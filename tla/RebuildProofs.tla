---------------------------- MODULE RebuildProofs ----------------------------
(***************************************************************************)
(* Proofs about a users table that is rebuilt.  Of Rebuild: the jobs that  *)
(* replace the table lose no user and no password, for any users, faults   *)
(* and crashes.  Of UserIds: an id taken from a list means, until the      *)
(* table is rebuilt, the user it was shown with, or nobody.                *)
(***************************************************************************)
EXTENDS Rebuild, UserIds, TLAPS

-----------------------------------------------------------------------------
(* Rebuild: types                                                          *)

\* The rows of some users.
LEMMA OnlyTyped == ASSUME NEW rs \in Rows, NEW us PROVE Only(rs, us) \in Rows
BY DEF Only, Rows

LEMMA RowTyped ==
    ASSUME NEW rs \in Rows, NEW u \in User, NEW value \in {Absent, Blank, Shown}
    PROVE  [rs EXCEPT ![u] = value] \in Rows
BY DEF Rows

LEMMA FaultTyped == ASSUME faults \in 0 .. MaxFault, Fault PROVE faults' \in 0 .. MaxFault
BY MaxFaultIsNat DEF Fault

LEMMA ListsTyped ==
    ASSUME rows \in Rows, faults \in 0 .. MaxFault, NEW list \in Lists
    PROVE  list \in Rows /\ (Listed(list) => faults' \in 0 .. MaxFault)
BY OnlyTyped, FaultTyped DEF Lists, Listed

\* The steps of UpgradeDB and the scripts each keep the job a job.
LEMMA UpgradeTypes == ASSUME TypeOK, Upgrade PROVE TypeOK'
<1>. USE DEF TypeOK
<1>0. NoRows \in Rows
  BY DEF NoRows, Rows
<1>1. CASE UpgradeStart
  BY <1>0, <1>1 DEF UpgradeStart, outside, counts
<1>2. CASE ShowPass
  BY <1>2, FaultTyped DEF ShowPass, Goto, outside
<1>3. CASE AlterPass
  BY <1>0, <1>3, FaultTyped DEF AlterPass, Goto, Ends, Idle, outside, NewColumns
<1>4. CASE ListUsers
  <2>1. CASE Ends /\ faults' \in 0 .. MaxFault
    BY <1>0, <1>4, <2>1 DEF ListUsers, Ends, Idle, outside
  <2>2. ASSUME NEW list \in Lists, Listed(list), job' = [job EXCEPT !.pc = "migrate", !.list = list]
        PROVE  TypeOK'
    BY <1>4, <2>2, ListsTyped DEF ListUsers, outside
  <2>. QED
    BY <1>4, <2>1, <2>2, FaultTyped DEF ListUsers
<1>5. ASSUME NEW u \in User, MigrateSkip(u) PROVE TypeOK'
  BY <1>5, FaultTyped, RowTyped DEF MigrateSkip, outside
<1>6. ASSUME NEW u \in User, MigrateUpdate(u) PROVE TypeOK'
  <2>1. rows' \in Rows /\ faults' \in 0 .. MaxFault
    BY <1>6, FaultTyped, RowTyped DEF MigrateUpdate
  <2>2. job' = Idle \/ job' = [job EXCEPT !.pc = "forget", !.now = {u}]
    BY <1>6 DEF MigrateUpdate, Ends
  <2>3. CASE job' = Idle
    BY <1>0, <1>6, <2>1, <2>3 DEF MigrateUpdate, Idle, outside
  <2>4. CASE job' = [job EXCEPT !.pc = "forget", !.now = {u}]
    BY <1>6, <2>1, <2>4 DEF MigrateUpdate, outside
  <2>. QED
    BY <2>2, <2>3, <2>4
<1>7. ASSUME NEW u \in User, MigrateForget(u) PROVE TypeOK'
  BY <1>7, FaultTyped, RowTyped DEF MigrateForget, outside
<1>8. CASE MigrateDone
  BY <1>8 DEF MigrateDone, Goto, counts
<1>9. CASE ShowDays
  BY <1>9, FaultTyped DEF ShowDays, Goto, outside
<1>10. CASE AlterDays
  BY <1>0, <1>10, FaultTyped DEF AlterDays, Goto, Ends, Idle, outside, NewColumns
<1>11. CASE ShowUtf8
  BY <1>0, <1>11, FaultTyped DEF ShowUtf8, Goto, Ends, Idle, outside
<1>12. CASE DumpOpen
  BY <1>12 DEF DumpOpen, Goto, counts, OnlyInFile, Present
<1>13. CASE DumpFails
  BY <1>13, FaultTyped DEF DumpFails, Goto, outside
<1>14. CASE Dump
  BY <1>14, ListsTyped DEF Dump, Goto, outside, Present
<1>15. CASE ReadFile
  BY <1>15, FaultTyped DEF ReadFile, Goto, outside
<1>16. CASE DumpOpenFails
  BY <1>16, FaultTyped DEF DumpOpenFails, Goto, outside, OtherInFile
<1>. QED
  BY <1>1, <1>2, <1>3, <1>4, <1>5, <1>6, <1>7, <1>8, <1>9, <1>10, <1>11, <1>12, <1>13,
     <1>14, <1>15, <1>16 DEF Upgrade

LEMMA ScriptTypes == ASSUME TypeOK, Script PROVE TypeOK'
<1>. USE DEF TypeOK
<1>0. NoRows \in Rows
  BY DEF NoRows, Rows
<1>1. CASE Breaks
  BY <1>1, FaultTyped DEF Breaks, Goto, outside, Present
<1>2. CASE Drop
  BY <1>0, <1>2 DEF Drop, Goto, counts, Present
<1>3. CASE Create
  BY <1>3 DEF Create, Goto, counts
<1>4. ASSUME NEW u \in User, Insert(u) PROVE TypeOK'
  <2>1. job.list[u] \in {Absent, Blank, Shown}
    BY DEF Rows
  <2>. QED
    BY <1>4, <2>1, RowTyped DEF Insert, counts
<1>5. CASE Inserted
  BY <1>5 DEF Inserted, Goto, counts
<1>6. CASE Remove
  BY <1>0, <1>6, FaultTyped DEF Remove, Ends, Idle, outside
<1>. QED
  BY <1>1, <1>2, <1>3, <1>4, <1>5, <1>6 DEF Script

LEMMA RebuildTypes == ASSUME TypeOK, [Next]_vars PROVE TypeOK'
<1>. USE DEF TypeOK
<1>0. NoRows \in Rows
  BY DEF NoRows, Rows
<1>1. CASE ImportCsv
  <2>1. PICK us \in SUBSET User :
            job' = [pc |-> "drop", kind |-> "csv", now |-> {},
                    list |-> [u \in User |-> IF u \in us THEN Shown ELSE Absent]]
    BY <1>1 DEF ImportCsv
  <2>2. [u \in User |-> IF u \in us THEN Shown ELSE Absent] \in Rows
    BY DEF Rows
  <2>. QED
    BY <1>1, <2>1, <2>2 DEF ImportCsv, counts
<1>2. CASE ImportSql
  BY <1>2 DEF ImportSql, counts
<1>3. ASSUME NEW u \in User, CreateUser(u) PROVE TypeOK'
  BY <1>3, RowTyped DEF CreateUser, counts
<1>4. ASSUME NEW u \in User, DelUser(u) PROVE TypeOK'
  BY <1>4, RowTyped DEF DelUser, counts
<1>5. CASE Crash
  BY <1>0, <1>5, MaxFaultIsNat DEF Crash, Ends, Idle, Present
<1>6. CASE UNCHANGED vars
  BY <1>6 DEF vars
<1>. QED
  BY <1>1, <1>2, <1>3, <1>4, <1>5, <1>6, UpgradeTypes, ScriptTypes DEF Next

LEMMA TypeInit == Init => TypeOK
<1> SUFFICES ASSUME Init PROVE TypeOK
  OBVIOUS
<1>1. rows \in Rows /\ kept \subseteq User /\ owned \subseteq User
  BY DEF Init, Rows
<1>2. NoRows \in Rows
  BY DEF NoRows, Rows
<1>3. /\ table \in [there : BOOLEAN, columns : SUBSET NewColumns, utf8 : BOOLEAN]
      /\ file = NoFile /\ disturbed = {} /\ faults = 0 /\ crashes = 0
  BY DEF Init
<1>4. Idle \in [pc : {"idle"}, kind : {"none"}, list : Rows, now : SUBSET User] /\ job = Idle
  BY <1>2 DEF Init, Idle
<1>. QED
  BY <1>1, <1>3, <1>4, MaxFaultIsNat DEF TypeOK

\* The variables of Rebuild keep their types.
THEOREM TypeCorrect == Spec => []TypeOK
<1>1. TypeOK /\ [Next]_vars => TypeOK'
  BY RebuildTypes
<1>. QED
  BY <1>1, TypeInit, PTL DEF Spec
-----------------------------------------------------------------------------
(* Rebuild: what holds between two statements                              *)

\* The steps of UpgradeDB before the file is run.
Upgrading == {"showPass", "alterPass", "list", "migrate", "forget", "showDays",
              "alterDays", "showUtf8", "dumpOpen", "dumpQuery", "read"}

\* A script holds what is in the file, apart from what it has inserted; passwords
\* are only moved while no file is left that has a user without one.
JobInv ==
    /\ job.pc \in Upgrading => job.kind = "upgrade"
    /\ job.pc = "dumpQuery" => file = EmptyFile
    /\ job.pc = "create" => ~table.there
    /\ job.pc \in {"drop", "create", "insert"} /\ job.kind # "csv" =>
          file \in Rows /\ \A u \in User : job.list[u] \in {Absent, file[u]}
    /\ job.pc = "drop" /\ job.kind # "csv" => job.list = file
    /\ job.pc \in {"alterPass", "list", "migrate", "forget"} /\ file \in Rows =>
          \A u \in User : file[u] = Absent
    /\ job.pc = "forget" => \A u \in job.now : rows[u] # Blank
    /\ file \in Rows /\ table.columns # NewColumns => \A u \in User : file[u] = Absent

\* Wherever a user is without his password, it is in LevelDB.
BlankIsKept(u) == u \notin kept =>
    /\ rows[u] # Blank
    /\ file \in Rows => file[u] # Blank
    /\ job.pc \in {"drop", "create", "insert"} => job.list[u] # Blank

\* Where the row of a user is, at each step of a rebuild.
Tracked(u) ==
    /\ u \in owned => Copy(u) # Absent
    /\ rows[u] # Absent => u \in owned
    /\ job.pc \in {"dumpQuery", "read", "drop"} /\ job.kind = "upgrade" /\ u \in owned =>
          rows[u] # Absent
    /\ job.pc \in {"read", "drop"} /\ job.kind = "upgrade" /\ file \in Rows =>
          (rows[u] # Absent => file[u] # Absent) /\ (file[u] # Absent => u \in owned)
    /\ job.pc \in {"create", "insert"} /\ job.list[u] # Absent => u \in owned
    /\ job.pc \in {"create", "insert", "remove"} /\ job.kind = "upgrade" /\ u \in owned =>
          rows[u] # Absent \/ (job.pc # "remove" /\ job.list[u] # Absent)

RebuildInv ==
    /\ JobInv
    /\ \A u \in User : BlankIsKept(u)
    /\ \A u \in User \ disturbed : Tracked(u)

LEMMA JobStep == ASSUME TypeOK, JobInv, [Next]_vars PROVE JobInv'
<1>. USE DEF TypeOK, At, Goto, Upgrading
<1>1. CASE UpgradeStart \/ ShowPass \/ AlterPass \/ MigrateDone \/ ShowDays \/ AlterDays
  BY <1>1 DEF UpgradeStart, ShowPass, AlterPass, MigrateDone, ShowDays, AlterDays,
              JobInv, Ends, Idle, Has, NewColumns, outside, counts
<1>2. CASE ListUsers
  <2>1. \/ job' = Idle
        \/ \E list \in Lists : job' = [job EXCEPT !.pc = "migrate", !.list = list]
    BY <1>2 DEF ListUsers, Ends
  <2>2. CASE job' = Idle
    BY <1>2, <2>2 DEF ListUsers, JobInv, Idle, outside
  <2>3. ASSUME NEW list \in Lists, job' = [job EXCEPT !.pc = "migrate", !.list = list]
        PROVE  JobInv'
    BY <1>2, <2>3 DEF ListUsers, JobInv, outside
  <2>. QED
    BY <2>1, <2>2, <2>3
<1>3. ASSUME NEW u \in User, MigrateSkip(u) PROVE JobInv'
  BY <1>3 DEF MigrateSkip, JobInv, outside
<1>4. ASSUME NEW u \in User, MigrateUpdate(u) PROVE JobInv'
  <2>1. CASE job' = Idle
    BY <1>4, <2>1 DEF MigrateUpdate, JobInv, Idle, outside
  <2>2. CASE job' = [job EXCEPT !.pc = "forget", !.now = {u}] /\ rows'[u] # Blank
    BY <1>4, <2>2 DEF MigrateUpdate, JobInv, outside
  <2>3. rows[u] = Absent \/ [rows EXCEPT ![u] = Shown][u] = Shown
    BY DEF Rows
  <2>. QED
    BY <1>4, <2>1, <2>2, <2>3 DEF MigrateUpdate, Ends, Absent, Blank, Shown
<1>5. ASSUME NEW u \in User, MigrateForget(u) PROVE JobInv'
  BY <1>5 DEF MigrateForget, JobInv, outside
<1>6. CASE ShowUtf8 \/ DumpOpen \/ DumpOpenFails \/ DumpFails \/ ReadFile
  <2>1. CASE ShowUtf8
    BY <2>1 DEF ShowUtf8, Ends, Idle, JobInv, outside
  <2>2. CASE DumpOpen \/ DumpOpenFails \/ DumpFails
    BY <2>2, FilesAreNoTables DEF DumpOpen, DumpOpenFails, DumpFails, JobInv, outside, counts
  <2>3. CASE ReadFile
    BY <2>3, FilesAreNoTables DEF ReadFile, JobInv, outside
  <2>. QED
    BY <1>6, <2>1, <2>2, <2>3
<1>7. CASE Dump
  <2>1. PICK list \in Lists : file' = list
    BY <1>7 DEF Dump
  <2>2. table.columns # NewColumns => \A u \in User : file'[u] = Absent
    BY <1>7, <2>1 DEF Dump, CanList, Lists, Only, Present, Rows
  <2>3. job' = [job EXCEPT !.pc = "read"] /\ table' = table /\ rows' = rows
    BY <1>7 DEF Dump
  <2>. QED
    BY <1>7, <2>2, <2>3 DEF JobInv, Dump
<1>8. CASE Breaks \/ Drop \/ Create \/ Inserted \/ Remove
  BY <1>8, FilesAreNoTables DEF Breaks, Drop, Create, Inserted, Remove, Ends, Idle,
              JobInv, outside, counts
<1>9. ASSUME NEW u \in User, Insert(u) PROVE JobInv'
  BY <1>9 DEF Insert, JobInv, Rows, counts
<1>10. CASE ImportCsv \/ ImportSql \/ Crash
  BY <1>10 DEF ImportCsv, ImportSql, Crash, Ends, Idle, JobInv, counts
<1>11. ASSUME NEW u \in User, CreateUser(u) \/ DelUser(u) PROVE JobInv'
  <2>1. rows' = [rows EXCEPT ![u] = Shown] \/ rows' = [rows EXCEPT ![u] = Absent]
    BY <1>11 DEF CreateUser, DelUser
  <2>2. \A v \in User : rows'[v] = Blank => rows[v] = Blank
    BY <2>1 DEF Rows, Absent, Blank, Shown
  <2>. QED
    BY <1>11, <2>2 DEF CreateUser, DelUser, JobInv, counts
<1>12. CASE UNCHANGED vars
  BY <1>12 DEF vars, JobInv
<1>. QED
  BY <1>1, <1>2, <1>3, <1>4, <1>5, <1>6, <1>7, <1>8, <1>9, <1>10, <1>11, <1>12
     DEF Next, Upgrade, Script

\* Before the dump nothing but a migration, and the handlers, touch the rows.
Early == {"idle", "showPass", "alterPass", "list", "migrate", "forget", "showDays",
          "alterDays", "showUtf8", "dumpOpen"}

LEMMA EarlyStep ==
    ASSUME TypeOK,
           UpgradeStart \/ ShowPass \/ AlterPass \/ MigrateDone \/ ShowDays \/ AlterDays
             \/ ShowUtf8 \/ ListUsers
    PROVE  /\ job.pc \in Early /\ job'.pc \in Early
           /\ rows' = rows /\ kept' = kept /\ file' = file
           /\ owned' = owned /\ disturbed' = disturbed
<1>. USE DEF TypeOK, At, Goto, Ends, Idle, Early, outside, counts
<1>1. CASE UpgradeStart \/ MigrateDone
  BY <1>1 DEF UpgradeStart, MigrateDone
<1>2. CASE ShowPass \/ ShowDays \/ ShowUtf8
  BY <1>2 DEF ShowPass, ShowDays, ShowUtf8
<1>3. CASE AlterPass \/ AlterDays
  BY <1>3 DEF AlterPass, AlterDays
<1>4. CASE ListUsers
  <2>1. CASE job' = Idle
    BY <1>4, <2>1 DEF ListUsers
  <2>2. ASSUME NEW list \in Lists, job' = [job EXCEPT !.pc = "migrate", !.list = list]
        PROVE  job'.pc = "migrate"
    BY <2>2
  <2>. QED
    BY <1>4, <2>1, <2>2 DEF ListUsers
<1>. QED
  BY <1>1, <1>2, <1>3, <1>4

LEMMA UpdateStep ==
    ASSUME TypeOK, NEW v \in User, MigrateUpdate(v)
    PROVE  /\ job.pc = "migrate" /\ job'.pc \in {"idle", "forget"}
           /\ kept' = kept /\ file' = file /\ owned' = owned /\ disturbed' = disturbed
<1>. USE DEF TypeOK, At
<1>1. CASE job' = Idle
  BY <1>1 DEF MigrateUpdate, Idle, outside
<1>2. CASE job' = [job EXCEPT !.pc = "forget", !.now = {v}]
  BY <1>2 DEF MigrateUpdate, outside
<1>. QED
  BY <1>1, <1>2 DEF MigrateUpdate, Ends

LEMMA BlankStep ==
    ASSUME TypeOK, JobInv, \A u \in User : BlankIsKept(u), [Next]_vars, NEW u \in User
    PROVE  BlankIsKept(u)'
<1>. USE DEF TypeOK, At, Goto, BlankIsKept, Absent, Blank, Shown
<1>0. BlankIsKept(u)
  OBVIOUS
<1>1. CASE UpgradeStart \/ ShowPass \/ AlterPass \/ MigrateDone \/ ShowDays \/ AlterDays
           \/ ShowUtf8 \/ ListUsers
  BY <1>0, <1>1, EarlyStep DEF Early
<1>2. ASSUME NEW v \in User, MigrateSkip(v) PROVE BlankIsKept(u)'
  BY <1>0, <1>2 DEF MigrateSkip, outside
<1>3. ASSUME NEW v \in User, MigrateUpdate(v) PROVE BlankIsKept(u)'
  <2>1. rows'[u] = Blank => rows[u] = Blank
    BY <1>3 DEF MigrateUpdate, Rows
  <2>. QED
    BY <1>0, <1>3, <2>1, UpdateStep
<1>4. ASSUME NEW v \in User, MigrateForget(v) PROVE BlankIsKept(u)'
  <2>1. rows[v] # Blank /\ ~(file \in Rows /\ file[v] = Blank)
    BY <1>4 DEF MigrateForget, JobInv
  <2>2. /\ job'.pc = "migrate" /\ rows' = rows /\ file' = file
        /\ kept' = kept \/ kept' = kept \ {v}
    BY <1>4 DEF MigrateForget
  <2>. QED
    BY <1>0, <2>1, <2>2
<1>5. CASE DumpOpen \/ DumpOpenFails \/ DumpFails
  BY <1>0, <1>5, FilesAreNoTables DEF DumpOpen, DumpOpenFails, DumpFails, outside, counts
<1>6. CASE Dump
  <2>1. PICK list \in Lists : file' = list
    BY <1>6 DEF Dump
  <2>2. file'[u] = Blank => rows[u] = Blank
    BY <2>1 DEF Lists, Only
  <2>3. job'.pc = "read" /\ rows' = rows /\ kept' = kept
    BY <1>6 DEF Dump, outside
  <2>. QED
    BY <1>0, <2>2, <2>3
<1>7. CASE ReadFile
  BY <1>0, <1>7 DEF ReadFile, outside
<1>8. CASE Breaks \/ Drop \/ Create \/ Inserted \/ Remove
  BY <1>0, <1>8, FilesAreNoTables DEF Breaks, Drop, Create, Inserted, Remove, Ends, Idle,
              NoRows, outside, counts
<1>9. ASSUME NEW v \in User, Insert(v) PROVE BlankIsKept(u)'
  <2>1. rows'[u] = rows[u] \/ rows'[u] = job.list[u]
    BY <1>9 DEF Insert, Rows
  <2>2. job'.list[u] = job.list[u] \/ job'.list[u] = Absent
    BY <1>9 DEF Insert, Rows
  <2>3. job'.pc = "insert" /\ job.pc = "insert" /\ file' = file /\ kept' = kept
    BY <1>9 DEF Insert
  <2>. QED
    BY <1>0, <2>1, <2>2, <2>3
<1>10. CASE ImportCsv \/ ImportSql \/ Crash
  BY <1>0, <1>10 DEF ImportCsv, ImportSql, Crash, Ends, Idle, counts
<1>11. ASSUME NEW v \in User, CreateUser(v) \/ DelUser(v) PROVE BlankIsKept(u)'
  <2>1. rows'[u] = Blank => rows[u] = Blank
    BY <1>11 DEF CreateUser, DelUser, Rows
  <2>. QED
    BY <1>0, <1>11, <2>1 DEF CreateUser, DelUser, counts
<1>12. CASE UNCHANGED vars
  BY <1>0, <1>12 DEF vars
<1>. QED
  BY <1>1, <1>2, <1>3, <1>4, <1>5, <1>6, <1>7, <1>8, <1>9, <1>10, <1>11, <1>12
     DEF Next, Upgrade, Script

LEMMA TrackStep ==
    ASSUME TypeOK, JobInv, \A u \in User \ disturbed : Tracked(u), [Next]_vars,
           NEW u \in User \ disturbed'
    PROVE  Tracked(u)'
<1>. USE DEF TypeOK, At, Goto, Tracked, Copy, Absent, Blank, Shown
<1>0. u \notin disturbed => Tracked(u)
  OBVIOUS
<1>1. CASE UpgradeStart \/ ShowPass \/ AlterPass \/ MigrateDone \/ ShowDays \/ AlterDays
           \/ ShowUtf8 \/ ListUsers
  BY <1>0, <1>1, EarlyStep DEF Early
<1>2. ASSUME NEW v \in User, MigrateSkip(v) PROVE Tracked(u)'
  BY <1>0, <1>2 DEF MigrateSkip, outside
<1>3. ASSUME NEW v \in User, MigrateUpdate(v) PROVE Tracked(u)'
  <2>1. rows'[u] = Absent <=> rows[u] = Absent
    BY <1>3 DEF MigrateUpdate, Rows
  <2>. QED
    BY <1>0, <1>3, <2>1, UpdateStep
<1>4. ASSUME NEW v \in User, MigrateForget(v) PROVE Tracked(u)'
  BY <1>0, <1>4 DEF MigrateForget
<1>5. CASE DumpOpen
  BY <1>0, <1>5, FilesAreNoTables DEF DumpOpen, OnlyInFile, Present, counts
<1>6. CASE DumpOpenFails \/ DumpFails
  BY <1>0, <1>6, FilesAreNoTables DEF DumpOpenFails, OtherInFile, DumpFails, JobInv, outside
<1>7. CASE Dump
  <2>1. PICK list \in Lists : file' = list /\ disturbed' = disturbed \cup (Present(rows) \ Present(list))
    BY <1>7 DEF Dump
  <2>2. file'[u] # Absent <=> rows[u] # Absent
    BY <2>1 DEF Lists, Only, Present
  <2>3. /\ job'.pc = "read" /\ job.pc = "dumpQuery" /\ rows' = rows /\ owned' = owned
        /\ job'.kind = job.kind /\ file = EmptyFile /\ job.kind = "upgrade"
    BY <1>7 DEF Dump, outside, JobInv, Upgrading
  <2>. QED
    BY <1>0, <2>1, <2>2, <2>3, FilesAreNoTables
<1>8. CASE ReadFile
  BY <1>0, <1>8 DEF ReadFile, JobInv, Upgrading, outside
<1>9. CASE Breaks
  BY <1>0, <1>9 DEF Breaks, Present, outside
<1>10. CASE Drop
  <2>1. /\ job'.pc = "create" /\ job'.kind = job.kind /\ job'.list = job.list
        /\ rows'[u] = Absent
    BY <1>10 DEF Drop, NoRows
  <2>2. CASE job.kind = "upgrade"
    BY <1>0, <1>10, <2>1, <2>2 DEF Drop, JobInv
  <2>3. CASE job.kind # "upgrade"
    BY <1>10, <2>1, <2>3 DEF Drop, Present
  <2>. QED
    BY <2>2, <2>3
<1>11. CASE Create \/ Inserted
  BY <1>0, <1>11 DEF Create, Inserted, Present, counts
<1>12. CASE Remove
  BY <1>0, <1>12, FilesAreNoTables DEF Remove, Ends, Idle, outside
<1>13. ASSUME NEW v \in User, Insert(v) PROVE Tracked(u)'
  <2>1. /\ job'.pc = "insert" /\ job.pc = "insert" /\ job'.kind = job.kind
        /\ file' = file /\ owned' = owned /\ disturbed' = disturbed
    BY <1>13 DEF Insert
  <2>2. CASE v = u
    BY <1>0, <1>13, <2>1, <2>2 DEF Insert, Present, Rows
  <2>3. CASE v # u
    <3>1. rows'[u] = rows[u] /\ job'.list[u] = job.list[u]
      BY <1>13, <2>3 DEF Insert, Rows
    <3>. QED
      BY <1>0, <2>1, <3>1
  <2>. QED
    BY <2>2, <2>3
<1>14. CASE ImportCsv \/ ImportSql
  BY <1>0, <1>14 DEF ImportCsv, ImportSql, counts
<1>15. CASE Crash
  BY <1>0, <1>15 DEF Crash, Ends, Idle, Present, JobInv
<1>16. ASSUME NEW v \in User, CreateUser(v) PROVE Tracked(u)'
  <2>1. rows'[u] = IF v = u THEN Shown ELSE rows[u]
    BY <1>16 DEF CreateUser, Rows
  <2>2. /\ job' = job /\ file' = file /\ owned' = owned \cup {v}
        /\ disturbed' = IF Overtaken THEN disturbed \cup {v} ELSE disturbed
    BY <1>16 DEF CreateUser
  <2>. QED
    BY <1>0, <2>1, <2>2 DEF Overtaken
<1>17. ASSUME NEW v \in User, DelUser(v) PROVE Tracked(u)'
  <2>1. rows'[u] = IF v = u THEN Absent ELSE rows[u]
    BY <1>17 DEF DelUser, Rows
  <2>2. /\ job' = job /\ file' = file /\ owned' = owned \ {v} /\ table.there
        /\ disturbed' = IF Overtaken \/ (job.pc = "insert" /\ job.list[v] # Absent)
                          THEN disturbed \cup {v} ELSE disturbed
    BY <1>17 DEF DelUser, CanList, Present
  <2>. QED
    BY <1>0, <2>1, <2>2 DEF Overtaken, JobInv
<1>18. CASE UNCHANGED vars
  BY <1>0, <1>18 DEF vars
<1>. QED
  BY <1>1, <1>2, <1>3, <1>4, <1>5, <1>6, <1>7, <1>8, <1>9, <1>10, <1>11, <1>12, <1>13,
     <1>14, <1>15, <1>16, <1>17, <1>18
     DEF Next, Upgrade, Script

LEMMA RebuildInvariant == Spec => [](TypeOK /\ RebuildInv)
<1>1. Init => TypeOK /\ RebuildInv
  <2> SUFFICES ASSUME Init PROVE RebuildInv
    BY TypeInit
  <2>1. PICK us \in SUBSET User, shown \in {Blank, Shown} :
            /\ rows = [u \in User |-> IF u \in us THEN shown ELSE Absent]
            /\ kept = IF shown = Blank THEN us ELSE {}
            /\ owned = us
    BY DEF Init
  <2>2. file \notin Rows /\ job.pc = "idle"
    BY FilesAreNoTables DEF Init, Idle
  <2>3. JobInv
    BY <2>2 DEF JobInv, Upgrading
  <2>4. ASSUME NEW u \in User PROVE BlankIsKept(u) /\ Tracked(u)
    BY <2>1, <2>2 DEF BlankIsKept, Tracked, Copy, At, Absent, Blank, Shown
  <2>. QED
    BY <2>3, <2>4 DEF RebuildInv
<1>2. TypeOK /\ RebuildInv /\ [Next]_vars => (TypeOK /\ RebuildInv)'
  BY RebuildTypes, JobStep, BlankStep, TrackStep DEF RebuildInv
<1>. QED
  BY <1>1, <1>2, PTL DEF Spec

\* No user is lost, and none comes back, in the jobs that replace the table,
\* however many statements fail, processes die and handlers interfere.
THEOREM UsersAreKept == Spec => []UsersKept
<1>1. RebuildInv => UsersKept
  BY DEF RebuildInv, Tracked, UsersKept
<1>. QED
  BY <1>1, RebuildInvariant, PTL

\* The shown password of such a user is in LevelDB until it is in the table.
THEOREM PasswordsAreKept == Spec => []PasswordsKept
<1>1. TypeOK /\ RebuildInv => PasswordsKept
  <2> SUFFICES ASSUME TypeOK, RebuildInv, NEW u \in owned \ disturbed
               PROVE  u \in kept \/ Copy(u) = Shown
    BY DEF PasswordsKept
  <2>1. u \in User /\ BlankIsKept(u) /\ Tracked(u)
    BY DEF TypeOK, RebuildInv
  <2>2. Copy(u) \in {Blank, Shown}
    BY <2>1 DEF TypeOK, Rows, Tracked, Copy, Absent
  <2>. QED
    BY <2>1, <2>2 DEF BlankIsKept, Copy, At, Absent, Blank
<1>. QED
  BY <1>1, RebuildInvariant, PTL

-----------------------------------------------------------------------------
(* UserIds                                                                 *)

\* Whoever stays before the same list stays in a place.
LEMMA SameIsPlace ==
    ASSUME NEW c \in Person, person \in [Person -> Place],
           NEW pc \in {"away", "sees", "load", "acts"}, NEW op \in ById,
           NEW ids \in SUBSET RowId
    PROVE  Same(c, pc, op, ids) \in Place
<1>1. person[c] \in Place
  OBVIOUS
<1> QED  BY <1>1 DEF Same, Place

\* A step of one person leaves everyone in a place.
LEMMA PersonTypes ==
    ASSUME person \in [Person -> Place], userAt \in Content, era \in Nat,
           NEW c \in Person, PersonStep(c)
    PROVE  person' \in [Person -> Place]
<1> SUFFICES ASSUME NEW p \in Place, person' = [person EXCEPT ![c] = p]
             PROVE  person' \in [Person -> Place]
  <2>1. "others" \in ById
    BY DEF ById
  <2>2. ASSUME NEW ids \in SUBSET RowId, NEW pc \in {"sees", "acts"}
        PROVE  [pc |-> pc, list |-> userAt, read |-> era, op |-> "others", ids |-> ids] \in Place
    BY <2>1 DEF Place
  <2>3. CASE SeeList(c)
    BY <2>2, <2>3 DEF SeeList
  <2>4. CASE Leave(c)
    <3>1. Away \in Place
      BY DEF Away, Place, ById, NoContent, Content
    <3> QED  BY <2>4, <3>1 DEF Leave
  <2>5. ASSUME NEW op \in ById, NEW i \in RowId, Choose(c, op, i)
        PROVE  person' \in [Person -> Place]
    <3>1. Same(c, IF op = "others" THEN "acts" ELSE "load", op, {i}) \in Place
      BY SameIsPlace
    <3> QED  BY <2>5, <3>1 DEF Choose
  <2>6. ASSUME NEW ids \in SUBSET RowId, TaskSelects(c, ids)
        PROVE  person' \in [Person -> Place]
    BY <2>2, <2>6 DEF TaskSelects
  <2>7. CASE LoadById(c)
    <3>1. person[c].op \in ById /\ person[c].ids \in SUBSET RowId
      BY DEF Place
    <3>2. Same(c, "acts", person[c].op, person[c].ids) \in Place
      BY <3>1, SameIsPlace
    <3> QED  BY <2>7, <3>2 DEF LoadById
  <2>8. CASE Back(c)
    <3>1. Same(c, "sees", "others", {}) \in Place
      BY <2>1, SameIsPlace
    <3> QED  BY <2>8, <3>1 DEF Back
  <2> QED  BY <2>3, <2>4, <2>5, <2>6, <2>7, <2>8 DEF PersonStep, Act, GiveUp
<1> QED  OBVIOUS

\* A new row, by the handlers or by a rebuild.
LEMMA DealTypes ==
    ASSUME userAt \in Content, freshId \in 1 .. LastId + 1, NEW u \in Owner, Deal(u)
    PROVE  userAt' \in Content /\ freshId' \in 1 .. LastId + 1
BY IdsAreNatural DEF Deal, Content, RowId

\* Writing by id keeps the type of the table.
LEMMA ActTypes ==
    ASSUME userAt \in Content, NEW c \in Person, Act(c)
    PROVE  userAt' \in Content
<1> DEFINE gone(i) == person[c].op = "delete" /\ i \in person[c].ids
<1>1. userAt' = [i \in RowId |-> IF gone(i) THEN Nobody ELSE userAt[i]]
  BY DEF Act
<1> HIDE DEF gone
<1> QED  BY <1>1 DEF Content

\* The variables keep their types.
THEOREM IdsTypeCorrect == IdsSpec => []IdsTypeOK
<1>1. IdsInit => IdsTypeOK
  <2> SUFFICES ASSUME IdsInit PROVE IdsTypeOK
    OBVIOUS
  <2>1. NoContent \in Content
    BY DEF NoContent, Content
  <2>2. Away \in Place
    BY <2>1 DEF Away, Place, ById
  <2> QED  BY <2>1, <2>2, IdsAreNatural DEF IdsInit, IdsTypeOK, NoRebuild
<1>2. IdsTypeOK /\ [IdsNext]_idsVars => IdsTypeOK'
  <2> SUFFICES ASSUME IdsTypeOK, [IdsNext]_idsVars PROVE IdsTypeOK'
    OBVIOUS
  <2> USE DEF IdsTypeOK
  <2>1. ASSUME NEW c \in Person, PersonStep(c) PROVE IdsTypeOK'
    <3>1. person' \in [Person -> Place]
      BY <2>1, PersonTypes, IdsAreNatural
    <3>2. userAt' \in Content
      BY <2>1, ActTypes DEF PersonStep, SeeList, Leave, Choose, TaskSelects, LoadById, GiveUp, users
    <3>3. there' = there /\ freshId' = freshId /\ rebuild' = rebuild /\ era' = era
      BY <2>1 DEF PersonStep, SeeList, Leave, Choose, TaskSelects, LoadById, Act, GiveUp, users
    <3> QED  BY <3>1, <3>2, <3>3
  <2>2. ASSUME NEW u \in Owner, AddUser(u) PROVE IdsTypeOK'
    BY <2>2, DealTypes DEF AddUser
  <2>3. CASE RebuildStep
    <3>1. ASSUME NEW us \in SUBSET Owner, StartRebuild(us) PROVE IdsTypeOK'
      BY <3>1 DEF StartRebuild, users
    <3>2. CASE DropTable
      <4>1. NoContent \in Content
        BY DEF NoContent, Content
      <4>2. freshId' \in 1 .. LastId + 1 /\ era' \in 0 .. MaxEra
        BY <3>2, IdsAreNatural DEF DropTable
      <4>3. /\ rebuild' \in [pc : {"idle", "drop", "create", "insert"}, left : SUBSET Owner]
            /\ rebuild'.pc = "create"
        BY <3>2 DEF DropTable
      <4> QED  BY <3>2, <4>1, <4>2, <4>3 DEF DropTable
    <3>3. CASE CreateTable
      BY <3>3 DEF CreateTable
    <3>4. ASSUME NEW u \in Owner, InsertLine(u) PROVE IdsTypeOK'
      BY <3>4, DealTypes DEF InsertLine
    <3>5. CASE EndRebuild
      BY <3>5 DEF EndRebuild, NoRebuild, users
    <3> QED  BY <2>3, <3>1, <3>2, <3>3, <3>4, <3>5 DEF RebuildStep
  <2>4. CASE UNCHANGED idsVars
    BY <2>4 DEF idsVars
  <2> QED  BY <2>1, <2>2, <2>3, <2>4 DEF IdsNext
<1> QED  BY <1>1, <1>2, PTL DEF IdsSpec

-----------------------------------------------------------------------------
(* What the lists of this era say of the table.                            *)

\* Ids not yet given out have no row.
FreshIsFree == \A i \in RowId : i >= freshId => userAt[i] = Nobody

\* A list that c read in this era: who is in it has kept the id or is gone, and
\* the id will not be given out again.
ListHolds(c) ==
    person[c].read = era =>
        \A i \in RowId : person[c].list[i] # Nobody =>
            i < freshId /\ userAt[i] \in {Nobody, person[c].list[i]}

\* Nobody works on an id that the list does not have.
IdsFromList(c) ==
    Is(c, "load") \/ Is(c, "acts") => \A i \in person[c].ids : person[c].list[i] # Nobody

PersonInv(c) == person[c].read <= era /\ ListHolds(c) /\ IdsFromList(c)

IdsInv == FreshIsFree /\ \A c \in Person : PersonInv(c)

LEMMA IdsInvHits == IdsTypeOK /\ IdsInv => HitsWhoWasSeen
<1> SUFFICES ASSUME IdsTypeOK, IdsInv, NEW c \in Person, Is(c, "load") \/ Is(c, "acts"),
                    person[c].read = era, NEW i \in person[c].ids
             PROVE  userAt[i] \in {Nobody, person[c].list[i]}
  BY DEF HitsWhoWasSeen
<1>1. i \in RowId
  BY DEF IdsTypeOK, Place
<1> QED  BY <1>1 DEF IdsInv, PersonInv, ListHolds, IdsFromList

\* Nothing is given out, a row only loses its user, and the era goes on: what
\* holds of a person who stays before the same list holds still.
LEMMA OthersHold ==
    ASSUME IdsTypeOK, NEW d \in Person, PersonInv(d), era' = era, freshId' = freshId,
           \A i \in RowId : userAt'[i] \in {Nobody, userAt[i]},
           person'[d].list = person[d].list, person'[d].read = person[d].read,
           IdsFromList(d)'
    PROVE  PersonInv(d)'
BY DEF PersonInv, ListHolds

\* A list that was just read, or none.
LEMMA NewListHolds ==
    ASSUME IdsTypeOK, FreshIsFree, NEW c \in Person, era' = era, freshId' = freshId,
           userAt' = userAt, IdsFromList(c)',
           \/ person'[c].list = userAt /\ person'[c].read = era
           \/ person'[c].list = NoContent /\ person'[c].read = 0
    PROVE  PersonInv(c)'
<1>1. \A i \in RowId : NoContent[i] = Nobody
  BY DEF NoContent
<1>2. freshId \in Nat /\ era \in Nat /\ \A i \in RowId : i \in Nat
  BY IdsAreNatural DEF IdsTypeOK, RowId
<1> QED  BY <1>1, <1>2 DEF PersonInv, ListHolds, FreshIsFree

\* Steps of a person.
LEMMA PersonKeepsInv ==
    ASSUME IdsTypeOK, IdsInv, NEW c \in Person, PersonStep(c)
    PROVE  IdsInv'
<1>1. era' = era /\ freshId' = freshId
  BY DEF PersonStep, SeeList, Leave, Choose, TaskSelects, LoadById, Act, GiveUp, users
<1>2. /\ \A i \in RowId : userAt'[i] \in {Nobody, userAt[i]}
      /\ ~Act(c) => userAt' = userAt
  <2>1. CASE Act(c)
    BY <2>1 DEF Act
  <2>2. CASE ~Act(c)
    BY <2>2 DEF PersonStep, SeeList, Leave, Choose, TaskSelects, LoadById, GiveUp, users
  <2> QED  BY <2>1, <2>2
<1>3. FreshIsFree'
  BY <1>1, <1>2 DEF IdsInv, FreshIsFree
<1>4. \A d \in Person \ {c} : person'[d] = person[d]
  BY DEF IdsTypeOK, PersonStep, SeeList, Leave, Choose, TaskSelects, LoadById, Act, GiveUp, Back
<1>5. ASSUME NEW d \in Person \ {c} PROVE PersonInv(d)'
  <2>1. PersonInv(d) /\ person'[d] = person[d]
    BY <1>4 DEF IdsInv
  <2>2. IdsFromList(d)'
    BY <2>1 DEF PersonInv, IdsFromList, Is
  <2> QED  BY <1>1, <1>2, <2>1, <2>2, OthersHold
<1>6. PersonInv(c)'
  <2> DEFINE stays == person'[c].list = person[c].list /\ person'[c].read = person[c].read
  <2>0. person[c] \in Place /\ PersonInv(c)
    BY DEF IdsTypeOK, IdsInv
  <2>1. CASE SeeList(c)
    <3>1. /\ person'[c].list = userAt /\ person'[c].read = era /\ person'[c].pc = "sees"
          /\ userAt' = userAt
      BY <2>1 DEF SeeList, IdsTypeOK, users
    <3> QED  BY <1>1, <3>1, NewListHolds DEF IdsInv, IdsFromList, Is
  <2>2. CASE Leave(c)
    <3>1. /\ person'[c].list = NoContent /\ person'[c].read = 0 /\ person'[c].pc = "away"
          /\ userAt' = userAt
      BY <2>2 DEF Leave, Away, IdsTypeOK, users
    <3> QED  BY <1>1, <3>1, NewListHolds DEF IdsInv, IdsFromList, Is
  <2>3. ASSUME NEW op \in ById, NEW i \in RowId, Choose(c, op, i) PROVE PersonInv(c)'
    <3>1. stays /\ person'[c].ids = {i} /\ person[c].list[i] # Nobody
      BY <2>3 DEF Choose, Same, IdsTypeOK
    <3>2. IdsFromList(c)'
      BY <3>1 DEF IdsFromList
    <3> QED  BY <1>1, <1>2, <2>0, <3>1, <3>2, OthersHold
  <2>4. ASSUME NEW ids \in SUBSET RowId, TaskSelects(c, ids) PROVE PersonInv(c)'
    <3>1. /\ person'[c].list = userAt /\ person'[c].read = era /\ person'[c].ids = ids
          /\ userAt' = userAt /\ \A i \in ids : userAt[i] # Nobody
      BY <2>4 DEF TaskSelects, IdsTypeOK, users
    <3>2. IdsFromList(c)'
      BY <3>1 DEF IdsFromList
    <3> QED  BY <1>1, <3>1, <3>2, NewListHolds DEF IdsInv
  <2>5. CASE LoadById(c)
    <3>1. stays /\ person'[c].ids = person[c].ids /\ Is(c, "load")
      BY <2>5 DEF LoadById, Same, IdsTypeOK
    <3>2. IdsFromList(c)'
      BY <2>0, <3>1 DEF PersonInv, IdsFromList
    <3> QED  BY <1>1, <1>2, <2>0, <3>1, <3>2, OthersHold
  <2>6. CASE Back(c)
    <3>1. stays /\ person'[c].ids = {}
      BY <2>6 DEF Back, Same, IdsTypeOK
    <3>2. IdsFromList(c)'
      BY <3>1 DEF IdsFromList
    <3> QED  BY <1>1, <1>2, <2>0, <3>1, <3>2, OthersHold
  <2> QED  BY <2>1, <2>2, <2>3, <2>4, <2>5, <2>6 DEF PersonStep, Act, GiveUp
<1> QED  BY <1>3, <1>5, <1>6 DEF IdsInv

\* A new row has an id that no list of this era has.
LEMMA DealKeepsInv ==
    ASSUME IdsTypeOK, IdsInv, NEW u \in Owner, Deal(u), era' = era, person' = person
    PROVE  IdsInv'
<1>1. freshId \in Nat /\ \A i \in RowId : i \in Nat
  BY IdsAreNatural DEF IdsTypeOK, RowId
<1>2. /\ freshId' = freshId + 1
      /\ \A i \in RowId : i # freshId => userAt'[i] = userAt[i]
  BY DEF Deal, IdsTypeOK, Content
<1>3. FreshIsFree'
  BY <1>1, <1>2 DEF IdsInv, FreshIsFree
<1>4. ASSUME NEW d \in Person PROVE PersonInv(d)'
  <2>1. PersonInv(d)
    BY DEF IdsInv
  <2>2. IdsFromList(d)'
    BY <2>1 DEF PersonInv, IdsFromList, Is
  <2>3. ListHolds(d)'
    BY <1>1, <1>2, <2>1 DEF PersonInv, ListHolds
  <2> QED  BY <2>1, <2>2, <2>3 DEF PersonInv
<1> QED  BY <1>3, <1>4 DEF IdsInv

\* Steps of a rebuild.  DROP begins another era.
LEMMA RebuildKeepsInv ==
    ASSUME IdsTypeOK, IdsInv, RebuildStep
    PROVE  IdsInv'
<1>1. ASSUME UNCHANGED <<userAt, freshId, person, era>> PROVE IdsInv'
  BY <1>1 DEF IdsInv, FreshIsFree, PersonInv, ListHolds, IdsFromList, Is
<1>2. CASE DropTable
  <2>1. person' = person /\ era' = era + 1 /\ userAt' = NoContent
    BY <1>2 DEF DropTable
  <2>2. FreshIsFree'
    BY <2>1 DEF FreshIsFree, NoContent
  <2>3. ASSUME NEW d \in Person PROVE PersonInv(d)'
    <3>1. person[d].read \in Nat /\ era \in Nat
      BY IdsAreNatural DEF IdsTypeOK, Place
    <3>2. person[d].read <= era /\ IdsFromList(d)
      BY DEF IdsInv, PersonInv
    <3>3. person'[d].read < era' /\ IdsFromList(d)'
      BY <2>1, <3>1, <3>2 DEF IdsFromList, Is
    <3> QED  BY <2>1, <3>1, <3>2, <3>3 DEF PersonInv, ListHolds
  <2> QED  BY <2>2, <2>3 DEF IdsInv
<1>3. ASSUME NEW u \in Owner, InsertLine(u) PROVE IdsInv'
  BY <1>3, DealKeepsInv DEF InsertLine
<1> QED  BY <1>1, <1>2, <1>3 DEF RebuildStep, StartRebuild, CreateTable, EndRebuild, users

\* Whoever is about to write a row by its id means the user who has it, for any
\* number of administrators, tasks, users, ids and rebuilds.
THEOREM IdsKeepTheirMeaning == IdsSpec => []HitsWhoWasSeen
<1>1. IdsInit => IdsInv
  BY DEF IdsInit, IdsInv, FreshIsFree, PersonInv, ListHolds, IdsFromList, Is, Away, NoContent
<1>2. IdsTypeOK /\ IdsInv /\ [IdsNext]_idsVars => IdsInv'
  <2> SUFFICES ASSUME IdsTypeOK, IdsInv, [IdsNext]_idsVars PROVE IdsInv'
    OBVIOUS
  <2>1. ASSUME NEW u \in Owner, AddUser(u) PROVE IdsInv'
    BY <2>1, DealKeepsInv DEF AddUser
  <2>2. CASE UNCHANGED idsVars
    BY <2>2 DEF idsVars, IdsInv, FreshIsFree, PersonInv, ListHolds, IdsFromList, Is
  <2> QED  BY <2>1, <2>2, PersonKeepsInv, RebuildKeepsInv DEF IdsNext
<1> QED  BY <1>1, <1>2, IdsTypeCorrect, IdsInvHits, PTL DEF IdsSpec

=============================================================================
