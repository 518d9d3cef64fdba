-------------------------------- MODULE Quota --------------------------------
(***************************************************************************)
(* Quota, traffic and expiry of the rows of the users table: the           *)
(* statements the web handlers run (core/mysql.go), the two scheduled      *)
(* tasks, each a query followed by an update of the ids it found, the      *)
(* restart of the trojan server that follows the daily one, and the trojan *)
(* server as far as the table shows it (external).                         *)
(*                                                                         *)
(* Columns no property here looks at are left out; Accounts has the names  *)
(* and passwords.  A row's place in the table is its id.                   *)
(***************************************************************************)
EXTENDS Integers, FiniteSets

CONSTANTS
    Id,         \* ids of the table
    MaxDay,     \* last day of the horizon; day 0 stands for "no date"
    MaxFault    \* bound on failed statements and queries, and on crashes

ASSUME BoundsArePositive == MaxDay \in Nat \ {0} /\ MaxFault \in Nat

Day == 1 .. MaxDay
NoDate == 0
Unlimited == -1
Limit == 1      \* any positive quota; one unit of traffic exhausts it

VARIABLES
    rows,       \* the table: a row, NoRow or Deleted
    today,      \* the date in Asia/Shanghai
    daily,      \* DailyCheckExpire in the job of daily_expire_check
    monthly,    \* MonthlyResetData in the job of monthly_reset
    online,     \* ids of users with a session on the trojan server
    redated,    \* auxiliary: ids whose date changed since daily's query
    requoted,   \* auxiliary: ids that got a quota since monthly's query
    missed,     \* auxiliary: ids monthly's query found and its list has not
    faults,     \* statements that failed, and queries cut short
    crashes     \* crashes of the manager

vars == <<rows, today, daily, monthly, online, redated, requoted, missed, faults, crashes>>

NoRow == [held |-> FALSE, quota |-> 0, used |-> 0, expiry |-> NoDate]
\* Ids are never given out again.
Deleted == [held |-> FALSE, quota |-> Unlimited, used |-> 0, expiry |-> NoDate]
Row == [held : BOOLEAN, quota : {Unlimited, 0, Limit}, used : 0 .. 1,
        expiry : 0 .. MaxDay + 1]

Idle == [pc |-> "idle", yesterday |-> 0, ids |-> {}]

TypeOK ==
    /\ rows \in [Id -> Row]
    /\ today \in Day
    /\ daily \in [pc : {"idle", "query", "update", "restart"},
                  yesterday : 0 .. MaxDay, ids : SUBSET Id]
    /\ monthly \in [pc : {"idle", "update"}, yesterday : {0}, ids : SUBSET Id]
    /\ online \subseteq Id
    /\ redated \subseteq Id /\ requoted \subseteq Id /\ missed \subseteq Id
    /\ faults \in 0 .. MaxFault /\ crashes \in 0 .. MaxFault

Init ==
    /\ rows = [i \in Id |-> NoRow]
    /\ today = 1
    /\ daily = Idle
    /\ monthly = Idle
    /\ online = {}
    /\ redated = {} /\ requoted = {} /\ missed = {}
    /\ faults = 0 /\ crashes = 0

-----------------------------------------------------------------------------
(* Statements of the web handlers, each one atomic.                        *)

tasks == <<daily, monthly, missed>>
world == <<today, online, faults, crashes>>

\* A notion the auxiliary sets share: while a task is between its query and its
\* update, it is noted which rows changed under it.
Note(set, task, i) == IF task.pc = "update" THEN set \cup {i} ELSE set

\* INSERT ... quota = -1; the other columns take their defaults.
CreateUser(i) ==
    /\ rows[i] = NoRow
    /\ rows' = [rows EXCEPT ![i] = [held |-> TRUE, quota |-> Unlimited, used |-> 0,
                                    expiry |-> NoDate]]
    /\ requoted' = Note(requoted, monthly, i)
    /\ UNCHANGED <<redated, tasks, world>>

DeleteUser(i) ==
    /\ rows[i].held
    /\ rows' = [rows EXCEPT ![i] = Deleted]
    /\ UNCHANGED <<redated, requoted, tasks, world>>

\* Mutant of SetExpire: the days are added to the date the row has.
SetExpireAdded(i, useDays) ==
    /\ rows[i].held
    /\ rows' = [rows EXCEPT ![i].expiry = @ + useDays]
    /\ redated' = Note(redated, daily, i)
    /\ UNCHANGED <<requoted, tasks, world>>

\* expiryDate = today + useDays; the quota an earlier expiry took is not given back.
SetExpire(i, useDays) ==
    /\ rows[i].held
    /\ rows' = [rows EXCEPT ![i].expiry = today + useDays]
    /\ redated' = Note(redated, daily, i)
    /\ UNCHANGED <<requoted, tasks, world>>

CancelExpire(i) ==
    /\ rows[i].held
    /\ rows' = [rows EXCEPT ![i].expiry = NoDate]
    /\ redated' = Note(redated, daily, i)
    /\ UNCHANGED <<requoted, tasks, world>>

SetQuota(i, quota) ==
    /\ rows[i].held
    /\ rows' = [rows EXCEPT ![i].quota = quota]
    /\ requoted' = Note(requoted, monthly, i)
    /\ UNCHANGED <<redated, tasks, world>>

CleanData(i) ==
    /\ rows[i].held
    /\ rows' = [rows EXCEPT ![i].used = 0]
    /\ UNCHANGED <<redated, requoted, tasks, world>>

-----------------------------------------------------------------------------
(* daily_expire_check                                                      *)

Fault == faults < MaxFault /\ faults' = faults + 1

\* queryUserList: the rows found, or some of them if the connection broke on
\* the way: nobody looks at rows.Err(), the list just ends, without an error.
Listed(found, ids) ==
    \/ ids = found /\ UNCHANGED faults
    \/ ids \subseteq found /\ Fault

\* The date is taken before the query.
DailyStart ==
    /\ daily.pc = "idle"
    /\ daily' = [daily EXCEPT !.pc = "query", !.yesterday = today - 1]
    /\ UNCHANGED <<rows, monthly, redated, requoted, missed, world>>

\* Mutant of Overdue: a user is cut on the last day paid for.
OverdueDayEarly(row, yesterday) ==
    /\ row.held /\ row.quota # 0
    /\ row.expiry # NoDate
    /\ yesterday + 1 >= row.expiry

\* Mutant of Overdue: users without a limit are not looked at.
OverdueLimitedOnly(row, yesterday) ==
    /\ row.held /\ row.quota > 0
    /\ row.expiry # NoDate
    /\ yesterday >= row.expiry

\* WHERE quota != 0, and a date that parses and is not after yesterday.
Overdue(row, yesterday) ==
    /\ row.held /\ row.quota # 0
    /\ row.expiry # NoDate
    /\ yesterday >= row.expiry

DailyQuery ==
    /\ daily.pc = "query"
    /\ LET overdue == {i \in Id : Overdue(rows[i], daily.yesterday)}
       IN  \E ids \in SUBSET overdue :
              /\ Listed(overdue, ids)
              /\ daily' = IF ids = {} THEN Idle
                          ELSE [daily EXCEPT !.pc = "update", !.ids = ids]
    /\ redated' = {}
    /\ UNCHANGED <<rows, today, monthly, online, requoted, missed, crashes>>

\* UPDATE users SET quota=0 WHERE id IN (...), whatever the rows hold by now.
DailyUpdate ==
    /\ daily.pc = "update"
    /\ rows' = [i \in Id |-> IF i \in daily.ids /\ rows[i].held
                               THEN [rows[i] EXCEPT !.quota = 0] ELSE rows[i]]
    /\ requoted' = IF monthly.pc = "update" THEN requoted \cup daily.ids ELSE requoted
    /\ daily' = [daily EXCEPT !.pc = "restart"]
    /\ redated' = {}
    /\ UNCHANGED <<monthly, missed, world>>


\* needRestart: trojan.Restart() ends every session.
DailyRestart ==
    /\ daily.pc = "restart"
    /\ daily' = Idle
    /\ online' = {}
    /\ UNCHANGED <<rows, today, monthly, redated, requoted, missed, faults, crashes>>

\* No connection or a failed statement: the task returns the error.
DailyFails ==
    /\ daily.pc \in {"query", "update"}
    /\ Fault
    /\ daily' = Idle
    /\ redated' = {}
    /\ UNCHANGED <<rows, today, monthly, online, requoted, missed, crashes>>

-----------------------------------------------------------------------------
(* monthly_reset: MonthlyResetData, as its job would call it.  ResetDay     *)
(* shows that the spec it is given never gets it registered.               *)

MonthlyLists(found) ==
    \E ids \in SUBSET found :
       /\ Listed(found, ids)
       /\ monthly' = [monthly EXCEPT !.pc = "update", !.ids = ids]
       /\ missed' = found \ ids

\* Mutant of MonthlyQuery: the condition the source says was wrong before,
\* useDays != 0 AND quota != 0.
MonthlyQueryDatedOnly ==
    /\ monthly.pc = "idle"
    /\ LET dated == {i \in Id : rows[i].held /\ rows[i].quota # 0 /\ rows[i].expiry # NoDate}
       IN  MonthlyLists(dated)
    /\ requoted' = {}
    /\ UNCHANGED <<rows, today, daily, online, redated, crashes>>

\* SELECT ... WHERE quota != 0: users without a limit too.
MonthlyQuery ==
    /\ monthly.pc = "idle"
    /\ MonthlyLists({i \in Id : rows[i].held /\ rows[i].quota # 0})
    /\ requoted' = {}
    /\ UNCHANGED <<rows, today, daily, online, redated, crashes>>

\* One UPDATE of the ids found, or none if there are none, and the end.
MonthlyUpdate ==
    /\ monthly.pc = "update"
    /\ rows' = [i \in Id |-> IF i \in monthly.ids /\ rows[i].held
                               THEN [rows[i] EXCEPT !.used = 0] ELSE rows[i]]
    /\ monthly' = Idle
    /\ requoted' = {} /\ missed' = {}
    /\ UNCHANGED <<daily, redated, world>>

MonthlyFails ==
    /\ monthly.pc = "update" /\ monthly.ids # {}
    /\ Fault
    /\ monthly' = Idle
    /\ requoted' = {} /\ missed' = {}
    /\ UNCHANGED <<rows, today, daily, online, redated, crashes>>

-----------------------------------------------------------------------------
(* Around the manager                                                      *)

\* The manager dies and is started again: a task is lost where it stood.
Crash ==
    /\ crashes < MaxFault
    /\ crashes' = crashes + 1
    /\ daily' = Idle
    /\ monthly' = Idle
    /\ redated' = {} /\ requoted' = {} /\ missed' = {}
    /\ UNCHANGED <<rows, today, online, faults>>

Midnight ==
    /\ today < MaxDay
    /\ today' = today + 1
    /\ UNCHANGED <<rows, tasks, online, redated, requoted, faults, crashes>>

\* External: the trojan server admits a user of the table whose traffic is
\* below the quota, adds to the traffic, and drops the session at some time.
Connect(i) ==
    /\ rows[i].held /\ (rows[i].quota < 0 \/ rows[i].used < rows[i].quota)
    /\ online' = online \cup {i}
    /\ UNCHANGED <<rows, today, tasks, redated, requoted, faults, crashes>>

Traffic(i) ==
    /\ i \in online /\ rows[i].held
    /\ rows' = [rows EXCEPT ![i].used = 1]
    /\ UNCHANGED <<tasks, redated, requoted, world>>

Disconnect(i) ==
    /\ online' = online \ {i}
    /\ UNCHANGED <<rows, today, tasks, redated, requoted, faults, crashes>>

-----------------------------------------------------------------------------

DailyStep == DailyStart \/ DailyQuery \/ DailyUpdate \/ DailyRestart

Next ==
    \/ \E i \in Id : \/ CreateUser(i) \/ DeleteUser(i)
                     \/ \E useDays \in 0 .. 1 : SetExpire(i, useDays)
                     \/ CancelExpire(i) \/ CleanData(i)
                     \/ \E quota \in {Unlimited, 0, Limit} : SetQuota(i, quota)
                     \/ Connect(i) \/ Traffic(i) \/ Disconnect(i)
    \/ DailyStep \/ DailyFails
    \/ MonthlyQuery \/ MonthlyUpdate \/ MonthlyFails
    \/ Crash \/ Midnight

Spec == Init /\ [][Next]_vars

\* cron fires daily_expire_check again and again, and its steps run to an end;
\* faults and crashes are finitely many.
FairSpec == Spec /\ WF_vars(DailyStep)

-----------------------------------------------------------------------------
(* Properties.                                                             *)

\* The last day paid for is over.
Expired(i) == rows[i].held /\ rows[i].expiry # NoDate /\ rows[i].expiry < today

\* The daily task takes the quota of expired users only, except of a user whose
\* date was changed between its query and its update.
CutsExpiredOrRedated ==
    [][\A i \in Id : DailyUpdate /\ i \in daily.ids /\ rows[i].held
                       => Expired(i) \/ i \in redated]_vars

\* The monthly task leaves no traffic with anyone who has a quota, whether or
\* not he has an expiry date, except one whose quota was set between its query
\* and its update, and one whom a broken connection kept off its list: the task
\* does not notice, resets the others and succeeds.
MonthlyResetsAll ==
    [][MonthlyUpdate => \A i \in Id : rows[i].held /\ rows[i].quota # 0
                          => rows'[i].used = 0 \/ i \in requoted \cup missed]_vars

\* An expired user who still has a quota loses it, unless the expiry is
\* changed; faults and a crash of the manager only delay it.
ExpiredIsCut ==
    \A i \in Id : (Expired(i) /\ rows[i].quota # 0)
                    ~> (rows[i].quota = 0 \/ ~Expired(i))


=============================================================================
