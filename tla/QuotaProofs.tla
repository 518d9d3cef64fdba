----------------------------- MODULE QuotaProofs -----------------------------
(* Proofs about the two scheduled tasks of Quota, for any set of users, any  *)
(* horizon and any number of faults and crashes.                           *)
EXTENDS Quota, TLAPS

\* Id i has been given out.
Taken(i) == rows[i].held \/ rows[i].quota # 0

\* Between the daily query and its update the ids on the list are expired, or
\* their date was changed meanwhile; the clock only makes more users expired.
\* No id on the list can be given out anew: it has been given out before.
DailyInv ==
    /\ daily.pc \in {"query", "update"} => daily.yesterday < today
    /\ daily.pc = "update" =>
          \A i \in daily.ids : /\ rows[i].held => Expired(i) \/ i \in redated
                              /\ Taken(i)

\* Between the monthly query and its update, who has a quota and is not on the
\* list got it meanwhile, or was found and left out.
MonthlyInv ==
    monthly.pc = "update" =>
        \A i \in Id : rows[i].held /\ rows[i].quota # 0
                        => i \in monthly.ids \/ i \in requoted \cup missed

-----------------------------------------------------------------------------

LEMMA RowForms ==
    /\ NoRow \in Row /\ Deleted \in Row
    /\ [held |-> TRUE, quota |-> Unlimited, used |-> 0, expiry |-> NoDate] \in Row
<1>1. NoDate \in 0 .. MaxDay + 1
    BY BoundsArePositive DEF NoDate
<1>2. NoRow \in Row
    BY <1>1 DEF NoRow, Row
<1>3. Deleted \in Row
    BY <1>1 DEF Deleted, Row
<1>4. [held |-> TRUE, quota |-> Unlimited, used |-> 0, expiry |-> NoDate] \in Row
    BY <1>1 DEF Row
<1>. QED
    BY <1>2, <1>3, <1>4

LEMMA InitTypeOK == Init => TypeOK
<1>1. 1 \in Day /\ 0 \in 0 .. MaxFault /\ 0 \in 0 .. MaxDay
    BY BoundsArePositive DEF Day
<1>. QED
    BY <1>1, RowForms DEF Init, TypeOK, Idle

\* A list holds nothing that was not found.
LEMMA ListedTypes ==
    ASSUME faults \in 0 .. MaxFault, NEW found, NEW ids, Listed(found, ids)
    PROVE  ids \subseteq found /\ faults' \in 0 .. MaxFault
BY BoundsArePositive DEF Listed, Fault

LEMMA TypeStep == ASSUME TypeOK, [Next]_vars PROVE TypeOK'
<1>. USE DEF tasks, world, Note
<1>1. /\ Idle \in [pc : {"idle", "query", "update", "restart"},
                   yesterday : 0 .. MaxDay, ids : SUBSET Id]
      /\ Idle \in [pc : {"idle", "update"}, yesterday : {0}, ids : SUBSET Id]
    BY BoundsArePositive DEF Idle
<1>2. ASSUME NEW i \in Id, CreateUser(i) PROVE TypeOK'
    BY <1>2, RowForms DEF CreateUser, TypeOK
<1>3. ASSUME NEW i \in Id, DeleteUser(i) PROVE TypeOK'
    BY <1>3, RowForms DEF DeleteUser, TypeOK
<1>4. ASSUME NEW i \in Id, NEW d \in 0 .. 1, SetExpire(i, d) PROVE TypeOK'
  <2>1. today + d \in 0 .. MaxDay + 1
      BY BoundsArePositive DEF TypeOK, Day
  <2>. QED
      BY <1>4, <2>1 DEF SetExpire, TypeOK, Row
<1>5. ASSUME NEW i \in Id, CancelExpire(i) PROVE TypeOK'
  <2>1. NoDate \in 0 .. MaxDay + 1
      BY BoundsArePositive DEF NoDate
  <2>. QED
      BY <1>5, <2>1 DEF CancelExpire, TypeOK, Row
<1>6. ASSUME NEW i \in Id, NEW q \in {Unlimited, 0, Limit}, SetQuota(i, q) PROVE TypeOK'
    BY <1>6 DEF SetQuota, TypeOK, Row
<1>7. ASSUME NEW i \in Id, CleanData(i) \/ Traffic(i) PROVE TypeOK'
    BY <1>7 DEF CleanData, Traffic, TypeOK, Row
<1>8. ASSUME NEW i \in Id, Connect(i) \/ Disconnect(i) PROVE TypeOK'
    BY <1>8 DEF Connect, Disconnect, TypeOK
<1>9. CASE DailyStart
  <2>1. today - 1 \in 0 .. MaxDay
      BY BoundsArePositive DEF TypeOK, Day
  <2>. QED
      BY <1>9, <2>1 DEF DailyStart, TypeOK
<1>10. CASE DailyQuery
  <2>1. PICK ids \in SUBSET Id :
            /\ faults' \in 0 .. MaxFault
            /\ daily' = IF ids = {} THEN Idle ELSE [daily EXCEPT !.pc = "update", !.ids = ids]
      BY <1>10, ListedTypes DEF DailyQuery, TypeOK
  <2>. QED
      BY <1>1, <1>10, <2>1 DEF DailyQuery, TypeOK
<1>11. CASE DailyUpdate
    BY <1>11 DEF DailyUpdate, TypeOK, Row
<1>12. CASE DailyRestart
    BY <1>1, <1>12 DEF DailyRestart, TypeOK
<1>13. CASE DailyFails \/ MonthlyFails \/ Crash
    BY <1>1, <1>13, BoundsArePositive DEF DailyFails, MonthlyFails, Crash, Fault, TypeOK
<1>14. CASE MonthlyQuery
  <2>1. PICK ids \in SUBSET Id :
            /\ faults' \in 0 .. MaxFault
            /\ monthly' = [monthly EXCEPT !.pc = "update", !.ids = ids]
            /\ missed' \subseteq Id
      BY <1>14, ListedTypes DEF MonthlyQuery, MonthlyLists, TypeOK
  <2>. QED
      BY <1>14, <2>1 DEF MonthlyQuery, TypeOK
<1>15. CASE MonthlyUpdate
    BY <1>1, <1>15 DEF MonthlyUpdate, TypeOK, Row
<1>16. CASE Midnight
  <2>1. today' \in Day
      BY <1>16, BoundsArePositive DEF Midnight, TypeOK, Day
  <2>. QED
      BY <1>16, <2>1 DEF Midnight, TypeOK
<1>17. CASE UNCHANGED vars
    BY <1>17 DEF vars, TypeOK
<1>. QED
    BY <1>2, <1>3, <1>4, <1>5, <1>6, <1>7, <1>8, <1>9, <1>10, <1>11, <1>12,
       <1>13, <1>14, <1>15, <1>16, <1>17 DEF Next, DailyStep

\* Every variable keeps its type.
THEOREM TypeCorrect == Spec => []TypeOK
<1>1. Init => TypeOK
    BY InitTypeOK
<1>2. TypeOK /\ [Next]_vars => TypeOK'
    BY TypeStep
<1>. QED
    BY <1>1, <1>2, PTL DEF Spec

-----------------------------------------------------------------------------

\* The facts about numbers that every step below needs.
LEMMA Numbers ==
    ASSUME TypeOK
    PROVE  /\ today \in Nat /\ today >= 1
           /\ daily.yesterday \in Nat /\ daily.ids \subseteq Id
           /\ \A i \in Id : rows[i].expiry \in Nat
BY BoundsArePositive DEF TypeOK, Day, Row

LEMMA DailyInvStep == ASSUME TypeOK, DailyInv, [Next]_vars PROVE DailyInv'
<1>. USE DEF tasks, world, Expired, Taken, Note
<1>1. ASSUME UNCHANGED <<daily, redated, today>>,
             \A i \in Id : /\ rows'[i].held => rows[i].held /\ rows'[i].expiry = rows[i].expiry
                           /\ Taken(i) => Taken(i)'
      PROVE  DailyInv'
    BY <1>1, Numbers DEF DailyInv
<1>2. ASSUME NEW i \in Id, CreateUser(i) PROVE DailyInv'
  <2>1. /\ UNCHANGED <<daily, redated, today>> /\ ~Taken(i)
        /\ \A j \in Id : j # i => rows'[j] = rows[j]
      BY <1>2 DEF CreateUser, TypeOK, NoRow
  <2>. QED
      BY <2>1, Numbers DEF DailyInv
<1>3. ASSUME NEW i \in Id, DeleteUser(i) PROVE DailyInv'
  <2>1. /\ UNCHANGED <<daily, redated, today>>
        /\ \A j \in Id : rows'[j] = IF j = i THEN Deleted ELSE rows[j]
      BY <1>3 DEF DeleteUser, TypeOK
  <2>2. ~Deleted.held /\ Deleted.quota # 0
      BY DEF Deleted, Unlimited
  <2>. QED
      BY <1>1, <2>1, <2>2
<1>4. ASSUME NEW i \in Id, CancelExpire(i) \/ \E d \in 0 .. 1 : SetExpire(i, d)
      PROVE  DailyInv'
  <2>1. /\ UNCHANGED <<daily, today>>
        /\ \A j \in Id : j # i => rows'[j] = rows[j]
        /\ daily.pc = "update" => redated' = redated \cup {i}
        /\ rows'[i].held = rows[i].held /\ rows'[i].quota = rows[i].quota
      BY <1>4 DEF SetExpire, CancelExpire, TypeOK, Row
  <2>. QED
      BY <2>1, Numbers DEF DailyInv
<1>5. ASSUME NEW i \in Id,
             CleanData(i) \/ Traffic(i) \/ \E q \in {Unlimited, 0, Limit} : SetQuota(i, q)
      PROVE  DailyInv'
  <2>1. /\ UNCHANGED <<daily, redated, today>> /\ rows[i].held
        /\ \A j \in Id : j # i => rows'[j] = rows[j]
        /\ rows'[i].held /\ rows'[i].expiry = rows[i].expiry
      BY <1>5 DEF CleanData, Traffic, SetQuota, TypeOK, Row
  <2>. QED
      BY <1>1, <2>1
<1>6. ASSUME NEW i \in Id, Connect(i) \/ Disconnect(i) PROVE DailyInv'
    BY <1>1, <1>6 DEF Connect, Disconnect
<1>7. CASE DailyStart
    BY <1>7, Numbers DEF DailyStart, DailyInv, TypeOK
<1>8. CASE DailyQuery
  <2>1. ASSUME NEW i \in Id, Overdue(rows[i], daily.yesterday) PROVE Expired(i) /\ Taken(i)
      BY <1>8, <2>1, Numbers DEF DailyQuery, DailyInv, Overdue
  <2>2. PICK ids \in SUBSET {i \in Id : Overdue(rows[i], daily.yesterday)} :
            daily' = IF ids = {} THEN Idle ELSE [daily EXCEPT !.pc = "update", !.ids = ids]
      BY <1>8 DEF DailyQuery
  <2>3. daily'.pc = "idle" \/ (daily'.pc = "update" /\ daily'.ids = ids
                                /\ daily'.yesterday = daily.yesterday)
      BY <2>2 DEF Idle, TypeOK
  <2>. QED
      BY <1>8, <2>1, <2>2, <2>3 DEF DailyQuery, DailyInv, Idle, TypeOK
<1>9. CASE DailyUpdate
    BY <1>9 DEF DailyUpdate, DailyInv, TypeOK
<1>10. CASE DailyRestart \/ DailyFails \/ Crash
    BY <1>10 DEF DailyRestart, DailyFails, Crash, DailyInv, Idle
<1>11. CASE MonthlyQuery \/ MonthlyFails
    BY <1>1, <1>11 DEF MonthlyQuery, MonthlyFails
<1>12. CASE MonthlyUpdate
    BY <1>1, <1>12 DEF MonthlyUpdate, TypeOK, Row
<1>13. CASE Midnight
    BY <1>13, Numbers DEF Midnight, DailyInv
<1>14. CASE UNCHANGED vars
    BY <1>1, <1>14 DEF vars
<1>. QED
    BY <1>2, <1>3, <1>4, <1>5, <1>6, <1>7, <1>8, <1>9, <1>10, <1>11, <1>12,
       <1>13, <1>14 DEF Next, DailyStep

\* The daily task takes the quota of expired users only, or of users whose date
\* was changed between its query and its update.
THEOREM DailyCutsExpired == Spec => CutsExpiredOrRedated
<1>1. Init => DailyInv
    BY DEF Init, DailyInv, Idle
<1>2. TypeOK /\ DailyInv /\ [Next]_vars => DailyInv'
    BY DailyInvStep
<1>3. DailyInv /\ [Next]_vars =>
        [\A i \in Id : DailyUpdate /\ i \in daily.ids /\ rows[i].held
                         => Expired(i) \/ i \in redated]_vars
    BY DEF DailyInv, DailyUpdate
<1>. QED
    BY <1>1, <1>2, <1>3, TypeCorrect, PTL DEF Spec, CutsExpiredOrRedated

-----------------------------------------------------------------------------

LEMMA MonthlyInvStep == ASSUME TypeOK, MonthlyInv, [Next]_vars PROVE MonthlyInv'
<1>. USE DEF tasks, world, Note
<1>1. ASSUME monthly' = monthly, missed' = missed, requoted \subseteq requoted',
             \A i \in Id : rows'[i].held /\ rows'[i].quota # 0
                             => \/ rows[i].held /\ rows[i].quota # 0
                                \/ monthly.pc = "update" => i \in requoted'
      PROVE  MonthlyInv'
    BY <1>1 DEF MonthlyInv
<1>2. ASSUME NEW i \in Id, CreateUser(i) PROVE MonthlyInv'
    BY <1>1, <1>2 DEF CreateUser, TypeOK
<1>3. ASSUME NEW i \in Id, DeleteUser(i) PROVE MonthlyInv'
    BY <1>1, <1>3 DEF DeleteUser, TypeOK, Deleted, NoRow
<1>4. ASSUME NEW i \in Id, NEW d \in 0 .. 1, SetExpire(i, d) PROVE MonthlyInv'
    BY <1>1, <1>4 DEF SetExpire, TypeOK, Row
<1>5. ASSUME NEW i \in Id, CancelExpire(i) \/ CleanData(i) \/ Traffic(i) PROVE MonthlyInv'
    BY <1>1, <1>5 DEF CancelExpire, CleanData, Traffic, TypeOK, Row
<1>6. ASSUME NEW i \in Id, NEW q \in {Unlimited, 0, Limit}, SetQuota(i, q) PROVE MonthlyInv'
    BY <1>1, <1>6 DEF SetQuota, TypeOK, Row
<1>7. ASSUME NEW i \in Id, Connect(i) \/ Disconnect(i) PROVE MonthlyInv'
    BY <1>1, <1>7 DEF Connect, Disconnect
<1>8. CASE DailyStart \/ DailyQuery \/ DailyRestart \/ DailyFails \/ Midnight
    BY <1>1, <1>8 DEF DailyStart, DailyQuery, DailyRestart, DailyFails, Midnight
<1>9. CASE DailyUpdate
    BY <1>1, <1>9 DEF DailyUpdate, TypeOK, Row
<1>10. CASE MonthlyQuery
  <2>. DEFINE found == {i \in Id : rows[i].held /\ rows[i].quota # 0}
  <2>1. PICK ids \in SUBSET found : monthly'.ids = ids /\ missed' = found \ ids
      BY <1>10 DEF MonthlyQuery, MonthlyLists, TypeOK
  <2>. QED
      BY <1>10, <2>1 DEF MonthlyQuery, MonthlyInv
<1>11. CASE MonthlyUpdate \/ MonthlyFails \/ Crash
    BY <1>11 DEF MonthlyUpdate, MonthlyFails, Crash, MonthlyInv, Idle
<1>12. CASE UNCHANGED vars
    BY <1>1, <1>12 DEF vars
<1>. QED
    BY <1>2, <1>3, <1>4, <1>5, <1>6, <1>7, <1>8, <1>9, <1>10, <1>11, <1>12
    DEF Next, DailyStep

\* The monthly task leaves nobody with a quota his traffic of the last month,
\* except who got the quota between its query and its update, and whom a query
\* cut short left out.
THEOREM MonthlyCoversQuotas == Spec => MonthlyResetsAll
<1>1. Init => MonthlyInv
    BY DEF Init, MonthlyInv, Idle
<1>2. TypeOK /\ MonthlyInv /\ [Next]_vars => MonthlyInv'
    BY MonthlyInvStep
<1>3. TypeOK /\ MonthlyInv /\ [Next]_vars =>
        [MonthlyUpdate => \A i \in Id : rows[i].held /\ rows[i].quota # 0
                            => rows'[i].used = 0 \/ i \in requoted \cup missed]_vars
    BY DEF MonthlyInv, MonthlyUpdate, TypeOK, Row
<1>. QED
    BY <1>1, <1>2, <1>3, TypeCorrect, PTL DEF Spec, MonthlyResetsAll

=============================================================================
