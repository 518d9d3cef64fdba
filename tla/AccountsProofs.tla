---------------------------- MODULE AccountsProofs ----------------------------
(* Proofs about Accounts, for any names, passwords, number of handlers, last *)
(* id and number of failed statements.                                     *)
EXTENDS Accounts, TLAPS

\* What a request knows while nobody else has written since it started: of the
\* row it is going to update (Loaded), and of the lookups it has behind it.
Loaded(r) ==
    /\ r.op = "create" => r.pc # "load"
    /\ r.op = "update" /\ r.pc # "load" =>
          r.old # NoUser /\ rows[r.id] \in {r.old, NoUser}

NameIsNew(r) ==
    r.pc \in {"byPass", "write"} /\ (r.op = "create" \/ (r.op = "update" /\ r.old.name # r.name))
        => ~NameHeld(r.name)

PassIsNew(r) ==
    r.pc = "write" /\ (r.op = "create" \/ (r.op = "update" /\ r.old.pass # r.pass))
        => ~PassHeld(r.pass)

LookupsHold ==
    \A h \in Handler : req[h] # NoRequest /\ ~req[h].stale
        => Loaded(req[h]) /\ NameIsNew(req[h]) /\ PassIsNew(req[h])

IInv == LookupsHold /\ DuplicatesOnlyByRace

-----------------------------------------------------------------------------
(* Types                                                                   *)

LEMMA InitTypeOK == Init => TypeOK
BY NumbersAreNatural DEF Init, TypeOK, Id

LEMMA TypeStep == ASSUME TypeOK, [Next]_vars PROVE TypeOK'
<1>1. ASSUME NEW h \in Handler, NEW op \in Op, NEW i \in Id, NEW name \in Name,
             NEW pass \in Pass, Start(h, op, i, name, pass)
      PROVE  TypeOK'
    BY <1>1 DEF Start, TypeOK, Request
<1>2. ASSUME NEW h \in Handler, Load(h) PROVE TypeOK'
  <2>1. /\ req[h] \in Request /\ rows[req[h].id] \in Account \cup {NoUser}
        /\ AfterLoad(req[h], rows[req[h].id]) \in {"load", "byName", "byPass", "write"}
      BY <1>2 DEF Load, At, TypeOK, Request, AfterLoad
  <2>. QED
      BY <1>2, <2>1 DEF Load, TypeOK, Request
<1>3. ASSUME NEW h \in Handler, LoadPanics(h) \/ InsertRefused(h) PROVE TypeOK'
    BY <1>3 DEF LoadPanics, InsertRefused, End, TypeOK
<1>4. ASSUME NEW h \in Handler, ByName(h) \/ ByPass(h) PROVE TypeOK'
  <2>1. req[h] \in Request /\ AfterName(req[h]) \in {"load", "byName", "byPass", "write"}
      BY <1>4 DEF ByName, ByPass, At, TypeOK, AfterName
  <2>. QED
      BY <1>4, <2>1 DEF ByName, ByPass, Goto, End, TypeOK, Request
<1>5. ASSUME NEW h \in Handler, LookupFails(h) PROVE TypeOK'
  <2>1. req[h] \in Request /\ AfterName(req[h]) \in {"load", "byName", "byPass", "write"}
      BY <1>5 DEF LookupFails, At, TypeOK, AfterName
  <2>2. outages' \in 0 .. MaxOutage
      BY <1>5, NumbersAreNatural DEF LookupFails, Outage, TypeOK
  <2>. QED
      BY <1>5, <2>1, <2>2 DEF LookupFails, TypeOK, Request
<1>6. ASSUME NEW h \in Handler, StatementFails(h) PROVE TypeOK'
  <2>1. outages' \in 0 .. MaxOutage
      BY <1>6, NumbersAreNatural DEF StatementFails, Outage, TypeOK
  <2>. QED
      BY <1>6, <2>1 DEF StatementFails, End, TypeOK
<1>7. ASSUME NEW h \in Handler, Written(h) PROVE req' \in [Handler -> Request \cup {NoRequest}]
    BY <1>7 DEF Written, TypeOK, Request
<1>8. ASSUME NEW h \in Handler, At(h, "write")
      PROVE  /\ req[h].id \in Id
             /\ [name |-> req[h].name, pass |-> req[h].pass] \in Account
    BY <1>8 DEF At, TypeOK, Request, Account
<1>9. ASSUME NEW h \in Handler, Insert(h) PROVE TypeOK'
  <2>1. nextId \in Id /\ nextId' \in 1 .. MaxId + 1 /\ nextId' = nextId + 1
      BY <1>9, NumbersAreNatural DEF Insert, TypeOK, Id
  <2>2. \A i \in Id : rows'[i] # NoUser => i < nextId'
      BY <1>9, <2>1, NumbersAreNatural DEF Insert, TypeOK, Id
  <2>3. rows' \in [Id -> Account \cup {NoUser}] /\ raced' \subseteq Id
      BY <1>8, <1>9, <2>1 DEF Insert, Judge, TypeOK
  <2>. QED
      BY <1>7, <1>9, <2>1, <2>2, <2>3 DEF Insert, TypeOK
<1>10. ASSUME NEW h \in Handler, Update(h) PROVE TypeOK'
  <2>1. CASE rows[req[h].id] = NoUser
      BY <1>10, <2>1 DEF Update, End, TypeOK
  <2>2. CASE rows[req[h].id] # NoUser
    <3>1. rows' \in [Id -> Account \cup {NoUser}] /\ raced' \subseteq Id
        BY <1>8, <1>10, <2>2 DEF Update, Judge, TypeOK
    <3>2. \A i \in Id : rows'[i] # NoUser => rows[i] # NoUser
        BY <1>8, <1>10, <2>2 DEF Update, TypeOK
    <3>. QED
        BY <1>7, <1>10, <2>2, <3>1, <3>2 DEF Update, TypeOK
  <2>. QED
      BY <2>1, <2>2
<1>11. ASSUME NEW h \in Handler, Delete(h) PROVE TypeOK'
    BY <1>8, <1>11 DEF Delete, End, TypeOK
<1>12. CASE UNCHANGED vars
    BY <1>12 DEF vars, TypeOK
<1>. QED
    BY <1>1, <1>2, <1>3, <1>4, <1>5, <1>6, <1>9, <1>10, <1>11, <1>12 DEF Next, Step

\* The variables keep their types, and ids are given out in order.
THEOREM TypeCorrect == Spec => []TypeOK
<1>1. Init => TypeOK
    BY InitTypeOK
<1>2. TypeOK /\ [Next]_vars => TypeOK'
    BY TypeStep
<1>. QED
    BY <1>1, <1>2, PTL DEF Spec

\* A deleted user does not come back: the update of a request that loaded the
\* row before finds no row, and an insert uses an id never used before.
THEOREM DeletedIsGone == Spec => DeletedStaysDeleted
<1>1. ASSUME TypeOK, [Next]_vars, NEW i \in Id, i < nextId, rows[i] = NoUser
      PROVE  rows'[i] = NoUser
  <2>1. ASSUME NEW h \in Handler, Insert(h) PROVE rows'[i] = NoUser
      BY <1>1, <2>1, NumbersAreNatural DEF Insert, TypeOK, Id
  <2>2. ASSUME NEW h \in Handler, Update(h) PROVE rows'[i] = NoUser
      BY <1>1, <2>2 DEF Update, TypeOK
  <2>3. ASSUME NEW h \in Handler, Delete(h) PROVE rows'[i] = NoUser
      BY <1>1, <2>3 DEF Delete, TypeOK
  <2>4. ASSUME UNCHANGED rows PROVE rows'[i] = NoUser
      BY <1>1, <2>4
  <2>. QED
      BY <1>1, <2>1, <2>2, <2>3, <2>4
      DEF Next, Step, Start, Load, LoadPanics, ByName, ByPass, LookupFails, StatementFails,
          InsertRefused, vars
<1>2. TypeOK /\ [Next]_vars =>
        [\A i \in Id : i < nextId /\ rows[i] = NoUser => rows'[i] = NoUser]_vars
    BY <1>1
<1>. QED
    BY <1>2, TypeCorrect, PTL DEF Spec, DeletedStaysDeleted

-----------------------------------------------------------------------------
(* The lookups                                                             *)

\* A step that leaves the table and the other requests alone keeps IInv, if it
\* ends the request of h or leaves it with lookups that hold.
LEMMA OneRequest ==
    ASSUME TypeOK, IInv, NEW h \in Handler, UNCHANGED <<rows, raced>>,
           \A g \in Handler : g # h => req'[g] = req[g],
           req'[h] # NoRequest /\ ~req'[h].stale =>
               Loaded(req'[h]) /\ NameIsNew(req'[h]) /\ PassIsNew(req'[h])
    PROVE  IInv'
<1>1. DuplicatesOnlyByRace'
    BY DEF IInv, DuplicatesOnlyByRace
<1>2. ASSUME NEW g \in Handler, req'[g] # NoRequest, ~req'[g].stale
      PROVE  Loaded(req'[g]) /\ NameIsNew(req'[g]) /\ PassIsNew(req'[g])
    BY <1>2 DEF IInv, LookupsHold
<1>3. LookupsHold'
    BY <1>2 DEF LookupsHold, Loaded, NameIsNew, PassIsNew, NameHeld, PassHeld
<1>. QED
    BY <1>1, <1>3 DEF IInv

LEMMA LookupStep ==
    ASSUME TypeOK, IInv, NEW h \in Handler,
           \/ \E op \in Op, i \in Id, name \in Name, pass \in Pass : Start(h, op, i, name, pass)
           \/ Load(h) \/ LoadPanics(h) \/ ByName(h) \/ ByPass(h)
           \/ LookupFails(h) \/ StatementFails(h) \/ InsertRefused(h)
    PROVE  IInv'
<1>. DEFINE Holds(r) == Loaded(r) /\ NameIsNew(r) /\ PassIsNew(r)
<1>1. ASSUME NEW op \in Op, NEW i \in Id, NEW name \in Name, NEW pass \in Pass,
             Start(h, op, i, name, pass)
      PROVE  IInv'
  <2>1. Holds(req'[h])
      BY <1>1 DEF Start, TypeOK, Op, Loaded, NameIsNew, PassIsNew
  <2>. QED
      BY <1>1, <2>1, OneRequest DEF Start, TypeOK
<1>2. CASE Load(h)
  <2>0. req[h] \in Request /\ req[h].pc = "load" /\ ~req'[h].stale => req[h].op # "create"
      BY <1>2 DEF Load, At, TypeOK, IInv, LookupsHold, Loaded, Request
  <2>1. /\ req[h] \in Request /\ req'[h].old = rows[req[h].id]
        /\ req'[h].id = req[h].id /\ req'[h].name = req[h].name
        /\ req'[h].pass = req[h].pass /\ req'[h].op = req[h].op
        /\ req'[h].pc = AfterLoad(req[h], rows[req[h].id])
        /\ req[h].op = "update" => rows[req[h].id] # NoUser
        /\ req[h].pc = "load"
      BY <1>2 DEF Load, At, TypeOK, Request
  <2>2. ASSUME ~req'[h].stale PROVE Holds(req'[h])
      BY <2>0, <2>1, <2>2 DEF AfterLoad, Loaded, NameIsNew, PassIsNew
  <2>. QED
      BY <1>2, <2>2, OneRequest DEF Load, TypeOK
<1>3. CASE LoadPanics(h) \/ StatementFails(h) \/ InsertRefused(h)
  <2>1. req'[h] = NoRequest
      BY <1>3 DEF LoadPanics, StatementFails, InsertRefused, End, TypeOK
  <2>. QED
      BY <1>3, <2>1, OneRequest DEF LoadPanics, StatementFails, InsertRefused, End, TypeOK
<1>4. CASE ByName(h)
  <2>1. CASE NameHeld(req[h].name)
      BY <1>4, <2>1, OneRequest DEF ByName, End, TypeOK
  <2>2. CASE ~NameHeld(req[h].name)
    <3>1. /\ req[h] # NoRequest /\ req[h] \in Request /\ req[h].pc = "byName"
          /\ req'[h] = [req[h] EXCEPT !.pc = AfterName(req[h])]
        BY <1>4, <2>2 DEF ByName, At, Goto, TypeOK
    <3>2. ASSUME ~req'[h].stale PROVE Holds(req'[h])
        BY <2>2, <3>1, <3>2
        DEF IInv, LookupsHold, AfterName, Loaded, NameIsNew, PassIsNew, Request
    <3>. QED
        BY <1>4, <2>2, <3>2, OneRequest DEF ByName, Goto, TypeOK
  <2>. QED
      BY <2>1, <2>2
<1>5. CASE ByPass(h)
  <2>1. CASE PassHeld(req[h].pass)
      BY <1>5, <2>1, OneRequest DEF ByPass, End, TypeOK
  <2>2. CASE ~PassHeld(req[h].pass)
    <3>1. /\ req[h] # NoRequest /\ req[h] \in Request /\ req[h].pc = "byPass"
          /\ req'[h] = [req[h] EXCEPT !.pc = "write"]
        BY <1>5, <2>2 DEF ByPass, At, Goto, TypeOK
    <3>2. ASSUME ~req'[h].stale PROVE Holds(req'[h])
        BY <2>2, <3>1, <3>2
        DEF IInv, LookupsHold, Loaded, NameIsNew, PassIsNew, Request
    <3>. QED
        BY <1>5, <2>2, <3>2, OneRequest DEF ByPass, Goto, TypeOK
  <2>. QED
      BY <2>1, <2>2
<1>6. CASE LookupFails(h)
  <2>1. req'[h].stale
      BY <1>6 DEF LookupFails, At, TypeOK, Request
  <2>. QED
      BY <1>6, <2>1, OneRequest DEF LookupFails, TypeOK
<1>. QED
    BY <1>1, <1>2, <1>3, <1>4, <1>5, <1>6

-----------------------------------------------------------------------------
(* The writes                                                              *)

LEMMA WriteStep ==
    ASSUME TypeOK, IInv, NEW h \in Handler, Insert(h) \/ Update(h) \/ Delete(h)
    PROVE  IInv'
<1>1. ASSUME Written(h) PROVE LookupsHold'
    BY <1>1 DEF Written, TypeOK, LookupsHold, Request
<1>2. /\ req[h] # NoRequest /\ req[h] \in Request /\ req[h].pc = "write" /\ req[h].id \in Id
    BY DEF Insert, Update, Delete, At, TypeOK, Request
<1>3. ~req[h].stale => Loaded(req[h]) /\ NameIsNew(req[h]) /\ PassIsNew(req[h])
    BY <1>2 DEF IInv, LookupsHold
<1>. DEFINE new == [name |-> req[h].name, pass |-> req[h].pass]
\* The row that is written is unlike the others, or its id joins raced, or it is
\* no more like another than the row it replaces.
<1>4. ASSUME NEW i \in Id, NEW j \in Id, j # i, rows[j] # NoUser, Alike(new, rows[j]),
             raced' = IF req[h].stale THEN raced \cup {i} ELSE raced,
             \/ req[h].op = "create"
             \/ req[h].op = "update" /\ i = req[h].id /\ rows[i] # NoUser
      PROVE  i \in raced' \/ j \in raced'
  <2>1. CASE req[h].stale
      BY <1>4, <2>1
  <2>2. CASE ~req[h].stale /\ req[h].op = "create"
      BY <1>2, <1>3, <1>4, <2>2 DEF NameIsNew, PassIsNew, NameHeld, PassHeld, Alike
  <2>3. CASE ~req[h].stale /\ req[h].op = "update" /\ i = req[h].id /\ rows[i] # NoUser
    <3>1. rows[i] = req[h].old
        BY <1>2, <1>3, <2>3 DEF Loaded
    <3>2. Alike(rows[i], rows[j])
        BY <1>2, <1>3, <1>4, <2>3, <3>1 DEF NameIsNew, PassIsNew, NameHeld, PassHeld, Alike
    <3>. QED
        BY <1>4, <2>3, <3>2 DEF IInv, DuplicatesOnlyByRace
  <2>. QED
      BY <1>4, <2>1, <2>2, <2>3
<1>5. ASSUME NEW i \in Id, rows' = [rows EXCEPT ![i] = new],
             raced' = IF req[h].stale THEN raced \cup {i} ELSE raced,
             \/ req[h].op = "create"
             \/ req[h].op = "update" /\ i = req[h].id /\ rows[i] # NoUser
      PROVE  DuplicatesOnlyByRace'
  <2>1. ASSUME NEW j \in Id, NEW k \in Id, j # k, rows'[j] # NoUser, rows'[k] # NoUser,
               Alike(rows'[j], rows'[k])
        PROVE  j \in raced' \/ k \in raced'
    <3>0. rows'[i] = new /\ \A l \in Id : l # i => rows'[l] = rows[l]
        BY <1>5 DEF TypeOK
    <3>1. CASE j = i
        BY <1>4, <1>5, <2>1, <3>0, <3>1
    <3>2. CASE k = i
        BY <1>4, <1>5, <2>1, <3>0, <3>2 DEF Alike
    <3>3. CASE j # i /\ k # i
        BY <1>5, <2>1, <3>0, <3>3 DEF IInv, DuplicatesOnlyByRace
    <3>. QED
        BY <3>1, <3>2, <3>3
  <2>. QED
      BY <2>1 DEF DuplicatesOnlyByRace
<1>6. CASE Insert(h)
  <2>1. nextId \in Id
      BY <1>6, NumbersAreNatural DEF Insert, TypeOK, Id
  <2>. QED
      BY <1>1, <1>5, <1>6, <2>1 DEF Insert, Judge, IInv
<1>7. CASE Update(h)
  <2>1. CASE rows[req[h].id] = NoUser
      BY <1>7, <2>1, OneRequest DEF Update, End, TypeOK
  <2>2. CASE rows[req[h].id] # NoUser
      BY <1>1, <1>2, <1>5, <1>7, <2>2 DEF Update, Judge, IInv
  <2>. QED
      BY <2>1, <2>2
<1>8. CASE Delete(h)
  <2>1. /\ \A i \in Id : rows'[i] = IF i = req[h].id THEN NoUser ELSE rows[i]
        /\ raced' = raced \ {req[h].id}
        /\ \A g \in Handler : req'[g] = IF g = h THEN NoRequest ELSE req[g]
      BY <1>8 DEF Delete, End, TypeOK
  <2>2. DuplicatesOnlyByRace'
      BY <2>1 DEF IInv, DuplicatesOnlyByRace
  <2>3. ASSUME NEW g \in Handler, req'[g] # NoRequest, ~req'[g].stale
        PROVE  (Loaded(req[g]) /\ NameIsNew(req[g]) /\ PassIsNew(req[g]))'
    <3>1. PICK r \in Request : r = req[g]
        BY <2>1, <2>3 DEF TypeOK
    <3>2. Loaded(r) /\ NameIsNew(r) /\ PassIsNew(r)
        BY <2>1, <2>3, <3>1 DEF IInv, LookupsHold
    <3>. QED
        BY <2>1, <2>3, <3>1, <3>2 DEF Loaded, NameIsNew, PassIsNew, NameHeld, PassHeld, Request
  <2>. QED
      BY <2>2, <2>3 DEF IInv, LookupsHold
<1>. QED
    BY <1>6, <1>7, <1>8

\* Two users come to share a name or a password only by a write that overlapped
\* another one or whose lookup failed.
THEOREM LookupsKeepApart == Spec => []DuplicatesOnlyByRace
<1>1. Init => IInv
    BY DEF Init, IInv, LookupsHold, DuplicatesOnlyByRace
<1>2. TypeOK /\ IInv /\ [Next]_vars => IInv'
  <2>1. ASSUME TypeOK, IInv, UNCHANGED vars PROVE IInv'
      BY <2>1 DEF vars, IInv, LookupsHold, DuplicatesOnlyByRace, Loaded, NameIsNew, PassIsNew,
                  NameHeld, PassHeld
  <2>. QED
      BY <2>1, LookupStep, WriteStep DEF Next, Step
<1>. QED
    BY <1>1, <1>2, TypeCorrect, PTL DEF Spec, IInv

=============================================================================
