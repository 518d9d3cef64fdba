------------------------------- MODULE Accounts -------------------------------
(***************************************************************************)
(* The accounts of the users table: the handlers CreateUser, UpdateUser    *)
(* and DelUser of web/controller/user.go, each a sequence of separate      *)
(* statements of core/mysql.go that no transaction or lock holds together. *)
(*                                                                         *)
(* AddUser and DelUser of the command line take the same statements, with  *)
(* a person's time between the lookups, and are handlers here.             *)
(*                                                                         *)
(* A row is its name and password; the table has no unique key on either,  *)
(* so that the lookups before a write are all that keeps names and         *)
(* passwords apart.  Names other than "admin" and passwords that decode    *)
(* from base64 are considered: the others end a handler without a write.   *)
(***************************************************************************)
EXTENDS Naturals

CONSTANTS
    Name,       \* user names; "admin" is not one of them
    Pass,       \* passwords, as base64 text
    Handler,    \* HTTP handlers that may run at the same time
    MaxId,      \* the last id AUTO_INCREMENT gives out (2^32 - 1 in the table)
    MaxOutage,  \* bound on the statements that fail
    NoUser,     \* there is no row with this id
    NoRequest   \* the handler is not running

ASSUME NumbersAreNatural == MaxId \in Nat /\ MaxOutage \in Nat

Id == 1 .. MaxId
Account == [name : Name, pass : Pass]

ASSUME NoUserIsNoAccount == NoUser \notin Account

VARIABLES
    rows,       \* the table
    nextId,     \* AUTO_INCREMENT
    req,        \* what each handler works on
    outages,    \* statements that failed so far
    raced       \* auxiliary: ids last written on a lookup that was not current

vars == <<rows, nextId, req, outages, raced>>

Op == {"create", "update", "delete"}

\* pc: the next statement.  old: the row UpdateUser and DeleteUser loaded.
\* stale: auxiliary; another handler has written an account since this one
\* started, or one of its lookups failed and was taken for "not found".
Request == [op : Op, pc : {"load", "byName", "byPass", "write"}, id : Id,
            name : Name, pass : Pass, old : Account \cup {NoUser}, stale : BOOLEAN]

ASSUME NoRequestIsNone == NoRequest \notin Request

TypeOK ==
    /\ rows \in [Id -> Account \cup {NoUser}]
    /\ nextId \in 1 .. MaxId + 1
    /\ \A i \in Id : rows[i] # NoUser => i < nextId
    /\ req \in [Handler -> Request \cup {NoRequest}]
    /\ outages \in 0 .. MaxOutage
    /\ raced \subseteq Id

Init ==
    /\ rows = [i \in Id |-> NoUser]
    /\ nextId = 1
    /\ req = [h \in Handler |-> NoRequest]
    /\ outages = 0
    /\ raced = {}

-----------------------------------------------------------------------------

\* Handler h is about to take the statement pc.
At(h, pc) == req[h] # NoRequest /\ req[h].pc = pc

Goto(h, pc) == req' = [req EXCEPT ![h].pc = pc]
End(h) == req' = [req EXCEPT ![h] = NoRequest]

\* A statement that does not reach the database: GetDB makes a new pool for
\* every one and returns nil when its Ping fails, or the connection breaks.
Outage == outages < MaxOutage /\ outages' = outages + 1

\* After a write by h, what the other handlers have looked up may be out of date.
Written(h) ==
    req' = [g \in Handler |->
              IF g = h \/ req[g] = NoRequest THEN NoRequest
              ELSE [req[g] EXCEPT !.stale = TRUE]]

\* The id of a write joins raced if the lookups of h were not current.  An id
\* leaves it only with its row.
Judge(h, i) == raced' = IF req[h].stale THEN raced \cup {i} ELSE raced

NameHeld(name) == \E i \in Id : rows[i] # NoUser /\ rows[i].name = name
PassHeld(pass) == \E i \in Id : rows[i] # NoUser /\ rows[i].pass = pass

-----------------------------------------------------------------------------

Start(h, op, i, name, pass) ==
    /\ req[h] = NoRequest
    /\ req' = [req EXCEPT ![h] =
                 [op |-> op, pc |-> IF op = "create" THEN "byName" ELSE "load",
                  id |-> i, name |-> name, pass |-> pass, old |-> NoUser,
                  stale |-> FALSE]]
    /\ UNCHANGED <<rows, nextId, outages, raced>>

\* Mutant of AfterLoad: UpdateUser does not look the new name up.
AfterLoadNoName(r, old) ==
    IF r.op = "update" /\ old.pass # r.pass THEN "byPass" ELSE "write"

\* The statement that follows the load: UpdateUser looks up what changes.
AfterLoad(r, old) ==
    IF r.op = "update" /\ old.name # r.name THEN "byName"
    ELSE IF r.op = "update" /\ old.pass # r.pass THEN "byPass" ELSE "write"

\* GetData(id), which does not use the cache.
Load(h) ==
    /\ At(h, "load")
    /\ LET old == rows[req[h].id]
       IN  /\ req[h].op = "update" => old # NoUser
           /\ req' = [req EXCEPT ![h].old = old, ![h].pc = AfterLoad(req[h], old)]
    /\ UNCHANGED <<rows, nextId, outages, raced>>

\* With no row UpdateUser indexes an empty list and panics, which ends the
\* request; DeleteUser's test for an empty list is never true and it goes on.
LoadPanics(h) ==
    /\ At(h, "load")
    /\ req[h].op = "update" /\ rows[req[h].id] = NoUser
    /\ End(h)
    /\ UNCHANGED <<rows, nextId, outages, raced>>

AfterName(r) == IF r.op = "create" \/ r.old.pass # r.pass THEN "byPass" ELSE "write"

\* GetUserByName
ByName(h) ==
    /\ At(h, "byName")
    /\ IF NameHeld(req[h].name) THEN End(h) ELSE Goto(h, AfterName(req[h]))
    /\ UNCHANGED <<rows, nextId, outages, raced>>

\* GetUserByPass
ByPass(h) ==
    /\ At(h, "byPass")
    /\ IF PassHeld(req[h].pass) THEN End(h) ELSE Goto(h, "write")
    /\ UNCHANGED <<rows, nextId, outages, raced>>

\* Both lookups return nil on any error, which reads as "not found".
LookupFails(h) ==
    /\ Outage
    /\ At(h, "byName") \/ At(h, "byPass")
    /\ req' = [req EXCEPT ![h].stale = TRUE,
                          ![h].pc = IF @ = "byName" THEN AfterName(req[h]) ELSE "write"]
    /\ UNCHANGED <<rows, nextId, raced>>

\* An error of the load or the write ends the request.
StatementFails(h) ==
    /\ Outage
    /\ At(h, "load") \/ At(h, "write")
    /\ End(h)
    /\ UNCHANGED <<rows, nextId, raced>>

\* Mutant of Insert: the ids are not given out one after the other.
InsertSameId(h) ==
    /\ At(h, "write") /\ req[h].op = "create"
    /\ nextId <= MaxId
    /\ rows' = [rows EXCEPT ![nextId] = [name |-> req[h].name, pass |-> req[h].pass]]
    /\ Judge(h, nextId)
    /\ Written(h)
    /\ UNCHANGED <<nextId, outages>>

\* INSERT
Insert(h) ==
    /\ At(h, "write") /\ req[h].op = "create"
    /\ nextId <= MaxId
    /\ rows' = [rows EXCEPT ![nextId] = [name |-> req[h].name, pass |-> req[h].pass]]
    /\ nextId' = nextId + 1
    /\ Judge(h, nextId)
    /\ Written(h)
    /\ UNCHANGED outages

\* AUTO_INCREMENT has reached the last id: INSERT is an error.
InsertRefused(h) ==
    /\ At(h, "write") /\ req[h].op = "create"
    /\ nextId > MaxId
    /\ End(h)
    /\ UNCHANGED <<rows, nextId, outages, raced>>

\* Mutant of Update: REPLACE INTO instead of UPDATE.
UpdateOrInsert(h) ==
    /\ At(h, "write") /\ req[h].op = "update"
    /\ rows' = [rows EXCEPT ![req[h].id] = [name |-> req[h].name, pass |-> req[h].pass]]
    /\ Judge(h, req[h].id)
    /\ Written(h)
    /\ UNCHANGED <<nextId, outages>>

\* UPDATE ... WHERE id = ?: affects no row if the row is gone by now.
Update(h) ==
    /\ At(h, "write") /\ req[h].op = "update"
    /\ IF rows[req[h].id] = NoUser
       THEN End(h) /\ UNCHANGED <<rows, raced>>
       ELSE /\ rows' = [rows EXCEPT ![req[h].id] =
                          [name |-> req[h].name, pass |-> req[h].pass]]
            /\ Judge(h, req[h].id)
            /\ Written(h)
    /\ UNCHANGED <<nextId, outages>>

\* DELETE ... WHERE id = ?
Delete(h) ==
    /\ At(h, "write") /\ req[h].op = "delete"
    /\ rows' = [rows EXCEPT ![req[h].id] = NoUser]
    /\ raced' = raced \ {req[h].id}
    /\ End(h)
    /\ UNCHANGED <<nextId, outages>>

Step(h) ==
    \/ Load(h) \/ LoadPanics(h) \/ ByName(h) \/ ByPass(h)
    \/ LookupFails(h) \/ StatementFails(h)
    \/ Insert(h) \/ InsertRefused(h) \/ Update(h) \/ Delete(h)

Next ==
    \E h \in Handler :
        \/ \E op \in Op, i \in Id, name \in Name, pass \in Pass : Start(h, op, i, name, pass)
        \/ Step(h)

Spec == Init /\ [][Next]_vars

-----------------------------------------------------------------------------
(* Properties.                                                             *)

Alike(a, b) == a.name = b.name \/ a.pass = b.pass

\* Two users share a name or a password only if one of them was written by a
\* request that ran beside another write, or one whose lookup failed: the
\* order of lookups and write in each handler is sound by itself.
DuplicatesOnlyByRace ==
    \A i, j \in Id :
        i # j /\ rows[i] # NoUser /\ rows[j] # NoUser /\ Alike(rows[i], rows[j])
            => i \in raced \/ j \in raced

\* A deleted user does not come back: no handler that loaded the row before the
\* delete writes it again after, and no id is given out twice.
DeletedStaysDeleted ==
    [][\A i \in Id : i < nextId /\ rows[i] = NoUser => rows'[i] = NoUser]_vars

=============================================================================
