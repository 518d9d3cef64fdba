------------------------------ MODULE UserCache ------------------------------
(***************************************************************************)
(* The cached user list of core/mysql.go: simpleCache with its TTL, the    *)
(* read-through path of GetData(), the janitor goroutine, and the writers  *)
(* of the users table, of which some clear the cache after the statement   *)
(* and some do not.                                                        *)
(*                                                                         *)
(* The table is abstracted to a version number: what matters to the cache  *)
(* is only how old the data it holds is.                                   *)
(***************************************************************************)
EXTENDS Naturals

CONSTANTS
    Reader,         \* goroutines in GetData()
    Writer,         \* goroutines in a function that writes the users table
    TTL,            \* lifetime given to newCache
    MaxFetch,       \* bound on the time a reader takes from its query to Set
    MaxTime,        \* bound on the clock
    MaxVersion      \* bound on the number of writes

ASSUME TimesAreNat ==
    /\ TTL \in Nat
    /\ MaxFetch \in Nat
    /\ MaxTime \in Nat
    /\ MaxVersion \in Nat

Time == 0 .. MaxTime
Version == 0 .. MaxVersion

\* Functions that call userCache.Clear() once their statement succeeded.
ClearingOp == {"CreateUser", "UpdateUser", "DeleteUser", "SetQuota", "CleanData",
               "MonthlyResetData", "DailyCheckExpire"}

\* Functions that write the table and leave the cache alone.
SilentOp == {"SetExpire", "CancelExpire", "CleanDataByName", "ImportCsv"}

VARIABLES
    now,            \* the clock
    db,             \* version of the users table
    replacedAt,     \* when a version stopped being current
    cache,          \* the entry under "all_users", or Nothing
    reader,         \* each GetData(): program counter and what it read
    janitor,        \* the cleanup goroutine is about to delete the key
    writer,         \* "idle", or "clear": committed, Clear() to come
    ackedClearing   \* auxiliary: newest version whose clearing writer has returned

vars == <<now, db, replacedAt, cache, reader, janitor, writer, ackedClearing>>

\* data: the version read; read: when; overlapped: a Clear() ran since.
Nothing == [held |-> FALSE, data |-> 0, read |-> 0, overlapped |-> FALSE,
            expiresAt |-> 0]

IdleReader == [pc |-> "idle", data |-> 0, read |-> 0, overlapped |-> FALSE]

CacheEntry == [held : BOOLEAN, data : Version, read : Time,
               overlapped : BOOLEAN, expiresAt : 0 .. MaxTime + TTL]
ReaderState == [pc : {"idle", "expired", "missed", "queried"},
                data : Version, read : Time, overlapped : BOOLEAN]
WriterState == [pc : {"idle", "clear"}, version : Version]

TypeOK ==
    /\ now \in Time
    /\ db \in Version
    /\ replacedAt \in [Version -> Time]
    /\ cache \in CacheEntry
    /\ reader \in [Reader -> ReaderState]
    /\ janitor \in BOOLEAN
    /\ writer \in [Writer -> WriterState]
    /\ ackedClearing \in Version

Init ==
    /\ now = 0
    /\ db = 0
    /\ replacedAt = [v \in Version |-> 0]
    /\ cache = Nothing
    /\ reader = [r \in Reader |-> IdleReader]
    /\ janitor = FALSE
    /\ writer = [w \in Writer |-> [pc |-> "idle", version |-> 0]]
    /\ ackedClearing = 0

-----------------------------------------------------------------------------
(* simpleCache                                                             *)

\* time.Now().After(entry.expiresAt) is strict: at expiresAt an entry lives.
Expired == cache.held /\ now > cache.expiresAt
Live == cache.held /\ now <= cache.expiresAt

\* Mutant of CacheGet: a hit renews the lifetime of the entry.
CacheGetSliding(r) ==
    /\ reader[r].pc = "idle"
    /\ IF Live
         THEN /\ cache' = [cache EXCEPT !.expiresAt = now + TTL]
              /\ UNCHANGED reader
         ELSE /\ reader' = [reader EXCEPT ![r].pc =
                              IF cache.held THEN "expired" ELSE "missed"]
              /\ UNCHANGED cache
    /\ UNCHANGED <<now, db, replacedAt, janitor, writer, ackedClearing>>

\* Get: a live entry is returned, which changes nothing.  An absent one is a
\* miss; an expired one is deleted by key, a step later.
CacheGet(r) ==
    /\ reader[r].pc = "idle"
    /\ ~Live
    /\ reader' = [reader EXCEPT ![r].pc = IF cache.held THEN "expired" ELSE "missed"]
    /\ UNCHANGED <<now, db, replacedAt, cache, janitor, writer, ackedClearing>>

\* The Delete by key also removes an entry stored since the Load.
CacheGetDelete(r) ==
    /\ reader[r].pc = "expired"
    /\ cache' = Nothing
    /\ reader' = [reader EXCEPT ![r].pc = "missed"]
    /\ UNCHANGED <<now, db, replacedAt, janitor, writer, ackedClearing>>

\* cleanup: once a minute, Range finds the entry expired ...
CleanupScan ==
    /\ Expired
    /\ ~janitor
    /\ janitor' = TRUE
    /\ UNCHANGED <<now, db, replacedAt, cache, reader, writer, ackedClearing>>

\* ... and deletes the key.
CleanupDelete ==
    /\ janitor
    /\ janitor' = FALSE
    /\ cache' = Nothing
    /\ UNCHANGED <<now, db, replacedAt, reader, writer, ackedClearing>>

-----------------------------------------------------------------------------
(* GetData() after a miss                                                  *)

Query(r) ==
    /\ reader[r].pc = "missed"
    /\ reader' = [reader EXCEPT ![r] = [pc |-> "queried", data |-> db,
                                        read |-> now, overlapped |-> FALSE]]
    /\ UNCHANGED <<now, db, replacedAt, cache, janitor, writer, ackedClearing>>

\* No connection, or the query or a Scan fails: nothing is cached.
QueryFails(r) ==
    /\ reader[r].pc = "missed"
    /\ reader' = [reader EXCEPT ![r] = IdleReader]
    /\ UNCHANGED <<now, db, replacedAt, cache, janitor, writer, ackedClearing>>

\* Mutant of Store: an entry that cannot expire within the horizon.
StoreLonger(r) ==
    /\ reader[r].pc = "queried"
    /\ cache' = [held |-> TRUE, data |-> reader[r].data, read |-> reader[r].read,
                 overlapped |-> reader[r].overlapped, expiresAt |-> now + TTL + 1]
    /\ reader' = [reader EXCEPT ![r] = IdleReader]
    /\ UNCHANGED <<now, db, replacedAt, janitor, writer, ackedClearing>>

\* Set: the lifetime starts now, not when the data was read.
Store(r) ==
    /\ reader[r].pc = "queried"
    /\ cache' = [held |-> TRUE, data |-> reader[r].data, read |-> reader[r].read,
                 overlapped |-> reader[r].overlapped, expiresAt |-> now + TTL]
    /\ reader' = [reader EXCEPT ![r] = IdleReader]
    /\ UNCHANGED <<now, db, replacedAt, janitor, writer, ackedClearing>>

-----------------------------------------------------------------------------
(* Writers                                                                 *)

Replace ==
    /\ db < MaxVersion
    /\ db' = db + 1
    /\ replacedAt' = [replacedAt EXCEPT ![db] = now]

\* The statement of one of the functions above succeeds.  A silent one returns.
Commit(w, op) ==
    /\ writer[w].pc = "idle"
    /\ Replace
    /\ IF op \in ClearingOp
         THEN writer' = [writer EXCEPT ![w] = [pc |-> "clear", version |-> db + 1]]
         ELSE UNCHANGED writer
    /\ UNCHANGED <<now, cache, reader, janitor, ackedClearing>>

\* Mutant of Clear: the function returns without clearing.
ClearForgotten(w) ==
    /\ writer[w].pc = "clear"
    /\ writer' = [writer EXCEPT ![w].pc = "idle"]
    /\ ackedClearing' = IF writer[w].version > ackedClearing
                          THEN writer[w].version ELSE ackedClearing
    /\ UNCHANGED <<now, db, replacedAt, cache, reader, janitor>>

\* Clear, and return.
Clear(w) ==
    /\ writer[w].pc = "clear"
    /\ cache' = Nothing
    /\ writer' = [writer EXCEPT ![w].pc = "idle"]
    /\ reader' = [r \in Reader |->
                    [reader[r] EXCEPT !.overlapped = (reader[r].pc = "queried")]]
    /\ ackedClearing' = IF writer[w].version > ackedClearing
                          THEN writer[w].version ELSE ackedClearing
    /\ UNCHANGED <<now, db, replacedAt, janitor>>

\* A trojan command in another process, such as "clean" with its
\* CleanDataByName, changes the rows, and the trojan server adds traffic to
\* them: this process is not told.
ForeignWrite ==
    /\ Replace
    /\ UNCHANGED <<now, cache, reader, janitor, writer, ackedClearing>>

\* Time passes, but not so much that a query would take longer than MaxFetch.
Tick ==
    /\ now < MaxTime
    /\ \A r \in Reader : reader[r].pc = "queried" => now < reader[r].read + MaxFetch
    /\ now' = now + 1
    /\ UNCHANGED <<db, replacedAt, cache, reader, janitor, writer, ackedClearing>>

-----------------------------------------------------------------------------

Next ==
    \/ \E r \in Reader : \/ CacheGet(r)
                         \/ CacheGetDelete(r)
                         \/ Query(r)
                         \/ QueryFails(r)
                         \/ Store(r)
    \/ CleanupScan
    \/ CleanupDelete
    \/ \E w \in Writer : \/ \E op \in ClearingOp \cup SilentOp : Commit(w, op)
                         \/ Clear(w)
    \/ ForeignWrite
    \/ Tick

Spec == Init /\ [][Next]_vars

-----------------------------------------------------------------------------
(* Properties.                                                             *)

\* Whatever writes the table, this process or another, with or without Clear:
\* a hit never returns rows that were replaced longer ago than the lifetime
\* plus the time a query takes.  Without the second term it would be false:
\* Set starts the lifetime after the rows were read.
BoundedStaleness ==
    Live => \/ cache.data = db
            \/ now <= replacedAt[cache.data] + TTL + MaxFetch

\* Once a function that clears has returned, a hit does not undo its effect,
\* except through a GetData() that read the table before the Clear() and
\* called Set after it.
StaleOnlyByOverlap ==
    Live /\ cache.data < ackedClearing => cache.overlapped

=============================================================================
