----------------------------- MODULE MemoryProofs -----------------------------
(***************************************************************************)
(* Proofs about what a process keeps in memory and several of its          *)
(* goroutines use: the user cache (UserCache, for any number of readers    *)
(* and writers and for every lifetime and fetch time), the sums of the     *)
(* network speed (NetSpeed, for any number of runs and interfaces and any  *)
(* word that the counters fit) and the channel of a command (ExecCommand,  *)
(* for any capacity and any number of lines).  The three share no variable.*)
(***************************************************************************)
EXTENDS UserCache, NetSpeed, ExecCommand, SequenceTheorems, FiniteSetTheorems, TLAPS

-----------------------------------------------------------------------------
(* UserCache                                                               *)

\* When data was read: it was current then, so it was replaced later or not at
\* all, and the lifetime given to it starts at most MaxFetch after that.
FreshWhenRead(data, read) ==
    /\ read <= now
    /\ data <= db
    /\ data < db => read <= replacedAt[data]

AgeInv ==
    /\ \A r \in Reader : reader[r].pc = "queried" =>
          /\ FreshWhenRead(reader[r].data, reader[r].read)
          /\ now <= reader[r].read + MaxFetch
    /\ cache.held =>
          /\ FreshWhenRead(cache.data, cache.read)
          /\ cache.expiresAt <= cache.read + MaxFetch + TTL

\* No version is acknowledged before it exists, and whoever holds rows older
\* than an acknowledged clearing write was overtaken by its Clear().
OverlapInv ==
    /\ ackedClearing <= db
    /\ \A w \in Writer : writer[w].version <= db
    /\ \A r \in Reader : reader[r].pc = "queried" /\ reader[r].data < ackedClearing
                            => reader[r].overlapped
    /\ cache.held /\ cache.data < ackedClearing => cache.overlapped

-----------------------------------------------------------------------------

LEMMA InitTypeOK == Init => TypeOK
<1>1. /\ 0 \in Time /\ 0 \in Version /\ 0 \in 0 .. MaxTime + TTL
    BY TimesAreNat DEF Time, Version
<1>2. Nothing \in CacheEntry /\ IdleReader \in ReaderState
    BY <1>1 DEF Nothing, IdleReader, CacheEntry, ReaderState
<1>3. [pc |-> "idle", version |-> 0] \in WriterState
    BY <1>1 DEF WriterState
<1>. QED
    BY <1>1, <1>2, <1>3 DEF Init, TypeOK

LEMMA NextVersion ==
    ASSUME TypeOK, Replace
    PROVE  /\ db + 1 \in Version /\ db' \in Version
           /\ replacedAt' \in [Version -> Time]
BY TimesAreNat DEF TypeOK, Replace, Version

LEMMA TypeStep == ASSUME TypeOK, [Next]_vars PROVE TypeOK'
<1>1. /\ 0 \in Time /\ 0 \in Version /\ 0 \in 0 .. MaxTime + TTL
      /\ Nothing \in CacheEntry /\ IdleReader \in ReaderState
    BY TimesAreNat DEF Time, Version, Nothing, IdleReader, CacheEntry, ReaderState
<1>. USE DEF TypeOK
<1>2. ASSUME NEW r \in Reader, CacheGet(r) \/ CacheGetDelete(r) \/ QueryFails(r)
      PROVE  TypeOK'
    BY <1>1, <1>2 DEF CacheGet, CacheGetDelete, QueryFails, ReaderState
<1>3. ASSUME NEW r \in Reader, Query(r) PROVE TypeOK'
    BY <1>3 DEF Query, ReaderState
<1>4. ASSUME NEW r \in Reader, Store(r) PROVE TypeOK'
  <2>1. now + TTL \in 0 .. MaxTime + TTL
      BY TimesAreNat DEF Time
  <2>2. cache' \in CacheEntry
      BY <1>4, <2>1 DEF Store, CacheEntry, ReaderState
  <2>. QED
      BY <1>1, <1>4, <2>2 DEF Store
<1>5. CASE CleanupScan \/ CleanupDelete
    BY <1>1, <1>5 DEF CleanupScan, CleanupDelete
<1>6. ASSUME NEW w \in Writer, NEW op, Commit(w, op) PROVE TypeOK'
    BY <1>6, NextVersion DEF Commit, WriterState
<1>7. ASSUME NEW w \in Writer, Clear(w) PROVE TypeOK'
  <2>1. writer' \in [Writer -> WriterState] /\ writer[w].version \in Version
      BY <1>7 DEF Clear, WriterState
  <2>2. reader' \in [Reader -> ReaderState]
      BY <1>7 DEF Clear, ReaderState
  <2>. QED
      BY <1>1, <1>7, <2>1, <2>2 DEF Clear
<1>8. CASE ForeignWrite
    BY <1>8, NextVersion DEF ForeignWrite
<1>9. CASE Tick
  <2>1. now' \in Time
      BY <1>9, TimesAreNat DEF Tick, Time
  <2>. QED
      BY <1>9, <2>1 DEF Tick
<1>10. CASE UNCHANGED vars
    BY <1>10 DEF vars
<1>. QED
    BY <1>2, <1>3, <1>4, <1>5, <1>6, <1>7, <1>8, <1>9, <1>10 DEF Next

\* Every variable keeps its type.
THEOREM TypeCorrect == Spec => []TypeOK
<1>1. Init => TypeOK
    BY InitTypeOK
<1>2. TypeOK /\ [Next]_vars => TypeOK'
    BY TypeStep
<1>. QED
    BY <1>1, <1>2, PTL DEF Spec

-----------------------------------------------------------------------------

\* A write gives the replaced version the present as its end: what was read
\* before stays fresh when read.
LEMMA ReplaceKeepsFresh ==
    ASSUME TypeOK, Replace, now' = now,
           NEW data \in Version, NEW read \in Time, FreshWhenRead(data, read)
    PROVE  FreshWhenRead(data, read)'
BY TimesAreNat DEF TypeOK, Replace, FreshWhenRead, Version, Time

\* Looking an entry up, and a query that fails, bring nothing new into a
\* reader or into the cache.
LEMMA LookupFrame ==
    ASSUME TypeOK, NEW r \in Reader,
           CacheGet(r) \/ CacheGetDelete(r) \/ QueryFails(r)
    PROVE  /\ UNCHANGED <<now, db, replacedAt, writer, ackedClearing>>
           /\ cache' = cache \/ ~cache'.held
           /\ \A x \in Reader : reader'[x].pc = "queried" => reader'[x] = reader[x]
<1>1. /\ UNCHANGED <<now, db, replacedAt, writer, ackedClearing>>
      /\ cache' = cache \/ ~cache'.held
    BY DEF CacheGet, CacheGetDelete, QueryFails, Nothing
<1>2. reader'[r].pc # "queried"
    BY DEF CacheGet, CacheGetDelete, QueryFails, IdleReader, TypeOK, ReaderState
<1>3. \A x \in Reader : x # r => reader'[x] = reader[x]
    BY DEF CacheGet, CacheGetDelete, QueryFails, TypeOK
<1>. QED
    BY <1>1, <1>2, <1>3

LEMMA AgeStep == ASSUME TypeOK, AgeInv, [Next]_vars PROVE AgeInv'
<1>1. /\ now \in Nat /\ db \in Nat /\ cache.data \in Version /\ cache.read \in Time
      /\ cache.expiresAt \in Nat
      /\ \A v \in Version : v \in Nat /\ replacedAt[v] \in Nat
      /\ \A r \in Reader : /\ reader[r].data \in Version /\ reader[r].read \in Time
                           /\ reader[r].pc \in {"idle", "expired", "missed", "queried"}
      /\ \A t \in Time : t \in Nat
      /\ TTL \in Nat /\ MaxFetch \in Nat
    BY TimesAreNat DEF TypeOK, Version, Time, CacheEntry, ReaderState
<1>2. ASSUME NEW r \in Reader, CacheGet(r) \/ CacheGetDelete(r) \/ QueryFails(r)
      PROVE  AgeInv'
    BY <1>2, LookupFrame DEF AgeInv, FreshWhenRead
<1>3. ASSUME NEW r \in Reader, Query(r) PROVE AgeInv'
    BY <1>1, <1>3 DEF Query, AgeInv, FreshWhenRead, TypeOK
<1>4. ASSUME NEW r \in Reader, Store(r) PROVE AgeInv'
  <2>1. \A x \in Reader : reader'[x].pc = "queried" => reader'[x] = reader[x]
      BY <1>4 DEF Store, IdleReader, TypeOK
  <2>2. /\ FreshWhenRead(reader[r].data, reader[r].read)
        /\ now + TTL <= reader[r].read + MaxFetch + TTL
      BY <1>1, <1>4 DEF Store, AgeInv
  <2>3. /\ UNCHANGED <<now, db, replacedAt>>
        /\ cache'.data = reader[r].data /\ cache'.read = reader[r].read
        /\ cache'.expiresAt = now + TTL
      BY <1>4 DEF Store
  <2>. QED
      BY <2>1, <2>2, <2>3 DEF AgeInv, FreshWhenRead
<1>5. CASE CleanupScan \/ CleanupDelete
    BY <1>5 DEF CleanupScan, CleanupDelete, AgeInv, FreshWhenRead, Nothing
<1>6. CASE Replace /\ UNCHANGED <<now, cache, reader>>
    BY <1>1, <1>6, ReplaceKeepsFresh DEF AgeInv
<1>7. ASSUME NEW w \in Writer, Clear(w) PROVE AgeInv'
  <2>1. \A r \in Reader : /\ reader'[r].pc = reader[r].pc
                          /\ reader'[r].data = reader[r].data
                          /\ reader'[r].read = reader[r].read
      BY <1>7 DEF Clear, TypeOK, ReaderState
  <2>. QED
      BY <1>7, <2>1 DEF Clear, AgeInv, FreshWhenRead, Nothing
<1>8. CASE Tick
    BY <1>1, <1>8 DEF Tick, AgeInv, FreshWhenRead
<1>9. CASE UNCHANGED vars
    BY <1>9 DEF vars, AgeInv, FreshWhenRead
<1>. QED
    BY <1>2, <1>3, <1>4, <1>5, <1>6, <1>7, <1>8, <1>9
    DEF Next, Commit, ForeignWrite

\* A cache hit is at most TTL + MaxFetch behind the table, whoever writes it.
THEOREM StalenessBounded == Spec => []BoundedStaleness
<1>1. Init => AgeInv
    BY DEF Init, AgeInv, Nothing, IdleReader
<1>2. TypeOK /\ AgeInv /\ [Next]_vars => AgeInv'
    BY AgeStep
<1>3. TypeOK /\ AgeInv => BoundedStaleness
    BY TimesAreNat
    DEF TypeOK, AgeInv, BoundedStaleness, Live, FreshWhenRead, CacheEntry,
        Version, Time
<1>. QED
    BY <1>1, <1>2, <1>3, TypeCorrect, PTL DEF Spec

-----------------------------------------------------------------------------

LEMMA OverlapStep == ASSUME TypeOK, OverlapInv, [Next]_vars PROVE OverlapInv'
<1>1. /\ db \in Nat /\ ackedClearing \in Nat /\ cache.data \in Nat
      /\ \A r \in Reader : reader[r].data \in Nat
      /\ \A w \in Writer : writer[w].version \in Nat
    BY TimesAreNat DEF TypeOK, Version, CacheEntry, ReaderState, WriterState
<1>2. ASSUME NEW r \in Reader, CacheGet(r) \/ CacheGetDelete(r) \/ QueryFails(r)
      PROVE  OverlapInv'
    BY <1>2, LookupFrame DEF OverlapInv
<1>3. ASSUME NEW r \in Reader, Query(r) PROVE OverlapInv'
    BY <1>1, <1>3 DEF Query, OverlapInv, TypeOK
<1>4. ASSUME NEW r \in Reader, Store(r) PROVE OverlapInv'
    BY <1>4 DEF Store, OverlapInv, IdleReader, TypeOK
<1>5. CASE CleanupScan \/ CleanupDelete
    BY <1>5 DEF CleanupScan, CleanupDelete, OverlapInv, Nothing
<1>6. ASSUME NEW w \in Writer, NEW op, Commit(w, op) PROVE OverlapInv'
  <2>1. \A x \in Writer : writer'[x].version <= db + 1
      BY <1>1, <1>6 DEF Commit, OverlapInv, TypeOK
  <2>. QED
      BY <1>1, <1>6, <2>1 DEF Commit, Replace, OverlapInv
<1>7. ASSUME NEW w \in Writer, Clear(w) PROVE OverlapInv'
  <2>1. \A r \in Reader : /\ reader'[r].pc = reader[r].pc
                          /\ reader[r].pc = "queried" => reader'[r].overlapped
      BY <1>7 DEF Clear, TypeOK, ReaderState
  <2>2. \A x \in Writer : writer'[x].version = writer[x].version
      BY <1>7 DEF Clear, TypeOK, WriterState
  <2>. QED
      BY <1>1, <1>7, <2>1, <2>2 DEF Clear, OverlapInv, Nothing
<1>8. CASE ForeignWrite
    BY <1>1, <1>8 DEF ForeignWrite, Replace, OverlapInv
<1>9. CASE Tick
    BY <1>9 DEF Tick, OverlapInv
<1>10. CASE UNCHANGED vars
    BY <1>10 DEF vars, OverlapInv
<1>. QED
    BY <1>2, <1>3, <1>4, <1>5, <1>6, <1>7, <1>8, <1>9, <1>10 DEF Next

\* Rows older than an acknowledged clearing write are served only by way of a
\* GetData() that the Clear() of that write overtook.
THEOREM OverlapOnly == Spec => []StaleOnlyByOverlap
<1>1. Init => OverlapInv
    BY DEF Init, OverlapInv, Nothing, IdleReader
<1>2. TypeOK /\ OverlapInv /\ [Next]_vars => OverlapInv'
    BY OverlapStep
<1>3. OverlapInv => StaleOnlyByOverlap
    BY DEF OverlapInv, StaleOnlyByOverlap, Live
<1>. QED
    BY <1>1, <1>2, <1>3, TypeCorrect, PTL DEF Spec

-----------------------------------------------------------------------------
(* NetSpeed                                                                *)

Under(r) == ~In(r, "off")
Alone(r) == Under(r) /\ ~sampler[r].disturbed

\* A run that nothing has disturbed is the only one, and the samples judged
\* since the last disturbance were shown by such runs.
AloneInv ==
    \A r \in Sampler :
        /\ Alone(r) => \A s \in Sampler \ {r} : ~Under(s)
        /\ Under(r) /\ sampler[r].disturbed => calm = 0

\* It finds its own sum in the shared variable, and what it read is behind it.
SumInv ==
    \A r \in Sampler : Alone(r) =>
        /\ In(r, "add") => /\ sampler[r].own = TotalOver(Nic \ sampler[r].left, sampler[r].result)
                           /\ sum = sampler[r].own
        /\ sampler[r].pc \in {"show", "keep"} => /\ sampler[r].own = Total(sampler[r].result)
                                                 /\ sum = sampler[r].own
        /\ ~In(r, "read") => \A n \in Nic : sampler[r].result[n] <= counter[n]

\* While it is calm the traffic never shrinks from one sample to the next, and
\* the next difference is taken from the sample judged last.
CalmInv ==
    calm > 0 =>
        /\ newer <= Total(counter)
        /\ \A r \in Sampler : Under(r) =>
              /\ sampler[r].pc \in {"reset", "add", "show"} => newer <= Total(sampler[r].result)
              /\ In(r, "keep") => newer = Total(sampler[r].result)
        /\ (\A r \in Sampler : ~In(r, "keep")) => last = newer

-----------------------------------------------------------------------------
(* Unsigned sums, and totals                                               *)

LEMMA WordIsPositive == Word \in Nat \ {0} /\ 0 \in Sum
<1>1. Cardinality(Nic) * MaxByte \in Nat
  BY SumsFitWords, FS_CardinalityType
<1>. QED
  BY <1>1, SumsFitWords DEF Sum

\* A sum that fits its word, and a difference from one that is no larger.
LEMMA Unsigned ==
    ASSUME NEW x \in Sum, NEW y \in Sum, y <= x
    PROVE  x % Word = x /\ (Word + x - y) % Word = x - y
<1>1. x \in Nat /\ y \in Nat /\ x < Word /\ x - y \in Nat /\ x - y < Word
  BY WordIsPositive DEF Sum
<1>2. x % Word = x
  BY <1>1, WordIsPositive
<1>. DEFINE d == x - y
<1>3. Word + x - y = Word + d
  BY <1>1, WordIsPositive
<1>4. d \in Nat /\ d < Word
  BY <1>1
<1>. HIDE DEF d
<1>5. (Word + d) % Word = d
  BY <1>4, WordIsPositive
<1>. QED
  BY <1>2, <1>3, <1>5 DEF d

Bytes(nics, bytes) == {p \in nics \X (1 .. MaxByte) : p[2] <= bytes[p[1]]}

LEMMA BytesFinite ==
    ASSUME NEW nics \in SUBSET Nic, NEW bytes
    PROVE  /\ IsFiniteSet(Bytes(nics, bytes))
           /\ TotalOver(nics, bytes) = Cardinality(Bytes(nics, bytes))
           /\ TotalOver(nics, bytes) \in Nat
           /\ TotalOver(nics, bytes) \in Sum
<1>1. IsFiniteSet(nics) /\ Cardinality(nics) <= Cardinality(Nic) /\ Cardinality(nics) \in Nat
      /\ Cardinality(Nic) \in Nat
  BY SumsFitWords, FS_Subset, FS_CardinalityType
<1>2. IsFiniteSet(1 .. MaxByte) /\ Cardinality(1 .. MaxByte) = MaxByte
  BY SumsFitWords, FS_Interval
<1>3. /\ IsFiniteSet(Nic \X (1 .. MaxByte))
      /\ Cardinality(Nic \X (1 .. MaxByte)) = Cardinality(Nic) * MaxByte
  BY <1>2, SumsFitWords, FS_Product
<1>4. Bytes(nics, bytes) \in SUBSET (Nic \X (1 .. MaxByte))
  BY DEF Bytes
<1>5. /\ IsFiniteSet(Bytes(nics, bytes))
      /\ Cardinality(Bytes(nics, bytes)) <= Cardinality(Nic) * MaxByte
      /\ Cardinality(Bytes(nics, bytes)) \in Nat
  BY <1>3, <1>4, FS_Subset, FS_CardinalityType
<1>6. TotalOver(nics, bytes) = Cardinality(Bytes(nics, bytes))
  BY DEF TotalOver, Bytes
<1>7. Cardinality(Nic) * MaxByte \in Nat
  BY <1>1, SumsFitWords
<1>. QED
  BY <1>5, <1>6, <1>7, SumsFitWords DEF Sum

LEMMA TotalOfNone == ASSUME NEW bytes PROVE TotalOver({}, bytes) = 0
<1>1. {p \in {} \X (1 .. MaxByte) : p[2] <= bytes[p[1]]} = {}
  OBVIOUS
<1>. QED
  BY <1>1, FS_EmptySet DEF TotalOver

\* One more interface adds its bytes to the total.
LEMMA TotalAdds ==
    ASSUME NEW nics \in SUBSET Nic, NEW n \in Nic \ nics, NEW bytes \in [Nic -> Byte]
    PROVE  TotalOver(nics \cup {n}, bytes) = TotalOver(nics, bytes) + bytes[n]
<1>. DEFINE own == {n} \X (1 .. bytes[n])
<1>1. bytes[n] \in 0 .. MaxByte
  BY DEF Byte
<1>2. IsFiniteSet(own) /\ Cardinality(own) = bytes[n]
  <2>1. IsFiniteSet({n}) /\ Cardinality({n}) = 1
    BY FS_Singleton
  <2>2. IsFiniteSet(1 .. bytes[n]) /\ Cardinality(1 .. bytes[n]) = bytes[n]
    BY <1>1, SumsFitWords, FS_Interval
  <2>3. IsFiniteSet(own) /\ Cardinality(own) = Cardinality({n}) * Cardinality(1 .. bytes[n])
    BY <2>1, <2>2, FS_Product
  <2>4. Cardinality(own) = 1 * bytes[n]
    BY <2>1, <2>2, <2>3
  <2>5. bytes[n] \in Nat
    BY <1>1
  <2>. QED
    BY <2>3, <2>4, <2>5
<1>3. Bytes(nics \cup {n}, bytes) = Bytes(nics, bytes) \cup own
  BY <1>1, SumsFitWords DEF Bytes
<1>4. Bytes(nics, bytes) \cap own = {}
  BY DEF Bytes
<1>5. nics \cup {n} \in SUBSET Nic
  OBVIOUS
<1>. HIDE DEF own
<1>6. Cardinality(Bytes(nics, bytes) \cup own)
         = Cardinality(Bytes(nics, bytes)) + Cardinality(own)
           - Cardinality(Bytes(nics, bytes) \cap own)
  BY <1>2, BytesFinite, FS_Union
<1>7. Cardinality(Bytes(nics, bytes) \cap own) = 0
  BY <1>4, FS_EmptySet
<1>8. TotalOver(nics, bytes) = Cardinality(Bytes(nics, bytes)) /\ TotalOver(nics, bytes) \in Nat
  BY BytesFinite
<1>9. TotalOver(nics \cup {n}, bytes) = Cardinality(Bytes(nics \cup {n}, bytes))
  BY <1>5, BytesFinite
<1>10. /\ TotalOver(nics \cup {n}, bytes) = Cardinality(Bytes(nics, bytes) \cup own)
       /\ TotalOver(nics, bytes) + bytes[n] = Cardinality(Bytes(nics, bytes)) + Cardinality(own)
  BY <1>2, <1>3, <1>8, <1>9
<1>11. bytes[n] \in Nat
  BY <1>1
<1>. QED
  BY <1>2, <1>6, <1>7, <1>8, <1>10, <1>11

LEMMA TotalIsSum == ASSUME NEW bytes PROVE Total(bytes) \in Sum
BY BytesFinite DEF Total

LEMMA TotalGrows ==
    ASSUME NEW a \in [Nic -> Byte], NEW b \in [Nic -> Byte], \A n \in Nic : a[n] <= b[n]
    PROVE  Total(a) <= Total(b)
<1>1. Bytes(Nic, a) \in SUBSET Bytes(Nic, b)
  BY SumsFitWords DEF Bytes, Byte
<1>2. IsFiniteSet(Bytes(Nic, b)) /\ Total(b) = Cardinality(Bytes(Nic, b))
      /\ Total(a) = Cardinality(Bytes(Nic, a))
  BY BytesFinite DEF Total
<1>. QED
  BY <1>1, <1>2, FS_Subset

-----------------------------------------------------------------------------
(* Types                                                                   *)

LEMMA Remainders ==
    ASSUME NEW s \in Sum, NEW y \in Sum, NEW b \in Byte
    PROVE  /\ (s + b) % Word \in Sum
           /\ ((Word + s - y) % Word) \div 2 \in 0 .. Word \div 2
<1>1. s \in Nat /\ b \in Nat /\ Word + s - y \in Nat
  BY WordIsPositive, SumsFitWords DEF Sum, Byte
<1>2. (s + b) % Word \in 0 .. Word - 1 /\ (Word + s - y) % Word \in 0 .. Word - 1
  BY <1>1, WordIsPositive
<1>. DEFINE d == (Word + s - y) % Word
<1>3. d \in 0 .. Word - 1
  BY <1>2
<1>. HIDE DEF d
<1>4. d \div 2 \in 0 .. Word \div 2
  BY <1>3, WordIsPositive
<1>. QED
  BY <1>2, <1>4 DEF Sum, d

LEMMA RunFields ==
    ASSUME NEW run \in Run
    PROVE  /\ run.pc \in {"off", "read", "reset", "add", "show", "keep"}
           /\ run.result \in [Nic -> Byte] /\ run.left \in SUBSET Nic
           /\ run.own \in Sum /\ run.disturbed \in BOOLEAN
BY DEF Run

LEMMA OffIsRun == Off \in Run
<1>1. [n \in Nic |-> 0] \in [Nic -> Byte]
  BY SumsFitWords DEF Byte
<1>. QED
  BY <1>1, WordIsPositive DEF Off, Run

LEMMA TickedRun ==
    ASSUME NEW b \in BOOLEAN
    PROVE  /\ [Off EXCEPT !.pc = "read", !.disturbed = b] \in Run
           /\ [Off EXCEPT !.pc = "read", !.disturbed = b].pc = "read"
           /\ [Off EXCEPT !.pc = "read", !.disturbed = b].disturbed = b
<1>1. Off \in Run
  BY OffIsRun
<1>2. CASE b = TRUE
  BY <1>1, <1>2 DEF Run
<1>3. CASE b = FALSE
  BY <1>1, <1>3 DEF Run
<1>. QED
  BY <1>2, <1>3

LEMMA Becoming ==
    ASSUME SpeedTypeOK, NEW r \in Sampler, NEW run, Becomes(r, run)
    PROVE  /\ run \in Run => sampler' \in [Sampler -> Run]
           /\ sampler'[r] = run
           /\ \A s \in Sampler \ {r} : sampler'[s] = sampler[s]
BY DEF SpeedTypeOK, Becomes

LEMMA SpeedTypes == ASSUME SpeedTypeOK, [SpeedNext]_speedVars PROVE SpeedTypeOK'
<1>0. /\ counter \in [Nic -> Byte] /\ falls \in 0 .. MaxFall
      /\ sum \in Sum /\ last \in Sum /\ speed \in 0 .. Word \div 2
      /\ sampler \in [Sampler -> Run] /\ calm \in 0 .. 2 /\ newer \in Sum /\ older \in Sum
  BY DEF SpeedTypeOK
<1>1. ASSUME NEW n \in Nic, CounterFalls(n) PROVE SpeedTypeOK'
  <2>1. counter' \in [Nic -> Byte] /\ falls' \in 0 .. MaxFall /\ calm' \in 0 .. 2
    BY <1>0, <1>1, SumsFitWords DEF CounterFalls, Byte
  <2>2. ASSUME NEW s \in Sampler PROVE [sampler[s] EXCEPT !.disturbed = TRUE] \in Run
    BY <1>0 DEF Run
  <2>3. sampler' \in [Sampler -> Run]
    BY <1>1, <2>2, OffIsRun DEF CounterFalls
  <2>. QED
    BY <1>0, <1>1, <2>1, <2>3 DEF CounterFalls, SpeedTypeOK
<1>2. ASSUME NEW n \in Nic, NEW bytes \in 1 .. 2, Traffic(n, bytes) PROVE SpeedTypeOK'
  <2>1. counter' \in [Nic -> Byte]
    BY <1>0, <1>2, SumsFitWords DEF Traffic, Byte
  <2>. QED
    BY <1>0, <1>2, <2>1 DEF Traffic, judged, SpeedTypeOK
<1>3. ASSUME NEW r \in Sampler, Tick2s(r) PROVE SpeedTypeOK'
  <2>. DEFINE busy == {s \in Sampler : ~In(s, "off")}
              late == busy # {}
  <2>1. /\ sampler' = [s \in Sampler |->
                          IF s = r THEN [Off EXCEPT !.pc = "read", !.disturbed = late]
                          ELSE IF s \in busy THEN [sampler[s] EXCEPT !.disturbed = TRUE]
                          ELSE sampler[s]]
        /\ calm' = IF late THEN 0 ELSE calm
        /\ UNCHANGED <<counter, falls, sum, last, speed, newer, older>>
    BY <1>3 DEF Tick2s, kernel
  <2>2. late \in BOOLEAN
    OBVIOUS
  <2>. HIDE DEF busy, late
  <2>3. [Off EXCEPT !.pc = "read", !.disturbed = late] \in Run
    BY <2>2, TickedRun
  <2>4. ASSUME NEW s \in Sampler PROVE [sampler[s] EXCEPT !.disturbed = TRUE] \in Run
    BY <1>0 DEF Run
  <2>5. sampler' \in [Sampler -> Run]
    BY <1>0, <2>1, <2>3, <2>4
  <2>6. calm' \in 0 .. 2
    BY <1>0, <2>1
  <2>. QED
    BY <1>0, <2>1, <2>5, <2>6 DEF SpeedTypeOK
<1>4. ASSUME NEW r \in Sampler, IOCounters(r) PROVE SpeedTypeOK'
  <2>1. [sampler[r] EXCEPT !.pc = "reset", !.result = counter] \in Run
    BY <1>0 DEF Run
  <2>2. sampler' \in [Sampler -> Run]
    BY <1>4, <2>1, Becoming, OffIsRun DEF IOCounters
  <2>. QED
    BY <1>0, <1>4, <2>2 DEF IOCounters, kernel, judged, SpeedTypeOK
<1>5. ASSUME NEW r \in Sampler, ResetSum(r) PROVE SpeedTypeOK'
  <2>1. [sampler[r] EXCEPT !.pc = "add", !.left = Nic, !.own = 0] \in Run
    BY <1>0, WordIsPositive DEF Run
  <2>2. sampler' \in [Sampler -> Run]
    BY <1>5, <2>1, Becoming DEF ResetSum
  <2>3. sum' \in Sum
    BY <1>5, WordIsPositive DEF ResetSum
  <2>. QED
    BY <1>0, <1>5, <2>2, <2>3 DEF ResetSum, kernel, judged, SpeedTypeOK
<1>6. ASSUME NEW r \in Sampler, NEW n \in Nic, AddNic(r, n) PROVE SpeedTypeOK'
  <2>. PICK s \in Seen(r) :
          /\ sum' = (s + sampler[r].result[n]) % Word
          /\ Becomes(r, [sampler[r] EXCEPT !.own = sum', !.left = @ \ {n},
                            !.pc = IF sampler[r].left = {n} THEN "show" ELSE "add"])
    BY <1>6 DEF AddNic
  <2>1. s \in Sum /\ sampler[r].result[n] \in Byte
    BY <1>0, RunFields DEF Seen
  <2>2. sum' \in Sum
    BY <2>1, Remainders
  <2>3. [sampler[r] EXCEPT !.own = sum', !.left = @ \ {n},
                            !.pc = IF sampler[r].left = {n} THEN "show" ELSE "add"] \in Run
    BY <1>0, <2>2 DEF Run
  <2>4. sampler' \in [Sampler -> Run]
    BY <2>3, Becoming
  <2>. QED
    BY <1>0, <1>6, <2>2, <2>4 DEF AddNic, kernel, judged, SpeedTypeOK
<1>7. ASSUME NEW r \in Sampler, ShowSpeed(r) PROVE SpeedTypeOK'
  <2>1. [sampler[r] EXCEPT !.pc = "keep"] \in Run
    BY <1>0 DEF Run
  <2>2. sampler' \in [Sampler -> Run]
    BY <1>7, <2>1, Becoming DEF ShowSpeed
  <2>3. PICK s \in Seen(r) : speed' = ((Word + s - last) % Word) \div 2
    BY <1>7 DEF ShowSpeed
  <2>4. s \in Sum
    BY <1>0, <2>3, RunFields DEF Seen
  <2>5. speed' \in 0 .. Word \div 2
    BY <1>0, <2>3, <2>4, SumsFitWords, Remainders DEF Byte
  <2>6. calm' \in 0 .. 2 /\ newer' \in Sum /\ older' \in Sum
    BY <1>0, <1>7, TotalIsSum DEF ShowSpeed
  <2>. QED
    BY <1>0, <1>7, <2>2, <2>5, <2>6 DEF ShowSpeed, kernel, SpeedTypeOK
<1>8. ASSUME NEW r \in Sampler, KeepSum(r) PROVE SpeedTypeOK'
  <2>1. last' \in Sum
    BY <1>0, <1>8, RunFields DEF KeepSum, Seen
  <2>2. sampler' \in [Sampler -> Run]
    BY <1>8, Becoming, OffIsRun DEF KeepSum
  <2>. QED
    BY <1>0, <1>8, <2>1, <2>2 DEF KeepSum, kernel, judged, SpeedTypeOK
<1>9. CASE UNCHANGED speedVars
  BY <1>9 DEF speedVars, SpeedTypeOK
<1>. QED
  BY <1>1, <1>2, <1>3, <1>4, <1>5, <1>6, <1>7, <1>8, <1>9 DEF SpeedNext

LEMMA SpeedInitTypes == SpeedInit => SpeedTypeOK
<1>. SUFFICES ASSUME SpeedInit PROVE SpeedTypeOK
  OBVIOUS
<1>1. Total(counter) \in Sum /\ 0 \in Sum /\ 0 \in 0 .. Word \div 2 /\ 0 \in 0 .. MaxFall
  BY TotalIsSum, WordIsPositive, SumsFitWords
<1>2. sampler \in [Sampler -> Run]
  BY OffIsRun DEF SpeedInit
<1>. QED
  BY <1>1, <1>2 DEF SpeedInit, SpeedTypeOK

\* The sums stay unsigned words and the counters bounded, however runs overlap.
THEOREM SpeedTypeCorrect == SpeedSpec => []SpeedTypeOK
BY SpeedInitTypes, SpeedTypes, PTL DEF SpeedSpec

-----------------------------------------------------------------------------
(* The sums that are judged                                                *)

SpeedInv == AloneInv /\ SumInv /\ CalmInv

\* A step of run r matters only if r is alone: to itself, and to what is judged.
LEMMA StepOfRun ==
    ASSUME AloneInv, NEW r \in Sampler, Under(r),
           \A s \in Sampler \ {r} : sampler'[s] = sampler[s],
           sampler'[r].pc = "off" \/ sampler'[r].disturbed = sampler[r].disturbed,
           sampler[r].disturbed => calm' = 0
    PROVE  /\ AloneInv'
           /\ \A q \in Sampler : Alone(q)' => q = r /\ Alone(r)
           /\ Alone(r) \/ calm' = 0
           /\ Alone(r) => \A s \in Sampler \ {r} : sampler[s].pc = "off" /\ sampler'[s].pc = "off"
<1>1. Alone(r) \/ (sampler[r].disturbed /\ calm' = 0)
  BY DEF Alone
<1>2. Alone(r) => \A s \in Sampler \ {r} : sampler[s].pc = "off" /\ sampler'[s].pc = "off"
  BY DEF AloneInv, Alone, Under, In
<1>3. ASSUME NEW q \in Sampler, Alone(q)' PROVE q = r /\ Alone(r)
  <2>1. CASE q = r
    BY <1>3, <2>1 DEF Alone, Under, In
  <2>2. CASE q # r
    <3>1. Alone(q)
      BY <1>3, <2>2 DEF Alone, Under, In
    <3>. QED
      BY <2>2, <3>1 DEF AloneInv
  <2>. QED
    BY <2>1, <2>2
<1>4. ASSUME NEW q \in Sampler, NEW s \in Sampler \ {q}, Alone(q)' PROVE ~Under(s)'
  BY <1>2, <1>3, <1>4 DEF Under, In
<1>5. ASSUME NEW q \in Sampler, Under(q)', sampler'[q].disturbed PROVE calm' = 0
  <2>1. CASE q = r
    BY <1>1, <1>5, <2>1 DEF Alone, Under, In
  <2>2. CASE q # r
    BY <1>1, <1>2, <1>5, <2>2 DEF Under, In
  <2>. QED
    BY <2>1, <2>2
<1>. QED
  BY <1>1, <1>2, <1>3, <1>4, <1>5 DEF AloneInv

LEMMA NoneAlone ==
    ASSUME calm' = 0, \A s \in Sampler : Under(s)' => sampler'[s].disturbed
    PROVE  SpeedInv'
<1>1. \A s \in Sampler : ~Alone(s)'
  BY DEF Alone
<1>. QED
  BY <1>1 DEF SpeedInv, AloneInv, SumInv, CalmInv

LEMMA TrafficStep ==
    ASSUME SpeedTypeOK, SpeedInv, NEW n \in Nic, NEW bytes \in 1 .. 2, Traffic(n, bytes)
    PROVE  SpeedInv'
<1>1. /\ counter \in [Nic -> Byte] /\ newer \in Sum
      /\ counter' \in [Nic -> Byte]
      /\ sampler' = sampler /\ sum' = sum /\ last' = last /\ calm' = calm /\ newer' = newer
  BY SpeedTypes DEF SpeedTypeOK, SpeedNext, Traffic, judged
<1>2. \A m \in Nic : counter[m] \in Nat /\ counter'[m] \in Nat /\ counter[m] <= counter'[m]
  BY <1>1, SumsFitWords DEF SpeedTypeOK, Traffic, Byte
<1>3. Total(counter) <= Total(counter') /\ Total(counter) \in Sum /\ Total(counter') \in Sum
  BY <1>1, <1>2, TotalGrows, TotalIsSum
<1>4. AloneInv'
  BY <1>1 DEF SpeedInv, AloneInv, Alone, Under, In
<1>5. SumInv'
  <2>. SUFFICES ASSUME NEW r \in Sampler, Alone(r)'
                PROVE  /\ In(r, "add")' => /\ sampler'[r].own = TotalOver(Nic \ sampler'[r].left, sampler'[r].result)
                                            /\ sum' = sampler'[r].own
                       /\ sampler'[r].pc \in {"show", "keep"} => /\ sampler'[r].own = Total(sampler'[r].result)
                                                                  /\ sum' = sampler'[r].own
                       /\ ~In(r, "read")' => \A m \in Nic : sampler'[r].result[m] <= counter'[m]
    BY DEF SumInv
  <2>1. Alone(r)
    BY <1>1 DEF Alone, Under, In
  <2>2. \A m \in Nic : sampler[r].result[m] \in Nat
    BY RunFields, SumsFitWords DEF SpeedTypeOK, Byte
  <2>3. ~In(r, "read")' => \A m \in Nic : sampler'[r].result[m] <= counter'[m]
    <3>1. ~In(r, "read") => \A m \in Nic : sampler[r].result[m] <= counter[m]
      BY <2>1 DEF SpeedInv, SumInv
    <3>2. ASSUME NEW m \in Nic, sampler[r].result[m] <= counter[m]
          PROVE  sampler[r].result[m] <= counter'[m]
      BY <1>2, <2>2, <3>2
    <3>. QED
      BY <1>1, <3>1, <3>2 DEF In
  <2>. QED
    BY <1>1, <2>1, <2>3 DEF SpeedInv, SumInv, In
<1>6. CalmInv'
  <2>1. calm > 0 => newer <= Total(counter')
    BY <1>1, <1>3 DEF SpeedInv, CalmInv, Sum
  <2>. QED
    BY <1>1, <2>1 DEF SpeedInv, CalmInv, Under, In
<1>. QED
  BY <1>4, <1>5, <1>6 DEF SpeedInv

LEMMA TickStep ==
    ASSUME SpeedTypeOK, SpeedInv, NEW r \in Sampler, Tick2s(r)
    PROVE  SpeedInv'
<1>. DEFINE busy == {s \in Sampler : ~In(s, "off")}
            late == busy # {}
            ticked == [Off EXCEPT !.pc = "read", !.disturbed = late]
<1>1. /\ sampler' = [s \in Sampler |->
                        IF s = r THEN ticked
                        ELSE IF s \in busy THEN [sampler[s] EXCEPT !.disturbed = TRUE]
                        ELSE sampler[s]]
      /\ calm' = IF late THEN 0 ELSE calm
      /\ counter' = counter /\ sum' = sum /\ last' = last /\ newer' = newer
  BY DEF Tick2s, kernel
<1>2. ticked.pc = "read" /\ ticked.disturbed = late
  BY TickedRun
<1>. HIDE DEF ticked
<1>3. CASE late
  <2>1. \A s \in Sampler : Under(s)' => sampler'[s].disturbed
    <3>1. ASSUME NEW s \in Sampler, s \in busy, s # r PROVE sampler'[s].disturbed
      <4>1. sampler'[s] = [sampler[s] EXCEPT !.disturbed = TRUE] /\ sampler[s] \in Run
        BY <1>1, <3>1 DEF SpeedTypeOK
      <4>. QED
        BY <4>1 DEF Run
    <3>2. ASSUME NEW s \in Sampler, s \notin busy, s # r PROVE ~Under(s)'
      BY <1>1, <3>2 DEF Under, In
    <3>3. sampler'[r].disturbed
      BY <1>1, <1>2, <1>3
    <3>. QED
      BY <3>1, <3>2, <3>3
  <2>. QED
    BY <1>1, <1>3, <2>1, NoneAlone
<1>4. CASE ~late
  <2>1. \A s \in Sampler : sampler[s].pc = "off"
    BY <1>4 DEF In
  <2>2. /\ sampler'[r].pc = "read" /\ sampler'[r].disturbed = FALSE
        /\ \A s \in Sampler \ {r} : sampler'[s] = sampler[s]
        /\ calm' = calm
    BY <1>1, <1>2, <1>4
  <2>3. AloneInv'
    BY <2>1, <2>2 DEF AloneInv, Alone, Under, In
  <2>4. SumInv'
    BY <2>1, <2>2 DEF SumInv, Alone, Under, In
  <2>5. CalmInv'
    BY <1>1, <2>1, <2>2 DEF SpeedInv, CalmInv, Under, In
  <2>. QED
    BY <2>3, <2>4, <2>5 DEF SpeedInv
<1>. QED
  BY <1>3, <1>4

\* What a run finds in the counters, it keeps until its next one.
LEMMA ReadStep ==
    ASSUME SpeedTypeOK, SpeedInv, NEW r \in Sampler, IOCounters(r)
    PROVE  SpeedInv'
<1>1. /\ Under(r) /\ sampler[r].pc = "read" /\ sampler[r] \in Run /\ Off.pc = "off"
      /\ counter \in [Nic -> Byte]
      /\ counter' = counter /\ sum' = sum /\ last' = last /\ calm' = calm /\ newer' = newer
  BY DEF SpeedTypeOK, IOCounters, Under, In, Off, kernel, judged
<1>2. /\ \A s \in Sampler \ {r} : sampler'[s] = sampler[s]
      /\ \/ sampler'[r] = [sampler[r] EXCEPT !.pc = "reset", !.result = counter]
         \/ sampler'[r] = Off
  BY Becoming DEF IOCounters
<1>3. \/ sampler'[r].pc = "off"
      \/ /\ sampler'[r].pc = "reset" /\ sampler'[r].result = counter
         /\ sampler'[r].disturbed = sampler[r].disturbed
  BY <1>1, <1>2 DEF Run
<1>4. sampler[r].disturbed => calm' = 0
  BY <1>1 DEF SpeedInv, AloneInv
<1>5. /\ AloneInv'
      /\ \A q \in Sampler : Alone(q)' => q = r /\ Alone(r)
      /\ Alone(r) \/ calm' = 0
      /\ Alone(r) => \A s \in Sampler \ {r} : sampler[s].pc = "off" /\ sampler'[s].pc = "off"
  BY <1>1, <1>2, <1>3, <1>4, StepOfRun DEF SpeedInv
<1>6. SumInv'
  <2>1. \A m \in Nic : counter[m] <= counter[m]
    BY <1>1, SumsFitWords DEF Byte
  <2>. QED
    BY <1>1, <1>3, <1>5, <2>1 DEF SumInv, Alone, Under, In
<1>7. CalmInv'
  <2>1. calm' > 0 => \A s \in Sampler : ~In(s, "keep")
    BY <1>1, <1>5 DEF In
  <2>. QED
    BY <1>1, <1>3, <1>5, <2>1 DEF SpeedInv, CalmInv, Under, In
<1>. QED
  BY <1>5, <1>6, <1>7 DEF SpeedInv

LEMMA ResetStep ==
    ASSUME SpeedTypeOK, SpeedInv, NEW r \in Sampler, ResetSum(r)
    PROVE  SpeedInv'
<1>1. /\ Under(r) /\ sampler[r].pc = "reset" /\ sampler[r] \in Run
      /\ counter' = counter /\ sum' = 0 /\ last' = last /\ calm' = calm /\ newer' = newer
  BY DEF SpeedTypeOK, ResetSum, Under, In, kernel, judged
<1>2. /\ \A s \in Sampler \ {r} : sampler'[s] = sampler[s]
      /\ sampler'[r] = [sampler[r] EXCEPT !.pc = "add", !.left = Nic, !.own = 0]
  BY Becoming DEF ResetSum
<1>3. /\ sampler'[r].pc = "add" /\ sampler'[r].left = Nic /\ sampler'[r].own = 0
      /\ sampler'[r].result = sampler[r].result
      /\ sampler'[r].disturbed = sampler[r].disturbed
  BY <1>1, <1>2 DEF Run
<1>4. sampler[r].disturbed => calm' = 0
  BY <1>1 DEF SpeedInv, AloneInv
<1>5. /\ AloneInv'
      /\ \A q \in Sampler : Alone(q)' => q = r /\ Alone(r)
      /\ Alone(r) \/ calm' = 0
      /\ Alone(r) => \A s \in Sampler \ {r} : sampler[s].pc = "off" /\ sampler'[s].pc = "off"
  BY <1>1, <1>2, <1>3, <1>4, StepOfRun DEF SpeedInv
<1>6. SumInv'
  <2>1. 0 = TotalOver(Nic \ Nic, sampler[r].result)
    <3>1. Nic \ Nic = {}
      OBVIOUS
    <3>. QED
      BY <3>1, TotalOfNone
  <2>. QED
    BY <1>1, <1>3, <1>5, <2>1 DEF SpeedInv, SumInv, Alone, Under, In
<1>7. CalmInv'
  <2>1. calm' > 0 => \A s \in Sampler : ~In(s, "keep")
    BY <1>1, <1>5 DEF In
  <2>. QED
    BY <1>1, <1>3, <1>5, <2>1 DEF SpeedInv, CalmInv, Under, In
<1>. QED
  BY <1>5, <1>6, <1>7 DEF SpeedInv

\* A run that is alone adds up what it has read.
LEMMA AddStep ==
    ASSUME SpeedTypeOK, SpeedInv, NEW r \in Sampler, NEW n \in Nic, AddNic(r, n)
    PROVE  SpeedInv'
<1>. DEFINE bytes == sampler[r].result
            left == sampler[r].left
<1>1. /\ Under(r) /\ sampler[r].pc = "add" /\ sampler[r] \in Run /\ n \in left
      /\ counter' = counter /\ last' = last /\ calm' = calm /\ newer' = newer
  BY DEF SpeedTypeOK, AddNic, Under, In, kernel, judged
<1>. PICK seen \in Seen(r) :
        /\ sum' = (seen + bytes[n]) % Word
        /\ Becomes(r, [sampler[r] EXCEPT !.own = sum', !.left = @ \ {n},
                          !.pc = IF sampler[r].left = {n} THEN "show" ELSE "add"])
  BY DEF AddNic
<1>2. /\ \A s \in Sampler \ {r} : sampler'[s] = sampler[s]
      /\ sampler'[r] = [sampler[r] EXCEPT !.own = sum', !.left = @ \ {n},
                          !.pc = IF sampler[r].left = {n} THEN "show" ELSE "add"]
  BY Becoming
<1>3. /\ sampler'[r].pc = IF left = {n} THEN "show" ELSE "add"
      /\ sampler'[r].left = left \ {n} /\ sampler'[r].own = sum'
      /\ sampler'[r].result = bytes
      /\ sampler'[r].disturbed = sampler[r].disturbed
  BY <1>1, <1>2 DEF Run
<1>4. sampler[r].disturbed => calm' = 0
  BY <1>1 DEF SpeedInv, AloneInv
<1>5. /\ AloneInv'
      /\ \A q \in Sampler : Alone(q)' => q = r /\ Alone(r)
      /\ Alone(r) \/ calm' = 0
      /\ Alone(r) => \A s \in Sampler \ {r} : sampler[s].pc = "off" /\ sampler'[s].pc = "off"
  BY <1>1, <1>2, <1>3, <1>4, StepOfRun DEF SpeedInv
<1>6. Alone(r) => sum' = TotalOver(Nic \ (left \ {n}), bytes)
  <2>. SUFFICES ASSUME Alone(r) PROVE sum' = TotalOver(Nic \ (left \ {n}), bytes)
    OBVIOUS
  <2>1. seen = TotalOver(Nic \ left, bytes)
    BY <1>1 DEF SpeedInv, SumInv, Seen, In
  <2>2. bytes \in [Nic -> Byte] /\ left \in SUBSET Nic
    BY <1>1, RunFields
  <2>3. Nic \ (left \ {n}) = (Nic \ left) \cup {n} /\ n \in Nic \ (Nic \ left)
    BY <1>1, <2>2
  <2>4. TotalOver(Nic \ (left \ {n}), bytes) = seen + bytes[n]
    BY <2>1, <2>2, <2>3, TotalAdds
  <2>5. TotalOver(Nic \ (left \ {n}), bytes) \in Sum
    BY BytesFinite
  <2>. QED
    BY <2>4, <2>5, WordIsPositive, Unsigned DEF Sum
<1>7. SumInv'
  <2>1. left = {n} => Nic \ (left \ {n}) = Nic
    OBVIOUS
  <2>2. Alone(r) /\ left = {n} => sum' = Total(bytes)
    BY <1>6, <2>1 DEF Total
  <2>3. Alone(r) => \A m \in Nic : bytes[m] <= counter[m]
    BY <1>1 DEF SpeedInv, SumInv, In
  <2>. QED
    BY <1>1, <1>3, <1>5, <1>6, <2>2, <2>3 DEF SumInv, Alone, Under, In
<1>8. CalmInv'
  <2>1. calm' > 0 => \A s \in Sampler : ~In(s, "keep")
    BY <1>1, <1>5 DEF In
  <2>2. calm' > 0 => newer <= Total(bytes)
    BY <1>1, <1>5 DEF SpeedInv, CalmInv
  <2>3. sampler'[r].pc # "keep"
    BY <1>3
  <2>. QED
    BY <1>1, <1>3, <1>5, <2>1, <2>2, <2>3 DEF SpeedInv, CalmInv, Under, In
<1>. QED
  BY <1>5, <1>7, <1>8 DEF SpeedInv

LEMMA KeepStep ==
    ASSUME SpeedTypeOK, SpeedInv, NEW r \in Sampler, KeepSum(r)
    PROVE  SpeedInv'
<1>1. /\ Under(r) /\ sampler[r].pc = "keep" /\ sampler[r] \in Run /\ Off.pc = "off"
      /\ counter' = counter /\ sum' = sum /\ calm' = calm /\ newer' = newer
      /\ last' \in Seen(r)
  BY DEF SpeedTypeOK, KeepSum, Under, In, Off, kernel, judged
<1>2. /\ \A s \in Sampler \ {r} : sampler'[s] = sampler[s]
      /\ sampler'[r].pc = "off"
  BY <1>1, Becoming DEF KeepSum
<1>3. sampler[r].disturbed => calm' = 0
  BY <1>1 DEF SpeedInv, AloneInv
<1>4. /\ AloneInv'
      /\ \A q \in Sampler : Alone(q)' => q = r /\ Alone(r)
      /\ Alone(r) \/ calm' = 0
      /\ Alone(r) => \A s \in Sampler \ {r} : sampler[s].pc = "off" /\ sampler'[s].pc = "off"
  BY <1>1, <1>2, <1>3, StepOfRun DEF SpeedInv
<1>5. SumInv'
  BY <1>2, <1>4 DEF SumInv, Alone, Under, In
<1>6. calm' > 0 => last' = newer
  <2>. SUFFICES ASSUME calm' > 0 PROVE last' = newer
    OBVIOUS
  <2>1. Alone(r) /\ calm > 0
    BY <1>1, <1>4 DEF SpeedTypeOK
  <2>2. sampler[r].own = Total(sampler[r].result) /\ sum = sampler[r].own
    BY <1>1, <2>1 DEF SpeedInv, SumInv
  <2>3. newer = Total(sampler[r].result)
    BY <1>1, <2>1 DEF SpeedInv, CalmInv, In
  <2>. QED
    BY <1>1, <2>2, <2>3 DEF Seen
<1>7. CalmInv'
  BY <1>1, <1>2, <1>4, <1>6 DEF SpeedInv, CalmInv, Under, In
<1>. QED
  BY <1>4, <1>5, <1>7 DEF SpeedInv

LEMMA FallStep ==
    ASSUME SpeedTypeOK, NEW n \in Nic, CounterFalls(n)
    PROVE  SpeedInv'
<1>1. ASSUME NEW s \in Sampler, Under(s)' PROVE sampler'[s].disturbed
  <2>1. sampler'[s] = IF sampler[s].pc = "off" THEN Off ELSE [sampler[s] EXCEPT !.disturbed = TRUE]
    BY DEF CounterFalls
  <2>2. sampler[s].pc # "off" /\ sampler[s] \in Run
    BY <1>1, <2>1 DEF SpeedTypeOK, Under, In, Off
  <2>. QED
    BY <2>1, <2>2 DEF Run
<1>2. calm' = 0
  BY DEF CounterFalls
<1>. QED
  BY <1>1, <1>2, NoneAlone

\* A run that is alone shows half of what was added to the sum judged last.
LEMMA ShowStep ==
    ASSUME SpeedTypeOK, SpeedInv, NEW r \in Sampler, ShowSpeed(r)
    PROVE  SpeedInv' /\ SpeedRecovers'
<1>. DEFINE total == Total(sampler[r].result)
<1>1. /\ Under(r) /\ sampler[r].pc = "show" /\ sampler[r] \in Run
      /\ counter' = counter /\ sum' = sum /\ last' = last
      /\ counter \in [Nic -> Byte] /\ newer \in Sum /\ calm \in 0 .. 2
  BY DEF SpeedTypeOK, ShowSpeed, Under, In, kernel
<1>2. /\ \A s \in Sampler \ {r} : sampler'[s] = sampler[s]
      /\ sampler'[r] = [sampler[r] EXCEPT !.pc = "keep"]
  BY Becoming DEF ShowSpeed
<1>3. /\ sampler'[r].pc = "keep" /\ sampler'[r].own = sampler[r].own
      /\ sampler'[r].result = sampler[r].result
      /\ sampler'[r].disturbed = sampler[r].disturbed
  BY <1>1, <1>2 DEF Run
<1>4. sampler[r].disturbed => calm' = 0
  BY DEF ShowSpeed
<1>5. /\ AloneInv'
      /\ \A q \in Sampler : Alone(q)' => q = r /\ Alone(r)
      /\ Alone(r) \/ calm' = 0
      /\ Alone(r) => \A s \in Sampler \ {r} : sampler[s].pc = "off" /\ sampler'[s].pc = "off"
  BY <1>1, <1>2, <1>3, <1>4, StepOfRun DEF SpeedInv
<1>6. Alone(r) => /\ sampler[r].own = total /\ sum = total
                  /\ \A m \in Nic : sampler[r].result[m] <= counter[m]
  BY <1>1 DEF SpeedInv, SumInv, In
<1>7. SumInv'
  BY <1>1, <1>3, <1>5, <1>6 DEF SumInv, Alone, Under, In
<1>8. Alone(r) => /\ newer' = total /\ older' = newer
                  /\ calm' = IF calm = 0 THEN 1 ELSE 2
  BY DEF Alone, ShowSpeed
<1>9. total \in Sum /\ Total(counter) \in Sum /\ sampler[r].result \in [Nic -> Byte]
  BY <1>1, TotalIsSum, RunFields
<1>10. Alone(r) => total <= Total(counter)
  BY <1>1, <1>6, <1>9, TotalGrows
<1>11. CalmInv'
  BY <1>1, <1>3, <1>5, <1>8, <1>10 DEF CalmInv, Under, In
<1>12. ASSUME calm' = 2 PROVE older' <= newer' /\ speed' = (newer' - older') \div 2
  <2>1. Alone(r) /\ calm > 0
    BY <1>1, <1>5, <1>8, <1>12
  <2>2. \A s \in Sampler : ~In(s, "keep")
    BY <1>1, <1>5, <2>1 DEF In
  <2>3. last = newer /\ newer <= total
    BY <1>1, <2>1, <2>2 DEF SpeedInv, CalmInv
  <2>4. speed' = ((Word + total - newer) % Word) \div 2
    BY <1>6, <2>1, <2>3 DEF ShowSpeed, Seen
  <2>. HIDE DEF total
  <2>5. (Word + total - newer) % Word = total - newer
    BY <1>1, <1>9, <2>3, Unsigned
  <2>. QED
    BY <1>8, <2>1, <2>3, <2>4, <2>5
<1>. QED
  BY <1>5, <1>7, <1>11, <1>12 DEF SpeedInv, SpeedRecovers

LEMMA SpeedStep ==
    ASSUME SpeedTypeOK, SpeedInv, SpeedRecovers, [SpeedNext]_speedVars
    PROVE  SpeedInv' /\ SpeedRecovers'
<1>1. CASE \E n \in Nic : CounterFalls(n)
  <2>1. SpeedInv'
    BY <1>1, FallStep
  <2>2. calm' = 0
    BY <1>1 DEF CounterFalls
  <2>. QED
    BY <2>1, <2>2 DEF SpeedRecovers
<1>2. CASE \E n \in Nic, bytes \in 1 .. 2 : Traffic(n, bytes)
  BY <1>2, TrafficStep DEF Traffic, judged, SpeedRecovers
<1>3. ASSUME NEW r \in Sampler, Tick2s(r) PROVE SpeedInv' /\ SpeedRecovers'
  <2>1. SpeedInv'
    BY <1>3, TickStep
  <2>2. calm' \in {0, calm} /\ speed' = speed /\ newer' = newer /\ older' = older
    BY <1>3 DEF Tick2s
  <2>. QED
    BY <2>1, <2>2 DEF SpeedRecovers
<1>4. ASSUME NEW r \in Sampler, IOCounters(r) PROVE SpeedInv' /\ SpeedRecovers'
  BY <1>4, ReadStep DEF IOCounters, judged, SpeedRecovers
<1>5. ASSUME NEW r \in Sampler, ResetSum(r) PROVE SpeedInv' /\ SpeedRecovers'
  BY <1>5, ResetStep DEF ResetSum, judged, SpeedRecovers
<1>6. ASSUME NEW r \in Sampler, NEW n \in Nic, AddNic(r, n) PROVE SpeedInv' /\ SpeedRecovers'
  BY <1>6, AddStep DEF AddNic, judged, SpeedRecovers
<1>7. ASSUME NEW r \in Sampler, ShowSpeed(r) PROVE SpeedInv' /\ SpeedRecovers'
  BY <1>7, ShowStep
<1>8. ASSUME NEW r \in Sampler, KeepSum(r) PROVE SpeedInv' /\ SpeedRecovers'
  BY <1>8, KeepStep DEF KeepSum, judged, SpeedRecovers
<1>9. CASE UNCHANGED speedVars
  BY <1>9 DEF speedVars, SpeedInv, AloneInv, SumInv, CalmInv, Alone, Under, In, SpeedRecovers
<1>. QED
  BY <1>1, <1>2, <1>3, <1>4, <1>5, <1>6, <1>7, <1>8, <1>9 DEF SpeedNext

LEMMA SpeedInvInit == SpeedInit => SpeedInv /\ SpeedRecovers
<1>. SUFFICES ASSUME SpeedInit PROVE SpeedInv /\ SpeedRecovers
  OBVIOUS
<1>1. \A s \in Sampler : sampler[s].pc = "off"
  BY DEF SpeedInit, Off
<1>2. last = newer /\ newer = Total(counter) /\ calm = 1
  BY DEF SpeedInit
<1>3. Total(counter) <= Total(counter)
  BY TotalIsSum DEF Sum
<1>4. AloneInv /\ SumInv
  BY <1>1 DEF AloneInv, SumInv, Alone, Under, In
<1>5. CalmInv
  BY <1>1, <1>2, <1>3 DEF CalmInv, Under, In
<1>. QED
  BY <1>2, <1>4, <1>5 DEF SpeedInv, SpeedRecovers

\* Whatever runs that overlap and counters that fall have shown, two samples
\* later the speed is right, for any number of runs and interfaces and words of
\* any width that the counters together fit.
THEOREM SpeedIsRight == SpeedSpec => []SpeedRecovers
<1>1. /\ SpeedInit => SpeedTypeOK /\ SpeedInv /\ SpeedRecovers
      /\ SpeedTypeOK /\ SpeedInv /\ SpeedRecovers /\ [SpeedNext]_speedVars
            => (SpeedTypeOK /\ SpeedInv /\ SpeedRecovers)'
  BY SpeedInitTypes, SpeedTypes, SpeedInvInit, SpeedStep
<1>. QED
  BY <1>1, PTL DEF SpeedSpec

-----------------------------------------------------------------------------
(* ExecCommand                                                             *)

\* All that the channel has carried.
Sent == printed \o ch

\* A scanner that holds a line read it from the pipe.
HeldInv ==
    \A s \in Stream : /\ pipe[s] <= written[s] + 1
                      /\ scanner[s] = "send" => pipe[s] <= written[s]

\* The scanners have sent their lines up to the one that is next.
SentInv ==
    /\ NumberedByStream(Sent)
    /\ \A i \in 1 .. Len(Sent) : Sent[i][2] < pipe[Sent[i][1]]
    /\ \A s \in Stream : pipe[s] = Cardinality(OfStream(Sent, s, Len(Sent))) + 1

\* Exit, Wait, close and return happen in this order.
EndInv ==
    /\ errSet => exited
    /\ chClosed => errSet
    /\ returned => chClosed /\ ch = <<>>

\* What ExecCommand has not printed when it returns, it never took: the lines
\* that the channel carried are all printed.
TakenIsPrinted ==
    returned => \A s \in Stream : pipe[s] = Cardinality(OfStream(printed, s, Len(printed))) + 1

-----------------------------------------------------------------------------
(* Items that went through a channel                                       *)

LEMMA ItemParts == ASSUME NEW x \in Item PROVE x[1] \in Stream /\ x[2] \in 1 .. MaxLine
BY DEF Item

LEMMA OfStreamFinite ==
    ASSUME NEW items, NEW s, NEW i \in Nat
    PROVE  IsFiniteSet(OfStream(items, s, i)) /\ Cardinality(OfStream(items, s, i)) \in Nat
<1>1. IsFiniteSet(1 .. i)
  BY FS_Interval
<1>2. OfStream(items, s, i) \in SUBSET (1 .. i)
  BY DEF OfStream
<1>3. IsFiniteSet(OfStream(items, s, i))
  BY <1>1, <1>2, FS_Subset
<1>. QED
  BY <1>3, FS_CardinalityType

\* Counts look at the items before, not at what is appended.
LEMMA OfStreamPrefix ==
    ASSUME NEW a, NEW b, NEW s, NEW i \in Nat, \A j \in 1 .. i : a[j] = b[j]
    PROVE  OfStream(a, s, i) = OfStream(b, s, i)
BY DEF OfStream

LEMMA OfStreamAppend ==
    ASSUME NEW items \in Seq(Item), NEW x \in Item, NEW s \in Stream
    PROVE  Cardinality(OfStream(Append(items, x), s, Len(items) + 1))
              = Cardinality(OfStream(items, s, Len(items))) + (IF x[1] = s THEN 1 ELSE 0)
<1>. DEFINE longer == Append(items, x)
            before == OfStream(items, s, Len(items))
<1>1. /\ Len(items) \in Nat
      /\ \A j \in 1 .. Len(items) : longer[j] = items[j]
      /\ longer[Len(items) + 1] = x
  BY AppendProperties, LenProperties
<1>2. IsFiniteSet(before) /\ Cardinality(before) \in Nat /\ Len(items) + 1 \notin before
  <2>1. Len(items) + 1 \notin before
    BY <1>1 DEF OfStream
  <2>. QED
    BY <1>1, <2>1, OfStreamFinite
<1>3. CASE x[1] = s
  <2>1. OfStream(longer, s, Len(items) + 1) = before \cup {Len(items) + 1}
    BY <1>1, <1>3 DEF OfStream
  <2>. QED
    BY <1>2, <1>3, <2>1, FS_AddElement
<1>4. CASE x[1] # s
  <2>1. OfStream(longer, s, Len(items) + 1) = before
    BY <1>1, <1>4 DEF OfStream
  <2>. QED
    BY <1>2, <1>4, <2>1
<1>. QED
  BY <1>3, <1>4

LEMMA NumberedAppend ==
    ASSUME NEW items \in Seq(Item), NEW x \in Item, NumberedByStream(items),
           x[2] = Cardinality(OfStream(items, x[1], Len(items))) + 1
    PROVE  NumberedByStream(Append(items, x))
<1>. DEFINE longer == Append(items, x)
<1>1. /\ Len(items) \in Nat /\ Len(longer) = Len(items) + 1
      /\ \A j \in 1 .. Len(items) : longer[j] = items[j]
      /\ longer[Len(items) + 1] = x
  BY AppendProperties, LenProperties
<1>2. ASSUME NEW i \in 1 .. Len(longer)
      PROVE  longer[i][2] = Cardinality(OfStream(longer, longer[i][1], i))
  <2>1. CASE i \in 1 .. Len(items)
    <3>1. longer[i] = items[i] /\ i \in Nat /\ \A j \in 1 .. i : longer[j] = items[j]
      BY <1>1, <2>1
    <3>2. OfStream(longer, items[i][1], i) = OfStream(items, items[i][1], i)
      <4>. HIDE DEF longer
      <4>. QED
        BY <3>1, OfStreamPrefix
    <3>. QED
      BY <2>1, <3>1, <3>2 DEF NumberedByStream
  <2>2. CASE i = Len(items) + 1
    <3>1. longer[i] = x /\ x[1] \in Stream
      BY <1>1, <2>2, ItemParts
    <3>2. Cardinality(OfStream(longer, x[1], i)) = Cardinality(OfStream(items, x[1], Len(items))) + 1
      BY <2>2, <3>1, OfStreamAppend
    <3>. QED
      BY <3>1, <3>2
  <2>. QED
    BY <1>1, <2>1, <2>2
<1>. QED
  BY <1>2 DEF NumberedByStream

\* The channel is first in, first out.
LEMMA AppendedToSent ==
    ASSUME NEW p \in Seq(Item), NEW c \in Seq(Item), NEW x \in Item
    PROVE  p \o Append(c, x) = Append(p \o c, x)
<1>1. /\ <<x>> \in Seq(Item) /\ p \o c \in Seq(Item)
  BY ConcatProperties
<1>2. Append(c, x) = c \o <<x>> /\ Append(p \o c, x) = (p \o c) \o <<x>>
  BY <1>1, AppendIsConcat
<1>. QED
  BY <1>1, <1>2, ConcatAssociative

LEMMA HeadMoved ==
    ASSUME NEW p \in Seq(Item), NEW c \in Seq(Item), c # <<>>
    PROVE  /\ Append(p, Head(c)) \in Seq(Item) /\ Tail(c) \in Seq(Item)
           /\ Append(p, Head(c)) \o Tail(c) = p \o c
<1>0. Len(p) \in Nat /\ Len(c) \in Nat
  BY LenProperties
<1>1. /\ Head(c) \in Item /\ Tail(c) \in Seq(Item) /\ Len(Tail(c)) = Len(c) - 1
      /\ \A i \in 1 .. Len(Tail(c)) : Tail(c)[i] = c[i + 1]
      /\ Len(c) \in Nat \ {0} /\ Len(p) \in Nat /\ Head(c) = c[1]
  BY HeadTailProperties, EmptySeq, LenProperties
<1>. DEFINE q == Append(p, Head(c))
<1>2. /\ q \in Seq(Item) /\ Len(q) = Len(p) + 1
      /\ \A i \in 1 .. Len(p) : q[i] = p[i]
      /\ q[Len(p) + 1] = c[1]
  BY <1>1, AppendProperties
<1>3. /\ q \o Tail(c) \in Seq(Item) /\ Len(q \o Tail(c)) = Len(p) + Len(c)
      /\ \A i \in 1 .. Len(p) + Len(c) :
            (q \o Tail(c))[i] = IF i <= Len(p) + 1 THEN q[i] ELSE Tail(c)[i - (Len(p) + 1)]
  <2>. HIDE DEF q
  <2>1. /\ q \o Tail(c) \in Seq(Item) /\ Len(q \o Tail(c)) = Len(q) + Len(Tail(c))
        /\ \A i \in 1 .. Len(q) + Len(Tail(c)) :
            (q \o Tail(c))[i] = IF i <= Len(q) THEN q[i] ELSE Tail(c)[i - Len(q)]
    BY <1>1, <1>2, ConcatProperties
  <2>. QED
    BY <1>1, <1>2, <2>1
<1>4. /\ p \o c \in Seq(Item) /\ Len(p \o c) = Len(p) + Len(c)
      /\ \A i \in 1 .. Len(p) + Len(c) : (p \o c)[i] = IF i <= Len(p) THEN p[i] ELSE c[i - Len(p)]
  BY ConcatProperties
<1>5. ASSUME NEW i \in 1 .. Len(p) + Len(c) PROVE (q \o Tail(c))[i] = (p \o c)[i]
  <2>. HIDE DEF q
  <2>. i <= Len(p) \/ i = Len(p) + 1 \/ i > Len(p) + 1
    BY <1>0
  <2>1. CASE i <= Len(p)
    BY <1>1, <1>2, <1>3, <1>4, <2>1
  <2>2. CASE i = Len(p) + 1
    BY <1>1, <1>2, <1>3, <1>4, <2>2
  <2>3. CASE i > Len(p) + 1
    <3>1. i - (Len(p) + 1) \in 1 .. Len(Tail(c))
      BY <1>1, <2>3
    <3>2. Tail(c)[i - (Len(p) + 1)] = c[i - Len(p)]
      BY <1>1, <3>1
    <3>. QED
      BY <1>1, <1>3, <1>4, <2>3, <3>2
  <2>. QED
    BY <2>1, <2>2, <2>3
<1>6. q \o Tail(c) = p \o c
  <2>. HIDE DEF q
  <2>. QED
    BY <1>3, <1>4, <1>5, SeqEqual
<1>. QED
  BY <1>1, <1>2, <1>6

-----------------------------------------------------------------------------
(* Types, and who holds what                                               *)

LEMMA CommandTypes ==
    ASSUME CommandTypeOK, HeldInv, [CommandNext]_commandVars
    PROVE  CommandTypeOK' /\ HeldInv'
<1>. USE CommandBounds DEF CommandTypeOK, HeldInv
<1>1. ASSUME NEW s \in Stream, Write(s) PROVE CommandTypeOK' /\ HeldInv'
  BY <1>1 DEF Write
<1>2. CASE Exit
  BY <1>2 DEF Exit
<1>3. ASSUME NEW s \in Stream, Scan(s) PROVE CommandTypeOK' /\ HeldInv'
  BY <1>3 DEF Scan
<1>4. ASSUME NEW s \in Stream, Send(s) PROVE CommandTypeOK' /\ HeldInv'
  <2>1. CASE chClosed
    BY <1>4, <2>1 DEF Send
  <2>2. CASE ~chClosed
    <3>1. pipe[s] \in 1 .. MaxLine /\ pipe[s] <= written[s]
      BY <1>4 DEF Send
    <3>2. <<s, pipe[s]>> \in Item
      BY <3>1 DEF Item
    <3>3. ch' \in Seq(Item) /\ Len(ch') <= Cap
      <4>1. ch' = Append(ch, <<s, pipe[s]>>) /\ Len(ch) < Cap /\ ch \in Seq(Item)
        BY <1>4, <2>2 DEF Send
      <4>2. Append(ch, <<s, pipe[s]>>) \in Seq(Item) /\ Len(Append(ch, <<s, pipe[s]>>)) = Len(ch) + 1
        BY <3>2, <4>1, AppendProperties
      <4>3. Len(ch) \in Nat
        BY <4>1, LenProperties
      <4>. QED
        BY <4>1, <4>2, <4>3
    <3>4. /\ pipe' = [pipe EXCEPT ![s] = pipe[s] + 1] /\ scanner' = [scanner EXCEPT ![s] = "scan"]
          /\ UNCHANGED <<exited, written, pipesOpen, chClosed, errSet, printed, returned, crashed>>
      BY <1>4, <2>2 DEF Send
    <3>5. pipe' \in [Stream -> 1 .. MaxLine + 1] /\ scanner' \in [Stream -> {"scan", "send", "done"}]
      BY <3>1, <3>4
    <3>6. HeldInv'
      BY <3>1, <3>4
    <3>. QED
      BY <3>3, <3>4, <3>5, <3>6
  <2>. QED
    BY <2>1, <2>2
<1>5. CASE WaitReturns
  BY <1>5 DEF WaitReturns
<1>6. CASE CloseCh
  BY <1>6 DEF CloseCh
<1>7. CASE PrintLine
  <2>1. printed' \in Seq(Item) /\ ch' \in Seq(Item) /\ Len(ch') <= Cap
    <3>1. Len(Tail(ch)) = Len(ch) - 1 /\ Len(ch) \in Nat
      BY <1>7, HeadTailProperties, LenProperties DEF PrintLine
    <3>. QED
      BY <1>7, <3>1, HeadMoved DEF PrintLine
  <2>. QED
    BY <1>7, <2>1 DEF PrintLine
<1>8. CASE Return
  BY <1>8 DEF Return
<1>9. CASE UNCHANGED commandVars
  BY <1>9 DEF commandVars
<1>. QED
  BY <1>1, <1>2, <1>3, <1>4, <1>5, <1>6, <1>7, <1>8, <1>9 DEF CommandNext, OwnStep

LEMMA CommandTypesInvariant == CommandSpec => [](CommandTypeOK /\ HeldInv)
<1>1. CommandInit => CommandTypeOK /\ HeldInv
  <2>. SUFFICES ASSUME CommandInit PROVE CommandTypeOK /\ HeldInv
    OBVIOUS
  <2>1. /\ ch \in Seq(Item) /\ Len(ch) <= Cap
        /\ printed \in Seq(Item)
    <3>1. ch = <<>> /\ printed = <<>>
      BY DEF CommandInit
    <3>2. <<>> \in Seq(Item) /\ Len(<<>>) = 0
      BY EmptySeq
    <3>. QED
      BY <3>1, <3>2, CommandBounds
  <2>2. /\ written = [s \in Stream |-> 0] /\ pipe = [s \in Stream |-> 1]
        /\ scanner = [s \in Stream |-> "scan"]
        /\ exited = FALSE /\ pipesOpen = TRUE /\ chClosed = FALSE /\ errSet = FALSE
        /\ returned = FALSE /\ crashed = FALSE
    BY DEF CommandInit
  <2>3. /\ written \in [Stream -> 0 .. MaxLine] /\ pipe \in [Stream -> 1 .. MaxLine + 1]
        /\ scanner \in [Stream -> {"scan", "send", "done"}]
    BY <2>2, CommandBounds
  <2>4. CommandTypeOK
    BY <2>1, <2>2, <2>3 DEF CommandTypeOK
  <2>5. HeldInv
    BY <2>2 DEF HeldInv
  <2>. QED
    BY <2>4, <2>5
<1>2. CommandTypeOK /\ HeldInv /\ [CommandNext]_commandVars => (CommandTypeOK /\ HeldInv)'
  BY CommandTypes
<1>. QED
  BY <1>1, <1>2, PTL DEF CommandSpec

\* The variables of ExecCommand keep their types: the channel holds no more than
\* its capacity, and no scanner reads past the lines that were written.
THEOREM CommandTypeCorrect == CommandSpec => []CommandTypeOK
BY CommandTypesInvariant, PTL

-----------------------------------------------------------------------------
(* The order of the end                                                    *)

LEMMA EndInvariant == CommandSpec => []EndInv
<1>1. CommandInit => EndInv
  BY DEF CommandInit, EndInv
<1>2. EndInv /\ [CommandNext]_commandVars => EndInv'
  <2>. SUFFICES ASSUME EndInv, [CommandNext]_commandVars PROVE EndInv'
    OBVIOUS
  <2>. USE DEF EndInv
  <2>1. ASSUME NEW s \in Stream, Write(s) PROVE EndInv'
    BY <2>1 DEF Write
  <2>2. CASE Exit
    BY <2>2 DEF Exit
  <2>3. ASSUME NEW s \in Stream, Scan(s) PROVE EndInv'
    BY <2>3 DEF Scan
  <2>4. ASSUME NEW s \in Stream, Send(s) PROVE EndInv'
    BY <2>4 DEF Send
  <2>5. CASE WaitReturns
    BY <2>5 DEF WaitReturns
  <2>6. CASE CloseCh
    BY <2>6 DEF CloseCh
  <2>7. CASE PrintLine
    BY <2>7 DEF PrintLine
  <2>8. CASE Return
    BY <2>8 DEF Return
  <2>9. CASE UNCHANGED commandVars
    BY <2>9 DEF commandVars
  <2>. QED
    BY <2>1, <2>2, <2>3, <2>4, <2>5, <2>6, <2>7, <2>8, <2>9 DEF CommandNext, OwnStep
<1>. QED
  BY <1>1, <1>2, PTL DEF CommandSpec

\* The caller returns an err that the goroutine of cmd.Wait has assigned.
THEOREM ErrIsThatOfWait == CommandSpec => []ErrReadAfterWait
<1>1. EndInv => ErrReadAfterWait
  BY DEF EndInv, ErrReadAfterWait
<1>. QED
  BY <1>1, EndInvariant, PTL

-----------------------------------------------------------------------------
(* The order of the lines                                                  *)

LEMMA SentKept ==
    ASSUME SentInv, Sent' = Sent, pipe' = pipe
    PROVE  SentInv'
BY DEF SentInv, NumberedByStream, OfStream

\* Only Send adds to what was sent, and it adds the line that is next.
LEMMA SentStep ==
    ASSUME CommandTypeOK, HeldInv, SentInv, [CommandNext]_commandVars
    PROVE  SentInv'
<1>1. ASSUME NEW s \in Stream, Send(s), ~chClosed PROVE SentInv'
  <2>. DEFINE x == <<s, pipe[s]>>
  <2>1. /\ printed \in Seq(Item) /\ ch \in Seq(Item)
        /\ x \in Item /\ x[1] = s /\ x[2] = pipe[s]
        /\ pipe \in [Stream -> 1 .. MaxLine + 1]
    <3>1. pipe[s] \in 1 .. MaxLine
      BY <1>1, CommandBounds DEF Send, CommandTypeOK, HeldInv
    <3>. QED
      BY <3>1 DEF Item, CommandTypeOK
  <2>2. /\ ch' = Append(ch, x) /\ printed' = printed
        /\ pipe' = [pipe EXCEPT ![s] = pipe[s] + 1]
    BY <1>1 DEF Send
  <2>. HIDE DEF x
  <2>3. Sent \in Seq(Item) /\ Sent' = Append(Sent, x)
    BY <2>1, <2>2, AppendedToSent, ConcatProperties DEF Sent
  <2>4. /\ Len(Sent) \in Nat /\ Len(Sent') = Len(Sent) + 1
        /\ \A i \in 1 .. Len(Sent) : Sent'[i] = Sent[i]
        /\ Sent'[Len(Sent) + 1] = x
    BY <2>1, <2>3, AppendProperties, LenProperties
  <2>5. \A t \in Stream : pipe[t] = Cardinality(OfStream(Sent, t, Len(Sent))) + 1
    BY DEF SentInv
  <2>6. NumberedByStream(Sent')
    BY <2>1, <2>3, <2>5, NumberedAppend DEF SentInv
  <2>7. ASSUME NEW i \in 1 .. Len(Sent') PROVE Sent'[i][2] < pipe'[Sent'[i][1]]
    <3>1. CASE i \in 1 .. Len(Sent)
      <4>1. Sent'[i] = Sent[i] /\ Sent[i] \in Item /\ Sent[i][2] < pipe[Sent[i][1]]
        BY <2>3, <2>4, <3>1, ElementOfSeq DEF SentInv
      <4>2. Sent[i][1] \in Stream /\ Sent[i][2] \in 1 .. MaxLine
        BY <4>1, ItemParts
      <4>3. pipe'[Sent[i][1]] >= pipe[Sent[i][1]]
        BY <2>1, <2>2, <4>2
      <4>4. pipe'[Sent[i][1]] \in Nat /\ pipe[Sent[i][1]] \in Nat
        BY <2>1, <2>2, <4>2
      <4>. QED
        BY <4>1, <4>2, <4>3, <4>4, CommandBounds
    <3>2. CASE i = Len(Sent) + 1
      BY <2>1, <2>2, <2>4, <3>2
    <3>. QED
      BY <2>4, <3>1, <3>2
  <2>8. ASSUME NEW t \in Stream
        PROVE  pipe'[t] = Cardinality(OfStream(Sent', t, Len(Sent'))) + 1
    <3>1. Cardinality(OfStream(Sent', t, Len(Sent')))
             = Cardinality(OfStream(Sent, t, Len(Sent))) + (IF s = t THEN 1 ELSE 0)
      BY <2>1, <2>3, <2>4, OfStreamAppend
    <3>2. Cardinality(OfStream(Sent, t, Len(Sent))) \in Nat
      BY <2>4, OfStreamFinite
    <3>3. pipe'[t] = pipe[t] + (IF s = t THEN 1 ELSE 0)
      BY <2>1, <2>2
    <3>4. pipe[t] = Cardinality(OfStream(Sent, t, Len(Sent))) + 1
      BY <2>5
    <3>. QED
      BY <3>1, <3>2, <3>3, <3>4
  <2>. QED
    BY <2>6, <2>7, <2>8 DEF SentInv
<1>2. CASE PrintLine
  <2>1. /\ printed \in Seq(Item) /\ ch \in Seq(Item) /\ ch # <<>>
        /\ printed' = Append(printed, Head(ch)) /\ ch' = Tail(ch) /\ pipe' = pipe
    BY <1>2 DEF PrintLine, CommandTypeOK
  <2>2. Sent' = Sent
    BY <2>1, HeadMoved DEF Sent
  <2>. QED
    BY <2>1, <2>2, SentKept
<1>3. CASE UNCHANGED <<printed, ch, pipe>>
  <2>1. Sent' = Sent
    BY <1>3 DEF Sent
  <2>. QED
    BY <1>3, <2>1, SentKept
<1>4. CASE \E s \in Stream : Write(s) \/ Scan(s) \/ (chClosed /\ Send(s))
  BY <1>3, <1>4 DEF Write, Scan, Send
<1>5. CASE Exit \/ WaitReturns \/ CloseCh \/ Return \/ UNCHANGED commandVars
  BY <1>3, <1>5 DEF Exit, WaitReturns, CloseCh, Return, commandVars
<1>. QED
  BY <1>1, <1>2, <1>4, <1>5 DEF CommandNext, OwnStep

LEMMA SentInvariant == CommandSpec => []SentInv
<1>1. CommandInit => SentInv
  <2>. SUFFICES ASSUME CommandInit PROVE SentInv
    OBVIOUS
  <2>1. Sent = <<>> /\ Len(Sent) = 0
    BY ConcatEmptySeq, EmptySeq DEF CommandInit, Sent
  <2>2. \A s \in Stream : OfStream(Sent, s, 0) = {} /\ pipe[s] = 1
    BY DEF OfStream, CommandInit
  <2>3. \A s \in Stream : pipe[s] = Cardinality(OfStream(Sent, s, Len(Sent))) + 1
    BY <2>1, <2>2, FS_EmptySet
  <2>. QED
    BY <2>1, <2>3 DEF SentInv, NumberedByStream
<1>2. CommandTypeOK /\ HeldInv /\ SentInv /\ [CommandNext]_commandVars => SentInv'
  BY SentStep
<1>. QED
  BY <1>1, <1>2, CommandTypesInvariant, PTL DEF CommandSpec

LEMMA PrintedOfSent ==
    ASSUME CommandTypeOK
    PROVE  /\ Len(printed) \in Nat /\ Len(Sent) \in Nat /\ Len(printed) <= Len(Sent)
           /\ \A i \in 1 .. Len(printed) : printed[i] = Sent[i] /\ printed[i] \in Item
           /\ \A s : \A i \in 1 .. Len(printed) : OfStream(printed, s, i) = OfStream(Sent, s, i)
<1>1. printed \in Seq(Item) /\ ch \in Seq(Item)
  BY DEF CommandTypeOK
<1>2. Len(printed) \in Nat /\ Len(ch) \in Nat
  BY <1>1, LenProperties
<1>3. /\ Len(Sent) = Len(printed) + Len(ch)
      /\ \A i \in 1 .. Len(printed) + Len(ch) :
            Sent[i] = IF i <= Len(printed) THEN printed[i] ELSE ch[i - Len(printed)]
  BY <1>1, ConcatProperties DEF Sent
<1>4. \A i \in 1 .. Len(printed) : printed[i] = Sent[i] /\ printed[i] \in Item
  BY <1>1, <1>2, <1>3, ElementOfSeq
<1>5. \A s : \A i \in 1 .. Len(printed) : OfStream(printed, s, i) = OfStream(Sent, s, i)
  <2>. TAKE s
  <2>. TAKE i \in 1 .. Len(printed)
  <2>1. i \in Nat /\ \A j \in 1 .. i : printed[j] = Sent[j]
    BY <1>2, <1>4
  <2>. QED
    BY <2>1, OfStreamPrefix
<1>. QED
  BY <1>2, <1>3, <1>4, <1>5

\* Of each pipe the caller prints the lines written, from the first on and in
\* order, for a channel of any capacity.
THEOREM StreamsKeepOrder == CommandSpec => []StreamsInOrder
<1>1. ASSUME CommandTypeOK, HeldInv, SentInv PROVE StreamsInOrder
  <2>1. ASSUME NEW i \in 1 .. Len(printed)
        PROVE  /\ printed[i][2] = Cardinality(OfStream(printed, printed[i][1], i))
               /\ printed[i][2] <= written[printed[i][1]]
    <3>1. /\ i \in 1 .. Len(Sent) /\ printed[i] = Sent[i] /\ printed[i] \in Item
          /\ OfStream(printed, printed[i][1], i) = OfStream(Sent, Sent[i][1], i)
      BY <1>1, PrintedOfSent
    <3>2. Sent[i][2] = Cardinality(OfStream(Sent, Sent[i][1], i)) /\ Sent[i][2] < pipe[Sent[i][1]]
      BY <1>1, <3>1 DEF SentInv, NumberedByStream
    <3>3. printed[i][1] \in Stream /\ printed[i][2] \in 1 .. MaxLine
      BY <3>1, ItemParts
    <3>4. /\ pipe[printed[i][1]] <= written[printed[i][1]] + 1
          /\ pipe[printed[i][1]] \in Nat /\ written[printed[i][1]] \in Nat
      BY <1>1, <3>3 DEF HeldInv, CommandTypeOK
    <3>. QED
      BY <3>1, <3>2, <3>3, <3>4
  <2>. QED
    BY <2>1 DEF StreamsInOrder, NumberedByStream
<1>. QED
  BY <1>1, CommandTypesInvariant, SentInvariant, PTL

\* When ExecCommand returns it has printed every line that its scanners sent.
THEOREM TakenIsKept == CommandSpec => []TakenIsPrinted
<1>1. ASSUME CommandTypeOK, EndInv, SentInv PROVE TakenIsPrinted
  <2>1. returned => Sent = printed
    BY <1>1, ConcatEmptySeq DEF EndInv, CommandTypeOK, Sent
  <2>. QED
    BY <1>1, <2>1 DEF SentInv, TakenIsPrinted
<1>. QED
  BY <1>1, CommandTypesInvariant, EndInvariant, SentInvariant, PTL

-----------------------------------------------------------------------------
(* The end: ExitEndsCall without its fairness.  A step counts down once the  *)
(* command has exited; until the return one of WaitReturns, CloseCh,         *)
(* PrintLine and Return has its guard.                                       *)

ScanLeft(pc) == CASE pc = "scan" -> 2 [] pc = "send" -> 1 [] OTHER -> 0

\* A line still in a pipe is scanned, sent and printed.
StreamLeft(s) == 3 * (written[s] + 1 - pipe[s]) + ScanLeft(scanner[s])

StreamsLeft == StreamLeft("stdout") + StreamLeft("stderr")

Undone(b) == IF b THEN 0 ELSE 1

EndLeft == Undone(errSet) + Undone(chClosed) + Undone(returned) + Undone(crashed)

ExitLeft == StreamsLeft + Len(ch) + EndLeft

ExitSettles == [][exited => ExitLeft' < ExitLeft]_commandVars

LEMMA StreamLefts ==
    ASSUME CommandTypeOK, HeldInv
    PROVE  \A s \in Stream : /\ StreamLeft(s) \in 0 .. 3 * MaxLine + 2
                             /\ ScanLeft(scanner[s]) \in 0 .. 2
<1>. TAKE s \in Stream
<1>1. /\ written[s] \in 0 .. MaxLine /\ pipe[s] \in 1 .. MaxLine + 1
      /\ pipe[s] <= written[s] + 1 /\ MaxLine \in Nat
  BY CommandBounds DEF CommandTypeOK, HeldInv
<1>2. ScanLeft(scanner[s]) \in 0 .. 2
  BY DEF ScanLeft
<1>. QED
  BY <1>1, <1>2 DEF StreamLeft

LEMMA EndLefts == ASSUME CommandTypeOK PROVE EndLeft \in 0 .. 4
<1>1. /\ Undone(errSet) \in 0 .. 1 /\ Undone(chClosed) \in 0 .. 1
      /\ Undone(returned) \in 0 .. 1 /\ Undone(crashed) \in 0 .. 1
  BY DEF Undone
<1>. QED
  BY <1>1 DEF EndLeft

LEMMA ExitLefts ==
    ASSUME CommandTypeOK, HeldInv
    PROVE  StreamsLeft \in 0 .. 6 * MaxLine + 4 /\ Len(ch) \in 0 .. Cap
<1>1. /\ StreamLeft("stdout") \in 0 .. 3 * MaxLine + 2
      /\ StreamLeft("stderr") \in 0 .. 3 * MaxLine + 2
  BY StreamLefts DEF Stream
<1>2. StreamsLeft \in 0 .. 6 * MaxLine + 4
  BY <1>1, CommandBounds DEF StreamsLeft
<1>3. Len(ch) \in 0 .. Cap
  BY LenProperties, CommandBounds DEF CommandTypeOK
<1>. QED
  BY <1>2, <1>3

\* At most this many steps are left once the command has exited.
THEOREM ExitLeftIsBounded == CommandSpec => [](ExitLeft \in 0 .. 6 * MaxLine + Cap + 8)
<1>1. ASSUME CommandTypeOK, HeldInv PROVE ExitLeft \in 0 .. 6 * MaxLine + Cap + 8
  <2>1. /\ StreamsLeft \in 0 .. 6 * MaxLine + 4 /\ Len(ch) \in 0 .. Cap
        /\ EndLeft \in 0 .. 4
    BY <1>1, ExitLefts, EndLefts
  <2>2. MaxLine \in Nat /\ Cap \in Nat
    BY CommandBounds
  <2>. QED
    BY <2>1, <2>2 DEF ExitLeft
<1>. QED
  BY <1>1, CommandTypesInvariant, PTL

\* A step of one scanner leaves the other stream as it is.
LEMMA OneStreamLess ==
    ASSUME CommandTypeOK, HeldInv, NEW s \in Stream, written' = written,
           NEW d \in 1 .. 2,
           \A t \in Stream \ {s} : pipe'[t] = pipe[t] /\ scanner'[t] = scanner[t],
           StreamLeft(s)' = StreamLeft(s) - d
    PROVE  StreamsLeft' = StreamsLeft - d
<1>1. /\ StreamLeft("stdout") \in Int /\ StreamLeft("stderr") \in Int
  BY StreamLefts, CommandBounds DEF Stream
<1>2. \A t \in Stream \ {s} : StreamLeft(t)' = StreamLeft(t)
  BY DEF StreamLeft
<1>3. CASE s = "stdout"
  <2>1. StreamLeft("stderr")' = StreamLeft("stderr")
    BY <1>2, <1>3 DEF Stream
  <2>2. StreamLeft("stdout")' = StreamLeft("stdout") - d
    BY <1>3
  <2>. QED
    BY <1>1, <2>1, <2>2 DEF StreamsLeft
<1>4. CASE s = "stderr"
  <2>1. StreamLeft("stdout")' = StreamLeft("stdout")
    BY <1>2, <1>4 DEF Stream
  <2>2. StreamLeft("stderr")' = StreamLeft("stderr") - d
    BY <1>4
  <2>. QED
    BY <1>1, <2>1, <2>2 DEF StreamsLeft
<1>. QED
  BY <1>3, <1>4 DEF Stream

LEMMA EndKept ==
    ASSUME errSet' = errSet, chClosed' = chClosed, returned' = returned, crashed' = crashed
    PROVE  EndLeft' = EndLeft
BY DEF EndLeft, Undone

\* One of the four is done.
LEMMA EndLess ==
    ASSUME CommandTypeOK,
           \/ /\ errSet = FALSE /\ errSet' = TRUE
              /\ chClosed' = chClosed /\ returned' = returned /\ crashed' = crashed
           \/ /\ chClosed = FALSE /\ chClosed' = TRUE
              /\ errSet' = errSet /\ returned' = returned /\ crashed' = crashed
           \/ /\ returned = FALSE /\ returned' = TRUE
              /\ errSet' = errSet /\ chClosed' = chClosed /\ crashed' = crashed
           \/ /\ crashed = FALSE /\ crashed' = TRUE
              /\ errSet' = errSet /\ chClosed' = chClosed /\ returned' = returned
    PROVE  EndLeft' = EndLeft - 1
<1>1. /\ Undone(errSet) \in 0 .. 1 /\ Undone(chClosed) \in 0 .. 1
      /\ Undone(returned) \in 0 .. 1 /\ Undone(crashed) \in 0 .. 1
  BY DEF Undone
<1>2. \/ /\ Undone(errSet)' = Undone(errSet) - 1 /\ Undone(chClosed)' = Undone(chClosed)
         /\ Undone(returned)' = Undone(returned) /\ Undone(crashed)' = Undone(crashed)
      \/ /\ Undone(errSet)' = Undone(errSet) /\ Undone(chClosed)' = Undone(chClosed) - 1
         /\ Undone(returned)' = Undone(returned) /\ Undone(crashed)' = Undone(crashed)
      \/ /\ Undone(errSet)' = Undone(errSet) /\ Undone(chClosed)' = Undone(chClosed)
         /\ Undone(returned)' = Undone(returned) - 1 /\ Undone(crashed)' = Undone(crashed)
      \/ /\ Undone(errSet)' = Undone(errSet) /\ Undone(chClosed)' = Undone(chClosed)
         /\ Undone(returned)' = Undone(returned) /\ Undone(crashed)' = Undone(crashed) - 1
  BY DEF Undone
<1>. QED
  BY <1>1, <1>2 DEF EndLeft

LEMMA StreamsKept ==
    ASSUME written' = written, pipe' = pipe, scanner' = scanner
    PROVE  StreamsLeft' = StreamsLeft
BY DEF StreamsLeft, StreamLeft

LEMMA ExitCountsDown ==
    ASSUME CommandTypeOK, HeldInv, exited, CommandNext
    PROVE  ExitLeft' < ExitLeft
<1>0. /\ StreamsLeft \in Nat /\ Len(ch) \in Nat /\ EndLeft \in Nat
      /\ ExitLeft = StreamsLeft + Len(ch) + EndLeft
      /\ ExitLeft' = StreamsLeft' + Len(ch') + EndLeft'
  <2>1. StreamsLeft \in Nat /\ Len(ch) \in Nat
    BY ExitLefts, CommandBounds
  <2>. QED
    BY <2>1, EndLefts DEF ExitLeft
<1>1. ASSUME NEW s \in Stream, Scan(s) PROVE ExitLeft' < ExitLeft
  <2>1. /\ written' = written /\ pipe' = pipe /\ ch' = ch /\ scanner[s] = "scan"
        /\ scanner'[s] \in {"send", "done"}
        /\ \A t \in Stream \ {s} : scanner'[t] = scanner[t]
    BY <1>1 DEF Scan, CommandTypeOK
  <2>2. EndLeft' = EndLeft
    BY <1>1, EndKept DEF Scan
  <2>3. PICK d \in 1 .. 2 : ScanLeft(scanner'[s]) = 2 - d
    BY <2>1 DEF ScanLeft
  <2>4. ScanLeft(scanner[s]) = 2
    BY <2>1 DEF ScanLeft
  <2>5. written[s] \in Int /\ pipe[s] \in Int
    BY CommandBounds DEF CommandTypeOK
  <2>6. StreamLeft(s)' = StreamLeft(s) - d
    BY <2>1, <2>3, <2>4, <2>5 DEF StreamLeft
  <2>7. StreamsLeft' = StreamsLeft - d
    BY <2>1, <2>6, OneStreamLess
  <2>. QED
    BY <1>0, <2>1, <2>2, <2>7
<1>2. ASSUME NEW s \in Stream, Send(s), chClosed PROVE ExitLeft' < ExitLeft
  <2>1. StreamsLeft' = StreamsLeft /\ ch' = ch
    BY <1>2, StreamsKept DEF Send
  <2>2. EndLeft' = EndLeft - 1
    <3>1. /\ crashed = FALSE /\ crashed' = TRUE
          /\ errSet' = errSet /\ chClosed' = chClosed /\ returned' = returned
      BY <1>2 DEF Send, CommandNext, CommandTypeOK
    <3>. QED
      BY <3>1, EndLess
  <2>. QED
    BY <1>0, <2>1, <2>2
<1>3. ASSUME NEW s \in Stream, Send(s), ~chClosed PROVE ExitLeft' < ExitLeft
  <2>1. /\ written' = written /\ ch' = Append(ch, <<s, pipe[s]>>)
        /\ pipe' = [pipe EXCEPT ![s] = pipe[s] + 1]
        /\ scanner' = [scanner EXCEPT ![s] = "scan"] /\ scanner[s] = "send"
    BY <1>3 DEF Send
  <2>2. EndLeft' = EndLeft
    BY <1>3, EndKept DEF Send
  <2>3. /\ pipe'[s] = pipe[s] + 1 /\ scanner'[s] = "scan"
        /\ \A t \in Stream \ {s} : pipe'[t] = pipe[t] /\ scanner'[t] = scanner[t]
    BY <2>1 DEF CommandTypeOK
  <2>4. ScanLeft(scanner[s]) = 1 /\ ScanLeft(scanner'[s]) = 2
    BY <2>1, <2>3 DEF ScanLeft
  <2>5. written[s] \in Int /\ pipe[s] \in Int
    BY CommandBounds DEF CommandTypeOK
  <2>6. StreamLeft(s)' = StreamLeft(s) - 2
    BY <2>1, <2>3, <2>4, <2>5 DEF StreamLeft
  <2>7. StreamsLeft' = StreamsLeft - 2
    BY <2>1, <2>3, <2>6, OneStreamLess
  <2>8. Len(ch') = Len(ch) + 1
    <3>1. pipe[s] \in 1 .. MaxLine
      BY <2>1, CommandBounds DEF CommandTypeOK, HeldInv
    <3>2. <<s, pipe[s]>> \in Item /\ ch \in Seq(Item)
      BY <3>1 DEF Item, CommandTypeOK
    <3>. QED
      BY <2>1, <3>2, AppendProperties
  <2>. QED
    BY <1>0, <2>2, <2>7, <2>8
<1>4. CASE WaitReturns \/ CloseCh \/ Return
  <2>1. StreamsLeft' = StreamsLeft /\ ch' = ch
    BY <1>4, StreamsKept DEF WaitReturns, CloseCh, Return
  <2>2. EndLeft' = EndLeft - 1
    <3>1. CASE WaitReturns
      <4>1. /\ errSet = FALSE /\ errSet' = TRUE
            /\ chClosed' = chClosed /\ returned' = returned /\ crashed' = crashed
        BY <3>1 DEF WaitReturns, CommandTypeOK
      <4>. QED
        BY <4>1, EndLess
    <3>2. CASE CloseCh
      <4>1. /\ chClosed = FALSE /\ chClosed' = TRUE
            /\ errSet' = errSet /\ returned' = returned /\ crashed' = crashed
        BY <3>2 DEF CloseCh, CommandTypeOK
      <4>. QED
        BY <4>1, EndLess
    <3>3. CASE Return
      <4>1. /\ returned = FALSE /\ returned' = TRUE
            /\ errSet' = errSet /\ chClosed' = chClosed /\ crashed' = crashed
        BY <3>3 DEF Return, CommandTypeOK
      <4>. QED
        BY <4>1, EndLess
    <3>. QED
      BY <1>4, <3>1, <3>2, <3>3
  <2>. QED
    BY <1>0, <2>1, <2>2
<1>5. CASE PrintLine
  <2>1. StreamsLeft' = StreamsLeft /\ EndLeft' = EndLeft
    BY <1>5, StreamsKept, EndKept DEF PrintLine
  <2>2. Len(ch') = Len(ch) - 1
    BY <1>5, HeadTailProperties DEF PrintLine, CommandTypeOK
  <2>. QED
    BY <1>0, <2>1, <2>2
<1>6. ~Exit /\ \A s \in Stream : ~Write(s)
  BY DEF Exit, Write
<1>. QED
  BY <1>1, <1>2, <1>3, <1>4, <1>5, <1>6 DEF CommandNext, OwnStep

\* Once the command has exited every step brings the return nearer: the two
\* scanners, the goroutine of cmd.Wait and the caller do not keep each other
\* going.
THEOREM ExitCounts == CommandSpec => ExitSettles
<1>1. /\ CommandTypeOK /\ HeldInv
      /\ [CommandNext]_commandVars
      => [exited => ExitLeft' < ExitLeft]_commandVars
  BY ExitCountsDown
<1>. QED
  BY <1>1, CommandTypesInvariant, PTL DEF CommandSpec, ExitSettles

=============================================================================
