------------------------ MODULE McObjectAsync_proofs ------------------------
(***************************************************************************)
(* Where the lock of the shared allocator is a mutex, the allocator hands  *)
(* out nothing twice and loses nothing: for any set of threads, any pool   *)
(* and any chunk size.                                                     *)
(*                                                                         *)
(* The argument: most of the allocator works without the lock, on what the *)
(* node of a thread owns.  AllocInv says where each chunk is (ChunkInv),   *)
(* which node an object lies in (ObjectInv), whose each node is (NodeInv), *)
(* and what a thread has read and not written back yet (CallInv).  The     *)
(* last holds through the steps of the other threads because none of them  *)
(* is inside the lock then (Alone).                                        *)
(***************************************************************************)
EXTENDS McObjectAsync, FiniteSetTheorems, FunctionTheorems, SequenceTheorems, TLAPS

\* The lock word tells whether a thread is inside; one step of the lock keeps it
\* so, and lets nobody in while it says taken.
LEMMA LockStep ==
    ASSUME ~Spinlock, LockWordInv, MutualExclusion, [SyncNext]_syncVars
    PROVE  LockWordInv' /\ MutualExclusion'
<1>1. CASE UNCHANGED syncVars
    BY <1>1 DEF syncVars, LockWordInv, MutualExclusion
<1>2. ASSUME NEW t \in Threads, LockCall(t)
      PROVE  LockWordInv' /\ MutualExclusion'
    BY <1>2 DEF LockCall, LockWordInv, MutualExclusion
<1>3. ASSUME NEW t \in Threads, LockTry(t)
      PROVE  LockWordInv' /\ MutualExclusion'
  <2>1. spinlock = 0 /\ spinlock' = 1 /\ sync' = [sync EXCEPT ![t] = "in"] /\ compare' = compare
    BY <1>3 DEF LockTry
  <2>2. \A u \in Threads : sync[u] # "in"
    BY <2>1 DEF LockWordInv
  <2>3. LockWordInv'
    BY <2>1 DEF LockWordInv
  <2>4. MutualExclusion'
    BY <2>1, <2>2 DEF LockWordInv, MutualExclusion
  <2>5. QED
    BY <2>3, <2>4
<1>4. ASSUME NEW t \in Threads, Unlock(t)
      PROVE  LockWordInv' /\ MutualExclusion'
  <2>1. \A u \in Threads : sync[u] = "in" => u = t
    BY <1>4 DEF Unlock, MutualExclusion
  <2>2. QED
    BY <1>4, <2>1 DEF Unlock, LockWordInv, MutualExclusion
<1>5. QED
    BY <1>1, <1>2, <1>3, <1>4 DEF SyncNext

\* Every step of the allocator is a step of the lock or leaves it alone.
LEMMA LockUse == [Next]_vars => [SyncNext]_syncVars
<1> SUFFICES ASSUME [Next]_vars PROVE [SyncNext]_syncVars
    OBVIOUS
<1>1. CASE UNCHANGED vars
    BY <1>1 DEF vars
<1>2. CASE Clean
    BY <1>2 DEF Clean
<1>3. ASSUME NEW t \in Threads, Locked(t) PROVE [SyncNext]_syncVars
  <2>1. CASE Attempt(t)
    BY <2>1 DEF Attempt, SyncNext
  <2>2. CASE TakeNode(t)
    BY <2>2 DEF TakeNode
  <2>3. CASE LoadChunk(t)
    BY <2>3 DEF LoadChunk
  <2>4. CASE StoreChunk(t)
    BY <2>4 DEF StoreChunk
  <2>5. CASE ReturnNode(t)
    BY <2>5 DEF ReturnNode, Return, SyncNext
  <2>6. CASE ReturnChunk(t)
    BY <2>6 DEF ReturnChunk, Return, SyncNext
  <2>7. CASE DeleteNode(t)
    BY <2>7 DEF DeleteNode, Return, SyncNext
  <2>8. QED
    BY <1>3, <2>1, <2>2, <2>3, <2>4, <2>5, <2>6, <2>7 DEF Locked
<1>4. ASSUME NEW t \in Threads, Unlocked(t) PROVE [SyncNext]_syncVars
  <2>1. CASE NodeAdd(t)
    BY <2>1 DEF NodeAdd, Call, SyncNext
  <2>2. CASE MallocGrow(t)
    BY <2>2 DEF MallocGrow, Call, SyncNext
  <2>3. CASE NodeDelete(t)
    BY <2>3 DEF NodeDelete, Call, SyncNext
  <2>4. CASE MallocCached(t)
    BY <2>4 DEF MallocCached
  <2>5. CASE MallocSlot(t)
    BY <2>5 DEF MallocSlot
  <2>6. CASE MallocNext(t)
    BY <2>6 DEF MallocNext
  <2>7. CASE NodeClean(t)
    BY <2>7 DEF NodeClean
  <2>8. ASSUME NEW o \in Objects, Free(t, o) PROVE [SyncNext]_syncVars
    BY <2>8 DEF Free
  <2>9. QED
    BY <1>4, <2>1, <2>2, <2>3, <2>4, <2>5, <2>6, <2>7, <2>8 DEF Unlocked
<1>5. QED
    BY <1>1, <1>2, <1>3, <1>4 DEF Next

-----------------------------------------------------------------------------
(***************************************************************************)
(* Numbers: the table of chunks, and division by the length of its rows.   *)
(***************************************************************************)
LEMMA PoolFacts ==
    /\ IsFiniteSet(Chunks) /\ Cardinality(Chunks) = MaxRows * ChunksSize
    /\ Cardinality(Chunks) \in Nat
    /\ Cardinality(Threads) \in Nat /\ IsFiniteSet(NodeIds)
    /\ NoChunk \notin Chunks /\ None \notin NodeIds /\ NodeIds \subseteq Nat
<1>1. IsFiniteSet(1 .. MaxRows) /\ Cardinality(1 .. MaxRows) = MaxRows
    BY FS_Interval, PoolAssumption
<1>2. IsFiniteSet(0 .. ChunksSize - 1) /\ Cardinality(0 .. ChunksSize - 1) = ChunksSize
    BY FS_Interval, PoolAssumption
<1>3. IsFiniteSet(Chunks) /\ Cardinality(Chunks) = MaxRows * ChunksSize
    BY <1>1, <1>2, FS_Product, ZenonT(60) DEF Chunks
<1>4. Cardinality(Threads) \in Nat
    BY ThreadsAssumption, FS_CardinalityType
<1>5. IsFiniteSet(NodeIds)
    BY <1>4, FS_Interval DEF NodeIds
<1>6. Cardinality(Chunks) \in Nat
    BY <1>3, FS_CardinalityType
<1>7. QED
    BY <1>3, <1>4, <1>5, <1>6 DEF NoChunk, Chunks, None, NodeIds

\* A chunk number is its row and its place in the row.
LEMMA DivMod ==
    ASSUME NEW a \in Nat
    PROVE  /\ a = ChunksSize * (a \div ChunksSize) + (a % ChunksSize)
           /\ a \div ChunksSize \in Nat /\ a % ChunksSize \in 0 .. ChunksSize - 1
    BY PoolAssumption

\* Of two numbers the smaller one is in an earlier row, or earlier in the row.
LEMMA DivOrder ==
    ASSUME NEW a \in Nat, NEW b \in Nat, a < b
    PROVE  \/ a \div ChunksSize < b \div ChunksSize
           \/ a \div ChunksSize = b \div ChunksSize /\ a % ChunksSize < b % ChunksSize
<1> DEFINE p == a \div ChunksSize  q == b \div ChunksSize
           r == a % ChunksSize  s == b % ChunksSize
<1>1. a = ChunksSize * p + r /\ p \in Nat /\ r \in 0 .. ChunksSize - 1
    BY DivMod
<1>2. b = ChunksSize * q + s /\ q \in Nat /\ s \in 0 .. ChunksSize - 1
    BY DivMod
<1> HIDE DEF p, q, r, s
<1>3. ASSUME q < p PROVE FALSE
  <2>1. PICK d \in Nat : p = q + 1 + d
    <3>1. p = q + 1 + (p - q - 1) /\ p - q - 1 \in Nat
      BY <1>1, <1>2, <1>3
    <3>2. QED
      BY <3>1
  <2>2. ChunksSize * p = ChunksSize * q + ChunksSize + ChunksSize * d /\ ChunksSize * d \in Nat
    BY <1>1, <1>2, <2>1, PoolAssumption
  <2>3. ChunksSize * q \in Nat /\ ChunksSize \in Nat
    BY <1>2, PoolAssumption
  <2>4. QED
    BY <1>1, <1>2, <2>2, <2>3
<1>4. p = q => r < s
    BY <1>1, <1>2, PoolAssumption
<1>5. p < q \/ p = q
    BY <1>1, <1>2, <1>3
<1>6. QED
    BY <1>4, <1>5 DEF p, q, r, s

\* Two different numbers are at two different places of the table.
LEMMA DivApart ==
    ASSUME NEW a \in Nat, NEW b \in Nat, a \div ChunksSize = b \div ChunksSize,
           a % ChunksSize = b % ChunksSize
    PROVE  a = b
    BY DivMod

\* What is below the size of the table has a place in it.
LEMMA DivBound ==
    ASSUME NEW a \in Nat, a < Cardinality(Chunks)
    PROVE  a \div ChunksSize < MaxRows
<1> DEFINE p == a \div ChunksSize  r == a % ChunksSize
<1>1. a = ChunksSize * p + r /\ p \in Nat /\ r \in 0 .. ChunksSize - 1
    BY DivMod
<1> HIDE DEF p, r
<1>2. ASSUME p >= MaxRows PROVE FALSE
  <2>1. PICK d \in Nat : p = MaxRows + d
    <3>1. p = MaxRows + (p - MaxRows) /\ p - MaxRows \in Nat
      BY <1>1, <1>2, PoolAssumption
    <3>2. QED
      BY <3>1
  <2>2. ChunksSize * p = MaxRows * ChunksSize + ChunksSize * d /\ ChunksSize * d \in Nat
    BY <2>1, PoolAssumption
  <2>3. MaxRows * ChunksSize \in Nat
    BY PoolAssumption
  <2>4. QED
    BY <1>1, <2>2, <2>3, PoolFacts
<1>3. QED
    BY <1>1, <1>2, PoolAssumption DEF p

-----------------------------------------------------------------------------
(***************************************************************************)
(* The operators on sequences the actions use.                             *)
(***************************************************************************)
LEMMA FrontLast ==
    ASSUME NEW S, NEW s \in Seq(S), s # << >>
    PROVE  /\ Len(s) \in Nat \ {0} /\ DOMAIN s = 1 .. Len(s)
           /\ Last(s) = s[Len(s)] /\ Last(s) \in S
           /\ Front(s) \in Seq(S) /\ DOMAIN Front(s) = 1 .. Len(s) - 1
           /\ \A i \in 1 .. Len(s) - 1 : Front(s)[i] = s[i]
<1>1. Len(s) \in Nat \ {0} /\ DOMAIN s = 1 .. Len(s)
    BY EmptySeq, LenProperties
<1>2. \A i \in 1 .. Len(s) : s[i] \in S
    BY ElementOfSeq
<1>3. /\ Front(s) \in Seq(S) /\ Len(Front(s)) = Len(s) - 1
      /\ \A i \in 1 .. Len(s) - 1 : Front(s)[i] = s[i]
    BY <1>1, <1>2 DEF Front
<1>4. DOMAIN Front(s) = 1 .. Len(s) - 1
    BY <1>3, LenProperties
<1>5. QED
    BY <1>1, <1>2, <1>3, <1>4 DEF Last

\* What Append leaves and what it adds.
LEMMA AppendOne ==
    ASSUME NEW S, NEW s \in Seq(S), NEW e \in S
    PROVE  /\ Len(s) \in Nat /\ DOMAIN s = 1 .. Len(s)
           /\ Append(s, e) \in Seq(S) /\ Append(s, e) # << >>
           /\ Len(Append(s, e)) = Len(s) + 1 /\ DOMAIN Append(s, e) = 1 .. Len(s) + 1
           /\ \A i \in 1 .. Len(s) : Append(s, e)[i] = s[i]
           /\ Append(s, e)[Len(s) + 1] = e
    BY AppendProperties, LenProperties

\* Reverse keeps the members and turns their places round.
LEMMA ReverseAll ==
    ASSUME NEW S, NEW s \in Seq(S)
    PROVE  /\ Len(s) \in Nat /\ DOMAIN s = 1 .. Len(s)
           /\ Len(Reverse(s)) = Len(s) /\ DOMAIN Reverse(s) = 1 .. Len(s)
           /\ \A i \in 1 .. Len(s) : /\ Reverse(s)[i] = s[Len(s) - i + 1]
                                     /\ Len(s) - i + 1 \in 1 .. Len(s)
<1>1. Len(s) \in Nat /\ DOMAIN s = 1 .. Len(s)
    BY LenProperties
<1>2. Reverse(s) = [i \in 1 .. Len(s) |-> s[(Len(s) - i) + 1]]
    BY DEF Reverse
<1>3. \A i \in 1 .. Len(s) : s[(Len(s) - i) + 1] \in S /\ (Len(s) - i) + 1 \in 1 .. Len(s)
    BY <1>1, ElementOfSeq
<1>4. Reverse(s) \in Seq(S)
    BY <1>1, <1>2, <1>3, IsASeq
<1>5. Len(Reverse(s)) = Len(s)
    BY <1>1, <1>2, <1>4, LenProperties
<1>6. QED
    BY <1>1, <1>2, <1>3, <1>5

-----------------------------------------------------------------------------
(***************************************************************************)
(* Counting: what the invariant leaves room for.                           *)
(***************************************************************************)
\* A thread without a node leaves an index for it when no deleted one is left.
LEMMA NodeLeft ==
    ASSUME ShapeInv, NodeInv, NEW t \in Threads, mine[t] = None, nodes_cache = << >>
    PROVE  nodes_length \in NodeIds
<1> DEFINE S == 0 .. nodes_length - 1
           f == [n \in S |-> CHOOSE u \in Threads : mine[u] = n]
<1>1. nodes_length \in 0 .. Cardinality(Threads) /\ Cardinality(Threads) \in Nat
    BY PoolFacts DEF ShapeInv
<1>2. \A n \in S : \E u \in Threads : mine[u] = n
    BY <1>1 DEF NodeInv, NodeIds
<1>3. \A n \in S : f[n] \in Threads /\ mine[f[n]] = n
    BY <1>2
<1>4. f \in [S -> Threads \ {t}]
    BY <1>3 DEF None
<1>5. f \in Injection(S, Threads \ {t})
  <2>1. \A a, b \in S : f[a] = f[b] => a = b
    BY <1>3
  <2>2. QED
    BY <1>4, <2>1, Fun_IsInj
<1>6. IsFiniteSet(Threads \ {t}) /\ Cardinality(Threads \ {t}) = Cardinality(Threads) - 1
    BY ThreadsAssumption, FS_RemoveElement
<1>7. Cardinality(S) <= Cardinality(Threads) - 1
    BY <1>5, <1>6, FS_Injection
<1>8. Cardinality(S) = nodes_length
    BY <1>1, FS_Interval
<1>9. QED
    BY <1>1, <1>7, <1>8 DEF NodeIds

\* A call that has not got its chunk yet finds one: a place of chunks[][] when
\* the cache is empty, and a row that is full is not the last one.
LEMMA ChunkLeft ==
    ASSUME ShapeInv, ChunkInv, NEW t \in Demand, chunk_cache_length = 0
    PROVE  /\ Handed < Cardinality(Chunks)
           /\ chunks_length >= ChunksSize => chunks_pos_length + 1 <= MaxRows
<1>1. IsFiniteSet(Demand)
    BY ThreadsAssumption, FS_Subset DEF Demand
<1>2. Cardinality(Demand) \in Nat /\ Cardinality(Demand) # 0
    BY <1>1, FS_CardinalityType, FS_EmptySet
<1>3. /\ chunks_pos_length \in 1 .. MaxRows /\ chunks_length \in 0 .. ChunksSize
      /\ Cardinality(Chunks) = MaxRows * ChunksSize
      /\ MaxRows \in Nat /\ ChunksSize \in Nat
    BY PoolAssumption, PoolFacts DEF ShapeInv
<1>4. Cardinality(Demand) <= Cardinality(Chunks) - Handed
  <2>1. Cardinality(Demand) <= Cardinality(Chunks) - Handed + chunk_cache_length
    BY DEF ChunkInv
  <2>2. Handed \in Int /\ Cardinality(Chunks) \in Int
    BY <1>3 DEF Handed
  <2>3. QED
    BY <2>1, <2>2, <1>2
<1>5. Handed < Cardinality(Chunks)
  <2>1. Handed \in Int /\ Cardinality(Chunks) \in Int
    BY <1>3 DEF Handed
  <2>2. QED
    BY <2>1, <1>2, <1>4
<1>6. ASSUME chunks_length >= ChunksSize, chunks_pos_length = MaxRows PROVE FALSE
  <2>1. Handed = (MaxRows - 1) * ChunksSize + ChunksSize
    BY <1>3, <1>6 DEF Handed
  <2>2. Handed = MaxRows * ChunksSize
    BY <2>1, <1>3
  <2>3. QED
    BY <2>2, <1>3, <1>5
<1>7. QED
    BY <1>3, <1>5, <1>6

\* The chunks of a node find room in the cache: those in the cache and those of
\* the node are different ones.
LEMMA CacheRoom ==
    ASSUME ShapeInv, ChunkInv, NEW n \in NodeIds
    PROVE  chunk_cache_length + Len(nodes[n].chain) <= Cardinality(Chunks)
<1> DEFINE L == chunk_cache_length  c == nodes[n].chain  N == L + Len(c)
           f == [i \in 1 .. N |-> IF i <= L THEN chunk_cache[i] ELSE c[i - L]]
<1>1. L \in 0 .. Cardinality(Chunks) /\ Cardinality(Chunks) \in Nat
    BY PoolAssumption, PoolFacts DEF ShapeInv
<1>2. c \in Seq(Chunks)
    BY DEF ShapeInv, NodeShape
<1>3. Len(c) \in Nat /\ DOMAIN c = 1 .. Len(c) /\ \A i \in 1 .. Len(c) : c[i] \in Chunks
    BY <1>2, LenProperties, ElementOfSeq
<1>4. /\ \A i \in 1 .. L : chunk_cache[i] \in Chunks
      /\ \A i, j \in 1 .. L : chunk_cache[i] = chunk_cache[j] => i = j
      /\ \A i \in 1 .. L, j \in DOMAIN c : chunk_cache[i] # c[j]
      /\ \A i, j \in DOMAIN c : c[i] = c[j] => i = j
    BY DEF ChunkInv
<1> HIDE DEF L, c
<1>5. \A i \in 1 .. N : \/ i \in 1 .. L /\ f[i] = chunk_cache[i]
                        \/ i \notin 1 .. L /\ i - L \in 1 .. Len(c) /\ f[i] = c[i - L]
  <2> SUFFICES ASSUME NEW i \in 1 .. N
               PROVE  \/ i \in 1 .. L /\ f[i] = chunk_cache[i]
                      \/ i \notin 1 .. L /\ i - L \in 1 .. Len(c) /\ f[i] = c[i - L]
    OBVIOUS
  <2>1. i \in Nat /\ L \in Nat /\ i >= 1 /\ i <= L + Len(c)
    BY <1>1, <1>3
  <2>2. CASE i <= L
    BY <2>1, <2>2
  <2>3. CASE i > L
    BY <2>1, <2>3, <1>3
  <2>4. QED
    BY <2>1, <2>2, <2>3
<1>6. f \in [1 .. N -> Chunks]
    BY <1>3, <1>4, <1>5
<1>7. \A i, j \in 1 .. N : f[i] = f[j] => i = j
  <2> SUFFICES ASSUME NEW i \in 1 .. N, NEW j \in 1 .. N, f[i] = f[j] PROVE i = j
    OBVIOUS
  <2> HIDE DEF f
  <2>1. CASE i \in 1 .. L /\ j \in 1 .. L
    BY <2>1, <1>4, <1>5
  <2>2. CASE i \notin 1 .. L /\ j \notin 1 .. L
    <3>1. i - L = j - L
      BY <2>2, <1>3, <1>4, <1>5
    <3>2. QED
      BY <3>1, <1>1, <1>3
  <2>3. CASE i \in 1 .. L /\ j \notin 1 .. L
    BY <2>3, <1>3, <1>4, <1>5
  <2>4. CASE i \notin 1 .. L /\ j \in 1 .. L
    <3>1. f[j] = chunk_cache[j] /\ f[i] = c[i - L] /\ i - L \in DOMAIN c
      BY <2>4, <1>3, <1>5
    <3>2. QED
      BY <3>1, <2>4, <1>4
  <2>5. QED
    BY <2>1, <2>2, <2>3, <2>4
<1>8. f \in Injection(1 .. N, Chunks)
    BY <1>6, <1>7, Fun_IsInj
<1>9. Cardinality(1 .. N) <= Cardinality(Chunks)
    BY <1>8, PoolFacts, FS_Injection
<1>10. N \in Nat /\ Cardinality(1 .. N) = N
  <2>1. N \in Nat
    BY <1>1, <1>3
  <2> HIDE DEF N
  <2>2. QED
    BY <2>1, FS_Interval
<1>11. QED
    BY <1>9, <1>10 DEF L, c

\* The nodes in use have a first chunk each: there are chunks for all of them.
LEMMA InUseRoom ==
    ASSUME ShapeInv, ChunkInv
    PROVE  IsFiniteSet(InUse) /\ Cardinality(InUse) \in 0 .. Cardinality(Chunks)
<1> DEFINE f == [n \in InUse |-> nodes[n].chain[1]]
<1>1. \A n \in InUse : n \in NodeIds /\ 1 \in DOMAIN nodes[n].chain /\ f[n] \in Chunks
  <2> SUFFICES ASSUME NEW n \in InUse
               PROVE  n \in NodeIds /\ 1 \in DOMAIN nodes[n].chain /\ f[n] \in Chunks
    OBVIOUS
  <2>1. n \in NodeIds /\ nodes[n].chain \in Seq(Chunks) /\ nodes[n].chain # << >>
    BY DEF InUse, ShapeInv, NodeShape
  <2>2. QED
    BY <2>1, FrontLast, ElementOfSeq
<1>2. \A n, m \in InUse : f[n] = f[m] => n = m
    BY <1>1 DEF ChunkInv
<1>3. f \in Injection(InUse, Chunks)
    BY <1>1, <1>2, Fun_IsInj
<1>4. IsFiniteSet(InUse) /\ Cardinality(InUse) <= Cardinality(Chunks)
    BY <1>3, PoolFacts, FS_Injection
<1>5. Cardinality(InUse) \in Nat
    BY <1>4, FS_CardinalityType
<1>6. QED
    BY <1>4, <1>5, PoolFacts

\* mcobject_async_clean gives every node in use a place of its own, and the
\* places fill the table from its start.
LEMMA PlaceFacts ==
    ASSUME ShapeInv, ChunkInv
    PROVE  /\ \A n \in InUse : /\ Nth(n) \in 0 .. Cardinality(InUse) - 1
                               /\ Place(n) \in Chunks
           /\ \A n, m \in InUse : Place(n) = Place(m) => n = m
<1> DEFINE k == Cardinality(InUse)
           Before(n) == {m \in InUse : m < n}
<1>1. IsFiniteSet(InUse) /\ k \in Nat /\ k <= Cardinality(Chunks) /\ InUse \subseteq Nat
  <2>1. \A n \in InUse : n \in Nat
    BY PoolFacts DEF InUse
  <2>2. IsFiniteSet(InUse) /\ k \in 0 .. Cardinality(Chunks)
    BY InUseRoom
  <2>3. QED
    BY <2>1, <2>2, PoolFacts
<1>2. \A n \in InUse : IsFiniteSet(Before(n)) /\ Cardinality(Before(n)) \in Nat
    BY <1>1, FS_Subset, FS_CardinalityType
<1>3. ASSUME NEW n \in InUse PROVE Nth(n) \in 0 .. k - 1
  <2>1. Before(n) \subseteq InUse \ {n}
    BY <1>1
  <2>2. IsFiniteSet(InUse \ {n}) /\ Cardinality(InUse \ {n}) = k - 1
    BY <1>1, FS_RemoveElement
  <2>3. Cardinality(Before(n)) <= k - 1
    BY <2>1, <2>2, FS_Subset
  <2>4. Nth(n) = Cardinality(Before(n))
    BY DEF Nth
  <2>5. QED
    BY <1>1, <1>2, <2>3, <2>4
<1>4. ASSUME NEW n \in InUse, NEW m \in InUse, n < m PROVE Nth(n) < Nth(m)
  <2>1. Before(n) \union {n} \subseteq Before(m) /\ n \notin Before(n)
    <3>1. n \in Nat /\ m \in Nat /\ n < m /\ \A i \in InUse : i \in Nat
      BY <1>1, <1>4
    <3>2. \A i \in Before(n) : i \in InUse /\ i < m
      BY <3>1
    <3>3. ~(n < n)
      BY <3>1
    <3>4. QED
      BY <3>1, <3>2, <3>3
  <2>2. /\ IsFiniteSet(Before(n) \union {n})
        /\ Cardinality(Before(n) \union {n}) = Cardinality(Before(n)) + 1
    <3>1. IsFiniteSet(Before(n)) /\ n \notin Before(n)
      BY <1>2, <2>1
    <3> HIDE DEF Before
    <3>2. QED
      BY <3>1, FS_AddElement
  <2>3. Cardinality(Before(n) \union {n}) <= Cardinality(Before(m))
    BY <1>2, <2>1, FS_Subset
  <2>4. Nth(n) = Cardinality(Before(n)) /\ Nth(m) = Cardinality(Before(m))
    BY DEF Nth
  <2>5. QED
    BY <1>2, <2>2, <2>3, <2>4
<1>5. ASSUME NEW n \in InUse PROVE Place(n) \in Chunks
  <2>1. Nth(n) \in Nat /\ Nth(n) < Cardinality(Chunks)
    BY <1>1, <1>3, PoolFacts
  <2>2. Nth(n) \div ChunksSize < MaxRows
    BY <2>1, DivBound
  <2>3. Nth(n) \div ChunksSize \in Nat /\ Nth(n) % ChunksSize \in 0 .. ChunksSize - 1
    BY <2>1, DivMod
  <2>4. QED
    BY <2>2, <2>3, PoolAssumption DEF Place, Chunks
<1>6. ASSUME NEW n \in InUse, NEW m \in InUse, Place(n) = Place(m) PROVE n = m
  <2>1. Nth(n) \in Nat /\ Nth(m) \in Nat
    BY <1>1, <1>3
  <2>2. /\ 1 + (Nth(n) \div ChunksSize) = 1 + (Nth(m) \div ChunksSize)
        /\ Nth(n) % ChunksSize = Nth(m) % ChunksSize
    BY <1>6 DEF Place
  <2>3. Nth(n) \div ChunksSize \in Nat /\ Nth(m) \div ChunksSize \in Nat
    BY <2>1, DivMod
  <2>4. Nth(n) = Nth(m)
    BY <2>1, <2>2, <2>3, DivApart
  <2>5. ~(n < m) /\ ~(m < n)
    BY <1>4, <2>1, <2>4
  <2>6. QED
    BY <1>1, <2>5
<1>7. QED
    BY <1>3, <1>5, <1>6

\* After it the place of every node in use counts as handed out, and as many
\* chunks are as there are nodes in use.
LEMMA CleanPool ==
    ASSUME ShapeInv, ChunkInv, Clean
    PROVE  /\ chunks_pos_length' \in 1 .. MaxRows /\ chunks_length' \in 0 .. ChunksSize
           /\ Handed' = Cardinality(InUse)
           /\ \A n \in InUse : ~ \/ Place(n)[1] > chunks_pos_length'
                                 \/ Place(n)[1] = chunks_pos_length' /\ Place(n)[2] >= chunks_length'
<1> DEFINE k == Cardinality(InUse)  P == (k - 1) \div ChunksSize  R == (k - 1) % ChunksSize
<1>1. /\ k \in Nat /\ k <= Cardinality(Chunks)
      /\ ChunksSize \in Nat \ {0} /\ MaxRows \in Nat \ {0}
    BY InUseRoom, PoolFacts, PoolAssumption
<1>2. CASE k = 0
  <2>1. chunks_pos_length' = 1 /\ chunks_length' = 0
    BY <1>2 DEF Clean
  <2>2. InUse = {}
    BY <1>2, InUseRoom, FS_EmptySet
  <2>3. Handed' = 0
    BY <1>1, <2>1 DEF Handed
  <2>4. QED
    BY <1>1, <1>2, <2>1, <2>2, <2>3
<1>3. CASE k # 0
  <2>1. chunks_pos_length' = 1 + P /\ chunks_length' = 1 + R
    BY <1>3 DEF Clean
  <2>2. k - 1 \in Nat /\ k - 1 < Cardinality(Chunks)
    BY <1>1, <1>3, PoolFacts
  <2>3. k - 1 = (ChunksSize * P) + R /\ P \in Nat /\ R \in 0 .. ChunksSize - 1
    BY <2>2, DivMod
  <2>4. P < MaxRows
    BY <2>2, DivBound
  <2> HIDE DEF P, R
  <2>5. Handed' = k
    <3>1. Handed' = (chunks_pos_length' - 1) * ChunksSize + chunks_length'
      BY DEF Handed
    <3>2. chunks_pos_length' - 1 = P
      BY <2>1, <2>3
    <3>3. Handed' = P * ChunksSize + (1 + R)
      BY <2>1, <3>1, <3>2
    <3>4. QED
      BY <1>1, <2>3, <3>3
  <2>6. ASSUME NEW n \in InUse
        PROVE  /\ ~(Place(n)[1] > 1 + P)
               /\ ~(Place(n)[1] = 1 + P /\ Place(n)[2] >= 1 + R)
    <3> DEFINE a == Nth(n)  p == a \div ChunksSize  r == a % ChunksSize
    <3>1. a \in Nat /\ a <= k - 1
      BY <1>1, PlaceFacts
    <3>2. p \in Nat /\ r \in Nat
      BY <3>1, DivMod
    <3>3. Place(n)[1] = 1 + p /\ Place(n)[2] = r
      BY DEF Place
    <3>4. p < P \/ (p = P /\ r <= R)
      <4>1. CASE a = k - 1
        BY <4>1, <2>3 DEF P, R
      <4>2. CASE a < k - 1
        <5>1. p < P \/ (p = P /\ r < R)
          BY <3>1, <2>2, <4>2, DivOrder DEF P, R
        <5> HIDE DEF p, r
        <5>2. QED
          BY <5>1, <3>2, <2>3
      <4>3. QED
        BY <4>1, <4>2, <3>1, <2>2
    <3> HIDE DEF p, r
    <3>5. QED
      BY <3>2, <3>3, <3>4, <2>3
  <2>7. QED
    BY <1>1, <2>1, <2>3, <2>4, <2>5, <2>6
<1>4. QED
    BY <1>2, <1>3

-----------------------------------------------------------------------------
(***************************************************************************)
(* The steps.  Each action keeps the parts of the invariant it can disturb. *)
(***************************************************************************)
\* What the parts of a node are.
LEMMA NodeTypes ==
    ASSUME ShapeInv, NEW n \in NodeIds
    PROVE  /\ nodes[n].chain \in Seq(Chunks) /\ Len(nodes[n].chain) \in Nat
           /\ DOMAIN nodes[n].chain = 1 .. Len(nodes[n].chain)
           /\ \A i \in 1 .. Len(nodes[n].chain) : nodes[n].chain[i] \in Chunks
           /\ nodes[n].cache \in Seq(Objects) /\ Len(nodes[n].cache) \in Nat
           /\ DOMAIN nodes[n].cache = 1 .. Len(nodes[n].cache)
           /\ \A i \in 1 .. Len(nodes[n].cache) : nodes[n].cache[i] \in Objects
           /\ nodes[n].at \in Nat
<1>1. nodes[n].chain \in Seq(Chunks) /\ nodes[n].cache \in Seq(Objects) /\ nodes[n].at \in Nat
    BY DEF ShapeInv, NodeShape
<1>2. QED
    BY <1>1, LenProperties, ElementOfSeq

\* A thread outside the lock that has a node stands on one of its chunks.
LEMMA ReadyFacts ==
    ASSUME ShapeInv, NodeInv, NEW t \in Threads, Ready(t)
    PROVE  /\ mine[t] \in NodeIds /\ Owns(t)
           /\ Node(t).at \in 1 .. Len(Node(t).chain) /\ ChunkOf(t) \in Chunks
           /\ 1 \in 1 .. Len(Node(t).chain) /\ Node(t).chain[1] \in Chunks
           /\ used[ChunkOf(t)] \in 0 .. ChunkCap
<1>1. mine[t] \in NodeIds /\ Owns(t)
    BY DEF ShapeInv, Ready, Idle, Owns
<1>2. Node(t).at \in 1 .. Len(Node(t).chain)
    BY <1>1 DEF NodeInv
<1>3. 1 \in 1 .. Len(Node(t).chain) /\ Node(t).chain[1] \in Chunks /\ ChunkOf(t) \in Chunks
    BY <1>1, <1>2, NodeTypes DEF Node, ChunkOf
<1>4. QED
    BY <1>1, <1>2, <1>3 DEF ShapeInv

\* A step of a thread on its own node leaves it standing on one of its chunks
\* and touches no other node.
LEMMA OwnNode ==
    ASSUME NodeInv, ShapeInv, NEW t \in Threads, Ready(t), nodes' \in [NodeIds -> NodeShape],
           \A n \in NodeIds : n # mine[t] => nodes'[n] = nodes[n],
           nodes'[mine[t]].at \in 1 .. Len(nodes'[mine[t]].chain),
           UNCHANGED <<nodes_length, nodes_cache, mine, op>>
    PROVE  NodeInv'
<1>1. mine[t] \in NodeIds /\ Owns(t) /\ op[t] # "grow"
    BY ReadyFacts DEF Ready, Idle
<1>2. \A u \in Threads : Owns(u)' <=> Owns(u)
    BY DEF Owns
<1>3. ASSUME NEW u \in Threads, Owns(u)
      PROVE  /\ Node(u)'.at \in 1 .. Len(Node(u)'.chain)
             /\ op'[u] = "grow" => Node(u)'.at = Len(Node(u)'.chain)
  <2>1. CASE u = t
    BY <2>1, <1>1 DEF Node
  <2>2. CASE u # t
    <3>1. mine[u] \in NodeIds /\ mine[u] # mine[t]
      BY <1>1, <1>3, <2>2 DEF NodeInv, ShapeInv, Owns
    <3>2. Node(u)' = Node(u)
      BY <3>1 DEF Node
    <3>3. QED
      BY <1>3, <3>2 DEF NodeInv
  <2>3. QED
    BY <2>1, <2>2
<1>4. \A n \in NodeIds : (\A u \in Threads : Owns(u)' => mine'[u] # n) => nodes'[n] = EmptyNode
    BY <1>1, <1>2 DEF NodeInv
<1>5. QED
    BY <1>2, <1>3, <1>4 DEF NodeInv

\* Where each chunk is does not depend on where the threads stand in the chains.
LEMMA ChunkFrame ==
    ASSUME ChunkInv, \A n \in NodeIds : nodes'[n].chain = nodes[n].chain,
           UNCHANGED <<poolVars, op, step, got>>
    PROVE  ChunkInv'
    BY DEF ChunkInv, poolVars, Unused, Demand, Handed

\* What holds of the calls under way depends on the lock, on the nodes the
\* threads own and on the two counters of chunks.
LEMMA CallFrame ==
    ASSUME CallInv, UNCHANGED <<syncVars, callVars, mine, chunk_cache_length, chunks_length>>
    PROVE  CallInv'
    BY DEF CallInv, CallAt, syncVars, callVars

\* malloc that gives a freed object again.
LEMMA MallocCachedStep ==
    ASSUME AllocInv, NEW t \in Threads, MallocCached(t)
    PROVE  ShapeInv' /\ CallInv' /\ NodeInv' /\ ChunkInv' /\ ObjectInv'
<1> DEFINE m == mine[t]  c == Node(t).cache  o == Last(c)
<1>a. ShapeInv /\ CallInv /\ NodeInv /\ ChunkInv /\ ObjectInv /\ Ready(t)
    BY DEF AllocInv, MallocCached
<1>1. m \in NodeIds /\ c \in Seq(Objects) /\ c # << >>
    BY <1>a, ReadyFacts, NodeTypes DEF Node, MallocCached
<1>2. /\ Len(c) \in Nat \ {0} /\ DOMAIN c = 1 .. Len(c) /\ o = c[Len(c)] /\ o \in Objects
      /\ Front(c) \in Seq(Objects) /\ DOMAIN Front(c) = 1 .. Len(c) - 1
      /\ \A i \in 1 .. Len(c) - 1 : Front(c)[i] = c[i]
    BY <1>1, FrontLast
<1>3. /\ nodes' = [nodes EXCEPT ![m].cache = Front(c)]
      /\ handed' = [handed EXCEPT ![o] = @ + 1]
      /\ UNCHANGED <<syncVars, poolVars, nodes_length, nodes_cache, mine, used, header, callVars>>
    BY DEF MallocCached, Node
<1> HIDE DEF o
<1>4. /\ nodes' \in [NodeIds -> NodeShape]
      /\ \A n \in NodeIds : n # m => nodes'[n] = nodes[n]
      /\ nodes'[m].chain = nodes[m].chain /\ nodes'[m].at = nodes[m].at
      /\ nodes'[m].cache = Front(c)
    BY <1>a, <1>1, <1>2, <1>3, ZenonT(60) DEF ShapeInv, NodeShape
<1>5. handed[o] = 0 /\ LiesIn(o, m)
    BY <1>a, <1>1, <1>2 DEF ObjectInv, Node
<1>h. handed' \in [Objects -> Nat]
    BY <1>a, <1>2, <1>3, SMTT(30) DEF ShapeInv
<1>6. ShapeInv'
    BY <1>a, <1>h, <1>3, <1>4 DEF ShapeInv, poolVars, callVars
<1>7. CallInv'
    BY <1>a, <1>3, CallFrame DEF poolVars
<1>8. NodeInv'
    BY <1>a, <1>1, <1>3, <1>4, OwnNode, ReadyFacts DEF callVars, Node
<1>9. ChunkInv'
    BY <1>a, <1>3, <1>4, ChunkFrame DEF callVars
<1>10. \A x \in Objects, n \in NodeIds : LiesIn(x, n)' <=> LiesIn(x, n)
    BY <1>3, <1>4 DEF LiesIn
<1>11. ObjectInv'
  <2>1. ASSUME NEW x \in Objects
        PROVE  /\ handed'[x] <= 1
               /\ handed'[x] > 0 => header'[x] \in NodeIds /\ LiesIn(x, header[x])'
    <3>1. CASE x = o
      <4>1. handed'[x] = 1
        BY <1>a, <1>2, <1>3, <1>5, <3>1 DEF ShapeInv
      <4>2. header'[x] = m
        BY <1>3, <1>5, <3>1 DEF LiesIn
      <4>3. QED
        BY <4>1, <4>2, <1>1, <1>3, <1>5, <1>10, <3>1
    <3>2. CASE x # o
      BY <1>a, <1>3, <1>10, <3>2 DEF ObjectInv, ShapeInv
    <3>3. QED
      BY <3>1, <3>2
  <2>2. ASSUME NEW n \in NodeIds, NEW i \in DOMAIN nodes'[n].cache
        PROVE  /\ LiesIn(nodes[n].cache[i], n)'
               /\ handed'[nodes'[n].cache[i]] = 0
               /\ \A j \in DOMAIN nodes'[n].cache :
                     nodes'[n].cache[i] = nodes'[n].cache[j] => i = j
    <3>1. CASE n = m
      <4>1. nodes'[n].cache = Front(c) /\ i \in 1 .. Len(c) - 1 /\ i \in DOMAIN c /\ i # Len(c)
        BY <1>2, <1>4, <2>2, <3>1
      <4>2. /\ LiesIn(c[i], n) /\ handed[c[i]] = 0 /\ c[i] # o
            /\ \A j \in DOMAIN c : c[i] = c[j] => i = j
        BY <1>a, <1>1, <1>2, <3>1, <4>1 DEF ObjectInv, Node
      <4>3. c[i] \in Objects
        BY <1>1, <1>2, <4>1, ElementOfSeq
      <4>4. handed'[c[i]] = 0
        BY <1>a, <1>3, <4>2, <4>3 DEF ShapeInv
      <4>5. nodes'[n].cache[i] = c[i]
        BY <1>2, <4>1
      <4>6. \A j \in DOMAIN nodes'[n].cache : nodes'[n].cache[j] = c[j] /\ j \in DOMAIN c
        BY <1>2, <4>1
      <4>7. QED
        BY <1>10, <4>2, <4>3, <4>4, <4>5, <4>6
    <3>2. CASE n # m
      <4>1. nodes'[n].cache = nodes[n].cache /\ nodes[n].cache[i] \in Objects
        BY <1>a, <1>4, <2>2, <3>2, NodeTypes
      <4>2. LiesIn(nodes[n].cache[i], n) /\ handed[nodes[n].cache[i]] = 0
        BY <1>a, <4>1, <2>2 DEF ObjectInv
      <4>3. nodes[n].cache[i] # o
        BY <4>2, <1>5, <3>2 DEF LiesIn
      <4>4. QED
        BY <1>a, <1>3, <1>10, <2>2, <4>1, <4>2, <4>3 DEF ObjectInv, ShapeInv
    <3>3. QED
      BY <3>1, <3>2
  <2>3. QED
    BY <2>1, <2>2, <1>3 DEF ObjectInv
<1>12. QED
    BY <1>6, <1>7, <1>8, <1>9, <1>11

\* free puts a held object into the cache of its node.
LEMMA FreeStep ==
    ASSUME AllocInv, NEW t \in Threads, NEW o \in Objects, Free(t, o)
    PROVE  ShapeInv' /\ CallInv' /\ NodeInv' /\ ChunkInv' /\ ObjectInv'
<1> DEFINE m == mine[t]  c == Node(t).cache
<1>a. ShapeInv /\ CallInv /\ NodeInv /\ ChunkInv /\ ObjectInv /\ Ready(t)
    BY DEF AllocInv, Free
<1>1. m \in NodeIds /\ c \in Seq(Objects)
    BY <1>a, ReadyFacts, NodeTypes DEF Node
<1>2. /\ Len(c) \in Nat /\ DOMAIN c = 1 .. Len(c)
      /\ Append(c, o) \in Seq(Objects) /\ DOMAIN Append(c, o) = 1 .. Len(c) + 1
      /\ \A i \in 1 .. Len(c) : Append(c, o)[i] = c[i]
      /\ Append(c, o)[Len(c) + 1] = o
    BY <1>1, AppendOne
<1>3. /\ header[o] = m /\ handed[o] > 0
      /\ nodes' = [nodes EXCEPT ![m].cache = Append(c, o)]
      /\ handed' = [handed EXCEPT ![o] = @ - 1]
      /\ UNCHANGED <<syncVars, poolVars, nodes_length, nodes_cache, mine, used, header, callVars>>
    BY DEF Free, Node
<1>4. /\ nodes' \in [NodeIds -> NodeShape]
      /\ \A n \in NodeIds : n # m => nodes'[n] = nodes[n]
      /\ nodes'[m].chain = nodes[m].chain /\ nodes'[m].at = nodes[m].at
      /\ nodes'[m].cache = Append(c, o)
    BY <1>a, <1>1, <1>2, <1>3, ZenonT(60) DEF ShapeInv, NodeShape
<1>5. handed[o] = 1 /\ LiesIn(o, m)
    BY <1>a, <1>3 DEF ObjectInv, ShapeInv
<1>h. /\ handed' \in [Objects -> Nat] /\ handed'[o] = 0
      /\ \A x \in Objects : x # o => handed'[x] = handed[x]
    BY <1>a, <1>3, <1>5 DEF ShapeInv
<1>6. ShapeInv'
    BY <1>a, <1>h, <1>3, <1>4 DEF ShapeInv, poolVars, callVars
<1>7. CallInv'
    BY <1>a, <1>3, CallFrame DEF poolVars
<1>8. NodeInv'
    BY <1>a, <1>1, <1>3, <1>4, OwnNode, ReadyFacts DEF callVars, Node
<1>9. ChunkInv'
    BY <1>a, <1>3, <1>4, ChunkFrame DEF callVars
<1>10. \A x \in Objects, n \in NodeIds : LiesIn(x, n)' <=> LiesIn(x, n)
    BY <1>3, <1>4 DEF LiesIn
<1>11. ObjectInv'
  <2>1. ASSUME NEW x \in Objects
        PROVE  /\ handed'[x] <= 1
               /\ handed'[x] > 0 => header'[x] \in NodeIds /\ LiesIn(x, header[x])'
    <3>1. CASE x = o
      BY <1>h, <3>1
    <3>2. CASE x # o
      BY <1>a, <1>h, <1>3, <1>10, <3>2 DEF ObjectInv
    <3>3. QED
      BY <3>1, <3>2
  <2>2. ASSUME NEW n \in NodeIds, NEW i \in DOMAIN nodes[n].cache
        PROVE  /\ nodes[n].cache[i] \in Objects /\ nodes[n].cache[i] # o
               /\ LiesIn(nodes[n].cache[i], n) /\ handed'[nodes[n].cache[i]] = 0
               /\ \A j \in DOMAIN nodes[n].cache : nodes[n].cache[i] = nodes[n].cache[j] => i = j
    <3>1. nodes[n].cache[i] \in Objects
      BY <1>a, NodeTypes
    <3>2. /\ LiesIn(nodes[n].cache[i], n) /\ handed[nodes[n].cache[i]] = 0
          /\ \A j \in DOMAIN nodes[n].cache : nodes[n].cache[i] = nodes[n].cache[j] => i = j
      BY <1>a DEF ObjectInv
    <3>3. QED
      BY <3>1, <3>2, <1>h, <1>5
  <2>3. ASSUME NEW n \in NodeIds, NEW i \in DOMAIN nodes'[n].cache
        PROVE  /\ LiesIn(nodes[n].cache[i], n)'
               /\ handed'[nodes'[n].cache[i]] = 0
               /\ \A j \in DOMAIN nodes'[n].cache :
                     nodes'[n].cache[i] = nodes'[n].cache[j] => i = j
    <3>1. CASE n # m
      BY <1>4, <1>10, <2>2, <2>3, <3>1
    <3>2. CASE n = m
      <4>1. \A j \in DOMAIN nodes'[n].cache :
               \/ j \in DOMAIN c /\ nodes'[n].cache[j] = c[j]
               \/ j = Len(c) + 1 /\ nodes'[n].cache[j] = o
        BY <1>2, <1>4, <3>2
      <4>2. \A j \in DOMAIN c : /\ c[j] \in Objects /\ c[j] # o /\ LiesIn(c[j], n) /\ handed'[c[j]] = 0
                                /\ \A k \in DOMAIN c : c[j] = c[k] => j = k
        BY <2>2, <3>2 DEF Node
      <4>3. CASE i \in DOMAIN c /\ nodes'[n].cache[i] = c[i]
        BY <4>1, <4>2, <4>3, <1>10
      <4>4. CASE i = Len(c) + 1 /\ nodes'[n].cache[i] = o
        BY <4>1, <4>2, <4>4, <1>5, <1>h, <1>10, <3>2
      <4>5. QED
        BY <2>3, <4>1, <4>3, <4>4
    <3>3. QED
      BY <3>1, <3>2
  <2>4. QED
    BY <2>1, <2>3 DEF ObjectInv
<1>12. QED
    BY <1>6, <1>7, <1>8, <1>9, <1>11

\* malloc that takes the next object of the chunk the thread stands on.
LEMMA MallocSlotStep ==
    ASSUME AllocInv, NEW t \in Threads, MallocSlot(t)
    PROVE  ShapeInv' /\ CallInv' /\ NodeInv' /\ ChunkInv' /\ ObjectInv'
<1> DEFINE C == ChunkOf(t)
<1>a. ShapeInv /\ CallInv /\ NodeInv /\ ChunkInv /\ ObjectInv /\ Ready(t)
    BY DEF AllocInv, MallocSlot
<1>1. /\ mine[t] \in NodeIds /\ C \in Chunks /\ used[C] \in 0 .. ChunkCap - 1
      /\ <<C, used[C]>> \in Objects
      /\ Node(t).at \in 1 .. Len(Node(t).chain) /\ DOMAIN Node(t).chain = 1 .. Len(Node(t).chain)
  <2>1. mine[t] \in NodeIds /\ C \in Chunks /\ used[C] \in 0 .. ChunkCap
        /\ Node(t).at \in 1 .. Len(Node(t).chain)
    BY <1>a, ReadyFacts
  <2>2. used[C] < ChunkCap
    BY DEF MallocSlot
  <2>3. DOMAIN Node(t).chain = 1 .. Len(Node(t).chain)
    BY <1>a, <2>1, NodeTypes DEF Node
  <2>4. used[C] \in 0 .. ChunkCap - 1
    BY <2>1, <2>2, PoolAssumption
  <2>5. QED
    BY <2>1, <2>3, <2>4 DEF Objects
<1>2. PICK m \in NodeIds : m = mine[t]
    BY <1>1
<1>p. PICK o \in Objects : o = <<C, used[C]>>
    BY <1>1
<1>3. /\ header' = [header EXCEPT ![o] = m]
      /\ handed' = [handed EXCEPT ![o] = @ + 1]
      /\ used' = [used EXCEPT ![C] = @ + 1]
      /\ UNCHANGED <<syncVars, poolVars, nodeVars, callVars>>
    BY <1>2, <1>p DEF MallocSlot
<1>4. o[1] = C /\ o[2] = used[C]
    BY <1>p
<1>5. LiesIn(o, m)'
  <2>1. nodes[m].chain[nodes[m].at] = C /\ nodes[m].at \in DOMAIN nodes[m].chain
        /\ nodes[m].at \in 1 .. nodes[m].at
    <3>1. C = nodes[m].chain[nodes[m].at] /\ nodes[m].at \in 1 .. Len(nodes[m].chain)
      BY <1>1, <1>2 DEF ChunkOf, Node
    <3>2. DOMAIN nodes[m].chain = 1 .. Len(nodes[m].chain) /\ Len(nodes[m].chain) \in Nat
      BY <1>a, NodeTypes
    <3>3. nodes[m].at \in 1 .. nodes[m].at
      BY <3>1, <3>2
    <3>4. QED
      BY <3>1, <3>2, <3>3
  <2>2. used'[C] = used[C] + 1 /\ used[C] \in Nat
    BY <1>a, <1>1, <1>3 DEF ShapeInv
  <2>3. header'[o] = m
    BY <1>a, <1>1, <1>3 DEF ShapeInv
  <2>4. QED
    BY <2>1, <2>2, <2>3, <1>3, <1>4 DEF LiesIn, nodeVars
<1>6. \A x \in Objects, n \in NodeIds : LiesIn(x, n) => x # o /\ LiesIn(x, n)'
  <2> SUFFICES ASSUME NEW x \in Objects, NEW n \in NodeIds, LiesIn(x, n)
               PROVE  x # o /\ LiesIn(x, n)'
    OBVIOUS
  <2>1. x[2] < used[x[1]] /\ header[x] = n
    BY DEF LiesIn
  <2>2. x # o
    BY <1>1, <1>4, <2>1
  <2>3. header'[x] = n
    BY <1>3, <2>1, <2>2
  <2>4. x[1] \in Chunks /\ x[2] \in Nat
    BY DEF Objects
  <2>5. x[2] < used'[x[1]]
    BY <1>a, <1>1, <1>3, <2>1, <2>4, SMTT(30) DEF ShapeInv
  <2>6. QED
    BY <1>3, <2>2, <2>3, <2>5 DEF LiesIn, nodeVars
<1>h. /\ handed' \in [Objects -> Nat] /\ handed'[o] = handed[o] + 1
      /\ \A x \in Objects : x # o => handed'[x] = handed[x] /\ header'[x] = header[x]
      /\ header' \in [Objects -> NodeIds \union {None}] /\ header'[o] = m
    BY <1>a, <1>1, <1>3, SMTT(30) DEF ShapeInv
<1>u. used' \in [Chunks -> 0 .. ChunkCap]
  <2>1. used[C] + 1 \in 0 .. ChunkCap
    BY <1>1, PoolAssumption
  <2>2. QED
    BY <1>a, <1>3, <2>1 DEF ShapeInv
<1>7. handed[o] = 0
  <2>1. handed[o] > 0 => header[o] \in NodeIds /\ LiesIn(o, header[o])
    BY <1>a DEF ObjectInv
  <2>2. ~(handed[o] > 0)
    BY <1>6, <2>1
  <2>3. QED
    BY <1>a, <2>2 DEF ShapeInv
<1>8. ShapeInv'
    BY <1>a, <1>h, <1>u, <1>3 DEF ShapeInv, poolVars, callVars, nodeVars
<1>9. CallInv'
    BY <1>a, <1>3, CallFrame DEF poolVars, nodeVars
<1>10. NodeInv'
    BY <1>a, <1>3 DEF NodeInv, Owns, Node, nodeVars, callVars
<1>11. ChunkInv'
    BY <1>a, <1>3, ChunkFrame DEF callVars, nodeVars
<1>12. ObjectInv'
  <2>1. ASSUME NEW x \in Objects
        PROVE  /\ handed'[x] <= 1
               /\ handed'[x] > 0 => header'[x] \in NodeIds /\ LiesIn(x, header[x])'
    <3>1. CASE x = o
      <4>1. handed'[x] = 1 /\ header'[x] = m
        BY <1>7, <1>h, <3>1
      <4>2. QED
        BY <4>1, <1>5, <3>1
    <3>2. CASE x # o
      BY <1>a, <1>h, <1>6, <3>2 DEF ObjectInv
    <3>3. QED
      BY <3>1, <3>2
  <2>2. ASSUME NEW n \in NodeIds, NEW i \in DOMAIN nodes[n].cache
        PROVE  /\ LiesIn(nodes[n].cache[i], n)'
               /\ handed'[nodes[n].cache[i]] = 0
    <3>1. nodes[n].cache[i] \in Objects
      BY <1>a, NodeTypes
    <3>2. LiesIn(nodes[n].cache[i], n) /\ handed[nodes[n].cache[i]] = 0
      BY <1>a DEF ObjectInv
    <3>3. \A x \in Objects : LiesIn(x, n) /\ handed[x] = 0 => LiesIn(x, n)' /\ handed'[x] = 0
      BY <1>6, <1>h
    <3>4. nodes' = nodes
      BY <1>3 DEF nodeVars
    <3>5. QED
      BY <3>1, <3>2, <3>3, <3>4
  <2>3. nodes' = nodes
    BY <1>3 DEF nodeVars
  <2>4. QED
    BY <1>a, <2>1, <2>2, <2>3 DEF ObjectInv
<1>13. QED
    BY <1>8, <1>9, <1>10, <1>11, <1>12

\* malloc that moves on to a chunk left in the chain: no object that is held or
\* kept lies in it.
LEMMA MallocNextStep ==
    ASSUME AllocInv, NEW t \in Threads, MallocNext(t)
    PROVE  ShapeInv' /\ CallInv' /\ NodeInv' /\ ChunkInv' /\ ObjectInv'
<1>a. ShapeInv /\ CallInv /\ NodeInv /\ ChunkInv /\ ObjectInv /\ Ready(t)
    BY DEF AllocInv, MallocNext
<1>1. PICK m \in NodeIds : m = mine[t]
    BY <1>a, ReadyFacts
<1>2. /\ nodes[m].at \in 1 .. Len(nodes[m].chain) /\ nodes[m].at < Len(nodes[m].chain)
      /\ Len(nodes[m].chain) \in Nat /\ DOMAIN nodes[m].chain = 1 .. Len(nodes[m].chain)
    BY <1>a, <1>1, ReadyFacts, NodeTypes DEF Node, MallocNext
<1>3. nodes[m].at + 1 \in DOMAIN nodes[m].chain
    BY <1>2
<1>4. PICK C \in Chunks : C = nodes[m].chain[nodes[m].at + 1]
    BY <1>a, <1>2, <1>3, NodeTypes
<1>5. PICK o \in Objects : o = <<C, 0>>
  <2>1. 0 \in 0 .. ChunkCap - 1
    BY PoolAssumption
  <2>2. <<C, 0>> \in Objects
    BY <2>1 DEF Objects
  <2>3. QED
    BY <2>2
<1>6. /\ header' = [header EXCEPT ![o] = m]
      /\ handed' = [handed EXCEPT ![o] = @ + 1]
      /\ used' = [used EXCEPT ![C] = 1]
      /\ nodes' = [nodes EXCEPT ![m].at = @ + 1]
      /\ UNCHANGED <<syncVars, poolVars, nodes_length, nodes_cache, mine, callVars>>
    BY <1>1, <1>4, <1>5 DEF MallocNext, Node
<1>7. /\ nodes' \in [NodeIds -> NodeShape]
      /\ \A n \in NodeIds : /\ n # m => nodes'[n] = nodes[n]
                            /\ nodes'[n].chain = nodes[n].chain
                            /\ nodes'[n].cache = nodes[n].cache
      /\ nodes'[m].at = nodes[m].at + 1
  <2>1. nodes[m].at + 1 \in Nat /\ nodes \in [NodeIds -> NodeShape]
    BY <1>2, <1>a DEF ShapeInv
  <2>2. /\ nodes'[m].chain = nodes[m].chain /\ nodes'[m].cache = nodes[m].cache
        /\ nodes'[m].at = nodes[m].at + 1 /\ \A n \in NodeIds : n # m => nodes'[n] = nodes[n]
    BY <1>6, <2>1 DEF NodeShape
  <2>3. nodes' \in [NodeIds -> NodeShape]
    BY <1>6, <2>1 DEF NodeShape
  <2>4. QED
    BY <2>2, <2>3
<1>h. /\ handed' \in [Objects -> Nat] /\ handed'[o] = handed[o] + 1
      /\ \A x \in Objects : x # o => handed'[x] = handed[x] /\ header'[x] = header[x]
      /\ header' \in [Objects -> NodeIds \union {None}] /\ header'[o] = m
    BY <1>a, <1>6 DEF ShapeInv
<1>u. /\ used' \in [Chunks -> 0 .. ChunkCap] /\ used'[C] = 1
      /\ \A c \in Chunks : c # C => used'[c] = used[c]
  <2>1. 1 \in 0 .. ChunkCap
    BY PoolAssumption
  <2>2. QED
    BY <1>a, <1>6, <2>1 DEF ShapeInv
<1>8. ShapeInv'
    BY <1>a, <1>h, <1>u, <1>6, <1>7 DEF ShapeInv, poolVars, callVars
<1>9. CallInv'
    BY <1>a, <1>6, CallFrame DEF poolVars
<1>10. NodeInv'
  <2>1. nodes'[m].at \in 1 .. Len(nodes'[m].chain)
    BY <1>2, <1>7
  <2>2. QED
    BY <1>a, <1>1, <1>6, <1>7, <2>1, OwnNode DEF callVars
<1>11. ChunkInv'
    BY <1>a, <1>6, <1>7, ChunkFrame DEF callVars
<1>12. \A x \in Objects, n \in NodeIds : LiesIn(x, n) => x # o /\ LiesIn(x, n)'
  <2> SUFFICES ASSUME NEW x \in Objects, NEW n \in NodeIds, LiesIn(x, n)
               PROVE  x # o /\ LiesIn(x, n)'
    OBVIOUS
  <2>1. PICK i \in 1 .. nodes[n].at : i \in DOMAIN nodes[n].chain /\ nodes[n].chain[i] = x[1]
    BY DEF LiesIn
  <2>2. x[1] # C
    BY <1>a, <1>2, <1>3, <1>4, <2>1 DEF ChunkInv
  <2>3. x # o /\ x[1] \in Chunks
    BY <1>5, <2>2 DEF Objects
  <2>4. header'[x] = n /\ x[2] < used'[x[1]]
    BY <1>h, <1>u, <2>2, <2>3 DEF LiesIn
  <2>5. i \in 1 .. nodes'[n].at
    BY <1>2, <1>7, <2>1
  <2>6. QED
    BY <1>7, <2>1, <2>3, <2>4, <2>5 DEF LiesIn
<1>13. LiesIn(o, m)'
  <2>1. nodes'[m].at \in 1 .. nodes'[m].at
    BY <1>2, <1>7
  <2>2. o[1] = C /\ o[2] = 0
    BY <1>5
  <2>3. nodes'[m].at \in DOMAIN nodes'[m].chain /\ nodes'[m].chain[nodes'[m].at] = C
    BY <1>3, <1>4, <1>7
  <2>4. QED
    BY <1>h, <1>u, <2>1, <2>2, <2>3 DEF LiesIn
<1>14. handed[o] = 0
  <2>1. handed[o] > 0 => header[o] \in NodeIds /\ LiesIn(o, header[o])
    BY <1>a DEF ObjectInv
  <2>2. ~(handed[o] > 0)
    BY <1>12, <2>1
  <2>3. QED
    BY <1>a, <2>2 DEF ShapeInv
<1>15. ObjectInv'
  <2>1. ASSUME NEW x \in Objects
        PROVE  /\ handed'[x] <= 1
               /\ handed'[x] > 0 => header'[x] \in NodeIds /\ LiesIn(x, header[x])'
    <3>1. CASE x = o
      <4>1. handed'[x] = 1 /\ header'[x] = m
        BY <1>14, <1>h, <3>1
      <4>2. QED
        BY <4>1, <1>13, <3>1
    <3>2. CASE x # o
      BY <1>a, <1>h, <1>12, <3>2 DEF ObjectInv
    <3>3. QED
      BY <3>1, <3>2
  <2>2. ASSUME NEW n \in NodeIds, NEW i \in DOMAIN nodes[n].cache
        PROVE  /\ LiesIn(nodes[n].cache[i], n)'
               /\ handed'[nodes[n].cache[i]] = 0
    <3>1. nodes[n].cache[i] \in Objects
      BY <1>a, NodeTypes
    <3>2. LiesIn(nodes[n].cache[i], n) /\ handed[nodes[n].cache[i]] = 0
      BY <1>a DEF ObjectInv
    <3>3. \A x \in Objects : LiesIn(x, n) /\ handed[x] = 0 => LiesIn(x, n)' /\ handed'[x] = 0
      BY <1>12, <1>h
    <3>4. nodes'[n].cache = nodes[n].cache
      BY <1>7
    <3>5. QED
      BY <3>1, <3>2, <3>3, <3>4
  <2>3. QED
    BY <1>a, <1>7, <2>1, <2>2 DEF ObjectInv
<1>16. QED
    BY <1>8, <1>9, <1>10, <1>11, <1>15

\* node_clean forgets the objects of the node, and of no other one.
LEMMA NodeCleanStep ==
    ASSUME AllocInv, NEW t \in Threads, NodeClean(t)
    PROVE  ShapeInv' /\ CallInv' /\ NodeInv' /\ ChunkInv' /\ ObjectInv'
<1>a. ShapeInv /\ CallInv /\ NodeInv /\ ChunkInv /\ ObjectInv /\ Ready(t)
    BY DEF AllocInv, NodeClean
<1>1. PICK m \in NodeIds : m = mine[t]
    BY <1>a, ReadyFacts
<1>2. /\ 1 \in 1 .. Len(nodes[m].chain) /\ 1 \in DOMAIN nodes[m].chain
      /\ nodes[m].chain[1] \in Chunks
    BY <1>a, <1>1, ReadyFacts, NodeTypes DEF Node
<1>3. PICK C \in Chunks : C = nodes[m].chain[1]
    BY <1>2
<1>4. /\ nodes' = [nodes EXCEPT ![m].at = 1, ![m].cache = << >>]
      /\ used' = [used EXCEPT ![C] = 0]
      /\ handed' = [o \in Objects |-> IF header[o] = m THEN 0 ELSE handed[o]]
      /\ UNCHANGED <<syncVars, poolVars, nodes_length, nodes_cache, mine, header, callVars>>
    BY <1>1, <1>3 DEF NodeClean, Node
<1>5. << >> \in Seq(Objects) /\ DOMAIN << >> = {}
    OBVIOUS
<1>6. /\ nodes' \in [NodeIds -> NodeShape]
      /\ \A n \in NodeIds : /\ n # m => nodes'[n] = nodes[n]
                            /\ nodes'[n].chain = nodes[n].chain
      /\ nodes'[m].at = 1 /\ nodes'[m].cache = << >>
    BY <1>a, <1>4, <1>5, ZenonT(60) DEF ShapeInv, NodeShape
<1>u. /\ used' \in [Chunks -> 0 .. ChunkCap]
      /\ \A c \in Chunks : c # C => used'[c] = used[c]
  <2>1. 0 \in 0 .. ChunkCap
    BY PoolAssumption
  <2>2. QED
    BY <1>a, <1>4, <2>1 DEF ShapeInv
<1>h. /\ handed' \in [Objects -> Nat]
      /\ \A x \in Objects : handed'[x] = IF header[x] = m THEN 0 ELSE handed[x]
    BY <1>a, <1>4 DEF ShapeInv
<1>7. ShapeInv'
    BY <1>a, <1>h, <1>u, <1>4, <1>6 DEF ShapeInv, poolVars, callVars
<1>8. CallInv'
    BY <1>a, <1>4, CallFrame DEF poolVars
<1>9. NodeInv'
    BY <1>a, <1>1, <1>2, <1>4, <1>6, OwnNode DEF callVars
<1>10. ChunkInv'
    BY <1>a, <1>4, <1>6, ChunkFrame DEF callVars
<1>11. \A x \in Objects, n \in NodeIds : n # m /\ LiesIn(x, n) => LiesIn(x, n)'
  <2> SUFFICES ASSUME NEW x \in Objects, NEW n \in NodeIds, n # m, LiesIn(x, n)
               PROVE  LiesIn(x, n)'
    OBVIOUS
  <2>1. PICK i \in 1 .. nodes[n].at : i \in DOMAIN nodes[n].chain /\ nodes[n].chain[i] = x[1]
    BY DEF LiesIn
  <2>2. x[1] # C
    BY <1>a, <1>2, <1>3, <2>1 DEF ChunkInv
  <2>3. x[1] \in Chunks
    BY DEF Objects
  <2>4. QED
    BY <1>4, <1>6, <1>u, <2>1, <2>2, <2>3 DEF LiesIn
<1>12. ObjectInv'
  <2>1. ASSUME NEW x \in Objects
        PROVE  /\ handed'[x] <= 1
               /\ handed'[x] > 0 => header'[x] \in NodeIds /\ LiesIn(x, header[x])'
    <3>1. header' = header
      BY <1>4
    <3>2. handed[x] <= 1 /\ (handed[x] > 0 => header[x] \in NodeIds /\ LiesIn(x, header[x]))
      BY <1>a DEF ObjectInv
    <3>3. CASE header[x] = m
      BY <1>h, <3>3
    <3>4. CASE header[x] # m
      BY <1>h, <1>11, <3>1, <3>2, <3>4
    <3>5. QED
      BY <3>3, <3>4
  <2>2. ASSUME NEW n \in NodeIds, NEW i \in DOMAIN nodes'[n].cache
        PROVE  /\ LiesIn(nodes[n].cache[i], n)'
               /\ handed'[nodes'[n].cache[i]] = 0
               /\ \A j \in DOMAIN nodes'[n].cache :
                     nodes'[n].cache[i] = nodes'[n].cache[j] => i = j
    <3>1. n # m /\ nodes'[n] = nodes[n]
      BY <1>5, <1>6, <2>2
    <3>2. nodes[n].cache[i] \in Objects
      BY <1>a, <2>2, <3>1, NodeTypes
    <3>3. /\ LiesIn(nodes[n].cache[i], n) /\ handed[nodes[n].cache[i]] = 0
          /\ \A j \in DOMAIN nodes[n].cache : nodes[n].cache[i] = nodes[n].cache[j] => i = j
      BY <1>a, <2>2, <3>1 DEF ObjectInv
    <3>4. \A x \in Objects : LiesIn(x, n) /\ handed[x] = 0 => LiesIn(x, n)' /\ handed'[x] = 0
      BY <1>11, <1>h, <3>1
    <3>5. QED
      BY <3>1, <3>2, <3>3, <3>4
  <2>3. QED
    BY <2>1, <2>2 DEF ObjectInv
<1>13. QED
    BY <1>7, <1>8, <1>9, <1>10, <1>12

\* Where each object is depends only on the nodes, the chunks and the headers.
LEMMA ObjectFrame ==
    ASSUME ObjectInv, UNCHANGED <<nodes, objectVars>>
    PROVE  ObjectInv'
    BY DEF ObjectInv, LiesIn, objectVars

\* Who owns which node does not change with what the other calls do.
LEMMA NodeFrame ==
    ASSUME NodeInv, UNCHANGED <<nodes, nodes_length, nodes_cache, mine>>,
           \A u \in Threads : (op'[u] = "add") = (op[u] = "add") /\ (op'[u] = "grow") = (op[u] = "grow")
    PROVE  NodeInv'
    BY DEF NodeInv, Owns, Node

\* While a thread is inside the lock every other one is before its call's locked
\* part, or in no call, and has taken no chunk.
LEMMA Alone ==
    ASSUME LockInv, CallInv, NEW t \in Threads, sync[t] = "in"
    PROVE  /\ \A u \in Threads : u # t => sync[u] # "in" /\ step[u] = "lock" /\ got[u] = NoChunk
           /\ op[t] # "none"
<1>1. \A u \in Threads : u # t => sync[u] # "in"
    BY DEF LockInv, MutualExclusion
<1>2. QED
    BY <1>1 DEF CallInv, CallAt

\* A call is begun: it asks for the lock, and for a chunk if it needs one.
LEMMA CallStep ==
    ASSUME AllocInv, NEW t \in Threads, NEW name \in {"add", "grow", "delete"}, Call(t, name),
           name = "add" <=> mine[t] = None,
           name = "grow" => Node(t).at = Len(Node(t).chain),
           name # "delete" => ChunksLeft
    PROVE  ShapeInv' /\ CallInv' /\ NodeInv' /\ ChunkInv' /\ ObjectInv'
<1>a. LockInv /\ ShapeInv /\ CallInv /\ NodeInv /\ ChunkInv /\ ObjectInv
    BY DEF AllocInv
<1>1. /\ op[t] = "none" /\ sync[t] = "out" /\ sync' = [sync EXCEPT ![t] = "try"]
      /\ op' = [op EXCEPT ![t] = name]
      /\ UNCHANGED <<poolVars, nodeVars, objectVars, step, reg, got>>
    BY DEF Call, Idle, LockCall
<1>2. step[t] = "lock"
    BY <1>a, <1>1 DEF CallInv, CallAt
<1>3. ShapeInv'
    BY <1>a, <1>1 DEF ShapeInv, poolVars, nodeVars, objectVars
<1>4. CallInv'
  <2>1. sync \in [Threads -> {"out", "try", "in"}] /\ op \in [Threads -> {"none", "add", "grow", "delete"}]
    BY <1>a DEF LockInv, LockWordInv, ShapeInv
  <2>2. sync'[t] = "try" /\ op'[t] = name
    BY <1>1, <2>1
  <2>3. \A u \in Threads : u # t => sync'[u] = sync[u] /\ op'[u] = op[u]
    BY <1>1, <2>1
  <2>4. UNCHANGED <<mine, step, reg, got, chunk_cache_length, chunks_length>>
    BY <1>1 DEF nodeVars, poolVars
  <2>5. QED
    BY <1>a, <1>2, <2>2, <2>3, <2>4 DEF CallInv, CallAt
<1>5. NodeInv'
  <2>1. UNCHANGED <<nodes, nodes_length, nodes_cache, mine>>
    BY <1>1 DEF nodeVars
  <2>2. \A u \in Threads : u # t => op'[u] = op[u]
    BY <1>a, <1>1 DEF ShapeInv
  <2>3. op'[t] = name
    BY <1>a, <1>1 DEF ShapeInv
  <2>4. \A u \in Threads : Owns(u)' <=> Owns(u)
    BY <1>1, <2>1, <2>2, <2>3 DEF Owns
  <2>5. \A u \in Threads : Node(u)' = Node(u)
    BY <2>1 DEF Node
  <2>6. \A u \in Threads : Owns(u) /\ op'[u] = "grow" => Node(u).at = Len(Node(u).chain)
    BY <1>a, <2>2, <2>3 DEF NodeInv
  <2>7. QED
    BY <1>a, <2>1, <2>4, <2>5, <2>6 DEF NodeInv
<1>6. ChunkInv'
  <2> DEFINE X == {u \in Threads : op[u] \in {"add", "grow"}}
             R == Cardinality(Chunks) - Handed + chunk_cache_length
  <2>1. UNCHANGED <<poolVars, nodes, got>> /\ Handed' = Handed
    BY <1>1 DEF nodeVars, poolVars, Handed
  <2>2. Cardinality(Demand') <= R
    <3>1. \A u \in Threads : u # t => op'[u] = op[u] /\ step'[u] = step[u]
      BY <1>a, <1>1 DEF ShapeInv
    <3>2. CASE name = "delete"
      <4>1. op'[t] = "delete"
        BY <1>a, <1>1, <3>2 DEF ShapeInv
      <4>2. Demand' = Demand
        BY <1>1, <3>1, <4>1 DEF Demand
      <4>3. QED
        BY <1>a, <4>2 DEF ChunkInv
    <3>3. CASE name # "delete"
      <4>1. Demand' \subseteq X \union {t}
        BY <3>1 DEF Demand
      <4>2. IsFiniteSet(X) /\ Cardinality(X) \in Nat
        BY ThreadsAssumption, FS_Subset, FS_CardinalityType
      <4>3. t \notin X
        BY <1>1
      <4>4. R > Cardinality(X)
        BY <3>3 DEF ChunksLeft, Handed
      <4>5. R \in Int
        BY <1>a, PoolFacts, PoolAssumption DEF ShapeInv, Handed
      <4> HIDE DEF X, R
      <4>6. IsFiniteSet(X \union {t}) /\ Cardinality(X \union {t}) = Cardinality(X) + 1
        BY <4>2, <4>3, FS_AddElement
      <4>7. IsFiniteSet(Demand') /\ Cardinality(Demand') <= Cardinality(X) + 1
        BY <4>1, <4>6, FS_Subset
      <4>8. Cardinality(Demand') \in Nat
        BY <4>7, FS_CardinalityType
      <4>9. QED
        BY <4>2, <4>4, <4>5, <4>7, <4>8
    <3>4. QED
      BY <3>2, <3>3
  <2>3. QED
    BY <1>a, <2>1, <2>2 DEF ChunkInv, poolVars, Unused
<1>7. ObjectInv'
    BY <1>a, <1>1, ObjectFrame DEF nodeVars
<1>8. QED
    BY <1>3, <1>4, <1>5, <1>6, <1>7

\* A call that needs the lock begins.
LEMMA BeginStep ==
    ASSUME AllocInv, NEW t \in Threads, NodeAdd(t) \/ MallocGrow(t) \/ NodeDelete(t)
    PROVE  ShapeInv' /\ CallInv' /\ NodeInv' /\ ChunkInv' /\ ObjectInv'
<1>1. CASE NodeAdd(t)
    BY <1>1, CallStep DEF NodeAdd
<1>2. CASE MallocGrow(t)
    BY <1>2, CallStep DEF MallocGrow, Ready
<1>3. CASE NodeDelete(t)
    BY <1>3, CallStep DEF NodeDelete, Ready
<1>4. QED
    BY <1>1, <1>2, <1>3

\* The lock is taken.
LEMMA AttemptStep ==
    ASSUME ~Spinlock, AllocInv, NEW t \in Threads, Attempt(t)
    PROVE  ShapeInv' /\ CallInv' /\ NodeInv' /\ ChunkInv' /\ ObjectInv'
<1>a. LockInv /\ ShapeInv /\ CallInv /\ NodeInv /\ ChunkInv /\ ObjectInv
    BY DEF AllocInv
<1> DEFINE s == IF op[t] = "add" THEN "node" ELSE IF op[t] = "grow" THEN "load" ELSE "delete"
<1>1. /\ sync[t] = "try" /\ sync' = [sync EXCEPT ![t] = "in"]
      /\ step' = [step EXCEPT ![t] = s]
      /\ UNCHANGED <<poolVars, nodeVars, objectVars, op, reg, got>>
    BY DEF Attempt, LockTry
<1>2. /\ step[t] = "lock" /\ op[t] \in {"add", "grow", "delete"}
      /\ sync \in [Threads -> {"out", "try", "in"}]
      /\ step \in [Threads -> {"lock", "node", "load", "store", "done", "delete"}]
      /\ got[t] = NoChunk
    BY <1>a, <1>1 DEF CallInv, CallAt, LockInv, LockWordInv, ShapeInv
<1>3. sync'[t] = "in" /\ step'[t] = s /\ \A u \in Threads : u # t => sync'[u] = sync[u] /\ step'[u] = step[u]
    BY <1>1, <1>2
<1>4. ShapeInv'
    BY <1>a, <1>1 DEF ShapeInv, poolVars, nodeVars, objectVars
<1>5. CallInv'
  <2>1. UNCHANGED <<mine, op, reg, got, chunk_cache_length, chunks_length>>
    BY <1>1 DEF nodeVars, poolVars
  <2>2. QED
    BY <1>a, <1>2, <1>3, <2>1 DEF CallInv, CallAt
<1>6. NodeInv'
    BY <1>a, <1>1, NodeFrame DEF nodeVars
<1>7. ChunkInv'
  <2>1. Demand' = Demand
    BY <1>1, <1>2, <1>3 DEF Demand
  <2>2. QED
    BY <1>a, <1>1, <2>1 DEF ChunkInv, poolVars, nodeVars, Unused, Handed
<1>8. ObjectInv'
    BY <1>a, <1>1, ObjectFrame DEF nodeVars
<1>9. QED
    BY <1>4, <1>5, <1>6, <1>7, <1>8

\* The counter of the pool is loaded.
LEMMA LoadChunkStep ==
    ASSUME AllocInv, NEW t \in Threads, LoadChunk(t)
    PROVE  ShapeInv' /\ CallInv' /\ NodeInv' /\ ChunkInv' /\ ObjectInv'
<1>a. LockInv /\ ShapeInv /\ CallInv /\ NodeInv /\ ChunkInv /\ ObjectInv
    BY DEF AllocInv
<1>1. /\ sync[t] = "in" /\ step[t] = "load" /\ step' = [step EXCEPT ![t] = "store"]
      /\ reg' = [reg EXCEPT ![t] = [cached |-> chunk_cache_length > 0,
                                    n |-> IF chunk_cache_length > 0 THEN chunk_cache_length
                                                                    ELSE chunks_length]]
      /\ UNCHANGED <<syncVars, poolVars, nodeVars, objectVars, op, got>>
    BY DEF LoadChunk, Inside
<1>2. /\ step \in [Threads -> {"lock", "node", "load", "store", "done", "delete"}]
      /\ reg \in [Threads -> [cached : BOOLEAN, n : Nat]]
      /\ chunks_length \in Nat /\ chunk_cache_length \in Nat
    BY <1>a, PoolAssumption, PoolFacts DEF ShapeInv
<1>3. /\ step'[t] = "store" /\ reg'[t].cached = (chunk_cache_length > 0)
      /\ reg'[t].n = IF chunk_cache_length > 0 THEN chunk_cache_length ELSE chunks_length
      /\ \A u \in Threads : u # t => step'[u] = step[u] /\ reg'[u] = reg[u]
    BY <1>1, <1>2
<1>4. ShapeInv'
  <2>1. reg' \in [Threads -> [cached : BOOLEAN, n : Nat]]
    BY <1>1, <1>2
  <2>2. QED
    BY <1>a, <1>1, <2>1 DEF ShapeInv, poolVars, nodeVars, objectVars
<1>5. CallInv'
  <2>1. UNCHANGED <<sync, mine, op, got, chunk_cache_length, chunks_length>>
    BY <1>1 DEF nodeVars, poolVars, syncVars
  <2>2. CallAt(t)'
    BY <1>a, <1>1, <1>3, <2>1, ZenonT(60) DEF CallInv, CallAt
  <2>3. \A u \in Threads : u # t => CallAt(u)'
    BY <1>a, <1>3, <2>1 DEF CallInv, CallAt
  <2>4. QED
    BY <2>2, <2>3 DEF CallInv
<1>6. NodeInv'
    BY <1>a, <1>1, NodeFrame DEF nodeVars
<1>7. ChunkInv'
  <2>1. Demand' = Demand
    BY <1>1, <1>3 DEF Demand
  <2>2. QED
    BY <1>a, <1>1, <2>1 DEF ChunkInv, poolVars, nodeVars, Unused, Handed
<1>8. ObjectInv'
    BY <1>a, <1>1, ObjectFrame DEF nodeVars
<1>9. QED
    BY <1>4, <1>5, <1>6, <1>7, <1>8

\* A call takes an index for its node: that of a deleted node, or a new one.
LEMMA TakeNodeStep ==
    ASSUME AllocInv, NEW t \in Threads, TakeNode(t)
    PROVE  ShapeInv' /\ CallInv' /\ NodeInv' /\ ChunkInv' /\ ObjectInv'
<1>a. LockInv /\ ShapeInv /\ CallInv /\ NodeInv /\ ChunkInv /\ ObjectInv
    BY DEF AllocInv
<1>1. /\ sync[t] = "in" /\ step[t] = "node" /\ step' = [step EXCEPT ![t] = "load"]
      /\ UNCHANGED <<syncVars, poolVars, objectVars, nodes, op, reg, got>>
    BY DEF TakeNode, Inside
<1>2. /\ op[t] = "add" /\ mine[t] = None
      /\ step \in [Threads -> {"lock", "node", "load", "store", "done", "delete"}]
      /\ mine \in [Threads -> NodeIds \union {None}] /\ nodes_cache \in Seq(NodeIds)
      /\ nodes_length \in 0 .. Cardinality(Threads) /\ Cardinality(Threads) \in Nat
    BY <1>a, <1>1, PoolFacts DEF CallInv, CallAt, ShapeInv
<1> DEFINE Fits(m) ==
        /\ mine' = [mine EXCEPT ![t] = m]
        /\ \A u \in Threads : mine[u] # m
        /\ m < nodes_length'
        /\ nodes_length' \in 0 .. Cardinality(Threads) /\ nodes_length' >= nodes_length
        /\ nodes_cache' \in Seq(NodeIds)
        /\ \A i \in DOMAIN nodes_cache' : /\ i \in DOMAIN nodes_cache /\ nodes_cache'[i] = nodes_cache[i]
                                          /\ nodes_cache'[i] # m
        /\ \A n \in NodeIds : n < nodes_length' /\ n # m =>
              /\ n < nodes_length
              /\ (\E i \in DOMAIN nodes_cache : nodes_cache[i] = n)
                    => \E i \in DOMAIN nodes_cache' : nodes_cache'[i] = n
<1>3. PICK m \in NodeIds : Fits(m)
  <2>1. CASE nodes_cache # << >> /\ mine' = [mine EXCEPT ![t] = Last(nodes_cache)]
             /\ nodes_cache' = Front(nodes_cache) /\ nodes_length' = nodes_length
    <3> DEFINE s == nodes_cache  m == Last(s)
    <3>1. /\ Len(s) \in Nat \ {0} /\ DOMAIN s = 1 .. Len(s) /\ m = s[Len(s)] /\ m \in NodeIds
          /\ Front(s) \in Seq(NodeIds) /\ DOMAIN Front(s) = 1 .. Len(s) - 1
          /\ \A i \in 1 .. Len(s) - 1 : Front(s)[i] = s[i]
      BY <1>2, <2>1, FrontLast
    <3> HIDE DEF m
    <3>2. Len(s) \in DOMAIN s
      BY <3>1
    <3>3. /\ m < nodes_length /\ \A u \in Threads : mine[u] # m
          /\ \A j \in DOMAIN s : s[j] = m => j = Len(s)
      BY <1>a, <3>1, <3>2 DEF NodeInv
    <3>4. \A i \in DOMAIN Front(s) : i \in DOMAIN s /\ Front(s)[i] = s[i] /\ s[i] # m
      BY <3>1, <3>3
    <3>5. \A i \in DOMAIN s : s[i] # m => i \in DOMAIN Front(s) /\ Front(s)[i] = s[i]
      BY <3>1
    <3>6. nodes_length' >= nodes_length
      BY <1>2, <2>1
    <3>7. mine' = [mine EXCEPT ![t] = m] /\ nodes_cache' \in Seq(NodeIds)
      BY <2>1, <3>1 DEF m
    <3>8. \A n \in NodeIds : n < nodes_length' /\ n # m =>
              /\ n < nodes_length
              /\ (\E i \in DOMAIN s : s[i] = n) => \E i \in DOMAIN nodes_cache' : nodes_cache'[i] = n
      BY <2>1, <3>5
    <3>9. Fits(m)
      BY <1>2, <2>1, <3>1, <3>3, <3>4, <3>6, <3>7, <3>8
    <3> HIDE DEF Fits
    <3>10. QED
      BY <3>1, <3>9
  <2>2. CASE nodes_cache = << >> /\ mine' = [mine EXCEPT ![t] = nodes_length]
             /\ nodes_length' = nodes_length + 1 /\ nodes_cache' = nodes_cache
    <3>1. nodes_length \in NodeIds
      BY <1>a, <1>2, <2>2, NodeLeft
    <3>2. nodes_length + 1 \in 0 .. Cardinality(Threads)
      BY <1>2, <3>1 DEF NodeIds
    <3>3. \A u \in Threads : mine[u] # nodes_length
      BY <1>a, <1>2 DEF NodeInv
    <3>4. DOMAIN nodes_cache = {}
      BY <2>2
    <3>5. \A n \in NodeIds : n < nodes_length + 1 /\ n # nodes_length => n < nodes_length
      BY <1>2 DEF NodeIds
    <3>6. Fits(nodes_length)
      BY <1>2, <2>2, <3>1, <3>2, <3>3, <3>4, <3>5
    <3> HIDE DEF Fits
    <3>7. QED
      BY <3>1, <3>6
  <2>3. QED
    BY <2>1, <2>2 DEF TakeNode
<1>4. mine'[t] = m /\ \A u \in Threads : u # t => mine'[u] = mine[u]
    BY <1>2, <1>3
<1>5. step'[t] = "load" /\ \A u \in Threads : u # t => step'[u] = step[u]
    BY <1>1, <1>2
<1>6. ShapeInv'
  <2>1. mine' \in [Threads -> NodeIds \union {None}]
    BY <1>2, <1>3
  <2>2. step' \in [Threads -> {"lock", "node", "load", "store", "done", "delete"}]
    BY <1>1, <1>2
  <2>3. QED
    BY <1>a, <1>1, <1>3, <2>1, <2>2 DEF ShapeInv, poolVars, objectVars
<1>7. CallInv'
  <2>1. UNCHANGED <<sync, op, reg, got, chunk_cache_length, chunks_length>>
    BY <1>1 DEF poolVars, syncVars
  <2>2. CallAt(t)'
    BY <1>a, <1>1, <1>2, <1>4, <1>5, <2>1, PoolFacts DEF CallInv, CallAt
  <2>3. \A u \in Threads : u # t => CallAt(u)'
    BY <1>a, <1>4, <1>5, <2>1 DEF CallInv, CallAt
  <2>4. QED
    BY <2>2, <2>3 DEF CallInv
<1>8. NodeInv'
  <2>1. \A u, v \in Threads : mine'[u] = mine'[v] /\ mine'[u] # None => u = v
    BY <1>a, <1>3, <1>4 DEF NodeInv
  <2>2. \A u \in Threads : mine'[u] < nodes_length'
    <3>1. \A u \in Threads : mine[u] < nodes_length
      BY <1>a DEF NodeInv
    <3>2. \A u \in Threads : mine[u] \in Int
      BY <1>2 DEF NodeIds, None
    <3>3. nodes_length \in Int /\ nodes_length' \in Int
      BY <1>2, <1>3
    <3>4. QED
      BY <1>3, <1>4, <3>1, <3>2, <3>3
  <2>3. \A i \in DOMAIN nodes_cache' :
          /\ nodes_cache'[i] < nodes_length'
          /\ \A u \in Threads : mine'[u] # nodes_cache'[i]
          /\ \A j \in DOMAIN nodes_cache' : nodes_cache'[i] = nodes_cache'[j] => i = j
    <3>1. \A i \in DOMAIN nodes_cache : nodes_cache[i] \in Nat
      <4>1. \A i \in DOMAIN nodes_cache : nodes_cache[i] \in NodeIds
        BY <1>2, LenProperties, ElementOfSeq
      <4>2. QED
        BY <4>1 DEF NodeIds
    <3>2. \A i \in DOMAIN nodes_cache :
            /\ nodes_cache[i] < nodes_length
            /\ \A u \in Threads : mine[u] # nodes_cache[i]
            /\ \A j \in DOMAIN nodes_cache : nodes_cache[i] = nodes_cache[j] => i = j
      BY <1>a DEF NodeInv
    <3>3. QED
      BY <1>2, <1>3, <1>4, <3>1, <3>2
  <2>4. \A n \in NodeIds : n < nodes_length' => \/ \E u \in Threads : mine'[u] = n
                                                \/ \E i \in DOMAIN nodes_cache' : nodes_cache'[i] = n
    <3> SUFFICES ASSUME NEW n \in NodeIds, n < nodes_length', n # m
                 PROVE  \/ \E u \in Threads : mine'[u] = n
                        \/ \E i \in DOMAIN nodes_cache' : nodes_cache'[i] = n
      BY <1>4
    <3>1. n < nodes_length /\ n # None
      BY <1>3, PoolFacts
    <3>2. \/ \E u \in Threads : mine[u] = n
          \/ \E i \in DOMAIN nodes_cache : nodes_cache[i] = n
      BY <1>a, <3>1 DEF NodeInv
    <3>3. QED
      BY <1>2, <1>3, <1>4, <3>1, <3>2
  <2>5. \A u \in Threads : /\ Owns(u)' <=> Owns(u)
                           /\ Owns(u) => u # t /\ mine'[u] = mine[u] /\ Node(u)' = Node(u)
    BY <1>1, <1>2, <1>4 DEF Owns, Node
  <2>6. UNCHANGED <<nodes, op>>
    BY <1>1
  <2>7. \A u \in Threads : Owns(u)' => /\ Node(u)'.at \in 1 .. Len(Node(u)'.chain)
                                       /\ op'[u] = "grow" => Node(u)'.at = Len(Node(u)'.chain)
    BY <1>a, <2>5, <2>6 DEF NodeInv
  <2>8. \A n \in NodeIds : (\A u \in Threads : Owns(u)' => mine'[u] # n) => nodes'[n] = EmptyNode
    BY <1>a, <2>5, <2>6 DEF NodeInv
  <2>9. QED
    BY <2>1, <2>2, <2>3, <2>4, <2>7, <2>8 DEF NodeInv
<1>9. ChunkInv'
  <2>1. Demand' = Demand
    BY <1>1, <1>5 DEF Demand
  <2>2. QED
    BY <1>a, <1>1, <2>1 DEF ChunkInv, poolVars, Unused, Handed
<1>10. ObjectInv'
    BY <1>a, <1>1, ObjectFrame
<1>11. QED
    BY <1>6, <1>7, <1>8, <1>9, <1>10

\* A chunk that lies in no chain may be emptied: no object is in it.
LEMMA Emptied ==
    ASSUME ShapeInv, ObjectInv, NEW g \in Chunks, UNCHANGED <<nodes, header, handed>>,
           used' = [used EXCEPT ![g] = 0],
           \A n \in NodeIds : \A i \in DOMAIN nodes[n].chain : nodes[n].chain[i] # g
    PROVE  ObjectInv' /\ used' \in [Chunks -> 0 .. ChunkCap]
<1>1. used' \in [Chunks -> 0 .. ChunkCap] /\ \A c \in Chunks : c # g => used'[c] = used[c]
  <2>1. 0 \in 0 .. ChunkCap
    BY PoolAssumption
  <2>2. QED
    BY <2>1 DEF ShapeInv
<1>2. \A x \in Objects, n \in NodeIds : LiesIn(x, n) => LiesIn(x, n)'
  <2> SUFFICES ASSUME NEW x \in Objects, NEW n \in NodeIds, LiesIn(x, n)
               PROVE  LiesIn(x, n)'
    OBVIOUS
  <2>1. x[1] # g /\ x[1] \in Chunks
    BY DEF LiesIn, Objects
  <2>2. QED
    BY <1>1, <2>1 DEF LiesIn
<1>3. ASSUME NEW n \in NodeIds, NEW i \in DOMAIN nodes[n].cache
      PROVE  LiesIn(nodes[n].cache[i], n)'
  <2>1. nodes[n].cache[i] \in Objects /\ LiesIn(nodes[n].cache[i], n)
    BY NodeTypes DEF ObjectInv
  <2>2. PICK x \in Objects : x = nodes[n].cache[i]
    BY <2>1
  <2>3. QED
    BY <1>2, <2>1, <2>2
<1>4. ObjectInv'
    BY <1>2, <1>3 DEF ObjectInv
<1>5. QED
    BY <1>1, <1>4

\* The chunk is taken: it is in no chain and in nobody's hands, and what is left
\* is enough for the other calls.
LEMMA StoreChunkStep ==
    ASSUME AllocInv, NEW t \in Threads, StoreChunk(t)
    PROVE  ShapeInv' /\ CallInv' /\ NodeInv' /\ ChunkInv' /\ ObjectInv'
<1>a. LockInv /\ ShapeInv /\ CallInv /\ NodeInv /\ ChunkInv /\ ObjectInv
    BY DEF AllocInv
<1> DEFINE L == chunk_cache_length
<1>1. /\ sync[t] = "in" /\ step[t] = "store" /\ step' = [step EXCEPT ![t] = "done"]
      /\ used' = [used EXCEPT ![got'[t]] = 0]
      /\ UNCHANGED <<syncVars, chunk_cache, nodeVars, header, handed, op, reg>>
    BY DEF StoreChunk, Inside
<1>2. /\ op[t] \in {"add", "grow"} /\ mine[t] # None /\ got[t] = NoChunk
      /\ reg[t].cached = (L > 0) /\ reg[t].n = IF reg[t].cached THEN L ELSE chunks_length
    BY <1>a, <1>1 DEF CallInv, CallAt
<1>n. ASSUME L = 0 PROVE ~reg[t].cached /\ reg[t].n = chunks_length
  <2>1. ~(L > 0)
    BY <1>n
  <2>2. ~reg[t].cached
    BY <1>2, <2>1, Zenon
  <2>3. QED
    BY <1>2, <2>2, Zenon
<1>3. /\ step \in [Threads -> {"lock", "node", "load", "store", "done", "delete"}]
      /\ got \in [Threads -> Chunks \union {NoChunk}]
      /\ L \in 0 .. Cardinality(Chunks) /\ Cardinality(Chunks) \in Nat
      /\ chunks_pos_length \in 1 .. MaxRows /\ chunks_length \in 0 .. ChunksSize
      /\ ChunksSize \in Nat \ {0} /\ MaxRows \in Nat \ {0}
    BY <1>a, PoolAssumption, PoolFacts DEF ShapeInv
<1>4. t \in Demand
    BY <1>1, <1>2 DEF Demand
<1>5. \A u \in Threads : u # t => got[u] = NoChunk
    BY <1>a, <1>1, Alone
<1> DEFINE Chained(c) == \E n \in NodeIds : \E i \in DOMAIN nodes[n].chain : nodes[n].chain[i] = c
\* The pool after the step, and the chunk the call has got.
<1> DEFINE Takes(g) ==
             /\ got' = [got EXCEPT ![t] = g]
             /\ ~Chained(g) /\ ~Unused(g)'
             /\ \A c \in Chunks : ~Unused(c) => ~Unused(c)'
             /\ chunks_pos_length' \in 1 .. MaxRows /\ chunks_length' \in 0 .. ChunksSize
             /\ chunk_cache_length' \in 0 .. L
             /\ \A i \in 1 .. chunk_cache_length' : chunk_cache[i] # g
             /\ chunk_cache_length' - Handed' = L - Handed - 1
<1>6. PICK g \in Chunks : Takes(g)
  <2>0. \A n \in NodeIds : \A i \in DOMAIN nodes[n].chain :
           /\ nodes[n].chain[i] \in Chunks /\ ~Unused(nodes[n].chain[i])
           /\ \A j \in 1 .. L : chunk_cache[j] # nodes[n].chain[i]
    BY <1>a, NodeTypes DEF ChunkInv
  <2>1. CASE L > 0
    <3>0. chunk_cache[L] \in Chunks
      BY <1>a, <1>3, <2>1 DEF ChunkInv
    <3> PICK g \in Chunks : g = chunk_cache[L]
      BY <3>0
    <3>1. /\ got' = [got EXCEPT ![t] = g] /\ chunk_cache_length' = L - 1
          /\ UNCHANGED <<chunks_pos_length, chunks_length>>
      BY <1>2, <2>1 DEF StoreChunk
    <3>2. L \in 1 .. L /\ L - 1 \in 0 .. L /\ 1 .. L - 1 \subseteq 1 .. L /\ L \notin 1 .. L - 1
      BY <1>3, <2>1
    <3>3. g \in Chunks /\ ~Unused(g) /\ \A j \in 1 .. L : chunk_cache[j] = g => j = L
      BY <1>a, <3>2 DEF ChunkInv
    <3>4. ~Chained(g)
      BY <2>0, <3>2
    <3>5. \A i \in 1 .. L - 1 : chunk_cache[i] # g
      BY <3>2, <3>3
    <3>6. chunk_cache_length' - Handed' = L - Handed - 1
      BY <1>3, <3>1 DEF Handed
    <3>7. \A c \in Chunks : Unused(c)' = Unused(c)
      BY <3>1 DEF Unused
    <3>8. Takes(g)
      BY <1>3, <3>1, <3>2, <3>3, <3>4, <3>5, <3>6, <3>7
    <3> HIDE DEF Takes
    <3>9. QED
      BY <3>8
  <2>2. CASE L = 0 /\ chunks_length >= ChunksSize
    <3>1. chunks_pos_length + 1 <= MaxRows
      BY <1>a, <1>4, <2>2, ChunkLeft
    <3>2. PICK g \in Chunks : g = <<chunks_pos_length + 1, 0>>
      <4>1. chunks_pos_length + 1 \in 1 .. MaxRows /\ 0 \in 0 .. ChunksSize - 1
        BY <1>3, <3>1
      <4>2. QED
        BY <4>1 DEF Chunks
    <3>3. /\ got' = [got EXCEPT ![t] = g] /\ chunk_cache_length' = 0
          /\ chunks_pos_length' = chunks_pos_length + 1 /\ chunks_length' = 1
      BY <1>n, <2>2, <3>2 DEF StoreChunk
    <3>4. Unused(g) /\ ~Unused(g)'
      BY <1>3, <3>2, <3>3 DEF Unused
    <3>5. \A c \in Chunks : ~Unused(c) => ~Unused(c)'
      BY <1>3, <3>3 DEF Unused, Chunks
    <3>6. chunk_cache_length' - Handed' = L - Handed - 1
      <4>1. chunks_length = ChunksSize
        BY <1>3, <2>2
      <4>2. Handed = (chunks_pos_length - 1) * ChunksSize + ChunksSize
        BY <4>1 DEF Handed
      <4>3. Handed' = (chunks_pos_length' - 1) * ChunksSize + chunks_length'
        BY DEF Handed
      <4>4. chunks_pos_length' - 1 = chunks_pos_length
        BY <1>3, <3>3
      <4>5. Handed' = chunks_pos_length * ChunksSize + 1
        BY <3>3, <4>3, <4>4
      <4>6. QED
        BY <1>3, <2>2, <3>3, <4>2, <4>5
    <3>7. ~Chained(g)
      BY <2>0, <3>4
    <3>8. Takes(g)
      BY <1>3, <2>2, <3>1, <3>3, <3>4, <3>5, <3>6, <3>7
    <3>9. QED
      BY <3>8
  <2>3. CASE L = 0 /\ chunks_length < ChunksSize
    <3>1. PICK g \in Chunks : g = <<chunks_pos_length, chunks_length>>
      <4>1. chunks_pos_length \in 1 .. MaxRows /\ chunks_length \in 0 .. ChunksSize - 1
        BY <1>3, <2>3
      <4>2. QED
        BY <4>1 DEF Chunks
    <3>2. /\ got' = [got EXCEPT ![t] = g] /\ chunk_cache_length' = 0
          /\ chunks_pos_length' = chunks_pos_length /\ chunks_length' = chunks_length + 1
      <4>1. ~(chunks_length >= ChunksSize)
        BY <1>3, <2>3
      <4>2. QED
        BY <1>n, <2>3, <3>1, <4>1 DEF StoreChunk
    <3>3. Unused(g) /\ ~Unused(g)'
      BY <1>3, <3>1, <3>2 DEF Unused
    <3>4. \A c \in Chunks : ~Unused(c) => ~Unused(c)'
      BY <1>3, <3>2 DEF Unused, Chunks
    <3>5. chunk_cache_length' - Handed' = L - Handed - 1
      BY <1>3, <2>3, <3>2 DEF Handed
    <3>6. ~Chained(g)
      BY <2>0, <3>3
    <3>7. Takes(g)
      BY <1>3, <2>3, <3>2, <3>3, <3>4, <3>5, <3>6
    <3>8. QED
      BY <3>7
  <2>4. QED
    BY <1>3, <2>1, <2>2, <2>3
<1>7. got'[t] = g /\ \A u \in Threads : u # t => got'[u] = NoChunk
    BY <1>3, <1>5, <1>6
<1>8. step'[t] = "done" /\ \A u \in Threads : u # t => step'[u] = step[u]
    BY <1>1, <1>3
<1>9. ObjectInv' /\ used' \in [Chunks -> 0 .. ChunkCap]
    BY <1>a, <1>1, <1>6, <1>7, Emptied DEF nodeVars
<1>10. ShapeInv'
  <2>1. got' \in [Threads -> Chunks \union {NoChunk}]
    BY <1>3, <1>6
  <2>2. step' \in [Threads -> {"lock", "node", "load", "store", "done", "delete"}]
    BY <1>1, <1>3
  <2>3. chunk_cache_length' \in 0 .. Cardinality(Chunks)
    BY <1>3, <1>6
  <2>4. QED
    BY <1>a, <1>1, <1>6, <1>9, <2>1, <2>2, <2>3 DEF ShapeInv, nodeVars
<1>11. CallInv'
  <2>1. UNCHANGED <<sync, mine, op, reg>>
    BY <1>1 DEF nodeVars, syncVars
  <2>2. CallAt(t)'
    BY <1>a, <1>1, <1>7, <1>8, <2>1, PoolFacts DEF CallInv, CallAt
  <2>3. \A u \in Threads : u # t => step[u] = "lock"
    BY <1>a, <1>1, Alone
  <2>4. \A u \in Threads : u # t => CallAt(u)'
    BY <1>a, <1>5, <1>7, <1>8, <2>1, <2>3 DEF CallInv, CallAt
  <2>5. QED
    BY <2>2, <2>4 DEF CallInv
<1>12. NodeInv'
    BY <1>a, <1>1, NodeFrame DEF nodeVars
<1>13. ChunkInv'
  <2>1. \A n \in NodeIds : \A i \in DOMAIN nodes[n].chain :
           /\ nodes[n].chain[i] # g /\ nodes[n].chain[i] # NoChunk
           /\ ~Unused(nodes[n].chain[i])'
    <3>1. \A n \in NodeIds : \A i \in DOMAIN nodes[n].chain :
             nodes[n].chain[i] \in Chunks /\ ~Unused(nodes[n].chain[i])
      BY <1>a, NodeTypes DEF ChunkInv
    <3>2. \A c \in Chunks : ~Unused(c) => ~Unused(c)'
      BY <1>6
    <3>3. nodes' = nodes
      BY <1>1 DEF nodeVars
    <3>4. ASSUME NEW n \in NodeIds, NEW i \in DOMAIN nodes[n].chain
          PROVE  ~Unused(nodes[n].chain[i])'
      BY <3>1, <3>2, <3>3
    <3>5. QED
      BY <1>6, <3>1, <3>4, PoolFacts
  <2>2. \A i \in 1 .. chunk_cache_length' :
           /\ i \in 1 .. L /\ chunk_cache[i] \in Chunks /\ chunk_cache[i] # g
           /\ ~Unused(chunk_cache[i])'
    <3>1. \A i \in 1 .. chunk_cache_length' : i \in 1 .. L
      BY <1>3, <1>6
    <3>2. \A i \in 1 .. L : chunk_cache[i] \in Chunks /\ ~Unused(chunk_cache[i])
      BY <1>a DEF ChunkInv
    <3>3. \A c \in Chunks : ~Unused(c) => ~Unused(c)'
      BY <1>6
    <3>4. chunk_cache' = chunk_cache
      BY <1>1
    <3>5. ASSUME NEW i \in 1 .. chunk_cache_length'
          PROVE  ~Unused(chunk_cache[i])'
      BY <3>1, <3>2, <3>3, <3>4
    <3>6. QED
      BY <1>6, <3>1, <3>2, <3>5
  <2>3. Cardinality(Demand') <= Cardinality(Chunks) - Handed' + chunk_cache_length'
    <3>1. Demand' = Demand \ {t}
      BY <1>1, <1>8 DEF Demand
    <3>2. IsFiniteSet(Demand)
      BY ThreadsAssumption, FS_Subset DEF Demand
    <3>3. Cardinality(Demand') = Cardinality(Demand) - 1 /\ Cardinality(Demand) \in Nat
      BY <1>4, <3>1, <3>2, FS_RemoveElement, FS_CardinalityType
    <3>4. Cardinality(Demand) <= Cardinality(Chunks) - Handed + L
      BY <1>a DEF ChunkInv
    <3>5. Handed \in Int /\ Handed' \in Int
      BY <1>3, <1>6 DEF Handed
    <3>6. chunk_cache_length' \in Int /\ L \in Int
      BY <1>3, <1>6
    <3>7. chunk_cache_length' - Handed' = L - Handed - 1
      BY <1>6
    <3>8. Cardinality(Chunks) \in Int
      BY PoolFacts
    <3>9. PICK h \in Int, k \in Int, l \in Int, q \in Int, d \in Int, n \in Int :
             /\ h = Handed /\ k = Handed' /\ l = L /\ q = chunk_cache_length'
             /\ d = Cardinality(Demand) /\ n = Cardinality(Chunks)
      BY <3>3, <3>5, <3>6, <3>8
    <3>10. d <= (n - h) + l /\ q - k = (l - h) - 1
      BY <3>4, <3>7, <3>9
    <3>11. d - 1 <= (n - k) + q
      BY <3>10
    <3>12. QED
      BY <3>3, <3>9, <3>11
  <2>4. \A u \in Threads : got'[u] \in {g, NoChunk} /\ (got'[u] \in Chunks => ~Unused(got[u])')
    <3>1. \A u \in Threads : got'[u] \in {g, NoChunk}
      BY <1>7
    <3>2. ~Unused(g)'
      BY <1>6
    <3>3. QED
      BY <3>1, <3>2, PoolFacts
  <2>5. nodes' = nodes /\ chunk_cache' = chunk_cache
    BY <1>1 DEF nodeVars
  <2>6. \A n, k \in NodeIds : \A i \in DOMAIN nodes[n].chain, j \in DOMAIN nodes[k].chain :
           nodes[n].chain[i] = nodes[k].chain[j] => n = k /\ i = j
    BY <1>a DEF ChunkInv
  <2>7. \A n \in NodeIds : \A i \in DOMAIN nodes[n].chain :
           \A j \in 1 .. L : chunk_cache[j] # nodes[n].chain[i]
    BY <1>a DEF ChunkInv
  <2>8. \A i, j \in 1 .. L : chunk_cache[i] = chunk_cache[j] => i = j
    BY <1>a DEF ChunkInv
  <2> HIDE DEF L
  <2>9. QED
    BY <2>1, <2>2, <2>3, <2>4, <2>5, <2>6, <2>7, <2>8, PoolFacts DEF ChunkInv
<1>14. QED
    BY <1>9, <1>10, <1>11, <1>12, <1>13

\* The call is over: the thread is outside the lock and holds no chunk.
LEMMA ReturnCall ==
    ASSUME LockInv, ShapeInv, CallInv, NEW t \in Threads, Return(t)
    PROVE  /\ op'[t] = "none" /\ step'[t] = "lock"
           /\ \A u \in Threads : u # t => op'[u] = op[u] /\ step'[u] = step[u]
           /\ \A u \in Threads : got'[u] = NoChunk
           /\ op' \in [Threads -> {"none", "add", "grow", "delete"}]
           /\ step' \in [Threads -> {"lock", "node", "load", "store", "done", "delete"}]
           /\ reg' \in [Threads -> [cached : BOOLEAN, n : Nat]]
           /\ got' \in [Threads -> Chunks \union {NoChunk}]
           /\ (\A u \in Threads : u # t => mine'[u] = mine[u]) => CallInv'
<1>1. /\ sync[t] = "in" /\ sync' = [sync EXCEPT ![t] = "out"]
      /\ op' = [op EXCEPT ![t] = "none"] /\ step' = [step EXCEPT ![t] = "lock"]
      /\ got' = [got EXCEPT ![t] = NoChunk] /\ reg' = [reg EXCEPT ![t] = NoReg]
    BY DEF Return, Unlock
<1>2. /\ op \in [Threads -> {"none", "add", "grow", "delete"}]
      /\ step \in [Threads -> {"lock", "node", "load", "store", "done", "delete"}]
      /\ reg \in [Threads -> [cached : BOOLEAN, n : Nat]]
      /\ got \in [Threads -> Chunks \union {NoChunk}]
      /\ sync \in [Threads -> {"out", "try", "in"}]
    BY DEF ShapeInv, LockInv, LockWordInv
<1>3. \A u \in Threads : u # t => step[u] = "lock" /\ got[u] = NoChunk
    BY <1>1, Alone
<1>4. NoReg \in [cached : BOOLEAN, n : Nat]
    BY DEF NoReg
<1>5. reg' \in [Threads -> [cached : BOOLEAN, n : Nat]]
    BY <1>1, <1>2, <1>4
<1>6. /\ op'[t] = "none" /\ step'[t] = "lock" /\ sync'[t] = "out" /\ got'[t] = NoChunk
      /\ \A u \in Threads : u # t => /\ op'[u] = op[u] /\ step'[u] = step[u]
                                     /\ sync'[u] = sync[u] /\ got'[u] = got[u] /\ reg'[u] = reg[u]
    BY <1>1, <1>2
<1>7. ASSUME \A u \in Threads : u # t => mine'[u] = mine[u]
      PROVE  CallInv'
  <2>1. CallAt(t)'
    BY <1>6 DEF CallAt
  <2>2. \A u \in Threads : u # t => CallAt(u)'
    BY <1>3, <1>6, <1>7 DEF CallInv, CallAt
  <2>3. QED
    BY <2>1, <2>2 DEF CallInv
<1>8. op' \in [Threads -> {"none", "add", "grow", "delete"}]
      /\ step' \in [Threads -> {"lock", "node", "load", "store", "done", "delete"}]
      /\ got' \in [Threads -> Chunks \union {NoChunk}]
    BY <1>1, <1>2
<1>9. QED
    BY <1>3, <1>5, <1>6, <1>7, <1>8

\* node_add is over: the node has its first chunk.
LEMMA ReturnNodeStep ==
    ASSUME AllocInv, NEW t \in Threads, ReturnNode(t)
    PROVE  ShapeInv' /\ CallInv' /\ NodeInv' /\ ChunkInv' /\ ObjectInv'
<1>a. LockInv /\ ShapeInv /\ CallInv /\ NodeInv /\ ChunkInv /\ ObjectInv
    BY DEF AllocInv
<1>1. /\ sync[t] = "in" /\ step[t] = "done" /\ op[t] = "add" /\ Return(t)
      /\ UNCHANGED <<poolVars, objectVars, nodes_length, nodes_cache, mine>>
    BY DEF ReturnNode, Inside
<1>2. PICK m \in NodeIds : m = mine[t]
    BY <1>a, <1>1 DEF CallInv, CallAt, ShapeInv
<1>3. PICK g \in Chunks : g = got[t]
    BY <1>a, <1>1 DEF CallInv, CallAt, ShapeInv
<1> DEFINE e == [chain |-> <<g>>, at |-> 1, cache |-> << >>]
<1>4. nodes' = [nodes EXCEPT ![m] = e]
    BY <1>2, <1>3 DEF ReturnNode
<1>5. /\ e \in NodeShape /\ e.chain = <<g>> /\ e.at = 1 /\ e.cache = << >>
      /\ DOMAIN e.chain = 1 .. 1 /\ Len(e.chain) = 1 /\ e.chain[1] = g
      /\ DOMAIN e.cache = {}
    BY DEF NodeShape
<1> HIDE DEF e
<1>6. nodes' \in [NodeIds -> NodeShape] /\ nodes'[m] = e
      /\ \A n \in NodeIds : n # m => nodes'[n] = nodes[n]
    BY <1>a, <1>4, <1>5 DEF ShapeInv
<1>7. \A u \in Threads : u # t => mine[u] # m
    BY <1>a, <1>2, PoolFacts DEF NodeInv
<1>8. nodes[m] = EmptyNode /\ ~Owns(t)
  <2>1. ~Owns(t)
    BY <1>1 DEF Owns
  <2>2. QED
    BY <1>a, <1>7, <2>1 DEF NodeInv
<1>9. /\ op'[t] = "none" /\ \A u \in Threads : u # t => op'[u] = op[u] /\ step'[u] = step[u]
      /\ \A u \in Threads : got'[u] = NoChunk
    BY <1>a, <1>1, ReturnCall
<1>10. ShapeInv'
  <2>1. /\ op' \in [Threads -> {"none", "add", "grow", "delete"}]
        /\ step' \in [Threads -> {"lock", "node", "load", "store", "done", "delete"}]
        /\ reg' \in [Threads -> [cached : BOOLEAN, n : Nat]]
        /\ got' \in [Threads -> Chunks \union {NoChunk}]
    BY <1>a, <1>1, ReturnCall
  <2>2. QED
    BY <1>a, <1>1, <1>6, <2>1 DEF ShapeInv, poolVars, objectVars
<1>11. CallInv'
    BY <1>a, <1>1, ReturnCall
<1>12. NodeInv'
  <2>1. UNCHANGED <<nodes_length, nodes_cache, mine>>
    BY <1>1
  <2>2. Owns(t)' /\ \A u \in Threads : u # t => (Owns(u)' <=> Owns(u))
    BY <1>2, <1>9, <2>1, PoolFacts DEF Owns
  <2>3. \A u \in Threads : u # t /\ Owns(u) => mine[u] \in NodeIds /\ mine[u] # m
    BY <1>a, <1>7 DEF Owns, ShapeInv
  <2>4. \A u \in Threads : u # t /\ Owns(u) => Node(u)' = Node(u)
    BY <1>6, <2>1, <2>3 DEF Node
  <2>5. \A u \in Threads : u = t => Node(u)' = e
    BY <1>2, <1>6, <2>1 DEF Node
  <2>6. ASSUME NEW u \in Threads, Owns(u)'
        PROVE  /\ Node(u)'.at \in 1 .. Len(Node(u)'.chain)
               /\ op'[u] = "grow" => Node(u)'.at = Len(Node(u)'.chain)
    <3>1. CASE u = t
      <4>1. Node(u)' = e /\ op'[u] = "none"
        BY <1>9, <2>5, <3>1
      <4>2. Node(u)'.at = 1 /\ Len(Node(u)'.chain) = 1
        BY <1>5, <4>1, Zenon
      <4>3. 1 \in 1 .. 1
        OBVIOUS
      <4>4. QED
        BY <4>1, <4>2, <4>3
    <3>2. CASE u # t
      BY <1>a, <1>9, <2>2, <2>4, <2>6, <3>2 DEF NodeInv
    <3>3. QED
      BY <3>1, <3>2
  <2>7. ASSUME NEW n \in NodeIds, \A u \in Threads : Owns(u)' => mine'[u] # n
        PROVE  nodes'[n] = EmptyNode
    <3>1. n # m
      BY <1>2, <2>1, <2>2, <2>7
    <3>2. \A u \in Threads : Owns(u) => mine[u] # n
      BY <1>8, <2>1, <2>2, <2>7
    <3>3. QED
      BY <1>a, <1>6, <3>1, <3>2 DEF NodeInv
  <2>8. QED
    BY <1>a, <2>1, <2>6, <2>7 DEF NodeInv
<1>13. ChunkInv'
  <2>1. UNCHANGED poolVars
    BY <1>1
  <2>2. Demand' = Demand
    BY <1>1, <1>9 DEF Demand
  <2>3. /\ ~Unused(g) /\ \A n \in NodeIds : \A i \in DOMAIN nodes[n].chain : nodes[n].chain[i] # g
        /\ \A i \in 1 .. chunk_cache_length : chunk_cache[i] # g
    BY <1>a, <1>3 DEF ChunkInv
  <2>4. \A c \in Chunks : Unused(c)' <=> Unused(c)
    BY <2>1 DEF Unused, poolVars
  <2>5. \A n \in NodeIds : \A i \in DOMAIN nodes'[n].chain :
           \/ n = m /\ i = 1 /\ nodes'[n].chain[i] = g
           \/ n # m /\ nodes'[n] = nodes[n] /\ i \in DOMAIN nodes[n].chain
    BY <1>5, <1>6
  <2>6. \A n, k \in NodeIds : \A i \in DOMAIN nodes'[n].chain, j \in DOMAIN nodes'[k].chain :
           nodes'[n].chain[i] = nodes'[k].chain[j] => n = k /\ i = j
    BY <1>a, <2>3, <2>5 DEF ChunkInv
  <2>7. ASSUME NEW n \in NodeIds, NEW i \in DOMAIN nodes'[n].chain
        PROVE  /\ nodes'[n].chain[i] \in Chunks /\ ~Unused(nodes[n].chain[i])'
               /\ \A j \in 1 .. chunk_cache_length : chunk_cache[j] # nodes'[n].chain[i]
    <3>1. CASE n = m
      BY <2>3, <2>4, <2>5, <3>1
    <3>2. CASE n # m
      <4>1. /\ nodes'[n].chain = nodes[n].chain /\ nodes[n].chain[i] \in Chunks
            /\ ~Unused(nodes[n].chain[i])
            /\ \A j \in 1 .. chunk_cache_length : chunk_cache[j] # nodes[n].chain[i]
        BY <1>a, <2>5, <2>7, <3>2, NodeTypes DEF ChunkInv
      <4>2. QED
        BY <2>4, <4>1
    <3>3. QED
      BY <3>1, <3>2
  <2>8. \A i \in 1 .. chunk_cache_length :
           /\ chunk_cache[i] \in Chunks /\ ~Unused(chunk_cache[i])'
           /\ \A j \in 1 .. chunk_cache_length : chunk_cache[i] = chunk_cache[j] => i = j
    <3>1. UNCHANGED <<chunk_cache, chunks_pos_length, chunks_length>>
      BY <2>1 DEF poolVars
    <3>2. QED
      BY <1>a, <3>1 DEF ChunkInv, Unused
  <2>9. Cardinality(Demand') <= Cardinality(Chunks) - Handed' + chunk_cache_length'
    BY <1>a, <2>1, <2>2 DEF ChunkInv, Handed, poolVars
  <2>10. UNCHANGED <<chunk_cache, chunk_cache_length>>
    BY <2>1 DEF poolVars
  <2>11. QED
    BY <1>9, <2>6, <2>7, <2>8, <2>9, <2>10, PoolFacts DEF ChunkInv
<1>14. ObjectInv'
  <2>1. UNCHANGED <<used, header, handed>>
    BY <1>1 DEF objectVars
  <2>2. DOMAIN nodes[m].chain = {}
    BY <1>8 DEF EmptyNode
  <2>3. \A x \in Objects, n \in NodeIds : LiesIn(x, n) => n # m /\ LiesIn(x, n)'
    BY <1>6, <2>1, <2>2 DEF LiesIn
  <2>4. ASSUME NEW n \in NodeIds, NEW i \in DOMAIN nodes'[n].cache
        PROVE  /\ LiesIn(nodes[n].cache[i], n)'
               /\ handed'[nodes'[n].cache[i]] = 0
               /\ \A j \in DOMAIN nodes'[n].cache :
                     nodes'[n].cache[i] = nodes'[n].cache[j] => i = j
    <3>1. n # m /\ nodes'[n] = nodes[n]
      BY <1>5, <1>6, <2>4
    <3>2. nodes[n].cache[i] \in Objects
      BY <1>a, <2>4, <3>1, NodeTypes
    <3>3. /\ LiesIn(nodes[n].cache[i], n) /\ handed[nodes[n].cache[i]] = 0
          /\ \A j \in DOMAIN nodes[n].cache : nodes[n].cache[i] = nodes[n].cache[j] => i = j
      BY <1>a, <2>4, <3>1 DEF ObjectInv
    <3>4. \A x \in Objects : LiesIn(x, n) => LiesIn(x, n)'
      BY <2>3
    <3>5. QED
      BY <2>1, <3>1, <3>2, <3>3, <3>4
  <2>5. QED
    BY <1>a, <2>1, <2>3, <2>4 DEF ObjectInv
<1>15. QED
    BY <1>10, <1>11, <1>12, <1>13, <1>14

\* malloc with a new chunk is over: the chunk is the last one of the chain, and
\* its first object is the caller's.
LEMMA ReturnChunkStep ==
    ASSUME AllocInv, NEW t \in Threads, ReturnChunk(t)
    PROVE  ShapeInv' /\ CallInv' /\ NodeInv' /\ ChunkInv' /\ ObjectInv'
<1>a. LockInv /\ ShapeInv /\ CallInv /\ NodeInv /\ ChunkInv /\ ObjectInv
    BY DEF AllocInv
<1>1. /\ sync[t] = "in" /\ step[t] = "done" /\ op[t] = "grow" /\ Return(t)
      /\ UNCHANGED <<poolVars, nodes_length, nodes_cache, mine>>
    BY DEF ReturnChunk, Inside
<1>2. PICK m \in NodeIds : m = mine[t]
    BY <1>a, <1>1 DEF CallInv, CallAt, ShapeInv
<1>3. PICK g \in Chunks : g = got[t]
    BY <1>a, <1>1 DEF CallInv, CallAt, ShapeInv
<1>4. PICK o \in Objects : o = <<g, 0>>
  <2>1. 0 \in 0 .. ChunkCap - 1
    BY PoolAssumption
  <2>2. <<g, 0>> \in Objects
    BY <2>1 DEF Objects
  <2>3. QED
    BY <2>2
<1>5. PICK s \in Seq(Chunks) : s = nodes[m].chain
    BY <1>a, NodeTypes
<1>6. PICK L \in Nat : L = Len(s)
    BY <1>5, LenProperties
<1>7. Owns(t) /\ nodes[m].at = L /\ L >= 1
  <2>1. Owns(t)
    BY <1>1, <1>2, PoolFacts DEF Owns
  <2>2. Node(t).at \in 1 .. Len(Node(t).chain) /\ Node(t).at = Len(Node(t).chain)
    BY <1>a, <1>1, <2>1 DEF NodeInv
  <2>3. QED
    BY <1>2, <1>5, <1>6, <2>1, <2>2 DEF Node
<1>8. /\ nodes' = [nodes EXCEPT ![m].chain = Append(s, g), ![m].at = @ + 1]
      /\ used' = [used EXCEPT ![g] = 1]
      /\ header' = [header EXCEPT ![o] = m]
      /\ handed' = [handed EXCEPT ![o] = @ + 1]
    BY <1>2, <1>3, <1>4, <1>5 DEF ReturnChunk
<1>9. /\ Append(s, g) \in Seq(Chunks) /\ DOMAIN s = 1 .. L
      /\ Len(Append(s, g)) = L + 1 /\ DOMAIN Append(s, g) = 1 .. L + 1
      /\ \A i \in 1 .. L : Append(s, g)[i] = s[i]
      /\ Append(s, g)[L + 1] = g
    BY <1>6, AppendOne
<1>10. /\ nodes'[m].chain = Append(s, g) /\ nodes'[m].at = L + 1
       /\ nodes'[m].cache = nodes[m].cache
       /\ \A n \in NodeIds : n # m => nodes'[n] = nodes[n]
       /\ nodes' \in [NodeIds -> NodeShape]
  <2>1. nodes \in [NodeIds -> NodeShape] /\ nodes[m].at + 1 = L + 1 /\ L + 1 \in Nat
    BY <1>a, <1>7 DEF ShapeInv
  <2>2. /\ nodes'[m].chain = Append(s, g) /\ nodes'[m].at = L + 1
        /\ nodes'[m].cache = nodes[m].cache
        /\ \A n \in NodeIds : n # m => nodes'[n] = nodes[n]
    BY <1>8, <2>1 DEF NodeShape
  <2>3. nodes' \in [NodeIds -> NodeShape]
    BY <1>8, <1>9, <2>1 DEF NodeShape
  <2>4. QED
    BY <2>2, <2>3
<1>11. /\ op'[t] = "none" /\ \A u \in Threads : u # t => op'[u] = op[u] /\ step'[u] = step[u]
       /\ \A u \in Threads : got'[u] = NoChunk
    BY <1>a, <1>1, ReturnCall
<1>12. /\ ~Unused(g) /\ \A n \in NodeIds : \A i \in DOMAIN nodes[n].chain : nodes[n].chain[i] # g
       /\ \A i \in 1 .. chunk_cache_length : chunk_cache[i] # g
    BY <1>a, <1>3 DEF ChunkInv
<1>u. /\ used' \in [Chunks -> 0 .. ChunkCap] /\ used'[g] = 1
      /\ \A c \in Chunks : c # g => used'[c] = used[c]
  <2>1. 1 \in 0 .. ChunkCap
    BY PoolAssumption
  <2>2. QED
    BY <1>a, <1>8, <2>1 DEF ShapeInv
<1>h. /\ handed' \in [Objects -> Nat] /\ handed'[o] = handed[o] + 1
      /\ \A x \in Objects : x # o => handed'[x] = handed[x] /\ header'[x] = header[x]
      /\ header' \in [Objects -> NodeIds \union {None}] /\ header'[o] = m
    BY <1>a, <1>8 DEF ShapeInv
<1>13. ShapeInv'
  <2>1. /\ op' \in [Threads -> {"none", "add", "grow", "delete"}]
        /\ step' \in [Threads -> {"lock", "node", "load", "store", "done", "delete"}]
        /\ reg' \in [Threads -> [cached : BOOLEAN, n : Nat]]
        /\ got' \in [Threads -> Chunks \union {NoChunk}]
    BY <1>a, <1>1, ReturnCall
  <2>2. QED
    BY <1>a, <1>h, <1>u, <1>1, <1>10, <2>1 DEF ShapeInv, poolVars
<1>14. CallInv'
    BY <1>a, <1>1, ReturnCall
<1>15. NodeInv'
  <2>1. UNCHANGED <<nodes_length, nodes_cache, mine>>
    BY <1>1
  <2>2. \A u \in Threads : Owns(u)' <=> Owns(u)
    BY <1>7, <1>11, <2>1 DEF Owns
  <2>3. ASSUME NEW u \in Threads, Owns(u)
        PROVE  /\ Node(u)'.at \in 1 .. Len(Node(u)'.chain)
               /\ op'[u] = "grow" => Node(u)'.at = Len(Node(u)'.chain)
    <3>1. CASE u = t
      <4>1. Node(u)'.at = L + 1 /\ Len(Node(u)'.chain) = L + 1
        BY <1>2, <1>9, <1>10, <2>1, <3>1 DEF Node
      <4>2. L + 1 \in 1 .. L + 1
        OBVIOUS
      <4>3. QED
        BY <4>1, <4>2
    <3>2. CASE u # t
      <4>1. mine[u] \in NodeIds /\ mine[u] # m
        BY <1>a, <1>2, <2>3, <3>2, PoolFacts DEF NodeInv, ShapeInv, Owns
      <4>2. Node(u)' = Node(u)
        BY <1>10, <2>1, <4>1 DEF Node
      <4>3. QED
        BY <1>a, <1>11, <2>3, <3>2, <4>2 DEF NodeInv
    <3>3. QED
      BY <3>1, <3>2
  <2>4. ASSUME NEW n \in NodeIds, \A u \in Threads : Owns(u)' => mine'[u] # n
        PROVE  nodes'[n] = EmptyNode
    <3>1. n # m /\ \A u \in Threads : Owns(u) => mine[u] # n
      BY <1>2, <1>7, <2>1, <2>2, <2>4
    <3>2. QED
      BY <1>a, <1>10, <3>1 DEF NodeInv
  <2>5. QED
    BY <1>a, <2>1, <2>2, <2>3, <2>4 DEF NodeInv
<1>16. ChunkInv'
  <2>1. UNCHANGED <<chunks_pos_length, chunks_length, chunk_cache, chunk_cache_length>>
    BY <1>1 DEF poolVars
  <2>2. Demand' = Demand
    BY <1>1, <1>11 DEF Demand
  <2>3. \A c \in Chunks : Unused(c)' <=> Unused(c)
    BY <2>1 DEF Unused
  <2>4. \A n \in NodeIds : \A i \in DOMAIN nodes'[n].chain :
           \/ n = m /\ i = L + 1 /\ nodes'[n].chain[i] = g
           \/ /\ i \in DOMAIN nodes[n].chain /\ nodes'[n].chain[i] = nodes[n].chain[i]
              /\ n = m => i # L + 1
    <3>1. \A i \in 1 .. L + 1 : i = L + 1 \/ (i \in 1 .. L /\ i # L + 1)
      OBVIOUS
    <3>2. \A i \in DOMAIN nodes'[m].chain :
             \/ i = L + 1 /\ nodes'[m].chain[i] = g
             \/ i \in DOMAIN nodes[m].chain /\ nodes'[m].chain[i] = nodes[m].chain[i] /\ i # L + 1
      BY <1>5, <1>9, <1>10, <3>1
    <3>3. QED
      BY <1>10, <3>2
  <2>5. \A n, k \in NodeIds : \A i \in DOMAIN nodes'[n].chain, j \in DOMAIN nodes'[k].chain :
           nodes'[n].chain[i] = nodes'[k].chain[j] => n = k /\ i = j
    BY <1>a, <1>12, <2>4 DEF ChunkInv
  <2>6. ASSUME NEW n \in NodeIds, NEW i \in DOMAIN nodes'[n].chain
        PROVE  /\ nodes'[n].chain[i] \in Chunks /\ ~Unused(nodes[n].chain[i])'
               /\ \A j \in 1 .. chunk_cache_length : chunk_cache[j] # nodes'[n].chain[i]
    <3>1. CASE nodes'[n].chain[i] = g
      BY <1>12, <2>3, <3>1
    <3>2. CASE i \in DOMAIN nodes[n].chain /\ nodes'[n].chain[i] = nodes[n].chain[i]
      <4>1. /\ nodes[n].chain[i] \in Chunks /\ ~Unused(nodes[n].chain[i])
            /\ \A j \in 1 .. chunk_cache_length : chunk_cache[j] # nodes[n].chain[i]
        BY <1>a, <3>2, NodeTypes DEF ChunkInv
      <4>2. QED
        BY <2>3, <3>2, <4>1
    <3>3. QED
      BY <2>4, <3>1, <3>2
  <2>7. \A i \in 1 .. chunk_cache_length :
           /\ chunk_cache[i] \in Chunks /\ ~Unused(chunk_cache[i])'
           /\ \A j \in 1 .. chunk_cache_length : chunk_cache[i] = chunk_cache[j] => i = j
    BY <1>a, <2>1 DEF ChunkInv, Unused
  <2>8. Cardinality(Demand') <= Cardinality(Chunks) - Handed' + chunk_cache_length'
    BY <1>a, <2>1, <2>2 DEF ChunkInv, Handed
  <2>9. QED
    BY <1>11, <2>1, <2>5, <2>6, <2>7, <2>8, PoolFacts DEF ChunkInv
<1>17. \A x \in Objects, n \in NodeIds : LiesIn(x, n) => x # o /\ LiesIn(x, n)'
  <2> SUFFICES ASSUME NEW x \in Objects, NEW n \in NodeIds, LiesIn(x, n)
               PROVE  x # o /\ LiesIn(x, n)'
    OBVIOUS
  <2>1. PICK i \in 1 .. nodes[n].at : i \in DOMAIN nodes[n].chain /\ nodes[n].chain[i] = x[1]
    BY DEF LiesIn
  <2>2. x[1] # g
    BY <1>12, <2>1
  <2>3. x # o /\ x[1] \in Chunks
    BY <1>4, <2>2 DEF Objects
  <2>4. header'[x] = n /\ x[2] < used'[x[1]]
    BY <1>h, <1>u, <2>2, <2>3 DEF LiesIn
  <2>5. i \in 1 .. nodes'[n].at /\ i \in DOMAIN nodes'[n].chain /\ nodes'[n].chain[i] = x[1]
    <3>1. CASE n = m
      <4>1. i \in 1 .. L /\ i \in 1 .. L + 1
        BY <1>5, <1>9, <2>1, <3>1
      <4>2. QED
        BY <1>5, <1>9, <1>10, <2>1, <3>1, <4>1
    <3>2. CASE n # m
      BY <1>10, <2>1, <3>2
    <3>3. QED
      BY <3>1, <3>2
  <2>6. QED
    BY <2>3, <2>4, <2>5 DEF LiesIn
<1>18. LiesIn(o, m)'
  <2>1. o[1] = g /\ o[2] = 0 /\ L + 1 \in 1 .. L + 1
    BY <1>4
  <2>2. QED
    BY <1>h, <1>u, <1>9, <1>10, <2>1 DEF LiesIn
<1>19. handed[o] = 0
  <2>1. handed[o] > 0 => header[o] \in NodeIds /\ LiesIn(o, header[o])
    BY <1>a DEF ObjectInv
  <2>2. ~(handed[o] > 0)
    BY <1>17, <2>1
  <2>3. QED
    BY <1>a, <2>2 DEF ShapeInv
<1>20. ObjectInv'
  <2>1. ASSUME NEW x \in Objects
        PROVE  /\ handed'[x] <= 1
               /\ handed'[x] > 0 => header'[x] \in NodeIds /\ LiesIn(x, header[x])'
    <3>1. CASE x = o
      <4>1. handed'[x] = 1 /\ header'[x] = m
        BY <1>19, <1>h, <3>1
      <4>2. QED
        BY <4>1, <1>18, <3>1
    <3>2. CASE x # o
      BY <1>a, <1>h, <1>17, <3>2 DEF ObjectInv
    <3>3. QED
      BY <3>1, <3>2
  <2>2. \A n \in NodeIds : nodes'[n].cache = nodes[n].cache
    BY <1>10
  <2>3. ASSUME NEW n \in NodeIds, NEW i \in DOMAIN nodes[n].cache
        PROVE  /\ LiesIn(nodes[n].cache[i], n)'
               /\ handed'[nodes[n].cache[i]] = 0
    <3>1. nodes[n].cache[i] \in Objects
      BY <1>a, NodeTypes
    <3>2. LiesIn(nodes[n].cache[i], n) /\ handed[nodes[n].cache[i]] = 0
      BY <1>a DEF ObjectInv
    <3>3. \A x \in Objects : LiesIn(x, n) /\ handed[x] = 0 => LiesIn(x, n)' /\ handed'[x] = 0
      BY <1>17, <1>h
    <3>4. QED
      BY <2>2, <3>1, <3>2, <3>3
  <2>4. QED
    BY <1>a, <2>1, <2>2, <2>3 DEF ObjectInv
<1>21. QED
    BY <1>13, <1>14, <1>15, <1>16, <1>20

\* node_delete: the chain goes to the cache of chunks and the index to that of
\* nodes.
LEMMA DeleteNodeStep ==
    ASSUME AllocInv, NEW t \in Threads, DeleteNode(t)
    PROVE  ShapeInv' /\ CallInv' /\ NodeInv' /\ ChunkInv' /\ ObjectInv'
<1>a. LockInv /\ ShapeInv /\ CallInv /\ NodeInv /\ ChunkInv /\ ObjectInv
    BY DEF AllocInv
<1>1. /\ sync[t] = "in" /\ step[t] = "delete" /\ Return(t)
      /\ UNCHANGED <<chunks_pos_length, chunks_length, nodes_length, used, header>>
    BY DEF DeleteNode, Inside
<1>2. op[t] = "delete" /\ mine[t] # None
    BY <1>a, <1>1 DEF CallInv, CallAt
<1>3. PICK m \in NodeIds : m = mine[t]
    BY <1>a, <1>2 DEF ShapeInv
<1>4. PICK s \in Seq(Chunks) : s = nodes[m].chain
    BY <1>a, NodeTypes
<1>5. PICK k \in Nat : k = Len(s)
    BY <1>4, LenProperties
<1>6. PICK L \in Nat : L = chunk_cache_length
    BY <1>a, PoolFacts DEF ShapeInv
<1>7. PICK q \in Seq(NodeIds) : q = nodes_cache
    BY <1>a DEF ShapeInv
<1>8. /\ chunk_cache' = [i \in DOMAIN chunk_cache |->
                           IF i - L \in DOMAIN Reverse(s) THEN Reverse(s)[i - L] ELSE chunk_cache[i]]
      /\ chunk_cache_length' = L + Len(Reverse(s))
      /\ nodes' = [nodes EXCEPT ![m] = EmptyNode]
      /\ nodes_cache' = Append(q, m)
      /\ mine' = [mine EXCEPT ![t] = None]
      /\ handed' = [o \in Objects |-> IF header[o] = m THEN 0 ELSE handed[o]]
    BY <1>3, <1>4, <1>6, <1>7 DEF DeleteNode, Node
<1>9. /\ DOMAIN s = 1 .. k /\ Len(Reverse(s)) = k /\ DOMAIN Reverse(s) = 1 .. k
      /\ \A i \in 1 .. k : Reverse(s)[i] = s[k - i + 1] /\ k - i + 1 \in 1 .. k
      /\ \A i \in 1 .. k : s[i] \in Chunks
    BY <1>5, ReverseAll, ElementOfSeq
<1>10. chunk_cache_length' = L + k /\ L + k <= Cardinality(Chunks)
  <2>1. chunk_cache_length + Len(nodes[m].chain) <= Cardinality(Chunks)
    BY <1>a, CacheRoom
  <2>2. QED
    BY <1>4, <1>5, <1>6, <1>8, <1>9, <2>1
<1>11. \A i \in 1 .. L + k :
          \/ i \in 1 .. L /\ chunk_cache'[i] = chunk_cache[i]
          \/ /\ i \notin 1 .. L /\ k - (i - L) + 1 \in 1 .. k
             /\ chunk_cache'[i] = s[k - (i - L) + 1]
  <2> SUFFICES ASSUME NEW i \in 1 .. L + k
               PROVE  \/ i \in 1 .. L /\ chunk_cache'[i] = chunk_cache[i]
                      \/ /\ i \notin 1 .. L /\ k - (i - L) + 1 \in 1 .. k
                         /\ chunk_cache'[i] = s[k - (i - L) + 1]
    OBVIOUS
  <2>1. i \in DOMAIN chunk_cache
    <3>1. DOMAIN chunk_cache = 1 .. Cardinality(Chunks) /\ Cardinality(Chunks) \in Nat
      BY <1>a, PoolFacts DEF ShapeInv
    <3>2. QED
      BY <1>10, <3>1
  <2>2. CASE i <= L
    <3>1. i \in 1 .. L /\ i - L \notin 1 .. k
      BY <2>2
    <3>2. QED
      BY <1>8, <1>9, <2>1, <3>1
  <2>3. CASE i > L
    <3>1. i \notin 1 .. L /\ i - L \in 1 .. k
      BY <2>3
    <3>2. QED
      BY <1>8, <1>9, <2>1, <3>1
  <2>4. QED
    BY <2>2, <2>3
<1>12. /\ nodes' \in [NodeIds -> NodeShape] /\ nodes'[m] = EmptyNode
       /\ DOMAIN nodes'[m].chain = {} /\ DOMAIN nodes'[m].cache = {}
       /\ \A n \in NodeIds : n # m => nodes'[n] = nodes[n]
  <2>1. EmptyNode \in NodeShape /\ DOMAIN EmptyNode.chain = {} /\ DOMAIN EmptyNode.cache = {}
    BY DEF EmptyNode, NodeShape
  <2>2. QED
    BY <1>a, <1>8, <2>1 DEF ShapeInv
<1>13. mine'[t] = None /\ \A u \in Threads : u # t => mine'[u] = mine[u] /\ mine[u] # m
    BY <1>a, <1>3, <1>8, PoolFacts DEF ShapeInv, NodeInv
<1>14. /\ op'[t] = "none" /\ \A u \in Threads : u # t => op'[u] = op[u] /\ step'[u] = step[u]
       /\ \A u \in Threads : got'[u] = NoChunk
    BY <1>a, <1>1, ReturnCall
<1>15. ShapeInv'
  <2>1. /\ op' \in [Threads -> {"none", "add", "grow", "delete"}]
        /\ step' \in [Threads -> {"lock", "node", "load", "store", "done", "delete"}]
        /\ reg' \in [Threads -> [cached : BOOLEAN, n : Nat]]
        /\ got' \in [Threads -> Chunks \union {NoChunk}]
    BY <1>a, <1>1, ReturnCall
  <2>2. handed' \in [Objects -> Nat]
    BY <1>a, <1>8 DEF ShapeInv
  <2>3. mine' \in [Threads -> NodeIds \union {None}]
    BY <1>a, <1>8 DEF ShapeInv
  <2>4. nodes_cache' \in Seq(NodeIds)
    BY <1>8, AppendOne
  <2>5. chunk_cache' \in [1 .. Cardinality(Chunks) -> Chunks \union {NoChunk}]
    <3>1. chunk_cache \in [1 .. Cardinality(Chunks) -> Chunks \union {NoChunk}]
      BY <1>a DEF ShapeInv
    <3>2. \A j \in DOMAIN Reverse(s) : Reverse(s)[j] \in Chunks
      BY <1>9
    <3>3. QED
      BY <1>8, <3>1, <3>2
  <2>6. chunk_cache_length' \in 0 .. Cardinality(Chunks)
    BY <1>10, PoolFacts
  <2>7. QED
    BY <1>a, <1>1, <1>12, <2>1, <2>2, <2>3, <2>4, <2>5, <2>6 DEF ShapeInv
<1>16. CallInv'
    BY <1>a, <1>1, <1>13, ReturnCall
<1>17. NodeInv'
  <2>1. /\ Len(q) \in Nat /\ DOMAIN q = 1 .. Len(q) /\ DOMAIN nodes_cache' = 1 .. Len(q) + 1
        /\ \A i \in 1 .. Len(q) : nodes_cache'[i] = q[i]
        /\ nodes_cache'[Len(q) + 1] = m
    BY <1>8, AppendOne
  <2>2. \A i \in DOMAIN nodes_cache' :
           \/ i \in DOMAIN q /\ nodes_cache'[i] = q[i]
           \/ i = Len(q) + 1 /\ nodes_cache'[i] = m
    BY <2>1
  <2>3. \A i \in DOMAIN q : /\ q[i] < nodes_length /\ q[i] # m
                            /\ \A u \in Threads : mine[u] # q[i]
                            /\ \A j \in DOMAIN q : q[i] = q[j] => i = j
    BY <1>a, <1>3, <1>7 DEF NodeInv
  <2>4. \A u, v \in Threads : mine'[u] = mine'[v] /\ mine'[u] # None => u = v
    BY <1>a, <1>13 DEF NodeInv
  <2>5. \A u \in Threads : mine'[u] < nodes_length'
    <3>1. None < nodes_length
      BY <1>a, PoolFacts DEF ShapeInv, None
    <3>2. \A u \in Threads : mine[u] < nodes_length
      BY <1>a DEF NodeInv
    <3>3. QED
      BY <1>1, <1>13, <3>1, <3>2
  <2>6. m < nodes_length
    BY <1>a, <1>3 DEF NodeInv
  <2>7. \A i \in DOMAIN nodes_cache' : nodes_cache'[i] < nodes_length'
    BY <1>1, <2>2, <2>3, <2>6
  <2>8. \A i \in DOMAIN nodes_cache', u \in Threads : mine'[u] # nodes_cache'[i]
    <3>1. \A i \in DOMAIN q : q[i] # None
      <4>1. \A i \in DOMAIN q : q[i] \in NodeIds
        BY <2>1, ElementOfSeq
      <4>2. QED
        BY <4>1, PoolFacts
    <3>2. QED
      BY <1>13, <2>2, <2>3, <3>1, PoolFacts
  <2>9. \A i, j \in DOMAIN nodes_cache' : nodes_cache'[i] = nodes_cache'[j] => i = j
    BY <2>2, <2>3
  <2>10. ASSUME NEW n \in NodeIds, n < nodes_length'
         PROVE  \/ \E u \in Threads : mine'[u] = n
                \/ \E i \in DOMAIN nodes_cache' : nodes_cache'[i] = n
    <3>1. CASE n = m
      BY <2>1, <3>1
    <3>2. CASE n # m
      <4>1. (\E u \in Threads : mine[u] = n) \/ \E i \in DOMAIN q : q[i] = n
        BY <1>a, <1>1, <1>7, <2>10 DEF NodeInv
      <4>2. \A i \in DOMAIN q : i \in DOMAIN nodes_cache' /\ nodes_cache'[i] = q[i]
        BY <2>1
      <4>3. QED
        BY <1>3, <1>13, <3>2, <4>1, <4>2
    <3>3. QED
      BY <3>1, <3>2
  <2>11. ~Owns(t)' /\ \A u \in Threads : u # t => (Owns(u)' <=> Owns(u))
    BY <1>13, <1>14 DEF Owns
  <2>12. ASSUME NEW u \in Threads, Owns(u)'
         PROVE  /\ Node(u)'.at \in 1 .. Len(Node(u)'.chain)
                /\ op'[u] = "grow" => Node(u)'.at = Len(Node(u)'.chain)
    <3>1. u # t /\ Owns(u) /\ mine[u] \in NodeIds
      BY <1>a, <2>11, <2>12 DEF Owns, ShapeInv
    <3>2. Node(u)' = Node(u)
      BY <1>12, <1>13, <3>1 DEF Node
    <3>3. QED
      BY <1>a, <1>14, <3>1, <3>2 DEF NodeInv
  <2>13. ASSUME NEW n \in NodeIds, \A u \in Threads : Owns(u)' => mine'[u] # n
         PROVE  nodes'[n] = EmptyNode
    <3>1. CASE n = m
      BY <1>12, <3>1
    <3>2. CASE n # m
      <4>1. \A u \in Threads : Owns(u) => mine[u] # n
        BY <1>3, <1>13, <2>11, <2>13, <3>2
      <4>2. QED
        BY <1>a, <1>12, <3>2, <4>1 DEF NodeInv
    <3>3. QED
      BY <3>1, <3>2
  <2>14. QED
    BY <2>4, <2>5, <2>7, <2>8, <2>9, <2>10, <2>12, <2>13 DEF NodeInv
<1>18. ChunkInv'
  <2>1. UNCHANGED <<chunks_pos_length, chunks_length>>
    BY <1>1
  <2>2. Demand' = Demand
    BY <1>2, <1>14 DEF Demand
  <2>3. \A c \in Chunks : Unused(c)' <=> Unused(c)
    BY <2>1 DEF Unused
  <2>4. \A n \in NodeIds : \A i \in DOMAIN nodes'[n].chain : n # m /\ nodes'[n] = nodes[n]
    BY <1>12
  <2>5. /\ \A n, h \in NodeIds : \A i \in DOMAIN nodes[n].chain, j \in DOMAIN nodes[h].chain :
             nodes[n].chain[i] = nodes[h].chain[j] => n = h /\ i = j
        /\ \A n \in NodeIds : \A i \in DOMAIN nodes[n].chain :
             /\ nodes[n].chain[i] \in Chunks /\ ~Unused(nodes[n].chain[i])
             /\ \A j \in 1 .. L : chunk_cache[j] # nodes[n].chain[i]
        /\ \A i \in 1 .. L : /\ chunk_cache[i] \in Chunks /\ ~Unused(chunk_cache[i])
                             /\ \A j \in 1 .. L : chunk_cache[i] = chunk_cache[j] => i = j
    BY <1>a, <1>6, NodeTypes, ZenonT(60) DEF ChunkInv
  <2>6. \A i \in 1 .. k : /\ s[i] \in Chunks /\ ~Unused(s[i])
                          /\ \A j \in 1 .. k : s[i] = s[j] => i = j
                          /\ \A j \in 1 .. L : chunk_cache[j] # s[i]
                          /\ \A n \in NodeIds : n # m => \A j \in DOMAIN nodes[n].chain :
                                nodes[n].chain[j] # s[i]
    BY <1>4, <1>9, <2>5
  <2>7. \A n \in NodeIds : \A i \in DOMAIN nodes'[n].chain :
           /\ nodes'[n].chain[i] \in Chunks /\ ~Unused(nodes'[n].chain[i])
           /\ \A j \in 1 .. L + k : chunk_cache'[j] # nodes'[n].chain[i]
    BY <1>11, <2>4, <2>5, <2>6
  <2>8. \A i \in 1 .. L + k : chunk_cache'[i] \in Chunks /\ ~Unused(chunk_cache'[i])
    BY <1>11, <2>5, <2>6
  <2>9. \A i, j \in 1 .. L + k : chunk_cache'[i] = chunk_cache'[j] => i = j
    <3> SUFFICES ASSUME NEW i \in 1 .. L + k, NEW j \in 1 .. L + k, chunk_cache'[i] = chunk_cache'[j]
                 PROVE  i = j
      OBVIOUS
    <3>1. CASE i \in 1 .. L /\ j \in 1 .. L
      BY <1>11, <2>5, <3>1
    <3>2. CASE i \notin 1 .. L /\ j \notin 1 .. L
      <4>1. k - (i - L) + 1 = k - (j - L) + 1
        BY <1>11, <2>6, <3>2
      <4>2. QED
        BY <4>1
    <3>3. CASE i \in 1 .. L /\ j \notin 1 .. L
      BY <1>11, <2>6, <3>3
    <3>4. CASE i \notin 1 .. L /\ j \in 1 .. L
      BY <1>11, <2>6, <3>4
    <3>5. QED
      BY <3>1, <3>2, <3>3, <3>4
  <2>10. \A n \in NodeIds : \A i \in DOMAIN nodes'[n].chain : ~Unused(nodes[n].chain[i])'
    <3>1. \A c \in Chunks : ~Unused(c) => ~Unused(c)'
      BY <2>3
    <3>2. QED
      BY <2>7, <3>1
  <2>11. \A i \in 1 .. L + k : ~Unused(chunk_cache[i])'
    <3>1. \A c \in Chunks : ~Unused(c) => ~Unused(c)'
      BY <2>3
    <3>2. QED
      BY <2>8, <3>1
  <2>12. Cardinality(Demand') <= Cardinality(Chunks) - Handed' + chunk_cache_length'
    <3>1. PICK h \in Int, d \in Int, N \in Int :
             h = Handed /\ d = Cardinality(Demand) /\ N = Cardinality(Chunks)
      <4>1. Handed \in Int
        BY <1>a, PoolAssumption DEF ShapeInv, Handed
      <4>2. IsFiniteSet(Demand)
        BY ThreadsAssumption, FS_Subset DEF Demand
      <4>3. QED
        BY <4>1, <4>2, FS_CardinalityType, PoolFacts
    <3>2. d <= (N - h) + L
      BY <1>a, <1>6, <3>1 DEF ChunkInv
    <3>3. d <= (N - h) + (L + k)
      BY <3>2
    <3>4. Handed' = Handed
      BY <2>1 DEF Handed
    <3>5. QED
      BY <1>10, <2>2, <3>1, <3>3, <3>4
  <2>13. \A n, h \in NodeIds : \A i \in DOMAIN nodes'[n].chain, j \in DOMAIN nodes'[h].chain :
            nodes'[n].chain[i] = nodes'[h].chain[j] => n = h /\ i = j
    BY <2>4, <2>5
  <2>14. QED
    BY <1>10, <1>14, <2>7, <2>8, <2>9, <2>10, <2>11, <2>12, <2>13, PoolFacts DEF ChunkInv
<1>19. ObjectInv'
  <2>1. UNCHANGED <<used, header>>
    BY <1>1
  <2>2. \A x \in Objects : handed'[x] = IF header[x] = m THEN 0 ELSE handed[x]
    BY <1>8
  <2>3. \A x \in Objects, n \in NodeIds : n # m /\ LiesIn(x, n) => LiesIn(x, n)'
    BY <1>12, <2>1 DEF LiesIn
  <2>4. ASSUME NEW x \in Objects
        PROVE  /\ handed'[x] <= 1
               /\ handed'[x] > 0 => header'[x] \in NodeIds /\ LiesIn(x, header[x])'
    <3>1. handed[x] <= 1 /\ (handed[x] > 0 => header[x] \in NodeIds /\ LiesIn(x, header[x]))
      BY <1>a DEF ObjectInv
    <3>2. CASE header[x] = m
      BY <2>2, <3>2
    <3>3. CASE header[x] # m
      BY <2>1, <2>2, <2>3, <3>1, <3>3
    <3>4. QED
      BY <3>2, <3>3
  <2>5. ASSUME NEW n \in NodeIds, NEW i \in DOMAIN nodes'[n].cache
        PROVE  /\ LiesIn(nodes[n].cache[i], n)'
               /\ handed'[nodes'[n].cache[i]] = 0
               /\ \A j \in DOMAIN nodes'[n].cache :
                     nodes'[n].cache[i] = nodes'[n].cache[j] => i = j
    <3>1. n # m /\ nodes'[n] = nodes[n]
      BY <1>12, <2>5
    <3>2. nodes[n].cache[i] \in Objects
      BY <1>a, <2>5, <3>1, NodeTypes
    <3>3. /\ LiesIn(nodes[n].cache[i], n) /\ handed[nodes[n].cache[i]] = 0
          /\ \A j \in DOMAIN nodes[n].cache : nodes[n].cache[i] = nodes[n].cache[j] => i = j
      BY <1>a, <2>5, <3>1 DEF ObjectInv
    <3>4. \A x \in Objects : LiesIn(x, n) /\ handed[x] = 0 => LiesIn(x, n)' /\ handed'[x] = 0
      BY <2>2, <2>3, <3>1
    <3>5. QED
      BY <3>1, <3>2, <3>3, <3>4
  <2>6. QED
    BY <2>4, <2>5 DEF ObjectInv
<1>20. QED
    BY <1>15, <1>16, <1>17, <1>18, <1>19

\* mcobject_async_clean: the pool starts again with a chunk for each node in use.
LEMMA CleanStep ==
    ASSUME AllocInv, Clean
    PROVE  ShapeInv' /\ CallInv' /\ NodeInv' /\ ChunkInv' /\ ObjectInv'
<1>a. LockInv /\ ShapeInv /\ CallInv /\ NodeInv /\ ChunkInv /\ ObjectInv
    BY DEF AllocInv
<1>1. /\ nodes' = [n \in NodeIds |->
                     IF n \in InUse THEN [chain |-> <<Place(n)>>, at |-> 1, cache |-> << >>]
                                    ELSE nodes[n]]
      /\ used' = [c \in Chunks |-> IF \E n \in InUse : c = Place(n) THEN 0 ELSE used[c]]
      /\ chunk_cache_length' = 0
      /\ handed' = [o \in Objects |-> 0]
      /\ UNCHANGED <<syncVars, chunk_cache, nodes_length, nodes_cache, mine, header, callVars>>
    BY DEF Clean
<1>2. \A t \in Threads : op[t] = "none" /\ step[t] = "lock" /\ got[t] = NoChunk
    BY <1>a DEF Clean, Idle, CallInv, CallAt
<1>3. /\ \A n \in InUse : n \in NodeIds /\ Place(n) \in Chunks
      /\ \A n, m \in InUse : Place(n) = Place(m) => n = m
    BY <1>a, PlaceFacts DEF InUse
<1>4. /\ chunks_pos_length' \in 1 .. MaxRows /\ chunks_length' \in 0 .. ChunksSize
      /\ Handed' = Cardinality(InUse)
      /\ \A n \in InUse : ~ \/ Place(n)[1] > chunks_pos_length'
                            \/ Place(n)[1] = chunks_pos_length' /\ Place(n)[2] >= chunks_length'
    BY <1>a, CleanPool
<1>5. \A n \in NodeIds :
         IF n \in InUse
           THEN /\ nodes'[n].chain = <<Place(n)>> /\ nodes'[n].at = 1 /\ nodes'[n].cache = << >>
                /\ nodes'[n] \in NodeShape
           ELSE nodes'[n] = nodes[n]
    BY <1>1, <1>3 DEF NodeShape
<1>6. \A n \in InUse : /\ DOMAIN nodes'[n].chain = 1 .. 1 /\ Len(nodes'[n].chain) = 1
                       /\ nodes'[n].chain[1] = Place(n) /\ DOMAIN nodes'[n].cache = {}
  <2> SUFFICES ASSUME NEW n \in InUse
               PROVE  /\ DOMAIN nodes'[n].chain = 1 .. 1 /\ Len(nodes'[n].chain) = 1
                      /\ nodes'[n].chain[1] = Place(n) /\ DOMAIN nodes'[n].cache = {}
    OBVIOUS
  <2>1. nodes'[n].chain = <<Place(n)>> /\ nodes'[n].cache = << >>
    BY <1>3, <1>5
  <2>2. \A c : DOMAIN <<c>> = 1 .. 1 /\ Len(<<c>>) = 1 /\ <<c>>[1] = c
    OBVIOUS
  <2>3. DOMAIN << >> = {}
    OBVIOUS
  <2>4. QED
    BY <2>1, <2>2, <2>3
<1>7. \A n \in NodeIds : n \notin InUse => /\ nodes'[n] = nodes[n] /\ nodes[n].chain = << >>
                                           /\ DOMAIN nodes'[n].chain = {}
  <2>1. \A n \in NodeIds : n \notin InUse => nodes'[n] = nodes[n] /\ nodes[n].chain = << >>
    BY <1>5 DEF InUse
  <2>2. QED
    BY <2>1
<1>8. \A t \in Threads : Owns(t) => mine[t] \in InUse
  <2> SUFFICES ASSUME NEW t \in Threads, Owns(t) PROVE mine[t] \in InUse
    OBVIOUS
  <2>1. mine[t] \in NodeIds /\ Node(t).at \in 1 .. Len(Node(t).chain)
    BY <1>a DEF Owns, ShapeInv, NodeInv
  <2>2. nodes[mine[t]].chain # << >>
    BY <2>1 DEF Node
  <2>3. QED
    BY <2>1, <2>2 DEF InUse
<1>9. \A n \in NodeIds : n \notin InUse => nodes[n] = EmptyNode
    BY <1>a, <1>8 DEF NodeInv
<1>10. ShapeInv'
  <2>1. nodes' \in [NodeIds -> NodeShape]
    <3>1. \A n \in NodeIds : nodes[n] \in NodeShape
      BY <1>a DEF ShapeInv
    <3>2. DOMAIN nodes' = NodeIds /\ \A n \in NodeIds : nodes'[n] \in NodeShape
      BY <1>1, <1>5, <3>1
    <3>3. nodes' = [n \in NodeIds |-> nodes'[n]]
      BY <1>1
    <3>4. QED
      BY <3>2, <3>3
  <2>2. used' \in [Chunks -> 0 .. ChunkCap]
    <3>1. 0 \in 0 .. ChunkCap
      BY PoolAssumption
    <3>2. QED
      BY <1>a, <1>1, <3>1 DEF ShapeInv
  <2>3. handed' \in [Objects -> Nat] /\ chunk_cache_length' \in 0 .. Cardinality(Chunks)
    BY <1>1, PoolFacts
  <2>4. QED
    BY <1>a, <1>1, <1>4, <2>1, <2>2, <2>3 DEF ShapeInv, callVars
<1>11. CallInv'
    BY <1>a, <1>1, <1>2 DEF CallInv, CallAt, callVars, syncVars
<1>12. NodeInv'
  <2>1. UNCHANGED <<nodes_length, nodes_cache, mine, op>>
    BY <1>1 DEF callVars
  <2>2. \A u \in Threads : Owns(u)' <=> Owns(u)
    BY <2>1 DEF Owns
  <2>3. ASSUME NEW u \in Threads, Owns(u)
        PROVE  /\ Node(u)'.at \in 1 .. Len(Node(u)'.chain)
               /\ op'[u] = "grow" => Node(u)'.at = Len(Node(u)'.chain)
    <3>1. mine[u] \in InUse /\ mine[u] \in NodeIds
      BY <1>3, <1>8, <2>3
    <3>2. Node(u)'.at = 1 /\ Len(Node(u)'.chain) = 1
      BY <1>5, <1>6, <2>1, <3>1 DEF Node
    <3>3. op'[u] = "none" /\ 1 \in 1 .. 1
      BY <1>2, <2>1
    <3>4. QED
      BY <3>2, <3>3
  <2>4. ASSUME NEW n \in NodeIds, \A u \in Threads : Owns(u)' => mine'[u] # n
        PROVE  nodes'[n] = EmptyNode
    <3>1. nodes[n] = EmptyNode
      BY <1>a, <2>1, <2>2, <2>4 DEF NodeInv
    <3>2. n \notin InUse
      BY <3>1 DEF InUse, EmptyNode
    <3>3. QED
      BY <1>7, <3>1, <3>2
  <2>5. QED
    BY <1>a, <2>1, <2>2, <2>3, <2>4 DEF NodeInv
<1>13. ChunkInv'
  <2>1. \A n \in NodeIds : \A i \in DOMAIN nodes'[n].chain :
           n \in InUse /\ i = 1 /\ nodes'[n].chain[i] = Place(n) /\ nodes'[n].chain[i] \in Chunks
    BY <1>3, <1>6, <1>7
  <2>2. \A n, m \in NodeIds : \A i \in DOMAIN nodes'[n].chain, j \in DOMAIN nodes'[m].chain :
           nodes'[n].chain[i] = nodes'[m].chain[j] => n = m /\ i = j
    BY <1>3, <2>1
  <2>3. \A n \in NodeIds : \A i \in DOMAIN nodes'[n].chain : ~Unused(nodes[n].chain[i])'
    BY <1>4, <2>1 DEF Unused
  <2>4. \A t \in Threads : got'[t] = NoChunk
    BY <1>1, <1>2 DEF callVars
  <2>5. Cardinality(Demand') <= Cardinality(Chunks) - Handed' + chunk_cache_length'
    <3>1. Demand' = {}
      BY <1>1, <1>2 DEF Demand, callVars
    <3>2. Cardinality(Demand') = 0
      BY <3>1, FS_EmptySet
    <3>3. PICK k \in 0 .. Cardinality(Chunks) : k = Cardinality(InUse)
      BY <1>a, InUseRoom
    <3>4. 0 <= Cardinality(Chunks) - k + 0
      BY <3>3, PoolFacts
    <3>5. QED
      BY <1>1, <1>4, <3>2, <3>3, <3>4
  <2>6. 1 .. chunk_cache_length' = {}
    BY <1>1
  <2>7. QED
    BY <2>1, <2>2, <2>3, <2>4, <2>5, <2>6, PoolFacts DEF ChunkInv
<1>14. ObjectInv'
  <2>1. \A n \in NodeIds : DOMAIN nodes'[n].cache = {}
    <3>1. DOMAIN EmptyNode.cache = {}
      BY DEF EmptyNode
    <3>2. QED
      BY <1>6, <1>7, <1>9, <3>1
  <2>2. \A o \in Objects : handed'[o] = 0
    BY <1>1
  <2>3. QED
    BY <2>1, <2>2 DEF ObjectInv
<1>15. QED
    BY <1>10, <1>11, <1>12, <1>13, <1>14

\* Nothing is handed out and nobody is in a call.
LEMMA AllocInit == Init => AllocInv
<1> SUFFICES ASSUME Init PROVE AllocInv
    OBVIOUS
<1>1. LockInv
    BY DEF Init, SyncInit, LockInv, LockWordInv, MutualExclusion
<1>2. EmptyNode \in NodeShape /\ DOMAIN EmptyNode.chain = {} /\ DOMAIN EmptyNode.cache = {}
    BY DEF EmptyNode, NodeShape
<1>3. ShapeInv
  <2>1. /\ 1 \in 1 .. MaxRows /\ 0 \in 0 .. ChunksSize /\ 0 \in 0 .. ChunkCap
        /\ 0 \in 0 .. Cardinality(Chunks) /\ 0 \in 0 .. Cardinality(Threads)
    BY PoolAssumption, PoolFacts
  <2>2. NoReg \in [cached : BOOLEAN, n : Nat] /\ << >> \in Seq(NodeIds)
    BY DEF NoReg
  <2>3. QED
    BY <1>2, <2>1, <2>2 DEF Init, ShapeInv
<1>4. CallInv
    BY DEF Init, SyncInit, CallInv, CallAt
<1>5. NodeInv
  <2>1. nodes_length = 0 /\ nodes_cache = << >> /\ \A t \in Threads : mine[t] = None
    BY DEF Init
  <2>2. DOMAIN nodes_cache = {}
    BY <2>1
  <2>3. \A t \in Threads : ~Owns(t)
    BY <2>1 DEF Owns
  <2>4. \A n \in NodeIds : nodes[n] = EmptyNode /\ ~(n < nodes_length)
    BY <2>1, PoolFacts DEF Init, NodeIds
  <2>5. None < 0
    BY DEF None
  <2>6. QED
    BY <2>1, <2>2, <2>3, <2>4, <2>5 DEF NodeInv
<1>6. ChunkInv
  <2>1. \A n \in NodeIds : DOMAIN nodes[n].chain = {}
    BY <1>2 DEF Init
  <2>2. 1 .. chunk_cache_length = {} /\ \A t \in Threads : got[t] = NoChunk
    BY DEF Init
  <2>3. Demand = {} /\ Handed = 0 /\ chunk_cache_length = 0
    <3>1. Handed = (1 - 1) * ChunksSize + 0
      BY DEF Init, Handed
    <3>2. QED
      BY <3>1, PoolAssumption DEF Init, Demand
  <2>4. Cardinality(Demand) <= Cardinality(Chunks) - Handed + chunk_cache_length
    BY <2>3, FS_EmptySet, PoolFacts
  <2>5. QED
    BY <2>1, <2>2, <2>4, PoolFacts DEF ChunkInv
<1>7. ObjectInv
    BY <1>2 DEF Init, ObjectInv
<1>8. QED
    BY <1>1, <1>3, <1>4, <1>5, <1>6, <1>7 DEF AllocInv

\* Every step keeps the invariant where the lock excludes.
LEMMA AllocStep ==
    ASSUME ~Spinlock, AllocInv, [Next]_vars
    PROVE  AllocInv'
<1>1. LockInv'
    BY LockStep, LockUse DEF AllocInv, LockInv
<1>2. ShapeInv' /\ CallInv' /\ NodeInv' /\ ChunkInv' /\ ObjectInv'
  <2>1. CASE UNCHANGED vars
    <3>1. ShapeInv' /\ CallInv'
      BY <2>1 DEF AllocInv, ShapeInv, CallInv, CallAt, vars, syncVars, poolVars, nodeVars,
                  objectVars, callVars
    <3>2. NodeInv' /\ ChunkInv' /\ ObjectInv'
      BY <2>1, NodeFrame, ChunkFrame, ObjectFrame
         DEF AllocInv, vars, poolVars, nodeVars, objectVars, callVars
    <3>3. QED
      BY <3>1, <3>2
  <2>2. CASE Clean
    BY <2>2, CleanStep
  <2>3. ASSUME NEW t \in Threads, Locked(t)
        PROVE  ShapeInv' /\ CallInv' /\ NodeInv' /\ ChunkInv' /\ ObjectInv'
    BY <2>3, AttemptStep, TakeNodeStep, LoadChunkStep, StoreChunkStep, ReturnNodeStep,
       ReturnChunkStep, DeleteNodeStep DEF Locked
  <2>4. ASSUME NEW t \in Threads, Unlocked(t)
        PROVE  ShapeInv' /\ CallInv' /\ NodeInv' /\ ChunkInv' /\ ObjectInv'
    BY <2>4, BeginStep, MallocCachedStep, MallocSlotStep, MallocNextStep, NodeCleanStep,
       FreeStep DEF Unlocked
  <2>5. QED
    BY <2>1, <2>2, <2>3, <2>4 DEF Next
<1>3. QED
    BY <1>1, <1>2 DEF AllocInv

\* The invariant behind the theorems that follow, for a lock that excludes.
LEMMA AllocInvariance ==
    ASSUME ~Spinlock
    PROVE  Spec => []AllocInv
<1>1. AllocInv /\ [Next]_vars => AllocInv'
    BY AllocStep
<1>2. QED
    BY <1>1, AllocInit, PTL DEF Spec
-----------------------------------------------------------------------------
\* Members that are all the same are at most one.
LEMMA AtMostOne ==
    ASSUME NEW S, \A x, y \in S : x = y
    PROVE  Cardinality(S) \in {0, 1} /\ (S = {} => Cardinality(S) = 0)
<1>1. CASE S = {}
    BY <1>1, FS_EmptySet
<1>2. CASE S # {}
  <2>1. PICK x \in S : S = {x}
    BY <1>2
  <2>2. QED
    BY <2>1, FS_Singleton
<1>3. QED
    BY <1>1, <1>2

\* A chunk is in one place only: in one node's chain, in the hands of the one
\* thread that has just taken it, in the cache of chunks, or not used yet.  No
\* two threads of a tree ever write into the same chunk.
THEOREM NoChunkShared ==
    ASSUME ~Spinlock
    PROVE  Spec => []ChunkOwned
<1>1. AllocInv => ChunkOwned
  <2> SUFFICES ASSUME AllocInv, NEW c \in Chunks
               PROVE  Cardinality({p \in NodeIds \X (1 .. Cardinality(Chunks)) :
                        p[2] \in DOMAIN nodes[p[1]].chain /\ nodes[p[1]].chain[p[2]] = c})
                      + Cardinality({t \in Threads : got[t] = c})
                      + Cardinality({i \in 1 .. chunk_cache_length : chunk_cache[i] = c})
                      + (IF Unused(c) THEN 1 ELSE 0) <= 1
    BY DEF ChunkOwned
  <2> DEFINE A == {p \in NodeIds \X (1 .. Cardinality(Chunks)) :
                     p[2] \in DOMAIN nodes[p[1]].chain /\ nodes[p[1]].chain[p[2]] = c}
             B == {t \in Threads : got[t] = c}
             C == {i \in 1 .. chunk_cache_length : chunk_cache[i] = c}
  <2>a. LockInv /\ ShapeInv /\ CallInv /\ ChunkInv
    BY DEF AllocInv
  <2>1. \A p, q \in A : p = q
    BY <2>a DEF ChunkInv
  <2>2. \A t, u \in B : t = u
    <3>1. \A t \in B : t \in Threads /\ sync[t] = "in"
      BY <2>a, PoolFacts DEF CallInv, CallAt
    <3>2. QED
      BY <2>a, <3>1 DEF LockInv, MutualExclusion
  <2>3. \A i, j \in C : i = j
    BY <2>a DEF ChunkInv
  <2>4. /\ A # {} => B = {} /\ C = {} /\ ~Unused(c)
        /\ B # {} => C = {} /\ ~Unused(c)
        /\ C # {} => ~Unused(c)
    BY <2>a DEF ChunkInv
  <2>5. /\ Cardinality(A) \in {0, 1} /\ (A = {} => Cardinality(A) = 0)
        /\ Cardinality(B) \in {0, 1} /\ (B = {} => Cardinality(B) = 0)
        /\ Cardinality(C) \in {0, 1} /\ (C = {} => Cardinality(C) = 0)
    BY <2>1, <2>2, <2>3, AtMostOne
  <2> HIDE DEF A, B, C
  <2>6. Cardinality(A) + Cardinality(B) + Cardinality(C) + (IF Unused(c) THEN 1 ELSE 0) <= 1
    BY <2>4, <2>5
  <2>7. QED
    BY <2>6 DEF A, B, C
<1>2. QED
    BY <1>1, AllocInvariance, PTL

\* malloc gives no object that somebody holds, and free keeps none twice: an
\* object has one holder at most, and those kept for later have none.
THEOREM NoObjectShared ==
    ASSUME ~Spinlock
    PROVE  Spec => []OneHolder
<1>1. AllocInv => OneHolder
    BY DEF AllocInv, ObjectInv, OneHolder
<1>2. QED
    BY <1>1, AllocInvariance, PTL

\* The header of a held object names the node it lies in, so that free returns
\* it to the thread that may use it without the lock.
THEOREM FreeFindsOwner ==
    ASSUME ~Spinlock
    PROVE  Spec => []HeaderNamesOwner
<1>1. AllocInv => HeaderNamesOwner
    BY DEF AllocInv, ObjectInv, LiesIn, HeaderNamesOwner
<1>2. QED
    BY <1>1, AllocInvariance, PTL

\* The counters stay inside the table of chunks and the table of nodes, however
\* many calls are under way.
THEOREM TablesHold ==
    ASSUME ~Spinlock
    PROVE  Spec => []TypeOK
<1>1. AllocInv => TypeOK
    BY DEF AllocInv, LockInv, ShapeInv, TypeOK
<1>2. QED
    BY <1>1, AllocInvariance, PTL
-----------------------------------------------------------------------------
(* No chunk is lost. *)

\* A number is in one way a row and a place in the row.
LEMMA DivUnique ==
    ASSUME NEW q \in Nat, NEW s \in 0 .. ChunksSize - 1
    PROVE  LET a == ChunksSize * q + s
           IN  a \in Nat /\ a \div ChunksSize = q /\ a % ChunksSize = s
<1>1. PICK a \in Nat : a = ChunksSize * q + s
    BY PoolAssumption
<1>2. PICK p \in Nat, r \in 0 .. ChunksSize - 1 :
          a = ChunksSize * p + r /\ p = a \div ChunksSize /\ r = a % ChunksSize
    BY DivMod
<1>3. ASSUME NEW u \in Nat, NEW v \in Nat, u < v PROVE ChunksSize * u + ChunksSize <= ChunksSize * v
  <2>1. PICK d \in Nat : v = u + 1 + d
    <3>1. v = u + 1 + (v - u - 1) /\ v - u - 1 \in Nat
      BY <1>3
    <3>2. QED
      BY <3>1
  <2>2. ChunksSize * v = ChunksSize * u + ChunksSize + ChunksSize * d /\ ChunksSize * d \in Nat
    BY <2>1, PoolAssumption
  <2>3. ChunksSize * u \in Nat /\ ChunksSize \in Nat
    BY PoolAssumption
  <2>4. QED
    BY <2>2, <2>3
<1>4. ChunksSize * p \in Nat /\ ChunksSize * q \in Nat /\ ChunksSize \in Nat
    BY PoolAssumption
<1>5. ~ (p < q)
    BY <1>1, <1>2, <1>3, <1>4
<1>6. ~ (q < p)
    BY <1>1, <1>2, <1>3, <1>4
<1>7. p = q
    BY <1>5, <1>6
<1>8. r = s
    BY <1>1, <1>2, <1>4, <1>7
<1>9. QED
    BY <1>1, <1>2, <1>7, <1>8

\* After mcobject_async_clean a chunk that is not free is some node's first one.
LEMMA CleanPlaces ==
    ASSUME ShapeInv, ChunkInv, Clean, NEW c \in Chunks, ~Unused(c)'
    PROVE  \E n \in InUse : Place(n) = c
<1>1. PICK k \in Nat : k = Cardinality(InUse)
    BY InUseRoom, PoolFacts
<1>2. PICK q \in Nat, s \in 0 .. ChunksSize - 1 : c = <<1 + q, s>>
  <2>1. PICK x \in 1 .. MaxRows, y \in 0 .. ChunksSize - 1 : c = <<x, y>>
    BY DEF Chunks
  <2>2. x - 1 \in Nat /\ 1 + (x - 1) = x
    BY PoolAssumption
  <2>3. QED
    BY <2>1, <2>2
<1>3. PICK a \in Nat : a = ChunksSize * q + s /\ a \div ChunksSize = q /\ a % ChunksSize = s
    BY DivUnique
<1>4. a \in 0 .. k - 1
  <2>1. PICK x \in 1 .. MaxRows, y \in 0 .. ChunksSize : x = chunks_pos_length' /\ y = chunks_length'
    BY CleanPool
  <2>2. ~(1 + q > x) /\ ~(1 + q = x /\ s >= y)
    BY <1>2, <2>1 DEF Unused
  <2>3. PICK p \in Nat : x = 1 + p
    <3>1. x - 1 \in Nat /\ x = 1 + (x - 1)
      BY PoolAssumption
    <3>2. QED
      BY <3>1
  <2>4. k = p * ChunksSize + y
    <3>1. Handed' = k
      BY <1>1, CleanPool
    <3>2. chunks_pos_length' - 1 = p
      BY <2>1, <2>3
    <3>3. Handed' = (chunks_pos_length' - 1) * ChunksSize + chunks_length'
      BY DEF Handed
    <3>4. QED
      BY <2>1, <3>1, <3>2, <3>3, Zenon
  <2>5. PICK P \in Nat, Q \in Nat, C \in Nat : P = p * ChunksSize /\ Q = ChunksSize * q /\ C = ChunksSize
    BY PoolAssumption
  <2>6. k = P + y /\ a = Q + s /\ s \in Nat /\ y \in Nat /\ s < C
    <3>1. k = P + y /\ a = Q + s
      BY <1>3, <2>4, <2>5, Zenon
    <3>2. s \in Nat /\ y \in Nat /\ s < C
      BY <2>5
    <3>3. QED
      BY <3>1, <3>2
  <2>7. CASE q = p
    <3>1. P = Q
      BY <2>5, <2>7
    <3>2. s < y
      BY <2>2, <2>3, <2>6, <2>7
    <3>3. QED
      BY <2>6, <3>1, <3>2
  <2>8. CASE q < p
    <3>1. PICK d \in Nat : p = q + 1 + d
      <4>1. p = q + 1 + (p - q - 1) /\ p - q - 1 \in Nat
        BY <2>8
      <4>2. QED
        BY <4>1
    <3>2. PICK D \in Nat : D = d * ChunksSize
      BY PoolAssumption
    <3>3. P = Q + C + D
      <4>1. (q + 1 + d) * ChunksSize = ChunksSize * q + ChunksSize + d * ChunksSize
        BY PoolAssumption
      <4>2. QED
        BY <2>5, <3>1, <3>2, <4>1
    <3>4. QED
      BY <2>6, <3>3
  <2>9. q = p \/ q < p
    BY <2>2, <2>3
  <2>10. QED
    BY <2>7, <2>8, <2>9
<1>5. PICK f : f = [n \in InUse |-> Nth(n)]
    OBVIOUS
<1>6. f \in Injection(InUse, 0 .. k - 1)
  <2>1. f \in [InUse -> 0 .. k - 1]
    BY <1>1, <1>5, PlaceFacts
  <2>2. \A n, m \in InUse : f[n] = f[m] => n = m
    <3>1. SUFFICES ASSUME NEW n \in InUse, NEW m \in InUse, Nth(n) = Nth(m) PROVE n = m
      BY <1>5
    <3>2. Place(n) = Place(m)
      BY <3>1 DEF Place
    <3>3. QED
      BY <3>2, PlaceFacts
  <2>3. QED
    BY <2>1, <2>2, Fun_IsInj
<1>7. IsFiniteSet(0 .. k - 1) /\ Cardinality(0 .. k - 1) = k
    BY FS_Interval
<1>8. f \in Surjection(InUse, 0 .. k - 1)
    BY <1>1, <1>6, <1>7, FS_Injection
<1>9. PICK n \in InUse : f[n] = a
    BY <1>4, <1>8 DEF Surjection
<1>10. Nth(n) = a
    BY <1>5, <1>9
<1>11. QED
    BY <1>2, <1>3, <1>10 DEF Place

\* A step that neither moves a chunk nor drops one.
LEMMA LostFrame ==
    ASSUME NoChunkLost, UNCHANGED <<chunks_pos_length, chunks_length, chunk_cache, chunk_cache_length, got>>,
           \A n \in NodeIds : nodes'[n].chain = nodes[n].chain
    PROVE  NoChunkLost'
    BY DEF NoChunkLost, InSomeChain, Unused

\* The chunk a call takes leaves the cache, or the places not used yet, and is
\* in the hands of that call.
LEMMA LostStore ==
    ASSUME AllocInv, NoChunkLost, NEW t \in Threads, StoreChunk(t)
    PROVE  NoChunkLost'
<1>a. ShapeInv /\ CallInv
    BY DEF AllocInv
<1> DEFINE L == chunk_cache_length
<1>1. got[t] = NoChunk /\ reg[t].cached = (L > 0) /\ reg[t].n = IF reg[t].cached THEN L ELSE chunks_length
    BY <1>a DEF StoreChunk, Inside, CallInv, CallAt
<1>2. /\ L \in 0 .. Cardinality(Chunks) /\ Cardinality(Chunks) \in Nat /\ got \in [Threads -> Chunks \union {NoChunk}]
      /\ chunks_pos_length \in 1 .. MaxRows /\ chunks_length \in 0 .. ChunksSize
      /\ ChunksSize \in Nat \ {0} /\ MaxRows \in Nat \ {0}
    BY <1>a, PoolFacts, PoolAssumption DEF ShapeInv
<1>3. UNCHANGED <<chunk_cache, nodes>>
    BY DEF StoreChunk, nodeVars
<1>4. SUFFICES ASSUME NEW c \in Chunks
               PROVE  \/ Unused(c)' \/ InSomeChain(c)'
                      \/ \E u \in Threads : got'[u] = c
                      \/ \E i \in 1 .. chunk_cache_length' : chunk_cache'[i] = c
    BY DEF NoChunkLost
<1>5. c # NoChunk
    BY PoolFacts
<1>6. \/ Unused(c) \/ InSomeChain(c) \/ \E u \in Threads : got[u] = c
      \/ \E i \in 1 .. L : chunk_cache[i] = c
    BY DEF NoChunkLost
<1>7. CASE InSomeChain(c)
    BY <1>3, <1>7 DEF InSomeChain
<1>8. CASE \E u \in Threads : got[u] = c
  <2>1. PICK u \in Threads : got[u] = c /\ u # t
    BY <1>1, <1>5, <1>8
  <2>2. got'[u] = got[u]
    <3>1. \E g : got' = [got EXCEPT ![t] = g]
      BY DEF StoreChunk
    <3>2. QED
      BY <1>2, <2>1, <3>1
  <2>3. QED
    BY <2>1, <2>2
<1>9. CASE reg[t].cached /\ (Unused(c) \/ \E i \in 1 .. L : chunk_cache[i] = c)
  <2>1. L > 0 /\ reg[t].n = L
    BY <1>1, <1>9
  <2>2. /\ got' = [got EXCEPT ![t] = chunk_cache[L]] /\ chunk_cache_length' = L - 1
        /\ UNCHANGED <<chunks_pos_length, chunks_length>>
    BY <1>9, <2>1 DEF StoreChunk
  <2>3. CASE Unused(c)
    BY <2>2, <2>3 DEF Unused
  <2>4. CASE \E i \in 1 .. L : chunk_cache[i] = c
    <3>1. PICK i \in 1 .. L : chunk_cache[i] = c
      BY <2>4
    <3>2. CASE i = L
      <4>1. got'[t] = c
        BY <1>2, <2>2, <3>1, <3>2
      <4>2. QED
        BY <4>1
    <3>3. CASE i # L
      <4>1. i \in 1 .. L - 1
        BY <1>2, <3>3
      <4>2. QED
        BY <1>3, <2>2, <3>1, <4>1
    <3>4. QED
      BY <3>2, <3>3
  <2>5. QED
    BY <1>9, <2>3, <2>4
<1>10. CASE ~reg[t].cached /\ (Unused(c) \/ \E i \in 1 .. L : chunk_cache[i] = c)
  <2>1. L = 0 /\ reg[t].n = chunks_length /\ Unused(c)
    <3>1. ~(L > 0) /\ reg[t].n = chunks_length
      BY <1>1, <1>10, Zenon
    <3>2. QED
      BY <1>2, <1>10, <3>1
  <2>2. PICK x \in 1 .. MaxRows, y \in 0 .. ChunksSize - 1 : c = <<x, y>>
    BY DEF Chunks
  <2>3. x > chunks_pos_length \/ (x = chunks_pos_length /\ y >= chunks_length)
    BY <2>1, <2>2 DEF Unused
  <2>4. CASE chunks_length >= ChunksSize
    <3>1. /\ chunks_pos_length' = chunks_pos_length + 1 /\ chunks_length' = 1
          /\ got' = [got EXCEPT ![t] = <<chunks_pos_length + 1, 0>>]
      BY <1>10, <2>1, <2>4 DEF StoreChunk
    <3>2. x > chunks_pos_length
      BY <1>2, <2>3, <2>4
    <3>3. CASE x = chunks_pos_length + 1 /\ y = 0
      <4>1. got'[t] = c
        BY <1>2, <2>2, <3>1, <3>3
      <4>2. QED
        BY <4>1
    <3>4. CASE ~(x = chunks_pos_length + 1 /\ y = 0)
      <4>1. x > chunks_pos_length + 1 \/ (x = chunks_pos_length + 1 /\ y >= 1)
        BY <1>2, <3>2, <3>4
      <4>2. Unused(c)'
        BY <2>2, <3>1, <4>1 DEF Unused
      <4>3. QED
        BY <4>2
    <3>5. QED
      BY <3>3, <3>4
  <2>5. CASE ~(chunks_length >= ChunksSize)
    <3>1. /\ chunks_length' = chunks_length + 1 /\ UNCHANGED chunks_pos_length
          /\ got' = [got EXCEPT ![t] = <<chunks_pos_length, chunks_length>>]
      BY <1>10, <2>1, <2>5 DEF StoreChunk
    <3>2. CASE x = chunks_pos_length /\ y = chunks_length
      <4>1. got'[t] = c
        BY <1>2, <2>2, <3>1, <3>2
      <4>2. QED
        BY <4>1
    <3>3. CASE ~(x = chunks_pos_length /\ y = chunks_length)
      <4>1. x > chunks_pos_length \/ (x = chunks_pos_length /\ y >= chunks_length + 1)
        BY <1>2, <2>3, <3>3
      <4>2. Unused(c)'
        BY <2>2, <3>1, <4>1 DEF Unused
      <4>3. QED
        BY <4>2
    <3>4. QED
      BY <3>2, <3>3
  <2>6. QED
    BY <2>4, <2>5
<1>11. QED
    BY <1>6, <1>7, <1>8, <1>9, <1>10

\* The chunk a call has taken goes to the end of its node's chain.
LEMMA LostReturn ==
    ASSUME AllocInv, NoChunkLost, NEW t \in Threads, ReturnNode(t) \/ ReturnChunk(t)
    PROVE  NoChunkLost'
<1>a. LockInv /\ ShapeInv /\ CallInv /\ NodeInv
    BY DEF AllocInv
<1>1. /\ sync[t] = "in" /\ step[t] = "done" /\ op[t] \in {"add", "grow"}
      /\ UNCHANGED <<chunks_pos_length, chunks_length, chunk_cache, chunk_cache_length>>
    BY DEF ReturnNode, ReturnChunk, Inside, poolVars
<1>2. PICK m \in NodeIds : m = mine[t]
    BY <1>a, <1>1 DEF CallInv, CallAt, ShapeInv
<1>3. PICK g \in Chunks : g = got[t]
    BY <1>a, <1>1 DEF CallInv, CallAt, ShapeInv
<1>4. \A u \in Threads : u # t => got[u] = NoChunk
    BY <1>a, <1>1, Alone
<1>5. PICK s \in Seq(Chunks) : s = nodes[m].chain
    BY <1>a, NodeTypes
<1>6. /\ \A n \in NodeIds : n # m => nodes'[n] = nodes[n]
      /\ \A i \in DOMAIN s : i \in DOMAIN nodes'[m].chain /\ nodes'[m].chain[i] = s[i]
      /\ \E i \in DOMAIN nodes'[m].chain : nodes'[m].chain[i] = g
  <2>0. nodes \in [NodeIds -> NodeShape]
    BY <1>a DEF ShapeInv
  <2>1. CASE ReturnNode(t)
    <3>1. nodes' = [nodes EXCEPT ![m] = [chain |-> <<g>>, at |-> 1, cache |-> << >>]]
      BY <1>2, <1>3, <2>1 DEF ReturnNode
    <3>2. nodes[m] = EmptyNode
      <4>1. \A u \in Threads : Owns(u) => mine[u] # m
        BY <1>a, <1>2, <2>1, PoolFacts DEF ReturnNode, NodeInv, Owns
      <4>2. QED
        BY <1>a, <4>1 DEF NodeInv
    <3>3. DOMAIN s = {}
      BY <1>5, <3>2 DEF EmptyNode
    <3>4. nodes'[m].chain = <<g>>
      BY <2>0, <3>1
    <3>5. 1 \in DOMAIN <<g>> /\ <<g>>[1] = g
      OBVIOUS
    <3>6. QED
      BY <2>0, <3>1, <3>3, <3>4, <3>5
  <2>2. CASE ReturnChunk(t)
    <3>1. nodes' = [nodes EXCEPT ![m].chain = Append(s, g), ![m].at = @ + 1]
      BY <1>2, <1>3, <1>5, <2>2 DEF ReturnChunk
    <3>2. nodes'[m].chain = Append(s, g) /\ \A n \in NodeIds : n # m => nodes'[n] = nodes[n]
      BY <2>0, <3>1 DEF NodeShape
    <3>3. /\ Len(s) \in Nat /\ DOMAIN s = 1 .. Len(s) /\ DOMAIN Append(s, g) = 1 .. Len(s) + 1
          /\ \A i \in 1 .. Len(s) : Append(s, g)[i] = s[i]
          /\ Append(s, g)[Len(s) + 1] = g
      BY AppendOne
    <3>4. Len(s) + 1 \in 1 .. Len(s) + 1 /\ 1 .. Len(s) \subseteq 1 .. Len(s) + 1
      BY <3>3
    <3>5. QED
      BY <3>2, <3>3, <3>4
  <2>3. QED
    BY <2>1, <2>2
<1>7. SUFFICES ASSUME NEW c \in Chunks, ~Unused(c), \A i \in 1 .. chunk_cache_length : chunk_cache[i] # c
               PROVE  InSomeChain(c)'
    BY <1>1 DEF NoChunkLost, Unused
<1>8. InSomeChain(c) \/ c = g
    BY <1>3, <1>4, <1>7, PoolFacts DEF NoChunkLost
<1>9. InSomeChain(g)'
    BY <1>6 DEF InSomeChain
<1>10. ASSUME NEW n \in NodeIds, NEW i \in DOMAIN nodes[n].chain, nodes[n].chain[i] = c
       PROVE  i \in DOMAIN nodes'[n].chain /\ nodes'[n].chain[i] = c
    BY <1>5, <1>6, <1>10
<1>11. QED
    BY <1>8, <1>9, <1>10 DEF InSomeChain

\* All chunks of a deleted node go to the cache, those behind node->chunk too.
LEMMA LostDelete ==
    ASSUME AllocInv, NoChunkLost, NEW t \in Threads, DeleteNode(t)
    PROVE  NoChunkLost'
<1>a. LockInv /\ ShapeInv /\ CallInv /\ ChunkInv /\ ShapeInv'
    BY DeleteNodeStep DEF AllocInv
<1>1. sync[t] = "in" /\ step[t] = "delete" /\ UNCHANGED <<chunks_pos_length, chunks_length>>
    BY DEF DeleteNode, Inside
<1>2. PICK m \in NodeIds : m = mine[t]
    BY <1>a, <1>1 DEF CallInv, CallAt, ShapeInv
<1>3. \A u \in Threads : got[u] = NoChunk
    BY <1>a, <1>1, Alone DEF CallInv, CallAt
<1>4. PICK s \in Seq(Chunks) : s = nodes[m].chain
    BY <1>a, NodeTypes
<1>5. PICK k \in Nat : k = Len(s)
    BY <1>4, LenProperties
<1>6. PICK L \in Nat : L = chunk_cache_length
    BY <1>a, PoolFacts DEF ShapeInv
<1>7. /\ DOMAIN s = 1 .. k /\ Len(Reverse(s)) = k /\ DOMAIN Reverse(s) = 1 .. k
      /\ \A i \in 1 .. k : Reverse(s)[i] = s[k - i + 1]
    BY <1>5, ReverseAll
<1>8. /\ chunk_cache' = [i \in DOMAIN chunk_cache |->
                           IF i - L \in 1 .. k THEN Reverse(s)[i - L] ELSE chunk_cache[i]]
      /\ chunk_cache_length' = L + k
      /\ nodes' = [nodes EXCEPT ![m] = EmptyNode]
    BY <1>2, <1>4, <1>6, <1>7 DEF DeleteNode, Node
<1>9. L + k <= Cardinality(Chunks) /\ DOMAIN chunk_cache = 1 .. Cardinality(Chunks) /\ Cardinality(Chunks) \in Nat
    BY <1>a, <1>8, PoolFacts DEF ShapeInv
<1>10. SUFFICES ASSUME NEW c \in Chunks, ~Unused(c)
                PROVE  InSomeChain(c)' \/ \E i \in 1 .. L + k : chunk_cache'[i] = c
    BY <1>1, <1>8 DEF NoChunkLost, Unused
<1>11. InSomeChain(c) \/ \E i \in 1 .. L : chunk_cache[i] = c
    BY <1>3, <1>6, <1>10, PoolFacts DEF NoChunkLost
<1>12. CASE \E i \in 1 .. L : chunk_cache[i] = c
  <2>1. PICK i \in 1 .. L : chunk_cache[i] = c
    BY <1>12
  <2>2. i \in 1 .. L + k /\ i \in DOMAIN chunk_cache /\ i - L \notin 1 .. k
    BY <1>9
  <2>3. QED
    BY <1>8, <2>1, <2>2
<1>13. CASE InSomeChain(c)
  <2>1. PICK n \in NodeIds : \E i \in DOMAIN nodes[n].chain : nodes[n].chain[i] = c
    BY <1>13 DEF InSomeChain
  <2>2. CASE n # m
    <3>1. nodes'[n] = nodes[n]
      BY <1>8, <1>a, <2>2 DEF ShapeInv
    <3>2. QED
      BY <2>1, <3>1 DEF InSomeChain
  <2>3. CASE n = m
    <3>1. PICK i \in 1 .. k : s[i] = c
      BY <1>4, <1>7, <2>1, <2>3
    <3>2. PICK j \in 1 .. k : j = k - i + 1 /\ k - j + 1 = i
      <4>1. k - i + 1 \in 1 .. k /\ k - (k - i + 1) + 1 = i
        OBVIOUS
      <4>2. QED
        BY <4>1
    <3>3. L + j \in 1 .. L + k /\ L + j \in DOMAIN chunk_cache /\ (L + j) - L = j
      BY <1>9
    <3>4. chunk_cache'[L + j] = Reverse(s)[j]
      BY <1>8, <3>3
    <3>5. chunk_cache'[L + j] = c
      BY <1>7, <3>1, <3>2, <3>4
    <3>6. QED
      BY <3>3, <3>5
  <2>4. QED
    BY <2>2, <2>3
<1>14. QED
    BY <1>11, <1>12, <1>13

\* mcobject_async_clean gives every chunk up, but for the first ones it hands out.
LEMMA LostClean ==
    ASSUME AllocInv, Clean
    PROVE  NoChunkLost'
<1>a. ShapeInv /\ ChunkInv
    BY DEF AllocInv
<1>1. SUFFICES ASSUME NEW c \in Chunks, ~Unused(c)' PROVE InSomeChain(c)'
    BY DEF NoChunkLost
<1>2. PICK n \in InUse : Place(n) = c
    BY <1>a, <1>1, CleanPlaces
<1>3. n \in NodeIds /\ nodes'[n].chain = <<c>>
    BY <1>2 DEF Clean, InUse
<1>4. 1 \in DOMAIN <<c>> /\ <<c>>[1] = c
    OBVIOUS
<1>5. QED
    BY <1>3, <1>4 DEF InSomeChain

\* mcobject_async_node_add, _malloc, _free, _node_clean, _node_delete and _clean:
\* a chunk that has been taken from the pool is always in a node's chain, in the
\* hands of the call that takes it, or in the cache; none is leaked, whatever the
\* threads call and however their calls interleave.
THEOREM NoChunkLeaks ==
    ASSUME ~Spinlock
    PROVE  Spec => []NoChunkLost
<1>1. Init => NoChunkLost
  <2>1. SUFFICES ASSUME Init, NEW c \in Chunks PROVE Unused(c)
    BY DEF NoChunkLost
  <2>2. chunks_pos_length = 1 /\ chunks_length = 0
    BY <2>1 DEF Init
  <2>3. QED
    BY <2>2 DEF Unused, Chunks
<1>2. AllocInv /\ NoChunkLost /\ [Next]_vars => NoChunkLost'
  <2>1. SUFFICES ASSUME AllocInv, NoChunkLost, [Next]_vars PROVE NoChunkLost'
    OBVIOUS
  <2>2. CASE UNCHANGED vars
    BY <2>1, <2>2, LostFrame DEF vars, poolVars, nodeVars, callVars
  <2>3. CASE Clean
    BY <2>1, <2>3, LostClean
  <2>4. ASSUME NEW t \in Threads, Locked(t) PROVE NoChunkLost'
    <3>1. CASE Attempt(t)
      BY <2>1, <3>1, LostFrame DEF Attempt, poolVars, nodeVars
    <3>2. CASE TakeNode(t)
      BY <2>1, <3>2, LostFrame DEF TakeNode, poolVars
    <3>3. CASE LoadChunk(t)
      BY <2>1, <3>3, LostFrame DEF LoadChunk, poolVars, nodeVars
    <3>4. CASE StoreChunk(t)
      BY <2>1, <3>4, LostStore
    <3>5. CASE ReturnNode(t) \/ ReturnChunk(t)
      BY <2>1, <3>5, LostReturn
    <3>6. CASE DeleteNode(t)
      BY <2>1, <3>6, LostDelete
    <3>7. QED
      BY <2>4, <3>1, <3>2, <3>3, <3>4, <3>5, <3>6 DEF Locked
  <2>5. ASSUME NEW t \in Threads, Unlocked(t) PROVE NoChunkLost'
    <3>1. CASE NodeAdd(t) \/ MallocGrow(t) \/ NodeDelete(t)
      BY <2>1, <3>1, LostFrame DEF NodeAdd, MallocGrow, NodeDelete, Call, poolVars, nodeVars
    <3>2. CASE MallocSlot(t)
      BY <2>1, <3>2, LostFrame DEF MallocSlot, poolVars, nodeVars, callVars
    <3>3. ASSUME MallocCached(t) \/ MallocNext(t) \/ NodeClean(t) \/ \E o \in Objects : Free(t, o)
          PROVE  NoChunkLost'
      <4>1. nodes \in [NodeIds -> NodeShape]
        BY <2>1 DEF AllocInv, ShapeInv
      <4>2. UNCHANGED <<poolVars, got>>
        BY <3>3 DEF MallocCached, MallocNext, NodeClean, Free, callVars
      <4>3. ASSUME NEW n \in NodeIds PROVE nodes'[n].chain = nodes[n].chain
        <5>1. nodes[n] \in NodeShape
          BY <4>1
        <5>2. CASE MallocCached(t)
          BY <4>1, <5>1, <5>2 DEF MallocCached, NodeShape
        <5>3. CASE MallocNext(t)
          BY <4>1, <5>1, <5>3 DEF MallocNext, NodeShape
        <5>4. CASE NodeClean(t)
          BY <4>1, <5>1, <5>4 DEF NodeClean, NodeShape
        <5>5. CASE \E o \in Objects : Free(t, o)
          <6>1. PICK o \in Objects : Free(t, o)
            BY <5>5
          <6>2. nodes' = [nodes EXCEPT ![header[o]].cache = Append(@, o)]
            BY <6>1 DEF Free
          <6>3. QED
            BY <4>1, <5>1, <6>2 DEF NodeShape
        <5>6. QED
          BY <3>3, <5>2, <5>3, <5>4, <5>5
      <4>4. QED
        BY <2>1, <4>2, <4>3, LostFrame DEF poolVars
    <3>4. QED
      BY <2>5, <3>1, <3>2, <3>3 DEF Unlocked
  <2>6. QED
    BY <2>1, <2>2, <2>3, <2>4, <2>5 DEF Next
<1>3. QED
    BY <1>1, <1>2, AllocInvariance, PTL DEF Spec
=============================================================================
