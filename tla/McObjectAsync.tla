---------------------------- MODULE McObjectAsync ----------------------------
(***************************************************************************)
(* The object allocator the threads of a tree share (mcobject_async):      *)
(* every thread takes objects from a node of its own without a lock, the   *)
(* nodes take chunks from a common pool under the lock of module McSync.   *)
(* For a tree, the main thread takes tokens and attributes from one node   *)
(* of tree->token->nodes_obj and attr_obj, the stream thread from another. *)
(*                                                                         *)
(* A chunk is named by its place in chunks[][].  The list of a node is its *)
(* chain, node->chunk is chain[at].  nodes_size is 64 and no allocator of  *)
(* the program is given more than two nodes: the full table of nodes, for  *)
(* which node_add returns 0, is left out.                                  *)
(***************************************************************************)
EXTENDS McSync, Sequences, SequencesExt

CONSTANTS
    ChunksSize,  \* chunks in one row of chunks[][]
    MaxRows,     \* bound: rows of chunks[][]
    ChunkCap     \* objects in a chunk, origin_size

ASSUME PoolAssumption ==
    ChunksSize \in Nat \ {0} /\ MaxRows \in Nat \ {0} /\ ChunkCap \in Nat \ {0}

NodeIds == 0 .. Cardinality(Threads) - 1
None    == -1
Chunks  == (1 .. MaxRows) \X (0 .. ChunksSize - 1)
Objects == Chunks \X (0 .. ChunkCap - 1)
NoChunk == <<0, 0>>
NoReg == [cached |-> FALSE, n |-> 0]
EmptyNode == [chain |-> << >>, at |-> 0, cache |-> << >>]

VARIABLES
    chunks_pos_length, chunks_length,   \* next place of chunks[][]
    chunk_cache, chunk_cache_length,    \* chunks of deleted nodes
    nodes, nodes_length, nodes_cache,
    used,        \* chunk->length
    header,      \* node_idx stored in front of each object
    mine,        \* the node each thread has added, or None
    op,          \* the call each thread is in
    step, reg, got,  \* where it is in the locked part, the counter it loaded,
                     \* the chunk it has taken
    handed       \* how many holders each object has (history)

poolVars == <<chunks_pos_length, chunks_length, chunk_cache, chunk_cache_length>>
nodeVars == <<nodes, nodes_length, nodes_cache, mine>>
objectVars == <<used, header, handed>>
callVars == <<op, step, reg, got>>
vars == <<syncVars, poolVars, nodeVars, objectVars, callVars>>

Init ==
    /\ SyncInit
    /\ chunks_pos_length = 1 /\ chunks_length = 0
    /\ chunk_cache = [i \in 1 .. Cardinality(Chunks) |-> NoChunk] /\ chunk_cache_length = 0
    /\ nodes = [n \in NodeIds |-> EmptyNode] /\ nodes_length = 0 /\ nodes_cache = << >>
    /\ used = [c \in Chunks |-> 0] /\ header = [o \in Objects |-> None]
    /\ handed = [o \in Objects |-> 0]
    /\ mine = [t \in Threads |-> None]
    /\ op = [t \in Threads |-> "none"] /\ step = [t \in Threads |-> "lock"]
    /\ reg = [t \in Threads |-> NoReg]
    /\ got = [t \in Threads |-> NoChunk]

Idle(t) == op[t] = "none"
Ready(t) == Idle(t) /\ mine[t] # None
Inside(t, s) == sync[t] = "in" /\ step[t] = s
Node(t) == nodes[mine[t]]
ChunkOf(t) == Node(t).chain[Node(t).at]

\* Bound: the pool has a chunk left besides those asked for already.
ChunksLeft ==
    Cardinality(Chunks) - ((chunks_pos_length - 1) * ChunksSize + chunks_length)
        + chunk_cache_length > Cardinality({t \in Threads : op[t] \in {"add", "grow"}})

\* The call leaves the lock and is over.
Return(t) ==
    /\ Unlock(t)
    /\ op' = [op EXCEPT ![t] = "none"]
    /\ step' = [step EXCEPT ![t] = "lock"]
    /\ got' = [got EXCEPT ![t] = NoChunk]
    /\ reg' = [reg EXCEPT ![t] = NoReg]

-----------------------------------------------------------------------------
(***************************************************************************)
(* Faulty variants of actions below, to show that the properties can fail. *)
(***************************************************************************)

\* StoreChunk that starts a new row without counting its first chunk.
StoreChunkUncounted(t) ==
    /\ Inside(t, "store")
    /\ IF reg[t].cached
         THEN /\ chunk_cache_length' = reg[t].n - 1
              /\ got' = [got EXCEPT ![t] = chunk_cache[reg[t].n]]
              /\ UNCHANGED <<chunks_pos_length, chunks_length>>
         ELSE /\ IF reg[t].n >= ChunksSize
                   THEN /\ chunks_pos_length' = chunks_pos_length + 1
                        /\ chunks_length' = 0
                        /\ got' = [got EXCEPT ![t] = <<chunks_pos_length + 1, 0>>]
                   ELSE /\ chunks_length' = reg[t].n + 1
                        /\ got' = [got EXCEPT ![t] = <<chunks_pos_length, reg[t].n>>]
                        /\ UNCHANGED chunks_pos_length
              /\ UNCHANGED chunk_cache_length
    /\ used' = [used EXCEPT ![got'[t]] = 0]
    /\ step' = [step EXCEPT ![t] = "done"]
    /\ UNCHANGED <<syncVars, chunk_cache, nodeVars, header, handed, op, reg>>

\* NodeClean that keeps the list of freed objects.
NodeCleanKeepsCache(t) ==
    /\ Ready(t)
    /\ nodes' = [nodes EXCEPT ![mine[t]].at = 1]
    /\ used' = [used EXCEPT ![Node(t).chain[1]] = 0]
    /\ handed' = [o \in Objects |-> IF header[o] = mine[t] THEN 0 ELSE handed[o]]
    /\ UNCHANGED <<syncVars, poolVars, nodes_length, nodes_cache, mine, header, callVars>>

\* ReturnChunk that does not write the header of the object.
ReturnChunkNoHeader(t) ==
    /\ Inside(t, "done") /\ op[t] = "grow"
    /\ nodes' = [nodes EXCEPT ![mine[t]].chain = Append(@, got[t]), ![mine[t]].at = @ + 1]
    /\ used' = [used EXCEPT ![got[t]] = 1]
    /\ handed' = [handed EXCEPT ![<<got[t], 0>>] = @ + 1]
    /\ Return(t)
    /\ UNCHANGED <<poolVars, nodes_length, nodes_cache, mine, header>>

\* DeleteNode that begins at node->chunk, not at the end of the list behind it.
DeleteNodeFromCurrent(t) ==
    /\ Inside(t, "delete")
    /\ LET freed == Reverse(SubSeq(Node(t).chain, 1, Node(t).at)) IN
         /\ chunk_cache' = [i \in DOMAIN chunk_cache |->
                               IF i - chunk_cache_length \in DOMAIN freed
                                 THEN freed[i - chunk_cache_length] ELSE chunk_cache[i]]
         /\ chunk_cache_length' = chunk_cache_length + Len(freed)
    /\ nodes' = [nodes EXCEPT ![mine[t]] = EmptyNode]
    /\ nodes_cache' = Append(nodes_cache, mine[t])
    /\ mine' = [mine EXCEPT ![t] = None]
    /\ handed' = [o \in Objects |-> IF header[o] = mine[t] THEN 0 ELSE handed[o]]
    /\ Return(t)
    /\ UNCHANGED <<chunks_pos_length, chunks_length, nodes_length, used, header>>

-----------------------------------------------------------------------------
(***************************************************************************)
(* mcobject_async_node_add, mcobject_async_chunk_malloc and                *)
(* mcobject_async_node_delete: the calls that take the lock.               *)
(***************************************************************************)
Call(t, name) ==
    /\ Idle(t)
    /\ LockCall(t)
    /\ op' = [op EXCEPT ![t] = name]
    /\ UNCHANGED <<poolVars, nodeVars, objectVars, step, reg, got>>

NodeAdd(t) == mine[t] = None /\ ChunksLeft /\ Call(t, "add")

\* mcobject_async_malloc with a full last chunk: one more is asked for.
MallocGrow(t) ==
    /\ Ready(t) /\ Node(t).cache = << >>
    /\ used[ChunkOf(t)] >= ChunkCap /\ Node(t).at = Len(Node(t).chain)
    /\ ChunksLeft
    /\ Call(t, "grow")

NodeDelete(t) == Ready(t) /\ Call(t, "delete")

Attempt(t) ==
    /\ LockTry(t)
    /\ step' = [step EXCEPT ![t] = IF op[t] = "add" THEN "node"
                                   ELSE IF op[t] = "grow" THEN "load" ELSE "delete"]
    /\ UNCHANGED <<poolVars, nodeVars, objectVars, op, reg, got>>

\* node_add picks the index of a deleted node, or a new one.
TakeNode(t) ==
    /\ Inside(t, "node")
    /\ \/ /\ nodes_cache # << >>
          /\ mine' = [mine EXCEPT ![t] = Last(nodes_cache)]
          /\ nodes_cache' = Front(nodes_cache)
          /\ UNCHANGED nodes_length
       \/ /\ nodes_cache = << >>
          /\ mine' = [mine EXCEPT ![t] = nodes_length]
          /\ nodes_length' = nodes_length + 1
          /\ UNCHANGED nodes_cache
    /\ step' = [step EXCEPT ![t] = "load"]
    /\ UNCHANGED <<syncVars, poolVars, objectVars, nodes, op, reg, got>>

\* chunk_malloc_without_lock loads the counter it is about to change ...
LoadChunk(t) ==
    /\ Inside(t, "load")
    /\ reg' = [reg EXCEPT ![t] = [cached |-> chunk_cache_length > 0,
                                  n |-> IF chunk_cache_length > 0 THEN chunk_cache_length
                                                                  ELSE chunks_length]]
    /\ step' = [step EXCEPT ![t] = "store"]
    /\ UNCHANGED <<syncVars, poolVars, nodeVars, objectVars, op, got>>

\* ... and stores it: a cached chunk, or the next place of chunks[][], in a new
\* row (mcobject_async_chunk_up) when the row is full.
StoreChunk(t) ==
    /\ Inside(t, "store")
    /\ IF reg[t].cached
         THEN /\ chunk_cache_length' = reg[t].n - 1
              /\ got' = [got EXCEPT ![t] = chunk_cache[reg[t].n]]
              /\ UNCHANGED <<chunks_pos_length, chunks_length>>
         ELSE /\ IF reg[t].n >= ChunksSize
                   THEN /\ chunks_pos_length' = chunks_pos_length + 1
                        /\ chunks_length' = 1
                        /\ got' = [got EXCEPT ![t] = <<chunks_pos_length + 1, 0>>]
                   ELSE /\ chunks_length' = reg[t].n + 1
                        /\ got' = [got EXCEPT ![t] = <<chunks_pos_length, reg[t].n>>]
                        /\ UNCHANGED chunks_pos_length
              /\ UNCHANGED chunk_cache_length
    /\ used' = [used EXCEPT ![got'[t]] = 0]
    /\ step' = [step EXCEPT ![t] = "done"]
    /\ UNCHANGED <<syncVars, chunk_cache, nodeVars, header, handed, op, reg>>

ReturnNode(t) ==
    /\ Inside(t, "done") /\ op[t] = "add"
    /\ nodes' = [nodes EXCEPT ![mine[t]] = [chain |-> <<got[t]>>, at |-> 1, cache |-> << >>]]
    /\ Return(t)
    /\ UNCHANGED <<poolVars, objectVars, nodes_length, nodes_cache, mine>>

\* The new chunk goes to the end of the chain and gives its first object.
ReturnChunk(t) ==
    /\ Inside(t, "done") /\ op[t] = "grow"
    /\ nodes' = [nodes EXCEPT ![mine[t]].chain = Append(@, got[t]), ![mine[t]].at = @ + 1]
    /\ used' = [used EXCEPT ![got[t]] = 1]
    /\ header' = [header EXCEPT ![<<got[t], 0>>] = mine[t]]
    /\ handed' = [handed EXCEPT ![<<got[t], 0>>] = @ + 1]
    /\ Return(t)
    /\ UNCHANGED <<poolVars, nodes_length, nodes_cache, mine>>

\* node_delete: the chain goes to the cache of chunks, last chunk first, and
\* the index of the node to the cache of nodes.  Its objects are gone.
DeleteNode(t) ==
    /\ Inside(t, "delete")
    /\ LET freed == Reverse(Node(t).chain) IN
         /\ chunk_cache' = [i \in DOMAIN chunk_cache |->
                               IF i - chunk_cache_length \in DOMAIN freed
                                 THEN freed[i - chunk_cache_length] ELSE chunk_cache[i]]
         /\ chunk_cache_length' = chunk_cache_length + Len(freed)
    /\ nodes' = [nodes EXCEPT ![mine[t]] = EmptyNode]
    /\ nodes_cache' = Append(nodes_cache, mine[t])
    /\ mine' = [mine EXCEPT ![t] = None]
    /\ handed' = [o \in Objects |-> IF header[o] = mine[t] THEN 0 ELSE handed[o]]
    /\ Return(t)
    /\ UNCHANGED <<chunks_pos_length, chunks_length, nodes_length, used, header>>

-----------------------------------------------------------------------------
(***************************************************************************)
(* mcobject_async_malloc, _free and _node_clean on a thread's own node.    *)
(***************************************************************************)
MallocCached(t) ==
    /\ Ready(t) /\ Node(t).cache # << >>
    /\ handed' = [handed EXCEPT ![Last(Node(t).cache)] = @ + 1]
    /\ nodes' = [nodes EXCEPT ![mine[t]].cache = Front(@)]
    /\ UNCHANGED <<syncVars, poolVars, nodes_length, nodes_cache, mine, used, header, callVars>>

MallocSlot(t) ==
    /\ Ready(t) /\ Node(t).cache = << >>
    /\ used[ChunkOf(t)] < ChunkCap
    /\ LET o == <<ChunkOf(t), used[ChunkOf(t)]>> IN
         /\ header' = [header EXCEPT ![o] = mine[t]]
         /\ handed' = [handed EXCEPT ![o] = @ + 1]
    /\ used' = [used EXCEPT ![ChunkOf(t)] = @ + 1]
    /\ UNCHANGED <<syncVars, poolVars, nodeVars, callVars>>

\* A chunk further down the chain, left from before node_clean, is used again.
MallocNext(t) ==
    /\ Ready(t) /\ Node(t).cache = << >>
    /\ used[ChunkOf(t)] >= ChunkCap /\ Node(t).at < Len(Node(t).chain)
    /\ LET c == Node(t).chain[Node(t).at + 1] IN
         /\ used' = [used EXCEPT ![c] = 1]
         /\ header' = [header EXCEPT ![<<c, 0>>] = mine[t]]
         /\ handed' = [handed EXCEPT ![<<c, 0>>] = @ + 1]
    /\ nodes' = [nodes EXCEPT ![mine[t]].at = @ + 1]
    /\ UNCHANGED <<syncVars, poolVars, nodes_length, nodes_cache, mine, callVars>>

\* The object goes to the cache of the node its header names.
Free(t, o) ==
    /\ Ready(t)
    /\ handed[o] > 0 /\ header[o] = mine[t]
    /\ nodes' = [nodes EXCEPT ![header[o]].cache = Append(@, o)]
    /\ handed' = [handed EXCEPT ![o] = @ - 1]
    /\ UNCHANGED <<syncVars, poolVars, nodes_length, nodes_cache, mine, used, header, callVars>>

\* myhtml_tree_clean, myhtml_token_clean: back to the first chunk, the objects
\* of the node are forgotten.
NodeClean(t) ==
    /\ Ready(t)
    /\ nodes' = [nodes EXCEPT ![mine[t]].at = 1, ![mine[t]].cache = << >>]
    /\ used' = [used EXCEPT ![Node(t).chain[1]] = 0]
    /\ handed' = [o \in Objects |-> IF header[o] = mine[t] THEN 0 ELSE handed[o]]
    /\ UNCHANGED <<syncVars, poolVars, nodes_length, nodes_cache, mine, header, callVars>>

\* The nodes in use, and the place in chunks[][] of the chunk that each one
\* gets when chunks are given out from the first on, in the order of the nodes.
InUse == {n \in NodeIds : nodes[n].chain # << >>}
Nth(n) == Cardinality({m \in InUse : m < n})
Place(n) == <<1 + (Nth(n) \div ChunksSize), Nth(n) % ChunksSize>>

\* mcobject_async_clean, with no other call under way: every chunk is free
\* again and each node in use gets a new first one.
Clean ==
    /\ \A t \in Threads : Idle(t)
    /\ nodes' = [n \in NodeIds |->
                   IF n \in InUse THEN [chain |-> <<Place(n)>>, at |-> 1, cache |-> << >>]
                                  ELSE nodes[n]]
    /\ used' = [c \in Chunks |-> IF \E n \in InUse : c = Place(n) THEN 0 ELSE used[c]]
    /\ LET k == Cardinality(InUse) IN
         /\ chunks_pos_length' = IF k = 0 THEN 1 ELSE 1 + ((k - 1) \div ChunksSize)
         /\ chunks_length' = IF k = 0 THEN 0 ELSE 1 + ((k - 1) % ChunksSize)
    /\ chunk_cache_length' = 0
    /\ handed' = [o \in Objects |-> 0]
    /\ UNCHANGED <<syncVars, chunk_cache, nodes_length, nodes_cache, mine, header, callVars>>

Locked(t) ==
    \/ Attempt(t) \/ TakeNode(t) \/ LoadChunk(t) \/ StoreChunk(t)
    \/ ReturnNode(t) \/ ReturnChunk(t) \/ DeleteNode(t)

Unlocked(t) ==
    \/ NodeAdd(t) \/ MallocGrow(t) \/ NodeDelete(t)
    \/ MallocCached(t) \/ MallocSlot(t) \/ MallocNext(t) \/ NodeClean(t)
    \/ \E o \in Objects : Free(t, o)

Next == Clean \/ \E t \in Threads : Locked(t) \/ Unlocked(t)

Spec == Init /\ [][Next]_vars

-----------------------------------------------------------------------------
\* Type invariant.
TypeOK ==
    /\ LockWordInv
    /\ chunks_pos_length \in 1 .. MaxRows /\ chunks_length \in 0 .. ChunksSize
    /\ chunk_cache_length \in 0 .. Cardinality(Chunks)
    /\ nodes_length \in 0 .. Cardinality(Threads)
    /\ mine \in [Threads -> NodeIds \union {None}]
    /\ used \in [Chunks -> 0 .. ChunkCap]
    /\ header \in [Objects -> NodeIds \union {None}]
    /\ handed \in [Objects -> Nat]
    /\ op \in [Threads -> {"none", "add", "grow", "delete"}]
    /\ got \in [Threads -> Chunks \union {NoChunk}]

\* A chunk is in one place only: in the chain of one node, once, in the hands
\* of the one thread that has just taken it, in the cache of chunks, once, or
\* among those not used yet.  No two threads write into the same chunk.
Unused(c) == c[1] > chunks_pos_length
            \/ (c[1] = chunks_pos_length /\ c[2] >= chunks_length)
ChunkOwned ==
    \A c \in Chunks :
        Cardinality({p \in NodeIds \X (1 .. Cardinality(Chunks)) :
                        p[2] \in DOMAIN nodes[p[1]].chain /\ nodes[p[1]].chain[p[2]] = c})
        + Cardinality({t \in Threads : got[t] = c})
        + Cardinality({i \in 1 .. chunk_cache_length : chunk_cache[i] = c})
        + (IF Unused(c) THEN 1 ELSE 0) <= 1

\* And it is in one of these places at least: no chunk is lost, whatever is
\* grown, cleaned, deleted and added again.  A lost one would stay allocated, out
\* of every node's reach, until mcobject_async_clean or the allocator's end.
InSomeChain(c) == \E n \in NodeIds : \E i \in DOMAIN nodes[n].chain : nodes[n].chain[i] = c
NoChunkLost ==
    \A c \in Chunks :
        \/ Unused(c)
        \/ InSomeChain(c)
        \/ \E t \in Threads : got[t] = c
        \/ \E i \in 1 .. chunk_cache_length : chunk_cache[i] = c

\* No object has two holders, and none is kept for the next malloc while it is
\* held, or kept twice.
OneHolder ==
    /\ \A o \in Objects : handed[o] <= 1
    /\ \A n \in NodeIds : \A i, j \in DOMAIN nodes[n].cache :
          /\ handed[nodes[n].cache[i]] = 0
          /\ nodes[n].cache[i] = nodes[n].cache[j] => i = j

\* The header of an object that is held names the node it came from, so that
\* mcobject_async_free returns it there and to no other thread's node.
HeaderNamesOwner ==
    \A o \in Objects : handed[o] > 0 =>
        /\ header[o] \in NodeIds
        /\ \E i \in 1 .. nodes[header[o]].at :
              nodes[header[o]].chain[i] = o[1] /\ o[2] < used[o[1]]
-----------------------------------------------------------------------------
(***************************************************************************)
(* Inductive invariant of an allocator whose lock excludes, in parts: what *)
(* the variables may hold, where each call is, whose each node is, where   *)
(* each chunk is, and where each object is.                                *)
(***************************************************************************)
NodeShape == [chain : Seq(Chunks), at : Nat, cache : Seq(Objects)]

ShapeInv ==
    /\ chunks_pos_length \in 1 .. MaxRows /\ chunks_length \in 0 .. ChunksSize
    /\ chunk_cache_length \in 0 .. Cardinality(Chunks)
    /\ chunk_cache \in [1 .. Cardinality(Chunks) -> Chunks \union {NoChunk}]
    /\ nodes \in [NodeIds -> NodeShape]
    /\ nodes_length \in 0 .. Cardinality(Threads) /\ nodes_cache \in Seq(NodeIds)
    /\ mine \in [Threads -> NodeIds \union {None}]
    /\ used \in [Chunks -> 0 .. ChunkCap]
    /\ header \in [Objects -> NodeIds \union {None}]
    /\ handed \in [Objects -> Nat]
    /\ op \in [Threads -> {"none", "add", "grow", "delete"}]
    /\ step \in [Threads -> {"lock", "node", "load", "store", "done", "delete"}]
    /\ reg \in [Threads -> [cached : BOOLEAN, n : Nat]]
    /\ got \in [Threads -> Chunks \union {NoChunk}]

\* A thread inside the lock is at a step of its call, and what it has loaded
\* of the pool is what the pool holds.
CallAt(t) ==
    /\ sync[t] = "out" <=> op[t] = "none"
    /\ sync[t] # "in" <=> step[t] = "lock"
    /\ step[t] = "node" => op[t] = "add" /\ mine[t] = None
    /\ step[t] \in {"load", "store", "done"} => op[t] \in {"add", "grow"} /\ mine[t] # None
    /\ step[t] = "delete" => op[t] = "delete"
    /\ op[t] = "add" /\ step[t] = "lock" => mine[t] = None
    /\ op[t] \in {"grow", "delete"} => mine[t] # None
    /\ step[t] = "store" =>
          /\ reg[t].cached = (chunk_cache_length > 0)
          /\ reg[t].n = IF reg[t].cached THEN chunk_cache_length ELSE chunks_length
    /\ step[t] = "done" <=> got[t] # NoChunk
CallInv == \A t \in Threads : CallAt(t)

\* A thread may use its node: it has one, and node_add is over.
Owns(t) == mine[t] # None /\ op[t] # "add"

NodeInv ==
    /\ \A t, u \in Threads : mine[t] = mine[u] /\ mine[t] # None => t = u
    /\ \A t \in Threads : mine[t] < nodes_length
    /\ \A i \in DOMAIN nodes_cache :
          /\ nodes_cache[i] < nodes_length
          /\ \A t \in Threads : mine[t] # nodes_cache[i]
          /\ \A j \in DOMAIN nodes_cache : nodes_cache[i] = nodes_cache[j] => i = j
    /\ \A n \in NodeIds : n < nodes_length =>
          \/ \E t \in Threads : mine[t] = n
          \/ \E i \in DOMAIN nodes_cache : nodes_cache[i] = n
    /\ \A t \in Threads : Owns(t) => /\ Node(t).at \in 1 .. Len(Node(t).chain)
                                     /\ op[t] = "grow" => Node(t).at = Len(Node(t).chain)
    /\ \A n \in NodeIds : (\A t \in Threads : Owns(t) => mine[t] # n) => nodes[n] = EmptyNode

\* Calls that still need a chunk, and the chunks that are left for them.
Demand == {t \in Threads : op[t] \in {"add", "grow"} /\ step[t] # "done"}
Handed == (chunks_pos_length - 1) * ChunksSize + chunks_length

ChunkInv ==
    /\ \A n, m \in NodeIds : \A i \in DOMAIN nodes[n].chain, j \in DOMAIN nodes[m].chain :
          nodes[n].chain[i] = nodes[m].chain[j] => n = m /\ i = j
    /\ \A n \in NodeIds : \A i \in DOMAIN nodes[n].chain :
          /\ ~Unused(nodes[n].chain[i])
          /\ \A t \in Threads : got[t] # nodes[n].chain[i]
          /\ \A j \in 1 .. chunk_cache_length : chunk_cache[j] # nodes[n].chain[i]
    /\ \A i \in 1 .. chunk_cache_length :
          /\ chunk_cache[i] \in Chunks /\ ~Unused(chunk_cache[i])
          /\ \A t \in Threads : got[t] # chunk_cache[i]
          /\ \A j \in 1 .. chunk_cache_length : chunk_cache[i] = chunk_cache[j] => i = j
    /\ \A t \in Threads : got[t] \in Chunks => ~Unused(got[t])
    /\ Cardinality(Demand) <= Cardinality(Chunks) - Handed + chunk_cache_length

\* Object o lies in a chunk of node n that is in use, among those handed out.
LiesIn(o, n) ==
    /\ header[o] = n
    /\ o[2] < used[o[1]]
    /\ \E i \in 1 .. nodes[n].at : i \in DOMAIN nodes[n].chain /\ nodes[n].chain[i] = o[1]

ObjectInv ==
    /\ \A o \in Objects : /\ handed[o] <= 1
                          /\ handed[o] > 0 => header[o] \in NodeIds /\ LiesIn(o, header[o])
    /\ \A n \in NodeIds : \A i \in DOMAIN nodes[n].cache :
          /\ LiesIn(nodes[n].cache[i], n)
          /\ handed[nodes[n].cache[i]] = 0
          /\ \A j \in DOMAIN nodes[n].cache : nodes[n].cache[i] = nodes[n].cache[j] => i = j

LockInv == LockWordInv /\ MutualExclusion
AllocInv == LockInv /\ ShapeInv /\ CallInv /\ NodeInv /\ ChunkInv /\ ObjectInv
=============================================================================
