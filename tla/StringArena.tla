----------------------------- MODULE StringArena -----------------------------
(***************************************************************************)
(* One arena of mchar_async.c, a node of it as the code says, and the      *)
(* strings that lie in it (mystring.c).  Only its thread uses an arena, so *)
(* a call is an operator: what the arena is after it.                      *)
(*                                                                         *)
(* An arena is a record:                                                   *)
(*   chunks  the chunks of memory, in the order they were made: how many   *)
(*           characters each has (size) and how many are used (length)     *)
(*   list    their numbers in the order they are linked in                 *)
(*   cur     the place in that list of the chunk at hand (node->chunk)     *)
(*   cache   blocks that were freed, in the order of the links of the      *)
(*           cache's tree.  cache_add puts a new node above a larger one,  *)
(*           with the larger one to its right, and never one to a node's   *)
(*           left: the tree is a list, sorted by size.                     *)
(* A block is the memory of one string: its chunk, where it begins (at)    *)
(* and its size, which the code keeps in SizeWord characters before it.    *)
(* Chunks freed by mchar_async_node_delete are left out: the library       *)
(* deletes a node only when it destroys the arena.                         *)
(***************************************************************************)
EXTENDS Naturals, SequencesExt

CONSTANTS Origin,      \* origin_size: the size of a chunk
          SizeWord     \* sizeof(size_t)

ASSUME ArenaAssumption == Origin \in Nat /\ SizeWord \in Nat \ {0} /\ Origin > SizeWord

NewArena == [chunks |-> <<[size |-> Origin, length |-> 0]>>, list |-> <<1>>, cur |-> 1,
             cache |-> <<>>]

(* mchar_async_node_clean: back to the first chunk, the others stay linked. *)
Rewound(a) ==
    [a EXCEPT !.cur = 1, !.cache = <<>>, !.chunks[Head(a.list)].length = 0]

CacheAdd(cache, block) ==
    LET place == SelectInSeq(cache, LAMBDA b : b.size >= block.size)
    IN  IF place = 0 THEN Append(cache, block)
        ELSE IF cache[place].size = block.size THEN InsertAt(cache, place + 1, block)
        ELSE InsertAt(cache, place, block)

(* mchar_async_cache_delete: the smallest that is large enough, the last of
   those that have the size itself; 0 if there is none. *)
BestFit(cache, size) ==
    LET place == SelectInSeq(cache, LAMBDA b : b.size >= size)
    IN  IF place # 0 /\ cache[place].size = size
        THEN SelectLastInSeq(cache, LAMBDA b : b.size = size)
        ELSE place

(* mchar_async_free *)
Free(a, block) == [a EXCEPT !.cache = CacheAdd(@, block)]

CurrentId(a) == a.list[a.cur]
Current(a) == a.chunks[CurrentId(a)]

(* What is left of a chunk that a string does not fit in can be a block. *)
CacheTail(a) ==
    LET chunk == Current(a)
        begin == chunk.length + SizeWord
    IN  IF begin >= chunk.size THEN a
        ELSE Free([a EXCEPT !.chunks[CurrentId(a)].length = chunk.size],
                  [chunk |-> CurrentId(a), at |-> begin, size |-> chunk.size - begin])

(* mchar_sync_chunk_find_by_size and mchar_sync_chunk_insert_after: a chunk
   behind the one at hand that has the room is put next to it. *)
NextChunk(a, need) ==
    LET place == SelectInSubSeq(a.list, a.cur + 1, Len(a.list),
                                LAMBDA c : a.chunks[c].size >= need)
        found == a.list[place]
        fresh == Len(a.chunks) + 1
    IN  IF place # 0
        THEN [a EXCEPT !.list = InsertAt(RemoveAt(@, place), a.cur + 1, found),
                       !.chunks[found].length = 0,
                       !.cur = @ + 1]
        ELSE [a EXCEPT !.list = InsertAt(@, a.cur + 1, fresh),
                       !.chunks = Append(@, [size |-> IF need > Origin THEN need + Origin ELSE Origin,
                                             length |-> 0]),
                       !.cur = @ + 1]

(* The block is cut from the chunk at hand. *)
Cut(a, size) ==
    LET chunk == Current(a)
        at == chunk.length + SizeWord
    IN  [arena |-> [a EXCEPT !.chunks[CurrentId(a)].length = at + size],
         block |-> [chunk |-> CurrentId(a), at |-> at, size |-> size]]

(* mchar_async_malloc, of a size that is not 0 *)
Malloc(a, size) ==
    LET place == BestFit(a.cache, size)
    IN  IF place # 0
        THEN [arena |-> [a EXCEPT !.cache = RemoveAt(@, place)], block |-> a.cache[place]]
        ELSE IF Current(a).length + size + SizeWord > Current(a).size
        THEN Cut(NextChunk(CacheTail(a), size + SizeWord), size)
        ELSE Cut(a, size)

(* Faulty variant of GrowsInPlace: the block may be anywhere in the chunk. *)
GrowsAnywhere(a, block, size) ==
    /\ block.chunk = CurrentId(a)
    /\ Current(a).length - block.size + size <= Current(a).size

(* Only the last block of the chunk at hand has free room behind it. *)
GrowsInPlace(a, block, size) ==
    /\ block.chunk = CurrentId(a)
    /\ Current(a).length = block.at + block.size
    /\ Current(a).length - block.size + size <= Current(a).size

(* mchar_async_realloc.  What the string holds is copied, then its block is
   freed. *)
Realloc(a, block, size) ==
    IF block.size >= size THEN [arena |-> a, block |-> block]
    ELSE IF GrowsInPlace(a, block, size)
    THEN [arena |-> [a EXCEPT !.chunks[CurrentId(a)].length = @ - block.size + size],
          block |-> [block EXCEPT !.size = size]]
    ELSE LET m == Malloc(a, size) IN [m EXCEPT !.arena = Free(@, block)]

-----------------------------------------------------------------------------
(* Strings: a block, the characters in use (length) and the size the string
   takes itself to have.  Calls on strings give an arena and a string. *)

(* mycore_string_init *)
StringInit(a, size) ==
    LET m == Malloc(a, size)
    IN  [arena |-> m.arena,
         str |-> [block |-> m.block, length |-> 0, size |-> size, cropped |-> FALSE]]

(* Faulty variant of StringAppend: no room is asked for the final 0. *)
StringAppendUnended(a, str, n) ==
    LET m == IF str.length + n > str.size
             THEN Realloc(a, str.block, str.length + n + 1)
             ELSE [arena |-> a, block |-> str.block]
    IN  [arena |-> m.arena,
         str |-> [str EXCEPT !.block = m.block, !.length = @ + n,
                             !.size = IF str.length + n > str.size THEN str.length + n + 1 ELSE @]]

(* mycore_string_append, with MyCORE_STRING_REALLOC_IF_NEED *)
StringAppend(a, str, n) ==
    LET grows == str.length + n + 1 >= str.size
        m == IF grows THEN Realloc(a, str.block, str.length + n + 1)
             ELSE [arena |-> a, block |-> str.block]
    IN  [arena |-> m.arena,
         str |-> [str EXCEPT !.block = m.block, !.length = @ + n,
                             !.size = IF grows THEN str.length + n + 1 ELSE @]]

(* mchar_async_crop_first_chars_without_cache and what its callers do with
   the string: the block loses the first n characters, and the string's
   size is not set. *)
StringCrop(str, n) ==
    [str EXCEPT !.block.at = @ + n, !.block.size = @ - n, !.length = @ - n, !.cropped = TRUE]

(* What a string needs: its characters and the 0 behind them. *)
Fits(str) == str.length + 1 <= str.block.size

-----------------------------------------------------------------------------
(* A block with its size word takes the places from First on, below Behind. *)
First(block) == block.at - SizeWord
Behind(block) == block.at + block.size

Apart(b, c) == b.chunk # c.chunk \/ Behind(b) <= First(c) \/ Behind(c) <= First(b)

InChunk(a, block) ==
    /\ block.chunk \in ToSet(SubSeq(a.list, 1, a.cur))
    /\ First(block) >= 0 /\ block.size > 0
    /\ Behind(block) <= a.chunks[block.chunk].length

-----------------------------------------------------------------------------
(***************************************************************************)
(* What every call keeps of an arena whose blocks in use are those of the  *)
(* set used: with it no call hands out memory that is in use.              *)
(***************************************************************************)
Block == [chunk : Nat, at : Nat, size : Nat \ {0}]
Arena == [chunks : Seq([size : Nat, length : Nat]), list : Seq(Nat), cur : Nat, cache : Seq(Block)]

(* Every chunk is linked in once, and used up to its size at most. *)
ChunksLinked(a) ==
    /\ a.cur \in DOMAIN a.list
    /\ \A i \in DOMAIN a.list : a.list[i] \in DOMAIN a.chunks
    /\ \A i, j \in DOMAIN a.list : a.list[i] = a.list[j] => i = j
    /\ \A c \in DOMAIN a.chunks : a.chunks[c].length <= a.chunks[c].size

ArenaSound(a, used) ==
    /\ a \in Arena /\ ChunksLinked(a) /\ used \subseteq Block
    /\ \A b, c \in used : b # c => Apart(b, c)
    /\ \A i, j \in DOMAIN a.cache : i # j => Apart(a.cache[i], a.cache[j])
    /\ \A i \in DOMAIN a.cache, b \in used : Apart(a.cache[i], b)
    /\ \A i \in DOMAIN a.cache : InChunk(a, a.cache[i])
    /\ \A b \in used : InChunk(a, b)

(* What every call keeps of a string. *)
String == [block : Block, length : Nat, size : Nat, cropped : BOOLEAN]
StringSound(str) ==
    /\ str \in String
    /\ str.cropped \/ (str.size <= str.block.size /\ Fits(str))
=============================================================================
