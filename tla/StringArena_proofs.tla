--------------------------- MODULE StringArena_proofs ---------------------------
(***************************************************************************)
(* An arena never hands out memory that is in use, for chunks and strings  *)
(* of any size: every call keeps ArenaSound, for the blocks that are in    *)
(* use after it.                                                           *)
(***************************************************************************)
EXTENDS StringArena, FiniteSetTheorems, SequenceTheorems, WellFoundedInduction, TLAPS

USE ArenaAssumption

\* A sequence with an element put in.
LEMMA InsertAtFacts ==
    ASSUME NEW T, NEW s \in Seq(T), NEW e \in T, NEW p \in 1 .. Len(s) + 1
    PROVE  /\ InsertAt(s, p, e) \in Seq(T) /\ Len(InsertAt(s, p, e)) = Len(s) + 1
           /\ \A i \in 1 .. Len(s) + 1 :
                 InsertAt(s, p, e)[i] = IF i < p THEN s[i] ELSE IF i = p THEN e ELSE s[i - 1]
<1> DEFINE front == SubSeq(s, 1, p - 1)
           back == SubSeq(s, p, Len(s))
           one == <<e>>
<1>0. Len(s) \in Nat /\ \A i \in 1 .. Len(s) : s[i] \in T
    BY LenProperties, ElementOfSeq
<1>1. front \in Seq(T) /\ Len(front) = p - 1 /\ \A i \in 1 .. p - 1 : front[i] = s[i]
  <2>1. 1 \in Int /\ p - 1 \in Int /\ \A i \in 1 .. p - 1 : s[i] \in T
    BY <1>0
  <2>2. /\ front \in Seq(T) /\ Len(front) = IF 1 <= p - 1 THEN (p - 1) - 1 + 1 ELSE 0
        /\ \A i \in 1 .. (p - 1) - 1 + 1 : front[i] = s[1 + i - 1]
    BY <2>1, SubSeqProperties
  <2> HIDE DEF front
  <2>3. QED
    BY <1>0, <2>2
<1>2. back \in Seq(T) /\ Len(back) = Len(s) - p + 1 /\ \A i \in 1 .. Len(s) - p + 1 : back[i] = s[p + i - 1]
  <2>1. Len(s) \in Int /\ p \in Int /\ \A i \in p .. Len(s) : s[i] \in T
    BY <1>0
  <2>2. /\ back \in Seq(T) /\ Len(back) = IF p <= Len(s) THEN Len(s) - p + 1 ELSE 0
        /\ \A i \in 1 .. Len(s) - p + 1 : back[i] = s[p + i - 1]
    BY <2>1, SubSeqProperties
  <2> HIDE DEF back
  <2>3. QED
    BY <1>0, <2>2
<1>3. one \in Seq(T) /\ Len(one) = 1 /\ one[1] = e
    OBVIOUS
<1> HIDE DEF front, back, one
<1>4. /\ front \o one \in Seq(T) /\ Len(front \o one) = p
      /\ \A i \in 1 .. p : (front \o one)[i] = IF i < p THEN s[i] ELSE e
  <2>1. /\ front \o one \in Seq(T) /\ Len(front \o one) = Len(front) + Len(one)
        /\ \A i \in 1 .. Len(front) + Len(one) :
              (front \o one)[i] = IF i <= Len(front) THEN front[i] ELSE one[i - Len(front)]
    BY <1>1, <1>3, ConcatProperties
  <2>2. QED
    BY <1>0, <1>1, <1>3, <2>1
<1>5. /\ (front \o one) \o back \in Seq(T) /\ Len((front \o one) \o back) = Len(s) + 1
      /\ \A i \in 1 .. Len(s) + 1 :
            ((front \o one) \o back)[i] = IF i <= p THEN (front \o one)[i] ELSE back[i - p]
  <2>1. /\ (front \o one) \o back \in Seq(T)
        /\ Len((front \o one) \o back) = Len(front \o one) + Len(back)
        /\ \A i \in 1 .. Len(front \o one) + Len(back) :
              ((front \o one) \o back)[i]
                 = IF i <= Len(front \o one) THEN (front \o one)[i] ELSE back[i - Len(front \o one)]
    BY <1>2, <1>4, ConcatProperties
  <2>2. p + (Len(s) - p + 1) = Len(s) + 1
    BY <1>0
  <2>3. QED
    BY <1>2, <1>4, <2>1, <2>2
<1>6. InsertAt(s, p, e) = (front \o one) \o back
    BY DEF InsertAt, front, one, back
<1>7. ASSUME NEW i \in 1 .. Len(s) + 1
      PROVE  InsertAt(s, p, e)[i] = IF i < p THEN s[i] ELSE IF i = p THEN e ELSE s[i - 1]
  <2>1. CASE i <= p
    BY <1>0, <1>4, <1>5, <1>6, <2>1
  <2>2. CASE i > p
    <3>1. i - p \in 1 .. Len(s) - p + 1 /\ p + (i - p) - 1 = i - 1
      BY <1>0, <2>2
    <3>2. QED
      BY <1>0, <1>2, <1>5, <1>6, <2>2, <3>1
  <2>3. QED
    BY <1>0, <2>1, <2>2
<1>8. QED
    BY <1>5, <1>6, <1>7

\* A sequence with an element taken out.
LEMMA RemoveAtFacts ==
    ASSUME NEW T, NEW s \in Seq(T), NEW p \in 1 .. Len(s)
    PROVE  /\ RemoveAt(s, p) \in Seq(T) /\ Len(RemoveAt(s, p)) = Len(s) - 1
           /\ \A i \in 1 .. Len(s) - 1 : RemoveAt(s, p)[i] = IF i < p THEN s[i] ELSE s[i + 1]
<1> DEFINE front == SubSeq(s, 1, p - 1)
           back == SubSeq(s, p + 1, Len(s))
<1>0. Len(s) \in Nat /\ \A i \in 1 .. Len(s) : s[i] \in T
    BY LenProperties, ElementOfSeq
<1>1. front \in Seq(T) /\ Len(front) = p - 1 /\ \A i \in 1 .. p - 1 : front[i] = s[i]
  <2>1. 1 \in Int /\ p - 1 \in Int /\ \A i \in 1 .. p - 1 : s[i] \in T
    BY <1>0
  <2>2. /\ front \in Seq(T) /\ Len(front) = IF 1 <= p - 1 THEN (p - 1) - 1 + 1 ELSE 0
        /\ \A i \in 1 .. (p - 1) - 1 + 1 : front[i] = s[1 + i - 1]
    BY <2>1, SubSeqProperties
  <2> HIDE DEF front
  <2>3. QED
    BY <1>0, <2>2
<1>2. back \in Seq(T) /\ Len(back) = Len(s) - p /\ \A i \in 1 .. Len(s) - p : back[i] = s[p + i]
  <2>1. Len(s) \in Int /\ p + 1 \in Int /\ \A i \in p + 1 .. Len(s) : s[i] \in T
    BY <1>0
  <2>2. /\ back \in Seq(T) /\ Len(back) = IF p + 1 <= Len(s) THEN Len(s) - (p + 1) + 1 ELSE 0
        /\ \A i \in 1 .. Len(s) - (p + 1) + 1 : back[i] = s[(p + 1) + i - 1]
    BY <2>1, SubSeqProperties
  <2>3. \A i \in 1 .. Len(s) - p : i \in 1 .. Len(s) - (p + 1) + 1 /\ (p + 1) + i - 1 = p + i
    BY <1>0
  <2> HIDE DEF back
  <2>4. QED
    BY <1>0, <2>2, <2>3
<1> HIDE DEF front, back
<1>3. /\ front \o back \in Seq(T) /\ Len(front \o back) = Len(s) - 1
      /\ \A i \in 1 .. Len(s) - 1 : (front \o back)[i] = IF i <= p - 1 THEN front[i] ELSE back[i - (p - 1)]
  <2>1. /\ front \o back \in Seq(T) /\ Len(front \o back) = Len(front) + Len(back)
        /\ \A i \in 1 .. Len(front) + Len(back) :
              (front \o back)[i] = IF i <= Len(front) THEN front[i] ELSE back[i - Len(front)]
    BY <1>1, <1>2, ConcatProperties
  <2>2. (p - 1) + (Len(s) - p) = Len(s) - 1
    BY <1>0
  <2>3. QED
    BY <1>1, <1>2, <2>1, <2>2
<1>4. RemoveAt(s, p) = front \o back
    BY DEF RemoveAt, front, back
<1>5. ASSUME NEW i \in 1 .. Len(s) - 1 PROVE RemoveAt(s, p)[i] = IF i < p THEN s[i] ELSE s[i + 1]
  <2>1. CASE i < p
    BY <1>0, <1>1, <1>3, <1>4, <2>1
  <2>2. CASE i >= p
    <3>1. i - (p - 1) \in 1 .. Len(s) - p /\ p + (i - (p - 1)) = i + 1
      BY <1>0, <2>2
    <3>2. QED
      BY <1>0, <1>2, <1>3, <1>4, <2>2, <3>1
  <2>3. QED
    BY <1>0, <2>1, <2>2
<1>6. QED
    BY <1>3, <1>4, <1>5

\* Sets of numbers have a smallest element, finite ones a largest.
LEMMA MinFacts ==
    ASSUME NEW I, I \subseteq Nat, I # {}
    PROVE  Min(I) \in I /\ \A i \in I : Min(I) <= i
<1>1. PICK x \in I : \A y \in I : ~ (<<y, x>> \in OpToRel(<, Nat))
    BY NatLessThanWellFounded, WFMin
<1>2. ASSUME NEW y \in I PROVE x <= y
  <2>1. x \in Nat /\ y \in Nat
    OBVIOUS
  <2>2. ~(y < x)
    BY <1>1, <2>1 DEF OpToRel
  <2>3. QED
    BY <2>1, <2>2
<1>3. QED
    BY <1>2 DEF Min

\* The largest of a set of positions is in it, and none is above it.
LEMMA MaxFacts ==
    ASSUME NEW n \in Nat, NEW I, I \subseteq 1 .. n, I # {}
    PROVE  Max(I) \in I /\ \A i \in I : i <= Max(I)
<1> DEFINE D == {n - i : i \in I}
<1>1. D # {} /\ D \subseteq Nat
  <2>1. \A i \in I : n - i \in Nat
    OBVIOUS
  <2>2. QED
    BY <2>1
<1>2. Min(D) \in D /\ \A d \in D : Min(D) <= d
    BY <1>1, MinFacts
<1>3. PICK x \in I : Min(D) = n - x
    BY <1>2
<1>4. \A i \in I : n - i \in D
    OBVIOUS
<1>5. ASSUME NEW i \in I PROVE x >= i
  <2>1. i \in 1 .. n /\ x \in 1 .. n
    OBVIOUS
  <2>2. n - x <= n - i
    BY <1>2, <1>3, <1>4
  <2>3. QED
    BY <2>1, <2>2
<1>6. QED
    BY <1>3, <1>5 DEF Max

-----------------------------------------------------------------------------
(***************************************************************************)
(* The cache.                                                              *)
(***************************************************************************)
\* What BestFit finds is in the cache and large enough.
LEMMA BestFitFacts ==
    ASSUME NEW cache \in Seq(Block), NEW size \in Nat
    PROVE  /\ BestFit(cache, size) \in 0 .. Len(cache)
           /\ BestFit(cache, size) # 0 => cache[BestFit(cache, size)].size >= size
<1> DEFINE I == {i \in 1 .. Len(cache) : cache[i].size >= size}
           J == {i \in 1 .. Len(cache) : cache[i].size = size}
           first == IF I # {} THEN Min(I) ELSE 0
           last == IF J # {} THEN Max(J) ELSE 0
<1>0. Len(cache) \in Nat /\ \A i \in 1 .. Len(cache) : cache[i] \in Block
    BY LenProperties, ElementOfSeq
<1>1. SelectInSeq(cache, LAMBDA b : b.size >= size) = first
    BY DEF SelectInSeq
<1>2. SelectLastInSeq(cache, LAMBDA b : b.size = size) = last
    BY DEF SelectLastInSeq
<1>3. I # {} => Min(I) \in I
  <2>1. I \subseteq Nat
    BY <1>0
  <2>2. QED
    BY <2>1, MinFacts
<1>4. J # {} => Max(J) \in J
  <2>1. J \subseteq 1 .. Len(cache)
    OBVIOUS
  <2>2. QED
    BY <1>0, <2>1, MaxFacts
<1>5. first \in 0 .. Len(cache) /\ (first # 0 => cache[first].size >= size)
    BY <1>0, <1>3
<1>6. last \in 0 .. Len(cache) /\ (last # 0 => cache[last].size = size)
    BY <1>0, <1>4
<1>7. BestFit(cache, size) = IF first # 0 /\ cache[first].size = size THEN last ELSE first
    BY <1>1, <1>2 DEF BestFit
<1> HIDE DEF first, last
<1>8. CASE first # 0 /\ cache[first].size = size
    BY <1>6, <1>7, <1>8
<1>9. CASE ~(first # 0 /\ cache[first].size = size)
    BY <1>5, <1>7, <1>9
<1>10. QED
    BY <1>8, <1>9

\* A block goes somewhere into the cache.
LEMMA CacheAddFacts ==
    ASSUME NEW cache \in Seq(Block), NEW block \in Block
    PROVE  \E p \in 1 .. Len(cache) + 1 :
              /\ CacheAdd(cache, block) \in Seq(Block) /\ Len(CacheAdd(cache, block)) = Len(cache) + 1
              /\ \A i \in 1 .. Len(cache) + 1 : CacheAdd(cache, block)[i] =
                    IF i < p THEN cache[i] ELSE IF i = p THEN block ELSE cache[i - 1]
<1> DEFINE I == {i \in 1 .. Len(cache) : cache[i].size >= block.size}
           place == IF I # {} THEN Min(I) ELSE 0
<1>0. Len(cache) \in Nat
    BY LenProperties
<1>1. SelectInSeq(cache, LAMBDA b : b.size >= block.size) = place
    BY DEF SelectInSeq
<1>2. place \in 0 .. Len(cache)
  <2>1. I \subseteq Nat
    BY <1>0
  <2>2. I # {} => Min(I) \in I
    BY <2>1, MinFacts
  <2>3. QED
    BY <1>0, <2>2
<1>3. CacheAdd(cache, block) = IF place = 0 THEN Append(cache, block)
                               ELSE IF cache[place].size = block.size THEN InsertAt(cache, place + 1, block)
                               ELSE InsertAt(cache, place, block)
    BY <1>1 DEF CacheAdd
<1> HIDE DEF place
<1>4. Append(cache, block) = InsertAt(cache, Len(cache) + 1, block)
  <2>1. Len(cache) + 1 \in 1 .. Len(cache) + 1
    BY <1>0
  <2>2. /\ InsertAt(cache, Len(cache) + 1, block) \in Seq(Block)
        /\ Len(InsertAt(cache, Len(cache) + 1, block)) = Len(cache) + 1
        /\ \A i \in 1 .. Len(cache) + 1 : InsertAt(cache, Len(cache) + 1, block)[i] =
              IF i < Len(cache) + 1 THEN cache[i] ELSE IF i = Len(cache) + 1 THEN block ELSE cache[i - 1]
    BY <2>1, InsertAtFacts
  <2>3. /\ Append(cache, block) \in Seq(Block) /\ Len(Append(cache, block)) = Len(cache) + 1
        /\ \A i \in 1 .. Len(cache) : Append(cache, block)[i] = cache[i]
        /\ Append(cache, block)[Len(cache) + 1] = block
    BY AppendProperties
  <2>4. \A i \in 1 .. Len(cache) + 1 : Append(cache, block)[i] = InsertAt(cache, Len(cache) + 1, block)[i]
    BY <1>0, <2>2, <2>3
  <2>5. QED
    BY <2>2, <2>3, <2>4, SeqEqual
<1>5. Len(cache) + 1 \in 1 .. Len(cache) + 1
    BY <1>0
<1>6. place # 0 => place \in 1 .. Len(cache) + 1 /\ place + 1 \in 1 .. Len(cache) + 1
    BY <1>0, <1>2
<1>7. PICK p \in 1 .. Len(cache) + 1 : CacheAdd(cache, block) = InsertAt(cache, p, block)
    BY <1>3, <1>4, <1>5, <1>6
<1>8. /\ InsertAt(cache, p, block) \in Seq(Block) /\ Len(InsertAt(cache, p, block)) = Len(cache) + 1
      /\ \A i \in 1 .. Len(cache) + 1 : InsertAt(cache, p, block)[i] =
            IF i < p THEN cache[i] ELSE IF i = p THEN block ELSE cache[i - 1]
  <2>1. InsertAt(cache, p, block) \in Seq(Block)
    BY InsertAtFacts
  <2>2. Len(InsertAt(cache, p, block)) = Len(cache) + 1
    BY InsertAtFacts
  <2>3. PICK S : S = Block
    OBVIOUS
  <2>4. cache \in Seq(S) /\ block \in S
    BY <2>3
  <2>5. \A i \in 1 .. Len(cache) + 1 : InsertAt(cache, p, block)[i] =
            IF i < p THEN cache[i] ELSE IF i = p THEN block ELSE cache[i - 1]
    BY ONLY <2>4, p \in 1 .. Len(cache) + 1, InsertAtFacts
  <2>6. QED
    BY <2>1, <2>2, <2>5
<1>9. QED
    BY <1>7, <1>8

-----------------------------------------------------------------------------
(***************************************************************************)
(* Soundness of an arena.                                                  *)
(***************************************************************************)
\* The chunks up to the one at hand.
Reach(a) == {a.list[i] : i \in 1 .. a.cur}

\* A block lies in its chunk when that is one of those up to the chunk at hand
\* and the block ends inside it.
LEMMA InChunkIs ==
    ASSUME NEW a \in Arena, ChunksLinked(a), NEW b \in Block
    PROVE  InChunk(a, b) <=> /\ b.chunk \in Reach(a) /\ First(b) >= 0
                             /\ Behind(b) <= a.chunks[b.chunk].length
<1>1. a.list \in Seq(Nat) /\ Len(a.list) \in Nat /\ a.cur \in 1 .. Len(a.list)
    BY LenProperties DEF Arena, ChunksLinked
<1>2. ToSet(SubSeq(a.list, 1, a.cur)) = Reach(a)
  <2>1. /\ SubSeq(a.list, 1, a.cur) \in Seq(Nat) /\ Len(SubSeq(a.list, 1, a.cur)) = a.cur
        /\ \A i \in 1 .. a.cur : SubSeq(a.list, 1, a.cur)[i] = a.list[i]
    <3>1. 1 \in Int /\ a.cur \in Int /\ \A i \in 1 .. a.cur : a.list[i] \in Nat
      BY <1>1, ElementOfSeq
    <3>2. /\ SubSeq(a.list, 1, a.cur) \in Seq(Nat)
          /\ Len(SubSeq(a.list, 1, a.cur)) = IF 1 <= a.cur THEN a.cur - 1 + 1 ELSE 0
          /\ \A i \in 1 .. a.cur - 1 + 1 : SubSeq(a.list, 1, a.cur)[i] = a.list[1 + i - 1]
      BY <3>1, SubSeqProperties
    <3>3. QED
      BY <1>1, <3>2
  <2>2. DOMAIN SubSeq(a.list, 1, a.cur) = 1 .. a.cur
    BY <2>1, LenProperties
  <2>3. QED
    BY <2>1, <2>2 DEF ToSet, Reach
<1>3. b.size > 0
    BY DEF Block
<1>4. QED
    BY <1>2, <1>3 DEF InChunk

\* Memory is apart from memory both ways, and never from itself.
LEMMA ApartFacts ==
    ASSUME NEW b \in Block, NEW c \in Block
    PROVE  (Apart(b, c) <=> Apart(c, b)) /\ ~Apart(b, b)
    BY DEF Apart, Block, First, Behind

\* What is sound for some blocks is so for fewer.
LEMMA Fewer ==
    ASSUME NEW a, NEW U, NEW V, ArenaSound(a, U), V \subseteq U
    PROVE  ArenaSound(a, V)
    BY DEF ArenaSound

\* One block more.
LEMMA More ==
    ASSUME NEW a, NEW U, ArenaSound(a, U), NEW b \in Block, InChunk(a, b),
           \A c \in U : Apart(c, b),
           \A i \in DOMAIN a.cache : Apart(a.cache[i], b)
    PROVE  ArenaSound(a, U \cup {b}) /\ b \notin U
<1>1. U \subseteq Block
    BY DEF ArenaSound
<1>2. \A c \in U : Apart(b, c) /\ c # b
    BY <1>1, ApartFacts
<1>3. QED
    BY <1>1, <1>2 DEF ArenaSound

\* An arena with the same cache, as many chunks at hand and as much of them used.
LEMMA Further ==
    ASSUME NEW a, NEW U, ArenaSound(a, U), NEW b \in Arena, ChunksLinked(b), b.cache = a.cache,
           Reach(a) \subseteq Reach(b),
           \A c \in Reach(a) : a.chunks[c].length <= b.chunks[c].length
    PROVE  ArenaSound(b, U)
<1>1. a \in Arena /\ ChunksLinked(a) /\ U \subseteq Block
    BY DEF ArenaSound
<1>2. ASSUME NEW x \in Block, InChunk(a, x) PROVE InChunk(b, x)
  <2>1. x.chunk \in Reach(a) /\ First(x) >= 0 /\ Behind(x) <= a.chunks[x.chunk].length
    BY <1>1, <1>2, InChunkIs
  <2>2. Behind(x) \in Nat /\ a.chunks[x.chunk].length \in Nat /\ b.chunks[x.chunk].length \in Nat
    <3>1. Behind(x) \in Nat
      BY DEF Behind, Block
    <3>2. \A y \in Arena : ChunksLinked(y) => \A c \in Reach(y) : y.chunks[c].length \in Nat
      <4>1. SUFFICES ASSUME NEW y \in Arena, ChunksLinked(y), NEW c \in Reach(y)
                     PROVE  y.chunks[c].length \in Nat
        OBVIOUS
      <4>2. PICK i \in 1 .. y.cur : c = y.list[i]
        BY DEF Reach
      <4>3. Len(y.list) \in Nat /\ y.cur \in 1 .. Len(y.list) /\ DOMAIN y.list = 1 .. Len(y.list)
        BY <4>1, LenProperties DEF Arena, ChunksLinked
      <4>4. c \in DOMAIN y.chunks
        BY <4>1, <4>2, <4>3 DEF ChunksLinked
      <4>5. y.chunks[c] \in [size : Nat, length : Nat]
        BY <4>4, LenProperties, ElementOfSeq, ZenonT(60) DEF Arena
      <4>6. QED
        BY <4>5
    <3>3. QED
      BY <1>1, <2>1, <3>1, <3>2
  <2>3. Behind(x) <= b.chunks[x.chunk].length /\ x.chunk \in Reach(b)
    BY <2>1, <2>2
  <2>4. QED
    BY <2>1, <2>3, InChunkIs
<1>3. \A i \in DOMAIN a.cache : a.cache[i] \in Block
    BY <1>1, LenProperties, ElementOfSeq DEF Arena
<1>4. QED
    BY <1>1, <1>2, <1>3 DEF ArenaSound

\* The chunks at hand are chunks, with sizes and lengths that are numbers.
LEMMA ChunkFacts ==
    ASSUME NEW a \in Arena, ChunksLinked(a)
    PROVE  /\ Len(a.list) \in Nat /\ a.cur \in 1 .. Len(a.list) /\ DOMAIN a.list = 1 .. Len(a.list)
           /\ Len(a.chunks) \in Nat /\ DOMAIN a.chunks = 1 .. Len(a.chunks)
           /\ \A c \in DOMAIN a.chunks : /\ a.chunks[c] \in [size : Nat, length : Nat]
                                         /\ a.chunks[c].length <= a.chunks[c].size
           /\ Reach(a) \subseteq DOMAIN a.chunks
           /\ CurrentId(a) \in Reach(a)
           /\ Current(a) = a.chunks[CurrentId(a)]
<1>1. /\ Len(a.list) \in Nat /\ a.cur \in 1 .. Len(a.list) /\ DOMAIN a.list = 1 .. Len(a.list)
      /\ Len(a.chunks) \in Nat /\ DOMAIN a.chunks = 1 .. Len(a.chunks)
    BY LenProperties DEF Arena, ChunksLinked
<1>2. \A c \in DOMAIN a.chunks : a.chunks[c] \in [size : Nat, length : Nat]
    BY LenProperties, ElementOfSeq, ZenonT(60) DEF Arena
<1>3. \A c \in DOMAIN a.chunks : a.chunks[c].length <= a.chunks[c].size
    BY DEF ChunksLinked
<1>4. Reach(a) \subseteq DOMAIN a.chunks
    BY <1>1 DEF Reach, ChunksLinked
<1>5. CurrentId(a) \in Reach(a)
    BY <1>1 DEF Reach, CurrentId
<1>6. QED
    BY <1>1, <1>2, <1>3, <1>4, <1>5 DEF Current

\* mchar_async_free: a block that was in use waits in the cache.
LEMMA FreeSound ==
    ASSUME NEW a, NEW U, ArenaSound(a, U), NEW b \in U
    PROVE  ArenaSound(Free(a, b), U \ {b})
<1> DEFINE f == Free(a, b)
<1>1. a \in Arena /\ ChunksLinked(a) /\ U \subseteq Block /\ b \in Block
    BY DEF ArenaSound
<1>2. a.cache \in Seq(Block) /\ Len(a.cache) \in Nat /\ DOMAIN a.cache = 1 .. Len(a.cache)
    BY <1>1, LenProperties DEF Arena
<1>3. PICK cache : cache = CacheAdd(a.cache, b)
    OBVIOUS
<1>4. PICK p \in 1 .. Len(a.cache) + 1 :
         /\ cache \in Seq(Block) /\ Len(cache) = Len(a.cache) + 1
         /\ \A i \in 1 .. Len(a.cache) + 1 :
               cache[i] = IF i < p THEN a.cache[i] ELSE IF i = p THEN b ELSE a.cache[i - 1]
  <2>1. PICK old \in Seq(Block) : old = a.cache
    BY <1>2
  <2>2. b \in Block
    BY <1>1
  <2>3. \E p \in 1 .. Len(old) + 1 :
              /\ CacheAdd(old, b) \in Seq(Block) /\ Len(CacheAdd(old, b)) = Len(old) + 1
              /\ \A i \in 1 .. Len(old) + 1 : CacheAdd(old, b)[i] =
                    IF i < p THEN old[i] ELSE IF i = p THEN b ELSE old[i - 1]
    BY ONLY <2>2, CacheAddFacts
  <2>4. QED
    BY ONLY <1>3, <2>1, <2>3
<1>5. /\ cache \in Seq(Block) /\ Len(cache) = Len(a.cache) + 1
      /\ \A i \in 1 .. Len(a.cache) + 1 :
            cache[i] = IF i < p THEN a.cache[i] ELSE IF i = p THEN b ELSE a.cache[i - 1]
    BY <1>4
<1>6. DOMAIN cache = 1 .. Len(a.cache) + 1
    BY <1>5, LenProperties
<1>7. /\ f = [a EXCEPT !.cache = cache]
      /\ f.chunks = a.chunks /\ f.list = a.list /\ f.cur = a.cur /\ f.cache = cache /\ f \in Arena
    BY <1>1, <1>3, <1>5 DEF Free, Arena
<1> HIDE DEF f
<1>8. ChunksLinked(f)
    BY <1>1, <1>7 DEF ChunksLinked
<1>9. \A x : InChunk(f, x) <=> InChunk(a, x)
    BY <1>7 DEF InChunk
\* Each entry is the block or was in the cache before.
<1>10. \A i \in DOMAIN cache :
          \/ i = p /\ cache[i] = b
          \/ i # p /\ \E j \in DOMAIN a.cache : cache[i] = a.cache[j] /\ j = IF i < p THEN i ELSE i - 1
  <2>1. ASSUME NEW i \in DOMAIN cache, i # p
        PROVE  \E j \in DOMAIN a.cache : cache[i] = a.cache[j] /\ j = IF i < p THEN i ELSE i - 1
    <3>1. CASE i < p
      <4>1. i \in DOMAIN a.cache /\ cache[i] = a.cache[i]
        BY <1>2, <1>5, <1>6, <2>1, <3>1
      <4>2. QED
        BY <3>1, <4>1
    <3>2. CASE i > p
      <4>1. i - 1 \in DOMAIN a.cache /\ cache[i] = a.cache[i - 1] /\ ~(i < p)
        BY <1>2, <1>5, <1>6, <2>1, <3>2
      <4>2. QED
        BY <4>1
    <3>3. QED
      BY <1>2, <1>6, <2>1, <3>1, <3>2
  <2>2. cache[p] = b
    BY <1>2, <1>5
  <2>3. QED
    BY <2>1, <2>2
<1>11. \A i \in DOMAIN a.cache : Apart(a.cache[i], b) /\ Apart(b, a.cache[i])
  <2>1. \A i \in DOMAIN a.cache : Apart(a.cache[i], b) /\ a.cache[i] \in Block
    BY <1>2, ElementOfSeq DEF ArenaSound
  <2>2. QED
    BY <1>1, <2>1, ApartFacts
<1>12. ASSUME NEW i \in DOMAIN cache, NEW j \in DOMAIN cache, i # j
       PROVE  Apart(cache[i], cache[j])
  <2>1. CASE i = p
    BY <1>10, <1>11, <1>12, <2>1
  <2>2. CASE j = p
    BY <1>10, <1>11, <1>12, <2>2
  <2>3. CASE i # p /\ j # p
    <3>1. PICK k \in DOMAIN a.cache : cache[i] = a.cache[k] /\ k = IF i < p THEN i ELSE i - 1
      BY <1>10, <2>3
    <3>2. PICK l \in DOMAIN a.cache : cache[j] = a.cache[l] /\ l = IF j < p THEN j ELSE j - 1
      BY <1>10, <2>3
    <3>3. k # l
      BY <1>2, <1>6, <1>12, <2>3, <3>1, <3>2
    <3>4. QED
      BY <3>1, <3>2, <3>3 DEF ArenaSound
  <2>4. QED
    BY <2>1, <2>2, <2>3
<1>13. ASSUME NEW i \in DOMAIN cache, NEW c \in U \ {b} PROVE Apart(cache[i], c)
  <2>1. Apart(b, c)
    BY <1>13 DEF ArenaSound
  <2>2. \A k \in DOMAIN a.cache : Apart(a.cache[k], c)
    BY <1>13 DEF ArenaSound
  <2>3. QED
    BY <1>10, <1>13, <2>1, <2>2
<1>14. \A i \in DOMAIN cache : InChunk(f, cache[i])
  <2>1. InChunk(a, b) /\ \A k \in DOMAIN a.cache : InChunk(a, a.cache[k])
    BY DEF ArenaSound
  <2>2. QED
    BY <1>9, <1>10, <2>1
<1>15. \A c \in U \ {b} : InChunk(f, c)
    BY <1>9 DEF ArenaSound
<1>16. \A c, d \in U \ {b} : c # d => Apart(c, d)
    BY DEF ArenaSound
<1>17. ArenaSound(f, U \ {b})
    BY <1>1, <1>7, <1>8, <1>12, <1>13, <1>14, <1>15, <1>16 DEF ArenaSound
<1>18. QED
    BY <1>17 DEF f

\* A chunk's length is set.
LEMMA LengthSet ==
    ASSUME NEW a \in Arena, NEW c \in DOMAIN a.chunks, NEW v \in Nat
    PROVE  LET b == [a EXCEPT !.chunks[c].length = v] IN
           /\ b \in Arena /\ b.list = a.list /\ b.cur = a.cur /\ b.cache = a.cache
           /\ Len(b.chunks) = Len(a.chunks) /\ DOMAIN b.chunks = DOMAIN a.chunks
           /\ \A d \in DOMAIN a.chunks : /\ b.chunks[d].size = a.chunks[d].size
                                         /\ b.chunks[d].length = IF d = c THEN v ELSE a.chunks[d].length
<1>1. a.chunks \in Seq([size : Nat, length : Nat]) /\ DOMAIN a.chunks = 1 .. Len(a.chunks)
    BY LenProperties DEF Arena
<1>2. a.chunks[c] \in [size : Nat, length : Nat]
    BY <1>1, ElementOfSeq
<1>3. PICK chunk : chunk = [a.chunks[c] EXCEPT !.length = v]
    OBVIOUS
<1>4. chunk \in [size : Nat, length : Nat] /\ chunk.size = a.chunks[c].size /\ chunk.length = v
    BY <1>2, <1>3
<1>5. PICK chunks : chunks = [a.chunks EXCEPT ![c] = chunk]
    OBVIOUS
<1>6. /\ chunks \in Seq([size : Nat, length : Nat]) /\ Len(chunks) = Len(a.chunks)
      /\ \A d \in 1 .. Len(a.chunks) : chunks[d] = IF d = c THEN chunk ELSE a.chunks[d]
    BY <1>1, <1>4, <1>5, ExceptSeq, SMTT(30)
<1>7. DOMAIN chunks = DOMAIN a.chunks
    BY <1>1, <1>5
<1>8. PICK b : b = [a EXCEPT !.chunks = chunks]
    OBVIOUS
<1>9. [a EXCEPT !.chunks[c].length = v] = b
    BY <1>3, <1>5, <1>8
<1>10. b \in Arena /\ b.list = a.list /\ b.cur = a.cur /\ b.cache = a.cache /\ b.chunks = chunks
    BY <1>6, <1>8 DEF Arena
<1>11. \A d \in DOMAIN a.chunks : /\ b.chunks[d].size = a.chunks[d].size
                                  /\ b.chunks[d].length = IF d = c THEN v ELSE a.chunks[d].length
    BY <1>1, <1>4, <1>6, <1>10
<1>12. QED
    BY <1>6, <1>7, <1>9, <1>10, <1>11

\* More of the chunk at hand is used, and the rest of it or a part is a block.
LEMMA CutBlock ==
    ASSUME NEW a, NEW U, ArenaSound(a, U), NEW size \in Nat \ {0},
           Current(a).length + SizeWord + size <= Current(a).size
    PROVE  LET block == [chunk |-> CurrentId(a), at |-> Current(a).length + SizeWord, size |-> size]
               b == [a EXCEPT !.chunks[CurrentId(a)].length = Current(a).length + SizeWord + size]
           IN  /\ ArenaSound(b, U \cup {block}) /\ block \notin U /\ block \in Block
               /\ b.list = a.list /\ b.cur = a.cur
<1>1. a \in Arena /\ ChunksLinked(a) /\ U \subseteq Block
    BY DEF ArenaSound
<1>2. PICK id : id = CurrentId(a)
    OBVIOUS
<1>3. PICK length \in Nat : length = Current(a).length
    BY <1>1, ChunkFacts
<1>4. /\ id \in Reach(a) /\ id \in DOMAIN a.chunks /\ id \in Nat /\ a.chunks[id].length = length
      /\ length + SizeWord + size \in Nat /\ length + SizeWord + size <= a.chunks[id].size
    BY <1>1, <1>2, <1>3, ChunkFacts
<1>5. PICK b : b = [a EXCEPT !.chunks[id].length = length + SizeWord + size]
    OBVIOUS
<1>6. /\ b \in Arena /\ b.list = a.list /\ b.cur = a.cur /\ b.cache = a.cache
      /\ DOMAIN b.chunks = DOMAIN a.chunks
      /\ \A d \in DOMAIN a.chunks : /\ b.chunks[d].size = a.chunks[d].size
                                    /\ b.chunks[d].length = IF d = id THEN length + SizeWord + size
                                                            ELSE a.chunks[d].length
    BY <1>1, <1>4, <1>5, LengthSet
<1>7. ChunksLinked(b)
    BY <1>1, <1>4, <1>6 DEF ChunksLinked
<1>8. Reach(b) = Reach(a)
    BY <1>6 DEF Reach
<1>9. \A c \in Reach(a) : a.chunks[c].length <= b.chunks[c].length
  <2>1. \A c \in Reach(a) : c \in DOMAIN a.chunks /\ a.chunks[c].length \in Nat
    BY <1>1, ChunkFacts
  <2>2. QED
    BY <1>4, <1>6, <2>1
<1>10. ArenaSound(b, U)
    BY <1>6, <1>7, <1>8, <1>9, Further
<1>11. PICK block : block = [chunk |-> id, at |-> length + SizeWord, size |-> size]
    OBVIOUS
<1>12. /\ block \in Block /\ block.chunk = id /\ First(block) = length
       /\ Behind(block) = length + SizeWord + size
    BY <1>4, <1>11 DEF Block, First, Behind
<1>13. InChunk(b, block)
    BY <1>4, <1>6, <1>7, <1>8, <1>12, InChunkIs
\* What was there before ends where the block begins.
<1>14. ASSUME NEW c \in Block, InChunk(a, c) PROVE Apart(c, block)
  <2>1. c.chunk = id => Behind(c) <= length
    BY <1>1, <1>4, <1>14, InChunkIs
  <2>2. QED
    BY <1>12, <2>1 DEF Apart
<1>15. \A c \in U : Apart(c, block)
    BY <1>1, <1>14 DEF ArenaSound
<1>16. \A i \in DOMAIN b.cache : Apart(b.cache[i], block)
  <2>1. \A i \in DOMAIN a.cache : a.cache[i] \in Block
    BY <1>1, LenProperties, ElementOfSeq DEF Arena
  <2>2. QED
    BY <1>6, <1>14, <2>1 DEF ArenaSound
<1>17. ArenaSound(b, U \cup {block}) /\ block \notin U
    BY <1>10, <1>12, <1>13, <1>15, <1>16, More
<1>18. QED
    BY <1>2, <1>3, <1>5, <1>6, <1>11, <1>12, <1>17

\* What is left of a chunk goes to the cache.
LEMMA CacheTailSound ==
    ASSUME NEW a, NEW U, ArenaSound(a, U)
    PROVE  ArenaSound(CacheTail(a), U)
<1>1. a \in Arena /\ ChunksLinked(a) /\ U \subseteq Block
    BY DEF ArenaSound
<1>2. PICK length \in Nat : length = Current(a).length
    BY <1>1, ChunkFacts
<1>3. PICK room \in Nat : room = Current(a).size
    BY <1>1, ChunkFacts
<1>4. CASE length + SizeWord >= room
    BY <1>2, <1>3, <1>4 DEF CacheTail
<1>5. CASE ~(length + SizeWord >= room)
  <2>1. PICK size \in Nat \ {0} : size = room - (length + SizeWord)
    BY <1>5
  <2>2. length + SizeWord + size = room /\ length + SizeWord + size <= room
    BY <2>1
  <2>3. PICK block : block = [chunk |-> CurrentId(a), at |-> length + SizeWord, size |-> size]
    OBVIOUS
  <2>4. PICK b : b = [a EXCEPT !.chunks[CurrentId(a)].length = length + SizeWord + size]
    OBVIOUS
  <2>5. ArenaSound(b, U \cup {block}) /\ block \notin U
    BY <1>2, <1>3, <2>2, <2>3, <2>4, CutBlock
  <2>6. ArenaSound(Free(b, block), (U \cup {block}) \ {block})
    BY <2>5, FreeSound
  <2>7. (U \cup {block}) \ {block} = U
    BY <2>5
  <2>8. CacheTail(a) = Free(b, block)
    BY <1>2, <1>3, <1>5, <2>1, <2>2, <2>3, <2>4 DEF CacheTail
  <2>9. QED
    BY <2>6, <2>7, <2>8
<1>6. QED
    BY <1>4, <1>5

\* A chunk behind the one at hand is put next to it.
LEMMA FoundChunk ==
    ASSUME NEW a, NEW U, ArenaSound(a, U), NEW place \in a.cur + 1 .. Len(a.list)
    PROVE  LET found == a.list[place]
               b == [a EXCEPT !.list = InsertAt(RemoveAt(@, place), a.cur + 1, found),
                              !.chunks[found].length = 0,
                              !.cur = @ + 1]
           IN  ArenaSound(b, U) /\ Current(b).length = 0 /\ Current(b).size = a.chunks[found].size
<1>1. a \in Arena /\ ChunksLinked(a)
    BY DEF ArenaSound
<1>2. PICK list \in Seq(Nat) : list = a.list
    BY <1>1 DEF Arena
<1>3. PICK n \in Nat : n = Len(list)
    BY LenProperties
<1>4. PICK cur \in 1 .. n : cur = a.cur
    BY <1>1, <1>2, <1>3, ChunkFacts
<1>5. place \in cur + 1 .. n /\ place \in 1 .. Len(list)
    BY <1>2, <1>3, <1>4
<1>6. PICK short : short = RemoveAt(list, place)
    OBVIOUS
<1>7. /\ short \in Seq(Nat) /\ Len(short) = n - 1
      /\ \A i \in 1 .. n - 1 : short[i] = IF i < place THEN list[i] ELSE list[i + 1]
    BY <1>3, <1>5, <1>6, RemoveAtFacts
<1>8. PICK found \in Nat : found = list[place]
    BY <1>5, ElementOfSeq
<1>9. PICK new : new = InsertAt(short, cur + 1, found)
    OBVIOUS
<1>10. /\ new \in Seq(Nat) /\ Len(new) = n
       /\ \A i \in 1 .. n :
             new[i] = IF i < cur + 1 THEN short[i] ELSE IF i = cur + 1 THEN found ELSE short[i - 1]
  <2>1. PICK k \in 1 .. Len(short) + 1 : k = cur + 1
    BY <1>3, <1>4, <1>5, <1>7
  <2>2. PICK S : S = Nat
    OBVIOUS
  <2> PICK e, s : e = found /\ s = short
    OBVIOUS
  <2>3. s \in Seq(S) /\ e \in S /\ k \in 1 .. Len(s) + 1
    BY <1>7, <1>9, <2>1, <2>2
  <2>4. InsertAt(s, k, e) \in Seq(S)
    BY ONLY <2>3, InsertAtFacts
  <2>5. Len(InsertAt(s, k, e)) = Len(s) + 1
    BY ONLY <2>3, InsertAtFacts
  <2>6. \A i \in 1 .. Len(s) + 1 : InsertAt(s, k, e)[i] =
           IF i < k THEN s[i] ELSE IF i = k THEN e ELSE s[i - 1]
    BY ONLY <2>3, InsertAtFacts
  <2>7. Len(short) + 1 = n
    BY <1>3, <1>4, <1>5, <1>7
  <2>8. QED
    BY <1>9, <2>1, <2>2, <2>4, <2>5, <2>6, <2>7
\* Where an entry of the new list was before.
<1>11. PICK was : was = [i \in 1 .. n |-> IF i < cur + 1 THEN i ELSE IF i = cur + 1 THEN place
                                          ELSE IF i - 1 < place THEN i - 1 ELSE i]
    OBVIOUS
<1>12. \A i \in 1 .. n : was[i] \in 1 .. n /\ new[i] = list[was[i]]
  <2>1. SUFFICES ASSUME NEW i \in 1 .. n PROVE was[i] \in 1 .. n /\ new[i] = list[was[i]]
    OBVIOUS
  <2>2. CASE i < cur + 1
    <3>1. was[i] = i /\ new[i] = short[i] /\ i \in 1 .. n - 1 /\ i < place
      BY <1>3, <1>4, <1>5, <1>10, <1>11, <2>2, SMTT(30)
    <3>2. QED
      BY <1>7, <3>1
  <2>3. CASE i = cur + 1
    BY <1>5, <1>8, <1>10, <1>11, <2>3
  <2>4. CASE i > cur + 1
    <3>1. new[i] = short[i - 1] /\ i - 1 \in 1 .. n - 1 /\ ~(i < cur + 1) /\ i # cur + 1
      BY <1>3, <1>4, <1>10, <2>4, SMTT(30)
    <3>2. CASE i - 1 < place
      <4>1. was[i] = i - 1
        BY <1>11, <3>1, <3>2
      <4>2. QED
        BY <1>7, <3>1, <3>2, <4>1
    <3>3. CASE ~(i - 1 < place)
      <4>1. was[i] = i
        BY <1>11, <3>1, <3>3
      <4>2. short[i - 1] = list[(i - 1) + 1] /\ (i - 1) + 1 = i
        BY <1>7, <3>1, <3>3
      <4>3. QED
        BY <3>1, <4>1, <4>2
    <3>4. QED
      BY <3>2, <3>3
  <2>5. QED
    BY <1>4, <2>2, <2>3, <2>4
<1>13. \A i, j \in 1 .. n : was[i] = was[j] => i = j
  <2>1. \A i \in 1 .. n : was[i] = IF i < cur + 1 THEN i ELSE IF i = cur + 1 THEN place
                                   ELSE IF i - 1 < place THEN i - 1 ELSE i
    BY <1>11
  <2>2. SUFFICES ASSUME NEW i \in 1 .. n, NEW j \in 1 .. n, was[i] = was[j] PROVE i = j
    OBVIOUS
  <2>3. PICK k \in Int : k = was[i] /\ k = IF i < cur + 1 THEN i ELSE IF i = cur + 1 THEN place
                                           ELSE IF i - 1 < place THEN i - 1 ELSE i
    BY <1>5, <2>1
  <2>4. k = IF j < cur + 1 THEN j ELSE IF j = cur + 1 THEN place
            ELSE IF j - 1 < place THEN j - 1 ELSE j
    BY <2>1, <2>2, <2>3
  <2>5. QED
    BY <1>4, <1>5, <2>3, <2>4, SMTT(30)
<1>14. /\ \A i \in 1 .. n : list[i] \in DOMAIN a.chunks
       /\ \A i, j \in 1 .. n : list[i] = list[j] => i = j
  <2>1. DOMAIN a.list = 1 .. n
    BY <1>1, <1>2, <1>3, ChunkFacts
  <2>2. QED
    BY <1>1, <1>2, <2>1 DEF ChunksLinked
<1>15. \A i, j \in 1 .. n : new[i] = new[j] => i = j
  <2>1. SUFFICES ASSUME NEW i \in 1 .. n, NEW j \in 1 .. n, new[i] = new[j] PROVE i = j
    OBVIOUS
  <2>2. PICK k \in 1 .. n : k = was[i] /\ new[i] = list[k]
    BY <1>12
  <2>3. PICK l \in 1 .. n : l = was[j] /\ new[j] = list[l]
    BY <1>12
  <2>4. k = l
    BY <1>14, <2>1, <2>2, <2>3
  <2>5. QED
    BY <1>13, <2>2, <2>3, <2>4
<1>16. \A i \in 1 .. n : new[i] \in DOMAIN a.chunks
    BY <1>12, <1>14
<1>17. \A i \in 1 .. cur : new[i] = list[i]
    BY <1>3, <1>4, <1>5, <1>11, <1>12, SMTT(30)
<1>18. found \in DOMAIN a.chunks /\ found \notin Reach(a)
  <2>1. \A i \in 1 .. cur : i \in 1 .. n /\ i # place
    BY <1>3, <1>4, <1>5
  <2>2. QED
    BY <1>2, <1>3, <1>4, <1>5, <1>8, <1>14, <2>1 DEF Reach
<1>19. PICK c : c = [a EXCEPT !.chunks[found].length = 0]
    OBVIOUS
<1>20. /\ c \in Arena /\ c.list = list /\ c.cur = cur /\ c.cache = a.cache
       /\ DOMAIN c.chunks = DOMAIN a.chunks
       /\ \A d \in DOMAIN a.chunks : /\ c.chunks[d].size = a.chunks[d].size
                                     /\ c.chunks[d].length = IF d = found THEN 0 ELSE a.chunks[d].length
  <2>1. a \in Arena /\ found \in DOMAIN a.chunks /\ 0 \in Nat
    BY <1>1, <1>18
  <2>2. PICK v \in Nat : v = 0
    OBVIOUS
  <2>3. c = [a EXCEPT !.chunks[found].length = v]
    BY <1>19, <2>2
  <2>4. /\ c \in Arena /\ c.list = a.list /\ c.cur = a.cur /\ c.cache = a.cache
        /\ DOMAIN c.chunks = DOMAIN a.chunks
        /\ \A d \in DOMAIN a.chunks : /\ c.chunks[d].size = a.chunks[d].size
                                      /\ c.chunks[d].length = IF d = found THEN v ELSE a.chunks[d].length
    BY ONLY <2>1, <2>3, v \in Nat, LengthSet, SMTT(30)
  <2>5. QED
    BY <1>2, <1>4, <2>2, <2>4
<1>21. PICK b : b = [c EXCEPT !.list = new, !.cur = cur + 1]
    OBVIOUS
<1>22. /\ b \in Arena /\ b.list = new /\ b.cur = cur + 1 /\ b.cache = a.cache /\ b.chunks = c.chunks
  <2>1. cur + 1 \in Nat
    BY <1>4
  <2>2. QED
    BY <1>10, <1>20, <1>21, <2>1 DEF Arena
<1>24. b = [a EXCEPT !.list = InsertAt(RemoveAt(@, place), a.cur + 1, found),
                     !.chunks[found].length = 0,
                     !.cur = @ + 1]
    BY <1>1, <1>2, <1>4, <1>6, <1>9, <1>19, <1>21 DEF Arena
<1>25. DOMAIN new = 1 .. n
    BY <1>10, LenProperties
<1>26. ChunksLinked(b)
  <2>1. b.cur \in DOMAIN b.list
    BY <1>3, <1>4, <1>5, <1>22, <1>25
  <2>2. \A d \in DOMAIN b.chunks : b.chunks[d].length <= b.chunks[d].size
    <3>1. \A d \in DOMAIN a.chunks : /\ a.chunks[d].length <= a.chunks[d].size
                                     /\ 0 <= a.chunks[d].size
      BY <1>1, ChunkFacts
    <3>2. QED
      BY <1>20, <1>22, <3>1
  <2>3. QED
    BY <1>15, <1>16, <1>20, <1>22, <1>25, <2>1, <2>2 DEF ChunksLinked
<1>27. Reach(a) \subseteq Reach(b)
  <2>1. \A i \in 1 .. cur : i \in 1 .. cur + 1
    BY <1>4
  <2>2. QED
    BY <1>2, <1>4, <1>17, <1>22, <2>1 DEF Reach
<1>28. \A d \in Reach(a) : a.chunks[d].length <= b.chunks[d].length
  <2>1. \A d \in Reach(a) : d \in DOMAIN a.chunks /\ d # found /\ a.chunks[d].length \in Nat
    BY <1>1, <1>18, ChunkFacts
  <2>2. QED
    BY <1>20, <1>22, <2>1
<1>29. ArenaSound(b, U)
    BY <1>22, <1>26, <1>27, <1>28, Further
<1>30. Current(b) = c.chunks[found]
  <2>1. PICK k \in 1 .. n : k = cur + 1
    BY <1>3, <1>4, <1>5
  <2>2. new[k] = found
    BY <1>4, <1>10, <2>1
  <2>3. QED
    BY <1>22, <2>1, <2>2 DEF Current, CurrentId
<1>31. QED
    BY <1>2, <1>8, <1>18, <1>20, <1>24, <1>29, <1>30, SMTT(30)

\* A fresh chunk is put next to the one at hand.
LEMMA FreshChunk ==
    ASSUME NEW a, NEW U, ArenaSound(a, U), NEW size \in Nat
    PROVE  LET fresh == Len(a.chunks) + 1
               b == [a EXCEPT !.list = InsertAt(@, a.cur + 1, fresh),
                              !.chunks = Append(@, [size |-> size, length |-> 0]),
                              !.cur = @ + 1]
           IN  ArenaSound(b, U) /\ Current(b).length = 0 /\ Current(b).size = size
<1>1. a \in Arena /\ ChunksLinked(a)
    BY DEF ArenaSound
<1>2. PICK list \in Seq(Nat) : list = a.list
    BY <1>1 DEF Arena
<1>3. PICK n \in Nat : n = Len(list)
    BY LenProperties
<1>4. PICK cur \in 1 .. n : cur = a.cur
    BY <1>1, <1>2, <1>3, ChunkFacts
<1>5. PICK fresh \in Nat \ {0} : fresh = Len(a.chunks) + 1
    BY <1>1, ChunkFacts
<1>6. PICK chunk : chunk = [size |-> size, length |-> 0]
    OBVIOUS
<1>7. chunk \in [size : Nat, length : Nat] /\ chunk.size = size /\ chunk.length = 0
    BY <1>6
<1>8. PICK chunks : chunks = Append(a.chunks, chunk)
    OBVIOUS
<1>9. /\ chunks \in Seq([size : Nat, length : Nat]) /\ DOMAIN chunks = 1 .. fresh
      /\ \A d \in DOMAIN a.chunks : chunks[d] = a.chunks[d]
      /\ chunks[fresh] = chunk /\ DOMAIN a.chunks = 1 .. fresh - 1
  <2>1. a.chunks \in Seq([size : Nat, length : Nat]) /\ Len(a.chunks) = fresh - 1
        /\ DOMAIN a.chunks = 1 .. Len(a.chunks)
    BY <1>1, <1>5, ChunkFacts DEF Arena
  <2>2. /\ chunks \in Seq([size : Nat, length : Nat]) /\ Len(chunks) = Len(a.chunks) + 1
        /\ \A d \in 1 .. Len(a.chunks) : chunks[d] = a.chunks[d]
        /\ chunks[Len(a.chunks) + 1] = chunk
    BY <1>7, <1>8, <2>1, AppendProperties
  <2>3. Len(chunks) = fresh /\ DOMAIN chunks = 1 .. Len(chunks)
    BY <1>5, <2>2, LenProperties
  <2>4. QED
    BY <1>5, <2>1, <2>2, <2>3
<1>10. PICK new : new = InsertAt(list, cur + 1, fresh)
    OBVIOUS
<1>11. /\ new \in Seq(Nat) /\ Len(new) = n + 1
       /\ \A i \in 1 .. n + 1 :
             new[i] = IF i < cur + 1 THEN list[i] ELSE IF i = cur + 1 THEN fresh ELSE list[i - 1]
  <2>1. PICK k \in 1 .. Len(list) + 1 : k = cur + 1
    BY <1>3, <1>4
  <2>2. PICK S : S = Nat
    OBVIOUS
  <2> PICK e, s : e = fresh /\ s = list
    OBVIOUS
  <2>3. s \in Seq(S) /\ e \in S /\ k \in 1 .. Len(s) + 1
    BY <1>10, <2>1, <2>2
  <2>4. InsertAt(s, k, e) \in Seq(S)
    BY ONLY <2>3, InsertAtFacts
  <2>5. Len(InsertAt(s, k, e)) = Len(s) + 1
    BY ONLY <2>3, InsertAtFacts
  <2>6. \A i \in 1 .. Len(s) + 1 : InsertAt(s, k, e)[i] =
           IF i < k THEN s[i] ELSE IF i = k THEN e ELSE s[i - 1]
    BY ONLY <2>3, InsertAtFacts
  <2>7. QED
    BY <1>3, <1>10, <2>1, <2>2, <2>4, <2>5, <2>6
<1>12. DOMAIN new = 1 .. n + 1
    BY <1>11, LenProperties
<1>13. /\ \A i \in 1 .. n : list[i] \in 1 .. fresh - 1
       /\ \A i, j \in 1 .. n : list[i] = list[j] => i = j
  <2>1. DOMAIN a.list = 1 .. n
    BY <1>1, <1>2, <1>3, ChunkFacts
  <2>2. QED
    BY <1>1, <1>2, <1>9, <2>1 DEF ChunksLinked
<1>14. \A i \in 1 .. n + 1 : \/ i = cur + 1 /\ new[i] = fresh
                             \/ i < cur + 1 /\ i \in 1 .. n /\ new[i] = list[i]
                             \/ i > cur + 1 /\ i - 1 \in 1 .. n /\ new[i] = list[i - 1]
  <2>1. SUFFICES ASSUME NEW i \in 1 .. n + 1
                 PROVE  \/ i = cur + 1 /\ new[i] = fresh
                        \/ i < cur + 1 /\ i \in 1 .. n /\ new[i] = list[i]
                        \/ i > cur + 1 /\ i - 1 \in 1 .. n /\ new[i] = list[i - 1]
    BY Zenon
  <2>2. new[i] = IF i < cur + 1 THEN list[i] ELSE IF i = cur + 1 THEN fresh ELSE list[i - 1]
    BY <1>11
  <2>3. CASE i = cur + 1
    BY <1>4, <2>2, <2>3
  <2>4. CASE i < cur + 1
    BY <1>3, <1>4, <2>2, <2>4
  <2>5. CASE i > cur + 1
    BY <1>3, <1>4, <2>2, <2>5
  <2>6. QED
    BY <1>4, <2>3, <2>4, <2>5
<1>15. \A i \in 1 .. n + 1 : new[i] \in 1 .. fresh
  <2>1. SUFFICES ASSUME NEW i \in 1 .. n + 1 PROVE new[i] \in 1 .. fresh
    BY Zenon
  <2>2. new[i] = fresh \/ new[i] \in 1 .. fresh - 1
    BY <1>13, <1>14, Zenon
  <2>3. QED
    BY <1>5, <2>2
<1>16. ASSUME NEW i \in 1 .. n + 1, NEW j \in 1 .. n + 1, new[i] = new[j] PROVE i = j
  <2>1. \A k \in 1 .. n : list[k] # fresh
    BY <1>5, <1>13
  <2>2. CASE i = cur + 1 \/ j = cur + 1
    BY <1>14, <1>16, <2>1, <2>2
  <2>3. CASE i < cur + 1 /\ j < cur + 1
    BY <1>13, <1>14, <1>16, <2>3
  <2>4. CASE i > cur + 1 /\ j > cur + 1
    BY <1>13, <1>14, <1>16, <2>4
  <2>5. CASE i < cur + 1 /\ j > cur + 1
    <3>1. list[i] = list[j - 1] /\ i \in 1 .. n /\ j - 1 \in 1 .. n
      BY <1>14, <1>16, <2>5
    <3>2. i = j - 1
      BY <1>13, <3>1
    <3>3. QED
      BY <1>4, <2>5, <3>2
  <2>6. CASE i > cur + 1 /\ j < cur + 1
    <3>1. list[j] = list[i - 1] /\ j \in 1 .. n /\ i - 1 \in 1 .. n
      BY <1>14, <1>16, <2>6
    <3>2. j = i - 1
      BY <1>13, <3>1
    <3>3. QED
      BY <1>4, <2>6, <3>2
  <2>7. QED
    BY <1>4, <2>2, <2>3, <2>4, <2>5, <2>6
<1>17. PICK b : b = [a EXCEPT !.list = new, !.chunks = chunks, !.cur = cur + 1]
    OBVIOUS
<1>18. /\ b \in Arena /\ b.list = new /\ b.cur = cur + 1 /\ b.cache = a.cache /\ b.chunks = chunks
  <2>1. cur + 1 \in Nat
    BY <1>4
  <2>2. QED
    BY <1>1, <1>9, <1>11, <1>17, <2>1 DEF Arena
<1>19. b = [a EXCEPT !.list = InsertAt(@, a.cur + 1, Len(a.chunks) + 1),
                     !.chunks = Append(@, [size |-> size, length |-> 0]),
                     !.cur = @ + 1]
    BY <1>1, <1>2, <1>4, <1>5, <1>6, <1>8, <1>10, <1>17 DEF Arena
<1>20. ChunksLinked(b)
  <2>1. b.cur \in DOMAIN b.list
    BY <1>3, <1>4, <1>12, <1>18
  <2>2. \A d \in DOMAIN b.chunks : b.chunks[d].length <= b.chunks[d].size
    <3>1. \A d \in 1 .. fresh : d = fresh \/ d \in 1 .. fresh - 1
      BY <1>5
    <3>2. \A d \in 1 .. fresh - 1 : chunks[d].length <= chunks[d].size
      BY <1>1, <1>9, ChunkFacts
    <3>3. chunks[fresh].length <= chunks[fresh].size
      BY <1>7, <1>9
    <3>4. QED
      BY <1>9, <1>18, <3>1, <3>2, <3>3
  <2>3. QED
    BY <1>9, <1>12, <1>15, <1>16, <1>18, <2>1, <2>2 DEF ChunksLinked
<1>21. Reach(a) \subseteq Reach(b)
  <2>1. \A i \in 1 .. cur : i \in 1 .. cur + 1 /\ new[i] = list[i]
    BY <1>3, <1>4, <1>11
  <2>2. QED
    BY <1>2, <1>4, <1>18, <2>1 DEF Reach
<1>22. \A d \in Reach(a) : a.chunks[d].length <= b.chunks[d].length
  <2>1. \A d \in Reach(a) : d \in DOMAIN a.chunks /\ a.chunks[d].length \in Nat
    BY <1>1, ChunkFacts
  <2>2. QED
    BY <1>9, <1>18, <2>1
<1>23. ArenaSound(b, U)
    BY <1>18, <1>20, <1>21, <1>22, Further
<1>24. Current(b) = chunk
  <2>1. PICK k \in 1 .. n + 1 : k = cur + 1
    BY <1>3, <1>4
  <2>2. new[k] = fresh
    BY <1>4, <1>11, <2>1
  <2>3. QED
    BY <1>9, <1>18, <2>1, <2>2 DEF Current, CurrentId
<1>25. QED
    BY <1>7, <1>19, <1>23, <1>24

\* The next chunk is not used yet and has the room.
LEMMA NextChunkSound ==
    ASSUME NEW a, NEW U, ArenaSound(a, U), NEW need \in Nat
    PROVE  LET b == NextChunk(a, need)
           IN  ArenaSound(b, U) /\ Current(b).length = 0 /\ Current(b).size >= need
<1> DEFINE I == {i \in a.cur + 1 .. Len(a.list) : a.chunks[a.list[i]].size >= need}
           place == IF I # {} THEN Min(I) ELSE 0
           room == IF need > Origin THEN need + Origin ELSE Origin
<1>1. a \in Arena /\ ChunksLinked(a)
    BY DEF ArenaSound
<1>2. SelectInSubSeq(a.list, a.cur + 1, Len(a.list), LAMBDA c : a.chunks[c].size >= need) = place
    BY DEF SelectInSubSeq
<1>3. Len(a.list) \in Nat /\ a.cur \in 1 .. Len(a.list)
    BY <1>1, ChunkFacts
<1>4. I # {} => Min(I) \in I
  <2>1. I \subseteq Nat
    BY <1>3
  <2>2. QED
    BY <2>1, MinFacts
<1>5. room \in Nat /\ room >= need
    OBVIOUS
<1>6. CASE I # {}
  <2>1. PICK found \in a.cur + 1 .. Len(a.list) : found = place /\ a.chunks[a.list[found]].size >= need
    BY <1>4, <1>6
  <2>2. found # 0
    <3>1. PICK cur \in Nat : cur = a.cur
      BY <1>3
    <3>2. PICK n \in Nat : n = Len(a.list)
      BY <1>3
    <3>3. found \in cur + 1 .. n
      BY <3>1, <3>2
    <3>4. QED
      BY <3>3
  <2>3. PICK b : b = [a EXCEPT !.list = InsertAt(RemoveAt(@, found), a.cur + 1, a.list[found]),
                               !.chunks[a.list[found]].length = 0,
                               !.cur = @ + 1]
    OBVIOUS
  <2>4. NextChunk(a, need) = b
    BY <1>2, <2>1, <2>2, <2>3 DEF NextChunk
  <2>5. ArenaSound(b, U) /\ Current(b).length = 0 /\ Current(b).size = a.chunks[a.list[found]].size
    BY <2>3, FoundChunk
  <2>6. QED
    BY <2>1, <2>4, <2>5
<1>7. CASE I = {}
  <2>1. place = 0
    BY <1>7
  <2> HIDE DEF place, I
  <2>2. PICK size \in Nat : size = room /\ size >= need
    BY <1>5
  <2>3. PICK b : b = [a EXCEPT !.list = InsertAt(@, a.cur + 1, Len(a.chunks) + 1),
                               !.chunks = Append(@, [size |-> size, length |-> 0]),
                               !.cur = @ + 1]
    OBVIOUS
  <2>4. NextChunk(a, need) = b
    BY <1>2, <2>1, <2>2, <2>3 DEF NextChunk
  <2>5. ArenaSound(b, U) /\ Current(b).length = 0 /\ Current(b).size = size
    BY <2>3, FreshChunk
  <2>6. QED
    BY <2>2, <2>4, <2>5
<1>8. QED
    BY <1>6, <1>7

\* A block is taken out of the cache.
LEMMA TakeSound ==
    ASSUME NEW a, NEW U, ArenaSound(a, U), NEW p \in DOMAIN a.cache
    PROVE  LET b == [a EXCEPT !.cache = RemoveAt(@, p)]
           IN  ArenaSound(b, U \cup {a.cache[p]}) /\ a.cache[p] \notin U /\ a.cache[p] \in Block
<1>1. a \in Arena /\ ChunksLinked(a) /\ U \subseteq Block
    BY DEF ArenaSound
<1>2. PICK old \in Seq(Block) : old = a.cache
    BY <1>1 DEF Arena
<1>3. PICK n \in Nat : n = Len(old) /\ DOMAIN old = 1 .. n
    BY LenProperties
<1>4. p \in 1 .. n /\ old[p] \in Block
    BY <1>2, <1>3, ElementOfSeq
<1>5. PICK cache : cache = RemoveAt(old, p)
    OBVIOUS
<1>6. /\ cache \in Seq(Block) /\ Len(cache) = n - 1
      /\ \A i \in 1 .. n - 1 : cache[i] = IF i < p THEN old[i] ELSE old[i + 1]
  <2>1. old \in Seq(Block) /\ p \in 1 .. Len(old)
    BY <1>3, <1>4
  <2>2. RemoveAt(old, p) \in Seq(Block) /\ Len(RemoveAt(old, p)) = Len(old) - 1
    BY ONLY <2>1, RemoveAtFacts
  <2>3. \A i \in 1 .. Len(old) - 1 : RemoveAt(old, p)[i] = IF i < p THEN old[i] ELSE old[i + 1]
    BY ONLY <2>1, RemoveAtFacts
  <2>4. QED
    BY <1>3, <1>5, <2>2, <2>3
<1>7. DOMAIN cache = 1 .. n - 1
    BY <1>3, <1>6, LenProperties
<1>8. PICK b : b = [a EXCEPT !.cache = cache]
    OBVIOUS
<1>9. b.chunks = a.chunks /\ b.list = a.list /\ b.cur = a.cur /\ b.cache = cache /\ b \in Arena
    BY <1>1, <1>6, <1>8 DEF Arena
<1>10. ChunksLinked(b)
    BY <1>1, <1>9 DEF ChunksLinked
<1>11. \A x : InChunk(b, x) <=> InChunk(a, x)
    BY <1>9 DEF InChunk
\* Where an entry was before.
<1>12. \A i \in 1 .. n - 1 : \E j \in 1 .. n : j # p /\ cache[i] = old[j] /\ j = IF i < p THEN i ELSE i + 1
  <2>1. SUFFICES ASSUME NEW i \in 1 .. n - 1
                 PROVE  \E j \in 1 .. n : j # p /\ cache[i] = old[j] /\ j = IF i < p THEN i ELSE i + 1
    OBVIOUS
  <2>2. CASE i < p
    <3>1. i \in 1 .. n /\ i # p /\ cache[i] = old[i]
      BY <1>3, <1>4, <1>6, <2>2
    <3>2. QED
      BY <2>2, <3>1
  <2>3. CASE ~(i < p)
    <3>1. i + 1 \in 1 .. n /\ i + 1 # p /\ cache[i] = old[i + 1]
      BY <1>3, <1>4, <1>6, <2>3
    <3>2. QED
      BY <2>3, <3>1
  <2>4. QED
    BY <2>2, <2>3
<1>13. /\ \A i, j \in 1 .. n : i # j => Apart(old[i], old[j])
       /\ \A i \in 1 .. n : \A c \in U : Apart(old[i], c)
       /\ \A i \in 1 .. n : InChunk(a, old[i])
    BY <1>2, <1>3 DEF ArenaSound
<1>14. ASSUME NEW i \in 1 .. n - 1, NEW j \in 1 .. n - 1, i # j PROVE Apart(cache[i], cache[j])
  <2>1. PICK k \in 1 .. n : cache[i] = old[k] /\ k = IF i < p THEN i ELSE i + 1
    BY <1>12
  <2>2. PICK l \in 1 .. n : cache[j] = old[l] /\ l = IF j < p THEN j ELSE j + 1
    BY <1>12
  <2>3. k # l
    BY <1>4, <1>14, <2>1, <2>2
  <2>4. QED
    BY <1>13, <2>1, <2>2, <2>3
<1>15. \A i \in 1 .. n - 1 : InChunk(b, cache[i]) /\ \A c \in U : Apart(cache[i], c)
    BY <1>11, <1>12, <1>13
<1>16. ArenaSound(b, U)
  <2>1. \A c, d \in U : c # d => Apart(c, d)
    BY DEF ArenaSound
  <2>2. \A c \in U : InChunk(b, c)
    BY <1>11 DEF ArenaSound
  <2>3. QED
    BY <1>1, <1>7, <1>9, <1>10, <1>14, <1>15, <2>1, <2>2 DEF ArenaSound
<1>17. InChunk(b, old[p])
    BY <1>4, <1>11, <1>13
<1>18. \A c \in U : Apart(c, old[p])
  <2>1. \A c \in U : Apart(old[p], c) /\ c \in Block
    BY <1>1, <1>4, <1>13
  <2>2. QED
    BY <1>4, <2>1, ApartFacts
<1>19. \A i \in DOMAIN b.cache : Apart(b.cache[i], old[p])
    BY <1>4, <1>7, <1>9, <1>12, <1>13
<1>20. ArenaSound(b, U \cup {old[p]}) /\ old[p] \notin U
    BY <1>4, <1>16, <1>17, <1>18, <1>19, More
<1>21. QED
    BY <1>2, <1>4, <1>5, <1>8, <1>20

\* mchar_async_malloc: the block is large enough and apart from all in use.
LEMMA MallocSound ==
    ASSUME NEW a, NEW U, ArenaSound(a, U), NEW size \in Nat \ {0}
    PROVE  LET m == Malloc(a, size)
           IN  /\ ArenaSound(m.arena, U \cup {m.block}) /\ m.block \notin U
               /\ m.block \in Block /\ m.block.size >= size
<1>1. a \in Arena /\ ChunksLinked(a) /\ a.cache \in Seq(Block)
    BY DEF ArenaSound, Arena
<1>2. PICK place \in 0 .. Len(a.cache) :
         place = BestFit(a.cache, size) /\ (place # 0 => a.cache[place].size >= size)
    BY <1>1, BestFitFacts
<1>3. CASE place # 0
  <2>1. place \in DOMAIN a.cache
    BY <1>1, <1>2, <1>3, LenProperties
  <2>2. PICK b : b = [a EXCEPT !.cache = RemoveAt(@, place)]
    OBVIOUS
  <2>3. ArenaSound(b, U \cup {a.cache[place]}) /\ a.cache[place] \notin U /\ a.cache[place] \in Block
    BY <2>1, <2>2, TakeSound
  <2>4. Malloc(a, size) = [arena |-> b, block |-> a.cache[place]]
    BY <1>2, <1>3, <2>2 DEF Malloc
  <2>5. QED
    BY <1>2, <1>3, <2>3, <2>4
\* A block cut from a chunk with the room.
<1>4. ASSUME NEW b, ArenaSound(b, U), Current(b).length + size + SizeWord <= Current(b).size
      PROVE  LET m == Cut(b, size)
             IN  /\ ArenaSound(m.arena, U \cup {m.block}) /\ m.block \notin U
                 /\ m.block \in Block /\ m.block.size >= size
  <2>1. PICK length \in Nat, room \in Nat : length = Current(b).length /\ room = Current(b).size
    <3>1. b \in Arena /\ ChunksLinked(b)
      BY <1>4 DEF ArenaSound
    <3>2. QED
      BY <3>1, ChunkFacts
  <2>2. length + SizeWord + size <= room
    BY <1>4, <2>1
  <2>3. PICK block : block = [chunk |-> CurrentId(b), at |-> length + SizeWord, size |-> size]
    OBVIOUS
  <2>4. PICK c : c = [b EXCEPT !.chunks[CurrentId(b)].length = length + SizeWord + size]
    OBVIOUS
  <2>5. ArenaSound(c, U \cup {block}) /\ block \notin U /\ block \in Block
    BY <1>4, <2>1, <2>2, <2>3, <2>4, CutBlock
  <2>6. Cut(b, size) = [arena |-> c, block |-> block]
    BY <2>1, <2>3, <2>4 DEF Cut
  <2>7. block.size >= size
    BY <2>3
  <2>8. QED
    BY <2>5, <2>6, <2>7
<1>5. CASE place = 0 /\ Current(a).length + size + SizeWord > Current(a).size
  <2>1. ArenaSound(CacheTail(a), U)
    BY CacheTailSound
  <2> PICK need \in Nat : need = size + SizeWord
    OBVIOUS
  <2>2. PICK b : b = NextChunk(CacheTail(a), need)
    OBVIOUS
  <2>3. ArenaSound(b, U) /\ Current(b).length = 0 /\ Current(b).size >= size + SizeWord
    BY <2>1, <2>2, NextChunkSound
  <2>4. Current(b).length + size + SizeWord <= Current(b).size
    <3>1. b \in Arena /\ ChunksLinked(b)
      BY <2>3 DEF ArenaSound
    <3>2. Current(b).size \in Nat
      BY <3>1, ChunkFacts
    <3>3. QED
      BY <2>3, <3>2
  <2>5. Malloc(a, size) = Cut(b, size)
    BY <1>2, <1>5, <2>2, need = size + SizeWord DEF Malloc
  <2>6. QED
    BY <1>4, <2>3, <2>4, <2>5
<1>6. CASE place = 0 /\ ~(Current(a).length + size + SizeWord > Current(a).size)
  <2>1. Current(a).length + size + SizeWord <= Current(a).size
    <3>1. Current(a).size \in Nat /\ Current(a).length \in Nat
      BY <1>1, ChunkFacts
    <3>2. QED
      BY <1>6, <3>1
  <2>2. Malloc(a, size) = Cut(a, size)
    BY <1>2, <1>6 DEF Malloc
  <2>3. QED
    BY <1>4, <2>1, <2>2
<1>7. QED
    BY <1>3, <1>5, <1>6

\* mchar_async_realloc: the block is as large as asked, and no other is touched.
LEMMA ReallocSound ==
    ASSUME NEW a, NEW U, ArenaSound(a, U), NEW block \in U, NEW size \in Nat \ {0}
    PROVE  LET m == Realloc(a, block, size)
           IN  /\ ArenaSound(m.arena, (U \ {block}) \cup {m.block}) /\ m.block \notin U \ {block}
               /\ m.block \in Block /\ m.block.size >= size
<1>1. a \in Arena /\ ChunksLinked(a) /\ U \subseteq Block /\ block \in Block
    BY DEF ArenaSound
<1>2. CASE block.size >= size
  <2>1. Realloc(a, block, size) = [arena |-> a, block |-> block]
    BY <1>2 DEF Realloc
  <2>2. (U \ {block}) \cup {block} = U
    OBVIOUS
  <2>3. QED
    BY <1>1, <1>2, <2>1, <2>2
<1>3. CASE ~(block.size >= size) /\ GrowsInPlace(a, block, size)
  <2>1. PICK id : id = CurrentId(a) /\ id = block.chunk
    BY <1>3 DEF GrowsInPlace
  <2>2. PICK old \in Nat : old = Current(a).length
    BY <1>1, ChunkFacts
  <2>3. /\ id \in Reach(a) /\ id \in DOMAIN a.chunks /\ a.chunks[id].length = old
        /\ old = block.at + block.size /\ old - block.size + size <= a.chunks[id].size
        /\ block.at \in Nat /\ block.size \in Nat \ {0} /\ block.size < size
    BY <1>1, <1>3, <2>1, <2>2, ChunkFacts, SMTT(30) DEF GrowsInPlace, Block
  <2>4. PICK new \in Nat : new = old - block.size + size
    BY <2>3
  <2>5. new = block.at + size /\ old < new /\ new <= a.chunks[id].size
    BY <2>3, <2>4
  <2>6. PICK b : b = [a EXCEPT !.chunks[id].length = new]
    OBVIOUS
  <2>7. /\ b \in Arena /\ b.list = a.list /\ b.cur = a.cur /\ b.cache = a.cache
        /\ DOMAIN b.chunks = DOMAIN a.chunks
        /\ \A d \in DOMAIN a.chunks : /\ b.chunks[d].size = a.chunks[d].size
                                      /\ b.chunks[d].length = IF d = id THEN new ELSE a.chunks[d].length
    BY <1>1, <2>3, <2>6, LengthSet
  <2>8. ChunksLinked(b)
    BY <1>1, <2>5, <2>7 DEF ChunksLinked
  <2>9. Reach(b) = Reach(a)
    BY <2>7 DEF Reach
  <2>10. \A c \in Reach(a) : a.chunks[c].length <= b.chunks[c].length
    <3>1. \A c \in Reach(a) : c \in DOMAIN a.chunks /\ a.chunks[c].length \in Nat
      BY <1>1, ChunkFacts
    <3>2. QED
      BY <2>3, <2>5, <2>7, <3>1
  <2>11. ArenaSound(a, U \ {block})
    BY Fewer
  <2>12. ArenaSound(b, U \ {block})
    BY <2>7, <2>8, <2>9, <2>10, <2>11, Further
  <2>13. PICK grown : grown = [block EXCEPT !.size = size]
    OBVIOUS
  <2>14. /\ grown \in Block /\ grown.chunk = id /\ grown.size = size /\ grown.at = block.at
    BY <1>1, <2>1, <2>13 DEF Block
  <2>15. First(grown) = First(block) /\ Behind(grown) = new /\ Behind(block) = old
    BY <2>3, <2>5, <2>14 DEF First, Behind
  <2>16. InChunk(b, grown)
    <3>1. First(grown) >= 0
      BY <1>1, <2>1, <2>15, InChunkIs DEF ArenaSound
    <3>2. b.chunks[id].length = new /\ Behind(grown) <= new
      BY <2>3, <2>7, <2>15
    <3>3. QED
      BY <2>3, <2>7, <2>8, <2>9, <2>14, <3>1, <3>2, InChunkIs
\* What was apart from the last block of the chunk lies before it.
  <2>17. ASSUME NEW c \in Block, Apart(c, block), InChunk(a, c) PROVE Apart(c, grown)
    <3>1. c.chunk = id => Behind(c) <= old
      BY <1>1, <2>3, <2>17, InChunkIs
    <3>2. c.at \in Nat /\ c.size \in Nat \ {0}
      BY DEF Block
    <3>3. ~(c.chunk = id /\ Behind(block) <= First(c))
      <4>1. First(c) < Behind(c) /\ First(c) \in Int /\ Behind(c) \in Int
        BY <3>2 DEF First, Behind
      <4>2. QED
        BY <2>15, <3>1, <4>1
    <3>4. QED
      BY <2>1, <2>14, <2>15, <2>17, <3>3 DEF Apart
  <2>18. \A c \in U \ {block} : Apart(c, grown)
    BY <1>1, <2>17 DEF ArenaSound
  <2>19. \A i \in DOMAIN b.cache : Apart(b.cache[i], grown)
    <3>1. \A i \in DOMAIN a.cache : a.cache[i] \in Block
      BY <1>1, LenProperties, ElementOfSeq DEF Arena
    <3>2. QED
      BY <2>7, <2>17, <3>1 DEF ArenaSound
  <2>20. ArenaSound(b, (U \ {block}) \cup {grown}) /\ grown \notin U \ {block}
    BY <2>12, <2>14, <2>16, <2>18, <2>19, More
  <2>21. Realloc(a, block, size) = [arena |-> b, block |-> grown]
    <3>1. [a EXCEPT !.chunks[CurrentId(a)].length = @ - block.size + size] = b
      BY <2>1, <2>3, <2>4, <2>6
    <3>2. QED
      BY <1>3, <2>13, <3>1 DEF Realloc
  <2>22. grown.size >= size
    BY <2>14
  <2>23. QED
    BY <2>14, <2>20, <2>21, <2>22
<1>4. CASE ~(block.size >= size) /\ ~GrowsInPlace(a, block, size)
  <2>1. PICK b, new : b = Malloc(a, size).arena /\ new = Malloc(a, size).block
    OBVIOUS
  <2>2. ArenaSound(b, U \cup {new}) /\ new \notin U /\ new \in Block /\ new.size >= size
    BY <2>1, MallocSound
  <2>3. ArenaSound(Free(b, block), (U \cup {new}) \ {block})
    BY <2>2, FreeSound
  <2>4. (U \cup {new}) \ {block} = (U \ {block}) \cup {new}
    BY <2>2
  <2>5. Realloc(a, block, size).arena = Free(b, block) /\ Realloc(a, block, size).block = new
    <3>1. \E c, d : Malloc(a, size) = [arena |-> c, block |-> d]
      BY DEF Malloc, Cut
    <3>2. PICK c, d : Malloc(a, size) = [arena |-> c, block |-> d]
      BY <3>1
    <3>3. [Malloc(a, size) EXCEPT !.arena = Free(@, block)] = [arena |-> Free(c, block), block |-> d]
      BY <3>2
    <3>4. Realloc(a, block, size) = [arena |-> Free(c, block), block |-> d]
      BY <1>4, <3>3 DEF Realloc
    <3>5. b = c /\ new = d
      BY <2>1, <3>2
    <3>6. QED
      BY <3>4, <3>5
  <2>6. QED
    BY <2>2, <2>3, <2>4, <2>5
<1>5. QED
    BY <1>2, <1>3, <1>4

-----------------------------------------------------------------------------
(***************************************************************************)
(* Strings.                                                                *)
(***************************************************************************)
\* A new string has room for as many characters as asked for, the 0 counted.
LEMMA StringInitSound ==
    ASSUME NEW a, NEW U, ArenaSound(a, U), NEW size \in Nat \ {0}
    PROVE  LET m == StringInit(a, size)
           IN  /\ ArenaSound(m.arena, U \cup {m.str.block}) /\ m.str.block \notin U
               /\ StringSound(m.str) /\ m.str.length = 0 /\ ~m.str.cropped
<1>1. PICK b, block : b = Malloc(a, size).arena /\ block = Malloc(a, size).block
    OBVIOUS
<1>2. ArenaSound(b, U \cup {block}) /\ block \notin U /\ block \in Block /\ block.size >= size
    BY <1>1, MallocSound
<1>3. PICK str : str = [block |-> block, length |-> 0, size |-> size, cropped |-> FALSE]
    OBVIOUS
<1>4. str \in String /\ str.block = block /\ str.length = 0 /\ str.size = size /\ ~str.cropped
    BY <1>2, <1>3 DEF String
<1>5. StringSound(str)
  <2>1. block.size \in Nat
    BY <1>2 DEF Block
  <2>2. str.size <= str.block.size /\ str.length + 1 <= str.block.size
    BY <1>2, <1>4, <2>1
  <2>3. QED
    BY <1>4, <2>2 DEF StringSound, Fits
<1>6. StringInit(a, size) = [arena |-> b, str |-> str]
    BY <1>1, <1>3 DEF StringInit
<1>7. QED
    BY <1>2, <1>4, <1>5, <1>6

\* A string grows: only its own block is another then.
LEMMA StringAppendSound ==
    ASSUME NEW a, NEW U, ArenaSound(a, U), NEW str, str.block \in U, StringSound(str), NEW n \in Nat
    PROVE  LET m == StringAppend(a, str, n)
           IN  /\ ArenaSound(m.arena, (U \ {str.block}) \cup {m.str.block})
               /\ m.str.block \notin U \ {str.block}
               /\ StringSound(m.str) /\ m.str.length = str.length + n /\ m.str.cropped = str.cropped
<1>1. /\ str \in String /\ str.block \in Block /\ str.length \in Nat /\ str.size \in Nat
      /\ str.cropped \in BOOLEAN /\ str.block.size \in Nat
    BY DEF StringSound, String, Block
<1>2. PICK need \in Nat \ {0} : need = str.length + n + 1
    BY <1>1
<1>3. CASE need >= str.size
  <2>1. PICK b, block : b = Realloc(a, str.block, need).arena /\ block = Realloc(a, str.block, need).block
    OBVIOUS
  <2>2. /\ ArenaSound(b, (U \ {str.block}) \cup {block}) /\ block \notin U \ {str.block}
        /\ block \in Block /\ block.size >= need
    BY <2>1, ReallocSound
  <2>3. PICK new : new = [str EXCEPT !.block = block, !.length = str.length + n, !.size = need]
    OBVIOUS
  <2>4. /\ new \in String /\ new.block = block /\ new.length = str.length + n /\ new.size = need
        /\ new.cropped = str.cropped
    <3>1. PICK length \in Nat : length = str.length + n
      BY <1>1
    <3>2. new = [str EXCEPT !.block = block, !.length = length, !.size = need]
      BY <2>3, <3>1
    <3>3. /\ new \in String /\ new.block = block /\ new.length = length /\ new.size = need
          /\ new.cropped = str.cropped
      BY <1>1, <2>2, <3>2 DEF String
    <3>4. QED
      BY <3>1, <3>3
  <2>5. StringSound(new)
    <3>1. block.size \in Nat
      BY <2>2 DEF Block
    <3>2. new.size <= new.block.size /\ new.length + 1 <= new.block.size
      BY <1>1, <1>2, <2>2, <2>4, <3>1
    <3>3. QED
      BY <2>4, <3>2 DEF StringSound, Fits
  <2>6. StringAppend(a, str, n) = [arena |-> b, str |-> new]
    BY <1>1, <1>2, <1>3, <2>1, <2>3 DEF StringAppend, String
  <2>7. QED
    BY <2>2, <2>4, <2>5, <2>6
<1>4. CASE ~(need >= str.size)
  <2>1. PICK new : new = [str EXCEPT !.length = str.length + n]
    OBVIOUS
  <2>2. /\ new \in String /\ new.block = str.block /\ new.length = str.length + n /\ new.size = str.size
        /\ new.cropped = str.cropped
    BY <1>1, <2>1 DEF String
  <2>3. StringSound(new)
    <3>1. str.cropped \/ str.size <= str.block.size
      BY DEF StringSound
    <3>2. str.size <= str.block.size => new.length + 1 <= new.block.size
      BY <1>1, <1>2, <1>4, <2>2
    <3>3. QED
      BY <2>2, <3>1, <3>2 DEF StringSound, Fits
  <2>4. StringAppend(a, str, n) = [arena |-> a, str |-> new]
    BY <1>1, <1>2, <1>4, <2>1 DEF StringAppend, String
  <2>5. (U \ {str.block}) \cup {new.block} = U /\ new.block \notin U \ {str.block}
    BY <2>2
  <2>6. ArenaSound(a, (U \ {str.block}) \cup {new.block})
    BY <2>5
  <2>7. StringAppend(a, str, n).arena = a /\ StringAppend(a, str, n).str = new
    BY <2>4
  <2>8. new.length = str.length + n /\ new.cropped = str.cropped
    BY <2>2
  <2>9. QED
    BY ONLY <2>3, <2>5, <2>6, <2>7, <2>8
<1>5. QED
    BY <1>3, <1>4

\* What a string loses at its begin nobody gets.
LEMMA StringCropSound ==
    ASSUME NEW a, NEW U, ArenaSound(a, U), NEW str, str.block \in U, StringSound(str),
           NEW n \in Nat, n <= str.length, n < str.block.size
    PROVE  LET new == StringCrop(str, n)
           IN  /\ ArenaSound(a, (U \ {str.block}) \cup {new.block}) /\ new.block \notin U \ {str.block}
               /\ StringSound(new)
<1>1. a \in Arena /\ ChunksLinked(a) /\ U \subseteq Block
    BY DEF ArenaSound
<1>2. PICK block \in Block : block = str.block
    BY <1>1
<1>3. block.chunk \in Nat /\ block.at \in Nat /\ block.size \in Nat \ {0}
    BY DEF Block
<1>4. PICK short : short = [block EXCEPT !.at = block.at + n, !.size = block.size - n]
    OBVIOUS
<1>5. /\ short \in Block /\ short.chunk = block.chunk
      /\ First(short) >= First(block) /\ Behind(short) = Behind(block)
  <2>1. block.at + n \in Nat /\ block.size - n \in Nat \ {0}
    BY <1>2, <1>3
  <2>2. /\ short \in Block /\ short.chunk = block.chunk
        /\ short.at = block.at + n /\ short.size = block.size - n
    BY <1>3, <1>4, <2>1 DEF Block
  <2>3. QED
    BY <1>3, <2>2 DEF First, Behind
<1>6. First(short) \in Int /\ First(block) \in Int
    BY <1>3, <1>5 DEF First, Block
<1>7. ASSUME NEW c \in Block, Apart(c, block) PROVE Apart(c, short)
  <2>1. Behind(c) \in Int
    BY DEF Behind, Block
  <2>2. QED
    BY <1>5, <1>6, <1>7, <2>1 DEF Apart
<1>8. ArenaSound(a, U \ {block})
    BY Fewer
<1>9. InChunk(a, short)
  <2>1. InChunk(a, block)
    BY <1>2 DEF ArenaSound
  <2>2. QED
    BY <1>1, <1>5, <1>6, <2>1, InChunkIs
<1>10. \A c \in U \ {block} : Apart(c, short)
    BY <1>1, <1>2, <1>7 DEF ArenaSound
<1>11. \A i \in DOMAIN a.cache : Apart(a.cache[i], short)
  <2>1. \A i \in DOMAIN a.cache : a.cache[i] \in Block
    BY <1>1, LenProperties, ElementOfSeq DEF Arena
  <2>2. QED
    BY <1>2, <1>7, <2>1 DEF ArenaSound
<1>12. ArenaSound(a, (U \ {block}) \cup {short}) /\ short \notin U \ {block}
    BY <1>5, <1>8, <1>9, <1>10, <1>11, More
<1>13. PICK new : new = StringCrop(str, n)
    OBVIOUS
<1>14. new.block = short /\ StringSound(new)
  <2>1. str \in String /\ str.length - n \in Nat
    BY DEF StringSound, String
  <2>2. new = [str EXCEPT !.block = short, !.length = str.length - n, !.cropped = TRUE]
    BY <1>2, <1>4, <1>13, <2>1 DEF StringCrop, String
  <2>3. new \in String /\ new.block = short /\ new.cropped
    BY <1>5, <2>1, <2>2 DEF String
  <2>4. QED
    BY <2>3 DEF StringSound
<1>15. QED
    BY <1>2, <1>12, <1>13, <1>14

\* mchar_async_node_clean: an arena without strings.
LEMMA RewoundSound ==
    ASSUME NEW a, NEW U, ArenaSound(a, U)
    PROVE  ArenaSound(Rewound(a), {})
<1>1. a \in Arena /\ ChunksLinked(a)
    BY DEF ArenaSound
<1>2. a.list[1] \in DOMAIN a.chunks /\ 1 \in DOMAIN a.list /\ Head(a.list) = a.list[1]
  <2>1. a.list \in Seq(Nat) /\ Len(a.list) \in Nat /\ 1 \in 1 .. Len(a.list) /\ DOMAIN a.list = 1 .. Len(a.list)
    BY <1>1, ChunkFacts DEF Arena
  <2>2. QED
    BY <1>1, <2>1 DEF ChunksLinked
<1>3. PICK v \in Nat : v = 0
    OBVIOUS
<1>4. PICK b : b = [a EXCEPT !.chunks[a.list[1]].length = v]
    OBVIOUS
<1>5. /\ b \in Arena /\ b.list = a.list
      /\ DOMAIN b.chunks = DOMAIN a.chunks
      /\ \A d \in DOMAIN a.chunks : /\ b.chunks[d].size = a.chunks[d].size
                                    /\ b.chunks[d].length = IF d = a.list[1] THEN v ELSE a.chunks[d].length
    BY <1>1, <1>2, <1>4, LengthSet
<1>6. PICK c : c = [b EXCEPT !.cur = 1, !.cache = <<>>]
    OBVIOUS
<1>7. c \in Arena /\ c.list = a.list /\ c.chunks = b.chunks /\ c.cur = 1 /\ c.cache = <<>>
  <2>1. <<>> \in Seq(Block) /\ 1 \in Nat
    OBVIOUS
  <2>2. PICK empty \in Seq(Block) : empty = <<>>
    BY <2>1
  <2>3. c = [b EXCEPT !.cur = 1, !.cache = empty]
    BY <1>6, <2>2
  <2>4. c \in Arena /\ c.list = a.list /\ c.chunks = b.chunks /\ c.cur = 1 /\ c.cache = empty
    BY <1>5, <2>3 DEF Arena
  <2>5. QED
    BY <2>2, <2>4
<1>8. Rewound(a) = c
    BY <1>1, <1>2, <1>3, <1>4, <1>6 DEF Rewound, Arena
<1>9. ChunksLinked(c)
  <2>1. \A d \in DOMAIN a.chunks : a.chunks[d].length <= a.chunks[d].size /\ 0 <= a.chunks[d].size
    BY <1>1, ChunkFacts
  <2>2. \A d \in DOMAIN c.chunks : c.chunks[d].length <= c.chunks[d].size
    BY <1>3, <1>5, <1>7, <2>1
  <2>3. QED
    BY <1>1, <1>2, <1>5, <1>7, <2>2 DEF ChunksLinked
<1>10. DOMAIN c.cache = {}
    BY <1>7
<1>11. QED
    BY <1>7, <1>8, <1>9, <1>10 DEF ArenaSound

\* The first chunk, of which nothing is used.
LEMMA NewArenaSound == ArenaSound(NewArena, {})
<1>1. NewArena \in Arena
    BY DEF NewArena, Arena, Block
<1>2. ChunksLinked(NewArena)
    BY DEF NewArena, ChunksLinked
<1>3. DOMAIN NewArena.cache = {}
    BY DEF NewArena
<1>4. QED
    BY <1>1, <1>2, <1>3 DEF ArenaSound
===============================================================================
