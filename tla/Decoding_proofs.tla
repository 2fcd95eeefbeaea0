--------------------------- MODULE Decoding_proofs ---------------------------
(***************************************************************************)
(* Nothing is written behind a block: for documents, cuts and names of any *)
(* kind, in every encoding, the room that is made before something is      *)
(* appended to the text of a token is enough.                              *)
(***************************************************************************)
EXTENDS Decoding, SequenceTheorems, WellFoundedInduction, TLAPS

(***************************************************************************)
(* Numbers and sequences.                                                  *)
(***************************************************************************)
\* A set of numbers has a smallest one.
LEMMA MinFacts ==
    ASSUME NEW I, I \subseteq Nat, I # {}
    PROVE  Min(I) \in I /\ \A i \in I : Min(I) <= i
<1>1. PICK x \in I : \A y \in I : ~ (<<y, x>> \in OpToRel(<, Nat))
    BY NatLessThanWellFounded, WFMin
<1>2. ASSUME NEW y \in I PROVE x <= y
  <2>1. x \in Nat /\ y \in Nat
    OBVIOUS
  <2>2. ~(y < x)
    BY <1>1, <2>1 DEF OpToRel
  <2>3. QED
    BY <2>1, <2>2
<1>3. QED
    BY <1>2 DEF Min

\* A set of numbers that has a bound has a largest one.
LEMMA MaxFacts ==
    ASSUME NEW n \in Nat, NEW I, I \subseteq 0 .. n, I # {}
    PROVE  Max(I) \in I /\ \A i \in I : i <= Max(I)
<1> DEFINE D == {n - i : i \in I}
<1>1. D # {} /\ D \subseteq Nat
  <2>1. \A i \in I : n - i \in Nat
    OBVIOUS
  <2>2. QED
    BY <2>1
<1>2. Min(D) \in D /\ \A d \in D : Min(D) <= d
    BY <1>1, MinFacts
<1>3. PICK x \in I : Min(D) = n - x
    BY <1>2
<1>4. \A i \in I : n - i \in D
    OBVIOUS
<1>5. ASSUME NEW i \in I PROVE x >= i
  <2>1. i \in 0 .. n /\ x \in 0 .. n
    OBVIOUS
  <2>2. n - x <= n - i
    BY <1>2, <1>3, <1>4
  <2>3. QED
    BY <2>1, <2>2
<1>6. QED
    BY <1>3, <1>5 DEF Max

\* A sequence of anything.
LEMMA SeqIs ==
    ASSUME NEW T, NEW s \in Seq(T)
    PROVE  IsSeq(s)
<1>1. PICK n \in Nat : n = Len(s)
    BY LenProperties
<1>2. DOMAIN s = 1 .. n /\ s \in [1 .. n -> T]
    BY <1>1, LenProperties
<1>3. s \in [1 .. n -> Range(s)]
    BY <1>2 DEF Range
<1>4. QED
    BY <1>3 DEF IsSeq

\* Its length and its domain.
LEMMA SeqLength ==
    ASSUME NEW s, IsSeq(s)
    PROVE  Len(s) \in Nat /\ DOMAIN s = 1 .. Len(s)
<1>1. PICK T : s \in Seq(T)
    BY DEF IsSeq
<1>2. QED
    BY <1>1, LenProperties

\* A function on the numbers up to n is a sequence, an empty one if n is not positive.
LEMMA FunctionIs ==
    ASSUME NEW n \in Int, NEW s, s = [i \in 1 .. n |-> s[i]]
    PROVE  IsSeq(s) /\ Len(s) = IF n > 0 THEN n ELSE 0
<1>1. PICK m \in Nat : m = IF n > 0 THEN n ELSE 0
    OBVIOUS
<1>2. 1 .. n = 1 .. m
    BY <1>1
<1>3. PICK T : T = {s[i] : i \in 1 .. m}
    OBVIOUS
<1>4. s \in [1 .. m -> T]
    BY <1>2, <1>3
<1>5. s \in Seq(T)
    BY <1>4, SeqDef
<1>6. Len(s) = m
  <2>1. Len(s) \in Nat /\ DOMAIN s = 1 .. Len(s) /\ DOMAIN s = 1 .. m
    BY <1>4, <1>5, LenProperties
  <2>2. PICK k \in Nat : k = Len(s)
    BY <2>1
  <2>3. \A i \in Nat : i \in 1 .. k <=> i \in 1 .. m
    BY <2>1, <2>2
  <2>4. k = m
    BY <2>3
  <2>5. QED
    BY <2>2, <2>4
<1>7. QED
    BY <1>1, <1>5, <1>6, SeqIs

\* One sequence behind another.
LEMMA ConcatIs ==
    ASSUME NEW s, NEW t, IsSeq(s), IsSeq(t)
    PROVE  IsSeq(s \o t) /\ Len(s \o t) = Len(s) + Len(t)
<1>1. PICK S : S = Range(s)
    OBVIOUS
<1>2. PICK T : T = Range(t)
    OBVIOUS
<1>3. PICK U : U = S \cup T
    OBVIOUS
<1>4. s \in Seq(U) /\ t \in Seq(U)
    BY <1>1, <1>2, <1>3 DEF IsSeq
<1>5. s \o t \in Seq(U) /\ Len(s \o t) = Len(s) + Len(t)
    BY ONLY <1>4, ConcatProperties
<1>6. QED
    BY <1>5, SeqIs

\* A piece of a sequence.
LEMMA SubSeqIs ==
    ASSUME NEW s, IsSeq(s), NEW m \in Nat \ {0}, NEW n \in 0 .. Len(s)
    PROVE  IsSeq(SubSeq(s, m, n)) /\ Len(SubSeq(s, m, n)) = IF m <= n THEN n - m + 1 ELSE 0
<1>1. PICK T : s \in Seq(T)
    BY DEF IsSeq
<1>2. Len(s) \in Nat
    BY SeqLength
<1>3. m \in Int /\ n \in Int /\ \A i \in m .. n : s[i] \in T
    BY <1>1, <1>2, ElementOfSeq
<1>4. SubSeq(s, m, n) \in Seq(T) /\ Len(SubSeq(s, m, n)) = IF m <= n THEN n - m + 1 ELSE 0
    BY ONLY <1>3, SubSeqProperties
<1>5. QED
    BY <1>4, SeqIs

\* An element more.
LEMMA AppendIs ==
    ASSUME NEW s, IsSeqs(s), NEW t, IsSeq(t)
    PROVE  IsSeqs(Append(s, t))
<1>1. PICK T : T = Range(s) \cup {t}
    OBVIOUS
<1>2. s \in Seq(T) /\ t \in T
    BY <1>1 DEF IsSeqs, IsSeq
<1>3. /\ Append(s, t) \in Seq(T) /\ Len(Append(s, t)) = Len(s) + 1
      /\ \A i \in 1 .. Len(s) : Append(s, t)[i] = s[i]
      /\ Append(s, t)[Len(s) + 1] = t
    BY ONLY <1>2, AppendProperties
<1>4. Len(s) \in Nat
    BY <1>2, LenProperties
<1>5. ASSUME NEW i \in 1 .. Len(Append(s, t)) PROVE IsSeq(Append(s, t)[i])
  <2>1. i \in 1 .. Len(s) \/ i = Len(s) + 1
    BY <1>3, <1>4
  <2>2. QED
    BY <1>3, <2>1 DEF IsSeqs
<1>6. QED
    BY <1>3, <1>5, SeqIs DEF IsSeqs

\* A rule that gives a piece from the pieces before it gives all of them.
LEMMA FlattenDefined ==
    ASSUME NEW seqs, NEW n \in Nat
    PROVE  \E f : f = [i \in 1 .. n |-> IF i = 1 THEN seqs[i] ELSE f[i - 1] \o seqs[i]]
<1> DEFINE Piece(f, i) == IF i = 1 THEN seqs[i] ELSE f[i - 1] \o seqs[i]
           Defined(k) == \E f : f = [i \in 1 .. k |-> Piece(f, i)]
           Undefined == {k \in 0 .. n : ~Defined(k)}
<1>1. Defined(0)
  <2>1. PICK f : f = [i \in {} |-> 0]
    OBVIOUS
  <2>2. 1 .. 0 = {}
    OBVIOUS
  <2>3. f = [i \in 1 .. 0 |-> Piece(f, i)]
    BY <2>1, <2>2
  <2>4. QED
    BY <2>3
<1>2. ASSUME NEW k \in Nat, Defined(k) PROVE Defined(k + 1)
  <2>1. PICK f : f = [i \in 1 .. k |-> Piece(f, i)]
    BY <1>2
  <2>2. PICK m \in Nat : m = k + 1
    OBVIOUS
  <2>3. PICK h : h = [i \in 1 .. m |-> IF i = m THEN Piece(f, m) ELSE f[i]]
    OBVIOUS
  <2>4. ASSUME NEW i \in 1 .. m PROVE h[i] = Piece(h, i)
    <3>1. CASE i = m /\ i # 1
      <4>1. h[i] = f[m - 1] \o seqs[m]
        BY <2>3, <3>1
      <4>2. PICK j \in Nat : j = m - 1
        BY <2>2
      <4>3. j \in 1 .. m /\ j # m
        BY <2>2, <3>1, <4>2
      <4>4. h[j] = f[j]
        BY <2>3, <4>3
      <4>5. QED
        BY <3>1, <4>1, <4>2, <4>4
    <3>2. CASE i = 1
      <4>1. i = m => h[i] = Piece(f, m)
        BY <2>3
      <4>2. i # m => i \in 1 .. k /\ h[i] = f[i]
        BY <2>2, <2>3
      <4>3. i # m => h[i] = Piece(f, i)
        BY <2>1, <4>2
      <4>4. QED
        BY <3>2, <4>1, <4>3
    <3>3. CASE i # m /\ i # 1
      <4>1. PICK j \in Nat : j = i - 1
        OBVIOUS
      <4>2. i \in 1 .. k /\ j \in 1 .. m /\ j # m
        BY <2>2, <3>3, <4>1
      <4>3. h[i] = f[i] /\ h[j] = f[j]
        BY <2>3, <3>3, <4>2
      <4>4. f[i] = f[j] \o seqs[i]
        BY <2>1, <3>3, <4>1, <4>2
      <4>5. QED
        BY <3>3, <4>1, <4>3, <4>4
    <3>4. QED
      BY <3>1, <3>2, <3>3
  <2> HIDE DEF Piece
  <2>5. h = [i \in 1 .. m |-> h[i]]
    BY <2>3
  <2>6. h = [i \in 1 .. m |-> Piece(h, i)]
    BY <2>4, <2>5
  <2>7. QED
    BY <2>2, <2>6
<1> HIDE DEF Defined
<1>3. Defined(n)
  <2>1. SUFFICES ASSUME Undefined # {} PROVE FALSE
    <3>1. n \in 0 .. n
      OBVIOUS
    <3>2. QED
      BY <2>1, <3>1
  <2>2. Undefined \subseteq Nat
    OBVIOUS
  <2>3. PICK k \in Nat : k \in Undefined /\ \A i \in Undefined : k <= i
    BY <2>1, <2>2, MinFacts
  <2>4. k # 0 /\ k \in 0 .. n /\ ~Defined(k)
    BY <1>1, <2>3
  <2>5. PICK j \in Nat : j = k - 1
    BY <2>4
  <2>6. j \in 0 .. n /\ j \notin Undefined
    BY <2>3, <2>4, <2>5
  <2>7. Defined(j)
    BY <2>6
  <2>8. Defined(j + 1) /\ j + 1 = k
    BY <1>2, <2>5, <2>7
  <2>9. QED
    BY <2>4, <2>8
<1>4. QED
    BY <1>3 DEF Defined

\* The pieces behind one another are a sequence.
LEMMA FlattenIs ==
    ASSUME NEW seqs, IsSeqs(seqs)
    PROVE  IsSeq(FlattenSeq(seqs))
<1>1. PICK n \in Nat : n = Len(seqs)
    BY SeqLength DEF IsSeqs
<1>2. CASE n = 0
    BY <1>1, <1>2 DEF FlattenSeq, IsSeqs
<1>3. CASE n # 0
  <2>1. PICK f : f = CHOOSE g : g = [i \in 1 .. n |-> IF i = 1 THEN seqs[i] ELSE g[i - 1] \o seqs[i]]
    OBVIOUS
  <2>2. f = [i \in 1 .. n |-> IF i = 1 THEN seqs[i] ELSE f[i - 1] \o seqs[i]]
    BY <2>1, FlattenDefined
  <2>3. FlattenSeq(seqs) = f[n]
    BY <1>1, <1>3, <2>1 DEF FlattenSeq
  <2> DEFINE Broken == {i \in 1 .. n : ~IsSeq(f[i])}
  <2>4. Broken = {}
    <3>1. SUFFICES ASSUME Broken # {} PROVE FALSE
      OBVIOUS
    <3>2. Broken \subseteq Nat
      OBVIOUS
    <3>3. PICK k \in Nat : k \in Broken /\ \A i \in Broken : k <= i
      BY <3>1, <3>2, MinFacts
    <3>4. k \in 1 .. n /\ ~IsSeq(f[k]) /\ IsSeq(seqs[k])
      BY <1>1, <3>3 DEF IsSeqs
    <3>5. k # 1
      <4>1. k = 1 => f[k] = seqs[k]
        BY <2>2, <3>4
      <4>2. QED
        BY <3>4, <4>1
    <3>6. PICK j \in Nat : j = k - 1
      BY <3>4
    <3>7. j \in 1 .. n /\ j \notin Broken
      BY <3>3, <3>4, <3>5, <3>6
    <3>8. IsSeq(f[j])
      BY <3>7
    <3>9. f[k] = f[j] \o seqs[k]
      BY <2>2, <3>4, <3>5, <3>6
    <3>10. IsSeq(f[j] \o seqs[k])
      BY <3>4, <3>8, ConcatIs
    <3>11. QED
      BY <3>4, <3>9, <3>10
  <2>5. n \in 1 .. n
    BY <1>3
  <2>6. IsSeq(f[n])
    BY <2>4, <2>5
  <2>7. QED
    BY <2>3, <2>6
<1>4. QED
    BY <1>2, <1>3

-----------------------------------------------------------------------------
(***************************************************************************)
(* The bytes that are appended.                                            *)
(***************************************************************************)
\* A code point has four bytes at most.
LEMMA CodepointIs ==
    ASSUME NEW code
    PROVE  IsSeq(codepoint_to_utf_8(code)) /\ Len(codepoint_to_utf_8(code)) \in 0 .. 4
<1>1. Utf8Length(code) \in 0 .. 4
  <2>1. PICK enough : enough = {n \in 1 .. 4 : 0 <= code /\ code <= Utf8Limits[n]}
    OBVIOUS
  <2>2. Utf8Length(code) = IF enough = {} THEN 0 ELSE Min(enough)
    BY <2>1 DEF Utf8Length
  <2>3. enough \subseteq 1 .. 4 /\ enough \subseteq Nat
    BY <2>1
  <2>4. enough # {} => Min(enough) \in enough
    BY <2>3, MinFacts
  <2>5. CASE enough = {}
    <3>1. Utf8Length(code) = 0
      BY <2>2, <2>5
    <3>2. QED
      BY <3>1
  <2>6. CASE enough # {}
    <3>1. Utf8Length(code) = Min(enough) /\ Min(enough) \in 1 .. 4
      BY <2>2, <2>3, <2>4, <2>6, Zenon
    <3>2. QED
      BY <3>1
  <2>7. QED
    BY <2>5, <2>6
<1>2. PICK n \in Nat : n = Utf8Length(code) /\ n <= 4
    BY <1>1
<1>3. PICK bytes : bytes = codepoint_to_utf_8(code)
    OBVIOUS
<1>4. bytes = [i \in 1 .. n |-> IF i = 1 THEN Lead[n] + code \div 64 ^ (n - 1) ELSE Trail(code, n - i)]
    BY <1>2, <1>3 DEF codepoint_to_utf_8
<1>5. bytes = [i \in 1 .. n |-> bytes[i]]
    BY <1>4
<1>6. IsSeq(bytes) /\ Len(bytes) = n
    BY <1>5, FunctionIs
<1>7. QED
    BY <1>2, <1>3, <1>6

\* What a name stands for has six bytes at most.
LEMMA CharactersIs ==
    ASSUME NEW entry
    PROVE  IsSeq(Characters(Codepoints(entry))) /\ Len(Characters(Codepoints(entry))) \in 0 .. 6
<1>1. PICK codes : codes = Codepoints(entry)
    OBVIOUS
<1>2. codes \in Seq(Nat) /\ (codes = <<>> \/ Len(Characters(codes)) <= 6)
    BY <1>1, CharactersAssumption DEF Codepoints
<1>3. PICK n \in Nat : n = Len(codes) /\ DOMAIN codes = 1 .. n
    BY <1>2, LenProperties
<1>4. PICK bytes : bytes = [i \in 1 .. n |-> codepoint_to_utf_8(codes[i])]
    OBVIOUS
<1>5. IsSeq(bytes) /\ Len(bytes) = n
    BY <1>4, FunctionIs
<1>6. IsSeqs(bytes)
  <2>1. ASSUME NEW i \in 1 .. Len(bytes) PROVE IsSeq(bytes[i])
    <3>1. bytes[i] = codepoint_to_utf_8(codes[i])
      BY <1>4, <1>5
    <3>2. QED
      BY <3>1, CodepointIs
  <2>2. QED
    BY <1>5, <2>1 DEF IsSeqs
<1>7. Characters(codes) = FlattenSeq(bytes)
    BY <1>3, <1>4 DEF Characters
<1>8. IsSeq(Characters(codes))
    BY <1>6, <1>7, FlattenIs
<1>9. codes = <<>> => Len(Characters(codes)) = 0
    BY <1>3, <1>5, <1>7 DEF FlattenSeq
<1>10. Len(Characters(codes)) \in Nat
    BY <1>8, SeqLength
<1>11. PICK k \in Nat : k = Len(Characters(codes))
    BY <1>10
<1>12. k <= 6
    BY <1>2, <1>9, <1>11
<1>13. QED
    BY <1>1, <1>8, <1>11, <1>12, SMTT(30)
-----------------------------------------------------------------------------
(***************************************************************************)
(* The string.                                                             *)
(***************************************************************************)
\* Room is made.
LEMMA NeedInside ==
    ASSUME NEW s, Inside(s), NEW length \in Nat, NEW upto \in Nat
    PROVE  /\ Inside(Need(s, length, upto)) /\ Need(s, length, upto).data = s.data
           /\ Need(s, length, upto).size >= Len(s.data) + length
           /\ upto > 0 => Need(s, length, upto).size > Len(s.data) + length
<1>1. PICK data : data = s.data
    OBVIOUS
<1>2. PICK size \in Nat : size = s.size
    BY DEF Inside
<1>3. PICK n \in Nat : n = Len(data)
    BY <1>1, SeqLength DEF Inside
<1>4. s = [data |-> data, size |-> size, over |-> FALSE] /\ IsSeq(data)
    BY <1>1, <1>2 DEF Inside
<1>5. PICK new \in Nat : new = IF n + length >= size THEN n + length + upto ELSE size
    OBVIOUS
<1>6. Need(s, length, upto) = [data |-> data, size |-> new, over |-> FALSE]
  <2>1. new = IF Len(s.data) + length >= s.size THEN Len(s.data) + length + upto ELSE s.size
    BY <1>1, <1>2, <1>3, <1>5
  <2>2. Need(s, length, upto) = [s EXCEPT !.size = new]
    BY <2>1 DEF Need
  <2>3. QED
    BY <1>4, <2>2
<1>7. PICK t : t = Need(s, length, upto)
    OBVIOUS
<1>8. t.data = data /\ t.size = new /\ Inside(t)
    BY <1>4, <1>6, <1>7 DEF Inside
<1>9. new >= n + length /\ (upto > 0 => new > n + length)
    BY <1>5
<1>10. QED
    BY <1>1, <1>3, <1>7, <1>8, <1>9

\* Bytes are put where there is room for them.
LEMMA PutInside ==
    ASSUME NEW s, Inside(s), NEW from \in 0 .. Len(s.data), NEW bytes, IsSeq(bytes),
           from + Len(bytes) <= s.size
    PROVE  /\ Inside(Put(s, from, bytes)) /\ Put(s, from, bytes).size = s.size
           /\ Len(Put(s, from, bytes).data) = from + Len(bytes)
<1>1. PICK size \in Nat : size = s.size
    BY DEF Inside
<1>2. PICK front : front = SubSeq(s.data, 1, from)
    OBVIOUS
<1>3. IsSeq(s.data) /\ Len(s.data) \in Nat
    BY SeqLength DEF Inside
<1>4. IsSeq(front) /\ Len(front) = from
  <2>1. 1 \in Nat \ {0}
    OBVIOUS
  <2>2. IsSeq(front) /\ Len(front) = IF 1 <= from THEN from - 1 + 1 ELSE 0
    BY <1>2, <1>3, <2>1, SubSeqIs
  <2>3. QED
    BY <1>3, <2>2
<1>5. PICK data : data = front \o bytes
    OBVIOUS
<1>6. IsSeq(data) /\ Len(data) = from + Len(bytes)
    BY <1>4, <1>5, ConcatIs
<1>7. Len(bytes) \in Nat /\ Len(data) \in Nat
    BY <1>6, SeqLength
<1>8. ~(Len(data) > size)
    BY <1>1, <1>6, <1>7
<1>9. PICK p : p = (Len(data) > size)
    OBVIOUS
<1>10. ~p
    BY <1>8, <1>9
<1>11. s.over = FALSE
    BY DEF Inside
<1>12. Put(s, from, bytes) = [data |-> data, size |-> size, over |-> s.over \/ p]
    BY <1>1, <1>2, <1>5, <1>9 DEF Put
<1>13. (s.over \/ p) = FALSE
    BY <1>10, <1>11, Zenon
<1>14. Put(s, from, bytes) = [data |-> data, size |-> size, over |-> FALSE]
    BY <1>12, <1>13, Zenon
<1>15. QED
    BY <1>1, <1>6, <1>14 DEF Inside

\* The null behind it.
LEMMA TerminatedInside ==
    ASSUME NEW s, Inside(s), Len(s.data) < s.size
    PROVE  Inside(Terminated(s)) /\ Terminated(s).data = s.data
<1>1. PICK size \in Nat : size = s.size
    BY DEF Inside
<1>2. PICK data : data = s.data
    OBVIOUS
<1>3. Len(data) \in Nat
    BY <1>2, SeqLength DEF Inside
<1>4. PICK p : p = (Len(data) >= size)
    OBVIOUS
<1>5. ~p
  <2>1. ~(Len(data) >= size)
    BY <1>1, <1>2, <1>3
  <2>2. QED
    BY <1>4, <2>1, Zenon
<1>6. s = [data |-> data, size |-> size, over |-> FALSE]
    BY <1>1, <1>2 DEF Inside
<1>7. Terminated(s) = [s EXCEPT !.over = @ \/ p]
    BY <1>1, <1>2, <1>4 DEF Terminated
<1>8. Terminated(s) = [data |-> data, size |-> size, over |-> FALSE]
    BY <1>5, <1>6, <1>7
<1>9. QED
    BY <1>1, <1>2, <1>8 DEF Inside

\* A byte more.
LEMMA AppendCharInside ==
    ASSUME NEW s, Inside(s), NEW byte
    PROVE  Inside(append_char(s, byte)) /\ Len(append_char(s, byte).data) = Len(s.data) + 1
<1>1. PICK n \in Nat : n = Len(s.data)
    BY SeqLength DEF Inside
<1>2. PICK room : room = Need(s, 2, 0)
    OBVIOUS
<1>3. Inside(room) /\ room.data = s.data /\ room.size >= n + 2
    BY <1>1, <1>2, NeedInside
<1>4. PICK size \in Nat : size = room.size
    BY <1>3 DEF Inside
<1>5. IsSeq(<<byte>>) /\ Len(<<byte>>) = 1
  <2>1. PICK T : T = {byte}
    OBVIOUS
  <2>2. <<byte>> \in Seq(T) /\ Len(<<byte>>) = 1
    BY <2>1
  <2>3. QED
    BY <2>2, SeqIs
<1>6. PICK put : put = Put(room, n, <<byte>>)
    OBVIOUS
<1>7. n \in 0 .. Len(room.data) /\ n + Len(<<byte>>) <= room.size
    BY <1>1, <1>3, <1>4, <1>5
<1>8. Inside(put) /\ put.size = room.size /\ Len(put.data) = n + 1
    BY <1>3, <1>5, <1>6, <1>7, PutInside, ZenonT(60)
<1>9. Len(put.data) < put.size
    BY <1>3, <1>4, <1>8
<1>10. Inside(Terminated(put)) /\ Terminated(put).data = put.data
    BY <1>8, <1>9, TerminatedInside
<1>11. append_char(s, byte) = Terminated(put)
    BY <1>1, <1>2, <1>6 DEF append_char
<1>12. QED
    BY <1>1, <1>8, <1>10, <1>11

\* What a reference stands for takes its place, with four bytes more than the
\* reference has in the string at most.
LEMMA ReplacedInside ==
    ASSUME NEW s, Inside(s), NEW from \in 0 .. Len(s.data), NEW bytes, IsSeq(bytes),
           from + Len(bytes) <= Len(s.data) + 4
    PROVE  /\ Inside(Terminated(Put(Need(s, 5, 0), from, bytes)))
<1>1. PICK n \in Nat : n = Len(s.data)
    BY SeqLength DEF Inside
<1>2. PICK room : room = Need(s, 5, 0)
    OBVIOUS
<1>3. Inside(room) /\ room.data = s.data /\ room.size >= n + 5
    BY <1>1, <1>2, NeedInside
<1>4. PICK size \in Nat : size = room.size
    BY <1>3 DEF Inside
<1>5. PICK k \in Nat : k = Len(bytes)
    BY SeqLength
<1>6. PICK put : put = Put(room, from, bytes)
    OBVIOUS
<1>7. from \in 0 .. Len(room.data) /\ from + Len(bytes) <= room.size
    BY <1>1, <1>3, <1>4, <1>5
<1>8. Inside(put) /\ put.size = room.size /\ Len(put.data) = from + Len(bytes)
    BY <1>3, <1>6, <1>7, PutInside
<1>9. Len(put.data) < put.size
    BY <1>1, <1>3, <1>4, <1>5, <1>8
<1>10. Inside(Terminated(put))
    BY <1>8, <1>9, TerminatedInside
<1>11. QED
    BY <1>2, <1>6, <1>10
-----------------------------------------------------------------------------
(***************************************************************************)
(* The text that is read.                                                  *)
(***************************************************************************)
\* With k bytes left to be read: a text in UTF-8 has room for all of them and
\* for the null, another one makes room for every character.
Room(acc, k) ==
    /\ acc = [str |-> acc.str, res |-> acc.res, cr |-> acc.cr]
    /\ Inside(acc.str)
    /\ encoding = "utf-8" => acc.str.size > Len(acc.str.data) + k

\* Lower case is as long.
LEMMA LowerCaseIs ==
    ASSUME NEW code, IsSeq(code)
    PROVE  IsSeq(LowerCase(code)) /\ Len(LowerCase(code)) = Len(code)
<1>1. PICK n \in Nat : n = Len(code) /\ DOMAIN code = 1 .. n
    BY SeqLength
<1>2. PICK s : s = LowerCase(code)
    OBVIOUS
<1>3. s = [i \in 1 .. n |-> s[i]]
    BY <1>1, <1>2 DEF LowerCase
<1>4. IsSeq(s) /\ Len(s) = n
    BY <1>3, FunctionIs
<1>5. QED
    BY <1>1, <1>2, <1>4

\* One character more.
LEMMA AppendCodeRoom ==
    ASSUME NEW acc, Inside(acc.str), NEW k \in Nat, NEW code, IsSeq(code), Len(code) <= 4,
           encoding = "utf-8" => Len(code) = 1 /\ acc.str.size > Len(acc.str.data) + k + 1
    PROVE  /\ Room(AppendCode(acc, code), k)
           /\ Len(acc.str.data) <= Len(AppendCode(acc, code).str.data)
<1>1. PICK n \in Nat : n = Len(acc.str.data)
    BY SeqLength DEF Inside
<1>2. PICK size \in Nat : size = acc.str.size
    BY DEF Inside
<1>3. PICK room : room = IF encoding = "utf-8" THEN acc.str ELSE Need(acc.str, 5, 1)
    OBVIOUS
<1>4. Inside(room) /\ room.data = acc.str.data
  <2>1. PICK string : string = acc.str
    OBVIOUS
  <2>2. PICK l \in Nat, u \in Nat : l = 5 /\ u = 1
    OBVIOUS
  <2>3. Inside(Need(string, l, u)) /\ Need(string, l, u).data = string.data
    BY <2>1, NeedInside
  <2>4. room = IF encoding = "utf-8" THEN string ELSE Need(string, l, u)
    BY <1>3, <2>1, <2>2
  <2>5. QED
    BY <2>1, <2>3, <2>4
<1>5. PICK wide \in Nat : wide = room.size
    BY <1>4 DEF Inside
<1>6. encoding # "utf-8" => wide >= n + 5
  <2>1. Need(acc.str, 5, 1).size >= Len(acc.str.data) + 5
    BY NeedInside
  <2>2. QED
    BY <1>1, <1>3, <1>5, <2>1
<1>7. encoding = "utf-8" => wide = size /\ size > n + k + 1
    BY <1>1, <1>2, <1>3, <1>5
<1>8. PICK replaced : replaced = (code = <<0>> /\ ~EmitNull)
    OBVIOUS
<1>9. PICK to : to = IF replaced THEN RoomForNull(room) ELSE room
    OBVIOUS
<1>10. PICK new \in Nat : new = IF replaced THEN wide + 5 ELSE wide
    OBVIOUS
<1>11. Inside(to) /\ to.data = acc.str.data /\ to.size = new
  <2>1. RoomForNull(room) = [data |-> room.data, size |-> wide + 5, over |-> FALSE]
    <3>1. PICK data : data = room.data
      OBVIOUS
    <3>2. room = [data |-> data, size |-> wide, over |-> FALSE]
      BY <1>4, <1>5, <3>1 DEF Inside
    <3>3. PICK more \in Nat : more = wide + 5
      OBVIOUS
    <3>4. RoomForNull(room) = [room EXCEPT !.size = more]
      BY <1>5, <3>3 DEF RoomForNull
    <3>5. RoomForNull(room) = [data |-> data, size |-> more, over |-> FALSE]
      BY <3>2, <3>4
    <3>6. QED
      BY <3>1, <3>3, <3>5
  <2>2. replaced => Inside(to) /\ to.data = room.data /\ to.size = wide + 5
    BY <1>4, <1>9, <2>1 DEF Inside
  <2>3. QED
    BY <1>4, <1>5, <1>9, <1>10, <2>2
<1>12. PICK shown : shown = IF code = <<CR>> THEN <<LF>> ELSE IF replaced THEN codepoint_to_utf_8(ReplacementCharacter)
                            ELSE IF Lowercase /\ Len(code) = 1 THEN LowerCase(code) ELSE code
    OBVIOUS
<1>13. PICK length \in Nat : length = Len(code)
    BY SeqLength
<1>14. IsSeq(shown) /\ Len(shown) \in 0 .. 4 /\ (encoding = "utf-8" /\ ~replaced => Len(shown) = 1)
  <2>1. IsSeq(<<LF>>) /\ Len(<<LF>>) = 1
    <3>1. <<LF>> \in Seq({LF}) /\ Len(<<LF>>) = 1
      OBVIOUS
    <3>2. QED
      BY <3>1, SeqIs
  <2>2. PICK bytes : bytes = codepoint_to_utf_8(ReplacementCharacter) /\ IsSeq(bytes) /\ Len(bytes) \in 0 .. 4
    BY CodepointIs
  <2>3. IsSeq(LowerCase(code)) /\ Len(LowerCase(code)) = length
    BY <1>13, LowerCaseIs
  <2>4. length \in 0 .. 4 /\ (encoding = "utf-8" => length = 1)
    BY <1>13
  <2>5. CASE shown = <<LF>>
    BY <2>1, <2>5
  <2>6. CASE replaced /\ shown = bytes
    BY <2>2, <2>6
  <2>7. CASE shown = LowerCase(code)
    BY <2>3, <2>4, <2>7
  <2>8. CASE shown = code
    BY <1>13, <2>4, <2>8
  <2>9. QED
    BY <1>12, <2>2, <2>5, <2>6, <2>7, <2>8, Zenon
<1>15. PICK more \in 0 .. 4 : more = Len(shown)
    BY <1>14
<1>16. n + more <= new /\ (encoding = "utf-8" => new > n + more + k)
    BY <1>6, <1>7, <1>10, <1>14, <1>15, SMTT(30)
<1>17. PICK put : put = Put(to, n, shown)
    OBVIOUS
<1>18. Inside(put) /\ put.size = new /\ Len(put.data) = n + more
  <2>1. n \in 0 .. Len(to.data) /\ n + Len(shown) <= to.size
    BY <1>1, <1>11, <1>15, <1>16
  <2>2. Inside(put) /\ put.size = to.size /\ Len(put.data) = n + Len(shown)
    BY <1>11, <1>14, <1>17, <2>1, PutInside
  <2>3. QED
    BY <1>11, <1>15, <2>2
<1>19. AppendCode(acc, code) = [str |-> put, res |-> acc.res, cr |-> code = <<CR>>]
  <2>1. Len(room.data) = n
    BY <1>1, <1>4
  <2>2. QED
    BY <1>3, <1>8, <1>9, <1>12, <1>17, <2>1, Zenon DEF AppendCode
<1>20. PICK all : all = AppendCode(acc, code)
    OBVIOUS
<1>21. all.str = put /\ all = [str |-> all.str, res |-> all.res, cr |-> all.cr]
    BY <1>19, <1>20
<1>22. encoding = "utf-8" => all.str.size > Len(all.str.data) + k
    BY <1>16, <1>18, <1>21
<1>23. n <= Len(all.str.data)
    BY <1>18, <1>21, SMTT(30)
<1>24. QED
    BY <1>1, <1>18, <1>20, <1>21, <1>22, <1>23 DEF Room

\* One byte more.
LEMMA AppendByteRoom ==
    ASSUME NEW acc, NEW k \in Nat, Room(acc, k + 1), NEW byte
    PROVE  /\ Room(AppendByte(acc, byte), k)
           /\ Len(acc.str.data) <= Len(AppendByte(acc, byte).str.data)
<1>1. PICK n \in Nat : n = Len(acc.str.data)
    BY SeqLength DEF Room, Inside
<1>2. PICK size \in Nat : size = acc.str.size
    BY DEF Room, Inside
<1>3. Inside(acc.str) /\ acc = [str |-> acc.str, res |-> acc.res, cr |-> acc.cr]
    BY DEF Room
<1>4. encoding = "utf-8" => size > n + k + 1
    BY <1>1, <1>2 DEF Room
<1>5. PICK string : string = acc.str
    OBVIOUS
<1>6. Inside(string) /\ Len(string.data) = n /\ string.size = size
    BY <1>1, <1>2, <1>3, <1>5
\* The record that is left when nothing is appended.
<1>7. ASSUME NEW all, all.str = string, all = [str |-> all.str, res |-> all.res, cr |-> all.cr]
      PROVE  Room(all, k) /\ Len(acc.str.data) <= Len(all.str.data)
  <2>1. encoding = "utf-8" => all.str.size > Len(all.str.data) + k
    BY <1>4, <1>6, <1>7
  <2>2. n <= Len(all.str.data)
    BY <1>6, <1>7
  <2>3. QED
    BY <1>1, <1>6, <1>7, <2>1, <2>2 DEF Room
<1>8. CASE acc.cr /\ byte = LF
  <2>1. PICK all : all = [acc EXCEPT !.cr = FALSE]
    OBVIOUS
  <2>2. all.str = string /\ all = [str |-> all.str, res |-> all.res, cr |-> all.cr]
    BY <1>3, <1>5, <2>1
  <2>3. AppendByte(acc, byte) = all
    BY <1>8, <2>1 DEF AppendByte
  <2>4. QED
    BY <1>7, <2>2, <2>3
<1>9. CASE ~(acc.cr /\ byte = LF)
  <2>1. PICK answer : answer = IF encoding = "utf-8" THEN Ok(acc.res, byte) ELSE Decode(encoding, byte, acc.res)
    OBVIOUS
  <2>2. AppendByte(acc, byte) = AppendAnswer(acc, answer)
    BY <1>9, <2>1 DEF AppendByte
  <2>3. CASE answer.status # "ok"
    <3>1. PICK all : all = [str |-> acc.str, res |-> answer.res, cr |-> FALSE]
      OBVIOUS
    <3>2. all.str = string /\ all = [str |-> all.str, res |-> all.res, cr |-> all.cr]
      BY <1>5, <3>1
    <3>3. AppendAnswer(acc, answer) = all
      BY <2>3, <3>1 DEF AppendAnswer
    <3>4. QED
      BY <1>7, <2>2, <3>2, <3>3
  <2>4. CASE answer.status = "ok"
    <3>1. PICK left : left = [acc EXCEPT !.res = answer.res]
      OBVIOUS
    <3>2. left.str = string
      BY <1>3, <1>5, <3>1
    <3>3. PICK code : code = IF encoding = "utf-8" THEN <<answer.res.result>>
                             ELSE codepoint_to_utf_8(answer.res.result)
      OBVIOUS
    <3>4. IsSeq(code) /\ Len(code) <= 4 /\ (encoding = "utf-8" => Len(code) = 1)
      <4>1. PICK x : x = answer.res.result
        OBVIOUS
      <4>2. IsSeq(<<x>>) /\ Len(<<x>>) = 1
        <5>1. <<x>> \in Seq({x}) /\ Len(<<x>>) = 1
          OBVIOUS
        <5>2. QED
          BY <5>1, SeqIs
      <4>3. PICK bytes : bytes = codepoint_to_utf_8(x) /\ IsSeq(bytes) /\ Len(bytes) \in 0 .. 4
        BY CodepointIs
      <4>4. code = IF encoding = "utf-8" THEN <<x>> ELSE bytes
        BY <3>3, <4>1, <4>3
      <4>5. CASE encoding = "utf-8"
        BY <4>2, <4>4, <4>5
      <4>6. CASE encoding # "utf-8"
        <5>1. PICK l \in 0 .. 4 : l = Len(bytes)
          BY <4>3
        <5>2. code = bytes
          BY <4>4, <4>6
        <5>3. l <= 4
          OBVIOUS
        <5>4. Len(code) <= 4
          BY <5>1, <5>2, <5>3
        <5>5. QED
          BY <4>3, <4>6, <5>2, <5>4
      <4>7. QED
        BY <4>5, <4>6
    <3>5. AppendAnswer(acc, answer) = AppendCode(left, code)
      BY <2>4, <3>1, <3>3 DEF AppendAnswer
    <3>6. Inside(left.str) /\ (encoding = "utf-8" => left.str.size > Len(left.str.data) + k + 1)
      BY <1>4, <1>6, <3>2
    <3>7. Room(AppendCode(left, code), k) /\ Len(left.str.data) <= Len(AppendCode(left, code).str.data)
      BY <3>4, <3>6, AppendCodeRoom
    <3>8. Len(left.str.data) = Len(acc.str.data)
      BY <1>5, <3>2
    <3>9. QED
      BY <2>2, <3>5, <3>7, <3>8
  <2>5. QED
    BY <2>3, <2>4
<1>10. QED
    BY <1>8, <1>9
\* What is left when all the bytes are read.
Folded(a, seq) == FoldLeft(AppendByte, a, seq)

\* It gets there in n steps.
FoldedIn(a, n, seq) ==
    \E g : /\ g[0] = a /\ g[n] = Folded(a, seq)
           /\ \A k \in 1 .. n : g[k] = AppendByte(g[k - 1], seq[k])

\* The steps of the fold, one for each byte.
LEMMA FoldSteps ==
    ASSUME NEW a, NEW n \in Nat, NEW seq, DOMAIN seq = 1 .. n
    PROVE  FoldedIn(a, n, seq)
<1> DEFINE Held(f, s) == IF s = {} THEN a ELSE AppendByte(f[s \ {Max(s)}], seq[Max(s)])
           Defined(k) == \E f : f = [s \in SUBSET (1 .. k) |-> Held(f, s)]
           Undefined == {k \in 0 .. n : ~Defined(k)}
<1>1. ASSUME NEW k \in Nat, NEW s \in SUBSET (1 .. k), k \in s PROVE Max(s) = k
  <2>1. s \subseteq 0 .. k
    OBVIOUS
  <2>2. Max(s) \in s /\ \A i \in s : i <= Max(s)
    BY <1>1, <2>1, MaxFacts
  <2>3. Max(s) \in 1 .. k /\ k <= Max(s)
    BY <1>1, <2>2
  <2>4. QED
    BY <2>3
<1>2. Defined(0)
  <2>1. PICK f : f = [s \in {{}} |-> a]
    OBVIOUS
  <2>2. SUBSET (1 .. 0) = {{}}
    OBVIOUS
  <2>3. \A s \in SUBSET (1 .. 0) : Held(f, s) = a
    BY <2>2
  <2>4. f = [s \in SUBSET (1 .. 0) |-> Held(f, s)]
    BY <2>1, <2>2, <2>3
  <2>5. QED
    BY <2>4
\* A function on the sets up to k gives one on those up to k + 1.
<1>3. ASSUME NEW k \in Nat, Defined(k) PROVE Defined(k + 1)
  <2>1. PICK f : f = [s \in SUBSET (1 .. k) |-> Held(f, s)]
    BY <1>3
  <2>2. PICK m \in Nat : m = k + 1
    OBVIOUS
  <2>3. PICK h : h = [s \in SUBSET (1 .. m) |->
                         IF m \in s THEN AppendByte(f[s \ {m}], seq[m]) ELSE f[s]]
    OBVIOUS
  <2>4. ASSUME NEW s \in SUBSET (1 .. m), m \notin s PROVE s \in SUBSET (1 .. k)
    BY <2>2, <2>4
  <2>5. ASSUME NEW s \in SUBSET (1 .. m) PROVE h[s] = Held(h, s)
    <3>1. CASE m \in s
      <4>1. Max(s) = m /\ s # {}
        BY <1>1, <3>1
      <4>2. PICK r \in SUBSET (1 .. k) : r = s \ {m}
        <5>1. \A i \in s \ {m} : i \in 1 .. k
          BY <2>2
        <5>2. s \ {m} \subseteq 1 .. k
          BY <5>1
        <5>3. QED
          BY <5>2
      <4>3. m \notin r /\ r \in SUBSET (1 .. m)
        BY <4>2
      <4>4. h[r] = f[r]
        BY <2>3, <4>3
      <4>5. h[s] = AppendByte(f[r], seq[m])
        BY <2>3, <3>1, <4>2
      <4>6. Held(h, s) = AppendByte(h[r], seq[m])
        BY <4>1, <4>2
      <4>7. QED
        BY <4>4, <4>5, <4>6
    <3>2. CASE m \notin s
      <4>1. s \in SUBSET (1 .. k)
        BY <2>4, <3>2
      <4>2. h[s] = f[s] /\ f[s] = Held(f, s)
        BY <2>1, <2>3, <3>2, <4>1
      <4>3. CASE s = {}
        BY <4>2, <4>3
      <4>4. CASE s # {}
        <5>1. PICK r : r = s \ {Max(s)}
          OBVIOUS
        <5>2. r \in SUBSET (1 .. k) /\ r \in SUBSET (1 .. m) /\ m \notin r
          BY <3>2, <4>1, <5>1
        <5>3. h[r] = f[r]
          BY <2>3, <5>2
        <5>4. Held(f, s) = AppendByte(f[r], seq[Max(s)]) /\ Held(h, s) = AppendByte(h[r], seq[Max(s)])
          BY <4>4, <5>1
        <5>5. QED
          BY <4>2, <5>3, <5>4
      <4>5. QED
        BY <4>3, <4>4
    <3>3. QED
      BY <3>1, <3>2
  <2> HIDE DEF Held
  <2>6. h = [s \in SUBSET (1 .. m) |-> Held(h, s)]
    <3>1. h = [s \in SUBSET (1 .. m) |-> h[s]]
      BY <2>3
    <3>2. QED
      BY <2>5, <3>1
  <2>7. Defined(m)
    BY <2>6
  <2>8. QED
    BY <2>2, <2>7
<1> HIDE DEF Defined
<1>4. Defined(n)
  <2>1. SUFFICES ASSUME Undefined # {} PROVE FALSE
    <3>1. n \in 0 .. n
      OBVIOUS
    <3>2. QED
      BY <2>1, <3>1
  <2>2. Undefined \subseteq Nat
    OBVIOUS
  <2>3. PICK k \in Nat : k \in Undefined /\ \A i \in Undefined : k <= i
    BY <2>1, <2>2, MinFacts
  <2>4. k # 0 /\ k \in 0 .. n /\ ~Defined(k)
    BY <1>2, <2>3
  <2>5. PICK j \in Nat : j = k - 1 /\ j + 1 = k
    BY <2>4
  <2>6. j \in 0 .. n /\ j \notin Undefined
    BY <2>3, <2>4, <2>5
  <2>7. Defined(j)
    BY <2>6
  <2>8. QED
    BY <1>3, <2>4, <2>5, <2>7
<1>5. PICK f : f = [s \in SUBSET (1 .. n) |-> Held(f, s)] /\ Folded(a, seq) = f[1 .. n]
  <2> DEFINE iter == CHOOSE f : f = [s \in SUBSET (1 .. n) |-> Held(f, s)]
  <2>1. iter = [s \in SUBSET (1 .. n) |-> Held(iter, s)]
    <3>1. \E f : f = [s \in SUBSET (1 .. n) |-> Held(f, s)]
      BY <1>4 DEF Defined
    <3>2. QED
      BY <3>1
  <2>2. Folded(a, seq) = iter[1 .. n]
    BY DEF Folded, FoldLeft, MapThenFoldSet
  <2> HIDE DEF iter
  <2>3. QED
    BY <2>1, <2>2
<1>6. PICK g : g = [k \in 0 .. n |-> f[1 .. k]]
    OBVIOUS
<1>7. g[0] = a
  <2>1. g[0] = f[1 .. 0] /\ 1 .. 0 = {} /\ {} \in SUBSET (1 .. n)
    BY <1>6
  <2>2. f[{}] = Held(f, {})
    BY <1>5, <2>1
  <2>3. QED
    BY <2>1, <2>2
<1>8. g[n] = Folded(a, seq)
  <2>1. g[n] = f[1 .. n]
    BY <1>6
  <2>2. f[1 .. n] = Folded(a, seq)
    BY <1>5, Zenon
  <2>3. QED
    BY <2>1, <2>2, Zenon
<1>9. ASSUME NEW k \in 1 .. n PROVE g[k] = AppendByte(g[k - 1], seq[k])
  <2>1. PICK s \in SUBSET (1 .. n) : s = 1 .. k
    OBVIOUS
  <2>2. k \in s /\ s # {} /\ s \in SUBSET (1 .. k) /\ k \in Nat
    BY <2>1
  <2>3. Max(s) = k
    BY <1>1, <2>2
  <2>4. s \ {k} = 1 .. k - 1
    BY <2>1
  <2>5. f[s] = Held(f, s)
    BY <1>5
  <2>6. f[s] = AppendByte(f[1 .. k - 1], seq[k])
    BY <2>2, <2>3, <2>4, <2>5
  <2>7. g[k] = f[s] /\ g[k - 1] = f[1 .. k - 1]
    BY <1>6, <2>1
  <2>8. QED
    BY <2>6, <2>7
<1>10. QED
    BY <1>7, <1>8, <1>9 DEF FoldedIn

\* All the bytes.
LEMMA FoldedRoom ==
    ASSUME NEW acc, NEW bytes, IsSeq(bytes), Room(acc, Len(bytes))
    PROVE  /\ Room(Folded(acc, bytes), 0)
           /\ Len(acc.str.data) <= Len(Folded(acc, bytes).str.data)
<1>1. PICK n \in Nat : n = Len(bytes) /\ DOMAIN bytes = 1 .. n
    BY SeqLength
<1>2. FoldedIn(acc, n, bytes)
    BY <1>1, FoldSteps
<1>3. PICK g : /\ g[0] = acc /\ g[n] = Folded(acc, bytes)
               /\ \A k \in 1 .. n : g[k] = AppendByte(g[k - 1], bytes[k])
    BY <1>2 DEF FoldedIn
<1>4. PICK l \in Nat : l = Len(acc.str.data)
    BY SeqLength DEF Room, Inside
<1> DEFINE Sound(k) == Room(g[k], n - k) /\ l <= Len(g[k].str.data)
           Unsound == {k \in 0 .. n : ~Sound(k)}
<1>5. Sound(0)
  <2>1. Room(g[0], n)
    BY <1>1, <1>3
  <2>2. QED
    BY <1>3, <1>4, <2>1
<1>6. ASSUME NEW k \in 1 .. n, Sound(k - 1) PROVE Sound(k)
  <2>1. PICK j \in Nat : j = k - 1
    OBVIOUS
  <2>2. PICK old : old = g[j]
    OBVIOUS
  <2>3. PICK byte : byte = bytes[k]
    OBVIOUS
  <2>4. PICK new : new = AppendByte(old, byte)
    OBVIOUS
  <2>5. PICK left \in Nat : left = n - k
    OBVIOUS
  <2>6. n - j = left + 1
    BY <2>1, <2>5
  <2>7. Room(old, left + 1) /\ l <= Len(old.str.data)
    BY <1>6, <2>1, <2>2, <2>6
  <2>8. Room(new, left) /\ Len(old.str.data) <= Len(new.str.data)
    BY <2>4, <2>5, <2>7, AppendByteRoom
  <2>9. PICK m \in Nat : m = Len(old.str.data)
    BY <2>7, SeqLength DEF Room, Inside
  <2>10. PICK p \in Nat : p = Len(new.str.data)
    BY <2>8, SeqLength DEF Room, Inside
  <2>11. l <= p
    BY <2>7, <2>8, <2>9, <2>10
  <2>12. g[k] = new
    BY <1>3, <2>1, <2>2, <2>3, <2>4
  <2>13. QED
    BY <2>5, <2>8, <2>10, <2>11, <2>12
<1> HIDE DEF Sound
<1>7. Sound(n)
  <2>1. SUFFICES ASSUME Unsound # {} PROVE FALSE
    <3>1. n \in 0 .. n
      OBVIOUS
    <3>2. QED
      BY <2>1, <3>1
  <2>2. Unsound \subseteq Nat
    OBVIOUS
  <2>3. PICK k \in Nat : k \in Unsound /\ \A i \in Unsound : k <= i
    BY <2>1, <2>2, MinFacts
  <2>4. k # 0 /\ k \in 0 .. n /\ ~Sound(k)
    BY <1>5, <2>3
  <2>5. k \in 1 .. n
    BY <2>4
  <2>6. PICK j \in Nat : j = k - 1
    BY <2>5
  <2>7. j \in 0 .. n /\ j \notin Unsound
    BY <2>3, <2>4, <2>6
  <2>8. Sound(k - 1)
    BY <2>6, <2>7
  <2>9. QED
    BY <1>6, <2>4, <2>5, <2>8
<1>8. n - n = 0
    OBVIOUS
<1>9. QED
    BY <1>3, <1>4, <1>7, <1>8 DEF Sound

\* The text of a string with bytes read behind it.
LEMMA PreprocessedInside ==
    ASSUME NEW s, Inside(s), NEW res, NEW bytes, IsSeq(bytes)
    PROVE  LET part == append_with_preprocessing(s, res, bytes)
           IN Inside(part.str) /\ Len(s.data) <= Len(part.str.data) /\ part.pos \in Nat
<1>1. PICK n \in Nat : n = Len(bytes)
    BY SeqLength
<1>2. PICK l \in Nat : l = Len(s.data)
    BY SeqLength DEF Inside
<1>3. PICK m \in Nat : m = n + 1
    OBVIOUS
<1>4. PICK room : room = Need(s, m, 0)
    OBVIOUS
<1>5. Inside(room) /\ room.data = s.data /\ room.size >= l + m
    BY <1>2, <1>4, NeedInside
<1>6. PICK size \in Nat : size = room.size
    BY <1>5 DEF Inside
<1>7. PICK acc : acc = [str |-> room, res |-> res, cr |-> FALSE]
    OBVIOUS
<1>8. acc.str = room /\ acc = [str |-> acc.str, res |-> acc.res, cr |-> acc.cr]
    BY <1>7
<1>9. Room(acc, Len(bytes))
  <2>1. size > l + n
    BY <1>3, <1>5, <1>6
  <2>2. acc.str.size > Len(acc.str.data) + n
    BY <1>2, <1>5, <1>6, <1>8, <2>1
  <2>3. QED
    BY <1>1, <1>5, <1>8, <2>2 DEF Room
<1>10. PICK all : all = Folded(acc, bytes)
    OBVIOUS
<1>11. Room(all, 0) /\ Len(acc.str.data) <= Len(all.str.data)
    BY <1>9, <1>10, FoldedRoom
<1>12. PICK k \in Nat : k = Len(all.str.data) /\ l <= k
  <2>1. Len(all.str.data) \in Nat
    BY <1>11, SeqLength DEF Room, Inside
  <2>2. QED
    BY <1>2, <1>5, <1>8, <1>11, <2>1
<1>13. PICK string : string = all.str
    OBVIOUS
<1>14. Inside(string) /\ Len(string.data) = k
    BY <1>11, <1>12, <1>13 DEF Room
<1>15. PICK last : last = IF all.cr THEN Need(string, 0, 2)
                          ELSE IF encoding = "utf-8" THEN string ELSE Need(string, 0, 1)
    OBVIOUS
<1>16. Inside(last) /\ Len(last.data) = k /\ Len(last.data) < last.size
  <2>1. ASSUME NEW upto \in Nat, upto > 0, last = Need(string, 0, upto)
        PROVE  Inside(last) /\ Len(last.data) = k /\ Len(last.data) < last.size
    <3>1. PICK zero \in Nat : zero = 0
      OBVIOUS
    <3>2. last = Need(string, zero, upto)
      BY <2>1, <3>1
    <3>3. /\ Inside(Need(string, zero, upto)) /\ Need(string, zero, upto).data = string.data
          /\ upto > 0 => Need(string, zero, upto).size > Len(string.data) + zero
      BY <1>14, NeedInside
    <3>4. Inside(last) /\ last.data = string.data /\ last.size > Len(string.data) + zero
      BY <2>1, <3>2, <3>3
    <3>5. PICK last_size \in Nat : last_size = last.size
      BY <3>4 DEF Inside
    <3>6. QED
      BY <1>14, <3>1, <3>4, <3>5
  <2>2. CASE last = Need(string, 0, 2)
    BY <2>1, <2>2
  <2>3. CASE last = Need(string, 0, 1)
    BY <2>1, <2>3
  <2>4. CASE encoding = "utf-8" /\ last = string
    <3>1. string.size > k + 0
      BY <1>11, <1>12, <1>13, <2>4 DEF Room
    <3>2. PICK last_size \in Nat : last_size = string.size
      BY <1>14 DEF Inside
    <3>3. QED
      BY <1>14, <2>4, <3>1, <3>2
  <2>5. QED
    BY <1>15, <2>2, <2>3, <2>4
<1>17. Inside(Terminated(last)) /\ Terminated(last).data = last.data
    BY <1>16, TerminatedInside
<1>18. PICK part : part = EndOfText(all)
    OBVIOUS
<1>19. part = [str |-> Terminated(last), res |-> all.res, pos |-> IF all.cr THEN Len(string.data) ELSE 0]
    BY <1>13, <1>15, <1>18 DEF EndOfText
<1>20. part.str = Terminated(last) /\ part.pos = IF all.cr THEN k ELSE 0
    BY <1>14, <1>19
<1>21. append_with_preprocessing(s, res, bytes) = part
    BY <1>1, <1>3, <1>4, <1>7, <1>10, <1>18, Zenon DEF append_with_preprocessing, Folded
<1>22. part.pos \in Nat
    BY <1>20
<1>23. Inside(part.str) /\ Len(part.str.data) = k
    BY <1>16, <1>17, <1>20
<1>24. QED
    BY <1>2, <1>12, <1>21, <1>22, <1>23
-----------------------------------------------------------------------------
(***************************************************************************)
(* References.                                                             *)
(***************************************************************************)
\* The smallest of a set of numbers that has one is in it.
LEMMA FirstIs ==
    ASSUME NEW n \in Nat, NEW from \in 0 .. n, NEW I, I \subseteq from .. n
    PROVE  Min({n} \cup I) \in from .. n
<1>1. PICK S : S = {n} \cup I
    OBVIOUS
<1>2. S \subseteq Nat /\ S # {} /\ S \subseteq from .. n
    BY <1>1
<1>3. Min(S) \in S
    BY <1>2, MinFacts
<1>4. QED
    BY <1>1, <1>2, <1>3

\* A piece is read behind the string, and nothing else of the state changes
\* than what the decoder remembers.
LEMMA AppendedInside ==
    ASSUME NEW p, Process(p), NEW s, Inside(s), NEW bytes, IsSeq(bytes)
    PROVE  LET part == Appended(p, s, bytes)
           IN /\ Inside(part.str) /\ Len(s.data) <= Len(part.str.data)
              /\ Process(part.proc) /\ part.proc.state = p.state
              /\ part.proc.tmp_str_pos = p.tmp_str_pos
<1>1. PICK n \in Nat : n = Len(bytes)
    BY SeqLength
<1>2. PICK skip \in {0, 1} : skip = before_append_any_preprocessing(bytes, p.tmp_str_pos_proc)
    BY DEF before_append_any_preprocessing
<1>3. PICK part : part = Appended(p, s, bytes)
    OBVIOUS
<1>4. PICK l \in Nat : l = Len(s.data)
    BY SeqLength DEF Inside
<1>5. CASE n = skip
  <2>1. part = [proc |-> p, str |-> s, any |-> FALSE]
    BY <1>1, <1>2, <1>3, <1>5 DEF Appended
  <2>2. part.proc = p /\ part.str = s
    BY <2>1
  <2>3. QED
    BY <1>3, <1>4, <2>2
<1>6. CASE n # skip
  <2>1. PICK rest : rest = SubSeq(bytes, skip + 1, Len(bytes))
    OBVIOUS
  <2>2. IsSeq(rest)
    <3>1. PICK first \in Nat \ {0} : first = skip + 1
      OBVIOUS
    <3>2. n \in 0 .. Len(bytes)
      BY <1>1
    <3>3. IsSeq(SubSeq(bytes, first, n))
      BY <3>2, SubSeqIs
    <3>4. QED
      BY <1>1, <2>1, <3>1, <3>3
  <2>3. PICK all : all = append_with_preprocessing(s, p.res, rest)
    OBVIOUS
  <2>4. Inside(all.str) /\ Len(s.data) <= Len(all.str.data)
    BY <2>2, <2>3, PreprocessedInside
  <2>5. PICK new : new = [p EXCEPT !.res = all.res, !.tmp_str_pos_proc = all.pos]
    OBVIOUS
  <2>6. part = [any |-> TRUE, proc |-> new, str |-> all.str]
    BY <1>1, <1>2, <1>3, <1>6, <2>1, <2>3, <2>5 DEF Appended, WithPart
  <2>7. part.proc = new /\ part.str = all.str
    BY <2>6
  <2>8. Process(new) /\ new.state = p.state /\ new.tmp_str_pos = p.tmp_str_pos
    BY <2>5 DEF Process
  <2>9. QED
    BY <1>3, <2>4, <2>7, <2>8
<1>7. QED
    BY <1>5, <1>6

\* The search for a name ends at a place in the piece, or at the one that is
\* remembered.
LEMMA FoundIs ==
    ASSUME NEW data, IsSeq(data), NEW offset \in Nat, offset <= Len(data), NEW p, Process(p)
    PROVE  LET found == find_by_pos(data, offset, p.charef_res)
           IN /\ found.offset \in Nat
              /\ DOMAIN found.res = {"curr", "last", "last_offset"} /\ found.res.last_offset \in Nat
<1>1. PICK n \in Nat, o \in Nat : n = Len(data) /\ o = offset /\ o <= n
    BY SeqLength
<1>2. PICK res : res = p.charef_res
    OBVIOUS
<1>3. DOMAIN res = {"curr", "last", "last_offset"} /\ res.last_offset \in Nat
    BY <1>2 DEF Process
<1> DEFINE node(k) == res.curr \o SubSeq(data, offset + 1, offset + k)
           I == {k \in 0 .. Len(data) - offset : k = 0 \/ (node(k) \in Entries /\ data[offset + k] # Semicolon)}
           matched == Max(I)
           at == offset + matched
           named == {k \in 1 .. matched : node(k) \in DOMAIN Names}
           seen == IF named = {} THEN res
                   ELSE [res EXCEPT !.last = node(Max(named)), !.last_offset = offset + Max(named)]
<1>4. matched \in Nat
  <2>1. PICK m \in Nat : m = n - o
    <3>1. n - o \in Nat
      BY <1>1
    <3>2. QED
      BY <3>1
  <2>2. I \subseteq 0 .. m /\ 0 \in I
    BY <1>1, <2>1
  <2>3. Max(I) \in I
    BY <2>2, MaxFacts
  <2>4. QED
    BY <2>2, <2>3
<1>5. PICK m \in Nat : m = matched
    BY <1>4
<1> DEFINE T == {k \in 1 .. m : node(k) \in DOMAIN Names}
<1>6. named = T
    BY <1>5
<1>7. T # {} => Max(T) \in Nat
  <2>1. T \subseteq 0 .. m
    OBVIOUS
  <2>2. T # {} => Max(T) \in T
    BY <2>1, MaxFacts
  <2>3. QED
    BY <2>1, <2>2
<1>8. PICK found : found = find_by_pos(data, offset, res)
    OBVIOUS
<1>9. PICK left : left = seen
    OBVIOUS
<1> HIDE DEF node, T
<1>10. DOMAIN left = {"curr", "last", "last_offset"} /\ left.last_offset \in Nat
  <2>1. CASE T = {}
    BY <1>3, <1>6, <1>9, <2>1
  <2>2. CASE T # {}
    <3>1. PICK k \in Nat : k = offset + Max(T)
      BY <1>1, <1>7, <2>2
    <3>2. left = [res EXCEPT !.last = node(Max(T)), !.last_offset = k]
      BY <1>6, <1>9, <2>2, <3>1
    <3>3. QED
      BY <1>3, <3>1, <3>2
  <2>3. QED
    BY <2>1, <2>2
<1>11. PICK here \in Nat : here = at
  <2>1. PICK sum \in Nat : sum = o + m
    OBVIOUS
  <2>2. QED
    BY <1>1, <1>5, <2>1
<1>12. \/ \E e, r : found = Found(FALSE, e, here, [left EXCEPT !.curr = r])
       \/ \E e : found = Found(TRUE, e, here, left)
       \/ found = LastOf(left, here)
  <2>1. found = IF at = Len(data) THEN Found(FALSE, node(matched), at, [seen EXCEPT !.curr = node(matched)])
                ELSE IF data[at + 1] = Semicolon /\ node(matched + 1) \in Entries
                THEN Found(TRUE, node(matched + 1), at, seen)
                ELSE IF matched = 0 /\ data[at + 1] = Ampersand /\ Codepoints(res.curr) # <<>>
                THEN Found(TRUE, res.curr, at, seen)
                ELSE LastOf(seen, at)
    BY <1>8, Zenon DEF find_by_pos, node
  <2> HIDE DEF matched, at, seen
  <2>2. \/ found = Found(FALSE, node(matched), at, [seen EXCEPT !.curr = node(matched)])
        \/ found = Found(TRUE, node(matched + 1), at, seen)
        \/ found = Found(TRUE, res.curr, at, seen)
        \/ found = LastOf(seen, at)
    BY <2>1, Zenon
  <2>3. QED
    BY <1>9, <1>11, <2>2, Zenon
<1> HIDE DEF matched, at, named, seen, I
<1>13. ASSUME NEW d, NEW e, NEW at1 \in Nat, NEW r, found = Found(d, e, at1, r),
              DOMAIN r = {"curr", "last", "last_offset"}, r.last_offset \in Nat
       PROVE  /\ found.offset \in Nat
              /\ DOMAIN found.res = {"curr", "last", "last_offset"} /\ found.res.last_offset \in Nat
    BY <1>13 DEF Found
<1>14. ASSUME NEW e, NEW r, found = Found(FALSE, e, here, [left EXCEPT !.curr = r])
       PROVE  /\ found.offset \in Nat
              /\ DOMAIN found.res = {"curr", "last", "last_offset"} /\ found.res.last_offset \in Nat
  <2>1. PICK new : new = [left EXCEPT !.curr = r]
    OBVIOUS
  <2>2. DOMAIN new = {"curr", "last", "last_offset"} /\ new.last_offset \in Nat
    BY <1>10, <2>1
  <2>3. QED
    BY <1>13, <1>14, <2>1, <2>2
<1>15. found = LastOf(left, here) => \E e : \E at1 \in Nat : found = Found(TRUE, e, at1, left)
  <2>1. LastOf(left, here) = IF left.last # Null THEN Found(TRUE, left.last, left.last_offset, left)
                             ELSE Found(TRUE, Null, here, left)
    BY DEF LastOf
  <2>2. QED
    BY <1>10, <2>1
<1>16. QED
    BY <1>2, <1>8, <1>10, <1>12, <1>13, <1>14, <1>15
-----------------------------------------------------------------------------
(***************************************************************************)
(* The invariant holds first.                                              *)
(***************************************************************************)
\* The bytes of a document, cut into chunks.
LEMMA CutIs ==
    ASSUME NEW bytes, IsSeq(bytes), NEW n \in Nat \ {0}, NEW ends \in Ends(bytes, n)
    PROVE  IsSeqs(Cut(bytes, ends))
<1>1. PICK l \in Nat : l = Len(bytes) /\ DOMAIN bytes = 1 .. l
    BY SeqLength
<1>2. ends \in [1 .. n -> 1 .. l]
    BY <1>1 DEF Ends
<1>3. PICK chunks : chunks = Cut(bytes, ends)
    OBVIOUS
<1>4. chunks = [i \in 1 .. n |-> SubSeq(bytes, IF i = 1 THEN 1 ELSE ends[i - 1] + 1, ends[i])]
    BY <1>2, <1>3 DEF Cut
<1>5. IsSeq(chunks) /\ Len(chunks) = n
  <2>1. chunks = [i \in 1 .. n |-> chunks[i]]
    BY <1>4
  <2>2. QED
    BY <2>1, FunctionIs
<1>6. ASSUME NEW i \in 1 .. n PROVE IsSeq(chunks[i])
  <2>1. PICK first \in Nat \ {0} : first = IF i = 1 THEN 1 ELSE ends[i - 1] + 1
    <3>1. CASE i = 1
      BY <3>1
    <3>2. CASE i # 1
      <4>1. PICK j \in 1 .. n : j = i - 1
        BY <3>2
      <4>2. PICK e \in 1 .. l : e = ends[j]
        BY <1>2
      <4>3. PICK f \in Nat \ {0} : f = e + 1
        OBVIOUS
      <4>4. QED
        BY <3>2, <4>1, <4>2, <4>3
    <3>3. QED
      BY <3>1, <3>2
  <2>2. PICK last \in 0 .. l : last = ends[i]
    BY <1>2
  <2>3. chunks[i] = SubSeq(bytes, first, last)
    BY <1>4, <2>1, <2>2
  <2>4. last \in 0 .. Len(bytes)
    BY <1>1, <2>2
  <2>5. QED
    BY <2>3, <2>4, SubSeqIs
<1>7. QED
    BY <1>3, <1>5, <1>6 DEF IsSeqs

\* The bytes of a document.
LEMMA BytesIs ==
    ASSUME NEW text \in Texts
    PROVE  IsSeq(FlattenSeq([i \in DOMAIN text.chars |-> text.chars[i].bytes]))
<1>1. text.chars \in Seq([codes : Seq(Nat), bytes : Seq(0 .. 255)])
    BY TextsAssumption
<1>2. PICK chars : chars = text.chars
    OBVIOUS
<1>3. PICK Char : Char = [codes : Seq(Nat), bytes : Seq(0 .. 255)]
    OBVIOUS
<1>4. PICK n \in Nat : n = Len(chars) /\ DOMAIN chars = 1 .. n /\ \A i \in 1 .. n : chars[i] \in Char
  <2>1. chars \in Seq(Char)
    BY <1>1, <1>2, <1>3
  <2>2. QED
    BY <2>1, LenProperties, ElementOfSeq
<1>5. PICK pieces : pieces = [i \in 1 .. n |-> chars[i].bytes]
    OBVIOUS
<1>6. IsSeq(pieces) /\ Len(pieces) = n
  <2>1. pieces = [i \in 1 .. n |-> pieces[i]]
    BY <1>5
  <2>2. QED
    BY <2>1, FunctionIs
<1>7. ASSUME NEW i \in 1 .. n PROVE IsSeq(pieces[i])
  <2>1. chars[i] \in [codes : Seq(Nat), bytes : Seq(0 .. 255)]
    BY <1>3, <1>4
  <2>2. PICK piece : piece = chars[i].bytes
    OBVIOUS
  <2>3. piece \in Seq(0 .. 255)
    BY <2>1, <2>2
  <2>4. IsSeq(piece)
    BY <2>3, SeqIs
  <2>5. QED
    BY <1>5, <2>2, <2>4
<1>8. IsSeqs(pieces)
    BY <1>6, <1>7 DEF IsSeqs
<1>9. IsSeq(FlattenSeq(pieces))
    BY <1>8, FlattenIs
<1>10. QED
    BY <1>2, <1>4, <1>5, <1>9

\* Nothing is a sequence.
LEMMA EmptyIs == IsSeq(<<>>) /\ IsSeqs(<<>>) /\ Len(<<>>) = 0
<1>1. <<>> \in Seq({}) /\ Len(<<>>) = 0
    OBVIOUS
<1>2. IsSeq(<<>>)
    BY <1>1, SeqIs
<1>3. QED
    BY <1>1, <1>2 DEF IsSeqs

\* The first state.
LEMMA WritesInvInit == Init => WritesInv
<1> SUFFICES ASSUME Init PROVE WritesInv
    OBVIOUS
<1>1. IsSeqs(doc.chunks)
  <2>1. PICK text \in Texts, n \in 1 .. MaxChunks :
           \E bytes \in {FlattenSeq([i \in DOMAIN text.chars |-> text.chars[i].bytes])} :
           \E ends \in Ends(bytes, n) :
              doc = [encoding |-> text.encoding, kind |-> text.kind, chars |-> text.chars,
                     chunks |-> Cut(bytes, ends)]
    BY DEF Init
  <2>2. PICK bytes : IsSeq(bytes) /\ \E ends \in Ends(bytes, n) :
              doc = [encoding |-> text.encoding, kind |-> text.kind, chars |-> text.chars,
                     chunks |-> Cut(bytes, ends)]
    BY <2>1, BytesIs
  <2>3. PICK ends \in Ends(bytes, n) :
              doc = [encoding |-> text.encoding, kind |-> text.kind, chars |-> text.chars,
                     chunks |-> Cut(bytes, ends)]
    BY <2>2
  <2>4. doc.chunks = Cut(bytes, ends)
    BY <2>3
  <2>5. n \in Nat \ {0}
    BY MaxChunksAssumption
  <2>6. IsSeqs(Cut(bytes, ends))
    BY <2>2, <2>5, CutIs
  <2>7. QED
    BY <2>4, <2>6
<1>2. FeedInv
    BY <1>1, EmptyIs, EntrySizeAssumption DEF Init, FeedInv
<1>3. PlacesInv
    BY DEF Init, PlacesInv, Process
<1>4. Inside(str)
  <2>1. str = [data |-> <<>>, size |-> 0, over |-> FALSE]
    BY DEF Init
  <2>2. str.data = <<>> /\ str.size = 0
    BY <2>1
  <2>3. QED
    BY <2>1, <2>2, EmptyIs DEF Inside
<1>5. ReferenceInv
    BY DEF Init, ReferenceInv
<1>6. QED
    BY <1>2, <1>3, <1>4, <1>5 DEF WritesInv

-----------------------------------------------------------------------------
(***************************************************************************)
(* Every step of feeding keeps it.                                         *)
(***************************************************************************)
\* While the document is fed no worker has begun.
LEMMA FedReference ==
    ASSUME WritesInv, Feeding, UNCHANGED <<join, proc>>
    PROVE  ReferenceInv'
<1>1. join.buffer = 0 /\ proc.state = "data"
    BY DEF WritesInv, ReferenceInv
<1>2. QED
    BY <1>1 DEF ReferenceInv

\* A chunk as it is.
LEMMA ChunkStep ==
    ASSUME WritesInv, Chunk
    PROVE  WritesInv'
<1>1. PICK n \in Nat : n = feed.chunk /\ n # 0
    BY DEF WritesInv, FeedInv
<1>2. IsSeqs(buffers')
  <2>1. PICK l \in Nat : l = Len(doc.chunks)
    BY SeqLength DEF WritesInv, FeedInv, IsSeqs
  <2>2. n \in 1 .. Len(doc.chunks)
    BY <1>1, <2>1 DEF Chunk, Feeding
  <2>3. IsSeq(doc.chunks[n])
    BY <2>2 DEF WritesInv, FeedInv, IsSeqs
  <2>4. IsSeqs(Append(buffers, doc.chunks[n]))
    BY <2>3, AppendIs DEF WritesInv, FeedInv
  <2>5. QED
    BY <1>1, <2>4 DEF Chunk, chunk_process
<1>3. feed' = [chunk |-> n + 1, at |-> 0, func |-> "none"]
    BY <1>1 DEF Chunk, NextChunk
<1>4. FeedInv'
    BY <1>2, <1>3 DEF WritesInv, FeedInv, Chunk
<1>5. ReferenceInv'
    BY FedReference DEF Chunk
<1>6. PlacesInv' /\ Inside(str')
    BY DEF WritesInv, PlacesInv, Chunk
<1>7. QED
    BY <1>4, <1>5, <1>6 DEF WritesInv

\* The decoder is chosen.
LEMMA StreamBeginStep ==
    ASSUME WritesInv, StreamBegin
    PROVE  WritesInv'
<1>1. FeedInv'
    BY DEF WritesInv, FeedInv, StreamBegin
<1>2. ReferenceInv'
    BY FedReference DEF StreamBegin
<1>3. PlacesInv' /\ Inside(str')
    BY DEF WritesInv, PlacesInv, StreamBegin
<1>4. QED
    BY <1>1, <1>2, <1>3 DEF WritesInv

\* A byte: an entry that has no room for a character is handed on first.
LEMMA StreamByteStep ==
    ASSUME WritesInv, StreamByte
    PROVE  WritesInv'
<1>1. PICK answer :
         LET full == answer.status = "ok" /\ stream.length + 4 >= EntrySize
             bytes == IF answer.status = "ok" THEN codepoint_to_utf_8(answer.res.result) ELSE <<>>
         IN /\ stream' = [res |-> answer.res,
                          length |-> (IF full THEN 0 ELSE stream.length) + Len(bytes),
                          part |-> (IF full THEN <<>> ELSE stream.part) \o bytes]
            /\ IF full THEN chunk_process(stream.part) /\ encoding' = "utf-8"
               ELSE UNCHANGED <<buffers, encoding>>
    BY DEF StreamByte
<1>2. PICK ok \in BOOLEAN : ok = (answer.status = "ok")
    OBVIOUS
<1>3. PICK size \in Nat : size = EntrySize /\ size > 8
    BY EntrySizeAssumption
<1>4. PICK length \in 0 .. size : length = stream.length
    BY <1>3 DEF WritesInv, FeedInv
<1>5. PICK full \in BOOLEAN : full = (ok /\ length + 4 >= size)
    OBVIOUS
<1>6. PICK bytes : bytes = IF ok THEN codepoint_to_utf_8(answer.res.result) ELSE <<>>
    OBVIOUS
<1>7. IsSeq(bytes) /\ Len(bytes) \in 0 .. 4 /\ (~ok => Len(bytes) = 0)
  <2>1. CASE ok
    <3>1. bytes = codepoint_to_utf_8(answer.res.result)
      BY <1>6, <2>1
    <3>2. IsSeq(codepoint_to_utf_8(answer.res.result)) /\ Len(codepoint_to_utf_8(answer.res.result)) \in 0 .. 4
      BY CodepointIs
    <3>3. QED
      BY <2>1, <3>1, <3>2
  <2>2. CASE ~ok
    <3>1. bytes = <<>>
      BY <1>6, <2>2
    <3>2. QED
      BY <3>1, EmptyIs
  <2>3. QED
    BY <2>1, <2>2
<1>8. PICK l \in 0 .. 4 : l = Len(bytes) /\ (~ok => l = 0)
    BY <1>7
<1>9. PICK part : part = IF full THEN <<>> ELSE stream.part
    OBVIOUS
<1>10. PICK left \in Nat : left = IF full THEN 0 ELSE length
    BY <1>3, <1>4
<1>11. IsSeq(part) /\ left + l \in 0 .. size
  <2>1. IsSeq(part)
    BY <1>9, EmptyIs DEF WritesInv, FeedInv
  <2>2. CASE full
    BY <1>3, <1>10, <2>1, <2>2
  <2>3. CASE ~full /\ ~ok
    BY <1>8, <1>10, <2>1, <2>3
  <2>4. CASE ~full /\ ok
    <3>1. ~(length + 4 >= size)
      BY <1>5, <2>4, Zenon
    <3>2. left = length
      BY <1>10, <2>4
    <3>3. QED
      BY <2>1, <3>1, <3>2
  <2>5. QED
    BY <2>2, <2>3, <2>4
<1>12. stream' = [res |-> answer.res, length |-> left + l, part |-> part \o bytes]
    BY <1>1, <1>2, <1>3, <1>4, <1>5, <1>6, <1>8, <1>9, <1>10, Zenon
<1>13. IsSeqs(buffers')
  <2>1. IsSeqs(buffers) /\ IsSeq(stream.part)
    BY DEF WritesInv, FeedInv
  <2>2. IsSeqs(Append(buffers, stream.part))
    BY <2>1, AppendIs
  <2>3. chunk_process(stream.part) \/ UNCHANGED buffers
    BY <1>1, Zenon
  <2>4. QED
    BY <2>1, <2>2, <2>3 DEF chunk_process
<1>14. IsSeq(part \o bytes)
    BY <1>7, <1>11, ConcatIs
<1>15. DOMAIN stream' = {"res", "length", "part"} /\ stream'.length \in 0 .. EntrySize /\ IsSeq(stream'.part)
    BY <1>3, <1>11, <1>12, <1>14
<1>16. DOMAIN feed' = {"chunk", "at", "func"} /\ feed'.chunk \in Nat \ {0} /\ UNCHANGED doc
    BY DEF WritesInv, FeedInv, StreamByte
<1>17. FeedInv'
    BY <1>13, <1>15, <1>16 DEF WritesInv, FeedInv
<1>18. ReferenceInv'
    BY FedReference DEF StreamByte
<1>19. PlacesInv' /\ Inside(str')
    BY DEF WritesInv, PlacesInv, StreamByte
<1>20. QED
    BY <1>17, <1>18, <1>19 DEF WritesInv

\* The end of a chunk.
LEMMA StreamEndStep ==
    ASSUME WritesInv, StreamEnd
    PROVE  WritesInv'
<1>1. IsSeqs(buffers')
  <2>1. IsSeqs(buffers) /\ IsSeq(stream.part)
    BY DEF WritesInv, FeedInv
  <2>2. IsSeqs(Append(buffers, stream.part))
    BY <2>1, AppendIs
  <2>3. chunk_process(stream.part) \/ UNCHANGED buffers
    BY Zenon DEF StreamEnd
  <2>4. QED
    BY <2>1, <2>2, <2>3 DEF chunk_process
<1>2. PICK n \in Nat : n = feed.chunk
    BY DEF WritesInv, FeedInv
<1>3. feed' = [chunk |-> n + 1, at |-> 0, func |-> "none"] /\ stream' = [stream EXCEPT !.part = <<>>] /\ UNCHANGED doc
    BY <1>2 DEF StreamEnd, NextChunk
<1>4. FeedInv'
    BY <1>1, <1>3, EmptyIs DEF WritesInv, FeedInv
<1>5. ReferenceInv'
    BY FedReference DEF StreamEnd
<1>6. PlacesInv' /\ Inside(str')
    BY DEF WritesInv, PlacesInv, StreamEnd
<1>7. QED
    BY <1>4, <1>5, <1>6 DEF WritesInv
-----------------------------------------------------------------------------
(***************************************************************************)
(* Every step of reading keeps it.                                         *)
(***************************************************************************)
\* The piece that is read.
LEMMA PartIs ==
    ASSUME WritesInv, Joining
    PROVE  IsSeq(Part) /\ Len(Part) \in Nat /\ Len(Part) <= join.left
<1>1. PICK n \in Nat : n = Len(buffers)
    BY SeqLength DEF WritesInv, FeedInv, IsSeqs
<1>2. PICK b \in 1 .. Len(buffers) : b = join.buffer
    BY DEF Joining
<1>3. PICK buffer : buffer = buffers[b]
    OBVIOUS
<1>4. IsSeq(buffer)
    BY <1>3 DEF WritesInv, FeedInv, IsSeqs
<1>5. PICK l \in Nat : l = Len(buffer)
    BY <1>4, SeqLength
<1>6. PICK left \in Nat : left = join.left
    BY DEF WritesInv, PlacesInv
<1>7. PICK k : k = Min({left, l})
    OBVIOUS
<1>8. k \in Nat /\ k <= left /\ k <= l
  <2>1. PICK S : S = {left, l}
    OBVIOUS
  <2>2. S \subseteq Nat /\ S # {}
    BY <2>1
  <2>3. Min(S) \in S /\ \A i \in S : Min(S) <= i
    BY <2>2, MinFacts
  <2>4. QED
    BY <1>7, <2>1, <2>3
<1>9. PICK m \in 0 .. l : m = k
    BY <1>8
<1>10. Part = SubSeq(buffer, 1, m)
    BY <1>2, <1>3, <1>5, <1>6, <1>7, <1>9 DEF Part
<1>11. IsSeq(SubSeq(buffer, 1, m)) /\ Len(SubSeq(buffer, 1, m)) = IF 1 <= m THEN m - 1 + 1 ELSE 0
  <2>1. PICK one \in Nat \ {0} : one = 1
    OBVIOUS
  <2>2. m \in 0 .. Len(buffer)
    BY <1>5
  <2>3. IsSeq(SubSeq(buffer, one, m)) /\ Len(SubSeq(buffer, one, m)) = IF one <= m THEN m - one + 1 ELSE 0
    BY <1>4, <2>2, SubSeqIs
  <2>4. QED
    BY <2>1, <2>3
<1>12. Len(Part) = m
    BY <1>10, <1>11
<1>13. QED
    BY <1>6, <1>8, <1>9, <1>10, <1>11, <1>12

\* What a step of reading has to keep.
LEMMA ReadingStep ==
    ASSUME WritesInv, Joining, Same,
           join' \in [buffer : Nat, offset : Nat, left : Nat, save : Nat], join'.buffer # 0,
           Process(proc'), Inside(str'),
           Joining' /\ proc'.state # "data" => proc'.tmp_str_pos + Literal(proc'.state) <= Len(str'.data)
    PROVE  WritesInv'
<1>1. ~Feeding
  <2>1. join.buffer # 0
    BY DEF Joining
  <2>2. QED
    BY <2>1 DEF WritesInv, ReferenceInv
<1>2. ~Feeding'
    BY <1>1 DEF Feeding, Same
<1>3. FeedInv'
    BY DEF WritesInv, FeedInv, Same
<1>4. ReferenceInv'
    BY <1>2 DEF ReferenceInv
<1>5. QED
    BY <1>3, <1>4 DEF WritesInv, PlacesInv

\* A text without references, a buffer at a time.
LEMMA JoinBufferStep ==
    ASSUME WritesInv, JoinBuffer
    PROVE  WritesInv'
<1>1. Joining /\ Same /\ IsSeq(Part) /\ Len(Part) \in Nat /\ Len(Part) <= join.left
    BY PartIs DEF JoinBuffer, Same
<1>2. PICK skip : skip = before_append_any_preprocessing(Part, join.save)
    OBVIOUS
<1>3. PICK part : part = append_with_preprocessing(str, proc.res, SubSeq(Part, skip + 1, Len(Part)))
    OBVIOUS
<1>4. /\ str' = IF Part = <<>> THEN str ELSE part.str
      /\ proc' = IF Part = <<>> THEN proc ELSE [proc EXCEPT !.res = part.res]
      /\ IF LastBuffer THEN Finish
         ELSE join' = [join EXCEPT !.buffer = @ + 1, !.left = @ - Len(Part),
                                   !.save = IF Part = <<>> THEN @ ELSE part.pos]
    BY <1>2, <1>3, Zenon DEF JoinBuffer
<1>5. Inside(str) /\ Process(proc) /\ join \in [buffer : Nat, offset : Nat, left : Nat, save : Nat]
    BY DEF WritesInv, PlacesInv
<1>6. Inside(part.str) /\ Len(str.data) <= Len(part.str.data) /\ part.pos \in Nat
  <2>1. skip \in {0, 1}
    BY <1>2 DEF before_append_any_preprocessing
  <2>2. PICK first \in Nat \ {0} : first = skip + 1
    BY <2>1
  <2>3. PICK n \in Nat : n = Len(Part)
    BY <1>1
  <2>4. n \in 0 .. Len(Part)
    BY <2>3
  <2>5. IsSeq(SubSeq(Part, first, n))
    BY <1>1, <2>4, SubSeqIs
  <2>6. PICK rest : rest = SubSeq(Part, first, n)
    OBVIOUS
  <2>7. PICK s : s = str
    OBVIOUS
  <2>8. PICK res : res = proc.res
    OBVIOUS
  <2>9. /\ Inside(append_with_preprocessing(s, res, rest).str)
        /\ Len(s.data) <= Len(append_with_preprocessing(s, res, rest).str.data)
        /\ append_with_preprocessing(s, res, rest).pos \in Nat
    BY <1>5, <2>5, <2>6, <2>7, PreprocessedInside
  <2>10. part = append_with_preprocessing(s, res, rest)
    BY <1>3, <2>2, <2>3, <2>6, <2>7, <2>8
  <2>11. QED
    BY <2>7, <2>9, <2>10
<1>7. PICK n \in Nat : n = Len(str.data)
    BY <1>5, SeqLength DEF Inside
<1>8. Inside(str') /\ Len(str.data) <= Len(str'.data)
  <2>1. CASE Part = <<>>
    BY <1>4, <1>5, <1>7, <2>1
  <2>2. CASE Part # <<>>
    BY <1>4, <1>6, <2>2
  <2>3. QED
    BY <2>1, <2>2
<1>9. Process(proc') /\ proc'.state = proc.state /\ proc'.tmp_str_pos = proc.tmp_str_pos
  <2>1. CASE Part = <<>>
    BY <1>4, <1>5, <2>1
  <2>2. CASE Part # <<>>
    BY <1>4, <1>5, <2>2 DEF Process
  <2>3. QED
    BY <2>1, <2>2
<1>10. join' \in [buffer : Nat, offset : Nat, left : Nat, save : Nat] /\ join'.buffer # 0
  <2>1. PICK n1 \in Nat : n1 = Len(buffers)
    BY SeqLength DEF WritesInv, FeedInv, IsSeqs
  <2>2. CASE LastBuffer
    <3>1. join' = [join EXCEPT !.buffer = n1 + 1]
      BY <1>4, <2>1, <2>2 DEF Finish
    <3>2. QED
      BY <1>5, <3>1
  <2>3. CASE ~LastBuffer
    <3>1. PICK left \in Nat : left = join.left - Len(Part)
      <4>1. PICK p \in Nat, l \in Nat : p = Len(Part) /\ l = join.left /\ p <= l
        BY <1>1, <1>5
      <4>2. l - p \in Nat
        BY <4>1
      <4>3. QED
        BY <4>1, <4>2
    <3>2. PICK save \in Nat : save = IF Part = <<>> THEN join.save ELSE part.pos
      BY <1>5, <1>6
    <3>3. PICK b \in Nat : b = join.buffer
      BY <1>5
    <3>4. join' = [join EXCEPT !.buffer = b + 1, !.left = left, !.save = save]
      BY <1>4, <2>3, <3>1, <3>2, <3>3, Zenon
    <3>5. PICK next \in Nat : next = b + 1 /\ next # 0
      OBVIOUS
    <3>6. join' = [join EXCEPT !.buffer = next, !.left = left, !.save = save]
      BY <3>4, <3>5
    <3>7. QED
      BY <1>5, <3>5, <3>6
  <2>4. QED
    BY <2>2, <2>3
<1>11. proc'.state # "data" => proc'.tmp_str_pos + Literal(proc'.state) <= Len(str'.data)
  <2>1. proc.state # "data" => proc.tmp_str_pos + Literal(proc.state) <= n
    BY <1>1, <1>7 DEF WritesInv, ReferenceInv
  <2>2. PICK p \in Nat, l \in Nat, m \in Nat : p = proc.tmp_str_pos /\ l = Literal(proc.state) /\ m = Len(str'.data)
    BY <1>5, <1>8, SeqLength DEF Process, Literal, Inside
  <2>3. n <= m
    BY <1>7, <1>8, <2>2
  <2>4. proc.state # "data" => p + l <= m
    BY <2>1, <2>2, <2>3
  <2>5. QED
    BY <1>9, <2>2, <2>4
<1>12. QED
    BY <1>1, <1>8, <1>9, <1>10, <1>11, ReadingStep
\* What a step of a state may rely on.
LEMMA StateFacts ==
    ASSUME WritesInv, NEW state, Processing(state)
    PROVE  /\ Joining /\ proc.state = state /\ IsSeq(Part) /\ Process(proc) /\ Inside(str)
           /\ join \in [buffer : Nat, offset : Nat, left : Nat, save : Nat] /\ join.buffer # 0
           /\ join.offset \in Nat /\ Len(Part) \in Nat /\ join.offset < Len(Part)
           /\ state # "data" => proc.tmp_str_pos + Literal(state) <= Len(str.data)
<1>1. Joining /\ proc.state = state /\ join.offset < Len(Part)
    BY DEF Processing
<1>2. IsSeq(Part) /\ Len(Part) \in Nat
    BY <1>1, PartIs
<1>3. Process(proc) /\ Inside(str) /\ join \in [buffer : Nat, offset : Nat, left : Nat, save : Nat]
    BY DEF WritesInv, PlacesInv
<1>4. join.buffer # 0
    BY <1>1 DEF Joining
<1>5. state # "data" => proc.tmp_str_pos + Literal(state) <= Len(str.data)
    BY <1>1 DEF WritesInv, ReferenceInv
<1>6. QED
    BY <1>1, <1>2, <1>3, <1>4, <1>5

\* Reading goes on at another place of the same buffer.
LEMMA GoToIs ==
    ASSUME NEW j, j \in [buffer : Nat, offset : Nat, left : Nat, save : Nat], j.buffer # 0, NEW offset \in Nat
    PROVE  /\ [j EXCEPT !.offset = offset] \in [buffer : Nat, offset : Nat, left : Nat, save : Nat]
           /\ [j EXCEPT !.offset = offset].buffer # 0
    OBVIOUS

\* The bytes from the place at hand up to one behind it.
LEMMA PieceIs ==
    ASSUME NEW data, IsSeq(data), NEW from \in Nat, NEW to \in from .. Len(data)
    PROVE  IsSeq(SubSeq(data, from + 1, to))
<1>1. PICK n \in Nat : n = Len(data)
    BY SeqLength
<1>2. PICK first \in Nat \ {0} : first = from + 1
    OBVIOUS
<1>3. PICK last \in from .. n : last = to
    BY <1>1
<1>4. last \in 0 .. n
    OBVIOUS
<1>5. last \in 0 .. Len(data)
    BY <1>1, <1>4
<1>6. IsSeq(SubSeq(data, first, last))
    BY <1>5, SubSeqIs
<1>7. QED
    BY <1>2, <1>3, <1>6

\* Text up to an ampersand, or up to the end of the piece.
LEMMA DataStep ==
    ASSUME WritesInv, state_data
    PROVE  WritesInv'
<1>1. Processing("data") /\ Same
    BY DEF state_data, Same
<1>2. /\ Joining /\ IsSeq(Part) /\ Process(proc) /\ Inside(str)
      /\ join \in [buffer : Nat, offset : Nat, left : Nat, save : Nat] /\ join.buffer # 0
      /\ join.offset \in Nat /\ Len(Part) \in Nat /\ join.offset < Len(Part)
    BY <1>1, StateFacts
<1>3. PICK o \in Nat, n \in Nat : o = join.offset /\ n = Len(Part) /\ o < n
    BY <1>2
<1>4. PICK to \in o .. n : to = Min({Len(Part)} \cup {i \in join.offset .. Len(Part) - 1 : Part[i + 1] = Ampersand})
  <2>1. PICK I : I = {i \in o .. n - 1 : Part[i + 1] = Ampersand}
    OBVIOUS
  <2>2. I \subseteq o .. n
    BY <2>1
  <2>3. o \in 0 .. n
    BY <1>3
  <2>4. Min({n} \cup I) \in o .. n
    BY <2>2, <2>3, FirstIs
  <2>5. QED
    BY <1>3, <2>1, <2>4
<1>5. PICK bytes : bytes = SubSeq(Part, join.offset + 1, to)
    OBVIOUS
<1>6. IsSeq(bytes)
  <2>1. to \in o .. Len(Part)
    BY <1>3
  <2>2. IsSeq(SubSeq(Part, o + 1, to))
    BY <1>2, <2>1, PieceIs
  <2>3. QED
    BY <1>3, <1>5, <2>2
<1>7. PICK part : part = Appended(proc, str, bytes)
    OBVIOUS
<1>8. Inside(part.str) /\ Process(part.proc) /\ part.proc.state = "data"
  <2>1. PICK p : p = proc
    OBVIOUS
  <2>2. PICK s : s = str
    OBVIOUS
  <2>3. Process(p) /\ Inside(s)
    BY <1>2, <2>1, <2>2
  <2>4. Inside(Appended(p, s, bytes).str) /\ Process(Appended(p, s, bytes).proc) /\ Appended(p, s, bytes).proc.state = p.state
    BY <1>6, <2>3, AppendedInside
  <2>5. part = Appended(p, s, bytes)
    BY <1>7, <2>1, <2>2
  <2>6. p.state = "data"
    BY <1>1, <2>1 DEF Processing
  <2>7. QED
    BY <2>4, <2>5, <2>6
<1>9. IF to = Len(Part) THEN proc' = part.proc /\ str' = part.str /\ GoTo(to)
      ELSE /\ proc' = [part.proc EXCEPT !.state = "ampersand", !.tmp_str_pos = Len(part.str.data),
                                        !.res = IF part.any THEN result_clean ELSE @]
           /\ str' = append_char(part.str, Ampersand)
           /\ GoTo(to + 1)
    BY <1>4, <1>5, <1>7, Zenon DEF state_data
<1>10. PICK next \in Nat : join' = [join EXCEPT !.offset = next]
  <2>0. to \in Nat
    OBVIOUS
  <2>1. PICK t \in Nat : t = to
    BY <2>0
  <2>2. PICK more \in Nat : more = t + 1
    OBVIOUS
  <2>3. GoTo(to) \/ GoTo(to + 1)
    BY <1>9
  <2>4. QED
    BY <2>1, <2>2, <2>3 DEF GoTo
<1>11. join' \in [buffer : Nat, offset : Nat, left : Nat, save : Nat] /\ join'.buffer # 0
  <2>1. PICK j : j = join
    OBVIOUS
  <2>2. /\ [j EXCEPT !.offset = next] \in [buffer : Nat, offset : Nat, left : Nat, save : Nat]
        /\ [j EXCEPT !.offset = next].buffer # 0
    BY <1>2, <2>1, GoToIs
  <2>3. QED
    BY <1>10, <2>1, <2>2
<1>12. CASE to = Len(Part)
  <2>1. Inside(str') /\ Process(proc') /\ proc'.state = "data"
    BY <1>8, <1>9, <1>12
  <2>2. QED
    BY <1>1, <1>2, <1>11, <2>1, ReadingStep
<1>13. CASE to # Len(Part)
  <2>1. PICK s : s = part.str
    OBVIOUS
  <2>2. PICK p : p = part.proc
    OBVIOUS
  <2>3. PICK l \in Nat : l = Len(s.data)
    BY <1>8, <2>1, SeqLength DEF Inside
  <2>4. Inside(append_char(s, Ampersand)) /\ Len(append_char(s, Ampersand).data) = Len(s.data) + 1
    BY <1>8, <2>1, AppendCharInside
  <2>5. Inside(str') /\ Len(str'.data) = l + 1
    BY <1>9, <1>13, <2>1, <2>3, <2>4
  <2>6. PICK res : proc' = [p EXCEPT !.state = "ampersand", !.tmp_str_pos = l, !.res = res]
    BY <1>9, <1>13, <2>1, <2>2, <2>3, Zenon
  <2>7. Process(proc') /\ proc'.state = "ampersand" /\ proc'.tmp_str_pos = l
    BY <1>8, <2>2, <2>6 DEF Process
  <2>8. proc'.tmp_str_pos + Literal(proc'.state) <= Len(str'.data)
    BY <2>5, <2>7 DEF Literal
  <2>9. QED
    BY <1>1, <1>2, <1>11, <2>5, <2>7, <2>8, ReadingStep
<1>14. QED
    BY <1>12, <1>13

-----------------------------------------------------------------------------
(***************************************************************************)
(* The lemmas about strings, of the string and the place at hand.          *)
(***************************************************************************)
\* A piece is read behind the string.
LEMMA AppendedNow ==
    ASSUME Inside(str), NEW p, Process(p), NEW bytes, IsSeq(bytes)
    PROVE  /\ Inside(Appended(p, str, bytes).str) /\ Len(str.data) <= Len(Appended(p, str, bytes).str.data)
           /\ Process(Appended(p, str, bytes).proc) /\ Appended(p, str, bytes).proc.state = p.state
           /\ Appended(p, str, bytes).proc.tmp_str_pos = p.tmp_str_pos
<1>1. PICK s : s = str
    OBVIOUS
<1> Inside(s)
    BY <1>1
<1>2. /\ Inside(Appended(p, s, bytes).str) /\ Len(s.data) <= Len(Appended(p, s, bytes).str.data)
      /\ Process(Appended(p, s, bytes).proc) /\ Appended(p, s, bytes).proc.state = p.state
      /\ Appended(p, s, bytes).proc.tmp_str_pos = p.tmp_str_pos
    BY AppendedInside
<1>3. QED
    BY <1>1, <1>2

\* A byte more.
LEMMA CharNow ==
    ASSUME Inside(str), NEW byte
    PROVE  Inside(append_char(str, byte)) /\ Len(append_char(str, byte).data) = Len(str.data) + 1
<1>1. PICK s : s = str
    OBVIOUS
<1>2. Inside(append_char(s, byte)) /\ Len(append_char(s, byte).data) = Len(s.data) + 1
    BY <1>1, AppendCharInside
<1>3. QED
    BY <1>1, <1>2

\* A reference that has l bytes in the string, at least, is replaced by four
\* bytes more at most.
LEMMA ReplacedNow ==
    ASSUME Inside(str), Process(proc), NEW l \in Nat, proc.tmp_str_pos + l <= Len(str.data),
           NEW bytes, IsSeq(bytes), Len(bytes) <= l + 4
    PROVE  Inside(Terminated(Put(Need(str, 5, 0), proc.tmp_str_pos, bytes)))
<1>1. PICK s : s = str
    OBVIOUS
<1>2. PICK n \in Nat : n = Len(s.data)
    BY <1>1, SeqLength DEF Inside
<1>3. PICK from \in Nat : from = proc.tmp_str_pos
    BY DEF Process
<1>4. PICK k \in Nat : k = Len(bytes)
    BY SeqLength
<1>5. from + l <= n /\ k <= l + 4
    BY <1>1, <1>2, <1>3, <1>4
<1>6. from <= n /\ from + k <= n + 4
    BY <1>5
<1>7. from \in 0 .. Len(s.data) /\ from + Len(bytes) <= Len(s.data) + 4
    BY <1>2, <1>4, <1>6
<1>8. Inside(Terminated(Put(Need(s, 5, 0), from, bytes)))
    BY <1>1, <1>7, ReplacedInside
<1>9. QED
    BY <1>1, <1>3, <1>8

\* Reading goes on at another place.
LEMMA GoToNow ==
    ASSUME join \in [buffer : Nat, offset : Nat, left : Nat, save : Nat], join.buffer # 0,
           NEW offset \in Nat, GoTo(offset)
    PROVE  join' \in [buffer : Nat, offset : Nat, left : Nat, save : Nat] /\ join'.buffer # 0
<1>1. PICK j : j = join
    OBVIOUS
<1>2. /\ [j EXCEPT !.offset = offset] \in [buffer : Nat, offset : Nat, left : Nat, save : Nat]
      /\ [j EXCEPT !.offset = offset].buffer # 0
    BY <1>1, GoToIs
<1>3. join' = [j EXCEPT !.offset = offset]
    BY <1>1 DEF GoTo
<1>4. QED
    BY <1>2, <1>3
-----------------------------------------------------------------------------
(***************************************************************************)
(* The states of a reference.                                              *)
(***************************************************************************)
\* Behind the ampersand.
LEMMA AmpersandStep ==
    ASSUME WritesInv, state_ampersand
    PROVE  WritesInv'
<1>1. Processing("ampersand") /\ Same
    BY DEF state_ampersand, Same
<1>2. /\ Joining /\ Process(proc) /\ Inside(str)
      /\ join \in [buffer : Nat, offset : Nat, left : Nat, save : Nat] /\ join.buffer # 0
      /\ join.offset \in Nat
      /\ proc.tmp_str_pos + Literal("ampersand") <= Len(str.data)
    BY <1>1, StateFacts
<1>3. PICK n \in Nat, from \in Nat : n = Len(str.data) /\ from = proc.tmp_str_pos
    BY <1>2, SeqLength DEF Inside, Process
<1>4. from + 1 <= n
    BY <1>2, <1>3 DEF Literal
<1>5. PICK o \in Nat, one \in Nat, two \in Nat : o = join.offset /\ one = o + 1 /\ two = o + 2
    BY <1>2
<1>6. CASE Here = Hash
  <2>1. PICK hex \in BOOLEAN : hex = (join.offset + 2 <= Len(Part) /\ Part[join.offset + 2] \in Hex)
    OBVIOUS
  <2>2. PICK state : state = CASE hex -> "hash_x_data" [] join.offset + 1 = Len(Part) -> "hash" [] OTHER -> "hash_data"
    OBVIOUS
  <2>3. state \in {"hash_x_data", "hash", "hash_data"}
    BY <2>2, SMT
  <2>4. PICK letter : letter = Part[join.offset + 2]
    OBVIOUS
  <2>5. /\ proc' = [proc EXCEPT !.tmp_num = 0, !.state = state]
        /\ str' = IF hex THEN append_char(append_char(str, Hash), letter) ELSE append_char(str, Hash)
        /\ GoTo(join.offset + IF hex THEN 2 ELSE 1)
    BY <1>6, <2>1, <2>2, <2>4 DEF state_ampersand
  <2>6. PICK s : s = append_char(str, Hash)
    OBVIOUS
  <2>7. Inside(s) /\ Len(s.data) = n + 1
    BY <1>2, <1>3, <2>6, CharNow
  <2>8. Inside(append_char(s, letter)) /\ Len(append_char(s, letter).data) = Len(s.data) + 1
    BY <2>7, AppendCharInside
  <2>9. PICK l \in Nat : l = Len(str'.data) /\ n <= l /\ Inside(str')
    <3>1. CASE hex
      <4>1. str' = append_char(s, letter)
        BY <2>5, <2>6, <3>1
      <4>2. PICK m \in Nat : m = Len(s.data) + 1 /\ n <= m
        BY <2>7
      <4>3. QED
        BY <2>8, <4>1, <4>2
    <3>2. CASE ~hex
      <4>1. str' = s
        BY <2>5, <2>6, <3>2
      <4>2. PICK m \in Nat : m = n + 1 /\ n <= m
        OBVIOUS
      <4>3. QED
        BY <2>7, <4>1, <4>2
    <3>3. QED
      BY <3>1, <3>2
  <2>10. Process(proc') /\ proc'.state = state /\ proc'.tmp_str_pos = from
    BY <1>2, <1>3, <2>5 DEF Process
  <2>11. PICK next \in Nat : GoTo(next)
    BY <1>5, <2>5
  <2>12. join' \in [buffer : Nat, offset : Nat, left : Nat, save : Nat] /\ join'.buffer # 0
    BY <1>2, <2>11, GoToNow
  <2>13. Literal(proc'.state) = 0
    BY <2>3, <2>10 DEF Literal
  <2>14. proc'.tmp_str_pos + Literal(proc'.state) <= Len(str'.data)
    BY <1>4, <2>9, <2>10, <2>13
  <2>15. QED
    BY <1>1, <1>2, <2>9, <2>10, <2>12, <2>14, ReadingStep
<1>7. CASE Here # Hash /\ get_first_position(Here) = Null
  <2>1. proc' = [proc EXCEPT !.state = "data", !.charef_res.last = Null, !.charef_res.curr = Null]
        /\ str' = str /\ join' = join
    BY <1>7 DEF state_ampersand
  <2>2. Process(proc') /\ proc'.state = "data"
    BY <1>2, <2>1 DEF Process
  <2>3. QED
    BY <1>1, <1>2, <2>1, <2>2, ReadingStep
<1>8. CASE Here # Hash /\ get_first_position(Here) # Null
  <2>1. PICK first : first = get_first_position(Here)
    OBVIOUS
  <2>2. PICK letter : letter = Here
    OBVIOUS
  <2>3. /\ proc' = [proc EXCEPT !.state = "ampersand_data", !.charef_res.last = Null, !.charef_res.curr = first]
        /\ str' = append_char(str, letter)
        /\ GoTo(join.offset + 1)
    BY <1>8, <2>1, <2>2 DEF state_ampersand
  <2>4. Inside(str') /\ Len(str'.data) = n + 1
    BY <1>2, <1>3, <2>3, CharNow
  <2>5. Process(proc') /\ proc'.state = "ampersand_data" /\ proc'.tmp_str_pos = from
    BY <1>2, <1>3, <2>3 DEF Process
  <2>6. join' \in [buffer : Nat, offset : Nat, left : Nat, save : Nat] /\ join'.buffer # 0
    BY <1>2, <1>5, <2>3, GoToNow
  <2>7. Literal(proc'.state) = 2
    BY <2>5 DEF Literal
  <2>8. proc'.tmp_str_pos + Literal(proc'.state) <= Len(str'.data)
    BY <1>4, <2>4, <2>5, <2>7
  <2>9. QED
    BY <1>1, <1>2, <2>4, <2>5, <2>6, <2>8, ReadingStep
<1>9. QED
  <2>1. \/ Here = Hash
        \/ Here # Hash /\ get_first_position(Here) = Null
        \/ Here # Hash /\ get_first_position(Here) # Null
    OBVIOUS
  <2>2. QED
    BY <1>6, <1>7, <1>8, <2>1

\* Behind the ampersand and the hash.
LEMMA HashStep ==
    ASSUME WritesInv, state_ampersand_hash
    PROVE  WritesInv'
<1>1. Processing("hash") /\ Same
    BY DEF state_ampersand_hash, Same
<1>2. /\ Joining /\ Process(proc) /\ Inside(str)
      /\ join \in [buffer : Nat, offset : Nat, left : Nat, save : Nat] /\ join.buffer # 0
      /\ join.offset \in Nat
      /\ proc.tmp_str_pos + Literal("hash") <= Len(str.data)
    BY <1>1, StateFacts
<1>3. PICK n \in Nat, from \in Nat : n = Len(str.data) /\ from = proc.tmp_str_pos
    BY <1>2, SeqLength DEF Inside, Process
<1>4. from <= n
    BY <1>2, <1>3 DEF Literal
<1>5. PICK o \in Nat, one \in Nat : o = join.offset /\ one = o + 1
    BY <1>2
<1>6. PICK letter : letter = Here
    OBVIOUS
<1>7. CASE Here \in Hex
  <2>1. /\ proc' = [proc EXCEPT !.state = "hash_x_data"]
        /\ str' = append_char(str, letter)
        /\ GoTo(join.offset + 1)
    BY <1>6, <1>7 DEF state_ampersand_hash
  <2>2. Inside(str') /\ Len(str'.data) = n + 1
    BY <1>2, <1>3, <2>1, CharNow
  <2>3. Process(proc') /\ proc'.state = "hash_x_data" /\ proc'.tmp_str_pos = from
    BY <1>2, <1>3, <2>1 DEF Process
  <2>4. join' \in [buffer : Nat, offset : Nat, left : Nat, save : Nat] /\ join'.buffer # 0
    BY <1>2, <1>5, <2>1, GoToNow
  <2>5. proc'.tmp_str_pos + Literal(proc'.state) <= Len(str'.data)
    BY <1>4, <2>2, <2>3 DEF Literal
  <2>6. QED
    BY <1>1, <1>2, <2>2, <2>3, <2>4, <2>5, ReadingStep
<1>8. CASE Here \notin Hex
  <2>1. proc' = [proc EXCEPT !.state = "hash_data"] /\ str' = str /\ join' = join
    BY <1>8 DEF state_ampersand_hash
  <2>2. Process(proc') /\ proc'.state = "hash_data" /\ proc'.tmp_str_pos = from
    BY <1>2, <1>3, <2>1 DEF Process
  <2>3. proc'.tmp_str_pos + Literal(proc'.state) <= Len(str'.data)
    BY <1>3, <1>4, <2>1, <2>2 DEF Literal
  <2>4. QED
    BY <1>1, <1>2, <2>1, <2>2, <2>3, ReadingStep
<1>9. QED
    BY <1>7, <1>8

\* Bytes of the piece, and of what lies behind it.
LEMMA UptoIs ==
    ASSUME join.offset \in Nat, NEW to \in Nat, NEW byte
    PROVE  IsSeq(Upto(to, byte))
<1>1. PICK o \in Nat : o = join.offset
    OBVIOUS
<1>2. PICK piece : piece = Upto(to, byte)
    OBVIOUS
<1>3. PICK k \in Int : k = to - o
    OBVIOUS
<1>4. piece = [i \in 1 .. k |-> piece[i]]
    BY <1>1, <1>2, <1>3 DEF Upto
<1>5. IsSeq(piece)
    BY <1>4, FunctionIs
<1>6. QED
    BY <1>2, <1>5

\* In a name.
LEMMA NameStep ==
    ASSUME WritesInv, state_ampersand_data
    PROVE  WritesInv'
<1>1. Processing("ampersand_data") /\ Same
    BY DEF state_ampersand_data, Same
<1>2. /\ Joining /\ IsSeq(Part) /\ Process(proc) /\ Inside(str)
      /\ join \in [buffer : Nat, offset : Nat, left : Nat, save : Nat] /\ join.buffer # 0
      /\ join.offset \in Nat /\ Len(Part) \in Nat /\ join.offset < Len(Part)
      /\ proc.tmp_str_pos + Literal("ampersand_data") <= Len(str.data)
    BY <1>1, StateFacts
<1>3. PICK n \in Nat, from \in Nat : n = Len(str.data) /\ from = proc.tmp_str_pos
    BY <1>2, SeqLength DEF Inside, Process
<1>4. from + 2 <= n
    BY <1>2, <1>3 DEF Literal
<1>5. PICK found : found = find_by_pos(Part, join.offset, proc.charef_res)
    OBVIOUS
<1>6. /\ found.offset \in Nat
      /\ DOMAIN found.res = {"curr", "last", "last_offset"} /\ found.res.last_offset \in Nat
  <2>1. PICK data : data = Part
    OBVIOUS
  <2>2. PICK o \in Nat : o = join.offset
    BY <1>2
  <2>3. o <= Len(data) /\ IsSeq(data)
    BY <1>2, <2>1, <2>2
  <2>4. PICK p : p = proc
    OBVIOUS
  <2>5. Process(p)
    BY <1>2, <2>4
  <2>6. /\ find_by_pos(data, o, p.charef_res).offset \in Nat
        /\ DOMAIN find_by_pos(data, o, p.charef_res).res = {"curr", "last", "last_offset"}
        /\ find_by_pos(data, o, p.charef_res).res.last_offset \in Nat
    BY <2>3, <2>5, FoundIs
  <2>7. found = find_by_pos(data, o, p.charef_res)
    BY <1>5, <2>1, <2>2, <2>4
  <2>8. QED
    BY <2>6, <2>7
<1>7. PICK here \in Nat : here = found.offset
    BY <1>6
<1>8. PICK res : res = found.res
    OBVIOUS
<1>9. PICK p : p = [proc EXCEPT !.charef_res = res]
    OBVIOUS
<1>10. Process(p) /\ p.state = "ampersand_data" /\ p.tmp_str_pos = from
  <2>1. proc.state = "ampersand_data"
    BY <1>1 DEF Processing
  <2>2. QED
    BY <1>2, <1>3, <1>6, <1>8, <1>9, <2>1 DEF Process
<1>11. ASSUME NEW byte, NEW to \in Nat, NEW part, part = AsText(found, to, byte)
       PROVE  /\ Inside(part.str) /\ Len(str.data) <= Len(part.str.data)
              /\ Process(part.proc) /\ part.proc.state = p.state /\ part.proc.tmp_str_pos = p.tmp_str_pos
  <2>1. PICK piece : piece = Upto(to, byte) /\ IsSeq(piece)
    BY <1>2, UptoIs
  <2>2. part = Appended(p, str, piece)
    BY <1>8, <1>9, <1>11, <2>1 DEF AsText
  <2>3. /\ Inside(Appended(p, str, piece).str) /\ Len(str.data) <= Len(Appended(p, str, piece).str.data)
        /\ Process(Appended(p, str, piece).proc) /\ Appended(p, str, piece).proc.state = p.state
        /\ Appended(p, str, piece).proc.tmp_str_pos = p.tmp_str_pos
    BY <1>2, <1>10, <2>1, AppendedNow
  <2>4. QED
    BY <2>2, <2>3
<1>12. ASSUME NEW to \in Nat, GoTo(to), Process(proc'), Inside(str'),
              proc'.state # "data" => proc'.tmp_str_pos + Literal(proc'.state) <= Len(str'.data)
       PROVE  WritesInv'
  <2>1. join' \in [buffer : Nat, offset : Nat, left : Nat, save : Nat] /\ join'.buffer # 0
    BY <1>2, <1>12, GoToNow
  <2>2. QED
    BY <1>1, <1>2, <1>12, <2>1, ReadingStep
<1>13. PICK byte \in Behind :
         \E next \in {IF found.offset < Len(Part) THEN Part[found.offset + 1] ELSE byte} :
           NameGoesOn(found, byte) \/ NameInValue(found, next, byte) \/ NameEnds(found, next, byte)
    BY <1>5, Zenon DEF state_ampersand_data
<1>14. CASE NameGoesOn(found, byte)
  <2>1. PICK part : part = AsText(found, found.offset, byte) /\ proc' = part.proc /\ str' = part.str /\ GoTo(found.offset)
    BY <1>14 DEF NameGoesOn
  <2>2. /\ Inside(part.str) /\ Len(str.data) <= Len(part.str.data)
        /\ Process(part.proc) /\ part.proc.state = p.state /\ part.proc.tmp_str_pos = p.tmp_str_pos
    BY <1>6, <1>11, <2>1
  <2>3. Inside(str') /\ n <= Len(str'.data) /\ Process(proc') /\ proc'.state = "ampersand_data" /\ proc'.tmp_str_pos = from
    BY <1>3, <1>10, <2>1, <2>2
  <2>4. PICK l \in Nat : l = Len(str'.data)
    BY <2>3, SeqLength DEF Inside
  <2>5. from + 2 <= l
    BY <1>4, <2>3, <2>4
  <2>6. proc'.tmp_str_pos + Literal(proc'.state) <= Len(str'.data)
    BY <2>3, <2>4, <2>5 DEF Literal
  <2>7. QED
    BY <1>6, <1>12, <2>1, <2>3, <2>6
<1>15. ASSUME NEW next, NameInValue(found, next, byte)
       PROVE  WritesInv'
  <2>1. PICK part : /\ part = AsText(found, found.offset, byte) /\ GoTo(found.offset)
                    /\ proc' = [part.proc EXCEPT !.state = "data"] /\ str' = part.str
    BY <1>15 DEF NameInValue
  <2>2. Inside(part.str) /\ Process(part.proc)
    BY <1>6, <1>11, <2>1
  <2>3. PICK q : q = part.proc
    OBVIOUS
  <2>4. proc' = [q EXCEPT !.state = "data"]
    BY <2>1, <2>3
  <2>5. Process(proc') /\ proc'.state = "data"
    BY <2>2, <2>3, <2>4 DEF Process
  <2>6. QED
    BY <1>6, <1>12, <2>1, <2>2, <2>5
<1>16. ASSUME NEW to \in Nat, GoTo(to), NoName(found, to, byte)
       PROVE  WritesInv'
  <2>1. PICK part : /\ part = AsText(found, to, byte) /\ str' = part.str
                    /\ proc' = [part.proc EXCEPT !.state = "data", !.charef_res.last = Null]
    BY <1>16 DEF NoName
  <2>2. Inside(part.str) /\ Process(part.proc)
    BY <1>11, <2>1
  <2>3. PICK q : q = part.proc
    OBVIOUS
  <2>4. proc' = [q EXCEPT !.state = "data", !.charef_res.last = Null]
    BY <2>1, <2>3
  <2>5. Process(proc') /\ proc'.state = "data"
    BY <2>2, <2>3, <2>4 DEF Process
  <2>6. QED
    BY <1>12, <1>16, <2>1, <2>2, <2>5
<1>17. ASSUME NEW to \in Nat, GoTo(to), NamePut(found, Characters(Codepoints(found.entry)))
       PROVE  WritesInv'
  <2>1. PICK entry : entry = found.entry
    OBVIOUS
  <2>2. PICK bytes : bytes = Characters(Codepoints(entry)) /\ IsSeq(bytes) /\ Len(bytes) \in 0 .. 6
    BY CharactersIs
  <2>3. PICK k \in Nat : k = Len(bytes)
    BY <2>2, SeqLength
  <2>4. k <= 6
    <3>1. PICK l \in 0 .. 6 : l = Len(bytes)
      BY <2>2
    <3>2. l <= 6
      OBVIOUS
    <3>3. QED
      BY <2>3, <3>1, <3>2
  <2>5. NamePut(found, bytes)
    BY <1>17, <2>1, <2>2
  <2>6. Inside(str')
    <3>1. PICK two \in Nat : two = 2
      OBVIOUS
    <3>2. proc.tmp_str_pos + two <= Len(str.data) /\ Len(bytes) <= two + 4
      BY <1>3, <1>4, <2>3, <2>4, <3>1
    <3>3. Inside(Terminated(Put(Need(str, 5, 0), proc.tmp_str_pos, bytes)))
      BY <1>2, <2>2, <3>2, ReplacedNow
    <3>4. QED
      BY <2>5, <3>3 DEF NamePut
  <2>7. PICK pos \in Nat : pos = from + k
    OBVIOUS
  <2>8. PICK new : new = [res EXCEPT !.last = Null]
    OBVIOUS
  <2>9. DOMAIN new = {"curr", "last", "last_offset"} /\ new.last_offset \in Nat
    BY <1>6, <1>8, <2>8
  <2>10. proc' = [proc EXCEPT !.state = "data", !.tmp_str_pos = pos, !.charef_res = new]
    BY <1>3, <1>8, <2>3, <2>5, <2>7, <2>8 DEF NamePut
  <2>11. Process(proc') /\ proc'.state = "data"
    BY <1>2, <2>7, <2>9, <2>10 DEF Process
  <2>12. QED
    BY <1>12, <1>17, <2>6, <2>11
<1>18. ASSUME NEW next, NameEnds(found, next, byte)
       PROVE  WritesInv'
  <2>1. PICK to \in Nat : to = here + IF next = Semicolon THEN 1 ELSE 0
    OBVIOUS
  <2>2. GoTo(to) /\ (NoName(found, to, byte) \/ NamePut(found, Characters(Codepoints(found.entry))))
    BY <1>7, <1>18, <2>1 DEF NameEnds
  <2>3. QED
    BY <1>16, <1>17, <2>2
<1>19. QED
    BY <1>13, <1>14, <1>15, <1>18

\* A number takes the place of a reference.
LEMMA NumberInside ==
    ASSUME Inside(str), Process(proc), proc.tmp_str_pos <= Len(str.data), NEW number
    PROVE  Inside(NumberPut(str, number))
<1>1. PICK code : code = Replacement(number)
    OBVIOUS
<1>2. PICK bytes : bytes = codepoint_to_utf_8(code) /\ IsSeq(bytes) /\ Len(bytes) \in 0 .. 4
    BY CodepointIs
<1>3. PICK none \in Nat : none = 0
    OBVIOUS
<1>4. proc.tmp_str_pos + none <= Len(str.data)
  <2>1. PICK from \in Nat : from = proc.tmp_str_pos
    BY DEF Process
  <2>2. from + none = from
    BY <1>3
  <2>3. QED
    BY <2>1, <2>2
<1>5. Len(bytes) <= none + 4
  <2>1. PICK k \in 0 .. 4 : k = Len(bytes)
    BY <1>2
  <2>2. k <= none + 4
    BY <1>3
  <2>3. QED
    BY <2>1, <2>2
<1>6. Inside(Terminated(Put(Need(str, 5, 0), proc.tmp_str_pos, bytes)))
    BY <1>2, <1>4, <1>5, ReplacedNow
<1>7. QED
    BY <1>1, <1>2, <1>6 DEF NumberPut

\* In a number.
LEMMA NumberStep ==
    ASSUME WritesInv, NEW state, NEW base, NumberData(state, base), state \in {"hash_data", "hash_x_data"}
    PROVE  WritesInv'
<1>1. Processing(state) /\ Same
    BY DEF NumberData, Same
<1>2. /\ Joining /\ IsSeq(Part) /\ Process(proc) /\ Inside(str)
      /\ join \in [buffer : Nat, offset : Nat, left : Nat, save : Nat] /\ join.buffer # 0
      /\ join.offset \in Nat /\ Len(Part) \in Nat /\ join.offset < Len(Part)
      /\ proc.tmp_str_pos + Literal(state) <= Len(str.data)
  <2>1. state # "data"
    OBVIOUS
  <2>2. QED
    BY <1>1, <2>1, StateFacts
<1>3. PICK l \in Nat, from \in Nat : l = Len(str.data) /\ from = proc.tmp_str_pos
    BY <1>2, SeqLength DEF Inside, Process
<1>4. from <= l
    BY <1>2, <1>3 DEF Literal
<1>5. PICK o \in Nat, n \in Nat : o = join.offset /\ n = Len(Part) /\ o < n
    BY <1>2
<1>6. ASSUME NEW to \in Nat, GoTo(to), Process(proc'), Inside(str'),
             proc'.state # "data" => proc'.tmp_str_pos + Literal(proc'.state) <= Len(str'.data)
      PROVE  WritesInv'
  <2>1. join' \in [buffer : Nat, offset : Nat, left : Nat, save : Nat] /\ join'.buffer # 0
    BY <1>2, <1>6, GoToNow
  <2>2. QED
    BY <1>1, <1>2, <1>6, <2>1, ReadingStep
<1>7. PICK to \in {Min({Len(Part)} \cup {i \in join.offset .. Len(Part) - 1 : Part[i + 1] \notin Digits(base)})} :
        \E number :
          \/ NumberGoesOn(to, number)
          \/ NoNumber(to)
          \/ NumberEnds(to, number)
    BY DEF NumberData
<1>8. to \in o .. n
  <2>1. PICK I : I = {i \in o .. n - 1 : Part[i + 1] \notin Digits(base)}
    OBVIOUS
  <2>2. I \subseteq o .. n
    BY <2>1
  <2>3. o \in 0 .. n
    BY <1>5
  <2>4. Min({n} \cup I) \in o .. n
    BY <2>2, <2>3, FirstIs
  <2>5. QED
    BY <1>5, <1>7, <2>1, <2>4
<1>9. PICK t \in o .. n : t = to
    BY <1>8
<1>10. t \in Nat
    OBVIOUS
<1>11. PICK more \in Nat : more = t + 1
  <2>1. PICK u \in Nat : u = t
    BY <1>10
  <2>2. PICK v \in Nat : v = u + 1
    OBVIOUS
  <2>3. QED
    BY <2>1, <2>2
<1>12. ASSUME NEW number, NumberGoesOn(t, number)
       PROVE  WritesInv'
  <2>1. PICK bytes : bytes = SubSeq(Part, join.offset + 1, t)
    OBVIOUS
  <2>2. IsSeq(bytes)
    <3>1. t \in o .. Len(Part)
      BY <1>5
    <3>2. IsSeq(SubSeq(Part, o + 1, t))
      BY <1>2, <3>1, PieceIs
    <3>3. QED
      BY <1>5, <2>1, <3>2
  <2>3. PICK part : /\ part = Appended(proc, str, bytes) /\ GoTo(t)
                    /\ proc' = [part.proc EXCEPT !.tmp_num = number] /\ str' = part.str
    BY <1>12, <2>1 DEF NumberGoesOn
  <2>4. /\ Inside(Appended(proc, str, bytes).str) /\ Len(str.data) <= Len(Appended(proc, str, bytes).str.data)
        /\ Process(Appended(proc, str, bytes).proc) /\ Appended(proc, str, bytes).proc.state = proc.state
        /\ Appended(proc, str, bytes).proc.tmp_str_pos = proc.tmp_str_pos
    <3>1. PICK p : p = proc
      OBVIOUS
    <3>2. Process(p)
      BY <1>2, <3>1
    <3>3. /\ Inside(Appended(p, str, bytes).str) /\ Len(str.data) <= Len(Appended(p, str, bytes).str.data)
          /\ Process(Appended(p, str, bytes).proc) /\ Appended(p, str, bytes).proc.state = p.state
          /\ Appended(p, str, bytes).proc.tmp_str_pos = p.tmp_str_pos
      BY <1>2, <2>2, <3>2, AppendedNow
    <3>4. QED
      BY <3>1, <3>3
  <2>5. Inside(part.str) /\ l <= Len(part.str.data) /\ Process(part.proc) /\ part.proc.state = state /\ part.proc.tmp_str_pos = from
    <3>1. proc.state = state
      BY <1>1 DEF Processing
    <3>2. QED
      BY <1>3, <2>3, <2>4, <3>1
  <2>6. PICK q : q = part.proc
    OBVIOUS
  <2>7. proc' = [q EXCEPT !.tmp_num = number]
    BY <2>3, <2>6
  <2>8. Process(proc') /\ proc'.state = state /\ proc'.tmp_str_pos = from
    BY <2>5, <2>6, <2>7 DEF Process
  <2>9. PICK m \in Nat : m = Len(str'.data)
    BY <2>3, <2>5, SeqLength DEF Inside
  <2>10. from <= m
    BY <1>4, <2>3, <2>5, <2>9
  <2>11. proc'.tmp_str_pos + Literal(proc'.state) <= Len(str'.data)
    BY <2>8, <2>9, <2>10 DEF Literal
  <2>12. QED
    BY <1>6, <1>10, <2>3, <2>5, <2>8, <2>11
<1>13. ASSUME NoNumber(t)
       PROVE  WritesInv'
  <2>1. proc' = [proc EXCEPT !.state = "data"] /\ str' = str /\ join' = join
    BY <1>13 DEF NoNumber
  <2>2. Process(proc') /\ proc'.state = "data"
    BY <1>2, <2>1 DEF Process
  <2>3. QED
    BY <1>1, <1>2, <2>1, <2>2, ReadingStep
<1>14. ASSUME NEW number, NumberEnds(t, number)
       PROVE  WritesInv'
  <2>1. PICK final : final = Replacement(number)
    OBVIOUS
  <2>2. /\ str' = NumberPut(str, number)
        /\ proc' = [proc EXCEPT !.state = "data", !.tmp_num = final]
    BY <1>14, <2>1 DEF NumberEnds
  <2>3. PICK next \in Nat : GoTo(next)
    BY <1>10, <1>11, <1>14 DEF NumberEnds
  <2>4. proc.tmp_str_pos <= Len(str.data)
    BY <1>3, <1>4
  <2>5. Inside(str')
    BY <1>2, <2>2, <2>4, NumberInside
  <2>6. Process(proc') /\ proc'.state = "data"
    BY <1>2, <2>2 DEF Process
  <2>7. QED
    BY <1>6, <2>3, <2>5, <2>6
<1>15. QED
    BY <1>7, <1>9, <1>12, <1>13, <1>14
-----------------------------------------------------------------------------
(***************************************************************************)
(* The begin and the end of the joining.                                   *)
(***************************************************************************)
\* The string is made.
LEMMA WorkerBeginStep ==
    ASSUME WritesInv, WorkerBegin
    PROVE  WritesInv'
<1>1. PICK total : total = Total
    OBVIOUS
<1>2. total \in Nat
  <2>1. IsSeqs(buffers)
    BY DEF WritesInv, FeedInv
  <2>2. PICK seqs : seqs = buffers
    OBVIOUS
  <2>3. IsSeq(FlattenSeq(seqs))
    BY <2>1, <2>2, FlattenIs
  <2>4. Len(FlattenSeq(seqs)) \in Nat
    BY <2>3, SeqLength
  <2>5. QED
    BY <1>1, <2>2, <2>4 DEF Total
<1>3. /\ ~Feeding /\ join.buffer = 0 /\ Same /\ proc' = proc
      /\ str' = [data |-> <<>>, size |-> total + 1, over |-> FALSE]
      /\ join' = [join EXCEPT !.buffer = 1, !.left = total]
    BY <1>1 DEF WorkerBegin, Same
<1>4. PICK size \in Nat : size = total + 1
    BY <1>2
<1>5. Inside(str')
    BY <1>3, <1>4, EmptyIs DEF Inside
<1>6. join' \in [buffer : Nat, offset : Nat, left : Nat, save : Nat] /\ join'.buffer = 1
    BY <1>2, <1>3 DEF WritesInv, PlacesInv
<1>7. Process(proc') /\ proc'.state = "data"
    BY <1>3 DEF WritesInv, PlacesInv, ReferenceInv
<1>8. ~Feeding'
    BY <1>3 DEF Feeding, Same
<1>9. FeedInv'
    BY <1>3 DEF WritesInv, FeedInv, Same
<1>10. ReferenceInv'
    BY <1>6, <1>7, <1>8 DEF ReferenceInv
<1>11. QED
    BY <1>5, <1>6, <1>7, <1>9, <1>10 DEF WritesInv, PlacesInv

\* On to the next buffer.
LEMMA NextBufferStep ==
    ASSUME WritesInv, NextBuffer
    PROVE  WritesInv'
<1>1. Joining /\ Same /\ Len(Part) \in Nat /\ Len(Part) <= join.left /\ proc' = proc /\ str' = str /\ Advance
    BY PartIs DEF NextBuffer, Same
<1>2. Process(proc) /\ Inside(str) /\ join \in [buffer : Nat, offset : Nat, left : Nat, save : Nat]
    BY DEF WritesInv, PlacesInv
<1>3. PICK left \in Nat : left = join.left - Len(Part)
  <2>1. PICK p \in Nat, l \in Nat : p = Len(Part) /\ l = join.left /\ p <= l
    BY <1>1, <1>2
  <2>2. l - p \in Nat
    BY <2>1
  <2>3. QED
    BY <2>1, <2>2
<1>4. PICK next \in Nat \ {0} : next = join.buffer + 1
    BY <1>2
<1>5. join' = [join EXCEPT !.buffer = next, !.left = left, !.offset = 0]
    BY <1>1, <1>3, <1>4 DEF Advance
<1>6. join' \in [buffer : Nat, offset : Nat, left : Nat, save : Nat] /\ join'.buffer # 0
    BY <1>2, <1>5
<1>7. proc'.state # "data" => proc'.tmp_str_pos + Literal(proc'.state) <= Len(str'.data)
    BY <1>1 DEF WritesInv, ReferenceInv
<1>8. QED
    BY <1>1, <1>2, <1>6, <1>7, ReadingStep

\* The end of the token ends a reference.
LEMMA ProcessEndStep ==
    ASSUME WritesInv, process_end
    PROVE  WritesInv'
<1>1. Joining /\ Same /\ proc' = proc /\ Finish
    BY DEF process_end, Same
<1>2. Process(proc) /\ Inside(str) /\ join \in [buffer : Nat, offset : Nat, left : Nat, save : Nat]
    BY DEF WritesInv, PlacesInv
<1>3. PICK n \in Nat, from \in Nat : n = Len(str.data) /\ from = proc.tmp_str_pos
    BY <1>2, SeqLength DEF Inside, Process
<1>4. PICK bytes : bytes = Characters(Codepoints(proc.charef_res.last)) /\ IsSeq(bytes) /\ Len(bytes) \in 0 .. 6
  <2>1. PICK entry : entry = proc.charef_res.last
    OBVIOUS
  <2>2. QED
    BY <2>1, CharactersIs
<1>5. \/ proc.state = "ampersand_data" /\ str' = Terminated(Put(Need(str, 5, 0), proc.tmp_str_pos, bytes))
      \/ proc.state \in {"hash_data", "hash_x_data"} /\ str' = NumberPut(str, proc.tmp_num)
      \/ str' = str
    BY <1>4, SMT DEF process_end
<1>6. Inside(str')
  <2>1. CASE proc.state = "ampersand_data" /\ str' = Terminated(Put(Need(str, 5, 0), proc.tmp_str_pos, bytes))
    <3>1. from + 2 <= n
      BY <1>1, <1>3, <2>1 DEF WritesInv, ReferenceInv, Literal
    <3>2. PICK two \in Nat : two = 2
      OBVIOUS
    <3>3. PICK k \in 0 .. 6 : k = Len(bytes)
      BY <1>4
    <3>4. k <= two + 4
      BY <3>2
    <3>5. proc.tmp_str_pos + two <= Len(str.data) /\ Len(bytes) <= two + 4
      BY <1>3, <3>1, <3>2, <3>3, <3>4
    <3>6. QED
      BY <1>2, <1>4, <2>1, <3>5, ReplacedNow
  <2>2. CASE proc.state \in {"hash_data", "hash_x_data"} /\ str' = NumberPut(str, proc.tmp_num)
    <3>1. from <= n
      BY <1>1, <1>3, <2>2 DEF WritesInv, ReferenceInv, Literal
    <3>2. PICK number : number = proc.tmp_num
      OBVIOUS
    <3>3. Inside(NumberPut(str, number))
      BY <1>2, <1>3, <3>1, NumberInside
    <3>4. QED
      BY <2>2, <3>2, <3>3
  <2>3. CASE str' = str
    BY <1>2, <2>3
  <2>4. QED
    BY <1>5, <2>1, <2>2, <2>3
<1>7. PICK l \in Nat : l = Len(buffers)
    BY SeqLength DEF WritesInv, FeedInv, IsSeqs
<1>8. PICK last \in Nat \ {0} : last = l + 1
    OBVIOUS
<1>9. join' = [join EXCEPT !.buffer = last]
    BY <1>1, <1>7, <1>8 DEF Finish
<1>10. join' \in [buffer : Nat, offset : Nat, left : Nat, save : Nat] /\ join'.buffer = last
    BY <1>2, <1>9
<1>11. ~Joining'
  <2>1. buffers' = buffers
    BY <1>1 DEF Same
  <2>2. ~(last \in 1 .. l)
    BY <1>8
  <2>3. QED
    BY <1>7, <1>10, <2>1, <2>2 DEF Joining
<1>12. Process(proc')
    BY <1>1, <1>2
<1>13. join'.buffer # 0
    BY <1>10
<1>14. QED
    BY <1>1, <1>6, <1>10, <1>11, <1>12, <1>13, ReadingStep
-----------------------------------------------------------------------------
(***************************************************************************)
(* The specification.                                                      *)
(***************************************************************************)
\* Every step keeps the invariant.
LEMMA WritesInvStep ==
    ASSUME WritesInv, [Next]_vars
    PROVE  WritesInv'
<1>1. CASE UNCHANGED vars
    BY <1>1 DEF vars, WritesInv, FeedInv, PlacesInv, ReferenceInv, Feeding, Joining
<1>2. CASE Chunk
    BY <1>2, ChunkStep
<1>3. CASE StreamBegin
    BY <1>3, StreamBeginStep
<1>4. CASE StreamByte
    BY <1>4, StreamByteStep
<1>5. CASE StreamEnd
    BY <1>5, StreamEndStep
<1>6. CASE WorkerBegin
    BY <1>6, WorkerBeginStep
<1>7. CASE JoinBuffer
    BY <1>7, JoinBufferStep
<1>8. CASE NextBuffer
    BY <1>8, NextBufferStep
<1>9. CASE state_data
    BY <1>9, DataStep
<1>10. CASE state_ampersand
    BY <1>10, AmpersandStep
<1>11. CASE state_ampersand_data
    BY <1>11, NameStep
<1>12. CASE state_ampersand_hash
    BY <1>12, HashStep
<1>13. CASE state_ampersand_hash_data
    BY <1>13, NumberStep DEF state_ampersand_hash_data
<1>14. CASE state_ampersand_hash_x_data
    BY <1>14, NumberStep DEF state_ampersand_hash_x_data
<1>15. CASE process_end
    BY <1>15, ProcessEndStep
<1>16. CASE Finished
    BY <1>1, <1>16 DEF Finished
<1>17. QED
    BY <1>1, <1>2, <1>3, <1>4, <1>5, <1>6, <1>7, <1>8, <1>9, <1>10, <1>11, <1>12, <1>13, <1>14, <1>15, <1>16 DEF Next

\* Nothing is written behind the block of a string, its final null included,
\* nor behind an entry of the stream buffer: whatever the text, the encoding
\* and the names of references are, and wherever the chunks end, the growth
\* that myhtml/mystring.c and data_process.c ask for before they append is
\* enough for what they append.
THEOREM WritesStayInside == Spec => []WritesInside
<1>1. Init => WritesInv
    BY WritesInvInit
<1>2. WritesInv /\ [Next]_vars => WritesInv'
    BY WritesInvStep
<1>3. WritesInv => WritesInside
  <2>1. ASSUME WritesInv PROVE str.over = FALSE
    BY <2>1 DEF WritesInv, Inside
  <2>2. ASSUME WritesInv PROVE stream.length <= EntrySize
    BY <2>2, EntrySizeAssumption DEF WritesInv, FeedInv
  <2>3. QED
    BY <2>1, <2>2 DEF WritesInside
<1>4. QED
    BY <1>1, <1>2, <1>3, PTL DEF Spec
=============================================================================
