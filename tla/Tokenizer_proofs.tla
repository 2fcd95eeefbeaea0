--------------------------- MODULE Tokenizer_proofs ---------------------------
(***************************************************************************)
(* Two things of the tokenizer, for documents of any length cut into       *)
(* chunks in any way.                                                      *)
(*                                                                         *)
(* The attribute at hand is in the list of the token at hand, exactly      *)
(* while the tokenizer reads one.  What there is to show is that no way    *)
(* through the states, of which the attributes of tags, the name of a      *)
(* doctype and its identifiers each have their own, comes to the begin of  *)
(* an attribute with the one before still at hand, and that none hands the *)
(* token over with it.  So each state function is taken by itself: it gets *)
(* a lexer whose attribute is as its state has it (Sound) and leaves one   *)
(* that is.                                                                *)
(*                                                                         *)
(* The spans of tokens and attributes lie in the document, one behind the  *)
(* other, and the walk over the buffers reads what is there.  The second   *)
(* follows for any place in what has come in from the buffers lying one    *)
(* behind the other (ChainReads).  For the first, between two turns a      *)
(* token begins behind those in the queue, and nothing that is noted of it *)
(* lies behind the lexer (Placed).  That is not inductive by itself: a     *)
(* state may go back to where it has been, take a mark for the begin of a  *)
(* name or a length for one already known, so InPlace says for each state  *)
(* what it is sure of.  Again each state function is taken by itself.      *)
(***************************************************************************)
EXTENDS Tokenizer, SequenceTheorems, WellFoundedInduction, TLAPS

(* A list of attributes, whatever they are. *)
IsList(s) == s \in Seq(Range(s))

(* A lexer that has linked no attribute twice. *)
Known(k) ==
    /\ {"state", "tok", "held", "twice"} \subseteq DOMAIN k
    /\ "attrs" \in DOMAIN k.tok
    /\ IsList(k.tok.attrs)
    /\ k.twice = FALSE

(* The attribute at hand is in no list, or it is in that of the token. *)
Free(k)  == Known(k) /\ k.held = FALSE
Bound(k) == Known(k) /\ k.held = TRUE /\ k.tok.attrs # <<>>

Sound(k) == IF k.state \in ReadsAttr THEN Bound(k) ELSE Free(k)

(* From k to j the state and the attribute are as they were. *)
Keeps(k, j) ==
    /\ j.state = k.state
    /\ Known(j)
    /\ Free(k) => Free(j)
    /\ Bound(k) => Bound(j)

(* At the end of a document it is only sure that none was linked twice. *)
AttrInv ==
    /\ ended => Known(lexer)
    /\ ~ ended => Sound(lexer)

-----------------------------------------------------------------------------
(* Lists. *)

\* An element behind a list, and another one in the place of its last.
LEMMA ListIs ==
    ASSUME NEW s, IsList(s), NEW a
    PROVE  /\ IsList(Append(s, a)) /\ Append(s, a) # <<>>
           /\ s # <<>> => IsList([s EXCEPT ![Len(s)] = a]) /\ [s EXCEPT ![Len(s)] = a] # <<>>
<1>1. PICK T : s \in Seq(T) /\ a \in T
  <2>1. PICK T : T = Range(s) \cup {a}
    OBVIOUS
  <2>2. s \in Seq(T)
    BY <2>1 DEF IsList
  <2>3. QED
    BY <2>1, <2>2
<1>2. \A t \in Seq(T) : IsList(t)
  <2>1. TAKE t \in Seq(T)
  <2>2. PICK n \in Nat : n = Len(t)
    BY LenProperties
  <2>3. t \in [1 .. n -> T] /\ DOMAIN t = 1 .. n
    BY <2>2, LenProperties
  <2>4. t \in [1 .. n -> Range(t)]
    BY <2>3 DEF Range
  <2>5. QED
    BY <2>2, <2>4 DEF IsList
<1>3. Append(s, a) \in Seq(T) /\ Append(s, a) # <<>>
  <2>1. Append(s, a) \in Seq(T) /\ Len(Append(s, a)) = Len(s) + 1 /\ Len(s) \in Nat
    BY ONLY <1>1, AppendProperties, LenProperties
  <2>2. QED
    BY <2>1
<1>4. ASSUME s # <<>> PROVE [s EXCEPT ![Len(s)] = a] \in Seq(T) /\ [s EXCEPT ![Len(s)] = a] # <<>>
  <2>1. PICK n \in Nat : n = Len(s)
    BY <1>1, LenProperties
  <2>2. s \in [1 .. n -> T] /\ n # 0
    BY <1>1, <1>4, <2>1, LenProperties, EmptySeq
  <2>3. [s EXCEPT ![n] = a] \in [1 .. n -> T]
    BY <1>1, <2>2
  <2>4. [s EXCEPT ![n] = a] \in Seq(T)
    BY ONLY <2>3, SeqDef
  <2>5. DOMAIN [s EXCEPT ![n] = a] # {}
    BY <2>2, <2>3
  <2>6. QED
    BY <2>1, <2>4, <2>5
<1>5. QED
  <2>1. IsList(Append(s, a))
    BY <1>2, <1>3, Zenon
  <2>2. s # <<>> => IsList([s EXCEPT ![Len(s)] = a])
    BY <1>2, <1>4, Zenon
  <2>3. QED
    BY <1>3, <1>4, <2>1, <2>2, Zenon

-----------------------------------------------------------------------------
(* What the states are made of. *)

\* The lexer moves on, to wherever.
LEMMA PosKeeps ==
    ASSUME NEW k, Known(k)
    PROVE  /\ \A p : Keeps(k, [k EXCEPT !.pos = p])
           /\ \A n : Keeps(k, Eat(k, n))
           /\ \A stops : Keeps(k, Seek(k, stops))
           /\ Keeps(k, SkipSpace(k))
           /\ Keeps(k, NameEnd(k))
           /\ Keeps(k, WaitForMore(k))
<1>1. \A p : Keeps(k, [k EXCEPT !.pos = p])
    BY DEF Known, Free, Bound, Keeps
<1>2. \A n : Keeps(k, Eat(k, n))
    BY <1>1, Zenon DEF Eat
<1>3. \A stops : Keeps(k, Seek(k, stops))
    BY <1>1, Zenon DEF Seek
<1>4. Keeps(k, SkipSpace(k))
    BY <1>1, Zenon DEF SkipSpace
<1>5. Keeps(k, NameEnd(k))
    BY <1>1, Zenon DEF NameEnd
<1>6. Keeps(k, WaitForMore(k))
    BY <1>1, Zenon DEF WaitForMore
<1>7. QED
    BY <1>1, <1>2, <1>3, <1>4, <1>5, <1>6, Zenon

\* Something of the token changes that is not its list.
LEMMA TokKeeps ==
    ASSUME NEW k, Known(k)
    PROVE  /\ \A tag : Keeps(k, Tag(k, tag))
           /\ \A types : Keeps(k, Type(k, types)) /\ Keeps(k, Typed(k, types))
           /\ Keeps(k, NotSpace(k))
           /\ Keeps(k, Mark(k))
           /\ Keeps(k, Begin(k))
           /\ Keeps(k, Length(k))
           /\ \A tail : Keeps(k, Cut(k, tail))
           /\ \A at : Keeps(k, [k EXCEPT !.tok.raw_begin = at])
           /\ \A length : Keeps(k, [k EXCEPT !.tok.raw_length = length])
<1>1. \A tag : Keeps(k, [k EXCEPT !.tok.tag = tag])
    BY DEF Known, Free, Bound, Keeps
<1>2. \A types : Keeps(k, [k EXCEPT !.tok.type = types])
    BY DEF Known, Free, Bound, Keeps
<1>3. \A at : Keeps(k, [k EXCEPT !.tok.mark = at])
    BY DEF Known, Free, Bound, Keeps
<1>4. \A at : Keeps(k, [k EXCEPT !.tok.raw_begin = at])
    BY DEF Known, Free, Bound, Keeps
<1>5. \A length : Keeps(k, [k EXCEPT !.tok.raw_length = length])
    BY DEF Known, Free, Bound, Keeps
<1>6. \A tag : Keeps(k, Tag(k, tag))
    BY <1>1, Zenon DEF Tag
<1>7. \A types : Keeps(k, Type(k, types)) /\ Keeps(k, Typed(k, types))
    BY <1>2, Zenon DEF Type, Typed
<1>8. Keeps(k, NotSpace(k)) /\ Keeps(k, Mark(k))
    BY <1>2, <1>3, Zenon DEF NotSpace, Mark
<1>9. Keeps(k, Begin(k)) /\ Keeps(k, Length(k))
    BY <1>4, <1>5, Zenon DEF Begin, Length
<1>10. \A tail : Keeps(k, Cut(k, tail))
    BY <1>5, Zenon DEF Cut
<1>11. QED
    BY <1>4, <1>5, <1>6, <1>7, <1>8, <1>9, <1>10, Zenon

\* The attribute at hand is written to.
LEMMA AttrKeeps ==
    ASSUME NEW k, Known(k)
    PROVE  /\ \A a : Keeps(k, SetAttr(k, a))
           /\ Keeps(k, KeyFrom(k)) /\ Keeps(k, KeyTo(k))
           /\ Keeps(k, ValueFrom(k)) /\ Keeps(k, ValueTo(k))
           /\ Keeps(k, IdentifierFrom(k))
<1>1. ASSUME NEW a PROVE Keeps(k, SetAttr(k, a))
  <2>1. CASE k.held /\ k.tok.attrs # <<>>
    <3>1. PICK attrs : attrs = [k.tok.attrs EXCEPT ![Len(k.tok.attrs)] = a]
      OBVIOUS
    <3>2. IsList(attrs) /\ attrs # <<>>
      BY <2>1, <3>1, ListIs DEF Known
    <3>3. SetAttr(k, a) = [k EXCEPT !.tok.attrs = attrs]
      BY <2>1, <3>1 DEF SetAttr
    <3>4. Keeps(k, [k EXCEPT !.tok.attrs = attrs])
      BY <2>1, <3>2 DEF Known, Free, Bound, Keeps
    <3>5. QED
      BY <3>3, <3>4
  <2>2. CASE ~ (k.held /\ k.tok.attrs # <<>>)
    <3>1. SetAttr(k, a) = [k EXCEPT !.attr = a]
      BY <2>2 DEF SetAttr
    <3>2. Keeps(k, [k EXCEPT !.attr = a])
      BY DEF Known, Free, Bound, Keeps
    <3>3. QED
      BY <3>1, <3>2
  <2>3. QED
    BY <2>1, <2>2
<1>2. Keeps(k, KeyFrom(k)) /\ Keeps(k, KeyTo(k))
    BY <1>1, Zenon DEF KeyFrom, KeyTo
<1>3. Keeps(k, ValueFrom(k)) /\ Keeps(k, ValueTo(k))
    BY <1>1, Zenon DEF ValueFrom, ValueTo
<1>4. Keeps(k, IdentifierFrom(k))
    BY <1>1, Zenon DEF IdentifierFrom
<1>5. QED
    BY <1>1, <1>2, <1>3, <1>4, Zenon

\* A lexer goes on to another state.
LEMMA GotoIs ==
    ASSUME NEW k, Known(k), NEW s
    PROVE  /\ Goto(k, s).state = s
           /\ Known(Goto(k, s))
           /\ Free(k) => Free(Goto(k, s))
           /\ Bound(k) => Bound(Goto(k, s))
    BY DEF Known, Free, Bound, Goto

\* The attribute at hand is linked into the list of the token.
LEMMA HoldAttrIs ==
    ASSUME NEW k, Free(k)
    PROVE  Bound(HoldAttr(k)) /\ HoldAttr(k).state = k.state
<1>1. PICK attrs : attrs = Append(k.tok.attrs, k.attr)
    OBVIOUS
<1>2. IsList(attrs) /\ attrs # <<>>
    BY <1>1, ListIs DEF Free, Known
<1>3. HoldAttr(k) = [k EXCEPT !.tok.attrs = attrs, !.held = TRUE, !.twice = k.twice \/ k.held]
    BY <1>1, Zenon DEF HoldAttr
<1>4. (k.twice \/ k.held) = FALSE
    BY DEF Free, Known
<1>5. HoldAttr(k) = [k EXCEPT !.tok.attrs = attrs, !.held = TRUE, !.twice = FALSE]
    BY <1>3, <1>4
<1>6. QED
    BY <1>2, <1>5 DEF Free, Bound, Known

\* A new one is in no list.
LEMMA NewAttrIs ==
    ASSUME NEW k, Known(k)
    PROVE  Free(NewAttr(k)) /\ NewAttr(k).state = k.state
    BY DEF Free, Known, NewAttr

(* Where the tokenizer goes on when a token is in the queue. *)
TextStates == {"DATA", "RCDATA", "RAWTEXT", "PLAINTEXT", "SCRIPT_DATA"}

\* The namespace has a say in the state.
LEMMA NamespaceIs ==
    ASSUME NEW k, Known(k)
    PROVE  /\ Known(CalcCurrentNamespace(k))
           /\ Free(k) => Free(CalcCurrentNamespace(k))
           /\ CalcCurrentNamespace(k).state \in {k.state} \cup TextStates
<1>1. \A ns : Keeps(k, [k EXCEPT !.ns = ns])
    BY DEF Known, Free, Bound, Keeps
<1>2. BuilderState(k) \in TextStates
    BY DEF BuilderState, DataParser, TextStates
<1>3. CASE k.tok.tag = Svg
    BY <1>1, <1>3, Zenon DEF CalcCurrentNamespace, Keeps
<1>4. CASE k.tok.tag # Svg
    BY <1>2, <1>4, GotoIs DEF CalcCurrentNamespace
<1>5. QED
    BY <1>3, <1>4

\* A token is queued or dropped, and the next one begins.
LEMMA QueueAddIs ==
    ASSUME NEW k, Known(k)
    PROVE  /\ Known(QueueAdd(k))
           /\ Free(k) => Free(QueueAdd(k))
           /\ QueueAdd(k).state \in {k.state} \cup TextStates
<1>1. PICK tok : tok = FreshToken(k.pos)
    OBVIOUS
<1>2. "attrs" \in DOMAIN tok /\ IsList(tok.attrs)
  <2>1. "attrs" \in DOMAIN tok /\ tok.attrs = <<>>
    BY <1>1 DEF FreshToken
  <2>2. <<>> \in Seq(Range(<<>>))
    BY EmptySeq
  <2>3. QED
    BY <2>1, <2>2 DEF IsList
<1>3. PICK c : c = CalcCurrentNamespace(k)
    OBVIOUS
<1>4. /\ Known(c) /\ (Free(k) => Free(c))
      /\ c.state \in {k.state} \cup TextStates
    BY <1>3, NamespaceIs
<1>5. QueueAdd(k) = [k EXCEPT !.tok = tok] \/ QueueAdd(k) = [c EXCEPT !.out = Append(c.out, k.tok), !.tok = tok]
    BY <1>1, <1>3, Zenon DEF QueueAdd
<1>6. CASE QueueAdd(k) = [k EXCEPT !.tok = tok]
    BY <1>2, <1>6 DEF Free, Known
<1>7. CASE QueueAdd(k) = [c EXCEPT !.out = Append(c.out, k.tok), !.tok = tok]
    BY <1>2, <1>4, <1>7 DEF Free, Known
<1>8. QED
    BY <1>5, <1>6, <1>7

-----------------------------------------------------------------------------
(* The same for a lexer whose attribute is in no list, as the states of    *)
(* texts, tags, comments and doctypes have it.                             *)

\* Such a lexer has linked none twice.
LEMMA FreeKnown ==
    ASSUME NEW k, Free(k)
    PROVE  Known(k)
    BY DEF Free

\* Nothing that such a state does puts it there.
LEMMA FreeStays ==
    ASSUME NEW k, Free(k)
    PROVE  /\ \A p : Free([k EXCEPT !.pos = p])
           /\ \A n : Free(Eat(k, n))
           /\ \A stops : Free(Seek(k, stops))
           /\ Free(SkipSpace(k)) /\ Free(NameEnd(k)) /\ Free(WaitForMore(k))
           /\ \A tag : Free(Tag(k, tag))
           /\ \A types : Free(Type(k, types)) /\ Free(Typed(k, types))
           /\ Free(NotSpace(k)) /\ Free(Mark(k)) /\ Free(Begin(k)) /\ Free(Length(k))
           /\ \A tail : Free(Cut(k, tail))
           /\ \A at : Free([k EXCEPT !.tok.raw_begin = at])
           /\ \A length : Free([k EXCEPT !.tok.raw_length = length])
           /\ \A a : Free(SetAttr(k, a))
           /\ Free(KeyTo(k)) /\ Free(ValueTo(k)) /\ Free(IdentifierFrom(k))
           /\ \A s : Free(Goto(k, s)) /\ Free(Enter(k, s))
           /\ Free(QueueAdd(k))
           /\ \A upto, type : Free(CreateTextNodeIfNeed(k, upto, type))
           /\ Free(CheckTagParser(k)) /\ Free(SetState(k))
<1>1. Known(k)
    BY DEF Free
<1>2. \A j : Keeps(k, j) => Free(j)
    BY DEF Keeps
<1>3. /\ \A p : Free([k EXCEPT !.pos = p])
      /\ \A n : Free(Eat(k, n))
      /\ \A stops : Free(Seek(k, stops))
      /\ Free(SkipSpace(k)) /\ Free(NameEnd(k)) /\ Free(WaitForMore(k))
    BY <1>1, <1>2, PosKeeps, Zenon
<1>4. /\ \A tag : Free(Tag(k, tag))
      /\ \A types : Free(Type(k, types)) /\ Free(Typed(k, types))
      /\ Free(NotSpace(k)) /\ Free(Mark(k)) /\ Free(Begin(k)) /\ Free(Length(k))
      /\ \A tail : Free(Cut(k, tail))
      /\ \A at : Free([k EXCEPT !.tok.raw_begin = at])
      /\ \A length : Free([k EXCEPT !.tok.raw_length = length])
    BY <1>1, <1>2, TokKeeps, Zenon
<1>5. /\ \A a : Free(SetAttr(k, a))
      /\ Free(KeyTo(k)) /\ Free(ValueTo(k)) /\ Free(IdentifierFrom(k))
    BY <1>1, <1>2, AttrKeeps, Zenon
<1>6. \A s : Free(Goto(k, s))
    BY <1>1, GotoIs, Zenon
<1>7. \A n : Known(Eat(k, n))
    BY <1>3, Zenon DEF Free
<1>8. \A s : Free(Enter(k, s))
    BY <1>3, <1>7, GotoIs, Zenon DEF Enter
<1>9. Free(QueueAdd(k))
    BY <1>1, QueueAddIs, Zenon
<1>10. \A upto, type : Free(CreateTextNodeIfNeed(k, upto, type))
  <2>1. TAKE upto, type
  <2>2. Free(Type(k, {type})) /\ Known(Type(k, {type}))
    BY <1>4, Zenon DEF Free
  <2>3. Free(Tag(Type(k, {type}), Text)) /\ Known(Tag(Type(k, {type}), Text))
    BY <2>2, TokKeeps, Zenon DEF Free, Keeps
  <2>4. PICK j : j = [Tag(Type(k, {type}), Text) EXCEPT !.tok.raw_length = upto - k.tok.raw_begin]
    OBVIOUS
  <2>5. Free(j) /\ Known(j)
    BY <2>3, <2>4, TokKeeps, Zenon DEF Keeps
  <2>6. Free(QueueAdd(j))
    BY <2>5, QueueAddIs, Zenon
  <2>7. CreateTextNodeIfNeed(k, upto, type) = QueueAdd(j) \/ CreateTextNodeIfNeed(k, upto, type) = k
    BY <2>4, Zenon DEF CreateTextNodeIfNeed
  <2>8. QED
    BY <2>6, <2>7
<1>11. Free(CheckTagParser(k)) /\ Free(SetState(k))
    BY <1>4, <1>6, Zenon DEF CheckTagParser, SetState
<1>12. QED
    BY <1>3, <1>4, <1>5, <1>6, <1>8, <1>9, <1>10, <1>11, Zenon

\* A state that reads no attribute is entered with none at hand, and one
\* that reads one with it.
LEMMA Entered ==
    ASSUME NEW k, NEW s
    PROVE  /\ Free(k) /\ s \notin ReadsAttr => Sound(Goto(k, s)) /\ Sound(Enter(k, s))
           /\ Bound(k) /\ s \in ReadsAttr => Sound(Goto(k, s)) /\ Sound(Enter(k, s))
<1>1. ASSUME Known(k) PROVE Goto(k, s).state = s /\ Enter(k, s).state = s
  <2>1. Known(Eat(k, 1))
    BY <1>1, PosKeeps, Zenon DEF Keeps
  <2>2. QED
    BY <1>1, <2>1, GotoIs, Zenon DEF Enter
<1>2. Free(k) => Free(Goto(k, s)) /\ Free(Enter(k, s)) /\ Known(k)
    BY FreeStays, FreeKnown, Zenon
<1>3. ASSUME Bound(k) PROVE Bound(Goto(k, s)) /\ Bound(Enter(k, s)) /\ Known(k)
  <2>1. Known(k)
    BY <1>3 DEF Bound
  <2>2. Known(Eat(k, 1)) /\ Bound(Eat(k, 1))
    BY <1>3, <2>1, PosKeeps, Zenon DEF Keeps
  <2>3. QED
    BY <1>3, <2>1, <2>2, GotoIs, Zenon DEF Enter
<1>4. QED
    BY <1>1, <1>2, <1>3, Zenon DEF Sound

\* The '>' of a tag or of anything else leads to a state for a text.
LEMMA Closed ==
    ASSUME NEW k, Known(k)
    PROVE  /\ Free(k) => Sound(CloseTag(k)) /\ Sound(CloseMarkup(k))
           /\ Sound(NewAttr(CloseTag(k))) /\ Sound(NewAttr(CloseMarkup(k)))
<1>1. TextStates \cap ReadsAttr = {}
    BY DEF TextStates, ReadsAttr
<1>2. /\ Known(SetState(k)) /\ SetState(k).state \in TextStates
      /\ Free(k) => Free(SetState(k))
  <2>1. "DATA" \in TextStates /\ DataParser(k.tok.tag) \in TextStates
    BY DEF TextStates, DataParser
  <2>2. QED
    BY <2>1, GotoIs, Zenon DEF SetState
<1>3. /\ Known(CloseTag(k)) /\ CloseTag(k).state \in TextStates
      /\ Free(k) => Free(CloseTag(k))
  <2>1. PICK j : j = Eat(SetState(k), 1)
    OBVIOUS
  <2>2. Known(j) /\ j.state \in TextStates /\ (Free(k) => Free(j))
    BY <1>2, <2>1, PosKeeps, Zenon DEF Keeps
  <2>3. CloseTag(k) = QueueAdd(j)
    BY <2>1 DEF CloseTag
  <2>4. QueueAdd(j).state \in TextStates
    BY <2>2, QueueAddIs
  <2>5. QED
    BY <2>2, <2>3, <2>4, QueueAddIs, Zenon
<1>4. /\ Known(CloseMarkup(k)) /\ CloseMarkup(k).state = "DATA"
      /\ Free(k) => Free(CloseMarkup(k))
  <2>1. PICK j : j = QueueAdd(Eat(k, 1))
    OBVIOUS
  <2>2. Known(j) /\ (Free(k) => Free(j))
    BY <2>1, PosKeeps, QueueAddIs, Zenon DEF Keeps
  <2>3. QED
    BY <2>1, <2>2, GotoIs, Zenon DEF CloseMarkup
<1>5. "DATA" \in TextStates
    BY DEF TextStates
<1>6. Free(k) => Sound(CloseTag(k)) /\ Sound(CloseMarkup(k))
    BY <1>1, <1>3, <1>4, <1>5 DEF Sound
<1>7. /\ NewAttr(CloseTag(k)).state \notin ReadsAttr /\ Free(NewAttr(CloseTag(k)))
      /\ NewAttr(CloseMarkup(k)).state \notin ReadsAttr /\ Free(NewAttr(CloseMarkup(k)))
    BY <1>1, <1>3, <1>4, <1>5, NewAttrIs
<1>8. QED
    BY <1>6, <1>7 DEF Sound

\* A scan that goes on in the next chunk.
LEMMA ScanSound ==
    ASSUME NEW k, Sound(k)
    PROVE  /\ Known(k)
           /\ \A j : Keeps(k, j) => Sound(j)
           /\ \A stops : Sound(Seek(k, stops))
           /\ Sound(SkipSpace(k)) /\ Sound(NameEnd(k)) /\ Sound(WaitForMore(k))
<1>1. Known(k)
    BY DEF Sound, Free, Bound
<1>2. \A j : Keeps(k, j) => Sound(j)
    BY DEF Sound, Keeps
<1>3. QED
    BY <1>1, <1>2, PosKeeps, Zenon

-----------------------------------------------------------------------------
(* The states of data, tags and comments. *)

\* What the scan has learnt is written into the token.
LEMMA ScannedKeeps ==
    ASSUME NEW k, NEW j, Sound(j)
    PROVE  Sound(Scanned(k, j))
<1>1. Keeps(j, NotSpace(j)) /\ Known(NotSpace(j))
    BY ScanSound, TokKeeps, Zenon DEF Keeps
<1>2. Sound(NotSpace(j))
    BY <1>1, ScanSound, Zenon
<1>3. Sound(Type(NotSpace(j), {"DATA"}))
    BY <1>1, <1>2, TokKeeps, ScanSound, Zenon
<1>4. QED
    BY <1>3, Zenon DEF Scanned

\* Data and the opening of a tag.
LEMMA TagStatesSound ==
    ASSUME NEW k, Sound(k), k.state \in TagStates
    PROVE  Sound(TagFunction(k))
<1>1. Free(k) /\ Known(k)
    BY DEF Sound, TagStates, ReadsAttr, Free
<1>2. CASE k.state = "DATA"
  <2>1. PICK j : j = Scanned(k, Seek(k, {"<"}))
    OBVIOUS
  <2>2. Sound(j) /\ Free(j)
    BY <1>1, <2>1, ScanSound, ScannedKeeps, FreeStays, Zenon DEF Scanned
  <2>3. Sound(DataState(k))
    BY <2>1, <2>2, Entered DEF DataState, ReadsAttr
  <2>4. QED
    BY <1>2, <2>3 DEF TagFunction
<1>3. CASE k.state = "TAG_OPEN"
  <2>1. \A upto, type : Free(Begin(CreateTextNodeIfNeed(k, upto, type))) /\ Free(Begin(Eat(CreateTextNodeIfNeed(k, upto, type), 1)))
    BY <1>1, FreeStays, Zenon
  <2>2. Free(NotSpace(k))
    BY <1>1, FreeStays
  <2>3. Sound(TagOpenState(k))
    BY <1>1, <2>1, <2>2, Entered DEF TagOpenState, ReadsAttr
  <2>4. QED
    BY <1>3, <2>3 DEF TagFunction
<1>4. CASE k.state = "END_TAG_OPEN"
  <2>1. \A upto, type : Free(Begin(CreateTextNodeIfNeed(k, upto, type)))
    BY <1>1, FreeStays, Zenon
  <2>2. \A upto, type, types : Free(Typed(Begin(CreateTextNodeIfNeed(k, upto, type)), types))
    BY <2>1, FreeStays, Zenon
  <2>3. Sound(EndTagOpenState(k))
    BY <1>1, <2>1, <2>2, Entered DEF EndTagOpenState, ReadsAttr
  <2>4. QED
    BY <1>4, <2>3 DEF TagFunction
<1>5. CASE k.state = "MARKUP_DECLARATION_OPEN"
  <2>1. Sound(WaitForMore(k))
    BY ScanSound
  <2>2. Free(Begin(Eat(k, 2)))
    BY <1>1, FreeStays, Zenon
  <2>3. \A p, length, tag : Free(Tag([[k EXCEPT !.pos = p] EXCEPT !.tok.raw_length = length], tag))
    BY <1>1, FreeStays, Zenon
  <2>4. \A p, length : [k EXCEPT !.pos = p, !.tok.raw_length = length] = [[k EXCEPT !.pos = p] EXCEPT !.tok.raw_length = length]
    OBVIOUS
  <2>5. \A p, tag : Free(NotSpace(Tag(Begin([k EXCEPT !.pos = p]), tag)))
    BY <1>1, FreeStays, Zenon
  <2>6. Sound(MarkupDeclarationOpenState(k))
    BY <1>1, <2>1, <2>2, <2>3, <2>4, <2>5, Entered DEF MarkupDeclarationOpenState, ReadsAttr
  <2>7. QED
    BY <1>5, <2>6 DEF TagFunction
<1>6. CASE k.state = "TAG_NAME"
  <2>1. ASSUME NEW j, Free(j) PROVE Sound(TagNameAt(j))
    <3>1. Free(CheckTagParser(Length(j))) /\ Known(CheckTagParser(Length(j)))
      BY <2>1, FreeStays, FreeKnown, Zenon
    <3>2. QED
      BY <3>1, Entered, Closed DEF TagNameAt, ReadsAttr
  <2>2. \A stops : Sound(Seek(k, stops)) /\ Free(Seek(k, stops))
    BY <1>1, ScanSound, FreeStays, Zenon
  <2>3. Sound(TagNameState(k))
    BY <2>1, <2>2, Zenon DEF TagNameState, Stops
  <2>4. QED
    BY <1>6, <2>3 DEF TagFunction
<1>7. CASE k.state = "SELF_CLOSING_START_TAG"
  <2>1. Free(Type(k, {"CLOSE_SELF"})) /\ Known(Type(k, {"CLOSE_SELF"}))
    BY <1>1, FreeStays, FreeKnown, Zenon
  <2>2. Sound(SelfClosingStartTagState(k))
    BY <1>1, <2>1, Closed, Entered DEF SelfClosingStartTagState, ReadsAttr
  <2>3. QED
    BY <1>7, <2>2 DEF TagFunction
<1>8. QED
    BY <1>2, <1>3, <1>4, <1>5, <1>6, <1>7 DEF TagStates

\* Comments.
LEMMA CommentStatesSound ==
    ASSUME NEW k, Sound(k), k.state \in CommentStates
    PROVE  Sound(CommentFunction(k))
<1>1. Free(k) /\ Known(k)
    BY DEF Sound, CommentStates, ReadsAttr, Free
<1>2. \A n : Free(Cut(k, n)) /\ Known(Cut(k, n))
    BY <1>1, FreeStays, FreeKnown, Zenon
<1>3. \A j : Free(j) => /\ Free([j EXCEPT !.tok.raw_length = 0]) /\ Known([j EXCEPT !.tok.raw_length = 0])
                         /\ Free(Tag(j, Comment)) /\ Known(Tag(j, Comment))
  <2>1. \A j : Free(j) => Known(j)
    BY DEF Free
  <2>2. \A j : Free(j) => Free([j EXCEPT !.tok.raw_length = 0]) /\ Free(Tag(j, Comment))
    BY FreeStays
  <2>3. QED
    BY <2>1, <2>2
<1>4. CASE k.state = "COMMENT_START"
  <2>1. Sound(CommentStartState(k))
    BY <1>1, <1>3, Entered, Closed DEF CommentStartState, ReadsAttr
  <2>2. QED
    BY <1>4, <2>1 DEF CommentFunction
<1>5. CASE k.state = "COMMENT_START_DASH"
  <2>1. Sound(CommentStartDashState(k))
    BY <1>1, <1>3, Entered, Closed DEF CommentStartDashState, ReadsAttr
  <2>2. QED
    BY <1>5, <2>1 DEF CommentFunction
<1>6. CASE k.state = "COMMENT"
  <2>1. \A stops : Sound(Seek(k, stops)) /\ Free(Seek(k, stops))
    BY <1>1, ScanSound, FreeStays, Zenon
  <2>2. ASSUME NEW j, Free(j) PROVE Sound(DashAt(j))
    BY <2>2, Entered DEF DashAt, ReadsAttr
  <2>3. Sound(CommentState(k))
    BY <2>1, <2>2, Zenon DEF CommentState, Stops
  <2>4. QED
    BY <1>6, <2>3 DEF CommentFunction
<1>7. CASE k.state = "COMMENT_END_DASH"
  <2>1. Sound(CommentEndDashState(k))
    BY <1>1, Entered DEF CommentEndDashState, ReadsAttr
  <2>2. QED
    BY <1>7, <2>1 DEF CommentFunction
<1>8. CASE k.state = "COMMENT_END"
  <2>1. Sound(Eat(k, 1))
    BY <1>1, PosKeeps, ScanSound, Zenon
  <2>2. Sound(CommentEndState(k))
    BY <1>1, <1>2, <2>1, Entered, Closed DEF CommentEndState, ReadsAttr
  <2>3. QED
    BY <1>8, <2>2 DEF CommentFunction
<1>9. CASE k.state = "COMMENT_END_BANG"
  <2>1. Sound(CommentEndBangState(k))
    BY <1>1, <1>2, Entered, Closed DEF CommentEndBangState, ReadsAttr
  <2>2. QED
    BY <1>9, <2>1 DEF CommentFunction
<1>10. CASE k.state = "BOGUS_COMMENT"
  <2>1. PICK j : j = Type(Tag([k EXCEPT !.pos = k.pos], Comment), {"COMMENT"})
    OBVIOUS
  <2>2. Sound(j) /\ Free(j)
    <3>1. Keeps(k, [k EXCEPT !.pos = k.pos]) /\ Sound([k EXCEPT !.pos = k.pos]) /\ Free([k EXCEPT !.pos = k.pos])
      BY <1>1, PosKeeps, ScanSound, FreeStays, Zenon
    <3>2. /\ Sound(Tag([k EXCEPT !.pos = k.pos], Comment))
          /\ Free(Tag([k EXCEPT !.pos = k.pos], Comment))
      BY <3>1, TokKeeps, ScanSound, FreeStays, Zenon DEF Keeps
    <3>3. QED
      BY <2>1, <3>2, TokKeeps, ScanSound, FreeStays, Zenon
  <2>3. \A stops : Sound(Seek(j, stops)) /\ Free(Seek(j, stops))
    BY <2>2, ScanSound, FreeStays, Zenon
  <2>4. ASSUME NEW i, Free(i) PROVE Sound(BogusCommentAt(i))
    BY <2>4, FreeStays, Closed, Zenon DEF BogusCommentAt, Free
  <2>5. Sound(BogusCommentState(k))
    BY <2>1, <2>3, <2>4, Zenon DEF BogusCommentState, BogusCommentFrom, Stops
  <2>6. QED
    BY <1>10, <2>5 DEF CommentFunction
<1>11. QED
    BY <1>4, <1>5, <1>6, <1>7, <1>8, <1>9, <1>10 DEF CommentStates

-----------------------------------------------------------------------------
(* The states of attributes. *)

\* The name of the next attribute begins.
LEMMA NameBegins ==
    ASSUME NEW k, Free(k)
    PROVE  /\ Bound(KeyFrom(HoldAttr(k))) /\ Known(KeyFrom(HoldAttr(k)))
           /\ Bound(KeyFrom(SetAttr(HoldAttr(k), FreshAttr)))
           /\ Bound(Eat(KeyFrom(SetAttr(HoldAttr(k), FreshAttr)), 1))
<1>1. \A j : Bound(j) => Known(j)
    BY DEF Bound
<1>2. Bound(HoldAttr(k)) /\ Known(HoldAttr(k))
    BY <1>1, HoldAttrIs
<1>3. Bound(KeyFrom(HoldAttr(k))) /\ Known(KeyFrom(HoldAttr(k)))
    BY <1>2, AttrKeeps, Zenon DEF Keeps
<1>4. Bound(SetAttr(HoldAttr(k), FreshAttr)) /\ Known(SetAttr(HoldAttr(k), FreshAttr))
    BY <1>2, AttrKeeps, Zenon DEF Keeps
<1>5. /\ Bound(KeyFrom(SetAttr(HoldAttr(k), FreshAttr)))
      /\ Known(KeyFrom(SetAttr(HoldAttr(k), FreshAttr)))
    BY <1>4, AttrKeeps, Zenon DEF Keeps
<1>6. Bound(Eat(KeyFrom(SetAttr(HoldAttr(k), FreshAttr)), 1))
    BY <1>5, PosKeeps, Zenon DEF Keeps
<1>7. QED
    BY <1>3, <1>5, <1>6

\* Before the name of an attribute there is none at hand.
LEMMA BeforeAttributeNameSound ==
    ASSUME NEW k, Free(k)
    PROVE  Sound(BeforeAttributeNameAt(k)) \/ k.state # "BEFORE_ATTRIBUTE_NAME"
<1>1. SUFFICES ASSUME k.state = "BEFORE_ATTRIBUTE_NAME" PROVE Sound(BeforeAttributeNameAt(k))
    OBVIOUS
<1>2. Sound(k) /\ Known(k)
    BY <1>1 DEF Sound, ReadsAttr, Free
<1>3. Sound(Eat(Type(k, {"CLOSE_SELF"}), 1))
  <2>1. Sound(Type(k, {"CLOSE_SELF"})) /\ Known(Type(k, {"CLOSE_SELF"}))
    BY <1>2, TokKeeps, ScanSound, Zenon DEF Keeps
  <2>2. QED
    BY <2>1, PosKeeps, ScanSound, Zenon
<1>4. QED
    BY <1>2, <1>3, NameBegins, Entered, Closed DEF BeforeAttributeNameAt, ReadsAttr

\* A lexer with an attribute at hand: its name or its value ends, or is given up.
LEMMA BoundStays ==
    ASSUME NEW k, Bound(k)
    PROVE  /\ Known(k) /\ Bound(KeyTo(k)) /\ Known(KeyTo(k)) /\ Known(ValueTo(k))
           /\ \A s : s \in ReadsAttr => Sound(ValueFrom(Enter(k, s))) /\ Sound(ValueFrom(Goto(k, s)))
           /\ Free(NewAttr(k)) /\ Free(NewAttr(ValueTo(k)))
           /\ \A types : Free(NewAttr(Type(KeyTo(k), types)))
           /\ \A stops : Bound(Seek(k, stops)) /\ Bound(SkipSpace(k))
<1>1. Known(k)
    BY DEF Bound
<1>2. Bound(KeyTo(k)) /\ Known(KeyTo(k)) /\ Known(ValueTo(k))
    BY <1>1, AttrKeeps, Zenon DEF Keeps
<1>3. ASSUME NEW s \in ReadsAttr PROVE Sound(ValueFrom(Enter(k, s))) /\ Sound(ValueFrom(Goto(k, s)))
  <2>1. Sound(Enter(k, s)) /\ Sound(Goto(k, s))
    BY <1>3, Entered
  <2>2. QED
    BY <2>1, ScanSound, AttrKeeps, Zenon
<1>4. Free(NewAttr(k)) /\ Free(NewAttr(ValueTo(k)))
    BY <1>1, <1>2, NewAttrIs
<1>5. \A types : Known(Type(KeyTo(k), types))
    BY <1>2, TokKeeps, Zenon DEF Keeps
<1>6. \A types : Free(NewAttr(Type(KeyTo(k), types)))
    BY <1>5, NewAttrIs, Zenon
<1>7. \A stops : Bound(Seek(k, stops)) /\ Bound(SkipSpace(k))
    BY <1>1, PosKeeps, Zenon DEF Keeps
<1>8. QED
    BY <1>1, <1>2, <1>3, <1>4, <1>6, <1>7

\* Attributes.
LEMMA AttributeStatesSound ==
    ASSUME NEW k, Sound(k), k.state \in AttributeStates
    PROVE  Sound(AttributeFunction(k))
<1>1. \A stops : Sound(Seek(k, stops)) /\ Sound(SkipSpace(k))
    BY ScanSound, Zenon
<1>2. /\ k.state \in ReadsAttr => Bound(k)
      /\ k.state \notin ReadsAttr => Free(k)
    BY DEF Sound
<1>3. \A j : (Bound(j) => Known(j)) /\ (Free(j) => Known(j))
    BY DEF Bound, Free
<1>4. CASE k.state = "BEFORE_ATTRIBUTE_NAME"
  <2>1. Free(k)
    BY <1>2, <1>4 DEF ReadsAttr
  <2>2. Free(SkipSpace(k)) /\ SkipSpace(k).state = k.state
    BY <1>3, <2>1, PosKeeps, FreeStays, Zenon DEF Keeps
  <2>3. Sound(BeforeAttributeNameAt(SkipSpace(k)))
    BY <1>4, <2>2, BeforeAttributeNameSound
  <2>4. Sound(BeforeAttributeNameState(k))
    BY <1>1, <2>3, Zenon DEF BeforeAttributeNameState, Stops
  <2>5. QED
    BY <1>4, <2>4 DEF AttributeFunction
<1>5. CASE k.state = "ATTRIBUTE_NAME"
  <2>1. ASSUME NEW j, Bound(j) PROVE Sound(AttributeNameAt(j))
    <3>1. /\ Bound(KeyTo(j)) /\ Known(KeyTo(j))
          /\ \A types : Free(NewAttr(Type(KeyTo(j), types)))
      BY <2>1, BoundStays
    <3>2. QED
      BY <3>1, Entered, Closed DEF AttributeNameAt, ReadsAttr
  <2>2. \A stops : Bound(Seek(k, stops))
    BY <1>2, <1>5, BoundStays DEF ReadsAttr
  <2>3. Sound(AttributeNameState(k))
    BY <1>1, <2>1, <2>2, Zenon DEF AttributeNameState, Stops
  <2>4. QED
    BY <1>5, <2>3 DEF AttributeFunction
<1>6. CASE k.state = "AFTER_ATTRIBUTE_NAME"
  <2>1. ASSUME NEW j, Bound(j) PROVE Sound(AfterAttributeNameAt(j))
    <3>1. Free(NewAttr(j)) /\ Known(j)
      BY <2>1, BoundStays
    <3>2. Bound(KeyFrom(SetAttr(HoldAttr(NewAttr(j)), FreshAttr)))
      BY <3>1, NameBegins
    <3>3. QED
      BY <2>1, <3>1, <3>2, Entered, Closed DEF AfterAttributeNameAt, ReadsAttr
  <2>2. Bound(SkipSpace(k))
    BY <1>2, <1>6, BoundStays DEF ReadsAttr
  <2>3. Sound(AfterAttributeNameState(k))
    BY <1>1, <2>1, <2>2, Zenon DEF AfterAttributeNameState, Stops
  <2>4. QED
    BY <1>6, <2>3 DEF AttributeFunction
<1>7. CASE k.state = "BEFORE_ATTRIBUTE_VALUE"
  <2>1. ASSUME NEW j, Bound(j) PROVE Sound(BeforeAttributeValueAt(j))
    <3>1. Sound(NewAttr(CloseTag(j)))
      BY <1>3, <2>1, Closed
    <3>2. /\ Sound(ValueFrom(Enter(j, "ATTRIBUTE_VALUE_DOUBLE_QUOTED")))
          /\ Sound(ValueFrom(Enter(j, "ATTRIBUTE_VALUE_SINGLE_QUOTED")))
          /\ Sound(ValueFrom(Goto(j, "ATTRIBUTE_VALUE_UNQUOTED")))
      BY <2>1, BoundStays DEF ReadsAttr
    <3>3. QED
      BY <3>1, <3>2 DEF BeforeAttributeValueAt
  <2>2. Bound(SkipSpace(k))
    BY <1>2, <1>7, BoundStays DEF ReadsAttr
  <2>3. Sound(BeforeAttributeValueState(k))
    BY <1>1, <2>1, <2>2, Zenon DEF BeforeAttributeValueState, Stops
  <2>4. QED
    BY <1>7, <2>3 DEF AttributeFunction
<1>8. ASSUME k.state \in {"ATTRIBUTE_VALUE_DOUBLE_QUOTED", "ATTRIBUTE_VALUE_SINGLE_QUOTED"}, NEW quote
      PROVE  Sound(AttributeValueQuotedState(k, quote))
  <2>1. ASSUME NEW j, Bound(j) PROVE Sound(QuoteAt(j))
    BY <2>1, BoundStays, Entered DEF QuoteAt, ReadsAttr
  <2>2. \A stops : Bound(Seek(k, stops))
    BY <1>2, <1>8, BoundStays DEF ReadsAttr
  <2>3. QED
    BY <1>1, <2>1, <2>2, Zenon DEF AttributeValueQuotedState, Stops
<1>9. CASE k.state = "ATTRIBUTE_VALUE_DOUBLE_QUOTED"
    BY <1>8, <1>9 DEF AttributeFunction
<1>10. CASE k.state = "ATTRIBUTE_VALUE_SINGLE_QUOTED"
    BY <1>8, <1>10 DEF AttributeFunction
<1>11. CASE k.state = "ATTRIBUTE_VALUE_UNQUOTED"
  <2>1. ASSUME NEW j, Bound(j) PROVE Sound(AttributeValueUnquotedAt(j))
    BY <2>1, BoundStays, Entered, Closed DEF AttributeValueUnquotedAt, ReadsAttr
  <2>2. \A stops : Bound(Seek(k, stops))
    BY <1>2, <1>11, BoundStays DEF ReadsAttr
  <2>3. Sound(AttributeValueUnquotedState(k))
    BY <1>1, <2>1, <2>2, Zenon DEF AttributeValueUnquotedState, Stops
  <2>4. QED
    BY <1>11, <2>3 DEF AttributeFunction
<1>12. CASE k.state = "AFTER_ATTRIBUTE_VALUE_QUOTED"
  <2>1. Free(k) /\ Known(k)
    BY <1>2, <1>3, <1>12 DEF ReadsAttr
  <2>2. Sound(AfterAttributeValueQuotedState(k))
    BY <2>1, Entered, Closed DEF AfterAttributeValueQuotedState, ReadsAttr
  <2>3. QED
    BY <1>12, <2>2 DEF AttributeFunction
<1>13. QED
    BY <1>4, <1>5, <1>6, <1>7, <1>9, <1>10, <1>11, <1>12 DEF AttributeStates

-----------------------------------------------------------------------------
(* The states of texts of their own kind, of CDATA and of scripts. *)

\* A state whose scan stops at the end of the chunk, or at a character that sends
\* it on to a state that reads no attribute.
LEMMA TextScanSound ==
    ASSUME NEW k, Sound(k), Free(k), NEW next, next \notin ReadsAttr
    PROVE  Sound(TextScan(k, next))
<1>1. Sound(Seek(k, {"<"})) /\ Free(Seek(k, {"<"}))
    BY ScanSound, FreeStays
<1>2. QED
    BY <1>1, Entered, Zenon DEF TextScan, TextLessThanAt

\* The text in front of an end tag becomes a token, and the end tag is the next.
LEMMA EndOfTextSound ==
    ASSUME NEW k, Free(k), NEW begin, NEW type
    PROVE  Sound(EndOfText(k, begin, type))
<1>1. PICK text : text = NotSpace(Type(Tag(k, Text), {type}))
    OBVIOUS
<1>2. Free(text)
    BY <1>1, FreeStays, Zenon
<1>3. PICK a : a = AndataText(k, begin, type)
    OBVIOUS
<1>4. Free(a)
  <2>1. \A length, at : Free([[text EXCEPT !.tok.raw_length = length] EXCEPT !.tok.raw_begin = at])
    BY <1>2, FreeStays, Zenon
  <2>2. \A length, at : [text EXCEPT !.tok.raw_length = length, !.tok.raw_begin = at]
                           = [[text EXCEPT !.tok.raw_length = length] EXCEPT !.tok.raw_begin = at]
    OBVIOUS
  <2>3. \A length, at : Free(QueueAdd([text EXCEPT !.tok.raw_length = length, !.tok.raw_begin = at]))
    BY <2>1, <2>2, FreeStays
  <2>4. \A length, at, to : Free([QueueAdd([text EXCEPT !.tok.raw_length = length, !.tok.raw_begin = at])
                                 EXCEPT !.tok.raw_begin = to])
    BY <2>3, FreeStays
  <2>5. QED
    BY <1>1, <1>3, <2>4, Zenon DEF AndataText
<1>5. PICK e : e = AndataEndTag(a)
    OBVIOUS
<1>6. Free(e)
    BY <1>4, <1>5, FreeStays, Zenon DEF AndataEndTag
<1>7. \A j : Sound(j) => Sound([j EXCEPT !.tmp = Undef])
    BY DEF Sound, Free, Bound, Known
<1>8. Sound(Goto(QueueAdd(Eat(e, 1)), "DATA")) /\ Sound(Enter(e, "BEFORE_ATTRIBUTE_NAME"))
  <2>1. Free(QueueAdd(Eat(e, 1)))
    BY <1>6, FreeStays, Zenon
  <2>2. QED
    BY <1>6, <2>1, Entered DEF ReadsAttr
<1>9. QED
    BY <1>3, <1>5, <1>7, <1>8, Zenon DEF EndOfText

\* The name of an end tag.
LEMMA EndTagNameSound ==
    ASSUME NEW k, Sound(k), Free(k), NEW state, state \notin ReadsAttr, NEW type
    PROVE  Sound(TextEndTagNameState(k, state, type))
<1>1. PICK begin : begin = k.tok.raw_begin
    OBVIOUS
<1>2. PICK j : j = NameEnd(Begin(k))
    OBVIOUS
<1>3. Sound(j) /\ Free(j) /\ Known(j)
  <2>1. Sound(Begin(k)) /\ Free(Begin(k))
    BY ScanSound, TokKeeps, FreeStays, Zenon
  <2>2. QED
    BY <1>2, <2>1, ScanSound, FreeStays, Zenon
<1>4. \A at : Free([j EXCEPT !.tok.raw_begin = at]) /\ Sound([j EXCEPT !.tok.raw_begin = at])
    BY <1>3, TokKeeps, ScanSound, FreeStays, Zenon
<1>5. ASSUME NEW n, Free(n) PROVE Sound(NotTheEndTag(n, begin))
  <2>1. Free([[n EXCEPT !.tok.raw_begin = begin] EXCEPT !.tok.raw_length = 0])
    <3>1. Free([n EXCEPT !.tok.raw_begin = begin])
      BY <1>5, FreeStays, Zenon
    <3>2. QED
      BY <3>1, FreeStays
  <2>2. [n EXCEPT !.tok.raw_begin = begin, !.tok.raw_length = 0]
          = [[n EXCEPT !.tok.raw_begin = begin] EXCEPT !.tok.raw_length = 0]
    OBVIOUS
  <2>3. QED
    BY <2>1, <2>2, Entered DEF NotTheEndTag, ReadsAttr
<1>6. Sound(EndTagNameAt(j, begin, state, type))
  <2>1. Free(CheckTagParser(Length(j)))
    BY <1>3, FreeStays, Zenon
  <2>2. Sound(Goto([j EXCEPT !.tok.raw_begin = begin], state))
    BY <1>4, Entered, Zenon
  <2>3. QED
    BY <1>5, <2>1, <2>2, EndOfTextSound, Zenon DEF EndTagNameAt
<1>7. QED
    BY <1>1, <1>2, <1>4, <1>6, Zenon DEF TextEndTagNameState, EndTagNameScan

\* RCDATA and RAWTEXT.
LEMMA RawStatesSound ==
    ASSUME NEW k, Sound(k), k.state \in RcdataStates \cup RawtextStates
    PROVE  Sound(RcdataOrRawtext(k))
<1>1. Free(k)
    BY DEF Sound, RcdataStates, RawtextStates, ReadsAttr
<1>2. ASSUME NEW next, next \notin ReadsAttr PROVE Sound(TextState(k, next))
  <2>1. Sound(Begin(k)) /\ Free(Begin(k))
    BY <1>1, ScanSound, TokKeeps, FreeStays, Zenon
  <2>2. \A j, tmp : (Sound(j) => Sound([j EXCEPT !.tmp = tmp])) /\ (Free(j) => Free([j EXCEPT !.tmp = tmp]))
    BY DEF Sound, Free, Bound, Known
  <2>3. Sound(TextStarts(k)) /\ Free(TextStarts(k))
    BY <1>1, <2>1, <2>2, Zenon DEF TextStarts
  <2>4. QED
    BY <1>2, <2>3, TextScanSound DEF TextState
<1>3. ASSUME NEW text, text \notin ReadsAttr, NEW next, next \notin ReadsAttr
      PROVE  Sound(TextLessThanSignState(k, text, next)) /\ Sound(TextEndTagOpenState(k, text, next))
    BY <1>1, <1>3, Entered, Zenon DEF TextLessThanSignState, TextEndTagOpenState
<1>4. \A state \in RcdataStates \cup RawtextStates : state \notin ReadsAttr
    BY DEF RcdataStates, RawtextStates, ReadsAttr
<1>5. ASSUME NEW state \in RcdataStates \cup RawtextStates, NEW type
      PROVE  Sound(TextEndTagNameState(k, state, type))
    BY <1>1, <1>4, <1>5, EndTagNameSound
<1>6. QED
    BY <1>2, <1>3, <1>4, <1>5 DEF RcdataOrRawtext, RcdataStates, RawtextStates

\* Plaintext is done with at once.
LEMMA PlaintextSound ==
    ASSUME NEW k, Sound(k), k.state = "PLAINTEXT"
    PROVE  Sound(PlaintextState(k))
<1>1. Free(Begin(k))
    BY FreeStays DEF Sound, ReadsAttr
<1>2. PICK b : b = Begin(k)
    OBVIOUS
<1>3. \A p, length : Free([b EXCEPT !.pos = p, !.tok.raw_length = length])
  <2>1. \A p, length : Free([[b EXCEPT !.pos = p] EXCEPT !.tok.raw_length = length])
    BY <1>1, <1>2, FreeStays, Zenon
  <2>2. \A p, length : [b EXCEPT !.pos = p, !.tok.raw_length = length]
                          = [[b EXCEPT !.pos = p] EXCEPT !.tok.raw_length = length]
    OBVIOUS
  <2>3. QED
    BY <2>1, <2>2
<1>4. PICK j : j = Tag(NotSpace(Type([b EXCEPT !.pos = Limit(k), !.tok.raw_length = Limit(k) - k.pos],
                                     {"PLAINTEXT"})), Text)
    OBVIOUS
<1>5. Free(j)
    BY <1>3, <1>4, FreeStays, Zenon
<1>6. Free(Goto(j, "DATA")) /\ Known(Goto(j, "DATA")) /\ Goto(j, "DATA").state = "DATA"
    BY <1>5, GotoIs, Zenon DEF Free
<1>7. Free(QueueAdd(Goto(j, "DATA"))) /\ QueueAdd(Goto(j, "DATA")).state \in TextStates
    BY <1>6, QueueAddIs DEF TextStates
<1>8. QED
    BY <1>2, <1>4, <1>7 DEF PlaintextState, Sound, TextStates, ReadsAttr

\* CDATA in foreign content.
LEMMA CdataSound ==
    ASSUME NEW k, Sound(k), k.state = "CDATA_SECTION"
    PROVE  Sound(CdataSectionState(k))
<1>1. Free(k)
    BY DEF Sound, ReadsAttr
<1>2. \A p : Sound([k EXCEPT !.pos = p]) /\ Free([k EXCEPT !.pos = p])
    BY <1>1, PosKeeps, ScanSound, FreeStays, Zenon
<1>3. \A p, types : Sound(Type([k EXCEPT !.pos = p], types)) /\ Free(Type([k EXCEPT !.pos = p], types))
    BY <1>2, TokKeeps, ScanSound, FreeStays, Zenon
<1>4. ASSUME NEW j, Free(j) PROVE Sound(CdataAt(j))
  <2>1. Free(Cut(j, 2)) /\ Known(Cut(j, 2))
    BY <1>4, FreeStays, FreeKnown
  <2>2. Free([j EXCEPT !.tok.raw_length = 0])
    BY <1>4, FreeStays
  <2>3. Free(Begin(Eat([j EXCEPT !.tok.raw_length = 0], 1)))
    BY <2>2, FreeStays, Zenon
  <2>4. QED
    BY <2>1, <2>3, Closed, Entered DEF CdataAt, ReadsAttr
<1>5. QED
    BY <1>3, <1>4, Zenon DEF CdataSectionState, Stops

\* The end tag of a script, in front of it a token of the script.
LEMMA EndOfScriptSound ==
    ASSUME NEW k, Free(k), NEW mark
    PROVE  Sound(EndOfScript(k, mark))
<1>1. PICK token : token = CreateTextNodeIfNeed(k, k.pos - Len(Script) - 2, "SCRIPT")
    OBVIOUS
<1>2. Free(token)
    BY <1>1, FreeStays, Zenon
<1>3. ASSUME NEW type PROVE Free(ScriptEndTag(token, mark, type)) /\ Known(ScriptEndTag(token, mark, type))
  <2>1. Free([[token EXCEPT !.tok.raw_begin = mark] EXCEPT !.tok.raw_length = Len(Script)])
    BY <1>2, FreeStays, Zenon
  <2>2. [token EXCEPT !.tok.raw_begin = mark, !.tok.raw_length = Len(Script)]
          = [[token EXCEPT !.tok.raw_begin = mark] EXCEPT !.tok.raw_length = Len(Script)]
    OBVIOUS
  <2>3. Free([token EXCEPT !.tok.raw_begin = mark, !.tok.raw_length = Len(Script)])
    BY <2>1, <2>2
  <2>4. QED
    <3>1. Free(ScriptEndTag(token, mark, type))
      BY <2>3, FreeStays, Zenon DEF ScriptEndTag
    <3>2. QED
      BY <3>1, FreeKnown, Zenon
<1>4. \A type : /\ Sound(CloseMarkup(ScriptEndTag(token, mark, type)))
                /\ Sound(Enter(ScriptEndTag(token, mark, type), "BEFORE_ATTRIBUTE_NAME"))
    BY <1>3, Closed, Entered DEF ReadsAttr
<1>5. QED
    BY <1>1, <1>4, Zenon DEF EndOfScript

\* What a state of a script does that comes back in several: each of them goes
\* on to states that read no attribute, text, next and the others.
LEMMA ScriptStepsSound ==
    ASSUME NEW k, Sound(k), Free(k), NEW text, text \notin ReadsAttr, NEW next, next \notin ReadsAttr
    PROVE  /\ Sound(DashOr(k, next, text))
           /\ Sound(ScriptEndTagOpenState(k, text, next))
           /\ Sound(ScriptEndTagNameState(k, text))
           /\ Sound(EscapedState(k, text, next))
           /\ Sound(DashDashState(k, text, next))
           /\ Sound(DoubleEscapeState(k, next, text))
<1>1. /\ Sound(NameEnd(k)) /\ Free(NameEnd(k)) /\ Free(Mark(k)) /\ Sound(Eat(k, 1))
      /\ \A stops : Sound(Seek(k, stops)) /\ Free(Seek(k, stops))
    BY ScanSound, PosKeeps, FreeStays, Zenon
<1>2. Sound(DashOr(k, next, text)) /\ Sound(ScriptEndTagOpenState(k, text, next))
    BY <1>1, Entered, Zenon DEF DashOr, ScriptEndTagOpenState
<1>3. Sound(ScriptEndTagNameState(k, text))
  <2>1. ASSUME NEW j, Free(j) PROVE Sound(ScriptEndTagNameAt(j, text))
    BY <2>1, Entered, EndOfScriptSound DEF ScriptEndTagNameAt
  <2>2. QED
    BY <1>1, <2>1, Zenon DEF ScriptEndTagNameState, ScriptEndTagNameScan
<1>4. Sound(EscapedState(k, text, next))
  <2>1. ASSUME NEW j, Free(j) PROVE Sound(EscapedAt(j, text, next))
    BY <2>1, Entered, Zenon DEF EscapedAt
  <2>2. QED
    BY <1>1, <2>1, Zenon DEF EscapedState, EscapedScan
<1>5. Sound(DashDashState(k, text, next))
    BY <1>1, Entered DEF DashDashState, ReadsAttr
<1>6. Sound(DoubleEscapeState(k, next, text))
  <2>1. ASSUME NEW j, Free(j) PROVE Sound(DoubleEscapeAt(j, next, text))
    BY <2>1, Entered DEF DoubleEscapeAt
  <2>2. QED
    BY <1>1, <2>1, Zenon DEF DoubleEscapeState, DoubleEscapeScan
<1>7. QED
    BY <1>2, <1>3, <1>4, <1>5, <1>6

\* Scripts.
LEMMA ScriptStatesSound ==
    ASSUME NEW k, Sound(k), k.state \in ScriptStates
    PROVE  Sound(ScriptState(k))
<1>1. Free(k) /\ Free(Mark(k))
  <2>1. Free(k)
    BY DEF Sound, ScriptStates, ReadsAttr
  <2>2. QED
    BY <2>1, FreeStays
<1>2. \A state \in ScriptStates : state \notin ReadsAttr
    BY DEF ScriptStates, ReadsAttr
<1>3. \A text, next \in ScriptStates :
          /\ Sound(DashOr(k, next, text))
          /\ Sound(ScriptEndTagOpenState(k, text, next))
          /\ Sound(ScriptEndTagNameState(k, text))
          /\ Sound(EscapedState(k, text, next))
          /\ Sound(DashDashState(k, text, next))
          /\ Sound(DoubleEscapeState(k, next, text))
    BY <1>1, <1>2, ScriptStepsSound, Zenon
<1>4. \A next \in ScriptStates : Sound(TextScan(k, next))
    BY <1>1, <1>2, TextScanSound, Zenon
<1>5. \A state \in ScriptStates : Sound(Enter(k, state)) /\ Sound(Goto(k, state)) /\ Sound(Goto(Mark(k), state))
    BY <1>1, <1>2, Entered, Zenon
<1>6. Sound(ScriptDataLessThanSignState(k))
    BY <1>5 DEF ScriptDataLessThanSignState, ScriptStates
<1>7. Sound(ScriptDataEscapedDashState(k)) /\ Sound(ScriptDataDoubleEscapedDashState(k))
    BY <1>5 DEF ScriptDataEscapedDashState, ScriptDataDoubleEscapedDashState, ScriptStates
<1>8. Sound(ScriptDataEscapedLessThanSignState(k))
    BY <1>5 DEF ScriptDataEscapedLessThanSignState, ScriptStates
<1>9. Sound(ScriptDataDoubleEscapedLessThanSignState(k))
  <2>1. Sound(Mark(Enter(k, "SCRIPT_DATA_DOUBLE_ESCAPE_END")))
    BY <1>5, ScanSound, TokKeeps DEF ScriptStates
  <2>2. QED
    BY <1>5, <2>1 DEF ScriptDataDoubleEscapedLessThanSignState, ScriptStates
<1>10. QED
    BY <1>3, <1>4, <1>6, <1>7, <1>8, <1>9, ZenonT(100) DEF ScriptState, ScriptStates

-----------------------------------------------------------------------------
(* The states of a doctype. *)

\* The name of a doctype begins and ends.
LEMMA DoctypeNameSound ==
    ASSUME NEW k
    PROVE  /\ Free(k) => Sound(BeforeDoctypeNameAt(k))
           /\ Bound(k) => Sound(DoctypeNameAt(k))
<1>1. ASSUME Free(k) PROVE Sound(BeforeDoctypeNameAt(k))
  <2>1. Known(k)
    BY <1>1 DEF Free
  <2>2. QED
    BY <1>1, <2>1, NameBegins, Entered, Closed DEF BeforeDoctypeNameAt, ReadsAttr
<1>2. ASSUME Bound(k) PROVE Sound(DoctypeNameAt(k))
  <2>1. Known(KeyTo(k)) /\ Free(NewAttr(KeyTo(k)))
    BY <1>2, BoundStays, NewAttrIs
  <2>2. QED
    BY <2>1, Entered, Closed DEF DoctypeNameAt, ReadsAttr
<1>3. QED
    BY <1>1, <1>2

\* A keyword or an identifier is linked into the list as it ends.
LEMMA IdentifierSound ==
    ASSUME NEW k, Free(k), NEW next, next \notin ReadsAttr
    PROVE  Sound(Keyword(k, next)) /\ Sound(IdentifierAt(k, next))
<1>1. \A j : (Bound(j) => Known(j)) /\ (Free(j) => Known(j))
    BY DEF Bound, Free
<1>2. Sound(Keyword(k, next))
  <2>1. PICK held : held = HoldAttr(k)
    OBVIOUS
  <2>2. Known(held)
    BY <1>1, <2>1, HoldAttrIs
  <2>3. \A a, p : Known([SetAttr(held, a) EXCEPT !.pos = p])
    BY <2>2, AttrKeeps, PosKeeps, Zenon DEF Keeps
  <2>4. \A a, p : Sound(Goto(NewAttr([SetAttr(held, a) EXCEPT !.pos = p]), next))
    BY <2>3, NewAttrIs, Entered, Zenon
  <2>5. QED
    BY <2>1, <2>4, Zenon DEF Keyword
<1>3. Sound(IdentifierAt(k, next))
  <2>1. Free(ValueTo(k))
    BY FreeStays
  <2>2. Free(NewAttr(HoldAttr(ValueTo(k))))
    BY <1>1, <2>1, HoldAttrIs, NewAttrIs, Zenon
  <2>3. /\ Sound(Enter(NewAttr(HoldAttr(ValueTo(k))), next))
        /\ Sound(CloseMarkup(NewAttr(HoldAttr(ValueTo(k)))))
        /\ Sound(CloseMarkup(k))
    BY <1>1, <2>2, Entered, Closed, Zenon
  <2>4. QED
    BY <2>3 DEF IdentifierAt
<1>4. QED
    BY <1>2, <1>3

\* Doctypes.
LEMMA DoctypeStatesSound ==
    ASSUME NEW k, Sound(k), k.state \in DoctypeStates
    PROVE  Sound(DoctypeState(k))
<1>1. \A stops : Sound(Seek(k, stops)) /\ Sound(SkipSpace(k))
    BY ScanSound, Zenon
<1>2. CASE k.state = "DOCTYPE_NAME"
  <2>1. Bound(k)
    BY <1>2 DEF Sound, ReadsAttr
  <2>2. \A stops : Bound(Seek(k, stops))
    BY <2>1, BoundStays
  <2>3. Sound(Stops(k, Seek(k, Space \cup {">"}), DoctypeNameAt))
    BY <1>1, <2>2, DoctypeNameSound, Zenon DEF Stops
  <2>4. QED
    BY <1>2, <2>3 DEF DoctypeState
<1>3. CASE k.state # "DOCTYPE_NAME"
  <2>1. Free(k) /\ Known(k)
    BY <1>3 DEF Sound, DoctypeStates, ReadsAttr, Free
  <2>2. \A stops : Free(Seek(k, stops)) /\ Free(SkipSpace(k)) /\ Known(Seek(k, stops))
    BY <2>1, FreeStays, FreeKnown, Zenon
  <2>3. Sound(Goto(k, "BEFORE_DOCTYPE_NAME"))
    BY <2>1, Entered DEF ReadsAttr
  <2>4. Sound(Stops(k, SkipSpace(k), BeforeDoctypeNameAt))
    BY <1>1, <2>2, DoctypeNameSound, Zenon DEF Stops
  <2>5. Sound(Stops(k, SkipSpace(k), AfterDoctypeNameAt))
    <3>1. ASSUME NEW j, Free(j) PROVE Sound(AfterDoctypeNameAt(j))
      <4>1. Free(Mark(j)) /\ Known(j)
        BY <3>1, FreeStays, FreeKnown
      <4>2. QED
        BY <3>1, <4>1, Entered, Closed DEF AfterDoctypeNameAt, ReadsAttr
    <3>2. QED
      BY <1>1, <2>2, <3>1, Zenon DEF Stops
  <2>6. Sound(CustomAfterDoctypeNameState(k))
    <3>1. Sound(WaitForMore(k)) /\ Sound(Goto(k, "BOGUS_DOCTYPE"))
      BY <2>1, ScanSound, Entered DEF ReadsAttr
    <3>2. /\ Sound(Keyword(k, "BEFORE_DOCTYPE_PUBLIC_IDENTIFIER"))
          /\ Sound(Keyword(k, "AFTER_DOCTYPE_PUBLIC_IDENTIFIER"))
      BY <2>1, IdentifierSound DEF ReadsAttr
    <3>3. QED
      BY <3>1, <3>2 DEF CustomAfterDoctypeNameState
  <2>7. ASSUME NEW j, Free(j)
        PROVE  /\ Sound(BeforePublicIdentifierAt(j)) /\ Sound(AfterPublicIdentifierAt(j))
               /\ Sound(AfterSystemIdentifierAt(j)) /\ Sound(CloseMarkup(j))
    <3>1. Free(IdentifierFrom(j)) /\ Known(j)
      BY <2>7, FreeStays, FreeKnown
    <3>2. Sound(BeforePublicIdentifierAt(j))
      BY <2>7, <3>1, Entered, Closed DEF BeforePublicIdentifierAt, ReadsAttr
    <3>3. Sound(AfterPublicIdentifierAt(j))
      BY <2>7, <3>1, Entered, Closed DEF AfterPublicIdentifierAt, ReadsAttr
    <3>4. Sound(AfterSystemIdentifierAt(j))
      BY <2>7, <3>1, Entered, Closed DEF AfterSystemIdentifierAt, ReadsAttr
    <3>5. QED
      BY <2>7, <3>1, <3>2, <3>3, <3>4, Closed
  <2>8. /\ Sound(Stops(k, SkipSpace(k), BeforePublicIdentifierAt))
        /\ Sound(Stops(k, SkipSpace(k), AfterPublicIdentifierAt))
        /\ Sound(Stops(k, SkipSpace(k), AfterSystemIdentifierAt))
        /\ Sound(BogusDoctypeState(k))
    BY <1>1, <2>2, <2>7, Zenon DEF Stops, BogusDoctypeState
  <2>9. ASSUME NEW quote, NEW next, next \notin ReadsAttr PROVE Sound(IdentifierState(k, quote, next))
    BY <1>1, <2>2, <2>9, IdentifierSound, Zenon DEF IdentifierState, IdentifierScan
  <2>10. \A quote : /\ Sound(IdentifierState(k, quote, "AFTER_DOCTYPE_PUBLIC_IDENTIFIER"))
                    /\ Sound(IdentifierState(k, quote, "AFTER_DOCTYPE_SYSTEM_IDENTIFIER"))
    BY <2>9 DEF ReadsAttr
  <2>11. QED
    BY <1>3, <2>3, <2>4, <2>5, <2>6, <2>8, <2>10 DEF DoctypeState, DoctypeStates
<1>4. QED
    BY <1>2, <1>3

-----------------------------------------------------------------------------
(* The end of a document. *)

\* An unfinished token is queued or given up; no attribute is linked for it.
LEMMA EndKnown ==
    ASSUME NEW k, Known(k)
    PROVE  Known(End(k))
<1>1. ASSUME NEW j, Known(j)
      PROVE  /\ \A tag : Known(Tag(j, tag))
             /\ \A types : Known(Type(j, types))
             /\ Known(NotSpace(j)) /\ Known(Length(j)) /\ Known(QueueAdd(j)) /\ Known(NewAttr(j))
             /\ \A tail : Known(Cut(j, tail))
             /\ \A length : Known([j EXCEPT !.tok.raw_length = length])
             /\ \A p : Known([j EXCEPT !.pos = p])
             /\ \A n, stops : Known(Eat(j, n)) /\ Known(Seek(j, stops))
             /\ Known(KeyTo(j)) /\ Known(ValueTo(j)) /\ Known(CheckTagParser(j))
             /\ \A s : Known(Goto(j, s))
  <2>1. \A i : Keeps(j, i) => Known(i)
    BY DEF Keeps
  <2>2. /\ \A tag : Known(Tag(j, tag))
        /\ \A types : Known(Type(j, types))
        /\ Known(NotSpace(j)) /\ Known(Length(j))
        /\ \A tail : Known(Cut(j, tail))
        /\ \A length : Known([j EXCEPT !.tok.raw_length = length])
    BY <1>1, <2>1, TokKeeps, Zenon
  <2>3. /\ \A p : Known([j EXCEPT !.pos = p])
        /\ \A n, stops : Known(Eat(j, n)) /\ Known(Seek(j, stops))
    BY <1>1, <2>1, PosKeeps, Zenon
  <2>4. Known(KeyTo(j)) /\ Known(ValueTo(j)) /\ Known(QueueAdd(j)) /\ Known(NewAttr(j))
    BY <1>1, <2>1, AttrKeeps, QueueAddIs, NewAttrIs, Zenon DEF Free
  <2>5. Known(CheckTagParser(j)) /\ \A s : Known(Goto(j, s))
    BY <1>1, <2>2, GotoIs, Zenon DEF CheckTagParser
  <2>6. QED
    BY <2>2, <2>3, <2>4, <2>5
<1>2. ASSUME NEW j, Known(j), NEW upto, NEW type PROVE Known(CreateTextNodeIfNeed(j, upto, type))
  <2>1. Known(Tag(Type(j, {type}), Text))
    BY <1>1, <1>2, Zenon
  <2>2. \A length : Known(QueueAdd([Tag(Type(j, {type}), Text) EXCEPT !.tok.raw_length = length]))
    BY <1>1, <2>1, Zenon
  <2>3. QED
    BY <1>2, <2>2, Zenon DEF CreateTextNodeIfNeed
<1>3. ASSUME NEW j, Known(j) PROVE \A type : Known(EndText(j, type))
    BY <1>2, <1>3, Zenon DEF EndText
<1>4. Known(EndTagOpen(k)) /\ Known(EndEndTagOpen(k))
  <2>1. /\ Known(QueueAdd(CheckTagParser(Length(k))))
        /\ \A type : Known(EndText(NotSpace(k), type)) /\ Known(EndText(NotSpace(Length(k)), type))
    BY <1>1, <1>3, Zenon
  <2>2. QED
    BY <2>1 DEF EndTagOpen, EndEndTagOpen
<1>5. \A from : Known(BogusCommentFrom(k, from))
  <2>1. TAKE from
  <2>2. PICK j : j = Seek(Type(Tag([k EXCEPT !.pos = from], Comment), {"COMMENT"}), {">"})
    OBVIOUS
  <2>3. Known([k EXCEPT !.pos = from])
    BY <1>1, Zenon
  <2>4. Known(j)
    BY <1>1, <2>2, <2>3, Zenon
  <2>5. Known(CloseMarkup(Length(j)))
    BY <1>1, <2>4, Zenon DEF CloseMarkup
  <2>6. QED
    BY <2>2, <2>4, <2>5, Zenon DEF BogusCommentFrom, Stops, BogusCommentAt
<1>6. Known(EndMarkupDeclarationOpen(k))
  <2>1. ASSUME NEW j, Known(j) PROVE Known(BehindTheComment(k, j)) /\ Known(RestIsComment(k, j))
    <3>1. ASSUME NEW tag, NEW types
          PROVE  Known(QueueAdd(Length([Type(Tag(NotSpace(j), tag), types) EXCEPT !.pos = Limit(k)])))
      <4>1. Known(Type(Tag(NotSpace(j), tag), types))
        BY <1>1, <2>1, Zenon
      <4>2. Known([Type(Tag(NotSpace(j), tag), types) EXCEPT !.pos = Limit(k)])
        BY <1>1, <4>1, Zenon
      <4>3. QED
        BY <1>1, <4>2, Zenon
    <3>2. QED
      BY <2>1, <3>1, Zenon DEF BehindTheComment, RestIsComment
  <2>2. PICK j : j = BogusCommentFrom(k, Base(k) + k.tok.raw_begin)
    OBVIOUS
  <2>3. \/ EndMarkupDeclarationOpen(k) = k
        \/ EndMarkupDeclarationOpen(k) = BehindTheComment(k, j)
        \/ EndMarkupDeclarationOpen(k) = RestIsComment(k, j)
    BY <2>2 DEF EndMarkupDeclarationOpen
  <2>4. Known(j) /\ Known(k)
    BY <1>1, <1>5, <2>2, Zenon
  <2>5. QED
    BY <2>1, <2>3, <2>4, Zenon
<1>7. Known(EndCdataSection(k)) /\ Known(EndComment(k))
    BY <1>1, Zenon DEF EndCdataSection, EndComment, EndCommentEnd
<1>8. Known(EndAttribute(k))
  <2>1. /\ Known(QueueAdd(KeyTo(k))) /\ Known(NewAttr(QueueAdd(k)))
        /\ Known(NewAttr(QueueAdd(ValueTo(k)))) /\ Known(QueueAdd(Length(k))) /\ Known(QueueAdd(k))
    BY <1>1, Zenon
  <2>2. QED
    BY <2>1 DEF EndAttribute
<1>9. Known(EndDoctype(k))
  <2>1. Known(QueueAdd(KeyTo(k))) /\ Known(QueueAdd(k)) /\ Known(EndText(k, "RAWTEXT"))
    BY <1>1, <1>3, Zenon
  <2>2. QED
    BY <2>1 DEF EndDoctype
<1>10. Known(EndRcdataOrRawtext(k)) /\ Known(EndScript(k))
  <2>1. /\ Known(QueueAdd(Length(Tag(Type(k, {"RCDATA"}), Text))))
        /\ \A type : Known(EndText(k, type))
    BY <1>1, <1>3, Zenon
  <2>2. Known(EndRcdata(k)) /\ Known(EndScript(k))
    BY <2>1, Zenon DEF EndRcdata, EndScript
  <2>3. QED
    BY <2>1, <2>2 DEF EndRcdataOrRawtext
<1>11. Known(EndState(k))
  <2>1. \A type : Known(EndText(k, type))
    BY <1>3
  <2>2. QED
    BY <1>4, <1>6, <1>7, <1>8, <1>9, <1>10, <2>1 DEF EndState
<1>12. QED
    BY <1>1, <1>11, Zenon DEF End

-----------------------------------------------------------------------------
(* The tokenizer. *)

\* Nothing has been read, and no attribute is at hand.
LEMMA AttrInvInit == Init => AttrInv
<1>1. SUFFICES ASSUME NEW d, lexer = NewLexer(d) PROVE Sound(lexer) /\ Known(lexer)
    BY DEF Init, AttrInv
<1>2. IsList(FreshToken(0).attrs) /\ "attrs" \in DOMAIN FreshToken(0)
  <2>1. "attrs" \in DOMAIN FreshToken(0) /\ FreshToken(0).attrs = <<>>
    BY DEF FreshToken
  <2>2. QED
    BY <2>1, EmptySeq DEF IsList
<1>3. lexer.state = DataParser(d.fragment) /\ Free(lexer)
    BY <1>1, <1>2 DEF NewLexer, Free, Known
<1>4. DataParser(d.fragment) \notin ReadsAttr
    BY DEF DataParser, ReadsAttr
<1>5. QED
    BY <1>3, <1>4 DEF Sound, Free

\* The next chunk comes in.
LEMMA FeedSound ==
    ASSUME AttrInv, NEW size, Feed(size)
    PROVE  AttrInv'
<1>1. Sound(lexer) /\ Known(lexer)
    BY ScanSound DEF AttrInv, Feed
<1>2. \A k, chain : Sound(k) => Sound([k EXCEPT !.chain = chain])
    BY DEF Sound, Free, Bound, Known
<1>3. PICK j : j = [lexer EXCEPT !.chain = Added(lexer.chain, size)]
    OBVIOUS
<1>4. Sound(j) /\ Known(j)
    BY <1>1, <1>2, <1>3, ScanSound, Zenon
<1>5. \A p : Sound([j EXCEPT !.pos = p])
    BY <1>4, PosKeeps, ScanSound, Zenon
<1>6. lexer' = [j EXCEPT !.pos = Fed] /\ ended' = ended /\ ~ ended
  <2>1. lexer' = [lexer EXCEPT !.chain = Added(lexer.chain, size), !.pos = Fed]
    BY Zenon DEF Feed
  <2>2. [lexer EXCEPT !.chain = Added(lexer.chain, size), !.pos = Fed]
          = [[lexer EXCEPT !.chain = Added(lexer.chain, size)] EXCEPT !.pos = Fed]
    OBVIOUS
  <2>3. QED
    BY <1>3, <2>1, <2>2 DEF Feed
<1>7. Sound(lexer')
    BY <1>5, <1>6, Zenon
<1>8. QED
    BY <1>6, <1>7 DEF AttrInv

\* A turn of the loop.
LEMMA StepSound ==
    ASSUME AttrInv, Step
    PROVE  AttrInv'
<1>1. Sound(lexer) /\ ~ ended /\ ~ ended'
    BY DEF AttrInv, Step, Turn
<1>2. Sound(lexer')
  <2>1. CASE Turn(TagStates, TagFunction)
    BY <1>1, <2>1, TagStatesSound, Zenon DEF Turn
  <2>2. CASE Turn(AttributeStates, AttributeFunction)
    BY <1>1, <2>2, AttributeStatesSound, Zenon DEF Turn
  <2>3. CASE Turn(CommentStates, CommentFunction)
    BY <1>1, <2>3, CommentStatesSound, Zenon DEF Turn
  <2>4. CASE Turn(DoctypeStates, DoctypeState)
    BY <1>1, <2>4, DoctypeStatesSound, Zenon DEF Turn
  <2>5. CASE Turn(RcdataStates \cup RawtextStates, RcdataOrRawtext)
    BY <1>1, <2>5, RawStatesSound, Zenon DEF Turn
  <2>6. CASE Turn(ScriptStates, ScriptState)
    BY <1>1, <2>6, ScriptStatesSound, Zenon DEF Turn
  <2>7. CASE Turn({"PLAINTEXT"}, PlaintextState)
    BY <1>1, <2>7, PlaintextSound, Zenon DEF Turn
  <2>8. CASE Turn({"CDATA_SECTION"}, CdataSectionState)
    BY <1>1, <2>8, CdataSound, Zenon DEF Turn
  <2>9. QED
    BY <2>1, <2>2, <2>3, <2>4, <2>5, <2>6, <2>7, <2>8 DEF Step
<1>3. QED
    BY <1>1, <1>2 DEF AttrInv

\* The document ends.
LEMMA StopSound ==
    ASSUME AttrInv, Stop
    PROVE  AttrInv'
<1>1. Known(lexer)
    BY ScanSound DEF AttrInv, Stop
<1>2. \A p : Known([lexer EXCEPT !.pos = p])
    BY <1>1, PosKeeps, Zenon DEF Keeps
<1>3. Known(lexer') /\ ended' = TRUE
    BY <1>2, EndKnown, Zenon DEF Stop
<1>4. QED
    BY <1>3 DEF AttrInv

\* The inductive invariant.
THEOREM AttrInvariance == Spec => []AttrInv
<1>1. ASSUME AttrInv, [Next]_vars PROVE AttrInv'
  <2>1. CASE \E size \in 0 .. (Len(lexer.doc) - Fed) : Feed(size)
    BY <1>1, <2>1, FeedSound
  <2>2. CASE Step
    BY <1>1, <2>2, StepSound
  <2>3. CASE Stop
    BY <1>1, <2>3, StopSound
  <2>4. CASE UNCHANGED vars
    BY <1>1, <2>4 DEF vars, AttrInv, Sound, Free, Bound, Known
  <2>5. QED
    BY <1>1, <2>1, <2>2, <2>3, <2>4 DEF Next
<1>2. QED
    BY <1>1, AttrInvInit, PTL DEF Spec

\* AttrAtHand (myhtml_parser_queue_set_attr, myhtml_token_attr_create): whatever
\* the document is and wherever it is cut, an attribute is linked into the list
\* of one token, once, and is written to only while the token is at hand.
THEOREM AttrStaysAtHand == Spec => []AttrAtHand
<1>1. AttrInv => AttrAtHand
  <2>1. ASSUME Known(lexer) PROVE ~ lexer.twice
    BY <2>1 DEF Known
  <2>2. ASSUME Sound(lexer)
        PROVE  /\ Known(lexer)
               /\ lexer.held <=> lexer.state \in ReadsAttr
               /\ lexer.held => lexer.tok.attrs # <<>>
    BY <2>2 DEF Sound, Free, Bound
  <2>3. QED
    BY <2>1, <2>2 DEF AttrInv, AttrAtHand
<1>2. QED
    BY <1>1, AttrInvariance, PTL

-----------------------------------------------------------------------------
(* The smallest of a set. *)

\* A set of numbers has a smallest element.
LEMMA MinFacts ==
    ASSUME NEW I, I \subseteq Nat, I # {}
    PROVE  Min(I) \in I /\ \A i \in I : Min(I) <= i
<1>1. PICK x \in I : \A y \in I : ~ (<<y, x>> \in OpToRel(<, Nat))
    BY NatLessThanWellFounded, WFMin
<1>2. ASSUME NEW y \in I PROVE x <= y
  <2>1. x \in Nat /\ y \in Nat
    OBVIOUS
  <2>2. ~ (y < x)
    BY <1>1, <2>1 DEF OpToRel
  <2>3. QED
    BY <2>1, <2>2
<1>3. QED
    BY <1>2 DEF Min

-----------------------------------------------------------------------------
(* The walk over the chain of buffers. *)

\* What the walk has after the buffers in seq.
Walked(doc, walk, seq) ==
    FoldLeft(LAMBDA w, buffer : TakeFrom(doc, w, buffer), walk, seq)

\* It gets there in n steps.
WalkedIn(doc, walk, n, seq) ==
    \E g : /\ g[0] = walk /\ g[n] = Walked(doc, walk, seq)
           /\ \A k \in 1 .. n : g[k] = TakeFrom(doc, g[k - 1], seq[k])

\* The steps of the walk, one for each buffer.
LEMMA WalkSteps ==
    ASSUME NEW doc, NEW walk, NEW n \in Nat, NEW seq, DOMAIN seq = 1 .. n
    PROVE  WalkedIn(doc, walk, n, seq)
<1> DEFINE Value(f, s) == IF s = {} THEN walk ELSE TakeFrom(doc, f[s \ {Max(s)}], seq[Max(s)])
           Defined(k) == \E f : f = [s \in SUBSET (1 .. k) |-> Value(f, s)]
           Undefined == {k \in 0 .. n : ~ Defined(k)}
<1>1. ASSUME NEW k \in Nat, NEW s \in SUBSET (1 .. k), k \in s PROVE Max(s) = k
  <2>1. k \in s /\ \A i \in s : k >= i
    BY <1>1
  <2>2. \A x \in s : (\A i \in s : x >= i) => x = k
    BY <1>1, <2>1
  <2>3. QED
    BY <2>1, <2>2 DEF Max
<1>2. Defined(0)
  <2>1. PICK f : f = [s \in {{}} |-> walk]
    OBVIOUS
  <2>2. SUBSET (1 .. 0) = {{}}
    OBVIOUS
  <2>3. \A s \in SUBSET (1 .. 0) : Value(f, s) = walk
    BY <2>2
  <2>4. f = [s \in SUBSET (1 .. 0) |-> Value(f, s)]
    BY <2>1, <2>2, <2>3
  <2>5. QED
    BY <2>4
\* A function on the sets up to k gives one on those up to k + 1.
<1>3. ASSUME NEW k \in Nat, Defined(k) PROVE Defined(k + 1)
  <2>1. PICK f : f = [s \in SUBSET (1 .. k) |-> Value(f, s)]
    BY <1>3
  <2>2. PICK m \in Nat : m = k + 1
    OBVIOUS
  <2>3. PICK h : h = [s \in SUBSET (1 .. m) |->
                         IF m \in s THEN TakeFrom(doc, f[s \ {m}], seq[m]) ELSE f[s]]
    OBVIOUS
  <2>4. ASSUME NEW s \in SUBSET (1 .. m), m \notin s PROVE s \in SUBSET (1 .. k)
    BY <2>2, <2>4
  <2>5. ASSUME NEW s \in SUBSET (1 .. m) PROVE h[s] = Value(h, s)
    <3>1. CASE m \in s
      <4>1. Max(s) = m /\ s # {}
        BY <1>1, <3>1
      <4>2. PICK r \in SUBSET (1 .. k) : r = s \ {m}
        <5>1. \A i \in s \ {m} : i \in 1 .. k
          BY <2>2
        <5>2. s \ {m} \subseteq 1 .. k
          BY <5>1
        <5>3. QED
          BY <5>2
      <4>3. m \notin r /\ r \in SUBSET (1 .. m)
        BY <4>2
      <4>4. h[r] = f[r]
        BY <2>3, <4>3
      <4>5. h[s] = TakeFrom(doc, f[r], seq[m])
        BY <2>3, <3>1, <4>2
      <4>6. Value(h, s) = TakeFrom(doc, h[r], seq[m])
        BY <4>1, <4>2
      <4>7. QED
        BY <4>4, <4>5, <4>6
    <3>2. CASE m \notin s
      <4>1. s \in SUBSET (1 .. k)
        BY <2>4, <3>2
      <4>2. h[s] = f[s] /\ f[s] = Value(f, s)
        BY <2>1, <2>3, <3>2, <4>1
      <4>3. CASE s = {}
        BY <4>2, <4>3
      <4>4. CASE s # {}
        <5>1. PICK r : r = s \ {Max(s)}
          OBVIOUS
        <5>2. r \in SUBSET (1 .. k) /\ r \in SUBSET (1 .. m) /\ m \notin r
          BY <3>2, <4>1, <5>1
        <5>3. h[r] = f[r]
          BY <2>3, <5>2
        <5>4. /\ Value(f, s) = TakeFrom(doc, f[r], seq[Max(s)])
              /\ Value(h, s) = TakeFrom(doc, h[r], seq[Max(s)])
          BY <4>4, <5>1
        <5>5. QED
          BY <4>2, <5>3, <5>4
      <4>5. QED
        BY <4>3, <4>4
    <3>3. QED
      BY <3>1, <3>2
  <2> HIDE DEF Value
  <2>6. h = [s \in SUBSET (1 .. m) |-> Value(h, s)]
    <3>1. h = [s \in SUBSET (1 .. m) |-> h[s]]
      BY <2>3
    <3>2. QED
      BY <2>5, <3>1
  <2>7. Defined(m)
    BY <2>6
  <2>8. QED
    BY <2>2, <2>7
<1> HIDE DEF Defined
<1>4. Defined(n)
  <2>1. SUFFICES ASSUME Undefined # {} PROVE FALSE
    <3>1. n \in 0 .. n
      OBVIOUS
    <3>2. QED
      BY <2>1, <3>1
  <2>2. Undefined \subseteq Nat
    OBVIOUS
  <2>3. PICK k \in Nat : k \in Undefined /\ \A i \in Undefined : k <= i
    BY <2>1, <2>2, MinFacts
  <2>4. k # 0 /\ k \in 0 .. n /\ ~ Defined(k)
    BY <1>2, <2>3
  <2>5. PICK j \in Nat : j = k - 1 /\ j + 1 = k
    BY <2>4
  <2>6. j \in 0 .. n /\ j \notin Undefined
    BY <2>3, <2>4, <2>5
  <2>7. Defined(j)
    BY <2>6
  <2>8. QED
    BY <1>3, <2>4, <2>5, <2>7
<1>5. PICK f : f = [s \in SUBSET (1 .. n) |-> Value(f, s)] /\ Walked(doc, walk, seq) = f[1 .. n]
  <2> DEFINE iter == CHOOSE f : f = [s \in SUBSET (1 .. n) |-> Value(f, s)]
  <2>1. iter = [s \in SUBSET (1 .. n) |-> Value(iter, s)]
    <3>1. \E f : f = [s \in SUBSET (1 .. n) |-> Value(f, s)]
      BY <1>4 DEF Defined
    <3>2. QED
      BY <3>1
  <2>2. Walked(doc, walk, seq) = iter[1 .. n]
    BY DEF Walked, FoldLeft, MapThenFoldSet
  <2> HIDE DEF iter
  <2>3. QED
    BY <2>1, <2>2
<1>6. PICK g : g = [k \in 0 .. n |-> f[1 .. k]]
    OBVIOUS
<1>7. g[0] = walk
  <2>1. g[0] = f[1 .. 0] /\ 1 .. 0 = {} /\ {} \in SUBSET (1 .. n)
    BY <1>6
  <2>2. f[{}] = Value(f, {})
    BY <1>5, <2>1
  <2>3. QED
    BY <2>1, <2>2
<1>8. g[n] = Walked(doc, walk, seq)
  <2>1. g[n] = f[1 .. n]
    BY <1>6
  <2>2. f[1 .. n] = Walked(doc, walk, seq)
    BY <1>5, Zenon
  <2>3. QED
    BY <2>1, <2>2, Zenon
<1>9. ASSUME NEW k \in 1 .. n PROVE g[k] = TakeFrom(doc, g[k - 1], seq[k])
  <2>1. PICK s \in SUBSET (1 .. n) : s = 1 .. k
    OBVIOUS
  <2>2. k \in s /\ s # {} /\ s \in SUBSET (1 .. k) /\ k \in Nat
    BY <2>1
  <2>3. Max(s) = k
    BY <1>1, <2>2
  <2>4. s \ {k} = 1 .. k - 1
    BY <2>1
  <2>5. f[s] = Value(f, s)
    BY <1>5
  <2>6. f[s] = TakeFrom(doc, f[1 .. k - 1], seq[k])
    BY <2>2, <2>3, <2>4, <2>5
  <2>7. g[k] = f[s] /\ g[k - 1] = f[1 .. k - 1]
    BY <1>6, <2>1
  <2>8. QED
    BY <2>6, <2>7
<1>10. QED
    BY <1>7, <1>8, <1>9 DEF WalkedIn

(* What a buffer of the chain holds, and where in the document. *)
Buffer == [size : Nat, offset : Nat]

EndOf(buffer) == buffer.offset + buffer.size

(* The buffers lie one behind the other, and inside of the document. *)
Chained(chain, doc) ==
    /\ doc \in Seq(STRING)
    /\ chain \in Seq(Buffer)
    /\ chain # <<>> => chain[1].offset = 0 /\ EndOf(chain[Len(chain)]) <= Len(doc)
    /\ \A i \in 1 .. Len(chain) - 1 : chain[i + 1].offset = EndOf(chain[i])

\* A buffer ends before a later one begins.
LEMMA BuffersInOrder ==
    ASSUME NEW doc, NEW chain, Chained(chain, doc)
    PROVE  /\ Len(chain) \in Nat
           /\ \A i \in 1 .. Len(chain) : /\ chain[i] \in Buffer
                                         /\ EndOf(chain[i]) \in Nat
                                         /\ EndOf(chain[i]) <= EndOf(chain[Len(chain)])
<1>1. Len(chain) \in Nat /\ \A i \in 1 .. Len(chain) : chain[i] \in Buffer /\ EndOf(chain[i]) \in Nat
  <2>1. Len(chain) \in Nat /\ \A i \in 1 .. Len(chain) : chain[i] \in Buffer
    BY ElementOfSeq, LenProperties DEF Chained
  <2>2. QED
    BY <2>1 DEF EndOf, Buffer
<1> DEFINE n == Len(chain)
           Bad == {d \in Nat : d < n /\ ~ (EndOf(chain[n - d]) <= EndOf(chain[n]))}
<1>2. Bad = {}
  <2>1. SUFFICES ASSUME Bad # {} PROVE FALSE
    OBVIOUS
  <2>2. PICK d \in Nat : d \in Bad /\ \A e \in Bad : d <= e
    BY <2>1, MinFacts
  <2>3. d # 0
    BY <1>1, <2>2
  <2>4. PICK e \in Nat : e + 1 = d
    BY <2>3
  <2>5. e \notin Bad /\ e < n
    BY <1>1, <2>2, <2>4
  <2>6. EndOf(chain[n - e]) <= EndOf(chain[n])
    BY <2>4, <2>5
  <2>7. PICK i \in 1 .. n - 1 : i = n - d /\ i + 1 = n - e
    <3>1. d \in Nat /\ d < n /\ e \in Nat /\ e + 1 = d /\ n \in Nat
      BY <1>1, <2>2, <2>4
    <3>2. n - d \in 1 .. n - 1 /\ (n - d) + 1 = n - e
      BY ONLY <3>1
    <3>3. QED
      BY <3>2
  <2>8. chain[i + 1].offset = EndOf(chain[i])
    BY <2>7 DEF Chained
  <2>9. EndOf(chain[i]) <= EndOf(chain[i + 1])
    <3>1. chain[i + 1] \in Buffer /\ i \in 1 .. n /\ i + 1 \in 1 .. n
      BY <1>1, <2>7
    <3>2. EndOf(chain[i + 1]) = chain[i + 1].offset + chain[i + 1].size
      BY DEF EndOf
    <3>3. QED
      BY <1>1, <2>8, <3>1, <3>2 DEF Buffer
  <2>10. EndOf(chain[i]) <= EndOf(chain[n])
    <3>1. EndOf(chain[i]) \in Nat /\ EndOf(chain[i + 1]) \in Nat /\ EndOf(chain[n]) \in Nat
      <4>1. n \in Nat /\ i \in Nat /\ 1 <= i /\ i <= n - 1
        BY <1>1, <2>7
      <4>2. i \in 1 .. n /\ i + 1 \in 1 .. n /\ n \in 1 .. n
        BY ONLY <4>1
      <4>3. QED
        BY <1>1, <4>2
    <3>2. EndOf(chain[i + 1]) <= EndOf(chain[n])
      BY <2>6, <2>7
    <3>3. QED
      BY <2>9, <3>1, <3>2
  <2>11. QED
    BY <2>2, <2>7, <2>10
<1>3. ASSUME NEW i \in 1 .. n PROVE EndOf(chain[i]) <= EndOf(chain[n])
  <2>1. n - i \in Nat /\ n - i < n /\ n - (n - i) = i
    BY <1>1
  <2>2. n - i \notin Bad
    BY <1>2
  <2>3. QED
    BY <2>1, <2>2
<1>4. QED
    BY <1>1, <1>3

\* A position inside of what has come in is found, in a buffer that has it.
LEMMA PositionFound ==
    ASSUME NEW doc, NEW chain, Chained(chain, doc), chain # <<>>,
           NEW begin \in Nat, begin <= EndOf(chain[Len(chain)])
    PROVE  /\ FindByPosition(chain, begin) \in 1 .. Len(chain)
           /\ chain[FindByPosition(chain, begin)].offset <= begin
           /\ begin <= EndOf(chain[FindByPosition(chain, begin)])
<1>1. PICK n \in Nat : n = Len(chain) /\ n # 0 /\ DOMAIN chain = 1 .. n
    BY LenProperties, EmptySeq DEF Chained
<1>2. /\ chain[1].offset = 0
      /\ \A i \in 1 .. n : chain[i] \in Buffer /\ EndOf(chain[i]) \in Nat
      /\ 1 \in 1 .. n
    BY <1>1, BuffersInOrder DEF Chained
<1>3. CASE begin = 0
  <2>1. FindByPosition(chain, begin) = 1
    BY <1>2, <1>3 DEF FindByPosition
  <2>2. QED
    BY <1>1, <1>2, <1>3, <2>1
<1>4. CASE begin # 0
  <2>1. PICK reach : reach = {i \in DOMAIN chain : chain[i].offset + chain[i].size >= begin}
    OBVIOUS
  <2>2. reach = {i \in 1 .. n : EndOf(chain[i]) >= begin}
    BY <1>1, <2>1 DEF EndOf
  <2>3. n \in reach /\ reach \subseteq Nat
    BY <1>1, <1>2, <2>2
  <2>4. PICK first : first = Min(reach)
    OBVIOUS
  <2>5. first \in reach /\ \A i \in reach : first <= i
    BY <2>3, <2>4, MinFacts
  <2>6. FindByPosition(chain, begin) = first
    <3>1. 0 < begin /\ reach # {}
      BY <1>4, <2>3
    <3>2. QED
      BY <1>2, <2>1, <2>4, <3>1 DEF FindByPosition
  <2>7. chain[first].offset <= begin
    <3>1. CASE first = 1
      BY <1>2, <1>4, <3>1
    <3>2. CASE first # 1
      <4>1. PICK i \in 1 .. n - 1 : i + 1 = first
        BY <1>1, <2>2, <2>5, <3>2
      <4>2. i \notin reach /\ i \in 1 .. n
        BY <2>5, <4>1
      <4>3. chain[first].offset = EndOf(chain[i])
        BY <1>1, <4>1 DEF Chained
      <4>4. QED
        BY <1>2, <2>2, <4>2, <4>3
    <3>3. QED
      BY <3>1, <3>2
  <2>8. QED
    BY <1>1, <2>2, <2>5, <2>6, <2>7
<1>5. QED
    BY <1>3, <1>4

(* The walk has come to a position: of the text from begin to end it has
   taken what there is up to there. *)
Taken(doc, walk, begin, end, upto) ==
    LET to == IF upto < end THEN upto ELSE end
    IN  /\ walk.text = SubSeq(doc, begin + 1, to)
        /\ walk.length = end - to
        /\ walk.relative_begin = 0

\* One buffer of the walk, the first or one behind it.
LEMMA TakenOn ==
    ASSUME NEW doc \in Seq(STRING), NEW begin \in Nat, NEW end \in Nat, begin <= end, end <= Len(doc),
           NEW buffer \in Buffer, EndOf(buffer) <= Len(doc), NEW walk
    PROVE  /\ /\ walk = [text |-> <<>>, length |-> end - begin, relative_begin |-> begin - buffer.offset]
              /\ buffer.offset <= begin /\ begin <= EndOf(buffer)
              => Taken(doc, TakeFrom(doc, walk, buffer), begin, end, EndOf(buffer))
           /\ begin <= buffer.offset /\ Taken(doc, walk, begin, end, buffer.offset)
              => Taken(doc, TakeFrom(doc, walk, buffer), begin, end, EndOf(buffer))
<1>1. PICK o \in Nat, z \in Nat : buffer.offset = o /\ buffer.size = z /\ EndOf(buffer) = o + z
    BY DEF Buffer, EndOf
<1>2. PICK m \in Nat : m = Len(doc)
    BY LenProperties
<1>3. PICK w : w = TakeFrom(doc, walk, buffer)
    OBVIOUS
<1>4. ASSUME walk = [text |-> <<>>, length |-> end - begin, relative_begin |-> begin - o],
             o <= begin, begin <= o + z
      PROVE  Taken(doc, w, begin, end, o + z)
  <2>1. PICK size \in Nat : size = IF o + z < end THEN o + z - begin ELSE end - begin
    <3>1. o + z - begin \in Nat /\ end - begin \in Nat
      BY <1>4
    <3>2. QED
      BY <3>1
  <2>2. size = IF walk.relative_begin + walk.length > buffer.size
               THEN buffer.size - walk.relative_begin ELSE walk.length
    BY <1>1, <1>4, <2>1
  <2>3. o + walk.relative_begin = begin
    BY <1>4
  <2>4. /\ w.text = <<>> \o SubSeq(doc, begin + 1, begin + size)
        /\ w.length = end - begin - size
        /\ w.relative_begin = 0
    BY <1>1, <1>3, <1>4, <2>2, <2>3 DEF TakeFrom
  <2>5. SubSeq(doc, begin + 1, begin + size) \in Seq(STRING)
    <3>1. \A i \in begin + 1 .. begin + size : doc[i] \in STRING
      <4>1. begin + size <= m
        BY <1>1, <1>2, <1>4, <2>1
      <4>2. QED
        BY <1>2, <4>1, ElementOfSeq
    <3>2. QED
      BY <3>1, SubSeqProperties
  <2>6. w.text = SubSeq(doc, begin + 1, begin + size)
    BY <2>4, <2>5, ConcatEmptySeq
  <2>7. QED
    BY <2>1, <2>4, <2>6 DEF Taken
<1>5. ASSUME begin <= o, Taken(doc, walk, begin, end, o)
      PROVE  Taken(doc, w, begin, end, o + z)
  <2>1. CASE o < end
    <3>1. walk.text = SubSeq(doc, begin + 1, o) /\ walk.length = end - o /\ walk.relative_begin = 0
      BY <1>5, <2>1 DEF Taken
    <3>2. PICK size \in Nat : size = IF o + z < end THEN z ELSE end - o
      <4>1. end - o \in Nat
        BY <2>1
      <4>2. QED
        BY <4>1
    <3>3. size = IF walk.relative_begin + walk.length > buffer.size
                 THEN buffer.size - walk.relative_begin ELSE walk.length
      BY <1>1, <2>1, <3>1, <3>2
    <3>4. /\ w.text = SubSeq(doc, begin + 1, o) \o SubSeq(doc, o + 1, o + size)
          /\ w.length = end - o - size
          /\ w.relative_begin = 0
      BY <1>1, <1>3, <3>1, <3>3, SMTT(30) DEF TakeFrom
    <3>5. w.text = SubSeq(doc, begin + 1, o + size)
      <4>1. begin + 1 \in 1 .. m + 1 /\ o \in (begin + 1) - 1 .. m /\ o + size \in o .. m
        BY <1>1, <1>2, <1>5, <2>1, <3>2
      <4>2. QED
        BY <1>2, <3>4, <4>1, ConcatAdjacentSubSeq
    <3>6. QED
      BY <2>1, <3>2, <3>4, <3>5 DEF Taken
  <2>2. CASE ~ (o < end)
    <3>1. walk.text = SubSeq(doc, begin + 1, end) /\ walk.length = 0 /\ walk.relative_begin = 0
      BY <1>5, <2>2 DEF Taken
    <3>2. /\ w.text = SubSeq(doc, begin + 1, end) \o SubSeq(doc, o + 1, o)
          /\ w.length = 0
          /\ w.relative_begin = 0
      <4>1. PICK from, size : /\ from = buffer.offset + walk.relative_begin
                              /\ size = IF walk.relative_begin + walk.length > buffer.size
                                        THEN buffer.size - walk.relative_begin ELSE walk.length
        OBVIOUS
      <4>2. from = o /\ size = 0 /\ from + size = o
        BY <1>1, <3>1, <4>1
      <4>3. w = [text |-> walk.text \o SubSeq(doc, from + 1, from + size),
                 length |-> walk.length - size, relative_begin |-> 0]
        BY <1>3, <4>1 DEF TakeFrom
      <4>4. QED
        BY <3>1, <4>2, <4>3
    <3>3. SubSeq(doc, o + 1, o) = <<>>
      BY SubSeqEmpty
    <3>4. SubSeq(doc, begin + 1, end) \in Seq(STRING)
      <4>1. \A i \in begin + 1 .. end : doc[i] \in STRING
        BY <1>2, ElementOfSeq
      <4>2. QED
        BY <4>1, SubSeqProperties
    <3>5. w.text = SubSeq(doc, begin + 1, end)
      BY <3>2, <3>3, <3>4, ConcatEmptySeq
    <3>6. QED
      BY <2>2, <3>2, <3>5 DEF Taken
  <2>3. QED
    BY <2>1, <2>2
<1>6. QED
    BY <1>1, <1>3, <1>4, <1>5

\* Whatever the chunks are, the text of a place that has come in is what the
\* document has there (myhtml_incomming_buffer's walk in the readers of tokens).
THEOREM ChainReads ==
    ASSUME NEW doc, NEW chain, Chained(chain, doc), chain # <<>>,
           NEW begin \in Nat, NEW length \in Nat, begin + length <= EndOf(chain[Len(chain)])
    PROVE  MakeData(doc, chain, begin, length) = SubSeq(doc, begin + 1, begin + length)
<1>1. PICK n \in Nat : n = Len(chain)
    BY BuffersInOrder
<1>2. PICK end \in Nat : end = begin + length /\ begin <= end
    OBVIOUS
<1>3. PICK first : first = FindByPosition(chain, begin)
    OBVIOUS
<1>4. /\ first \in 1 .. n
      /\ chain[first].offset <= begin /\ begin <= EndOf(chain[first])
  <2>1. begin <= EndOf(chain[n])
    <3>1. EndOf(chain[n]) \in Nat
      <4>1. n # 0
        BY <1>1, EmptySeq DEF Chained
      <4>2. QED
        BY <1>1, <4>1, BuffersInOrder
    <3>2. QED
      BY <1>1, <3>1
  <2>2. QED
    BY <1>1, <1>3, <2>1, PositionFound
<1>5. PICK m \in Nat : m = n - first + 1 /\ m # 0
    BY <1>4
<1>6. PICK seq : seq = SubSeq(chain, first, n)
    OBVIOUS
<1>7. DOMAIN seq = 1 .. m /\ \A k \in 1 .. m : seq[k] = chain[first + k - 1]
  <2>1. \A i \in first .. n : chain[i] \in Buffer
    BY <1>1, <1>4, BuffersInOrder
  <2>2. /\ seq \in Seq(Buffer) /\ Len(seq) = m
        /\ \A i \in 1 .. n - first + 1 : seq[i] = chain[first + i - 1]
    BY <1>4, <1>5, <1>6, <2>1, SubSeqProperties
  <2>3. QED
    BY <1>5, <2>2, LenProperties
<1>8. PICK start : start = [text |-> <<>>, length |-> length,
                            relative_begin |-> begin - chain[first].offset]
    OBVIOUS
<1>9. MakeData(doc, chain, begin, length) = Walked(doc, start, seq).text
    BY <1>1, <1>3, <1>6, <1>8 DEF MakeData, Walked
<1>10. PICK g : /\ g[0] = start /\ g[m] = Walked(doc, start, seq)
                /\ \A k \in 1 .. m : g[k] = TakeFrom(doc, g[k - 1], seq[k])
  <2>1. WalkedIn(doc, start, m, seq)
    BY <1>7, WalkSteps
  <2>2. QED
    BY <2>1 DEF WalkedIn
<1> DEFINE Good(k) == Taken(doc, g[k], begin, end, EndOf(chain[first + k - 1]))
           Bad == {k \in 1 .. m : ~ Good(k)}
<1>11. \A i \in 1 .. n : chain[i] \in Buffer /\ EndOf(chain[i]) \in Nat /\ EndOf(chain[i]) <= Len(doc)
  <2>1. Len(doc) \in Nat /\ EndOf(chain[n]) <= Len(doc)
    BY <1>1, LenProperties DEF Chained
  <2>2. \A i \in 1 .. n : chain[i] \in Buffer /\ EndOf(chain[i]) \in Nat /\ EndOf(chain[i]) <= EndOf(chain[n])
    BY <1>1, BuffersInOrder
  <2>3. n \in 1 .. n
    BY <1>4
  <2>4. QED
    BY <2>1, <2>2, <2>3
<1>12. end <= EndOf(chain[n]) /\ end <= Len(doc) /\ doc \in Seq(STRING)
  <2>1. Len(doc) \in Nat /\ EndOf(chain[n]) <= Len(doc) /\ doc \in Seq(STRING)
    BY <1>1, LenProperties DEF Chained
  <2>2. n \in 1 .. n
    BY <1>4
  <2>3. QED
    BY <1>1, <1>2, <1>11, <2>1, <2>2
<1>13. Good(1)
  <2>1. chain[first] \in Buffer /\ EndOf(chain[first]) <= Len(doc)
    BY <1>4, <1>11
  <2>2. start = [text |-> <<>>, length |-> end - begin, relative_begin |-> begin - chain[first].offset]
    BY <1>2, <1>8
  <2>3. Taken(doc, TakeFrom(doc, start, chain[first]), begin, end, EndOf(chain[first]))
    BY <1>2, <1>4, <1>12, <2>1, <2>2, TakenOn
  <2>4. 1 \in 1 .. m /\ 1 - 1 = 0 /\ first + 1 - 1 = first
    BY <1>4, <1>5
  <2>5. g[1] = TakeFrom(doc, g[0], seq[1]) /\ seq[1] = chain[first]
    BY <1>7, <1>10, <2>4
  <2>6. g[1] = TakeFrom(doc, start, chain[first])
    BY <1>10, <2>5
  <2>7. QED
    BY <2>3, <2>4, <2>6
<1>14. ASSUME NEW k \in 1 .. m, k + 1 \in 1 .. m, Good(k) PROVE Good(k + 1)
  <2>1. PICK i \in 1 .. n - 1 : i = first + k - 1 /\ i + 1 = first + (k + 1) - 1
    BY <1>4, <1>5, <1>14
  <2>2. chain[i + 1] \in Buffer /\ EndOf(chain[i + 1]) <= Len(doc) /\ chain[i + 1].offset = EndOf(chain[i])
    BY <1>1, <1>11, <2>1 DEF Chained
  <2>3. Taken(doc, g[k], begin, end, chain[i + 1].offset)
    BY <1>14, <2>1, <2>2
  <2>4. begin <= chain[i + 1].offset
    <3>1. \A j \in 1 .. n : j >= first => begin <= EndOf(chain[j])
      <4>1. SUFFICES ASSUME NEW j \in 1 .. n, j >= first, ~ (begin <= EndOf(chain[j])) PROVE FALSE
        OBVIOUS
      <4>2. PICK D : D = {d \in Nat : first + d <= n /\ ~ (begin <= EndOf(chain[first + d]))}
        OBVIOUS
      <4>3. j - first \in D
        BY <1>4, <4>1, <4>2
      <4>4. PICK d \in Nat : d \in D /\ \A e \in D : d <= e
        <5>1. D \subseteq Nat
          BY <4>2
        <5>2. QED
          BY <4>3, <5>1, MinFacts
      <4>5. d # 0
        BY <1>4, <4>2, <4>4
      <4>6. PICK e \in Nat : e + 1 = d
        BY <4>5
      <4>7. e \notin D /\ first + e <= n
        BY <1>4, <4>2, <4>4, <4>6
      <4>8. begin <= EndOf(chain[first + e])
        BY <4>2, <4>7
      <4>9. PICK h \in 1 .. n - 1 : h = first + e /\ h + 1 = first + d
        BY <1>4, <4>2, <4>4, <4>6
      <4>10. chain[h + 1].offset = EndOf(chain[h]) /\ chain[h + 1] \in Buffer
        BY <1>1, <1>11, <4>9, SMTT(30) DEF Chained
      <4>11. EndOf(chain[h]) <= EndOf(chain[h + 1])
        <5>1. EndOf(chain[h + 1]) = chain[h + 1].offset + chain[h + 1].size
          BY DEF EndOf
        <5>2. chain[h + 1].size \in Nat /\ chain[h + 1].offset \in Nat
          BY <4>10 DEF Buffer
        <5>3. QED
          BY <4>10, <5>1, <5>2
      <4>12. begin <= EndOf(chain[h + 1])
        <5>1. EndOf(chain[h]) \in Nat /\ EndOf(chain[h + 1]) \in Nat
          BY <1>11, <4>9
        <5>2. QED
          BY <4>8, <4>9, <4>11, <5>1
      <4>13. QED
        BY <4>2, <4>4, <4>9, <4>12
    <3>2. QED
      BY <1>4, <2>1, <2>2, <3>1
  <2>5. Taken(doc, TakeFrom(doc, g[k], chain[i + 1]), begin, end, EndOf(chain[i + 1]))
    BY <1>2, <1>12, <2>2, <2>3, <2>4, TakenOn
  <2>6. g[k + 1] = TakeFrom(doc, g[k], chain[i + 1])
    <3>1. g[k + 1] = TakeFrom(doc, g[(k + 1) - 1], seq[k + 1]) /\ seq[k + 1] = chain[first + (k + 1) - 1]
      BY <1>7, <1>10, <1>14
    <3>2. (k + 1) - 1 = k
      OBVIOUS
    <3>3. QED
      BY <2>1, <3>1, <3>2
  <2>7. QED
    BY <2>1, <2>5, <2>6
<1> HIDE DEF Good
<1>15. Bad = {}
  <2>1. SUFFICES ASSUME Bad # {} PROVE FALSE
    OBVIOUS
  <2>2. PICK k \in Nat : k \in Bad /\ \A j \in Bad : k <= j
    <3>1. Bad \subseteq Nat
      BY <1>5
    <3>2. QED
      BY <2>1, <3>1, MinFacts
  <2>3. k # 1
    BY <1>13, <2>2
  <2>4. PICK j \in 1 .. m : j + 1 = k
    BY <2>2, <2>3
  <2>5. j \notin Bad
    BY <2>2, <2>4
  <2>6. QED
    BY <1>14, <2>2, <2>4, <2>5
<1>16. Good(m)
    BY <1>5, <1>15
<1>17. Taken(doc, g[m], begin, end, EndOf(chain[n]))
  <2>1. first + m - 1 = n
    BY <1>4, <1>5
  <2>2. QED
    BY <1>16, <2>1 DEF Good
<1>18. g[m].text = SubSeq(doc, begin + 1, end)
  <2>1. EndOf(chain[n]) \in Nat
    BY <1>4, <1>11
  <2>2. (IF EndOf(chain[n]) < end THEN EndOf(chain[n]) ELSE end) = end
    BY <1>12, <2>1
  <2>3. QED
    BY <1>17, <2>2 DEF Taken
<1>19. QED
    BY <1>2, <1>9, <1>10, <1>18

-----------------------------------------------------------------------------
(* The places of attributes and tokens. *)

(* An attribute has the places of its key and of its value. *)
AttrShape == [key_begin : Nat, key_length : Nat, value_begin : Nat, value_length : Nat]

(* Nothing of an attribute, of a list of them, lies behind a position. *)
AttrUpTo(a, n) ==
    /\ a \in AttrShape
    /\ a.key_begin + a.key_length <= n
    /\ a.value_begin + a.value_length <= n

AttrsUpTo(s, n) == IsList(s) /\ \A i \in DOMAIN s : AttrUpTo(s[i], n)

(* Where a token ends; it does so not behind e, its attributes not behind n. *)
TokenEnd(token) == token.raw_begin + token.raw_length

TokenUpTo(token, e, n) ==
    /\ token.raw_begin \in Nat /\ token.raw_length \in Nat
    /\ TokenEnd(token) <= e
    /\ AttrsUpTo(token.attrs, n)

(* Tokens in the order of the document, none behind e, their attributes not
   behind n. *)
QueueUpTo(out, e, n) ==
    /\ IsList(out)
    /\ \A i \in DOMAIN out : TokenUpTo(out[i], e, n)
    /\ \A i \in 2 .. Len(out) : TokenEnd(out[i - 1]) <= out[i].raw_begin

\* A list is a function on its indices.
LEMMA ListLen ==
    ASSUME NEW s, IsList(s)
    PROVE  /\ Len(s) \in Nat /\ DOMAIN s = 1 .. Len(s)
           /\ s # <<>> => Len(s) \in DOMAIN s
           /\ \A a : /\ Len(Append(s, a)) = Len(s) + 1
                     /\ DOMAIN Append(s, a) = 1 .. Len(s) + 1
                     /\ \A i \in DOMAIN s : Append(s, a)[i] = s[i]
                     /\ Append(s, a)[Len(s) + 1] = a
<1>1. Len(s) \in Nat /\ DOMAIN s = 1 .. Len(s)
    BY LenProperties DEF IsList
<1>2. s # <<>> => Len(s) \in DOMAIN s
    BY <1>1, EmptySeq DEF IsList
<1>3. ASSUME NEW a
      PROVE  /\ Len(Append(s, a)) = Len(s) + 1
             /\ DOMAIN Append(s, a) = 1 .. Len(s) + 1
             /\ \A i \in DOMAIN s : Append(s, a)[i] = s[i]
             /\ Append(s, a)[Len(s) + 1] = a
  <2>1. PICK T : T = Range(s) \cup {a}
    OBVIOUS
  <2>2. s \in Seq(T) /\ a \in T
    <3>1. \A i \in 1 .. Len(s) : s[i] \in T
      BY <1>1, <2>1 DEF Range
    <3>2. s \in Seq(Range(s))
      BY DEF IsList
    <3>3. QED
      BY <1>1, <2>1, <3>2
  <2>3. Append(s, a) \in Seq(T) /\ Len(Append(s, a)) = Len(s) + 1
    BY <2>2, AppendProperties
  <2>4. \A i \in 1 .. Len(s) : Append(s, a)[i] = s[i]
    BY <2>2, AppendProperties
  <2>5. Append(s, a)[Len(s) + 1] = a
    BY <2>2, AppendProperties
  <2>6. DOMAIN Append(s, a) = 1 .. Len(s) + 1
    BY <2>3, LenProperties
  <2>7. QED
    BY <1>1, <2>3, <2>4, <2>5, <2>6
<1>4. QED
    BY <1>1, <1>2, <1>3

\* What is not behind a position is not behind a later one.
LEMMA UpToLater ==
    ASSUME NEW n \in Nat, NEW m \in Nat, n <= m
    PROVE  /\ \A a : AttrUpTo(a, n) => AttrUpTo(a, m)
           /\ \A s : AttrsUpTo(s, n) => AttrsUpTo(s, m)
           /\ \A out : \A e, f \in Nat : e <= f /\ QueueUpTo(out, e, n) => QueueUpTo(out, f, m)
<1>1. \A a : AttrUpTo(a, n) => AttrUpTo(a, m)
    BY DEF AttrUpTo, AttrShape
<1>2. \A s : AttrsUpTo(s, n) => AttrsUpTo(s, m)
    BY <1>1 DEF AttrsUpTo
<1>3. ASSUME NEW out, NEW e \in Nat, NEW f \in Nat, e <= f, QueueUpTo(out, e, n)
      PROVE  QueueUpTo(out, f, m)
  <2>1. ASSUME NEW i \in DOMAIN out PROVE TokenUpTo(out[i], f, m)
    <3>1. TokenUpTo(out[i], e, n)
      BY <1>3, <2>1 DEF QueueUpTo
    <3>2. QED
      BY <1>2, <1>3, <3>1 DEF TokenUpTo, TokenEnd
  <2>2. QED
    BY <1>3, <2>1 DEF QueueUpTo
<1>4. QED
    BY <1>1, <1>2, <1>3

\* Another attribute in a list, behind the others or in the place of the last.
LEMMA AttrsPlaced ==
    ASSUME NEW s, NEW n, AttrsUpTo(s, n)
    PROVE  /\ \A a : AttrUpTo(a, n) => /\ AttrsUpTo(Append(s, a), n) /\ Append(s, a) # <<>>
                                       /\ Append(s, a)[Len(Append(s, a))] = a
           /\ s # <<>> => /\ AttrUpTo(s[Len(s)], n)
                          /\ \A a : AttrUpTo(a, n) =>
                                /\ AttrsUpTo([s EXCEPT ![Len(s)] = a], n)
                                /\ [s EXCEPT ![Len(s)] = a] # <<>>
                                /\ [s EXCEPT ![Len(s)] = a][Len([s EXCEPT ![Len(s)] = a])] = a
<1>1. /\ IsList(s) /\ Len(s) \in Nat /\ DOMAIN s = 1 .. Len(s)
      /\ \A i \in DOMAIN s : AttrUpTo(s[i], n)
    BY ListLen DEF AttrsUpTo
<1>2. ASSUME NEW a, AttrUpTo(a, n)
      PROVE  /\ AttrsUpTo(Append(s, a), n) /\ Append(s, a) # <<>>
             /\ Append(s, a)[Len(Append(s, a))] = a
  <2>1. IsList(Append(s, a)) /\ Append(s, a) # <<>>
    BY <1>1, ListIs
  <2>2. /\ Len(Append(s, a)) = Len(s) + 1
        /\ DOMAIN Append(s, a) = 1 .. Len(s) + 1
        /\ \A i \in DOMAIN s : Append(s, a)[i] = s[i]
        /\ Append(s, a)[Len(s) + 1] = a
    BY <1>1, ListLen
  <2>3. ASSUME NEW i \in 1 .. Len(s) + 1 PROVE AttrUpTo(Append(s, a)[i], n)
    <3>1. i \in DOMAIN s \/ i = Len(s) + 1
      BY <1>1
    <3>2. QED
      BY <1>1, <1>2, <2>2, <3>1
  <2>4. QED
    BY <2>1, <2>2, <2>3 DEF AttrsUpTo
<1>3. ASSUME s # <<>> PROVE AttrUpTo(s[Len(s)], n)
    BY <1>1, <1>3, ListLen
<1>4. ASSUME s # <<>>, NEW a, AttrUpTo(a, n)
      PROVE  /\ AttrsUpTo([s EXCEPT ![Len(s)] = a], n)
             /\ [s EXCEPT ![Len(s)] = a] # <<>>
             /\ [s EXCEPT ![Len(s)] = a][Len([s EXCEPT ![Len(s)] = a])] = a
  <2>1. PICK t : t = [s EXCEPT ![Len(s)] = a]
    OBVIOUS
  <2>2. IsList(t) /\ t # <<>>
    BY <1>1, <1>4, <2>1, ListIs
  <2>3. DOMAIN t = DOMAIN s /\ Len(s) \in DOMAIN s
    BY <1>1, <1>4, <2>1, ListLen
  <2>4. Len(t) = Len(s)
    <3>1. Len(t) \in Nat /\ 1 .. Len(t) = 1 .. Len(s)
      BY <1>1, <2>2, <2>3, ListLen
    <3>2. QED
      BY <1>1, <2>3, <3>1
  <2>5. \A i \in DOMAIN t : AttrUpTo(t[i], n)
    BY <1>1, <1>4, <2>1, <2>3
  <2>6. t[Len(t)] = a
    BY <2>1, <2>3, <2>4
  <2>7. QED
    BY <2>1, <2>2, <2>5, <2>6 DEF AttrsUpTo
<1>5. QED
    BY <1>2, <1>3, <1>4

\* A token behind those of a queue.
LEMMA QueuePlaced ==
    ASSUME NEW out, NEW e \in Nat, NEW n \in Nat, QueueUpTo(out, e, n),
           NEW token, NEW f \in Nat, TokenUpTo(token, f, n), e <= token.raw_begin
    PROVE  QueueUpTo(Append(out, token), f, n)
<1>1. PICK r : r = Append(out, token)
    OBVIOUS
<1>2. PICK c \in Nat : c = Len(out) /\ DOMAIN out = 1 .. c
    BY ListLen DEF QueueUpTo
<1>3. /\ Len(r) = c + 1 /\ DOMAIN r = 1 .. c + 1
      /\ \A i \in 1 .. c : r[i] = out[i]
      /\ r[c + 1] = token
    BY <1>1, <1>2, ListLen DEF QueueUpTo
<1>4. IsList(r)
    BY <1>1, ListIs DEF QueueUpTo
<1>5. e <= f
    BY DEF TokenUpTo, TokenEnd
<1>6. \A i \in 1 .. c : TokenUpTo(out[i], e, n)
    BY <1>2 DEF QueueUpTo
<1>7. ASSUME NEW i \in 1 .. c + 1 PROVE TokenUpTo(r[i], f, n)
  <2>1. CASE i = c + 1
    BY <1>3, <2>1
  <2>2. CASE i # c + 1
    <3>1. i \in 1 .. c
      BY <2>2
    <3>2. TokenUpTo(out[i], f, n)
      BY <1>5, <1>6, <3>1 DEF TokenUpTo, TokenEnd
    <3>3. QED
      BY <1>3, <3>1, <3>2
  <2>3. QED
    BY <2>1, <2>2
<1>8. ASSUME NEW i \in 2 .. c + 1 PROVE TokenEnd(r[i - 1]) <= r[i].raw_begin
  <2>1. i - 1 \in 1 .. c /\ r[i - 1] = out[i - 1]
    BY <1>3
  <2>2. CASE i = c + 1
    <3>1. TokenUpTo(out[i - 1], e, n)
      BY <1>6, <2>1
    <3>2. QED
      BY <1>3, <2>1, <2>2, <3>1 DEF TokenUpTo, TokenEnd
  <2>3. CASE i # c + 1
    <3>1. i \in 2 .. c /\ i \in 1 .. c
      BY <2>3
    <3>2. TokenEnd(out[i - 1]) <= out[i].raw_begin
      BY <1>2, <3>1 DEF QueueUpTo
    <3>3. QED
      BY <1>3, <2>1, <3>1, <3>2
  <2>4. QED
    BY <2>2, <2>3
<1>9. QED
    BY <1>1, <1>3, <1>4, <1>7, <1>8 DEF QueueUpTo

-----------------------------------------------------------------------------
(* Lexers whose spans are where they have to be. *)

(* A lexer has these fields. *)
Shaped(k) ==
    /\ {"doc", "chain", "pos", "state", "tok", "attr", "held", "out"} \subseteq DOMAIN k
    /\ {"tag", "raw_begin", "raw_length", "mark", "attrs"} \subseteq DOMAIN k.tok

(* As much of the document has come in. *)
Arrived(k) == IF k.chain = <<>> THEN 0 ELSE Limit(k)

(* With the lexer at p: the token at hand begins behind the queued ones,
   and what is known of it and of the attributes does not lie behind p. *)
PlacedAt(k, p) ==
    /\ Shaped(k)
    /\ Chained(k.chain, k.doc)
    /\ p \in Nat /\ p <= Arrived(k)
    /\ TokenUpTo(k.tok, p, p)
    /\ k.tok.mark \in Nat
    /\ AttrUpTo(k.attr, p)
    /\ k.attr.key_length = 0
    /\ QueueUpTo(k.out, k.tok.raw_begin, p)

Placed(k) == PlacedAt(k, k.pos)
Ready(k)  == Placed(k) /\ k.chain # <<>> /\ k.pos < Limit(k)
Blank(k)  == Ready(k) /\ k.tok.raw_length = 0

(* From k to j nothing that a span could depend on is changed. *)
Same(k, j) ==
    /\ Shaped(j)
    /\ j.doc = k.doc /\ j.chain = k.chain /\ j.pos = k.pos /\ j.out = k.out
    /\ j.attr = k.attr /\ j.held = k.held
    /\ j.tok.raw_begin = k.tok.raw_begin /\ j.tok.raw_length = k.tok.raw_length
    /\ j.tok.mark = k.tok.mark /\ j.tok.attrs = k.tok.attrs

\* What has come in is a part of the document.
LEMMA ArrivedIs ==
    ASSUME NEW k, Chained(k.chain, k.doc)
    PROVE  /\ Arrived(k) \in Nat /\ Arrived(k) <= Len(k.doc) /\ Len(k.doc) \in Nat
           /\ k.chain # <<>> => /\ Limit(k) = EndOf(k.chain[Len(k.chain)])
                                /\ Limit(k) = Arrived(k)
<1>1. Len(k.doc) \in Nat
    BY LenProperties DEF Chained
<1>2. CASE k.chain = <<>>
    BY <1>1, <1>2 DEF Arrived
<1>3. CASE k.chain # <<>>
  <2>1. PICK n \in Nat : n = Len(k.chain) /\ n # 0
    BY <1>3, EmptySeq, LenProperties DEF Chained
  <2>2. EndOf(k.chain[n]) \in Nat /\ EndOf(k.chain[n]) <= Len(k.doc)
    <3>1. \A i \in 1 .. Len(k.chain) : EndOf(k.chain[i]) \in Nat
      BY BuffersInOrder
    <3>2. n \in 1 .. n
      BY <2>1
    <3>3. EndOf(k.chain[Len(k.chain)]) <= Len(k.doc)
      BY <1>3 DEF Chained
    <3>4. QED
      BY <2>1, <3>1, <3>2, <3>3
  <2>3. Limit(k) = EndOf(k.chain[n])
    BY <2>1 DEF Limit, Base, Last, EndOf
  <2>4. QED
    BY <1>1, <1>3, <2>1, <2>2, <2>3 DEF Arrived
<1>4. QED
    BY <1>2, <1>3

\* What a span could depend on is all that counts.
LEMMA SameStays ==
    ASSUME NEW k, NEW j, Same(k, j)
    PROVE  /\ \A p : PlacedAt(k, p) => PlacedAt(j, p)
           /\ Placed(k) => Placed(j)
           /\ Ready(k) => Ready(j)
           /\ Blank(k) => Blank(j)
           /\ Attr(j) = Attr(k)
           /\ Limit(j) = Limit(k) /\ Arrived(j) = Arrived(k)
<1>1. Limit(j) = Limit(k) /\ Arrived(j) = Arrived(k)
    BY DEF Same, Limit, Base, Arrived
<1>2. \A p : TokenUpTo(k.tok, p, p) => TokenUpTo(j.tok, p, p)
    BY DEF Same, TokenUpTo, TokenEnd
<1>3. \A p : PlacedAt(k, p) => PlacedAt(j, p)
    BY <1>1, <1>2 DEF Same, PlacedAt
<1>4. Placed(k) => Placed(j)
    BY <1>3 DEF Placed, Same
<1>5. Attr(j) = Attr(k)
    BY DEF Attr, Same
<1>6. QED
    BY <1>1, <1>3, <1>4, <1>5 DEF Ready, Blank, Same

\* Names, types and states are none of it.
LEMMA RenamedSame ==
    ASSUME NEW k, Shaped(k)
    PROVE  /\ \A tag : Same(k, Tag(k, tag))
           /\ \A types : Same(k, Type(k, types)) /\ Same(k, Typed(k, types))
           /\ Same(k, NotSpace(k)) /\ Same(k, CheckTagParser(k)) /\ Same(k, SetState(k))
           /\ \A s : Same(k, Goto(k, s))
           /\ \A tmp : Same(k, [k EXCEPT !.tmp = tmp])
           /\ Same(k, CalcCurrentNamespace(k))
<1>1. \A tag : Same(k, [k EXCEPT !.tok.tag = tag])
    BY DEF Shaped, Same
<1>2. \A types : Same(k, [k EXCEPT !.tok.type = types])
    BY DEF Shaped, Same
<1>3. \A s : Same(k, [k EXCEPT !.state = s])
    BY DEF Shaped, Same
<1>4. \A tmp : Same(k, [k EXCEPT !.tmp = tmp])
    BY DEF Shaped, Same
<1>5. \A ns : Same(k, [k EXCEPT !.ns = ns])
    BY DEF Shaped, Same
<1>6. Same(k, k)
    BY DEF Same
<1>7. \A tag : Same(k, Tag(k, tag))
    BY <1>1, Zenon DEF Tag
<1>8. \A types : Same(k, Type(k, types)) /\ Same(k, Typed(k, types))
    BY <1>2, Zenon DEF Type, Typed
<1>9. Same(k, NotSpace(k)) /\ Same(k, CheckTagParser(k))
    BY <1>2, <1>7, Zenon DEF NotSpace, CheckTagParser
<1>10. \A s : Same(k, Goto(k, s))
    BY <1>3, Zenon DEF Goto
<1>11. Same(k, SetState(k)) /\ Same(k, CalcCurrentNamespace(k))
    BY <1>5, <1>6, <1>10, Zenon DEF SetState, CalcCurrentNamespace
<1>12. QED
    BY <1>4, <1>7, <1>8, <1>9, <1>10, <1>11

\* Placed for a later position.
LEMMA PlacedLater ==
    ASSUME NEW k, NEW p, PlacedAt(k, p), NEW q \in Nat, p <= q, q <= Arrived(k)
    PROVE  PlacedAt(k, q)
<1>1. p \in Nat /\ k.tok.raw_begin \in Nat
    BY DEF PlacedAt, TokenUpTo
<1>2. AttrUpTo(k.attr, q) /\ AttrsUpTo(k.tok.attrs, q) /\ QueueUpTo(k.out, k.tok.raw_begin, q)
    BY <1>1, UpToLater DEF PlacedAt, TokenUpTo
<1>3. TokenUpTo(k.tok, q, q)
    BY <1>1, <1>2 DEF PlacedAt, TokenUpTo, TokenEnd
<1>4. QED
    BY <1>2, <1>3 DEF PlacedAt

\* The lexer moves on.
LEMMA MovedPlaced ==
    ASSUME NEW k, NEW p, PlacedAt(k, p), NEW q \in Nat, p <= q, q <= Arrived(k)
    PROVE  /\ Placed([k EXCEPT !.pos = q])
           /\ Shaped([k EXCEPT !.pos = q]) /\ Attr([k EXCEPT !.pos = q]) = Attr(k)
           /\ Limit([k EXCEPT !.pos = q]) = Limit(k)
<1>1. PlacedAt(k, q)
    BY PlacedLater
<1>2. PICK j : j = [k EXCEPT !.pos = q]
    OBVIOUS
<1>3. /\ Shaped(j) /\ j.pos = q
      /\ j.doc = k.doc /\ j.chain = k.chain /\ j.out = k.out /\ j.attr = k.attr
      /\ j.tok = k.tok /\ j.held = k.held
    BY <1>2 DEF PlacedAt, Shaped
<1>4. Attr(j) = Attr(k)
    BY <1>3 DEF Attr
<1>5. Arrived(j) = Arrived(k) /\ Limit(j) = Limit(k)
    BY <1>3 DEF Arrived, Limit, Base
<1>6. PlacedAt(j, q)
    BY <1>1, <1>3, <1>5 DEF PlacedAt
<1>7. QED
    BY <1>2, <1>3, <1>4, <1>5, <1>6 DEF Placed

\* The scans stop in what has come in.
LEMMA ScanStops ==
    ASSUME NEW k, Ready(k)
    PROVE  /\ \A stops : \E p \in Nat : /\ Seek(k, stops) = [k EXCEPT !.pos = p]
                                        /\ k.pos <= p /\ p <= Arrived(k)
           /\ \E p \in Nat : SkipSpace(k) = [k EXCEPT !.pos = p] /\ k.pos <= p /\ p <= Arrived(k)
           /\ \E p \in Nat : NameEnd(k) = [k EXCEPT !.pos = p] /\ k.pos <= p /\ p <= Arrived(k)
<1>1. PICK l \in Nat, b \in Nat : l = Limit(k) /\ b = k.pos /\ b < l /\ Arrived(k) = l
    BY ArrivedIs DEF Ready, Placed, PlacedAt
<1>2. ASSUME NEW hits, hits \subseteq b .. (l - 1)
      PROVE  (IF hits = {} THEN l ELSE Min(hits)) \in b .. l
  <2>1. CASE hits = {}
    BY <1>1, <2>1
  <2>2. CASE hits # {}
    <3>1. hits \subseteq Nat
      BY <1>1, <1>2
    <3>2. Min(hits) \in hits
      BY <2>2, <3>1, MinFacts
    <3>3. PICK m : m = Min(hits)
      OBVIOUS
    <3>4. m \in b .. (l - 1)
      BY <1>2, <3>2, <3>3
    <3>5. m \in b .. l
      BY <3>4
    <3>6. QED
      BY <2>2, <3>3, <3>5
  <2>3. QED
    BY <2>1, <2>2
<1>3. ASSUME NEW stops
      PROVE  \E p \in Nat : Seek(k, stops) = [k EXCEPT !.pos = p] /\ k.pos <= p /\ p <= Arrived(k)
  <2>1. PICK hits : hits = {p \in k.pos .. (Limit(k) - 1) : k.doc[p + 1] \in stops}
    OBVIOUS
  <2>2. PICK p \in b .. l : p = IF hits = {} THEN l ELSE Min(hits)
    BY <1>1, <1>2, <2>1
  <2>3. Seek(k, stops) = [k EXCEPT !.pos = IF hits = {} THEN l ELSE Min(hits)]
    BY <1>1, <2>1, Zenon DEF Seek
  <2>4. QED
    BY <1>1, <2>2, <2>3
<1>4. \E p \in Nat : SkipSpace(k) = [k EXCEPT !.pos = p] /\ k.pos <= p /\ p <= Arrived(k)
  <2>1. PICK hits : hits = {p \in k.pos .. (Limit(k) - 1) : k.doc[p + 1] \notin Space}
    OBVIOUS
  <2>2. PICK p \in b .. l : p = IF hits = {} THEN l ELSE Min(hits)
    BY <1>1, <1>2, <2>1
  <2>3. SkipSpace(k) = [k EXCEPT !.pos = IF hits = {} THEN l ELSE Min(hits)]
    BY <1>1, <2>1, Zenon DEF SkipSpace
  <2>4. QED
    BY <1>1, <2>2, <2>3
<1>5. \E p \in Nat : NameEnd(k) = [k EXCEPT !.pos = p] /\ k.pos <= p /\ p <= Arrived(k)
  <2>1. PICK hits : hits = {p \in k.pos .. (Limit(k) - 1) : k.doc[p + 1] \notin Letters}
    OBVIOUS
  <2>2. PICK p \in b .. l : p = IF hits = {} THEN l ELSE Min(hits)
    BY <1>1, <1>2, <2>1
  <2>3. NameEnd(k) = [k EXCEPT !.pos = IF hits = {} THEN l ELSE Min(hits)]
    BY <1>1, <2>1, Zenon DEF NameEnd
  <2>4. QED
    BY <1>1, <2>2, <2>3
<1>6. QED
    BY <1>3, <1>4, <1>5

-----------------------------------------------------------------------------
(* What the states are made of leaves the spans in their places. *)

(* From k to j the lexer has not moved. *)
Beside(k, j) == j.doc = k.doc /\ j.chain = k.chain /\ j.pos = k.pos

\* Then it is ready for a character as before.
LEMMA BesideReady ==
    ASSUME NEW k, NEW j, Ready(k), Placed(j), Beside(k, j)
    PROVE  Ready(j) /\ Limit(j) = Limit(k)
    BY DEF Ready, Beside, Limit, Base

\* What a lexer that is placed is made of.
LEMMA PlacedParts ==
    ASSUME NEW k, Placed(k)
    PROVE  /\ Shaped(k)
           /\ k.pos \in Nat /\ k.tok.raw_begin \in Nat /\ k.tok.raw_length \in Nat /\ k.tok.mark \in Nat
           /\ k.tok.raw_begin + k.tok.raw_length <= k.pos /\ k.tok.raw_begin <= k.pos
           /\ AttrsUpTo(k.tok.attrs, k.pos) /\ AttrUpTo(k.attr, k.pos) /\ k.attr.key_length = 0
           /\ QueueUpTo(k.out, k.tok.raw_begin, k.pos)
    BY DEF Placed, PlacedAt, TokenUpTo, TokenEnd

\* Another span for the token at hand.
LEMMA SpanSet ==
    ASSUME NEW k, Placed(k), NEW b \in Nat, NEW l \in Nat, b + l <= k.pos, QueueUpTo(k.out, b, k.pos),
           NEW j, Shaped(j), Beside(k, j), j.tok.raw_begin = b, j.tok.raw_length = l, j.tok.mark \in Nat,
           j.tok.attrs = k.tok.attrs, j.attr = k.attr, j.out = k.out
    PROVE  Placed(j)
<1>1. Arrived(j) = Arrived(k)
    BY DEF Arrived, Limit, Base, Beside
<1>2. TokenUpTo(j.tok, k.pos, k.pos)
    BY PlacedParts DEF TokenUpTo, TokenEnd
<1>3. QED
    BY <1>1, <1>2 DEF Placed, PlacedAt, Beside

\* The begin, the length and the mark are set.
LEMMA SpanStays ==
    ASSUME NEW k, Placed(k)
    PROVE  /\ Placed(Mark(k)) /\ Beside(k, Mark(k))
           /\ Placed(Length(k)) /\ Beside(k, Length(k))
           /\ \A tail \in Nat : Placed(Cut(k, tail)) /\ Beside(k, Cut(k, tail))
           /\ \A l \in Nat : k.tok.raw_begin + l <= k.pos
                             => /\ Placed([k EXCEPT !.tok.raw_length = l])
                                /\ Beside(k, [k EXCEPT !.tok.raw_length = l])
                                /\ [k EXCEPT !.tok.raw_length = l].tok.raw_length = l
           /\ \A b \in Nat : k.tok.raw_begin <= b /\ b + k.tok.raw_length <= k.pos
                             => /\ Placed([k EXCEPT !.tok.raw_begin = b])
                                /\ Beside(k, [k EXCEPT !.tok.raw_begin = b])
           /\ k.tok.raw_length = 0 => Placed(Begin(k)) /\ Beside(k, Begin(k)) /\ Begin(k).tok.raw_length = 0
<1>1. /\ Shaped(k)
      /\ k.pos \in Nat /\ k.tok.raw_begin \in Nat /\ k.tok.raw_length \in Nat
      /\ k.tok.raw_begin + k.tok.raw_length <= k.pos /\ k.tok.raw_begin <= k.pos
      /\ QueueUpTo(k.out, k.tok.raw_begin, k.pos)
    BY PlacedParts
<1>2. ASSUME NEW l \in Nat, k.tok.raw_begin + l <= k.pos
      PROVE  /\ Placed([k EXCEPT !.tok.raw_length = l])
             /\ Beside(k, [k EXCEPT !.tok.raw_length = l])
             /\ [k EXCEPT !.tok.raw_length = l].tok.raw_length = l
  <2>1. PICK j : j = [k EXCEPT !.tok.raw_length = l]
    OBVIOUS
  <2>2. /\ Shaped(j) /\ Beside(k, j) /\ j.tok.raw_begin = k.tok.raw_begin /\ j.tok.raw_length = l
        /\ j.tok.mark = k.tok.mark /\ j.tok.attrs = k.tok.attrs /\ j.attr = k.attr /\ j.out = k.out
    BY <1>1, <2>1 DEF Shaped, Beside
  <2>3. Placed(j)
    BY <1>1, <1>2, <2>2, SpanSet, PlacedParts
  <2>4. QED
    BY <2>1, <2>2, <2>3
<1>3. ASSUME NEW b \in Nat, k.tok.raw_begin <= b, b + k.tok.raw_length <= k.pos
      PROVE  /\ Placed([k EXCEPT !.tok.raw_begin = b])
             /\ Beside(k, [k EXCEPT !.tok.raw_begin = b])
             /\ [k EXCEPT !.tok.raw_begin = b].tok.raw_length = k.tok.raw_length
  <2>1. PICK j : j = [k EXCEPT !.tok.raw_begin = b]
    OBVIOUS
  <2>2. /\ Shaped(j) /\ Beside(k, j) /\ j.tok.raw_begin = b /\ j.tok.raw_length = k.tok.raw_length
        /\ j.tok.mark = k.tok.mark /\ j.tok.attrs = k.tok.attrs /\ j.attr = k.attr /\ j.out = k.out
    BY <1>1, <2>1 DEF Shaped, Beside
  <2>3. QueueUpTo(k.out, b, k.pos)
    BY <1>1, <1>3, UpToLater
  <2>4. Placed(j)
    BY <1>1, <1>3, <2>2, <2>3, SpanSet, PlacedParts
  <2>5. QED
    BY <2>1, <2>2, <2>4
<1>4. Placed(Mark(k)) /\ Beside(k, Mark(k))
  <2>1. PICK j : j = Mark(k)
    OBVIOUS
  <2>2. /\ Shaped(j) /\ Beside(k, j) /\ j.tok.raw_begin = k.tok.raw_begin /\ j.tok.raw_length = k.tok.raw_length
        /\ j.tok.mark = k.pos /\ j.tok.attrs = k.tok.attrs /\ j.attr = k.attr /\ j.out = k.out
    BY <1>1, <2>1 DEF Shaped, Beside, Mark
  <2>3. Placed(j)
    BY <1>1, <2>2, SpanSet, PlacedParts
  <2>4. QED
    BY <2>1, <2>2, <2>3
<1>5. Placed(Length(k)) /\ Beside(k, Length(k))
  <2>1. PICK l \in Nat : l = k.pos - k.tok.raw_begin
    BY <1>1
  <2>2. Length(k) = [k EXCEPT !.tok.raw_length = l] /\ k.tok.raw_begin + l <= k.pos
    BY <1>1, <2>1 DEF Length
  <2>3. QED
    BY <1>2, <2>2
<1>6. ASSUME NEW tail \in Nat PROVE Placed(Cut(k, tail)) /\ Beside(k, Cut(k, tail))
  <2>1. PICK l : l = IF k.pos - k.tok.raw_begin >= tail THEN k.pos - k.tok.raw_begin - tail ELSE 0
    OBVIOUS
  <2>2. l \in Nat /\ k.tok.raw_begin + l <= k.pos
    BY <1>1, <2>1
  <2>3. Cut(k, tail) = [k EXCEPT !.tok.raw_length = l]
    BY <2>1, Zenon DEF Cut
  <2>4. QED
    BY <1>2, <2>2, <2>3
<1>7. k.tok.raw_length = 0 => Placed(Begin(k)) /\ Beside(k, Begin(k)) /\ Begin(k).tok.raw_length = 0
    BY <1>1, <1>3 DEF Begin
<1>8. QED
    BY <1>2, <1>3, <1>4, <1>5, <1>6, <1>7

\* Lexer k has put its token into the queue, or dropped it, and the next begins.
LEMMA QueueAddPlaced ==
    ASSUME NEW k, Placed(k)
    PROVE  /\ Placed(QueueAdd(k)) /\ Beside(k, QueueAdd(k))
           /\ QueueAdd(k).tok.raw_begin = k.pos /\ QueueAdd(k).tok.raw_length = 0
           /\ QueueAdd(k).attr = k.attr /\ QueueAdd(k).held = k.held
           /\ QueueUpTo(QueueAdd(k).out, TokenEnd(k.tok), k.pos)
           /\ QueueAdd(k).state \in {k.state} \cup TextStates
<1>1. /\ Shaped(k) /\ k.pos \in Nat /\ TokenUpTo(k.tok, k.pos, k.pos)
      /\ QueueUpTo(k.out, k.tok.raw_begin, k.pos)
      /\ TokenEnd(k.tok) \in Nat /\ k.tok.raw_begin \in Nat /\ k.tok.raw_begin <= TokenEnd(k.tok)
      /\ TokenEnd(k.tok) <= k.pos
    BY DEF Placed, PlacedAt, TokenUpTo, TokenEnd
<1>2. PICK tok : tok = FreshToken(k.pos)
    OBVIOUS
<1>3. /\ {"tag", "raw_begin", "raw_length", "mark", "attrs"} \subseteq DOMAIN tok
      /\ tok.raw_begin = k.pos /\ tok.raw_length = 0 /\ tok.mark = 0 /\ tok.attrs = <<>>
    BY <1>2 DEF FreshToken
<1>4. AttrsUpTo(<<>>, k.pos)
    BY EmptySeq DEF AttrsUpTo, IsList
<1>5. TokenUpTo(tok, k.pos, k.pos)
    BY <1>1, <1>3, <1>4 DEF TokenUpTo, TokenEnd
<1>6. PICK c : c = CalcCurrentNamespace(k)
    OBVIOUS
<1>7. Same(k, c) /\ c.state \in {k.state} \cup TextStates
  <2>1. BuilderState(k) \in TextStates
    BY DEF BuilderState, DataParser, TextStates
  <2>2. \A s : Goto(k, s).state = s
    BY <1>1 DEF Goto, Shaped
  <2>3. \A ns : [k EXCEPT !.ns = ns].state = k.state
    BY <1>1 DEF Shaped
  <2>4. c.state \in {k.state} \cup TextStates
    <3>1. CASE k.tok.tag = Svg
      BY <1>6, <2>3, <3>1, Zenon DEF CalcCurrentNamespace
    <3>2. CASE k.tok.tag # Svg
      BY <1>6, <2>1, <2>2, <3>2 DEF CalcCurrentNamespace
    <3>3. QED
      BY <3>1, <3>2
  <2>5. QED
    BY <1>1, <1>6, <2>4, RenamedSame
<1>8. PICK q : q = Append(k.out, k.tok)
    OBVIOUS
<1>9. QueueUpTo(q, TokenEnd(k.tok), k.pos)
  <2>1. TokenUpTo(k.tok, TokenEnd(k.tok), k.pos)
    BY <1>1 DEF TokenUpTo
  <2>2. QED
    BY <1>1, <1>8, <2>1, QueuePlaced
<1>10. QueueUpTo(k.out, TokenEnd(k.tok), k.pos)
    BY <1>1, UpToLater
<1>11. QueueAdd(k) = [k EXCEPT !.tok = tok] \/ QueueAdd(k) = [c EXCEPT !.out = Append(c.out, k.tok), !.tok = tok]
    BY <1>2, <1>6, Zenon DEF QueueAdd
<1>12. PICK j : j = QueueAdd(k)
    OBVIOUS
<1>13. /\ Shaped(j) /\ Beside(k, j) /\ j.tok = tok /\ j.attr = k.attr /\ j.held = k.held
       /\ j.out = k.out \/ j.out = q
       /\ j.state \in {k.state} \cup TextStates
  <2>1. CASE j = [k EXCEPT !.tok = tok]
    BY <1>1, <1>3, <2>1 DEF Shaped, Beside
  <2>2. CASE j = [c EXCEPT !.out = Append(c.out, k.tok), !.tok = tok]
    BY <1>3, <1>7, <1>8, <2>2 DEF Same, Shaped, Beside
  <2>3. QED
    BY <1>11, <1>12, <2>1, <2>2
<1>14. QueueUpTo(j.out, TokenEnd(k.tok), k.pos)
    BY <1>9, <1>10, <1>13
<1>15. QueueUpTo(j.out, k.pos, k.pos)
    BY <1>1, <1>14, UpToLater
<1>16. Placed(j)
  <2>1. Arrived(j) = Arrived(k)
    BY <1>13 DEF Arrived, Limit, Base, Beside
  <2>2. QED
    BY <1>1, <1>3, <1>5, <1>13, <1>15, <2>1 DEF Placed, PlacedAt, Beside
<1>17. QED
    BY <1>3, <1>12, <1>13, <1>14, <1>16

\* An attribute is linked into the list, or given up for a new one.
LEMMA AttrStays ==
    ASSUME NEW k, Placed(k)
    PROVE  /\ Placed(NewAttr(k)) /\ Beside(k, NewAttr(k))
           /\ NewAttr(k).tok = k.tok /\ NewAttr(k).state = k.state
           /\ Placed(HoldAttr(k)) /\ Beside(k, HoldAttr(k))
           /\ HoldAttr(k).tok.raw_length = k.tok.raw_length
           /\ Attr(HoldAttr(k)) = k.attr
<1>1. /\ Shaped(k) /\ k.pos \in Nat /\ AttrUpTo(k.attr, k.pos)
      /\ AttrsUpTo(k.tok.attrs, k.pos)
    BY PlacedParts
<1>2. AttrUpTo(FreshAttr, k.pos) /\ FreshAttr.key_length = 0
    BY <1>1 DEF AttrUpTo, AttrShape, FreshAttr
<1>3. Placed(NewAttr(k)) /\ Beside(k, NewAttr(k)) /\ NewAttr(k).tok = k.tok /\ NewAttr(k).state = k.state
  <2>1. PICK a : a = FreshAttr
    OBVIOUS
  <2>2. PICK j : j = NewAttr(k)
    OBVIOUS
  <2>3. /\ Shaped(j) /\ Beside(k, j) /\ j.tok = k.tok /\ j.out = k.out /\ j.attr = a
        /\ j.state = k.state
    BY <1>1, <2>1, <2>2 DEF NewAttr, Shaped, Beside
  <2>4. Arrived(j) = Arrived(k)
    BY <2>3 DEF Beside, Arrived, Limit, Base
  <2>5. Placed(j)
    BY <1>2, <2>1, <2>3, <2>4 DEF Placed, PlacedAt, Beside
  <2>6. QED
    BY <2>2, <2>3, <2>5
<1>4. /\ Placed(HoldAttr(k)) /\ Beside(k, HoldAttr(k)) /\ HoldAttr(k).tok.raw_length = k.tok.raw_length
      /\ Attr(HoldAttr(k)) = k.attr
  <2>1. PICK attrs : attrs = Append(k.tok.attrs, k.attr)
    OBVIOUS
  <2>2. AttrsUpTo(attrs, k.pos) /\ attrs # <<>> /\ attrs[Len(attrs)] = k.attr
    <3>1. /\ AttrsUpTo(Append(k.tok.attrs, k.attr), k.pos) /\ Append(k.tok.attrs, k.attr) # <<>>
          /\ Append(k.tok.attrs, k.attr)[Len(Append(k.tok.attrs, k.attr))] = k.attr
      BY <1>1, AttrsPlaced, ZenonT(30)
    <3>2. QED
      BY <2>1, <3>1
  <2>3. PICK j : j = HoldAttr(k)
    OBVIOUS
  <2>4. j = [k EXCEPT !.tok.attrs = attrs, !.held = TRUE, !.twice = k.twice \/ k.held]
    BY <2>1, <2>3, Zenon DEF HoldAttr
  <2>5. /\ Shaped(j) /\ Beside(k, j) /\ j.tok.attrs = attrs /\ j.held = TRUE /\ j.attr = k.attr
        /\ j.tok.raw_begin = k.tok.raw_begin /\ j.tok.raw_length = k.tok.raw_length
        /\ j.tok.mark = k.tok.mark /\ j.out = k.out
    BY <1>1, <2>4 DEF Shaped, Beside
  <2>6. Arrived(j) = Arrived(k)
    BY <2>5 DEF Beside, Arrived, Limit, Base
  <2>7. TokenUpTo(j.tok, k.pos, k.pos)
    BY <2>2, <2>5 DEF Placed, PlacedAt, TokenUpTo, TokenEnd
  <2>8. Placed(j)
    BY <2>5, <2>6, <2>7 DEF Placed, PlacedAt, Beside
  <2>9. Attr(j) = k.attr
    BY <2>2, <2>5 DEF Attr, Last
  <2>10. QED
    BY <2>3, <2>5, <2>8, <2>9
<1>5. QED
    BY <1>3, <1>4

(* The attribute at hand is in the list of the token. *)
Listed(k) == k.held /\ k.tok.attrs # <<>>

\* The attribute at hand is not behind the lexer, and may be written to.
LEMMA AttrSet ==
    ASSUME NEW k, Placed(k), k.held \in BOOLEAN
    PROVE  /\ AttrUpTo(Attr(k), k.pos) /\ (~ Listed(k) => Attr(k).key_length = 0)
           /\ \A a : AttrUpTo(a, k.pos) /\ (~ Listed(k) => a.key_length = 0)
                     => /\ Placed(SetAttr(k, a)) /\ Beside(k, SetAttr(k, a))
                        /\ SetAttr(k, a).state = k.state
                        /\ SetAttr(k, a).tok.raw_length = k.tok.raw_length
                        /\ SetAttr(k, a).tok.mark = k.tok.mark
                        /\ SetAttr(k, a).held = k.held
                        /\ Listed(SetAttr(k, a)) = Listed(k)
                        /\ Attr(SetAttr(k, a)) = a
<1>1. /\ Shaped(k) /\ k.pos \in Nat /\ AttrUpTo(k.attr, k.pos) /\ k.attr.key_length = 0
      /\ AttrsUpTo(k.tok.attrs, k.pos)
    BY PlacedParts
<1>2. AttrUpTo(Attr(k), k.pos) /\ (~ Listed(k) => Attr(k).key_length = 0)
  <2>1. CASE Listed(k)
    BY <1>1, <2>1, AttrsPlaced DEF Attr, Listed, Last
  <2>2. CASE ~ Listed(k)
    BY <1>1, <2>2 DEF Attr, Listed
  <2>3. QED
    BY <2>1, <2>2
<1>3. ASSUME NEW a, AttrUpTo(a, k.pos), ~ Listed(k) => a.key_length = 0
      PROVE  /\ Placed(SetAttr(k, a)) /\ Beside(k, SetAttr(k, a))
             /\ SetAttr(k, a).state = k.state
             /\ SetAttr(k, a).tok.raw_length = k.tok.raw_length
             /\ SetAttr(k, a).tok.mark = k.tok.mark
             /\ SetAttr(k, a).held = k.held
             /\ Listed(SetAttr(k, a)) = Listed(k)
             /\ Attr(SetAttr(k, a)) = a
  <2>1. PICK j : j = SetAttr(k, a)
    OBVIOUS
  <2>2. CASE Listed(k)
    <3>1. PICK attrs : attrs = [k.tok.attrs EXCEPT ![Len(k.tok.attrs)] = a]
      OBVIOUS
    <3>2. AttrsUpTo(attrs, k.pos) /\ attrs # <<>> /\ attrs[Len(attrs)] = a
      BY <1>1, <1>3, <2>2, <3>1, AttrsPlaced DEF Listed
    <3>3. j = [k EXCEPT !.tok.attrs = attrs]
      BY <2>1, <2>2, <3>1 DEF SetAttr, Listed
    <3>4. /\ Shaped(j) /\ Beside(k, j) /\ j.tok.attrs = attrs /\ j.held = k.held /\ j.attr = k.attr
          /\ j.tok.raw_begin = k.tok.raw_begin /\ j.tok.raw_length = k.tok.raw_length
          /\ j.tok.mark = k.tok.mark /\ j.out = k.out /\ j.state = k.state
      BY <1>1, <3>3 DEF Shaped, Beside
    <3>5. Arrived(j) = Arrived(k)
      BY <3>4 DEF Beside, Arrived, Limit, Base
    <3>6. TokenUpTo(j.tok, k.pos, k.pos)
      BY <3>2, <3>4 DEF Placed, PlacedAt, TokenUpTo, TokenEnd
    <3>7. Placed(j)
      BY <3>4, <3>5, <3>6 DEF Placed, PlacedAt, Beside
    <3>8. Attr(j) = a /\ Listed(j)
      BY <2>2, <3>2, <3>4 DEF Attr, Last, Listed
    <3>9. QED
      BY <2>1, <2>2, <3>4, <3>7, <3>8
  <2>3. CASE ~ Listed(k)
    <3>1. j = [k EXCEPT !.attr = a]
      BY <2>1, <2>3 DEF SetAttr, Listed
    <3>2. /\ Shaped(j) /\ Beside(k, j) /\ j.tok = k.tok /\ j.held = k.held /\ j.attr = a
          /\ j.out = k.out /\ j.state = k.state
      BY <1>1, <3>1 DEF Shaped, Beside
    <3>3. Arrived(j) = Arrived(k)
      BY <3>2 DEF Beside, Arrived, Limit, Base
    <3>4. a.key_length = 0
      BY <1>3, <2>3
    <3>5. Placed(j)
      BY <1>3, <3>2, <3>3, <3>4 DEF Placed, PlacedAt, Beside
    <3>6. Attr(j) = a /\ Listed(j) = Listed(k)
      BY <2>3, <3>2 DEF Attr, Listed
    <3>7. QED
      BY <2>1, <3>2, <3>5, <3>6
  <2>4. QED
    BY <2>2, <2>3
<1>4. QED
    BY <1>2, <1>3

\* The name and the value of the attribute at hand begin and end.
LEMMA AttrWritten ==
    ASSUME NEW k, Placed(k), k.held \in BOOLEAN
    PROVE  /\ Attr(k).key_length = 0
              => /\ Placed(KeyFrom(k)) /\ Beside(k, KeyFrom(k))
                 /\ KeyFrom(k).tok.raw_length = k.tok.raw_length
                 /\ Attr(KeyFrom(k)).value_length = Attr(k).value_length
           /\ Listed(k)
              => /\ Placed(KeyTo(k)) /\ Beside(k, KeyTo(k)) /\ Attr(KeyTo(k)).value_length = Attr(k).value_length
                 /\ KeyTo(k).tok.raw_length = k.tok.raw_length
           /\ Attr(k).value_length = 0
              => /\ Placed(ValueFrom(k)) /\ Beside(k, ValueFrom(k)) /\ ValueFrom(k).state = k.state
                 /\ ValueFrom(k).tok.raw_length = k.tok.raw_length
           /\ Placed(ValueTo(k)) /\ Beside(k, ValueTo(k))
           /\ ValueTo(k).tok.raw_length = k.tok.raw_length
<1>1. PICK a : a = Attr(k)
    OBVIOUS
<1>2. /\ k.pos \in Nat /\ AttrUpTo(a, k.pos) /\ (~ Listed(k) => a.key_length = 0)
    BY <1>1, AttrSet, PlacedParts
<1>3. a.key_begin \in Nat /\ a.key_length \in Nat /\ a.value_begin \in Nat /\ a.value_length \in Nat
    BY <1>2 DEF AttrUpTo, AttrShape
<1>4. a.key_begin <= k.pos /\ a.value_begin <= k.pos
    BY <1>2, <1>3 DEF AttrUpTo
<1>5. ASSUME a.key_length = 0
      PROVE  /\ Placed(KeyFrom(k)) /\ Beside(k, KeyFrom(k))
             /\ KeyFrom(k).tok.raw_length = k.tok.raw_length
             /\ Attr(KeyFrom(k)).value_length = a.value_length
  <2>1. PICK b : b = [a EXCEPT !.key_begin = k.pos]
    OBVIOUS
  <2>2. AttrUpTo(b, k.pos) /\ b.key_length = 0 /\ b.value_length = a.value_length
    BY <1>2, <1>5, <2>1 DEF AttrUpTo, AttrShape
  <2>3. KeyFrom(k) = SetAttr(k, b)
    BY <1>1, <2>1, Zenon DEF KeyFrom
  <2>4. QED
    BY <2>2, <2>3, AttrSet
<1>6. ASSUME Listed(k)
      PROVE  /\ Placed(KeyTo(k)) /\ Beside(k, KeyTo(k)) /\ Attr(KeyTo(k)).value_length = a.value_length
             /\ KeyTo(k).tok.raw_length = k.tok.raw_length
  <2>1. PICK l \in Nat : l = k.pos - a.key_begin /\ a.key_begin + l = k.pos
    BY <1>2, <1>3, <1>4
  <2>2. PICK b : b = [a EXCEPT !.key_length = l]
    OBVIOUS
  <2>3. AttrUpTo(b, k.pos) /\ b.value_length = a.value_length
    BY <1>2, <2>1, <2>2 DEF AttrUpTo, AttrShape
  <2>4. KeyTo(k) = SetAttr(k, b)
    BY <1>1, <2>1, <2>2, Zenon DEF KeyTo
  <2>5. QED
    BY <1>6, <2>3, <2>4, AttrSet
<1>7. ASSUME a.value_length = 0
      PROVE  /\ Placed(ValueFrom(k)) /\ Beside(k, ValueFrom(k)) /\ ValueFrom(k).state = k.state
             /\ ValueFrom(k).tok.raw_length = k.tok.raw_length
  <2>1. PICK b : b = [a EXCEPT !.value_begin = k.pos]
    OBVIOUS
  <2>2. AttrUpTo(b, k.pos) /\ b.key_length = a.key_length
    BY <1>2, <1>7, <2>1 DEF AttrUpTo, AttrShape
  <2>3. ValueFrom(k) = SetAttr(k, b)
    BY <1>1, <2>1, Zenon DEF ValueFrom
  <2>4. QED
    BY <1>2, <2>2, <2>3, AttrSet
<1>8. /\ Placed(ValueTo(k)) /\ Beside(k, ValueTo(k))
      /\ ValueTo(k).tok.raw_length = k.tok.raw_length
  <2>1. PICK l \in Nat : l = k.pos - a.value_begin /\ a.value_begin + l = k.pos
    BY <1>2, <1>3, <1>4
  <2>2. PICK b : b = [a EXCEPT !.value_length = l]
    OBVIOUS
  <2>3. AttrUpTo(b, k.pos) /\ b.key_length = a.key_length
    BY <1>2, <2>1, <2>2 DEF AttrUpTo, AttrShape
  <2>4. ValueTo(k) = SetAttr(k, b)
    BY <1>1, <2>1, <2>2, Zenon DEF ValueTo
  <2>5. QED
    BY <1>2, <2>3, <2>4, AttrSet
<1>9. QED
    BY <1>1, <1>5, <1>6, <1>7, <1>8

-----------------------------------------------------------------------------
(* What a state has to be sure of. *)

(* Where the span of the token is known, for it is all read already; where
   the value of the attribute at hand is still to come; where the mark is
   the begin of a name; where a look-ahead waits. *)
LengthStates == AttributeStates \cup {"SELF_CLOSING_START_TAG"} \cup DoctypeStates
NoValueYet   == {"ATTRIBUTE_NAME", "AFTER_ATTRIBUTE_NAME", "BEFORE_ATTRIBUTE_VALUE"}
MarkStates   == {"SCRIPT_DATA_END_TAG_NAME", "SCRIPT_DATA_ESCAPED_END_TAG_NAME"}
LookAhead    == {"MARKUP_DECLARATION_OPEN", "CUSTOM_AFTER_DOCTYPE_NAME_A_Z"}

(* The place the states go back to that look ahead. *)
Resumes(k) ==
    CASE k.state = "MARKUP_DECLARATION_OPEN" -> k.tok.raw_begin
      [] k.state = "CUSTOM_AFTER_DOCTYPE_NAME_A_Z" -> k.tok.mark
      [] OTHER -> k.pos

(* Behind "<!" there is no comment's begin, as far as is read. *)
NoDashes(k) ==
    \/ k.pos = k.tok.raw_begin
    \/ k.pos = k.tok.raw_begin + 1 /\ k.pos = Arrived(k)
    \/ SubSeq(k.doc, k.tok.raw_begin + 1, k.tok.raw_begin + 2) # <<"-", "-">>

(* The spans are in their places, and the state can be sure of what it takes
   for known. *)
InPlace(k) ==
    /\ k.pos \in Nat /\ Resumes(k) <= k.pos /\ k.pos <= Arrived(k)
    /\ PlacedAt(k, Resumes(k))
    /\ k.state \notin LengthStates => k.tok.raw_length = 0
    /\ k.state \in NoValueYet => Attr(k).value_length = 0
    /\ k.state \in MarkStates => k.tok.raw_begin <= k.tok.mark /\ k.tok.mark <= k.pos
    /\ k.state = "MARKUP_DECLARATION_OPEN" => k.pos <= k.tok.raw_begin + 2 /\ NoDashes(k)
    /\ k.state = "CUSTOM_AFTER_DOCTYPE_NAME_A_Z" => k.pos <= k.tok.mark + 1

\* A lexer whose spans are in place is placed where it is.
LEMMA InPlaceIs ==
    ASSUME NEW k, InPlace(k)
    PROVE  /\ Placed(k)
           /\ ~ Exhausted(k) /\ k.chain # <<>> => Ready(k)
           /\ Ready(k) => ~ Exhausted(k)
<1>1. Placed(k)
    BY PlacedLater DEF InPlace, Placed
<1>2. k.pos \in Nat /\ Chained(k.chain, k.doc)
    BY <1>1 DEF Placed, PlacedAt
<1>3. k.chain # <<>> => Limit(k) \in Nat
    BY <1>2, ArrivedIs
<1>4. QED
    BY <1>1, <1>2, <1>3 DEF Ready, Exhausted

\* Where a state has nothing to be sure of, placed is in place.
LEMMA Lands ==
    ASSUME NEW k, Placed(k), k.state \notin NoValueYet \cup MarkStates \cup LookAhead,
           k.state \in LengthStates \/ k.tok.raw_length = 0
    PROVE  InPlace(k)
<1>1. Resumes(k) = k.pos
    BY DEF Resumes, LookAhead
<1>2. k.pos \in Nat /\ k.pos <= Arrived(k)
    BY DEF Placed, PlacedAt
<1>3. QED
    BY <1>1, <1>2 DEF InPlace, Placed, LookAhead

\* A lexer that is ready for a character: names, types, states, lengths.
LEMMA ReadyStays ==
    ASSUME NEW k, Ready(k)
    PROVE  /\ Placed(k) /\ Placed(Eat(k, 1)) /\ Eat(k, 1).tok = k.tok /\ Eat(k, 1).state = k.state
           /\ \A tag : Ready(Tag(k, tag))
           /\ \A types : Ready(Type(k, types)) /\ Ready(Typed(k, types))
           /\ Ready(NotSpace(k)) /\ Ready(CheckTagParser(k)) /\ Ready(SetState(k))
           /\ Ready(Mark(k)) /\ Ready(Length(k)) /\ Ready(NewAttr(k)) /\ Ready(HoldAttr(k))
           /\ k.held \in BOOLEAN => Ready(ValueTo(k))
           /\ \A tail \in Nat : Ready(Cut(k, tail))
           /\ Blank([k EXCEPT !.tok.raw_length = 0])
           /\ Blank(QueueAdd(k))
<1>1. Placed(k) /\ Shaped(k) /\ k.pos \in Nat /\ Chained(k.chain, k.doc) /\ k.chain # <<>> /\ k.pos < Limit(k)
    BY DEF Ready, Placed, PlacedAt
<1>2. Placed(Eat(k, 1)) /\ Eat(k, 1).tok = k.tok /\ Eat(k, 1).state = k.state
  <2>1. Limit(k) = Arrived(k) /\ Arrived(k) \in Nat
    BY <1>1, ArrivedIs
  <2>2. k.pos + 1 \in Nat /\ k.pos <= k.pos + 1 /\ k.pos + 1 <= Arrived(k)
    BY <1>1, <2>1
  <2>3. Placed([k EXCEPT !.pos = k.pos + 1])
    BY <1>1, <2>2, MovedPlaced DEF Placed
  <2>4. Eat(k, 1) = [k EXCEPT !.pos = k.pos + 1]
    BY DEF Eat
  <2>5. QED
    BY <1>1, <2>3, <2>4 DEF Shaped
<1>3. \A tag : Ready(Tag(k, tag))
    BY <1>1, RenamedSame, SameStays, Zenon
<1>4. \A types : Ready(Type(k, types)) /\ Ready(Typed(k, types))
    BY <1>1, RenamedSame, SameStays, Zenon
<1>5. Ready(NotSpace(k)) /\ Ready(CheckTagParser(k)) /\ Ready(SetState(k))
    BY <1>1, RenamedSame, SameStays, Zenon
<1>6. /\ Ready(Mark(k)) /\ Ready(Length(k)) /\ Ready(NewAttr(k)) /\ Ready(HoldAttr(k))
      /\ k.held \in BOOLEAN => Ready(ValueTo(k))
    BY <1>1, SpanStays, AttrStays, AttrWritten, BesideReady, Zenon
<1>7. \A tail \in Nat : Ready(Cut(k, tail))
    BY <1>1, SpanStays, BesideReady, Zenon
<1>8. Blank([k EXCEPT !.tok.raw_length = 0])
  <2>1. 0 \in Nat /\ k.tok.raw_begin + 0 <= k.pos
    BY <1>1, PlacedParts
  <2>2. QED
    BY <1>1, <2>1, SpanStays, BesideReady, Zenon DEF Blank
<1>9. Blank(QueueAdd(k))
    BY <1>1, QueueAddPlaced, BesideReady, Zenon DEF Blank
<1>10. QED
    BY <1>1, <1>2, <1>3, <1>4, <1>5, <1>6, <1>7, <1>8, <1>9

(* States that have more to be sure of than where the lexer is. *)
Sure == NoValueYet \cup MarkStates \cup LookAhead

\* Another state.
LEMMA GotoStays ==
    ASSUME NEW k, Shaped(k), NEW s
    PROVE  /\ Goto(k, s).state = s /\ Same(k, Goto(k, s))
           /\ Placed(k) => Placed(Goto(k, s))
           /\ Ready(k) => Ready(Goto(k, s))
           /\ Blank(k) => Blank(Goto(k, s))
<1>1. Same(k, Goto(k, s))
    BY RenamedSame
<1>2. Goto(k, s).state = s
    BY DEF Goto, Shaped
<1>3. QED
    BY <1>1, <1>2, SameStays

\* What is Blank is ready, and what is ready is shaped.
LEMMA BlankIs ==
    ASSUME NEW k
    PROVE  /\ Blank(k) => Ready(k) /\ k.tok.raw_length = 0
           /\ Ready(k) => Placed(k)
           /\ Placed(k) => Shaped(k)
           /\ \A j : Same(k, j) => Shaped(j)
    BY DEF Blank, Ready, Placed, PlacedAt, Same

\* A new name or type leaves a lexer placed, and ready if it was.
LEMMA RenamedStays ==
    ASSUME NEW k, Placed(k)
    PROVE  /\ \A tag : Placed(Tag(k, tag)) /\ Shaped(Tag(k, tag)) /\ Same(k, Tag(k, tag))
           /\ \A types : Placed(Type(k, types)) /\ Shaped(Type(k, types)) /\ Same(k, Type(k, types))
           /\ Placed(NotSpace(k)) /\ Shaped(NotSpace(k)) /\ Same(k, NotSpace(k))
           /\ Placed(CheckTagParser(k)) /\ Shaped(CheckTagParser(k)) /\ Same(k, CheckTagParser(k))
<1>1. Shaped(k)
    BY BlankIs
<1>2. /\ \A tag : Same(k, Tag(k, tag))
      /\ \A types : Same(k, Type(k, types))
      /\ Same(k, NotSpace(k)) /\ Same(k, CheckTagParser(k))
    BY <1>1, RenamedSame, Zenon
<1>3. \A j : Same(k, j) => Placed(j) /\ Shaped(j)
    BY SameStays, BlankIs
<1>4. QED
    BY <1>2, <1>3, Zenon

\* A lexer whose token has no span yet.
LEMMA BlankStays ==
    ASSUME NEW k, Blank(k)
    PROVE  /\ \A tag : Blank(Tag(k, tag))
           /\ \A types : Blank(Type(k, types)) /\ Blank(Typed(k, types))
           /\ Blank(NotSpace(k)) /\ Blank(Begin(k)) /\ Blank(Mark(k)) /\ Blank(QueueAdd(k))
           /\ Blank([k EXCEPT !.tok.raw_length = 0])
           /\ \A tmp : Blank([k EXCEPT !.tmp = tmp])
<1>1. Ready(k) /\ Placed(k) /\ Shaped(k) /\ k.tok.raw_length = 0
    BY BlankIs
<1>2. /\ \A tag : Blank(Tag(k, tag))
      /\ \A types : Blank(Type(k, types)) /\ Blank(Typed(k, types))
      /\ Blank(NotSpace(k))
      /\ \A tmp : Blank([k EXCEPT !.tmp = tmp])
    BY <1>1, RenamedSame, SameStays, Zenon
<1>3. Blank(Begin(k))
    BY <1>1, SpanStays, BesideReady, Zenon DEF Blank
<1>4. Blank(Mark(k))
  <2>1. Placed(Mark(k)) /\ Beside(k, Mark(k)) /\ Ready(Mark(k))
    BY <1>1, SpanStays, BesideReady, Zenon
  <2>2. Mark(k).tok.raw_length = 0
    BY <1>1 DEF Mark, Shaped
  <2>3. QED
    BY <2>1, <2>2 DEF Blank
<1>5. Blank(QueueAdd(k)) /\ Blank([k EXCEPT !.tok.raw_length = 0])
    BY <1>1, ReadyStays
<1>6. QED
    BY <1>2, <1>3, <1>4, <1>5

\* The text in front of a tag becomes a token.
LEMMA TextNodeStays ==
    ASSUME NEW k, Blank(k), NEW upto \in Int, upto <= k.pos, NEW type
    PROVE  /\ Blank(CreateTextNodeIfNeed(k, upto, type))
           /\ Beside(k, CreateTextNodeIfNeed(k, upto, type))
           /\ \/ CreateTextNodeIfNeed(k, upto, type) = k
              \/ QueueUpTo(CreateTextNodeIfNeed(k, upto, type).out, upto, k.pos) /\ upto \in Nat
<1>1. Ready(k) /\ Placed(k) /\ Shaped(k) /\ k.tok.raw_length = 0 /\ k.tok.raw_begin \in Nat /\ k.pos \in Nat
    BY BlankIs, PlacedParts
<1>2. CASE k.tok.tag = Undef /\ upto > k.tok.raw_begin
  <2>1. PICK i : i = Tag(Type(k, {type}), Text)
    OBVIOUS
  <2>2. Ready(i) /\ Placed(i) /\ Beside(k, i) /\ i.tok.raw_begin = k.tok.raw_begin
    <3>1. PICK h : h = Type(k, {type})
      OBVIOUS
    <3>2. Ready(h) /\ Same(k, h)
      BY <1>1, <3>1, ReadyStays, RenamedSame, Zenon
    <3>3. Ready(i) /\ Same(h, i)
      BY <2>1, <3>1, <3>2, BlankIs, RenamedStays, ReadyStays, Zenon
    <3>4. QED
      BY <3>2, <3>3, BlankIs DEF Same, Beside
  <2>3. PICK l \in Nat : l = upto - k.tok.raw_begin /\ i.tok.raw_begin + l <= i.pos /\ i.tok.raw_begin + l = upto
    BY <1>1, <1>2, <2>2 DEF Beside
  <2>4. PICK j : j = [i EXCEPT !.tok.raw_length = l]
    OBVIOUS
  <2>5. Placed(j) /\ Beside(i, j) /\ j.tok.raw_length = l /\ Ready(j)
    <3>1. Placed(j) /\ Beside(i, j) /\ j.tok.raw_length = l
      BY <2>2, <2>3, <2>4, SpanStays, Zenon
    <3>2. QED
      BY <2>2, <3>1, BesideReady
  <2>6. j.tok.raw_begin = i.tok.raw_begin
    BY <2>2, <2>4 DEF Placed, PlacedAt, Shaped
  <2>7. /\ Blank(QueueAdd(j)) /\ Beside(j, QueueAdd(j))
        /\ QueueUpTo(QueueAdd(j).out, TokenEnd(j.tok), j.pos)
    BY <2>5, ReadyStays, QueueAddPlaced
  <2>8. CreateTextNodeIfNeed(k, upto, type) = QueueAdd(j)
    BY <1>2, <2>1, <2>3, <2>4, Zenon DEF CreateTextNodeIfNeed
  <2>9. TokenEnd(j.tok) = upto /\ j.pos = k.pos /\ upto \in Nat
    BY <1>1, <2>2, <2>3, <2>5, <2>6 DEF TokenEnd, Beside
  <2>10. QED
    BY <2>2, <2>5, <2>7, <2>8, <2>9 DEF Beside
<1>3. CASE ~ (k.tok.tag = Undef /\ upto > k.tok.raw_begin)
    BY <1>3 DEF CreateTextNodeIfNeed, Beside
<1>4. QED
    BY <1>2, <1>3

\* A lexer that is ready goes on to a state, with the character or without.
LEMMA EnterLands ==
    ASSUME NEW k, Ready(k), NEW s, s \notin Sure, s \in LengthStates \/ k.tok.raw_length = 0
    PROVE  InPlace(Goto(k, s)) /\ InPlace(Enter(k, s))
<1>1. Placed(k) /\ Shaped(k)
    BY BlankIs
<1>2. InPlace(Goto(k, s))
  <2>1. Placed(Goto(k, s)) /\ Goto(k, s).state = s /\ Same(k, Goto(k, s))
    BY <1>1, GotoStays
  <2>2. QED
    BY <2>1, Lands DEF Same, Sure
<1>3. InPlace(Enter(k, s))
  <2>1. Placed(Eat(k, 1)) /\ Eat(k, 1).tok = k.tok /\ Shaped(Eat(k, 1))
    BY ReadyStays, BlankIs
  <2>2. PICK e : e = Eat(k, 1)
    OBVIOUS
  <2>3. Placed(Goto(e, s)) /\ Goto(e, s).state = s /\ Same(e, Goto(e, s))
    BY <2>1, <2>2, GotoStays
  <2>4. InPlace(Goto(e, s))
    BY <2>1, <2>2, <2>3, Lands DEF Same, Sure
  <2>5. QED
    BY <2>2, <2>4 DEF Enter
<1>4. QED
    BY <1>2, <1>3

\* The '>' of a tag or of anything else.
LEMMA CloseLands ==
    ASSUME NEW k, Ready(k)
    PROVE  /\ InPlace(CloseTag(k)) /\ InPlace(CloseMarkup(k))
           /\ InPlace(NewAttr(CloseTag(k))) /\ InPlace(NewAttr(CloseMarkup(k)))
<1>1. \A s \in TextStates : s \notin Sure
    BY DEF TextStates, Sure, NoValueYet, MarkStates, LookAhead
<1>2. ASSUME NEW j, Placed(j), j.state \in TextStates, j.tok.raw_length = 0
      PROVE  InPlace(j) /\ InPlace(NewAttr(j))
  <2>1. Placed(NewAttr(j)) /\ NewAttr(j).tok = j.tok /\ NewAttr(j).state = j.state
    BY <1>2, AttrStays
  <2>2. QED
    BY <1>1, <1>2, <2>1, Lands DEF Sure
<1>3. Placed(CloseTag(k)) /\ CloseTag(k).state \in TextStates /\ CloseTag(k).tok.raw_length = 0
  <2>1. PICK i : i = SetState(k)
    OBVIOUS
  <2>2. Ready(i) /\ i.state \in TextStates
    <3>1. Ready(i) /\ Shaped(k)
      BY <2>1, ReadyStays, BlankIs
    <3>2. "DATA" \in TextStates /\ DataParser(k.tok.tag) \in TextStates
      BY DEF TextStates, DataParser
    <3>3. i.state \in TextStates
      BY <2>1, <3>1, <3>2, GotoStays, Zenon DEF SetState
    <3>4. QED
      BY <3>1, <3>3
  <2>3. Placed(Eat(i, 1)) /\ Eat(i, 1).state = i.state
    BY <2>2, ReadyStays
  <2>4. CloseTag(k) = QueueAdd(Eat(i, 1))
    BY <2>1 DEF CloseTag
  <2>5. QED
    BY <2>2, <2>3, <2>4, QueueAddPlaced
<1>4. Placed(CloseMarkup(k)) /\ CloseMarkup(k).state \in TextStates /\ CloseMarkup(k).tok.raw_length = 0
  <2>1. Placed(Eat(k, 1))
    BY ReadyStays
  <2>2. PICK j : j = QueueAdd(Eat(k, 1))
    OBVIOUS
  <2>3. Placed(j) /\ j.tok.raw_length = 0 /\ Shaped(j)
    BY <2>1, <2>2, QueueAddPlaced, BlankIs
  <2>4. Placed(Goto(j, "DATA")) /\ Goto(j, "DATA").state = "DATA" /\ Same(j, Goto(j, "DATA"))
    BY <2>3, GotoStays
  <2>5. QED
    BY <2>2, <2>3, <2>4 DEF CloseMarkup, Same, TextStates
<1>5. QED
    BY <1>2, <1>3, <1>4

(* From k to j the lexer has moved and nothing else. *)
Moved(k, j) ==
    /\ j.doc = k.doc /\ j.chain = k.chain /\ j.state = k.state /\ j.out = k.out
    /\ j.tok = k.tok /\ j.attr = k.attr /\ j.held = k.held

\* The lexer moves on in what has come in.
LEMMA MovedLands ==
    ASSUME NEW k, InPlace(k), Ready(k), k.state \notin LookAhead,
           NEW p \in Nat, k.pos <= p, p <= Arrived(k),
           NEW j, j = [k EXCEPT !.pos = p]
    PROVE  InPlace(j) /\ Moved(k, j) /\ (~ Exhausted(j) => Ready(j)) /\ Attr(j) = Attr(k) /\ j.pos = p
<1>1. Placed(k) /\ Shaped(k) /\ k.pos \in Nat
    BY BlankIs, PlacedParts
<1>2. Placed(j) /\ Attr(j) = Attr(k)
    BY <1>1, MovedPlaced DEF Placed
<1>3. Moved(k, j) /\ j.pos = p
    BY <1>1 DEF Shaped, Moved
<1>4. Resumes(j) = j.pos
    BY <1>3 DEF Resumes, LookAhead, Moved
<1>5. Arrived(j) = Arrived(k)
    BY <1>3 DEF Moved, Arrived, Limit, Base
<1>6. j.state \in MarkStates => j.tok.raw_begin <= j.tok.mark /\ j.tok.mark <= j.pos
  <2>1. SUFFICES ASSUME k.state \in MarkStates
                 PROVE  k.tok.raw_begin <= k.tok.mark /\ k.tok.mark <= p
    BY <1>3 DEF Moved
  <2>2. k.tok.raw_begin <= k.tok.mark /\ k.tok.mark <= k.pos
    BY <2>1 DEF InPlace
  <2>3. k.tok.mark \in Nat
    BY <1>1, PlacedParts
  <2>4. QED
    BY <1>1, <2>2, <2>3
<1>7. InPlace(j)
    BY <1>2, <1>3, <1>4, <1>5, <1>6 DEF InPlace, Placed, Moved, LookAhead
<1>8. j.chain # <<>>
    BY <1>3 DEF Moved, Ready
<1>9. QED
    BY <1>2, <1>3, <1>7, <1>8, InPlaceIs

\* The scans of the states.
LEMMA ScanLands ==
    ASSUME NEW k, InPlace(k), Ready(k), k.state \notin LookAhead
    PROVE  \A j : \/ \E stops : j = Seek(k, stops)
                  \/ j = SkipSpace(k)
                  \/ j = NameEnd(k)
                  => InPlace(j) /\ Moved(k, j) /\ (~ Exhausted(j) => Ready(j)) /\ Attr(j) = Attr(k)
                     /\ j.pos \in Nat /\ k.pos <= j.pos
<1>1. SUFFICES ASSUME NEW j, \/ \E stops : j = Seek(k, stops)
                             \/ j = SkipSpace(k)
                             \/ j = NameEnd(k)
               PROVE  InPlace(j) /\ Moved(k, j) /\ (~ Exhausted(j) => Ready(j)) /\ Attr(j) = Attr(k)
                      /\ j.pos \in Nat /\ k.pos <= j.pos
    OBVIOUS
<1>2. PICK p \in Nat : j = [k EXCEPT !.pos = p] /\ k.pos <= p /\ p <= Arrived(k)
    BY <1>1, ScanStops
<1>3. QED
    BY <1>2, MovedLands

\* The spans of a token that is renamed are in place as they were.
LEMMA SameLands ==
    ASSUME NEW k, NEW j, Same(k, j), j.state = k.state
    PROVE  /\ InPlace(k) => InPlace(j)
           /\ Exhausted(j) <=> Exhausted(k)
<1>1. /\ \A p : PlacedAt(k, p) => PlacedAt(j, p)
      /\ Attr(j) = Attr(k) /\ Limit(j) = Limit(k) /\ Arrived(j) = Arrived(k)
    BY SameStays
<1>2. Resumes(j) = Resumes(k)
    BY DEF Resumes, Same
<1>3. NoDashes(k) => NoDashes(j)
    BY <1>1 DEF NoDashes, Same
<1>4. QED
    BY <1>1, <1>2, <1>3 DEF InPlace, Same, Exhausted

\* Names and types have no say in the state.
LEMMA RenamedState ==
    ASSUME NEW k, Shaped(k)
    PROVE  /\ \A tag : Tag(k, tag).state = k.state
           /\ \A types : Type(k, types).state = k.state /\ Typed(k, types).state = k.state
           /\ NotSpace(k).state = k.state
    BY DEF Shaped, Tag, Type, Typed, NotSpace

\* What the scan of data has learnt.
LEMMA ScannedSame ==
    ASSUME NEW k, NEW j, Shaped(j)
    PROVE  Same(j, Scanned(k, j)) /\ Scanned(k, j).state = j.state
<1>1. PICK i : i = NotSpace(j)
    OBVIOUS
<1>2. Same(j, i) /\ i.state = j.state /\ Shaped(i)
    BY <1>1, RenamedSame, RenamedState DEF Same
<1>3. PICK h : h = Type(i, {"DATA"})
    OBVIOUS
<1>4. Same(i, h) /\ h.state = i.state
    BY <1>2, <1>3, RenamedSame, RenamedState
<1>5. Same(j, h) /\ h.state = j.state
    BY <1>2, <1>4 DEF Same
<1>6. Same(j, j)
    BY DEF Same
<1>7. Scanned(k, j) = j \/ Scanned(k, j) = h
    BY <1>1, <1>3, Zenon DEF Scanned
<1>8. QED
    BY <1>5, <1>6, <1>7

\* Outside of tags and doctypes the token has no span yet.
LEMMA TextBlank ==
    ASSUME NEW k, InPlace(k), Ready(k), k.state \notin LengthStates
    PROVE  Blank(k)
    BY DEF InPlace, Blank

\* A lexer without a span goes on to a state.
LEMMA BlankLands ==
    ASSUME NEW k, Blank(k), NEW s, s \notin Sure
    PROVE  InPlace(Goto(k, s)) /\ InPlace(Enter(k, s))
    BY EnterLands, BlankIs

-----------------------------------------------------------------------------
(* The states of data, tags and comments leave the spans in their places. *)

\* Data and the opening of a tag.
LEMMA OpeningLands ==
    ASSUME NEW k, InPlace(k), Ready(k)
    PROVE  /\ k.state = "DATA" => InPlace(DataState(k))
           /\ k.state = "TAG_OPEN" => InPlace(TagOpenState(k))
           /\ k.state = "END_TAG_OPEN" => InPlace(EndTagOpenState(k))
           /\ k.state = "TAG_NAME" => InPlace(TagNameState(k))
           /\ k.state = "SELF_CLOSING_START_TAG" => InPlace(SelfClosingStartTagState(k))
<1>1. k.pos \in Nat /\ Shaped(k)
    BY BlankIs, PlacedParts
<1>2. ASSUME k.state = "DATA" PROVE InPlace(DataState(k))
  <2>1. PICK h : h = Seek(k, {"<"})
    OBVIOUS
  <2>2. k.state \notin LookAhead /\ k.state \notin LengthStates
    BY <1>2 DEF LookAhead, LengthStates, AttributeStates, DoctypeStates
  <2>3. InPlace(h) /\ Moved(k, h) /\ (~ Exhausted(h) => Ready(h))
    BY <2>1, <2>2, ScanLands
  <2>4. PICK j : j = Scanned(k, h)
    OBVIOUS
  <2>5. Same(h, j) /\ j.state = h.state
    <3>1. Shaped(h)
      BY <2>3, InPlaceIs, BlankIs
    <3>2. QED
      BY <2>4, <3>1, ScannedSame
  <2>6. InPlace(j) /\ (~ Exhausted(j) => Ready(j)) /\ j.state = k.state
    BY <2>3, <2>5, SameLands, SameStays DEF Moved
  <2>7. ~ Exhausted(j) => InPlace(Enter(j, "TAG_OPEN"))
    BY <2>2, <2>6, TextBlank, BlankLands DEF Sure, NoValueYet, MarkStates, LookAhead
  <2>8. QED
    BY <2>1, <2>4, <2>6, <2>7 DEF DataState
<1>3. ASSUME k.state \in {"TAG_OPEN", "END_TAG_OPEN"} PROVE Blank(k)
  <2>1. k.state \notin LengthStates
    BY <1>3 DEF LengthStates, AttributeStates, DoctypeStates
  <2>2. QED
    BY <2>1, TextBlank
<1>4. ASSUME Blank(k), NEW upto \in Int, upto <= k.pos
      PROVE  /\ Blank(Begin(CreateTextNodeIfNeed(k, upto, "DATA")))
             /\ \A types : Blank(Typed(Begin(CreateTextNodeIfNeed(k, upto, "DATA")), types))
             /\ InPlace(Goto(Begin(Eat(CreateTextNodeIfNeed(k, upto, "DATA"), 1)), "MARKUP_DECLARATION_OPEN"))
  <2>1. PICK c : c = CreateTextNodeIfNeed(k, upto, "DATA")
    OBVIOUS
  <2>2. Blank(c)
    BY <1>4, <2>1, TextNodeStays
  <2>3. Blank(Begin(c)) /\ \A types : Blank(Typed(Begin(c), types))
    BY <2>2, BlankStays, Zenon
  <2>4. PICK e : e = Eat(c, 1)
    OBVIOUS
  <2>5. Placed(e) /\ e.tok.raw_length = 0
    <3>1. Ready(c) /\ c.tok.raw_length = 0
      BY <2>2, BlankIs
    <3>2. Placed(e) /\ e.tok = c.tok
      BY <2>4, <3>1, ReadyStays, Zenon
    <3>3. QED
      BY <3>1, <3>2
  <2>6. PICK b : b = Begin(e)
    OBVIOUS
  <2>7. Placed(b) /\ Beside(e, b) /\ b.tok.raw_length = 0 /\ Shaped(b)
    BY <2>5, <2>6, SpanStays, BlankIs
  <2>8. b.tok.raw_begin = b.pos
    BY <2>5, <2>6, BlankIs DEF Begin, Shaped
  <2>9. PICK j : j = Goto(b, "MARKUP_DECLARATION_OPEN")
    OBVIOUS
  <2>10. Placed(j) /\ j.state = "MARKUP_DECLARATION_OPEN" /\ Same(b, j)
    BY <2>7, <2>9, GotoStays
  <2>11. Resumes(j) = j.pos /\ NoDashes(j) /\ j.pos = j.tok.raw_begin /\ j.tok.raw_length = 0
    BY <2>7, <2>8, <2>10 DEF Resumes, Same, NoDashes
  <2>12. j.pos \in Nat /\ j.pos <= Arrived(j)
    BY <2>10 DEF Placed, PlacedAt
  <2>13. InPlace(j)
    BY <2>10, <2>11, <2>12 DEF InPlace, Placed, NoValueYet, MarkStates
  <2>14. QED
    BY <2>1, <2>3, <2>4, <2>6, <2>9, <2>13
<1>5. ASSUME k.state = "TAG_OPEN" PROVE InPlace(TagOpenState(k))
  <2>1. Blank(k) /\ k.pos - 1 \in Int /\ k.pos - 1 <= k.pos
    BY <1>1, <1>3, <1>5
  <2>2. \A s \in {"TAG_NAME", "END_TAG_OPEN", "BOGUS_COMMENT", "DATA"} : s \notin Sure
    BY DEF Sure, NoValueYet, MarkStates, LookAhead
  <2>3. Blank(NotSpace(k))
    BY <2>1, BlankStays
  <2>4. /\ InPlace(Goto(Begin(CreateTextNodeIfNeed(k, k.pos - 1, "DATA")), "TAG_NAME"))
        /\ InPlace(Goto(Begin(CreateTextNodeIfNeed(k, k.pos - 1, "DATA")), "BOGUS_COMMENT"))
        /\ InPlace(Goto(Begin(Eat(CreateTextNodeIfNeed(k, k.pos - 1, "DATA"), 1)), "MARKUP_DECLARATION_OPEN"))
    BY <1>4, <2>1, <2>2, BlankLands
  <2>5. InPlace(Enter(k, "END_TAG_OPEN")) /\ InPlace(Goto(NotSpace(k), "DATA"))
    BY <2>1, <2>2, <2>3, BlankLands
  <2>6. QED
    BY <2>4, <2>5, Zenon DEF TagOpenState
<1>6. ASSUME k.state = "END_TAG_OPEN" PROVE InPlace(EndTagOpenState(k))
  <2>1. Blank(k) /\ k.pos - 2 \in Int /\ k.pos - 2 <= k.pos
    BY <1>1, <1>3, <1>6
  <2>2. \A s \in {"TAG_NAME", "BOGUS_COMMENT", "DATA"} : s \notin Sure
    BY DEF Sure, NoValueYet, MarkStates, LookAhead
  <2>3. /\ InPlace(Goto(Typed(Begin(CreateTextNodeIfNeed(k, k.pos - 2, "DATA")), {"CLOSE"}), "TAG_NAME"))
        /\ InPlace(Goto(Begin(CreateTextNodeIfNeed(k, k.pos - 2, "DATA")), "BOGUS_COMMENT"))
        /\ InPlace(Enter(k, "DATA"))
    BY <1>4, <2>1, <2>2, BlankLands
  <2>4. QED
    BY <2>3, Zenon DEF EndTagOpenState
<1>7. ASSUME k.state = "TAG_NAME" PROVE InPlace(TagNameState(k))
  <2>1. k.state \notin LookAhead
    BY <1>7 DEF LookAhead
  <2>2. ASSUME NEW j, Ready(j) PROVE InPlace(TagNameAt(j))
    <3>1. PICK n : n = CheckTagParser(Length(j))
      OBVIOUS
    <3>2. Ready(Length(j))
      BY <2>2, ReadyStays
    <3>3. Ready(n)
      BY <3>1, <3>2, ReadyStays
    <3>4. \A s \in {"BEFORE_ATTRIBUTE_NAME", "SELF_CLOSING_START_TAG"} : s \in LengthStates /\ s \notin Sure
      BY DEF LengthStates, AttributeStates, Sure, NoValueYet, MarkStates, LookAhead
    <3>5. InPlace(Enter(n, "BEFORE_ATTRIBUTE_NAME")) /\ InPlace(Enter(n, "SELF_CLOSING_START_TAG")) /\ InPlace(CloseTag(n))
      BY <3>3, <3>4, EnterLands, CloseLands
    <3>6. QED
      BY <3>1, <3>5, Zenon DEF TagNameAt
  <2>3. QED
    BY <2>1, <2>2, ScanLands, Zenon DEF TagNameState, Stops
<1>8. ASSUME k.state = "SELF_CLOSING_START_TAG" PROVE InPlace(SelfClosingStartTagState(k))
  <2>1. Ready(Type(k, {"CLOSE_SELF"}))
    BY ReadyStays
  <2>2. "BEFORE_ATTRIBUTE_NAME" \in LengthStates /\ "BEFORE_ATTRIBUTE_NAME" \notin Sure
    BY DEF LengthStates, AttributeStates, Sure, NoValueYet, MarkStates, LookAhead
  <2>3. QED
    BY <2>1, <2>2, EnterLands, CloseLands DEF SelfClosingStartTagState
<1>9. QED
    BY <1>2, <1>5, <1>6, <1>7, <1>8

\* A character is passed, and the state stays.
LEMMA EatLands ==
    ASSUME NEW k, InPlace(k), Ready(k), k.state \notin LookAhead
    PROVE  InPlace(Eat(k, 1))
<1>1. Placed(k) /\ k.pos \in Nat /\ k.pos < Limit(k) /\ Limit(k) = Arrived(k) /\ Arrived(k) \in Nat
    BY BlankIs, PlacedParts, ArrivedIs DEF Ready, Placed, PlacedAt
<1>2. PICK p \in Nat : p = k.pos + 1 /\ k.pos <= p /\ p <= Arrived(k)
    BY <1>1
<1>3. PICK j : j = [k EXCEPT !.pos = p]
    OBVIOUS
<1>4. InPlace(j)
    BY <1>2, <1>3, MovedLands
<1>5. QED
    BY <1>2, <1>3, <1>4 DEF Eat

\* The word at a place that has come in is the document's.
LEMMA WordIs ==
    ASSUME NEW k, Placed(k), k.chain # <<>>, NEW begin \in Nat, NEW length \in Nat,
           ~ Awaits(k, begin, length)
    PROVE  /\ WordAt(k, begin, length) = SubSeq(k.doc, begin + 1, begin + length)
           /\ begin + length <= Arrived(k)
<1>1. /\ Chained(k.chain, k.doc) /\ Limit(k) = EndOf(k.chain[Len(k.chain)])
      /\ Limit(k) = Arrived(k) /\ Arrived(k) \in Nat
    BY ArrivedIs DEF Placed, PlacedAt
<1>2. begin + length <= Arrived(k)
    BY <1>1 DEF Awaits
<1>3. begin + length <= EndOf(k.chain[Len(k.chain)])
    BY <1>1, <1>2
<1>4. QED
    BY <1>1, <1>2, <1>3, ChainReads DEF WordAt

\* Behind "<!" the lexer looks ahead.
LEMMA DeclarationLands ==
    ASSUME NEW k, InPlace(k), Ready(k), k.state = "MARKUP_DECLARATION_OPEN"
    PROVE  InPlace(MarkupDeclarationOpenState(k))
<1>1. PICK b : b = k.tok.raw_begin
    OBVIOUS
<1>2. /\ b \in Nat /\ k.pos \in Nat /\ Shaped(k) /\ Placed(k) /\ PlacedAt(k, b) /\ b <= k.pos
      /\ k.tok.raw_length = 0 /\ k.pos <= b + 2 /\ NoDashes(k) /\ Blank(k)
  <2>1. Placed(k) /\ Shaped(k) /\ b \in Nat /\ k.pos \in Nat
    BY <1>1, BlankIs, PlacedParts
  <2>2. k.state \notin LengthStates
    BY DEF LengthStates, AttributeStates, DoctypeStates
  <2>3. Resumes(k) = b
    BY <1>1 DEF Resumes
  <2>4. QED
    BY <1>1, <2>1, <2>2, <2>3, TextBlank DEF InPlace
<1>3. PICK l \in Nat : l = Limit(k) /\ l = Arrived(k) /\ k.pos < l /\ k.chain # <<>>
    BY <1>2, ArrivedIs DEF Ready, PlacedAt
<1>4. ASSUME NEW p \in Nat, b <= p, p <= l
      PROVE  /\ Placed([k EXCEPT !.pos = p]) /\ Shaped([k EXCEPT !.pos = p])
             /\ [k EXCEPT !.pos = p].pos = p /\ [k EXCEPT !.pos = p].tok = k.tok
             /\ [k EXCEPT !.pos = p].state = k.state /\ [k EXCEPT !.pos = p].doc = k.doc
             /\ Arrived([k EXCEPT !.pos = p]) = l
  <2>1. Placed([k EXCEPT !.pos = p]) /\ Shaped([k EXCEPT !.pos = p])
    BY <1>2, <1>3, <1>4, MovedPlaced
  <2>2. PICK j : j = [k EXCEPT !.pos = p]
    OBVIOUS
  <2>3. j.pos = p /\ j.tok = k.tok /\ j.state = k.state /\ j.doc = k.doc /\ j.chain = k.chain
    BY <1>2, <2>2 DEF Shaped
  <2>4. Arrived(j) = l
    BY <1>3, <2>3 DEF Arrived, Limit, Base
  <2>5. QED
    BY <2>1, <2>2, <2>3, <2>4
<1>5. ASSUME \/ l = b + 1
             \/ l = b + 2 /\ SubSeq(k.doc, b + 1, b + 2) # <<"-", "-">>
      PROVE  InPlace(WaitForMore(k))
  <2>1. PICK j : j = [k EXCEPT !.pos = l]
    OBVIOUS
  <2>2. /\ Placed(j) /\ j.pos = l /\ j.tok = k.tok /\ j.state = k.state /\ j.doc = k.doc
        /\ Arrived(j) = l
    <3>1. b <= l /\ l <= l
      BY <1>2, <1>3
    <3>2. QED
      BY <1>4, <2>1, <3>1, Zenon
  <2>3. PlacedAt(j, b)
    <3>1. /\ Shaped(j) /\ j.doc = k.doc /\ j.chain = k.chain /\ j.tok = k.tok /\ j.attr = k.attr
          /\ j.out = k.out
      BY <1>2, <2>1 DEF Shaped
    <3>2. QED
      BY <1>2, <1>3, <2>2, <3>1 DEF PlacedAt
  <2>4. Resumes(j) = b /\ NoDashes(j) /\ j.pos <= b + 2
    <3>1. Resumes(j) = b
      BY <1>1, <2>2 DEF Resumes
    <3>2. j.tok.raw_begin = b /\ j.pos = l /\ Arrived(j) = l /\ j.doc = k.doc
      BY <1>1, <2>2
    <3>3. NoDashes(j)
      BY <1>5, <3>2 DEF NoDashes
    <3>4. j.pos <= b + 2
      BY <1>2, <1>5, <3>2
    <3>5. QED
      BY <3>1, <3>3, <3>4
  <2>5. InPlace(j)
    BY <1>1, <1>2, <1>3, <1>5, <2>2, <2>3, <2>4 DEF InPlace, NoValueYet, MarkStates
  <2>6. QED
    BY <1>3, <2>1, <2>5 DEF WaitForMore
<1>6. ASSUME Awaits(k, b, 2) PROVE InPlace(WaitForMore(k))
  <2>1. l = b + 1
    BY <1>2, <1>3, <1>6 DEF Awaits
  <2>2. QED
    BY <1>5, <2>1
<1>7. WordLength = 3
    BY DEF WordLength, DoctypeWord
<1>8. ASSUME ~ Awaits(k, b, 2), WordAt(k, b, 2) = <<"-", "-">>
      PROVE  InPlace(Goto(Begin(Eat(k, 2)), "COMMENT_START"))
  <2>1. SubSeq(k.doc, b + 1, b + 2) = <<"-", "-">> /\ b + 2 <= l
    <3>1. 2 \in Nat
      OBVIOUS
    <3>2. QED
      BY <1>2, <1>3, <1>8, <3>1, WordIs, ZenonT(30)
  <2>2. k.pos = b
    BY <1>1, <1>2, <1>3, <2>1 DEF NoDashes
  <2>3. PICK p \in Nat : p = b + 2 /\ b <= p /\ p <= l
    BY <1>2, <2>1
  <2>4. PICK e : e = [k EXCEPT !.pos = p]
    OBVIOUS
  <2>5. Eat(k, 2) = e
    BY <2>2, <2>3, <2>4 DEF Eat
  <2>6. Placed(e) /\ e.tok.raw_length = 0
    BY <1>2, <1>4, <2>3, <2>4
  <2>7. PICK j : j = Begin(e)
    OBVIOUS
  <2>8. Placed(j) /\ j.tok.raw_length = 0 /\ Shaped(j)
    BY <2>6, <2>7, SpanStays, BlankIs
  <2>9. Placed(Goto(j, "COMMENT_START")) /\ Goto(j, "COMMENT_START").state = "COMMENT_START"
        /\ Same(j, Goto(j, "COMMENT_START"))
    BY <2>8, GotoStays
  <2>10. InPlace(Goto(j, "COMMENT_START"))
    BY <2>8, <2>9, Lands DEF Same, NoValueYet, MarkStates, LookAhead
  <2>11. QED
    BY <2>5, <2>7, <2>10
<1>9. ASSUME ~ Awaits(k, b, 2), WordAt(k, b, 2) # <<"-", "-">>, Awaits(k, b, 3)
      PROVE  InPlace(WaitForMore(k))
  <2>1. SubSeq(k.doc, b + 1, b + 2) # <<"-", "-">> /\ b + 2 <= l
    <3>1. 2 \in Nat
      OBVIOUS
    <3>2. QED
      BY <1>2, <1>3, <1>9, <3>1, WordIs, ZenonT(30)
  <2>2. l = b + 2
    BY <1>2, <1>3, <1>9, <2>1 DEF Awaits
  <2>3. QED
    BY <1>5, <2>1, <2>2
<1>10. ASSUME ~ Awaits(k, b, 3)
       PROVE  /\ InPlace(Goto(Tag([k EXCEPT !.pos = b + 3, !.tok.raw_length = 3], Doctype), "DOCTYPE"))
              /\ InPlace(Goto(NotSpace(Tag(Begin([k EXCEPT !.pos = b + 3]), Text)), "CDATA_SECTION"))
  <2>1. PICK p \in Nat : p = b + 3 /\ b <= p /\ p <= l
    BY <1>2, <1>3, <1>10 DEF Awaits
  <2>2. PICK e : e = [k EXCEPT !.pos = p]
    OBVIOUS
  <2>3. Placed(e) /\ e.tok.raw_length = 0 /\ e.tok.raw_begin = b /\ e.pos = p
    BY <1>1, <1>2, <1>4, <2>1, <2>2
  <2>4. ASSUME NEW j, Placed(j), NEW s, s \in {"DOCTYPE", "CDATA_SECTION"},
               s = "DOCTYPE" \/ j.tok.raw_length = 0
        PROVE  InPlace(Goto(j, s))
    <3>1. Placed(Goto(j, s)) /\ Goto(j, s).state = s /\ Same(j, Goto(j, s))
      BY <2>4, GotoStays, BlankIs
    <3>2. QED
      BY <2>4, <3>1, Lands DEF Same, NoValueYet, MarkStates, LookAhead, LengthStates, DoctypeStates
  <2>5. InPlace(Goto(Tag([k EXCEPT !.pos = p, !.tok.raw_length = 3], Doctype), "DOCTYPE"))
    <3>1. PICK j : j = [e EXCEPT !.tok.raw_length = 3]
      OBVIOUS
    <3>2. j = [k EXCEPT !.pos = p, !.tok.raw_length = 3]
      BY <1>2, <2>2, <3>1 DEF Shaped
    <3>3. 3 \in Nat /\ e.tok.raw_begin + 3 <= e.pos
      BY <1>2, <2>1, <2>3
    <3>4. Placed(j) /\ Shaped(j)
      BY <2>3, <3>1, <3>3, SpanStays, BlankIs, Zenon
    <3>5. Placed(Tag(j, Doctype))
      BY <3>4, RenamedSame, SameStays, Zenon
    <3>6. QED
      BY <2>4, <3>2, <3>5
  <2>6. InPlace(Goto(NotSpace(Tag(Begin(e), Text)), "CDATA_SECTION"))
    <3>1. PICK j : j = Begin(e)
      OBVIOUS
    <3>2. Placed(j) /\ j.tok.raw_length = 0 /\ Shaped(j)
      BY <2>3, <3>1, SpanStays, BlankIs
    <3>3. PICK h : h = Tag(j, Text)
      OBVIOUS
    <3>4. Placed(h) /\ Same(j, h)
      BY <3>2, <3>3, RenamedSame, SameStays, Zenon
    <3>5. PICK i : i = NotSpace(h)
      OBVIOUS
    <3>6. Placed(i) /\ Same(h, i)
      BY <3>4, <3>5, RenamedSame, SameStays, Zenon DEF Same
    <3>7. i.tok.raw_length = 0
      BY <3>2, <3>4, <3>6 DEF Same
    <3>8. QED
      BY <2>4, <3>1, <3>3, <3>5, <3>6, <3>7
  <2>7. QED
    BY <2>1, <2>2, <2>5, <2>6
<1>11. InPlace(Goto(k, "BOGUS_COMMENT"))
    BY <1>2, BlankLands DEF Sure, NoValueYet, MarkStates, LookAhead
<1>12. QED
    BY <1>1, <1>6, <1>7, <1>8, <1>9, <1>10, <1>11, ZenonT(60) DEF MarkupDeclarationOpenState

\* A lexer whose scan starts anew: the comment is bogus.
LEMMA BogusParts ==
    ASSUME NEW m, Ready(m), NEW types
    PROVE  \E i, p : /\ i = Type(Tag(m, Comment), types) /\ Same(m, i) /\ i.state = m.state /\ Ready(i)
                     /\ p \in Nat /\ Seek(i, {">"}) = [i EXCEPT !.pos = p] /\ m.pos <= p /\ p <= Arrived(m)
<1>1. Shaped(m)
    BY BlankIs
<1>2. PICK h : h = Tag(m, Comment)
    OBVIOUS
<1>3. Same(m, h) /\ h.state = m.state /\ Shaped(h)
    BY <1>1, <1>2, RenamedSame, RenamedState, BlankIs, Zenon
<1>4. PICK i : i = Type(h, types)
    OBVIOUS
<1>5. Same(h, i) /\ i.state = h.state
    BY <1>3, <1>4, RenamedSame, RenamedState, Zenon
<1>6. Same(m, i)
    BY <1>3, <1>5 DEF Same
<1>7. Ready(i) /\ Arrived(i) = Arrived(m) /\ i.pos = m.pos
    BY <1>6, SameStays DEF Same
<1>8. PICK p \in Nat : Seek(i, {">"}) = [i EXCEPT !.pos = p] /\ i.pos <= p /\ p <= Arrived(i)
    BY <1>7, ScanStops
<1>9. QED
    BY <1>2, <1>3, <1>4, <1>5, <1>6, <1>7, <1>8

\* Comments.
LEMMA CommentStatesLand ==
    ASSUME NEW k, InPlace(k), Ready(k), k.state \in CommentStates
    PROVE  InPlace(CommentFunction(k))
<1>1. k.state \notin LookAhead /\ Blank(k) /\ Shaped(k)
  <2>1. k.state \notin LookAhead /\ k.state \notin LengthStates
    BY DEF CommentStates, LookAhead, LengthStates, AttributeStates, DoctypeStates
  <2>2. QED
    BY <2>1, TextBlank, BlankIs
<1>2. \A s \in CommentStates : s \notin Sure
    BY DEF CommentStates, Sure, NoValueYet, MarkStates, LookAhead
<1>3. \A j : Blank(j) => \A s \in CommentStates : InPlace(Enter(j, s)) /\ InPlace(Goto(j, s))
    BY <1>2, BlankLands
<1>4. \A j : Blank(j) => /\ Blank(Tag(j, Comment))
                         /\ InPlace(CloseMarkup([j EXCEPT !.tok.raw_length = 0]))
                         /\ \A n \in Nat : InPlace(CloseMarkup(Cut(j, n)))
                         /\ InPlace(CloseMarkup(Length(j)))
  <2>1. SUFFICES ASSUME NEW j, Blank(j)
                 PROVE  /\ Blank(Tag(j, Comment))
                        /\ InPlace(CloseMarkup([j EXCEPT !.tok.raw_length = 0]))
                        /\ \A n \in Nat : InPlace(CloseMarkup(Cut(j, n)))
                        /\ InPlace(CloseMarkup(Length(j)))
    OBVIOUS
  <2>2. Blank(Tag(j, Comment)) /\ Ready([j EXCEPT !.tok.raw_length = 0])
    BY <2>1, BlankStays, BlankIs
  <2>3. Ready(j)
    BY <2>1, BlankIs
  <2>4. Ready(Length(j)) /\ \A n \in Nat : Ready(Cut(j, n))
    BY <2>3, ReadyStays
  <2>5. QED
    BY <2>2, <2>4, CloseLands
<1>5. CASE k.state = "COMMENT_START"
  <2>1. InPlace(CommentStartState(k))
    BY <1>1, <1>3, <1>4 DEF CommentStartState, CommentStates
  <2>2. QED
    BY <1>5, <2>1 DEF CommentFunction
<1>6. CASE k.state = "COMMENT_START_DASH"
  <2>1. InPlace(CommentStartDashState(k))
    BY <1>1, <1>3, <1>4 DEF CommentStartDashState, CommentStates
  <2>2. QED
    BY <1>6, <2>1 DEF CommentFunction
<1>7. ASSUME NEW j, Ready(j), InPlace(j), j.state = k.state PROVE Blank(j)
    BY <1>7, TextBlank DEF CommentStates, LengthStates, AttributeStates, DoctypeStates
<1>8. CASE k.state = "COMMENT"
  <2>1. PICK j : j = Seek(k, {"-"})
    OBVIOUS
  <2>2. InPlace(j) /\ j.state = k.state /\ (~ Exhausted(j) => Ready(j))
    BY <1>1, <2>1, ScanLands DEF Moved
  <2>3. ~ Exhausted(j) => InPlace(DashAt(j))
    BY <1>3, <1>7, <2>2 DEF DashAt, CommentStates
  <2>4. InPlace(CommentState(k))
    BY <2>1, <2>2, <2>3, Zenon DEF CommentState, Stops
  <2>5. QED
    BY <1>8, <2>4 DEF CommentFunction
<1>9. CASE k.state = "COMMENT_END_DASH"
  <2>1. InPlace(CommentEndDashState(k))
    BY <1>1, <1>3 DEF CommentEndDashState, CommentStates
  <2>2. QED
    BY <1>9, <2>1 DEF CommentFunction
<1>10. CASE k.state = "COMMENT_END"
  <2>1. InPlace(Eat(k, 1))
    BY <1>1, EatLands
  <2>2. InPlace(CommentEndState(k))
    BY <1>1, <1>3, <1>4, <2>1 DEF CommentEndState, CommentStates
  <2>3. QED
    BY <1>10, <2>2 DEF CommentFunction
<1>11. CASE k.state = "COMMENT_END_BANG"
  <2>1. InPlace(CommentEndBangState(k))
    BY <1>1, <1>3, <1>4 DEF CommentEndBangState, CommentStates
  <2>2. QED
    BY <1>11, <2>1 DEF CommentFunction
<1>12. CASE k.state = "BOGUS_COMMENT"
  <2>1. PICK m : m = [k EXCEPT !.pos = k.pos]
    OBVIOUS
  <2>2. InPlace(m) /\ Ready(m) /\ m.state = k.state
    <3>1. k.pos \in Nat /\ k.pos <= k.pos /\ k.pos <= Arrived(k)
      BY <1>1, BlankIs, PlacedParts DEF InPlace
    <3>2. InPlace(m) /\ Moved(k, m) /\ m.pos = k.pos
      BY <1>1, <2>1, <3>1, MovedLands
    <3>3. Ready(m)
      BY <3>2, InPlaceIs, BesideReady DEF Moved, Beside
    <3>4. QED
      BY <3>2, <3>3 DEF Moved
  <2>3. PICK i : /\ i = Type(Tag(m, Comment), {"COMMENT"}) /\ Same(m, i) /\ i.state = k.state /\ Ready(i)
    BY <2>2, BogusParts
  <2>4. InPlace(i)
    BY <2>2, <2>3, SameLands
  <2>5. PICK j : j = Seek(i, {">"})
    OBVIOUS
  <2>6. InPlace(j) /\ j.state = k.state /\ (~ Exhausted(j) => Ready(j))
    BY <1>1, <2>3, <2>4, <2>5, ScanLands DEF Moved
  <2>7. InPlace(BogusCommentState(k))
    <3>1. ~ Exhausted(j) => InPlace(BogusCommentAt(j))
      BY <1>4, <1>7, <2>6 DEF BogusCommentAt
    <3>2. QED
      BY <2>1, <2>3, <2>5, <2>6, <3>1 DEF BogusCommentState, BogusCommentFrom, Stops
  <2>8. QED
    BY <1>12, <2>7 DEF CommentFunction
<1>13. QED
    BY <1>5, <1>6, <1>8, <1>9, <1>10, <1>11, <1>12 DEF CommentStates

-----------------------------------------------------------------------------
(* The states of attributes do. *)

\* A name begins or ends: the value of the attribute is still to come.
LEMMA NoValueLands ==
    ASSUME NEW k, Ready(k), Attr(k).value_length = 0, NEW s \in NoValueYet
    PROVE  InPlace(Goto(k, s)) /\ InPlace(Enter(k, s)) /\ InPlace(Goto(Eat(k, 1), s))
<1>1. s \in LengthStates /\ s \notin LookAhead /\ s \notin MarkStates
    BY DEF NoValueYet, LengthStates, AttributeStates, LookAhead, MarkStates
<1>2. ASSUME NEW j, Placed(j), Attr(j).value_length = 0 PROVE InPlace(Goto(j, s))
  <2>1. PICK g : g = Goto(j, s)
    OBVIOUS
  <2>2. Placed(g) /\ g.state = s /\ Same(j, g)
    BY <1>2, <2>1, GotoStays, BlankIs
  <2>3. Attr(g) = Attr(j)
    BY <2>2, SameStays
  <2>4. Resumes(g) = g.pos /\ g.pos \in Nat /\ g.pos <= Arrived(g)
    BY <1>1, <2>2 DEF Resumes, LookAhead, Placed, PlacedAt
  <2>5. QED
    BY <1>1, <1>2, <2>1, <2>2, <2>3, <2>4 DEF InPlace, Placed, LookAhead
<1>3. Placed(Eat(k, 1)) /\ Attr(Eat(k, 1)) = Attr(k)
  <2>1. Placed(Eat(k, 1)) /\ Placed(k)
    BY ReadyStays
  <2>2. PICK e : e = [k EXCEPT !.pos = k.pos + 1]
    OBVIOUS
  <2>3. e.tok = k.tok /\ e.held = k.held /\ e.attr = k.attr
    BY <2>1, <2>2 DEF Placed, PlacedAt, Shaped
  <2>4. Attr(e) = Attr(k)
    BY <2>3 DEF Attr
  <2>5. QED
    BY <2>1, <2>2, <2>4 DEF Eat
<1>4. InPlace(Goto(k, s)) /\ InPlace(Goto(Eat(k, 1), s))
    BY <1>2, <1>3, BlankIs
<1>5. QED
    BY <1>4 DEF Enter

\* The next attribute: its name begins at the character at hand.
LEMMA NameBeginsInPlace ==
    ASSUME NEW k, Ready(k)
    PROVE  /\ Ready(KeyFrom(SetAttr(HoldAttr(k), FreshAttr)))
           /\ Attr(KeyFrom(SetAttr(HoldAttr(k), FreshAttr))).value_length = 0
           /\ Attr(k).key_length = 0 /\ k.held = FALSE
              => Ready(KeyFrom(HoldAttr(k)))
<1>1. Placed(k) /\ Shaped(k) /\ k.pos \in Nat /\ k.attr.key_length = 0
    BY BlankIs, PlacedParts
<1>2. PICK h : h = HoldAttr(k)
    OBVIOUS
<1>3. Ready(h) /\ Placed(h) /\ Beside(k, h) /\ Attr(h) = k.attr
    BY <1>1, <1>2, AttrStays, BesideReady
<1>4. h.held \in BOOLEAN
    BY <1>1, <1>2 DEF HoldAttr, Shaped
<1>5. AttrUpTo(FreshAttr, h.pos) /\ FreshAttr.key_length = 0 /\ FreshAttr.value_length = 0
  <2>1. h.pos \in Nat
    BY <1>3, PlacedParts
  <2>2. QED
    BY <2>1 DEF AttrUpTo, AttrShape, FreshAttr
<1>6. PICK g : g = SetAttr(h, FreshAttr)
    OBVIOUS
<1>7. Placed(g) /\ Beside(h, g) /\ g.held = h.held /\ Attr(g) = FreshAttr
    BY <1>3, <1>4, <1>5, <1>6, AttrSet, Zenon
<1>8. Ready(g)
    BY <1>3, <1>7, BesideReady
<1>9. Placed(KeyFrom(g)) /\ Beside(g, KeyFrom(g)) /\ Attr(KeyFrom(g)).value_length = 0
    BY <1>4, <1>5, <1>7, AttrWritten
<1>10. Ready(KeyFrom(g))
    BY <1>8, <1>9, BesideReady
<1>11. Placed(KeyFrom(h)) /\ Beside(h, KeyFrom(h))
    BY <1>1, <1>3, <1>4, AttrWritten
<1>12. Ready(KeyFrom(h))
    BY <1>3, <1>11, BesideReady
<1>13. QED
    BY <1>2, <1>6, <1>9, <1>10, <1>12

\* Attributes.
LEMMA AttributeStatesLand ==
    ASSUME NEW k, InPlace(k), Ready(k), Sound(k), k.state \in AttributeStates
    PROVE  InPlace(AttributeFunction(k))
<1>1. /\ k.held \in BOOLEAN
      /\ k.state \in ReadsAttr => Listed(k)
    BY DEF Sound, Free, Bound, Listed
<1>2. k.state \notin LookAhead
    BY DEF AttributeStates, LookAhead
<1>3. \A s \in AttributeStates \ NoValueYet : s \in LengthStates /\ s \notin Sure
    BY DEF AttributeStates, NoValueYet, LengthStates, Sure, MarkStates, LookAhead
<1>4. \A j : Ready(j) => \A s \in AttributeStates \ NoValueYet : InPlace(Enter(j, s)) /\ InPlace(Goto(j, s))
    BY <1>3, EnterLands
<1>5. \A s \in {"BEFORE_ATTRIBUTE_NAME", "AFTER_ATTRIBUTE_VALUE_QUOTED", "ATTRIBUTE_VALUE_DOUBLE_QUOTED",
                "ATTRIBUTE_VALUE_SINGLE_QUOTED", "ATTRIBUTE_VALUE_UNQUOTED"} : s \in AttributeStates \ NoValueYet
    BY DEF AttributeStates, NoValueYet
<1>6. \A j : Moved(k, j) => j.held \in BOOLEAN /\ (Listed(k) => Listed(j)) /\ j.state = k.state
    BY <1>1 DEF Moved, Listed
<1>7. CASE k.state = "BEFORE_ATTRIBUTE_NAME"
  <2>1. PICK j : j = SkipSpace(k)
    OBVIOUS
  <2>2. InPlace(j) /\ Moved(k, j) /\ (~ Exhausted(j) => Ready(j))
    BY <1>2, <2>1, ScanLands
  <2>3. ASSUME Ready(j) PROVE InPlace(BeforeAttributeNameAt(j))
    <3>1. InPlace(Eat(Type(j, {"CLOSE_SELF"}), 1))
      <4>1. PICK i : i = Type(j, {"CLOSE_SELF"})
        OBVIOUS
      <4>2. Same(j, i) /\ i.state = j.state
        BY <2>3, <4>1, BlankIs, RenamedSame, RenamedState
      <4>3. InPlace(i) /\ Ready(i)
        BY <2>2, <2>3, <4>2, SameLands, SameStays
      <4>4. i.state \notin LookAhead
        BY <1>2, <2>2, <4>2 DEF Moved
      <4>5. QED
        BY <4>1, <4>3, <4>4, EatLands
    <3>2. PICK n : n = KeyFrom(SetAttr(HoldAttr(j), FreshAttr))
      OBVIOUS
    <3>3. InPlace(Goto(n, "ATTRIBUTE_NAME")) /\ InPlace(Goto(Eat(n, 1), "ATTRIBUTE_NAME"))
      BY <2>3, <3>2, NameBeginsInPlace, NoValueLands DEF NoValueYet
    <3>4. InPlace(CloseTag(j))
      BY <2>3, CloseLands
    <3>5. QED
      BY <3>1, <3>2, <3>3, <3>4 DEF BeforeAttributeNameAt
  <2>4. InPlace(BeforeAttributeNameState(k))
    BY <2>1, <2>2, <2>3, Zenon DEF BeforeAttributeNameState, Stops
  <2>5. QED
    BY <1>7, <2>4 DEF AttributeFunction
<1>8. CASE k.state = "ATTRIBUTE_NAME"
  <2>1. PICK j : j = Seek(k, Space \cup {"=", ">", "/"})
    OBVIOUS
  <2>2. InPlace(j) /\ Moved(k, j) /\ (~ Exhausted(j) => Ready(j))
    BY <1>2, <2>1, ScanLands, Zenon
  <2>3. j.held \in BOOLEAN /\ Listed(j) /\ j.state = k.state
    BY <1>1, <1>6, <1>8, <2>2 DEF ReadsAttr
  <2>4. Attr(j).value_length = 0
    BY <1>8, <2>2, <2>3 DEF InPlace, NoValueYet
  <2>5. ASSUME Ready(j) PROVE InPlace(AttributeNameAt(j))
    <3>1. PICK n : n = KeyTo(j)
      OBVIOUS
    <3>2. Placed(n) /\ Beside(j, n) /\ Attr(n).value_length = 0
      BY <2>3, <2>4, <2>5, <3>1, AttrWritten, BlankIs
    <3>3. Ready(n)
      BY <2>5, <3>2, BesideReady
    <3>4. InPlace(Enter(n, "AFTER_ATTRIBUTE_NAME")) /\ InPlace(Enter(n, "BEFORE_ATTRIBUTE_VALUE"))
      BY <3>2, <3>3, NoValueLands DEF NoValueYet
    <3>5. InPlace(NewAttr(CloseTag(n)))
      BY <3>3, CloseLands
    <3>6. Ready(Type(n, {"CLOSE_SELF"}))
      BY <3>3, ReadyStays
    <3>7. Ready(NewAttr(Type(n, {"CLOSE_SELF"})))
      BY <3>6, ReadyStays
    <3>8. InPlace(Enter(NewAttr(Type(n, {"CLOSE_SELF"})), "BEFORE_ATTRIBUTE_NAME"))
      BY <1>4, <1>5, <3>7
    <3>9. QED
      BY <3>1, <3>4, <3>5, <3>8, Zenon DEF AttributeNameAt
  <2>6. InPlace(AttributeNameState(k))
    BY <2>1, <2>2, <2>5, Zenon DEF AttributeNameState, Stops
  <2>7. QED
    BY <1>8, <2>6 DEF AttributeFunction
<1>9. CASE k.state = "AFTER_ATTRIBUTE_NAME"
  <2>1. PICK j : j = SkipSpace(k)
    OBVIOUS
  <2>2. InPlace(j) /\ Moved(k, j) /\ (~ Exhausted(j) => Ready(j))
    BY <1>2, <2>1, ScanLands
  <2>3. Attr(j).value_length = 0
    BY <1>9, <2>2 DEF InPlace, NoValueYet, Moved
  <2>4. ASSUME Ready(j) PROVE InPlace(AfterAttributeNameAt(j))
    <3>1. InPlace(Enter(j, "BEFORE_ATTRIBUTE_VALUE"))
      BY <2>3, <2>4, NoValueLands DEF NoValueYet
    <3>2. InPlace(NewAttr(CloseTag(j)))
      BY <2>4, CloseLands
    <3>3. Ready(NewAttr(j))
      BY <2>4, ReadyStays
    <3>4. InPlace(Goto(KeyFrom(SetAttr(HoldAttr(NewAttr(j)), FreshAttr)), "ATTRIBUTE_NAME"))
      BY <3>3, NameBeginsInPlace, NoValueLands DEF NoValueYet
    <3>5. QED
      BY <3>1, <3>2, <3>4, Zenon DEF AfterAttributeNameAt
  <2>5. InPlace(AfterAttributeNameState(k))
    BY <2>1, <2>2, <2>4, Zenon DEF AfterAttributeNameState, Stops
  <2>6. QED
    BY <1>9, <2>5 DEF AttributeFunction
<1>10. CASE k.state = "BEFORE_ATTRIBUTE_VALUE"
  <2>1. PICK j : j = SkipSpace(k)
    OBVIOUS
  <2>2. InPlace(j) /\ Moved(k, j) /\ (~ Exhausted(j) => Ready(j)) /\ j.held \in BOOLEAN
    BY <1>2, <1>6, <2>1, ScanLands
  <2>3. Attr(j).value_length = 0
    BY <1>10, <2>2 DEF InPlace, NoValueYet, Moved
  <2>4. ASSUME Ready(j) PROVE InPlace(BeforeAttributeValueAt(j))
    <3>1. InPlace(NewAttr(CloseTag(j)))
      BY <2>4, CloseLands
    <3>2. ASSUME NEW e, Placed(e), Attr(e) = Attr(j), e.held = j.held,
                 NEW s \in {"ATTRIBUTE_VALUE_DOUBLE_QUOTED", "ATTRIBUTE_VALUE_SINGLE_QUOTED",
                            "ATTRIBUTE_VALUE_UNQUOTED"}
          PROVE  InPlace(ValueFrom(Goto(e, s)))
      <4>1. PICK g : g = Goto(e, s)
        OBVIOUS
      <4>2. Placed(g) /\ g.state = s /\ Same(e, g)
        BY <3>2, <4>1, GotoStays, BlankIs
      <4>3. Attr(g).value_length = 0 /\ g.held \in BOOLEAN
        BY <2>2, <2>3, <3>2, <4>2, SameStays DEF Same
      <4>4. Placed(ValueFrom(g)) /\ ValueFrom(g).state = s
        BY <4>2, <4>3, AttrWritten
      <4>5. s \in LengthStates /\ s \notin Sure
        BY <1>3, <1>5, <3>2
      <4>6. QED
        BY <4>1, <4>4, <4>5, Lands DEF Sure
    <3>3. Placed(Eat(j, 1)) /\ Attr(Eat(j, 1)) = Attr(j) /\ Eat(j, 1).held = j.held
      <4>1. Placed(Eat(j, 1)) /\ Shaped(j)
        BY <2>4, ReadyStays, BlankIs
      <4>2. PICK e : e = [j EXCEPT !.pos = j.pos + 1]
        OBVIOUS
      <4>3. e.tok = j.tok /\ e.held = j.held /\ e.attr = j.attr
        BY <4>1, <4>2 DEF Shaped
      <4>4. Attr(e) = Attr(j)
        BY <4>3 DEF Attr
      <4>5. QED
        BY <4>1, <4>2, <4>3, <4>4 DEF Eat
    <3>4. /\ InPlace(ValueFrom(Enter(j, "ATTRIBUTE_VALUE_DOUBLE_QUOTED")))
          /\ InPlace(ValueFrom(Enter(j, "ATTRIBUTE_VALUE_SINGLE_QUOTED")))
      BY <3>2, <3>3 DEF Enter
    <3>5. InPlace(ValueFrom(Goto(j, "ATTRIBUTE_VALUE_UNQUOTED")))
      BY <2>4, <3>2, BlankIs
    <3>6. QED
      BY <3>1, <3>4, <3>5, Zenon DEF BeforeAttributeValueAt
  <2>5. InPlace(BeforeAttributeValueState(k))
    BY <2>1, <2>2, <2>4, Zenon DEF BeforeAttributeValueState, Stops
  <2>6. QED
    BY <1>10, <2>5 DEF AttributeFunction
<1>11. ASSUME NEW j, Ready(j), j.held \in BOOLEAN
       PROVE  /\ InPlace(QuoteAt(j)) /\ InPlace(AttributeValueUnquotedAt(j))
  <2>1. Ready(ValueTo(j))
    BY <1>11, ReadyStays
  <2>2. Ready(NewAttr(ValueTo(j)))
    BY <2>1, ReadyStays
  <2>3. InPlace(NewAttr(CloseTag(ValueTo(j))))
    BY <2>1, CloseLands
  <2>4. InPlace(Enter(NewAttr(ValueTo(j)), "AFTER_ATTRIBUTE_VALUE_QUOTED")) /\ InPlace(Enter(NewAttr(ValueTo(j)), "BEFORE_ATTRIBUTE_NAME"))
    BY <1>4, <1>5, <2>2
  <2>5. QED
    BY <2>3, <2>4 DEF QuoteAt, AttributeValueUnquotedAt
<1>12. \A quote : InPlace(AttributeValueQuotedState(k, quote))
  <2>1. TAKE quote
  <2>2. PICK j : j = Seek(k, {quote})
    OBVIOUS
  <2>3. InPlace(j) /\ Moved(k, j) /\ (~ Exhausted(j) => Ready(j)) /\ j.held \in BOOLEAN
    BY <1>2, <1>6, <2>2, ScanLands, Zenon
  <2>4. QED
    BY <1>11, <2>2, <2>3, Zenon DEF AttributeValueQuotedState, Stops
<1>13. InPlace(AttributeValueUnquotedState(k))
  <2>1. PICK j : j = Seek(k, Space \cup {">"})
    OBVIOUS
  <2>2. InPlace(j) /\ Moved(k, j) /\ (~ Exhausted(j) => Ready(j)) /\ j.held \in BOOLEAN
    BY <1>2, <1>6, <2>1, ScanLands, Zenon
  <2>3. QED
    BY <1>11, <2>1, <2>2, Zenon DEF AttributeValueUnquotedState, Stops
<1>14. InPlace(AfterAttributeValueQuotedState(k))
  <2>1. InPlace(Enter(k, "BEFORE_ATTRIBUTE_NAME")) /\ InPlace(Goto(k, "BEFORE_ATTRIBUTE_NAME")) /\ InPlace(CloseTag(k))
    BY <1>4, <1>5, CloseLands
  <2>2. InPlace(Enter(k, "SELF_CLOSING_START_TAG"))
    BY EnterLands DEF LengthStates, Sure, NoValueYet, MarkStates, LookAhead
  <2>3. QED
    BY <2>1, <2>2, Zenon DEF AfterAttributeValueQuotedState
<1>15. QED
    BY <1>7, <1>8, <1>9, <1>10, <1>12, <1>13, <1>14 DEF AttributeFunction, AttributeStates

-----------------------------------------------------------------------------
(* The states of texts, of CDATA and of scripts do. *)

(* Lexer j differs from k in the span of its token. *)
Spanned(k, j, b, l) ==
    /\ Placed(j) /\ Beside(k, j) /\ j.tok.raw_begin = b /\ j.tok.raw_length = l
    /\ j.state = k.state /\ j.out = k.out /\ (Ready(k) => Ready(j))

\* The token at hand gets another span.
LEMMA Respanned ==
    ASSUME NEW k, Placed(k), NEW b \in Nat, NEW l \in Nat, b + l <= k.pos, QueueUpTo(k.out, b, k.pos)
    PROVE  /\ Spanned(k, [k EXCEPT !.tok.raw_begin = b, !.tok.raw_length = l], b, l)
           /\ Spanned(k, [k EXCEPT !.tok.raw_length = l, !.tok.raw_begin = b], b, l)
           /\ k.tok.raw_length = l => Spanned(k, [k EXCEPT !.tok.raw_begin = b], b, l)
<1>1. Shaped(k) /\ k.tok.mark \in Nat
    BY PlacedParts
<1>2. ASSUME NEW j, \/ j = [k EXCEPT !.tok.raw_begin = b, !.tok.raw_length = l]
                    \/ j = [k EXCEPT !.tok.raw_length = l, !.tok.raw_begin = b]
                    \/ j = [k EXCEPT !.tok.raw_begin = b] /\ k.tok.raw_length = l
      PROVE  Spanned(k, j, b, l)
  <2>1. /\ Shaped(j) /\ Beside(k, j) /\ j.tok.raw_begin = b /\ j.tok.raw_length = l
        /\ j.tok.mark = k.tok.mark /\ j.tok.attrs = k.tok.attrs /\ j.attr = k.attr /\ j.out = k.out
        /\ j.state = k.state
    <3>1. CASE j = [k EXCEPT !.tok.raw_begin = b, !.tok.raw_length = l]
      BY <1>1, <3>1 DEF Shaped, Beside
    <3>2. CASE j = [k EXCEPT !.tok.raw_length = l, !.tok.raw_begin = b]
      BY <1>1, <3>2 DEF Shaped, Beside
    <3>3. CASE j = [k EXCEPT !.tok.raw_begin = b] /\ k.tok.raw_length = l
      BY <1>1, <3>3 DEF Shaped, Beside
    <3>4. QED
      BY <1>2, <3>1, <3>2, <3>3
  <2>2. Placed(j)
    BY <1>1, <2>1, SpanSet
  <2>3. QED
    BY <2>1, <2>2, BesideReady DEF Spanned
<1>3. QED
    BY <1>2, Zenon

\* The end tag of a text: the text is a token, and the end tag the next.
LEMMA EndOfTextLands ==
    ASSUME NEW k, Ready(k), NEW b \in Nat, b <= k.tok.raw_begin, QueueUpTo(k.out, b, k.pos), NEW type
    PROVE  InPlace(EndOfText(k, b, type))
<1>1. /\ Placed(k) /\ Shaped(k) /\ k.pos \in Nat /\ k.tok.raw_begin \in Nat /\ k.tok.raw_begin <= k.pos
    BY BlankIs, PlacedParts
<1>2. PICK q \in Nat : q = k.tok.raw_begin
    BY <1>1
<1>3. PICK a : a = AndataText(k, b, type)
    OBVIOUS
<1>4. Ready(a)
  <2>1. CASE q - 2 > b
    <3>1. PICK x : x = Tag(k, Text)
      OBVIOUS
    <3>2. Ready(x) /\ Same(k, x) /\ Shaped(x)
      BY <1>1, <3>1, RenamedStays, ReadyStays, Zenon
    <3>3. PICK y : y = Type(x, {type})
      OBVIOUS
    <3>4. Ready(y) /\ Same(x, y) /\ Shaped(y)
      BY <3>2, <3>3, RenamedStays, ReadyStays, BlankIs, Zenon
    <3>5. PICK text : text = NotSpace(y)
      OBVIOUS
    <3>6. Ready(text) /\ Same(y, text)
      BY <3>4, <3>5, RenamedSame, SameStays, Zenon
    <3>7. text.out = k.out /\ text.pos = k.pos
      BY <3>2, <3>4, <3>6 DEF Same
    <3>8. PICK l \in Nat : l = q - 2 - b /\ b + l <= text.pos /\ b + l <= q
      BY <1>1, <1>2, <2>1, <3>7
    <3>9. PICK t : t = [text EXCEPT !.tok.raw_length = l, !.tok.raw_begin = b]
      OBVIOUS
    <3>10. Placed(t) /\ Ready(t) /\ t.tok.raw_begin = b /\ t.tok.raw_length = l /\ t.pos = k.pos
      <4>1. QueueUpTo(text.out, b, text.pos) /\ Placed(text)
        BY <3>6, <3>7, BlankIs
      <4>2. Spanned(text, t, b, l)
        BY <3>8, <3>9, <4>1, Respanned, Zenon
      <4>3. QED
        BY <3>6, <3>7, <4>2 DEF Spanned, Beside
    <3>11. PICK n : n = QueueAdd(t)
      OBVIOUS
    <3>12. /\ Placed(n) /\ Beside(t, n) /\ n.tok.raw_length = 0 /\ QueueUpTo(n.out, b + l, n.pos)
      BY <3>10, <3>11, QueueAddPlaced DEF Beside, TokenEnd
    <3>13. Ready(n) /\ n.pos = k.pos
      BY <3>10, <3>12, BesideReady DEF Beside
    <3>14. QueueUpTo(n.out, q, n.pos)
      <4>1. b + l \in Nat /\ n.pos \in Nat
        BY <1>1, <3>13
      <4>2. QED
        BY <1>2, <3>8, <3>12, <4>1, UpToLater
    <3>15. PICK j : j = [n EXCEPT !.tok.raw_begin = q]
      OBVIOUS
    <3>16. Ready(j)
      <4>1. 0 \in Nat /\ q + 0 <= n.pos
        BY <1>1, <1>2, <3>13
      <4>2. Spanned(n, j, q, 0)
        BY <1>2, <3>12, <3>14, <3>15, <4>1, Respanned, Zenon
      <4>3. QED
        BY <3>13, <4>2 DEF Spanned
    <3>17. a = j
      BY <1>2, <1>3, <2>1, <3>1, <3>3, <3>5, <3>8, <3>9, <3>11, <3>15, Zenon DEF AndataText
    <3>18. QED
      BY <3>16, <3>17
  <2>2. CASE ~ (q - 2 > b)
    BY <1>2, <1>3, <2>2 DEF AndataText
  <2>3. QED
    BY <2>1, <2>2
<1>5. PICK e : e = AndataEndTag(a)
    OBVIOUS
<1>6. Ready(e)
  <2>1. Ready(Tag(a, a.tmp))
    BY <1>4, ReadyStays
  <2>2. Ready(Type(Tag(a, a.tmp), {"CLOSE"}))
    BY <2>1, ReadyStays
  <2>3. QED
    BY <1>5, <2>2, ReadyStays DEF AndataEndTag
<1>7. \A j : InPlace(j) => InPlace([j EXCEPT !.tmp = Undef])
  <2>1. TAKE j
  <2>2. SUFFICES ASSUME InPlace(j) PROVE InPlace([j EXCEPT !.tmp = Undef])
      OBVIOUS
  <2>3. Shaped(j)
      BY <2>2, InPlaceIs, BlankIs
  <2>4. PICK i : i = [j EXCEPT !.tmp = Undef]
      OBVIOUS
  <2>5. Same(j, i)
      BY <2>3, <2>4, RenamedSame, Zenon
  <2>6. i.state = j.state
      BY <2>3, <2>4 DEF Shaped
  <2>7. QED
      BY <2>2, <2>4, <2>5, <2>6, SameLands
<1>8. InPlace(CloseMarkup(e)) /\ InPlace(Enter(e, "BEFORE_ATTRIBUTE_NAME"))
  <2>1. "BEFORE_ATTRIBUTE_NAME" \in LengthStates /\ "BEFORE_ATTRIBUTE_NAME" \notin Sure
    BY DEF LengthStates, AttributeStates, Sure, NoValueYet, MarkStates, LookAhead
  <2>2. QED
    BY <1>6, <2>1, CloseLands, EnterLands
<1>9. QED
    BY <1>3, <1>5, <1>7, <1>8, Zenon DEF EndOfText, CloseMarkup

\* The name of an end tag.
LEMMA EndTagNameLands ==
    ASSUME NEW k, InPlace(k), Blank(k), NEW state \in RcdataStates \cup RawtextStates, NEW type,
           k.state \in RcdataStates \cup RawtextStates
    PROVE  InPlace(TextEndTagNameState(k, state, type))
<1>1. PICK b \in Nat : b = k.tok.raw_begin
    BY BlankIs, PlacedParts
<1>2. /\ Ready(k) /\ Placed(k) /\ Shaped(k) /\ k.pos \in Nat /\ b <= k.pos /\ QueueUpTo(k.out, b, k.pos)
      /\ k.tok.raw_length = 0
    BY <1>1, BlankIs, PlacedParts
<1>3. \A s \in RcdataStates \cup RawtextStates : s \notin Sure /\ s \notin LookAhead
    BY DEF RcdataStates, RawtextStates, Sure, NoValueYet, MarkStates, LookAhead
<1>4. PICK h : h = Begin(k)
    OBVIOUS
<1>5. Blank(h) /\ h.tok.raw_begin = k.pos /\ h.pos = k.pos /\ h.out = k.out /\ h.state = k.state
  <2>1. Blank(h)
    BY <1>4, BlankStays
  <2>2. QED
    BY <1>2, <1>4, <2>1 DEF Begin, Shaped
<1>6. InPlace(h)
    BY <1>3, <1>5, Lands, BlankIs DEF Sure
<1>7. PICK j : j = NameEnd(h)
    OBVIOUS
<1>8. InPlace(j) /\ Moved(h, j) /\ (~ Exhausted(j) => Ready(j)) /\ j.pos \in Nat /\ k.pos <= j.pos
    BY <1>3, <1>5, <1>6, <1>7, BlankIs, ScanLands
<1>9. /\ Placed(j) /\ j.tok.raw_begin = k.pos /\ j.tok.raw_length = 0
      /\ QueueUpTo(j.out, b, j.pos) /\ j.state = k.state
  <2>1. Placed(j)
    BY <1>8, InPlaceIs
  <2>2. j.tok.raw_begin = k.pos /\ j.tok.raw_length = 0 /\ j.state = k.state /\ j.out = k.out
    BY <1>5, <1>8, BlankIs DEF Moved
  <2>3. QueueUpTo(j.out, b, j.pos)
    BY <1>2, <1>8, <2>2, UpToLater
  <2>4. QED
    BY <2>1, <2>2, <2>3
<1>10. PICK r : r = [j EXCEPT !.tok.raw_begin = b]
    OBVIOUS
<1>11. Placed(r) /\ r.tok.raw_length = 0 /\ r.state = j.state /\ (Ready(j) => Ready(r))
  <2>1. 0 \in Nat /\ b + 0 <= j.pos
    BY <1>2, <1>8
  <2>2. Spanned(j, r, b, 0)
    BY <1>9, <1>10, <2>1, Respanned, Zenon
  <2>3. QED
    BY <2>2 DEF Spanned
<1>12. InPlace(r)
    BY <1>3, <1>9, <1>11, Lands DEF Sure
<1>13. ASSUME Ready(j) PROVE InPlace(EndTagNameAt(j, b, state, type))
  <2>1. InPlace(Goto(r, state))
    BY <1>3, <1>11, <1>13, BlankLands DEF Blank
  <2>2. PICK n : n = CheckTagParser(Length(j))
    OBVIOUS
  <2>3. Ready(n) /\ Placed(n) /\ n.tok.raw_begin = k.pos /\ QueueUpTo(n.out, b, n.pos) /\ n.pos = j.pos
    <3>1. PICK x : x = Length(j)
      OBVIOUS
    <3>2. Ready(x)
      BY <1>13, <3>1, ReadyStays
    <3>3. x.tok.raw_begin = k.pos /\ x.out = j.out /\ x.pos = j.pos
      BY <1>9, <3>1, BlankIs DEF Length, Shaped
    <3>4. Ready(n) /\ Same(x, n)
      BY <2>2, <3>1, <3>2, RenamedSame, ReadyStays, BlankIs
    <3>5. QED
      BY <1>9, <3>3, <3>4, BlankIs DEF Same
  <2>4. InPlace(EndOfText(n, b, type))
    BY <1>2, <2>3, EndOfTextLands
  <2>5. InPlace(NotTheEndTag(n, b))
    <3>1. PICK m : m = [n EXCEPT !.tok.raw_begin = b, !.tok.raw_length = 0]
      OBVIOUS
    <3>2. 0 \in Nat /\ b + 0 <= n.pos
      BY <1>2, <1>8, <2>3
    <3>3. Spanned(n, m, b, 0)
      BY <2>3, <3>1, <3>2, Respanned, Zenon
    <3>4. Ready(m) /\ m.tok.raw_length = 0
      BY <2>3, <3>3 DEF Spanned
    <3>5. "RCDATA" \notin Sure
      BY <1>3 DEF RcdataStates
    <3>6. QED
      BY <3>1, <3>4, <3>5, BlankLands DEF NotTheEndTag, Blank
  <2>6. QED
    BY <1>10, <2>1, <2>2, <2>4, <2>5, Zenon DEF EndTagNameAt
<1>14. QED
    BY <1>1, <1>4, <1>7, <1>8, <1>10, <1>12, <1>13, Zenon DEF TextEndTagNameState, EndTagNameScan

\* A scan for the '<' of a text.
LEMMA TextScanLands ==
    ASSUME NEW k, InPlace(k), Blank(k), k.state \notin LookAhead, NEW next, next \notin Sure
    PROVE  InPlace(TextScan(k, next))
<1>1. PICK j : j = Seek(k, {"<"})
    OBVIOUS
<1>2. InPlace(j) /\ Moved(k, j) /\ (~ Exhausted(j) => Ready(j))
    BY <1>1, ScanLands, BlankIs
<1>3. ~ Exhausted(j) => Blank(j)
    BY <1>2, BlankIs DEF Moved, Blank
<1>4. QED
    BY <1>1, <1>2, <1>3, BlankLands, Zenon DEF TextScan, TextLessThanAt

\* RCDATA and RAWTEXT.
LEMMA RawStatesLand ==
    ASSUME NEW k, InPlace(k), Ready(k), k.state \in RcdataStates \cup RawtextStates
    PROVE  InPlace(RcdataOrRawtext(k))
<1>1. \A s \in RcdataStates \cup RawtextStates : s \notin Sure /\ s \notin LookAhead /\ s \notin LengthStates
    BY DEF RcdataStates, RawtextStates, Sure, NoValueYet, MarkStates, LookAhead, LengthStates, AttributeStates, DoctypeStates
<1>2. Blank(k) /\ Shaped(k)
    BY <1>1, TextBlank, BlankIs
<1>3. ASSUME NEW next \in RcdataStates \cup RawtextStates PROVE InPlace(TextState(k, next))
  <2>1. PICK t : t = TextStarts(k)
    OBVIOUS
  <2>2. Blank(t) /\ t.state = k.state
    <3>1. CASE k.tmp = Undef
      <4>1. PICK b : b = Begin(k)
        OBVIOUS
      <4>2. Blank(b) /\ Shaped(b)
        BY <1>2, <4>1, BlankStays, BlankIs
      <4>3. b.state = k.state
        BY <1>2, <4>1 DEF Begin, Shaped
      <4>4. PICK o : o = Opener(k)
        OBVIOUS
      <4>5. t = [b EXCEPT !.tmp = o]
        BY <2>1, <3>1, <4>1, <4>4 DEF TextStarts
      <4>6. Blank(t)
        BY <4>2, <4>5, BlankStays, Zenon
      <4>7. t.state = b.state
        BY <4>2, <4>5 DEF Shaped
      <4>8. QED
        BY <4>3, <4>6, <4>7
    <3>2. CASE k.tmp # Undef
      BY <1>2, <2>1, <3>2 DEF TextStarts
    <3>3. QED
      BY <3>1, <3>2
  <2>3. InPlace(t)
    BY <1>1, <2>2, BlankIs, Lands DEF Sure
  <2>4. QED
    BY <1>1, <1>3, <2>1, <2>2, <2>3, TextScanLands DEF TextState
<1>4. ASSUME NEW text \in RcdataStates \cup RawtextStates, NEW next \in RcdataStates \cup RawtextStates
      PROVE  InPlace(TextLessThanSignState(k, text, next)) /\ InPlace(TextEndTagOpenState(k, text, next))
    BY <1>1, <1>2, <1>4, BlankLands, Zenon DEF TextLessThanSignState, TextEndTagOpenState
<1>5. ASSUME NEW state \in RcdataStates \cup RawtextStates, NEW type
      PROVE  InPlace(TextEndTagNameState(k, state, type))
    BY <1>2, <1>5, EndTagNameLands
<1>6. QED
    BY <1>3, <1>4, <1>5 DEF RcdataOrRawtext, RcdataStates, RawtextStates

\* Plaintext is done with at once.
LEMMA PlaintextLands ==
    ASSUME NEW k, InPlace(k), Ready(k), k.state = "PLAINTEXT"
    PROVE  InPlace(PlaintextState(k))
<1>1. Blank(k)
    BY TextBlank DEF LengthStates, AttributeStates, DoctypeStates
<1>2. PICK l \in Nat : l = Limit(k) /\ l = Arrived(k) /\ k.pos < l /\ k.pos \in Nat
    BY ArrivedIs, BlankIs, PlacedParts DEF Ready, Placed, PlacedAt
<1>3. PICK b : b = Begin(k)
    OBVIOUS
<1>4. Blank(b) /\ b.tok.raw_begin = k.pos /\ b.pos = k.pos /\ b.chain = k.chain /\ b.tok.raw_length = 0
  <2>1. Blank(b) /\ Shaped(k)
    BY <1>1, <1>3, BlankStays, BlankIs
  <2>2. b.tok.raw_begin = k.pos /\ b.pos = k.pos /\ b.chain = k.chain
    BY <1>3, <2>1 DEF Begin, Shaped
  <2>3. QED
    BY <2>1, <2>2, BlankIs
<1>5. PICK n \in Nat : n = l - k.pos /\ k.pos + n = l
    BY <1>2
<1>6. PICK m : m = [b EXCEPT !.pos = l]
    OBVIOUS
<1>7. Placed(m) /\ m.pos = l /\ m.tok = b.tok
  <2>1. Arrived(b) = l /\ b.pos <= l
    BY <1>2, <1>4 DEF Arrived, Limit, Base
  <2>2. PlacedAt(b, b.pos) /\ Shaped(b)
    BY <1>4, BlankIs DEF Placed
  <2>3. Placed(m)
    BY <1>6, <2>1, <2>2, MovedPlaced
  <2>4. QED
    BY <1>6, <2>2, <2>3 DEF Shaped
<1>8. PICK h : h = [m EXCEPT !.tok.raw_length = n]
    OBVIOUS
<1>9. Placed(h) /\ Shaped(h)
  <2>1. m.tok.raw_begin + n <= m.pos
    BY <1>2, <1>4, <1>5, <1>7
  <2>2. QED
    BY <1>7, <1>8, <2>1, SpanStays, BlankIs, Zenon
<1>10. h = [b EXCEPT !.pos = Limit(k), !.tok.raw_length = Limit(k) - k.pos]
  <2>1. h = [b EXCEPT !.pos = l, !.tok.raw_length = n]
    BY <1>6, <1>8
  <2>2. QED
    BY <1>2, <1>5, <2>1
<1>11. PICK x : x = Type(h, {"PLAINTEXT"})
    OBVIOUS
<1>12. Placed(x) /\ Shaped(x)
    BY <1>9, <1>11, RenamedSame, SameStays, BlankIs, Zenon
<1>13. PICK y : y = NotSpace(x)
    OBVIOUS
<1>14. Placed(y) /\ Shaped(y)
    BY <1>12, <1>13, RenamedSame, SameStays, BlankIs, Zenon
<1>15. PICK z : z = Tag(y, Text)
    OBVIOUS
<1>16. Placed(z) /\ Shaped(z)
    BY <1>14, <1>15, RenamedSame, SameStays, BlankIs, Zenon
<1>17. PICK g : g = Goto(z, "DATA")
    OBVIOUS
<1>18. Placed(g) /\ g.state = "DATA"
    BY <1>16, <1>17, GotoStays
<1>19. Placed(QueueAdd(g)) /\ QueueAdd(g).tok.raw_length = 0 /\ QueueAdd(g).state \in TextStates
    BY <1>18, QueueAddPlaced DEF TextStates
<1>20. PlaintextState(k) = QueueAdd(g)
    BY <1>3, <1>10, <1>11, <1>13, <1>15, <1>17, Zenon DEF PlaintextState
<1>21. QED
    BY <1>19, <1>20, Lands DEF TextStates, NoValueYet, MarkStates, LookAhead

\* CDATA in foreign content.
LEMMA CdataLands ==
    ASSUME NEW k, InPlace(k), Ready(k), k.state = "CDATA_SECTION"
    PROVE  InPlace(CdataSectionState(k))
<1>1. k.state \notin LengthStates /\ k.state \notin LookAhead
    BY DEF LengthStates, AttributeStates, DoctypeStates, LookAhead
<1>2. PICK l \in Nat : l = Limit(k) /\ l = Arrived(k) /\ k.pos < l /\ k.pos \in Nat
    BY ArrivedIs, BlankIs, PlacedParts DEF Ready, Placed, PlacedAt
<1>3. PICK ends : ends = {p \in k.pos .. (Limit(k) - 1) : EndsCdata(k, p)}
    OBVIOUS
<1>4. PICK p \in Nat : p = (IF ends = {} THEN Limit(k) ELSE Min(ends)) /\ k.pos <= p /\ p <= l
  <2>1. CASE ends = {}
    BY <1>2, <2>1
  <2>2. CASE ends # {}
    <3>1. ends \subseteq Nat
      BY <1>2, <1>3
    <3>2. Min(ends) \in ends
      BY <2>2, <3>1, MinFacts
    <3>3. PICK p \in ends : p = Min(ends)
      BY <3>2
    <3>4. p \in Nat /\ k.pos <= p /\ p <= l
      <4>1. PICK b \in Nat : b = k.pos
        BY <1>2
      <4>2. p \in b .. (l - 1)
        BY <1>2, <1>3, <3>3, <4>1
      <4>3. QED
        BY <4>1, <4>2
    <3>5. QED
      BY <2>2, <3>3, <3>4
  <2>3. QED
    BY <2>1, <2>2
<1>5. PICK m : m = [k EXCEPT !.pos = p]
    OBVIOUS
<1>6. InPlace(m) /\ Moved(k, m) /\ (~ Exhausted(m) => Ready(m))
    BY <1>1, <1>2, <1>4, <1>5, MovedLands
<1>7. PICK j : j = Type(m, {"CDATA"})
    OBVIOUS
<1>8. InPlace(j) /\ j.state = k.state /\ (~ Exhausted(j) => Ready(j))
  <2>1. Same(m, j) /\ j.state = m.state
    BY <1>6, <1>7, InPlaceIs, BlankIs, RenamedSame, RenamedState
  <2>2. QED
    BY <1>6, <2>1, SameLands, SameStays DEF Moved
<1>9. ASSUME Ready(j) PROVE InPlace(CdataAt(j))
  <2>1. Blank(j)
    BY <1>1, <1>8, <1>9, TextBlank
  <2>2. InPlace(CloseMarkup(Cut(j, 2)))
    <3>1. Ready(Cut(j, 2))
      BY <1>9, ReadyStays
    <3>2. QED
      BY <3>1, CloseLands
  <2>3. InPlace(Goto(Begin(Eat([j EXCEPT !.tok.raw_length = 0], 1)), "DATA"))
    <3>1. PICK x : x = [j EXCEPT !.tok.raw_length = 0]
      OBVIOUS
    <3>2. Blank(x)
      BY <2>1, <3>1, BlankStays
    <3>3. PICK e : e = Eat(x, 1)
      OBVIOUS
    <3>4. Placed(e) /\ e.tok.raw_length = 0
      BY <3>2, <3>3, ReadyStays, BlankIs, ZenonT(30)
    <3>5. PICK b : b = Begin(e)
      OBVIOUS
    <3>6. Placed(b) /\ b.tok.raw_length = 0 /\ Shaped(b)
      BY <3>4, <3>5, SpanStays, BlankIs
    <3>7. Placed(Goto(b, "DATA")) /\ Goto(b, "DATA").state = "DATA" /\ Same(b, Goto(b, "DATA"))
      BY <3>6, GotoStays
    <3>8. InPlace(Goto(b, "DATA"))
      BY <3>6, <3>7, Lands DEF Same, NoValueYet, MarkStates, LookAhead
    <3>9. QED
      BY <3>1, <3>3, <3>5, <3>8
  <2>4. QED
    BY <2>2, <2>3, Zenon DEF CdataAt
<1>10. CdataSectionState(k) = Stops(k, j, CdataAt)
    BY <1>3, <1>4, <1>5, <1>7, Zenon DEF CdataSectionState
<1>11. QED
    BY <1>8, <1>9, <1>10 DEF Stops

\* The name of an end tag may begin in a script.
LEMMA MarkLands ==
    ASSUME NEW k, Blank(k), NEW s \in MarkStates
    PROVE  InPlace(Goto(Mark(k), s))
<1>1. PICK m : m = Mark(k)
    OBVIOUS
<1>2. Blank(m) /\ Placed(m) /\ Shaped(m) /\ Shaped(k)
    BY <1>1, BlankStays, BlankIs
<1>3. m.tok.mark = m.pos
    BY <1>1, <1>2 DEF Mark, Shaped
<1>4. PICK j : j = Goto(m, s)
    OBVIOUS
<1>5. j.state = s /\ Same(m, j) /\ Placed(j) /\ Blank(j)
    BY <1>2, <1>4, GotoStays, Zenon
<1>6. j.tok.mark = j.pos
    BY <1>3, <1>5 DEF Same
<1>7. /\ j.pos \in Nat /\ j.pos <= Arrived(j) /\ j.tok.raw_begin <= j.pos /\ j.tok.raw_length = 0
    BY <1>5, PlacedParts, BlankIs DEF Placed, PlacedAt
<1>8. s \notin LookAhead /\ s \notin NoValueYet
    BY DEF MarkStates, LookAhead, NoValueYet
<1>9. Resumes(j) = j.pos
    BY <1>5, <1>8 DEF Resumes, LookAhead
<1>10. InPlace(j)
    BY <1>5, <1>6, <1>7, <1>8, <1>9 DEF InPlace, Placed, LookAhead
<1>11. QED
    BY <1>1, <1>4, <1>10

\* The end tag of a script, its name at the mark.
LEMMA EndOfScriptLands ==
    ASSUME NEW k, Blank(k), NEW m \in Nat, k.tok.raw_begin <= m, m + 2 = k.pos
    PROVE  InPlace(EndOfScript(k, m))
<1>1. Len(Script) = 2
    BY DEF Script
<1>2. k.pos \in Nat /\ k.tok.raw_begin \in Nat /\ QueueUpTo(k.out, k.tok.raw_begin, k.pos)
    BY BlankIs, PlacedParts
<1>3. PICK u \in Int : u = k.pos - 2 - 2 /\ u <= k.pos /\ u <= m
    BY <1>2
<1>4. PICK t : t = CreateTextNodeIfNeed(k, u, "SCRIPT")
    OBVIOUS
<1>5. Blank(t) /\ Beside(k, t) /\ (t = k \/ (QueueUpTo(t.out, u, k.pos) /\ u \in Nat))
    BY <1>3, <1>4, TextNodeStays, Zenon
<1>6. t.pos = k.pos /\ Placed(t) /\ Ready(t)
    BY <1>5, BlankIs DEF Beside
<1>7. QueueUpTo(t.out, m, t.pos)
  <2>1. CASE t = k
    BY <1>2, <2>1, UpToLater
  <2>2. CASE QueueUpTo(t.out, u, k.pos) /\ u \in Nat
    BY <1>2, <1>3, <1>6, <2>2, UpToLater
  <2>3. QED
    BY <1>5, <2>1, <2>2
<1>8. PICK r : r = [t EXCEPT !.tok.raw_begin = m, !.tok.raw_length = 2]
    OBVIOUS
<1>9. Ready(r)
  <2>1. 2 \in Nat /\ m + 2 <= t.pos
    BY <1>2, <1>6
  <2>2. Spanned(t, r, m, 2)
    BY <1>6, <1>7, <1>8, <2>1, Respanned, Zenon
  <2>3. QED
    BY <1>6, <2>2 DEF Spanned
<1>10. Ready(Tag(r, Script))
    BY <1>9, ReadyStays
<1>11. \A type : Ready(ScriptEndTag(t, m, type))
  <2>1. TAKE type
  <2>2. ScriptEndTag(t, m, type) = Typed(Tag(r, Script), type)
    BY <1>1, <1>8, Zenon DEF ScriptEndTag
  <2>3. QED
    BY <1>10, <2>2, ReadyStays, Zenon
<1>12. "BEFORE_ATTRIBUTE_NAME" \in LengthStates /\ "BEFORE_ATTRIBUTE_NAME" \notin Sure
    BY DEF LengthStates, AttributeStates, Sure, NoValueYet, MarkStates, LookAhead
<1>13. \A type : /\ InPlace(CloseMarkup(ScriptEndTag(t, m, type)))
                 /\ InPlace(Enter(ScriptEndTag(t, m, type), "BEFORE_ATTRIBUTE_NAME"))
    BY <1>11, <1>12, CloseLands, EnterLands, Zenon
<1>14. CreateTextNodeIfNeed(k, k.pos - Len(Script) - 2, "SCRIPT") = t
    BY <1>1, <1>3, <1>4
<1>15. QED
    BY <1>13, <1>14, Zenon DEF EndOfScript

\* Scripts.
LEMMA ScriptStatesLand ==
    ASSUME NEW k, InPlace(k), Ready(k), k.state \in ScriptStates
    PROVE  InPlace(ScriptState(k))
<1>1. k.state \notin LookAhead /\ k.state \notin LengthStates
    BY DEF ScriptStates, LookAhead, LengthStates, AttributeStates, DoctypeStates
<1>2. Blank(k) /\ Shaped(k)
    BY <1>1, TextBlank, BlankIs
<1>3. \A s \in ScriptStates \ MarkStates : s \notin Sure
    BY DEF ScriptStates, MarkStates, Sure, NoValueYet, LookAhead
<1>4. \A j : Blank(j) => \A s \in ScriptStates \ MarkStates : InPlace(Goto(j, s)) /\ InPlace(Enter(j, s))
    BY <1>3, BlankLands
<1>5. /\ "SCRIPT_DATA" \in ScriptStates \ MarkStates
      /\ "SCRIPT_DATA_LESS_THAN_SIGN" \in ScriptStates \ MarkStates
      /\ "SCRIPT_DATA_END_TAG_OPEN" \in ScriptStates \ MarkStates
      /\ "SCRIPT_DATA_ESCAPE_START" \in ScriptStates \ MarkStates
      /\ "SCRIPT_DATA_ESCAPE_START_DASH" \in ScriptStates \ MarkStates
      /\ "SCRIPT_DATA_ESCAPED" \in ScriptStates \ MarkStates
      /\ "SCRIPT_DATA_ESCAPED_DASH" \in ScriptStates \ MarkStates
      /\ "SCRIPT_DATA_ESCAPED_DASH_DASH" \in ScriptStates \ MarkStates
      /\ "SCRIPT_DATA_ESCAPED_LESS_THAN_SIGN" \in ScriptStates \ MarkStates
      /\ "SCRIPT_DATA_ESCAPED_END_TAG_OPEN" \in ScriptStates \ MarkStates
      /\ "SCRIPT_DATA_DOUBLE_ESCAPE_START" \in ScriptStates \ MarkStates
      /\ "SCRIPT_DATA_DOUBLE_ESCAPED" \in ScriptStates \ MarkStates
      /\ "SCRIPT_DATA_DOUBLE_ESCAPED_DASH" \in ScriptStates \ MarkStates
      /\ "SCRIPT_DATA_DOUBLE_ESCAPED_DASH_DASH" \in ScriptStates \ MarkStates
      /\ "SCRIPT_DATA_DOUBLE_ESCAPED_LESS_THAN_SIGN" \in ScriptStates \ MarkStates
      /\ "SCRIPT_DATA_DOUBLE_ESCAPE_END" \in ScriptStates \ MarkStates
    BY DEF ScriptStates, MarkStates
<1>6. "SCRIPT_DATA_END_TAG_NAME" \in MarkStates /\ "SCRIPT_DATA_ESCAPED_END_TAG_NAME" \in MarkStates
    BY DEF MarkStates
<1>7. ASSUME NEW s \in MarkStates, NEW text \in ScriptStates \ MarkStates
      PROVE  InPlace(ScriptEndTagOpenState(k, text, s))
    BY <1>2, <1>4, <1>7, MarkLands DEF ScriptEndTagOpenState
<1>8. \A j : \/ j = NameEnd(k)
             \/ \E stops : j = Seek(k, stops)
             => InPlace(j) /\ Moved(k, j) /\ (~ Exhausted(j) => Blank(j))
  <2>1. TAKE j
  <2>2. HAVE j = NameEnd(k) \/ \E stops : j = Seek(k, stops)
  <2>3. InPlace(j) /\ Moved(k, j) /\ (~ Exhausted(j) => Ready(j))
    BY <1>1, <2>2, ScanLands, Zenon
  <2>4. QED
    BY <1>2, <2>3, BlankIs DEF Moved, Blank
<1>9. ASSUME k.state \in MarkStates, NEW text \in ScriptStates \ MarkStates
      PROVE  InPlace(ScriptEndTagNameState(k, text))
  <2>1. PICK j : j = NameEnd(k)
    OBVIOUS
  <2>2. InPlace(j) /\ Moved(k, j) /\ (~ Exhausted(j) => Blank(j))
    BY <1>8, <2>1
  <2>3. ASSUME Blank(j) PROVE InPlace(ScriptEndTagNameAt(j, text))
    <3>1. InPlace(Goto(j, text)) /\ InPlace(Enter(j, text))
      BY <1>4, <1>9, <2>3
    <3>2. ASSUME MarkedScript(j) PROVE InPlace(EndOfScript(j, j.tok.mark))
      <4>1. j.tok.raw_begin <= j.tok.mark /\ j.tok.mark <= j.pos
        BY <1>9, <2>2 DEF InPlace, Moved
      <4>2. j.pos \in Nat /\ j.tok.mark \in Nat
        BY <2>3, BlankIs, PlacedParts
      <4>3. j.pos - j.tok.mark = 2
        BY <3>2 DEF MarkedScript, Script
      <4>4. PICK m \in Nat : m = j.tok.mark /\ j.tok.raw_begin <= m /\ m + 2 = j.pos
        BY <4>1, <4>2, <4>3
      <4>5. QED
        BY <2>3, <4>4, EndOfScriptLands
    <3>3. QED
      BY <3>1, <3>2, Zenon DEF ScriptEndTagNameAt
  <2>4. QED
    BY <2>1, <2>2, <2>3, Zenon DEF ScriptEndTagNameState, ScriptEndTagNameScan
<1>10. ASSUME NEW dash \in ScriptStates \ MarkStates, NEW less \in ScriptStates \ MarkStates
       PROVE  InPlace(EscapedState(k, dash, less)) /\ InPlace(DashOr(k, dash, less))
  <2>1. PICK j : j = Seek(k, {"-", "<"})
    OBVIOUS
  <2>2. InPlace(j) /\ (~ Exhausted(j) => Blank(j))
    BY <1>8, <2>1, Zenon
  <2>3. Blank(j) => InPlace(EscapedAt(j, dash, less))
    BY <1>4, <1>10 DEF EscapedAt
  <2>4. InPlace(EscapedState(k, dash, less))
    BY <2>1, <2>2, <2>3, Zenon DEF EscapedState, EscapedScan
  <2>5. InPlace(DashOr(k, dash, less))
    BY <1>2, <1>4, <1>10 DEF DashOr
  <2>6. QED
    BY <2>4, <2>5
<1>11. ASSUME NEW found \in ScriptStates \ MarkStates, NEW text \in ScriptStates \ MarkStates
       PROVE  InPlace(DoubleEscapeState(k, found, text))
  <2>1. PICK j : j = NameEnd(k)
    OBVIOUS
  <2>2. InPlace(j) /\ (~ Exhausted(j) => Blank(j))
    BY <1>8, <2>1
  <2>3. Blank(j) => InPlace(DoubleEscapeAt(j, found, text))
    BY <1>4, <1>11, Zenon DEF DoubleEscapeAt
  <2>4. QED
    BY <2>1, <2>2, <2>3, Zenon DEF DoubleEscapeState, DoubleEscapeScan
<1>12. ASSUME NEW text \in ScriptStates \ MarkStates, NEW less \in ScriptStates \ MarkStates
       PROVE  InPlace(DashDashState(k, text, less))
  <2>1. InPlace(Eat(k, 1))
    BY <1>1, EatLands
  <2>2. QED
    BY <1>2, <1>4, <1>5, <1>12, <2>1, Zenon DEF DashDashState
<1>13. InPlace(ScriptDataLessThanSignState(k)) /\ InPlace(ScriptDataEscapedDashState(k))
    BY <1>2, <1>4, <1>5, Zenon DEF ScriptDataLessThanSignState, ScriptDataEscapedDashState
<1>14. InPlace(ScriptDataDoubleEscapedDashState(k))
    BY <1>2, <1>4, <1>5 DEF ScriptDataDoubleEscapedDashState
<1>15. InPlace(ScriptDataEscapedLessThanSignState(k))
  <2>1. Blank(Mark(k))
    BY <1>2, BlankStays
  <2>2. QED
    BY <1>2, <1>4, <1>5, <2>1, Zenon DEF ScriptDataEscapedLessThanSignState
<1>16. InPlace(ScriptDataDoubleEscapedLessThanSignState(k))
  <2>1. InPlace(Mark(Enter(k, "SCRIPT_DATA_DOUBLE_ESCAPE_END")))
    <3>1. PICK e : e = Eat(k, 1)
      OBVIOUS
    <3>2. Placed(e) /\ e.tok.raw_length = 0 /\ Shaped(e)
      <4>1. Placed(e) /\ e.tok = k.tok
        BY <1>2, <3>1, BlankIs, ReadyStays, Zenon
      <4>2. QED
        BY <1>2, <4>1, BlankIs
    <3>3. PICK g : g = Goto(e, "SCRIPT_DATA_DOUBLE_ESCAPE_END")
      OBVIOUS
    <3>4. Placed(g) /\ Same(e, g) /\ g.state = "SCRIPT_DATA_DOUBLE_ESCAPE_END" /\ Shaped(g)
      BY <3>2, <3>3, GotoStays, BlankIs, Zenon
    <3>5. Placed(Mark(g))
      BY <3>4, SpanStays
    <3>6. Mark(g).state = g.state /\ Mark(g).tok.raw_length = g.tok.raw_length
      BY <3>4 DEF Mark, Shaped
    <3>7. g.tok.raw_length = 0
      BY <3>2, <3>4 DEF Same
    <3>8. InPlace(Mark(g))
      BY <1>3, <1>5, <3>4, <3>5, <3>6, <3>7, Lands DEF Sure
    <3>9. QED
      BY <3>1, <3>3, <3>8 DEF Enter
  <2>2. QED
    BY <1>2, <1>4, <1>5, <2>1 DEF ScriptDataDoubleEscapedLessThanSignState
<1>17. InPlace(TextScan(k, "SCRIPT_DATA_LESS_THAN_SIGN"))
    BY <1>1, <1>2, <1>3, <1>5, TextScanLands
<1>18. k.state \in MarkStates => \/ k.state = "SCRIPT_DATA_END_TAG_NAME"
                                 \/ k.state = "SCRIPT_DATA_ESCAPED_END_TAG_NAME"
    BY DEF MarkStates
<1>19. k.state \in {"SCRIPT_DATA_END_TAG_NAME", "SCRIPT_DATA_ESCAPED_END_TAG_NAME"} => k.state \in MarkStates
    BY <1>6
<1>20. QED
    BY <1>5, <1>6, <1>7, <1>9, <1>10, <1>11, <1>12, <1>13, <1>14, <1>15, <1>16, <1>17, <1>19, ZenonT(60) DEF ScriptState

-----------------------------------------------------------------------------
(* The states of a doctype do. *)

\* What is written to an attribute and where the lexer is are apart.
LEMMA AttrSetMoves ==
    ASSUME NEW k, Shaped(k), NEW a, NEW q
    PROVE  /\ [SetAttr(k, a) EXCEPT !.pos = q] = SetAttr([k EXCEPT !.pos = q], a)
           /\ SetAttr(k, a).pos = k.pos
<1>1. PICK j : j = [k EXCEPT !.pos = q]
    OBVIOUS
<1>2. j.held = k.held /\ j.tok = k.tok /\ Shaped(j)
    BY <1>1 DEF Shaped
<1>3. CASE Listed(k)
  <2>1. PICK t : t = [k.tok EXCEPT !.attrs = [k.tok.attrs EXCEPT ![Len(k.tok.attrs)] = a]]
    OBVIOUS
  <2>2. SetAttr(k, a) = [k EXCEPT !.tok = t]
    BY <1>3, <2>1 DEF SetAttr, Listed
  <2>3. SetAttr(j, a) = [j EXCEPT !.tok = t]
    BY <1>2, <1>3, <2>1 DEF SetAttr, Listed
  <2>4. [[k EXCEPT !.tok = t] EXCEPT !.pos = q] = [j EXCEPT !.tok = t]
    BY <1>1
  <2>5. [k EXCEPT !.tok = t].pos = k.pos
    BY DEF Shaped
  <2>6. QED
    BY <1>1, <2>2, <2>3, <2>4, <2>5
<1>4. CASE ~ Listed(k)
  <2>1. SetAttr(k, a) = [k EXCEPT !.attr = a]
    BY <1>4, Zenon DEF SetAttr, Listed
  <2>2. SetAttr(j, a) = [j EXCEPT !.attr = a]
    BY <1>2, <1>4, Zenon DEF SetAttr, Listed
  <2>3. [[k EXCEPT !.attr = a] EXCEPT !.pos = q] = [j EXCEPT !.attr = a]
    BY <1>1
  <2>4. [k EXCEPT !.attr = a].pos = k.pos
    BY DEF Shaped
  <2>5. QED
    BY <1>1, <2>1, <2>2, <2>3, <2>4
<1>5. QED
    BY <1>3, <1>4

(* Attribute r, with a value of length l at v. *)
WithValue(r, v, l) == [r EXCEPT !.value_begin = v, !.value_length = l]

\* The value of an attribute is another span.
LEMMA ValueSet ==
    ASSUME NEW n \in Nat, NEW r, AttrUpTo(r, n), NEW v \in Nat, NEW l \in Nat, v + l <= n
    PROVE  AttrUpTo(WithValue(r, v, l), n) /\ WithValue(r, v, l).key_length = r.key_length
<1>1. r \in AttrShape /\ r.key_begin + r.key_length <= n
    BY DEF AttrUpTo
<1>2. PICK a : a = [r EXCEPT !.value_begin = v, !.value_length = l]
    OBVIOUS
<1>3. a \in AttrShape
    BY <1>1, <1>2 DEF AttrShape
<1>4. a.key_begin = r.key_begin /\ a.key_length = r.key_length /\ a.value_begin = v /\ a.value_length = l
    BY <1>1, <1>2 DEF AttrShape
<1>5. AttrUpTo(a, n)
    BY <1>1, <1>3, <1>4 DEF AttrUpTo
<1>6. QED
    BY <1>2, <1>4, <1>5 DEF WithValue

\* A keyword of a doctype is passed.
LEMMA KeywordLands ==
    ASSUME NEW k, Shaped(k), Placed(k), NEW m \in Nat, m = k.tok.mark, k.pos <= m + 2, m + 2 <= Arrived(k),
           NEW s \in LengthStates \ Sure
    PROVE  InPlace(Keyword(k, s))
<1>1. KeywordLength = 2
    BY DEF KeywordLength, PublicWord
<1>2. PICK q \in Nat : q = m + 2 /\ k.pos <= q /\ q <= Arrived(k)
    OBVIOUS
<1>3. PICK h : h = HoldAttr(k)
    OBVIOUS
<1>4. Placed(h) /\ Beside(k, h) /\ Attr(h) = k.attr /\ Shaped(h) /\ h.held = TRUE /\ Arrived(h) = Arrived(k)
  <2>1. Placed(h) /\ Beside(k, h) /\ Attr(h) = k.attr /\ Shaped(h)
    BY <1>3, AttrStays, BlankIs
  <2>2. h.held = TRUE
    BY <1>3 DEF HoldAttr, Shaped
  <2>3. Arrived(h) = Arrived(k)
    BY <2>1 DEF Beside, Arrived, Limit, Base
  <2>4. QED
    BY <2>1, <2>2, <2>3
<1>5. PICK g : g = [h EXCEPT !.pos = q]
    OBVIOUS
<1>6. Placed(g) /\ Shaped(g) /\ Attr(g) = k.attr /\ g.held = TRUE /\ g.pos = q
  <2>1. h.pos <= q /\ q <= Arrived(h) /\ PlacedAt(h, h.pos)
    BY <1>2, <1>4 DEF Beside, Placed
  <2>2. Placed(g) /\ Shaped(g) /\ Attr(g) = Attr(h)
    BY <1>5, <2>1, MovedPlaced
  <2>3. g.held = TRUE /\ g.pos = q
    BY <1>4, <1>5 DEF Shaped
  <2>4. QED
    BY <1>4, <2>2, <2>3
<1>7. PICK a : a = [k.attr EXCEPT !.value_begin = m, !.value_length = 2]
    OBVIOUS
<1>8. AttrUpTo(a, q) /\ a.key_length = 0
  <2>1. AttrUpTo(k.attr, k.pos) /\ k.attr.key_length = 0 /\ k.pos \in Nat
    BY PlacedParts
  <2>2. AttrUpTo(k.attr, q)
    BY <1>2, <2>1, UpToLater
  <2>3. QED
    <3>1. 2 \in Nat /\ m + 2 <= q
      BY <1>2
    <3>2. AttrUpTo(a, q) /\ a.key_length = k.attr.key_length
      <4>1. PICK r : r = k.attr
        OBVIOUS
      <4>2. PICK l \in Nat : l = 2 /\ m + l <= q
        BY <3>1
      <4>3. a = WithValue(r, m, l) /\ AttrUpTo(r, q)
        BY <1>7, <2>2, <4>1, <4>2 DEF WithValue
      <4>4. AttrUpTo(a, q) /\ a.key_length = r.key_length
        BY ONLY q \in Nat, m \in Nat, l \in Nat, <4>2, <4>3, ValueSet
      <4>5. QED
        BY <4>1, <4>4
    <3>3. QED
      BY <2>1, <3>2
<1>9. Placed(SetAttr(g, a)) /\ SetAttr(g, a).tok.raw_length = g.tok.raw_length
  <2>1. g.held \in BOOLEAN
    BY <1>6
  <2>2. QED
    BY <1>6, <1>8, <2>1, AttrSet
<1>10. [SetAttr(h, a) EXCEPT !.pos = q] = SetAttr(g, a)
    BY <1>4, <1>5, AttrSetMoves
<1>11. PICK w : w = SetAttr(g, a)
    OBVIOUS
<1>12. Placed(NewAttr(w)) /\ Shaped(NewAttr(w))
    BY <1>9, <1>11, AttrStays, BlankIs
<1>13. Keyword(k, s) = Goto(NewAttr(w), s)
  <2>1. SetAttr(HoldAttr(k), [Attr(HoldAttr(k)) EXCEPT !.value_begin = k.tok.mark, !.value_length = KeywordLength])
        = SetAttr(h, a)
    BY <1>1, <1>3, <1>4, <1>7
  <2>2. k.tok.mark + KeywordLength = q
    BY <1>1, <1>2
  <2>3. QED
    BY <1>10, <1>11, <2>1, <2>2, Zenon DEF Keyword
<1>14. Placed(Goto(NewAttr(w), s)) /\ Goto(NewAttr(w), s).state = s
    BY <1>12, GotoStays
<1>15. QED
    BY <1>13, <1>14, Lands DEF Sure

\* An identifier of a doctype begins behind its quote.
LEMMA IdentifierLands ==
    ASSUME NEW k, Ready(k), k.held \in BOOLEAN, NEW s \in LengthStates \ Sure
    PROVE  InPlace(Enter(IdentifierFrom(k), s))
<1>1. Placed(k) /\ Shaped(k) /\ k.pos \in Nat
    BY BlankIs, PlacedParts
<1>2. PICK q \in Nat : q = k.pos + 1
    BY <1>1
<1>3. PICK g : g = [k EXCEPT !.pos = q]
    OBVIOUS
<1>4. g = Eat(k, 1)
    BY <1>2, <1>3 DEF Eat
<1>5. Placed(g) /\ Shaped(g)
    BY <1>4, ReadyStays, BlankIs
<1>6. g.held = k.held /\ g.tok = k.tok /\ g.attr = k.attr /\ g.pos = q
    BY <1>1, <1>3 DEF Shaped
<1>7. Attr(g) = Attr(k) /\ g.held \in BOOLEAN
    BY <1>6 DEF Attr
<1>8. PICK a : a = [Attr(k) EXCEPT !.value_begin = q, !.value_length = 0]
    OBVIOUS
<1>9. AttrUpTo(a, q) /\ (~ Listed(g) => a.key_length = 0)
  <2>1. AttrUpTo(Attr(g), q) /\ (~ Listed(g) => Attr(g).key_length = 0)
    BY <1>5, <1>6, <1>7, AttrSet
  <2>2. AttrUpTo(a, q) /\ a.key_length = Attr(g).key_length
    <3>1. 0 \in Nat /\ q + 0 <= q
      OBVIOUS
    <3>2. AttrUpTo(Attr(k), q)
      BY <1>7, <2>1
    <3>3. AttrUpTo(a, q) /\ a.key_length = Attr(k).key_length
      <4>1. a = WithValue(Attr(k), q, 0)
        BY <1>8 DEF WithValue
      <4>2. QED
        BY <3>1, <3>2, <4>1, ValueSet
    <3>4. QED
      BY <1>7, <3>3
  <2>3. QED
    BY <2>1, <2>2
<1>10. Placed(SetAttr(g, a))
    BY <1>5, <1>6, <1>7, <1>9, AttrSet
<1>11. [SetAttr(k, a) EXCEPT !.pos = q] = SetAttr(g, a) /\ SetAttr(k, a).pos = k.pos
    BY <1>1, <1>3, AttrSetMoves
<1>12. IdentifierFrom(k) = SetAttr(k, a)
    BY <1>2, <1>8, Zenon DEF IdentifierFrom
<1>13. Eat(SetAttr(k, a), 1) = SetAttr(g, a)
    BY <1>2, <1>11 DEF Eat
<1>14. PICK w : w = SetAttr(g, a)
    OBVIOUS
<1>15. Placed(Goto(w, s)) /\ Goto(w, s).state = s
    BY <1>10, <1>14, GotoStays, BlankIs
<1>16. InPlace(Goto(w, s))
    BY <1>15, Lands DEF Sure
<1>17. QED
    BY <1>12, <1>13, <1>14, <1>16, Zenon DEF Enter

\* The name of a doctype is followed by a keyword.
LEMMA CustomLands ==
    ASSUME NEW k, Ready(k)
    PROVE  InPlace(Goto(Mark(k), "CUSTOM_AFTER_DOCTYPE_NAME_A_Z"))
<1>1. PICK m : m = Mark(k)
    OBVIOUS
<1>2. Ready(m) /\ Placed(m) /\ Shaped(m) /\ Shaped(k)
    BY <1>1, ReadyStays, BlankIs
<1>3. m.tok.mark = m.pos
    BY <1>1, <1>2 DEF Mark, Shaped
<1>4. PICK j : j = Goto(m, "CUSTOM_AFTER_DOCTYPE_NAME_A_Z")
    OBVIOUS
<1>5. j.state = "CUSTOM_AFTER_DOCTYPE_NAME_A_Z" /\ Same(m, j) /\ Placed(j)
    BY <1>2, <1>4, GotoStays, Zenon
<1>6. j.tok.mark = j.pos
    BY <1>3, <1>5 DEF Same
<1>7. j.pos \in Nat /\ j.pos <= Arrived(j)
    BY <1>5 DEF Placed, PlacedAt
<1>8. Resumes(j) = j.pos
    BY <1>5, <1>6 DEF Resumes
<1>9. j.state \in LengthStates /\ j.state \notin NoValueYet /\ j.state \notin MarkStates
    BY <1>5 DEF LengthStates, DoctypeStates, NoValueYet, MarkStates
<1>10. InPlace(j)
    BY <1>5, <1>6, <1>7, <1>8, <1>9 DEF InPlace, Placed
<1>11. QED
    BY <1>1, <1>4, <1>10

\* Behind the name of a doctype the lexer looks ahead for a keyword.
LEMMA CustomStateLands ==
    ASSUME NEW k, InPlace(k), Ready(k), k.state = "CUSTOM_AFTER_DOCTYPE_NAME_A_Z"
    PROVE  InPlace(CustomAfterDoctypeNameState(k))
<1>1. KeywordLength = 2
    BY DEF KeywordLength, PublicWord
<1>2. PICK m \in Nat : m = k.tok.mark
    BY BlankIs, PlacedParts
<1>3. /\ Placed(k) /\ Shaped(k) /\ k.pos \in Nat /\ PlacedAt(k, m) /\ m <= k.pos /\ k.pos <= m + 1
  <2>1. Resumes(k) = m
    BY <1>2 DEF Resumes
  <2>2. Placed(k) /\ Shaped(k) /\ k.pos \in Nat
    BY BlankIs, PlacedParts
  <2>3. QED
    BY <1>2, <2>1, <2>2 DEF InPlace
<1>4. PICK l \in Nat : l = Limit(k) /\ l = Arrived(k) /\ k.pos < l /\ k.chain # <<>>
    BY <1>3, ArrivedIs DEF Ready, PlacedAt
<1>5. ASSUME Awaits(k, m, 2) PROVE InPlace(WaitForMore(k))
  <2>1. l <= m + 1 /\ m <= l
    BY <1>3, <1>4, <1>5 DEF Awaits
  <2>2. PICK j : j = [k EXCEPT !.pos = l]
    OBVIOUS
  <2>3. /\ Shaped(j) /\ j.doc = k.doc /\ j.chain = k.chain /\ j.tok = k.tok /\ j.attr = k.attr
        /\ j.out = k.out /\ j.pos = l /\ j.state = k.state
    BY <1>3, <2>2 DEF Shaped
  <2>4. Arrived(j) = l
    BY <1>4, <2>3 DEF Arrived, Limit, Base
  <2>5. PlacedAt(j, m)
    BY <1>3, <1>4, <2>3, <2>4 DEF PlacedAt
  <2>6. Resumes(j) = m
    BY <1>2, <2>3 DEF Resumes
  <2>7. j.state \in LengthStates /\ j.state \notin NoValueYet /\ j.state \notin MarkStates
    BY <2>3 DEF LengthStates, DoctypeStates, NoValueYet, MarkStates
  <2>8. j.pos \in Nat /\ m <= j.pos /\ j.pos <= Arrived(j) /\ j.pos <= j.tok.mark + 1
    BY <1>2, <2>1, <2>3, <2>4
  <2>9. InPlace(j)
    BY <2>3, <2>5, <2>6, <2>7, <2>8 DEF InPlace
  <2>10. QED
    BY <1>4, <2>2, <2>9 DEF WaitForMore
<1>6. ASSUME ~ Awaits(k, m, 2), NEW s \in LengthStates \ Sure PROVE InPlace(Keyword(k, s))
  <2>1. k.pos <= m + 2 /\ m + 2 <= Arrived(k)
    BY <1>3, <1>4, <1>6 DEF Awaits
  <2>2. QED
    BY <1>2, <1>3, <2>1, KeywordLands
<1>7. /\ "BEFORE_DOCTYPE_PUBLIC_IDENTIFIER" \in LengthStates \ Sure
      /\ "AFTER_DOCTYPE_PUBLIC_IDENTIFIER" \in LengthStates \ Sure
      /\ "BOGUS_DOCTYPE" \in LengthStates \ Sure
    BY DEF LengthStates, DoctypeStates, Sure, NoValueYet, MarkStates, LookAhead
<1>8. InPlace(Goto(k, "BOGUS_DOCTYPE"))
    BY <1>7, EnterLands
<1>9. QED
    BY <1>1, <1>2, <1>5, <1>6, <1>7, <1>8, ZenonT(60) DEF CustomAfterDoctypeNameState

\* Doctypes.
LEMMA DoctypeStatesLand ==
    ASSUME NEW k, InPlace(k), Ready(k), Sound(k), k.state \in DoctypeStates
    PROVE  InPlace(DoctypeState(k))
<1>1. k.held \in BOOLEAN
    BY DEF Sound, Free, Bound
<1>2. /\ k.state = "DOCTYPE_NAME" => Listed(k)
      /\ k.state = "BEFORE_DOCTYPE_NAME" => k.held = FALSE
    BY DEF Sound, Free, Bound, Listed, ReadsAttr
<1>3. \A s \in DoctypeStates : s # "CUSTOM_AFTER_DOCTYPE_NAME_A_Z" => s \in LengthStates \ Sure
    BY DEF DoctypeStates, LengthStates, Sure, NoValueYet, MarkStates, LookAhead
<1>4. /\ \A s \in {"BEFORE_DOCTYPE_NAME", "DOCTYPE_NAME", "AFTER_DOCTYPE_NAME",
                   "DOCTYPE_PUBLIC_IDENTIFIER_DOUBLE_QUOTED", "DOCTYPE_PUBLIC_IDENTIFIER_SINGLE_QUOTED",
                   "AFTER_DOCTYPE_PUBLIC_IDENTIFIER", "DOCTYPE_SYSTEM_IDENTIFIER_DOUBLE_QUOTED",
                   "DOCTYPE_SYSTEM_IDENTIFIER_SINGLE_QUOTED", "AFTER_DOCTYPE_SYSTEM_IDENTIFIER",
                   "BOGUS_DOCTYPE"} : s \in LengthStates \ Sure
    BY <1>3 DEF DoctypeStates
<1>5. \A j : Ready(j) => \A s \in LengthStates \ Sure : InPlace(Enter(j, s)) /\ InPlace(Goto(j, s))
    BY EnterLands
<1>6. \A j : Ready(j) => InPlace(CloseMarkup(j)) /\ InPlace(NewAttr(CloseMarkup(j)))
    BY CloseLands
<1>7. ASSUME k.state # "CUSTOM_AFTER_DOCTYPE_NAME_A_Z",
             NEW j, (\E stops : j = Seek(k, stops)) \/ j = SkipSpace(k)
      PROVE  InPlace(j) /\ Moved(k, j) /\ (~ Exhausted(j) => Ready(j)) /\ j.held = k.held /\ j.state = k.state
             /\ (Listed(k) => Listed(j))
  <2>1. k.state \notin LookAhead
    BY <1>7 DEF DoctypeStates, LookAhead
  <2>2. InPlace(j) /\ Moved(k, j) /\ (~ Exhausted(j) => Ready(j))
    BY <1>7, <2>1, ScanLands, Zenon
  <2>3. QED
    BY <2>2 DEF Moved, Listed
<1>8. ASSUME NEW j, Ready(j), j.held = FALSE
      PROVE  InPlace(BeforeDoctypeNameAt(j))
  <2>1. Attr(j).key_length = 0
    BY <1>8, BlankIs, PlacedParts DEF Attr
  <2>2. Ready(KeyFrom(HoldAttr(j)))
    BY <1>8, <2>1, NameBeginsInPlace
  <2>3. InPlace(Goto(KeyFrom(HoldAttr(j)), "DOCTYPE_NAME"))
    BY <1>4, <1>5, <2>2
  <2>4. QED
    BY <1>6, <1>8, <2>3, Zenon DEF BeforeDoctypeNameAt
<1>9. ASSUME NEW j, Ready(j), Listed(j), j.held \in BOOLEAN
      PROVE  InPlace(DoctypeNameAt(j))
  <2>1. PICK n : n = KeyTo(j)
    OBVIOUS
  <2>2. Placed(n) /\ Beside(j, n)
    BY <1>9, <2>1, AttrWritten, BlankIs
  <2>3. Ready(n)
    BY <1>9, <2>2, BesideReady
  <2>4. Ready(NewAttr(n))
    BY <2>3, ReadyStays
  <2>5. InPlace(Enter(NewAttr(n), "AFTER_DOCTYPE_NAME"))
    BY <1>4, <1>5, <2>4
  <2>6. QED
    BY <1>6, <2>1, <2>3, <2>5, Zenon DEF DoctypeNameAt
<1>10. ASSUME NEW j, Ready(j) PROVE InPlace(AfterDoctypeNameAt(j))
    BY <1>6, <1>10, CustomLands, Zenon DEF AfterDoctypeNameAt
<1>11. ASSUME NEW j, Ready(j), j.held \in BOOLEAN
       PROVE  InPlace(BeforePublicIdentifierAt(j)) /\ InPlace(AfterPublicIdentifierAt(j))
              /\ InPlace(AfterSystemIdentifierAt(j))
  <2>1. \A s \in LengthStates \ Sure : InPlace(Enter(IdentifierFrom(j), s))
    BY <1>11, IdentifierLands
  <2>2. QED
    BY <1>4, <1>5, <1>6, <1>11, <2>1, Zenon DEF BeforePublicIdentifierAt, AfterPublicIdentifierAt,
                                               AfterSystemIdentifierAt
<1>12. ASSUME NEW j, Ready(j), j.held \in BOOLEAN, NEW next \in LengthStates \ Sure
       PROVE  InPlace(IdentifierAt(j, next))
  <2>1. Ready(ValueTo(j))
    BY <1>12, ReadyStays
  <2>2. Ready(HoldAttr(ValueTo(j)))
    BY <2>1, ReadyStays
  <2>3. Ready(NewAttr(HoldAttr(ValueTo(j))))
    BY <2>2, ReadyStays
  <2>4. QED
    BY <1>5, <1>6, <1>12, <2>3, Zenon DEF IdentifierAt
<1>13. ASSUME k.state # "CUSTOM_AFTER_DOCTYPE_NAME_A_Z", NEW quote, NEW next \in LengthStates \ Sure
       PROVE  InPlace(IdentifierState(k, quote, next))
  <2>1. PICK j : j = Seek(k, {quote, ">"})
    OBVIOUS
  <2>2. InPlace(j) /\ (~ Exhausted(j) => Ready(j)) /\ j.held \in BOOLEAN
    BY <1>1, <1>7, <1>13, <2>1, Zenon
  <2>3. QED
    BY <1>12, <1>13, <2>1, <2>2, Zenon DEF IdentifierState, IdentifierScan
<1>14. CASE k.state = "DOCTYPE"
  <2>1. InPlace(Goto(k, "BEFORE_DOCTYPE_NAME"))
    BY <1>4, <1>5
  <2>2. QED
    BY <1>14, <2>1, Zenon DEF DoctypeState
<1>15. CASE k.state = "BEFORE_DOCTYPE_NAME"
  <2>1. PICK j : j = SkipSpace(k)
    OBVIOUS
  <2>2. InPlace(j) /\ (~ Exhausted(j) => Ready(j)) /\ j.held = FALSE
    BY <1>2, <1>7, <1>15, <2>1
  <2>3. InPlace(Stops(k, j, BeforeDoctypeNameAt))
    BY <1>8, <2>2 DEF Stops
  <2>4. QED
    BY <1>15, <2>1, <2>3 DEF DoctypeState
<1>16. CASE k.state = "DOCTYPE_NAME"
  <2>1. PICK j : j = Seek(k, Space \cup {">"})
    OBVIOUS
  <2>2. k.state # "CUSTOM_AFTER_DOCTYPE_NAME_A_Z"
    BY <1>16
  <2>3. InPlace(j) /\ (~ Exhausted(j) => Ready(j)) /\ Listed(j) /\ j.held \in BOOLEAN
    BY <1>1, <1>2, <1>7, <1>16, <2>1, <2>2, Zenon
  <2>4. InPlace(Stops(k, j, DoctypeNameAt))
    BY <1>9, <2>3 DEF Stops
  <2>5. QED
    BY <1>16, <2>1, <2>4 DEF DoctypeState
<1>17. CASE k.state \in {"AFTER_DOCTYPE_NAME", "BEFORE_DOCTYPE_PUBLIC_IDENTIFIER",
                         "AFTER_DOCTYPE_PUBLIC_IDENTIFIER", "AFTER_DOCTYPE_SYSTEM_IDENTIFIER"}
  <2>1. PICK j : j = SkipSpace(k)
    OBVIOUS
  <2>2. InPlace(j) /\ (~ Exhausted(j) => Ready(j)) /\ j.held \in BOOLEAN
    BY <1>1, <1>7, <1>17, <2>1
  <2>3. /\ InPlace(Stops(k, j, AfterDoctypeNameAt)) /\ InPlace(Stops(k, j, BeforePublicIdentifierAt))
        /\ InPlace(Stops(k, j, AfterPublicIdentifierAt)) /\ InPlace(Stops(k, j, AfterSystemIdentifierAt))
    BY <1>10, <1>11, <2>2 DEF Stops
  <2>4. QED
    BY <1>17, <2>1, <2>3 DEF DoctypeState
<1>18. CASE k.state \in {"DOCTYPE_PUBLIC_IDENTIFIER_DOUBLE_QUOTED", "DOCTYPE_PUBLIC_IDENTIFIER_SINGLE_QUOTED",
                         "DOCTYPE_SYSTEM_IDENTIFIER_DOUBLE_QUOTED", "DOCTYPE_SYSTEM_IDENTIFIER_SINGLE_QUOTED"}
  <2>1. \A quote : \A next \in LengthStates \ Sure : InPlace(IdentifierState(k, quote, next))
    BY <1>13, <1>18
  <2>2. QED
    BY <1>4, <1>18, <2>1 DEF DoctypeState
<1>19. CASE k.state = "BOGUS_DOCTYPE"
  <2>1. PICK j : j = Seek(k, {">"})
    OBVIOUS
  <2>2. k.state # "CUSTOM_AFTER_DOCTYPE_NAME_A_Z"
    BY <1>19
  <2>3. InPlace(j) /\ (~ Exhausted(j) => Ready(j))
    BY <1>7, <2>1, <2>2, Zenon
  <2>4. InPlace(BogusDoctypeState(k))
    BY <1>6, <2>1, <2>3, Zenon DEF BogusDoctypeState, Stops
  <2>5. QED
    BY <1>19, <2>4 DEF DoctypeState
<1>20. CASE k.state = "CUSTOM_AFTER_DOCTYPE_NAME_A_Z"
    BY <1>20, CustomStateLands DEF DoctypeState
<1>21. QED
    BY <1>14, <1>15, <1>16, <1>17, <1>18, <1>19, <1>20 DEF DoctypeStates

-----------------------------------------------------------------------------
(* The steps of the tokenizer. *)

\* What the loop does in a state leaves the spans in their places.
LEMMA StepInPlace ==
    ASSUME AttrInv, InPlace(lexer), Step
    PROVE  InPlace(lexer')
<1>1. Sound(lexer) /\ ~ Waiting
    BY DEF AttrInv, Step, Turn
<1>2. Ready(lexer)
  <2>1. Placed(lexer)
    BY InPlaceIs
  <2>2. lexer.pos \in Nat /\ Chained(lexer.chain, lexer.doc)
    BY <2>1 DEF Placed, PlacedAt
  <2>3. lexer.chain # <<>>
    BY <1>1, <2>2 DEF Waiting, Fed
  <2>4. Limit(lexer) \in Nat /\ Fed = Limit(lexer)
    BY <2>2, <2>3, ArrivedIs DEF Fed
  <2>5. QED
    BY <1>1, <2>1, <2>2, <2>3, <2>4 DEF Ready, Waiting
<1>3. CASE Turn(TagStates, TagFunction)
  <2>1. lexer.state \in TagStates /\ lexer' = TagFunction(lexer)
    BY <1>3, Zenon DEF Turn
  <2>2. InPlace(TagFunction(lexer))
    BY <1>2, <2>1, OpeningLands, DeclarationLands DEF TagStates, TagFunction
  <2>3. QED
    BY <2>1, <2>2
<1>4. CASE Turn(AttributeStates, AttributeFunction)
    BY <1>1, <1>2, <1>4, AttributeStatesLand, Zenon DEF Turn
<1>5. CASE Turn(CommentStates, CommentFunction)
    BY <1>2, <1>5, CommentStatesLand, Zenon DEF Turn
<1>6. CASE Turn(DoctypeStates, DoctypeState)
    BY <1>1, <1>2, <1>6, DoctypeStatesLand, Zenon DEF Turn
<1>7. CASE Turn(RcdataStates \cup RawtextStates, RcdataOrRawtext)
    BY <1>2, <1>7, RawStatesLand, Zenon DEF Turn
<1>8. CASE Turn(ScriptStates, ScriptState)
    BY <1>2, <1>8, ScriptStatesLand, Zenon DEF Turn
<1>9. CASE Turn({"PLAINTEXT"}, PlaintextState)
    BY <1>2, <1>9, PlaintextLands, Zenon DEF Turn
<1>10. CASE Turn({"CDATA_SECTION"}, CdataSectionState)
    BY <1>2, <1>10, CdataLands, Zenon DEF Turn
<1>11. QED
    BY <1>3, <1>4, <1>5, <1>6, <1>7, <1>8, <1>9, <1>10 DEF Step

\* At first nothing has been read.
LEMMA SpansInit ==
    ASSUME Init
    PROVE  InPlace(lexer)
<1>1. PICK d \in Documents : lexer = NewLexer(d)
    BY DEF Init
<1>2. PICK tok, attr, state : tok = FreshToken(0) /\ attr = FreshAttr /\ state = DataParser(d.fragment)
    OBVIOUS
<1>3. /\ Shaped(lexer) /\ lexer.doc = d.text /\ lexer.chain = <<>> /\ lexer.pos = 0
      /\ lexer.tok = tok /\ lexer.attr = attr /\ lexer.out = <<>> /\ lexer.state = state
    BY <1>1, <1>2 DEF NewLexer, Shaped, FreshToken
<1>4. tok.raw_begin = 0 /\ tok.raw_length = 0 /\ tok.mark = 0 /\ tok.attrs = <<>>
    BY <1>2 DEF FreshToken
<1>5. AttrUpTo(attr, 0) /\ attr.key_length = 0
    BY <1>2 DEF FreshAttr, AttrUpTo, AttrShape
<1>6. IsList(<<>>) /\ Len(<<>>) = 0 /\ DOMAIN <<>> = {}
    BY EmptySeq DEF IsList
<1>7. AttrsUpTo(<<>>, 0) /\ QueueUpTo(<<>>, 0, 0)
    BY <1>6 DEF AttrsUpTo, QueueUpTo
<1>8. TokenUpTo(tok, 0, 0)
    BY <1>4, <1>7 DEF TokenUpTo, TokenEnd
<1>9. Chained(<<>>, d.text)
  <2>1. d.text \in Seq(STRING)
    BY DocumentsAssumption
  <2>2. <<>> \in Seq(Buffer) /\ 1 .. Len(<<>>) - 1 = {}
    BY <1>6, EmptySeq
  <2>3. QED
    BY <2>1, <2>2 DEF Chained
<1>10. Placed(lexer)
    BY <1>3, <1>4, <1>5, <1>7, <1>8, <1>9 DEF Placed, PlacedAt, Arrived
<1>11. state \notin NoValueYet \cup MarkStates \cup LookAhead
    BY <1>2 DEF DataParser, NoValueYet, MarkStates, LookAhead
<1>12. QED
    BY <1>3, <1>4, <1>10, <1>11, Lands

\* Another buffer in the chain.
LEMMA AddedChained ==
    ASSUME NEW k, Chained(k.chain, k.doc), NEW size \in 0 .. (Len(k.doc) - Arrived(k)),
           NEW chain, chain = Added(k.chain, size)
    PROVE  /\ Chained(chain, k.doc) /\ chain # <<>>
           /\ EndOf(chain[Len(chain)]) = Arrived(k) + size
<1>1. PICK old : old = k.chain
    OBVIOUS
<1>2. PICK n \in Nat : n = Len(old) /\ (old = <<>> <=> n = 0)
    BY <1>1, EmptySeq, LenProperties DEF Chained
<1>3. PICK a \in Nat : a = Arrived(k) /\ Len(k.doc) \in Nat /\ a <= Len(k.doc)
    BY ArrivedIs
<1>4. size \in Nat /\ a + size <= Len(k.doc)
    BY <1>3
<1>5. old # <<>> => a = EndOf(old[n])
    BY <1>1, <1>2, <1>3, ArrivedIs
<1>6. PICK b : b = [size |-> size, offset |-> a]
    OBVIOUS
<1>7. b \in Buffer /\ b.size = size /\ b.offset = a /\ EndOf(b) = a + size
    BY <1>4, <1>6 DEF Buffer, EndOf
<1>8. chain = Append(old, b)
  <2>1. CASE old = <<>>
    BY <1>1, <1>3, <1>6, <2>1 DEF Added, Arrived
  <2>2. CASE old # <<>>
    <3>1. Last(old).offset + Last(old).size = a
      BY <1>2, <1>5, <2>2 DEF Last, EndOf
    <3>2. QED
      BY <1>1, <1>6, <2>2, <3>1, Zenon DEF Added
  <2>3. QED
    BY <2>1, <2>2
<1>9. /\ chain \in Seq(Buffer) /\ Len(chain) = n + 1 /\ chain[n + 1] = b
      /\ \A i \in 1 .. n : chain[i] = old[i]
  <2>1. old \in Seq(Buffer)
    BY <1>1 DEF Chained
  <2>2. QED
    BY <1>2, <1>7, <1>8, <2>1, AppendProperties
<1>10. chain # <<>>
    BY <1>2, <1>9, EmptySeq
<1>11. chain[1].offset = 0
  <2>1. CASE n = 0
    <3>1. a = 0
      BY <1>1, <1>2, <1>3, <2>1 DEF Arrived
    <3>2. QED
      BY <1>7, <1>9, <2>1, <3>1
  <2>2. CASE n # 0
    <3>1. 1 \in 1 .. n /\ old # <<>>
      BY <1>2, <2>2
    <3>2. QED
      BY <1>1, <1>9, <3>1 DEF Chained
  <2>3. QED
    BY <2>1, <2>2
<1>12. ASSUME NEW i \in 1 .. n PROVE chain[i + 1].offset = EndOf(chain[i])
  <2>1. CASE i = n
    BY <1>2, <1>5, <1>7, <1>9, <2>1
  <2>2. CASE i # n
    <3>1. i \in 1 .. n - 1 /\ i + 1 \in 1 .. n
      BY <1>2, <2>2
    <3>2. old[i + 1].offset = EndOf(old[i])
      BY <1>1, <1>2, <3>1 DEF Chained
    <3>3. QED
      BY <1>9, <3>1, <3>2
  <2>3. QED
    BY <2>1, <2>2
<1>13. EndOf(chain[Len(chain)]) = a + size
    BY <1>7, <1>9
<1>14. Len(chain) - 1 = n
    BY <1>2, <1>9
<1>15. Chained(chain, k.doc)
  <2>1. k.doc \in Seq(STRING)
    BY DEF Chained
  <2>2. QED
    BY <1>4, <1>9, <1>11, <1>12, <1>13, <1>14, <2>1 DEF Chained
<1>16. QED
    BY <1>3, <1>10, <1>13, <1>15

\* A chunk that does not end between the dashes of "<!--" leaves it to the
\* look-ahead that there are none.
LEMMA DashesTold ==
    ASSUME NEW doc \in Seq(STRING), NEW b \in Nat, b + 2 <= Len(doc),
           SubSeq(doc, b + 1, b + 1) # <<"-">>
    PROVE  SubSeq(doc, b + 1, b + 2) # <<"-", "-">>
<1>1. Len(doc) \in Nat /\ \A i \in 1 .. Len(doc) : doc[i] \in STRING
    BY LenProperties, ElementOfSeq
<1>2. PICK m \in Int, n \in Int : m = b + 1 /\ n = b + 2 /\ m <= n /\ (\A i \in m .. n : i \in 1 .. Len(doc))
    BY <1>1
<1>3. \A i \in m .. n : doc[i] \in STRING
    BY <1>1, <1>2
<1>4. SubSeq(doc, m, n)[1] = doc[m]
  <2>1. \A i \in 1 .. n - m + 1 : SubSeq(doc, m, n)[i] = doc[m + i - 1]
    BY <1>3, SubSeqProperties
  <2>2. 1 \in 1 .. n - m + 1 /\ m + 1 - 1 = m
    BY <1>2
  <2>3. QED
    BY <2>1, <2>2
<1>5. \A i \in m .. m : doc[i] \in STRING
    BY <1>2, <1>3
<1>6. /\ SubSeq(doc, m, m) \in Seq(STRING) /\ Len(SubSeq(doc, m, m)) = 1
      /\ SubSeq(doc, m, m)[1] = doc[m]
  <2>1. /\ SubSeq(doc, m, m) \in Seq(STRING) /\ Len(SubSeq(doc, m, m)) = (IF m <= m THEN m - m + 1 ELSE 0)
        /\ \A i \in 1 .. m - m + 1 : SubSeq(doc, m, m)[i] = doc[m + i - 1]
    BY <1>5, SubSeqProperties
  <2>2. m <= m /\ m - m + 1 = 1 /\ 1 \in 1 .. 1 /\ m + 1 - 1 = m
    BY <1>2
  <2>3. QED
    BY <2>1, <2>2
<1>7. ASSUME doc[m] = "-" PROVE SubSeq(doc, m, m) = <<"-">>
  <2>1. PICK s : s = SubSeq(doc, m, m)
    OBVIOUS
  <2>2. s \in Seq(STRING) /\ Len(s) = 1 /\ s[1] = "-"
    BY <1>6, <1>7, <2>1
  <2>3. s = [i \in 1 .. 1 |-> s[i]]
    BY <2>2, LenProperties
  <2>4. QED
    BY <2>1, <2>2, <2>3
<1>8. doc[m] # "-"
    BY <1>2, <1>7
<1>9. ASSUME SubSeq(doc, m, n) = <<"-", "-">> PROVE FALSE
  <2>1. PICK s : s = SubSeq(doc, m, n)
    OBVIOUS
  <2>2. s = <<"-", "-">>
    BY <1>9, <2>1
  <2>3. s[1] = "-"
    BY <2>2
  <2>4. QED
    BY <1>4, <1>8, <2>1, <2>3
<1>10. QED
    BY <1>2, <1>9

\* The next chunk is no reason for anything to move.
LEMMA FeedInPlace ==
    ASSUME InPlace(lexer), NEW size \in 0 .. (Len(lexer.doc) - Fed), Feed(size), ~ harmed'
    PROVE  InPlace(lexer')
<1>1. PICK k : k = lexer
    OBVIOUS
<1>2. InPlace(k) /\ Placed(k) /\ Shaped(k) /\ Chained(k.chain, k.doc) /\ k.pos \in Nat
    BY <1>1, InPlaceIs DEF Placed, PlacedAt
<1>3. Fed = Arrived(k)
    BY <1>1 DEF Fed, Arrived
<1>4. PICK a \in Nat : a = Arrived(k) /\ k.pos = a /\ Len(k.doc) \in Nat
  <2>1. Arrived(k) \in Nat /\ k.pos >= Arrived(k) /\ k.pos <= Arrived(k) /\ Len(k.doc) \in Nat
    BY <1>1, <1>2, <1>3, ArrivedIs DEF Feed, Waiting, InPlace
  <2>2. QED
    BY <1>2, <2>1
<1>5. size \in 0 .. (Len(k.doc) - Arrived(k))
    BY <1>1, <1>3
<1>6. PICK c : c = Added(k.chain, size)
    OBVIOUS
<1>7. Chained(c, k.doc) /\ c # <<>> /\ EndOf(c[Len(c)]) = a + size
    BY <1>2, <1>4, <1>5, <1>6, AddedChained
<1>8. PICK j : j = lexer'
    OBVIOUS
<1>9. j = [k EXCEPT !.chain = c, !.pos = a]
    BY <1>1, <1>3, <1>4, <1>6, <1>8 DEF Feed
<1>10. /\ Shaped(j) /\ j.chain = c /\ j.pos = k.pos /\ j.doc = k.doc /\ j.tok = k.tok /\ j.attr = k.attr
       /\ j.held = k.held /\ j.out = k.out /\ j.state = k.state
    BY <1>2, <1>4, <1>9 DEF Shaped
<1>11. Arrived(j) = a + size /\ size \in Nat /\ a <= Arrived(j) /\ Arrived(j) <= Len(k.doc)
  <2>1. Arrived(j) = a + size
    BY <1>7, <1>10, ArrivedIs
  <2>2. QED
    BY <1>4, <1>5, <2>1
<1>12. Resumes(j) = Resumes(k) /\ Attr(j) = Attr(k)
    BY <1>10 DEF Resumes, Attr
<1>13. \A p : PlacedAt(k, p) => PlacedAt(j, p)
  <2>1. TAKE p
  <2>2. SUFFICES ASSUME PlacedAt(k, p) PROVE PlacedAt(j, p)
    OBVIOUS
  <2>3. p \in Nat /\ p <= Arrived(j)
    BY <1>4, <1>11, <2>2 DEF PlacedAt
  <2>4. QED
    BY <1>7, <1>10, <2>2, <2>3 DEF PlacedAt
<1>14. ASSUME k.state = "MARKUP_DECLARATION_OPEN" PROVE NoDashes(j)
  <2>1. PICK b \in Nat : b = k.tok.raw_begin
    BY <1>2, PlacedParts
  <2>2. CASE k.pos = b
    BY <1>10, <2>1, <2>2 DEF NoDashes
  <2>3. CASE SubSeq(k.doc, b + 1, b + 2) # <<"-", "-">>
    BY <1>10, <2>1, <2>3 DEF NoDashes
  <2>4. CASE k.pos = b + 1 /\ size = 0
    BY <1>4, <1>10, <1>11, <2>1, <2>4 DEF NoDashes
  <2>5. CASE k.pos = b + 1 /\ size # 0
    <3>1. k.chain # <<>>
      BY <1>4, <2>1, <2>5 DEF Arrived
    <3>2. ~ Harms(k)
      BY <1>1, <3>1 DEF Feed
    <3>3. SubSeq(k.doc, b + 1, b + 1) # <<"-">>
      BY <1>14, <2>1, <2>5, <3>2 DEF Harms, Behind
    <3>4. b + 2 <= Len(k.doc)
      BY <1>4, <1>11, <2>5
    <3>5. k.doc \in Seq(STRING)
      BY <1>2 DEF Chained
    <3>6. SubSeq(k.doc, b + 1, b + 2) # <<"-", "-">>
      BY <3>3, <3>4, <3>5, DashesTold
    <3>7. QED
      BY <2>3, <3>6
  <2>6. k.pos = b \/ k.pos = b + 1 \/ SubSeq(k.doc, b + 1, b + 2) # <<"-", "-">>
    BY <1>2, <1>14, <2>1 DEF InPlace, NoDashes
  <2>7. QED
    BY <2>2, <2>3, <2>4, <2>5, <2>6
<1>15. InPlace(j)
  <2>1. j.pos \in Nat /\ Resumes(j) <= j.pos /\ j.pos <= Arrived(j) /\ PlacedAt(j, Resumes(j))
    BY <1>2, <1>4, <1>10, <1>11, <1>12, <1>13 DEF InPlace
  <2>2. QED
    BY <1>2, <1>10, <1>12, <1>14, <2>1 DEF InPlace
<1>16. QED
    BY <1>8, <1>15

-----------------------------------------------------------------------------
(* The end of the document. *)

(* Lexer j stands where k does, and is placed. *)
Kept(k, j) == Placed(j) /\ Beside(k, j)

\* What is done with an unfinished token leaves the lexer placed.
LEMMA KeptBy ==
    ASSUME NEW k, Placed(k)
    PROVE  /\ \A tag : Kept(k, Tag(k, tag))
           /\ \A types : Kept(k, Type(k, types))
           /\ Kept(k, k) /\ Kept(k, NotSpace(k)) /\ Kept(k, CheckTagParser(k)) /\ Kept(k, Length(k))
           /\ Kept(k, Cut(k, 2)) /\ Kept(k, QueueAdd(k)) /\ Kept(k, NewAttr(k))
           /\ Kept(k, [k EXCEPT !.tok.raw_length = k.pos - k.tok.raw_begin])
           /\ k.held \in BOOLEAN => Kept(k, ValueTo(k))
           /\ Listed(k) /\ k.held \in BOOLEAN => Kept(k, KeyTo(k))
<1>1. \A j : Same(k, j) => Beside(k, j)
    BY DEF Same, Beside
<1>2. /\ \A tag : Kept(k, Tag(k, tag))
      /\ \A types : Kept(k, Type(k, types))
      /\ Kept(k, NotSpace(k)) /\ Kept(k, CheckTagParser(k))
    BY <1>1, RenamedStays, Zenon DEF Kept
<1>3. Kept(k, k) /\ Kept(k, Length(k)) /\ Kept(k, Cut(k, 2))
  <2>1. Kept(k, k)
    BY DEF Kept, Beside
  <2>2. 2 \in Nat
    OBVIOUS
  <2>3. QED
    BY <2>1, <2>2, SpanStays DEF Kept
<1>4. Kept(k, [k EXCEPT !.tok.raw_length = k.pos - k.tok.raw_begin])
    BY <1>3, Zenon DEF Length
<1>5. Kept(k, QueueAdd(k)) /\ Kept(k, NewAttr(k))
    BY QueueAddPlaced, AttrStays DEF Kept
<1>6. /\ k.held \in BOOLEAN => Kept(k, ValueTo(k))
      /\ Listed(k) /\ k.held \in BOOLEAN => Kept(k, KeyTo(k))
    BY AttrWritten DEF Kept
<1>7. QED
    BY <1>2, <1>3, <1>4, <1>5, <1>6

\* One after the other.
LEMMA KeptOn ==
    ASSUME NEW k, NEW j, Kept(k, j), NEW i, Kept(j, i)
    PROVE  Kept(k, i)
    BY DEF Kept, Beside

\* The text in front of the end.
LEMMA EndTextKept ==
    ASSUME NEW k, Placed(k), NEW type
    PROVE  Kept(k, EndText(k, type))
<1>1. PICK h : h = Type(k, {type})
    OBVIOUS
<1>2. Kept(k, h) /\ Placed(h) /\ Shaped(k)
    BY <1>1, KeptBy, BlankIs, Zenon DEF Kept
<1>3. PICK i : i = Tag(h, Text)
    OBVIOUS
<1>4. Kept(h, i) /\ Placed(i)
    BY <1>2, <1>3, KeptBy, Zenon DEF Kept
<1>5. i.tok.raw_begin = k.tok.raw_begin /\ i.pos = k.pos
  <2>1. Same(k, h) /\ Shaped(h)
    BY <1>1, RenamedStays, Zenon
  <2>2. Same(h, i)
    BY <1>2, <1>3, RenamedStays, Zenon
  <2>3. QED
    BY <2>1, <2>2 DEF Same
<1>6. PICK j : j = [i EXCEPT !.tok.raw_length = i.pos - i.tok.raw_begin]
    OBVIOUS
<1>7. Kept(i, j) /\ Placed(j)
    BY <1>4, <1>6, KeptBy, Zenon DEF Kept
<1>8. Kept(j, QueueAdd(j))
    BY <1>7, KeptBy
<1>9. Kept(k, QueueAdd(j)) /\ Kept(k, k)
    BY <1>2, <1>4, <1>7, <1>8, KeptOn, KeptBy
<1>10. j = [i EXCEPT !.tok.raw_length = k.pos - k.tok.raw_begin]
    BY <1>5, <1>6
<1>11. EndText(k, type) = QueueAdd(j) \/ EndText(k, type) = k
    BY <1>1, <1>3, <1>10, Zenon DEF EndText, CreateTextNodeIfNeed
<1>12. QED
    BY <1>9, <1>11

(* Lexer j is placed, in what has come in for k. *)
Stays(k, j) == Placed(j) /\ j.doc = k.doc /\ j.chain = k.chain

\* The '>' of a comment.
LEMMA CloseStays ==
    ASSUME NEW k, Ready(k)
    PROVE  Stays(k, CloseMarkup(k))
<1>1. PICK e : e = Eat(k, 1)
    OBVIOUS
<1>2. Stays(k, e)
  <2>1. Placed(e) /\ Shaped(k)
    BY <1>1, ReadyStays, BlankIs
  <2>2. e.doc = k.doc /\ e.chain = k.chain
    BY <1>1, <2>1 DEF Eat, Shaped
  <2>3. QED
    BY <2>1, <2>2 DEF Stays
<1>3. PICK q : q = QueueAdd(e)
    OBVIOUS
<1>4. Kept(e, q) /\ Shaped(q)
    BY <1>2, <1>3, KeptBy, BlankIs DEF Stays, Kept
<1>5. Placed(Goto(q, "DATA")) /\ Same(q, Goto(q, "DATA"))
    BY <1>4, GotoStays DEF Kept
<1>6. Stays(k, Goto(q, "DATA"))
    BY <1>2, <1>4, <1>5 DEF Stays, Kept, Beside, Same
<1>7. QED
    BY <1>1, <1>3, <1>6, Zenon DEF CloseMarkup

\* A bogus comment from a place in what has come in.
LEMMA BogusStays ==
    ASSUME NEW k, NEW b \in Nat, PlacedAt(k, b), k.chain # <<>>
    PROVE  Stays(k, BogusCommentFrom(k, b))
<1>1. PICK m : m = [k EXCEPT !.pos = b]
    OBVIOUS
<1>2. PICK l \in Nat : l = Limit(k) /\ l = Arrived(k) /\ b <= l /\ b <= b
    BY ArrivedIs DEF PlacedAt
<1>3. /\ Placed(m) /\ Shaped(m) /\ m.pos = b /\ m.chain = k.chain /\ m.doc = k.doc
      /\ Limit(m) = l /\ Arrived(m) = l
  <2>1. Placed(m) /\ Shaped(m)
    BY <1>1, <1>2, MovedPlaced, Zenon
  <2>2. m.pos = b /\ m.chain = k.chain /\ m.doc = k.doc
    BY <1>1 DEF Shaped, PlacedAt
  <2>3. QED
    BY <1>2, <2>1, <2>2 DEF Limit, Base, Arrived
<1>4. PICK h : h = Tag(m, Comment)
    OBVIOUS
<1>5. PICK i : i = Type(h, {"COMMENT"})
    OBVIOUS
<1>6. Kept(m, i) /\ Placed(i) /\ Shaped(i) /\ i.pos = b /\ Limit(i) = l /\ Arrived(i) = l /\ i.chain = k.chain
      /\ i.doc = k.doc
  <2>1. Kept(m, h) /\ Placed(h)
    BY <1>3, <1>4, KeptBy, Zenon DEF Kept
  <2>2. Kept(h, i) /\ Placed(i) /\ Shaped(i)
    BY <1>5, <2>1, KeptBy, BlankIs, Zenon DEF Kept
  <2>3. Kept(m, i)
    BY <2>1, <2>2, KeptOn
  <2>4. i.pos = b /\ i.chain = k.chain /\ i.doc = k.doc
    BY <1>3, <2>3 DEF Kept, Beside
  <2>5. QED
    BY <1>2, <2>2, <2>3, <2>4 DEF Limit, Base, Arrived
<1>7. \E p \in Nat : Seek(i, {">"}) = [i EXCEPT !.pos = p] /\ b <= p /\ p <= l
  <2>1. CASE b < l
    <3>1. Ready(i)
      BY <1>6, <2>1 DEF Ready
    <3>2. PICK p \in Nat : Seek(i, {">"}) = [i EXCEPT !.pos = p] /\ i.pos <= p /\ p <= Arrived(i)
      BY <3>1, ScanStops
    <3>3. QED
      BY <1>6, <3>2
  <2>2. CASE ~ (b < l)
    <3>1. b = l
      BY <1>2, <2>2
    <3>2. PICK hits : hits = {p \in i.pos .. (Limit(i) - 1) : i.doc[p + 1] \in {">"}}
      OBVIOUS
    <3>3. hits = {}
      BY <1>6, <3>1, <3>2
    <3>4. Seek(i, {">"}) = [i EXCEPT !.pos = l]
      BY <1>6, <3>2, <3>3, Zenon DEF Seek
    <3>5. QED
      BY <1>2, <3>1, <3>4
  <2>3. QED
    BY <2>1, <2>2
<1>8. PICK p \in Nat : Seek(i, {">"}) = [i EXCEPT !.pos = p] /\ b <= p /\ p <= l
    BY <1>7
<1>9. PICK j : j = [i EXCEPT !.pos = p]
    OBVIOUS
<1>10. Stays(k, j) /\ j.pos = p /\ Limit(j) = l /\ j.chain # <<>>
  <2>1. PlacedAt(i, b) /\ b <= p /\ p <= Arrived(i)
    BY <1>6, <1>8 DEF Placed
  <2>2. Placed(j) /\ Limit(j) = Limit(i)
    BY <1>9, <2>1, MovedPlaced, Zenon
  <2>3. j.doc = i.doc /\ j.chain = i.chain /\ j.pos = p
    BY <1>6, <1>9 DEF Shaped
  <2>4. QED
    BY <1>6, <2>2, <2>3 DEF Stays
<1>11. ASSUME ~ Exhausted(j) PROVE Stays(k, BogusCommentAt(j))
  <2>1. Ready(j)
    BY <1>10, <1>11 DEF Ready, Exhausted, Stays
  <2>2. PICK x : x = Length(j)
    OBVIOUS
  <2>3. Ready(x) /\ Kept(j, x)
    BY <2>1, <2>2, ReadyStays, KeptBy, BlankIs
  <2>4. Stays(x, CloseMarkup(x))
    BY <2>3, CloseStays
  <2>5. Stays(k, CloseMarkup(x))
    BY <1>10, <2>3, <2>4 DEF Stays, Kept, Beside
  <2>6. QED
    BY <2>2, <2>5 DEF BogusCommentAt
<1>12. BogusCommentFrom(k, b) = Stops(k, j, BogusCommentAt)
    BY <1>1, <1>4, <1>5, <1>8, <1>9 DEF BogusCommentFrom
<1>13. QED
    BY <1>10, <1>11, <1>12 DEF Stops

\* What is left up to the end of what has come in becomes a token.
LEMMA RestStays ==
    ASSUME NEW k, NEW j, Stays(k, j), NEW l \in Nat, l = Limit(k), l = Arrived(k), NEW tag, NEW types
    PROVE  Stays(k, QueueAdd(Length([Type(Tag(NotSpace(j), tag), types) EXCEPT !.pos = l])))
<1>1. PICK x : x = NotSpace(j)
    OBVIOUS
<1>2. Kept(j, x) /\ Placed(x)
    BY <1>1, KeptBy DEF Kept, Stays
<1>3. PICK y : y = Tag(x, tag)
    OBVIOUS
<1>4. Kept(x, y) /\ Placed(y)
    BY <1>2, <1>3, KeptBy, Zenon DEF Kept
<1>5. PICK z : z = Type(y, types)
    OBVIOUS
<1>6. Kept(y, z) /\ Placed(z) /\ Shaped(z)
    BY <1>4, <1>5, KeptBy, BlankIs, Zenon DEF Kept
<1>7. Kept(j, z)
    BY <1>2, <1>4, <1>6, KeptOn
<1>8. z.doc = k.doc /\ z.chain = k.chain
    BY <1>7 DEF Kept, Beside, Stays
<1>9. PICK w : w = [z EXCEPT !.pos = l]
    OBVIOUS
<1>10. Placed(w) /\ w.doc = k.doc /\ w.chain = k.chain
  <2>1. Arrived(z) = l
    BY <1>8 DEF Arrived, Limit, Base
  <2>2. PlacedAt(z, z.pos) /\ z.pos <= l /\ l <= Arrived(z)
    BY <1>6, <2>1 DEF Placed, PlacedAt
  <2>3. Placed(w)
    BY <1>9, <2>2, MovedPlaced, Zenon
  <2>4. w.doc = z.doc /\ w.chain = z.chain
    BY <1>6, <1>9 DEF Shaped
  <2>5. QED
    BY <1>8, <2>3, <2>4
<1>11. PICK u : u = Length(w)
    OBVIOUS
<1>12. Kept(w, u) /\ Placed(u)
    BY <1>10, <1>11, KeptBy DEF Kept
<1>13. Kept(u, QueueAdd(u))
    BY <1>12, KeptBy
<1>14. Kept(w, QueueAdd(u))
    BY <1>12, <1>13, KeptOn
<1>15. Stays(k, QueueAdd(u))
    BY <1>10, <1>14 DEF Kept, Beside, Stays
<1>16. QED
    BY <1>1, <1>3, <1>5, <1>9, <1>11, <1>15, Zenon

\* Where there is no '>' it does not matter from where on it is looked for.
LEMMA NothingToFind ==
    ASSUME NEW k, Shaped(k), NEW b \in Nat, NEW c \in Nat, b <= c, NEW l \in Nat, l = Limit(k),
           \A p \in Nat : b <= p /\ p < l => k.doc[p + 1] # ">"
    PROVE  BogusCommentFrom(k, c) = BogusCommentFrom(k, b)
<1>1. PICK n : n = Type(Tag(k, Comment), {"COMMENT"})
    OBVIOUS
<1>2. ASSUME NEW d \in Nat, b <= d PROVE BogusCommentFrom(k, d) = [n EXCEPT !.pos = l]
  <2>1. PICK m : m = [k EXCEPT !.pos = d]
    OBVIOUS
  <2>2. PICK i : i = Type(Tag(m, Comment), {"COMMENT"})
    OBVIOUS
  <2>3. i.doc = k.doc /\ i.chain = k.chain /\ i.pos = d /\ Shaped(i)
    BY <2>1, <2>2 DEF Shaped, Tag, Type
  <2>4. [i EXCEPT !.pos = l] = [n EXCEPT !.pos = l]
    <3>1. PICK tok : tok = [[k.tok EXCEPT !.tag = Comment] EXCEPT !.type = @ \cup {"COMMENT"}]
      OBVIOUS
    <3>2. \A x : Shaped(x) /\ x.tok = k.tok => Type(Tag(x, Comment), {"COMMENT"}) = [x EXCEPT !.tok = tok]
      <4>1. SUFFICES ASSUME NEW x, Shaped(x), x.tok = k.tok
                     PROVE  Type(Tag(x, Comment), {"COMMENT"}) = [x EXCEPT !.tok = tok]
        OBVIOUS
      <4>2. PICK h : h = Tag(x, Comment)
        OBVIOUS
      <4>3. h = [x EXCEPT !.tok = [k.tok EXCEPT !.tag = Comment]] /\ h.tok = [k.tok EXCEPT !.tag = Comment]
        BY <4>1, <4>2 DEF Tag, Shaped
      <4>4. Type(h, {"COMMENT"}) = [h EXCEPT !.tok = tok]
        BY <3>1, <4>3 DEF Type
      <4>5. [h EXCEPT !.tok = tok] = [x EXCEPT !.tok = tok]
        BY <4>3
      <4>6. QED
        BY <4>2, <4>4, <4>5
    <3>3. Shaped(m) /\ m.tok = k.tok
      BY <2>1 DEF Shaped
    <3>4. i = [m EXCEPT !.tok = tok] /\ n = [k EXCEPT !.tok = tok]
      BY <1>1, <2>2, <3>2, <3>3
    <3>5. [[m EXCEPT !.tok = tok] EXCEPT !.pos = l] = [[k EXCEPT !.tok = tok] EXCEPT !.pos = l]
      BY <2>1
    <3>6. QED
      BY <3>4, <3>5
  <2>5. PICK hits : hits = {p \in i.pos .. (Limit(i) - 1) : i.doc[p + 1] \in {">"}}
    OBVIOUS
  <2>6. Limit(i) = l
    BY <2>3 DEF Limit, Base
  <2>7. hits = {}
    BY <1>2, <2>3, <2>5, <2>6
  <2>8. Seek(i, {">"}) = [i EXCEPT !.pos = l]
    BY <2>5, <2>6, <2>7, Zenon DEF Seek
  <2>9. PICK j : j = [i EXCEPT !.pos = l]
    OBVIOUS
  <2>10. Exhausted(j)
    <3>1. j.pos = l /\ j.chain = i.chain
      BY <2>3, <2>9 DEF Shaped
    <3>2. QED
      BY <2>3, <3>1 DEF Exhausted, Limit, Base
  <2>11. BogusCommentFrom(k, d) = Stops(k, j, BogusCommentAt)
    BY <2>1, <2>2, <2>8, <2>9 DEF BogusCommentFrom
  <2>12. QED
    BY <2>4, <2>9, <2>10, <2>11 DEF Stops
<1>3. QED
    BY <1>2

\* Behind "<!", when that is in the first chunk or the rest has no '>', there
\* is a comment.
LEMMA EndDeclarationStays ==
    ASSUME NEW k, InPlace(k), k.chain # <<>>, k.state = "MARKUP_DECLARATION_OPEN",
           Base(k) = 0 \/ (k.pos = Limit(k) /\ ">" \notin ToSet(Behind(k)))
    PROVE  Stays(k, EndMarkupDeclarationOpen(k))
<1>1. PICK b \in Nat : b = k.tok.raw_begin
    BY InPlaceIs, PlacedParts
<1>2. PICK l \in Nat : l = Limit(k) /\ l = Arrived(k)
    BY InPlaceIs, ArrivedIs DEF Placed, PlacedAt
<1>3. Placed(k) /\ Shaped(k) /\ PlacedAt(k, b)
  <2>1. Resumes(k) = b
    BY <1>1 DEF Resumes
  <2>2. QED
    BY <2>1, InPlaceIs, BlankIs DEF InPlace
<1>4. Stays(k, BogusCommentFrom(k, b)) /\ Stays(k, k)
    BY <1>3, BogusStays DEF Stays
<1>5. BogusCommentFrom(k, Base(k) + b) = BogusCommentFrom(k, b)
  <2>1. CASE Base(k) = 0
    BY <2>1
  <2>2. CASE k.pos = Limit(k) /\ ">" \notin ToSet(Behind(k))
    <3>1. Base(k) \in Nat
      <4>1. PICK m \in Nat : m = Len(k.chain) /\ m # 0
        BY <1>3, BuffersInOrder, EmptySeq DEF PlacedAt, Chained
      <4>2. k.chain[m] \in Buffer
        BY <1>3, <4>1, ElementOfSeq DEF PlacedAt, Chained
      <4>3. QED
        BY <4>1, <4>2 DEF Base, Last, Buffer
    <3>2. ASSUME NEW p \in Nat, b <= p, p < l PROVE k.doc[p + 1] # ">"
      <4>1. PICK s : s = SubSeq(k.doc, b + 1, l)
        OBVIOUS
      <4>2. p + 1 - b \in DOMAIN s /\ s[p + 1 - b] = k.doc[p + 1]
        BY <1>3, <3>2, <4>1
      <4>3. s = Behind(k)
        BY <1>1, <1>2, <2>2, <4>1 DEF Behind
      <4>4. QED
        BY <2>2, <4>2, <4>3 DEF ToSet
    <3>3. PICK c \in Nat : c = Base(k) + b /\ b <= c
      BY <3>1
    <3>4. QED
      BY <1>2, <1>3, <3>2, <3>3, NothingToFind, Zenon
  <2>3. QED
    BY <2>1, <2>2
<1>6. PICK j : j = BogusCommentFrom(k, b)
    OBVIOUS
<1>7. Stays(k, j) /\ Stays(k, k)
    BY <1>4, <1>6
<1>8. Stays(k, BehindTheComment(k, j)) /\ Stays(k, RestIsComment(k, j))
    BY <1>2, <1>7, RestStays, Zenon DEF BehindTheComment, RestIsComment
<1>9. EndMarkupDeclarationOpen(k) \in {k, BehindTheComment(k, j), RestIsComment(k, j)}
    BY <1>1, <1>5, <1>6 DEF EndMarkupDeclarationOpen
<1>10. QED
    BY <1>7, <1>8, <1>9

\* What is left of a tag, of its name or of the text in front of it.
LEMMA EndOpeningStays ==
    ASSUME NEW k, Placed(k)
    PROVE  /\ \A type : Stays(k, EndText(k, type))
           /\ Stays(k, EndTagOpen(k)) /\ Stays(k, EndEndTagOpen(k))
<1>1. \A j : Kept(k, j) => Stays(k, j)
    BY DEF Kept, Stays, Beside
<1>2. Kept(k, k)
    BY KeptBy
<1>3. \A type : Kept(k, EndText(k, type))
    BY EndTextKept
<1>4. PICK x : x = Length(k)
    OBVIOUS
<1>5. Kept(k, x) /\ Placed(x)
    BY <1>4, KeptBy DEF Kept
<1>6. Kept(k, QueueAdd(CheckTagParser(x)))
  <2>1. PICK y : y = CheckTagParser(x)
    OBVIOUS
  <2>2. Kept(x, y) /\ Placed(y)
    BY <1>5, <2>1, KeptBy DEF Kept
  <2>3. Kept(y, QueueAdd(y))
    BY <2>2, KeptBy
  <2>4. Kept(k, QueueAdd(y))
    BY <1>5, <2>2, <2>3, KeptOn
  <2>5. QED
    BY <2>1, <2>4
<1>7. ASSUME NEW j, Kept(k, j) PROVE Kept(k, EndText(NotSpace(j), "DATA"))
  <2>1. PICK y : y = NotSpace(j)
    OBVIOUS
  <2>2. Kept(j, y) /\ Placed(y)
    BY <1>7, <2>1, KeptBy DEF Kept
  <2>3. Kept(y, EndText(y, "DATA"))
    BY <2>2, EndTextKept
  <2>4. Kept(k, EndText(y, "DATA"))
    BY <1>7, <2>2, <2>3, KeptOn
  <2>5. QED
    BY <2>1, <2>4
<1>8. Kept(k, EndTagOpen(k))
  <2>1. Kept(k, EndText(NotSpace(k), "DATA"))
    BY <1>2, <1>7
  <2>2. PICK u, v : u = QueueAdd(CheckTagParser(x)) /\ v = EndText(NotSpace(k), "DATA")
    OBVIOUS
  <2>3. EndTagOpen(k) \in {u, v, k}
    BY <1>4, <2>2 DEF EndTagOpen
  <2>4. QED
    BY <1>2, <1>6, <2>1, <2>2, <2>3
<1>9. Kept(k, EndEndTagOpen(k))
  <2>1. Kept(k, EndText(NotSpace(x), "DATA"))
    BY <1>5, <1>7
  <2>2. QED
    BY <1>2, <1>4, <2>1, Zenon DEF EndEndTagOpen
<1>10. QED
    BY <1>1, <1>3, <1>8, <1>9

\* What is left of a text, a comment or a section.
LEMMA EndTextsStay ==
    ASSUME NEW k, Placed(k)
    PROVE  /\ Stays(k, EndCdataSection(k)) /\ Stays(k, EndComment(k))
           /\ Stays(k, EndRcdataOrRawtext(k)) /\ Stays(k, EndScript(k))
<1>1. \A j : Kept(k, j) => Stays(k, j)
    BY DEF Kept, Stays, Beside
<1>2. Kept(k, k)
    BY KeptBy
<1>3. \A type : Kept(k, EndText(k, type))
    BY EndTextKept
<1>4. \A j : Kept(k, j) => Kept(k, QueueAdd(j))
  <2>1. TAKE j
  <2>2. SUFFICES ASSUME Kept(k, j) PROVE Kept(k, QueueAdd(j))
    OBVIOUS
  <2>3. Kept(j, QueueAdd(j))
    BY <2>2, KeptBy DEF Kept
  <2>4. QED
    BY <2>2, <2>3, KeptOn
<1>5. Kept(k, Length(k)) /\ Kept(k, Cut(k, 2))
    BY KeptBy
<1>6. Kept(k, EndCdataSection(k)) /\ Kept(k, EndComment(k))
    BY <1>2, <1>4, <1>5, Zenon DEF EndCdataSection, EndComment, EndCommentEnd
<1>7. Kept(k, EndRcdata(k))
  <2>1. PICK x : x = Type(k, {"RCDATA"})
    OBVIOUS
  <2>2. Kept(k, x) /\ Placed(x)
    BY <2>1, KeptBy, Zenon DEF Kept
  <2>3. PICK y : y = Tag(x, Text)
    OBVIOUS
  <2>4. Kept(x, y) /\ Placed(y)
    BY <2>2, <2>3, KeptBy, Zenon DEF Kept
  <2>5. PICK z : z = Length(y)
    OBVIOUS
  <2>6. Kept(y, z)
    BY <2>4, <2>5, KeptBy
  <2>7. Kept(k, QueueAdd(z))
    BY <1>4, <2>2, <2>4, <2>6, KeptOn
  <2>8. QED
    BY <1>2, <2>1, <2>3, <2>5, <2>7, Zenon DEF EndRcdata
<1>8. Kept(k, EndScript(k))
    BY <1>3 DEF EndScript
<1>9. Kept(k, EndRcdataOrRawtext(k))
  <2>1. PICK u, v, w : u = EndRcdata(k) /\ v = EndText(k, "RCDATA") /\ w = EndText(k, "RAWTEXT")
    OBVIOUS
  <2>2. EndRcdataOrRawtext(k) \in {u, v, w}
    BY <2>1 DEF EndRcdataOrRawtext
  <2>3. QED
    BY <1>3, <1>7, <2>1, <2>2
<1>10. QED
    BY <1>1, <1>6, <1>8, <1>9

\* What is left of a tag with its attributes, or of a doctype.
LEMMA EndAttributesStay ==
    ASSUME NEW k, Placed(k), Sound(k)
    PROVE  Stays(k, EndAttribute(k)) /\ Stays(k, EndDoctype(k))
<1>1. \A j : Kept(k, j) => Stays(k, j)
    BY DEF Kept, Stays, Beside
<1>2. Kept(k, k) /\ Kept(k, Length(k))
    BY KeptBy
<1>3. k.held \in BOOLEAN /\ (k.state \in {"ATTRIBUTE_NAME", "DOCTYPE_NAME"} => Listed(k))
    BY DEF Sound, Free, Bound, ReadsAttr, Listed
<1>4. \A j : Kept(k, j) => Kept(k, QueueAdd(j)) /\ Kept(k, NewAttr(QueueAdd(j)))
  <2>1. TAKE j
  <2>2. SUFFICES ASSUME Kept(k, j) PROVE Kept(k, QueueAdd(j)) /\ Kept(k, NewAttr(QueueAdd(j)))
    OBVIOUS
  <2>3. PICK q : q = QueueAdd(j)
    OBVIOUS
  <2>4. Kept(j, q) /\ Placed(q)
    BY <2>2, <2>3, KeptBy DEF Kept
  <2>5. Kept(q, NewAttr(q))
    BY <2>4, KeptBy
  <2>6. Kept(k, q) /\ Kept(k, NewAttr(q))
    BY <2>2, <2>4, <2>5, KeptOn
  <2>7. QED
    BY <2>3, <2>6
<1>5. Kept(k, ValueTo(k))
    BY <1>3, KeptBy
<1>6. k.state \in {"ATTRIBUTE_NAME", "DOCTYPE_NAME"} => Kept(k, QueueAdd(KeyTo(k)))
  <2>1. SUFFICES ASSUME k.state \in {"ATTRIBUTE_NAME", "DOCTYPE_NAME"} PROVE Kept(k, QueueAdd(KeyTo(k)))
    OBVIOUS
  <2>2. Kept(k, KeyTo(k))
    BY <1>3, <2>1, KeptBy
  <2>3. QED
    BY <1>4, <2>2
<1>7. Kept(k, EndAttribute(k))
  <2>1. PICK a, b, c, d, e : /\ a = QueueAdd(KeyTo(k)) /\ b = NewAttr(QueueAdd(k))
                             /\ c = NewAttr(QueueAdd(ValueTo(k))) /\ d = QueueAdd(Length(k))
                             /\ e = QueueAdd(k)
    OBVIOUS
  <2>2. \/ EndAttribute(k) \in {k, b, c, d, e}
        \/ k.state = "ATTRIBUTE_NAME" /\ EndAttribute(k) = a
    BY <2>1 DEF EndAttribute
  <2>3. Kept(k, b) /\ Kept(k, c) /\ Kept(k, d) /\ Kept(k, e)
    BY <1>2, <1>4, <1>5, <2>1
  <2>4. QED
    BY <1>2, <1>6, <2>1, <2>2, <2>3
<1>8. Kept(k, EndDoctype(k))
  <2>1. PICK a, b, c : a = QueueAdd(KeyTo(k)) /\ b = EndText(k, "RAWTEXT") /\ c = QueueAdd(k)
    OBVIOUS
  <2>2. \/ EndDoctype(k) \in {b, c}
        \/ k.state = "DOCTYPE_NAME" /\ EndDoctype(k) = a
    BY <2>1 DEF EndDoctype
  <2>3. Kept(k, b) /\ Kept(k, c)
    BY <1>2, <1>4, <2>1, EndTextKept
  <2>4. QED
    BY <1>6, <2>1, <2>2, <2>3
<1>9. QED
    BY <1>1, <1>7, <1>8

\* Whatever the state, what is unfinished at the end is placed.
LEMMA EndStays ==
    ASSUME NEW k, InPlace(k), Sound(k), k.chain # <<>>,
           k.state = "MARKUP_DECLARATION_OPEN" =>
               Base(k) = 0 \/ (k.pos = Limit(k) /\ ">" \notin ToSet(Behind(k)))
    PROVE  Stays(k, EndState(k))
<1>1. Placed(k) /\ Stays(k, k)
    BY InPlaceIs DEF Stays
<1>2. PICK t, a, b, c, d, e, f, g, h :
          /\ t = EndText(k, "DATA") /\ a = EndTagOpen(k) /\ b = EndEndTagOpen(k)
          /\ c = EndMarkupDeclarationOpen(k) /\ d = EndCdataSection(k) /\ e = EndAttribute(k)
          /\ f = EndComment(k) /\ g = EndRcdataOrRawtext(k) /\ h = EndScript(k)
    OBVIOUS
<1>3. PICK i : i = EndDoctype(k)
    OBVIOUS
<1>4. \/ EndState(k) \in {k, t, a, b, d, e, f, g, h, i}
      \/ k.state = "MARKUP_DECLARATION_OPEN" /\ EndState(k) = c
    BY <1>2, <1>3 DEF EndState
<1>5. Stays(k, t) /\ Stays(k, a) /\ Stays(k, b)
    BY <1>1, <1>2, EndOpeningStays
<1>6. Stays(k, d) /\ Stays(k, f) /\ Stays(k, g) /\ Stays(k, h)
    BY <1>1, <1>2, EndTextsStay
<1>7. Stays(k, e) /\ Stays(k, i)
    BY <1>1, <1>2, <1>3, EndAttributesStay
<1>8. k.state = "MARKUP_DECLARATION_OPEN" => Stays(k, c)
    BY <1>2, EndDeclarationStays
<1>9. QED
    BY <1>1, <1>4, <1>5, <1>6, <1>7, <1>8

\* The token of the end stands behind those of the document.
LEMMA StopPlaced ==
    ASSUME AttrInv, InPlace(lexer), Stop, ~ harmed'
    PROVE  /\ Chained(lexer'.chain, lexer'.doc) /\ lexer'.chain # <<>>
           /\ Len(lexer'.doc) = EndOf(lexer'.chain[Len(lexer'.chain)])
           /\ \E front, last : /\ lexer'.out = Append(front, last)
                               /\ QueueUpTo(front, Len(lexer'.doc), Len(lexer'.doc))
<1>1. PICK k : k = lexer
    OBVIOUS
<1>2. InPlace(k) /\ Sound(k) /\ Placed(k) /\ Shaped(k) /\ Chained(k.chain, k.doc) /\ k.pos \in Nat
    BY <1>1, InPlaceIs DEF AttrInv, Stop, Placed, PlacedAt
<1>3. k.chain # <<>> /\ Fed = Limit(k) /\ Limit(k) = Len(k.doc) /\ Len(k.doc) \in Nat
    BY <1>1 , <1>2, ArrivedIs DEF Stop, Fed
<1>4. PICK n \in Nat : n = Len(k.doc) /\ n = Limit(k) /\ n = Arrived(k) /\ n = Fed
    BY <1>2, <1>3, ArrivedIs
<1>5. k.pos = n
  <2>1. k.pos <= n /\ k.pos >= n
    BY <1>1, <1>2, <1>4 DEF Stop, Waiting, InPlace
  <2>2. QED
    BY <1>2, <2>1
<1>6. PICK e : e = [k EXCEPT !.pos = n]
    OBVIOUS
<1>7. Shaped(e) /\ \A f \in {"doc", "chain", "pos", "state", "tok", "attr", "held", "out"} : e[f] = k[f]
    BY <1>2, <1>5, <1>6 DEF Shaped
<1>8. /\ e.doc = k.doc /\ e.chain = k.chain /\ e.pos = k.pos /\ e.state = k.state /\ e.tok = k.tok
      /\ e.attr = k.attr /\ e.held = k.held /\ e.out = k.out
    BY <1>7
<1>9. InPlace(e)
  <2>1. Resumes(e) = Resumes(k) /\ Arrived(e) = Arrived(k) /\ Attr(e) = Attr(k)
    BY <1>8 DEF Resumes, Arrived, Limit, Base, Attr
  <2>2. \A p : PlacedAt(k, p) => PlacedAt(e, p)
    BY <1>7, <1>8, <2>1 DEF PlacedAt
  <2>3. NoDashes(k) => NoDashes(e)
    BY <1>8, <2>1 DEF NoDashes
  <2>4. QED
    BY <1>2, <1>8, <2>1, <2>2, <2>3 DEF InPlace
<1>10. Sound(e)
  <2>1. Keeps(k, [k EXCEPT !.pos = n])
    BY <1>2, ScanSound, PosKeeps
  <2>2. QED
    BY <1>2, <1>6, <2>1, ScanSound
<1>11. ASSUME e.state = "MARKUP_DECLARATION_OPEN"
       PROVE  Base(e) = 0 \/ (e.pos = Limit(e) /\ ">" \notin ToSet(Behind(e)))
  <2>1. CASE Len(k.chain) > 1
    <3>1. ~ EndHarms(k)
      BY <1>1, <2>1 DEF Stop
    <3>2. Behind(e) = Behind(k) /\ Limit(e) = Limit(k)
      BY <1>8 DEF Behind, Limit, Base
    <3>3. QED
      BY <1>4, <1>5, <1>8, <1>11, <3>1, <3>2 DEF EndHarms
  <2>2. CASE ~ (Len(k.chain) > 1)
    <3>1. PICK m \in Nat : m = Len(k.chain) /\ m # 0
      BY <1>2, <1>3, BuffersInOrder, EmptySeq DEF Chained
    <3>2. ~ (m > 1) /\ m # 0
      BY <2>2, <3>1, Zenon
    <3>3. m = 1
      BY ONLY m \in Nat, <3>2
    <3>4. k.chain[1].offset = 0
      BY <1>2, <1>3 DEF Chained
    <3>5. Base(e) = 0
      BY <1>8, <3>1, <3>3, <3>4 DEF Base, Last
    <3>6. QED
      BY <3>5
  <2>3. QED
    BY <2>1, <2>2
<1>12. PICK s : s = EndState(e)
    OBVIOUS
<1>13. Placed(s) /\ s.doc = k.doc /\ s.chain = k.chain
    BY <1>3, <1>8, <1>9, <1>10, <1>11, <1>12, EndStays DEF Stays
<1>14. PICK x : x = Tag(s, Eof)
    OBVIOUS
<1>15. Same(s, x) /\ Placed(x) /\ Shaped(x) /\ x.tok.tag = Eof
  <2>1. Same(s, x) /\ Placed(x) /\ Shaped(x)
    BY <1>13, <1>14, RenamedStays, Zenon
  <2>2. x.tok.tag = Eof
    <3>1. Shaped(s)
      BY <1>13, BlankIs
    <3>2. QED
      BY <1>14, <3>1 DEF Tag, Shaped
  <2>3. QED
    BY <2>1, <2>2
<1>16. PICK c : c = CalcCurrentNamespace(x)
    OBVIOUS
<1>17. Same(x, c)
    BY <1>15, <1>16, RenamedSame
<1>18. PICK tok : tok = FreshToken(x.pos)
    OBVIOUS
<1>19. lexer' = [c EXCEPT !.out = Append(c.out, x.tok), !.tok = tok]
  <2>1. lexer' = QueueAdd(x)
    BY <1>1, <1>4, <1>6, <1>12, <1>14 DEF Stop, End
  <2>2. Eof # Text
    BY DEF Eof, Text
  <2>3. QED
    BY <1>15, <1>16, <1>18, <2>1, <2>2, Zenon DEF QueueAdd
<1>20. PICK l : l = lexer'
    OBVIOUS
<1>21. l.out = Append(x.out, x.tok) /\ l.doc = k.doc /\ l.chain = k.chain
  <2>1. l.out = Append(c.out, x.tok) /\ l.doc = c.doc /\ l.chain = c.chain
    BY <1>17, <1>19, <1>20 DEF Same, Shaped
  <2>2. c.out = x.out /\ c.doc = k.doc /\ c.chain = k.chain
    BY <1>13, <1>15, <1>17 DEF Same
  <2>3. QED
    BY <2>1, <2>2
<1>22. QueueUpTo(x.out, n, n)
  <2>1. Arrived(x) = n
    BY <1>4, <1>13, <1>15 DEF Arrived, Limit, Base, Same
  <2>2. /\ x.pos \in Nat /\ x.pos <= n
        /\ x.tok.raw_begin \in Nat /\ TokenUpTo(x.tok, x.pos, x.pos)
        /\ QueueUpTo(x.out, x.tok.raw_begin, x.pos)
    BY <1>15, <2>1 DEF Placed, PlacedAt, TokenUpTo
  <2>3. x.tok.raw_begin <= n
    BY <2>2 DEF TokenUpTo, TokenEnd
  <2>4. QED
    BY <2>2, <2>3, UpToLater
<1>23. QED
  <2>1. Limit(k) = EndOf(k.chain[Len(k.chain)])
    BY <1>2, <1>3, ArrivedIs
  <2>2. \E front, last : l.out = Append(front, last) /\ QueueUpTo(front, Len(l.doc), Len(l.doc))
    BY <1>4, <1>21, <1>22
  <2>3. QED
    BY <1>2, <1>3, <1>20, <1>21, <2>1, <2>2

-----------------------------------------------------------------------------
(* The spans of the tokenizer. *)

(* While a document is read the lexer's spans are in place; once it has ended,
   all of the document has come in, and the end's token is the last. *)
SpanInv ==
    ~ harmed =>
        /\ ~ ended => InPlace(lexer)
        /\ ended => /\ Chained(lexer.chain, lexer.doc) /\ lexer.chain # <<>>
                    /\ Len(lexer.doc) = EndOf(lexer.chain[Len(lexer.chain)])
                    /\ \E front, last : /\ lexer.out = Append(front, last)
                                        /\ QueueUpTo(front, Len(lexer.doc), Len(lexer.doc))

\* The inductive invariant.
THEOREM SpanInvariance == Spec => [](AttrInv /\ SpanInv)
<1>1. Init => AttrInv /\ SpanInv
    BY AttrInvInit, SpansInit DEF SpanInv, Init
<1>2. ASSUME AttrInv, SpanInv, [Next]_vars PROVE AttrInv' /\ SpanInv'
  <2>1. CASE \E size \in 0 .. (Len(lexer.doc) - Fed) : Feed(size)
    <3>1. PICK size \in 0 .. (Len(lexer.doc) - Fed) : Feed(size)
      BY <2>1
    <3>2. ~ ended /\ ~ ended' /\ (~ harmed' => ~ harmed)
      BY <3>1 DEF Feed
    <3>3. AttrInv'
      BY <1>2, <3>1, FeedSound
    <3>4. ASSUME ~ harmed' PROVE InPlace(lexer)'
      <4>1. InPlace(lexer)
        BY <1>2, <3>2, <3>4 DEF SpanInv
      <4>2. InPlace(lexer')
        BY <3>1, <3>4, <4>1, FeedInPlace
      <4>3. QED
        BY <4>2
    <3>5. QED
      BY <3>2, <3>3, <3>4 DEF SpanInv
  <2>2. CASE Step
    <3>1. ~ ended /\ ~ ended' /\ harmed' = harmed
      BY <2>2 DEF Step, Turn
    <3>2. AttrInv'
      BY <1>2, <2>2, StepSound
    <3>3. ASSUME ~ harmed' PROVE InPlace(lexer)'
      <4>1. InPlace(lexer)
        BY <1>2, <3>1, <3>3 DEF SpanInv
      <4>2. InPlace(lexer')
        BY <1>2, <2>2, <4>1, StepInPlace
      <4>3. QED
        BY <4>2
    <3>4. QED
      BY <3>1, <3>2, <3>3 DEF SpanInv
  <2>3. CASE Stop
    <3>1. ~ ended /\ ended' = TRUE /\ (~ harmed' => ~ harmed)
      BY <2>3 DEF Stop
    <3>2. AttrInv'
      BY <1>2, <2>3, StopSound
    <3>3. ASSUME ~ harmed' PROVE SpanInv'
      <4>1. InPlace(lexer)
        BY <1>2, <3>1, <3>3 DEF SpanInv
      <4>2. /\ Chained(lexer'.chain, lexer'.doc) /\ lexer'.chain # <<>>
            /\ Len(lexer'.doc) = EndOf(lexer'.chain[Len(lexer'.chain)])
            /\ \E front, last : /\ lexer'.out = Append(front, last)
                                /\ QueueUpTo(front, Len(lexer'.doc), Len(lexer'.doc))
        BY <1>2, <2>3, <3>3, <4>1, StopPlaced
      <4>3. QED
        BY <3>1, <4>2 DEF SpanInv
    <3>4. QED
      BY <3>2, <3>3 DEF SpanInv
  <2>4. CASE UNCHANGED vars
    <3>1. lexer' = lexer /\ ended' = ended /\ harmed' = harmed
      BY <2>4 DEF vars
    <3>2. AttrInv'
      BY <1>2, <3>1 DEF AttrInv, Sound, Free, Bound, Known
    <3>3. SpanInv'
      BY <1>2, <3>1 DEF SpanInv
    <3>4. QED
      BY <3>2, <3>3
  <2>5. QED
    BY <1>2, <2>1, <2>2, <2>3, <2>4 DEF Next
<1>3. QED
    BY <1>1, <1>2, PTL DEF Spec

\* Once a document has ended its spans are sound.
LEMMA SpansAreSound ==
    ASSUME SpanInv
    PROVE  SpansSound
<1>1. SUFFICES ASSUME Unharmed
               PROVE  InOrder /\ \A token \in Queued : \A span \in SpansOf(token) :
                                     Inside(span) /\ Readable(span)
    BY DEF SpansSound
<1>2. /\ Chained(lexer.chain, lexer.doc) /\ lexer.chain # <<>>
      /\ Len(lexer.doc) = EndOf(lexer.chain[Len(lexer.chain)])
    BY <1>1 DEF SpanInv, Unharmed
<1>3. PICK front, last : /\ lexer.out = Append(front, last)
                         /\ QueueUpTo(front, Len(lexer.doc), Len(lexer.doc))
    BY <1>1 DEF SpanInv, Unharmed
<1>4. PICK n \in Nat : n = Len(lexer.doc)
    BY <1>2, LenProperties DEF Chained
<1>5. PICK c \in Nat : c = Len(front) /\ DOMAIN front = 1 .. c
    BY <1>3, ListLen DEF QueueUpTo
<1>6. Len(lexer.out) = c + 1 /\ \A i \in 1 .. c : lexer.out[i] = front[i]
    BY <1>3, <1>5, ListLen DEF QueueUpTo
<1>7. InOrder
  <2>1. SUFFICES ASSUME NEW i \in 2 .. c
                 PROVE  lexer.out[i].raw_begin >= lexer.out[i - 1].raw_begin + lexer.out[i - 1].raw_length
    BY <1>6 DEF InOrder
  <2>2. i \in 1 .. c /\ i - 1 \in 1 .. c
    OBVIOUS
  <2>3. lexer.out[i] = front[i] /\ lexer.out[i - 1] = front[i - 1]
    BY <1>6, <2>2
  <2>4. TokenUpTo(front[i], n, n) /\ TokenUpTo(front[i - 1], n, n)
    BY <1>3, <1>4, <1>5, <2>2 DEF QueueUpTo
  <2>5. TokenEnd(front[i - 1]) <= front[i].raw_begin
    BY <1>3, <1>5 DEF QueueUpTo
  <2>6. QED
    BY <2>3, <2>4, <2>5 DEF TokenUpTo, TokenEnd
<1>8. ASSUME NEW token \in Queued, NEW span \in SpansOf(token)
      PROVE  Inside(span) /\ Readable(span)
  <2>1. TokenUpTo(token, n, n)
    <3>1. PICK i \in 1 .. c : token = lexer.out[i]
      <4>1. Len(lexer.out) - 1 = c
        BY <1>6
      <4>2. QED
        BY <1>8, <4>1 DEF Queued
    <3>2. QED
      BY <1>3, <1>4, <1>5, <1>6, <3>1 DEF QueueUpTo
  <2>2. span[1] \in Nat /\ span[2] \in Nat /\ span[1] + span[2] <= n
    <3>1. CASE span = <<token.raw_begin, token.raw_length>>
      BY <2>1, <3>1 DEF TokenUpTo, TokenEnd
    <3>2. CASE \E a \in ToSet(token.attrs) : span \in {<<a.key_begin, a.key_length>>,
                                                       <<a.value_begin, a.value_length>>}
      <4>1. PICK a \in ToSet(token.attrs) : span \in {<<a.key_begin, a.key_length>>,
                                                      <<a.value_begin, a.value_length>>}
        BY <3>2
      <4>2. AttrUpTo(a, n)
        BY <2>1, <4>1 DEF TokenUpTo, AttrsUpTo, ToSet
      <4>3. QED
        BY <4>1, <4>2 DEF AttrUpTo, AttrShape
    <3>3. QED
      BY <1>8, <3>1, <3>2 DEF SpansOf
  <2>3. Inside(span)
    BY <1>4, <2>2 DEF Inside
  <2>4. Readable(span)
    <3>1. MakeData(lexer.doc, lexer.chain, span[1], span[2])
            = SubSeq(lexer.doc, span[1] + 1, span[1] + span[2])
      BY <1>2, <1>4, <2>2, ChainReads, SMTT(30)
    <3>2. QED
      BY <3>1 DEF Readable, WordAt
  <2>5. QED
    BY <2>3, <2>4
<1>9. QED
    BY <1>7, <1>8

\* SpansSound (myhtml_tokenizer_chunk_process, myhtml_tokenizer_end and the
\* state functions): whatever the document is and wherever it is cut, its
\* tokens come in its order and do not overlap, no span of theirs or of their
\* attributes reaches behind it, and the walk over the buffers finds in every
\* one of them the characters that the document has there.
THEOREM SpansStaySound == Spec => []SpansSound
<1>1. AttrInv /\ SpanInv => SpansSound
    BY SpansAreSound
<1>2. QED
    BY <1>1, SpanInvariance, PTL
===============================================================================
