------------------------ MODULE TreeConstruction_proofs ------------------------
(***************************************************************************)
(* A token is the token of one node, and in one thread the tokenizer and   *)
(* the builder agree about raw text, whatever the documents are.           *)
(*                                                                         *)
(* What could go wrong is that a token is given to a node and comes back:  *)
(* a handler that has the dispatcher process the token once more, or goes  *)
(* on to use the rules of another mode, must not have given it away; the   *)
(* texts in a table are given to nodes turns later, by tokens of others;   *)
(* reconstruction and the adoption agency copy elements that have tokens.  *)
(* So each operation on a tree is shown to give away a token at most       *)
(* (Gives), each handler to give away the one at hand only when it is done *)
(* (Handled), and a turn of the dispatcher to put them together (Stage).   *)
(* The invariant is TokenInv: what nodes have and what is kept for nodes   *)
(* is older than the token at hand, and nothing is both.                   *)
(*                                                                         *)
(* The second goes with it: a handler that starts from a mode of markup    *)
(* (Plain) ends in one, or has asked for raw text (Raw), with the element  *)
(* on top of the stack, for an HTML tag and as the last to see it; nothing *)
(* to come back to is a raw text (NoWayBack).  The invariant is RawInv:    *)
(* the tokenizer is in a state of raw text exactly in the mode for it.     *)
(*                                                                         *)
(* A tree is only taken for a record with the fields needed (IsTree), so   *)
(* nothing is assumed of what is in the stack of open elements, of the     *)
(* list of active formatting elements or of the links.                     *)
(***************************************************************************)
EXTENDS TreeConstruction, WellFoundedInduction, SequenceTheorems, TLAPS

\* A sequence, whatever it is of.
IsList(s) == s \in Seq(Range(s))

\* Nodes that have a token, or Null in its place, and a namespace.
IsNodes(n) == IsList(n) /\ \A x \in DOMAIN n : {"token", "ns"} \subseteq DOMAIN n[x]

\* The same nodes with the same tokens.
SameNodes(n, m) ==
    /\ IsNodes(m)
    /\ DOMAIN m = DOMAIN n
    /\ \A x \in DOMAIN n : m[x].token = n[x].token /\ m[x].ns = n[x].ns

(* A tree that has the fields this is about. *)
IsTree(t) ==
    /\ {"nodes", "open", "mode", "orig", "modes", "list", "token", "builder", "fragment",
        "again", "rules"} \subseteq DOMAIN t
    /\ IsNodes(t.nodes) /\ IsList(t.open)

(* The places there are, and the tokens that are nobody's own. *)
PlaceModes == {"DEFAULT", "BEFORE", "AFTER"}
NoToken    == {Null, Copy}

(* The tokens that a node of the tree has for its own. *)
Owned(t) == {t.nodes[x].token : x \in DOMAIN t.nodes} \ NoToken

Unique(t) ==
    \A x, y \in DOMAIN t.nodes :
        x # y /\ t.nodes[x].token \notin NoToken => t.nodes[x].token # t.nodes[y].token

(* From t to u at most the tokens I have been given to nodes; the modes and *)
(* the token at hand are what they were.                                   *)
Gives(t, u, I) ==
    /\ IsTree(u)
    /\ u.mode = t.mode /\ u.orig = t.orig /\ u.modes = t.modes /\ u.list = t.list
    /\ u.builder = t.builder /\ u.fragment = t.fragment
    /\ DOMAIN u.token = DOMAIN t.token
    /\ "id" \in DOMAIN t.token => u.token.id = t.token.id
    /\ Owned(u) \subseteq Owned(t) \cup I
    /\ Unique(t) /\ I \cap Owned(t) = {} => Unique(u)

-----------------------------------------------------------------------------
(* Loops and lists. *)

\* Induction: a set with 0 in it and with every next number has all of them.
LEMMA AllNumbers ==
    ASSUME NEW T, 0 \in T, \A l \in Nat : l \in T => l + 1 \in T
    PROVE  Nat \subseteq T
<1>1. SUFFICES ASSUME Nat \ T # {} PROVE FALSE
    OBVIOUS
<1>2. PICK l \in Nat \ T : \A k \in Nat \ T : ~ (<<k, l>> \in OpToRel(<, Nat))
  <2>1. \E l \in Nat \ T : \A k \in Nat \ T : ~ (<<k, l>> \in OpToRel(<, Nat))
    BY <1>1, NatLessThanWellFounded, WFMin
  <2>2. QED
    BY <2>1
<1>3. \A k \in Nat : k < l => k \in T
    BY <1>2 DEF OpToRel
<1>4. l # 0
    OBVIOUS
<1>5. l - 1 \in T
    BY <1>3, <1>4
<1>6. QED
    BY <1>4, <1>5

\* A function on the indices of a list is a list.
LEMMA ListIs ==
    ASSUME NEW s, NEW n \in Nat, NEW T, s \in [1 .. n -> T]
    PROVE  IsList(s) /\ Len(s) = n
<1>1. s \in [1 .. n -> Range(s)]
    BY DEF Range
<1>2. s \in Seq(Range(s))
    BY <1>1, SeqDef
<1>3. QED
    BY <1>1, <1>2, LenProperties DEF IsList

\* A sequence of things of any kind is a list.
LEMMA ListOf ==
    ASSUME NEW T, NEW s \in Seq(T)
    PROVE  IsList(s)
<1>1. Len(s) \in Nat /\ s \in [1 .. Len(s) -> T]
    BY LenProperties
<1>2. QED
    BY <1>1, ListIs

\* A list with another element in a place is a list.
LEMMA ListExcept ==
    ASSUME NEW s, IsList(s), NEW x, NEW v
    PROVE  IsList([s EXCEPT ![x] = v]) /\ DOMAIN [s EXCEPT ![x] = v] = DOMAIN s
<1>1. PICK n \in Nat : s \in [1 .. n -> Range(s)]
    BY LenProperties DEF IsList
<1>2. [s EXCEPT ![x] = v] \in [1 .. n -> Range(s) \cup {v}]
    BY <1>1
<1>3. QED
    BY <1>1, <1>2, ListIs

\* The first and the last of a set of places.
LEMMA FirstAndLast ==
    ASSUME NEW n \in Nat, NEW I, I \subseteq 0 .. n, I # {}
    PROVE  Min(I) \in I /\ Max(I) \in I
<1>1. ASSUME NEW J, J \subseteq Nat, J # {} PROVE \E x \in J : \A y \in J : x <= y
  <2>1. PICK x \in J : \A y \in J : ~ (<<y, x>> \in OpToRel(<, Nat))
    BY <1>1, NatLessThanWellFounded, WFMin
  <2>2. ASSUME NEW y \in J PROVE x <= y
    <3>1. x \in Nat /\ y \in Nat
      BY <1>1
    <3>2. ~ (y < x)
      BY <2>1, <3>1 DEF OpToRel
    <3>3. QED
      BY <3>1, <3>2
  <2>3. QED
    BY <2>2
<1>2. Min(I) \in I
  <2>1. I \subseteq Nat
    OBVIOUS
  <2>2. \E x \in I : \A y \in I : x <= y
    BY <1>1, <2>1
  <2>3. QED
    BY <2>2 DEF Min
<1>3. Max(I) \in I
  <2>. DEFINE J == {n - i : i \in I}
  <2>1. J \subseteq Nat /\ J # {}
    <3>1. \A i \in I : n - i \in Nat
      OBVIOUS
    <3>2. QED
      BY <3>1
  <2>2. PICK y \in J : \A z \in J : y <= z
    BY <1>1, <2>1
  <2>3. PICK x \in I : y = n - x
    OBVIOUS
  <2>4. ASSUME NEW i \in I PROVE x >= i
    <3>1. i \in 0 .. n /\ x \in 0 .. n /\ n - i \in J
      OBVIOUS
    <3>2. n - x <= n - i
      BY <2>2, <2>3, <3>1
    <3>3. QED
      BY <3>1, <3>2
  <2>5. QED
    BY <2>4 DEF Max
<1>4. QED
    BY <1>2, <1>3

\* The place of an element in a list, or 0.
LEMMA PlaceIn ==
    ASSUME NEW s, IsList(s)
    PROVE  /\ Len(s) \in Nat
           /\ \A I \in SUBSET (1 .. Len(s)) :
                /\ (IF I # {} THEN Max(I) ELSE 0) \in 0 .. Len(s)
                /\ (IF I # {} THEN Min(I) ELSE 0) \in 0 .. Len(s)
           /\ \A x : IndexOf(s, x) \in 0 .. Len(s)
<1>1. Len(s) \in Nat
    BY LenProperties DEF IsList
<1>2. ASSUME NEW I \in SUBSET (1 .. Len(s))
      PROVE  /\ (IF I # {} THEN Max(I) ELSE 0) \in 0 .. Len(s)
             /\ (IF I # {} THEN Min(I) ELSE 0) \in 0 .. Len(s)
  <2>1. I \subseteq 0 .. Len(s)
    BY <1>1
  <2>2. I # {} => Min(I) \in I /\ Max(I) \in I
    BY <1>1, <2>1, FirstAndLast
  <2>3. 0 \in 0 .. Len(s)
    BY <1>1
  <2>4. I # {} => Min(I) \in 0 .. Len(s) /\ Max(I) \in 0 .. Len(s)
    BY <2>1, <2>2
  <2>5. QED
    BY <2>3, <2>4
<1>3. ASSUME NEW x PROVE IndexOf(s, x) \in 0 .. Len(s)
  <2>. DEFINE I == {i \in 1 .. Len(s) : s[i] = x}
  <2>1. I \in SUBSET (1 .. Len(s))
    OBVIOUS
  <2>2. IndexOf(s, x) = IF I # {} THEN Max(I) ELSE 0
    BY DEF IndexOf, SelectLastInSeq
  <2> HIDE DEF I
  <2>3. QED
    BY <1>2, <2>1, <2>2
<1>4. QED
    BY <1>1, <1>2, <1>3

\* Lists are made of lists.
LEMMA ListParts ==
    ASSUME NEW s, IsList(s)
    PROVE  /\ \A x : /\ IsList(Append(s, x))
                     /\ Append(s, x) # <<>> /\ Last(Append(s, x)) = x
           /\ \A m, n \in Int : IsList(SubSeq(s, m, n))
           /\ IsList(Front(s))
           /\ \A i \in Int : IsList(RemoveAt(s, i)) /\ \A x : IsList(InsertAt(s, i, x))
           /\ \A x : IsList(RemoveNode(s, x))
<1>1. Len(s) \in Nat
    BY PlaceIn
<1>2. ASSUME NEW x PROVE IsList(Append(s, x)) /\ Append(s, x) # <<>> /\ Last(Append(s, x)) = x
  <2>1. PICK T : T = Range(s) \cup {x}
    OBVIOUS
  <2>2. s \in Seq(T) /\ x \in T
    BY <2>1, SeqDef, LenProperties DEF IsList
  <2>3. /\ Append(s, x) \in Seq(T) /\ Append(s, x) # <<>>
        /\ Len(Append(s, x)) = Len(s) + 1 /\ Append(s, x)[Len(s) + 1] = x
    BY <2>2, AppendProperties
  <2>4. QED
    BY <2>3, ListOf DEF Last
<1>3. ASSUME NEW m \in Int, NEW n \in Int PROVE IsList(SubSeq(s, m, n))
  <2>1. PICK T : T = {s[i] : i \in m .. n}
    OBVIOUS
  <2>2. SubSeq(s, m, n) \in Seq(T)
    BY <2>1, SubSeqProperties
  <2>3. QED
    BY <2>2, ListOf
<1>4. IsList(Front(s))
    BY <1>1, <1>3 DEF Front
<1>5. ASSUME NEW a, NEW b, IsList(a), IsList(b) PROVE IsList(a \o b)
  <2>1. PICK T : T = Range(a) \cup Range(b)
    OBVIOUS
  <2>2. a \in Seq(T) /\ b \in Seq(T)
    BY <1>5, <2>1, SeqDef, LenProperties DEF IsList
  <2>3. a \o b \in Seq(T)
    BY <2>2, ConcatProperties
  <2>4. QED
    BY <2>3, ListOf
<1>6. ASSUME NEW i \in Int PROVE IsList(RemoveAt(s, i))
  <2>1. IsList(SubSeq(s, 1, i - 1)) /\ IsList(SubSeq(s, i + 1, Len(s)))
    BY <1>1, <1>3
  <2>2. QED
    BY <1>5, <2>1 DEF RemoveAt
<1>7. ASSUME NEW i \in Int, NEW x PROVE IsList(InsertAt(s, i, x))
  <2>1. IsList(SubSeq(s, 1, i - 1)) /\ IsList(SubSeq(s, i, Len(s)))
    BY <1>1, <1>3
  <2>2. <<x>> \in Seq({x})
    OBVIOUS
  <2>3. IsList(<<x>>)
    BY <2>2, ListOf
  <2>4. QED
    BY <1>5, <2>1, <2>3 DEF InsertAt
<1>8. ASSUME NEW x PROVE IsList(RemoveNode(s, x))
  <2>1. IndexOf(s, x) \in Int
    BY <1>1, PlaceIn
  <2>2. QED
    BY <1>6, <2>1 DEF RemoveNode
<1>9. QED
    BY <1>2, <1>3, <1>4, <1>6, <1>7, <1>8

\* A field of a node that is not its token.
LEMMA FieldSame ==
    ASSUME NEW n, IsNodes(n), NEW x, NEW v
    PROVE  /\ SameNodes(n, SetParent(n, x, v))
           /\ SameNodes(n, SetPrev(n, x, v))
           /\ SameNodes(n, SetNext(n, x, v))
           /\ SameNodes(n, SetChild(n, x, v))
           /\ SameNodes(n, SetLast(n, x, v))
<1>1. \A r : IsList([n EXCEPT ![x] = r]) /\ DOMAIN [n EXCEPT ![x] = r] = DOMAIN n
    BY ListExcept DEF IsNodes
<1>2. SameNodes(n, SetParent(n, x, v))
    BY <1>1 DEF SameNodes, IsNodes, SetParent
<1>3. SameNodes(n, SetPrev(n, x, v))
    BY <1>1 DEF SameNodes, IsNodes, SetPrev
<1>4. SameNodes(n, SetNext(n, x, v))
    BY <1>1 DEF SameNodes, IsNodes, SetNext
<1>5. SameNodes(n, SetChild(n, x, v))
    BY <1>1 DEF SameNodes, IsNodes, SetChild
<1>6. SameNodes(n, SetLast(n, x, v))
    BY <1>1 DEF SameNodes, IsNodes, SetLast
<1>7. QED
    BY <1>2, <1>3, <1>4, <1>5, <1>6

\* The nodes stay the same from n to m to k.
LEMMA SameTwice ==
    ASSUME NEW n, NEW m, NEW k, SameNodes(n, m), SameNodes(m, k)
    PROVE  SameNodes(n, k)
BY DEF SameNodes

\* Brothers and parents are set, and nothing else of a node.
LEMMA LinksSame ==
    ASSUME NEW n, IsNodes(n), NEW root, NEW node
    PROVE  /\ SameNodes(n, n)
           /\ SameNodes(n, AddChild(n, root, node))
           /\ SameNodes(n, PlaceBefore(n, root, node))
           /\ SameNodes(n, PlaceAfter(n, root, node))
           /\ SameNodes(n, Unlink(n, node))
<1>. DEFINE S(m) == SameNodes(n, m)
<1>1. \A m, x, v : S(m) => /\ S(SetParent(m, x, v)) /\ S(SetPrev(m, x, v)) /\ S(SetNext(m, x, v))
                           /\ S(SetChild(m, x, v)) /\ S(SetLast(m, x, v))
  <2>1. TAKE m, x, v
  <2>2. HAVE S(m)
  <2>3. IsNodes(m)
    BY <2>2 DEF SameNodes
  <2>4. QED
    BY <2>2, <2>3, FieldSame, SameTwice, Zenon
<1>2. S(n)
    BY DEF SameNodes
<1> HIDE DEF S
<1>3. S(AddChild(n, root, node))
    BY <1>1, <1>2, Zenon DEF AddChild
<1>4. S(PlaceBefore(n, root, node))
    BY <1>1, <1>2, Zenon DEF PlaceBefore
<1>5. S(PlaceAfter(n, root, node))
    BY <1>1, <1>2, Zenon DEF PlaceAfter
<1>6. S(Unlink(n, node))
    BY <1>1, <1>2, Zenon DEF Unlink, Cleared
<1>7. QED
    BY <1>2, <1>3, <1>4, <1>5, <1>6 DEF S

\* The places a node is put in are of the three kinds there are.
LEMMA PlaceKinds ==
    ASSUME NEW t
    PROVE  /\ \A x : InPlace(x).mode \in PlaceModes
           /\ \A x : AppropriatePlace(t, x).mode \in PlaceModes
           /\ NewPlace(t).mode \in PlaceModes
<1>1. \A x : InPlace(x).mode \in PlaceModes
    BY DEF InPlace, PlaceModes
<1>2. \A i, j : FosterPlace(t, i, j).mode \in PlaceModes
    BY <1>1 DEF FosterPlace, PlaceModes
<1>3. \A x : AppropriatePlace(t, x).mode \in PlaceModes
    BY <1>1, <1>2 DEF AppropriatePlace
<1>4. QED
    BY <1>1, <1>3 DEF NewPlace

\* A node that is placed is what it was.
LEMMA PlacedSame ==
    ASSUME NEW n, IsNodes(n), NEW place, place.mode \in PlaceModes, NEW x
    PROVE  SameNodes(n, InsertByMode(n, place, x))
BY LinksSame DEF InsertByMode, PlaceModes

\* The children of a node that have moved to another are what they were.
LEMMA MovedSame ==
    ASSUME NEW n, IsNodes(n), NEW from, NEW to
    PROVE  SameNodes(n, MoveChildren(n, from, to))
<1>. DEFINE Step(m, k) == MoveFirst(m, from, to)
            Runs(f, l) == f = [i \in 0 .. l |-> IF i = 0 THEN n ELSE Step(f[i - 1], i)]
            c == Cardinality({x \in DOMAIN n : n[x].parent = from})
            S(m) == SameNodes(n, m)
<1>1. \A m, k : S(m) => S(Step(m, k))
  <2>1. TAKE m, k
  <2>2. HAVE S(m)
  <2>3. \A x : SameNodes(m, Unlink(m, x))
    BY <2>2, LinksSame DEF SameNodes
  <2>4. \A x : S(Unlink(m, x)) /\ IsNodes(Unlink(m, x))
    BY <2>2, <2>3, SameTwice DEF SameNodes
  <2>5. \A x : S(AddChild(Unlink(m, x), to, x))
    BY <2>4, LinksSame, SameTwice
  <2>6. QED
    BY <2>5 DEF MoveFirst
<1>2. S(n)
    BY LinksSame
<1> HIDE DEF S, Step
<1>3. \A l \in Nat : \E f : Runs(f, l)
  <2>. DEFINE T == {l \in Nat : \E f : Runs(f, l)}
  <2>1. 0 \in T
    <3>1. Runs([i \in 0 .. 0 |-> n], 0)
      OBVIOUS
    <3>2. QED
      BY <3>1
  <2>2. ASSUME NEW l \in Nat, l \in T PROVE l + 1 \in T
    <3>1. PICK f : Runs(f, l)
      BY <2>2
    <3>2. \E g : Runs(g, l + 1)
      <4>1. Runs([i \in 0 .. l + 1 |-> IF i = l + 1 THEN Step(f[l], l + 1) ELSE f[i]], l + 1)
        BY <3>1
      <4>2. QED
        BY <4>1, Zenon
    <3> HIDE DEF Runs
    <3>3. QED
      BY <3>2
  <2> HIDE DEF T
  <2>3. Nat \subseteq T
    BY <2>1, <2>2, AllNumbers
  <2>4. QED
    BY <2>3 DEF T
<1>4. ASSUME NEW l \in Nat, NEW f, Runs(f, l) PROVE S(f[l])
  <2>. DEFINE T == {i \in Nat : i <= l => S(f[i])}
  <2>1. 0 \in T
    BY <1>2, <1>4
  <2>2. ASSUME NEW i \in Nat, i \in T PROVE i + 1 \in T
    BY <1>1, <1>4, <2>2
  <2> HIDE DEF T
  <2>3. Nat \subseteq T
    BY <2>1, <2>2, AllNumbers
  <2>4. QED
    BY <2>3 DEF T
<1>5. QED
  <2>. DEFINE after == CHOOSE f : Runs(f, c)
  <2>1. CASE c \in Nat
    <3>1. Runs(after, c)
      BY <1>3, <2>1, Zenon
    <3>2. S(after[c])
      BY <1>4, <2>1, <3>1, Zenon
    <3>3. MoveChildren(n, from, to) = after[c]
      BY <2>1, Zenon DEF MoveChildren, Turns, Step
    <3>4. QED
      BY <3>2, <3>3 DEF S
  <2>2. CASE c \notin Nat
    BY <2>2, <1>2, Zenon DEF MoveChildren, Turns, S
  <2>3. QED
    BY <2>1, <2>2

-----------------------------------------------------------------------------
(* What the builder does with a tree, operation by operation. *)

\* One thing after another.
LEMMA GivesThen ==
    ASSUME NEW o, NEW I, NEW t, Gives(o, t, I), NEW u, Gives(t, u, {})
    PROVE  Gives(o, u, I)
BY DEF Gives

\* Nothing is done.
LEMMA GivesNone ==
    ASSUME NEW t, IsTree(t)
    PROVE  Gives(t, t, {})
BY DEF Gives

\* Who gives none gives no more than I.
LEMMA GivesLess ==
    ASSUME NEW o, NEW t, Gives(o, t, {}), NEW I
    PROVE  Gives(o, t, I)
BY DEF Gives

\* Fields that say nothing of tokens and modes.
LEMMA FieldGives ==
    ASSUME NEW o, NEW I, NEW t, Gives(o, t, I), NEW v
    PROVE  /\ IsList(v) => Gives(o, [t EXCEPT !.open = v], I)
           /\ Gives(o, [t EXCEPT !.active = v], I)
           /\ Gives(o, [t EXCEPT !.foster = v], I)
           /\ Gives(o, [t EXCEPT !.head = v], I)
           /\ Gives(o, [t EXCEPT !.form = v], I)
           /\ Gives(o, [t EXCEPT !.html = v], I)
           /\ Gives(o, [t EXCEPT !.frameset = v], I)
           /\ Gives(o, [t EXCEPT !.newline = v], I)
           /\ Gives(o, [t EXCEPT !.quirks = v], I)
           /\ \A w : Gives(o, [t EXCEPT !.again = v, !.rules = w], I)
           /\ Gives(o, [t EXCEPT !.rules = v], I)
           /\ \A w : IsList(w) => Gives(o, [t EXCEPT !.active = v, !.open = w], I)
           /\ \A i : Gives(o, [t EXCEPT !.active[i] = v], I)
           /\ \A i, j, w : Gives(o, [t EXCEPT !.active[i] = v, !.open[j] = w], I)
<1>1. IsTree(t)
    BY DEF Gives
<1>2. /\ IsList(v) => Gives(o, [t EXCEPT !.open = v], I)
      /\ Gives(o, [t EXCEPT !.active = v], I)
      /\ Gives(o, [t EXCEPT !.foster = v], I)
      /\ Gives(o, [t EXCEPT !.head = v], I)
      /\ Gives(o, [t EXCEPT !.form = v], I)
    BY <1>1 DEF Gives, IsTree, Owned, Unique
<1>3. /\ Gives(o, [t EXCEPT !.html = v], I)
      /\ Gives(o, [t EXCEPT !.frameset = v], I)
      /\ Gives(o, [t EXCEPT !.newline = v], I)
      /\ Gives(o, [t EXCEPT !.quirks = v], I)
      /\ Gives(o, [t EXCEPT !.rules = v], I)
    BY <1>1 DEF Gives, IsTree, Owned, Unique
<1>4. /\ \A w : Gives(o, [t EXCEPT !.again = v, !.rules = w], I)
      /\ \A w : IsList(w) => Gives(o, [t EXCEPT !.active = v, !.open = w], I)
      /\ \A i : Gives(o, [t EXCEPT !.active[i] = v], I)
    BY <1>1 DEF Gives, IsTree, Owned, Unique
<1>5. ASSUME NEW i, NEW j, NEW w PROVE Gives(o, [t EXCEPT !.active[i] = v, !.open[j] = w], I)
  <2>1. IsList([t.open EXCEPT ![j] = w])
    BY <1>1, ListExcept DEF IsTree
  <2>2. PICK u : u = [t EXCEPT !.active[i] = v, !.open[j] = w]
    OBVIOUS
  <2>3. /\ DOMAIN u = DOMAIN t /\ u.nodes = t.nodes /\ u.mode = t.mode /\ u.orig = t.orig
        /\ u.modes = t.modes /\ u.list = t.list /\ u.token = t.token
        /\ u.builder = t.builder /\ u.fragment = t.fragment
    BY <1>1, <2>2 DEF IsTree
  <2>4. IsList(u.open)
    BY <1>1, <2>1, <2>2 DEF IsTree
  <2>5. Gives(o, u, I)
    BY <1>1, <2>3, <2>4 DEF Gives, IsTree, Owned, Unique
  <2>6. QED
    BY <2>2, <2>5
<1>6. QED
    BY <1>2, <1>3, <1>4, <1>5

\* The nodes are other ones with the same tokens.
LEMMA NodesGive ==
    ASSUME NEW o, NEW I, NEW t, Gives(o, t, I), NEW n, SameNodes(t.nodes, n)
    PROVE  Gives(o, [t EXCEPT !.nodes = n], I)
<1>0. IsTree(t)
    BY DEF Gives
<1>1. PICK u : u = [t EXCEPT !.nodes = n]
    OBVIOUS
<1>2. /\ u.nodes = n /\ DOMAIN u = DOMAIN t /\ u.token = t.token /\ u.open = t.open
      /\ u.mode = t.mode /\ u.orig = t.orig /\ u.modes = t.modes /\ u.list = t.list
      /\ u.builder = t.builder /\ u.fragment = t.fragment
    BY <1>0, <1>1 DEF IsTree
<1>3. IsTree(u)
    BY <1>0, <1>2 DEF IsTree, SameNodes
<1>4. Owned(u) = Owned(t) /\ (Unique(t) => Unique(u))
    BY <1>2 DEF SameNodes, Owned, Unique
<1>5. Gives(t, u, {})
    BY <1>2, <1>3, <1>4 DEF Gives
<1>6. QED
    BY <1>1, <1>5, GivesThen, Zenon

\* A node that is made.
LEMMA CreateGives ==
    ASSUME NEW o, NEW I, NEW t, Gives(o, t, I), NEW node, {"token", "ns"} \subseteq DOMAIN node
    PROVE  /\ I = {} => Gives(o, Create(t, node), {node.token})
           /\ node.token \in NoToken => Gives(o, Create(t, node), I)
<1>0. IsTree(t)
    BY DEF Gives
<1>1. PICK u : u = Create(t, node)
    OBVIOUS
<1>2. /\ u.nodes = Append(t.nodes, node) /\ DOMAIN u = DOMAIN t /\ u.token = t.token
      /\ u.mode = t.mode /\ u.orig = t.orig /\ u.modes = t.modes /\ u.list = t.list
      /\ u.builder = t.builder /\ u.fragment = t.fragment /\ u.open = t.open
    BY <1>0, <1>1 DEF IsTree, Create
<1>3. PICK n : n = t.nodes
    OBVIOUS
<1>4. PICK l \in Nat : n \in [1 .. l -> Range(n)] /\ l = Len(n)
  <2>1. n \in Seq(Range(n))
    BY <1>0, <1>3 DEF IsTree, IsNodes, IsList
  <2>2. QED
    BY <2>1, LenProperties
<1>5. /\ IsList(u.nodes) /\ DOMAIN u.nodes = 1 .. l + 1 /\ u.nodes[l + 1] = node
      /\ \A x \in 1 .. l : u.nodes[x] = n[x]
  <2>1. PICK T : T = Range(n) \cup {node}
    OBVIOUS
  <2>2. n \in [1 .. l -> T] /\ node \in T
    BY <1>4, <2>1
  <2>3. n \in Seq(T)
    BY <1>3, <1>4, <2>2, SeqDef
  <2>4. /\ Append(n, node) \in Seq(T)
        /\ Len(Append(n, node)) = l + 1
        /\ \A x \in 1 .. l : Append(n, node)[x] = n[x]
        /\ Append(n, node)[l + 1] = node
    BY <1>4, <2>2, <2>3, AppendProperties
  <2>5. Append(n, node) \in [1 .. l + 1 -> T]
    BY <2>4, LenProperties
  <2>6. IsList(Append(n, node))
    BY <2>4, ListOf, Zenon
  <2>7. QED
    BY <1>2, <1>3, <1>4, <2>4, <2>5, <2>6
<1>6. DOMAIN n = 1 .. l
    BY <1>4
<1>7. IsTree(u)
  <2>1. \A x \in 1 .. l + 1 : x \in 1 .. l \/ x = l + 1
    OBVIOUS
  <2>2. QED
    BY <1>0, <1>2, <1>3, <1>5, <1>6, <2>1 DEF IsTree, IsNodes
<1>8. Owned(u) \subseteq Owned(t) \cup ({node.token} \ NoToken)
  <2>1. \A x \in 1 .. l + 1 : x \in 1 .. l \/ x = l + 1
    OBVIOUS
  <2>2. QED
    BY <1>3, <1>5, <1>6, <2>1 DEF Owned
<1>9. ASSUME Unique(t), node.token \notin Owned(t) PROVE Unique(u)
    BY <1>3, <1>5, <1>6, <1>9 DEF Owned, Unique
<1>10. node.token \in NoToken => node.token \notin Owned(t)
    BY DEF Owned
<1>11. Gives(t, u, {node.token}) /\ (node.token \in NoToken => Gives(t, u, {}))
    BY <1>2, <1>7, <1>8, <1>9, <1>10 DEF Gives
<1>12. I = {} => Gives(o, u, {node.token})
    BY <1>11 DEF Gives
<1>13. QED
    BY <1>1, <1>11, <1>12, GivesThen, Zenon

\* The stack of open elements holds no tokens.
LEMMA StackGives ==
    ASSUME NEW o, NEW I, NEW t, Gives(o, t, I)
    PROVE  /\ \A x : Gives(o, Push(t, x), I)
           /\ Gives(o, Pop(t), I)
           /\ \A tags : Gives(o, PopUntil(t, tags), I)
           /\ \A tags : Gives(o, PopUntilExclude(t, tags), I)
           /\ \A x : Gives(o, PopUntilNode(t, x), I)
           /\ \A x : Gives(o, RemoveOpen(t, x), I)
           /\ \A tags, except : Gives(o, PopWhile(t, tags, except), I)
           /\ \A except : Gives(o, GenerateImplied(t, except), I)
           /\ Gives(o, GenerateAllImplied(t), I)
           /\ \A tags : Gives(o, ClearBackTo(t, tags), I)
<1>. DEFINE n == Len(t.open)
<1>0. IsList(t.open) /\ n \in Nat
    BY PlaceIn DEF Gives, IsTree
<1>1. \A x : Gives(o, Push(t, x), I)
    BY <1>0, ListParts, FieldGives, Zenon DEF Push
<1>2. Gives(o, Pop(t), I)
    BY <1>0, ListParts, FieldGives, Zenon DEF Pop
<1>3. \A l \in Int : Gives(o, [t EXCEPT !.open = SubSeq(@, 1, l)], I)
  <2>1. TAKE l \in Int
  <2>2. IsList(SubSeq(t.open, 1, l))
    BY <1>0, ListParts
  <2>3. QED
    BY <2>2, FieldGives, Zenon
<1>4. \A tags : LastOpen(t, tags) \in 0 .. n
  <2>1. TAKE tags
  <2>. DEFINE J == {i \in 1 .. n : Is(t, t.open[i], tags)}
  <2>2. J \in SUBSET (1 .. n)
    OBVIOUS
  <2>3. LastOpen(t, tags) = IF J # {} THEN Max(J) ELSE 0
    BY DEF LastOpen, SelectLastInSeq
  <2> HIDE DEF J
  <2>4. QED
    BY <1>0, <2>2, <2>3, PlaceIn
<1>5. /\ \A tags : Gives(o, PopUntil(t, tags), I)
      /\ \A tags : Gives(o, PopUntilExclude(t, tags), I)
      /\ \A x : Gives(o, PopUntilNode(t, x), I)
  <2>1. \A tags : LastOpen(t, tags) \in Int /\ LastOpen(t, tags) - 1 \in Int
    BY <1>0, <1>4
  <2>2. \A x : IndexOf(t.open, x) - 1 \in Int
    BY <1>0, PlaceIn
  <2>3. QED
    BY <1>3, <2>1, <2>2, Zenon DEF PopUntil, PopUntilExclude, PopUntilNode
<1>6. \A x : Gives(o, RemoveOpen(t, x), I)
    BY <1>0, ListParts, FieldGives, Zenon DEF RemoveOpen
<1>7. \A tags, except : Gives(o, PopWhile(t, tags, except), I)
  <2>1. TAKE tags, except
  <2>. DEFINE J == {i \in 1 .. n : \/ t.nodes[t.open[i]].tag \notin tags
                                    \/ /\ t.nodes[t.open[i]].tag = except
                                       /\ t.nodes[t.open[i]].ns = "html"}
              l == IF J # {} THEN Max(J) ELSE 0
  <2>2. J \in SUBSET (1 .. n)
    OBVIOUS
  <2>3. PopWhile(t, tags, except) = [t EXCEPT !.open = SubSeq(@, 1, l)]
    BY DEF PopWhile, SelectLastInSeq
  <2> HIDE DEF J
  <2>4. l \in 0 .. n
    BY <1>0, <2>2, PlaceIn
  <2>5. l \in Int
    BY <1>0, <2>4
  <2> HIDE DEF l
  <2>6. QED
    BY <1>3, <2>3, <2>5, Zenon
<1>8. \A except : Gives(o, GenerateImplied(t, except), I)
    BY <1>7, Zenon DEF GenerateImplied
<1>9. Gives(o, GenerateAllImplied(t), I)
    BY <1>7, Zenon DEF GenerateAllImplied
<1>10. \A tags : Gives(o, ClearBackTo(t, tags), I)
    BY <1>5, Zenon DEF ClearBackTo
<1>11. QED
    BY <1>1, <1>2, <1>5, <1>6, <1>7, <1>8, <1>9, <1>10, Zenon

\* Nor does the list of active formatting elements, nor what else a handler notes.
LEMMA NoteGives ==
    ASSUME NEW o, NEW I, NEW t, Gives(o, t, I)
    PROVE  /\ Gives(o, PushMarker(t), I)
           /\ \A x : Gives(o, RemoveActive(t, x), I)
           /\ Gives(o, UpToLastMarker(t), I)
           /\ \A x : Gives(o, AppendWithCheck(t, x), I)
           /\ Gives(o, FramesetNotOk(t), I)
           /\ Gives(o, CloseP(t), I)
           /\ Gives(o, ClosePInButtonScope(t), I)
           /\ \A again : Gives(o, Result(t, again), I)
           /\ Gives(o, Done(t), I) /\ Gives(o, Again(t), I)
           /\ \A mode : Gives(o, Uses(t, mode), I)
<1>1. Gives(o, PushMarker(t), I)
    BY FieldGives, Zenon DEF PushMarker
<1>2. \A x : Gives(o, RemoveActive(t, x), I)
    BY FieldGives, Zenon DEF RemoveActive
<1>3. Gives(o, UpToLastMarker(t), I)
    BY FieldGives, Zenon DEF UpToLastMarker
<1>4. \A x : Gives(o, AppendWithCheck(t, x), I)
    BY FieldGives, Zenon DEF AppendWithCheck
<1>5. Gives(o, FramesetNotOk(t), I)
    BY FieldGives, Zenon DEF FramesetNotOk
<1>6. Gives(o, CloseP(t), I)
    BY StackGives, Zenon DEF CloseP
<1>7. Gives(o, ClosePInButtonScope(t), I)
    BY <1>6, Zenon DEF ClosePInButtonScope
<1>8. \A again : Gives(o, Result(t, again), I)
    BY FieldGives, Zenon DEF Result
<1>9. Gives(o, Done(t), I) /\ Gives(o, Again(t), I)
    BY <1>8, Zenon DEF Done, Again
<1>10. \A mode : Gives(o, Uses(t, mode), I)
    BY FieldGives, Zenon DEF Uses
<1>11. QED
    BY <1>1, <1>2, <1>3, <1>4, <1>5, <1>6, <1>7, <1>8, <1>9, <1>10, Zenon

\* A node that is placed has the token it had.
LEMMA LinkGives ==
    ASSUME NEW o, NEW I, NEW t, Gives(o, t, I), NEW place, place.mode \in PlaceModes, NEW x
    PROVE  Gives(o, Link(t, place, x), I)
<1>1. SameNodes(t.nodes, InsertByMode(t.nodes, place, x))
    BY PlacedSame DEF IsTree, Gives
<1>2. QED
    BY <1>1, NodesGive, Zenon DEF Link

\* A node that is made and placed takes the one token it is given.
LEMMA CreateAtGives ==
    ASSUME NEW o, NEW I, NEW t, Gives(o, t, I), NEW place, place.mode \in PlaceModes,
           NEW tag, NEW ns, NEW token, NEW attr, NEW text
    PROVE  /\ I = {} => Gives(o, CreateAt(t, place, NodeOf(tag, ns, token, attr, text)), {token})
           /\ token \in NoToken => Gives(o, CreateAt(t, place, NodeOf(tag, ns, token, attr, text)), I)
<1>. DEFINE node == NodeOf(tag, ns, token, attr, text)
<1>1. node.token = token /\ {"token", "ns"} \subseteq DOMAIN node
    BY DEF NodeOf
<1> HIDE DEF node
<1>2. I = {} => Gives(o, Create(t, node), {token})
    BY <1>1, CreateGives
<1>3. token \in NoToken => Gives(o, Create(t, node), I)
    BY <1>1, CreateGives
<1>4. I = {} => Gives(o, CreateAt(t, place, node), {token})
    BY <1>2, LinkGives, Zenon DEF CreateAt
<1>5. token \in NoToken => Gives(o, CreateAt(t, place, node), I)
    BY <1>3, LinkGives, Zenon DEF CreateAt
<1>6. QED
    BY <1>4, <1>5, Zenon DEF node

\* In the places there are.
LEMMA NewGives ==
    ASSUME NEW o, NEW I, NEW t, Gives(o, t, I),
           NEW tag, NEW ns, NEW token, NEW attr, NEW text
    PROVE  /\ I = {} => /\ Gives(o, CreateAt(t, NewPlace(t), NodeOf(tag, ns, token, attr, text)), {token})
                        /\ \A x : Gives(o, CreateAt(t, InPlace(x), NodeOf(tag, ns, token, attr, text)), {token})
           /\ token \in NoToken =>
                /\ Gives(o, CreateAt(t, NewPlace(t), NodeOf(tag, ns, token, attr, text)), I)
                /\ \A x : Gives(o, CreateAt(t, InPlace(x), NodeOf(tag, ns, token, attr, text)), I)
<1>1. NewPlace(t).mode \in PlaceModes /\ \A x : InPlace(x).mode \in PlaceModes
    BY PlaceKinds, Zenon
<1>2. QED
    BY <1>1, CreateAtGives, Zenon

\* An element takes the token it is made from.
LEMMA InsertGives ==
    ASSUME NEW o, NEW t, Gives(o, t, {}), NEW k
    PROVE  /\ \A ns : Gives(o, InsertElement(t, k, ns), {k.id})
           /\ Gives(o, InsertHtml(t, k), {k.id})
           /\ Gives(o, InsertVoid(t, k), {k.id})
           /\ Gives(o, InsertFormatting(t, k), {k.id})
           /\ \A parent : Gives(o, InsertComment(t, k, parent), {k.id})
           /\ Gives(o, InsertDoctype(t, k), {k.id})
<1>1. \A ns : Gives(o, InsertElement(t, k, ns), {k.id})
  <2>1. TAKE ns
  <2>2. Gives(o, CreateAt(t, NewPlace(t), NodeOf(k.tag, ns, k.id, k.attr, <<>>)), {k.id})
    BY NewGives, Zenon
  <2>3. QED
    BY <2>2, StackGives, Zenon DEF InsertElement
<1>2. Gives(o, InsertHtml(t, k), {k.id})
    BY <1>1, Zenon DEF InsertHtml
<1>3. Gives(o, InsertVoid(t, k), {k.id})
    BY <1>2, StackGives, Zenon DEF InsertVoid
<1>4. Gives(o, InsertFormatting(t, k), {k.id})
    BY <1>2, NoteGives, Zenon DEF InsertFormatting
<1>5. \A parent : Gives(o, InsertComment(t, k, parent), {k.id})
    BY NewGives, Zenon DEF InsertComment
<1>6. Gives(o, InsertDoctype(t, k), {k.id})
    BY NewGives, Zenon DEF InsertDoctype
<1>7. QED
    BY <1>1, <1>2, <1>3, <1>4, <1>5, <1>6, Zenon

\* An element that no token stands for takes none.
LEMMA ImpliedGives ==
    ASSUME NEW o, NEW I, NEW t, Gives(o, t, I), NEW tag
    PROVE  Gives(o, InsertImplied(t, tag), I)
<1>1. Null \in NoToken
    BY DEF NoToken
<1>2. Gives(o, CreateAt(t, NewPlace(t), NodeOf(tag, "html", Null, {}, <<>>)), I)
    BY <1>1, NewGives, Zenon
<1>3. QED
    BY <1>2, StackGives, Zenon DEF InsertImplied

\* The root takes the token of its node.
LEMMA RootGives ==
    ASSUME NEW o, NEW I, NEW t, Gives(o, t, I), NEW token, NEW attr
    PROVE  /\ I = {} => Gives(o, InsertRoot(t, NodeOf("html", "html", token, attr, <<>>)), {token})
           /\ token \in NoToken => Gives(o, InsertRoot(t, NodeOf("html", "html", token, attr, <<>>)), I)
<1>. DEFINE node == NodeOf("html", "html", token, attr, <<>>)
<1>1. /\ I = {} => Gives(o, CreateAt(t, InPlace(Document), node), {token})
      /\ token \in NoToken => Gives(o, CreateAt(t, InPlace(Document), node), I)
    BY NewGives, Zenon
<1> HIDE DEF node
<1>2. ASSUME NEW J, Gives(o, CreateAt(t, InPlace(Document), node), J)
      PROVE  Gives(o, InsertRoot(t, node), J)
  <2>1. Gives(o, Push(CreateAt(t, InPlace(Document), node), Newest(t) + 1), J)
    BY <1>2, StackGives, Zenon
  <2>2. QED
    BY <2>1, FieldGives, Zenon DEF InsertRoot
<1>3. QED
    BY <1>1, <1>2, Zenon DEF node

\* A text takes its token, or goes into a text that has one.
LEMMA TextGives ==
    ASSUME NEW o, NEW I, NEW t, Gives(o, t, I), NEW k
    PROVE  /\ I = {} => Gives(o, InsertText(t, k), {k.id})
           /\ k.id \in NoToken => Gives(o, InsertText(t, k), I)
<1>1. \A x, v : Gives(o, [t EXCEPT !.nodes[x].text = v], I)
  <2>1. TAKE x, v
  <2>2. IsNodes(t.nodes)
    BY DEF IsTree, Gives
  <2>3. SameNodes(t.nodes, [t.nodes EXCEPT ![x].text = v])
    BY <2>2, ListExcept DEF SameNodes, IsNodes
  <2>4. QED
    BY <2>3, NodesGive, Zenon
<1>2. ASSUME I = {} PROVE \A x, v : Gives(o, [t EXCEPT !.nodes[x].text = v], {k.id})
  <2>1. TAKE x, v
  <2>2. PICK w : w = [t EXCEPT !.nodes[x].text = v]
    OBVIOUS
  <2>3. Gives(o, w, I)
    BY <1>1, <2>2
  <2>4. Gives(o, w, {k.id})
    BY <1>2, <2>3, GivesLess, Zenon
  <2>5. QED
    BY <2>2, <2>4
<1>3. I = {} => Gives(o, t, {k.id})
    BY GivesLess, Zenon
<1>4. PICK place : place = NewPlace(t)
    OBVIOUS
<1>5. place.mode \in PlaceModes
    BY <1>4, PlaceKinds
<1>6. I = {} => \A ns, text : Gives(o, CreateAt(t, place, NodeOf("_TEXT", ns, k.id, {}, text)), {k.id})
    BY <1>5, CreateAtGives, Zenon
<1>7. k.id \in NoToken => \A ns, text : Gives(o, CreateAt(t, place, NodeOf("_TEXT", ns, k.id, {}, text)), I)
    BY <1>5, CreateAtGives, Zenon
<1>8. I = {} => Gives(o, TextAt(t, k, place), {k.id})
    BY <1>2, <1>3, <1>6 DEF TextAt
<1>9. k.id \in NoToken => Gives(o, TextAt(t, k, place), I)
    BY <1>1, <1>7 DEF TextAt
<1>10. QED
    BY <1>4, <1>8, <1>9 DEF InsertText

\* A clone has no token that another node has.
LEMMA CloneGives ==
    ASSUME NEW o, NEW I, NEW t, Gives(o, t, I), NEW x
    PROVE  Gives(o, Clone(t, x), I)
<1>1. \A tag, ns, token, attr :
        token \in NoToken => Gives(o, Create(t, NodeOf(tag, ns, token, attr, <<>>)), I)
  <2>1. TAKE tag, ns, token, attr
  <2>. DEFINE node == NodeOf(tag, ns, token, attr, <<>>)
  <2>2. node.token = token /\ {"token", "ns"} \subseteq DOMAIN node
    BY DEF NodeOf
  <2> HIDE DEF node
  <2>3. node.token \in NoToken => Gives(o, Create(t, node), I)
    BY <2>2, CreateGives, Zenon
  <2>4. QED
    BY <2>2, <2>3 DEF node
<1>2. \A node : (IF node.token = Null THEN Null ELSE Copy) \in NoToken
    BY DEF NoToken
<1>3. QED
    BY <1>1, <1>2, Zenon DEF Clone

\* An element that is opened again has a clone's token.
LEMMA ReopenGives ==
    ASSUME NEW o, NEW I, NEW t, Gives(o, t, I), NEW i
    PROVE  Gives(o, Reopen(t, i), I)
<1>. DEFINE u == Clone(t, t.active[i])
            v == Link(u, NewPlace(u), Newest(u))
            w == Push(v, Newest(u))
<1>1. Gives(o, u, I)
    BY CloneGives, Zenon
<1>2. NewPlace(u).mode \in PlaceModes
    BY PlaceKinds, Zenon
<1>3. Gives(o, v, I)
    BY <1>1, <1>2, LinkGives, Zenon
<1>4. Gives(o, w, I)
    BY <1>3, StackGives, Zenon
<1>5. Gives(o, [w EXCEPT !.active[i] = Newest(u)], I)
    BY <1>4, FieldGives, Zenon
<1>6. QED
    BY <1>5, Zenon DEF Reopen

\* All the formatting elements that are opened again are clones.
LEMMA ReconstructGives ==
    ASSUME NEW o, NEW I, NEW t, Gives(o, t, I)
    PROVE  Gives(o, Reconstruct(t), I)
<1>. DEFINE settled == SelectLastInSeq(t.active,
                           LAMBDA x : IsMarker(t, x) \/ x \in ToSet(t.open))
<1>. DEFINE Step(m, k) == Reopen(m, settled + k)
            Runs(f, l) == f = [i \in 0 .. l |-> IF i = 0 THEN t ELSE Step(f[i - 1], i)]
            c == Len(t.active) - settled
            S(m) == Gives(o, m, I)
<1>1. \A m, k : S(m) => S(Step(m, k))
    BY ReopenGives, Zenon
<1>2. S(t)
    OBVIOUS
<1> HIDE DEF S, Step
<1>3. \A l \in Nat : \E f : Runs(f, l)
  <2>. DEFINE T == {l \in Nat : \E f : Runs(f, l)}
  <2>1. 0 \in T
    <3>1. Runs([i \in 0 .. 0 |-> t], 0)
      OBVIOUS
    <3>2. QED
      BY <3>1
  <2>2. ASSUME NEW l \in Nat, l \in T PROVE l + 1 \in T
    <3>1. PICK f : Runs(f, l)
      BY <2>2
    <3>2. \E g : Runs(g, l + 1)
      <4>1. Runs([i \in 0 .. l + 1 |-> IF i = l + 1 THEN Step(f[l], l + 1) ELSE f[i]], l + 1)
        BY <3>1
      <4>2. QED
        BY <4>1, Zenon
    <3> HIDE DEF Runs
    <3>3. QED
      BY <3>2
  <2> HIDE DEF T
  <2>3. Nat \subseteq T
    BY <2>1, <2>2, AllNumbers
  <2>4. QED
    BY <2>3 DEF T
<1>4. ASSUME NEW l \in Nat, NEW f, Runs(f, l) PROVE S(f[l])
  <2>. DEFINE T == {i \in Nat : i <= l => S(f[i])}
  <2>1. 0 \in T
    BY <1>2, <1>4
  <2>2. ASSUME NEW i \in Nat, i \in T PROVE i + 1 \in T
    BY <1>1, <1>4, <2>2
  <2> HIDE DEF T
  <2>3. Nat \subseteq T
    BY <2>1, <2>2, AllNumbers
  <2>4. QED
    BY <2>3 DEF T
<1>. DEFINE after == CHOOSE f : Runs(f, c)
            result == Reconstruct(t)
<1>5. S(result)
  <2>1. CASE c \in Nat
    <3>1. Runs(after, c)
      BY <1>3, <2>1, Zenon
    <3>2. S(after[c])
      BY <1>4, <2>1, <3>1, Zenon
    <3>3. result = after[c]
      BY <2>1, Zenon DEF Reconstruct, Turns, Step
    <3>4. QED
      BY <3>2, <3>3
  <2>2. CASE c \notin Nat
    BY <2>2, <1>2, Zenon DEF Reconstruct, Turns
  <2>3. QED
    BY <2>1, <2>2
<1>6. QED
    BY <1>5 DEF S

-----------------------------------------------------------------------------
(* The adoption agency. *)

\* Taking a node out of its place leaves the tokens.
LEMMA DetachGives ==
    ASSUME NEW o, NEW I, NEW t, Gives(o, t, I), NEW x
    PROVE  Gives(o, Detach(t, x), I)
<1>1. SameNodes(t.nodes, Unlink(t.nodes, x))
    BY LinksSame DEF Gives, IsTree
<1>2. Gives(o, [t EXCEPT !.nodes = Unlink(@, x)], I)
    BY <1>1, NodesGive, Zenon
<1>3. QED
    BY <1>2, Zenon DEF Detach

\* What the inner loop has at hand.
IsInner(s) == {"tree", "last", "bookmark"} \subseteq DOMAIN s

\* A turn of the inner loop, whichever way it goes.
LEMMA InnerTurnGives ==
    ASSUME NEW o, NEW I, NEW s, IsInner(s), Gives(o, s.tree, I), NEW at \in Int, NEW turn, NEW furthest
    PROVE  /\ IsInner(InnerTurn(s, at, turn, furthest))
           /\ Gives(o, InnerTurn(s, at, turn, furthest).tree, I)
<1>. DEFINE t == s.tree
            i == IndexOf(t.active, t.open[at])
            u == Clone(t, t.open[at])
            clone == Newest(u)
            v == [u EXCEPT !.active[i] = clone, !.open[at] = clone]
            moved == [tree |-> Link(Detach(v, s.last), InPlace(clone), s.last),
                      last |-> clone,
                      bookmark |-> IF s.last = furthest THEN i + 1 ELSE s.bookmark]
<1>1. CASE turn > 3 /\ i # 0
  <2>1. InnerTurn(s, at, turn, furthest) =
            [s EXCEPT !.tree.active = RemoveAt(@, i), !.bookmark = IF i < @ THEN @ - 1 ELSE @]
    BY <1>1, Zenon DEF InnerTurn
  <2>2. Gives(o, [t EXCEPT !.active = RemoveAt(@, i)], I)
    BY FieldGives, Zenon
  <2> HIDE DEF i
  <2>3. QED
    BY <2>1, <2>2 DEF IsInner
<1>2. CASE ~ (turn > 3 /\ i # 0) /\ i = 0
  <2>1. InnerTurn(s, at, turn, furthest) = [s EXCEPT !.tree.open = RemoveAt(@, at)]
    BY <1>2, Zenon DEF InnerTurn
  <2>2. Gives(o, [t EXCEPT !.open = RemoveAt(@, at)], I)
    <3>1. IsList(RemoveAt(t.open, at))
      BY ListParts DEF Gives, IsTree
    <3>2. QED
      BY <3>1, FieldGives, Zenon
  <2>3. QED
    BY <2>1, <2>2 DEF IsInner
<1>3. CASE ~ (turn > 3 /\ i # 0) /\ i # 0
  <2>1. InnerTurn(s, at, turn, furthest) = moved
    BY <1>3, Zenon DEF InnerTurn
  <2>2. Gives(o, u, I)
    BY CloneGives, Zenon
  <2>3. Gives(o, v, I)
    BY <2>2, FieldGives, Zenon
  <2>4. InPlace(clone).mode \in PlaceModes
    BY PlaceKinds, Zenon
  <2>5. Gives(o, Link(Detach(v, s.last), InPlace(clone), s.last), I)
    BY <2>3, <2>4, DetachGives, LinkGives, Zenon
  <2> HIDE DEF t, i, u, clone, v
  <2>6. moved.tree = Link(Detach(v, s.last), InPlace(clone), s.last) /\ IsInner(moved)
    BY DEF IsInner
  <2>7. QED
    BY <2>1, <2>5, <2>6, Zenon
<1>4. QED
    BY <1>1, <1>2, <1>3, Zenon

\* All turns of the inner loop.
LEMMA InnerLoopGives ==
    ASSUME NEW o, NEW I, NEW t, Gives(o, t, I), NEW at, NEW far \in Int, NEW bookmark
    PROVE  Gives(o, InnerLoop(t, at, far, bookmark).tree, I)
<1>. DEFINE start == [tree |-> t, last |-> t.open[far], bookmark |-> bookmark]
<1>. DEFINE Step(m, k) == InnerTurn(m, far - k, k, t.open[far])
            Runs(f, l) == f = [i \in 0 .. l |-> IF i = 0 THEN start ELSE Step(f[i - 1], i)]
            c == far - at - 1
            S(m) == IsInner(m) /\ Gives(o, m.tree, I)
<1>1. ASSUME NEW m, NEW k \in Nat, S(m) PROVE S(Step(m, k))
  <2>1. far - k \in Int
    OBVIOUS
  <2>2. QED
    BY <1>1, <2>1, InnerTurnGives, Zenon
<1>2. S(start)
    BY DEF IsInner
<1> HIDE DEF S, Step, start
<1>3. \A l \in Nat : \E f : Runs(f, l)
  <2>. DEFINE T == {l \in Nat : \E f : Runs(f, l)}
  <2>1. 0 \in T
    <3>1. Runs([i \in 0 .. 0 |-> start], 0)
      OBVIOUS
    <3>2. QED
      BY <3>1
  <2>2. ASSUME NEW l \in Nat, l \in T PROVE l + 1 \in T
    <3>1. PICK f : Runs(f, l)
      BY <2>2
    <3>2. \E g : Runs(g, l + 1)
      <4>1. Runs([i \in 0 .. l + 1 |-> IF i = l + 1 THEN Step(f[l], l + 1) ELSE f[i]], l + 1)
        BY <3>1
      <4>2. QED
        BY <4>1, Zenon
    <3> HIDE DEF Runs
    <3>3. QED
      BY <3>2
  <2> HIDE DEF T
  <2>3. Nat \subseteq T
    BY <2>1, <2>2, AllNumbers
  <2>4. QED
    BY <2>3 DEF T
<1>4. ASSUME NEW l \in Nat, NEW f, Runs(f, l) PROVE S(f[l])
  <2>. DEFINE T == {i \in Nat : i <= l => S(f[i])}
  <2>1. 0 \in T
    BY <1>2, <1>4
  <2>2. ASSUME NEW i \in Nat, i \in T PROVE i + 1 \in T
    <3>1. CASE i + 1 <= l
      <4>1. f[i + 1] = Step(f[i], i + 1) /\ S(f[i]) /\ i + 1 \in Nat
        BY <1>4, <2>2, <3>1
      <4>2. S(f[i + 1])
        BY <1>1, <4>1
      <4>3. QED
        BY <4>1, <4>2
    <3>2. QED
      BY <3>1
  <2> HIDE DEF T
  <2>3. Nat \subseteq T
    BY <2>1, <2>2, AllNumbers
  <2>4. QED
    BY <2>3 DEF T
<1>. DEFINE after == CHOOSE f : Runs(f, c)
            result == InnerLoop(t, at, far, bookmark)
<1>5. S(result)
  <2>1. CASE c \in Nat
    <3>1. Runs(after, c)
      BY <1>3, <2>1, Zenon
    <3>2. S(after[c])
      BY <1>4, <2>1, <3>1, Zenon
    <3>3. result = after[c]
      BY <2>1, Zenon DEF InnerLoop, Turns, Step, start
    <3>4. QED
      BY <3>2, <3>3
  <2>2. CASE c \notin Nat
    BY <2>2, <1>2, Zenon DEF InnerLoop, Turns, start
  <2>3. QED
    BY <2>1, <2>2
<1>6. QED
    BY <1>5 DEF S

\* What follows the inner loop.
LEMMA AdoptGives ==
    ASSUME NEW o, NEW I, NEW s, Gives(o, s.tree, I), NEW element, NEW furthest, NEW common
    PROVE  Gives(o, Adopt(s, element, furthest, common), I)
<1>1. ASSUME NEW t, Gives(o, t, I), NEW x PROVE Gives(o, PlaceLast(t, common, x), I)
  <2>1. AppropriatePlace(t, common).mode \in PlaceModes
    BY PlaceKinds, Zenon
  <2>2. QED
    BY <1>1, <2>1, LinkGives, Zenon DEF PlaceLast
<1>2. ASSUME NEW t, Gives(o, t, I) PROVE Gives(o, TakeChildren(t, furthest), I)
  <2>1. IsNodes(t.nodes)
    BY <1>2 DEF Gives, IsTree
  <2>. DEFINE n == MoveChildren(t.nodes, furthest, Newest(t))
  <2>2. SameNodes(t.nodes, n) /\ IsNodes(n)
    BY <2>1, MovedSame DEF SameNodes
  <2>3. SameNodes(t.nodes, AddChild(n, furthest, Newest(t)))
    BY <2>2, LinksSame, SameTwice, Zenon
  <2>4. QED
    BY <1>2, <2>3, NodesGive, Zenon DEF TakeChildren
<1>3. ASSUME NEW t, Gives(o, t, I) PROVE Gives(o, ReplaceBy(t, element, furthest, s.bookmark), I)
  <2>. DEFINE open == RemoveNode(t.open, element)
              l == IndexOf(open, furthest) + 1
              made == InsertAt(open, l, Newest(t))
  <2>1. IsList(open)
    BY <1>3, ListParts DEF Gives, IsTree
  <2>2. l \in Int
    <3>1. Len(open) \in Nat /\ IndexOf(open, furthest) \in 0 .. Len(open)
      BY <2>1, PlaceIn
    <3>2. QED
      BY <3>1
  <2>3. IsList(made)
    BY <2>1, <2>2, ListParts
  <2>4. \A v : Gives(o, [t EXCEPT !.active = v, !.open = made], I)
    BY <1>3, <2>3, FieldGives, Zenon
  <2>5. QED
    BY <1>3, <2>4, Zenon DEF ReplaceBy
<1>4. Gives(o, PlaceLast(Detach(s.tree, s.last), common, s.last), I)
    BY <1>1, DetachGives, Zenon
<1>5. QED
    BY <1>2, <1>3, <1>4, CloneGives, Zenon DEF Adopt

\* A turn of the outer loop.
LEMMA AgencyTurnGives ==
    ASSUME NEW o, NEW I, NEW t, Gives(o, t, I), NEW subject
    PROVE  /\ Gives(o, AgencyTurn(t, subject).tree, I)
           /\ {"tree", "go"} \subseteq DOMAIN AgencyTurn(t, subject)
<1>1. \A u, go : /\ Gives(o, u, I) => Gives(o, [tree |-> u, go |-> go].tree, I)
                 /\ {"tree", "go"} \subseteq DOMAIN [tree |-> u, go |-> go]
    OBVIOUS
<1>2. \A x, y : Gives(o, RemoveActive(PopUntilNode(t, x), y), I) /\ Gives(o, RemoveActive(t, x), I)
    BY StackGives, NoteGives, Zenon
<1>3. \A at, bookmark, x, y, z : \A far \in Int :
        Gives(o, Adopt(InnerLoop(t, at, far, bookmark), x, y, z), I)
    BY InnerLoopGives, AdoptGives, Zenon
<1>. DEFINE place == SelectLastInSeq(t.active,
                         LAMBDA x : IsMarker(t, x) \/ t.nodes[x].tag = subject)
            element == t.active[place]
            below == IndexOf(t.open, element)
            special == {i \in below .. Len(t.open) : InCategory(t, t.open[i], "SPECIAL")}
            block == IF special # {} THEN Min(special) ELSE 0
<1>4. Len(t.open) \in Nat /\ below \in 0 .. Len(t.open)
    BY PlaceIn DEF Gives, IsTree
<1> HIDE DEF below
<1>5. block \in Int
  <2>1. special \subseteq 0 .. Len(t.open)
    BY <1>4
  <2>2. special # {} => Min(special) \in special
    BY <1>4, <2>1, FirstAndLast
  <2>3. QED
    BY <1>4, <2>1, <2>2
<1>6. SelectInSubSeq(t.open, below, Len(t.open), LAMBDA x : InCategory(t, x, "SPECIAL")) = block
    BY DEF SelectInSubSeq
<1> HIDE DEF special, block
<1>7. AgencyTurn(t, subject) =
        IF place = 0 \/ IsMarker(t, element) THEN [tree |-> t, go |-> FALSE]
        ELSE IF below = 0 THEN [tree |-> RemoveActive(t, element), go |-> FALSE]
        ELSE IF ~ NodeInScope(t, element, "SCOPE") THEN [tree |-> t, go |-> FALSE]
        ELSE IF block = 0
             THEN [tree |-> RemoveActive(PopUntilNode(t, element), element), go |-> FALSE]
        ELSE [tree |-> Adopt(InnerLoop(t, below, block, place + 1), element, t.open[block],
                             t.open[below - 1]),
              go |-> TRUE]
    BY <1>6, Zenon DEF AgencyTurn, below
<1> HIDE DEF place, element
<1>8. QED
    BY <1>1, <1>2, <1>3, <1>5, <1>7, Zenon

\* All turns of the outer loop.
LEMMA AgencyGives ==
    ASSUME NEW o, NEW I, NEW t, Gives(o, t, I), NEW subject
    PROVE  Gives(o, AdoptionAgency(t, subject), I)
<1>. DEFINE start == [tree |-> t, go |-> TRUE]
<1>. DEFINE Step(m, k) == IF m.go THEN AgencyTurn(m.tree, subject) ELSE m
            Runs(f, l) == f = [i \in 0 .. l |-> IF i = 0 THEN start ELSE Step(f[i - 1], i)]
            c == AgencyTurns
            S(m) == Gives(o, m.tree, I)
<1>1. \A m, k : S(m) => S(Step(m, k))
    BY AgencyTurnGives, Zenon
<1>2. S(start)
    OBVIOUS
<1> HIDE DEF S, Step, start
<1>3. \A l \in Nat : \E f : Runs(f, l)
  <2>. DEFINE T == {l \in Nat : \E f : Runs(f, l)}
  <2>1. 0 \in T
    <3>1. Runs([i \in 0 .. 0 |-> start], 0)
      OBVIOUS
    <3>2. QED
      BY <3>1
  <2>2. ASSUME NEW l \in Nat, l \in T PROVE l + 1 \in T
    <3>1. PICK f : Runs(f, l)
      BY <2>2
    <3>2. \E g : Runs(g, l + 1)
      <4>1. Runs([i \in 0 .. l + 1 |-> IF i = l + 1 THEN Step(f[l], l + 1) ELSE f[i]], l + 1)
        BY <3>1
      <4>2. QED
        BY <4>1, Zenon
    <3> HIDE DEF Runs
    <3>3. QED
      BY <3>2
  <2> HIDE DEF T
  <2>3. Nat \subseteq T
    BY <2>1, <2>2, AllNumbers
  <2>4. QED
    BY <2>3 DEF T
<1>4. ASSUME NEW l \in Nat, NEW f, Runs(f, l) PROVE S(f[l])
  <2>. DEFINE T == {i \in Nat : i <= l => S(f[i])}
  <2>1. 0 \in T
    BY <1>2, <1>4
  <2>2. ASSUME NEW i \in Nat, i \in T PROVE i + 1 \in T
    BY <1>1, <1>4, <2>2
  <2> HIDE DEF T
  <2>3. Nat \subseteq T
    BY <2>1, <2>2, AllNumbers
  <2>4. QED
    BY <2>3 DEF T
<1>. DEFINE after == CHOOSE f : Runs(f, c)
            result == Turns(LAMBDA r, k : IF r.go THEN AgencyTurn(r.tree, subject) ELSE r, start, AgencyTurns)
<1>5. S(result)
  <2>1. CASE c \in Nat
    <3>1. Runs(after, c)
      BY <1>3, <2>1, Zenon
    <3>2. S(after[c])
      BY <1>4, <2>1, <3>1, Zenon
    <3>3. result = after[c]
      BY <2>1, Zenon DEF Turns, Step
    <3>4. QED
      BY <3>2, <3>3
  <2>2. CASE c \notin Nat
    BY <2>2, <1>2, Zenon DEF Turns
  <2>3. QED
    BY <2>1, <2>2
<1>6. Gives(o, result.tree, I)
    BY <1>5 DEF S
<1>7. Gives(o, Pop(t), I)
    BY StackGives, Zenon
<1>8. QED
    BY <1>6, <1>7, Zenon DEF AdoptionAgency, start

-----------------------------------------------------------------------------
(* Modes and handlers. *)

(* The modes that a text is taken in, of a table or of an element. *)
Collects == "IN_TABLE_TEXT"
Texts    == {"IN_TABLE_TEXT", "TEXT"}

(* No texts are collected, and there is no way back to where they are.     *)
Calm(t) ==
    /\ t.mode # Collects /\ t.orig # Collects
    /\ IsList(t.modes) /\ Collects \notin Range(t.modes)

(* There is no way back to a raw text. *)
NoWayBack(t) ==
    /\ t.orig # "TEXT"
    /\ IsList(t.modes) /\ "TEXT" \notin Range(t.modes)
    /\ t.fragment = Null

(* No raw text is asked for: what the tokenizer hears of the builder is to  *)
(* go on as it does with markup, or never to look for markup again.        *)
Plain(t) ==
    /\ t.mode # "TEXT" /\ NoWayBack(t)
    /\ t.builder \in {"DATA", "PLAINTEXT"}

(* The current node is an element of HTML. *)
OnHtml(t) ==
    /\ t.open # <<>> /\ Last(t.open) \in DOMAIN t.nodes
    /\ t.nodes[Last(t.open)].ns = "html"

(* A raw text is asked for, and the handler is through. *)
Raw(t) ==
    /\ t.mode = "TEXT" /\ NoWayBack(t)
    /\ t.builder \notin {"DATA", "PLAINTEXT"}
    /\ OnHtml(t) /\ t.rules = "none" /\ ~ t.again

(* What a handler has made of o, modes and all; I as with Gives. *)
Owns(o, t, I) ==
    /\ IsTree(t)
    /\ DOMAIN t.token = DOMAIN o.token
    /\ "id" \in DOMAIN o.token => t.token.id = o.token.id
    /\ Owned(t) \subseteq Owned(o) \cup I
    /\ Unique(o) /\ I \cap Owned(o) = {} => Unique(t)

Leads(o, t, I) ==
    /\ Owns(o, t, I)
    /\ Calm(o) => Calm(t)
    /\ Plain(o) => Plain(t)

(* Texts are collected from the next turn on, and there is none yet. *)
Settled(t) ==
    /\ t.orig # Collects
    /\ IsList(t.modes) /\ Collects \notin Range(t.modes)
    /\ t.mode = Collects => t.list = <<>>

(* A handler is done with the token k, or has not used it; only for an      *)
(* element has it asked for a raw text.                                    *)
Handled(o, t, k) ==
    /\ Owns(o, t, {k.id})
    /\ t.again \/ t.rules # "none" => Owns(o, t, {})
    /\ Calm(o) => IF t.rules = "none" THEN Settled(t) ELSE Calm(t)
    /\ Plain(o) => Plain(t) \/ (Raw(t) /\ k.tag \notin Markup)

\* What leaves the modes alone leads to no other mode.
LEMMA GivesLeads ==
    ASSUME NEW o, NEW I, NEW t, Gives(o, t, I)
    PROVE  Leads(o, t, I)
BY DEF Gives, Leads, Owns, Calm, Plain, NoWayBack

\* The stack of template modes grows and shrinks.
LEMMA ModesList ==
    ASSUME NEW s, IsList(s), NEW w, w \notin Range(s)
    PROVE  /\ \A m : m # w => IsList(Append(s, m)) /\ w \notin Range(Append(s, m))
           /\ s # <<>> => IsList(Front(s)) /\ w \notin Range(Front(s))
           /\ s # <<>> => Last(s) # w
<1>1. PICK T : T = Range(s) /\ s \in Seq(T) /\ w \notin T
    BY DEF IsList
<1>3. \A U : \A r \in Seq(U) : w \notin U => w \notin Range(r)
  <2>1. TAKE U
  <2>2. TAKE r \in Seq(U)
  <2>3. r \in [1 .. Len(r) -> U]
    BY LenProperties
  <2>4. QED
    BY <2>3 DEF Range
<1>4. ASSUME NEW m, m # w
      PROVE  IsList(Append(s, m)) /\ w \notin Range(Append(s, m))
  <2>1. PICK U : U = T \cup {m}
    OBVIOUS
  <2>2. s \in Seq(U) /\ m \in U /\ w \notin U
    BY <1>1, <1>4, <2>1
  <2>3. Append(s, m) \in Seq(U)
    BY <2>2, AppendProperties
  <2>4. QED
    BY <1>3, <2>2, <2>3, ListOf
<1>5. ASSUME s # <<>> PROVE Len(s) \in Nat \ {0}
    BY <1>1, <1>5, EmptySeq, LenProperties
<1>6. ASSUME s # <<>> PROVE IsList(Front(s)) /\ w \notin Range(Front(s))
  <2>1. SubSeq(s, 1, Len(s) - 1) \in Seq(T)
    BY <1>1, <1>5, <1>6, SubSeqProperties
  <2>2. QED
    BY <1>1, <1>3, <2>1, ListOf DEF Front
<1>7. ASSUME s # <<>> PROVE Last(s) # w
    BY <1>1, <1>5, <1>7, ElementOfSeq DEF Last
<1>8. QED
    BY <1>4, <1>6, <1>7

\* No element says that a text is to be taken.
LEMMA ModeAtUsual ==
    ASSUME NEW t, NEW w \in Texts, IsList(t.modes), w \notin Range(t.modes), NEW i
    PROVE  ModeAt(t, i) # w
<1>1. TemplateMode(t) # w
    BY ModesList DEF TemplateMode, Texts
<1>2. SelectMode(t, i) # w
    BY DEF SelectMode, Texts
<1>3. \A tag \in DOMAIN ModeOf : ModeOf[tag] # w
    BY DEF ModeOf, Texts
<1>4. QED
    BY <1>1, <1>2, <1>3 DEF ModeAt, Texts

\* The operations on modes.
LEMMA ModeLeads ==
    ASSUME NEW o, NEW I, NEW t, Leads(o, t, I)
    PROVE  /\ \A mode : mode \notin Texts => Leads(o, [t EXCEPT !.mode = mode], I)
           /\ \A mode : mode \notin Texts => Leads(o, SetMode(t, mode), I)
           /\ \A mode : mode \notin Texts => Leads(o, PushMode(t, mode), I)
           /\ Leads(o, PopMode(t), I)
           /\ Leads(o, ResetMode(t), I)
           /\ Leads(o, [t EXCEPT !.builder = "PLAINTEXT"], I)
           /\ \A x, mode : mode \notin Texts => Leads(o, [t EXCEPT !.head = x, !.mode = mode], I)
           /\ \A x, mode : mode \notin Texts => Leads(o, [t EXCEPT !.quirks = x, !.mode = mode], I)
           /\ \A x : Leads(o, RemoveOpen(t, x), I)
<1>1. \A mode : (Calm(t) => mode # Collects) /\ (Plain(t) => mode # "TEXT") =>
        Leads(o, [t EXCEPT !.mode = mode], I)
    BY DEF Leads, Owns, IsTree, Owned, Unique, Calm, Plain, NoWayBack
<1>2. \A mode : mode \notin Texts => Leads(o, SetMode(t, mode), I)
    BY <1>1 DEF SetMode, Texts, Collects
<1>3. \A m : /\ Calm(t) => IsList(m) /\ Collects \notin Range(m)
             /\ Plain(t) => IsList(m) /\ "TEXT" \notin Range(m)
             => Leads(o, [t EXCEPT !.modes = m], I)
    BY DEF Leads, Owns, IsTree, Owned, Unique, Calm, Plain, NoWayBack
<1>4. \A mode : mode \notin Texts => Leads(o, PushMode(t, mode), I)
  <2>1. TAKE mode
  <2>2. HAVE mode \notin Texts
  <2>3. mode # Collects /\ mode # "TEXT"
    BY <2>2 DEF Texts, Collects
  <2>4. Calm(t) => IsList(Append(t.modes, mode)) /\ Collects \notin Range(Append(t.modes, mode))
    BY <2>3, ModesList, Zenon DEF Calm
  <2>5. Plain(t) => IsList(Append(t.modes, mode)) /\ "TEXT" \notin Range(Append(t.modes, mode))
    BY <2>3, ModesList, Zenon DEF Plain, NoWayBack
  <2>6. QED
    BY <1>3, <2>4, <2>5, Zenon DEF PushMode
<1>5. Leads(o, PopMode(t), I)
  <2>1. t.modes # <<>> /\ Calm(t) => IsList(Front(t.modes)) /\ Collects \notin Range(Front(t.modes))
    BY ModesList, Zenon DEF Calm
  <2>2. t.modes # <<>> /\ Plain(t) => IsList(Front(t.modes)) /\ "TEXT" \notin Range(Front(t.modes))
    BY ModesList, Zenon DEF Plain, NoWayBack
  <2>3. QED
    BY <1>3, <2>1, <2>2, Zenon DEF PopMode
<1>6. Leads(o, ResetMode(t), I)
  <2>1. \A i : Calm(t) => ModeAt(t, i) # Collects
    BY ModeAtUsual DEF Calm, Texts, Collects
  <2>2. \A i : Plain(t) => ModeAt(t, i) # "TEXT"
    BY ModeAtUsual DEF Plain, NoWayBack, Texts
  <2>3. \A i : Leads(o, [t EXCEPT !.mode = ModeAt(t, i)], I)
    BY <1>1, <2>1, <2>2, Zenon
  <2>4. QED
    BY <2>3, Zenon DEF ResetMode
<1>7. Leads(o, [t EXCEPT !.builder = "PLAINTEXT"], I)
    BY DEF Leads, Owns, IsTree, Owned, Unique, Calm, Plain, NoWayBack
<1>8. \A mode : mode \notin Texts => mode # Collects /\ mode # "TEXT"
    BY DEF Texts, Collects
<1>9. \A x, mode : mode \notin Texts => Leads(o, [t EXCEPT !.head = x, !.mode = mode], I)
    BY <1>8 DEF Leads, Owns, IsTree, Owned, Unique, Calm, Plain, NoWayBack
<1>10. \A x, mode : mode \notin Texts => Leads(o, [t EXCEPT !.quirks = x, !.mode = mode], I)
    BY <1>8 DEF Leads, Owns, IsTree, Owned, Unique, Calm, Plain, NoWayBack
<1>11. ASSUME NEW x PROVE Leads(o, RemoveOpen(t, x), I)
  <2>1. IsList(RemoveNode(t.open, x))
    BY ListParts DEF Leads, Owns, IsTree
  <2>2. QED
    BY <2>1 DEF RemoveOpen, Leads, Owns, IsTree, Owned, Unique, Calm, Plain, NoWayBack
<1>12. \A mode : mode \notin Texts => Leads(o, [t EXCEPT !.mode = mode], I)
    BY <1>1, <1>8, Zenon
<1>13. QED
    BY <1>2, <1>4, <1>5, <1>6, <1>7, <1>9, <1>10, <1>11, <1>12, Zenon

\* What a handler returns.
LEMMA Returns ==
    ASSUME NEW o, NEW t, NEW k
    PROVE  /\ Leads(o, t, {k.id}) => Handled(o, Done(t), k)
           /\ Leads(o, t, {}) => /\ Handled(o, Done(t), k)
                                 /\ Handled(o, Again(t), k)
                                 /\ \A again : Handled(o, Result(t, again), k)
                                 /\ \A mode : Handled(o, Uses(t, mode), k)
<1>1. \A I : Leads(o, t, I) =>
        /\ \A again : /\ Leads(o, Result(t, again), I) /\ Result(t, again).rules = "none"
                      /\ Result(t, again).again = again
        /\ \A mode : Leads(o, Uses(t, mode), I)
    BY DEF Leads, Owns, IsTree, Owned, Unique, Calm, Plain, NoWayBack, Result, Uses
<1>2. \A u : Leads(o, u, {}) => Leads(o, u, {k.id})
    BY DEF Leads, Owns
<1>3. \A u : Calm(u) => Settled(u)
    BY DEF Calm, Settled
<1>4. ASSUME Leads(o, t, {k.id}) PROVE Handled(o, Done(t), k)
    BY <1>1, <1>3, <1>4 DEF Handled, Done, Leads
<1>5. ASSUME Leads(o, t, {}), NEW again PROVE Handled(o, Result(t, again), k)
    BY <1>1, <1>2, <1>3, <1>5 DEF Handled, Leads
<1>6. ASSUME Leads(o, t, {}), NEW mode PROVE Handled(o, Uses(t, mode), k)
    BY <1>1, <1>2, <1>3, <1>6 DEF Handled, Leads
<1>7. QED
    BY <1>4, <1>5, <1>6, Zenon DEF Done, Again

\* The other modes.
LEMMA OtherModes ==
    /\ "BEFORE_HTML" \notin Texts /\ "BEFORE_HEAD" \notin Texts /\ "IN_HEAD" \notin Texts
    /\ "IN_HEAD_NOSCRIPT" \notin Texts /\ "AFTER_HEAD" \notin Texts /\ "IN_BODY" \notin Texts
    /\ "IN_TABLE" \notin Texts /\ "IN_CAPTION" \notin Texts /\ "IN_COLUMN_GROUP" \notin Texts
    /\ "IN_TABLE_BODY" \notin Texts /\ "IN_ROW" \notin Texts /\ "IN_CELL" \notin Texts
    /\ "IN_SELECT" \notin Texts /\ "IN_SELECT_IN_TABLE" \notin Texts /\ "IN_TEMPLATE" \notin Texts
    /\ "AFTER_BODY" \notin Texts /\ "IN_FRAMESET" \notin Texts /\ "AFTER_FRAMESET" \notin Texts
    /\ "AFTER_AFTER_BODY" \notin Texts /\ "AFTER_AFTER_FRAMESET" \notin Texts
BY DEF Texts

(* A tree and a token that have names. *)
Ready(t, k) == IsTree(t) /\ "id" \in DOMAIN t.token /\ "id" \in DOMAIN k

\* The token at hand changes, but keeps its name.
LEMMA TokenGives ==
    ASSUME NEW o, "id" \in DOMAIN o.token, NEW I, NEW t, Gives(o, t, I)
    PROVE  /\ \A v : Gives(o, [t EXCEPT !.token.text = v], I)
           /\ \A v : Gives(o, [t EXCEPT !.token.tag = v], I)
           /\ Gives(o, CropSpace(t), I)
<1>1. \A v : Gives(o, [t EXCEPT !.token.text = v], I)
    BY DEF Gives, IsTree, Owned, Unique
<1>2. \A v : Gives(o, [t EXCEPT !.token.tag = v], I)
    BY DEF Gives, IsTree, Owned, Unique
<1>3. Gives(o, CropSpace(t), I)
    BY <1>1, Zenon DEF CropSpace
<1>4. QED
    BY <1>1, <1>2, <1>3, Zenon

\* The spaces a text begins with take no token.
LEMMA SpaceGives ==
    ASSUME NEW o, "id" \in DOMAIN o.token, NEW I, NEW t, Gives(o, t, I), NEW k, "id" \in DOMAIN k
    PROVE  Gives(o, InsertSpace(t, k), I)
<1>1. SpaceToken(k).id \in NoToken
    BY DEF SpaceToken, NoToken
<1>2. Gives(o, InsertText(t, SpaceToken(k)), I)
    BY <1>1, TextGives, Zenon
<1>3. QED
    BY <1>2, TokenGives, Zenon DEF InsertSpace

\* An element that has no token takes the one its attributes come from.
LEMMA MergeGives ==
    ASSUME NEW o, NEW t, Gives(o, t, {}), NEW x, NEW k
    PROVE  Gives(o, MergeAttributes(t, x, k), {k.id})
<1>1. IsNodes(t.nodes)
    BY DEF Gives, IsTree
<1>2. CASE t.nodes[x].token # Null
  <2>1. \A v : Gives(o, [t EXCEPT !.nodes[x].attr = v], {})
    <3>1. TAKE v
    <3>2. SameNodes(t.nodes, [t.nodes EXCEPT ![x].attr = v])
      BY <1>1, ListExcept DEF SameNodes, IsNodes
    <3>3. QED
      BY <3>2, NodesGive, Zenon
  <2>2. \A v : Gives(o, [t EXCEPT !.nodes[x].attr = v], {k.id})
    BY <2>1, GivesLess, Zenon
  <2>3. QED
    BY <1>2, <2>2, Zenon DEF MergeAttributes
<1>3. CASE t.nodes[x].token = Null
  <2>1. PICK n : n = [t.nodes EXCEPT ![x].token = k.id]
    OBVIOUS
  <2>2. /\ IsNodes(n) /\ DOMAIN n = DOMAIN t.nodes
        /\ \A y \in DOMAIN n : n[y].token = IF y = x THEN k.id ELSE t.nodes[y].token
    BY <1>1, <2>1, ListExcept DEF IsNodes
  <2>3. PICK u : u = [t EXCEPT !.nodes = n]
    OBVIOUS
  <2>4. Gives(t, u, {k.id})
    BY <2>2, <2>3 DEF Gives, IsTree, Owned, Unique
  <2>5. Gives(o, u, {k.id})
    BY <2>4 DEF Gives
  <2>6. SameNodes(u.nodes, [u.nodes EXCEPT ![x].attr = k.attr])
    BY <2>4, ListExcept DEF SameNodes, IsNodes, Gives, IsTree
  <2>7. Gives(o, [u EXCEPT !.nodes = [@ EXCEPT ![x].attr = k.attr]], {k.id})
    BY <2>5, <2>6, NodesGive, Zenon
  <2>8. MergeAttributes(t, x, k) = [u EXCEPT !.nodes = [@ EXCEPT ![x].attr = k.attr]]
    BY <1>3, <2>1, <2>3 DEF MergeAttributes
  <2>9. QED
    BY <2>7, <2>8, Zenon
<1>4. QED
    BY <1>2, <1>3

\* The ways that are taken most often: nothing, or one thing and done.
LEMMA Plainly ==
    ASSUME NEW t, NEW k, Ready(t, k)
    PROVE  /\ Gives(t, t, {})
           /\ Leads(t, t, {})
           /\ Handled(t, Done(t), k) /\ Handled(t, Again(t), k)
           /\ \A mode : Handled(t, Uses(t, mode), k)
           /\ Handled(t, Done(InsertHtml(t, k)), k)
           /\ Handled(t, Done(InsertVoid(t, k)), k)
           /\ Handled(t, Done(InsertText(t, k)), k)
           /\ \A parent : Handled(t, Done(InsertComment(t, k, parent)), k)
           /\ Handled(t, BodyHtml(t, k), k)
<1>1. Gives(t, t, {}) /\ Leads(t, t, {})
    BY GivesNone, GivesLeads, Zenon DEF Ready
<1>2. Handled(t, Done(t), k) /\ Handled(t, Again(t), k) /\ \A mode : Handled(t, Uses(t, mode), k)
    BY <1>1, Returns, Zenon
<1>3. \A u : Gives(t, u, {k.id}) => Handled(t, Done(u), k)
    BY GivesLeads, Returns, Zenon
<1>4. Gives(t, InsertHtml(t, k), {k.id}) /\ Gives(t, InsertVoid(t, k), {k.id})
    BY <1>1, InsertGives, Zenon
<1>5. Gives(t, InsertText(t, k), {k.id})
    BY <1>1, TextGives, Zenon
<1>6. \A parent : Gives(t, InsertComment(t, k, parent), {k.id})
    BY <1>1, InsertGives, Zenon
<1>7. Handled(t, BodyHtml(t, k), k)
    BY <1>1, <1>2, <1>3, MergeGives, Zenon DEF BodyHtml
<1>8. QED
    BY <1>1, <1>2, <1>3, <1>4, <1>5, <1>6, <1>7, Zenon

-----------------------------------------------------------------------------
(* Raw texts. *)

\* A node that is made and placed: those before it stay what they were.
LEMMA CreatedAt ==
    ASSUME NEW t, IsTree(t), NEW place, place.mode \in PlaceModes,
           NEW node, {"token", "ns"} \subseteq DOMAIN node, NEW v, v = CreateAt(t, place, node)
    PROVE  /\ IsTree(v) /\ v.open = t.open
           /\ Newest(t) + 1 \in DOMAIN v.nodes /\ v.nodes[Newest(t) + 1].ns = node.ns
           /\ \A y \in DOMAIN t.nodes : y \in DOMAIN v.nodes /\ v.nodes[y].ns = t.nodes[y].ns
<1>. DEFINE x == Newest(t) + 1
<1>1. PICK u : u = Create(t, node)
    OBVIOUS
<1>2. Gives(t, u, {node.token})
    BY <1>1, GivesNone, CreateGives
<1>3. u.nodes = Append(t.nodes, node) /\ u.open = t.open /\ IsNodes(u.nodes) /\ IsTree(u)
    BY <1>1, <1>2 DEF Create, IsTree, Gives
<1>4. /\ x \in DOMAIN u.nodes /\ u.nodes[x] = node
      /\ \A y \in DOMAIN t.nodes : y \in DOMAIN u.nodes /\ u.nodes[y] = t.nodes[y]
  <2>1. PICK T : T = Range(t.nodes) \cup {node}
    OBVIOUS
  <2>2. t.nodes \in Seq(Range(t.nodes)) /\ node \in T
    BY <2>1 DEF IsTree, IsNodes, IsList
  <2>3. t.nodes \in Seq(T)
    BY <2>1, <2>2, SeqDef, LenProperties
  <2>4. PICK l \in Nat : l = Len(t.nodes) /\ DOMAIN t.nodes = 1 .. l
    BY <2>2, LenProperties
  <2>5. /\ Append(t.nodes, node) \in Seq(T)
        /\ Len(Append(t.nodes, node)) = l + 1
        /\ \A y \in 1 .. l : Append(t.nodes, node)[y] = t.nodes[y]
        /\ Append(t.nodes, node)[l + 1] = node
    BY <2>2, <2>3, <2>4, AppendProperties
  <2>6. DOMAIN Append(t.nodes, node) = 1 .. l + 1
    BY <2>5, LenProperties
  <2>7. QED
    BY <1>3, <2>4, <2>5, <2>6 DEF Newest
<1> HIDE DEF x
<1>5. v = Link(u, place, x)
    BY <1>1 DEF CreateAt, x
<1>6. SameNodes(u.nodes, InsertByMode(u.nodes, place, x))
    BY <1>3, PlacedSame
<1>7. v.nodes = InsertByMode(u.nodes, place, x) /\ v.open = t.open /\ IsTree(v)
  <2>1. Gives(u, u, {})
    BY <1>3, GivesNone
  <2>2. Gives(u, v, {})
    BY <1>5, <2>1, LinkGives
  <2>3. QED
    BY <1>3, <1>5, <2>2 DEF Link, IsTree, Gives
<1>8. QED
    BY <1>4, <1>6, <1>7 DEF SameNodes, x

\* An element of HTML is opened, and it is the current node.
LEMMA OpensHtml ==
    ASSUME NEW t, IsTree(t), NEW k
    PROVE  /\ OnHtml(InsertHtml(t, k))
           /\ InsertHtml(t, k).open = Append(t.open, Newest(t) + 1)
<1>. DEFINE node == NodeOf(k.tag, "html", k.id, k.attr, <<>>)
            place == NewPlace(t)
            x == Newest(t) + 1
<1>1. node.ns = "html" /\ {"token", "ns"} \subseteq DOMAIN node
    BY DEF NodeOf
<1>2. place.mode \in PlaceModes
    BY PlaceKinds, Zenon
<1>3. PICK v : v = CreateAt(t, place, node)
    OBVIOUS
<1>4. InsertHtml(t, k) = Push(v, x)
    BY <1>3 DEF InsertHtml, InsertElement
<1> HIDE DEF node, place, x
<1>5. IsTree(v) /\ v.open = t.open /\ x \in DOMAIN v.nodes /\ v.nodes[x].ns = "html"
    BY <1>1, <1>2, <1>3, CreatedAt DEF x
<1>6. Push(v, x).nodes = v.nodes /\ Push(v, x).open = Append(t.open, x)
    BY <1>5 DEF Push, IsTree
<1>7. Append(t.open, x) # <<>> /\ Last(Append(t.open, x)) = x
    BY ListParts DEF IsTree
<1>8. QED
    BY <1>4, <1>5, <1>6, <1>7 DEF OnHtml, x

\* A text leaves the current node and its namespace alone.
LEMMA TextStays ==
    ASSUME NEW t, IsTree(t), OnHtml(t), NEW k
    PROVE  OnHtml(InsertText(t, k))
<1>1. \A u : /\ IsTree(u) /\ u.open = t.open
             /\ \A y \in DOMAIN t.nodes : y \in DOMAIN u.nodes /\ u.nodes[y].ns = t.nodes[y].ns
             => OnHtml(u)
    BY DEF OnHtml
<1>2. \A x, v : OnHtml([t EXCEPT !.nodes[x].text = v])
  <2>1. TAKE x, v
  <2>2. PICK u : u = [t EXCEPT !.nodes[x].text = v]
    OBVIOUS
  <2>3. SameNodes(t.nodes, [t.nodes EXCEPT ![x].text = v])
    BY ListExcept DEF SameNodes, IsNodes, IsTree
  <2>4. u.nodes = [t.nodes EXCEPT ![x].text = v] /\ u.open = t.open
    BY <2>2 DEF IsTree
  <2>5. QED
    BY <2>2, <2>3, <2>4 DEF OnHtml, SameNodes
<1>3. \A ns : OnHtml(CreateAt(t, NewPlace(t), NodeOf("_TEXT", ns, k.id, {}, k.text)))
  <2>1. TAKE ns
  <2>2. PICK node : node = NodeOf("_TEXT", ns, k.id, {}, k.text)
    OBVIOUS
  <2>3. {"token", "ns"} \subseteq DOMAIN node
    BY <2>2 DEF NodeOf
  <2>4. PICK place : place = NewPlace(t)
    OBVIOUS
  <2>5. place.mode \in PlaceModes
    BY <2>4, PlaceKinds, Zenon
  <2>6. PICK v : v = CreateAt(t, place, node)
    OBVIOUS
  <2>7. OnHtml(v)
    BY <1>1, <2>3, <2>5, <2>6, CreatedAt
  <2>8. QED
    BY <2>2, <2>4, <2>6, <2>7
<1>4. QED
    BY <1>2, <1>3, Zenon DEF InsertText, TextAt

\* The element of a raw text is the current node, whatever is noted of it.
LEMMA HtmlStays ==
    ASSUME NEW t, IsTree(t), OnHtml(t)
    PROVE  OnHtml(FramesetNotOk(t)) /\ OnHtml(SkipNewline(t))
BY DEF OnHtml, FramesetNotOk, SkipNewline, IsTree

\* A handler that has opened an element for a raw text is done.
LEMMA RawHandled ==
    ASSUME NEW o, NEW k, k.tag \notin Markup, NEW u, Leads(o, u, {k.id}), OnHtml(u),
           NEW state, state \notin {"DATA", "PLAINTEXT"}
    PROVE  Handled(o, Done(SwitchToText(u, state)), k)
<1>1. PICK w : w = Done(SwitchToText(u, state))
    OBVIOUS
<1>2. /\ IsTree(w) /\ w.nodes = u.nodes /\ w.token = u.token /\ w.modes = u.modes
      /\ w.open = u.open /\ w.fragment = u.fragment
      /\ w.mode = "TEXT" /\ w.orig = u.mode /\ w.builder = state
      /\ w.rules = "none" /\ w.again = FALSE
    BY <1>1 DEF Done, Result, SwitchToText, Leads, Owns, IsTree
<1>3. Owns(o, w, {k.id})
    BY <1>2 DEF Leads, Owns, Owned, Unique
<1>4. Calm(o) => Settled(w)
    BY <1>2 DEF Leads, Calm, Settled, Collects
<1>5. Plain(o) => Raw(w)
    BY <1>2 DEF Leads, Plain, NoWayBack, Raw, OnHtml
<1>6. QED
    BY <1>1, <1>2, <1>3, <1>4, <1>5 DEF Handled

\* An element is made for the text.
LEMMA TakesText ==
    ASSUME NEW o, NEW t, Gives(o, t, {}), NEW k, k.tag \notin Markup
    PROVE  /\ Handled(o, Done(SwitchToText(InsertHtml(t, k), "RAWTEXT")), k)
           /\ Handled(o, Done(SwitchToText(InsertHtml(t, k), "RCDATA")), k)
           /\ Handled(o, Done(SwitchToText(InsertHtml(t, k), "SCRIPT_DATA")), k)
<1>1. Leads(o, InsertHtml(t, k), {k.id})
    BY InsertGives, GivesLeads, Zenon
<1>2. OnHtml(InsertHtml(t, k))
    BY OpensHtml DEF Gives
<1>3. \A state : state \notin {"DATA", "PLAINTEXT"} => Handled(o, Done(SwitchToText(InsertHtml(t, k), state)), k)
    BY <1>1, <1>2, RawHandled, Zenon
<1>4. "RAWTEXT" \notin {"DATA", "PLAINTEXT"} /\ "RCDATA" \notin {"DATA", "PLAINTEXT"} /\ "SCRIPT_DATA" \notin {"DATA", "PLAINTEXT"}
    OBVIOUS
<1>5. QED
    BY <1>3, <1>4, Zenon

\* What is below the current node goes from the stack, and the node stays.
LEMMA StaysLast ==
    ASSUME NEW s, IsList(s), NEW x, NEW y
    PROVE  LET r == RemoveNode(Append(Append(s, x), y), x)
           IN  r # <<>> /\ Last(r) = y
<1>. DEFINE p == Append(s, x)
            q == Append(p, y)
            n == Len(s)
            i == IndexOf(q, x)
<1>1. PICK T : T = Range(s) \cup {x, y}
    OBVIOUS
<1>2. s \in Seq(T) /\ x \in T /\ y \in T /\ n \in Nat
    BY <1>1, SeqDef, LenProperties DEF IsList
<1>3. /\ p \in Seq(T) /\ Len(p) = n + 1 /\ p[n + 1] = x
    BY <1>2, AppendProperties
<1>4. /\ q \in Seq(T) /\ Len(q) = n + 2 /\ q[n + 2] = y /\ q[n + 1] = x
    BY <1>2, <1>3, AppendProperties
<1> HIDE DEF p, q, n
<1>5. i \in {n + 1, n + 2} /\ (i = n + 2 => y = x)
  <2>. DEFINE I == {j \in 1 .. n + 2 : q[j] = x}
  <2>1. n + 1 \in I /\ I \subseteq 0 .. n + 2 /\ I # {}
    BY <1>2, <1>4
  <2>2. i = IF I # {} THEN Max(I) ELSE 0
    BY <1>4 DEF IndexOf, SelectLastInSeq
  <2>3. Max(I) \in I /\ \A j \in I : Max(I) >= j
    <3>1. \E m \in I : \A j \in I : m >= j
      <4>1. CASE n + 2 \in I
        BY <1>2, <4>1
      <4>2. CASE n + 2 \notin I
        BY <1>2, <2>1, <4>2
      <4>3. QED
        BY <4>1, <4>2
    <3>2. QED
      BY <3>1 DEF Max
  <2>4. Max(I) >= n + 1 /\ Max(I) \in 1 .. n + 2
    BY <2>1, <2>3
  <2>5. Max(I) = n + 2 => y = x
    BY <1>4, <2>3
  <2> HIDE DEF I
  <2>6. QED
    BY <1>2, <2>1, <2>2, <2>4, <2>5
<1> HIDE DEF i
<1>6. PICK r : r = RemoveNode(q, x)
    OBVIOUS
<1>7. r = SubSeq(q, 1, i - 1) \o SubSeq(q, i + 1, n + 2)
  <2>1. i # 0
    BY <1>2, <1>5
  <2>2. r = RemoveAt(q, i)
    BY <1>6, <2>1, Zenon DEF RemoveNode, i
  <2>3. RemoveAt(q, i) = SubSeq(q, 1, i - 1) \o SubSeq(q, i + 1, Len(q))
    BY Zenon DEF RemoveAt
  <2>4. QED
    BY <1>4, <2>2, <2>3
<1>8. CASE i = n + 1
  <2>1. PICK a, b : a = SubSeq(q, 1, n) /\ b = SubSeq(q, n + 2, n + 2)
    OBVIOUS
  <2>2. a \in Seq(T) /\ Len(a) = n
    BY <1>2, <1>4, <2>1, SubSeqProperties
  <2>3. b \in Seq(T) /\ Len(b) = 1 /\ b[1] = y
    BY <1>2, <1>4, <2>1, SubSeqProperties
  <2>4. r = a \o b
    BY <1>2, <1>7, <1>8, <2>1
  <2>5. /\ r \in Seq(T) /\ Len(r) = Len(a) + Len(b)
        /\ \A j \in 1 .. Len(a) + Len(b) : r[j] = IF j <= Len(a) THEN a[j] ELSE b[j - Len(a)]
    BY <2>2, <2>3, <2>4, ConcatProperties, Zenon
  <2>6. Len(r) = n + 1 /\ r[n + 1] = b[1]
    <3>1. n + 1 \in 1 .. n + 1 /\ ~ (n + 1 <= n) /\ n + 1 - n = 1
      BY <1>2
    <3>2. QED
      BY <2>2, <2>3, <2>5, <3>1
  <2>7. r[n + 1] = y /\ r # <<>>
    BY <1>2, <2>3, <2>5, <2>6, EmptySeq
  <2>8. QED
    BY <1>6, <2>6, <2>7 DEF Last, q, p
<1>9. CASE i = n + 2
  <2>1. PICK a, b : a = SubSeq(q, 1, n + 1) /\ b = SubSeq(q, n + 3, n + 2)
    OBVIOUS
  <2>2. a \in Seq(T) /\ Len(a) = n + 1 /\ a[n + 1] = x
    BY <1>2, <1>4, <2>1, SubSeqProperties
  <2>3. b \in Seq(T) /\ Len(b) = 0
    BY <1>2, <1>4, <2>1, SubSeqProperties
  <2>4. r = a \o b
    BY <1>2, <1>7, <1>9, <2>1
  <2>5. r \in Seq(T) /\ Len(r) = n + 1 /\ r[n + 1] = x
    BY <1>2, <2>2, <2>3, <2>4, ConcatProperties
  <2>6. r # <<>>
    BY <1>2, <2>5, EmptySeq
  <2>7. QED
    BY <1>5, <1>6, <1>9, <2>5, <2>6 DEF Last, q, p
<1>10. QED
    BY <1>5, <1>8, <1>9

\* The head that was opened for an element goes from under it.
LEMMA TakesTextInHead ==
    ASSUME NEW o, NEW t, Gives(o, t, {}), NEW x, NEW k, k.tag \notin Markup,
           NEW state, state \notin {"DATA", "PLAINTEXT"}
    PROVE  Handled(o, Done(RemoveOpen(SwitchToText(InsertHtml(Push(t, x), k), state), x)), k)
<1>1. PICK p : p = Push(t, x)
    OBVIOUS
<1>2. Gives(o, p, {}) /\ IsTree(p) /\ p.open = Append(t.open, x) /\ IsList(t.open)
  <2>1. Gives(o, p, {})
    BY <1>1, StackGives, Zenon
  <2>2. QED
    BY <1>1, <2>1 DEF Push, Gives, IsTree
<1>3. PICK u : u = InsertHtml(p, k)
    OBVIOUS
<1>4. Gives(o, u, {k.id}) /\ IsTree(u)
    BY <1>2, <1>3, InsertGives DEF Gives
<1>5. OnHtml(u) /\ u.open = Append(Append(t.open, x), Newest(p) + 1)
    BY <1>2, <1>3, OpensHtml
<1>6. PICK r : r = RemoveNode(u.open, x)
    OBVIOUS
<1>7. r # <<>> /\ Last(r) = Last(u.open)
  <2>1. Last(u.open) = Newest(p) + 1
    <3>1. IsList(Append(t.open, x))
      BY <1>2, ListParts
    <3>2. QED
      BY <1>5, <3>1, ListParts
  <2>2. QED
    BY <1>2, <1>5, <1>6, <2>1, StaysLast
<1>8. PICK v : v = RemoveOpen(u, x)
    OBVIOUS
<1>9. v.open = r /\ v.nodes = u.nodes
    BY <1>4, <1>6, <1>8 DEF RemoveOpen, IsTree
<1>10. OnHtml(v)
    BY <1>5, <1>7, <1>9 DEF OnHtml
<1>11. Leads(o, v, {k.id})
    BY <1>4, <1>8, StackGives, GivesLeads, Zenon
<1>12. RemoveOpen(SwitchToText(u, state), x) = SwitchToText(v, state)
    BY <1>4, <1>6, <1>8 DEF RemoveOpen, SwitchToText, IsTree
<1>13. Handled(o, Done(SwitchToText(v, state)), k)
    BY <1>10, <1>11, RawHandled
<1>14. QED
    BY <1>1, <1>3, <1>12, <1>13

-----------------------------------------------------------------------------
(* The handlers: up to the body. *)

\* The mode initial.
LEMMA InitialHandled ==
    ASSUME NEW t, NEW k, Ready(t, k)
    PROVE  Handled(t, Initial(t, k), k)
<1>1. \A u : Gives(t, u, {}) => Handled(t, Again(Quirks(u)), k)
    BY GivesLeads, ModeLeads, Returns, OtherModes, Zenon DEF Quirks
<1>2. Gives(t, CropSpace(t), {})
    BY Plainly, TokenGives, Zenon DEF Ready
<1>3. Leads(t, InsertDoctype(t, k), {k.id})
    BY Plainly, InsertGives, GivesLeads, Zenon
<1>4. \A q : Handled(t, Done([InsertDoctype(t, k) EXCEPT !.quirks = q, !.mode = "BEFORE_HTML"]), k)
    BY <1>3, ModeLeads, Returns, OtherModes, Zenon
<1>5. QED
    BY <1>1, <1>2, <1>4, Plainly, Zenon DEF Initial

\* The mode before_html.
LEMMA BeforeHtmlHandled ==
    ASSUME NEW t, NEW k, Ready(t, k)
    PROVE  Handled(t, BeforeHtml(t, k), k)
<1>1. \A u : Gives(t, u, {}) => Handled(t, ImpliedRoot(u), k)
  <2>1. Null \in NoToken
    BY DEF NoToken
  <2>2. \A u : Gives(t, u, {}) => Leads(t, InsertRoot(u, NodeOf("html", "html", Null, {}, <<>>)), {})
    BY <2>1, RootGives, GivesLeads, Zenon
  <2>3. QED
    BY <2>2, ModeLeads, Returns, OtherModes, Zenon DEF ImpliedRoot
<1>2. Gives(t, CropSpace(t), {})
    BY Plainly, TokenGives, Zenon DEF Ready
<1>3. Leads(t, InsertRoot(t, NodeOf("html", "html", k.id, k.attr, <<>>)), {k.id})
    BY Plainly, RootGives, GivesLeads, Zenon
<1>4. Handled(t, Done(SetMode(InsertRoot(t, NodeOf("html", "html", k.id, k.attr, <<>>)), "BEFORE_HEAD")), k)
    BY <1>3, ModeLeads, Returns, OtherModes, Zenon
<1>5. QED
    BY <1>1, <1>2, <1>4, Plainly, Zenon DEF BeforeHtml

\* The mode before_head.
LEMMA BeforeHeadHandled ==
    ASSUME NEW t, NEW k, Ready(t, k)
    PROVE  Handled(t, BeforeHead(t, k), k)
<1>1. \A u, I : Leads(t, u, I) => Leads(t, NewHead(u), I)
    BY ModeLeads, OtherModes, Zenon DEF NewHead
<1>2. \A u : Gives(t, u, {}) => Handled(t, ImpliedHead(u), k)
    BY <1>1, ImpliedGives, GivesLeads, Returns, Zenon DEF ImpliedHead
<1>3. Gives(t, CropSpace(t), {})
    BY Plainly, TokenGives, Zenon DEF Ready
<1>4. Handled(t, Done(NewHead(InsertHtml(t, k))), k)
    BY <1>1, Plainly, InsertGives, GivesLeads, Returns, Zenon
<1>5. QED
    BY <1>2, <1>3, <1>4, Plainly, Zenon DEF BeforeHead

\* The end of a template.
LEMMA EndTemplateHandled ==
    ASSUME NEW t, NEW k, Ready(t, k)
    PROVE  Handled(t, EndTemplate(t), k)
<1>1. Gives(t, PopUntil(GenerateAllImplied(t), {"template"}), {})
    BY Plainly, StackGives, Zenon
<1>2. Leads(t, UpToLastMarker(PopUntil(GenerateAllImplied(t), {"template"})), {})
    BY <1>1, NoteGives, GivesLeads, Zenon
<1>3. Leads(t, ResetMode(PopMode(UpToLastMarker(PopUntil(GenerateAllImplied(t), {"template"})))), {})
    BY <1>2, ModeLeads, Zenon
<1>4. QED
    BY <1>3, Plainly, Returns, Zenon DEF EndTemplate

\* An element of the head.
LEMMA HeadElementHandled ==
    ASSUME NEW o, NEW t, Gives(o, t, {}), NEW k, k.tag \in HeadTags
    PROVE  /\ Handled(o, Done(HeadElement(t, k)), k)
           /\ \A x : t = Push(o, x) /\ Gives(o, o, {}) => Handled(o, Done(RemoveOpen(HeadElement(t, k), x)), k)
<1>0. k.tag \notin Markup
    BY DEF HeadTags, HeadOnly, Markup
<1>. DEFINE Good(u) == /\ Handled(o, Done(u), k)
                       /\ \A x : t = Push(o, x) /\ Gives(o, o, {}) => Handled(o, Done(RemoveOpen(u, x)), k)
<1>1. \A u : Leads(o, u, {k.id}) => Good(u)
    BY ModeLeads, Returns, Zenon
<1>2. \A state \in {"RCDATA", "RAWTEXT", "SCRIPT_DATA"} : Good(SwitchToText(InsertHtml(t, k), state))
  <2>1. TAKE state \in {"RCDATA", "RAWTEXT", "SCRIPT_DATA"}
  <2>2. state \notin {"DATA", "PLAINTEXT"}
    OBVIOUS
  <2>3. Handled(o, Done(SwitchToText(InsertHtml(t, k), state)), k)
    BY <1>0, TakesText
  <2>4. QED
    BY <1>0, <2>2, <2>3, TakesTextInHead, Zenon
<1> HIDE DEF Good
<1>3. Good(InsertVoid(t, k))
    BY <1>1, InsertGives, GivesLeads, Zenon
<1>4. Good(StartTemplate(t, k))
  <2>1. Gives(o, FramesetNotOk(PushMarker(InsertHtml(t, k))), {k.id})
    BY InsertGives, NoteGives, Zenon
  <2>2. Leads(o, StartTemplate(t, k), {k.id})
    BY <2>1, GivesLeads, ModeLeads, OtherModes, Zenon DEF StartTemplate
  <2>3. QED
    BY <1>1, <2>2, Zenon
<1>5. \/ k.tag \in HeadOnly \cup {"meta"} \/ k.tag = "title" \/ k.tag \in {"style", "noframes"}
      \/ k.tag = "script" \/ k.tag = "template"
    BY DEF HeadTags
<1>6. Good(HeadElement(t, k))
  <2>1. CASE k.tag \in HeadOnly \cup {"meta"} \/ k.tag = "title" \/ k.tag \in {"style", "noframes"}
    BY <1>2, <1>3, <2>1 DEF HeadElement, HeadOnly
  <2>2. CASE k.tag = "script" \/ k.tag = "template"
    BY <1>2, <1>4, <2>2 DEF HeadElement, HeadOnly
  <2>3. QED
    BY <1>5, <2>1, <2>2, Zenon
<1>7. QED
    BY <1>6, Zenon DEF Good

\* The head is left.
LEMMA LeaveHeadHandled ==
    ASSUME NEW t, NEW k, Ready(t, k), NEW u, Gives(t, u, {})
    PROVE  /\ Handled(t, Done(LeaveHead(u)), k)
           /\ Handled(t, Again(LeaveHead(u)), k)
<1>1. Leads(t, LeaveHead(u), {})
    BY StackGives, GivesLeads, ModeLeads, OtherModes, Zenon DEF LeaveHead
<1>2. QED
    BY <1>1, Returns, Zenon

\* The mode in_head.
LEMMA InHeadHandled ==
    ASSUME NEW t, NEW k, Ready(t, k)
    PROVE  Handled(t, InHead(t, k), k)
<1>1. Handled(t, InHeadEnd(t, k), k)
    BY Plainly, LeaveHeadHandled, EndTemplateHandled, Zenon DEF InHeadEnd
<1>2. Gives(t, InsertSpace(t, k), {})
    BY Plainly, SpaceGives, Zenon DEF Ready
<1>3. Handled(t, Again(LeaveHead(InsertSpace(t, k))), k)
    BY <1>2, LeaveHeadHandled, Zenon
<1>4. Handled(t, Again(LeaveHead(t)), k)
    BY Plainly, LeaveHeadHandled, Zenon
<1>5. k.tag \in HeadTags => Handled(t, Done(HeadElement(t, k)), k)
    BY Plainly, HeadElementHandled, Zenon
<1>6. /\ k.tag = "noscript" => Handled(t, Done(SwitchToText(InsertHtml(t, k), "RAWTEXT")), k)
      /\ Handled(t, Done(SetMode(InsertHtml(t, k), "IN_HEAD_NOSCRIPT")), k)
  <2>1. Leads(t, InsertHtml(t, k), {k.id})
    BY Plainly, InsertGives, GivesLeads, Zenon
  <2>2. k.tag = "noscript" => k.tag \notin Markup
    BY DEF Markup
  <2>3. k.tag = "noscript" => Handled(t, Done(SwitchToText(InsertHtml(t, k), "RAWTEXT")), k)
    BY <2>2, Plainly, TakesText, Zenon
  <2>4. QED
    BY <2>1, <2>3, ModeLeads, Returns, OtherModes, Zenon
<1>7. Handled(t, InHeadStart(t, k), k)
    BY <1>3, <1>4, <1>5, <1>6, Plainly, Zenon DEF InHeadStart
<1>8. QED
    BY <1>1, <1>7, Zenon DEF InHead

\* The mode in_head_noscript.
LEMMA InHeadNoscriptHandled ==
    ASSUME NEW t, NEW k, Ready(t, k)
    PROVE  Handled(t, InHeadNoscript(t, k), k)
<1>1. Leads(t, LeaveNoscript(t), {})
    BY Plainly, StackGives, GivesLeads, ModeLeads, OtherModes, Zenon DEF LeaveNoscript
<1>2. Handled(t, Done(LeaveNoscript(t)), k) /\ Handled(t, Again(LeaveNoscript(t)), k)
    BY <1>1, Returns, Zenon
<1>3. QED
    BY <1>2, Plainly, Zenon DEF InHeadNoscript

\* The mode after_head.
LEMMA AfterHeadHandled ==
    ASSUME NEW t, NEW k, Ready(t, k)
    PROVE  Handled(t, AfterHead(t, k), k)
<1>1. \A u : Gives(t, u, {}) => Handled(t, ImpliedBody(u), k)
    BY ImpliedGives, GivesLeads, ModeLeads, Returns, OtherModes, Zenon DEF ImpliedBody
<1>2. Gives(t, InsertSpace(t, k), {})
    BY Plainly, SpaceGives, Zenon DEF Ready
<1>3. Handled(t, ImpliedBody(t), k) /\ Handled(t, ImpliedBody(InsertSpace(t, k)), k)
    BY <1>1, <1>2, Plainly, Zenon
<1>4. Handled(t, Done(SetMode(FramesetNotOk(InsertHtml(t, k)), "IN_BODY")), k)
  <2>1. Leads(t, FramesetNotOk(InsertHtml(t, k)), {k.id})
    BY Plainly, InsertGives, NoteGives, GivesLeads, Zenon
  <2>2. QED
    BY <2>1, ModeLeads, Returns, OtherModes, Zenon
<1>5. Handled(t, Done(SetMode(InsertHtml(t, k), "IN_FRAMESET")), k)
  <2>1. Leads(t, InsertHtml(t, k), {k.id})
    BY Plainly, InsertGives, GivesLeads, Zenon
  <2>2. QED
    BY <2>1, ModeLeads, Returns, OtherModes, Zenon
<1>6. k.tag \in HeadTags => Handled(t, Done(BackInHead(t, k)), k)
  <2>1. Gives(t, Push(t, t.head), {})
    BY Plainly, StackGives, Zenon
  <2>2. QED
    BY <2>1, Plainly, HeadElementHandled, Zenon DEF BackInHead
<1>7. QED
    BY <1>3, <1>4, <1>5, <1>6, Plainly, Zenon DEF AfterHead

\* The mode text goes back to where it was come from.
LEMMA TextHandled ==
    ASSUME NEW t, NEW k, Ready(t, k)
    PROVE  Handled(t, Text(t, k), k)
<1>1. Leads(t, Pop(t), {})
    BY Plainly, StackGives, GivesLeads, Zenon
<1>2. Leads(t, SetMode(Pop(t), t.orig), {})
    BY <1>1 DEF Leads, Owns, IsTree, Owned, Unique, Calm, Plain, NoWayBack, SetMode
<1>3. Handled(t, Done(SetMode(Pop(t), t.orig)), k) /\ Handled(t, Again(SetMode(Pop(t), t.orig)), k)
    BY <1>2, Returns, Zenon
<1>4. QED
    BY <1>3, Plainly, Zenon DEF Text

-----------------------------------------------------------------------------
(* The handlers: the body. *)

\* The end of the file in a template.
LEMMA TemplateEofHandled ==
    ASSUME NEW t, NEW k, Ready(t, k)
    PROVE  Handled(t, TemplateEof(t), k)
<1>1. \A x : IsList(x) => Gives(t, [t EXCEPT !.open = x], {})
    BY Plainly, FieldGives, Zenon
<1>2. \A x : IsList(x) => Leads(t, UpToLastMarker([t EXCEPT !.open = x]), {})
    BY <1>1, NoteGives, GivesLeads, Zenon
<1>3. \A x : IsList(x) => Handled(t, Again(ResetMode(PopMode(UpToLastMarker([t EXCEPT !.open = x])))), k)
    BY <1>2, ModeLeads, Returns, Zenon
<1>. DEFINE n == Len(t.open)
            I == {j \in 1 .. n : Is(t, t.open[j], {"template"})}
            i == IF I # {} THEN Min(I) ELSE 0
<1>4. SelectInSeq(t.open, LAMBDA x : Is(t, x, {"template"})) = i
    BY DEF SelectInSeq
<1>5. IsList(SubSeq(t.open, 1, i - 1))
  <2>1. IsList(t.open) /\ n \in Nat
    BY PlaceIn DEF Ready, IsTree
  <2>2. I \in SUBSET (1 .. n)
    OBVIOUS
  <2> HIDE DEF I
  <2>3. i - 1 \in Int
    BY <2>1, <2>2, PlaceIn
  <2> HIDE DEF i
  <2>4. QED
    BY <2>1, <2>3, ListParts
<1> HIDE DEF i
<1>6. Handled(t, Again(ResetMode(PopMode(UpToLastMarker([t EXCEPT !.open = SubSeq(@, 1, i - 1)])))), k)
    BY <1>3, <1>5, Zenon
<1>7. QED
    BY <1>4, <1>6, Plainly, Zenon DEF TemplateEof

\* An element in a scope ends.
LEMMA EndGives ==
    ASSUME NEW o, NEW I, NEW t, Gives(o, t, I)
    PROVE  /\ \A tag, category, except : Gives(o, EndInScope(t, tag, category, except), I)
           /\ Gives(o, EndForm(t), I)
           /\ Gives(o, EndP(t), I)
           /\ Gives(o, EndHeading(t), I)
           /\ \A tag : Gives(o, EndObject(t, tag), I)
           /\ \A tags : Gives(o, PopIf(t, tags), I)
           /\ \A ok : Gives(o, FramesetUnless(t, ok), I)
<1>1. \A tag, category, except : Gives(o, EndInScope(t, tag, category, except), I)
    BY StackGives, Zenon DEF EndInScope
<1>2. Gives(o, EndForm(t), I)
  <2>1. Gives(o, [t EXCEPT !.form = Null], I)
    BY FieldGives, Zenon
  <2>2. \A x : Gives(o, RemoveOpen(GenerateImplied([t EXCEPT !.form = Null], Null), x), I)
    BY <2>1, StackGives, Zenon
  <2>3. QED
    BY <1>1, <2>1, <2>2 DEF EndForm
<1>3. Gives(o, EndP(t), I)
  <2>1. Gives(o, CloseP(t), I)
    BY NoteGives, Zenon
  <2>2. Gives(o, CloseP(InsertImplied(t, "p")), I)
    BY NoteGives, ImpliedGives, Zenon
  <2>3. QED
    BY <2>1, <2>2, Zenon DEF EndP
<1>4. Gives(o, EndHeading(t), I)
    BY StackGives, Zenon DEF EndHeading
<1>5. \A tag : Gives(o, EndObject(t, tag), I)
    BY <1>1, NoteGives, Zenon DEF EndObject
<1>6. \A tags : Gives(o, PopIf(t, tags), I)
    BY StackGives, Zenon DEF PopIf
<1>7. \A ok : Gives(o, FramesetUnless(t, ok), I)
    BY NoteGives, Zenon DEF FramesetUnless
<1>8. QED
    BY <1>1, <1>2, <1>3, <1>4, <1>5, <1>6, <1>7, Zenon

\* An end tag in the body.
LEMMA InBodyEndHandled ==
    ASSUME NEW t, NEW k, Ready(t, k)
    PROVE  Handled(t, InBodyEnd(t, k), k)
<1>1. \A u : Gives(t, u, {}) => Handled(t, Done(u), k)
    BY GivesLeads, Returns, Zenon
<1>2. \A again : Handled(t, EndBody(t, again), k)
    BY Plainly, ModeLeads, Returns, OtherModes, Zenon DEF EndBody
<1>3. /\ \A category, except : Handled(t, Done(EndInScope(t, k.tag, category, except)), k)
      /\ \A category, except : Handled(t, Done(EndInScope(t, "li", category, except)), k)
      /\ Handled(t, Done(EndForm(t)), k) /\ Handled(t, Done(EndP(t)), k)
      /\ Handled(t, Done(EndHeading(t)), k)
      /\ Handled(t, Done(EndObject(t, k.tag)), k)
    BY <1>1, Plainly, EndGives, Zenon
<1>4. Handled(t, Done(AdoptionAgency(t, k.tag)), k)
    BY <1>1, Plainly, AgencyGives, Zenon
<1>5. Handled(t, Done(EndBr(t, k)), k)
  <2>. DEFINE j == [k EXCEPT !.close = FALSE, !.attr = {}]
  <2>1. j.id = k.id
    BY DEF Ready
  <2> HIDE DEF j
  <2>2. Gives(t, FramesetNotOk(InsertVoid(Reconstruct(t), j)), {j.id})
    BY Plainly, ReconstructGives, InsertGives, NoteGives, Zenon
  <2>3. QED
    BY <2>1, <2>2, GivesLeads, Returns DEF EndBr, j
<1>6. Handled(t, OtherEndTag(t, k), k)
  <2>1. \A x, y : Gives(t, PopUntilNode(GenerateImplied(t, x), y), {})
    BY Plainly, StackGives, Zenon
  <2>2. QED
    BY <1>1, <2>1, Plainly, Zenon DEF OtherEndTag
<1>7. QED
    BY <1>2, <1>3, <1>4, <1>5, <1>6, Plainly, Zenon DEF InBodyEnd

\* A text without its nulls is the same token.
LEMMA NullsKeep ==
    ASSUME NEW k, "id" \in DOMAIN k
    PROVE  WithoutNulls(k).id = k.id /\ "id" \in DOMAIN WithoutNulls(k)
BY DEF WithoutNulls

\* A text in the body.
LEMMA BodyTextGives ==
    ASSUME NEW o, NEW t, Gives(o, t, {}), NEW k, "id" \in DOMAIN k
    PROVE  Gives(o, BodyText(t, k), {k.id})
<1>. DEFINE text == WithoutNulls(k)
<1>1. text.id = k.id
    BY NullsKeep, Zenon
<1> HIDE DEF text
<1>2. Gives(o, InsertText(Reconstruct(t), text), {k.id})
    BY <1>1, ReconstructGives, TextGives
<1>3. Gives(o, FramesetUnless(InsertText(Reconstruct(t), text), k.ws), {k.id})
    BY <1>2, EndGives, Zenon
<1>4. Gives(o, t, {k.id})
    BY GivesLess, Zenon
<1>5. QED
    BY <1>3, <1>4, Zenon DEF BodyText, text

\* A second body, a frameset in the place of the body.
LEMMA BodyGives ==
    ASSUME NEW t, NEW k, Ready(t, k)
    PROVE  /\ Gives(t, BodyBody(t, k), {k.id})
           /\ Handled(t, Done(BodyFrameset(t, k)), k)
<1>1. Gives(t, t, {}) /\ Gives(t, t, {k.id})
    BY Plainly, GivesLess, Zenon
<1>2. \A x : Gives(t, MergeAttributes(FramesetNotOk(t), x, k), {k.id})
    BY <1>1, NoteGives, MergeGives, Zenon
<1>3. Gives(t, BodyBody(t, k), {k.id})
    BY <1>1, <1>2, Zenon DEF BodyBody
<1>4. \A x : Gives(t, InsertHtml(PopUntilExclude(Detach(t, x), {"html"}), k), {k.id})
    BY <1>1, DetachGives, StackGives, InsertGives, Zenon
<1>5. \A x : Leads(t, SetMode(InsertHtml(PopUntilExclude(Detach(t, x), {"html"}), k), "IN_FRAMESET"), {k.id})
    BY <1>4, GivesLeads, ModeLeads, OtherModes, Zenon
<1>6. Leads(t, BodyFrameset(t, k), {k.id})
    BY <1>1, <1>5, GivesLeads, Zenon DEF BodyFrameset
<1>7. QED
    BY <1>3, <1>6, Returns, Zenon

\* Start tags of blocks.
LEMMA BlockGives ==
    ASSUME NEW o, NEW t, Gives(o, t, {}), NEW k
    PROVE  /\ Gives(o, StartBlock(t, k), {k.id})
           /\ Gives(o, StartForm(t, k), {k.id})
           /\ \A items : Gives(o, StartItem(t, k, items), {k.id})
           /\ Gives(o, StartButton(t, k), {k.id})
           /\ \A tags : Gives(o, InsertHtml(PopIf(ClosePInButtonScope(t), tags), k), {k.id})
           /\ \A tags : Gives(o, InsertVoid(PopIf(ClosePInButtonScope(t), tags), k), {k.id})
<1>1. \A u : Gives(o, u, {}) => Gives(o, StartBlock(u, k), {k.id})
    BY NoteGives, InsertGives, Zenon DEF StartBlock
<1>2. Gives(o, StartForm(t, k), {k.id})
  <2>. DEFINE u == StartBlock(t, k)
  <2>1. Gives(o, u, {k.id}) /\ Gives(o, t, {k.id})
    BY <1>1, GivesLess, Zenon
  <2>2. Gives(o, [u EXCEPT !.form = Newest(u)], {k.id})
    BY <2>1, FieldGives, Zenon
  <2> HIDE DEF u
  <2>3. QED
    BY <2>1, <2>2 DEF StartForm, u
<1>3. \A items : Gives(o, StartItem(t, k, items), {k.id})
  <2>1. Gives(o, FramesetNotOk(t), {})
    BY NoteGives, Zenon
  <2>2. \A x, y : Gives(o, PopUntil(GenerateImplied(FramesetNotOk(t), x), y), {})
    BY <2>1, StackGives, Zenon
  <2>3. QED
    BY <1>1, <2>1, <2>2, Zenon DEF StartItem
<1>4. Gives(o, StartButton(t, k), {k.id})
  <2>1. Gives(o, Reconstruct(EndInScope(t, "button", "SCOPE", Null)), {})
    BY EndGives, ReconstructGives, Zenon
  <2>2. QED
    BY <2>1, InsertGives, NoteGives, Zenon DEF StartButton
<1>5. \A tags : Gives(o, PopIf(ClosePInButtonScope(t), tags), {})
    BY NoteGives, EndGives, Zenon
<1>6. QED
    BY <1>1, <1>2, <1>3, <1>4, <1>5, InsertGives, Zenon

\* Start tags of formatting elements.
LEMMA FormattingGives ==
    ASSUME NEW o, NEW t, Gives(o, t, {}), NEW k
    PROVE  /\ Gives(o, StartA(t, k), {k.id})
           /\ Gives(o, StartNobr(t, k), {k.id})
           /\ Gives(o, InsertFormatting(Reconstruct(t), k), {k.id})
<1>1. \A u : Gives(o, u, {}) => Gives(o, InsertFormatting(Reconstruct(u), k), {k.id})
    BY ReconstructGives, InsertGives, Zenon
<1>2. \A u, x : Gives(o, u, {}) => Gives(o, RemoveBoth(u, x), {})
    BY StackGives, NoteGives, Zenon DEF RemoveBoth
<1>3. Gives(o, RemoveA(AdoptionAgency(t, "a")), {})
    BY <1>2, AgencyGives, Zenon DEF RemoveA
<1>4. Gives(o, StartA(t, k), {k.id})
    BY <1>1, <1>3, Zenon DEF StartA
<1>5. Gives(o, EndNobr(Reconstruct(t)), {})
    BY ReconstructGives, AgencyGives, Zenon DEF EndNobr
<1>6. Gives(o, StartNobr(t, k), {k.id})
    BY <1>5, InsertGives, Zenon DEF StartNobr
<1>7. QED
    BY <1>1, <1>4, <1>6, Zenon

\* Start tags of elements that the body has in its lines.
LEMMA InlineGives ==
    ASSUME NEW o, NEW t, Gives(o, t, {}), NEW k
    PROVE  Gives(o, InlineStart(t, k), {k.id})
<1>1. Gives(o, Reconstruct(t), {}) /\ Gives(o, t, {k.id})
    BY ReconstructGives, GivesLess, Zenon
<1>2. /\ Gives(o, FramesetNotOk(PushMarker(InsertHtml(Reconstruct(t), k))), {k.id})
      /\ Gives(o, FramesetNotOk(InsertVoid(Reconstruct(t), k)), {k.id})
      /\ \A ok : Gives(o, FramesetUnless(InsertVoid(Reconstruct(t), k), ok), {k.id})
      /\ Gives(o, InsertVoid(t, k), {k.id})
      /\ Gives(o, InsertHtml(Reconstruct(t), k), {k.id})
    BY <1>1, InsertGives, NoteGives, EndGives, Zenon
<1>3. \A tags : Gives(o, InsertHtml(Reconstruct(PopIf(t, tags)), k), {k.id})
    BY EndGives, ReconstructGives, InsertGives, Zenon
<1>4. \A except : Gives(o, StartRuby(t, k, except), {k.id})
    BY StackGives, InsertGives, Zenon DEF StartRuby
<1>5. \A ns : Gives(o, StartForeign(t, k, ns), {k.id})
    BY <1>1, InsertGives, StackGives, Zenon DEF StartForeign
<1>6. Gives(o, StartButton(t, k), {k.id})
    BY BlockGives, Zenon
<1>7. QED
    BY <1>1, <1>2, <1>3, <1>4, <1>5, <1>6, FormattingGives, Zenon DEF InlineStart

\* Start tags that change the mode, or what the tokenizer does next.
LEMMA StartsRaw ==
    ASSUME NEW t, NEW k, Ready(t, k)
    PROVE  /\ k.tag \in RawTags => Handled(t, Done(StartRaw(t, k)), k)
           /\ Leads(t, StartTable(t, k), {k.id})
           /\ Leads(t, StartSelect(t, k), {k.id})
<1>1. Gives(t, t, {})
    BY Plainly, Zenon
<1>2. k.tag \notin Markup => \A u : Gives(t, u, {}) => Handled(t, Done(RawText(u, k)), k)
    BY TakesText, Zenon DEF RawText
<1>3. Handled(t, Done([StartBlock(t, k) EXCEPT !.builder = "PLAINTEXT"]), k)
    BY <1>1, BlockGives, GivesLeads, ModeLeads, Returns, Zenon
<1>4. \A u, I : Gives(t, u, I) => Gives(t, SkipNewline(u), I)
    BY FieldGives, Zenon DEF SkipNewline
<1>5. k.tag \notin Markup => Handled(t, Done(SwitchToText(FramesetNotOk(SkipNewline(InsertHtml(t, k))), "RCDATA")), k)
  <2>1. PICK u : u = InsertHtml(t, k)
    OBVIOUS
  <2>2. OnHtml(u) /\ IsTree(u) /\ Gives(t, u, {k.id})
    BY <1>1, <2>1, OpensHtml, InsertGives DEF Gives, Ready
  <2>3. PICK v : v = SkipNewline(u)
    OBVIOUS
  <2>4. Gives(t, v, {k.id}) /\ OnHtml(v) /\ IsTree(v)
    BY <1>4, <2>2, <2>3, HtmlStays DEF Gives
  <2>5. OnHtml(FramesetNotOk(v)) /\ Leads(t, FramesetNotOk(v), {k.id})
    BY <2>4, HtmlStays, NoteGives, GivesLeads, Zenon
  <2>6. "RCDATA" \notin {"DATA", "PLAINTEXT"}
    OBVIOUS
  <2>7. QED
    BY <2>1, <2>3, <2>5, <2>6, RawHandled
<1>6. k.tag \notin Markup => Handled(t, Done(RawText(FramesetNotOk(Reconstruct(ClosePInButtonScope(t))), k)), k)
    BY <1>1, <1>2, NoteGives, ReconstructGives, Zenon
<1>7. k.tag \notin Markup => /\ Handled(t, Done(RawText(FramesetNotOk(t), k)), k)
                            /\ Handled(t, Done(RawText(t, k)), k)
    BY <1>1, <1>2, NoteGives, Zenon
<1>8. Handled(t, Done(InsertHtml(Reconstruct(t), k)), k)
    BY <1>1, ReconstructGives, InsertGives, GivesLeads, Returns, Zenon
<1>9. k.tag \in RawTags => Handled(t, Done(StartRaw(t, k)), k)
  <2>1. k.tag \in RawTags => k.tag \notin Markup
    BY DEF RawTags, Markup
  <2>2. QED
    BY <2>1, <1>3, <1>5, <1>6, <1>7, <1>8 DEF StartRaw, RawTags
<1>10. Leads(t, StartTable(t, k), {k.id})
  <2>1. \A u : Gives(t, u, {}) => Leads(t, SetMode(FramesetNotOk(InsertHtml(u, k)), "IN_TABLE"), {k.id})
    BY InsertGives, NoteGives, GivesLeads, ModeLeads, OtherModes, Zenon
  <2>2. QED
    BY <1>1, <2>1, NoteGives, Zenon DEF StartTable
<1>11. Leads(t, StartSelect(t, k), {k.id})
  <2>1. Leads(t, FramesetNotOk(InsertHtml(Reconstruct(t), k)), {k.id})
    BY <1>1, ReconstructGives, InsertGives, NoteGives, GivesLeads, Zenon
  <2>2. QED
    BY <2>1, ModeLeads, OtherModes, Zenon DEF StartSelect
<1>12. QED
    BY <1>9, <1>10, <1>11, Zenon

\* The mode in_body.
LEMMA InBodyHandled ==
    ASSUME NEW t, NEW k, Ready(t, k)
    PROVE  Handled(t, InBody(t, k), k)
<1>1. \A u : Gives(t, u, {k.id}) => Handled(t, Done(u), k)
    BY GivesLeads, Returns, Zenon
<1>2. /\ Handled(t, Done(BodyText(t, k)), k) /\ Handled(t, Done(BodyBody(t, k)), k)
      /\ Handled(t, Done(BodyFrameset(t, k)), k)
    BY <1>1, Plainly, BodyTextGives, BodyGives, Zenon DEF Ready
<1>3. /\ Handled(t, Done(StartBlock(t, k)), k)
      /\ \A tags : Handled(t, Done(InsertHtml(PopIf(ClosePInButtonScope(t), tags), k)), k)
      /\ Handled(t, Done(StartForm(t, k)), k)
      /\ \A items : Handled(t, Done(StartItem(t, k, items)), k)
    BY <1>1, Plainly, BlockGives, Zenon
<1>4. Handled(t, Done(FramesetNotOk(SkipNewline(StartBlock(t, k)))), k)
  <2>1. Gives(t, SkipNewline(StartBlock(t, k)), {k.id})
    BY Plainly, BlockGives, FieldGives, Zenon DEF SkipNewline
  <2>2. QED
    BY <1>1, <2>1, NoteGives, Zenon
<1>5. Handled(t, Done(FramesetNotOk(InsertVoid(PopIf(ClosePInButtonScope(t), {"menuitem"}), k))), k)
    BY <1>1, Plainly, BlockGives, NoteGives, Zenon
<1>6. /\ Handled(t, Done(StartTable(t, k)), k) /\ Handled(t, Done(StartSelect(t, k)), k)
      /\ k.tag \in RawTags => Handled(t, Done(StartRaw(t, k)), k)
    BY StartsRaw, Returns, Zenon
<1>7. Handled(t, Again([t EXCEPT !.token.tag = "img"]), k)
    BY Plainly, TokenGives, GivesLeads, Returns, Zenon DEF Ready
<1>8. Handled(t, Done(InlineStart(t, k)), k)
    BY <1>1, Plainly, InlineGives, Zenon
<1>9. Handled(t, InBodyStart(t, k), k)
    BY <1>2, <1>3, <1>4, <1>5, <1>6, <1>7, <1>8, Plainly, TemplateEofHandled, Zenon DEF InBodyStart
<1>10. QED
    BY <1>9, InBodyEndHandled, Zenon DEF InBody

-----------------------------------------------------------------------------
(* The handlers: tables, selects and templates. *)

\* What ends with a change of the mode.
LEMMA TurnsTo ==
    ASSUME NEW o, NEW u, Gives(o, u, {}), NEW k, NEW mode, mode \notin Texts
    PROVE  /\ Handled(o, Done(SetMode(u, mode)), k) /\ Handled(o, Again(SetMode(u, mode)), k)
           /\ Handled(o, Done(ResetMode(u)), k) /\ Handled(o, Again(ResetMode(u)), k)
BY GivesLeads, ModeLeads, Returns, Zenon

\* An element is made, and the mode is that of its content.
LEMMA OpensWith ==
    ASSUME NEW o, NEW u, Gives(o, u, {}), NEW k, NEW mode, mode \notin Texts
    PROVE  /\ Handled(o, Done(SetMode(InsertHtml(u, k), mode)), k)
           /\ Handled(o, Done(SetMode(PushMarker(InsertHtml(u, k)), mode)), k)
           /\ \A tag : Handled(o, Again(SetMode(InsertImplied(u, tag), mode)), k)
<1>1. /\ Leads(o, InsertHtml(u, k), {k.id}) /\ Leads(o, PushMarker(InsertHtml(u, k)), {k.id})
      /\ \A tag : Leads(o, InsertImplied(u, tag), {})
    BY InsertGives, NoteGives, ImpliedGives, GivesLeads, Zenon
<1>2. QED
    BY <1>1, ModeLeads, Returns, Zenon

\* What does not belong in a table.
LEMMA FosterHandled ==
    ASSUME NEW t, NEW k, Ready(t, k)
    PROVE  Handled(t, Foster(t), k)
<1>1. Leads(t, [t EXCEPT !.foster = TRUE], {})
    BY Plainly, FieldGives, GivesLeads, Zenon
<1>2. QED
    BY <1>1, Returns, Zenon DEF Foster

\* A text in a table is kept for a while.
LEMMA CollectHandled ==
    ASSUME NEW t, NEW k, Ready(t, k)
    PROVE  Handled(t, Again([t EXCEPT !.list = <<>>, !.orig = t.mode, !.mode = "IN_TABLE_TEXT"]), k)
<1>1. PICK u : u = Again([t EXCEPT !.list = <<>>, !.orig = t.mode, !.mode = "IN_TABLE_TEXT"])
    OBVIOUS
<1>2. /\ IsTree(u) /\ u.nodes = t.nodes /\ u.token = t.token /\ u.modes = t.modes
      /\ u.orig = t.mode /\ u.list = <<>> /\ u.rules = "none" /\ u.mode = Collects
      /\ u.builder = t.builder /\ u.fragment = t.fragment
    BY <1>1 DEF Again, Result, Ready, IsTree, Collects
<1>3. Owns(t, u, {}) /\ Owns(t, u, {k.id})
    BY <1>2 DEF Owns, Owned, Unique
<1>4. Calm(t) => Settled(u)
    BY <1>2 DEF Calm, Settled
<1>5. Plain(t) => Plain(u)
    BY <1>2 DEF Plain, NoWayBack, Collects
<1>6. QED
    BY <1>1, <1>2, <1>3, <1>4, <1>5 DEF Handled

\* The mode in_table.
LEMMA InTableHandled ==
    ASSUME NEW t, NEW k, Ready(t, k)
    PROVE  Handled(t, InTable(t, k), k)
<1>1. Gives(t, t, {}) /\ Gives(t, ToTable(t), {})
    BY Plainly, StackGives, Zenon DEF ToTable
<1>2. \A x, tags : Gives(t, PopUntilNode(t, x), {}) /\ Gives(t, PopUntil(t, tags), {})
    BY <1>1, StackGives, Zenon
<1>3. /\ Handled(t, Done(CloseTable(t)), k)
      /\ Handled(t, Again(ResetMode(PopUntil(t, {"table"}))), k)
    BY <1>2, TurnsTo, OtherModes, Zenon DEF CloseTable
<1>4. Handled(t, InTableEnd(t, k), k)
    BY <1>3, FosterHandled, Plainly, Zenon DEF InTableEnd
<1>5. /\ Handled(t, Done(SetMode(PushMarker(InsertHtml(ToTable(t), k)), "IN_CAPTION")), k)
      /\ Handled(t, Done(SetMode(InsertHtml(ToTable(t), k), "IN_COLUMN_GROUP")), k)
      /\ Handled(t, Done(SetMode(InsertHtml(ToTable(t), k), "IN_TABLE_BODY")), k)
      /\ Handled(t, Again(SetMode(InsertImplied(ToTable(t), "colgroup"), "IN_COLUMN_GROUP")), k)
      /\ Handled(t, Again(SetMode(InsertImplied(ToTable(t), "tbody"), "IN_TABLE_BODY")), k)
    BY <1>1, OpensWith, OtherModes, Zenon
<1>6. \A x : Handled(t, Done(Pop([InsertHtml(t, k) EXCEPT !.form = x])), k)
    BY <1>1, InsertGives, FieldGives, StackGives, GivesLeads, Returns, Zenon
<1>7. Handled(t, InTableStart(t, k), k)
    BY <1>3, <1>5, <1>6, FosterHandled, CollectHandled, Plainly, Zenon DEF InTableStart
<1>8. QED
    BY <1>4, <1>7, Zenon DEF InTable

\* The mode in_caption.
LEMMA InCaptionHandled ==
    ASSUME NEW t, NEW k, Ready(t, k)
    PROVE  Handled(t, InCaption(t, k), k)
<1>1. Gives(t, UpToLastMarker(PopUntil(GenerateImplied(t, Null), {"caption"})), {})
    BY Plainly, StackGives, NoteGives, Zenon
<1>2. Handled(t, Done(CloseCaption(t)), k) /\ Handled(t, Again(CloseCaption(t)), k)
    BY <1>1, TurnsTo, OtherModes, Zenon DEF CloseCaption
<1>3. QED
    BY <1>2, Plainly, Zenon DEF InCaption

\* The mode in_column_group.
LEMMA InColumnGroupHandled ==
    ASSUME NEW t, NEW k, Ready(t, k)
    PROVE  Handled(t, InColumnGroup(t, k), k)
<1>1. \A u : Gives(t, u, {}) => \A again : Handled(t, LeaveColumnGroup(u, again), k)
  <2>1. \A u : Gives(t, u, {}) => Leads(t, u, {}) /\ Leads(t, SetMode(Pop(u), "IN_TABLE"), {})
    BY StackGives, GivesLeads, ModeLeads, OtherModes, Zenon
  <2>2. QED
    BY <2>1, Returns, Zenon DEF LeaveColumnGroup
<1>2. Gives(t, InsertSpace(t, k), {})
    BY Plainly, SpaceGives, Zenon DEF Ready
<1>3. \A again : Handled(t, LeaveColumnGroup(t, again), k)
    BY <1>1, Plainly, Zenon
<1>4. QED
    BY <1>1, <1>2, <1>3, Plainly, Zenon DEF InColumnGroup

\* The mode in_table_body.
LEMMA InTableBodyHandled ==
    ASSUME NEW t, NEW k, Ready(t, k)
    PROVE  Handled(t, InTableBody(t, k), k)
<1>1. Gives(t, ToTableBody(t), {}) /\ Gives(t, Pop(ToTableBody(t)), {})
    BY Plainly, StackGives, Zenon DEF ToTableBody
<1>2. Handled(t, Done(LeaveTableBody(t)), k) /\ Handled(t, Again(LeaveTableBody(t)), k)
    BY <1>1, TurnsTo, OtherModes, Zenon DEF LeaveTableBody
<1>3. /\ Handled(t, Done(SetMode(InsertHtml(ToTableBody(t), k), "IN_ROW")), k)
      /\ Handled(t, Again(SetMode(InsertImplied(ToTableBody(t), "tr"), "IN_ROW")), k)
    BY <1>1, OpensWith, OtherModes, Zenon
<1>4. QED
    BY <1>2, <1>3, Plainly, Zenon DEF InTableBody

\* The mode in_row.
LEMMA InRowHandled ==
    ASSUME NEW t, NEW k, Ready(t, k)
    PROVE  Handled(t, InRow(t, k), k)
<1>1. Gives(t, ToRow(t), {}) /\ Gives(t, Pop(ToRow(t)), {})
    BY Plainly, StackGives, Zenon DEF ToRow
<1>2. Handled(t, Done(LeaveRow(t)), k) /\ Handled(t, Again(LeaveRow(t)), k)
    BY <1>1, TurnsTo, OtherModes, Zenon DEF LeaveRow
<1>3. Handled(t, Done(SetMode(PushMarker(InsertHtml(ToRow(t), k)), "IN_CELL")), k)
    BY <1>1, OpensWith, OtherModes, Zenon
<1>4. QED
    BY <1>2, <1>3, Plainly, Zenon DEF InRow

\* The mode in_cell.
LEMMA InCellHandled ==
    ASSUME NEW t, NEW k, Ready(t, k)
    PROVE  Handled(t, InCell(t, k), k)
<1>1. \A cell : Leads(t, CloseCell(t, cell), {})
  <2>1. \A cell : Leads(t, UpToLastMarker(PopUntil(GenerateImplied(t, Null), {cell})), {})
    BY Plainly, StackGives, NoteGives, GivesLeads, Zenon
  <2>2. QED
    BY <2>1, ModeLeads, OtherModes, Zenon DEF CloseCell
<1>2. \A cell : Handled(t, Done(CloseCell(t, cell)), k) /\ Handled(t, Again(CloseCell(t, cell)), k)
    BY <1>1, Returns, Zenon
<1>3. Handled(t, Again(CloseOpenCell(t)), k)
    BY <1>2, Plainly, Zenon DEF CloseOpenCell
<1>4. QED
    BY <1>2, <1>3, Plainly, Zenon DEF InCell

\* The mode in_select.
LEMMA InSelectHandled ==
    ASSUME NEW t, NEW k, Ready(t, k)
    PROVE  Handled(t, InSelect(t, k), k)
<1>1. Gives(t, t, {}) /\ \A x : Gives(t, PopUntilNode(t, x), {})
    BY Plainly, StackGives, Zenon
<1>2. Handled(t, Done(CloseSelect(t)), k) /\ Handled(t, Again(CloseSelect(t)), k)
    BY <1>1, TurnsTo, OtherModes, Plainly, Zenon DEF CloseSelect
<1>3. \A u, tags : Gives(t, u, {}) => Gives(t, PopIf(u, tags), {})
    BY EndGives, Zenon
<1>4. \A u : Gives(t, u, {}) => Handled(t, Done(u), k)
    BY GivesLeads, Returns, Zenon
<1>5. Handled(t, InSelectEnd(t, k), k)
  <2>1. Gives(t, Pop(t), {})
    BY <1>1, StackGives, Zenon
  <2>2. QED
    BY <1>1, <1>2, <1>3, <1>4, <2>1, Plainly, Zenon DEF InSelectEnd
<1>6. \A u : Gives(t, u, {}) => Handled(t, Done(InsertHtml(u, k)), k)
    BY InsertGives, GivesLeads, Returns, Zenon
<1>7. Handled(t, Done(InsertText(t, WithoutNulls(k))), k)
  <2>1. WithoutNulls(k).id = k.id
    BY NullsKeep, Zenon DEF Ready
  <2>2. Gives(t, InsertText(t, WithoutNulls(k)), {k.id})
    BY <1>1, <2>1, TextGives
  <2>3. QED
    BY <2>2, GivesLeads, Returns, Zenon
<1>8. Handled(t, InSelectStart(t, k), k)
    BY <1>1, <1>2, <1>3, <1>6, <1>7, Plainly, Zenon DEF InSelectStart
<1>9. QED
    BY <1>5, <1>8, Zenon DEF InSelect

\* The mode in_select_in_table.
LEMMA InSelectInTableHandled ==
    ASSUME NEW t, NEW k, Ready(t, k)
    PROVE  Handled(t, InSelectInTable(t, k), k)
<1>1. Gives(t, PopUntil(t, {"select"}), {})
    BY Plainly, StackGives, Zenon
<1>2. Handled(t, Again(ResetMode(PopUntil(t, {"select"}))), k)
    BY <1>1, TurnsTo, OtherModes, Zenon
<1>3. QED
    BY <1>2, Plainly, Zenon DEF InSelectInTable

\* The mode in_template.
LEMMA InTemplateHandled ==
    ASSUME NEW t, NEW k, Ready(t, k)
    PROVE  Handled(t, InTemplate(t, k), k)
<1>1. \A mode : mode \notin Texts => Handled(t, Become(t, mode), k)
    BY Plainly, ModeLeads, Returns, Zenon DEF Become
<1>2. /\ Handled(t, Become(t, "IN_TABLE"), k) /\ Handled(t, Become(t, "IN_COLUMN_GROUP"), k)
      /\ Handled(t, Become(t, "IN_TABLE_BODY"), k) /\ Handled(t, Become(t, "IN_ROW"), k)
      /\ Handled(t, Become(t, "IN_BODY"), k)
    BY <1>1, OtherModes, Zenon
<1>3. QED
    BY <1>2, TemplateEofHandled, Plainly, Zenon DEF InTemplate

-----------------------------------------------------------------------------
(* The texts of a table. *)

(* The texts collected have names, each one of its own. *)
Kept(t) ==
    /\ IsList(t.list)
    /\ \A i \in DOMAIN t.list : "id" \in DOMAIN t.list[i]
    /\ \A i, j \in DOMAIN t.list : i # j => t.list[i].id # t.list[j].id

(* The names of the first i of them. *)
Ids(t, i) == {t.list[j].id : j \in 1 .. i}

\* Texts that are all space go where they were found.
LEMMA SpacesGive ==
    ASSUME NEW t, IsTree(t), Kept(t), NEW v, Gives(t, v, {})
    PROVE  Gives(t, Turns(LAMBDA u, i : InsertText(u, t.list[i]), v, Len(t.list)), Ids(t, Len(t.list)))
<1>. DEFINE Step(m, k) == InsertText(m, t.list[k])
            Runs(f, l) == f = [i \in 0 .. l |-> IF i = 0 THEN v ELSE Step(f[i - 1], i)]
            c == Len(t.list)
            S(m, l) == Gives(t, m, Ids(t, l))
<1>1. c \in Nat /\ DOMAIN t.list = 1 .. c
    BY LenProperties DEF Kept, IsList
<1>2. ASSUME NEW l \in Nat, l < c, NEW m, S(m, l) PROVE S(Step(m, l + 1), l + 1)
  <2>1. l + 1 \in DOMAIN t.list
    BY <1>1, <1>2
  <2>2. IsTree(m)
    BY <1>2 DEF Gives
  <2>3. Gives(m, Step(m, l + 1), {t.list[l + 1].id})
    BY <2>2, GivesNone, TextGives, Zenon
  <2>4. t.list[l + 1].id \notin Ids(t, l) /\ Ids(t, l + 1) = Ids(t, l) \cup {t.list[l + 1].id}
    BY <1>1, <1>2 DEF Kept, Ids
  <2> HIDE DEF Step
  <2>5. QED
    BY <1>2, <2>3, <2>4 DEF Gives
<1>3. S(v, 0)
    BY GivesLess, Zenon
<1> HIDE DEF S, Step
<1>4. \A l \in Nat : \E f : Runs(f, l)
  <2>. DEFINE T == {l \in Nat : \E f : Runs(f, l)}
  <2>1. 0 \in T
    <3>1. Runs([i \in 0 .. 0 |-> v], 0)
      OBVIOUS
    <3>2. QED
      BY <3>1
  <2>2. ASSUME NEW l \in Nat, l \in T PROVE l + 1 \in T
    <3>1. PICK f : Runs(f, l)
      BY <2>2
    <3>2. \E g : Runs(g, l + 1)
      <4>1. Runs([i \in 0 .. l + 1 |-> IF i = l + 1 THEN Step(f[l], l + 1) ELSE f[i]], l + 1)
        BY <3>1
      <4>2. QED
        BY <4>1, Zenon
    <3> HIDE DEF Runs
    <3>3. QED
      BY <3>2
  <2> HIDE DEF T
  <2>3. Nat \subseteq T
    BY <2>1, <2>2, AllNumbers
  <2>4. QED
    BY <2>3 DEF T
<1>5. ASSUME NEW f, Runs(f, c) PROVE S(f[c], c)
  <2>. DEFINE T == {i \in Nat : i <= c => S(f[i], i)}
  <2>1. 0 \in T
    BY <1>1, <1>3, <1>5
  <2>2. ASSUME NEW i \in Nat, i \in T PROVE i + 1 \in T
    BY <1>1, <1>2, <1>5, <2>2
  <2> HIDE DEF T
  <2>3. Nat \subseteq T
    BY <2>1, <2>2, AllNumbers
  <2>4. QED
    BY <1>1, <2>3 DEF T
<1>. DEFINE after == CHOOSE f : Runs(f, c)
            result == Turns(LAMBDA u, i : InsertText(u, t.list[i]), v, Len(t.list))
<1>6. Runs(after, c)
    BY <1>1, <1>4, Zenon
<1>7. S(after[c], c)
    BY <1>5, <1>6, Zenon
<1>8. result = after[c]
    BY <1>1, Zenon DEF Turns, Step
<1>9. QED
    BY <1>7, <1>8 DEF S

\* Other texts go in front of the table.
LEMMA TextsGive ==
    ASSUME NEW t, IsTree(t), Kept(t), NEW v, Gives(t, v, {})
    PROVE  Gives(t, Turns(LAMBDA u, i : BodyText(u, t.list[i]), v, Len(t.list)), Ids(t, Len(t.list)))
<1>. DEFINE Step(m, k) == BodyText(m, t.list[k])
            Runs(f, l) == f = [i \in 0 .. l |-> IF i = 0 THEN v ELSE Step(f[i - 1], i)]
            c == Len(t.list)
            S(m, l) == Gives(t, m, Ids(t, l))
<1>1. c \in Nat /\ DOMAIN t.list = 1 .. c
    BY LenProperties DEF Kept, IsList
<1>2. ASSUME NEW l \in Nat, l < c, NEW m, S(m, l) PROVE S(Step(m, l + 1), l + 1)
  <2>1. l + 1 \in DOMAIN t.list
    BY <1>1, <1>2
  <2>2. IsTree(m)
    BY <1>2 DEF Gives
  <2>3. Gives(m, Step(m, l + 1), {t.list[l + 1].id})
    BY <2>1, <2>2, GivesNone, BodyTextGives, Zenon DEF Kept
  <2>4. t.list[l + 1].id \notin Ids(t, l) /\ Ids(t, l + 1) = Ids(t, l) \cup {t.list[l + 1].id}
    BY <1>1, <1>2 DEF Kept, Ids
  <2> HIDE DEF Step
  <2>5. QED
    BY <1>2, <2>3, <2>4 DEF Gives
<1>3. S(v, 0)
    BY GivesLess, Zenon
<1> HIDE DEF S, Step
<1>4. \A l \in Nat : \E f : Runs(f, l)
  <2>. DEFINE T == {l \in Nat : \E f : Runs(f, l)}
  <2>1. 0 \in T
    <3>1. Runs([i \in 0 .. 0 |-> v], 0)
      OBVIOUS
    <3>2. QED
      BY <3>1
  <2>2. ASSUME NEW l \in Nat, l \in T PROVE l + 1 \in T
    <3>1. PICK f : Runs(f, l)
      BY <2>2
    <3>2. \E g : Runs(g, l + 1)
      <4>1. Runs([i \in 0 .. l + 1 |-> IF i = l + 1 THEN Step(f[l], l + 1) ELSE f[i]], l + 1)
        BY <3>1
      <4>2. QED
        BY <4>1, Zenon
    <3> HIDE DEF Runs
    <3>3. QED
      BY <3>2
  <2> HIDE DEF T
  <2>3. Nat \subseteq T
    BY <2>1, <2>2, AllNumbers
  <2>4. QED
    BY <2>3 DEF T
<1>5. ASSUME NEW f, Runs(f, c) PROVE S(f[c], c)
  <2>. DEFINE T == {i \in Nat : i <= c => S(f[i], i)}
  <2>1. 0 \in T
    BY <1>1, <1>3, <1>5
  <2>2. ASSUME NEW i \in Nat, i \in T PROVE i + 1 \in T
    BY <1>1, <1>2, <1>5, <2>2
  <2> HIDE DEF T
  <2>3. Nat \subseteq T
    BY <2>1, <2>2, AllNumbers
  <2>4. QED
    BY <1>1, <2>3 DEF T
<1>. DEFINE after == CHOOSE f : Runs(f, c)
            result == Turns(LAMBDA u, i : BodyText(u, t.list[i]), v, Len(t.list))
<1>6. Runs(after, c)
    BY <1>1, <1>4, Zenon
<1>7. S(after[c], c)
    BY <1>5, <1>6, Zenon
<1>8. result = after[c]
    BY <1>1, Zenon DEF Turns, Step
<1>9. QED
    BY <1>7, <1>8 DEF S

(* The tokens that nodes have, and those that are kept for nodes, are older *)
(* than b, and no token is both.                                           *)
Clean(t, b) ==
    /\ IsTree(t) /\ Unique(t)
    /\ \A i \in Owned(t) : i \in Nat /\ i < b
    /\ t.orig # Collects /\ IsList(t.modes) /\ Collects \notin Range(t.modes)
    /\ t.mode = Collects =>
         /\ Kept(t)
         /\ \A i \in DOMAIN t.list : /\ t.list[i].id \in Nat /\ t.list[i].id < b
                                     /\ t.list[i].id \notin Owned(t)

(* Token i is at hand: a node has it only when there is no further turn and *)
(* no further handler.                                                     *)
Stage(t, i) ==
    /\ "id" \in DOMAIN t.token /\ t.token.id = i
    /\ Clean(t, i + 1)
    /\ t.again => Clean(t, i)
    /\ t.rules # "none" => Clean(t, i) /\ Calm(t)

(* Token k is at hand: the handlers so far have asked for no raw text, or   *)
(* the one that has asked is the last.                                     *)
Heard(t, k) ==
    /\ DOMAIN t.token = DOMAIN k
    /\ Plain(t) \/ (Raw(t) /\ k.tag \notin Markup)

\* No text is kept.
LEMMA NoneKept == IsList(<<>>) /\ DOMAIN <<>> = {}
<1>1. <<>> \in Seq({}) /\ DOMAIN <<>> = {}
    BY EmptySeq
<1>2. QED
    BY <1>1, ListOf

\* Nothing or the token at hand is given to nodes.
LEMMA GivesClean ==
    ASSUME NEW i \in Nat, NEW t, Clean(t, i), NEW u
    PROVE  /\ Clean(t, i + 1)
           /\ Gives(t, u, {}) => Clean(u, i)
           /\ Gives(t, u, {i}) => Clean(u, i + 1)
           /\ Owns(t, u, {}) /\ Settled(u) => Clean(u, i)
           /\ Owns(t, u, {i}) /\ Settled(u) => Clean(u, i + 1)
<1>1. Clean(t, i + 1)
    BY DEF Clean
<1>2. \A b \in Nat : /\ Gives(t, u, {}) /\ Clean(t, b) => Clean(u, b)
                     /\ Owns(t, u, {}) /\ Settled(u) /\ Clean(t, b) => Clean(u, b)
  <2>1. TAKE b \in Nat
  <2>2. ASSUME Gives(t, u, {}), Clean(t, b) PROVE Clean(u, b)
    BY <2>2 DEF Gives, Clean, Kept
  <2>3. ASSUME Owns(t, u, {}), Settled(u), Clean(t, b) PROVE Clean(u, b)
    <3>1. u.mode = Collects => Kept(u) /\ DOMAIN u.list = {}
      BY <2>3, NoneKept DEF Settled, Kept
    <3>2. QED
      BY <2>3, <3>1 DEF Owns, Clean, Settled
  <2>4. QED
    BY <2>2, <2>3
<1>3. ASSUME Gives(t, u, {i}) PROVE Clean(u, i + 1)
  <2>1. {i} \cap Owned(t) = {}
    BY DEF Clean
  <2>2. QED
    BY <1>3, <2>1 DEF Gives, Clean, Kept
<1>4. ASSUME Owns(t, u, {i}), Settled(u) PROVE Clean(u, i + 1)
  <2>1. {i} \cap Owned(t) = {}
    BY DEF Clean
  <2>2. u.mode = Collects => Kept(u) /\ DOMAIN u.list = {}
    BY <1>4, NoneKept DEF Settled, Kept
  <2>3. QED
    BY <1>4, <2>1, <2>2 DEF Owns, Clean, Settled
<1>5. QED
    BY <1>1, <1>2, <1>3, <1>4

\* What a handler has made of a token that no node has.
LEMMA HandledStage ==
    ASSUME NEW i \in Nat, NEW t, Clean(t, i), Calm(t), NEW u,
           "id" \in DOMAIN t.token, t.token.id = i, NEW k, k.id = i, Handled(t, u, k)
    PROVE  Stage(u, i) /\ (Heard(t, k) /\ t.rules # "none" => Heard(u, k))
<1>1. Settled(u)
    BY DEF Handled, Settled, Calm
<1>2. Clean(u, i + 1)
    BY <1>1, GivesClean DEF Handled
<1>3. u.again \/ u.rules # "none" => Clean(u, i)
    BY <1>1, GivesClean DEF Handled
<1>4. "id" \in DOMAIN u.token /\ u.token.id = i
    BY DEF Handled, Owns
<1>5. Heard(t, k) /\ t.rules # "none" => Heard(u, k)
    BY DEF Heard, Handled, Owns, Raw
<1>6. QED
    BY <1>2, <1>3, <1>4, <1>5 DEF Stage, Handled

\* The mode in_table_text.
LEMMA InTableTextStage ==
    ASSUME NEW i \in Nat, NEW t, Clean(t, i), t.mode = Collects,
           NEW k, Ready(t, k), t.token.id = i, k.id = i
    PROVE  Stage(InTableText(t, k), i) /\ (Plain(t) /\ DOMAIN t.token = DOMAIN k => Heard(InTableText(t, k), k))
<1>. DEFINE Good(w) == Stage(w, i) /\ (Plain(t) /\ DOMAIN t.token = DOMAIN k => Heard(w, k))
<1>1. Gives(t, t, {}) /\ Kept(t) /\ IsTree(t)
    BY Plainly DEF Clean
<1>2. ASSUME NEW u, Gives(t, u, Ids(t, Len(t.list))) PROVE Good(Again(SetMode(u, t.orig)))
  <2>1. Len(t.list) \in Nat /\ DOMAIN t.list = 1 .. Len(t.list)
    BY <1>1, LenProperties DEF Kept, IsList
  <2>2. /\ Ids(t, Len(t.list)) \cap Owned(t) = {}
        /\ \A j \in Ids(t, Len(t.list)) : j \in Nat /\ j < i
    BY <2>1 DEF Ids, Clean
  <2>3. PICK w : w = Again(SetMode(u, t.orig))
    OBVIOUS
  <2>4. /\ IsTree(w) /\ w.nodes = u.nodes /\ w.token = u.token /\ w.modes = u.modes
        /\ w.orig = u.orig /\ w.mode = t.orig /\ w.rules = "none"
        /\ w.builder = u.builder /\ w.fragment = u.fragment
    BY <1>2, <2>3 DEF Again, Result, SetMode, Gives, IsTree
  <2>5. Clean(w, i)
    BY <1>2, <2>2, <2>4 DEF Gives, Clean, Owned, Unique
  <2>6. Clean(w, i + 1)
    BY <2>5, GivesClean
  <2>7. Stage(w, i)
    BY <1>2, <2>4, <2>5, <2>6 DEF Stage, Gives, Ready
  <2>8. Plain(t) /\ DOMAIN t.token = DOMAIN k => Heard(w, k)
    BY <1>2, <2>4 DEF Heard, Plain, NoWayBack, Gives
  <2>9. QED
    BY <2>3, <2>7, <2>8
<1>3. Good(Done(t))
  <2>1. Gives(t, Done(t), {}) /\ Done(t).rules = "none" /\ Done(t).again = FALSE
    BY <1>1, NoteGives DEF Done, Result, IsTree
  <2>2. Stage(Done(t), i)
    BY <1>1, <2>1, GivesClean DEF Stage, Gives, Ready
  <2>3. Plain(t) /\ DOMAIN t.token = DOMAIN k => Heard(Done(t), k)
    BY <2>1 DEF Heard, Plain, NoWayBack, Gives
  <2>4. QED
    BY <2>2, <2>3
<1>4. ASSUME NEW text, "id" \in DOMAIN text, text.id = i
      PROVE  Good(Done([t EXCEPT !.list = Append(@, text)]))
  <2>1. PICK w : w = Done([t EXCEPT !.list = Append(@, text)])
    OBVIOUS
  <2>2. PICK n \in Nat : n = Len(t.list) /\ t.list \in [1 .. n -> Range(t.list)]
    BY <1>1, LenProperties DEF Kept, IsList
  <2>3. PICK l : l = Append(t.list, text)
    OBVIOUS
  <2>4. IsList(l) /\ DOMAIN l = 1 .. n + 1 /\ \A j \in 1 .. n + 1 : l[j] = IF j = n + 1 THEN text ELSE t.list[j]
    <3>1. PICK T : T = Range(t.list) \cup {text}
      OBVIOUS
    <3>2. t.list \in Seq(T) /\ text \in T
      BY <2>2, <3>1, SeqDef
    <3>3. /\ l \in Seq(T) /\ Len(l) = n + 1
          /\ \A j \in 1 .. n : l[j] = t.list[j]
          /\ l[n + 1] = text
      BY <2>2, <2>3, <3>2, AppendProperties
    <3>4. QED
      BY <3>3, ListOf, LenProperties
  <2>5. /\ IsTree(w) /\ w.nodes = t.nodes /\ w.token = t.token /\ w.modes = t.modes /\ w.mode = t.mode
        /\ w.orig = t.orig /\ w.list = l /\ w.rules = "none" /\ w.again = FALSE
        /\ w.builder = t.builder /\ w.fragment = t.fragment
    BY <1>1, <2>1, <2>3 DEF Done, Result, IsTree
  <2>6. \A j \in 1 .. n : /\ t.list[j].id \in Nat /\ t.list[j].id < i /\ t.list[j].id \notin Owned(t)
                          /\ "id" \in DOMAIN t.list[j]
    BY <1>1, <2>2 DEF Clean, Kept
  <2>7. Kept(w)
    <3>1. \A j \in 1 .. n + 1 : "id" \in DOMAIN l[j] /\ (j # n + 1 => l[j].id < i) /\ (j = n + 1 => l[j].id = i)
      BY <1>4, <2>4, <2>6
    <3>2. \A a, b \in 1 .. n : a # b => l[a].id # l[b].id
      <4>1. \A a \in 1 .. n : a \in DOMAIN t.list /\ a \in 1 .. n + 1 /\ a # n + 1 /\ l[a] = t.list[a]
        BY <2>2, <2>4
      <4>2. QED
        BY <1>1, <4>1 DEF Kept
    <3>3. \A a, b \in 1 .. n + 1 : a # b => l[a].id # l[b].id
      <4>1. TAKE a, b \in 1 .. n + 1
      <4>2. CASE a # n + 1 /\ b # n + 1
        BY <3>2, <4>2
      <4>3. CASE a = n + 1
        <5>1. l[a].id = i
          BY <3>1, <4>3
        <5>2. a # b => l[b].id < i
          BY <3>1, <4>3
        <5>3. QED
          BY <5>1, <5>2
      <4>4. CASE b = n + 1
        <5>1. l[b].id = i
          BY <3>1, <4>4
        <5>2. a # b => l[a].id < i
          BY <3>1, <4>4
        <5>3. QED
          BY <5>1, <5>2
      <4>5. QED
        BY <4>2, <4>3, <4>4
    <3>4. QED
      BY <2>4, <2>5, <3>1, <3>3 DEF Kept
  <2>8. Owned(w) = Owned(t) /\ Unique(w) /\ i \notin Owned(t)
    BY <2>5 DEF Owned, Unique, Clean
  <2>9. \A j \in DOMAIN l : l[j].id \in Nat /\ l[j].id < i + 1 /\ l[j].id \notin Owned(w)
    BY <1>4, <2>4, <2>6, <2>8
  <2>10. Clean(w, i + 1)
    BY <2>5, <2>7, <2>8, <2>9 DEF Clean
  <2>11. Stage(w, i)
    BY <2>5, <2>10 DEF Stage, Ready
  <2>12. Plain(t) /\ DOMAIN t.token = DOMAIN k => Heard(w, k)
    BY <2>5 DEF Heard, Plain, NoWayBack
  <2>13. QED
    BY <2>1, <2>11, <2>12
<1> HIDE DEF Good
<1>5. Good(Done([t EXCEPT !.list = Append(@, WithoutNulls(k))]))
    BY <1>4, NullsKeep DEF Ready
<1>6. /\ Gives(t, Turns(LAMBDA u, j : InsertText(u, t.list[j]), t, Len(t.list)), Ids(t, Len(t.list)))
      /\ Gives(t, [Turns(LAMBDA u, j : BodyText(u, t.list[j]), [t EXCEPT !.foster = TRUE], Len(t.list))
                       EXCEPT !.foster = FALSE], Ids(t, Len(t.list)))
  <2>1. Gives(t, [t EXCEPT !.foster = TRUE], {})
    BY <1>1, FieldGives
  <2>2. QED
    BY <1>1, <2>1, SpacesGive, TextsGive, FieldGives, Zenon
<1>7. Good(InTableText(t, k))
    BY <1>2, <1>3, <1>5, <1>6, Zenon DEF InTableText
<1>8. QED
    BY <1>7 DEF Good

-----------------------------------------------------------------------------
(* The handlers: behind the body, framesets, foreign content. *)

\* The modes after_body and after_after_body.
LEMMA AfterBodyHandled ==
    ASSUME NEW t, NEW k, Ready(t, k)
    PROVE  /\ Handled(t, AfterBody(t, k), k)
           /\ Handled(t, AfterAfterBody(t, k), k)
<1>1. /\ Handled(t, Done(SetMode(t, "AFTER_AFTER_BODY")), k)
      /\ Handled(t, Again(SetMode(t, "IN_BODY")), k)
    BY Plainly, TurnsTo, OtherModes, Zenon
<1>2. Handled(t, AfterBody(t, k), k)
    BY <1>1, Plainly, Zenon DEF AfterBody
<1>3. Handled(t, AfterAfterBody(t, k), k)
    BY <1>1, Plainly, Zenon DEF AfterAfterBody
<1>4. QED
    BY <1>2, <1>3

\* A text of which the spaces stay is the same token.
LEMMA FramesetTextGives ==
    ASSUME NEW t, NEW k, Ready(t, k)
    PROVE  Handled(t, Done(FramesetText(t, k)), k)
<1>1. StayOnlySpace(k).id = k.id
    BY DEF StayOnlySpace, Ready
<1>2. Gives(t, InsertText(t, k), {k.id}) /\ Gives(t, InsertText(t, StayOnlySpace(k)), {k.id})
    BY <1>1, Plainly, TextGives
<1>3. /\ Handled(t, Done(InsertText(t, k)), k) /\ Handled(t, Done(t), k)
      /\ Handled(t, Done(InsertText(t, StayOnlySpace(k))), k)
    BY <1>2, Plainly, GivesLeads, Returns, Zenon
<1>4. QED
    BY <1>3, Zenon DEF FramesetText

\* The modes of framesets.
LEMMA FramesetsHandled ==
    ASSUME NEW t, NEW k, Ready(t, k)
    PROVE  /\ Handled(t, InFrameset(t, k), k)
           /\ Handled(t, AfterFrameset(t, k), k)
           /\ Handled(t, AfterAfterFrameset(t, k), k)
<1>1. Handled(t, Done(EndFrameset(t)), k)
  <2>1. Gives(t, Pop(t), {})
    BY Plainly, StackGives, Zenon
  <2>2. Handled(t, Done(SetMode(Pop(t), "AFTER_FRAMESET")), k) /\ Handled(t, Done(Pop(t)), k)
    BY <2>1, TurnsTo, OtherModes, GivesLeads, Returns, Zenon
  <2>3. QED
    BY <2>2, Plainly, Zenon DEF EndFrameset
<1>2. Handled(t, InFrameset(t, k), k)
    BY <1>1, FramesetTextGives, Plainly, Zenon DEF InFrameset
<1>3. Handled(t, Done(SetMode(t, "AFTER_AFTER_FRAMESET")), k)
    BY Plainly, TurnsTo, OtherModes, Zenon
<1>4. Handled(t, AfterFrameset(t, k), k)
    BY <1>3, FramesetTextGives, Plainly, Zenon DEF AfterFrameset
<1>5. Handled(t, Done(AfterFramesetsText(t, k)), k)
  <2>1. PICK u : u = InsertHtml(Reconstruct(CropSpace(t)), SpaceToken(k))
    OBVIOUS
  <2>2. Gives(t, Reconstruct(CropSpace(t)), {})
    BY Plainly, TokenGives, ReconstructGives, Zenon DEF Ready
  <2>3. Gives(t, u, {SpaceToken(k).id})
    BY <2>1, <2>2, InsertGives
  <2>4. SpaceToken(k).id = Copy
    BY DEF SpaceToken, Ready
  <2>5. Gives(t, u, {})
    BY <2>3, <2>4 DEF Gives, Owned, NoToken
  <2>6. Handled(t, Done(u), k)
    BY <2>5, GivesLeads, Returns, Zenon
  <2>7. QED
    BY <2>1, <2>6, Plainly, Zenon DEF AfterFramesetsText
<1>6. Handled(t, AfterAfterFrameset(t, k), k)
    BY <1>5, Plainly, Zenon DEF AfterAfterFrameset
<1>7. QED
    BY <1>2, <1>4, <1>6

\* Foreign content leaves the modes alone: texts may be being collected.
LEMMA ForeignGives ==
    ASSUME NEW t, NEW k, Ready(t, k), NEW u, u = ForeignContent(t, k)
    PROVE  /\ Gives(t, u, {k.id})
           /\ u.again \/ u.rules # "none" => Gives(t, u, {})
           /\ u.rules # "none" => u.rules = t.mode
<1>. DEFINE Good(w) == /\ Gives(t, w, {k.id})
                       /\ w.again \/ w.rules # "none" => Gives(t, w, {})
                       /\ w.rules # "none" => w.rules = t.mode
<1>1. ASSUME NEW w, Gives(t, w, {k.id}) PROVE Good(Done(w))
  <2>1. Gives(t, Done(w), {k.id})
    BY <1>1, NoteGives, Zenon
  <2>2. Done(w).rules = "none" /\ Done(w).again = FALSE
    BY <1>1 DEF Done, Result, Gives, IsTree
  <2>3. QED
    BY <2>1, <2>2
<1>2. ASSUME NEW w, Gives(t, w, {}) PROVE Good(Done(w)) /\ Good(Again(w))
  <2>1. /\ Gives(t, Done(w), {k.id}) /\ Gives(t, Again(w), {k.id})
        /\ Gives(t, Done(w), {}) /\ Gives(t, Again(w), {})
    BY <1>2, NoteGives, GivesLess, Zenon
  <2>2. Done(w).rules = "none" /\ Again(w).rules = "none"
    BY <1>2 DEF Done, Again, Result, Gives, IsTree
  <2>3. QED
    BY <2>1, <2>2
<1>3. Good(Uses(t, t.mode))
  <2>1. Gives(t, Uses(t, t.mode), {k.id}) /\ Gives(t, Uses(t, t.mode), {})
    BY Plainly, NoteGives, GivesLess, Zenon
  <2>2. Uses(t, t.mode).rules = t.mode
    BY DEF Uses, Ready, IsTree
  <2>3. QED
    BY <2>1, <2>2
<1> HIDE DEF Good
<1>4. Good(ForeignEnd(t, k))
  <2>1. \A x : Gives(t, PopUntilNode(t, x), {})
    BY Plainly, StackGives, Zenon
  <2>2. \A x : Good(Done(PopUntilNode(t, x)))
    BY <1>2, <2>1, Zenon
  <2>3. QED
    BY <1>3, <2>2, Zenon DEF ForeignEnd
<1>5. Good(Done(ForeignText(t, k)))
  <2>. DEFINE j == [k EXCEPT !.text = NoNulls(@)]
  <2>1. j.id = k.id
    BY DEF Ready
  <2> HIDE DEF j
  <2>2. Gives(t, InsertText(t, k), {k.id}) /\ Gives(t, InsertText(t, j), {k.id})
    BY <2>1, Plainly, TextGives
  <2>3. \A ok : /\ Gives(t, FramesetUnless(InsertText(t, k), ok), {k.id})
                /\ Gives(t, FramesetUnless(InsertText(t, j), ok), {k.id})
    BY <2>2, EndGives, Zenon
  <2>4. Gives(t, ForeignText(t, k), {k.id})
    BY <2>3, Zenon DEF ForeignText, j
  <2>5. QED
    BY <1>1, <2>4, Zenon
<1>6. \A parent : Good(Done(InsertComment(t, k, parent)))
    BY <1>1, Plainly, InsertGives, Zenon
<1>7. Good(Done(t))
    BY <1>2, Plainly, Zenon
<1>8. Good(Again(LeaveForeign(t)))
  <2>1. Gives(t, LeaveForeign(t), {})
    <3>. DEFINE I == {j \in 1 .. Len(t.open) - 1 :
                        IsPoint(t.nodes[t.open[j]]) \/ t.nodes[t.open[j]].ns = "html"}
                l == IF I # {} THEN Max(I) ELSE 0
    <3>1. LeaveForeign(t) = [t EXCEPT !.open = SubSeq(@, 1, l)]
      BY DEF LeaveForeign, SelectLastInSubSeq
    <3>2. IsList(t.open) /\ Len(t.open) \in Nat
      BY PlaceIn DEF Ready, IsTree
    <3>3. I \in SUBSET (1 .. Len(t.open))
      BY <3>2
    <3> HIDE DEF I
    <3>4. l \in Int
      BY <3>2, <3>3, PlaceIn
    <3> HIDE DEF l
    <3>5. IsList(SubSeq(t.open, 1, l))
      BY <3>2, <3>4, ListParts
    <3>6. PICK x : x = SubSeq(t.open, 1, l)
      OBVIOUS
    <3>7. Gives(t, [t EXCEPT !.open = x], {})
      BY <3>5, <3>6, Plainly, FieldGives
    <3>8. QED
      BY <3>1, <3>6, <3>7
  <2>2. QED
    BY <1>2, <2>1, Zenon
<1>9. Good(ForeignStart(t, k))
  <2>1. \A ns : Gives(t, InsertElement(t, k, ns), {k.id}) /\ Gives(t, Pop(InsertElement(t, k, ns)), {k.id})
    BY Plainly, InsertGives, StackGives, Zenon
  <2>2. \A ns : Good(Done(InsertElement(t, k, ns))) /\ Good(Done(Pop(InsertElement(t, k, ns))))
    BY <1>1, <2>1, Zenon
  <2>3. QED
    BY <2>2, Zenon DEF ForeignStart
<1>10. Good(ForeignContent(t, k))
    BY <1>4, <1>5, <1>6, <1>7, <1>8, <1>9, Zenon DEF ForeignContent
<1>11. QED
    BY <1>10 DEF Good

-----------------------------------------------------------------------------
(* A turn of the dispatcher. *)

\* Foreign content, or nothing: what is used next are the rules of the mode.
LEMMA ForeignStage ==
    ASSUME NEW i \in Nat, NEW t, Clean(t, i), "id" \in DOMAIN t.token, t.token.id = i,
           t.rules \in {t.mode, "FOREIGN"}, NEW k, Ready(t, k), k.id = i,
           NEW u, u = ForeignRules(t, k)
    PROVE  /\ "id" \in DOMAIN u.token /\ u.token.id = i
           /\ Clean(u, i + 1)
           /\ u.again => Clean(u, i)
           /\ u.rules # "none" => Clean(u, i) /\ u.rules = u.mode
           /\ Plain(t) /\ DOMAIN t.token = DOMAIN k => Plain(u) /\ DOMAIN u.token = DOMAIN k
<1>1. CASE t.rules = "FOREIGN"
  <2>1. /\ Gives(t, u, {k.id})
        /\ u.again \/ u.rules # "none" => Gives(t, u, {})
        /\ u.rules # "none" => u.rules = t.mode
    BY <1>1, ForeignGives DEF ForeignRules
  <2>2. Plain(t) /\ DOMAIN t.token = DOMAIN k => Plain(u) /\ DOMAIN u.token = DOMAIN k
    BY <2>1 DEF Gives, Plain, NoWayBack
  <2>3. QED
    BY <2>1, <2>2, GivesClean DEF Gives
<1>2. CASE t.rules # "FOREIGN"
    BY <1>2, GivesClean DEF ForeignRules
<1>3. QED
    BY <1>1, <1>2

\* The rules of the mode.
LEMMA ModeStage ==
    ASSUME NEW i \in Nat, NEW t, "id" \in DOMAIN t.token, t.token.id = i,
           Clean(t, i + 1), t.again => Clean(t, i),
           t.rules # "none" => Clean(t, i) /\ t.rules = t.mode,
           NEW k, "id" \in DOMAIN k, k.id = i
    PROVE  /\ Stage(ModeRules(t, k), i)
           /\ Heard(t, k) => Heard(ModeRules(t, k), k)
<1>1. CASE t.rules = "none"
    BY <1>1 DEF Stage, ModeRules
<1>2. CASE t.rules = Collects
  <2>1. Clean(t, i) /\ t.mode = Collects /\ Ready(t, k)
    BY <1>2 DEF Collects, Ready, Clean
  <2>2. ModeRules(t, k) = InTableText(t, k)
    BY <1>2 DEF ModeRules, Collects
  <2>3. Heard(t, k) => Plain(t) /\ DOMAIN t.token = DOMAIN k
    BY <1>2 DEF Heard, Raw, Collects
  <2>4. QED
    BY <2>1, <2>2, <2>3, InTableTextStage
<1>3. CASE t.rules # "none" /\ t.rules # Collects
  <2>1. Clean(t, i) /\ Calm(t) /\ Ready(t, k)
    BY <1>3 DEF Clean, Calm, Ready
  <2>2. Handled(t, t, k)
    BY <1>3, <2>1, Plainly, GivesLess DEF Handled, Gives, Owns, Ready
  <2>3. /\ Handled(t, Initial(t, k), k) /\ Handled(t, BeforeHtml(t, k), k)
        /\ Handled(t, BeforeHead(t, k), k) /\ Handled(t, InHeadNoscript(t, k), k)
        /\ Handled(t, AfterHead(t, k), k) /\ Handled(t, Text(t, k), k)
    BY <2>1, InitialHandled, BeforeHtmlHandled, BeforeHeadHandled, InHeadNoscriptHandled,
       AfterHeadHandled, TextHandled, Zenon
  <2>4. /\ Handled(t, InCaption(t, k), k) /\ Handled(t, InColumnGroup(t, k), k)
        /\ Handled(t, InTableBody(t, k), k) /\ Handled(t, InRow(t, k), k)
        /\ Handled(t, InCell(t, k), k) /\ Handled(t, InSelectInTable(t, k), k)
        /\ Handled(t, InTemplate(t, k), k)
    BY <2>1, InCaptionHandled, InColumnGroupHandled, InTableBodyHandled, InRowHandled,
       InCellHandled, InSelectInTableHandled, InTemplateHandled, Zenon
  <2>5. /\ Handled(t, AfterBody(t, k), k) /\ Handled(t, InFrameset(t, k), k)
        /\ Handled(t, AfterFrameset(t, k), k) /\ Handled(t, AfterAfterBody(t, k), k)
        /\ Handled(t, AfterAfterFrameset(t, k), k)
    BY <2>1, AfterBodyHandled, FramesetsHandled, Zenon
  <2>6. Handled(t, ModeRules(t, k), k)
    BY <1>3, <2>2, <2>3, <2>4, <2>5, Zenon DEF ModeRules, Collects
  <2>7. QED
    BY <1>3, <2>1, <2>6, HandledStage
<1>4. QED
    BY <1>1, <1>2, <1>3

\* The rules that other modes go on to use, each in its place.
LEMMA UsedStage ==
    ASSUME NEW i \in Nat, NEW t, Stage(t, i), NEW k, "id" \in DOMAIN k, k.id = i
    PROVE  /\ Stage(TableRules(t, k), i) /\ Stage(SelectRules(t, k), i)
           /\ Stage(BodyRules(t, k), i) /\ Stage(HeadRules(t, k), i)
           /\ Stage(FosterEnds(t), i)
           /\ Heard(t, k) => /\ Heard(TableRules(t, k), k) /\ Heard(SelectRules(t, k), k)
                             /\ Heard(BodyRules(t, k), k) /\ Heard(HeadRules(t, k), k)
                             /\ Heard(FosterEnds(t), k)
<1>. DEFINE Good(u) == Stage(u, i) /\ (Heard(t, k) => Heard(u, k))
<1>0. Good(t)
    OBVIOUS
<1>1. ASSUME t.rules # "none", NEW u, Handled(t, u, k) PROVE Good(u)
    BY <1>1, HandledStage DEF Stage
<1>2. t.rules # "none" => Ready(t, k)
    BY DEF Stage, Clean, Ready
<1>3. /\ "IN_TABLE" # "none" /\ "IN_SELECT" # "none" /\ "IN_BODY" # "none" /\ "IN_HEAD" # "none"
    OBVIOUS
<1> HIDE DEF Good
<1>4. Good(TableRules(t, k)) /\ Good(SelectRules(t, k))
    BY <1>0, <1>1, <1>2, <1>3, InTableHandled, InSelectHandled, Zenon DEF TableRules, SelectRules
<1>5. Good(BodyRules(t, k)) /\ Good(HeadRules(t, k))
    BY <1>0, <1>1, <1>2, <1>3, InBodyHandled, InHeadHandled, Zenon DEF BodyRules, HeadRules
<1>6. Good(Done([t EXCEPT !.foster = FALSE]))
  <2>1. PICK u : u = Done([t EXCEPT !.foster = FALSE])
    OBVIOUS
  <2>2. IsTree(t) /\ Gives(t, t, {})
    BY GivesNone DEF Stage, Clean
  <2>3. Gives(t, u, {})
    BY <2>1, <2>2, FieldGives, NoteGives
  <2>4. u.again = FALSE /\ u.rules = "none"
    BY <2>1, <2>2 DEF Done, Result, IsTree
  <2>5. Clean(u, i + 1)
    <3>1. i + 1 \in Nat /\ Clean(t, i + 1)
      BY DEF Stage
    <3>2. QED
      BY <2>3, <3>1, GivesClean
  <2>6. Stage(u, i)
    BY <2>3, <2>4, <2>5 DEF Stage, Gives
  <2>7. u.open = t.open /\ u.nodes = t.nodes
    BY <2>1, <2>2 DEF Done, Result, IsTree
  <2>8. Heard(t, k) => Heard(u, k)
    BY <2>3, <2>4, <2>7 DEF Heard, Plain, Raw, NoWayBack, OnHtml, Gives
  <2>9. QED
    BY <2>1, <2>6, <2>8 DEF Good
<1>7. Good(FosterEnds(t))
    BY <1>0, <1>6, Zenon DEF FosterEnds
<1>8. QED
    BY <1>4, <1>5, <1>7 DEF Good

\* What the dispatcher does before: a line feed goes, the builder wants data.
LEMMA PreparedIs ==
    ASSUME NEW i \in Nat, NEW t, Clean(t, i), "id" \in DOMAIN t.token, t.token.id = i,
           NEW rules, NEW u, u = Uses(Prepared(t), rules), NEW k, k = Prepared(t).token
    PROVE  /\ Clean(u, i) /\ u.rules = rules /\ u.mode = t.mode /\ u.orig = t.orig
           /\ u.builder = "DATA" /\ (NoWayBack(t) => NoWayBack(u))
           /\ u.open = t.open /\ u.nodes = t.nodes
           /\ u.token = k /\ "id" \in DOMAIN k /\ k.id = i
           /\ DOMAIN k = DOMAIN t.token
           /\ "tag" \in DOMAIN k => k.tag = t.token.tag
           /\ "close" \in DOMAIN k => k.close = t.token.close
<1>1. Gives(t, t, {})
    BY GivesNone DEF Clean
<1>2. \A v : Gives(t, [t EXCEPT !.token.text = v], {})
    BY <1>1, TokenGives, Zenon
<1>3. PICK a : a = AfterNewline(t)
    OBVIOUS
<1>4. Gives(t, a, {})
    BY <1>1, <1>2, <1>3, FieldGives, Zenon DEF AfterNewline
<1>5. /\ a.open = t.open /\ a.nodes = t.nodes
      /\ "tag" \in DOMAIN t.token => a.token.tag = t.token.tag
      /\ "close" \in DOMAIN t.token => a.token.close = t.token.close
    BY <1>3 DEF AfterNewline, Clean, IsTree
<1>6. Clean(a, i)
    BY <1>4, GivesClean
<1>7. /\ IsTree(u) /\ u.nodes = a.nodes /\ u.mode = a.mode /\ u.orig = a.orig /\ u.modes = a.modes
      /\ u.list = a.list /\ u.token = a.token /\ u.open = a.open /\ u.fragment = a.fragment
      /\ u.builder = "DATA" /\ u.rules = rules /\ k = a.token
    BY <1>3, <1>4 DEF Prepared, Uses, Gives, IsTree
<1>8. Clean(u, i)
    BY <1>6, <1>7 DEF Clean, Owned, Unique, Kept
<1>9. NoWayBack(t) => NoWayBack(u)
    BY <1>4, <1>7 DEF NoWayBack, Gives
<1>10. QED
    BY <1>4, <1>5, <1>7, <1>8, <1>9 DEF Gives

\* All the handlers one after another.
LEMMA TurnStage ==
    ASSUME NEW i \in Nat, NEW t, Clean(t, i), "id" \in DOMAIN t.token, t.token.id = i,
           NEW k, k = Prepared(t).token
    PROVE  /\ Stage(Dispatched(t), i)
           /\ NoWayBack(t) /\ t.mode # "TEXT" => Heard(Dispatched(t), k)
<1>. DEFINE rules == IF HtmlRules(t, t.token) THEN t.mode ELSE "FOREIGN"
<1>1. PICK u : u = Uses(Prepared(t), rules)
    OBVIOUS
<1>2. /\ Clean(u, i) /\ u.rules \in {u.mode, "FOREIGN"} /\ Ready(u, k)
      /\ u.token = k /\ "id" \in DOMAIN k /\ k.id = i
      /\ NoWayBack(t) /\ t.mode # "TEXT" => Plain(u)
    BY <1>1, PreparedIs DEF Ready, Clean, Plain
<1>3. Dispatched(t) = InsertionFunc(u, k)
    BY <1>1, Zenon DEF Dispatched
<1> HIDE DEF rules
<1>4. PICK f : f = ForeignRules(u, k)
    OBVIOUS
<1>5. /\ Stage(ModeRules(f, k), i)
      /\ NoWayBack(t) /\ t.mode # "TEXT" => Heard(ModeRules(f, k), k)
  <2>1. /\ "id" \in DOMAIN f.token /\ f.token.id = i
        /\ Clean(f, i + 1)
        /\ f.again => Clean(f, i)
        /\ f.rules # "none" => Clean(f, i) /\ f.rules = f.mode
        /\ NoWayBack(t) /\ t.mode # "TEXT" => Plain(f) /\ DOMAIN f.token = DOMAIN k
    BY <1>2, <1>4, ForeignStage
  <2>2. NoWayBack(t) /\ t.mode # "TEXT" => Heard(f, k)
    BY <2>1 DEF Heard
  <2>3. QED
    BY <1>2, <2>1, <2>2, ModeStage
<1>6. /\ Stage(InsertionFunc(u, k), i)
      /\ NoWayBack(t) /\ t.mode # "TEXT" => Heard(InsertionFunc(u, k), k)
    BY <1>2, <1>4, <1>5, UsedStage, Zenon DEF InsertionFunc
<1>7. QED
    BY <1>3, <1>6

-----------------------------------------------------------------------------
(* The state. *)

(* What of the state this rests on: the nodes have the tokens made so far, *)
(* but for the one at hand.                                                *)
TokenInv ==
    /\ source.size \in Nat /\ fed \in Nat
    /\ tree.token = Null => Clean(tree, fed + 1)
    /\ tree.token # Null => /\ "id" \in DOMAIN tree.token
                            /\ tree.token.id \in Nat /\ tree.token.id <= fed
                            /\ Clean(tree, tree.token.id)

\* An older token is older.
LEMMA CleanLater ==
    ASSUME NEW t, NEW b \in Nat, NEW c \in Nat, b <= c, Clean(t, b)
    PROVE  Clean(t, c) /\ \A v : Clean([t EXCEPT !.token = v], c)
BY DEF Clean, IsTree, Owned, Unique, Kept

\* The tree there is before there is a token.
LEMMA FirstTree ==
    ASSUME NEW c
    PROVE  /\ EmptyTree.token = Null /\ FragmentTree(c).token = Null
           /\ Clean(EmptyTree, 1) /\ Clean(FragmentTree(c), 1)
<1>1. PICK e : e = [EmptyTree EXCEPT !.fragment = c]
    OBVIOUS
<1>2. /\ IsNodes(EmptyTree.nodes) /\ DOMAIN EmptyTree.nodes = {1}
      /\ EmptyTree.nodes[1].token = Null
    <2>1. PICK node : node = NodeOf("_DOCUMENT", "html", Null, {}, <<>>)
      OBVIOUS
    <2>2. /\ {"token", "ns"} \subseteq DOMAIN node /\ node.token = Null
          /\ EmptyTree.nodes = <<node>>
      BY <2>1 DEF NodeOf, EmptyTree
    <2>3. <<node>> \in Seq({node}) /\ DOMAIN <<node>> = {1} /\ <<node>>[1] = node
      OBVIOUS
    <2>4. QED
      BY <2>2, <2>3, ListOf DEF IsNodes
<1>3. /\ IsTree(EmptyTree) /\ Owned(EmptyTree) = {} /\ Unique(EmptyTree)
      /\ IsTree(e) /\ Owned(e) = {} /\ Unique(e)
      /\ e.token = Null /\ EmptyTree.token = Null
  <2>1. EmptyTree.open = <<>> /\ IsList(EmptyTree.open)
    BY NoneKept DEF EmptyTree
  <2>2. IsTree(EmptyTree)
    BY <1>2, <2>1 DEF IsTree, EmptyTree
  <2>3. e.nodes = EmptyTree.nodes /\ e.open = EmptyTree.open
    BY <1>1 DEF EmptyTree
  <2>4. IsTree(e)
    BY <1>1, <1>2, <2>1, <2>3 DEF IsTree, EmptyTree
  <2>5. e.token = Null /\ EmptyTree.token = Null
    BY <1>1 DEF EmptyTree
  <2>6. QED
    BY <1>2, <2>2, <2>3, <2>4, <2>5 DEF Owned, Unique, NoToken
<1>4. Calm(EmptyTree) /\ Calm(e)
  <2>1. EmptyTree.modes = <<>> /\ e.modes = <<>>
    BY <1>1 DEF EmptyTree
  <2>2. IsList(<<>>) /\ Range(<<>>) = {}
    BY NoneKept DEF Range
  <2>3. QED
    BY <1>1, <2>1, <2>2 DEF Calm, EmptyTree, Collects
<1>5. Clean(EmptyTree, 1) /\ Clean(e, 1)
    BY <1>3, <1>4 DEF Clean, Calm
<1>6. PICK r : r = InsertRoot(e, NodeOf("html", "html", Null, {}, <<>>))
    OBVIOUS
<1>7. Leads(e, r, {})
  <2>1. Null \in NoToken /\ Gives(e, e, {})
    BY <1>3, GivesNone DEF NoToken
  <2>2. Gives(e, r, {})
    BY <1>6, <2>1, RootGives
  <2>3. QED
    BY <2>2, GivesLeads
<1>8. PICK p : p = IF c.tag = "template" THEN PushMode(r, "IN_TEMPLATE") ELSE r
    OBVIOUS
<1>9. Leads(e, p, {})
    BY <1>7, <1>8, ModeLeads, OtherModes
<1>10. FragmentTree(c) = ResetMode(p)
    BY <1>1, <1>6, <1>8, Zenon DEF FragmentTree
<1>11. Leads(e, ResetMode(p), {})
    BY <1>9, ModeLeads, Zenon
<1>12. Clean(FragmentTree(c), 1)
  <2>1. Owns(e, ResetMode(p), {}) /\ Settled(ResetMode(p))
    BY <1>4, <1>11 DEF Leads, Calm, Settled
  <2>2. QED
    BY <1>5, <1>10, <2>1, GivesClean
<1>13. FragmentTree(c).token = Null
  <2>1. "token" \in DOMAIN r /\ r.token = Null
    BY <1>1, <1>3, <1>6 DEF InsertRoot, Push, CreateAt, Link, Create, EmptyTree
  <2>2. "token" \in DOMAIN p /\ p.token = Null
    BY <1>8, <2>1 DEF PushMode
  <2>3. QED
    BY <1>10, <2>2 DEF ResetMode
<1>14. QED
    BY <1>3, <1>5, <1>12, <1>13

\* What is left of the token at hand when a turn is through.
LEMMA AfterTurn ==
    ASSUME NEW i \in Nat, NEW t, Stage(t, i), fed \in Nat, i <= fed, source.size \in Nat,
           tree' = After(t), UNCHANGED <<source, fed>>
    PROVE  TokenInv'
<1>1. CASE t.again
  <2>1. tree' = t /\ tree'.token.id = i /\ "id" \in DOMAIN tree'.token /\ Clean(t, i)
    BY <1>1 DEF After, Stage
  <2>2. Clean(t, fed + 1)
    BY <2>1, CleanLater
  <2>3. QED
    BY <2>1, <2>2 DEF TokenInv
<1>2. CASE ~ t.again
  <2>1. tree' = [t EXCEPT !.token = Null] /\ Clean(t, i + 1)
    BY <1>2 DEF After, Stage
  <2>2. Clean(tree', fed + 1)
    BY <2>1, CleanLater
  <2>3. tree'.token = Null
    BY <2>1 DEF Clean, IsTree
  <2>4. QED
    BY <2>2, <2>3 DEF TokenInv
<1>3. QED
    BY <1>1, <1>2

\* At first there is no token, and no node has one.
LEMMA FirstState ==
    Init => TokenInv
<1>. SUFFICES ASSUME Init PROVE TokenInv
    OBVIOUS
<1>1. source.size \in Nat /\ fed = 0
    BY DocumentsAssumption DEF Init
<1>2. tree.token = Null /\ Clean(tree, 1)
    BY FirstTree, Zenon DEF Init
<1>3. QED
    BY <1>1, <1>2 DEF TokenInv

\* A later number is later by as much.
LEMMA CountsOn == \A a, b \in Nat : a + 1 <= b => a + 1 \in Nat /\ b + 1 \in Nat /\ a + 1 <= b + 1
OBVIOUS

\* The steps keep it.
LEMMA TokenInvStep ==
    TokenInv /\ [Next]_vars => TokenInv'
<1>. SUFFICES ASSUME TokenInv, [Next]_vars PROVE TokenInv'
    OBVIOUS
<1>1. CASE Feed
  <2>1. PICK k : tree' = [tree EXCEPT !.token = Named(Made(k), fed + 1)]
    BY <1>1 DEF Feed
  <2>2. PICK token : token = Named(Made(k), fed + 1)
    OBVIOUS
  <2>3. "id" \in DOMAIN token /\ token.id = fed + 1
    BY <2>2 DEF Named
  <2>4. Clean(tree, fed + 1) /\ fed' \in Nat /\ fed + 1 <= fed' /\ source' = source
    BY <1>1 DEF Feed, TokenInv
  <2>5. tree'.token = token
    BY <2>1, <2>2, <2>4 DEF Clean, IsTree
  <2>6. fed + 1 \in Nat /\ fed' + 1 \in Nat /\ fed + 1 <= fed' + 1 /\ fed \in Nat
    <3>1. fed \in Nat
      BY DEF TokenInv
    <3>2. fed' \in Nat /\ fed + 1 <= fed'
      BY <2>4
    <3>3. QED
      BY <3>1, <3>2, CountsOn, Zenon
  <2>7. Clean(tree', fed + 1) /\ Clean(tree', fed' + 1)
    BY <2>1, <2>4, <2>6, CleanLater
  <2>8. QED
    BY <2>3, <2>4, <2>5, <2>6, <2>7 DEF TokenInv
<1>2. CASE Skip
  <2>. DEFINE i == tree.token.id
  <2>1. i \in Nat /\ i <= fed /\ fed \in Nat /\ Clean(tree, i) /\ "id" \in DOMAIN tree.token
    BY <1>2 DEF Skip, TokenInv
  <2>2. Gives(tree, tree, {})
    BY <2>1, GivesNone DEF Clean
  <2>3. \A v : Gives(tree, [tree EXCEPT !.token.text = v], {})
    BY <2>1, <2>2, TokenGives, Zenon
  <2>4. Gives(tree, AfterNewline(tree), {})
    BY <2>2, <2>3, FieldGives, Zenon DEF AfterNewline
  <2>5. Gives(tree, Done(AfterNewline(tree)), {})
    BY <2>4, NoteGives, Zenon
  <2>6. Done(AfterNewline(tree)).again = FALSE /\ Done(AfterNewline(tree)).rules = "none"
    BY <2>4 DEF Done, Result, Gives, IsTree
  <2> HIDE DEF i
  <2>7. Clean(Done(AfterNewline(tree)), i) /\ Clean(Done(AfterNewline(tree)), i + 1)
    BY <2>1, <2>5, GivesClean
  <2>8. Stage(Done(AfterNewline(tree)), i)
    BY <2>1, <2>5, <2>6, <2>7 DEF Stage, Gives, i
  <2>9. QED
    BY <1>2, <2>1, <2>8, AfterTurn DEF Skip, TokenInv
<1>3. CASE Turn
  <2>1. PICK i : i = tree.token.id
    OBVIOUS
  <2>2. i \in Nat /\ i <= fed /\ fed \in Nat /\ Clean(tree, i) /\ "id" \in DOMAIN tree.token
    BY <1>3, <2>1 DEF Turn, TokenInv
  <2>3. Stage(Dispatched(tree), i)
    BY <2>1, <2>2, TurnStage
  <2>4. tree' = After(Dispatched(tree)) /\ UNCHANGED <<source, fed>>
    BY <1>3 DEF Turn
  <2>5. QED
    BY <2>2, <2>3, <2>4, AfterTurn DEF TokenInv
<1>4. CASE Stop \/ UNCHANGED vars
    BY <1>4 DEF Stop, vars, TokenInv
<1>5. QED
    BY <1>1, <1>2, <1>3, <1>4 DEF Next

\* A token is the token of one node, whatever the documents are: handlers
\* that pass a token on, have it back or make elements out of it never give
\* it to a node more than once, clones have a token of their own, and a text
\* that waits for the end of a table's texts waits once.
THEOREM TokenOfOneNode == Spec => []TokensOwned
<1>1. TokenInv => TokensOwned
    BY DEF TokenInv, Clean, Unique, TokensOwned, Nodes, NoToken
<1>2. QED
    BY <1>1, FirstState, TokenInvStep, PTL DEF Spec

-----------------------------------------------------------------------------
(* The tokenizer and the builder in one thread. *)

(* The token at hand is one of a raw text: its text, or an end tag. *)
OfRawText(k) == IF k.close THEN k.tag \notin Markup ELSE k.tag = "_TEXT"

\* The turn of a token of a raw text: the mode stays for a text, and its end
\* tag leads back to markup.
LEMMA TextTurn ==
    ASSUME NEW i \in Nat, NEW t, Clean(t, i), "id" \in DOMAIN t.token, t.token.id = i,
           {"tag", "close"} \subseteq DOMAIN t.token, OfRawText(t.token),
           t.mode = "TEXT", NoWayBack(t), OnHtml(t),
           NEW w, w = Dispatched(t)
    PROVE  /\ ~ w.again
           /\ IF t.token.close THEN Plain(w) ELSE w.mode = "TEXT" /\ NoWayBack(w) /\ OnHtml(w)
<1>. DEFINE rules == IF HtmlRules(t, t.token) THEN t.mode ELSE "FOREIGN"
<1>1. rules = "TEXT"
  <2>1. AdjustedCurrent(t) = t.nodes[Last(t.open)] /\ t.open # <<>>
    BY DEF AdjustedCurrent, NoWayBack, OnHtml, Current
  <2>2. HtmlRules(t, t.token)
    BY <2>1 DEF HtmlRules, OnHtml
  <2>3. QED
    BY <2>2
<1>2. PICK u : u = Uses(Prepared(t), rules)
    OBVIOUS
<1>3. PICK k : k = Prepared(t).token
    OBVIOUS
<1>4. w = InsertionFunc(u, k)
    BY <1>2, <1>3, Zenon DEF Dispatched
<1> HIDE DEF rules
<1>5. /\ IsTree(u) /\ u.rules = "TEXT" /\ u.mode = "TEXT" /\ u.orig = t.orig
      /\ u.builder = "DATA" /\ NoWayBack(u) /\ u.open = t.open /\ u.nodes = t.nodes
      /\ k.tag = t.token.tag /\ k.close = t.token.close /\ Ready(u, k)
    BY <1>1, <1>2, <1>3, PreparedIs DEF Clean, Ready
<1>6. ForeignRules(u, k) = u /\ ModeRules(u, k) = Text(u, k)
    BY <1>5 DEF ForeignRules, ModeRules
<1>7. PICK v : v = Text(u, k)
    OBVIOUS
<1>8. /\ v.rules = "none" /\ ~ v.again
      /\ IF t.token.close THEN Plain(v) ELSE v.mode = "TEXT" /\ NoWayBack(v) /\ OnHtml(v)
  <2>1. CASE t.token.close
    <3>1. v = Done(SetMode(Pop(u), u.orig))
      BY <1>5, <1>7, <2>1 DEF Text
    <3>2. Gives(u, Pop(u), {})
      BY <1>5, Plainly, StackGives, Zenon
    <3>3. /\ v.rules = "none" /\ ~ v.again /\ v.mode = u.orig /\ v.orig = u.orig
          /\ v.modes = u.modes /\ v.fragment = u.fragment /\ v.builder = u.builder
      BY <3>1, <3>2 DEF Done, Result, SetMode, Gives, IsTree
    <3>4. QED
      BY <1>5, <2>1, <3>3 DEF Plain, NoWayBack
  <2>2. CASE ~ t.token.close
    <3>1. ~ k.close /\ k.tag = "_TEXT"
      BY <1>5, <2>2 DEF OfRawText
    <3>2. PICK r : r = InsertText(u, k)
      OBVIOUS
    <3>3. v = Done(r)
      BY <1>7, <3>1, <3>2 DEF Text
    <3>4. OnHtml(u)
      BY <1>5 DEF OnHtml
    <3>5. OnHtml(r)
      BY <1>5, <3>2, <3>4, TextStays
    <3>6. Gives(u, r, {k.id})
      BY <1>5, <3>2, Plainly, TextGives, Zenon
    <3>7. /\ v.rules = "none" /\ ~ v.again /\ v.mode = r.mode /\ v.orig = r.orig
          /\ v.modes = r.modes /\ v.fragment = r.fragment
          /\ v.open = r.open /\ v.nodes = r.nodes
      BY <3>3, <3>6 DEF Done, Result, Gives, IsTree
    <3>8. QED
      BY <1>5, <2>2, <3>5, <3>6, <3>7 DEF Gives, NoWayBack, OnHtml
  <2>3. QED
    BY <2>1, <2>2
<1>9. InsertionFunc(u, k) = FosterEnds(v)
    BY <1>6, <1>7, <1>8 DEF InsertionFunc, TableRules, SelectRules, BodyRules, HeadRules
<1>10. PICK e : e = FosterEnds(v)
    OBVIOUS
<1>11. IsTree(v)
  <2>1. Handled(u, v, k)
    BY <1>5, <1>7, TextHandled
  <2>2. QED
    BY <2>1 DEF Handled, Owns
<1>12. /\ ~ e.again /\ e.mode = v.mode /\ e.orig = v.orig /\ e.modes = v.modes
       /\ e.fragment = v.fragment /\ e.builder = v.builder
       /\ e.open = v.open /\ e.nodes = v.nodes
    BY <1>8, <1>10, <1>11 DEF FosterEnds, Done, Result, IsTree
<1>13. w = e
    BY <1>4, <1>9, <1>10
<1>14. QED
    BY <1>8, <1>12, <1>13 DEF Plain, NoWayBack, OnHtml

(* With one thread and no context: in the mode of a raw text its element is *)
(* an HTML element and on top of the stack, the tokenizer is in a state of *)
(* raw text and the token at hand is one of it; else the tokenizer is not. *)
Agrees(t, state) ==
    /\ NoWayBack(t)
    /\ t.token # Null => {"tag", "close"} \subseteq DOMAIN t.token
    /\ IF t.mode = "TEXT"
       THEN /\ OnHtml(t) /\ state \notin {"DATA", "PLAINTEXT"}
            /\ t.token # Null => OfRawText(t.token)
       ELSE state \in {"DATA", "PLAINTEXT"}

RawInv ==
    /\ source \in Documents
    /\ ~ source.threaded /\ source.fragment = Null /\ ~ Finished =>
         "state" \in DOMAIN lexer /\ Agrees(tree, lexer.state)

\* What the tokenizer makes next: in a raw text its text or an end tag.
LEMMA NextToken ==
    ASSUME NEW k, {"tag", "close"} \subseteq DOMAIN k, k.close => k.tag \notin Markup, Fits(k),
           NEW n, NEW token, token = Named(Made(k), n)
    PROVE  /\ {"tag", "close"} \subseteq DOMAIN token
           /\ lexer.state \notin {"DATA", "PLAINTEXT"} => OfRawText(token)
<1>1. PICK m : m = Made(k)
    OBVIOUS
<1>2. {"tag", "close"} \subseteq DOMAIN m /\ m.tag = k.tag /\ m.close = k.close
    BY <1>1 DEF Made
<1>3. {"tag", "close"} \subseteq DOMAIN token /\ token.tag = m.tag /\ token.close = m.close
    BY <1>1, <1>2 DEF Named
<1>4. QED
    BY <1>2, <1>3 DEF OfRawText, Fits, Markup

\* A token without a tag leaves the tokenizer's state alone, after any other
\* the tokenizer of one thread asks the builder.
LEMMA Asks ==
    ASSUME ~ source.threaded, "state" \in DOMAIN lexer, NEW k, NEW builder,
           NEW state, state = LexerAfter(k, builder)
    PROVE  /\ "state" \in DOMAIN state
           /\ state.state = IF k.tag \in Markup THEN lexer.state ELSE builder
BY DEF LexerAfter

\* The steps keep it.
LEMMA RawInvStep ==
    TokenInv /\ RawInv /\ [Next]_vars => RawInv'
<1>. SUFFICES ASSUME TokenInv, RawInv, [Next]_vars PROVE RawInv'
    OBVIOUS
<1>1. source' = source
    BY DEF Next, Feed, Skip, Turn, Stop, vars
<1>2. source' \in Documents
    BY <1>1 DEF RawInv
<1>. SUFFICES ASSUME ~ source.threaded, source.fragment = Null, ~ Finished'
              PROVE  ("state" \in DOMAIN lexer)' /\ Agrees(tree', lexer'.state)
    BY <1>1, <1>2 DEF RawInv, Agrees, NoWayBack, OnHtml, OfRawText
<1>. DEFINE Before == "state" \in DOMAIN lexer /\ Agrees(tree, lexer.state)
<1>3. ~ Finished => Before
    BY DEF RawInv
<1> HIDE DEF Before
<1>4. CASE Feed
  <2>1. PICK k \in source.tokens : /\ Fits(k)
                                   /\ tree' = [tree EXCEPT !.token = Named(Made(k), fed + 1)]
    <3>1. PICK k : /\ k \in IF fed = source.size \/ {m \in source.tokens : Fits(m)} = {}
                            THEN {Eof} ELSE {m \in source.tokens : Fits(m)}
                   /\ tree' = [tree EXCEPT !.token = Named(Made(k), fed + 1)]
                   /\ fed' = IF k = Eof THEN source.size + 1 ELSE fed + 1
      BY <1>4, Zenon DEF Feed
    <3>2. k # Eof
      BY <1>1, <3>1 DEF Finished, TokenInv
    <3>3. QED
      BY <3>1, <3>2
  <2>2. Before /\ lexer' = lexer
    BY <1>3, <1>4 DEF Feed, Finished, TokenInv
  <2>3. {"tag", "close"} \subseteq DOMAIN k /\ (k.close => k.tag \notin Markup)
    BY TokensAssumption DEF RawInv
  <2>4. PICK token : token = Named(Made(k), fed + 1)
    OBVIOUS
  <2>5. /\ {"tag", "close"} \subseteq DOMAIN token
        /\ lexer.state \notin {"DATA", "PLAINTEXT"} => OfRawText(token)
    BY <2>1, <2>3, <2>4, NextToken
  <2>6. IsTree(tree)
    BY <1>4 DEF Feed, TokenInv, Clean
  <2>7. /\ tree'.token = token /\ tree'.mode = tree.mode /\ tree'.orig = tree.orig
        /\ tree'.modes = tree.modes /\ tree'.fragment = tree.fragment
        /\ tree'.open = tree.open /\ tree'.nodes = tree.nodes
    BY <2>1, <2>4, <2>6 DEF IsTree
  <2>8. QED
    BY <2>2, <2>5, <2>7 DEF Before, Agrees, NoWayBack, OnHtml
<1>5. CASE Skip \/ Turn
  <2>1. /\ Before /\ tree.token # Null
        /\ "id" \in DOMAIN tree.token /\ tree.token.id \in Nat /\ Clean(tree, tree.token.id)
    BY <1>1, <1>3, <1>5 DEF Skip, Turn, Finished, TokenInv
  <2>2. {"tag", "close"} \subseteq DOMAIN tree.token
    BY <2>1 DEF Before, Agrees
  <2>3. PICK i \in Nat : i = tree.token.id
    BY <2>1
  <2>4. PICK next : next = LexerAfter(tree.token, tree'.builder)
    OBVIOUS
  <2>5. /\ "state" \in DOMAIN next
        /\ next.state = IF tree.token.tag \in Markup THEN lexer.state ELSE tree'.builder
    BY <2>1, <2>4, Asks DEF Before
  <2>6. CASE Skip
    <3>1. PICK t : t = AfterNewline(tree)
      OBVIOUS
    <3>2. Gives(tree, tree, {})
      BY <2>1, GivesNone DEF Clean
    <3>3. \A v : Gives(tree, [tree EXCEPT !.token.text = v], {})
      BY <2>1, <3>2, TokenGives, Zenon
    <3>4. Gives(tree, t, {})
      BY <3>1, <3>2, <3>3, FieldGives, Zenon DEF AfterNewline
    <3>5. t.open = tree.open /\ t.nodes = tree.nodes
      BY <2>1, <3>1 DEF AfterNewline, Clean, IsTree
    <3>6. tree' = After(Done(t))
      BY <2>6, <3>1 DEF Skip
    <3>7. /\ tree'.token = Null /\ tree'.mode = t.mode /\ tree'.orig = t.orig
          /\ tree'.modes = t.modes /\ tree'.fragment = t.fragment
          /\ tree'.open = t.open /\ tree'.nodes = t.nodes
      BY <3>4, <3>6 DEF After, Done, Result, Gives, IsTree
    <3>8. tree.token.tag = "_TEXT" /\ lexer' = LexerAfter(tree.token, tree.builder)
      BY <2>6 DEF Skip, IsSkipped, DropsNewline
    <3>9. "state" \in DOMAIN lexer' /\ lexer'.state = lexer.state
      BY <2>1, <3>8, Asks DEF Before, Markup
    <3>10. QED
      BY <2>1, <3>4, <3>5, <3>7, <3>9 DEF Before, Agrees, NoWayBack, OnHtml, Gives
  <2>7. CASE Turn
    <3>1. PICK w : w = Dispatched(tree)
      OBVIOUS
    <3>2. /\ tree' = After(w)
          /\ lexer' = IF w.again THEN lexer ELSE LexerAfter(tree.token, w.builder)
      BY <2>7, <3>1 DEF Turn
    <3>3. IsTree(w)
      BY <2>1, <2>3, <3>1, TurnStage DEF Stage, Clean
    <3>4. PICK k : k = Prepared(tree).token
      OBVIOUS
    <3>5. DOMAIN k = DOMAIN tree.token /\ k.tag = tree.token.tag
      <4>1. PICK u : u = Uses(Prepared(tree), tree.mode)
        OBVIOUS
      <4>2. /\ DOMAIN k = DOMAIN tree.token
            /\ "tag" \in DOMAIN k => k.tag = tree.token.tag
        BY <2>1, <2>3, <3>4, <4>1, PreparedIs
      <4>3. QED
        BY <2>2, <4>2
    <3>6. tree.mode # "TEXT" =>
            /\ DOMAIN w.token = DOMAIN tree.token
            /\ Plain(w) \/ (Raw(w) /\ tree.token.tag \notin Markup)
      <4>1. NoWayBack(tree)
        BY <2>1 DEF Before, Agrees
      <4>2. tree.mode # "TEXT" => Heard(w, k)
        BY <2>1, <2>3, <3>1, <3>4, <4>1, TurnStage
      <4>3. QED
        BY <3>5, <4>2 DEF Heard
    <3>7. CASE w.again
      <4>1. tree' = w /\ lexer' = lexer
        BY <3>2, <3>7 DEF After
      <4>2. tree.mode # "TEXT"
        <5>1. tree.mode = "TEXT" => ~ w.again
          BY <2>1, <2>2, <2>3, <3>1, TextTurn DEF Before, Agrees
        <5>2. QED
          BY <3>7, <5>1
      <4>3. Plain(w) /\ DOMAIN w.token = DOMAIN tree.token
        BY <3>6, <3>7, <4>2 DEF Raw
      <4>4. QED
        BY <2>1, <2>2, <4>1, <4>2, <4>3 DEF Before, Agrees, Plain
    <3>8. CASE ~ w.again
      <4>1. tree' = [w EXCEPT !.token = Null] /\ lexer' = LexerAfter(tree.token, w.builder)
        BY <3>2, <3>8 DEF After
      <4>2. /\ tree'.token = Null /\ tree'.mode = w.mode /\ tree'.orig = w.orig
            /\ tree'.modes = w.modes /\ tree'.fragment = w.fragment /\ tree'.builder = w.builder
            /\ tree'.open = w.open /\ tree'.nodes = w.nodes
        BY <3>3, <4>1 DEF IsTree
      <4>3. lexer' = next
        BY <2>4, <4>1, <4>2
      <4>4. CASE tree.mode = "TEXT"
        <5>1. /\ OfRawText(tree.token)
              /\ IF tree.token.close THEN Plain(w)
                 ELSE w.mode = "TEXT" /\ NoWayBack(w) /\ OnHtml(w)
          BY <2>1, <2>2, <2>3, <3>1, <4>4, TextTurn DEF Before, Agrees
        <5>2. IF tree.token.close THEN lexer'.state = w.builder ELSE lexer'.state = lexer.state
          BY <2>5, <4>2, <4>3, <5>1 DEF OfRawText, Markup
        <5>3. QED
          BY <2>1, <2>5, <4>2, <4>3, <4>4, <5>1, <5>2
             DEF Before, Agrees, Plain, NoWayBack, OnHtml
      <4>5. CASE tree.mode # "TEXT"
        <5>1. Plain(w) \/ (Raw(w) /\ tree.token.tag \notin Markup)
          BY <3>6, <4>5
        <5>2. lexer.state \in {"DATA", "PLAINTEXT"}
          BY <2>1, <4>5 DEF Before, Agrees
        <5>3. QED
          BY <2>5, <4>2, <4>3, <5>1, <5>2 DEF Agrees, Plain, Raw, NoWayBack, OnHtml
      <4>6. QED
        BY <4>4, <4>5
    <3>9. QED
      BY <3>7, <3>8
  <2>8. QED
    BY <1>5, <2>6, <2>7
<1>6. CASE Stop \/ UNCHANGED vars
  <2>1. tree' = tree /\ lexer' = lexer /\ fed' = fed
    BY <1>6 DEF Stop, vars
  <2>2. Before
    BY <1>1, <1>3, <2>1 DEF Finished
  <2>3. QED
    BY <2>1, <2>2 DEF Before
<1>7. QED
    BY <1>4, <1>5, <1>6 DEF Next

\* In one thread the tokenizer and the builder never come apart, whatever the
\* documents are: between two tokens the tokenizer reads raw text exactly when
\* the mode is the one that takes it.  The handlers that ask for raw text put
\* its element on the stack and are the last to see the tag, no mode that is
\* come back to is that of a raw text, and only its end tag leads out.
THEOREM ThreadAgrees == Spec => []OneThreadAgrees
<1>1. Init => TokenInv /\ RawInv
  <2>. SUFFICES ASSUME Init PROVE TokenInv /\ RawInv
    OBVIOUS
  <2>1. TokenInv
    BY FirstState
  <2>2. source \in Documents
    BY DEF Init
  <2>3. CASE source.fragment = Null
    <3>1. tree = EmptyTree /\ "state" \in DOMAIN lexer /\ lexer.state = "DATA"
      BY <2>3 DEF Init
    <3>2. /\ EmptyTree.mode = "INITIAL" /\ EmptyTree.orig = "INITIAL" /\ EmptyTree.modes = <<>>
          /\ EmptyTree.fragment = Null /\ EmptyTree.token = Null
      BY DEF EmptyTree
    <3>3. IsList(<<>>) /\ Range(<<>>) = {}
      BY NoneKept DEF Range
    <3>4. QED
      BY <2>1, <2>2, <3>1, <3>2, <3>3 DEF RawInv, Agrees, NoWayBack
  <2>4. QED
    BY <2>1, <2>2, <2>3 DEF RawInv
<1>2. RawInv => OneThreadAgrees
    BY DEF RawInv, Agrees, OneThreadAgrees
<1>3. QED
    BY <1>1, <1>2, TokenInvStep, RawInvStep, PTL DEF Spec
=============================================================================
