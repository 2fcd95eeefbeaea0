--------------------------- MODULE TreeEdit_proofs ---------------------------
(***************************************************************************)
(* The links of a tree are sound, and its texts keep their memory to       *)
(* themselves, whatever a program does with it, for any number of nodes,   *)
(* texts and chunks of any size.                                           *)
(*                                                                         *)
(* LinksSound alone is not inductive: brothers linked in a ring would have *)
(* no first one, so a node without a first child could be deleted and      *)
(* still be somebody's parent.  The invariant LinkInv says that brothers   *)
(* can be numbered upwards (Ranked).                                       *)
(*                                                                         *)
(* BlocksApart alone is not inductive: that the next block is apart from   *)
(* the others rests on the chunks being linked once each, and that a freed *)
(* one is free of texts on no two texts having the same.  The invariant is *)
(* TextInv, together with LinkInv, which says what delete_recursive frees, *)
(* and with the tree being finite, since it frees the texts one after the  *)
(* other.                                                                  *)
(***************************************************************************)
EXTENDS TreeEdit, StringArena_proofs

USE NodesAssumption

\* The numbers rise from a node to the next.
Ranked(n, S, r) == /\ r \in [Nodes -> Nat]
                   /\ \A y \in S : n[y].next # Null => r[y] < r[n[y].next]

Ordered(n, S) == \E r \in [Nodes -> Nat] : Ranked(n, S, r)

LinkInv == TypeOK /\ TreeLinked /\ Ordered(nodes, live) /\ nodes[Document].parent = Null

-----------------------------------------------------------------------------
(* The memory m is n with one field of x set to v. *)
ParentSet(n, m, x, v) ==
    /\ m \in [Nodes -> Links]
    /\ \A y \in Nodes : /\ m[y].parent = IF y = x THEN v ELSE n[y].parent
                        /\ m[y].prev = n[y].prev /\ m[y].next = n[y].next
                        /\ m[y].child = n[y].child /\ m[y].last = n[y].last
PrevSet(n, m, x, v) ==
    /\ m \in [Nodes -> Links]
    /\ \A y \in Nodes : /\ m[y].prev = IF y = x THEN v ELSE n[y].prev
                        /\ m[y].parent = n[y].parent /\ m[y].next = n[y].next
                        /\ m[y].child = n[y].child /\ m[y].last = n[y].last
NextSet(n, m, x, v) ==
    /\ m \in [Nodes -> Links]
    /\ \A y \in Nodes : /\ m[y].next = IF y = x THEN v ELSE n[y].next
                        /\ m[y].parent = n[y].parent /\ m[y].prev = n[y].prev
                        /\ m[y].child = n[y].child /\ m[y].last = n[y].last
ChildSet(n, m, x, v) ==
    /\ m \in [Nodes -> Links]
    /\ \A y \in Nodes : /\ m[y].child = IF y = x THEN v ELSE n[y].child
                        /\ m[y].parent = n[y].parent /\ m[y].prev = n[y].prev
                        /\ m[y].next = n[y].next /\ m[y].last = n[y].last
LastSet(n, m, x, v) ==
    /\ m \in [Nodes -> Links]
    /\ \A y \in Nodes : /\ m[y].last = IF y = x THEN v ELSE n[y].last
                        /\ m[y].parent = n[y].parent /\ m[y].prev = n[y].prev
                        /\ m[y].next = n[y].next /\ m[y].child = n[y].child

\* node->parent = v changes one field of one node.
LEMMA SetParentAt ==
    ASSUME NEW n \in [Nodes -> Links], NEW x \in Nodes, NEW v \in Nodes \cup {Null}
    PROVE  ParentSet(n, SetParent(n, x, v), x, v)
<1> DEFINE rec == [parent |-> v, prev |-> n[x].prev, next |-> n[x].next, child |-> n[x].child, last |-> n[x].last]
<1>1. n[x] \in Links
    OBVIOUS
<1>2. [n[x] EXCEPT !.parent = v] = rec
    BY <1>1 DEF Links
<1>3. SetParent(n, x, v) = [n EXCEPT ![x] = rec]
    BY <1>2, Zenon DEF SetParent
<1>4. QED
    BY <1>3, <1>1 DEF ParentSet, Links

\* node->prev = v, the same.
LEMMA SetPrevAt ==
    ASSUME NEW n \in [Nodes -> Links], NEW x \in Nodes, NEW v \in Nodes \cup {Null}
    PROVE  PrevSet(n, SetPrev(n, x, v), x, v)
<1> DEFINE rec == [parent |-> n[x].parent, prev |-> v, next |-> n[x].next, child |-> n[x].child, last |-> n[x].last]
<1>1. n[x] \in Links
    OBVIOUS
<1>2. [n[x] EXCEPT !.prev = v] = rec
    BY <1>1 DEF Links
<1>3. SetPrev(n, x, v) = [n EXCEPT ![x] = rec]
    BY <1>2, Zenon DEF SetPrev
<1>4. QED
    BY <1>3, <1>1 DEF PrevSet, Links

\* node->next = v, the same.
LEMMA SetNextAt ==
    ASSUME NEW n \in [Nodes -> Links], NEW x \in Nodes, NEW v \in Nodes \cup {Null}
    PROVE  NextSet(n, SetNext(n, x, v), x, v)
<1> DEFINE rec == [parent |-> n[x].parent, prev |-> n[x].prev, next |-> v, child |-> n[x].child, last |-> n[x].last]
<1>1. n[x] \in Links
    OBVIOUS
<1>2. [n[x] EXCEPT !.next = v] = rec
    BY <1>1 DEF Links
<1>3. SetNext(n, x, v) = [n EXCEPT ![x] = rec]
    BY <1>2, Zenon DEF SetNext
<1>4. QED
    BY <1>3, <1>1 DEF NextSet, Links

\* node->child = v, the same.
LEMMA SetChildAt ==
    ASSUME NEW n \in [Nodes -> Links], NEW x \in Nodes, NEW v \in Nodes \cup {Null}
    PROVE  ChildSet(n, SetChild(n, x, v), x, v)
<1> DEFINE rec == [parent |-> n[x].parent, prev |-> n[x].prev, next |-> n[x].next, child |-> v, last |-> n[x].last]
<1>1. n[x] \in Links
    OBVIOUS
<1>2. [n[x] EXCEPT !.child = v] = rec
    BY <1>1 DEF Links
<1>3. SetChild(n, x, v) = [n EXCEPT ![x] = rec]
    BY <1>2, Zenon DEF SetChild
<1>4. QED
    BY <1>3, <1>1 DEF ChildSet, Links

\* node->last_child = v, the same.
LEMMA SetLastAt ==
    ASSUME NEW n \in [Nodes -> Links], NEW x \in Nodes, NEW v \in Nodes \cup {Null}
    PROVE  LastSet(n, SetLast(n, x, v), x, v)
<1> DEFINE rec == [parent |-> n[x].parent, prev |-> n[x].prev, next |-> n[x].next, child |-> n[x].child, last |-> v]
<1>1. n[x] \in Links
    OBVIOUS
<1>2. [n[x] EXCEPT !.last = v] = rec
    BY <1>1 DEF Links
<1>3. SetLast(n, x, v) = [n EXCEPT ![x] = rec]
    BY <1>2, Zenon DEF SetLast
<1>4. QED
    BY <1>3, <1>1 DEF LastSet, Links

-----------------------------------------------------------------------------
(* What a call leaves in each node, field by field. *)

\* All links of all nodes after a child is added last, whatever the order of the
\* assignments in myhtml_tree_node_add_child.
LEMMA AddChildAt ==
    ASSUME NEW n \in [Nodes -> Links], NEW root \in Nodes, NEW x \in Nodes, x # root
    PROVE  LET m == AddChild(n, root, x)
               last == n[root].last
           IN  /\ m \in [Nodes -> Links]
               /\ \A y \in Nodes :
                    /\ m[y].parent = IF y = x THEN root ELSE n[y].parent
                    /\ m[y].prev = IF y = x /\ last # Null THEN last ELSE n[y].prev
                    /\ m[y].next = IF last # Null /\ y = last THEN x ELSE n[y].next
                    /\ m[y].child = IF y = root /\ last = Null THEN x ELSE n[y].child
                    /\ m[y].last = IF y = root THEN x ELSE n[y].last
<1> DEFINE last == n[root].last
<1>1. n[root] \in Links /\ last \in Nodes \cup {Null}
    BY DEF Links
<1>2. CASE last = Null
    <2> DEFINE m1 == SetChild(n, root, x)
               m2 == SetParent(m1, x, root)
               m3 == SetLast(m2, root, x)
    <2>0. AddChild(n, root, x) = m3
        BY <1>1, <1>2 DEF AddChild
    <2>1. ChildSet(n, m1, root, x)
        BY <1>1, <1>2, SetChildAt
    <2>2. ParentSet(m1, m2, x, root)
        BY <1>1, <1>2, <2>1, SetParentAt DEF ChildSet
    <2>3. LastSet(m2, m3, root, x)
        BY <1>1, <1>2, <2>2, SetLastAt DEF ParentSet
    <2> HIDE DEF m1, m2, m3
    <2> QED
        BY <1>1, <1>2, <2>0, <2>1, <2>2, <2>3 DEF ChildSet, LastSet, ParentSet
<1>3. CASE last # Null
    <2> DEFINE m1 == SetNext(n, last, x)
               m2 == SetPrev(m1, x, last)
               m3 == SetParent(m2, x, root)
               m4 == SetLast(m3, root, x)
    <2>0. AddChild(n, root, x) = m4
        BY <1>1, <1>3 DEF AddChild
    <2>1. NextSet(n, m1, last, x)
        BY <1>1, <1>3, SetNextAt
    <2>2. PrevSet(m1, m2, x, last)
        BY <1>1, <1>3, <2>1, SetPrevAt DEF NextSet
    <2>3. ParentSet(m2, m3, x, root)
        BY <1>1, <1>3, <2>2, SetParentAt DEF PrevSet
    <2>4. LastSet(m3, m4, root, x)
        BY <1>1, <1>3, <2>3, SetLastAt DEF ParentSet
    <2> HIDE DEF m1, m2, m3, m4
    <2> QED
        BY <1>1, <1>3, <2>0, <2>1, <2>2, <2>3, <2>4 DEF LastSet, NextSet, ParentSet, PrevSet
<1> QED
    BY <1>1, <1>2, <1>3

\* All links after a node is put before another one.
LEMMA PlaceBeforeAt ==
    ASSUME NEW n \in [Nodes -> Links], NEW root \in Nodes, NEW x \in Nodes, x # root,
           n[root].parent # Null, n[root].prev # x, n[root].parent # root
    PROVE  LET m == PlaceBefore(n, root, x)
               prev == n[root].prev
           IN  /\ m \in [Nodes -> Links]
               /\ \A y \in Nodes :
                    /\ m[y].parent = IF y = x THEN n[root].parent ELSE n[y].parent
                    /\ m[y].prev = IF y = x /\ prev # Null THEN prev
                                   ELSE IF y = root THEN x ELSE n[y].prev
                    /\ m[y].next = IF y = x THEN root
                                   ELSE IF prev # Null /\ y = prev THEN x ELSE n[y].next
                    /\ m[y].child = IF prev = Null /\ y = n[root].parent THEN x ELSE n[y].child
                    /\ m[y].last = n[y].last
<1> DEFINE prev == n[root].prev
           parent == n[root].parent
<1>1. n[root] \in Links /\ prev \in Nodes \cup {Null} /\ parent \in Nodes
    BY DEF Links
<1>2. CASE prev = Null
    <2> DEFINE m1 == SetChild(n, parent, x)
               m2 == SetParent(m1, x, parent)
               m3 == SetNext(m2, x, root)
               m4 == SetPrev(m3, root, x)
    <2>1. ChildSet(n, m1, parent, x)
        BY <1>1, <1>2, SetChildAt
    <2>2. ParentSet(m1, m2, x, parent)
        BY <1>1, <1>2, <2>1, SetParentAt DEF ChildSet
    <2>3. NextSet(m2, m3, x, root)
        BY <1>1, <1>2, <2>2, SetNextAt DEF ParentSet
    <2>4. PrevSet(m3, m4, root, x)
        BY <1>1, <1>2, <2>3, SetPrevAt DEF NextSet
    <2>0. PlaceBefore(n, root, x) = m4
        BY <1>1, <1>2, <2>1 DEF PlaceBefore, ChildSet
    <2> HIDE DEF m1, m2, m3, m4
    <2> QED
        BY <1>1, <1>2, <2>0, <2>1, <2>2, <2>3, <2>4 DEF ChildSet, NextSet, ParentSet, PrevSet
<1>3. CASE prev # Null
    <2> DEFINE m1 == SetNext(n, prev, x)
               m2 == SetPrev(m1, x, prev)
               m3 == SetParent(m2, x, parent)
               m4 == SetNext(m3, x, root)
               m5 == SetPrev(m4, root, x)
    <2>1. NextSet(n, m1, prev, x)
        BY <1>1, <1>3, SetNextAt
    <2>2. PrevSet(m1, m2, x, prev)
        BY <1>1, <1>3, <2>1, SetPrevAt DEF NextSet
    <2>3. ParentSet(m2, m3, x, parent)
        BY <1>1, <1>3, <2>2, SetParentAt DEF PrevSet
    <2>4. NextSet(m3, m4, x, root)
        BY <1>1, <1>3, <2>3, SetNextAt DEF ParentSet
    <2>5. PrevSet(m4, m5, root, x)
        BY <1>1, <1>3, <2>4, SetPrevAt DEF NextSet
    <2>0. PlaceBefore(n, root, x) = m5
        BY <1>1, <1>3, <2>1, <2>2 DEF PlaceBefore, NextSet, PrevSet
    <2> HIDE DEF m1, m2, m3, m4, m5
    <2> QED
        BY <1>1, <1>3, <2>0, <2>1, <2>2, <2>3, <2>4, <2>5 DEF NextSet, ParentSet, PrevSet
<1> QED
    BY <1>1, <1>2, <1>3

\* All links after a node is put behind another one.
LEMMA PlaceAfterAt ==
    ASSUME NEW n \in [Nodes -> Links], NEW root \in Nodes, NEW x \in Nodes, x # root,
           n[root].parent # Null, n[root].next # x, n[root].parent # root
    PROVE  LET m == PlaceAfter(n, root, x)
               next == n[root].next
           IN  /\ m \in [Nodes -> Links]
               /\ \A y \in Nodes :
                    /\ m[y].parent = IF y = x THEN n[root].parent ELSE n[y].parent
                    /\ m[y].prev = IF y = x THEN root
                                   ELSE IF next # Null /\ y = next THEN x ELSE n[y].prev
                    /\ m[y].next = IF y = x /\ next # Null THEN next
                                   ELSE IF y = root THEN x ELSE n[y].next
                    /\ m[y].child = n[y].child
                    /\ m[y].last = IF next = Null /\ y = n[root].parent THEN x ELSE n[y].last
<1> DEFINE next == n[root].next
           parent == n[root].parent
<1>1. n[root] \in Links /\ next \in Nodes \cup {Null} /\ parent \in Nodes
    BY DEF Links
<1>2. CASE next = Null
    <2> DEFINE m1 == SetLast(n, parent, x)
               m2 == SetParent(m1, x, parent)
               m3 == SetPrev(m2, x, root)
               m4 == SetNext(m3, root, x)
    <2>1. LastSet(n, m1, parent, x)
        BY <1>1, <1>2, SetLastAt
    <2>2. ParentSet(m1, m2, x, parent)
        BY <1>1, <1>2, <2>1, SetParentAt DEF LastSet
    <2>3. PrevSet(m2, m3, x, root)
        BY <1>1, <1>2, <2>2, SetPrevAt DEF ParentSet
    <2>4. NextSet(m3, m4, root, x)
        BY <1>1, <1>2, <2>3, SetNextAt DEF PrevSet
    <2>0. PlaceAfter(n, root, x) = m4
        BY <1>1, <1>2, <2>1 DEF PlaceAfter, LastSet
    <2> HIDE DEF m1, m2, m3, m4
    <2> QED
        BY <1>1, <1>2, <2>0, <2>1, <2>2, <2>3, <2>4 DEF LastSet, NextSet, ParentSet, PrevSet
<1>3. CASE next # Null
    <2> DEFINE m1 == SetPrev(n, next, x)
               m2 == SetNext(m1, x, next)
               m3 == SetParent(m2, x, parent)
               m4 == SetPrev(m3, x, root)
               m5 == SetNext(m4, root, x)
    <2>1. PrevSet(n, m1, next, x)
        BY <1>1, <1>3, SetPrevAt
    <2>2. NextSet(m1, m2, x, next)
        BY <1>1, <1>3, <2>1, SetNextAt DEF PrevSet
    <2>3. ParentSet(m2, m3, x, parent)
        BY <1>1, <1>3, <2>2, SetParentAt DEF NextSet
    <2>4. PrevSet(m3, m4, x, root)
        BY <1>1, <1>3, <2>3, SetPrevAt DEF ParentSet
    <2>5. NextSet(m4, m5, root, x)
        BY <1>1, <1>3, <2>4, SetNextAt DEF PrevSet
    <2>0. PlaceAfter(n, root, x) = m5
        BY <1>1, <1>3, <2>1, <2>2 DEF PlaceAfter, NextSet, PrevSet
    <2> HIDE DEF m1, m2, m3, m4, m5
    <2> QED
        BY <1>1, <1>3, <2>0, <2>1, <2>2, <2>3, <2>4, <2>5 DEF NextSet, ParentSet, PrevSet
<1> QED
    BY <1>1, <1>2, <1>3

\* All links after a node is taken out.
LEMMA UnlinkAt ==
    ASSUME NEW n \in [Nodes -> Links], NEW x \in Nodes,
           n[x].next # x, n[x].prev # x, n[x].parent # x
    PROVE  LET m == Unlink(n, x)
               next == n[x].next
               prev == n[x].prev
               parent == n[x].parent
           IN  /\ m \in [Nodes -> Links]
               /\ \A y \in Nodes :
                    /\ m[y].parent = IF y = x THEN Null ELSE n[y].parent
                    /\ m[y].prev = IF y = x THEN Null
                                   ELSE IF next # Null /\ y = next THEN prev ELSE n[y].prev
                    /\ m[y].next = IF y = x THEN Null
                                   ELSE IF prev # Null /\ y = prev THEN next ELSE n[y].next
                    /\ m[y].child = IF prev = Null /\ parent # Null /\ y = parent
                                    THEN next ELSE n[y].child
                    /\ m[y].last = IF next = Null /\ parent # Null /\ y = parent
                                   THEN prev ELSE n[y].last
<1> DEFINE next == n[x].next
           prev == n[x].prev
           parent == n[x].parent
<1>1. /\ n[x] \in Links /\ next \in Nodes \cup {Null} /\ prev \in Nodes \cup {Null}
      /\ parent \in Nodes \cup {Null}
    BY DEF Links
<1>2. CASE next # Null /\ prev # Null
    <2> DEFINE m1 == SetPrev(n, next, prev)
               m2 == SetNext(m1, prev, next)
               m3 == SetNext(m2, x, Null)
               m4 == SetPrev(m3, x, Null)
               m5 == SetParent(m4, x, Null)
    <2>0. Unlink(n, x) = m5
        BY <1>1, <1>2 DEF Unlink, Cleared
    <2>1. PrevSet(n, m1, next, prev)
        BY <1>1, <1>2, SetPrevAt
    <2>2. NextSet(m1, m2, prev, next)
        BY <1>1, <1>2, <2>1, SetNextAt DEF PrevSet
    <2>a. m2 \in [Nodes -> Links]
        BY <2>2 DEF NextSet
    <2> HIDE DEF m2
    <2>3. NextSet(m2, m3, x, Null)
        BY <2>a, SetNextAt
    <2>4. PrevSet(m3, m4, x, Null)
        BY <1>1, <1>2, <2>3, SetPrevAt DEF NextSet
    <2>5. ParentSet(m4, m5, x, Null)
        BY <1>1, <1>2, <2>4, SetParentAt DEF PrevSet
    <2> HIDE DEF m1, m2, m3, m4, m5
    <2> QED
        BY <1>1, <1>2, <2>0, <2>1, <2>2, <2>3, <2>4, <2>5 DEF NextSet, ParentSet, PrevSet
<1>3. CASE next # Null /\ prev = Null /\ parent # Null
    <2> DEFINE m1 == SetPrev(n, next, prev)
               m2 == SetChild(m1, parent, next)
               m3 == SetNext(m2, x, Null)
               m4 == SetPrev(m3, x, Null)
               m5 == SetParent(m4, x, Null)
    <2>0. Unlink(n, x) = m5
        BY <1>1, <1>3 DEF Unlink, Cleared
    <2>1. PrevSet(n, m1, next, prev)
        BY <1>1, <1>3, SetPrevAt
    <2>2. ChildSet(m1, m2, parent, next)
        BY <1>1, <1>3, <2>1, SetChildAt DEF PrevSet
    <2>3. NextSet(m2, m3, x, Null)
        BY <1>1, <1>3, <2>2, SetNextAt DEF ChildSet
    <2>4. PrevSet(m3, m4, x, Null)
        BY <1>1, <1>3, <2>3, SetPrevAt DEF NextSet
    <2>5. ParentSet(m4, m5, x, Null)
        BY <1>1, <1>3, <2>4, SetParentAt DEF PrevSet
    <2> HIDE DEF m1, m2, m3, m4, m5
    <2> QED
        BY <1>1, <1>3, <2>0, <2>1, <2>2, <2>3, <2>4, <2>5 DEF ChildSet, NextSet, ParentSet, PrevSet
<1>4. CASE next # Null /\ prev = Null /\ parent = Null
    <2> DEFINE m1 == SetPrev(n, next, prev)
               m2 == SetNext(m1, x, Null)
               m3 == SetPrev(m2, x, Null)
               m4 == SetParent(m3, x, Null)
    <2>0. Unlink(n, x) = m4
        BY <1>1, <1>4 DEF Unlink, Cleared
    <2>1. PrevSet(n, m1, next, prev)
        BY <1>1, <1>4, SetPrevAt
    <2>2. NextSet(m1, m2, x, Null)
        BY <1>1, <1>4, <2>1, SetNextAt DEF PrevSet
    <2>3. PrevSet(m2, m3, x, Null)
        BY <1>1, <1>4, <2>2, SetPrevAt DEF NextSet
    <2>4. ParentSet(m3, m4, x, Null)
        BY <1>1, <1>4, <2>3, SetParentAt DEF PrevSet
    <2> HIDE DEF m1, m2, m3, m4
    <2> QED
        BY <1>1, <1>4, <2>0, <2>1, <2>2, <2>3, <2>4 DEF NextSet, ParentSet, PrevSet
<1>5. CASE next = Null /\ prev # Null /\ parent # Null
    <2> DEFINE m1 == SetLast(n, parent, prev)
               m2 == SetNext(m1, prev, next)
               m3 == SetNext(m2, x, Null)
               m4 == SetPrev(m3, x, Null)
               m5 == SetParent(m4, x, Null)
    <2>0. Unlink(n, x) = m5
        BY <1>1, <1>5 DEF Unlink, Cleared
    <2>1. LastSet(n, m1, parent, prev)
        BY <1>1, <1>5, SetLastAt
    <2>2. NextSet(m1, m2, prev, next)
        BY <1>1, <1>5, <2>1, SetNextAt DEF LastSet
    <2>a. m2 \in [Nodes -> Links]
        BY <2>2 DEF NextSet
    <2> HIDE DEF m2
    <2>3. NextSet(m2, m3, x, Null)
        BY <2>a, SetNextAt
    <2>4. PrevSet(m3, m4, x, Null)
        BY <1>1, <1>5, <2>3, SetPrevAt DEF NextSet
    <2>5. ParentSet(m4, m5, x, Null)
        BY <1>1, <1>5, <2>4, SetParentAt DEF PrevSet
    <2> HIDE DEF m1, m2, m3, m4, m5
    <2> QED
        BY <1>1, <1>5, <2>0, <2>1, <2>2, <2>3, <2>4, <2>5 DEF LastSet, NextSet, ParentSet, PrevSet
<1>6. CASE next = Null /\ prev # Null /\ parent = Null
    <2> DEFINE m1 == SetNext(n, prev, next)
               m2 == SetNext(m1, x, Null)
               m3 == SetPrev(m2, x, Null)
               m4 == SetParent(m3, x, Null)
    <2>0. Unlink(n, x) = m4
        BY <1>1, <1>6 DEF Unlink, Cleared
    <2>1. NextSet(n, m1, prev, next)
        BY <1>1, <1>6, SetNextAt
    <2>2. NextSet(m1, m2, x, Null)
        BY <1>1, <1>6, <2>1, SetNextAt DEF NextSet
    <2>3. PrevSet(m2, m3, x, Null)
        BY <1>1, <1>6, <2>2, SetPrevAt DEF NextSet
    <2>4. ParentSet(m3, m4, x, Null)
        BY <1>1, <1>6, <2>3, SetParentAt DEF PrevSet
    <2> HIDE DEF m1, m2, m3, m4
    <2> QED
        BY <1>1, <1>6, <2>0, <2>1, <2>2, <2>3, <2>4 DEF NextSet, ParentSet, PrevSet
<1>7. CASE next = Null /\ prev = Null /\ parent # Null
    <2> DEFINE m1 == SetLast(n, parent, prev)
               m2 == SetChild(m1, parent, next)
               m3 == SetNext(m2, x, Null)
               m4 == SetPrev(m3, x, Null)
               m5 == SetParent(m4, x, Null)
    <2>0. Unlink(n, x) = m5
        BY <1>1, <1>7 DEF Unlink, Cleared
    <2>1. LastSet(n, m1, parent, prev)
        BY <1>1, <1>7, SetLastAt
    <2>2. ChildSet(m1, m2, parent, next)
        BY <1>1, <1>7, <2>1, SetChildAt DEF LastSet
    <2>3. NextSet(m2, m3, x, Null)
        BY <1>1, <1>7, <2>2, SetNextAt DEF ChildSet
    <2>4. PrevSet(m3, m4, x, Null)
        BY <1>1, <1>7, <2>3, SetPrevAt DEF NextSet
    <2>5. ParentSet(m4, m5, x, Null)
        BY <1>1, <1>7, <2>4, SetParentAt DEF PrevSet
    <2> HIDE DEF m1, m2, m3, m4, m5
    <2> QED
        BY <1>1, <1>7, <2>0, <2>1, <2>2, <2>3, <2>4, <2>5 DEF ChildSet, LastSet, NextSet, ParentSet, PrevSet
<1>8. CASE next = Null /\ prev = Null /\ parent = Null
    <2> DEFINE m1 == SetNext(n, x, Null)
               m2 == SetPrev(m1, x, Null)
               m3 == SetParent(m2, x, Null)
    <2>0. Unlink(n, x) = m3
        BY <1>1, <1>8 DEF Unlink, Cleared
    <2>1. NextSet(n, m1, x, Null)
        BY <1>1, <1>8, SetNextAt
    <2>2. PrevSet(m1, m2, x, Null)
        BY <1>1, <1>8, <2>1, SetPrevAt DEF NextSet
    <2>3. ParentSet(m2, m3, x, Null)
        BY <1>1, <1>8, <2>2, SetParentAt DEF PrevSet
    <2> HIDE DEF m1, m2, m3
    <2> QED
        BY <1>1, <1>8, <2>0, <2>1, <2>2, <2>3 DEF NextSet, ParentSet, PrevSet
<1> QED
    BY <1>1, <1>2, <1>3, <1>4, <1>5, <1>6, <1>7, <1>8

-----------------------------------------------------------------------------
(* Each call keeps the links sound and brothers in order. *)

\* Adding a child keeps links and order.
LEMMA AddChildSound ==
    ASSUME NEW n \in [Nodes -> Links], NEW S \in SUBSET Nodes, NEW root \in S, NEW x \in S,
           x # root, n[x].parent = Null, LinksSound(n, S), Ordered(n, S)
    PROVE  LET m == AddChild(n, root, x)
           IN  m \in [Nodes -> Links] /\ LinksSound(m, S) /\ Ordered(m, S)
<1> DEFINE m == AddChild(n, root, x)
           last == n[root].last
<1>1. /\ m \in [Nodes -> Links]
      /\ \A y \in Nodes :
           /\ m[y].parent = IF y = x THEN root ELSE n[y].parent
           /\ m[y].prev = IF y = x /\ last # Null THEN last ELSE n[y].prev
           /\ m[y].next = IF last # Null /\ y = last THEN x ELSE n[y].next
           /\ m[y].child = IF y = root /\ last = Null THEN x ELSE n[y].child
           /\ m[y].last = IF y = root THEN x ELSE n[y].last
    BY AddChildAt, S \subseteq Nodes
<1>2. /\ n[x].prev = Null /\ n[x].next = Null
      /\ last # Null => /\ last \in S /\ last # x /\ n[last].parent = root
                        /\ n[last].next = Null
      /\ last = Null <=> n[root].child = Null
      /\ \A y \in S : n[y].next # x /\ n[y].prev # x /\ n[y].child # x /\ n[y].last # x
    BY DEF LinksSound, NodeSound, NextSound, PrevSound, ParentSound, ChildSound
<1> HIDE DEF m, last
<1>3. ASSUME NEW y \in S PROVE NodeSound(m, S, y)
    <2>1. NodeSound(n, S, y)
        BY DEF LinksSound
    <2>2. NextSound(m, S, y)
        BY <1>1, <1>2, <2>1 DEF NodeSound, NextSound
    <2>3. PrevSound(m, S, y)
        BY <1>1, <1>2, <2>1 DEF NodeSound, PrevSound
    <2>4. ParentSound(m, S, y)
        BY <1>1, <1>2, <2>1 DEF NodeSound, ParentSound, last
    <2>5. ChildSound(m, S, y)
        BY <1>1, <1>2, <2>1 DEF NodeSound, ChildSound, last
    <2> QED
        BY <2>2, <2>3, <2>4, <2>5 DEF NodeSound
<1>4. Ordered(m, S)
    <2>1. PICK r \in [Nodes -> Nat] : Ranked(n, S, r)
        BY DEF Ordered
    <2> DEFINE q == IF last = Null THEN r ELSE [r EXCEPT ![x] = r[last] + 1]
    <2>2. q \in [Nodes -> Nat]
        BY <1>2
    <2>3. ASSUME NEW y \in S, m[y].next # Null PROVE q[y] < q[m[y].next]
        BY <1>1, <1>2, <2>1, <2>3 DEF Ranked, LinksSound, NodeSound, NextSound
    <2> QED
        BY <2>2, <2>3 DEF Ordered, Ranked
<1> QED
    BY <1>1, <1>3, <1>4 DEF LinksSound, m

\* Putting a node before another one keeps links and order.
LEMMA PlaceBeforeSound ==
    ASSUME NEW n \in [Nodes -> Links], NEW S \in SUBSET Nodes, NEW root \in S, NEW x \in S,
           x # root, n[x].parent = Null, n[root].parent # Null, LinksSound(n, S), Ordered(n, S),
           n[root].parent # x
    PROVE  LET m == PlaceBefore(n, root, x)
           IN  m \in [Nodes -> Links] /\ LinksSound(m, S) /\ Ordered(m, S)
<1> DEFINE m == PlaceBefore(n, root, x)
           prev == n[root].prev
           parent == n[root].parent
<1>1. /\ n[x].prev = Null /\ n[x].next = Null
      /\ prev # Null => /\ prev \in S /\ prev # x /\ prev # root
                        /\ n[prev].next = root /\ n[prev].parent = parent
      /\ parent \in S /\ parent # root
      /\ prev = Null => n[parent].child = root
      /\ \A y \in S : n[y].next # x /\ n[y].prev # x /\ n[y].child # x /\ n[y].last # x
    BY DEF LinksSound, NodeSound, NextSound, PrevSound, ParentSound, ChildSound
<1>2. /\ m \in [Nodes -> Links]
      /\ \A y \in Nodes :
           /\ m[y].parent = IF y = x THEN parent ELSE n[y].parent
           /\ m[y].prev = IF y = x /\ prev # Null THEN prev
                          ELSE IF y = root THEN x ELSE n[y].prev
           /\ m[y].next = IF y = x THEN root
                          ELSE IF prev # Null /\ y = prev THEN x ELSE n[y].next
           /\ m[y].child = IF prev = Null /\ y = parent THEN x ELSE n[y].child
           /\ m[y].last = n[y].last
    BY <1>1, PlaceBeforeAt, S \subseteq Nodes
<1>3. \A y \in S : n[y].next = root => prev = y
    BY DEF LinksSound, NodeSound, NextSound
<1> HIDE DEF m, prev, parent
<1>4. ASSUME NEW y \in S PROVE NodeSound(m, S, y)
    <2>1. NodeSound(n, S, y)
        BY DEF LinksSound
    <2>2. NextSound(m, S, y)
        BY <1>1, <1>2, <1>3, <2>1 DEF NodeSound, NextSound, parent
    <2>3. PrevSound(m, S, y)
        BY <1>1, <1>2, <1>3, <2>1 DEF NodeSound, PrevSound, parent, prev
    <2>4. ParentSound(m, S, y)
        BY <1>1, <1>2, <1>3, <2>1 DEF NodeSound, ParentSound, parent, prev
    <2>5. ChildSound(m, S, y)
        BY <1>1, <1>2, <1>3, <2>1 DEF NodeSound, ChildSound, parent, prev
    <2> QED
        BY <2>2, <2>3, <2>4, <2>5 DEF NodeSound
<1>5. Ordered(m, S)
    <2>1. PICK r \in [Nodes -> Nat] : Ranked(n, S, r)
        BY DEF Ordered
    <2> DEFINE q == [y \in Nodes |-> IF y = x THEN 2 * r[root] ELSE 2 * r[y] + 1]
    <2>2. q \in [Nodes -> Nat]
        BY <2>1, S \subseteq Nodes
    <2>3. ASSUME NEW y \in S, m[y].next # Null PROVE q[y] < q[m[y].next]
        <3>1. CASE y = x
            BY <3>1, <1>2, <2>1
        <3>2. CASE y # x /\ m[y].next = x
            <4>1. y = prev /\ prev # Null
                BY <3>2, <1>1, <1>2
            <4>2. r[y] < r[root]
                BY <4>1, <1>1, <2>1 DEF Ranked
            <4> QED
                BY <3>2, <4>2, <2>1
        <3>3. CASE y # x /\ m[y].next # x
            <4>1. m[y].next = n[y].next /\ n[y].next \in S
                BY <3>3, <2>3, <1>2 DEF LinksSound, NodeSound, NextSound
            <4>2. r[y] < r[n[y].next]
                BY <4>1, <2>3, <2>1 DEF Ranked
            <4> QED
                BY <3>3, <4>1, <4>2, <2>1
        <3> QED
            BY <3>1, <3>2, <3>3
    <2> QED
        BY <2>2, <2>3 DEF Ordered, Ranked
<1> QED
    BY <1>2, <1>4, <1>5 DEF LinksSound, m

\* Putting a node behind another one keeps links and order.
LEMMA PlaceAfterSound ==
    ASSUME NEW n \in [Nodes -> Links], NEW S \in SUBSET Nodes, NEW root \in S, NEW x \in S,
           x # root, n[x].parent = Null, n[root].parent # Null, LinksSound(n, S), Ordered(n, S),
           n[root].parent # x
    PROVE  LET m == PlaceAfter(n, root, x)
           IN  m \in [Nodes -> Links] /\ LinksSound(m, S) /\ Ordered(m, S)
<1> DEFINE m == PlaceAfter(n, root, x)
           next == n[root].next
           parent == n[root].parent
<1>1. /\ n[x].prev = Null /\ n[x].next = Null
      /\ next # Null => /\ next \in S /\ next # x /\ next # root
                        /\ n[next].prev = root /\ n[next].parent = parent
      /\ parent \in S /\ parent # root
      /\ next = Null => n[parent].last = root
      /\ \A y \in S : n[y].next # x /\ n[y].prev # x /\ n[y].child # x /\ n[y].last # x
    BY DEF LinksSound, NodeSound, NextSound, PrevSound, ParentSound, ChildSound
<1>2. /\ m \in [Nodes -> Links]
      /\ \A y \in Nodes :
           /\ m[y].parent = IF y = x THEN parent ELSE n[y].parent
           /\ m[y].prev = IF y = x THEN root
                          ELSE IF next # Null /\ y = next THEN x ELSE n[y].prev
           /\ m[y].next = IF y = x /\ next # Null THEN next
                          ELSE IF y = root THEN x ELSE n[y].next
           /\ m[y].child = n[y].child
           /\ m[y].last = IF next = Null /\ y = parent THEN x ELSE n[y].last
    BY <1>1, PlaceAfterAt, S \subseteq Nodes
<1>3. \A y \in S : n[y].prev = root => next = y
    BY DEF LinksSound, NodeSound, PrevSound
<1> HIDE DEF m, next, parent
<1>4. ASSUME NEW y \in S PROVE NodeSound(m, S, y)
    <2>1. NodeSound(n, S, y)
        BY DEF LinksSound
    <2>2. NextSound(m, S, y)
        BY <1>1, <1>2, <1>3, <2>1 DEF NodeSound, NextSound, parent, next
    <2>3. PrevSound(m, S, y)
        BY <1>1, <1>2, <1>3, <2>1 DEF NodeSound, PrevSound, parent
    <2>4. ParentSound(m, S, y)
        BY <1>1, <1>2, <1>3, <2>1 DEF NodeSound, ParentSound, parent, next
    <2>5. ChildSound(m, S, y)
        BY <1>1, <1>2, <1>3, <2>1 DEF NodeSound, ChildSound, parent, next
    <2> QED
        BY <2>2, <2>3, <2>4, <2>5 DEF NodeSound
<1>5. Ordered(m, S)
    <2>1. PICK r \in [Nodes -> Nat] : Ranked(n, S, r)
        BY DEF Ordered
    <2> DEFINE q == [y \in Nodes |-> IF y = x THEN 2 * r[root] + 1 ELSE 2 * r[y]]
    <2>2. q \in [Nodes -> Nat]
        BY <2>1, S \subseteq Nodes
    <2>3. ASSUME NEW y \in S, m[y].next # Null PROVE q[y] < q[m[y].next]
        <3>1. CASE y = x
            <4>1. next # Null /\ m[y].next = next
                BY <3>1, <2>3, <1>1, <1>2
            <4>2. r[root] < r[next]
                BY <4>1, <2>1 DEF Ranked, next
            <4> QED
                BY <3>1, <4>1, <4>2, <1>1, <2>1
        <3>2. CASE y = root
            BY <3>2, <1>2, <2>1
        <3>3. CASE y # x /\ y # root
            <4>1. m[y].next = n[y].next /\ n[y].next \in S
                BY <3>3, <2>3, <1>2 DEF LinksSound, NodeSound, NextSound
            <4>2. r[y] < r[n[y].next] /\ n[y].next # x
                BY <4>1, <2>3, <2>1, <1>1 DEF Ranked
            <4> QED
                BY <3>3, <4>1, <4>2, <2>1
        <3> QED
            BY <3>1, <3>2, <3>3
    <2> QED
        BY <2>2, <2>3 DEF Ordered, Ranked
<1> QED
    BY <1>2, <1>4, <1>5 DEF LinksSound, m

\* Taking a node out keeps links and order.
LEMMA UnlinkSound ==
    ASSUME NEW n \in [Nodes -> Links], NEW S \in SUBSET Nodes, NEW x \in S,
           LinksSound(n, S), Ordered(n, S)
    PROVE  LET m == Unlink(n, x)
           IN  /\ m \in [Nodes -> Links] /\ LinksSound(m, S) /\ Ordered(m, S)
               /\ \A y \in Nodes : m[y].parent = IF y = x THEN Null ELSE n[y].parent
               /\ m[x].child = n[x].child
<1> DEFINE m == Unlink(n, x)
           next == n[x].next
           prev == n[x].prev
           parent == n[x].parent
<1>1. /\ next # Null => /\ next \in S /\ next # x /\ n[next].prev = x /\ n[next].parent = parent
      /\ prev # Null => /\ prev \in S /\ prev # x /\ n[prev].next = x /\ n[prev].parent = parent
      /\ parent # Null => parent \in S /\ parent # x
      /\ parent # Null /\ prev = Null => n[parent].child = x
      /\ parent # Null /\ next = Null => n[parent].last = x
      /\ parent = Null => prev = Null /\ next = Null
      /\ x # Null
    BY S \subseteq Nodes DEF LinksSound, NodeSound, NextSound, PrevSound, ParentSound
<1>2. /\ m \in [Nodes -> Links]
      /\ \A y \in Nodes :
           /\ m[y].parent = IF y = x THEN Null ELSE n[y].parent
           /\ m[y].prev = IF y = x THEN Null
                          ELSE IF next # Null /\ y = next THEN prev ELSE n[y].prev
           /\ m[y].next = IF y = x THEN Null
                          ELSE IF prev # Null /\ y = prev THEN next ELSE n[y].next
           /\ m[y].child = IF prev = Null /\ parent # Null /\ y = parent
                           THEN next ELSE n[y].child
           /\ m[y].last = IF next = Null /\ parent # Null /\ y = parent
                          THEN prev ELSE n[y].last
    BY <1>1, UnlinkAt, S \subseteq Nodes
<1>3. \A y \in S : /\ n[y].next = x => prev = y
                   /\ n[y].prev = x => next = y
                   /\ n[y].child = x => parent = y /\ prev = Null
                   /\ n[y].last = x => parent = y /\ next = Null
    BY <1>1 DEF LinksSound, NodeSound, NextSound, PrevSound, ChildSound
<1>7. prev # Null /\ next # Null => prev # next
    <2> SUFFICES ASSUME prev # Null, next # Null PROVE prev # next
        OBVIOUS
    <2>1. PICK r \in [Nodes -> Nat] : Ranked(n, S, r)
        BY DEF Ordered
    <2>2. r[prev] < r[x] /\ r[x] < r[next]
        BY <1>1, <2>1 DEF Ranked
    <2>3. r[prev] \in Nat /\ r[x] \in Nat /\ r[next] \in Nat
        BY <1>1, <2>1
    <2> QED
        BY <2>2, <2>3
<1>8. parent # Null => (n[parent].child = Null <=> n[parent].last = Null)
    BY <1>1 DEF LinksSound, NodeSound, ChildSound
<1> HIDE DEF m, next, prev, parent
<1>4. ASSUME NEW y \in S PROVE NodeSound(m, S, y)
    <2>0. y \in Nodes /\ y # Null
        BY S \subseteq Nodes
    <2>1. NodeSound(n, S, y)
        BY DEF LinksSound
    <2>2. NextSound(m, S, y)
        <3>1. CASE y = x
            BY <3>1, <1>2 DEF NextSound
        <3>2. CASE prev # Null /\ y = prev
            BY <3>2, <1>1, <1>2, <1>7 DEF NextSound
        <3>3. CASE y # x /\ ~ (prev # Null /\ y = prev)
            <4>1. m[y].next = n[y].next /\ n[y].next # x
                BY <3>3, <2>0, <1>2, <1>3
            <4>2. n[y].next # Null => n[y].next # next
                BY <3>3, <1>1, <2>1 DEF NodeSound, NextSound
            <4> QED
                BY <3>3, <4>1, <4>2, <1>2, <2>1 DEF NodeSound, NextSound
        <3> QED
            BY <3>1, <3>2, <3>3
    <2>3. PrevSound(m, S, y)
        <3>1. CASE y = x
            BY <3>1, <1>2 DEF PrevSound
        <3>2. CASE next # Null /\ y = next
            BY <3>2, <1>1, <1>2, <1>7 DEF PrevSound
        <3>3. CASE y # x /\ ~ (next # Null /\ y = next)
            <4>1. m[y].prev = n[y].prev /\ n[y].prev # x
                BY <3>3, <2>0, <1>2, <1>3
            <4>2. n[y].prev # Null => n[y].prev # prev
                BY <3>3, <1>1, <2>1 DEF NodeSound, PrevSound
            <4> QED
                BY <3>3, <4>1, <4>2, <1>2, <2>1 DEF NodeSound, PrevSound
        <3> QED
            BY <3>1, <3>2, <3>3
    <2>4. ParentSound(m, S, y)
        BY <1>1, <1>2, <1>3, <2>1 DEF NodeSound, ParentSound
    <2>5. ChildSound(m, S, y)
        <3>1. m[y].child = Null <=> m[y].last = Null
            BY <1>1, <1>2, <1>8, <2>1 DEF NodeSound, ChildSound
        <3>2. m[y].child # Null => /\ m[y].child \in S /\ m[m[y].child].parent = y
                                   /\ m[m[y].child].prev = Null
            <4>1. CASE prev = Null /\ parent # Null /\ y = parent
                BY <4>1, <1>1, <1>2
            <4>2. CASE ~ (prev = Null /\ parent # Null /\ y = parent)
                <5>1. m[y].child = n[y].child /\ n[y].child # x
                    BY <4>2, <2>0, <1>2, <1>3
                <5>2. n[y].child # Null /\ n[y].child = next => prev = Null
                    BY <1>1, <2>1 DEF NodeSound, ChildSound
                <5> QED
                    BY <5>1, <5>2, <1>2, <2>1 DEF NodeSound, ChildSound
            <4> QED
                BY <4>1, <4>2
        <3>3. m[y].last # Null => /\ m[y].last \in S /\ m[m[y].last].parent = y
                                  /\ m[m[y].last].next = Null
            <4>1. CASE next = Null /\ parent # Null /\ y = parent
                BY <4>1, <1>1, <1>2
            <4>2. CASE ~ (next = Null /\ parent # Null /\ y = parent)
                <5>1. m[y].last = n[y].last /\ n[y].last # x
                    BY <4>2, <2>0, <1>2, <1>3
                <5>2. n[y].last # Null /\ n[y].last = prev => next = Null
                    BY <1>1, <2>1 DEF NodeSound, ChildSound
                <5> QED
                    BY <5>1, <5>2, <1>2, <2>1 DEF NodeSound, ChildSound
            <4> QED
                BY <4>1, <4>2
        <3> QED
            BY <3>1, <3>2, <3>3 DEF ChildSound
    <2> QED
        BY <2>2, <2>3, <2>4, <2>5 DEF NodeSound
<1>5. Ordered(m, S)
    <2>1. PICK r \in [Nodes -> Nat] : Ranked(n, S, r)
        BY DEF Ordered
    <2>2. ASSUME NEW y \in S, m[y].next # Null PROVE r[y] < r[m[y].next]
        <3>1. CASE prev # Null /\ y = prev
            <4>1. m[y].next = next /\ next # Null
                BY <3>1, <2>2, <1>1, <1>2
            <4>2. r[prev] < r[x] /\ r[x] < r[next]
                BY <3>1, <4>1, <2>1, <1>1 DEF Ranked, next
            <4>3. r[prev] \in Nat /\ r[x] \in Nat /\ r[next] \in Nat
                BY <3>1, <4>1, <1>1, <2>1
            <4> QED
                BY <3>1, <4>1, <4>2, <4>3
        <3>2. CASE ~ (prev # Null /\ y = prev)
            BY <3>2, <2>2, <1>2, <2>1 DEF Ranked
        <3> QED
            BY <3>1, <3>2
    <2> QED
        BY <2>1, <2>2 DEF Ordered, Ranked
<1>6. m[x].child = n[x].child
    BY <1>1, <1>2
<1> QED
    BY <1>2, <1>4, <1>5, <1>6 DEF LinksSound, m

(* A node that mcobject_async_malloc gives has no links. *)
LEMMA CreateSound ==
    ASSUME NEW n \in [Nodes -> Links], NEW S \in SUBSET Nodes, NEW x \in Nodes \ S,
           LinksSound(n, S), Ordered(n, S)
    PROVE  LET m == [n EXCEPT ![x] = NoLinks]
           IN  /\ m \in [Nodes -> Links] /\ m[x].parent = Null
               /\ LinksSound(m, S \cup {x}) /\ Ordered(m, S \cup {x})
<1> DEFINE m == [n EXCEPT ![x] = NoLinks]
<1>1. /\ m \in [Nodes -> Links]
      /\ \A y \in Nodes : m[y] = IF y = x THEN NoLinks ELSE n[y]
      /\ \A y \in S : m[y] = n[y]
    BY DEF Links, NoLinks
<1>2. /\ NoLinks.parent = Null /\ NoLinks.prev = Null /\ NoLinks.next = Null
      /\ NoLinks.child = Null /\ NoLinks.last = Null
    BY DEF NoLinks
<1> HIDE DEF m
<1>3. ASSUME NEW y \in S PROVE NodeSound(m, S \cup {x}, y)
    <2>1. NodeSound(n, S, y)
        BY DEF LinksSound
    <2>2. ParentSound(m, S \cup {x}, y) /\ ChildSound(m, S \cup {x}, y)
        BY <2>1, <1>1 DEF NodeSound, ParentSound, ChildSound
    <2>3. NextSound(m, S \cup {x}, y) /\ PrevSound(m, S \cup {x}, y)
        BY <2>1, <1>1 DEF NodeSound, NextSound, PrevSound
    <2> QED
        BY <2>2, <2>3 DEF NodeSound
<1>4. NodeSound(m, S \cup {x}, x)
    BY <1>1, <1>2 DEF NodeSound, NextSound, PrevSound, ParentSound, ChildSound
<1>5. Ordered(m, S \cup {x})
    <2>1. PICK r \in [Nodes -> Nat] : Ranked(n, S, r)
        BY DEF Ordered
    <2>2. \A y \in S \cup {x} : m[y].next # Null => y \in S
        BY <1>1, <1>2
    <2> QED
        BY <2>1, <2>2, <1>1 DEF Ordered, Ranked
<1> QED
    BY <1>1, <1>2, <1>3, <1>4, <1>5 DEF LinksSound, m

(* Nodes that are linked with no other can go. *)
LEMMA DropSound ==
    ASSUME NEW n \in [Nodes -> Links], NEW S \in SUBSET Nodes, NEW D \in SUBSET S,
           LinksSound(n, S), Ordered(n, S),
           \A y \in S : n[y].parent \in D => y \in D,
           \A y \in D : n[y].parent \in D \cup {Null}
    PROVE  LinksSound(n, S \ D) /\ Ordered(n, S \ D)
<1>1. Null \notin D
    OBVIOUS
<1>2. ASSUME NEW y \in S \ D PROVE NodeSound(n, S \ D, y)
    <2>1. NodeSound(n, S, y)
        BY DEF LinksSound
    <2>2. n[y].parent \notin D
        OBVIOUS
    <2>3. NextSound(n, S \ D, y)
        BY <1>1, <2>1, <2>2 DEF NodeSound, NextSound, ParentSound
    <2>4. PrevSound(n, S \ D, y)
        BY <1>1, <2>1, <2>2 DEF NodeSound, PrevSound, ParentSound
    <2>5. ParentSound(n, S \ D, y)
        BY <2>1, <2>2 DEF NodeSound, ParentSound
    <2>6. ChildSound(n, S \ D, y)
        BY <1>1, <2>1 DEF NodeSound, ChildSound
    <2> QED
        BY <2>3, <2>4, <2>5, <2>6 DEF NodeSound
<1>3. Ordered(n, S \ D)
    BY DEF Ordered, Ranked
<1> QED
    BY <1>2, <1>3 DEF LinksSound

(* A node without a first child is nobody's parent: the first of its
   children would have none before it. *)
LEMMA NoChildren ==
    ASSUME NEW n \in [Nodes -> Links], NEW S \in SUBSET Nodes, NEW x \in S,
           LinksSound(n, S), Ordered(n, S), n[x].child = Null
    PROVE  \A y \in S : n[y].parent # x
<1> DEFINE Children == {y \in S : n[y].parent = x}
<1>1. SUFFICES ASSUME Children # {} PROVE FALSE
    OBVIOUS
<1>2. PICK r \in [Nodes -> Nat] : Ranked(n, S, r)
    BY DEF Ordered
<1> DEFINE Ranks == {r[y] : y \in Children}
<1>3. Ranks \subseteq Nat /\ Ranks # {}
    BY <1>1, <1>2
<1>4. PICK k \in Ranks : \A j \in Ranks : ~ (<<j, k>> \in OpToRel(<, Nat))
    BY <1>3, NatLessThanWellFounded, WFMin
<1>5. \A j \in Ranks : ~ (j < k)
    BY <1>3, <1>4 DEF OpToRel
<1>6. PICK y \in Children : r[y] = k
    OBVIOUS
<1>7. n[y].prev = Null
    <2> SUFFICES ASSUME n[y].prev # Null PROVE FALSE
        OBVIOUS
    <2>1. n[y].prev \in Children /\ n[n[y].prev].next = y
        BY DEF LinksSound, NodeSound, PrevSound
    <2>2. r[n[y].prev] < r[y]
        BY <2>1, <1>2 DEF Ranked
    <2> QED
        BY <2>1, <2>2, <1>5, <1>6
<1>8. n[x].child = y
    BY <1>7 DEF LinksSound, NodeSound, ParentSound
<1> QED
    BY <1>8, S \subseteq Nodes

-----------------------------------------------------------------------------

\* The document alone is linked soundly.
LEMMA LinkInvInit == Init => LinkInv
<1> SUFFICES ASSUME Init PROVE LinkInv
    OBVIOUS
<1>1. /\ NoLinks \in Links
      /\ NoLinks.parent = Null /\ NoLinks.prev = Null /\ NoLinks.next = Null
      /\ NoLinks.child = Null /\ NoLinks.last = Null
    BY DEF NoLinks, Links
<1>2. TypeOK /\ nodes[Document].parent = Null
    BY <1>1 DEF Init, TypeOK
<1>3. \A y \in live : nodes[y] = NoLinks
    BY DEF Init
<1>4. TreeLinked
    BY <1>1, <1>3 DEF TreeLinked, LinksSound, NodeSound, NextSound, PrevSound, ParentSound, ChildSound
<1>5. Ordered(nodes, live)
    <2>1. [y \in Nodes |-> 0] \in [Nodes -> Nat]
        OBVIOUS
    <2> QED
        BY <2>1, <1>1, <1>3 DEF Ordered, Ranked
<1> QED
    BY <1>2, <1>4, <1>5 DEF LinkInv

(* What is below a node: nothing else has its parent there, and all but the
   node itself have theirs. *)
LEMMA SubtreeClosed ==
    ASSUME LinkInv, NEW x \in live \ {Document}
    PROVE  /\ x \in Subtree(x) /\ Subtree(x) \subseteq live \ {Document}
           /\ \A y \in live : nodes[y].parent \in Subtree(x) => y \in Subtree(x)
           /\ \A y \in Subtree(x) \ {x} : nodes[y].parent \in Subtree(x)
<1>1. x \in Subtree(x) /\ Subtree(x) \subseteq live
    BY DEF Subtree
<1>2. Document \notin Subtree(x)
    <2>1. ClosedBelow(live \ {Document})
        BY DEF ClosedBelow, LinkInv, TypeOK
    <2> QED
        BY <2>1 DEF Subtree
<1>3. ASSUME NEW y \in live, nodes[y].parent \in Subtree(x) PROVE y \in Subtree(x)
    BY <1>3 DEF Subtree, ClosedBelow
<1>4. ASSUME NEW y \in Subtree(x) \ {x}, nodes[y].parent \notin Subtree(x) PROVE FALSE
    <2> DEFINE D == Subtree(x) \ {y}
    <2>1. D \in SUBSET live /\ x \in D
        BY <1>1
    <2>2. ClosedBelow(D)
        BY <1>3, <1>4 DEF ClosedBelow
    <2>3. y \in D
        BY <2>1, <2>2 DEF Subtree
    <2> QED
        BY <2>3
<1> QED
    BY <1>1, <1>2, <1>3, <1>4

\* Every call keeps the links sound and the brothers in order.
LEMMA LinkInvStep == LinkInv /\ [Next]_vars => LinkInv'
<1> SUFFICES ASSUME LinkInv, [Next]_vars PROVE LinkInv'
    OBVIOUS
<1> USE DEF LinkInv, TypeOK, TreeLinked
<1>0. ASSUME UNCHANGED <<nodes, live, lost>> PROVE LinkInv'
    BY <1>0 DEF LinksSound, NodeSound, NextSound, PrevSound, ParentSound, ChildSound, Ordered, Ranked
<1>1. CASE InsertText
    <2>1. CASE \E n \in Lengths, target \in live \ {Document} : KeepLinks
        BY <2>1, <1>0 DEF KeepLinks
    <2>2. ASSUME NEW target \in live \ {Document}, NEW x \in FreeNodes, NEW new,
                 InsertTextNode(target, x, new)
          PROVE  LinkInv'
        <3> DEFINE m == [nodes EXCEPT ![x] = NoLinks]
        <3>1. x \in Nodes \ live /\ x # target /\ x # Document /\ target \in live
            BY DEF FreeNodes
        <3>2. /\ m \in [Nodes -> Links] /\ m[x].parent = Null
              /\ LinksSound(m, live \cup {x}) /\ Ordered(m, live \cup {x})
            BY <3>1, CreateSound
        <3>3. m[Document].parent = Null
            BY <3>1
        <3> HIDE DEF m
        <3> DEFINE k == AddChild(m, target, x)
        <3>4. k \in [Nodes -> Links] /\ LinksSound(k, live \cup {x}) /\ Ordered(k, live \cup {x})
            BY <3>1, <3>2, AddChildSound
        <3>5. k[Document].parent = Null
            BY <3>1, <3>2, <3>3, AddChildAt
        <3>6. nodes' = k /\ live' = live \cup {x} /\ lost' = lost
            BY <2>2 DEF InsertTextNode, m
        <3> HIDE DEF k
        <3> QED
            BY <3>1, <3>4, <3>5, <3>6
    <2> QED
        BY <1>1, <2>1, <2>2 DEF InsertText, InsertTextInLast
<1>2. CASE CreateNode
    <2>1. PICK x \in FreeNodes : /\ nodes' = [nodes EXCEPT ![x] = NoLinks]
                                 /\ live' = live \cup {x} /\ lost' = lost
        BY <1>2 DEF CreateNode
    <2>2. x \in Nodes \ live /\ x # Document
        BY DEF FreeNodes
    <2>3. /\ nodes' \in [Nodes -> Links] /\ LinksSound(nodes', live')
          /\ Ordered(nodes', live') /\ nodes'[Document].parent = Null
        BY <2>1, <2>2, CreateSound
    <2> QED
        BY <2>1, <2>2, <2>3
<1>3. CASE AppendChild
    <2>1. PICK target \in live, x \in live :
              /\ MayInsert(target, x) /\ nodes' = AddChild(nodes, target, x)
              /\ live' = live /\ lost' = lost
        BY <1>3 DEF AppendChild
    <2>2. x # target /\ x # Document /\ nodes[x].parent = Null
        BY <2>1, SubtreeClosed DEF MayInsert, Detached
    <2>3. /\ nodes' \in [Nodes -> Links] /\ LinksSound(nodes', live) /\ Ordered(nodes', live)
          /\ nodes'[Document].parent = Null
        <3>1. LinksSound(nodes, live) /\ Ordered(nodes, live) /\ live \in SUBSET Nodes
            OBVIOUS
        <3>2. /\ nodes' \in [Nodes -> Links] /\ LinksSound(nodes', live)
              /\ Ordered(nodes', live)
            BY <3>1, <2>1, <2>2, AddChildSound
        <3>3. nodes'[Document].parent = Null
            BY <3>1, <2>1, <2>2, AddChildAt
        <3> QED
            BY <3>2, <3>3
    <2> QED
        BY <2>1, <2>3
<1>4. CASE InsertBefore
    <2>1. PICK target \in live, x \in live :
              /\ MayInsert(target, x) /\ ~ Detached(target) /\ nodes' = PlaceBefore(nodes, target, x)
              /\ live' = live /\ lost' = lost
        BY <1>4 DEF InsertBefore
    <2>2. /\ x # target /\ x # Document /\ nodes[x].parent = Null
          /\ nodes[target].parent # Null /\ nodes[target].parent # target
          /\ nodes[target].prev # x /\ nodes[target].parent # x
        BY <2>1, SubtreeClosed DEF MayInsert, Detached, LinksSound, NodeSound, ParentSound, PrevSound
    <2>3. /\ nodes' \in [Nodes -> Links] /\ LinksSound(nodes', live) /\ Ordered(nodes', live)
          /\ nodes'[Document].parent = Null
        BY <2>1, <2>2, PlaceBeforeSound, PlaceBeforeAt
    <2> QED
        BY <2>1, <2>3
<1>5. CASE InsertAfter
    <2>1. PICK target \in live, x \in live :
              /\ MayInsert(target, x) /\ ~ Detached(target) /\ nodes' = PlaceAfter(nodes, target, x)
              /\ live' = live /\ lost' = lost
        BY <1>5 DEF InsertAfter
    <2>2. /\ x # target /\ x # Document /\ nodes[x].parent = Null
          /\ nodes[target].parent # Null /\ nodes[target].parent # target
          /\ nodes[target].next # x /\ nodes[target].parent # x
        BY <2>1, SubtreeClosed DEF MayInsert, Detached, LinksSound, NodeSound, ParentSound, NextSound
    <2>3. /\ nodes' \in [Nodes -> Links] /\ LinksSound(nodes', live) /\ Ordered(nodes', live)
          /\ nodes'[Document].parent = Null
        BY <2>1, <2>2, PlaceAfterSound, PlaceAfterAt
    <2> QED
        BY <2>1, <2>3
<1>6. CASE RemoveNode
    <2>1. PICK x \in live \ {Document} : nodes' = Unlink(nodes, x) /\ live' = live /\ lost' = lost
        BY <1>6 DEF RemoveNode
    <2> QED
        BY <2>1, UnlinkSound
<1>7. CASE DeleteNode
    <2>1. PICK x \in live \ {Document} :
              /\ nodes[x].child = Null
              /\ nodes' = Unlink(nodes, x) /\ live' = live \ {x} /\ lost' = lost
        BY <1>7 DEF DeleteNode
    <2>2. \A y \in live : nodes[y].parent # x
        BY <2>1, NoChildren
    <2> DEFINE m == Unlink(nodes, x)
    <2>3. /\ m \in [Nodes -> Links] /\ LinksSound(m, live) /\ Ordered(m, live)
          /\ \A y \in Nodes : m[y].parent = IF y = x THEN Null ELSE nodes[y].parent
        BY UnlinkSound
    <2>4. nodes' = m
        BY <2>1
    <2> HIDE DEF m
    <2>5. LinksSound(m, live \ {x}) /\ Ordered(m, live \ {x})
        BY <2>2, <2>3, DropSound
    <2> QED
        BY <2>1, <2>3, <2>4, <2>5
<1>8. CASE DeleteRecursive
    <2>1. PICK x \in live \ {Document} : Deleted(x, Subtree(x), FreedOf(x, Subtree(x)))
        BY <1>8 DEF DeleteRecursive
    <2> DEFINE m == Unlink(nodes, x)
               below == Subtree(x)
    <2>2. nodes' = m /\ live' = live \ below /\ lost' = lost \cup (below \ FreedOf(x, below))
        BY <2>1 DEF Deleted
    <2>3. /\ m \in [Nodes -> Links] /\ LinksSound(m, live) /\ Ordered(m, live)
          /\ \A y \in Nodes : m[y].parent = IF y = x THEN Null ELSE nodes[y].parent
        BY UnlinkSound
    <2>4. /\ x \in below /\ below \subseteq live \ {Document}
          /\ \A y \in live : nodes[y].parent \in below => y \in below
          /\ \A y \in below \ {x} : nodes[y].parent \in below
        BY SubtreeClosed
    <2> HIDE DEF m, below
    <2>5. LinksSound(m, live \ below) /\ Ordered(m, live \ below)
        BY <2>3, <2>4, DropSound, ZenonT(60)
    <2> QED
        BY <2>2, <2>3, <2>4, <2>5
<1>9. CASE TextSet
    BY <1>9, <1>0 DEF TextSet, KeepLinks
<1>10. CASE Clean
    <2>1. /\ nodes' = [nodes EXCEPT ![Document] = NoLinks] /\ live' = {Document} /\ lost' = {}
        BY <1>10 DEF Clean
    <2>2. LinksSound(nodes, {}) /\ Ordered(nodes, {})
        BY DEF LinksSound, Ordered, Ranked
    <2>3. /\ nodes' \in [Nodes -> Links] /\ nodes'[Document].parent = Null
          /\ LinksSound(nodes', {Document}) /\ Ordered(nodes', {Document})
        <3> DEFINE m == [nodes EXCEPT ![Document] = NoLinks]
        <3>1. /\ m \in [Nodes -> Links] /\ m[Document].parent = Null
              /\ LinksSound(m, {} \cup {Document}) /\ Ordered(m, {} \cup {Document})
            BY <2>2, CreateSound
        <3>2. {} \cup {Document} = {Document} /\ nodes' = m
            BY <2>1
        <3> HIDE DEF m
        <3> QED
            BY <3>1, <3>2
    <2> QED
        BY <2>1, <2>3
<1>11. CASE UNCHANGED vars
    BY <1>11, <1>0 DEF vars
<1> QED
    BY <1>1, <1>2, <1>3, <1>4, <1>5, <1>6, <1>7, <1>8, <1>9, <1>10, <1>11 DEF Next

(* However a tree is edited, by calls that insert, remove and delete nodes
   in any order, its links agree and lead to nodes that are not freed. *)
THEOREM LinksStaySound == Spec => []TreeLinked
<1>1. LinkInv => TreeLinked
    BY DEF LinkInv
<1> QED
    BY <1>1, LinkInvInit, LinkInvStep, PTL DEF Spec

-----------------------------------------------------------------------------
(* The texts.  What is assumed of the nodes is named where it is needed.  *)

HIDE NodesAssumption

(* The blocks of the texts t of the nodes S, and TextInv of any t, S and a. *)
BlocksOf(t, S) == {t[x].block : x \in {y \in S : t[y] # Null}}

TextsSound(t, S, a) ==
    /\ t \in [Nodes -> String \cup {Null}]
    /\ \A x \in S : t[x] # Null => StringSound(t[x])
    /\ \A x, y \in S : x # y /\ t[x] # Null /\ t[y] # Null => t[x].block # t[y].block
    /\ ArenaSound(a, BlocksOf(t, S))

EditInv == LinkInv /\ IsFiniteSet(live) /\ TextInv

\* TextInv, of the state and of the next.
LEMMA TextsAre == (TextInv <=> TextsSound(text, live, arena)) /\ (TextInv' <=> TextsSound(text', live', arena'))
    BY Zenon DEF TextInv, TextsSound, Blocks, BlocksOf

\* What a text's block leaves: the blocks of the other texts.
LEMMA OtherBlocks ==
    ASSUME NEW t, NEW S, NEW a, TextsSound(t, S, a), NEW x \in S
    PROVE  /\ t[x] # Null => /\ BlocksOf(t, S \ {x}) = BlocksOf(t, S) \ {t[x].block}
                             /\ t[x].block \in BlocksOf(t, S)
           /\ t[x] = Null => BlocksOf(t, S \ {x}) = BlocksOf(t, S)
<1>1. CASE t[x] # Null
  <2>1. t[x].block \in BlocksOf(t, S)
    BY <1>1 DEF BlocksOf
  <2>2. BlocksOf(t, S \ {x}) \subseteq BlocksOf(t, S) \ {t[x].block}
    BY <1>1 DEF BlocksOf, TextsSound
  <2>3. BlocksOf(t, S) \ {t[x].block} \subseteq BlocksOf(t, S \ {x})
    BY <1>1 DEF BlocksOf
  <2>4. QED
    BY <1>1, <2>1, <2>2, <2>3
<1>2. CASE t[x] = Null
    BY <1>2 DEF BlocksOf
<1>3. QED
    BY <1>1, <1>2

\* A text is put into a node.
LEMMA PutText ==
    ASSUME NEW t, NEW S \in SUBSET Nodes, NEW a, TextsSound(t, S, a), NEW x \in Nodes, NEW b, NEW V,
           ArenaSound(b, V), NEW str, StringSound(str),
           BlocksOf(t, S \ {x}) \cup {str.block} \subseteq V, str.block \notin BlocksOf(t, S \ {x})
    PROVE  TextsSound([t EXCEPT ![x] = str], S \cup {x}, b)
<1>1. PICK u : u = [t EXCEPT ![x] = str]
    OBVIOUS
<1>2. t \in [Nodes -> String \cup {Null}] /\ str \in String
    BY DEF TextsSound, StringSound
<1>3. u \in [Nodes -> String \cup {Null}] /\ u[x] = str /\ \A y \in Nodes \ {x} : u[y] = t[y]
    BY <1>1, <1>2
<1>4. \A y \in S \ {x} : u[y] = t[y] /\ (u[y] # Null => u[y].block \in BlocksOf(t, S \ {x}))
    BY <1>3 DEF BlocksOf
<1>5. \A y \in S \cup {x} : u[y] # Null => StringSound(u[y])
    BY <1>3, <1>4 DEF TextsSound
<1>6. \A y, z \in S \cup {x} : y # z /\ u[y] # Null /\ u[z] # Null => u[y].block # u[z].block
  <2>1. SUFFICES ASSUME NEW y \in S \cup {x}, NEW z \in S \cup {x}, y # z, u[y] # Null, u[z] # Null
                 PROVE  u[y].block # u[z].block
    OBVIOUS
  <2>2. CASE y = x
    BY <1>3, <1>4, <2>1, <2>2
  <2>3. CASE z = x
    BY <1>3, <1>4, <2>1, <2>3
  <2>4. CASE y # x /\ z # x
    BY <1>4, <2>1, <2>4 DEF TextsSound
  <2>5. QED
    BY <2>2, <2>3, <2>4
<1>7. BlocksOf(u, S \cup {x}) \subseteq V
  <2>1. SUFFICES ASSUME NEW y \in S \cup {x}, u[y] # Null PROVE u[y].block \in V
    BY DEF BlocksOf
  <2>2. QED
    BY <1>3, <1>4, <2>1
<1>8. ArenaSound(b, BlocksOf(u, S \cup {x}))
    BY <1>7, Fewer
<1>9. QED
    BY <1>1, <1>3, <1>5, <1>6, <1>8 DEF TextsSound

\* The texts of fewer nodes, and of them those that are left.
LEMMA DropTexts ==
    ASSUME NEW t, NEW S \in SUBSET Nodes, NEW a, TextsSound(t, S, a), NEW u, NEW T \in SUBSET Nodes, NEW b,
           u \in [Nodes -> String \cup {Null}],
           \A y \in T : u[y] # Null => y \in S /\ u[y] = t[y],
           ArenaSound(b, BlocksOf(u, T))
    PROVE  TextsSound(u, T, b)
<1>1. \A y \in T : u[y] # Null => StringSound(u[y])
    BY DEF TextsSound
<1>2. \A y, z \in T : y # z /\ u[y] # Null /\ u[z] # Null => u[y].block # u[z].block
    BY DEF TextsSound
<1>3. QED
    BY <1>1, <1>2 DEF TextsSound

-----------------------------------------------------------------------------
(***************************************************************************)
(* The texts the builder makes.                                            *)
(***************************************************************************)
\* A decoded text has a block of its own, with room for its 0.
LEMMA DecodedSound ==
    ASSUME NEW U, ArenaSound(arena, U), NEW n \in Nat
    PROVE  LET d == Decoded(n)
           IN  /\ ArenaSound(d.arena, U \cup {d.str.block}) /\ d.str.block \notin U
               /\ StringSound(d.str) /\ d.str.length = n /\ n < d.str.block.size
<1>1. PICK size \in Nat \ {0} : size = n + 1
    OBVIOUS
<1>2. PICK a, str : a = StringInit(arena, size).arena /\ str = StringInit(arena, size).str
    OBVIOUS
<1>3. /\ ArenaSound(a, U \cup {str.block}) /\ str.block \notin U
      /\ StringSound(str) /\ str.length = 0 /\ ~str.cropped
    BY <1>2, StringInitSound
<1>4. PICK b, new : b = StringAppend(a, str, n).arena /\ new = StringAppend(a, str, n).str
    OBVIOUS
<1>5. /\ ArenaSound(b, ((U \cup {str.block}) \ {str.block}) \cup {new.block})
      /\ new.block \notin (U \cup {str.block}) \ {str.block}
      /\ StringSound(new) /\ new.length = str.length + n /\ new.cropped = str.cropped
  <2>1. str.block \in U \cup {str.block}
    OBVIOUS
  <2>2. QED
    BY <1>3, <1>4, <2>1, StringAppendSound
<1>6. (U \cup {str.block}) \ {str.block} = U
    BY <1>3
<1>7. new.length = n /\ n < new.block.size
  <2>1. new.length = n /\ new.length + 1 <= new.block.size
    BY <1>3, <1>5 DEF StringSound, Fits
  <2>2. new.block.size \in Nat
    BY <1>5 DEF StringSound, String, Block
  <2>3. QED
    BY <2>1, <2>2
<1>8. Decoded(n).arena = b /\ Decoded(n).str = new
    BY <1>1, <1>2, <1>4 DEF Decoded
<1>9. QED
    BY <1>5, <1>6, <1>7, <1>8

\* White space cut off a text takes a block of its own and leaves the text its.
LEMMA SplitSound ==
    ASSUME NEW U, NEW m, ArenaSound(m.arena, U \cup {m.str.block}), m.str.block \notin U,
           StringSound(m.str), NEW ws \in Nat, ws < m.str.length, ws < m.str.block.size
    PROVE  LET d == Split(m, ws)
           IN  /\ ArenaSound(d.arena, U \cup {d.str.block}) /\ d.str.block \notin U
               /\ StringSound(d.str)
<1>1. CASE ws = 0
    BY <1>1 DEF Split
<1>2. CASE ws # 0
  <2>1. PICK size \in Nat \ {0} : size = ws + 2
    OBVIOUS
  <2>2. PICK V : V = U \cup {m.str.block}
    OBVIOUS
  <2>3. PICK a, str : a = StringInit(m.arena, size).arena /\ str = StringInit(m.arena, size).str
    OBVIOUS
  <2>4. ArenaSound(a, V \cup {str.block}) /\ str.block \notin V /\ StringSound(str)
    BY <2>2, <2>3, StringInitSound
  <2>5. PICK b : b = StringAppend(a, str, ws).arena
    OBVIOUS
  <2>6. ArenaSound(b, ((V \cup {str.block}) \ {str.block}) \cup {StringAppend(a, str, ws).str.block})
    <3>1. str.block \in V \cup {str.block}
      OBVIOUS
    <3>2. QED
      BY <2>4, <2>5, <3>1, StringAppendSound
  <2>7. ArenaSound(b, V)
    <3>1. V \subseteq ((V \cup {str.block}) \ {str.block}) \cup {StringAppend(a, str, ws).str.block}
      BY <2>4
    <3>2. QED
      BY <2>6, <3>1, Fewer
  <2>8. PICK new : new = StringCrop(m.str, ws)
    OBVIOUS
  <2>9. ArenaSound(b, (V \ {m.str.block}) \cup {new.block}) /\ new.block \notin V \ {m.str.block} /\ StringSound(new)
    <3>1. m.str.length \in Nat /\ m.str.block \in V
      BY <2>2 DEF StringSound, String
    <3>2. ws <= m.str.length
      BY <3>1
    <3>3. QED
      BY <2>7, <2>8, <3>1, <3>2, StringCropSound
  <2>10. V \ {m.str.block} = U
    BY <2>2
  <2>11. Split(m, ws).arena = b /\ Split(m, ws).str = new
    BY <1>2, <2>1, <2>3, <2>5, <2>8 DEF Split
  <2>12. QED
    BY <2>9, <2>10, <2>11
<1>3. QED
    BY <1>1, <1>2

-----------------------------------------------------------------------------
(***************************************************************************)
(* The texts delete_recursive frees, one after the other.                  *)
(***************************************************************************)
\* A finite set as a sequence has each element once.
LEMMA SetToSeqFacts ==
    ASSUME NEW S, IsFiniteSet(S)
    PROVE  \E n \in Nat : /\ SetToSeq(S) \in [1 .. n -> S]
                          /\ \A i, j \in 1 .. n : SetToSeq(S)[i] = SetToSeq(S)[j] => i = j
                          /\ \A x \in S : \E i \in 1 .. n : SetToSeq(S)[i] = x
<1>1. PICK n \in Nat : n = Cardinality(S)
    BY FS_CardinalityType
<1>2. DEFINE Counts(f) == f \in [1 .. n -> S] /\ \A i, j \in 1 .. n : f[i] = f[j] => i = j
<1>3. PICK f \in Bijection(1 .. n, S) : TRUE
    BY <1>1, FS_CardinalityType DEF ExistsBijection
<1>4. Counts(f)
    BY <1>3 DEF Bijection, Injection, Surjection, IsInjective
<1>5. PICK g : g = SetToSeq(S)
    OBVIOUS
<1>6. Counts(g)
  <2>1. g = CHOOSE h \in [1 .. n -> S] : IsInjective(h)
    BY <1>1, <1>5 DEF SetToSeq
  <2>2. f \in [1 .. n -> S] /\ IsInjective(f)
    BY <1>4 DEF IsInjective
  <2>3. g \in [1 .. n -> S] /\ IsInjective(g)
    BY <2>1, <2>2
  <2>4. QED
    BY <2>3 DEF IsInjective
\* As many places as elements: each is somewhere.
<1>7. {g[i] : i \in 1 .. n} = S
  <2>1. PICK T : T = {g[i] : i \in 1 .. n}
    OBVIOUS
  <2>2. T \subseteq S
    BY <1>6, <2>1
  <2>3. IsFiniteSet(1 .. n) /\ Cardinality(1 .. n) = n
    BY FS_Interval
  <2>4. g \in Bijection(1 .. n, T)
    BY <1>6, <2>1 DEF Bijection, Injection, Surjection, IsInjective
  <2>5. Cardinality(T) = n
    BY <2>3, <2>4, FS_Bijection DEF ExistsBijection
  <2>6. QED
    BY <1>1, <2>1, <2>2, <2>5, FS_Subset
<1>8. QED
    BY <1>5, <1>6, <1>7

\* The arena after the texts of the nodes in seq are freed.
Folded(a, seq) == FoldLeft(WithoutText, a, seq)

\* It gets there in n steps.
FoldedIn(a, n, seq) ==
    \E g : /\ g[0] = a /\ g[n] = Folded(a, seq)
           /\ \A k \in 1 .. n : g[k] = WithoutText(g[k - 1], seq[k])

\* The steps of the fold, one for each text.
LEMMA FoldSteps ==
    ASSUME NEW a, NEW n \in Nat, NEW seq, DOMAIN seq = 1 .. n
    PROVE  FoldedIn(a, n, seq)
<1> DEFINE Value(f, s) == IF s = {} THEN a ELSE WithoutText(f[s \ {Max(s)}], seq[Max(s)])
           Defined(k) == \E f : f = [s \in SUBSET (1 .. k) |-> Value(f, s)]
           Undefined == {k \in 0 .. n : ~Defined(k)}
<1>1. ASSUME NEW k \in Nat, NEW s \in SUBSET (1 .. k), k \in s PROVE Max(s) = k
  <2>1. Max(s) \in s /\ \A i \in s : i <= Max(s)
    BY <1>1, MaxFacts
  <2>2. Max(s) \in 1 .. k /\ k <= Max(s)
    BY <1>1, <2>1
  <2>3. QED
    BY <2>2
<1>2. Defined(0)
  <2>1. PICK f : f = [s \in {{}} |-> a]
    OBVIOUS
  <2>2. SUBSET (1 .. 0) = {{}}
    OBVIOUS
  <2>3. \A s \in SUBSET (1 .. 0) : Value(f, s) = a
    BY <2>2
  <2>4. f = [s \in SUBSET (1 .. 0) |-> Value(f, s)]
    BY <2>1, <2>2, <2>3
  <2>5. QED
    BY <2>4
\* A function on the sets up to k gives one on those up to k + 1.
<1>3. ASSUME NEW k \in Nat, Defined(k) PROVE Defined(k + 1)
  <2>1. PICK f : f = [s \in SUBSET (1 .. k) |-> Value(f, s)]
    BY <1>3
  <2>2. PICK m \in Nat : m = k + 1
    OBVIOUS
  <2>3. PICK h : h = [s \in SUBSET (1 .. m) |->
                         IF m \in s THEN WithoutText(f[s \ {m}], seq[m]) ELSE f[s]]
    OBVIOUS
  <2>4. ASSUME NEW s \in SUBSET (1 .. m), m \notin s PROVE s \in SUBSET (1 .. k)
    BY <2>2, <2>4
  <2>5. ASSUME NEW s \in SUBSET (1 .. m) PROVE h[s] = Value(h, s)
    <3>1. CASE m \in s
      <4>1. Max(s) = m /\ s # {}
        BY <1>1, <3>1
      <4>2. PICK r \in SUBSET (1 .. k) : r = s \ {m}
        <5>1. \A i \in s \ {m} : i \in 1 .. k
          BY <2>2
        <5>2. s \ {m} \subseteq 1 .. k
          BY <5>1
        <5>3. QED
          BY <5>2
      <4>3. m \notin r /\ r \in SUBSET (1 .. m)
        BY <4>2
      <4>4. h[r] = f[r]
        BY <2>3, <4>3
      <4>5. h[s] = WithoutText(f[r], seq[m])
        BY <2>3, <3>1, <4>2
      <4>6. Value(h, s) = WithoutText(h[r], seq[m])
        BY <4>1, <4>2
      <4>7. QED
        BY <4>4, <4>5, <4>6
    <3>2. CASE m \notin s
      <4>1. s \in SUBSET (1 .. k)
        BY <2>4, <3>2
      <4>2. h[s] = f[s] /\ f[s] = Value(f, s)
        BY <2>1, <2>3, <3>2, <4>1
      <4>3. CASE s = {}
        BY <4>2, <4>3
      <4>4. CASE s # {}
        <5>1. PICK r : r = s \ {Max(s)}
          OBVIOUS
        <5>2. r \in SUBSET (1 .. k) /\ r \in SUBSET (1 .. m) /\ m \notin r
          BY <3>2, <4>1, <5>1
        <5>3. h[r] = f[r]
          BY <2>3, <5>2
        <5>4. Value(f, s) = WithoutText(f[r], seq[Max(s)]) /\ Value(h, s) = WithoutText(h[r], seq[Max(s)])
          BY <4>4, <5>1
        <5>5. QED
          BY <4>2, <5>3, <5>4
      <4>5. QED
        BY <4>3, <4>4
    <3>3. QED
      BY <3>1, <3>2
  <2> HIDE DEF Value
  <2>6. h = [s \in SUBSET (1 .. m) |-> Value(h, s)]
    <3>1. h = [s \in SUBSET (1 .. m) |-> h[s]]
      BY <2>3
    <3>2. QED
      BY <2>5, <3>1
  <2>7. Defined(m)
    BY <2>6
  <2>8. QED
    BY <2>2, <2>7
<1> HIDE DEF Defined
<1>4. Defined(n)
  <2>1. SUFFICES ASSUME Undefined # {} PROVE FALSE
    <3>1. n \in 0 .. n
      OBVIOUS
    <3>2. QED
      BY <2>1, <3>1
  <2>2. Undefined \subseteq Nat
    OBVIOUS
  <2>3. PICK k \in Nat : k \in Undefined /\ \A i \in Undefined : k <= i
    BY <2>1, <2>2, MinFacts
  <2>4. k # 0 /\ k \in 0 .. n /\ ~Defined(k)
    BY <1>2, <2>3
  <2>5. PICK j \in Nat : j = k - 1 /\ j + 1 = k
    BY <2>4
  <2>6. j \in 0 .. n /\ j \notin Undefined
    BY <2>3, <2>4, <2>5
  <2>7. Defined(j)
    BY <2>6
  <2>8. QED
    BY <1>3, <2>4, <2>5, <2>7
<1>5. PICK f : f = [s \in SUBSET (1 .. n) |-> Value(f, s)] /\ Folded(a, seq) = f[1 .. n]
  <2> DEFINE iter == CHOOSE f : f = [s \in SUBSET (1 .. n) |-> Value(f, s)]
  <2>1. iter = [s \in SUBSET (1 .. n) |-> Value(iter, s)]
    <3>1. \E f : f = [s \in SUBSET (1 .. n) |-> Value(f, s)]
      BY <1>4 DEF Defined
    <3>2. QED
      BY <3>1
  <2>2. Folded(a, seq) = iter[1 .. n]
    BY DEF Folded, FoldLeft, MapThenFoldSet
  <2> HIDE DEF iter
  <2>3. QED
    BY <2>1, <2>2
<1>6. PICK g : g = [k \in 0 .. n |-> f[1 .. k]]
    OBVIOUS
<1>7. g[0] = a
  <2>1. g[0] = f[1 .. 0] /\ 1 .. 0 = {} /\ {} \in SUBSET (1 .. n)
    BY <1>6
  <2>2. f[{}] = Value(f, {})
    BY <1>5, <2>1
  <2>3. QED
    BY <2>1, <2>2
<1>8. g[n] = Folded(a, seq)
  <2>1. g[n] = f[1 .. n]
    BY <1>6
  <2>2. f[1 .. n] = Folded(a, seq)
    BY <1>5, Zenon
  <2>3. QED
    BY <2>1, <2>2, Zenon
<1>9. ASSUME NEW k \in 1 .. n PROVE g[k] = WithoutText(g[k - 1], seq[k])
  <2>1. PICK s \in SUBSET (1 .. n) : s = 1 .. k
    OBVIOUS
  <2>2. k \in s /\ s # {} /\ s \in SUBSET (1 .. k) /\ k \in Nat
    BY <2>1
  <2>3. Max(s) = k
    BY <1>1, <2>2
  <2>4. s \ {k} = 1 .. k - 1
    BY <2>1
  <2>5. f[s] = Value(f, s)
    BY <1>5
  <2>6. f[s] = WithoutText(f[1 .. k - 1], seq[k])
    BY <2>2, <2>3, <2>4, <2>5
  <2>7. g[k] = f[s] /\ g[k - 1] = f[1 .. k - 1]
    BY <1>6, <2>1
  <2>8. QED
    BY <2>6, <2>7
<1>10. QED
    BY <1>7, <1>8, <1>9 DEF FoldedIn

\* What is left when the texts of some nodes are freed.
LEMMA FreedSound ==
    ASSUME NEW S \in SUBSET Nodes, TextsSound(text, S, arena), NEW F \in SUBSET S, IsFiniteSet(F),
           \A x \in F : text[x] # Null
    PROVE  ArenaSound(FoldLeft(WithoutText, arena, SetToSeq(F)), BlocksOf(text, S \ F))
<1>1. PICK seq : seq = SetToSeq(F)
    OBVIOUS
<1>2. PICK n \in Nat : /\ seq \in [1 .. n -> F]
                       /\ \A i, j \in 1 .. n : seq[i] = seq[j] => i = j
                       /\ \A x \in F : \E i \in 1 .. n : seq[i] = x
    BY <1>1, SetToSeqFacts
<1>3. PICK g : /\ g[0] = arena /\ g[n] = Folded(arena, seq)
               /\ \A k \in 1 .. n : g[k] = WithoutText(g[k - 1], seq[k])
  <2>1. DOMAIN seq = 1 .. n
    BY <1>2
  <2>2. FoldedIn(arena, n, seq)
    BY <2>1, FoldSteps
  <2>3. QED
    BY <2>2 DEF FoldedIn
\* The nodes whose texts are not freed yet after k steps.
<1> DEFINE Rest(k) == S \ {seq[i] : i \in 1 .. k}
           Sound(k) == ArenaSound(g[k], BlocksOf(text, Rest(k)))
           Unsound == {k \in 0 .. n : ~Sound(k)}
<1>4. Sound(0)
  <2>1. {seq[i] : i \in 1 .. 0} = {}
    OBVIOUS
  <2>2. Rest(0) = S
    BY <2>1
  <2>3. QED
    BY <1>3, <2>2 DEF TextsSound
<1>5. ASSUME NEW k \in 1 .. n, Sound(k - 1) PROVE Sound(k)
  <2>1. PICK T : T = Rest(k - 1)
    OBVIOUS
  <2>2. PICK x \in F : x = seq[k]
    BY <1>2
  <2>3. x \in T /\ T \subseteq S
    <3>1. ASSUME NEW i \in 1 .. k - 1, seq[i] = x PROVE FALSE
      <4>1. i \in 1 .. n /\ i # k
        OBVIOUS
      <4>2. QED
        BY <1>2, <2>2, <3>1, <4>1
    <3>2. QED
      BY <2>1, <2>2, <3>1
  <2>4. Rest(k) = T \ {x}
    <3>1. 1 .. k = (1 .. k - 1) \cup {k}
      OBVIOUS
    <3>2. {seq[i] : i \in 1 .. k} = {seq[i] : i \in 1 .. k - 1} \cup {x}
      BY <2>2, <3>1
    <3>3. QED
      BY <2>1, <3>2
  <2>5. PICK a : a = g[k - 1]
    OBVIOUS
  <2>6. ArenaSound(a, BlocksOf(text, T))
    BY <1>5, <2>1, <2>5
  <2>7. TextsSound(text, T, a)
    BY <2>3, <2>6 DEF TextsSound
  <2>8. text[x] # Null
    OBVIOUS
  <2>9. text[x].block \in BlocksOf(text, T) /\ BlocksOf(text, T \ {x}) = BlocksOf(text, T) \ {text[x].block}
    BY <2>3, <2>7, <2>8, OtherBlocks
  <2>10. ArenaSound(Free(a, text[x].block), BlocksOf(text, T) \ {text[x].block})
    BY <2>6, <2>9, FreeSound
  <2>11. g[k] = Free(a, text[x].block)
    BY <1>3, <2>2, <2>5, <2>8 DEF WithoutText
  <2>12. QED
    BY <2>4, <2>9, <2>10, <2>11
<1> HIDE DEF Sound
<1>6. Sound(n)
  <2>1. SUFFICES ASSUME Unsound # {} PROVE FALSE
    <3>1. n \in 0 .. n
      OBVIOUS
    <3>2. QED
      BY <2>1, <3>1
  <2>2. Unsound \subseteq Nat
    OBVIOUS
  <2>3. PICK k \in Nat : k \in Unsound /\ \A i \in Unsound : k <= i
    BY <2>1, <2>2, MinFacts
  <2>4. k # 0 /\ k \in 0 .. n /\ ~Sound(k)
    BY <1>4, <2>3
  <2>5. k \in 1 .. n
    BY <2>4
  <2>6. PICK j \in Nat : j = k - 1
    BY <2>5
  <2>7. j \in 0 .. n /\ j \notin Unsound
    BY <2>3, <2>4, <2>6
  <2>8. Sound(k - 1)
    BY <2>6, <2>7
  <2>9. QED
    BY <1>5, <2>4, <2>5, <2>8
<1>7. Rest(n) = S \ F
  <2>1. {seq[i] : i \in 1 .. n} = F
    BY <1>2
  <2>2. QED
    BY <2>1
<1>8. QED
    BY <1>1, <1>3, <1>6, <1>7 DEF Sound, Folded

-----------------------------------------------------------------------------
(***************************************************************************)
(* The invariant.                                                          *)
(***************************************************************************)
\* The last child of a node takes a text more.
LEMMA InsertInLastSound ==
    ASSUME EditInv, NEW n \in Lengths, NEW target \in live,
           InsertTextInLast(target, Decoded(n).arena, n)
    PROVE  TextInv' /\ live' = live
<1>1. PICK last : last = nodes[target].last
    OBVIOUS
<1>2. last \in live /\ last \in Nodes /\ text[last] # Null /\ live \subseteq Nodes
  <2>1. last # Null /\ text[last] # Null
    BY <1>1 DEF InsertTextInLast, EndsInText
  <2>2. last \in live /\ live \subseteq Nodes
    BY <1>1, <2>1 DEF EditInv, LinkInv, TypeOK, TreeLinked, LinksSound, NodeSound, ChildSound
  <2>3. QED
    BY <2>1, <2>2
<1>3. TextsSound(text, live, arena)
    BY TextsAre DEF EditInv
<1>4. PICK U : U = BlocksOf(text, live)
    OBVIOUS
<1>5. n \in Nat
    BY TextAssumption
<1>6. PICK a : a = Decoded(n).arena
    OBVIOUS
<1>7. ArenaSound(a, U)
  <2>1. ArenaSound(arena, U)
    BY <1>3, <1>4 DEF TextsSound
  <2>2. ArenaSound(a, U \cup {Decoded(n).str.block})
    BY <1>5, <1>6, <2>1, DecodedSound
  <2>3. QED
    BY <2>2, Fewer
<1>8. PICK str : str = text[last]
    OBVIOUS
<1>9. str.block \in U /\ StringSound(str) /\ BlocksOf(text, live \ {last}) = U \ {str.block}
    BY <1>2, <1>3, <1>4, <1>8, OtherBlocks DEF TextsSound
<1>10. PICK b, new : b = StringAppend(a, str, n).arena /\ new = StringAppend(a, str, n).str
    OBVIOUS
<1>11. /\ ArenaSound(b, (U \ {str.block}) \cup {new.block}) /\ new.block \notin U \ {str.block}
       /\ StringSound(new)
    BY <1>5, <1>7, <1>9, <1>10, StringAppendSound
<1>12. arena' = b /\ text' = [text EXCEPT ![last] = new] /\ live' = live
    BY <1>1, <1>6, <1>8, <1>10 DEF InsertTextInLast, SetText, KeepLinks
<1>13. TextsSound([text EXCEPT ![last] = new], live \cup {last}, b)
    BY <1>2, <1>3, <1>9, <1>11, PutText
<1>14. live \cup {last} = live
    BY <1>2
<1>15. QED
    BY <1>12, <1>13, <1>14, TextsAre

\* A new node takes the text.
LEMMA InsertNodeSound ==
    ASSUME EditInv, NEW n \in Lengths, NEW ws \in Spaces, ws < n, NEW target, NEW x \in FreeNodes,
           InsertTextNode(target, x, Split(Decoded(n), ws))
    PROVE  TextInv' /\ live' = live \cup {x}
<1>1. x \in Nodes \ live /\ live \subseteq Nodes
    BY DEF FreeNodes, EditInv, LinkInv, TypeOK
<1>2. TextsSound(text, live, arena)
    BY TextsAre DEF EditInv
<1>3. PICK U : U = BlocksOf(text, live)
    OBVIOUS
<1>4. n \in Nat /\ ws \in Nat
    BY TextAssumption
<1>5. PICK m : m = Decoded(n)
    OBVIOUS
<1>6. /\ ArenaSound(m.arena, U \cup {m.str.block}) /\ m.str.block \notin U
      /\ StringSound(m.str) /\ m.str.length = n /\ n < m.str.block.size
  <2>1. ArenaSound(arena, U)
    BY <1>2, <1>3 DEF TextsSound
  <2>2. QED
    BY <1>4, <1>5, <2>1, DecodedSound
<1>7. ws < m.str.length /\ ws < m.str.block.size
  <2>1. m.str.block.size \in Nat
    BY <1>6 DEF StringSound, String, Block
  <2>2. QED
    BY <1>4, <1>6, <2>1
<1>8. PICK b, new : b = Split(m, ws).arena /\ new = Split(m, ws).str
    OBVIOUS
<1>9. ArenaSound(b, U \cup {new.block}) /\ new.block \notin U /\ StringSound(new)
    BY <1>4, <1>6, <1>7, <1>8, SplitSound
<1>10. arena' = b /\ text' = [text EXCEPT ![x] = new] /\ live' = live \cup {x}
    BY <1>5, <1>8 DEF InsertTextNode, SetText
<1>11. live \ {x} = live
    BY <1>1
<1>12. TextsSound([text EXCEPT ![x] = new], live \cup {x}, b)
    BY <1>1, <1>2, <1>3, <1>9, <1>11, PutText
<1>13. QED
    BY <1>10, <1>12, TextsAre

\* A text is set anew.
LEMMA TextSetSound ==
    ASSUME EditInv, TextSet
    PROVE  TextInv' /\ live' = live
<1>1. PICK x \in live \ {Document}, n \in Lengths :
         LET old == IF text[x] = Null THEN StringInit(arena, n + 2) ELSE Renewed(x, n)
         IN  /\ \E new \in {StringAppend(old.arena, old.str, n)} : SetText(new.arena, x, new.str)
             /\ KeepLinks
    BY DEF TextSet
<1>2. PICK old : old = IF text[x] = Null THEN StringInit(arena, n + 2) ELSE Renewed(x, n)
    OBVIOUS
<1>3. x \in Nodes /\ live \subseteq Nodes /\ n \in Nat \ {0} /\ n + 2 \in Nat \ {0}
    BY TextAssumption DEF EditInv, LinkInv, TypeOK
<1>4. TextsSound(text, live, arena)
    BY TextsAre DEF EditInv
<1>5. PICK U, W : U = BlocksOf(text, live) /\ W = BlocksOf(text, live \ {x})
    OBVIOUS
<1>6. ArenaSound(arena, U)
    BY <1>4, <1>5 DEF TextsSound
\* The string the text is written to.
<1>7. ArenaSound(old.arena, W \cup {old.str.block}) /\ old.str.block \notin W /\ StringSound(old.str)
  <2>1. CASE text[x] = Null
    <3>1. W = U
      BY <1>4, <1>5, <2>1, OtherBlocks
    <3>2. PICK size \in Nat \ {0} : size = n + 2
      BY <1>3
    <3>3. old = StringInit(arena, size)
      BY <1>2, <2>1, <3>2
    <3>4. QED
      BY <1>6, <3>1, <3>3, StringInitSound
  <2>2. CASE text[x] # Null
    <3>1. PICK str : str = text[x]
      OBVIOUS
    <3>2. str.block \in U /\ W = U \ {str.block} /\ StringSound(str)
      BY <1>4, <1>5, <2>2, <3>1, OtherBlocks DEF TextsSound
    <3>3. CASE str.size < n
      <4>1. ArenaSound(Free(arena, str.block), W)
        BY <1>6, <3>2, FreeSound
      <4>2. old = StringInit(Free(arena, str.block), n)
        BY <1>2, <2>2, <3>1, <3>3 DEF Renewed
      <4>3. QED
        BY <1>3, <4>1, <4>2, StringInitSound
    <3>4. CASE ~(str.size < n)
      <4>1. PICK empty : empty = [str EXCEPT !.length = 0]
        OBVIOUS
      <4>2. old.arena = arena /\ old.str = empty
        BY <1>2, <2>2, <3>1, <3>4, <4>1 DEF Renewed
      <4>3. /\ str \in String /\ empty \in String /\ empty.block = str.block /\ empty.length = 0
            /\ empty.size = str.size /\ empty.cropped = str.cropped
        BY <3>2, <4>1 DEF StringSound, String
      <4>4. str.block.size \in Nat \ {0}
        BY <4>3 DEF String, Block
      <4>5. StringSound(empty)
        BY <3>2, <4>3, <4>4 DEF StringSound, Fits
      <4>6. W \cup {str.block} = U /\ str.block \notin W
        BY <3>2
      <4>7. QED
        BY <1>6, <4>2, <4>3, <4>5, <4>6
    <3>5. QED
      BY <3>3, <3>4
  <2>3. QED
    BY <2>1, <2>2
<1>8. PICK V : V = W \cup {old.str.block}
    OBVIOUS
<1>9. PICK b, new : b = StringAppend(old.arena, old.str, n).arena /\ new = StringAppend(old.arena, old.str, n).str
    OBVIOUS
<1>10. ArenaSound(b, (V \ {old.str.block}) \cup {new.block}) /\ new.block \notin V \ {old.str.block} /\ StringSound(new)
  <2>1. ArenaSound(old.arena, V) /\ old.str.block \in V /\ n \in Nat
    BY <1>3, <1>7, <1>8
  <2>2. QED
    BY <1>7, <1>9, <2>1, StringAppendSound
<1>11. V \ {old.str.block} = W
    BY <1>7, <1>8
<1>12. arena' = b /\ text' = [text EXCEPT ![x] = new] /\ live' = live
    BY <1>1, <1>2, <1>9 DEF SetText, KeepLinks
<1>13. TextsSound([text EXCEPT ![x] = new], live \cup {x}, b)
    BY <1>3, <1>4, <1>5, <1>10, <1>11, PutText
<1>14. live \cup {x} = live
    OBVIOUS
<1>15. QED
    BY <1>12, <1>13, <1>14, TextsAre

\* A node goes, and its text with it.
LEMMA DeleteSound ==
    ASSUME EditInv, DeleteNode
    PROVE  TextInv' /\ live' \subseteq live
<1>1. PICK x \in live \ {Document} :
         live' = live \ {x} /\ SetText(WithoutText(arena, x), x, Null)
    BY DEF DeleteNode
<1>2. x \in Nodes /\ live \subseteq Nodes
    BY DEF EditInv, LinkInv, TypeOK
<1>3. TextsSound(text, live, arena)
    BY TextsAre DEF EditInv
<1>4. PICK a, u : a = WithoutText(arena, x) /\ u = [text EXCEPT ![x] = Null]
    OBVIOUS
<1>5. arena' = a /\ text' = u
    BY <1>1, <1>4 DEF SetText
<1>6. ArenaSound(a, BlocksOf(text, live \ {x}))
  <2>1. ArenaSound(arena, BlocksOf(text, live))
    BY <1>3 DEF TextsSound
  <2>2. CASE text[x] = Null
    BY <1>3, <1>4, <2>1, <2>2, OtherBlocks DEF WithoutText
  <2>3. CASE text[x] # Null
    <3>1. text[x].block \in BlocksOf(text, live)
          /\ BlocksOf(text, live \ {x}) = BlocksOf(text, live) \ {text[x].block}
      BY <1>3, <2>3, OtherBlocks
    <3>2. ArenaSound(Free(arena, text[x].block), BlocksOf(text, live) \ {text[x].block})
      BY <2>1, <3>1, FreeSound
    <3>3. QED
      BY <1>4, <2>3, <3>1, <3>2 DEF WithoutText
  <2>4. QED
    BY <2>2, <2>3
<1>7. u \in [Nodes -> String \cup {Null}] /\ \A y \in live \ {x} : u[y] = text[y]
    BY <1>2, <1>3, <1>4 DEF TextsSound
<1>8. BlocksOf(u, live \ {x}) = BlocksOf(text, live \ {x})
    BY <1>7 DEF BlocksOf
<1>9. TextsSound(u, live \ {x}, a)
    BY <1>2, <1>3, <1>6, <1>7, <1>8, DropTexts
<1>10. QED
    BY <1>1, <1>5, <1>9, TextsAre

\* delete_recursive frees texts of nodes that are in the tree, each once.
LEMMA DeleteRecursiveSound ==
    ASSUME EditInv, DeleteRecursive
    PROVE  TextInv' /\ live' \subseteq live
<1>1. PICK x \in live \ {Document} : \E freed \in {FreedOf(x, Subtree(x))} : Deleted(x, Subtree(x), freed)
    BY DEF DeleteRecursive
<1>2. PICK below, freed : below = Subtree(x) /\ freed = FreedOf(x, below)
    OBVIOUS
<1>3. Deleted(x, below, freed)
    BY <1>1, <1>2
<1>4. /\ x \in below /\ below \subseteq live
      /\ \A y \in live : nodes[y].parent \in below => y \in below
    BY <1>2, SubtreeClosed DEF EditInv
<1>5. freed \subseteq below
  <2>1. Entered(x, below) \subseteq below
    BY DEF Entered
  <2>2. ASSUME NEW y \in below, Second(y) PROVE nodes[nodes[y].child].next \in below
    <3>1. PICK c : c = nodes[y].child
      OBVIOUS
    <3>2. c \in live /\ nodes[c].parent = y
      BY <1>4, <2>2, <3>1 DEF Second, EditInv, LinkInv, TreeLinked, LinksSound, NodeSound, ChildSound, ParentSound
    <3>3. nodes[c].next \in live /\ nodes[nodes[c].next].parent = y
      BY <2>2, <3>1, <3>2 DEF Second, EditInv, LinkInv, TreeLinked, LinksSound, NodeSound, NextSound
    <3>4. QED
      BY <1>4, <3>1, <3>3
  <2>3. QED
    BY <1>2, <1>4, <2>1, <2>2 DEF FreedOf
<1>6. PICK F : F = {y \in freed : text[y] # Null}
    OBVIOUS
<1>7. F \in SUBSET live /\ IsFiniteSet(F) /\ \A y \in F : text[y] # Null
  <2>1. F \in SUBSET live /\ IsFiniteSet(live)
    BY <1>4, <1>5, <1>6 DEF EditInv
  <2>2. QED
    BY <1>6, <2>1, FS_Subset
<1>8. TextsSound(text, live, arena) /\ live \in SUBSET Nodes
    BY TextsAre DEF EditInv, LinkInv, TypeOK
<1>9. ArenaSound(FoldLeft(WithoutText, arena, SetToSeq(F)), BlocksOf(text, live \ F))
    BY <1>7, <1>8, FreedSound
<1>10. PICK a, u : /\ a = FoldLeft(WithoutText, arena, SetToSeq(F))
                   /\ u = [y \in Nodes |-> IF y \in below THEN Null ELSE text[y]]
    OBVIOUS
<1>11. arena' = a /\ text' = u /\ live' = live \ below
    BY <1>3, <1>6, <1>10 DEF Deleted
<1>12. u \in [Nodes -> String \cup {Null}] /\ \A y \in live \ below : u[y] = text[y]
    BY <1>8, <1>10 DEF TextsSound
<1>13. BlocksOf(u, live \ below) \subseteq BlocksOf(text, live \ F)
    BY <1>5, <1>6, <1>12 DEF BlocksOf
<1>14. ArenaSound(a, BlocksOf(u, live \ below))
    BY <1>9, <1>10, <1>13, Fewer
<1>15. TextsSound(u, live \ below, a)
    BY <1>8, <1>12, <1>14, DropTexts
<1>16. QED
    BY <1>11, <1>15, TextsAre

\* At first there are no texts.
LEMMA EditInvInit == Init => EditInv
<1> SUFFICES ASSUME Init PROVE EditInv
    OBVIOUS
<1>1. LinkInv
    BY LinkInvInit
<1>2. IsFiniteSet(live)
    BY FS_Singleton DEF Init
<1>3. text \in [Nodes -> String \cup {Null}] /\ \A x \in live : text[x] = Null
    BY <1>1 DEF Init, LinkInv, TypeOK
<1>4. BlocksOf(text, live) = {}
    BY <1>3 DEF BlocksOf
<1>5. ArenaSound(arena, {})
    BY NewArenaSound DEF Init
<1>6. TextsSound(text, live, arena)
    BY <1>3, <1>4, <1>5 DEF TextsSound
<1>7. QED
    BY <1>1, <1>2, <1>6, TextsAre DEF EditInv

\* Every call keeps the invariant.
LEMMA EditInvStep == EditInv /\ [Next]_vars => EditInv'
<1> SUFFICES ASSUME EditInv, [Next]_vars PROVE EditInv'
    OBVIOUS
<1>1. LinkInv'
    BY LinkInvStep DEF EditInv
<1>2. TextsSound(text, live, arena) /\ live \subseteq Nodes /\ IsFiniteSet(live)
    BY TextsAre DEF EditInv, LinkInv, TypeOK
<1>3. SUFFICES TextInv' /\ IsFiniteSet(live')
    BY <1>1 DEF EditInv
<1>4. ASSUME UNCHANGED <<text, live, arena>> PROVE TextInv' /\ IsFiniteSet(live')
    BY <1>2, <1>4, TextsAre
<1>5. CASE InsertText
  <2>1. PICK n \in Lengths : \E new \in {Decoded(n)} :
           \/ \E target \in live \ {Document} : InsertTextInLast(target, new.arena, n)
           \/ \E rest \in {Split(new, ws) : ws \in {s \in Spaces : s < n}} :
                 \E target \in live \ {Document}, x \in FreeNodes : InsertTextNode(target, x, rest)
    BY <1>5 DEF InsertText
  <2>2. CASE \E target \in live \ {Document} : InsertTextInLast(target, Decoded(n).arena, n)
    <3>1. PICK target \in live : InsertTextInLast(target, Decoded(n).arena, n)
      BY <2>2
    <3>2. TextInv' /\ live' = live
      BY <3>1, InsertInLastSound
    <3>3. QED
      BY <1>2, <3>2
  <2>3. CASE \E rest \in {Split(Decoded(n), ws) : ws \in {s \in Spaces : s < n}} :
                \E target \in live \ {Document}, x \in FreeNodes : InsertTextNode(target, x, rest)
    <3>1. PICK ws \in Spaces, target \in live, x \in FreeNodes :
             ws < n /\ InsertTextNode(target, x, Split(Decoded(n), ws))
      BY <2>3
    <3>2. TextInv' /\ live' = live \cup {x}
      BY <3>1, InsertNodeSound
    <3>3. QED
      BY <1>2, <3>2, FS_AddElement
  <2>4. QED
    BY <2>1, <2>2, <2>3
<1>6. CASE CreateNode
  <2>1. PICK x \in FreeNodes : live' = live \cup {x} /\ text' = [text EXCEPT ![x] = Null] /\ arena' = arena
    BY <1>6 DEF CreateNode
  <2>2. x \in Nodes \ live
    BY DEF FreeNodes
  <2>3. PICK u, T : u = text' /\ T = live \cup {x}
    OBVIOUS
  <2>4. u \in [Nodes -> String \cup {Null}] /\ u[x] = Null /\ \A y \in live : u[y] = text[y]
    BY <1>2, <2>1, <2>2, <2>3 DEF TextsSound
  <2>5. BlocksOf(u, T) = BlocksOf(text, live)
    BY <2>3, <2>4 DEF BlocksOf
  <2>6. ArenaSound(arena, BlocksOf(u, T))
    BY <1>2, <2>5 DEF TextsSound
  <2>7. T \in SUBSET Nodes /\ live \in SUBSET Nodes /\ \A y \in T : u[y] # Null => y \in live /\ u[y] = text[y]
    BY <1>2, <2>2, <2>3, <2>4
  <2>8. TextsSound(u, T, arena)
    BY <1>2, <2>4, <2>6, <2>7, DropTexts
  <2>9. TextInv'
    BY <2>1, <2>3, <2>8, TextsAre
  <2>10. IsFiniteSet(live')
    BY <1>2, <2>1, FS_AddElement
  <2>11. QED
    BY <2>9, <2>10
<1>7. CASE AppendChild \/ InsertBefore \/ InsertAfter \/ RemoveNode
    BY <1>4, <1>7 DEF AppendChild, InsertBefore, InsertAfter, RemoveNode, KeepTexts
<1>8. CASE DeleteNode \/ DeleteRecursive
  <2>1. TextInv' /\ live' \subseteq live
    BY <1>8, DeleteSound, DeleteRecursiveSound
  <2>2. QED
    BY <1>2, <2>1, FS_Subset
<1>9. CASE TextSet
  <2>1. TextInv' /\ live' = live
    BY <1>9, TextSetSound
  <2>2. QED
    BY <1>2, <2>1
<1>10. CASE Clean
  <2>1. live' = {Document} /\ text' = [x \in Nodes |-> Null] /\ arena' = Rewound(arena)
    BY <1>10 DEF Clean
  <2>2. PICK u, T : u = [x \in Nodes |-> Null] /\ T = {Document}
    OBVIOUS
  <2>3. u \in [Nodes -> String \cup {Null}] /\ T \in SUBSET Nodes /\ \A y \in T : u[y] = Null
    BY <2>2, NodesAssumption
  <2>4. BlocksOf(u, T) = {}
    BY <2>3 DEF BlocksOf
  <2>5. ArenaSound(Rewound(arena), BlocksOf(u, T))
    BY <1>2, <2>4, RewoundSound DEF TextsSound
  <2>6. TextsSound(u, T, Rewound(arena))
    BY <2>3, <2>5 DEF TextsSound
  <2>7. TextInv'
    BY <2>1, <2>2, <2>6, TextsAre
  <2>8. IsFiniteSet(live')
    BY <2>1, FS_Singleton
  <2>9. QED
    BY <2>7, <2>8
<1>11. CASE UNCHANGED vars
    BY <1>4, <1>11 DEF vars
<1>12. QED
    BY <1>5, <1>6, <1>7, <1>8, <1>9, <1>10, <1>11 DEF Next

\* What the invariant says of the texts.
LEMMA EditInvSays == EditInv => BlocksApart /\ TextsFit
<1> SUFFICES ASSUME EditInv PROVE BlocksApart /\ TextsFit
    OBVIOUS
<1>1. TextInv
    BY DEF EditInv
<1>2. \A x \in live : text[x] # Null => text[x].block \in Blocks
    BY DEF Blocks
<1>3. \A x, y \in live : x # y /\ text[x] # Null /\ text[y] # Null => Apart(text[x].block, text[y].block)
    BY <1>1, <1>2 DEF TextInv, ArenaSound
<1>4. /\ \A i, j \in DOMAIN arena.cache : i # j => Apart(arena.cache[i], arena.cache[j])
      /\ \A i \in DOMAIN arena.cache : \A b \in Blocks : Apart(arena.cache[i], b)
    BY <1>1 DEF TextInv, ArenaSound
<1>5. \A b \in Blocks \cup ToSet(arena.cache) : InChunk(arena, b)
  <2>1. \A b \in ToSet(arena.cache) : \E i \in DOMAIN arena.cache : b = arena.cache[i]
    BY DEF ToSet
  <2>2. QED
    BY <1>1, <2>1 DEF TextInv, ArenaSound
<1>6. BlocksApart
    BY <1>3, <1>4, <1>5 DEF BlocksApart
<1>7. TextsFit
    BY <1>1 DEF TextInv, StringSound, TextsFit
<1>8. QED
    BY <1>6, <1>7

(* However a tree is edited, no text is ever given memory that another text
   has or that waits to be given out, and all of it lies in the chunks that
   are in use: growing in place, cutting off white space, giving away the
   rest of a chunk and freeing a whole subtree notwithstanding. *)
THEOREM TextsStayApart == Spec => []BlocksApart
    BY EditInvInit, EditInvStep, EditInvSays, PTL DEF Spec

(* However often texts are added to one another, split or set anew, a text
   stays in its block with the 0 behind it, unless its begin was cut off. *)
THEOREM TextsStayInside == Spec => []TextsFit
    BY EditInvInit, EditInvStep, EditInvSays, PTL DEF Spec
=============================================================================
