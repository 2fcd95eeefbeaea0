----------------------------- MODULE TreeLinks -----------------------------
(***************************************************************************)
(* The links between the nodes of a tree: parent, prev, next, child (the   *)
(* first one) and last (last_child) of myhtml_tree_node_t.  A memory of    *)
(* nodes is a function n from nodes to records that have these fields and  *)
(* perhaps others; the operators give the memory after the call.  They     *)
(* have the order of the assignments of tree.c, so a call on a node that   *)
(* is still linked elsewhere does what the code does, however wrong.       *)
(***************************************************************************)
EXTENDS Naturals

CONSTANT Null

(* The links myhtml_tree_node_clean leaves in a node. *)
NoLinks == [parent |-> Null, prev |-> Null, next |-> Null,
            child |-> Null, last |-> Null]

SetParent(n, x, v) == [n EXCEPT ![x].parent = v]
SetPrev(n, x, v) == [n EXCEPT ![x].prev = v]
SetNext(n, x, v) == [n EXCEPT ![x].next = v]
SetChild(n, x, v) == [n EXCEPT ![x].child = v]
SetLast(n, x, v) == [n EXCEPT ![x].last = v]

AddChild(n, root, node) ==
    LET last == n[root].last
        m == IF last # Null THEN SetPrev(SetNext(n, last, node), node, last)
             ELSE SetChild(n, root, node)
    IN  SetLast(SetParent(m, node, root), root, node)

(* A target without a parent is dereferenced by the code: PlaceBefore and  *)
(* PlaceAfter are for a target that has one, or a sibling on that side.    *)
PlaceBefore(n, root, node) ==
    LET prev == n[root].prev
        m == IF prev # Null THEN SetPrev(SetNext(n, prev, node), node, prev)
             ELSE SetChild(n, n[root].parent, node)
    IN  SetPrev(SetNext(SetParent(m, node, m[root].parent), node, root), root, node)

PlaceAfter(n, root, node) ==
    LET next == n[root].next
        m == IF next # Null THEN SetNext(SetPrev(n, next, node), node, next)
             ELSE SetLast(n, n[root].parent, node)
    IN  SetNext(SetPrev(SetParent(m, node, m[root].parent), node, root), root, node)

InsertByMode(n, place, node) ==
    CASE place.mode = "DEFAULT" -> AddChild(n, place.node, node)
      [] place.mode = "BEFORE"  -> PlaceBefore(n, place.node, node)
      [] place.mode = "AFTER"   -> PlaceAfter(n, place.node, node)

Cleared(n, node) == SetParent(SetPrev(SetNext(n, node, Null), node, Null), node, Null)

(* Faulty variant of Unlink: the last child of the parent is not set. *)
UnlinkKeepsLast(n, node) ==
    LET next == n[node].next
        prev == n[node].prev
        parent == n[node].parent
        m == IF next # Null THEN SetPrev(n, next, prev) ELSE n
        k == IF prev # Null THEN SetNext(m, prev, next)
             ELSE IF parent # Null THEN SetChild(m, parent, next) ELSE m
    IN  Cleared(k, node)

Unlink(n, node) ==
    LET next == n[node].next
        prev == n[node].prev
        parent == n[node].parent
        m == IF next # Null THEN SetPrev(n, next, prev)
             ELSE IF parent # Null THEN SetLast(n, parent, prev) ELSE n
        k == IF prev # Null THEN SetNext(m, prev, next)
             ELSE IF parent # Null THEN SetChild(m, parent, next) ELSE m
    IN  Cleared(k, node)

-----------------------------------------------------------------------------

(* What every walk over a tree relies on, told at one node x of a set S:   *)
(* the two directions of each link agree, brothers have one parent, and a  *)
(* parent knows its first and its last child.                              *)
NextSound(n, S, x) ==
    n[x].next # Null => /\ n[x].next \in S /\ n[x].next # x
                        /\ n[n[x].next].prev = x
                        /\ n[n[x].next].parent = n[x].parent
PrevSound(n, S, x) ==
    n[x].prev # Null => /\ n[x].prev \in S /\ n[x].prev # x
                        /\ n[n[x].prev].next = x
                        /\ n[n[x].prev].parent = n[x].parent
ParentSound(n, S, x) ==
    /\ n[x].parent = Null => n[x].prev = Null /\ n[x].next = Null
    /\ n[x].parent # Null =>
         /\ n[x].parent \in S /\ n[x].parent # x
         /\ n[x].prev = Null => n[n[x].parent].child = x
         /\ n[x].next = Null => n[n[x].parent].last = x
ChildSound(n, S, x) ==
    /\ n[x].child = Null <=> n[x].last = Null
    /\ n[x].child # Null => /\ n[x].child \in S /\ n[n[x].child].parent = x
                            /\ n[n[x].child].prev = Null
    /\ n[x].last # Null => /\ n[x].last \in S /\ n[n[x].last].parent = x
                           /\ n[n[x].last].next = Null

NodeSound(n, S, x) == /\ NextSound(n, S, x) /\ PrevSound(n, S, x)
                      /\ ParentSound(n, S, x) /\ ChildSound(n, S, x)

LinksSound(n, S) == \A x \in S : NodeSound(n, S, x)
=============================================================================
