------------------------------ MODULE TreeEdit ------------------------------
(***************************************************************************)
(* A tree and the texts of its nodes: the calls of the tree builder that   *)
(* put texts into it and those of a program that edits it (api.h), by one  *)
(* thread.  The links are those of TreeLinks, the texts lie in the arena   *)
(* of the tree (tree->mchar_node_id), which in single mode is the arena of *)
(* every text.                                                             *)
(*                                                                         *)
(* A node with a text is a text node, any other an element or a document.  *)
(* The program is held to what the code cannot bear otherwise: it inserts  *)
(* nodes that are linked nowhere, not under themselves, beside a node that *)
(* has a parent, and it deletes nodes without children, those with         *)
(* children by delete_recursive; nodes deleted are not used again.         *)
(***************************************************************************)
EXTENDS TreeLinks, StringArena

CONSTANTS Nodes,       \* the nodes the object allocator can give
          Document,
          Lengths,     \* how many characters a text can bring
          Spaces,      \* and how many of them can be white space that is cut off
          MaxText,     \* bound: characters of a text that others were added to
          MaxChunks    \* bound: chunks of the arena

ASSUME NodesAssumption == Document \in Nodes /\ Null \notin Nodes
ASSUME TextAssumption == Lengths \subseteq Nat \ {0} /\ Spaces \subseteq Nat /\ MaxText \in Nat /\ MaxChunks \in Nat

VARIABLES nodes,       \* the links of each node
          live,        \* nodes that the tree or the program holds
          lost,        \* nodes that nobody holds and nobody has freed
          text,        \* the text of a node, or Null
          arena,
          overrun      \* ghost: a text was written past its block

vars == <<nodes, live, lost, text, arena, overrun>>

Init ==
    /\ nodes = [x \in Nodes |-> NoLinks]
    /\ live = {Document}
    /\ lost = {}
    /\ text = [x \in Nodes |-> Null]
    /\ arena = NewArena
    /\ overrun = FALSE

(* What mcobject_async_malloc can give. *)
FreeNodes == Nodes \ (live \cup lost)

Detached(x) == nodes[x].parent = Null

(* x and what is below it: the smallest set that has x and the children of
   its nodes. *)
ClosedBelow(D) == \A y \in live : nodes[y].parent \in D => y \in D
Subtree(x) == {y \in live : \A D \in SUBSET live : x \in D /\ ClosedBelow(D) => y \in D}

(* The arena is a and x has the text str, or none. *)
SetText(a, x, str) ==
    /\ Len(a.chunks) <= MaxChunks
    /\ arena' = a
    /\ text' = [text EXCEPT ![x] = str]
    /\ overrun' = (str # Null /\ ~ Fits(str))

KeepTexts == UNCHANGED <<text, arena, overrun>>
KeepLinks == UNCHANGED <<nodes, live, lost>>

(* The block of a text that is freed with its token. *)
WithoutText(a, x) == IF text[x] = Null THEN a ELSE Free(a, text[x].block)

-----------------------------------------------------------------------------
(* The tree builder *)

(* A text of n characters, the first ws of which are white space that goes
   elsewhere: the worker has decoded it (parser.c), the builder splits it
   (fix_split_for_text_begin_ws), which takes a block for a token of its
   own, and inserts it. *)
Decoded(n) ==
    LET new == StringInit(arena, n + 1) IN StringAppend(new.arena, new.str, n)

Split(m, ws) ==
    IF ws = 0 THEN m
    ELSE LET space == StringInit(m.arena, ws + 2)
         IN  [arena |-> StringAppend(space.arena, space.str, ws).arena,
              str |-> StringCrop(m.str, ws)]

EndsInText(target) == nodes[target].last # Null /\ text[nodes[target].last] # Null

(* myhtml_tree_node_insert_text at the end of a node: its last child takes
   the text if it is one itself (merged_two_token_string, whose strings are
   both in the arena of the tree), or a node is made for it. *)
InsertTextInLast(target, a, n) ==
    LET last == nodes[target].last
    IN  /\ EndsInText(target)
        /\ text[last].length + n <= MaxText
        /\ \E merged \in {StringAppend(a, text[last], n)} :
              SetText(merged.arena, last, merged.str)
        /\ KeepLinks

InsertTextNode(target, x, new) ==
    /\ ~ EndsInText(target)
    /\ SetText(new.arena, x, new.str)
    /\ nodes' = AddChild([nodes EXCEPT ![x] = NoLinks], target, x)
    /\ live' = live \cup {x}
    /\ UNCHANGED lost

InsertText ==
    \E n \in Lengths : \E new \in {Decoded(n)} :
        \/ \E target \in live \ {Document} : InsertTextInLast(target, new.arena, n)
        \/ \E rest \in {Split(new, ws) : ws \in {s \in Spaces : s < n}} :
              \E target \in live \ {Document}, x \in FreeNodes : InsertTextNode(target, x, rest)

-----------------------------------------------------------------------------
(* The program *)

(* myhtml_node_create *)
CreateNode ==
    \E x \in FreeNodes :
        /\ nodes' = [nodes EXCEPT ![x] = NoLinks]
        /\ live' = live \cup {x}
        /\ text' = [text EXCEPT ![x] = Null]
        /\ UNCHANGED <<lost, arena, overrun>>

MayInsert(target, x) == x # Document /\ Detached(x) /\ target \notin Subtree(x)

(* myhtml_node_append_child *)
AppendChild ==
    \E target, x \in live :
        /\ MayInsert(target, x)
        /\ nodes' = AddChild(nodes, target, x)
        /\ UNCHANGED <<live, lost>> /\ KeepTexts

(* myhtml_node_insert_before *)
InsertBefore ==
    \E target, x \in live :
        /\ MayInsert(target, x) /\ ~ Detached(target)
        /\ nodes' = PlaceBefore(nodes, target, x)
        /\ UNCHANGED <<live, lost>> /\ KeepTexts

(* myhtml_node_insert_after *)
InsertAfter ==
    \E target, x \in live :
        /\ MayInsert(target, x) /\ ~ Detached(target)
        /\ nodes' = PlaceAfter(nodes, target, x)
        /\ UNCHANGED <<live, lost>> /\ KeepTexts

(* myhtml_node_remove *)
RemoveNode ==
    \E x \in live \ {Document} :
        /\ nodes' = Unlink(nodes, x)
        /\ UNCHANGED <<live, lost>> /\ KeepTexts

(* myhtml_node_delete: the node and its token go back to their allocators,
   the text to the cache of the arena. *)
DeleteNode ==
    \E x \in live \ {Document} :
        /\ nodes[x].child = Null
        /\ nodes' = Unlink(nodes, x)
        /\ live' = live \ {x}
        /\ SetText(WithoutText(arena, x), x, Null)
        /\ UNCHANGED lost

(* Of a row of children _myhtml_tree_node_delete_recursive goes into the
   first and the second, and the second is the one it deletes: it has moved
   on to it, and what it deletes has no next any more. *)
Second(x) == nodes[x].child # Null /\ nodes[nodes[x].child].next # Null
Entered(x, below) ==
    LET Closed(D) == \A y \in D :
            /\ nodes[y].child # Null => nodes[y].child \in D
            /\ Second(y) => nodes[nodes[y].child].next \in D
    IN  {y \in below : \A D \in SUBSET below : x \in D /\ Closed(D) => y \in D}

FreedOf(x, below) ==
    {x} \cup {nodes[nodes[y].child].next : y \in {z \in Entered(x, below) : Second(z)}}

(* What myhtml_node_delete_recursive does, below being the subtree of x and
   freed the nodes it frees.  The texts come to the cache in some order. *)
Deleted(x, below, freed) ==
    LET texts == SetToSeq({y \in freed : text[y] # Null})
    IN  /\ nodes' = Unlink(nodes, x)
        /\ live' = live \ below
        /\ lost' = lost \cup (below \ freed)
        /\ arena' = FoldLeft(WithoutText, arena, texts)
        /\ text' = [y \in Nodes |-> IF y \in below THEN Null ELSE text[y]]
        /\ UNCHANGED overrun

DeleteRecursive ==
    \E x \in live \ {Document} :
        /\ nodes[x].child # Null
        /\ \E below \in {Subtree(x)} : \E freed \in {FreedOf(x, below)} : Deleted(x, below, freed)

(* A text that is set anew keeps its block if its size is enough. *)
Renewed(x, n) ==
    IF text[x].size < n THEN StringInit(Free(arena, text[x].block), n)
    ELSE [arena |-> arena, str |-> [text[x] EXCEPT !.length = 0]]

(* myhtml_node_text_set *)
TextSet ==
    \E x \in live \ {Document}, n \in Lengths :
        LET old == IF text[x] = Null THEN StringInit(arena, n + 2) ELSE Renewed(x, n)
        IN  /\ \E new \in {StringAppend(old.arena, old.str, n)} : SetText(new.arena, x, new.str)
            /\ KeepLinks

(* myhtml_tree_clean before the next document: what the program held of the
   last one is gone. *)
Clean ==
    /\ nodes' = [nodes EXCEPT ![Document] = NoLinks]
    /\ live' = {Document}
    /\ lost' = {}
    /\ text' = [x \in Nodes |-> Null]
    /\ arena' = Rewound(arena)
    /\ UNCHANGED overrun

(* What is overwritten by a text that does not fit is not modelled. *)
Next ==
    /\ ~ overrun
    /\ \/ InsertText \/ CreateNode \/ AppendChild \/ InsertBefore \/ InsertAfter
       \/ RemoveNode \/ DeleteNode \/ DeleteRecursive \/ TextSet \/ Clean

Spec == Init /\ [][Next]_vars

-----------------------------------------------------------------------------
(* Properties *)

Links == [parent : Nodes \cup {Null}, prev : Nodes \cup {Null}, next : Nodes \cup {Null},
          child : Nodes \cup {Null}, last : Nodes \cup {Null}]

(* The types of the tree. *)
TypeOK ==
    /\ nodes \in [Nodes -> Links]
    /\ live \subseteq Nodes /\ lost \subseteq Nodes
    /\ Document \in live

(* However a tree is edited, the links of the nodes agree in both
   directions and lead to nodes that nobody has freed. *)
TreeLinked == LinksSound(nodes, live)

Blocks == {text[x].block : x \in {y \in live : text[y] # Null}}

(* No two texts share memory, with each other or with what waits in the
   cache, and none reaches past the chunks in use: growing in place, cutting
   off white space and giving the rest of a chunk away notwithstanding. *)
BlocksApart ==
    /\ \A x, y \in live : x # y /\ text[x] # Null /\ text[y] # Null =>
           Apart(text[x].block, text[y].block)
    /\ \A i, j \in DOMAIN arena.cache : i # j => Apart(arena.cache[i], arena.cache[j])
    /\ \A i \in DOMAIN arena.cache : \A b \in Blocks : Apart(arena.cache[i], b)
    /\ \A b \in Blocks \cup ToSet(arena.cache) : InChunk(arena, b)

(* A text stays in its block, the 0 at its end too, unless its begin was cut
   off: the size of such a string is too large by what was cut. *)
TextsFit == \A x \in live : text[x] # Null => Fits(text[x]) \/ text[x].cropped

(* Why both hold: the arena is sound for the blocks of the texts, and every
   text has a block of its own. *)
TextInv ==
    /\ text \in [Nodes -> String \cup {Null}]
    /\ \A x \in live : text[x] # Null => StringSound(text[x])
    /\ \A x, y \in live : x # y /\ text[x] # Null /\ text[y] # Null => text[x].block # text[y].block
    /\ ArenaSound(arena, Blocks)
=============================================================================
