---------------------------- MODULE TreeElements ----------------------------
(***************************************************************************)
(* What the tree builder does with a tree: making nodes, the stack of open *)
(* elements, the list of active formatting elements, the stack of template *)
(* modes (tree.c).  A tree is a record; every operator takes the tree and  *)
(* gives the tree after the call:                                          *)
(*   nodes    the nodes made so far, number 1 is the document              *)
(*   open     open_elements, active  active_formatting                     *)
(*   modes    template_insertion, mode  insert_mode, orig orig_insert_mode *)
(*   foster   foster_parenting                                             *)
(*   head, form, html   node_head, node_form, node_html                    *)
(*   frameset FLAGS_FRAMESET_OK, newline  FLAGS_PARSE_FLAG                 *)
(*   quirks   compat_mode, script  FLAGS_SCRIPT                            *)
(*   builder  state_of_builder, list  token_list                           *)
(*   fragment the context element of a fragment parse, or Null             *)
(*   token    the token at hand as the handlers leave it                   *)
(*   again    what the last handler returned                               *)
(*   rules    the mode whose rules the handler goes on to use, or "none"     *)
(* A token is a record: tag (tag_id), close (TYPE_CLOSE), self             *)
(* (TYPE_CLOSE_SELF), attr (the set of its attributes), text (a sequence   *)
(* of "ws", "nl", "null" and other characters), ws and null                *)
(* (TYPE_WHITESPACE and TYPE_NULL as the tokenizer set them), id.          *)
(***************************************************************************)
EXTENDS Integers, SequencesExt, Tags

CONSTANT Null

INSTANCE TreeLinks

Document == 1
Marker   == 0       \* myhtml->marker in the list of active formatting elements
Copy     == 0       \* the token of a node that has one of its own

NodeOf(tag, ns, token, attr, text) ==
    [tag |-> tag, ns |-> ns, token |-> token, attr |-> attr, text |-> text,
     parent |-> Null, prev |-> Null, next |-> Null, child |-> Null, last |-> Null]

(* A loop: Step is done with what there is, for turn 1 up to turn n.       *)
Turns(Step(_, _), start, n) ==
    LET after[i \in 0 .. n] == IF i = 0 THEN start ELSE Step(after[i - 1], i)
    IN  IF n \in Nat THEN after[n] ELSE start

IsSpace(c) == c \in {"ws", "nl"}

Result(t, again) == [t EXCEPT !.again = again, !.rules = "none"]
Done(t)  == Result(t, FALSE)
Again(t) == Result(t, TRUE)

(* The call of another mode's handler, which a handler returns the result *)
(* of: it is made when the handler is through.                             *)
Uses(t, mode) == [t EXCEPT !.rules = mode]

Is(t, x, tags) == x # Null /\ t.nodes[x].tag \in tags /\ t.nodes[x].ns = "html"

-----------------------------------------------------------------------------
(* The stack of open elements. *)

Current(t) == IF t.open = <<>> THEN Null ELSE Last(t.open)
CurrentIs(t, tags) == Is(t, Current(t), tags)

Push(t, x) == [t EXCEPT !.open = Append(@, x)]
Pop(t)     == IF t.open = <<>> THEN t ELSE [t EXCEPT !.open = Front(@)]

LastOpen(t, tags) == SelectLastInSeq(t.open, LAMBDA x : Is(t, x, tags))
HasOpen(t, tag)   == LastOpen(t, {tag}) # 0
IndexOf(s, x)     == SelectLastInSeq(s, LAMBDA y : y = x)

PopUntil(t, tags) == [t EXCEPT !.open = SubSeq(@, 1, LastOpen(t, tags) - 1)]
PopUntilExclude(t, tags) == [t EXCEPT !.open = SubSeq(@, 1, LastOpen(t, tags))]
PopUntilNode(t, x) == [t EXCEPT !.open = SubSeq(@, 1, IndexOf(@, x) - 1)]

RemoveNode(s, x) == IF IndexOf(s, x) = 0 THEN s ELSE RemoveAt(s, IndexOf(s, x))
RemoveOpen(t, x) == [t EXCEPT !.open = RemoveNode(@, x)]

InCategory(t, x, category) == HasCategory(t.nodes[x].tag, t.nodes[x].ns, category)

StopsScope(t, x, category) ==
    IF category = "SCOPE_SELECT" THEN ~ InCategory(t, x, category)
                                 ELSE InCategory(t, x, category)

(* The topmost element of the stack that Test accepts, unless the scope    *)
(* ends above it.                                                          *)
InScopeBy(t, Test(_), category) ==
    LET i == SelectLastInSeq(t.open,
                 LAMBDA x : Test(x) \/ StopsScope(t, x, category))
    IN  IF i # 0 /\ Test(t.open[i]) THEN t.open[i] ELSE Null

InScope(t, tag, category) ==
    InScopeBy(t, LAMBDA x : Is(t, x, {tag}), category)
NodeInScope(t, node, category) ==
    InScopeBy(t, LAMBDA x : x = node, category) # Null

PopWhile(t, tags, except) ==
    [t EXCEPT !.open =
        SubSeq(@, 1, SelectLastInSeq(@,
            LAMBDA x : \/ t.nodes[x].tag \notin tags
                       \/ t.nodes[x].tag = except /\ t.nodes[x].ns = "html"))]

GenerateImplied(t, except) == PopWhile(t, ImpliedEnd, except)
GenerateAllImplied(t)      == PopWhile(t, AllImpliedEnd, Null)

ClearBackTo(t, tags) == PopUntilExclude(t, tags \cup {"template", "html"})

CloseP(t) == PopUntil(GenerateImplied(t, "p"), {"p"})
ClosePInButtonScope(t) == IF InScope(t, "p", "SCOPE_BUTTON") # Null THEN CloseP(t) ELSE t

-----------------------------------------------------------------------------
(* Making and placing nodes. *)

(* Faulty variant of FosterTargets: rows are forgotten. *)
FosterTargetsNoRow == TableBodies \cup {"table"}
FosterTargets == TableBodies \cup {"table", "tr"}

InPlace(x) == [node |-> x, mode |-> "DEFAULT"]

(* Where a new node goes: under the target, or in front of the table when  *)
(* foster parenting is on and the target belongs to a table.               *)
FosterPlace(t, template, table) ==
    LET node == t.open[table]
    IN  IF template # 0 /\ template > table THEN InPlace(t.open[template])
        ELSE IF table = 0 THEN InPlace(t.open[1])
        ELSE IF t.nodes[node].parent = Null THEN InPlace(t.open[table - 1])
        ELSE IF t.nodes[node].prev # Null
             THEN [node |-> t.nodes[node].prev, mode |-> "AFTER"]
             ELSE [node |-> node, mode |-> "BEFORE"]
AppropriatePlace(t, target) ==
    IF t.foster /\ Is(t, target, FosterTargets)
    THEN FosterPlace(t, LastOpen(t, {"template"}), LastOpen(t, {"table"}))
    ELSE InPlace(target)

NewPlace(t) == AppropriatePlace(t, Current(t))

Newest(t) == Len(t.nodes)
Create(t, node) == [t EXCEPT !.nodes = Append(@, node)]
Link(t, place, x) == [t EXCEPT !.nodes = InsertByMode(@, place, x)]
CreateAt(t, place, node) == Link(Create(t, node), place, Newest(t) + 1)

(* insert_html_element, insert_by_token, insert_foreign_element: the       *)
(* element is made, placed and opened.                                     *)
InsertElement(t, token, ns) ==
    Push(CreateAt(t, NewPlace(t), NodeOf(token.tag, ns, token.id, token.attr, <<>>)),
         Newest(t) + 1)
InsertHtml(t, token) == InsertElement(t, token, "html")
InsertVoid(t, token) == Pop(InsertHtml(t, token))

(* myhtml_tree_node_insert: an element no token stands for. *)
InsertImplied(t, tag) ==
    Push(CreateAt(t, NewPlace(t), NodeOf(tag, "html", Null, {}, <<>>)), Newest(t) + 1)

InsertComment(t, token, parent) ==
    LET place == IF parent = Null THEN NewPlace(t) ELSE InPlace(parent)
    IN  CreateAt(t, place, NodeOf("_COMMENT", t.nodes[place.node].ns, token.id, {}, <<>>))

InsertDoctype(t, token) ==
    CreateAt(t, InPlace(Document), NodeOf("_DOCTYPE", "html", token.id, {}, <<>>))

InsertRoot(t, node) ==
    [Push(CreateAt(t, InPlace(Document), node), Newest(t) + 1)
        EXCEPT !.html = Newest(t) + 1]

(* A text goes into the text node it would stand next to, if there is one. *)
TextAt(t, token, place) ==
    LET near == IF place.mode = "DEFAULT" THEN t.nodes[place.node].last ELSE place.node
        isText == near # Null /\ t.nodes[near].tag = "_TEXT" /\ t.nodes[near].token # Null
    IN  CASE place.node = Document -> t
          [] place.node # Document /\ isText /\ place.mode # "BEFORE" ->
               [t EXCEPT !.nodes[near].text = @ \o token.text]
          [] place.node # Document /\ isText /\ place.mode = "BEFORE" ->
               [t EXCEPT !.nodes[near].text = token.text \o @]
          [] OTHER ->
               CreateAt(t, place, NodeOf("_TEXT", t.nodes[place.node].ns, token.id, {},
                                         token.text))
InsertText(t, token) == TextAt(t, token, NewPlace(t))

(* Faulty variant of Clone: both nodes have the one token. *)
CloneSharesToken(t, x) ==
    LET node == t.nodes[x] IN Create(t, NodeOf(node.tag, node.ns, node.token, node.attr, <<>>))

(* myhtml_tree_node_clone: a node of its own with a token of its own. *)
Clone(t, x) ==
    LET node == t.nodes[x]
        token == IF node.token = Null THEN Null ELSE Copy
    IN  Create(t, NodeOf(node.tag, node.ns, token, node.attr, <<>>))

SwitchToText(t, state) ==
    [t EXCEPT !.orig = t.mode, !.mode = "TEXT", !.builder = state]

FramesetNotOk(t) == [t EXCEPT !.frameset = FALSE]

-----------------------------------------------------------------------------
(* The list of active formatting elements. *)

IsMarker(t, x) == x = Marker \/ t.nodes[x].tag \in MarkerTags

PushMarker(t) == [t EXCEPT !.active = Append(@, Marker)]
RemoveActive(t, x) == [t EXCEPT !.active = RemoveNode(@, x)]

LastMarker(t) == SelectLastInSeq(t.active, LAMBDA x : IsMarker(t, x))
(* Faulty variant of UpToLastMarker: everything goes. *)
UpToNoMarker(t) == [t EXCEPT !.active = <<>>]
UpToLastMarker(t) == [t EXCEPT !.active = SubSeq(@, 1, LastMarker(t) - 1)]

(* The last active element of a tag after the last marker. *)
BetweenLastMarker(t, tag) ==
    LET i == SelectLastInSeq(t.active,
                 LAMBDA x : IsMarker(t, x) \/ Is(t, x, {tag}))
    IN  IF i # 0 /\ ~ IsMarker(t, t.active[i]) THEN t.active[i] ELSE Null

SameElement(a, b) ==
    /\ a.token # Null /\ b.token # Null
    /\ a.ns = b.ns /\ a.tag = b.tag /\ a.attr = b.attr

(* Faulty variant of AppendWithCheck: one too many is let through. *)
AppendWithLateCheck(t, x) ==
    LET same == {i \in LastMarker(t) + 1 .. Len(t.active) :
                    SameElement(t.nodes[t.active[i]], t.nodes[x])}
        room == IF Cardinality(same) > 3
                THEN RemoveAt(t.active, Min(same)) ELSE t.active
    IN  [t EXCEPT !.active = Append(room, x)]

(* No more than three elements that look the same after the last marker:   *)
(* the earliest one gives way.                                             *)
AppendWithCheck(t, x) ==
    LET same == {i \in LastMarker(t) + 1 .. Len(t.active) :
                    SameElement(t.nodes[t.active[i]], t.nodes[x])}
        room == IF Cardinality(same) >= 3
                THEN RemoveAt(t.active, Min(same)) ELSE t.active
    IN  [t EXCEPT !.active = Append(room, x)]

InsertFormatting(t, token) ==
    LET u == InsertHtml(t, token) IN AppendWithCheck(u, Newest(u))

(* A clone of the active element i is opened and takes its place. *)
Reopen(t, i) ==
    LET u == Clone(t, t.active[i])
        v == Push(Link(u, NewPlace(u), Newest(u)), Newest(u))
    IN  [v EXCEPT !.active[i] = Newest(u)]

(* Formatting elements that were closed by the way are opened again: a     *)
(* clone of each, from the first one after the last that needs none.       *)
Reconstruct(t) ==
    LET n == Len(t.active)
        settled == SelectLastInSeq(t.active,
                       LAMBDA x : IsMarker(t, x) \/ x \in ToSet(t.open))
    IN  Turns(LAMBDA u, k : Reopen(u, settled + k), t, n - settled)

-----------------------------------------------------------------------------
(* The adoption agency: an end tag of a formatting element whose element   *)
(* has blocks open in it.                                                  *)

MoveFirst(n, from, to) == LET x == n[from].child IN AddChild(Unlink(n, x), to, x)
MoveChildren(n, from, to) ==
    Turns(LAMBDA m, k : MoveFirst(m, from, to), n,
          Cardinality({x \in DOMAIN n : n[x].parent = from}))

(* Faulty variant of Detach: the node is placed anew while it is linked. *)
DetachNot(t, x) == t

Detach(t, x) ==
    IF t.nodes[x].parent = Null THEN t ELSE [t EXCEPT !.nodes = Unlink(@, x)]

(* One turn of the inner loop for the element at place at of the stack;    *)
(* turn counts from one.  s.last is the node moved last, s.bookmark the    *)
(* place of the new element in the list of active formatting elements.     *)
InnerTurn(s, at, turn, furthest) ==
    LET t == s.tree
        i == IndexOf(t.active, t.open[at])
        u == Clone(t, t.open[at])
        clone == Newest(u)
        v == [u EXCEPT !.active[i] = clone, !.open[at] = clone]
    IN  CASE turn > 3 /\ i # 0 ->
               [s EXCEPT !.tree.active = RemoveAt(@, i),
                         !.bookmark = IF i < @ THEN @ - 1 ELSE @]
          [] i = 0 -> [s EXCEPT !.tree.open = RemoveAt(@, at)]
          [] OTHER ->
               [tree |-> Link(Detach(v, s.last), InPlace(clone), s.last),
                last |-> clone,
                bookmark |-> IF s.last = furthest THEN i + 1 ELSE s.bookmark]

(* The stack from the furthest block down to the formatting element.       *)
InnerLoop(t, at, far, bookmark) ==
    Turns(LAMBDA s, turn : InnerTurn(s, far - turn, turn, t.open[far]),
          [tree |-> t, last |-> t.open[far], bookmark |-> bookmark], far - at - 1)

(* Steps 15 to 20: the last node goes under the common ancestor, a clone   *)
(* of the formatting element takes the children of the furthest block and  *)
(* its place in both lists.                                                *)
PlaceLast(t, common, last) == Link(t, AppropriatePlace(t, common), last)
TakeChildren(t, furthest) ==
    [t EXCEPT !.nodes = AddChild(MoveChildren(@, furthest, Newest(t)), furthest, Newest(t))]
ReplaceBy(t, element, furthest, bookmark) ==
    LET i == IndexOf(t.active, element)
        mark == IF i < bookmark THEN bookmark - 1 ELSE bookmark
        open == RemoveNode(t.open, element)
    IN  IF i = 0 THEN t
        ELSE [t EXCEPT !.active = InsertAt(RemoveAt(@, i), mark, Newest(t)),
                       !.open = InsertAt(open, IndexOf(open, furthest) + 1, Newest(t))]
Adopt(s, element, furthest, common) ==
    LET placed == PlaceLast(Detach(s.tree, s.last), common, s.last)
    IN  ReplaceBy(TakeChildren(Clone(placed, element), furthest),
                  element, furthest, s.bookmark)

(* One turn of the outer loop: go tells whether there is another.          *)
AgencyTurn(t, subject) ==
    LET i == SelectLastInSeq(t.active,
                 LAMBDA x : IsMarker(t, x) \/ t.nodes[x].tag = subject)
        element == t.active[i]
        at  == IndexOf(t.open, element)
        far == SelectInSubSeq(t.open, at, Len(t.open),
                   LAMBDA x : InCategory(t, x, "SPECIAL"))
    IN  IF i = 0 \/ IsMarker(t, element) THEN [tree |-> t, go |-> FALSE]
        ELSE IF at = 0 THEN [tree |-> RemoveActive(t, element), go |-> FALSE]
        ELSE IF ~ NodeInScope(t, element, "SCOPE") THEN [tree |-> t, go |-> FALSE]
        ELSE IF far = 0
             THEN [tree |-> RemoveActive(PopUntilNode(t, element), element), go |-> FALSE]
        ELSE [tree |-> Adopt(InnerLoop(t, at, far, i + 1), element, t.open[far],
                             t.open[at - 1]),
              go |-> TRUE]

AgencyTurns == 8

AdoptionAgency(t, subject) ==
    IF CurrentIs(t, {subject}) /\ IndexOf(t.active, Current(t)) = 0
    THEN Pop(t)
    ELSE Turns(LAMBDA r, k : IF r.go THEN AgencyTurn(r.tree, subject) ELSE r,
               [tree |-> t, go |-> TRUE], AgencyTurns).tree

-----------------------------------------------------------------------------
(* The mode that fits the stack of open elements. *)

SelectMode(t, i) ==
    LET j == SelectLastInSubSeq(t.open, 1, i - 1,
                 LAMBDA x : t.nodes[x].tag \in {"template", "table"})
    IN  IF j # 0 /\ t.nodes[t.open[j]].tag = "table"
        THEN "IN_SELECT_IN_TABLE" ELSE "IN_SELECT"

TemplateMode(t) == IF t.modes = <<>> THEN "UNDEFINED" ELSE Last(t.modes)

ModeOf ==
    [tr |-> "IN_ROW", tbody |-> "IN_TABLE_BODY", tfoot |-> "IN_TABLE_BODY",
     thead |-> "IN_TABLE_BODY", caption |-> "IN_CAPTION",
     colgroup |-> "IN_COLUMN_GROUP", table |-> "IN_TABLE", body |-> "IN_BODY",
     frameset |-> "IN_FRAMESET"]

(* What element i of the stack says of the mode; "none" goes on below it.  *)
(* The lowest element is the last word; it is the context of a fragment.   *)
ModeAt(t, i) ==
    LET bottom == i = 1
        node == IF bottom /\ t.fragment # Null THEN t.fragment ELSE t.nodes[t.open[i]]
    IN  CASE node.ns # "html" -> IF bottom THEN "IN_BODY" ELSE "none"
          [] node.ns = "html" /\ node.tag = "select" ->
               IF bottom THEN "IN_SELECT" ELSE SelectMode(t, i)
          [] node.ns = "html" /\ node.tag \in Cells /\ ~ bottom -> "IN_CELL"
          [] node.ns = "html" /\ node.tag = "head" /\ ~ bottom -> "IN_HEAD"
          [] node.ns = "html" /\ node.tag \in DOMAIN ModeOf -> ModeOf[node.tag]
          [] node.ns = "html" /\ node.tag = "template" -> TemplateMode(t)
          [] node.ns = "html" /\ node.tag = "html" ->
               IF t.head # Null THEN "AFTER_HEAD" ELSE "BEFORE_HEAD"
          [] OTHER -> IF bottom THEN "IN_BODY" ELSE "none"

ResetMode(t) ==
    LET i == CHOOSE k \in DOMAIN t.open :
                /\ ModeAt(t, k) # "none"
                /\ \A j \in k + 1 .. Len(t.open) : ModeAt(t, j) = "none"
    IN  IF t.open = <<>> THEN t ELSE [t EXCEPT !.mode = ModeAt(t, i)]

PushMode(t, mode) == [t EXCEPT !.modes = Append(@, mode)]
(* Faulty variant of PopMode: the mode of the template stays. *)
PopModeNot(t) == t
PopMode(t) == IF t.modes = <<>> THEN t ELSE [t EXCEPT !.modes = Front(@)]

CloseCell(t, cell) ==
    [UpToLastMarker(PopUntil(GenerateImplied(t, Null), {cell})) EXCEPT !.mode = "IN_ROW"]

-----------------------------------------------------------------------------
(* Foreign elements. *)

AdjustedCurrent(t) ==
    IF Len(t.open) = 1 /\ t.fragment # Null THEN t.fragment ELSE t.nodes[Current(t)]

IsMathTextPoint(node) == node.ns = "math" /\ node.tag \in BoundMath \ {"annotation-xml"}

(* "encoding" is the attribute with either of the two values asked for.    *)
IsHtmlPoint(node) ==
    \/ node.ns = "svg" /\ node.tag \in BoundSvg
    \/ node.ns = "math" /\ node.tag = "annotation-xml" /\ "encoding" \in node.attr
=============================================================================
