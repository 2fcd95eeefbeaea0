-------------------------- MODULE TreeConstruction --------------------------
(***************************************************************************)
(* The tree builder as a state machine: tokens come one by one, and the    *)
(* dispatcher of rules.c gives a token to the rules of the current mode,   *)
(* again and again until a handler is done with it.  lexer is what the     *)
(* tokenizer takes the next text for, and limits the next token.           *)
(*                                                                         *)
(* Documents bounds the inputs: a set of records with tokens (an           *)
(* alphabet), size (how many tokens a document has before its end),        *)
(* fragment (a context element, or Null) and threaded (the tokenizer runs  *)
(* in a thread of its own).                                                *)
(***************************************************************************)
EXTENDS RulesTable

CONSTANTS Documents,
          Script        \* TREE_FLAGS_SCRIPT

ASSUME DocumentsAssumption == \A document \in Documents : document.size \in Nat

VARIABLES tree, lexer, source, fed,
          turns         \* ghost: the turns the token at hand has had

vars == <<tree, lexer, source, fed, turns>>

-----------------------------------------------------------------------------
(* The modes behind the body. *)

AfterBody(t, k) ==
    CASE k.close /\ k.tag = "html" ->
           IF t.fragment # Null THEN Done(t) ELSE Done(SetMode(t, "AFTER_AFTER_BODY"))
      [] ~ k.close /\ (k.tag = "html" \/ (k.tag = "_TEXT" /\ k.ws)) -> Uses(t, "IN_BODY")
      [] ~ k.close /\ k.tag = "_COMMENT" ->
           Done(IF t.open = <<>> THEN t ELSE InsertComment(t, k, t.open[1]))
      [] ~ k.close /\ k.tag \in {"_DOCTYPE", "_END_OF_FILE"} -> Done(t)
      [] OTHER -> Again(SetMode(t, "IN_BODY"))

(* document->child *)
IsFirstOfDocument(t, x) == x = t.nodes[Document].child

EndFrameset(t) ==
    LET u == Pop(t)
        outer == CurrentIs(u, {"frameset"})
    IN  IF IsFirstOfDocument(t, Current(t)) THEN t
        ELSE IF t.fragment = Null /\ ~ outer THEN SetMode(u, "AFTER_FRAMESET") ELSE u

FramesetText(t, k) ==
    LET space == IF k.ws THEN k ELSE StayOnlySpace(k)
    IN  IF space.text = <<>> THEN t ELSE InsertText(t, space)

InFrameset(t, k) ==
    CASE k.close -> Done(IF k.tag = "frameset" THEN EndFrameset(t) ELSE t)
      [] ~ k.close /\ k.tag = "_TEXT" -> Done(FramesetText(t, k))
      [] ~ k.close /\ k.tag = "_COMMENT" -> Done(InsertComment(t, k, Null))
      [] ~ k.close /\ k.tag = "html" -> Uses(t, "IN_BODY")
      [] ~ k.close /\ k.tag = "frameset" -> Done(InsertHtml(t, k))
      [] ~ k.close /\ k.tag = "frame" -> Done(InsertVoid(t, k))
      [] ~ k.close /\ k.tag = "noframes" -> Uses(t, "IN_HEAD")
      [] OTHER -> Done(t)

AfterFrameset(t, k) ==
    CASE k.close -> Done(IF k.tag = "html" THEN SetMode(t, "AFTER_AFTER_FRAMESET") ELSE t)
      [] ~ k.close /\ k.tag = "_TEXT" -> Done(FramesetText(t, k))
      [] ~ k.close /\ k.tag = "_COMMENT" -> Done(InsertComment(t, k, Null))
      [] ~ k.close /\ k.tag = "html" -> Uses(t, "IN_BODY")
      [] ~ k.close /\ k.tag = "noframes" -> Uses(t, "IN_HEAD")
      [] OTHER -> Done(t)

AfterAfterBody(t, k) ==
    CASE ~ k.close /\ k.tag = "_COMMENT" -> Done(InsertComment(t, k, Document))
      [] ~ k.close /\ (k.tag \in {"html", "_DOCTYPE"} \/ (k.tag = "_TEXT" /\ k.ws)) ->
           Uses(t, "IN_BODY")
      [] ~ k.close /\ k.tag = "_END_OF_FILE" -> Done(t)
      [] OTHER -> Again(SetMode(t, "IN_BODY"))

(* The spaces of a text are given to in_body, where their token, which has  *)
(* no tag, is an element as any other.                                     *)
AfterFramesetsText(t, k) ==
    IF Leading(k.text) = 0 THEN t
    ELSE InsertHtml(Reconstruct(CropSpace(t)), SpaceToken(k))

AfterAfterFrameset(t, k) ==
    CASE ~ k.close /\ k.tag = "_COMMENT" -> Done(InsertComment(t, k, Document))
      [] ~ k.close /\ k.tag = "_TEXT" ->
           IF k.ws THEN Uses(t, "IN_BODY") ELSE Done(AfterFramesetsText(t, k))
      [] ~ k.close /\ k.tag \in {"html", "_DOCTYPE"} -> Uses(t, "IN_BODY")
      [] ~ k.close /\ k.tag = "noframes" -> Uses(t, "IN_HEAD")
      [] OTHER -> Done(t)

-----------------------------------------------------------------------------
(* Foreign content. *)

Breakout ==
    {"b", "big", "blockquote", "body", "br", "center", "code", "dd", "div", "dl",
     "dt", "em", "embed", "head", "hr", "i", "img", "li", "listing", "menu", "meta",
     "nobr", "ol", "p", "pre", "ruby", "s", "small", "span", "strong", "strike",
     "sub", "sup", "table", "tt", "u", "ul", "var"} \cup Headings

BreaksOut(k) == \/ k.tag \in Breakout
                \/ k.tag = "font" /\ k.attr \cap {"color", "face", "size"} # {}

IsPoint(node) == IsMathTextPoint(node) \/ IsHtmlPoint(node)

(* The stack down to an HTML element or an integration point. *)
LeaveForeign(t) ==
    [t EXCEPT !.open = SubSeq(@, 1, SelectLastInSubSeq(@, 1, Len(@) - 1,
        LAMBDA x : IsPoint(t.nodes[x]) \/ t.nodes[x].ns = "html"))]

NoNulls(text) == [i \in DOMAIN text |-> IF text[i] = "null" THEN "replaced" ELSE text[i]]

ForeignText(t, k) ==
    FramesetUnless(InsertText(t, IF k.null THEN [k EXCEPT !.text = NoNulls(@)] ELSE k), k.ws)

ForeignStart(t, k) ==
    LET u == InsertElement(t, k, AdjustedCurrent(t).ns)
    IN  Done(IF k.self THEN Pop(u) ELSE u)

(* An end tag looks for its element among the foreign ones on the top of   *)
(* the stack, and is left to the mode when an HTML element comes first.    *)
ForeignEnd(t, k) ==
    LET n == Len(t.open)
        i == SelectLastInSubSeq(t.open, 2, n,
                 LAMBDA x : \/ t.nodes[x].tag = k.tag
                            \/ x # t.open[n] /\ t.nodes[x].ns = "html")
        node == t.nodes[t.open[i]]
    IN  IF i # 0 /\ node.tag = k.tag /\ (i = n \/ node.ns # "html")
        THEN Done(PopUntilNode(t, t.open[i])) ELSE Uses(t, t.mode)

ForeignContent(t, k) ==
    CASE k.close -> ForeignEnd(t, k)
      [] ~ k.close /\ k.tag = "_TEXT" -> Done(ForeignText(t, k))
      [] ~ k.close /\ k.tag = "_COMMENT" -> Done(InsertComment(t, k, Null))
      [] ~ k.close /\ k.tag = "_DOCTYPE" -> Done(t)
      [] ~ k.close /\ BreaksOut(k) /\ t.fragment = Null -> Again(LeaveForeign(t))
      [] OTHER -> ForeignStart(t, k)

-----------------------------------------------------------------------------
(* The handlers of the modes.  in_table, in_select, in_body and in_head    *)
(* are the ones that others go on to use: each of them has its place, in   *)
(* the order of the calls, and is skipped when it is not used.             *)

ModeRules(t, k) ==
    CASE t.rules = "INITIAL" -> Initial(t, k)
      [] t.rules = "BEFORE_HTML" -> BeforeHtml(t, k)
      [] t.rules = "BEFORE_HEAD" -> BeforeHead(t, k)
      [] t.rules = "IN_HEAD_NOSCRIPT" -> InHeadNoscript(t, k)
      [] t.rules = "AFTER_HEAD" -> AfterHead(t, k)
      [] t.rules = "TEXT" -> Text(t, k)
      [] t.rules = "IN_TABLE_TEXT" -> InTableText(t, k)
      [] t.rules = "IN_CAPTION" -> InCaption(t, k)
      [] t.rules = "IN_COLUMN_GROUP" -> InColumnGroup(t, k)
      [] t.rules = "IN_TABLE_BODY" -> InTableBody(t, k)
      [] t.rules = "IN_ROW" -> InRow(t, k)
      [] t.rules = "IN_CELL" -> InCell(t, k)
      [] t.rules = "IN_SELECT_IN_TABLE" -> InSelectInTable(t, k)
      [] t.rules = "IN_TEMPLATE" -> InTemplate(t, k)
      [] t.rules = "AFTER_BODY" -> AfterBody(t, k)
      [] t.rules = "IN_FRAMESET" -> InFrameset(t, k)
      [] t.rules = "AFTER_FRAMESET" -> AfterFrameset(t, k)
      [] t.rules = "AFTER_AFTER_BODY" -> AfterAfterBody(t, k)
      [] t.rules = "AFTER_AFTER_FRAMESET" -> AfterAfterFrameset(t, k)
      [] OTHER -> t

ForeignRules(t, k) == IF t.rules = "FOREIGN" THEN ForeignContent(t, k) ELSE t
TableRules(t, k)   == IF t.rules = "IN_TABLE" THEN InTable(t, k) ELSE t
SelectRules(t, k)  == IF t.rules = "IN_SELECT" THEN InSelect(t, k) ELSE t
BodyRules(t, k)    == IF t.rules = "IN_BODY" THEN InBody(t, k) ELSE t
HeadRules(t, k)    == IF t.rules = "IN_HEAD" THEN InHead(t, k) ELSE t

InsertionFunc(t, k) ==
    LET first == TableRules(ModeRules(ForeignRules(t, k), k), k)
    IN  FosterEnds(HeadRules(BodyRules(SelectRules(first, k), k), k))

-----------------------------------------------------------------------------
(* The dispatcher. *)

(* check_for_first_newline: a line feed at once after <pre> is dropped.    *)
DropsNewline(t) == t.newline /\ t.token.tag = "_TEXT" /\ t.token.text[1] = "nl"
AfterNewline(t) ==
    LET u == IF DropsNewline(t) THEN [t EXCEPT !.token.text = Tail(@)] ELSE t
    IN  [u EXCEPT !.newline = FALSE]
IsSkipped(t) == DropsNewline(t) /\ Len(t.token.text) = 1

HtmlRules(t, k) ==
    LET node == AdjustedCurrent(t)
    IN  IF t.open = <<>> THEN TRUE
        ELSE \/ node.ns = "html"
             \/ IsMathTextPoint(node) /\ k.tag \notin {"mglyph", "malignmark"} /\ ~ k.close
             \/ /\ node.tag = "annotation-xml" /\ node.ns = "math"
                /\ k.tag = "svg" /\ ~ k.close
             \/ IsHtmlPoint(node) /\ ~ k.close
             \/ k.tag = "_END_OF_FILE"

(* Faulty variant of Prepared: the state of the builder is not set back. *)
PreparedKeepsState(t) == AfterNewline(t)
Prepared(t) == [AfterNewline(t) EXCEPT !.builder = "DATA"]

Dispatched(t) ==
    LET u == Prepared(t)
        rules == IF HtmlRules(t, t.token) THEN t.mode ELSE "FOREIGN"
    IN  InsertionFunc(Uses(u, rules), u.token)

-----------------------------------------------------------------------------
(* The tokenizer, as far as the builder has a say in it. *)

(* data_parser of the tags. *)
DataParser(tag, script) ==
    CASE tag \in {"iframe", "noembed", "noframes", "style", "xmp"} -> "RAWTEXT"
      [] tag = "noscript" -> IF script THEN "RAWTEXT" ELSE "DATA"
      [] tag = "plaintext" -> "PLAINTEXT"
      [] tag = "script" -> "SCRIPT_DATA"
      [] tag \in {"textarea", "title"} -> "RCDATA"
      [] OTHER -> "DATA"

Markup == {"_TEXT", "_COMMENT", "_DOCTYPE", "_END_OF_FILE"}

(* The state after token k: in a thread of its own the tokenizer goes by   *)
(* the tag, and asks the builder (builder, after the token) only once it   *)
(* has seen a namespace; else it always asks the builder.                  *)
LexerAfter(k, builder) ==
    LET named == lexer.named \/ k.tag \in {"math", "svg", "frameset"}
        own   == IF k.close THEN "DATA" ELSE DataParser(k.tag, Script)
        asks  == \/ ~ source.threaded
                 \/ lexer.named /\ ~ k.close /\ own # "DATA"
    IN  IF k.tag \in Markup
        THEN [lexer EXCEPT !.text = k.tag = "_TEXT"]
        ELSE [state |-> IF asks THEN builder ELSE own, tag |-> k.tag,
              text |-> FALSE, named |-> named]

(* What the tokenizer can make next: in a raw text only the text and the   *)
(* end tag that fits, and no two texts in a row.                           *)
Fits(k) ==
    /\ k.tag = "_TEXT" => ~ lexer.text
    /\ lexer.state # "DATA" =>
         \/ k.tag = "_TEXT"
         \/ lexer.state # "PLAINTEXT" /\ k.close /\ k.tag = lexer.tag

(* A token has a tag and a kind, and only a tag with a name can be an end  *)
(* tag (TYPE_CLOSE).                                                       *)
ASSUME TokensAssumption ==
    \A document \in Documents : \A k \in document.tokens :
        {"tag", "close"} \subseteq DOMAIN k /\ (k.close => k.tag \notin Markup)

Eof == [tag |-> "_END_OF_FILE", close |-> FALSE, self |-> FALSE, attr |-> {},
        text |-> <<>>, ws |-> FALSE, null |-> FALSE]

-----------------------------------------------------------------------------

EmptyTree ==
    [nodes |-> <<NodeOf("_DOCUMENT", "html", Null, {}, <<>>)>>,
     open |-> <<>>, active |-> <<>>, modes |-> <<>>, mode |-> "INITIAL",
     orig |-> "INITIAL", foster |-> FALSE, head |-> Null, form |-> Null,
     html |-> Null, frameset |-> TRUE, newline |-> FALSE, quirks |-> FALSE,
     script |-> Script, builder |-> "DATA", list |-> <<>>, fragment |-> Null,
     token |-> Null, again |-> FALSE, rules |-> "none"]

(* myhtml_tokenizer_fragment_init *)
FragmentTree(context) ==
    LET t == InsertRoot([EmptyTree EXCEPT !.fragment = context],
                        NodeOf("html", "html", Null, {}, <<>>))
    IN  ResetMode(IF context.tag = "template" THEN PushMode(t, "IN_TEMPLATE") ELSE t)

Init ==
    /\ source \in Documents
    /\ fed = 0 /\ turns = 0
    /\ tree = IF source.fragment = Null THEN EmptyTree ELSE FragmentTree(source.fragment)
    /\ lexer = IF source.fragment = Null
               THEN [state |-> "DATA", tag |-> Null, text |-> FALSE, named |-> FALSE]
               ELSE [state |-> IF source.fragment.ns = "html"
                               THEN DataParser(source.fragment.tag, Script) ELSE "DATA",
                     tag |-> source.fragment.tag, text |-> FALSE, named |-> TRUE]

Ended == fed > source.size /\ tree.token = Null

(* Token k as the tokenizer's state makes it: only DATA looks for nulls;   *)
(* elsewhere they are replaced, and a text that its end tag ends is never  *)
(* flagged as space, one that the end of the file ends always is.          *)
Made(k) ==
    LET ends == {e \in source.tokens : e.close /\ e.tag = lexer.tag}
    IN  IF k.tag # "_TEXT" \/ lexer.state = "DATA" THEN k
        ELSE [k EXCEPT !.text = NoNulls(@), !.null = FALSE,
                       !.ws = lexer.state # "PLAINTEXT"
                              /\ (fed + 1 = source.size \/ ends = {})]

Named(k, id) ==
    [field \in DOMAIN k \cup {"id"} |-> IF field = "id" THEN id ELSE k[field]]

(* The tokenizer makes the next token; the last one is the end of the file. *)
Feed ==
    LET fitting == {k \in source.tokens : Fits(k)}
        next == IF fed = source.size \/ fitting = {} THEN {Eof} ELSE fitting
    IN  /\ tree.token = Null
        /\ fed <= source.size
        /\ \E k \in next :
             /\ tree' = [tree EXCEPT !.token = Named(Made(k), fed + 1)]
             /\ fed' = IF k = Eof THEN source.size + 1 ELSE fed + 1
        /\ turns' = 0
        /\ UNCHANGED <<lexer, source>>

After(t) == IF t.again THEN t ELSE [t EXCEPT !.token = Null]

(* A text that is the line feed to be dropped is dropped whole. *)
Skip ==
    /\ tree.token # Null
    /\ IsSkipped(tree)
    /\ tree' = After(Done(AfterNewline(tree)))
    /\ turns' = turns + 1
    /\ lexer' = LexerAfter(tree.token, tree.builder)
    /\ UNCHANGED <<source, fed>>

(* A turn of the dispatcher. *)
Turn ==
    /\ tree.token # Null
    /\ ~ IsSkipped(tree)
    /\ \E t \in {Dispatched(tree)} :
          /\ tree' = After(t)
          /\ turns' = turns + 1
          /\ lexer' = IF t.again THEN lexer ELSE LexerAfter(tree.token, t.builder)
    /\ UNCHANGED <<source, fed>>

Stop == Ended /\ UNCHANGED vars

Next == Feed \/ Skip \/ Turn \/ Stop

Spec == Init /\ [][Next]_vars

-----------------------------------------------------------------------------

Modes ==
    {"INITIAL", "BEFORE_HTML", "BEFORE_HEAD", "IN_HEAD", "IN_HEAD_NOSCRIPT", "AFTER_HEAD",
     "IN_BODY", "TEXT", "IN_TABLE", "IN_TABLE_TEXT", "IN_CAPTION", "IN_COLUMN_GROUP",
     "IN_TABLE_BODY", "IN_ROW", "IN_CELL", "IN_SELECT", "IN_SELECT_IN_TABLE",
     "IN_TEMPLATE", "AFTER_BODY", "IN_FRAMESET", "AFTER_FRAMESET", "AFTER_AFTER_BODY",
     "AFTER_AFTER_FRAMESET"}

Nodes == DOMAIN tree.nodes

TypeOK ==
    /\ tree.mode \in Modes /\ tree.orig \in Modes
    /\ ToSet(tree.modes) \subseteq Modes
    /\ ToSet(tree.open) \subseteq Nodes
    /\ ToSet(tree.active) \subseteq Nodes \cup {Marker}
    /\ {tree.head, tree.form, tree.html} \subseteq Nodes \cup {Null}
    /\ tree.foster = FALSE
    /\ fed \in 0 .. source.size + 1

(* From x up to its parent and so on; no path is longer than there are     *)
(* nodes.                                                                  *)
RootOf(n, x) ==
    FoldLeft(LAMBDA y, node : IF n[y].parent = Null THEN y ELSE n[y].parent, x, n)

(* The links between the nodes stay sound through every insertion, foster  *)
(* parenting and adoption, and no node is under itself.                    *)
TreeSound ==
    /\ LinksSound(tree.nodes, Nodes)
    /\ \A x \in Nodes : tree.nodes[RootOf(tree.nodes, x)].parent = Null

(* The open elements are different nodes of the document, from <html> up:  *)
(* what is inserted under the current node can be reached.                 *)
StackRooted ==
    /\ IsInjective(tree.open)
    /\ tree.open # <<>> => tree.open[1] = tree.html
    /\ \A x \in ToSet(tree.open) : RootOf(tree.nodes, x) = Document

(* The list of active formatting elements has each element once, and no    *)
(* more than three that look the same after its last marker.               *)
ActiveSound ==
    LET elements == SelectSeq(tree.active, LAMBDA x : x # Marker)
        last == LastMarker(tree) + 1 .. Len(tree.active)
        Same(i) == {j \in last : SameElement(tree.nodes[tree.active[i]],
                                             tree.nodes[tree.active[j]])}
    IN  /\ IsInjective(elements)
        /\ \A x \in ToSet(elements) : Is(tree, x, Formatting)
        /\ \A i \in last : Cardinality(Same(i)) <= 3

AtEof == tree.token # Null /\ tree.token.tag = "_END_OF_FILE"
Finished == fed > source.size

(* The stack of template modes has one entry for every open template (and  *)
(* one for a template that is the context): each template is read in a     *)
(* mode of its own.                                                        *)
TemplateModes ==
    LET templates == SelectSeq(tree.open, LAMBDA x : Is(tree, x, {"template"}))
        context   == IF source.fragment # Null /\ source.fragment.tag = "template"
                     THEN 1 ELSE 0
    IN  ~ Finished => Len(tree.modes) = Len(templates) + context

(* Every open cell, caption, object and template has its marker: formatting *)
(* elements outside are not reopened inside.                               *)
MarkersHold ==
    LET bounded == SelectSeq(tree.open,
                       LAMBDA x : Is(tree, x, Cells \cup Objects \cup {"caption", "template"}))
        markers == SelectSeq(tree.active, LAMBDA x : x = Marker)
    IN  ~ Finished => Len(markers) >= Len(bounded)

(* A template as the context stands for any stack. *)
Context(tags) == source.fragment # Null /\ source.fragment.tag \in tags \cup {"template"}

(* What the handlers of a mode take for granted about the stack.           *)
ModeFitsStack ==
    LET top == Current(tree)
        Open(tags) == LastOpen(tree, tags) # 0
    IN  CASE tree.mode = "TEXT" ->
               CurrentIs(tree, {"title", "style", "noframes", "noscript", "script",
                                "textarea", "xmp", "iframe", "noembed"})
          [] tree.mode \in {"IN_HEAD"} -> CurrentIs(tree, {"head"})
          [] tree.mode = "IN_HEAD_NOSCRIPT" -> CurrentIs(tree, {"noscript"})
          [] tree.mode = "AFTER_HEAD" -> Len(tree.open) = 1 /\ tree.head # Null
          [] tree.mode \in {"IN_SELECT", "IN_SELECT_IN_TABLE"} ->
               Open({"select"}) \/ Context({"select"})
          [] tree.mode = "IN_CELL" -> Open(Cells)
          [] tree.mode = "IN_CAPTION" -> Open({"caption"}) \/ Context({"caption"})
          [] tree.mode = "IN_COLUMN_GROUP" ->
               CurrentIs(tree, {"colgroup", "template"}) \/ Context({"colgroup"})
          [] tree.mode = "IN_ROW" -> Open({"tr", "template"}) \/ Context({"tr"})
          [] tree.mode = "IN_TABLE_BODY" ->
               Open(TableBodies \cup {"template"}) \/ Context(TableBodies)
          [] tree.mode = "IN_TABLE" -> Open({"table", "template"}) \/ Context({"table"})
          [] tree.mode = "IN_TEMPLATE" -> Open({"template"}) \/ Context({"template"})
          [] tree.mode = "IN_FRAMESET" ->
               CurrentIs(tree, {"frameset"}) \/ source.fragment # Null
          [] tree.mode \in {"INITIAL", "BEFORE_HTML"} -> tree.open = <<>>
          [] OTHER -> tree.open # <<>>

ChildrenOf(x) == {y \in Nodes : tree.nodes[y].parent = x}
TagsUnder(x) == {tree.nodes[y].tag : y \in ChildrenOf(x)}

(* Foster parenting: a table, a table body and a row have no child that    *)
(* does not belong there.                                                  *)
TableContent ==
    LET always == {"_COMMENT", "_TEXT", "script", "style", "template", "form", "input"}
        Holds(parents, tags) ==
            \A x \in Nodes : Is(tree, x, parents) => TagsUnder(x) \subseteq tags \cup always
    IN  /\ Holds({"table"}, {"caption", "colgroup"} \cup TableBodies)
        /\ Holds(TableBodies, {"tr"})
        /\ Holds({"tr"}, Cells)

(* A token is the token of one node.                                       *)
TokensOwned ==
    \A x, y \in Nodes :
        x # y /\ tree.nodes[x].token \notin {Null, Copy} =>
            tree.nodes[x].token # tree.nodes[y].token

(* A document that has ended has one <html>, in it one head and after that *)
(* one body or the framesets in its place.                                 *)
DocumentShape ==
    LET Kids(x, tags) == {y \in ChildrenOf(x) : Is(tree, y, tags)}
    IN  Ended /\ source.fragment = Null =>
          /\ Kids(Document, {"html"}) = {tree.html}
          /\ Kids(tree.html, {"head"}) = {tree.head}
          /\ Cardinality(Kids(tree.html, {"body", "frameset"})) = 1
          /\ \A y \in Kids(tree.html, {"body", "frameset"}) : tree.head < y

(* The dispatcher is done with a token after a bounded number of turns: no  *)
(* two modes pass a token to and fro.  The first token takes up to seven   *)
(* turns on its way to the body; each template that is still open costs    *)
(* the end of the file one more.                                           *)
TurnsBounded == turns <= 6 + fed

(* In one thread the tokenizer asks the builder after every tag, and the   *)
(* two agree: raw text is read exactly while the builder takes it.         *)
OneThreadAgrees ==
    tree.token = Null /\ ~ Finished /\ ~ source.threaded /\ source.fragment = Null =>
        (lexer.state \notin {"DATA", "PLAINTEXT"} <=> tree.mode = "TEXT")
=============================================================================
