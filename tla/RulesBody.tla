----------------------------- MODULE RulesBody -----------------------------
(***************************************************************************)
(* The insertion mode in_body (rules.c), which most other modes fall back  *)
(* to, and the end of the file in in_template that it calls.               *)
(***************************************************************************)
EXTENDS RulesHead

(* in_template, _END_OF_FILE: the templates are closed down to the lowest. *)
TemplateEof(t) ==
    LET i == SelectInSeq(t.open, LAMBDA x : Is(t, x, {"template"}))
        u == [t EXCEPT !.open = SubSeq(@, 1, i - 1)]
    IN  IF i = 0 THEN Done(t) ELSE Again(ResetMode(PopMode(UpToLastMarker(u))))

Blocks == {"address", "article", "aside", "blockquote", "center", "details",
           "dialog", "dir", "div", "dl", "fieldset", "figcaption", "figure",
           "footer", "header", "hgroup", "main", "nav", "ol", "section",
           "summary", "ul"}
EndBlocks == Blocks \cup {"button", "listing", "menu", "pre"}
Objects   == {"applet", "marquee", "object"}

-----------------------------------------------------------------------------
(* End tags. *)

(* body_other_end_tag: the topmost element of that name, unless a special  *)
(* element is above it.                                                    *)
OtherEndTag(t, k) ==
    LET i == SelectLastInSeq(t.open,
                 LAMBDA x : Is(t, x, {k.tag}) \/ InCategory(t, x, "SPECIAL"))
        node == t.open[i]
    IN  IF i = 0 \/ ~ Is(t, node, {k.tag}) THEN Done(t)
        ELSE Done(PopUntilNode(GenerateImplied(t, k.tag), node))

(* Ends the element of a tag that is in a scope; implied end tags go, but  *)
(* for those of the tag except.                                            *)
EndInScope(t, tag, category, except) ==
    IF InScope(t, tag, category) = Null THEN t
    ELSE PopUntil(GenerateImplied(t, except), {tag})

EndBody(t, again) ==
    IF InScope(t, "body", "SCOPE") = Null THEN Done(t)
    ELSE Result(SetMode(t, "AFTER_BODY"), again)

EndForm(t) ==
    LET node == t.form
        u == [t EXCEPT !.form = Null]
    IN  CASE HasOpen(t, "template") -> EndInScope(t, "form", "SCOPE", Null)
          [] ~ HasOpen(t, "template") ->
               IF node = Null \/ ~ NodeInScope(u, node, "SCOPE") THEN u
               ELSE RemoveOpen(GenerateImplied(u, Null), node)

EndP(t) ==
    CloseP(IF InScope(t, "p", "SCOPE_BUTTON") = Null THEN InsertImplied(t, "p") ELSE t)

EndHeading(t) ==
    LET node == InScopeBy(t, LAMBDA x : Is(t, x, Headings), "SCOPE")
    IN  IF node = Null THEN t ELSE PopUntil(GenerateImplied(t, Null), Headings)

EndObject(t, tag) ==
    IF InScope(t, tag, "SCOPE") = Null THEN t
    ELSE UpToLastMarker(EndInScope(t, tag, "SCOPE", Null))

(* </br> is <br>. *)
EndBr(t, k) ==
    FramesetNotOk(InsertVoid(Reconstruct(t), [k EXCEPT !.close = FALSE, !.attr = {}]))

InBodyEnd(t, k) ==
    CASE k.tag = "template" -> Uses(t, "IN_HEAD")
      [] k.tag = "body" -> EndBody(t, FALSE)
      [] k.tag = "html" -> EndBody(t, TRUE)
      [] k.tag \in EndBlocks -> Done(EndInScope(t, k.tag, "SCOPE", Null))
      [] k.tag = "form" -> Done(EndForm(t))
      [] k.tag = "p" -> Done(EndP(t))
      [] k.tag = "li" -> Done(EndInScope(t, "li", "SCOPE_LIST_ITEM", "li"))
      [] k.tag \in {"dd", "dt"} -> Done(EndInScope(t, k.tag, "SCOPE", k.tag))
      [] k.tag \in Headings -> Done(EndHeading(t))
      [] k.tag \in Formatting -> Done(AdoptionAgency(t, k.tag))
      [] k.tag \in Objects -> Done(EndObject(t, k.tag))
      [] k.tag = "br" -> Done(EndBr(t, k))
      [] OTHER -> OtherEndTag(t, k)

-----------------------------------------------------------------------------
(* Start tags. *)

FramesetUnless(t, ok) == IF ok THEN t ELSE FramesetNotOk(t)

BodyText(t, k) ==
    LET text == WithoutNulls(k)
    IN  IF k.null /\ text.text = <<>> THEN t
        ELSE FramesetUnless(InsertText(Reconstruct(t), text), k.ws)

SecondIsBody(t) == Len(t.open) > 1 /\ Is(t, t.open[2], {"body"})

BodyBody(t, k) ==
    IF ~ SecondIsBody(t) \/ HasOpen(t, "template") THEN t
    ELSE MergeAttributes(FramesetNotOk(t), t.open[2], k)

(* Faulty variants of BodyFrameset: the body stays open, though it is out  *)
(* of the tree, or stays in the tree.                                      *)
BodyFramesetBodyOpen(t, k) ==
    IF ~ SecondIsBody(t) \/ ~ t.frameset THEN t
    ELSE SetMode(InsertHtml(Detach(t, t.open[2]), k), "IN_FRAMESET")
BodyFramesetBodyStays(t, k) ==
    IF ~ SecondIsBody(t) \/ ~ t.frameset THEN t
    ELSE SetMode(InsertHtml(PopUntilExclude(t, {"html"}), k), "IN_FRAMESET")

(* A frameset takes the place of a body that has shown nothing yet. *)
BodyFrameset(t, k) ==
    IF ~ SecondIsBody(t) \/ ~ t.frameset THEN t
    ELSE LET u == PopUntilExclude(Detach(t, t.open[2]), {"html"})
         IN  SetMode(InsertHtml(u, k), "IN_FRAMESET")

PopIf(t, tags) == IF CurrentIs(t, tags) THEN Pop(t) ELSE t

StartBlock(t, k) == InsertHtml(ClosePInButtonScope(t), k)

StartForm(t, k) ==
    LET u == StartBlock(t, k)
    IN  CASE HasOpen(t, "template") -> u
          [] ~ HasOpen(t, "template") ->
               IF t.form # Null THEN t ELSE [u EXCEPT !.form = Newest(u)]

(* <li>, <dd> and <dt> close an item of their kind that is still open. *)
StartItem(t, k, items) ==
    LET u == FramesetNotOk(t)
        i == SelectLastInSeq(u.open,
                 LAMBDA x : \/ Is(u, x, items)
                            \/ /\ InCategory(u, x, "SPECIAL")
                               /\ ~ Is(u, x, {"address", "div", "p"}))
        item == u.nodes[u.open[i]].tag
        closes == i # 0 /\ Is(u, u.open[i], items)
    IN  StartBlock(IF closes THEN PopUntil(GenerateImplied(u, item), {item}) ELSE u, k)

StartButton(t, k) ==
    FramesetNotOk(InsertHtml(Reconstruct(EndInScope(t, "button", "SCOPE", Null)), k))

(* An <a> ends the one that is active, wherever it is. *)
RemoveBoth(t, x) == IF x = Null THEN t ELSE RemoveActive(RemoveOpen(t, x), x)
RemoveA(t) == RemoveBoth(t, BetweenLastMarker(t, "a"))
StartA(t, k) ==
    LET ended == IF BetweenLastMarker(t, "a") = Null THEN t
                 ELSE RemoveA(AdoptionAgency(t, "a"))
    IN  InsertFormatting(Reconstruct(ended), k)

EndNobr(t) ==
    IF InScope(t, "nobr", "SCOPE") = Null THEN t ELSE Reconstruct(AdoptionAgency(t, "nobr"))
StartNobr(t, k) == InsertFormatting(EndNobr(Reconstruct(t)), k)

StartTable(t, k) ==
    LET u == IF t.quirks THEN t ELSE ClosePInButtonScope(t)
    IN  SetMode(FramesetNotOk(InsertHtml(u, k)), "IN_TABLE")

StartSelect(t, k) ==
    LET inTable == t.mode \in {"IN_TABLE", "IN_CAPTION", "IN_TABLE_BODY", "IN_ROW", "IN_CELL"}
    IN  SetMode(FramesetNotOk(InsertHtml(Reconstruct(t), k)),
                IF inTable THEN "IN_SELECT_IN_TABLE" ELSE "IN_SELECT")

StartRuby(t, k, except) ==
    InsertHtml(IF InScope(t, "ruby", "SCOPE") = Null THEN t ELSE GenerateImplied(t, except), k)

StartForeign(t, k, ns) ==
    LET u == InsertElement(Reconstruct(t), k, ns) IN IF k.self THEN Pop(u) ELSE u

RawText(t, k) == SwitchToText(InsertHtml(t, k), "RAWTEXT")
SkipNewline(t) == [t EXCEPT !.newline = TRUE]

Embedded == {"area", "br", "embed", "img", "keygen", "wbr"}
Misplaced == {"caption", "col", "colgroup", "frame", "head", "tr"} \cup TableBodies \cup Cells

(* Elements that carry a text of their own, or change what the tokenizer   *)
(* does next.                                                              *)
StartRaw(t, k) ==
    CASE k.tag = "plaintext" -> [StartBlock(t, k) EXCEPT !.builder = "PLAINTEXT"]
      [] k.tag = "textarea" ->
           SwitchToText(FramesetNotOk(SkipNewline(InsertHtml(t, k))), "RCDATA")
      [] k.tag = "xmp" -> RawText(FramesetNotOk(Reconstruct(ClosePInButtonScope(t))), k)
      [] k.tag = "iframe" -> RawText(FramesetNotOk(t), k)
      [] k.tag = "noembed" -> RawText(t, k)
      [] k.tag = "noscript" ->
           IF t.script THEN RawText(t, k) ELSE InsertHtml(Reconstruct(t), k)

RawTags == {"plaintext", "textarea", "xmp", "iframe", "noembed", "noscript"}

InlineStart(t, k) ==
    CASE k.tag = "button" -> StartButton(t, k)
      [] k.tag = "a" -> StartA(t, k)
      [] k.tag = "nobr" -> StartNobr(t, k)
      [] k.tag \in Formatting \ {"a", "nobr"} -> InsertFormatting(Reconstruct(t), k)
      [] k.tag \in Objects ->
           FramesetNotOk(PushMarker(InsertHtml(Reconstruct(t), k)))
      [] k.tag \in Embedded -> FramesetNotOk(InsertVoid(Reconstruct(t), k))
      [] k.tag = "input" ->
           FramesetUnless(InsertVoid(Reconstruct(t), k), "hidden" \in k.attr)
      [] k.tag \in {"param", "source", "track"} -> InsertVoid(t, k)
      [] k.tag \in ScopeSelect -> InsertHtml(Reconstruct(PopIf(t, {"option"})), k)
      [] k.tag = "menuitem" -> InsertHtml(Reconstruct(PopIf(t, {"menuitem"})), k)
      [] k.tag \in {"rb", "rtc"} -> StartRuby(t, k, Null)
      [] k.tag \in {"rp", "rt"} -> StartRuby(t, k, "rtc")
      [] k.tag = "math" -> StartForeign(t, k, "math")
      [] k.tag = "svg" -> StartForeign(t, k, "svg")
      [] k.tag \in Misplaced -> t
      [] OTHER -> InsertHtml(Reconstruct(t), k)

InBodyStart(t, k) ==
    CASE k.tag = "_TEXT" -> Done(BodyText(t, k))
      [] k.tag = "_COMMENT" -> Done(InsertComment(t, k, Null))
      [] k.tag = "_DOCTYPE" -> Done(t)
      [] k.tag = "_END_OF_FILE" -> IF t.modes # <<>> THEN TemplateEof(t) ELSE Done(t)
      [] k.tag = "html" -> BodyHtml(t, k)
      [] k.tag \in HeadTags -> Uses(t, "IN_HEAD")
      [] k.tag = "body" -> Done(BodyBody(t, k))
      [] k.tag = "frameset" -> Done(BodyFrameset(t, k))
      [] k.tag \in Blocks \cup {"p"} -> Done(StartBlock(t, k))
      [] k.tag = "menu" -> Done(InsertHtml(PopIf(ClosePInButtonScope(t), {"menuitem"}), k))
      [] k.tag \in Headings -> Done(InsertHtml(PopIf(ClosePInButtonScope(t), Headings), k))
      [] k.tag \in {"pre", "listing"} -> Done(FramesetNotOk(SkipNewline(StartBlock(t, k))))
      [] k.tag = "form" -> Done(StartForm(t, k))
      [] k.tag = "li" -> Done(StartItem(t, k, {"li"}))
      [] k.tag \in {"dd", "dt"} -> Done(StartItem(t, k, {"dd", "dt"}))
      [] k.tag = "hr" ->
           Done(FramesetNotOk(InsertVoid(PopIf(ClosePInButtonScope(t), {"menuitem"}), k)))
      [] k.tag = "table" -> Done(StartTable(t, k))
      [] k.tag = "select" -> Done(StartSelect(t, k))
      [] k.tag = "image" -> Again([t EXCEPT !.token.tag = "img"])
      [] k.tag \in RawTags -> Done(StartRaw(t, k))
      [] OTHER -> Done(InlineStart(t, k))

InBody(t, k) == IF k.close THEN InBodyEnd(t, k) ELSE InBodyStart(t, k)
=============================================================================
