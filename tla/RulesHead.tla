----------------------------- MODULE RulesHead -----------------------------
(***************************************************************************)
(* The insertion modes up to the body, and the mode of raw text (rules.c). *)
(* A handler takes the tree t and the token k at hand and gives the tree   *)
(* after it; again tells whether the token is to be processed once more,   *)
(* by the mode the handler has set.                                        *)
(***************************************************************************)
EXTENDS TreeElements

(* How many space characters a text begins with. *)
Leading(text) ==
    LET i == SelectInSeq(text, LAMBDA c : ~ IsSpace(c))
    IN  IF i = 0 THEN Len(text) ELSE i - 1

(* fix_emit_for_text_begin_ws: the spaces go.  The token keeps its flags.  *)
CropSpace(t) ==
    [t EXCEPT !.token.text = SubSeq(@, Leading(@) + 1, Len(@))]

(* fix_split_for_text_begin_ws: the spaces become a token of their own,    *)
(* which has no tag.                                                       *)
SpaceToken(k) == [k EXCEPT !.tag = "_UNDEF", !.text = SubSeq(@, 1, Leading(@)),
                           !.id = Copy, !.ws = TRUE, !.null = FALSE]
InsertSpace(t, k) ==
    CropSpace(IF Leading(k.text) = 0 THEN t ELSE InsertText(t, SpaceToken(k)))

(* Every run of nulls is counted as one when the text behind it is moved.  *)
DropNulls(text) ==
    LET n == Len(text)
        IsNull(i) == i \in 1 .. n /\ text[i] = "null"
        starts == SetToSortSeq({i \in 1 .. n : IsNull(i) /\ ~ IsNull(i - 1)}, <)
        runs == Len(starts)
        Move(data, r) ==
            LET from == Min({j \in starts[r] .. n + 1 : ~ IsNull(j)})
                end  == IF r < runs THEN starts[r + 1] ELSE n + 1
                to   == starts[r] - (r - 1)
            IN  [j \in 1 .. n |-> IF j \in to .. to + (end - from) - 1
                                  THEN text[from + j - to] ELSE data[j]]
        moved == FoldLeft(Move, text, [r \in 1 .. runs |-> r])
    IN  SubSeq(moved, 1, n - Cardinality({i \in 1 .. n : IsNull(i)}))

WithoutNulls(k) == IF k.null THEN [k EXCEPT !.text = DropNulls(@)] ELSE k

StayOnlySpace(k) == [k EXCEPT !.text = SelectSeq(@, IsSpace)]

SetMode(t, mode) == [t EXCEPT !.mode = mode]

(* Attributes of a second <html> or <body> that the element has not yet.   *)
MergeAttributes(t, x, k) ==
    IF t.nodes[x].token # Null
    THEN [t EXCEPT !.nodes[x].attr = @ \cup k.attr]
    ELSE [t EXCEPT !.nodes[x].token = k.id, !.nodes[x].attr = k.attr]

(* The case <html> of in_body, which many modes call. *)
BodyHtml(t, k) ==
    IF HasOpen(t, "template") \/ t.open = <<>>
    THEN Done(t) ELSE Done(MergeAttributes(t, t.open[1], k))

HeadOnly == {"base", "basefont", "bgsound", "link"}
HeadTags == HeadOnly \cup {"meta", "noframes", "script", "style", "template", "title"}

-----------------------------------------------------------------------------

Quirks(t) == [t EXCEPT !.quirks = TRUE, !.mode = "BEFORE_HTML"]

(* "html" is the attribute of a doctype that asks for no quirks. *)
Initial(t, k) ==
    CASE k.tag = "_TEXT" -> IF k.ws THEN Done(t) ELSE Again(Quirks(CropSpace(t)))
      [] k.tag = "_COMMENT" -> Done(InsertComment(t, k, Document))
      [] k.tag = "_DOCTYPE" ->
           LET u == InsertDoctype(t, k)
           IN  Done([u EXCEPT !.quirks = @ \/ "html" \notin k.attr, !.mode = "BEFORE_HTML"])
      [] OTHER -> Again(Quirks(t))

ImpliedRoot(t) ==
    Again(SetMode(InsertRoot(t, NodeOf("html", "html", Null, {}, <<>>)), "BEFORE_HEAD"))

EndOrBody == {"br", "html", "head", "body"}

BeforeHtml(t, k) ==
    CASE k.close -> IF k.tag \in EndOrBody THEN ImpliedRoot(t) ELSE Done(t)
      [] ~ k.close /\ k.tag = "_TEXT" ->
           IF k.ws THEN Done(t) ELSE ImpliedRoot(CropSpace(t))
      [] ~ k.close /\ k.tag = "_COMMENT" -> Done(InsertComment(t, k, Document))
      [] ~ k.close /\ k.tag = "_DOCTYPE" -> Done(t)
      [] ~ k.close /\ k.tag = "html" ->
           Done(SetMode(InsertRoot(t, NodeOf("html", "html", k.id, k.attr, <<>>)),
                        "BEFORE_HEAD"))
      [] OTHER -> ImpliedRoot(t)

NewHead(t) == [t EXCEPT !.head = Newest(t), !.mode = "IN_HEAD"]
ImpliedHead(t) == Again(NewHead(InsertImplied(t, "head")))

BeforeHead(t, k) ==
    CASE k.close -> IF k.tag \in EndOrBody THEN ImpliedHead(t) ELSE Done(t)
      [] ~ k.close /\ k.tag = "_TEXT" ->
           IF k.ws THEN Done(t) ELSE ImpliedHead(CropSpace(t))
      [] ~ k.close /\ k.tag = "_COMMENT" -> Done(InsertComment(t, k, Null))
      [] ~ k.close /\ k.tag = "_DOCTYPE" -> Done(t)
      [] ~ k.close /\ k.tag = "html" -> BodyHtml(t, k)
      [] ~ k.close /\ k.tag = "head" -> Done(NewHead(InsertHtml(t, k)))
      [] OTHER -> ImpliedHead(t)

-----------------------------------------------------------------------------

EndTemplate(t) ==
    IF ~ HasOpen(t, "template") THEN Done(t)
    ELSE LET u == PopUntil(GenerateAllImplied(t), {"template"})
         IN  Done(ResetMode(PopMode(UpToLastMarker(u))))

StartTemplate(t, k) ==
    LET u == FramesetNotOk(PushMarker(InsertHtml(t, k)))
    IN  PushMode(SetMode(u, "IN_TEMPLATE"), "IN_TEMPLATE")

LeaveHead(t) == SetMode(Pop(t), "AFTER_HEAD")

InHeadEnd(t, k) ==
    CASE k.tag = "head" -> Done(LeaveHead(t))
      [] k.tag \in {"br", "html", "body"} -> Again(LeaveHead(t))
      [] k.tag = "template" -> EndTemplate(t)
      [] OTHER -> Done(t)

(* The elements of a head. *)
HeadElement(t, k) ==
    CASE k.tag \in HeadOnly \cup {"meta"} -> InsertVoid(t, k)
      [] k.tag = "title" -> SwitchToText(InsertHtml(t, k), "RCDATA")
      [] k.tag \in {"style", "noframes"} -> SwitchToText(InsertHtml(t, k), "RAWTEXT")
      [] k.tag = "script" -> SwitchToText(InsertHtml(t, k), "SCRIPT_DATA")
      [] k.tag = "template" -> StartTemplate(t, k)

InHeadStart(t, k) ==
    CASE k.tag = "_TEXT" ->
           IF k.ws THEN Done(InsertText(t, k)) ELSE Again(LeaveHead(InsertSpace(t, k)))
      [] k.tag = "_COMMENT" -> Done(InsertComment(t, k, Null))
      [] k.tag \in {"_DOCTYPE", "head"} -> Done(t)
      [] k.tag = "html" -> BodyHtml(t, k)
      [] k.tag \in HeadTags -> Done(HeadElement(t, k))
      [] k.tag = "noscript" ->
           IF t.script THEN Done(SwitchToText(InsertHtml(t, k), "RAWTEXT"))
           ELSE Done(SetMode(InsertHtml(t, k), "IN_HEAD_NOSCRIPT"))
      [] OTHER -> Again(LeaveHead(t))

InHead(t, k) == IF k.close THEN InHeadEnd(t, k) ELSE InHeadStart(t, k)

LeaveNoscript(t) == SetMode(Pop(t), "IN_HEAD")

InHeadNoscript(t, k) ==
    CASE k.close ->
           (CASE k.tag = "noscript" -> Done(LeaveNoscript(t))
              [] k.tag = "br" -> Again(LeaveNoscript(t))
              [] OTHER -> Done(t))
      [] ~ k.close /\ k.tag \in {"_DOCTYPE", "head", "noscript"} -> Done(t)
      [] ~ k.close /\ k.tag = "html" -> BodyHtml(t, k)
      [] ~ k.close /\ (\/ k.tag = "_TEXT" /\ k.ws
                       \/ k.tag \in {"basefont", "bgsound", "link", "meta", "noframes",
                                     "style", "_COMMENT"}) -> Uses(t, "IN_HEAD")
      [] OTHER -> Again(LeaveNoscript(t))

ImpliedBody(t) == Again(SetMode(InsertImplied(t, "body"), "IN_BODY"))

(* A late element of the head: the head is opened for it once more. *)
BackInHead(t, k) ==
    RemoveOpen(HeadElement(Push(t, t.head), k), t.head)

AfterHead(t, k) ==
    CASE k.close ->
           (CASE k.tag \in {"br", "html", "body"} -> ImpliedBody(t)
              [] k.tag = "template" -> Uses(t, "IN_HEAD")
              [] OTHER -> Done(t))
      [] ~ k.close /\ k.tag = "_TEXT" ->
           IF k.ws THEN Done(InsertText(t, k)) ELSE ImpliedBody(InsertSpace(t, k))
      [] ~ k.close /\ k.tag = "_COMMENT" -> Done(InsertComment(t, k, Null))
      [] ~ k.close /\ k.tag \in {"_DOCTYPE", "head"} -> Done(t)
      [] ~ k.close /\ k.tag = "html" -> BodyHtml(t, k)
      [] ~ k.close /\ k.tag = "body" ->
           Done(SetMode(FramesetNotOk(InsertHtml(t, k)), "IN_BODY"))
      [] ~ k.close /\ k.tag = "frameset" -> Done(SetMode(InsertHtml(t, k), "IN_FRAMESET"))
      [] ~ k.close /\ k.tag \in HeadTags -> Done(BackInHead(t, k))
      [] OTHER -> ImpliedBody(t)

(* Any end tag ends a raw text: the tokenizer makes only the one that fits. *)
Text(t, k) ==
    LET back == SetMode(Pop(t), t.orig)
    IN  CASE k.close -> Done(back)
          [] ~ k.close /\ k.tag = "_END_OF_FILE" -> Again(back)
          [] OTHER -> Done(InsertText(t, k))
=============================================================================
