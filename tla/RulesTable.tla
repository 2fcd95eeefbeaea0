----------------------------- MODULE RulesTable -----------------------------
(***************************************************************************)
(* The insertion modes of tables, selects and templates (rules.c).         *)
(***************************************************************************)
EXTENDS RulesBody

(* Faulty variants of operators of this module stand before them; they are *)
(* used by nothing here.                                                   *)

(* What does not belong in a table goes in front of it: in_body is asked,  *)
(* and what it returns is not looked at.                                   *)
Foster(t) == Uses([t EXCEPT !.foster = TRUE], "IN_BODY")

(* Faulty variant of FosterEnds: foster_parenting stays on. *)
FosterStaysOn(t) == IF t.foster THEN Done(t) ELSE t
FosterEnds(t) == IF t.foster THEN Done([t EXCEPT !.foster = FALSE]) ELSE t

TableParts == {"caption", "col", "colgroup", "tr"} \cup TableBodies \cup Cells
InTableScope(t, tag) == InScope(t, tag, "SCOPE_TABLE") # Null
BodyInTableScope(t) == \E tag \in TableBodies : InTableScope(t, tag)

CloseTable(t) ==
    ResetMode(PopUntilNode(t, InScope(t, "table", "SCOPE_TABLE")))

ToTable(t) == ClearBackTo(t, {"table"})

InTableEnd(t, k) ==
    CASE k.tag = "table" -> Done(IF InTableScope(t, "table") THEN CloseTable(t) ELSE t)
      [] k.tag \in TableParts \cup {"body", "html"} -> Done(t)
      [] k.tag = "template" -> Uses(t, "IN_HEAD")
      [] OTHER -> Foster(t)

InTableStart(t, k) ==
    CASE k.tag = "_TEXT" ->
           IF CurrentIs(t, FosterTargets)
           THEN Again([t EXCEPT !.list = <<>>, !.orig = t.mode, !.mode = "IN_TABLE_TEXT"])
           ELSE Foster(t)
      [] k.tag = "_COMMENT" -> Done(InsertComment(t, k, Null))
      [] k.tag = "_DOCTYPE" -> Done(t)
      [] k.tag = "caption" ->
           Done(SetMode(PushMarker(InsertHtml(ToTable(t), k)), "IN_CAPTION"))
      [] k.tag = "colgroup" -> Done(SetMode(InsertHtml(ToTable(t), k), "IN_COLUMN_GROUP"))
      [] k.tag = "col" ->
           Again(SetMode(InsertImplied(ToTable(t), "colgroup"), "IN_COLUMN_GROUP"))
      [] k.tag \in TableBodies -> Done(SetMode(InsertHtml(ToTable(t), k), "IN_TABLE_BODY"))
      [] k.tag \in Cells \cup {"tr"} ->
           Again(SetMode(InsertImplied(ToTable(t), "tbody"), "IN_TABLE_BODY"))
      [] k.tag = "table" ->
           IF InTableScope(t, "table") THEN Again(ResetMode(PopUntil(t, {"table"}))) ELSE Done(t)
      [] k.tag \in {"style", "script", "template"} -> Uses(t, "IN_HEAD")
      [] k.tag = "input" ->
           IF "hidden" \in k.attr THEN Done(InsertVoid(t, k)) ELSE Foster(t)
      [] k.tag = "form" ->
           IF t.form # Null \/ HasOpen(t, "template") THEN Done(t)
           ELSE Done(Pop([InsertHtml(t, k) EXCEPT !.form = Newest(t) + 1]))
      [] k.tag = "_END_OF_FILE" -> Uses(t, "IN_BODY")
      [] OTHER -> Foster(t)

InTable(t, k) == IF k.close THEN InTableEnd(t, k) ELSE InTableStart(t, k)

(* Texts are kept until another token comes: if one of them is more than   *)
(* space all of them go in front of the table.                             *)
InTableText(t, k) ==
    LET text == WithoutNulls(k)
        flush == IF \A i \in DOMAIN t.list : t.list[i].ws
                 THEN Turns(LAMBDA u, i : InsertText(u, t.list[i]), t, Len(t.list))
                 ELSE [Turns(LAMBDA u, i : BodyText(u, t.list[i]), [t EXCEPT !.foster = TRUE],
                             Len(t.list))
                          EXCEPT !.foster = FALSE]
    IN  CASE k.tag = "_TEXT" ->
               Done(IF k.null /\ text.text = <<>> THEN t
                    ELSE [t EXCEPT !.list = Append(@, text)])
          [] OTHER -> Again(SetMode(flush, t.orig))

-----------------------------------------------------------------------------

CloseCaption(t) ==
    SetMode(UpToLastMarker(PopUntil(GenerateImplied(t, Null), {"caption"})), "IN_TABLE")

InCaption(t, k) ==
    LET inScope == InTableScope(t, "caption")
        bounds == \/ k.close /\ k.tag = "table"
                  \/ ~ k.close /\ k.tag \in TableParts
        ignored == k.close /\ k.tag \in (TableParts \ {"caption"}) \cup {"body", "html"}
    IN  CASE k.close /\ k.tag = "caption" -> Done(IF inScope THEN CloseCaption(t) ELSE t)
          [] bounds -> IF inScope THEN Again(CloseCaption(t)) ELSE Done(t)
          [] ignored -> Done(t)
          [] OTHER -> Uses(t, "IN_BODY")

LeaveColumnGroup(t, again) ==
    IF CurrentIs(t, {"colgroup"})
    THEN Result(SetMode(Pop(t), "IN_TABLE"), again) ELSE Done(t)

InColumnGroup(t, k) ==
    CASE k.close ->
           (CASE k.tag = "colgroup" -> LeaveColumnGroup(t, FALSE)
              [] k.tag = "col" -> Done(t)
              [] k.tag = "template" -> Uses(t, "IN_HEAD")
              [] OTHER -> LeaveColumnGroup(t, TRUE))
      [] ~ k.close /\ k.tag = "_TEXT" ->
           IF k.ws THEN Done(InsertText(t, k)) ELSE LeaveColumnGroup(InsertSpace(t, k), TRUE)
      [] ~ k.close /\ k.tag = "_COMMENT" -> Done(InsertComment(t, k, Null))
      [] ~ k.close /\ k.tag = "_DOCTYPE" -> Done(t)
      [] ~ k.close /\ k.tag \in {"html", "_END_OF_FILE"} -> Uses(t, "IN_BODY")
      [] ~ k.close /\ k.tag = "col" -> Done(InsertVoid(t, k))
      [] ~ k.close /\ k.tag = "template" -> Uses(t, "IN_HEAD")
      [] OTHER -> LeaveColumnGroup(t, TRUE)

ToTableBody(t) == ClearBackTo(t, TableBodies)
LeaveTableBody(t) == SetMode(Pop(ToTableBody(t)), "IN_TABLE")

InTableBody(t, k) ==
    LET bounds == IF k.close THEN k.tag = "table"
                  ELSE k.tag \in {"caption", "col", "colgroup"} \cup TableBodies
        ignored == {"body", "caption", "col", "colgroup", "html", "td", "th", "tr"}
    IN  CASE k.close /\ k.tag \in TableBodies ->
               Done(IF InTableScope(t, k.tag) THEN LeaveTableBody(t) ELSE t)
          [] bounds -> IF BodyInTableScope(t) THEN Again(LeaveTableBody(t)) ELSE Done(t)
          [] k.close /\ k.tag \in ignored -> Done(t)
          [] ~ k.close /\ k.tag = "tr" -> Done(SetMode(InsertHtml(ToTableBody(t), k), "IN_ROW"))
          [] ~ k.close /\ k.tag \in Cells ->
               Again(SetMode(InsertImplied(ToTableBody(t), "tr"), "IN_ROW"))
          [] OTHER -> Uses(t, "IN_TABLE")

ToRow(t) == ClearBackTo(t, {"tr"})
LeaveRow(t) == SetMode(Pop(ToRow(t)), "IN_TABLE_BODY")

InRow(t, k) ==
    LET inScope == InTableScope(t, "tr")
        bounds == IF k.close THEN k.tag = "table" ELSE k.tag \in TableParts \ Cells
        ignored == {"body", "caption", "col", "colgroup", "html", "td", "th"}
    IN  CASE k.close /\ k.tag = "tr" -> Done(IF inScope THEN LeaveRow(t) ELSE t)
          [] bounds -> IF inScope THEN Again(LeaveRow(t)) ELSE Done(t)
          [] k.close /\ k.tag \in TableBodies ->
               IF inScope /\ InTableScope(t, k.tag) THEN Again(LeaveRow(t)) ELSE Done(t)
          [] k.close /\ k.tag \in ignored -> Done(t)
          [] ~ k.close /\ k.tag \in Cells ->
               Done(SetMode(PushMarker(InsertHtml(ToRow(t), k)), "IN_CELL"))
          [] OTHER -> Uses(t, "IN_TABLE")

(* Faulty variant of CloseOpenCell: only <td> is looked for. *)
CloseOpenTd(t) == IF InTableScope(t, "td") THEN CloseCell(t, "td") ELSE t

CloseOpenCell(t) ==
    CASE InTableScope(t, "td") -> CloseCell(t, "td")
      [] ~ InTableScope(t, "td") /\ InTableScope(t, "th") -> CloseCell(t, "th")
      [] OTHER -> t

InCell(t, k) ==
    LET ends == {"table", "tr"} \cup TableBodies
    IN  CASE k.close /\ k.tag \in Cells ->
               Done(IF InTableScope(t, k.tag) THEN CloseCell(t, k.tag) ELSE t)
          [] k.close /\ k.tag \in {"body", "caption", "col", "colgroup", "html"} -> Done(t)
          [] k.close /\ k.tag \in ends ->
               IF InTableScope(t, k.tag) THEN Again(CloseOpenCell(t)) ELSE Done(t)
          [] ~ k.close /\ k.tag \in TableParts ->
               IF \E tag \in Cells : InTableScope(t, tag) THEN Again(CloseOpenCell(t))
               ELSE Done(t)
          [] ~ k.close /\ k.tag \notin TableParts -> Uses(t, "IN_BODY")
          [] OTHER -> Uses(t, "IN_TABLE")

-----------------------------------------------------------------------------

(* Faulty variant of CloseSelect: the mode is kept. *)
CloseSelectKeepsMode(t) ==
    LET node == InScope(t, "select", "SCOPE_SELECT")
    IN  IF node = Null THEN t ELSE PopUntilNode(t, node)

CloseSelect(t) ==
    LET node == InScope(t, "select", "SCOPE_SELECT")
    IN  IF node = Null THEN t ELSE ResetMode(PopUntilNode(t, node))

InSelectEnd(t, k) ==
    LET n == Len(t.open)
        inGroup == CurrentIs(t, {"option"}) /\ n > 1 /\ Is(t, t.open[n - 1], {"optgroup"})
    IN  CASE k.tag = "optgroup" -> Done(PopIf(IF inGroup THEN Pop(t) ELSE t, {"optgroup"}))
          [] k.tag = "option" -> Done(PopIf(t, {"option"}))
          [] k.tag = "select" -> Done(CloseSelect(t))
          [] k.tag = "template" -> Uses(t, "IN_HEAD")
          [] OTHER -> Done(t)

InSelectStart(t, k) ==
    LET text == WithoutNulls(k)
    IN  CASE k.tag = "_TEXT" -> Done(IF k.null /\ text.text = <<>> THEN t ELSE InsertText(t, text))
          [] k.tag = "_COMMENT" -> Done(InsertComment(t, k, Null))
          [] k.tag \in {"html", "_END_OF_FILE"} -> Uses(t, "IN_BODY")
          [] k.tag = "option" -> Done(InsertHtml(PopIf(t, {"option"}), k))
          [] k.tag = "optgroup" ->
               Done(InsertHtml(PopIf(PopIf(t, {"option"}), {"optgroup"}), k))
          [] k.tag = "select" -> Done(CloseSelect(t))
          [] k.tag \in {"input", "keygen", "textarea"} ->
               IF InScope(t, "select", "SCOPE_SELECT") = Null THEN Done(t)
               ELSE Again(CloseSelect(t))
          [] k.tag \in {"script", "template"} -> Uses(t, "IN_HEAD")
          [] OTHER -> Done(t)

InSelect(t, k) == IF k.close THEN InSelectEnd(t, k) ELSE InSelectStart(t, k)

InSelectInTable(t, k) ==
    LET bounds == {"caption", "table", "tr"} \cup TableBodies \cup Cells
    IN  CASE k.tag \in bounds ->
               IF k.close /\ ~ InTableScope(t, k.tag) THEN Done(t)
               ELSE Again(ResetMode(PopUntil(t, {"select"})))
          [] OTHER -> Uses(t, "IN_SELECT")

(* The first element in a template tells what the template is made of.     *)
Become(t, mode) == Again(SetMode(PushMode(PopMode(t), mode), mode))

InTemplate(t, k) ==
    CASE k.close -> IF k.tag = "template" THEN Uses(t, "IN_BODY") ELSE Done(t)
      [] ~ k.close /\ k.tag \in {"_TEXT", "_COMMENT", "_DOCTYPE"} -> Uses(t, "IN_BODY")
      [] ~ k.close /\ k.tag \in HeadTags -> Uses(t, "IN_HEAD")
      [] ~ k.close /\ k.tag \in {"caption", "colgroup"} \cup TableBodies -> Become(t, "IN_TABLE")
      [] ~ k.close /\ k.tag = "col" -> Become(t, "IN_COLUMN_GROUP")
      [] ~ k.close /\ k.tag = "tr" -> Become(t, "IN_TABLE_BODY")
      [] ~ k.close /\ k.tag \in Cells -> Become(t, "IN_ROW")
      [] ~ k.close /\ k.tag = "_END_OF_FILE" -> TemplateEof(t)
      [] OTHER -> Become(t, "IN_BODY")
=============================================================================
