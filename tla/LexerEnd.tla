------------------------------ MODULE LexerEnd ------------------------------
(***************************************************************************)
(* What the tokenizer does with an unfinished token when the document ends *)
(* (myhtml/tokenizer_end.c): the function the end table has for its state, *)
(* then myhtml_tokenizer_end itself.  The lexer stands at the end of the   *)
(* last chunk.                                                             *)
(***************************************************************************)
EXTENDS LexerDoctype

EndText(k, type) == CreateTextNodeIfNeed(k, k.pos, type)

EndTagOpen(k) ==
    CASE k.tok.raw_begin < k.pos /\ k.tok.raw_begin > 0 -> QueueAdd(CheckTagParser(Length(k)))
      [] k.tok.raw_begin < k.pos /\ k.tok.raw_begin = 0 -> EndText(NotSpace(k), "DATA")
      [] OTHER -> k

EndEndTagOpen(k) ==
    IF k.tok.raw_begin < k.pos THEN EndText(NotSpace(Length(k)), "DATA") ELSE k

(* What is behind the '>' of the comment becomes text. *)
BehindTheComment(k, j) ==
    IF Limit(k) > j.tok.raw_begin
    THEN QueueAdd(Length([Type(Tag(NotSpace(j), Text), {"DATA"}) EXCEPT !.pos = Limit(k)]))
    ELSE j

(* No '>': all of the rest is the comment. *)
RestIsComment(k, j) ==
    QueueAdd(Length([Type(Tag(NotSpace(j), Comment), {"COMMENT"}) EXCEPT !.pos = Limit(k)]))

(* Faulty variant of EndMarkupDeclarationOpen: the rest is not queued. *)
EndMarkupDeclarationDropped(k) ==
    LET j == BogusCommentFrom(k, Base(k) + k.tok.raw_begin)
    IN  CASE k.tok.raw_begin > 1 /\ j.out # k.out -> BehindTheComment(k, j)
          [] k.tok.raw_begin > 1 /\ j.out = k.out -> j
          [] OTHER -> k

(* The comment's end is looked for from raw_begin on as if that were an
   offset into the last chunk. *)
EndMarkupDeclarationOpen(k) ==
    LET j == BogusCommentFrom(k, Base(k) + k.tok.raw_begin)
    IN  CASE k.tok.raw_begin > 1 /\ j.out # k.out -> BehindTheComment(k, j)
          [] k.tok.raw_begin > 1 /\ j.out = k.out -> RestIsComment(k, j)
          [] OTHER -> k

EndCommentEnd(k) ==
    IF k.pos - k.tok.raw_begin > 2 THEN QueueAdd(Cut(k, 2)) ELSE Length(k)

EndCdataSection(k) == IF k.pos > k.tok.raw_begin THEN QueueAdd(Length(k)) ELSE k

EndRcdata(k) ==
    IF k.tok.raw_begin < k.pos THEN QueueAdd(Length(Tag(Type(k, {"RCDATA"}), Text))) ELSE k

EndAttribute(k) ==
    CASE k.state \in {"ATTRIBUTE_VALUE_DOUBLE_QUOTED", "ATTRIBUTE_VALUE_SINGLE_QUOTED"} -> k
      [] k.state = "ATTRIBUTE_NAME" -> QueueAdd(KeyTo(k))
      [] k.state = "BEFORE_ATTRIBUTE_VALUE" -> NewAttr(QueueAdd(k))
      [] k.state = "ATTRIBUTE_VALUE_UNQUOTED" -> NewAttr(QueueAdd(ValueTo(k)))
      [] k.state = "AFTER_ATTRIBUTE_VALUE_QUOTED" -> QueueAdd(Length(k))
      [] OTHER -> QueueAdd(k)

EndComment(k) == IF k.state = "COMMENT_END" THEN EndCommentEnd(k) ELSE QueueAdd(Length(k))

EndDoctype(k) ==
    CASE k.state = "DOCTYPE" -> EndText(k, "RAWTEXT")
      [] k.state = "DOCTYPE_NAME" -> QueueAdd(KeyTo(k))
      [] OTHER -> QueueAdd(k)

EndRcdataOrRawtext(k) ==
    CASE k.state = "RCDATA" -> EndRcdata(k)
      [] k.state \in RcdataStates \ {"RCDATA"} -> EndText(k, "RCDATA")
      [] OTHER -> EndText(k, "RAWTEXT")

EndScript(k) == EndText(k, "SCRIPT")

AttributeStates ==
    {"BEFORE_ATTRIBUTE_NAME", "ATTRIBUTE_NAME", "AFTER_ATTRIBUTE_NAME",
     "BEFORE_ATTRIBUTE_VALUE", "ATTRIBUTE_VALUE_DOUBLE_QUOTED",
     "ATTRIBUTE_VALUE_SINGLE_QUOTED", "ATTRIBUTE_VALUE_UNQUOTED",
     "AFTER_ATTRIBUTE_VALUE_QUOTED"}

CommentStates ==
    {"COMMENT_START", "COMMENT_START_DASH", "COMMENT", "COMMENT_END_DASH", "COMMENT_END",
     "COMMENT_END_BANG", "BOGUS_COMMENT"}

EndState(k) ==
    CASE k.state \in {"DATA", "TAG_NAME", "SELF_CLOSING_START_TAG"} -> EndText(k, "DATA")
      [] k.state = "TAG_OPEN" -> EndTagOpen(k)
      [] k.state = "END_TAG_OPEN" -> EndEndTagOpen(k)
      [] k.state = "MARKUP_DECLARATION_OPEN" -> EndMarkupDeclarationOpen(k)
      [] k.state = "PLAINTEXT" -> k
      [] k.state = "CDATA_SECTION" -> EndCdataSection(k)
      [] k.state \in AttributeStates -> EndAttribute(k)
      [] k.state \in CommentStates -> EndComment(k)
      [] k.state \in RcdataStates \cup RawtextStates -> EndRcdataOrRawtext(k)
      [] k.state \in ScriptStates -> EndScript(k)
      [] OTHER -> EndDoctype(k)

(* myhtml_tokenizer_end *)
End(k) == QueueAdd(Tag(EndState(k), Eof))
=============================================================================
