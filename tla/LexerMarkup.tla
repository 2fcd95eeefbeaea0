---------------------------- MODULE LexerMarkup ----------------------------
(***************************************************************************)
(* The tokenizer's states for data, tags, attributes and comments          *)
(* (myhtml/tokenizer.c).  One operator per state: what one call of the     *)
(* state's function makes of the lexer.  A state whose function loops is a *)
(* scan (Seek) and what it does at the character that stops it, XxxAt; at  *)
(* the end of the chunk the state stays, and goes on in the next one.      *)
(***************************************************************************)
EXTENDS Lexer

Stops(k, j, AtStop(_)) == IF Exhausted(j) THEN j ELSE AtStop(j)

-----------------------------------------------------------------------------
(* Data and the opening of a tag *)

(* What the scan from k to j has learnt about the text. *)
Scanned(k, j) ==
    LET seen == {p \in (k.pos + 1) .. j.pos : k.doc[p] \notin Space}
    IN  IF seen = {} \/ "WHITESPACE" \notin k.tok.type THEN j
        ELSE Type(NotSpace(j), {"DATA"})

DataState(k) ==
    LET j == Scanned(k, Seek(k, {"<"}))
    IN  IF Exhausted(j) THEN j ELSE Enter(j, "TAG_OPEN")

TagOpenState(k) ==
    CASE At(k) \in Letters ->
           Goto(Begin(CreateTextNodeIfNeed(k, k.pos - 1, "DATA")), "TAG_NAME")
      [] At(k) = "!" ->
           Goto(Begin(Eat(CreateTextNodeIfNeed(k, k.pos - 1, "DATA"), 1)),
                "MARKUP_DECLARATION_OPEN")
      [] At(k) = "/" -> Enter(k, "END_TAG_OPEN")
      [] At(k) = "?" ->
           Goto(Begin(CreateTextNodeIfNeed(k, k.pos - 1, "DATA")), "BOGUS_COMMENT")
      [] OTHER -> Goto(NotSpace(k), "DATA")

EndTagOpenState(k) ==
    CASE At(k) \in Letters ->
           Goto(Typed(Begin(CreateTextNodeIfNeed(k, k.pos - 2, "DATA")), {"CLOSE"}), "TAG_NAME")
      [] At(k) = ">" -> Enter(k, "DATA")
      [] OTHER ->
           Goto(Begin(CreateTextNodeIfNeed(k, k.pos - 2, "DATA")), "BOGUS_COMMENT")

(* The states look ahead by a count of characters, over the end of a chunk
   too: they wait for the next one when this one does not have them. *)
Awaits(k, begin, length) == begin + length > Limit(k)

(* Faulty variant of WaitForMore: the look-ahead begins anew in the next chunk. *)
WaitAnew(k) == [k EXCEPT !.pos = Limit(k), !.tok.raw_begin = Limit(k)]
WaitForMore(k) == [k EXCEPT !.pos = Limit(k)]

WordLength == Len(DoctypeWord)       \* and Len(CdataWord)

OpensCdata(k) == k.out # <<>> /\ Foreign(k)

MarkupDeclarationOpenState(k) ==
    LET begin == k.tok.raw_begin
        word  == WordAt(k, begin, WordLength)
    IN  CASE Awaits(k, begin, 2) -> WaitForMore(k)
          [] ~ Awaits(k, begin, 2) /\ WordAt(k, begin, 2) = <<"-", "-">> ->
               Goto(Begin(Eat(k, 2)), "COMMENT_START")
          [] ~ Awaits(k, begin, 2) /\ WordAt(k, begin, 2) # <<"-", "-">> ->
               CASE Awaits(k, begin, WordLength) -> WaitForMore(k)
                 [] ~ Awaits(k, begin, WordLength) /\ word = DoctypeWord ->
                      Goto(Tag([k EXCEPT !.pos = begin + WordLength,
                                         !.tok.raw_length = WordLength], Doctype),
                           "DOCTYPE")
                 [] ~ Awaits(k, begin, WordLength) /\ word = CdataWord /\ OpensCdata(k) ->
                      Goto(NotSpace(Tag(Begin([k EXCEPT !.pos = begin + WordLength]), Text)),
                           "CDATA_SECTION")
                 [] OTHER -> Goto(k, "BOGUS_COMMENT")

TagNameAt(k) ==
    LET named == CheckTagParser(Length(k))
    IN  CASE At(k) \in Space -> Enter(named, "BEFORE_ATTRIBUTE_NAME")
          [] At(k) = "/" -> Enter(named, "SELF_CLOSING_START_TAG")
          [] OTHER -> CloseTag(named)

TagNameState(k) == Stops(k, Seek(k, Space \cup {"/", ">"}), TagNameAt)

SelfClosingStartTagState(k) ==
    IF At(k) = ">" THEN CloseTag(Type(k, {"CLOSE_SELF"}))
    ELSE Goto(k, "BEFORE_ATTRIBUTE_NAME")

-----------------------------------------------------------------------------
(* Attributes *)

(* Faulty variant of BeforeAttributeNameAt: '/' is given back unread. *)
BeforeAttributeNameReconsumed(k) ==
    CASE At(k) = ">" -> CloseTag(k)
      [] At(k) = "/" -> Goto(k, "SELF_CLOSING_START_TAG")
      [] OTHER -> Goto(KeyFrom(SetAttr(HoldAttr(k), FreshAttr)), "ATTRIBUTE_NAME")

BeforeAttributeNameAt(k) ==
    CASE At(k) = ">" -> CloseTag(k)
      [] At(k) = "/" -> Eat(Type(k, {"CLOSE_SELF"}), 1)
      [] OTHER ->
           LET named == KeyFrom(SetAttr(HoldAttr(k), FreshAttr))
           IN  Goto(IF At(k) = "=" THEN Eat(named, 1) ELSE named, "ATTRIBUTE_NAME")

BeforeAttributeNameState(k) == Stops(k, SkipSpace(k), BeforeAttributeNameAt)

AttributeNameAt(k) ==
    CASE At(k) \in Space -> Enter(KeyTo(k), "AFTER_ATTRIBUTE_NAME")
      [] At(k) = "=" -> Enter(KeyTo(k), "BEFORE_ATTRIBUTE_VALUE")
      [] At(k) = ">" -> NewAttr(CloseTag(KeyTo(k)))
      [] OTHER -> Enter(NewAttr(Type(KeyTo(k), {"CLOSE_SELF"})), "BEFORE_ATTRIBUTE_NAME")

AttributeNameState(k) == Stops(k, Seek(k, Space \cup {"=", ">", "/"}), AttributeNameAt)

AfterAttributeNameAt(k) ==
    CASE At(k) = "=" -> Enter(k, "BEFORE_ATTRIBUTE_VALUE")
      [] At(k) = ">" -> NewAttr(CloseTag(k))
      [] OTHER ->
           Goto(KeyFrom(SetAttr(HoldAttr(NewAttr(k)), FreshAttr)), "ATTRIBUTE_NAME")

AfterAttributeNameState(k) == Stops(k, SkipSpace(k), AfterAttributeNameAt)

BeforeAttributeValueAt(k) ==
    CASE At(k) = ">" -> NewAttr(CloseTag(k))
      [] At(k) = "\"" -> ValueFrom(Enter(k, "ATTRIBUTE_VALUE_DOUBLE_QUOTED"))
      [] At(k) = "'" -> ValueFrom(Enter(k, "ATTRIBUTE_VALUE_SINGLE_QUOTED"))
      [] OTHER -> ValueFrom(Goto(k, "ATTRIBUTE_VALUE_UNQUOTED"))

BeforeAttributeValueState(k) == Stops(k, SkipSpace(k), BeforeAttributeValueAt)

(* Faulty variant of QuoteAt: the next attribute is written to the same one. *)
QuoteKeepsAttr(k) == Enter(ValueTo(k), "AFTER_ATTRIBUTE_VALUE_QUOTED")
QuoteAt(k) == Enter(NewAttr(ValueTo(k)), "AFTER_ATTRIBUTE_VALUE_QUOTED")

AttributeValueQuotedState(k, quote) == Stops(k, Seek(k, {quote}), QuoteAt)

AttributeValueUnquotedAt(k) ==
    IF At(k) = ">" THEN NewAttr(CloseTag(ValueTo(k)))
    ELSE Enter(NewAttr(ValueTo(k)), "BEFORE_ATTRIBUTE_NAME")

AttributeValueUnquotedState(k) ==
    Stops(k, Seek(k, Space \cup {">"}), AttributeValueUnquotedAt)

AfterAttributeValueQuotedState(k) ==
    CASE At(k) \in Space -> Enter(k, "BEFORE_ATTRIBUTE_NAME")
      [] At(k) = "/" -> Enter(k, "SELF_CLOSING_START_TAG")
      [] At(k) = ">" -> CloseTag(k)
      [] OTHER -> Goto(k, "BEFORE_ATTRIBUTE_NAME")

-----------------------------------------------------------------------------
(* Comments *)

Cut(k, tail) ==
    [k EXCEPT !.tok.raw_length =
        IF k.pos - k.tok.raw_begin >= tail THEN k.pos - k.tok.raw_begin - tail ELSE 0]

CommentStartState(k) ==
    LET c == Tag(k, Comment)
    IN  CASE At(k) = "-" -> Enter(c, "COMMENT_START_DASH")
          [] At(k) = ">" -> CloseMarkup([c EXCEPT !.tok.raw_length = 0])
          [] OTHER -> Enter(c, "COMMENT")

CommentStartDashState(k) ==
    CASE At(k) = "-" -> Enter(k, "COMMENT_END")
      [] At(k) = ">" -> CloseMarkup([k EXCEPT !.tok.raw_length = 0])
      [] OTHER -> Enter(k, "COMMENT")

DashAt(k) == Enter(k, "COMMENT_END_DASH")

CommentState(k) == Stops(k, Seek(k, {"-"}), DashAt)

CommentEndDashState(k) == Enter(k, IF At(k) = "-" THEN "COMMENT_END" ELSE "COMMENT")

CommentEndState(k) ==
    CASE At(k) = ">" -> CloseMarkup(Cut(k, 2))
      [] At(k) = "!" -> Enter(k, "COMMENT_END_BANG")
      [] At(k) = "-" -> Eat(k, 1)
      [] OTHER -> Enter(k, "COMMENT")

CommentEndBangState(k) ==
    CASE At(k) = ">" -> CloseMarkup(Cut(k, 3))
      [] At(k) = "-" -> Enter(k, "COMMENT_END_DASH")
      [] OTHER -> Enter(k, "COMMENT")

BogusCommentAt(k) == CloseMarkup(Length(k))

BogusCommentFrom(k, from) ==
    Stops(k, Seek(Type(Tag([k EXCEPT !.pos = from], Comment), {"COMMENT"}), {">"}),
          BogusCommentAt)

BogusCommentState(k) == BogusCommentFrom(k, k.pos)
=============================================================================
