----------------------------- MODULE LexerText -----------------------------
(***************************************************************************)
(* The tokenizer's states for the text of elements with a text of their    *)
(* own kind (RCDATA, RAWTEXT, PLAINTEXT and CDATA of tokenizer.c, scripts  *)
(* of tokenizer_script.c).                                                 *)
(***************************************************************************)
EXTENDS LexerMarkup

(* The tag the tokenizer takes the text of: the last token's, or the
   context element's before there is a token (k.fragment). *)
Opener(k) == IF k.out # <<>> THEN Last(k.out).tag ELSE k.fragment

TextStarts(k) == IF k.tmp = Undef THEN [Begin(k) EXCEPT !.tmp = Opener(k)] ELSE k

TextLessThanAt(k, next) == Enter(k, next)

TextScan(k, next) ==
    LET j == Seek(k, {"<"}) IN IF Exhausted(j) THEN j ELSE TextLessThanAt(j, next)

TextState(k, next) == TextScan(TextStarts(k), next)

TextLessThanSignState(k, text, next) == IF At(k) = "/" THEN Enter(k, next) ELSE Goto(k, text)

TextEndTagOpenState(k, text, next) == Goto(k, IF At(k) \in Letters THEN next ELSE text)

(* _myhtml_tokenizer_state_andata_end_tag_name, k having the name as its
   token's span: not the end tag of this text ... *)
NotTheEndTag(k, begin) ==
    Enter([k EXCEPT !.tok.raw_begin = begin, !.tok.raw_length = 0], "RCDATA")

(* ... or the end tag, in front of it a token of the text *)
AndataText(k, begin, type) ==
    IF k.tok.raw_begin - 2 > begin
    THEN LET text == NotSpace(Type(Tag(k, Text), {type}))
         IN  [QueueAdd([text EXCEPT !.tok.raw_length = k.tok.raw_begin - 2 - begin,
                                    !.tok.raw_begin = begin])
              EXCEPT !.tok.raw_begin = k.tok.raw_begin]
    ELSE k

AndataEndTag(k) == Length(Type(Tag(k, k.tmp), {"CLOSE"}))

EndOfText(k, begin, type) ==
    LET e == AndataEndTag(AndataText(k, begin, type))
    IN  IF At(k) = ">"
        THEN [Goto(QueueAdd(Eat(e, 1)), "DATA") EXCEPT !.tmp = Undef]
        ELSE [Enter(e, "BEFORE_ATTRIBUTE_NAME") EXCEPT !.tmp = Undef]

(* k at the character that ends the name, begin where the text has begun *)
EndTagNameAt(k, begin, state, type) ==
    IF At(k) \in Space \cup {">", "/"}
    THEN LET named == CheckTagParser(Length(k))
         IN  IF named.tok.tag = k.tmp THEN EndOfText(named, begin, type)
             ELSE NotTheEndTag(named, begin)
    ELSE Goto([k EXCEPT !.tok.raw_begin = begin], state)

EndTagNameScan(k, j, begin, state, type) ==
    IF Exhausted(j) THEN [j EXCEPT !.tok.raw_begin = begin]
    ELSE EndTagNameAt(j, begin, state, type)

TextEndTagNameState(k, state, type) ==
    EndTagNameScan(k, NameEnd(Begin(k)), k.tok.raw_begin, state, type)

PlaintextState(k) ==
    QueueAdd(Goto(Tag(NotSpace(Type([Begin(k) EXCEPT !.pos = Limit(k),
                                                     !.tok.raw_length = Limit(k) - k.pos],
                                    {"PLAINTEXT"})), Text), "DATA"))

-----------------------------------------------------------------------------
(* CDATA in foreign content *)

EndsCdata(k, p) == k.doc[p + 1] = ">" /\ WordAt(k, p - 2, 2) = <<"]", "]">>

CdataAt(k) ==
    IF k.pos - 2 > k.tok.raw_begin
    THEN CloseMarkup(Cut(k, 2))
    ELSE Goto(Begin(Eat([k EXCEPT !.tok.raw_length = 0], 1)), "DATA")

CdataSectionState(k) ==
    LET ends == {p \in k.pos .. (Limit(k) - 1) : EndsCdata(k, p)}
        j == Type([k EXCEPT !.pos = IF ends = {} THEN Limit(k) ELSE Min(ends)], {"CDATA"})
    IN  Stops(k, j, CdataAt)

-----------------------------------------------------------------------------
(* Scripts.  text is the state the tokenizer falls back to. *)

ScriptDataLessThanSignState(k) ==
    CASE At(k) = "/" -> Enter(k, "SCRIPT_DATA_END_TAG_OPEN")
      [] At(k) = "!" -> Enter(k, "SCRIPT_DATA_ESCAPE_START")
      [] OTHER -> Goto(k, "SCRIPT_DATA")

DashOr(k, next, text) == IF At(k) = "-" THEN Enter(k, next) ELSE Goto(k, text)

ScriptEndTagOpenState(k, text, next) ==
    IF At(k) \in Letters THEN Goto(Mark(k), next) ELSE Goto(k, text)

MarkedScript(k) ==
    k.pos - k.tok.mark = Len(Script) /\ WordAt(k, k.tok.mark, Len(Script)) = Script

ScriptEndTag(k, mark, type) ==
    Typed(Tag([k EXCEPT !.tok.raw_begin = mark, !.tok.raw_length = Len(Script)], Script), type)

EndOfScript(k, mark) ==
    LET token == CreateTextNodeIfNeed(k, k.pos - Len(Script) - 2, "SCRIPT")
        slash == IF At(k) = "/" THEN {"CLOSE", "CLOSE_SELF"} ELSE {"CLOSE"}
    IN  IF At(k) = ">" THEN CloseMarkup(ScriptEndTag(token, mark, slash))
        ELSE Enter(ScriptEndTag(token, mark, slash), "BEFORE_ATTRIBUTE_NAME")

ScriptEndTagNameAt(k, text) ==
    CASE At(k) \notin Space \cup {">", "/"} -> Goto(k, text)
      [] At(k) \in Space \cup {">", "/"} /\ MarkedScript(k) -> EndOfScript(k, k.tok.mark)
      [] OTHER -> Enter(k, text)

ScriptEndTagNameScan(j, text) == IF Exhausted(j) THEN j ELSE ScriptEndTagNameAt(j, text)

ScriptEndTagNameState(k, text) == ScriptEndTagNameScan(NameEnd(k), text)

EscapedAt(k, dash, less) == Enter(k, IF At(k) = "-" THEN dash ELSE less)

EscapedScan(j, dash, less) == IF Exhausted(j) THEN j ELSE EscapedAt(j, dash, less)

EscapedState(k, dash, less) == EscapedScan(Seek(k, {"-", "<"}), dash, less)

ScriptDataEscapedDashState(k) ==
    CASE At(k) = "-" -> Enter(k, "SCRIPT_DATA_ESCAPED_DASH_DASH")
      [] At(k) = "<" -> Goto(k, "SCRIPT_DATA_ESCAPED_LESS_THAN_SIGN")
      [] OTHER -> Enter(k, "SCRIPT_DATA_ESCAPED")

ScriptDataDoubleEscapedDashState(k) ==
    Enter(k, CASE At(k) = "-" -> "SCRIPT_DATA_DOUBLE_ESCAPED_DASH_DASH"
               [] At(k) = "<" -> "SCRIPT_DATA_DOUBLE_ESCAPED_LESS_THAN_SIGN"
               [] OTHER -> "SCRIPT_DATA_DOUBLE_ESCAPED")

DashDashState(k, text, less) ==
    CASE At(k) = "-" -> Eat(k, 1)
      [] At(k) = "<" -> Enter(k, less)
      [] At(k) = ">" -> Enter(k, "SCRIPT_DATA")
      [] OTHER -> Enter(k, text)

ScriptDataEscapedLessThanSignState(k) ==
    CASE At(k) = "/" -> Enter(k, "SCRIPT_DATA_ESCAPED_END_TAG_OPEN")
      [] At(k) \in Letters -> Goto(Mark(k), "SCRIPT_DATA_DOUBLE_ESCAPE_START")
      [] OTHER -> Goto(k, "SCRIPT_DATA_ESCAPED")

ScriptDataDoubleEscapedLessThanSignState(k) ==
    IF At(k) = "/" THEN Mark(Enter(k, "SCRIPT_DATA_DOUBLE_ESCAPE_END"))
    ELSE Goto(k, "SCRIPT_DATA_DOUBLE_ESCAPED")

(* The name behind '<' or '</' in an escaped script: the word script
   switches between the single and the double escape. *)
DoubleEscapeAt(k, found, text) ==
    CASE At(k) \notin Space \cup {">", "/"} -> Goto(k, text)
      [] At(k) \in Space \cup {">", "/"} /\ MarkedScript(k) -> Enter(k, found)
      [] OTHER -> Enter(k, text)

DoubleEscapeScan(j, found, text) == IF Exhausted(j) THEN j ELSE DoubleEscapeAt(j, found, text)

DoubleEscapeState(k, found, text) == DoubleEscapeScan(NameEnd(k), found, text)

RcdataStates ==
    {"RCDATA", "RCDATA_LESS_THAN_SIGN", "RCDATA_END_TAG_OPEN", "RCDATA_END_TAG_NAME"}

RawtextStates ==
    {"RAWTEXT", "RAWTEXT_LESS_THAN_SIGN", "RAWTEXT_END_TAG_OPEN", "RAWTEXT_END_TAG_NAME"}

ScriptStates ==
    {"SCRIPT_DATA", "SCRIPT_DATA_LESS_THAN_SIGN", "SCRIPT_DATA_END_TAG_OPEN",
     "SCRIPT_DATA_END_TAG_NAME", "SCRIPT_DATA_ESCAPE_START", "SCRIPT_DATA_ESCAPE_START_DASH",
     "SCRIPT_DATA_ESCAPED", "SCRIPT_DATA_ESCAPED_DASH", "SCRIPT_DATA_ESCAPED_DASH_DASH",
     "SCRIPT_DATA_ESCAPED_LESS_THAN_SIGN", "SCRIPT_DATA_ESCAPED_END_TAG_OPEN",
     "SCRIPT_DATA_ESCAPED_END_TAG_NAME", "SCRIPT_DATA_DOUBLE_ESCAPE_START",
     "SCRIPT_DATA_DOUBLE_ESCAPED", "SCRIPT_DATA_DOUBLE_ESCAPED_DASH",
     "SCRIPT_DATA_DOUBLE_ESCAPED_DASH_DASH", "SCRIPT_DATA_DOUBLE_ESCAPED_LESS_THAN_SIGN",
     "SCRIPT_DATA_DOUBLE_ESCAPE_END"}

RcdataOrRawtext(k) ==
    CASE k.state = "RCDATA" -> TextState(k, "RCDATA_LESS_THAN_SIGN")
      [] k.state = "RAWTEXT" -> TextState(k, "RAWTEXT_LESS_THAN_SIGN")
      [] k.state = "RCDATA_LESS_THAN_SIGN" ->
           TextLessThanSignState(k, "RCDATA", "RCDATA_END_TAG_OPEN")
      [] k.state = "RAWTEXT_LESS_THAN_SIGN" ->
           TextLessThanSignState(k, "RAWTEXT", "RAWTEXT_END_TAG_OPEN")
      [] k.state = "RCDATA_END_TAG_OPEN" ->
           TextEndTagOpenState(k, "RCDATA", "RCDATA_END_TAG_NAME")
      [] k.state = "RAWTEXT_END_TAG_OPEN" ->
           TextEndTagOpenState(k, "RAWTEXT", "RAWTEXT_END_TAG_NAME")
      [] k.state = "RCDATA_END_TAG_NAME" -> TextEndTagNameState(k, "RCDATA", "RCDATA")
      [] OTHER -> TextEndTagNameState(k, "RAWTEXT", "RAWTEXT")

ScriptState(k) ==
    CASE k.state = "SCRIPT_DATA" -> TextScan(k, "SCRIPT_DATA_LESS_THAN_SIGN")
      [] k.state = "SCRIPT_DATA_LESS_THAN_SIGN" -> ScriptDataLessThanSignState(k)
      [] k.state = "SCRIPT_DATA_ESCAPE_START" ->
           DashOr(k, "SCRIPT_DATA_ESCAPE_START_DASH", "SCRIPT_DATA")
      [] k.state = "SCRIPT_DATA_ESCAPE_START_DASH" ->
           DashOr(k, "SCRIPT_DATA_ESCAPED_DASH_DASH", "SCRIPT_DATA")
      [] k.state = "SCRIPT_DATA_END_TAG_OPEN" ->
           ScriptEndTagOpenState(k, "SCRIPT_DATA", "SCRIPT_DATA_END_TAG_NAME")
      [] k.state = "SCRIPT_DATA_END_TAG_NAME" -> ScriptEndTagNameState(k, "SCRIPT_DATA")
      [] k.state = "SCRIPT_DATA_ESCAPED" ->
           EscapedState(k, "SCRIPT_DATA_ESCAPED_DASH", "SCRIPT_DATA_ESCAPED_LESS_THAN_SIGN")
      [] k.state = "SCRIPT_DATA_ESCAPED_DASH" -> ScriptDataEscapedDashState(k)
      [] k.state = "SCRIPT_DATA_ESCAPED_DASH_DASH" ->
           DashDashState(k, "SCRIPT_DATA_ESCAPED", "SCRIPT_DATA_ESCAPED_LESS_THAN_SIGN")
      [] k.state = "SCRIPT_DATA_ESCAPED_LESS_THAN_SIGN" -> ScriptDataEscapedLessThanSignState(k)
      [] k.state = "SCRIPT_DATA_ESCAPED_END_TAG_OPEN" ->
           ScriptEndTagOpenState(k, "SCRIPT_DATA_ESCAPED", "SCRIPT_DATA_ESCAPED_END_TAG_NAME")
      [] k.state = "SCRIPT_DATA_ESCAPED_END_TAG_NAME" ->
           ScriptEndTagNameState(k, "SCRIPT_DATA_ESCAPED")
      [] k.state = "SCRIPT_DATA_DOUBLE_ESCAPE_START" ->
           DoubleEscapeState(k, "SCRIPT_DATA_DOUBLE_ESCAPED", "SCRIPT_DATA_ESCAPED")
      [] k.state = "SCRIPT_DATA_DOUBLE_ESCAPED" ->
           EscapedState(k, "SCRIPT_DATA_DOUBLE_ESCAPED_DASH",
                        "SCRIPT_DATA_DOUBLE_ESCAPED_LESS_THAN_SIGN")
      [] k.state = "SCRIPT_DATA_DOUBLE_ESCAPED_DASH" -> ScriptDataDoubleEscapedDashState(k)
      [] k.state = "SCRIPT_DATA_DOUBLE_ESCAPED_DASH_DASH" ->
           DashDashState(k, "SCRIPT_DATA_DOUBLE_ESCAPED",
                         "SCRIPT_DATA_DOUBLE_ESCAPED_LESS_THAN_SIGN")
      [] k.state = "SCRIPT_DATA_DOUBLE_ESCAPED_LESS_THAN_SIGN" ->
           ScriptDataDoubleEscapedLessThanSignState(k)
      [] OTHER -> DoubleEscapeState(k, "SCRIPT_DATA_ESCAPED", "SCRIPT_DATA_DOUBLE_ESCAPED")
=============================================================================
