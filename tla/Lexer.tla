------------------------------- MODULE Lexer -------------------------------
(***************************************************************************)
(* What the states of the tokenizer share.  A lexer k is the part of       *)
(* myhtml_tree_t the tokenizer works on:                                   *)
(*    doc, chain     the document, and the buffers it has come in so far   *)
(*    pos            global_offset + html_offset, the character at hand    *)
(*    state          the tokenizer's state                                 *)
(*    tok            current_token_node                                    *)
(*    attr, held     attr_current, and whether a token's list has it       *)
(*    tmp            tmp_tag_id, the element whose end tag ends the text   *)
(*    skip           MyHTML_TREE_PARSE_FLAGS_SKIP_WHITESPACE_TOKEN         *)
(*    fragment       the context element of a fragment, or Undef           *)
(*    ns             0 before token_namespace is set; then one more than   *)
(*                   the svg elements the builder has open                 *)
(*    out            the tokens queued for the builder                     *)
(*    twice          ghost: an attribute was linked into two lists         *)
(* A character is a string of one character.  An element's tag is its      *)
(* name, a sequence of letters; the names and keywords the tokenizer knows *)
(* are shorter here than in HTML, with their order of length kept.  Spans  *)
(* with the brackets (element_begin, element_length) are left out.         *)
(***************************************************************************)
EXTENDS IncomingBuffer

Undef   == <<>>
Text    == <<"_text">>
Comment == <<"_comment">>
Doctype == <<"_doctype">>
Eof     == <<"_end of file">>
Nameless == <<"_nameless">>

Title     == <<"t">>          \* an element of RCDATA
Style     == <<"y">>          \* an element of RAWTEXT
Plaintext == <<"p">>
Script    == <<"s", "r">>
Svg       == <<"g">>

DoctypeWord == <<"d", "o", "c">>
CdataWord   == <<"[", "k", "[">>
PublicWord  == <<"b", "l">>
SystemWord  == <<"m", "n">>

Space   == {" "}
Letters == {"a", "b", "c", "d", "g", "k", "l", "m", "n", "o", "p", "r", "s", "t", "y"}

(* The tag table's data_parser *)
DataParser(tag) ==
    CASE tag = Title -> "RCDATA"
      [] tag = Style -> "RAWTEXT"
      [] tag = Plaintext -> "PLAINTEXT"
      [] tag = Script -> "SCRIPT_DATA"
      [] OTHER -> "DATA"

-----------------------------------------------------------------------------
(* Reading *)

Base(k)     == Last(k.chain).offset
Limit(k)    == Base(k) + Last(k.chain).size
Exhausted(k) == k.pos >= Limit(k)
At(k)       == k.doc[k.pos + 1]
Behind(k)   == SubSeq(k.doc, k.tok.raw_begin + 1, k.pos)

Eat(k, n)   == [k EXCEPT !.pos = @ + n]
Goto(k, s)  == [k EXCEPT !.state = s]
Enter(k, s) == Goto(Eat(k, 1), s)

(* The scan of a state's loop: on to the first character of stops in the
   chunk at hand, or to the end of the chunk. *)
Seek(k, stops) ==
    LET hits == {p \in k.pos .. (Limit(k) - 1) : k.doc[p + 1] \in stops}
    IN  [k EXCEPT !.pos = IF hits = {} THEN Limit(k) ELSE Min(hits)]

SkipSpace(k) ==
    LET hits == {p \in k.pos .. (Limit(k) - 1) : k.doc[p + 1] \notin Space}
    IN  [k EXCEPT !.pos = IF hits = {} THEN Limit(k) ELSE Min(hits)]

NameEnd(k) ==
    LET hits == {p \in k.pos .. (Limit(k) - 1) : k.doc[p + 1] \notin Letters}
    IN  [k EXCEPT !.pos = IF hits = {} THEN Limit(k) ELSE Min(hits)]

(* The keyword or name of that many characters at a remembered position *)
WordAt(k, begin, length) == MakeData(k.doc, k.chain, begin, length)

-----------------------------------------------------------------------------
(* Tokens and attributes *)

FreshToken(at) ==
    [tag |-> Undef, type |-> {"WHITESPACE"}, raw_begin |-> at, raw_length |-> 0,
     mark |-> 0, attrs |-> <<>>]

FreshAttr == [key_begin |-> 0, key_length |-> 0, value_begin |-> 0, value_length |-> 0]

Tag(k, tag)     == [k EXCEPT !.tok.tag = tag]
Mark(k)         == [k EXCEPT !.tok.mark = k.pos]
Begin(k)        == [k EXCEPT !.tok.raw_begin = k.pos]
Length(k)       == [k EXCEPT !.tok.raw_length = k.pos - k.tok.raw_begin]
Type(k, add)    == [k EXCEPT !.tok.type = @ \cup add]
Typed(k, types) == [k EXCEPT !.tok.type = types]
NotSpace(k)     == [k EXCEPT !.tok.type = @ \ {"WHITESPACE"}]

(* myhtml_token_attr_create *)
NewAttr(k) == [k EXCEPT !.attr = FreshAttr, !.held = FALSE]

(* myhtml_parser_queue_set_attr: attr_current goes into the token's list.
   While it is held there, what is written to it is written to the list. *)
HoldAttr(k) ==
    [k EXCEPT !.tok.attrs = Append(@, k.attr), !.held = TRUE, !.twice = @ \/ k.held]

Attr(k)        == IF k.held /\ k.tok.attrs # <<>> THEN Last(k.tok.attrs) ELSE k.attr
SetAttr(k, a)  ==
    IF k.held /\ k.tok.attrs # <<>>
    THEN [k EXCEPT !.tok.attrs[Len(k.tok.attrs)] = a]
    ELSE [k EXCEPT !.attr = a]

KeyFrom(k)     == SetAttr(k, [Attr(k) EXCEPT !.key_begin = k.pos])
KeyTo(k)       == SetAttr(k, [Attr(k) EXCEPT !.key_length = k.pos - Attr(k).key_begin])
ValueFrom(k)   == SetAttr(k, [Attr(k) EXCEPT !.value_begin = k.pos])
ValueTo(k)     == SetAttr(k, [Attr(k) EXCEPT !.value_length = k.pos - Attr(k).value_begin])

-----------------------------------------------------------------------------
(* The hand-over to the builder *)

(* What the builder last told the tokenizer to take (state_of_builder),
   when the tokenizer has waited for it: in foreign content no element has
   a text of its own kind. *)
Foreign(k) == k.ns > 1

BuilderState(k) == IF Foreign(k) THEN "DATA" ELSE DataParser(k.tok.tag)

(* myhtml_tokenizer_calc_current_namespace, with a thread for the builder *)
CalcCurrentNamespace(k) ==
    IF k.tok.tag = Svg
    THEN [k EXCEPT !.ns = CASE k.tok.type \cap {"CLOSE", "CLOSE_SELF"} = {} -> Max({@, 1}) + 1
                            [] "CLOSE" \in k.tok.type -> Max({@ - 1, 1})
                            [] OTHER -> Max({@, 1})]
    ELSE IF k.ns # 0 /\ "CLOSE" \notin k.tok.type /\ DataParser(k.tok.tag) # "DATA"
         THEN Goto(k, BuilderState(k))
         ELSE k

(* myhtml_queue_add *)
QueueAdd(k) ==
    IF k.skip /\ k.tok.tag = Text /\ "WHITESPACE" \in k.tok.type
    THEN [k EXCEPT !.tok = FreshToken(k.pos)]
    ELSE [CalcCurrentNamespace(k) EXCEPT !.out = Append(@, k.tok),
                                         !.tok = FreshToken(k.pos)]

(* myhtml_tokenizer_queue_create_text_node_if_need: the text in front of a
   tag becomes a token of its own. *)
CreateTextNodeIfNeed(k, upto, type) ==
    IF k.tok.tag = Undef /\ upto > k.tok.raw_begin
    THEN QueueAdd([Tag(Type(k, {type}), Text)
                   EXCEPT !.tok.raw_length = upto - k.tok.raw_begin])
    ELSE k

(* myhtml_check_tag_parser: the element of that name, made when there is
   none yet.  A name without a letter is nobody's, and never found again. *)
CheckTagParser(k) ==
    Tag(k, IF k.tok.raw_length = 0 THEN Nameless
           ELSE WordAt(k, k.tok.raw_begin, k.tok.raw_length))

(* myhtml_tokenizer_set_state *)
SetState(k) ==
    Goto(k, IF "CLOSE" \in k.tok.type THEN "DATA" ELSE DataParser(k.tok.tag))

(* The '>' of a tag, and the '>' of anything else *)
CloseTag(k)    == QueueAdd(Eat(SetState(k), 1))
CloseMarkup(k) == Goto(QueueAdd(Eat(k, 1)), "DATA")
=============================================================================
