----------------------------- MODULE Tokenizer -----------------------------
(***************************************************************************)
(* The tokenizer as a state machine.  The caller passes a document in      *)
(* chunks (myhtml_parse_chunk) and then ends it; the tokenizer calls one   *)
(* state function after the other until the chunk at hand is used up.      *)
(* Each disjunct of Step is one such call.                                 *)
(*                                                                         *)
(* Documents and MaxChunks bound the inputs: records with text (a sequence *)
(* of characters), fragment (the name of a context element, or Undef) and  *)
(* skip (the flag that has the tokenizer drop tokens of white space).      *)
(***************************************************************************)
EXTENDS LexerEnd

CONSTANTS Documents,
          MaxChunks

ASSUME MaxChunksAssumption == MaxChunks \in Nat \ {0}

(* A document is a sequence of characters. *)
ASSUME DocumentsAssumption == \A d \in Documents : d.text \in Seq(STRING)

VARIABLES lexer,
          ended,
          harmed,       \* ghost: a chunk has ended where it should not
          turns         \* ghost: the turns of the loop so far

vars == <<lexer, ended, harmed, turns>>

(* myhtml_tokenizer_fragment_init has chosen the first state. *)
NewLexer(d) ==
    [doc |-> d.text, chain |-> <<>>, pos |-> 0, state |-> DataParser(d.fragment),
     tok |-> FreshToken(0), attr |-> FreshAttr, held |-> FALSE, tmp |-> Undef,
     fragment |-> d.fragment, skip |-> d.skip, ns |-> 0, out |-> <<>>, twice |-> FALSE]

Init ==
    /\ \E d \in Documents : lexer = NewLexer(d)
    /\ ended = FALSE
    /\ harmed = FALSE
    /\ turns = 0

Fed       == IF lexer.chain = <<>> THEN 0 ELSE Limit(lexer)
(* A state may have skipped more than the chunk has. *)
Waiting   == lexer.pos >= Fed

(* The places a chunk must not end at, for the rest is not read as it is in
   the whole document: a look-ahead that goes on at the new chunk's begin
   and not where it has been, between the dashes of a comment or behind the
   '>' of what is no keyword; the name of an end tag in RCDATA or RAWTEXT,
   of which only the rest is compared; plaintext, which ends with the first
   chunk. *)
Harms(k) ==
    \/ k.state = "MARKUP_DECLARATION_OPEN" /\ Behind(k) = <<"-">>
    \/ k.state = "MARKUP_DECLARATION_OPEN" /\ ">" \in ToSet(Behind(k))
    \/ k.state = "CUSTOM_AFTER_DOCTYPE_NAME_A_Z" /\ ">" \in ToSet(SubSeq(k.doc, k.tok.mark + 1, k.pos))
    \/ k.state \in {"RCDATA_END_TAG_NAME", "RAWTEXT_END_TAG_NAME"}
    \/ k.out # <<>> /\ "PLAINTEXT" \in Last(k.out).type

(* The end of a document that has come in several chunks harms it, too, when
   there is a '>' in the rest that the state has kept: the end looks for it
   from a wrong place on (EndMarkupDeclarationOpen). *)
EndHarms(k) == k.state = "MARKUP_DECLARATION_OPEN" /\ ">" \in ToSet(Behind(k))

(* myhtml_tokenizer_chunk_process, up to its loop *)
Feed(size) ==
    /\ ~ ended
    /\ Waiting
    /\ Len(lexer.chain) < MaxChunks
    /\ (Len(lexer.chain) + 1 = MaxChunks) => size = Len(lexer.doc) - Fed
    /\ lexer' = [lexer EXCEPT !.chain = Added(@, size), !.pos = Fed]
    /\ harmed' = (harmed \/ (lexer.chain # <<>> /\ Harms(lexer)))
    /\ UNCHANGED <<ended, turns>>

(* One turn of the loop of chunk_process, the state being one of states *)
Turn(states, Function(_)) ==
    /\ ~ ended
    /\ ~ Waiting
    /\ lexer.state \in states
    /\ lexer' = Function(lexer)
    /\ turns' = turns + 1
    /\ UNCHANGED <<ended, harmed>>

TagStates ==
    {"DATA", "TAG_OPEN", "END_TAG_OPEN", "MARKUP_DECLARATION_OPEN", "TAG_NAME",
     "SELF_CLOSING_START_TAG"}

TagFunction(k) ==
    CASE k.state = "DATA" -> DataState(k)
      [] k.state = "TAG_OPEN" -> TagOpenState(k)
      [] k.state = "END_TAG_OPEN" -> EndTagOpenState(k)
      [] k.state = "MARKUP_DECLARATION_OPEN" -> MarkupDeclarationOpenState(k)
      [] k.state = "TAG_NAME" -> TagNameState(k)
      [] k.state = "SELF_CLOSING_START_TAG" -> SelfClosingStartTagState(k)

AttributeFunction(k) ==
    CASE k.state = "BEFORE_ATTRIBUTE_NAME" -> BeforeAttributeNameState(k)
      [] k.state = "ATTRIBUTE_NAME" -> AttributeNameState(k)
      [] k.state = "AFTER_ATTRIBUTE_NAME" -> AfterAttributeNameState(k)
      [] k.state = "BEFORE_ATTRIBUTE_VALUE" -> BeforeAttributeValueState(k)
      [] k.state = "ATTRIBUTE_VALUE_DOUBLE_QUOTED" -> AttributeValueQuotedState(k, "\"")
      [] k.state = "ATTRIBUTE_VALUE_SINGLE_QUOTED" -> AttributeValueQuotedState(k, "'")
      [] k.state = "ATTRIBUTE_VALUE_UNQUOTED" -> AttributeValueUnquotedState(k)
      [] k.state = "AFTER_ATTRIBUTE_VALUE_QUOTED" -> AfterAttributeValueQuotedState(k)

CommentFunction(k) ==
    CASE k.state = "COMMENT_START" -> CommentStartState(k)
      [] k.state = "COMMENT_START_DASH" -> CommentStartDashState(k)
      [] k.state = "COMMENT" -> CommentState(k)
      [] k.state = "COMMENT_END_DASH" -> CommentEndDashState(k)
      [] k.state = "COMMENT_END" -> CommentEndState(k)
      [] k.state = "COMMENT_END_BANG" -> CommentEndBangState(k)
      [] k.state = "BOGUS_COMMENT" -> BogusCommentState(k)

DoctypeStates ==
    {"DOCTYPE", "BEFORE_DOCTYPE_NAME", "DOCTYPE_NAME", "AFTER_DOCTYPE_NAME",
     "CUSTOM_AFTER_DOCTYPE_NAME_A_Z", "BEFORE_DOCTYPE_PUBLIC_IDENTIFIER",
     "DOCTYPE_PUBLIC_IDENTIFIER_DOUBLE_QUOTED", "DOCTYPE_PUBLIC_IDENTIFIER_SINGLE_QUOTED",
     "AFTER_DOCTYPE_PUBLIC_IDENTIFIER", "DOCTYPE_SYSTEM_IDENTIFIER_DOUBLE_QUOTED",
     "DOCTYPE_SYSTEM_IDENTIFIER_SINGLE_QUOTED", "AFTER_DOCTYPE_SYSTEM_IDENTIFIER",
     "BOGUS_DOCTYPE"}

Step ==
    \/ Turn(TagStates, TagFunction)
    \/ Turn(AttributeStates, AttributeFunction)
    \/ Turn(CommentStates, CommentFunction)
    \/ Turn(DoctypeStates, DoctypeState)
    \/ Turn(RcdataStates \cup RawtextStates, RcdataOrRawtext)
    \/ Turn(ScriptStates, ScriptState)
    \/ Turn({"PLAINTEXT"}, PlaintextState)
    \/ Turn({"CDATA_SECTION"}, CdataSectionState)

(* myhtml_tokenizer_end *)
Stop ==
    /\ ~ ended
    /\ Waiting
    /\ lexer.chain # <<>>
    /\ Fed = Len(lexer.doc)
    /\ lexer' = End([lexer EXCEPT !.pos = Fed])
    /\ ended' = TRUE
    /\ harmed' = (harmed \/ (Len(lexer.chain) > 1 /\ EndHarms(lexer)))
    /\ UNCHANGED turns

Next == (\E size \in 0 .. (Len(lexer.doc) - Fed) : Feed(size)) \/ Step \/ Stop

Spec == Init /\ [][Next]_vars

-----------------------------------------------------------------------------
(* Properties.  The last of the queued tokens is the end of the document. *)

Queued == {lexer.out[i] : i \in 1 .. (Len(lexer.out) - 1)}

TurnsOfACharacter == 2

Unharmed == ended /\ ~ harmed

SpansOf(token) ==
    {<<token.raw_begin, token.raw_length>>}
    \cup UNION {{<<a.key_begin, a.key_length>>, <<a.value_begin, a.value_length>>} :
                a \in ToSet(token.attrs)}

Inside(span) == span[1] + span[2] <= Len(lexer.doc) /\ span[2] >= 0

Readable(span) ==
    WordAt(lexer, span[1], span[2]) = SubSeq(lexer.doc, span[1] + 1, span[1] + span[2])

InOrder ==
    \A i \in 2 .. (Len(lexer.out) - 1) :
        lexer.out[i].raw_begin >= lexer.out[i - 1].raw_begin + lexer.out[i - 1].raw_length

(* However a document is cut into chunks: its tokens come in the order of
   the document and do not overlap, each of their spans lies inside of it,
   and the walk over the chain of buffers finds the characters the span
   stands for. *)
SpansSound ==
    Unharmed => InOrder /\ \A token \in Queued : \A span \in SpansOf(token) :
                               Inside(span) /\ Readable(span)

(* Text after a CDATA section with nothing in it is lost: its token has the
   tag of a text already when it begins (CdataAt). *)
EmptySection ==
    \E p \in DOMAIN lexer.doc :
        p + Len(CdataWord) + 2 <= Len(lexer.doc)
        /\ SubSeq(lexer.doc, p, p + Len(CdataWord) + 2) = CdataWord \o <<"]", "]", ">">>

Plain ==
    ~ lexer.skip /\ ~ EmptySection
    /\ lexer.state \in {"DATA", "MARKUP_DECLARATION_OPEN"} \cup CommentStates
    /\ \A token \in Queued : token.tag # Doctype

(* No letter of a document is lost but those of keywords: each is in the
   span of a token or of an attribute of one.  Not so in a doctype, whose
   bogus rest is dropped, and in a document that ends inside of a tag. *)
TextKept ==
    Unharmed /\ Plain =>
        \A p \in DOMAIN lexer.doc : lexer.doc[p] \in Letters \ ToSet(CdataWord) =>
            \E token \in Queued : \E span \in SpansOf(token) :
                p \in span[1] + 1 .. span[1] + span[2]

(* Where the name of an attribute, or what follows on it, is being read. *)
ReadsAttr ==
    {"ATTRIBUTE_NAME", "AFTER_ATTRIBUTE_NAME", "BEFORE_ATTRIBUTE_VALUE",
     "ATTRIBUTE_VALUE_DOUBLE_QUOTED", "ATTRIBUTE_VALUE_SINGLE_QUOTED",
     "ATTRIBUTE_VALUE_UNQUOTED", "DOCTYPE_NAME"}

(* An attribute is linked into the list of one token, once.  attr_current
   is in a list exactly while an attribute is read, and then in that of the
   token at hand: what is written to it never reaches a token the builder
   has already got.  attr_current is a new one whenever a name or an
   identifier begins. *)
AttrAtHand ==
    /\ ~ lexer.twice
    /\ ~ ended => /\ lexer.held <=> lexer.state \in ReadsAttr
                  /\ lexer.held => lexer.tok.attrs # <<>>

(* The loop of chunk_process comes to the end of every chunk, for no states
   hand a character to each other for ever: TurnsOfACharacter turns are
   enough for one, chunks and all. *)
TurnsBounded == turns <= TurnsOfACharacter * Len(lexer.doc) + 1
=============================================================================
