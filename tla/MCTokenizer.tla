---------------------------- MODULE MCTokenizer ----------------------------
(* Documents for the tokenizer, and what it makes of one that comes whole. *)
EXTENDS Tokenizer

StateFunction(k) ==
    CASE k.state \in TagStates -> TagFunction(k)
      [] k.state \in AttributeStates -> AttributeFunction(k)
      [] k.state \in CommentStates -> CommentFunction(k)
      [] k.state \in DoctypeStates -> DoctypeState(k)
      [] k.state \in RcdataStates \cup RawtextStates -> RcdataOrRawtext(k)
      [] k.state \in ScriptStates -> ScriptState(k)
      [] k.state = "PLAINTEXT" -> PlaintextState(k)
      [] k.state = "CDATA_SECTION" -> CdataSectionState(k)

RECURSIVE RunOn(_)
(* The set has TLC work out a turn once. *)
RunOn(k) ==
    IF Exhausted(k) THEN k
    ELSE CHOOSE r \in {RunOn(j) : j \in {StateFunction(k)}} : TRUE

Whole(d) == End([RunOn([NewLexer(d) EXCEPT !.chain = Added(@, Len(d.text))])
                 EXCEPT !.pos = Len(d.text)])

Alike(token) == <<token.tag, token.type, token.raw_begin, token.raw_length, token.attrs>>
TokensOf(k) == [i \in 1 .. (Len(k.out) - 1) |-> Alike(k.out[i])]

(* A beginning, and what comes behind it: up to n of some pieces *)
Then(head, n, pieces) ==
    {head \o FlattenSeq(tail) : tail \in UNION {[1 .. m -> pieces] : m \in 0 .. n}}
Chars(set) == {<<c>> : c \in set}

Texts ==
    Then(<<>>, 3, Chars({"<", "/", "a", ">", " "}))
    \cup Then(<<"a", "<", "!">>, 3, Chars({"-", ">", "a"}))
    \cup Then(<<"<", "!", "-", "-">>, 3, Chars({"-", ">", "!", "a"}))
    \cup Then(<<"<", "a", " ">>, 3, Chars({"a", "=", "\"", ">", "/"}))
    \cup Then(<<"<", "a", " ", "a", "=">>, 3, Chars({"a", "'", "\"", " ", ">"}))
    \cup Then(<<"<", "!", "d", "o", "c", " ">>, 3, {<<" ">>, <<">">>, <<"b", "l">>, <<"m", "n">>, <<"\"">>, <<"'">>})
    \cup Then(<<"<", "t", ">">>, 4, Chars({"<", "/", "t", ">"}) \cup {<<"<","/", "t", " ">>})
    \cup Then(<<"<", "y", ">">>, 3, Chars({"<", "/", "y", ">"}))
    \cup Then(<<"<", "p", ">">>, 2, Chars({"<", "a", ">"}))
    \cup Then(<<"<", "g", ">">>, 3, {<<"<", "!", "[", "k", "[">>, <<"]">>, <<">">>, <<"a">>, <<"<", "t", ">">>, <<"<", "/", "g", ">">>})
    \cup Then(<<"<", "g", ">", "<", "!", "[", "k", "[">>, 4, Chars({"]", ">", "a"}))
    \cup Then(<<"<", "!", "d", "o", "c", " ", "a", " ">>, 3, {<<"b", "l">>, <<"\"">>, <<">">>, <<"a">>})
    \cup Then(<<"<", "s", "r", ">", "<">>, 3, Chars({"/", " ", ">", "<"}) \cup {<<"s", "r">>})
    \cup Then(<<"<", "s", "r", ">", "<", "!", "-", "-">>, 3, {<<"<">>, <<"-">>, <<">">>, <<"/">>, <<"s", "r">>, <<"a">>})

Opened ==
    Then(<<>>, 3, {<<"a">>, <<"<", "/">>, <<"t">>, <<"y">>, <<">">>})
    \cup Then(<<"<">>, 3, {<<"s", "r">>, <<">">>, <<"/">>, <<"<">>, <<"!", "-", "-">>})

Spaced == Then(<<>>, 4, Chars({"<", "a", ">", " "}))

AllDocuments ==
    [text : Texts, fragment : {Undef}, skip : {FALSE}]
    \cup [text : Opened, fragment : {Title, Style, Script, Plaintext}, skip : {FALSE}]
    \cup [text : Spaced, fragment : {Undef}, skip : {TRUE}]

Reference == [d \in AllDocuments |-> TokensOf(Whole(d))]

ChunksAgree ==
    Unharmed =>
        TokensOf(lexer) = Reference[[text |-> lexer.doc, fragment |-> lexer.fragment, skip |-> lexer.skip]]
=============================================================================
