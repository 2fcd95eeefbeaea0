----------------------------- MODULE MCDecoding -----------------------------
EXTENDS Decoding

Single(bytes) == [i \in DOMAIN bytes |-> [codes |-> <<bytes[i]>>, bytes |-> <<bytes[i]>>]]
Char(code, bytes) == [codes |-> <<code>>, bytes |-> bytes]

Docs(name, kinds, texts) == [encoding : {name}, kind : kinds, chars : texts]

Words(letters, n) == UNION {[1 .. k -> letters] : k \in 0 .. n}
With(head, words) == {Single(head \o word) : word \in words}

(* lt, lt; and ltri; of the real names, the two code points of nGg;, the four bytes of Afr; *)
MCNames == <<108, 116>> :> <<60>> @@ <<108, 116, 59>> :> <<60>> @@ <<108, 116, 114, 105, 59>> :> <<9667>>
           @@ <<110, 71, 103, 59>> :> <<8921, 824>> @@ <<65, 102, 114, 59>> :> <<120068>>
Lt == <<38, 108, 116>>

References == Docs("utf-8", {"data", "value"}, With(Lt, Words({114, 105, 59, 38, 61}, 3)))
              \cup Docs("utf-8", {"rcdata"}, With(<<38, 110, 71>>, Words({103, 59, 13}, 2))
                                            \cup With(<<38, 65, 102>>, Words({114, 59, 10}, 2)))
Numbers == Docs("utf-8", {"data"}, With(<<38, 35>>, Words({120, 49, 97, 59, 38}, 4)))
Newlines == Docs("utf-8", Kinds, With(<<>>, Words({CR, LF, 0, 65, 38}, 4) \ {<<>>}))

(* For every encoding some characters, those it reads wrongly included. *)
Ascii == {Char(65, <<65>>), Char(13, <<13>>), Char(10, <<10>>)}
Repertoire ==
    "windows-1251" :> {Char(1088, <<192>>)}
    @@ "x-user-defined" :> {Char(63432, <<200>>)}
    @@ "gb18030" :> {Char(19968, <<129, 64>>), Char(20031, <<129, 128>>), Char(128, <<129, 48, 129, 48>>),
                     Char(165, <<129, 48, 132, 54>>)}
    @@ "big5" :> {Char(19969, <<129, 65>>), Char(20031, <<129, 161>>),
                  [codes |-> <<202, 772>>, bytes |-> <<136, 98>>]}
    @@ "euc-jp" :> {Char(19969, <<161, 162>>), Char(65393, <<142, 177>>), Char(31489, <<143, 161, 162>>)}
    @@ "euc-kr" :> {Char(19969, <<129, 66>>), Char(19968, <<129, 65>>)}
    @@ "shift_jis" :> {Char(19969, <<129, 65>>), Char(19968, <<129, 64>>), Char(65393, <<177>>)}

Encoded == UNION {Docs(name, {"data"}, Words(Repertoire[name] \cup Ascii, 3) \ {<<>>})
                  \cup Docs(name, {"key"}, Words(Repertoire[name] \cup Ascii, 2) \ {<<>>})
                  : name \in DOMAIN Repertoire}

Shift(bytes) == [codes |-> <<>>, bytes |-> bytes]
Kanji == <<Shift(<<27, 36, 66>>), Char(19969, <<33, 34>>), Char(20443, <<38, 38>>)>>
Roman == <<Shift(<<27, 40, 74>>), Char(165, <<92>>), Char(65, <<65>>)>>
Jis == Docs("iso-2022-jp", {"rawtext", "data"},
            {Single(<<65>>) \o Kanji \o Roman, Roman \o Kanji, SubSeq(Kanji, 1, 2) \o Roman \o SubSeq(Kanji, 1, 2),
             Kanji \o <<Shift(BackToAscii)>> \o Single(<<65>>),
             <<Shift(Katakana), Char(65393, <<49>>)>>})

A16 == Char(65, <<65, 0>>)
Ding16 == Char(19969, <<1, 78>>)
Smile16 == Char(128513, <<61, 216, 1, 222>>)
Swapped(c) == [c EXCEPT !.bytes = [n \in DOMAIN @ |-> @[IF n % 2 = 1 THEN n + 1 ELSE n - 1]]]
Utf16Docs ==
    Docs("utf-16le", {"data"}, (Words({A16, Ding16, Smile16}, 4)
                                \cup Words({Ding16, Char(38, <<38, 0>>), Char(256, <<0, 1>>)}, 3)) \ {<<>>})
    \cup Docs("utf-16be", {"data"}, Words({Swapped(c) : c \in {A16, Ding16, Smile16}}, 3) \ {<<>>})

MCTexts == References \cup Numbers \cup Newlines \cup Encoded \cup Jis \cup Utf16Docs

MCRanges == <<<<0, 128>>, <<36, 165>>, <<38, 169>>, <<45, 178>>>>
MCComposed == {1133}
=============================================================================
