------------------------------ MODULE Decoding ------------------------------
(***************************************************************************)
(* What DataProcess promises: the text of a token is the document, as the  *)
(* HTML standard reads it, in UTF-8.                                       *)
(***************************************************************************)
EXTENDS DataProcess

Text == FlattenSeq([i \in DOMAIN doc.chars |-> doc.chars[i].codes])
Bytes == FlattenSeq(buffers)

(***************************************************************************)
(* The text as the standard reads it, code point by code point.            *)
(***************************************************************************)
NamesAt(text, i) == {name \in DOMAIN Names : i + Len(name) <= Len(text)
                                              /\ SubSeq(text, i + 1, i + Len(name)) = name}
At(text, i) == IF i <= Len(text) THEN text[i] ELSE -1
Sharpened(text, i) == At(text, i + 1) = Hash
Base(text, i) == IF At(text, i + 2) \in Hex THEN 16 ELSE 10
DigitsFrom(text, i) == IF Base(text, i) = 16 THEN i + 3 ELSE i + 2
AfterDigits(text, i) == Min({j \in DigitsFrom(text, i) .. Len(text) + 1 : At(text, j) \notin Digits(Base(text, i))})

(* A reference that begins with the ampersand at i: its characters, and the *)
(* place behind it.  If there is none, the ampersand stands for itself.     *)
ReferenceAt(text, i) ==
    LET name == CHOOSE n \in NamesAt(text, i) : \A m \in NamesAt(text, i) : Len(m) <= Len(n)
        behind == At(text, i + Len(name) + 1)
        literal == [codes |-> <<Ampersand>>, next |-> i + 1]
        end == AfterDigits(text, i)
        digits == SubSeq(text, DigitsFrom(text, i), end - 1)
        number == FoldLeft(LAMBDA n, d : n * Base(text, i) + Value(d), 0, digits)
    IN CASE ~WithReferences -> literal
         [] WithReferences /\ Sharpened(text, i) ->
              IF digits = <<>> THEN literal
              ELSE [codes |-> <<Replacement(number)>>, next |-> end + IF At(text, end) = Semicolon THEN 1 ELSE 0]
         [] WithReferences /\ ~Sharpened(text, i) /\ NamesAt(text, i) # {} ->
              IF doc.kind = "value" /\ name[Len(name)] # Semicolon
                 /\ (behind = 61 \/ behind \in AlphaNumeric)
              THEN literal ELSE [codes |-> Names[name], next |-> i + Len(name) + 1]
         [] OTHER -> literal

Read(text) ==
    LET from[i \in 1 .. Len(text) + 3] ==
          IF i > Len(text) THEN <<>>
          ELSE CASE text[i] = CR -> <<LF>> \o from[i + IF At(text, i + 1) = LF THEN 2 ELSE 1]
                 [] text[i] = Ampersand ->
                      LET r == ReferenceAt(text, i) IN r.codes \o from[r.next]
                 [] text[i] = 0 /\ ~EmitNull -> <<ReplacementCharacter>> \o from[i + 1]
                 [] OTHER -> (IF Lowercase THEN LowerCase(<<text[i]>>) ELSE <<text[i]>>) \o from[i + 1]
    IN Characters(from[1])

(***************************************************************************)
(* Where the code departs from it.  Cuts are the places behind which a     *)
(* buffer ends, the last one included.                                     *)
(***************************************************************************)
Cuts == {Len(FlattenSeq(SubSeq(buffers, 1, n))) : n \in DOMAIN buffers}
InnerCuts == Cuts \ {Len(Bytes)}
Amps == {i \in DOMAIN Bytes : Bytes[i] = Ampersand}

(* A buffer ends right behind the digits of a reference: the next one does *)
(* not know that there were any.                                           *)
NumberAtCut == \E i \in Amps : /\ Sharpened(Bytes, i) /\ AfterDigits(Bytes, i) > DigitsFrom(Bytes, i)
                               /\ AfterDigits(Bytes, i) - 1 \in InnerCuts

(* A name is followed by the begin of a longer one, and a buffer or the    *)
(* token ends there: what came behind the name is lost.                    *)
NameAtCut ==
    \E i \in Amps, e \in Cuts :
       /\ e > i /\ SubSeq(Bytes, i + 1, e) \in Entries
       /\ \E k \in i + 1 .. e : SubSeq(Bytes, i + 1, k) \in DOMAIN Names /\ (k = e => e # Len(Bytes))
       /\ \A name \in NamesAt(Bytes, i) : i + Len(name) <= e

(* That a carriage return came last is forgotten only when something else  *)
(* is appended: not by a reference, and not by the line feed it swallowed. *)
NewlineForgotten ==
    WithReferences /\ \E i, j \in DOMAIN Bytes :
       /\ i + 1 < j /\ Bytes[i] = CR /\ Bytes[j] = LF
       /\ i \in InnerCuts \/ Bytes[i + 1] = Ampersand
       /\ \A m \in i + 1 .. j - 1 : Bytes[m] \in {LF, Ampersand, Hash, Semicolon} \cup AlphaNumeric

(* Characters the decoders read as something else.  UTF-16 takes a first   *)
(* byte of 0 for no byte.                                                  *)
ZeroFirst(bytes) == \E n \in DOMAIN bytes : n % 2 = 1 /\ bytes[n] = 0
TwoBytes(c) == Len(c.bytes) = 2
Katakana == <<27, 40, 73>>
BackToAscii == <<27, 40, 66>>

CharMisread(i) ==
    LET c == doc.chars[i] IN
    CASE doc.encoding \in Utf16 -> ZeroFirst(c.bytes)
      [] doc.encoding = "gb18030" -> Len(c.bytes) = 4 /\ c.codes[1] >= Ranges[2][2]
      [] doc.encoding = "big5" -> Len(c.codes) = 2
      [] doc.encoding = "euc-kr" -> c.bytes = <<129, 65>>
      [] doc.encoding = "shift_jis" -> c.bytes = <<129, 64>> \/ \E j \in 1 .. i - 1 : TwoBytes(doc.chars[j])
      [] doc.encoding = "iso-2022-jp" -> c.bytes \in {Katakana, BackToAscii}
                                         \/ (TwoBytes(c) /\ WithReferences /\ Ampersand \in Range(c.bytes))
      [] OTHER -> FALSE

(* Once text of a UTF-16 document is handed on, the tree's encoding is     *)
(* UTF-8, and the next call decodes its bytes as UTF-8.                    *)
StreamRecoded == doc.encoding \in Utf16 /\ \E n \in 1 .. Len(doc.chunks) - 1 :
                    Len(FlattenSeq(SubSeq(doc.chunks, 1, n))) >= Len(doc.chars[1].bytes)

Misread == StreamRecoded \/ \E i \in DOMAIN doc.chars : CharMisread(i)

(***************************************************************************)
(* Properties.                                                             *)
(***************************************************************************)
(* The text of a token is the document as the HTML standard reads it,      *)
(* whatever chunks it comes in, except at the places named above: the      *)
(* decoders keep half a character, and data_process half a reference and   *)
(* half a newline, from one buffer to the next (data_process.c, parser.c). *)
TextRead == Done /\ ~Misread /\ ~NumberAtCut /\ ~NameAtCut /\ ~NewlineForgotten => str.data = Read(Text)

(* Nothing is written behind the block of a string, its final null         *)
(* included, nor behind an entry of the stream buffer: the growth that     *)
(* mystring.h asks for before each append is enough for what is appended,  *)
(* whatever a character or a reference becomes.  No exception: it holds    *)
(* where the text is read wrongly, too.                                    *)
WritesInside == ~str.over /\ stream.length <= EntrySize

(* README.md lists "parsing by chunks", and api.h an encoding "for input   *)
(* stream": where the decoder of UTF-16 reads every character rightly, the *)
(* text is the document, in whatever chunks it was fed.  It does not hold. *)
ChunksJoined ==
    Done /\ doc.encoding \in Utf16 /\ (\A i \in DOMAIN doc.chars : ~CharMisread(i)) => str.data = Read(Text)

(***************************************************************************)
(* The inductive invariant behind WritesInside.                            *)
(***************************************************************************)
IsSeq(s) == s \in Seq(Range(s))
IsSeqs(seqs) == IsSeq(seqs) /\ \A i \in 1 .. Len(seqs) : IsSeq(seqs[i])

(* A string that nothing was written behind. *)
Inside(s) ==
    /\ s = [data |-> s.data, size |-> s.size, over |-> FALSE]
    /\ IsSeq(s.data) /\ s.size \in Nat

(* What the buffers are made of, and how far the stream entry is filled. *)
FeedInv ==
    /\ IsSeqs(doc.chunks) /\ IsSeqs(buffers)
    /\ DOMAIN feed = {"chunk", "at", "func"} /\ feed.chunk \in Nat \ {0}
    /\ DOMAIN stream = {"res", "length", "part"} /\ stream.length \in 0 .. EntrySize /\ IsSeq(stream.part)

(* A place may be one of an earlier buffer, and is never negative. *)
Process(p) ==
    /\ DOMAIN p = {"state", "tmp_str_pos", "tmp_num", "tmp_str_pos_proc", "res", "charef_res"}
    /\ DOMAIN p.charef_res = {"curr", "last", "last_offset"}
    /\ p.tmp_str_pos \in Nat /\ p.charef_res.last_offset \in Nat
PlacesInv ==
    /\ join \in [buffer : Nat, offset : Nat, left : Nat, save : Nat]
    /\ Process(proc)

(* The bytes of a reference that are in the string already, at least: the *)
(* ampersand, and the letter a name begins with.                          *)
Literal(state) == CASE state = "ampersand" -> 1 [] state = "ampersand_data" -> 2 [] OTHER -> 0
ReferenceInv ==
    /\ Feeding => join.buffer = 0
    /\ join.buffer = 0 => proc.state = "data"
    /\ Joining /\ proc.state # "data" => proc.tmp_str_pos + Literal(proc.state) <= Len(str.data)

WritesInv == FeedInv /\ PlacesInv /\ Inside(str) /\ ReferenceInv
=============================================================================
