---------------------------- MODULE DataProcess ----------------------------
(***************************************************************************)
(* From the bytes of the program to the text of a token.                   *)
(*                                                                         *)
(* Feeding: every call of myhtml_parse_chunk leaves a buffer in the chain  *)
(* of incoming buffers.  A document in UTF-16 is first converted into a    *)
(* stream buffer (myhtml/tokenizer.c, stream.c), and the buffers lie in    *)
(* there.                                                                  *)
(*                                                                         *)
(* Decoding: a worker joins what lies in the buffers to a string           *)
(* (myhtml/parser.c).  On the way it converts the encoding, makes one line *)
(* feed of every newline, and replaces references to characters            *)
(* (data_process.c).  The tokenizer between the two is not here: the token *)
(* is the whole document.                                                  *)
(***************************************************************************)
EXTENDS CharRefs, Encodings, SequencesExt

CONSTANTS
    Texts,        \* the documents that are parsed
    MaxChunks,    \* bound on the number of calls that feed one
    EntrySize,    \* bytes of an entry of the stream buffer, 16384 in the code
    Behind        \* bytes that may lie behind a buffer in memory

VARIABLES
    doc,          \* what is parsed, and as what kind of text
    feed,         \* the chunk being fed, how many of its bytes, and its decoder
    encoding,     \* tree->encoding
    stream,       \* the stream buffer: res, length of its entry, the part not handed on
    buffers,      \* the chain of incoming buffers
    join,         \* the buffer being read, offset in it, length left, save_position
    proc,         \* myhtml_data_process_entry_t
    str           \* the string: bytes, size of its block; over: written past the block

vars == <<doc, feed, encoding, stream, buffers, join, proc, str>>

LF == 10
CR == 13
ReplacementCharacter == 65533
Kinds == {"data", "rcdata", "rawtext", "key", "value"}
Utf16 == {"utf-16le", "utf-16be"}

(* A text is in an encoding and of a kind; a character has the code points *)
(* it stands for and its bytes.                                            *)
ASSUME TextsAssumption ==
    \A t \in Texts : /\ t.kind \in Kinds /\ t.chars \in Seq([codes : Seq(Nat), bytes : Seq(0 .. 255)])
                      /\ \A i \in DOMAIN t.chars : t.chars[i].bytes # <<>>
ASSUME EntrySizeAssumption == EntrySize \in Nat /\ EntrySize > 8
ASSUME MaxChunksAssumption == MaxChunks \in Nat \ {0}

WithReferences == doc.kind \in {"data", "rcdata", "value"}
EmitNull == doc.kind = "data"
Lowercase == doc.kind = "key"

(***************************************************************************)
(* Strings: mycore/mystring.c and myhtml/mystring.c.                       *)
(***************************************************************************)
Need(s, length, upto) ==
    [s EXCEPT !.size = IF Len(s.data) + length >= @ THEN Len(s.data) + length + upto ELSE @]
Put(s, from, bytes) ==
    LET data == SubSeq(s.data, 1, from) \o bytes
    IN [data |-> data, size |-> s.size, over |-> s.over \/ Len(data) > s.size]
Terminated(s) == [s EXCEPT !.over = @ \/ Len(s.data) >= s.size]
append_char(s, byte) == Terminated(Put(Need(s, 2, 0), Len(s.data), <<byte>>))

LowerCase(bytes) == [i \in DOMAIN bytes |-> IF bytes[i] \in 65 .. 90 THEN bytes[i] + 32 ELSE bytes[i]]

(* Faulty variant of RoomForNull: no room is made while the block has any. *)
RoomForOneByte(s) == Need(s, 1, 4)
RoomForNull(s) == [s EXCEPT !.size = @ + 5]

(* One character more; a null may become U+FFFD. *)
AppendCode(acc, code) ==
    LET replaced == code = <<0>> /\ ~EmitNull
        room == IF encoding = "utf-8" THEN acc.str ELSE Need(acc.str, 5, 1)
        shown == IF code = <<CR>> THEN <<LF>> ELSE IF replaced THEN codepoint_to_utf_8(ReplacementCharacter)
                 ELSE IF Lowercase /\ Len(code) = 1 THEN LowerCase(code) ELSE code
    IN [str |-> Put(IF replaced THEN RoomForNull(room) ELSE room, Len(room.data), shown),
        res |-> acc.res, cr |-> code = <<CR>>]

AppendAnswer(acc, answer) ==
    IF answer.status # "ok" THEN [str |-> acc.str, res |-> answer.res, cr |-> FALSE]
    ELSE AppendCode([acc EXCEPT !.res = answer.res],
                    IF encoding = "utf-8" THEN <<answer.res.result>> ELSE codepoint_to_utf_8(answer.res.result))

(* One byte more.  cr: the last character was a carriage return, and a line *)
(* feed right behind it is passed over.                                     *)
AppendByte(acc, byte) ==
    IF acc.cr /\ byte = LF THEN [acc EXCEPT !.cr = FALSE]
    ELSE AppendAnswer(acc, IF encoding = "utf-8" THEN Ok(acc.res, byte) ELSE Decode(encoding, byte, acc.res))

(* append_..._with_preprocessing: the answer, pos, is not 0 when the data *)
(* end with a carriage return.                                            *)
(* Faulty variant of EndOfText: a carriage return at the end is forgotten. *)
EndForgets(all) == [str |-> Terminated(Need(all.str, 0, 2)), res |-> all.res, pos |-> 0]
EndOfText(all) ==
    LET room == IF all.cr THEN Need(all.str, 0, 2)
                ELSE IF encoding = "utf-8" THEN all.str ELSE Need(all.str, 0, 1)
    IN [str |-> Terminated(room), res |-> all.res, pos |-> IF all.cr THEN Len(all.str.data) ELSE 0]

append_with_preprocessing(s, res, bytes) ==
    EndOfText(FoldLeft(AppendByte, [str |-> Need(s, Len(bytes) + 1, 0), res |-> res, cr |-> FALSE], bytes))

before_append_any_preprocessing(bytes, last_position) ==
    IF last_position # 0 /\ bytes # <<>> /\ bytes[1] = LF THEN 1 ELSE 0

(***************************************************************************)
(* Feeding.  myhtml_tokenizer_chunk_process: the bytes become a buffer.    *)
(***************************************************************************)
Feeding == feed.chunk <= Len(doc.chunks)
chunk_process(bytes) == buffers' = Append(buffers, bytes)
NextChunk == feed' = [chunk |-> feed.chunk + 1, at |-> 0, func |-> "none"]

Chunk ==
    /\ Feeding /\ doc.encoding \notin Utf16
    /\ chunk_process(doc.chunks[feed.chunk])
    /\ NextChunk
    /\ UNCHANGED <<doc, encoding, stream, join, proc, str>>

(* The decoder is that of the encoding the tree has now. *)
StreamBegin ==
    /\ Feeding /\ doc.encoding \in Utf16 /\ feed.func = "none"
    /\ feed' = [feed EXCEPT !.func = encoding]
    /\ UNCHANGED <<doc, encoding, stream, buffers, join, proc, str>>

(* A full entry is handed on, and a new one is taken. *)
StreamByte ==
    /\ Feeding /\ feed.func # "none" /\ feed.at < Len(doc.chunks[feed.chunk])
    /\ feed' = [feed EXCEPT !.at = @ + 1]
    /\ \E answer \in {Decode(feed.func, doc.chunks[feed.chunk][feed.at + 1], stream.res)} :
         LET full == answer.status = "ok" /\ stream.length + 4 >= EntrySize
             bytes == IF answer.status = "ok" THEN codepoint_to_utf_8(answer.res.result) ELSE <<>>
         IN /\ stream' = [res |-> answer.res,
                          length |-> (IF full THEN 0 ELSE stream.length) + Len(bytes),
                          part |-> (IF full THEN <<>> ELSE stream.part) \o bytes]
            /\ IF full THEN chunk_process(stream.part) /\ encoding' = "utf-8"
               ELSE UNCHANGED <<buffers, encoding>>
    /\ UNCHANGED <<doc, join, proc, str>>

StreamEnd ==
    /\ Feeding /\ feed.func # "none" /\ feed.at = Len(doc.chunks[feed.chunk])
    /\ IF stream.part # <<>> THEN chunk_process(stream.part) /\ encoding' = "utf-8"
       ELSE UNCHANGED <<buffers, encoding>>
    /\ stream' = [stream EXCEPT !.part = <<>>]
    /\ NextChunk
    /\ UNCHANGED <<doc, join, proc, str>>

(***************************************************************************)
(* Joining: the token is begun in the first buffer, and left bytes of it   *)
(* are still to be read.                                                   *)
(***************************************************************************)
Total == Len(FlattenSeq(buffers))

WorkerBegin ==
    /\ ~Feeding /\ join.buffer = 0
    /\ str' = [data |-> <<>>, size |-> Total + 1, over |-> FALSE]
    /\ join' = [join EXCEPT !.buffer = 1, !.left = Total]
    /\ UNCHANGED <<doc, feed, encoding, stream, buffers, proc>>

Joining == join.buffer \in 1 .. Len(buffers)
Part == SubSeq(buffers[join.buffer], 1, Min({join.left, Len(buffers[join.buffer])}))
LastBuffer == join.left <= Len(buffers[join.buffer])
Advance == join' = [join EXCEPT !.buffer = @ + 1, !.left = @ - Len(Part), !.offset = 0]
Finish == join' = [join EXCEPT !.buffer = Len(buffers) + 1]

(* myhtml_parser_token_data_to_string, _lowercase: a buffer at a time. *)
JoinBuffer ==
    /\ Joining /\ ~WithReferences
    /\ \E skip \in {before_append_any_preprocessing(Part, join.save)} :
       \E part \in {append_with_preprocessing(str, proc.res, SubSeq(Part, skip + 1, Len(Part)))} :
         /\ str' = IF Part = <<>> THEN str ELSE part.str
         /\ proc' = IF Part = <<>> THEN proc ELSE [proc EXCEPT !.res = part.res]
         /\ IF LastBuffer THEN Finish
            ELSE join' = [join EXCEPT !.buffer = @ + 1, !.left = @ - Len(Part),
                                      !.save = IF Part = <<>> THEN @ ELSE part.pos]
    /\ UNCHANGED <<doc, feed, encoding, stream, buffers>>

(***************************************************************************)
(* References: one action per state of myhtml_data_process.  The states    *)
(* read Part from join.offset on; what they append goes through the same   *)
(* preprocessing as any text.                                              *)
(***************************************************************************)
Processing(state) == Joining /\ WithReferences /\ join.offset < Len(Part) /\ proc.state = state
Here == Part[join.offset + 1]
GoTo(offset) == join' = [join EXCEPT !.offset = offset]
Same == UNCHANGED <<doc, feed, encoding, stream, buffers>>

(* MyHTML_DATA_PROCESS_APPEND_WITH_PREPROCESSING of these bytes. *)
WithPart(p, part) == [any |-> TRUE, proc |-> [p EXCEPT !.res = part.res, !.tmp_str_pos_proc = part.pos],
                      str |-> part.str]
Appended(p, s, bytes) ==
    LET skip == before_append_any_preprocessing(bytes, p.tmp_str_pos_proc)
    IN IF Len(bytes) = skip THEN [proc |-> p, str |-> s, any |-> FALSE]
       ELSE WithPart(p, append_with_preprocessing(s, p.res, SubSeq(bytes, skip + 1, Len(bytes))))

(* The bytes of the piece from join.offset up to here; memory goes on behind it. *)
Upto(to, byte) == [i \in 1 .. to - join.offset |->
                     IF join.offset + i <= Len(Part) THEN Part[join.offset + i] ELSE byte]

state_data ==
    /\ Processing("data")
    /\ \E to \in {Min({Len(Part)} \cup {i \in join.offset .. Len(Part) - 1 : Part[i + 1] = Ampersand})} :
       \E part \in {Appended(proc, str, SubSeq(Part, join.offset + 1, to))} :
         IF to = Len(Part) THEN proc' = part.proc /\ str' = part.str /\ GoTo(to)
         ELSE /\ proc' = [part.proc EXCEPT !.state = "ampersand",
                                           !.tmp_str_pos = Len(part.str.data),
                                           !.res = IF part.any THEN result_clean ELSE @]
              /\ str' = append_char(part.str, Ampersand)
              /\ GoTo(to + 1)
    /\ Same

Hash == 35
Hex == {120, 88}
Digits(base) == 48 .. 57 \cup (IF base = 16 THEN 65 .. 70 \cup 97 .. 102 ELSE {})
Value(byte) == CASE byte <= 57 -> byte - 48 [] byte \in 65 .. 70 -> byte - 55 [] OTHER -> byte - 87

state_ampersand ==
    /\ Processing("ampersand")
    /\ \/ /\ Here = Hash
          /\ \E hex \in {join.offset + 2 <= Len(Part) /\ Part[join.offset + 2] \in Hex} :
               /\ proc' = [proc EXCEPT !.tmp_num = 0, !.state = CASE hex -> "hash_x_data"
                             [] join.offset + 1 = Len(Part) -> "hash"
                             [] OTHER -> "hash_data"]
               /\ str' = IF hex THEN append_char(append_char(str, Hash), Part[join.offset + 2])
                         ELSE append_char(str, Hash)
               /\ GoTo(join.offset + IF hex THEN 2 ELSE 1)
       \/ /\ Here # Hash /\ get_first_position(Here) = Null
          /\ proc' = [proc EXCEPT !.state = "data", !.charef_res.last = Null, !.charef_res.curr = Null]
          /\ UNCHANGED <<str, join>>
       \/ /\ Here # Hash /\ get_first_position(Here) # Null
          /\ proc' = [proc EXCEPT !.state = "ampersand_data", !.charef_res.last = Null,
                                  !.charef_res.curr = get_first_position(Here)]
          /\ str' = append_char(str, Here)
          /\ GoTo(join.offset + 1)
    /\ Same

AlphaNumeric == 48 .. 57 \cup 65 .. 90 \cup 97 .. 122
Characters(codes) == FlattenSeq([i \in DOMAIN codes |-> codepoint_to_utf_8(codes[i])])

(* In myhtml/charef_resource.h a name stands for at most two code points, *)
(* of three bytes each if there are two.                                  *)
ASSUME CharactersAssumption ==
    \A name \in DOMAIN Names : Names[name] \in Seq(Nat) /\ Len(Characters(Names[name])) <= 6

(* The bytes that were taken for a name, as text. *)
AsText(found, to, byte) == Appended([proc EXCEPT !.charef_res = found.res], str, Upto(to, byte))

(* The piece ends before the name does. *)
NameGoesOn(found, byte) ==
    /\ ~found.done
    /\ \E part \in {AsText(found, found.offset, byte)} : proc' = part.proc /\ str' = part.str
    /\ GoTo(found.offset)

(* What a name without its semicolon stands for in the value of an attribute. *)
ValueGoesOn(next) == doc.kind = "value" /\ (next = 61 \/ next \in AlphaNumeric)
NameInValue(found, next, byte) ==
    /\ found.done /\ ValueGoesOn(next)
    /\ \E part \in {AsText(found, found.offset, byte)} :
         proc' = [part.proc EXCEPT !.state = "data"] /\ str' = part.str
    /\ GoTo(found.offset)

NoName(found, to, byte) ==
    \E part \in {AsText(found, to, byte)} :
      /\ str' = part.str
      /\ proc' = [part.proc EXCEPT !.state = "data", !.charef_res.last = Null]
NamePut(found, bytes) ==
    /\ str' = Terminated(Put(Need(str, 5, 0), proc.tmp_str_pos, bytes))
    /\ proc' = [proc EXCEPT !.state = "data", !.tmp_str_pos = @ + Len(bytes),
                            !.charef_res = [found.res EXCEPT !.last = Null]]
NameEnds(found, next, byte) ==
    /\ found.done /\ ~ValueGoesOn(next)
    /\ \E to \in {found.offset + IF next = Semicolon THEN 1 ELSE 0} :
         /\ IF Codepoints(found.entry) = <<>> THEN NoName(found, to, byte)
            ELSE NamePut(found, Characters(Codepoints(found.entry)))
         /\ GoTo(to)

(* The byte behind the name is read, at a place that need not lie in the   *)
(* piece at hand: last_offset may be one of an earlier piece.              *)
state_ampersand_data ==
    /\ Processing("ampersand_data")
    /\ \E found \in {find_by_pos(Part, join.offset, proc.charef_res)}, byte \in Behind :
       \E next \in {IF found.offset < Len(Part) THEN Part[found.offset + 1] ELSE byte} :
         NameGoesOn(found, byte) \/ NameInValue(found, next, byte) \/ NameEnds(found, next, byte)
    /\ Same

state_ampersand_hash ==
    /\ Processing("hash")
    /\ \/ /\ Here \in Hex
          /\ proc' = [proc EXCEPT !.state = "hash_x_data"]
          /\ str' = append_char(str, Here)
          /\ GoTo(join.offset + 1)
       \/ /\ Here \notin Hex
          /\ proc' = [proc EXCEPT !.state = "hash_data"]
          /\ UNCHANGED <<str, join>>
    /\ Same

(* replacement_character: the controls of windows-1252, and null. *)
Windows1252 == <<8364, 129, 8218, 402, 8222, 8230, 8224, 8225, 710, 8240, 352, 8249, 338, 141, 381, 143,
                 144, 8216, 8217, 8220, 8221, 8226, 8211, 8212, 732, 8482, 353, 8250, 339, 157, 382, 376>>
Replacement(number) ==
    CASE number = 0 \/ number \in 55296 .. 57343 \/ number > 1114111 -> ReplacementCharacter
      [] number \in 128 .. 159 -> Windows1252[number - 127]
      [] OTHER -> number

(* myhtml_data_process_state_end: the number takes the place of the reference. *)
NumberPut(s, number) ==
    Terminated(Put(Need(s, 5, 0), proc.tmp_str_pos, codepoint_to_utf_8(Replacement(number))))

(* Digits up to here; beyond the largest code point they are not counted. *)
AddDigit(base, number, byte) == IF number <= 1114111 THEN number * base + Value(byte) ELSE number

(* The piece ends before the number does. *)
NumberGoesOn(to, number) ==
    /\ to = Len(Part)
    /\ \E part \in {Appended(proc, str, SubSeq(Part, join.offset + 1, to))} :
         proc' = [part.proc EXCEPT !.tmp_num = number] /\ str' = part.str
    /\ GoTo(to)

(* No digit comes first: what is in the string stays there. *)
NoNumber(to) ==
    /\ to < Len(Part) /\ to = join.offset
    /\ proc' = [proc EXCEPT !.state = "data"]
    /\ UNCHANGED <<str, join>>

NumberEnds(to, number) ==
    /\ to < Len(Part) /\ to > join.offset
    /\ str' = NumberPut(str, number)
    /\ proc' = [proc EXCEPT !.state = "data", !.tmp_num = Replacement(number)]
    /\ GoTo(to + IF Part[to + 1] = Semicolon THEN 1 ELSE 0)

NumberData(state, base) ==
    /\ Processing(state)
    /\ \E to \in {Min({Len(Part)} \cup {i \in join.offset .. Len(Part) - 1 : Part[i + 1] \notin Digits(base)})} :
       \E number \in {FoldLeft(LAMBDA n, byte : AddDigit(base, n, byte), proc.tmp_num,
                               SubSeq(Part, join.offset + 1, to))} :
         NumberGoesOn(to, number) \/ NoNumber(to) \/ NumberEnds(to, number)
    /\ Same

state_ampersand_hash_data == NumberData("hash_data", 10)
state_ampersand_hash_x_data == NumberData("hash_x_data", 16)

NextBuffer ==
    /\ Joining /\ WithReferences /\ join.offset >= Len(Part) /\ ~LastBuffer
    /\ Advance
    /\ UNCHANGED <<proc, str>>
    /\ Same

(* myhtml_data_process_end: a reference the end of the token ends. *)
process_end ==
    /\ Joining /\ WithReferences /\ join.offset >= Len(Part) /\ LastBuffer
    /\ \E codes \in {Codepoints(proc.charef_res.last)} :
         str' = CASE proc.state = "ampersand_data" /\ proc.charef_res.last # Null ->
                       Terminated(Put(Need(str, 5, 0), proc.tmp_str_pos, Characters(codes)))
                  [] proc.state = "hash_data" /\ Len(str.data) # proc.tmp_str_pos + 2 ->
                       NumberPut(str, proc.tmp_num)
                  [] proc.state = "hash_x_data" /\ Len(str.data) # proc.tmp_str_pos + 3 ->
                       NumberPut(str, proc.tmp_num)
                  [] OTHER -> str
    /\ Finish
    /\ UNCHANGED proc
    /\ Same

Done == join.buffer > Len(buffers) /\ ~Feeding /\ join.buffer > 0

(***************************************************************************)
(* The specification.                                                      *)
(***************************************************************************)
(* The places n chunks may end at, and the chunks. *)
Ends(bytes, n) == {ends \in [1 .. n -> DOMAIN bytes] :
                     ends[n] = Len(bytes) /\ \A i \in 2 .. n : ends[i - 1] < ends[i]}
Cut(bytes, ends) ==
    [i \in DOMAIN ends |-> SubSeq(bytes, IF i = 1 THEN 1 ELSE ends[i - 1] + 1, ends[i])]

Init ==
    /\ \E text \in Texts, n \in 1 .. MaxChunks :
       \E bytes \in {FlattenSeq([i \in DOMAIN text.chars |-> text.chars[i].bytes])} :
       \E ends \in Ends(bytes, n) :
         doc = [encoding |-> text.encoding, kind |-> text.kind, chars |-> text.chars,
                chunks |-> Cut(bytes, ends)]
    /\ feed = [chunk |-> 1, at |-> 0, func |-> "none"]
    /\ encoding = doc.encoding
    /\ stream = [res |-> result_clean, length |-> 0, part |-> <<>>]
    /\ buffers = <<>>
    /\ join = [buffer |-> 0, offset |-> 0, left |-> 0, save |-> 0]
    /\ proc = [state |-> "data", tmp_str_pos |-> 0, tmp_num |-> 0, tmp_str_pos_proc |-> 0,
               res |-> result_clean, charef_res |-> [curr |-> Null, last |-> Null, last_offset |-> 0]]
    /\ str = [data |-> <<>>, size |-> 0, over |-> FALSE]

(* The token is read. *)
Finished == Done /\ UNCHANGED vars

Next ==
    \/ Chunk \/ StreamBegin \/ StreamByte \/ StreamEnd
    \/ WorkerBegin \/ JoinBuffer \/ NextBuffer
    \/ state_data \/ state_ampersand \/ state_ampersand_data \/ state_ampersand_hash
    \/ state_ampersand_hash_data \/ state_ampersand_hash_x_data
    \/ process_end
    \/ Finished

Spec == Init /\ [][Next]_vars
=============================================================================
