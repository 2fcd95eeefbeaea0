----------------------------- MODULE Encodings -----------------------------
(***************************************************************************)
(* The character decoders of myencoding/encoding.c.  A decoder is called   *)
(* with one byte and with the record res it left behind at the byte        *)
(* before; it answers with a status and the record.  Its callers use       *)
(* res.result when, and only when, the status is OK.                       *)
(*                                                                         *)
(* The conversion tables are data: a table is an injective map from its    *)
(* pointers to characters, the pointers are computed as in the code.       *)
(* result_aux, which nobody reads, is left out.                            *)
(***************************************************************************)
EXTENDS Integers, Sequences, FiniteSetsExt

CONSTANTS
    Ranges,     \* rows <<pointer, code point>> of the table of gb18030's four-byte characters
    Composed    \* the pointers of big5 that stand for two code points

ASSUME RangesAssumption ==
    /\ Len(Ranges) > 0 /\ Ranges[1][1] = 0
    /\ \A i, j \in DOMAIN Ranges : i < j => Ranges[i][1] < Ranges[j][1]

Jis0208 == "jis0208"
Jis0212 == "jis0212"

(* The character of a table at a pointer. *)
Mapped(table, pointer) == (IF table = Jis0212 THEN 31488 ELSE 19968) + pointer

(* The first code point of a composed character of big5 (all have an E). *)
ComposedBase == 202

result_clean == [first |-> 0, second |-> 0, third |-> 0, flag |-> 0, result |-> 0]

Answer(status, res) == [status |-> status, res |-> res]
Ok(res, code) == Answer("ok", [res EXCEPT !.result = code])
Continue(res) == Answer("continue", res)
Error(res) == Answer("error", res)

(***************************************************************************)
(* UTF-8: flag is the number of bytes needed, third the number seen, first *)
(* and second the bounds of the next byte.  A code point that is computed  *)
(* to be negative is a huge one in the program.                            *)
(***************************************************************************)
Utf8Lead(data, needed, base, res) ==
    Continue([res EXCEPT !.flag = needed, !.result = (data - base) * 64 ^ needed])

decode_utf_8(data, res) ==
    LET seen == res.third + 1
        code == res.result + (data - 128) * 64 ^ (res.flag - seen)
    IN CASE res.flag = 0 /\ data <= 127 -> Ok(res, data)
         [] res.flag = 0 /\ data \in 194 .. 223 -> Utf8Lead(data, 1, 192, res)
         [] res.flag = 0 /\ data \in 224 .. 239 ->
              Utf8Lead(data, 2, 224, [res EXCEPT !.first = IF data = 224 THEN 160 ELSE @,
                                                 !.second = IF data = 237 THEN 159 ELSE @])
         [] res.flag = 0 /\ data \in 240 .. 244 ->
              Utf8Lead(data, 2, 240, [res EXCEPT !.first = IF data = 240 THEN 144 ELSE @,
                                                 !.second = IF data = 244 THEN 143 ELSE @])
         [] res.flag = 0 -> Error(res)
         [] OTHER ->
              IF data < res.first /\ data > res.second
              THEN Answer("done", [result_clean EXCEPT !.first = 128, !.second = 191])
              ELSE IF seen # res.flag
              THEN Continue([res EXCEPT !.first = 128, !.second = 191, !.third = seen, !.result = code])
              ELSE Ok([res EXCEPT !.first = 128, !.second = 191, !.third = 0, !.flag = 0], code)

(* The encodings of one byte per character: a table for the upper half. *)
decode_single(data, res) == Ok(res, IF data <= 127 THEN data ELSE 896 + data)

decode_x_user_defined(data, res) == Ok(res, IF data <= 127 THEN data ELSE 63360 + data - 128)

(***************************************************************************)
(* GB18030 and GBK.                                                        *)
(***************************************************************************)
(* The code subtracts the number of the row, where the row's pointer is meant. *)
gb18030_ranges_code_point(pointer) ==
    LET rows == {i \in DOMAIN Ranges : Ranges[i][1] <= pointer}
        row == CHOOSE i \in rows : \A j \in rows : j <= i
    IN CASE (pointer > 39419 /\ pointer < 189000) \/ pointer > 1237575 -> 0
         [] pointer = 7457 -> 59335
         [] OTHER -> Ranges[row][2] + pointer - (row - 1)

decode_gb18030(data, res) ==
    LET four == (((res.first - 129) * 10 + res.second - 48) * 126 + res.third - 129) * 10 + data - 48
        code == IF data \in 48 .. 57 THEN gb18030_ranges_code_point(four) ELSE res.result
        cleared == [res EXCEPT !.first = 0, !.second = 0, !.third = 0]
        pointer == (res.first - 129) * 190 + data - (IF data < 127 THEN 64 ELSE 65)
    IN CASE res.third # 0 -> IF code # 0 THEN Ok(cleared, code) ELSE Error([cleared EXCEPT !.result = code])
         [] res.third = 0 /\ res.second # 0 ->
              IF data \in 129 .. 254 THEN Continue([res EXCEPT !.third = data]) ELSE Error(cleared)
         [] res.third = 0 /\ res.second = 0 /\ res.first # 0 ->
              IF data \in 48 .. 57 THEN Continue([res EXCEPT !.second = data])
              ELSE IF data \in 64 .. 126 \cup 128 .. 254 THEN Ok(cleared, Mapped("gb18030", pointer))
              ELSE Error(cleared)
         [] OTHER ->
              CASE data <= 127 -> Ok(res, data)
                [] data = 128 -> Ok(res, 8364)
                [] data \in 129 .. 254 -> Continue([res EXCEPT !.first = data])
                [] OTHER -> Error(res)

(***************************************************************************)
(* The encodings of at most two bytes per character, EUC-JP three.         *)
(***************************************************************************)
(* A byte that is no trail byte: an ASCII character, a lead byte, or nothing. *)
Start(data, leads, res) ==
    CASE data <= 127 -> Ok(res, data)
      [] data \in leads -> Continue([res EXCEPT !.first = data])
      [] OTHER -> Error(res)

decode_big5(data, res) ==
    LET cleared == [res EXCEPT !.first = 0]
        pointer == IF data \in 64 .. 126 \cup 161 .. 254
                   THEN (res.first - 129) * 157 + data - (IF data < 127 THEN 64 ELSE 98) ELSE 0
    IN CASE res.first = 0 -> Start(data, 129 .. 254, res)
         [] res.first # 0 /\ pointer \in Composed -> Ok(cleared, ComposedBase)
         [] res.first # 0 /\ pointer = 0 -> Error(cleared)
         [] OTHER -> Ok(cleared, Mapped("big5", pointer))

decode_euc_jp(data, res) ==
    LET cleared == [res EXCEPT !.first = 0]
        table == IF res.flag = 1 THEN Jis0212 ELSE Jis0208
    IN CASE res.first = 142 /\ data \in 161 .. 223 -> Ok(cleared, 65377 + data - 161)
         [] res.first = 143 /\ data \in 161 .. 254 -> Continue([res EXCEPT !.flag = 1, !.first = data])
         [] res.first \in 161 .. 254 /\ data \in 161 .. 254 ->
              Ok([cleared EXCEPT !.flag = 0], Mapped(table, (res.first - 161) * 94 + data - 161))
         [] OTHER -> Start(data, {142, 143} \cup 161 .. 254, cleared)

(* Once a lead byte is seen it is never forgotten. *)
decode_shift_jis(data, res) ==
    LET pointer == IF data \in 64 .. 126 \cup 128 .. 252
                   THEN (res.first - (IF res.first < 160 THEN 129 ELSE 193)) * 188
                        + data - (IF data < 127 THEN 64 ELSE 65) ELSE 0
    IN CASE res.first # 0 -> IF pointer = 0 THEN Error([res EXCEPT !.result = 0])
                             ELSE Ok(res, Mapped(Jis0208, pointer))
         [] res.first = 0 /\ data = 128 -> Ok(res, data)
         [] res.first = 0 /\ data \in 161 .. 223 -> Ok(res, 65377 + data - 161)
         [] OTHER -> Start(data, 129 .. 159 \cup 224 .. 252, res)

(* At pointer 0 the character before is repeated. *)
decode_euc_kr(data, res) ==
    LET pointer == IF data \in 65 .. 254 THEN (res.first - 129) * 190 + data - 65 ELSE 0
        code == IF pointer # 0 THEN Mapped("euc_kr", pointer) ELSE res.result
        cleared == [res EXCEPT !.first = 0]
    IN CASE res.first = 0 -> Start(data, 129 .. 254, res)
         [] res.first # 0 /\ code # 0 -> Ok(cleared, code)
         [] OTHER -> Error(cleared)

(***************************************************************************)
(* ISO-2022-JP: second is the state, third the state an escape sequence    *)
(* chose, flag says that the last thing was an escape sequence.            *)
(***************************************************************************)
Escape == 27
OneByte(code, legal, data, res) ==
    CASE data = Escape -> Continue([res EXCEPT !.second = 6])
      [] data \in legal -> Ok([res EXCEPT !.flag = 0], code)
      [] OTHER -> Error([res EXCEPT !.flag = 0])

EscapedState(lead, data) ==
    CASE lead = 40 /\ data = 66 -> 0
      [] lead = 40 /\ data = 74 -> 1
      [] lead = 40 /\ data = 73 -> 2
      [] lead = 36 /\ data \in {64, 66} -> 4
      [] OTHER -> 0

(* State 0 is both "to ASCII" and "no such sequence"; state 2, which the *)
(* sequence for Katakana chooses, has no case of its own: it answers OK. *)
decode_iso_2022_jp(data, res) ==
    LET roman == CASE data = 92 -> 165 [] data = 126 -> 8254 [] OTHER -> data
        chosen == EscapedState(res.first, data)
        left == [res EXCEPT !.first = 0]
    IN CASE res.second = 0 -> OneByte(data, 0 .. 127 \ {14, 15}, data, res)
         [] res.second = 1 -> OneByte(roman, 0 .. 127 \ {14, 15}, data, res)
         [] res.second = 2 -> Ok(res, res.result)
         [] res.second = 4 ->
              IF data = Escape THEN Continue([res EXCEPT !.second = 6])
              ELSE IF data \in 33 .. 126 THEN Continue([res EXCEPT !.flag = 0, !.first = data, !.second = 5])
              ELSE Error([res EXCEPT !.flag = 0])
         [] res.second = 5 ->
              IF data = Escape THEN Error([res EXCEPT !.second = 6])
              ELSE IF data \in 33 .. 126
              THEN Ok([res EXCEPT !.second = 4], Mapped(Jis0208, (res.first - 33) * 94 + data - 33))
              ELSE Error([res EXCEPT !.second = 4])
         [] res.second = 6 ->
              IF data \in {36, 40} THEN Continue([res EXCEPT !.first = data, !.second = 7])
              ELSE Error([res EXCEPT !.flag = 0, !.second = res.third])
         [] OTHER ->
              IF chosen = 0 THEN Error([left EXCEPT !.flag = 0, !.second = res.third])
              ELSE IF res.flag = 1 THEN Error([left EXCEPT !.second = chosen, !.third = chosen])
              ELSE Continue([left EXCEPT !.second = chosen, !.third = chosen, !.flag = 1])

(***************************************************************************)
(* UTF-16: first is the first byte of a unit, 0 if there is none; second   *)
(* a high surrogate; flag 1 for big-endian.                                *)
(***************************************************************************)
decode_shared_utf_16(data, res) ==
    LET unit == IF res.flag = 1 THEN res.first * 256 + data ELSE data * 256 + res.first
        left == [res EXCEPT !.first = 0]
        byte == IF res.flag = 1 THEN unit \div 256 ELSE unit % 256
    IN CASE res.first = 0 -> Continue([res EXCEPT !.first = data])
         [] res.first # 0 /\ res.second # 0 ->
              IF unit \in 56320 .. 57343
              THEN Ok([left EXCEPT !.second = 0], 65536 + (res.second - 55296) * 1024 + unit - 56320)
              ELSE Answer("done", [left EXCEPT !.second = 0, !.result = byte])
         [] res.first # 0 /\ res.second = 0 /\ unit \in 55296 .. 56319 ->
              Continue([left EXCEPT !.second = unit])
         [] res.first # 0 /\ res.second = 0 /\ unit \in 56320 .. 57343 -> Error(left)
         [] OTHER -> Ok(left, unit)

decode_utf_16be(data, res) == decode_shared_utf_16(data, [res EXCEPT !.flag = 1])
decode_utf_16le(data, res) == decode_shared_utf_16(data, [res EXCEPT !.flag = 0])

(***************************************************************************)
(* The table of decoders, and the UTF-8 bytes of a code point.             *)
(***************************************************************************)
Decode(encoding, data, res) ==
    CASE encoding = "utf-8" -> decode_utf_8(data, res)
      [] encoding = "utf-16le" -> decode_utf_16le(data, res)
      [] encoding = "utf-16be" -> decode_utf_16be(data, res)
      [] encoding = "x-user-defined" -> decode_x_user_defined(data, res)
      [] encoding = "big5" -> decode_big5(data, res)
      [] encoding = "euc-jp" -> decode_euc_jp(data, res)
      [] encoding = "euc-kr" -> decode_euc_kr(data, res)
      [] encoding \in {"gb18030", "gbk"} -> decode_gb18030(data, res)
      [] encoding = "iso-2022-jp" -> decode_iso_2022_jp(data, res)
      [] encoding = "shift_jis" -> decode_shift_jis(data, res)
      [] OTHER -> decode_single(data, res)

Trail(code, n) == 128 + ((code \div 64 ^ n) % 64)
(* The largest code points of one to four bytes; beyond, nothing is written,
   and a code below zero is a size_t beyond. *)
Utf8Limits == <<127, 2047, 65535, 2 ^ 21 - 1>>
Utf8Length(code) ==
    LET enough == {n \in 1 .. 4 : 0 <= code /\ code <= Utf8Limits[n]}
    IN IF enough = {} THEN 0 ELSE Min(enough)
Lead == <<0, 192, 224, 240>>
codepoint_to_utf_8(code) ==
    LET n == Utf8Length(code)
    IN [i \in 1 .. n |-> IF i = 1 THEN Lead[n] + code \div 64 ^ (n - 1) ELSE Trail(code, n - i)]
=============================================================================
