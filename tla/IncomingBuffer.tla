--------------------------- MODULE IncomingBuffer ---------------------------
(***************************************************************************)
(* The chain of buffers a document arrives in (mycore/incoming.c).  A      *)
(* buffer is what the caller passed in one call: its size and the offset   *)
(* of its first byte in the whole document.  A token is a pair of global   *)
(* positions, and whoever wants its text walks the chain.                  *)
(***************************************************************************)
EXTENDS Naturals, SequencesExt, FiniteSetsExt

NoBuffer == 0

Added(chain, size) ==
    Append(chain, [size |-> size,
                   offset |-> IF chain = <<>> THEN 0
                              ELSE Last(chain).offset + Last(chain).size])

(* The walk starts at the first buffer, as every caller has it. *)
FindByPosition(chain, begin) ==
    IF chain[1].offset < begin
    THEN LET reach == {i \in DOMAIN chain : chain[i].offset + chain[i].size >= begin}
         IN  IF reach = {} THEN NoBuffer ELSE Min(reach)
    ELSE IF chain[1].offset = begin THEN 1 ELSE NoBuffer

(* Faulty variant of TakeFrom: every buffer is read from the place the first
   one was. *)
TakeFromSamePlace(doc, walk, buffer) ==
    LET from == buffer.offset + walk.relative_begin
        size == IF walk.relative_begin + walk.length > buffer.size
                THEN buffer.size - walk.relative_begin
                ELSE walk.length
    IN  [walk EXCEPT !.text = @ \o SubSeq(doc, from + 1, from + size), !.length = @ - size]

(* One buffer of the walk: its rest when the text goes on behind it. *)
TakeFrom(doc, walk, buffer) ==
    LET from == buffer.offset + walk.relative_begin
        size == IF walk.relative_begin + walk.length > buffer.size
                THEN buffer.size - walk.relative_begin
                ELSE walk.length
    IN  [text |-> walk.text \o SubSeq(doc, from + 1, from + size),
         length |-> walk.length - size,
         relative_begin |-> 0]

MakeData(doc, chain, begin, length) ==
    LET first == FindByPosition(chain, begin)
    IN  FoldLeft(LAMBDA walk, buffer : TakeFrom(doc, walk, buffer),
                 [text |-> <<>>, length |-> length,
                  relative_begin |-> begin - chain[first].offset],
                 SubSeq(chain, first, Len(chain))).text
=============================================================================
