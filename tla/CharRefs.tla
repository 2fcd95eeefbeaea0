------------------------------ MODULE CharRefs ------------------------------
(***************************************************************************)
(* The names of the character references (myhtml/charef.c).  The resource  *)
(* is a search tree whose nodes are the beginnings of names; a node is     *)
(* written here as that beginning.  A text is looked up piece by piece:    *)
(* the result keeps the node reached (curr), the last node that was a name *)
(* (last), and where that name ended (last_offset), which is a place in    *)
(* the piece that was being read at that time.                             *)
(***************************************************************************)
EXTENDS Integers, Sequences, FiniteSetsExt

CONSTANT Names      \* from names (sequences of bytes) to the code points they stand for

Ampersand == 38
Semicolon == 59

(* A name goes on or ends in a semicolon, and a semicolon ends it. *)
ASSUME NamesAssumption ==
    \A name \in DOMAIN Names :
        /\ Len(name) > 1 /\ Names[name] # <<>>
        /\ \A i \in 1 .. Len(name) : name[i] # Ampersand /\ (name[i] = Semicolon => i = Len(name))
        /\ name[Len(name)] = Semicolon
           \/ \E longer \in DOMAIN Names : Len(longer) > Len(name) /\ SubSeq(longer, 1, Len(name)) = name

Entries == UNION {{SubSeq(name, 1, n) : n \in 1 .. Len(name)} : name \in DOMAIN Names}
Null == <<>>
Codepoints(entry) == IF entry \in DOMAIN Names THEN Names[entry] ELSE <<>>

(* myhtml_charef_get_first_position: the node of a first letter, or Null. *)
get_first_position(letter) == IF <<letter>> \in Entries THEN <<letter>> ELSE Null

Found(done, entry, offset, res) == [done |-> done, entry |-> entry, offset |-> offset, res |-> res]

(* The last name seen, and the place where it ended; otherwise Null, here. *)
LastOf(res, offset) == IF res.last # Null THEN Found(TRUE, res.last, res.last_offset, res)
                       ELSE Found(TRUE, Null, offset, res)

(***************************************************************************)
(* myhtml_charef_find_by_pos: goes on from res.curr with data[offset ..].  *)
(* It is done at a semicolon, at an ampersand, and where no name goes on;  *)
(* it is not done at the end of the data.                                  *)
(***************************************************************************)
find_by_pos(data, offset, res) ==
    LET node(n) == res.curr \o SubSeq(data, offset + 1, offset + n)
        matched == Max({n \in 0 .. Len(data) - offset :
                           n = 0 \/ (node(n) \in Entries /\ data[offset + n] # Semicolon)})
        at == offset + matched
        named == {n \in 1 .. matched : node(n) \in DOMAIN Names}
        seen == IF named = {} THEN res
                ELSE [res EXCEPT !.last = node(Max(named)), !.last_offset = offset + Max(named)]
    IN IF at = Len(data) THEN Found(FALSE, node(matched), at, [seen EXCEPT !.curr = node(matched)])
       ELSE IF data[at + 1] = Semicolon /\ node(matched + 1) \in Entries
       THEN Found(TRUE, node(matched + 1), at, seen)
       ELSE IF matched = 0 /\ data[at + 1] = Ampersand /\ Codepoints(res.curr) # <<>>
       THEN Found(TRUE, res.curr, at, seen)
       ELSE LastOf(seen, at)
=============================================================================
