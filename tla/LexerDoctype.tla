---------------------------- MODULE LexerDoctype ----------------------------
(***************************************************************************)
(* The tokenizer's states for a doctype (myhtml/tokenizer_doctype.c).  The *)
(* name and the identifiers become attributes of the token.  compat_mode   *)
(* is the tree builder's and left out.                                     *)
(***************************************************************************)
EXTENDS LexerText

BeforeDoctypeNameAt(k) ==
    IF At(k) = ">" THEN NewAttr(CloseMarkup(k))
    ELSE Goto(KeyFrom(HoldAttr(k)), "DOCTYPE_NAME")

DoctypeNameAt(k) ==
    IF At(k) = ">" THEN NewAttr(CloseMarkup(KeyTo(k)))
    ELSE Enter(NewAttr(KeyTo(k)), "AFTER_DOCTYPE_NAME")

AfterDoctypeNameAt(k) ==
    IF At(k) = ">" THEN CloseMarkup(k) ELSE Goto(Mark(k), "CUSTOM_AFTER_DOCTYPE_NAME_A_Z")

KeywordLength == Len(PublicWord)     \* and Len(SystemWord)

Keyword(k, next) ==
    LET held == HoldAttr(k)
        word == SetAttr(held, [Attr(held) EXCEPT !.value_begin = k.tok.mark,
                                                 !.value_length = KeywordLength])
    IN  Goto(NewAttr([word EXCEPT !.pos = k.tok.mark + KeywordLength]), next)

CustomAfterDoctypeNameState(k) ==
    LET word == WordAt(k, k.tok.mark, KeywordLength)
        here == ~ Awaits(k, k.tok.mark, KeywordLength)
    IN  CASE ~ here -> WaitForMore(k)
          [] here /\ word = PublicWord -> Keyword(k, "BEFORE_DOCTYPE_PUBLIC_IDENTIFIER")
          [] here /\ word = SystemWord -> Keyword(k, "AFTER_DOCTYPE_PUBLIC_IDENTIFIER")
          [] OTHER -> Goto(k, "BOGUS_DOCTYPE")

IdentifierFrom(k) ==
    SetAttr(k, [Attr(k) EXCEPT !.value_begin = k.pos + 1, !.value_length = 0])

(* Whatever it is, the character is passed. *)
BeforePublicIdentifierAt(k) ==
    CASE At(k) = "\"" -> Enter(IdentifierFrom(k), "DOCTYPE_PUBLIC_IDENTIFIER_DOUBLE_QUOTED")
      [] At(k) = "'" -> Enter(IdentifierFrom(k), "DOCTYPE_PUBLIC_IDENTIFIER_SINGLE_QUOTED")
      [] At(k) = ">" -> CloseMarkup(k)
      [] OTHER -> Enter(k, "BOGUS_DOCTYPE")

AfterPublicIdentifierAt(k) ==
    CASE At(k) = "\"" -> Enter(IdentifierFrom(k), "DOCTYPE_SYSTEM_IDENTIFIER_DOUBLE_QUOTED")
      [] At(k) = "'" -> Enter(IdentifierFrom(k), "DOCTYPE_SYSTEM_IDENTIFIER_SINGLE_QUOTED")
      [] At(k) = ">" -> CloseMarkup(k)
      [] OTHER -> Goto(k, "BOGUS_DOCTYPE")

AfterSystemIdentifierAt(k) ==
    IF At(k) = ">" THEN CloseMarkup(k) ELSE Goto(k, "BOGUS_DOCTYPE")

(* The two functions for the inside of an identifier's quotes are alike but
   for the state that follows. *)
IdentifierAt(k, next) ==
    CASE At(k) # ">" -> Enter(NewAttr(HoldAttr(ValueTo(k))), next)
      [] At(k) = ">" /\ Attr(k).value_begin < k.pos ->
           CloseMarkup(NewAttr(HoldAttr(ValueTo(k))))
      [] OTHER -> CloseMarkup(k)

IdentifierScan(j, next) == IF Exhausted(j) THEN j ELSE IdentifierAt(j, next)

IdentifierState(k, quote, next) == IdentifierScan(Seek(k, {quote, ">"}), next)

BogusDoctypeState(k) == Stops(k, Seek(k, {">"}), CloseMarkup)

DoctypeState(k) ==
    CASE k.state = "DOCTYPE" -> Goto(k, "BEFORE_DOCTYPE_NAME")
      [] k.state = "BEFORE_DOCTYPE_NAME" -> Stops(k, SkipSpace(k), BeforeDoctypeNameAt)
      [] k.state = "DOCTYPE_NAME" -> Stops(k, Seek(k, Space \cup {">"}), DoctypeNameAt)
      [] k.state = "AFTER_DOCTYPE_NAME" -> Stops(k, SkipSpace(k), AfterDoctypeNameAt)
      [] k.state = "CUSTOM_AFTER_DOCTYPE_NAME_A_Z" -> CustomAfterDoctypeNameState(k)
      [] k.state = "BEFORE_DOCTYPE_PUBLIC_IDENTIFIER" ->
           Stops(k, SkipSpace(k), BeforePublicIdentifierAt)
      [] k.state = "DOCTYPE_PUBLIC_IDENTIFIER_DOUBLE_QUOTED" ->
           IdentifierState(k, "\"", "AFTER_DOCTYPE_PUBLIC_IDENTIFIER")
      [] k.state = "DOCTYPE_PUBLIC_IDENTIFIER_SINGLE_QUOTED" ->
           IdentifierState(k, "'", "AFTER_DOCTYPE_PUBLIC_IDENTIFIER")
      [] k.state = "AFTER_DOCTYPE_PUBLIC_IDENTIFIER" ->
           Stops(k, SkipSpace(k), AfterPublicIdentifierAt)
      [] k.state = "DOCTYPE_SYSTEM_IDENTIFIER_DOUBLE_QUOTED" ->
           IdentifierState(k, "\"", "AFTER_DOCTYPE_SYSTEM_IDENTIFIER")
      [] k.state = "DOCTYPE_SYSTEM_IDENTIFIER_SINGLE_QUOTED" ->
           IdentifierState(k, "'", "AFTER_DOCTYPE_SYSTEM_IDENTIFIER")
      [] k.state = "AFTER_DOCTYPE_SYSTEM_IDENTIFIER" ->
           Stops(k, SkipSpace(k), AfterSystemIdentifierAt)
      [] OTHER -> BogusDoctypeState(k)
=============================================================================
