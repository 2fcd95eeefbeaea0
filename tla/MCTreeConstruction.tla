------------------------- MODULE MCTreeConstruction -------------------------
EXTENDS TreeConstruction

Tag(tag, close, self, attr) ==
    [tag |-> tag, close |-> close, self |-> self, attr |-> attr, text |-> <<>>,
     ws |-> FALSE, null |-> FALSE]
Start(tag) == Tag(tag, FALSE, FALSE, {})
With(tag, attr) == Tag(tag, FALSE, FALSE, {attr})
Self(tag) == Tag(tag, FALSE, TRUE, {})
End(tag) == Tag(tag, TRUE, FALSE, {})
Comment == Start("_COMMENT")
Doctype == With("_DOCTYPE", "html")

(* The tokenizer's flags: a second null is not taken for a space. *)
TextOf(text) ==
    LET nulls == {i \in DOMAIN text : text[i] = "null"}
    IN  [tag |-> "_TEXT", close |-> FALSE, self |-> FALSE, attr |-> {}, text |-> text,
         ws |-> Cardinality(nulls) < 2
                /\ \A i \in DOMAIN text : IsSpace(text[i]) \/ i \in nulls,
         null |-> nulls # {}]
Space == TextOf(<<"ws">>)
Char  == TextOf(<<"x">>)
Mixed == TextOf(<<"ws", "x">>)

Starts(tags) == {Start(tag) : tag \in tags}
Ends(tags)   == {End(tag) : tag \in tags}
Doc(tokens, size) ==
    [tokens |-> tokens, size |-> size, fragment |-> Null, threaded |-> TRUE]
OneThread(document) == [document EXCEPT !.threaded = FALSE]
FragmentOf(tag, tokens, size) ==
    [tokens |-> tokens, size |-> size, threaded |-> TRUE,
     fragment |-> [tag |-> tag, ns |-> "html", attr |-> {}]]

HeadDoc == Doc(Starts({"html", "head", "title", "template", "frameset"})
                 \cup Ends({"head", "template"}) \cup {Doctype, Comment, Mixed}, 4)
AfterDoc == Doc(Starts({"p", "meta"}) \cup {With("html", "id"), With("body", "id"), Comment, Mixed, Space}
                  \cup Ends({"body", "html"}), 4)
NoscriptDoc == Doc(Starts({"noscript", "link", "style", "body"}) \cup Ends({"noscript", "head", "style"})
                     \cup {Char, Comment}, 4)
FramesDoc == Doc(Starts({"frameset", "frame", "noframes", "p"})
                   \cup Ends({"frameset", "html", "noframes"}) \cup {Comment, Mixed}, 4)
TableDoc == Doc(Starts({"table", "tr", "td", "b"}) \cup Ends({"table", "td"}) \cup {Mixed}, 5)
PartsDoc == Doc(Starts({"table", "caption", "col", "form", "a"}) \cup Ends({"caption", "colgroup", "a"})
                  \cup {With("input", "hidden"), Space}, 4)
FormatDoc == Doc(Starts({"a", "b", "p"}) \cup Ends({"a", "b", "p"}) \cup {Char}, 5)
NestedDoc == Doc(Starts({"table", "td", "a", "div"}) \cup Ends({"a", "table"}), 6)
ObjectDoc == Doc(Starts({"object", "b", "button", "nobr"}) \cup Ends({"object", "b", "button"}), 5)
SelectDoc == Doc(Starts({"table", "td", "select", "option", "input", "template"})
                   \cup Ends({"select", "template", "td"}), 4)
TemplateDoc == Doc(Starts({"template", "tr", "td", "div", "caption", "col"}) \cup Ends({"template", "tr"})
                     \cup {Char}, 4)
ForeignDoc == Doc(Starts({"svg", "desc", "p", "table"}) \cup {Self("svg"), With("font", "color")}
                    \cup Ends({"svg", "p", "desc"}), 4)
MathDoc == Doc(Starts({"math", "mi", "svg", "b", "mglyph"}) \cup {With("annotation-xml", "encoding")}
                 \cup Ends({"math", "mi"}), 4)
ListDoc == Doc(Starts({"li", "ul", "dd", "h1", "form", "p"}) \cup Ends({"li", "h1", "form"}), 4)
RawDoc == Doc(Starts({"textarea", "pre", "select", "iframe", "plaintext"}) \cup Ends({"textarea", "iframe"})
                \cup {TextOf(<<"nl">>), TextOf(<<"nl", "x">>)}, 4)
RowFragment == FragmentOf("tr", Starts({"td", "th", "tr", "table", "b"}) \cup Ends({"td", "tr"}) \cup {Char}, 4)
TemplateFragment == FragmentOf("template", Starts({"td", "p", "template", "select"}) \cup Ends({"template", "td"}), 4)
SelectFragment == FragmentOf("select", Starts({"option", "select", "input", "p"}) \cup Ends({"select"}) \cup {Char}, 4)
FramesetFragment == FragmentOf("frameset", Starts({"frame", "frameset"}) \cup Ends({"frameset"}) \cup {Space}, 4)
SingleDoc == OneThread(Doc(Starts({"select", "title", "style", "svg", "template", "table"})
                             \cup Ends({"title", "style", "select", "svg"}) \cup {Self("title"), Char}, 4))
AllDocuments == {SingleDoc, HeadDoc, AfterDoc, NoscriptDoc, FramesDoc, TableDoc, PartsDoc, FormatDoc, NestedDoc, ObjectDoc,
   SelectDoc, TemplateDoc, ForeignDoc, MathDoc, ListDoc, RawDoc, RowFragment, TemplateFragment, SelectFragment, FramesetFragment}
=============================================================================
