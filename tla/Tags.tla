-------------------------------- MODULE Tags --------------------------------
(***************************************************************************)
(* The categories of the elements the tree builder asks for, out of the    *)
(* static table of tags.  The namespaces are "html", "math" and "svg"; the *)
(* document is in no category.                                             *)
(***************************************************************************)

(* The SPECIAL row of HTML elements. *)
SpecialHtml ==
    {"address", "applet", "area", "article", "aside", "base", "basefont",
     "bgsound", "blockquote", "body", "br", "button", "caption", "center", "col",
     "colgroup", "dd", "details", "dir", "div", "dl", "dt", "embed", "fieldset",
     "figcaption", "figure", "footer", "form", "frame", "frameset", "h1", "h2",
     "h3", "h4", "h5", "h6", "head", "header", "hgroup", "hr", "html", "iframe",
     "image", "img", "input", "li", "link", "listing", "main", "marquee", "menu",
     "meta", "nav", "noembed", "noframes", "noscript", "object", "ol", "p",
     "param", "plaintext", "pre", "script", "section", "select", "source",
     "style", "summary", "table", "tbody", "td", "template", "textarea", "tfoot",
     "th", "thead", "title", "tr", "track", "ul", "wbr", "xmp"}

(* The elements of other namespaces that bound a scope; all are SPECIAL. *)
BoundMath == {"mi", "mo", "mn", "ms", "mtext", "annotation-xml"}
BoundSvg  == {"foreignObject", "desc", "title"}

ScopeTable  == {"html", "table", "template"}
Scope       == ScopeTable \cup {"applet", "caption", "marquee", "object", "td", "th"}
ScopeButton == Scope \cup {"button"}
ScopeList   == Scope \cup {"ol", "ul"}
ScopeSelect == {"optgroup", "option"}

CategoryHtml ==
    [SPECIAL |-> SpecialHtml, SCOPE |-> Scope, SCOPE_BUTTON |-> ScopeButton,
     SCOPE_LIST_ITEM |-> ScopeList, SCOPE_TABLE |-> ScopeTable,
     SCOPE_SELECT |-> ScopeSelect]

(* tag_ctx->cats[ns] & category *)
HasCategory(tag, ns, category) ==
    \/ ns = "html" /\ tag \in CategoryHtml[category]
    \/ category \notin {"SCOPE_TABLE", "SCOPE_SELECT"}
       /\ \/ ns = "math" /\ tag \in BoundMath
          \/ ns = "svg" /\ tag \in BoundSvg

(* Tables of cases that several handlers share. *)
ImpliedEnd    == {"dd", "dt", "li", "menuitem", "optgroup", "option", "p", "rb",
                  "rp", "rt", "rtc"}
AllImpliedEnd == (ImpliedEnd \ {"menuitem"}) \cup
                 {"caption", "colgroup", "tbody", "td", "tfoot", "th", "thead", "tr"}
MarkerTags    == {"applet", "button", "object", "marquee", "td", "th", "caption"}
TableBodies   == {"tbody", "tfoot", "thead"}
Cells         == {"td", "th"}
Headings      == {"h1", "h2", "h3", "h4", "h5", "h6"}
Formatting    == {"a", "b", "big", "code", "em", "font", "i", "nobr", "s",
                  "small", "strike", "strong", "tt", "u"}
=============================================================================
