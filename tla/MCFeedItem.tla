----------------------------- MODULE MCFeedItem ------------------------------
(***************************************************************************)
(* FeedItem on every item of up to three children and every entry of up to *)
(* two.  A text is empty, a date or no date; an author beside other        *)
(* children is one of those below, an author alone up to four characters.  *)
(* Positions wrap at 2^16: all that matters is that no text is as long.    *)
(***************************************************************************)
EXTENDS FeedItem

Child(name, text) == [name |-> name, text |-> text, inside |-> <<>>, mode |-> "", type |-> ""]
UpTo(n, S) == UNION {[1 .. k -> S] : k \in 0 .. n}

Texts == {<<>>, <<"x">>, <<"y">>}
MCDates == {<<"x">>}
MCCharacters == {"x", "y", "(", ")", " ", "asctime", "markup"}
MCAttributes == {"", "text", "html", "xhtml", "enclosure", "self"}

Authors == {<<>>, <<"x">>, <<")">>, <<"(", ")">>, <<"x", ")">>, <<"y", " ", "(", "x", ")">>}

ItemChildren ==
    {Child(name, text) : name \in {"title", "pubDate", "dc:date", "dc:creator"}, text \in Texts}
        \cup {Child(name, text) : name \in {"enclosure", "media:content"}, text \in {<<"x">>, <<"y">>}}
        \cup {[Child("media:group", <<>>) EXCEPT !.inside = inside] :
                inside \in {<<>>, <<<<"x">>>>, <<<<"x">>, <<"y">>>>}}
        \cup {Child("author", text) : text \in Authors}

MCItemNodes ==
    UpTo(3, ItemChildren) \cup {<<Child("author", text)>> : text \in UpTo(4, {"(", ")", " ", "x"})}

EntryChildren ==
    {[Child(name, text) EXCEPT !.mode = mode, !.type = type] :
        name \in {"content", "summary"}, text \in {<<>>, <<"x">>},
        mode \in {"", "xml", "escaped", "base64"}, type \in {"", "html", "xhtml"}}
        \cup {Child(name, text) : name \in {"published", "updated"}, text \in {<<"x">>, <<"y">>}}
        \cup {[Child("link", <<"x">>) EXCEPT !.type = rel] : rel \in {"", "enclosure", "self"}}
        \cup {Child("label", <<"x">>), [Child("author", <<>>) EXCEPT !.inside = <<<<"x">>>>]}

MCEntryNodes == UpTo(2, EntryChildren)
=============================================================================
