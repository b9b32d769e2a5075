---------------------------- MODULE MCFeedParser -----------------------------
(***************************************************************************)
(* FeedParser on every document with a root of each format, version and    *)
(* namespace and up to two children, a channel with up to two children     *)
(* among them.  A child is in the namespace of its root, or in another.    *)
(***************************************************************************)
EXTENDS FeedParser

LeafOf(name, uri, text) == [name |-> name, ns |-> uri, text |-> text, children |-> <<>>]

Leaves(uri) ==
    {LeafOf(name, uri, text) : name \in {"title", "item", "entry"}, text \in {"a", "b"}}
        \cup {LeafOf("title", "other", "c"), LeafOf("creator", DC_URI, "d")}

UpToTwo(S) == UNION {[1 .. n -> S] : n \in 0 .. 2}

ChannelLeaves(uri) == {n \in Leaves(uri) : n.name # "entry" /\ n.text # "b"}

ChildrenIn(uri) ==
    UpToTwo(Leaves(uri) \cup
            {[name |-> "channel", ns |-> uri, text |-> "", children |-> c] :
               c \in UpToTwo(ChannelLeaves(uri))})

Roots ==
    {<<"rss", version, uri>> : version \in {"0.91", "1.0", "2.0", "3.0"},
                               uri \in {NULL, RSS20USERLAND_URI, "other"}}
        \cup {<<"RDF", NULL, uri>> : uri \in {RSS_1_0_NS, "other"}}
        \cup {<<"feed", version, uri>> : version \in {NULL, "0.3"},
                                         uri \in {NULL, ATOM_0_3_URI, ATOM_1_0_URI, "other"}}
        \cup {<<"rss", version, NULL>> : version \in {NULL, "0.92", "0.94", "2"}}
        \cup {<<"html", NULL, NULL>>}

MCDocuments ==
    {NoRoot} \cup
    UNION {{[name |-> r[1], version |-> r[2], ns |-> r[3], children |-> c] : c \in ChildrenIn(r[3])} :
             r \in Roots}
=============================================================================
