----------------------------- MODULE FeedParser -----------------------------
(***************************************************************************)
(* From a downloaded document to a Podcast: feedpp finds out the format of *)
(* the feed from its root element, creates the parser for it, walks over   *)
(* the children (libraries/feedpp), and Podcast::parseFromXmlStream copies *)
(* the result (podcast.cpp).                                               *)
(*                                                                         *)
(* An element is a record of its name, the namespace it is in, its text    *)
(* and its children.  Of what a parser reads the title, the creator and    *)
(* the items are kept: they are all that Podcast shows.                    *)
(***************************************************************************)
EXTENDS Naturals, Sequences

CONSTANT Documents   \* the root elements of the documents, NoRoot included

\* Nothing reads below the children of a channel but FeedItem.
Leaf == [name : STRING, ns : STRING, text : STRING, children : {<<>>}]
Element == [name : STRING, ns : STRING, text : STRING, children : Seq(Leaf)]

ASSUME FeedParserAssumption ==
    \A root \in Documents :
        /\ {root.name, root.ns, root.version} \subseteq STRING
        /\ root.children \in Seq(Element)

\* Namespaces: NULL, the ones the parsers know, and any other one.
NULL == "NULL"
ATOM_0_3_URI == "atom 0.3"
ATOM_1_0_URI == "atom 1.0"
RSS_1_0_NS == "rss 1.0"
RSS20USERLAND_URI == "userland"
DC_URI == "dc"

\* libxml2 gave no document, or one without a root.
NoRoot == [name |-> "", ns |-> NULL, version |-> NULL, children |-> <<>>]

VARIABLES pc,          \* what the parser does next
          node,        \* the root element
          rss_version, \* feed::rss_version
          todo,        \* the children to walk over: [in |-> parent, node |-> child]
          feed,        \* the title, creator and items found so far
          podcast      \* what Podcast holds in the end

vars == <<pc, node, rss_version, todo, feed, podcast>>

Versions == {"RSS_0_91", "RSS_0_92", "RSS_0_94", "RSS_1_0", "RSS_2_0",
             "ATOM_0_3", "ATOM_1_0", "ATOM_0_3_NONS"}
OtherVersions == {"UNKNOWN", "out of range"}
NoPodcast == [title |-> "", creator |-> "", items |-> <<>>]

-----------------------------------------------------------------------------
(* parser::parse_xmlnode. *)

RssVersion(version) ==
    CASE version \in {"0.91", "1.0"} -> "RSS_0_91"
      [] version = "0.92" -> "RSS_0_92"
      [] version = "0.94" -> "RSS_0_94"
      [] version \in {"2.0", "2"} -> "RSS_2_0"
      [] OTHER -> "exception"

AtomVersion(uri, version) ==
    CASE uri = NULL -> "exception"
      [] uri = ATOM_0_3_URI -> "ATOM_0_3"
      [] uri = ATOM_1_0_URI -> "ATOM_1_0"
      [] uri \notin {NULL, ATOM_0_3_URI, ATOM_1_0_URI} /\ version = "0.3" -> "ATOM_0_3_NONS"
      [] OTHER -> "exception"

\* Any other root leaves rss_version as it is: uninitialised.
VersionOf(root) ==
    CASE root.name = "rss" -> RssVersion(root.version)
      [] root.name = "RDF" -> "RSS_1_0"
      [] root.name = "feed" -> AtomVersion(root.ns, root.version)
      [] OTHER -> "uninitialised"

Fail == pc' = "exception" /\ UNCHANGED <<node, rss_version, todo, feed, podcast>>

NoDocument == pc = "detect" /\ node = NoRoot /\ Fail

InvalidVersion ==
    /\ pc = "detect" /\ node # NoRoot
    /\ VersionOf(node) = "exception"
    /\ Fail

\* An uninitialised version is whatever was in memory.
DetectVersion ==
    /\ pc = "detect" /\ node # NoRoot
    /\ VersionOf(node) # "exception"
    /\ IF VersionOf(node) = "uninitialised"
       THEN rss_version' \in Versions \cup OtherVersions
       ELSE rss_version' = VersionOf(node)
    /\ pc' = "create"
    /\ UNCHANGED <<node, todo, feed, podcast>>

-----------------------------------------------------------------------------
(* factory::get_object and the start of the parsers' parse_feed. *)

In(parent, children) == [i \in DOMAIN children |-> [in |-> parent, node |-> children[i]]]

Channels == {i \in DOMAIN node.children : node.children[i].name = "channel"}
IsFirst(i) == i \in Channels /\ \A j \in Channels : i <= j

Unsupported == pc = "create" /\ rss_version \in OtherVersions /\ Fail

Rss09xVersions == {"RSS_0_91", "RSS_0_92", "RSS_0_94", "RSS_2_0"}
AtomVersions == {"ATOM_0_3", "ATOM_1_0", "ATOM_0_3_NONS"}

NoChannel == pc = "create" /\ rss_version \in Rss09xVersions /\ Channels = {} /\ Fail

\* rss_09x_parser reads the first channel only, the other two the root.
Create ==
    /\ pc = "create"
    /\ \/ /\ rss_version \in Rss09xVersions
          /\ \E i \in Channels : IsFirst(i) /\ todo' = In("channel", node.children[i].children)
       \/ /\ rss_version \in AtomVersions \cup {"RSS_1_0"}
          /\ todo' = In("root", node.children)
    /\ pc' = "walk"
    /\ UNCHANGED <<node, rss_version, feed, podcast>>

-----------------------------------------------------------------------------
(* The loops over the children. *)

\* Mutant of ns: an RSS 2.0 feed is read in whatever namespace its root is.
NsOfRoot ==
    CASE rss_version = "RSS_2_0" -> node.ns
      [] rss_version = "RSS_1_0" -> RSS_1_0_NS
      [] rss_version = "ATOM_0_3" -> ATOM_0_3_URI
      [] rss_version = "ATOM_1_0" -> ATOM_1_0_URI
      [] OTHER -> NULL

\* The namespace a parser looks for.
ns ==
    CASE rss_version = "RSS_2_0" /\ node.ns = RSS20USERLAND_URI -> RSS20USERLAND_URI
      [] rss_version = "RSS_1_0" -> RSS_1_0_NS
      [] rss_version = "ATOM_0_3" -> ATOM_0_3_URI
      [] rss_version = "ATOM_1_0" -> ATOM_1_0_URI
      [] OTHER -> NULL

node_is(n, name, uri) == n.name = name /\ n.ns = uri

\* Where each parser finds what it reads.
ItemIn(t) ==
    \/ rss_version \in Rss09xVersions /\ t.in = "channel" /\ node_is(t.node, "item", ns)
    \/ rss_version = "RSS_1_0" /\ t.in = "root" /\ node_is(t.node, "item", ns)
    \/ rss_version \in AtomVersions /\ node_is(t.node, "entry", ns)
TitleIn(t) ==
    /\ rss_version \in AtomVersions \/ t.in = "channel"
    /\ node_is(t.node, "title", ns)
CreatorIn(t) ==
    /\ rss_version = "RSS_1_0" /\ t.in = "channel"
    /\ node_is(t.node, "creator", DC_URI)
ChannelIn(t) ==
    /\ rss_version = "RSS_1_0" /\ t.in = "root"
    /\ node_is(t.node, "channel", ns)

\* Mutant of Read: an item is put before the ones already read.
ReadInReverse(t) ==
    IF ItemIn(t) THEN [feed EXCEPT !.items = <<t.node.text>> \o @]
    ELSE IF TitleIn(t) THEN [feed EXCEPT !.title = t.node.text]
    ELSE IF CreatorIn(t) THEN [feed EXCEPT !.creator = t.node.text]
    ELSE feed

Read(t) ==
    IF ItemIn(t) THEN [feed EXCEPT !.items = Append(@, t.node.text)]
    ELSE IF TitleIn(t) THEN [feed EXCEPT !.title = t.node.text]
    ELSE IF CreatorIn(t) THEN [feed EXCEPT !.creator = t.node.text]
    ELSE feed

Walk ==
    /\ pc = "walk" /\ todo # <<>>
    /\ LET t == Head(todo)
       IN  /\ feed' = Read(t)
           /\ todo' = (IF ChannelIn(t) THEN In("channel", t.node.children) ELSE <<>>)
                        \o Tail(todo)
    /\ UNCHANGED <<pc, node, rss_version, podcast>>

\* Podcast::parseFromXmlStream.
Finish ==
    /\ pc = "walk" /\ todo = <<>>
    /\ podcast' = feed
    /\ pc' = "podcast"
    /\ UNCHANGED <<node, rss_version, todo, feed>>

Init ==
    /\ pc = "detect"
    /\ node \in Documents
    /\ rss_version = "uninitialised"
    /\ todo = <<>>
    /\ feed = NoPodcast
    /\ podcast = NoPodcast

Terminated == pc \in {"podcast", "exception"} /\ UNCHANGED vars

Next == \/ NoDocument \/ InvalidVersion \/ DetectVersion
        \/ Unsupported \/ NoChannel \/ Create
        \/ Walk \/ Finish
        \/ Terminated

Spec == Init /\ [][Next]_vars

-----------------------------------------------------------------------------
(* Properties.  A root that is not of a known format is read by whichever    *)
(* parser the memory suggests; most properties are about the others.         *)

Known == node.name \in {"rss", "RDF", "feed"}

\* What a document of a known format holds, without loops, versions and parsers:
\* the namespace its elements are looked for in, and where its items, its titles
\* and its creators stand.
ExpectedNs ==
    CASE node.name = "rss" ->
           IF node.version \in {"2.0", "2"} /\ node.ns = RSS20USERLAND_URI THEN node.ns ELSE NULL
      [] node.name = "RDF" -> RSS_1_0_NS
      [] node.name = "feed" -> IF node.ns \in {ATOM_0_3_URI, ATOM_1_0_URI} THEN node.ns ELSE NULL

\* The places of a document, for its children and theirs: <<i, 0>> is the child i,
\* <<i, j>> its child j.
Places == UNION {{i} \X (0 .. Len(node.children[i].children)) : i \in DOMAIN node.children}
At(p) == IF p[2] = 0 THEN node.children[p[1]] ELSE node.children[p[1]].children[p[2]]
Before(p, q) == p[1] < q[1] \/ (p[1] = q[1] /\ p[2] < q[2])

\* The channels whose children count.
ChannelsRead ==
    CASE node.name = "rss" -> {i \in Channels : IsFirst(i)}
      [] node.name = "RDF" -> {i \in Channels : node.children[i].ns = RSS_1_0_NS}
      [] node.name = "feed" -> {}
InChannel(p) == p[2] > 0 /\ p[1] \in ChannelsRead

ItemPlaces ==
    CASE node.name = "rss" -> {p \in Places : InChannel(p) /\ node_is(At(p), "item", ExpectedNs)}
      [] node.name = "RDF" -> {p \in Places : p[2] = 0 /\ node_is(At(p), "item", ExpectedNs)}
      [] node.name = "feed" -> {p \in Places : p[2] = 0 /\ node_is(At(p), "entry", ExpectedNs)}
TitlePlaces ==
    {p \in Places : /\ IF node.name = "feed" THEN p[2] = 0 ELSE InChannel(p)
                    /\ node_is(At(p), "title", ExpectedNs)}
CreatorPlaces ==
    {p \in Places : node.name = "RDF" /\ InChannel(p) /\ node_is(At(p), "creator", DC_URI)}

\* The text of the last of these places, and the texts of all of them in order.
IsLastText(text, places) ==
    IF places = {} THEN text = ""
    ELSE \E p \in places : At(p).text = text /\ \A q \in places : q = p \/ Before(q, p)
AreTexts(texts, places) ==
    \E f \in [DOMAIN texts -> places] :
        /\ \A i \in DOMAIN texts : At(f[i]).text = texts[i]
        /\ \A i, j \in DOMAIN texts : i < j => Before(f[i], f[j])
        /\ \A p \in places : \E i \in DOMAIN texts : f[i] = p

\* The parser that was chosen and its loops find all of a feed and nothing else,
\* the items in the order of the document.  A version nobody knows gets no parser.
ReadsWholeFeed ==
    Known /\ pc = "podcast" =>
        /\ rss_version \in Versions
        /\ IsLastText(podcast.title, TitlePlaces)
        /\ IsLastText(podcast.creator, CreatorPlaces)
        /\ AreTexts(podcast.items, ItemPlaces)

\* If a feed whose elements are all in a namespace the format does not go with
\* becomes a podcast, it is one without a name and without episodes.  The
\* Atom 0.3 format without a namespace, ATOM_0_3_NONS, is always of this kind,
\* for a feed that really has none is refused.
AllIn(uri) ==
    \A i \in DOMAIN node.children :
        /\ node.children[i].ns = uri
        /\ \A j \in DOMAIN node.children[i].children : node.children[i].children[j].ns = uri

ForeignNamespaceHidesFeed ==
    /\ Known /\ pc = "podcast" /\ node.ns \notin {ExpectedNs, DC_URI} /\ AllIn(node.ns)
         => podcast = NoPodcast
    /\ Known /\ rss_version = "ATOM_0_3_NONS" => node.ns # ExpectedNs

\* What the factory says of every format it does not know, by refusing it with
\* "unsupported feed format".
UnsupportedFormatIsRefused == pc = "podcast" => Known
=============================================================================
