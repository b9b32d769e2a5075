------------------------------ MODULE Download ------------------------------
(***************************************************************************)
(* Fetching one feed after another: the network stack HttpBase::init       *)
(* brings up, the transfers of Http::download and Https::download          *)
(* (http.cpp), and what App::downloadAndParseFeed makes of a page          *)
(* (app.cpp).  Every system call may fail, and a connection may break      *)
(* after any chunk of the body.                                            *)
(*                                                                         *)
(* A body is the sequence of its chunks 1, 2, ..., a page the sequence of  *)
(* those the program has kept.                                             *)
(*                                                                         *)
(* The C heap is one for the whole program.  What downloads never give     *)
(* back is counted here; what else takes part of it comes and goes, so     *)
(* that a call may find no memory at any moment.                           *)
(***************************************************************************)
EXTENDS Naturals, Sequences

CONSTANTS RepeatFails,  \* stages that refuse to be brought up again when up
          HeapBlocks,   \* 4 MB blocks the C heap holds
          PoolSize,     \* handles the HTTP library's pool holds
          HeaderSizes,  \* memory for the header of an https answer
          HeapRoom,     \* memory of the C heap
          MaxChunks     \* bound: chunks of a body

\* The stages of HttpBase::init, in the order they are brought up.
Stages == <<"NET_MODULE", "NET_RUN", "NET_CTL", "HTTP_MODULE", "HTTP_RUN">>
StageSet == {Stages[i] : i \in 1 .. 5}
FirstStages(n) == {Stages[i] : i \in 1 .. n}

ASSUME DownloadAssumption ==
    /\ RepeatFails \subseteq StageSet
    /\ {HeapBlocks, PoolSize, HeapRoom, MaxChunks} \subseteq Nat
    /\ HeaderSizes \subseteq Nat \ {0}

VARIABLES
    pc,       \* what downloadAndParseFeed does next
    is_init,  \* HttpBase::is_init
    up,       \* stages that are up
    blocks,   \* blocks malloc'ed for sceNetInit; none is ever freed
    handles,  \* sceHttp templates, connections and requests; none is ever deleted
    leaked,   \* memory of https downloads: none frees its strings and header list
    kind,     \* the class of dl: "Http" or "Https"
    body,     \* chunks the server has for this URL
    got,      \* chunks received
    request,  \* is there a request that can be read?
    st,       \* what download() returned: "OK" or an error
    current_page, \* the chunks kept
    podcast   \* the page the last podcast was parsed from, <<>> when it was not

stackVars == <<is_init, up, blocks>>
vars == <<pc, stackVars, handles, leaked, kind, body, got, request, st, current_page, podcast>>

-----------------------------------------------------------------------------
(* HttpBase::init. *)

\* Mutant of Reaches: the result of sceNetInit is not looked at.
ReachesUnchecked(n) == FirstStages(n) \cap up \cap (RepeatFails \ {"NET_RUN"}) = {}

\* Stage n+1 is the first that fails; 5 when none does.  A stage that is up may
\* refuse to be brought up again, and sceNetInit refuses a block it did not get.
Reaches(n) ==
    /\ FirstStages(n) \cap up \cap RepeatFails = {}
    /\ n >= 2 => blocks < HeapBlocks

\* Nothing is undone when a stage fails.  The block is asked for between the first
\* stage and the second one.
InitTo(n) ==
    /\ Reaches(n)
    /\ up' = up \cup FirstStages(n)
    /\ is_init' = (n = 5)
    /\ blocks' \in {blocks, blocks + 1} /\ blocks' <= HeapBlocks
    /\ n = 0 => blocks' = blocks
    /\ n >= 2 /\ blocks < HeapBlocks => blocks' = blocks + 1

InitFails == ~is_init /\ \E n \in 0 .. 4 : InitTo(n)

InitSucceeds ==
    \/ is_init /\ UNCHANGED stackVars
    \/ ~is_init /\ InitTo(5)

-----------------------------------------------------------------------------
(* App::downloadAndParseFeed. *)

\* A new object for each URL: its page is empty.
Start(k, n) ==
    /\ pc = "idle"
    /\ kind' = k /\ body' = n /\ got' = 0
    /\ current_page' = <<>>
    /\ podcast' = <<>>

NoStack(k, n) ==
    /\ Start(k, n)
    /\ InitFails
    /\ st' = "init" /\ request' = FALSE
    /\ pc' = "parse"
    /\ UNCHANGED <<handles, leaked>>

\* Mutant of HttpHandles: one template serves every download.
TemplateKept ==
    \E made \in 0 .. 2 :
        /\ handles + made <= PoolSize
        /\ handles' = handles + made
        /\ request' = (made = 2)

\* The template, the connection and the request.  The first call that fails, for
\* want of room in the pool or because of the URL, makes those after it fail,
\* that need its result.  No result is looked at.
HttpHandles ==
    \E made \in 0 .. 3 :
        /\ handles + made <= PoolSize
        /\ handles' = handles + made
        /\ request' = (made = 3)

HttpStart(n) ==
    /\ Start("Http", n)
    /\ InitSucceeds
    /\ HttpHandles
    /\ st' = "OK"
    /\ pc' = "transfer"
    /\ UNCHANGED leaked

\* Some more memory is never freed.
Leaks(size) == leaked' = leaked + size /\ leaked' <= HeapRoom

\* curl_easy_init may have no memory.  Otherwise two strings and a list of
\* headers are made, one unit of memory if there is any, and nothing frees them.
HttpsStart(n) ==
    /\ Start("Https", n)
    /\ InitSucceeds
    /\ \/ /\ request' = TRUE /\ st' = "OK" /\ pc' = "header"
          /\ Leaks(0) \/ Leaks(1)
       \/ /\ request' = FALSE /\ st' = "CURL_ERROR" /\ pc' = "parse"
          /\ UNCHANGED leaked
    /\ UNCHANGED handles

-----------------------------------------------------------------------------
(* The transfers. *)

\* Mutant of HeaderKept: the header is taken whether there is memory or not.
HeaderAlwaysKept ==
    /\ pc = "header"
    /\ pc' = "transfer"
    /\ UNCHANGED <<stackVars, handles, leaked, kind, body, got, request, st, current_page, podcast>>

\* writefunc keeps the header of an answer, which comes before the body, and
\* needs memory for it that nothing frees.
HeaderKept ==
    /\ pc = "header"
    /\ \E h \in HeaderSizes : Leaks(h)
    /\ pc' = "transfer"
    /\ UNCHANGED <<stackVars, handles, kind, body, got, request, st, current_page, podcast>>

\* What has come of a header that does not come whole.
PartOfHeader == \E h \in HeaderSizes : \E part \in 0 .. h - 1 : Leaks(part)

\* Mutant of Keep: write_data_to_disk appends.
KeepAll(chunk) == Append(current_page, chunk)

\* Http appends what it reads; Https's callback, write_data_to_disk, assigns.
Keep(chunk) == IF kind = "Http" THEN Append(current_page, chunk) ELSE <<chunk>>

Chunk ==
    /\ pc = "transfer" /\ request
    /\ got < body
    /\ got' = got + 1
    /\ current_page' = Keep(got + 1)
    /\ UNCHANGED <<pc, stackVars, handles, leaked, kind, body, request, st, podcast>>

TransferEnds ==
    /\ pc' = "parse"
    /\ UNCHANGED <<stackVars, handles, kind, body, got, request, current_page, podcast>>

\* Mutant of Complete: the loop of Http goes on when nothing more is read.
CompleteNotByZero ==
    pc = "transfer" /\ TransferEnds /\ request /\ got = body /\ kind = "Https" /\ UNCHANGED <<st, leaked>>

\* The whole body, an empty one included, has arrived.
Complete == pc = "transfer" /\ TransferEnds /\ request /\ got = body /\ UNCHANGED <<st, leaked>>

\* Http reads from a request it could not make: the first read fails.
NoRequest == pc = "transfer" /\ TransferEnds /\ ~request /\ UNCHANGED <<st, leaked>>

\* writefunc finds no memory for a line of the header and answers 0, for which
\* libcurl gives up.  The lines before it stay in memory.
HeaderRefused ==
    /\ pc = "header"
    /\ TransferEnds
    /\ PartOfHeader
    /\ st' = "CURL_ERROR"

\* The connection cannot be made or breaks: Http says OK all the same.
Broken ==
    /\ \/ pc = "header" /\ PartOfHeader
       \/ pc = "transfer" /\ request /\ UNCHANGED leaked
    /\ TransferEnds
    /\ st' = IF kind = "Http" THEN "OK" ELSE "CURL_ERROR"

-----------------------------------------------------------------------------

EmptyPage ==
    /\ pc = "parse" /\ current_page = <<>>
    /\ pc' = "idle"
    /\ UNCHANGED <<stackVars, handles, leaked, kind, body, got, request, st, current_page, podcast>>

\* Whatever st says, a page that is not empty goes to the parser, which recovers
\* what it can: any part of a body may yield a podcast, or an exception.
Parse ==
    /\ pc = "parse" /\ current_page # <<>>
    /\ podcast' \in {<<>>, current_page}
    /\ pc' = "idle"
    /\ UNCHANGED <<stackVars, handles, leaked, kind, body, got, request, st, current_page>>

Init ==
    /\ pc = "idle"
    /\ is_init = FALSE /\ up = {} /\ blocks = 0
    /\ handles = 0 /\ leaked = 0
    /\ kind = "Http" /\ body = 0 /\ got = 0 /\ request = FALSE
    /\ st = "OK" /\ current_page = <<>> /\ podcast = <<>>

Next ==
    \/ \E n \in 0 .. MaxChunks :
          (\E k \in {"Http", "Https"} : NoStack(k, n)) \/ HttpStart(n) \/ HttpsStart(n)
    \/ HeaderKept \/ HeaderRefused
    \/ Chunk
    \/ Complete \/ NoRequest \/ Broken
    \/ EmptyPage \/ Parse

Spec == Init /\ [][Next]_vars

\* The thread goes on with what it has; nothing is assumed of the servers, nor
\* that the user wants another update.
FairSpec == Spec /\ WF_vars(NoRequest \/ EmptyPage \/ Parse)

-----------------------------------------------------------------------------
(* Properties. *)

TypeOK ==
    /\ pc \in {"idle", "header", "transfer", "parse"}
    /\ is_init \in BOOLEAN /\ request \in BOOLEAN
    /\ up \subseteq StageSet
    /\ blocks \in 0 .. HeapBlocks
    /\ handles \in 0 .. PoolSize
    /\ leaked \in 0 .. HeapRoom
    /\ kind \in {"Http", "Https"}
    /\ body \in 0 .. MaxChunks /\ got \in 0 .. body
    /\ st \in {"OK", "init", "CURL_ERROR"}
    /\ {current_page, podcast} \subseteq Seq(1 .. body)

\* init() leaves the stages before the one that failed up and keeps their
\* memory.  If one of them cannot be brought up twice, or the heap is used up,
\* no later download of this session will have a network.
FailedInitIsForever ==
    [](~is_init /\ (up \cap RepeatFails # {} \/ blocks = HeapBlocks) => []~is_init)

\* Http::download deletes no handle: once the pool has no room for three, no
\* page ever comes from an http URL again.
NoHttpAfterPool ==
    [](pc = "idle" /\ handles + 3 > PoolSize
         => [](pc = "parse" /\ kind = "Http" => current_page = <<>>))

\* No https download frees its strings: once they leave no room for any header
\* in the heap, whatever else is freed, no page ever comes from an https URL
\* again, and libcurl says so.
NoHttpsAfterHeap ==
    [](pc = "idle" /\ (\A h \in HeaderSizes : leaked + h > HeapRoom)
         => [](pc = "parse" /\ kind = "Https" => current_page = <<>> /\ st # "OK"))

\* A server that answers and sends what it has makes the download end, and with it the hold
\* it has on the program's one thread: no failure of memory, pool or stack, and
\* no empty body, keeps the loop going.  Of a server that stops sending nothing
\* is said: nothing in the code ends such a transfer.
DownloadEnds ==
    WF_vars(HeaderKept \/ HeaderRefused \/ Chunk \/ Complete) => []<>(pc = "idle")

\* A podcast is made of the whole feed exactly when everything arrived and, for
\* an https URL, in a single chunk: of more chunks only the last one is kept, and
\* a page left by a broken transfer is parsed like a whole one.
WholeFeedNeedsOneChunk ==
    podcast # <<>> =>
        (podcast = [i \in 1 .. body |-> i] <=> got = body /\ (kind = "Http" \/ body = 1))
=============================================================================
