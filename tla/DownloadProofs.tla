--------------------------- MODULE DownloadProofs ----------------------------
(***************************************************************************)
(* For any pool, heap and number of chunks: after what no network, no http *)
(* page and no https page ever comes again, and which feeds arrive whole.  *)
(***************************************************************************)
EXTENDS Download, TLAPS

USE DownloadAssumption

LEMMA ConstantTypes ==
    /\ HeapBlocks \in Nat /\ PoolSize \in Nat /\ HeapRoom \in Nat /\ MaxChunks \in Nat
    /\ \A h \in HeaderSizes : h \in Nat \ {0}
OBVIOUS

LEMMA AllStages == FirstStages(5) = StageSet /\ \A n \in 0 .. 5 : FirstStages(n) \subseteq StageSet
BY DEF FirstStages, StageSet

-----------------------------------------------------------------------------
(* Type correctness. *)

LEMMA InitToTypes ==
    ASSUME TypeOK, NEW n \in 0 .. 5, InitTo(n)
    PROVE  is_init' \in BOOLEAN /\ up' \subseteq StageSet /\ blocks' \in 0 .. HeapBlocks
<1>1. is_init' \in BOOLEAN
  BY DEF InitTo
<1>2. up' \subseteq StageSet
  BY AllStages DEF InitTo, TypeOK
<1>3. blocks' \in 0 .. HeapBlocks
  BY ConstantTypes DEF InitTo, TypeOK
<1> QED
  BY <1>1, <1>2, <1>3

LEMMA StackTypes ==
    TypeOK /\ (InitFails \/ InitSucceeds \/ UNCHANGED stackVars)
        => is_init' \in BOOLEAN /\ up' \subseteq StageSet /\ blocks' \in 0 .. HeapBlocks
<1> SUFFICES ASSUME TypeOK, InitFails \/ InitSucceeds \/ UNCHANGED stackVars
             PROVE  is_init' \in BOOLEAN /\ up' \subseteq StageSet /\ blocks' \in 0 .. HeapBlocks
  OBVIOUS
<1>1. CASE UNCHANGED stackVars
  BY <1>1 DEF stackVars, TypeOK
<1>2. CASE \E n \in 0 .. 5 : InitTo(n)
  BY <1>2, InitToTypes
<1> QED
  BY <1>1, <1>2 DEF InitFails, InitSucceeds

LEMMA StartTypes ==
    ASSUME NEW n \in 0 .. MaxChunks, NEW k \in {"Http", "Https"}, Start(k, n)
    PROVE  /\ kind' \in {"Http", "Https"}
           /\ body' \in 0 .. MaxChunks /\ got' \in 0 .. body'
           /\ {current_page', podcast'} \subseteq Seq(1 .. body')
BY ConstantTypes DEF Start

\* What one step of a transfer leaves in the heap.
LEMMA LeakGrows ==
    ASSUME TypeOK, HeaderKept \/ HeaderRefused \/ Complete \/ NoRequest \/ Broken
    PROVE  leaked' \in leaked .. HeapRoom
<1> USE ConstantTypes
<1>1. leaked \in 0 .. HeapRoom
  BY DEF TypeOK
<1>2. CASE UNCHANGED leaked
  BY <1>1, <1>2
<1>3. CASE \E h \in HeaderSizes : Leaks(h)
  <2>1. PICK h \in HeaderSizes : Leaks(h)
    BY <1>3
  <2>2. h \in Nat
    BY ConstantTypes
  <2> QED
    BY <1>1, <2>1, <2>2 DEF Leaks
<1>4. CASE PartOfHeader
  <2>1. PICK h \in HeaderSizes : \E part \in 0 .. h - 1 : Leaks(part)
    BY <1>4 DEF PartOfHeader
  <2>2. PICK part \in 0 .. h - 1 : Leaks(part)
    BY <2>1
  <2>3. h \in Nat
    BY ConstantTypes
  <2>4. part \in Nat
    BY <2>3
  <2> QED
    BY <1>1, <2>2, <2>4 DEF Leaks
<1> QED
  BY <1>2, <1>3, <1>4 DEF HeaderKept, HeaderRefused, Complete, NoRequest, Broken

LEMMA TypeOKInductive == TypeOK /\ [Next]_vars => TypeOK'
<1> SUFFICES ASSUME TypeOK, [Next]_vars PROVE TypeOK'
  OBVIOUS
<1> USE ConstantTypes
<1>1. ASSUME NEW n \in 0 .. MaxChunks, NEW k \in {"Http", "Https"}, NoStack(k, n)
      PROVE  TypeOK'
  BY <1>1, StackTypes, StartTypes DEF NoStack, TypeOK
<1>2. ASSUME NEW n \in 0 .. MaxChunks, HttpStart(n) PROVE TypeOK'
  <2>1. handles' \in 0 .. PoolSize
    BY <1>2 DEF HttpStart, HttpHandles, TypeOK
  <2>2. request' \in BOOLEAN
    BY <1>2 DEF HttpStart, HttpHandles
  <2> QED
    BY <1>2, <2>1, <2>2, StackTypes, StartTypes DEF HttpStart, TypeOK
<1>3. ASSUME NEW n \in 0 .. MaxChunks, HttpsStart(n) PROVE TypeOK'
  <2>1. leaked' \in 0 .. HeapRoom
    BY <1>3 DEF HttpsStart, Leaks, TypeOK
  <2>2. request' \in BOOLEAN
    BY <1>3 DEF HttpsStart
  <2> QED
    BY <1>3, <2>1, <2>2, StackTypes, StartTypes DEF HttpsStart, TypeOK
<1>4. CASE EmptyPage \/ UNCHANGED vars
  BY <1>4 DEF EmptyPage, vars, stackVars, TypeOK
<1>5. CASE HeaderKept \/ HeaderRefused \/ Complete \/ NoRequest \/ Broken
  <2>1. leaked' \in 0 .. HeapRoom
    BY <1>5, LeakGrows DEF TypeOK
  <2> QED
    BY <1>5, <2>1 DEF HeaderKept, HeaderRefused, Complete, NoRequest, Broken, TransferEnds,
                      stackVars, TypeOK
<1>6. CASE Chunk
  <2>1. got + 1 \in 1 .. body /\ current_page \in Seq(1 .. body)
    BY <1>6 DEF Chunk, TypeOK
  <2>2. current_page' \in {Append(current_page, got + 1), <<got + 1>>}
    BY <1>6 DEF Chunk, Keep
  <2>3. Append(current_page, got + 1) \in Seq(1 .. body) /\ <<got + 1>> \in Seq(1 .. body)
    BY <2>1
  <2>4. current_page' \in Seq(1 .. body)
    BY <2>2, <2>3
  <2> QED
    BY <1>6, <2>1, <2>4 DEF Chunk, stackVars, TypeOK
<1>7. CASE Parse
  <2>1. <<>> \in Seq(1 .. body) /\ current_page \in Seq(1 .. body)
    BY DEF TypeOK
  <2>2. podcast' = <<>> \/ podcast' = current_page
    BY <1>7 DEF Parse
  <2>3. podcast' \in Seq(1 .. body)
    BY <2>1, <2>2
  <2> QED
    BY <1>7, <2>3 DEF Parse, stackVars, TypeOK
<1> QED
  BY <1>1, <1>2, <1>3, <1>4, <1>5, <1>6, <1>7 DEF Next

\* Every variable has its type.
THEOREM DownloadTypeCorrect == Spec => []TypeOK
<1>1. Init => TypeOK
  <2> SUFFICES ASSUME Init PROVE TypeOK
    OBVIOUS
  <2>1. is_init \in BOOLEAN /\ request \in BOOLEAN
    BY DEF Init
  <2>2. {current_page, podcast} \subseteq Seq(1 .. body)
    BY DEF Init
  <2> QED
    BY <2>1, <2>2, ConstantTypes DEF Init, TypeOK
<1> QED
  BY <1>1, TypeOKInductive, PTL DEF Spec

-----------------------------------------------------------------------------
(* The network stack. *)

LostStack == ~is_init /\ (up \cap RepeatFails # {} \/ blocks = HeapBlocks)

LEMMA LostStackStays == TypeOK /\ LostStack /\ [Next]_vars => LostStack'
<1> SUFFICES ASSUME TypeOK, LostStack, [Next]_vars PROVE LostStack'
  OBVIOUS
<1> USE ConstantTypes
<1>1. CASE InitFails
  <2> PICK n \in 0 .. 4 : InitTo(n)
    BY <1>1 DEF InitFails
  <2>1. ~is_init'
    BY n # 5 DEF InitTo
  <2>2. up' \cap RepeatFails # {} \/ blocks' = HeapBlocks
    BY DEF InitTo, LostStack
  <2> QED
    BY <2>1, <2>2 DEF LostStack
<1>2. CASE InitSucceeds
  <2>1. Reaches(5)
    BY <1>2 DEF InitSucceeds, InitTo, LostStack
  <2>2. FirstStages(5) \cap up \cap RepeatFails = {} /\ blocks < HeapBlocks
    BY <2>1 DEF Reaches
  <2>3. up \cap RepeatFails = {}
    BY <2>2, AllStages DEF TypeOK
  <2> QED
    BY <2>2, <2>3 DEF LostStack, TypeOK
<1>3. CASE UNCHANGED stackVars
  BY <1>3 DEF stackVars, LostStack
<1> QED
  BY <1>1, <1>2, <1>3
  DEF Next, vars, NoStack, HttpStart, HttpsStart, HeaderKept, HeaderRefused, Chunk,
      Complete, NoRequest, Broken, TransferEnds, EmptyPage, Parse

\* An initialisation that failed with a stage up that cannot be repeated, or with
\* the heap used up, is the last one: this session has no network any more.
THEOREM StackIsLost == Spec => FailedInitIsForever
<1>1. LostStack => ~is_init
  BY DEF LostStack
<1> QED
  BY <1>1, DownloadTypeCorrect, LostStackStays, PTL DEF Spec, FailedInitIsForever, LostStack

-----------------------------------------------------------------------------
(* Handles and heap. *)

\* Without room for three handles no request is made, and without a request
\* nothing is read.
NoRoomForHandles ==
    /\ handles + 3 > PoolSize
    /\ pc # "idle" /\ kind = "Http" => current_page = <<>> /\ ~request

LEMMA NoRoomStays == TypeOK /\ NoRoomForHandles /\ [Next]_vars => NoRoomForHandles'
<1> SUFFICES ASSUME TypeOK, NoRoomForHandles, [Next]_vars PROVE NoRoomForHandles'
  OBVIOUS
<1> USE ConstantTypes DEF NoRoomForHandles, TypeOK
<1>1. ASSUME NEW n \in 0 .. MaxChunks, NEW k \in {"Http", "Https"}, NoStack(k, n)
      PROVE  NoRoomForHandles'
  BY <1>1 DEF NoStack, Start
<1>2. ASSUME NEW n \in 0 .. MaxChunks, HttpStart(n) PROVE NoRoomForHandles'
  <2>1. handles' + 3 > PoolSize /\ current_page' = <<>>
    BY <1>2 DEF HttpStart, HttpHandles, Start
  <2>2. PICK made \in 0 .. 3 : handles + made <= PoolSize /\ request' = (made = 3)
    BY <1>2 DEF HttpStart, HttpHandles
  <2>3. made # 3
    BY <2>2
  <2>4. ~request'
    BY <2>2, <2>3
  <2> QED
    BY <2>1, <2>4
<1>3. ASSUME NEW n \in 0 .. MaxChunks, HttpsStart(n) PROVE NoRoomForHandles'
  BY <1>3 DEF HttpsStart, Start
<1>4. CASE HeaderKept \/ EmptyPage \/ Parse \/ UNCHANGED vars
  BY <1>4 DEF HeaderKept, EmptyPage, Parse, vars
<1>5. CASE HeaderRefused \/ Complete \/ NoRequest \/ Broken
  BY <1>5 DEF HeaderRefused, Complete, NoRequest, Broken, TransferEnds
<1>6. CASE Chunk
  BY <1>6 DEF Chunk
<1> QED
  BY <1>1, <1>2, <1>3, <1>4, <1>5, <1>6 DEF Next

\* Handles are never given back: once three no longer fit, http is over.
THEOREM HttpIsOver == Spec => NoHttpAfterPool
<1>1. pc = "idle" /\ handles + 3 > PoolSize => NoRoomForHandles
  BY DEF NoRoomForHandles
<1>2. NoRoomForHandles => (pc = "parse" /\ kind = "Http" => current_page = <<>>)
  BY DEF NoRoomForHandles
<1> QED
  BY <1>1, <1>2, DownloadTypeCorrect, NoRoomStays, PTL DEF Spec, NoHttpAfterPool

\* Without memory for a header an https transfer ends before its body.
NoRoomForHeader ==
    /\ \A h \in HeaderSizes : leaked + h > HeapRoom
    /\ pc # "idle" /\ kind = "Https" =>
          current_page = <<>> /\ (pc = "header" \/ (pc = "parse" /\ st # "OK"))

LEMMA HeapStaysFull ==
    ASSUME \A h \in HeaderSizes : leaked + h > HeapRoom, leaked \in Nat,
           NEW more \in Nat, more >= leaked
    PROVE  \A h \in HeaderSizes : more + h > HeapRoom
<1> SUFFICES ASSUME NEW h \in HeaderSizes PROVE more + h > HeapRoom
  OBVIOUS
<1>1. h \in Nat /\ HeapRoom \in Nat /\ leaked + h > HeapRoom
  BY ConstantTypes
<1> QED
  BY <1>1

LEMMA NoHeaderStays == TypeOK /\ NoRoomForHeader /\ [Next]_vars => NoRoomForHeader'
<1> SUFFICES ASSUME TypeOK, NoRoomForHeader, [Next]_vars PROVE NoRoomForHeader'
  OBVIOUS
<1> USE ConstantTypes DEF NoRoomForHeader, TypeOK
<1>1. ASSUME NEW n \in 0 .. MaxChunks, NEW k \in {"Http", "Https"}, NoStack(k, n)
      PROVE  NoRoomForHeader'
  BY <1>1 DEF NoStack, Start
<1>2. ASSUME NEW n \in 0 .. MaxChunks, HttpStart(n) PROVE NoRoomForHeader'
  BY <1>2 DEF HttpStart, Start
<1>3. ASSUME NEW n \in 0 .. MaxChunks, HttpsStart(n) PROVE NoRoomForHeader'
  <2>1. leaked' \in {leaked, leaked + 1}
    BY <1>3 DEF HttpsStart, Leaks
  <2>2. leaked \in Nat /\ leaked' \in Nat /\ leaked' >= leaked
    BY <2>1
  <2>3. \A h \in HeaderSizes : leaked + h > HeapRoom
    OBVIOUS
  <2>4. \A h \in HeaderSizes : leaked' + h > HeapRoom
    BY ONLY <2>2, <2>3, HeapStaysFull
  <2> QED
    BY <1>3, <2>4 DEF HttpsStart, Start
<1>4. CASE EmptyPage \/ Parse \/ UNCHANGED vars
  BY <1>4 DEF EmptyPage, Parse, vars
<1>5. CASE HeaderKept
  <2>1. PICK h \in HeaderSizes : leaked' = leaked + h /\ leaked' <= HeapRoom
    BY <1>5 DEF HeaderKept, Leaks
  <2>2. leaked + h > HeapRoom /\ h \in Nat
    OBVIOUS
  <2> QED
    BY <2>1, <2>2
<1>6. CASE HeaderRefused \/ Complete \/ NoRequest \/ Broken
  <2>1. leaked' \in leaked .. HeapRoom
    BY <1>6, LeakGrows
  <2>2. leaked \in Nat /\ leaked' \in Nat /\ leaked' >= leaked
    BY <2>1
  <2>3. \A h \in HeaderSizes : leaked + h > HeapRoom
    OBVIOUS
  <2>4. \A h \in HeaderSizes : leaked' + h > HeapRoom
    BY ONLY <2>2, <2>3, HeapStaysFull
  <2> QED
    BY <1>6, <2>4 DEF HeaderRefused, Complete, NoRequest, Broken, TransferEnds
<1>7. CASE Chunk
  BY <1>7 DEF Chunk
<1> QED
  BY <1>1, <1>2, <1>3, <1>4, <1>5, <1>6, <1>7 DEF Next

\* Strings and headers are never freed: once they leave no room in the heap for
\* any header, https is over whatever the rest of the program frees (http.cpp).
THEOREM HttpsIsOver == Spec => NoHttpsAfterHeap
<1>1. pc = "idle" /\ (\A h \in HeaderSizes : leaked + h > HeapRoom) => NoRoomForHeader
  BY DEF NoRoomForHeader
<1>2. NoRoomForHeader => (pc = "parse" /\ kind = "Https" => current_page = <<>> /\ st # "OK")
  BY DEF NoRoomForHeader
<1> QED
  BY <1>1, <1>2, DownloadTypeCorrect, NoHeaderStays, PTL DEF Spec, NoHttpsAfterHeap

-----------------------------------------------------------------------------
(* What reaches the parser. *)

\* The first n chunks.
Chunks(n) == [i \in 1 .. n |-> i]

\* What is kept of what was received.
PageOf == IF kind = "Http" THEN Chunks(got) ELSE IF got = 0 THEN <<>> ELSE <<got>>

PageInv == current_page = PageOf /\ podcast \in {<<>>, current_page}
              /\ (pc # "idle" => podcast = <<>>)

LEMMA NoChunks == Chunks(0) = <<>>
BY DEF Chunks

LEMMA OneMoreChunk == \A n \in Nat : Append(Chunks(n), n + 1) = Chunks(n + 1)
<1> SUFFICES ASSUME NEW n \in Nat PROVE Append(Chunks(n), n + 1) = Chunks(n + 1)
  OBVIOUS
<1>1. Chunks(n) \in Seq(Nat) /\ Len(Chunks(n)) = n
  BY DEF Chunks
<1> QED
  BY <1>1 DEF Chunks

LEMMA PageInvInductive == TypeOK /\ PageInv /\ [Next]_vars => PageInv'
<1> SUFFICES ASSUME TypeOK, PageInv, [Next]_vars PROVE PageInv'
  OBVIOUS
<1> USE ConstantTypes
<1>1. ASSUME NEW n \in 0 .. MaxChunks, NEW k \in {"Http", "Https"}, Start(k, n)
      PROVE  PageInv'
  BY <1>1, NoChunks DEF Start, PageInv, PageOf
<1>2. CASE HeaderKept \/ EmptyPage \/ Parse \/ UNCHANGED vars
  BY <1>2 DEF HeaderKept, EmptyPage, Parse, vars, PageInv, PageOf
<1>3. CASE HeaderRefused \/ Complete \/ NoRequest \/ Broken
  BY <1>3 DEF HeaderRefused, Complete, NoRequest, Broken, TransferEnds, PageInv, PageOf
<1>4. CASE Chunk
  <2>1. got \in Nat /\ got' = got + 1 /\ kind' = kind /\ podcast' = <<>>
    BY <1>4 DEF Chunk, TypeOK, PageInv
  <2>2. current_page' = PageOf'
    <3>1. CASE kind = "Http"
      <4>1. current_page' = Append(Chunks(got), got + 1)
        BY <1>4, <3>1 DEF Chunk, Keep, PageInv, PageOf
      <4> QED
        BY <2>1, <3>1, <4>1, OneMoreChunk DEF PageOf
    <3>2. CASE kind # "Http"
      <4>1. current_page' = <<got + 1>> /\ got' # 0
        BY <1>4, <2>1, <3>2 DEF Chunk, Keep
      <4> QED
        BY <2>1, <3>2, <4>1 DEF PageOf
    <3> QED
      BY <3>1, <3>2
  <2> QED
    BY <2>1, <2>2 DEF PageInv
<1> QED
  BY <1>1, <1>2, <1>3, <1>4 DEF Next, NoStack, HttpStart, HttpsStart

\* A podcast is made of the whole feed exactly when all of it arrived and an
\* https server sent it in one chunk.
THEOREM WholeFeeds == Spec => []WholeFeedNeedsOneChunk
<1>1. Init => PageInv
  BY NoChunks DEF Init, PageInv, PageOf
<1>2. ASSUME TypeOK, PageInv, podcast # <<>>
      PROVE  podcast = Chunks(body) <=> got = body /\ (kind = "Http" \/ body = 1)
  <2>1. podcast = PageOf /\ got \in Nat /\ body \in Nat /\ kind \in {"Http", "Https"}
    BY <1>2 DEF PageInv, TypeOK
  <2>2. CASE kind = "Http"
    <3>1. DOMAIN Chunks(got) = 1 .. got /\ DOMAIN Chunks(body) = 1 .. body
      BY DEF Chunks
    <3>2. Chunks(got) = Chunks(body) => got = body
      BY <2>1, <3>1
    <3> QED
      BY <2>1, <2>2, <3>2 DEF PageOf
  <2>3. CASE kind = "Https"
    <3>1. podcast = <<got>> /\ got >= 1
      BY <1>2, <2>1, <2>3 DEF PageOf
    <3>2. podcast = Chunks(body) => body = 1 /\ got = 1
      <4>1. DOMAIN Chunks(body) = 1 .. body /\ DOMAIN <<got>> = 1 .. 1
        BY DEF Chunks
      <4>2. ASSUME podcast = Chunks(body) PROVE body = 1
        BY <2>1, <3>1, <4>1, <4>2
      <4>3. ASSUME podcast = Chunks(body) PROVE got = 1
        BY <3>1, <4>2, <4>3 DEF Chunks
      <4> QED
        BY <4>2, <4>3
    <3>3. got = body /\ body = 1 => podcast = Chunks(body)
      BY <3>1 DEF Chunks
    <3> QED
      BY <2>3, <3>2, <3>3
  <2> QED
    BY <2>1, <2>2, <2>3
<1>3. TypeOK /\ PageInv => WholeFeedNeedsOneChunk
  BY <1>2 DEF WholeFeedNeedsOneChunk, Chunks
<1> QED
  BY <1>1, <1>3, DownloadTypeCorrect, PageInvInductive, PTL DEF Spec
=============================================================================
