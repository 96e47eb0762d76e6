------------------------ MODULE HttpConnectionProofs ------------------------
(***************************************************************************)
(* Proofs about one connection, for any clients, any limits and any sizes  *)
(* of buffers: keep-alive keeps its place in the byte stream, answers come *)
(* in the order of the requests, handlers get their bodies, run() does not *)
(* wait for what is there, and it explains why it hangs up.                *)
(*                                                                         *)
(* The invariant IInv is Base (types, control flow and what a wait means), *)
(* Sequel and Order (what the client has been shown), Place (where in the  *)
(* stream the read buffer begins, relative to the request being served),   *)
(* Count (what the handler was fed) and Quiet (the properties of waits and *)
(* closes).  Every action is first shown to be one of some thirty kinds of *)
(* steps (the lemmas named ...Moves), and the parts of IInv are then shown *)
(* for the kinds: ...Base, ...Sequel, ...Order, and ...Spot for the place  *)
(* and the count together.                                                 *)
(***************************************************************************)
EXTENDS HttpConnection, FiniteSetTheorems, SequenceTheorems, TLAPS

\* The frame of run() and what is in it.
Labels == {"handshake", "top", "head", "expect", "body", "handler", "lengthRead", "chunk", "drain",
           "lengthDrain", "answer", "send", "stream", "file", "linger", "closed"}
BodyType == [kind : {"none", "length", "chunked"}, remaining : Nat, exhausted : BOOLEAN]
DecoderType == [state : {"CHUNK_SIZE", "CHUNK_BODY", "CHUNK_CRLF", "TRAILER", "DONE"},
                left : Nat, total : Nat]
ReadType == [who : {"nobody", "handler", "drain"}, size : Nat, written : Nat, all : BOOLEAN,
             got : Nat, search : BOOLEAN]

\* The writes that begin an answer, and those that go on with one.
FirstKinds == {"error", "continue", "plain", "cachedFile", "smallFile", "streamHead", "fileHead"}
LaterKinds == {"chunk", "lastChunk", "streamError"}
AnswerType == [kind : {"none"} \cup Answers \cup FirstKinds \cup LaterKinds, status : Nat,
               close : BOOLEAN, chunks : Nat]
ConnType ==
  [pc : Labels, req : Nat, keepAlive : BOOLEAN, body : BodyType, dec : DecoderType, rd : ReadType,
   resp : AnswerType, fed : Nat, foreign : BOOLEAN, cause : SUBSET {"overread", "shortRead", "trailer", "astray"},
   late : BOOLEAN, thrown : BOOLEAN, lingered : BOOLEAN]
ShownType == [req : Nat, status : Nat, close : BOOLEAN, whole : BOOLEAN]

\* Types; nothing is received that was not sent, and readOffset_ stays within
\* readBuffer_.
TypeOK ==
  /\ client \in Clients
  /\ sent \in Nat /\ sent <= Len(stream)
  /\ fin \in BOOLEAN /\ shutdown \in BOOLEAN /\ suspended \in BOOLEAN /\ timedOut \in BOOLEAN
  /\ partials \in Nat
  /\ pos \in Nat /\ taken \in Nat /\ zeros \in Nat
  /\ taken <= sent /\ pos <= taken + zeros
  /\ conn \in ConnType
  /\ out \in Seq(ShownType)

\* run() serves a request: it has parsed a head and not yet reset.
InRequest ==
  \/ conn.pc \in {"expect", "body", "handler", "lengthRead", "chunk", "drain", "lengthDrain", "answer",
                  "stream", "file"}
  \/ conn.pc = "send" /\ conn.resp.kind # "error"

\* What the frame holds at each label of run().
Control ==
  /\ conn.pc \in {"handshake", "head", "expect", "body", "handler", "lengthRead"} => conn.keepAlive
  /\ conn.pc \in {"handshake", "top", "head"} => conn.req = 0
  /\ conn.pc = "handshake" => out = <<>>
  /\ InRequest => conn.req \in 1..Len(requests)
  /\ conn.pc \in {"handshake", "top", "head", "expect", "body"} =>
       conn.body = NoBody /\ conn.dec = NewDecoder /\ conn.rd = NoRead
  /\ conn.pc = "send" => conn.resp.kind \in FirstKinds \cup LaterKinds
  /\ conn.pc = "send" /\ conn.resp.kind = "continue" =>
       conn.keepAlive /\ conn.body = NoBody /\ conn.dec = NewDecoder /\ conn.rd = NoRead
  /\ conn.pc = "handler" => conn.rd = NoRead
  /\ conn.pc \in {"lengthRead", "lengthDrain"} => conn.body.kind = "length"
  /\ conn.pc = "lengthRead" => conn.rd.who = "handler"
  /\ conn.pc = "lengthDrain" => conn.rd.who = "drain"
  /\ conn.pc = "chunk" => /\ conn.body.kind = "chunked" /\ conn.rd.who \in {"handler", "drain"}
                          /\ conn.rd.who = "handler" => conn.keepAlive
  /\ conn.pc \in {"lengthRead", "lengthDrain", "chunk"} =>
       ~conn.body.exhausted /\ conn.rd.size > 0 /\ conn.rd.written <= conn.rd.size
  /\ conn.pc \in {"handler", "lengthRead", "chunk", "drain", "lengthDrain"} => conn.body.kind = Req.framing
  /\ conn.pc \in {"drain", "lengthDrain", "answer"} \/ (conn.pc = "chunk" /\ conn.rd.who = "drain") =>
       conn.resp.kind \in Answers
  /\ conn.pc = "stream" => conn.resp.kind \in {"streamHead", "chunk"}
  /\ conn.pc = "file" => conn.resp.kind = "fileHead"
  /\ conn.resp.kind \in {"none", "error", "continue"} \/ conn.resp.status # 100

\* Where run() may wait; units that were never received are in the buffer only
\* after the client's close, and nobody will look at them for a head; a
\* time-out is remembered.
Waiting ==
  /\ suspended => conn.pc \in {"handshake", "head", "lengthRead", "lengthDrain", "chunk", "send", "file", "linger"}
  /\ zeros > 0 => fin /\ (~conn.keepAlive \/ conn.pc = "closed")
  /\ zeros > 0 => ~(suspended /\ conn.pc \in {"head", "lengthRead", "lengthDrain", "chunk"})
  /\ timedOut => conn.late \/ conn.pc = "closed"

Base == TypeOK /\ Control /\ Waiting

-----------------------------------------------------------------------------
(* What the client has been shown                                            *)

\* There is an answer yet to begin, or one that has begun and has not ended.
Going ==
  \/ conn.pc \in {"handshake", "head", "expect", "body", "handler", "lengthRead", "chunk", "drain",
                  "lengthDrain", "answer"}
  \/ conn.pc = "top" /\ conn.keepAlive
  \/ conn.pc = "send" /\ conn.resp.kind \in FirstKinds
InAnswer ==
  \/ conn.pc \in {"stream", "file"}
  \/ conn.pc = "send" /\ conn.resp.kind \in LaterKinds

\* An answer after which another may come is complete and does not announce a
\* close, or only the one the client asked for.
LastOut == out[Len(out)]
Stands(i) == out[i].whole /\ (out[i].close => requests[out[i].req].close)

\* A connection that will not go on says so in the answer, unless the answer is
\* a small file, which has no head to say it in.
Told == conn.resp.close \/ (conn.resp.kind = "smallFile" /\ conn.resp.status = NoHead)
Sequel ==
  /\ \A i \in 1..(Len(out) - 1) : Stands(i)
  /\ Going /\ out # <<>> => Stands(Len(out))
  /\ conn.pc \in {"send", "stream", "file"} =>
       /\ ~conn.keepAlive => Told
       /\ conn.keepAlive /\ conn.resp.close => conn.resp.kind # "continue" /\ Req.close
       /\ conn.resp.kind = "error" => ~conn.keepAlive /\ conn.resp.close
  /\ InAnswer => /\ out # <<>> /\ ~LastOut.whole
                 /\ LastOut.close = conn.resp.close
                 /\ LastOut.req = conn.req
  /\ conn.pc = "linger" \/ (conn.pc = "top" /\ ~conn.keepAlive) =>
       ~conn.keepAlive /\ out # <<>> /\ (LastOut.close \/ LastOut.status = NoHead)

\* As long as the place was not lost, the request being served is the one
\* after those that have had their final answer.
Finals == FinalsUpTo(out, Len(out))
Order ==
  /\ conn.pc = "send" /\ conn.resp.kind = "continue" => conn.resp.status = 100
  /\ conn.cause = {} =>
       /\ \A i \in 1..Len(out) : out[i].status # 100 =>
            out[i].req = FinalsUpTo(out, i) \/ (out[i].req = 0 /\ i = Len(out) /\ conn.pc \in {"linger", "closed"})
       /\ InRequest /\ ~InAnswer => conn.req = FinalsUpTo(out, Len(out)) + 1
       /\ InAnswer => conn.req = FinalsUpTo(out, Len(out))
       /\ conn.pc = "send" /\ conn.resp.kind = "error" => conn.req \in {0, FinalsUpTo(out, Len(out)) + 1}

-----------------------------------------------------------------------------
(* The place in the stream                                                   *)

\* The first unit of request k, the end of its head, the units of its body
\* among the first p units of the stream, and the places where it begins: at
\* its first unit or after some of the bare CRLFs in front of its head.
FirstOf(k) == Min({i \in 1..Len(stream) : stream[i].r = k})
HeadOf(k) == CHOOSE h \in 1..Len(stream) :
               IsMessage(stream, k, requests[k], FirstOf(k), h, EndOf(k))
Bytes(k, p) == Cardinality({i \in 1..p : stream[i].r = k /\ stream[i].t = "byte"})
Begins(k, p) ==
  IF k > Len(requests) THEN p = Len(stream)
  ELSE FirstOf(k) - 1 <= p /\ p < HeadOf(k) /\ \A i \in FirstOf(k)..p : stream[i].t = "crlf"

\* A chunked body that the decoder refuses.
BadChunks(k) ==
  /\ requests[k].framing = "chunked"
  /\ \/ requests[k].broken
     \/ BodyUnits(k) > MaxTE
     \/ \E i \in 1..Len(requests[k].chunks) : requests[k].chunks[i] > MaxTEChunk

\* The read buffer begins in the body of request k, where the decoder's state
\* says: before a size line, or after a line that was refused,
Within(k) == HeadOf(k) <= pos /\ pos < EndOf(k)
AtSize(k) == Within(k) /\ stream[pos + 1].t = "size" /\ ~requests[k].broken
             /\ conn.dec.total = Bytes(k, pos) /\ conn.dec.total <= MaxTE
Stuck(k) == Within(k) /\ stream[pos + 1].t # "size" /\ BadChunks(k) /\ Bytes(k, pos) <= MaxTE

\* before dec.left units of a chunk and the CRLF that ends it,
InChunk(k) ==
  /\ Within(k) /\ pos + conn.dec.left + 1 < EndOf(k) /\ conn.dec.left > 0 /\ ~requests[k].broken
  /\ \A i \in (pos + 1)..(pos + conn.dec.left) : stream[i].t = "byte"
  /\ stream[pos + conn.dec.left + 1].t = "crlf" /\ stream[pos + conn.dec.left + 2].t = "size"
  /\ conn.dec.total = Bytes(k, pos) + conn.dec.left /\ conn.dec.total <= MaxTE

\* before that CRLF,
AtCrlf(k) ==
  /\ Within(k) /\ pos + 1 < EndOf(k) /\ ~requests[k].broken
  /\ stream[pos + 1].t = "crlf" /\ stream[pos + 2].t = "size"
  /\ conn.dec.total = Bytes(k, pos) /\ conn.dec.total <= MaxTE

\* or among the trailers.
InTrailer(k) ==
  Within(k) /\ conn.dec.total <= MaxTE /\ conn.dec.total = Bytes(k, pos)
  /\ \A i \in (pos + 1)..(EndOf(k) - 1) : stream[i].t = "field"

DecoderPlace(k) ==
  CASE conn.dec.state = "CHUNK_SIZE" -> AtSize(k) \/ Stuck(k)
    [] conn.dec.state = "CHUNK_BODY" -> InChunk(k)
    [] conn.dec.state = "CHUNK_CRLF" -> AtCrlf(k)
    [] conn.dec.state = "TRAILER" -> InTrailer(k)
    [] conn.dec.state = "DONE" -> "trailer" \in conn.cause \/ (pos = EndOf(k) /\ BodyUnits(k) <= MaxTE)

\* With a Content-Length, what remains of the body is in front.
LengthPlace(k) ==
  IF conn.body.exhausted THEN conn.cause = {} => pos = EndOf(k)
  ELSE HeadOf(k) <= pos /\ pos + conn.body.remaining = EndOf(k) /\ conn.body.remaining <= MaxContent

BodyPlace(k) ==
  CASE conn.body.kind = "none" -> pos = EndOf(k)
    [] conn.body.kind = "length" -> LengthPlace(k)
    [] conn.body.kind = "chunked" -> DecoderPlace(k)

\* The labels of run() before a head, after it, in the body, in the handler's
\* reads and in the answer; and no loss that shifts bytes so far.
Seeking == conn.pc = "head" \/ (conn.pc \in {"handshake", "top"} /\ conn.keepAlive)
Opening == conn.pc \in {"expect", "body"} \/ (conn.pc = "send" /\ conn.resp.kind = "continue")
Reading == conn.pc \in {"handler", "lengthRead", "chunk", "drain", "lengthDrain"}
Handling == conn.pc \in {"handler", "lengthRead"} \/ (conn.pc = "chunk" /\ conn.rd.who = "handler")
Replying ==
  \/ conn.pc = "answer" \/ (conn.pc = "send" /\ conn.resp.kind \notin {"continue", "error"})
  \/ conn.pc \in {"stream", "file"}
Upright == conn.cause \cap {"overread", "astray"} = {}

\* run() knows its place: the next request while it looks for a head, the end
\* of the head, the body, and the end of the request while it answers.
Place ==
  /\ conn.cause = {} /\ Seeking => Begins(Finals + 1, pos)
  /\ Opening => (Upright => pos = HeadOf(conn.req)) /\ conn.fed = 0
  /\ Reading /\ zeros = 0 /\ Upright => BodyPlace(conn.req)
  /\ Replying => (conn.keepAlive /\ conn.cause = {} => pos = EndOf(conn.req))

\* The handler has been fed the units of the body that lie behind.  The member
\* remaining_ of a chunked body counts down from 0 and wraps around.
Count ==
  /\ conn.foreign => ~Upright
  /\ conn.pc = "lengthRead" => conn.rd.written = 0
  /\ conn.cause = {} =>
       /\ conn.body.exhausted => conn.fed = BodyUnits(conn.req)
       /\ Reading /\ conn.body.exhausted /\ conn.body.kind = "chunked" => conn.dec.state = "DONE"
       /\ Handling => conn.fed + conn.rd.written = Bytes(conn.req, pos)
       /\ Handling /\ conn.body.kind = "chunked" =>
            conn.body.remaining = IF conn.fed = 0 THEN 0 ELSE Word - conn.fed

\* The properties of waits and closes.
Quiet == WaitsForTheMissing /\ NoSilentHangUp /\ LingersBeforeClose

IInv == Base /\ Sequel /\ Order /\ Place /\ Count /\ Quiet

-----------------------------------------------------------------------------
(* Arithmetic, and the client's stream                                       *)

\* A non-empty set of natural numbers has a smallest element.
LEMMA MinIsThere ==
  ASSUME NEW S \in SUBSET Nat, S # {}
  PROVE  Min(S) \in S /\ \A y \in S : Min(S) <= y
<1>1. \E x \in S : \A y \in S : ~(<<y, x>> \in OpToRel(<, Nat))
  BY WFMin, NatLessThanWellFounded
<1>2. PICK x \in S : \A y \in S : ~(<<y, x>> \in OpToRel(<, Nat))
  BY <1>1
<1>3. ASSUME NEW y \in S PROVE x <= y
  <2>1. y \in Nat /\ x \in Nat /\ <<y, x>> \in Nat \X Nat
    OBVIOUS
  <2>2. y < x => <<y, x>> \in OpToRel(<, Nat)
    BY <2>1 DEF OpToRel
  <2>3. ~(<<y, x>> \in OpToRel(<, Nat))
    BY <1>2
  <2>4. ~(y < x)
    BY <2>2, <2>3, Zenon
  <2> QED BY <2>1, <2>4
<1> QED BY <1>3 DEF Min

\* The smaller of two, and the smallest of three.
LEMMA MinOfTwo ==
  ASSUME NEW a \in Int, NEW b \in Int
  PROVE  Min({a, b}) \in {a, b} /\ Min({a, b}) <= a /\ Min({a, b}) <= b
  BY DEF Min

\* The smallest of three.
LEMMA MinOfThree ==
  ASSUME NEW a \in Int, NEW b \in Int, NEW c \in Int
  PROVE  /\ Min({a, b, c}) \in {a, b, c}
         /\ Min({a, b, c}) <= a /\ Min({a, b, c}) <= b /\ Min({a, b, c}) <= c
  BY DEF Min

\* Subtraction of size_t values, with and without wrapping around.
LEMMA Subtract ==
  ASSUME NEW a \in Nat, NEW n \in Nat, n <= a, a < Word
  PROVE  ((a + Word) - n) % Word = a - n
  BY Limits

\* The first unit taken from a remaining_ of 0 wraps around.
LEMMA WrapAround ==
  ASSUME NEW n \in Nat, n > 0, n < Word
  PROVE  ((0 + Word) - n) % Word = Word - n
  BY Limits

\* Whatever is taken, a size_t is left.
LEMMA ModIsNat == ASSUME NEW a \in Nat, NEW n \in Nat PROVE ((a + Word) - n) % Word \in Nat
<1>1. Word \in Nat /\ Word > 0
  BY Limits
<1>2. (a + Word) - n \in Int
  BY <1>1
<1> QED BY <1>1, <1>2

\* The connected client is one.
LEMMA TheClient ==
  ASSUME client \in Clients
  PROVE  /\ tls \in BOOLEAN
         /\ requests \in Seq(RequestType) /\ stream \in Seq(TokenType)
         /\ \A i, j \in 1..Len(stream) : i <= j => stream[i].r <= stream[j].r
         /\ \A i \in 1..Len(stream) : stream[i].r \in 1..Len(requests)
         /\ \A k \in 1..Len(requests) :
              \E b, h, e \in 1..Len(stream) : IsMessage(stream, k, requests[k], b, h, e)
  BY ClientsAreClients DEF IsClient, requests, stream, tls

\* Every request has its place in the stream.
LEMMA MessageOf ==
  ASSUME client \in Clients, NEW k \in 1..Len(requests)
  PROVE  /\ FirstOf(k) \in 1..Len(stream) /\ HeadOf(k) \in 1..Len(stream)
         /\ EndOf(k) \in 1..Len(stream)
         /\ IsMessage(stream, k, requests[k], FirstOf(k), HeadOf(k), EndOf(k))
<1>1. PICK b, h, e \in 1..Len(stream) : IsMessage(stream, k, requests[k], b, h, e)
  BY TheClient
<1>0. Len(stream) \in Nat
  BY TheClient
<1>2. {i \in 1..Len(stream) : stream[i].r = k} = b..e
  BY <1>0, <1>1 DEF IsMessage
<1>3. b <= e
  BY <1>0, <1>1 DEF IsMessage
<1>4. FirstOf(k) = b
  BY <1>0, <1>2, <1>3 DEF FirstOf, Min
<1>5. EndOf(k) = e
  BY <1>0, <1>2, <1>3 DEF EndOf, Max
<1> QED BY <1>1, <1>4, <1>5 DEF HeadOf

\* The units of a request are those from its first to its last.
LEMMA Units ==
  ASSUME client \in Clients, NEW k \in 1..Len(requests)
  PROVE  /\ FirstOf(k) <= HeadOf(k) /\ HeadOf(k) <= EndOf(k)
         /\ \A i \in 1..Len(stream) : stream[i].r = k <=> (FirstOf(k) <= i /\ i <= EndOf(k))
         /\ stream[HeadOf(k)].t = "head"
         /\ \A i \in FirstOf(k)..(HeadOf(k) - 1) :
              stream[i].t = "line" \/ (stream[i].t = "crlf" /\ \A j \in FirstOf(k)..i : stream[j].t = "crlf")
<1>0. Len(stream) \in Nat
  BY TheClient
<1> QED BY <1>0, MessageOf DEF IsMessage

\* The first request begins at the beginning.
LEMMA FirstBegins == ASSUME client \in Clients PROVE Begins(1, 0)
<1>0. Len(stream) \in Nat /\ Len(requests) \in Nat
  BY TheClient
<1>1. CASE Len(requests) = 0
  <2>1. Len(stream) = 0
    <3>1. SUFFICES ASSUME Len(stream) > 0 PROVE FALSE
      BY <1>0
    <3>2. stream[1].r \in 1..Len(requests)
      BY <1>0, <3>1, TheClient
    <3> QED BY <1>1, <3>2
  <2> QED BY <1>1, <2>1 DEF Begins
<1>2. CASE Len(requests) > 0
  <2>0. 1 \in 1..Len(requests)
    BY <1>0, <1>2
  <2>1. FirstOf(1) \in 1..Len(stream) /\ HeadOf(1) \in 1..Len(stream)
    BY <2>0, MessageOf
  <2>2. stream[FirstOf(1)].r = 1 /\ FirstOf(1) <= HeadOf(1)
    BY <2>0, <2>1, Units, MessageOf
  <2>3. 1 \in 1..Len(stream) /\ 1 <= FirstOf(1)
    BY <1>0, <2>1
  <2>4. stream[1].r <= 1 /\ stream[1].r \in 1..Len(requests)
    BY <2>1, <2>2, <2>3, TheClient
  <2>5. stream[1].r = 1
    BY <1>0, <2>4
  <2>6. FirstOf(1) <= 1
    BY <2>0, <2>3, <2>5, Units
  <2> QED BY <1>0, <1>2, <2>1, <2>2, <2>3, <2>6 DEF Begins
<1> QED BY <1>0, <1>1, <1>2

\* Where a request ends, the next one begins.
LEMMA NextBegins == ASSUME client \in Clients, NEW k \in 1..Len(requests) PROVE Begins(k + 1, EndOf(k))
<1>0. Len(stream) \in Nat /\ Len(requests) \in Nat /\ k \in Nat
  BY TheClient
<1>1. EndOf(k) \in 1..Len(stream) /\ stream[EndOf(k)].r = k
  BY MessageOf, Units, <1>0
<1>2. CASE k = Len(requests)
  <2>1. Len(stream) \in 1..Len(stream) /\ EndOf(k) <= Len(stream)
    BY <1>0, <1>1
  <2>2. k <= stream[Len(stream)].r /\ stream[Len(stream)].r \in 1..Len(requests)
    BY <1>1, <2>1, TheClient
  <2>3. stream[Len(stream)].r = k
    BY <1>0, <1>2, <2>2
  <2>4. Len(stream) <= EndOf(k)
    BY <2>1, <2>3, Units
  <2>5. EndOf(k) = Len(stream)
    BY <1>0, <1>1, <2>1, <2>4
  <2> QED BY <1>0, <1>2, <2>5 DEF Begins
<1>3. CASE k < Len(requests)
  <2>0. k + 1 \in 1..Len(requests)
    BY <1>0, <1>3
  <2>1. /\ FirstOf(k + 1) \in 1..Len(stream) /\ HeadOf(k + 1) \in 1..Len(stream)
        /\ stream[FirstOf(k + 1)].r = k + 1 /\ FirstOf(k + 1) <= HeadOf(k + 1)
    BY <2>0, MessageOf, Units, <1>0
  <2>2. EndOf(k) < FirstOf(k + 1)
    <3>1. SUFFICES ASSUME FirstOf(k + 1) <= EndOf(k) PROVE FALSE
      BY <1>0, <1>1, <2>1
    <3>2. stream[FirstOf(k + 1)].r <= stream[EndOf(k)].r
      BY <1>1, <2>1, <3>1, TheClient
    <3> QED BY <1>0, <1>1, <2>1, <3>2
  <2>3. EndOf(k) + 1 \in 1..Len(stream) /\ EndOf(k) <= EndOf(k) + 1 /\ EndOf(k) + 1 <= FirstOf(k + 1)
    BY <1>0, <1>1, <2>1, <2>2
  <2>4. k <= stream[EndOf(k) + 1].r /\ stream[EndOf(k) + 1].r <= k + 1
    BY <1>1, <2>1, <2>3, TheClient
  <2>5. stream[EndOf(k) + 1].r # k
    <3>1. SUFFICES ASSUME stream[EndOf(k) + 1].r = k PROVE FALSE
      OBVIOUS
    <3>2. EndOf(k) + 1 <= EndOf(k)
      BY <2>3, <3>1, Units
    <3> QED BY <1>0, <1>1, <3>2
  <2>6. stream[EndOf(k) + 1].r \in 1..Len(requests)
    BY <2>3, TheClient
  <2>7. stream[EndOf(k) + 1].r = k + 1
    BY <1>0, <2>4, <2>5, <2>6
  <2>8. FirstOf(k + 1) <= EndOf(k) + 1
    BY <2>0, <2>3, <2>7, Units
  <2>9. FirstOf(k + 1) = EndOf(k) + 1
    BY <1>0, <1>1, <2>1, <2>3, <2>8
  <2> QED BY <1>0, <1>1, <1>3, <2>1, <2>9 DEF Begins
<1> QED BY <1>0, <1>2, <1>3

\* The place where a request begins is a boundary.
LEMMA BeginsAtBoundary ==
  ASSUME client \in Clients, NEW k \in Nat, k > 0, NEW p \in Nat, Begins(k, p)
  PROVE  AtBoundary(p)
<1>0. Len(stream) \in Nat /\ Len(requests) \in Nat
  BY TheClient
<1>1. CASE k > Len(requests)
  BY <1>1 DEF Begins, AtBoundary
<1>2. CASE k <= Len(requests)
  <2>0. k \in 1..Len(requests)
    BY <1>0, <1>2
  <2>1. /\ FirstOf(k) \in 1..Len(stream) /\ HeadOf(k) \in 1..Len(stream) /\ EndOf(k) \in 1..Len(stream)
        /\ FirstOf(k) <= HeadOf(k) /\ HeadOf(k) <= EndOf(k)
    BY <2>0, MessageOf, Units
  <2>2. FirstOf(k) - 1 <= p /\ p < HeadOf(k) /\ \A i \in FirstOf(k)..p : stream[i].t = "crlf"
    BY <1>0, <1>2 DEF Begins
  <2>3. stream[p + 1].r = k
    BY <1>0, <2>0, <2>1, <2>2, Units
  <2>4. ASSUME NEW i \in 1..p, stream[i].r = k PROVE stream[i].t = "crlf"
    <3>1. FirstOf(k) <= i
      BY <1>0, <2>0, <2>1, <2>2, <2>4, Units
    <3> QED BY <2>1, <2>2, <3>1
  <2> QED BY <1>0, <2>1, <2>2, <2>3, <2>4 DEF AtBoundary
<1> QED BY <1>0, <1>1, <1>2

\* And a boundary before the end is where the request after it begins.
LEMMA BoundaryBegins ==
  ASSUME client \in Clients, NEW p \in Nat, p < Len(stream), AtBoundary(p)
  PROVE  stream[p + 1].r \in 1..Len(requests) /\ Begins(stream[p + 1].r, p)
<1>0. Len(stream) \in Nat /\ Len(requests) \in Nat
  BY TheClient
<1>1. p + 1 \in 1..Len(stream) /\ p # Len(stream)
  BY <1>0
<1>2. stream[p + 1].r \in 1..Len(requests)
  BY <1>1, TheClient
<1> DEFINE k == stream[p + 1].r
<1>3. k \in 1..Len(requests) /\ stream[p + 1].r = k
  BY <1>2
<1>4. \A i \in 1..p : stream[i].r = k => stream[i].t = "crlf"
  BY <1>1 DEF AtBoundary
<1> HIDE DEF k
<1>5. /\ FirstOf(k) \in 1..Len(stream) /\ HeadOf(k) \in 1..Len(stream) /\ EndOf(k) \in 1..Len(stream)
      /\ FirstOf(k) <= HeadOf(k) /\ HeadOf(k) <= EndOf(k) /\ stream[HeadOf(k)].t = "head"
      /\ stream[HeadOf(k)].r = k
  BY <1>0, <1>3, MessageOf, Units
<1>6. FirstOf(k) <= p + 1 /\ p + 1 <= EndOf(k)
  BY <1>1, <1>3, Units
<1>7. p < HeadOf(k)
  BY <1>0, <1>4, <1>5
<1>8. \A i \in FirstOf(k)..p : stream[i].t = "crlf"
  <2>1. SUFFICES ASSUME NEW i \in FirstOf(k)..p PROVE stream[i].t = "crlf"
    OBVIOUS
  <2>2. i \in 1..Len(stream) /\ FirstOf(k) <= i /\ i <= EndOf(k) /\ i \in 1..p
    BY <1>0, <1>1, <1>5, <1>6
  <2>3. stream[i].r = k
    BY <1>3, <2>2, Units
  <2> QED BY <1>4, <2>2, <2>3
<1>9. Begins(k, p)
  BY <1>0, <1>3, <1>5, <1>6, <1>7, <1>8 DEF Begins
<1> QED BY <1>2, <1>9 DEF k

\* Dropping a bare CRLF does not leave the beginning of a request.
LEMMA StripKeepsBegins ==
  ASSUME client \in Clients, NEW k \in Nat, k > 0, NEW p \in Nat, p < Len(stream), Begins(k, p),
         stream[p + 1].t = "crlf"
  PROVE  Begins(k, p + 1)
<1>0. Len(stream) \in Nat /\ Len(requests) \in Nat
  BY TheClient
<1>1. k \in 1..Len(requests)
  BY <1>0 DEF Begins
<1>2. /\ FirstOf(k) \in 1..Len(stream) /\ HeadOf(k) \in 1..Len(stream)
      /\ stream[HeadOf(k)].t = "head"
  BY <1>1, MessageOf, Units
<1>3. FirstOf(k) - 1 <= p /\ p < HeadOf(k) /\ \A i \in FirstOf(k)..p : stream[i].t = "crlf"
  BY <1>0, <1>1 DEF Begins
<1>4. p + 1 < HeadOf(k)
  BY <1>2, <1>3
<1>5. \A i \in FirstOf(k)..(p + 1) : stream[i].t = "crlf"
  BY <1>2, <1>3
<1> QED BY <1>0, <1>1, <1>2, <1>3, <1>4, <1>5 DEF Begins

\* The first blank line after a boundary is the end of the head there.
LEMMA FirstBlankLine ==
  ASSUME client \in Clients, NEW k \in 1..Len(requests), pos \in Nat, taken \in Nat, zeros = 0,
         taken <= Len(stream), Begins(k, pos), Unit(1) # "crlf", BlankLines # {}
  PROVE  pos + Min(BlankLines) = HeadOf(k)
<1>0. Len(stream) \in Nat /\ Len(requests) \in Nat /\ k \in Nat
  BY TheClient
<1>1. /\ FirstOf(k) \in 1..Len(stream) /\ HeadOf(k) \in 1..Len(stream) /\ EndOf(k) \in 1..Len(stream)
      /\ stream[HeadOf(k)].t = "head"
      /\ \A i \in FirstOf(k)..(HeadOf(k) - 1) :
              stream[i].t = "line" \/ (stream[i].t = "crlf" /\ \A j \in FirstOf(k)..i : stream[j].t = "crlf")
  BY MessageOf, Units
<1>2. FirstOf(k) - 1 <= pos /\ pos < HeadOf(k)
  BY <1>0 DEF Begins
<1> DEFINE end == Min(BlankLines)
<1>3. BlankLines \in SUBSET Nat
  BY DEF BlankLines, ReadBufferSize
<1>4. end \in BlankLines /\ \A y \in BlankLines : end <= y
  BY <1>3, MinIsThere
<1>5. end \in Nat /\ 1 <= end /\ end <= taken - pos /\ (Unit(end) = "head" \/ (Unit(end) = "crlf" /\ end > 1))
  BY <1>4 DEF BlankLines, ReadBufferSize
<1> HIDE DEF end
<1>6. Unit(end) = stream[pos + end].t /\ Unit(1) = stream[pos + 1].t
  BY <1>5 DEF Unit
<1>7. HeadOf(k) <= pos + end
  <2>1. SUFFICES ASSUME pos + end <= HeadOf(k) - 1 PROVE FALSE
    BY <1>1, <1>5
  <2>2. pos + end \in FirstOf(k)..(HeadOf(k) - 1) /\ pos + 1 \in FirstOf(k)..(pos + end)
    BY <1>1, <1>2, <1>5, <2>1
  <2>3. stream[pos + end].t = "crlf" /\ \A j \in FirstOf(k)..(pos + end) : stream[j].t = "crlf"
    BY <1>1, <1>5, <1>6, <2>2
  <2> QED BY <1>6, <2>2, <2>3
<1>8. HeadOf(k) - pos \in BlankLines
  <2>1. HeadOf(k) - pos \in 1..ReadBufferSize
    BY <1>1, <1>2, <1>5, <1>7 DEF ReadBufferSize
  <2>2. Unit(HeadOf(k) - pos) = "head"
    <3>1. pos + (HeadOf(k) - pos) = HeadOf(k) /\ HeadOf(k) <= taken
      BY <1>1, <1>5, <1>7
    <3> QED BY <1>1, <3>1 DEF Unit
  <2> QED BY <2>1, <2>2 DEF BlankLines
<1>9. end <= HeadOf(k) - pos
  BY <1>4, <1>8
<1> QED BY <1>1, <1>5, <1>7, <1>9, SMTT(30) DEF end

-----------------------------------------------------------------------------
(* Final answers, and the units of a body                                    *)

\* The final answers: one more, and one finished.
LEMMA FinalsAppend ==
  ASSUME NEW s \in Seq(ShownType), NEW x \in ShownType
  PROVE  /\ \A i \in 1..Len(s) : FinalsUpTo(Append(s, x), i) = FinalsUpTo(s, i)
         /\ FinalsUpTo(s, Len(s)) \in Nat
         /\ FinalsUpTo(Append(s, x), Len(s) + 1) =
              IF x.status # 100 THEN FinalsUpTo(s, Len(s)) + 1 ELSE FinalsUpTo(s, Len(s))
<1>0. PICK n \in Nat : n = Len(s)
  OBVIOUS
<1>1. PICK t : t = Append(s, x)
  OBVIOUS
<1>2. t[n + 1] = x /\ \A i \in 1..n : t[i] = s[i]
  BY <1>0, <1>1
<1>3. ASSUME NEW m \in 1..n PROVE FinalsUpTo(t, m) = FinalsUpTo(s, m)
  <2>1. {i \in 1..m : t[i].status # 100} = {i \in 1..m : s[i].status # 100}
    BY <1>2, <1>3
  <2> QED BY <2>1 DEF FinalsUpTo
<1>4. PICK F : F = {i \in 1..n : s[i].status # 100}
  OBVIOUS
<1>5. IsFiniteSet(F) /\ n + 1 \notin F
  <2>1. IsFiniteSet(1..n) /\ F \in SUBSET (1..n)
    BY <1>4, FS_Interval
  <2>2. n + 1 \notin F
    BY <1>4
  <2> QED BY <2>1, <2>2, FS_Subset
<1>6. Cardinality(F) \in Nat /\ Cardinality(F) = FinalsUpTo(s, n)
  BY <1>4, <1>5, FS_CardinalityType DEF FinalsUpTo
<1>7. {i \in 1..(n + 1) : t[i].status # 100} = IF x.status # 100 THEN F \cup {n + 1} ELSE F
  BY <1>2, <1>4
<1>8. FinalsUpTo(t, n + 1) = IF x.status # 100 THEN FinalsUpTo(s, n) + 1 ELSE FinalsUpTo(s, n)
  <2>1. CASE x.status # 100
    <3>1. Cardinality(F \cup {n + 1}) = Cardinality(F) + 1
      BY <1>5, FS_AddElement
    <3> QED BY <1>6, <1>7, <2>1, <3>1 DEF FinalsUpTo
  <2>2. CASE x.status = 100
    BY <1>6, <1>7, <2>2 DEF FinalsUpTo
  <2> QED BY <2>1, <2>2
<1> QED BY <1>0, <1>1, <1>3, <1>6, <1>8

\* Ending an answer does not change which answers are final.
LEMMA FinalsSame ==
  ASSUME NEW s \in Seq(ShownType), NEW t \in Seq(ShownType), Len(t) = Len(s),
         \A i \in 1..Len(s) : t[i].status = s[i].status
  PROVE  \A i \in 0..Len(s) : FinalsUpTo(t, i) = FinalsUpTo(s, i)
<1>1. SUFFICES ASSUME NEW n \in 0..Len(s) PROVE FinalsUpTo(t, n) = FinalsUpTo(s, n)
  OBVIOUS
<1>2. {i \in 1..n : t[i].status # 100} = {i \in 1..n : s[i].status # 100}
  BY <1>1
<1> QED BY <1>2 DEF FinalsUpTo

\* No answers, no final ones.
LEMMA FinalsNone == FinalsUpTo(<<>>, 0) = 0
<1>1. {i \in 1..0 : <<>>[i].status # 100} = {}
  OBVIOUS
<1> QED BY <1>1, FS_EmptySet DEF FinalsUpTo

\* Their number is one.
LEMMA FinalsNat == ASSUME NEW s \in Seq(ShownType) PROVE FinalsUpTo(s, Len(s)) \in Nat
<1>1. IsFiniteSet(1..Len(s)) /\ {i \in 1..Len(s) : s[i].status # 100} \in SUBSET (1..Len(s))
  BY FS_Interval
<1>2. IsFiniteSet({i \in 1..Len(s) : s[i].status # 100})
  BY <1>1, FS_Subset
<1> QED BY <1>2, FS_CardinalityType DEF FinalsUpTo

-----------------------------------------------------------------------------
\* The units of a body up to a place in the stream.
BytesOf(k, p) == {i \in 1..p : stream[i].r = k /\ stream[i].t = "byte"}

\* They can be counted.
LEMMA BytesAreFinite ==
  ASSUME NEW k, NEW p \in Nat
  PROVE  IsFiniteSet(BytesOf(k, p)) /\ Bytes(k, p) = Cardinality(BytesOf(k, p)) /\ Bytes(k, p) \in Nat
<1>1. IsFiniteSet(1..p) /\ BytesOf(k, p) \in SUBSET (1..p)
  BY FS_Interval DEF BytesOf
<1>2. IsFiniteSet(BytesOf(k, p))
  BY <1>1, FS_Subset
<1>3. Bytes(k, p) = Cardinality(BytesOf(k, p))
  BY DEF BytesOf, Bytes
<1> QED BY <1>2, <1>3, FS_CardinalityType

\* They grow by n over n units of the body,
LEMMA BytesGrow ==
  ASSUME NEW k, NEW p \in Nat, NEW n \in Nat,
         \A i \in (p + 1)..(p + n) : stream[i].r = k /\ stream[i].t = "byte"
  PROVE  Bytes(k, p + n) = Bytes(k, p) + n
<1>1. BytesOf(k, p + n) = BytesOf(k, p) \cup ((p + 1)..(p + n))
  BY DEF BytesOf
<1>2. BytesOf(k, p) \cap ((p + 1)..(p + n)) = {}
  BY DEF BytesOf
<1>3. IsFiniteSet((p + 1)..(p + n)) /\ Cardinality((p + 1)..(p + n)) = n
  BY FS_Interval
<1>4. IsFiniteSet(BytesOf(k, p)) /\ Bytes(k, p) = Cardinality(BytesOf(k, p)) /\ Bytes(k, p) \in Nat
  BY BytesAreFinite
<1>5. Bytes(k, p + n) = Cardinality(BytesOf(k, p + n))
  BY BytesAreFinite
<1>6. Cardinality(BytesOf(k, p + n)) = Cardinality(BytesOf(k, p)) + n - Cardinality({})
  BY <1>1, <1>2, <1>3, <1>4, FS_Union
<1> QED BY <1>4, <1>5, <1>6, FS_EmptySet

\* and do not over others.
LEMMA BytesStay ==
  ASSUME NEW k, NEW p \in Nat, NEW q \in Nat, p <= q,
         \A i \in (p + 1)..q : stream[i].r # k \/ stream[i].t # "byte"
  PROVE  Bytes(k, q) = Bytes(k, p)
<1>1. BytesOf(k, q) = BytesOf(k, p)
  BY DEF BytesOf
<1> QED BY <1>1 DEF BytesOf, Bytes

\* There are none before the end of the head, and all of them at the end.
LEMMA BytesInHead ==
  ASSUME client \in Clients, NEW k \in 1..Len(requests)
  PROVE  Bytes(k, HeadOf(k)) = 0
<1>0. Len(stream) \in Nat
  BY TheClient
<1>1. HeadOf(k) \in 1..Len(stream) /\ FirstOf(k) \in 1..Len(stream)
  BY MessageOf
<1>2. BytesOf(k, HeadOf(k)) = {}
  <2>1. SUFFICES ASSUME NEW i \in 1..HeadOf(k), stream[i].r = k, stream[i].t = "byte" PROVE FALSE
    BY DEF BytesOf
  <2>2. FirstOf(k) <= i
    BY <1>0, <1>1, <2>1, Units
  <2>3. i # HeadOf(k)
    BY <2>1, Units
  <2> QED BY <1>1, <2>1, <2>2, <2>3, Units
<1>3. Bytes(k, HeadOf(k)) = Cardinality(BytesOf(k, HeadOf(k)))
  BY <1>1, BytesAreFinite
<1> QED BY <1>2, <1>3, FS_EmptySet

\* All of them lie before the end of the request.
LEMMA BytesAtEnd ==
  ASSUME client \in Clients, NEW k \in 1..Len(requests)
  PROVE  Bytes(k, EndOf(k)) = BodyUnits(k)
<1>0. Len(stream) \in Nat
  BY TheClient
<1>1. EndOf(k) \in 1..Len(stream)
  BY MessageOf
<1>2. BytesOf(k, EndOf(k)) = {i \in 1..Len(stream) : stream[i].r = k /\ stream[i].t = "byte"}
  BY <1>0, <1>1, Units DEF BytesOf
<1> QED BY <1>2 DEF BytesOf, Bytes, BodyUnits

\* No place has more of them behind it than the body has.
LEMMA BytesBound ==
  ASSUME client \in Clients, NEW k, NEW p \in Nat, p <= Len(stream)
  PROVE  Bytes(k, p) <= BodyUnits(k) /\ BodyUnits(k) \in Nat
<1>0. Len(stream) \in Nat
  BY TheClient
<1>1. BytesOf(k, p) \in SUBSET BytesOf(k, Len(stream))
  BY <1>0 DEF BytesOf
<1>2. Bytes(k, Len(stream)) = BodyUnits(k)
  BY DEF Bytes, BodyUnits
<1>3. Cardinality(BytesOf(k, p)) <= Cardinality(BytesOf(k, Len(stream)))
  BY <1>0, <1>1, BytesAreFinite, FS_Subset
<1> QED BY <1>0, <1>2, <1>3, BytesAreFinite

-----------------------------------------------------------------------------
\* What a read from the socket leaves in the read buffer, and what it says.
LEMMA DrainFacts ==
  ASSUME TypeOK, NEW max \in Nat
  PROVE  LET d == DrainIntoReadBuffer(max)
         IN /\ d.buf.taken \in Nat /\ taken <= d.buf.taken /\ d.buf.taken <= sent
            /\ d.buf.zeros \in Nat /\ zeros <= d.buf.zeros
            /\ d.result \in {"LIMIT", "CLOSED", "DATA", "WOULD_BLOCK"}
            /\ d.result = "CLOSED" => fin
            /\ d.result # "CLOSED" => d.buf.zeros = zeros
            /\ d.result = "LIMIT" => (d.buf.taken + d.buf.zeros) - pos >= max
            /\ d.result = "WOULD_BLOCK" => ~fin /\ taken = sent /\ d.buf.taken = taken
            /\ d.result = "DATA" => d.buf.taken > taken
<1> DEFINE size == ReadBufferSize
           room == Min({SingleRead, max - size})
           n    == Min({room, sent - taken})
<1>1. size \in Nat /\ sent - taken \in Nat /\ taken \in Nat /\ sent \in Nat /\ zeros \in Nat /\ size = (taken + zeros) - pos /\ pos \in Nat
  BY DEF TypeOK, ReadBufferSize
<1>2. SingleRead \in Nat /\ SingleRead > 0
  BY Limits
<1> HIDE DEF size
<1>3. ASSUME size < max PROVE room \in Nat /\ room > 0 /\ room <= max - size
  <2>1. PICK b \in Nat : b = max - size /\ b > 0
    BY <1>1, <1>3
  <2>2. Min({SingleRead, b}) \in {SingleRead, b} /\ Min({SingleRead, b}) <= b
    BY <1>2, MinOfTwo
  <2> QED BY <1>2, <2>1, <2>2
<1> HIDE DEF room
<1>4. ASSUME size < max PROVE n \in Nat /\ n <= room /\ n <= sent - taken /\ (n # room => n = sent - taken)
  <2>1. room \in Nat /\ sent - taken \in Nat
    BY <1>1, <1>3, <1>4
  <2>2. PICK b \in Nat : b = sent - taken
    BY <2>1
  <2>3. Min({room, b}) \in {room, b} /\ Min({room, b}) <= room /\ Min({room, b}) <= b
    BY <2>1, MinOfTwo
  <2> QED BY <2>1, <2>2, <2>3
<1> HIDE DEF n
<1>5. DrainIntoReadBuffer(max) =
        IF size >= max THEN [result |-> "LIMIT", buf |-> [taken |-> taken, zeros |-> zeros]]
        ELSE IF n = room
          THEN [result |-> IF size + n >= max THEN "LIMIT" ELSE "DATA",
                buf |-> [taken |-> taken + n, zeros |-> zeros]]
        ELSE IF fin THEN [result |-> "CLOSED", buf |-> [[taken |-> taken + n, zeros |-> zeros] EXCEPT !.zeros = @ + (room - n)]]
        ELSE [result |-> IF n > 0 THEN "DATA" ELSE "WOULD_BLOCK", buf |-> [taken |-> taken + n, zeros |-> zeros]]
  BY DEF DrainIntoReadBuffer, n, room, size
<1>6. CASE size >= max
  BY <1>1, <1>5, <1>6
<1>7. CASE size < max /\ n = room
  BY <1>1, <1>3, <1>4, <1>5, <1>7
<1>8. CASE size < max /\ n # room /\ fin
  BY <1>1, <1>3, <1>4, <1>5, <1>8
<1>9. CASE size < max /\ n # room /\ ~fin
  BY <1>1, <1>3, <1>4, <1>5, <1>9
<1> QED BY <1>1, <1>6, <1>7, <1>8, <1>9

\* What a completed co_await io_.read() can have done.
LEMMA OutcomeFacts ==
  ASSUME TypeOK, NEW max \in Nat, NEW o \in ReadOutcomes(max)
  PROVE  /\ o.buf.taken \in Nat /\ taken <= o.buf.taken /\ o.buf.taken <= sent
         /\ o.buf.zeros \in Nat /\ zeros <= o.buf.zeros
         /\ o.result \in {"LIMIT", "CLOSED", "DATA", "WOULD_BLOCK", "TIMED_OUT"}
         /\ o.result = "CLOSED" => fin
         /\ o.result # "CLOSED" => o.buf.zeros = zeros
         /\ o.result = "LIMIT" => (o.buf.taken + o.buf.zeros) - pos >= max
         /\ o.result = "WOULD_BLOCK" => tls /\ o.buf.taken = taken
         /\ o.result = "TIMED_OUT" => suspended
         /\ o.late \in BOOLEAN /\ (o.late => o.result = "TIMED_OUT" \/ timedOut)
         /\ o.partials \in Nat
<1> DEFINE d == DrainIntoReadBuffer(max)
           as_is == [taken |-> taken, zeros |-> zeros]
           a == [result |-> d.result, buf |-> d.buf, late |-> (timedOut /\ ~suspended), partials |-> partials]
           b == [result |-> "WOULD_BLOCK", buf |-> as_is, late |-> FALSE, partials |-> partials + 1]
           c == [result |-> "TIMED_OUT", buf |-> as_is, late |-> TRUE, partials |-> partials]
<1>1. \/ o = a /\ (o.result # "WOULD_BLOCK" \/ sent > taken \/ fin)
      \/ o = b /\ tls
      \/ o = c /\ suspended
  BY DEF ReadOutcomes
<1>2. /\ d.buf.taken \in Nat /\ taken <= d.buf.taken /\ d.buf.taken <= sent
      /\ d.buf.zeros \in Nat /\ zeros <= d.buf.zeros
      /\ d.result \in {"LIMIT", "CLOSED", "DATA", "WOULD_BLOCK"}
      /\ d.result = "CLOSED" => fin
      /\ d.result # "CLOSED" => d.buf.zeros = zeros
      /\ d.result = "LIMIT" => (d.buf.taken + d.buf.zeros) - pos >= max
      /\ d.result = "WOULD_BLOCK" => ~fin /\ taken = sent
  BY DrainFacts
<1>3. /\ taken \in Nat /\ zeros \in Nat /\ sent \in Nat /\ taken <= sent /\ partials \in Nat
      /\ timedOut \in BOOLEAN /\ suspended \in BOOLEAN
  BY DEF TypeOK
<1> HIDE DEF d
<1>4. CASE o = a /\ (o.result # "WOULD_BLOCK" \/ sent > taken \/ fin)
  BY <1>2, <1>3, <1>4
<1>5. CASE o = b /\ tls
  BY <1>3, <1>5
<1>6. CASE o = c /\ suspended
  BY <1>3, <1>6
<1> QED BY <1>1, <1>4, <1>5, <1>6

-----------------------------------------------------------------------------
\* The fields of the frames the helpers return.
LEMMA ThrowFields ==
  ASSUME NEW c \in ConnType, NEW s \in Nat, s # 100
  PROVE  LET d == Throw(c, s)
         IN /\ d \in ConnType
            /\ d.req = c.req /\ d.body = c.body /\ d.dec = c.dec /\ d.fed = c.fed
            /\ d.foreign = c.foreign /\ d.cause = c.cause /\ d.late = c.late /\ d.lingered = c.lingered
            /\ c.rd.who = "handler" =>
                 /\ d.pc = "drain" /\ ~d.keepAlive /\ d.rd = NoRead /\ d.thrown = c.thrown
                 /\ d.resp.kind = "plain" /\ d.resp.status = s
            /\ c.rd.who # "handler" =>
                 d.pc = "closed" /\ d.thrown /\ d.keepAlive = c.keepAlive /\ d.rd = c.rd /\ d.resp = c.resp
<1>1. CASE c.rd.who = "handler"
  BY <1>1, ZenonT(60) DEF Throw, ConnType, Labels, NoRead, ReadType, NoAnswer, AnswerType, Answers, FirstKinds
<1>2. CASE c.rd.who # "handler"
  BY <1>2 DEF Throw, Closed, ConnType, Labels
<1> QED BY <1>1, <1>2

\* sendErrorResponseAndClose() leaves all but the answer and keep-alive.
LEMMA ErrorFields ==
  ASSUME NEW c \in ConnType, NEW s \in Nat
  PROVE  LET d == SendErrorAndClose(c, s)
         IN /\ d \in ConnType
            /\ d.pc = "send" /\ ~d.keepAlive
            /\ d.resp.kind = "error" /\ d.resp.close /\ d.resp.status = s
            /\ d.req = c.req /\ d.body = c.body /\ d.dec = c.dec /\ d.rd = c.rd /\ d.fed = c.fed
            /\ d.foreign = c.foreign /\ d.cause = c.cause /\ d.late = c.late /\ d.thrown = c.thrown
            /\ d.lingered = c.lingered
  BY DEF SendErrorAndClose, ConnType, NoAnswer, AnswerType, FirstKinds, Labels

\* BodyStream::read(): back to the handler, on with readAll(), or 413.
LEMMA ReturnFields ==
  ASSUME NEW c \in ConnType, NEW n \in Nat, c.rd.who = "handler"
  PROVE  LET d == ReadReturns(c, n)
             remaining == ((c.body.remaining + Word) - n) % Word
         IN /\ d \in ConnType
            /\ d.req = c.req /\ d.dec = c.dec /\ d.fed = c.fed + n
            /\ d.foreign = c.foreign /\ d.cause = c.cause /\ d.late = c.late /\ d.thrown = c.thrown
            /\ d.lingered = c.lingered
            /\ d.body.kind = c.body.kind /\ d.body.remaining = remaining
            /\ d.body.exhausted = (n = 0 \/ remaining = 0)
            /\ \/ d.pc = "handler" /\ d.rd = NoRead /\ d.keepAlive = c.keepAlive /\ d.resp = c.resp
               \/ /\ d.pc = "drain" /\ d.rd = NoRead /\ ~d.keepAlive
                  /\ d.resp.kind = "plain" /\ d.resp.status = 413
               \/ /\ d.pc = c.pc /\ d.keepAlive = c.keepAlive /\ d.resp = c.resp
                  /\ d.rd.who = "handler" /\ d.rd.size = c.rd.size /\ d.rd.written = 0 /\ ~d.rd.search
                  /\ n > 0 /\ ~d.body.exhausted
<1> DEFINE remaining == ((c.body.remaining + Word) - n) % Word
           got == c.rd.got + n
           d == [c EXCEPT !.body.remaining = remaining,
                          !.body.exhausted = Exhausts(c, n, remaining),
                          !.fed = @ + n,
                          !.rd.got = got, !.rd.written = 0, !.rd.search = FALSE]
           e == [d EXCEPT !.pc = "handler", !.rd = NoRead]
<1>1. c.body.remaining \in Nat /\ c.rd.got \in Nat /\ c.fed \in Nat
  BY DEF ConnType, BodyType, ReadType
<1>2. remaining \in Nat /\ got \in Nat /\ c.fed + n \in Nat
  <2>1. PICK a \in Nat : a = c.body.remaining
    BY <1>1
  <2>2. ((a + Word) - n) % Word \in Nat
    BY ModIsNat
  <2> QED BY <1>1, <2>1, <2>2
<1>3. Exhausts(c, n, remaining) \in BOOLEAN /\ (Exhausts(c, n, remaining) = (n = 0 \/ remaining = 0))
  BY DEF Exhausts
<1> HIDE DEF remaining, got
<1>4. /\ d \in ConnType
      /\ d.req = c.req /\ d.dec = c.dec /\ d.fed = c.fed + n
      /\ d.foreign = c.foreign /\ d.cause = c.cause /\ d.late = c.late /\ d.thrown = c.thrown
      /\ d.lingered = c.lingered
      /\ d.body.kind = c.body.kind /\ d.body.remaining = remaining
      /\ d.body.exhausted = (n = 0 \/ remaining = 0)
      /\ d.pc = c.pc /\ d.keepAlive = c.keepAlive /\ d.resp = c.resp
      /\ d.rd.who = "handler" /\ d.rd.size = c.rd.size /\ d.rd.written = 0 /\ ~d.rd.search
  BY <1>2, <1>3, ZenonT(60) DEF ConnType, BodyType, ReadType
<1> HIDE DEF d
<1>5. /\ e \in ConnType
      /\ e.req = d.req /\ e.dec = d.dec /\ e.fed = d.fed
      /\ e.foreign = d.foreign /\ e.cause = d.cause /\ e.late = d.late /\ e.thrown = d.thrown
      /\ e.lingered = d.lingered /\ e.body = d.body
      /\ e.pc = "handler" /\ e.rd = NoRead /\ e.keepAlive = d.keepAlive /\ e.resp = d.resp
  BY <1>4 DEF ConnType, Labels, NoRead, ReadType
<1> HIDE DEF e
<1>6. c.rd.all \in BOOLEAN
  BY DEF ConnType, ReadType
<1>7. ReadReturns(c, n) =
        CASE ~c.rd.all -> e
          [] c.rd.all /\ n = 0 -> e
          [] c.rd.all /\ n > 0 /\ got >= MaxContent -> Throw(d, 413)
          [] c.rd.all /\ n > 0 /\ got < MaxContent -> IF d.body.exhausted THEN e ELSE d
  BY DEF ReadReturns, d, e, got, remaining
<1>8. MaxContent \in Nat
  BY Limits
<1>9. \/ ReadReturns(c, n) = e
      \/ ReadReturns(c, n) = Throw(d, 413)
      \/ ReadReturns(c, n) = d /\ n > 0 /\ ~d.body.exhausted
  <2>1. CASE ~c.rd.all
    BY <1>7, <2>1
  <2>2. CASE c.rd.all /\ n = 0
    BY <1>7, <2>2
  <2>3. CASE c.rd.all /\ n > 0 /\ got >= MaxContent
    BY <1>2, <1>7, <1>8, <2>3
  <2>4. CASE c.rd.all /\ n > 0 /\ got < MaxContent
    BY <1>2, <1>7, <1>8, <2>4
  <2> QED BY <1>2, <1>8, <2>1, <2>2, <2>3, <2>4
<1>10. CASE ReadReturns(c, n) = e
  BY <1>4, <1>5, <1>10 DEF remaining
<1>11. CASE ReadReturns(c, n) = Throw(d, 413)
  BY <1>4, <1>11, ThrowFields DEF remaining
<1>12. CASE ReadReturns(c, n) = d /\ n > 0 /\ ~d.body.exhausted
  BY <1>4, <1>12 DEF remaining
<1> QED BY <1>9, <1>10, <1>11, <1>12

\* resetForNextRequest() leaves nothing of the request.
LEMMA ResetFields ==
  ASSUME NEW c \in ConnType
  PROVE  LET d == ResetForNextRequest(c)
         IN /\ d \in ConnType
            /\ d.pc = "top" /\ d.req = 0 /\ d.dec = NewDecoder /\ d.body = NoBody /\ d.rd = NoRead
            /\ d.resp = NoAnswer /\ d.keepAlive = c.keepAlive /\ d.fed = c.fed
            /\ d.foreign = c.foreign /\ d.cause = c.cause /\ d.late = c.late /\ d.thrown = c.thrown
            /\ d.lingered = c.lingered
  BY DEF ResetForNextRequest, ConnType, Labels, NewDecoder, NoBody, NoRead, NoAnswer, DecoderType,
         BodyType, ReadType, AnswerType

-----------------------------------------------------------------------------
(* Kinds of steps, and the types                                             *)

\* The limits are numbers, and nobody reads into an empty buffer.
LEMMA Constants ==
  /\ SingleRead \in Nat /\ MaxHeader \in Nat /\ MaxContent \in Nat /\ MaxTEChunk \in Nat /\ MaxTE \in Nat
  /\ Scratch \in Nat /\ Scratch > 0 /\ \A b \in BufSizes : b \in Nat /\ b > 0
  BY Limits

\* Kinds of steps.
Same(l) ==
  /\ conn' \in ConnType /\ conn'.pc = l
  /\ conn'.req = conn.req /\ conn'.keepAlive = conn.keepAlive /\ conn'.body = conn.body
  /\ conn'.dec = conn.dec /\ conn'.rd = conn.rd /\ conn'.resp = conn.resp /\ conn'.fed = conn.fed
  /\ conn'.foreign = conn.foreign /\ conn'.cause = conn.cause /\ conn'.late = conn.late
  /\ conn'.thrown = conn.thrown /\ conn'.lingered = conn.lingered

\* The request and the history stay.
Kept ==
  /\ conn' \in ConnType /\ conn'.req = conn.req
  /\ conn'.cause = conn.cause /\ conn'.late = conn.late
  /\ conn'.thrown = conn.thrown /\ conn'.lingered = conn.lingered

\* A step of the server.
Server0 == UNCHANGED <<client, sent, fin, shutdown, out>>

\* Without I/O,
Calm == /\ Server0 /\ UNCHANGED <<partials, taken, zeros, suspended>>
        /\ ~suspended /\ timedOut' \in BOOLEAN /\ (timedOut' => timedOut)

\* to a wait,
Suspend == /\ Server0 /\ UNCHANGED <<partials, taken, zeros, pos, timedOut, conn>>
           /\ ~suspended /\ suspended' = TRUE
           /\ conn.pc \in {"handshake", "head", "lengthRead", "lengthDrain", "chunk", "send", "file", "linger"}
           /\ conn.pc \in {"head", "lengthRead", "lengthDrain", "chunk"} => ~fin

\* with a read from the socket,
Read == /\ Server0 /\ partials' \in Nat /\ suspended' = FALSE /\ timedOut' \in BOOLEAN
        /\ taken' \in Nat /\ taken <= taken' /\ taken' <= sent /\ zeros' \in Nat /\ zeros <= zeros'

\* back to the same label,
Resume == /\ Read /\ pos' = pos /\ zeros' = zeros
          /\ conn.pc \in {"handshake", "head", "lengthDrain", "chunk", "file"}
          /\ timedOut' => timedOut \/ conn'.late
          /\ conn' \in ConnType
          /\ conn'.pc = conn.pc
          /\ conn'.req = conn.req /\ conn'.keepAlive = conn.keepAlive /\ conn'.body = conn.body
          /\ conn'.dec = conn.dec /\ conn'.resp = conn.resp /\ conn'.fed = conn.fed
          /\ conn'.rd.who = conn.rd.who /\ conn'.rd.size = conn.rd.size /\ conn'.rd.written = conn.rd.written
          /\ conn.pc # "chunk" => conn'.rd = conn.rd
          /\ conn'.foreign = conn.foreign /\ conn'.cause = conn.cause /\ (conn.late => conn'.late)
          /\ conn'.thrown = conn.thrown /\ conn'.lingered = conn.lingered

\* out of run(),
Close == /\ Read /\ pos' \in Nat /\ pos' <= taken' + zeros' /\ (zeros' > zeros => fin)
         /\ conn' \in ConnType /\ conn'.pc = "closed" /\ conn.pc # "closed"
         /\ conn'.req = conn.req /\ conn'.body = conn.body
         /\ conn'.resp.kind = conn.resp.kind
         /\ conn'.resp.status = conn.resp.status /\ conn'.fed = conn.fed
         /\ conn'.foreign = conn.foreign /\ conn'.cause = conn.cause
         /\ (conn.late => conn'.late) /\ (conn.thrown => conn'.thrown)

\* and to an error.
Fail == /\ Server0 /\ partials' \in Nat /\ UNCHANGED <<taken, zeros, pos>> /\ suspended' = FALSE /\ timedOut' \in BOOLEAN
        /\ conn.pc \in {"head", "expect", "body", "answer"}
        /\ timedOut' => timedOut \/ conn'.late
        /\ conn' \in ConnType /\ conn'.pc = "send" /\ ~conn'.keepAlive
        /\ conn'.resp.kind = "error" /\ conn'.resp.close
        /\ conn'.req = conn.req /\ conn'.body = conn.body /\ conn'.dec = conn.dec /\ conn'.rd = conn.rd
        /\ conn'.fed = conn.fed
        /\ conn'.foreign = conn.foreign /\ conn'.cause = conn.cause /\ (conn.late => conn'.late)
        /\ conn'.thrown = conn.thrown /\ conn'.lingered = conn.lingered

\* Going to another label changes nothing else of the frame.
LEMMA GotoFields == ASSUME NEW l \in Labels, conn \in ConnType, conn' = Goto(conn, l) PROVE Same(l)
  BY DEF Goto, ConnType, Same

\* More received, more in the buffer.
LEMMA AddBoth ==
  ASSUME NEW a \in Nat, NEW b \in Nat, NEW c \in Nat, NEW d \in Nat, a <= c, b <= d
  PROVE  /\ a + b <= c + d /\ a + b \in Nat /\ c + d \in Nat
         /\ \A p \in Nat : p <= a + b => p <= c + d
  OBVIOUS

\* What Base says of the variables, one by one,
LEMMA TypeFacts ==
  ASSUME Base
  PROVE  /\ client \in Clients
         /\ sent \in Nat /\ sent <= Len(stream) /\ Len(stream) \in Nat /\ Len(requests) \in Nat
         /\ fin \in BOOLEAN /\ shutdown \in BOOLEAN /\ suspended \in BOOLEAN /\ timedOut \in BOOLEAN
         /\ partials \in Nat
         /\ pos \in Nat /\ taken \in Nat /\ zeros \in Nat
         /\ taken <= sent /\ pos <= taken + zeros
         /\ conn \in ConnType
         /\ out \in Seq(ShownType)
         /\ ReadBufferSize = (taken + zeros) - pos /\ ReadBufferSize \in Nat
  BY TheClient DEF Base, TypeOK, ReadBufferSize

\* and of the fields of the frame.
LEMMA ConnFacts ==
  ASSUME conn \in ConnType
  PROVE  /\ conn.pc \in Labels /\ conn.req \in Nat /\ conn.keepAlive \in BOOLEAN
         /\ conn.body.kind \in {"none", "length", "chunked"} /\ conn.body.remaining \in Nat
         /\ conn.body.exhausted \in BOOLEAN
         /\ conn.dec.state \in {"CHUNK_SIZE", "CHUNK_BODY", "CHUNK_CRLF", "TRAILER", "DONE"}
         /\ conn.dec.left \in Nat /\ conn.dec.total \in Nat
         /\ conn.rd.who \in {"nobody", "handler", "drain"} /\ conn.rd.size \in Nat /\ conn.rd.written \in Nat
         /\ conn.rd.all \in BOOLEAN /\ conn.rd.got \in Nat /\ conn.rd.search \in BOOLEAN
         /\ conn.resp.kind \in {"none"} \cup Answers \cup FirstKinds \cup LaterKinds
         /\ conn.resp.status \in Nat /\ conn.resp.close \in BOOLEAN /\ conn.resp.chunks \in Nat
         /\ conn.fed \in Nat /\ conn.foreign \in BOOLEAN /\ conn.late \in BOOLEAN
         /\ conn.thrown \in BOOLEAN /\ conn.lingered \in BOOLEAN
  BY DEF ConnType, BodyType, DecoderType, ReadType, AnswerType

\* The request that is being served.
LEMMA ReqFacts ==
  ASSUME Base, InRequest
  PROVE  conn.req \in 1..Len(requests) /\ Req \in RequestType
  BY TheClient DEF Base, TypeOK, Control, Req

\* A step that does not wait or read keeps the types and the waits.
LEMMA CalmBase ==
  ASSUME Base, Calm, conn' \in ConnType, pos' \in Nat, pos' <= taken + zeros,
         conn'.keepAlive => conn.keepAlive \/ zeros = 0, conn.late => conn'.late, conn.pc # "closed", Control'
  PROVE  Base'
<1>1. TypeOK'
  BY DEF Base, TypeOK, Calm, Server0, stream
<1>2. Waiting'
  BY TypeFacts DEF Base, Waiting, Calm, Server0
<1> QED BY <1>1, <1>2 DEF Base

\* co_await suspends run(): only where the code has one, and with the client there.
LEMMA SuspendBase == ASSUME Base, Suspend PROVE Base'
<1>1. TypeOK'
  BY DEF Base, TypeOK, Suspend, Server0, stream
<1>2. Control'
  BY DEF Base, Control, Suspend, Server0, InRequest, requests, Req
<1>3. Waiting'
  BY DEF Base, Waiting, Suspend, Server0
<1> QED BY <1>1, <1>2, <1>3 DEF Base

\* A wake-up that has run() look again.
LEMMA ResumeBase == ASSUME Base, Resume PROVE Base'
<1>1. TypeOK'
  <2>1. pos' <= taken' + zeros' /\ taken' <= sent' /\ sent' \in Nat
    BY TypeFacts DEF Resume, Read, Server0
  <2>2. sent' <= Len(stream') /\ client' \in Clients /\ fin' \in BOOLEAN /\ shutdown' \in BOOLEAN /\ out' \in Seq(ShownType)
    BY TypeFacts DEF Resume, Read, Server0, stream
  <2> QED BY <2>1, <2>2, TypeFacts DEF TypeOK, Resume, Read
<1>2. Control'
  BY DEF Base, Control, Resume, Read, Server0, InRequest, requests, Req
<1>3. Waiting'
  BY DEF Base, Waiting, Resume, Read, Server0
<1> QED BY <1>1, <1>2, <1>3 DEF Base

\* run() returns.
LEMMA CloseBase == ASSUME Base, Close PROVE Base'
<1>1. TypeOK'
  <2>1. pos' <= taken' + zeros' /\ taken' <= sent' /\ sent' \in Nat
    BY TypeFacts DEF Close, Read, Server0
  <2>2. sent' <= Len(stream') /\ client' \in Clients /\ fin' \in BOOLEAN /\ shutdown' \in BOOLEAN /\ out' \in Seq(ShownType)
    BY TypeFacts DEF Close, Read, Server0, stream
  <2> QED BY <2>1, <2>2, TypeFacts DEF TypeOK, Close, Read
<1>2. Control'
  BY DEF Base, Control, Close, Read, Server0, InRequest, requests, Req
<1>3. Waiting'
  BY TypeFacts DEF Base, Waiting, Close, Read, Server0
<1> QED BY <1>1, <1>2, <1>3 DEF Base

\* sendErrorResponseAndClose() in front of or between request and answer.
LEMMA FailBase == ASSUME Base, Fail PROVE Base'
<1>1. TypeOK'
  BY TypeFacts DEF TypeOK, Fail, Server0, stream
<1>2. Control'
  BY DEF Base, Control, Fail, Server0, InRequest, requests, Req, FirstKinds
<1>3. Waiting'
  BY DEF Base, Waiting, Fail, Server0
<1> QED BY <1>1, <1>2, <1>3 DEF Base

\* The client, the shutdown flag and the wait itself.
LEMMA EnvironmentFields ==
  ASSUME Base, ClientSends \/ ClientCloses \/ ServerShutsDown
  PROVE  /\ UNCHANGED <<client, pos, taken, zeros, suspended, timedOut, conn, out, partials>>
         /\ sent' \in Nat /\ sent <= sent' /\ sent' <= Len(stream)
         /\ fin' \in BOOLEAN /\ (fin => fin') /\ shutdown' \in BOOLEAN
         /\ conn.pc # "closed"
<1>1. CASE ClientSends
  BY <1>1, TypeFacts DEF ClientSends, At
<1>2. CASE ClientCloses
  BY <1>2, TypeFacts DEF ClientCloses, At
<1>3. CASE ServerShutsDown
  BY <1>3, TypeFacts DEF ServerShutsDown, At
<1> QED BY <1>1, <1>2, <1>3

\* The client and the shutdown flag keep the types and the control flow.
LEMMA EnvironmentBase ==
  ASSUME Base, ClientSends \/ ClientCloses \/ ServerShutsDown
  PROVE  Base'
<1>1. TypeOK'
  BY TypeFacts, EnvironmentFields DEF TypeOK, stream
<1>2. Control'
  BY EnvironmentFields DEF Base, Control, InRequest, requests, Req
<1>3. Waiting'
  BY EnvironmentFields DEF Base, Waiting
<1> QED BY <1>1, <1>2, <1>3 DEF Base

-----------------------------------------------------------------------------
(* Which action is which kind of step                                        *)

\* Why the connection may close.
Excused ==
  \/ fin \/ conn'.late \/ (conn.pc = "handshake" /\ tls)
  \/ conn.resp.kind \in {"unsendable", "smallFile", "streamError"}
  \/ InAnswer
  \/ conn.pc = "linger" /\ conn'.lingered /\ conn'.keepAlive = conn.keepAlive
  \/ conn'.thrown /\ InRequest /\ (conn.cause # {} \/ Unreadable(Req)')

\* The connection closes, with an excuse.
HangUp == Close /\ Excused

\* A step that does not touch the body or the buffer.
Passes(l) == Calm /\ pos' = pos /\ Same(l)

\* The frame when run() returns.
Shut ==
  /\ conn' \in ConnType /\ conn'.pc = "closed"
  /\ conn'.req = conn.req /\ conn'.body = conn.body
  /\ conn'.dec = conn.dec /\ conn'.rd = conn.rd /\ conn'.resp.kind = conn.resp.kind
  /\ conn'.resp.status = conn.resp.status /\ conn'.fed = conn.fed
  /\ conn'.foreign = conn.foreign /\ conn'.cause = conn.cause
  /\ (conn.late => conn'.late) /\ (conn.thrown => conn'.thrown)

\* The frames of run() with which the connection closes.
LEMMA ClosedFields ==
  ASSUME conn \in ConnType
  PROVE  /\ conn' = Closed(conn) => Shut
         /\ conn' = [Closed(conn) EXCEPT !.late = TRUE] => Shut /\ conn'.late
         /\ conn' = [Closed(conn) EXCEPT !.thrown = TRUE] => Shut /\ conn'.thrown
         /\ conn' = [Closed(conn) EXCEPT !.lingered = TRUE] =>
              Shut /\ conn'.lingered /\ conn'.keepAlive = conn.keepAlive
<1>1. ASSUME conn' = Closed(conn) PROVE Shut
  BY <1>1 DEF Closed, ConnType, Labels, Shut
<1>2. ASSUME conn' = [Closed(conn) EXCEPT !.late = TRUE] PROVE Shut /\ conn'.late
  BY <1>2 DEF Closed, ConnType, Labels, Shut
<1>3. ASSUME conn' = [Closed(conn) EXCEPT !.thrown = TRUE] PROVE Shut /\ conn'.thrown
  BY <1>3 DEF Closed, ConnType, Labels, Shut
<1>4. ASSUME conn' = [Closed(conn) EXCEPT !.lingered = TRUE]
      PROVE  Shut /\ conn'.lingered /\ conn'.keepAlive = conn.keepAlive
  BY <1>4 DEF Closed, ConnType, Labels, Shut
<1> QED BY <1>1, <1>2, <1>3, <1>4

\* A read that brought nothing is one.
LEMMA ReadsNothing ==
  ASSUME Base, UNCHANGED <<client, sent, fin, shutdown, out, taken, zeros>>,
         partials' \in Nat, suspended' = FALSE, timedOut' \in BOOLEAN
  PROVE  Read
  BY TypeFacts DEF Read, Server0

\* Such a frame closes the connection.
LEMMA Closes ==
  ASSUME Base, Read, Shut, pos' = pos, zeros' > zeros => fin, conn.pc # "closed"
  PROVE  Close
<1>1. pos \in Nat /\ taken \in Nat /\ zeros \in Nat /\ pos <= taken + zeros
  BY TypeFacts
<1>2. taken' \in Nat /\ taken <= taken' /\ zeros' \in Nat /\ zeros <= zeros'
  BY DEF Read
<1>3. pos <= taken' + zeros'
  BY <1>1, <1>2, AddBoth
<1>4. pos' \in Nat /\ pos' <= taken' + zeros'
  BY <1>1, <1>3
<1> QED BY <1>4 DEF Close, Shut

\* The handshake goes well, fails, waits, or is resumed.
LEMMA HandshakeMoves ==
  ASSUME Base, Handshake
  PROVE  conn.pc = "handshake" /\ (Passes("top") \/ HangUp \/ Suspend \/ Resume)
<1>0. UNCHANGED <<client, sent, fin, shutdown, taken, zeros, pos, out>> /\ conn.pc = "handshake"
  BY DEF Handshake, bufferVars, At
<1>t. partials \in Nat /\ partials + 1 \in Nat /\ timedOut \in BOOLEAN /\ conn \in ConnType /\ ~(zeros' > zeros)
  BY <1>0, TypeFacts
<1>1. CASE ~suspended /\ conn' = Goto(conn, "top") /\ UNCHANGED <<suspended, timedOut, partials>>
  BY <1>0, <1>t, <1>1, GotoFields DEF Passes, Calm, Server0, Labels
<1>2. CASE ~suspended /\ tls /\ conn' = Closed(conn) /\ UNCHANGED <<suspended, timedOut, partials>>
  <2>0. suspended' = FALSE
    BY <1>2, TypeFacts
  <2>1. Read
    BY <1>0, <1>t, <1>2, <2>0, ReadsNothing
  <2>2. Close
    BY <1>0, <1>t, <1>2, <2>1, Closes, ClosedFields
  <2> QED BY <1>0, <1>2, <2>2 DEF HangUp, Excused
<1>3. CASE ~suspended /\ suspended' = TRUE /\ UNCHANGED <<conn, timedOut, partials>>
  BY <1>0, <1>3 DEF Suspend, Server0
<1>4. CASE suspended /\ suspended' = FALSE /\ timedOut' = FALSE /\ partials' = partials + 1 /\ UNCHANGED conn
  <2>1. Read
    BY <1>0, <1>t, <1>4, ReadsNothing
  <2> QED BY <1>0, <1>t, <1>4, <2>1 DEF Resume
<1>5. CASE suspended /\ suspended' = FALSE /\ timedOut' = TRUE /\ conn' = [Closed(conn) EXCEPT !.late = TRUE] /\ UNCHANGED partials
  <2>1. Read
    BY <1>0, <1>t, <1>5, ReadsNothing
  <2>2. Close /\ conn'.late
    BY <1>0, <1>t, <1>5, <2>1, Closes, ClosedFields
  <2> QED BY <1>0, <2>2 DEF HangUp, Excused
<1> QED BY <1>0, <1>1, <1>2, <1>3, <1>4, <1>5 DEF Handshake

\* while (keepAlive) goes on or ends.
LEMMA TopMoves ==
  ASSUME Base, Top
  PROVE  conn.pc = "top" /\ ((conn.keepAlive /\ Passes("head")) \/ (~conn.keepAlive /\ Passes("linger")))
<1>0. /\ UNCHANGED <<client, sent, fin, shutdown, taken, zeros, pos, out, partials, suspended, timedOut>>
      /\ conn.pc = "top" /\ ~suspended
  BY DEF Top, bufferVars, clientVars, At, Base, Waiting
<1>t. timedOut \in BOOLEAN /\ conn \in ConnType
  BY TypeFacts
<1>1. CASE conn.keepAlive /\ conn' = Goto(conn, "head")
  BY <1>0, <1>t, <1>1, GotoFields DEF Passes, Calm, Server0, Labels
<1>2. CASE ~conn.keepAlive /\ conn' = Goto(conn, "linger")
  BY <1>0, <1>t, <1>2, GotoFields DEF Passes, Calm, Server0, Labels
<1> QED BY <1>0, <1>1, <1>2 DEF Top

\* io_.read() that would block suspends run().
LEMMA ReadSuspendsMoves ==
  ASSUME Base, NEW max \in Nat, ReadSuspends(max), conn.pc \in {"head", "lengthRead", "lengthDrain", "chunk"}
  PROVE  Suspend
<1>1. DrainIntoReadBuffer(max).result = "WOULD_BLOCK" => ~fin
  BY DrainFacts DEF Base
<1> QED BY <1>1 DEF ReadSuspends, Suspend, Server0, clientVars, bufferVars

\* The frame after a failed read of the head.
LEMMA LateError ==
  ASSUME conn \in ConnType, NEW s \in Nat, conn' = [SendErrorAndClose(conn, s) EXCEPT !.late = TRUE]
  PROVE  /\ conn' \in ConnType
         /\ conn'.pc = "send" /\ ~conn'.keepAlive
         /\ conn'.resp.kind = "error" /\ conn'.resp.close /\ conn'.resp.status = s
         /\ conn'.req = conn.req /\ conn'.body = conn.body /\ conn'.dec = conn.dec /\ conn'.rd = conn.rd
         /\ conn'.fed = conn.fed
         /\ conn'.foreign = conn.foreign /\ conn'.cause = conn.cause /\ conn'.late /\ conn'.thrown = conn.thrown
         /\ conn'.lingered = conn.lingered
<1> DEFINE d == SendErrorAndClose(conn, s)
<1>1. /\ d \in ConnType
      /\ d.pc = "send" /\ ~d.keepAlive
      /\ d.resp.kind = "error" /\ d.resp.close /\ d.resp.status = s
      /\ d.req = conn.req /\ d.body = conn.body /\ d.dec = conn.dec /\ d.rd = conn.rd /\ d.fed = conn.fed
      /\ d.foreign = conn.foreign /\ d.cause = conn.cause /\ d.late = conn.late /\ d.thrown = conn.thrown
      /\ d.lingered = conn.lingered
  BY ErrorFields
<1> HIDE DEF d
<1>2. conn' = [d EXCEPT !.late = TRUE]
  BY DEF d
<1>3. conn'.keepAlive = d.keepAlive /\ conn'.resp = d.resp /\ conn'.late = TRUE
  BY <1>1, <1>2 DEF ConnType
<1>4. /\ conn' \in ConnType
      /\ conn'.pc = d.pc
      /\ conn'.req = d.req /\ conn'.body = d.body /\ conn'.dec = d.dec /\ conn'.rd = d.rd
      /\ conn'.fed = d.fed /\ conn'.foreign = d.foreign /\ conn'.cause = d.cause
      /\ conn'.thrown = d.thrown /\ conn'.lingered = d.lingered
  BY <1>1, <1>2, ZenonT(60) DEF ConnType
<1> QED BY <1>1, <1>3, <1>4

\* run() refuses a request,
LEMMA Fails ==
  ASSUME Base, Server0, UNCHANGED <<taken, zeros, pos>>, partials' \in Nat, suspended' = FALSE,
         timedOut' \in BOOLEAN, timedOut' => timedOut,
         conn.pc \in {"head", "expect", "body", "answer"},
         NEW s \in Nat, conn' = SendErrorAndClose(conn, s)
  PROVE  Fail
<1>1. conn \in ConnType
  BY TypeFacts
<1> QED BY <1>1, ErrorFields DEF Fail

\* or reports 408.
LEMMA FailsLate ==
  ASSUME Base, Server0, UNCHANGED <<taken, zeros, pos>>, partials' \in Nat, suspended' = FALSE,
         timedOut' \in BOOLEAN, conn.pc = "head",
         NEW s \in Nat, conn' = [SendErrorAndClose(conn, s) EXCEPT !.late = TRUE]
  PROVE  Fail
<1>1. conn \in ConnType
  BY TypeFacts
<1> QED BY <1>1, LateError DEF Fail

\* The read of a head closes, fails with 408 or 431, or is tried again.
LEMMA HeadReadMoves ==
  ASSUME Base, conn.pc = "head", NEW o \in ReadOutcomes(MaxHeader), ReadReturnsWith(o), AfterHeadRead(o.result)
  PROVE  HangUp \/ Fail \/ Resume
<1>0. /\ UNCHANGED <<client, sent, fin, shutdown, out, pos>>
      /\ taken' = o.buf.taken /\ zeros' = o.buf.zeros /\ suspended' = FALSE /\ timedOut' = o.late
      /\ partials' = o.partials
  BY DEF ReadReturnsWith, AfterHeadRead
<1>1. /\ o.buf.taken \in Nat /\ taken <= o.buf.taken /\ o.buf.taken <= sent
      /\ o.buf.zeros \in Nat /\ zeros <= o.buf.zeros
      /\ o.result \in {"LIMIT", "CLOSED", "DATA", "WOULD_BLOCK", "TIMED_OUT"}
      /\ o.result = "CLOSED" => fin
      /\ o.result # "CLOSED" => o.buf.zeros = zeros
      /\ o.late \in BOOLEAN /\ (o.late => o.result = "TIMED_OUT" \/ timedOut)
      /\ o.partials \in Nat
  BY OutcomeFacts, Constants DEF Base
<1>2. /\ Read /\ pos' = pos /\ (o.result # "CLOSED" => zeros' = zeros)
      /\ timedOut' => o.result = "TIMED_OUT" \/ timedOut
  BY <1>0, <1>1 DEF Read, Server0
<1>3. CASE o.result = "CLOSED"
  <2>1. conn' = Closed(conn)
    BY <1>3 DEF AfterHeadRead
  <2>2. Close
    BY <1>1, <1>2, <1>3, <2>1, TypeFacts, ClosedFields, Closes
  <2> QED BY <1>1, <1>3, <2>2 DEF HangUp, Excused
<1>4. CASE o.result = "LIMIT" /\ taken' = taken
  <2>1. conn' = SendErrorAndClose(conn, 431)
    BY <1>4 DEF AfterHeadRead, RefuseLargeHead
  <2>2. Server0 /\ partials' \in Nat /\ suspended' = FALSE /\ timedOut' \in BOOLEAN
    BY <1>2 DEF Read
  <2>3. zeros' = zeros /\ (timedOut' => timedOut)
    BY <1>2, <1>4
  <2>4. UNCHANGED <<taken, zeros, pos>> /\ conn.pc \in {"head", "expect", "body", "answer"} /\ 431 \in Nat
    BY <1>0, <1>4, <2>3
  <2> QED BY <2>1, <2>2, <2>3, <2>4, Fails, Zenon
<1>5. CASE o.result = "TIMED_OUT"
  <2>1. conn' = [SendErrorAndClose(conn, 408) EXCEPT !.late = TRUE]
    BY <1>5 DEF AfterHeadRead
  <2>2. taken' = taken
    <3>1. o.buf.taken = taken
      BY <1>5, DrainFacts, Constants DEF ReadOutcomes, Base
    <3> QED BY <1>0, <3>1
  <2>3. Server0 /\ partials' \in Nat /\ suspended' = FALSE /\ timedOut' \in BOOLEAN
    BY <1>2 DEF Read
  <2>4. zeros' = zeros
    BY <1>2, <1>5
  <2>5. UNCHANGED <<taken, zeros, pos>> /\ 408 \in Nat
    BY <1>0, <2>2, <2>4
  <2> QED BY <2>1, <2>3, <2>5, FailsLate, Zenon
<1>6. CASE o.result # "CLOSED" /\ o.result # "TIMED_OUT" /\ ~(o.result = "LIMIT" /\ taken' = taken)
  <2>1. conn' = conn
    BY <1>6 DEF AfterHeadRead
  <2> QED BY <1>2, <1>6, <2>1, TypeFacts DEF Resume
<1> QED BY <1>3, <1>4, <1>5, <1>6

\* Further kinds of steps: a head is found,
HeadOk ==
  /\ Calm /\ conn.pc = "head" /\ BlankLines # {} /\ pos' = pos + Min(BlankLines) /\ pos' <= taken /\ pos' \in Nat
  /\ ReadBufferSize > 0 => Unit(1) # "crlf"
  /\ conn' \in ConnType /\ conn'.pc = "expect"
  /\ conn'.req = stream[pos'].r /\ conn'.req \in 1..Len(requests) /\ conn'.fed = 0
  /\ conn'.cause = conn.cause \cup IF AtBoundary(pos) THEN {} ELSE {"astray"}
  /\ conn'.keepAlive = conn.keepAlive /\ conn'.body = conn.body
  /\ conn'.dec = conn.dec /\ conn'.rd = conn.rd /\ conn'.resp = conn.resp
  /\ conn'.foreign = conn.foreign /\ conn'.late = conn.late
  /\ conn'.thrown = conn.thrown /\ conn'.lingered = conn.lingered

\* 100 Continue is to be sent,
ToContinue ==
  /\ Calm /\ pos' = pos /\ conn.pc = "expect"
  /\ Kept /\ conn'.pc = "send" /\ conn'.resp.kind = "continue" /\ ~conn'.resp.close /\ conn'.resp.status = 100
  /\ conn'.keepAlive = conn.keepAlive /\ conn'.body = conn.body
  /\ conn'.dec = conn.dec /\ conn'.rd = conn.rd /\ conn'.fed = conn.fed /\ conn'.foreign = conn.foreign

\* the handler is called,
Attach ==
  /\ Calm /\ pos' = pos /\ conn.pc = "body"
  /\ Kept /\ conn'.pc = "handler" /\ conn'.body.kind = Req.framing /\ ~conn'.body.exhausted
  /\ conn'.body.kind = "length" => conn'.body.remaining = Req.len /\ Req.len <= MaxContent
  /\ conn'.body.kind # "length" => conn'.body.remaining = 0
  /\ conn'.keepAlive = conn.keepAlive /\ conn'.resp = conn.resp
  /\ conn'.dec = conn.dec /\ conn'.rd = conn.rd /\ conn'.fed = conn.fed /\ conn'.foreign = conn.foreign

\* someone begins to read the body,
StartRead(who) ==
  /\ Calm /\ pos' = pos /\ conn.pc = (IF who = "handler" THEN "handler" ELSE "drain")
  /\ ~conn.body.exhausted
  /\ Kept
  /\ \/ conn.body.kind = "length" /\ conn'.pc = (IF who = "handler" THEN "lengthRead" ELSE "lengthDrain")
     \/ conn.body.kind = "chunked" /\ conn'.pc = "chunk"
  /\ conn'.rd.who = who /\ conn'.rd.size > 0 /\ conn'.rd.written = 0 /\ ~conn'.rd.search
  /\ conn'.keepAlive = conn.keepAlive /\ conn'.resp = conn.resp /\ conn'.body = conn.body
  /\ conn'.dec = conn.dec /\ conn'.fed = conn.fed /\ conn'.foreign = conn.foreign

\* read() returns n units to the handler,
Returned(n) ==
  /\ conn' \in ConnType
  /\ conn'.req = conn.req /\ conn'.dec = conn.dec /\ conn'.fed = conn.fed + n
  /\ conn'.late = conn.late /\ conn'.thrown = conn.thrown /\ conn'.lingered = conn.lingered
  /\ conn'.body.kind = conn.body.kind
  /\ conn'.body.remaining = ((conn.body.remaining + Word) - n) % Word
  /\ conn'.body.exhausted = (n = 0 \/ conn'.body.remaining = 0)
  /\ \/ conn'.pc = "handler" /\ conn'.rd = NoRead /\ conn'.keepAlive = conn.keepAlive /\ conn'.resp = conn.resp
     \/ /\ conn'.pc = "drain" /\ conn'.rd = NoRead /\ ~conn'.keepAlive
        /\ conn'.resp.kind = "plain" /\ conn'.resp.status = 413
     \/ /\ conn'.pc = conn.pc /\ conn'.keepAlive = conn.keepAlive /\ conn'.resp = conn.resp
        /\ conn'.rd.who = "handler" /\ conn'.rd.size = conn.rd.size /\ conn'.rd.written = 0 /\ ~conn'.rd.search
        /\ n > 0 /\ ~conn'.body.exhausted

\* or says at once that there is no body,
NothingToRead ==
  /\ Calm /\ pos' = pos /\ conn.pc = "handler" /\ conn.body.kind = "none" /\ ~conn.body.exhausted
  /\ conn' \in ConnType /\ conn'.req = conn.req /\ conn'.dec = conn.dec /\ conn'.fed = conn.fed
  /\ conn'.late = conn.late /\ conn'.thrown = conn.thrown /\ conn'.lingered = conn.lingered
  /\ conn'.body.kind = conn.body.kind /\ conn'.foreign = conn.foreign /\ conn'.cause = conn.cause
  /\ \/ conn'.pc = "handler" /\ conn'.rd = NoRead /\ conn'.keepAlive = conn.keepAlive /\ conn'.resp = conn.resp
     \/ /\ conn'.pc = "drain" /\ conn'.rd = NoRead /\ ~conn'.keepAlive
        /\ conn'.resp.kind = "plain" /\ conn'.resp.status = 413

\* the handler has an answer,
ToDrain ==
  /\ Calm /\ pos' = pos /\ conn.pc = "handler"
  /\ Kept /\ conn'.pc = "drain" /\ conn'.resp.kind \in Answers /\ conn'.resp.status # 100
  /\ conn'.body = conn.body /\ conn'.rd = conn.rd
  /\ conn'.dec = conn.dec /\ conn'.fed = conn.fed /\ conn'.foreign = conn.foreign

\* it is announced,
Announce ==
  /\ Calm /\ pos' = pos /\ conn.pc = "answer"
  /\ Kept /\ conn'.pc = "send" /\ conn'.resp.kind \in {"plain", "streamHead", "cachedFile", "smallFile", "fileHead"}
  /\ conn'.resp.status \in {conn.resp.status, NoHead}
  /\ conn'.keepAlive => conn.keepAlive
  /\ ~conn'.keepAlive => Told'
  /\ conn'.keepAlive /\ conn'.resp.close => Req.close
  /\ conn'.body = conn.body /\ conn'.rd = conn.rd
  /\ conn'.dec = conn.dec /\ conn'.fed = conn.fed /\ conn'.foreign = conn.foreign

\* and goes on.
ToSend ==
  /\ Calm /\ pos' = pos /\ conn.pc = "stream"
  /\ Kept /\ conn'.pc = "send" /\ conn'.resp.kind \in LaterKinds
  /\ conn'.resp.status = conn.resp.status /\ conn'.resp.close = conn.resp.close
  /\ conn'.keepAlive = conn.keepAlive
  /\ conn'.body = conn.body /\ conn'.rd = conn.rd
  /\ conn'.dec = conn.dec /\ conn'.fed = conn.fed /\ conn'.foreign = conn.foreign

\* The steps of run() that do no I/O.
LEMMA CalmIs ==
  ASSUME Base, UNCHANGED <<client, sent, fin, shutdown, out, partials, taken, zeros, suspended>>,
         conn.pc \in {"top", "expect", "body", "handler", "drain", "answer", "stream"}
  PROVE  /\ Server0 /\ ~suspended /\ suspended' = FALSE /\ timedOut \in BOOLEAN /\ conn \in ConnType
         /\ partials' \in Nat /\ ~(zeros' > zeros)
         /\ (timedOut' = timedOut \/ timedOut' \in {timedOut, FALSE}) =>
              Calm /\ Read /\ timedOut' \in BOOLEAN /\ (timedOut' => timedOut)
<1>1. /\ Server0 /\ ~suspended /\ timedOut \in BOOLEAN /\ conn \in ConnType /\ partials' \in Nat /\ ~(zeros' > zeros)
  <2>1. ~suspended /\ Server0
    BY DEF Base, Waiting, Server0
  <2>2. timedOut \in BOOLEAN /\ conn \in ConnType /\ partials' \in Nat
    BY TypeFacts
  <2>3. ~(zeros' > zeros)
    BY TypeFacts
  <2> QED BY <2>1, <2>2, <2>3
<1>2. suspended' = FALSE
  <2>1. suspended \in BOOLEAN /\ suspended' = suspended /\ ~suspended
    BY <1>1, TypeFacts
  <2> QED BY <2>1
<1>3. ASSUME timedOut' = timedOut \/ timedOut' \in {timedOut, FALSE}
      PROVE  timedOut' \in BOOLEAN /\ (timedOut' => timedOut)
  <2>1. timedOut' = timedOut \/ timedOut' = FALSE
    BY <1>3
  <2>2. timedOut \in BOOLEAN
    BY <1>1
  <2>3. CASE timedOut' = FALSE
    BY <2>3
  <2>4. CASE timedOut' = timedOut
    BY <2>2, <2>4, Zenon
  <2> QED BY <2>1, <2>3, <2>4
<1>4. ASSUME timedOut' \in BOOLEAN PROVE Read
  BY <1>1, <1>2, <1>4, ReadsNothing
<1> QED BY <1>1, <1>2, <1>3, <1>4 DEF Calm

\* A head in the buffer is accepted or refused,
LEMMA HeadFoundMoves ==
  ASSUME Base, ReadHead, ~suspended /\ BlankLines # {}
  PROVE  Fail \/ HeadOk
<1>0. /\ UNCHANGED <<client, sent, fin, shutdown, out, partials, taken, zeros, suspended, timedOut>>
      /\ conn.pc = "head" /\ HeadFound /\ (ReadBufferSize > 0 => Unit(1) # "crlf")
  <2>1. ReadBufferSize = 0 \/ Unit(1) # "crlf"
    BY DEF ReadHead
  <2>2. HeadFound /\ UNCHANGED <<clientVars, bufferVars, suspended, timedOut, out>> /\ At("head")
    BY DEF ReadHead
  <2> QED BY <2>1, <2>2 DEF At, clientVars, bufferVars
<1>1. /\ Server0 /\ ~suspended /\ suspended' = FALSE /\ timedOut' \in BOOLEAN /\ (timedOut' => timedOut)
      /\ conn \in ConnType /\ partials' \in Nat /\ Calm
  BY <1>0, TypeFacts DEF Server0, Calm
<1> DEFINE end == Min(BlankLines)
<1>2. end \in BlankLines
  <2>1. BlankLines \in SUBSET Nat
    BY DEF BlankLines, ReadBufferSize
  <2> QED BY <2>1, MinIsThere
<1>3. end \in Nat /\ Unit(end) # "zero"
  BY <1>2 DEF BlankLines, ReadBufferSize
<1> HIDE DEF end
<1>4. pos + end <= taken /\ pos + end \in 1..Len(stream)
  <2>1. pos + end <= taken
    BY <1>3 DEF Unit
  <2>2. end >= 1
    BY <1>2, TypeFacts DEF BlankLines
  <2> QED BY <1>3, <2>1, <2>2, TypeFacts
<1>5. stream[pos + end].r \in 1..Len(requests)
  BY <1>4, TheClient, TypeFacts
<1>6. \/ \E s \in Nat : pos' = pos /\ conn' = SendErrorAndClose(conn, s)
      \/ /\ pos' = pos + end
         /\ conn' = [conn EXCEPT !.pc = "expect", !.req = stream[pos + end].r, !.fed = 0,
                                 !.cause = @ \cup IF AtBoundary(pos) THEN {} ELSE {"astray"}]
  <2>1. CASE end > MaxHeader
    BY <1>0, <2>1 DEF HeadFound, EraseHead, end
  <2>2. CASE ~(end > MaxHeader)
    BY <1>0, <2>2 DEF HeadFound, EraseHead, end
  <2> QED BY <2>1, <2>2
<1>7. ASSUME NEW s \in Nat, pos' = pos, conn' = SendErrorAndClose(conn, s) PROVE Fail
  <2>1. UNCHANGED <<taken, zeros, pos>> /\ conn.pc \in {"head", "expect", "body", "answer"}
    BY <1>0, <1>7
  <2> QED BY <1>1, <1>7, <2>1, Fails, Zenon
<1>8. CASE /\ pos' = pos + end
           /\ conn' = [conn EXCEPT !.pc = "expect", !.req = stream[pos + end].r, !.fed = 0,
                                   !.cause = @ \cup IF AtBoundary(pos) THEN {} ELSE {"astray"}]
  <2>1. stream[pos + end].r \in Nat
    BY <1>5, TypeFacts, SMTT(30)
  <2>2. PICK r \in Nat : r = stream[pos + end].r
    BY <2>1
  <2>3. PICK a : a = IF AtBoundary(pos) THEN {} ELSE {"astray"}
    OBVIOUS
  <2>4. a \in SUBSET {"overread", "shortRead", "trailer", "astray"}
    BY <2>3
  <2>5. conn' = [conn EXCEPT !.pc = "expect", !.req = r, !.fed = 0, !.cause = @ \cup a]
    BY <1>8, <2>2, <2>3
  <2>6. /\ conn' \in ConnType /\ conn'.pc = "expect"
        /\ conn'.req = r /\ conn'.fed = 0 /\ conn'.cause = conn.cause \cup a
        /\ conn'.keepAlive = conn.keepAlive /\ conn'.body = conn.body
        /\ conn'.dec = conn.dec /\ conn'.rd = conn.rd /\ conn'.resp = conn.resp
        /\ conn'.foreign = conn.foreign /\ conn'.late = conn.late
        /\ conn'.thrown = conn.thrown /\ conn'.lingered = conn.lingered
    BY <1>1, <2>4, <2>5 DEF ConnType, Labels
  <2>7. pos' = pos + Min(BlankLines) /\ pos' <= taken /\ pos' \in Nat /\ conn'.req = stream[pos'].r /\ conn'.req \in 1..Len(requests)
    BY <1>3, <1>4, <1>5, <1>8, <2>2, <2>6, TypeFacts DEF end
  <2> QED BY <1>0, <1>1, <2>3, <2>6, <2>7 DEF HeadOk
<1> QED BY <1>6, <1>7, <1>8

\* and is waited for otherwise.
LEMMA ReadHeadMoves == ASSUME Base, ReadHead PROVE conn.pc = "head" /\ (Fail \/ HeadOk \/ Suspend \/ HangUp \/ Resume)
<1>0. conn.pc = "head" /\ MaxHeader \in Nat
  BY Constants DEF ReadHead, At
<1>1. CASE ~suspended /\ BlankLines # {}
  BY <1>0, <1>1, HeadFoundMoves
<1>2. CASE ReadSuspends(MaxHeader)
  BY <1>0, <1>2, ReadSuspendsMoves
<1>3. ASSUME NEW o \in ReadOutcomes(MaxHeader), ReadReturnsWith(o), AfterHeadRead(o.result)
      PROVE  HangUp \/ Fail \/ Resume
  BY <1>0, <1>3, HeadReadMoves
<1> QED BY <1>0, <1>1, <1>2, <1>3 DEF ReadHead

\* What makes a request unreadable is still so after the step.
LEMMA UnreadableKept ==
  ASSUME client' = client, conn'.req = conn.req
  PROVE  /\ Req.framing = "chunked" /\ (Req.broken \/ Req.expect = "continue") => Unreadable(Req)'
         /\ ReadBufferSize' >= MaxContent => Unreadable(Req)'
         /\ BadChunks(conn.req) => Unreadable(Req)'
  BY DEF Unreadable, Req, requests, BadChunks, BodyUnits, stream

\* The four ways Expect is dealt with.
LEMMA ExpectMoves ==
  ASSUME Base, Expect
  PROVE  conn.pc = "expect" /\ (Passes("body") \/ Fail \/ HangUp \/ ToContinue)
<1>0. conn.pc = "expect" /\ UNCHANGED <<client, sent, fin, shutdown, out, partials, taken, zeros, suspended, timedOut, pos>>
  BY DEF Expect, At, clientVars, bufferVars
<1>1. /\ Server0 /\ ~suspended /\ suspended' = FALSE /\ conn \in ConnType
      /\ partials' \in Nat /\ ~(zeros' > zeros) /\ Calm /\ Read /\ timedOut' \in BOOLEAN /\ (timedOut' => timedOut)
  BY <1>0, CalmIs
<1>2. InRequest /\ Req \in RequestType
  BY <1>0, ReqFacts DEF InRequest
<1>3. \/ conn' = Goto(conn, "body")
      \/ \E s \in Nat : conn' = SendErrorAndClose(conn, s)
      \/ Req.framing = "chunked" /\ Req.expect = "continue" /\ conn' = [Closed(conn) EXCEPT !.thrown = TRUE]
      \/ conn' = [conn EXCEPT !.pc = "send", !.resp = [NoAnswer EXCEPT !.kind = "continue", !.status = 100]]
  <2>0. /\ Req.expect \in {"none", "continue", "other"} /\ Req.len \in Nat /\ MaxContent \in Nat
        /\ Req.framing \in {"none", "length", "chunked", "both", "badLength", "otherTE"} /\ Req.route \in Nat
    BY <1>2, Constants DEF RequestType
  <2>1. CASE Req.expect = "none"
    BY <2>1 DEF Expect
  <2>2. CASE Req.expect = "other"
    BY <2>2 DEF Expect
  <2>3. CASE Req.expect = "continue" /\ Req.framing \in {"badLength", "none", "otherTE"}
    BY <2>3 DEF Expect, HasLength
  <2>4. CASE Req.expect = "continue" /\ Req.framing = "chunked"
    BY <2>4 DEF Expect, HasLength
  <2>5. CASE Req.expect = "continue" /\ Req.framing \in {"length", "both"}
    BY <2>0, <2>5 DEF Expect, HasLength
  <2> QED BY <2>0, <2>1, <2>2, <2>3, <2>4, <2>5
<1>4. CASE conn' = Goto(conn, "body")
  BY <1>0, <1>1, <1>4, GotoFields DEF Passes, Labels
<1>5. ASSUME NEW s \in Nat, conn' = SendErrorAndClose(conn, s) PROVE Fail
  <2>1. UNCHANGED <<taken, zeros, pos>> /\ conn.pc \in {"head", "expect", "body", "answer"}
    BY <1>0
  <2> QED BY <1>1, <1>5, <2>1, Fails, Zenon
<1>6. CASE Req.framing = "chunked" /\ Req.expect = "continue" /\ conn' = [Closed(conn) EXCEPT !.thrown = TRUE]
  <2>1. Shut /\ conn'.thrown
    BY <1>1, <1>6, ClosedFields
  <2>2. Close
    BY <1>0, <1>1, <2>1, Closes
  <2>3. client' = client /\ conn'.req = conn.req
    BY <1>0, <2>1 DEF Shut
  <2>4. Unreadable(Req)'
    BY <1>6, <2>3, UnreadableKept
  <2> QED BY <1>0, <1>2, <2>1, <2>2, <2>4 DEF HangUp, Excused
<1>7. CASE conn' = [conn EXCEPT !.pc = "send", !.resp = [NoAnswer EXCEPT !.kind = "continue", !.status = 100]]
  <2>1. /\ Kept /\ conn'.pc = "send" /\ conn'.resp.kind = "continue" /\ conn'.resp.close = FALSE /\ conn'.resp.status = 100
        /\ conn'.keepAlive = conn.keepAlive /\ conn'.body = conn.body
        /\ conn'.dec = conn.dec /\ conn'.rd = conn.rd /\ conn'.fed = conn.fed /\ conn'.foreign = conn.foreign
    BY <1>1, <1>7, ZenonT(60) DEF Kept, ConnType, Labels, NoAnswer, AnswerType, FirstKinds
  <2> QED BY <1>0, <1>1, <2>1 DEF ToContinue
<1> QED BY <1>0, <1>3, <1>4, <1>5, <1>6, <1>7

\* The framing is refused or a body stream is attached.
LEMMA BodyMoves ==
  ASSUME Base, Body
  PROVE  conn.pc = "body" /\ (Fail \/ Attach)
<1>0. conn.pc = "body" /\ UNCHANGED <<client, sent, fin, shutdown, out, partials, taken, zeros, suspended, timedOut, pos>>
  BY DEF Body, At, clientVars, bufferVars
<1>1. /\ Server0 /\ ~suspended /\ suspended' = FALSE /\ conn \in ConnType
      /\ partials' \in Nat /\ ~(zeros' > zeros) /\ Calm /\ Read /\ timedOut' \in BOOLEAN /\ (timedOut' => timedOut)
  BY <1>0, CalmIs
<1>2. Req \in RequestType
  BY <1>0, ReqFacts DEF InRequest
<1>3. /\ Req.len \in Nat /\ MaxContent \in Nat
      /\ Req.framing \in {"none", "length", "chunked", "both", "badLength", "otherTE"}
  BY <1>2, Constants DEF RequestType
<1>4. \/ \E s \in Nat : conn' = SendErrorAndClose(conn, s)
      \/ Req.framing = "length" /\ Req.len <= MaxContent /\ conn' = AttachBodyStream("length", Req.len)
      \/ Req.framing \in {"none", "chunked"} /\ conn' = AttachBodyStream(Req.framing, 0)
  <2>1. CASE Req.framing \in {"both", "badLength"}
    BY <2>1 DEF Body
  <2>2. CASE Req.framing = "otherTE"
    BY <2>2 DEF Body
  <2>3. CASE Req.framing = "length"
    BY <1>3, <2>3 DEF Body
  <2>4. CASE Req.framing \in {"none", "chunked"}
    BY <2>4 DEF Body
  <2> QED BY <1>3, <2>1, <2>2, <2>3, <2>4
<1>5. ASSUME NEW s \in Nat, conn' = SendErrorAndClose(conn, s) PROVE Fail
  <2>1. UNCHANGED <<taken, zeros, pos>> /\ conn.pc \in {"head", "expect", "body", "answer"}
    BY <1>0
  <2> QED BY <1>1, <1>5, <2>1, Fails, Zenon
<1>6. CASE \/ Req.framing = "length" /\ Req.len <= MaxContent /\ conn' = AttachBodyStream("length", Req.len)
           \/ Req.framing \in {"none", "chunked"} /\ conn' = AttachBodyStream(Req.framing, 0)
  <2>0. PICK n \in Nat : /\ conn' = AttachBodyStream(Req.framing, n)
                         /\ Req.framing = "length" => n = Req.len /\ Req.len <= MaxContent
                         /\ Req.framing # "length" => n = 0
    BY <1>3, <1>6
  <2>1. PICK kind \in {"none", "length", "chunked"} : kind = Req.framing
    BY <1>6
  <2>2. /\ Kept /\ conn'.pc = "handler" /\ conn'.body.kind = kind /\ conn'.body.exhausted = FALSE
        /\ conn'.body.remaining = n /\ conn'.keepAlive = conn.keepAlive /\ conn'.resp = conn.resp
        /\ conn'.dec = conn.dec /\ conn'.rd = conn.rd /\ conn'.fed = conn.fed /\ conn'.foreign = conn.foreign
    BY <1>1, <2>0, <2>1 DEF AttachBodyStream, Kept, ConnType, Labels, BodyType
  <2> QED BY <1>0, <1>1, <2>0, <2>1, <2>2 DEF Attach
<1> QED BY <1>0, <1>4, <1>5, <1>6

\* The frame of a new read.
LEMMA NewRead ==
  ASSUME conn \in ConnType, NEW q \in ReadType, NEW c, c = [conn EXCEPT !.rd = q]
  PROVE  /\ c \in ConnType
         /\ c.pc = conn.pc /\ c.req = conn.req /\ c.keepAlive = conn.keepAlive /\ c.body = conn.body
         /\ c.dec = conn.dec /\ c.resp = conn.resp /\ c.fed = conn.fed /\ c.foreign = conn.foreign
         /\ c.cause = conn.cause /\ c.late = conn.late /\ c.thrown = conn.thrown /\ c.lingered = conn.lingered
         /\ c.rd = q
  BY DEF ConnType

\* It is all that changes when a read of the body begins.
LEMMA StartsRead ==
  ASSUME conn \in ConnType, NEW q \in ReadType, NEW c, c = [conn EXCEPT !.rd = q],
         NEW l \in Labels, conn' = Goto(c, l)
  PROVE  /\ Kept /\ conn'.pc = l /\ conn'.keepAlive = conn.keepAlive /\ conn'.body = conn.body
         /\ conn'.dec = conn.dec /\ conn'.resp = conn.resp /\ conn'.fed = conn.fed /\ conn'.foreign = conn.foreign
         /\ conn'.rd = q
<1>1. /\ c \in ConnType
      /\ c.pc = conn.pc /\ c.req = conn.req /\ c.keepAlive = conn.keepAlive /\ c.body = conn.body
      /\ c.dec = conn.dec /\ c.resp = conn.resp /\ c.fed = conn.fed /\ c.foreign = conn.foreign
      /\ c.cause = conn.cause /\ c.late = conn.late /\ c.thrown = conn.thrown /\ c.lingered = conn.lingered
      /\ c.rd = q
  BY NewRead
<1>2. /\ conn' \in ConnType
      /\ conn'.pc = l /\ conn'.req = c.req /\ conn'.keepAlive = c.keepAlive /\ conn'.body = c.body
      /\ conn'.dec = c.dec /\ conn'.resp = c.resp /\ conn'.fed = c.fed /\ conn'.foreign = c.foreign
      /\ conn'.cause = c.cause /\ conn'.late = c.late /\ conn'.thrown = c.thrown /\ conn'.lingered = c.lingered
      /\ conn'.rd = c.rd
  BY <1>1 DEF Goto, ConnType
<1> QED BY <1>1, <1>2 DEF Kept

\* A handler reads: there is a body to read from, or the read is over.
LEMMA HandlerReadsMoves ==
  ASSUME Base, NEW size \in Nat, size > 0, NEW all \in BOOLEAN, HandlerReads(size, all)
  PROVE  StartRead("handler") \/ NothingToRead
<1>0. /\ conn.pc = "handler" /\ ~conn.body.exhausted
      /\ UNCHANGED <<client, sent, fin, shutdown, out, partials, taken, zeros, suspended, timedOut, pos>>
  BY DEF HandlerReads, At, clientVars, bufferVars
<1>1. /\ Server0 /\ ~suspended /\ suspended' = FALSE /\ conn \in ConnType
      /\ partials' \in Nat /\ ~(zeros' > zeros) /\ Calm /\ Read /\ timedOut' \in BOOLEAN /\ (timedOut' => timedOut)
  BY <1>0, CalmIs
<1>p. PICK q : q = [NoRead EXCEPT !.who = "handler", !.size = size, !.all = all]
  OBVIOUS
<1>q. q \in ReadType /\ q.who = "handler" /\ q.size > 0 /\ q.written = 0 /\ q.search = FALSE
  BY <1>p DEF NoRead, ReadType
<1>2. PICK c : c = [conn EXCEPT !.rd = q]
  OBVIOUS
<1>3. conn' = CASE c.body.kind = "none" -> ReadReturns(c, 0)
                [] c.body.kind = "length" -> Goto(c, "lengthRead")
                [] c.body.kind = "chunked" -> Goto(c, "chunk")
  BY <1>p, <1>2 DEF HandlerReads
<1>4. /\ c \in ConnType
      /\ c.pc = conn.pc /\ c.req = conn.req /\ c.keepAlive = conn.keepAlive /\ c.body = conn.body
      /\ c.dec = conn.dec /\ c.resp = conn.resp /\ c.fed = conn.fed /\ c.foreign = conn.foreign
      /\ c.cause = conn.cause /\ c.late = conn.late /\ c.thrown = conn.thrown /\ c.lingered = conn.lingered
      /\ c.rd = q
  BY <1>q, <1>1, <1>2, NewRead
<1>5. conn.body.kind \in {"none", "length", "chunked"}
  BY <1>1, ConnFacts
<1>6. CASE conn.body.kind = "none"
  <2>1. conn' = ReadReturns(c, 0)
    BY <1>3, <1>4, <1>6
  <2>2. /\ conn' \in ConnType
        /\ conn'.req = c.req /\ conn'.dec = c.dec /\ conn'.fed = c.fed + 0
        /\ conn'.foreign = c.foreign /\ conn'.cause = c.cause /\ conn'.late = c.late /\ conn'.thrown = c.thrown
        /\ conn'.lingered = c.lingered
        /\ conn'.body.kind = c.body.kind
        /\ \/ conn'.pc = "handler" /\ conn'.rd = NoRead /\ conn'.keepAlive = c.keepAlive /\ conn'.resp = c.resp
           \/ /\ conn'.pc = "drain" /\ conn'.rd = NoRead /\ ~conn'.keepAlive
              /\ conn'.resp.kind = "plain" /\ conn'.resp.status = 413
    <3>1. c.rd.who = "handler" /\ 0 \in Nat
      BY <1>q, <1>4
    <3> QED BY <1>4, <2>1, <3>1, ReturnFields
  <2>3. conn.fed \in Nat
    BY <1>1, ConnFacts
  <2> QED BY <1>0, <1>1, <1>4, <1>6, <2>2, <2>3 DEF NothingToRead
<1>7. CASE conn.body.kind = "length"
  <2>1. conn' = Goto(c, "lengthRead") /\ "lengthRead" \in Labels
    BY <1>3, <1>4, <1>7 DEF Labels
  <2>2. /\ Kept /\ conn'.pc = "lengthRead" /\ conn'.keepAlive = conn.keepAlive /\ conn'.body = conn.body
        /\ conn'.dec = conn.dec /\ conn'.resp = conn.resp /\ conn'.fed = conn.fed /\ conn'.foreign = conn.foreign
        /\ conn'.rd = q
    BY <1>q, <1>1, <1>2, <2>1, StartsRead
  <2> QED BY <1>q, <1>0, <1>1, <1>7, <2>2 DEF StartRead
<1>8. CASE conn.body.kind = "chunked"
  <2>1. conn' = Goto(c, "chunk") /\ "chunk" \in Labels
    BY <1>3, <1>4, <1>8 DEF Labels
  <2>2. /\ Kept /\ conn'.pc = "chunk" /\ conn'.keepAlive = conn.keepAlive /\ conn'.body = conn.body
        /\ conn'.dec = conn.dec /\ conn'.resp = conn.resp /\ conn'.fed = conn.fed /\ conn'.foreign = conn.foreign
        /\ conn'.rd = q
    BY <1>q, <1>1, <1>2, <2>1, StartsRead
  <2> QED BY <1>q, <1>0, <1>1, <1>8, <2>2 DEF StartRead
<1> QED BY <1>5, <1>6, <1>7, <1>8

\* A handler answers or throws, and its body is to be drained.
LEMMA HandlerAnswersMoves ==
  ASSUME Base, (\E kind \in Answers : HandlerAnswers(kind)) \/ (\E fatal \in BOOLEAN : HandlerThrows(fatal))
  PROVE  ToDrain
<1>0. /\ conn.pc = "handler"
      /\ UNCHANGED <<client, sent, fin, shutdown, out, partials, taken, zeros, suspended, pos>>
      /\ timedOut' \in {timedOut, FALSE}
  BY DEF HandlerAnswers, HandlerThrows, At, clientVars, bufferVars, WaitedOrNot
<1>1. conn \in ConnType /\ Calm
  BY <1>0, CalmIs
<1>3. CASE \E kind \in Answers : HandlerAnswers(kind)
  <2>1. PICK kind \in Answers : HandlerAnswers(kind)
    BY <1>3
  <2>2. PICK q : q = [NoAnswer EXCEPT !.kind = kind, !.status = 200]
    OBVIOUS
  <2>3. q \in AnswerType /\ q.kind = kind /\ q.status = 200
    BY <2>2, ZenonT(60) DEF NoAnswer, AnswerType
  <2>4. conn' = [conn EXCEPT !.pc = "drain", !.resp = q]
    BY <2>1, <2>2 DEF HandlerAnswers
  <2>5. /\ Kept /\ conn'.pc = "drain" /\ conn'.resp = q
        /\ conn'.body = conn.body /\ conn'.rd = conn.rd
        /\ conn'.dec = conn.dec /\ conn'.fed = conn.fed /\ conn'.foreign = conn.foreign
    BY <1>1, <2>3, <2>4 DEF Kept, ConnType, Labels
  <2> QED BY <1>0, <1>1, <2>3, <2>5 DEF ToDrain
<1>4. CASE \E fatal \in BOOLEAN : HandlerThrows(fatal)
  <2>1. PICK fatal \in BOOLEAN : HandlerThrows(fatal)
    BY <1>4
  <2>2. PICK q : q = [NoAnswer EXCEPT !.kind = "plain", !.status = 500]
    OBVIOUS
  <2>3. q \in AnswerType /\ q.kind = "plain" /\ q.status = 500
    <3>1. q = [kind |-> "plain", status |-> 500, close |-> FALSE, chunks |-> 0]
      BY <2>2, ZenonT(60) DEF NoAnswer
    <3> QED BY <3>1 DEF AnswerType, Answers
  <2>4. conn' = [conn EXCEPT !.pc = "drain", !.keepAlive = ~fatal, !.resp = q]
    BY <2>1, <2>2, ZenonT(60) DEF HandlerThrows
  <2>5. /\ Kept /\ conn'.pc = "drain" /\ conn'.resp = q
        /\ conn'.body = conn.body /\ conn'.rd = conn.rd
        /\ conn'.dec = conn.dec /\ conn'.fed = conn.fed /\ conn'.foreign = conn.foreign
    BY <1>1, <2>3, <2>4 DEF Kept, ConnType, Labels
  <2> QED BY <1>0, <1>1, <2>3, <2>5 DEF ToDrain, Answers
<1> QED BY <1>3, <1>4

\* drain() has nothing to do, or begins to read.
LEMMA DrainMoves ==
  ASSUME Base, Drain
  PROVE  conn.pc = "drain" /\ (((conn.body.exhausted \/ conn.body.kind = "none") /\ Passes("answer")) \/ StartRead("drain"))
<1>0. /\ conn.pc = "drain"
      /\ UNCHANGED <<client, sent, fin, shutdown, out, partials, taken, zeros, suspended, timedOut, pos>>
  BY DEF Drain, At, clientVars, bufferVars
<1>1. conn \in ConnType /\ Calm
  BY <1>0, CalmIs
<1>4. Scratch \in Nat /\ Scratch > 0 /\ FALSE \in BOOLEAN /\ "drain" \in {"handler", "drain"}
  BY Constants
<1>p. PICK q : q = [NoRead EXCEPT !.who = "drain", !.size = Scratch]
  OBVIOUS
<1>q. q \in ReadType /\ q.who = "drain" /\ q.size > 0 /\ q.written = 0 /\ q.search = FALSE
  BY <1>p, <1>4 DEF NoRead, ReadType
<1>2. PICK c : c = [conn EXCEPT !.rd = q]
  OBVIOUS
<1>3. conn' = CASE conn.body.exhausted \/ conn.body.kind = "none" -> Goto(conn, "answer")
                [] ~conn.body.exhausted /\ conn.body.kind = "length" -> Goto(c, "lengthDrain")
                [] ~conn.body.exhausted /\ conn.body.kind = "chunked" -> Goto(c, "chunk")
  BY <1>p, <1>2 DEF Drain
<1>6. conn.body.kind \in {"none", "length", "chunked"} /\ conn.body.exhausted \in BOOLEAN
  BY <1>1, ConnFacts
<1>7. CASE conn.body.exhausted \/ conn.body.kind = "none"
  <2>1. conn' = Goto(conn, "answer")
    BY <1>3, <1>7
  <2> QED BY <1>0, <1>1, <1>7, <2>1, GotoFields DEF Passes, Labels
<1>8. CASE ~conn.body.exhausted /\ conn.body.kind = "length"
  <2>1. conn' = Goto(c, "lengthDrain") /\ "lengthDrain" \in Labels
    BY <1>3, <1>8 DEF Labels
  <2>2. /\ Kept /\ conn'.pc = "lengthDrain" /\ conn'.keepAlive = conn.keepAlive /\ conn'.body = conn.body
        /\ conn'.dec = conn.dec /\ conn'.resp = conn.resp /\ conn'.fed = conn.fed /\ conn'.foreign = conn.foreign
        /\ conn'.rd = q
    BY <1>q, <1>1, <1>2, <2>1, StartsRead
  <2> QED BY <1>q, <1>0, <1>1, <1>8, <2>2 DEF StartRead
<1>9. CASE ~conn.body.exhausted /\ conn.body.kind = "chunked"
  <2>1. conn' = Goto(c, "chunk") /\ "chunk" \in Labels
    BY <1>3, <1>9 DEF Labels
  <2>2. /\ Kept /\ conn'.pc = "chunk" /\ conn'.keepAlive = conn.keepAlive /\ conn'.body = conn.body
        /\ conn'.dec = conn.dec /\ conn'.resp = conn.resp /\ conn'.fed = conn.fed /\ conn'.foreign = conn.foreign
        /\ conn'.rd = q
    BY <1>q, <1>1, <1>2, <2>1, StartsRead
  <2> QED BY <1>q, <1>0, <1>1, <1>9, <2>2 DEF StartRead
<1> QED BY <1>6, <1>7, <1>8, <1>9

\* An answer is announced, is given up, or turns into an error.
LEMMA AnswerMoves ==
  ASSUME Base, Answer
  PROVE  conn.pc = "answer" /\ (Announce \/ HangUp \/ Fail)
<1>0. /\ conn.pc = "answer"
      /\ UNCHANGED <<client, sent, fin, shutdown, out, partials, taken, zeros, suspended, pos>>
  BY DEF Answer, At, clientVars, bufferVars
<1>w. timedOut' = timedOut \/ timedOut' \in {timedOut, FALSE}
  BY DEF Answer, WaitedOrNot
<1>1. /\ Server0 /\ ~suspended /\ suspended' = FALSE /\ conn \in ConnType
      /\ partials' \in Nat /\ ~(zeros' > zeros) /\ Calm /\ Read /\ timedOut' \in BOOLEAN /\ (timedOut' => timedOut)
  BY <1>0, <1>w, CalmIs
<1>2. InRequest /\ Req \in RequestType
  BY <1>0, ReqFacts DEF InRequest
<1>3. PICK keep \in BOOLEAN : keep = (conn.keepAlive /\ ~shutdown)
  OBVIOUS
<1>4. PICK shut \in BOOLEAN : shut = (~keep \/ Req.close)
  OBVIOUS
<1>5. PICK c : c = [conn EXCEPT !.keepAlive = keep, !.resp.close = shut]
  OBVIOUS
<1>6. /\ c \in ConnType
      /\ c.pc = conn.pc /\ c.req = conn.req /\ c.keepAlive = keep /\ c.body = conn.body
      /\ c.dec = conn.dec /\ c.rd = conn.rd /\ c.fed = conn.fed /\ c.foreign = conn.foreign
      /\ c.cause = conn.cause /\ c.late = conn.late /\ c.thrown = conn.thrown /\ c.lingered = conn.lingered
      /\ c.resp.kind = conn.resp.kind /\ c.resp.status = conn.resp.status /\ c.resp.close = shut
  BY <1>1, <1>5 DEF ConnType, AnswerType
<1>7. \/ conn' = Sending(c, "plain")
      \/ c.resp.kind = "unsendable" /\ conn' = Closed(c)
      \/ conn' = Sending(c, "streamHead")
      \/ conn' = SendErrorAndClose(c, 500)
      \/ conn' = Sending(c, "cachedFile")
      \/ conn' = Sending(Headless(c), "smallFile")
      \/ c.resp.kind = "smallFile" /\ conn' = Closed(c)
      \/ c.resp.kind = "smallFile" /\ conn' = [Closed(c) EXCEPT !.thrown = TRUE]
      \/ conn' = Sending(c, "fileHead")
  BY <1>3, <1>4, <1>5 DEF Answer
<1>8. ASSUME NEW kind \in {"plain", "streamHead", "cachedFile", "fileHead"}, conn' = Sending(c, kind)
      PROVE  Announce
  <2>1. /\ conn' \in ConnType
        /\ conn'.pc = "send" /\ conn'.req = c.req /\ conn'.keepAlive = c.keepAlive /\ conn'.body = c.body
        /\ conn'.dec = c.dec /\ conn'.rd = c.rd /\ conn'.fed = c.fed /\ conn'.foreign = c.foreign
        /\ conn'.cause = c.cause /\ conn'.late = c.late /\ conn'.thrown = c.thrown /\ conn'.lingered = c.lingered
        /\ conn'.resp.kind = kind /\ conn'.resp.status = c.resp.status /\ conn'.resp.close = c.resp.close
    BY <1>6, <1>8, ZenonT(60) DEF Sending, ConnType, AnswerType, FirstKinds, Labels
  <2>2. Kept
    BY <1>6, <2>1 DEF Kept
  <2>3. /\ conn'.keepAlive => conn.keepAlive
        /\ ~conn'.keepAlive => Told'
        /\ conn'.keepAlive /\ conn'.resp.close => Req.close
    BY <1>3, <1>4, <1>6, <2>1 DEF Told
  <2> QED BY <1>0, <1>1, <1>6, <1>8, <2>1, <2>2, <2>3 DEF Announce
<1>s. ASSUME conn' = Sending(Headless(c), "smallFile")
      PROVE  Announce
  <2>1. /\ conn' \in ConnType
        /\ conn'.pc = "send" /\ conn'.req = c.req /\ conn'.keepAlive = c.keepAlive /\ conn'.body = c.body
        /\ conn'.dec = c.dec /\ conn'.rd = c.rd /\ conn'.fed = c.fed /\ conn'.foreign = c.foreign
        /\ conn'.cause = c.cause /\ conn'.late = c.late /\ conn'.thrown = c.thrown /\ conn'.lingered = c.lingered
        /\ conn'.resp.kind = "smallFile" /\ conn'.resp.status = NoHead /\ ~conn'.resp.close
    BY <1>6, <1>s DEF Sending, Headless, NoHead, ConnType, AnswerType, FirstKinds, Labels
  <2>2. Kept
    BY <1>6, <2>1 DEF Kept
  <2>3. Told' /\ (conn'.keepAlive => conn.keepAlive)
    BY <1>3, <1>6, <2>1 DEF Told
  <2> QED BY <1>0, <1>1, <1>6, <2>1, <2>2, <2>3 DEF Announce
<1>9. ASSUME c.resp.kind \in {"unsendable", "smallFile"}, conn' = Closed(c) \/ conn' = [Closed(c) EXCEPT !.thrown = TRUE]
      PROVE  HangUp
  <2>1. /\ conn' \in ConnType /\ conn'.pc = "closed"
        /\ conn'.req = c.req /\ conn'.body = c.body
        /\ conn'.dec = c.dec /\ conn'.rd = c.rd /\ conn'.resp = c.resp /\ conn'.fed = c.fed
        /\ conn'.foreign = c.foreign /\ conn'.cause = c.cause
        /\ (c.late => conn'.late) /\ (c.thrown => conn'.thrown)
    <3>1. CASE conn' = Closed(c)
      BY <1>6, <3>1 DEF Closed, ConnType, Labels
    <3>2. CASE conn' = [Closed(c) EXCEPT !.thrown = TRUE]
      BY <1>6, <3>2 DEF Closed, ConnType, Labels
    <3> QED BY <1>9, <3>1, <3>2
  <2>2. Shut
    BY <1>6, <2>1 DEF Shut
  <2>3. Close
    BY <1>0, <1>1, <2>2, Closes
  <2> QED BY <1>6, <1>9, <2>3 DEF HangUp, Excused
<1>10. ASSUME conn' = SendErrorAndClose(c, 500)
       PROVE  Fail
  <2>1. /\ conn' \in ConnType
        /\ conn'.pc = "send" /\ ~conn'.keepAlive
        /\ conn'.resp.kind = "error" /\ conn'.resp.close /\ conn'.resp.status = 500
        /\ conn'.req = c.req /\ conn'.body = c.body /\ conn'.dec = c.dec /\ conn'.rd = c.rd /\ conn'.fed = c.fed
        /\ conn'.foreign = c.foreign /\ conn'.cause = c.cause /\ conn'.late = c.late /\ conn'.thrown = c.thrown
        /\ conn'.lingered = c.lingered
    BY <1>6, <1>10, ErrorFields
  <2> QED BY <1>0, <1>1, <1>6, <2>1 DEF Fail
<1> QED BY <1>0, <1>7, <1>8, <1>s, <1>9, <1>10

\* A streamed answer goes on, or breaks off.
LEMMA StreamMoves ==
  ASSUME Base, Stream
  PROVE  conn.pc = "stream" /\ (ToSend \/ HangUp)
<1>0. /\ conn.pc = "stream"
      /\ UNCHANGED <<client, sent, fin, shutdown, out, partials, taken, zeros, suspended, pos>>
      /\ timedOut' \in {timedOut, FALSE}
  BY DEF Stream, At, clientVars, bufferVars, WaitedOrNot
<1>1. /\ Server0 /\ ~suspended /\ suspended' = FALSE /\ conn \in ConnType
      /\ partials' \in Nat /\ ~(zeros' > zeros) /\ Calm /\ Read /\ timedOut' \in BOOLEAN /\ (timedOut' => timedOut)
  BY <1>0, CalmIs
<1>2. \/ conn' = [Sending(conn, "chunk") EXCEPT !.resp.chunks = @ + 1]
      \/ conn' = Closed(conn)
      \/ conn' = Sending(conn, "lastChunk")
      \/ conn' = Sending(conn, "streamError")
  BY DEF Stream
<1>3. CASE conn' = Closed(conn)
  <2>1. Shut
    BY <1>1, <1>3, ClosedFields
  <2>2. Close
    BY <1>0, <1>1, <2>1, Closes
  <2> QED BY <1>0, <2>2 DEF HangUp, Excused, InAnswer
<1>4. ASSUME NEW kind \in LaterKinds, NEW n \in Nat, conn' = [Sending(conn, kind) EXCEPT !.resp.chunks = n]
      PROVE  ToSend
  <2>1. /\ Kept /\ conn'.pc = "send" /\ conn'.resp.kind = kind
        /\ conn'.resp.status = conn.resp.status /\ conn'.resp.close = conn.resp.close
        /\ conn'.keepAlive = conn.keepAlive
        /\ conn'.body = conn.body /\ conn'.rd = conn.rd
        /\ conn'.dec = conn.dec /\ conn'.fed = conn.fed /\ conn'.foreign = conn.foreign
    BY <1>1, <1>4 DEF Sending, Kept, ConnType, AnswerType, Labels
  <2> QED BY <1>0, <1>1, <1>4, <2>1 DEF ToSend
<1>5. CASE conn' = [Sending(conn, "chunk") EXCEPT !.resp.chunks = @ + 1]
  <2>1. Sending(conn, "chunk").resp.chunks + 1 \in Nat
    <3>1. Sending(conn, "chunk").resp.chunks = conn.resp.chunks
      BY <1>1 DEF Sending, ConnType, AnswerType
    <3>2. conn.resp.chunks \in Nat
      BY <1>1, ConnFacts
    <3> QED BY <3>1, <3>2
  <2>2. PICK n \in Nat : n = Sending(conn, "chunk").resp.chunks + 1
    BY <2>1
  <2>3. conn' = [Sending(conn, "chunk") EXCEPT !.resp.chunks = n]
    BY <1>5, <2>2
  <2> QED BY <1>0, <1>4, <2>3 DEF LaterKinds
<1>6. ASSUME NEW kind \in LaterKinds, conn' = Sending(conn, kind)
      PROVE  ToSend
  <2>1. /\ Kept /\ conn'.pc = "send" /\ conn'.resp.kind = kind
        /\ conn'.resp.status = conn.resp.status /\ conn'.resp.close = conn.resp.close
        /\ conn'.keepAlive = conn.keepAlive
        /\ conn'.body = conn.body /\ conn'.rd = conn.rd
        /\ conn'.dec = conn.dec /\ conn'.fed = conn.fed /\ conn'.foreign = conn.foreign
    BY <1>1, <1>6 DEF Sending, Kept, ConnType, AnswerType, Labels
  <2> QED BY <1>0, <1>1, <1>6, <2>1 DEF ToSend
<1> QED BY <1>0, <1>2, <1>3, <1>5, <1>6 DEF LaterKinds

\* awaitClientFinBeforeClose() waits or is done.
LEMMA LingerMoves ==
  ASSUME Base, Linger
  PROVE  conn.pc = "linger" /\ (Suspend \/ HangUp)
<1>0. /\ conn.pc = "linger"
      /\ UNCHANGED <<client, sent, fin, shutdown, out, partials, taken, zeros, pos>>
  BY DEF Linger, At, clientVars, bufferVars
<1>1. conn \in ConnType /\ partials' \in Nat /\ ~(zeros' > zeros) /\ timedOut \in BOOLEAN /\ suspended \in BOOLEAN
  BY <1>0, TypeFacts
<1>2. CASE ~suspended /\ suspended' = TRUE /\ UNCHANGED <<timedOut, conn>>
  BY <1>0, <1>2 DEF Suspend, Server0
<1>3. CASE suspended' = FALSE /\ timedOut' \in BOOLEAN /\ conn' = [Closed(conn) EXCEPT !.lingered = TRUE]
  <2>1. Shut /\ conn'.lingered /\ conn'.keepAlive = conn.keepAlive
    BY <1>1, <1>3, ClosedFields
  <2>2. Read
    BY <1>0, <1>1, <1>3, ReadsNothing
  <2>3. Close
    BY <1>0, <1>1, <2>1, <2>2, Closes
  <2> QED BY <1>0, <2>1, <2>3 DEF HangUp, Excused
<1>4. CASE ~suspended /\ conn' = [Closed(conn) EXCEPT !.lingered = TRUE] /\ UNCHANGED <<suspended, timedOut>>
  <2>1. suspended' = FALSE
    <3>1. suspended' = suspended /\ suspended \in BOOLEAN /\ ~suspended
      BY <1>1, <1>4
    <3> QED BY <3>1
  <2> QED BY <1>1, <1>3, <1>4, <2>1
<1> QED BY <1>0, <1>2, <1>3, <1>4 DEF Linger

\* A bare CRLF is dropped.
Strip ==
  /\ Calm /\ conn.pc = "head" /\ conn' = conn /\ pos' = pos + 1 /\ pos < taken /\ stream[pos + 1].t = "crlf"

\* The loop in front of the search for a head.
LEMMA StripMoves == ASSUME Base, StripCrlf PROVE Strip
<1>1. /\ conn.pc = "head" /\ conn' = conn /\ pos' = pos + 1 /\ ~suspended /\ Unit(1) = "crlf"
      /\ UNCHANGED <<client, sent, fin, shutdown, out, partials, taken, zeros, suspended, timedOut>>
  BY DEF StripCrlf, At, clientVars, bufferVars
<1>2. pos \in Nat /\ taken \in Nat /\ timedOut \in BOOLEAN
  BY TypeFacts
<1>3. pos + 1 <= taken /\ stream[pos + 1].t = "crlf"
  BY <1>1 DEF Unit
<1>4. pos < taken
  BY <1>2, <1>3
<1> QED BY <1>1, <1>2, <1>3, <1>4 DEF Strip, Calm, Server0

\* What the client is shown: a new answer, or the end of one.
Shows(whole) ==
  out' = Append(out, [req |-> conn.req, status |-> conn.resp.status, close |-> conn.resp.close, whole |-> whole])

\* The end of the last answer.
Ends(whole) == out' = [out EXCEPT ![Len(out)].whole = whole]

\* A write touches nothing of the client's and of the read buffer.
Wrote == /\ UNCHANGED <<client, sent, fin, partials, shutdown, taken, zeros, pos>>
         /\ suspended' = FALSE /\ timedOut' \in BOOLEAN

\* The frame after resetForNextRequest().
Renewed ==
  /\ conn' \in ConnType
  /\ conn'.pc = "top" /\ conn'.req = 0 /\ conn'.dec = NewDecoder /\ conn'.body = NoBody /\ conn'.rd = NoRead
  /\ conn'.resp = NoAnswer /\ conn'.keepAlive = conn.keepAlive /\ conn'.fed = conn.fed
  /\ conn'.foreign = conn.foreign /\ conn'.cause = conn.cause /\ conn'.late = conn.late
  /\ conn'.thrown = conn.thrown /\ conn'.lingered = conn.lingered

\* The kinds of writes, by what they complete.
ErrorSent == Wrote /\ conn.pc = "send" /\ conn.resp.kind = "error" /\ timedOut' = FALSE /\ Shows(TRUE) /\ Same("linger")
ContinueSent == Wrote /\ conn.pc = "send" /\ conn.resp.kind = "continue" /\ timedOut' = FALSE /\ Shows(TRUE) /\ Same("body")
AnswerSent == /\ Wrote /\ conn.pc = "send" /\ conn.resp.kind \in {"plain", "cachedFile", "smallFile"}
              /\ timedOut' = FALSE /\ Shows(TRUE) /\ Renewed
HeadSent == /\ Wrote /\ conn.pc = "send" /\ timedOut' = FALSE /\ Shows(FALSE)
            /\ \/ conn.resp.kind = "streamHead" /\ Same("stream")
               \/ conn.resp.kind = "fileHead" /\ Same("file")
ChunkSent == Wrote /\ conn.pc = "send" /\ conn.resp.kind = "chunk" /\ timedOut' = FALSE /\ out' = out /\ Same("stream")
LastSent == /\ Wrote /\ (timedOut' => timedOut) /\ Ends(TRUE) /\ Renewed
            /\ conn.pc = "file" \/ (conn.pc = "send" /\ conn.resp.kind = "lastChunk")
StreamErrorSent == Wrote /\ conn.pc = "send" /\ conn.resp.kind = "streamError" /\ Ends(TRUE) /\ Shut
SendFails ==
  /\ Wrote /\ conn.pc = "send" /\ Shut /\ (fin \/ conn'.late)
  /\ \/ conn.resp.kind \in FirstKinds /\ \E whole \in BOOLEAN : Shows(whole)
     \/ conn.resp.kind = "chunk" /\ out' = out
     \/ conn.resp.kind \in {"lastChunk", "streamError"} /\ \E whole \in BOOLEAN : Ends(whole)

\* An answer of which there is more to come.
LEMMA NotWhole ==
  ASSUME NEW x \in ShownType
  PROVE  [x EXCEPT !.whole = FALSE] = [req |-> x.req, status |-> x.status, close |-> x.close, whole |-> FALSE]
<1> DEFINE y == [x EXCEPT !.whole = FALSE]
           z == [req |-> x.req, status |-> x.status, close |-> x.close, whole |-> FALSE]
<1>1. y \in ShownType /\ y.req = x.req /\ y.status = x.status /\ y.close = x.close /\ y.whole = FALSE
  BY DEF ShownType
<1>2. z \in ShownType /\ z.req = x.req /\ z.status = x.status /\ z.close = x.close /\ z.whole = FALSE
  BY DEF ShownType
<1> HIDE DEF y, z
<1>3. y = z
  BY <1>1, <1>2 DEF ShownType
<1> QED BY <1>3 DEF y, z

\* What each kind of write shows the client.
LEMMA ShownIs ==
  ASSUME Base, conn.pc = "send", NEW whole \in BOOLEAN, out' = Shown(whole)
  PROVE  /\ conn.resp.kind \in {"error", "continue", "plain", "cachedFile", "smallFile"} => Shows(whole)
         /\ conn.resp.kind \in {"streamHead", "fileHead"} => Shows(FALSE)
         /\ conn.resp.kind = "chunk" => out' = out
         /\ conn.resp.kind \in {"lastChunk", "streamError"} => Ends(whole)
<1> DEFINE x == [req |-> conn.req, status |-> conn.resp.status, close |-> conn.resp.close, whole |-> whole]
           first == Append(out, x)
<1>1. CASE conn.resp.kind \in {"error", "continue", "plain", "cachedFile", "smallFile"}
  BY <1>1 DEF Shown, Shows
<1>2. CASE conn.resp.kind \in {"streamHead", "fileHead"}
  <2>1. out' = Append(out, [first[Len(first)] EXCEPT !.whole = FALSE])
    BY <1>2 DEF Shown
  <2>2. out \in Seq(ShownType)
    BY TypeFacts
  <2>3. x \in ShownType /\ x.req = conn.req /\ x.status = conn.resp.status /\ x.close = conn.resp.close
    <3>1. conn.req \in Nat /\ conn.resp.status \in Nat /\ conn.resp.close \in BOOLEAN
      BY ConnFacts, TypeFacts
    <3> QED BY <3>1 DEF ShownType
  <2> HIDE DEF x
  <2>4. first[Len(first)] = x
    BY <2>2, <2>3
  <2>5. out' = Append(out, [x EXCEPT !.whole = FALSE])
    BY <2>1, <2>4
  <2> QED BY <1>2, <2>3, <2>5, NotWhole DEF Shows
<1>3. CASE conn.resp.kind = "chunk"
  BY <1>3 DEF Shown
<1>4. CASE conn.resp.kind \in {"lastChunk", "streamError"}
  BY <1>4 DEF Shown, Ends
<1> QED BY <1>1, <1>2, <1>3, <1>4

\* A write loop ends well, fails, or waits.
LEMMA WriteMoves ==
  ASSUME Base, Write
  PROVE  conn.pc = "send" /\ (ErrorSent \/ ContinueSent \/ AnswerSent \/ HeadSent \/ ChunkSent \/ LastSent
                              \/ StreamErrorSent \/ SendFails \/ Suspend)
<1>0. /\ conn.pc = "send"
      /\ UNCHANGED <<client, sent, fin, shutdown, partials, taken, zeros, pos>>
  BY DEF Write, At, clientVars, bufferVars
<1>1. conn \in ConnType /\ partials' \in Nat /\ timedOut \in BOOLEAN /\ suspended \in BOOLEAN
  BY <1>0, TypeFacts
<1>k. conn.resp.kind \in FirstKinds \cup LaterKinds /\ (timedOut => conn.late)
  BY <1>0 DEF Base, Control, Waiting
<1>2. CASE suspended' = FALSE /\ timedOut' = FALSE /\ out' = Shown(TRUE) /\ conn' = Flushed(conn)
  <2>w. Wrote
    BY <1>0, <1>2 DEF Wrote
  <2>1. CASE conn.resp.kind = "error"
    <3>1. conn' = Goto(conn, "linger") /\ "linger" \in Labels
      BY <1>2, <2>1 DEF Flushed, AfterError, Labels
    <3> QED BY <1>0, <1>1, <1>2, <2>w, <2>1, <3>1, GotoFields, ShownIs DEF ErrorSent
  <2>2. CASE conn.resp.kind = "continue"
    <3>1. conn' = Goto(conn, "body") /\ "body" \in Labels
      BY <1>2, <2>2 DEF Flushed, Labels
    <3> QED BY <1>0, <1>1, <1>2, <2>w, <2>2, <3>1, GotoFields, ShownIs DEF ContinueSent
  <2>3. CASE conn.resp.kind \in {"plain", "cachedFile", "smallFile", "lastChunk"}
    <3>1. conn' = ResetForNextRequest(conn)
      BY <1>2, <2>3 DEF Flushed
    <3>2. Renewed
      BY <1>1, <3>1, ResetFields DEF Renewed
    <3> QED BY <1>0, <1>1, <1>2, <2>w, <2>3, <3>2, ShownIs DEF AnswerSent, LastSent
  <2>4. CASE conn.resp.kind \in {"streamHead", "chunk"}
    <3>1. conn' = Goto(conn, "stream") /\ "stream" \in Labels
      BY <1>2, <2>4 DEF Flushed, Labels
    <3> QED BY <1>0, <1>1, <1>2, <2>w, <2>4, <3>1, GotoFields, ShownIs DEF HeadSent, ChunkSent
  <2>5. CASE conn.resp.kind = "streamError"
    <3>1. conn' = Closed(conn)
      BY <1>2, <2>5 DEF Flushed
    <3> QED BY <1>0, <1>1, <1>2, <2>w, <2>5, <3>1, ClosedFields, ShownIs DEF StreamErrorSent
  <2>6. CASE conn.resp.kind = "fileHead"
    <3>1. conn' = Goto(conn, "file") /\ "file" \in Labels
      BY <1>2, <2>6 DEF Flushed, Labels
    <3> QED BY <1>0, <1>1, <1>2, <2>w, <2>6, <3>1, GotoFields, ShownIs DEF HeadSent
  <2> QED BY <1>0, <1>k, <2>1, <2>2, <2>3, <2>4, <2>5, <2>6 DEF FirstKinds, LaterKinds
<1>3. ASSUME suspended' = FALSE, timedOut' \in BOOLEAN, NEW whole \in BOOLEAN, out' = Shown(whole),
             Shut, fin \/ conn'.late
      PROVE  SendFails
  <2>w. Wrote
    BY <1>0, <1>3 DEF Wrote
  <2>1. CASE conn.resp.kind \in {"error", "continue", "plain", "cachedFile", "smallFile"}
    BY <1>0, <1>3, <2>w, <2>1, ShownIs DEF SendFails, FirstKinds
  <2>2. CASE conn.resp.kind \in {"streamHead", "fileHead"}
    BY <1>0, <1>3, <2>w, <2>2, ShownIs DEF SendFails, FirstKinds
  <2>3. CASE conn.resp.kind = "chunk"
    BY <1>0, <1>3, <2>w, <2>3, ShownIs DEF SendFails
  <2>4. CASE conn.resp.kind \in {"lastChunk", "streamError"}
    BY <1>0, <1>3, <2>w, <2>4, ShownIs DEF SendFails
  <2> QED BY <1>k, <2>1, <2>2, <2>3, <2>4 DEF FirstKinds, LaterKinds
<1>4. CASE timedOut' = (timedOut /\ ~suspended) /\ suspended' = FALSE /\ out' = Shown(TRUE) /\ timedOut' /\ conn' = Closed(conn)
  <2>1. Shut /\ conn.late
    BY <1>1, <1>k, <1>4, ClosedFields
  <2>2. conn'.late /\ timedOut' \in BOOLEAN
    BY <1>4, <2>1 DEF Shut
  <2> QED BY <1>0, <1>3, <1>4, <2>1, <2>2
<1>5. CASE ~suspended /\ suspended' = TRUE /\ UNCHANGED <<timedOut, conn, out>>
  BY <1>0, <1>5 DEF Suspend, Server0
<1>6. CASE suspended' = FALSE /\ timedOut' = TRUE /\ out' = Shown(FALSE) /\ conn' = [Closed(conn) EXCEPT !.late = TRUE]
  <2>1. Shut /\ conn'.late
    BY <1>1, <1>6, ClosedFields
  <2> QED BY <1>0, <1>3, <1>6, <2>1
<1>7. CASE fin /\ suspended' = FALSE /\ timedOut' = (timedOut /\ ~suspended) /\ out' = Shown(FALSE) /\ conn' = Closed(conn)
  <2>1. Shut
    BY <1>1, <1>7, ClosedFields
  <2> QED BY <1>0, <1>3, <1>7, <2>1
<1>8. ASSUME timedOut' = (timedOut /\ ~suspended), suspended' = FALSE, out' = Shown(TRUE),
             conn' = IF timedOut' THEN Closed(conn) ELSE Flushed(conn)
      PROVE  \/ timedOut' /\ conn' = Closed(conn)
             \/ timedOut' = FALSE /\ conn' = Flushed(conn)
  <2>1. CASE timedOut /\ ~suspended
    BY <1>8, <2>1
  <2>2. CASE ~(timedOut /\ ~suspended)
    BY <1>8, <2>2
  <2> QED BY <2>1, <2>2
<1> QED BY <1>0, <1>2, <1>4, <1>5, <1>6, <1>7, <1>8 DEF Write

\* sendFile() ends well, fails, waits, or is resumed.
LEMMA SendFileMoves ==
  ASSUME Base, SendFile
  PROVE  conn.pc = "file" /\ (LastSent \/ HangUp \/ Suspend \/ Resume)
<1>0. /\ conn.pc = "file"
      /\ UNCHANGED <<client, sent, fin, shutdown, partials, taken, zeros, pos>>
  BY DEF SendFile, At, clientVars, bufferVars
<1>1. conn \in ConnType /\ partials' \in Nat /\ timedOut \in BOOLEAN /\ suspended \in BOOLEAN /\ ~(zeros' > zeros)
  BY <1>0, TypeFacts
<1>2. CASE /\ ~suspended /\ out' = [out EXCEPT ![Len(out)].whole = TRUE]
           /\ conn' = ResetForNextRequest(conn) /\ UNCHANGED <<suspended, timedOut>>
  <2>1. suspended' = FALSE
    <3>1. suspended' = suspended /\ suspended \in BOOLEAN /\ ~suspended
      BY <1>1, <1>2
    <3> QED BY <3>1
  <2>2. Renewed
    BY <1>1, <1>2, ResetFields DEF Renewed
  <2> QED BY <1>0, <1>1, <1>2, <2>1, <2>2 DEF LastSent, Wrote, Ends
<1>3. CASE ~suspended /\ conn' = Closed(conn) /\ UNCHANGED <<suspended, timedOut, out>>
  <2>1. suspended' = FALSE
    <3>1. suspended' = suspended /\ suspended \in BOOLEAN /\ ~suspended
      BY <1>1, <1>3
    <3> QED BY <3>1
  <2>2. Read
    BY <1>0, <1>1, <1>3, <2>1, ReadsNothing
  <2>3. Close
    BY <1>0, <1>1, <1>3, <2>2, ClosedFields, Closes
  <2> QED BY <1>0, <2>3 DEF HangUp, Excused, InAnswer
<1>4. CASE ~suspended /\ suspended' = TRUE /\ UNCHANGED <<timedOut, conn, out>>
  BY <1>0, <1>4 DEF Suspend, Server0
<1>5. CASE suspended' = FALSE /\ UNCHANGED out /\ timedOut' = FALSE /\ UNCHANGED conn
  <2>1. Read
    BY <1>0, <1>1, <1>5, ReadsNothing
  <2> QED BY <1>0, <1>1, <1>5, <2>1 DEF Resume
<1>6. CASE suspended' = FALSE /\ UNCHANGED out /\ timedOut' = TRUE /\ conn' = [conn EXCEPT !.late = TRUE]
  <2>1. Read
    BY <1>0, <1>1, <1>6, ReadsNothing
  <2>2. /\ conn' \in ConnType /\ conn'.late = TRUE
        /\ conn'.pc = conn.pc
        /\ conn'.req = conn.req /\ conn'.keepAlive = conn.keepAlive /\ conn'.body = conn.body
        /\ conn'.dec = conn.dec /\ conn'.resp = conn.resp /\ conn'.fed = conn.fed /\ conn'.rd = conn.rd
        /\ conn'.foreign = conn.foreign /\ conn'.cause = conn.cause
        /\ conn'.thrown = conn.thrown /\ conn'.lingered = conn.lingered
    BY <1>1, <1>6 DEF ConnType
  <2> QED BY <1>0, <1>1, <1>6, <2>1, <2>2 DEF Resume
<1> QED BY <1>0, <1>2, <1>3, <1>4, <1>5, <1>6 DEF SendFile

\* The frame after an exception that the handler's call of dispatch() caught.
Broken ==
  /\ conn' \in ConnType
  /\ conn'.req = conn.req /\ conn'.body = conn.body /\ conn'.fed = conn.fed
  /\ conn'.foreign = conn.foreign /\ conn'.cause = conn.cause /\ (conn.late => conn'.late)
  /\ conn'.lingered = conn.lingered /\ conn'.thrown = conn.thrown
  /\ conn'.pc = "drain" /\ ~conn'.keepAlive /\ conn'.rd = NoRead
  /\ conn'.resp.kind = "plain" /\ conn'.resp.status # 100

\* Throw() with the time-out noted.
LEMMA ThrowIs ==
  ASSUME conn \in ConnType, NEW s \in Nat, s # 100, NEW d, d = Throw(conn, s), NEW b \in BOOLEAN,
         conn' = [d EXCEPT !.late = (d.late \/ b)]
  PROVE  /\ conn'.late = (conn.late \/ b) /\ conn'.dec = conn.dec
         /\ conn.rd.who = "handler" => Broken
         /\ conn.rd.who # "handler" => Shut /\ conn'.thrown
<1>1. /\ d \in ConnType
      /\ d.req = conn.req /\ d.body = conn.body /\ d.dec = conn.dec /\ d.fed = conn.fed
      /\ d.foreign = conn.foreign /\ d.cause = conn.cause /\ d.late = conn.late /\ d.lingered = conn.lingered
      /\ conn.rd.who = "handler" =>
           /\ d.pc = "drain" /\ ~d.keepAlive /\ d.rd = NoRead /\ d.thrown = conn.thrown
           /\ d.resp.kind = "plain" /\ d.resp.status = s
      /\ conn.rd.who # "handler" =>
           d.pc = "closed" /\ d.thrown /\ d.keepAlive = conn.keepAlive /\ d.rd = conn.rd /\ d.resp = conn.resp
  BY ThrowFields
<1>2. PICK l \in BOOLEAN : l = (d.late \/ b)
  OBVIOUS
<1>3. conn' = [d EXCEPT !.late = l]
  BY <1>2
<1>4. /\ conn' \in ConnType
      /\ conn'.req = d.req /\ conn'.body = d.body /\ conn'.dec = d.dec /\ conn'.fed = d.fed
      /\ conn'.foreign = d.foreign /\ conn'.cause = d.cause /\ conn'.lingered = d.lingered
      /\ conn'.pc = d.pc /\ conn'.keepAlive = d.keepAlive /\ conn'.rd = d.rd /\ conn'.thrown = d.thrown
      /\ conn'.resp = d.resp /\ conn'.late = l
  BY <1>1, <1>3 DEF ConnType
<1>5. conn'.late = (conn.late \/ b) /\ (conn.late => conn'.late)
  BY <1>1, <1>2, <1>4, ZenonT(60)
<1>6. conn.rd.who = "handler" => Broken
  BY <1>1, <1>4, <1>5 DEF Broken
<1>7. conn.rd.who # "handler" => Shut /\ conn'.thrown
  BY <1>1, <1>4, <1>5 DEF Shut
<1> QED BY <1>1, <1>4, <1>5, <1>6, <1>7

\* An exception in the handler's read, and in what drain() does.
ReadBreaks ==
  /\ Read /\ pos' = pos /\ (zeros' > zeros => fin) /\ (timedOut' => timedOut \/ conn'.late)
  /\ conn.pc \in {"lengthRead", "chunk"} /\ conn.rd.who = "handler" /\ Broken /\ conn'.dec = conn.dec

\* A failed io_.read() in the body.
LEMMA BodyReadFails ==
  ASSUME Base, conn.pc \in {"lengthRead", "lengthDrain", "chunk"}, NEW o \in ReadOutcomes(MaxContent),
         ReadReturnsWith(o), pos' = pos, o.result \in {"LIMIT", "CLOSED", "TIMED_OUT"},
         conn' = [Throw(conn, 500) EXCEPT !.late = @ \/ o.result = "TIMED_OUT"]
  PROVE  ReadBreaks \/ HangUp
<1>0. /\ UNCHANGED <<client, sent, fin, shutdown, out>>
      /\ taken' = o.buf.taken /\ zeros' = o.buf.zeros /\ suspended' = FALSE /\ timedOut' = o.late
      /\ partials' = o.partials
  BY DEF ReadReturnsWith
<1>1. /\ o.buf.taken \in Nat /\ taken <= o.buf.taken /\ o.buf.taken <= sent
      /\ o.buf.zeros \in Nat /\ zeros <= o.buf.zeros
      /\ o.result = "CLOSED" => fin
      /\ o.result # "CLOSED" => o.buf.zeros = zeros
      /\ o.result = "LIMIT" => (o.buf.taken + o.buf.zeros) - pos >= MaxContent
      /\ o.late \in BOOLEAN /\ (o.late => o.result = "TIMED_OUT" \/ timedOut)
      /\ o.partials \in Nat
  BY OutcomeFacts, Constants DEF Base
<1>2. /\ Read /\ (o.result # "CLOSED" => zeros' = zeros)
      /\ timedOut' => o.result = "TIMED_OUT" \/ timedOut
  BY <1>0, <1>1 DEF Read, Server0
<1>3. zeros' > zeros => fin
  <2>1. CASE o.result = "CLOSED"
    BY <1>1, <2>1
  <2>2. CASE o.result # "CLOSED"
    <3>1. zeros' = zeros /\ zeros \in Nat
      BY <1>2, <2>2, TypeFacts
    <3>2. ~(zeros > zeros)
      BY <3>1
    <3> QED BY <3>1, <3>2
  <2> QED BY <2>1, <2>2
<1>4. conn \in ConnType
  BY TypeFacts
<1>5. PICK b \in BOOLEAN : b = (o.result = "TIMED_OUT")
  OBVIOUS
<1>6. PICK d : d = Throw(conn, 500)
  OBVIOUS
<1>7. conn' = [d EXCEPT !.late = (d.late \/ b)]
  BY <1>5, <1>6, ZenonT(60)
<1>8. 500 \in Nat /\ 500 # 100
  OBVIOUS
<1>9. /\ conn'.late = (conn.late \/ b) /\ conn'.dec = conn.dec
      /\ conn.rd.who = "handler" => Broken
      /\ conn.rd.who # "handler" => Shut /\ conn'.thrown
  BY <1>4, <1>6, <1>7, <1>8, ThrowIs
<1>10. CASE conn.rd.who = "handler"
  <2>1. conn.pc \in {"lengthRead", "chunk"}
    BY <1>10 DEF Base, Control
  <2>2. timedOut' => timedOut \/ conn'.late
    BY <1>2, <1>5, <1>9
  <2> QED BY <1>2, <1>3, <1>9, <1>10, <2>1, <2>2 DEF ReadBreaks
<1>11. CASE conn.rd.who # "handler"
  <2>1. Shut /\ conn'.thrown
    BY <1>9, <1>11
  <2>2. Close
    BY <1>2, <1>3, <2>1, Closes
  <2>3. InRequest
    BY DEF InRequest
  <2>4. CASE o.result = "CLOSED"
    BY <1>1, <2>2, <2>4 DEF HangUp, Excused
  <2>5. CASE o.result = "TIMED_OUT"
    BY <1>5, <1>9, <2>2, <2>5 DEF HangUp, Excused
  <2>6. CASE o.result = "LIMIT"
    <3>1. ReadBufferSize' >= MaxContent
      BY <1>0, <1>1, <2>6 DEF ReadBufferSize
    <3>2. client' = client /\ conn'.req = conn.req
      BY <1>0, <2>1 DEF Shut
    <3>3. Unreadable(Req)'
      BY <3>1, <3>2, UnreadableKept
    <3> QED BY <2>1, <2>2, <2>3, <3>3 DEF HangUp, Excused
  <2> QED BY <2>4, <2>5, <2>6
<1> QED BY <1>10, <1>11

\* What readFn may lose sight of.
Lost(n) == CASE n > conn.body.remaining -> {"overread"}
             [] n = 0 /\ conn.body.remaining > 0 -> {"shortRead"}
             [] OTHER -> {}

\* readFn returns n units.
Copies(n) ==
  /\ Read /\ zeros' = zeros /\ (timedOut' => timedOut) /\ conn.pc = "lengthRead"
  /\ pos' = pos + n /\ pos' <= taken' + zeros'
  /\ Returned(n) /\ conn'.foreign = (conn.foreign \/ Foreign(n, taken')) /\ conn'.cause = conn.cause \cup Lost(n)

\* The three cases exclude one another.
LEMMA LostIs ==
  ASSUME NEW n \in Nat, conn \in ConnType
  PROVE  /\ Lost(n) \in SUBSET {"overread", "shortRead", "trailer", "astray"}
         /\ n > conn.body.remaining => Lost(n) = {"overread"}
         /\ n <= conn.body.remaining /\ n = 0 /\ conn.body.remaining > 0 => Lost(n) = {"shortRead"}
         /\ n <= conn.body.remaining /\ ~(n = 0 /\ conn.body.remaining > 0) => Lost(n) = {}
<1>1. conn.body.remaining \in Nat
  BY ConnFacts
<1>2. CASE n > conn.body.remaining
  BY <1>1, <1>2 DEF Lost
<1>3. CASE n <= conn.body.remaining /\ n = 0 /\ conn.body.remaining > 0
  BY <1>1, <1>3 DEF Lost
<1>4. CASE n <= conn.body.remaining /\ ~(n = 0 /\ conn.body.remaining > 0)
  BY <1>1, <1>4 DEF Lost
<1> QED BY <1>1, <1>2, <1>3, <1>4

\* readFn copies n units that are in the buffer.
LEMMA CopiedMoves ==
  ASSUME Base, conn.pc = "lengthRead", NEW n \in Nat, Copied(n, taken'), Read, zeros' = zeros,
         timedOut' => timedOut, pos + n <= taken' + zeros'
  PROVE  Copies(n)
<1>1. conn \in ConnType /\ conn.rd.who = "handler"
  BY TypeFacts DEF Base, Control
<1>2. PICK d : d = ReadReturns(conn, n)
  OBVIOUS
<1>3. PICK r \in Nat : r = ((conn.body.remaining + Word) - n) % Word
  <2>1. PICK a \in Nat : a = conn.body.remaining
    BY <1>1, ConnFacts
  <2>2. ((a + Word) - n) % Word \in Nat
    BY ModIsNat
  <2> QED BY <2>1, <2>2
<1>4. /\ d \in ConnType
      /\ d.req = conn.req /\ d.dec = conn.dec /\ d.fed = conn.fed + n
      /\ d.foreign = conn.foreign /\ d.cause = conn.cause /\ d.late = conn.late /\ d.thrown = conn.thrown
      /\ d.lingered = conn.lingered
      /\ d.body.kind = conn.body.kind /\ d.body.remaining = r
      /\ d.body.exhausted = (n = 0 \/ r = 0)
      /\ \/ d.pc = "handler" /\ d.rd = NoRead /\ d.keepAlive = conn.keepAlive /\ d.resp = conn.resp
         \/ /\ d.pc = "drain" /\ d.rd = NoRead /\ ~d.keepAlive
            /\ d.resp.kind = "plain" /\ d.resp.status = 413
         \/ /\ d.pc = conn.pc /\ d.keepAlive = conn.keepAlive /\ d.resp = conn.resp
            /\ d.rd.who = "handler" /\ d.rd.size = conn.rd.size /\ d.rd.written = 0 /\ ~d.rd.search
            /\ n > 0 /\ ~d.body.exhausted
  BY <1>1, <1>2, <1>3, ReturnFields
<1>5. PICK f \in BOOLEAN : f = (d.foreign \/ Foreign(n, taken'))
  OBVIOUS
<1>6. PICK a \in SUBSET {"overread", "shortRead", "trailer", "astray"} : a = Lost(n)
  BY <1>1, LostIs
<1>7. pos' = pos + n /\ conn' = [d EXCEPT !.foreign = f, !.cause = @ \cup a]
  BY <1>2, <1>5, <1>6 DEF Copied, Lost
<1>8. /\ conn' \in ConnType
      /\ conn'.req = d.req /\ conn'.dec = d.dec /\ conn'.fed = d.fed
      /\ conn'.foreign = f /\ conn'.cause = d.cause \cup a /\ conn'.late = d.late /\ conn'.thrown = d.thrown
      /\ conn'.lingered = d.lingered /\ conn'.body = d.body
      /\ conn'.pc = d.pc /\ conn'.rd = d.rd /\ conn'.keepAlive = d.keepAlive /\ conn'.resp = d.resp
  BY <1>4, <1>7 DEF ConnType
<1>9. Returned(n)
  BY <1>3, <1>4, <1>8 DEF Returned
<1>10. conn'.foreign = (conn.foreign \/ Foreign(n, taken')) /\ conn'.cause = conn.cause \cup Lost(n)
  BY <1>4, <1>5, <1>6, <1>8
<1> QED BY <1>7, <1>9, <1>10 DEF Copies

\* readFn copies, waits, or fails.
LEMMA LengthReadMoves ==
  ASSUME Base, LengthRead
  PROVE  conn.pc = "lengthRead" /\ ((\E n \in Nat : Copies(n)) \/ Suspend \/ ReadBreaks \/ HangUp)
<1>0. conn.pc = "lengthRead" /\ MaxContent \in Nat
  BY Constants DEF LengthRead, At
<1>1. conn \in ConnType /\ conn.rd.size \in Nat /\ conn.body.remaining \in Nat
  BY TypeFacts, ConnFacts
<1>t. pos \in Nat /\ taken \in Nat /\ zeros \in Nat /\ ReadBufferSize \in Nat /\ ReadBufferSize = (taken + zeros) - pos
  BY TypeFacts
<1>2. CASE ~suspended /\ (ReadBufferSize >= conn.rd.size \/ RestIsThere)
  <2>0. PICK n \in Nat : n = IF ReadBufferSize >= conn.rd.size THEN conn.rd.size ELSE conn.body.remaining
    BY <1>1
  <2>1. Copied(n, taken) /\ UNCHANGED <<clientVars, bufferVars, suspended, timedOut, out>>
    BY <1>2, <2>0 DEF LengthRead
  <2>2. UNCHANGED <<client, sent, fin, shutdown, out, partials, taken, zeros, suspended, timedOut>>
    BY <2>1 DEF clientVars, bufferVars
  <2>3. suspended' = FALSE
    <3>1. suspended' = suspended /\ suspended \in BOOLEAN /\ ~suspended
      BY <1>2, <2>2, TypeFacts
    <3> QED BY <3>1
  <2>4. partials' \in Nat /\ timedOut' \in BOOLEAN
    BY <2>2, TypeFacts
  <2>5. Read
    BY <2>2, <2>3, <2>4, ReadsNothing
  <2>6. n <= ReadBufferSize
    BY <1>1, <1>2, <1>t, <2>0 DEF RestIsThere
  <2>7. pos + n <= taken + zeros
    BY <1>t, <2>6
  <2>8. Copied(n, taken') /\ pos + n <= taken' + zeros' /\ zeros' = zeros /\ (timedOut' => timedOut)
    BY <2>1, <2>2, <2>7
  <2> QED BY <1>0, <2>5, <2>8, CopiedMoves
<1>3. CASE ReadSuspends(MaxContent)
  BY <1>0, <1>3, ReadSuspendsMoves
<1>4. ASSUME NEW o \in ReadOutcomes(MaxContent), ReadReturnsWith(o), AfterLengthRead(o.result)
      PROVE  (\E n \in Nat : Copies(n)) \/ ReadBreaks \/ HangUp
  <2>1. CASE o.result \in ReadFailures
    <3>1. conn' = [Throw(conn, 500) EXCEPT !.late = @ \/ o.result = "TIMED_OUT"] /\ pos' = pos
      BY <1>4, <2>1 DEF AfterLengthRead
    <3>2. o.result \in {"LIMIT", "CLOSED", "TIMED_OUT"} /\ conn.pc \in {"lengthRead", "lengthDrain", "chunk"}
      BY <1>0, <2>1 DEF ReadFailures
    <3> QED BY <1>4, <3>1, <3>2, BodyReadFails
  <2>2. CASE o.result \notin ReadFailures
    <3>0. /\ UNCHANGED <<client, sent, fin, shutdown, out>>
          /\ taken' = o.buf.taken /\ zeros' = o.buf.zeros /\ suspended' = FALSE /\ timedOut' = o.late
          /\ partials' = o.partials
      BY <1>4 DEF ReadReturnsWith
    <3>1. /\ o.buf.taken \in Nat /\ taken <= o.buf.taken /\ o.buf.taken <= sent
          /\ o.buf.zeros \in Nat /\ zeros <= o.buf.zeros
          /\ o.result # "CLOSED" => o.buf.zeros = zeros
          /\ o.late \in BOOLEAN /\ (o.late => o.result = "TIMED_OUT" \/ timedOut)
          /\ o.partials \in Nat
      BY OutcomeFacts, Constants DEF Base
    <3>2. Read /\ zeros' = zeros /\ (timedOut' => timedOut)
      BY <2>2, <3>0, <3>1 DEF Read, Server0, ReadFailures
    <3>3. PICK t \in Nat : t = taken'
      BY <3>0, <3>1
    <3>4. PICK m \in Int : m = (t + zeros) - pos
      BY <1>t
    <3>5. m >= 0
      <4>1. PICK p \in Nat, a \in Nat, z \in Nat : p = pos /\ a = taken /\ z = zeros
        BY TypeFacts
      <4>2. p <= a + z
        BY <4>1, TypeFacts
      <4>3. a <= t
        BY <3>0, <3>1, <3>3, <4>1
      <4>4. m = (t + z) - p
        BY <3>4, <4>1
      <4> QED BY <4>2, <4>3, <4>4
    <3>6. PICK a \in Nat, b \in Nat : a = conn.rd.size /\ b = conn.body.remaining
      BY <1>1
    <3>7. PICK n : n = Min({m, a, b})
      OBVIOUS
    <3>8. n \in {m, a, b} /\ n <= m
      BY <3>7, MinOfThree
    <3>9. n \in Nat
      BY <3>5, <3>8
    <3>10. pos + n <= t + zeros
      BY <1>t, <3>4, <3>8, <3>9
    <3>11. Copied(n, taken')
      BY <1>4, <2>2, <3>2, <3>3, <3>4, <3>6, <3>7 DEF AfterLengthRead
    <3> QED BY <1>0, <3>2, <3>3, <3>9, <3>10, <3>11, CopiedMoves
  <2> QED BY <2>1, <2>2
<1> QED BY <1>0, <1>2, <1>3, <1>4 DEF LengthRead

\* drainFn skips the rest of the body at once.
Skips == /\ Calm /\ conn.pc = "lengthDrain" /\ Same("answer")
         /\ pos' = pos + conn.body.remaining /\ pos' \in Nat /\ pos' <= taken + zeros

\* drainFn skips, waits, is resumed, or fails.
LEMMA LengthDrainMoves ==
  ASSUME Base, LengthDrain
  PROVE  conn.pc = "lengthDrain" /\ (Skips \/ Suspend \/ Resume \/ ReadBreaks \/ HangUp)
<1>0. conn.pc = "lengthDrain" /\ MaxContent \in Nat
  BY Constants DEF LengthDrain, At
<1>1. conn \in ConnType /\ conn.body.remaining \in Nat
  BY TypeFacts, ConnFacts
<1>t. pos \in Nat /\ taken \in Nat /\ zeros \in Nat /\ ReadBufferSize \in Nat /\ ReadBufferSize = (taken + zeros) - pos
  BY TypeFacts
<1>2. CASE ~suspended /\ CanDrain
  <2>1. /\ UNCHANGED <<client, sent, fin, shutdown, out, partials, taken, zeros, suspended, timedOut>>
        /\ pos' = pos + conn.body.remaining /\ conn' = Goto(conn, "answer")
    BY <1>2 DEF LengthDrain, clientVars, bufferVars
  <2>2. Same("answer")
    BY <1>1, <2>1, GotoFields DEF Labels
  <2>3. Calm
    BY <1>2, <2>1, TypeFacts DEF Calm, Server0
  <2>4. pos + conn.body.remaining <= taken + zeros
    BY <1>1, <1>2, <1>t DEF CanDrain
  <2>5. pos' \in Nat /\ pos' <= taken + zeros
    BY <1>1, <1>t, <2>1, <2>4
  <2> QED BY <1>0, <2>1, <2>2, <2>3, <2>5 DEF Skips
<1>3. CASE ReadSuspends(MaxContent)
  BY <1>0, <1>3, ReadSuspendsMoves
<1>4. ASSUME NEW o \in ReadOutcomes(MaxContent), ReadReturnsWith(o), AfterDrainRead(o.result)
      PROVE  Resume \/ ReadBreaks \/ HangUp
  <2>1. CASE o.result \in DrainFailures
    <3>1. conn' = [Throw(conn, 500) EXCEPT !.late = @ \/ o.result = "TIMED_OUT"] /\ pos' = pos
      BY <1>4, <2>1 DEF AfterDrainRead
    <3>2. o.result \in {"LIMIT", "CLOSED", "TIMED_OUT"} /\ conn.pc \in {"lengthRead", "lengthDrain", "chunk"}
      BY <1>0, <2>1 DEF DrainFailures
    <3> QED BY <1>4, <3>1, <3>2, BodyReadFails
  <2>2. CASE o.result \notin DrainFailures
    <3>0. /\ UNCHANGED <<client, sent, fin, shutdown, out>>
          /\ taken' = o.buf.taken /\ zeros' = o.buf.zeros /\ suspended' = FALSE /\ timedOut' = o.late
          /\ partials' = o.partials
      BY <1>4 DEF ReadReturnsWith
    <3>1. /\ o.buf.taken \in Nat /\ taken <= o.buf.taken /\ o.buf.taken <= sent
          /\ o.buf.zeros \in Nat /\ zeros <= o.buf.zeros
          /\ o.result # "CLOSED" => o.buf.zeros = zeros
          /\ o.late \in BOOLEAN /\ (o.late => o.result = "TIMED_OUT" \/ timedOut)
          /\ o.partials \in Nat
      BY OutcomeFacts, Constants DEF Base
    <3>2. Read /\ zeros' = zeros /\ (timedOut' => timedOut)
      BY <2>2, <3>0, <3>1 DEF Read, Server0, DrainFailures
    <3>3. conn' = conn /\ pos' = pos
      BY <1>4, <2>2 DEF AfterDrainRead
    <3> QED BY <1>0, <1>1, <3>2, <3>3 DEF Resume
  <2> QED BY <2>1, <2>2
<1> QED BY <1>0, <1>2, <1>3, <1>4 DEF LengthDrain

\* The decoder finds what it cannot decode, or refuses a size.
Misplaced ==
  LET n == stream[pos + 1].n
  IN /\ ReadBufferSize > 0
     /\ \/ conn.dec.state = "CHUNK_SIZE" /\ Unit(1) # "size" /\ pos' = pos
        \/ /\ conn.dec.state = "CHUNK_SIZE" /\ Unit(1) = "size" /\ pos' = pos + 1
           /\ n > MaxTEChunk \/ (n \in 1..MaxTEChunk /\ conn.dec.total + n > MaxTE)
        \/ conn.dec.state = "CHUNK_CRLF" /\ Unit(1) # "crlf" /\ pos' = pos

\* The frame after an exception that leaves run().
Gone ==
  /\ conn' \in ConnType /\ conn'.pc = "closed"
  /\ conn'.req = conn.req /\ conn'.body = conn.body
  /\ conn'.resp.kind = conn.resp.kind
  /\ conn'.resp.status = conn.resp.status /\ conn'.fed = conn.fed
  /\ conn'.foreign = conn.foreign /\ conn'.cause = conn.cause
  /\ (conn.late => conn'.late) /\ conn'.thrown

\* The exception of the decoder.
Refuses ==
  /\ Calm /\ conn.pc = "chunk" /\ pos' \in Nat /\ pos' <= taken + zeros /\ Misplaced
  /\ \/ conn.rd.who = "handler" /\ Broken /\ conn'.dec.state = conn.dec.state
     \/ conn.rd.who = "drain" /\ Gone

\* Throw() from the decoder.
LEMMA ThrowOf ==
  ASSUME conn \in ConnType, NEW c \in ConnType,
         c.req = conn.req, c.body = conn.body, c.rd = conn.rd, c.resp = conn.resp, c.fed = conn.fed,
         c.foreign = conn.foreign, c.cause = conn.cause, c.late = conn.late, c.thrown = conn.thrown,
         c.lingered = conn.lingered, NEW s \in Nat, s # 100, conn' = Throw(c, s)
  PROVE  /\ conn'.dec = c.dec
         /\ conn.rd.who = "handler" => Broken
         /\ conn.rd.who # "handler" => Gone
<1>1. /\ conn' \in ConnType
      /\ conn'.req = c.req /\ conn'.body = c.body /\ conn'.dec = c.dec /\ conn'.fed = c.fed
      /\ conn'.foreign = c.foreign /\ conn'.cause = c.cause /\ conn'.late = c.late /\ conn'.lingered = c.lingered
      /\ c.rd.who = "handler" =>
           /\ conn'.pc = "drain" /\ ~conn'.keepAlive /\ conn'.rd = NoRead /\ conn'.thrown = c.thrown
           /\ conn'.resp.kind = "plain" /\ conn'.resp.status = s
      /\ c.rd.who # "handler" =>
           conn'.pc = "closed" /\ conn'.thrown /\ conn'.keepAlive = c.keepAlive /\ conn'.rd = c.rd /\ conn'.resp = c.resp
  BY ThrowFields
<1>2. conn.rd.who = "handler" => Broken
  BY <1>1 DEF Broken
<1>3. conn.rd.who # "handler" => Gone
  BY <1>1 DEF Gone
<1> QED BY <1>1, <1>2, <1>3

\* One turn of readSome's loop.
Turns ==
  /\ Calm /\ conn.pc = "chunk" /\ conn' \in ConnType
  /\ conn'.pc = conn.pc /\ conn'.req = conn.req /\ conn'.keepAlive = conn.keepAlive /\ conn'.body = conn.body
  /\ conn'.resp = conn.resp /\ conn'.fed = conn.fed /\ conn'.late = conn.late /\ conn'.thrown = conn.thrown
  /\ conn'.lingered = conn.lingered
  /\ conn'.rd.who = conn.rd.who /\ conn'.rd.size = conn.rd.size

\* It takes a size line,
SizeTaken ==
  /\ Turns /\ pos' = pos + 1 /\ pos < taken /\ stream[pos + 1].t = "size" /\ conn.dec.state = "CHUNK_SIZE"
  /\ conn'.rd = conn.rd /\ conn'.foreign = conn.foreign /\ conn'.cause = conn.cause
  /\ \/ /\ stream[pos + 1].n = 0 /\ conn'.dec.state = "TRAILER" /\ conn'.dec.total = conn.dec.total
     \/ /\ stream[pos + 1].n > 0 /\ stream[pos + 1].n <= MaxTEChunk /\ conn'.dec.state = "CHUNK_BODY"
        /\ conn'.dec.left = stream[pos + 1].n /\ conn'.dec.total = conn.dec.total + stream[pos + 1].n
        /\ conn'.dec.total <= MaxTE

\* n units of a chunk,
BodyTaken(n) ==
  /\ Turns /\ pos' = pos + n /\ pos + n <= taken + zeros /\ conn.dec.state = "CHUNK_BODY"
  /\ n <= conn.dec.left /\ conn'.dec.left = conn.dec.left - n /\ conn'.dec.total = conn.dec.total
  /\ conn'.dec.state = IF conn'.dec.left = 0 THEN "CHUNK_CRLF" ELSE "CHUNK_BODY"
  /\ conn'.rd.written = conn.rd.written + n /\ conn'.rd.written <= conn.rd.size
  /\ conn'.cause = conn.cause
  /\ conn'.foreign = (conn.foreign \/ (conn.rd.who = "handler" /\ Foreign(n, taken)))

\* a CRLF,
CrlfTaken ==
  /\ Turns /\ pos' = pos + 1 /\ pos < taken /\ stream[pos + 1].t = "crlf" /\ conn.dec.state = "CHUNK_CRLF"
  /\ conn'.rd = conn.rd /\ conn'.foreign = conn.foreign /\ conn'.cause = conn.cause
  /\ conn'.dec.state = "CHUNK_SIZE" /\ conn'.dec.total = conn.dec.total

\* the trailers,
TrailerTaken(n) ==
  /\ Turns /\ pos' = pos + n /\ n > 0 /\ pos + n <= taken /\ conn.dec.state = "TRAILER"
  /\ conn'.rd = conn.rd /\ conn'.foreign = conn.foreign
  /\ conn'.dec.state = "DONE" /\ conn'.dec.total = conn.dec.total
  /\ conn'.cause = conn.cause \cup (IF stream[pos + n].r # conn.req THEN {"trailer"} ELSE {})
  /\ (n = 1 /\ stream[pos + 1].t = "crlf") \/ (n = Min(BlankLines) /\ BlankLines # {})

\* or returns to the handler,
SomeReturned ==
  /\ Calm /\ pos' = pos /\ conn.pc = "chunk" /\ conn.rd.who = "handler" /\ Returned(conn.rd.written)
  /\ conn'.foreign = conn.foreign /\ conn'.cause = conn.cause
  /\ conn.dec.state = "DONE" \/ conn.rd.written = conn.rd.size

\* to drain() at the end of the body,
Drained ==
  /\ Calm /\ pos' = pos /\ conn.pc = "chunk" /\ conn.rd.who = "drain" /\ conn.rd.written = 0 /\ conn.dec.state = "DONE"
  /\ Kept /\ conn'.pc = "answer" /\ conn'.rd = NoRead /\ conn'.keepAlive = conn.keepAlive /\ conn'.body = conn.body
  /\ conn'.dec = conn.dec /\ conn'.resp = conn.resp /\ conn'.fed = conn.fed /\ conn'.foreign = conn.foreign

\* or to drain() in the middle of it.
Dropped ==
  /\ Turns /\ pos' = pos /\ conn.rd.who = "drain"
  /\ conn'.dec = conn.dec /\ conn'.foreign = conn.foreign /\ conn'.cause = conn.cause
  /\ conn'.rd.written = 0 /\ ~conn'.rd.search

\* readSome() returns to the handler or to drain().
LEMMA SomeReadMoves ==
  ASSUME Base, conn.pc = "chunk", Calm, pos' = pos, conn' = SomeRead(conn),
         conn.dec.state = "DONE" \/ conn.rd.written = conn.rd.size
  PROVE  SomeReturned \/ Drained \/ Dropped
<1>1. conn \in ConnType /\ conn.rd.who \in {"handler", "drain"} /\ conn.rd.size > 0
  BY TypeFacts DEF Base, Control
<1>2. conn.rd.written \in Nat /\ conn.body.remaining \in Nat /\ conn.rd.size \in Nat
  BY <1>1, ConnFacts
<1>3. CASE conn.rd.who = "handler"
  <2>1. PICK n \in Nat : n = conn.rd.written
    BY <1>2
  <2>2. conn' = ReadReturns(conn, n)
    BY <1>3, <2>1 DEF SomeRead
  <2>3. PICK r : r = ((conn.body.remaining + Word) - n) % Word
    OBVIOUS
  <2>4. /\ conn' \in ConnType
        /\ conn'.req = conn.req /\ conn'.dec = conn.dec /\ conn'.fed = conn.fed + n
        /\ conn'.foreign = conn.foreign /\ conn'.cause = conn.cause /\ conn'.late = conn.late /\ conn'.thrown = conn.thrown
        /\ conn'.lingered = conn.lingered
        /\ conn'.body.kind = conn.body.kind /\ conn'.body.remaining = r
        /\ conn'.body.exhausted = (n = 0 \/ r = 0)
        /\ \/ conn'.pc = "handler" /\ conn'.rd = NoRead /\ conn'.keepAlive = conn.keepAlive /\ conn'.resp = conn.resp
           \/ /\ conn'.pc = "drain" /\ conn'.rd = NoRead /\ ~conn'.keepAlive
              /\ conn'.resp.kind = "plain" /\ conn'.resp.status = 413
           \/ /\ conn'.pc = conn.pc /\ conn'.keepAlive = conn.keepAlive /\ conn'.resp = conn.resp
              /\ conn'.rd.who = "handler" /\ conn'.rd.size = conn.rd.size /\ conn'.rd.written = 0 /\ ~conn'.rd.search
              /\ n > 0 /\ ~conn'.body.exhausted
    BY <1>1, <1>3, <2>2, <2>3, ReturnFields
  <2>5. Returned(n)
    BY <2>3, <2>4 DEF Returned
  <2> QED BY <1>3, <2>1, <2>4, <2>5 DEF SomeReturned
<1>4. CASE conn.rd.who = "drain" /\ conn.rd.written = 0
  <2>1. conn' = [conn EXCEPT !.pc = "answer", !.rd = NoRead]
    BY <1>4 DEF SomeRead
  <2>2. NoRead \in ReadType
    BY DEF NoRead, ReadType
  <2>3. /\ Kept /\ conn'.pc = "answer" /\ conn'.rd = NoRead /\ conn'.keepAlive = conn.keepAlive /\ conn'.body = conn.body
        /\ conn'.dec = conn.dec /\ conn'.resp = conn.resp /\ conn'.fed = conn.fed /\ conn'.foreign = conn.foreign
    BY <1>1, <2>1, <2>2, ZenonT(60) DEF Kept, ConnType, Labels
  <2>4. conn.dec.state = "DONE"
    BY <1>1, <1>2, <1>4
  <2> QED BY <1>4, <2>3, <2>4 DEF Drained
<1>5. CASE conn.rd.who = "drain" /\ conn.rd.written > 0
  <2>1. conn' = [conn EXCEPT !.rd.written = 0, !.rd.search = FALSE]
    BY <1>2, <1>5 DEF SomeRead
  <2>2. /\ conn' \in ConnType
        /\ conn'.pc = conn.pc /\ conn'.req = conn.req /\ conn'.keepAlive = conn.keepAlive /\ conn'.body = conn.body
        /\ conn'.resp = conn.resp /\ conn'.fed = conn.fed /\ conn'.late = conn.late /\ conn'.thrown = conn.thrown
        /\ conn'.lingered = conn.lingered
        /\ conn'.rd.who = conn.rd.who /\ conn'.rd.size = conn.rd.size
        /\ conn'.dec = conn.dec /\ conn'.foreign = conn.foreign /\ conn'.cause = conn.cause
        /\ conn'.rd.written = 0 /\ conn'.rd.search = FALSE
    <3>1. PICK e : e = [conn EXCEPT !.rd.written = 0]
      OBVIOUS
    <3>2. conn' = [e EXCEPT !.rd.search = FALSE]
      BY <2>1, <3>1
    <3>3. /\ e \in ConnType
          /\ e.pc = conn.pc /\ e.req = conn.req /\ e.keepAlive = conn.keepAlive /\ e.body = conn.body
          /\ e.resp = conn.resp /\ e.fed = conn.fed /\ e.late = conn.late /\ e.thrown = conn.thrown
          /\ e.lingered = conn.lingered
          /\ e.rd.who = conn.rd.who /\ e.rd.size = conn.rd.size /\ e.rd.written = 0
          /\ e.dec = conn.dec /\ e.foreign = conn.foreign /\ e.cause = conn.cause
      BY <1>1, <3>1 DEF ConnType, ReadType
    <3>4. PICK q : q = [e.rd EXCEPT !.search = FALSE]
      OBVIOUS
    <3>5. e.rd \in ReadType
      BY <3>3 DEF ConnType
    <3>6. q \in ReadType /\ q.who = e.rd.who /\ q.size = e.rd.size /\ q.written = e.rd.written /\ q.search = FALSE
      BY <3>4, <3>5 DEF ReadType
    <3>7. conn' = [e EXCEPT !.rd = q]
      BY <3>2, <3>4
    <3>8. /\ conn' \in ConnType
          /\ conn'.pc = e.pc /\ conn'.req = e.req /\ conn'.keepAlive = e.keepAlive /\ conn'.body = e.body
          /\ conn'.resp = e.resp /\ conn'.fed = e.fed /\ conn'.late = e.late /\ conn'.thrown = e.thrown
          /\ conn'.lingered = e.lingered /\ conn'.rd = q
          /\ conn'.dec = e.dec /\ conn'.foreign = e.foreign /\ conn'.cause = e.cause
      BY <3>3, <3>6, <3>7 DEF ConnType
    <3> QED BY <3>3, <3>6, <3>8
  <2> QED BY <1>5, <2>2 DEF Dropped, Turns
<1> QED BY <1>1, <1>2, <1>3, <1>4, <1>5

\* The frame with another decoder.
LEMMA NewDec ==
  ASSUME conn \in ConnType, NEW q \in DecoderType, NEW c, c = [conn EXCEPT !.dec = q]
  PROVE  /\ c \in ConnType
         /\ c.pc = conn.pc /\ c.req = conn.req /\ c.keepAlive = conn.keepAlive /\ c.body = conn.body
         /\ c.rd = conn.rd /\ c.resp = conn.resp /\ c.fed = conn.fed /\ c.foreign = conn.foreign
         /\ c.cause = conn.cause /\ c.late = conn.late /\ c.thrown = conn.thrown /\ c.lingered = conn.lingered
         /\ c.dec = q
  BY DEF ConnType

\* The unit in front was received.
LEMMA FirstUnit ==
  ASSUME Base, Unit(1) # "zero"
  PROVE  pos < taken /\ pos + 1 \in 1..Len(stream) /\ Unit(1) = stream[pos + 1].t /\ stream[pos + 1] \in TokenType
         /\ pos + 1 <= taken + zeros
<1>1. pos + 1 <= taken /\ Unit(1) = stream[pos + 1].t
  BY DEF Unit
<1>2. pos \in Nat /\ taken \in Nat /\ zeros \in Nat /\ taken <= sent /\ sent <= Len(stream) /\ sent \in Nat
  BY TypeFacts
<1>3. stream \in Seq(TokenType) /\ Len(stream) \in Nat
  BY TypeFacts, TheClient
<1>4. pos + 1 \in 1..Len(stream) /\ pos < taken /\ pos + 1 <= taken + zeros
  BY <1>1, <1>2, <1>3
<1> QED BY <1>1, <1>3, <1>4

\* The decoder before a size line,
LEMMA ChunkSizeMoves ==
  ASSUME Base, conn.pc = "chunk", Calm, conn.dec.state = "CHUNK_SIZE", LineEnds # {}, ChunkSize
  PROVE  SizeTaken \/ Refuses
<1>1. conn \in ConnType /\ conn.rd.who \in {"handler", "drain"} /\ conn.dec \in DecoderType
  BY TypeFacts DEF Base, Control, ConnType
<1>t. pos \in Nat /\ taken \in Nat /\ zeros \in Nat /\ ReadBufferSize \in Nat /\ pos <= taken + zeros
  BY TypeFacts
<1>2. ReadBufferSize > 0
  BY <1>t DEF LineEnds
<1>c. MaxTE \in Nat /\ MaxTEChunk \in Nat /\ conn.dec.total \in Nat
  BY <1>1, ConnFacts, Constants
<1>3. ASSUME NEW c \in ConnType, c.dec.state = conn.dec.state,
             c.req = conn.req, c.body = conn.body, c.rd = conn.rd, c.resp = conn.resp, c.fed = conn.fed,
             c.foreign = conn.foreign, c.cause = conn.cause, c.late = conn.late, c.thrown = conn.thrown,
             c.lingered = conn.lingered, NEW s \in Nat, s # 100, conn' = Throw(c, s), Misplaced,
             pos' \in Nat, pos' <= taken + zeros
      PROVE  Refuses
  <2>1. /\ conn'.dec = c.dec
        /\ conn.rd.who = "handler" => Broken
        /\ conn.rd.who # "handler" => Gone
    BY <1>1, <1>3, ThrowOf
  <2> QED BY <1>1, <1>3, <2>1 DEF Refuses
<1>4. CASE Unit(1) # "size"
  <2>1. conn' = Throw(conn, 400) /\ pos' = pos
    BY <1>4 DEF ChunkSize
  <2>2. Misplaced
    BY <1>2, <1>4, <2>1 DEF Misplaced
  <2>3. pos' \in Nat /\ pos' <= taken + zeros /\ 400 \in Nat /\ 400 # 100
    BY <1>t, <2>1
  <2> QED BY <1>1, <1>3, <2>1, <2>2, <2>3
<1>5. CASE Unit(1) = "size"
  <2>0. pos < taken /\ stream[pos + 1].t = "size" /\ stream[pos + 1] \in TokenType /\ pos + 1 <= taken + zeros
    BY <1>5, FirstUnit
  <2>1. PICK n \in Nat : n = stream[pos + 1].n
    BY <2>0 DEF TokenType
  <2>2. PICK total \in Nat : total = conn.dec.total + n
    BY <1>c
  <2>3. /\ pos' = pos + 1
        /\ conn' = CASE n = 0 -> [conn EXCEPT !.dec.state = "TRAILER"]
                     [] n > MaxTEChunk -> Throw(conn, 413)
                     [] n \in 1..MaxTEChunk /\ total > MaxTE -> Throw([conn EXCEPT !.dec.total = total], 413)
                     [] n \in 1..MaxTEChunk /\ total <= MaxTE ->
                          [conn EXCEPT !.dec = [state |-> "CHUNK_BODY", left |-> n, total |-> total]]
    BY <1>5, <2>1, <2>2 DEF ChunkSize
  <2>4. pos' \in Nat /\ pos' <= taken + zeros /\ 413 \in Nat /\ 413 # 100
    BY <1>t, <2>0, <2>3
  <2>5. CASE n = 0
    <3>1. conn' = [conn EXCEPT !.dec.state = "TRAILER"]
      BY <1>c, <2>3, <2>5
    <3>2. PICK q : q = [conn.dec EXCEPT !.state = "TRAILER"]
      OBVIOUS
    <3>3. q \in DecoderType /\ q.state = "TRAILER" /\ q.total = conn.dec.total
      BY <1>1, <3>2 DEF DecoderType
    <3>4. conn' = [conn EXCEPT !.dec = q]
      BY <3>1, <3>2
    <3>5. /\ conn' \in ConnType
          /\ conn'.pc = conn.pc /\ conn'.req = conn.req /\ conn'.keepAlive = conn.keepAlive /\ conn'.body = conn.body
          /\ conn'.rd = conn.rd /\ conn'.resp = conn.resp /\ conn'.fed = conn.fed /\ conn'.foreign = conn.foreign
          /\ conn'.cause = conn.cause /\ conn'.late = conn.late /\ conn'.thrown = conn.thrown /\ conn'.lingered = conn.lingered
          /\ conn'.dec = q
      BY <1>1, <3>3, <3>4, NewDec
    <3> QED BY <2>0, <2>1, <2>3, <2>5, <3>3, <3>5 DEF SizeTaken, Turns
  <2>6. CASE n > MaxTEChunk
    <3>1. conn' = Throw(conn, 413)
      BY <1>c, <2>3, <2>6
    <3>2. Misplaced
      BY <1>2, <1>5, <2>1, <2>3, <2>6 DEF Misplaced
    <3> QED BY <1>1, <1>3, <2>4, <3>1, <3>2
  <2>7. CASE n \in 1..MaxTEChunk /\ total > MaxTE
    <3>1. conn' = Throw([conn EXCEPT !.dec.total = total], 413)
      BY <1>c, <2>3, <2>7
    <3>2. Misplaced
      BY <1>2, <1>5, <2>1, <2>2, <2>3, <2>7 DEF Misplaced
    <3>3. PICK q : q = [conn.dec EXCEPT !.total = total]
      OBVIOUS
    <3>4. q \in DecoderType /\ q.state = conn.dec.state
      BY <1>1, <3>3 DEF DecoderType
    <3>5. PICK c : c = [conn EXCEPT !.dec = q]
      OBVIOUS
    <3>6. conn' = Throw(c, 413)
      BY <3>1, <3>3, <3>5
    <3>7. /\ c \in ConnType
          /\ c.pc = conn.pc /\ c.req = conn.req /\ c.keepAlive = conn.keepAlive /\ c.body = conn.body
          /\ c.rd = conn.rd /\ c.resp = conn.resp /\ c.fed = conn.fed /\ c.foreign = conn.foreign
          /\ c.cause = conn.cause /\ c.late = conn.late /\ c.thrown = conn.thrown /\ c.lingered = conn.lingered
          /\ c.dec = q
      BY <1>1, <3>4, <3>5, NewDec
    <3> QED BY <1>3, <2>4, <3>2, <3>4, <3>6, <3>7
  <2>8. CASE n \in 1..MaxTEChunk /\ total <= MaxTE
    <3>1. conn' = [conn EXCEPT !.dec = [state |-> "CHUNK_BODY", left |-> n, total |-> total]]
      BY <1>c, <2>3, <2>8
    <3>2. PICK q : q = [state |-> "CHUNK_BODY", left |-> n, total |-> total]
      OBVIOUS
    <3>3. q \in DecoderType /\ q.state = "CHUNK_BODY" /\ q.left = n /\ q.total = total
      BY <3>2 DEF DecoderType
    <3>5. /\ conn' \in ConnType
          /\ conn'.pc = conn.pc /\ conn'.req = conn.req /\ conn'.keepAlive = conn.keepAlive /\ conn'.body = conn.body
          /\ conn'.rd = conn.rd /\ conn'.resp = conn.resp /\ conn'.fed = conn.fed /\ conn'.foreign = conn.foreign
          /\ conn'.cause = conn.cause /\ conn'.late = conn.late /\ conn'.thrown = conn.thrown /\ conn'.lingered = conn.lingered
          /\ conn'.dec = q
      BY <1>1, <3>1, <3>2, <3>3, NewDec
    <3>6. n > 0 /\ n <= MaxTEChunk
      BY <1>c, <2>8
    <3>7. Turns
      BY <3>5 DEF Turns
    <3> QED BY <2>0, <2>1, <2>2, <2>3, <2>8, <3>3, <3>5, <3>6, <3>7 DEF SizeTaken
  <2> QED BY <1>c, <2>5, <2>6, <2>7, <2>8
<1> QED BY <1>4, <1>5

\* before the CRLF after a chunk,
LEMMA ChunkCrlfMoves ==
  ASSUME Base, conn.pc = "chunk", Calm, conn.dec.state = "CHUNK_CRLF", ReadBufferSize > 0, ChunkCrlf
  PROVE  CrlfTaken \/ Refuses
<1>1. conn \in ConnType /\ conn.rd.who \in {"handler", "drain"} /\ conn.dec \in DecoderType
  BY TypeFacts DEF Base, Control, ConnType
<1>t. pos \in Nat /\ taken \in Nat /\ zeros \in Nat /\ ReadBufferSize \in Nat /\ pos <= taken + zeros
  BY TypeFacts
<1>2. CASE Unit(1) # "crlf"
  <2>1. conn' = Throw(conn, 400) /\ pos' = pos
    BY <1>2 DEF ChunkCrlf
  <2>2. Misplaced
    BY <1>2, <2>1 DEF Misplaced
  <2>3. pos' \in Nat /\ pos' <= taken + zeros /\ 400 \in Nat /\ 400 # 100
    BY <1>t, <2>1
  <2>4. /\ conn'.dec = conn.dec
        /\ conn.rd.who = "handler" => Broken
        /\ conn.rd.who # "handler" => Gone
    BY <1>1, <2>1, <2>3, ThrowOf
  <2> QED BY <1>1, <2>2, <2>3, <2>4 DEF Refuses
<1>3. CASE Unit(1) = "crlf"
  <2>0. pos < taken /\ stream[pos + 1].t = "crlf" /\ pos + 1 <= taken + zeros
    BY <1>3, FirstUnit
  <2>1. pos' = pos + 1 /\ conn' = [conn EXCEPT !.dec.state = "CHUNK_SIZE"]
    BY <1>3 DEF ChunkCrlf
  <2>2. PICK q : q = [conn.dec EXCEPT !.state = "CHUNK_SIZE"]
    OBVIOUS
  <2>3. q \in DecoderType /\ q.state = "CHUNK_SIZE" /\ q.total = conn.dec.total
    BY <1>1, <2>2 DEF DecoderType
  <2>4. conn' = [conn EXCEPT !.dec = q]
    BY <2>1, <2>2
  <2>5. /\ conn' \in ConnType
        /\ conn'.pc = conn.pc /\ conn'.req = conn.req /\ conn'.keepAlive = conn.keepAlive /\ conn'.body = conn.body
        /\ conn'.rd = conn.rd /\ conn'.resp = conn.resp /\ conn'.fed = conn.fed /\ conn'.foreign = conn.foreign
        /\ conn'.cause = conn.cause /\ conn'.late = conn.late /\ conn'.thrown = conn.thrown /\ conn'.lingered = conn.lingered
        /\ conn'.dec = q
    BY <1>1, <2>3, <2>4, NewDec
  <2> QED BY <2>0, <2>1, <2>3, <2>5 DEF CrlfTaken, Turns
<1> QED BY <1>2, <1>3

\* in a chunk,
LEMMA ChunkBodyMoves ==
  ASSUME Base, conn.pc = "chunk", Calm, conn.dec.state = "CHUNK_BODY", ChunkBody
  PROVE  \E n \in Nat : BodyTaken(n)
<1>1. conn \in ConnType /\ conn.rd.written <= conn.rd.size /\ conn.dec \in DecoderType /\ conn.rd \in ReadType
  BY TypeFacts DEF Base, Control, ConnType
<1>t. pos \in Nat /\ taken \in Nat /\ zeros \in Nat /\ ReadBufferSize \in Nat /\ ReadBufferSize = (taken + zeros) - pos
  BY TypeFacts
<1>2. /\ conn.rd.size \in Nat /\ conn.rd.written \in Nat /\ conn.dec.left \in Nat
  BY <1>1, ConnFacts
<1>a. PICK a \in Int : a = ReadBufferSize
  BY <1>t
<1>b. PICK b \in Int : b = conn.dec.left
  BY <1>2
<1>c. PICK c \in Int : c = conn.rd.size - conn.rd.written
  BY <1>2
<1>3. a = ReadBufferSize /\ b = conn.dec.left /\ c = conn.rd.size - conn.rd.written /\ a \in Nat /\ b \in Nat /\ c >= 0
  BY <1>t, <1>1, <1>2, <1>a, <1>b, <1>c
<1>4. PICK n : n = Min({a, b, c})
  OBVIOUS
<1>5. n \in {a, b, c} /\ n <= a /\ n <= b /\ n <= c
  BY <1>4, MinOfThree
<1>6. n \in Nat
  BY <1>1, <1>2, <1>3, <1>5
<1>7. PICK w \in Nat : w = conn.rd.written + n
  BY <1>2, <1>6
<1>8. PICK l \in Nat : l = conn.dec.left - n
  BY <1>2, <1>3, <1>5, <1>6
<1>9. PICK st \in {"CHUNK_CRLF", "CHUNK_BODY"} : st = IF l = 0 THEN "CHUNK_CRLF" ELSE "CHUNK_BODY"
  OBVIOUS
<1>10. PICK g \in BOOLEAN : g = (conn.rd.who = "handler" /\ Foreign(n, taken))
  OBVIOUS
<1>11. PICK e : e = [state |-> st, left |-> l, total |-> conn.dec.total]
  OBVIOUS
<1>12. PICK q : q = [conn.rd EXCEPT !.written = w]
  OBVIOUS
<1>13. q \in ReadType /\ q.who = conn.rd.who /\ q.size = conn.rd.size /\ q.written = w /\ q.search = conn.rd.search
  BY <1>1, <1>12 DEF ReadType
<1>14. pos' = pos + n /\ conn' = [conn EXCEPT !.rd.written = @ + n, !.dec = e, !.foreign = @ \/ g]
  BY <1>3, <1>4, <1>8, <1>9, <1>10, <1>11 DEF ChunkBody
<1>15. e \in DecoderType /\ e.left = l /\ e.state = st /\ e.total = conn.dec.total
  <2>1. conn.dec.total \in Nat
    BY <1>1, ConnFacts
  <2> QED BY <1>11, <2>1 DEF DecoderType
<1>f. PICK f \in BOOLEAN : f = (conn.foreign \/ g)
  OBVIOUS
<1>27. /\ conn' \in ConnType
       /\ conn'.pc = conn.pc /\ conn'.req = conn.req /\ conn'.keepAlive = conn.keepAlive /\ conn'.body = conn.body /\ conn'.dec = e
       /\ conn'.rd = q /\ conn'.resp = conn.resp /\ conn'.fed = conn.fed /\ conn'.foreign = f /\ conn'.cause = conn.cause
       /\ conn'.late = conn.late /\ conn'.thrown = conn.thrown /\ conn'.lingered = conn.lingered
  <2>1. conn' = [conn EXCEPT !.rd = q, !.dec = e, !.foreign = f]
    BY <1>7, <1>12, <1>14, <1>f
  <2> QED BY <1>1, <1>13, <1>15, <2>1 DEF ConnType
<1>18. Turns
  BY <1>13, <1>27 DEF Turns
<1>19. pos + n <= taken + zeros /\ n <= conn.dec.left /\ w <= conn.rd.size
  BY <1>t, <1>2, <1>3, <1>5, <1>6, <1>7
<1>28. conn'.foreign = (conn.foreign \/ (conn.rd.who = "handler" /\ Foreign(n, taken)))
  BY <1>10, <1>27, <1>f
<1>29. /\ conn'.dec.left = conn.dec.left - n /\ conn'.dec.total = conn.dec.total
       /\ conn'.dec.state = (IF conn'.dec.left = 0 THEN "CHUNK_CRLF" ELSE "CHUNK_BODY")
  BY <1>8, <1>9, <1>15, <1>27
<1>30. conn'.rd.written = conn.rd.written + n /\ conn'.rd.written <= conn.rd.size /\ conn'.cause = conn.cause
  BY <1>7, <1>13, <1>19, <1>27
<1>31. pos' = pos + n
  BY <1>14
<1>32. BodyTaken(n)
  BY <1>18, <1>19, <1>28, <1>29, <1>30, <1>31 DEF BodyTaken
<1> QED BY <1>6, <1>32

\* and after the last one.
LEMMA TrailerMoves ==
  ASSUME Base, conn.pc = "chunk", Calm, conn.dec.state = "TRAILER", ChunkReady, Trailer
  PROVE  \E n \in Nat : TrailerTaken(n)
<1>1. conn \in ConnType /\ conn.dec \in DecoderType
  BY TypeFacts DEF Base, ConnType
<1>t. pos \in Nat /\ taken \in Nat /\ zeros \in Nat /\ ReadBufferSize \in Nat
  BY TypeFacts
<1>2. PICK n \in Nat : /\ n = (IF ~conn.rd.search /\ Unit(1) = "crlf" THEN 1 ELSE Min(BlankLines))
                       /\ n > 0 /\ pos + n <= taken
                       /\ (n = 1 /\ stream[pos + 1].t = "crlf") \/ (n = Min(BlankLines) /\ BlankLines # {})
  <2>1. CASE ~conn.rd.search /\ Unit(1) = "crlf"
    <3>1. pos < taken /\ stream[pos + 1].t = "crlf"
      BY <2>1, FirstUnit
    <3>2. 1 > 0 /\ pos + 1 <= taken /\ 1 \in Nat
      BY <1>t, <3>1
    <3> QED BY <2>1, <3>1, <3>2
  <2>2. CASE ~(~conn.rd.search /\ Unit(1) = "crlf")
    <3>1. BlankLines # {}
      BY <2>2 DEF ChunkReady
    <3>2. BlankLines \in SUBSET Nat
      BY DEF BlankLines, ReadBufferSize
    <3>3. Min(BlankLines) \in BlankLines
      BY <3>1, <3>2, MinIsThere
    <3>4. PICK m : m = Min(BlankLines)
      OBVIOUS
    <3>5. m \in Nat /\ m > 0 /\ Unit(m) # "zero"
      BY <1>t, <3>3, <3>4 DEF BlankLines
    <3>6. pos + m <= taken
      BY <3>5 DEF Unit
    <3> QED BY <2>2, <3>1, <3>4, <3>5, <3>6
  <2> QED BY <2>1, <2>2
<1>3. PICK a \in SUBSET {"overread", "shortRead", "trailer", "astray"} :
        a = IF stream[pos + n].r # conn.req THEN {"trailer"} ELSE {}
  OBVIOUS
<1>4. pos' = pos + n /\ conn' = [conn EXCEPT !.dec.state = "DONE", !.cause = @ \cup a]
  <2>1. CASE ~conn.rd.search /\ Unit(1) = "crlf"
    <3>1. n = 1
      <4>1. n = (IF ~conn.rd.search /\ Unit(1) = "crlf" THEN 1 ELSE Min(BlankLines))
        BY <1>2, Zenon
      <4> QED BY <2>1, <4>1, Zenon
    <3>2. a = IF stream[pos + 1].r # conn.req THEN {"trailer"} ELSE {}
      BY <1>3, <3>1
    <3> QED BY <2>1, <3>1, <3>2 DEF Trailer
  <2>2. CASE ~(~conn.rd.search /\ Unit(1) = "crlf")
    <3>1. n = Min(BlankLines)
      BY <1>2, <2>2
    <3> QED BY <1>3, <2>2, <3>1 DEF Trailer
  <2> QED BY <2>1, <2>2
<1>5. PICK e : e = [conn.dec EXCEPT !.state = "DONE"]
  OBVIOUS
<1>6. e \in DecoderType /\ e.state = "DONE" /\ e.total = conn.dec.total
  BY <1>1, <1>5 DEF DecoderType
<1>7. conn' = [conn EXCEPT !.dec = e, !.cause = @ \cup a]
  BY <1>4, <1>5
<1>8. /\ conn' \in ConnType
      /\ conn'.pc = conn.pc /\ conn'.req = conn.req /\ conn'.keepAlive = conn.keepAlive /\ conn'.body = conn.body /\ conn'.dec = e
      /\ conn'.rd = conn.rd /\ conn'.resp = conn.resp /\ conn'.fed = conn.fed /\ conn'.foreign = conn.foreign
      /\ conn'.cause = conn.cause \cup a
      /\ conn'.late = conn.late /\ conn'.thrown = conn.thrown /\ conn'.lingered = conn.lingered
  BY <1>1, <1>6, <1>7 DEF ConnType
<1>9. Turns
  BY <1>8 DEF Turns
<1>10. pos' = pos + n /\ n > 0 /\ pos + n <= taken
  BY <1>2, <1>4
<1>11. conn'.dec.state = "DONE" /\ conn'.dec.total = conn.dec.total
  BY <1>6, <1>8
<1>12. conn'.cause = conn.cause \cup (IF stream[pos + n].r # conn.req THEN {"trailer"} ELSE {})
  BY <1>3, <1>8
<1>13. (n = 1 /\ stream[pos + 1].t = "crlf") \/ (n = Min(BlankLines) /\ BlankLines # {})
  BY <1>2
<1>14. TrailerTaken(n)
  BY <1>8, <1>9, <1>10, <1>11, <1>12, <1>13, Zenon DEF TrailerTaken
<1> QED BY <1>14

\* A turn of readSome(), a wait, or a failure.
LEMMA ReadSomeMoves ==
  ASSUME Base, ReadSome
  PROVE  /\ conn.pc = "chunk"
         /\ \/ SomeReturned \/ Drained \/ Dropped \/ SizeTaken \/ CrlfTaken \/ Refuses
            \/ (\E n \in Nat : BodyTaken(n)) \/ (\E n \in Nat : TrailerTaken(n))
            \/ Suspend \/ Resume \/ ReadBreaks \/ HangUp
<1>0. conn.pc = "chunk" /\ MaxContent \in Nat
  BY Constants DEF ReadSome, At
<1>1. conn \in ConnType /\ timedOut \in BOOLEAN
  BY TypeFacts
<1>d. conn.dec.state \in {"CHUNK_SIZE", "CHUNK_BODY", "CHUNK_CRLF", "TRAILER", "DONE"}
  BY <1>1, ConnFacts
<1>2. CASE ~suspended /\ (conn.dec.state = "DONE" \/ conn.rd.written = conn.rd.size)
  <2>1. /\ conn' = SomeRead(conn) /\ pos' = pos
        /\ UNCHANGED <<client, sent, fin, shutdown, out, partials, taken, zeros, suspended, timedOut>>
    BY <1>2 DEF ReadSome, clientVars, bufferVars
  <2>2. Calm
    BY <1>1, <1>2, <2>1 DEF Calm, Server0
  <2> QED BY <1>0, <1>2, <2>1, <2>2, SomeReadMoves
<1>3. CASE ~suspended /\ ~(conn.dec.state = "DONE" \/ conn.rd.written = conn.rd.size) /\ ChunkReady
  <2>1. /\ UNCHANGED <<client, sent, fin, shutdown, out, partials, taken, zeros, suspended, timedOut>>
        /\ CASE conn.dec.state = "CHUNK_SIZE" -> ChunkSize
             [] conn.dec.state = "CHUNK_BODY" -> ChunkBody
             [] conn.dec.state = "CHUNK_CRLF" -> ChunkCrlf
             [] conn.dec.state = "TRAILER" -> Trailer
    BY <1>3 DEF ReadSome, clientVars, bufferVars
  <2>2. Calm
    BY <1>1, <1>3, <2>1 DEF Calm, Server0
  <2>3. CASE conn.dec.state = "CHUNK_SIZE"
    <3>1. ChunkSize
      BY <2>1, <2>3
    <3>2. LineEnds # {}
      BY <1>3, <2>3 DEF ChunkReady
    <3> QED BY <1>0, <2>2, <2>3, <3>1, <3>2, ChunkSizeMoves
  <2>4. CASE conn.dec.state = "CHUNK_BODY"
    <3>1. ChunkBody
      BY <2>1, <2>4
    <3> QED BY <1>0, <2>2, <2>4, <3>1, ChunkBodyMoves
  <2>5. CASE conn.dec.state = "CHUNK_CRLF"
    <3>1. ChunkCrlf
      BY <2>1, <2>5
    <3>2. ReadBufferSize > 0
      BY <1>3, <2>5 DEF ChunkReady
    <3> QED BY <1>0, <2>2, <2>5, <3>1, <3>2, ChunkCrlfMoves
  <2>6. CASE conn.dec.state = "TRAILER"
    <3>1. Trailer
      BY <2>1, <2>6
    <3> QED BY <1>0, <1>3, <2>2, <2>6, <3>1, TrailerMoves
  <2> QED BY <1>d, <1>3, <2>3, <2>4, <2>5, <2>6
<1>4. CASE ReadSuspends(MaxContent)
  BY <1>0, <1>4, ReadSuspendsMoves
<1>5. ASSUME NEW o \in ReadOutcomes(MaxContent), ReadReturnsWith(o), AfterChunkRead(o.result)
      PROVE  Resume \/ ReadBreaks \/ HangUp
  <2>1. CASE o.result \in {"LIMIT", "CLOSED", "TIMED_OUT"}
    <3>1. conn' = [Throw(conn, 500) EXCEPT !.late = @ \/ o.result = "TIMED_OUT"] /\ pos' = pos
      BY <1>5, <2>1 DEF AfterChunkRead
    <3>2. conn.pc \in {"lengthRead", "lengthDrain", "chunk"}
      BY <1>0
    <3> QED BY <1>5, <2>1, <3>1, <3>2, BodyReadFails
  <2>2. CASE o.result \notin {"LIMIT", "CLOSED", "TIMED_OUT"}
    <3>0. /\ UNCHANGED <<client, sent, fin, shutdown, out>>
          /\ taken' = o.buf.taken /\ zeros' = o.buf.zeros /\ suspended' = FALSE /\ timedOut' = o.late
          /\ partials' = o.partials
      BY <1>5 DEF ReadReturnsWith
    <3>1. /\ o.buf.taken \in Nat /\ taken <= o.buf.taken /\ o.buf.taken <= sent
          /\ o.buf.zeros \in Nat /\ zeros <= o.buf.zeros
          /\ o.result # "CLOSED" => o.buf.zeros = zeros
          /\ o.late \in BOOLEAN /\ (o.late => o.result = "TIMED_OUT" \/ timedOut)
          /\ o.partials \in Nat
      BY OutcomeFacts, Constants DEF Base
    <3>2. Read /\ zeros' = zeros /\ (timedOut' => timedOut)
      BY <2>2, <3>0, <3>1 DEF Read, Server0
    <3>3. PICK b \in BOOLEAN : b = (conn.dec.state = "TRAILER")
      OBVIOUS
    <3>4. conn' = [conn EXCEPT !.rd.search = b] /\ pos' = pos
      BY <1>5, <2>2, <3>3 DEF AfterChunkRead
    <3>5. PICK q : q = [conn.rd EXCEPT !.search = b]
      OBVIOUS
    <3>6. conn.rd \in ReadType
      BY <1>1 DEF ConnType
    <3>7. q \in ReadType /\ q.who = conn.rd.who /\ q.size = conn.rd.size /\ q.written = conn.rd.written
      BY <3>5, <3>6 DEF ReadType
    <3>8. conn' = [conn EXCEPT !.rd = q]
      BY <3>4, <3>5
    <3>9. /\ conn' \in ConnType
          /\ conn'.pc = conn.pc /\ conn'.req = conn.req /\ conn'.keepAlive = conn.keepAlive /\ conn'.body = conn.body
          /\ conn'.dec = conn.dec /\ conn'.resp = conn.resp /\ conn'.fed = conn.fed /\ conn'.foreign = conn.foreign
          /\ conn'.cause = conn.cause /\ conn'.late = conn.late /\ conn'.thrown = conn.thrown /\ conn'.lingered = conn.lingered
          /\ conn'.rd = q
      BY <1>1, <3>7, <3>8, NewRead
    <3> QED BY <1>0, <3>2, <3>4, <3>7, <3>9 DEF Resume
  <2> QED BY <2>1, <2>2
<1> QED BY <1>0, <1>2, <1>3, <1>4, <1>5 DEF ReadSome

-----------------------------------------------------------------------------
(* Base                                                                      *)

\* What Base says of a state in which run() goes on without waiting.
LEMMA StepBase ==
  ASSUME Base, Read, pos' \in Nat, pos' <= taken' + zeros', conn' \in ConnType,
         zeros' > 0 => fin /\ (~conn'.keepAlive \/ conn'.pc = "closed"),
         timedOut' => conn'.late \/ conn'.pc = "closed", Control'
  PROVE  Base'
<1>1. TypeOK'
  <2>1. taken' <= sent' /\ sent' \in Nat /\ sent' <= Len(stream')
    BY TypeFacts DEF Read, Server0, stream
  <2>2. client' \in Clients /\ fin' \in BOOLEAN /\ shutdown' \in BOOLEAN /\ out' \in Seq(ShownType)
    BY TypeFacts DEF Read, Server0
  <2> QED BY <2>1, <2>2 DEF TypeOK, Read
<1>2. Waiting'
  BY DEF Waiting, Read, Server0
<1> QED BY <1>1, <1>2 DEF Base

\* The steps of run() that only go on.
LEMMA PassesBase ==
  ASSUME Base, \/ conn.pc = "handshake" /\ Passes("top")
               \/ conn.pc = "top" /\ conn.keepAlive /\ Passes("head")
               \/ conn.pc = "top" /\ ~conn.keepAlive /\ Passes("linger")
               \/ conn.pc = "expect" /\ Passes("body")
               \/ conn.pc = "drain" /\ Passes("answer")
  PROVE  Base'
<1>1. Calm /\ conn' \in ConnType /\ pos' = pos /\ conn'.keepAlive = conn.keepAlive /\ conn'.late = conn.late
  BY DEF Passes, Same
<1>2. Control'
  BY DEF Base, Control, Passes, Same, Calm, Server0, InRequest, requests, Req
<1>3. pos \in Nat /\ pos <= taken + zeros
  BY TypeFacts
<1> QED BY <1>1, <1>2, <1>3, CalmBase

\* After a head, there is a request.
LEMMA HeadOkBase == ASSUME Base, HeadOk PROVE Base'
<1>1. Control'
  BY DEF Base, Control, HeadOk, Calm, Server0, InRequest, requests, Req
<1>2. pos' \in Nat /\ pos' <= taken + zeros
  BY TypeFacts DEF HeadOk
<1>3. Calm /\ conn' \in ConnType /\ conn'.keepAlive = conn.keepAlive /\ conn'.late = conn.late /\ conn.pc # "closed"
  BY DEF HeadOk
<1> QED BY <1>1, <1>2, <1>3, CalmBase

\* 100 Continue comes before the body stream.
LEMMA ToContinueBase == ASSUME Base, ToContinue PROVE Base'
<1>1. Control'
  BY DEF Base, Control, ToContinue, Kept, Calm, Server0, InRequest, requests, Req, FirstKinds
<1>2. pos' \in Nat /\ pos' <= taken + zeros
  BY TypeFacts DEF ToContinue
<1>3. Calm /\ conn' \in ConnType /\ conn'.keepAlive = conn.keepAlive /\ conn'.late = conn.late /\ conn.pc # "closed"
  BY DEF ToContinue, Kept
<1> QED BY <1>1, <1>2, <1>3, CalmBase

\* The body stream has the framing of the request.
LEMMA AttachBase == ASSUME Base, Attach PROVE Base'
<1>1. Control'
  BY DEF Base, Control, Attach, Kept, Calm, Server0, InRequest, requests, Req
<1>2. pos' \in Nat /\ pos' <= taken + zeros
  BY TypeFacts DEF Attach
<1>3. Calm /\ conn' \in ConnType /\ conn'.keepAlive = conn.keepAlive /\ conn'.late = conn.late /\ conn.pc # "closed"
  BY DEF Attach, Kept
<1> QED BY <1>1, <1>2, <1>3, CalmBase

\* A read has room to read into.
LEMMA StartReadBase == ASSUME Base, NEW who \in {"handler", "drain"}, StartRead(who) PROVE Base'
<1>1. Control'
  <2>1. conn'.rd.size > 0 /\ conn'.rd.written <= conn'.rd.size
    <3>1. conn' \in ConnType /\ conn'.rd.written = 0 /\ conn'.rd.size > 0
      BY DEF StartRead, Kept
    <3>2. conn'.rd.size \in Nat
      BY <3>1 DEF ConnType, ReadType
    <3> QED BY <3>1, <3>2
  <2>2. CASE who = "handler"
    BY <2>1, <2>2 DEF Base, Control, StartRead, Kept, Calm, Server0, InRequest, requests, Req
  <2>3. CASE who = "drain"
    BY <2>1, <2>3 DEF Base, Control, StartRead, Kept, Calm, Server0, InRequest, requests, Req
  <2> QED BY <2>2, <2>3
<1>2. pos' \in Nat /\ pos' <= taken + zeros
  BY TypeFacts DEF StartRead
<1>3. Calm /\ conn' \in ConnType /\ conn'.keepAlive = conn.keepAlive /\ conn'.late = conn.late /\ conn.pc # "closed"
  BY DEF StartRead, Kept
<1> QED BY <1>1, <1>2, <1>3, CalmBase

\* A read without a body.
LEMMA NothingToReadBase == ASSUME Base, NothingToRead PROVE Base'
<1>1. Control'
  BY DEF Base, Control, NothingToRead, Calm, Server0, InRequest, requests, Req, Answers
<1>2. pos' \in Nat /\ pos' <= taken + zeros
  BY TypeFacts DEF NothingToRead
<1>3. Calm /\ conn' \in ConnType /\ conn'.late = conn.late /\ conn.pc # "closed"
  BY DEF NothingToRead
<1>4. conn'.keepAlive => conn.keepAlive
  BY DEF NothingToRead
<1> QED BY <1>1, <1>2, <1>3, <1>4, CalmBase

\* A handler returns.
LEMMA ToDrainBase == ASSUME Base, ToDrain PROVE Base'
<1>1. Control'
  BY DEF Base, Control, ToDrain, Kept, Calm, Server0, InRequest, requests, Req
<1>2. pos' \in Nat /\ pos' <= taken + zeros
  BY TypeFacts DEF ToDrain
<1>3. Calm /\ conn' \in ConnType /\ conn'.late = conn.late /\ conn.pc # "closed"
  BY DEF ToDrain, Kept
<1>4. conn.keepAlive
  BY DEF ToDrain, Base, Control
<1> QED BY <1>1, <1>2, <1>3, <1>4, CalmBase

\* The Connection header is set.
LEMMA AnnounceBase == ASSUME Base, Announce PROVE Base'
<1>1. Control'
  BY DEF Base, Control, Announce, Kept, Calm, Server0, InRequest, requests, Req, FirstKinds, Answers, NoHead
<1>2. pos' \in Nat /\ pos' <= taken + zeros
  BY TypeFacts DEF Announce
<1>3. Calm /\ conn' \in ConnType /\ conn'.late = conn.late /\ conn.pc # "closed" /\ (conn'.keepAlive => conn.keepAlive)
  BY DEF Announce, Kept
<1> QED BY <1>1, <1>2, <1>3, CalmBase

\* The next chunk of a stream.
LEMMA ToSendBase == ASSUME Base, ToSend PROVE Base'
<1>1. Control'
  BY DEF Base, Control, ToSend, Kept, Calm, Server0, InRequest, requests, Req, LaterKinds
<1>2. pos' \in Nat /\ pos' <= taken + zeros
  BY TypeFacts DEF ToSend
<1>3. Calm /\ conn' \in ConnType /\ conn'.late = conn.late /\ conn.pc # "closed" /\ conn'.keepAlive = conn.keepAlive
  BY DEF ToSend, Kept
<1> QED BY <1>1, <1>2, <1>3, CalmBase

\* A bare CRLF is in the buffer before it is dropped.
LEMMA StripBase == ASSUME Base, Strip PROVE Base'
<1>1. Control'
  BY DEF Base, Control, Strip, Calm, Server0, InRequest, requests, Req
<1>2. pos' \in Nat /\ pos' <= taken + zeros
  BY TypeFacts DEF Strip
<1>3. Calm /\ conn' = conn /\ conn \in ConnType /\ conn.pc # "closed"
  BY TypeFacts DEF Strip
<1> QED BY <1>1, <1>2, <1>3, CalmBase

\* drainFn skips what is in the buffer.
LEMMA SkipsBase == ASSUME Base, Skips PROVE Base'
<1>1. Control'
  BY DEF Base, Control, Skips, Same, Calm, Server0, InRequest, requests, Req
<1>2. Calm /\ conn' \in ConnType /\ conn'.keepAlive = conn.keepAlive /\ conn'.late = conn.late /\ conn.pc # "closed"
      /\ pos' \in Nat /\ pos' <= taken + zeros
  BY DEF Skips, Same
<1> QED BY <1>1, <1>2, CalmBase

\* The decoder has seen the end of the body.
LEMMA DrainedBase == ASSUME Base, Drained PROVE Base'
<1>1. Control'
  BY DEF Base, Control, Drained, Kept, Calm, Server0, InRequest, requests, Req
<1>2. pos' \in Nat /\ pos' <= taken + zeros
  BY TypeFacts DEF Drained
<1>3. Calm /\ conn' \in ConnType /\ conn'.keepAlive = conn.keepAlive /\ conn'.late = conn.late /\ conn.pc # "closed"
  BY DEF Drained, Kept
<1> QED BY <1>1, <1>2, <1>3, CalmBase

\* A turn of readSome's loop.
LEMMA TurnsBase ==
  ASSUME Base, Turns, pos' \in Nat, pos' <= taken + zeros, conn'.rd.written <= conn.rd.size
  PROVE  Base'
<1>1. Control'
  BY DEF Base, Control, Turns, Calm, Server0, InRequest, requests, Req
<1>2. Calm /\ conn' \in ConnType /\ conn'.keepAlive = conn.keepAlive /\ conn'.late = conn.late /\ conn.pc # "closed"
  BY DEF Turns
<1> QED BY <1>1, <1>2, CalmBase

\* All of the turns.
LEMMA TurnBase ==
  ASSUME Base, \/ Dropped \/ SizeTaken \/ CrlfTaken
               \/ (\E n \in Nat : BodyTaken(n)) \/ (\E n \in Nat : TrailerTaken(n))
  PROVE  Base'
<1>t. /\ pos \in Nat /\ taken \in Nat /\ zeros \in Nat /\ pos <= taken + zeros
      /\ conn \in ConnType
  BY TypeFacts
<1>r. conn.pc = "chunk" => conn.rd.written <= conn.rd.size /\ conn.rd.size \in Nat
  BY <1>t, ConnFacts DEF Base, Control
<1>1. CASE Dropped
  <2>1. 0 <= conn.rd.size
    BY <1>1, <1>r DEF Dropped, Turns
  <2> QED BY <1>1, <1>t, <2>1, TurnsBase DEF Dropped
<1>2. CASE SizeTaken
  <2>1. pos' \in Nat /\ pos' <= taken + zeros
    BY <1>2, <1>t DEF SizeTaken
  <2> QED BY <1>2, <1>r, <2>1, TurnsBase DEF SizeTaken, Turns
<1>3. CASE CrlfTaken
  <2>1. pos' \in Nat /\ pos' <= taken + zeros
    BY <1>3, <1>t DEF CrlfTaken
  <2> QED BY <1>3, <1>r, <2>1, TurnsBase DEF CrlfTaken, Turns
<1>4. ASSUME NEW n \in Nat, BodyTaken(n) PROVE Base'
  <2>1. pos' \in Nat /\ pos' <= taken + zeros
    BY <1>4, <1>t DEF BodyTaken
  <2> QED BY <1>4, <2>1, TurnsBase DEF BodyTaken
<1>5. ASSUME NEW n \in Nat, TrailerTaken(n) PROVE Base'
  <2>1. pos' \in Nat /\ pos' <= taken + zeros
    BY <1>5, <1>t DEF TrailerTaken
  <2> QED BY <1>5, <1>r, <2>1, TurnsBase DEF TrailerTaken, Turns
<1> QED BY <1>1, <1>2, <1>3, <1>4, <1>5

\* What read() returns to, as the control flow has it.
LEMMA ReturnedControl ==
  ASSUME Base, client' = client, out' = out, conn.pc \in {"lengthRead", "chunk"}, conn.rd.who = "handler",
         NEW n \in Nat, Returned(n)
  PROVE  Control' /\ (conn'.keepAlive => conn.keepAlive)
<1>0. conn \in ConnType /\ conn.rd.size \in Nat
  BY TypeFacts, ConnFacts
<1>1. 0 <= conn.rd.size
  BY <1>0
<1>2. CASE conn'.pc = "handler" /\ conn'.rd = NoRead /\ conn'.keepAlive = conn.keepAlive /\ conn'.resp = conn.resp
  BY <1>2 DEF Base, Control, Returned, InRequest, requests, Req
<1>3. CASE /\ conn'.pc = "drain" /\ conn'.rd = NoRead /\ ~conn'.keepAlive
           /\ conn'.resp.kind = "plain" /\ conn'.resp.status = 413
  BY <1>3 DEF Base, Control, Returned, InRequest, requests, Req, Answers
<1>4. CASE /\ conn'.pc = conn.pc /\ conn'.keepAlive = conn.keepAlive /\ conn'.resp = conn.resp
           /\ conn'.rd.who = "handler" /\ conn'.rd.size = conn.rd.size /\ conn'.rd.written = 0 /\ ~conn'.rd.search
           /\ ~conn'.body.exhausted
  BY <1>1, <1>4 DEF Base, Control, Returned, InRequest, requests, Req
<1> QED BY <1>2, <1>3, <1>4 DEF Returned

\* chunkReadFn returns.
LEMMA SomeReturnedBase == ASSUME Base, SomeReturned PROVE Base'
<1>1. PICK n \in Nat : n = conn.rd.written
  BY TypeFacts, ConnFacts
<1>2. Calm /\ pos' = pos /\ conn.pc = "chunk" /\ conn.rd.who = "handler" /\ Returned(n)
  BY <1>1 DEF SomeReturned
<1>3. client' = client /\ out' = out
  BY <1>2 DEF Calm, Server0
<1>4. Control' /\ (conn'.keepAlive => conn.keepAlive)
  BY <1>2, <1>3, ReturnedControl
<1>5. conn' \in ConnType /\ conn'.late = conn.late
  BY <1>2 DEF Returned
<1>6. pos' \in Nat /\ pos' <= taken + zeros
  BY <1>2, TypeFacts
<1> QED BY <1>2, <1>4, <1>5, <1>6, CalmBase

\* readFn returns.
LEMMA CopiesBase == ASSUME Base, NEW n \in Nat, Copies(n) PROVE Base'
<1>1. /\ Read /\ zeros' = zeros /\ (timedOut' => timedOut) /\ conn.pc = "lengthRead" /\ Returned(n)
      /\ pos' = pos + n /\ pos' <= taken' + zeros'
  BY DEF Copies
<1>2. client' = client /\ out' = out
  BY <1>1 DEF Read, Server0
<1>3. conn.rd.who = "handler" /\ conn.keepAlive /\ ~(zeros > 0) /\ (timedOut => conn.late)
  BY <1>1 DEF Base, Control, Waiting
<1>4. Control'
  BY <1>1, <1>2, <1>3, ReturnedControl
<1>5. conn' \in ConnType /\ conn'.late = conn.late
  BY <1>1 DEF Returned
<1>6. pos' \in Nat
  BY <1>1, TypeFacts
<1> QED BY <1>1, <1>3, <1>4, <1>5, <1>6, StepBase

\* An exception of the body stream during dispatch().
LEMMA BrokenBase ==
  ASSUME Base, Read, pos' \in Nat, pos' <= taken' + zeros', conn.pc \in {"lengthRead", "chunk"}, Broken,
         zeros' > 0 => fin, timedOut' => timedOut \/ conn'.late
  PROVE  Base'
<1>1. client' = client /\ out' = out
  BY DEF Read, Server0
<1>2. Control'
  BY <1>1 DEF Base, Control, Broken, InRequest, requests, Req, Answers
<1>3. timedOut' => conn'.late
  BY DEF Base, Waiting, Broken
<1>4. conn' \in ConnType /\ ~conn'.keepAlive
  BY DEF Broken
<1> QED BY <1>2, <1>3, <1>4, StepBase

\* The same, because of a failed read.
LEMMA ReadBreaksBase == ASSUME Base, ReadBreaks PROVE Base'
<1>1. /\ Read /\ pos' = pos /\ (zeros' > zeros => fin) /\ (timedOut' => timedOut \/ conn'.late)
      /\ conn.pc \in {"lengthRead", "chunk"} /\ Broken
  BY DEF ReadBreaks
<1>2. /\ pos \in Nat /\ taken \in Nat /\ zeros \in Nat /\ pos <= taken + zeros
  BY TypeFacts
<1>3. taken' \in Nat /\ taken <= taken' /\ zeros' \in Nat /\ zeros <= zeros'
  BY <1>1 DEF Read
<1>4. pos' \in Nat /\ pos' <= taken' + zeros'
  BY <1>1, <1>2, <1>3, AddBoth
<1>5. zeros > 0 => fin
  BY DEF Base, Waiting
<1>6. zeros' > 0 => fin
  BY <1>1, <1>2, <1>3, <1>5
<1> QED BY <1>1, <1>4, <1>6, BrokenBase

\* A step without I/O is a read that brings nothing.
LEMMA CalmReads == ASSUME Base, Calm PROVE Read /\ taken' = taken /\ zeros' = zeros /\ (timedOut' => timedOut)
<1>1. UNCHANGED <<client, sent, fin, shutdown, out, taken, zeros, suspended, partials>> /\ ~suspended /\ timedOut' \in BOOLEAN
  BY DEF Calm, Server0
<1>2. suspended' = FALSE
  <2>1. suspended' = suspended /\ suspended \in BOOLEAN /\ ~suspended
    BY <1>1, TypeFacts
  <2> QED BY <2>1
<1>3. partials' \in Nat
  BY <1>1, TypeFacts
<1> QED BY <1>1, <1>2, <1>3, ReadsNothing DEF Calm

\* The decoder throws: out of the handler, or out of run().
LEMMA RefusesBase == ASSUME Base, Refuses PROVE Base' /\ (conn.rd.who = "drain" => Close)
<1>1. Read /\ taken' = taken /\ zeros' = zeros /\ (timedOut' => timedOut)
  BY CalmReads DEF Refuses
<1>2. conn.pc = "chunk" /\ pos' \in Nat /\ pos' <= taken + zeros
  BY DEF Refuses
<1>3. zeros \in Nat /\ ~(zeros' > zeros)
  BY <1>1, TypeFacts
<1>4. CASE conn.rd.who = "handler"
  <2>1. Broken
    BY <1>4 DEF Refuses
  <2>2. zeros' > 0 => fin
    BY <1>1 DEF Base, Waiting
  <2> QED BY <1>1, <1>2, <1>4, <2>1, <2>2, BrokenBase
<1>5. CASE conn.rd.who = "drain"
  <2>1. Gone
    BY <1>5 DEF Refuses
  <2>2. Close
    BY <1>1, <1>2, <1>3, <2>1 DEF Close, Gone
  <2> QED BY <2>2, CloseBase
<1> QED BY <1>2, <1>4, <1>5 DEF Refuses

\* A new answer is added to those there are,
LEMMA ShowsFacts ==
  ASSUME Base, NEW whole \in BOOLEAN, Shows(whole)
  PROVE  /\ out' \in Seq(ShownType) /\ Len(out) \in Nat /\ Len(out') = Len(out) + 1 /\ out' # <<>>
         /\ \A i \in 1..Len(out) : out'[i] = out[i]
         /\ LastOut'.req = conn.req /\ LastOut'.status = conn.resp.status
         /\ LastOut'.close = conn.resp.close /\ LastOut'.whole = whole
<1>1. PICK x : x = [req |-> conn.req, status |-> conn.resp.status, close |-> conn.resp.close, whole |-> whole]
  OBVIOUS
<1>2. out' = Append(out, x)
  BY <1>1 DEF Shows
<1>3. x \in ShownType /\ x.req = conn.req /\ x.status = conn.resp.status /\ x.close = conn.resp.close /\ x.whole = whole
  <2>1. conn.req \in Nat /\ conn.resp.status \in Nat /\ conn.resp.close \in BOOLEAN
    BY ConnFacts, TypeFacts
  <2> QED BY <1>1, <2>1 DEF ShownType
<1>4. out \in Seq(ShownType)
  BY TypeFacts
<1>5. /\ out' \in Seq(ShownType) /\ Len(out) \in Nat /\ Len(out') = Len(out) + 1
      /\ \A i \in 1..Len(out) : out'[i] = out[i]
      /\ out'[Len(out) + 1] = x
  BY <1>2, <1>3, <1>4
<1>6. LastOut' = x /\ out' # <<>>
  BY <1>5 DEF LastOut
<1> QED BY <1>3, <1>5, <1>6

\* and the end of one changes only that.
LEMMA EndsFacts ==
  ASSUME Base, out # <<>>, NEW whole \in BOOLEAN, Ends(whole)
  PROVE  /\ out' \in Seq(ShownType) /\ Len(out) \in Nat /\ Len(out) > 0 /\ Len(out') = Len(out) /\ out' # <<>>
         /\ \A i \in 1..(Len(out) - 1) : out'[i] = out[i]
         /\ \A i \in 1..Len(out) : out'[i].status = out[i].status /\ out'[i].req = out[i].req /\ out'[i].close = out[i].close
         /\ LastOut'.req = LastOut.req /\ LastOut'.status = LastOut.status
         /\ LastOut'.close = LastOut.close /\ LastOut'.whole = whole
<1>1. out \in Seq(ShownType)
  BY TypeFacts
<1>2. Len(out) \in Nat /\ Len(out) > 0
  BY <1>1
<1>3. LastOut \in ShownType
  BY <1>1, <1>2 DEF LastOut
<1>4. PICK x : x = [LastOut EXCEPT !.whole = whole]
  OBVIOUS
<1>5. /\ x \in ShownType /\ x.req = LastOut.req /\ x.status = LastOut.status /\ x.close = LastOut.close
      /\ x.whole = whole
  BY <1>3, <1>4 DEF ShownType
<1>6. out' = [out EXCEPT ![Len(out)] = x]
  BY <1>4 DEF Ends, LastOut
<1>7. /\ out' \in Seq(ShownType) /\ Len(out') = Len(out)
      /\ \A i \in 1..Len(out) : out'[i] = IF i = Len(out) THEN x ELSE out[i]
  BY <1>1, <1>2, <1>5, <1>6
<1>8. LastOut' = x /\ out' # <<>>
  BY <1>2, <1>7 DEF LastOut
<1>9. \A i \in 1..(Len(out) - 1) : out'[i] = out[i]
  BY <1>2, <1>7
<1>10. \A i \in 1..Len(out) : out'[i].status = out[i].status /\ out'[i].req = out[i].req /\ out'[i].close = out[i].close
  BY <1>5, <1>7 DEF LastOut
<1> QED BY <1>2, <1>5, <1>7, <1>8, <1>9, <1>10

\* A write reads nothing.
LEMMA WroteBase ==
  ASSUME Base, Wrote, out' \in Seq(ShownType), conn' \in ConnType, Control',
         conn'.pc = "closed" \/ (conn'.keepAlive = conn.keepAlive /\ conn.pc # "closed"),
         timedOut' => conn'.late \/ conn'.pc = "closed"
  PROVE  Base'
<1>1. TypeOK'
  BY TypeFacts DEF TypeOK, Wrote, stream
<1>2. Waiting'
  BY DEF Base, Waiting, Wrote
<1> QED BY <1>1, <1>2 DEF Base

\* The writes after which run() goes on,
LEMMA SentBase ==
  ASSUME Base, out' \in Seq(ShownType), ErrorSent \/ ContinueSent \/ HeadSent \/ ChunkSent
  PROVE  Base'
<1>1. Wrote /\ conn.pc = "send" /\ timedOut' = FALSE
  BY DEF ErrorSent, ContinueSent, HeadSent, ChunkSent
<1>2. conn' \in ConnType /\ conn'.keepAlive = conn.keepAlive
  BY DEF ErrorSent, ContinueSent, HeadSent, ChunkSent, Same
<1>3. CASE ErrorSent
  <2>1. Control'
    BY <1>3 DEF Base, Control, ErrorSent, Same, Wrote, InRequest, requests, Req
  <2> QED BY <1>1, <1>2, <2>1, WroteBase
<1>4. CASE ContinueSent
  <2>1. Control'
    BY <1>4 DEF Base, Control, ContinueSent, Same, Wrote, InRequest, requests, Req
  <2> QED BY <1>1, <1>2, <2>1, WroteBase
<1>5. CASE HeadSent
  <2>1. Control'
    BY <1>5 DEF Base, Control, HeadSent, Same, Wrote, InRequest, requests, Req
  <2> QED BY <1>1, <1>2, <2>1, WroteBase
<1>6. CASE ChunkSent
  <2>1. Control'
    BY <1>6 DEF Base, Control, ChunkSent, Same, Wrote, InRequest, requests, Req
  <2> QED BY <1>1, <1>2, <2>1, WroteBase
<1> QED BY <1>3, <1>4, <1>5, <1>6

\* those that end an answer,
LEMMA RenewedBase ==
  ASSUME Base, out' \in Seq(ShownType), AnswerSent \/ LastSent
  PROVE  Base'
<1>1. Wrote /\ conn.pc \in {"send", "file"} /\ (timedOut' => timedOut) /\ Renewed
  BY DEF AnswerSent, LastSent
<1>2. conn' \in ConnType /\ conn'.keepAlive = conn.keepAlive /\ conn'.late = conn.late
  BY <1>1 DEF Renewed
<1>3. Control'
  BY <1>1 DEF Control, Renewed, InRequest, NoAnswer
<1>4. timedOut' => conn'.late
  BY <1>1, <1>2 DEF Base, Waiting
<1> QED BY <1>1, <1>2, <1>3, <1>4, WroteBase

\* and those that end the connection.
LEMMA ShutBase ==
  ASSUME Base, out' \in Seq(ShownType), StreamErrorSent \/ SendFails
  PROVE  Base'
<1>1. Wrote /\ conn.pc = "send" /\ Shut
  BY DEF StreamErrorSent, SendFails
<1>2. conn' \in ConnType /\ conn'.pc = "closed"
  BY <1>1 DEF Shut
<1>3. Control'
  BY <1>1 DEF Base, Control, Shut, InRequest
<1> QED BY <1>1, <1>2, <1>3, WroteBase

-----------------------------------------------------------------------------
(* Sequel and Quiet                                                          *)

\* The labels between two answers.
Under == {"handshake", "head", "expect", "body", "handler", "lengthRead", "chunk", "drain", "lengthDrain", "answer"}

\* The answers so far stay as they are while the next one is prepared.
LEMMA SequelKept ==
  ASSUME Sequel, client' = client, out' = out,
         Going' => Going,
         conn'.pc \notin {"send", "stream", "file"},
         conn'.pc = "linger" \/ (conn'.pc = "top" /\ ~conn'.keepAlive) =>
           (conn.pc = "linger" \/ (conn.pc = "top" /\ ~conn.keepAlive)) /\ conn'.keepAlive = conn.keepAlive
  PROVE  Sequel'
<1>1. ~InAnswer'
  BY DEF InAnswer
<1> QED BY <1>1 DEF Sequel, Stands, LastOut, requests

\* Nothing is shown between two labels of Under.
LEMMA GoesOn ==
  ASSUME Sequel, client' = client, out' = out, conn.pc \in Under \/ (conn.pc = "top" /\ conn.keepAlive),
         conn'.pc \in Under \/ (conn'.pc = "top" /\ conn'.keepAlive)
  PROVE  Sequel'
  BY SequelKept DEF Under, Going

\* Steps from one label of Under to another.
Onward ==
  \/ conn.pc \in {"handshake", "top"} /\ conn.keepAlive /\ (Passes("top") \/ Passes("head"))
  \/ conn.pc = "expect" /\ Passes("body")
  \/ conn.pc = "drain" /\ Passes("answer")
  \/ HeadOk \/ Attach \/ StartRead("handler") \/ StartRead("drain") \/ NothingToRead \/ ToDrain \/ Strip
  \/ Skips \/ Drained \/ Dropped \/ SizeTaken \/ CrlfTaken
  \/ (\E n \in Nat : BodyTaken(n)) \/ (\E n \in Nat : TrailerTaken(n)) \/ (\E n \in Nat : Copies(n))
  \/ SomeReturned \/ ReadBreaks
  \/ Refuses /\ conn.rd.who = "handler"

\* They are steps under way, and nobody waits after them.
LEMMA OnwardGoes ==
  ASSUME Base, Onward
  PROVE  /\ client' = client /\ out' = out /\ suspended' = FALSE
         /\ conn.pc \in Under \/ (conn.pc = "top" /\ conn.keepAlive)
         /\ conn'.pc \in Under \/ (conn'.pc = "top" /\ conn'.keepAlive)
<1>s. suspended \in BOOLEAN
  BY TypeFacts
<1>c. ASSUME Calm PROVE client' = client /\ out' = out /\ suspended' = FALSE
  BY <1>c, <1>s DEF Calm, Server0
<1>r. ASSUME Read PROVE client' = client /\ out' = out /\ suspended' = FALSE
  BY <1>r DEF Read, Server0
<1>1. CASE conn.pc \in {"handshake", "top"} /\ conn.keepAlive /\ (Passes("top") \/ Passes("head"))
  BY <1>1, <1>c DEF Passes, Same, Under
<1>2. CASE (conn.pc = "expect" /\ Passes("body")) \/ (conn.pc = "drain" /\ Passes("answer"))
  BY <1>2, <1>c DEF Passes, Same, Under
<1>3. CASE HeadOk \/ Attach \/ StartRead("handler") \/ StartRead("drain") \/ NothingToRead \/ ToDrain
  BY <1>3, <1>c DEF HeadOk, Attach, StartRead, NothingToRead, ToDrain, Under
<1>4. CASE Strip \/ Skips \/ Drained
  BY <1>4, <1>c DEF Strip, Skips, Drained, Same, Under
<1>5. CASE Dropped \/ SizeTaken \/ CrlfTaken \/ (\E n \in Nat : BodyTaken(n)) \/ (\E n \in Nat : TrailerTaken(n))
  <2>1. Turns
    BY <1>5 DEF Dropped, SizeTaken, CrlfTaken, BodyTaken, TrailerTaken
  <2> QED BY <2>1, <1>c DEF Turns, Under
<1>6. CASE (\E n \in Nat : Copies(n)) \/ SomeReturned
  <2>1. PICK n : Returned(n) /\ conn.pc \in {"lengthRead", "chunk"} /\ (Read \/ Calm)
    BY <1>6 DEF Copies, SomeReturned
  <2>2. conn'.pc \in Under
    BY <2>1 DEF Returned, Under
  <2> QED BY <2>1, <2>2, <1>c, <1>r DEF Under
<1>7. CASE ReadBreaks
  BY <1>7, <1>r DEF ReadBreaks, Broken, Under
<1>8. CASE Refuses /\ conn.rd.who = "handler"
  BY <1>8, <1>c DEF Refuses, Broken, Under
<1> QED BY <1>1, <1>2, <1>3, <1>4, <1>5, <1>6, <1>7, <1>8 DEF Onward

\* Who neither waits nor closes cannot break the three properties.
LEMMA NotClosing ==
  ASSUME suspended' = FALSE, conn'.pc # "closed"
  PROVE  Quiet'
  BY DEF Quiet, WaitsForTheMissing, NoSilentHangUp, LingersBeforeClose, At

\* The answers stay as they are on the way to the next one.
LEMMA OnwardSequel == ASSUME Base, Sequel, Onward PROVE Sequel' /\ Quiet'
<1>1. conn'.pc # "closed"
  BY OnwardGoes DEF Under
<1> QED BY <1>1, OnwardGoes, GoesOn, NotClosing

\* Before it lingers, the server has announced the close.
LEMMA LingerSequel == ASSUME Base, Sequel, conn.pc = "top", ~conn.keepAlive, Passes("linger") PROVE Sequel' /\ Quiet'
<1>s. suspended \in BOOLEAN
  BY TypeFacts
<1>1. client' = client /\ out' = out /\ suspended' = FALSE /\ conn'.pc = "linger" /\ conn'.keepAlive = conn.keepAlive
  BY <1>s DEF Passes, Same, Calm, Server0
<1>2. ~Going'
  BY <1>1 DEF Going
<1> QED BY <1>1, <1>2, SequelKept, NotClosing

\* Steps to the write of an answer.
LEMMA ToWrite ==
  ASSUME Sequel, client' = client, out' = out, suspended' = FALSE, conn.pc \in Under,
         conn'.pc = "send", conn'.resp.kind \in FirstKinds,
         ~conn'.keepAlive => Told',
         conn'.keepAlive /\ conn'.resp.close => conn'.resp.kind # "continue" /\ requests[conn'.req].close,
         conn'.resp.kind = "error" => ~conn'.keepAlive /\ conn'.resp.close
  PROVE  Sequel' /\ Quiet'
<1>1. ~InAnswer' /\ Going
  BY DEF InAnswer, FirstKinds, LaterKinds, Going, Under
<1>2. requests' = requests /\ Req' = requests[conn'.req]
  BY DEF requests, Req
<1>3. Sequel'
  BY <1>1, <1>2 DEF Sequel, Stands, LastOut
<1> QED BY <1>3, NotClosing

\* An error announces the close that follows it.
LEMMA FailSequel == ASSUME Base, Sequel, Fail PROVE Sequel' /\ Quiet'
<1>1. client' = client /\ out' = out /\ suspended' = FALSE /\ conn.pc \in Under
  BY DEF Fail, Server0, Under
<1>2. conn'.pc = "send" /\ conn'.resp.kind = "error" /\ conn'.resp.close /\ ~conn'.keepAlive
  BY DEF Fail
<1> QED BY <1>1, <1>2, ToWrite DEF FirstKinds, Told

\* 100 Continue announces nothing.
LEMMA ToContinueSequel == ASSUME Base, Sequel, ToContinue PROVE Sequel' /\ Quiet'
<1>s. suspended \in BOOLEAN
  BY TypeFacts
<1>1. client' = client /\ out' = out /\ suspended' = FALSE /\ conn.pc \in Under
  BY <1>s DEF ToContinue, Calm, Server0, Under
<1>2. conn'.pc = "send" /\ conn'.resp.kind = "continue" /\ ~conn'.resp.close
  BY DEF ToContinue
<1>3. conn'.keepAlive
  BY DEF ToContinue, Base, Control
<1> QED BY <1>1, <1>2, <1>3, ToWrite DEF FirstKinds

\* The announced close is the one carried out, or the one asked for.
LEMMA AnnounceSequel == ASSUME Base, Sequel, Announce PROVE Sequel' /\ Quiet'
<1>s. suspended \in BOOLEAN
  BY TypeFacts
<1>1. client' = client /\ out' = out /\ suspended' = FALSE /\ conn.pc \in Under
  BY <1>s DEF Announce, Calm, Server0, Under
<1>2. conn'.pc = "send" /\ conn'.resp.kind \in FirstKinds /\ conn'.resp.kind \notin {"error", "continue"}
  BY DEF Announce, FirstKinds
<1>3. (~conn'.keepAlive => Told') /\ (conn'.keepAlive /\ conn'.resp.close => requests[conn'.req].close)
  BY DEF Announce, Req, Kept
<1> QED BY <1>1, <1>2, <1>3, ToWrite

\* A streamed answer keeps what it announced.
LEMMA ToSendSequel == ASSUME Base, Sequel, ToSend PROVE Sequel' /\ Quiet'
<1>s. suspended \in BOOLEAN
  BY TypeFacts
<1>1. client' = client /\ out' = out /\ suspended' = FALSE /\ conn.pc = "stream"
  BY <1>s DEF ToSend, Calm, Server0
<1>2. /\ conn'.pc = "send" /\ conn'.resp.kind \in LaterKinds /\ conn'.resp.close = conn.resp.close
      /\ conn'.keepAlive = conn.keepAlive /\ conn'.req = conn.req
  BY DEF ToSend, Kept
<1>3. InAnswer /\ InAnswer' /\ ~Going' /\ conn'.resp.kind \notin {"continue", "error"}
      /\ conn.resp.kind # "smallFile"
  BY <1>1, <1>2 DEF InAnswer, Going, FirstKinds, LaterKinds, Base, Control
<1>4. requests' = requests /\ Req' = Req
  BY <1>1, <1>2 DEF requests, Req
<1>5. Sequel'
  BY <1>1, <1>2, <1>3, <1>4 DEF Sequel, Stands, LastOut, Told
<1> QED BY <1>1, <1>2, <1>5, NotClosing

\* Waits, and wake-ups that change nothing of the answers.
LEMMA SameSequel ==
  ASSUME Sequel, client' = client, out' = out, conn'.pc = conn.pc, conn'.req = conn.req,
         conn'.keepAlive = conn.keepAlive, conn'.resp = conn.resp
  PROVE  Sequel'
<1>1. Going' <=> Going
  BY DEF Going
<1>2. InAnswer' <=> InAnswer
  BY DEF InAnswer
<1>3. requests' = requests /\ Req' = Req
  BY DEF requests, Req
<1> QED BY <1>1, <1>2, <1>3 DEF Sequel, Stands, LastOut, Told

\* A wait shows nothing,
LEMMA SuspendSequel == ASSUME Base, Sequel, Suspend PROVE Sequel' /\ NoSilentHangUp' /\ LingersBeforeClose'
<1>1. client' = client /\ out' = out /\ conn' = conn /\ conn.pc # "closed"
  BY DEF Suspend, Server0
<1> QED BY <1>1, SameSequel DEF NoSilentHangUp, LingersBeforeClose, At

\* and neither does the end of one.
LEMMA ResumeSequel == ASSUME Base, Sequel, Resume PROVE Sequel' /\ Quiet'
<1>1. client' = client /\ out' = out /\ suspended' = FALSE /\ conn'.pc # "closed"
  BY DEF Resume, Read, Server0
<1> QED BY <1>1, SameSequel, NotClosing DEF Resume

\* The client's answer as the properties name it.
LEMMA LastIs == ASSUME out # <<>> PROVE Last(out) = LastOut
  BY DEF Last, LastOut

\* Every return of run() has one of the excuses.
LEMMA HangUpSequel == ASSUME Base, Sequel, HangUp PROVE Sequel' /\ Quiet'
<1>1. client' = client /\ out' = out /\ fin' = fin /\ suspended' = FALSE /\ conn'.pc = "closed" /\ conn.pc # "closed"
  BY DEF HangUp, Close, Read, Server0
<1>2. conn'.resp.kind = conn.resp.kind /\ conn'.cause = conn.cause /\ conn'.req = conn.req /\ tls' = tls
  BY <1>1 DEF HangUp, Close, tls
<1>3. ~Going' /\ ~InAnswer'
  BY <1>1 DEF Going, InAnswer
<1>4. Sequel'
  BY <1>1, <1>3, SequelKept
<1>5. WaitsForTheMissing'
  BY <1>1 DEF WaitsForTheMissing
<1>6. Last(out)' = Last(out) /\ (out # <<>> => Last(out) = LastOut)
  BY <1>1, LastIs
<1>7. CASE fin \/ conn'.late
  BY <1>1, <1>7, <1>4, <1>5 DEF Quiet, NoSilentHangUp, LingersBeforeClose
<1>8. CASE conn.pc = "handshake" /\ tls
  <2>1. out = <<>>
    BY <1>8 DEF Base, Control
  <2> QED BY <1>1, <1>2, <1>8, <1>4, <1>5, <2>1 DEF Quiet, NoSilentHangUp, LingersBeforeClose
<1>9. CASE conn.resp.kind \in {"unsendable", "smallFile", "streamError"}
  BY <1>1, <1>2, <1>9, <1>4, <1>5 DEF Quiet, NoSilentHangUp, LingersBeforeClose
<1>10. CASE InAnswer
  <2>1. out # <<>> /\ ~LastOut.whole
    BY <1>10 DEF Sequel
  <2> QED BY <1>1, <1>4, <1>5, <1>6, <2>1 DEF Quiet, NoSilentHangUp, LingersBeforeClose
<1>11. CASE conn.pc = "linger" /\ conn'.lingered /\ conn'.keepAlive = conn.keepAlive
  <2>1. ~conn'.keepAlive /\ out # <<>> /\ (LastOut.close \/ LastOut.status = NoHead)
    BY <1>11 DEF Sequel
  <2> QED BY <1>1, <1>4, <1>5, <1>6, <1>11, <2>1 DEF Quiet, NoSilentHangUp, LingersBeforeClose
<1>12. CASE conn'.thrown /\ InRequest /\ (conn.cause # {} \/ Unreadable(Req)')
  BY <1>1, <1>2, <1>4, <1>5, <1>12 DEF Quiet, NoSilentHangUp, LingersBeforeClose
<1> QED BY <1>4, <1>7, <1>8, <1>9, <1>10, <1>11, <1>12 DEF HangUp, Excused

\* A new answer is shown.
LEMMA ShowsSequel ==
  ASSUME Base, Sequel, Wrote, conn.pc = "send", conn.resp.kind \in FirstKinds, NEW whole \in BOOLEAN, Shows(whole)
  PROVE  /\ \A i \in 1..(Len(out') - 1) : Stands(i)'
         /\ out' # <<>> /\ LastOut'.close = conn.resp.close /\ LastOut'.whole = whole /\ LastOut'.req = conn.req
         /\ LastOut'.status = conn.resp.status
         /\ client' = client /\ suspended' = FALSE /\ requests' = requests
<1>0. client' = client /\ suspended' = FALSE /\ requests' = requests
  BY DEF Wrote, requests
<1>1. /\ Len(out) \in Nat /\ Len(out') = Len(out) + 1 /\ out' # <<>>
      /\ \A i \in 1..Len(out) : out'[i] = out[i]
      /\ LastOut'.close = conn.resp.close /\ LastOut'.whole = whole /\ LastOut'.req = conn.req
      /\ LastOut'.status = conn.resp.status
  BY ShowsFacts
<1>2. Going
  BY DEF Going
<1>3. \A i \in 1..Len(out) : Stands(i)
  <2> SUFFICES ASSUME NEW i \in 1..Len(out) PROVE Stands(i)
    OBVIOUS
  <2>1. CASE i = Len(out)
    BY <1>2, <2>1 DEF Sequel
  <2>2. CASE i # Len(out)
    BY <1>1, <2>2 DEF Sequel
  <2> QED BY <2>1, <2>2
<1>4. \A i \in 1..(Len(out') - 1) : Stands(i)'
  BY <1>0, <1>1, <1>3 DEF Stands
<1> QED BY <1>0, <1>1, <1>4

\* The error is out: a complete answer that announces the close.
LEMMA ErrorSentSequel == ASSUME Base, Sequel, ErrorSent PROVE Sequel' /\ Quiet'
<1>1. /\ \A i \in 1..(Len(out') - 1) : Stands(i)'
      /\ out' # <<>> /\ LastOut'.close = conn.resp.close /\ suspended' = FALSE
  BY ShowsSequel DEF ErrorSent, FirstKinds
<1>2. conn.resp.close /\ ~conn.keepAlive
  BY DEF Sequel, ErrorSent
<1>3. conn'.pc = "linger" /\ conn'.keepAlive = conn.keepAlive /\ ~Going' /\ ~InAnswer'
  BY DEF ErrorSent, Same, Going, InAnswer
<1> QED BY <1>1, <1>2, <1>3, NotClosing DEF Sequel

\* 100 Continue is out: complete, and no close announced.
LEMMA ContinueSentSequel == ASSUME Base, Sequel, ContinueSent PROVE Sequel' /\ Quiet'
<1>1. /\ \A i \in 1..(Len(out') - 1) : Stands(i)'
      /\ out' # <<>> /\ LastOut'.close = conn.resp.close /\ LastOut'.whole = TRUE /\ suspended' = FALSE
  BY ShowsSequel DEF ContinueSent, FirstKinds
<1>2. ~conn.resp.close
  BY DEF Sequel, ContinueSent, Base, Control
<1>3. conn'.pc = "body" /\ ~InAnswer'
  BY DEF ContinueSent, Same, InAnswer
<1>4. Stands(Len(out))'
  BY <1>1, <1>2 DEF Stands, LastOut
<1> QED BY <1>1, <1>3, <1>4, NotClosing DEF Sequel

\* A whole answer is out.
LEMMA AnswerSentSequel == ASSUME Base, Sequel, AnswerSent PROVE Sequel' /\ Quiet'
<1>1. /\ \A i \in 1..(Len(out') - 1) : Stands(i)'
      /\ out' # <<>> /\ LastOut'.close = conn.resp.close /\ LastOut'.whole = TRUE /\ LastOut'.req = conn.req
      /\ LastOut'.status = conn.resp.status /\ suspended' = FALSE /\ requests' = requests
  BY ShowsSequel DEF AnswerSent, FirstKinds
<1>2. conn'.pc = "top" /\ ~InAnswer' /\ conn'.keepAlive = conn.keepAlive
  BY DEF AnswerSent, Renewed, InAnswer
<1>3. /\ ~conn.keepAlive => conn.resp.close \/ conn.resp.status = NoHead
      /\ conn.keepAlive /\ conn.resp.close => requests[conn.req].close
  BY DEF AnswerSent, Sequel, Req, Told
<1>4. ASSUME conn.keepAlive PROVE Stands(Len(out))'
  BY <1>1, <1>3, <1>4 DEF Stands, LastOut
<1> QED BY <1>1, <1>2, <1>3, <1>4, NotClosing DEF Sequel, Going

\* The head of a stream or of a file is out: the answer has not ended.
LEMMA HeadSentSequel == ASSUME Base, Sequel, HeadSent PROVE Sequel' /\ Quiet'
<1>1. /\ \A i \in 1..(Len(out') - 1) : Stands(i)'
      /\ out' # <<>> /\ LastOut'.close = conn.resp.close /\ LastOut'.whole = FALSE /\ LastOut'.req = conn.req
      /\ suspended' = FALSE /\ requests' = requests
  BY ShowsSequel DEF HeadSent, FirstKinds
<1>2. /\ conn'.pc \in {"stream", "file"} /\ ~Going' /\ InAnswer' /\ conn'.keepAlive = conn.keepAlive
      /\ conn'.resp = conn.resp /\ conn'.req = conn.req
  BY DEF HeadSent, Same, InAnswer, Going
<1>3. Req' = Req
  BY <1>1, <1>2 DEF Req
<1> QED BY <1>1, <1>2, <1>3, NotClosing DEF Sequel, HeadSent, Told

\* One more chunk is out.
LEMMA ChunkSentSequel == ASSUME Base, Sequel, ChunkSent PROVE Sequel' /\ Quiet'
<1>1. client' = client /\ out' = out /\ suspended' = FALSE /\ InAnswer
  BY DEF ChunkSent, Wrote, InAnswer, LaterKinds
<1>2. /\ conn'.pc = "stream" /\ ~Going' /\ InAnswer' /\ conn'.keepAlive = conn.keepAlive
      /\ conn'.resp = conn.resp /\ conn'.req = conn.req
  BY DEF ChunkSent, Same, InAnswer, Going
<1>3. Req' = Req /\ requests' = requests
  BY <1>1, <1>2 DEF Req, requests
<1> QED BY <1>1, <1>2, <1>3, NotClosing DEF Sequel, ChunkSent, Stands, LastOut, Told

\* The end of an answer is shown.
LEMMA EndsSequel ==
  ASSUME Base, Sequel, Wrote, InAnswer, NEW whole \in BOOLEAN, Ends(whole)
  PROVE  /\ \A i \in 1..(Len(out') - 1) : Stands(i)'
         /\ out' # <<>> /\ LastOut'.close = conn.resp.close /\ LastOut'.whole = whole /\ LastOut'.req = conn.req
         /\ client' = client /\ suspended' = FALSE /\ requests' = requests /\ out # <<>>
<1>0. client' = client /\ suspended' = FALSE /\ requests' = requests
  BY DEF Wrote, requests
<1>1. out # <<>> /\ LastOut.close = conn.resp.close /\ LastOut.req = conn.req
  BY DEF Sequel
<1>2. /\ Len(out) \in Nat /\ Len(out') = Len(out) /\ out' # <<>>
      /\ \A i \in 1..(Len(out) - 1) : out'[i] = out[i]
      /\ LastOut'.close = LastOut.close /\ LastOut'.whole = whole /\ LastOut'.req = LastOut.req
  BY <1>1, EndsFacts
<1>3. \A i \in 1..(Len(out') - 1) : Stands(i)'
  BY <1>0, <1>2 DEF Stands, Sequel
<1> QED BY <1>0, <1>1, <1>2, <1>3

\* The last chunk or the file is out: the answer is complete.
LEMMA LastSentSequel == ASSUME Base, Sequel, LastSent PROVE Sequel' /\ Quiet'
<1>0. InAnswer /\ Wrote /\ Ends(TRUE)
  BY DEF LastSent, InAnswer, LaterKinds
<1>1. /\ \A i \in 1..(Len(out') - 1) : Stands(i)'
      /\ out' # <<>> /\ LastOut'.close = conn.resp.close /\ LastOut'.whole = TRUE /\ LastOut'.req = conn.req
      /\ suspended' = FALSE /\ requests' = requests
  BY <1>0, EndsSequel
<1>2. conn'.pc = "top" /\ ~InAnswer' /\ conn'.keepAlive = conn.keepAlive
  BY DEF LastSent, Renewed, InAnswer
<1>3. (~conn.keepAlive => conn.resp.close) /\ (conn.keepAlive /\ conn.resp.close => requests[conn.req].close)
  <2>1. conn.pc \in {"send", "file"} /\ conn.resp.kind # "smallFile"
    BY DEF LastSent, Base, Control
  <2> QED BY <2>1 DEF Sequel, Req, Told
<1>4. ASSUME conn.keepAlive PROVE Stands(Len(out))'
  BY <1>1, <1>3, <1>4 DEF Stands, LastOut
<1> QED BY <1>1, <1>2, <1>3, <1>4, NotClosing DEF Sequel, Going

\* A write loop that gives up: the client is gone or late, or the stream broke.
LEMMA ShutSequel == ASSUME Base, Sequel, StreamErrorSent \/ SendFails PROVE Sequel' /\ Quiet'
<1>0. Wrote /\ conn.pc = "send" /\ Shut
  BY DEF StreamErrorSent, SendFails
<1>1. conn'.pc = "closed" /\ ~Going' /\ ~InAnswer' /\ conn'.resp.kind = conn.resp.kind /\ suspended' = FALSE /\ fin' = fin
  BY <1>0 DEF Shut, Going, InAnswer, Wrote
<1>2. \A i \in 1..(Len(out') - 1) : Stands(i)'
  <2>1. CASE conn.resp.kind \in FirstKinds /\ \E whole \in BOOLEAN : Shows(whole)
    BY <1>0, <2>1, ShowsSequel
  <2>2. CASE conn.resp.kind = "chunk" /\ out' = out
    BY <1>0, <2>2 DEF Wrote, Sequel, Stands, requests
  <2>3. CASE conn.resp.kind \in {"lastChunk", "streamError"} /\ \E whole \in BOOLEAN : Ends(whole)
    <3>1. InAnswer
      BY <1>0, <2>3 DEF InAnswer, LaterKinds
    <3> QED BY <1>0, <2>3, <3>1, EndsSequel
  <2> QED BY <2>1, <2>2, <2>3 DEF StreamErrorSent, SendFails
<1>3. Sequel'
  BY <1>1, <1>2 DEF Sequel
<1>4. WaitsForTheMissing'
  BY <1>1 DEF WaitsForTheMissing
<1>5. conn.resp.kind = "streamError" \/ fin \/ conn'.late
  BY DEF StreamErrorSent, SendFails
<1> QED BY <1>1, <1>3, <1>4, <1>5 DEF Quiet, NoSilentHangUp, LingersBeforeClose

-----------------------------------------------------------------------------
(* Order                                                                     *)

\* The answers and the request stay; what was lost before is still lost.
LEMMA OrderKept ==
  ASSUME Order, out' = out, conn'.req = conn.req, conn'.cause = {} => conn.cause = {},
         conn.pc \in {"linger", "closed"} => conn'.pc \in {"linger", "closed"},
         InRequest' /\ ~InAnswer' => InRequest /\ ~InAnswer,
         InAnswer' => InAnswer,
         conn'.pc = "send" /\ conn'.resp.kind = "error" =>
           conn.req = 0 \/ (InRequest /\ ~InAnswer) \/ (conn.pc = "send" /\ conn.resp.kind = "error"),
         conn'.pc = "send" /\ conn'.resp.kind = "continue" => conn'.resp.status = 100
  PROVE  Order'
<1>1. \A i : FinalsUpTo(out, i)' = FinalsUpTo(out, i)
  BY DEF FinalsUpTo
<1> QED BY <1>1 DEF Order

\* The labels between a head and its answer.
InBody == {"expect", "body", "handler", "lengthRead", "chunk", "drain", "lengthDrain", "answer"}

\* At these labels a request is served and no answer has begun.
LEMMA BodyLabels ==
  /\ conn.pc \in InBody => InRequest /\ ~InAnswer
  /\ conn'.pc \in InBody => InRequest' /\ ~InAnswer'
  BY DEF InBody, InRequest, InAnswer

\* The order on the way from a head to the answer, and between requests.
LEMMA OrderInBody ==
  ASSUME Order, out' = out, conn'.req = conn.req, conn'.cause = {} => conn.cause = {},
         \/ conn.pc \in InBody /\ conn'.pc \in InBody
         \/ conn.pc \in {"handshake", "top", "head"} /\ conn'.pc \in {"top", "head", "linger"}
  PROVE  Order'
<1>1. conn.pc \in {"handshake", "top", "head"} => ~InRequest /\ ~InAnswer
  BY DEF InRequest, InAnswer
<1>2. conn'.pc \in {"top", "head", "linger"} => ~InRequest' /\ ~InAnswer'
  BY DEF InRequest, InAnswer
<1>3. /\ conn'.pc # "send"
      /\ conn.pc \in {"linger", "closed"} => conn'.pc \in {"linger", "closed"}
  BY DEF InBody
<1> QED BY <1>1, <1>2, <1>3, BodyLabels, OrderKept

\* The steps onward but the one that finds a head.
LEMMA OnwardOrder == ASSUME Base, Order, Onward, ~HeadOk PROVE Order'
<1>0. out' = out
  BY OnwardGoes
<1>1. CASE conn.pc \in {"handshake", "top"} /\ conn.keepAlive /\ (Passes("top") \/ Passes("head"))
  BY <1>0, <1>1, OrderInBody DEF Passes, Same
<1>2. CASE (conn.pc = "expect" /\ Passes("body")) \/ (conn.pc = "drain" /\ Passes("answer"))
  BY <1>0, <1>2, OrderInBody DEF Passes, Same, InBody
<1>3. CASE Attach \/ StartRead("handler") \/ StartRead("drain") \/ ToDrain \/ Drained
  <2>1. Kept /\ conn.pc \in InBody /\ conn'.pc \in InBody
    BY <1>3 DEF Attach, StartRead, ToDrain, Drained, InBody
  <2> QED BY <1>0, <2>1, OrderInBody DEF Kept
<1>3a. CASE NothingToRead
  BY <1>0, <1>3a, OrderInBody DEF NothingToRead, InBody
<1>4. CASE Strip
  BY <1>0, <1>4, OrderInBody DEF Strip
<1>4a. CASE Skips
  BY <1>0, <1>4a, OrderInBody DEF Skips, Same, InBody
<1>5. CASE Dropped \/ SizeTaken \/ CrlfTaken \/ (\E n \in Nat : BodyTaken(n)) \/ (\E n \in Nat : TrailerTaken(n))
  <2>1. Turns /\ (conn'.cause = {} => conn.cause = {})
    BY <1>5 DEF Dropped, SizeTaken, CrlfTaken, BodyTaken, TrailerTaken
  <2> QED BY <1>0, <2>1, OrderInBody DEF Turns, InBody
<1>6. CASE (\E n \in Nat : Copies(n)) \/ SomeReturned
  <2>1. PICK n : Returned(n) /\ conn.pc \in {"lengthRead", "chunk"} /\ (conn'.cause = {} => conn.cause = {})
    BY <1>6 DEF Copies, SomeReturned
  <2>2. conn.pc \in InBody /\ conn'.pc \in InBody /\ conn'.req = conn.req
    BY <2>1 DEF Returned, InBody
  <2> QED BY <1>0, <2>1, <2>2, OrderInBody
<1>7. CASE ReadBreaks
  BY <1>0, <1>7, OrderInBody DEF ReadBreaks, Broken, InBody
<1>8. CASE Refuses /\ conn.rd.who = "handler"
  BY <1>0, <1>8, OrderInBody DEF Refuses, Broken, InBody
<1> QED BY <1>1, <1>2, <1>3, <1>3a, <1>4, <1>4a, <1>5, <1>6, <1>7, <1>8 DEF Onward

\* Nothing is shown before the server lingers.
LEMMA LingerOrder == ASSUME Base, Order, conn.pc = "top", Passes("linger") PROVE Order'
  BY OrderInBody DEF Passes, Same, Calm, Server0

\* An error answers the request being served, or none.
LEMMA FailOrder == ASSUME Base, Order, Fail PROVE Order'
<1>1. out' = out /\ conn'.req = conn.req /\ conn'.cause = conn.cause /\ conn'.pc = "send" /\ conn'.resp.kind = "error"
  BY DEF Fail, Server0
<1>2. conn.pc \in InBody \/ conn.pc = "head"
  BY DEF Fail, InBody
<1>3. conn.pc = "head" => conn.req = 0
  BY DEF Base, Control
<1>4. ~InAnswer' /\ ~InRequest' /\ conn.pc \notin {"linger", "closed"}
  BY <1>1, <1>2 DEF InAnswer, InRequest, LaterKinds, InBody
<1> QED BY <1>1, <1>2, <1>3, <1>4, BodyLabels, OrderKept

\* 100 Continue is no final answer.
LEMMA ToContinueOrder == ASSUME Base, Order, ToContinue PROVE Order'
<1>1. /\ out' = out /\ conn'.req = conn.req /\ conn'.cause = conn.cause /\ conn'.pc = "send" /\ conn'.resp.kind = "continue"
      /\ conn'.resp.status = 100 /\ conn.pc \in InBody
  BY DEF ToContinue, Kept, Calm, Server0, InBody
<1>2. InRequest /\ ~InAnswer /\ ~InAnswer' /\ conn.pc \notin {"linger", "closed"}
  BY <1>1, BodyLabels DEF InAnswer, LaterKinds, InBody
<1> QED BY <1>1, <1>2, OrderKept

\* The answer is to the request being served,
LEMMA AnnounceOrder == ASSUME Base, Order, Announce PROVE Order'
<1>1. /\ out' = out /\ conn'.req = conn.req /\ conn'.cause = conn.cause /\ conn'.pc = "send"
      /\ conn'.resp.kind \in {"plain", "streamHead", "cachedFile", "smallFile", "fileHead"} /\ conn.pc \in InBody
  BY DEF Announce, Kept, Calm, Server0, InBody
<1>2. InRequest /\ ~InAnswer /\ ~InAnswer' /\ conn.pc \notin {"linger", "closed"}
  BY <1>1, BodyLabels DEF InAnswer, LaterKinds, InBody
<1> QED BY <1>1, <1>2, OrderKept

\* and remains so.
LEMMA ToSendOrder == ASSUME Base, Order, ToSend PROVE Order'
<1>1. /\ out' = out /\ conn'.req = conn.req /\ conn'.cause = conn.cause /\ conn'.pc = "send"
      /\ conn'.resp.kind \in LaterKinds /\ conn.pc = "stream"
  BY DEF ToSend, Kept, Calm, Server0
<1>2. InAnswer /\ InAnswer'
  BY <1>1 DEF InAnswer
<1> QED BY <1>1, <1>2, OrderKept DEF LaterKinds

\* Waits and wake-ups change nothing of the order.
LEMMA SameOrder ==
  ASSUME Order, out' = out, conn'.pc = conn.pc, conn'.req = conn.req, conn'.cause = conn.cause, conn'.resp = conn.resp
  PROVE  Order'
<1>1. (InAnswer' <=> InAnswer) /\ (InRequest' <=> InRequest)
  BY DEF InAnswer, InRequest
<1>2. conn'.pc = "send" /\ conn'.resp.kind = "continue" => conn'.resp.status = 100
  BY DEF Order
<1> QED BY <1>1, <1>2, OrderKept

\* Neither does the return of run().
LEMMA CloseOrder == ASSUME Base, Order, Close PROVE Order'
<1>1. out' = out /\ conn'.req = conn.req /\ conn'.cause = conn.cause /\ conn'.pc = "closed"
  BY DEF Close, Read, Server0
<1>2. ~InAnswer' /\ ~InRequest'
  BY <1>1 DEF InAnswer, InRequest
<1> QED BY <1>1, <1>2, OrderKept

\* A new answer is shown.
LEMMA ShowsOrder ==
  ASSUME Base, Order, conn.pc = "send", conn.resp.kind \in FirstKinds, NEW whole \in BOOLEAN, Shows(whole), conn.cause = {}
  PROVE  /\ \A i \in 1..Len(out) : out'[i].status # 100 => out'[i].req = FinalsUpTo(out', i)
         /\ Len(out') = Len(out) + 1 /\ Len(out) \in Nat /\ Finals \in Nat
         /\ conn.resp.kind = "continue" => out'[Len(out')].status = 100 /\ FinalsUpTo(out', Len(out')) = Finals
         /\ conn.resp.kind = "error" => (out'[Len(out')].status # 100 =>
              out'[Len(out')].req \in {0, FinalsUpTo(out', Len(out'))})
         /\ conn.resp.kind \notin {"continue", "error"} =>
              /\ FinalsUpTo(out', Len(out')) = Finals + 1 /\ conn.req = Finals + 1
              /\ out'[Len(out')].req = FinalsUpTo(out', Len(out'))
<1> DEFINE x == [req |-> conn.req, status |-> conn.resp.status, close |-> conn.resp.close, whole |-> whole]
<1>1. /\ Len(out) \in Nat /\ Len(out') = Len(out) + 1
      /\ \A i \in 1..Len(out) : out'[i] = out[i]
      /\ out'[Len(out')].req = conn.req /\ out'[Len(out')].status = conn.resp.status
  BY ShowsFacts DEF LastOut
<1>2. x \in ShownType /\ out \in Seq(ShownType) /\ out' = Append(out, x) /\ x.status = conn.resp.status
  BY TypeFacts, ConnFacts DEF ShownType, Shows
<1> HIDE DEF x
<1>3. /\ \A i \in 1..Len(out) : FinalsUpTo(out', i) = FinalsUpTo(out, i)
      /\ Finals \in Nat
      /\ FinalsUpTo(out', Len(out')) = IF conn.resp.status # 100 THEN Finals + 1 ELSE Finals
  BY <1>1, <1>2, FinalsAppend DEF Finals
<1>4. \A i \in 1..Len(out) : out'[i].status # 100 => out'[i].req = FinalsUpTo(out', i)
  BY <1>1, <1>3 DEF Order
<1>5. conn.resp.kind = "continue" => out'[Len(out')].status = 100 /\ FinalsUpTo(out', Len(out')) = Finals
  BY <1>1, <1>3 DEF Order
<1>6. conn.resp.kind = "error" => (out'[Len(out')].status # 100 =>
              out'[Len(out')].req \in {0, FinalsUpTo(out', Len(out'))})
  BY <1>1, <1>3 DEF Order, Finals
<1>7. ASSUME conn.resp.kind \notin {"continue", "error"}
      PROVE  /\ FinalsUpTo(out', Len(out')) = Finals + 1 /\ conn.req = Finals + 1
             /\ out'[Len(out')].req = FinalsUpTo(out', Len(out'))
  <2>1. InRequest /\ ~InAnswer
    BY <1>7 DEF InRequest, InAnswer, FirstKinds, LaterKinds
  <2>2. conn.req = Finals + 1
    BY <2>1 DEF Order, Finals
  <2>3. conn.resp.status # 100
    BY <1>7 DEF Base, Control, FirstKinds
  <2> QED BY <1>1, <1>3, <2>2, <2>3
<1> QED BY <1>1, <1>3, <1>4, <1>5, <1>6, <1>7

\* The same of all answers, the new one included.
LEMMA ShowsAll ==
  ASSUME Base, Order, conn.pc = "send", conn.resp.kind \in FirstKinds, NEW whole \in BOOLEAN, Shows(whole), conn.cause = {}
  PROVE  /\ \A i \in 1..Len(out') : out'[i].status # 100 =>
               out'[i].req = FinalsUpTo(out', i) \/ (out'[i].req = 0 /\ i = Len(out') /\ conn.resp.kind = "error")
         /\ conn.resp.kind = "continue" => FinalsUpTo(out', Len(out')) = Finals
         /\ conn.resp.kind \notin {"continue", "error"} => conn.req = FinalsUpTo(out', Len(out'))
<1>1. Len(out') = Len(out) + 1 /\ Len(out) \in Nat
  BY ShowsOrder
<1>2. ASSUME NEW i \in 1..Len(out'), out'[i].status # 100
      PROVE  out'[i].req = FinalsUpTo(out', i) \/ (out'[i].req = 0 /\ i = Len(out') /\ conn.resp.kind = "error")
  <2>1. CASE i = Len(out')
    BY <1>2, <2>1, ShowsOrder
  <2>2. CASE i # Len(out')
    <3>1. i \in 1..Len(out)
      BY <1>1, <2>2
    <3> QED BY <1>2, <3>1, ShowsOrder
  <2> QED BY <2>1, <2>2
<1> QED BY <1>2, ShowsOrder

\* An error is the last answer.
LEMMA ErrorSentOrder == ASSUME Base, Order, ErrorSent PROVE Order'
<1>1. conn'.pc = "linger" /\ ~InAnswer' /\ ~InRequest' /\ conn'.cause = conn.cause
  BY DEF ErrorSent, Same, InAnswer, InRequest
<1>2. ASSUME conn.cause = {}
      PROVE  \A i \in 1..Len(out') : out'[i].status # 100 =>
               out'[i].req = FinalsUpTo(out', i) \/ (out'[i].req = 0 /\ i = Len(out'))
  BY <1>2, ShowsAll DEF ErrorSent, FirstKinds
<1>3. \A i : FinalsUpTo(out, i)' = FinalsUpTo(out', i)
  BY DEF FinalsUpTo
<1> QED BY <1>1, <1>2, <1>3 DEF Order

\* After 100 Continue the next final answer is still due.
LEMMA ContinueSentOrder == ASSUME Base, Order, ContinueSent PROVE Order'
<1>1. conn'.pc = "body" /\ ~InAnswer' /\ conn'.cause = conn.cause /\ conn'.req = conn.req
  BY DEF ContinueSent, Same, InAnswer
<1>2. ASSUME conn.cause = {}
      PROVE  /\ \A i \in 1..Len(out') : out'[i].status # 100 => out'[i].req = FinalsUpTo(out', i)
             /\ FinalsUpTo(out', Len(out')) = Finals
  BY <1>2, ShowsAll DEF ContinueSent, FirstKinds
<1>3. InRequest /\ ~InAnswer
  BY DEF ContinueSent, InRequest, InAnswer, LaterKinds
<1>4. \A i : FinalsUpTo(out, i)' = FinalsUpTo(out', i)
  BY DEF FinalsUpTo
<1> QED BY <1>1, <1>2, <1>3, <1>4 DEF Order, Finals

\* After the answer to a request, that request is the last one answered.
LEMMA AnswerSentOrder ==
  ASSUME Base, Order, AnswerSent
  PROVE  Order' /\ (conn.cause = {} => conn.req = FinalsUpTo(out', Len(out')))
<1>1. conn'.pc = "top" /\ ~InAnswer' /\ ~InRequest' /\ conn'.cause = conn.cause
  BY DEF AnswerSent, Renewed, InAnswer, InRequest
<1>2. ASSUME conn.cause = {}
      PROVE  /\ \A i \in 1..Len(out') : out'[i].status # 100 => out'[i].req = FinalsUpTo(out', i)
             /\ conn.req = FinalsUpTo(out', Len(out'))
  BY <1>2, ShowsAll DEF AnswerSent, FirstKinds
<1>3. \A i : FinalsUpTo(out, i)' = FinalsUpTo(out', i)
  BY DEF FinalsUpTo
<1> QED BY <1>1, <1>2, <1>3 DEF Order

\* The head of an answer counts as the answer.
LEMMA HeadSentOrder == ASSUME Base, Order, HeadSent PROVE Order'
<1>1. conn'.pc \in {"stream", "file"} /\ InAnswer' /\ conn'.cause = conn.cause /\ conn'.req = conn.req
  BY DEF HeadSent, Same, InAnswer
<1>2. ASSUME conn.cause = {}
      PROVE  /\ \A i \in 1..Len(out') : out'[i].status # 100 => out'[i].req = FinalsUpTo(out', i)
             /\ conn.req = FinalsUpTo(out', Len(out'))
  BY <1>2, ShowsAll DEF HeadSent, FirstKinds
<1>3. \A i : FinalsUpTo(out, i)' = FinalsUpTo(out', i)
  BY DEF FinalsUpTo
<1> QED BY <1>1, <1>2, <1>3 DEF Order

\* A chunk is part of one.
LEMMA ChunkSentOrder == ASSUME Base, Order, ChunkSent PROVE Order'
<1>1. /\ conn'.pc = "stream" /\ InAnswer' /\ conn'.cause = conn.cause /\ conn'.req = conn.req /\ out' = out
      /\ InAnswer /\ conn.pc = "send"
  BY DEF ChunkSent, Same, InAnswer, LaterKinds
<1> QED BY <1>1, OrderKept

\* The end of an answer is shown.
LEMMA EndsOrder ==
  ASSUME Base, Sequel, Order, InAnswer, NEW whole \in BOOLEAN, Ends(whole), conn.cause = {}
  PROVE  /\ \A i \in 1..Len(out') : out'[i].status # 100 => out'[i].req = FinalsUpTo(out', i)
         /\ conn.req = FinalsUpTo(out', Len(out'))
<1>1. out # <<>> /\ out \in Seq(ShownType) /\ conn.pc \notin {"linger", "closed"}
  BY TypeFacts DEF Sequel, InAnswer
<1>2. /\ out' \in Seq(ShownType) /\ Len(out) \in Nat /\ Len(out') = Len(out)
      /\ \A i \in 1..Len(out) : out'[i].status = out[i].status /\ out'[i].req = out[i].req
  BY <1>1, EndsFacts
<1>3. \A i \in 0..Len(out) : FinalsUpTo(out', i) = FinalsUpTo(out, i)
  BY <1>1, <1>2, FinalsSame
<1>4. \A i \in 1..Len(out') : out'[i].status # 100 => out'[i].req = FinalsUpTo(out', i)
  BY <1>1, <1>2, <1>3 DEF Order
<1>5. FinalsUpTo(out', Len(out')) = FinalsUpTo(out, Len(out))
  BY <1>2, <1>3
<1> QED BY <1>4, <1>5 DEF Order

\* The end of an answer is not another one.
LEMMA LastSentOrder ==
  ASSUME Base, Sequel, Order, LastSent
  PROVE  Order' /\ (conn.cause = {} => conn.req = FinalsUpTo(out', Len(out')))
<1>0. InAnswer /\ Ends(TRUE)
  BY DEF LastSent, InAnswer, LaterKinds
<1>1. conn'.pc = "top" /\ ~InAnswer' /\ ~InRequest' /\ conn'.cause = conn.cause
  BY DEF LastSent, Renewed, InAnswer, InRequest
<1>2. ASSUME conn.cause = {}
      PROVE  /\ \A i \in 1..Len(out') : out'[i].status # 100 => out'[i].req = FinalsUpTo(out', i)
             /\ conn.req = FinalsUpTo(out', Len(out'))
  BY <1>0, <1>2, EndsOrder
<1>3. \A i : FinalsUpTo(out, i)' = FinalsUpTo(out', i)
  BY DEF FinalsUpTo
<1> QED BY <1>1, <1>2, <1>3 DEF Order

\* What a failed write loop has shown is in order too.
LEMMA ShutOrder == ASSUME Base, Sequel, Order, StreamErrorSent \/ SendFails PROVE Order'
<1>1. conn.pc = "send" /\ conn'.pc = "closed" /\ ~InAnswer' /\ ~InRequest' /\ conn'.cause = conn.cause
  BY DEF StreamErrorSent, SendFails, Shut, InAnswer, InRequest
<1>2. ASSUME conn.cause = {}
      PROVE  \A i \in 1..Len(out') : out'[i].status # 100 =>
               out'[i].req = FinalsUpTo(out', i) \/ (out'[i].req = 0 /\ i = Len(out'))
  <2>1. CASE conn.resp.kind \in FirstKinds /\ \E whole \in BOOLEAN : Shows(whole)
    BY <1>1, <1>2, <2>1, ShowsAll
  <2>2. CASE conn.resp.kind = "chunk" /\ out' = out
    BY <1>1, <1>2, <2>2 DEF Order
  <2>3. CASE conn.resp.kind \in {"lastChunk", "streamError"} /\ \E whole \in BOOLEAN : Ends(whole)
    <3>1. InAnswer
      BY <1>1, <2>3 DEF InAnswer, LaterKinds
    <3> QED BY <1>2, <2>3, <3>1, EndsOrder
  <2> QED BY <2>1, <2>2, <2>3 DEF StreamErrorSent, SendFails
<1>3. \A i : FinalsUpTo(out, i)' = FinalsUpTo(out', i)
  BY DEF FinalsUpTo
<1> QED BY <1>1, <1>2, <1>3 DEF Order

-----------------------------------------------------------------------------
(* Place and Count                                                           *)

\* What the client sends does not change.
LEMMA StreamFixed ==
  ASSUME client' = client, NEW k
  PROVE  /\ stream' = stream /\ requests' = requests
         /\ EndOf(k)' = EndOf(k) /\ HeadOf(k)' = HeadOf(k) /\ BodyUnits(k)' = BodyUnits(k)
         /\ BadChunks(k)' = BadChunks(k)
         /\ Bytes(k, pos)' = Bytes(k, pos')
<1>1. stream' = stream /\ requests' = requests
  BY DEF stream, requests
<1>2. EndOf(k)' = EndOf(k)
  BY <1>1 DEF EndOf
<1>3. HeadOf(k)' = HeadOf(k)
  BY DEF HeadOf, stream, FirstOf, EndOf, requests
<1>4. BodyUnits(k)' = BodyUnits(k)
  BY <1>1 DEF BodyUnits
<1>5. BadChunks(k)' = BadChunks(k)
  BY <1>1, <1>4 DEF BadChunks
<1>6. Bytes(k, pos)' = Bytes(k, pos')
  BY <1>1 DEF Bytes
<1> QED BY <1>1, <1>2, <1>3, <1>4, <1>5, <1>6

\* In the body, after the step.
LEMMA WithinNext ==
  ASSUME client' = client, NEW k
  PROVE  /\ Within(k)' <=> HeadOf(k) <= pos' /\ pos' < EndOf(k)
  BY StreamFixed DEF Within

\* The decoder and the place stay: so does what relates them.
LEMMA DecoderPlaceKept ==
  ASSUME conn \in ConnType, client' = client, pos' = pos, conn'.dec = conn.dec, conn'.cause = conn.cause, NEW k, DecoderPlace(k)
  PROVE  DecoderPlace(k)'
<1>0. /\ stream' = stream /\ requests' = requests /\ EndOf(k)' = EndOf(k) /\ BadChunks(k)' = BadChunks(k)
      /\ Bytes(k, pos)' = Bytes(k, pos) /\ BodyUnits(k)' = BodyUnits(k) /\ HeadOf(k)' = HeadOf(k)
  BY StreamFixed
<1>1. Within(k)' <=> Within(k)
  BY <1>0 DEF Within
<1>2. AtSize(k)' <=> AtSize(k)
  BY <1>0, <1>1 DEF AtSize
<1>3. Stuck(k)' <=> Stuck(k)
  BY <1>0, <1>1 DEF Stuck
<1>4. InChunk(k)' <=> InChunk(k)
  BY <1>0, <1>1 DEF InChunk
<1>5. AtCrlf(k)' <=> AtCrlf(k)
  BY <1>0, <1>1 DEF AtCrlf
<1>6. InTrailer(k)' <=> InTrailer(k)
  BY <1>0, <1>1 DEF InTrailer
<1>7. conn.dec.state \in {"CHUNK_SIZE", "CHUNK_BODY", "CHUNK_CRLF", "TRAILER", "DONE"}
  BY ConnFacts
<1>8. conn'.dec.state = conn.dec.state
  OBVIOUS
<1> QED BY <1>0, <1>2, <1>3, <1>4, <1>5, <1>6, <1>7, <1>8 DEF DecoderPlace

\* The same with a Content-Length,
LEMMA LengthPlaceKept ==
  ASSUME client' = client, pos' = pos, conn'.body = conn.body, conn'.cause = conn.cause, NEW k, LengthPlace(k)
  PROVE  LengthPlace(k)'
  BY StreamFixed DEF LengthPlace

\* and for any body.
LEMMA BodyPlaceKept ==
  ASSUME conn \in ConnType, client' = client, pos' = pos, conn'.dec = conn.dec, conn'.cause = conn.cause, NEW k, conn'.body = conn.body,
         BodyPlace(k)
  PROVE  BodyPlace(k)'
<1>1. EndOf(k)' = EndOf(k)
  BY StreamFixed
<1>2. LengthPlace(k) => LengthPlace(k)'
  BY LengthPlaceKept
<1>3. DecoderPlace(k) => DecoderPlace(k)'
  BY DecoderPlaceKept
<1>4. conn.body.kind \in {"none", "length", "chunked"} /\ conn'.body.kind = conn.body.kind
  BY ConnFacts
<1> QED BY <1>1, <1>2, <1>3, <1>4 DEF BodyPlace

\* Where requests begin does not change.
LEMMA BeginsFixed == ASSUME client' = client, NEW f, NEW p PROVE Begins(f, p)' <=> Begins(f, p)
<1>1. stream' = stream /\ requests' = requests /\ HeadOf(f)' = HeadOf(f)
  BY StreamFixed
<1>2. FirstOf(f)' = FirstOf(f)
  BY <1>1 DEF FirstOf
<1> QED BY <1>1, <1>2 DEF Begins

\* Place after the step, in terms of a request k.
LEMMA PlaceNext ==
  ASSUME client' = client, NEW k, k = conn'.req,
         conn'.cause = {} /\ Seeking' => Begins(Finals' + 1, pos'),
         Opening' => (Upright' => pos' = HeadOf(k)) /\ conn'.fed = 0,
         Reading' /\ zeros' = 0 /\ Upright' => BodyPlace(k)',
         Replying' => (conn'.keepAlive /\ conn'.cause = {} => pos' = EndOf(k))
  PROVE  Place'
<1>1. EndOf(k)' = EndOf(k) /\ HeadOf(k)' = HeadOf(k)
  BY StreamFixed
<1>2. EndOf(conn.req)' = EndOf(k) /\ HeadOf(conn.req)' = HeadOf(k)
  BY <1>1
<1>3. BodyPlace(k)' => BodyPlace(conn.req)'
  OBVIOUS
<1>4. Begins(Finals' + 1, pos') => Begins(Finals + 1, pos)'
  <2>1. PICK f, p : f = Finals' + 1 /\ p = pos'
    OBVIOUS
  <2>2. Begins(f, p)' <=> Begins(f, p)
    BY BeginsFixed
  <2>3. Begins(Finals + 1, pos)' <=> Begins(f, p)'
    BY <2>1
  <2> QED BY <2>1, <2>2, <2>3
<1> QED BY <1>2, <1>3, <1>4 DEF Place

\* Count after the step, in terms of a request k.
LEMMA CountNext ==
  ASSUME client' = client, NEW k, k = conn'.req,
         conn'.foreign => ~Upright',
         conn'.pc = "lengthRead" => conn'.rd.written = 0,
         conn'.cause = {} /\ conn'.body.exhausted => conn'.fed = BodyUnits(k),
         conn'.cause = {} /\ Reading' /\ conn'.body.exhausted /\ conn'.body.kind = "chunked" => conn'.dec.state = "DONE",
         conn'.cause = {} /\ Handling' => conn'.fed + conn'.rd.written = Bytes(k, pos'),
         conn'.cause = {} /\ Handling' /\ conn'.body.kind = "chunked" =>
           conn'.body.remaining = IF conn'.fed = 0 THEN 0 ELSE Word - conn'.fed
  PROVE  Count'
<1>1. BodyUnits(k)' = BodyUnits(k) /\ Bytes(k, pos)' = Bytes(k, pos')
  BY StreamFixed
<1>2. BodyUnits(conn.req)' = BodyUnits(k) /\ Bytes(conn.req, pos)' = Bytes(k, pos')
  BY <1>1
<1> QED BY <1>2 DEF Count

\* What run() parses with keep-alive on was received.
LEMMA NoZeros == ASSUME Base, conn.keepAlive, conn.pc # "closed" PROVE zeros = 0
<1>1. zeros \in Nat /\ ~(zeros > 0)
  BY TypeFacts DEF Base, Waiting
<1> QED BY <1>1

\* Steps that leave the place in the stream and what is known of the body.
Rests ==
  /\ client' = client /\ pos' = pos /\ conn' \in ConnType
  /\ conn'.req = conn.req /\ conn'.body = conn.body /\ conn'.fed = conn.fed
  /\ conn'.foreign = conn.foreign /\ conn'.cause = conn.cause
  /\ zeros' = 0 => zeros = 0
  /\ Seeking' => Seeking /\ out' = out
  /\ Opening' => Opening
  /\ Reading' => Reading /\ conn'.dec = conn.dec
  /\ Replying' => Replying /\ (conn'.keepAlive => conn.keepAlive)
  /\ Handling' => Handling /\ conn'.rd.written = conn.rd.written
  /\ conn'.pc = "lengthRead" => conn'.rd.written = 0

\* They keep Place and Count.
LEMMA RestsSpot == ASSUME Base, Place, Count, Rests PROVE Place' /\ Count'
<1>0. conn \in ConnType /\ (Upright' <=> Upright)
  BY TypeFacts DEF Rests, Upright
<1>1. PICK k : k = conn.req /\ k = conn'.req
  BY DEF Rests
<1>2. conn'.cause = {} /\ Seeking' => Begins(Finals' + 1, pos')
  <2>1. ASSUME Seeking' PROVE Finals' = Finals
    BY <2>1 DEF Rests, Finals, FinalsUpTo
  <2> QED BY <2>1 DEF Rests, Place
<1>3. Opening' => (Upright' => pos' = HeadOf(k)) /\ conn'.fed = 0
  BY <1>0, <1>1 DEF Rests, Place
<1>4. Reading' /\ zeros' = 0 /\ Upright' => BodyPlace(k)'
  <2>1. Reading' /\ zeros' = 0 /\ Upright' => BodyPlace(k)
    BY <1>0, <1>1 DEF Rests, Place
  <2>2. ASSUME Reading', BodyPlace(k) PROVE BodyPlace(k)'
    BY <1>0, <2>2, BodyPlaceKept DEF Rests
  <2> QED BY <2>1, <2>2
<1>5. Replying' => (conn'.keepAlive /\ conn'.cause = {} => pos' = EndOf(k))
  BY <1>1 DEF Rests, Place
<1>6. Place'
  BY <1>1, <1>2, <1>3, <1>4, <1>5, PlaceNext DEF Rests
<1>7. /\ conn'.foreign => ~Upright'
      /\ conn'.cause = {} /\ conn'.body.exhausted => conn'.fed = BodyUnits(k)
      /\ conn'.cause = {} /\ Reading' /\ conn'.body.exhausted /\ conn'.body.kind = "chunked" => conn'.dec.state = "DONE"
  BY <1>0, <1>1 DEF Rests, Count
<1>8. conn'.cause = {} /\ Handling' => conn'.fed + conn'.rd.written = Bytes(k, pos')
  BY <1>1 DEF Rests, Count
<1>9. conn'.cause = {} /\ Handling' /\ conn'.body.kind = "chunked" =>
           conn'.body.remaining = IF conn'.fed = 0 THEN 0 ELSE Word - conn'.fed
  BY <1>1 DEF Rests, Count
<1>10. client' = client /\ k = conn'.req /\ (conn'.pc = "lengthRead" => conn'.rd.written = 0)
  BY <1>1 DEF Rests
<1>11. Count'
  BY <1>7, <1>8, <1>9, <1>10, CountNext, Zenon
<1> QED BY <1>6, <1>11

\* Which parts of the invariant speak of a label.
LEMMA Regions ==
  ASSUME NEW l, conn'.pc = l
  PROVE  /\ Seeking' <=> l = "head" \/ (l \in {"handshake", "top"} /\ conn'.keepAlive)
         /\ Opening' <=> l \in {"expect", "body"} \/ (l = "send" /\ conn'.resp.kind = "continue")
         /\ Reading' <=> l \in {"handler", "lengthRead", "chunk", "drain", "lengthDrain"}
         /\ Replying' <=> \/ l \in {"answer", "stream", "file"}
                          \/ (l = "send" /\ conn'.resp.kind \notin {"continue", "error"})
         /\ Handling' <=> l \in {"handler", "lengthRead"} \/ (l = "chunk" /\ conn'.rd.who = "handler")
  BY DEF Seeking, Opening, Reading, Replying, Handling

\* The same of the state before the step.
LEMMA Regions0 ==
  ASSUME NEW l, conn.pc = l
  PROVE  /\ Seeking <=> l = "head" \/ (l \in {"handshake", "top"} /\ conn.keepAlive)
         /\ Opening <=> l \in {"expect", "body"} \/ (l = "send" /\ conn.resp.kind = "continue")
         /\ Reading <=> l \in {"handler", "lengthRead", "chunk", "drain", "lengthDrain"}
         /\ Replying <=> \/ l \in {"answer", "stream", "file"}
                          \/ (l = "send" /\ conn.resp.kind \notin {"continue", "error"})
         /\ Handling <=> l \in {"handler", "lengthRead"} \/ (l = "chunk" /\ conn.rd.who = "handler")
  BY DEF Seeking, Opening, Reading, Replying, Handling

\* run() goes on.
LEMMA PassesRests ==
  ASSUME Base, \/ conn.pc \in {"handshake", "top"} /\ conn.keepAlive /\ (Passes("top") \/ Passes("head"))
               \/ conn.pc = "top" /\ Passes("linger")
               \/ conn.pc = "expect" /\ Passes("body")
  PROVE  Rests
<1>1. PICK l \in {"top", "head", "linger", "body"} : Passes(l)
  OBVIOUS
<1>2. conn'.pc = l
  BY <1>1 DEF Passes, Same
<1>3. conn.pc \in {"handshake", "top"} /\ conn.keepAlive => Seeking
  BY DEF Seeking
<1>4. conn.pc = "expect" => Opening
  BY DEF Opening
<1>5. (Seeking' => l \in {"top", "head"}) /\ (Opening' => l = "body") /\ ~Reading' /\ ~Replying' /\ ~Handling'
  BY <1>1, <1>2, Regions
<1>6. l \in {"top", "head"} => conn.pc \in {"handshake", "top"} /\ conn.keepAlive
  BY <1>1, <1>2 DEF Passes, Same
<1>7. l = "body" => conn.pc = "expect"
  BY <1>1, <1>2 DEF Passes, Same
<1> QED BY <1>1, <1>2, <1>3, <1>4, <1>5, <1>6, <1>7 DEF Passes, Same, Calm, Server0, Rests

\* Reads begin, handlers return and answers are announced.
LEMMA StepRests ==
  ASSUME Base, Count, ToContinue \/ StartRead("handler") \/ StartRead("drain") \/ ToDrain \/ Announce \/ ToSend
  PROVE  Rests
<1>c. /\ client' = client /\ pos' = pos /\ out' = out /\ zeros' = zeros /\ Kept
  BY DEF ToContinue, StartRead, ToDrain, Announce, ToSend, Calm, Server0
<1>k. /\ conn' \in ConnType /\ conn'.req = conn.req /\ conn'.cause = conn.cause
  BY <1>c DEF Kept
<1>1. CASE ToContinue
  <2>1. conn.pc = "expect" /\ conn'.pc = "send" /\ conn'.resp.kind = "continue"
    BY <1>1 DEF ToContinue
  <2>2. ~Seeking' /\ Opening /\ ~Reading' /\ ~Replying' /\ ~Handling'
    BY <2>1, Regions, Regions0
  <2> QED BY <1>1, <1>c, <1>k, <2>1, <2>2 DEF ToContinue, Rests
<1>2. CASE StartRead("handler")
  <2>1. conn.pc = "handler" /\ conn'.pc \in {"lengthRead", "chunk"} /\ conn'.rd.written = 0
    BY <1>2 DEF StartRead
  <2>2. ~Seeking' /\ ~Opening' /\ Reading /\ ~Replying' /\ Handling
    BY <2>1, Regions, Regions0
  <2>3. conn.rd.written = 0
    BY <2>1 DEF Base, Control, NoRead
  <2> QED BY <1>2, <1>c, <1>k, <2>1, <2>2, <2>3 DEF StartRead, Rests
<1>3. CASE StartRead("drain")
  <2>1. conn.pc = "drain" /\ conn'.pc \in {"lengthDrain", "chunk"} /\ conn'.rd.who = "drain"
    BY <1>3 DEF StartRead
  <2>2. ~Seeking' /\ ~Opening' /\ Reading /\ ~Replying' /\ ~Handling'
    BY <2>1, Regions, Regions0
  <2> QED BY <1>3, <1>c, <1>k, <2>1, <2>2 DEF StartRead, Rests
<1>4. CASE ToDrain
  <2>1. conn.pc = "handler" /\ conn'.pc = "drain"
    BY <1>4 DEF ToDrain
  <2>2. ~Seeking' /\ ~Opening' /\ Reading /\ ~Replying' /\ ~Handling'
    BY <2>1, Regions, Regions0
  <2>3. conn.keepAlive
    BY <2>1 DEF Base, Control
  <2> QED BY <1>4, <1>c, <1>k, <2>1, <2>2, <2>3 DEF ToDrain, Rests
<1>5. CASE Announce
  <2>1. conn.pc = "answer" /\ conn'.pc = "send" /\ conn'.resp.kind # "continue"
    BY <1>5 DEF Announce
  <2>2. ~Seeking' /\ ~Opening' /\ ~Reading' /\ Replying /\ ~Handling'
    BY <2>1, Regions, Regions0
  <2> QED BY <1>5, <1>c, <1>k, <2>1, <2>2 DEF Announce, Rests
<1>6. CASE ToSend
  <2>1. conn.pc = "stream" /\ conn'.pc = "send" /\ conn'.resp.kind # "continue"
    BY <1>6 DEF ToSend, LaterKinds
  <2>2. ~Seeking' /\ ~Opening' /\ ~Reading' /\ Replying /\ ~Handling'
    BY <2>1, Regions, Regions0
  <2> QED BY <1>6, <1>c, <1>k, <2>1, <2>2 DEF ToSend, Rests
<1> QED BY <1>1, <1>2, <1>3, <1>4, <1>5, <1>6

\* A request is refused.
LEMMA FailRests == ASSUME Base, Fail PROVE Rests
<1>1. conn'.pc = "send" /\ conn'.resp.kind = "error"
  BY DEF Fail
<1>2. ~Seeking' /\ ~Opening' /\ ~Reading' /\ ~Replying' /\ ~Handling'
  BY <1>1, Regions
<1> QED BY <1>1, <1>2 DEF Fail, Server0, Rests

\* drain() drops what it has read.
LEMMA DroppedRests == ASSUME Base, Dropped PROVE Rests
<1>1. conn.pc = "chunk" /\ conn'.pc = "chunk" /\ conn'.rd.who = "drain"
  BY DEF Dropped, Turns
<1>2. ~Seeking' /\ ~Opening' /\ Reading /\ ~Replying' /\ ~Handling'
  BY <1>1, Regions, Regions0
<1> QED BY <1>1, <1>2 DEF Dropped, Turns, Calm, Server0, Rests

\* Waits and wake-ups.
LEMMA WaitRests == ASSUME Base, Count, Suspend \/ Resume PROVE Rests
<1>0. conn'.pc = conn.pc /\ conn'.keepAlive = conn.keepAlive /\ conn'.resp = conn.resp /\ conn'.rd.who = conn.rd.who
      /\ conn'.rd.written = conn.rd.written /\ conn'.dec = conn.dec /\ out' = out
  BY DEF Suspend, Resume, Read, Server0
<1>1. Seeking' = Seeking /\ Opening' = Opening /\ Reading' = Reading /\ Replying' = Replying /\ Handling' = Handling
  BY <1>0 DEF Seeking, Opening, Reading, Replying, Handling
<1>2. conn'.pc = "lengthRead" => conn'.rd.written = 0
  BY <1>0 DEF Count
<1>3. CASE Suspend
  BY <1>0, <1>1, <1>2, <1>3, TypeFacts DEF Suspend, Server0, Rests
<1>4. CASE Resume
  BY <1>0, <1>1, <1>2, <1>4 DEF Resume, Read, Server0, Rests
<1> QED BY <1>3, <1>4

\* An exception in the middle of a body.
LEMMA ReadBreaksRests == ASSUME Base, ReadBreaks PROVE Rests
<1>1. conn.pc \in {"lengthRead", "chunk"} /\ conn'.pc = "drain"
  BY DEF ReadBreaks, Broken
<1>2. ~Seeking' /\ ~Opening' /\ Reading /\ ~Replying' /\ ~Handling'
  BY <1>1, Regions, Regions0
<1>3. zeros' = 0 => zeros = 0
  BY TypeFacts DEF ReadBreaks, Read
<1> QED BY <1>1, <1>2, <1>3 DEF ReadBreaks, Broken, Read, Server0, Rests

\* Writes that do not end an answer.
LEMMA SentRests ==
  ASSUME Base, ErrorSent \/ ContinueSent \/ HeadSent \/ ChunkSent \/ StreamErrorSent \/ SendFails
  PROVE  Rests
<1>0. Wrote /\ conn.pc = "send" /\ client' = client /\ pos' = pos /\ zeros' = zeros
  BY DEF ErrorSent, ContinueSent, HeadSent, ChunkSent, StreamErrorSent, SendFails, Wrote
<1>1. CASE ErrorSent
  <2>1. Same("linger") /\ conn'.pc = "linger"
    BY <1>1 DEF ErrorSent, Same
  <2>2. ~Seeking' /\ ~Opening' /\ ~Reading' /\ ~Replying' /\ ~Handling'
    BY <2>1, Regions
  <2> QED BY <1>0, <2>1, <2>2 DEF Same, Rests
<1>2. CASE ContinueSent
  <2>1. Same("body") /\ conn'.pc = "body" /\ conn.resp.kind = "continue"
    BY <1>2 DEF ContinueSent, Same
  <2>2. ~Seeking' /\ Opening /\ ~Reading' /\ ~Replying' /\ ~Handling'
    BY <1>0, <2>1, Regions, Regions0
  <2> QED BY <1>0, <2>1, <2>2 DEF Same, Rests
<1>3. CASE HeadSent \/ ChunkSent
  <2>1. PICK l \in {"stream", "file"} : Same(l) /\ conn'.pc = l
    BY <1>3 DEF HeadSent, ChunkSent, Same
  <2>2. Replying
    BY <1>0, <1>3, Regions0 DEF HeadSent, ChunkSent
  <2>3. ~Seeking' /\ ~Opening' /\ ~Reading' /\ ~Handling'
    BY <2>1, Regions
  <2> QED BY <1>0, <2>1, <2>2, <2>3 DEF Same, Rests
<1>4. CASE StreamErrorSent \/ SendFails
  <2>1. Shut /\ conn'.pc = "closed"
    BY <1>4 DEF StreamErrorSent, SendFails, Shut
  <2>2. ~Seeking' /\ ~Opening' /\ ~Reading' /\ ~Replying' /\ ~Handling'
    BY <2>1, Regions
  <2> QED BY <1>0, <2>1, <2>2 DEF Shut, Rests
<1> QED BY <1>1, <1>2, <1>3, <1>4

\* run() returns.
LEMMA CloseSpot == ASSUME Base, Place, Count, Close PROVE Place' /\ Count'
<1>1. /\ client' = client /\ conn'.req = conn.req /\ conn'.body = conn.body /\ conn'.fed = conn.fed
      /\ conn'.foreign = conn.foreign /\ conn'.cause = conn.cause /\ conn'.pc = "closed"
  BY DEF Close, Read, Server0
<1>2. ~Seeking' /\ ~Opening' /\ ~Reading' /\ ~Replying' /\ ~Handling' /\ (Upright' <=> Upright)
  BY <1>1, Regions DEF Upright
<1>3. PICK k : k = conn.req /\ k = conn'.req
  BY <1>1
<1>4. Place'
  BY <1>1, <1>2, <1>3, PlaceNext
<1>5. Count'
  BY <1>1, <1>2, <1>3, CountNext DEF Count
<1> QED BY <1>4, <1>5

\* The body of a request, by its framing.
LEMMA FramingOf ==
  ASSUME client \in Clients, NEW k \in 1..Len(requests)
  PROVE  /\ HeadOf(k) \in Nat /\ EndOf(k) \in Nat /\ HeadOf(k) > 0 /\ HeadOf(k) <= EndOf(k) /\ EndOf(k) <= Len(stream)
         /\ Len(stream) \in Nat
         /\ \A i \in Nat : HeadOf(k) <= i /\ i <= EndOf(k) => stream[i].r = k /\ i \in 1..Len(stream)
         /\ requests[k].framing = "none" => EndOf(k) = HeadOf(k)
         /\ requests[k].framing = "length" =>
              EndOf(k) = HeadOf(k) + requests[k].len /\ \A i \in (HeadOf(k) + 1)..EndOf(k) : stream[i].t = "byte"
         /\ requests[k].framing = "chunked" =>
              /\ HeadOf(k) < EndOf(k) /\ stream[EndOf(k)].t = "crlf"
              /\ stream[HeadOf(k) + 1].t = "size" <=> ~requests[k].broken
              /\ requests[k].broken \/ \A i \in (HeadOf(k) + 1)..EndOf(k) :
                   stream[i].t = "size" => IsChunk(stream, requests[k].chunks, i, EndOf(k))
<1>1. /\ HeadOf(k) \in 1..Len(stream) /\ EndOf(k) \in 1..Len(stream) /\ FirstOf(k) \in 1..Len(stream)
      /\ IsMessage(stream, k, requests[k], FirstOf(k), HeadOf(k), EndOf(k))
  BY MessageOf
<1>2. FirstOf(k) <= HeadOf(k) /\ HeadOf(k) <= EndOf(k)
  BY Units
<1>l. Len(stream) \in Nat
  BY TheClient
<1>3. \A i \in Nat : HeadOf(k) <= i /\ i <= EndOf(k) => stream[i].r = k /\ i \in 1..Len(stream)
  <2> SUFFICES ASSUME NEW i \in Nat, HeadOf(k) <= i, i <= EndOf(k) PROVE stream[i].r = k /\ i \in 1..Len(stream)
    OBVIOUS
  <2>1. i \in 1..Len(stream) /\ FirstOf(k) <= i
    BY <1>1, <1>2, <1>l
  <2> QED BY <2>1, Units
<1>4. CASE requests[k].framing = "none"
  BY <1>1, <1>2, <1>l, <1>3, <1>4 DEF IsMessage
<1>5. CASE requests[k].framing = "length"
  BY <1>1, <1>2, <1>l, <1>3, <1>5 DEF IsMessage
<1>6. CASE requests[k].framing = "chunked"
  <2>1. /\ HeadOf(k) < EndOf(k) /\ stream[EndOf(k)].t = "crlf"
        /\ stream[HeadOf(k) + 1].t = "size" <=> ~requests[k].broken
        /\ requests[k].broken \/ \A i \in (HeadOf(k) + 1)..EndOf(k) :
             stream[i].t = "size" => IsChunk(stream, requests[k].chunks, i, EndOf(k))
    BY <1>1, <1>6 DEF IsMessage
  <2> QED BY <1>1, <1>2, <1>l, <1>3, <1>6, <2>1
<1>7. CASE requests[k].framing \notin {"none", "length", "chunked"}
  BY <1>1, <1>2, <1>l, <1>3, <1>7
<1> QED BY <1>4, <1>5, <1>6, <1>7

\* A dropped CRLF belongs to the request that is about to begin.
LEMMA StripSpot == ASSUME Base, Place, Count, Strip PROVE Place' /\ Count'
<1>1. /\ client' = client /\ out' = out /\ conn' = conn /\ conn.pc = "head" /\ pos' = pos + 1 /\ pos < taken
      /\ stream[pos + 1].t = "crlf"
  BY DEF Strip, Calm, Server0
<1>2. Seeking /\ ~Opening' /\ ~Reading' /\ ~Replying' /\ ~Handling' /\ (Upright' <=> Upright) /\ Finals' = Finals
  BY <1>1, Regions, Regions0 DEF Upright, Finals, FinalsUpTo
<1>3. ASSUME conn.cause = {} PROVE Begins(Finals + 1, pos + 1)
  <2>1. Begins(Finals + 1, pos)
    BY <1>2, <1>3 DEF Place
  <2>2. Finals + 1 \in Nat /\ Finals + 1 > 0
    BY FinalsNat, TypeFacts DEF Finals
  <2>3. pos \in Nat /\ pos < Len(stream) /\ client \in Clients
    BY <1>1, TypeFacts
  <2> QED BY <1>1, <2>1, <2>2, <2>3, StripKeepsBegins
<1>4. PICK k : k = conn.req /\ k = conn'.req
  BY <1>1
<1>5. Place'
  BY <1>1, <1>2, <1>3, <1>4, PlaceNext
<1>6. Count'
  BY <1>1, <1>2, <1>4, CountNext DEF Count
<1> QED BY <1>5, <1>6

\* A head that is found where a request begins is the head of that request.
LEMMA HeadOfNext ==
  ASSUME Base, HeadOk, NEW k \in Nat, k > 0, Begins(k, pos)
  PROVE  k \in 1..Len(requests) /\ pos' = HeadOf(k) /\ conn'.req = k
<1>1. /\ BlankLines # {} /\ pos' = pos + Min(BlankLines) /\ pos' <= taken /\ pos' \in Nat
      /\ conn'.req = stream[pos'].r /\ conn.pc = "head"
  BY DEF HeadOk
<1>2. client \in Clients /\ pos \in Nat /\ taken \in Nat /\ taken <= Len(stream) /\ Len(stream) \in Nat /\ Len(requests) \in Nat
  BY TypeFacts
<1>3. zeros = 0
  <2>1. conn.keepAlive /\ conn.pc # "closed"
    BY <1>1 DEF Base, Control
  <2> QED BY <2>1, NoZeros
<1>4. Min(BlankLines) \in BlankLines
  <2>1. BlankLines \in SUBSET Nat
    BY DEF BlankLines, ReadBufferSize
  <2> QED BY <1>1, <2>1, MinIsThere
<1>5. Min(BlankLines) \in Nat /\ Min(BlankLines) >= 1 /\ ReadBufferSize > 0
  BY <1>4, TypeFacts DEF BlankLines
<1>6. k \in 1..Len(requests)
  <2>1. pos < Len(stream)
    BY <1>1, <1>2, <1>5
  <2>2. ~(k > Len(requests))
    BY <1>2, <2>1 DEF Begins
  <2> QED BY <1>2, <2>2
<1>7. Unit(1) # "crlf"
  BY <1>5 DEF HeadOk
<1>8. pos' = HeadOf(k)
  BY <1>1, <1>2, <1>3, <1>6, <1>7, FirstBlankLine
<1>9. stream[HeadOf(k)].r = k
  BY <1>2, <1>6, FramingOf
<1> QED BY <1>1, <1>6, <1>8, <1>9

\* The head is the one of the next request, or the place was lost before.
LEMMA HeadOkSpot == ASSUME Base, Order, Place, Count, HeadOk PROVE Place' /\ Count' /\ Order'
<1>1. /\ client' = client /\ out' = out /\ conn'.pc = "expect" /\ conn.pc = "head" /\ conn'.fed = 0
      /\ conn'.cause = conn.cause \cup IF AtBoundary(pos) THEN {} ELSE {"astray"}
      /\ conn'.body = conn.body /\ conn'.foreign = conn.foreign
  BY DEF HeadOk, Calm, Server0
<1>2. /\ ~Seeking' /\ ~Reading' /\ ~Replying' /\ ~Handling' /\ Seeking
      /\ (Upright' => Upright /\ AtBoundary(pos)) /\ (conn'.cause = {} => conn.cause = {}) /\ (conn'.cause = {} => Upright')
  BY <1>1, Regions, Regions0 DEF Upright
<1>3. conn.body = NoBody
  BY <1>1 DEF Base, Control
<1>4. PICK k : k = conn'.req
  OBVIOUS
<1>t. client \in Clients /\ pos \in Nat /\ taken <= sent /\ sent <= Len(stream) /\ Len(stream) \in Nat /\ taken \in Nat /\ sent \in Nat
  BY TypeFacts
<1>5. ASSUME Upright' PROVE pos' = HeadOf(k)
  <2>1. pos < Len(stream)
    <3>1. Min(BlankLines) \in BlankLines
      <4>1. BlankLines \in SUBSET Nat /\ BlankLines # {}
        BY DEF BlankLines, ReadBufferSize, HeadOk
      <4> QED BY <4>1, MinIsThere
    <3>2. Min(BlankLines) \in Nat /\ Min(BlankLines) >= 1
      BY <3>1, TypeFacts DEF BlankLines
    <3>3. pos' = pos + Min(BlankLines) /\ pos' <= taken
      BY DEF HeadOk
    <3> QED BY <1>t, <3>2, <3>3
  <2>2. stream[pos + 1].r \in 1..Len(requests) /\ Begins(stream[pos + 1].r, pos)
    BY <1>2, <1>5, <1>t, <2>1, BoundaryBegins
  <2>3. PICK j \in 1..Len(requests) : Begins(j, pos)
    BY <2>2
  <2>4. j \in Nat /\ j > 0
    BY TypeFacts
  <2> QED BY <1>4, <2>3, <2>4, HeadOfNext
<1>6. Place'
  BY <1>1, <1>2, <1>4, <1>5, PlaceNext
<1>7. ~conn'.body.exhausted
  BY <1>1, <1>3 DEF NoBody
<1>8. conn'.foreign => ~Upright'
  BY <1>1, <1>2 DEF Count
<1>9. Count'
  BY <1>1, <1>2, <1>4, <1>7, <1>8, CountNext
<1>10. ASSUME conn'.cause = {} PROVE conn'.req = Finals + 1
  <2>1. Begins(Finals + 1, pos)
    BY <1>2, <1>10 DEF Place
  <2>2. Finals + 1 \in Nat /\ Finals + 1 > 0
    BY FinalsNat, TypeFacts DEF Finals
  <2>3. PICK j \in Nat : j = Finals + 1
    BY <2>2
  <2> QED BY <2>1, <2>2, <2>3, HeadOfNext
<1>11. ~InAnswer'
  BY <1>1 DEF InAnswer
<1>12. \A i : FinalsUpTo(out, i)' = FinalsUpTo(out, i)
  BY <1>1 DEF FinalsUpTo
<1>13. Order'
  BY <1>1, <1>2, <1>10, <1>11, <1>12 DEF Order, Finals
<1> QED BY <1>6, <1>9, <1>13

\* The body begins after the head, and the stream remains to be read.
LEMMA AttachSpot == ASSUME Base, Place, Count, Attach PROVE Place' /\ Count'
<1>1. /\ client' = client /\ out' = out /\ pos' = pos /\ zeros' = zeros /\ conn.pc = "body" /\ conn'.pc = "handler"
      /\ conn'.req = conn.req /\ conn'.cause = conn.cause /\ conn'.fed = conn.fed /\ conn'.foreign = conn.foreign
      /\ conn'.dec = conn.dec /\ conn'.rd = conn.rd /\ conn'.body.kind = Req.framing /\ conn'.body.exhausted = FALSE
      /\ conn'.body.kind = "length" => conn'.body.remaining = Req.len /\ Req.len <= MaxContent
      /\ conn'.body.kind # "length" => conn'.body.remaining = 0
      /\ conn' \in ConnType
  BY ConnFacts DEF Attach, Kept, Calm, Server0, ConnType, BodyType
<1>2. /\ ~Seeking' /\ ~Opening' /\ Reading' /\ ~Replying' /\ Handling' /\ Opening /\ (Upright' <=> Upright)
      /\ (conn'.cause = {} => Upright)
  BY <1>1, Regions, Regions0 DEF Upright
<1>3. conn.dec = NewDecoder /\ conn.rd = NoRead /\ conn.fed = 0
  BY <1>1, <1>2 DEF Base, Control, Place
<1>4. PICK k : k = conn.req /\ k = conn'.req
  BY <1>1
<1>5. k \in 1..Len(requests) /\ client \in Clients /\ Req = requests[k] /\ Req \in RequestType
  BY <1>1, <1>4, ReqFacts, TypeFacts DEF InRequest, Req
<1>6. Upright => pos = HeadOf(k)
  BY <1>2, <1>4 DEF Place
<1>7. Bytes(k, HeadOf(k)) = 0
  BY <1>5, BytesInHead
<1>f. /\ HeadOf(k) \in Nat /\ EndOf(k) \in Nat /\ HeadOf(k) <= EndOf(k)
      /\ requests[k].framing = "none" => EndOf(k) = HeadOf(k)
      /\ requests[k].framing = "length" => EndOf(k) = HeadOf(k) + requests[k].len
      /\ requests[k].framing = "chunked" =>
           /\ HeadOf(k) < EndOf(k)
           /\ stream[HeadOf(k) + 1].t = "size" <=> ~requests[k].broken
  BY <1>5, FramingOf
<1>s. /\ stream' = stream /\ requests' = requests /\ EndOf(k)' = EndOf(k) /\ HeadOf(k)' = HeadOf(k)
      /\ BadChunks(k)' = BadChunks(k) /\ Bytes(k, pos)' = Bytes(k, pos')
  BY <1>1, StreamFixed
<1>8. ASSUME Upright' PROVE BodyPlace(k)'
  <2>0. pos' = HeadOf(k)
    BY <1>1, <1>2, <1>6, <1>8
  <2>1. CASE conn'.body.kind = "none"
    BY <1>1, <1>5, <1>f, <1>s, <2>0, <2>1 DEF BodyPlace
  <2>2. CASE conn'.body.kind = "length"
    <3>1. LengthPlace(k)'
      BY <1>1, <1>5, <1>f, <1>s, <2>0, <2>2 DEF LengthPlace
    <3> QED BY <2>2, <3>1 DEF BodyPlace
  <2>3. CASE conn'.body.kind = "chunked"
    <3>1. conn'.dec.state = "CHUNK_SIZE" /\ conn'.dec.total = 0
      BY <1>1, <1>3 DEF NewDecoder
    <3>2. Within(k)' /\ Bytes(k, pos)' = 0 /\ 0 <= MaxTE
      BY <1>1, <1>5, <1>f, <1>s, <1>7, <2>0, <2>3, Constants DEF Within
    <3>3. CASE requests[k].broken
      <4>1. BadChunks(k)
        BY <1>1, <1>5, <2>3, <3>3 DEF BadChunks
      <4>2. Stuck(k)'
        BY <1>1, <1>5, <1>f, <1>s, <2>0, <2>3, <3>2, <3>3, <4>1 DEF Stuck
      <4> QED BY <2>3, <3>1, <4>2 DEF BodyPlace, DecoderPlace
    <3>4. CASE ~requests[k].broken
      <4>1. AtSize(k)'
        BY <1>1, <1>5, <1>f, <1>s, <2>0, <2>3, <3>1, <3>2, <3>4 DEF AtSize
      <4> QED BY <2>3, <3>1, <4>1 DEF BodyPlace, DecoderPlace
    <3> QED BY <3>3, <3>4
  <2>4. conn'.body.kind \in {"none", "length", "chunked"}
    BY <1>1 DEF ConnType, BodyType
  <2> QED BY <2>1, <2>2, <2>3, <2>4
<1>9. Place'
  BY <1>1, <1>2, <1>4, <1>8, PlaceNext
<1>10. conn'.foreign => ~Upright'
  BY <1>1, <1>2 DEF Count
<1>11. conn'.fed = 0 /\ conn'.rd.written = 0
  BY <1>1, <1>3 DEF NoRead
<1>12. conn'.cause = {} => conn'.fed + conn'.rd.written = Bytes(k, pos')
  BY <1>1, <1>2, <1>6, <1>7, <1>11
<1>13. conn'.body.kind = "chunked" => conn'.body.remaining = IF conn'.fed = 0 THEN 0 ELSE Word - conn'.fed
  BY <1>1, <1>11
<1>14. ~conn'.body.exhausted /\ conn'.pc # "lengthRead"
  BY <1>1
<1>15. Count'
  BY <1>1, <1>4, <1>10, <1>12, <1>13, <1>14, CountNext
<1> QED BY <1>9, <1>15

\* In the body of a request.
LEMMA InTheBody ==
  ASSUME Base, Reading
  PROVE  /\ conn.req \in 1..Len(requests) /\ client \in Clients /\ Req = requests[conn.req]
         /\ conn.body.kind = requests[conn.req].framing /\ conn.body.kind \in {"none", "length", "chunked"}
         /\ conn.pc # "closed"
<1>1. InRequest /\ conn.pc # "closed"
  BY DEF Reading, InRequest
<1>2. conn.body.kind = Req.framing
  BY DEF Base, Control, Reading
<1> QED BY <1>1, <1>2, ReqFacts, TypeFacts, ConnFacts DEF Req

\* A read of a request without a body.
LEMMA NothingToReadSpot == ASSUME Base, Place, Count, NothingToRead PROVE Place' /\ Count'
<1>1. /\ client' = client /\ out' = out /\ pos' = pos /\ zeros' = zeros /\ conn.pc = "handler" /\ conn'.pc \in {"handler", "drain"}
      /\ conn'.req = conn.req /\ conn'.cause = conn.cause /\ conn'.fed = conn.fed /\ conn'.foreign = conn.foreign
      /\ conn'.body.kind = "none" /\ conn.body.kind = "none" /\ conn'.rd = NoRead
  BY DEF NothingToRead, Calm, Server0
<1>2. /\ ~Seeking' /\ ~Opening' /\ Reading' /\ ~Replying' /\ Handling /\ Reading /\ (Upright' <=> Upright)
      /\ (conn'.cause = {} => Upright)
  BY <1>1, Regions, Regions0 DEF Upright
<1>3. conn.rd.written = 0 /\ conn'.rd.written = 0 /\ zeros = 0
  BY <1>1, NoZeros DEF Base, Control, NoRead
<1>4. PICK k : k = conn.req /\ k = conn'.req
  BY <1>1
<1>5. Upright => pos = EndOf(k)
  BY <1>1, <1>2, <1>3, <1>4 DEF BodyPlace, Place
<1>6. EndOf(k)' = EndOf(k)
  BY <1>1, StreamFixed
<1>7. Upright' => BodyPlace(k)'
  BY <1>1, <1>2, <1>5, <1>6 DEF BodyPlace
<1>8. Place'
  BY <1>1, <1>2, <1>4, <1>7, PlaceNext
<1>9. conn.cause = {} => conn.fed + 0 = Bytes(k, pos)
  BY <1>2, <1>3, <1>4 DEF Count
<1>10. Bytes(k, EndOf(k)) = BodyUnits(k) /\ conn.fed \in Nat
  BY <1>2, <1>4, InTheBody, BytesAtEnd, TypeFacts, ConnFacts
<1>11. conn'.cause = {} => conn'.fed = BodyUnits(k)
  BY <1>1, <1>2, <1>5, <1>9, <1>10
<1>12. (conn'.foreign => ~Upright') /\ conn'.pc # "lengthRead" /\ conn'.body.kind # "chunked"
  BY <1>1, <1>2 DEF Count
<1>13. conn'.cause = {} => conn'.fed + conn'.rd.written = Bytes(k, pos')
  BY <1>1, <1>3, <1>9
<1>14. Count'
  BY <1>1, <1>4, <1>11, <1>12, <1>13, CountNext
<1> QED BY <1>8, <1>14

\* The body is done with.
LEMMA BodyDone ==
  ASSUME Base, Place, Count, Reading, conn.keepAlive, conn.cause = {},
         conn.body.exhausted \/ conn.body.kind = "none" \/ (conn.body.kind = "chunked" /\ conn.dec.state = "DONE")
  PROVE  pos = EndOf(conn.req)
<1>1. zeros = 0 /\ Upright /\ conn.body.kind \in {"none", "length", "chunked"}
  BY NoZeros, InTheBody DEF Upright
<1>2. BodyPlace(conn.req)
  BY <1>1 DEF Place
<1>3. CASE conn.body.kind = "none"
  BY <1>2, <1>3 DEF BodyPlace
<1>4. CASE conn.body.kind = "length"
  BY <1>2, <1>4 DEF BodyPlace, LengthPlace
<1>5. CASE conn.body.kind = "chunked"
  <2>1. conn.dec.state = "DONE"
    BY <1>5 DEF Count
  <2>2. DecoderPlace(conn.req)
    BY <1>2, <1>5 DEF BodyPlace
  <2> QED BY <2>1, <2>2 DEF DecoderPlace
<1> QED BY <1>1, <1>3, <1>4, <1>5

\* The step to the answer.
LEMMA AnsweringSpot ==
  ASSUME Base, Place, Count, client' = client, conn'.pc = "answer", conn'.req = conn.req, conn'.body = conn.body,
         conn'.fed = conn.fed, conn'.foreign = conn.foreign, conn'.cause = conn.cause, conn'.keepAlive = conn.keepAlive,
         conn.keepAlive /\ conn.cause = {} => pos' = EndOf(conn.req)
  PROVE  Place' /\ Count'
<1>1. ~Seeking' /\ ~Opening' /\ ~Reading' /\ ~Handling' /\ (Upright' <=> Upright)
  BY Regions DEF Upright
<1>2. PICK k : k = conn.req /\ k = conn'.req
  OBVIOUS
<1>3. Place'
  BY <1>1, <1>2, PlaceNext
<1>4. /\ conn'.foreign => ~Upright'
      /\ conn'.cause = {} /\ conn'.body.exhausted => conn'.fed = BodyUnits(k)
  BY <1>1, <1>2 DEF Count
<1>5. Count'
  BY <1>1, <1>2, <1>4, CountNext
<1> QED BY <1>3, <1>5

\* drain() ends at the end of the request.
LEMMA DrainedSpot ==
  ASSUME Base, Place, Count,
         \/ Drained
         \/ conn.pc = "drain" /\ (conn.body.exhausted \/ conn.body.kind = "none") /\ Passes("answer")
  PROVE  Place' /\ Count'
<1>1. /\ client' = client /\ conn'.pc = "answer" /\ conn'.req = conn.req /\ conn'.body = conn.body /\ pos' = pos
      /\ conn'.fed = conn.fed /\ conn'.foreign = conn.foreign /\ conn'.cause = conn.cause /\ conn'.keepAlive = conn.keepAlive
  BY DEF Drained, Passes, Same, Kept, Calm, Server0
<1>2. Reading
  BY DEF Drained, Reading
<1>3. conn.body.exhausted \/ conn.body.kind = "none" \/ (conn.body.kind = "chunked" /\ conn.dec.state = "DONE")
  BY DEF Drained, Base, Control
<1> QED BY <1>1, <1>2, <1>3, BodyDone, AnsweringSpot

\* drainFn skips to the end of the request.
LEMMA SkipsSpot == ASSUME Base, Place, Count, Skips PROVE Place' /\ Count'
<1>1. /\ client' = client /\ conn'.pc = "answer" /\ conn'.req = conn.req /\ conn'.body = conn.body
      /\ pos' = pos + conn.body.remaining /\ conn.pc = "lengthDrain"
      /\ conn'.fed = conn.fed /\ conn'.foreign = conn.foreign /\ conn'.cause = conn.cause /\ conn'.keepAlive = conn.keepAlive
  BY DEF Skips, Same, Calm, Server0
<1>2. Reading /\ conn.body.kind = "length" /\ ~conn.body.exhausted
  BY <1>1 DEF Reading, Base, Control
<1>3. ASSUME conn.keepAlive, conn.cause = {} PROVE pos' = EndOf(conn.req)
  <2>1. zeros = 0 /\ Upright
    BY <1>1, <1>3, NoZeros DEF Upright
  <2>2. LengthPlace(conn.req)
    BY <1>2, <2>1 DEF BodyPlace, Place
  <2> QED BY <1>1, <1>2, <2>2 DEF LengthPlace
<1> QED BY <1>1, <1>3, AnsweringSpot

\* The answer is out: the next request begins here.
LEMMA RenewedSpot ==
  ASSUME Base, Place, Count, client' = client, pos' = pos, Renewed, Replying, InRequest,
         conn.cause = {} => conn.req = FinalsUpTo(out', Len(out'))
  PROVE  Place' /\ Count'
<1>1. /\ conn'.pc = "top" /\ conn'.keepAlive = conn.keepAlive /\ conn'.cause = conn.cause /\ conn'.foreign = conn.foreign
      /\ conn'.body = NoBody
  BY DEF Renewed
<1>2. ~Opening' /\ ~Reading' /\ ~Replying' /\ ~Handling' /\ (Upright' <=> Upright) /\ (Seeking' => conn.keepAlive)
  BY <1>1, Regions DEF Upright
<1>3. ASSUME conn.keepAlive, conn.cause = {} PROVE Begins(Finals' + 1, pos')
  <2>1. pos = EndOf(conn.req)
    BY <1>3 DEF Place
  <2>2. conn.req \in 1..Len(requests) /\ client \in Clients
    BY ReqFacts, TypeFacts
  <2>3. Begins(conn.req + 1, EndOf(conn.req))
    BY <2>2, NextBegins
  <2>4. Finals' = conn.req
    BY <1>3 DEF Finals, FinalsUpTo
  <2> QED BY <2>1, <2>3, <2>4
<1>4. PICK k : k = conn'.req
  OBVIOUS
<1>5. Place'
  BY <1>1, <1>2, <1>3, <1>4, PlaceNext
<1>6. (conn'.foreign => ~Upright') /\ ~conn'.body.exhausted
  BY <1>1, <1>2 DEF Count, NoBody
<1>7. Count'
  BY <1>1, <1>2, <1>4, <1>6, CountNext
<1> QED BY <1>5, <1>7

\* A whole answer is out,
LEMMA AnswerSentSpot == ASSUME Base, Order, Place, Count, AnswerSent PROVE Place' /\ Count' /\ Order'
<1>1. client' = client /\ pos' = pos /\ Renewed /\ conn.pc = "send" /\ conn.resp.kind \in {"plain", "cachedFile", "smallFile"}
  BY DEF AnswerSent, Wrote
<1>2. Replying /\ InRequest
  BY <1>1 DEF Replying, InRequest
<1> QED BY <1>1, <1>2, AnswerSentOrder, RenewedSpot

\* or the end of one.
LEMMA LastSentSpot == ASSUME Base, Sequel, Order, Place, Count, LastSent PROVE Place' /\ Count' /\ Order'
<1>1. client' = client /\ pos' = pos /\ Renewed /\ (conn.pc = "file" \/ (conn.pc = "send" /\ conn.resp.kind = "lastChunk"))
  BY DEF LastSent, Wrote
<1>2. Replying /\ InRequest
  BY <1>1 DEF Replying, InRequest
<1> QED BY <1>1, <1>2, LastSentOrder, RenewedSpot

\* Units inside the body are units of the request.
LEMMA NotForeign ==
  ASSUME client \in Clients, NEW n \in Nat, NEW received \in Nat, pos \in Nat, pos + n <= received,
         conn.req \in 1..Len(requests), HeadOf(conn.req) <= pos, pos + n <= EndOf(conn.req),
         \A i \in (pos + 1)..(pos + n) : stream[i].t = "byte"
  PROVE  /\ ~Foreign(n, received)
         /\ Bytes(conn.req, pos + n) = Bytes(conn.req, pos) + n
<1>1. PICK k : k = conn.req
  OBVIOUS
<1>2. \A i \in Nat : HeadOf(k) <= i /\ i <= EndOf(k) => stream[i].r = k
  BY <1>1, FramingOf
<1>3. HeadOf(k) \in Nat /\ EndOf(k) \in Nat
  BY <1>1, FramingOf
<1>4. \A i \in (pos + 1)..(pos + n) : stream[i].r = k /\ stream[i].t = "byte"
  BY <1>1, <1>2, <1>3
<1>5. ~Foreign(n, received)
  <2> SUFFICES ASSUME NEW i \in 1..n PROVE ~(pos + i > received) /\ stream[pos + i].t = "byte" /\ stream[pos + i].r = conn.req
    BY DEF Foreign
  <2>1. pos + i \in (pos + 1)..(pos + n) /\ ~(pos + i > received)
    OBVIOUS
  <2> QED BY <1>1, <1>4, <2>1
<1>6. Bytes(k, pos + n) = Bytes(k, pos) + n
  BY <1>4, BytesGrow
<1> QED BY <1>1, <1>5, <1>6

\* readFn feeds units of the body, or the loss is recorded.
LEMMA CopiesSpot == ASSUME Base, Place, Count, NEW n \in Nat, Copies(n) PROVE Place' /\ Count'
<1>1. /\ client' = client /\ out' = out /\ zeros' = zeros /\ conn.pc = "lengthRead" /\ pos' = pos + n /\ pos' <= taken' + zeros'
      /\ Returned(n) /\ conn'.foreign = (conn.foreign \/ Foreign(n, taken')) /\ conn'.cause = conn.cause \cup Lost(n)
      /\ taken' \in Nat
  BY DEF Copies, Read, Server0
<1>2. Reading /\ Handling /\ conn.body.kind = "length" /\ ~conn.body.exhausted /\ conn.keepAlive /\ conn.rd.written = 0
  BY <1>1, Regions0 DEF Base, Control, Count
<1>3. zeros = 0
  BY <1>1, <1>2, NoZeros
<1>4. /\ conn'.pc \in {"handler", "drain", "lengthRead"} /\ conn'.req = conn.req /\ conn'.fed = conn.fed + n
      /\ conn'.body.kind = "length" /\ conn'.body.remaining = ((conn.body.remaining + Word) - n) % Word
      /\ conn'.body.exhausted = (n = 0 \/ conn'.body.remaining = 0) /\ conn'.rd.written = 0
  <2>1. conn'.pc \in {"handler", "drain", "lengthRead"} /\ conn'.rd.written = 0
    BY <1>1 DEF Returned, NoRead
  <2>2. conn'.req = conn.req /\ conn'.fed = conn.fed + n /\ conn'.body.kind = "length"
    BY <1>1, <1>2 DEF Returned
  <2>3. conn'.body.remaining = ((conn.body.remaining + Word) - n) % Word
    BY <1>1 DEF Returned
  <2>4. conn'.body.exhausted = (n = 0 \/ conn'.body.remaining = 0)
    BY <1>1 DEF Returned
  <2> QED BY <2>1, <2>2, <2>3, <2>4
<1>5. ~Seeking' /\ ~Opening' /\ Reading' /\ ~Replying'
  BY <1>4, Regions
<1>t. /\ client \in Clients /\ pos \in Nat /\ conn.body.remaining \in Nat /\ conn.fed \in Nat /\ conn \in ConnType
      /\ MaxContent < Word /\ MaxContent \in Nat /\ Word \in Nat
  BY TypeFacts, ConnFacts, Limits
<1>6. PICK k : k = conn.req /\ k = conn'.req
  BY <1>4
<1>7. k \in 1..Len(requests) /\ requests[k].framing = "length"
  BY <1>2, <1>6, InTheBody
<1>8. (Upright' => Upright) /\ (conn'.cause = {} => Upright' /\ conn.cause = {})
  BY <1>1 DEF Upright
<1>9. ASSUME Upright'
      PROVE  /\ n <= conn.body.remaining /\ ~conn'.foreign
             /\ HeadOf(k) <= pos /\ pos + conn.body.remaining = EndOf(k) /\ conn.body.remaining <= MaxContent
             /\ conn'.body.remaining = conn.body.remaining - n
             /\ Bytes(k, pos') = Bytes(k, pos) + n
  <2>1. LengthPlace(k)
    BY <1>2, <1>3, <1>6, <1>8, <1>9 DEF BodyPlace, Place
  <2>2. HeadOf(k) <= pos /\ pos + conn.body.remaining = EndOf(k) /\ conn.body.remaining <= MaxContent
    BY <1>2, <2>1 DEF LengthPlace
  <2>3. n <= conn.body.remaining
    <3>1. n > conn.body.remaining => Lost(n) = {"overread"}
      BY <1>t, LostIs
    <3>2. ~(n > conn.body.remaining)
      <4>1. "overread" \notin conn'.cause
        BY <1>9 DEF Upright
      <4>2. "overread" \notin Lost(n)
        BY <1>1, <4>1
      <4> QED BY <3>1, <4>2
    <3> QED BY <1>t, <3>2
  <2>4. PICK a \in Nat : a = conn.body.remaining
    BY <1>t
  <2>5. conn'.body.remaining = conn.body.remaining - n
    <3>0. n <= a /\ a < Word
      BY <1>t, <2>2, <2>3, <2>4
    <3>1. ((a + Word) - n) % Word = a - n
      BY <3>0, Subtract
    <3> QED BY <1>4, <2>4, <3>1
  <2>6. HeadOf(k) \in Nat /\ EndOf(k) \in Nat /\ \A i \in (HeadOf(k) + 1)..EndOf(k) : stream[i].t = "byte"
    BY <1>t, <1>7, FramingOf
  <2>7. pos + n <= EndOf(k) /\ pos + n <= taken'
    BY <1>1, <1>3, <1>t, <2>2, <2>3
  <2>8. \A i \in (pos + 1)..(pos + n) : stream[i].t = "byte"
    BY <1>t, <2>2, <2>6, <2>7
  <2>9. ~Foreign(n, taken') /\ Bytes(k, pos + n) = Bytes(k, pos) + n
    BY <1>1, <1>6, <1>7, <1>t, <2>2, <2>7, <2>8, NotForeign
  <2>10. ~conn.foreign
    BY <1>8, <1>9 DEF Count
  <2> QED BY <1>1, <2>2, <2>3, <2>5, <2>9, <2>10
<1>s. EndOf(k)' = EndOf(k) /\ HeadOf(k)' = HeadOf(k)
  BY <1>1, StreamFixed
<1>10. ASSUME conn'.cause = {}, conn'.body.exhausted PROVE conn'.body.remaining = 0
  <2>1. n <= conn.body.remaining
    BY <1>8, <1>9, <1>10
  <2>2. ~(n = 0 /\ conn.body.remaining > 0)
    <3>1. n = 0 /\ conn.body.remaining > 0 => Lost(n) = {"shortRead"}
      BY <1>t, <2>1, LostIs
    <3> QED BY <1>1, <1>10, <3>1
  <2>3. conn'.body.remaining = conn.body.remaining - n
    BY <1>8, <1>9, <1>10
  <2>4. CASE n = 0
    BY <1>t, <2>2, <2>3, <2>4
  <2>5. CASE n # 0
    BY <1>4, <1>10, <2>5
  <2> QED BY <2>4, <2>5
<1>11. ASSUME Upright' PROVE BodyPlace(k)'
  <2>1. HeadOf(k) <= pos' /\ pos' + conn'.body.remaining = EndOf(k) /\ conn'.body.remaining <= MaxContent
    <3>1. HeadOf(k) \in Nat /\ EndOf(k) \in Nat
      BY <1>t, <1>7, FramingOf
    <3> QED BY <1>1, <1>9, <1>11, <1>t, <3>1
  <2>2. conn'.body.remaining = 0 => pos' = EndOf(k)
    BY <2>1, <1>1, <1>t
  <2>3. LengthPlace(k)'
    BY <1>s, <1>10, <2>1, <2>2 DEF LengthPlace
  <2> QED BY <1>4, <2>3 DEF BodyPlace
<1>12. Place'
  BY <1>1, <1>5, <1>6, <1>11, PlaceNext
<1>13. conn'.foreign => ~Upright'
  BY <1>9
<1>14. conn'.cause = {} => conn'.fed + conn'.rd.written = Bytes(k, pos')
  <2>1. conn.cause = {} => conn.fed + conn.rd.written = Bytes(k, pos)
    BY <1>2, <1>6 DEF Count
  <2>2. conn.cause = {} => conn.fed = Bytes(k, pos)
    BY <1>2, <1>t, <2>1
  <2> QED BY <1>4, <1>8, <1>9, <1>t, <2>2
<1>15. conn'.cause = {} /\ conn'.body.exhausted => conn'.fed = BodyUnits(k)
  <2>1. Bytes(k, EndOf(k)) = BodyUnits(k) /\ EndOf(k) \in Nat
    BY <1>t, <1>7, BytesAtEnd, FramingOf
  <2> SUFFICES ASSUME conn'.cause = {}, conn'.body.exhausted PROVE conn'.fed = BodyUnits(k)
    OBVIOUS
  <2>2. pos' = EndOf(k)
    BY <1>1, <1>8, <1>9, <1>10, <1>t, <2>1
  <2> QED BY <1>4, <1>14, <1>t, <2>1, <2>2
<1>16. Count'
  BY <1>1, <1>4, <1>6, <1>13, <1>14, <1>15, CountNext
<1> QED BY <1>12, <1>16

\* A turn of readSome's loop that leaves the body where the decoder thinks it is.
LEMMA TurnSpot ==
  ASSUME Base, Place, Count, Turns, zeros = 0 /\ Upright' => DecoderPlace(conn.req)',
         conn.cause \subseteq conn'.cause, conn'.foreign => ~Upright',
         conn.rd.who = "handler" /\ conn'.cause = {} => conn.fed + conn'.rd.written = Bytes(conn.req, pos')
  PROVE  Place' /\ Count'
<1>1. /\ client' = client /\ zeros' = zeros /\ conn.pc = "chunk" /\ conn'.pc = "chunk" /\ conn'.req = conn.req
      /\ conn'.body = conn.body /\ conn'.fed = conn.fed /\ conn'.rd.who = conn.rd.who
  BY DEF Turns, Calm, Server0
<1>2. /\ ~Seeking' /\ ~Opening' /\ Reading /\ ~Replying' /\ (Handling' <=> conn.rd.who = "handler")
      /\ (Handling <=> conn.rd.who = "handler") /\ (conn'.cause = {} => conn.cause = {})
  BY <1>1, Regions, Regions0
<1>3. conn.body.kind = "chunked" /\ ~conn.body.exhausted
  BY <1>1 DEF Base, Control
<1>4. PICK k : k = conn.req /\ k = conn'.req
  BY <1>1
<1>5. zeros' = 0 /\ Upright' => BodyPlace(k)'
  <2>1. DecoderPlace(conn.req)' <=> DecoderPlace(k)'
    BY <1>4
  <2> QED BY <1>1, <1>3, <2>1 DEF BodyPlace
<1>6. Place'
  BY <1>1, <1>2, <1>4, <1>5, PlaceNext
<1>7. conn'.cause = {} /\ Handling' => conn'.fed + conn'.rd.written = Bytes(k, pos')
  BY <1>1, <1>2, <1>4
<1>8. conn'.cause = {} /\ Handling' => conn'.body.remaining = IF conn'.fed = 0 THEN 0 ELSE Word - conn'.fed
  BY <1>1, <1>2, <1>3 DEF Count
<1>9. Count'
  BY <1>1, <1>3, <1>4, <1>7, <1>8, CountNext
<1> QED BY <1>6, <1>9

\* The decoder and the bytes agree, as long as nothing was lost.
LEMMA Decoding ==
  ASSUME Base, Place, conn.pc = "chunk", zeros = 0, Upright
  PROVE  /\ DecoderPlace(conn.req) /\ conn.req \in 1..Len(requests) /\ requests[conn.req].framing = "chunked"
         /\ client \in Clients /\ pos \in Nat
<1>1. Reading /\ conn.body.kind = "chunked"
  BY DEF Reading, Base, Control
<1>2. BodyPlace(conn.req)
  BY <1>1 DEF Place
<1> QED BY <1>1, <1>2, InTheBody, TypeFacts DEF BodyPlace

\* The turns that need nothing of it otherwise.
LEMMA ChunkHandler ==
  ASSUME Base, Count, conn.pc = "chunk"
  PROVE  /\ conn.rd.who = "handler" => zeros = 0
         /\ conn.rd.who = "handler" /\ conn.cause = {} => conn.fed + conn.rd.written = Bytes(conn.req, pos)
         /\ conn.cause = {} => Upright
<1>1. conn.rd.who = "handler" => conn.keepAlive
  BY DEF Base, Control
<1>2. conn.rd.who = "handler" => Handling
  BY DEF Handling
<1> QED BY <1>1, <1>2, NoZeros DEF Count, Upright

\* A size line: the chunk it announces is in front.
LEMMA SizeTakenSpot == ASSUME Base, Place, Count, SizeTaken PROVE Place' /\ Count'
<1>1. /\ Turns /\ conn.pc = "chunk" /\ client' = client /\ pos' = pos + 1 /\ stream[pos + 1].t = "size"
      /\ conn.dec.state = "CHUNK_SIZE"
      /\ conn'.rd = conn.rd /\ conn'.foreign = conn.foreign /\ conn'.cause = conn.cause /\ conn'.fed = conn.fed
  BY DEF SizeTaken, Turns, Calm, Server0
<1>2. Upright' <=> Upright
  BY <1>1 DEF Upright
<1>3. PICK k : k = conn.req /\ k = conn'.req
  BY <1>1 DEF Turns
<1>4. ASSUME zeros = 0, Upright PROVE DecoderPlace(k)' /\ Bytes(k, pos') = Bytes(k, pos)
  <2>1. /\ DecoderPlace(k) /\ k \in 1..Len(requests) /\ requests[k].framing = "chunked" /\ client \in Clients /\ pos \in Nat
    BY <1>1, <1>3, <1>4, Decoding
  <2>2. AtSize(k)
    BY <1>1, <2>1 DEF DecoderPlace, Stuck
  <2>3. /\ HeadOf(k) <= pos /\ pos < EndOf(k) /\ ~requests[k].broken /\ conn.dec.total = Bytes(k, pos) /\ conn.dec.total <= MaxTE
    BY <2>2 DEF AtSize, Within
  <2>4. /\ HeadOf(k) \in Nat /\ EndOf(k) \in Nat /\ stream[EndOf(k)].t = "crlf"
        /\ \A i \in (HeadOf(k) + 1)..EndOf(k) : stream[i].t = "size" => IsChunk(stream, requests[k].chunks, i, EndOf(k))
    BY <2>1, <2>3, FramingOf
  <2>5. pos + 1 \in (HeadOf(k) + 1)..EndOf(k) /\ pos + 1 # EndOf(k)
    BY <1>1, <2>1, <2>3, <2>4
  <2>6. IsChunk(stream, requests[k].chunks, pos + 1, EndOf(k))
    BY <1>1, <2>4, <2>5
  <2>7. Bytes(k, pos + 1) = Bytes(k, pos)
    <3>1. \A i \in (pos + 1)..(pos + 1) : stream[i].r # k \/ stream[i].t # "byte"
      BY <1>1, <2>1
    <3> QED BY <2>1, <3>1, BytesStay
  <2>8. Within(k)'
    BY <1>1, <2>1, <2>3, <2>4, <2>5, WithinNext
  <2>s. stream' = stream /\ requests' = requests /\ EndOf(k)' = EndOf(k) /\ Bytes(k, pos)' = Bytes(k, pos')
    BY <1>1, StreamFixed
  <2>9. CASE stream[pos + 1].n = 0 /\ conn'.dec.state = "TRAILER" /\ conn'.dec.total = conn.dec.total
    <3>1. \A j \in (pos + 2)..(EndOf(k) - 1) : stream[j].t = "field"
      BY <2>1, <2>6, <2>9 DEF IsChunk
    <3>2. InTrailer(k)'
      BY <1>1, <2>1, <2>3, <2>7, <2>8, <2>s, <2>9, <3>1 DEF InTrailer
    <3> QED BY <1>1, <2>7, <2>9, <3>2 DEF DecoderPlace
  <2>10. CASE /\ stream[pos + 1].n > 0 /\ conn'.dec.state = "CHUNK_BODY"
              /\ conn'.dec.left = stream[pos + 1].n /\ conn'.dec.total = conn.dec.total + stream[pos + 1].n
              /\ conn'.dec.total <= MaxTE
    <3>0. PICK n : n = stream[pos + 1].n
      OBVIOUS
    <3>n. n \in Nat /\ n > 0
      <4>1. pos + 1 \in 1..Len(stream)
        BY <2>1, <2>3, <2>4, FramingOf
      <4>2. stream[pos + 1] \in TokenType
        BY <2>1, <4>1, TheClient
      <4> QED BY <2>10, <3>0, <4>2 DEF TokenType
    <3>1. /\ pos + 1 + n + 2 <= EndOf(k)
          /\ \A j \in (pos + 1 + 1)..(pos + 1 + n) : stream[j].t = "byte"
          /\ stream[pos + 1 + n + 1].t = "crlf" /\ stream[pos + 1 + n + 2].t = "size"
      BY <2>6, <3>0, <3>n DEF IsChunk
    <3>2. /\ pos' + n + 1 < EndOf(k)
          /\ \A j \in (pos' + 1)..(pos' + n) : stream[j].t = "byte"
          /\ stream[pos' + n + 1].t = "crlf" /\ stream[pos' + n + 2].t = "size"
      BY <1>1, <2>1, <2>4, <3>n, <3>1
    <3>3. conn'.dec.left = n /\ conn'.dec.total = Bytes(k, pos') + n
      BY <1>1, <2>3, <2>7, <2>10, <3>0
    <3>4. InChunk(k)'
      BY <2>3, <2>8, <2>s, <2>10, <3>n, <3>2, <3>3 DEF InChunk
    <3> QED BY <1>1, <2>7, <2>10, <3>4 DEF DecoderPlace
  <2> QED BY <2>9, <2>10 DEF SizeTaken
<1>5. zeros = 0 /\ Upright' => DecoderPlace(conn.req)'
  <2>1. DecoderPlace(conn.req)' <=> DecoderPlace(k)'
    BY <1>3
  <2> QED BY <1>2, <1>4, <2>1
<1>6. conn'.foreign => ~Upright'
  BY <1>1, <1>2 DEF Count
<1>7. conn.rd.who = "handler" /\ conn'.cause = {} => conn.fed + conn'.rd.written = Bytes(conn.req, pos')
  BY <1>1, <1>3, <1>4, ChunkHandler
<1> QED BY <1>1, <1>5, <1>6, <1>7, TurnSpot

\* The CRLF after a chunk: a size line is in front.
LEMMA CrlfTakenSpot == ASSUME Base, Place, Count, CrlfTaken PROVE Place' /\ Count'
<1>1. /\ Turns /\ conn.pc = "chunk" /\ client' = client /\ pos' = pos + 1 /\ stream[pos + 1].t = "crlf"
      /\ conn.dec.state = "CHUNK_CRLF" /\ conn'.dec.state = "CHUNK_SIZE" /\ conn'.dec.total = conn.dec.total
      /\ conn'.rd = conn.rd /\ conn'.foreign = conn.foreign /\ conn'.cause = conn.cause /\ conn'.fed = conn.fed
  BY DEF CrlfTaken, Turns, Calm, Server0
<1>2. Upright' <=> Upright
  BY <1>1 DEF Upright
<1>3. PICK k : k = conn.req /\ k = conn'.req
  BY <1>1 DEF Turns
<1>4. ASSUME zeros = 0, Upright PROVE DecoderPlace(k)' /\ Bytes(k, pos') = Bytes(k, pos)
  <2>1. /\ DecoderPlace(k) /\ k \in 1..Len(requests) /\ requests[k].framing = "chunked" /\ client \in Clients /\ pos \in Nat
    BY <1>1, <1>3, <1>4, Decoding
  <2>2. AtCrlf(k)
    BY <1>1, <2>1 DEF DecoderPlace
  <2>3. /\ HeadOf(k) <= pos /\ pos + 1 < EndOf(k) /\ ~requests[k].broken /\ conn.dec.total = Bytes(k, pos) /\ conn.dec.total <= MaxTE
        /\ stream[pos + 2].t = "size"
    BY <2>2 DEF AtCrlf, Within
  <2>4. HeadOf(k) \in Nat /\ EndOf(k) \in Nat
    BY <2>1, FramingOf
  <2>7. Bytes(k, pos + 1) = Bytes(k, pos)
    <3>1. \A i \in (pos + 1)..(pos + 1) : stream[i].r # k \/ stream[i].t # "byte"
      BY <1>1, <2>1
    <3> QED BY <2>1, <3>1, BytesStay
  <2>8. Within(k)'
    BY <1>1, <2>1, <2>3, <2>4, WithinNext
  <2>s. stream' = stream /\ requests' = requests /\ EndOf(k)' = EndOf(k) /\ Bytes(k, pos)' = Bytes(k, pos')
    BY <1>1, StreamFixed
  <2>9. AtSize(k)'
    BY <1>1, <2>1, <2>3, <2>7, <2>8, <2>s DEF AtSize
  <2> QED BY <1>1, <2>7, <2>9 DEF DecoderPlace
<1>5. zeros = 0 /\ Upright' => DecoderPlace(conn.req)'
  <2>1. DecoderPlace(conn.req)' <=> DecoderPlace(k)'
    BY <1>3
  <2> QED BY <1>2, <1>4, <2>1
<1>6. conn'.foreign => ~Upright'
  BY <1>1, <1>2 DEF Count
<1>7. conn.rd.who = "handler" /\ conn'.cause = {} => conn.fed + conn'.rd.written = Bytes(conn.req, pos')
  BY <1>1, <1>3, <1>4, ChunkHandler
<1> QED BY <1>1, <1>5, <1>6, <1>7, TurnSpot

\* Units of a chunk are units of the body.
LEMMA BodyTakenSpot == ASSUME Base, Place, Count, NEW n \in Nat, BodyTaken(n) PROVE Place' /\ Count'
<1>1. /\ Turns /\ conn.pc = "chunk" /\ client' = client /\ pos' = pos + n /\ pos + n <= taken + zeros /\ conn.dec.state = "CHUNK_BODY"
      /\ n <= conn.dec.left /\ conn'.dec.left = conn.dec.left - n /\ conn'.dec.total = conn.dec.total
      /\ conn'.dec.state = IF conn'.dec.left = 0 THEN "CHUNK_CRLF" ELSE "CHUNK_BODY"
      /\ conn'.rd.written = conn.rd.written + n /\ conn'.cause = conn.cause
      /\ conn'.foreign = (conn.foreign \/ (conn.rd.who = "handler" /\ Foreign(n, taken)))
  BY DEF BodyTaken, Turns, Calm, Server0
<1>2. Upright' <=> Upright
  BY <1>1 DEF Upright
<1>3. PICK k : k = conn.req /\ k = conn'.req
  BY <1>1 DEF Turns
<1>t. taken \in Nat /\ conn.dec.left \in Nat /\ conn.rd.written \in Nat /\ conn.fed \in Nat /\ conn.dec.total \in Nat
  BY TypeFacts, ConnFacts
<1>a. pos' = pos + n /\ pos + n <= taken + zeros /\ n <= conn.dec.left
  BY <1>1
<1>4. ASSUME zeros = 0, Upright PROVE DecoderPlace(k)' /\ Bytes(k, pos') = Bytes(k, pos) + n /\ ~Foreign(n, taken)
  <2>1. /\ DecoderPlace(k) /\ k \in 1..Len(requests) /\ requests[k].framing = "chunked" /\ client \in Clients /\ pos \in Nat
    BY <1>1, <1>3, <1>4, Decoding
  <2>2. InChunk(k)
    BY <1>1, <2>1 DEF DecoderPlace
  <2>3. /\ HeadOf(k) <= pos /\ pos + conn.dec.left + 1 < EndOf(k) /\ conn.dec.left > 0 /\ ~requests[k].broken
        /\ \A i \in (pos + 1)..(pos + conn.dec.left) : stream[i].t = "byte"
        /\ stream[pos + conn.dec.left + 1].t = "crlf" /\ stream[pos + conn.dec.left + 2].t = "size"
        /\ conn.dec.total = Bytes(k, pos) + conn.dec.left /\ conn.dec.total <= MaxTE
    BY <2>2 DEF InChunk, Within
  <2>4. HeadOf(k) \in Nat /\ EndOf(k) \in Nat
    BY <2>1, FramingOf
  <2>5. pos + n <= EndOf(k) /\ pos + n <= taken /\ \A i \in (pos + 1)..(pos + n) : stream[i].t = "byte"
    <3>1. pos + n <= taken
      BY <1>a, <1>4, <1>t, <2>1
    <3>2. pos + n <= EndOf(k)
      BY <1>a, <1>t, <2>1, <2>3, <2>4, SMTT(30)
    <3>3. \A i \in (pos + 1)..(pos + n) : i \in (pos + 1)..(pos + conn.dec.left)
      BY <1>a, <1>t, <2>1, SMTT(30)
    <3> QED BY <2>3, <3>1, <3>2, <3>3
  <2>6. ~Foreign(n, taken) /\ Bytes(k, pos + n) = Bytes(k, pos) + n
    BY <1>3, <1>t, <2>1, <2>3, <2>5, NotForeign
  <2>7. PICK m \in Nat : m = conn.dec.left - n
    BY <1>1, <1>t
  <2>8. Within(k)'
    <3>0. PICK l \in Nat : l = conn.dec.left /\ pos + l + 1 < EndOf(k) /\ n <= l
      BY <1>a, <1>t, <2>3
    <3>1. HeadOf(k) <= pos' /\ pos' < EndOf(k)
      BY <1>a, <2>1, <2>3, <2>4, <3>0, SMTT(30)
    <3> QED BY <1>1, <3>1, WithinNext
  <2>s. stream' = stream /\ requests' = requests /\ EndOf(k)' = EndOf(k) /\ Bytes(k, pos)' = Bytes(k, pos')
    BY <1>1, StreamFixed
  <2>b. Bytes(k, pos) \in Nat
    BY <2>1, BytesAreFinite
  <2>9. /\ pos' + m = pos + conn.dec.left /\ pos' + m + 1 < EndOf(k) /\ pos' + m + 1 = pos + conn.dec.left + 1
        /\ pos' + m + 2 = pos + conn.dec.left + 2
        /\ \A i \in (pos' + 1)..(pos' + m) : i \in (pos + 1)..(pos + conn.dec.left)
        /\ conn'.dec.total = Bytes(k, pos') + m /\ conn'.dec.total <= MaxTE /\ conn'.dec.left = m
    <3>1. /\ pos' + m = pos + conn.dec.left /\ pos' + m + 1 = pos + conn.dec.left + 1
          /\ pos' + m + 2 = pos + conn.dec.left + 2
      <4>1. PICK q \in Nat, l \in Nat : q = pos /\ l = conn.dec.left
        BY <1>t, <2>1
      <4>2. pos' = q + n /\ m = l - n
        BY <1>a, <2>7, <4>1
      <4>3. (q + n) + m = q + l /\ (q + n) + m + 1 = q + l + 1 /\ (q + n) + m + 2 = q + l + 2
        BY <4>2
      <4> QED BY <4>1, <4>2, <4>3
    <3>2. \A i \in (pos' + 1)..(pos' + m) : i \in (pos + 1)..(pos + conn.dec.left)
      BY <1>a, <1>t, <2>1, <2>7, SMTT(30)
    <3>3. pos' + m + 1 < EndOf(k)
      BY <2>3, <3>1
    <3>4. Bytes(k, pos') = Bytes(k, pos) + n
      BY <1>a, <2>6
    <3>5. conn.dec.total = Bytes(k, pos') + m
      BY <1>a, <1>t, <2>3, <2>7, <2>b, <3>4
    <3>6. conn'.dec.total = conn.dec.total /\ conn'.dec.left = m
      BY <1>1, <2>7
    <3> QED BY <2>3, <3>1, <3>2, <3>3, <3>5, <3>6
  <2>10. /\ \A i \in (pos' + 1)..(pos' + m) : stream[i].t = "byte"
         /\ stream[pos' + m + 1].t = "crlf" /\ stream[pos' + m + 2].t = "size"
    BY <2>3, <2>9
  <2>11. CASE m = 0
    <3>1. /\ stream[pos' + 1].t = "crlf" /\ stream[pos' + 2].t = "size" /\ pos' + 1 < EndOf(k)
          /\ conn'.dec.total = Bytes(k, pos')
      BY <1>1, <2>1, <2>6, <2>9, <2>10, <2>11, <2>b
    <3>2. AtCrlf(k)'
      BY <2>3, <2>8, <2>9, <2>s, <3>1 DEF AtCrlf
    <3> QED BY <1>1, <2>6, <2>9, <2>11, <3>2 DEF DecoderPlace
  <2>12. CASE m > 0
    <3>1. InChunk(k)'
      BY <2>3, <2>8, <2>9, <2>10, <2>12, <2>s DEF InChunk
    <3>2. conn'.dec.state = "CHUNK_BODY"
      BY <1>1, <2>9, <2>12
    <3>3. DecoderPlace(k)'
      BY <3>1, <3>2 DEF DecoderPlace
    <3> QED BY <1>a, <2>6, <3>3
  <2> QED BY <2>7, <2>11, <2>12
<1>5. zeros = 0 /\ Upright' => DecoderPlace(conn.req)'
  <2>1. DecoderPlace(conn.req)' <=> DecoderPlace(k)'
    BY <1>3
  <2> QED BY <1>2, <1>4, <2>1
<1>6. conn'.foreign => ~Upright'
  <2>1. conn.foreign => ~Upright
    BY DEF Count
  <2>2. conn.rd.who = "handler" => zeros = 0
    BY <1>1, ChunkHandler
  <2> QED BY <1>1, <1>2, <1>4, <2>1, <2>2
<1>7. conn.rd.who = "handler" /\ conn'.cause = {} => conn.fed + conn'.rd.written = Bytes(conn.req, pos')
  <2> SUFFICES ASSUME conn.rd.who = "handler", conn'.cause = {} PROVE conn.fed + conn'.rd.written = Bytes(conn.req, pos')
    OBVIOUS
  <2>1. zeros = 0 /\ Upright /\ conn.fed + conn.rd.written = Bytes(k, pos)
    BY <1>1, <1>3, ChunkHandler
  <2> QED BY <1>1, <1>3, <1>4, <1>t, <2>1
<1> QED BY <1>1, <1>5, <1>6, <1>7, TurnSpot

\* The end of the trailers is the end of the request, or the loss is recorded.
LEMMA TrailerTakenSpot == ASSUME Base, Place, Count, NEW n \in Nat, TrailerTaken(n) PROVE Place' /\ Count'
<1>1. /\ Turns /\ conn.pc = "chunk" /\ client' = client /\ pos' = pos + n /\ n > 0 /\ pos + n <= taken
      /\ conn.dec.state = "TRAILER" /\ conn'.dec.state = "DONE" /\ conn'.rd = conn.rd /\ conn'.foreign = conn.foreign
      /\ conn'.cause = conn.cause \cup (IF stream[pos + n].r # conn.req THEN {"trailer"} ELSE {})
      /\ (n = 1 /\ stream[pos + 1].t = "crlf") \/ (n = Min(BlankLines) /\ BlankLines # {})
  BY DEF TrailerTaken, Turns, Calm, Server0
<1>2. /\ (Upright' <=> Upright) /\ conn.cause \subseteq conn'.cause
      /\ "trailer" \notin conn'.cause => stream[pos + n].r = conn.req
      /\ conn'.cause = {} => Upright
  BY <1>1 DEF Upright
<1>3. PICK k : k = conn.req /\ k = conn'.req
  BY <1>1 DEF Turns
<1>t. pos \in Nat /\ taken \in Nat /\ taken <= Len(stream) /\ Len(stream) \in Nat /\ conn.fed \in Nat /\ conn.rd.written \in Nat
  BY TypeFacts, ConnFacts
<1>4. ASSUME zeros = 0, Upright
      PROVE  DecoderPlace(k)' /\ ("trailer" \in conn'.cause \/ Bytes(k, pos') = Bytes(k, pos))
  <2>0. /\ DecoderPlace(k) /\ k \in 1..Len(requests) /\ requests[k].framing = "chunked" /\ client \in Clients
    BY <1>1, <1>3, <1>4, Decoding
  <2>s. EndOf(k)' = EndOf(k) /\ BodyUnits(k)' = BodyUnits(k)
    BY <1>1, StreamFixed
  <2>1. CASE "trailer" \in conn'.cause
    BY <1>1, <2>1 DEF DecoderPlace
  <2>2. CASE "trailer" \notin conn'.cause
    <3>1. InTrailer(k)
      BY <1>1, <2>0 DEF DecoderPlace
    <3>2. /\ HeadOf(k) <= pos /\ pos < EndOf(k) /\ conn.dec.total <= MaxTE /\ conn.dec.total = Bytes(k, pos)
          /\ \A i \in (pos + 1)..(EndOf(k) - 1) : stream[i].t = "field"
      BY <3>1 DEF InTrailer, Within
    <3>3. HeadOf(k) \in Nat /\ EndOf(k) \in Nat /\ stream[EndOf(k)].t = "crlf"
      BY <2>0, FramingOf
    <3>4. stream[pos + n].r = k
      BY <1>2, <1>3, <2>2
    <3>5. pos + n \in 1..Len(stream)
      BY <1>1, <1>t
    <3>6. pos + n <= EndOf(k)
      BY <2>0, <3>4, <3>5, Units
    <3>7. stream[pos + n].t # "field"
      <4>1. CASE n = 1 /\ stream[pos + 1].t = "crlf"
        BY <4>1
      <4>2. CASE n = Min(BlankLines) /\ BlankLines # {}
        <5>1. BlankLines \in SUBSET Nat
          BY DEF BlankLines, ReadBufferSize
        <5>2. n \in BlankLines
          BY <4>2, <5>1, MinIsThere
        <5>3. Unit(n) \in {"head", "crlf"}
          BY <5>2 DEF BlankLines
        <5>4. Unit(n) = stream[pos + n].t
          BY <1>1 DEF Unit
        <5> QED BY <5>3, <5>4
      <4> QED BY <1>1, <4>1, <4>2
    <3>8. pos + n = EndOf(k)
      BY <1>1, <1>t, <3>2, <3>3, <3>6, <3>7
    <3>9. Bytes(k, EndOf(k)) = Bytes(k, pos)
      <4>1. \A i \in (pos + 1)..EndOf(k) : stream[i].r # k \/ stream[i].t # "byte"
        <5> SUFFICES ASSUME NEW i \in (pos + 1)..EndOf(k) PROVE stream[i].t # "byte"
          OBVIOUS
        <5>1. CASE i = EndOf(k)
          BY <3>3, <5>1
        <5>2. CASE i # EndOf(k)
          BY <1>t, <3>2, <3>3, <5>2
        <5> QED BY <5>1, <5>2
      <4>2. PICK q \in Nat : q = EndOf(k) /\ pos <= q
        BY <1>t, <3>2, <3>3
      <4>3. \A i \in (pos + 1)..q : stream[i].r # k \/ stream[i].t # "byte"
        BY <4>1, <4>2
      <4>4. Bytes(k, q) = Bytes(k, pos)
        BY <1>t, <4>2, <4>3, BytesStay
      <4> QED BY <4>2, <4>4
    <3>10. Bytes(k, EndOf(k)) = BodyUnits(k)
      BY <2>0, BytesAtEnd
    <3>11. pos' = EndOf(k) /\ BodyUnits(k) <= MaxTE
      BY <1>1, <3>2, <3>8, <3>9, <3>10
    <3> QED BY <1>1, <2>s, <3>9, <3>11 DEF DecoderPlace
  <2> QED BY <2>1, <2>2
<1>5. zeros = 0 /\ Upright' => DecoderPlace(conn.req)'
  <2>1. DecoderPlace(conn.req)' <=> DecoderPlace(k)'
    BY <1>3
  <2> QED BY <1>2, <1>4, <2>1
<1>6. conn'.foreign => ~Upright'
  BY <1>1, <1>2 DEF Count
<1>7. conn.rd.who = "handler" /\ conn'.cause = {} => conn.fed + conn'.rd.written = Bytes(conn.req, pos')
  <2> SUFFICES ASSUME conn.rd.who = "handler", conn'.cause = {} PROVE conn.fed + conn'.rd.written = Bytes(conn.req, pos')
    OBVIOUS
  <2>1. zeros = 0 /\ Upright /\ conn.cause = {} /\ "trailer" \notin conn'.cause
    BY <1>1, <1>2, ChunkHandler
  <2>2. conn.fed + conn.rd.written = Bytes(k, pos)
    BY <1>1, <1>3, <2>1, ChunkHandler
  <2> QED BY <1>1, <1>3, <1>4, <2>1, <2>2
<1> QED BY <1>1, <1>2, <1>5, <1>6, <1>7, TurnSpot

\* What has been decoded so far is below the limit.
LEMMA BytesBelow ==
  ASSUME Base, Place, conn.pc = "chunk", zeros = 0, conn.cause = {}
  PROVE  Bytes(conn.req, pos) \in Nat /\ Bytes(conn.req, pos) <= MaxTE
<1>0. Upright
  BY DEF Upright
<1>1. /\ DecoderPlace(conn.req) /\ conn.req \in 1..Len(requests) /\ client \in Clients /\ pos \in Nat
  BY <1>0, Decoding
<1>2. PICK k : k = conn.req
  OBVIOUS
<1>3. Bytes(k, pos) \in Nat /\ conn.dec.left \in Nat /\ MaxTE \in Nat
  BY <1>1, BytesAreFinite, ConnFacts, TypeFacts, Constants
<1>4. conn.dec.state \in {"CHUNK_SIZE", "CHUNK_BODY", "CHUNK_CRLF", "TRAILER", "DONE"}
  BY ConnFacts, TypeFacts
<1>5. CASE conn.dec.state = "CHUNK_SIZE"
  BY <1>1, <1>2, <1>3, <1>5 DEF DecoderPlace, AtSize, Stuck
<1>6. CASE conn.dec.state = "CHUNK_BODY"
  <2>1. conn.dec.total = Bytes(k, pos) + conn.dec.left /\ conn.dec.total <= MaxTE
    BY <1>1, <1>2, <1>6 DEF DecoderPlace, InChunk
  <2> QED BY <1>2, <1>3, <2>1
<1>7. CASE conn.dec.state = "CHUNK_CRLF"
  BY <1>1, <1>2, <1>3, <1>7 DEF DecoderPlace, AtCrlf
<1>8. CASE conn.dec.state = "TRAILER"
  BY <1>1, <1>2, <1>3, <1>8 DEF DecoderPlace, InTrailer
<1>9. CASE conn.dec.state = "DONE"
  <2>1. pos = EndOf(k) /\ BodyUnits(k) <= MaxTE
    BY <1>1, <1>2, <1>9 DEF DecoderPlace
  <2>2. Bytes(k, EndOf(k)) = BodyUnits(k)
    BY <1>1, <1>2, BytesAtEnd
  <2> QED BY <1>2, <1>3, <2>1, <2>2
<1> QED BY <1>4, <1>5, <1>6, <1>7, <1>8, <1>9

\* The size_t arithmetic of a body without a length: what remains is what was
\* fed, subtracted from zero.
LEMMA RemainingWraps ==
  ASSUME NEW f \in Nat, NEW w \in Nat, f + w < Word, NEW r \in Nat, r = (IF f = 0 THEN 0 ELSE Word - f)
  PROVE  ((r + Word) - w) % Word = (IF f + w = 0 THEN 0 ELSE Word - (f + w))
<1>w. Word \in Nat
  BY Limits
<1>1. CASE f = 0 /\ w = 0
  <2>1. r = 0 /\ 0 < Word /\ w <= r
    BY <1>1, <1>w
  <2>2. ((r + Word) - w) % Word = r - w
    BY <2>1, Subtract
  <2> QED BY <1>1, <2>1, <2>2
<1>2. CASE f = 0 /\ w > 0
  <2>1. r = 0 /\ w < Word
    BY <1>2, <1>w
  <2>2. ((0 + Word) - w) % Word = Word - w
    BY <1>2, <2>1, WrapAround
  <2> QED BY <1>2, <2>1, <2>2
<1>3. CASE f > 0
  <2>1. r = Word - f /\ w <= r /\ r < Word
    BY <1>3, <1>w
  <2>2. ((r + Word) - w) % Word = r - w
    BY <2>1, Subtract
  <2> QED BY <1>3, <1>w, <2>1, <2>2
<1> QED BY <1>1, <1>2, <1>3

\* chunkReadFn feeds what was decoded; only the end of the body exhausts it.
LEMMA SomeReturnedSpot == ASSUME Base, Place, Count, SomeReturned PROVE Place' /\ Count'
<1>0. PICK w \in Nat : w = conn.rd.written
  BY TypeFacts, ConnFacts
<1>1. /\ client' = client /\ pos' = pos /\ zeros' = zeros /\ conn.pc = "chunk" /\ conn.rd.who = "handler" /\ Returned(w)
      /\ conn'.foreign = conn.foreign /\ conn'.cause = conn.cause
      /\ conn.dec.state = "DONE" \/ w = conn.rd.size
  BY <1>0 DEF SomeReturned, Calm, Server0
<1>2. conn.body.kind = "chunked" /\ conn.rd.size > 0 /\ Reading /\ Handling
  BY <1>1 DEF Base, Control, Reading, Handling
<1>3. /\ conn'.pc \in {"handler", "drain", "chunk"} /\ conn'.rd.written = 0
      /\ conn'.req = conn.req /\ conn'.dec = conn.dec /\ conn'.body.kind = "chunked" /\ conn'.fed = conn.fed + w
  BY <1>1, <1>2 DEF Returned, NoRead
<1>4. conn'.body.remaining = ((conn.body.remaining + Word) - w) % Word
  BY <1>1 DEF Returned
<1>5. conn'.body.exhausted = (w = 0 \/ conn'.body.remaining = 0)
  BY <1>1 DEF Returned
<1>6. ~Seeking' /\ ~Opening' /\ Reading' /\ ~Replying' /\ (Upright' <=> Upright) /\ (conn.cause = {} => Upright)
  BY <1>1, <1>3, Regions DEF Upright
<1>7. PICK k : k = conn.req /\ k = conn'.req
  BY <1>3
<1>t. conn.fed \in Nat /\ conn \in ConnType /\ conn.body.remaining \in Nat /\ Word \in Nat /\ MaxTE \in Nat /\ MaxTE < Word
  BY TypeFacts, ConnFacts, Limits
<1>8. zeros = 0 /\ Upright => BodyPlace(k)'
  <2>1. zeros = 0 /\ Upright => DecoderPlace(k)
    BY <1>1, <1>7, Decoding
  <2>2. DecoderPlace(k) => DecoderPlace(k)'
    BY <1>1, <1>3, <1>t, DecoderPlaceKept
  <2> QED BY <1>3, <2>1, <2>2 DEF BodyPlace
<1>9. Place'
  BY <1>1, <1>6, <1>7, <1>8, PlaceNext
<1>10. ASSUME conn.cause = {}
       PROVE  /\ conn'.fed = Bytes(k, pos)
              /\ conn'.body.remaining = (IF conn'.fed = 0 THEN 0 ELSE Word - conn'.fed)
              /\ conn'.body.exhausted => conn.dec.state = "DONE" /\ conn'.fed = BodyUnits(k)
  <2>1. zeros = 0 /\ conn.fed + w = Bytes(k, pos)
    BY <1>0, <1>1, <1>7, <1>10, ChunkHandler
  <2>2. Bytes(k, pos) \in Nat /\ Bytes(k, pos) <= MaxTE
    BY <1>1, <1>7, <1>10, <2>1, BytesBelow
  <2>3. PICK f \in Nat : f = conn.fed
    BY <1>t
  <2>4. PICK r \in Nat : r = conn.body.remaining
    BY <1>t
  <2>5. r = (IF f = 0 THEN 0 ELSE Word - f)
    BY <1>2, <1>10, <2>3, <2>4 DEF Count
  <2>6. f + w < Word
    BY <1>t, <2>1, <2>2, <2>3
  <2>7. ((r + Word) - w) % Word = (IF f + w = 0 THEN 0 ELSE Word - (f + w))
    BY <2>5, <2>6, RemainingWraps
  <2>8. conn'.body.remaining = (IF conn'.fed = 0 THEN 0 ELSE Word - conn'.fed)
    BY <1>3, <1>4, <2>3, <2>4, <2>7
  <2>9. ASSUME conn'.body.exhausted PROVE conn.dec.state = "DONE" /\ conn'.fed = BodyUnits(k)
    <3>1. conn'.fed \in Nat /\ conn'.fed < Word
      BY <1>3, <2>3, <2>6
    <3>2. CASE conn'.body.remaining = 0
      <4>1. conn'.fed = 0
        BY <1>t, <2>8, <3>1, <3>2
      <4> QED
        <5>1. w = 0
          BY <1>3, <1>t, <4>1
        <5>2. conn.dec.state = "DONE"
          BY <1>1, <1>2, <5>1
        <5>3. pos = EndOf(k)
          <6>1. DecoderPlace(k)
            BY <1>1, <1>6, <1>7, <1>10, <2>1, Decoding
          <6> QED BY <1>10, <5>2, <6>1 DEF DecoderPlace
        <5>4. Bytes(k, EndOf(k)) = BodyUnits(k)
          BY <1>2, <1>7, InTheBody, BytesAtEnd
        <5> QED BY <1>3, <2>1, <5>2, <5>3, <5>4
    <3>3. CASE w = 0
      <4>2. conn.dec.state = "DONE"
        BY <1>1, <1>2, <3>3
      <4>3. pos = EndOf(k)
        <5>1. DecoderPlace(k)
          BY <1>1, <1>6, <1>7, <1>10, <2>1, Decoding
        <5> QED BY <1>10, <4>2, <5>1 DEF DecoderPlace
      <4>4. Bytes(k, EndOf(k)) = BodyUnits(k)
        BY <1>2, <1>7, InTheBody, BytesAtEnd
      <4> QED BY <1>3, <2>1, <4>2, <4>3, <4>4
    <3> QED BY <1>5, <2>9, <3>2, <3>3
  <2> QED BY <1>3, <2>1, <2>8, <2>9
<1>11. conn'.cause = {} => conn'.fed + conn'.rd.written = Bytes(k, pos')
  BY <1>1, <1>3, <1>10, <1>t
<1>12. (conn'.foreign => ~Upright') /\ conn'.pc # "lengthRead"
  BY <1>1, <1>3, <1>6 DEF Count
<1>13. Count'
  BY <1>1, <1>3, <1>7, <1>10, <1>11, <1>12, CountNext
<1> QED BY <1>9, <1>13

\* The decoder refuses only what it could not take.
LEMMA RefusesPlace ==
  ASSUME Base, Place, Refuses, zeros = 0, Upright
  PROVE  /\ conn.dec.state = "CHUNK_SIZE" /\ BadChunks(conn.req)
         /\ HeadOf(conn.req) <= pos' /\ pos' < EndOf(conn.req) /\ stream[pos' + 1].t # "size"
         /\ Bytes(conn.req, pos') <= MaxTE
<1>1. conn.pc = "chunk" /\ Misplaced
  BY DEF Refuses
<1>2. PICK k : k = conn.req
  OBVIOUS
<1>3. /\ DecoderPlace(k) /\ k \in 1..Len(requests) /\ requests[k].framing = "chunked" /\ client \in Clients /\ pos \in Nat
  BY <1>1, <1>2, Decoding
<1>4. ReadBufferSize > 0 /\ taken \in Nat
  BY <1>1, TypeFacts DEF Misplaced
<1>5. pos < taken /\ Unit(1) = stream[pos + 1].t
  <2>1. pos < taken
    BY <1>3, <1>4 DEF ReadBufferSize
  <2> QED BY <1>3, <1>4, <2>1 DEF Unit
<1>6. HeadOf(k) \in Nat /\ EndOf(k) \in Nat
  BY <1>3, FramingOf
<1>7. CASE conn.dec.state = "CHUNK_SIZE" /\ Unit(1) # "size" /\ pos' = pos
  <2>1. Stuck(k)
    BY <1>3, <1>5, <1>7 DEF DecoderPlace, AtSize
  <2> QED BY <1>2, <1>7, <2>1 DEF Stuck, Within
<1>8. CASE /\ conn.dec.state = "CHUNK_SIZE" /\ Unit(1) = "size" /\ pos' = pos + 1
           /\ \/ stream[pos + 1].n > MaxTEChunk
              \/ stream[pos + 1].n \in 1..MaxTEChunk /\ conn.dec.total + stream[pos + 1].n > MaxTE
  <2>1. AtSize(k)
    BY <1>3, <1>5, <1>8 DEF DecoderPlace, Stuck
  <2>2. /\ HeadOf(k) <= pos /\ pos < EndOf(k) /\ ~requests[k].broken /\ conn.dec.total = Bytes(k, pos) /\ conn.dec.total <= MaxTE
        /\ stream[pos + 1].t = "size"
    BY <2>1 DEF AtSize, Within
  <2>3. \A i \in (HeadOf(k) + 1)..EndOf(k) : stream[i].t = "size" => IsChunk(stream, requests[k].chunks, i, EndOf(k))
    BY <1>3, <2>2, FramingOf
  <2>4. IsChunk(stream, requests[k].chunks, pos + 1, EndOf(k))
    <3>1. pos + 1 \in (HeadOf(k) + 1)..EndOf(k)
      BY <1>3, <1>6, <2>2
    <3> QED BY <2>2, <2>3, <3>1
  <2>5. PICK n : n = stream[pos + 1].n
    OBVIOUS
  <2>6. n \in Nat /\ n > 0
    <3>1. pos + 1 \in 1..Len(stream)
      BY <1>3, <1>5, TypeFacts
    <3>2. stream[pos + 1] \in TokenType
      BY <1>3, <3>1, TheClient
    <3>3. n \in Nat
      BY <2>5, <3>2 DEF TokenType
    <3> QED BY <1>8, <2>5, <3>3, Constants
  <2>7. /\ pos + 1 + n + 2 <= EndOf(k)
        /\ \A j \in (pos + 1 + 1)..(pos + 1 + n) : stream[j].t = "byte"
        /\ \E x \in 1..Len(requests[k].chunks) : requests[k].chunks[x] = n
    BY <2>4, <2>5, <2>6 DEF IsChunk
  <2>8. stream[pos' + 1].t # "size"
    <3>1. pos' + 1 \in (pos + 1 + 1)..(pos + 1 + n)
      BY <1>3, <1>8, <2>6
    <3> QED BY <2>7, <3>1
  <2>9. Bytes(k, pos + 1) = Bytes(k, pos) /\ Bytes(k, pos) \in Nat
    <3>1. \A i \in (pos + 1)..(pos + 1) : stream[i].r # k \/ stream[i].t # "byte"
      BY <1>3, <2>2
    <3> QED BY <1>3, <3>1, BytesStay, BytesAreFinite
  <2>10. HeadOf(k) <= pos' /\ pos' < EndOf(k) /\ Bytes(k, pos') <= MaxTE
    BY <1>3, <1>6, <1>8, <2>2, <2>6, <2>7, <2>9, SMTT(30)
  <2>11. BadChunks(k)
    <3>1. CASE n > MaxTEChunk
      <4>1. PICK x \in 1..Len(requests[k].chunks) : requests[k].chunks[x] = n
        BY <2>7
      <4>2. requests[k].chunks[x] > MaxTEChunk
        BY <3>1, <4>1
      <4> QED BY <1>3, <4>2 DEF BadChunks
    <3>2. CASE conn.dec.total + n > MaxTE
      <4>1. PICK p \in Nat : p = pos + 1
        BY <1>3
      <4>2. \A i \in (p + 1)..(p + n) : stream[i].r = k /\ stream[i].t = "byte"
        <5> SUFFICES ASSUME NEW i \in (p + 1)..(p + n) PROVE stream[i].r = k /\ stream[i].t = "byte"
          OBVIOUS
        <5>1. i \in (pos + 1 + 1)..(pos + 1 + n) /\ i \in Nat /\ HeadOf(k) <= i /\ i <= EndOf(k)
          <6>1. p + n + 2 <= EndOf(k) /\ HeadOf(k) <= p
            BY <1>3, <1>6, <2>2, <2>6, <2>7, <4>1
          <6>2. i \in Nat /\ p <= i /\ i <= p + n
            BY <2>6, <4>1
          <6>3. HeadOf(k) <= i /\ i <= EndOf(k)
            BY <1>6, <2>6, <4>1, <6>1, <6>2
          <6>4. i \in (pos + 1 + 1)..(pos + 1 + n)
            BY <4>1
          <6> QED BY <6>2, <6>3, <6>4
        <5> QED BY <1>3, <2>7, <5>1, FramingOf
      <4>3. Bytes(k, p + n) = Bytes(k, p) + n
        BY <2>6, <4>1, <4>2, BytesGrow
      <4>4. p + n \in Nat /\ p + n <= Len(stream)
        BY <1>3, <1>6, <2>6, <2>7, <4>1, FramingOf
      <4>5. Bytes(k, p + n) <= BodyUnits(k) /\ BodyUnits(k) \in Nat
        BY <1>3, <4>4, BytesBound
      <4>6. BodyUnits(k) > MaxTE
        BY <2>2, <2>6, <2>9, <3>2, <4>1, <4>3, <4>5, Constants
      <4> QED BY <1>3, <4>6 DEF BadChunks
    <3> QED BY <1>8, <2>5, <3>1, <3>2
  <2> QED BY <1>2, <1>8, <2>8, <2>10, <2>11
<1>9. CASE conn.dec.state = "CHUNK_CRLF" /\ Unit(1) # "crlf" /\ pos' = pos
  BY <1>3, <1>5, <1>9 DEF DecoderPlace, AtCrlf
<1> QED BY <1>1, <1>7, <1>8, <1>9 DEF Misplaced

\* The decoder throws in the handler's read: the body is stuck there.
LEMMA RefusesSpot == ASSUME Base, Place, Count, Refuses, conn.rd.who = "handler" PROVE Place' /\ Count'
<1>1. /\ client' = client /\ conn.pc = "chunk" /\ zeros' = zeros /\ Broken /\ conn'.dec.state = conn.dec.state
  BY DEF Refuses, Calm, Server0
<1>2. /\ conn'.req = conn.req /\ conn'.body = conn.body /\ conn'.fed = conn.fed /\ conn'.foreign = conn.foreign
      /\ conn'.cause = conn.cause /\ conn'.pc = "drain"
  BY <1>1 DEF Broken
<1>3. ~Seeking' /\ ~Opening' /\ Reading' /\ ~Replying' /\ ~Handling' /\ (Upright' <=> Upright)
  BY <1>2, Regions DEF Upright
<1>4. PICK k : k = conn.req /\ k = conn'.req
  BY <1>2
<1>5. conn.body.kind = "chunked" /\ ~conn.body.exhausted
  BY <1>1 DEF Base, Control
<1>6. ASSUME zeros = 0, Upright PROVE BodyPlace(k)'
  <2>1. /\ conn.dec.state = "CHUNK_SIZE" /\ BadChunks(k)
        /\ HeadOf(k) <= pos' /\ pos' < EndOf(k) /\ stream[pos' + 1].t # "size"
        /\ Bytes(k, pos') <= MaxTE
    BY <1>4, <1>6, RefusesPlace
  <2>2. stream' = stream /\ BadChunks(k)' = BadChunks(k) /\ Bytes(k, pos)' = Bytes(k, pos')
    BY <1>1, StreamFixed
  <2>3. Within(k)'
    BY <1>1, <2>1, WithinNext
  <2>4. Stuck(k)'
    BY <2>1, <2>2, <2>3 DEF Stuck
  <2>5. DecoderPlace(k)'
    BY <1>1, <2>1, <2>4 DEF DecoderPlace
  <2> QED BY <1>2, <1>5, <2>5 DEF BodyPlace
<1>7. Place'
  BY <1>1, <1>3, <1>4, <1>6, PlaceNext
<1>8. (conn'.foreign => ~Upright') /\ ~conn'.body.exhausted
  BY <1>2, <1>3, <1>5 DEF Count
<1>9. Count'
  BY <1>1, <1>2, <1>3, <1>4, <1>8, CountNext
<1> QED BY <1>7, <1>9

\* In drain() an exception leaves run(), and the request is to blame.
LEMMA RefusesHangsUp == ASSUME Base, Place, Refuses, conn.rd.who = "drain" PROVE HangUp
<1>1. Close /\ conn.pc = "chunk" /\ client' = client /\ conn'.thrown /\ conn'.req = conn.req
  BY RefusesBase DEF Refuses, Gone, Calm, Server0
<1>2. InRequest
  BY <1>1 DEF InRequest
<1>3. CASE zeros # 0
  <2>1. zeros > 0
    BY <1>3, TypeFacts
  <2>2. fin
    BY <2>1 DEF Base, Waiting
  <2> QED BY <1>1, <2>2 DEF HangUp, Excused
<1>4. CASE ~Upright
  <2>1. conn.cause # {}
    BY <1>4 DEF Upright
  <2> QED BY <1>1, <1>2, <2>1 DEF HangUp, Excused
<1>5. CASE zeros = 0 /\ Upright
  <2>1. BadChunks(conn.req)
    BY <1>5, RefusesPlace
  <2>2. Unreadable(Req)'
    BY <1>1, <2>1, UnreadableKept
  <2> QED BY <1>1, <1>2, <2>2 DEF HangUp, Excused
<1> QED BY <1>3, <1>4, <1>5

-----------------------------------------------------------------------------
(* The invariant                                                             *)

\* A wait in the body is a wait for something.
LEMMA SleepsShort ==
  ASSUME Base, Suspend, LengthRead \/ LengthDrain \/ ReadSome
  PROVE  /\ conn.pc = "lengthRead" => ~RestIsThere
         /\ conn.pc = "lengthDrain" => ~CanDrain
         /\ conn.pc = "chunk" => ~ChunkReady /\ conn.dec.state # "DONE"
<1>1. ~suspended /\ suspended' # suspended
  BY TypeFacts DEF Suspend
<1>2. ASSUME LengthRead PROVE conn.pc = "lengthRead" /\ ~RestIsThere
  BY <1>1, <1>2 DEF LengthRead, At
<1>3. ASSUME LengthDrain PROVE conn.pc = "lengthDrain" /\ ~CanDrain
  BY <1>1, <1>3 DEF LengthDrain, At
<1>4. ASSUME ReadSome PROVE conn.pc = "chunk" /\ ~ChunkReady /\ conn.dec.state # "DONE"
  BY <1>1, <1>4 DEF ReadSome, At
<1> QED BY <1>2, <1>3, <1>4

\* And then some of the request has not been received.
LEMMA SuspendWaits ==
  ASSUME Base, Place, Suspend,
         conn.pc = "lengthRead" => ~RestIsThere,
         conn.pc = "lengthDrain" => ~CanDrain,
         conn.pc = "chunk" => ~ChunkReady /\ conn.dec.state # "DONE"
  PROVE  WaitsForTheMissing'
<1>1. client' = client /\ taken' = taken /\ conn' = conn
  BY DEF Suspend, Server0
<1>2. PICK k : k = conn.req /\ k = conn'.req
  BY <1>1
<1>3. EndOf(conn.req)' = EndOf(k)
  <2>1. EndOf(k)' = EndOf(k)
    BY <1>1, StreamFixed
  <2> QED BY <1>2, <2>1
<1> SUFFICES ASSUME conn.pc \in {"lengthRead", "lengthDrain", "chunk"}, conn.cause = {}, ~conn.rd.search
             PROVE  taken < EndOf(k)
  BY <1>1, <1>3 DEF WaitsForTheMissing
<1>4. Reading /\ Upright /\ zeros = 0
  <2>1. ~fin
    BY DEF Suspend
  <2>2. zeros \in Nat /\ ~(zeros > 0)
    BY <2>1, TypeFacts DEF Base, Waiting
  <2> QED BY <2>2 DEF Reading, Upright
<1>5. k \in 1..Len(requests) /\ client \in Clients /\ conn.body.kind = requests[k].framing
  BY <1>2, <1>4, InTheBody
<1>t. pos \in Nat /\ taken \in Nat /\ ReadBufferSize = (taken + zeros) - pos /\ ReadBufferSize \in Nat /\ conn.body.remaining \in Nat
  BY TypeFacts, ConnFacts
<1>6. ReadBufferSize = taken - pos /\ pos <= taken
  BY <1>4, <1>t
<1>7. HeadOf(k) \in Nat /\ EndOf(k) \in Nat
  BY <1>5, FramingOf
<1>8. CASE conn.pc \in {"lengthRead", "lengthDrain"}
  <2>1. conn.body.kind = "length" /\ ~conn.body.exhausted
    BY <1>8 DEF Base, Control
  <2>2. LengthPlace(k)
    BY <1>2, <1>4, <2>1 DEF BodyPlace, Place
  <2>3. pos + conn.body.remaining = EndOf(k)
    BY <2>1, <2>2 DEF LengthPlace
  <2>4. ~(ReadBufferSize >= conn.body.remaining)
    BY <1>8 DEF RestIsThere, CanDrain
  <2> QED BY <1>6, <1>7, <1>t, <2>3, <2>4
<1>9. CASE conn.pc = "chunk"
  <2>0. DecoderPlace(k) /\ requests[k].framing = "chunked"
    BY <1>2, <1>4, <1>9, Decoding
  <2>1. stream[EndOf(k)].t = "crlf"
    BY <1>5, <2>0, FramingOf
  <2>2. SUFFICES ASSUME EndOf(k) <= taken PROVE FALSE
    BY <1>7, <1>t
  <2>3. conn.dec.state \in {"CHUNK_SIZE", "CHUNK_BODY", "CHUNK_CRLF", "TRAILER", "DONE"}
    BY TypeFacts, ConnFacts
  <2>p. pos < EndOf(k)
    <3>1. Within(k)
      BY <1>9, <2>0, <2>3 DEF DecoderPlace, AtSize, Stuck, InChunk, AtCrlf, InTrailer
    <3> QED BY <3>1 DEF Within
  <2>4. PICK e \in Nat : e = EndOf(k) - pos
    BY <1>7, <1>t, <2>p
  <2>5. e \in 1..ReadBufferSize /\ pos + e = EndOf(k) /\ ReadBufferSize > 0
    BY <1>6, <1>7, <1>t, <2>2, <2>p, <2>4
  <2>6. Unit(e) = "crlf" /\ EndsLine(e)
    BY <2>1, <2>2, <2>5 DEF Unit, EndsLine
  <2>7. CASE conn.dec.state = "CHUNK_SIZE"
    <3>1. e \in LineEnds
      BY <2>5, <2>6 DEF LineEnds
    <3> QED BY <1>9, <2>7, <3>1 DEF ChunkReady
  <2>8. CASE conn.dec.state \in {"CHUNK_BODY", "CHUNK_CRLF"}
    BY <1>9, <2>5, <2>8 DEF ChunkReady
  <2>9. CASE conn.dec.state = "TRAILER"
    <3>1. \A i \in (pos + 1)..(EndOf(k) - 1) : stream[i].t = "field"
      BY <2>0, <2>9 DEF DecoderPlace, InTrailer
    <3>2. CASE e = 1
      BY <1>9, <2>5, <2>6, <2>9, <3>2 DEF ChunkReady
    <3>3. CASE e # 1
      <4>1. e > 1 /\ pos + (e - 1) \in (pos + 1)..(EndOf(k) - 1) /\ pos + (e - 1) <= taken
        BY <1>7, <1>t, <2>2, <2>5, <3>3
      <4>2. EndsLine(e - 1)
        BY <3>1, <4>1 DEF EndsLine, Unit
      <4>3. e \in BlankLines
        BY <2>5, <2>6, <4>1, <4>2 DEF BlankLines
      <4> QED BY <1>9, <2>9, <4>3 DEF ChunkReady
    <3> QED BY <3>2, <3>3
  <2> QED BY <1>9, <2>3, <2>7, <2>8, <2>9
<1> QED BY <1>8, <1>9

\* The invariant is kept by every kind of step.
LEMMA OnwardStep == ASSUME IInv, Onward, Base', Order', Place', Count' PROVE IInv'
<1>1. Sequel' /\ Quiet'
  BY OnwardSequel DEF IInv
<1> QED BY <1>1 DEF IInv

\* The order is kept by all steps onward but the one that finds a head.
LEMMA OnwardKinds == ASSUME IInv, ~HeadOk, Onward, Base', Place', Count' PROVE IInv'
<1>1. Order'
  BY OnwardOrder DEF IInv
<1> QED BY <1>1, OnwardStep

\* ReadHead: a head is found.
LEMMA HeadOkStep == ASSUME IInv, HeadOk PROVE IInv'
<1>1. Base' /\ Order' /\ Place' /\ Count'
  BY HeadOkBase, HeadOkSpot DEF IInv
<1> QED BY <1>1, OnwardStep DEF Onward

\* No other step goes from "head" to "expect".
LEMMA NotHeadOk == ASSUME conn.pc # "head" \/ conn'.pc # "expect" PROVE ~HeadOk
  BY DEF HeadOk

\* run() goes on.
LEMMA PassesStep ==
  ASSUME IInv, \/ conn.pc = "handshake" /\ Passes("top")
               \/ conn.pc = "top" /\ conn.keepAlive /\ Passes("head")
               \/ conn.pc = "top" /\ ~conn.keepAlive /\ Passes("linger")
               \/ conn.pc = "expect" /\ Passes("body")
               \/ conn.pc = "drain" /\ (conn.body.exhausted \/ conn.body.kind = "none") /\ Passes("answer")
  PROVE  IInv'
<1>0. Base /\ Sequel /\ Order /\ Place /\ Count
  BY DEF IInv
<1>1. Base'
  BY <1>0, PassesBase
<1>2. ~HeadOk
  BY NotHeadOk
<1>k. conn.pc = "handshake" => conn.keepAlive
  BY <1>0 DEF Base, Control
<1>3. CASE (conn.pc = "handshake" /\ Passes("top")) \/ (conn.pc = "top" /\ conn.keepAlive /\ Passes("head"))
           \/ (conn.pc = "expect" /\ Passes("body"))
  <2>1. Rests
    BY <1>0, <1>3, <1>k, PassesRests
  <2>2. Place' /\ Count'
    BY <1>0, <2>1, RestsSpot
  <2>3. Onward
    BY <1>3, <1>k DEF Onward
  <2> QED BY <1>1, <1>2, <2>2, <2>3, OnwardKinds
<1>4. CASE conn.pc = "top" /\ ~conn.keepAlive /\ Passes("linger")
  <2>1. Rests
    BY <1>0, <1>4, PassesRests
  <2>2. Place' /\ Count'
    BY <1>0, <2>1, RestsSpot
  <2>3. Sequel' /\ Quiet' /\ Order'
    BY <1>0, <1>4, LingerSequel, LingerOrder
  <2> QED BY <1>1, <2>2, <2>3 DEF IInv
<1>5. CASE conn.pc = "drain" /\ (conn.body.exhausted \/ conn.body.kind = "none") /\ Passes("answer")
  <2>1. Place' /\ Count'
    BY <1>0, <1>5, DrainedSpot
  <2>2. Onward
    BY <1>5 DEF Onward
  <2> QED BY <1>1, <1>2, <2>1, <2>2, OnwardKinds
<1> QED BY <1>3, <1>4, <1>5

\* The steps between finding a head and announcing the answer.
LEMMA InnerStep ==
  ASSUME IInv, \/ Attach \/ StartRead("handler") \/ StartRead("drain") \/ NothingToRead \/ ToDrain \/ Strip
               \/ Skips \/ Drained \/ Dropped \/ SizeTaken \/ CrlfTaken
               \/ (\E n \in Nat : BodyTaken(n)) \/ (\E n \in Nat : TrailerTaken(n)) \/ (\E n \in Nat : Copies(n))
               \/ SomeReturned \/ ReadBreaks
               \/ (Refuses /\ conn.rd.who = "handler")
  PROVE  IInv'
<1>0. Base /\ Sequel /\ Order /\ Place /\ Count
  BY DEF IInv
<1>1. Onward
  BY DEF Onward
<1>2. ~HeadOk
  <2>1. CASE \/ Attach \/ StartRead("handler") \/ StartRead("drain") \/ NothingToRead \/ ToDrain
             \/ Skips \/ Drained \/ SomeReturned \/ ReadBreaks \/ Refuses \/ (\E n \in Nat : Copies(n))
    BY <2>1, NotHeadOk DEF Attach, StartRead, NothingToRead, ToDrain, Skips, Drained, SomeReturned, ReadBreaks, Refuses, Copies
  <2>2. CASE Dropped \/ SizeTaken \/ CrlfTaken \/ (\E n \in Nat : BodyTaken(n)) \/ (\E n \in Nat : TrailerTaken(n))
    <3>1. Turns
      BY <2>2 DEF Dropped, SizeTaken, CrlfTaken, BodyTaken, TrailerTaken
    <3> QED BY <3>1, NotHeadOk DEF Turns
  <2>3. CASE Strip
    BY <2>3, NotHeadOk DEF Strip
  <2> QED BY <2>1, <2>2, <2>3
<1>3. Base'
  <2>1. CASE Attach \/ StartRead("handler") \/ StartRead("drain") \/ NothingToRead \/ ToDrain \/ Strip
    BY <1>0, <2>1, AttachBase, StartReadBase, NothingToReadBase, ToDrainBase, StripBase
  <2>2. CASE Skips \/ Drained \/ SomeReturned \/ ReadBreaks \/ Refuses \/ (\E n \in Nat : Copies(n))
    BY <1>0, <2>2, SkipsBase, DrainedBase, SomeReturnedBase, ReadBreaksBase, RefusesBase, CopiesBase
  <2>3. CASE Dropped \/ SizeTaken \/ CrlfTaken \/ (\E n \in Nat : BodyTaken(n)) \/ (\E n \in Nat : TrailerTaken(n))
    BY <1>0, <2>3, TurnBase
  <2> QED BY <2>1, <2>2, <2>3
<1>4. Place' /\ Count'
  <2>1. CASE StartRead("handler") \/ StartRead("drain") \/ ToDrain \/ Dropped \/ ReadBreaks
    <3>1. Rests
      BY <1>0, <2>1, StepRests, DroppedRests, ReadBreaksRests
    <3> QED BY <1>0, <3>1, RestsSpot
  <2>2. CASE Attach \/ NothingToRead \/ Strip
    BY <1>0, <2>2, AttachSpot, NothingToReadSpot, StripSpot
  <2>3. CASE Skips \/ Drained
    BY <1>0, <2>3, SkipsSpot, DrainedSpot
  <2>4. CASE SizeTaken \/ CrlfTaken \/ SomeReturned
    BY <1>0, <2>4, SizeTakenSpot, CrlfTakenSpot, SomeReturnedSpot
  <2>5. ASSUME NEW n \in Nat, BodyTaken(n) PROVE Place' /\ Count'
    BY <1>0, <2>5, BodyTakenSpot
  <2>6. ASSUME NEW n \in Nat, TrailerTaken(n) PROVE Place' /\ Count'
    BY <1>0, <2>6, TrailerTakenSpot
  <2>7. ASSUME NEW n \in Nat, Copies(n) PROVE Place' /\ Count'
    BY <1>0, <2>7, CopiesSpot
  <2>8. CASE Refuses /\ conn.rd.who = "handler"
    BY <1>0, <2>8, RefusesSpot
  <2> QED BY <2>1, <2>2, <2>3, <2>4, <2>5, <2>6, <2>7, <2>8
<1> QED BY <1>1, <1>2, <1>3, <1>4, OnwardKinds

\* The steps that lead to a write.
LEMMA WriteStep == ASSUME IInv, Fail \/ ToContinue \/ Announce \/ ToSend PROVE IInv'
<1>0. Base /\ Sequel /\ Order /\ Place /\ Count
  BY DEF IInv
<1>1. Base'
  BY <1>0, FailBase, ToContinueBase, AnnounceBase, ToSendBase
<1>2. Sequel' /\ Quiet'
  BY <1>0, FailSequel, ToContinueSequel, AnnounceSequel, ToSendSequel
<1>3. Order'
  BY <1>0, FailOrder, ToContinueOrder, AnnounceOrder, ToSendOrder
<1>4. Rests
  BY <1>0, FailRests, StepRests
<1>5. Place' /\ Count'
  BY <1>0, <1>4, RestsSpot
<1> QED BY <1>1, <1>2, <1>3, <1>5 DEF IInv

\* run() returns.
LEMMA HangUpStep == ASSUME IInv, HangUp PROVE IInv'
<1>0. Base /\ Sequel /\ Order /\ Place /\ Count /\ Close
  BY DEF IInv, HangUp
<1> QED BY <1>0, CloseBase, HangUpSequel, CloseOrder, CloseSpot DEF IInv

\* run() looks again.
LEMMA ResumeStep == ASSUME IInv, Resume PROVE IInv'
<1>0. Base /\ Sequel /\ Order /\ Place /\ Count
  BY DEF IInv
<1>1. Base' /\ Sequel' /\ Quiet'
  BY <1>0, ResumeBase, ResumeSequel
<1>2. Order'
  BY <1>0, SameOrder DEF Resume, Read, Server0
<1>3. Rests
  BY <1>0, WaitRests
<1>4. Place' /\ Count'
  BY <1>0, <1>3, RestsSpot
<1> QED BY <1>1, <1>2, <1>4 DEF IInv

\* run() waits.
LEMMA SuspendStep ==
  ASSUME IInv, Suspend,
         \/ conn.pc \notin {"lengthRead", "lengthDrain", "chunk"}
         \/ LengthRead \/ LengthDrain \/ ReadSome
  PROVE  IInv'
<1>0. Base /\ Sequel /\ Order /\ Place /\ Count
  BY DEF IInv
<1>1. Base' /\ Sequel' /\ NoSilentHangUp' /\ LingersBeforeClose'
  BY <1>0, SuspendBase, SuspendSequel
<1>2. Order'
  BY <1>0, SameOrder DEF Suspend, Server0
<1>3. Rests
  BY <1>0, WaitRests
<1>4. Place' /\ Count'
  BY <1>0, <1>3, RestsSpot
<1>5. WaitsForTheMissing'
  BY <1>0, SleepsShort, SuspendWaits
<1> QED BY <1>1, <1>2, <1>4, <1>5 DEF IInv, Quiet

\* The steps of a write.
LEMMA SentStep ==
  ASSUME IInv, ErrorSent \/ ContinueSent \/ AnswerSent \/ HeadSent \/ ChunkSent \/ LastSent \/ StreamErrorSent \/ SendFails
  PROVE  IInv'
<1>0. Base /\ Sequel /\ Order /\ Place /\ Count
  BY DEF IInv
<1>l. ASSUME conn.pc = "file" \/ (conn.pc = "send" /\ conn.resp.kind \in LaterKinds) PROVE out # <<>>
  BY <1>0, <1>l DEF Sequel, InAnswer
<1>1. out' \in Seq(ShownType)
  <2>1. CASE ErrorSent \/ ContinueSent \/ AnswerSent \/ HeadSent
    <3>1. PICK whole \in BOOLEAN : Shows(whole)
      BY <2>1 DEF ErrorSent, ContinueSent, AnswerSent, HeadSent
    <3> QED BY <1>0, <3>1, ShowsFacts
  <2>2. CASE ChunkSent
    BY <1>0, <2>2, TypeFacts DEF ChunkSent
  <2>3. CASE LastSent \/ StreamErrorSent
    <3>1. PICK whole \in BOOLEAN : Ends(whole)
      BY <2>3 DEF LastSent, StreamErrorSent
    <3>2. out # <<>>
      BY <1>l, <2>3 DEF LastSent, StreamErrorSent, LaterKinds
    <3> QED BY <1>0, <3>1, <3>2, EndsFacts
  <2>4. CASE SendFails
    <3>1. CASE \E whole \in BOOLEAN : Shows(whole)
      BY <1>0, <3>1, ShowsFacts
    <3>2. CASE out' = out
      BY <1>0, <3>2, TypeFacts
    <3>3. CASE conn.resp.kind \in {"lastChunk", "streamError"} /\ \E whole \in BOOLEAN : Ends(whole)
      <4>1. out # <<>>
        BY <1>l, <2>4, <3>3 DEF SendFails, LaterKinds
      <4> QED BY <1>0, <3>3, <4>1, EndsFacts
    <3> QED BY <2>4, <3>1, <3>2, <3>3 DEF SendFails
  <2> QED BY <2>1, <2>2, <2>3, <2>4
<1>2. Base'
  BY <1>0, <1>1, SentBase, RenewedBase, ShutBase
<1>3. Sequel' /\ Quiet'
  BY <1>0, ErrorSentSequel, ContinueSentSequel, AnswerSentSequel, HeadSentSequel, ChunkSentSequel, LastSentSequel, ShutSequel
<1>4. CASE AnswerSent \/ LastSent
  BY <1>0, <1>2, <1>3, <1>4, AnswerSentSpot, LastSentSpot DEF IInv
<1>5. CASE ErrorSent \/ ContinueSent \/ HeadSent \/ ChunkSent \/ StreamErrorSent \/ SendFails
  <2>1. Order'
    BY <1>0, <1>5, ErrorSentOrder, ContinueSentOrder, HeadSentOrder, ChunkSentOrder, ShutOrder
  <2>2. Rests
    BY <1>0, <1>5, SentRests
  <2>3. Place' /\ Count'
    BY <1>0, <2>2, RestsSpot
  <2> QED BY <1>2, <1>3, <2>1, <2>3 DEF IInv
<1> QED BY <1>4, <1>5

-----------------------------------------------------------------------------
(* Every action, and the theorems                                            *)

\* A new connection, before the handshake.
LEMMA StartBase == ASSUME Init PROVE Base
<1>1. NoBody \in BodyType /\ NewDecoder \in DecoderType
  BY DEF NoBody, BodyType, NewDecoder, DecoderType
<1>2. NoRead \in ReadType
  BY DEF NoRead, ReadType
<1>3. NoAnswer \in AnswerType
  BY DEF NoAnswer, AnswerType
<1>4. conn \in ConnType
  BY <1>1, <1>2, <1>3 DEF Init, ConnType, Labels
<1>5. client \in Clients /\ Len(stream) \in Nat
  BY TheClient DEF Init
<1>6. out \in Seq(ShownType)
  BY DEF Init
<1>7. TypeOK
  <2>1. sent \in Nat /\ taken \in Nat /\ zeros \in Nat /\ pos \in Nat /\ partials \in Nat
        /\ sent = 0 /\ taken = 0 /\ zeros = 0 /\ pos = 0
    BY DEF Init
  <2>2. sent <= Len(stream) /\ taken <= sent /\ pos <= taken + zeros
    BY <1>5, <2>1
  <2>3. fin \in BOOLEAN /\ shutdown \in BOOLEAN /\ suspended \in BOOLEAN /\ timedOut \in BOOLEAN
    BY DEF Init
  <2> QED BY <1>4, <1>5, <1>6, <2>1, <2>2, <2>3 DEF TypeOK
<1>8. conn.pc = "handshake" /\ conn.keepAlive /\ conn.req = 0 /\ conn.body = NoBody /\ conn.dec = NewDecoder
      /\ conn.rd = NoRead /\ conn.resp.kind = "none" /\ out = <<>> /\ suspended = FALSE /\ zeros = 0
      /\ timedOut = FALSE
  BY DEF Init, NoAnswer
<1>9. Control
  BY <1>8 DEF Control, InRequest
<1>10. Waiting
  BY <1>8 DEF Waiting
<1> QED BY <1>7, <1>9, <1>10 DEF Base

\* The invariant holds before the handshake.
LEMMA Start == ASSUME Init PROVE IInv
<1>1. Base
  BY StartBase
<1>2. conn.pc = "handshake" /\ conn.keepAlive /\ conn.req = 0 /\ conn.body = NoBody /\ conn.dec = NewDecoder
      /\ conn.rd = NoRead /\ conn.resp.kind = "none" /\ out = <<>> /\ suspended = FALSE /\ zeros = 0
      /\ timedOut = FALSE /\ conn.foreign = FALSE /\ pos = 0 /\ client \in Clients /\ conn.fed = 0
  BY DEF Init, NoAnswer
<1>3. Len(out) = 0
  BY <1>2
<1>4. Sequel
  BY <1>2, <1>3 DEF Sequel, InAnswer
<1>5. Order
  BY <1>2, <1>3 DEF Order, InAnswer, InRequest
<1>6. Finals = 0
  BY <1>2, <1>3, FinalsNone DEF Finals
<1>7. Begins(Finals + 1, pos)
  BY <1>2, <1>6, FirstBegins
<1>8. ~Opening /\ ~Reading /\ ~Replying /\ ~Handling
  BY <1>2 DEF Opening, Reading, Replying, Handling
<1>9. Place
  BY <1>7, <1>8 DEF Place
<1>10. Count
  BY <1>2, <1>8 DEF Count, NoBody
<1>11. Quiet
  BY <1>2 DEF Quiet, WaitsForTheMissing, NoSilentHangUp, LingersBeforeClose, At
<1> QED BY <1>1, <1>4, <1>5, <1>9, <1>10, <1>11 DEF IInv

\* The steps of the server, one by one.
LEMMA HeadStep == ASSUME IInv, Handshake \/ Top \/ StripCrlf \/ ReadHead \/ Expect \/ Body PROVE IInv'
<1>0. Base
  BY DEF IInv
<1>1. CASE Handshake
  <2>1. conn.pc = "handshake" /\ (Passes("top") \/ HangUp \/ Suspend \/ Resume)
    BY <1>0, <1>1, HandshakeMoves
  <2> QED BY <2>1, PassesStep, HangUpStep, SuspendStep, ResumeStep
<1>2. CASE Top
  <2>1. conn.pc = "top" /\ ((conn.keepAlive /\ Passes("head")) \/ (~conn.keepAlive /\ Passes("linger")))
    BY <1>0, <1>2, TopMoves
  <2> QED BY <2>1, PassesStep
<1>3. CASE StripCrlf
  <2>1. Strip
    BY <1>0, <1>3, StripMoves
  <2> QED BY <2>1, InnerStep
<1>4. CASE ReadHead
  <2>1. conn.pc = "head" /\ (Fail \/ HeadOk \/ Suspend \/ HangUp \/ Resume)
    BY <1>0, <1>4, ReadHeadMoves
  <2> QED BY <2>1, WriteStep, HeadOkStep, HangUpStep, SuspendStep, ResumeStep
<1>5. CASE Expect
  <2>1. conn.pc = "expect" /\ (Passes("body") \/ Fail \/ HangUp \/ ToContinue)
    BY <1>0, <1>5, ExpectMoves
  <2> QED BY <2>1, PassesStep, WriteStep, HangUpStep
<1>6. CASE Body
  <2>1. Fail \/ Attach
    BY <1>0, <1>6, BodyMoves
  <2> QED BY <2>1, WriteStep, InnerStep
<1> QED BY <1>1, <1>2, <1>3, <1>4, <1>5, <1>6

\* The handler.
LEMMA HandlerStep == ASSUME IInv, Handler PROVE IInv'
<1>0. Base
  BY DEF IInv
<1>1. ASSUME NEW size \in Nat, size > 0, NEW all \in BOOLEAN, HandlerReads(size, all) PROVE IInv'
  <2>1. StartRead("handler") \/ NothingToRead
    BY <1>0, <1>1, HandlerReadsMoves
  <2> QED BY <2>1, InnerStep
<1>2. ASSUME NEW size \in BufSizes, HandlerReads(size, FALSE) PROVE IInv'
  <2>1. size \in Nat /\ size > 0
    BY Constants
  <2> QED BY <1>1, <1>2, <2>1
<1>3. CASE HandlerReads(Scratch, TRUE)
  BY <1>1, <1>3, Constants
<1>4. CASE (\E kind \in Answers : HandlerAnswers(kind)) \/ (\E fatal \in BOOLEAN : HandlerThrows(fatal))
  <2>1. ToDrain
    BY <1>0, <1>4, HandlerAnswersMoves
  <2> QED BY <2>1, InnerStep
<1> QED BY <1>2, <1>3, <1>4 DEF Handler

\* The body stream.
LEMMA BodyStep == ASSUME IInv, LengthRead \/ ReadSome \/ Drain \/ LengthDrain PROVE IInv'
<1>0. Base /\ Place
  BY DEF IInv
<1>1. CASE LengthRead
  <2>1. (\E n \in Nat : Copies(n)) \/ Suspend \/ ReadBreaks \/ HangUp
    BY <1>0, <1>1, LengthReadMoves
  <2> QED BY <1>1, <2>1, InnerStep, SuspendStep, HangUpStep
<1>2. CASE Drain
  <2>1. conn.pc = "drain"
        /\ (((conn.body.exhausted \/ conn.body.kind = "none") /\ Passes("answer")) \/ StartRead("drain"))
    BY <1>0, <1>2, DrainMoves
  <2> QED BY <2>1, PassesStep, InnerStep
<1>3. CASE LengthDrain
  <2>1. Skips \/ Suspend \/ Resume \/ ReadBreaks \/ HangUp
    BY <1>0, <1>3, LengthDrainMoves
  <2> QED BY <1>3, <2>1, InnerStep, SuspendStep, ResumeStep, HangUpStep
<1>4. CASE ReadSome
  <2>1. /\ conn.pc = "chunk"
        /\ \/ SomeReturned \/ Drained \/ Dropped \/ SizeTaken \/ CrlfTaken \/ Refuses
           \/ (\E n \in Nat : BodyTaken(n)) \/ (\E n \in Nat : TrailerTaken(n))
           \/ Suspend \/ Resume \/ ReadBreaks \/ HangUp
    BY <1>0, <1>4, ReadSomeMoves
  <2>2. conn.rd.who \in {"handler", "drain"}
    BY <1>0, <2>1 DEF Base, Control
  <2>3. CASE Refuses
    <3>1. CASE conn.rd.who = "handler"
      BY <2>3, <3>1, InnerStep
    <3>2. CASE conn.rd.who = "drain"
      BY <1>0, <2>3, <3>2, RefusesHangsUp, HangUpStep
    <3> QED BY <2>2, <3>1, <3>2
  <2>4. CASE SomeReturned \/ Drained \/ Dropped \/ SizeTaken \/ CrlfTaken \/ ReadBreaks
             \/ (\E n \in Nat : BodyTaken(n)) \/ (\E n \in Nat : TrailerTaken(n))
    BY <2>4, InnerStep
  <2>5. CASE Suspend \/ Resume \/ HangUp
    BY <1>4, <2>5, SuspendStep, ResumeStep, HangUpStep
  <2> QED BY <2>1, <2>3, <2>4, <2>5
<1> QED BY <1>1, <1>2, <1>3, <1>4

\* The answer.
LEMMA ReplyStep == ASSUME IInv, Answer \/ Write \/ Stream \/ SendFile \/ Linger PROVE IInv'
<1>0. Base
  BY DEF IInv
<1>1. CASE Answer
  <2>1. Announce \/ HangUp \/ Fail
    BY <1>0, <1>1, AnswerMoves
  <2> QED BY <2>1, WriteStep, HangUpStep
<1>2. CASE Write
  <2>1. conn.pc = "send" /\ (ErrorSent \/ ContinueSent \/ AnswerSent \/ HeadSent \/ ChunkSent \/ LastSent
                             \/ StreamErrorSent \/ SendFails \/ Suspend)
    BY <1>0, <1>2, WriteMoves
  <2> QED BY <2>1, SentStep, SuspendStep
<1>3. CASE Stream
  <2>1. ToSend \/ HangUp
    BY <1>0, <1>3, StreamMoves
  <2> QED BY <2>1, WriteStep, HangUpStep
<1>4. CASE SendFile
  <2>1. conn.pc = "file" /\ (LastSent \/ HangUp \/ Suspend \/ Resume)
    BY <1>0, <1>4, SendFileMoves
  <2> QED BY <2>1, SentStep, HangUpStep, SuspendStep, ResumeStep
<1>5. CASE Linger
  <2>1. conn.pc = "linger" /\ (Suspend \/ HangUp)
    BY <1>0, <1>5, LingerMoves
  <2> QED BY <2>1, SuspendStep, HangUpStep
<1> QED BY <1>1, <1>2, <1>3, <1>4, <1>5

\* All of run().
LEMMA ServerStep == ASSUME IInv, Server PROVE IInv'
BY HeadStep, HandlerStep, BodyStep, ReplyStep DEF Server

\* More of the stream on the way, the client's close, and the shutdown flag.
LEMMA EnvironmentStep == ASSUME IInv, ClientSends \/ ClientCloses \/ ServerShutsDown PROVE IInv'
<1>0. Base /\ Sequel /\ Order /\ Place /\ Count /\ Quiet
  BY DEF IInv
<1>1. /\ client' = client /\ pos' = pos /\ taken' = taken /\ zeros' = zeros /\ suspended' = suspended
      /\ conn' = conn /\ out' = out /\ conn.pc # "closed"
  BY <1>0, EnvironmentFields
<1>2. Base'
  BY <1>0, EnvironmentBase
<1>3. Sequel' /\ Order'
  BY <1>0, <1>1, SameSequel, SameOrder
<1>4. Rests
  <2>1. conn' \in ConnType
    BY <1>0, <1>1, TypeFacts
  <2>2. conn.pc = "lengthRead" => conn.rd.written = 0
    BY <1>0 DEF Count
  <2>3. (Seeking' => Seeking) /\ (Opening' => Opening) /\ (Reading' => Reading) /\ (Replying' => Replying)
        /\ (Handling' => Handling)
    BY <1>1 DEF Seeking, Opening, Reading, Replying, Handling
  <2> QED BY <1>1, <2>1, <2>2, <2>3 DEF Rests
<1>5. Place' /\ Count'
  BY <1>0, <1>4, RestsSpot
<1>6. WaitsForTheMissing'
  <2>1. EndOf(conn.req)' = EndOf(conn.req)
    BY <1>1, StreamFixed DEF EndOf, stream
  <2> QED BY <1>0, <1>1, <2>1 DEF Quiet, WaitsForTheMissing
<1>7. NoSilentHangUp' /\ LingersBeforeClose'
  BY <1>1 DEF NoSilentHangUp, LingersBeforeClose, At
<1> QED BY <1>2, <1>3, <1>5, <1>6, <1>7 DEF IInv, Quiet

\* And nothing at all.
LEMMA IdleStep == ASSUME IInv, UNCHANGED vars PROVE IInv'
<1>0. Base /\ Sequel /\ Order /\ Place /\ Count /\ Quiet
  BY DEF IInv
<1>1. /\ client' = client /\ sent' = sent /\ fin' = fin /\ partials' = partials /\ shutdown' = shutdown
      /\ pos' = pos /\ taken' = taken /\ zeros' = zeros /\ suspended' = suspended /\ timedOut' = timedOut
      /\ conn' = conn /\ out' = out
  BY DEF vars
<1>2. Base'
  <2>1. TypeOK'
    BY <1>0, <1>1 DEF Base, TypeOK, stream
  <2>2. Control'
    BY <1>0, <1>1 DEF Base, Control, InRequest, requests, Req
  <2>3. Waiting'
    BY <1>0, <1>1 DEF Base, Waiting
  <2> QED BY <2>1, <2>2, <2>3 DEF Base
<1>3. Sequel' /\ Order'
  BY <1>0, <1>1, SameSequel, SameOrder
<1>4. Place' /\ Count'
  <2>1. conn' \in ConnType
    BY <1>0, <1>1, TypeFacts
  <2>2. conn.pc = "lengthRead" => conn.rd.written = 0
    BY <1>0 DEF Count
  <2>3. (Seeking' => Seeking) /\ (Opening' => Opening) /\ (Reading' => Reading) /\ (Replying' => Replying)
        /\ (Handling' => Handling)
    BY <1>1 DEF Seeking, Opening, Reading, Replying, Handling
  <2>4. Rests
    BY <1>1, <2>1, <2>2, <2>3 DEF Rests
  <2> QED BY <1>0, <2>4, RestsSpot
<1>5. Quiet'
  BY <1>0, <1>1 DEF Quiet, WaitsForTheMissing, NoSilentHangUp, LingersBeforeClose, At, EndOf, stream, Unreadable,
     BodyUnits, ReadBufferSize, Req, requests, tls
<1> QED BY <1>2, <1>3, <1>4, <1>5 DEF IInv

\* The invariant.
LEMMA Inductive == Spec => []IInv
<1>1. Init => IInv
  BY Start
<1>2. IInv /\ [Next]_vars => IInv'
  BY ServerStep, EnvironmentStep, IdleStep DEF Next
<1> QED BY <1>1, <1>2, PTL DEF Spec

\* The connection keeps its types, and never parses past the end of readBuffer_.
THEOREM ConnectionTyped == Spec => []TypeOK
<1>1. IInv => TypeOK
  BY DEF IInv, Base
<1> QED BY <1>1, Inductive, PTL

\* Keep-alive works for every client and every size of buffer: whenever run()
\* looks for a head and no loss has been recorded, readOffset_ is where the
\* client's next request begins.
THEOREM KeepAliveFraming == Spec => []FramingKept
<1>1. ASSUME IInv PROVE FramingKept
  <2>0. Base /\ Place
    BY <1>1 DEF IInv
  <2>1. client \in Clients /\ pos \in Nat /\ out \in Seq(ShownType)
    BY <2>0, TypeFacts
  <2>2. Finals \in Nat
    BY <2>1, FinalsNat DEF Finals
  <2>3. ASSUME conn.pc = "head", conn.cause = {} PROVE AtBoundary(pos)
    <3>1. Begins(Finals + 1, pos)
      BY <2>0, <2>3 DEF Seeking, Place
    <3>2. Finals + 1 \in Nat /\ Finals + 1 > 0
      BY <2>2
    <3> QED BY <2>1, <3>1, <3>2, BeginsAtBoundary
  <2> QED BY <2>3 DEF FramingKept, At
<1> QED BY <1>1, Inductive, PTL

\* For every client, the final answers are those to its requests 1, 2, 3 in
\* this order as long as no loss has been recorded, and in any case nothing
\* follows an answer that was cut short or that announces a close the client
\* did not ask for.
THEOREM AnswersOrdered == Spec => []AnswersInOrder
<1>1. IInv => AnswersInOrder
  BY DEF IInv, Order, Sequel, Stands, AnswersInOrder
<1> QED BY <1>1, Inductive, PTL

\* For every body and every buffer, BodyStream::read hands out the units of
\* the request's own body and says it is exhausted when it has handed out all
\* of them, unless readFn or the search for a head has lost its place.
THEOREM BodiesDelivered == Spec => []BodyDelivered
<1>1. IInv => BodyDelivered
  BY DEF IInv, Count, Upright, BodyDelivered
<1> QED BY <1>1, Inductive, PTL

\* For every way the bytes come in, run() waits in the middle of a body only
\* for units that have not come, or for the end of trailers.
THEOREM NoNeedlessWait == Spec => []WaitsForTheMissing
<1>1. IInv => WaitsForTheMissing
  BY DEF IInv, Quiet
<1> QED BY <1>1, Inductive, PTL

\* For every client, run() returns without a word only to a client that has
\* gone or is late, in an answer it cannot finish, or because the request
\* cannot be read.
THEOREM HangUpsExplained == Spec => []NoSilentHangUp
<1>1. IInv => NoSilentHangUp
  BY DEF IInv, Quiet
<1> QED BY <1>1, Inductive, PTL

\* For every client, run() returns after a complete answer only once it has
\* lingered (awaitClientFinBeforeClose), unless a wait timed out, run() threw
\* or the next answer could not be sent.
THEOREM ClosesPolitely == Spec => []LingersBeforeClose
<1>1. IInv => LingersBeforeClose
  BY DEF IInv, Quiet
<1> QED BY <1>1, Inductive, PTL

=============================================================================
