--------------------------- MODULE HttpConnection ---------------------------
(* One connection: HttpConnection::run() with the ConnectionIO it reads and  *)
(* writes through, the BodyStream it hands to the handler and the            *)
(* ChunkDecoder behind a chunked body, against a client that sends when it   *)
(* likes, in pieces, ahead of the answers or not, stalls, and closes.        *)
(*                                                                           *)
(* Bytes come in units, the tokens of `stream': a "line" is a part of a      *)
(* request head and "head" its end with the blank line; "size" is a          *)
(* chunk-size line, "field" a trailer line, "crlf" a bare CRLF, "byte" one   *)
(* unit of a body.  All but "byte" end in CRLF.  The live part of            *)
(* readBuffer_ is stream[pos + 1 .. taken] followed by `zeros' units that    *)
(* were never received.  A chunked payload never looks like a size line.     *)
EXTENDS Integers, Sequences, FiniteSets, FiniteSetsExt, SequencesExt

CONSTANTS
  Clients,      \* records [tls, pipelined, requests, stream], see IsClient
  SingleRead,   \* SINGLE_READ_BYTES
  MaxHeader,    \* MAX_HEADER_BYTES
  MaxContent,   \* MAX_CONTENT_LENGTH
  MaxTEChunk,   \* MAX_TE_CHUNK_LENGTH
  MaxTE,        \* MAX_TE_LENGTH
  BufSizes,     \* sizes of the buffers handlers pass to BodyStream::read
  Scratch,      \* the 4096 bytes of readAll, streamUsing and of chunkDrainFn
  Word,         \* size_t is a number modulo Word
  MaxPartials,  \* bound: wake-ups by an incomplete TLS record
  MaxChunks     \* bound: chunks of a streamed answer

ASSUME Limits ==
  /\ {SingleRead, MaxHeader, MaxContent, MaxTEChunk, MaxTE, Scratch} \subseteq Nat \ {0}
  /\ BufSizes \subseteq Nat \ {0}
  /\ Word \in Nat /\ Word > MaxContent /\ Word > MaxTE
  /\ MaxPartials \in Nat /\ MaxChunks \in Nat

\* What the client sends: for each of its requests in turn bare CRLFs, the
\* head, and the body the head announces.  A request says how it is framed and
\* what else of it the server acts on; `broken' is a chunked body that does not
\* begin with a size line.
TokenType == [t : {"line", "head", "size", "field", "crlf", "byte"}, r : Nat, n : Nat]
RequestType ==
  [head : {"ok", "malformed", "nohost", "version"}, gap : Nat, lines : Nat,
   expect : {"none", "continue", "other"},
   framing : {"none", "length", "chunked", "both", "badLength", "otherTE"},
   len : Nat, chunks : Seq(Nat), broken : BOOLEAN, fields : Nat, close : BOOLEAN, route : Nat]

\* The size line at i is followed by a chunk of a size in `chunks' and another
\* size line, or else by trailers and the CRLF at e.
IsChunk(S, chunks, i, e) ==
  LET n == S[i].n
  IN IF n = 0 THEN \A j \in (i + 1)..(e - 1) : S[j].t = "field"
     ELSE /\ i + n + 2 <= e
          /\ \A j \in (i + 1)..(i + n) : S[j].t = "byte"
          /\ S[i + n + 1].t = "crlf" /\ S[i + n + 2].t = "size"
          /\ \E x \in 1..Len(chunks) : chunks[x] = n

\* The units b..e of S are the k-th request, r, with the end of its head at h.
IsMessage(S, k, r, b, h, e) ==
  /\ b <= h /\ h <= e
  /\ \A i \in 1..Len(S) : S[i].r = k <=> i \in b..e
  /\ S[h].t = "head"
  /\ \A i \in b..(h - 1) :
       S[i].t = "line" \/ (S[i].t = "crlf" /\ \A j \in b..i : S[j].t = "crlf")
  /\ CASE r.framing = "length" -> e = h + r.len /\ \A i \in (h + 1)..e : S[i].t = "byte"
       [] r.framing = "chunked" ->
            /\ h < e /\ S[e].t = "crlf" /\ (S[h + 1].t = "size" <=> ~r.broken)
            /\ r.broken \/ \A i \in (h + 1)..e : S[i].t = "size" => IsChunk(S, r.chunks, i, e)
       [] OTHER -> e = h

IsClient(c) ==
  /\ c.tls \in BOOLEAN /\ c.pipelined \in BOOLEAN
  /\ c.requests \in Seq(RequestType) /\ c.stream \in Seq(TokenType)
  /\ \A i, j \in 1..Len(c.stream) : i <= j => c.stream[i].r <= c.stream[j].r
  /\ \A i \in 1..Len(c.stream) : c.stream[i].r \in 1..Len(c.requests)
  /\ \A k \in 1..Len(c.requests) :
       \E b, h, e \in 1..Len(c.stream) : IsMessage(c.stream, k, c.requests[k], b, h, e)

ASSUME ClientsAreClients == \A c \in Clients : IsClient(c)

VARIABLES
  client,            \* which of Clients is connected (fixed)
  sent, fin,         \* how much of it is on the way; whether it has closed
  partials,          \* incomplete TLS records seen
  shutdown,          \* shutdown_
  pos, taken, zeros, \* readBuffer_ and readOffset_
  suspended,         \* whether run() waits in the executor
  timedOut,          \* tl_timed_out as the last resumption left it
  conn,              \* the frame of run() and the connection's members
  out                \* what the client can see of the answers

vars == <<client, sent, fin, partials, shutdown, pos, taken, zeros,
          suspended, timedOut, conn, out>>
clientVars == <<client, sent, fin, partials, shutdown>>
bufferVars == <<taken, zeros>>

\* The client's requests and all the units it will ever send.
requests == client.requests
stream == client.stream
tls == client.tls
Req == requests[conn.req]

NewDecoder == [state |-> "CHUNK_SIZE", left |-> 0, total |-> 0]
NoBody == [kind |-> "none", remaining |-> 0, exhausted |-> FALSE]
NoRead == [who |-> "nobody", size |-> 0, written |-> 0, all |-> FALSE, got |-> 0,
           search |-> FALSE]
NoAnswer == [kind |-> "none", status |-> 0, close |-> FALSE, chunks |-> 0]

Init ==
  /\ client \in Clients
  /\ sent = 0 /\ fin = FALSE /\ partials = 0 /\ shutdown = FALSE
  /\ pos = 0 /\ taken = 0 /\ zeros = 0
  /\ suspended = FALSE /\ timedOut = FALSE
  /\ conn = [pc |-> "handshake", req |-> 0, keepAlive |-> TRUE,
             body |-> NoBody, dec |-> NewDecoder, rd |-> NoRead, resp |-> NoAnswer,
             \* what has happened, for the properties
             fed |-> 0, foreign |-> FALSE, cause |-> {}, late |-> FALSE,
             thrown |-> FALSE, lingered |-> FALSE]
  /\ out = <<>>

At(label) == conn.pc = label
Goto(c, label) == [c EXCEPT !.pc = label]
Closed(c) == [c EXCEPT !.pc = "closed"]

-----------------------------------------------------------------------------
(* The client                                                                *)

NoHead == 0  \* the status of an answer that comes without a head

\* The requests whose final answer the client has and knows for one.
Answered ==
  {out[i].req : i \in {j \in 1..Len(out) : out[j].status \notin {NoHead, 100} /\ out[j].whole}}

ClientSends ==
  /\ ~At("closed") /\ ~fin /\ sent < Len(stream)
  /\ client.pipelined \/ 1..(stream[sent + 1].r - 1) \subseteq Answered
  /\ sent' = sent + 1
  /\ UNCHANGED <<client, fin, partials, shutdown, pos, taken, zeros,
                 suspended, timedOut, conn, out>>

ClientCloses ==
  /\ ~At("closed") /\ ~fin
  /\ fin' = TRUE
  /\ UNCHANGED <<client, sent, partials, shutdown, pos, taken, zeros,
                 suspended, timedOut, conn, out>>

ServerShutsDown ==
  /\ ~At("closed") /\ ~shutdown
  /\ shutdown' = TRUE
  /\ UNCHANGED <<client, sent, fin, partials, pos, taken, zeros,
                 suspended, timedOut, conn, out>>

-----------------------------------------------------------------------------
(* ConnectionIO                                                              *)

ReadBufferSize == (taken + zeros) - pos

\* The kind of the i-th unit of the read buffer.
Unit(i) == IF pos + i <= taken THEN stream[pos + i].t ELSE "zero"
EndsLine(i) == Unit(i) \notin {"byte", "zero"}

\* std::search for CRLF CRLF and for CRLF: the units after which a match ends.
BlankLines == {i \in 1..ReadBufferSize :
                 Unit(i) = "head" \/ (Unit(i) = "crlf" /\ i > 1 /\ EndsLine(i - 1))}
LineEnds == {i \in 1..ReadBufferSize : EndsLine(i)}

\* drainIntoReadBuffer: what one call finds, and what it leaves in the buffer.
\* At the end of the stream the room made for the data is not given back.
DrainIntoReadBuffer(max) ==
  LET size == ReadBufferSize
      room == Min({SingleRead, max - size})
      n    == Min({room, sent - taken})
      got  == [taken |-> taken + n, zeros |-> zeros]
  IN IF size >= max THEN [result |-> "LIMIT", buf |-> [taken |-> taken, zeros |-> zeros]]
     ELSE IF n = room
       THEN [result |-> IF size + n >= max THEN "LIMIT" ELSE "DATA", buf |-> got]
     ELSE IF fin THEN [result |-> "CLOSED", buf |-> [got EXCEPT !.zeros = @ + (room - n)]]
     ELSE [result |-> IF n > 0 THEN "DATA" ELSE "WOULD_BLOCK", buf |-> got]

\* co_await io_.read(SINGLE_READ_BYTES, max, activeDeadline()): it suspends,
ReadSuspends(max) ==
  /\ ~suspended /\ DrainIntoReadBuffer(max).result = "WOULD_BLOCK"
  /\ suspended' = TRUE
  /\ UNCHANGED <<clientVars, bufferVars, pos, timedOut, conn, out>>

\* or it returns one of these, at once or when the executor resumes it.  The
\* wake-up by an incomplete TLS record finds nothing to decrypt.
ReadOutcomes(max) ==
  LET d == DrainIntoReadBuffer(max)
      Outcome(result, buf, late, seen) ==
        [result |-> result, buf |-> buf, late |-> late, partials |-> seen]
      as_is == [taken |-> taken, zeros |-> zeros]
      ready == {Outcome(d.result, d.buf, timedOut /\ ~suspended, partials)}
      partial == {Outcome("WOULD_BLOCK", as_is, FALSE, partials + 1)}
      timeout == {Outcome("TIMED_OUT", as_is, TRUE, partials)}
  IN IF ~suspended THEN {o \in ready : o.result # "WOULD_BLOCK"}
     ELSE {o \in ready : sent > taken \/ fin} \cup timeout \cup
          {o \in partial : tls /\ o.partials <= MaxPartials /\ taken = sent /\ sent < Len(stream)}

ReadReturnsWith(o) ==
  /\ taken' = o.buf.taken /\ zeros' = o.buf.zeros
  /\ suspended' = FALSE /\ timedOut' = o.late /\ partials' = o.partials
  /\ UNCHANGED <<client, sent, fin, shutdown, out>>

-----------------------------------------------------------------------------
(* The head of a request                                                     *)

\* sendErrorResponseAndClose, up to the write
SendErrorAndClose(c, status) ==
  [c EXCEPT !.pc = "send", !.keepAlive = FALSE,
            !.resp = [NoAnswer EXCEPT !.kind = "error", !.status = status, !.close = TRUE]]

Handshake ==
  /\ At("handshake")
  /\ \/ /\ ~suspended
        /\ \/ conn' = Goto(conn, "top") /\ UNCHANGED suspended
           \/ tls /\ conn' = Closed(conn) /\ UNCHANGED suspended
           \/ tls /\ sent < Len(stream) /\ suspended' = TRUE /\ UNCHANGED conn
        /\ UNCHANGED <<timedOut, partials>>
     \/ /\ suspended /\ partials < MaxPartials
        /\ suspended' = FALSE /\ timedOut' = FALSE /\ partials' = partials + 1
        /\ UNCHANGED conn
     \/ /\ suspended
        /\ suspended' = FALSE /\ timedOut' = TRUE
        /\ conn' = [Closed(conn) EXCEPT !.late = TRUE]
        /\ UNCHANGED partials
  /\ UNCHANGED <<client, sent, fin, shutdown, bufferVars, pos, out>>

Top ==
  /\ At("top")
  /\ conn' = Goto(conn, IF conn.keepAlive THEN "head" ELSE "linger")
  /\ UNCHANGED <<clientVars, bufferVars, pos, suspended, timedOut, out>>

\* Bare CRLFs in front of a head are dropped.
StripCrlf ==
  /\ At("head") /\ ~suspended
  /\ ReadBufferSize > 0 /\ Unit(1) = "crlf"
  /\ pos' = pos + 1
  /\ UNCHANGED <<clientVars, bufferVars, suspended, timedOut, conn, out>>

HangUpOnLargeHead(c) == Closed(c)  \* seeded fault
RefuseLargeHead(c) == SendErrorAndClose(c, 431)

\* `it' is the end of the buffer as it was before the read: a limit reached
\* by new data is noticed in the next round only.
AfterHeadRead(result) ==
  /\ conn' = CASE result = "CLOSED" -> Closed(conn)
               [] result = "LIMIT" /\ taken' = taken -> RefuseLargeHead(conn)
               [] result = "TIMED_OUT" -> [SendErrorAndClose(conn, 408) EXCEPT !.late = TRUE]
               [] OTHER -> conn
  /\ UNCHANGED pos

\* The place p of the stream is where a request begins, or its very end.
AtBoundary(p) ==
  \/ p = Len(stream)
  \/ p < Len(stream) /\ \A i \in 1..p : stream[i].r = stream[p + 1].r => stream[i].t = "crlf"

KeepHead(end) == pos' = pos  \* seeded fault
EraseHead(end) == pos' = pos + end

\* A head that is not where a request of the client begins is refused or not,
\* as its bytes happen to look.
HeadFound ==
  LET end == Min(BlankLines)
      r   == stream[pos + end].r
      verdict == requests[r].head
      refusals == IF end > MaxHeader THEN {431}
                  ELSE {s \in {400, 505} :
                          \/ s = 400 /\ (verdict \in {"malformed", "nohost"} \/ ~AtBoundary(pos))
                          \/ s = 505 /\ verdict = "version"}
  IN \/ \E status \in refusals : pos' = pos /\ conn' = SendErrorAndClose(conn, status)
     \/ /\ verdict = "ok" /\ 431 \notin refusals
        /\ EraseHead(end)
        /\ conn' = [conn EXCEPT !.pc = "expect", !.req = r, !.fed = 0,
                                !.cause = @ \cup IF AtBoundary(pos) THEN {} ELSE {"astray"}]

ReadHead ==
  /\ At("head")
  /\ suspended \/ ReadBufferSize = 0 \/ Unit(1) # "crlf"
  /\ IF ~suspended /\ BlankLines # {}
       THEN HeadFound /\ UNCHANGED <<clientVars, bufferVars, suspended, timedOut, out>>
       ELSE \/ ReadSuspends(MaxHeader)
            \/ \E o \in ReadOutcomes(MaxHeader) : ReadReturnsWith(o) /\ AfterHeadRead(o.result)

\* Expect: 100-continue.  value() of the missing length of a chunked body
\* throws out of run().
HasLength == Req.framing \in {"length", "both"}
Expect ==
  /\ At("expect")
  /\ conn' =
       CASE Req.expect = "none" -> Goto(conn, "body")
         [] Req.expect = "other" -> SendErrorAndClose(conn, 417)
         [] Req.expect = "continue" /\ Req.framing \in {"badLength", "none", "otherTE"} ->
              SendErrorAndClose(conn, 400)
         [] Req.expect = "continue" /\ Req.framing = "chunked" ->
              [Closed(conn) EXCEPT !.thrown = TRUE]
         [] Req.expect = "continue" /\ HasLength /\ Req.len > MaxContent ->
              SendErrorAndClose(conn, 413)
         [] Req.expect = "continue" /\ HasLength /\ Req.len <= MaxContent ->
              IF Req.route # 200 THEN SendErrorAndClose(conn, Req.route)
              ELSE [conn EXCEPT !.pc = "send",
                                !.resp = [NoAnswer EXCEPT !.kind = "continue", !.status = 100]]
  /\ UNCHANGED <<clientVars, bufferVars, pos, suspended, timedOut, out>>

AttachBodyStream(kind, length) ==
  [conn EXCEPT !.pc = "handler",
               !.body = [kind |-> kind, remaining |-> length, exhausted |-> FALSE]]

Body ==
  /\ At("body")
  /\ conn' = CASE Req.framing \in {"both", "badLength"} -> SendErrorAndClose(conn, 400)
               [] Req.framing = "otherTE" -> SendErrorAndClose(conn, 501)
               [] Req.framing = "length" ->
                    IF Req.len > MaxContent THEN SendErrorAndClose(conn, 413)
                                            ELSE AttachBodyStream("length", Req.len)
               [] OTHER -> AttachBodyStream(Req.framing, 0)
  /\ UNCHANGED <<clientVars, bufferVars, pos, suspended, timedOut, out>>

-----------------------------------------------------------------------------
(* The body, between the handler and the read buffer                         *)

\* An exception of the body stream: caught around dispatch(), not around
\* drain().
Throw(c, status) ==
  IF c.rd.who = "handler"
    THEN [c EXCEPT !.pc = "drain", !.keepAlive = FALSE, !.rd = NoRead,
                   !.resp = [NoAnswer EXCEPT !.kind = "plain", !.status = status]]
    ELSE [Closed(c) EXCEPT !.thrown = TRUE]

ExhaustsWhenShort(c, n, remaining) == n < c.rd.size  \* seeded fault
Exhausts(c, n, remaining) == n = 0 \/ remaining = 0

\* BodyStream::read after readFn_ returned n, and readAll around it
ReadReturns(c, n) ==
  LET remaining == ((c.body.remaining + Word) - n) % Word
      got == c.rd.got + n
      d == [c EXCEPT !.body.remaining = remaining,
                     !.body.exhausted = Exhausts(c, n, remaining),
                     !.fed = @ + n,
                     !.rd.got = got, !.rd.written = 0, !.rd.search = FALSE]
  IN CASE ~c.rd.all -> [d EXCEPT !.pc = "handler", !.rd = NoRead]
       [] c.rd.all /\ n = 0 -> [d EXCEPT !.pc = "handler", !.rd = NoRead]
       [] c.rd.all /\ n > 0 /\ got >= MaxContent -> Throw(d, 413)
       [] c.rd.all /\ n > 0 /\ got < MaxContent ->
            IF d.body.exhausted THEN [d EXCEPT !.pc = "handler", !.rd = NoRead] ELSE d

\* Some of the first n units of the buffer are not of this request's body.
Foreign(n, received) ==
  \E i \in 1..n : \/ pos + i > received
                  \/ stream[pos + i].t # "byte" \/ stream[pos + i].r # conn.req

HandlerReads(size, all) ==
  /\ At("handler") /\ ~conn.body.exhausted
  /\ LET c == [conn EXCEPT !.rd = [NoRead EXCEPT !.who = "handler", !.size = size, !.all = all]]
     IN conn' = CASE c.body.kind = "none" -> ReadReturns(c, 0)
                  [] c.body.kind = "length" -> Goto(c, "lengthRead")
                  [] c.body.kind = "chunked" -> Goto(c, "chunk")
  /\ UNCHANGED <<clientVars, bufferVars, pos, suspended, timedOut, out>>

\* readFn of a body with Content-Length
Copied(n, received) ==
  /\ pos' = pos + n
  /\ conn' = [ReadReturns(conn, n) EXCEPT
               !.foreign = @ \/ Foreign(n, received),
               !.cause = @ \cup CASE n > conn.body.remaining -> {"overread"}
                                  [] n = 0 /\ conn.body.remaining > 0 -> {"shortRead"}
                                  [] OTHER -> {}]

ReadFailures == {"LIMIT", "CLOSED", "TIMED_OUT"}

AfterLengthRead(result) ==
  IF result \in ReadFailures
    THEN /\ conn' = [Throw(conn, 500) EXCEPT !.late = @ \/ result = "TIMED_OUT"]
         /\ UNCHANGED pos
    ELSE Copied(Min({(taken' + zeros') - pos, conn.rd.size, conn.body.remaining}), taken')

NeverWhole == FALSE  \* seeded fault
RestIsThere == ReadBufferSize >= conn.body.remaining

LengthRead ==
  LET fills == ReadBufferSize >= conn.rd.size
  IN /\ At("lengthRead")
     /\ IF ~suspended /\ (fills \/ RestIsThere)
          THEN /\ Copied(IF fills THEN conn.rd.size ELSE conn.body.remaining, taken)
               /\ UNCHANGED <<clientVars, bufferVars, suspended, timedOut, out>>
          ELSE \/ ReadSuspends(MaxContent)
               \/ \E o \in ReadOutcomes(MaxContent) : ReadReturnsWith(o) /\ AfterLengthRead(o.result)

\* drainFn of a body with Content-Length
NoTimeOut == {"LIMIT", "CLOSED"}  \* seeded fault
DrainFailures == {"LIMIT", "CLOSED", "TIMED_OUT"}

AfterDrainRead(result) ==
  /\ conn' = IF result \in DrainFailures
               THEN [Throw(conn, 500) EXCEPT !.late = @ \/ result = "TIMED_OUT"] ELSE conn
  /\ UNCHANGED pos

CanDrain == ReadBufferSize >= conn.body.remaining

LengthDrain ==
  /\ At("lengthDrain")
  /\ IF ~suspended /\ CanDrain
       THEN /\ pos' = pos + conn.body.remaining
            /\ conn' = Goto(conn, "answer")
            /\ UNCHANGED <<clientVars, bufferVars, suspended, timedOut, out>>
       ELSE \/ ReadSuspends(MaxContent)
            \/ \E o \in ReadOutcomes(MaxContent) : ReadReturnsWith(o) /\ AfterDrainRead(o.result)

-----------------------------------------------------------------------------
(* ChunkDecoder::readSome, one turn of its loop at a time                    *)

\* What chunkReadFn and chunkDrainFn do with the units readSome returns.
SomeRead(c) ==
  CASE c.rd.who = "handler" -> ReadReturns(c, c.rd.written)
    [] c.rd.who = "drain" /\ c.rd.written = 0 -> [c EXCEPT !.pc = "answer", !.rd = NoRead]
    [] c.rd.who = "drain" /\ c.rd.written > 0 -> [c EXCEPT !.rd.written = 0, !.rd.search = FALSE]

\* handleIO
AfterChunkRead(result) ==
  /\ conn' = IF result \in {"LIMIT", "CLOSED", "TIMED_OUT"}
               THEN [Throw(conn, 500) EXCEPT !.late = @ \/ result = "TIMED_OUT"]
               ELSE [conn EXCEPT !.rd.search = conn.dec.state = "TRAILER"]
  /\ UNCHANGED pos

ChunkSize ==
  LET n == stream[pos + 1].n
      total == conn.dec.total + n
  IN IF Unit(1) # "size" THEN conn' = Throw(conn, 400) /\ UNCHANGED pos
     ELSE /\ pos' = pos + 1
          /\ conn' = CASE n = 0 -> [conn EXCEPT !.dec.state = "TRAILER"]
                       [] n > MaxTEChunk -> Throw(conn, 413)
                       [] n \in 1..MaxTEChunk /\ total > MaxTE ->
                            Throw([conn EXCEPT !.dec.total = total], 413)
                       [] n \in 1..MaxTEChunk /\ total <= MaxTE ->
                            [conn EXCEPT !.dec = [state |-> "CHUNK_BODY", left |-> n,
                                                  total |-> total]]

ChunkBody ==
  LET n == Min({ReadBufferSize, conn.dec.left, conn.rd.size - conn.rd.written})
      left == conn.dec.left - n
  IN /\ pos' = pos + n
     /\ conn' = [conn EXCEPT !.rd.written = @ + n,
                             !.dec = [state |-> IF left = 0 THEN "CHUNK_CRLF" ELSE "CHUNK_BODY",
                                      left |-> left, total |-> conn.dec.total],
                             !.foreign = @ \/ (conn.rd.who = "handler" /\ Foreign(n, taken))]

ChunkCrlf ==
  IF Unit(1) # "crlf" THEN conn' = Throw(conn, 400) /\ UNCHANGED pos
  ELSE pos' = pos + 1 /\ conn' = [conn EXCEPT !.dec.state = "CHUNK_SIZE"]

\* A bare CRLF, or everything up to the first blank line.  A CRLF that comes
\* while the search for the blank line waits is no longer a bare one.
Trailer ==
  LET n == IF ~conn.rd.search /\ Unit(1) = "crlf" THEN 1 ELSE Min(BlankLines)
  IN /\ pos' = pos + n
     /\ conn' = [conn EXCEPT !.dec.state = "DONE",
                             !.cause = @ \cup IF stream[pos + n].r # conn.req THEN {"trailer"} ELSE {}]

\* The bytes the current state waits for are there.
ChunkReady ==
  CASE conn.dec.state = "CHUNK_SIZE" -> LineEnds # {}
    [] conn.dec.state \in {"CHUNK_BODY", "CHUNK_CRLF"} -> ReadBufferSize > 0
    [] conn.dec.state = "TRAILER" -> \/ ~conn.rd.search /\ ReadBufferSize > 0 /\ Unit(1) = "crlf"
                                    \/ BlankLines # {}
    [] conn.dec.state = "DONE" -> TRUE

ReadSome ==
  /\ At("chunk")
  /\ IF ~suspended /\ (conn.dec.state = "DONE" \/ conn.rd.written = conn.rd.size)
       THEN /\ conn' = SomeRead(conn)
            /\ UNCHANGED <<clientVars, bufferVars, pos, suspended, timedOut, out>>
     ELSE IF ~suspended /\ ChunkReady
       THEN /\ CASE conn.dec.state = "CHUNK_SIZE" -> ChunkSize
                 [] conn.dec.state = "CHUNK_BODY" -> ChunkBody
                 [] conn.dec.state = "CHUNK_CRLF" -> ChunkCrlf
                 [] conn.dec.state = "TRAILER" -> Trailer
            /\ UNCHANGED <<clientVars, bufferVars, suspended, timedOut, out>>
       ELSE \/ ReadSuspends(MaxContent)
            \/ \E o \in ReadOutcomes(MaxContent) : ReadReturnsWith(o) /\ AfterChunkRead(o.result)

-----------------------------------------------------------------------------
(* The handler's verdict                                                     *)

\* What dispatch() can return: an HttpResponse, one that cannot be serialized,
\* an HttpStreamResponse, and an HttpFileResponse whose file cannot be used,
\* is cached, is below FILE_BUFFERING_THRESHOLD, or is larger.
Answers == {"plain", "unsendable", "stream", "badFile", "cachedFile", "smallFile", "largeFile"}

\* Code of the application may have waited for something of its own.
WaitedOrNot == timedOut' \in {timedOut, FALSE}

HandlerAnswers(kind) ==
  /\ At("handler")
  /\ conn' = [conn EXCEPT !.pc = "drain",
                          !.resp = [NoAnswer EXCEPT !.kind = kind, !.status = 200]]
  /\ WaitedOrNot
  /\ UNCHANGED <<clientVars, bufferVars, pos, suspended, out>>

HandlerThrows(fatal) ==
  /\ At("handler")
  /\ conn' = [conn EXCEPT !.pc = "drain", !.keepAlive = ~fatal,
                          !.resp = [NoAnswer EXCEPT !.kind = "plain", !.status = 500]]
  /\ WaitedOrNot
  /\ UNCHANGED <<clientVars, bufferVars, pos, suspended, out>>

\* BodyStream::drain
Drain ==
  /\ At("drain")
  /\ LET c == [conn EXCEPT !.rd = [NoRead EXCEPT !.who = "drain", !.size = Scratch]]
     IN conn' = CASE conn.body.exhausted \/ conn.body.kind = "none" -> Goto(conn, "answer")
                  [] ~conn.body.exhausted /\ conn.body.kind = "length" -> Goto(c, "lengthDrain")
                  [] ~conn.body.exhausted /\ conn.body.kind = "chunked" -> Goto(c, "chunk")
  /\ UNCHANGED <<clientVars, bufferVars, pos, suspended, timedOut, out>>

-----------------------------------------------------------------------------
(* Sending                                                                   *)

Sending(c, kind) == [c EXCEPT !.pc = "send", !.resp.kind = kind]

\* A file below FILE_BUFFERING_THRESHOLD is read into the write buffer, but its
\* header is not serialized: neither the status nor `connection' goes out.
Headless(c) == [c EXCEPT !.resp.status = NoHead, !.resp.close = FALSE]

\* The Connection header, and the first step of each kind of answer.
Answer ==
  LET keep  == conn.keepAlive /\ ~shutdown
      c     == [conn EXCEPT !.keepAlive = keep, !.resp.close = ~keep \/ Req.close]
  IN /\ At("answer")
     /\ \/ c.resp.kind = "plain" /\ conn' = Sending(c, "plain")
        \/ c.resp.kind = "unsendable" /\ conn' = Closed(c)
        \/ c.resp.kind = "stream" /\ conn' = Sending(c, "streamHead")
        \/ c.resp.kind = "badFile" /\ conn' = SendErrorAndClose(c, 500)
        \/ c.resp.kind = "cachedFile" /\ conn' = Sending(c, "cachedFile")
        \/ /\ c.resp.kind = "smallFile"
           /\ conn' \in {Sending(Headless(c), "smallFile"), Closed(c), [Closed(c) EXCEPT !.thrown = TRUE]}
        \/ c.resp.kind = "largeFile" /\ conn' = Sending(c, "fileHead")
     /\ IF c.resp.kind = "smallFile" THEN WaitedOrNot ELSE UNCHANGED timedOut
     /\ UNCHANGED <<clientVars, bufferVars, pos, suspended, out>>

ResetButDecoder(c) ==  \* seeded fault
  [c EXCEPT !.pc = "top", !.req = 0, !.body = NoBody, !.rd = NoRead, !.resp = NoAnswer]

\* resetForNextRequest
ResetForNextRequest(c) ==
  [c EXCEPT !.pc = "top", !.req = 0, !.dec = NewDecoder, !.body = NoBody, !.rd = NoRead,
            !.resp = NoAnswer]

CloseAtOnce(c) == Closed(c)  \* seeded fault
AfterError(c) == Goto(c, "linger")

\* The step of run() after a write loop that went well.
Flushed(c) ==
  CASE c.resp.kind = "error" -> AfterError(c)
    [] c.resp.kind = "continue" -> Goto(c, "body")
    [] c.resp.kind \in {"plain", "cachedFile", "smallFile", "lastChunk"} -> ResetForNextRequest(c)
    [] c.resp.kind \in {"streamHead", "chunk"} -> Goto(c, "stream")
    [] c.resp.kind = "streamError" -> Closed(c)
    [] c.resp.kind = "fileHead" -> Goto(c, "file")

\* What the client has of the answer once the write buffer is empty, and when
\* the connection gives up before that; of a small file, only its bytes.
Shown(whole) ==
  LET first == Append(out, [req |-> conn.req, status |-> conn.resp.status,
                            close |-> conn.resp.close, whole |-> whole])
  IN CASE conn.resp.kind \in {"streamHead", "fileHead"} ->
            Append(out, [first[Len(first)] EXCEPT !.whole = FALSE])
       [] conn.resp.kind \in {"chunk"} -> out
       [] conn.resp.kind \in {"lastChunk", "streamError"} -> [out EXCEPT ![Len(out)].whole = whole]
       [] OTHER -> first

\* while (io_.hasPendingWrites()) co_await io_.write(...): a write that need
\* not suspend still reports the time-out of the wait before it.
Write ==
  /\ At("send")
  /\ \/ /\ timedOut' = (timedOut /\ ~suspended)
        /\ suspended' = FALSE
        /\ out' = Shown(TRUE)
        /\ conn' = IF timedOut' THEN Closed(conn) ELSE Flushed(conn)
     \/ /\ ~suspended
        /\ suspended' = TRUE
        /\ UNCHANGED <<timedOut, conn, out>>
     \/ /\ suspended
        /\ suspended' = FALSE /\ timedOut' = TRUE
        /\ out' = Shown(FALSE)
        /\ conn' = [Closed(conn) EXCEPT !.late = TRUE]
     \/ /\ fin
        /\ suspended' = FALSE /\ timedOut' = (timedOut /\ ~suspended)
        /\ out' = Shown(FALSE)
        /\ conn' = Closed(conn)
  /\ UNCHANGED <<clientVars, bufferVars, pos>>

\* getNextChunk() yields a chunk, one too large for the write buffer, nothing
\* more, or an exception.
Stream ==
  /\ At("stream")
  /\ \/ conn.resp.chunks < MaxChunks /\ conn' = [Sending(conn, "chunk") EXCEPT !.resp.chunks = @ + 1]
     \/ conn' = Closed(conn)
     \/ conn' = Sending(conn, "lastChunk")
     \/ conn' = Sending(conn, "streamError")
  /\ WaitedOrNot
  /\ UNCHANGED <<clientVars, bufferVars, pos, suspended, out>>

\* TcpStream::sendFile waits again when its wait has timed out;
\* TlsStream::sendFile always fails.
SendFile ==
  /\ At("file")
  /\ \/ /\ ~suspended /\ ~tls
        /\ out' = [out EXCEPT ![Len(out)].whole = TRUE]
        /\ conn' = ResetForNextRequest(conn)
        /\ UNCHANGED <<suspended, timedOut>>
     \/ /\ ~suspended
        /\ conn' = Closed(conn)
        /\ UNCHANGED <<suspended, timedOut, out>>
     \/ /\ ~suspended /\ ~tls
        /\ suspended' = TRUE
        /\ UNCHANGED <<timedOut, conn, out>>
     \/ /\ suspended
        /\ suspended' = FALSE
        /\ \/ timedOut' = FALSE /\ UNCHANGED conn
           \/ timedOut' = TRUE /\ conn' = [conn EXCEPT !.late = TRUE]
        /\ UNCHANGED out
  /\ UNCHANGED <<clientVars, bufferVars, pos>>

\* awaitClientFinBeforeClose discards what is there and waits once.
Linger ==
  /\ At("linger")
  /\ \/ /\ ~suspended /\ ~fin
        /\ suspended' = TRUE /\ UNCHANGED <<timedOut, conn>>
     \/ /\ ~suspended /\ (fin \/ sent > taken)
        /\ conn' = [Closed(conn) EXCEPT !.lingered = TRUE] /\ UNCHANGED <<suspended, timedOut>>
     \/ /\ suspended
        /\ suspended' = FALSE /\ timedOut' \in BOOLEAN
        /\ conn' = [Closed(conn) EXCEPT !.lingered = TRUE]
  /\ UNCHANGED <<clientVars, bufferVars, pos, out>>

-----------------------------------------------------------------------------

Handler == \/ \E size \in BufSizes : HandlerReads(size, FALSE)
           \/ HandlerReads(Scratch, TRUE)
           \/ \E kind \in Answers : HandlerAnswers(kind)
           \/ \E fatal \in BOOLEAN : HandlerThrows(fatal)

Server == \/ Handshake \/ Top \/ StripCrlf \/ ReadHead \/ Expect \/ Body
          \/ Handler \/ LengthRead \/ ReadSome \/ Drain \/ LengthDrain
          \/ Answer \/ Write \/ Stream \/ SendFile \/ Linger

Next == ClientSends \/ ClientCloses \/ ServerShutsDown \/ Server

Spec == Init /\ [][Next]_vars

\* The executor resumes what it can and every wait has a deadline; handlers
\* return.  Nothing is assumed of the client.
FairSpec == Spec /\ WF_vars(Server)

-----------------------------------------------------------------------------
(* Properties                                                                *)

\* Keep-alive works: whenever run() looks for a head, the bytes in front of it
\* are the beginning of the client's next request, whatever the handler read
\* of the body before and however the bytes came in (drain() at line 381 and
\* resetForNextRequest()).  Three steps of the code lose the place: readFn
\* copying buf.size() units though fewer remain ("overread"), readFn returning
\* 0 after a wake-up that brought nothing ("shortRead"), and the search for the
\* end of the trailers running into the next request ("trailer").  `cause' has
\* those that have happened on this connection, and "astray" once run() has
\* accepted a head that is not where a request begins.
FramingKept == At("head") /\ conn.cause = {} => AtBoundary(pos)

\* How many of the first n answers are final.
FinalsUpTo(answers, n) == Cardinality({i \in 1..n : answers[i].status # 100})

\* The final answers are those to the client's requests 1, 2, 3 in this
\* order, none skipped and none answered twice; the errors run() reports
\* outside a request (408, 431, 400, 505) come after all of them.  An answer
\* that was cut short and one that announces `connection: close' are the last
\* things sent; only the close that the client itself asked for is announced
\* and not carried out.  A small file goes out in the place of its answer, but
\* without a head: the client can neither see where its bytes begin and end nor
\* read a status or an announcement in them (see AnswersHaveHeads).
AnswersInOrder ==
  /\ conn.cause = {} =>
       \A i \in 1..Len(out) : out[i].status # 100 =>
         out[i].req = FinalsUpTo(out, i) \/ (out[i].req = 0 /\ i = Len(out))
  /\ \A i \in 1..(Len(out) - 1) :
       /\ out[i].whole
       /\ out[i].close => requests[out[i].req].close

\* Every answer begins with its status line and its header, whichever of the
\* three kinds of response it is and however its file is sent.
AnswersHaveHeads == \A i \in 1..Len(out) : out[i].status # NoHead

\* The last unit of request k.
EndOf(k) == Max({i \in 1..Len(stream) : stream[i].r = k})

\* run() waits for more of a body only while some of the request has not been
\* received: a request that is all there is never held up until the deadline.
\* The exception is the bare CRLF after the last chunk: when it comes in a
\* later segment, readSome is already looking for a blank line.
WaitsForTheMissing ==
  suspended /\ conn.pc \in {"lengthRead", "lengthDrain", "chunk"} /\ conn.cause = {}
     => taken < EndOf(conn.req) \/ conn.rd.search

\* A body stream that says it is exhausted has been read to its last byte
\* (BodyStream::isExhausted).
BodyUnits(k) == Cardinality({i \in 1..Len(stream) : stream[i].r = k /\ stream[i].t = "byte"})
StreamFullyRead == conn.body.exhausted => conn.fed = BodyUnits(conn.req)

\* Handlers get their own request's body, all of it and nothing else: no chunk
\* framing, none of the next request, no unreceived bytes, and no end before
\* the end.  The exceptions are the two steps of readFn that lose count, and
\* whatever follows when run() has taken a wrong head for the next request's.
BodyDelivered ==
  /\ conn.foreign => conn.cause \cap {"overread", "astray"} # {}
  /\ conn.body.exhausted /\ conn.cause = {} => conn.fed = BodyUnits(conn.req)

\* A request whose body the server does not manage to read: broken chunk
\* encoding or one above the limits, one that fills the read buffer up to
\* MAX_CONTENT_LENGTH, and `Expect: 100-continue' with a chunked body.
Unreadable(r) ==
  \/ r.framing = "chunked" /\ (r.broken \/ r.expect = "continue")
  \/ BodyUnits(conn.req) > MaxTE \/ \E i \in 1..Len(r.chunks) : r.chunks[i] > MaxTEChunk
  \/ ReadBufferSize >= MaxContent

\* The server hangs up on a client that is still there, is not late and sent
\* a readable request only after an answer that says so, or in the middle of
\* an answer it cannot finish; every exception that leaves run() is about a
\* request that cannot be read.  The exception is the close that the header of
\* a small file was to announce: that header is never sent.
NoSilentHangUp ==
  At("closed") /\ ~fin /\ ~conn.late /\ conn.cause = {} /\ ~tls =>
     \/ out # <<>> /\ (Last(out).close \/ ~Last(out).whole)
     \/ out # <<>> /\ Last(out).status = NoHead /\ ~conn.keepAlive
     \/ conn.resp.kind \in {"unsendable", "smallFile", "streamError"}
     \/ conn.thrown /\ Unreadable(Req)

\* Before it closes after a complete answer, the server waits for the client
\* to take it and to close first, unless a wait of this connection has timed
\* out: the 408 itself is not waited for.
LingersBeforeClose ==
  At("closed") /\ out # <<>> /\ ~fin /\ ~conn.late /\ ~conn.thrown =>
     \/ conn.lingered
     \/ ~Last(out).whole
     \/ conn.resp.kind \in {"unsendable", "smallFile", "streamError"}

\* Every connection ends, whatever the client does or fails to do, with one
\* exception: sendFile ignores its time-outs and stays with a client that
\* does not read.
ConnectionsEnd == <>At("closed") \/ <>[]At("file")

=============================================================================
