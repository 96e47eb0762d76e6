-------------------------- MODULE MCHttpConnection --------------------------
(* Clients for HttpConnection.                                               *)
EXTENDS HttpConnection

Token(t, k, n) == [t |-> t, r |-> k, n |-> n]
Units(t, k, count) == [i \in 1..count |-> Token(t, k, 0)]

Chunk(size, k) ==
  <<Token("size", k, size)>> \o Units("byte", k, size) \o <<Token("crlf", k, 0)>>

\* What request r sends as the k-th of its connection.
Message(r, k) ==
  Units("crlf", k, r.gap) \o Units("line", k, r.lines) \o <<Token("head", k, 0)>> \o
  CASE r.framing = "length" -> Units("byte", k, r.len)
    [] r.framing = "chunked" ->
         (IF r.broken THEN Units("byte", k, 1) \o Units("crlf", k, 1)
          ELSE FlattenSeq([i \in 1..Len(r.chunks) |-> Chunk(r.chunks[i], k)]))
           \o <<Token("size", k, 0)>> \o Units("field", k, r.fields) \o <<Token("crlf", k, 0)>>
    [] OTHER -> <<>>

Client(rs, ahead, overTls) ==
  [tls |-> overTls, pipelined |-> ahead, requests |-> rs,
   stream |-> FlattenSeq([k \in 1..Len(rs) |-> Message(rs[k], k)])]

Get == [head |-> "ok", gap |-> 0, lines |-> 0, expect |-> "none", framing |-> "none", len |-> 0,
        chunks |-> <<>>, broken |-> FALSE, fields |-> 0, close |-> FALSE, route |-> 200]
Post(n) == [Get EXCEPT !.framing = "length", !.len = n]
Chunked(sizes) == [Get EXCEPT !.framing = "chunked", !.chunks = sizes]
Expecting(r, route) == [r EXCEPT !.expect = "continue", !.route = route]

\* Keep-alive connections.
Conversations ==
  {<<Post(3), [Get EXCEPT !.gap = 1]>>,
   <<Chunked(<<2>>), Chunked(<<1>>)>>,
   <<[Get EXCEPT !.close = TRUE], Get>>,
   <<[Chunked(<<1>>) EXCEPT !.fields = 1], Get>>}

\* Single requests at and over the limits, and malformed ones.
Singles ==
  {Post(5), Post(6), Post(0), [Get EXCEPT !.lines = 4],
   Chunked(<<4>>), Chunked(<<3, 2>>), [Chunked(<<1>>) EXCEPT !.broken = TRUE],
   [Get EXCEPT !.head = "malformed"], [Get EXCEPT !.head = "version"],
   [Get EXCEPT !.head = "nohost"],
   [Get EXCEPT !.framing = "both"], [Get EXCEPT !.framing = "badLength"],
   [Get EXCEPT !.framing = "otherTE"], [Get EXCEPT !.expect = "other"],
   Expecting(Post(2), 200), Expecting(Post(2), 404), Expecting(Post(6), 200),
   Expecting(Chunked(<<1>>), 200), Expecting(Get, 200)}

TlsClients == {Client(<<Post(2), Get>>, FALSE, TRUE)}

AllClients == {Client(rs, ahead, FALSE) : rs \in Conversations, ahead \in BOOLEAN}
                \cup {Client(<<r>>, FALSE, FALSE) : r \in Singles} \cup TlsClients
                \cup {Client(<<Chunked(<<1>>)>>, FALSE, TRUE), Client(<<Post(2), Get>>, TRUE, TRUE)}
=============================================================================
