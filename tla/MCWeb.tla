-------------------------------- MODULE MCWeb --------------------------------
(* The parts that serve a request, each in behaviours of its own: the pipes   *)
(* that files are sent through, static files, routes and middlewares,         *)
(* sessions, and forms.                                                       *)
EXTENDS PipePool, SequencesExt, TLC

CONSTANTS a1, a2, b1,           \* coroutines that serve files
          ThreadOf, Workloads, Lengths,
          Cases, CacheRules, Formatters,
          Requests, NoRequest,  \* requests with a session
          Forms, Heads

VARIABLES scene,
          version, packed, fds, cache, co,
          site, tree, todo, head, req, phase, resp,
          now, store, given, handle, serial, changes, seen, ops, raced,
          form, rest, buffer, exhausted, at, part, parts, consumed, used, multi, passed, starved

fileVars == <<version, packed, fds, cache, co>>
routeVars == <<site, tree, todo, head, req, phase, resp>>
sessionVars == <<now, store, given, handle, serial, changes, seen, ops, raced>>
formVars == <<form, rest, buffer, exhausted, at, part, parts, consumed, used, multi, passed, starved>>

-----------------------------------------------------------------------------
(* Static files: coroutines of two threads that meet in the cache and in the  *)
(* file system, and single requests with every range of a file of six units,  *)
(* condition and preference.                                                  *)
SF == INSTANCE StaticFiles WITH
  Coroutines <- {a1, a2, b1}, CacheBelow <- 2, CompressFrom <- 4, ChunkSize <- 3, PartHead <- 1

MCThreadOf == (a1 :> 1) @@ (a2 :> 1) @@ (b1 :> 2)
MCLengths == <<1, 6, 5>>

None == -1
NoValidator == [tag |-> <<None, 0, "">>, date |-> None]
Plainly == [method |-> "GET", there |-> "file", prefs |-> <<>>, excluded |-> {}, noStore |-> FALSE,
            range |-> <<>>, cond |-> NoValidator, ifRange |-> NoValidator]
Zipped == [Plainly EXCEPT !.prefs = <<"gzip", "br">>]
Wildcard == [Plainly EXCEPT !.prefs = <<"x", "*">>]
Races ==
  {(a1 :> <<Plainly, Zipped>>) @@ (a2 :> <<Zipped>>) @@ (b1 :> <<>>),
   (a1 :> <<Zipped>>) @@ (a2 :> <<Wildcard>>) @@ (b1 :> <<>>),
   (a1 :> <<Plainly, Zipped>>) @@ (a2 :> <<>>) @@ (b1 :> <<Zipped>>)}

ByteRange(first, last) == [dash |-> TRUE, first |-> first, last |-> last]
Bounds == {None} \cup 0..6
ByteRanges == {ByteRange(f, l) : f, l \in Bounds}
NoDash == [dash |-> FALSE, first |-> None, last |-> None]
RangeHeaders ==
  {<<r>> : r \in ByteRanges} \cup (ByteRanges \X ByteRanges)
    \cup {<<ByteRange(4, None), r, ByteRange(0, j)>> : r \in ByteRanges, j \in 0..3}
Validators ==
  {NoValidator} \cup [tag : {<<None, 0, "">>, <<2, 6, "">>, <<2, 3, "gzip">>, <<1, 6, "">>}, date : {None, -2, 1, 2}]
Singles ==
  {[Plainly EXCEPT !.range = h] : h \in RangeHeaders}
    \cup {[Plainly EXCEPT !.method = m, !.there = t] :
            m \in {"GET", "HEAD", "POST"}, t \in {"file", "outside", "missing", "locked", "elsewhere"}}
    \cup {[Plainly EXCEPT !.method = m, !.noStore = n, !.cond = v, !.prefs = p, !.excluded = e] :
            m \in {"HEAD", "GET"}, n \in BOOLEAN, v \in Validators,
            p \in {<<>>, <<"identity", "gzip">>, <<"gzip">>, <<"x">>}, e \in {{}, {"identity"}}}
    \cup {[Plainly EXCEPT !.method = m, !.ifRange = v, !.range = h] :
            m \in {"HEAD", "GET"}, v \in Validators,
            h \in {<<>>, <<NoDash>>, <<ByteRange(1, 2)>>, <<ByteRange(1, 2), ByteRange(4, 4)>>}}
MCWorkloads == Races \cup {(a1 :> <<r>>) @@ (a2 :> <<>>) @@ (b1 :> <<>>) : r \in Singles}

-----------------------------------------------------------------------------
(* Routes: every set of up to three of these patterns and every short path,   *)
(* one site with all kinds of answers, and connections of three requests.     *)
RT == INSTANCE Routing WITH AllowedOrigins <- {"good"}, CompressFrom <- 2

Lit(s) == <<"literal", s>>
Param(n) == <<"param", n>>
Star == <<"star", "">>
Deep == <<"deep", "">>
Patterns ==
  <<<<>>, <<Lit("a")>>, <<Lit("a"), Lit("b")>>, <<Lit("a"), Lit("b"), Lit("a")>>, <<Param("x")>>,
    <<Param("x"), Lit("b")>>, <<Lit("a"), Param("y")>>, <<Param("x"), Param("y"), Lit("b")>>,
    <<Lit("a"), Star>>, <<Star>>, <<Deep>>, <<Lit("a"), Deep>>, <<Param("x"), Param("x")>>, <<Star, Lit("a")>>>>
Route(pattern, method, kind, size) ==
  [pattern |-> pattern, method |-> method, kind |-> kind, size |-> size]
Sites ==
  {[i \in 1..Cardinality(s) |-> Route(Patterns[SetToSortSeq(s, <)[i]], "GET", "plain", 1)] :
     s \in {t \in SUBSET (1..Len(Patterns)) : Cardinality(t) \in 1..3}}
Shop ==
  <<Route(<<Lit("a")>>, "GET", "plain", 2), Route(<<Lit("a")>>, "GET", "plain", 1), Route(<<Lit("b")>>, "GET", "stream", 1),
    Route(<<Lit("a"), Param("x")>>, "POST", "plain", 1), Route(<<Lit("a"), Param("y")>>, "GET", "file", 1)>>

HeadOf(method, path) ==
  [ok |-> TRUE, method |-> method, form |-> "origin", host |-> "", path |-> path, query |-> <<>>,
   headers |-> <<>>, folded |-> FALSE]
AB == {"a", "b"}
Paths == {<<>>} \cup {<<n>> : n \in AB} \cup (AB \X AB) \cup (AB \X AB \X AB) \cup {<<"%61", "", "b">>}
Walks == {<<HeadOf("GET", p)>> : p \in Paths}

Accepted(prefs, excluded) == [prefs |-> prefs, excluded |-> excluded]
Opt(S, name) == {<<>>} \cup {<<<<name, v>>>> : v \in S}
HeaderLines ==
  LET codings == {Accepted(<<>>, {}), Accepted(<<"x", "gzip">>, {}), Accepted(<<"*">>, {"identity"}),
                  Accepted(<<"x">>, {"identity"}), Accepted(<<"x">>, {})}
      types == {Accepted(<<>>, {}), Accepted(<<<<"text", "*">>>>, {}), Accepted(<<<<"image", "png">>>>, {}),
                Accepted(<<>>, {<<"text", "html">>}), Accepted(<<>>, {<<"image", "png">>})}
  IN {o \o e \o a \o h :
        o \in Opt({"good", "bad"}, "Origin"), e \in Opt(codings, "accept-encoding"), a \in Opt(types, "accept"),
        h \in {<<>>, <<<<"Host", "h1">>, <<"Host", "h2">>>>, <<<<"content-length", 3>>>>, <<<<"content-length", -1>>>>}}
Purchases ==
  {<<[HeadOf(m, p) EXCEPT !.headers = l]>> :
     m \in {"GET", "HEAD", "POST", "OPTIONS"}, p \in {<<"a">>, <<"b">>, <<"a", "%61">>, <<"c">>}, l \in HeaderLines}

\* Requests that leave something in the request object.
Marked ==
  {[HeadOf("GET", <<"a", "b">>) EXCEPT !.headers = <<<<"content-length", 3>>, <<"x", "1">>>>,
                                       !.query = <<<<"%61", "">>, <<"k", "v">>>>],
   [HeadOf("POST", <<"a">>) EXCEPT !.form = "absolute", !.host = "h0", !.headers = <<<<"Host", "h1">>>>],
   [HeadOf("OPTIONS", <<"*">>) EXCEPT !.form = "asterisk"], HeadOf("TRACE", <<"a">>), HeadOf("POST", <<"c">>),
   [HeadOf("GET", <<>>) EXCEPT !.folded = TRUE]}
Stays == (Marked \X Marked) \cup (Marked \X Marked \X Marked)

MCCases == (Sites \X Walks) \cup ({Shop} \X (Purchases \cup Stays))
MCCacheRules ==
  <<[pattern |-> <<"a", "*">>, closed |-> FALSE, value |-> "a"], [pattern |-> <<"b">>, closed |-> TRUE, value |-> "b"],
    [pattern |-> <<"c">>, closed |-> FALSE, value |-> "c"], [pattern |-> <<"**">>, closed |-> FALSE, value |-> "d"]>>
MCFormatters == <<<<"text", "html">>>>

-----------------------------------------------------------------------------
(* Sessions: concurrent requests, two of them at most begin a session.        *)
SS == INSTANCE Sessions WITH Ids <- {1, 2}, Names <- {"k"}, TTL <- 0, MaxTime <- 2

-----------------------------------------------------------------------------
(* Forms of up to three parts, whole or cut off, read through a small buffer. *)
MP == INSTANCE Multipart WITH
  given <- passed, FileNames <- {"a"}, FieldNames <- {"f"}, MultiNames <- {"m"},
  BufferSize <- 5, MaxField <- 7, MaxFile <- 7, MaxParts <- 2

PartHeadOf(file, name, error) == [file |-> file, name |-> name, error |-> error]
MCHeads ==
  ("file" :> PartHeadOf(TRUE, "a", "")) @@ ("other" :> PartHeadOf(TRUE, "u", ""))
    @@ ("field" :> PartHeadOf(FALSE, "f", "")) @@ ("multi" :> PartHeadOf(FALSE, "m", ""))
    @@ ("unknown" :> PartHeadOf(FALSE, "g", "")) @@ ("bad" :> PartHeadOf(FALSE, "", "400"))
    @@ ("inline" :> PartHeadOf(FALSE, "", "501"))
Texts == {<<>>, <<"x">>, <<"x", "n", "x">>, <<"-", "n">>, <<"x", "n", "-", "x">>, <<"x", "x", "x", "x", "x">>}
OnePart == {<<<<h, d>>>> : h \in DOMAIN MCHeads, d \in Texts}
MoreParts ==
  {<<<<h, d>>, <<k, <<"x">>>>>> : h \in {"file", "multi", "other"}, k \in {"file", "multi", "field"}, d \in Texts}
    \cup {<<<<"multi", <<"y">>>>, <<"field", d>>, <<"multi", <<"x">>>>>> : d \in Texts}
MCForms == [parts : OnePart, cut : 0..3] \cup [parts : MoreParts, cut : {0, 1, 3}]

-----------------------------------------------------------------------------
\* One part runs, the others rest.
NoPipes == Init /\ calm
NoFiles == version = 0 /\ packed = 0 /\ fds = 0 /\ cache = 0 /\ co = 0
NoRoutes == site = 0 /\ tree = 0 /\ todo = 0 /\ head = 0 /\ req = 0 /\ phase = 0 /\ resp = 0
NoSessions == now = 0 /\ store = 0 /\ given = 0 /\ handle = 0 /\ serial = 0 /\ changes = 0 /\ seen = 0 /\ ops = 0 /\ raced = 0
NoForms ==
  /\ form = 0 /\ rest = 0 /\ buffer = 0 /\ exhausted = 0 /\ at = 0 /\ part = 0 /\ parts = 0
  /\ consumed = 0 /\ used = 0 /\ multi = 0 /\ passed = 0 /\ starved = 0

MCInit ==
  \/ scene = "pipes" /\ Init /\ NoFiles /\ NoRoutes /\ NoSessions /\ NoForms
  \/ scene = "files" /\ NoPipes /\ SF!Init /\ NoRoutes /\ NoSessions /\ NoForms
  \/ scene = "routes" /\ NoPipes /\ NoFiles /\ RT!Init /\ NoSessions /\ NoForms
  \/ scene = "sessions" /\ NoPipes /\ NoFiles /\ NoRoutes /\ SS!Init /\ NoForms
  \/ scene = "forms" /\ NoPipes /\ NoFiles /\ NoRoutes /\ NoSessions /\ MP!Init
MCNext ==
  \/ scene = "pipes" /\ Next /\ UNCHANGED <<scene, fileVars, routeVars, sessionVars, formVars>>
  \/ scene = "files" /\ SF!Next /\ UNCHANGED <<scene, vars, routeVars, sessionVars, formVars>>
  \/ scene = "routes" /\ RT!Next /\ UNCHANGED <<scene, vars, fileVars, sessionVars, formVars>>
  \/ scene = "sessions" /\ SS!Next /\ UNCHANGED <<scene, vars, fileVars, routeVars, formVars>>
  \/ scene = "forms" /\ MP!Next /\ UNCHANGED <<scene, vars, fileVars, routeVars, sessionVars>>
MCSpec == MCInit /\ [][MCNext]_<<scene, vars, fileVars, routeVars, sessionVars, formVars>>

-----------------------------------------------------------------------------
(* The properties of the parts that run under other names than here *)

\* Every descriptor in use is open and is of the file that was looked up.
DescriptorsMatch == scene = "files" => SF!DescriptorsMatch

\* A range request is answered with the ranges it asked for.
RangesServed == scene = "files" => SF!RangesServed

\* What a client is sent are the bytes of the file.
FileBytesServed == scene = "files" => SF!FileBytesServed

\* A request goes to the most specific route that matches it.
RouteChosen == scene = "routes" => RT!RouteChosen

\* Nothing of one request of a connection is left when the next is handled.
RequestIsFresh == scene = "routes" => RT!RequestIsFresh

\* The order of the application's middlewares shows only in the 406 of one of them.
OrderShowsOnlyInRefusals == scene = "routes" => RT!OrderShowsOnlyInRefusals

\* Requests of a session that do not overlap see each other's changes.
SessionsSerial == scene = "sessions" => SS!SessionsSerial

\* A form reaches its handlers part by part, however it is cut into reads.
PartsDelivered == scene = "forms" => MP!PartsDelivered
=============================================================================
