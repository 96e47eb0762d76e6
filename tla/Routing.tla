------------------------------ MODULE Routing ------------------------------
(***************************************************************************)
(* The way of a request through the server once its head is complete: the  *)
(* request object of the connection, which is used for every request of it *)
(* (http/HttpRequest.cpp), the route tree and the chain of middlewares     *)
(* (http/Router.cpp), CorsMiddleware, CompressionMiddleware,               *)
(* CacheControlMiddleware and ErrorFactory.                                *)
(*                                                                         *)
(* A path is a sequence of parts, "" where two slashes meet.  The value of *)
(* accept-encoding and accept is what parseQValues() makes of it: the      *)
(* accepted values by falling q and the excluded ones.                     *)
(* Definitions marked "seeded fault" are not part of the model.            *)
(***************************************************************************)
EXTENDS Integers, Sequences, FiniteSets, SequencesExt

CONSTANTS
  Cases,           \* what is registered and what arrives: pairs of a sequence of
                   \* routes, see AddRoute, and one of heads, see ParseRequestLine
  CacheRules,      \* routeCacheControl, a sequence of [pattern, closed, value]
  Formatters,      \* registeredFormatters_, the types
  AllowedOrigins,
  CompressFrom     \* COMPRESS_MIN_BYTES

VARIABLES
  site,   \* routes still to be registered
  tree,   \* pathTreeRoot_: a function from nodes to [handlers, pattern]
  todo,   \* heads still to arrive
  head,   \* the one that arrived last
  req,    \* request_
  phase,  \* "setup", "idle", "parsed", "answered", "closed"
  resp    \* the response

vars == <<site, tree, todo, head, req, phase, resp>>

Accepted(prefs, excluded) == [prefs |-> prefs, excluded |-> excluded]

-----------------------------------------------------------------------------
(* HttpRequest *)

NewRequest == [method |-> "", parts |-> <<>>, star |-> FALSE, query |-> <<>>, headers |-> <<>>,
               allowed |-> {}, params |-> <<>>, length |-> -1]

Singletons == {"host", "content-length", "content-type", "transfer-encoding", "authorization", "expect"}

\* Header names are compared in lower case.
Lower(name) == IF name = "Host" THEN "host" ELSE IF name = "Origin" THEN "origin" ELSE name
Named(headers, name) == SelectSeq(headers, LAMBDA h : h[1] = name)
HasHeader(r, name) == Named(r.headers, name) # <<>>
\* The last of the headers with that name.
GetHeader(r, name) == Last(Named(r.headers, name))[2]

AddHeader(headers, h) ==
  IF h[1] \in Singletons /\ Named(headers, h[1]) # <<>> THEN headers ELSE Append(headers, h)
SetHeader(headers, h) == Append(SelectSeq(headers, LAMBDA g : g[1] # h[1]), h)

\* percentDecode() of the one coded text there is.
PercentDecode(s) == IF s = "%61" THEN "a" ELSE s

\* A head: [ok, method, form, host, path, query, headers, folded].  A folded
\* header line spoils it, as does a request line without two spaces.  The
\* target's host comes before the headers, so that it is the host; a query
\* parameter without a value is "true".
ParseRequestLine(r, h) ==
  [r EXCEPT !.method = h.method,
            !.star = h.form = "asterisk",
            !.headers = IF h.form = "absolute" THEN SetHeader(@, <<"host", h.host>>) ELSE @,
            !.parts = @ \o SelectSeq(h.path, LAMBDA p : p # ""),
            !.query = @ \o [i \in 1..Len(h.query) |->
                              <<PercentDecode(h.query[i][1]),
                                IF h.query[i][2] = "" THEN "true" ELSE PercentDecode(h.query[i][2])>>]]
ParseRequestHeaders(r, h) ==
  [r EXCEPT !.headers =
     FoldLeft(LAMBDA hs, line : AddHeader(hs, <<Lower(line[1]), line[2]>>), @, h.headers)]
Parsable(h) == h.ok /\ ~h.folded

\* getContentLength(), which the connection calls for every head, keeps the
\* length it finds.
KeepLength(r) ==
  IF r.length = -1 /\ HasHeader(r, "content-length") /\ GetHeader(r, "content-length") >= 0
  THEN [r EXCEPT !.length = GetHeader(r, "content-length")] ELSE r

Parsed(r, h) == KeepLength(ParseRequestHeaders(ParseRequestLine(r, h), h))

KeepsLengthOnReset(r) == [NewRequest EXCEPT !.length = r.length]  \* seeded fault
Reset(r) ==
  [r EXCEPT !.headers = <<>>, !.query = <<>>, !.allowed = {}, !.params = <<>>, !.method = "",
            !.parts = <<>>, !.star = FALSE, !.length = -1]

-----------------------------------------------------------------------------
(* The route tree.  A part of a pattern is <<"literal", s>>, <<"param", name>>, *)
(* <<"star", "">> or <<"deep", "">>, a node the edges that lead to it.          *)

Edge(part) == IF part[1] = "param" THEN <<"param", "">> ELSE part
NodeOf(pattern) == [i \in 1..Len(pattern) |-> Edge(pattern[i])]

ValidPattern(pattern) ==
  \A i \in 1..Len(pattern) :
    /\ pattern[i][1] \in {"star", "deep"} => i = Len(pattern)
    /\ pattern[i][1] = "param" =>
         pattern[i][2] # "" /\ \A j \in 1..i - 1 : pattern[j] # pattern[i]

NewNode == [handlers |-> <<>>, pattern |-> <<>>]
WithNodes(t, node) == [n \in DOMAIN t \cup Prefixes(node) |-> IF n \in DOMAIN t THEN t[n] ELSE NewNode]

HandlerOf(entry, method) == SelectSeq(entry.handlers, LAMBDA h : h.method = method)
AllowedMethods(entry) ==
  {entry.handlers[i].method : i \in 1..Len(entry.handlers)} \cup {"OPTIONS"}
    \cup IF HandlerOf(entry, "GET") # <<>> THEN {"HEAD"} ELSE {}

\* addRoute(), with a route [pattern, method, kind, size],
\* the last two of what its handler answers.  A bad pattern throws
\* before a node is made, a second handler of the method after.
AddRoute ==
  /\ phase = "setup" /\ site # <<>>
  /\ LET route == site[1]
         node == NodeOf(route.pattern)
         t == WithNodes(tree, node)
     IN tree' =
          IF ~ValidPattern(route.pattern) THEN tree
          ELSE IF HandlerOf(t[node], route.method) # <<>> THEN t
          ELSE [t EXCEPT ![node] = [handlers |-> Append(@.handlers, route), pattern |-> route.pattern]]
  /\ site' = Tail(site)
  /\ UNCHANGED <<todo, head, req, phase, resp>>

Serve ==
  /\ phase = "setup" /\ site = <<>>
  /\ phase' = "idle"
  /\ UNCHANGED <<site, tree, todo, head, req, resp>>

\* backtrack(): a literal child first, then a parameter, "*" and "**"; the set
\* of the node found.
RECURSIVE Backtrack(_, _)
BacktrackCommits(node, parts) ==  \* seeded fault
  LET try(e) == IF Append(node, e) \in DOMAIN tree THEN Backtrack(Append(node, e), Tail(parts)) ELSE {}
      deep == Append(node, <<"deep", "">>)
  IN IF parts = <<>> THEN {node}
     ELSE IF Append(node, <<"literal", parts[1]>>) \in DOMAIN tree THEN try(<<"literal", parts[1]>>)
     ELSE IF try(<<"param", "">>) # {} THEN try(<<"param", "">>)
     ELSE IF try(<<"star", "">>) # {} THEN try(<<"star", "">>)
     ELSE {deep} \cap DOMAIN tree
Backtrack(node, parts) ==
  LET try(e) == IF Append(node, e) \in DOMAIN tree THEN Backtrack(Append(node, e), Tail(parts)) ELSE {}
      deep == Append(node, <<"deep", "">>)
  IN IF parts = <<>> THEN {node}
     ELSE IF try(<<"literal", parts[1]>>) # {} THEN try(<<"literal", parts[1]>>)
     ELSE IF try(<<"param", "">>) # {} THEN try(<<"param", "">>)
     ELSE IF try(<<"star", "">>) # {} THEN try(<<"star", "">>)
     ELSE {deep} \cap DOMAIN tree

FindMatchingRouteEntry(parts) == {n \in Backtrack(<<>>, parts) : tree[n].handlers # <<>>}

\* getPathParams(), with the parts that "**" captures as one value.
PathParams(pattern, parts) ==
  LET value(i) == CASE pattern[i][1] = "deep" -> <<<<"**", SubSeq(parts, i, Len(parts))>>>>
                    [] pattern[i][1] = "star" -> <<<<"*", <<parts[i]>>>>>>
                    [] pattern[i][1] = "param" -> <<<<pattern[i][2], <<PercentDecode(parts[i])>>>>>>
                    [] OTHER -> <<>>
  IN FlattenSeq([i \in 1..Len(pattern) |-> value(i)])

-----------------------------------------------------------------------------
(* Responses, ErrorFactory and the middlewares *)

\* body is what the size of the body decides on; cc is cache-control; ran tells
\* that a handler has run, which may have changed the session.
Plain(status, type, body) ==
  [kind |-> "plain", status |-> status, type |-> type, body |-> body, cc |-> "", vary |-> {}, enc |-> "",
   origin |-> FALSE, allow |-> {}, cookie |-> FALSE, ran |-> FALSE]
Thrown == [Plain(500, "json", 1) EXCEPT !.kind = "thrown"]

StripBody(r) == [r EXCEPT !.body = 0]

\* mime_match(), of types <<main, sub>>.
MimeMatch(p, v) ==
  \/ p = <<"*", "*">>
  \/ \A i \in 1..2 : p[i] = "*" \/ v[i] = "*" \/ p[i] = v[i]

\* build(): the fallback formatter says no-store, a registered one need not.
\* Of the accept headers, which count as one, a request here has at most one.
Fallback(status) == [Plain(status, "json", 1) EXCEPT !.cc = "no-store"]
BuildError(r, status) ==
  IF ~HasHeader(r, "accept") THEN Fallback(status)
  ELSE LET a == GetHeader(r, "accept")
           fits(i) == IF a.prefs = <<>>
                      THEN \A e \in a.excluded : ~MimeMatch(e, Formatters[i])
                      ELSE \E j \in 1..Len(a.prefs) : MimeMatch(Formatters[i], a.prefs[j])
       IN IF a.prefs = <<>> /\ a.excluded = {} THEN Fallback(status)
          ELSE IF \E i \in 1..Len(Formatters) : fits(i) THEN Plain(status, "text", 1)
          ELSE Fallback(406)
ErrorFor(r, status) == IF r.method = "HEAD" THEN StripBody(BuildError(r, status)) ELSE BuildError(r, status)

\* The terminal handler of dispatch() for the node found.  A handler of a
\* plain, stream or file response may have changed the session; for HEAD only
\* a plain or stream response can be stripped, a file response throws.
Terminal(r, found) ==
  IF found = {} THEN ErrorFor(r, 404)
  ELSE LET entry == tree[CHOOSE n \in found : TRUE]
           handler == HandlerOf(entry, IF r.method = "HEAD" THEN "GET" ELSE r.method)
           answer == [Plain(200, "text", handler[1].size) EXCEPT !.kind = handler[1].kind, !.ran = TRUE]
       IN IF handler # <<>>
          THEN IF r.method # "HEAD" THEN answer
               ELSE IF answer.kind = "file" THEN Thrown
               ELSE StripBody([answer EXCEPT !.kind = "plain"])
          ELSE IF r.method = "OPTIONS" THEN [Plain(204, "", 0) EXCEPT !.allow = AllowedMethods(entry)]
          ELSE [ErrorFor(r, 405) EXCEPT !.allow = AllowedMethods(entry)]

\* Each middleware as a function of the response that next() would give.
Cors(r, next) ==
  LET allowed == GetHeader(r, "origin") \in AllowedOrigins
  IN IF ~HasHeader(r, "origin") THEN next
     ELSE IF r.method = "OPTIONS"
     THEN IF ~allowed THEN Plain(204, "", 0)
          ELSE [Plain(204, "", 0) EXCEPT !.vary = {"origin"}, !.origin = TRUE, !.allow = r.allowed]
     ELSE IF next.kind = "thrown" THEN next
     ELSE [next EXCEPT !.vary = @ \cup {"origin"}, !.origin = allowed]

Compressibles == {"text", "json"}
Compressor(prefs) == SelectSeq(prefs, LAMBDA p : p \in {"gzip", "br", "*"})
Coding(p) == IF p = "*" THEN "br" ELSE p

\* A file response that has reached this point is not compressed.
CompressionAnswersAnew(r, next) ==  \* seeded fault
  LET a == GetHeader(r, "accept-encoding")
      usable == Compressor(a.prefs)
  IN IF ~HasHeader(r, "accept-encoding") \/ next.kind = "thrown" \/ next.enc # "" \/ next.type \notin Compressibles THEN next
     ELSE IF next.kind = "plain" /\ "identity" \notin a.excluded /\ next.body < CompressFrom
     THEN [next EXCEPT !.vary = @ \cup {"accept-encoding"}]
     ELSE IF usable = <<>> THEN IF "identity" \in a.excluded THEN [ErrorFor(r, 406) EXCEPT !.ran = next.ran] ELSE next
     ELSE IF next.kind = "file" THEN next
     ELSE [Plain(next.status, next.type, next.body) EXCEPT !.enc = Coding(usable[1]), !.vary = {"accept-encoding"}]
Compression(r, next) ==
  LET a == GetHeader(r, "accept-encoding")
      usable == Compressor(a.prefs)
  IN IF ~HasHeader(r, "accept-encoding") \/ next.kind = "thrown" \/ next.enc # "" \/ next.type \notin Compressibles THEN next
     ELSE IF next.kind = "plain" /\ "identity" \notin a.excluded /\ next.body < CompressFrom
     THEN [next EXCEPT !.vary = @ \cup {"accept-encoding"}]
     ELSE IF usable = <<>> THEN IF "identity" \in a.excluded THEN [ErrorFor(r, 406) EXCEPT !.ran = next.ran] ELSE next
     ELSE IF next.kind = "file" THEN next
     ELSE [next EXCEPT !.enc = Coding(usable[1]), !.vary = @ \cup {"accept-encoding"}]

\* The rule of a pattern: "*" stands for the last part, "**" for anything, and
\* a pattern of literal parts fits only when it is closed by a slash.
RuleFits(rule, parts) ==
  LET p == rule.pattern
      upTo == {i \in 1..Len(p) : p[i] \in {"*", "**"}}
      n == IF upTo = {} THEN Len(p) ELSE Min(upTo) - 1
  IN /\ \A i \in 1..n : i <= Len(parts) => parts[i] = p[i]
     /\ IF upTo = {} \/ Len(parts) <= n THEN upTo = {} /\ Len(parts) = n /\ (rule.closed \/ p = <<>>)
        ELSE p[n + 1] = "**" \/ Len(parts) = n + 1
CacheControl(r, next) ==
  LET fitting == SelectSeq(CacheRules, LAMBDA rule : RuleFits(rule, r.parts))
  IN IF next.kind = "thrown" \/ next.cc # "" THEN next
     ELSE IF next.status >= 400 THEN [next EXCEPT !.cc = "no-store"]
     ELSE IF fitting # <<>> THEN [next EXCEPT !.cc = fitting[1].value]
     ELSE [next EXCEPT !.cc = IF next.type = "text" THEN "of the type" ELSE "default"]

\* What SessionMiddleware does to the response of a handler that has changed
\* the session.
Session(r, next) == IF next.ran /\ next.kind # "thrown" THEN [next EXCEPT !.cookie = TRUE] ELSE next

Apply(name, r, next) ==
  CASE name = "cors" -> Cors(r, next)
    [] name = "compression" -> Compression(r, next)
    [] name = "cacheControl" -> CacheControl(r, next)
    [] name = "session" -> Session(r, next)
RunChain(chain, r, terminal) == FoldRight(LAMBDA name, next : Apply(name, r, next), chain, terminal)

\* The order in which the application registers them.
Registered == <<"cors", "compression", "cacheControl", "session">>

-----------------------------------------------------------------------------
Init ==
  /\ \E c \in Cases : site = c[1] /\ todo = c[2]
  /\ tree = (<<>> :> NewNode)
  /\ head = <<>> /\ req = NewRequest /\ resp = Plain(0, "", 0)
  /\ phase = "setup"

\* A head arrives; one that cannot be parsed ends the connection.
Arrive ==
  /\ phase = "idle" /\ todo # <<>>
  /\ head' = todo[1] /\ todo' = Tail(todo)
  /\ IF Parsable(head') THEN req' = Parsed(req, head') /\ phase' = "parsed"
                        ELSE req' = req /\ phase' = "closed"
  /\ UNCHANGED <<site, tree, resp>>

\* dispatch()
DispatchRefused ==
  /\ phase = "parsed"
  /\ \/ /\ req.method \in {"TRACE", "CONNECT"}
        /\ resp' = BuildError(req, 501)
     \/ /\ req.method = "OPTIONS" /\ req.star
        /\ resp' = [Plain(204, "", 0) EXCEPT
                      !.allow = {"OPTIONS"} \cup UNION {AllowedMethods(tree[n]) : n \in {m \in DOMAIN tree : tree[m].handlers # <<>>}}]
  /\ phase' = "answered"
  /\ UNCHANGED <<site, tree, todo, head, req>>

Routed(r) ==
  LET found == FindMatchingRouteEntry(r.parts)
  IN IF found = {} THEN r ELSE [r EXCEPT !.allowed = AllowedMethods(tree[CHOOSE n \in found : TRUE])]
Dispatch ==
  /\ phase = "parsed"
  /\ req.method \notin {"TRACE", "CONNECT"} /\ ~(req.method = "OPTIONS" /\ req.star)
  /\ LET found == FindMatchingRouteEntry(req.parts)
         r == Routed(req)
         preflight == r.method = "OPTIONS" /\ HasHeader(r, "origin")
     IN /\ resp' = RunChain(Registered, r, Terminal(r, found))
        /\ req' = IF preflight \/ found = {} THEN r
                  ELSE [r EXCEPT !.params = PathParams(tree[CHOOSE n \in found : TRUE].pattern, r.parts)]
  /\ phase' = "answered"
  /\ UNCHANGED <<site, tree, todo, head>>

\* resetForNextRequest()
NextRequest ==
  /\ phase = "answered" /\ todo # <<>>
  /\ req' = Reset(req)
  /\ phase' = "idle"
  /\ UNCHANGED <<site, tree, todo, head, resp>>

Next == AddRoute \/ Serve \/ Arrive \/ DispatchRefused \/ Dispatch \/ NextRequest

-----------------------------------------------------------------------------
(* Properties *)

\* The route a request gets is the most specific node of the tree that fits its
\* path, whichever branches backtrack() has to give up on the way; it gets none
\* only when no route fits or a more specific node that is not a route, the
\* beginning of a longer pattern, hides it.
Fits(n, parts) ==
  LET fitsAt(i) == n[i][1] # "literal" \/ n[i][2] = parts[i]
      deep == n # <<>> /\ Last(n)[1] = "deep"
  IN /\ IF deep THEN Len(parts) >= Len(n) ELSE Len(parts) = Len(n)
     /\ \A i \in 1..Len(n) : fitsAt(i)
Rank(edge) == CASE edge[1] = "literal" -> 1 [] edge[1] = "param" -> 2 [] edge[1] = "star" -> 3 [] OTHER -> 4
MoreSpecific(n, m) ==
  \E i \in 1..Len(n) : i <= Len(m) /\ Rank(n[i]) < Rank(m[i]) /\ SubSeq(n, 1, i - 1) = SubSeq(m, 1, i - 1)
RouteChosen ==
  phase = "parsed" =>
    LET fitting == {n \in DOMAIN tree : Fits(n, req.parts)}
        routes == {n \in fitting : tree[n].handlers # <<>>}
        found == FindMatchingRouteEntry(req.parts)
    IN /\ found \subseteq routes
       /\ \A f \in found : \A n \in fitting \ {f} : MoreSpecific(f, n)
       /\ found = {} => \A n \in routes : \E m \in fitting \ routes : MoreSpecific(m, n)

\* What a handler finds in the request object is what the head of its own
\* request says, however many requests of the connection came before it.
RequestIsFresh == phase = "parsed" => req = Parsed(NewRequest, head)

Orders == {<<"cors", f[1], f[2], f[3]>> : f \in {g \in [1..3 -> {"compression", "cacheControl", "session"}] :
                                               \A i, j \in 1..3 : g[i] = g[j] => i = j}}

\* "Order doesn't matter after this", says the application where it registers
\* the three middlewares behind the static files.  It does, in exactly one case,
\* which this property delimits: a client that accepts neither a coding the
\* server has nor the plain body gets a 406 in every order, but in the order in
\* use that 406 takes the place of the handler's response with the Set-Cookie
\* of the session it has changed; another order sends the cookie.  Every other
\* response is the same in all orders.
OrderShowsOnlyInRefusals ==
  phase = "parsed" =>
    LET r == Routed(req)
        terminal == Terminal(r, FindMatchingRouteEntry(req.parts))
        normal == RunChain(Registered, r, terminal)
        others == {RunChain(chain, r, terminal) : chain \in Orders} \ {normal}
        accepts == GetHeader(r, "accept-encoding")
        refused == /\ HasHeader(r, "accept-encoding") /\ "identity" \in accepts.excluded
                   /\ Compressor(accepts.prefs) = <<>> /\ normal.status = 406
    IN /\ others # {} => refused /\ ~normal.cookie /\ \A o \in others : o.status = 406
       /\ refused /\ terminal.ran => \E o \in others : o.cookie
=============================================================================
