---------------------------- MODULE StaticFiles ----------------------------
(***************************************************************************)
(* StaticMiddleware (http/middleware/StaticMiddleware.cpp) with the cache  *)
(* of open files that every worker thread has (core/FileCache.hpp), the    *)
(* file readers of core/AsyncFileReader.hpp, and the range handling of     *)
(* http/httpUtils.hpp.  Coroutines of one thread take turns where they     *)
(* suspend; those of two threads meet in the file system only.             *)
(*                                                                         *)
(* One file lies behind the requested path, and is replaced by the next of *)
(* its versions now and then (a new file under the old name).  A version   *)
(* stands for the date of its last modification; an entity tag is made of  *)
(* a date, a size and an encoding.  Sizes are in units of data.            *)
(* Definitions marked "seeded fault" are not part of the model.            *)
(***************************************************************************)
EXTENDS Integers, Sequences, FiniteSets, SequencesExt

CONSTANTS
  Coroutines,
  ThreadOf,      \* the worker thread of a coroutine
  Workloads,     \* the requests each coroutine gets, as functions to sequences
  Lengths,       \* bound: the length of each version of the file
  CacheBelow,    \* FILE_CONTENT_CACHE_THRESHOLD
  CompressFrom,  \* COMPRESS_MIN_BYTES
  ChunkSize,     \* STATIC_STREAM_CHUNK_SIZE
  PartHead       \* size of the delimiter and the headers of a part

None == -1
Encodings == {"gzip", "br"}

\* A request: its method; what its path leads to; accept-encoding as the
\* accepted codings by falling q and the excluded ones; does its type get
\* no-store; the range header as a sequence of ranges; the conditions and
\* if-range as [tag, date], the tag as of a file below, the date a version.
Unparsable == -2
NoValidator == [tag |-> <<None, 0, "">>, date |-> None]
Request == [method |-> "GET", there |-> "file", prefs |-> <<>>, excluded |-> {}, noStore |-> FALSE,
            range |-> <<>>, cond |-> NoValidator, ifRange |-> NoValidator]
ByteRange(first, last) == [dash |-> TRUE, first |-> first, last |-> last]

\* getRanges(): a range without a dash spoils the header, one without numbers
\* is skipped.
GetRanges(header) ==
  IF \E i \in 1..Len(header) : ~header[i].dash THEN <<>>
  ELSE SelectSeq(header, LAMBDA r : r.first # None \/ r.last # None)

VARIABLES
  version,  \* of the file in the file system
  packed,   \* the compressed files: what is under compressedPath, per encoding
  fds,      \* what was opened: the content and whether it is still open
  cache,    \* tl_file_cache of each thread: a function from the keys in use
  co        \* each coroutine: [at, req, file, use, resp] and more while it streams

vars == <<version, packed, fds, cache, co>>

Threads == {ThreadOf[c] : c \in Coroutines}

\* What a file or a buffer holds: a version of the file in an encoding, its
\* length, whether these are really its bytes, and (history) the thread that
\* compressed it.
Content(v, enc, len, genuine) == [ver |-> v, enc |-> enc, len |-> len, genuine |-> genuine, by |-> None]
NoContent == Content(0, "", 0, FALSE)

\* CachedFile: a descriptor with the date (a version), the encoding and the
\* size that make its tag and, of a small file, what was read.  `since' is
\* history: the version that was there when its source was opened.
CachedFile(fd, since, v, enc, len) ==
  [fd |-> fd, since |-> since, ver |-> v, enc |-> enc, size |-> len, cached |-> NoContent, small |-> FALSE]
NoFile == CachedFile(0, 0, 0, "", 0)

NoResponse == [status |-> 0, file |-> NoFile, length |-> 0, offset |-> 0, ranges |-> <<>>, cached |-> FALSE]
Status(n) == [NoResponse EXCEPT !.status = n]
PassedOn == Status(1)  \* co_return co_await next()

Resting == [at |-> "idle", todo |-> <<>>, req |-> Request, file |-> NoFile, use |-> NoFile, tmp |-> NoContent, resp |-> NoResponse,
            idx |-> 0, start |-> 1, end |-> 0, sent |-> <<>>]

Init ==
  /\ version \in 1..Len(Lengths)
  /\ packed = [e \in Encodings |-> NoContent]
  /\ fds = <<>>
  /\ cache = [t \in Threads |-> <<>>]
  /\ \E w \in Workloads : co = [c \in Coroutines |-> [Resting EXCEPT !.todo = w[c]]]

\* A coroutine that is not at one of these suspends nobody else's thread.
Suspended == {"idle", "readingInto", "reading", "writing", "streaming", "done"}
Runs(c, at) ==
  /\ co[c].at = at
  /\ \A d \in Coroutines \ {c} : ThreadOf[d] = ThreadOf[c] => co[d].at \in Suspended

Goto(c, at) == co' = [co EXCEPT ![c].at = at]
Answer(c, resp) == co' = [co EXCEPT ![c].at = "done", ![c].resp = resp]

Cached(c, key) == key \in DOMAIN cache[ThreadOf[c]]
CacheGet(c, key) == cache[ThreadOf[c]][key]

\* FileCache::insert(): insert_or_assign() forgets the descriptor of an entry
\* that is there already, it does not close it.
InsertClosing(c, key, file, opened) ==  \* seeded fault
  /\ cache' = [cache EXCEPT ![ThreadOf[c]] =
                 [k \in DOMAIN @ \cup {key} |-> IF k = key THEN file ELSE @[k]]]
  /\ fds' = IF Cached(c, key) THEN [opened EXCEPT ![CacheGet(c, key).fd].open = FALSE] ELSE opened
Insert(c, key, file, opened) ==
  /\ cache' = [cache EXCEPT ![ThreadOf[c]] =
                 [k \in DOMAIN @ \cup {key} |-> IF k = key THEN file ELSE @[k]]]
  /\ fds' = opened

Opened(content) == Append(fds, [data |-> content, open |-> TRUE])

\* readAll(), readAllInto() and readChunk() read into a buffer that is reserved
\* but empty and then resize() it, which fills it with zeros.  They read `size'
\* units, or what there is.
ReadAndResized(content, size) ==
  LET n == IF size < content.len THEN size ELSE content.len
  IN [content EXCEPT !.len = n, !.genuine = (n = 0)]

-----------------------------------------------------------------------------
(* lookupOrOpen() *)

\* operator() up to the look into the cache.
Arrive(c) ==
  /\ Runs(c, "idle") /\ co[c].todo # <<>>
  /\ LET r == co[c].todo[1]
         arrived == [Resting EXCEPT !.todo = Tail(co[c].todo), !.req = r]
     IN co' = [co EXCEPT ![c] =
                 IF r.method \notin {"GET", "HEAD"} \/ r.there = "elsewhere"
                 THEN [arrived EXCEPT !.at = "done", !.resp = PassedOn]
                 ELSE [arrived EXCEPT !.at = "lookup"]]
  /\ UNCHANGED <<version, packed, fds, cache>>

LookupHit(c) ==
  /\ Runs(c, "lookup") /\ Cached(c, "")
  /\ co' = [co EXCEPT ![c].at = "found", ![c].file = CacheGet(c, ""), ![c].use = CacheGet(c, "")]
  /\ UNCHANGED <<version, packed, fds, cache>>

\* A path outside the root, a missing file, or a file that cannot be opened.
LookupFails(c) ==
  /\ Runs(c, "lookup") /\ ~Cached(c, "")
  /\ \/ co[c].req.there = "outside" /\ Answer(c, Status(403))
     \/ co[c].req.there = "missing" /\ Answer(c, PassedOn)
     \/ co[c].req.there = "locked" /\ \E s \in {403, 500} : Answer(c, Status(s))
  /\ UNCHANGED <<version, packed, fds, cache>>

\* The file is opened; then its size and its date are asked for, by its path
\* and one after the other, so that each may be of a later version.
LookupOpens(c) ==
  /\ Runs(c, "lookup") /\ ~Cached(c, "")
  /\ co[c].req.there = "file"
  /\ fds' = Opened(Content(version, "", Lengths[version], TRUE))
  /\ co' = [co EXCEPT ![c].at = "opened", ![c].file = CachedFile(Len(fds) + 1, version, 0, "", 0)]
  /\ UNCHANGED <<version, packed, cache>>

StatSize(c) ==
  /\ Runs(c, "opened")
  /\ co' = [co EXCEPT ![c].file.size = Lengths[version], ![c].at = "sized"]
  /\ UNCHANGED <<version, packed, fds, cache>>

\* A small file is read before it is entered in the cache, a larger one is
\* entered at once.
LastWriteTime(c) ==
  LET file == [co[c].file EXCEPT !.ver = version]
  IN /\ Runs(c, "sized")
     /\ \/ /\ file.size < CacheBelow
           /\ co' = [co EXCEPT ![c].at = "readingInto", ![c].file = [file EXCEPT !.small = TRUE]]
           /\ UNCHANGED <<fds, cache>>
        \/ /\ file.size >= CacheBelow
           /\ Insert(c, "", file, fds)
           /\ co' = [co EXCEPT ![c].at = "found", ![c].file = file, ![c].use = file]
     /\ UNCHANGED <<version, packed>>

ReadIntoFails(c) ==
  /\ Runs(c, "readingInto")
  /\ Answer(c, Status(500))
  /\ UNCHANGED <<version, packed, fds, cache>>
ReadInto(c) ==
  /\ Runs(c, "readingInto")
  /\ LET f == co[c].file
         file == [f EXCEPT !.cached = ReadAndResized(fds[f.fd].data, f.size)]
     IN /\ Insert(c, "", file, fds)
        /\ co' = [co EXCEPT ![c].at = "found", ![c].file = file, ![c].use = file]
  /\ UNCHANGED <<version, packed>>

-----------------------------------------------------------------------------
(* Choice of the encoding and lookupOrBuildCompressed() *)

\* getCompressor(), the encoding of the compressor.
CompressorFor(coding) == IF coding = "*" THEN "br" ELSE IF coding \in Encodings THEN coding ELSE ""

\* The first coding that has a compressor or is "identity" decides.
ChosenEncoding(prefs) ==
  LET deciding == {i \in 1..Len(prefs) : CompressorFor(prefs[i]) # "" \/ prefs[i] = "identity"}
  IN IF deciding = {} THEN "" ELSE CompressorFor(prefs[Min(deciding)])

Compressible(r, file) ==
  /\ r.range = <<>>
  /\ r.prefs # <<>> \/ r.excluded # {}
  /\ file.size >= CompressFrom

KeyOf(enc) == enc

\* compress(); how much it saves does not matter.
Compressed(content, enc, t) == [content EXCEPT !.enc = enc, !.len = (@ + 1) \div 2, !.by = t]

ChooseEncoding(c) ==
  LET r == co[c].req
      enc == ChosenEncoding(r.prefs)
  IN /\ Runs(c, "found")
     /\ \/ ~Compressible(r, co[c].file) /\ Goto(c, "validate")
        \/ /\ Compressible(r, co[c].file) /\ enc = ""
           /\ IF "identity" \in r.excluded THEN Answer(c, Status(406)) ELSE Goto(c, "validate")
        \/ /\ Compressible(r, co[c].file) /\ enc # ""
           /\ co' = [co EXCEPT ![c].use.enc = enc,
                               ![c].at = IF Cached(c, KeyOf(enc)) THEN "packed" ELSE "reading"]
     /\ UNCHANGED <<version, packed, fds, cache>>

PackedHit(c) ==
  /\ Runs(c, "packed")
  /\ co' = [co EXCEPT ![c].at = "validate", ![c].use = CacheGet(c, KeyOf(co[c].use.enc))]
  /\ UNCHANGED <<version, packed, fds, cache>>

\* readAll() of the source, compress(), and the temporary file, whose name no
\* other coroutine of any thread uses.
ReadAndCompress(c) ==
  LET raw == ReadAndResized(fds[co[c].file.fd].data, co[c].file.size)
  IN /\ Runs(c, "reading")
     /\ co' = [co EXCEPT ![c].at = "writing", ![c].tmp = Compressed(raw, co[c].use.enc, ThreadOf[c])]
     /\ UNCHANGED <<version, packed, fds, cache>>

\* The read throws, the temporary file cannot be opened or written, or it
\* cannot be renamed.
BuildFails(c) ==
  /\ Runs(c, "reading") \/ Runs(c, "writing")
  /\ Answer(c, Status(500))
  /\ UNCHANGED <<version, packed, fds, cache>>

Rename(c) ==
  /\ Runs(c, "writing")
  /\ packed' = [packed EXCEPT ![co[c].use.enc] = co[c].tmp]
  /\ Goto(c, "renamed")
  /\ UNCHANGED <<version, fds, cache>>

\* open() of the renamed file finds what another thread may have put there.
OpenPacked(c) ==
  LET enc == co[c].use.enc
      file == CachedFile(Len(fds) + 1, co[c].file.since, co[c].file.ver, enc, co[c].tmp.len)
  IN /\ Runs(c, "renamed")
     /\ Insert(c, KeyOf(enc), file, Opened(packed[enc]))
     /\ co' = [co EXCEPT ![c].at = "validate", ![c].use = file]
     /\ UNCHANGED <<version, packed>>

OpenPackedFails(c) ==
  /\ Runs(c, "renamed")
  /\ Answer(c, Status(500))
  /\ UNCHANGED <<version, packed, fds, cache>>

-----------------------------------------------------------------------------
(* Conditions and ranges *)

Tag(file) == <<file.ver, file.size, file.enc>>

\* validateAndCleanRanges(): each range with its ends filled in, ...
Filled(r, size) ==
  IF r.first = None
  THEN [first |-> IF r.last >= size THEN 0 ELSE size - r.last, last |-> size - 1]
  ELSE [first |-> r.first, last |-> IF r.last = None \/ r.last >= size THEN size - 1 ELSE r.last]
Unsatisfiable(r, size) == LET f == Filled(r, size) IN f.first > f.last \/ f.first >= size

\* ... sorted by its start, and joined to the one before it when they touch.
JoinTakesLast(out, r) ==  \* seeded fault
  IF out # <<>> /\ r.first <= Last(out).last + 1
  THEN [out EXCEPT ![Len(out)].last = r.last]
  ELSE Append(out, r)
Join(out, r) ==
  IF out # <<>> /\ r.first <= Last(out).last + 1
  THEN [out EXCEPT ![Len(out)].last = IF @ > r.last THEN @ ELSE r.last]
  ELSE Append(out, r)
CleanRanges(ranges, size) ==
  FoldLeft(Join, <<>>,
           SortSeq([i \in 1..Len(ranges) |-> Filled(ranges[i], size)], LAMBDA a, b : a.first < b.first))

\* if-range: an entity tag, a date, or something unparsable.
UseRange(r, file) ==
  \/ r.ifRange = NoValidator
  \/ r.ifRange.tag = Tag(file)
  \/ r.ifRange.date >= file.ver

Span(ranges) == FoldLeft(LAMBDA n, r : n + r.last - r.first + 1, 0, ranges)

\* totalSize: a part is its head, its data and the end of its line; the closing
\* delimiter counts like the end of a line, one unit.
LineEnd == 1
TotalSize(ranges, useRange, size) ==
  IF ~useRange THEN size
  ELSE IF Len(ranges) > 1 THEN Len(ranges) * (PartHead + LineEnd) + Span(ranges) + LineEnd
  ELSE Span(ranges)

\* From the conditional headers to the response, without suspending.
Validate(c) ==
  LET r == co[c].req
      use == co[c].use
      size == use.size
      asked == GetRanges(r.range)
      ranges == CleanRanges(asked, size)
      useRange == ranges # <<>> /\ UseRange(r, use)
      body == [NoResponse EXCEPT
                 !.status = IF useRange \/ Len(ranges) > 1 THEN 206 ELSE 200,
                 !.file = use, !.length = TotalSize(ranges, useRange, size),
                 !.offset = IF useRange THEN ranges[1].first ELSE 0,
                 !.ranges = IF useRange \/ Len(ranges) > 1 THEN ranges ELSE <<>>]
  IN /\ Runs(c, "validate")
     /\ \/ /\ ~r.noStore /\ r.range = <<>>
           /\ \/ r.cond.tag = Tag(use) /\ Answer(c, Status(304))
              \/ r.cond.tag # Tag(use) /\ r.cond.date = Unparsable /\ Answer(c, Status(400))
              \/ r.cond.tag # Tag(use) /\ r.cond.date >= co[c].file.ver /\ Answer(c, Status(304))
        \/ /\ \/ r.noStore \/ r.range # <<>>
              \/ r.cond.tag # Tag(use) /\ r.cond.date # Unparsable /\ r.cond.date < co[c].file.ver
           /\ \/ /\ \E i \in 1..Len(asked) : Unsatisfiable(asked[i], size)
                 /\ Answer(c, Status(416))
              \/ /\ \A i \in 1..Len(asked) : ~Unsatisfiable(asked[i], size)
                 /\ IF r.method = "GET" /\ Len(ranges) > 1
                    THEN co' = [co EXCEPT ![c].at = "streaming", ![c].resp = body]
                    ELSE Answer(c, IF r.method = "HEAD" THEN body
                                   ELSE [body EXCEPT !.cached = co[c].file.small])
     /\ UNCHANGED <<version, packed, fds, cache>>

-----------------------------------------------------------------------------
(* nextBlock(), which the connection calls until it returns nothing *)

\* What readChunk() returns for the byte at a position.
Zeroed(i) == <<"zeroed", i>>
PartBegins == <<"head", 0>>
PartEnds == <<"end", 0>>
Closing == <<"closing", 0>>

\* The block from the state st: a part begins when the one before it is over,
\* and the block takes what still fits behind the head.  Of a file that was
\* longer when its size was taken readChunk() finds less, or nothing: then the
\* stream is over.
Block(c, begins, st, last) ==
  LET room == IF begins THEN ChunkSize - PartHead ELSE ChunkSize
      head == IF begins THEN <<PartBegins>> ELSE <<>>
      blockEnd == IF last < st + room - 1 THEN last ELSE st + room - 1
      read == {i \in st..blockEnd : i < fds[co[c].resp.file.fd].data.len}
  IN IF room <= 0 THEN [at |-> "streaming", out |-> head, start |-> st]
     ELSE IF read = {} THEN [at |-> "done", out |-> <<>>, start |-> blockEnd + 1]
     ELSE [at |-> "streaming", start |-> blockEnd + 1,
           out |-> head \o [i \in 1..Cardinality(read) |-> Zeroed(st + i - 1)]
                        \o IF blockEnd = last THEN <<PartEnds>> ELSE <<>>]

PartIsOver(s) == s.start >= s.end

NextBlock(c) ==
  LET s == co[c]
      begins == PartIsOver(s)
      idx == IF begins THEN s.idx + 1 ELSE s.idx
      from == IF begins THEN s.resp.ranges[idx].first ELSE s.start
      last == IF begins THEN s.resp.ranges[idx].last ELSE s.end
      block == Block(c, begins, from, last)
  IN /\ Runs(c, "streaming")
     /\ idx <= Len(s.resp.ranges)
     /\ co' = [co EXCEPT ![c].sent = @ \o block.out, ![c].at = block.at, ![c].idx = idx,
                         ![c].start = block.start, ![c].end = last]
     /\ UNCHANGED <<version, packed, fds, cache>>

CloseParts(c) ==
  LET s == co[c]
  IN /\ Runs(c, "streaming")
     /\ PartIsOver(s) /\ s.idx = Len(s.resp.ranges)
     /\ co' = [co EXCEPT ![c].idx = @ + 1, ![c].sent = Append(@, Closing)]
     /\ UNCHANGED <<version, packed, fds, cache>>

\* The call after the closing delimiter counts on and reads a range that does
\* not exist: what it finds there is a part, or the process ends.
ReadPastRanges(c) ==
  /\ Runs(c, "streaming")
  /\ co[c].idx > Len(co[c].resp.ranges)
  /\ \E junk \in {<<>>, <<PartBegins>>} :
       co' = [co EXCEPT ![c].at = "done", ![c].sent = @ \o junk]
  /\ UNCHANGED <<version, packed, fds, cache>>

-----------------------------------------------------------------------------
\* The connection is done with the response.
Finish(c) ==
  /\ Runs(c, "done") /\ co[c].todo # <<>>
  /\ co' = [co EXCEPT ![c] = [Resting EXCEPT !.todo = co[c].todo]]
  /\ UNCHANGED <<version, packed, fds, cache>>

\* Somebody puts a new version of the file in the place of the old one.
ReplaceFile ==
  /\ version < Len(Lengths)
  /\ version' = version + 1
  /\ UNCHANGED <<packed, fds, cache, co>>

Next ==
  \/ \E c \in Coroutines :
       \/ Arrive(c) \/ LookupHit(c) \/ LookupFails(c) \/ LookupOpens(c) \/ StatSize(c) \/ LastWriteTime(c)
       \/ ReadInto(c) \/ ReadIntoFails(c)
       \/ ChooseEncoding(c) \/ PackedHit(c) \/ ReadAndCompress(c) \/ BuildFails(c)
       \/ Rename(c) \/ OpenPacked(c) \/ OpenPackedFails(c)
       \/ Validate(c) \/ NextBlock(c) \/ CloseParts(c) \/ ReadPastRanges(c) \/ Finish(c)
  \/ ReplaceFile

Spec == Init /\ [][Next]_vars

-----------------------------------------------------------------------------
(* Properties *)

\* A cached file, and a response that is being sent, has an open descriptor of
\* the encoding its tag names and of the version there was when it was opened,
\* which is the one its tag names and as long as announced: neither concurrent
\* misses nor what the coroutines of a thread enter in its cache get between
\* them.  There are two exceptions.  A file that is replaced between open() and
\* last_write_time() has a tag of a later version, never of an earlier one, and
\* a length of any of them.  A compressed file may be what another thread made
\* of the version in its own cache and put there between rename() and open().
Genuine(f, t) ==
  LET d == fds[f.fd]
  IN /\ d.open /\ d.data.enc = f.enc
     /\ \/ f.enc # "" /\ d.data.by # t
        \/ /\ d.data.ver = f.since /\ f.since <= f.ver
           /\ f.since = f.ver \/ f.enc # "" => d.data.len = f.size
DescriptorsMatch ==
  /\ \A t \in Threads : \A k \in DOMAIN cache[t] : cache[t][k].enc = k /\ Genuine(cache[t][k], t)
  /\ \A c \in Coroutines : co[c].resp.file # NoFile => Genuine(co[c].resp.file, ThreadOf[c])

\* An answer to a range header has the positions of the file that the header
\* asks for: one piece as a 206 with its offset and length, several as the parts
\* of a multipart answer, which up to its closing delimiter holds their bytes in
\* order, none twice, and is as long as content-length announces.  Without
\* ranges, or when if-range names another version, the whole file is the answer,
\* a 200.  The exceptions:
\*   - if-range with another version and ranges of several pieces: the parts are
\*     sent all the same, as a 206 with the content-length of the whole file;
\*   - a part whose last block would be a single byte goes out without it;
\*   - what is sent after the closing delimiter (see ReadPastRanges);
\*   - a file that was replaced while it was being opened may be shorter than
\*     the size the ranges are checked against.
Positions(ranges, size) ==
  {p \in 0..size - 1 : \E i \in 1..Len(ranges) :
     LET r == ranges[i]
     IN IF r.first = None THEN p >= size - r.last
        ELSE p >= r.first /\ (r.last # None => p <= r.last)}
InOnePiece(S) == \A p \in S : p = Min(S) \/ p - 1 \in S
LastByteLost(r) ==
  LET rest == r.last - r.first + 1 - (ChunkSize - PartHead) IN rest > 0 /\ rest % ChunkSize = 1
SizeOf(unit) == IF unit = PartBegins THEN PartHead ELSE 1
BytesOf(sent) == LET bytes == SelectSeq(sent, LAMBDA u : u[1] = "zeroed") IN [i \in 1..Len(bytes) |-> bytes[i][2]]
RangesServed ==
  \A c \in Coroutines :
    LET r == co[c].resp
        asked == Positions(GetRanges(co[c].req.range), r.file.size)
        ranged == asked # {} /\ UseRange(co[c].req, r.file)
    IN /\ r.file # NoFile /\ co[c].at = "done" /\ InOnePiece(asked) =>
            IF ranged
            THEN r.status = 206 /\ r.offset..(r.offset + r.length - 1) = asked
            ELSE r.status = 200 /\ r.offset = 0 /\ r.length = r.file.size
       /\ /\ co[c].at = "streaming" /\ co[c].idx > Len(r.ranges)
          /\ ranged /\ r.file.since = r.file.ver
          /\ \A i \in 1..Len(r.ranges) : ~LastByteLost(r.ranges[i])
          => /\ BytesOf(co[c].sent) = SetToSortSeq(asked, <)
             /\ r.length = FoldLeft(LAMBDA n, u : n + SizeOf(u), 0, co[c].sent)

\* What readAll(), readAllInto() and readChunk() return are the bytes of the
\* file, so a response that is made of them is what was asked for.
FileBytesServed ==
  \A c \in Coroutines :
    LET r == co[c].resp
    IN co[c].at = "done" /\ co[c].req.method = "GET" /\ r.file # NoFile /\ r.file.size > 0 =>
         IF r.cached THEN co[c].file.cached.genuine ELSE fds[r.file.fd].data.genuine /\ BytesOf(co[c].sent) = <<>>
=============================================================================
