-------------------------- MODULE MiddlewareProofs --------------------------
(***************************************************************************)
(* Proofs about the two middlewares with a state of their own: static      *)
(* files, for any number of coroutines and threads, any requests and any   *)
(* versions of the file, and sessions, for any requests, ids, keys and     *)
(* time to live.                                                           *)
(***************************************************************************)
EXTENDS StaticFiles, SequenceTheorems, TLAPS

CONSTANTS Requests, Ids, Names, NoRequest, TTL, MaxTime
VARIABLES now, store, given, handle, serial, changes, seen, ops, raced

S == INSTANCE Sessions

-----------------------------------------------------------------------------
(* STATIC FILES                                                              *)

\* The versions of the file have lengths.
FileConstants == Lengths \in Seq(Nat)

Versions == 1..Len(Lengths)
Codings == {""} \cup Encodings

ContentType == [ver : Nat, enc : Codings, len : Nat, genuine : BOOLEAN, by : Threads \cup {None}]
FileType == [fd : Nat, since : Nat, ver : Nat, enc : Codings, size : Nat, cached : ContentType, small : BOOLEAN]

\* A version of the file: as it is, all of it, or what was compressed.
Whole(d, enc) ==
  d \in ContentType /\ d.enc = enc /\ d.ver \in Versions /\ (enc = "" => d.len = Lengths[d.ver])

\* What is open is whole, and nothing is ever closed.
Files ==
  /\ version \in Versions
  /\ fds \in Seq([data : ContentType, open : BOOLEAN])
  /\ \A i \in 1..Len(fds) : fds[i].open /\ Whole(fds[i].data, fds[i].data.enc)
  /\ packed \in [Encodings -> ContentType]
  /\ \A e \in Encodings : packed[e] = NoContent \/ Whole(packed[e], e)

\* A CachedFile that a thread holds: its descriptor matches.
Sound(f, t, enc) ==
  /\ f \in FileType /\ f.fd \in 1..Len(fds)
  /\ f.enc = enc /\ f.since \in Versions /\ f.ver \in Versions
  /\ Genuine(f, t)

\* So is every entry of a cache, under the key of its encoding.
Caches ==
  /\ DOMAIN cache = Threads
  /\ \A t \in Threads : \A k \in DOMAIN cache[t] : k \in Codings /\ Sound(cache[t][k], t, k)

\* Where a coroutine has a source file, and where it is about to compress it.
WithFile == {"readingInto", "found", "packed", "reading", "writing", "renamed", "validate"}
Packing == {"packed", "reading", "writing", "renamed"}
Asking == {"opened", "sized"}
Labels == WithFile \cup Asking \cup {"idle", "lookup", "streaming", "done"}
\* A frame has these fields; only some of them matter here.
FieldNames == {"at", "todo", "req", "file", "use", "tmp", "resp", "idx", "start", "end", "sent"}
Fields(s) == s = [f \in FieldNames |-> s[f]]
\* What a coroutine of thread t with the frame s holds is sound, ...
Holds(t, s) ==
  /\ s.at \in WithFile => Sound(s.file, t, "")
  /\ s.at \in {"found", "validate"} => s.use.enc \in Codings /\ Sound(s.use, t, s.use.enc)
  /\ s.at \in Packing => s.use \in FileType /\ s.use.enc \in Encodings
  /\ s.at = "packed" => s.use.enc \in DOMAIN cache[t]
  /\ s.resp.file = NoFile \/ (s.resp.file.enc \in Codings /\ Sound(s.resp.file, t, s.resp.file.enc))
\* ... what it compresses is of the version that its source was opened as.
\* Between rename() and open() only other threads can put something else under
\* the name.
Packs(t, s) ==
  /\ s.at \in {"writing", "renamed"} =>
       Whole(s.tmp, s.use.enc) /\ s.tmp.ver = s.file.since /\ s.tmp.by = t
  /\ s.at = "renamed" =>
       Whole(packed[s.use.enc], s.use.enc) /\ (packed[s.use.enc].by = t => packed[s.use.enc] = s.tmp)
\* Between open() and last_write_time() it has the version that was there first;
\* as long as that is still there, the size is its size.
Asks(s) ==
  s.at \in Asking =>
    /\ s.file \in FileType /\ s.file.fd \in 1..Len(fds) /\ s.file.enc = ""
    /\ s.file.since \in Versions /\ s.file.since <= version
    /\ fds[s.file.fd].data.enc = "" /\ fds[s.file.fd].data.ver = s.file.since
    /\ s.at = "sized" /\ s.file.since = version => s.file.size = Lengths[version]
Frame(t, s) == Fields(s) /\ s.at \in Labels /\ Holds(t, s) /\ Packs(t, s) /\ Asks(s)

Frames == co = [c \in Coroutines |-> co[c]] /\ \A c \in Coroutines : Frame(ThreadOf[c], co[c])

IInv == Files /\ Caches /\ Frames

-----------------------------------------------------------------------------
\* It holds before the first request.
LEMMA InitHolds == ASSUME FileConstants, Init PROVE IInv
<1>1. NoContent \in ContentType
  BY DEF NoContent, Content, ContentType, Codings
<1>2. Files
  <2>1. fds = <<>> /\ Len(fds) = 0 /\ packed = [e \in Encodings |-> NoContent] /\ version \in Versions
    BY DEF Init, Versions
  <2>2. fds \in Seq([data : ContentType, open : BOOLEAN])
    BY <2>1
  <2> QED BY <1>1, <2>1, <2>2 DEF Files
<1>3. Caches
  <2>1. DOMAIN cache = Threads /\ \A t \in Threads : cache[t] = <<>>
    BY DEF Init
  <2>2. DOMAIN << >> = {}
    OBVIOUS
  <2> QED BY <2>1, <2>2 DEF Caches
<1>4. Frames
  <2>1. PICK w \in Workloads : co = [c \in Coroutines |-> [Resting EXCEPT !.todo = w[c]]]
    BY DEF Init
  <2>2. ASSUME NEW c \in Coroutines PROVE Frame(ThreadOf[c], co[c])
    <3>1. co[c] = [Resting EXCEPT !.todo = w[c]]
      BY <2>1
    <3>2. Fields(co[c])
      BY <3>1 DEF Resting, Fields, FieldNames
    <3>3. co[c].at = "idle" /\ co[c].resp = NoResponse
      BY <3>1 DEF Resting
    <3>4. co[c].resp.file = NoFile
      BY <3>3 DEF NoResponse
    <3> QED BY <3>2, <3>3, <3>4 DEF Frame, Labels, Holds, Packs, Asks, WithFile, Packing, Asking
  <2> QED BY <2>1, <2>2 DEF Frames
<1> QED BY <1>2, <1>3, <1>4 DEF IInv

\* A descriptor stays what it is.
Grows == Len(fds) \in Nat /\ Len(fds') \in Nat /\ Len(fds) <= Len(fds') /\ \A i \in 1..Len(fds) : fds'[i] = fds[i]

\* What a thread holds stays sound when more is opened.
LEMMA Stays == ASSUME Grows PROVE \A f, t, enc : Sound(f, t, enc) => Sound(f, t, enc)'
<1> SUFFICES ASSUME NEW f, NEW t, NEW enc, Sound(f, t, enc) PROVE Sound(f, t, enc)'
  OBVIOUS
<1>1. f.fd \in 1..Len(fds) /\ fds'[f.fd] = fds[f.fd] /\ f.fd \in 1..Len(fds')
  BY DEF Grows, Sound
<1>2. Genuine(f, t)'
  BY <1>1 DEF Sound, Genuine
<1> QED BY <1>1, <1>2 DEF Sound

\* What the others hold they keep, whatever is opened and cached.
LEMMA HoldStays ==
  ASSUME Grows, NEW t, DOMAIN cache[t] \subseteq DOMAIN cache'[t]
  PROVE  \A s : Holds(t, s) => Holds(t, s)'
BY Stays DEF Holds

\* Nor does a file change its version, unless it is replaced.
LEMMA AsksStay == ASSUME Grows, version' = version PROVE \A s : Asks(s) => Asks(s)'
<1> SUFFICES ASSUME NEW s, Asks(s), s.at \in Asking PROVE Asks(s)'
  BY DEF Asks
<1>0. s.file.fd \in 1..Len(fds)
  BY DEF Asks
<1>1. s.file.fd \in 1..Len(fds') /\ fds'[s.file.fd] = fds[s.file.fd]
  BY <1>0 DEF Grows
<1> QED BY <1>1 DEF Asks

\* A step of coroutine c, whose frame is s afterwards.
LEMMA Moves ==
  ASSUME IInv, NEW c \in Coroutines, NEW s, co' = [co EXCEPT ![c] = s],
         Grows, version' = version, Files', Caches', \A t \in Threads : DOMAIN cache[t] \subseteq DOMAIN cache'[t],
         Fields(s), s.at \in Labels, Holds(ThreadOf[c], s)', Packs(ThreadOf[c], s)', Asks(s)',
         \A d \in Coroutines \ {c} : Packs(ThreadOf[d], co[d])'
  PROVE  IInv'
<1>1. ASSUME NEW d \in Coroutines \ {c} PROVE Frame(ThreadOf[d], co[d])'
  <2>1. co'[d] = co[d]
    BY DEF IInv, Frames
  <2>2. Frame(ThreadOf[d], co[d])
    BY DEF IInv, Frames
  <2>3. ThreadOf[d] \in Threads
    BY DEF Threads
  <2>4. Holds(ThreadOf[d], co[d])'
    BY <2>1, <2>2, <2>3, HoldStays DEF Frame
  <2>5. Asks(co[d])'
    BY <2>1, <2>2, AsksStay DEF Frame
  <2> QED BY <2>1, <2>2, <2>4, <2>5 DEF Frame
<1>2. co'[c] = s /\ co' = [d \in Coroutines |-> co'[d]]
  BY DEF IInv, Frames
<1>3. Frame(ThreadOf[c], co[c])'
  BY <1>2 DEF Frame
<1>4. Frames'
  BY <1>1, <1>2, <1>3 DEF Frames
<1> QED BY <1>4 DEF IInv

\* One that opens, caches and renames nothing.
LEMMA Quiet ==
  ASSUME IInv, NEW c \in Coroutines, NEW s, co' = [co EXCEPT ![c] = s],
         UNCHANGED <<version, packed, fds, cache>>, Fields(s), s.at \in Labels, Holds(ThreadOf[c], s), Packs(ThreadOf[c], s),
         Asks(s)
  PROVE  IInv'
<1>1. Grows
  BY DEF IInv, Files, Grows
<1>2. Files'
  BY DEF IInv, Files, Whole
<1>3. DOMAIN cache' = Threads /\ \A t \in Threads : cache'[t] = cache[t]
  BY DEF IInv, Caches
<1>4. Caches'
  BY <1>1, <1>3, Stays DEF IInv, Caches
<1>5. Holds(ThreadOf[c], s)'
  BY <1>1, HoldStays
<1>6. \A t, r : Packs(t, r) => Packs(t, r)'
  BY DEF Packs, Whole
<1>7. \A d \in Coroutines \ {c} : Packs(ThreadOf[d], co[d])'
  <2> SUFFICES ASSUME NEW d \in Coroutines \ {c} PROVE Packs(ThreadOf[d], co[d])'
    OBVIOUS
  <2>1. co'[d] = co[d] /\ Packs(ThreadOf[d], co[d])
    BY DEF IInv, Frames, Frame
  <2> QED BY <1>6, <2>1
<1>8. Asks(s)'
  BY <1>1, AsksStay
<1> QED BY <1>1, <1>2, <1>3, <1>4, <1>5, <1>6, <1>7, <1>8, Moves

-----------------------------------------------------------------------------
(* One step each                                                             *)

\* The frame of a coroutine, with its parts.
LEMMA FrameFacts ==
  ASSUME IInv, NEW c \in Coroutines
  PROVE  /\ Fields(co[c]) /\ co[c].at \in Labels /\ Holds(ThreadOf[c], co[c]) /\ Packs(ThreadOf[c], co[c])
         /\ Asks(co[c]) /\ ThreadOf[c] \in Threads /\ co = [d \in Coroutines |-> co[d]]
BY DEF IInv, Frames, Frame, Threads

\* An answer ends the request; its file, if it has one, is sound.
LEMMA AnswerStep ==
  ASSUME IInv, NEW c \in Coroutines, NEW r, Answer(c, r), UNCHANGED <<version, packed, fds, cache>>,
         \/ r.file = NoFile
         \/ r.file.enc \in Codings /\ Sound(r.file, ThreadOf[c], r.file.enc)
  PROVE  IInv'
<1> DEFINE s == [co[c] EXCEPT !.at = "done", !.resp = r]
<1>1. co' = [co EXCEPT ![c] = s]
  BY FrameFacts DEF Answer
<1>2. Fields(s) /\ s.at = "done" /\ s.resp = r
  BY FrameFacts DEF Fields, FieldNames
<1> HIDE DEF s
<1>3. s.at \in Labels /\ Holds(ThreadOf[c], s) /\ Packs(ThreadOf[c], s) /\ Asks(s)
  BY <1>2 DEF Labels, WithFile, Packing, Asking, Holds, Packs, Asks
<1> QED BY <1>1, <1>2, <1>3, Quiet

\* A status has no file.
LEMMA StatusFile == \A n : Status(n).file = NoFile
BY DEF Status, NoResponse

\* Answers without a file,
LEMMA StatusStep ==
  ASSUME IInv, NEW c \in Coroutines, NEW n, Answer(c, Status(n)), UNCHANGED <<version, packed, fds, cache>>
  PROVE  IInv'
BY StatusFile, AnswerStep

\* with which the error paths end,
LEMMA FailStep ==
  ASSUME IInv, NEW c \in Coroutines,
         LookupFails(c) \/ ReadIntoFails(c) \/ BuildFails(c) \/ OpenPackedFails(c)
  PROVE  IInv'
<1>1. UNCHANGED <<version, packed, fds, cache>>
  BY DEF LookupFails, ReadIntoFails, BuildFails, OpenPackedFails
<1>2. \E n : Answer(c, Status(n))
  BY ZenonT(60) DEF LookupFails, ReadIntoFails, BuildFails, OpenPackedFails, PassedOn
<1> QED BY <1>1, <1>2, StatusStep

\* operator() up to the cache,
LEMMA ArriveStep == ASSUME IInv, NEW c \in Coroutines, Arrive(c) PROVE IInv'
<1> DEFINE r == co[c].todo[1]
           arrived == [Resting EXCEPT !.todo = Tail(co[c].todo), !.req = r]
           s == IF r.method \notin {"GET", "HEAD"} \/ r.there = "elsewhere"
                THEN [arrived EXCEPT !.at = "done", !.resp = PassedOn]
                ELSE [arrived EXCEPT !.at = "lookup"]
<1>1. co' = [co EXCEPT ![c] = s] /\ UNCHANGED <<version, packed, fds, cache>>
  BY DEF Arrive
<1>2. Fields(arrived) /\ arrived.resp = NoResponse
  BY DEF Fields, FieldNames, Resting
<1> HIDE DEF arrived
<1>3. Fields(s) /\ s.at \in {"done", "lookup"} /\ s.resp \in {NoResponse, PassedOn}
  BY <1>2 DEF Fields, FieldNames
<1> HIDE DEF s
<1>4. s.resp.file = NoFile
  BY <1>3, StatusFile DEF NoResponse, PassedOn
<1>5. s.at \in Labels /\ Holds(ThreadOf[c], s) /\ Packs(ThreadOf[c], s) /\ Asks(s)
  BY <1>3, <1>4 DEF Labels, WithFile, Packing, Asking, Holds, Packs, Asks
<1> QED BY <1>1, <1>3, <1>5, Quiet

\* a hit of lookupOrOpen(),
LEMMA LookupHitStep == ASSUME IInv, NEW c \in Coroutines, LookupHit(c) PROVE IInv'
<1> DEFINE f == CacheGet(c, "")
           s == [co[c] EXCEPT !.at = "found", !.file = f, !.use = f]
<1>1. co' = [co EXCEPT ![c] = s] /\ UNCHANGED <<version, packed, fds, cache>>
  BY FrameFacts DEF LookupHit
<1>2. f.enc \in Codings /\ Sound(f, ThreadOf[c], "") /\ Sound(f, ThreadOf[c], f.enc)
  BY FrameFacts DEF LookupHit, Cached, CacheGet, IInv, Caches, Sound
<1>3. Fields(s) /\ s.at = "found" /\ s.file = f /\ s.use = f /\ s.resp = co[c].resp
  BY FrameFacts DEF Fields, FieldNames
<1> HIDE DEF s, f
<1>4. s.at \in Labels /\ Holds(ThreadOf[c], s) /\ Packs(ThreadOf[c], s) /\ Asks(s)
  BY <1>2, <1>3, FrameFacts DEF Labels, WithFile, Packing, Asking, Holds, Packs, Asks
<1> QED BY <1>1, <1>3, <1>4, Quiet

\* What is opened is one descriptor more,
LEMMA OpenedFacts ==
  ASSUME IInv, NEW d, Whole(d, d.enc), fds' = Opened(d), UNCHANGED <<version, packed>>
  PROVE  /\ Grows /\ Files' /\ Len(fds') = Len(fds) + 1 /\ Len(fds) + 1 \in 1..Len(fds')
         /\ fds'[Len(fds) + 1] = [data |-> d, open |-> TRUE]
<1> DEFINE x == [data |-> d, open |-> TRUE]
<1>1. fds \in Seq([data : ContentType, open : BOOLEAN]) /\ x \in [data : ContentType, open : BOOLEAN]
  BY DEF IInv, Files, Whole
<1>2. fds' = Append(fds, x)
  BY DEF Opened
<1>3. x.data = d /\ x.open
  OBVIOUS
<1> HIDE DEF x
<1>4. /\ fds' \in Seq([data : ContentType, open : BOOLEAN]) /\ Len(fds') = Len(fds) + 1 /\ Len(fds) \in Nat
      /\ fds'[Len(fds) + 1] = x /\ \A i \in 1..Len(fds) : fds'[i] = fds[i]
  BY <1>1, <1>2
<1>5. Grows
  BY <1>4 DEF Grows
<1>6. \A i \in 1..Len(fds') : fds'[i].open /\ Whole(fds'[i].data, fds'[i].data.enc)
  <2> TAKE i \in 1..Len(fds')
  <2>1. CASE i \in 1..Len(fds)
    BY <1>4, <2>1 DEF IInv, Files
  <2>2. CASE i = Len(fds) + 1
    BY <1>3, <1>4, <2>2
  <2> QED BY <1>4, <2>1, <2>2
<1>7. Files'
  <2>1. \A i \in 1..Len(fds') : fds'[i].open /\ Whole(fds[i].data, fds[i].data.enc)'
    BY <1>6 DEF Whole
  <2>2. \A e \in Encodings : (packed[e] = NoContent \/ Whole(packed[e], e))'
    BY DEF IInv, Files, Whole
  <2> QED BY <1>4, <2>1, <2>2 DEF IInv, Files
<1> QED BY <1>4, <1>5, <1>7 DEF x

\* and what is entered in a cache one entry more or another one.
LEMMA InsertFacts ==
  ASSUME IInv, NEW c \in Coroutines, NEW key \in Codings, NEW f, NEW o, Insert(c, key, f, o),
         Grows, Sound(f, ThreadOf[c], key)'
  PROVE  /\ Caches' /\ \A t \in Threads : DOMAIN cache[t] \subseteq DOMAIN cache'[t]
<1>1. DOMAIN cache = Threads /\ ThreadOf[c] \in Threads
  BY FrameFacts DEF IInv, Caches
<1>2. DOMAIN cache' = Threads
  BY <1>1 DEF Insert
<1>3. \A t \in Threads \ {ThreadOf[c]} : cache'[t] = cache[t]
  BY <1>1 DEF Insert
<1>4. /\ DOMAIN cache'[ThreadOf[c]] = DOMAIN cache[ThreadOf[c]] \cup {key}
      /\ cache'[ThreadOf[c]][key] = f
      /\ \A k \in DOMAIN cache[ThreadOf[c]] \ {key} : cache'[ThreadOf[c]][k] = cache[ThreadOf[c]][k]
  BY <1>1 DEF Insert
<1>5. ASSUME NEW t \in Threads, NEW k \in DOMAIN cache'[t] PROVE k \in Codings /\ Sound(cache[t][k], t, k)'
  <2>1. CASE t = ThreadOf[c] /\ k = key
    BY <1>4, <2>1
  <2>2. CASE ~(t = ThreadOf[c] /\ k = key)
    <3>1. k \in DOMAIN cache[t] /\ cache'[t][k] = cache[t][k]
      BY <1>3, <1>4, <1>5, <2>2
    <3> QED BY <3>1, Stays DEF IInv, Caches
  <2> QED BY <2>1, <2>2
<1> QED BY <1>2, <1>3, <1>4, <1>5 DEF Caches

\* The compressed files are those of before for everybody.
LEMMA PacksStay ==
  ASSUME IInv, NEW c \in Coroutines, NEW s, co' = [co EXCEPT ![c] = s], UNCHANGED packed
  PROVE  \A d \in Coroutines \ {c} : Packs(ThreadOf[d], co[d])'
<1> SUFFICES ASSUME NEW d \in Coroutines \ {c} PROVE Packs(ThreadOf[d], co[d])'
  OBVIOUS
<1>1. co'[d] = co[d] /\ Packs(ThreadOf[d], co[d])
  BY FrameFacts
<1>2. \A t, r : Packs(t, r) => Packs(t, r)'
  BY DEF Packs, Whole
<1> QED BY <1>1, <1>2

\* A file of a descriptor that was opened just now,
LEMMA NewFile ==
  ASSUME IInv, NEW t \in Threads, NEW enc \in Codings, NEW d, Whole(d, enc),
         fds' = Opened(d), UNCHANGED <<version, packed>>,
         NEW f \in FileType, f.fd = Len(fds) + 1, f.enc = enc, f.since \in Versions, f.ver \in Versions,
         \/ enc # "" /\ d.by # t
         \/ d.ver = f.since /\ f.since <= f.ver /\ (f.since = f.ver \/ enc # "" => d.len = f.size)
  PROVE  Sound(f, t, enc)'
<1>1. d.enc = enc
  BY DEF Whole
<1>0. Whole(d, d.enc)
  BY <1>1
<1>2. f.fd \in 1..Len(fds') /\ fds'[f.fd] = [data |-> d, open |-> TRUE]
  BY <1>0, OpenedFacts
<1>3. Genuine(f, t)'
  <2>0. [data |-> d, open |-> TRUE].open /\ [data |-> d, open |-> TRUE].data = d
    OBVIOUS
  <2>1. fds'[f.fd].open /\ fds'[f.fd].data = d
    BY <1>2, <2>0, Zenon
  <2> QED BY <1>1, <2>1 DEF Genuine
<1> QED BY <1>2, <1>3 DEF Sound

\* The response of a coroutine keeps its file.
LEMMA ResponseStays ==
  ASSUME IInv, NEW c \in Coroutines, NEW s, s.resp = co[c].resp, Grows
  PROVE  \/ s.resp.file = NoFile
         \/ s.resp.file.enc \in Codings /\ Sound(s.resp.file, ThreadOf[c], s.resp.file.enc)'
<1>1. \/ co[c].resp.file = NoFile
      \/ co[c].resp.file.enc \in Codings /\ Sound(co[c].resp.file, ThreadOf[c], co[c].resp.file.enc)
  BY FrameFacts DEF Holds
<1>2. \A f, enc : Sound(f, ThreadOf[c], enc) => Sound(f, ThreadOf[c], enc)'
  BY Stays
<1> QED BY <1>1, <1>2

\* insert() of a file that is open already,
LEMMA EntersOnly ==
  ASSUME IInv, NEW c, NEW key, NEW f, Insert(c, key, f, fds), UNCHANGED <<version, packed>>
  PROVE  Grows /\ Files'
<1>1. fds' = fds
  BY DEF Insert
<1>2. Grows
  BY <1>1 DEF IInv, Files, Grows
<1>3. \A d, enc : Whole(d, enc) => Whole(d, enc)'
  BY DEF Whole
<1> QED BY <1>1, <1>2, <1>3 DEF IInv, Files

\* and of the file f that the request goes on with.
LEMMA EnterStep ==
  ASSUME IInv, NEW c \in Coroutines, NEW key \in Codings, NEW f, NEW o, NEW s,
         Insert(c, key, f, o), Grows, Files', UNCHANGED <<version, packed>>, Sound(f, ThreadOf[c], key)',
         co' = [co EXCEPT ![c] = s], Fields(s), s.at \in {"found", "validate"}, s.use = f, s.resp = co[c].resp,
         Sound(s.file, ThreadOf[c], "")'
  PROVE  IInv'
<1>1. Caches' /\ \A t \in Threads : DOMAIN cache[t] \subseteq DOMAIN cache'[t]
  BY InsertFacts
<1>2. f.enc = key
  BY DEF Sound
<1>3. Holds(ThreadOf[c], s)'
  BY <1>2, ResponseStays DEF Holds, WithFile, Packing
<1>4. s.at \in Labels /\ Packs(ThreadOf[c], s)' /\ Asks(s)'
  BY DEF Labels, WithFile, Packs, Asks, Asking
<1>5. \A d \in Coroutines \ {c} : Packs(ThreadOf[d], co[d])'
  BY PacksStay
<1> QED BY <1>1, <1>3, <1>4, <1>5, Moves

\* a miss: the file is opened,
LEMMA LookupOpensStep == ASSUME FileConstants, IInv, NEW c \in Coroutines, LookupOpens(c) PROVE IInv'
<1>1. PICK d, file, s :
        /\ d = Content(version, "", Lengths[version], TRUE) /\ file = CachedFile(Len(fds) + 1, version, 0, "", 0)
        /\ s = [co[c] EXCEPT !.at = "opened", !.file = file]
  OBVIOUS
<1>2. version \in Versions /\ Len(fds) \in Nat /\ version \in Nat /\ Lengths[version] \in Nat
  BY DEF IInv, Files, Versions, FileConstants
<1>3. Whole(d, "") /\ Whole(d, d.enc) /\ d.ver = version
  BY <1>1, <1>2 DEF Content, ContentType, Codings, Whole
<1>4. NoContent \in ContentType
  BY DEF NoContent, Content, ContentType, Codings
<1>5. file \in FileType /\ file.fd = Len(fds) + 1 /\ file.since = version /\ file.enc = ""
  <2>1. Len(fds) + 1 \in Nat /\ "" \in Codings
    BY <1>2 DEF Codings
  <2>2. file = [fd |-> Len(fds) + 1, since |-> version, ver |-> 0, enc |-> "", size |-> 0,
                cached |-> NoContent, small |-> FALSE]
    BY <1>1 DEF CachedFile
  <2> QED BY <1>2, <1>4, <2>1, <2>2 DEF FileType
<1>6. fds' = Opened(d) /\ UNCHANGED <<version, packed, cache>> /\ co' = [co EXCEPT ![c] = s]
  BY <1>1, FrameFacts DEF LookupOpens
<1>7. /\ Grows /\ Files' /\ Len(fds) + 1 \in 1..Len(fds')
      /\ fds'[Len(fds) + 1] = [data |-> d, open |-> TRUE]
  BY <1>3, <1>6, OpenedFacts
<1>8. Caches' /\ \A u \in Threads : DOMAIN cache[u] \subseteq DOMAIN cache'[u]
  BY <1>6, <1>7, Stays DEF IInv, Caches
<1>9. Fields(s) /\ s.at = "opened" /\ s.file = file /\ s.resp = co[c].resp
  BY <1>1, FrameFacts DEF Fields, FieldNames
<1>10. s.at \in Labels /\ Packs(ThreadOf[c], s)'
  BY <1>9 DEF Labels, Asking, Packs
<1>11. Holds(ThreadOf[c], s)'
  BY <1>7, <1>9, ResponseStays DEF Holds, WithFile, Packing
<1>12. Asks(s)'
  <2>0. [data |-> d, open |-> TRUE].data = d
    OBVIOUS
  <2>1. fds'[file.fd].data = d /\ file.fd \in 1..Len(fds')
    BY <1>5, <1>7, <2>0, Zenon
  <2>2. d.enc = ""
    BY <1>3, Zenon DEF Whole
  <2>3. version <= version
    BY <1>2
  <2> QED BY <2>3, <1>2, <1>3, <1>5, <1>6, <1>9, <2>1, <2>2 DEF Asks
<1>13. \A e \in Coroutines \ {c} : Packs(ThreadOf[e], co[e])'
  BY <1>6, PacksStay
<1> QED BY <1>6, <1>7, <1>8, <1>9, <1>10, <1>11, <1>12, <1>13, Moves

\* its size is asked for,
LEMMA StatSizeStep == ASSUME FileConstants, IInv, NEW c \in Coroutines, StatSize(c) PROVE IInv'
<1>1. PICK file, s :
        file = [co[c].file EXCEPT !.size = Lengths[version]] /\ s = [co[c] EXCEPT !.file = file, !.at = "sized"]
  OBVIOUS
<1>0. /\ co[c].at = "opened" /\ UNCHANGED <<version, packed, fds, cache>>
      /\ co' = [co EXCEPT ![c].file.size = Lengths[version], ![c].at = "sized"]
  BY DEF StatSize, Runs
<1>2. co[c].at = "opened" /\ UNCHANGED <<version, packed, fds, cache>> /\ co' = [co EXCEPT ![c] = s]
  <2>1. PICK n : n = Lengths[version]
    OBVIOUS
  <2>2. co' = [co EXCEPT ![c].file.size = n, ![c].at = "sized"]
    BY <1>0, <2>1
  <2>3. file = [co[c].file EXCEPT !.size = n] /\ s = [co[c] EXCEPT !.file = file, !.at = "sized"]
    BY <1>1, <2>1
  <2>4. Fields(co[c]) /\ co = [d \in Coroutines |-> co[d]]
    BY FrameFacts
  <2>5. co' = [co EXCEPT ![c] = s]
    BY <2>2, <2>3, <2>4 DEF Fields, FieldNames
  <2> QED BY <1>0, <2>5
<1>3. Lengths[version] \in Nat
  BY DEF IInv, Files, Versions, FileConstants
<1>4. /\ file \in FileType /\ file.fd = co[c].file.fd /\ file.since = co[c].file.since /\ file.enc = co[c].file.enc
      /\ file.size = Lengths[version]
  BY <1>1, <1>2, <1>3, FrameFacts DEF Asks, Asking, FileType
<1>5. Fields(s) /\ s.at = "sized" /\ s.file = file /\ s.resp = co[c].resp
  BY <1>1, FrameFacts DEF Fields, FieldNames
<1>6. s.at \in Labels /\ Holds(ThreadOf[c], s) /\ Packs(ThreadOf[c], s)
  BY <1>5, FrameFacts DEF Labels, WithFile, Packing, Asking, Holds, Packs
<1>7. Asks(s)
  BY <1>2, <1>4, <1>5, FrameFacts DEF Asks, Asking
<1> QED BY <1>2, <1>5, <1>6, <1>7, Quiet

\* and its date; then it is entered at once unless it is small,
LEMMA LastWriteTimeStep == ASSUME FileConstants, IInv, NEW c \in Coroutines, LastWriteTime(c) PROVE IInv'
<1>1. PICK f, file, small :
        /\ f = co[c].file /\ file = [f EXCEPT !.ver = version] /\ small = [file EXCEPT !.small = TRUE]
  OBVIOUS
<1>2. co[c].at = "sized" /\ UNCHANGED <<version, packed>>
  BY DEF LastWriteTime, Runs
<1>3. version \in Versions /\ version \in Nat
  BY DEF IInv, Files, Versions
<1>4. /\ f \in FileType /\ f.fd \in 1..Len(fds) /\ f.enc = "" /\ f.since \in Versions /\ f.since <= version
      /\ fds[f.fd].data.enc = "" /\ fds[f.fd].data.ver = f.since
      /\ f.since = version => f.size = Lengths[version]
  BY <1>1, <1>2, FrameFacts DEF Asks, Asking
<1>5. /\ file \in FileType /\ file.fd = f.fd /\ file.since = f.since /\ file.ver = version
      /\ file.enc = "" /\ file.size = f.size
  BY <1>1, <1>3, <1>4 DEF FileType
<1>6. /\ small \in FileType /\ small.fd = f.fd /\ small.since = f.since /\ small.ver = version
      /\ small.enc = "" /\ small.size = f.size
  BY <1>1, <1>5 DEF FileType
<1>7. fds[f.fd].open /\ fds[f.fd].data.len = Lengths[f.since]
  <2>1. fds[f.fd].open /\ Whole(fds[f.fd].data, fds[f.fd].data.enc)
    BY <1>4 DEF IInv, Files
  <2> QED BY <1>4, <2>1 DEF Whole
<1>8. Sound(file, ThreadOf[c], "") /\ Sound(small, ThreadOf[c], "")
  BY <1>3, <1>4, <1>5, <1>6, <1>7 DEF Sound, Genuine
<1>9. \/ UNCHANGED <<fds, cache>> /\ co' = [co EXCEPT ![c].at = "readingInto", ![c].file = small]
      \/ Insert(c, "", file, fds) /\ co' = [co EXCEPT ![c].at = "found", ![c].file = file, ![c].use = file]
  BY <1>1 DEF LastWriteTime
<1>10. CASE UNCHANGED <<fds, cache>> /\ co' = [co EXCEPT ![c].at = "readingInto", ![c].file = small]
  <2>1. PICK s : s = [co[c] EXCEPT !.at = "readingInto", !.file = small]
    OBVIOUS
  <2>2. co' = [co EXCEPT ![c] = s]
    BY <1>10, <2>1, FrameFacts
  <2>3. Fields(s) /\ s.at = "readingInto" /\ s.file = small /\ s.resp = co[c].resp
    BY <2>1, FrameFacts DEF Fields, FieldNames
  <2>4. s.at \in Labels /\ Holds(ThreadOf[c], s) /\ Packs(ThreadOf[c], s) /\ Asks(s)
    BY <1>8, <2>3, FrameFacts DEF Labels, WithFile, Packing, Asking, Holds, Packs, Asks
  <2> QED BY <1>2, <1>10, <2>2, <2>3, <2>4, Quiet
<1>11. CASE Insert(c, "", file, fds) /\ co' = [co EXCEPT ![c].at = "found", ![c].file = file, ![c].use = file]
  <2>1. PICK s : s = [co[c] EXCEPT !.at = "found", !.file = file, !.use = file]
    OBVIOUS
  <2>2. co' = [co EXCEPT ![c] = s]
    BY <1>11, <2>1, FrameFacts
  <2>3. Fields(s) /\ s.at = "found" /\ s.file = file /\ s.use = file /\ s.resp = co[c].resp
    BY <2>1, FrameFacts, ZenonT(60) DEF Fields, FieldNames
  <2>4. Grows /\ Files'
    BY <1>2, <1>11, EntersOnly
  <2>5. Sound(file, ThreadOf[c], "")' /\ "" \in Codings
    BY <1>8, <2>4, Stays DEF Codings
  <2> QED BY <1>2, <1>11, <2>2, <2>3, <2>4, <2>5, EnterStep
<1> QED BY <1>9, <1>10, <1>11

\* What is read is of the version that was opened.
LEMMA ReadFacts ==
  ASSUME NEW d \in ContentType, NEW n \in Nat
  PROVE  ReadAndResized(d, n) \in ContentType /\ ReadAndResized(d, n).ver = d.ver
<1>1. PICK m : m = IF n < d.len THEN n ELSE d.len
  OBVIOUS
<1>2. m \in Nat
  BY <1>1 DEF ContentType
<1>3. ReadAndResized(d, n) = [d EXCEPT !.len = m, !.genuine = (m = 0)]
  BY <1>1 DEF ReadAndResized
<1> QED BY <1>2, <1>3 DEF ContentType

\* and a small one is entered when it has been read, over whatever is there by now.
LEMMA ReadIntoStep == ASSUME FileConstants, IInv, NEW c \in Coroutines, ReadInto(c) PROVE IInv'
<1>1. PICK f, r, file, s :
        /\ f = co[c].file /\ r = ReadAndResized(fds[f.fd].data, f.size) /\ file = [f EXCEPT !.cached = r]
        /\ s = [co[c] EXCEPT !.at = "found", !.file = file, !.use = file]
  OBVIOUS
<1>2. Sound(f, ThreadOf[c], "")
  BY <1>1, FrameFacts DEF ReadInto, Runs, Holds, WithFile
<1>3. r \in ContentType
  <2>1. fds[f.fd].data \in ContentType /\ f.size \in Nat
    BY <1>2 DEF Sound, IInv, Files, Whole, FileType
  <2> QED BY <1>1, <2>1, ReadFacts
<1>4. file \in FileType /\ file.fd = f.fd /\ file.since = f.since /\ file.ver = f.ver /\ file.enc = f.enc /\ file.size = f.size
  BY <1>1, <1>2, <1>3 DEF Sound, FileType
<1>5. Sound(file, ThreadOf[c], "")
  BY <1>2, <1>4 DEF Sound, Genuine
<1>6. /\ Insert(c, "", file, fds) /\ UNCHANGED <<version, packed>>
      /\ co' = [co EXCEPT ![c].at = "found", ![c].file = file, ![c].use = file]
  BY <1>1 DEF ReadInto
<1>7. co' = [co EXCEPT ![c] = s]
  BY <1>1, <1>6, FrameFacts
<1>8. Fields(s) /\ s.at = "found" /\ s.file = file /\ s.use = file /\ s.resp = co[c].resp
  BY <1>1, FrameFacts, ZenonT(60) DEF Fields, FieldNames
<1>10. Grows /\ Files'
  BY <1>6, EntersOnly
<1>11. Sound(file, ThreadOf[c], "")'
  BY <1>5, <1>10, Stays
<1>12. "" \in Codings
  BY DEF Codings
<1> QED BY <1>6, <1>7, <1>8, <1>10, <1>11, <1>12, EnterStep

-----------------------------------------------------------------------------
(* Compressed files                                                          *)

\* The encoding that is chosen has a compressor.
LEMMA ChosenIsKnown == \A prefs : ChosenEncoding(prefs) # "" => ChosenEncoding(prefs) \in Encodings
BY DEF ChosenEncoding, CompressorFor, Encodings

\* Going on where the same things are held.
LEMMA GotoStep ==
  ASSUME IInv, NEW c \in Coroutines, Goto(c, "validate"), co[c].at = "found", UNCHANGED <<version, packed, fds, cache>>
  PROVE  IInv'
<1>1. PICK s : s = [co[c] EXCEPT !.at = "validate"]
  OBVIOUS
<1>2. co' = [co EXCEPT ![c] = s]
  BY <1>1, FrameFacts DEF Goto
<1>3. Fields(s) /\ s.at = "validate" /\ s.file = co[c].file /\ s.use = co[c].use /\ s.resp = co[c].resp
  BY <1>1, FrameFacts DEF Fields, FieldNames
<1>4. s.at \in Labels /\ Holds(ThreadOf[c], s) /\ Packs(ThreadOf[c], s) /\ Asks(s)
  BY <1>3, FrameFacts DEF Labels, WithFile, Packing, Asking, Holds, Packs, Asks
<1> QED BY <1>2, <1>3, <1>4, Quiet

\* The encoding is chosen; the cache is asked for it.
LEMMA ChooseStep == ASSUME IInv, NEW c \in Coroutines, ChooseEncoding(c) PROVE IInv'
<1>1. UNCHANGED <<version, packed, fds, cache>> /\ co[c].at = "found"
  BY DEF ChooseEncoding, Runs
<1>2. PICK enc, at :
        /\ enc = ChosenEncoding(co[c].req.prefs)
        /\ at = IF Cached(c, KeyOf(enc)) THEN "packed" ELSE "reading"
  OBVIOUS
<1>3. \/ Goto(c, "validate") \/ Answer(c, Status(406))
      \/ enc # "" /\ co' = [co EXCEPT ![c].use.enc = enc, ![c].at = at]
  BY <1>2 DEF ChooseEncoding
<1>4. CASE enc # "" /\ co' = [co EXCEPT ![c].use.enc = enc, ![c].at = at]
  <2>1. PICK u, s : u = [co[c].use EXCEPT !.enc = enc] /\ s = [co[c] EXCEPT !.use = u, !.at = at]
    OBVIOUS
  <2>2. co' = [co EXCEPT ![c] = s]
    BY <1>4, <2>1, FrameFacts DEF Fields, FieldNames
  <2>3. enc \in Encodings
    BY <1>2, <1>4, ChosenIsKnown
  <2>4. co[c].use \in FileType
    BY <1>1, FrameFacts DEF Holds, Sound
  <2>5. u \in FileType /\ u.enc = enc
    BY <2>1, <2>3, <2>4 DEF FileType, Codings
  <2>6. Fields(s) /\ s.at = at /\ s.file = co[c].file /\ s.use = u /\ s.resp = co[c].resp
    BY <2>1, FrameFacts DEF Fields, FieldNames
  <2>7. at \in {"packed", "reading"} /\ (at = "packed" => enc \in DOMAIN cache[ThreadOf[c]])
    BY <1>2 DEF Cached, KeyOf
  <2>8. s.at \in Labels /\ Holds(ThreadOf[c], s) /\ Packs(ThreadOf[c], s) /\ Asks(s)
    BY <1>1, <2>3, <2>5, <2>6, <2>7, FrameFacts DEF Labels, WithFile, Packing, Asking, Holds, Packs, Asks
  <2> QED BY <1>1, <2>2, <2>6, <2>8, Quiet
<1>5. CASE Goto(c, "validate")
  BY <1>1, <1>5, GotoStep
<1>6. CASE Answer(c, Status(406))
  BY <1>1, <1>6, StatusStep
<1> QED BY <1>3, <1>4, <1>5, <1>6

\* A hit of lookupOrBuildCompressed(): the entry is still there, for none is removed.
LEMMA PackedHitStep == ASSUME IInv, NEW c \in Coroutines, PackedHit(c) PROVE IInv'
<1>1. PICK f, s : f = CacheGet(c, co[c].use.enc) /\ s = [co[c] EXCEPT !.at = "validate", !.use = f]
  OBVIOUS
<1>2. co' = [co EXCEPT ![c] = s] /\ UNCHANGED <<version, packed, fds, cache>> /\ co[c].at = "packed"
  BY <1>1, FrameFacts DEF PackedHit, Runs, KeyOf
<1>3. co[c].use.enc \in DOMAIN cache[ThreadOf[c]]
  BY <1>2, FrameFacts DEF Holds
<1>4. f.enc \in Codings /\ Sound(f, ThreadOf[c], f.enc)
  BY <1>1, <1>3, FrameFacts DEF CacheGet, IInv, Caches, Sound
<1>5. Fields(s) /\ s.at = "validate" /\ s.file = co[c].file /\ s.use = f /\ s.resp = co[c].resp
  BY <1>1, FrameFacts DEF Fields, FieldNames
<1>6. s.at \in Labels /\ Holds(ThreadOf[c], s) /\ Packs(ThreadOf[c], s) /\ Asks(s)
  BY <1>2, <1>4, <1>5, FrameFacts DEF Labels, WithFile, Packing, Asking, Holds, Packs, Asks
<1> QED BY <1>2, <1>5, <1>6, Quiet

\* readAll(), compress() and the temporary file: it is made of the version in the tag.
LEMMA CompressStep == ASSUME FileConstants, IInv, NEW c \in Coroutines, ReadAndCompress(c) PROVE IInv'
<1>1. PICK f, enc, d, r, w, s :
        /\ f = co[c].file /\ enc = co[c].use.enc /\ d = fds[f.fd].data /\ r = ReadAndResized(d, f.size)
        /\ w = Compressed(r, enc, ThreadOf[c]) /\ s = [co[c] EXCEPT !.at = "writing", !.tmp = w]
  OBVIOUS
<1>2. co' = [co EXCEPT ![c] = s] /\ UNCHANGED <<version, packed, fds, cache>> /\ co[c].at = "reading"
  BY <1>1, FrameFacts DEF ReadAndCompress, Runs
<1>3. Sound(f, ThreadOf[c], "") /\ enc \in Encodings /\ co[c].use \in FileType
  BY <1>1, <1>2, FrameFacts DEF Holds, WithFile, Packing
<1>4. d.enc = "" /\ d.ver = f.since /\ f.size \in Nat
  BY <1>1, <1>3 DEF Sound, Genuine, FileType
<1>5. d \in ContentType /\ d.ver \in Versions
  BY <1>1, <1>3 DEF Sound, IInv, Files, Whole
<1>6. r \in ContentType /\ r.ver = d.ver
  BY <1>1, <1>4, <1>5, ReadFacts
<1>7. enc # "" /\ enc \in Codings
  BY <1>3 DEF Encodings, Codings
<1>8. (r.len + 1) \div 2 \in Nat
  <2>1. r.len \in Nat
    BY <1>6 DEF ContentType
  <2> QED BY <2>1
<1>9. w \in ContentType /\ w.enc = enc /\ w.ver = d.ver /\ w.by = ThreadOf[c]
  BY <1>1, <1>6, <1>7, <1>8, FrameFacts, ZenonT(60) DEF Compressed, ContentType
<1>10. Whole(w, enc)
  BY <1>5, <1>7, <1>9 DEF Whole
<1>11. Fields(s) /\ s.at = "writing" /\ s.file = f /\ s.use = co[c].use /\ s.tmp = w /\ s.resp = co[c].resp
  BY <1>1, FrameFacts, ZenonT(60) DEF Fields, FieldNames
<1>12. Holds(ThreadOf[c], s)
  BY <1>1, <1>3, <1>11, FrameFacts DEF Holds, WithFile, Packing
<1>13. s.at \in Labels /\ Packs(ThreadOf[c], s) /\ Asks(s)
  BY <1>1, <1>4, <1>9, <1>10, <1>11 DEF Labels, WithFile, Packs, Asks, Asking
<1> QED BY <1>2, <1>11, <1>12, <1>13, Quiet

\* rename(): nobody of the same thread is between rename() and open().
LEMMA RenameStep == ASSUME IInv, NEW c \in Coroutines, Rename(c) PROVE IInv'
<1>1. PICK enc, w, s : enc = co[c].use.enc /\ w = co[c].tmp /\ s = [co[c] EXCEPT !.at = "renamed"]
  OBVIOUS
<1>2. /\ co' = [co EXCEPT ![c] = s] /\ packed' = [packed EXCEPT ![enc] = w] /\ UNCHANGED <<version, fds, cache>>
      /\ co[c].at = "writing" /\ Runs(c, "writing")
  BY <1>1, FrameFacts DEF Rename, Goto, Runs
<1>3. enc \in Encodings /\ Whole(w, enc) /\ w.ver = co[c].file.since /\ w.by = ThreadOf[c]
  BY <1>1, <1>2, FrameFacts DEF Holds, Packing, Packs
<1>4. /\ packed \in [Encodings -> ContentType] /\ packed' \in [Encodings -> ContentType]
      /\ packed'[enc] = w /\ \A e \in Encodings \ {enc} : packed'[e] = packed[e]
  BY <1>2, <1>3 DEF IInv, Files, Whole
<1>5. \A d, e : Whole(d, e) => Whole(d, e)'
  BY DEF Whole
<1>6. Grows
  BY <1>2 DEF IInv, Files, Grows
<1>7. Files'
  <2>1. \A e \in Encodings : (packed[e] = NoContent \/ Whole(packed[e], e))'
    BY <1>3, <1>4, <1>5 DEF IInv, Files
  <2> QED BY <1>2, <1>4, <1>5, <2>1 DEF IInv, Files
<1>8. Caches' /\ \A u \in Threads : DOMAIN cache[u] \subseteq DOMAIN cache'[u]
  BY <1>2, <1>6, Stays DEF IInv, Caches
<1>9. Fields(s) /\ s.at = "renamed" /\ s.file = co[c].file /\ s.use = co[c].use /\ s.tmp = w /\ s.resp = co[c].resp
  BY <1>1, FrameFacts DEF Fields, FieldNames
<1>10. Holds(ThreadOf[c], s)'
  <2>1. Holds(ThreadOf[c], s)
    BY <1>2, <1>9, FrameFacts DEF Holds, WithFile, Packing
  <2> QED BY <1>6, <1>8, <2>1, FrameFacts, HoldStays
<1>11. s.at \in Labels /\ Packs(ThreadOf[c], s)' /\ Asks(s)'
  BY <1>1, <1>3, <1>4, <1>5, <1>9 DEF Labels, WithFile, Packs, Asks, Asking
<1>12. ASSUME NEW d \in Coroutines \ {c} PROVE Packs(ThreadOf[d], co[d])'
  <2>1. co'[d] = co[d] /\ Packs(ThreadOf[d], co[d]) /\ Holds(ThreadOf[d], co[d])
    BY <1>2, FrameFacts
  <2>2. co[d].at = "renamed" => ThreadOf[d] # ThreadOf[c] /\ co[d].use.enc \in Encodings
    BY <1>2, <2>1 DEF Runs, Suspended, Holds, Packing
  <2>3. co[d].at = "renamed" =>
          /\ Whole(packed'[co[d].use.enc], co[d].use.enc)
          /\ packed'[co[d].use.enc].by = ThreadOf[d] => packed'[co[d].use.enc] = co[d].tmp
    <3>1. CASE co[d].use.enc = enc
      BY <1>3, <1>4, <2>2, <3>1
    <3>2. CASE co[d].use.enc # enc
      BY <1>4, <2>1, <2>2, <3>2 DEF Packs
    <3> QED BY <3>1, <3>2
  <2> QED BY <1>5, <2>1, <2>3 DEF Packs
<1> QED BY <1>2, <1>6, <1>7, <1>8, <1>9, <1>10, <1>11, <1>12, Moves

\* open() and insert(): another version under the name is another thread's.
LEMMA OpenPackedStep == ASSUME FileConstants, IInv, NEW c \in Coroutines, OpenPacked(c) PROVE IInv'
<1>1. PICK enc, v, d, f, s :
        /\ enc = co[c].use.enc /\ v = co[c].file /\ d = packed[enc]
        /\ f = CachedFile(Len(fds) + 1, v.since, v.ver, enc, co[c].tmp.len)
        /\ s = [co[c] EXCEPT !.at = "validate", !.use = f]
  OBVIOUS
<1>2. /\ co[c].at = "renamed" /\ Insert(c, enc, f, Opened(d)) /\ UNCHANGED <<version, packed>>
      /\ co' = [co EXCEPT ![c] = s]
  BY <1>1, FrameFacts DEF OpenPacked, Runs, KeyOf
<1>3. /\ Sound(co[c].file, ThreadOf[c], "") /\ enc \in Encodings
      /\ Whole(co[c].tmp, enc) /\ co[c].tmp.ver = v.since
      /\ Whole(d, enc) /\ (d.by = ThreadOf[c] => d = co[c].tmp)
  BY <1>1, <1>2, FrameFacts DEF Holds, WithFile, Packing, Packs
<1>4. /\ v.since \in Versions /\ v.ver \in Versions /\ v.since \in Nat /\ v.ver \in Nat /\ v.since <= v.ver
      /\ Len(fds) + 1 \in Nat /\ enc \in Codings /\ enc # "" /\ co[c].tmp.len \in Nat
  <2>1. /\ v.since \in Versions /\ v.ver \in Versions /\ v.since <= v.ver
        /\ co[c].tmp.len \in Nat /\ v.since \in Nat /\ v.ver \in Nat
    BY <1>1, <1>3 DEF Sound, Genuine, Whole, ContentType, FileType
  <2>2. enc \in Codings /\ enc # ""
    BY <1>3 DEF Codings, Encodings
  <2>3. Len(fds) + 1 \in Nat
    BY DEF IInv, Files
  <2> QED BY <2>1, <2>2, <2>3
<1>5. NoContent \in ContentType
  BY DEF NoContent, Content, ContentType, Codings
<1>6. /\ f \in FileType /\ f.fd = Len(fds) + 1 /\ f.since = v.since /\ f.ver = v.ver /\ f.enc = enc
      /\ f.size = co[c].tmp.len
  <2>1. f = [fd |-> Len(fds) + 1, since |-> v.since, ver |-> v.ver, enc |-> enc, size |-> co[c].tmp.len,
             cached |-> NoContent, small |-> FALSE]
    BY <1>1 DEF CachedFile
  <2> QED BY <1>4, <1>5, <2>1 DEF FileType
<1>7. fds' = Opened(d) /\ Whole(d, d.enc)
  BY <1>2, <1>3 DEF Insert, Whole
<1>8. Grows /\ Files'
  BY <1>2, <1>7, OpenedFacts
<1>9. Sound(f, ThreadOf[c], enc)'
  BY <1>2, <1>3, <1>4, <1>6, <1>7, FrameFacts, NewFile
<1>10. Fields(s) /\ s.at = "validate" /\ s.file = co[c].file /\ s.use = f /\ s.resp = co[c].resp
  BY <1>1, FrameFacts, ZenonT(60) DEF Fields, FieldNames
<1>11. Sound(s.file, ThreadOf[c], "")'
  <2>1. Sound(s.file, ThreadOf[c], "")
    BY <1>3, <1>10
  <2> QED BY <1>8, <2>1, Stays
<1> QED BY <1>2, <1>4, <1>8, <1>9, <1>10, <1>11, EnterStep

-----------------------------------------------------------------------------
(* The answer                                                                *)

\* What the streaming of an answer leaves alone.
LEMMA StreamStep ==
  ASSUME IInv, NEW c \in Coroutines, NEW s, co' = [co EXCEPT ![c] = s], UNCHANGED <<version, packed, fds, cache>>,
         Fields(s), s.at \in {"streaming", "done", "idle"},
         \/ s.resp.file = NoFile
         \/ s.resp.file.enc \in Codings /\ Sound(s.resp.file, ThreadOf[c], s.resp.file.enc)
  PROVE  IInv'
<1>1. s.at \in Labels /\ Holds(ThreadOf[c], s) /\ Packs(ThreadOf[c], s) /\ Asks(s)
  BY DEF Labels, WithFile, Packing, Asking, Holds, Packs, Asks
<1> QED BY <1>1, Quiet

\* A response that Validate makes is of the file in use.
LEMMA ValidateStep == ASSUME IInv, NEW c \in Coroutines, Validate(c) PROVE IInv'
<1>1. /\ co[c].at = "validate" /\ UNCHANGED <<version, packed, fds, cache>>
  BY DEF Validate, Runs
<1>2. co[c].use.enc \in Codings /\ Sound(co[c].use, ThreadOf[c], co[c].use.enc)
  BY <1>1, FrameFacts DEF Holds
<1>3. PICK body :
        /\ body.file = co[c].use /\ [body EXCEPT !.cached = co[c].file.small].file = co[c].use
        /\ \/ \E n : Answer(c, Status(n))
           \/ co' = [co EXCEPT ![c].at = "streaming", ![c].resp = body]
           \/ Answer(c, body) \/ Answer(c, [body EXCEPT !.cached = co[c].file.small])
  <2> DEFINE r == co[c].req
             use == co[c].use
             size == use.size
             asked == GetRanges(r.range)
             ranges == CleanRanges(asked, size)
             useRange == ranges # <<>> /\ UseRange(r, use)
             body == [NoResponse EXCEPT
                        !.status = IF useRange \/ Len(ranges) > 1 THEN 206 ELSE 200,
                        !.file = use, !.length = TotalSize(ranges, useRange, size),
                        !.offset = IF useRange THEN ranges[1].first ELSE 0,
                        !.ranges = IF useRange \/ Len(ranges) > 1 THEN ranges ELSE <<>>]
  <2>1. \/ \E n : Answer(c, Status(n))
        \/ co' = [co EXCEPT ![c].at = "streaming", ![c].resp = body]
        \/ Answer(c, body) \/ Answer(c, [body EXCEPT !.cached = co[c].file.small])
    BY ZenonT(60) DEF Validate
  <2>2. body.file = use /\ [body EXCEPT !.cached = co[c].file.small].file = use
    BY DEF NoResponse
  <2> HIDE DEF body
  <2> QED BY <2>1, <2>2
<1>4. CASE co' = [co EXCEPT ![c].at = "streaming", ![c].resp = body]
  <2>1. PICK s : s = [co[c] EXCEPT !.at = "streaming", !.resp = body]
    OBVIOUS
  <2>2. co' = [co EXCEPT ![c] = s]
    BY <1>4, <2>1, FrameFacts
  <2>3. Fields(s) /\ s.at = "streaming" /\ s.resp = body
    BY <2>1, FrameFacts DEF Fields, FieldNames
  <2> QED BY <1>1, <1>2, <1>3, <2>2, <2>3, StreamStep
<1>5. CASE \E n : Answer(c, Status(n))
  BY <1>1, <1>5, StatusStep
<1>6. CASE Answer(c, body) \/ Answer(c, [body EXCEPT !.cached = co[c].file.small])
  BY <1>1, <1>2, <1>3, <1>6, AnswerStep
<1> QED BY <1>3, <1>4, <1>5, <1>6

\* After a block the stream goes on or is over.
LEMMA BlockFacts == \A c, begins, st, last : Block(c, begins, st, last).at \in {"streaming", "done"}
<1> SUFFICES ASSUME NEW c, NEW begins, NEW st, NEW last
             PROVE  Block(c, begins, st, last).at \in {"streaming", "done"}
  OBVIOUS
<1> DEFINE room == IF begins THEN ChunkSize - PartHead ELSE ChunkSize
           head == IF begins THEN <<PartBegins>> ELSE <<>>
           blockEnd == IF last < st + room - 1 THEN last ELSE st + room - 1
           read == {i \in st..blockEnd : i < fds[co[c].resp.file.fd].data.len}
           tail == head \o [i \in 1..Cardinality(read) |-> Zeroed(st + i - 1)]
                        \o IF blockEnd = last THEN <<PartEnds>> ELSE <<>>
<1>1. Block(c, begins, st, last) =
        IF room <= 0 THEN [at |-> "streaming", out |-> head, start |-> st]
        ELSE IF read = {} THEN [at |-> "done", out |-> <<>>, start |-> blockEnd + 1]
        ELSE [at |-> "streaming", start |-> blockEnd + 1, out |-> tail]
  BY DEF Block
<1> HIDE DEF room, head, blockEnd, read, tail
<1> QED BY <1>1

\* nextBlock(): a block of a part,
LEMMA NextBlockStep == ASSUME IInv, NEW c \in Coroutines, NextBlock(c) PROVE IInv'
<1> DEFINE begins == PartIsOver(co[c])
           i == IF begins THEN co[c].idx + 1 ELSE co[c].idx
           from == IF begins THEN co[c].resp.ranges[i].first ELSE co[c].start
           last == IF begins THEN co[c].resp.ranges[i].last ELSE co[c].end
           block == Block(c, begins, from, last)
<1>1. /\ UNCHANGED <<version, packed, fds, cache>>
      /\ co' = [co EXCEPT ![c].sent = @ \o block.out, ![c].at = block.at, ![c].idx = i, ![c].start = block.start,
                          ![c].end = last]
  BY DEF NextBlock
<1>2. block.at \in {"streaming", "done"}
  BY BlockFacts
<1> HIDE DEF begins, i, from, last, block
<1>3. PICK at, j, st, en, o :
        at = block.at /\ j = i /\ st = block.start /\ en = last /\ o = co[c].sent \o block.out
  OBVIOUS
<1>4. PICK s : s = [co[c] EXCEPT !.sent = o, !.at = at, !.idx = j, !.start = st, !.end = en]
  OBVIOUS
<1>5. co' = [co EXCEPT ![c] = s] /\ Fields(s) /\ s.at = at /\ s.resp = co[c].resp
  <2>1. co' = [co EXCEPT ![c].sent = @ \o block.out, ![c].at = at, ![c].idx = j, ![c].start = st, ![c].end = en]
    BY <1>1, <1>3
  <2>2. co' = [co EXCEPT ![c].sent = o, ![c].at = at, ![c].idx = j, ![c].start = st, ![c].end = en]
    BY <1>3, <2>1
  <2>3. co' = [co EXCEPT ![c] = s]
    BY <1>4, <2>2, FrameFacts
  <2>4. Fields(s) /\ s.at = at /\ s.resp = co[c].resp
    BY <1>4, FrameFacts DEF Fields, FieldNames
  <2> QED BY <2>3, <2>4
<1>6. \/ co[c].resp.file = NoFile
      \/ co[c].resp.file.enc \in Codings /\ Sound(co[c].resp.file, ThreadOf[c], co[c].resp.file.enc)
  BY FrameFacts DEF Holds
<1>7. s.at \in {"streaming", "done", "idle"} /\ UNCHANGED <<version, packed, fds, cache>>
  BY <1>1, <1>2, <1>3, <1>5
<1> QED BY <1>5, <1>6, <1>7, StreamStep

\* the closing delimiter, and the call after it.
LEMMA LastBlocksStep == ASSUME IInv, NEW c \in Coroutines, CloseParts(c) \/ ReadPastRanges(c) PROVE IInv'
<1>1. UNCHANGED <<version, packed, fds, cache>> /\ co[c].at = "streaming"
  BY DEF CloseParts, ReadPastRanges, Runs
<1>2. \/ co[c].resp.file = NoFile
      \/ co[c].resp.file.enc \in Codings /\ Sound(co[c].resp.file, ThreadOf[c], co[c].resp.file.enc)
  BY FrameFacts DEF Holds
<1>3. CASE CloseParts(c)
  <2>1. PICK s : s = [co[c] EXCEPT !.idx = @ + 1, !.sent = Append(@, Closing)]
    OBVIOUS
  <2>2. co' = [co EXCEPT ![c] = s]
    BY <1>3, <2>1, FrameFacts DEF CloseParts, Fields, FieldNames
  <2>3. Fields(s) /\ s.at = "streaming" /\ s.resp = co[c].resp
    BY <1>1, <2>1, FrameFacts DEF Fields, FieldNames
  <2> QED BY <1>1, <1>2, <2>2, <2>3, StreamStep
<1>4. CASE ReadPastRanges(c)
  <2>0. PICK junk : co' = [co EXCEPT ![c].at = "done", ![c].sent = @ \o junk]
    BY <1>4 DEF ReadPastRanges
  <2>1. PICK s : s = [co[c] EXCEPT !.at = "done", !.sent = @ \o junk]
    OBVIOUS
  <2>2. co' = [co EXCEPT ![c] = s]
    BY <2>0, <2>1, FrameFacts DEF Fields, FieldNames
  <2>3. Fields(s) /\ s.at = "done" /\ s.resp = co[c].resp
    BY <1>1, <2>1, FrameFacts DEF Fields, FieldNames
  <2> QED BY <1>1, <1>2, <2>2, <2>3, StreamStep
<1> QED BY <1>3, <1>4

\* The next request starts with nothing of this one.
LEMMA FinishStep == ASSUME IInv, NEW c \in Coroutines, Finish(c) PROVE IInv'
<1>1. PICK s : s = [Resting EXCEPT !.todo = co[c].todo]
  OBVIOUS
<1>2. co' = [co EXCEPT ![c] = s] /\ UNCHANGED <<version, packed, fds, cache>>
  BY <1>1 DEF Finish
<1>3. Fields(s) /\ s.at = "idle" /\ s.resp = NoResponse
  BY <1>1 DEF Fields, FieldNames, Resting
<1>4. s.resp.file = NoFile
  BY <1>3 DEF NoResponse
<1> QED BY <1>2, <1>3, <1>4, StreamStep

\* What the server has read does not depend on the version that is there, and what
\* it asks about the file is of a later version then.
LEMMA ReplaceStep == ASSUME FileConstants, IInv, ReplaceFile \/ UNCHANGED vars PROVE IInv'
<1>1. UNCHANGED <<packed, fds, cache, co>> /\ version' \in Versions
  BY DEF ReplaceFile, vars, IInv, Files, Versions, FileConstants
<1>2. \A d, e : Whole(d, e) => Whole(d, e)'
  BY DEF Whole
<1>3. Grows
  BY <1>1 DEF IInv, Files, Grows
<1>4. Files'
  BY <1>1, <1>2 DEF IInv, Files
<1>5. Caches'
  BY <1>1, <1>3, Stays DEF IInv, Caches
<1>6. Frames'
  <2>1. ASSUME NEW d \in Coroutines PROVE Frame(ThreadOf[d], co[d])'
    <3>1. Fields(co[d]) /\ co[d].at \in Labels /\ Holds(ThreadOf[d], co[d]) /\ Packs(ThreadOf[d], co[d])
      BY FrameFacts
    <3>2. Holds(ThreadOf[d], co[d])'
      BY <1>1, <1>3, <3>1, HoldStays
    <3>3. Packs(ThreadOf[d], co[d])'
      BY <1>1, <1>2, <3>1 DEF Packs
    <3>4. Asks(co[d])'
      <4>1. Asks(co[d])
        BY FrameFacts
      <4>2. CASE version' = version
        BY <1>1, <1>3, <4>1, <4>2, AsksStay
      <4>3. CASE version' = version + 1
        <5>1. version \in Nat /\ \A n \in Nat : n <= version => n <= version' /\ n # version'
          BY <4>3 DEF IInv, Files, Versions
        <5>2. Versions \subseteq Nat
          BY DEF Versions
        <5> QED BY <1>1, <4>1, <5>1, <5>2 DEF Asks
      <4> QED BY <4>2, <4>3 DEF ReplaceFile, vars
    <3> QED BY <1>1, <3>1, <3>2, <3>3, <3>4 DEF Frame
  <2> QED BY <1>1, <2>1 DEF IInv, Frames
<1> QED BY <1>4, <1>5, <1>6 DEF IInv

\* Every step keeps the invariant.
LEMMA Step == ASSUME FileConstants, IInv, [Next]_vars PROVE IInv'
BY FailStep, ArriveStep, LookupHitStep, LookupOpensStep, StatSizeStep, LastWriteTimeStep,
   ReadIntoStep, ChooseStep, PackedHitStep, CompressStep,
   RenameStep, OpenPackedStep, ValidateStep, NextBlockStep, LastBlocksStep, FinishStep, ReplaceStep DEF Next

\* The descriptor of a cached file, and of a response that is being sent, is open,
\* of the encoding of the entity tag and of the version that was opened, however
\* coroutines that missed the cache suspend and enter their files one after the
\* other (lookupOrOpen(), FileCache::insert()) and whenever the file is replaced.
\* Unless it is replaced between open() and last_write_time(), the tag names that
\* version and content-length is its length; if it is, the tag names a later one.
\* Only a compressed file may be of another version altogether, and then another
\* thread has put it there between rename() and open() of
\* lookupOrBuildCompressed().
THEOREM TagsAreTrue == ASSUME FileConstants PROVE Spec => []DescriptorsMatch
<1>1. Init => IInv
  BY InitHolds
<1>2. IInv /\ [Next]_vars => IInv'
  BY Step
<1>3. IInv => DescriptorsMatch
  BY DEF IInv, Caches, Frames, Frame, Holds, Sound, DescriptorsMatch
<1> QED BY <1>1, <1>2, <1>3, PTL DEF Spec

-----------------------------------------------------------------------------
(* SESSIONS                                                                  *)

\* 0 is the request without a session cookie.
SessionConstants == Ids \subseteq Nat \ {0}

SessionData == [Names -> Requests \cup {NoRequest}]
SessionType == [data : SessionData, dirty : BOOLEAN, invalid : BOOLEAN]
HandleType == [at : {"new", "handler", "expired", "done"}, id : Nat, loaded : BOOLEAN, session : SessionType]

SessionTypeOK ==
  /\ given \in Nat /\ 1..given \subseteq Ids
  /\ DOMAIN store \subseteq 1..given
  /\ \A i \in DOMAIN store : store[i].data \in SessionData
  /\ handle \in [Requests -> HandleType]
  /\ serial \in [Ids -> SessionData]
  /\ changes \in [Ids -> Nat]
  /\ seen \in [Requests -> Nat]
  /\ DOMAIN ops = Requests
  /\ \A r \in Requests : \A k \in DOMAIN ops[r] : k \in Names /\ ops[r][k] \in Requests \cup {NoRequest}

\* A request has an id that was given; before it has loaded its session it has
\* done nothing to it.
SessionControl ==
  \A r \in Requests :
    /\ handle[r].id <= given
    /\ handle[r].at = "new" => ~handle[r].loaded
    /\ handle[r].at = "expired" => handle[r].id # 0 /\ ~handle[r].loaded
    /\ ~handle[r].loaded => DOMAIN ops[r] = {}

\* Nothing has happened to an id that was not given yet.
UnusedIds == \A i \in Ids : i > given => changes[i] = 0 /\ serial[i] = S!NoData

\* The copy of a request that has not ended is what the request did to the
\* session, unless that has changed since it was loaded.
CopyOf(r) ==
  LET h == handle[r]
  IN h.loaded /\ h.at # "done" =>
       /\ h.id = 0 => seen[r] = 0 /\ h.session.data = S!Applied(ops[r], S!NoData)
       /\ h.id # 0 => /\ seen[r] <= changes[h.id]
                      /\ h.id \notin raced /\ seen[r] = changes[h.id] =>
                           h.session.data = S!Applied(ops[r], serial[h.id])
Copies == \A r \in Requests : CopyOf(r)

SessionInv == SessionTypeOK /\ SessionControl /\ UnusedIds /\ Copies /\ S!SessionsSerial

-----------------------------------------------------------------------------
\* The invariant holds when no request has come yet.
LEMMA SessionInitHolds == ASSUME SessionConstants, S!Init PROVE SessionInv
<1>1. S!NoData \in SessionData
  BY DEF S!NoData, SessionData
<1>2. /\ given = 0 /\ DOMAIN store = {} /\ raced = {}
      /\ serial = [i \in Ids |-> S!NoData] /\ changes = [i \in Ids |-> 0] /\ seen = [r \in Requests |-> 0]
      /\ DOMAIN ops = Requests /\ \A r \in Requests : DOMAIN ops[r] = {}
  BY DEF S!Init
<1>3. handle = [r \in Requests |-> [at |-> "new", id |-> 0, loaded |-> FALSE, session |-> S!NewSession]]
  BY DEF S!Init
<1>4. S!NewSession \in SessionType
  BY <1>1 DEF S!NewSession, SessionType
<1>5. [at |-> "new", id |-> 0, loaded |-> FALSE, session |-> S!NewSession] \in HandleType
  BY <1>4 DEF HandleType
<1>6. handle \in [Requests -> HandleType]
  BY <1>3, <1>5
<1>7. \A r \in Requests : handle[r].at = "new" /\ handle[r].id = 0 /\ handle[r].loaded = FALSE
  BY <1>3
<1>8. SessionTypeOK
  BY <1>1, <1>2, <1>6 DEF SessionTypeOK
<1>9. SessionControl
  BY <1>2, <1>7 DEF SessionControl
<1>10. UnusedIds
  BY <1>2 DEF UnusedIds
<1>11. Copies
  BY <1>7 DEF Copies, CopyOf
<1>12. S!SessionsSerial
  BY <1>2 DEF S!SessionsSerial, S!Present
<1> QED BY <1>8, <1>9, <1>10, <1>11, <1>12 DEF SessionInv

\* What a request with these data may be and hold after a step of its own.
Allowed(r) ==
  /\ handle[r].id <= given
  /\ handle[r].at = "new" => ~handle[r].loaded
  /\ handle[r].at = "expired" => handle[r].id # 0 /\ ~handle[r].loaded
  /\ ~handle[r].loaded => DOMAIN ops[r] = {}
  /\ \A k \in DOMAIN ops[r] : k \in Names /\ ops[r][k] \in Requests \cup {NoRequest}
  /\ CopyOf(r)

\* A step of r that leaves the store alone.
LEMMA OwnStep ==
  ASSUME SessionInv, NEW r \in Requests,
         UNCHANGED <<store, given, serial, changes, raced>>,
         handle' \in [Requests -> HandleType], seen' \in [Requests -> Nat], DOMAIN ops' = Requests,
         \A q \in Requests : q # r => handle'[q] = handle[q] /\ seen'[q] = seen[q] /\ ops'[q] = ops[q],
         Allowed(r)'
  PROVE  SessionInv'
<1>1. SessionTypeOK'
  <2>1. \A q \in Requests : \A k \in DOMAIN ops'[q] : k \in Names /\ ops'[q][k] \in Requests \cup {NoRequest}
    BY DEF SessionInv, SessionTypeOK, Allowed
  <2> QED BY <2>1 DEF SessionInv, SessionTypeOK
<1>2. SessionControl'
  BY DEF SessionInv, SessionControl, Allowed
<1>3. UnusedIds'
  BY DEF SessionInv, UnusedIds
<1>4. Copies'
  <2> SUFFICES ASSUME NEW q \in Requests PROVE CopyOf(q)'
    BY DEF Copies
  <2>1. CASE q = r
    BY <2>1 DEF Allowed
  <2>2. CASE q # r
    <3>1. CopyOf(q)
      BY DEF SessionInv, Copies
    <3>2. handle'[q] = handle[q] /\ seen'[q] = seen[q] /\ ops'[q] = ops[q]
      BY <2>2
    <3> QED BY <3>1, <3>2 DEF CopyOf
  <2> QED BY <2>1, <2>2
<1>5. S!SessionsSerial'
  BY DEF SessionInv, S!SessionsSerial, S!Present
<1> QED BY <1>1, <1>2, <1>3, <1>4, <1>5 DEF SessionInv

\* A step of r that writes or removes the entry of one id.
LEMMA StoreStep ==
  ASSUME SessionConstants, SessionInv, NEW r \in Requests, NEW id \in Ids,
         given' = given \/ (given' = given + 1 /\ id = given + 1), id <= given',
         NEW d \in SessionData, serial' = [serial EXCEPT ![id] = d],
         changes' = [changes EXCEPT ![id] = @ + 1],
         raced \subseteq raced', raced' \subseteq raced \cup {id},
         \A i \in DOMAIN store \ {id} : i \in DOMAIN store' /\ store'[i] = store[i],
         DOMAIN store' \subseteq DOMAIN store \cup {id},
         id \in DOMAIN store' => store'[id].data \in SessionData,
         id \in raced' \/ (IF id \in DOMAIN store' THEN store'[id].data ELSE S!NoData) = d,
         handle' \in [Requests -> HandleType], seen' \in [Requests -> Nat], UNCHANGED ops,
         \A q \in Requests : q # r => handle'[q] = handle[q] /\ seen'[q] = seen[q],
         Allowed(r)'
  PROVE  SessionInv'
<1>0. id \in Nat \ {0} /\ given \in Nat /\ given' \in Nat /\ given <= given' /\ 1..given' \subseteq Ids
  <2>1. id \in Nat \ {0} /\ given \in Nat /\ 1..given \subseteq Ids
    BY DEF SessionConstants, SessionInv, SessionTypeOK
  <2>2. CASE given' = given
    BY <2>1, <2>2
  <2>3. CASE given' = given + 1 /\ id = given + 1
    <3>1. \A i \in 1..given' : i \in 1..given \/ i = id
      BY <2>1, <2>3
    <3> QED BY <2>1, <2>3, <3>1
  <2> QED BY <2>2, <2>3
<1>c. /\ changes' \in [Ids -> Nat] /\ changes'[id] = changes[id] + 1 /\ changes[id] \in Nat
      /\ \A i \in Ids : i # id => changes'[i] = changes[i]
  <2>1. changes \in [Ids -> Nat]
    BY DEF SessionInv, SessionTypeOK
  <2> QED BY <2>1
<1>s. /\ serial' \in [Ids -> SessionData] /\ serial'[id] = d
      /\ \A i \in Ids : i # id => serial'[i] = serial[i]
  <2>1. serial \in [Ids -> SessionData]
    BY DEF SessionInv, SessionTypeOK
  <2> QED BY <2>1
<1>1. SessionTypeOK'
  <2>1. DOMAIN store' \subseteq 1..given'
    <3>1. DOMAIN store \subseteq 1..given /\ 1..given \subseteq 1..given' /\ id \in 1..given'
      BY <1>0 DEF SessionInv, SessionTypeOK
    <3> QED BY <3>1
  <2>2. \A i \in DOMAIN store' : store'[i].data \in SessionData
    BY DEF SessionInv, SessionTypeOK
  <2> QED BY <1>0, <1>c, <1>s, <2>1, <2>2 DEF SessionInv, SessionTypeOK
<1>2. SessionControl'
  <2> SUFFICES ASSUME NEW q \in Requests
               PROVE  (/\ handle[q].id <= given
                       /\ handle[q].at = "new" => ~handle[q].loaded
                       /\ handle[q].at = "expired" => handle[q].id # 0 /\ ~handle[q].loaded
                       /\ ~handle[q].loaded => DOMAIN ops[q] = {})'
    BY DEF SessionControl
  <2>1. CASE q = r
    BY <2>1 DEF Allowed
  <2>2. CASE q # r
    <3>1. handle[q].id \in Nat /\ handle[q].id <= given
      BY DEF SessionInv, SessionTypeOK, SessionControl, HandleType
    <3> QED BY <2>2, <3>1, <1>0 DEF SessionInv, SessionControl
  <2> QED BY <2>1, <2>2
<1>3. UnusedIds'
  <2> SUFFICES ASSUME NEW i \in Ids, i > given' PROVE changes'[i] = 0 /\ serial'[i] = S!NoData
    BY DEF UnusedIds
  <2>1. i \in Nat /\ i # id /\ i > given
    BY <1>0 DEF SessionConstants
  <2> QED BY <2>1, <1>c, <1>s DEF SessionInv, UnusedIds
<1>4. Copies'
  <2> SUFFICES ASSUME NEW q \in Requests PROVE CopyOf(q)'
    BY DEF Copies
  <2>1. CASE q = r
    BY <2>1 DEF Allowed
  <2>2. CASE q # r
    <3>1. CopyOf(q)
      BY DEF SessionInv, Copies
    <3>2. handle'[q] = handle[q] /\ seen'[q] = seen[q] /\ ops'[q] = ops[q]
      BY <2>2
    <3>3. handle[q].id \in Nat /\ handle[q].id <= given /\ seen[q] \in Nat
      BY DEF SessionInv, SessionTypeOK, SessionControl, HandleType
    <3>4. CASE handle[q].id = 0
      BY <3>1, <3>2, <3>4 DEF CopyOf
    <3>5. CASE handle[q].id # 0 /\ handle[q].id # id
      <4>1. handle[q].id \in Ids
        BY <3>3, <3>5 DEF SessionInv, SessionTypeOK
      <4>2. changes'[handle[q].id] = changes[handle[q].id] /\ serial'[handle[q].id] = serial[handle[q].id]
        BY <4>1, <3>5, <1>c, <1>s
      <4> QED BY <3>1, <3>2, <3>5, <4>2 DEF CopyOf
    <3>6. CASE handle[q].id = id
      <4>1. handle[q].loaded /\ handle[q].at # "done" => seen[q] <= changes[id]
        BY <3>1, <3>6, <1>0 DEF CopyOf
      <4>2. handle[q].loaded /\ handle[q].at # "done" => seen[q] <= changes'[id] /\ seen[q] # changes'[id]
        BY <3>3, <4>1, <1>c
      <4> QED BY <1>0, <3>2, <3>6, <4>2 DEF CopyOf
    <3> QED BY <3>4, <3>5, <3>6
  <2> QED BY <2>1, <2>2
<1>5. S!SessionsSerial'
  <2> SUFFICES ASSUME NEW i \in Ids, i \notin raced'
               PROVE  (IF i \in DOMAIN store' THEN store'[i].data ELSE S!NoData) = serial'[i]
    BY DEF S!SessionsSerial, S!Present
  <2>1. CASE i = id
    BY <2>1, <1>s
  <2>2. CASE i # id
    <3>1. (IF i \in DOMAIN store THEN store[i].data ELSE S!NoData) = serial[i]
      BY DEF SessionInv, S!SessionsSerial, S!Present
    <3>2. i \in DOMAIN store' <=> i \in DOMAIN store
      BY <2>2
    <3> QED BY <2>2, <3>1, <3>2, <1>s
  <2> QED BY <2>1, <2>2
<1> QED BY <1>1, <1>2, <1>3, <1>4, <1>5 DEF SessionInv

\* The parts of what a request keeps, and its copy.
LEMMA Parts ==
  ASSUME SessionTypeOK, NEW r \in Requests
  PROVE  /\ handle[r] \in HandleType
         /\ handle[r].at \in {"new", "handler", "expired", "done"} /\ handle[r].id \in Nat
         /\ handle[r].loaded \in BOOLEAN /\ handle[r].session \in SessionType
         /\ handle[r].session.data \in SessionData
<1>1. handle[r] \in HandleType
  BY DEF SessionTypeOK
<1>2. handle[r].session \in SessionType
  BY <1>1 DEF HandleType
<1> QED BY <1>1, <1>2 DEF HandleType, SessionType

\* operator() before next().
LEMMA SessionArriveStep == ASSUME SessionInv, NEW r \in Requests, S!Arrive(r) PROVE SessionInv'
<1> PICK id \in {0} \cup 1..given : handle' = [handle EXCEPT ![r].at = "handler", ![r].id = id]
  BY DEF S!Arrive
<1>1. /\ handle[r].at = "new"
      /\ UNCHANGED <<store, given, serial, changes, raced, seen, ops>>
  BY DEF S!Arrive, S!At
<1>2. handle \in [Requests -> HandleType] /\ given \in Nat /\ id \in Nat /\ id <= given
  BY DEF SessionInv, SessionTypeOK
<1>3. /\ handle'[r].at = "handler" /\ handle'[r].id = id
      /\ handle'[r].loaded = handle[r].loaded /\ handle'[r].session = handle[r].session
  BY <1>2 DEF HandleType
<1>4. handle' \in [Requests -> HandleType]
  BY <1>2 DEF HandleType
<1>5. \A q \in Requests : q # r => handle'[q] = handle[q]
  BY <1>2
<1>6. ~handle[r].loaded /\ DOMAIN ops[r] = {}
  BY <1>1 DEF SessionInv, SessionControl
<1>7. Allowed(r)'
  BY <1>1, <1>2, <1>3, <1>6 DEF Allowed, CopyOf
<1>8. seen' \in [Requests -> Nat] /\ DOMAIN ops' = Requests
  BY <1>1 DEF SessionInv, SessionTypeOK
<1> QED BY <1>1, <1>4, <1>5, <1>7, <1>8, OwnStep

\* SessionHandle::get() without an entry in the store.
LEMMA GetNewStep == ASSUME SessionConstants, SessionInv, NEW r \in Requests, S!GetNew(r) PROVE SessionInv'
<1>1. /\ handle[r].at = "handler" /\ ~handle[r].loaded
      /\ handle[r].id = 0 \/ handle[r].id \notin DOMAIN store
      /\ handle' = [handle EXCEPT ![r].at = "handler", ![r].loaded = TRUE, ![r].session = S!NewSession]
      /\ seen' = [seen EXCEPT ![r] = IF handle[r].id = 0 THEN 0 ELSE changes[handle[r].id]]
      /\ UNCHANGED <<store, given, serial, changes, raced, ops>>
  BY DEF S!GetNew, S!GetsEmpty, S!At, S!Present
<1>2. handle \in [Requests -> HandleType] /\ given \in Nat
  BY DEF SessionInv, SessionTypeOK
<1>n. S!NoData \in SessionData /\ S!NewSession \in SessionType /\ S!NewSession.data = S!NoData
  BY DEF S!NoData, SessionData, S!NewSession, SessionType
<1>3. /\ handle'[r].at = "handler" /\ handle'[r].id = handle[r].id
      /\ handle'[r].loaded = TRUE /\ handle'[r].session = S!NewSession
  BY <1>1, <1>2 DEF HandleType
<1>4. handle' \in [Requests -> HandleType]
  BY <1>1, <1>2, <1>n, ZenonT(60) DEF HandleType
<1>5. \A q \in Requests : q # r => handle'[q] = handle[q] /\ seen'[q] = seen[q]
  BY <1>1, <1>2 DEF SessionInv, SessionTypeOK
<1>6. DOMAIN ops[r] = {} /\ handle[r].id \in Nat /\ handle[r].id <= given
  BY <1>1, Parts DEF SessionInv, SessionControl
<1>7. handle[r].id # 0 => handle[r].id \in Ids /\ changes[handle[r].id] \in Nat
  BY <1>6, <1>2 DEF SessionInv, SessionTypeOK
<1>8. seen' \in [Requests -> Nat] /\ seen'[r] = IF handle[r].id = 0 THEN 0 ELSE changes[handle[r].id]
  <2>1. seen \in [Requests -> Nat]
    BY DEF SessionInv, SessionTypeOK
  <2> QED BY <1>1, <1>7, <2>1
<1>9. S!Applied(ops[r], S!NoData) = S!NoData
  BY <1>6 DEF S!Applied, S!NoData
<1>10. ASSUME handle[r].id # 0, handle[r].id \notin raced PROVE S!NoData = S!Applied(ops[r], serial[handle[r].id])
  <2>1. serial[handle[r].id] = S!NoData
    BY <1>1, <1>7, <1>10 DEF SessionInv, S!SessionsSerial, S!Present
  <2> QED BY <1>9, <2>1
<1>11. Allowed(r)'
  <2>1. CopyOf(r)'
    BY <1>1, <1>3, <1>7, <1>8, <1>9, <1>10, <1>n DEF CopyOf
  <2> QED BY <1>1, <1>3, <1>6, <2>1 DEF Allowed
<1>12. DOMAIN ops' = Requests
  BY <1>1 DEF SessionInv, SessionTypeOK
<1> QED BY <1>1, <1>4, <1>5, <1>8, <1>11, <1>12, OwnStep

\* load() of a live entry.
LEMMA GetStoredStep == ASSUME SessionConstants, SessionInv, NEW r \in Requests, S!GetStored(r) PROVE SessionInv'
<1> DEFINE id == handle[r].id
           copy == [data |-> store[id].data, dirty |-> TRUE, invalid |-> FALSE]
<1>1. /\ handle[r].at = "handler" /\ ~handle[r].loaded
      /\ id # 0 /\ id \in DOMAIN store
      /\ handle' = [handle EXCEPT ![r].loaded = TRUE, ![r].session = copy]
      /\ seen' = [seen EXCEPT ![r] = changes[id]]
      /\ UNCHANGED <<store, given, serial, changes, raced, ops>>
  BY DEF S!GetStored, S!At, S!Present
<1>2. handle \in [Requests -> HandleType] /\ given \in Nat /\ id \in Ids
  BY <1>1 DEF SessionInv, SessionTypeOK
<1>n. copy \in SessionType /\ copy.data = store[id].data
  BY <1>1 DEF SessionInv, SessionTypeOK, SessionType
<1> HIDE DEF copy, id
<1>3. /\ handle'[r].at = "handler" /\ handle'[r].id = id
      /\ handle'[r].loaded = TRUE /\ handle'[r].session = copy
  BY <1>1, <1>2 DEF HandleType, id
<1>4. handle' \in [Requests -> HandleType]
  BY <1>1, <1>2, <1>n, ZenonT(60) DEF HandleType
<1>5. \A q \in Requests : q # r => handle'[q] = handle[q] /\ seen'[q] = seen[q]
  BY <1>1, <1>2 DEF SessionInv, SessionTypeOK
<1>6. DOMAIN ops[r] = {} /\ id \in Nat /\ id <= given
  BY <1>1, Parts DEF SessionInv, SessionControl, id
<1>7. changes[id] \in Nat /\ serial[id] \in SessionData
  BY <1>2 DEF SessionInv, SessionTypeOK
<1>8. seen' \in [Requests -> Nat] /\ seen'[r] = changes[id]
  <2>1. seen \in [Requests -> Nat]
    BY DEF SessionInv, SessionTypeOK
  <2> QED BY <1>1, <1>7, <2>1
<1>9. S!Applied(ops[r], serial[id]) = serial[id]
  BY <1>6, <1>7 DEF S!Applied, SessionData
<1>10. ASSUME id \notin raced PROVE store[id].data = S!Applied(ops[r], serial[id])
  <2>1. serial[id] = store[id].data
    BY <1>1, <1>2, <1>10 DEF SessionInv, S!SessionsSerial, S!Present
  <2> QED BY <1>9, <2>1
<1>11. Allowed(r)'
  <2>1. CopyOf(r)'
    BY <1>1, <1>3, <1>7, <1>8, <1>10, <1>n DEF CopyOf
  <2> QED BY <1>1, <1>3, <1>6, <2>1 DEF Allowed
<1>12. DOMAIN ops' = Requests
  BY <1>1 DEF SessionInv, SessionTypeOK
<1> QED BY <1>1, <1>4, <1>5, <1>8, <1>11, <1>12, OwnStep

\* load() of one that has expired.
LEMMA FindExpiredStep == ASSUME SessionConstants, SessionInv, NEW r \in Requests, S!FindExpired(r) PROVE SessionInv'
<1>1. /\ handle[r].at = "handler" /\ ~handle[r].loaded
      /\ handle[r].id # 0 /\ handle[r].id \in DOMAIN store
      /\ handle' = [handle EXCEPT ![r].at = "expired"]
      /\ seen' = [seen EXCEPT ![r] = changes[handle[r].id]]
      /\ UNCHANGED <<store, given, serial, changes, raced, ops>>
  BY DEF S!FindExpired, S!At, S!Present, S!Goto
<1>2. handle \in [Requests -> HandleType] /\ handle[r].id \in Ids
  BY <1>1 DEF SessionInv, SessionTypeOK
<1>3. handle'[r].at = "expired" /\ handle'[r].id = handle[r].id /\ handle'[r].loaded = handle[r].loaded
  BY <1>1, <1>2 DEF HandleType
<1>4. handle' \in [Requests -> HandleType]
  BY <1>1, <1>2 DEF HandleType
<1>5. \A q \in Requests : q # r => handle'[q] = handle[q] /\ seen'[q] = seen[q]
  BY <1>1, <1>2 DEF SessionInv, SessionTypeOK
<1>6. DOMAIN ops[r] = {} /\ handle[r].id <= given
  BY <1>1 DEF SessionInv, SessionControl
<1>7. seen' \in [Requests -> Nat]
  <2>1. seen \in [Requests -> Nat] /\ changes[handle[r].id] \in Nat
    BY <1>2 DEF SessionInv, SessionTypeOK
  <2> QED BY <1>1, <2>1
<1>8. Allowed(r)'
  BY <1>1, <1>3, <1>6 DEF Allowed, CopyOf
<1>9. DOMAIN ops' = Requests
  BY <1>1 DEF SessionInv, SessionTypeOK
<1> QED BY <1>1, <1>4, <1>5, <1>7, <1>8, <1>9, OwnStep

\* The handler sets or removes a key.
LEMMA ChangeStep ==
  ASSUME SessionInv, NEW r \in Requests, NEW k \in Names, NEW v \in Requests \cup {NoRequest},
         handle[r].at = "handler", handle[r].loaded, ops[r] = <<>>,
         NEW s \in SessionType, s.data = [handle[r].session.data EXCEPT ![k] = v],
         handle' = [handle EXCEPT ![r].session = s],
         ops' = [ops EXCEPT ![r] = [x \in {k} |-> v]],
         UNCHANGED <<store, given, serial, changes, seen, raced>>
  PROVE  SessionInv'
<1>1. handle \in [Requests -> HandleType]
  BY DEF SessionInv, SessionTypeOK
<1>2. handle[r].session.data \in SessionData
  BY Parts DEF SessionInv
<1> DEFINE d == [handle[r].session.data EXCEPT ![k] = v]
<1>3. d \in SessionData
  BY <1>2 DEF SessionData
<1>4. s.data = d
  OBVIOUS
<1>5. handle' = [handle EXCEPT ![r].session = s]
  OBVIOUS
<1>6. /\ handle'[r].at = "handler" /\ handle'[r].id = handle[r].id
      /\ handle'[r].loaded /\ handle'[r].session = s
  BY <1>1, <1>5 DEF HandleType
<1>7. handle' \in [Requests -> HandleType]
  BY <1>1 DEF HandleType
<1>8. DOMAIN ops' = Requests /\ ops'[r] = [x \in {k} |-> v]
  BY DEF SessionInv, SessionTypeOK
<1>9. \A q \in Requests : q # r => handle'[q] = handle[q] /\ seen'[q] = seen[q] /\ ops'[q] = ops[q]
  BY <1>1, <1>5 DEF SessionInv, SessionTypeOK
<1>10. ASSUME NEW base, handle[r].session.data = S!Applied(ops[r], base) PROVE d = S!Applied(ops'[r], base)
  <2>1. \A x \in Names : handle[r].session.data[x] = base[x]
    BY <1>10 DEF S!Applied
  <2>2. DOMAIN d = Names /\ \A x \in Names : d[x] = IF x = k THEN v ELSE base[x]
    BY <1>2, <2>1 DEF SessionData
  <2>3. d = [x \in Names |-> d[x]]
    BY <1>3 DEF SessionData
  <2>4. d = [x \in Names |-> IF x = k THEN v ELSE base[x]]
    BY <2>2, <2>3
  <2>5. S!Applied(ops'[r], base) = [x \in Names |-> IF x = k THEN v ELSE base[x]]
    BY <1>8 DEF S!Applied
  <2> QED BY <2>4, <2>5
<1> HIDE DEF d
<1>11. CopyOf(r)'
  <2>1. CopyOf(r)
    BY DEF SessionInv, Copies
  <2>2. CASE handle[r].id = 0
    <3>1. seen[r] = 0 /\ handle[r].session.data = S!Applied(ops[r], S!NoData)
      BY <2>1, <2>2 DEF CopyOf
    <3>2. d = S!Applied(ops'[r], S!NoData)
      BY <3>1, <1>10
    <3> QED BY <1>4, <1>6, <2>2, <3>1, <3>2 DEF CopyOf, S!NoData
  <2>3. CASE handle[r].id # 0
    <3>1. seen[r] <= changes[handle[r].id]
      BY <2>1, <2>3 DEF CopyOf
    <3>2. ASSUME handle[r].id \notin raced, seen[r] = changes[handle[r].id]
          PROVE  d = S!Applied(ops'[r], serial[handle[r].id])
      <4>1. handle[r].session.data = S!Applied(ops[r], serial[handle[r].id])
        BY <2>1, <2>3, <3>2 DEF CopyOf
      <4> QED BY <4>1, <1>10
    <3> QED BY <1>4, <1>6, <2>3, <3>1, <3>2 DEF CopyOf
  <2> QED BY <2>2, <2>3
<1>12. Allowed(r)'
  BY <1>6, <1>8, <1>11 DEF SessionInv, SessionControl, Allowed
<1>13. seen' \in [Requests -> Nat]
  BY DEF SessionInv, SessionTypeOK
<1> QED BY <1>7, <1>8, <1>9, <1>12, <1>13, OwnStep

\* Session::set().
LEMMA SetStep == ASSUME SessionInv, NEW r \in Requests, S!Set(r) PROVE SessionInv'
<1>1. \E k \in Names, s \in SessionType : /\ s.data = [handle[r].session.data EXCEPT ![k] = r]
                                          /\ handle' = [handle EXCEPT ![r].session = s]
                                          /\ ops' = [ops EXCEPT ![r] = [x \in {k} |-> r]]
  <2> PICK k \in Names : /\ handle' = [handle EXCEPT ![r].session.data[k] = r, ![r].session.dirty = TRUE]
                         /\ ops' = [ops EXCEPT ![r] = [x \in {k} |-> r]]
    BY DEF S!Set
  <2>1. handle \in [Requests -> HandleType]
    BY DEF SessionInv, SessionTypeOK
  <2>2. handle[r].session \in SessionType /\ handle[r].session.data \in SessionData
    BY Parts DEF SessionInv
  <2> DEFINE d == [handle[r].session.data EXCEPT ![k] = r]
             s == [[handle[r].session EXCEPT !.data = d] EXCEPT !.dirty = TRUE]
  <2>3. d \in SessionData
    BY <2>2 DEF SessionData
  <2>4. s \in SessionType /\ s.data = d
    BY <2>2, <2>3 DEF SessionType
  <2>5. handle' = [handle EXCEPT ![r].session = s]
    BY <2>1, <2>2 DEF HandleType, SessionType
  <2> HIDE DEF s
  <2> QED BY <2>4, <2>5
<1>2. /\ handle[r].at = "handler" /\ handle[r].loaded /\ ops[r] = <<>>
      /\ UNCHANGED <<store, given, serial, changes, seen, raced>>
  BY DEF S!Set, S!At
<1> PICK k \in Names, s \in SessionType : /\ s.data = [handle[r].session.data EXCEPT ![k] = r]
                                          /\ handle' = [handle EXCEPT ![r].session = s]
                                          /\ ops' = [ops EXCEPT ![r] = [x \in {k} |-> r]]
  BY <1>1
<1> QED BY <1>2, ChangeStep

\* Session::remove().
LEMMA RemoveKeyStep == ASSUME SessionInv, NEW r \in Requests, S!RemoveKey(r) PROVE SessionInv'
<1>1. \E k \in Names, s \in SessionType : /\ s.data = [handle[r].session.data EXCEPT ![k] = NoRequest]
                                          /\ handle' = [handle EXCEPT ![r].session = s]
                                          /\ ops' = [ops EXCEPT ![r] = [x \in {k} |-> NoRequest]]
  <2> PICK k \in Names : /\ handle' = [handle EXCEPT ![r].session.data[k] = NoRequest, ![r].session.dirty = TRUE]
                         /\ ops' = [ops EXCEPT ![r] = [x \in {k} |-> NoRequest]]
    BY DEF S!RemoveKey
  <2>1. handle \in [Requests -> HandleType]
    BY DEF SessionInv, SessionTypeOK
  <2>2. handle[r].session \in SessionType /\ handle[r].session.data \in SessionData
    BY Parts DEF SessionInv
  <2> DEFINE d == [handle[r].session.data EXCEPT ![k] = NoRequest]
             s == [[handle[r].session EXCEPT !.data = d] EXCEPT !.dirty = TRUE]
  <2>3. d \in SessionData
    BY <2>2 DEF SessionData
  <2>4. s \in SessionType /\ s.data = d
    BY <2>2, <2>3 DEF SessionType
  <2>5. handle' = [handle EXCEPT ![r].session = s]
    BY <2>1, <2>2 DEF HandleType, SessionType
  <2> HIDE DEF s
  <2> QED BY <2>4, <2>5
<1>2. /\ handle[r].at = "handler" /\ handle[r].loaded /\ ops[r] = <<>>
      /\ UNCHANGED <<store, given, serial, changes, seen, raced>>
  BY DEF S!RemoveKey, S!At
<1> PICK k \in Names, s \in SessionType : /\ s.data = [handle[r].session.data EXCEPT ![k] = NoRequest]
                                          /\ handle' = [handle EXCEPT ![r].session = s]
                                          /\ ops' = [ops EXCEPT ![r] = [x \in {k} |-> NoRequest]]
  BY <1>1
<1> QED BY <1>2, ChangeStep

\* Session::invalidate().
LEMMA InvalidateStep == ASSUME SessionInv, NEW r \in Requests, S!Invalidate(r) PROVE SessionInv'
<1>1. /\ handle[r].at = "handler" /\ handle[r].loaded
      /\ handle' = [handle EXCEPT ![r].session.invalid = TRUE]
      /\ UNCHANGED <<store, given, serial, changes, seen, ops, raced>>
  BY DEF S!Invalidate, S!At
<1>2. handle \in [Requests -> HandleType]
  BY DEF SessionInv, SessionTypeOK
<1>3. handle[r].session \in SessionType
  BY Parts DEF SessionInv
<1> DEFINE s == [handle[r].session EXCEPT !.invalid = TRUE]
<1>4. s \in SessionType /\ s.data = handle[r].session.data
  BY <1>3 DEF SessionType
<1>5. handle' = [handle EXCEPT ![r].session = s]
  BY <1>1, <1>2, <1>3 DEF HandleType, SessionType
<1> HIDE DEF s
<1>6. /\ handle'[r].at = "handler" /\ handle'[r].id = handle[r].id
      /\ handle'[r].loaded /\ handle'[r].session = s
  BY <1>1, <1>2, <1>5 DEF HandleType
<1>7. handle' \in [Requests -> HandleType]
  BY <1>2, <1>4, <1>5 DEF HandleType
<1>8. \A q \in Requests : q # r => handle'[q] = handle[q]
  BY <1>2, <1>5
<1>9. CopyOf(r)'
  <2>1. CopyOf(r)
    BY DEF SessionInv, Copies
  <2> QED BY <1>1, <1>4, <1>6, <2>1 DEF CopyOf
<1>10. Allowed(r)'
  BY <1>1, <1>6, <1>9 DEF SessionInv, SessionControl, SessionTypeOK, Allowed
<1>11. seen' \in [Requests -> Nat] /\ DOMAIN ops' = Requests
  BY <1>1 DEF SessionInv, SessionTypeOK
<1> QED BY <1>1, <1>7, <1>8, <1>10, <1>11, OwnStep

\* operator() after next() that does not use the store.
LEMMA LeavesStoreStep == ASSUME SessionInv, NEW r \in Requests, S!LeavesStore(r) PROVE SessionInv'
<1>1. /\ handle[r].at = "handler"
      /\ handle' = [handle EXCEPT ![r].at = "done"]
      /\ UNCHANGED <<store, given, serial, changes, seen, ops, raced>>
  BY DEF S!LeavesStore, S!At, S!Goto
<1>2. handle \in [Requests -> HandleType]
  BY DEF SessionInv, SessionTypeOK
<1>3. handle'[r].at = "done" /\ handle'[r].id = handle[r].id /\ handle'[r].loaded = handle[r].loaded
  BY <1>1, <1>2 DEF HandleType
<1>4. handle' \in [Requests -> HandleType]
  BY <1>1, <1>2 DEF HandleType
<1>5. \A q \in Requests : q # r => handle'[q] = handle[q]
  BY <1>1, <1>2
<1>6. Allowed(r)'
  BY <1>1, <1>3 DEF SessionInv, SessionControl, SessionTypeOK, Allowed, CopyOf
<1>7. seen' \in [Requests -> Nat] /\ DOMAIN ops' = Requests
  BY <1>1 DEF SessionInv, SessionTypeOK
<1> QED BY <1>1, <1>4, <1>5, <1>6, <1>7, OwnStep

\* load() removes the entry it has found expired.
LEMMA EraseExpiredStep == ASSUME SessionConstants, SessionInv, NEW r \in Requests, S!EraseExpired(r) PROVE SessionInv'
<1> DEFINE id == handle[r].id
<1>1. /\ handle[r].at = "expired" /\ store' = [i \in DOMAIN store \ {id} |-> store[i]]
      /\ raced' = IF changes[id] # seen[r] THEN raced \cup {id} ELSE raced
      /\ serial' = [serial EXCEPT ![id] = S!NoData]
      /\ changes' = [changes EXCEPT ![id] = @ + 1]
      /\ seen' = [seen EXCEPT ![r] = changes[id] + 1]
      /\ handle' = [handle EXCEPT ![r].at = "handler", ![r].loaded = TRUE, ![r].session = S!NewSession]
      /\ UNCHANGED <<given, ops>>
  BY DEF S!EraseExpired, S!At, S!Remove, S!Overlooked, S!GetsEmpty
<1>2. handle \in [Requests -> HandleType] /\ given \in Nat
  BY DEF SessionInv, SessionTypeOK
<1>n. S!NoData \in SessionData /\ S!NewSession \in SessionType /\ S!NewSession.data = S!NoData
  BY DEF S!NoData, SessionData, S!NewSession, SessionType
<1>3. id \in Nat /\ id # 0 /\ id <= given /\ id \in Ids /\ DOMAIN ops[r] = {}
  <2>1. id \in Nat /\ id # 0 /\ id <= given /\ DOMAIN ops[r] = {}
    BY <1>1, Parts DEF SessionInv, SessionControl
  <2> QED BY <1>2, <2>1 DEF SessionInv, SessionTypeOK
<1> HIDE DEF id
<1>4. /\ handle'[r].at = "handler" /\ handle'[r].id = id
      /\ handle'[r].loaded = TRUE /\ handle'[r].session = S!NewSession
  BY <1>1, <1>2 DEF HandleType, id
<1>5. handle' \in [Requests -> HandleType]
  BY <1>1, <1>2, <1>n, ZenonT(60) DEF HandleType
<1>6. changes[id] \in Nat /\ changes[id] + 1 \in Nat /\ changes'[id] = changes[id] + 1 /\ serial'[id] = S!NoData
  <2>1. changes \in [Ids -> Nat] /\ serial \in [Ids -> SessionData]
    BY DEF SessionInv, SessionTypeOK
  <2> QED BY <1>1, <1>3, <2>1
<1>7. seen' \in [Requests -> Nat] /\ seen'[r] = changes'[id]
  <2>1. seen \in [Requests -> Nat]
    BY DEF SessionInv, SessionTypeOK
  <2> QED BY <1>1, <1>6, <2>1
<1>8. \A q \in Requests : q # r => handle'[q] = handle[q] /\ seen'[q] = seen[q]
  BY <1>1, <1>2 DEF SessionInv, SessionTypeOK
<1>9. S!Applied(ops[r], S!NoData) = S!NoData
  BY <1>3 DEF S!Applied, S!NoData
<1>10. Allowed(r)'
  <2>1. CopyOf(r)'
    BY <1>1, <1>3, <1>4, <1>6, <1>7, <1>9, <1>n DEF CopyOf
  <2> QED BY <1>1, <1>3, <1>4, <2>1 DEF Allowed
<1>11. /\ \A i \in DOMAIN store \ {id} : i \in DOMAIN store' /\ store'[i] = store[i]
       /\ DOMAIN store' \subseteq DOMAIN store \cup {id} /\ id \notin DOMAIN store'
  BY <1>1
<1>12. raced \subseteq raced' /\ raced' \subseteq raced \cup {id}
  BY <1>1
<1> QED BY <1>1, <1>3, <1>5, <1>7, <1>8, <1>10, <1>11, <1>12, <1>n, StoreStep

\* The end of an invalidated session.
LEMMA DestroyStep == ASSUME SessionConstants, SessionInv, NEW r \in Requests, S!Destroy(r) PROVE SessionInv'
<1> DEFINE id == handle[r].id
<1>1. /\ handle[r].at = "handler" /\ handle[r].loaded /\ id # 0
      /\ store' = [i \in DOMAIN store \ {id} |-> store[i]]
      /\ serial' = [serial EXCEPT ![id] = S!NoData]
      /\ changes' = [changes EXCEPT ![id] = @ + 1]
      /\ handle' = [handle EXCEPT ![r].at = "done"]
      /\ UNCHANGED <<given, seen, ops, raced>>
  BY DEF S!Destroy, S!At, S!Remove, S!Goto
<1>2. handle \in [Requests -> HandleType] /\ given \in Nat
  BY DEF SessionInv, SessionTypeOK
<1>n. S!NoData \in SessionData
  BY DEF S!NoData, SessionData
<1>3. id \in Nat /\ id <= given /\ id \in Ids
  <2>1. id \in Nat /\ id <= given
    BY <1>1, Parts DEF SessionInv, SessionControl
  <2> QED BY <1>1, <1>2, <2>1 DEF SessionInv, SessionTypeOK
<1> HIDE DEF id
<1>4. handle'[r].at = "done" /\ handle'[r].id = id /\ handle'[r].loaded
  BY <1>1, <1>2 DEF HandleType, id
<1>5. handle' \in [Requests -> HandleType]
  BY <1>1, <1>2 DEF HandleType
<1>6. \A q \in Requests : q # r => handle'[q] = handle[q] /\ seen'[q] = seen[q]
  BY <1>1, <1>2
<1>7. Allowed(r)'
  BY <1>1, <1>3, <1>4 DEF SessionInv, SessionTypeOK, Allowed, CopyOf
<1>8. /\ \A i \in DOMAIN store \ {id} : i \in DOMAIN store' /\ store'[i] = store[i]
      /\ DOMAIN store' \subseteq DOMAIN store \cup {id} /\ id \notin DOMAIN store'
  BY <1>1
<1>9. seen' \in [Requests -> Nat]
  BY <1>1 DEF SessionInv, SessionTypeOK
<1> QED BY <1>1, <1>3, <1>5, <1>6, <1>7, <1>8, <1>9, <1>n, StoreStep

\* save(), which may overwrite what it has not seen and then says so.
LEMMA SaveStep == ASSUME SessionConstants, SessionInv, NEW r \in Requests, S!Save(r) PROVE SessionInv'
<1> DEFINE id == IF handle[r].id = 0 THEN given + 1 ELSE handle[r].id
           d == S!Applied(ops[r], serial[id])
<1>1. /\ handle[r].at = "handler" /\ handle[r].loaded /\ id \in Ids
      /\ given' = IF handle[r].id = 0 THEN id ELSE given
      /\ store' = [i \in DOMAIN store \cup {id} |-> IF i = id THEN S!Stored(r) ELSE store[i]]
      /\ raced' = IF changes[id] # seen[r] THEN raced \cup {id} ELSE raced
      /\ serial' = [serial EXCEPT ![id] = S!Applied(ops[r], @)]
      /\ changes' = [changes EXCEPT ![id] = @ + 1]
      /\ handle' = [handle EXCEPT ![r].at = "done"]
      /\ UNCHANGED <<seen, ops>>
  BY DEF S!Save, S!At, S!Put, S!Goto, S!Overlooked
<1>2. handle \in [Requests -> HandleType] /\ given \in Nat /\ handle[r].id \in Nat /\ handle[r].id <= given
  BY Parts DEF SessionInv, SessionTypeOK, SessionControl
<1>3. (given' = given \/ (given' = given + 1 /\ id = given + 1)) /\ id <= given' /\ given' \in Nat /\ given <= given'
  BY <1>1, <1>2
<1>4. ASSUME id \notin raced' PROVE handle[r].session.data = d
  <2>1. changes[id] = seen[r] /\ id \notin raced
    BY <1>1, <1>4
  <2>2. CopyOf(r)
    BY DEF SessionInv, Copies
  <2>3. CASE handle[r].id = 0
    <3>1. handle[r].session.data = S!Applied(ops[r], S!NoData)
      BY <1>1, <2>2, <2>3 DEF CopyOf
    <3>2. serial[id] = S!NoData
      BY <1>1, <1>2, <2>3 DEF SessionInv, UnusedIds
    <3> QED BY <3>1, <3>2
  <2>4. CASE handle[r].id # 0
    BY <1>1, <2>1, <2>2, <2>4 DEF CopyOf
  <2> QED BY <2>3, <2>4
<1>5. d \in SessionData
  <2>1. serial[id] \in SessionData
    BY <1>1 DEF SessionInv, SessionTypeOK
  <2> QED BY <2>1 DEF SessionInv, SessionTypeOK, S!Applied, SessionData
<1>6. serial' = [serial EXCEPT ![id] = d]
  BY <1>1
<1> HIDE DEF id, d
<1>7. S!Stored(r).data = handle[r].session.data /\ handle[r].session.data \in SessionData
  BY Parts DEF SessionInv, S!Stored
<1>8. /\ \A i \in DOMAIN store \ {id} : i \in DOMAIN store' /\ store'[i] = store[i]
      /\ DOMAIN store' \subseteq DOMAIN store \cup {id} /\ id \in DOMAIN store'
      /\ store'[id].data = handle[r].session.data
  BY <1>1, <1>7
<1>9. id \in raced' \/ (IF id \in DOMAIN store' THEN store'[id].data ELSE S!NoData) = d
  BY <1>4, <1>8
<1>10. handle'[r].at = "done" /\ handle'[r].id = handle[r].id /\ handle'[r].loaded
  BY <1>1, <1>2 DEF HandleType
<1>11. handle' \in [Requests -> HandleType]
  BY <1>1, <1>2 DEF HandleType
<1>12. \A q \in Requests : q # r => handle'[q] = handle[q] /\ seen'[q] = seen[q]
  BY <1>1, <1>2
<1>13. Allowed(r)'
  <2>1. handle[r].id <= given'
    BY <1>2, <1>3
  <2> QED BY <1>1, <1>10, <2>1 DEF SessionInv, SessionTypeOK, Allowed, CopyOf
<1>14. seen' \in [Requests -> Nat] /\ raced \subseteq raced' /\ raced' \subseteq raced \cup {id}
  BY <1>1 DEF SessionInv, SessionTypeOK
<1>15. id \in Ids /\ changes' = [changes EXCEPT ![id] = @ + 1] /\ UNCHANGED ops
  BY <1>1
<1>16. id \in DOMAIN store' => store'[id].data \in SessionData
  BY <1>7, <1>8
<1> QED BY <1>3, <1>5, <1>6, <1>8, <1>9, <1>11, <1>12, <1>13, <1>14, <1>15, <1>16, StoreStep

\* Every step keeps the invariant.
LEMMA SessionStep == ASSUME SessionConstants, SessionInv, [S!Next]_(S!vars) PROVE SessionInv'
<1>1. CASE UNCHANGED S!vars
  BY <1>1 DEF S!vars, SessionInv, SessionTypeOK, SessionControl, UnusedIds, Copies, CopyOf, S!SessionsSerial, S!Present
<1>2. CASE S!Tick
  BY <1>2 DEF S!Tick, SessionInv, SessionTypeOK, SessionControl, UnusedIds, Copies, CopyOf, S!SessionsSerial, S!Present
<1> QED
  BY <1>1, <1>2, SessionArriveStep, SetStep, RemoveKeyStep, GetNewStep, GetStoredStep, FindExpiredStep, EraseExpiredStep,
     InvalidateStep, LeavesStoreStep, DestroyStep, SaveStep DEF S!Next

-----------------------------------------------------------------------------
\* However requests of one session overlap with each other, with its expiry
\* and with its end, the store holds what the requests would have left there
\* one by one, but for the ids whose entry was overwritten or removed by a
\* request that had not seen its last change (SessionHandle::get(),
\* InMemorySessionStore::load(), save() and destroy()).
THEOREM SessionsAreSerial == ASSUME SessionConstants PROVE S!Spec => []S!SessionsSerial
<1>1. S!Init => SessionInv
  BY SessionInitHolds
<1>2. SessionInv /\ [S!Next]_(S!vars) => SessionInv'
  BY SessionStep
<1>3. SessionInv => S!SessionsSerial
  BY DEF SessionInv
<1> QED BY <1>1, <1>2, <1>3, PTL DEF S!Spec
=============================================================================
