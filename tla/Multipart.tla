----------------------------- MODULE Multipart -----------------------------
(***************************************************************************)
(* MultipartParser (http/MultipartParser.hpp): a form is read through a    *)
(* buffer in whatever pieces the connection delivers, and its parts go to  *)
(* the handlers registered for them.                                       *)
(*                                                                         *)
(* The body is a sequence of symbols: "n" for the end of a line, "-" for   *)
(* "--" and the boundary's text, "e" for the closing "--", the name of a   *)
(* head for all header lines of a part, and others for data.  boundary_ is *)
(* two of them, the line end before it included, and the two characters    *)
(* behind it are one.                                                      *)
(* Definitions marked "seeded fault" are not part of the model.            *)
(***************************************************************************)
EXTENDS Integers, Sequences, FiniteSets, SequencesExt

CONSTANTS
  Forms,        \* what is sent: [parts, cut], the parts as pairs of a head's name
                \* and the data, cut is how many symbols are missing at the end
  Heads,        \* what the head of each name says: [file, name, error]
  FileNames, FieldNames, MultiNames,  \* names with a handler
  BufferSize,   \* MULTIPART_BUFFER_SIZE
  MaxField,     \* MAX_MULTIPART_FIELD_SIZE
  MaxFile,      \* MAX_MULTIPART_FILE_SIZE
  MaxParts      \* MAX_MULTIPART_PARTS

VARIABLES
  form,       \* what is sent
  rest,       \* what has not been read
  buffer,     \* the valid bytes of BufferedReader
  exhausted,  \* of the body stream
  at,         \* "boundary", "headers", "content", "end" or the outcome
  part,       \* the part that is being read: [head, value, total]
  parts,      \* partCount
  consumed,   \* contentConsumed_
  used,       \* file handlers, which are moved from when they are used
  multi,      \* multiFieldValues of the one name there is
  given,      \* what the handlers were given, in order
  starved     \* ghost: a part began with less than a boundary in the buffer

vars == <<form, rest, buffer, exhausted, at, part, parts, consumed, used, multi, given, starved>>

Boundary == <<"n", "-">>
FullBoundary == Len(Boundary) + 1
FirstBoundary == Len(Boundary)

\* What a client sends.
Encoded(f) ==
  LET n == Len(f.parts)
      body == FlattenSeq([i \in 1..n |-> <<f.parts[i][1]>> \o f.parts[i][2] \o Boundary
                                           \o <<IF i = n THEN "e" ELSE "n">>])
      all == <<"-", "n">> \o body
  IN SubSeq(all, 1, Len(all) - f.cut)
ContentLength == Len(Encoded(form))

NoPart == [head |-> "", value |-> <<>>, total |-> 0]
Outcomes == {"ok", "400", "413", "501", "spins", "crash"}

Init ==
  /\ form \in Forms
  /\ rest = Encoded(form) /\ buffer = <<>>
  /\ exhausted = (rest = <<>>)
  /\ at = "boundary" /\ part = NoPart /\ parts = 0 /\ consumed = 0
  /\ used = {} /\ multi = <<>> /\ given = <<>> /\ starved = FALSE

-----------------------------------------------------------------------------
\* BufferedReader::read(): between one symbol and all that fits, none at the
\* end or when the buffer is full, which ends the stream too.
Room == BufferSize - Len(buffer)
Read(n) ==
  IF exhausted \/ Room = 0 THEN n = 0 ELSE n \in 1..(IF Len(rest) < Room THEN Len(rest) ELSE Room)
Span(n) == buffer \o SubSeq(rest, 1, n)
DoRead(n) ==
  /\ rest' = SubSeq(rest, n + 1, Len(rest))
  /\ exhausted' = (n = 0 \/ rest' = <<>>)

\* findBoundary(): the position of the first boundary, when it is complete and
\* followed by what may follow one; 0 otherwise.
Occurrences(span) == {i \in 1..Len(span) - 1 : span[i] = Boundary[1] /\ span[i + 1] = Boundary[2]}
FindBoundary(span) ==
  IF Occurrences(span) = {} THEN 0
  ELSE LET i == Min(Occurrences(span))
       IN IF i + 2 <= Len(span) /\ span[i + 2] \in {"n", "e"} THEN i ELSE 0

-----------------------------------------------------------------------------
(* go() *)

\* The loop for the first boundary does not notice the end of the body.
FirstRead ==
  /\ at = "boundary"
  /\ \E n \in 0..BufferSize :
       LET span == Span(n)
       IN /\ Read(n) /\ DoRead(n)
          /\ \/ /\ Len(span) < FirstBoundary
                /\ at' = (IF exhausted THEN "spins" ELSE at) /\ buffer' = span /\ UNCHANGED consumed
             \/ /\ Len(span) >= FirstBoundary
                /\ IF SubSeq(span, 1, 2) = <<"-", "n">>
                   THEN /\ at' = "headers" /\ buffer' = SubSeq(span, 3, Len(span))
                        /\ consumed' = FirstBoundary
                   ELSE at' = "400" /\ UNCHANGED <<buffer, consumed>>
  /\ UNCHANGED <<form, part, parts, used, multi, given, starved>>

\* The loop over the parts ends when all of the body is consumed.
LoopEnds ==
  /\ at = "headers" /\ part = NoPart /\ consumed >= ContentLength
  /\ at' = IF consumed > ContentLength THEN "413" ELSE "end"
  /\ UNCHANGED <<form, rest, buffer, exhausted, part, parts, consumed, used, multi, given, starved>>

TooManyParts ==
  /\ at = "headers" /\ part = NoPart /\ consumed < ContentLength
  /\ parts >= MaxParts
  /\ at' = "413"
  /\ UNCHANGED <<form, rest, buffer, exhausted, part, parts, consumed, used, multi, given, starved>>

\* The head of a part; a read that brings nothing ends it, unless it is the
\* first.  What the head says decides whether the part is read.
Waiting == [NoPart EXCEPT !.head = "waiting"]
ReadHead ==
  /\ at = "headers"
  /\ part = NoPart => consumed < ContentLength /\ parts < MaxParts
  /\ \E n \in 0..BufferSize :
       LET span == Span(n)
           head == Heads[span[1]]
       IN /\ Read(n) /\ DoRead(n)
          /\ parts' = IF part = NoPart THEN parts + 1 ELSE parts
          /\ \/ /\ span = <<>>
                /\ IF part = NoPart THEN at' = at /\ part' = Waiting
                                    ELSE at' = "400" /\ UNCHANGED part
                /\ UNCHANGED <<buffer, consumed>>
             \/ /\ span # <<>>
                /\ buffer' = Tail(span) /\ consumed' = consumed + 1
                /\ IF head.error # "" THEN at' = head.error /\ UNCHANGED part
                   ELSE at' = "content" /\ part' = [NoPart EXCEPT !.head = span[1]]
  /\ UNCHANGED <<form, used, multi, given, starved>>

\* PartReader: what cannot belong to a boundary is passed on, ...
PassesTooMuch == FullBoundary - 2  \* seeded fault
KeptBack == FullBoundary
MaxSize == IF Heads[part.head].file THEN MaxFile ELSE MaxField
Handled == ~Heads[part.head].file \/ Heads[part.head].name \in FileNames

\* The handler of a file is moved away by its first part.
HandlerGone == Heads[part.head].file /\ Handled /\ Heads[part.head].name \in used

\* ... but a part that begins with less than a boundary in the buffer wraps the
\* size around, which counts as too large; draining moves memory before that.
PartStarves ==
  /\ at = "content"
  /\ \E n \in 0..BufferSize :
       /\ Read(n) /\ DoRead(n)
       /\ FindBoundary(Span(n)) = 0 /\ Len(Span(n)) < FullBoundary
       /\ buffer' = Span(n)
  /\ at' \in IF Handled THEN {"413"} ELSE {"413", "crash"}
  /\ starved' = TRUE
  /\ UNCHANGED <<form, part, parts, consumed, used, multi, given>>

PassOn ==
  /\ at = "content"
  /\ \E n \in 0..BufferSize :
       LET span == Span(n)
           some == Len(span) - KeptBack
           total == part.total + some
       IN /\ Read(n) /\ DoRead(n)
          /\ FindBoundary(span) = 0 /\ Len(span) >= FullBoundary
          /\ part' = [part EXCEPT !.value = @ \o SubSeq(span, 1, some), !.total = total]
          /\ buffer' = SubSeq(span, some + 1, Len(span))
          /\ at' = CASE total > MaxSize -> "413"
                     [] total <= MaxSize /\ HandlerGone -> "crash"
                     [] exhausted /\ some = 0 /\ ~(total > MaxSize \/ HandlerGone) -> "spins"
                     [] OTHER -> at
  /\ UNCHANGED <<form, parts, consumed, used, multi, given, starved>>

\* The boundary ends the part: the handler has been given all of it, a field
\* is given to its handler at once, or at the end if that wants all of them.
EndOfPart ==
  /\ at = "content"
  /\ \E n \in 0..BufferSize :
       LET span == Span(n)
           i == FindBoundary(span)
           total == part.total + i - 1 + FullBoundary
           value == part.value \o SubSeq(span, 1, i - 1)
           h == Heads[part.head]
           last == span[i + 2] = "e"
       IN /\ Read(n) /\ DoRead(n) /\ i # 0
          /\ buffer' = SubSeq(span, i + FullBoundary, Len(span))
          /\ IF total > MaxSize THEN at' = "413" /\ UNCHANGED <<part, consumed, used, multi, given>>
             ELSE IF HandlerGone THEN at' = "crash" /\ UNCHANGED <<part, consumed, used, multi, given>>
             ELSE /\ part' = NoPart
                  /\ consumed' = IF last /\ ~Handled THEN consumed ELSE consumed + total
                  /\ at' = IF ~last THEN "headers"
                           ELSE IF consumed' > ContentLength THEN "413" ELSE "end"
                  /\ used' = IF h.file THEN used \cup {h.name} ELSE used
                  /\ given' = IF h.name \in (IF h.file THEN FileNames ELSE FieldNames)
                              THEN Append(given, <<h.name, value>>) ELSE given
                  /\ multi' = IF ~h.file /\ h.name \in MultiNames \ FieldNames THEN Append(multi, value) ELSE multi
  /\ UNCHANGED <<form, parts, starved>>

Finish ==
  /\ at = "end"
  /\ at' = "ok"
  /\ given' = IF multi = <<>> THEN given ELSE Append(given, <<"all">> \o multi)
  /\ UNCHANGED <<form, rest, buffer, exhausted, part, parts, consumed, used, multi, starved>>

Next == FirstRead \/ LoopEnds \/ TooManyParts \/ ReadHead \/ PartStarves \/ PassOn \/ EndOfPart \/ Finish

-----------------------------------------------------------------------------
(* Properties *)

\* However the body is cut into pieces, a form that is accepted has reached the
\* handlers part by part and symbol by symbol; the parser runs in circles only
\* on a body that ends early or has the boundary's text in its data; and it
\* calls a form too large only when it is, or when a piece was so short that a
\* part began with less than a boundary in the buffer.
PartsOf(f, wanted(_)) ==
  LET chosen == SelectSeq(f.parts, LAMBDA p : wanted(Heads[p[1]]))
  IN [i \in 1..Len(chosen) |-> <<Heads[chosen[i][1]].name, chosen[i][2]>>]
Expected(f) ==
  LET many == PartsOf(f, LAMBDA h : ~h.file /\ h.name \in MultiNames \ FieldNames)
  IN PartsOf(f, LAMBDA h : h.name \in (IF h.file THEN FileNames ELSE FieldNames))
       \o IF many = <<>> THEN <<>> ELSE <<<<"all">> \o [i \in 1..Len(many) |-> many[i][2]]>>
LooksLikeBoundary(f) == \E i \in 1..Len(f.parts) : Occurrences(f.parts[i][2] \o <<"n">>) # {}
TooLarge(f) ==
  \/ Len(f.parts) > MaxParts
  \/ \E i \in 1..Len(f.parts) :
       Len(f.parts[i][2]) + FullBoundary > (IF Heads[f.parts[i][1]].file THEN MaxFile ELSE MaxField)
PartsDelivered ==
  /\ at = "ok" /\ form.cut = 0 /\ ~LooksLikeBoundary(form) => given = Expected(form)
  /\ at = "spins" => form.cut > 0 \/ LooksLikeBoundary(form)
  /\ at = "413" => starved \/ TooLarge(form) \/ LooksLikeBoundary(form)
=============================================================================
