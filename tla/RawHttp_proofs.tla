--------------------------- MODULE RawHttp_proofs ---------------------------
(***************************************************************************)
(* Theorems about RawHttp for every byte stream, every table of requests   *)
(* and every limit: no byte overtakes another on its way from the socket,  *)
(* what one request leaves buffered never exceeds the limit on the header  *)
(* section of the next, and the reads into which the stream is cut decide  *)
(* nothing.                                                                *)
(***************************************************************************)
EXTENDS RawHttpPieces, SequenceTheorems, WellFoundedInduction, TLAPS

-----------------------------------------------------------------------------
(* Sequences of bytes.                                                     *)

\* A nonempty set of numbers has a least one.
LEMMA Least ==
  ASSUME NEW T \in SUBSET Nat, T # {}
  PROVE  \E i \in T : \A j \in T : i <= j
<1>1. PICK i \in T : \A j \in T : ~(<<j, i>> \in OpToRel(<, Nat))
  BY NatLessThanWellFounded, WFMin
<1>2. \A j \in T : ~(j < i)
  BY <1>1 DEF OpToRel
<1> QED
  BY <1>2

\* Index is a match or 0, and 0 only when there is none.
LEMMA IndexFacts ==
  ASSUME NEW s \in Bytes, NEW p \in Bytes, p # <<>>
  PROVE  /\ Index(s, p) \in Nat
         /\ Index(s, p) > 0 =>
              /\ Index(s, p) - 1 + Len(p) <= Len(s)
              /\ SubSeq(s, Index(s, p), Index(s, p) + Len(p) - 1) = p
         /\ Index(s, p) = 0 =>
              \A i \in 1 .. Len(s) - Len(p) + 1 : SubSeq(s, i, i + Len(p) - 1) # p
<1> DEFINE at == {i \in 1 .. Len(s) - Len(p) + 1 : SubSeq(s, i, i + Len(p) - 1) = p}
<1>1. Len(s) \in Nat /\ Len(p) \in Nat
  BY DEF Bytes
<1>2. at \in SUBSET Nat
  BY <1>1
<1>3. CASE at = {}
  <2>1. Index(s, p) = 0
    BY <1>3 DEF Index
  <2>2. \A i \in 1 .. Len(s) - Len(p) + 1 : SubSeq(s, i, i + Len(p) - 1) # p
    BY <1>3
  <2>3. Index(s, p) \in Nat /\ ~(Index(s, p) > 0)
    BY <2>1
  <2> QED
    BY <2>2, <2>3, Zenon
<1>4. CASE at # {}
  <2>1. \E i \in at : \A j \in at : i <= j
    BY <1>2, <1>4, Least
  <2>2. Index(s, p) \in at
    BY <2>1, <1>4 DEF Index
  <2> QED
    BY <2>2, <1>1
<1> QED
  BY <1>3, <1>4

\* What is left of s without its first n bytes, and those bytes.
LEMMA CutFacts ==
  ASSUME NEW s \in Bytes, NEW n \in 0 .. Len(s)
  PROVE  /\ Drop(s, n) \in Bytes /\ Len(Drop(s, n)) = Len(s) - n
         /\ SubSeq(s, 1, n) \in Bytes /\ Len(SubSeq(s, 1, n)) = n
<1>1. s \in Seq(Letter) /\ Len(s) \in Nat
  BY DEF Bytes
<1>2. SubSeq(s, n + 1, Len(s)) \in Seq(Letter) /\ SubSeq(s, 1, n) \in Seq(Letter)
  BY <1>1, SubSeqProperties
<1>3. Len(SubSeq(s, n + 1, Len(s))) = Len(s) - n
  BY <1>1, SubSeqProperties
<1>4. Len(SubSeq(s, 1, n)) = n
  BY <1>1, SubSeqProperties
<1> QED
  BY <1>2, <1>3, <1>4 DEF Drop, Bytes

\* Joining two sequences of bytes.
LEMMA JoinFacts ==
  ASSUME NEW s \in Bytes, NEW t \in Bytes
  PROVE  s \o t \in Bytes /\ Len(s \o t) = Len(s) + Len(t)
  BY ConcatProperties DEF Bytes

\* A piece of s is a piece of s and whatever follows it.
LEMMA PieceOfJoin ==
  ASSUME NEW s \in Bytes, NEW t \in Bytes, NEW i \in Nat, i > 0, i + 1 <= Len(s)
  PROVE  SubSeq(s \o t, i, i + 1) = SubSeq(s, i, i + 1)
<1>1. s \in Seq(Letter) /\ t \in Seq(Letter) /\ Len(s) \in Nat
  BY DEF Bytes
<1>2. i \in 1 .. Len(s) /\ i + 1 \in 1 .. Len(s)
  BY <1>1
<1> QED
  BY <1>1, <1>2, SubSeqOfConcat1

\* The two separators.
LEMMA Separators ==
  /\ CRLF \in Bytes /\ Len(CRLF) = 2 /\ CRLF # <<>>
  /\ Blank \in Bytes /\ Len(Blank) = 4 /\ Blank # <<>>
<1>1. CRLF \in Bytes /\ Len(CRLF) = 2
  BY RawHttpAssumption DEF CRLF, Bytes
<1>2. Blank \in Bytes /\ Len(Blank) = 4
  <2>1. CRLF \o CRLF \in Bytes /\ Len(CRLF \o CRLF) = Len(CRLF) + Len(CRLF)
    BY <1>1, JoinFacts
  <2> QED
    BY <2>1, <1>1 DEF Blank
<1> QED
  BY <1>1, <1>2

\* A read delivers at most limit of the bytes under way.
LEMMA ReadFacts ==
  ASSUME NEW limit \in Nat, NEW r \in Results(limit), wire \in Bytes,
         end \in {"eof", "reset", "open"}
  PROVE  /\ r.n \in 0 .. Len(wire) /\ r.n <= limit
         /\ r.err \in {"none", "eof", "reset"}
<1>1. Len(wire) \in Nat
  BY DEF Bytes
<1>2. r \in [n : 0 .. Smaller(limit, Len(wire)), err : {"none", end}]
  BY DEF Results
<1>3. r.err # "none" => end # "open"
  BY DEF Results
<1> QED
  BY <1>1, <1>2, <1>3 DEF Smaller

-----------------------------------------------------------------------------
(* The inductive invariant.                                                *)

\* What is being filled has been allocated, and the chunk being read still fits,
\* with what is already in the body.
Fitting ==
  /\ pc = "fill" => size <= MaxAlloc
  /\ pc \in {"take", "fill"} /\ after = "chunk" => size <= MaxInt - Len(body)
  /\ pc = "chunk" => Len(data) <= MaxInt - Len(body)
  /\ pc \in {"take", "fill"} /\ after = "ending" => Len(chunk) <= MaxInt - Len(body)
  /\ pc = "ending" => Len(chunk) <= MaxInt - Len(body)

\* The buffer is within the limit wherever the connection may still come to
\* read a header section, except in a chunk line, which has no limit: there it
\* is what follows the line.
Leftover ==
  /\ pc \in {"head", "take", "fill", "body", "chunk", "ending", "respond"} =>
       Len(buffer) <= MaxHeader
  /\ pc = "size" /\ LineEnd > 0 => Len(buffer) - LineEnd - 1 <= MaxHeader

IInv == TypeOK /\ Fitting /\ Leftover /\ FillsFromEmpty

-----------------------------------------------------------------------------
(* Types.                                                                  *)

\* What a fetch does to the types it touches.
LEMMA FetchTypes ==
  ASSUME NEW limit \in Nat, TypeOK, Fetch(limit)
  PROVE  /\ wire' \in Bytes /\ buffer' \in Bytes
         /\ readErr' \in {"none", "eof", "reset"}
         /\ Len(buffer') <= Len(buffer) + limit
<1>1. PICK r \in Results(limit) :
        /\ buffer' = buffer \o SubSeq(wire, 1, r.n)
        /\ wire' = Drop(wire, r.n)
        /\ readErr' = r.err
  BY DEF Fetch
<1>2. wire \in Bytes /\ buffer \in Bytes /\ end \in {"eof", "reset", "open"}
  BY DEF TypeOK
<1>3. r.n \in 0 .. Len(wire) /\ r.n <= limit /\ r.err \in {"none", "eof", "reset"}
  BY <1>2, ReadFacts
<1>4. /\ Drop(wire, r.n) \in Bytes
      /\ SubSeq(wire, 1, r.n) \in Bytes /\ Len(SubSeq(wire, 1, r.n)) = r.n
  BY <1>2, <1>3, CutFacts
<1>5. /\ buffer \o SubSeq(wire, 1, r.n) \in Bytes
      /\ Len(buffer \o SubSeq(wire, 1, r.n)) = Len(buffer) + r.n
  BY <1>2, <1>4, JoinFacts
<1>6. Len(buffer) \in Nat
  BY <1>2 DEF Bytes
<1> QED
  BY <1>1, <1>3, <1>4, <1>5, <1>6

\* What a reply leaves the types it touches.
LEMMA WriteTypes ==
  ASSUME TypeOK, NEW next, NEW reply \in Response, Write(reply, next)
  PROVE  /\ responses' \in Seq(Response)
         /\ writeFailed' \in BOOLEAN
         /\ pc' \in {next, "closed"}
<1>1. responses \in Seq(Response) /\ writeFailed \in BOOLEAN
  BY DEF TypeOK
<1>2. Append(responses, reply) \in Seq(Response)
  BY <1>1
<1> QED
  BY <1>1, <1>2 DEF Write, Goto

\* A text of one piece.
LEMMA OfOne ==
  ASSUME NEW S, NEW word \in S
  PROVE  <<word>> \in Seq(S)
  OBVIOUS

\* Every reply has one of the four statuses.
LEMMA ReplyTypes ==
  ASSUME TypeOK, NEW q
  PROVE  route(q) \in Response /\ BadRequest \in Response
<1>1. body \in Seq(Text)
  BY SeqMonotonic DEF TypeOK, Bytes, Text
<1>2. Reply(200, body) \in Response
  BY <1>1 DEF Reply, Response
<1>3. Reply(200, <<"Hello World!">>) \in Response
  <2>1. "Hello World!" \in Text
    BY DEF Text
  <2>2. <<"Hello World!">> \in Seq(Text)
    BY <2>1, OfOne
  <2> QED
    BY <2>2 DEF Reply, Response
<1>4. Reply(400, <<"Bad Request">>) \in Response
  <2>1. "Bad Request" \in Text
    BY DEF Text
  <2>2. <<"Bad Request">> \in Seq(Text)
    BY <2>1, OfOne
  <2> QED
    BY <2>2 DEF Reply, Response
<1>5. Reply(405, <<"Method Not Allowed">>) \in Response
  <2>1. "Method Not Allowed" \in Text
    BY DEF Text
  <2>2. <<"Method Not Allowed">> \in Seq(Text)
    BY <2>1, OfOne
  <2> QED
    BY <2>2 DEF Reply, Response
<1>6. Reply(404, <<"Not Found">>) \in Response
  <2>1. "Not Found" \in Text
    BY DEF Text
  <2>2. <<"Not Found">> \in Seq(Text)
    BY <2>1, OfOne
  <2> QED
    BY <2>2 DEF Reply, Response
<1> QED
  BY <1>2, <1>3, <1>4, <1>5, <1>6 DEF route, BadRequest
\* Where the blank line and the chunk line end, in whatever is buffered.
LEMMA Ends ==
  ASSUME buffer \in Bytes
  PROVE  /\ Len(buffer) \in Nat
         /\ HeadEnd \in Nat
         /\ HeadEnd > 0 => HeadEnd + 3 <= Len(buffer)
         /\ LineEnd \in Nat
         /\ LineEnd > 0 => LineEnd + 1 <= Len(buffer)
<1>1. Len(buffer) \in Nat
  BY DEF Bytes
<1>2. Index(buffer, Blank) \in Nat
  BY IndexFacts, Separators
<1>3. Index(buffer, Blank) > 0 => Index(buffer, Blank) - 1 + Len(Blank) <= Len(buffer)
  BY IndexFacts, Separators
<1>4. Index(buffer, CRLF) \in Nat
  BY IndexFacts, Separators
<1>5. Index(buffer, CRLF) > 0 => Index(buffer, CRLF) - 1 + Len(CRLF) <= Len(buffer)
  BY IndexFacts, Separators
<1>6. Len(Blank) = 4 /\ Len(CRLF) = 2
  BY Separators
<1> QED
  BY <1>1, <1>2, <1>3, <1>4, <1>5, <1>6 DEF HeadEnd, LineEnd

-----------------------------------------------------------------------------
(* Each action preserves the invariant: the parser.                        *)

LEMMA ReadHeadStep == ASSUME IInv, ReadHead PROVE IInv'
<1>1. MaxHeader \in Nat /\ ReadSize \in Nat /\ Len(buffer) \in Nat
  BY RawHttpAssumption DEF IInv, TypeOK, Bytes
<1> DEFINE limit == Smaller(ReadSize, MaxHeader - Len(buffer))
<1>2. limit \in Nat /\ Len(buffer) + limit <= MaxHeader
  BY <1>1 DEF ReadHead, Smaller
<1>3. Fetch(limit)
  BY DEF ReadHead
<1> HIDE DEF limit
<1>4. /\ wire' \in Bytes /\ buffer' \in Bytes
      /\ readErr' \in {"none", "eof", "reset"}
      /\ Len(buffer') <= Len(buffer) + limit
  BY <1>2, <1>3, FetchTypes DEF IInv
<1>5. UNCHANGED <<end, pc, request, body, size, data, after, chunk, responses, writeFailed>>
  BY <1>3 DEF Fetch, readVars
<1>6. pc = "head"
  BY DEF ReadHead, Seeking
<1>7. Len(buffer') \in Nat
  BY <1>4 DEF Bytes
<1>8. TypeOK'
  BY <1>4, <1>5 DEF IInv, TypeOK
<1>9. Leftover'
  BY <1>1, <1>2, <1>4, <1>5, <1>6, <1>7 DEF Leftover
<1> QED
  BY <1>5, <1>6, <1>8, <1>9 DEF IInv, Fitting, FillsFromEmpty

\* The steps that only give the connection up.
LEMMA EndStep ==
  ASSUME IInv, HeadTooLong \/ HeadEnded \/ ChunkLineEnded \/ Panic
  PROVE  IInv'
<1>1. UNCHANGED <<end, wire, buffer, readErr, request, body, size, data, after,
                  chunk, responses, writeFailed>>
  BY DEF HeadTooLong, HeadEnded, ChunkLineEnded, Panic, Idle, SameRequest, readVars
<1>2. pc' \in {"reject", "closed", "dead"}
  BY DEF HeadTooLong, HeadEnded, ChunkLineEnded, Panic, Reject, Goto
<1>3. TypeOK'
  BY <1>1, <1>2 DEF IInv, TypeOK
<1> QED
  BY <1>2, <1>3 DEF IInv, Fitting, Leftover, FillsFromEmpty

LEMMA ParseHeadStep == ASSUME IInv, ParseHead PROVE IInv'
<1> USE DEF IInv
<1>1. /\ UNCHANGED <<end, wire, responses, writeFailed, readErr, body, chunk>>
      /\ pc = "head"
  BY DEF ParseHead, Idle
<1>2. buffer \in Bytes /\ Len(buffer) \in Nat /\ HeadEnd \in Nat
  BY Ends DEF TypeOK
<1>3. CASE ~WellFormed
  <2>1. pc' = "reject" /\ UNCHANGED <<buffer, request, size, data, after>>
    BY <1>3 DEF ParseHead, Reject, Goto, readVars
  <2>2. TypeOK'
    BY <1>1, <2>1 DEF TypeOK
  <2> QED
    BY <2>1, <2>2 DEF Fitting, Leftover, FillsFromEmpty
<1>4. CASE WellFormed
  <2> DEFINE q == Request[buffer[1]]
  <2>1. HeadEnd > 0 /\ HeadEnd + 3 <= Len(buffer) /\ Len(buffer) <= MaxHeader
    BY <1>1, Ends DEF ParseHead, TypeOK, Leftover
  <2>2. buffer' = Drop(buffer, HeadEnd + 3)
    <3>1. HeadEnd - 1 + Len(Blank) = HeadEnd + 3
      BY <1>2, Separators
    <3>2. buffer' = Drop(buffer, HeadEnd - 1 + Len(Blank))
      BY <1>4 DEF ParseHead, Consume
    <3> QED
      BY <3>1, <3>2
  <2>3. buffer' \in Bytes /\ Len(buffer') \in Nat /\ Len(buffer') <= MaxHeader
    <3>1. HeadEnd + 3 \in 0 .. Len(buffer)
      BY <1>2, <2>1
    <3>2. /\ Drop(buffer, HeadEnd + 3) \in Bytes
          /\ Len(Drop(buffer, HeadEnd + 3)) = Len(buffer) - (HeadEnd + 3)
      BY <1>2, <3>1, CutFacts
    <3> QED
      BY <1>2, <2>1, <2>2, <3>1, <3>2, RawHttpAssumption
  <2>4. buffer[1] \in DOMAIN Request /\ request' = buffer[1]
    BY <1>4 DEF ParseHead, WellFormed
  <2>5. q.cl \in Seq(Int)
    BY <2>4, RawHttpAssumption
  <2>6. /\ LineEnd' \in Nat
        /\ LineEnd' > 0 => Len(buffer') - LineEnd' - 1 <= MaxHeader
    <3>1. LineEnd' = Index(buffer', CRLF)
      BY DEF LineEnd
    <3>2. Index(buffer', CRLF) \in Nat
      BY <2>3, IndexFacts, Separators
    <3> QED
      BY <2>3, <3>1, <3>2, RawHttpAssumption
  <2>7. CASE LengthKnown(q) /\ Want(ContentLength(q), "body")
    <3>1. ContentLength(q) \in 0 .. MaxInt
      BY <2>5, <2>7, RawHttpAssumption DEF LengthKnown, ContentLength
    <3>2. /\ size' \in 0 .. MaxInt /\ data' = <<>> /\ after' = "body"
          /\ pc' = "take"
      BY <2>7, <3>1 DEF Want, Goto
    <3>3. data' \in Bytes /\ Len(data') <= size'
      BY <3>2, RawHttpAssumption DEF Bytes
    <3>4. TypeOK'
      BY <1>1, <2>3, <2>4, <3>2, <3>3 DEF TypeOK
    <3> QED
      BY <2>3, <3>2, <3>4 DEF Fitting, Leftover, FillsFromEmpty
  <2>8. CASE Goto("size") /\ UNCHANGED readVars
    <3>1. pc' = "size" /\ UNCHANGED <<size, data, after>>
      BY <2>8 DEF Goto, readVars
    <3>2. TypeOK'
      BY <1>1, <2>3, <2>4, <3>1 DEF TypeOK
    <3> QED
      BY <2>6, <3>1, <3>2 DEF Fitting, Leftover, FillsFromEmpty
  <2>9. CASE Reject /\ UNCHANGED readVars
    <3>1. pc' = "reject" /\ UNCHANGED <<size, data, after>>
      BY <2>9 DEF Reject, Goto, readVars
    <3>2. TypeOK'
      BY <1>1, <2>3, <2>4, <3>1 DEF TypeOK
    <3> QED
      BY <3>1, <3>2 DEF Fitting, Leftover, FillsFromEmpty
  <2> QED
    BY <1>4, <2>7, <2>8, <2>9 DEF ParseHead
<1> QED
  BY <1>3, <1>4

-----------------------------------------------------------------------------
(* readBytes.                                                              *)

LEMMA TakeStep == ASSUME IInv, TakeBytes PROVE IInv'
<1> USE DEF IInv
<1> DEFINE copied == Smaller(size, Len(buffer))
<1>1. /\ UNCHANGED <<end, wire, responses, writeFailed, readErr, request, body,
                     chunk, size, after>>
      /\ pc = "take" /\ size <= MaxAlloc
  BY DEF TakeBytes, Idle, SameRequest
<1>2. buffer \in Bytes /\ Len(buffer) \in Nat /\ size \in Nat
  BY RawHttpAssumption DEF TypeOK, Bytes
<1>3. copied \in 0 .. Len(buffer) /\ copied <= size
  BY <1>2 DEF Smaller
<1>4. data' = SubSeq(buffer, 1, copied) /\ buffer' = Drop(buffer, copied)
  BY DEF TakeBytes
<1>5. /\ data' \in Bytes /\ Len(data') = copied
      /\ buffer' \in Bytes /\ Len(buffer') = Len(buffer) - copied
  BY <1>2, <1>3, <1>4, CutFacts
<1>6. pc' = IF copied = size THEN after ELSE IF readErr # "none" THEN "reject" ELSE "fill"
  BY DEF TakeBytes, Goto
<1>7. pc' = "fill" => readErr = "none" /\ Len(buffer') = 0
  BY <1>2, <1>3, <1>5, <1>6 DEF Smaller, TypeOK
<1>8. pc' = "fill" => buffer' = <<>>
  BY <1>5, <1>7, EmptySeq DEF Bytes
<1> HIDE DEF copied
<1>9. TypeOK'
  BY <1>1, <1>3, <1>5, <1>6 DEF TypeOK
<1>10. Len(buffer') <= MaxHeader
  BY <1>1, <1>2, <1>3, <1>5, RawHttpAssumption DEF Leftover
<1>11. pc' # "size" /\ pc' # "take"
  BY <1>6 DEF TypeOK
<1>12. Fitting'
  BY <1>1, <1>3, <1>5, <1>6 DEF Fitting, TypeOK
<1> QED
  BY <1>1, <1>7, <1>8, <1>9, <1>10, <1>11, <1>12 DEF Leftover, FillsFromEmpty

LEMMA FillStep == ASSUME IInv, FillBytes PROVE IInv'
<1> USE DEF IInv
<1>1. /\ UNCHANGED <<end, buffer, readErr, responses, writeFailed, request, body,
                     chunk, size, after>>
      /\ pc = "fill"
  BY DEF FillBytes, SameRequest
<1>2. /\ wire \in Bytes /\ data \in Bytes /\ Len(data) \in Nat /\ size \in Nat
      /\ size - Len(data) \in Nat /\ end \in {"eof", "reset", "open"}
  BY RawHttpAssumption DEF TypeOK, Bytes
<1>3. PICK r \in Results(size - Len(data)) :
        /\ data' = data \o SubSeq(wire, 1, r.n)
        /\ wire' = Drop(wire, r.n)
        /\ pc' = IF Len(data) + r.n = size THEN after
                 ELSE IF r.err # "none" THEN "reject" ELSE "fill"
  BY DEF FillBytes, Goto
<1>4. r.n \in 0 .. Len(wire) /\ r.n <= size - Len(data)
  BY <1>2, ReadFacts
<1>5. /\ wire' \in Bytes
      /\ SubSeq(wire, 1, r.n) \in Bytes /\ Len(SubSeq(wire, 1, r.n)) = r.n
  BY <1>2, <1>3, <1>4, CutFacts
<1>6. data' \in Bytes /\ Len(data') = Len(data) + r.n
  BY <1>2, <1>3, <1>5, JoinFacts
<1>7. Len(data') <= size
  BY <1>2, <1>4, <1>5, <1>6
<1>8. pc' \in {after, "reject", "fill"}
  BY <1>3
<1>9. TypeOK'
  BY <1>1, <1>5, <1>6, <1>7, <1>8 DEF TypeOK
<1>10. Fitting'
  <2>1. Len(data') \in Nat /\ MaxInt - Len(body) \in Int
    BY <1>6, RawHttpAssumption DEF TypeOK, Bytes
  <2> QED
    BY <1>1, <1>2, <1>7, <1>8, <2>1 DEF Fitting, TypeOK
<1>11. Leftover'
  BY <1>1, <1>8 DEF Leftover, TypeOK
<1> QED
  BY <1>1, <1>8, <1>9, <1>10, <1>11 DEF FillsFromEmpty

LEMMA WholeBodyStep == ASSUME IInv, WholeBody PROVE IInv'
<1> USE DEF IInv
<1>1. /\ UNCHANGED <<end, wire, buffer, readErr, responses, writeFailed, request,
                     chunk, size, data, after>>
      /\ pc = "body" /\ pc' = "respond" /\ body' = data
  BY DEF WholeBody, Idle, Goto, readVars
<1>2. Len(data) \in Nat /\ Len(data) <= MaxInt
  BY RawHttpAssumption DEF TypeOK, Bytes
<1>3. TypeOK'
  BY <1>1, <1>2 DEF TypeOK
<1> QED
  BY <1>1, <1>3 DEF Fitting, Leftover, FillsFromEmpty

-----------------------------------------------------------------------------
(* readChunkedBody.                                                        *)

\* What is read behind a line's end is part of one read, so it is at most
\* ReadSize bytes: there was no line in what was buffered before.
LEMMA ReadChunkLineStep == ASSUME IInv, ReadChunkLine PROVE IInv'
<1> USE DEF IInv
<1>1. pc = "size" /\ LineEnd = 0 /\ Fetch(ReadSize) /\ ReadSize \in Nat
  BY RawHttpAssumption DEF ReadChunkLine
<1>2. UNCHANGED <<end, pc, request, body, size, data, after, chunk, responses, writeFailed>>
  BY <1>1 DEF Fetch, readVars
<1>3. /\ wire' \in Bytes /\ buffer' \in Bytes
      /\ readErr' \in {"none", "eof", "reset"}
      /\ Len(buffer') <= Len(buffer) + ReadSize
  BY <1>1, FetchTypes
<1>4. TypeOK'
  BY <1>2, <1>3 DEF TypeOK
<1>5. buffer \in Bytes /\ Len(buffer) \in Nat /\ Len(buffer') \in Nat
  BY <1>3 DEF TypeOK, Bytes
<1>6. ASSUME LineEnd' > 0
      PROVE  Len(buffer') - LineEnd' - 1 <= MaxHeader
  <2>1. LineEnd' = Index(buffer', CRLF)
    BY DEF LineEnd
  <2>2. LineEnd' \in Nat /\ SubSeq(buffer', LineEnd', LineEnd' + 1) = CRLF
    <3>1. Index(buffer', CRLF) \in Nat
      BY <1>3, IndexFacts, Separators
    <3>2. SubSeq(buffer', Index(buffer', CRLF), Index(buffer', CRLF) + Len(CRLF) - 1) = CRLF
      BY <1>3, <1>6, <2>1, IndexFacts, Separators
    <3>3. Index(buffer', CRLF) + Len(CRLF) - 1 = Index(buffer', CRLF) + 1
      BY <3>1, Separators
    <3> QED
      BY <2>1, <3>1, <3>2, <3>3
  <2>3. LineEnd' + 1 > Len(buffer)
    <3> SUFFICES ASSUME LineEnd' + 1 <= Len(buffer) PROVE FALSE
      BY <1>5, <2>2
    <3>1. PICK got \in Bytes : buffer' = buffer \o got
      <4>1. PICK r \in Results(ReadSize) : buffer' = buffer \o SubSeq(wire, 1, r.n)
        BY <1>1 DEF Fetch
      <4>2. r.n \in 0 .. Len(wire)
        BY <1>1, ReadFacts DEF TypeOK
      <4> QED
        BY <4>1, <4>2, CutFacts DEF TypeOK
    <3>2. SubSeq(buffer \o got, LineEnd', LineEnd' + 1) = SubSeq(buffer, LineEnd', LineEnd' + 1)
      BY <1>5, <1>6, <2>2, PieceOfJoin
    <3>3. SubSeq(buffer, LineEnd', LineEnd' + 1) = CRLF
      BY <2>2, <3>1, <3>2
    <3>4. \A i \in 1 .. Len(buffer) - Len(CRLF) + 1 :
            SubSeq(buffer, i, i + Len(CRLF) - 1) # CRLF
      BY <1>1, <1>5, IndexFacts, Separators DEF LineEnd
    <3>5. \A i \in 1 .. Len(buffer) - 1 : SubSeq(buffer, i, i + 1) # CRLF
      <4>1. Len(CRLF) = 2
        BY Separators
      <4> HIDE DEF CRLF
      <4>2. Len(buffer) - Len(CRLF) + 1 = Len(buffer) - 1
        BY <1>5, <4>1
      <4>3. \A i \in 1 .. Len(buffer) - 1 : i + Len(CRLF) - 1 = i + 1
        BY <1>5, <4>1
      <4> QED
        BY <3>4, <4>2, <4>3
    <3>6. LineEnd' \in 1 .. Len(buffer) - 1
      BY <1>5, <1>6, <2>2
    <3> QED
      BY <3>3, <3>5, <3>6
  <2> QED
    BY <1>3, <1>5, <2>2, <2>3, RawHttpAssumption
<1> QED
  BY <1>1, <1>2, <1>4, <1>6 DEF Fitting, Leftover, FillsFromEmpty

LEMMA ChunkSizeStep == ASSUME IInv, ChunkSize PROVE IInv'
<1> USE DEF IInv
<1> DEFINE n == Value(SubSeq(buffer, 1, LineEnd - 1))
<1>1. /\ UNCHANGED <<end, wire, responses, writeFailed, request, body, chunk, readErr>>
      /\ pc = "size" /\ LineEnd > 0 /\ buffer' = Drop(buffer, LineEnd + 1)
  BY DEF ChunkSize, Idle, SameRequest
<1>2. buffer \in Bytes /\ Len(buffer) \in Nat /\ LineEnd \in Nat /\ LineEnd + 1 <= Len(buffer)
  BY <1>1, Ends DEF TypeOK
<1>3. /\ buffer' \in Bytes /\ Len(buffer') \in Nat
      /\ Len(buffer') = Len(buffer) - (LineEnd + 1)
  <2>1. LineEnd + 1 \in 0 .. Len(buffer)
    BY <1>2
  <2>2. /\ Drop(buffer, LineEnd + 1) \in Bytes
        /\ Len(Drop(buffer, LineEnd + 1)) = Len(buffer) - (LineEnd + 1)
    BY <1>2, <2>1, CutFacts
  <2> QED
    BY <1>1, <1>2, <2>2
<1>4. Len(buffer') <= MaxHeader
  BY <1>1, <1>2, <1>3, RawHttpAssumption DEF Leftover
<1> HIDE DEF n
<1>5. CASE Fits(n) /\ Want(n, "chunk")
  <2>1. /\ size' = n /\ size' \in 0 .. MaxInt /\ size' <= MaxInt - Len(body)
        /\ data' = <<>> /\ after' = "chunk" /\ pc' = "take"
    BY <1>5 DEF Want, Goto, Fits
  <2>2. data' \in Bytes /\ Len(data') <= size'
    BY <2>1, RawHttpAssumption DEF Bytes
  <2>3. TypeOK'
    BY <1>1, <1>3, <2>1, <2>2 DEF TypeOK
  <2> QED
    BY <1>1, <1>4, <2>1, <2>3 DEF Fitting, Leftover, FillsFromEmpty
<1>6. CASE Reject /\ UNCHANGED readVars
  <2>1. pc' = "reject" /\ UNCHANGED <<size, data, after>>
    BY <1>6 DEF Reject, Goto, readVars
  <2>2. TypeOK'
    BY <1>1, <1>3, <2>1 DEF TypeOK
  <2> QED
    BY <2>1, <2>2 DEF Fitting, Leftover, FillsFromEmpty
<1> QED
  BY <1>5, <1>6 DEF ChunkSize, n

LEMMA ChunkReadStep == ASSUME IInv, ChunkRead PROVE IInv'
<1> USE DEF IInv
<1>1. /\ UNCHANGED <<end, wire, buffer, readErr, responses, writeFailed, request, body>>
      /\ pc = "chunk" /\ pc' = "take" /\ chunk' = data
      /\ size' = 2 /\ after' = "ending" /\ data' = <<>>
  BY DEF ChunkRead, Idle, Want, Goto
<1>2. data' \in Bytes /\ Len(data') <= size' /\ size' \in 0 .. MaxInt
  BY <1>1, RawHttpAssumption DEF Bytes
<1>3. TypeOK'
  BY <1>1, <1>2 DEF TypeOK
<1> QED
  BY <1>1, <1>3 DEF Fitting, Leftover, FillsFromEmpty

LEMMA ChunkEndingStep == ASSUME IInv, ChunkEnding PROVE IInv'
<1> USE DEF IInv
<1>1. /\ UNCHANGED <<end, wire, buffer, readErr, responses, writeFailed, request,
                     chunk, size, data, after>>
      /\ pc = "ending"
  BY DEF ChunkEnding, Idle, readVars
<1>2. body \in Bytes /\ chunk \in Bytes /\ Len(body) \in Nat /\ Len(chunk) \in Nat
  BY DEF TypeOK, Bytes
<1>3. body' \in Bytes /\ Len(body') <= MaxInt /\ pc' \in {"reject", "respond", "size", "dead"}
  <2>1. body \o chunk \in Bytes /\ Len(body \o chunk) = Len(body) + Len(chunk)
    BY <1>2, JoinFacts
  <2>2. Len(chunk) <= MaxInt - Len(body)
    BY <1>1 DEF Fitting
  <2>3. Len(body \o chunk) <= MaxInt
    BY <1>2, <2>1, <2>2, RawHttpAssumption
  <2>4. body' \in {body, body \o chunk} /\ pc' \in {"reject", "respond", "size", "dead"}
    BY DEF ChunkEnding, AppendChunk, Reject, Goto
  <2> QED
    BY <1>2, <2>1, <2>3, <2>4 DEF TypeOK
<1>4. TypeOK'
  BY <1>1, <1>3 DEF TypeOK
<1>5. LineEnd' = LineEnd
  BY <1>1 DEF LineEnd
<1>6. Leftover'
  <2>1. Len(buffer) <= MaxHeader /\ LineEnd \in Nat /\ Len(buffer) \in Nat
    BY <1>1, Ends DEF TypeOK, Leftover
  <2> QED
    BY <1>1, <1>5, <2>1, RawHttpAssumption DEF Leftover
<1> QED
  BY <1>3, <1>4, <1>6 DEF Fitting, FillsFromEmpty

-----------------------------------------------------------------------------
(* HandleConnection.                                                       *)

LEMMA ReplyStep == ASSUME IInv, Respond \/ Refuse PROVE IInv'
<1> USE DEF IInv
<1>1. /\ UNCHANGED <<end, wire, buffer, readErr, size, data, after>>
      /\ request' = "none" /\ body' = <<>> /\ chunk' = <<>>
  BY DEF Respond, Refuse, readVars
<1>2. body' \in Bytes /\ chunk' \in Bytes /\ Len(body') <= MaxInt
  BY <1>1, RawHttpAssumption DEF Bytes
<1>3. /\ responses' \in Seq(Response) /\ writeFailed' \in BOOLEAN
      /\ pc' \in {"head", "closed"} /\ (pc' = "head" => pc = "respond")
  <2>1. CASE Respond
    <3> DEFINE next == IF shouldClose(Request[request]) THEN "closed" ELSE "head"
    <3>1. Write(route(Request[request]), next) /\ pc = "respond"
      BY <2>1 DEF Respond
    <3>2. route(Request[request]) \in Response
      BY ReplyTypes
    <3>3. next \in {"head", "closed"}
      OBVIOUS
    <3> HIDE DEF next
    <3> QED
      BY <3>1, <3>2, <3>3, WriteTypes
  <2>2. CASE Refuse
    <3>1. Write(BadRequest, "closed")
      BY <2>2 DEF Refuse
    <3>2. BadRequest \in Response
      BY ReplyTypes
    <3> QED
      BY <3>1, <3>2, WriteTypes
  <2> QED
    BY <2>1, <2>2
<1>4. TypeOK'
  BY <1>1, <1>2, <1>3 DEF TypeOK
<1> QED
  BY <1>1, <1>3, <1>4 DEF Fitting, Leftover, FillsFromEmpty

-----------------------------------------------------------------------------
(* The theorems.                                                           *)

\* The invariant holds at first and every step keeps it.
LEMMA Inductive ==
  /\ Init => IInv
  /\ IInv /\ [Next]_vars => IInv'
<1>1. ASSUME Init PROVE IInv
  <2>1. PICK stream \in Bytes : InitFor(stream)
    BY <1>1 DEF Init
  <2>2. <<>> \in Bytes /\ Len(<<>>) = 0 /\ <<>> \in Seq(Response)
    BY DEF Bytes
  <2>3. TypeOK
    <3>1. /\ wire \in Bytes /\ buffer = <<>> /\ body = <<>> /\ chunk = <<>>
          /\ data = <<>> /\ responses = <<>>
      BY <2>1 DEF InitFor
    <3>2. /\ end \in {"eof", "reset", "open"} /\ readErr = "none" /\ pc = "head"
          /\ after = "body" /\ size = 0 /\ request = "none" /\ writeFailed = FALSE
      BY <2>1 DEF InitFor
    <3>3. 0 <= MaxInt /\ 0 \in 0 .. MaxInt
      BY RawHttpAssumption
    <3>4. buffer \in Bytes /\ body \in Bytes /\ chunk \in Bytes /\ data \in Bytes
      BY <2>2, <3>1
    <3>5. Len(body) <= MaxInt /\ size \in 0 .. MaxInt /\ Len(data) <= size
      BY <2>2, <3>1, <3>2, <3>3
    <3>6. responses \in Seq(Response) /\ writeFailed \in BOOLEAN
      BY <2>2, <3>1, <3>2
    <3> QED
      BY <3>1, <3>2, <3>4, <3>5, <3>6 DEF TypeOK
  <2>4. Len(buffer) <= MaxHeader
    BY <2>1, <2>2, RawHttpAssumption DEF InitFor
  <2> QED
    BY <2>1, <2>3, <2>4 DEF InitFor, IInv, Fitting, Leftover, FillsFromEmpty
<1>2. ASSUME IInv, [Next]_vars PROVE IInv'
  <2>1. CASE Next
    BY <1>2, <2>1, ReadHeadStep, EndStep, ParseHeadStep, TakeStep, FillStep,
       WholeBodyStep, ReadChunkLineStep, ChunkSizeStep, ChunkReadStep,
       ChunkEndingStep, ReplyStep DEF Next, Working
  <2>2. CASE UNCHANGED vars
    BY <1>2, <2>2 DEF vars, readVars, IInv, TypeOK, Fitting, Leftover,
       FillsFromEmpty, LineEnd
  <2> QED
    BY <1>2, <2>1, <2>2
<1> QED
  BY <1>1, <1>2

\* Every reachable state is well typed; a chunked body always has a length
\* that fits an int (framing.go:102).
THEOREM TypeCorrect == Spec => []TypeOK
<1>1. IInv => TypeOK
  BY DEF IInv
<1> QED
  BY <1>1, Inductive, PTL DEF Spec

\* The socket is read past the buffer only when nothing waits in it, so the
\* bytes of a body are in order (framing.go:51-60).
THEOREM BodyInOrder == Spec => []FillsFromEmpty
<1>1. IInv => FillsFromEmpty
  BY DEF IInv
<1> QED
  BY <1>1, Inductive, PTL DEF Spec

\* What is buffered while a header section is read never exceeds its limit,
\* however long a chunk line of the request before it was (parser.go:22-41).
THEOREM HeaderWithinLimit == Spec => []HeadBounded
<1>1. IInv => HeadBounded
  BY DEF IInv, Leftover, HeadBounded
<1> QED
  BY <1>1, Inductive, PTL DEF Spec

-----------------------------------------------------------------------------
(* The pieces of a stream.  Join keeps the provers from expanding \o.       *)

Join(s, t) == s \o t

LEMMA JoinBytes ==
  ASSUME NEW s \in Bytes, NEW t \in Bytes
  PROVE  /\ Join(s, t) \in Bytes /\ Len(Join(s, t)) = Len(s) + Len(t)
         /\ Len(s) \in Nat /\ Len(t) \in Nat
         /\ \A u \in Bytes : Join(Join(s, t), u) = Join(s, Join(t, u))
         /\ Join(s, <<>>) = s /\ Join(<<>>, s) = s
<1>1. s \in Seq(Letter) /\ t \in Seq(Letter) /\ Len(s) \in Nat /\ Len(t) \in Nat
  BY DEF Bytes
<1>2. s \o t \in Seq(Letter) /\ Len(s \o t) = Len(s) + Len(t)
  BY <1>1, ConcatProperties
<1>3. \A u \in Seq(Letter) : (s \o t) \o u = s \o (t \o u)
  BY <1>1, ConcatAssociative
<1>4. s \o <<>> = s /\ <<>> \o s = s
  BY <1>1, ConcatEmptySeq
<1> QED
  BY <1>1, <1>2, <1>3, <1>4 DEF Bytes, Join

\* What Drop leaves, one by one.
LEMMA DropItems ==
  ASSUME NEW s \in Seq(Letter), NEW n \in 0 .. Len(s)
  PROVE  LET w == SubSeq(s, n + 1, Len(s)) IN
         /\ w \in Seq(Letter) /\ Len(w) = Len(s) - n
         /\ \A i \in 1 .. Len(s) - n : w[i] = s[n + i]
<1> DEFINE w == SubSeq(s, n + 1, Len(s))
<1>1. Len(s) \in Nat /\ n \in Nat /\ n <= Len(s)
  OBVIOUS
<1>2. /\ w \in Seq(Letter) /\ Len(w) = IF n + 1 <= Len(s) THEN Len(s) - (n + 1) + 1 ELSE 0
      /\ \A i \in 1 .. Len(s) - (n + 1) + 1 : w[i] = s[(n + 1) + i - 1]
  BY <1>1, SubSeqProperties
<1> HIDE DEF w
<1>3. Len(s) - (n + 1) + 1 = Len(s) - n
  BY <1>1
<1>4. Len(w) = Len(s) - n
  BY <1>1, <1>2
<1>5. ASSUME NEW i \in 1 .. Len(s) - n PROVE w[i] = s[n + i]
  <2>1. (n + 1) + i - 1 = n + i
    BY <1>1
  <2>2. w[i] = s[(n + 1) + i - 1]
    BY <1>2, <1>3
  <2> QED
    BY <2>1, <2>2
<1> QED
  BY <1>2, <1>4, <1>5 DEF w

\* The first bytes of s are the first of s and what follows.
LEMMA CutOfJoin ==
  ASSUME NEW s \in Bytes, NEW t \in Bytes, NEW n \in 0 .. Len(s)
  PROVE  /\ SubSeq(Join(s, t), 1, n) = SubSeq(s, 1, n)
         /\ Drop(Join(s, t), n) = Join(Drop(s, n), t)
         /\ n > 0 => Join(s, t)[1] = s[1]
<1>1. /\ s \in Seq(Letter) /\ t \in Seq(Letter) /\ Len(s) \in Nat /\ Len(t) \in Nat /\ n \in Nat
      /\ n <= Len(s)
  BY DEF Bytes
<1>2. /\ s \o t \in Seq(Letter) /\ Len(s \o t) = Len(s) + Len(t)
      /\ \A i \in 1 .. Len(s) + Len(t) :
           (s \o t)[i] = IF i <= Len(s) THEN s[i] ELSE t[i - Len(s)]
  BY <1>1, ConcatProperties
<1> DEFINE u == s \o t
<1>3. u \in Seq(Letter) /\ Len(u) = Len(s) + Len(t)
  BY <1>2
<1>4. \A i \in 1 .. Len(s) + Len(t) : u[i] = IF i <= Len(s) THEN s[i] ELSE t[i - Len(s)]
  BY <1>2
<1> HIDE DEF u
<1>5. SubSeq(u, 1, n) = SubSeq(s, 1, n)
  <2>1. /\ SubSeq(u, 1, n) \in Seq(Letter) /\ Len(SubSeq(u, 1, n)) = n
        /\ \A i \in 1 .. n : SubSeq(u, 1, n)[i] = u[i]
    BY <1>1, <1>3, SubSeqProperties
  <2>2. /\ SubSeq(s, 1, n) \in Seq(Letter) /\ Len(SubSeq(s, 1, n)) = n
        /\ \A i \in 1 .. n : SubSeq(s, 1, n)[i] = s[i]
    BY <1>1, SubSeqProperties
  <2>3. \A i \in 1 .. n : u[i] = s[i]
    BY <1>1, <1>4
  <2> QED
    BY <2>1, <2>2, <2>3, SeqEqual
<1>6. SubSeq(u, n + 1, Len(u)) = SubSeq(s, n + 1, Len(s)) \o t
  <2> DEFINE v == SubSeq(u, n + 1, Len(u))
             w == SubSeq(s, n + 1, Len(s))
             m == Len(s) - n
  <2>1. m \in Nat /\ m + Len(t) \in Nat /\ Len(u) - n = m + Len(t)
    BY <1>1, <1>3
  <2>2. /\ v \in Seq(Letter) /\ Len(v) = m + Len(t)
        /\ \A i \in 1 .. m + Len(t) : v[i] = u[n + i]
    <3>1. n \in 0 .. Len(u)
      BY <1>1, <1>3
    <3>2. /\ v \in Seq(Letter) /\ Len(v) = Len(u) - n
          /\ \A i \in 1 .. Len(u) - n : v[i] = u[n + i]
      BY <1>3, <3>1, DropItems
    <3> QED
      BY <2>1, <3>2
  <2>3. /\ w \in Seq(Letter) /\ Len(w) = m
        /\ \A i \in 1 .. m : w[i] = s[n + i]
    BY <1>1, DropItems
  <2> HIDE DEF v, w
  <2>4. /\ w \o t \in Seq(Letter) /\ Len(w \o t) = m + Len(t)
        /\ \A i \in 1 .. m + Len(t) : (w \o t)[i] = IF i <= m THEN w[i] ELSE t[i - m]
    <3>1. /\ w \o t \in Seq(Letter) /\ Len(w \o t) = Len(w) + Len(t)
          /\ \A i \in 1 .. Len(w) + Len(t) :
               (w \o t)[i] = IF i <= Len(w) THEN w[i] ELSE t[i - Len(w)]
      BY <1>1, <2>3, ConcatProperties
    <3> QED
      BY <2>3, <3>1
  <2>5. ASSUME NEW i \in 1 .. m + Len(t) PROVE v[i] = (w \o t)[i]
    <3>1. n + i \in 1 .. Len(s) + Len(t) /\ i \in Nat
      BY <1>1, <2>1
    <3>2. v[i] = IF n + i <= Len(s) THEN s[n + i] ELSE t[n + i - Len(s)]
      <4>1. v[i] = u[n + i]
        BY <2>2
      <4> DEFINE k == n + i
      <4>2. k \in 1 .. Len(s) + Len(t)
        BY <3>1
      <4> HIDE DEF k
      <4>3. u[k] = IF k <= Len(s) THEN s[k] ELSE t[k - Len(s)]
        BY <1>4, <4>2
      <4> QED
        BY <4>1, <4>3 DEF k
    <3>3. CASE i <= m
      <4>1. n + i <= Len(s) /\ i \in 1 .. m
        BY <1>1, <3>1, <3>3
      <4> QED
        BY <2>3, <2>4, <3>2, <3>3, <4>1
    <3>4. CASE ~(i <= m)
      <4>1. ~(n + i <= Len(s)) /\ n + i - Len(s) = i - m
        BY <1>1, <3>1, <3>4
      <4> QED
        BY <2>4, <3>2, <3>4, <4>1
    <3> QED
      BY <3>3, <3>4
  <2> HIDE DEF m
  <2>6. v = w \o t
    BY <2>2, <2>4, <2>5, SeqEqual
  <2> QED
    BY <2>6 DEF v, w
<1>7. n > 0 => u[1] = s[1]
  BY <1>1, <1>4
<1> QED
  BY <1>5, <1>6, <1>7 DEF Join, Drop, u

\* The first n bytes and the others are all of them.
LEMMA CutAndJoin ==
  ASSUME NEW s \in Bytes, NEW n \in 0 .. Len(s)
  PROVE  s = Join(SubSeq(s, 1, n), Drop(s, n))
<1> DEFINE a == SubSeq(s, 1, n)
           b == SubSeq(s, n + 1, Len(s))
<1>1. s \in Seq(Letter) /\ Len(s) \in Nat /\ n \in Nat /\ n <= Len(s)
  BY DEF Bytes
<1>2. a \in Seq(Letter) /\ Len(a) = n /\ \A i \in 1 .. n : a[i] = s[i]
  BY <1>1, SubSeqProperties
<1>3. b \in Seq(Letter) /\ Len(b) = Len(s) - n /\ \A i \in 1 .. Len(s) - n : b[i] = s[n + i]
  BY <1>1, DropItems
<1> HIDE DEF a, b
<1>4. /\ a \o b \in Seq(Letter) /\ Len(a \o b) = Len(s)
      /\ \A i \in 1 .. Len(s) : (a \o b)[i] = IF i <= n THEN a[i] ELSE b[i - n]
  <2>1. /\ a \o b \in Seq(Letter) /\ Len(a \o b) = Len(a) + Len(b)
        /\ \A i \in 1 .. Len(a) + Len(b) : (a \o b)[i] = IF i <= Len(a) THEN a[i] ELSE b[i - Len(a)]
    BY <1>2, <1>3, ConcatProperties
  <2>2. Len(a) + Len(b) = Len(s)
    BY <1>1, <1>2, <1>3
  <2> QED
    BY <1>2, <2>1, <2>2
<1>5. ASSUME NEW i \in 1 .. Len(s) PROVE s[i] = (a \o b)[i]
  <2>1. CASE i <= n
    BY <1>1, <1>2, <1>4, <2>1
  <2>2. CASE ~(i <= n)
    <3>1. i - n \in 1 .. Len(s) - n /\ n + (i - n) = i
      BY <1>1, <2>2
    <3> QED
      BY <1>3, <1>4, <2>2, <3>1
  <2> QED
    BY <2>1, <2>2
<1>6. s = a \o b
  BY <1>1, <1>4, <1>5, SeqEqual
<1> QED
  BY <1>6 DEF Join, Drop, a, b

\* No match lies before the first.
LEMMA IndexFirst ==
  ASSUME NEW s \in Bytes, NEW p \in Bytes, p # <<>>,
         NEW i \in 1 .. Len(s) - Len(p) + 1, SubSeq(s, i, i + Len(p) - 1) = p
  PROVE  Index(s, p) > 0 /\ Index(s, p) <= i
<1> DEFINE at == {j \in 1 .. Len(s) - Len(p) + 1 : SubSeq(s, j, j + Len(p) - 1) = p}
<1>1. at \in SUBSET Nat /\ i \in at
  OBVIOUS
<1>2. \E k \in at : \A j \in at : k <= j
  BY <1>1, Least
<1>3. Index(s, p) = CHOOSE k \in at : \A j \in at : k <= j
  BY <1>1 DEF Index
<1> HIDE DEF at
<1>4. Index(s, p) \in at /\ \A j \in at : Index(s, p) <= j
  BY <1>2, <1>3
<1>5. Index(s, p) > 0
  BY <1>4 DEF at
<1> QED
  BY <1>1, <1>4, <1>5

\* What follows s does not change where p is first found in it, and p is found
\* later only where it ends behind s.
LEMMA IndexOfJoin ==
  ASSUME NEW s \in Bytes, NEW t \in Bytes, NEW p \in Bytes, p # <<>>
  PROVE  /\ Index(s, p) > 0 => Index(Join(s, t), p) = Index(s, p)
         /\ Index(s, p) = 0 /\ Index(Join(s, t), p) > 0 =>
              Index(Join(s, t), p) + Len(p) - 1 > Len(s)
<1> DEFINE u == Join(s, t)
<1>1. /\ u \in Bytes /\ Len(u) = Len(s) + Len(t) /\ Len(s) \in Nat /\ Len(t) \in Nat
      /\ Len(p) \in Nat /\ Len(p) # 0
  <2>1. p \in Seq(Letter) /\ Len(p) \in Nat /\ Len(p) # 0
    BY EmptySeq DEF Bytes
  <2> QED
    BY <2>1, JoinBytes
<1>2. ASSUME NEW i \in Nat, i > 0, i + Len(p) - 1 <= Len(s)
      PROVE  SubSeq(u, i, i + Len(p) - 1) = SubSeq(s, i, i + Len(p) - 1)
  <2>1. i \in 1 .. Len(s) /\ i + Len(p) - 1 \in 1 .. Len(s)
    BY <1>1, <1>2
  <2> QED
    BY <2>1, SubSeqOfConcat1 DEF Bytes, Join
<1> HIDE DEF u
<1>3. /\ Index(s, p) \in Nat /\ Index(u, p) \in Nat
      /\ Index(u, p) > 0 => SubSeq(u, Index(u, p), Index(u, p) + Len(p) - 1) = p
                            /\ Index(u, p) - 1 + Len(p) <= Len(u)
      /\ Index(s, p) > 0 => SubSeq(s, Index(s, p), Index(s, p) + Len(p) - 1) = p
                            /\ Index(s, p) - 1 + Len(p) <= Len(s)
      /\ Index(s, p) = 0 => \A i \in 1 .. Len(s) - Len(p) + 1 : SubSeq(s, i, i + Len(p) - 1) # p
  BY <1>1, IndexFacts
<1>4. ASSUME Index(u, p) > 0, Index(u, p) + Len(p) - 1 <= Len(s)
      PROVE  Index(s, p) > 0 /\ Index(s, p) <= Index(u, p)
  <2>1. Index(u, p) \in 1 .. Len(s) - Len(p) + 1
    BY <1>1, <1>3, <1>4
  <2>2. SubSeq(s, Index(u, p), Index(u, p) + Len(p) - 1) = p
    BY <1>2, <1>3, <1>4
  <2> QED
    BY <2>1, <2>2, IndexFirst
<1>5. ASSUME Index(s, p) > 0 PROVE Index(u, p) = Index(s, p)
  <2>1. Index(s, p) + Len(p) - 1 <= Len(s)
    BY <1>1, <1>3, <1>5
  <2>2. SubSeq(u, Index(s, p), Index(s, p) + Len(p) - 1) = p
    BY <1>2, <1>3, <1>5, <2>1
  <2>3. Index(s, p) \in 1 .. Len(u) - Len(p) + 1
    BY <1>1, <1>3, <1>5, <2>1
  <2>4. Index(u, p) > 0 /\ Index(u, p) <= Index(s, p)
    BY <1>1, <2>2, <2>3, IndexFirst
  <2>5. Index(s, p) <= Index(u, p)
    BY <1>1, <1>3, <1>4, <2>1, <2>4
  <2> QED
    BY <1>3, <2>4, <2>5
<1>6. ASSUME Index(s, p) = 0, Index(u, p) > 0 PROVE Index(u, p) + Len(p) - 1 > Len(s)
  BY <1>1, <1>3, <1>4, <1>6
<1> QED
  BY <1>5, <1>6 DEF u


-----------------------------------------------------------------------------
(* The reader, and the reader that holds the whole stream.                 *)

\* The error behind the stream is seen only with its last byte, and readBytes
\* starts with nothing.
EndSeen ==
  /\ readErr # "none" => wire = <<>> /\ readErr = end /\ end # "open"
  /\ pc = "take" => data = <<>>

LEMMA EndSeenInductive ==
  /\ Init => EndSeen
  /\ IInv /\ EndSeen /\ [Next]_vars => EndSeen'
<1>1. Init => EndSeen
  BY DEF Init, InitFor, EndSeen
<1>2. ASSUME IInv, EndSeen, NEW limit \in Nat, Fetch(limit), pc # "take" PROVE EndSeen'
  <2>1. PICK r \in Results(limit) : wire' = Drop(wire, r.n) /\ readErr' = r.err
    BY <1>2 DEF Fetch
  <2>2. UNCHANGED <<end, pc>>
    BY <1>2 DEF Fetch
  <2>3. wire \in Bytes /\ end \in {"eof", "reset", "open"} /\ Len(wire) \in Nat
    BY <1>2 DEF IInv, TypeOK, Bytes
  <2>4. r.err \in {"none", end}
    BY DEF Results
  <2>5. CASE r.err # "none"
    <3>1. end # "open" /\ r.n = Len(wire) /\ r.err = end
      BY <2>4, <2>5 DEF Results
    <3>2. wire' \in Bytes /\ Len(wire') = 0
      <4>1. Len(wire) \in 0 .. Len(wire)
        BY <2>3
      <4>2. Drop(wire, Len(wire)) \in Bytes /\ Len(Drop(wire, Len(wire))) = Len(wire) - Len(wire)
        BY <2>3, <4>1, CutFacts
      <4> QED
        BY <2>1, <2>3, <3>1, <4>2
    <3>3. wire' = <<>>
      BY <3>2, EmptySeq DEF Bytes
    <3> QED
      BY <1>2, <2>1, <2>2, <3>1, <3>3 DEF EndSeen
  <2>6. CASE r.err = "none"
    BY <1>2, <2>1, <2>2, <2>6 DEF EndSeen
  <2> QED
    BY <2>5, <2>6
<1>3. ASSUME IInv, EndSeen, Next PROVE EndSeen'
  <2>1. CASE ReadHead
    <3> DEFINE limit == Smaller(ReadSize, MaxHeader - Len(buffer))
    <3>1. MaxHeader \in Nat /\ ReadSize \in Nat /\ Len(buffer) \in Nat
      BY <1>3, RawHttpAssumption DEF IInv, TypeOK, Bytes
    <3>2. limit \in Nat
      BY <2>1, <3>1 DEF ReadHead, Smaller
    <3>3. Fetch(limit) /\ pc # "take"
      BY <2>1 DEF ReadHead, Seeking
    <3> HIDE DEF limit
    <3> QED
      BY <1>2, <1>3, <3>2, <3>3
  <2>2. CASE ReadChunkLine
    <3>1. ReadSize \in Nat /\ Fetch(ReadSize) /\ pc # "take"
      BY <2>2, RawHttpAssumption DEF ReadChunkLine
    <3> QED
      BY <1>2, <1>3, <3>1
  <2>3. CASE HeadTooLong \/ HeadEnded \/ ChunkLineEnded \/ Panic
    BY <1>3, <2>3 DEF HeadTooLong, HeadEnded, ChunkLineEnded, Panic, Reject, Goto, Idle, EndSeen
  <2>4. CASE ParseHead
    BY <1>3, <2>4 DEF ParseHead, Reject, Goto, Want, Idle, EndSeen
  <2>5. CASE TakeBytes
    <3>1. pc' # "take"
      BY <1>3, <2>5 DEF TakeBytes, Goto, IInv, TypeOK
    <3> QED
      BY <1>3, <2>5, <3>1 DEF TakeBytes, Idle, EndSeen
  <2>6. CASE FillBytes
    <3>1. pc' # "take" /\ pc = "fill" /\ UNCHANGED readErr
      BY <1>3, <2>6 DEF FillBytes, Goto, IInv, TypeOK
    <3>2. readErr = "none"
      BY <1>3, <3>1 DEF IInv, FillsFromEmpty
    <3> QED
      BY <3>1, <3>2 DEF EndSeen
  <2>7. CASE WholeBody
    BY <1>3, <2>7 DEF WholeBody, Goto, Idle, EndSeen
  <2>8. CASE ChunkSize
    BY <1>3, <2>8 DEF ChunkSize, Reject, Goto, Want, Idle, EndSeen
  <2>9. CASE ChunkRead
    BY <1>3, <2>9 DEF ChunkRead, Want, Goto, Idle, EndSeen
  <2>10. CASE ChunkEnding
    BY <1>3, <2>10 DEF ChunkEnding, AppendChunk, Reject, Goto, Idle, EndSeen
  <2>11. CASE Respond \/ Refuse
    BY <1>3, <2>11 DEF Respond, Refuse, Write, Goto, EndSeen
  <2> QED
    BY <1>3, <2>1, <2>2, <2>3, <2>4, <2>5, <2>6, <2>7, <2>8, <2>9, <2>10, <2>11 DEF Next, Working
<1>4. ASSUME EndSeen, UNCHANGED vars PROVE EndSeen'
  BY <1>4 DEF EndSeen, vars, readVars
<1> QED
  BY <1>1, <1>3, <1>4

\* The two connections share every definition about bytes and requests.
LEMMA SameBytes ==
  ASSUME NEW s, NEW p
  PROVE  /\ Whole!CRLF = CRLF /\ Whole!Blank = Blank
         /\ Whole!Index(s, p) = Index(s, p)
         /\ Whole!Drop(s, p) = Drop(s, p) /\ Whole!Smaller(s, p) = Smaller(s, p)
  BY DEF Whole!CRLF, CRLF, Whole!Blank, Blank, Whole!Index, Index, Whole!Drop, Drop,
         Whole!Smaller, Smaller

LEMMA SameValue ==
  ASSUME NEW line
  PROVE  /\ Whole!Value(line) = Value(line) /\ Whole!IsSize(line) = IsSize(line)
         /\ Whole!Fits(line) = Fits(line)
<1>1. Whole!Value(line) = Value(line)
  BY DEF Whole!Value, Value, Whole!FoldLeft, FoldLeft, Whole!MapThenFoldSet,
         MapThenFoldSet, Whole!Max, Max
<1>2. Whole!IsSize(line) = IsSize(line) /\ Whole!Fits(line) = Fits(line)
  BY DEF Whole!IsSize, IsSize, Whole!Fits, Fits
<1> QED
  BY <1>1, <1>2

LEMMA SameRules ==
  ASSUME NEW q
  PROVE  /\ Whole!HostNamed(q) = HostNamed(q) /\ Whole!LengthKnown(q) = LengthKnown(q)
         /\ Whole!Chunked(q) = Chunked(q) /\ Whole!ContentLength(q) = ContentLength(q)
         /\ Whole!route(q) = route(q) /\ Whole!shouldClose(q) = shouldClose(q)
         /\ Whole!BadRequest = BadRequest
  BY DEF Whole!HostNamed, HostNamed, Whole!LengthKnown, LengthKnown, Whole!Chunked,
         Chunked, Whole!ContentLength, ContentLength, Whole!route, route,
         Whole!shouldClose, shouldClose, Whole!Reply, Reply, Whole!BadRequest, BadRequest

\* A step after which the same bytes are unused, and nothing else is decided.
LEMMA Stutters ==
  ASSUME Unused' = Unused, pc' = pc \/ (pc = "take" /\ pc' = "fill" /\ data = <<>>),
         pc = "fill" \/ pc' = "fill" \/ data' = data,
         UNCHANGED <<end, request, body, size, after, chunk, responses, writeFailed>>
  PROVE  UNCHANGED Whole!vars
  BY DEF Whole!vars, Whole!readVars

\* What is unused, without a look at how it is joined.
LEMMA UnusedIs ==
  /\ pc = "fill" => Unused = Join(data, wire)
  /\ pc # "fill" => Unused = Join(buffer, wire)
  BY DEF Unused, Join
LEMMA UnusedIsNext ==
  /\ pc' = "fill" => Unused' = Join(data', wire')
  /\ pc' # "fill" => Unused' = Join(buffer', wire')
  BY DEF Unused, Join


-----------------------------------------------------------------------------
(* Each action does, on the bytes there are, what it would do on all bytes. *)

LEMMA FetchPiece ==
  ASSUME IInv, NEW limit \in Nat, Fetch(limit), pc # "fill"
  PROVE  UNCHANGED Whole!vars
<1>1. PICK r \in Results(limit) :
        /\ buffer' = buffer \o SubSeq(wire, 1, r.n)
        /\ wire' = Drop(wire, r.n)
        /\ UNCHANGED <<end, pc, request, body, readVars, chunk, responses, writeFailed>>
  BY DEF Fetch
<1>2. wire \in Bytes /\ buffer \in Bytes /\ end \in {"eof", "reset", "open"}
  BY DEF IInv, TypeOK
<1>3. r.n \in 0 .. Len(wire)
  BY <1>2, ReadFacts
<1> DEFINE got == SubSeq(wire, 1, r.n)
           rest == Drop(wire, r.n)
<1>4. got \in Bytes /\ rest \in Bytes /\ wire = Join(got, rest)
  BY <1>2, <1>3, CutFacts, CutAndJoin
<1>5. buffer' = Join(buffer, got) /\ wire' = rest
  BY <1>1 DEF Join
<1> HIDE DEF got, rest
<1>6. Join(Join(buffer, got), rest) = Join(buffer, Join(got, rest))
  BY <1>2, <1>4, JoinBytes
<1>7. Unused' = Unused
  BY <1>1, <1>4, <1>5, <1>6, UnusedIs, UnusedIsNext
<1> QED
  BY <1>1, <1>7, Stutters DEF readVars

\* The bytes not used are those buffered, then those under way.
LEMMA UnusedFacts ==
  ASSUME IInv, pc # "fill"
  PROVE  /\ Unused = Join(buffer, wire) /\ Unused \in Bytes
         /\ Len(Unused) = Len(buffer) + Len(wire)
         /\ buffer \in Bytes /\ wire \in Bytes
         /\ Len(buffer) \in Nat /\ Len(wire) \in Nat
         /\ wire = <<>> => Unused = buffer
<1>1. buffer \in Bytes /\ wire \in Bytes
  BY DEF IInv, TypeOK
<1> QED
  BY <1>1, JoinBytes, UnusedIs

LEMMA WholeHeads ==
  ASSUME IInv, pc # "fill"
  PROVE  /\ Whole!HeadEnd = Index(Unused, Blank)
         /\ HeadEnd > 0 => Whole!HeadEnd = HeadEnd /\ Unused[1] = buffer[1]
         /\ HeadEnd = 0 /\ Whole!HeadEnd > 0 => Whole!HeadEnd + 3 > Len(buffer)
         /\ Whole!HeadEnd \in Nat
         /\ Whole!HeadEnd > 0 => Whole!HeadEnd + 3 <= Len(Unused)
         /\ Whole!LineEnd = Index(Unused, CRLF)
         /\ LineEnd > 0 => Whole!LineEnd = LineEnd
<1>1. /\ Unused = Join(buffer, wire) /\ Unused \in Bytes /\ buffer \in Bytes /\ wire \in Bytes
      /\ Len(buffer) \in Nat
  BY UnusedFacts
<1>2. Whole!HeadEnd = Index(Unused, Blank) /\ Whole!LineEnd = Index(Unused, CRLF)
  BY SameBytes DEF Whole!HeadEnd, Whole!LineEnd
<1>3. /\ Index(buffer, Blank) > 0 => Index(Unused, Blank) = Index(buffer, Blank)
      /\ Index(buffer, Blank) = 0 /\ Index(Unused, Blank) > 0 =>
           Index(Unused, Blank) + Len(Blank) - 1 > Len(buffer)
  BY <1>1, Separators, IndexOfJoin
<1>4. Index(buffer, CRLF) > 0 => Index(Unused, CRLF) = Index(buffer, CRLF)
  BY <1>1, Separators, IndexOfJoin
<1>5. /\ Index(Unused, Blank) \in Nat
      /\ Index(Unused, Blank) > 0 => Index(Unused, Blank) - 1 + Len(Blank) <= Len(Unused)
  BY <1>1, Separators, IndexFacts
<1>6. HeadEnd > 0 => Unused[1] = buffer[1]
  <2>1. HeadEnd > 0 => Len(buffer) \in 0 .. Len(buffer) /\ Len(buffer) > 0
    BY <1>1, Ends
  <2>2. Len(buffer) \in 0 .. Len(buffer) /\ Len(buffer) > 0 => Unused[1] = buffer[1]
    BY <1>1, CutOfJoin
  <2> QED
    BY <2>1, <2>2
<1>7. Len(Blank) = 4 /\ Len(Unused) \in Nat
  BY <1>1, Separators DEF Bytes
<1>8. Index(Unused, Blank) + Len(Blank) - 1 = Index(Unused, Blank) + 3
      /\ Index(Unused, Blank) - 1 + Len(Blank) = Index(Unused, Blank) + 3
  BY <1>5, <1>7
<1> QED
  BY <1>2, <1>3, <1>4, <1>5, <1>6, <1>8 DEF HeadEnd, LineEnd

\* A read of the parser's only moves bytes into the buffer.
LEMMA ReadHeadPiece == ASSUME IInv, ReadHead PROVE UNCHANGED Whole!vars
<1>1. MaxHeader \in Nat /\ ReadSize \in Nat /\ Len(buffer) \in Nat
  BY RawHttpAssumption DEF IInv, TypeOK, Bytes
<1> DEFINE limit == Smaller(ReadSize, MaxHeader - Len(buffer))
<1>2. limit \in Nat
  BY <1>1 DEF ReadHead, Smaller
<1>3. Fetch(limit) /\ pc # "fill"
  BY DEF ReadHead, Seeking
<1> HIDE DEF limit
<1> QED
  BY <1>2, <1>3, FetchPiece

LEMMA ReadChunkLinePiece == ASSUME IInv, ReadChunkLine PROVE UNCHANGED Whole!vars
<1>1. ReadSize \in Nat /\ Fetch(ReadSize) /\ pc # "fill"
  BY RawHttpAssumption DEF ReadChunkLine
<1> QED
  BY <1>1, FetchPiece

\* The limit is reached: Whole may see the blank line, but only behind the limit.
LEMMA HeadTooLongPiece ==
  ASSUME IInv, HeadTooLong PROVE Whole!HeadTooLong \/ Whole!ParseHead
<1>1. /\ pc = "head" /\ HeadEnd = 0 /\ Len(buffer) >= MaxHeader /\ pc' = "reject"
      /\ UNCHANGED <<end, wire, buffer, readErr, request, body, chunk, size, data, after,
                     responses, writeFailed>>
  BY DEF HeadTooLong, Seeking, Reject, Goto, SameRequest, Idle, readVars
<1>2. /\ Len(Unused) = Len(buffer) + Len(wire) /\ Len(buffer) \in Nat /\ Len(wire) \in Nat
      /\ MaxHeader \in Nat
  BY <1>1, UnusedFacts, RawHttpAssumption
<1>3. Unused' = Unused
  BY <1>1, UnusedIs, UnusedIsNext
<1>4. /\ Whole!HeadEnd \in Nat
      /\ Whole!HeadEnd > 0 => Whole!HeadEnd + 3 > Len(buffer)
  BY <1>1, WholeHeads
<1>5. CASE Whole!HeadEnd = 0
  <2>1. Len(Unused) >= MaxHeader
    BY <1>1, <1>2
  <2> QED
    BY <1>1, <1>3, <1>5, <2>1 DEF Whole!HeadTooLong, Whole!Seeking, Whole!Reject,
       Whole!Goto, Whole!SameRequest, Whole!Idle, Whole!readVars
<1>6. CASE Whole!HeadEnd > 0
  <2>1. ~Whole!WellFormed
    <3>1. Whole!HeadEnd - 1 + Len(Whole!Blank) = Whole!HeadEnd + 3
      <4>1. Len(Whole!Blank) = 4
        BY SameBytes, Separators
      <4> QED
        BY <1>4, <4>1
    <3>2. ~(Whole!HeadEnd + 3 <= MaxHeader)
      BY <1>1, <1>2, <1>4, <1>6
    <3> QED
      BY <3>1, <3>2 DEF Whole!WellFormed
  <2> QED
    BY <1>1, <1>3, <1>6, <2>1 DEF Whole!ParseHead, Whole!Reject,
       Whole!Goto, Whole!SameRequest, Whole!Idle, Whole!readVars
<1> QED
  BY <1>4, <1>5, <1>6

LEMMA HeadEndedPiece == ASSUME IInv, EndSeen, HeadEnded PROVE Whole!HeadEnded
<1>1. /\ pc = "head" /\ HeadEnd = 0 /\ Len(buffer) < MaxHeader /\ readErr # "none"
      /\ pc' = IF readErr = "eof" /\ buffer = <<>> THEN "closed" ELSE "reject"
      /\ UNCHANGED <<end, wire, buffer, readErr, request, body, chunk, size, data, after,
                     responses, writeFailed>>
  BY DEF HeadEnded, Seeking, Reject, Goto, SameRequest, Idle, readVars
<1>2. wire = <<>> /\ readErr = end /\ end # "open"
  BY <1>1 DEF EndSeen
<1>3. Unused = buffer /\ Unused' = Unused
  BY <1>1, <1>2, UnusedFacts, UnusedIs, UnusedIsNext
<1>4. Whole!HeadEnd = 0
  BY <1>1, <1>3, WholeHeads DEF HeadEnd
<1> QED
  BY <1>1, <1>2, <1>3, <1>4 DEF Whole!HeadEnded, Whole!Seeking, Whole!Reject,
     Whole!Goto, Whole!SameRequest, Whole!Idle, Whole!readVars, IInv, TypeOK

LEMMA ChunkLineEndedPiece ==
  ASSUME IInv, EndSeen, ChunkLineEnded PROVE Whole!ChunkLineEnded
<1>1. /\ pc = "size" /\ LineEnd = 0 /\ readErr # "none" /\ pc' = "reject"
      /\ UNCHANGED <<end, wire, buffer, readErr, request, body, chunk, size, data, after,
                     responses, writeFailed>>
  BY DEF ChunkLineEnded, Reject, Goto, SameRequest, Idle, readVars
<1>2. wire = <<>> /\ readErr = end /\ end # "open"
  BY <1>1 DEF EndSeen
<1>3. Unused = buffer /\ Unused' = Unused
  BY <1>1, <1>2, UnusedFacts, UnusedIs, UnusedIsNext
<1>4. Whole!LineEnd = 0
  BY <1>1, <1>3, WholeHeads DEF LineEnd
<1> QED
  BY <1>1, <1>2, <1>3, <1>4 DEF Whole!ChunkLineEnded, Whole!Reject,
     Whole!Goto, Whole!SameRequest, Whole!Idle, Whole!readVars, IInv, TypeOK


\* What a step leaves unused that takes the first n bytes of the buffer.
LEMMA TakePiece ==
  ASSUME IInv, pc # "fill", pc' # "fill", NEW n \in 0 .. Len(buffer),
         buffer' = Drop(buffer, n), wire' = wire
  PROVE  /\ Unused' = Drop(Unused, n) /\ SubSeq(Unused, 1, n) = SubSeq(buffer, 1, n)
         /\ n <= Len(Unused)
<1>1. /\ Unused = Join(buffer, wire) /\ buffer \in Bytes /\ wire \in Bytes
      /\ Len(Unused) = Len(buffer) + Len(wire) /\ Len(buffer) \in Nat /\ Len(wire) \in Nat
  BY UnusedFacts
<1>2. /\ SubSeq(Join(buffer, wire), 1, n) = SubSeq(buffer, 1, n)
      /\ Drop(Join(buffer, wire), n) = Join(Drop(buffer, n), wire)
  BY <1>1, CutOfJoin
<1>3. Unused' = Join(buffer', wire')
  BY UnusedIsNext
<1> QED
  BY <1>1, <1>2, <1>3

LEMMA ParseHeadPiece == ASSUME IInv, ParseHead PROVE Whole!ParseHead
<1>1. /\ pc = "head" /\ HeadEnd > 0
      /\ UNCHANGED <<end, wire, responses, writeFailed, readErr, body, chunk>>
  BY DEF ParseHead, Idle
<1>2. /\ Whole!HeadEnd = HeadEnd /\ Unused[1] = buffer[1]
      /\ HeadEnd \in Nat /\ HeadEnd + 3 <= Len(buffer)
      /\ Len(buffer) \in Nat
  BY <1>1, WholeHeads, Ends DEF IInv, TypeOK
<1>3. Whole!Blank = Blank /\ Len(Blank) = 4
  BY SameBytes, Separators
<1>4. HeadEnd - 1 + Len(Blank) = HeadEnd + 3
  BY <1>2, <1>3
<1>5. Whole!WellFormed <=> WellFormed
  BY <1>2, <1>3 DEF Whole!WellFormed, WellFormed
<1>6. CASE ~WellFormed
  <2>1. pc' = "reject" /\ UNCHANGED <<buffer, request, size, data, after>>
    BY <1>6 DEF ParseHead, Reject, Goto, readVars
  <2>2. Unused' = Unused
    BY <1>1, <2>1, UnusedIs, UnusedIsNext
  <2> QED
    BY <1>1, <1>2, <1>5, <1>6, <2>1, <2>2 DEF Whole!ParseHead, Whole!Reject,
       Whole!Goto, Whole!Idle, Whole!readVars
<1>7. CASE WellFormed
  <2> DEFINE q == Request[buffer[1]]
  <2>1. buffer' = Drop(buffer, HeadEnd + 3) /\ request' = buffer[1]
    BY <1>4, <1>7 DEF ParseHead, Consume
  <2>2. pc' # "fill"
    BY <1>7 DEF ParseHead, Want, Goto, Reject
  <2>3. Unused' = Drop(Unused, HeadEnd + 3)
    <3>1. HeadEnd + 3 \in 0 .. Len(buffer)
      BY <1>2
    <3> QED
      BY <1>1, <2>1, <2>2, <3>1, TakePiece
  <2>4. Whole!Consume
    <3>1. Whole!Drop(Unused, HeadEnd + 3) = Drop(Unused, HeadEnd + 3)
      BY SameBytes
    <3>2. Whole!HeadEnd - 1 + Len(Whole!Blank) = HeadEnd + 3
      BY <1>2, <1>3, <1>4
    <3> QED
      BY <2>3, <3>1, <3>2 DEF Whole!Consume
  <2>5. Request[Unused[1]] = q /\ request' = Unused[1]
    BY <1>2, <2>1
  <2>6. /\ Whole!HostNamed(q) = HostNamed(q) /\ Whole!LengthKnown(q) = LengthKnown(q)
        /\ Whole!Chunked(q) = Chunked(q) /\ Whole!ContentLength(q) = ContentLength(q)
    BY SameRules
  <2> DEFINE known == HostNamed(q) /\ LengthKnown(q)
             chunked == HostNamed(q) /\ Chunked(q)
  <2>7. \/ HostNamed(q) /\ LengthKnown(q) /\ Whole!Want(ContentLength(q), "body")
        \/ HostNamed(q) /\ Chunked(q) /\ Whole!Goto("size") /\ UNCHANGED Whole!readVars
        \/ /\ ~(HostNamed(q) /\ (LengthKnown(q) \/ Chunked(q)))
           /\ Whole!Reject /\ UNCHANGED Whole!readVars
    <3>1. \/ HostNamed(q) /\ LengthKnown(q) /\ Want(ContentLength(q), "body")
          \/ HostNamed(q) /\ Chunked(q) /\ Goto("size") /\ UNCHANGED readVars
          \/ /\ ~(HostNamed(q) /\ (LengthKnown(q) \/ Chunked(q)))
             /\ Reject /\ UNCHANGED readVars
      BY <1>7 DEF ParseHead
    <3>2. Want(ContentLength(q), "body") => Whole!Want(ContentLength(q), "body")
      BY <1>1 DEF Want, Goto, Whole!Want, Whole!Goto
    <3>3. Goto("size") /\ UNCHANGED readVars => Whole!Goto("size") /\ UNCHANGED Whole!readVars
      BY <1>1 DEF Goto, Whole!Goto, readVars, Whole!readVars
    <3>4. Reject /\ UNCHANGED readVars => Whole!Reject /\ UNCHANGED Whole!readVars
      BY <1>1 DEF Reject, Goto, Whole!Reject, Whole!Goto, readVars, Whole!readVars
    <3> HIDE DEF q
    <3> QED
      BY <3>1, <3>2, <3>3, <3>4
  <2>8. Whole!Idle
    BY <1>1 DEF Whole!Idle
  <2> HIDE DEF q
  <2> QED
    BY <1>1, <1>2, <1>5, <1>7, <2>4, <2>5, <2>6, <2>7, <2>8 DEF Whole!ParseHead
<1> QED
  BY <1>6, <1>7

LEMMA ChunkSizePiece == ASSUME IInv, ChunkSize PROVE Whole!ChunkSize
<1>1. /\ pc = "size" /\ LineEnd > 0 /\ buffer' = Drop(buffer, LineEnd + 1)
      /\ UNCHANGED <<end, wire, responses, writeFailed, readErr, request, body, chunk>>
  BY DEF ChunkSize, SameRequest, Idle
<1>2. /\ Whole!LineEnd = LineEnd /\ LineEnd \in Nat /\ LineEnd + 1 <= Len(buffer)
      /\ Len(buffer) \in Nat
  BY <1>1, WholeHeads, Ends DEF IInv, TypeOK
<1> DEFINE line == SubSeq(buffer, 1, LineEnd - 1)
<1>3. \/ IsSize(line) /\ Fits(Value(line)) /\ Want(Value(line), "chunk")
      \/ ~(IsSize(line) /\ Fits(Value(line))) /\ Reject /\ UNCHANGED readVars
  BY DEF ChunkSize
<1>4. pc' # "fill"
  BY <1>3 DEF Want, Goto, Reject
<1>5. Unused' = Drop(Unused, LineEnd + 1)
  <2>1. LineEnd + 1 \in 0 .. Len(buffer)
    BY <1>2
  <2> QED
    BY <1>1, <1>4, <2>1, TakePiece
<1>6. SubSeq(Unused, 1, LineEnd - 1) = line
  <2>1. LineEnd - 1 \in 0 .. Len(buffer)
    BY <1>1, <1>2
  <2>2. Unused = Join(buffer, wire) /\ buffer \in Bytes /\ wire \in Bytes
    BY <1>1, UnusedFacts
  <2>3. SubSeq(Join(buffer, wire), 1, LineEnd - 1) = SubSeq(buffer, 1, LineEnd - 1)
    BY <2>1, <2>2, CutOfJoin
  <2> QED
    BY <2>2, <2>3
<1>7. Whole!Drop(Unused, LineEnd + 1) = Drop(Unused, LineEnd + 1)
  BY SameBytes
<1>8. Whole!IsSize(line) = IsSize(line) /\ Whole!Value(line) = Value(line)
  BY SameValue
<1>9. Whole!Fits(Value(line)) = Fits(Value(line))
  BY SameValue
<1>10. Want(Value(line), "chunk") => Whole!Want(Value(line), "chunk")
  BY <1>1 DEF Want, Goto, Whole!Want, Whole!Goto
<1>11. Reject /\ UNCHANGED readVars => Whole!Reject /\ UNCHANGED Whole!readVars
  BY <1>1 DEF Reject, Goto, Whole!Reject, Whole!Goto, readVars, Whole!readVars
<1>12. Whole!Idle /\ Whole!SameRequest
  BY <1>1 DEF Whole!Idle, Whole!SameRequest
<1> HIDE DEF line
<1>13. \/ Whole!IsSize(line) /\ Whole!Fits(Whole!Value(line)) /\ Whole!Want(Whole!Value(line), "chunk")
       \/ ~(Whole!IsSize(line) /\ Whole!Fits(Whole!Value(line))) /\ Whole!Reject /\ UNCHANGED Whole!readVars
  BY <1>3, <1>8, <1>9, <1>10, <1>11
<1>14. SubSeq(Unused, 1, Whole!LineEnd - 1) = line
  BY <1>2, <1>6
<1>15. Unused' = Whole!Drop(Unused, Whole!LineEnd + 1)
  BY <1>2, <1>5, <1>7
<1> QED
  BY <1>1, <1>2, <1>12, <1>13, <1>14, <1>15 DEF Whole!ChunkSize


-----------------------------------------------------------------------------
(* readBytes: one step of Whole's is a take and every fill after it.       *)

\* All of a sequence, and nothing after it.
LEMMA CutAll ==
  ASSUME NEW s \in Bytes
  PROVE  SubSeq(s, 1, Len(s)) = s /\ Drop(s, Len(s)) = <<>>
<1>1. Len(s) \in Nat /\ Len(s) \in 0 .. Len(s)
  BY DEF Bytes
<1>2. s = Join(SubSeq(s, 1, Len(s)), Drop(s, Len(s)))
  BY <1>1, CutAndJoin
<1>3. /\ Drop(s, Len(s)) \in Bytes /\ Len(Drop(s, Len(s))) = Len(s) - Len(s)
      /\ SubSeq(s, 1, Len(s)) \in Bytes
  BY <1>1, CutFacts
<1>4. Drop(s, Len(s)) = <<>>
  BY <1>1, <1>3, EmptySeq DEF Bytes
<1>5. Join(SubSeq(s, 1, Len(s)), <<>>) = SubSeq(s, 1, Len(s))
  BY <1>3, JoinBytes
<1> QED
  BY <1>2, <1>4, <1>5

\* What is left for Whole to show of a step that ends a readBytes.
LEMMA WholeTakes ==
  ASSUME pc \in {"take", "fill"}, pc' # "fill", size <= MaxAlloc, NEW copied,
         copied = Smaller(size, Len(Unused)),
         data' = SubSeq(Unused, 1, copied), Unused' = Drop(Unused, copied),
         pc' = IF copied = size THEN after ELSE "reject",
         copied # size => end # "open", end \in {"eof", "reset", "open"},
         UNCHANGED <<end, request, body, size, after, chunk, responses, writeFailed>>
  PROVE  Whole!TakeBytes
<1>1. /\ Whole!Smaller(size, Len(Unused)) = copied
      /\ Whole!Drop(Unused, copied) = Drop(Unused, copied)
  BY SameBytes
<1>2. Whole!SameRequest /\ Whole!Idle
  BY DEF Whole!SameRequest, Whole!Idle
<1> QED
  BY <1>1, <1>2 DEF Whole!TakeBytes, Whole!Goto

LEMMA TakeBytesPiece ==
  ASSUME IInv, EndSeen, TakeBytes PROVE Whole!TakeBytes \/ UNCHANGED Whole!vars
<1> DEFINE copied == Smaller(size, Len(buffer))
<1>1. /\ pc = "take" /\ size <= MaxAlloc
      /\ data' = SubSeq(buffer, 1, copied) /\ buffer' = Drop(buffer, copied)
      /\ pc' = IF copied = size THEN after ELSE IF readErr # "none" THEN "reject" ELSE "fill"
      /\ UNCHANGED <<end, wire, request, body, chunk, readErr, size, after, responses,
                     writeFailed>>
  BY DEF TakeBytes, Goto, SameRequest, Idle
<1>2. /\ Unused = Join(buffer, wire) /\ buffer \in Bytes /\ wire \in Bytes
      /\ Len(Unused) = Len(buffer) + Len(wire) /\ Len(buffer) \in Nat /\ Len(wire) \in Nat
      /\ Unused \in Bytes /\ (wire = <<>> => Unused = buffer)
  BY <1>1, UnusedFacts
<1>3. /\ size \in Nat /\ after \in {"body", "chunk", "ending"}
      /\ end \in {"eof", "reset", "open"}
  BY RawHttpAssumption DEF IInv, TypeOK
<1>4. copied \in 0 .. Len(buffer)
  BY <1>2, <1>3 DEF Smaller
<1>5. CASE copied = size
  <2>1. pc' # "fill" /\ pc' = after
    BY <1>1, <1>3, <1>5
  <2>2. copied = Smaller(size, Len(Unused))
    BY <1>2, <1>3, <1>4, <1>5 DEF Smaller
  <2> HIDE DEF copied
  <2>3. /\ Unused' = Drop(Unused, copied) /\ SubSeq(Unused, 1, copied) = SubSeq(buffer, 1, copied)
    BY <1>1, <1>4, <2>1, TakePiece
  <2>4. Whole!TakeBytes
    BY <1>1, <1>3, <1>5, <2>1, <2>2, <2>3, WholeTakes
  <2> QED
    BY <2>4
<1>6. CASE copied # size /\ readErr # "none"
  <2>1. wire = <<>> /\ end # "open" /\ Unused = buffer
    BY <1>2, <1>6 DEF EndSeen
  <2>2. copied = Smaller(size, Len(Unused))
    BY <2>1
  <2> HIDE DEF copied
  <2>3. pc' = "reject"
    BY <1>1, <1>6
  <2>4. Unused' = Drop(Unused, copied) /\ SubSeq(Unused, 1, copied) = SubSeq(buffer, 1, copied)
    BY <1>1, <1>4, <2>3, TakePiece
  <2>5. Whole!TakeBytes
    BY <1>1, <1>3, <1>6, <2>1, <2>2, <2>3, <2>4, WholeTakes
  <2> QED
    BY <2>5
<1>7. CASE copied # size /\ readErr = "none"
  <2>1. copied = Len(buffer) /\ pc' = "fill"
    BY <1>1, <1>2, <1>3, <1>7 DEF Smaller
  <2> HIDE DEF copied
  <2>2. data' = buffer
    BY <1>1, <1>2, <2>1, CutAll
  <2>3. Unused' = Unused
    BY <1>1, <1>2, <2>1, <2>2, UnusedIsNext
  <2>4. data = <<>>
    BY <1>1 DEF EndSeen
  <2>5. UNCHANGED Whole!vars
    BY <1>1, <2>1, <2>3, <2>4, Stutters
  <2> QED
    BY <2>5
<1> QED
  BY <1>5, <1>6, <1>7

LEMMA PanicPiece == ASSUME Panic PROVE Whole!Panic
<1>1. /\ pc = "take" /\ size > MaxAlloc /\ pc' = "dead"
      /\ UNCHANGED <<end, wire, buffer, readErr, request, body, chunk, size, data, after,
                     responses, writeFailed>>
  BY DEF Panic, Goto, SameRequest, Idle, readVars
<1>2. Unused' = Unused
  BY <1>1, UnusedIs, UnusedIsNext
<1> QED
  BY <1>1, <1>2 DEF Whole!Panic, Whole!Goto, Whole!SameRequest, Whole!Idle,
     Whole!readVars

LEMMA FillBytesPiece ==
  ASSUME IInv, FillBytes PROVE Whole!TakeBytes \/ UNCHANGED Whole!vars
<1>1. size \in Nat /\ Len(data) \in Nat /\ Len(data) <= size /\ data \in Bytes
      /\ wire \in Bytes /\ Len(wire) \in Nat /\ end \in {"eof", "reset", "open"}
      /\ after \in {"body", "chunk", "ending"}
  BY RawHttpAssumption DEF IInv, TypeOK, Bytes
<1>2. PICK r \in Results(size - Len(data)) :
        /\ pc = "fill" /\ data' = data \o SubSeq(wire, 1, r.n) /\ wire' = Drop(wire, r.n)
        /\ pc' = IF Len(data) + r.n = size THEN after
                 ELSE IF r.err # "none" THEN "reject" ELSE "fill"
        /\ UNCHANGED <<end, buffer, readErr, request, body, chunk, size, after, responses,
                       writeFailed>>
  BY DEF FillBytes, Goto, SameRequest
<1>3. buffer = <<>> /\ size <= MaxAlloc
  BY <1>2 DEF IInv, FillsFromEmpty, Fitting
<1>4. r.n \in 0 .. Len(wire) /\ r.n <= size - Len(data)
  <2>1. size - Len(data) \in Nat
    BY <1>1
  <2> QED
    BY <1>1, <2>1, ReadFacts
<1>5. r.err # "none" => end # "open" /\ r.n = Len(wire)
  BY DEF Results
<1> DEFINE got == SubSeq(wire, 1, r.n)
           rest == Drop(wire, r.n)
           taken == Join(data, got)
           n == Len(data) + r.n
<1>6. got \in Bytes /\ rest \in Bytes /\ wire = Join(got, rest) /\ Len(got) = r.n
  BY <1>1, <1>4, CutFacts, CutAndJoin
<1>7. data' = taken /\ wire' = rest
  BY <1>2 DEF Join
<1> HIDE DEF got, rest
<1>8. taken \in Bytes /\ Len(taken) = n /\ Unused = Join(taken, rest)
      /\ Len(Unused) = Len(data) + Len(wire)
  <2>1. Unused = Join(data, wire)
    BY <1>2, UnusedIs
  <2>2. Join(taken, rest) = Join(data, Join(got, rest))
    BY <1>1, <1>6, JoinBytes
  <2>3. taken \in Bytes /\ Len(taken) = Len(data) + Len(got)
    BY <1>1, <1>6, JoinBytes
  <2>4. Len(Join(data, wire)) = Len(data) + Len(wire)
    BY <1>1, JoinBytes
  <2> QED
    BY <1>6, <2>1, <2>2, <2>3, <2>4
<1> HIDE DEF taken
<1>9. CASE pc' = "fill"
  <2>1. Unused' = Unused
    BY <1>7, <1>8, <1>9, UnusedIsNext
  <2>2. UNCHANGED Whole!vars
    BY <1>2, <1>9, <2>1, Stutters
  <2> QED
    BY <2>2
<1>10. CASE pc' # "fill"
  <2>1. /\ n = size \/ (r.n = Len(wire) /\ end # "open")
        /\ pc' = IF n = size THEN after ELSE "reject"
    BY <1>2, <1>5, <1>10
  <2>2. n = Smaller(size, Len(Unused)) /\ n \in Nat
    BY <1>1, <1>4, <1>8, <2>1 DEF Smaller
  <2>3. Unused' = rest
    <3>1. Unused' = Join(<<>>, rest)
      BY <1>2, <1>3, <1>7, <1>10, UnusedIsNext
    <3> QED
      BY <1>6, <3>1, JoinBytes
  <2>4. SubSeq(Unused, 1, n) = taken /\ Drop(Unused, n) = rest
    <3> HIDE DEF n
    <3>1. n \in 0 .. Len(taken)
      BY <1>8, <2>2
    <3>2. /\ SubSeq(Join(taken, rest), 1, n) = SubSeq(taken, 1, n)
          /\ Drop(Join(taken, rest), n) = Join(Drop(taken, n), rest)
      BY <1>6, <1>8, <3>1, CutOfJoin
    <3>3. SubSeq(taken, 1, n) = taken /\ Drop(taken, n) = <<>>
      BY <1>8, CutAll
    <3>4. Join(<<>>, rest) = rest
      BY <1>6, JoinBytes
    <3> QED
      BY <1>8, <3>2, <3>3, <3>4
  <2> HIDE DEF n
  <2>5. Whole!TakeBytes
    BY <1>1, <1>2, <1>3, <1>7, <1>10, <2>1, <2>2, <2>3, <2>4, WholeTakes
  <2> QED
    BY <2>5
<1> QED
  BY <1>9, <1>10

-----------------------------------------------------------------------------
(* The steps that read nothing.                                            *)

\* The bytes stay as they are.
LEMMA UnusedKept ==
  ASSUME pc # "fill", pc' # "fill", UNCHANGED <<buffer, wire>>
  PROVE  Unused' = Unused
  BY UnusedIs, UnusedIsNext

LEMMA BodyPiece ==
  /\ WholeBody => Whole!WholeBody
  /\ ChunkRead => Whole!ChunkRead
  /\ ChunkEnding => Whole!ChunkEnding
<1>1. ASSUME WholeBody PROVE Whole!WholeBody
  <2>1. Unused' = Unused
    BY <1>1, UnusedKept DEF WholeBody, Goto, Idle
  <2> QED
    BY <1>1, <2>1 DEF WholeBody, Goto, Idle, readVars, Whole!WholeBody, Whole!Goto,
       Whole!Idle, Whole!readVars
<1>2. ASSUME ChunkRead PROVE Whole!ChunkRead
  <2>1. Unused' = Unused
    BY <1>2, UnusedKept DEF ChunkRead, Want, Goto, Idle
  <2> QED
    BY <1>2, <2>1 DEF ChunkRead, Want, Goto, Idle, Whole!ChunkRead, Whole!Want,
       Whole!Goto, Whole!Idle
<1>3. ASSUME ChunkEnding PROVE Whole!ChunkEnding
  <2>1. Unused' = Unused
    BY <1>3, UnusedKept DEF ChunkEnding, AppendChunk, Reject, Goto, Idle
  <2>2. Whole!CRLF = CRLF
    BY SameBytes
  <2>3. pc' \in {"reject", "respond", "size", "dead"}
    BY <1>3 DEF ChunkEnding, AppendChunk, Reject, Goto
  <2> QED
    BY <1>3, <2>1, <2>2, <2>3 DEF ChunkEnding, AppendChunk, Reject, Goto, Idle, readVars,
       Whole!ChunkEnding, Whole!AppendChunk, Whole!Reject, Whole!Goto, Whole!Idle, Whole!readVars
<1> QED
  BY <1>1, <1>2, <1>3

LEMMA WritePiece ==
  ASSUME NEW reply, NEW next, pc # "fill", pc' # "fill"
  PROVE  Write(reply, next) => Whole!Write(reply, next)
  BY DEF Write, Goto, Whole!Write, Whole!Goto

LEMMA RespondPiece ==
  /\ Respond => Whole!Respond
  /\ Refuse => Whole!Refuse
<1>1. ASSUME Respond PROVE Whole!Respond
  <2> DEFINE next == IF shouldClose(Request[request]) THEN "closed" ELSE "head"
  <2>1. /\ pc = "respond" /\ Write(route(Request[request]), next)
        /\ request' = "none" /\ body' = <<>> /\ chunk' = <<>>
        /\ UNCHANGED <<end, wire, buffer, readErr, size, data, after>>
    BY <1>1 DEF Respond, readVars
  <2>2. next \in {"closed", "head"}
    OBVIOUS
  <2>3. pc' # "fill"
    BY <2>1, <2>2 DEF Write, Goto
  <2>4. /\ Whole!route(Request[request]) = route(Request[request])
        /\ Whole!shouldClose(Request[request]) = shouldClose(Request[request])
    BY SameRules
  <2>5. Whole!Write(Whole!route(Request[request]),
          IF Whole!shouldClose(Request[request]) THEN "closed" ELSE "head")
    BY <2>1, <2>3, <2>4, WritePiece
  <2>6. Unused' = Unused
    BY <2>1, <2>3, UnusedKept
  <2> QED
    BY <2>1, <2>3, <2>5, <2>6 DEF Whole!Respond, Whole!readVars
<1>2. ASSUME Refuse PROVE Whole!Refuse
  <2>1. /\ pc = "reject" /\ Write(BadRequest, "closed")
        /\ request' = "none" /\ body' = <<>> /\ chunk' = <<>>
        /\ UNCHANGED <<end, wire, buffer, readErr, size, data, after>>
    BY <1>2 DEF Refuse, readVars
  <2>2. pc' # "fill"
    BY <2>1 DEF Write, Goto
  <2>3. Whole!Write(Whole!BadRequest, "closed")
    BY <2>1, <2>2, SameRules, WritePiece
  <2>4. Unused' = Unused
    BY <2>1, <2>2, UnusedKept
  <2> QED
    BY <2>1, <2>2, <2>3, <2>4 DEF Whole!Refuse, Whole!readVars
<1> QED
  BY <1>1, <1>2

-----------------------------------------------------------------------------
\* Where the stream is cut into reads decides nothing: every step is a read, or
\* the step of a connection that holds the whole stream (framing.go:33-64,
\* parser.go:22-43).
THEOREM PiecesDecideNothing == Spec => PiecesDoNotMatter
<1>1. ASSUME IInv, EndSeen, [Next]_vars PROVE [Whole!Next]_(Whole!vars)
  <2>1. CASE Next
    BY <1>1, <2>1, ReadHeadPiece, HeadTooLongPiece, HeadEndedPiece, ParseHeadPiece,
       PanicPiece, TakeBytesPiece, FillBytesPiece, BodyPiece, ReadChunkLinePiece,
       ChunkLineEndedPiece, ChunkSizePiece, RespondPiece
    DEF Next, Working, Whole!Next, Whole!Working
  <2>2. CASE UNCHANGED vars
    BY <2>2 DEF vars, readVars, Whole!vars, Whole!readVars, Unused
  <2> QED
    BY <1>1, <2>1, <2>2
<1> QED
  BY <1>1, Inductive, EndSeenInductive, PTL DEF Spec, PiecesDoNotMatter
=============================================================================
