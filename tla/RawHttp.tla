------------------------------ MODULE RawHttp ------------------------------
(***************************************************************************)
(* rawhttp.HandleConnection (internal/rawhttp): HTTP/1.1 requests taken    *)
(* from a byte stream that arrives in pieces of any size, answered in      *)
(* order on one connection.                                                *)
(*                                                                         *)
(* A byte is a letter.  The request line and the header fields are folded  *)
(* into one letter, the name of the request, which Request maps to what    *)
(* the parser finds in them; letters of padding may follow it.  The blank  *)
(* line, the body and the chunks stay bytes, because where they are cut is *)
(* what the reader can get wrong.  A client sends its requests without     *)
(* waiting, stops after any byte, and then ends the stream, resets it or   *)
(* falls silent.  The 8 KiB header limit, the 1 KiB reads, the largest int *)
(* and the longest slice that can be allocated are small constants.        *)
(***************************************************************************)
EXTENDS Integers, Sequences, FiniteSets, SequencesExt

CONSTANTS Request,    \* letter -> what the parser finds in the header section
          Digit,      \* letter -> value of a hexadecimal digit
          Letter,     \* every byte
          MaxHeader,  \* MaxHeaderBytes
          ReadSize,   \* len(temp)
          MaxInt,     \* the largest int
          MaxAlloc    \* the longest slice that can be allocated

ASSUME RawHttpAssumption ==
  /\ MaxHeader \in Nat \ {0} /\ ReadSize \in 1 .. MaxHeader
  /\ MaxInt \in Nat \ {0, 1} /\ MaxAlloc \in 0 .. MaxInt
  /\ {"r", "n"} \subseteq Letter /\ DOMAIN Request \subseteq Letter
  /\ Request \in [DOMAIN Request ->
       [valid : BOOLEAN, method : STRING, target : STRING, host : Seq(STRING),
        te : Seq(STRING), cl : Seq(Int), connection : SUBSET STRING]]
  /\ DOMAIN Digit \subseteq Letter
  /\ \A d \in DOMAIN Digit : Digit[d] \in Nat

CRLF  == <<"r", "n">>
Blank == CRLF \o CRLF

VARIABLES end,        \* what follows the last byte: "eof", "reset", "open"
          wire,       \* bytes the server has not read yet
          pc,         \* where the connection's goroutine is; "dead": it
                      \* panicked, and the process is gone
          buffer,     \* requestReader.buffer
          readErr,    \* requestReader.readErr
          request,    \* the parsed request
          body,       \* its body so far
          size, data, after,  \* readBytes: how many, those it has, who called
          chunk,      \* the chunk whose CRLF is being checked
          responses,  \* what the client was sent
          writeFailed \* a write returned an error

readVars == <<size, data, after>>
vars == <<end, wire, pc, buffer, readErr, request, body, readVars, chunk,
          responses, writeFailed>>

Drop(s, n) == SubSeq(s, n + 1, Len(s))
Smaller(m, n) == IF m < n THEN m ELSE n

\* bytes.Index: where p begins in s, 0 if it does not.
Index(s, p) ==
  LET at == {i \in 1 .. Len(s) - Len(p) + 1 : SubSeq(s, i, i + Len(p) - 1) = p}
  IN IF at = {} THEN 0 ELSE CHOOSE i \in at : \A j \in at : i <= j

\* An empty connection on which stream will arrive.
InitFor(stream) ==
  /\ wire = stream
  /\ end \in {"eof", "reset", "open"}
  /\ pc = "head" /\ buffer = <<>> /\ readErr = "none"
  /\ request = "none" /\ body = <<>> /\ chunk = <<>>
  /\ size = 0 /\ data = <<>> /\ after = "body"
  /\ responses = <<>> /\ writeFailed = FALSE

-----------------------------------------------------------------------------
(* The reader.                                                             *)

\* The results of a Read of at most limit bytes: some bytes, the last of them
\* possibly with the error that ends the stream, or that error alone.
Results(limit) ==
  {r \in [n : 0 .. Smaller(limit, Len(wire)), err : {"none", end}] :
     /\ r.err = "none" => r.n > 0
     /\ r.err # "none" => end # "open" /\ r.n = Len(wire)}

Goto(at) == pc' = at

\* Mutant: a read that fails discards the bytes that came with the error.
FetchErrorFirst(limit) == \E r \in Results(limit) :
  /\ buffer' = IF r.err = "none" THEN buffer \o SubSeq(wire, 1, r.n) ELSE buffer
  /\ wire' = Drop(wire, r.n)
  /\ readErr' = r.err
  /\ UNCHANGED <<end, pc, request, body, readVars, chunk, responses, writeFailed>>

\* Mutant: io.ReadFull in place of Read.
FetchFull(limit) == \E r \in Results(limit) :
  /\ r.err = "none" => r.n = limit
  /\ buffer' = buffer \o SubSeq(wire, 1, r.n)
  /\ wire' = Drop(wire, r.n)
  /\ readErr' = r.err
  /\ UNCHANGED <<end, pc, request, body, readVars, chunk, responses, writeFailed>>

\* r.buffer = append(r.buffer, temp[:n]...); r.readErr = err.
Fetch(limit) == \E r \in Results(limit) :
  /\ buffer' = buffer \o SubSeq(wire, 1, r.n)
  /\ wire' = Drop(wire, r.n)
  /\ readErr' = r.err
  /\ UNCHANGED <<end, pc, request, body, readVars, chunk, responses, writeFailed>>

\* return request, err.
Reject == Goto("reject")

Idle == UNCHANGED <<end, wire, responses, writeFailed>>
SameRequest == UNCHANGED <<request, body, chunk>>

-----------------------------------------------------------------------------
(* readRequest.                                                            *)

HeadEnd == Index(buffer, Blank)
Seeking == pc = "head" /\ HeadEnd = 0

ReadHead ==
  /\ Seeking /\ Len(buffer) < MaxHeader /\ readErr = "none"
  /\ Fetch(Smaller(ReadSize, MaxHeader - Len(buffer)))

\* headers exceed maximum of %d bytes, before the blank line was seen.
HeadTooLong ==
  /\ Seeking /\ Len(buffer) >= MaxHeader
  /\ Reject /\ SameRequest /\ Idle
  /\ UNCHANGED <<buffer, readErr, readVars>>

\* The stream ended: between two requests this is how a connection closes.
HeadEnded ==
  /\ Seeking /\ Len(buffer) < MaxHeader /\ readErr # "none"
  /\ IF readErr = "eof" /\ buffer = <<>> THEN Goto("closed") ELSE Reject
  /\ SameRequest /\ Idle
  /\ UNCHANGED <<buffer, readErr, readVars>>

\* Lines 39 to 69: the size, the counts, the request line and every field.
WellFormed ==
  /\ HeadEnd - 1 + Len(Blank) <= MaxHeader
  /\ buffer[1] \in DOMAIN Request /\ Request[buffer[1]].valid

\* validateRequestSemantics: exactly one Host field, and not an empty one.
HostNamed(q) == Len(q.host) = 1 /\ q.host[1] # ""

\* readBody: a repeated Transfer-Encoding is one list, and only "chunked" is
\* supported; Content-Length may be repeated but not contradicted.  A value
\* that is not a number, is negative or does not fit is -1.
Chunked(q) == q.te = <<"chunked">> /\ q.cl = <<>>
LengthKnown(q) ==
  /\ q.te = <<>>
  /\ \A i \in DOMAIN q.cl : q.cl[i] \in 0 .. MaxInt /\ q.cl[i] = q.cl[1]
ContentLength(q) == IF q.cl = <<>> THEN 0 ELSE q.cl[1]

\* readBytes(r, n), called from the place named by caller.
Want(n, caller) == size' = n /\ after' = caller /\ data' = <<>> /\ Goto("take")

\* Mutant: the bytes read past the blank line are thrown away.
ConsumeAll == buffer' = <<>>

\* r.buffer = r.buffer[end+len(separator):].
Consume == buffer' = Drop(buffer, HeadEnd - 1 + Len(Blank))

ParseHead ==
  /\ pc = "head" /\ HeadEnd > 0
  /\ IF ~WellFormed THEN Reject /\ UNCHANGED <<buffer, request, readVars>>
     ELSE LET q == Request[buffer[1]] IN
          /\ Consume
          /\ request' = buffer[1]
          /\ \/ HostNamed(q) /\ LengthKnown(q) /\ Want(ContentLength(q), "body")
             \/ HostNamed(q) /\ Chunked(q) /\ Goto("size") /\ UNCHANGED readVars
             \/ /\ ~(HostNamed(q) /\ (LengthKnown(q) \/ Chunked(q)))
                /\ Reject /\ UNCHANGED readVars
  /\ Idle
  /\ UNCHANGED <<readErr, body, chunk>>

-----------------------------------------------------------------------------
(* readBytes.                                                              *)

\* make([]byte, size), before a byte is read: a length that cannot be allocated
\* panics, nothing recovers, and the program ends without a reply.
Panic ==
  /\ pc = "take" /\ size > MaxAlloc
  /\ Goto("dead")
  /\ SameRequest /\ Idle
  /\ UNCHANGED <<buffer, readErr, readVars>>

\* What is buffered first; then the socket, unless it has already failed.
TakeBytes ==
  /\ pc = "take" /\ size <= MaxAlloc
  /\ LET copied == Smaller(size, Len(buffer)) IN
     /\ data' = SubSeq(buffer, 1, copied)
     /\ buffer' = Drop(buffer, copied)
     /\ Goto(IF copied = size THEN after
             ELSE IF readErr # "none" THEN "reject" ELSE "fill")
  /\ SameRequest /\ Idle
  /\ UNCHANGED <<readErr, size, after>>

\* Mutant: Read in place of io.ReadFull.
FillOnce == \E r \in Results(size - Len(data)) :
  /\ pc = "fill"
  /\ data' = data \o SubSeq(wire, 1, r.n)
  /\ wire' = Drop(wire, r.n)
  /\ Goto(IF Len(data) + r.n = size \/ r.err = "none" THEN after ELSE "reject")
  /\ SameRequest
  /\ UNCHANGED <<end, buffer, readErr, size, after, responses, writeFailed>>

\* One Read of io.ReadFull, which forgets an error that came with the last byte.
FillBytes == \E r \in Results(size - Len(data)) :
  /\ pc = "fill"
  /\ data' = data \o SubSeq(wire, 1, r.n)
  /\ wire' = Drop(wire, r.n)
  /\ Goto(IF Len(data) + r.n = size THEN after
          ELSE IF r.err # "none" THEN "reject" ELSE "fill")
  /\ SameRequest
  /\ UNCHANGED <<end, buffer, readErr, size, after, responses, writeFailed>>

WholeBody ==
  /\ pc = "body"
  /\ body' = data /\ Goto("respond")
  /\ Idle
  /\ UNCHANGED <<buffer, readErr, request, readVars, chunk>>

-----------------------------------------------------------------------------
(* readChunkedBody.                                                        *)

LineEnd == Index(buffer, CRLF)

ReadChunkLine ==
  /\ pc = "size" /\ LineEnd = 0 /\ readErr = "none"
  /\ Fetch(ReadSize)

ChunkLineEnded ==
  /\ pc = "size" /\ LineEnd = 0 /\ readErr # "none"
  /\ Reject /\ SameRequest /\ Idle
  /\ UNCHANGED <<buffer, readErr, readVars>>

\* strconv.ParseUint(line, 16, ...).
Value(line) == FoldLeft(LAMBDA n, d : 16 * n + Digit[d], 0, line)

IsSize(line) == line # <<>> /\ \A i \in DOMAIN line : line[i] \in DOMAIN Digit

\* The body and the next chunk together still have an int length.
Fits(n) == n \in 0 .. MaxInt /\ n <= MaxInt - Len(body)

ChunkSize ==
  /\ pc = "size" /\ LineEnd > 0
  /\ buffer' = Drop(buffer, LineEnd + 1)
  /\ LET line == SubSeq(buffer, 1, LineEnd - 1) IN
     \/ IsSize(line) /\ Fits(Value(line)) /\ Want(Value(line), "chunk")
     \/ ~(IsSize(line) /\ Fits(Value(line))) /\ Reject /\ UNCHANGED readVars
  /\ SameRequest /\ Idle
  /\ UNCHANGED readErr

\* The chunk is complete: two more bytes must end it.
ChunkRead ==
  /\ pc = "chunk"
  /\ chunk' = data /\ Want(2, "ending")
  /\ Idle
  /\ UNCHANGED <<buffer, readErr, request, body>>

\* append(body, chunk...), which panics like make.
AppendChunk ==
  \/ /\ Len(body) + Len(chunk) <= MaxAlloc
     /\ body' = body \o chunk /\ Goto("size")
  \/ /\ Len(body) + Len(chunk) > MaxAlloc
     /\ Goto("dead") /\ UNCHANGED body

\* A chunk of size zero is the last.
ChunkEnding ==
  /\ pc = "ending"
  /\ \/ data # CRLF /\ Reject /\ UNCHANGED body
     \/ data = CRLF /\ chunk = <<>> /\ Goto("respond") /\ UNCHANGED body
     \/ data = CRLF /\ chunk # <<>> /\ AppendChunk
  /\ Idle
  /\ UNCHANGED <<buffer, readErr, request, readVars, chunk>>

-----------------------------------------------------------------------------
(* HandleConnection.                                                       *)

Reply(status, text) == [status |-> status, body |-> text]

route(q) ==
  IF q.target = "/" /\ q.method = "GET" THEN Reply(200, <<"Hello World!">>)
  ELSE IF q.target = "/echo" /\ q.method = "POST" THEN Reply(200, body)
  ELSE IF q.target \in {"/", "/echo"} THEN Reply(405, <<"Method Not Allowed">>)
  ELSE Reply(404, <<"Not Found">>)

BadRequest == Reply(400, <<"Bad Request">>)

\* Every request that gets here is HTTP/1.1, which stays open unless asked.
shouldClose(q) == "close" \in q.connection

\* writeResponse: all of reply is written, or the connection is given up.  There
\* is no write deadline: while a client reads nothing, neither may happen.
Write(reply, next) ==
  \/ responses' = Append(responses, reply) /\ Goto(next) /\ UNCHANGED writeFailed
  \/ writeFailed' = TRUE /\ Goto("closed") /\ UNCHANGED responses

\* The next iteration has a request of its own.
Respond ==
  /\ pc = "respond"
  /\ Write(route(Request[request]),
           IF shouldClose(Request[request]) THEN "closed" ELSE "head")
  /\ request' = "none" /\ body' = <<>> /\ chunk' = <<>>
  /\ UNCHANGED <<end, wire, buffer, readErr, readVars>>

\* The bytes after an invalid request cannot be trusted.
Refuse ==
  /\ pc = "reject"
  /\ Write(BadRequest, "closed")
  /\ request' = "none" /\ body' = <<>> /\ chunk' = <<>>
  /\ UNCHANGED <<end, wire, buffer, readErr, readVars>>

Working ==
  \/ ReadHead \/ HeadTooLong \/ HeadEnded \/ ParseHead
  \/ Panic \/ TakeBytes \/ FillBytes \/ WholeBody
  \/ ReadChunkLine \/ ChunkLineEnded \/ ChunkSize \/ ChunkRead \/ ChunkEnding

Next == Working \/ Respond \/ Refuse

\* The connection's goroutine is scheduled, and bytes in flight arrive.  That a
\* write returns is not assumed: it is up to the client.
Fairness == WF_vars(Working)

\* The goroutine is in a write.
Writing == pc \in {"respond", "reject"}

-----------------------------------------------------------------------------
Bytes == Seq(Letter)
Text == Letter \cup {"Hello World!", "Not Found", "Method Not Allowed", "Bad Request"}
Response == [status : {200, 400, 404, 405}, body : Seq(Text)]

\* Type invariant: every variable holds a value of its kind, and the chunked
\* body always has a length that fits an int (framing.go:102).
TypeOK ==
  /\ end \in {"eof", "reset", "open"}
  /\ readErr \in {"none", "eof", "reset"}
  /\ pc \in {"head", "take", "fill", "body", "size", "chunk", "ending",
             "respond", "reject", "closed", "dead"}
  /\ after \in {"body", "chunk", "ending"}
  /\ wire \in Bytes /\ buffer \in Bytes /\ data \in Bytes
  /\ body \in Bytes /\ chunk \in Bytes
  /\ Len(body) <= MaxInt
  /\ size \in 0 .. MaxInt /\ Len(data) <= size
  /\ request \in DOMAIN Request \cup {"none"}
  /\ responses \in Seq(Response)
  /\ writeFailed \in BOOLEAN

\* The socket is read past requestReader only when its buffer holds nothing and
\* no error is waiting in it, so no byte overtakes another (framing.go:51-60).
FillsFromEmpty == pc = "fill" => buffer = <<>> /\ readErr = "none"

\* While a header section is sought the buffer never outgrows the limit on it,
\* whatever the previous request left there: the check of parser.go:39 has
\* nothing to add to the one of parser.go:24.
HeadBounded == pc = "head" => Len(buffer) <= MaxHeader

\* Spec, over every byte stream.
Init == \E stream \in Bytes : InitFor(stream)
Spec == Init /\ [][Next]_vars
=============================================================================
