----------------------------- MODULE MCRawHttp -----------------------------
(***************************************************************************)
(* RawHttp for TLC: a client pipelines a short list of requests, any       *)
(* prefix of their bytes reaches the server, in pieces of every size, and  *)
(* the responses are compared with what the list deserves.  The reference  *)
(* knows nothing of buffers: it adds up lengths.                           *)
(***************************************************************************)
EXTENDS RawHttpPieces

VARIABLES script,   \* the requests, in the order they were sent
          sent      \* how many of their bytes reach the server

\* The fields of a request that has none of its own.
Plain == [valid |-> TRUE, method |-> "GET", target |-> "/", host |-> <<"h">>,
          te |-> <<>>, cl |-> <<>>, connection |-> {}]

Post == [Plain EXCEPT !.method = "POST", !.target = "/echo"]
WithLength(n) == [Post EXCEPT !.cl = <<n>>]
Chunks == [Post EXCEPT !.te = <<"chunked">>]

\* Every request of a list.  "fits" is a header section of exactly MaxHeader
\* bytes and "big" one of a byte more; "echo" and "parts" carry CRLF as data,
\* and "echo" has the longest body.  "over" and "wide" declare a length beyond
\* MaxInt, "sum" two that together are; "huge", "vast" and "pile" stay below it
\* but cannot be allocated.
MCRequest ==
  [get   |-> Plain,
   none  |-> [Plain EXCEPT !.target = "/other"],
   put   |-> [Plain EXCEPT !.method = "PUT"],
   last  |-> [Plain EXCEPT !.connection = {"close", "keep-alive"}],
   fits  |-> Plain,
   big   |-> Plain,
   echo  |-> [Post EXCEPT !.cl = <<3, 3>>],
   parts |-> Chunks,
   zeros |-> Chunks,
   torn  |-> Chunks,
   wide  |-> Chunks,
   sum   |-> Chunks,
   vast  |-> Chunks,
   pile  |-> Chunks,
   over  |-> WithLength(5),
   huge  |-> WithLength(4),
   word  |-> Chunks,
   both  |-> [Chunks EXCEPT !.cl = <<1>>],
   twice |-> [Post EXCEPT !.te = <<"chunked", "chunked">>],
   clash |-> [Post EXCEPT !.cl = <<1, 2>>],
   anon  |-> [Plain EXCEPT !.host = <<>>],
   junk  |-> [Plain EXCEPT !.valid = FALSE]]

MCDigit == ("0" :> 0) @@ ("1" :> 1) @@ ("2" :> 2) @@ ("3" :> 3)
             @@ ("4" :> 4) @@ ("5" :> 5)
MCLetter == DOMAIN MCRequest \cup DOMAIN MCDigit \cup {"r", "n", "d", "x"}

Pad == [k \in DOMAIN MCRequest |->
          IF k = "fits" THEN MaxHeader - 5 ELSE IF k = "big" THEN MaxHeader - 4 ELSE 0]
HeadOf(k) == <<k>> \o [i \in 1 .. Pad[k] |-> "x"] \o Blank

\* A chunk of n bytes, whose size line is digit.
Chunk(digit, n) == <<digit>> \o CRLF \o [i \in 1 .. n |-> "d"] \o CRLF

\* What follows the header section on the wire.
TailOf(k) ==
  CASE k = "echo"  -> <<"r", "n", "d">>
    [] k = "parts" -> <<"2", "r", "n", "r", "n", "r", "n",
                        "1", "r", "n", "d", "r", "n", "0", "r", "n", "r", "n">>
    [] k = "zeros" -> [i \in 1 .. MaxHeader |-> "0"] \o
                      <<"1", "r", "n", "d", "r", "n", "0", "r", "n", "r", "n">>
    [] k = "torn"  -> <<"1", "r", "n", "d", "d", "r", "n">>
    [] k = "wide"  -> Chunk("5", 5) \o Chunk("0", 0)
    [] k = "sum"   -> Chunk("3", 3) \o Chunk("2", 2) \o Chunk("0", 0)
    [] k = "vast"  -> Chunk("4", 4) \o Chunk("0", 0)
    [] k = "pile"  -> Chunk("2", 2) \o Chunk("2", 2) \o Chunk("0", 0)
    [] k = "word"  -> <<"x", "r", "n", "r", "n">>
    [] OTHER       -> <<>>

\* What a client sees when the program ends: the connection is gone, and there
\* is no reply.
Crash == Reply(0, <<>>)

\* The reply to each request, and after how many bytes it is owed.
Owed(k) ==
  CASE k = "none" -> Reply(404, <<"Not Found">>)
    [] k = "put" -> Reply(405, <<"Method Not Allowed">>)
    [] k = "echo" -> Reply(200, <<"r", "n", "d">>)
    [] k = "parts" -> Reply(200, <<"r", "n", "d">>)
    [] k = "zeros" -> Reply(200, <<"d">>)
    [] k \in {"get", "last", "fits"} -> Reply(200, <<"Hello World!">>)
    [] k \in {"huge", "vast", "pile"} -> Crash
    [] OTHER -> Reply(400, <<"Bad Request">>)

Due(k) ==
  CASE k = "big"  -> MaxHeader
    [] k = "torn" -> 5 + 6
    [] k \in {"wide", "vast"} -> 5 + 3
    [] k = "sum"  -> 5 + 8 + 3
    [] k = "pile" -> 5 + 7 + 7
    [] k = "word" -> 5 + 3
    [] OTHER      -> Len(HeadOf(k)) + Len(TailOf(k))

Ends(k) == k = "last" \/ Owed(k).status = 400 \/ Owed(k) = Crash

Stream(list) == FlattenSeq([i \in DOMAIN list |-> HeadOf(list[i]) \o TailOf(list[i])])

\* The replies to list when n of its bytes arrive and then the stream ends so:
\* one for each request whose bytes are there, up to the first that ends the
\* connection, and a 400 for a request cut short, which a clean close between
\* two requests is not.
RECURSIVE Expected(_, _)
Expected(list, n) ==
  IF list = <<>> \/ n < Due(list[1])
  THEN IF end = "reset" \/ (end = "eof" /\ n > 0)
       THEN <<Reply(400, <<"Bad Request">>)>> ELSE <<>>
  ELSE <<Owed(list[1])>> \o
       IF Ends(list[1]) THEN <<>>
       ELSE Expected(Drop(list, 1), n - Len(HeadOf(list[1]) \o TailOf(list[1])))

\* Every request before and after every other.
Scripts == {<<j, k>> : j, k \in DOMAIN MCRequest} \cup
           {<<"get", "echo", "last">>, <<"parts", "none", "big">>}

MCInit ==
  /\ script \in Scripts
  /\ sent \in 0 .. Len(Stream(script))
  /\ InitFor(SubSeq(Stream(script), 1, sent))

MCNext == Next /\ UNCHANGED <<script, sent>>
MCvars == <<vars, script, sent>>
MCSpec == MCInit /\ [][MCNext]_MCvars
MCFairSpec == MCSpec /\ Fairness

\* What the client has been given.
Seen == responses \o (IF pc = "dead" THEN <<Crash>> ELSE <<>>)

\* However the bytes are cut into reads, the client has been sent the replies
\* its requests deserve, in order, and nothing else: no request is split,
\* merged, skipped or answered from another's bytes (server.go:16-55).
RepliesInOrder == IsPrefix(Seen, Expected(script, sent))

\* A connection is closed, unless a write failed, only when every request that
\* arrived whole has its reply, one cut short its 400, and a client that closed
\* between two requests is sent nothing more (server.go:18-35); and the program
\* ends only for a length that cannot be allocated, with the requests before it
\* answered (framing.go:50).
ClosedAnswered ==
  pc \in {"closed", "dead"} /\ ~writeFailed => Seen = Expected(script, sent)

\* Every request that has arrived is answered even if the client then says
\* nothing: no reply waits for bytes of the next request (parser.go:22-37).  The
\* exception is a write that never returns, to a client that reads nothing.
ArrivedIsAnswered ==
  <>(Seen = Expected(script, sent) \/ writeFailed) \/ <>[]Writing
=============================================================================
