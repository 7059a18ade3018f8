--------------------------- MODULE FramedProtocol ---------------------------
(***************************************************************************)
(* One connection of the framed TCP protocol: protocol.Read and            *)
(* protocol.Write at both ends, the server's handleConnection and dispatch *)
(* (tcp/protocol/server), and a client that runs an experiment             *)
(* (tcp/protocol/client) against it; or one of tcp/framing, whose server   *)
(* reads frames in the same way and prints them, and whose client writes   *)
(* its frames and leaves.                                                  *)
(*                                                                         *)
(* A frame is a length prefix of two digits, which stand for the four      *)
(* bytes, and a payload; each travels in pieces.  A byte is a pair: what   *)
(* it counts as in a length prefix, and the message it is part of.  A      *)
(* message is a record; Size is how many bytes its JSON has.  PipeSize is  *)
(* what the socket buffers on one way hold: a write waits for room, and    *)
(* the server's has no deadline.  clock is                                 *)
(* late once the client's absolute deadline has passed; the server's read  *)
(* deadline, rearmed for each request, is longer.  The client's host may   *)
(* vanish, which the server is not told.  handled, replied and logged are  *)
(* history.                                                                *)
(***************************************************************************)
EXTENDS Integers, Sequences, FiniteSets

CONSTANTS Program,   \* the experiments: lists of client operations
          Frames,    \* those of tcp/framing, which only send
          Size(_),   \* bytes of a message's payload
          Base,      \* values of a digit
          MaxFrame,  \* MaxFrameSize, maxMessageSize
          PipeSize   \* bytes on their way in one direction

\* A message that is part of no payload, and a payload that is not JSON.
NoMessage == [version |-> 0, id |-> 0, type |-> "", message |-> ""]
Malformed(m) == m.type = "malformed"

ASSUME FramedAssumption ==
  /\ Base \in Nat \ {0, 1} /\ MaxFrame \in 1 .. Base * Base - 1
  /\ PipeSize \in Nat \ {0}

End == {"client", "server"}
Peer(e) == IF e = "client" THEN "server" ELSE "client"

VARIABLES service,  \* "protocol" or "framing"
          pc,       \* where each end is
          pipe,     \* bytes under way to each end
          got,      \* what the current io.ReadFull of each end has read
          need,     \* and how many bytes it wants
          out,      \* what the current Write of each end still has to send
          conn,     \* each end's socket: open, closed, vanished
          message,  \* the message last decoded at each end
          program,  \* the experiment
          todo,     \* the operations of it the client has not finished
          outcome,  \* of the experiment
          clock,    \* early or late
          handled,  \* the requests dispatched, or the messages printed
          replied,  \* the responses written whole
          logged    \* the server reported the error that ended it

ioVars   == <<pipe, got, need, out>>
histVars == <<handled, replied, logged>>
vars == <<service, pc, ioVars, conn, message, program, todo, outcome, clock, histVars>>

Init ==
  /\ pc = [client |-> "next", server |-> "loop"]
  /\ pipe = [e \in End |-> <<>>] /\ got = [e \in End |-> <<>>]
  /\ need = [e \in End |-> 0] /\ out = [e \in End |-> <<>>]
  /\ conn = [e \in End |-> "open"] /\ message = [e \in End |-> NoMessage]
  /\ \/ service = "protocol" /\ program \in Program
     \/ service = "framing" /\ program \in Frames
  /\ todo = program /\ outcome = "running" /\ clock = "early"
  /\ handled = <<>> /\ replied = <<>> /\ logged = FALSE

Smaller(m, n) == IF m < n THEN m ELSE n
Drop(s, n) == SubSeq(s, n + 1, Len(s))
Goto(e, at) == pc' = [pc EXCEPT ![e] = at]

-----------------------------------------------------------------------------
(* Package protocol.                                                       *)

\* binary.BigEndian.PutUint32, and Uint32.
Prefix(n) == <<<<n \div Base, NoMessage>>, <<n % Base, NoMessage>>>>

Uint32(bytes) == bytes[1][1] * Base + bytes[2][1]

\* json.Marshal and json.Unmarshal: only a whole payload decodes.
Payload(m) == [i \in 1 .. Size(m) |-> <<Base - 1, m>>]
Decodes(bytes) ==
  /\ bytes # <<>> /\ bytes[1][2] # NoMessage /\ ~Malformed(bytes[1][2])
  /\ bytes = Payload(bytes[1][2])

Frame(m) == Prefix(Size(m)) \o Payload(m)

Room(e) == PipeSize - Len(pipe[Peer(e)])

\* A Write carries some of the bytes, as there is room; once the peer has closed
\* they are lost.
WriteSome(e, next) == \E n \in 1 .. Smaller(Len(out[e]), Room(e)) :
  /\ pc[e] = "write"
  /\ out' = [out EXCEPT ![e] = Drop(@, n)]
  /\ pipe' = [pipe EXCEPT ![Peer(e)] = @ \o SubSeq(out[e], 1, n)]
  /\ Goto(e, IF n = Len(out[e]) THEN next ELSE "write")
  /\ UNCHANGED <<got, need, conn, message, program, service, todo, outcome, clock>>

\* io.ReadFull of n bytes, from the place named at.
ReadFull(e, n, at) ==
  /\ got' = [got EXCEPT ![e] = <<>>] /\ need' = [need EXCEPT ![e] = n]
  /\ Goto(e, at)

\* One of its reads.
ReadSome(e) == \E n \in 1 .. Smaller(need[e] - Len(got[e]), Len(pipe[e])) :
  /\ pc[e] \in {"prefix", "payload"} /\ conn[e] = "open"
  /\ got' = [got EXCEPT ![e] = @ \o SubSeq(pipe[e], 1, n)]
  /\ pipe' = [pipe EXCEPT ![e] = Drop(@, n)]
  /\ UNCHANGED <<pc, need, out, conn, message, program, service, todo, outcome, clock, histVars>>

Full(e, at) == pc[e] = at /\ Len(got[e]) = need[e] /\ conn[e] = "open"

\* Mutant: no deadline is set.
WithoutDeadline(e) ==
  {err \in {"EOF", "unexpected EOF", "reset"} :
     /\ pc[e] \in {"prefix", "payload"} /\ Len(got[e]) < need[e] /\ conn[e] = "open"
     /\ err \in {"EOF", "unexpected EOF"} =>
          /\ conn[Peer(e)] = "closed" /\ pipe[e] = <<>>
          /\ (err = "EOF") = (got[e] = <<>>)
     /\ err = "reset" => conn[Peer(e)] = "closed" /\ pipe[Peer(e)] # <<>>}

\* What a read that cannot go on returns: io.EOF only if ReadFull had nothing
\* yet; the connection is reset if the peer closed it with bytes unread.
ReadError(e) ==
  {err \in {"EOF", "unexpected EOF", "reset", "timeout"} :
     /\ pc[e] \in {"prefix", "payload"} /\ Len(got[e]) < need[e] /\ conn[e] = "open"
     /\ err \in {"EOF", "unexpected EOF"} =>
          /\ conn[Peer(e)] = "closed" /\ pipe[e] = <<>>
          /\ (err = "EOF") = (got[e] = <<>>)
     /\ err = "reset" => conn[Peer(e)] = "closed" /\ pipe[Peer(e)] # <<>>
     /\ err = "timeout" => clock = "late"}

\* if size > MaxFrameSize.
Accept(n) == n <= MaxFrame

-----------------------------------------------------------------------------
(* The server.                                                             *)

\* defer conn.Close().
ServerClose ==
  /\ Goto("server", "closed") /\ conn' = [conn EXCEPT !.server = "closed"]

\* The read deadline of the next request, and its Read.
ServerLoop ==
  /\ pc.server = "loop"
  /\ ReadFull("server", 2, "prefix")
  /\ UNCHANGED <<pipe, out, conn, message, program, service, todo, outcome, clock, histVars>>

ServerPrefix ==
  /\ Full("server", "prefix")
  /\ LET n == Uint32(got.server) IN
     \/ /\ Accept(n) /\ ReadFull("server", n, "payload")
        /\ UNCHANGED <<conn, logged>>
     \/ /\ ~Accept(n) /\ ServerClose /\ logged' = TRUE
        /\ UNCHANGED <<got, need>>
  /\ UNCHANGED <<pipe, out, message, program, service, todo, outcome, clock, handled, replied>>

\* Mutant: a payload that does not decode leaves the last request in place.
ServerPayloadStale ==
  /\ Full("server", "payload") /\ service = "protocol"
  /\ message' = [message EXCEPT !.server =
                    IF Decodes(got.server) THEN got.server[1][2] ELSE @]
  /\ Goto("server", "dispatch")
  /\ UNCHANGED <<ioVars, conn, program, service, todo, outcome, clock, histVars>>

ServerPayload ==
  /\ Full("server", "payload") /\ service = "protocol"
  /\ \/ /\ Decodes(got.server)
        /\ message' = [message EXCEPT !.server = got.server[1][2]]
        /\ Goto("server", "dispatch") /\ UNCHANGED <<conn, logged>>
     \/ /\ ~Decodes(got.server)
        /\ ServerClose /\ logged' = TRUE /\ UNCHANGED message
  /\ UNCHANGED <<ioVars, program, service, todo, outcome, clock, handled, replied>>

\* tcp/framing: the payload is the message, which is printed.
ServerPrints ==
  /\ Full("server", "payload") /\ service = "framing"
  /\ handled' = Append(handled, IF got.server = <<>> THEN NoMessage ELSE got.server[1][2])
  /\ Goto("server", "loop")
  /\ UNCHANGED <<ioVars, conn, message, program, service, todo, outcome, clock, replied, logged>>

\* Every error but one that is io.EOF is printed; protocol.Read passes on the
\* io.EOF of a payload as well.
ServerReadFails == \E err \in ReadError("server") :
  /\ ServerClose
  /\ logged' = (err # "EOF" \/ (service = "framing" /\ pc.server = "payload"))
  /\ UNCHANGED <<ioVars, message, program, service, todo, outcome, clock, handled, replied>>

\* Request.Validate.
Valid(m) ==
  /\ m.version = 1 /\ m.id > 0
  /\ m.type \in {"PING", "TIME"} \/ (m.type = "ECHO" /\ m.message # "")

\* dispatch.  message holds the echo, the time or the text of the error, which
\* names an unknown type.
Answer(m) ==
  [version |-> 1, id |-> m.id,
   type |-> IF ~Valid(m) THEN "ERROR" ELSE IF m.type = "PING" THEN "PONG" ELSE m.type,
   message |-> IF ~Valid(m) THEN m.type ELSE m.message]

\* protocol.Write measures the response before it writes any of it.
ServerDispatch ==
  /\ pc.server = "dispatch"
  /\ handled' = Append(handled, message.server)
  /\ LET m == Answer(message.server) IN
     \/ /\ Size(m) <= MaxFrame
        /\ out' = [out EXCEPT !.server = Frame(m)] /\ Goto("server", "write")
        /\ UNCHANGED <<conn, logged>>
     \/ Size(m) > MaxFrame /\ ServerClose /\ logged' = TRUE /\ UNCHANGED out
  /\ UNCHANGED <<pipe, got, need, message, program, service, todo, outcome, clock, replied>>

ServerWrite ==
  /\ WriteSome("server", "wrote")
  /\ replied' = IF pc'.server = "wrote" THEN Append(replied, Answer(message.server))
                ELSE replied
  /\ UNCHANGED <<handled, logged>>

\* The write is refused once the client has closed its end.
ServerWriteFails ==
  /\ pc.server = "write" /\ conn.client = "closed"
  /\ ServerClose /\ logged' = TRUE
  /\ UNCHANGED <<ioVars, message, program, service, todo, outcome, clock, handled, replied>>

\* closeConnection: after the response to a request that is not valid.
CloseAfter(m) == ~Valid(m)

ServerWrote ==
  /\ pc.server = "wrote"
  /\ IF CloseAfter(message.server) THEN ServerClose
     ELSE Goto("server", "loop") /\ UNCHANGED conn
  /\ UNCHANGED <<ioVars, message, program, service, todo, outcome, clock, histVars>>

-----------------------------------------------------------------------------
(* The client.                                                             *)

\* The experiment is over; defer conn.Close().
ClientClose(r) ==
  /\ outcome' = r /\ Goto("client", "closed")
  /\ conn' = [conn EXCEPT !.client = "closed"]
  /\ UNCHANGED <<pipe, need, out, message, program, service, clock, histVars>>

ClientPass ==
  /\ pc.client = "next" /\ todo = <<>>
  /\ ClientClose("pass") /\ UNCHANGED <<got, todo>>

\* protocol.Write; or writeRawFrame, when the bytes are not a message, and
\* writeFrame, which do not measure what they send.
ClientSend ==
  /\ pc.client = "next" /\ todo # <<>> /\ todo[1].op = "send"
  /\ \/ service = "framing" \/ Malformed(todo[1].message)
     \/ Size(todo[1].message) <= MaxFrame
  /\ out' = [out EXCEPT !.client = Frame(todo[1].message)]
  /\ todo' = Drop(todo, 1) /\ Goto("client", "write")
  /\ UNCHANGED <<pipe, got, need, conn, message, program, service, outcome, clock, histVars>>

ClientTooLarge ==
  /\ pc.client = "next" /\ todo # <<>> /\ todo[1].op = "send"
  /\ service = "protocol" /\ ~Malformed(todo[1].message)
  /\ Size(todo[1].message) > MaxFrame
  /\ ClientClose("fail") /\ UNCHANGED <<got, todo>>

ClientWrite ==
  /\ conn.client = "open" /\ WriteSome("client", "next")
  /\ UNCHANGED histVars

\* The deadline passes, which tcp/framing has none of, or the server has closed
\* its end, in mid-frame.
ClientWriteFails ==
  /\ pc.client = "write" /\ conn.client = "open"
  /\ (clock = "late" /\ service = "protocol") \/ conn.server = "closed"
  /\ ClientClose("fail") /\ UNCHANGED <<got, todo>>

\* protocol.Read: for a response, or for the end of the stream.
ClientRead ==
  /\ pc.client = "next" /\ todo # <<>> /\ todo[1].op \in {"reply", "end"}
  /\ ReadFull("client", 2, "prefix")
  /\ UNCHANGED <<pipe, out, conn, message, program, service, todo, outcome, clock, histVars>>

ClientPrefix ==
  /\ Full("client", "prefix")
  /\ LET n == Uint32(got.client) IN
     IF Accept(n)
     THEN /\ ReadFull("client", n, "payload")
          /\ UNCHANGED <<pipe, out, conn, message, program, service, todo, outcome, clock, histVars>>
     ELSE ClientClose("fail") /\ UNCHANGED <<got, todo>>

\* What the experiment makes of a response: the one it asked for, or wrong.
Wanted(op, m) ==
  op.op = "reply" /\ m.id = op.message.id /\ m.type = op.type
    /\ (op.type = "ECHO" => m.message = op.message.message)

ClientPayload ==
  /\ Full("client", "payload")
  /\ IF ~Decodes(got.client) THEN ClientClose("fail") /\ UNCHANGED <<got, todo>>
     ELSE IF ~Wanted(todo[1], got.client[1][2])
     THEN ClientClose("wrong") /\ UNCHANGED <<got, todo>>
     ELSE /\ message' = [message EXCEPT !.client = got.client[1][2]]
          /\ todo' = Drop(todo, 1) /\ Goto("client", "next")
          /\ UNCHANGED <<ioVars, conn, program, service, outcome, clock, histVars>>

\* Mutant: the end of the stream is taken for any answer.
EndIsEnough == \E err \in ReadError("client") :
  IF err = "EOF"
  THEN /\ todo' = Drop(todo, 1) /\ Goto("client", "next")
       /\ UNCHANGED <<ioVars, conn, message, program, service, outcome, clock, histVars>>
  ELSE ClientClose("fail") /\ UNCHANGED <<got, todo>>

\* The end of the stream is what an "end" waits for; anything else is an error.
ClientReadFails == \E err \in ReadError("client") :
  IF todo[1].op = "end" /\ err = "EOF"
  THEN /\ todo' = Drop(todo, 1) /\ Goto("client", "next")
       /\ UNCHANGED <<ioVars, conn, message, program, service, outcome, clock, histVars>>
  ELSE ClientClose("fail") /\ UNCHANGED <<got, todo>>

-----------------------------------------------------------------------------
(* What happens around them.                                               *)

\* The client's deadline passes.
Tick == clock = "early" /\ clock' = "late"
        /\ UNCHANGED <<pc, ioVars, conn, message, program, service, todo, outcome, histVars>>

\* The client's host is gone without a word.
Vanish ==
  /\ conn.client = "open" /\ conn' = [conn EXCEPT !.client = "vanished"]
  /\ Goto("client", "closed") /\ outcome' = "fail"
  /\ UNCHANGED <<ioVars, message, program, service, todo, clock, histVars>>

Server ==
  \/ ServerLoop \/ ServerPrefix \/ ServerPayload \/ ServerPrints \/ ServerReadFails
  \/ ServerDispatch \/ ServerWrite \/ ServerWriteFails \/ ServerWrote
  \/ ReadSome("server")
Client ==
  \/ ClientPass \/ ClientSend \/ ClientTooLarge \/ ClientWrite
  \/ ClientWriteFails \/ ClientRead \/ ClientPrefix \/ ClientPayload
  \/ ClientReadFails \/ ReadSome("client")

Next == Server \/ Client \/ Tick \/ Vanish
Spec == Init /\ [][Next]_vars

\* Both goroutines are scheduled, bytes arrive and deadlines pass.
FairSpec == Spec /\ WF_vars(Server) /\ WF_vars(Client) /\ WF_vars(Tick)
-----------------------------------------------------------------------------
(* Experiments, and correctness.                                           *)

\* How many of the first n operations of an experiment are of a kind.
Count(p, op, n) == Cardinality({i \in 1 .. n : p[i].op = op})

\* The messages it sends.
SentBy(p) ==
  [k \in 1 .. Count(p, "send", Len(p)) |->
     p[CHOOSE i \in DOMAIN p : p[i].op = "send" /\ Count(p, "send", i) = k].message]

\* What may be under way: what the experiments are about, and the answers.
Requests == UNION {{p[i].message : i \in DOMAIN p} : p \in Program \cup Frames}
Message  == {NoMessage} \cup Requests \cup {Answer(m) : m \in Requests}

\* Lengths fit their prefixes, and no response has an empty JSON; nor is there
\* more than one empty text to frame.
ASSUME ProgramAssumption ==
  /\ \A p \in Program \cup Frames :
       p \in Seq([op : {"send", "reply", "end"}, message : Requests, type : STRING])
  /\ \A m \in Requests : /\ Size(m) \in 0 .. Base * Base - 1
                        /\ Size(Answer(m)) \in 1 .. Base * Base - 1
  /\ \A p \in Frames : \A i \in DOMAIN p :
       p[i].op = "send" /\ (Size(p[i].message) = 0 => p[i].message = NoMessage)

\* An experiment waits for the answer to each of its requests in turn, and
\* perhaps for the end of the stream at last.  It wants none to what it sends
\* behind a request that ends the connection, and sends nothing more once it
\* has read an ERROR.
WellFormed(p) ==
  LET sent    == SentBy(p)
      replies == Count(p, "reply", Len(p))
  IN  /\ \A i \in DOMAIN p :
           LET k == Count(p, "reply", i) IN
           /\ p[i].op = "end" => i = Len(p)
           /\ p[i].op = "reply" =>
                k <= Count(p, "send", i) /\ Wanted(p[i], Answer(sent[k]))
           /\ p[i].op = "send" /\ k > 0 /\ k = replies => Valid(sent[k])
      /\ \A k \in 1 .. replies :
           Decodes(Payload(sent[k])) /\ (k < replies => Valid(sent[k]))
      /\ \/ Len(sent) = replies
         \/ replies > 0 /\ ~Valid(sent[replies])
         \/ ~Decodes(Payload(sent[replies + 1])) \/ Size(sent[replies + 1]) > MaxFrame

ASSUME ExperimentAssumption == \A p \in Program : WellFormed(p)

Byte  == (0 .. Base - 1) \X Message
Bytes == Seq(Byte)

\* Every variable has its type; no ReadFull ever asks for more than the largest
\* frame (protocol.go:67), and no buffer overflows.
TypeOK ==
  /\ service \in {"protocol", "framing"}
  /\ pc \in [End -> {"next", "loop", "prefix", "payload", "dispatch", "write",
                     "wrote", "closed"}]
  /\ pipe \in [End -> Bytes] /\ got \in [End -> Bytes] /\ out \in [End -> Bytes]
  /\ need \in [End -> 0 .. 2 \cup 0 .. MaxFrame]
  /\ \A e \in End : Len(got[e]) <= need[e] /\ Len(pipe[e]) <= PipeSize
  /\ conn \in [End -> {"open", "closed", "vanished"}]
  /\ outcome \in {"running", "pass", "fail", "wrong"} /\ clock \in {"early", "late"}
  /\ logged \in BOOLEAN

\* What the client's experiment has the server read, frame by frame.
Sent == SentBy(program)

\* The server handles the requests that were sent, each once and in order,
\* whatever pieces their frames arrive in; each has its own answer before the
\* next is handled, and an ERROR is the last thing on a connection
\* (tcp/protocol/server/main.go:39-67, protocol.go:61-78).  The framing server
\* prints them, and all of them once the client has written all and time has
\* not run out (tcp/framing/server/main.go:37-67).
ServedInOrder ==
  /\ TypeOK
  /\ Len(handled) <= Len(Sent) /\ \A i \in DOMAIN handled : handled[i] = Sent[i]
  /\ service = "protocol" =>
       /\ Len(replied) \in {Len(handled), Len(handled) - 1}
       /\ \A i \in DOMAIN replied : replied[i] = Answer(handled[i])
       /\ \A i \in DOMAIN handled : ~Malformed(handled[i])
       /\ \A i \in DOMAIN handled : i < Len(handled) => Valid(handled[i])
  /\ service = "framing" /\ pc.server = "closed" /\ outcome = "pass" =>
       \/ clock = "late"
       \/ handled = Sent /\ ~logged
       \/ logged /\ Size(Sent[Len(handled) + 1]) > MaxFrame

\* While every frame fits, one request is outstanding at a time and nothing
\* follows an invalid one, no order of closing, reading and writing makes an
\* experiment fail; only time and the client's own host do.
FailsOnlyByTime ==
  outcome = "fail" =>
    \/ clock = "late" \/ conn.client = "vanished"
    \/ \E i \in DOMAIN Sent : Size(Sent[i]) > MaxFrame \/ Size(Answer(Sent[i])) > MaxFrame
    \/ /\ service = "protocol"
       /\ \E i \in 1 .. Len(program) - 1 :
            program[i].op = "send" /\ program[i + 1].op = "send"

\* The client's verdict is true.  It never sees an id, type or text that is not
\* the answer to its request, nor a response where there must be none; an
\* experiment passes only if the server handled every request that it wants a
\* response to, and wrote each of those (tcp/protocol/client/main.go:26-31,
\* :48-53, :73, :109-114); and it fails only by time, by a frame that does not
\* fit, or by breaking the protocol.
VerdictIsTrue ==
  /\ outcome # "wrong"
  /\ outcome = "pass" /\ service = "protocol" =>
       /\ Len(handled) = Count(program, "reply", Len(program))
       /\ Len(replied) = Len(handled)
  /\ FailsOnlyByTime

\* The server waits for room that a vanished client will never make: only its
\* reads have a deadline (tcp/protocol/server/main.go:35, :47).
Stuck == pc.server = "write" /\ conn.client = "vanished" /\ Room("server") = 0

\* Both ends give the connection up: no peer that stops, closes or vanishes at
\* any point keeps a goroutine in a read, and none keeps the server in a write
\* unless it is gone with its buffers full of responses it has not read.
ConnectionEnds == <>(pc.client = "closed" /\ (pc.server = "closed" \/ Stuck))

\* docs/learnings/02-application-protocol.md:273: the handler logs the read
\* error of an incomplete frame.
IncompleteFrameIsLogged ==
  [][service = "protocol" /\ pc.server = "payload" /\ pc'.server = "closed" => logged']_vars
=============================================================================
