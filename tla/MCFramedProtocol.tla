-------------------------- MODULE MCFramedProtocol --------------------------
(***************************************************************************)
(* FramedProtocol for TLC: the three experiments of tcp/protocol/client,   *)
(* and six more that a client of the protocol may run: pipelined           *)
(* requests, a request behind an invalid one, a raw frame and a request    *)
(* that are too large, and a request whose error is.                       *)
(***************************************************************************)
EXTENDS FramedProtocol

Request(id, type, text) == [version |-> 1, id |-> id, type |-> type, message |-> text]

Bad   == Request(1, "malformed", "")
Large == Request(2, "malformed", "")
Mute  == Request(2, "ECHO", "")
Ping  == Request(3, "PING", "")
Echo  == Request(4, "ECHO", "hello")
Clock == Request(5, "TIME", "")
Long  == Request(6, "HELLO", "")
Huge  == Request(7, "ECHO", "huge")
Void  == NoMessage

Send(m) == [op |-> "send", message |-> m, type |-> ""]
Reply(m, type) == [op |-> "reply", message |-> m, type |-> type]
Closed == [op |-> "end", message |-> NoMessage, type |-> ""]

MCProgram ==
  {<<Send(Bad), Closed>>,
   <<Send(Mute), Reply(Mute, "ERROR"), Closed>>,
   <<Send(Ping), Reply(Ping, "PONG"), Send(Echo), Reply(Echo, "ECHO"),
     Send(Clock), Reply(Clock, "TIME")>>,
   <<Send(Ping), Send(Echo), Reply(Ping, "PONG"), Reply(Echo, "ECHO")>>,
   <<Send(Ping), Send(Clock), Send(Echo), Reply(Ping, "PONG"), Reply(Clock, "TIME"),
     Reply(Echo, "ECHO")>>,
   <<Send(Mute), Send(Ping), Reply(Mute, "ERROR"), Closed>>,
   <<Send(Large), Closed>>,
   <<Send(Huge), Reply(Huge, "ECHO")>>,
   <<Send(Long), Reply(Long, "ERROR"), Closed>>}

\* The frames of tcp/framing/client, an empty one and one that is too large.
MCFrames == {<<Send(Echo), Send(Clock)>>, <<Send(Ping), Send(Huge)>>, <<Send(Void), Send(Mute)>>}

\* The error that names the unknown type is longer than the request.
MCSize(m) ==
  CASE m = Void -> 0
    [] m \in {Large, Huge} -> 7
    [] m.message = "hello" -> 4
    [] m = Long -> 5
    [] m.id = 6 -> 6
    [] OTHER -> 3
=============================================================================
