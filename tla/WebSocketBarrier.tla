-------------------------- MODULE WebSocketBarrier --------------------------
(***************************************************************************)
(* websocket/handshake/concurrent_client: main starts one goroutine per    *)
(* client, waits until each has reported on the ready channel, and then    *)
(* closes start to release them all; and the handler that                  *)
(* websocket/handshake/server runs for each connection.  One context, which*)
(* main cancels on a failure and which expires on its own, bounds it all.  *)
(*                                                                         *)
(* The WebSocket library is external: a link is a connection of it.  The   *)
(* ready channel is a set, since a client reports once and main treats the *)
(* reports alike.  reported, sent, graceful and faulty are history.        *)
(***************************************************************************)
EXTENDS Naturals, FiniteSets

CONSTANT Client   \* the clients that main starts

ASSUME BarrierAssumption == IsFiniteSet(Client)

clientCount == Cardinality(Client)

VARIABLES main,      \* where main is
          count,     \* reports main has taken, its i
          ready,     \* the reports in the channel
          start,     \* the start channel has been closed
          ctx,       \* the context: live or ended
          client,    \* where each client is
          server,    \* where the handler of each connection is
          link,      \* each connection
          toServer, toClient,  \* the connections with a message under way
          reported,  \* clients that have reported success
          sent,      \* clients that have written their message
          graceful,  \* clients whose closing handshake completed
          faulty     \* the context expired by itself, a dial failed, a link broke

mainVars == <<main, count, start>>
wireVars == <<server, link, toServer, toClient>>
histVars == <<reported, sent, graceful, faulty>>
vars == <<mainVars, ready, ctx, client, wireVars, histVars>>

Init ==
  /\ main = "gather" /\ count = 0 /\ ready = {} /\ start = FALSE /\ ctx = "live"
  /\ client = [c \in Client |-> "dial"] /\ server = [c \in Client |-> "none"]
  /\ link = [c \in Client |-> "none"] /\ toServer = {} /\ toClient = {}
  /\ reported = {} /\ sent = {} /\ graceful = {} /\ faulty = FALSE

-----------------------------------------------------------------------------
(* runClient.                                                              *)

Goto(c, at) == client' = [client EXCEPT ![c] = at]

\* Accepting the connection starts its handler.
Connect(c) ==
  /\ link' = [link EXCEPT ![c] = "open"] /\ server' = [server EXCEPT ![c] = "read"]
  /\ UNCHANGED <<toServer, toClient>>

Dial(c) ==
  /\ client[c] = "dial" /\ ctx = "live"
  /\ Connect(c) /\ Goto(c, "report")
  /\ UNCHANGED <<mainVars, ready, ctx, histVars>>

\* The dial fails, or a connection comes with another status than 101.
DialFails(c) ==
  /\ client[c] = "dial"
  /\ UNCHANGED wireVars \/ Connect(c)
  /\ Goto(c, "refuse") /\ faulty' = (faulty \/ ctx = "live")
  /\ UNCHANGED <<mainVars, ready, ctx, reported, sent, graceful>>

\* Mutant: make(chan connectionResult, 1).
RoomForOne == ready = {}

\* make(chan connectionResult, clientCount).
Room == Cardinality(ready) < clientCount

\* ready <- connectionResult{...}.
Report(c) ==
  /\ client[c] \in {"report", "refuse"} /\ Room
  /\ LET ok == client[c] = "report" IN
     /\ ready' = ready \cup {[id |-> c, ok |-> ok]}
     /\ reported' = IF ok THEN reported \cup {c} ELSE reported
     /\ Goto(c, IF ok THEN "barrier" ELSE "leave")
  /\ UNCHANGED <<mainVars, ctx, wireVars, sent, graceful, faulty>>

\* Mutant: the client does not wait for start.
NoBarrier(c) ==
  /\ client[c] = "barrier" /\ Goto(c, "write")
  /\ UNCHANGED <<mainVars, ready, ctx, wireVars, histVars>>

\* select: when both are ready either is taken.
Barrier(c) ==
  /\ client[c] = "barrier"
  /\ \/ start /\ Goto(c, "write")
     \/ ctx = "ended" /\ Goto(c, "leave")
  /\ UNCHANGED <<mainVars, ready, ctx, wireVars, histVars>>

Write(c) ==
  /\ client[c] = "write" /\ ctx = "live" /\ link[c] = "open"
  /\ toServer' = toServer \cup {c} /\ sent' = sent \cup {c}
  /\ Goto(c, "read")
  /\ UNCHANGED <<mainVars, ready, ctx, server, link, toClient, reported, graceful, faulty>>

Read(c) ==
  /\ client[c] = "read" /\ c \in toClient
  /\ toClient' = toClient \ {c} /\ Goto(c, "close")
  /\ UNCHANGED <<mainVars, ready, ctx, server, link, toServer, histVars>>

\* conn.Close sends the close frame and waits for the server's.
Close(c) ==
  /\ client[c] = "close" /\ link[c] = "open"
  /\ link' = [link EXCEPT ![c] = "closing"] /\ Goto(c, "closing")
  /\ UNCHANGED <<mainVars, ready, ctx, server, toServer, toClient, histVars>>

Closed(c) ==
  /\ client[c] = "closing" /\ link[c] = "closed"
  /\ graceful' = graceful \cup {c} /\ Goto(c, "leave")
  /\ UNCHANGED <<mainVars, ready, ctx, wireVars, reported, sent, faulty>>

\* A write or a read ends with the context, and anything with the link.
IOFails(c) ==
  /\ \/ client[c] \in {"write", "read"} /\ (ctx = "ended" \/ link[c] # "open")
     \/ client[c] \in {"close", "closing"} /\ link[c] = "broken"
  /\ Goto(c, "leave")
  /\ UNCHANGED <<mainVars, ready, ctx, wireVars, histVars>>

\* defer conn.CloseNow(), then wg.Done().
Leave(c) ==
  /\ client[c] = "leave" /\ Goto(c, "done")
  /\ link' = [link EXCEPT ![c] = IF @ \in {"open", "closing"} THEN "broken" ELSE @]
  /\ UNCHANGED <<mainVars, ready, ctx, server, toServer, toClient, histVars>>

-----------------------------------------------------------------------------
(* handleWebSocket.                                                        *)

Serve(c, at) == server' = [server EXCEPT ![c] = at]

ServerRead(c) ==
  /\ server[c] = "read" /\ c \in toServer
  /\ toServer' = toServer \ {c} /\ Serve(c, "write")
  /\ UNCHANGED <<mainVars, ready, ctx, client, link, toClient, histVars>>

ServerWrite(c) ==
  /\ server[c] = "write" /\ link[c] = "open"
  /\ toClient' = toClient \cup {c} /\ Serve(c, "read")
  /\ UNCHANGED <<mainVars, ready, ctx, client, link, toServer, histVars>>

\* Read returns a close status or another error: both end the handler.  The
\* library answers a close frame.
ServerEnds(c) ==
  /\ \/ server[c] = "read" /\ link[c] \in {"closing", "broken"}
     \/ server[c] = "write" /\ link[c] # "open"
  /\ link' = [link EXCEPT ![c] = IF @ = "closing" THEN "closed" ELSE @]
  /\ Serve(c, "done")
  /\ UNCHANGED <<mainVars, ready, ctx, client, toServer, toClient, histVars>>

-----------------------------------------------------------------------------
(* main.                                                                   *)

\* Mutant: a failed connection counts as a client that has reported.
FailureIgnored(r) == count' = count + 1 /\ UNCHANGED <<main, ctx>>

\* A report: one more that is ready, or the end of the attempt.
Judge(r) ==
  \/ r.ok /\ count' = count + 1 /\ UNCHANGED <<main, ctx>>
  \/ ~r.ok /\ main' = "abort" /\ ctx' = "ended" /\ UNCHANGED count

Gather == \E r \in ready :
  /\ main = "gather" /\ count < clientCount
  /\ ready' = ready \ {r} /\ Judge(r)
  /\ UNCHANGED <<start, client, wireVars, histVars>>

GatherTimeout ==
  /\ main = "gather" /\ count < clientCount /\ ctx = "ended"
  /\ main' = "abort"
  /\ UNCHANGED <<count, start, ready, ctx, client, wireVars, histVars>>

\* close(start).
Release ==
  /\ main = "gather" /\ count = clientCount
  /\ start' = TRUE /\ main' = "wait"
  /\ UNCHANGED <<count, ready, ctx, client, wireVars, histVars>>

\* Mutant: main does not wait for the group.
NoWait == main' = "returned"

\* wg.Wait.
Wait == (\A c \in Client : client[c] = "done") /\ main' = "returned"

\* Return, and the deferred cancel.
Return ==
  /\ main \in {"wait", "abort"} /\ Wait
  /\ ctx' = "ended"
  /\ UNCHANGED <<count, start, ready, client, wireVars, histVars>>

-----------------------------------------------------------------------------
(* The surroundings: ten seconds pass, a connection is lost.               *)

Timeout ==
  /\ ctx = "live" /\ ctx' = "ended" /\ faulty' = TRUE
  /\ UNCHANGED <<mainVars, ready, client, wireVars, reported, sent, graceful>>

Break(c) ==
  /\ link[c] \in {"open", "closing"}
  /\ link' = [link EXCEPT ![c] = "broken"] /\ faulty' = TRUE
  /\ UNCHANGED <<mainVars, ready, ctx, client, server, toServer, toClient,
                 reported, sent, graceful>>

MainStep == Gather \/ GatherTimeout \/ Release \/ Return
ClientStep(c) ==
  \/ Dial(c) \/ DialFails(c) \/ Report(c) \/ Barrier(c) \/ Write(c) \/ Read(c)
  \/ Close(c) \/ Closed(c) \/ IOFails(c) \/ Leave(c)
ServerStep(c) == ServerRead(c) \/ ServerWrite(c) \/ ServerEnds(c)

Next ==
  \/ MainStep \/ Timeout
  \/ \E c \in Client : ClientStep(c) \/ ServerStep(c) \/ Break(c)

Spec == Init /\ [][Next]_vars

\* Goroutines are scheduled and the library's calls return; the context expires.
FairSpec ==
  /\ Spec /\ WF_vars(MainStep) /\ WF_vars(Timeout)
  /\ \A c \in Client : WF_vars(ClientStep(c)) /\ WF_vars(ServerStep(c))

-----------------------------------------------------------------------------
\* Type invariant: every variable holds a value of its kind.
TypeOK ==
  /\ main \in {"gather", "wait", "abort", "returned"} /\ ctx \in {"live", "ended"}
  /\ count \in 0 .. clientCount /\ start \in BOOLEAN /\ faulty \in BOOLEAN
  /\ ready \in SUBSET [id : Client, ok : BOOLEAN]
  /\ client \in [Client -> {"dial", "report", "refuse", "barrier", "write", "read",
                            "close", "closing", "leave", "done"}]
  /\ server \in [Client -> {"none", "read", "write", "done"}]
  /\ link \in [Client -> {"none", "open", "closing", "closed", "broken"}]
  /\ toServer \subseteq Client /\ toClient \subseteq Client
  /\ reported \subseteq Client /\ sent \subseteq Client /\ graceful \subseteq Client

\* The barrier: no client writes a message before every client has reported
\* that it is connected (main.go:90-97).
NoEarlyMessage == sent # {} => reported = Client

\* An attempt that is aborted sends nothing at all, although its clients are
\* released from the barrier by the same context (main.go:43-47, :50-54).
AbortedIsSilent == main = "abort" => sent = {}

\* If nothing goes wrong, every client sends, is answered and closes gracefully
\* before main returns (main.go:61-62, :118-126).
CleanRunIsComplete ==
  main = "returned" /\ ~faulty => sent = Client /\ graceful = Client

\* main and every goroutine return and no connection stays open, whatever fails
\* and whenever the context ends: also after an abort, when main takes no more
\* reports (main.go:25, :34, :46, :53, :61, :80; server/main.go:44-61).
EveryoneReturns ==
  <>[](/\ main = "returned"
       /\ \A c \in Client : /\ client[c] = "done" /\ server[c] \in {"none", "done"}
                           /\ link[c] \notin {"open", "closing"})
=============================================================================
