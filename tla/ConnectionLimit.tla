-------------------------- MODULE ConnectionLimit --------------------------
(***************************************************************************)
(* The admission server (load/protection/connections/server): the accept   *)
(* loop reserves one of max slots for a connection or turns it away with   *)
(* BUSY; the handler of an admitted connection says OK, reads until an     *)
(* idle deadline or an error, and gives everything back in its deferred    *)
(* cleanup.                                                                *)
(*                                                                         *)
(* A member of Conn is one TCP connection.  Its far end may dial, read the *)
(* admission line, send bytes and close, at any time.  slots is the length *)
(* of the slots channel, whose elements carry nothing.                     *)
(***************************************************************************)
EXTENDS Naturals, Sequences, FiniteSets

CONSTANTS Conn,   \* TCP connections
          Limits, \* values of -max-connections
          None    \* no connection

ASSUME ConnectionLimitAssumption ==
  /\ IsFiniteSet(Conn) /\ None \notin Conn
  /\ Limits \subseteq Nat \ {0}

VARIABLES max,        \* the flag of the program: -max-connections
          pending,    \* established connections Accept has not returned yet
          acceptor,   \* where the accept loop is
          current,    \* the connection it is deciding
          handler,    \* where each handler is
          slots, active, admitted, rejected,
          line,       \* the admission line on its way to each client
          bytes,      \* a byte on its way to each handler
          client      \* the far end of each connection

loopVars  == <<pending, acceptor, current>>
countVars == <<slots, active, admitted, rejected>>
wireVars  == <<line, bytes>>
vars == <<max, loopVars, handler, countVars, wireVars, client>>

Init ==
  /\ max \in Limits
  /\ pending = <<>> /\ acceptor = "accept" /\ current = None
  /\ handler = [c \in Conn |-> "none"]
  /\ slots = 0 /\ active = 0 /\ admitted = 0 /\ rejected = 0
  /\ line = [c \in Conn |-> "none"]
  /\ bytes = [c \in Conn |-> FALSE]
  /\ client = [c \in Conn |-> "new"]

-----------------------------------------------------------------------------
(* The accept loop.                                                        *)

\* listener.Accept.
Accept ==
  /\ acceptor = "accept" /\ pending # <<>>
  /\ current' = Head(pending) /\ pending' = Tail(pending)
  /\ acceptor' = "decide"
  /\ UNCHANGED <<handler, countVars, wireVars, client>>

\* Mutant: the budget is compared with the active count, not with the slots.
ReserveByActive ==
  /\ acceptor = "decide" /\ active < max
  /\ slots' = slots + 1
  /\ acceptor' = "activate"
  /\ UNCHANGED <<pending, current, handler, active, admitted, rejected,
                 wireVars, client>>

\* case slots <- struct{}{}.
Reserve ==
  /\ acceptor = "decide" /\ slots < max
  /\ slots' = slots + 1
  /\ acceptor' = "activate"
  /\ UNCHANGED <<pending, current, handler, active, admitted, rejected,
                 wireVars, client>>

\* Mutant: active.Store(int64(len(slots))) in place of the addition.
ActivateFromSlots ==
  /\ acceptor = "activate"
  /\ active' = slots
  /\ acceptor' = "admit"
  /\ UNCHANGED <<pending, current, handler, slots, admitted, rejected,
                 wireVars, client>>

\* active.Add(1).
Activate ==
  /\ acceptor = "activate"
  /\ active' = active + 1
  /\ acceptor' = "admit"
  /\ UNCHANGED <<pending, current, handler, slots, admitted, rejected,
                 wireVars, client>>

\* admitted.Add(1) and the start of the handler.
Admit ==
  /\ acceptor = "admit"
  /\ admitted' = admitted + 1
  /\ handler' = [handler EXCEPT ![current] = "greet"]
  /\ acceptor' = "accept" /\ current' = None
  /\ UNCHANGED <<pending, slots, active, rejected, wireVars, client>>

\* The default case: rejected.Add(1).
Refuse ==
  /\ acceptor = "decide" /\ slots >= max
  /\ rejected' = rejected + 1
  /\ acceptor' = "busy"
  /\ UNCHANGED <<pending, current, handler, slots, active, admitted, wireVars,
                 client>>

\* Mutant: without the write deadline a stalled peer keeps the loop.
WriteBusyStalls ==
  /\ acceptor = "busy" /\ client[current] = "waiting"
  /\ line' = [line EXCEPT ![current] = "BUSY"]
  /\ acceptor' = "accept" /\ current' = None
  /\ UNCHANGED <<pending, handler, countVars, bytes, client>>

\* Mutant: a refused connection is handled all the same.
BusyThenServe ==
  /\ acceptor = "busy"
  /\ line' = [line EXCEPT ![current] = "BUSY"]
  /\ handler' = [handler EXCEPT ![current] = "read"]
  /\ acceptor' = "accept" /\ current' = None
  /\ UNCHANGED <<pending, countVars, bytes, client>>

\* The BUSY line, written or given up within its one-second deadline; its
\* error is ignored.  Then Close.
WriteBusy ==
  /\ acceptor = "busy"
  /\ line' \in {[line EXCEPT ![current] = "BUSY"],
                [line EXCEPT ![current] = "eof"]}
  /\ acceptor' = "accept" /\ current' = None
  /\ UNCHANGED <<pending, handler, countVars, bytes, client>>

-----------------------------------------------------------------------------
(* handleConnection.                                                       *)

HandlerAt(c, at) == handler' = [handler EXCEPT ![c] = at]

\* The OK line, or an error of the write: the client closed, or the deadline.
WriteOK(c) ==
  /\ handler[c] = "greet"
  /\ \/ line' = [line EXCEPT ![c] = "OK"] /\ HandlerAt(c, "read")
     \/ HandlerAt(c, "close") /\ UNCHANGED line
  /\ UNCHANGED <<loopVars, countVars, bytes, client>>

\* A read within the deadline, which is then renewed.
ReadByte(c) ==
  /\ handler[c] = "read" /\ bytes[c]
  /\ bytes' = [bytes EXCEPT ![c] = FALSE]
  /\ UNCHANGED <<loopVars, handler, countVars, line, client>>

\* Mutant: a silent connection is read without a deadline.
ReadErrorOnly(c) ==
  /\ handler[c] = "read" /\ client[c] = "closed"
  /\ HandlerAt(c, "close")
  /\ UNCHANGED <<loopVars, countVars, wireVars, client>>

\* The idle deadline passes, a byte that has just come in notwithstanding, or
\* the client has closed.
ReadError(c) ==
  /\ handler[c] = "read"
  /\ HandlerAt(c, "close")
  /\ UNCHANGED <<loopVars, countVars, wireVars, client>>

\* Deferred: conn.Close.
CloseConn(c) ==
  /\ handler[c] = "close"
  /\ HandlerAt(c, "deactivate")
  /\ line' = [line EXCEPT ![c] = IF @ = "none" THEN "eof" ELSE @]
  /\ UNCHANGED <<loopVars, countVars, bytes, client>>

\* Deferred: active.Add(-1).
Deactivate(c) ==
  /\ handler[c] = "deactivate"
  /\ active' = active - 1
  /\ HandlerAt(c, "release")
  /\ UNCHANGED <<loopVars, slots, admitted, rejected, wireVars, client>>

\* Deferred: <-slots.
Release(c) ==
  /\ handler[c] = "release"
  /\ slots' = slots - 1
  /\ HandlerAt(c, "done")
  /\ UNCHANGED <<loopVars, active, admitted, rejected, wireVars, client>>

-----------------------------------------------------------------------------
(* The far ends.                                                           *)

\* The connection is established by the system and waits for Accept.
Dial(c) ==
  /\ client[c] = "new"
  /\ client' = [client EXCEPT ![c] = "waiting"]
  /\ pending' = Append(pending, c)
  /\ UNCHANGED <<acceptor, current, handler, countVars, wireVars>>

\* The client reads the admission line, or the end of the connection.
ReadLine(c) ==
  /\ client[c] = "waiting" /\ line[c] # "none"
  /\ client' = [client EXCEPT ![c] =
       CASE line[c] = "OK"   -> "admitted"
         [] line[c] = "BUSY" -> "refused"
         [] OTHER            -> "failed"]
  /\ UNCHANGED <<loopVars, handler, countVars, wireVars>>

SendByte(c) ==
  /\ client[c] = "admitted" /\ ~bytes[c]
  /\ bytes' = [bytes EXCEPT ![c] = TRUE]
  /\ UNCHANGED <<loopVars, handler, countVars, line, client>>

CloseClient(c) ==
  /\ client[c] \in {"waiting", "admitted"}
  /\ client' = [client EXCEPT ![c] = "closed"]
  /\ UNCHANGED <<loopVars, handler, countVars, wireVars>>

-----------------------------------------------------------------------------
AcceptLoop ==
  /\ Accept \/ Reserve \/ Activate \/ Admit \/ Refuse \/ WriteBusy
  /\ UNCHANGED max

Handler(c) ==
  /\ \/ WriteOK(c) \/ ReadByte(c) \/ ReadError(c)
     \/ CloseConn(c) \/ Deactivate(c) \/ Release(c)
  /\ UNCHANGED max

Peer(c) ==
  /\ Dial(c) \/ ReadLine(c) \/ SendByte(c) \/ CloseClient(c)
  /\ UNCHANGED max

Next == AcceptLoop \/ \E c \in Conn : Handler(c) \/ Peer(c)

Spec == Init /\ [][Next]_vars

\* The accept loop and the handlers run; every write and read returns by its
\* deadline.  Nothing is assumed of the clients.
FairSpec ==
  /\ Spec /\ WF_vars(AcceptLoop)
  /\ \A c \in Conn : WF_vars(Handler(c))

-----------------------------------------------------------------------------
(* Correctness.                                                            *)

\* Type invariant: every variable holds a value of its kind; the loop has a
\* connection exactly while it decides.
TypeOK ==
  /\ max \in Limits
  /\ pending \in Seq(Conn)
  /\ acceptor \in {"accept", "decide", "activate", "admit", "busy"}
  /\ current \in Conn \cup {None}
  /\ (current = None) = (acceptor = "accept")
  /\ handler \in [Conn -> {"none", "greet", "read", "close", "deactivate",
                           "release", "done"}]
  /\ slots \in Nat /\ active \in Nat /\ admitted \in Nat /\ rejected \in Nat
  /\ line \in [Conn -> {"none", "OK", "BUSY", "eof"}]
  /\ bytes \in [Conn -> BOOLEAN]
  /\ client \in [Conn -> {"new", "waiting", "admitted", "refused", "failed",
                          "closed"}]

At(phases) == {c \in Conn : handler[c] \in phases}
AcceptorAt(phases) == IF acceptor \in phases THEN 1 ELSE 0

\* Every slot in the channel belongs to one admitted connection that is still
\* being handled or about to be, and none is lost in the cleanup.
SlotBalance ==
  slots = Cardinality(At({"greet", "read", "close", "deactivate", "release"}))
            + AcceptorAt({"activate", "admit"})

\* The active count is exact between its two updates.
ActiveBalance ==
  active = Cardinality(At({"greet", "read", "close", "deactivate"}))
             + AcceptorAt({"admit"})

\* At no moment are more than max connections admitted, and the active count,
\* taken up after the slot and down before it, never exceeds the slots in use.
WithinBudget == active <= slots /\ slots <= max

\* A client that reads OK was admitted and one that reads BUSY never has a
\* handler: no connection gets both decisions.
LineIsDecision == \A c \in Conn :
  /\ line[c] = "OK" => handler[c] \notin {"none", "greet"}
  /\ line[c] = "BUSY" => handler[c] = "none" /\ current # c

\* Every established connection waits for Accept, is being decided on or was
\* counted once, as admitted or as rejected.
Arrived == {c \in Conn : client[c] # "new"}

DecisionBalance ==
  Cardinality(Arrived) =
    Len(pending) + AcceptorAt({"decide", "activate", "admit"})
      + admitted + rejected

\* The three balances together: no counter drifts away from the connections,
\* although each is updated by itself and undone by another goroutine.
CountersBalance == SlotBalance /\ ActiveBalance /\ DecisionBalance

\* Whoever dials is decided on: BUSY to one client does not starve the others.
EveryDialIsDecided == \A c \in Conn :
  client[c] = "waiting" ~> client[c] # "waiting" \/ line[c] # "none"

\* A handler to which in the end no more bytes come gives its slot back, whether
\* its client closes or just holds the connection.
IdleSlotsReclaimed == \A c \in Conn :
  <>[](handler[c] = "read" => ~bytes[c]) => (handler[c] = "greet" ~> handler[c] = "done")
=============================================================================
