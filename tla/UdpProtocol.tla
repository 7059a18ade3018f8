---------------------------- MODULE UdpProtocol ----------------------------
(***************************************************************************)
(* The JSON-over-UDP request/response protocol: the client program         *)
(* (udp/protocol/client), the server program with its duplicate cache      *)
(* (udp/protocol/server) and a network that loses, duplicates and reorders *)
(* datagrams: what is handed to it stays in a set, whose members each      *)
(* reader takes in any order, any number of times, or never.               *)
(*                                                                         *)
(* A member of Client is one execution of the client program.  It asks for *)
(* TIME under the constant ClientId (42 in the code), at most twice, from  *)
(* the port the operating system gave its socket.  Other programs may send *)
(* any datagram of Stray from a port no client holds; they stand for the   *)
(* hand-made requests of the handler tests.                                *)
(*                                                                         *)
(* A response's payload is the value of now at the execution, or None for  *)
(* the text "unknown operation".  inc, the incarnation of the server that  *)
(* produced a reply, is carried for the properties and read by no action.  *)
(***************************************************************************)
EXTENDS Naturals

CONSTANTS Client,          \* executions of the client program
          Port,            \* source addresses
          RequestId,       \* the positive request ids in use
          ClientId,        \* the id every client uses
          Stray,           \* datagrams other programs may send
          None,            \* an absent value
          MaxClock,        \* bound on the seconds that pass
          MaxIncarnation   \* bound on the executions of the server

Malformed == [id |-> 0, op |-> "malformed"]
Request   == [id : RequestId \cup {0}, op : {"TIME", "OTHER", "blank"}]
Datagram  == Request \cup {Malformed}
Payload   == Nat \cup {None}
Response  == [id : RequestId, status : {"OK", "ERROR"}, payload : Payload]
Key       == [addr : Port, id : RequestId]
Query     == [addr : Port, data : Datagram]
Reply     == [addr : Port, inc : Nat, resp : Response]
Execution == [inc : Nat, key : Key, resp : Response]

ASSUME UdpAssumption ==
  /\ RequestId \subseteq Nat \ {0}
  /\ ClientId \in RequestId
  /\ Stray \subseteq Datagram
  /\ None \notin Nat /\ None \notin Port
  /\ None \notin Response /\ None \notin Reply
  /\ MaxClock \in Nat /\ MaxIncarnation \in Nat

VARIABLES up,           \* the server process runs
          incarnation,  \* how many times it was started
          clock,        \* time.Now in seconds, the precision of RFC3339
          processed,    \* requestHandler.processed; None where no entry
          reply,        \* the response between handle and WriteToUDP
          toServer,     \* every datagram handed to the network for the server
          toClient,     \* every datagram handed to it for a source port
          pc,           \* where each client execution is
          port,         \* its local port
          attempt,      \* its loop counter
          answer,       \* the validated reply it printed
          executed,     \* history: every execution of an operation
          startedAt,    \* history: the time at which a client started
          portUsed      \* history: its port had carried its id before

serverVars == <<up, incarnation, processed, reply, executed>>
clientVars == <<pc, port, attempt, answer, startedAt, portUsed>>
netVars    == <<toServer, toClient>>
vars       == <<serverVars, clientVars, netVars, clock>>

-----------------------------------------------------------------------------
(* What the programs compute.                                              *)

\* Request.Validate on the decoded datagram.
Valid(data) == data # Malformed /\ data.id # 0 /\ data.op # "blank"

\* Mutant: the address is left out of the key.
KeyWithoutAddr(m) ==
  [addr |-> CHOOSE p \in Port : TRUE, id |-> m.data.id]

\* The cache key of a request: source address and id, not the operation.
KeyOf(m) == [addr |-> m.addr, id |-> m.data.id]

\* Mutant: a response is not correlated with the request.
CorrelateAny(resp, id) == resp.status \in {"OK", "ERROR"}

\* Response.ValidateFor against the client's request.
ValidFor(resp, id) ==
  /\ resp.id # 0 /\ resp.id = id
  /\ resp.status \in {"OK", "ERROR"}

\* The response of a first execution.
Outcome(data) ==
  IF data.op = "TIME"
  THEN [id |-> data.id, status |-> "OK", payload |-> clock]
  ELSE [id |-> data.id, status |-> "ERROR", payload |-> None]

-----------------------------------------------------------------------------
Init ==
  /\ up = TRUE /\ incarnation = 1 /\ clock = 0
  /\ processed = [k \in Key |-> None] /\ reply = None
  /\ toServer = {} /\ toClient = {}
  /\ pc = [c \in Client |-> "new"]
  /\ port = [c \in Client |-> None]
  /\ attempt = [c \in Client |-> 0]
  /\ answer = [c \in Client |-> None]
  /\ executed = {}
  /\ startedAt = [c \in Client |-> 0]
  /\ portUsed = [c \in Client |-> FALSE]

-----------------------------------------------------------------------------
(* The client program.                                                     *)

Running(c) == pc[c] \in {"write", "read"}
Free(p)    == \A c \in Client : Running(c) => port[c] # p
Ask(p)     == [addr |-> p, data |-> [id |-> ClientId, op |-> "TIME"]]

\* DialUDP: the system binds the socket to a port no running client holds.
Start(c) == \E p \in Port :
  /\ pc[c] = "new" /\ Free(p)
  /\ pc' = [pc EXCEPT ![c] = "write"]
  /\ port' = [port EXCEPT ![c] = p]
  /\ attempt' = [attempt EXCEPT ![c] = 1]
  /\ startedAt' = [startedAt EXCEPT ![c] = clock]
  /\ portUsed' = [portUsed EXCEPT
       ![c] = \E m \in toServer : m.addr = p /\ m.data.id = ClientId]
  /\ UNCHANGED <<serverVars, netVars, answer, clock>>

\* conn.Write hands one more copy of the request to the network.
Write(c) ==
  /\ pc[c] = "write"
  /\ toServer' = toServer \cup {Ask(port[c])}
  /\ pc' = [pc EXCEPT ![c] = "read"]
  /\ UNCHANGED <<serverVars, toClient, port, attempt, answer, startedAt,
                 portUsed, clock>>

\* conn.Write fails: log.Fatal.
WriteError(c) ==
  /\ pc[c] = "write"
  /\ pc' = [pc EXCEPT ![c] = "fatal"]
  /\ UNCHANGED <<serverVars, netVars, port, attempt, answer, startedAt,
                 portUsed, clock>>

\* conn.Read returns a datagram addressed to this socket: a response that
\* fails ValidateFor ends the program, any other is printed and ends the loop.
Read(c) == \E m \in toClient :
  /\ pc[c] = "read" /\ m.addr = port[c]
  /\ \/ /\ ValidFor(m.resp, ClientId)
        /\ answer' = [answer EXCEPT ![c] = m]
        /\ pc' = [pc EXCEPT ![c] = "done"]
     \/ /\ ~ValidFor(m.resp, ClientId)
        /\ pc' = [pc EXCEPT ![c] = "fatal"]
        /\ UNCHANGED answer
  /\ UNCHANGED <<serverVars, netVars, port, attempt, startedAt, portUsed, clock>>

\* Mutant: a failed attempt is not counted.
RetryForever(c) ==
  /\ pc[c] = "read"
  /\ pc' = [pc EXCEPT ![c] = "write"]
  /\ UNCHANGED <<serverVars, netVars, port, attempt, answer, startedAt,
                 portUsed, clock>>

\* conn.Read fails, by the two-second deadline or a refused port: the next
\* attempt, or the end of the loop after the second.
ReadError(c) ==
  /\ pc[c] = "read"
  /\ attempt' = [attempt EXCEPT ![c] = @ + 1]
  /\ pc' = [pc EXCEPT ![c] = IF attempt[c] < 2 THEN "write" ELSE "done"]
  /\ UNCHANGED <<serverVars, netVars, port, answer, startedAt, portUsed,
                 clock>>

-----------------------------------------------------------------------------
(* The server program.  Its loop is single-threaded: ReadFromUDP and       *)
(* handle are one step, WriteToUDP the next.                               *)

\* handle on an invalid request: no reply, the cache untouched.
DropInvalid(m) == ~Valid(m.data) /\ UNCHANGED <<processed, executed, reply>>

\* Mutant: a duplicate of a TIME request reads the clock again.
ReuseRecomputed(m) ==
  /\ Valid(m.data) /\ processed[KeyOf(m)] # None
  /\ reply' = [addr |-> m.addr, inc |-> incarnation, resp |-> Outcome(m.data)]
  /\ UNCHANGED <<processed, executed>>

\* handle on a duplicate: the recorded response, whatever the operation is.
Reuse(m) ==
  /\ Valid(m.data) /\ processed[KeyOf(m)] # None
  /\ reply' = [addr |-> m.addr, inc |-> incarnation,
               resp |-> processed[KeyOf(m)]]
  /\ UNCHANGED <<processed, executed>>

\* Mutant: only successful responses enter the cache.
ExecuteUncached(m) ==
  /\ Valid(m.data) /\ processed[KeyOf(m)] = None
  /\ reply' = [addr |-> m.addr, inc |-> incarnation, resp |-> Outcome(m.data)]
  /\ executed' = executed \cup
       {[inc |-> incarnation, key |-> KeyOf(m), resp |-> Outcome(m.data)]}
  /\ UNCHANGED processed

\* handle on a first request: the operation runs and its response is kept.
Execute(m) ==
  /\ Valid(m.data) /\ processed[KeyOf(m)] = None
  /\ processed' = [processed EXCEPT ![KeyOf(m)] = Outcome(m.data)]
  /\ reply' = [addr |-> m.addr, inc |-> incarnation, resp |-> Outcome(m.data)]
  /\ executed' = executed \cup
       {[inc |-> incarnation, key |-> KeyOf(m), resp |-> Outcome(m.data)]}

\* One iteration up to the reply.
Receive == \E m \in toServer :
  /\ up /\ reply = None
  /\ DropInvalid(m) \/ Reuse(m) \/ Execute(m)
  /\ UNCHANGED <<clientVars, up, incarnation, netVars, clock>>

\* WriteToUDP.  Its error is only logged, as if the reply had been lost.
SendReply ==
  /\ up /\ reply # None
  /\ toClient' = toClient \cup {reply}
  /\ reply' = None
  /\ UNCHANGED <<clientVars, up, incarnation, processed, executed, toServer, clock>>

\* The process ends (log.Fatal on a read error, or killed): the cache is
\* memory only.
Crash ==
  /\ up
  /\ up' = FALSE
  /\ processed' = [k \in Key |-> None] /\ reply' = None
  /\ UNCHANGED <<clientVars, netVars, incarnation, executed, clock>>

\* main and newRequestHandler: an empty cache.
Restart ==
  /\ ~up /\ incarnation < MaxIncarnation
  /\ up' = TRUE /\ incarnation' = incarnation + 1
  /\ UNCHANGED <<clientVars, netVars, processed, reply, executed, clock>>

-----------------------------------------------------------------------------
(* Other programs and time.                                                *)

SendStray == \E p \in Port, d \in Stray :
  /\ Free(p)
  /\ toServer' = toServer \cup {[addr |-> p, data |-> d]}
  /\ UNCHANGED <<serverVars, clientVars, toClient, clock>>

Tick ==
  /\ clock < MaxClock /\ clock' = clock + 1
  /\ UNCHANGED <<serverVars, clientVars, netVars>>

ClientStep(c) == Start(c) \/ Write(c) \/ WriteError(c) \/ Read(c) \/ ReadError(c)
ServerStep    == Receive \/ SendReply \/ Crash \/ Restart
Environment   == SendStray \/ Tick

Next == (\E c \in Client : ClientStep(c)) \/ ServerStep \/ Environment

Spec == Init /\ [][Next]_vars

\* A write returns, and a read returns by its deadline; nothing is assumed of
\* the server or the network.
ClientFairness ==
  \A c \in Client : WF_vars(Write(c) \/ WriteError(c))
                    /\ WF_vars(Read(c) \/ ReadError(c))

FairSpec == Spec /\ ClientFairness

-----------------------------------------------------------------------------
(* Correctness.                                                            *)

\* Every variable has its type, and a running client has a port.
TypeOK ==
  /\ up \in BOOLEAN /\ incarnation \in Nat /\ clock \in Nat
  /\ processed \in [Key -> Response \cup {None}]
  /\ reply \in Reply \cup {None}
  /\ toServer \subseteq Query /\ toClient \subseteq Reply
  /\ pc \in [Client -> {"new", "write", "read", "done", "fatal"}]
  /\ port \in [Client -> Port \cup {None}]
  /\ \A c \in Client : Running(c) => port[c] \in Port
  /\ attempt \in [Client -> Nat]
  /\ answer \in [Client -> Reply \cup {None}]
  /\ executed \subseteq Execution
  /\ startedAt \in [Client -> Nat]
  /\ portUsed \in [Client -> BOOLEAN]

\* However often a request is retried, duplicated or delayed, one process of
\* the server obtains a single result for each address and id
\* (requestHandler.handle, "a duplicate reuses the original result").
AtMostOnce == \A e, f \in executed :
  e.inc = f.inc /\ e.key = f.key => e.resp = f.resp

\* All the replies an execution of the server ever gives to one address and
\* id, wherever they are by now, are the same reply.
Replies ==
  toClient \cup (({reply} \cup {answer[c] : c \in Client}) \ {None})

RepliesAgree == \A m, n \in Replies :
  m.addr = n.addr /\ m.inc = n.inc /\ m.resp.id = n.resp.id => m.resp = n.resp

\* A client whose port had not carried its id before is answered with the time
\* of an execution that happened after it started, never with an old time or
\* an ERROR meant for another program: in the cache and on the network it can
\* only meet the consequences of its own datagrams.
FreshUnlessPortReused == \A c \in Client :
  answer[c] # None /\ ~portUsed[c] =>
    /\ answer[c].resp.status = "OK"
    /\ answer[c].resp.payload >= startedAt[c]

\* While a server process lives, the cache only grows and a recorded response
\* never changes.
CacheIsStable ==
  [][up' /\ incarnation' = incarnation =>
       \A k \in Key : processed[k] # None => processed'[k] = processed[k]]_vars

\* Every execution of the client ends, with an answer, after two silent
\* attempts or by log.Fatal, whatever the network and the server do.
EveryRunEnds == \A c \in Client :
  pc[c] = "write" ~> pc[c] \in {"done", "fatal"}

\* The executions the clients' answers came from.
Accepted == [c \in Client |->
  IF answer[c] = None THEN None
  ELSE [inc |-> answer[c].inc,
        key |-> [addr |-> answer[c].addr, id |-> ClientId],
        resp |-> answer[c].resp]]

\* What the protocol promises, as a service without network or cache.
Service == INSTANCE AtMostOnceService WITH
  results <- executed, accepted <- Accepted

\* The programs implement that service.
ImplementsService == Service!Spec
=============================================================================
