------------------------ MODULE UdpProtocol_proofs ------------------------
(***************************************************************************)
(* Theorems about UdpProtocol for every set of clients, ports, ids and     *)
(* stray datagrams.                                                        *)
(***************************************************************************)
EXTENDS UdpProtocol, TLAPS

-----------------------------------------------------------------------------
(* The inductive invariant.                                                *)

\* The cache of a living server is exactly what this incarnation executed.
CacheIsExecuted == \A k \in Key :
  processed[k] # None =>
    [inc |-> incarnation, key |-> k, resp |-> processed[k]] \in executed

ExecutedIsCached == \A e \in executed :
  /\ e.inc <= incarnation
  /\ e.inc = incarnation /\ up => processed[e.key] = e.resp

\* A server that does not run has no state.
DownIsEmpty == ~up => reply = None /\ \A k \in Key : processed[k] = None

\* Every execution answers a datagram that was sent, under that datagram's id.
ExecutedWasAsked == \A e \in executed :
  /\ e.resp.id = e.key.id
  /\ e.resp.status = "OK" => e.resp.payload \in Nat
  /\ \E m \in toServer : m.addr = e.key.addr /\ m.data.id = e.key.id

\* Every reply, wherever it is, carries an execution's response.
ExecutionOf(m) ==
  [inc |-> m.inc, key |-> [addr |-> m.addr, id |-> m.resp.id], resp |-> m.resp]

RepliesExecuted ==
  /\ \A m \in toClient : ExecutionOf(m) \in executed
  /\ reply # None => ExecutionOf(reply) \in executed
  /\ \A c \in Client : answer[c] # None =>
       ExecutionOf(answer[c]) \in executed /\ answer[c].resp.id = ClientId

\* While a client runs on a fresh port, its key carries only its own request.
OwnKey(c) == [addr |-> port[c], id |-> ClientId]

FreshKey == \A c \in Client :
  /\ startedAt[c] <= clock
  /\ answer[c] # None => pc[c] = "done"
  /\ Running(c) /\ ~portUsed[c] =>
       /\ \A m \in toServer :
            m.addr = port[c] /\ m.data.id = ClientId => m.data.op = "TIME"
       /\ \A e \in executed : e.key = OwnKey(c) =>
            e.resp.status = "OK" /\ e.resp.payload >= startedAt[c]

-----------------------------------------------------------------------------
(* Types.                                                                  *)

\* A first execution produces a response under the id of its request.
LEMMA OutcomeType ==
  ASSUME TypeOK, NEW m \in Query, Valid(m.data)
  PROVE  /\ Outcome(m.data) \in Response
         /\ Outcome(m.data).id = m.data.id
         /\ KeyOf(m) \in Key
         /\ KeyOf(m).addr = m.addr /\ KeyOf(m).id = m.data.id
<1>1. m.addr \in Port /\ m.data \in Datagram
  BY DEF Query
<1>2. m.data \in Request
  BY <1>1 DEF Valid, Datagram
<1>3. m.data.id \in RequestId
  BY <1>2 DEF Valid, Request
<1>4. clock \in Payload /\ None \in Payload
  BY DEF TypeOK, Payload
<1> QED
  BY <1>1, <1>3, <1>4 DEF Outcome, Response, KeyOf, Key

\* The initial state is well typed.
LEMMA TypeInit == Init => TypeOK
<1> SUFFICES ASSUME Init PROVE TypeOK
  OBVIOUS
<1> QED
  BY UdpAssumption DEF Init, TypeOK, Running

\* No step of any program leaves the types.
LEMMA TypeStep == TypeOK /\ [Next]_vars => TypeOK'
<1> SUFFICES ASSUME TypeOK, [Next]_vars PROVE TypeOK'
  OBVIOUS
<1> USE UdpAssumption
<1>1. ASSUME NEW c \in Client, Start(c) PROVE TypeOK'
  BY <1>1 DEF Start, TypeOK, Running, serverVars, netVars
<1>2. ASSUME NEW c \in Client, Write(c) PROVE TypeOK'
  <2>1. Ask(port[c]) \in Query
    BY <1>2 DEF Write, Running, Ask, Query, Datagram, Request, TypeOK
  <2> QED
    BY <1>2, <2>1 DEF Write, TypeOK, Running, serverVars
<1>3. ASSUME NEW c \in Client, WriteError(c) PROVE TypeOK'
  BY <1>3 DEF WriteError, TypeOK, Running, serverVars, netVars
<1>4. ASSUME NEW c \in Client, Read(c) PROVE TypeOK'
  BY <1>4 DEF Read, TypeOK, Running, serverVars, netVars
<1>5. ASSUME NEW c \in Client, ReadError(c) PROVE TypeOK'
  BY <1>5 DEF ReadError, TypeOK, Running, serverVars, netVars
<1>6. CASE Receive
  <2> PICK m \in toServer : DropInvalid(m) \/ Reuse(m) \/ Execute(m)
    BY <1>6 DEF Receive
  <2>0. m \in Query /\ incarnation \in Nat
    BY DEF TypeOK
  <2>1. UNCHANGED <<up, incarnation, clock, toServer, toClient, clientVars>>
    BY <1>6 DEF Receive, netVars
  <2>2. CASE DropInvalid(m)
    BY <2>1, <2>2 DEF DropInvalid, TypeOK, Running, clientVars
  <2>3. CASE Reuse(m)
    <3>1. reply' \in Reply
      BY <2>0, <2>3, OutcomeType DEF Reuse, TypeOK, Reply, Query
    <3> QED
      BY <2>1, <2>3, <3>1 DEF Reuse, TypeOK, Running, clientVars
  <2>4. CASE Execute(m)
    <3>1. reply' \in Reply
      BY <2>0, <2>4, OutcomeType DEF Execute, Reply, Query
    <3>2. executed' \subseteq Execution
      BY <2>0, <2>4, OutcomeType DEF Execute, TypeOK, Execution
    <3>3. processed' \in [Key -> Response \cup {None}]
      BY <2>0, <2>4, OutcomeType DEF Execute, TypeOK
    <3> QED
      BY <2>1, <3>1, <3>2, <3>3 DEF TypeOK, Running, clientVars
  <2> QED
    BY <2>2, <2>3, <2>4
<1>7. CASE SendReply
  BY <1>7 DEF SendReply, TypeOK, Running, clientVars
<1>8. CASE Crash
  BY <1>8 DEF Crash, TypeOK, Running, clientVars, netVars
<1>9. CASE Restart
  BY <1>9 DEF Restart, TypeOK, Running, clientVars, netVars
<1>10. CASE SendStray
  <2>1. PICK p \in Port, d \in Stray :
          toServer' = toServer \cup {[addr |-> p, data |-> d]}
    BY <1>10 DEF SendStray
  <2>2. [addr |-> p, data |-> d] \in Query
    BY DEF Query
  <2> QED
    BY <1>10, <2>1, <2>2 DEF SendStray, TypeOK, Running, clientVars, serverVars
<1>11. CASE Tick
  BY <1>11 DEF Tick, TypeOK, Running, clientVars, serverVars, netVars
<1>12. CASE UNCHANGED vars
  BY <1>12 DEF TypeOK, Running, vars, clientVars, serverVars, netVars
<1> QED
  BY <1>1, <1>2, <1>3, <1>4, <1>5, <1>6, <1>7, <1>8, <1>9, <1>10, <1>11, <1>12
  DEF Next, ClientStep, ServerStep, Environment

-----------------------------------------------------------------------------
(* The cache and the executions.                                           *)

CacheInv == CacheIsExecuted /\ ExecutedIsCached /\ DownIsEmpty /\ AtMostOnce

\* A first execution finds no execution of its key in this incarnation.
LEMMA CacheStep == TypeOK /\ CacheInv /\ [Next]_vars => CacheInv'
<1> SUFFICES ASSUME TypeOK, CacheInv, [Next]_vars PROVE CacheInv'
  OBVIOUS
<1> USE DEF CacheInv
<1>1. CASE UNCHANGED serverVars
  BY <1>1 DEF CacheIsExecuted, ExecutedIsCached, DownIsEmpty, AtMostOnce,
              serverVars
<1>2. CASE Receive
  <2> PICK m \in toServer : DropInvalid(m) \/ Reuse(m) \/ Execute(m)
    BY <1>2 DEF Receive
  <2>0. m \in Query
    BY DEF TypeOK
  <2>1. up /\ UNCHANGED <<up, incarnation>>
    BY <1>2 DEF Receive
  <2>2. CASE DropInvalid(m) \/ Reuse(m)
    BY <2>1, <2>2 DEF DropInvalid, Reuse, CacheIsExecuted, ExecutedIsCached,
                      DownIsEmpty, AtMostOnce
  <2>3. CASE Execute(m)
    <3> DEFINE e == [inc |-> incarnation, key |-> KeyOf(m),
                     resp |-> Outcome(m.data)]
    <3>0. executed' = executed \cup {e} /\ processed[KeyOf(m)] = None
      BY <2>3 DEF Execute
    <3>a. /\ KeyOf(m) \in Key /\ Outcome(m.data) \in Response
          /\ Outcome(m.data) # None
      BY <2>0, <2>3, OutcomeType, UdpAssumption DEF Execute
    <3>b. /\ processed'[KeyOf(m)] = Outcome(m.data)
          /\ \A k \in Key : k # KeyOf(m) => processed'[k] = processed[k]
      BY <2>3, <3>a DEF Execute, TypeOK
    <3>c. \A f \in executed : /\ f.inc = incarnation => f.key # KeyOf(m)
                              /\ f.key \in Key /\ f.resp \in Response
      BY <2>1, <3>0, UdpAssumption DEF ExecutedIsCached, TypeOK, Execution
    <3>1. CacheIsExecuted'
      BY <2>1, <3>0, <3>a, <3>b DEF CacheIsExecuted
    <3>2. ExecutedIsCached'
      BY <2>1, <3>0, <3>a, <3>b, <3>c DEF ExecutedIsCached, TypeOK
    <3>3. DownIsEmpty'
      BY <2>1 DEF DownIsEmpty
    <3>4. AtMostOnce'
      BY <3>0, <3>c DEF AtMostOnce
    <3> QED
      BY <3>1, <3>2, <3>3, <3>4
  <2> QED
    BY <2>2, <2>3
<1>3. CASE SendReply
  BY <1>3 DEF SendReply, CacheIsExecuted, ExecutedIsCached, DownIsEmpty,
              AtMostOnce
<1>4. CASE Crash
  BY <1>4 DEF Crash, CacheIsExecuted, ExecutedIsCached, DownIsEmpty, AtMostOnce
<1>5. CASE Restart
  <2>1. \A e \in executed : e.inc < incarnation'
    BY <1>5 DEF Restart, ExecutedIsCached, TypeOK, Execution
  <2> QED
    BY <1>5, <2>1 DEF Restart, CacheIsExecuted, ExecutedIsCached, DownIsEmpty,
                      AtMostOnce, TypeOK, Execution
<1> QED
  BY <1>1, <1>2, <1>3, <1>4, <1>5
  DEF Next, ClientStep, ServerStep, Environment, Start, Write, WriteError, Read,
      ReadError, SendStray, Tick, vars

-----------------------------------------------------------------------------
(* Replies carry executions, and executions answer datagrams.              *)

RepliesInv == ExecutedWasAsked /\ RepliesExecuted

\* A reply is made of an execution, recorded or new, and travels unchanged.
LEMMA RepliesStep ==
  TypeOK /\ CacheInv /\ RepliesInv /\ [Next]_vars => RepliesInv'
<1> SUFFICES ASSUME TypeOK, CacheInv, RepliesInv, [Next]_vars
             PROVE  RepliesInv'
  OBVIOUS
<1> USE UdpAssumption DEF RepliesInv, CacheInv
<1>1. CASE UNCHANGED <<serverVars, toClient, answer>> /\ toServer \subseteq toServer'
  BY <1>1 DEF ExecutedWasAsked, RepliesExecuted, serverVars
<1>2. ASSUME NEW c \in Client, Read(c) PROVE RepliesInv'
  <2> PICK m \in toClient :
        \/ answer' = [answer EXCEPT ![c] = m] /\ ValidFor(m.resp, ClientId)
        \/ UNCHANGED answer
    BY <1>2 DEF Read
  <2> QED
    BY <1>2 DEF Read, ExecutedWasAsked, RepliesExecuted, serverVars, netVars,
                ValidFor, TypeOK
<1>3. CASE Receive
  <2> PICK m \in toServer : DropInvalid(m) \/ Reuse(m) \/ Execute(m)
    BY <1>3 DEF Receive
  <2>0. m \in Query
    BY DEF TypeOK
  <2>1. UNCHANGED <<toServer, toClient, answer>>
    BY <1>3 DEF Receive, netVars, clientVars
  <2>2. CASE DropInvalid(m)
    BY <2>1, <2>2 DEF DropInvalid, ExecutedWasAsked, RepliesExecuted
  <2>3. CASE Reuse(m)
    <3>1. KeyOf(m) \in Key /\ KeyOf(m).addr = m.addr
      BY <2>0, <2>3, OutcomeType DEF Reuse
    <3>2. [inc |-> incarnation, key |-> KeyOf(m),
           resp |-> processed[KeyOf(m)]] \in executed
      BY <2>3, <3>1 DEF Reuse, CacheIsExecuted
    <3>3. processed[KeyOf(m)].id = KeyOf(m).id
      BY <3>2 DEF ExecutedWasAsked
    <3>4. ExecutionOf(reply') \in executed
      BY <2>3, <3>1, <3>2, <3>3 DEF Reuse, ExecutionOf, KeyOf
    <3> QED
      BY <2>1, <2>3, <3>4 DEF Reuse, ExecutedWasAsked, RepliesExecuted,
                              ExecutionOf
  <2>4. CASE Execute(m)
    <3> DEFINE e == [inc |-> incarnation, key |-> KeyOf(m),
                     resp |-> Outcome(m.data)]
    <3>1. /\ Outcome(m.data).id = m.data.id /\ KeyOf(m).addr = m.addr
          /\ KeyOf(m).id = m.data.id /\ executed' = executed \cup {e}
      BY <2>0, <2>4, OutcomeType DEF Execute
    <3>2. ExecutionOf(reply') = e
      BY <2>4, <3>1 DEF Execute, ExecutionOf, KeyOf
    <3>3. Outcome(m.data).status = "OK" => Outcome(m.data).payload \in Nat
      BY DEF Outcome, TypeOK
    <3>4. ExecutedWasAsked'
      BY <2>1, <3>1, <3>3 DEF ExecutedWasAsked
    <3>5. RepliesExecuted'
      BY <2>1, <3>1, <3>2 DEF RepliesExecuted, ExecutionOf
    <3> QED
      BY <3>4, <3>5
  <2> QED
    BY <2>2, <2>3, <2>4
<1>4. CASE SendReply
  BY <1>4 DEF SendReply, ExecutedWasAsked, RepliesExecuted, ExecutionOf,
              clientVars
<1>5. CASE Crash \/ Restart
  BY <1>5 DEF Crash, Restart, ExecutedWasAsked, RepliesExecuted, ExecutionOf,
              clientVars, netVars
<1> QED
  BY <1>1, <1>2, <1>3, <1>4, <1>5
  DEF Next, ClientStep, ServerStep, Environment, Start, Write, WriteError,
      ReadError, SendStray, Tick, vars, clientVars, netVars

-----------------------------------------------------------------------------
(* A fresh port.                                                           *)

FreshInv == FreshKey /\ FreshUnlessPortReused

\* What a client does to another client's view of its key: nothing that is not
\* a TIME request.
LEMMA FreshStep ==
  TypeOK /\ CacheInv /\ RepliesInv /\ FreshInv /\ [Next]_vars => FreshInv'
<1> SUFFICES ASSUME TypeOK, CacheInv, RepliesInv, FreshInv, [Next]_vars
             PROVE  FreshInv'
  OBVIOUS
<1> USE UdpAssumption DEF FreshInv, RepliesInv, CacheInv
<1>0. /\ clock \in Nat
      /\ \A c \in Client : startedAt[c] \in Nat /\ portUsed[c] \in BOOLEAN
      /\ \A e \in executed : e.key \in Key
  BY DEF TypeOK, Execution
<1>1. ASSUME NEW c \in Client, Start(c) PROVE FreshInv'
  <2> PICK p \in Port :
        /\ port' = [port EXCEPT ![c] = p]
        /\ portUsed' = [portUsed EXCEPT
             ![c] = \E m \in toServer : m.addr = p /\ m.data.id = ClientId]
    BY <1>1 DEF Start
  <2>1. /\ pc[c] = "new" /\ pc' = [pc EXCEPT ![c] = "write"]
        /\ startedAt' = [startedAt EXCEPT ![c] = clock]
        /\ UNCHANGED <<toServer, executed, answer, clock>>
    BY <1>1 DEF Start, serverVars, netVars
  <2>2. /\ port'[c] = p /\ startedAt'[c] = clock /\ answer[c] = None
        /\ \A d \in Client \ {c} :
             UNCHANGED <<pc[d], port[d], startedAt[d], portUsed[d]>>
    BY <2>1 DEF TypeOK, FreshKey
  <2>3. ~portUsed'[c] =>
          \A m \in toServer : ~(m.addr = p /\ m.data.id = ClientId)
    BY DEF TypeOK
  <2>4. ~portUsed'[c] =>
          \A e \in executed : e.key # [addr |-> p, id |-> ClientId]
    BY <2>3 DEF ExecutedWasAsked
  <2>5. FreshKey'
    <3> SUFFICES ASSUME NEW d \in Client PROVE FreshKey!(d)'
      BY DEF FreshKey
    <3>1. CASE d = c
      BY <1>0, <2>1, <2>2, <2>3, <2>4, <3>1 DEF OwnKey
    <3>2. CASE d # c
      BY <2>1, <2>2, <3>2 DEF FreshKey, OwnKey, Running
    <3> QED
      BY <3>1, <3>2
  <2>6. FreshUnlessPortReused'
    BY <2>1, <2>2 DEF FreshUnlessPortReused
  <2> QED
    BY <2>5, <2>6
<1>2. ASSUME NEW c \in Client, Write(c) PROVE FreshInv'
  BY <1>2 DEF Write, FreshKey, FreshUnlessPortReused, OwnKey, Running, TypeOK,
              Ask, serverVars
<1>3. ASSUME NEW c \in Client, WriteError(c) \/ ReadError(c) PROVE FreshInv'
  BY <1>3 DEF WriteError, ReadError, FreshKey, FreshUnlessPortReused, OwnKey,
              Running, TypeOK, serverVars, netVars
<1>4. ASSUME NEW c \in Client, Read(c) PROVE FreshInv'
  <2>1. CASE UNCHANGED answer
    BY <1>4, <2>1 DEF Read, FreshKey, FreshUnlessPortReused, OwnKey, Running,
                      TypeOK, serverVars, netVars
  <2>2. CASE ~UNCHANGED answer
    <3> PICK m \in toClient : /\ m.addr = port[c] /\ m.resp.id = ClientId
                              /\ answer' = [answer EXCEPT ![c] = m]
      BY <1>4, <2>2 DEF Read, ValidFor
    <3>1. ExecutionOf(m) \in executed /\ ExecutionOf(m).key = OwnKey(c)
      BY DEF RepliesExecuted, ExecutionOf, OwnKey
    <3>2. ~portUsed[c] =>
            m.resp.status = "OK" /\ m.resp.payload >= startedAt[c]
      BY <1>4, <3>1 DEF FreshKey, Read, Running, ExecutionOf
    <3>3. /\ pc' = [pc EXCEPT ![c] = "done"]
          /\ UNCHANGED <<port, startedAt, portUsed, toServer, executed, clock>>
      BY <1>4, <2>2 DEF Read, serverVars, netVars
    <3>4. FreshKey'
      BY <3>3 DEF FreshKey, OwnKey, Running, TypeOK
    <3>5. FreshUnlessPortReused'
      BY <3>2, <3>3 DEF FreshUnlessPortReused, TypeOK
    <3> QED
      BY <3>4, <3>5
  <2> QED
    BY <2>1, <2>2
<1>5. CASE Receive
  <2> PICK m \in toServer : DropInvalid(m) \/ Reuse(m) \/ Execute(m)
    BY <1>5 DEF Receive
  <2>1. UNCHANGED <<clientVars, toServer, clock>>
    BY <1>5 DEF Receive, netVars
  <2>2. CASE DropInvalid(m) \/ Reuse(m)
    BY <2>1, <2>2 DEF DropInvalid, Reuse, FreshKey, FreshUnlessPortReused,
                      OwnKey, Running, clientVars
  <2>3. CASE Execute(m)
    <3> DEFINE e == [inc |-> incarnation, key |-> KeyOf(m),
                     resp |-> Outcome(m.data)]
    <3>1. executed' = executed \cup {e}
      BY <2>3 DEF Execute
    <3>2. ASSUME NEW c \in Client, Running(c), ~portUsed[c], e.key = OwnKey(c)
          PROVE  e.resp.status = "OK" /\ e.resp.payload >= startedAt[c]
      <4>1. m.data.op = "TIME"
        BY <3>2 DEF FreshKey, KeyOf, OwnKey
      <4> QED
        BY <1>0, <3>2, <4>1 DEF Outcome, FreshKey
    <3>3. FreshKey'
      BY <2>1, <3>1, <3>2 DEF FreshKey, OwnKey, Running, clientVars
    <3> QED
      BY <2>1, <3>3 DEF FreshUnlessPortReused, clientVars
  <2> QED
    BY <2>2, <2>3
<1>6. CASE SendReply \/ Crash \/ Restart
  BY <1>6 DEF SendReply, Crash, Restart, FreshKey, FreshUnlessPortReused,
              OwnKey, Running, clientVars, netVars
<1>7. CASE SendStray
  BY <1>7 DEF SendStray, Free, FreshKey, FreshUnlessPortReused, OwnKey, Running,
              clientVars, serverVars
<1>8. CASE Tick
  BY <1>0, <1>8 DEF Tick, FreshKey, FreshUnlessPortReused, OwnKey, Running,
              clientVars, serverVars, netVars
<1>9. CASE UNCHANGED vars
  BY <1>9 DEF vars, FreshKey, FreshUnlessPortReused, OwnKey, Running,
              clientVars, serverVars, netVars
<1> QED
  BY <1>1, <1>2, <1>3, <1>4, <1>5, <1>6, <1>7, <1>8, <1>9
  DEF Next, ClientStep, ServerStep, Environment

-----------------------------------------------------------------------------
(* The theorems.                                                           *)

IInv == TypeOK /\ CacheInv /\ RepliesInv /\ FreshInv

\* The parts together are inductive.
LEMMA Inductive == Spec => []IInv
<1>1. Init => IInv
  BY TypeInit, UdpAssumption
  DEF Init, IInv, CacheInv, RepliesInv, FreshInv, CacheIsExecuted,
      ExecutedIsCached, DownIsEmpty, AtMostOnce, ExecutedWasAsked,
      RepliesExecuted, FreshKey, FreshUnlessPortReused, Running
<1>2. IInv /\ [Next]_vars => IInv'
  BY TypeStep, CacheStep, RepliesStep, FreshStep DEF IInv
<1> QED
  BY <1>1, <1>2, PTL DEF Spec

\* The variables keep their types.
THEOREM TypeCorrect == Spec => []TypeOK
<1>1. IInv => TypeOK
  BY DEF IInv
<1> QED
  BY <1>1, Inductive, PTL

\* The duplicate cache of requestHandler.handle: one execution per address, id
\* and incarnation, for any number of clients, retries, duplicates and crashes.
THEOREM ExecutesAtMostOnce == Spec => []AtMostOnce
<1>1. IInv => AtMostOnce
  BY DEF IInv, CacheInv
<1> QED
  BY <1>1, Inductive, PTL

\* All replies of one incarnation to an address and id agree.
THEOREM AllRepliesAgree == Spec => []RepliesAgree
<1>1. IInv => RepliesAgree
  <2> SUFFICES ASSUME IInv, NEW m \in Replies, NEW n \in Replies,
                      m.addr = n.addr, m.inc = n.inc, m.resp.id = n.resp.id
               PROVE  m.resp = n.resp
    BY DEF RepliesAgree
  <2>1. ExecutionOf(m) \in executed /\ ExecutionOf(n) \in executed
    BY DEF IInv, RepliesInv, RepliesExecuted, Replies
  <2> QED
    BY <2>1 DEF IInv, CacheInv, AtMostOnce, ExecutionOf
<1> QED
  BY <1>1, Inductive, PTL

\* A client on a port that had not carried its id gets its own, fresh answer.
THEOREM FreshAnswers == Spec => []FreshUnlessPortReused
<1>1. IInv => FreshUnlessPortReused
  BY DEF IInv, FreshInv
<1> QED
  BY <1>1, Inductive, PTL

\* The recorded responses of a living server never change.
THEOREM StableCache == Spec => CacheIsStable
<1> DEFINE Stable == up' /\ incarnation' = incarnation =>
             \A k \in Key : processed[k] # None => processed'[k] = processed[k]
<1>1. TypeOK /\ [Next]_vars => [Stable]_vars
  <2> SUFFICES ASSUME TypeOK, Next PROVE Stable
    OBVIOUS
  <2>1. CASE UNCHANGED processed
    BY <2>1
  <2>2. CASE Receive
    <3> PICK m \in toServer : DropInvalid(m) \/ Reuse(m) \/ Execute(m)
      BY <2>2 DEF Receive
    <3> QED
      BY DEF DropInvalid, Reuse, Execute, TypeOK
  <2>3. CASE Crash \/ Restart
    BY <2>3 DEF Crash, Restart
  <2> QED
    BY <2>1, <2>2, <2>3
    DEF Next, ClientStep, ServerStep, Environment, Start, Write, WriteError,
        Read, ReadError, SendReply, SendStray, Tick, serverVars
<1> QED
  BY <1>1, TypeCorrect, PTL DEF Spec, CacheIsStable

\* The two programs and the network implement the service: every step is a
\* step of AtMostOnceService or leaves its state alone.
THEOREM Refinement == Spec => ImplementsService
<1> USE UdpAssumption
<1>1. Init => Service!AbsInit
  BY DEF Init, Accepted, Service!AbsInit
<1>2. IInv /\ [Next]_vars => [Service!AbsNext]_<<executed, Accepted>>
  <2> SUFFICES ASSUME IInv, [Next]_vars, ~UNCHANGED <<executed, Accepted>>
               PROVE  Service!AbsNext
    OBVIOUS
  <2> USE DEF IInv
  <2>1. ASSUME NEW c \in Client, Read(c) PROVE Service!AbsNext
    <3>0. UNCHANGED executed
      BY <2>1 DEF Read, serverVars
    <3>1. answer[c] = None /\ answer' # answer
      BY <2>1, <3>0 DEF Accepted, FreshInv, FreshKey, Read
    <3> PICK m \in toClient : /\ answer' = [answer EXCEPT ![c] = m]
                              /\ m.resp.id = ClientId
      BY <2>1, <3>1 DEF Read, ValidFor
    <3>2. ExecutionOf(m) \in executed /\ m # None
      BY DEF RepliesInv, RepliesExecuted, TypeOK
    <3>3. ExecutionOf(m) = [inc |-> m.inc,
             key |-> [addr |-> m.addr, id |-> ClientId], resp |-> m.resp]
      BY DEF ExecutionOf
    <3>4. /\ Accepted[c] = None
          /\ Accepted' = [Accepted EXCEPT ![c] = ExecutionOf(m)]
      BY <3>1, <3>2, <3>3 DEF Accepted, TypeOK
    <3>5. Service!Take(c)
      BY <3>0, <3>2, <3>3, <3>4 DEF Service!Take
    <3> QED
      BY <3>5 DEF Service!AbsNext
  <2>2. CASE Receive
    <3>0. UNCHANGED Accepted
      BY <2>2 DEF Receive, clientVars, Accepted
    <3> PICK m \in toServer : Execute(m)
      BY <2>2, <3>0 DEF Receive, DropInvalid, Reuse
    <3> DEFINE e == [inc |-> incarnation, key |-> KeyOf(m),
                     resp |-> Outcome(m.data)]
    <3>1. executed' = executed \cup {e} /\ processed[KeyOf(m)] = None /\ up
      BY <2>2 DEF Execute, Receive
    <3>2. e \in Execution
      BY OutcomeType DEF Execute, Execution, TypeOK
    <3>3. \A f \in executed : ~(f.inc = e.inc /\ f.key = e.key)
      BY <3>1 DEF CacheInv, ExecutedIsCached, TypeOK, Execution
    <3> QED
      BY <3>0, <3>1, <3>2, <3>3 DEF Service!AbsNext, Service!Give
  <2>3. CASE UNCHANGED <<executed, answer>>
    BY <2>3 DEF Accepted
  <2> QED
    BY <2>1, <2>2, <2>3
    DEF Next, ClientStep, ServerStep, Environment, Start, Write, WriteError,
        ReadError, SendReply, Crash, Restart, SendStray, Tick, serverVars,
        clientVars, netVars, vars
<1> QED
  BY <1>1, <1>2, Inductive, PTL DEF Spec, ImplementsService, Service!Spec
=============================================================================
