----------------------- MODULE WebSocketBarrier_proofs -----------------------
(***************************************************************************)
(* The start barrier holds for any finite number of clients.  main counts  *)
(* reports and not clients, so the argument is a balance: the successful   *)
(* reports that main has counted and those still in the channel are        *)
(* together as many as the clients that have reported.                     *)
(***************************************************************************)
EXTENDS WebSocketBarrier, FiniteSetTheorems, TLAPS

\* The successful reports that main has not taken yet.
Pending == {r \in ready : r.ok}

\* Each of them is from a client that has reported, and together with the ones
\* counted they are all of them.
ReportBalance ==
  /\ IsFiniteSet(Pending) /\ \A r \in Pending : r.id \in reported
  /\ count + Cardinality(Pending) = Cardinality(reported)

\* A client reports once.
ReportedOnce ==
  \A c \in reported : client[c] \notin {"dial", "report", "refuse"}

\* main closes start when it has counted every client, and never aborts after.
StartIsEarned ==
  /\ start => count = clientCount /\ main \notin {"gather", "abort"}
  /\ main = "wait" => start

\* Only a client released through start writes.
SendersReleased ==
  /\ sent # {} => start
  /\ \A c \in Client : client[c] = "write" => start

IInv == TypeOK /\ ReportBalance /\ ReportedOnce /\ StartIsEarned /\ SendersReleased

-----------------------------------------------------------------------------
\* The type invariant, for any number of clients: no step of main, a client, a
\* handler or the network leaves the kinds (main.go, server/main.go).
LEMMA TypeInitial == Init => TypeOK
  <1>1. IsFiniteSet(Client) /\ Cardinality(Client) \in Nat
    BY BarrierAssumption, FS_CardinalityType
  <1>2. Init => count \in 0 .. clientCount
    BY <1>1 DEF Init, clientCount
  <1> QED BY <1>2 DEF Init, TypeOK

LEMMA TypeStep == TypeOK /\ [Next]_vars => TypeOK'
  <1> SUFFICES ASSUME TypeOK, [Next]_vars PROVE TypeOK'
    OBVIOUS
  <1>0. IsFiniteSet(Client) /\ Cardinality(Client) \in Nat
    BY BarrierAssumption, FS_CardinalityType
  <1> USE <1>0 DEF TypeOK, clientCount, mainVars, wireVars, histVars
  <1>1. CASE UNCHANGED vars
    BY <1>1 DEF vars
  <1>2. CASE MainStep
    <2>1. ASSUME NEW r \in ready, count < clientCount, count' = count + 1
          PROVE  count' \in 0 .. clientCount
      BY <2>1
    <2>2. CASE Gather
      <3>1. count' \in 0 .. clientCount
        BY <2>1, <2>2 DEF Gather, Judge
      <3>2. ready' \in SUBSET [id : Client, ok : BOOLEAN]
        BY <2>2 DEF Gather
      <3> QED BY <2>2, <3>1, <3>2 DEF Gather, Judge
    <2>3. CASE GatherTimeout \/ Release \/ Return
      BY <2>3 DEF GatherTimeout, Release, Return, Wait
    <2> QED BY <1>2, <2>2, <2>3 DEF MainStep
  <1>3. CASE Timeout
    BY <1>3 DEF Timeout
  <1>4. ASSUME NEW c \in Client, ClientStep(c) PROVE TypeOK'
    <2>1. CASE Dial(c)
      BY <2>1 DEF Dial, Connect, Goto
    <2>2. CASE DialFails(c)
      <3>1. faulty' \in BOOLEAN
        BY <2>2 DEF DialFails
      <3> QED BY <2>2, <3>1 DEF DialFails, Connect, Goto
    <2>3. CASE Report(c)
      <3>1. ready' \in SUBSET [id : Client, ok : BOOLEAN]
        <4>1. (client[c] = "report") \in BOOLEAN
          OBVIOUS
        <4>2. [id |-> c, ok |-> client[c] = "report"] \in [id : Client, ok : BOOLEAN]
          BY <4>1
        <4> QED BY <2>3, <4>2 DEF Report
      <3> QED BY <2>3, <3>1 DEF Report, Goto
    <2>4. CASE Barrier(c)
      BY <2>4 DEF Barrier, Goto
    <2>5. CASE Write(c)
      BY <2>5 DEF Write, Goto
    <2>6. CASE Read(c)
      BY <2>6 DEF Read, Goto
    <2>7. CASE Close(c)
      BY <2>7 DEF Close, Goto
    <2>8. CASE Closed(c)
      BY <2>8 DEF Closed, Goto
    <2>9. CASE IOFails(c)
      BY <2>9 DEF IOFails, Goto
    <2>10. CASE Leave(c)
      BY <2>10 DEF Leave, Goto
    <2> QED BY <1>4, <2>1, <2>2, <2>3, <2>4, <2>5, <2>6, <2>7, <2>8, <2>9, <2>10
      DEF ClientStep
  <1>5. ASSUME NEW c \in Client, ServerStep(c) PROVE TypeOK'
    BY <1>5 DEF ServerStep, ServerRead, ServerWrite, ServerEnds, Serve
  <1>6. ASSUME NEW c \in Client, Break(c) PROVE TypeOK'
    BY <1>6 DEF Break
  <1> QED BY <1>1, <1>2, <1>3, <1>4, <1>5, <1>6 DEF Next

\* The type invariant, for any number of clients.
THEOREM TypeCorrect == Spec => []TypeOK
  <1> QED BY TypeInitial, TypeStep, PTL DEF Spec

-----------------------------------------------------------------------------
\* Init empties the channel and counts nothing.
LEMMA BarrierInitial == Init => IInv
  <1> SUFFICES ASSUME Init PROVE IInv
    OBVIOUS
  <1>1. TypeOK
    BY TypeInitial
  <1>2. Pending = {} /\ reported = {} /\ count = 0
    BY DEF Init, Pending
  <1>3. ReportBalance
    BY <1>2, FS_EmptySet DEF ReportBalance
  <1> QED BY <1>1, <1>2, <1>3 DEF IInv, Init, ReportedOnce, StartIsEarned, SendersReleased

\* Every step keeps the channel, the count and the reports in balance.
LEMMA BalanceStep == IInv /\ [Next]_vars => ReportBalance'
  <1> SUFFICES ASSUME IInv, [Next]_vars PROVE ReportBalance'
    OBVIOUS
  <1>0. /\ IsFiniteSet(Pending) /\ IsFiniteSet(reported)
        /\ Cardinality(Pending) \in Nat /\ Cardinality(reported) \in Nat /\ count \in Nat
    BY BarrierAssumption, FS_Subset, FS_CardinalityType DEF IInv, TypeOK, ReportBalance
  <1>1. ASSUME UNCHANGED <<ready, count, reported>> PROVE ReportBalance'
    BY <1>1 DEF IInv, ReportBalance, Pending
  <1>2. ASSUME NEW r \in ready, r.ok, count' = count + 1, ready' = ready \ {r},
               UNCHANGED reported
        PROVE  ReportBalance'
    <2>1. r \in Pending /\ Pending' = Pending \ {r}
      BY <1>2 DEF Pending
    <2>2. IsFiniteSet(Pending') /\ Cardinality(Pending') = Cardinality(Pending) - 1
      BY <1>0, <2>1, FS_RemoveElement
    <2>3. \A q \in Pending' : q.id \in reported'
      BY <1>2, <2>1 DEF IInv, ReportBalance
    <2>4. count' + Cardinality(Pending') = Cardinality(reported')
      BY <1>0, <1>2, <2>2 DEF IInv, ReportBalance
    <2> QED BY <2>2, <2>3, <2>4 DEF ReportBalance
  <1>3. ASSUME NEW r \in ready, ~r.ok, ready' = ready \ {r}, UNCHANGED <<count, reported>>
        PROVE  ReportBalance'
    <2>1. Pending' = Pending
      BY <1>3 DEF Pending
    <2> QED BY <1>3, <2>1 DEF IInv, ReportBalance
  <1>4. ASSUME NEW c \in Client, Report(c) PROVE ReportBalance'
    <2>1. CASE client[c] = "report"
      <3>1. c \notin reported
        BY <2>1 DEF IInv, ReportedOnce
      <3> DEFINE r == [id |-> c, ok |-> TRUE]
      <3>2. ready' = ready \cup {r} /\ reported' = reported \cup {c} /\ count' = count
        BY <1>4, <2>1 DEF Report, mainVars
      <3>3. Pending' = Pending \cup {r}
        BY <3>2 DEF Pending
      <3>4. r \notin Pending
        BY <3>1 DEF IInv, ReportBalance
      <3> HIDE DEF r
      <3>5. IsFiniteSet(Pending') /\ Cardinality(Pending') = Cardinality(Pending) + 1
        BY <1>0, <3>3, <3>4, FS_AddElement
      <3>6. Cardinality(reported') = Cardinality(reported) + 1
        BY <1>0, <3>1, <3>2, FS_AddElement
      <3>7. \A q \in Pending' : q.id \in reported'
        BY <3>2, <3>3 DEF IInv, ReportBalance, r
      <3>8. count' + Cardinality(Pending') = Cardinality(reported')
        BY <1>0, <3>2, <3>5, <3>6 DEF IInv, ReportBalance
      <3> QED BY <3>5, <3>7, <3>8 DEF ReportBalance
    <2>2. CASE client[c] = "refuse"
      <3>1. /\ ready' = ready \cup {[id |-> c, ok |-> FALSE]}
            /\ reported' = reported /\ count' = count
        BY <1>4, <2>2 DEF Report, mainVars
      <3>2. Pending' = Pending
        BY <3>1 DEF Pending
      <3> QED BY <3>1, <3>2 DEF IInv, ReportBalance
    <2> QED BY <1>4, <2>1, <2>2 DEF Report
  <1>5. CASE Gather
    BY <1>2, <1>3, <1>5 DEF Gather, Judge, histVars
  <1>6. CASE GatherTimeout \/ Release \/ Return \/ Timeout \/ UNCHANGED vars
    BY <1>1, <1>6 DEF GatherTimeout, Release, Return, Timeout, vars, mainVars, histVars
  <1>7. ASSUME NEW c \in Client, ClientStep(c), ~Report(c) PROVE ReportBalance'
    BY <1>1, <1>7 DEF ClientStep, Dial, DialFails, Barrier, Write, Read, Close, Closed,
      IOFails, Leave, mainVars, histVars
  <1>8. ASSUME NEW c \in Client, ServerStep(c) \/ Break(c) PROVE ReportBalance'
    BY <1>1, <1>8 DEF ServerStep, ServerRead, ServerWrite, ServerEnds, Break, mainVars, histVars
  <1> QED BY <1>4, <1>5, <1>6, <1>7, <1>8 DEF Next, MainStep

\* A client that has reported never returns to a point from which it could
\* report; main closes start once it has counted every client; and only a
\* client released through start goes on to write.
LEMMA ControlStep ==
  IInv /\ [Next]_vars => ReportedOnce' /\ StartIsEarned' /\ SendersReleased'
  <1> SUFFICES ASSUME IInv, [Next]_vars
               PROVE  ReportedOnce' /\ StartIsEarned' /\ SendersReleased'
    OBVIOUS
  <1> USE DEF IInv, TypeOK, ReportedOnce, StartIsEarned, SendersReleased, mainVars, wireVars,
          histVars
  <1>1. CASE UNCHANGED vars \/ Timeout
    BY <1>1 DEF vars, Timeout
  <1>2. CASE MainStep
    BY <1>2 DEF MainStep, Gather, Judge, GatherTimeout, Release, Return, Wait
  <1>3. ASSUME NEW c \in Client, ClientStep(c)
        PROVE  ReportedOnce' /\ StartIsEarned' /\ SendersReleased'
    <2>1. CASE Dial(c) \/ DialFails(c)
      BY <2>1 DEF Dial, DialFails, Goto
    <2>2. CASE Report(c)
      BY <2>2 DEF Report, Goto
    <2>3. CASE Barrier(c) \/ Write(c)
      BY <2>3 DEF Barrier, Write, Goto
    <2>4. CASE Read(c) \/ Close(c) \/ Closed(c)
      BY <2>4 DEF Read, Close, Closed, Goto
    <2>5. CASE IOFails(c) \/ Leave(c)
      BY <2>5 DEF IOFails, Leave, Goto
    <2> QED BY <1>3, <2>1, <2>2, <2>3, <2>4, <2>5 DEF ClientStep
  <1>4. ASSUME NEW c \in Client, ServerStep(c) \/ Break(c)
        PROVE  ReportedOnce' /\ StartIsEarned' /\ SendersReleased'
    BY <1>4 DEF ServerStep, ServerRead, ServerWrite, ServerEnds, Break
  <1> QED BY <1>1, <1>2, <1>3, <1>4 DEF Next

\* The inductive invariant.
LEMMA BarrierInvariant == Spec => []IInv
  <1>1. IInv /\ [Next]_vars => IInv'
    BY TypeStep, BalanceStep, ControlStep DEF IInv
  <1> QED BY BarrierInitial, <1>1, PTL DEF Spec

\* The barrier, for any finite number of clients: no client writes a message
\* before every client has reported that it is connected (main.go:90-97).
THEOREM Barriers == Spec => []NoEarlyMessage
  <1>1. IInv => NoEarlyMessage
    <2> SUFFICES ASSUME IInv, sent # {} PROVE reported = Client
      BY DEF NoEarlyMessage
    <2>1. count = Cardinality(Client)
      BY DEF IInv, SendersReleased, StartIsEarned, clientCount
    <2>2. /\ Cardinality(Pending) \in Nat /\ IsFiniteSet(reported)
          /\ Cardinality(reported) \in Nat /\ Cardinality(Client) \in Nat
      BY BarrierAssumption, FS_Subset, FS_CardinalityType DEF IInv, TypeOK, ReportBalance
    <2>3. Cardinality(reported) <= Cardinality(Client)
      BY BarrierAssumption, FS_Subset DEF IInv, TypeOK
    <2>4. Cardinality(reported) = Cardinality(Client)
      BY <2>1, <2>2, <2>3 DEF IInv, ReportBalance
    <2> QED BY <2>4, BarrierAssumption, FS_Subset DEF IInv, TypeOK
  <1> QED BY <1>1, BarrierInvariant, PTL

\* An aborted attempt sends nothing, for any finite number of clients
\* (main.go:43-47, :50-54).
THEOREM AbortsSilently == Spec => []AbortedIsSilent
  <1>1. IInv => AbortedIsSilent
    BY DEF IInv, StartIsEarned, SendersReleased, AbortedIsSilent
  <1> QED BY <1>1, BarrierInvariant, PTL

-----------------------------------------------------------------------------
\* While nothing has gone wrong: the context lives until main has seen everyone
\* done, every report is a success, and each client's connection and history are
\* those of its place in runClient.
Clean ==
  /\ ctx = "live" \/ main = "returned"
  /\ main = "returned" => \A c \in Client : client[c] = "done"
  /\ main # "abort" /\ \A r \in ready : r.ok
  /\ \A c \in Client :
       /\ client[c] # "refuse"
       /\ client[c] \in {"report", "barrier", "write", "read", "close"} => link[c] = "open"
       /\ client[c] = "closing" => link[c] \in {"closing", "closed"}
       /\ client[c] \in {"read", "close", "closing", "leave", "done"} => c \in sent
       /\ client[c] \in {"leave", "done"} => link[c] = "closed" /\ c \in graceful

CleanInv == ~faulty => Clean

\* Only a fault takes a client off this path.
LEMMA CleanStep == TypeOK /\ CleanInv /\ [Next]_vars => CleanInv'
  <1> SUFFICES ASSUME TypeOK, CleanInv, [Next]_vars, ~faulty' PROVE Clean'
    BY DEF CleanInv
  <1>0. /\ client \in [Client -> {"dial", "report", "refuse", "barrier", "write", "read",
                                  "close", "closing", "leave", "done"}]
        /\ link \in [Client -> {"none", "open", "closing", "closed", "broken"}]
    BY DEF TypeOK
  <1> USE <1>0 DEF CleanInv, Clean, mainVars, wireVars, histVars
  <1>1. CASE UNCHANGED vars \/ Timeout
    BY <1>1 DEF vars, Timeout
  <1>2. CASE MainStep
    BY <1>2 DEF MainStep, Gather, Judge, GatherTimeout, Release, Return, Wait
  <1>3. ASSUME NEW c \in Client, ClientStep(c) PROVE Clean'
    <2>1. CASE Dial(c)
      BY <2>1 DEF Dial, Connect, Goto
    <2>2. CASE DialFails(c)
      <3>1. ~faulty /\ ctx # "live" /\ client[c] = "dial"
        BY <2>2 DEF DialFails
      <3> QED BY <3>1
    <2>3. CASE Report(c)
      <3>1. ~faulty
        BY <2>3 DEF Report
      <3>2. client[c] = "report"
        BY <2>3, <3>1 DEF Report
      <3>3. ready' = ready \cup {[id |-> c, ok |-> TRUE]} /\ Goto(c, "barrier")
        BY <2>3, <3>2 DEF Report
      <3>4. \A r \in ready' : r.ok
        BY <3>1, <3>3
      <3>5. UNCHANGED <<main, ctx, link, sent, graceful>>
        BY <2>3 DEF Report
      <3> QED BY <3>1, <3>2, <3>3, <3>4, <3>5 DEF Goto
    <2>4. CASE Barrier(c) \/ Write(c)
      BY <2>4 DEF Barrier, Write, Goto
    <2>5. CASE Read(c) \/ Close(c) \/ Closed(c)
      BY <2>5 DEF Read, Close, Closed, Goto
    <2>6. CASE IOFails(c) \/ Leave(c)
      BY <2>6 DEF IOFails, Leave, Goto
    <2> QED BY <1>3, <2>1, <2>2, <2>3, <2>4, <2>5, <2>6 DEF ClientStep
  <1>4. ASSUME NEW c \in Client, ServerStep(c) \/ Break(c) PROVE Clean'
    BY <1>4 DEF ServerStep, ServerRead, ServerWrite, ServerEnds, Break
  <1> QED BY <1>1, <1>2, <1>3, <1>4 DEF Next

\* Without a fault everyone sends, is answered and closes gracefully, for any
\* finite number of clients (main.go:61-62, :118-126).
THEOREM CleanRuns == Spec => []CleanRunIsComplete
  <1>1. Init => CleanInv
    BY DEF Init, CleanInv, Clean
  <1>2. TypeOK /\ CleanInv => CleanRunIsComplete
    BY DEF TypeOK, CleanInv, Clean, CleanRunIsComplete
  <1> QED BY <1>1, <1>2, CleanStep, TypeCorrect, PTL DEF Spec
=============================================================================
