------------------------- MODULE Backpressure_proofs -------------------------
(***************************************************************************)
(* Theorems about the backpressure experiment, for every finite set of     *)
(* connections or clients, capacity and policy: the counters and gauge of  *)
(* WorkQueue, the server, balance, and so does what LoadClient, the load   *)
(* generators, prints of a run.                                            *)
(***************************************************************************)
EXTENDS WorkQueue, LoadClient, FiniteSetTheorems, SequenceTheorems, WellFoundedInduction, TLAPS

-----------------------------------------------------------------------------
(* Counting the handlers at some phases.                                   *)

Phase == {"none", "read", "accepted", "refused", "busy", "send", "parked",
          "sent", "submitted", "await", "closed"}

Count(P) == Cardinality(At(P))

\* One if p is a phase in P.
One(p, P) == IF p \in P THEN 1 ELSE 0

\* The number of handlers at some phases is a number, not zero at their own.
LEMMA CountType ==
  ASSUME NEW P
  PROVE  /\ IsFiniteSet(At(P)) /\ Count(P) \in Nat
         /\ \A c \in Conn : pc[c] \in P => Count(P) >= 1
<1>1. IsFiniteSet(At(P))
  BY WorkQueueAssumption, FS_Subset DEF At
<1>2. Cardinality(At(P)) \in Nat
  BY <1>1, FS_CardinalityType
<1>3. ASSUME NEW c \in Conn, pc[c] \in P PROVE Cardinality(At(P)) >= 1
  <2>1. At(P) # {}
    BY <1>3 DEF At
  <2>2. Cardinality(At(P)) # 0
    BY <1>1, <2>1, FS_EmptySet
  <2> QED
    BY <1>2, <2>2
<1> QED
  BY <1>1, <1>2, <1>3 DEF Count

\* One handler's move changes a count by what it leaves and what it enters.
LEMMA CountMove ==
  ASSUME NEW P, NEW c \in Conn, NEW at, pc \in [Conn -> Phase], Goto(c, at)
  PROVE  Count(P)' = Count(P) - One(pc[c], P) + One(at, P)
<1>1. pc'[c] = at /\ \A d \in Conn \ {c} : pc'[d] = pc[d]
  BY DEF Goto
<1>2. IsFiniteSet(At(P)) /\ Count(P) \in Nat
  BY CountType
<1>3. CASE pc[c] \in P <=> at \in P
  <2>1. At(P)' = At(P)
    BY <1>1, <1>3 DEF At
  <2>2. Count(P)' = Count(P)
    BY <2>1 DEF Count
  <2>3. One(pc[c], P) = One(at, P) /\ One(at, P) \in Nat
    BY <1>3 DEF One
  <2> QED
    BY <1>2, <2>2, <2>3
<1>4. CASE pc[c] \in P /\ at \notin P
  <2>1. At(P)' = At(P) \ {c} /\ c \in At(P)
    BY <1>1, <1>4 DEF At
  <2>2. Count(P)' = Count(P) - 1
    BY <1>2, <2>1, FS_RemoveElement DEF Count
  <2> QED
    BY <1>2, <1>4, <2>2 DEF One
<1>5. CASE pc[c] \notin P /\ at \in P
  <2>1. At(P)' = At(P) \cup {c} /\ c \notin At(P)
    BY <1>1, <1>5 DEF At
  <2>2. Count(P)' = Count(P) + 1
    BY <1>2, <2>1, FS_AddElement DEF Count
  <2> QED
    BY <1>2, <1>5, <2>2 DEF One
<1> QED
  BY <1>3, <1>4, <1>5

-----------------------------------------------------------------------------
(* The inductive invariant.                                                *)

\* The parked senders are different handlers, all of them parked.
ParkedInOrder == \A i \in 1 .. Len(parked) :
  /\ pc[parked[i]] = "parked"
  /\ \A j \in 1 .. Len(parked) : i # j => parked[i] # parked[j]

Submitting  == {"send", "parked", "sent"}
Unaccounted == {"accepted", "refused", "send", "parked", "sent", "submitted"}
Unqueued    == {"parked", "sent", "submitted"}

ChannelInv == ParkedInOrder /\ ParkedOnlyWhenFull
Balances   == WaitingGauge /\ AcceptedBalance /\ CompletedBalance
IInv       == TypeOK /\ ChannelInv /\ Balances

\* The balances in terms of Count.
LEMMA BalancesAsCounts ==
  /\ WaitingGauge <=> waiting = Count(Submitting)
  /\ AcceptedBalance <=> accepted = queued + rejected + Count(Unaccounted)
  /\ CompletedBalance <=>
       completed + Len(jobs) + Len(parked)
         + (IF working # None /\ ~counted THEN 1 ELSE 0)
       = queued + Count(Unqueued)
BY DEF WaitingGauge, AcceptedBalance, CompletedBalance, Count, Submitting,
       Unaccounted, Unqueued

\* What the phases of the three counts are.
LEMMA Phases == TypeOK => pc \in [Conn -> Phase]
BY DEF TypeOK, Phase

\* A receive keeps the channel's type and order.
LEMMA ReceiveJobFacts ==
  ASSUME TypeOK, ChannelInv, ReceiveJob
  PROVE  /\ jobs' \in Seq(Conn) /\ parked' \in Seq(Conn)
         /\ Head(jobs) \in Conn
         /\ pc' \in [Conn -> Phase]
         /\ ChannelInv'
         /\ \/ /\ parked = <<>> /\ Len(parked) = 0
               /\ UNCHANGED <<parked, pc>> /\ Len(jobs') = Len(jobs) - 1
            \/ /\ Head(parked) \in Conn /\ pc[Head(parked)] = "parked"
               /\ Goto(Head(parked), "sent")
               /\ Len(jobs') = Len(jobs) /\ Len(parked') = Len(parked) - 1
<1> USE WorkQueueAssumption DEF ChannelInv
<1>0. jobs \in Seq(Conn) /\ parked \in Seq(Conn) /\ jobs # <<>>
  BY DEF TypeOK, ReceiveJob
<1>1. Head(jobs) \in Conn /\ Tail(jobs) \in Seq(Conn)
      /\ Len(Tail(jobs)) = Len(jobs) - 1 /\ Len(jobs) \in Nat
  BY <1>0
<1>2. CASE parked = <<>> /\ jobs' = Tail(jobs) /\ UNCHANGED <<parked, pc>>
  <2>1. ParkedOnlyWhenFull'
    BY <1>0, <1>1, <1>2 DEF ParkedOnlyWhenFull
  <2> QED
    BY <1>0, <1>1, <1>2, <2>1, Phases DEF ParkedInOrder
<1>3. CASE /\ parked # <<>> /\ jobs' = Append(Tail(jobs), Head(parked))
           /\ parked' = Tail(parked) /\ Goto(Head(parked), "sent")
  <2>1. /\ Head(parked) \in Conn /\ parked' \in Seq(Conn)
        /\ Head(parked) = parked[1] /\ Len(parked') = Len(parked) - 1
        /\ \A i \in 1 .. Len(parked') : parked'[i] = parked[i + 1]
    BY <1>0, <1>3
  <2>2. jobs' \in Seq(Conn) /\ Len(jobs') = Len(jobs)
    BY <1>0, <1>1, <1>3, <2>1
  <2>3. pc[Head(parked)] = "parked"
    BY <1>0, <1>3, <2>1 DEF ParkedInOrder
  <2>4. pc' \in [Conn -> Phase]
    BY <1>3, Phases DEF Goto, Phase
  <2>5. ParkedInOrder'
    <3> SUFFICES ASSUME NEW i \in 1 .. Len(parked')
                 PROVE  /\ pc'[parked'[i]] = "parked"
                        /\ \A j \in 1 .. Len(parked') :
                             i # j => parked'[i] # parked'[j]
      BY DEF ParkedInOrder
    <3>1. i + 1 \in 1 .. Len(parked) /\ 1 \in 1 .. Len(parked) /\ i + 1 # 1
      BY <1>0, <2>1
    <3>2. parked[i + 1] \in Conn /\ parked[i + 1] # parked[1]
          /\ pc[parked[i + 1]] = "parked"
      BY <1>0, <3>1 DEF ParkedInOrder
    <3>3. \A j \in 1 .. Len(parked') : i # j => parked[i + 1] # parked[j + 1]
      BY <1>0, <2>1, <3>1 DEF ParkedInOrder
    <3> QED
      BY <1>3, <2>1, <3>2, <3>3, Phases DEF Goto
  <2>6. ParkedOnlyWhenFull'
    BY <1>3, <2>2 DEF ParkedOnlyWhenFull
  <2> QED
    BY <1>1, <1>3, <2>1, <2>2, <2>3, <2>4, <2>5, <2>6
<1> QED
  BY <1>2, <1>3 DEF ReceiveJob

-----------------------------------------------------------------------------
(* Types.                                                                  *)

\* No step leaves the types; the gauge is never taken below zero.
LEMMA TypeStep == IInv /\ [Next]_vars => TypeOK'
<1> SUFFICES ASSUME IInv, [Next]_vars PROVE TypeOK'
  OBVIOUS
<1> USE WorkQueueAssumption DEF IInv
<1>0. policy' \in {"block", "reject"}
  BY DEF Next, Handler, Peer, Worker, vars, TypeOK
<1> USE <1>0
<1>1. ASSUME NEW c \in Conn, ReadWork(c) PROVE TypeOK'
  BY <1>1 DEF ReadWork, TypeOK, channelVars, workerVars, Goto
<1>2. ASSUME NEW c \in Conn, ReadOther(c) PROVE TypeOK'
  BY <1>2 DEF ReadOther, TypeOK, channelVars, workerVars, counterVars, Goto
<1>3. ASSUME NEW c \in Conn, Offer(c) PROVE TypeOK'
  <2>1. pc' \in [Conn -> Phase]
    BY <1>3, Phases DEF Offer, Goto, Phase
  <2>2. jobs' \in Seq(Conn) /\ parked' \in Seq(Conn)
    <3>1. jobs \in Seq(Conn) /\ parked \in Seq(Conn)
      BY DEF TypeOK
    <3>2. Append(jobs, c) \in Seq(Conn)
      BY <3>1
    <3> QED
      BY <1>3, <3>1, <3>2 DEF Offer
  <2> QED
    BY <1>3, <2>1, <2>2 DEF Offer, TypeOK, Phase, workerVars, counterVars
<1>4. ASSUME NEW c \in Conn, CountRejected(c) PROVE TypeOK'
  BY <1>4 DEF CountRejected, TypeOK, channelVars, workerVars, Goto
<1>5. ASSUME NEW c \in Conn, StartWaiting(c) PROVE TypeOK'
  BY <1>5 DEF StartWaiting, TypeOK, channelVars, workerVars, Goto
<1>6. ASSUME NEW c \in Conn, Send(c) PROVE TypeOK'
  <2>1. pc' \in [Conn -> Phase]
    BY <1>6, Phases DEF Send, Goto, Phase
  <2>2. jobs' \in Seq(Conn) /\ parked' \in Seq(Conn)
    <3>1. jobs \in Seq(Conn) /\ parked \in Seq(Conn)
      BY DEF TypeOK
    <3>2. Append(jobs, c) \in Seq(Conn) /\ Append(parked, c) \in Seq(Conn)
      BY <3>1
    <3> QED
      BY <1>6, <3>1, <3>2 DEF Send
  <2> QED
    BY <1>6, <2>1, <2>2 DEF Send, TypeOK, Phase, workerVars, counterVars
<1>7. ASSUME NEW c \in Conn, StopWaiting(c) PROVE TypeOK'
  <2>1. waiting >= 1 /\ waiting \in Nat
    BY <1>7, BalancesAsCounts, CountType
    DEF StopWaiting, Balances, Submitting, TypeOK
  <2> QED
    BY <1>7, <2>1 DEF StopWaiting, TypeOK, channelVars, workerVars, Goto
<1>8. ASSUME NEW c \in Conn, CountQueued(c) PROVE TypeOK'
  BY <1>8 DEF CountQueued, TypeOK, channelVars, workerVars, Goto
<1>9. ASSUME NEW c \in Conn, WriteBusy(c) PROVE TypeOK'
  BY <1>9 DEF WriteBusy, TypeOK, channelVars, workerVars, counterVars, Reply, Goto
<1>10. ASSUME NEW c \in Conn, WriteDone(c) PROVE TypeOK'
  BY <1>10 DEF WriteDone, TypeOK, channelVars, workerVars, counterVars, Reply, Goto
<1>11. ASSUME NEW c \in Conn, Connect(c) PROVE TypeOK'
  BY <1>11 DEF Connect, TypeOK, channelVars, workerVars, counterVars, Goto
<1>12. ASSUME NEW c \in Conn, Ask(c) PROVE TypeOK'
  BY <1>12 DEF Ask, TypeOK, channelVars, workerVars, counterVars
<1>13. ASSUME NEW c \in Conn, TakeReply(c) PROVE TypeOK'
  BY <1>13 DEF TakeReply, TypeOK, channelVars, workerVars, counterVars, Reply, Goto
<1>14. ASSUME NEW c \in Conn, Leave(c) PROVE TypeOK'
  BY <1>14 DEF Leave, TypeOK, handlerVars, channelVars, workerVars, counterVars
<1>15. CASE Take
  BY <1>15, ReceiveJobFacts DEF Take, TypeOK, Phase, counterVars
<1>16. CASE CountCompleted
  BY <1>16 DEF CountCompleted, TypeOK, handlerVars, channelVars
<1>17. CASE CloseDone
  BY <1>17 DEF CloseDone, TypeOK, handlerVars, channelVars, counterVars
<1>18. CASE UNCHANGED vars
  BY <1>18 DEF TypeOK, vars, handlerVars, channelVars, workerVars, counterVars
<1> QED
  BY <1>1, <1>2, <1>3, <1>4, <1>5, <1>6, <1>7, <1>8, <1>9, <1>10, <1>11, <1>12,
     <1>13, <1>14, <1>15, <1>16, <1>17, <1>18
  DEF Next, Handler, Peer, Worker

-----------------------------------------------------------------------------
(* The channel.                                                            *)

\* Only Send and Take touch the channel, and a parked handler stays where it is.
LEMMA ChannelStep == IInv /\ [Next]_vars => ChannelInv'
<1> SUFFICES ASSUME IInv, [Next]_vars PROVE ChannelInv'
  OBVIOUS
<1> USE WorkQueueAssumption DEF IInv, ChannelInv
<1>0. /\ jobs \in Seq(Conn) /\ parked \in Seq(Conn) /\ pc \in [Conn -> Phase]
      /\ \A i \in 1 .. Len(parked) : parked[i] \in Conn
  BY Phases DEF TypeOK
<1>1. ASSUME NEW c \in Conn, NEW at, Goto(c, at), pc[c] # "parked",
             UNCHANGED channelVars
      PROVE  ChannelInv'
  BY <1>0, <1>1 DEF Goto, ParkedInOrder, ParkedOnlyWhenFull, channelVars
<1>2. CASE UNCHANGED <<pc, jobs, parked>>
  BY <1>2 DEF ParkedInOrder, ParkedOnlyWhenFull
<1>3. ASSUME NEW c \in Conn, ~Full, jobs' = Append(jobs, c), UNCHANGED parked,
             NEW at, Goto(c, at), pc[c] # "parked"
      PROVE  ChannelInv'
  <2>1. Len(jobs') = Len(jobs) + 1 /\ Len(jobs) \in Nat
    BY <1>0, <1>3
  <2>2. parked = <<>>
    BY <1>0, <1>3, <2>1 DEF ParkedOnlyWhenFull, Full
  <2> QED
    BY <1>3, <2>1, <2>2 DEF ParkedInOrder, ParkedOnlyWhenFull, Full
<1>4. ASSUME NEW c \in Conn, Full, parked' = Append(parked, c), UNCHANGED jobs,
             Goto(c, "parked"), pc[c] # "parked"
      PROVE  ChannelInv'
  <2>1. /\ Len(parked') = Len(parked) + 1 /\ Len(parked) \in Nat
        /\ parked'[Len(parked) + 1] = c
        /\ \A i \in 1 .. Len(parked) : parked'[i] = parked[i] /\ parked[i] # c
    BY <1>0, <1>4 DEF ParkedInOrder
  <2>2. ParkedInOrder'
    <3> SUFFICES ASSUME NEW i \in 1 .. Len(parked')
                 PROVE  /\ pc'[parked'[i]] = "parked"
                        /\ \A j \in 1 .. Len(parked') :
                             i # j => parked'[i] # parked'[j]
      BY DEF ParkedInOrder
    <3>1. CASE i = Len(parked) + 1
      BY <1>0, <1>4, <2>1, <3>1 DEF Goto
    <3>2. CASE i \in 1 .. Len(parked)
      <4>1. parked'[i] = parked[i] /\ parked[i] # c /\ parked[i] \in Conn
        BY <1>0, <2>1, <3>2
      <4>2. pc'[parked'[i]] = "parked"
        BY <1>0, <1>4, <3>2, <4>1 DEF Goto, ParkedInOrder
      <4>3. ASSUME NEW j \in 1 .. Len(parked'), i # j
            PROVE  parked'[i] # parked'[j]
        BY <1>0, <2>1, <3>2, <4>1, <4>3 DEF ParkedInOrder
      <4> QED
        BY <4>2, <4>3
    <3> QED
      BY <2>1, <3>1, <3>2
  <2>3. ParkedOnlyWhenFull'
    BY <1>0, <1>4 DEF ParkedOnlyWhenFull, Full
  <2> QED
    BY <2>2, <2>3
<1>5. ASSUME NEW c \in Conn, Offer(c) \/ Send(c) PROVE ChannelInv'
  BY <1>1, <1>3, <1>4, <1>5 DEF Offer, Send, channelVars
<1>6. CASE Take
  BY <1>6, ReceiveJobFacts DEF Take
<1>7. ASSUME NEW c \in Conn, Reply(c, "BUSY") \/ Reply(c, "DONE"),
             pc[c] # "parked", UNCHANGED channelVars
      PROVE  ChannelInv'
  BY <1>1, <1>7 DEF Reply
<1>8. ASSUME NEW c \in Conn, Handler(c) PROVE ChannelInv'
  BY <1>1, <1>5, <1>7, <1>8
  DEF Handler, ReadWork, ReadOther, CountRejected, StartWaiting, StopWaiting,
      CountQueued, WriteBusy, WriteDone
<1>9. ASSUME NEW c \in Conn, Peer(c) PROVE ChannelInv'
  <2>1. CASE Connect(c)
    BY <1>1, <2>1 DEF Connect
  <2> QED
    BY <1>2, <1>9, <2>1
    DEF Peer, Ask, TakeReply, Leave, handlerVars, channelVars
<1> QED
  BY <1>2, <1>6, <1>8, <1>9
  DEF Next, Worker, CountCompleted, CloseDone, vars, handlerVars, channelVars

-----------------------------------------------------------------------------
(* The balances.                                                           *)

\* How the three counts change when handler c goes to at.
LEMMA CountsMove ==
  ASSUME TypeOK, NEW c \in Conn, NEW at, Goto(c, at)
  PROVE  /\ Count(Submitting)' =
              Count(Submitting) - One(pc[c], Submitting) + One(at, Submitting)
         /\ Count(Unaccounted)' =
              Count(Unaccounted) - One(pc[c], Unaccounted)
                                 + One(at, Unaccounted)
         /\ Count(Unqueued)' =
              Count(Unqueued) - One(pc[c], Unqueued) + One(at, Unqueued)
         /\ Count(Submitting) \in Nat /\ Count(Unaccounted) \in Nat
         /\ Count(Unqueued) \in Nat
BY CountMove, CountType, Phases

\* Every counter moves with the handler or the worker that it counts.
LEMMA BalancesStep == IInv /\ [Next]_vars => Balances'
<1> SUFFICES ASSUME IInv, [Next]_vars PROVE Balances'
  OBVIOUS
<1> DEFINE InWork == IF working # None /\ ~counted THEN 1 ELSE 0
           L == Len(jobs) + Len(parked) + InWork
           W == Count(Submitting)
           U == Count(Unaccounted)
           Q == Count(Unqueued)
<1>0. TypeOK /\ ChannelInv /\ Balances
  BY DEF IInv
<1>1. /\ waiting \in Nat /\ accepted \in Nat /\ queued \in Nat
      /\ rejected \in Nat /\ completed \in Nat
      /\ L \in Nat /\ W \in Nat /\ U \in Nat /\ Q \in Nat
  <2>1. Len(jobs) \in Nat /\ Len(parked) \in Nat
    BY <1>0 DEF TypeOK
  <2> QED
    BY <1>0, <2>1, CountType DEF TypeOK
<1>2. waiting = W /\ accepted = queued + rejected + U /\ completed + L = queued + Q
  <2>1. Len(jobs) \in Nat /\ Len(parked) \in Nat /\ completed \in Nat
    BY <1>0 DEF TypeOK
  <2> QED
    BY <1>0, <2>1, BalancesAsCounts DEF Balances
<1>3. L' \in Nat /\ completed' \in Nat
  <2>1. TypeOK'
    BY TypeStep
  <2>2. Len(jobs') \in Nat /\ Len(parked') \in Nat
    BY <2>1 DEF TypeOK
  <2> QED
    BY <2>1, <2>2 DEF TypeOK
<1>4. SUFFICES /\ waiting' = W' /\ accepted' = queued' + rejected' + U'
               /\ completed' + L' = queued' + Q'
  <2>1. TypeOK'
    BY TypeStep
  <2>2. Len(jobs') \in Nat /\ Len(parked') \in Nat /\ completed' \in Nat
    BY <2>1 DEF TypeOK
  <2> QED
    BY <2>2
    DEF Balances, WaitingGauge, AcceptedBalance, CompletedBalance, Count,
        Submitting, Unaccounted, Unqueued
<1>5. ASSUME NEW c \in Conn, NEW at, Goto(c, at)
      PROVE  /\ W' = W - One(pc[c], Submitting) + One(at, Submitting)
             /\ U' = U - One(pc[c], Unaccounted) + One(at, Unaccounted)
             /\ Q' = Q - One(pc[c], Unqueued) + One(at, Unqueued)
  BY <1>0, <1>5, CountsMove
<1>6. UNCHANGED pc => W' = W /\ U' = U /\ Q' = Q
  BY DEF Count, At
<1>7. UNCHANGED <<channelVars, workerVars>> => L' = L
  BY DEF channelVars, workerVars
<1> HIDE DEF W, U, Q, L
<1> DEFINE Goal == /\ waiting' = W' /\ accepted' = queued' + rejected' + U'
                   /\ completed' + L' = queued' + Q'
<1>8. ASSUME NEW c \in Conn, ReadWork(c) PROVE Goal
  <2>1. /\ pc[c] = "read" /\ Goto(c, "accepted")
        /\ UNCHANGED <<channelVars, workerVars>>
        /\ waiting' = waiting /\ accepted' = accepted + 1 /\ queued' = queued
        /\ rejected' = rejected /\ completed' = completed
    BY <1>8 DEF ReadWork, counterVars
  <2>2. W' = W /\ U' = U + 1 /\ Q' = Q
    BY <1>1, <1>5, <2>1 DEF One, Submitting, Unaccounted, Unqueued
  <2> QED
    BY <1>1, <1>2, <1>7, <2>1, <2>2
<1>9. ASSUME NEW c \in Conn, ReadOther(c) PROVE Goal
  <2>1. /\ pc[c] = "read" /\ Goto(c, "closed")
        /\ UNCHANGED <<channelVars, workerVars>>
        /\ waiting' = waiting /\ accepted' = accepted /\ queued' = queued
        /\ rejected' = rejected /\ completed' = completed
    BY <1>9 DEF ReadOther, counterVars
  <2>2. W' = W /\ U' = U /\ Q' = Q
    BY <1>1, <1>5, <2>1 DEF One, Submitting, Unaccounted, Unqueued
  <2> QED
    BY <1>1, <1>2, <1>7, <2>1, <2>2
<1>10. ASSUME NEW c \in Conn, CountRejected(c) PROVE Goal
  <2>1. /\ pc[c] = "refused" /\ Goto(c, "busy")
        /\ UNCHANGED <<channelVars, workerVars>>
        /\ waiting' = waiting /\ accepted' = accepted /\ queued' = queued
        /\ rejected' = rejected + 1 /\ completed' = completed
    BY <1>10 DEF CountRejected, counterVars
  <2>2. W' = W /\ U' = U - 1 /\ Q' = Q
    BY <1>1, <1>5, <2>1 DEF One, Submitting, Unaccounted, Unqueued
  <2> QED
    BY <1>1, <1>2, <1>7, <2>1, <2>2
<1>11. ASSUME NEW c \in Conn, StartWaiting(c) PROVE Goal
  <2>1. /\ pc[c] = "accepted" /\ Goto(c, "send")
        /\ UNCHANGED <<channelVars, workerVars>>
        /\ waiting' = waiting + 1 /\ accepted' = accepted /\ queued' = queued
        /\ rejected' = rejected /\ completed' = completed
    BY <1>11 DEF StartWaiting, counterVars
  <2>2. W' = W + 1 /\ U' = U /\ Q' = Q
    BY <1>1, <1>5, <2>1 DEF One, Submitting, Unaccounted, Unqueued
  <2> QED
    BY <1>1, <1>2, <1>7, <2>1, <2>2
<1>12. ASSUME NEW c \in Conn, StopWaiting(c) PROVE Goal
  <2>1. /\ pc[c] = "sent" /\ Goto(c, "submitted")
        /\ UNCHANGED <<channelVars, workerVars>>
        /\ waiting' = waiting - 1 /\ accepted' = accepted /\ queued' = queued
        /\ rejected' = rejected /\ completed' = completed
    BY <1>12 DEF StopWaiting, counterVars
  <2>2. W' = W - 1 /\ U' = U /\ Q' = Q
    BY <1>1, <1>5, <2>1 DEF One, Submitting, Unaccounted, Unqueued
  <2> QED
    BY <1>1, <1>2, <1>7, <2>1, <2>2
<1>13. ASSUME NEW c \in Conn, CountQueued(c) PROVE Goal
  <2>1. /\ pc[c] = "submitted" /\ Goto(c, "await")
        /\ UNCHANGED <<channelVars, workerVars>>
        /\ waiting' = waiting /\ accepted' = accepted /\ queued' = queued + 1
        /\ rejected' = rejected /\ completed' = completed
    BY <1>13 DEF CountQueued, counterVars
  <2>2. W' = W /\ U' = U - 1 /\ Q' = Q - 1
    BY <1>1, <1>5, <2>1 DEF One, Submitting, Unaccounted, Unqueued
  <2> QED
    BY <1>1, <1>2, <1>7, <2>1, <2>2
<1>14. ASSUME NEW c \in Conn, Connect(c) PROVE Goal
  <2>1. /\ pc[c] = "none" /\ Goto(c, "read")
        /\ UNCHANGED <<channelVars, workerVars>>
        /\ waiting' = waiting /\ accepted' = accepted /\ queued' = queued
        /\ rejected' = rejected /\ completed' = completed
    BY <1>14 DEF Connect, counterVars
  <2>2. W' = W /\ U' = U /\ Q' = Q
    BY <1>1, <1>5, <2>1 DEF One, Submitting, Unaccounted, Unqueued
  <2> QED
    BY <1>1, <1>2, <1>7, <2>1, <2>2
<1>15. ASSUME NEW c \in Conn, Offer(c) PROVE Goal
  <2>0. /\ pc[c] = "accepted" /\ UNCHANGED workerVars
        /\ waiting' = waiting /\ accepted' = accepted /\ queued' = queued
        /\ rejected' = rejected /\ completed' = completed
    BY <1>15 DEF Offer, counterVars
  <2>1. CASE jobs' = Append(jobs, c) /\ Goto(c, "submitted") /\ UNCHANGED parked
    <3>1. L' = L + 1
      <4>1. Len(jobs) \in Nat /\ Len(parked) \in Nat
            /\ Len(jobs') = Len(jobs) + 1
        BY <1>0, <2>1 DEF TypeOK
      <4>2. InWork' = InWork /\ InWork \in Nat
        BY <2>0 DEF workerVars
      <4> QED
        BY <2>1, <4>1, <4>2 DEF L
    <3>2. W' = W /\ U' = U /\ Q' = Q + 1
      BY <1>1, <1>5, <2>0, <2>1 DEF One, Submitting, Unaccounted, Unqueued
    <3> QED
      BY <1>1, <1>2, <2>0, <3>1, <3>2
  <2>2. CASE UNCHANGED <<jobs, parked>> /\ Goto(c, "refused")
    <3>1. L' = L
      BY <1>7, <2>0, <2>2 DEF channelVars
    <3>2. W' = W /\ U' = U /\ Q' = Q
      BY <1>1, <1>5, <2>0, <2>2 DEF One, Submitting, Unaccounted, Unqueued
    <3> QED
      BY <1>1, <1>2, <2>0, <3>1, <3>2
  <2> QED
    BY <1>15, <2>1, <2>2 DEF Offer
<1>16. ASSUME NEW c \in Conn, Send(c) PROVE Goal
  <2>0. /\ pc[c] = "send" /\ UNCHANGED workerVars
        /\ waiting' = waiting /\ accepted' = accepted /\ queued' = queued
        /\ rejected' = rejected /\ completed' = completed
    BY <1>16 DEF Send, counterVars
  <2>1. CASE jobs' = Append(jobs, c) /\ Goto(c, "sent") /\ UNCHANGED parked
    <3>1. L' = L + 1
      <4>1. Len(jobs) \in Nat /\ Len(parked) \in Nat
            /\ Len(jobs') = Len(jobs) + 1
        BY <1>0, <2>1 DEF TypeOK
      <4>2. InWork' = InWork /\ InWork \in Nat
        BY <2>0 DEF workerVars
      <4> QED
        BY <2>1, <4>1, <4>2 DEF L
    <3>2. W' = W /\ U' = U /\ Q' = Q + 1
      BY <1>1, <1>5, <2>0, <2>1 DEF One, Submitting, Unaccounted, Unqueued
    <3> QED
      BY <1>1, <1>2, <2>0, <3>1, <3>2
  <2>2. CASE parked' = Append(parked, c) /\ Goto(c, "parked") /\ UNCHANGED jobs
    <3>1. L' = L + 1
      <4>1. Len(jobs) \in Nat /\ Len(parked) \in Nat
            /\ Len(parked') = Len(parked) + 1
        BY <1>0, <2>2 DEF TypeOK
      <4>2. InWork' = InWork /\ InWork \in Nat
        BY <2>0 DEF workerVars
      <4> QED
        BY <2>2, <4>1, <4>2 DEF L
    <3>2. W' = W /\ U' = U /\ Q' = Q + 1
      BY <1>1, <1>5, <2>0, <2>2 DEF One, Submitting, Unaccounted, Unqueued
    <3> QED
      BY <1>1, <1>2, <2>0, <3>1, <3>2
  <2> QED
    BY <1>16, <2>1, <2>2 DEF Send
<1>17. ASSUME NEW c \in Conn, WriteBusy(c) \/ WriteDone(c) PROVE Goal
  <2>1. PICK at \in {"read", "closed"} : Goto(c, at)
    BY <1>17 DEF WriteBusy, WriteDone, Reply
  <2>2. /\ pc[c] \in {"busy", "await"}
        /\ UNCHANGED <<channelVars, workerVars>>
        /\ waiting' = waiting /\ accepted' = accepted /\ queued' = queued
        /\ rejected' = rejected /\ completed' = completed
    BY <1>17 DEF WriteBusy, WriteDone, counterVars
  <2>3. W' = W /\ U' = U /\ Q' = Q
    BY <1>1, <1>5, <2>1, <2>2 DEF One, Submitting, Unaccounted, Unqueued
  <2> QED
    BY <1>1, <1>2, <1>7, <2>2, <2>3
<1>18. CASE UNCHANGED <<pc, channelVars, workerVars, counterVars>>
  BY <1>1, <1>2, <1>6, <1>7, <1>18 DEF counterVars
<1>19. CASE Take
  <2>0. /\ waiting' = waiting /\ accepted' = accepted /\ queued' = queued
        /\ rejected' = rejected /\ completed' = completed
    BY <1>19 DEF Take, counterVars
  <2>1. InWork = 0 /\ InWork' = 1
    BY <1>0, <1>19, ReceiveJobFacts, WorkQueueAssumption DEF Take, TypeOK
  <2>2. CASE /\ parked = <<>> /\ Len(parked) = 0
             /\ UNCHANGED <<parked, pc>> /\ Len(jobs') = Len(jobs) - 1
    <3>1. L' = L
      BY <1>0, <2>1, <2>2 DEF L, TypeOK
    <3> QED
      BY <1>1, <1>2, <1>6, <2>0, <2>2, <3>1
  <2>3. CASE /\ Head(parked) \in Conn /\ pc[Head(parked)] = "parked"
             /\ Goto(Head(parked), "sent")
             /\ Len(jobs') = Len(jobs) /\ Len(parked') = Len(parked) - 1
    <3>1. L' = L
      BY <1>0, <2>1, <2>3 DEF L, TypeOK
    <3>2. W' = W /\ U' = U /\ Q' = Q
      BY <1>1, <1>5, <2>3 DEF One, Submitting, Unaccounted, Unqueued
    <3> QED
      BY <1>1, <1>2, <2>0, <3>1, <3>2
  <2> QED
    BY <1>0, <1>19, <2>2, <2>3, ReceiveJobFacts DEF Take
<1>20. CASE CountCompleted
  <2>0. /\ waiting' = waiting /\ accepted' = accepted /\ queued' = queued
        /\ rejected' = rejected /\ completed' = completed + 1 /\ UNCHANGED pc
    BY <1>20 DEF CountCompleted, handlerVars
  <2>1. L' = L - 1
    <3>1. InWork = 1 /\ InWork' = 0 /\ UNCHANGED channelVars
      BY <1>20 DEF CountCompleted
    <3>2. Len(jobs) \in Nat /\ Len(parked) \in Nat
      BY <1>0 DEF TypeOK
    <3> QED
      BY <3>1, <3>2 DEF L, channelVars
  <2> QED
    BY <1>1, <1>2, <1>6, <2>0, <2>1
<1>21. CASE CloseDone
  <2>0. /\ waiting' = waiting /\ accepted' = accepted /\ queued' = queued
        /\ rejected' = rejected /\ completed' = completed /\ UNCHANGED pc
    BY <1>21 DEF CloseDone, handlerVars, counterVars
  <2>1. L' = L
    BY <1>21 DEF CloseDone, channelVars, L
  <2> QED
    BY <1>1, <1>2, <1>6, <2>0, <2>1
<1> QED
  BY <1>8, <1>9, <1>10, <1>11, <1>12, <1>13, <1>14, <1>15, <1>16, <1>17,
     <1>18, <1>19, <1>20, <1>21
  DEF Next, Handler, Peer, Worker, Ask, TakeReply, Leave, vars, handlerVars

-----------------------------------------------------------------------------
(* Where the jobs are.                                                     *)

\* The handlers whose job has been taken into the channel, and those with one
\* that is under way at all.
InFlight == {"sent", "submitted", "await"}
Owning   == {"parked", "sent", "submitted", "await"}

\* A job is in one place only, its handler waits for it, and a handler that
\* waits has a job somewhere.
InPlace ==
  /\ \A i \in 1 .. Len(jobs) :
       /\ pc[jobs[i]] \in InFlight /\ jobs[i] # working /\ jobs[i] \notin done
       /\ \A j \in 1 .. Len(jobs) : i # j => jobs[i] # jobs[j]
  /\ working # None => pc[working] \in InFlight /\ working \notin done
  /\ \A c \in done : pc[c] \in InFlight
  /\ \A c \in Conn : pc[c] \in InFlight =>
       c \in done \/ c = working \/ \E i \in 1 .. Len(jobs) : jobs[i] = c
  /\ \A c \in Conn : pc[c] = "parked" =>
       \E i \in 1 .. Len(parked) : parked[i] = c

\* There are as many jobs as there are such handlers.
AsMany ==
  Len(jobs) + Len(parked) + Cardinality(done)
    + (IF working = None THEN 0 ELSE 1) = Count(Owning)

\* What the lemmas below use of the invariant.
LEMMA PlaceTypes ==
  ASSUME IInv
  PROVE  /\ jobs \in Seq(Conn) /\ parked \in Seq(Conn)
         /\ Len(jobs) \in Nat /\ Len(parked) \in Nat
         /\ \A i \in 1 .. Len(jobs) : jobs[i] \in Conn
         /\ \A i \in 1 .. Len(parked) : parked[i] \in Conn
         /\ pc \in [Conn -> Phase] /\ None \notin Conn
         /\ working \in Conn \cup {None} /\ done \subseteq Conn
         /\ IsFiniteSet(done) /\ Cardinality(done) \in Nat
         /\ Count(Owning) \in Nat /\ ParkedInOrder
<1>1. IsFiniteSet(Conn) /\ None \notin Conn
  BY WorkQueueAssumption
<1>2. TypeOK /\ ParkedInOrder /\ pc \in [Conn -> Phase]
  BY Phases DEF IInv, ChannelInv
<1>3. jobs \in Seq(Conn) /\ parked \in Seq(Conn) /\ done \subseteq Conn
      /\ working \in Conn \cup {None}
  BY <1>2 DEF TypeOK
<1>4. IsFiniteSet(done) /\ Cardinality(done) \in Nat
  BY <1>1, <1>3, FS_Subset, FS_CardinalityType
<1> QED
  BY <1>1, <1>2, <1>3, <1>4, CountType

\* How their number changes when handler c goes to at.
LEMMA OwningMove ==
  ASSUME IInv, NEW c \in Conn, NEW at, Goto(c, at)
  PROVE  /\ pc[c] \in Owning /\ at \in Owning =>
              Count(Owning)' = Count(Owning)
         /\ pc[c] \notin Owning /\ at \notin Owning =>
              Count(Owning)' = Count(Owning)
         /\ pc[c] \notin Owning /\ at \in Owning =>
              Count(Owning)' = Count(Owning) + 1
         /\ pc[c] \in Owning /\ at \notin Owning =>
              Count(Owning)' = Count(Owning) - 1
<1>1. Count(Owning) \in Nat
  BY PlaceTypes
<1>2. Count(Owning)' = Count(Owning) - One(pc[c], Owning) + One(at, Owning)
  BY CountMove, PlaceTypes
<1> HIDE DEF Count
<1> QED
  BY <1>1, <1>2 DEF One

\* A handler that stays among, or outside, those with a job under way.
LEMMA PlaceKept ==
  ASSUME IInv, InPlace, AsMany, NEW c \in Conn, NEW at, Goto(c, at),
         pc[c] \in InFlight <=> at \in InFlight,
         pc[c] # "parked", at # "parked",
         UNCHANGED <<jobs, parked, working, done>>
  PROVE  InPlace' /\ AsMany'
<1>1. pc'[c] = at /\ \A d \in Conn : d # c => pc'[d] = pc[d]
  BY PlaceTypes DEF Goto
<1>2. InPlace'
  BY <1>1, PlaceTypes DEF InPlace
<1>3. Count(Owning)' = Count(Owning)
  <2>1. pc[c] \in Owning <=> at \in Owning
    BY DEF Owning, InFlight
  <2> QED
    BY <2>1, OwningMove
<1> QED
  BY <1>2, <1>3 DEF AsMany

\* A handler's job enters the buffer.
LEMMA PlaceBuffered ==
  ASSUME IInv, InPlace, AsMany, NEW c \in Conn, NEW at \in InFlight,
         Goto(c, at), pc[c] \notin Owning, jobs' = Append(jobs, c),
         UNCHANGED <<parked, working, done>>
  PROVE  InPlace' /\ AsMany'
<1>1. pc'[c] = at /\ \A d \in Conn : d # c => pc'[d] = pc[d]
  BY PlaceTypes DEF Goto
<1>2. /\ Len(jobs') = Len(jobs) + 1 /\ jobs'[Len(jobs) + 1] = c
      /\ Len(jobs) + 1 \in 1 .. Len(jobs')
      /\ \A i \in 1 .. Len(jobs) : i \in 1 .. Len(jobs') /\ jobs'[i] = jobs[i]
      /\ \A i \in 1 .. Len(jobs') :
           i = Len(jobs) + 1 \/ i \in 1 .. Len(jobs)
  BY PlaceTypes
<1>3. /\ c \notin done /\ c # working
      /\ \A i \in 1 .. Len(jobs) : jobs[i] # c
      /\ \A i \in 1 .. Len(parked) : parked[i] # c
  BY PlaceTypes DEF InPlace, ParkedInOrder, Owning, InFlight
<1>4. InPlace'
  <2>1. ASSUME NEW i \in 1 .. Len(jobs')
        PROVE  /\ pc'[jobs'[i]] \in InFlight /\ jobs'[i] # working
               /\ jobs'[i] \notin done
               /\ \A j \in 1 .. Len(jobs') : i # j => jobs'[i] # jobs'[j]
    BY <1>1, <1>2, <1>3, PlaceTypes DEF InPlace
  <2>2. /\ working # None => pc'[working] \in InFlight /\ working \notin done
        /\ \A d \in done : pc'[d] \in InFlight
    BY <1>1, <1>3, PlaceTypes DEF InPlace
  <2>3. ASSUME NEW d \in Conn, pc'[d] \in InFlight
        PROVE  \/ d \in done \/ d = working
               \/ \E i \in 1 .. Len(jobs') : jobs'[i] = d
    BY <1>1, <1>2, <2>3 DEF InPlace
  <2>4. ASSUME NEW d \in Conn, pc'[d] = "parked"
        PROVE  \E i \in 1 .. Len(parked) : parked[i] = d
    BY <1>1, <2>4 DEF InPlace, InFlight
  <2> QED
    BY <2>1, <2>2, <2>3, <2>4 DEF InPlace
<1>5. Count(Owning)' = Count(Owning) + 1
  <2>1. at \in Owning
    BY DEF Owning, InFlight
  <2> QED
    BY <2>1, OwningMove
<1> QED
  BY <1>2, <1>4, <1>5, PlaceTypes DEF AsMany

\* A handler parks with its job.
LEMMA PlaceParked ==
  ASSUME IInv, InPlace, AsMany, NEW c \in Conn, Goto(c, "parked"),
         pc[c] \notin Owning, parked' = Append(parked, c),
         UNCHANGED <<jobs, working, done>>
  PROVE  InPlace' /\ AsMany'
<1>1. pc'[c] = "parked" /\ \A d \in Conn : d # c => pc'[d] = pc[d]
  BY PlaceTypes DEF Goto
<1>2. /\ Len(parked') = Len(parked) + 1 /\ parked'[Len(parked) + 1] = c
      /\ Len(parked) + 1 \in 1 .. Len(parked')
      /\ \A i \in 1 .. Len(parked) :
           i \in 1 .. Len(parked') /\ parked'[i] = parked[i]
  BY PlaceTypes
<1>3. \A d \in Conn : pc[d] \in InFlight => d # c
  BY DEF Owning, InFlight
<1>4. InPlace'
  <2>1. ASSUME NEW d \in Conn, pc'[d] = "parked"
        PROVE  \E i \in 1 .. Len(parked') : parked'[i] = d
    BY <1>1, <1>2, <2>1 DEF InPlace
  <2>2. \A d \in Conn : pc'[d] \in InFlight <=> pc[d] \in InFlight
    BY <1>1, <1>3 DEF InFlight
  <2> QED
    BY <2>1, <2>2, PlaceTypes DEF InPlace
<1>5. Count(Owning)' = Count(Owning) + 1
  <2>1. "parked" \in Owning
    BY DEF Owning
  <2> QED
    BY <2>1, OwningMove
<1> QED
  BY <1>2, <1>4, <1>5, PlaceTypes DEF AsMany

\* The worker takes the first job, and a parked one follows into the buffer.
LEMMA PlaceTaken ==
  ASSUME IInv, InPlace, AsMany, Take
  PROVE  InPlace' /\ AsMany'
<1>0. /\ jobs # <<>> /\ working = None /\ working' = Head(jobs)
      /\ UNCHANGED done
  BY DEF Take, ReceiveJob
<1>1. /\ 1 \in 1 .. Len(jobs) /\ Head(jobs) = jobs[1] /\ jobs[1] \in Conn
      /\ Len(Tail(jobs)) = Len(jobs) - 1 /\ Tail(jobs) \in Seq(Conn)
      /\ \A i \in 1 .. Len(Tail(jobs)) :
           i + 1 \in 1 .. Len(jobs) /\ Tail(jobs)[i] = jobs[i + 1]
      /\ \A i \in 1 .. Len(jobs) :
           i = 1 \/ (i - 1 \in 1 .. Len(Tail(jobs)) /\ Tail(jobs)[i - 1] = jobs[i])
  BY <1>0, PlaceTypes
<1>2. ASSUME NEW i \in 1 .. Len(Tail(jobs))
      PROVE  /\ pc[Tail(jobs)[i]] \in InFlight /\ Tail(jobs)[i] # jobs[1]
             /\ Tail(jobs)[i] \notin done /\ Tail(jobs)[i] \in Conn
             /\ \A j \in 1 .. Len(Tail(jobs)) :
                  i # j => Tail(jobs)[i] # Tail(jobs)[j]
  <2>1. i + 1 \in 1 .. Len(jobs) /\ i + 1 # 1
    BY <1>1
  <2>2. \A j \in 1 .. Len(Tail(jobs)) : i # j => i + 1 # j + 1
    OBVIOUS
  <2> QED
    BY <1>1, <2>1, <2>2, PlaceTypes DEF InPlace
<1>3. pc[jobs[1]] \in InFlight /\ jobs[1] \notin done /\ jobs[1] # None
  BY <1>1, PlaceTypes DEF InPlace
<1>4. ASSUME NEW d \in Conn, pc[d] \in InFlight
      PROVE  \/ d \in done \/ d = jobs[1]
             \/ \E i \in 1 .. Len(Tail(jobs)) : Tail(jobs)[i] = d
  <2>1. d \in done \/ \E i \in 1 .. Len(jobs) : jobs[i] = d
    BY <1>0, <1>4, PlaceTypes DEF InPlace
  <2> QED
    BY <1>1, <2>1
<1>5. CASE parked = <<>> /\ jobs' = Tail(jobs) /\ UNCHANGED <<parked, pc>>
  <2>1. InPlace'
    BY <1>0, <1>1, <1>2, <1>3, <1>4, <1>5 DEF InPlace
  <2>2. Count(Owning)' = Count(Owning)
    BY <1>5 DEF Count, At
  <2> QED
    BY <1>0, <1>1, <1>3, <1>5, <2>1, <2>2, PlaceTypes DEF AsMany
<1>6. CASE /\ parked # <<>> /\ jobs' = Append(Tail(jobs), Head(parked))
           /\ parked' = Tail(parked) /\ Goto(Head(parked), "sent")
  <2> DEFINE p == parked[1]
             n == Len(Tail(jobs))
  <2>1. /\ p = Head(parked) /\ p \in Conn /\ 1 \in 1 .. Len(parked)
        /\ Len(parked') = Len(parked) - 1
        /\ \A i \in 1 .. Len(parked) :
             i = 1 \/ (i - 1 \in 1 .. Len(parked') /\ parked'[i - 1] = parked[i])
    BY <1>6, PlaceTypes
  <2>2. pc[p] = "parked"
    BY <2>1, PlaceTypes DEF ParkedInOrder
  <2>3. pc'[p] = "sent" /\ \A d \in Conn : d # p => pc'[d] = pc[d]
    BY <1>6, <2>1, PlaceTypes DEF Goto
  <2>4. /\ Len(jobs') = n + 1 /\ jobs'[n + 1] = p /\ n + 1 \in 1 .. Len(jobs')
        /\ \A i \in 1 .. n : i \in 1 .. Len(jobs') /\ jobs'[i] = Tail(jobs)[i]
        /\ \A i \in 1 .. Len(jobs') : i = n + 1 \/ i \in 1 .. n
    <3> DEFINE t == Tail(jobs)
    <3>1. t \in Seq(Conn) /\ p \in Conn /\ jobs' = Append(t, p) /\ n = Len(t)
      BY <1>1, <1>6, <2>1
    <3> HIDE DEF t, n, p
    <3>2. n \in Nat /\ Len(jobs') = n + 1 /\ jobs'[n + 1] = p
      BY <3>1
    <3>3. \A i \in 1 .. n : jobs'[i] = t[i]
      BY <3>1
    <3>4. \A i \in 1 .. n : jobs'[i] = Tail(jobs)[i]
      BY <3>3 DEF t
    <3>5. /\ n + 1 \in 1 .. Len(jobs')
          /\ \A i \in 1 .. n : i \in 1 .. Len(jobs')
          /\ \A i \in 1 .. Len(jobs') : i = n + 1 \/ i \in 1 .. n
      BY <3>2
    <3> QED
      BY <3>2, <3>4, <3>5
  <2>5. /\ p \notin done /\ p # jobs[1]
        /\ \A i \in 1 .. n : Tail(jobs)[i] # p
    BY <1>2, <1>3, <2>2 DEF InPlace, InFlight
  <2>6. \A d \in Conn : pc'[d] \in InFlight <=> (d = p \/ pc[d] \in InFlight)
    BY <2>3 DEF InFlight
  <2> HIDE DEF n, p
  <2>7. InPlace'
    <3>1. ASSUME NEW i \in 1 .. Len(jobs')
          PROVE  /\ pc'[jobs'[i]] \in InFlight /\ jobs'[i] # jobs[1]
                 /\ jobs'[i] \notin done
                 /\ \A j \in 1 .. Len(jobs') : i # j => jobs'[i] # jobs'[j]
      <4>1. CASE i = n + 1
        BY <2>1, <2>4, <2>5, <2>6, <4>1
      <4>2. CASE i \in 1 .. n
        <5>1. /\ jobs'[i] = Tail(jobs)[i] /\ jobs'[i] # p
              /\ jobs'[i] \in Conn /\ pc[jobs'[i]] \in InFlight
          BY <1>2, <2>4, <2>5, <4>2 DEF n
        <5> QED
          BY <1>2, <2>4, <2>5, <2>6, <4>2, <5>1 DEF n
      <4> QED
        BY <2>4, <4>1, <4>2
    <3>2. pc'[jobs[1]] \in InFlight /\ \A d \in done : pc'[d] \in InFlight
      BY <1>1, <1>3, <2>6, PlaceTypes DEF InPlace
    <3>3. ASSUME NEW d \in Conn, pc'[d] \in InFlight
          PROVE  \/ d \in done \/ d = jobs[1]
                 \/ \E i \in 1 .. Len(jobs') : jobs'[i] = d
      <4>1. CASE d = p
        BY <2>4, <4>1
      <4>2. CASE pc[d] \in InFlight
        BY <1>4, <2>4, <4>2 DEF n
      <4> QED
        BY <2>6, <3>3, <4>1, <4>2
    <3>4. ASSUME NEW d \in Conn, pc'[d] = "parked"
          PROVE  \E i \in 1 .. Len(parked') : parked'[i] = d
      <4>1. d # p /\ pc[d] = "parked"
        BY <2>3, <3>4
      <4>2. PICK i \in 1 .. Len(parked) : parked[i] = d
        BY <4>1 DEF InPlace
      <4> QED
        BY <2>1, <4>1, <4>2 DEF p
    <3> QED
      BY <1>0, <1>1, <1>3, <3>1, <3>2, <3>3, <3>4 DEF InPlace
  <2>8. Count(Owning)' = Count(Owning)
    <3>1. Goto(p, "sent")
      BY <1>6, <2>1
    <3>2. "parked" \in Owning /\ "sent" \in Owning
      BY DEF Owning
    <3> QED
      BY <2>1, <2>2, <3>1, <3>2, OwningMove
  <2> QED
    <3>1. Len(jobs') = Len(jobs) /\ Len(parked') = Len(parked) - 1
      <4>1. Len(jobs) \in Nat /\ n = Len(jobs) - 1
        BY <1>1, PlaceTypes DEF n
      <4> QED
        BY <2>1, <2>4, <4>1
    <3>2. working = None /\ working' # None /\ done' = done
      BY <1>0, <1>1, <1>3
    <3>3. /\ Len(jobs) \in Nat /\ Len(parked) \in Nat
          /\ Cardinality(done) \in Nat
      BY PlaceTypes
    <3> QED
      BY <2>7, <2>8, <3>1, <3>2, <3>3 DEF AsMany
<1> QED
  BY <1>5, <1>6 DEF Take, ReceiveJob

\* The worker finishes its job.
LEMMA PlaceDone ==
  ASSUME IInv, InPlace, AsMany, CloseDone
  PROVE  InPlace' /\ AsMany'
<1>1. /\ working \in Conn /\ working' = None /\ done' = done \cup {working}
      /\ UNCHANGED <<pc, jobs, parked>>
  BY PlaceTypes DEF CloseDone, handlerVars, channelVars
<1>2. pc[working] \in InFlight /\ working \notin done /\ working # None
  BY <1>1, PlaceTypes DEF InPlace
<1>3. InPlace'
  BY <1>1, <1>2, PlaceTypes DEF InPlace
<1>4. Cardinality(done') = Cardinality(done) + 1
  BY <1>1, <1>2, PlaceTypes, FS_AddElement
<1>5. Count(Owning)' = Count(Owning)
  BY <1>1 DEF Count, At
<1> QED
  BY <1>1, <1>2, <1>3, <1>4, <1>5, PlaceTypes DEF AsMany

\* A handler sees its job done.
LEMMA PlaceSeen ==
  ASSUME IInv, InPlace, AsMany, NEW c \in Conn, WriteDone(c)
  PROVE  InPlace' /\ AsMany'
<1>1. /\ pc[c] = "await" /\ c \in done /\ done' = done \ {c}
      /\ UNCHANGED <<jobs, parked, working>>
  BY DEF WriteDone, channelVars, workerVars
<1>2. PICK at \in {"read", "closed"} : Goto(c, at)
  BY DEF WriteDone, Reply
<1>3. pc'[c] = at /\ \A d \in Conn : d # c => pc'[d] = pc[d]
  BY <1>2, PlaceTypes DEF Goto
<1>4. c # working /\ \A i \in 1 .. Len(jobs) : jobs[i] # c
  BY <1>1, PlaceTypes DEF InPlace
<1>5. InPlace'
  <2>1. \A d \in Conn : pc'[d] \in InFlight <=> d # c /\ pc[d] \in InFlight
    BY <1>3 DEF InFlight
  <2>2. \A d \in Conn : pc'[d] = "parked" => pc[d] = "parked"
    BY <1>3
  <2> QED
    BY <1>1, <1>4, <2>1, <2>2, PlaceTypes DEF InPlace
<1>6. Cardinality(done') = Cardinality(done) - 1
  BY <1>1, PlaceTypes, FS_RemoveElement
<1>7. Count(Owning)' = Count(Owning) - 1
  <2>1. pc[c] \in Owning /\ at \notin Owning
    BY <1>1 DEF Owning
  <2> QED
    BY <1>2, <2>1, OwningMove
<1> QED
  BY <1>1, <1>5, <1>6, <1>7, PlaceTypes DEF AsMany

\* At the start there are no jobs.
LEMMA PlaceInit == Init => InPlace /\ AsMany
<1> SUFFICES ASSUME Init PROVE InPlace /\ AsMany
  OBVIOUS
<1>1. /\ Len(jobs) = 0 /\ Len(parked) = 0 /\ done = {} /\ working = None
      /\ \A c \in Conn : pc[c] = "none"
  BY DEF Init
<1>2. At(Owning) = {}
  BY <1>1 DEF At, Owning
<1>3. Cardinality({}) = 0
  BY FS_EmptySet
<1>4. AsMany
  BY <1>1, <1>2, <1>3 DEF AsMany, Count
<1> QED
  BY <1>1, <1>4 DEF InPlace, InFlight

\* Every step leaves each job in its one place.
LEMMA PlaceStep == IInv /\ InPlace /\ AsMany /\ [Next]_vars => InPlace' /\ AsMany'
<1> SUFFICES ASSUME IInv, InPlace, AsMany, [Next]_vars PROVE InPlace' /\ AsMany'
  OBVIOUS
<1>1. ASSUME NEW c \in Conn,
             \/ ReadWork(c) \/ ReadOther(c) \/ CountRejected(c) \/ WriteBusy(c)
             \/ StartWaiting(c) \/ StopWaiting(c) \/ CountQueued(c) \/ Connect(c)
      PROVE  InPlace' /\ AsMany'
  <2>1. PICK at \in Phase :
          /\ Goto(c, at) /\ (pc[c] \in InFlight <=> at \in InFlight)
          /\ pc[c] # "parked" /\ at # "parked"
    BY <1>1
    DEF ReadWork, ReadOther, CountRejected, WriteBusy, StartWaiting,
        StopWaiting, CountQueued, Connect, Reply, Phase, InFlight
  <2>2. UNCHANGED <<jobs, parked, working, done>>
    BY <1>1
    DEF ReadWork, ReadOther, CountRejected, WriteBusy, StartWaiting,
        StopWaiting, CountQueued, Connect, channelVars, workerVars
  <2> QED
    BY <2>1, <2>2, PlaceKept
<1>2. ASSUME NEW c \in Conn, Offer(c) PROVE InPlace' /\ AsMany'
  <2>1. /\ pc[c] = "accepted" /\ UNCHANGED <<parked, working, done>>
        /\ "refused" \notin InFlight /\ "accepted" \notin Owning
        /\ "accepted" \notin InFlight /\ "submitted" \in InFlight
    BY <1>2 DEF Offer, workerVars, InFlight, Owning
  <2>2. CASE jobs' = Append(jobs, c) /\ Goto(c, "submitted")
    BY <2>1, <2>2, PlaceBuffered
  <2>3. CASE UNCHANGED jobs /\ Goto(c, "refused")
    BY <2>1, <2>3, PlaceKept
  <2> QED
    BY <1>2, <2>2, <2>3 DEF Offer
<1>3. ASSUME NEW c \in Conn, Send(c) PROVE InPlace' /\ AsMany'
  <2>1. /\ pc[c] = "send" /\ UNCHANGED <<working, done>>
        /\ "send" \notin Owning /\ "sent" \in InFlight
    BY <1>3 DEF Send, workerVars, InFlight, Owning
  <2>2. CASE jobs' = Append(jobs, c) /\ UNCHANGED parked /\ Goto(c, "sent")
    BY <2>1, <2>2, PlaceBuffered
  <2>3. CASE parked' = Append(parked, c) /\ UNCHANGED jobs /\ Goto(c, "parked")
    BY <2>1, <2>3, PlaceParked
  <2> QED
    BY <1>3, <2>2, <2>3 DEF Send
<1>4. CASE UNCHANGED <<pc, jobs, parked, working, done>>
  BY <1>4 DEF InPlace, AsMany, Count, At
<1> QED
  BY <1>1, <1>2, <1>3, <1>4, PlaceTaken, PlaceDone, PlaceSeen
  DEF Next, Handler, Peer, Worker, Ask, TakeReply, Leave, CountCompleted, vars,
      handlerVars, channelVars, workerVars

-----------------------------------------------------------------------------
(* First come, first served.                                               *)

\* Three pieces put together, one of which grows at its end.
LEMMA ConcatAppend ==
  ASSUME NEW S, NEW f \in Seq(S), NEW s \in Seq(S), NEW t \in Seq(S), NEW e \in S
  PROVE  /\ f \o s \o Append(t, e) = Append(f \o s \o t, e)
         /\ t = <<>> => f \o Append(s, e) \o t = Append(f \o s \o t, e)
<1>1. <<e>> \in Seq(S) /\ f \o s \in Seq(S)
  BY ConcatProperties
<1>2. f \o s \o Append(t, e) = Append(f \o s \o t, e)
  <2>1. Append(t, e) = t \o <<e>>
    BY AppendIsConcat
  <2>2. f \o s \o t \in Seq(S)
    BY <1>1, ConcatProperties
  <2>3. Append(f \o s \o t, e) = f \o s \o t \o <<e>>
    BY <2>2, AppendIsConcat
  <2> QED
    BY <1>1, <2>1, <2>3, ConcatAssociative
<1>3. ASSUME t = <<>> PROVE f \o Append(s, e) \o t = Append(f \o s \o t, e)
  <2>1. /\ Append(s, e) = s \o <<e>> /\ Append(s, e) \in Seq(S)
        /\ Append(f \o s, e) = f \o s \o <<e>>
    BY <1>1, AppendIsConcat, AppendProperties
  <2>2. f \o Append(s, e) \in Seq(S)
    BY <2>1, ConcatProperties
  <2>3. f \o Append(s, e) \o t = f \o Append(s, e)
    BY <1>3, <2>2, ConcatEmptySeq
  <2>4. f \o s \o t = f \o s
    BY <1>1, <1>3, ConcatEmptySeq
  <2>5. f \o Append(s, e) = Append(f \o s, e)
    BY <1>1, <2>1, ConcatAssociative
  <2> QED
    BY <2>3, <2>4, <2>5
<1> QED
  BY <1>2, <1>3

\* A first element in front of two pieces.
LEMMA ConcatFirst ==
  ASSUME NEW S, NEW s \in Seq(S), NEW t \in Seq(S), NEW e \in S
  PROVE  /\ <<e>> \o s \o t # <<>>
         /\ Tail(<<e>> \o s \o t) = <<>> \o s \o t
<1>1. <<e>> \in Seq(S) /\ s \o t \in Seq(S) /\ Len(<<e>>) = 1
  BY ConcatProperties
<1>2. <<e>> \o s \o t = <<e>> \o (s \o t)
  BY <1>1, ConcatAssociative
<1>3. <<>> \o s = s
  BY ConcatEmptySeq
<1> DEFINE u == s \o t
           v == <<e>> \o u
<1>4. u \in Seq(S)
  BY <1>1
<1> HIDE DEF u
<1>5. v \in Seq(S) /\ Len(v) = 1 + Len(u) /\ Len(u) \in Nat
      /\ \A i \in 1 .. Len(u) : v[i + 1] = u[i]
  BY <1>1, <1>4, ConcatProperties
<1> HIDE DEF v
<1>6. v # <<>>
  BY <1>5
<1>7. Tail(v) \in Seq(S) /\ Len(Tail(v)) = Len(u)
      /\ \A i \in 1 .. Len(u) : Tail(v)[i] = u[i]
  BY <1>5, <1>6
<1>8. Tail(v) = u
  BY <1>4, <1>7, SeqEqual
<1> QED
  BY <1>2, <1>3, <1>6, <1>8 DEF u, v

\* The head of one piece moves in front of it, that of the next to its end.
LEMMA ConcatShift ==
  ASSUME NEW S, NEW s \in Seq(S), NEW t \in Seq(S), s # <<>>
  PROVE  /\ <<Head(s)>> \o Tail(s) = s
         /\ t # <<>> =>
              <<Head(s)>> \o Append(Tail(s), Head(t)) \o Tail(t) = s \o t
<1> DEFINE h == Head(s)
           r == Tail(s)
<1>1. h \in S /\ r \in Seq(S) /\ <<h>> \in Seq(S)
  BY HeadTailProperties
<1>2. <<h>> \o r = s
  <2>1. /\ Len(<<h>> \o r) = Len(s) /\ <<h>> \o r \in Seq(S)
        /\ \A i \in 1 .. Len(s) : (<<h>> \o r)[i] = s[i]
    BY <1>1
  <2> QED
    BY <2>1, SeqEqual
<1>3. ASSUME t # <<>> PROVE <<h>> \o Append(r, Head(t)) \o Tail(t) = s \o t
  <2>1. Head(t) \in S /\ Tail(t) \in Seq(S) /\ <<Head(t)>> \in Seq(S)
    BY <1>3, HeadTailProperties
  <2>2. <<Head(t)>> \o Tail(t) = t
    <3>1. /\ Len(<<Head(t)>> \o Tail(t)) = Len(t)
          /\ <<Head(t)>> \o Tail(t) \in Seq(S)
          /\ \A i \in 1 .. Len(t) : (<<Head(t)>> \o Tail(t))[i] = t[i]
      BY <1>3, <2>1
    <3> QED
      BY <3>1, SeqEqual
  <2>3. Append(r, Head(t)) = r \o <<Head(t)>>
    BY <1>1, <2>1, AppendIsConcat
  <2> HIDE DEF h, r
  <2>4. <<h>> \o (r \o <<Head(t)>>) = s \o <<Head(t)>>
    BY <1>1, <1>2, <2>1, ConcatAssociative
  <2>5. s \o <<Head(t)>> \o Tail(t) = s \o t
    BY <2>1, <2>2, ConcatAssociative
  <2> QED
    BY <2>3, <2>4, <2>5
<1> QED
  BY <1>2, <1>3

\* Only the block policy waits at the send.
BlockSends == \A c \in Conn : pc[c] = "send" => policy = "block"

\* The worker's request, until it is counted.
AtWorker == IF working # None /\ ~counted THEN <<working>> ELSE <<>>

Limit == IF policy = "reject" THEN Capacity + 1 ELSE Cardinality(Conn)

\* The unfinished requests are those of handlers that own a job.
LEMMA BacklogFacts ==
  ASSUME IInv, InPlace
  PROVE  /\ AtWorker \in Seq(Conn)
         /\ Len(AtWorker) = 0 \/ (Len(AtWorker) = 1 /\ working # None)
         /\ Backlog = AtWorker \o jobs \o parked
         /\ Backlog \in Seq(Conn)
         /\ Len(Backlog) = Len(AtWorker) + Len(jobs) + Len(parked)
         /\ \A i \in 1 .. Len(Backlog) : pc[Backlog[i]] \in Owning
<1>1. /\ AtWorker \in Seq(Conn) /\ Len(AtWorker) \in Nat
      /\ Len(AtWorker) = 0 \/ (Len(AtWorker) = 1 /\ working # None)
  <2>1. CASE working # None /\ ~counted
    <3>1. working \in Conn
      BY <2>1, PlaceTypes
    <3>2. <<working>> \in Seq(Conn) /\ Len(<<working>>) = 1
      BY <3>1
    <3> QED
      BY <2>1, <3>2 DEF AtWorker
  <2>2. CASE ~(working # None /\ ~counted)
    BY <2>2, EmptySeq DEF AtWorker
  <2> QED
    BY <2>1, <2>2
<1>2. Backlog = AtWorker \o jobs \o parked
  BY DEF Backlog, AtWorker
<1>3. jobs \in Seq(Conn) /\ parked \in Seq(Conn) /\ Len(jobs) \in Nat
      /\ Len(parked) \in Nat
  BY PlaceTypes
<1> DEFINE front == AtWorker \o jobs
<1>4. /\ front \in Seq(Conn) /\ Len(front) = Len(AtWorker) + Len(jobs)
      /\ \A i \in 1 .. Len(front) : front[i] =
           IF i <= Len(AtWorker) THEN AtWorker[i] ELSE jobs[i - Len(AtWorker)]
  BY <1>1, <1>3, ConcatProperties
<1>5. Backlog = front \o parked
  BY <1>2
<1> HIDE DEF front
<1>6. /\ Backlog \in Seq(Conn) /\ Len(Backlog) = Len(front) + Len(parked)
      /\ \A i \in 1 .. Len(Backlog) : Backlog[i] =
           IF i <= Len(front) THEN front[i] ELSE parked[i - Len(front)]
  <2>1. front \in Seq(Conn) /\ parked \in Seq(Conn)
    BY <1>3, <1>4
  <2>2. /\ front \o parked \in Seq(Conn)
        /\ Len(front \o parked) = Len(front) + Len(parked)
        /\ \A i \in 1 .. Len(front) + Len(parked) : (front \o parked)[i] =
             IF i <= Len(front) THEN front[i] ELSE parked[i - Len(front)]
    BY <2>1, ConcatProperties
  <2> QED
    BY <1>5, <2>2
<1>7. ASSUME NEW i \in 1 .. Len(AtWorker) PROVE pc[AtWorker[i]] \in Owning
  <2>1. working # None /\ AtWorker = <<working>>
    BY <1>7 DEF AtWorker
  <2>2. i = 1
    BY <2>1
  <2> QED
    BY <2>1, <2>2 DEF InPlace, InFlight, Owning
<1>8. \A i \in 1 .. Len(jobs) : pc[jobs[i]] \in Owning
  BY DEF InPlace, InFlight, Owning
<1>9. \A i \in 1 .. Len(parked) : pc[parked[i]] \in Owning
  BY PlaceTypes DEF ParkedInOrder, Owning
<1>10. ASSUME NEW i \in 1 .. Len(front) PROVE pc[front[i]] \in Owning
  <2>1. CASE i <= Len(AtWorker)
    BY <1>1, <1>4, <1>7, <2>1
  <2>2. CASE ~(i <= Len(AtWorker))
    <3>1. i - Len(AtWorker) \in 1 .. Len(jobs)
      BY <1>1, <1>3, <1>4, <2>2
    <3> QED
      BY <1>4, <1>8, <2>2, <3>1
  <2> QED
    BY <2>1, <2>2
<1>11. ASSUME NEW i \in 1 .. Len(Backlog) PROVE pc[Backlog[i]] \in Owning
  <2>0. Len(front) \in Nat
    BY <1>1, <1>3, <1>4
  <2>1. CASE i <= Len(front)
    BY <1>6, <1>10, <2>0, <2>1
  <2>2. CASE ~(i <= Len(front))
    <3>1. i - Len(front) \in 1 .. Len(parked)
      BY <1>3, <1>6, <2>0, <2>2
    <3> QED
      BY <1>6, <1>9, <2>2, <3>1
  <2> QED
    BY <2>1, <2>2
<1> QED
  BY <1>1, <1>2, <1>4, <1>6, <1>11

\* A handler without a job finds the backlog below its limit: the others are
\* fewer than the connections, and the reject policy never parks.
LEMMA BacklogRoom ==
  ASSUME IInv, InPlace, AsMany, NEW c \in Conn, pc[c] \notin Owning,
         policy = "reject" => ~Full
  PROVE  Len(Backlog) < Limit
<1> DEFINE a == Len(AtWorker)
           j == Len(jobs)
           p == Len(parked)
           d == Cardinality(done)
           b == Len(Backlog)
           n == Count(Owning)
<1>1. b = a + j + p /\ (a = 0 \/ (a = 1 /\ working # None))
  BY BacklogFacts
<1>2. j \in Nat /\ p \in Nat /\ d \in Nat /\ n \in Nat
  BY PlaceTypes
<1>3. CASE policy = "reject"
  <2>1. j < Capacity /\ Capacity \in Nat
    BY <1>2, <1>3, WorkQueueAssumption DEF Full
  <2>2. p = 0
    BY <1>2, <2>1 DEF IInv, ChannelInv, ParkedOnlyWhenFull
  <2>3. Limit = Capacity + 1
    BY <1>3 DEF Limit
  <2> HIDE DEF a, j, p, b
  <2>4. b <= 1 + j
    BY <1>1, <1>2, <2>2
  <2> QED
    BY <1>1, <1>2, <2>1, <2>2, <2>3, <2>4 DEF b
<1>4. CASE policy # "reject"
  <2>1. IsFiniteSet(Conn) /\ Cardinality(Conn) \in Nat
    BY WorkQueueAssumption, FS_CardinalityType
  <2>2. /\ IsFiniteSet(Conn \ {c})
        /\ Cardinality(Conn \ {c}) = Cardinality(Conn) - 1
    BY <2>1, FS_RemoveElement
  <2>3. At(Owning) \subseteq Conn \ {c}
    BY DEF At
  <2>4. n <= Cardinality(Conn) - 1
    BY <2>2, <2>3, FS_Subset DEF Count
  <2>5. /\ working = None => j + p + d = n
        /\ working # None => j + p + d + 1 = n
    BY <1>2 DEF AsMany
  <2>6. Limit = Cardinality(Conn)
    BY <1>4 DEF Limit
  <2> HIDE DEF a, j, p, d, b, n
  <2>7. b <= n /\ b \in Nat
    BY <1>1, <1>2, <2>5
  <2> QED
    BY <1>2, <2>1, <2>4, <2>6, <2>7 DEF b
<1> QED
  BY <1>3, <1>4

\* No step changes the policy, and only the block policy leads to the send.
LEMMA PolicyStep ==
  ASSUME TypeOK, BlockSends, [Next]_vars
  PROVE  policy' = policy /\ BlockSends'
<1>1. policy' = policy
  BY DEF Next, Handler, Peer, Worker, vars
<1>2. pc \in [Conn -> Phase]
  BY Phases
<1>3. ASSUME NEW d \in Conn, NEW at, Goto(d, at),
             at = "send" => policy = "block"
      PROVE  BlockSends'
  BY <1>1, <1>2, <1>3 DEF Goto, BlockSends
<1>4. CASE UNCHANGED pc
  BY <1>1, <1>4 DEF BlockSends
<1>5. ASSUME NEW c \in Conn, Handler(c) PROVE BlockSends'
  <2>1. \E at \in Phase : Goto(c, at) /\ (at = "send" => policy = "block")
    BY <1>5
    DEF Handler, ReadWork, ReadOther, Offer, CountRejected, WriteBusy,
        StartWaiting, Send, StopWaiting, CountQueued, WriteDone, Reply, Phase
  <2> QED
    BY <1>3, <2>1
<1>6. ASSUME NEW c \in Conn, Connect(c) PROVE BlockSends'
  BY <1>3, <1>6 DEF Connect
<1>7. CASE Take
  <2>1. \/ UNCHANGED pc
        \/ parked # <<>> /\ Goto(Head(parked), "sent")
    BY <1>7 DEF Take, ReceiveJob
  <2>2. parked # <<>> => Head(parked) \in Conn
    BY DEF TypeOK
  <2>3. CASE parked # <<>> /\ Goto(Head(parked), "sent")
    <3>1. pc' = [pc EXCEPT ![Head(parked)] = "sent"]
      BY <2>3 DEF Goto
    <3> QED
      BY <1>1, <1>2, <2>2, <2>3, <3>1 DEF BlockSends
  <2> QED
    BY <1>4, <2>1, <2>3
<1> QED
  BY <1>1, <1>4, <1>5, <1>6, <1>7
  DEF Next, Peer, Worker, Ask, TakeReply, Leave, CountCompleted, CloseDone,
      vars, handlerVars

\* A handler that submits its job is admitted at the end of the backlog.
LEMMA SubmissionAdmits ==
  ASSUME IInv, InPlace, AsMany, BlockSends, policy' = policy,
         NEW c \in Conn, Offer(c) \/ Send(c)
  PROVE  Service!Admit \/ UNCHANGED <<Backlog, completed, Limit>>
<1>1. /\ UNCHANGED <<working, counted, completed>> /\ pc[c] \notin Owning
      /\ pc[c] = "send" => policy = "block"
  BY DEF Offer, Send, workerVars, counterVars, Owning, BlockSends
<1>2. UNCHANGED <<AtWorker, Limit>>
  BY <1>1 DEF AtWorker, Limit
<1>3. CASE UNCHANGED <<jobs, parked>>
  BY <1>1, <1>2, <1>3 DEF Backlog
<1>4. ASSUME \/ ~Full /\ jobs' = Append(jobs, c) /\ UNCHANGED parked
             \/ policy # "reject" /\ parked' = Append(parked, c) /\ UNCHANGED jobs
      PROVE  Service!Admit
  <2>1. Len(Backlog) < Limit
    BY <1>1, <1>4, BacklogRoom
  <2>2. \A i \in 1 .. Len(Backlog) : Backlog[i] # c
    BY <1>1, BacklogFacts
  <2>3. /\ AtWorker \in Seq(Conn) /\ jobs \in Seq(Conn) /\ parked \in Seq(Conn)
        /\ Backlog = AtWorker \o jobs \o parked
        /\ Backlog' = AtWorker \o jobs' \o parked'
    BY <1>1, BacklogFacts, PlaceTypes DEF Backlog, AtWorker
  <2>4. Backlog' = Append(Backlog, c)
    <3>1. CASE ~Full /\ jobs' = Append(jobs, c) /\ UNCHANGED parked
      <4>1. Len(jobs) < Capacity
        BY <3>1, PlaceTypes, WorkQueueAssumption DEF Full
      <4>2. parked = <<>>
        BY <4>1, PlaceTypes, WorkQueueAssumption
        DEF IInv, ChannelInv, ParkedOnlyWhenFull
      <4>3. AtWorker \o Append(jobs, c) \o parked
              = Append(AtWorker \o jobs \o parked, c)
        BY <2>3, <4>2, ConcatAppend
      <4> QED
        BY <2>3, <3>1, <4>3
    <3>2. CASE parked' = Append(parked, c) /\ UNCHANGED jobs
      <4>1. AtWorker \o jobs \o Append(parked, c)
              = Append(AtWorker \o jobs \o parked, c)
        BY <2>3, ConcatAppend
      <4> QED
        BY <2>3, <3>2, <4>1
    <3> QED
      BY <1>4, <3>1, <3>2
  <2> QED
    BY <1>1, <1>2, <2>1, <2>2, <2>4 DEF Service!Admit, Limit
<1> QED
  BY <1>1, <1>3, <1>4 DEF Offer, Send

\* The worker takes a job from the channel: the backlog stays as it is.
LEMMA TakeKeepsBacklog ==
  ASSUME IInv, InPlace, Take
  PROVE  UNCHANGED <<Backlog, completed>>
<1>1. /\ jobs # <<>> /\ working = None /\ working' = Head(jobs)
      /\ counted' = counted /\ completed' = completed
  BY DEF Take, ReceiveJob, counterVars
<1>2. jobs \in Seq(Conn) /\ parked \in Seq(Conn) /\ None \notin Conn
  BY PlaceTypes
<1>3. Head(jobs) # None /\ counted = FALSE
  <2>1. Head(jobs) \in Conn
    BY <1>1, <1>2, HeadTailProperties
  <2> QED
    BY <1>1, <1>2, <2>1 DEF IInv, TypeOK
<1>4. AtWorker = <<>> /\ AtWorker' = <<Head(jobs)>>
  BY <1>1, <1>3 DEF AtWorker
<1>5. Backlog = jobs \o parked
  <2>1. <<>> \o jobs = jobs
    BY <1>2, ConcatEmptySeq
  <2> QED
    BY <1>4, <2>1 DEF Backlog, AtWorker
<1>6. Backlog' = <<Head(jobs)>> \o jobs' \o parked'
  BY <1>4 DEF Backlog, AtWorker
<1>7. CASE jobs' = Tail(jobs) /\ UNCHANGED parked
  <2>1. <<Head(jobs)>> \o Tail(jobs) = jobs
    BY <1>1, <1>2, ConcatShift
  <2> QED
    BY <1>1, <1>5, <1>6, <1>7, <2>1
<1>8. CASE /\ parked # <<>> /\ jobs' = Append(Tail(jobs), Head(parked))
           /\ parked' = Tail(parked)
  <2>1. <<Head(jobs)>> \o Append(Tail(jobs), Head(parked)) \o Tail(parked)
          = jobs \o parked
    BY <1>1, <1>2, <1>8, ConcatShift
  <2> QED
    BY <1>1, <1>5, <1>6, <1>8, <2>1
<1> QED
  BY <1>7, <1>8 DEF Take, ReceiveJob

\* Counting the worker's job as completed takes it off the backlog's front.
LEMMA CountingFinishes ==
  ASSUME IInv, CountCompleted, policy' = policy
  PROVE  Service!Finish
<1>1. /\ working # None /\ ~counted /\ counted' /\ completed' = completed + 1
      /\ UNCHANGED <<working, jobs, parked>>
  BY DEF CountCompleted, channelVars
<1>2. working \in Conn /\ jobs \in Seq(Conn) /\ parked \in Seq(Conn)
  BY <1>1, PlaceTypes
<1>3. Backlog = <<working>> \o jobs \o parked
  BY <1>1 DEF Backlog
<1>4. Backlog' = <<>> \o jobs \o parked
  BY <1>1 DEF Backlog
<1>5. /\ <<working>> \o jobs \o parked # <<>>
      /\ Tail(<<working>> \o jobs \o parked) = <<>> \o jobs \o parked
  BY <1>2, ConcatFirst
<1> QED
  BY <1>1, <1>3, <1>4, <1>5 DEF Service!Finish

-----------------------------------------------------------------------------
(* The theorems.                                                           *)

\* The parts together are inductive.
LEMMA Inductive == Spec => []IInv
<1>1. Init => IInv
  <2> SUFFICES ASSUME Init PROVE IInv
    OBVIOUS
  <2> USE WorkQueueAssumption DEF Init
  <2>0. Len(jobs) = 0 /\ Len(parked) = 0
    OBVIOUS
  <2>1. TypeOK
    <3>1. jobs \in Seq(Conn) /\ parked \in Seq(Conn)
      OBVIOUS
    <3>2. pc \in [Conn -> Phase] /\ None \notin Conn
      BY DEF Phase
    <3> QED
      BY <3>1, <3>2 DEF TypeOK, Phase
  <2>2. ChannelInv
    <3>1. ParkedInOrder
      BY <2>0 DEF ParkedInOrder
    <3>2. 0 <= Capacity /\ parked = <<>>
      OBVIOUS
    <3>3. ParkedOnlyWhenFull
      <4> HIDE DEF Init
      <4> QED
        BY <2>0, <3>2 DEF ParkedOnlyWhenFull
    <3> QED
      BY <3>1, <3>3 DEF ChannelInv
  <2>3. At(Submitting) = {} /\ At(Unaccounted) = {} /\ At(Unqueued) = {}
    BY DEF At, Submitting, Unaccounted, Unqueued
  <2>4. Cardinality({}) = 0
    BY FS_EmptySet
  <2>5. Balances
    BY <2>0, <2>3, <2>4, BalancesAsCounts DEF Balances, Count
  <2> QED
    BY <2>1, <2>2, <2>5 DEF IInv
<1>2. IInv /\ [Next]_vars => IInv'
  BY TypeStep, ChannelStep, BalancesStep DEF IInv
<1> QED
  BY <1>1, <1>2, PTL DEF Spec

\* The variables keep their types; in particular no gauge goes negative.
THEOREM TypeCorrect == Spec => []TypeOK
<1>1. IInv => TypeOK
  BY DEF IInv
<1> QED
  BY <1>1, Inductive, PTL

\* accepted = queued + rejected + the handlers between the counters; the gauge
\* is exact up to the two steps around the send; completed + unfinished jobs =
\* queued + the submissions not yet counted.
THEOREM CountersAlwaysBalance == Spec => []CountersBalance
<1>1. IInv => CountersBalance
  BY DEF IInv, Balances, CountersBalance
<1> QED
  BY <1>1, Inductive, PTL

\* The buffer stays within Capacity and nobody is parked while it has room.
THEOREM ParkedOnlyWhenFullAlways == Spec => []ParkedOnlyWhenFull
<1>1. IInv => ParkedOnlyWhenFull
  BY DEF IInv, ChannelInv
<1> QED
  BY <1>1, Inductive, PTL

\* No job is lost or doubled: parked, buffered, with the worker or done, each is
\* in one place until its handler has seen it done.
THEOREM NoJobIsLost == Spec => []NoJobLost
<1>1. Init => InPlace /\ AsMany
  BY PlaceInit
<1>2. IInv /\ InPlace /\ AsMany => NoJobLost
  <2> SUFFICES ASSUME IInv, InPlace, AsMany PROVE NoJobLost
    OBVIOUS
  <2>1. Contents(jobs) \cup Contents(parked) \cup done \cup ({working} \ {None})
          = At(Owning)
    <3>1. ASSUME NEW c \in At(Owning)
          PROVE  c \in Contents(jobs) \cup Contents(parked) \cup done
                         \cup ({working} \ {None})
      <4>1. c \in Conn /\ c # None /\ (pc[c] \in InFlight \/ pc[c] = "parked")
        BY PlaceTypes DEF At, Owning, InFlight
      <4> QED
        BY <4>1 DEF InPlace, Contents
    <3>2. ASSUME NEW c \in Contents(jobs) \cup Contents(parked) \cup done
                             \cup ({working} \ {None})
          PROVE  c \in At(Owning)
      <4>1. c \in Conn /\ (pc[c] \in InFlight \/ pc[c] = "parked")
        BY PlaceTypes DEF InPlace, Contents, ParkedInOrder
      <4> QED
        BY <4>1 DEF At, Owning, InFlight
    <3> QED
      BY <3>1, <3>2
  <2> QED
    BY <2>1 DEF NoJobLost, AsMany, Count, Owning
<1> QED
  BY <1>1, <1>2, PlaceStep, Inductive, PTL DEF Spec

\* Every step of the handlers, the worker and the peers is a step of the bounded
\* first-come first-served service or leaves its state alone: jobs are finished
\* in the order in which they were submitted, whichever of them had to park.
THEOREM Refinement == Spec => ImplementsFifo
<1> DEFINE Inv == IInv /\ InPlace /\ AsMany /\ BlockSends
<1>1. Init => Service!AbsInit /\ BlockSends
  <2> SUFFICES ASSUME Init PROVE Service!AbsInit /\ BlockSends
    OBVIOUS
  <2>1. /\ jobs = <<>> /\ parked = <<>> /\ working = None /\ completed = 0
        /\ \A c \in Conn : pc[c] = "none"
    BY DEF Init
  <2>2. <<>> \o <<>> \o <<>> = <<>>
    BY EmptySeq, ConcatEmptySeq
  <2>3. Backlog = <<>>
    BY <2>1, <2>2 DEF Backlog
  <2>4. Capacity + 1 \in Nat /\ Cardinality(Conn) \in Nat
    BY WorkQueueAssumption, FS_CardinalityType
  <2> QED
    BY <2>1, <2>3, <2>4 DEF Service!AbsInit, BlockSends
<1>2. Inv /\ [Next]_vars =>
        [Service!Admit \/ Service!Finish]_<<Backlog, completed, Limit>>
  <2> SUFFICES ASSUME Inv, [Next]_vars
               PROVE  \/ Service!Admit \/ Service!Finish
                      \/ UNCHANGED <<Backlog, completed, Limit>>
    OBVIOUS
  <2>1. policy' = policy
    BY PolicyStep DEF IInv
  <2>2. ASSUME NEW c \in Conn, Offer(c) \/ Send(c)
        PROVE  Service!Admit \/ UNCHANGED <<Backlog, completed, Limit>>
    BY <2>1, <2>2, SubmissionAdmits
  <2>3. CASE Take
    BY <2>1, <2>3, TakeKeepsBacklog DEF Limit
  <2>4. CASE CountCompleted
    BY <2>1, <2>4, CountingFinishes
  <2>5. CASE CloseDone
    BY <2>1, <2>5
    DEF CloseDone, Backlog, Limit, channelVars, counterVars
  <2>6. CASE UNCHANGED <<channelVars, workerVars, completed>>
    BY <2>1, <2>6 DEF Backlog, Limit, channelVars, workerVars
  <2> QED
    BY <2>2, <2>3, <2>4, <2>5, <2>6
    DEF Next, Handler, Peer, Worker, ReadWork, ReadOther, CountRejected,
        StartWaiting, StopWaiting, CountQueued, WriteBusy, WriteDone, Connect,
        Ask, TakeReply, Leave, vars, counterVars
<1>3. Init => InPlace /\ AsMany
  BY PlaceInit
<1>4. Inv /\ [Next]_vars => BlockSends'
  BY PolicyStep DEF IInv
<1> QED
  BY <1>1, <1>2, <1>3, <1>4, PlaceStep, Inductive, PTL
  DEF Spec, ImplementsFifo, Service!Spec, Limit

-----------------------------------------------------------------------------
(* Sums over finite sets.  MapThenSumSet takes the elements of a set out    *)
(* one by one; what it returns does not depend on the order.               *)

SumOver(a, S) == MapThenSumSet(LAMBDA c : a[c], S)

\* The element that is taken out of s first, and what one step makes of s.
First(s) == CHOOSE x \in s : TRUE
Piece(a, h, s) == IF s = {} THEN 0 ELSE a[First(s)] + h[s \ {First(s)}]

\* h computes the sums of a over the subsets of S.
Steps(a, h, S) == h = [s \in SUBSET S |-> Piece(a, h, s)]

\* A set of naturals that is not empty has a least element.
LEMMA LeastNatural ==
  ASSUME NEW T \in SUBSET Nat, T # {}
  PROVE  \E n \in T : \A m \in T : n <= m
<1>1. PICK n \in T : \A m \in T : ~(<<m, n>> \in OpToRel(<, Nat))
  BY NatLessThanWellFounded, WFMin
<1>2. \A m \in T : ~(m < n)
  BY <1>1 DEF OpToRel
<1> QED
  BY <1>2

\* Of some subsets of a finite set, one contains no other.
LEMMA LeastSubset ==
  ASSUME NEW S, IsFiniteSet(S), NEW B \in SUBSET (SUBSET S), B # {}
  PROVE  \E s \in B : IsFiniteSet(s) /\ \A t \in SUBSET s : t \in B => t = s
<1> DEFINE Sizes == {Cardinality(s) : s \in B}
<1>1. \A s \in B : IsFiniteSet(s) /\ Cardinality(s) \in Nat
  BY FS_Subset, FS_CardinalityType
<1>2. Sizes \in SUBSET Nat /\ Sizes # {}
  BY <1>1
<1>3. PICK n \in Sizes : \A m \in Sizes : n <= m
  BY <1>2, LeastNatural
<1>4. PICK s \in B : n = Cardinality(s)
  BY <1>3
<1>5. ASSUME NEW t \in SUBSET s, t \in B PROVE t = s
  <2>1. Cardinality(s) <= Cardinality(t)
    BY <1>3, <1>4, <1>5
  <2>2. Cardinality(t) <= Cardinality(s) /\ (Cardinality(s) = Cardinality(t) => s = t)
    BY <1>1, <1>4, FS_Subset
  <2>3. Cardinality(s) \in Nat /\ Cardinality(t) \in Nat
    BY <1>1, <1>4, <1>5
  <2> QED
    BY <2>1, <2>2, <2>3
<1> QED
  BY <1>1, <1>4, <1>5

LEMMA FirstIn == \A s : s # {} => First(s) \in s
  BY DEF First

\* Two summands that agree have the same sums.
LEMMA StepsAgree ==
  ASSUME NEW a, NEW b, NEW S, NEW T, NEW U, IsFiniteSet(U),
         U \in SUBSET S, U \in SUBSET T,
         NEW h, NEW g, Steps(a, h, S), Steps(b, g, T), \A x \in U : a[x] = b[x]
  PROVE  \A s \in SUBSET U : h[s] = g[s]
<1> DEFINE Bad == {s \in SUBSET U : h[s] # g[s]}
<1>1. SUFFICES ASSUME Bad # {} PROVE FALSE
  OBVIOUS
<1>0. Bad \in SUBSET (SUBSET U)
  OBVIOUS
<1>2. PICK s \in Bad : IsFiniteSet(s) /\ \A t \in SUBSET s : t \in Bad => t = s
  <2> HIDE DEF Bad
  <2> QED
    BY <1>0, <1>1, LeastSubset
<1>3. h[s] = Piece(a, h, s) /\ g[s] = Piece(b, g, s)
  <2>1. s \in SUBSET S /\ s \in SUBSET T
    BY <1>2
  <2>2. h = [t \in SUBSET S |-> Piece(a, h, t)] /\ g = [t \in SUBSET T |-> Piece(b, g, t)]
    BY DEF Steps
  <2> QED
    BY <2>1, <2>2, Zenon
<1>4. CASE s = {}
  BY <1>2, <1>3, <1>4 DEF Piece
<1>5. CASE s # {}
  <2>1. First(s) \in s /\ s \ {First(s)} \in SUBSET U /\ s \ {First(s)} # s
    BY <1>2, <1>5, FirstIn
  <2>2. h[s \ {First(s)}] = g[s \ {First(s)}]
    BY <1>2, <2>1
  <2>3. a[First(s)] = b[First(s)]
    BY <1>2, <2>1
  <2> QED
    BY <1>2, <1>3, <1>5, <2>2, <2>3 DEF Piece
<1> QED
  BY <1>4, <1>5

\* The sums over the subsets of a finite set exist.
LEMMA StepsExist ==
  ASSUME NEW a, NEW S, IsFiniteSet(S)
  PROVE  \E h : Steps(a, h, S)
<1> DEFINE Bad == {s \in SUBSET S : ~ \E h : Steps(a, h, s)}
<1>1. SUFFICES ASSUME Bad # {} PROVE FALSE
  OBVIOUS
<1>0. Bad \in SUBSET (SUBSET S)
  OBVIOUS
<1>2. PICK u \in Bad : IsFiniteSet(u) /\ \A t \in SUBSET u : t \in Bad => t = u
  <2> HIDE DEF Bad
  <2> QED
    BY <1>0, <1>1, LeastSubset
<1> DEFINE G(t) == CHOOSE h : Steps(a, h, t)
           h == [s \in SUBSET u |-> IF s = u THEN Piece(a, G(s \ {First(s)}), s) ELSE G(s)[s]]
<1>3. ASSUME NEW t \in SUBSET u, t # u PROVE Steps(a, G(t), t)
  <2>1. \E f : Steps(a, f, t)
    BY <1>2, <1>3
  <2> QED
    BY <2>1, Zenon
<1>4. ASSUME NEW s \in SUBSET u PROVE h[s] = Piece(a, h, s)
  <2> DEFINE t == s \ {First(s)}
  <2>1. CASE s = {}
    <3>1. CASE s = u
      BY <2>1, <3>1 DEF Piece
    <3>2. CASE s # u
      <4>1. G(s) = [r \in SUBSET s |-> Piece(a, G(s), r)]
        BY <1>3, <3>2 DEF Steps
      <4> HIDE DEF G
      <4>2. G(s)[s] = Piece(a, G(s), s)
        BY <4>1, Zenon
      <4> QED
        BY <2>1, <3>2, <4>2 DEF Piece
    <3> QED
      BY <3>1, <3>2
  <2>2. CASE s # {}
    <3>1. First(s) \in s /\ t \in SUBSET u /\ t # u /\ t \in SUBSET s
      BY <2>2, FirstIn
    <3>2. h[t] = G(t)[t]
      BY <3>1
    <3>3. CASE s = u
      BY <2>2, <3>2, <3>3 DEF Piece
    <3>4. CASE s # u
      <4>1. Steps(a, G(s), s) /\ Steps(a, G(t), t)
        BY <1>3, <3>1, <3>4
      <4>2. IsFiniteSet(t)
        BY <1>2, <3>1, FS_Subset
      <4> HIDE DEF G
      <4>3. G(s) = [r \in SUBSET s |-> Piece(a, G(s), r)]
        BY <4>1 DEF Steps
      <4>4. G(s)[s] = Piece(a, G(s), s)
        BY <4>3, Zenon
      <4>5. G(s)[t] = G(t)[t]
        <5> DEFINE p == G(s)
                   q == G(t)
        <5>1. Steps(a, p, s) /\ Steps(a, q, t)
          BY <4>1
        <5> HIDE DEF p, q, t, h
        <5>2. \A r \in SUBSET t : p[r] = q[r]
          <6>1. t \in SUBSET s /\ t \in SUBSET t /\ \A x \in t : a[x] = a[x]
            BY <3>1
          <6> QED
            BY ONLY <4>2, <5>1, <6>1, StepsAgree
        <5> QED
          BY <5>2 DEF p, q
      <4> QED
        BY <2>2, <3>2, <3>4, <4>4, <4>5 DEF Piece
    <3> QED
      BY <3>3, <3>4
  <2> QED
    BY <2>1, <2>2
<1>5. h = [s \in SUBSET u |-> Piece(a, h, s)]
  <2> DEFINE k == [s \in SUBSET u |-> Piece(a, h, s)]
  <2>1. \A s \in SUBSET u : h[s] = k[s]
    BY <1>4
  <2>2. h = [s \in SUBSET u |-> h[s]] /\ k = [s \in SUBSET u |-> k[s]]
    OBVIOUS
  <2> HIDE DEF h, k
  <2>3. h = k
    BY <2>1, <2>2
  <2> QED
    BY <2>3 DEF k
<1>6. \E f : Steps(a, f, u)
  <2> HIDE DEF h
  <2> QED
    BY <1>5 DEF Steps
<1> QED
  BY <1>2, <1>6

\* What MapThenSumSet computes by its definition.
LEMMA SumUnfold ==
  ASSUME NEW a, NEW S, IsFiniteSet(S)
  PROVE  \E h : Steps(a, h, S) /\ SumOver(a, S) = h[S]
<1> DEFINE iter == CHOOSE h : h = [s \in SUBSET S |->
                     IF s = {} THEN 0
                     ELSE a[CHOOSE x \in s : TRUE] + h[s \ {CHOOSE x \in s : TRUE}]]
<1>1. SumOver(a, S) = iter[S]
  BY Zenon DEF SumOver, MapThenSumSet, MapThenFoldSet
<1>2. \E h : h = [s \in SUBSET S |->
        IF s = {} THEN 0 ELSE a[CHOOSE x \in s : TRUE] + h[s \ {CHOOSE x \in s : TRUE}]]
  <2>1. \E h : Steps(a, h, S)
    BY StepsExist
  <2> QED
    BY <2>1 DEF Steps, Piece, First
<1>3. iter = [s \in SUBSET S |->
        IF s = {} THEN 0 ELSE a[CHOOSE x \in s : TRUE] + iter[s \ {CHOOSE x \in s : TRUE}]]
  BY <1>2, Zenon
<1> HIDE DEF iter
<1>4. Steps(a, iter, S)
  BY <1>3 DEF Steps, Piece, First
<1> QED
  BY <1>1, <1>4

\* The sum over nothing is zero; any other one is the first element's and the
\* sum over the rest.
LEMMA SumStep ==
  ASSUME NEW a, NEW S, IsFiniteSet(S)
  PROVE  SumOver(a, S) = IF S = {} THEN 0 ELSE a[First(S)] + SumOver(a, S \ {First(S)})
<1>1. PICK h : Steps(a, h, S) /\ SumOver(a, S) = h[S]
  BY SumUnfold
<1>2. h = [s \in SUBSET S |-> Piece(a, h, s)]
  BY <1>1 DEF Steps
<1>3. h[S] = Piece(a, h, S)
  BY <1>2, Zenon
<1>4. CASE S = {}
  BY <1>1, <1>3, <1>4 DEF Piece
<1>5. CASE S # {}
  <2> DEFINE t == S \ {First(S)}
  <2>1. IsFiniteSet(t) /\ t \in SUBSET S /\ t \in SUBSET t /\ \A x \in t : a[x] = a[x]
    BY FS_RemoveElement
  <2> HIDE DEF t
  <2>2. PICK g : Steps(a, g, t) /\ SumOver(a, t) = g[t]
    BY <2>1, SumUnfold
  <2>3. Steps(a, h, S) /\ Steps(a, g, t)
    BY <1>1, <2>2
  <2>4. \A s \in SUBSET t : h[s] = g[s]
    BY ONLY <2>1, <2>3, StepsAgree
  <2>6. h[t] = SumOver(a, t)
    BY <2>1, <2>2, <2>4
  <2>5. h[S] = a[First(S)] + h[t]
    BY <1>3, <1>5 DEF Piece, t
  <2> QED
    BY <1>1, <1>5, <2>5, <2>6 DEF t
<1> QED
  BY <1>4, <1>5

LEMMA SumSame ==
  ASSUME NEW a, NEW b, NEW S, IsFiniteSet(S), \A x \in S : a[x] = b[x]
  PROVE  SumOver(a, S) = SumOver(b, S)
<1>1. PICK h : Steps(a, h, S) /\ SumOver(a, S) = h[S]
  BY SumUnfold
<1>2. PICK g : Steps(b, g, S) /\ SumOver(b, S) = g[S]
  BY SumUnfold
<1>3. S \in SUBSET S
  OBVIOUS
<1>4. \A s \in SUBSET S : h[s] = g[s]
  BY ONLY <1>1, <1>2, <1>3, IsFiniteSet(S), \A x \in S : a[x] = b[x], StepsAgree
<1> QED
  BY <1>1, <1>2, <1>3, <1>4

\* The sum of naturals is a natural.
LEMMA SumType ==
  ASSUME NEW a, NEW S, IsFiniteSet(S), \A x \in S : a[x] \in Nat
  PROVE  SumOver(a, S) \in Nat
<1> DEFINE Bad == {s \in SUBSET S : SumOver(a, s) \notin Nat}
<1>1. SUFFICES ASSUME Bad # {} PROVE FALSE
  OBVIOUS
<1>2. Bad \in SUBSET (SUBSET S)
  OBVIOUS
<1>3. PICK s \in Bad : IsFiniteSet(s) /\ \A t \in SUBSET s : t \in Bad => t = s
  <2> HIDE DEF Bad
  <2> QED
    BY <1>1, <1>2, LeastSubset
<1>4. SumOver(a, s) = IF s = {} THEN 0 ELSE a[First(s)] + SumOver(a, s \ {First(s)})
  BY <1>3, SumStep
<1>5. CASE s = {}
  BY <1>3, <1>4, <1>5
<1>6. CASE s # {}
  <2>1. First(s) \in s /\ s \ {First(s)} \in SUBSET S /\ s \ {First(s)} # s
    BY <1>3, <1>6, FirstIn
  <2>2. SumOver(a, s \ {First(s)}) \in Nat /\ a[First(s)] \in Nat
    BY <1>3, <2>1
  <2> QED
    BY <1>3, <1>4, <1>6, <2>2
<1> QED
  BY <1>5, <1>6

\* Whichever element is taken out.
LEMMA SumRemoveAny ==
  ASSUME NEW a, NEW S, IsFiniteSet(S), \A x \in S : a[x] \in Nat
  PROVE  \A c \in S : SumOver(a, S) = a[c] + SumOver(a, S \ {c})
<1> DEFINE Wrong(s) == \E c \in s : SumOver(a, s) # a[c] + SumOver(a, s \ {c})
           Bad == {s \in SUBSET S : Wrong(s)}
<1>1. SUFFICES ASSUME Bad # {} PROVE FALSE
  OBVIOUS
<1>2. Bad \in SUBSET (SUBSET S)
  OBVIOUS
<1>3. PICK s \in Bad : IsFiniteSet(s) /\ \A t \in SUBSET s : t \in Bad => t = s
  <2> HIDE DEF Bad
  <2> QED
    BY <1>1, <1>2, LeastSubset
<1>4. s \in SUBSET S /\ \A t \in SUBSET s : Wrong(t) => t = s
  BY <1>3
<1>5. PICK c \in s : SumOver(a, s) # a[c] + SumOver(a, s \ {c})
  BY <1>3
<1>6. \A t \in SUBSET s : t # s => \A x \in t : SumOver(a, t) = a[x] + SumOver(a, t \ {x})
  BY <1>4
<1> DEFINE f == First(s)
<1>7. f \in s
  BY <1>5, FirstIn
<1>8. SumOver(a, s) = a[f] + SumOver(a, s \ {f})
  BY <1>3, <1>5, SumStep
<1> HIDE DEF f, Bad, Wrong
<1>9. f # c
  BY <1>5, <1>8
<1> DEFINE t == s \ {c}
           u == s \ {f}
           r == s \ {c, f}
<1>10. /\ t \in SUBSET s /\ t # s /\ f \in t /\ t \ {f} = r
       /\ u \in SUBSET s /\ u # s /\ c \in u /\ u \ {c} = r /\ r \in SUBSET s
  BY <1>5, <1>7, <1>9
<1>11. IsFiniteSet(r) /\ a[f] \in Nat /\ a[c] \in Nat /\ \A x \in r : a[x] \in Nat
  BY <1>3, <1>4, <1>5, <1>7, <1>10, FS_Subset
<1>12. SumOver(a, s) = a[f] + SumOver(a, u) /\ SumOver(a, s) # a[c] + SumOver(a, t)
  BY <1>5, <1>8
<1> HIDE DEF t, u, r
<1>13. SumOver(a, r) \in Nat
  BY <1>11, SumType
<1>14. SumOver(a, t) = a[f] + SumOver(a, r) /\ SumOver(a, u) = a[c] + SumOver(a, r)
  BY <1>6, <1>10
<1> QED
  BY <1>11, <1>12, <1>13, <1>14

LEMMA SumAdd ==
  ASSUME NEW a, NEW S, NEW c, IsFiniteSet(S), c \notin S,
         \A x \in S : a[x] \in Nat, a[c] \in Nat
  PROVE  SumOver(a, S \cup {c}) = a[c] + SumOver(a, S)
<1> DEFINE t == S \cup {c}
<1>1. c \in t /\ t \ {c} = S /\ IsFiniteSet(t) /\ \A x \in t : a[x] \in Nat
  BY FS_AddElement
<1> HIDE DEF t
<1>2. SumOver(a, t) = a[c] + SumOver(a, t \ {c})
  BY <1>1, SumRemoveAny
<1> QED
  BY <1>1, <1>2 DEF t

-----------------------------------------------------------------------------
(* The load generators.                                                    *)

Arrived == {c \in Client : client[c] \in {"leave", "done"}}

\* The clients whose results main has received.
Gathered == Arrived \ results

\* The DONE replies sent to c in time that it has not counted.
Owed(c) == served[c] - result[c].completed

Faultless(c) == result[c].errors = 0 /\ result[c].unfinished = 0

\* Before a request is under way every reply is counted.
Asking(c) ==
  client[c] \in {"dial", "start", "loop", "pause", "write"} =>
    Owed(c) = 0 /\ Faultless(c) /\ wire[c] \in {"idle", "closed"}

\* While the client waits, one reply may be owed to it: the one on the wire.
Reading(c) ==
  client[c] = "read" =>
    /\ Faultless(c)
    /\ wire[c] = "DONE" => Owed(c) \in {0, 1} /\ (Owed(c) = 0 => now = "late")
    /\ wire[c] # "DONE" => Owed(c) = 0

\* A request that timed out may be answered later, but only after the deadline.
Judging(c) ==
  client[c] = "answered" =>
    /\ Faultless(c) /\ Owed(c) \in {0, 1} /\ response[c] # "none"
    /\ response[c] = "DONE" => Owed(c) = 1 \/ now = "late"
    /\ response[c] = "BUSY" => Owed(c) = 0
    /\ response[c] \in {"DONE", "BUSY", "other"} => wire[c] \in {"idle", "closed"}
    /\ response[c] = "timeout" => now = "late"
    /\ wire[c] = "WORK" => now = "late"

\* What was owed when the client stopped is its unfinished or failed request.
Over(c) ==
  client[c] \in {"report", "leave", "done"} =>
    /\ Owed(c) \in {0, 1} /\ Owed(c) <= result[c].unfinished + result[c].errors
    /\ wire[c] = "WORK" => now = "late"

\* Errors have a fault as their cause.
Spotless(c) ==
  ~faulty => /\ result[c].errors = 0 /\ wire[c] \notin {"other", "closed"}
             /\ response[c] \notin {"other", "error"}

Unconnected(c) == attempts[c] = 0 /\ result[c].errors = 1

\* Each request is under way or counted once, and a failed dial or SetDeadline too.
Accounted(c) ==
  /\ Attempted(result[c]) + (IF client[c] \in {"write", "read", "answered"} THEN 1 ELSE 0) =
       attempts[c] + (IF Unconnected(c) THEN 1 ELSE 0)
  /\ client[c] \in {"dial", "start"} => attempts[c] = 0

ClientInv(c) ==
  Asking(c) /\ Reading(c) /\ Judging(c) /\ Over(c) /\ Spotless(c) /\ Accounted(c)

\* Each WaitGroup holds the clients that have not left it.
GroupsInv ==
  /\ readyGroup = Cardinality({c \in Client : client[c] = "dial"})
  /\ doneGroup = Cardinality({c \in Client : client[c] # "done"})

\* main has added up the requests of the clients it has heard of.
TotalInv ==
  /\ results \subseteq Arrived
  /\ received = Cardinality(Gathered)
  /\ Attempted(total) =
       SumOver(attempts, Gathered) + Cardinality({c \in Gathered : Unconnected(c)})
  /\ main = "printed" => received = Cardinality(Client)

LoadInv ==
  LoadTypeOK /\ GroupsInv /\ TotalInv /\ \A c \in Client : ClientInv(c)

ClientFrame(c) ==
  /\ client'[c] = client[c] /\ result'[c] = result[c] /\ wire'[c] = wire[c]
  /\ response'[c] = response[c] /\ attempts'[c] = attempts[c] /\ served'[c] = served[c]

\* The steps of one client do not disturb another, nor does the clock.
LEMMA ClientUndisturbed ==
  ASSUME NEW c \in Client, ClientInv(c), ClientFrame(c),
         now' = now \/ now' = "late", faulty' = faulty \/ faulty' = TRUE
  PROVE  ClientInv(c)'
<1>1. Asking(c)'
  BY DEF ClientInv, ClientFrame, Asking, Owed, Faultless
<1>2. Reading(c)'
  BY DEF ClientInv, ClientFrame, Reading, Owed, Faultless
<1>3. Judging(c)'
  BY DEF ClientInv, ClientFrame, Judging, Owed, Faultless
<1>4. Over(c)'
  BY DEF ClientInv, ClientFrame, Over, Owed
<1>5. Spotless(c)'
  BY DEF ClientInv, ClientFrame, Spotless
<1>6. Accounted(c)'
  BY DEF ClientInv, ClientFrame, Accounted, Attempted, Unconnected
<1> QED
  BY <1>1, <1>2, <1>3, <1>4, <1>5, <1>6 DEF ClientInv

Fields == {"completed", "errors", "unfinished", "rejected"}

LEMMA FieldsFact == DOMAIN NoCounts = Fields /\ NoCounts \in Counts
BY DEF NoCounts, Fields, Counts

LEMMA CountsFact ==
  ASSUME NEW r \in Counts
  PROVE  /\ r.completed \in Nat /\ r.errors \in Nat /\ r.unfinished \in Nat
         /\ r.rejected \in Nat /\ Attempted(r) \in Nat
<1>1. r \in [Fields -> Nat]
  BY FieldsFact DEF Counts
<1>2. r.completed \in Nat /\ r.errors \in Nat /\ r.unfinished \in Nat /\ r.rejected \in Nat
  BY <1>1 DEF Fields
<1> QED
  BY <1>2 DEF Attempted

\* One count of one client goes up.
LEMMA TallyFacts ==
  ASSUME result \in [Client -> Counts], NEW c \in Client, NEW f \in Fields, Tally(c, f)
  PROVE  /\ result' \in [Client -> Counts]
         /\ \A d \in Client : d # c => result'[d] = result[d]
         /\ result'[c].completed = result[c].completed + IF f = "completed" THEN 1 ELSE 0
         /\ result'[c].errors = result[c].errors + IF f = "errors" THEN 1 ELSE 0
         /\ result'[c].unfinished = result[c].unfinished + IF f = "unfinished" THEN 1 ELSE 0
         /\ result'[c].rejected = result[c].rejected + IF f = "rejected" THEN 1 ELSE 0
         /\ Attempted(result'[c]) = Attempted(result[c]) + 1
<1>1. result \in [Client -> [Fields -> Nat]]
  BY FieldsFact DEF Counts
<1>2. result[c] \in [Fields -> Nat] /\ result[c] \in Counts
  BY <1>1
<1> DEFINE r == [result[c] EXCEPT ![f] = @ + 1]
<1>3. result' = [result EXCEPT ![c] = r]
  BY DEF Tally
<1>4. r \in [Fields -> Nat]
  BY <1>2
<1>5. /\ r.completed = result[c].completed + IF f = "completed" THEN 1 ELSE 0
      /\ r.errors = result[c].errors + IF f = "errors" THEN 1 ELSE 0
      /\ r.unfinished = result[c].unfinished + IF f = "unfinished" THEN 1 ELSE 0
      /\ r.rejected = result[c].rejected + IF f = "rejected" THEN 1 ELSE 0
  BY <1>2, CountsFact DEF Fields
<1>6. r \in Counts
  BY <1>4, FieldsFact DEF Counts
<1> HIDE DEF r
<1>7. /\ result' \in [Client -> Counts] /\ result'[c] = r
      /\ \A d \in Client : d # c => result'[d] = result[d]
  BY <1>3, <1>6
<1>8. Attempted(r) = Attempted(result[c]) + 1
  BY <1>2, <1>5, CountsFact DEF Attempted, Fields
<1> QED
  BY <1>5, <1>7, <1>8

Places == {"dial", "start", "loop", "write", "read", "answered", "pause", "report", "leave", "done"}

\* What a client moves to.
LEMMA MoveFacts ==
  ASSUME client \in [Client -> Places], NEW c \in Client, NEW at \in Places, Move(c, at)
  PROVE  /\ client' \in [Client -> Places] /\ client'[c] = at
         /\ \A d \in Client : d # c => client'[d] = client[d]
BY DEF Move

\* The clients at some places are a finite set.
LEMMA ClientSets ==
  ASSUME NEW S \in SUBSET Client
  PROVE  IsFiniteSet(S) /\ Cardinality(S) \in Nat
BY LoadAssumption, FS_Subset, FS_CardinalityType

LEMMA GroupsType ==
  ASSUME GroupsInv
  PROVE  /\ readyGroup \in Nat /\ doneGroup \in Nat
         /\ \A c \in Client : client[c] = "dial" => readyGroup >= 1
         /\ \A c \in Client : client[c] # "done" => doneGroup >= 1
<1> DEFINE R == {c \in Client : client[c] = "dial"}
           D == {c \in Client : client[c] # "done"}
<1>1. R \in SUBSET Client /\ D \in SUBSET Client
  OBVIOUS
<1>2. readyGroup = Cardinality(R) /\ doneGroup = Cardinality(D)
  BY DEF GroupsInv
<1>3. \A c \in Client : (client[c] = "dial" => R # {}) /\ (client[c] # "done" => D # {})
  OBVIOUS
<1> HIDE DEF R, D
<1>4. /\ IsFiniteSet(R) /\ Cardinality(R) \in Nat
      /\ IsFiniteSet(D) /\ Cardinality(D) \in Nat
  BY <1>1, ClientSets
<1>5. (R # {} => Cardinality(R) >= 1) /\ (D # {} => Cardinality(D) >= 1)
  BY <1>4, FS_EmptySet
<1> QED
  BY <1>2, <1>3, <1>4, <1>5

\* The types of what the clients' goroutines share and keep.
LEMMA ClientTyping ==
  ASSUME LoadTypeOK, GroupsInv, NEW c \in Client, ClientStep(c)
  PROVE  LoadTypeOK'
<1> USE DEF mainVars, sharedVars, run, histVars, Places, Fields
<1>1. client \in [Client -> Places] /\ result \in [Client -> Counts]
  BY DEF LoadTypeOK
<1>2. CASE Dial(c)
  <2>1. readyGroup' \in Nat
    BY <1>2, GroupsType DEF Dial
  <2>2. client' \in [Client -> Places]
    BY <1>1, <1>2, MoveFacts DEF Dial
  <2>3. result' \in [Client -> Counts] /\ faulty' \in BOOLEAN
    BY <1>1, <1>2, TallyFacts DEF Dial, LoadTypeOK
  <2> QED
    BY <1>2, <2>1, <2>2, <2>3 DEF Dial, LoadTypeOK
<1>3. CASE Begin(c)
  <2>1. client' \in [Client -> Places]
    BY <1>1, <1>3, MoveFacts DEF Begin
  <2>2. result' \in [Client -> Counts] /\ faulty' \in BOOLEAN
    BY <1>1, <1>3, TallyFacts DEF Begin, LoadTypeOK
  <2> QED
    BY <1>3, <2>1, <2>2 DEF Begin, LoadTypeOK
<1>4. CASE NextRequest(c)
  <2>1. client' \in [Client -> Places]
    BY <1>1, <1>4, MoveFacts DEF NextRequest
  <2>2. attempts' \in [Client -> Nat]
    BY <1>4 DEF NextRequest, LoadTypeOK
  <2> QED
    BY <1>4, <2>1, <2>2 DEF NextRequest, LoadTypeOK
<1>5. CASE Write(c)
  <2>1. client' \in [Client -> Places]
    BY <1>1, <1>5, MoveFacts DEF Write
  <2> QED
    BY <1>5, <2>1 DEF Write, LoadTypeOK
<1>6. CASE Read(c)
  <2>1. client' \in [Client -> Places]
    BY <1>1, <1>6, MoveFacts DEF Read
  <2> QED
    BY <1>6, <2>1 DEF Read, LoadTypeOK
<1>7. CASE IOFails(c)
  <2>1. client' \in [Client -> Places]
    BY <1>1, <1>7, MoveFacts DEF IOFails
  <2>2. response' \in [Client -> {"none", "DONE", "BUSY", "other", "timeout", "error"}]
    BY <1>7 DEF IOFails, LoadTypeOK
  <2> QED
    BY <1>7, <2>1, <2>2 DEF IOFails, LoadTypeOK
<1>8. CASE Judge(c)
  <2>1. client' \in [Client -> Places]
    BY <1>1, <1>8, MoveFacts DEF Judge
  <2>2. result' \in [Client -> Counts]
    BY <1>1, <1>8, TallyFacts DEF Judge
  <2>3. latencies' \in [Client -> [Latency -> Nat]]
    <3>1. latencies \in [Client -> [Latency -> Nat]]
      BY DEF LoadTypeOK
    <3>2. ASSUME NEW v \in Latency, latencies' = [latencies EXCEPT ![c][v] = @ + 1]
          PROVE  latencies' \in [Client -> [Latency -> Nat]]
      BY <3>1, <3>2
    <3>3. latencies' = latencies \/ MeasureLatency(c)
      BY <1>8 DEF Judge
    <3> QED
      BY <3>1, <3>2, <3>3 DEF MeasureLatency
  <2> QED
    BY <1>8, <2>1, <2>2, <2>3 DEF Judge, LoadTypeOK
<1>9. CASE Pause(c)
  <2>1. client' \in [Client -> Places]
    BY <1>1, <1>9, MoveFacts DEF Pause
  <2> QED
    BY <1>9, <2>1 DEF Pause, LoadTypeOK
<1>10. CASE Report(c)
  <2>1. client' \in [Client -> Places]
    BY <1>1, <1>10, MoveFacts DEF Report
  <2> QED
    BY <1>10, <2>1 DEF Report, LoadTypeOK
<1>11. CASE LeaveGroup(c)
  <2>1. client' \in [Client -> Places]
    BY <1>1, <1>11, MoveFacts DEF LeaveGroup
  <2>2. doneGroup' \in Nat
    BY <1>11, GroupsType DEF LeaveGroup
  <2> QED
    BY <1>11, <2>1, <2>2 DEF LeaveGroup, LoadTypeOK
<1> QED
  BY <1>2, <1>3, <1>4, <1>5, <1>6, <1>7, <1>8, <1>9, <1>10, <1>11 DEF ClientStep

\* The types of what main adds up, of the connections and of the clock.
LEMMA OtherTyping ==
  ASSUME LoadTypeOK, Main \/ Expire \/ (\E c \in Client : Serve(c) \/ Fault(c))
  PROVE  LoadTypeOK'
<1> USE DEF mainVars, sharedVars, run, histVars, clientVars
<1>1. CASE Publish
  BY <1>1 DEF Publish, LoadTypeOK
<1>2. CASE Start
  BY <1>2 DEF Start, LoadTypeOK
<1>3. CASE Wait
  BY <1>3 DEF Wait, LoadTypeOK
<1>4. CASE Gather
  <2>1. PICK c \in results : total' = Add(total, result[c]) /\ measured' = AddAll(measured, latencies[c])
    BY <1>4 DEF Gather
  <2>2. total \in Counts /\ result[c] \in Counts /\ latencies[c] \in [Latency -> Nat]
    BY <2>1 DEF LoadTypeOK
  <2>3. total' \in Counts
    BY <2>1, <2>2, FieldsFact DEF Add, Counts
  <2>4. measured' \in [Latency -> Nat]
    BY <2>1, <2>2 DEF AddAll, LoadTypeOK
  <2> QED
    BY <1>4, <2>3, <2>4 DEF Gather, LoadTypeOK
<1>5. CASE PrintTotals
  BY <1>5 DEF PrintTotals, LoadTypeOK
<1>6. CASE Expire
  BY <1>6 DEF Expire, LoadTypeOK
<1>7. ASSUME NEW c \in Client, Serve(c) PROVE LoadTypeOK'
  <2>1. served' \in [Client -> Nat] /\ wire' \in [Client -> {"idle", "WORK", "DONE", "BUSY", "other", "closed"}]
    BY <1>7 DEF Serve, LoadTypeOK
  <2> QED
    BY <1>7, <2>1 DEF Serve, LoadTypeOK
<1>8. ASSUME NEW c \in Client, Fault(c) PROVE LoadTypeOK'
  BY <1>8 DEF Fault, LoadTypeOK
<1> QED
  BY <1>1, <1>2, <1>3, <1>4, <1>5, <1>6, <1>7, <1>8 DEF Main

LEMMA LocalTypes ==
  ASSUME LoadTypeOK, NEW c \in Client
  PROVE  /\ client \in [Client -> Places] /\ result \in [Client -> Counts]
         /\ served[c] \in Nat /\ attempts[c] \in Nat /\ result[c] \in Counts
         /\ result[c].completed \in Nat /\ result[c].errors \in Nat
         /\ result[c].unfinished \in Nat /\ Attempted(result[c]) \in Nat
BY CountsFact DEF LoadTypeOK, Places

\* Moving without counting anything.
LEMMA SameCounts ==
  ASSUME NEW c \in Client, result' = result, served' = served
  PROVE  Owed(c)' = Owed(c) /\ Faultless(c)' = Faultless(c)
BY DEF Owed, Faultless

LEMMA DialInv ==
  ASSUME LoadTypeOK, NEW c \in Client, ClientInv(c), Dial(c)
  PROVE  ClientInv(c)'
<1> USE DEF mainVars, run, Places, Fields
<1>1. CASE Move(c, "start") /\ UNCHANGED <<result, faulty>>
  <2>1. client'[c] = "start"
    BY <1>1, LocalTypes, MoveFacts
  <2>2. UNCHANGED <<wire, response, attempts, served, now, result, faulty>>
    BY <1>1 DEF Dial
  <2> QED
    BY <2>1, <2>2 DEF Dial, ClientInv, Asking, Reading, Judging, Over, Spotless, Accounted,
       Owed, Faultless, Unconnected, Attempted
<1>2. CASE Move(c, "report") /\ Tally(c, "errors") /\ faulty' = TRUE
  <2>1. client'[c] = "report"
    BY <1>2, LocalTypes, MoveFacts
  <2>2. UNCHANGED <<wire, response, attempts, served, now>>
    BY DEF Dial
  <2>3. /\ result'[c].completed = result[c].completed /\ result'[c].errors = result[c].errors + 1
        /\ result'[c].unfinished = result[c].unfinished
        /\ Attempted(result'[c]) = Attempted(result[c]) + 1
    BY <1>2, LocalTypes, TallyFacts
  <2>4. Owed(c) = 0 /\ Faultless(c) /\ wire[c] # "WORK" /\ client[c] = "dial"
    BY DEF Dial, ClientInv, Asking
  <2>5. Attempted(result[c]) = 0 /\ attempts[c] = 0
    BY <2>4, LocalTypes DEF ClientInv, Accounted, Faultless, Unconnected
  <2>6. Over(c)'
    BY <2>2, <2>3, <2>4, LocalTypes DEF Over, Owed, Faultless
  <2>7. Accounted(c)'
    BY <2>1, <2>2, <2>3, <2>4, <2>5 DEF Accounted, Unconnected, Faultless
  <2> QED
    BY <1>2, <2>1, <2>2, <2>6, <2>7 DEF ClientInv, Asking, Reading, Judging, Spotless
<1> QED
  BY <1>1, <1>2 DEF Dial

LEMMA BeginInv ==
  ASSUME LoadTypeOK, NEW c \in Client, ClientInv(c), Begin(c)
  PROVE  ClientInv(c)'
<1> USE DEF mainVars, sharedVars, run, Places, Fields
<1>1. CASE Move(c, "loop") /\ UNCHANGED <<result, faulty>>
  <2>1. client'[c] = "loop"
    BY <1>1, LocalTypes, MoveFacts
  <2>2. UNCHANGED <<wire, response, attempts, served, now, result, faulty>>
    BY <1>1 DEF Begin
  <2> QED
    BY <2>1, <2>2 DEF Begin, ClientInv, Asking, Reading, Judging, Over, Spotless, Accounted,
       Owed, Faultless, Unconnected, Attempted
<1>2. CASE Move(c, "report") /\ Tally(c, "errors") /\ faulty' = TRUE
  <2>1. client'[c] = "report"
    BY <1>2, LocalTypes, MoveFacts
  <2>2. UNCHANGED <<wire, response, attempts, served, now>>
    BY DEF Begin
  <2>3. /\ result'[c].completed = result[c].completed /\ result'[c].errors = result[c].errors + 1
        /\ result'[c].unfinished = result[c].unfinished
        /\ Attempted(result'[c]) = Attempted(result[c]) + 1
    BY <1>2, LocalTypes, TallyFacts
  <2>4. Owed(c) = 0 /\ Faultless(c) /\ wire[c] # "WORK" /\ client[c] = "start"
    BY DEF Begin, ClientInv, Asking
  <2>5. Attempted(result[c]) = 0 /\ attempts[c] = 0
    BY <2>4, LocalTypes DEF ClientInv, Accounted, Faultless, Unconnected
  <2>6. Over(c)'
    BY <2>2, <2>3, <2>4, LocalTypes DEF Over, Owed, Faultless
  <2>7. Accounted(c)'
    BY <2>1, <2>2, <2>3, <2>4, <2>5 DEF Accounted, Unconnected, Faultless
  <2> QED
    BY <1>2, <2>1, <2>2, <2>6, <2>7 DEF ClientInv, Asking, Reading, Judging, Spotless
<1> QED
  BY <1>1, <1>2 DEF Begin

LEMMA NextRequestInv ==
  ASSUME LoadTypeOK, NEW c \in Client, ClientInv(c), NextRequest(c)
  PROVE  ClientInv(c)'
<1> USE DEF mainVars, run, histVars, Places
<1>1. UNCHANGED <<wire, response, served, now, result, faulty>>
  BY DEF NextRequest
<1>2. CASE attempts' = [attempts EXCEPT ![c] = @ + 1] /\ Move(c, "write")
  <2>1. client'[c] = "write" /\ attempts'[c] = attempts[c] + 1
    BY <1>2, LocalTypes, MoveFacts DEF LoadTypeOK
  <2>2. Attempted(result[c]) = attempts[c] /\ result[c].errors = 0
    BY LocalTypes DEF NextRequest, ClientInv, Asking, Accounted, Faultless, Unconnected
  <2>3. Accounted(c)'
    BY <1>1, <2>1, <2>2, LocalTypes DEF Accounted, Unconnected
  <2> QED
    BY <1>1, <2>1, <2>3 DEF NextRequest, ClientInv, Asking, Reading, Judging, Over, Spotless,
       Owed, Faultless
<1>3. CASE now = "late" /\ Move(c, "report") /\ UNCHANGED attempts
  <2>1. client'[c] = "report" /\ attempts' = attempts
    BY <1>3, LocalTypes, MoveFacts
  <2> QED
    BY <1>1, <2>1 DEF NextRequest, ClientInv, Asking, Reading, Judging, Over, Spotless,
       Accounted, Owed, Faultless, Unconnected, Attempted
<1> QED
  BY <1>2, <1>3 DEF NextRequest

LEMMA WriteInv ==
  ASSUME LoadTypeOK, NEW c \in Client, ClientInv(c), Write(c)
  PROVE  ClientInv(c)'
<1> USE DEF mainVars, run, histVars, Places
<1>1. client'[c] = "read" /\ wire'[c] = "WORK"
  BY LocalTypes, MoveFacts DEF Write, LoadTypeOK
<1>2. UNCHANGED <<response, attempts, served, now, result, faulty>>
  BY DEF Write
<1> QED
  BY <1>1, <1>2 DEF Write, ClientInv, Asking, Reading, Judging, Over, Spotless, Accounted,
     Owed, Faultless, Unconnected, Attempted

LEMMA ReadInv ==
  ASSUME LoadTypeOK, NEW c \in Client, ClientInv(c), Read(c)
  PROVE  ClientInv(c)'
<1> USE DEF mainVars, run, histVars, Places
<1>1. client'[c] = "answered" /\ wire'[c] = "idle" /\ response'[c] = wire[c]
  BY LocalTypes, MoveFacts DEF Read, LoadTypeOK
<1>2. UNCHANGED <<attempts, served, now, result, faulty>>
  BY DEF Read
<1> QED
  BY <1>1, <1>2 DEF Read, ClientInv, Asking, Reading, Judging, Over, Spotless, Accounted,
     Owed, Faultless, Unconnected, Attempted

LEMMA IOFailsInv ==
  ASSUME LoadTypeOK, NEW c \in Client, ClientInv(c), IOFails(c)
  PROVE  ClientInv(c)'
<1> USE DEF mainVars, run, histVars, Places
<1>1. PICK err \in {"timeout", "error"} :
        /\ client[c] \in {"write", "read"}
        /\ err = "timeout" => now = "late"
        /\ err = "error" => wire[c] = "closed"
        /\ response' = [response EXCEPT ![c] = err]
        /\ Move(c, "answered")
        /\ UNCHANGED <<mainVars, sharedVars, run, latencies, result, wire, histVars>>
  BY DEF IOFails
<1>2. client'[c] = "answered" /\ response'[c] = err
  BY <1>1, LocalTypes, MoveFacts DEF LoadTypeOK
<1>3. UNCHANGED <<wire, attempts, served, now, result, faulty>>
  BY <1>1
<1> QED
  BY <1>1, <1>2, <1>3 DEF ClientInv, Asking, Reading, Judging, Over, Spotless, Accounted,
     Owed, Faultless, Unconnected, Attempted

LEMMA PauseInv ==
  ASSUME LoadTypeOK, NEW c \in Client, ClientInv(c), Pause(c)
  PROVE  ClientInv(c)'
<1> USE DEF mainVars, run, histVars, Places
<1>1. client'[c] \in {"loop", "report"}
  BY LocalTypes, MoveFacts DEF Pause
<1>2. UNCHANGED <<wire, response, attempts, served, now, result, faulty>>
  BY DEF Pause
<1> QED
  BY <1>1, <1>2 DEF Pause, ClientInv, Asking, Reading, Judging, Over, Spotless, Accounted,
     Owed, Faultless, Unconnected, Attempted

LEMMA ReportInv ==
  ASSUME LoadTypeOK, NEW c \in Client, ClientInv(c), Report(c) \/ LeaveGroup(c)
  PROVE  ClientInv(c)'
<1> USE DEF mainVars, run, histVars, Places
<1>1. client[c] \in {"report", "leave"} /\ client'[c] \in {"leave", "done"}
  BY LocalTypes, MoveFacts DEF Report, LeaveGroup
<1>2. UNCHANGED <<wire, response, attempts, served, now, result, faulty>>
  BY DEF Report, LeaveGroup
<1> QED
  BY <1>1, <1>2 DEF ClientInv, Asking, Reading, Judging, Over, Spotless, Accounted,
     Owed, Faultless, Unconnected, Attempted

\* The outcome counts what is owed, unless the client stops.
LEMMA JudgeInv ==
  ASSUME LoadTypeOK, NEW c \in Client, ClientInv(c), Judge(c)
  PROVE  ClientInv(c)'
<1> USE DEF mainVars, run, histVars, Places, Fields
<1>1. UNCHANGED <<wire, response, attempts, served, now, faulty>>
  BY DEF Judge
<1>2. client[c] = "answered" /\ Judging(c) /\ Spotless(c)
  BY DEF Judge, ClientInv
<1>3. /\ result[c].errors = 0 /\ result[c].unfinished = 0
      /\ served[c] - result[c].completed \in {0, 1}
  BY <1>2 DEF Judging, Faultless, Owed
<1>4. Attempted(result[c]) + 1 = attempts[c]
  BY <1>2, <1>3, LocalTypes DEF ClientInv, Accounted, Unconnected
<1>5. attempts[c] \in Nat /\ attempts[c] # 0
  BY <1>4, LocalTypes
<1>6. ASSUME NEW f \in Fields, Tally(c, f), NEW at \in {"report", "loop", "pause"}, Move(c, at)
      PROVE  /\ client'[c] = at
             /\ result'[c].completed = result[c].completed + IF f = "completed" THEN 1 ELSE 0
             /\ result'[c].errors = IF f = "errors" THEN 1 ELSE 0
             /\ result'[c].unfinished = IF f = "unfinished" THEN 1 ELSE 0
             /\ Accounted(c)'
  <2>1. client'[c] = at
    BY <1>6, LocalTypes, MoveFacts
  <2>2. /\ result'[c].completed = result[c].completed + IF f = "completed" THEN 1 ELSE 0
        /\ result'[c].errors = result[c].errors + IF f = "errors" THEN 1 ELSE 0
        /\ result'[c].unfinished = result[c].unfinished + IF f = "unfinished" THEN 1 ELSE 0
        /\ Attempted(result'[c]) = Attempted(result[c]) + 1
    BY <1>6, LocalTypes, TallyFacts
  <2>3. Attempted(result'[c]) = attempts[c]
    BY <1>4, <2>2
  <2>4. Accounted(c)'
    BY <1>1, <1>5, <1>6, <2>1, <2>3 DEF Accounted, Unconnected
  <2> QED
    BY <1>3, <2>1, <2>2, <2>4
<1>7. CASE Failed(c) /\ Tally(c, "errors") /\ Move(c, "report")
  <2>1. /\ client'[c] = "report" /\ result'[c].completed = result[c].completed
        /\ result'[c].errors = 1 /\ result'[c].unfinished = 0 /\ Accounted(c)'
    BY <1>6, <1>7, LocalTypes
  <2>2. faulty
    BY <1>2, <1>7 DEF Failed, Late, Judging, Spotless
  <2> QED
    BY <1>1, <1>2, <1>3, <2>1, <2>2
       DEF ClientInv, Asking, Reading, Judging, Over, Spotless, Owed
<1>8. CASE ~Failed(c) /\ Late /\ Tally(c, "unfinished") /\ Move(c, "report")
  <2>1. /\ client'[c] = "report" /\ result'[c].completed = result[c].completed
        /\ result'[c].errors = 0 /\ result'[c].unfinished = 1 /\ Accounted(c)'
    BY <1>6, <1>8, LocalTypes
  <2> QED
    BY <1>1, <1>2, <1>3, <2>1 DEF ClientInv, Asking, Reading, Judging, Over, Spotless, Owed
<1>9. CASE ~Failed(c) /\ ~Late /\ response[c] = "DONE" /\ Tally(c, "completed") /\ Move(c, "loop")
  <2>1. /\ client'[c] = "loop" /\ result'[c].completed = result[c].completed + 1
        /\ result'[c].errors = 0 /\ result'[c].unfinished = 0 /\ Accounted(c)'
    BY <1>6, <1>9
  <2>2. served[c] - result[c].completed = 1 /\ wire[c] \in {"idle", "closed"}
    BY <1>2, <1>9 DEF Judging, Late, Owed
  <2>3. served[c] - (result[c].completed + 1) = 0
    BY <2>2, LocalTypes
  <2> QED
    BY <1>1, <1>2, <2>1, <2>2, <2>3
       DEF ClientInv, Asking, Reading, Judging, Over, Spotless, Owed, Faultless
<1>10. CASE /\ ~Failed(c) /\ ~Late /\ response[c] = "BUSY"
            /\ Tally(c, "rejected") /\ Move(c, IF retryDelay THEN "pause" ELSE "loop")
  <2>1. /\ client'[c] \in {"pause", "loop"} /\ result'[c].completed = result[c].completed
        /\ result'[c].errors = 0 /\ result'[c].unfinished = 0 /\ Accounted(c)'
    BY <1>6, <1>10, LocalTypes
  <2>2. served[c] - result[c].completed = 0 /\ wire[c] \in {"idle", "closed"}
    BY <1>2, <1>10 DEF Judging, Late, Owed
  <2> QED
    BY <1>1, <1>2, <2>1, <2>2
       DEF ClientInv, Asking, Reading, Judging, Over, Spotless, Owed, Faultless
<1> QED
  BY <1>7, <1>8, <1>9, <1>10 DEF Judge

LEMMA ServeInv ==
  ASSUME LoadTypeOK, NEW c \in Client, ClientInv(c), Serve(c)
  PROVE  ClientInv(c)'
<1> USE DEF mainVars, run
<1>1. PICK line \in {"DONE", "BUSY"} :
        /\ wire[c] = "WORK" /\ wire' = [wire EXCEPT ![c] = line]
        /\ served' = IF line = "DONE" /\ now = "early" THEN [served EXCEPT ![c] = @ + 1]
                     ELSE served
  BY DEF Serve
<1>2. wire'[c] = line /\ served'[c] = served[c] + IF line = "DONE" /\ now = "early" THEN 1 ELSE 0
  BY <1>1 DEF LoadTypeOK
<1>3. UNCHANGED <<client, response, attempts, now, result, faulty>>
  BY DEF Serve
<1>4. now \in {"early", "late"}
  BY DEF LoadTypeOK
<1>5. Reading(c)'
  BY <1>1, <1>2, <1>3, <1>4, LocalTypes DEF ClientInv, Reading, Owed, Faultless
<1>6. Asking(c)' /\ Judging(c)' /\ Over(c)' /\ Spotless(c)'
  BY <1>1, <1>2, <1>3, <1>4, LocalTypes
     DEF ClientInv, Asking, Judging, Over, Spotless, Owed, Faultless
<1>7. Accounted(c)'
  BY <1>3 DEF ClientInv, Accounted, Unconnected, Attempted
<1> QED
  BY <1>5, <1>6, <1>7 DEF ClientInv

LEMMA FaultInv ==
  ASSUME LoadTypeOK, NEW c \in Client, ClientInv(c), Fault(c)
  PROVE  ClientInv(c)'
<1> USE DEF mainVars, run
<1>1. PICK line \in {"other", "closed"} :
        /\ wire[c] = "WORK" \/ (line = "closed" /\ wire[c] = "idle" /\ client[c] # "dial")
        /\ wire' = [wire EXCEPT ![c] = line] /\ faulty' = TRUE
  BY DEF Fault
<1>2. wire'[c] = line
  BY <1>1 DEF LoadTypeOK
<1>3. UNCHANGED <<client, response, attempts, served, now, result>>
  BY DEF Fault
<1> QED
  BY <1>1, <1>2, <1>3 DEF ClientInv, Asking, Reading, Judging, Over, Spotless, Accounted,
     Owed, Faultless, Unconnected, Attempted

-----------------------------------------------------------------------------
(* What main adds up.                                                      *)

Lone == {c \in Gathered : Unconnected(c)}

\* The sum stays what it is while no more clients have been heard of.
LEMMA TotalKept ==
  ASSUME LoadTypeOK, TotalInv, UNCHANGED <<total, received, Gathered>>,
         results' \subseteq Arrived', main' = "printed" => main = "printed",
         \A c \in Gathered : attempts'[c] = attempts[c] /\ result'[c] = result[c]
  PROVE  TotalInv'
<1> DEFINE S == Gathered
           a == attempts
           b == attempts'
<1>1. IsFiniteSet(S) /\ \A c \in S : a[c] = b[c]
  BY ClientSets DEF Gathered, Arrived
<1>2. Lone' = Lone
  BY DEF Lone, Unconnected
<1>3. SumOver(a, S) = SumOver(b, S)
  <2> HIDE DEF S, a, b
  <2> QED
    BY <1>1, SumSame
<1>4. SumOver(attempts, Gathered)' = SumOver(attempts, Gathered)
  BY <1>3
<1>5. /\ received = Cardinality(Gathered)
      /\ Attempted(total) = SumOver(attempts, Gathered) + Cardinality(Lone)
      /\ main = "printed" => received = Cardinality(Client)
  BY DEF TotalInv, Lone
<1>6. /\ received' = Cardinality(Gathered)'
      /\ Attempted(total)' = SumOver(attempts, Gathered)' + Cardinality(Lone)'
      /\ main' = "printed" => received' = Cardinality(Client)
  BY <1>2, <1>4, <1>5
<1> QED
  BY <1>6 DEF TotalInv, Lone

\* A step of a client whose result main has not received.
LEMMA ClientTotal ==
  ASSUME LoadTypeOK, TotalInv, NEW c \in Client, ClientStep(c)
  PROVE  /\ TotalInv'
         /\ \A d \in Client : d # c => ClientFrame(d)
         /\ now' = now /\ (faulty' = faulty \/ faulty' = TRUE)
<1> USE DEF mainVars, sharedVars, run, histVars, Places, Fields
<1>1. client \in [Client -> Places] /\ result \in [Client -> Counts]
  BY LocalTypes
<1>2. ASSUME client[c] \notin {"leave", "done"}, client'[c] \notin {"leave", "done"},
             UNCHANGED <<mainVars, results>>, \A d \in Client : d # c => ClientFrame(d)
      PROVE  TotalInv'
  <2>1. Arrived' = Arrived /\ c \notin Gathered
    BY <1>2 DEF Arrived, ClientFrame, Gathered
  <2>2. Gathered' = Gathered /\ results' \subseteq Arrived'
    BY <1>2, <2>1 DEF Gathered, TotalInv
  <2>3. \A d \in Gathered : attempts'[d] = attempts[d] /\ result'[d] = result[d]
    BY <1>2, <2>1 DEF Gathered, Arrived, ClientFrame
  <2> QED
    BY <1>2, <2>2, <2>3, TotalKept
<1>3. CASE Dial(c)
  <2>1. client[c] = "dial" /\ client'[c] \in {"start", "report"}
    BY <1>1, <1>3, MoveFacts DEF Dial
  <2>2. \A d \in Client : d # c => client'[d] = client[d] /\ result'[d] = result[d]
    BY <1>1, <1>3, MoveFacts, TallyFacts DEF Dial
  <2>3. \A d \in Client : d # c => ClientFrame(d)
    BY <1>3, <2>2 DEF Dial, ClientFrame
  <2> QED
    BY <1>2, <1>3, <2>1, <2>3 DEF Dial
<1>4. CASE Begin(c)
  <2>1. client[c] = "start" /\ client'[c] \in {"loop", "report"}
    BY <1>1, <1>4, MoveFacts DEF Begin
  <2>2. \A d \in Client : d # c => client'[d] = client[d] /\ result'[d] = result[d]
    BY <1>1, <1>4, MoveFacts, TallyFacts DEF Begin
  <2>3. \A d \in Client : d # c => ClientFrame(d)
    BY <1>4, <2>2 DEF Begin, ClientFrame
  <2> QED
    BY <1>2, <1>4, <2>1, <2>3 DEF Begin
<1>5. CASE NextRequest(c)
  <2>1. client[c] = "loop" /\ client'[c] \in {"write", "report"}
    BY <1>1, <1>5, MoveFacts DEF NextRequest
  <2>2. \A d \in Client : d # c => client'[d] = client[d] /\ attempts'[d] = attempts[d]
    BY <1>1, <1>5, MoveFacts DEF NextRequest, LoadTypeOK
  <2>3. \A d \in Client : d # c => ClientFrame(d)
    BY <1>5, <2>2 DEF NextRequest, ClientFrame
  <2> QED
    BY <1>2, <1>5, <2>1, <2>3 DEF NextRequest
<1>6. CASE Write(c)
  <2>1. client[c] = "write" /\ client'[c] = "read"
    BY <1>1, <1>6, MoveFacts DEF Write
  <2>2. \A d \in Client : d # c => ClientFrame(d)
    BY <1>1, <1>6, MoveFacts DEF Write, ClientFrame, LoadTypeOK
  <2> QED
    BY <1>2, <1>6, <2>1, <2>2 DEF Write
<1>7. CASE Read(c)
  <2>1. client[c] = "read" /\ client'[c] = "answered"
    BY <1>1, <1>7, MoveFacts DEF Read
  <2>2. \A d \in Client : d # c => ClientFrame(d)
    BY <1>1, <1>7, MoveFacts DEF Read, ClientFrame, LoadTypeOK
  <2> QED
    BY <1>2, <1>7, <2>1, <2>2 DEF Read
<1>8. CASE IOFails(c)
  <2>1. client[c] \in {"write", "read"} /\ client'[c] = "answered"
    BY <1>1, <1>8, MoveFacts DEF IOFails
  <2>2. \A d \in Client : d # c => ClientFrame(d)
    BY <1>1, <1>8, MoveFacts DEF IOFails, ClientFrame, LoadTypeOK
  <2> QED
    BY <1>2, <1>8, <2>1, <2>2 DEF IOFails
<1>9. CASE Judge(c)
  <2>1. client[c] = "answered" /\ client'[c] \in {"report", "loop", "pause"}
    BY <1>1, <1>9, MoveFacts DEF Judge
  <2>2. \A d \in Client : d # c => client'[d] = client[d] /\ result'[d] = result[d]
    BY <1>1, <1>9, MoveFacts, TallyFacts DEF Judge
  <2>3. \A d \in Client : d # c => ClientFrame(d)
    BY <1>9, <2>2 DEF Judge, ClientFrame
  <2> QED
    BY <1>2, <1>9, <2>1, <2>3 DEF Judge
<1>10. CASE Pause(c)
  <2>1. client[c] = "pause" /\ client'[c] \in {"report", "loop"}
    BY <1>1, <1>10, MoveFacts DEF Pause
  <2>2. \A d \in Client : d # c => ClientFrame(d)
    BY <1>1, <1>10, MoveFacts DEF Pause, ClientFrame
  <2> QED
    BY <1>2, <1>10, <2>1, <2>2 DEF Pause
<1>11. CASE Report(c)
  <2>1. client[c] = "report" /\ client'[c] = "leave" /\ results' = results \cup {c}
    BY <1>1, <1>11, MoveFacts DEF Report
  <2>2. \A d \in Client : d # c => ClientFrame(d)
    BY <1>1, <1>11, MoveFacts DEF Report, ClientFrame
  <2>3. Arrived' = Arrived \cup {c} /\ c \notin Arrived
    BY <2>1, <2>2 DEF Arrived, ClientFrame
  <2>4. Gathered' = Gathered /\ results' \subseteq Arrived'
    BY <2>1, <2>3 DEF Gathered, TotalInv
  <2>5. UNCHANGED <<total, received, main, attempts, result, now, faulty>>
    BY <1>11 DEF Report
  <2> QED
    BY <2>2, <2>4, <2>5, TotalKept
<1>12. CASE LeaveGroup(c)
  <2>1. client[c] = "leave" /\ client'[c] = "done" /\ results' = results
    BY <1>1, <1>12, MoveFacts DEF LeaveGroup
  <2>2. \A d \in Client : d # c => ClientFrame(d)
    BY <1>1, <1>12, MoveFacts DEF LeaveGroup, ClientFrame
  <2>3. Arrived' = Arrived
    BY <2>1, <2>2 DEF Arrived, ClientFrame
  <2>4. Gathered' = Gathered /\ results' \subseteq Arrived'
    BY <2>1, <2>3 DEF Gathered, TotalInv
  <2>5. UNCHANGED <<total, received, main, attempts, result, now, faulty>>
    BY <1>12 DEF LeaveGroup
  <2> QED
    BY <2>2, <2>4, <2>5, TotalKept
<1> QED
  BY <1>3, <1>4, <1>5, <1>6, <1>7, <1>8, <1>9, <1>10, <1>11, <1>12 DEF ClientStep

\* main receives one result more.
LEMMA GatherTotal ==
  ASSUME LoadTypeOK, TotalInv, \A c \in Client : ClientInv(c), Gather
  PROVE  TotalInv'
<1> USE DEF sharedVars, run, histVars, clientVars
<1>1. PICK c \in results :
        /\ received' = received + 1
        /\ results' = results \ {c} /\ total' = Add(total, result[c])
        /\ UNCHANGED <<main, client, result, attempts>> /\ main = "gather"
  BY DEF Gather
<1>2. c \in Arrived /\ c \in Client /\ c \notin Gathered /\ Gathered \in SUBSET Client
  BY <1>1 DEF TotalInv, Gathered, Arrived
<1>3. Gathered' = Gathered \cup {c} /\ results' \subseteq Arrived'
  BY <1>1, <1>2 DEF Gathered, Arrived, TotalInv
<1>4. Lone' = IF Unconnected(c) THEN Lone \cup {c} ELSE Lone
  BY <1>1, <1>3 DEF Lone, Unconnected
<1>5. IsFiniteSet(Gathered) /\ IsFiniteSet(Lone) /\ c \notin Lone
  BY <1>2, ClientSets DEF Lone
<1>6. Cardinality(Lone)' = Cardinality(Lone) + (IF Unconnected(c) THEN 1 ELSE 0)
  <2>1. CASE Unconnected(c)
    <3>1. Lone' = Lone \cup {c}
      BY <1>4, <2>1
    <3>2. Cardinality(Lone \cup {c}) = Cardinality(Lone) + 1
      BY <1>5, FS_AddElement
    <3> QED
      BY <2>1, <3>1, <3>2
  <2>2. CASE ~Unconnected(c)
    <3>1. Cardinality(Lone) \in Nat
      BY <1>5, FS_CardinalityType
    <3> QED
      BY <1>4, <2>2, <3>1
  <2> QED
    BY <2>1, <2>2
<1>7. Cardinality(Gathered)' = Cardinality(Gathered) + 1
  BY <1>2, <1>3, <1>5, FS_AddElement
<1>8. SumOver(attempts, Gathered)' = attempts[c] + SumOver(attempts, Gathered)
  <2> DEFINE S == Gathered
             a == attempts
  <2>1. IsFiniteSet(S) /\ c \notin S /\ (\A x \in S : a[x] \in Nat) /\ a[c] \in Nat
    BY <1>2, <1>5 DEF LoadTypeOK
  <2>2. SumOver(a, S \cup {c}) = a[c] + SumOver(a, S)
    <3> HIDE DEF S, a
    <3> QED
      BY <2>1, SumAdd
  <2> QED
    BY <1>1, <1>3, <2>2
<1>9. Attempted(total') = Attempted(total) + Attempted(result[c])
  <2> DEFINE r == result[c]
             q == total
  <2>1. r \in Counts /\ q \in Counts
    BY <1>2 DEF LoadTypeOK
  <2>2. total' = Add(q, r)
    BY <1>1
  <2> HIDE DEF r, q
  <2>3. /\ Add(q, r).completed = q.completed + r.completed
        /\ Add(q, r).errors = q.errors + r.errors
        /\ Add(q, r).unfinished = q.unfinished + r.unfinished
        /\ Add(q, r).rejected = q.rejected + r.rejected
    BY FieldsFact DEF Add, Fields
  <2>4. Attempted(Add(q, r)) = Attempted(q) + Attempted(r)
    BY <2>1, <2>3, CountsFact DEF Attempted
  <2> QED
    BY <2>2, <2>4 DEF r, q
<1>10. Attempted(result[c]) = attempts[c] + (IF Unconnected(c) THEN 1 ELSE 0)
  <2>1. client[c] \in {"leave", "done"} /\ Accounted(c)
    BY <1>2 DEF Arrived, ClientInv
  <2> QED
    BY <1>2, <2>1, LocalTypes DEF Accounted
<1>11. /\ received = Cardinality(Gathered)
       /\ Attempted(total) = SumOver(attempts, Gathered) + Cardinality(Lone)
  BY DEF TotalInv, Lone
<1>12. /\ attempts[c] \in Nat /\ Cardinality(Gathered) \in Nat /\ Cardinality(Lone) \in Nat
       /\ SumOver(attempts, Gathered) \in Nat
  <2> DEFINE S == Gathered
             a == attempts
  <2>1. IsFiniteSet(S) /\ \A x \in S : a[x] \in Nat
    BY <1>2, <1>5 DEF LoadTypeOK
  <2>2. SumOver(a, S) \in Nat
    <3> HIDE DEF S, a
    <3> QED
      BY <2>1, SumType
  <2> QED
    BY <1>2, <1>5, <2>2, LocalTypes, FS_CardinalityType
<1>13. /\ received' = Cardinality(Gathered)'
       /\ Attempted(total)' = SumOver(attempts, Gathered)' + Cardinality(Lone)'
  BY <1>1, <1>6, <1>7, <1>8, <1>9, <1>10, <1>11, <1>12
<1> QED
  BY <1>1, <1>3, <1>13 DEF TotalInv, Lone

\* The steps of main, of the server and of the clock.
LEMMA OtherTotal ==
  ASSUME LoadTypeOK, TotalInv, \A c \in Client : ClientInv(c),
         Main \/ Expire \/ (\E c \in Client : Serve(c) \/ Fault(c))
  PROVE  TotalInv'
<1> USE DEF mainVars, sharedVars, run, histVars, clientVars
<1>1. CASE Gather
  BY <1>1, GatherTotal
<1>2. CASE PrintTotals
  <2>1. UNCHANGED <<client, results, received, total, attempts, result>> /\ received = Cardinality(Client)
    BY <1>2 DEF PrintTotals
  <2> QED
    BY <2>1 DEF TotalInv, Gathered, Arrived, Unconnected
<1>3. CASE \/ Publish \/ Start \/ Wait \/ Expire \/ \E c \in Client : Serve(c) \/ Fault(c)
  <2>1. UNCHANGED <<client, results, received, total, attempts, result>>
    BY <1>3 DEF Publish, Start, Wait, Expire, Serve, Fault
  <2>2. main' = "printed" => main = "printed"
    BY <1>3 DEF Publish, Start, Wait, Expire, Serve, Fault
  <2> QED
    BY <2>1, <2>2 DEF TotalInv, Gathered, Arrived, Unconnected
<1> QED
  BY <1>1, <1>2, <1>3 DEF Main

-----------------------------------------------------------------------------
(* The groups.                                                             *)

Dialling == {c \in Client : client[c] = "dial"}
Running == {c \in Client : client[c] # "done"}

LEMMA ClientGroups ==
  ASSUME LoadTypeOK, GroupsInv, NEW c \in Client, ClientStep(c)
  PROVE  GroupsInv'
<1> USE DEF mainVars, sharedVars, run, histVars, Places
<1>1. client \in [Client -> Places]
  BY LocalTypes
<1>2. readyGroup = Cardinality(Dialling) /\ doneGroup = Cardinality(Running)
  BY DEF GroupsInv, Dialling, Running
<1>3. IsFiniteSet(Dialling) /\ IsFiniteSet(Running)
  BY ClientSets DEF Dialling, Running
<1>4. CASE Dial(c)
  <2>1. /\ client[c] = "dial" /\ client'[c] \in {"start", "report"}
        /\ \A d \in Client : d # c => client'[d] = client[d]
    BY <1>1, <1>4, MoveFacts DEF Dial
  <2>2. Dialling' = Dialling \ {c} /\ c \in Dialling /\ Running' = Running
    BY <2>1 DEF Dialling, Running
  <2>3. readyGroup' = readyGroup - 1 /\ doneGroup' = doneGroup
    BY <1>4 DEF Dial
  <2>4. Cardinality(Dialling)' = Cardinality(Dialling) - 1
    BY <1>3, <2>2, FS_RemoveElement
  <2> QED
    BY <1>2, <2>2, <2>3, <2>4 DEF GroupsInv, Dialling, Running
<1>5. CASE LeaveGroup(c)
  <2>1. /\ client[c] = "leave" /\ client'[c] = "done"
        /\ \A d \in Client : d # c => client'[d] = client[d]
    BY <1>1, <1>5, MoveFacts DEF LeaveGroup
  <2>2. Running' = Running \ {c} /\ c \in Running /\ Dialling' = Dialling
    BY <2>1 DEF Dialling, Running
  <2>3. doneGroup' = doneGroup - 1 /\ readyGroup' = readyGroup
    BY <1>5 DEF LeaveGroup
  <2>4. Cardinality(Running)' = Cardinality(Running) - 1
    BY <1>3, <2>2, FS_RemoveElement
  <2> QED
    BY <1>2, <2>2, <2>3, <2>4 DEF GroupsInv, Dialling, Running
<1>6. CASE \/ Begin(c) \/ NextRequest(c) \/ Write(c) \/ Read(c) \/ IOFails(c) \/ Judge(c)
           \/ Pause(c) \/ Report(c)
  <2>1. \E at \in Places \ {"dial", "done"} : Move(c, at)
    BY <1>6 DEF Begin, NextRequest, Write, Read, IOFails, Judge, Pause, Report
  <2>2. client[c] \notin {"dial", "done"} /\ UNCHANGED <<readyGroup, doneGroup>>
    BY <1>6 DEF Begin, NextRequest, Write, Read, IOFails, Judge, Pause, Report
  <2>3. /\ client'[c] \notin {"dial", "done"}
        /\ \A d \in Client : d # c => client'[d] = client[d]
    BY <1>1, <2>1, MoveFacts
  <2>4. Running' = Running /\ Dialling' = Dialling
    BY <2>2, <2>3 DEF Dialling, Running
  <2> QED
    BY <1>2, <2>2, <2>4 DEF GroupsInv, Dialling, Running
<1> QED
  BY <1>4, <1>5, <1>6 DEF ClientStep

-----------------------------------------------------------------------------
(* The theorems.                                                           *)

LEMMA LoadInvInit == LoadInit => LoadInv
<1> SUFFICES ASSUME LoadInit PROVE LoadInv
  OBVIOUS
<1> USE DEF LoadInit
<1>1. Arrived = {} /\ Gathered = {} /\ Lone = {}
  BY DEF Arrived, Gathered, Lone
<1>2. /\ {c \in Client : client[c] = "dial"} = Client
      /\ {c \in Client : client[c] # "done"} = Client
  OBVIOUS
<1>3. GroupsInv
  BY <1>2 DEF GroupsInv
<1>4. LoadTypeOK
  <2>1. IsFiniteSet(Client) /\ Cardinality(Client) \in Nat
    BY ClientSets
  <2>2. Unmeasured \in [Latency -> Nat]
    BY DEF Unmeasured
  <2>3. /\ program \in {"queue", "concurrency"} /\ retryDelay \in BOOLEAN
        /\ results \subseteq Client /\ received \in Nat
    OBVIOUS
  <2>4. /\ total \in Counts /\ result \in [Client -> Counts]
        /\ measured \in [Latency -> Nat] /\ latencies \in [Client -> [Latency -> Nat]]
    BY <2>2, FieldsFact
  <2>5. /\ client \in [Client -> {"dial", "start", "loop", "write", "read", "answered", "pause",
                                  "report", "leave", "done"}]
        /\ response \in [Client -> {"none", "DONE", "BUSY", "other", "timeout", "error"}]
        /\ wire \in [Client -> {"idle", "WORK", "DONE", "BUSY", "other", "closed"}]
        /\ attempts \in [Client -> Nat] /\ served \in [Client -> Nat]
    OBVIOUS
  <2> QED
    BY <2>1, <2>3, <2>4, <2>5 DEF LoadTypeOK
<1>5. TotalInv
  <2>1. SumOver(attempts, Gathered) = 0
    <3> DEFINE a == attempts
    <3>1. SumOver(a, {}) = 0
      <4> HIDE DEF a
      <4> QED
        BY SumStep, FS_EmptySet
    <3> QED
      BY <1>1, <3>1
  <2>2. Attempted(total) = 0
    BY DEF Attempted, NoCounts
  <2> QED
    BY <1>1, <2>1, <2>2, FS_EmptySet DEF TotalInv, Lone
<1>6. ASSUME NEW c \in Client PROVE ClientInv(c)
  <2>1. /\ result[c].completed = 0 /\ result[c].errors = 0 /\ result[c].unfinished = 0
        /\ result[c].rejected = 0
    BY DEF NoCounts
  <2> QED
    BY <2>1 DEF ClientInv, Asking, Reading, Judging, Over, Spotless, Accounted, Owed,
       Faultless, Unconnected, Attempted
<1> QED
  BY <1>3, <1>4, <1>5, <1>6 DEF LoadInv

LEMMA LoadInvNext == LoadInv /\ [LoadNext]_loadVars => LoadInv'
<1> SUFFICES ASSUME LoadInv, [LoadNext]_loadVars PROVE LoadInv'
  OBVIOUS
<1> USE DEF mainVars, sharedVars, run, histVars, clientVars
<1>1. LoadTypeOK /\ GroupsInv /\ TotalInv /\ \A d \in Client : ClientInv(d)
  BY DEF LoadInv
<1>2. ASSUME NEW c \in Client, ClientStep(c) PROVE LoadInv'
  <2>1. LoadTypeOK' /\ GroupsInv'
    BY <1>1, <1>2, ClientTyping, ClientGroups
  <2>2. /\ TotalInv' /\ now' = now /\ (faulty' = faulty \/ faulty' = TRUE)
        /\ \A d \in Client : d # c => ClientFrame(d)
    BY <1>1, <1>2, ClientTotal
  <2>3. ClientInv(c)'
    BY <1>1, <1>2, DialInv, BeginInv, NextRequestInv, WriteInv, ReadInv, IOFailsInv, JudgeInv,
       PauseInv, ReportInv DEF ClientStep
  <2>4. \A d \in Client : d # c => ClientInv(d)'
    BY <1>1, <2>2, ClientUndisturbed
  <2> QED
    BY <2>1, <2>2, <2>3, <2>4 DEF LoadInv
<1>3. ASSUME NEW c \in Client, Serve(c) \/ Fault(c) PROVE LoadInv'
  <2>1. LoadTypeOK' /\ TotalInv'
    BY <1>1, <1>3, OtherTyping, OtherTotal
  <2>2. UNCHANGED <<client, readyGroup, doneGroup, result, response, attempts, now>>
    BY <1>3 DEF Serve, Fault
  <2>3. ClientInv(c)'
    BY <1>1, <1>3, ServeInv, FaultInv
  <2>4. \A d \in Client : d # c => ClientFrame(d)
    <3>1. \A d \in Client : d # c => wire'[d] = wire[d]
      BY <1>1, <1>3 DEF Serve, Fault, LoadTypeOK
    <3>2. \A d \in Client : d # c => served'[d] = served[d]
      BY <1>1, <1>3 DEF Serve, Fault, LoadTypeOK
    <3> QED
      BY <2>2, <3>1, <3>2 DEF ClientFrame
  <2>5. faulty' = faulty \/ faulty' = TRUE
    BY <1>3 DEF Serve, Fault
  <2>6. \A d \in Client : d # c => ClientInv(d)'
    BY <1>1, <2>2, <2>4, <2>5, ClientUndisturbed
  <2> QED
    BY <1>1, <2>1, <2>2, <2>3, <2>6 DEF LoadInv, GroupsInv
<1>4. CASE Main \/ Expire
  <2>1. LoadTypeOK' /\ TotalInv'
    BY <1>1, <1>4, OtherTyping, OtherTotal
  <2>2. /\ UNCHANGED <<client, readyGroup, doneGroup, result, response, wire, attempts, served, faulty>>
        /\ (now' = now \/ now' = "late")
    BY <1>4 DEF Main, Publish, Start, Wait, Gather, PrintTotals, Expire
  <2>3. \A d \in Client : ClientInv(d)'
    BY <1>1, <2>2, ClientUndisturbed DEF ClientFrame
  <2> QED
    BY <1>1, <2>1, <2>2, <2>3 DEF LoadInv, GroupsInv
<1>5. CASE UNCHANGED loadVars
  <2>1. UNCHANGED <<client, readyGroup, doneGroup, result, response, wire, attempts, served,
                    faulty, now, total, received, main, results>>
    BY <1>5 DEF loadVars
  <2>2. LoadTypeOK'
    BY <1>1, <1>5 DEF loadVars, LoadTypeOK
  <2>3. \A d \in Client : ClientInv(d)'
    BY <1>1, <2>1, ClientUndisturbed DEF ClientFrame
  <2>4. GroupsInv' /\ TotalInv'
    BY <1>1, <2>1 DEF GroupsInv, TotalInv, Gathered, Arrived, Unconnected
  <2> QED
    BY <2>2, <2>3, <2>4 DEF LoadInv
<1> QED
  BY <1>2, <1>3, <1>4, <1>5 DEF LoadNext

\* The invariant of the load generators.
THEOREM LoadInvariant == LoadSpec => []LoadInv
<1> QED
  BY LoadInvInit, LoadInvNext, PTL DEF LoadSpec

\* For any number of clients and requests: as long as dials succeed and the
\* server speaks the protocol, the deadline makes no client count an error,
\* wherever in an exchange it catches it (queue/client main.go:71-82,
\* concurrency/client main.go:57-76).
THEOREM CutoffSafe == LoadSpec => []CutoffIsNotFailure
<1>1. LoadInv => CutoffIsNotFailure
  BY DEF LoadInv, ClientInv, Spotless, CutoffIsNotFailure
<1> QED
  BY <1>1, LoadInvariant, PTL

\* For any number of clients and requests: the throughput is that of the run's
\* window, and what main prints accounts for every request and every failed
\* dial once (queue/client main.go:79-132).
THEOREM CountsExact == LoadSpec => []CountsAreExact
<1>1. LoadInv => CountsAreExact
  <2> SUFFICES ASSUME LoadInv PROVE CountsAreExact
    OBVIOUS
  <2>1. LoadTypeOK /\ TotalInv /\ \A c \in Client : ClientInv(c)
    BY DEF LoadInv
  <2>2. ThroughputIsExact
    <3> SUFFICES ASSUME NEW c \in Client
                 PROVE  /\ result[c].completed <= served[c]
                        /\ client[c] \in {"report", "leave", "done"} =>
                             served[c] - result[c].completed <= result[c].unfinished + result[c].errors
      BY DEF ThroughputIsExact
    <3>1. Owed(c) \in {0, 1}
      <4>1. client[c] \in Places
        BY <2>1, LocalTypes
      <4> QED
        BY <2>1, <4>1 DEF ClientInv, Asking, Reading, Judging, Over, Places
    <3> QED
      BY <2>1, <3>1, LocalTypes DEF ClientInv, Over, Owed
  <2>3. TotalsAreExact
    <3> SUFFICES ASSUME main = "printed"
                 PROVE  Attempted(total) = MapThenSumSet(LAMBDA c : attempts[c], Client)
                          + Cardinality({c \in Client : attempts[c] = 0 /\ result[c].errors = 1})
      BY DEF TotalsAreExact
    <3>1. Gathered \in SUBSET Client /\ Cardinality(Gathered) = Cardinality(Client)
      BY <2>1 DEF TotalInv, Gathered, Arrived
    <3>2. Gathered = Client
      BY <3>1, LoadAssumption, FS_Subset
    <3>3. Attempted(total) = SumOver(attempts, Client) + Cardinality({c \in Client : Unconnected(c)})
      BY <2>1, <3>2 DEF TotalInv
    <3>4. SumOver(attempts, Client) = MapThenSumSet(LAMBDA c : attempts[c], Client)
      BY Zenon DEF SumOver
    <3> QED
      BY <3>3, <3>4 DEF Unconnected
  <2> QED
    BY <2>1, <2>2, <2>3 DEF CountsAreExact
<1> QED
  BY <1>1, LoadInvariant, PTL

=============================================================================
