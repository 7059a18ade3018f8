---------------------- MODULE ConnectionLimit_proofs ----------------------
(***************************************************************************)
(* Theorems about ConnectionLimit for every finite set of connections and  *)
(* every positive max: slots and active count balance with the handlers,   *)
(* and the budget is never exceeded.                                       *)
(***************************************************************************)
EXTENDS ConnectionLimit, Integers, FiniteSetTheorems, TLAPS

-----------------------------------------------------------------------------
(* Counting handlers.                                                      *)

Phase == {"none", "greet", "read", "close", "deactivate", "release", "done"}

\* The phases of a handler that owns a slot, and of one counted as active.
Owning   == {"greet", "read", "close", "deactivate", "release"}
Counted  == {"greet", "read", "close", "deactivate"}

Count(P) == Cardinality(At(P))

\* One if p is a phase in P.
One(p, P) == IF p \in P THEN 1 ELSE 0

\* The number of handlers at some phases is a number, not zero at their own.
LEMMA CountType ==
  ASSUME NEW P
  PROVE  /\ IsFiniteSet(At(P)) /\ Count(P) \in Nat
         /\ \A c \in Conn : handler[c] \in P => Count(P) >= 1
<1>1. IsFiniteSet(At(P))
  BY ConnectionLimitAssumption, FS_Subset DEF At
<1>2. Cardinality(At(P)) \in Nat
  BY <1>1, FS_CardinalityType
<1>3. ASSUME NEW c \in Conn, handler[c] \in P PROVE Cardinality(At(P)) >= 1
  <2>1. At(P) # {}
    BY <1>3 DEF At
  <2>2. Cardinality(At(P)) # 0
    BY <1>1, <2>1, FS_EmptySet
  <2> QED
    BY <1>2, <2>2
<1> QED
  BY <1>1, <1>2, <1>3 DEF Count

\* One handler's move changes a count by what it leaves and what it enters.
LEMMA CountMove ==
  ASSUME NEW P, NEW c \in Conn, NEW at, handler \in [Conn -> Phase], HandlerAt(c, at)
  PROVE  Count(P)' = Count(P) - One(handler[c], P) + One(at, P)
<1>1. handler'[c] = at /\ \A d \in Conn \ {c} : handler'[d] = handler[d]
  BY DEF HandlerAt
<1>2. IsFiniteSet(At(P)) /\ Count(P) \in Nat
  BY CountType
<1>3. CASE handler[c] \in P <=> at \in P
  <2>1. At(P)' = At(P)
    BY <1>1, <1>3 DEF At
  <2>2. Count(P)' = Count(P)
    BY <2>1 DEF Count
  <2>3. One(handler[c], P) = One(at, P) /\ One(at, P) \in Nat
    BY <1>3 DEF One
  <2> QED
    BY <1>2, <2>2, <2>3
<1>4. CASE handler[c] \in P /\ at \notin P
  <2>1. At(P)' = At(P) \ {c} /\ c \in At(P)
    BY <1>1, <1>4 DEF At
  <2>2. Count(P)' = Count(P) - 1
    BY <1>2, <2>1, FS_RemoveElement DEF Count
  <2> QED
    BY <1>2, <1>4, <2>2 DEF One
<1>5. CASE handler[c] \notin P /\ at \in P
  <2>1. At(P)' = At(P) \cup {c} /\ c \notin At(P)
    BY <1>1, <1>5 DEF At
  <2>2. Count(P)' = Count(P) + 1
    BY <1>2, <2>1, FS_AddElement DEF Count
  <2> QED
    BY <1>2, <1>5, <2>2 DEF One
<1> QED
  BY <1>3, <1>4, <1>5

-----------------------------------------------------------------------------
(* The inductive invariant.                                                *)

\* Both balances together say that a count is taken up after the slot and down
\* before it; the budget is what Reserve compares.
Budget == SlotBalance /\ ActiveBalance /\ slots <= max

\* The connection being decided on has no handler yet, nor has one that is
\* still to be accepted, and no connection waits twice.
Undecided ==
  /\ current # None => handler[current] = "none"
  /\ \A i \in 1 .. Len(pending) :
       /\ handler[pending[i]] = "none" /\ pending[i] # current
       /\ client[pending[i]] # "new"
       /\ \A j \in 1 .. Len(pending) : i # j => pending[i] # pending[j]
  /\ \A c \in Conn : client[c] = "new" => handler[c] = "none" /\ current # c

IInv == TypeOK /\ Undecided /\ Budget /\ DecisionBalance

-----------------------------------------------------------------------------
(* Types.                                                                  *)

\* The limit is a flag, read once.
LEMMA MaxStep == [Next]_vars => max' = max
  BY DEF Next, AcceptLoop, Handler, Peer, vars

\* No step leaves the types; in particular neither count goes below zero.
LEMMA TypeStep == IInv /\ [Next]_vars => TypeOK'
<1> SUFFICES ASSUME IInv, [Next]_vars PROVE TypeOK'
  OBVIOUS
<1>0. max' = max
  BY MaxStep
<1> USE <1>0, ConnectionLimitAssumption DEF IInv
<1>1. CASE Accept
  <2>1. pending \in Seq(Conn) /\ pending # <<>>
    BY <1>1 DEF Accept, TypeOK
  <2>2. Head(pending) \in Conn /\ Tail(pending) \in Seq(Conn)
    BY <2>1
  <2> QED
    BY <1>1, <2>2 DEF Accept, TypeOK, countVars, wireVars
<1>2. CASE Reserve \/ Activate \/ Refuse
  BY <1>2 DEF Reserve, Activate, Refuse, TypeOK, wireVars
<1>3. CASE Admit
  BY <1>3 DEF Admit, TypeOK, wireVars
<1>4. CASE WriteBusy
  BY <1>4 DEF WriteBusy, TypeOK, countVars
<1>5. ASSUME NEW c \in Conn, WriteOK(c) \/ ReadByte(c) \/ ReadError(c)
      PROVE  TypeOK'
  BY <1>5 DEF WriteOK, ReadByte, ReadError, HandlerAt, TypeOK, loopVars,
              countVars, wireVars
<1>6. ASSUME NEW c \in Conn, CloseConn(c) PROVE TypeOK'
  BY <1>6 DEF CloseConn, HandlerAt, TypeOK, loopVars, countVars
<1>7. ASSUME NEW c \in Conn, Deactivate(c) PROVE TypeOK'
  <2>1. active >= 1
    <3>1. /\ active = Count(Counted) + AcceptorAt({"admit"})
          /\ Count(Counted) >= 1 /\ Count(Counted) \in Nat
      BY <1>7, CountType DEF Deactivate, Budget, ActiveBalance, Count, Counted
    <3> QED
      BY <3>1 DEF AcceptorAt
  <2> QED
    BY <1>7, <2>1 DEF Deactivate, HandlerAt, TypeOK, loopVars, wireVars
<1>8. ASSUME NEW c \in Conn, Release(c) PROVE TypeOK'
  <2>1. slots >= 1
    <3>1. /\ slots = Count(Owning) + AcceptorAt({"activate", "admit"})
          /\ Count(Owning) >= 1 /\ Count(Owning) \in Nat
      BY <1>8, CountType DEF Release, Budget, SlotBalance, Count, Owning
    <3> QED
      BY <3>1 DEF AcceptorAt
  <2> QED
    BY <1>8, <2>1 DEF Release, HandlerAt, TypeOK, loopVars, wireVars
<1>9. ASSUME NEW c \in Conn, Dial(c) PROVE TypeOK'
  <2>1. Append(pending, c) \in Seq(Conn)
    BY DEF TypeOK
  <2> QED
    BY <1>9, <2>1 DEF Dial, TypeOK, countVars, wireVars
<1>10. ASSUME NEW c \in Conn, ReadLine(c) PROVE TypeOK'
  BY <1>10 DEF ReadLine, TypeOK, loopVars, countVars, wireVars
<1>11. ASSUME NEW c \in Conn, SendByte(c) \/ CloseClient(c) PROVE TypeOK'
  BY <1>11 DEF SendByte, CloseClient, TypeOK, loopVars, countVars, wireVars
<1>12. CASE UNCHANGED vars
  BY <1>12 DEF TypeOK, vars, loopVars, countVars, wireVars
<1> QED
  BY <1>1, <1>2, <1>3, <1>4, <1>5, <1>6, <1>7, <1>8, <1>9, <1>10, <1>11, <1>12
  DEF Next, AcceptLoop, Handler, Peer

-----------------------------------------------------------------------------
(* The connection being decided on.                                        *)

\* A connection enters the line once, when it is dialled, and has no handler
\* before it leaves the accept loop.
LEMMA UndecidedStep == IInv /\ [Next]_vars => Undecided'
<1> SUFFICES ASSUME IInv, [Next]_vars PROVE Undecided'
  OBVIOUS
<1>0. /\ TypeOK /\ Undecided /\ pending \in Seq(Conn) /\ None \notin Conn
      /\ \A i \in 1 .. Len(pending) : pending[i] \in Conn
  BY ConnectionLimitAssumption DEF IInv, TypeOK
<1>1. CASE Accept
  <2>1. /\ current' = Head(pending) /\ pending' = Tail(pending)
        /\ pending # <<>> /\ UNCHANGED <<handler, client>>
    BY <1>1 DEF Accept
  <2>2. /\ 1 \in 1 .. Len(pending) /\ current' = pending[1]
        /\ Len(pending') = Len(pending) - 1
        /\ \A i \in 1 .. Len(pending') :
             i + 1 \in 1 .. Len(pending) /\ pending'[i] = pending[i + 1]
    BY <1>0, <2>1
  <2>3. handler'[current'] = "none" /\ client'[current'] # "new"
    BY <1>0, <2>1, <2>2 DEF Undecided
  <2>4. ASSUME NEW i \in 1 .. Len(pending')
        PROVE  /\ handler'[pending'[i]] = "none" /\ pending'[i] # current'
               /\ client'[pending'[i]] # "new"
               /\ \A j \in 1 .. Len(pending') : i # j => pending'[i] # pending'[j]
    <3>1. i + 1 \in 1 .. Len(pending) /\ i + 1 # 1
      BY <1>0, <2>2
    <3>2. \A j \in 1 .. Len(pending') : i # j => i + 1 # j + 1
      BY <1>0, <2>2
    <3> QED
      BY <1>0, <2>1, <2>2, <3>1, <3>2 DEF Undecided
  <2> QED
    BY <1>0, <2>1, <2>3, <2>4 DEF Undecided
<1>2. CASE Reserve \/ Activate \/ Refuse
  BY <1>0, <1>2 DEF Reserve, Activate, Refuse, Undecided
<1>3. CASE Admit
  <2>1. /\ current \in Conn /\ current' = None
        /\ handler' = [handler EXCEPT ![current] = "greet"]
        /\ UNCHANGED <<pending, client>>
    BY <1>0, <1>3 DEF Admit, TypeOK
  <2>2. \A c \in Conn : c # current => handler'[c] = handler[c]
    BY <1>0, <2>1 DEF TypeOK
  <2> QED
    BY <1>0, <2>1, <2>2 DEF Undecided
<1>4. CASE WriteBusy
  BY <1>0, <1>4 DEF WriteBusy, Undecided
<1>5. ASSUME NEW c \in Conn, Handler(c) PROVE Undecided'
  <2>1. /\ handler[c] # "none" /\ UNCHANGED <<pending, current, client>>
        /\ \A d \in Conn : d # c => handler'[d] = handler[d]
    BY <1>0, <1>5
    DEF Handler, WriteOK, ReadByte, ReadError, CloseConn, Deactivate, Release,
        HandlerAt, loopVars, TypeOK
  <2>2. \A d \in Conn : handler[d] = "none" => handler'[d] = "none"
    BY <2>1
  <2>3. current # None => current \in Conn
    BY <1>0 DEF TypeOK
  <2> QED
    BY <1>0, <2>1, <2>2, <2>3 DEF Undecided
<1>6. ASSUME NEW c \in Conn, Dial(c) PROVE Undecided'
  <2>1. /\ client[c] = "new" /\ client' = [client EXCEPT ![c] = "waiting"]
        /\ pending' = Append(pending, c) /\ UNCHANGED <<handler, current>>
    BY <1>6 DEF Dial
  <2>2. handler[c] = "none" /\ current # c
    BY <1>0, <2>1 DEF Undecided
  <2>3. \A i \in 1 .. Len(pending) : pending[i] # c
    BY <1>0, <2>1 DEF Undecided
  <2>4. /\ Len(pending') = Len(pending) + 1 /\ pending'[Len(pending) + 1] = c
        /\ \A i \in 1 .. Len(pending) : pending'[i] = pending[i]
    BY <1>0, <2>1
  <2>5. Len(pending) \in Nat
    BY <1>0
  <2>6. \A i \in 1 .. Len(pending') :
          i # Len(pending) + 1 => i \in 1 .. Len(pending)
    BY <2>4, <2>5
  <2>7. \A d \in Conn : client'[d] = "new" => client[d] = "new"
    BY <1>0, <2>1 DEF TypeOK
  <2>8. client'[c] # "new"
    BY <1>0, <2>1 DEF TypeOK
  <2>9. ASSUME NEW i \in 1 .. Len(pending')
        PROVE  /\ handler'[pending'[i]] = "none" /\ pending'[i] # current'
               /\ client'[pending'[i]] # "new"
               /\ \A j \in 1 .. Len(pending') : i # j => pending'[i] # pending'[j]
    <3>1. CASE i = Len(pending) + 1
      BY <2>1, <2>2, <2>3, <2>4, <2>6, <2>8, <3>1
    <3>2. CASE i \in 1 .. Len(pending)
      <4>1. /\ handler[pending[i]] = "none" /\ pending[i] # current
            /\ client[pending[i]] # "new" /\ pending[i] \in Conn
            /\ \A j \in 1 .. Len(pending) : i # j => pending[i] # pending[j]
        BY <1>0, <3>2 DEF Undecided
      <4> QED
        BY <2>1, <2>3, <2>4, <2>6, <2>7, <3>2, <4>1
    <3> QED
      BY <2>6, <3>1, <3>2
  <2> QED
    BY <1>0, <2>1, <2>7, <2>9 DEF Undecided
<1>7. ASSUME NEW c \in Conn, ReadLine(c) \/ SendByte(c) \/ CloseClient(c)
      PROVE  Undecided'
  <2>1. /\ UNCHANGED <<pending, current, handler>>
        /\ \A d \in Conn : client'[d] = "new" => client[d] = "new"
    BY <1>0, <1>7 DEF ReadLine, SendByte, CloseClient, loopVars, TypeOK
  <2> QED
    BY <1>0, <2>1 DEF Undecided
<1>8. CASE UNCHANGED vars
  BY <1>0, <1>8 DEF vars, loopVars, Undecided
<1> QED
  BY <1>1, <1>2, <1>3, <1>4, <1>5, <1>6, <1>7, <1>8
  DEF Next, AcceptLoop, Peer

-----------------------------------------------------------------------------
(* The balances.                                                           *)

\* Every step that moves a handler or the accept loop between phases adjusts
\* the counter of what it left and entered.
LEMMA BudgetStep == IInv /\ [Next]_vars => Budget'
<1> SUFFICES ASSUME IInv, [Next]_vars PROVE Budget'
  OBVIOUS
<1> DEFINE S == Count(Owning)
           A == Count(Counted)
           RS == AcceptorAt({"activate", "admit"})
           RA == AcceptorAt({"admit"})
<1>0. TypeOK /\ Undecided /\ Budget /\ handler \in [Conn -> Phase]
      /\ max \in Nat
  BY ConnectionLimitAssumption DEF IInv, TypeOK, Phase
<1>1. S \in Nat /\ A \in Nat /\ RS \in {0, 1} /\ RA \in {0, 1}
  BY CountType DEF AcceptorAt
<1>2. slots = S + RS /\ active = A + RA /\ slots <= max
  BY <1>0 DEF Budget, SlotBalance, ActiveBalance, Count, Owning, Counted
<1>b. max' = max
  BY MaxStep
<1>3. SUFFICES slots' = S' + RS' /\ active' = A' + RA' /\ slots' <= max
  BY <1>b DEF Budget, SlotBalance, ActiveBalance, Count, Owning, Counted
<1>4. ASSUME NEW c \in Conn, NEW at, HandlerAt(c, at)
      PROVE  /\ S' = S - One(handler[c], Owning) + One(at, Owning)
             /\ A' = A - One(handler[c], Counted) + One(at, Counted)
  BY <1>0, <1>4, CountMove
<1>5. UNCHANGED handler => S' = S /\ A' = A
  BY DEF Count, At
<1>6. UNCHANGED acceptor => RS' = RS /\ RA' = RA
  BY DEF AcceptorAt
<1>7. slots \in Nat /\ active \in Nat
  BY <1>0 DEF TypeOK
<1> HIDE DEF S, A
<1> DEFINE Goal == slots' = S' + RS' /\ active' = A' + RA' /\ slots' <= max
<1>8. CASE Accept \/ Refuse \/ WriteBusy
  <2>1. /\ RS = 0 /\ RA = 0 /\ RS' = 0 /\ RA' = 0
        /\ UNCHANGED <<handler, slots, active>>
    BY <1>8 DEF Accept, Refuse, WriteBusy, AcceptorAt, countVars
  <2> QED
    BY <1>1, <1>2, <1>5, <2>1
<1>9. CASE Reserve
  <2>1. /\ RS = 0 /\ RA = 0 /\ RS' = 1 /\ RA' = 0 /\ slots < max
        /\ slots' = slots + 1 /\ UNCHANGED <<handler, active>>
    BY <1>9 DEF Reserve, AcceptorAt
  <2> QED
    BY <1>0, <1>1, <1>2, <1>5, <1>7, <2>1
<1>10. CASE Activate
  <2>1. /\ RS = 1 /\ RA = 0 /\ RS' = 1 /\ RA' = 1
        /\ active' = active + 1 /\ UNCHANGED <<handler, slots>>
    BY <1>10 DEF Activate, AcceptorAt
  <2> QED
    BY <1>1, <1>2, <1>5, <2>1
<1>11. CASE Admit
  <2>1. /\ RS = 1 /\ RA = 1 /\ RS' = 0 /\ RA' = 0
        /\ UNCHANGED <<slots, active>>
    BY <1>11 DEF Admit, AcceptorAt
  <2>2. current \in Conn /\ handler[current] = "none"
        /\ HandlerAt(current, "greet")
    BY <1>0, <1>11, ConnectionLimitAssumption
    DEF Admit, HandlerAt, TypeOK, Undecided
  <2>3. S' = S + 1 /\ A' = A + 1
    BY <1>1, <1>4, <2>2 DEF One, Owning, Counted
  <2> QED
    BY <1>1, <1>2, <2>1, <2>3
<1>12. ASSUME NEW c \in Conn, WriteOK(c) \/ ReadError(c) \/ CloseConn(c)
       PROVE  Goal
  <2>1. PICK at \in {"read", "close", "deactivate"} : HandlerAt(c, at)
    BY <1>12 DEF WriteOK, ReadError, CloseConn
  <2>2. /\ handler[c] \in {"greet", "read", "close"}
        /\ UNCHANGED <<acceptor, slots, active>>
    BY <1>12 DEF WriteOK, ReadError, CloseConn, loopVars, countVars
  <2>3. S' = S /\ A' = A
    BY <1>1, <1>4, <2>1, <2>2 DEF One, Owning, Counted
  <2> QED
    BY <1>1, <1>2, <1>6, <2>2, <2>3
<1>13. ASSUME NEW c \in Conn, Deactivate(c) PROVE Goal
  <2>1. /\ handler[c] = "deactivate" /\ HandlerAt(c, "release")
        /\ active' = active - 1 /\ UNCHANGED <<acceptor, slots>>
    BY <1>13 DEF Deactivate, loopVars
  <2>2. S' = S /\ A' = A - 1
    BY <1>1, <1>4, <2>1 DEF One, Owning, Counted
  <2> QED
    BY <1>1, <1>2, <1>6, <2>1, <2>2
<1>14. ASSUME NEW c \in Conn, Release(c) PROVE Goal
  <2>1. /\ handler[c] = "release" /\ HandlerAt(c, "done")
        /\ slots' = slots - 1 /\ UNCHANGED <<acceptor, active>>
    BY <1>14 DEF Release, loopVars
  <2>2. S' = S - 1 /\ A' = A
    BY <1>1, <1>4, <2>1 DEF One, Owning, Counted
  <2> QED
    BY <1>0, <1>1, <1>2, <1>6, <1>7, <2>1, <2>2
<1>15. CASE UNCHANGED <<acceptor, handler, slots, active>>
  BY <1>2, <1>5, <1>6, <1>15
<1> QED
  BY <1>8, <1>9, <1>10, <1>11, <1>12, <1>13, <1>14, <1>15
  DEF Next, AcceptLoop, Handler, Peer, ReadByte, Dial, ReadLine, SendByte,
      CloseClient, vars, loopVars, countVars

\* A connection is new until it is dialled, and nothing makes it new again; the
\* accept loop moves it from the line into one of the two counts.
LEMMA DecisionStep == IInv /\ [Next]_vars => DecisionBalance'
<1> SUFFICES ASSUME IInv, [Next]_vars PROVE DecisionBalance'
  OBVIOUS
<1> DEFINE N == Cardinality(Arrived)
           R == AcceptorAt({"decide", "activate", "admit"})
<1>0. /\ pending \in Seq(Conn) /\ Len(pending) \in Nat
      /\ admitted \in Nat /\ rejected \in Nat
      /\ client \in [Conn -> {"new", "waiting", "admitted", "refused",
                              "failed", "closed"}]
  BY DEF IInv, TypeOK
<1>1. IsFiniteSet(Arrived) /\ N \in Nat /\ R \in {0, 1}
  BY FS_Subset, FS_CardinalityType, ConnectionLimitAssumption
  DEF Arrived, AcceptorAt
<1>2. N = Len(pending) + R + admitted + rejected
  BY DEF IInv, DecisionBalance
<1>3. SUFFICES N' = Len(pending') + R' + admitted' + rejected'
  BY DEF DecisionBalance
<1>4. UNCHANGED client => N' = N
  BY DEF Arrived
<1>5. UNCHANGED acceptor => R' = R
  BY DEF AcceptorAt
<1> HIDE DEF N
<1> DEFINE Goal == N' = Len(pending') + R' + admitted' + rejected'
<1>6. CASE Accept
  <2>1. /\ R = 0 /\ R' = 1 /\ UNCHANGED <<client, admitted, rejected>>
    BY <1>6 DEF Accept, AcceptorAt, countVars
  <2>2. Len(pending') = Len(pending) - 1
    BY <1>0, <1>6 DEF Accept
  <2> QED
    BY <1>0, <1>1, <1>2, <1>4, <2>1, <2>2
<1>7. CASE Reserve \/ Activate
  <2>1. /\ R = 1 /\ R' = 1 /\ UNCHANGED <<client, pending, admitted, rejected>>
    BY <1>7 DEF Reserve, Activate, AcceptorAt
  <2> QED
    BY <1>2, <1>4, <2>1
<1>8. CASE Admit
  <2>1. /\ R = 1 /\ R' = 0 /\ admitted' = admitted + 1
        /\ UNCHANGED <<client, pending, rejected>>
    BY <1>8 DEF Admit, AcceptorAt
  <2> QED
    BY <1>0, <1>1, <1>2, <1>4, <2>1
<1>9. CASE Refuse
  <2>1. /\ R = 1 /\ R' = 0 /\ rejected' = rejected + 1
        /\ UNCHANGED <<client, pending, admitted>>
    BY <1>9 DEF Refuse, AcceptorAt
  <2> QED
    BY <1>0, <1>1, <1>2, <1>4, <2>1
<1>10. CASE WriteBusy
  <2>1. /\ R = 0 /\ R' = 0 /\ UNCHANGED <<client, pending, admitted, rejected>>
    BY <1>10 DEF WriteBusy, AcceptorAt, countVars
  <2> QED
    BY <1>2, <1>4, <2>1
<1>11. ASSUME NEW c \in Conn, Handler(c) PROVE Goal
  <2>1. UNCHANGED <<client, acceptor, pending, admitted, rejected>>
    BY <1>11 DEF Handler, WriteOK, ReadByte, ReadError, CloseConn, Deactivate,
                 Release, loopVars, countVars
  <2> QED
    BY <1>2, <1>4, <1>5, <2>1
<1>12. ASSUME NEW c \in Conn, Dial(c) PROVE Goal
  <2>1. /\ client[c] = "new" /\ client' = [client EXCEPT ![c] = "waiting"]
        /\ UNCHANGED <<acceptor, admitted, rejected>>
    BY <1>12 DEF Dial, countVars
  <2>2. Len(pending') = Len(pending) + 1
    BY <1>0, <1>12 DEF Dial
  <2>3. c \notin Arrived /\ Arrived' = Arrived \cup {c}
    BY <1>0, <2>1 DEF Arrived
  <2>4. N' = N + 1
    BY <1>1, <2>3, FS_AddElement DEF N
  <2> QED
    BY <1>0, <1>1, <1>2, <1>5, <2>1, <2>2, <2>4
<1>13. ASSUME NEW c \in Conn, ReadLine(c) \/ SendByte(c) \/ CloseClient(c)
       PROVE  Goal
  <2>1. UNCHANGED <<acceptor, pending, admitted, rejected>>
    BY <1>13 DEF ReadLine, SendByte, CloseClient, loopVars, countVars
  <2>2. \A d \in Conn : client'[d] = "new" <=> client[d] = "new"
    BY <1>0, <1>13 DEF ReadLine, SendByte, CloseClient
  <2>3. Arrived' = Arrived
    BY <2>2 DEF Arrived
  <2> QED
    BY <1>2, <1>5, <2>1, <2>3 DEF N
<1>14. CASE UNCHANGED vars
  BY <1>2, <1>4, <1>5, <1>14 DEF vars, loopVars, countVars
<1> QED
  BY <1>6, <1>7, <1>8, <1>9, <1>10, <1>11, <1>12, <1>13, <1>14
  DEF Next, AcceptLoop, Peer

-----------------------------------------------------------------------------
(* The admission line.                                                     *)

\* A connection told BUSY never comes back to the accept loop.
Told == \A c \in Conn :
  /\ line[c] = "OK" => handler[c] \notin {"none", "greet"}
  /\ line[c] = "BUSY" =>
       /\ handler[c] = "none" /\ current # c /\ client[c] # "new"
       /\ \A i \in 1 .. Len(pending) : pending[i] # c

\* Every step keeps it.
LEMMA ToldStep == IInv /\ Told /\ [Next]_vars => Told'
<1> SUFFICES ASSUME IInv, Told, [Next]_vars PROVE Told'
  OBVIOUS
<1>0. /\ TypeOK /\ Undecided /\ pending \in Seq(Conn) /\ None \notin Conn
      /\ handler \in [Conn -> Phase]
      /\ \A i \in 1 .. Len(pending) : pending[i] \in Conn
  BY ConnectionLimitAssumption DEF IInv, TypeOK, Phase
<1>1. CASE Accept
  <2>1. /\ pending # <<>> /\ current' = pending[1] /\ UNCHANGED <<handler, line, client>>
        /\ \A i \in 1 .. Len(pending') :
             i + 1 \in 1 .. Len(pending) /\ pending'[i] = pending[i + 1]
        /\ 1 \in 1 .. Len(pending)
    BY <1>0, <1>1 DEF Accept, wireVars
  <2> QED
    BY <2>1 DEF Told
<1>2. CASE Reserve \/ Activate \/ Refuse
  BY <1>2 DEF Reserve, Activate, Refuse, Told, wireVars
<1>3. CASE Admit
  <2>1. /\ current \in Conn /\ current' = None /\ handler[current] = "none"
        /\ handler' = [handler EXCEPT ![current] = "greet"]
        /\ UNCHANGED <<pending, line, client>>
    BY <1>0, <1>3 DEF Admit, TypeOK, Undecided, wireVars
  <2>2. line[current] \notin {"OK", "BUSY"}
    BY <2>1 DEF Told
  <2>3. \A c \in Conn : c # current => handler'[c] = handler[c]
    BY <1>0, <2>1
  <2> QED
    BY <1>0, <2>1, <2>2, <2>3 DEF Told
<1>4. CASE WriteBusy
  <2>1. /\ current \in Conn /\ current' = None /\ handler[current] = "none"
        /\ client[current] # "new"
        /\ \A i \in 1 .. Len(pending) : pending[i] # current
        /\ UNCHANGED <<pending, handler, client>>
    BY <1>0, <1>4 DEF WriteBusy, TypeOK, Undecided
  <2>2. /\ line'[current] \in {"BUSY", "eof"}
        /\ \A c \in Conn : c # current => line'[c] = line[c]
    BY <1>0, <1>4, <2>1 DEF WriteBusy, TypeOK
  <2> QED
    BY <1>0, <2>1, <2>2 DEF Told
<1>5. ASSUME NEW c \in Conn, Handler(c) PROVE Told'
  <2>1. /\ handler[c] # "none" /\ handler'[c] \notin {"none", "greet"}
        /\ line'[c] # "BUSY" \/ line'[c] = line[c]
        /\ UNCHANGED <<pending, current, client>>
        /\ \A d \in Conn : d # c => handler'[d] = handler[d] /\ line'[d] = line[d]
    BY <1>0, <1>5
    DEF Handler, WriteOK, ReadByte, ReadError, CloseConn, Deactivate, Release,
        HandlerAt, loopVars, wireVars, TypeOK
  <2> QED
    BY <2>1 DEF Told
<1>6. ASSUME NEW c \in Conn, Dial(c) PROVE Told'
  <2>1. /\ client[c] = "new" /\ client' = [client EXCEPT ![c] = "waiting"]
        /\ pending' = Append(pending, c) /\ UNCHANGED <<handler, current, line>>
    BY <1>6 DEF Dial, wireVars
  <2>2. line[c] # "BUSY"
    BY <2>1 DEF Told
  <2>3. \A i \in 1 .. Len(pending') :
          pending'[i] = c \/ (i \in 1 .. Len(pending) /\ pending'[i] = pending[i])
    BY <1>0, <2>1
  <2>4. \A d \in Conn : client'[d] = "new" => client[d] = "new"
    BY <1>0, <2>1 DEF TypeOK
  <2> QED
    BY <2>1, <2>2, <2>3, <2>4 DEF Told
<1>7. ASSUME NEW c \in Conn, ReadLine(c) \/ SendByte(c) \/ CloseClient(c)
      PROVE  Told'
  <2>1. /\ UNCHANGED <<pending, current, handler, line>>
        /\ \A d \in Conn : client'[d] = "new" => client[d] = "new"
    BY <1>0, <1>7 DEF ReadLine, SendByte, CloseClient, loopVars, wireVars, TypeOK
  <2> QED
    BY <2>1 DEF Told
<1>8. CASE UNCHANGED vars
  BY <1>8 DEF vars, loopVars, wireVars, Told
<1> QED
  BY <1>1, <1>2, <1>3, <1>4, <1>5, <1>6, <1>7, <1>8
  DEF Next, AcceptLoop, Peer

-----------------------------------------------------------------------------
(* The theorems.                                                           *)

\* The parts together are inductive.
LEMMA Inductive == Spec => []IInv
<1>1. Init => IInv
  <2> SUFFICES ASSUME Init PROVE IInv
    OBVIOUS
  <2> USE ConnectionLimitAssumption DEF Init
  <2>1. TypeOK
    BY DEF TypeOK
  <2>2. Undecided
    <3>1. Len(pending) = 0
      OBVIOUS
    <3> QED
      BY <3>1 DEF Undecided
  <2>3. At(Owning) = {} /\ At(Counted) = {}
    BY DEF At, Owning, Counted
  <2>4. Count(Owning) = 0 /\ Count(Counted) = 0
    BY <2>3, FS_EmptySet DEF Count
  <2>5. Budget
    <3>1. /\ AcceptorAt({"activate", "admit"}) = 0 /\ AcceptorAt({"admit"}) = 0
          /\ slots = 0 /\ active = 0 /\ 0 <= max
      BY DEF AcceptorAt
    <3> HIDE DEF Init
    <3> QED
      BY <2>4, <3>1
      DEF Budget, SlotBalance, ActiveBalance, Count, Owning, Counted
  <2>6. DecisionBalance
    <3>1. Arrived = {} /\ Len(pending) = 0 /\ admitted = 0 /\ rejected = 0
      BY DEF Arrived
    <3>2. AcceptorAt({"decide", "activate", "admit"}) = 0
      BY DEF AcceptorAt
    <3> HIDE DEF Init
    <3> QED
      BY <3>1, <3>2, FS_EmptySet DEF DecisionBalance
  <2> QED
    BY <2>1, <2>2, <2>5, <2>6 DEF IInv
<1>2. IInv /\ [Next]_vars => IInv'
  BY TypeStep, UndecidedStep, BudgetStep, DecisionStep DEF IInv
<1> QED
  BY <1>1, <1>2, PTL DEF Spec

\* The variables keep their types; in particular neither the slots nor the
\* active count go negative.
THEOREM TypeCorrect == Spec => []TypeOK
<1>1. IInv => TypeOK
  BY DEF IInv
<1> QED
  BY <1>1, Inductive, PTL

\* The slots, the active count and the decisions agree with the connections
\* between any two of their separate updates: none leaks through the deferred
\* cleanup, and every connection is counted once.
THEOREM CountersAlwaysBalance == Spec => []CountersBalance
<1>1. IInv => CountersBalance
  BY DEF IInv, Budget, CountersBalance
<1> QED
  BY <1>1, Inductive, PTL

\* The active count never exceeds the slots in use, nor these max.
THEOREM BudgetHolds == Spec => []WithinBudget
<1>1. IInv => WithinBudget
  <2> SUFFICES ASSUME IInv PROVE active <= slots /\ slots <= max
    BY DEF WithinBudget
  <2>1. /\ slots = Count(Owning) + AcceptorAt({"activate", "admit"})
        /\ active = Count(Counted) + AcceptorAt({"admit"})
        /\ slots <= max
    BY DEF IInv, Budget, SlotBalance, ActiveBalance, Count, Owning, Counted
  <2>2. Count(Counted) <= Count(Owning)
    <3>1. At(Counted) \subseteq At(Owning) /\ At(Owning) \subseteq Conn
      BY DEF At, Counted, Owning
    <3>2. IsFiniteSet(At(Owning))
      BY <3>1, FS_Subset, ConnectionLimitAssumption
    <3> QED
      BY <3>1, <3>2, FS_Subset DEF Count
  <2>3. AcceptorAt({"admit"}) <= AcceptorAt({"activate", "admit"})
    BY DEF AcceptorAt
  <2>4. /\ Count(Counted) \in Nat /\ Count(Owning) \in Nat
        /\ AcceptorAt({"admit"}) \in Nat
        /\ AcceptorAt({"activate", "admit"}) \in Nat
    BY CountType DEF AcceptorAt
  <2> QED
    BY <2>1, <2>2, <2>3, <2>4
<1> QED
  BY <1>1, Inductive, PTL

\* No connection gets both decisions: whoever reads OK was admitted, whoever
\* reads BUSY never has a handler.
THEOREM LineIsTheDecision == Spec => []LineIsDecision
<1>1. Init => Told
  BY DEF Init, Told
<1>2. Told => LineIsDecision
  BY DEF Told, LineIsDecision
<1> QED
  BY <1>1, <1>2, ToldStep, Inductive, PTL DEF Spec
=============================================================================
