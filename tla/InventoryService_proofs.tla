---------------------- MODULE InventoryService_proofs ----------------------
(***************************************************************************)
(* Theorems about InventoryService for lists of any length, any limit of   *)
(* the list that is given up, any items in stock and any number of breaks: *)
(* every call ends as it deserves, and its items arrive in order.          *)
(***************************************************************************)
EXTENDS InventoryService, FiniteSetTheorems, SequenceTheorems, TLAPS

-----------------------------------------------------------------------------
(* The inductive invariant, call by call.                                  *)

Message == (0 .. Items) \cup BOOLEAN \cup (Nat \X Nat)

Listing   == {"list", "first"}
Streaming == {"report", "sync"}
InOrder   == {"list", "first", "sync"}

\* The queues hold messages.
Queues ==
  /\ got \in [Call -> Seq(Message)] /\ down \in [Call -> Seq(Message)]
  /\ up \in [Call -> Seq(0 .. Items)]

\* The handler of a call is at one of its own steps.
Steps(c) ==
  /\ c = "check" => handler[c] \in {"none", "slow", "look", "gone"}
  /\ c \in Listing =>
       handler[c] \in {"none", "request", "check", "send", "gate", "gone"}
  /\ c = "report" => handler[c] \in {"none", "receive", "gone"}
  /\ c = "sync" => handler[c] \in {"none", "receive", "gate", "send", "gone"}

\* Nothing is there before the call is opened, and nothing but what the client
\* is still to read once its handler is gone.
Stages(c) ==
  /\ context[c] = "none" =>
       /\ handler[c] = "none" /\ trailer[c] = "none"
       /\ got[c] = <<>> /\ up[c] = <<>> /\ ~sentAll[c]
  /\ handler[c] \in {"none", "gone"} => local[c] = Fresh
  /\ handler[c] = "gone" => up[c] = <<>> /\ ~sentAll[c]
  /\ handler[c] = "gone" <=> context[c] = "over"
  /\ outcome[c] # "none" => trailer[c] = "none" /\ down[c] = <<>>

\* What a status of the server rests on.
Reasons(c) ==
  /\ context[c] = "DeadlineExceeded" => Budget(c) \in expired
  /\ trailer[c] \in {"none", "OK", "DeadlineExceeded", "Unavailable"} \/
       (c = "check" /\ trailer[c] = Deserved)
  /\ trailer[c] = "DeadlineExceeded" => Budget(c) \in expired
  /\ trailer[c] = "Unavailable" => breaks > 0

\* CheckStock looks up the product of a valid request, and a slow one only when
\* its time is over.
Checks(c) == c = "check" =>
  /\ handler[c] \in {"slow", "look"} => token = "valid" /\ product # ""
  /\ handler[c] = "slow" => product = "slow-item"
  /\ handler[c] = "look" /\ product = "slow-item" => Dead(c)

\* How many items have arrived at the server.
Arrived(c) == local[c].received + Len(up[c])

\* The items on their way to the server are those behind the received ones.
Uploads(c) == c \in Streaming =>
  /\ \A i \in 1 .. Len(up[c]) : up[c][i] = local[c].received + i
  /\ Arrived(c) <= Items
  /\ sentAll[c] => Arrived(c) = Items
  /\ c = "report" =>
       local[c].available = Cardinality(Available \cap (1 .. local[c].received))

\* The handler that answers is at its next item, and the client has been sent
\* no other, and every one while the stream holds.
Answers(c) == c \in InOrder =>
  /\ \A i \in 1 .. Len(got[c]) : got[c][i] = i
  /\ \A i \in 1 .. Len(down[c]) : down[c][i] = Len(got[c]) + i
  /\ handler[c] # "gone" => Len(got[c]) + Len(down[c]) <= local[c].sent
  /\ handler[c] # "gone" /\ Carried(c) =>
       Len(got[c]) + Len(down[c]) = local[c].sent
  /\ c \in Listing => local[c].sent < Items /\
       (handler[c] \in {"none", "request"} => local[c].sent = 0)
  /\ c = "sync" =>
       local[c].received = local[c].sent +
                             (IF handler[c] \in {"gate", "send"} THEN 1 ELSE 0)
  /\ c = "sync" /\ handler[c] \in {"gate", "send"} =>
       local[c].item = local[c].received

Single(c) == IF c = "check" THEN InStock(product) ELSE <<Items, Cardinality(Available)>>

\* An answer with the status OK is whole.
Completes(c) ==
  /\ trailer[c] = "OK" /\ c \in InOrder => Len(got[c]) + Len(down[c]) = Items
  /\ trailer[c] = "OK" /\ c \notin InOrder =>
       \/ got[c] = <<>> /\ down[c] = <<Single(c)>>
       \/ got[c] = <<Single(c)>> /\ down[c] = <<>>
  /\ trailer[c] = "OK" /\ c = "check" => Deserved = "ok"
  /\ c \notin InOrder /\ handler[c] # "gone" => got[c] = <<>> /\ down[c] = <<>>

\* What a call has to show for an error.
Grounds(c, error) ==
  \/ c = "check" /\ error = Deserved
  \/ error \in {"DeadlineExceeded", "EOF"} /\ Budget(c) \in expired
  \/ error \in {"Unavailable", "EOF"} /\ breaks > 0

Ends(c) ==
  /\ outcome[c] = "ok" => got[c] = Whole(c) /\ (c = "check" => Deserved = "ok")
  /\ outcome[c] \notin {"none", "ok"} => Grounds(c, outcome[c])

CallInv(c) == /\ Steps(c) /\ Stages(c) /\ Reasons(c) /\ Checks(c)
              /\ Uploads(c) /\ Answers(c) /\ Completes(c) /\ Ends(c)

\* The calls before the current one are over, those behind it not begun.
Ahead == \A i \in at .. Len(calls) :
  /\ outcome[calls[i]] = "none"
  /\ i > at \/ doing = "open" => context[calls[i]] = "none"

\* The client sends the items of a streaming call one after the other, and
\* leaves the list that it cuts short as soon as it may.
Sending ==
  /\ doing = "open" => next = 1
  /\ Calling("send") =>
       /\ Current \in Streaming /\ ~sentAll[Current] /\ trailer[Current] # "OK"
       /\ Arrived(Current) <= next - 1
       /\ Reaches(Current) => Arrived(Current) = next - 1
  /\ at <= Len(calls) /\ Current = "first" => Len(got["first"]) < Limit

IInv == TypeOK /\ Queues /\ Ahead /\ Sending /\ \A c \in Call : CallInv(c)

-----------------------------------------------------------------------------
(* What the steps below use of the invariant.                              *)

LEMMA CallIs == Call = {"check", "list", "first", "report", "sync"}
<1>1. Len(Main) = 5 /\ Main[1] = "check" /\ Main[2] = "list" /\ Main[3] = "first"
      /\ Main[4] = "report" /\ Main[5] = "sync"
  BY DEF Main
<1> HIDE DEF Main
<1>2. Call = {Main[1], Main[2], Main[3], Main[4], Main[5]}
  <2>1. 1 .. Len(Main) = {1, 2, 3, 4, 5}
    BY <1>1
  <2> QED
    BY <2>1 DEF Call
<1> QED
  BY <1>1, <1>2

\* The current call is one of the client's, and the others are different.
LEMMA CallsDiffer ==
  ASSUME TypeOK
  PROVE  /\ Len(calls) \in Nat /\ at \in Nat /\ at >= 1
         /\ \A i \in 1 .. Len(calls) : calls[i] \in Call
         /\ \A i, j \in 1 .. Len(calls) : i # j => calls[i] # calls[j]
         /\ at <= Len(calls) => Current \in Call
<1>0. at \in 1 .. Len(calls) + 1
  BY DEF TypeOK
<1>1. CASE calls = Main
  <2>1. Len(calls) = 5 /\ calls[1] = "check" /\ calls[2] = "list"
        /\ calls[3] = "first" /\ calls[4] = "report" /\ calls[5] = "sync"
    BY <1>1 DEF Main
  <2>2. \A i \in 1 .. Len(calls) : i \in {1, 2, 3, 4, 5}
    BY <2>1
  <2>3. at \in Nat /\ at >= 1
    BY <1>0, <2>1
  <2> QED
    BY <2>1, <2>2, <2>3, CallIs DEF Current
<1>2. CASE \E c \in Call : calls = <<c>>
  <2>1. PICK c \in Call : calls = <<c>>
    BY <1>2
  <2>2. Len(calls) = 1 /\ calls[1] = c
    BY <2>1
  <2>3. at \in Nat /\ at >= 1
    BY <1>0, <2>2
  <2> QED
    BY <2>2, <2>3 DEF Current
<1> QED
  BY <1>1, <1>2 DEF TypeOK

\* The items in stock are counted by numbers up to the whole stock.
LEMMA StockFacts ==
  /\ IsFiniteSet(Available) /\ Cardinality(Available) \in Nat
  /\ Available \cap (1 .. Items) = Available /\ Items \in Nat /\ Items >= 2
  /\ Cardinality(Available \cap (1 .. 0)) = 0
  /\ \A n \in Nat :
       /\ Cardinality(Available \cap (1 .. n)) \in 0 .. Cardinality(Available)
       /\ Cardinality(Available \cap (1 .. n + 1)) =
            Cardinality(Available \cap (1 .. n))
              + (IF n + 1 \in Available THEN 1 ELSE 0)
<1>1. Items \in Nat /\ Items >= 2 /\ Available \subseteq 1 .. Items
  BY InventoryAssumption
<1>2. IsFiniteSet(Available)
  <2>1. IsFiniteSet(1 .. Items)
    BY <1>1, FS_Interval
  <2> QED
    BY <1>1, <2>1, FS_Subset
<1>3. Cardinality(Available) \in Nat
  BY <1>2, FS_CardinalityType
<1>4. Available \cap (1 .. 0) = {}
  OBVIOUS
<1>5. ASSUME NEW n \in Nat
      PROVE  /\ Cardinality(Available \cap (1 .. n)) \in 0 .. Cardinality(Available)
             /\ Cardinality(Available \cap (1 .. n + 1)) =
                  Cardinality(Available \cap (1 .. n))
                    + (IF n + 1 \in Available THEN 1 ELSE 0)
  <2> DEFINE A == Available \cap (1 .. n)
             B == Available \cap (1 .. n + 1)
  <2>1. /\ IsFiniteSet(A) /\ Cardinality(A) \in Nat
        /\ Cardinality(A) <= Cardinality(Available)
    <3>1. A \subseteq Available
      OBVIOUS
    <3> HIDE DEF A
    <3> QED
      BY <1>2, <3>1, FS_Subset, FS_CardinalityType
  <2>2. CASE n + 1 \in Available
    <3>1. B = A \cup {n + 1} /\ n + 1 \notin A
      BY <2>2
    <3>2. Cardinality(B) = Cardinality(A) + 1
      BY <2>1, <3>1, FS_AddElement
    <3> QED
      BY <1>3, <2>1, <2>2, <3>2
  <2>3. CASE n + 1 \notin Available
    <3>1. B = A
      BY <2>3
    <3> QED
      BY <1>3, <2>1, <2>3, <3>1
  <2> QED
    BY <2>2, <2>3
<1> QED
  BY <1>1, <1>2, <1>3, <1>4, <1>5, FS_EmptySet

\* A call of which nothing changes, and whose deadline and connection stay what
\* they were or are lost.
LEMMA Frame ==
  ASSUME NEW c \in Call, CallInv(c),
         got'[c] = got[c], down'[c] = down[c], up'[c] = up[c],
         sentAll'[c] = sentAll[c], trailer'[c] = trailer[c],
         context'[c] = context[c], handler'[c] = handler[c],
         local'[c] = local[c], outcome'[c] = outcome[c],
         UNCHANGED <<token, product>>, expired \subseteq expired',
         breaks \in Nat, breaks' \in Nat, breaks <= breaks'
  PROVE  CallInv(c)'
<1>0. breaks > 0 => breaks' > 0
  OBVIOUS
<1>1. Steps(c)'
  BY DEF CallInv, Steps
<1>2. Stages(c)'
  BY DEF CallInv, Stages
<1>3. Deserved' = Deserved
  BY DEF Deserved
<1>4. Reasons(c)'
  BY <1>0, <1>3 DEF CallInv, Reasons
<1>5. Checks(c)'
  BY DEF CallInv, Checks, Dead
<1>6. Uploads(c)'
  BY DEF CallInv, Uploads, Arrived
<1>7. Answers(c)'
  <2>1. Carried(c)' = Carried(c)
    BY DEF Carried
  <2> QED
    BY <2>1 DEF CallInv, Answers
<1>8. Whole(c)' = Whole(c) /\ Single(c)' = Single(c)
  BY DEF Whole, Single, InStock, Listed
<1>9. Completes(c)'
  BY <1>3, <1>8 DEF CallInv, Completes
<1>10. Ends(c)'
  BY <1>0, <1>3, <1>8 DEF CallInv, Ends, Grounds
<1> QED
  BY <1>1, <1>2, <1>4, <1>5, <1>6, <1>7, <1>9, <1>10 DEF CallInv

-----------------------------------------------------------------------------
(* The handlers.                                                           *)

\* What the leaves of the proofs need to know of the types.
LEMMA CallTypes ==
  ASSUME IInv, NEW c \in Call
  PROVE  /\ CallInv(c) /\ breaks \in Nat
         /\ got[c] \in Seq(Message) /\ down[c] \in Seq(Message)
         /\ up[c] \in Seq(0 .. Items)
         /\ Len(got[c]) \in Nat /\ Len(down[c]) \in Nat /\ Len(up[c]) \in Nat
         /\ local[c].received \in Nat /\ local[c].sent \in Nat
         /\ local[c].available \in Nat /\ local[c].item \in Nat
         /\ Arrived(c) \in Nat
<1>1. local[c] \in [item : 0 .. Items, received : 0 .. Items,
                    available : 0 .. Cardinality(Available), sent : 0 .. Items]
  BY DEF IInv, TypeOK
<1>2. /\ local[c].received \in Nat /\ local[c].sent \in Nat
      /\ local[c].available \in Nat /\ local[c].item \in Nat
  BY <1>1, StockFacts
<1>3. /\ got[c] \in Seq(Message) /\ down[c] \in Seq(Message)
      /\ up[c] \in Seq(0 .. Items)
  BY DEF IInv, Queues
<1>4. Len(got[c]) \in Nat /\ Len(down[c]) \in Nat /\ Len(up[c]) \in Nat
  BY <1>3
<1>5. CallInv(c) /\ breaks \in Nat
  <2>1. breaks \in 0 .. MaxBreaks /\ MaxBreaks \in Nat
    BY InventoryAssumption DEF IInv, TypeOK
  <2>2. breaks \in Nat
    BY <2>1
  <2> QED
    BY <2>2 DEF IInv
<1>6. Arrived(c) \in Nat
  BY <1>2, <1>4 DEF Arrived
<1> QED
  BY <1>2, <1>3, <1>4, <1>5, <1>6

\* What the other calls see of a step of one call.
Elsewhere(c) == \A d \in Call : d # c =>
  /\ got'[d] = got[d] /\ down'[d] = down[d] /\ up'[d] = up[d]
  /\ sentAll'[d] = sentAll[d] /\ trailer'[d] = trailer[d]
  /\ context'[d] = context[d] /\ handler'[d] = handler[d]
  /\ local'[d] = local[d] /\ outcome'[d] = outcome[d]

\* A step of the server in a call that was opened does not touch the client, if
\* it takes no item away from the stream that the client still writes.
LEMMA ClientKept ==
  ASSUME IInv, NEW c \in Call, UNCHANGED <<calls, clientVars>>,
         context[c] # "none", Elsewhere(c),
         c \in Streaming =>
           /\ Arrived(c)' <= Arrived(c)
           /\ Reaches(c)' => Arrived(c)' = Arrived(c)
           /\ Reaches(c)' => Reaches(c)
           /\ sentAll'[c] => sentAll[c]
           /\ trailer'[c] = "OK" => trailer[c] = "OK" \/ sentAll[c],
         Arrived(c)' \in Nat
  PROVE  Ahead' /\ Sending'
<1>1. UNCHANGED <<calls, at, doing, next, got, outcome>>
  BY DEF clientVars
<1>2. /\ Len(calls) \in Nat /\ at \in Nat /\ at >= 1
      /\ \A i \in at .. Len(calls) : calls[i] \in Call
  BY CallsDiffer DEF IInv
<1>3. Ahead'
  <2> SUFFICES ASSUME NEW i \in at .. Len(calls), i > at \/ doing = "open"
               PROVE  context'[calls[i]] = "none"
    BY <1>1 DEF Ahead, IInv
  <2>1. context[calls[i]] = "none" /\ calls[i] \in Call
    BY <1>2 DEF Ahead, IInv
  <2> QED
    BY <2>1 DEF Elsewhere
<1>4. Sending'
  <2>1. Current' = Current /\ (Calling("send"))' = Calling("send")
    BY <1>1 DEF Current, Calling
  <2>2. ASSUME Calling("send")
        PROVE  /\ Current \in Streaming /\ ~sentAll'[Current]
               /\ trailer'[Current] # "OK" /\ Arrived(Current)' <= next - 1
               /\ Reaches(Current)' => Arrived(Current)' = next - 1
    <3>1. /\ Current \in Streaming /\ ~sentAll[Current]
          /\ trailer[Current] # "OK" /\ Arrived(Current) <= next - 1
          /\ Reaches(Current) => Arrived(Current) = next - 1
      BY <2>2 DEF IInv, Sending
    <3>2. Current \in Call /\ next \in Nat /\ Arrived(Current) \in Nat
      <4>1. Current \in Call
        BY <2>2, CallsDiffer DEF IInv, Calling
      <4>2. next \in 1 .. Items + 1
        BY DEF IInv, TypeOK
      <4>3. next \in Nat
        BY <4>2, StockFacts
      <4> QED
        BY <4>1, <4>3, CallTypes
    <3>3. CASE Current = c
      <4>1. /\ Arrived(c)' <= Arrived(c)
            /\ Reaches(c)' => Arrived(c)' = Arrived(c)
            /\ Reaches(c)' => Reaches(c)
            /\ sentAll'[c] => sentAll[c]
            /\ trailer'[c] = "OK" => trailer[c] = "OK" \/ sentAll[c]
        BY <3>1, <3>3
      <4>2. /\ ~sentAll[c] /\ trailer[c] # "OK" /\ Arrived(c) <= next - 1
            /\ Reaches(c) => Arrived(c) = next - 1
            /\ Arrived(c) \in Nat
        BY <3>1, <3>2, <3>3
      <4>3. /\ ~sentAll'[c] /\ trailer'[c] # "OK"
            /\ Reaches(c)' => Arrived(c)' = next - 1
        BY <4>1, <4>2
      <4>4. Arrived(c)' <= next - 1
        BY <3>2, <4>1, <4>2
      <4>5. Current' = c
        BY <2>1, <3>3
      <4> QED
        BY <3>1, <3>3, <4>3, <4>4, <4>5
    <3>4. CASE Current # c
      <4>1. /\ up'[Current] = up[Current] /\ local'[Current] = local[Current]
            /\ sentAll'[Current] = sentAll[Current]
            /\ trailer'[Current] = trailer[Current]
            /\ context'[Current] = context[Current]
        BY <3>2, <3>4 DEF Elsewhere
      <4>2. Arrived(Current)' = Arrived(Current) /\ Reaches(Current)' = Reaches(Current)
        BY <2>1, <4>1 DEF Arrived, Reaches
      <4> QED
        BY <3>1, <4>1, <4>2
    <3> QED
      BY <3>3, <3>4
  <2> QED
    BY <1>1, <2>1, <2>2 DEF Sending, IInv
<1> QED
  BY <1>3, <1>4

\* The invariant holds for every call if it does for the one that steps.
LEMMA Others ==
  ASSUME IInv, NEW c \in Call, Elsewhere(c), CallInv(c)',
         UNCHANGED <<token, product>>, expired \subseteq expired',
         breaks' \in Nat, breaks <= breaks'
  PROVE  (\A d \in Call : CallInv(d))'
<1> SUFFICES ASSUME NEW d \in Call PROVE CallInv(d)'
  OBVIOUS
<1>1. CASE d = c
  BY <1>1
<1>2. CASE d # c
  <2>1. CallInv(d) /\ breaks \in Nat
    BY CallTypes
  <2>2. /\ got'[d] = got[d] /\ down'[d] = down[d] /\ up'[d] = up[d]
        /\ sentAll'[d] = sentAll[d] /\ trailer'[d] = trailer[d]
        /\ context'[d] = context[d] /\ handler'[d] = handler[d]
        /\ local'[d] = local[d] /\ outcome'[d] = outcome[d]
    BY <1>2 DEF Elsewhere
  <2> QED
    BY <2>1, <2>2, Frame
<1> QED
  BY <1>1, <1>2

\* Where a handler may go on to while its variables stay what they are.
MayGoOn(c, to) ==
  /\ context[c] # "none" /\ handler[c] # "gone" /\ to \notin {"none", "gone"}
  /\ c = "check" =>
       /\ to \in {"slow", "look"} /\ token = "valid" /\ product # ""
       /\ to = "slow" => product = "slow-item"
       /\ to = "look" /\ product = "slow-item" => Dead(c)
  /\ c \in Listing =>
       /\ to \in {"request", "check", "send", "gate"}
       /\ to = "request" => handler[c] = "none"
  /\ c = "report" => to = "receive"
  /\ c = "sync" =>
       /\ to \in {"receive", "gate", "send"}
       /\ to \in {"gate", "send"} <=> handler[c] \in {"gate", "send"}

\* The queue of a call to the server stays, or its one request is taken.
RequestTaken(c) ==
  UNCHANGED up \/ (c \notin Streaming /\ up' = [up EXCEPT ![c] = <<>>])

\* A handler goes on, having perhaps taken the only request from its queue.
LEMMA StepKeeps ==
  ASSUME IInv, NEW c \in Call, NEW to, MayGoOn(c, to), GoOn(c, to),
         UNCHANGED Aside, UNCHANGED <<down, local>>, RequestTaken(c)
  PROVE  IInv'
<1>0. context[c] # "none"
  BY DEF MayGoOn
<1>1. /\ UNCHANGED <<calls, token, product, gate, at, doing, next, got, outcome>>
      /\ UNCHANGED <<expired, breaks, sentAll, trailer, context, down, local>>
      /\ UNCHANGED clientVars
  BY DEF Aside, inputVars, clientVars, GoOn
<1>2. /\ CallInv(c) /\ breaks \in Nat /\ Arrived(c) \in Nat /\ TypeOK /\ Queues
  BY CallTypes DEF IInv
<1>3. /\ handler' = [handler EXCEPT ![c] = to] /\ handler'[c] = to
      /\ \A d \in Call : d # c => handler'[d] = handler[d]
  BY <1>2 DEF GoOn, Goto, TypeOK
<1>4. /\ \A d \in Call : d # c => up'[d] = up[d]
      /\ up'[c] = up[c] \/ (c \notin Streaming /\ up'[c] = <<>>)
      /\ up' \in [Call -> Seq(0 .. Items)]
  <2>1. <<>> \in Seq(0 .. Items) /\ up \in [Call -> Seq(0 .. Items)]
    BY <1>2, EmptySeq DEF Queues
  <2> QED
    BY <2>1 DEF RequestTaken
<1>5. Elsewhere(c)
  BY <1>1, <1>3, <1>4 DEF Elsewhere
<1>6. TypeOK'
  <2>1. to \in {"slow", "look", "request", "check", "send", "gate", "receive"}
    BY CallIs DEF Listing, MayGoOn
  <2> QED
    <3>1. handler' \in [Call -> {"none", "slow", "look", "request", "check", "send", "gate",
                                 "receive", "gone"}]
      BY <1>2, <1>3, <2>1 DEF TypeOK
    <3> QED
      BY <1>1, <1>2, <3>1 DEF TypeOK
<1>7. Queues'
  BY <1>1, <1>2, <1>4 DEF Queues
<1>8. CallInv(c)'
  <2>1. Steps(c)'
    BY <1>3 DEF Steps, Listing, MayGoOn
  <2>2. Stages(c)'
    BY <1>1, <1>2, <1>3, <1>4 DEF CallInv, Stages, MayGoOn
  <2>3. Deserved' = Deserved /\ Whole(c)' = Whole(c) /\ Single(c)' = Single(c)
    BY <1>1 DEF Deserved, Whole, Single, InStock, Listed
  <2>4. Reasons(c)'
    BY <1>1, <1>2, <2>3 DEF CallInv, Reasons
  <2>5. Checks(c)'
    BY <1>1, <1>3 DEF Checks, Dead, MayGoOn
  <2>6. Uploads(c)'
    BY <1>1, <1>2, <1>4 DEF CallInv, Uploads, Arrived
  <2>7. Answers(c)'
    <3>1. Carried(c)' = Carried(c)
      BY <1>1 DEF Carried
    <3>2. ~(c \in Listing /\ c = "sync")
      BY DEF Listing
    <3> QED
      BY <1>1, <1>2, <1>3, <3>1, <3>2 DEF CallInv, Answers, MayGoOn
  <2>8. Completes(c)'
    BY <1>1, <1>2, <1>3, <2>3 DEF CallInv, Completes, MayGoOn
  <2>9. Ends(c)'
    BY <1>1, <1>2, <2>3 DEF CallInv, Ends, Grounds
  <2> QED
    BY <2>1, <2>2, <2>4, <2>5, <2>6, <2>7, <2>8, <2>9 DEF CallInv
<1>9. (\A d \in Call : CallInv(d))'
  <2>1. breaks' = breaks /\ expired' = expired /\ UNCHANGED <<token, product>>
    BY <1>1
  <2>2. breaks' \in Nat /\ breaks <= breaks'
    BY <1>2, <2>1
  <2> QED
    BY <1>5, <1>8, <2>1, <2>2, Others
<1>10. Ahead' /\ Sending'
  <2>1. c \in Streaming => Arrived(c)' = Arrived(c) /\ Reaches(c)' = Reaches(c)
    BY <1>1, <1>4 DEF Arrived, Reaches
  <2>2. Arrived(c)' \in Nat
    <3>1. Len(up'[c]) \in Nat
      BY <1>4
    <3>2. local[c].received \in Nat /\ local' = local
      BY <1>1, CallTypes
    <3>3. local'[c].received \in Nat
      BY <3>2
    <3> QED
      BY <3>1, <3>3 DEF Arrived
  <2>3. sentAll' = sentAll /\ trailer' = trailer /\ UNCHANGED <<calls, clientVars>>
    BY <1>1
  <2> QED
    BY <1>0, <1>2, <1>5, <2>1, <2>2, <2>3, ClientKept
<1> QED
  BY <1>6, <1>7, <1>9, <1>10 DEF IInv

\* One more of the second is one more of both.
LEMMA SumShift ==
  \A g, d, s : g \in Nat /\ d \in Nat /\ s = g + d => s + 1 = g + (d + 1)
OBVIOUS

\* What a sum is bounded by, and bounds.
LEMMA SumBounded == \A g, d, s \in Nat : g + d <= s => g + d <= s + 1
OBVIOUS

LEMMA SumNatural == \A g, d \in Nat : 0 <= g + d
OBVIOUS

LEMMA SumBounds == \A a, g, d, s \in Nat : a <= g + d /\ g + d <= s => a <= s
OBVIOUS

\* What a handler may return while its answer still reaches the client.
Justified(c, response, status) ==
  \/ status = "DeadlineExceeded" /\ Budget(c) \in expired /\ response = <<>>
  \/ c = "check" /\ status = Deserved /\ status # "OK" /\ response = <<>>
  \/ /\ status = "OK" /\ c \notin InOrder /\ response = <<Single(c)>>
     /\ c = "check" => Deserved = "ok"
  \/ /\ status = "OK" /\ c \in Listing /\ response = <<local[c].sent + 1>>
     /\ local[c].sent + 1 = Items
  \/ status = "OK" /\ c = "sync" /\ response = <<>> /\ local[c].sent = Items

\* What it may return at all: only behind the last item of the client it is "OK".
MayReturn(c, response, status) ==
  /\ context[c] # "none" /\ handler[c] # "gone" /\ status \in Status
  /\ c \in Streaming /\ status = "OK" => sentAll[c]
  /\ Carried(c) => Justified(c, response, status)

LEMMA JustifiedMessages ==
  ASSUME NEW c \in Call, NEW response, NEW status, Justified(c, response, status),
         local[c].sent \in Nat
  PROVE  response \in Seq(Message)
<1>1. Single(c) \in Message
  <2>1. InStock(product) \in BOOLEAN
    BY DEF InStock
  <2>2. <<Items, Cardinality(Available)>> \in Nat \X Nat
    BY StockFacts
  <2> QED
    BY <2>1, <2>2 DEF Single, Message
<1>2. local[c].sent + 1 = Items => local[c].sent + 1 \in Message
  BY StockFacts DEF Message
<1>3. response = <<>> \/ \E m \in Message : response = <<m>>
  BY <1>1, <1>2 DEF Justified
<1>4. CASE response = <<>>
  BY <1>4, EmptySeq
<1>5. CASE \E m \in Message : response = <<m>>
  <2>1. PICK m \in Message : response = <<m>>
    BY <1>5
  <2> QED
    BY <2>1
<1> QED
  BY <1>3, <1>4, <1>5

\* A handler returns.
LEMMA ReturnKeeps ==
  ASSUME IInv, NEW c \in Call, NEW response, NEW status,
         MayReturn(c, response, status), Return(c, response, status),
         UNCHANGED Aside
  PROVE  IInv'
<1>0. context[c] # "none" /\ handler[c] # "gone" /\ status \in Status
  BY DEF MayReturn
<1>1. /\ UNCHANGED <<calls, token, product, gate, at, doing, next, got, outcome>>
      /\ UNCHANGED <<expired, breaks>> /\ UNCHANGED clientVars
  BY DEF Aside, inputVars, clientVars
<1>2. /\ CallInv(c) /\ breaks \in Nat /\ Arrived(c) \in Nat /\ TypeOK /\ Queues
      /\ local[c].sent \in Nat /\ got[c] \in Seq(Message) /\ down[c] \in Seq(Message)
  BY CallTypes DEF IInv
<1>3. /\ handler' = [handler EXCEPT ![c] = "gone"]
      /\ context' = [context EXCEPT ![c] = "over"]
      /\ up' = [up EXCEPT ![c] = <<>>] /\ sentAll' = [sentAll EXCEPT ![c] = FALSE]
      /\ local' = [local EXCEPT ![c] = Fresh]
  BY DEF Return, Goto
<1>4. /\ handler'[c] = "gone" /\ context'[c] = "over" /\ up'[c] = <<>>
      /\ sentAll'[c] = FALSE /\ local'[c] = Fresh
      /\ \A d \in Call : d # c =>
           /\ handler'[d] = handler[d] /\ context'[d] = context[d] /\ up'[d] = up[d]
           /\ sentAll'[d] = sentAll[d] /\ local'[d] = local[d]
  BY <1>2, <1>3 DEF TypeOK, Queues
<1>5. /\ Carried(c) => /\ down' = [down EXCEPT ![c] = @ \o response]
                       /\ trailer' = [trailer EXCEPT ![c] = status]
      /\ ~Carried(c) => UNCHANGED <<down, trailer>>
  BY DEF Return
<1>6. /\ Carried(c) => /\ Justified(c, response, status) /\ response \in Seq(Message)
                       /\ down'[c] = down[c] \o response /\ trailer'[c] = status
      /\ ~Carried(c) => down'[c] = down[c] /\ trailer'[c] = trailer[c]
      /\ \A d \in Call : d # c => down'[d] = down[d] /\ trailer'[d] = trailer[d]
  <2>1. CASE Carried(c)
    <3>1. Justified(c, response, status) /\ response \in Seq(Message)
      BY <1>2, <2>1, JustifiedMessages DEF MayReturn
    <3> QED
      BY <1>2, <1>5, <2>1, <3>1 DEF TypeOK, Queues
  <2>2. CASE ~Carried(c)
    BY <1>5, <2>2
  <2> QED
    BY <2>1, <2>2
<1>7. Elsewhere(c)
  BY <1>1, <1>4, <1>6 DEF Elsewhere
<1>8. TypeOK'
  <2>1. trailer' \in [Call -> Status \cup {"none"}]
    BY <1>0, <1>2, <1>5 DEF TypeOK
  <2>2. Fresh \in [item : 0 .. Items, received : 0 .. Items,
                   available : 0 .. Cardinality(Available), sent : 0 .. Items]
    BY StockFacts DEF Fresh
  <2>3. local' \in [Call -> [item : 0 .. Items, received : 0 .. Items,
                             available : 0 .. Cardinality(Available), sent : 0 .. Items]]
    BY <1>2, <1>3, <2>2 DEF TypeOK
  <2> QED
    BY <1>1, <1>2, <1>3, <2>1, <2>3 DEF TypeOK
<1>9. Queues'
  <2>1. down' \in [Call -> Seq(Message)]
    <3>1. CASE ~Carried(c)
      BY <1>2, <1>5, <3>1 DEF Queues
    <3>2. CASE Carried(c)
      <4>1. down[c] \o response \in Seq(Message)
        BY <1>2, <1>6, <3>2
      <4> QED
        BY <1>2, <1>5, <3>2, <4>1 DEF Queues
    <3> QED
      BY <3>1, <3>2
  <2>2. up' \in [Call -> Seq(0 .. Items)]
    BY <1>2, <1>3, EmptySeq DEF Queues
  <2> QED
    BY <1>1, <1>2, <2>1, <2>2 DEF Queues
<1>10. CallInv(c)'
  <2>0. Fresh.item = 0 /\ Fresh.received = 0 /\ Fresh.available = 0 /\ Fresh.sent = 0
    BY DEF Fresh
  <2>1. Steps(c)'
    BY <1>4 DEF Steps
  <2>2. Stages(c)'
    BY <1>1, <1>2, <1>4, <1>6 DEF CallInv, Stages, Carried
  <2>3. Deserved' = Deserved /\ Whole(c)' = Whole(c) /\ Single(c)' = Single(c)
    BY <1>1 DEF Deserved, Whole, Single, InStock, Listed
  <2>4. Reasons(c)'
    <3>1. CASE Carried(c)
      <4>1. trailer'[c] = status /\ Justified(c, response, status)
        BY <1>6, <3>1
      <4> QED
        BY <1>0, <1>1, <1>4, <2>3, <4>1 DEF Reasons, Justified, Status, Deserved
    <3>2. CASE ~Carried(c)
      BY <1>1, <1>2, <1>4, <1>6, <2>3, <3>2 DEF CallInv, Reasons
    <3> QED
      BY <3>1, <3>2
  <2>5. Checks(c)'
    BY <1>4 DEF Checks
  <2>6. Uploads(c)'
    BY <1>4, <2>0, StockFacts DEF Uploads, Arrived
  <2>7. Answers(c)'
    <3> SUFFICES ASSUME c \in InOrder PROVE Answers(c)'
      BY DEF Answers
    <3>1. /\ \A i \in 1 .. Len(got[c]) : got[c][i] = i
          /\ \A i \in 1 .. Len(down[c]) : down[c][i] = Len(got[c]) + i
          /\ Carried(c) => Len(got[c]) + Len(down[c]) = local[c].sent
      BY <1>0, <1>2 DEF CallInv, Answers
    <3>2. \A i \in 1 .. Len(down'[c]) : down'[c][i] = Len(got[c]) + i
      <4>1. CASE ~Carried(c)
        BY <1>6, <3>1, <4>1
      <4>2. CASE Carried(c)
        <5>1. response = <<>> \/ response = <<local[c].sent + 1>>
          BY <1>6, <4>2 DEF Justified
        <5>2. down'[c] = down[c] \o response
          BY <1>6, <4>2
        <5>0. Len(got[c]) \in Nat /\ Len(down[c]) \in Nat
          BY CallTypes
        <5>5. local[c].sent = Len(got[c]) + Len(down[c])
          BY <3>1, <4>2
        <5>3. CASE response = <<>>
          <6>1. down'[c] = down[c]
            BY <1>2, <5>2, <5>3
          <6> QED
            BY <3>1, <6>1
        <5>4. CASE response = <<local[c].sent + 1>>
          <6>1. /\ Len(down'[c]) = Len(down[c]) + 1
                /\ \A i \in 1 .. Len(down[c]) : down'[c][i] = down[c][i]
                /\ down'[c][Len(down[c]) + 1] = local[c].sent + 1
            BY <1>2, <5>2, <5>4
          <6>2. \A i \in 1 .. Len(down[c]) + 1 :
                  i \in 1 .. Len(down[c]) \/ i = Len(down[c]) + 1
            BY <5>0
          <6>3. local[c].sent + 1 = Len(got[c]) + (Len(down[c]) + 1)
            BY <5>0, <5>5, SumShift
          <6> QED
            BY <3>1, <6>1, <6>2, <6>3
        <5> QED
          BY <5>1, <5>3, <5>4
      <4> QED
        BY <4>1, <4>2
    <3>3. c = "sync" => handler'[c] \notin {"gate", "send"}
      BY <1>4
    <3> QED
      BY <1>1, <1>4, <2>0, <3>1, <3>2, <3>3, StockFacts DEF Answers
  <2>8. Completes(c)'
    <3>1. CASE ~Carried(c)
      BY <1>1, <1>2, <1>4, <1>6, <2>3, <3>1 DEF CallInv, Completes
    <3>2. CASE Carried(c)
      <4>1. /\ down'[c] = down[c] \o response /\ trailer'[c] = status
            /\ Justified(c, response, status)
        BY <1>6, <3>2
      <4>2. ASSUME status = "OK", c \in InOrder
            PROVE  Len(got'[c]) + Len(down'[c]) = Items
        <5>1. Len(got[c]) + Len(down[c]) = local[c].sent
          BY <1>0, <1>2, <3>2, <4>2 DEF CallInv, Answers
        <5>2. \/ response = <<local[c].sent + 1>> /\ local[c].sent + 1 = Items
              \/ response = <<>> /\ local[c].sent = Items
          BY <4>1, <4>2 DEF Justified
        <5>3. response \in Seq(Message) /\ down[c] \in Seq(Message)
          BY <1>2, <1>6, <3>2
        <5>4. Len(down'[c]) = Len(down[c]) + Len(response)
          BY <4>1, <5>3
        <5>5. \/ Len(response) = 1 /\ local[c].sent + 1 = Items
              \/ Len(response) = 0 /\ local[c].sent = Items
          BY <5>2
        <5>6. Len(got'[c]) = Len(got[c])
          BY <1>1
        <5>7. Len(got[c]) \in Nat /\ Len(down[c]) \in Nat
          BY CallTypes
        <5>8. Len(got[c]) + (Len(down[c]) + Len(response)) = Items
          <6>1. CASE Len(response) = 1 /\ local[c].sent + 1 = Items
            <7>1. Len(got[c]) + (Len(down[c]) + 1) = Items
              BY <5>1, <5>7, <6>1, SumShift
            <7> QED
              BY <6>1, <7>1
          <6>2. CASE Len(response) = 0 /\ local[c].sent = Items
            <7>1. Len(down[c]) + Len(response) = Len(down[c])
              BY <5>7, <6>2
            <7> QED
              BY <5>1, <6>2, <7>1
          <6> QED
            BY <5>5, <6>1, <6>2
        <5> QED
          BY <5>4, <5>6, <5>8
      <4>3. ASSUME status = "OK", c \notin InOrder
            PROVE  got'[c] = <<>> /\ down'[c] = <<Single(c)>>
        <5>1. got[c] = <<>> /\ down[c] = <<>>
          BY <1>0, <1>2, <4>3 DEF CallInv, Completes
        <5>2. response = <<Single(c)>>
          BY <4>1, <4>3 DEF Justified, InOrder, Listing
        <5> QED
          BY <1>1, <4>1, <5>1, <5>2
      <4>4. status = "OK" /\ c = "check" => Deserved = "ok"
        BY <4>1 DEF Justified, Listing
      <4> QED
        BY <1>4, <2>3, <4>1, <4>2, <4>3, <4>4 DEF Completes
    <3> QED
      BY <3>1, <3>2
  <2>9. Ends(c)'
    BY <1>1, <1>2, <2>3 DEF CallInv, Ends, Grounds
  <2> QED
    BY <2>1, <2>2, <2>4, <2>5, <2>6, <2>7, <2>8, <2>9 DEF CallInv
<1>11. (\A d \in Call : CallInv(d))'
  <2>1. breaks' = breaks /\ expired' = expired /\ UNCHANGED <<token, product>>
    BY <1>1
  <2>2. breaks' \in Nat /\ breaks <= breaks'
    BY <1>2, <2>1
  <2> QED
    BY <1>7, <1>10, <2>1, <2>2, Others
<1>12. Ahead' /\ Sending'
  <2>1. Arrived(c)' = 0 /\ ~Reaches(c)'
    BY <1>4 DEF Arrived, Reaches, Fresh
  <2>2. /\ Arrived(c)' \in Nat /\ Arrived(c)' <= Arrived(c)
        /\ Reaches(c)' => Arrived(c)' = Arrived(c) /\ Reaches(c)
    BY <1>2, <2>1
  <2>3. ~sentAll'[c] /\ UNCHANGED <<calls, clientVars>>
    BY <1>1, <1>4
  <2>4. c \in Streaming /\ trailer'[c] = "OK" => trailer[c] = "OK" \/ sentAll[c]
    BY <1>6 DEF MayReturn
  <2> QED
    BY <1>0, <1>2, <1>7, <2>2, <2>3, <2>4, ClientKept
<1> QED
  BY <1>8, <1>9, <1>11, <1>12 DEF IInv

\* A step of a handler keeps the invariant if it does for the call at hand.
LEMMA ServerKeeps ==
  ASSUME IInv, NEW c \in Call, Elsewhere(c), UNCHANGED Aside, context[c] # "none",
         TypeOK', Queues', CallInv(c)',
         UNCHANGED <<sentAll, trailer, context>>, Arrived(c)' = Arrived(c)
  PROVE  IInv'
<1>1. /\ UNCHANGED <<token, product, expired, breaks, calls>> /\ UNCHANGED clientVars
  BY DEF Aside, inputVars, clientVars
<1>2. breaks \in Nat /\ Arrived(c) \in Nat
  BY CallTypes
<1>3. breaks' \in Nat /\ breaks <= breaks' /\ expired \subseteq expired'
  <2>1. breaks' = breaks /\ expired' = expired
    BY <1>1
  <2> QED
    BY <1>2, <2>1
<1>4. (\A d \in Call : CallInv(d))'
  BY <1>1, <1>3, Others
<1>5. Ahead' /\ Sending'
  <2>1. Reaches(c)' = Reaches(c)
    BY DEF Reaches
  <2>2. Arrived(c)' \in Nat /\ Arrived(c)' <= Arrived(c)
    BY <1>2
  <2>3. sentAll' = sentAll /\ trailer' = trailer /\ UNCHANGED <<calls, clientVars>>
    BY <1>1
  <2> QED
    BY <2>1, <2>2, <2>3, ClientKept
<1> QED
  BY <1>4, <1>5 DEF IInv

\* The next answer is sent, and perhaps arrives.
Sends(c, to) ==
  /\ handler[c] = "send" /\ (c = "sync" \/ local[c].sent + 1 < Items)
  /\ down' = IF Carried(c)
             THEN [down EXCEPT ![c] = Append(@, IF c = "sync" THEN local[c].item
                                                ELSE local[c].sent + 1)]
             ELSE down
  /\ local' = [local EXCEPT ![c].sent = local[c].sent + 1, ![c].item = 0]
  /\ to \in {"receive", "gate", "check"} /\ (c = "sync" <=> to = "receive")
  /\ GoOn(c, to) /\ UNCHANGED up

LEMMA SendKeeps ==
  ASSUME IInv, NEW c \in Call, NEW to, Sends(c, to), UNCHANGED Aside
  PROVE  IInv'
<1>1. /\ UNCHANGED <<calls, token, product, gate, at, doing, next, got, outcome>>
      /\ UNCHANGED <<expired, breaks, sentAll, trailer, context, up>>
  BY DEF Aside, inputVars, clientVars, Sends, GoOn
<1>2. /\ CallInv(c) /\ TypeOK /\ Queues
      /\ got[c] \in Seq(Message) /\ down[c] \in Seq(Message)
      /\ Len(got[c]) \in Nat /\ Len(down[c]) \in Nat
      /\ local[c].sent \in Nat /\ local[c].received \in Nat
  BY CallTypes DEF IInv
<1>3. /\ handler[c] = "send" /\ c \in InOrder /\ context[c] # "none"
      /\ context[c] # "over" /\ (c = "sync" \/ c \in Listing)
      /\ ~(c = "sync" /\ c \in Listing)
  BY <1>2, CallIs DEF Sends, CallInv, Steps, Stages, InOrder, Listing
<1>4. /\ handler'[c] = to /\ to \in {"receive", "gate", "check"}
      /\ c = "sync" <=> to = "receive"
      /\ handler' = [handler EXCEPT ![c] = to]
      /\ \A d \in Call : d # c => handler'[d] = handler[d]
  BY <1>2 DEF Sends, GoOn, Goto, TypeOK
<1>5. /\ \A i \in 1 .. Len(got[c]) : got[c][i] = i
      /\ \A i \in 1 .. Len(down[c]) : down[c][i] = Len(got[c]) + i
      /\ Len(got[c]) + Len(down[c]) <= local[c].sent
      /\ Carried(c) => local[c].sent = Len(got[c]) + Len(down[c])
      /\ c \in Listing => local[c].sent + 1 < Items
      /\ c = "sync" =>
           local[c].received = local[c].sent + 1 /\ local[c].item = local[c].sent + 1
  BY <1>2, <1>3 DEF CallInv, Answers, Sends
<1>6. /\ local'[c] = [local[c] EXCEPT !.sent = local[c].sent + 1, !.item = 0]
      /\ local'[c].sent = local[c].sent + 1 /\ local'[c].item = 0
      /\ local'[c].received = local[c].received
      /\ local'[c].available = local[c].available
      /\ \A d \in Call : d # c => local'[d] = local[d]
  BY <1>2 DEF Sends, TypeOK
<1>7. /\ Carried(c) => down' = [down EXCEPT ![c] = Append(@, local[c].sent + 1)]
      /\ ~Carried(c) => down' = down
  BY <1>3, <1>5 DEF Sends
<1>8. /\ Carried(c) => down'[c] = Append(down[c], local[c].sent + 1)
      /\ ~Carried(c) => down'[c] = down[c]
      /\ \A d \in Call : d # c => down'[d] = down[d]
  BY <1>2, <1>7 DEF Queues
<1>9. Elsewhere(c)
  BY <1>1, <1>4, <1>6, <1>8 DEF Elsewhere
<1>10. local[c].sent + 1 \in 0 .. Items
  <2>1. local[c].received \in 0 .. Items
    BY <1>2 DEF TypeOK
  <2> QED
    BY <1>2, <1>3, <1>5, <2>1, StockFacts
<1>11. TypeOK'
  <2> DEFINE Variables == [item : 0 .. Items, received : 0 .. Items,
                           available : 0 .. Cardinality(Available), sent : 0 .. Items]
  <2>1. local \in [Call -> Variables]
    BY <1>2 DEF TypeOK
  <2>2. [local[c] EXCEPT !.sent = local[c].sent + 1, !.item = 0] \in Variables
    <3>1. 0 \in 0 .. Items /\ local[c] \in Variables
      BY <2>1, StockFacts
    <3> QED
      BY <1>10, <3>1
  <2>3. local'[c] \in Variables
    BY <1>6, <2>2
  <2> HIDE DEF Variables
  <2>4. \A d \in Call : local'[d] \in Variables
    <3> SUFFICES ASSUME NEW d \in Call PROVE local'[d] \in Variables
      OBVIOUS
    <3> QED
      BY <1>6, <2>1, <2>3
  <2>5. local' \in [Call -> Variables]
    BY <2>1, <2>4 DEF Sends
  <2>6. handler' \in [Call -> {"none", "slow", "look", "request", "check", "send", "gate",
                               "receive", "gone"}]
    BY <1>2, <1>4 DEF TypeOK
  <2> QED
    BY <1>1, <1>2, <2>5, <2>6 DEF TypeOK, Variables
<1>12. Queues'
  <2>1. local[c].sent + 1 \in Message
    BY <1>10 DEF Message
  <2>2. down' \in [Call -> Seq(Message)]
    <3>1. CASE ~Carried(c)
      BY <1>2, <1>7, <3>1 DEF Queues
    <3>2. CASE Carried(c)
      <4>1. Append(down[c], local[c].sent + 1) \in Seq(Message)
        BY <1>2, <2>1
      <4> QED
        BY <1>2, <1>7, <3>2, <4>1 DEF Queues
    <3> QED
      BY <3>1, <3>2
  <2> QED
    BY <1>1, <1>2, <2>2 DEF Queues
<1>13. CallInv(c)'
  <2>1. Steps(c)'
    BY <1>3, <1>4 DEF Steps, InOrder, Listing
  <2>2. Stages(c)'
    BY <1>1, <1>2, <1>3, <1>4, <1>8 DEF CallInv, Stages, Carried
  <2>3. Deserved' = Deserved /\ Whole(c)' = Whole(c) /\ Single(c)' = Single(c)
    BY <1>1 DEF Deserved, Whole, Single, InStock, Listed
  <2>4. Reasons(c)'
    BY <1>1, <1>2, <2>3 DEF CallInv, Reasons
  <2>5. Checks(c)'
    BY <1>3 DEF Checks, InOrder, Listing
  <2>6. Uploads(c)'
    BY <1>1, <1>2, <1>6 DEF CallInv, Uploads, Arrived
  <2>7. Answers(c)'
    <3>1. Carried(c)' = Carried(c)
      BY <1>1 DEF Carried
    <3>2. \A i \in 1 .. Len(down'[c]) : down'[c][i] = Len(got[c]) + i
      <4>1. CASE ~Carried(c)
        BY <1>5, <1>8, <4>1
      <4>2. CASE Carried(c)
        <5>1. /\ Len(down'[c]) = Len(down[c]) + 1
              /\ \A i \in 1 .. Len(down[c]) : down'[c][i] = down[c][i]
              /\ down'[c][Len(down[c]) + 1] = local[c].sent + 1
          BY <1>2, <1>8, <4>2
        <5>2. \A i \in 1 .. Len(down[c]) + 1 :
                i \in 1 .. Len(down[c]) \/ i = Len(down[c]) + 1
          BY <1>2
        <5>3. local[c].sent + 1 = Len(got[c]) + (Len(down[c]) + 1)
          <6>1. Len(got[c]) \in Nat /\ Len(down[c]) \in Nat
            BY <1>2
          <6>2. local[c].sent = Len(got[c]) + Len(down[c])
            BY <1>5, <4>2
          <6> QED
            BY <6>1, <6>2, SumShift
        <5> QED
          BY <1>5, <5>1, <5>2, <5>3
      <4> QED
        BY <4>1, <4>2
    <3>3. /\ Len(got'[c]) + Len(down'[c]) <= local'[c].sent
          /\ Carried(c) => Len(got'[c]) + Len(down'[c]) = local'[c].sent
      <4>1. CASE ~Carried(c)
        <5>1. Len(got'[c]) + Len(down'[c]) = Len(got[c]) + Len(down[c])
          BY <1>1, <1>8, <4>1
        <5>2. Len(got[c]) + Len(down[c]) <= local[c].sent + 1
          <6>1. local[c].sent \in Nat /\ Len(got[c]) \in Nat /\ Len(down[c]) \in Nat
            BY <1>2
          <6>2. Len(got[c]) + Len(down[c]) <= local[c].sent
            BY <1>5
          <6> QED
            BY <6>1, <6>2, SumBounded
        <5> QED
          BY <1>6, <4>1, <5>1, <5>2
      <4>2. CASE Carried(c)
        <5>1. Len(down'[c]) = Len(down[c]) + 1
          BY <1>2, <1>8, <4>2
        <5>2. local[c].sent + 1 = Len(got[c]) + (Len(down[c]) + 1)
          <6>1. Len(got[c]) \in Nat /\ Len(down[c]) \in Nat
            BY <1>2
          <6>2. local[c].sent = Len(got[c]) + Len(down[c])
            BY <1>5, <4>2
          <6> QED
            BY <6>1, <6>2, SumShift
        <5>3. Len(got'[c]) + Len(down'[c]) = local[c].sent + 1
          BY <1>1, <5>1, <5>2
        <5>4. local[c].sent + 1 <= local[c].sent + 1
          BY <1>2
        <5> QED
          BY <1>6, <5>3, <5>4
      <4> QED
        BY <4>1, <4>2
    <3>4. /\ c = "sync" => local'[c].received = local'[c].sent
          /\ c = "sync" => handler'[c] \notin {"gate", "send"}
          /\ c \in Listing => local'[c].sent < Items
          /\ handler'[c] \notin {"none", "request"}
      BY <1>4, <1>5, <1>6
    <3>5. c = "sync" => local'[c].received = local'[c].sent + 0
      BY <1>2, <1>6, <3>4
    <3> QED
      BY <1>1, <1>5, <3>1, <3>2, <3>3, <3>4, <3>5 DEF Answers
  <2>8. Completes(c)'
    <3>1. CASE Carried(c)
      BY <1>1, <1>3, <2>3, <3>1 DEF Completes, Carried
    <3>2. CASE ~Carried(c)
      BY <1>1, <1>2, <1>3, <1>8, <2>3, <3>2 DEF CallInv, Completes
    <3> QED
      BY <3>1, <3>2
  <2>9. Ends(c)'
    BY <1>1, <1>2, <2>3 DEF CallInv, Ends, Grounds
  <2> QED
    BY <2>1, <2>2, <2>4, <2>5, <2>6, <2>7, <2>8, <2>9 DEF CallInv
<1>14. Arrived(c)' = Arrived(c)
  BY <1>1, <1>6 DEF Arrived
<1> QED
  BY <1>1, <1>3, <1>9, <1>11, <1>12, <1>13, <1>14, ServerKeeps

\* A queue without its first message.
LEMMA TailFacts ==
  ASSUME NEW S, NEW s \in Seq(S), s # <<>>
  PROVE  /\ Len(s) >= 1 /\ Head(s) = s[1]
         /\ Tail(s) \in Seq(S) /\ Len(Tail(s)) = Len(s) - 1
         /\ \A i \in 1 .. Len(s) - 1 : Tail(s)[i] = s[i + 1]
  OBVIOUS

\* One more received, one less under way.
LEMMA TakeShift ==
  \A r, n \in Nat : n >= 1 =>
    /\ r + 1 + (n - 1) = r + n
    /\ r + n <= Items => r + 1 \in 1 .. Items
  BY StockFacts

\* What becomes of the variables of a handler that has received item i.
Kept(c, i) ==
  IF c = "report"
  THEN [local[c] EXCEPT !.received = local[c].received + 1,
                        !.available = local[c].available
                                        + (IF i \in Available THEN 1 ELSE 0)]
  ELSE [local[c] EXCEPT !.received = local[c].received + 1, !.item = i]

\* The next item is received.
Receives(c, to) ==
  /\ handler[c] = "receive" /\ up[c] # <<>>
  /\ up' = [up EXCEPT ![c] = Tail(up[c])]
  /\ local' = [local EXCEPT ![c] = Kept(c, Head(up[c]))]
  /\ c = "report" => to = "receive"
  /\ c = "sync" => to \in {"gate", "send"}
  /\ GoOn(c, to) /\ UNCHANGED down

LEMMA ReceiveKeeps ==
  ASSUME IInv, NEW c \in Call, NEW to, Receives(c, to), UNCHANGED Aside
  PROVE  IInv'
<1>1. /\ UNCHANGED <<calls, token, product, gate, at, doing, next, got, outcome>>
      /\ UNCHANGED <<expired, breaks, sentAll, trailer, context, down>>
  BY DEF Aside, inputVars, clientVars, Receives, GoOn
<1>2. /\ CallInv(c) /\ TypeOK /\ Queues /\ Len(up[c]) \in Nat
      /\ up[c] \in Seq(0 .. Items) /\ Arrived(c) \in Nat
      /\ local[c].sent \in Nat /\ local[c].received \in Nat
      /\ local[c].available \in Nat
  BY CallTypes DEF IInv
<1>3. /\ handler[c] = "receive" /\ c \in Streaming /\ context[c] # "none"
      /\ context[c] # "over" /\ (c = "report" \/ c = "sync")
  BY <1>2, CallIs DEF Receives, CallInv, Steps, Stages, Streaming, Listing
<1>4. /\ to \in {"receive", "gate", "send"} /\ (c = "report" => to = "receive")
      /\ c = "sync" => to \in {"gate", "send"}
      /\ handler'[c] = to /\ handler' = [handler EXCEPT ![c] = to]
      /\ \A d \in Call : d # c => handler'[d] = handler[d]
  BY <1>2, <1>3 DEF Receives, GoOn, Goto, TypeOK
<1>5. /\ \A i \in 1 .. Len(up[c]) : up[c][i] = local[c].received + i
      /\ Arrived(c) <= Items /\ (sentAll[c] => Arrived(c) = Items)
      /\ c = "report" => local[c].available =
                           Cardinality(Available \cap (1 .. local[c].received))
  BY <1>2, <1>3 DEF CallInv, Uploads
<1>6. /\ up'[c] = Tail(up[c]) /\ Len(up[c]) >= 1 /\ Head(up[c]) = up[c][1]
      /\ up'[c] \in Seq(0 .. Items)
      /\ Len(up'[c]) = Len(up[c]) - 1
      /\ \A i \in 1 .. Len(up[c]) - 1 : up'[c][i] = up[c][i + 1]
      /\ \A d \in Call : d # c => up'[d] = up[d]
  <2>1. up'[c] = Tail(up[c]) /\ up[c] # <<>>
    BY <1>2 DEF Receives, Queues
  <2>2. \A d \in Call : d # c => up'[d] = up[d]
    BY <1>2 DEF Receives, Queues
  <2>3. up[c] \in Seq(0 .. Items)
    BY <1>2
  <2>4. /\ Len(up[c]) >= 1 /\ Head(up[c]) = up[c][1]
        /\ Tail(up[c]) \in Seq(0 .. Items) /\ Len(Tail(up[c])) = Len(up[c]) - 1
        /\ \A i \in 1 .. Len(up[c]) - 1 : Tail(up[c])[i] = up[c][i + 1]
    BY <2>1, <2>3, TailFacts
  <2> QED
    BY <2>1, <2>2, <2>4
<1>7. Head(up[c]) = local[c].received + 1 /\ local[c].received + 1 \in 1 .. Items
  <2>1. up[c][1] = local[c].received + 1
    <3>1. 1 \in 1 .. Len(up[c])
      BY <1>2, <1>6
    <3> QED
      BY <1>5, <3>1
  <2>2. local[c].received + Len(up[c]) <= Items
    BY <1>5 DEF Arrived
  <2>3. local[c].received + 1 \in 1 .. Items
    BY <1>2, <1>6, <2>2, TakeShift
  <2> QED
    BY <1>6, <2>1, <2>3
<1>8. /\ local'[c].received = local[c].received + 1
      /\ local'[c].sent = local[c].sent
      /\ c = "sync" => local'[c].item = local[c].received + 1
      /\ c = "report" =>
           local'[c].available =
             local[c].available + (IF local[c].received + 1 \in Available THEN 1 ELSE 0)
      /\ local'[c] = Kept(c, local[c].received + 1)
      /\ \A d \in Call : d # c => local'[d] = local[d]
  <2>1. /\ local'[c] = Kept(c, local[c].received + 1)
        /\ \A d \in Call : d # c => local'[d] = local[d]
    BY <1>2, <1>7 DEF Receives, TypeOK
  <2>2. local[c] \in [item : 0 .. Items, received : 0 .. Items,
                      available : 0 .. Cardinality(Available), sent : 0 .. Items]
    BY <1>2 DEF TypeOK
  <2>3. CASE c = "report"
    BY <2>1, <2>2, <2>3 DEF Kept
  <2>4. CASE c # "report"
    BY <2>1, <2>2, <2>4 DEF Kept
  <2> QED
    BY <2>1, <2>3, <2>4
<1>9. c = "report" =>
        /\ local'[c].available =
             Cardinality(Available \cap (1 .. local[c].received + 1))
        /\ local'[c].available \in 0 .. Cardinality(Available)
  <2> SUFFICES ASSUME c = "report"
               PROVE  /\ local'[c].available =
                           Cardinality(Available \cap (1 .. local[c].received + 1))
                      /\ local'[c].available \in 0 .. Cardinality(Available)
    OBVIOUS
  <2>1. local'[c].available =
          Cardinality(Available \cap (1 .. local[c].received))
            + (IF local[c].received + 1 \in Available THEN 1 ELSE 0)
    BY <1>5, <1>8
  <2>2. local[c].received + 1 \in Nat /\ local[c].received \in Nat
    BY <1>2
  <2>3. Cardinality(Available \cap (1 .. local[c].received + 1)) =
          Cardinality(Available \cap (1 .. local[c].received))
            + (IF local[c].received + 1 \in Available THEN 1 ELSE 0)
    BY <2>2, StockFacts
  <2>4. Cardinality(Available \cap (1 .. local[c].received + 1))
          \in 0 .. Cardinality(Available)
    BY <2>2, StockFacts
  <2> QED
    BY <2>1, <2>3, <2>4
<1>10. Elsewhere(c)
  BY <1>1, <1>4, <1>6, <1>8 DEF Elsewhere
<1>11. TypeOK'
  <2> DEFINE Variables == [item : 0 .. Items, received : 0 .. Items,
                           available : 0 .. Cardinality(Available), sent : 0 .. Items]
  <2>1. local \in [Call -> Variables]
    BY <1>2 DEF TypeOK
  <2>2. Kept(c, local[c].received + 1) \in Variables
    <3>1. local[c] \in Variables /\ local[c].received + 1 \in 0 .. Items
      BY <1>7, <2>1, StockFacts
    <3>2. CASE c = "report"
      BY <1>8, <1>9, <3>1, <3>2 DEF Kept
    <3>3. CASE c # "report"
      BY <3>1, <3>3 DEF Kept
    <3> QED
      BY <3>2, <3>3
  <2> HIDE DEF Variables
  <2>3. local' \in [Call -> Variables]
    BY <1>7, <2>1, <2>2 DEF Receives
  <2>4. handler' \in [Call -> {"none", "slow", "look", "request", "check", "send", "gate",
                               "receive", "gone"}]
    BY <1>2, <1>4 DEF TypeOK
  <2> QED
    BY <1>1, <1>2, <2>3, <2>4 DEF TypeOK, Variables
<1>12. Queues'
  <2>1. up' \in [Call -> Seq(0 .. Items)]
    BY <1>2, <1>6 DEF Receives, Queues
  <2> QED
    BY <1>1, <1>2, <2>1 DEF Queues
<1>13. Arrived(c)' = Arrived(c)
  <2>1. local[c].received + 1 + (Len(up[c]) - 1) = local[c].received + Len(up[c])
    BY <1>2, <1>6, TakeShift
  <2> QED
    BY <1>6, <1>8, <2>1 DEF Arrived
<1>14. CallInv(c)'
  <2>1. Steps(c)'
    BY <1>3, <1>4 DEF Steps, Listing
  <2>2. Stages(c)'
    BY <1>1, <1>2, <1>3, <1>4 DEF CallInv, Stages
  <2>3. Deserved' = Deserved /\ Whole(c)' = Whole(c) /\ Single(c)' = Single(c)
    BY <1>1 DEF Deserved, Whole, Single, InStock, Listed
  <2>4. Reasons(c)'
    BY <1>1, <1>2, <2>3 DEF CallInv, Reasons
  <2>5. Checks(c)'
    BY <1>3 DEF Checks, Streaming
  <2>6. Uploads(c)'
    <3>1. \A i \in 1 .. Len(up'[c]) : up'[c][i] = local'[c].received + i
      <4> SUFFICES ASSUME NEW i \in 1 .. Len(up'[c])
                   PROVE  up'[c][i] = local'[c].received + i
        OBVIOUS
      <4>1. i \in 1 .. Len(up[c]) - 1 /\ i + 1 \in 1 .. Len(up[c])
        BY <1>2, <1>6
      <4>2. up'[c][i] = local[c].received + (i + 1)
        BY <1>5, <1>6, <4>1
      <4>3. local[c].received + (i + 1) = local[c].received + 1 + i
        BY <1>2, <4>1
      <4> QED
        BY <1>8, <4>2, <4>3
    <3> QED
      BY <1>1, <1>5, <1>8, <1>9, <1>13, <3>1 DEF Uploads
  <2>7. Answers(c)'
    <3>1. Carried(c)' = Carried(c) /\ c \notin Listing
      BY <1>1, <1>3 DEF Carried, Streaming, Listing
    <3>2. c = "sync" => local'[c].received = local'[c].sent + 1
      BY <1>2, <1>3, <1>8 DEF CallInv, Answers, InOrder
    <3>3. c = "sync" => handler'[c] \in {"gate", "send"}
      BY <1>4
    <3> QED
      BY <1>1, <1>2, <1>3, <1>8, <3>1, <3>2, <3>3 DEF CallInv, Answers
  <2>8. Completes(c)'
    BY <1>1, <1>2, <1>3, <2>3 DEF CallInv, Completes
  <2>9. Ends(c)'
    BY <1>1, <1>2, <2>3 DEF CallInv, Ends, Grounds
  <2> QED
    BY <2>1, <2>2, <2>4, <2>5, <2>6, <2>7, <2>8, <2>9 DEF CallInv
<1> QED
  BY <1>1, <1>3, <1>10, <1>11, <1>12, <1>13, <1>14, ServerKeeps

\* A handler whose context has ended returns its error.
LEMMA DeadKeeps ==
  ASSUME IInv, NEW c \in Call, handler[c] \notin {"none", "gone"}, Dead(c),
         Return(c, <<>>, context[c]), UNCHANGED Aside
  PROVE  IInv'
<1>1. CallInv(c) /\ TypeOK
  BY DEF IInv
<1>2. /\ context[c] \in {"DeadlineExceeded", "Canceled"}
      /\ context[c] = "DeadlineExceeded" => Budget(c) \in expired
  BY <1>1 DEF CallInv, Stages, Reasons, Dead, TypeOK
<1>3. MayReturn(c, <<>>, context[c])
  BY <1>2 DEF MayReturn, Justified, Carried, Status
<1> QED
  BY <1>3, ReturnKeeps

LEMMA BeginKeeps ==
  ASSUME IInv, NEW c \in Call, Begin(c)
  PROVE  IInv'
<1>1. handler[c] = "none" /\ context[c] # "none" /\ UNCHANGED Aside
  BY DEF Begin, At
<1>2. TypeOK
  BY DEF IInv
<1>3. CASE c \in {"list", "first"} /\ GoOn(c, "request") /\ UNCHANGED <<up, down, local>>
  <2>1. MayGoOn(c, "request")
    BY <1>1, <1>3 DEF MayGoOn, Listing
  <2> QED
    BY <1>1, <1>3, <2>1, StepKeeps DEF RequestTaken
<1>4. CASE c \in {"report", "sync"} /\ GoOn(c, "receive") /\ UNCHANGED <<up, down, local>>
  <2>1. MayGoOn(c, "receive")
    BY <1>1, <1>4 DEF MayGoOn, Listing
  <2> QED
    BY <1>1, <1>4, <2>1, StepKeeps DEF RequestTaken
<1>5. CASE c = "check" /\ ~Authenticated /\ Return(c, <<>>, "Unauthenticated")
  <2>1. MayReturn(c, <<>>, "Unauthenticated")
    BY <1>1, <1>2, <1>5 DEF MayReturn, Justified, Deserved, Authenticated, TypeOK, Status
  <2> QED
    BY <1>1, <1>5, <2>1, ReturnKeeps
<1>6. CASE /\ c = "check" /\ Authenticated /\ product = ""
           /\ Return(c, <<>>, "InvalidArgument")
  <2>1. MayReturn(c, <<>>, "InvalidArgument")
    BY <1>1, <1>6 DEF MayReturn, Justified, Deserved, Authenticated, Status
  <2> QED
    BY <1>1, <1>6, <2>1, ReturnKeeps
<1>7. CASE /\ c = "check" /\ Authenticated /\ product # ""
           /\ GoOn(c, IF product = "slow-item" THEN "slow" ELSE "look")
           /\ up' = [up EXCEPT ![c] = <<>>] /\ UNCHANGED <<down, local>>
  <2>0. RequestTaken(c)
    BY <1>7 DEF RequestTaken, Streaming
  <2>1. CASE product = "slow-item"
    <3>1. MayGoOn(c, "slow") /\ GoOn(c, "slow")
      BY <1>1, <1>7, <2>1 DEF MayGoOn, Listing, Authenticated
    <3> QED
      BY <1>1, <1>7, <2>0, <3>1, StepKeeps
  <2>2. CASE product # "slow-item"
    <3>1. MayGoOn(c, "look") /\ GoOn(c, "look")
      BY <1>1, <1>7, <2>2 DEF MayGoOn, Listing, Authenticated
    <3> QED
      BY <1>1, <1>7, <2>0, <3>1, StepKeeps
  <2> QED
    BY <2>1, <2>2
<1> QED
  BY <1>3, <1>4, <1>5, <1>6, <1>7 DEF Begin

LEMMA CheckKeeps ==
  ASSUME IInv, NEW c \in Call, SlowOperation(c) \/ LookUp(c)
  PROVE  IInv'
<1>1. /\ handler[c] \in {"slow", "look"} /\ c = "check" /\ UNCHANGED Aside
      /\ CallInv(c) /\ TypeOK /\ context[c] # "none"
  BY CallIs DEF SlowOperation, LookUp, At, IInv, CallInv, Steps, Stages, Listing
<1>2. /\ token = "valid" /\ product # ""
      /\ handler[c] = "slow" => product = "slow-item"
      /\ handler[c] = "look" /\ product = "slow-item" => Dead(c)
  BY <1>1 DEF CallInv, Checks
<1>3. CASE Dead(c) /\ Return(c, <<>>, context[c])
  BY <1>1, <1>3, DeadKeeps
<1>4. CASE handler[c] = "slow" /\ Dead(c) /\ GoOn(c, "look") /\ UNCHANGED <<up, down, local>>
  <2>1. MayGoOn(c, "look") /\ RequestTaken(c)
    BY <1>1, <1>2, <1>4 DEF MayGoOn, RequestTaken, Listing
  <2> QED
    BY <1>1, <1>4, <2>1, StepKeeps
<1>5. CASE product \in {"keyboard", "monitor"} /\ Return(c, <<InStock(product)>>, "OK")
  <2>1. Single(c) = InStock(product) /\ c \notin InOrder /\ c \notin Streaming
    BY <1>1 DEF Single, InOrder, Streaming
  <2>2. MayReturn(c, <<InStock(product)>>, "OK")
    BY <1>1, <1>2, <1>5, <2>1 DEF MayReturn, Justified, Deserved, Status
  <2> QED
    BY <1>1, <1>5, <2>2, ReturnKeeps
<1>6. CASE /\ ~Dead(c) /\ handler[c] = "look" /\ product \notin {"keyboard", "monitor"}
           /\ Return(c, <<>>, "NotFound")
  <2>1. product = "unknown"
    BY <1>1, <1>2, <1>6 DEF TypeOK
  <2>2. MayReturn(c, <<>>, "NotFound")
    BY <1>1, <1>2, <2>1 DEF MayReturn, Justified, Deserved, Status
  <2> QED
    BY <1>1, <1>6, <2>2, ReturnKeeps
<1> QED
  BY <1>3, <1>4, <1>5, <1>6 DEF SlowOperation, LookUp, At

LEMMA ListKeeps ==
  ASSUME IInv, NEW c \in Call, ListRequest(c) \/ ListCheck(c)
  PROVE  IInv'
<1>1. /\ handler[c] \in {"request", "check"} /\ c \in Listing /\ UNCHANGED Aside
      /\ CallInv(c) /\ context[c] # "none" /\ c \notin Streaming /\ c \notin {"check", "sync"}
  BY CallIs DEF ListRequest, ListCheck, At, IInv, CallInv, Steps, Stages, Listing, Streaming
<1>2. CASE Dead(c) /\ Return(c, <<>>, context[c])
  BY <1>1, <1>2, DeadKeeps
<1>3. CASE up' = [up EXCEPT ![c] = <<>>] /\ GoOn(c, "check") /\ UNCHANGED <<down, local>>
  <2>1. MayGoOn(c, "check") /\ RequestTaken(c)
    BY <1>1, <1>3 DEF MayGoOn, RequestTaken, Listing
  <2> QED
    BY <1>1, <1>3, <2>1, StepKeeps
<1>4. CASE GoOn(c, "send") /\ UNCHANGED <<up, down, local>>
  <2>1. MayGoOn(c, "send") /\ RequestTaken(c)
    BY <1>1, <1>4 DEF MayGoOn, RequestTaken, Listing
  <2> QED
    BY <1>1, <1>4, <2>1, StepKeeps
<1> QED
  BY <1>2, <1>3, <1>4 DEF ListRequest, ListCheck

LEMMA AnswerKeeps ==
  ASSUME IInv, NEW c \in Call, SendItem(c) \/ Gate(c)
  PROVE  IInv'
<1>1. /\ handler[c] \in {"send", "gate"} /\ c \in InOrder /\ UNCHANGED Aside
      /\ CallInv(c) /\ context[c] # "none"
      /\ c # "check" /\ c # "report"
      /\ c # "sync" => c \in Listing /\ c \notin Streaming
  <2>1. handler[c] \in {"send", "gate"} /\ UNCHANGED Aside /\ CallInv(c)
    BY DEF SendItem, Gate, At, IInv
  <2>2. c \in {"list", "first", "sync"}
    BY <2>1, CallIs DEF CallInv, Steps
  <2>3. context[c] # "none"
    BY <2>1 DEF CallInv, Stages
  <2> QED
    BY <2>1, <2>2, <2>3 DEF Listing, Streaming, InOrder
<1>2. CASE Dead(c) /\ Return(c, <<>>, context[c])
  BY <1>1, <1>2, DeadKeeps
<1>3. CASE /\ c # "sync" /\ local[c].sent + 1 = Items
           /\ Return(c, <<local[c].sent + 1>>, "OK")
  <2>1. MayReturn(c, <<local[c].sent + 1>>, "OK")
    BY <1>1, <1>3 DEF MayReturn, Justified, Status
  <2> QED
    BY <1>1, <1>3, <2>1, ReturnKeeps
<1>4. CASE SendItem(c) /\ (c = "sync" \/ local[c].sent + 1 < Items)
           /\ \E to \in {"receive", "gate", "check"} : Sends(c, to)
  <2>1. PICK to \in {"receive", "gate", "check"} : Sends(c, to)
    BY <1>4
  <2> QED
    BY <1>1, <2>1, SendKeeps
<1>5. CASE handler[c] = "gate" /\ GoOn(c, "send") /\ c = "sync" /\ UNCHANGED <<up, down, local>>
  <2>1. MayGoOn(c, "send") /\ RequestTaken(c)
    BY <1>1, <1>5 DEF MayGoOn, RequestTaken, Listing
  <2> QED
    BY <1>1, <1>5, <2>1, StepKeeps
<1>6. CASE handler[c] = "gate" /\ GoOn(c, "check") /\ c # "sync" /\ UNCHANGED <<up, down, local>>
  <2>1. MayGoOn(c, "check") /\ RequestTaken(c)
    BY <1>1, <1>6 DEF MayGoOn, RequestTaken, Listing
  <2> QED
    BY <1>1, <1>6, <2>1, StepKeeps
<1>7. CASE SendItem(c)
  <2>1. handler[c] = "send"
    BY <1>7 DEF SendItem, At
  <2>2. CASE c # "sync" /\ local[c].sent + 1 = Items
             /\ Return(c, <<local[c].sent + 1>>, "OK")
    BY <1>3, <2>2
  <2>3. ASSUME /\ c = "sync" \/ local[c].sent + 1 < Items
               /\ down' = IF Carried(c)
                          THEN [down EXCEPT ![c] = Append(@, IF c = "sync" THEN local[c].item
                                                             ELSE local[c].sent + 1)]
                          ELSE down
               /\ local' = [local EXCEPT ![c].sent = local[c].sent + 1, ![c].item = 0]
               /\ UNCHANGED up
               /\ GoOn(c, CASE c = "sync" -> "receive"
                            [] c # "sync" /\ local[c].sent + 1 = 1 /\ gate # "nil" -> "gate"
                            [] OTHER -> "check")
        PROVE  \E to \in {"receive", "gate", "check"} : Sends(c, to)
    <3>1. CASE c = "sync"
      <4>1. GoOn(c, "receive")
        BY <2>3, <3>1
      <4> QED
        BY <2>1, <2>3, <3>1, <4>1 DEF Sends
    <3>2. CASE c # "sync" /\ local[c].sent + 1 = 1 /\ gate # "nil"
      <4>1. GoOn(c, "gate")
        BY <2>3, <3>2
      <4> QED
        BY <2>1, <2>3, <3>2, <4>1 DEF Sends
    <3>3. CASE c # "sync" /\ ~(local[c].sent + 1 = 1 /\ gate # "nil")
      <4>1. GoOn(c, "check")
        BY <2>3, <3>3
      <4> QED
        BY <2>1, <2>3, <3>3, <4>1 DEF Sends
    <3> QED
      BY <3>1, <3>2, <3>3
  <2> QED
    BY <1>2, <1>4, <1>7, <2>2, <2>3 DEF SendItem
<1>8. CASE Gate(c)
  BY <1>2, <1>5, <1>6, <1>8 DEF Gate, At
<1> QED
  BY <1>7, <1>8

LEMMA UploadKeeps ==
  ASSUME IInv, NEW c \in Call,
         ReportEnd(c) \/ SyncEnd(c) \/ ReceiveItem(c) \/ ReceiveFails(c)
  PROVE  IInv'
<1>1. /\ handler[c] = "receive" /\ c \in Streaming /\ UNCHANGED Aside
      /\ CallInv(c) /\ context[c] # "none" /\ (c = "report" \/ c = "sync")
  BY CallIs DEF ReportEnd, SyncEnd, ReceiveItem, ReceiveFails, At, IInv, CallInv, Steps,
                Stages, Listing, Streaming
<1>2. CASE Dead(c) /\ Return(c, <<>>, context[c])
  BY <1>1, <1>2, DeadKeeps
<1>3. up[c] = <<>> /\ sentAll[c] => local[c].received = Items
  <2>1. Len(up[c]) = 0 /\ Arrived(c) = Items => local[c].received = Items
    BY CallTypes DEF Arrived
  <2> QED
    BY <1>1, <2>1 DEF CallInv, Uploads
<1>4. CASE ReportEnd(c)
  <2>1. c = "report" /\ sentAll[c] /\ local[c].received = Items
    BY <1>3, <1>4 DEF ReportEnd
  <2>2. local[c].available = Cardinality(Available)
    BY <1>1, <2>1, StockFacts DEF CallInv, Uploads
  <2>3. ReportOf(c) = Single(c)
    BY <2>1, <2>2 DEF ReportOf, Single
  <2>4. MayReturn(c, <<ReportOf(c)>>, "OK")
    BY <1>1, <2>1, <2>3 DEF MayReturn, Justified, InOrder, Status
  <2> QED
    BY <1>1, <1>2, <1>4, <2>4, ReturnKeeps DEF ReportEnd
<1>5. CASE SyncEnd(c)
  <2>1. c = "sync" /\ sentAll[c] /\ local[c].received = Items
    BY <1>3, <1>5 DEF SyncEnd
  <2>2. local[c].sent = Items
    <3>1. local[c].received = local[c].sent + 0 /\ local[c].sent \in Nat
      BY <1>1, <2>1, CallTypes DEF CallInv, Answers, InOrder
    <3> QED
      BY <2>1, <3>1
  <2>3. MayReturn(c, <<>>, "OK")
    BY <1>1, <2>1, <2>2 DEF MayReturn, Justified, Status
  <2> QED
    BY <1>1, <1>5, <2>3, ReturnKeeps DEF SyncEnd
<1>6. CASE ReceiveItem(c)
  <2>1. local[c] \in [item : 0 .. Items, received : 0 .. Items,
                      available : 0 .. Cardinality(Available), sent : 0 .. Items]
        /\ local \in [Call -> [item : 0 .. Items, received : 0 .. Items,
                               available : 0 .. Cardinality(Available), sent : 0 .. Items]]
        /\ up \in [Call -> Seq(0 .. Items)]
    BY DEF IInv, TypeOK, Queues
  <2>2. up' = [up EXCEPT ![c] = Tail(up[c])] /\ up[c] # <<>> /\ UNCHANGED down
    BY <1>6, <2>1 DEF ReceiveItem
  <2>3. CASE c = "report"
    <3>1. local' = [local EXCEPT ![c] = Kept(c, Head(up[c]))]
      BY <1>6, <2>1, <2>3 DEF ReceiveItem, Kept
    <3>2. Receives(c, "receive")
      BY <1>1, <1>6, <2>2, <2>3, <3>1 DEF Receives, ReceiveItem
    <3> QED
      BY <1>1, <3>2, ReceiveKeeps
  <2>4. CASE c = "sync"
    <3>1. local' = [local EXCEPT ![c] = Kept(c, Head(up[c]))]
      BY <1>6, <2>1, <2>4 DEF ReceiveItem, Kept
    <3>2. CASE gate = "nil"
      <4>1. Receives(c, "send")
        BY <1>1, <1>6, <2>2, <2>4, <3>1, <3>2 DEF Receives, ReceiveItem
      <4> QED
        BY <1>1, <4>1, ReceiveKeeps
    <3>3. CASE gate # "nil"
      <4>1. Receives(c, "gate")
        BY <1>1, <1>6, <2>2, <2>4, <3>1, <3>3 DEF Receives, ReceiveItem
      <4> QED
        BY <1>1, <4>1, ReceiveKeeps
    <3> QED
      BY <3>2, <3>3
  <2> QED
    BY <1>1, <2>3, <2>4
<1> QED
  BY <1>2, <1>4, <1>5, <1>6 DEF ReceiveFails

\* Every step of a handler.
LEMMA HandlerKeeps ==
  ASSUME IInv, NEW c \in Call, Handler(c)
  PROVE  IInv'
BY BeginKeeps, CheckKeeps, ListKeeps, AnswerKeeps, UploadKeeps DEF Handler

-----------------------------------------------------------------------------
(* The client.                                                             *)

\* What the client may leave a call with.
MayLeave(c, r, answer) ==
  /\ r \in Status \cup {"ok", "EOF"} /\ answer \in Seq(Message)
  /\ context[c] = "none" => answer = <<>>
  /\ c \in InOrder =>
       /\ Len(answer) <= Len(got[c]) + Len(down[c])
       /\ \A i \in 1 .. Len(answer) : answer[i] = i
  /\ c \notin InOrder /\ handler[c] # "gone" => answer = <<>>
  /\ r = "ok" => answer = Whole(c) /\ (c = "check" => Deserved = "ok")
  /\ r # "ok" => Grounds(c, r)'

\* Neither end has gone on, but a connection may have failed.
OnlyClient ==
  /\ UNCHANGED <<inputVars, expired, up, sentAll, context, serverVars>>
  /\ breaks' \in 0 .. MaxBreaks /\ breaks <= breaks'

LEMMA LeaveKeeps ==
  ASSUME IInv, NEW c \in Call, at <= Len(calls), Current = c, NEW r, NEW answer,
         MayLeave(c, r, answer), Leave(r), got' = [got EXCEPT ![c] = answer], OnlyClient
  PROVE  IInv'
<1>1. /\ UNCHANGED <<calls, token, product, gate, expired, up, sentAll, context, handler>>
      /\ UNCHANGED local /\ breaks' \in 0 .. MaxBreaks /\ breaks <= breaks'
  BY DEF OnlyClient, inputVars, serverVars
<1>2. /\ CallInv(c) /\ TypeOK /\ Queues /\ breaks \in Nat
      /\ Len(got[c]) \in Nat /\ Len(down[c]) \in Nat /\ local[c].sent \in Nat
  BY CallTypes DEF IInv
<1>3. /\ r \in Status \cup {"ok", "EOF"} /\ answer \in Seq(Message) /\ r # "none"
      /\ Len(answer) \in Nat
  BY DEF MayLeave, Status
<1>4. /\ outcome' = [outcome EXCEPT ![c] = r] /\ down' = [down EXCEPT ![c] = <<>>]
      /\ trailer' = [trailer EXCEPT ![c] = "none"]
      /\ at' = at + 1 /\ doing' = "open" /\ next' = 1
  BY DEF Leave
<1>5. /\ outcome'[c] = r /\ down'[c] = <<>> /\ trailer'[c] = "none" /\ got'[c] = answer
      /\ \A d \in Call : d # c =>
           /\ outcome'[d] = outcome[d] /\ down'[d] = down[d]
           /\ trailer'[d] = trailer[d] /\ got'[d] = got[d]
  BY <1>2, <1>4 DEF TypeOK, Queues
<1>6. Elsewhere(c)
  BY <1>1, <1>5 DEF Elsewhere
<1>7. /\ Len(calls) \in Nat /\ at \in Nat /\ at >= 1
      /\ \A i \in 1 .. Len(calls) : calls[i] \in Call
      /\ \A i, j \in 1 .. Len(calls) : i # j => calls[i] # calls[j]
  BY <1>2, CallsDiffer
<1>8. TypeOK'
  <2>1. at' \in 1 .. Len(calls) + 1
    BY <1>4, <1>7
  <2>2. next' \in 1 .. Items + 1
    BY <1>4, StockFacts
  <2>3. /\ outcome' \in [Call -> Status \cup {"none", "ok", "EOF"}]
        /\ trailer' \in [Call -> Status \cup {"none"}]
    BY <1>2, <1>3, <1>4 DEF TypeOK
  <2> QED
    BY <1>1, <1>2, <1>4, <2>1, <2>2, <2>3 DEF TypeOK
<1>9. Queues'
  BY <1>1, <1>2, <1>3, <1>4, EmptySeq DEF Queues
<1>10. CallInv(c)'
  <2>1. Steps(c)'
    BY <1>1, <1>2 DEF CallInv, Steps
  <2>2. Stages(c)'
    BY <1>1, <1>2, <1>5 DEF CallInv, Stages, MayLeave
  <2>3. Deserved' = Deserved /\ Whole(c)' = Whole(c) /\ Single(c)' = Single(c)
    BY <1>1 DEF Deserved, Whole, Single, InStock, Listed
  <2>4. Reasons(c)'
    BY <1>1, <1>2, <1>5 DEF CallInv, Reasons
  <2>5. Checks(c)'
    BY <1>1, <1>2 DEF CallInv, Checks, Dead
  <2>6. Uploads(c)'
    BY <1>1, <1>2 DEF CallInv, Uploads, Arrived
  <2>7. Answers(c)'
    <3> SUFFICES ASSUME c \in InOrder PROVE Answers(c)'
      BY DEF Answers
    <3>1. /\ Len(answer) <= Len(got[c]) + Len(down[c])
          /\ \A i \in 1 .. Len(answer) : answer[i] = i
      BY DEF MayLeave
    <3>2. ~Carried(c)'
      BY <1>3, <1>5 DEF Carried
    <3>3. handler[c] # "gone" => Len(got'[c]) + Len(down'[c]) <= local[c].sent
      <4> SUFFICES ASSUME handler[c] # "gone"
                   PROVE  Len(got'[c]) + Len(down'[c]) <= local[c].sent
        OBVIOUS
      <4>1. Len(got[c]) + Len(down[c]) <= local[c].sent
        BY <1>2 DEF CallInv, Answers
      <4>2. Len(answer) <= local[c].sent
        BY <1>2, <1>3, <3>1, <4>1, SumBounds
      <4>3. Len(got'[c]) = Len(answer) /\ Len(down'[c]) = 0
        BY <1>5
      <4>4. Len(answer) + 0 = Len(answer)
        BY <1>3
      <4> QED
        BY <4>2, <4>3, <4>4
    <3>4. \A i \in 1 .. Len(down'[c]) : down'[c][i] = Len(got'[c]) + i
      BY <1>5
    <3> QED
      BY <1>1, <1>2, <1>5, <3>1, <3>2, <3>3, <3>4 DEF CallInv, Answers
  <2>8. Completes(c)'
    BY <1>1, <1>5, <2>3 DEF Completes, MayLeave
  <2>9. Ends(c)'
    <3>1. r # "ok" => Grounds(c, outcome[c])'
      BY <1>5 DEF MayLeave, Grounds
    <3>2. r = "ok" => got'[c] = Whole(c)' /\ (c = "check" => Deserved' = "ok")
      BY <1>5, <2>3 DEF MayLeave
    <3> QED
      BY <1>5, <3>1, <3>2 DEF Ends
  <2> QED
    BY <2>1, <2>2, <2>4, <2>5, <2>6, <2>7, <2>8, <2>9 DEF CallInv
<1>11. (\A d \in Call : CallInv(d))'
  <2>1. breaks' \in Nat
    BY <1>1, InventoryAssumption
  <2> QED
    BY <1>1, <1>6, <1>10, <2>1, Others
\* The call behind the one that is left has not begun.
<1>12. ASSUME NEW i \in at + 1 .. Len(calls)
       PROVE  /\ calls[i] \in Call /\ calls[i] # c /\ outcome'[calls[i]] = "none"
              /\ context'[calls[i]] = "none" /\ got'[calls[i]] = <<>>
  <2>1. /\ i \in 1 .. Len(calls) /\ at \in 1 .. Len(calls) /\ i # at
        /\ i \in at .. Len(calls) /\ i > at
    BY <1>7
  <2>2. calls[i] \in Call /\ calls[i] # c
    BY <1>7, <2>1 DEF Current
  <2>3. outcome[calls[i]] = "none" /\ context[calls[i]] = "none"
    BY <2>1 DEF IInv, Ahead
  <2>4. got[calls[i]] = <<>>
    BY <2>2, <2>3 DEF IInv, CallInv, Stages
  <2> QED
    BY <1>1, <1>5, <2>2, <2>3, <2>4
<1>13. Ahead'
  BY <1>1, <1>4, <1>12 DEF Ahead
<1>14. Sending'
  <2>1. at' <= Len(calls') => at + 1 \in at + 1 .. Len(calls)
    BY <1>1, <1>4, <1>7
  <2>2. Current' = calls[at + 1]
    BY <1>1, <1>4 DEF Current
  <2>3. at' <= Len(calls') => got'[Current'] = <<>>
    BY <1>12, <2>1, <2>2
  <2>4. Len(<<>>) < Limit
    BY InventoryAssumption
  <2>5. at' <= Len(calls') /\ Current' = "first" => Len(got'["first"]) < Limit
    BY <2>3, <2>4
  <2>6. doing' = "open" /\ next' = 1
    BY <1>4
  <2> QED
    BY <2>5, <2>6 DEF Sending, Calling
<1> QED
  BY <1>8, <1>9, <1>11, <1>13, <1>14 DEF IInv

\* A call that failed.
LEMMA FailKeeps ==
  ASSUME IInv, NEW c \in Call, at <= Len(calls), Current = c,
         NEW r \in Status \cup {"EOF"}, Grounds(c, r)', Fail(r), OnlyClient
  PROVE  IInv'
<1>1. MayLeave(c, r, <<>>)
  <2>1. Len(<<>>) = 0 /\ <<>> \in Seq(Message)
    BY EmptySeq
  <2>2. 0 <= Len(got[c]) + Len(down[c])
    <3>1. Len(got[c]) \in Nat /\ Len(down[c]) \in Nat
      BY CallTypes
    <3> QED
      BY <3>1, SumNatural
  <2>3. r # "ok" /\ r \in Status \cup {"ok", "EOF"}
    BY DEF Status
  <2>4. \A i \in 1 .. Len(<<>>) : <<>>[i] = i
    BY <2>1
  <2> QED
    BY <2>1, <2>2, <2>3, <2>4 DEF MayLeave
<1>2. Leave(r) /\ got' = [got EXCEPT ![c] = <<>>]
  BY DEF Fail
<1> QED
  BY <1>1, <1>2, LeaveKeeps

\* No stream, or an error on it.
LEMMA ErrorKeeps ==
  ASSUME IInv, OpenFails \/ SendFails
  PROVE  IInv'
<1>1. PICK c \in Call : Current = c
  BY CallsDiffer DEF OpenFails, SendFails, Calling, IInv
<1>2. /\ at <= Len(calls) /\ breaks \in 0 .. MaxBreaks /\ breaks \in Nat /\ MaxBreaks \in Nat
      /\ CallInv(c) /\ UNCHANGED <<inputVars, expired, up, sentAll, context, serverVars>>
  BY CallTypes, InventoryAssumption DEF OpenFails, SendFails, Calling, IInv, TypeOK
<1>3. CASE Late /\ Fail("DeadlineExceeded") /\ UNCHANGED breaks
  <2>1. Budget(c) \in expired' /\ "DeadlineExceeded" \in Status \cup {"EOF"}
    BY <1>1, <1>2, <1>3 DEF Late, Status
  <2>2. Grounds(c, "DeadlineExceeded")'
    BY <2>1 DEF Grounds, Budget
  <2>3. OnlyClient
    <3>1. breaks' = breaks
      BY <1>3
    <3>2. breaks' \in 0 .. MaxBreaks /\ breaks <= breaks'
      BY <1>2, <3>1
    <3> QED
      BY <1>2, <3>2 DEF OnlyClient
  <2> QED
    BY <1>1, <1>2, <1>3, <2>1, <2>2, <2>3, FailKeeps
<1>4. CASE MayBreak /\ breaks' = breaks + 1 /\ Fail("Unavailable")
  <2>1. breaks' \in 0 .. MaxBreaks /\ breaks <= breaks' /\ breaks' > 0
    BY <1>2, <1>4 DEF MayBreak
  <2>2. Grounds(c, "Unavailable")' /\ "Unavailable" \in Status \cup {"EOF"}
    BY <2>1 DEF Grounds, Status
  <2>3. OnlyClient
    BY <1>2, <2>1 DEF OnlyClient
  <2> QED
    BY <1>1, <1>2, <1>4, <2>2, <2>3, FailKeeps
<1>5. CASE Calling("send") /\ trailer[c] # "none" /\ Fail("EOF") /\ UNCHANGED breaks
  <2>1. c \in Streaming /\ trailer[c] # "OK"
    BY <1>1, <1>5 DEF IInv, Sending
  <2>2. Budget(c) \in expired \/ breaks > 0
    BY <1>2, <1>5, <2>1 DEF CallInv, Reasons, Streaming
  <2>3. expired' = expired /\ breaks' = breaks
    BY <1>2, <1>5
  <2>4. Grounds(c, "EOF")'
    <3>1. Budget(c) \in expired' \/ breaks' > 0
      BY <2>2, <2>3
    <3> QED
      BY <3>1 DEF Grounds, Budget
  <2>5. OnlyClient
    <3>1. breaks' \in 0 .. MaxBreaks /\ breaks <= breaks'
      BY <1>2, <2>3
    <3> QED
      BY <1>2, <3>1 DEF OnlyClient
  <2> QED
    BY <1>1, <1>2, <1>5, <2>4, <2>5, FailKeeps
<1> QED
  BY <1>1, <1>3, <1>4, <1>5 DEF OpenFails, SendFails

\* A list that holds its first n items is the list of them.
LEMMA ListedIs ==
  ASSUME NEW n \in Nat, NEW s \in Seq(Message), Len(s) = n, \A i \in 1 .. n : s[i] = i
  PROVE  s = Listed(n)
<1>1. s = [i \in 1 .. Len(s) |-> s[i]]
  OBVIOUS
<1> QED
  BY <1>1 DEF Listed

\* The end of the stream, with its status, or the deadline.
LEMMA EndKeeps ==
  ASSUME IInv, RecvEnd
  PROVE  IInv'
<1>1. PICK c \in Call : Current = c
  BY CallsDiffer DEF RecvEnd, Calling, IInv
<1>2. /\ at <= Len(calls) /\ breaks \in Nat /\ CallInv(c)
      /\ UNCHANGED <<inputVars, expired, up, sentAll, context, serverVars>>
      /\ breaks' = breaks /\ expired' = expired /\ got[c] \in Seq(Message)
      /\ Len(got[c]) \in Nat /\ Len(down[c]) \in Nat
  BY CallTypes DEF RecvEnd, Calling, IInv
<1>3. OnlyClient
  <2>1. breaks \in 0 .. MaxBreaks
    BY DEF IInv, TypeOK
  <2>2. breaks' \in 0 .. MaxBreaks /\ breaks <= breaks'
    BY <1>2, <2>1
  <2> QED
    BY <1>2, <2>2 DEF OnlyClient
<1>4. CASE Late /\ Fail("DeadlineExceeded")
  <2>1. Budget(c) \in expired' /\ "DeadlineExceeded" \in Status \cup {"EOF"}
    BY <1>1, <1>2, <1>4 DEF Late, Status
  <2>2. Grounds(c, "DeadlineExceeded")'
    BY <2>1 DEF Grounds, Budget
  <2> QED
    BY <1>1, <1>2, <1>3, <1>4, <2>1, <2>2, FailKeeps
<1>5. CASE trailer[c] \notin {"none", "OK"} /\ Fail(trailer[c])
  <2>1. PICK r : r = trailer[c]
    OBVIOUS
  <2>2. r \in Status \cup {"EOF"}
    BY <1>5, <2>1 DEF IInv, TypeOK
  <2>3. \/ r = "DeadlineExceeded" /\ Budget(c) \in expired
        \/ r = "Unavailable" /\ breaks > 0
        \/ c = "check" /\ r = Deserved
    BY <1>2, <1>5, <2>1 DEF CallInv, Reasons
  <2>4. Budget(c)' = Budget(c) /\ Deserved' = Deserved
    BY <1>2 DEF Deserved, Budget, inputVars
  <2>5. Grounds(c, r)'
    BY <1>2, <2>3, <2>4 DEF Grounds
  <2>6. Fail(r)
    BY <1>5, <2>1
  <2> QED
    BY <1>1, <1>2, <1>3, <2>2, <2>5, <2>6, FailKeeps
<1>6. CASE down[c] = <<>> /\ trailer[c] = "OK" /\ Leave("ok") /\ UNCHANGED got
  <2>1. PICK answer \in Seq(Message) : answer = got[c]
    BY <1>2
  <2>2. Len(down[c]) = 0 /\ Len(got[c]) + Len(down[c]) = Len(got[c])
    BY <1>2, <1>6
  <2>3. context[c] # "none"
    BY <1>2, <1>6 DEF CallInv, Stages
  <2>4. ASSUME c \in InOrder
        PROVE  /\ answer = Listed(Items) /\ c # "first" /\ c # "check" /\ c # "report"
               /\ \A i \in 1 .. Len(answer) : answer[i] = i
    <3>1. Len(answer) = Items /\ \A i \in 1 .. Len(answer) : answer[i] = i
      BY <1>2, <1>6, <2>1, <2>2, <2>4 DEF CallInv, Completes, Answers
    <3>2. answer = Listed(Items)
      BY <3>1, StockFacts, ListedIs
    <3>3. c # "first"
      <4>1. c = "first" => Len(got[c]) < Limit
        BY <1>1, <1>2 DEF IInv, Sending
      <4>2. Limit <= Items /\ Limit \in Nat /\ Items \in Nat
        BY InventoryAssumption
      <4> QED
        BY <2>1, <3>1, <4>1, <4>2
    <3> QED
      BY <2>4, <3>1, <3>2, <3>3 DEF InOrder
  <2>5. ASSUME c \notin InOrder
        PROVE  answer = <<Single(c)>> /\ handler[c] = "gone"
    <3>1. answer = <<Single(c)>>
      BY <1>2, <1>6, <2>1, <2>5 DEF CallInv, Completes
    <3>2. answer # <<>>
      BY <3>1
    <3> QED
      BY <1>2, <2>1, <2>5, <3>1, <3>2 DEF CallInv, Completes
  <2>6. answer = Whole(c)
    <3>1. CASE c \in InOrder
      BY <2>4, <3>1, CallIs DEF Whole
    <3>2. CASE c \notin InOrder
      <4>1. c = "check" \/ c = "report"
        BY <3>2, CallIs DEF InOrder
      <4> QED
        BY <2>5, <3>2, <4>1 DEF Whole, Single
    <3> QED
      BY <3>1, <3>2
  <2>7. c = "check" => Deserved = "ok"
    BY <1>2, <1>6 DEF CallInv, Completes
  <2>8. Len(answer) <= Len(got[c]) + Len(down[c])
    BY <1>2, <2>1, <2>2
  <2>9. MayLeave(c, "ok", answer)
    BY <2>3, <2>4, <2>5, <2>6, <2>7, <2>8 DEF MayLeave
  <2>10. got' = [got EXCEPT ![c] = answer]
    BY <1>6, <2>1 DEF IInv, Queues
  <2> QED
    BY <1>1, <1>2, <1>3, <1>6, <2>9, <2>10, LeaveKeeps
<1> QED
  BY <1>1, <1>4, <1>5, <1>6 DEF RecvEnd

\* What the client knows of the call it reads: it was opened, it is not over, and
\* one of its messages is the next.
LEMMA NextMessage ==
  ASSUME IInv, NEW c \in Call, at <= Len(calls), Current = c, down[c] # <<>>
  PROVE  /\ context[c] # "none" /\ outcome[c] = "none"
         /\ c \notin InOrder => handler[c] = "gone"
         /\ c \in InOrder =>
              \A i \in 1 .. Len(Append(got[c], Head(down[c]))) :
                Append(got[c], Head(down[c]))[i] = i
         /\ Append(got[c], Head(down[c])) \in Seq(Message)
         /\ Len(Append(got[c], Head(down[c]))) = Len(got[c]) + 1
         /\ Len(down[c]) >= 1 /\ Len(Tail(down[c])) = Len(down[c]) - 1
         /\ Tail(down[c]) \in Seq(Message)
         /\ \A i \in 1 .. Len(down[c]) - 1 : Tail(down[c])[i] = down[c][i + 1]
<1>1. /\ CallInv(c) /\ got[c] \in Seq(Message) /\ down[c] \in Seq(Message)
      /\ Len(got[c]) \in Nat /\ Len(down[c]) \in Nat
  BY CallTypes
<1>2. /\ Len(down[c]) >= 1 /\ Head(down[c]) = down[c][1]
      /\ Tail(down[c]) \in Seq(Message) /\ Len(Tail(down[c])) = Len(down[c]) - 1
      /\ \A i \in 1 .. Len(down[c]) - 1 : Tail(down[c])[i] = down[c][i + 1]
  BY <1>1, TailFacts
<1>3. outcome[c] = "none"
  <2>1. at \in at .. Len(calls)
    BY CallsDiffer DEF IInv
  <2> QED
    BY <2>1 DEF IInv, Ahead, Current
<1>4. c \notin InOrder => handler[c] = "gone"
  BY <1>1 DEF CallInv, Completes
<1>5. Head(down[c]) \in Message
  <2>1. 1 \in 1 .. Len(down[c])
    BY <1>1, <1>2
  <2> QED
    BY <1>1, <1>2, <2>1
<1>6. /\ Append(got[c], Head(down[c])) \in Seq(Message)
      /\ Len(Append(got[c], Head(down[c]))) = Len(got[c]) + 1
      /\ \A i \in 1 .. Len(got[c]) : Append(got[c], Head(down[c]))[i] = got[c][i]
      /\ Append(got[c], Head(down[c]))[Len(got[c]) + 1] = Head(down[c])
  BY <1>1, <1>5
<1>7. ASSUME c \in InOrder, NEW i \in 1 .. Len(got[c]) + 1
      PROVE  Append(got[c], Head(down[c]))[i] = i
  <2>1. CASE i \in 1 .. Len(got[c])
    BY <1>1, <1>6, <1>7, <2>1 DEF CallInv, Answers
  <2>2. CASE i = Len(got[c]) + 1
    <3>1. 1 \in 1 .. Len(down[c])
      BY <1>1, <1>2
    <3>2. down[c][1] = Len(got[c]) + 1
      BY <1>1, <1>7, <3>1 DEF CallInv, Answers
    <3> QED
      BY <1>2, <1>6, <2>2, <3>2
  <2> QED
    BY <1>1, <2>1, <2>2
<1>8. context[c] # "none"
  <2> SUFFICES ASSUME context[c] = "none" PROVE FALSE
    OBVIOUS
  <2>1. handler[c] = "none" /\ local[c].sent = 0
    BY <1>1 DEF CallInv, Stages, Fresh
  <2>2. c \in InOrder
    BY <1>4, <2>1
  <2>3. Len(got[c]) + Len(down[c]) <= 0
    BY <1>1, <2>1, <2>2 DEF CallInv, Answers
  <2>4. \A g, d \in Nat : g + d <= 0 => ~(d >= 1)
    OBVIOUS
  <2> QED
    BY <1>1, <1>2, <2>3, <2>4
<1> QED
  BY <1>2, <1>3, <1>4, <1>6, <1>7, <1>8

\* A response is received.
LEMMA RecvKeeps ==
  ASSUME IInv, Recv
  PROVE  IInv'
<1>1. PICK c \in Call : Current = c
  BY CallsDiffer DEF Recv, Calling, IInv
<1> DEFINE answer == Append(got[c], Head(down[c]))
<1>2. /\ at <= Len(calls) /\ doing = "recv" /\ down[c] # <<>> /\ breaks' = breaks
      /\ UNCHANGED <<inputVars, expired, up, sentAll, context, serverVars>>
      /\ got' = [got EXCEPT ![c] = answer]
  BY <1>1 DEF Recv, Calling, IInv, Queues
<1>3. /\ CallInv(c) /\ TypeOK /\ Queues /\ breaks \in Nat /\ breaks \in 0 .. MaxBreaks
      /\ got[c] \in Seq(Message) /\ down[c] \in Seq(Message)
      /\ Len(got[c]) \in Nat /\ Len(down[c]) \in Nat
  BY CallTypes DEF IInv, TypeOK
<1>4. /\ context[c] # "none" /\ outcome[c] = "none"
      /\ c \notin InOrder => handler[c] = "gone"
      /\ c \in InOrder => \A i \in 1 .. Len(answer) : answer[i] = i
      /\ answer \in Seq(Message) /\ Len(answer) = Len(got[c]) + 1
      /\ Len(down[c]) >= 1 /\ Len(Tail(down[c])) = Len(down[c]) - 1
      /\ Tail(down[c]) \in Seq(Message)
      /\ \A i \in 1 .. Len(down[c]) - 1 : Tail(down[c])[i] = down[c][i + 1]
  BY <1>1, <1>2, NextMessage
<1>5. got'[c] = answer /\ \A d \in Call : d # c => got'[d] = got[d]
  BY <1>2, <1>3 DEF Queues
<1>6. breaks' \in 0 .. MaxBreaks /\ breaks <= breaks' /\ breaks' \in Nat
  BY <1>2, <1>3
\* The items of the answer that was read and of those behind it.
<1>7. /\ Len(answer) + Len(Tail(down[c])) = Len(got[c]) + Len(down[c])
      /\ Len(answer) <= Len(got[c]) + Len(down[c])
      /\ \A i \in 1 .. Len(down[c]) - 1 :
           i + 1 \in 1 .. Len(down[c]) /\ Len(got[c]) + (i + 1) = Len(got[c]) + 1 + i
  <2>1. \A g, d \in Nat : d >= 1 =>
          /\ g + 1 + (d - 1) = g + d /\ g + 1 <= g + d
          /\ \A i \in 1 .. d - 1 : i + 1 \in 1 .. d /\ g + (i + 1) = g + 1 + i
    OBVIOUS
  <2>2. Len(got[c]) + 1 + (Len(down[c]) - 1) = Len(got[c]) + Len(down[c])
    BY <1>3, <1>4, <2>1
  <2>3. Len(got[c]) + 1 <= Len(got[c]) + Len(down[c])
    BY <1>3, <1>4, <2>1
  <2>4. \A i \in 1 .. Len(down[c]) - 1 :
          i + 1 \in 1 .. Len(down[c]) /\ Len(got[c]) + (i + 1) = Len(got[c]) + 1 + i
    BY <1>3, <1>4, <2>1
  <2> HIDE DEF answer
  <2> QED
    BY <1>4, <2>2, <2>3, <2>4
<1> HIDE DEF answer
<1>8. CASE c = "first" /\ Len(got'["first"]) = Limit /\ Leave("ok")
  <2>1. PICK r \in Seq(Message) : r = answer
    BY <1>4
  <2>2. Len(r) = Limit /\ \A i \in 1 .. Limit : r[i] = i
    BY <1>4, <1>5, <1>8, <2>1 DEF InOrder
  <2>3. r = Listed(Limit)
    <3>1. Limit \in Nat
      BY InventoryAssumption
    <3> QED
      BY <2>2, <3>1, ListedIs
  <2>4. r = Whole(c)
    BY <1>8, <2>3 DEF Whole
  <2>5. MayLeave(c, "ok", r)
    BY <1>4, <1>7, <1>8, <2>1, <2>4 DEF MayLeave, InOrder
  <2>6. got' = [got EXCEPT ![c] = r] /\ OnlyClient
    BY <1>2, <1>6, <2>1 DEF OnlyClient
  <2> QED
    BY <1>1, <1>2, <1>8, <2>5, <2>6, LeaveKeeps
<1>9. CASE /\ ~(c = "first" /\ Len(got'["first"]) = Limit)
           /\ down' = [down EXCEPT ![c] = Tail(@)]
           /\ UNCHANGED <<at, doing, next, outcome, trailer>>
  <2>1. /\ UNCHANGED <<calls, token, product, gate, at, doing, next, outcome, trailer>>
        /\ UNCHANGED <<expired, up, sentAll, context, handler, local, breaks>>
    BY <1>2, <1>9 DEF inputVars, serverVars
  <2>2. /\ down'[c] = Tail(down[c]) /\ \A d \in Call : d # c => down'[d] = down[d]
        /\ down' \in [Call -> Seq(Message)]
    BY <1>3, <1>4, <1>9 DEF Queues
  <2>3. Elsewhere(c)
    BY <1>5, <2>1, <2>2 DEF Elsewhere
  <2>4. TypeOK'
    BY <1>3, <2>1 DEF TypeOK
  <2>5. Queues'
    BY <1>2, <1>3, <1>4, <2>1, <2>2 DEF Queues
  <2>6. Len(got'[c]) + Len(down'[c]) = Len(got[c]) + Len(down[c])
    BY <1>5, <1>7, <2>2
  <2>7. CallInv(c)'
    <3>1. Steps(c)'
      BY <1>3, <2>1 DEF CallInv, Steps
    <3>2. Stages(c)'
      BY <1>3, <1>4, <2>1 DEF CallInv, Stages
    <3>3. Deserved' = Deserved /\ Whole(c)' = Whole(c) /\ Single(c)' = Single(c)
      BY <2>1 DEF Deserved, Whole, Single, InStock, Listed
    <3>4. Reasons(c)'
      BY <1>3, <2>1, <3>3 DEF CallInv, Reasons
    <3>5. Checks(c)'
      BY <1>3, <2>1 DEF CallInv, Checks, Dead
    <3>6. Uploads(c)'
      BY <1>3, <2>1 DEF CallInv, Uploads, Arrived
    <3>7. Answers(c)'
      <4> SUFFICES ASSUME c \in InOrder PROVE Answers(c)'
        BY DEF Answers
      <4>1. Carried(c)' = Carried(c)
        BY <2>1 DEF Carried
      <4>2. \A i \in 1 .. Len(down'[c]) : down'[c][i] = Len(got'[c]) + i
        <5> SUFFICES ASSUME NEW i \in 1 .. Len(down[c]) - 1
                     PROVE  Tail(down[c])[i] = Len(got[c]) + 1 + i
          BY <1>4, <1>5, <2>2
        <5>1. Tail(down[c])[i] = down[c][i + 1] /\ i + 1 \in 1 .. Len(down[c])
          BY <1>4, <1>7
        <5>2. down[c][i + 1] = Len(got[c]) + (i + 1)
          BY <1>3, <5>1 DEF CallInv, Answers
        <5> QED
          BY <1>7, <5>1, <5>2
      <4>3. \A i \in 1 .. Len(got'[c]) : got'[c][i] = i
        BY <1>4, <1>5
      <4> QED
        BY <1>3, <2>1, <2>6, <4>1, <4>2, <4>3 DEF CallInv, Answers
    <3>8. Completes(c)'
      <4>1. CASE c \in InOrder
        <5>1. trailer[c] = "OK" => Len(got'[c]) + Len(down'[c]) = Items
          BY <1>3, <2>6, <4>1 DEF CallInv, Completes
        <5>2. c # "check"
          BY <4>1 DEF InOrder
        <5> QED
          BY <2>1, <4>1, <5>1, <5>2 DEF Completes
      <4>2. CASE c \notin InOrder
        <5>1. ASSUME trailer[c] = "OK"
              PROVE  got'[c] = <<Single(c)>> /\ down'[c] = <<>>
          <6>1. got[c] = <<>> /\ down[c] = <<Single(c)>>
            BY <1>2, <1>3, <4>2, <5>1 DEF CallInv, Completes
          <6>2. Head(down[c]) = Single(c) /\ Tail(down[c]) = <<>>
            BY <6>1
          <6>3. answer = <<Single(c)>>
            BY <6>1, <6>2 DEF answer
          <6> QED
            BY <1>5, <2>2, <6>2, <6>3
        <5> QED
          BY <1>3, <1>4, <2>1, <3>3, <4>2, <5>1 DEF CallInv, Completes
      <4> QED
        BY <4>1, <4>2
    <3>9. Ends(c)'
      BY <1>4, <2>1 DEF Ends
    <3> QED
      BY <3>1, <3>2, <3>4, <3>5, <3>6, <3>7, <3>8, <3>9 DEF CallInv
  <2>8. (\A d \in Call : CallInv(d))'
    BY <1>6, <2>1, <2>3, <2>7, Others
  <2>9. Ahead'
    BY <2>1 DEF IInv, Ahead
  <2>10. Sending'
    <3>1. Current' = c /\ ~(Calling("send"))' /\ doing' # "open"
      BY <1>1, <1>2, <2>1 DEF Current, Calling
    <3>2. c = "first" => Len(got'["first"]) < Limit
      <4>1. c = "first" => Len(got[c]) < Limit /\ Len(got'[c]) = Len(got[c]) + 1
        BY <1>1, <1>2, <1>4, <1>5 DEF IInv, Sending
      <4>2. Limit \in Nat
        BY InventoryAssumption
      <4>3. \A g \in Nat : g < Limit /\ g + 1 # Limit => g + 1 < Limit
        BY <4>2
      <4>4. c = "first" => Len(got[c]) + 1 # Limit
        BY <1>9, <4>1
      <4> QED
        BY <1>3, <4>1, <4>3, <4>4
    <3> QED
      BY <3>1, <3>2 DEF Sending
  <2> QED
    BY <2>4, <2>5, <2>8, <2>9, <2>10 DEF IInv
<1> QED
  BY <1>1, <1>8, <1>9 DEF Recv

\* A call is opened.
LEMMA OpenKeeps ==
  ASSUME IInv, Open
  PROVE  IInv'
<1>1. PICK c \in Call : Current = c
  BY CallsDiffer DEF Open, Calling, IInv
<1>2. /\ at <= Len(calls) /\ doing = "open" /\ next = 1
      /\ UNCHANGED <<calls, token, product, gate, at, next, got, outcome, expired, sentAll>>
      /\ UNCHANGED <<down, trailer, handler, local, breaks>>
      /\ context' = [context EXCEPT ![c] = "live"]
      /\ c \in Streaming => doing' = "send" /\ up' = up
      /\ c \notin Streaming => doing' = "recv" /\ up' = [up EXCEPT ![c] = <<Request>>]
  BY <1>1 DEF Open, Calling, IInv, Sending, inputVars, serverVars, Streaming
<1>3. /\ CallInv(c) /\ TypeOK /\ Queues /\ breaks \in Nat
      /\ at \in Nat /\ Len(calls) \in Nat /\ at \in at .. Len(calls)
      /\ \A i \in at .. Len(calls) :
           calls[i] \in Call /\ (i > at => calls[i] # c)
  BY <1>1, <1>2, CallTypes, CallsDiffer DEF IInv, Current
<1>4. context[c] = "none"
  BY <1>1, <1>2, <1>3 DEF IInv, Ahead, Current
<1>5. /\ handler[c] = "none" /\ trailer[c] = "none" /\ got[c] = <<>> /\ up[c] = <<>>
      /\ ~sentAll[c] /\ local[c] = Fresh
  BY <1>3, <1>4 DEF CallInv, Stages
<1>6. /\ context'[c] = "live" /\ \A d \in Call : d # c => context'[d] = context[d]
      /\ c \in Streaming => up'[c] = up[c]
      /\ \A d \in Call : d # c => up'[d] = up[d]
      /\ up' \in [Call -> Seq(0 .. Items)]
  <2>1. <<Request>> \in Seq(0 .. Items)
    BY StockFacts DEF Request
  <2> QED
    BY <1>2, <1>3, <2>1 DEF TypeOK, Queues
<1>7. Elsewhere(c)
  BY <1>2, <1>6 DEF Elsewhere
<1>8. TypeOK'
  BY <1>2, <1>3 DEF TypeOK
<1>9. Queues'
  BY <1>2, <1>3, <1>6 DEF Queues
<1>10. CallInv(c)'
  <2>1. Steps(c)'
    BY <1>2, <1>3 DEF CallInv, Steps
  <2>2. Stages(c)'
    BY <1>2, <1>3, <1>5, <1>6 DEF CallInv, Stages
  <2>3. Deserved' = Deserved /\ Whole(c)' = Whole(c) /\ Single(c)' = Single(c)
    BY <1>2 DEF Deserved, Whole, Single, InStock, Listed
  <2>4. Reasons(c)'
    BY <1>2, <1>3, <1>6, <2>3 DEF CallInv, Reasons
  <2>5. Checks(c)'
    BY <1>2, <1>5 DEF Checks
  <2>6. Uploads(c)'
    BY <1>2, <1>3, <1>6 DEF CallInv, Uploads, Arrived
  <2>7. Answers(c)'
    <3>1. Carried(c)' = Carried(c)
      BY <1>2, <1>4, <1>6 DEF Carried
    <3> QED
      BY <1>2, <1>3, <3>1 DEF CallInv, Answers
  <2>8. Completes(c)'
    BY <1>2, <1>3, <2>3 DEF CallInv, Completes
  <2>9. Ends(c)'
    BY <1>2, <1>3, <2>3 DEF CallInv, Ends, Grounds
  <2> QED
    BY <2>1, <2>2, <2>4, <2>5, <2>6, <2>7, <2>8, <2>9 DEF CallInv
<1>11. (\A d \in Call : CallInv(d))'
  <2>1. breaks' \in Nat /\ breaks <= breaks' /\ expired \subseteq expired'
    <3>1. breaks' = breaks /\ expired' = expired
      BY <1>2
    <3> QED
      BY <1>3, <3>1
  <2> QED
    BY <1>2, <1>7, <1>10, <2>1, Others
<1>12. Ahead'
  <2> SUFFICES ASSUME NEW i \in at .. Len(calls)
               PROVE  /\ outcome[calls[i]] = "none"
                      /\ i > at => context'[calls[i]] = "none"
    BY <1>2 DEF Ahead, Streaming
  <2> QED
    BY <1>3, <1>6 DEF IInv, Ahead
<1>13. Sending'
  <2>1. Current' = c
    BY <1>1, <1>2 DEF Current
  <2>2. doing' # "open"
    BY <1>2
  <2>3. c = "first" => Len(got'["first"]) < Limit
    BY <1>1, <1>2 DEF IInv, Sending
  <2>4. (Calling("send"))' => c \in Streaming
    BY <1>2 DEF Calling
  <2>5. c \in Streaming =>
          Arrived(c)' = 0 /\ next' - 1 = 0 /\ ~sentAll'[c] /\ trailer'[c] # "OK"
    <3>1. Fresh.received = 0 /\ Len(<<>>) = 0 /\ 0 + 0 = 0 /\ 1 - 1 = 0
      BY DEF Fresh
    <3> QED
      BY <1>2, <1>5, <1>6, <3>1 DEF Arrived
  <2>6. Arrived(Current)' = Arrived(c)'
    BY <2>1 DEF Arrived
  <2> QED
    BY <2>1, <2>2, <2>3, <2>4, <2>5, <2>6 DEF Sending
<1> QED
  BY <1>8, <1>9, <1>11, <1>12, <1>13 DEF IInv

\* An item is sent, or the end of the stream.
LEMMA SendingKeeps ==
  ASSUME IInv, Send \/ CloseSend
  PROVE  IInv'
<1>1. PICK c \in Call : Current = c
  BY CallsDiffer DEF Send, CloseSend, Calling, IInv
<1>2. /\ at <= Len(calls) /\ doing = "send" /\ Calling("send")
      /\ UNCHANGED <<calls, token, product, gate, at, got, outcome, expired>>
      /\ UNCHANGED <<down, trailer, context, handler, local, breaks>>
  BY DEF Send, CloseSend, Calling, inputVars, serverVars
<1>3. /\ CallInv(c) /\ TypeOK /\ Queues /\ breaks \in Nat /\ up[c] \in Seq(0 .. Items)
      /\ Len(up[c]) \in Nat /\ local[c].received \in Nat /\ Arrived(c) \in Nat
  BY CallTypes DEF IInv
<1>4. next \in Nat /\ next >= 1 /\ next <= Items + 1 /\ Items \in Nat
  <2>1. next \in 1 .. Items + 1
    BY <1>3 DEF TypeOK
  <2> QED
    BY <2>1, StockFacts
<1>5. /\ c \in Streaming /\ ~sentAll[c] /\ trailer[c] # "OK" /\ Arrived(c) <= next - 1
      /\ Reaches(c) => Arrived(c) = next - 1
  BY <1>1, <1>2 DEF IInv, Sending
<1>6. Reaches(c) => context[c] \notin {"none", "over"} /\ handler[c] # "gone"
  BY <1>3 DEF Reaches, CallInv, Stages
<1>7. Current' = c /\ Reaches(c)' = Reaches(c)
  BY <1>1, <1>2 DEF Current, Reaches
<1>8. \* What both need to show.
      ASSUME Elsewhere(c), Uploads(c)', Stages(c)', TypeOK', Queues',
             (Calling("send"))' => /\ ~sentAll'[c] /\ Arrived(c)' <= next' - 1
                                   /\ Reaches(c) => Arrived(c)' = next' - 1,
             doing' # "open"
      PROVE  IInv'
  <2>1. CallInv(c)'
    <3>1. Steps(c)'
      BY <1>2, <1>3 DEF CallInv, Steps
    <3>3. Deserved' = Deserved /\ Whole(c)' = Whole(c) /\ Single(c)' = Single(c)
      BY <1>2 DEF Deserved, Whole, Single, InStock, Listed
    <3>4. Reasons(c)'
      BY <1>2, <1>3, <3>3 DEF CallInv, Reasons
    <3>5. Checks(c)'
      BY <1>5 DEF Checks, Streaming
    <3>7. Answers(c)'
      <4>1. Carried(c)' = Carried(c)
        BY <1>2 DEF Carried
      <4> QED
        BY <1>2, <1>3, <4>1 DEF CallInv, Answers
    <3>8. Completes(c)'
      BY <1>2, <1>3, <3>3 DEF CallInv, Completes
    <3>9. Ends(c)'
      BY <1>2, <1>3, <3>3 DEF CallInv, Ends, Grounds
    <3> QED
      BY <1>8, <3>1, <3>4, <3>5, <3>7, <3>8, <3>9 DEF CallInv
  <2>2. (\A d \in Call : CallInv(d))'
    <3>1. breaks' \in Nat /\ breaks <= breaks' /\ expired \subseteq expired'
      <4>1. breaks' = breaks /\ expired' = expired
        BY <1>2
      <4> QED
        BY <1>3, <4>1
    <3> QED
      BY <1>2, <1>8, <2>1, <3>1, Others
  <2>3. Ahead'
    BY <1>2, <1>8 DEF IInv, Ahead
  <2>4. Sending'
    <3>1. Arrived(Current)' = Arrived(c)' /\ Reaches(Current)' = Reaches(c)
      BY <1>7 DEF Arrived, Reaches
    <3>2. c = "first" => Len(got'["first"]) < Limit
      BY <1>1, <1>2 DEF IInv, Sending
    <3>3. c \in Streaming /\ trailer'[c] # "OK"
      BY <1>2, <1>5
    <3> QED
      BY <1>7, <1>8, <3>1, <3>2, <3>3 DEF Sending
  <2> QED
    BY <1>8, <2>2, <2>3, <2>4 DEF IInv
<1>9. CASE Send
  <2>1. /\ next <= Items /\ next' = next + 1 /\ doing' = "send" /\ sentAll' = sentAll
        /\ Reaches(c) => up' = [up EXCEPT ![c] = Append(up[c], next)]
        /\ ~Reaches(c) => up' = up
    BY <1>1, <1>2, <1>9 DEF Send, IInv, Queues
  <2>2. next' \in 1 .. Items + 1 /\ next \in 0 .. Items
    BY <1>4, <2>1
  <2>3. CASE ~Reaches(c)
    <3>1. up' = up /\ Arrived(c)' = Arrived(c)
      BY <1>2, <2>1, <2>3 DEF Arrived
    <3>2. Elsewhere(c) /\ TypeOK' /\ Queues'
      BY <1>2, <1>3, <2>1, <2>2, <3>1 DEF Elsewhere, TypeOK, Queues
    <3>3. Uploads(c)' /\ Stages(c)'
      BY <1>2, <1>3, <2>1, <3>1 DEF CallInv, Uploads, Stages, Arrived
    <3>4. Arrived(c)' <= next' - 1
      <4>1. \A a, n \in Nat : a <= n - 1 => a <= n + 1 - 1
        OBVIOUS
      <4> QED
        BY <1>3, <1>4, <1>5, <2>1, <3>1, <4>1
    <3> QED
      BY <1>5, <1>8, <2>1, <2>3, <3>2, <3>3, <3>4
  <2>4. CASE Reaches(c)
    <3>1. /\ up'[c] = Append(up[c], next) /\ Len(up'[c]) = Len(up[c]) + 1
          /\ \A i \in 1 .. Len(up[c]) : up'[c][i] = up[c][i]
          /\ up'[c][Len(up[c]) + 1] = next
          /\ up' \in [Call -> Seq(0 .. Items)]
          /\ \A d \in Call : d # c => up'[d] = up[d]
      <4>1. up'[c] = Append(up[c], next) /\ \A d \in Call : d # c => up'[d] = up[d]
        BY <1>3, <2>1, <2>4 DEF Queues
      <4>2. Append(up[c], next) \in Seq(0 .. Items)
        BY <1>3, <2>2
      <4>3. up' \in [Call -> Seq(0 .. Items)]
        BY <1>3, <2>1, <2>4, <4>2 DEF Queues
      <4> QED
        BY <1>3, <4>1, <4>3
    <3>2. Arrived(c) = next - 1
      BY <1>5, <2>4
    <3>3. /\ local[c].received + (Len(up[c]) + 1) = next /\ next - 1 + 1 = next
          /\ next + 1 - 1 = next /\ next <= next
      <4>1. \A r, n, m \in Nat : r + n = m - 1 =>
              r + (n + 1) = m /\ m - 1 + 1 = m /\ m + 1 - 1 = m /\ m <= m
        OBVIOUS
      <4> QED
        BY <1>3, <1>4, <3>2, <4>1 DEF Arrived
    <3>4. Arrived(c)' = next
      BY <1>2, <3>1, <3>3 DEF Arrived
    <3>5. Elsewhere(c) /\ TypeOK' /\ Queues'
      BY <1>2, <1>3, <2>1, <2>2, <3>1 DEF Elsewhere, TypeOK, Queues
    <3>6. Uploads(c)'
      <4>1. \A i \in 1 .. Len(up'[c]) : up'[c][i] = local[c].received + i
        <5>1. \A i \in 1 .. Len(up[c]) + 1 :
                i \in 1 .. Len(up[c]) \/ i = Len(up[c]) + 1
          BY <1>3
        <5>2. \A i \in 1 .. Len(up[c]) : up[c][i] = local[c].received + i
          BY <1>3, <1>5 DEF CallInv, Uploads
        <5> QED
          BY <3>1, <3>3, <5>1, <5>2
      <4> QED
        BY <1>2, <1>3, <1>5, <2>1, <3>4, <4>1 DEF CallInv, Uploads
    <3>7. Stages(c)'
      BY <1>2, <1>3, <1>6, <2>1, <2>4 DEF CallInv, Stages
    <3>8. Arrived(c)' <= next' - 1 /\ Arrived(c)' = next' - 1
      <4>1. next' - 1 = next
        <5>1. \A k \in Nat : \A l : l = k + 1 => l - 1 = k
          OBVIOUS
        <5> QED
          BY <1>4, <2>1, <5>1
      <4> QED
        BY <3>3, <3>4, <4>1
    <3> QED
      BY <1>5, <1>8, <2>1, <3>5, <3>6, <3>7, <3>8
  <2> QED
    BY <2>3, <2>4
<1>10. CASE CloseSend
  <2>1. /\ next > Items /\ doing' = "recv" /\ next' = next /\ up' = up
        /\ sentAll' = [sentAll EXCEPT ![c] = Reaches(c)]
    BY <1>1, <1>10 DEF CloseSend
  <2>2. /\ sentAll'[c] = Reaches(c) /\ \A d \in Call : d # c => sentAll'[d] = sentAll[d]
        /\ Reaches(c) \in BOOLEAN /\ sentAll' \in [Call -> BOOLEAN]
    <3>1. Reaches(c) \in BOOLEAN
      BY DEF Reaches
    <3> HIDE DEF Reaches
    <3> QED
      BY <1>3, <2>1, <3>1 DEF TypeOK
  <2>3. Elsewhere(c) /\ TypeOK' /\ Queues'
    BY <1>2, <1>3, <2>1, <2>2 DEF Elsewhere, TypeOK, Queues
  <2>4. Reaches(c) => Arrived(c) = Items
    BY <1>4, <1>5, <2>1
  <2>5. Arrived(c)' = Arrived(c)
    BY <1>2, <2>1 DEF Arrived
  <2>6. Uploads(c)'
    BY <1>2, <1>3, <2>1, <2>2, <2>4, <2>5 DEF CallInv, Uploads
  <2>7. Stages(c)'
    BY <1>2, <1>3, <1>6, <2>1, <2>2 DEF CallInv, Stages
  <2>8. ~(Calling("send"))' /\ doing' # "open"
    BY <2>1 DEF Calling
  <2> QED
    BY <1>8, <2>3, <2>6, <2>7, <2>8
<1> QED
  BY <1>9, <1>10

-----------------------------------------------------------------------------
(* Time, the network and the tests.                                        *)

\* A deadline passes, or the gate is opened.
LEMMA WorldKeeps ==
  ASSUME IInv, OpenGate \/ \E b \in Budgets : Expire(b)
  PROVE  IInv'
<1>1. /\ UNCHANGED <<calls, token, product, at, doing, next, got, outcome, up, sentAll>>
      /\ UNCHANGED <<down, trailer, context, handler, local, breaks>>
      /\ expired \subseteq expired' /\ expired' \subseteq Budgets
      /\ gate' = gate \/ gate' = "open"
  BY DEF OpenGate, Expire, IInv, TypeOK, inputVars, clientVars, streamVars, serverVars
<1>2. breaks \in Nat /\ TypeOK /\ Queues
  <2>1. breaks \in 0 .. MaxBreaks
    BY DEF IInv, TypeOK
  <2>2. breaks \in Nat
    BY <2>1, InventoryAssumption
  <2> QED
    BY <2>2 DEF IInv
<1>3. TypeOK' /\ Queues'
  BY <1>1, <1>2 DEF TypeOK, Queues
<1>4. (\A d \in Call : CallInv(d))'
  <2> SUFFICES ASSUME NEW d \in Call PROVE CallInv(d)'
    OBVIOUS
  <2>1. breaks' \in Nat /\ breaks <= breaks' /\ CallInv(d)
    <3>1. breaks' = breaks
      BY <1>1
    <3> QED
      BY <1>2, <3>1 DEF IInv
  <2> QED
    BY <1>1, <1>2, <2>1, Frame
<1>5. Ahead'
  BY <1>1 DEF IInv, Ahead
<1>6. Sending'
  BY <1>1 DEF IInv, Sending, Calling, Current, Arrived, Reaches
<1> QED
  BY <1>3, <1>4, <1>5, <1>6 DEF IInv

\* The context of a call ends at the server.
LEMMA ContextKeeps ==
  ASSUME IInv, NEW c \in Call, ServerTimer(c) \/ Reset(c)
  PROVE  IInv'
<1>1. PICK to \in {"DeadlineExceeded", "Canceled"} :
        /\ context' = [context EXCEPT ![c] = to]
        /\ to = "DeadlineExceeded" => Budget(c) \in expired
  BY DEF ServerTimer, Reset
<1>2. /\ context[c] = "live" /\ UNCHANGED clientVars
      /\ UNCHANGED <<calls, token, product, gate, at, doing, next, got, outcome, expired>>
      /\ UNCHANGED <<up, sentAll, down, trailer, handler, local, breaks>>
  BY DEF ServerTimer, Reset, inputVars, clientVars, streamVars, serverVars
<1>3. /\ CallInv(c) /\ TypeOK /\ Queues /\ breaks \in Nat /\ Arrived(c) \in Nat
  BY CallTypes DEF IInv
<1>4. context'[c] = to /\ \A d \in Call : d # c => context'[d] = context[d]
  BY <1>1, <1>3 DEF TypeOK
<1>5. Elsewhere(c)
  BY <1>2, <1>4 DEF Elsewhere
<1>6. TypeOK' /\ Queues'
  BY <1>1, <1>2, <1>3 DEF TypeOK, Queues
<1>7. CallInv(c)'
  <2>1. Steps(c)'
    BY <1>2, <1>3 DEF CallInv, Steps
  <2>2. Stages(c)'
    BY <1>2, <1>3, <1>4 DEF CallInv, Stages
  <2>3. Deserved' = Deserved /\ Whole(c)' = Whole(c) /\ Single(c)' = Single(c)
    BY <1>2 DEF Deserved, Whole, Single, InStock, Listed
  <2>4. Reasons(c)'
    BY <1>1, <1>2, <1>3, <1>4, <2>3 DEF CallInv, Reasons
  <2>5. Checks(c)'
    BY <1>2, <1>3, <1>4 DEF CallInv, Checks, Dead
  <2>6. Uploads(c)'
    BY <1>2, <1>3 DEF CallInv, Uploads, Arrived
  <2>7. Answers(c)'
    <3>1. Carried(c)' => Carried(c)
      BY <1>2 DEF Carried
    <3> QED
      BY <1>2, <1>3, <3>1 DEF CallInv, Answers
  <2>8. Completes(c)'
    BY <1>2, <1>3, <2>3 DEF CallInv, Completes
  <2>9. Ends(c)'
    BY <1>2, <1>3, <2>3 DEF CallInv, Ends, Grounds
  <2> QED
    BY <2>1, <2>2, <2>4, <2>5, <2>6, <2>7, <2>8, <2>9 DEF CallInv
<1>8. (\A d \in Call : CallInv(d))'
  <2>1. breaks' \in Nat /\ breaks <= breaks' /\ expired \subseteq expired'
    <3>1. breaks' = breaks /\ expired' = expired
      BY <1>2
    <3> QED
      BY <1>3, <3>1
  <2> QED
    BY <1>2, <1>5, <1>7, <2>1, Others
<1>9. Ahead' /\ Sending'
  <2>1. Arrived(c)' = Arrived(c) /\ sentAll' = sentAll /\ trailer' = trailer
    BY <1>2 DEF Arrived
  <2>2. Arrived(c)' <= Arrived(c) /\ Arrived(c)' \in Nat
    BY <1>3, <2>1
  <2>3. Reaches(c)' => Reaches(c)
    BY <1>2 DEF Reaches
  <2> QED
    BY <1>2, <1>5, <2>1, <2>2, <2>3, ClientKept
<1> QED
  BY <1>6, <1>8, <1>9 DEF IInv

\* What is left of a queue when the connection breaks.
LEMMA PrefixFacts ==
  ASSUME NEW S, NEW s \in Seq(S), NEW n \in 0 .. Len(s)
  PROVE  /\ SubSeq(s, 1, n) \in Seq(S) /\ Len(SubSeq(s, 1, n)) = n
         /\ \A i \in 1 .. n : SubSeq(s, 1, n)[i] = s[i] /\ i \in 1 .. Len(s)
         /\ n \in Nat /\ n <= Len(s)
<1>1. Len(s) \in Nat
  OBVIOUS
<1> QED
  BY <1>1

\* The other calls at the connection that breaks: their handlers are done, or
\* were never begun.
LEMMA LostElsewhere ==
  ASSUME NEW c \in Call, CallInv(c), handler[c] \in {"none", "gone"},
         UNCHANGED <<got, up[c], down[c], sentAll[c], trailer[c], handler, local, outcome>>,
         context'[c] = (IF context[c] = "live" THEN "Canceled" ELSE context[c]),
         UNCHANGED <<token, product, expired>>, breaks \in Nat, breaks' = breaks + 1
  PROVE  CallInv(c)'
<1>0. breaks' > 0
  OBVIOUS
<1>1. Steps(c)'
  BY DEF CallInv, Steps
<1>2. Stages(c)'
  BY DEF CallInv, Stages
<1>3. Deserved' = Deserved /\ Whole(c)' = Whole(c) /\ Single(c)' = Single(c)
  BY DEF Deserved, Whole, Single, InStock, Listed
<1>4. Reasons(c)'
  BY <1>0, <1>3 DEF CallInv, Reasons
<1>5. Checks(c)'
  BY DEF Checks
<1>6. Uploads(c)'
  BY DEF CallInv, Uploads, Arrived
<1>7. Answers(c)'
  <2>1. Carried(c)' => Carried(c)
    BY DEF Carried
  <2> QED
    BY <2>1 DEF CallInv, Answers
<1>8. Completes(c)'
  BY <1>3 DEF CallInv, Completes
<1>9. Ends(c)'
  BY <1>0, <1>3 DEF CallInv, Ends, Grounds
<1> QED
  BY <1>1, <1>2, <1>4, <1>5, <1>6, <1>7, <1>8, <1>9 DEF CallInv

LEMMA BreakKeeps ==
  ASSUME IInv, Break
  PROVE  IInv'
<1>1. PICK c \in Call : Current = c
  BY CallsDiffer DEF Break, IInv
<1>2. /\ at <= Len(calls) /\ context[c] # "none" /\ breaks < MaxBreaks /\ breaks' = breaks + 1
      /\ \A d \in Call : d # c => handler[d] \in {"none", "gone"}
      /\ UNCHANGED <<calls, token, product, gate, at, doing, next, got, outcome, expired>>
      /\ UNCHANGED <<handler, local>>
      /\ context' = [d \in Call |-> IF context[d] = "live" THEN "Canceled" ELSE context[d]]
      /\ trailer' = [trailer EXCEPT ![c] = "Unavailable"]
  BY <1>1 DEF Break, MayBreak, inputVars, clientVars, serverVars
<1>3. /\ CallInv(c) /\ TypeOK /\ Queues /\ breaks \in Nat /\ breaks \in 0 .. MaxBreaks
      /\ MaxBreaks \in Nat
      /\ up[c] \in Seq(0 .. Items) /\ down[c] \in Seq(Message)
      /\ Len(got[c]) \in Nat /\ Len(down[c]) \in Nat /\ Len(up[c]) \in Nat
      /\ local[c].received \in Nat /\ local[c].sent \in Nat
  BY CallTypes, InventoryAssumption DEF IInv, TypeOK
<1>4. PICK n \in 0 .. Len(down[c]) : down' = [down EXCEPT ![c] = SubSeq(down[c], 1, n)]
  BY <1>1, <1>3 DEF Break, Queues
<1>5. PICK m \in 0 .. Len(up[c]) :
        /\ up' = [up EXCEPT ![c] = SubSeq(up[c], 1, m)]
        /\ sentAll' = [sentAll EXCEPT ![c] = sentAll[c] /\ m = Len(up[c])]
  BY <1>1, <1>3 DEF Break, TypeOK, Queues
<1>6. /\ down'[c] \in Seq(Message) /\ Len(down'[c]) = n /\ n <= Len(down[c]) /\ n \in Nat
      /\ \A i \in 1 .. n : down'[c][i] = down[c][i] /\ i \in 1 .. Len(down[c])
      /\ \A d \in Call : d # c => down'[d] = down[d]
  BY <1>3, <1>4, PrefixFacts DEF Queues
<1>7. /\ up'[c] \in Seq(0 .. Items) /\ Len(up'[c]) = m /\ m <= Len(up[c]) /\ m \in Nat
      /\ \A i \in 1 .. m : up'[c][i] = up[c][i] /\ i \in 1 .. Len(up[c])
      /\ \A d \in Call : d # c => up'[d] = up[d]
  <2>1. up'[c] = SubSeq(up[c], 1, m) /\ \A d \in Call : d # c => up'[d] = up[d]
    BY <1>3, <1>5 DEF Queues
  <2>2. /\ SubSeq(up[c], 1, m) \in Seq(0 .. Items) /\ Len(SubSeq(up[c], 1, m)) = m
        /\ \A i \in 1 .. m : SubSeq(up[c], 1, m)[i] = up[c][i] /\ i \in 1 .. Len(up[c])
        /\ m \in Nat /\ m <= Len(up[c])
    BY <1>3, PrefixFacts
  <2> QED
    BY <2>1, <2>2
<1>8. /\ sentAll'[c] => sentAll[c] /\ m = Len(up[c])
      /\ trailer'[c] = "Unavailable"
      /\ context'[c] = (IF context[c] = "live" THEN "Canceled" ELSE context[c])
      /\ \A d \in Call : d # c => sentAll'[d] = sentAll[d] /\ trailer'[d] = trailer[d]
      /\ \A d \in Call :
           context'[d] = (IF context[d] = "live" THEN "Canceled" ELSE context[d])
  BY <1>2, <1>3, <1>5 DEF TypeOK
<1>9. outcome[c] = "none" /\ doing # "open"
  <2>1. at \in at .. Len(calls)
    BY <1>2, CallsDiffer DEF IInv
  <2> QED
    BY <1>1, <1>2, <2>1 DEF IInv, Ahead, Current
<1>10. breaks' \in 0 .. MaxBreaks /\ breaks' > 0
  BY <1>2, <1>3
<1>11. TypeOK'
  <2>1. /\ trailer' \in [Call -> Status \cup {"none"}]
        /\ context' \in [Call -> {"none", "live", "DeadlineExceeded", "Canceled", "over"}]
        /\ sentAll' \in [Call -> BOOLEAN]
    <3>1. (sentAll[c] /\ m = Len(up[c])) \in BOOLEAN
      OBVIOUS
    <3>2. PICK b \in BOOLEAN : sentAll' = [sentAll EXCEPT ![c] = b]
      BY <1>5, <3>1
    <3>3. sentAll' \in [Call -> BOOLEAN]
      BY <1>3, <3>2 DEF TypeOK
    <3> QED
      BY <1>2, <1>3, <3>3 DEF TypeOK, Status
  <2> QED
    BY <1>2, <1>3, <1>10, <2>1 DEF TypeOK
<1>12. Queues'
  BY <1>2, <1>3, <1>4, <1>5, <1>6, <1>7 DEF Queues
<1>13. Arrived(c)' = local[c].received + m /\ Arrived(c)' <= Arrived(c)
       /\ (m = Len(up[c]) => Arrived(c)' = Arrived(c))
       /\ (Arrived(c) <= Items => Arrived(c)' <= Items)
  <2>1. \A r, a, b \in Nat : a <= b =>
          r + a <= r + b /\ (a = b => r + a = r + b) /\ (r + b <= Items => r + a <= Items)
    BY StockFacts
  <2>2. Arrived(c)' = local[c].received + m
    BY <1>2, <1>7 DEF Arrived
  <2>3. /\ local[c].received + m <= local[c].received + Len(up[c])
        /\ m = Len(up[c]) => local[c].received + m = local[c].received + Len(up[c])
        /\ local[c].received + Len(up[c]) <= Items => local[c].received + m <= Items
    BY <1>3, <1>7, <2>1
  <2> QED
    BY <2>2, <2>3 DEF Arrived
<1>14. CallInv(c)'
  <2>1. Steps(c)'
    BY <1>2, <1>3 DEF CallInv, Steps
  <2>2. Stages(c)'
    <3>1. handler[c] = "gone" => up'[c] = <<>> /\ ~sentAll'[c]
      <4>1. handler[c] = "gone" => m = 0
        BY <1>3, <1>7 DEF CallInv, Stages
      <4>2. m = 0 => up'[c] = <<>>
        BY <1>7
      <4> QED
        BY <1>3, <1>8, <4>1, <4>2 DEF CallInv, Stages
    <3> QED
      BY <1>2, <1>3, <1>8, <1>9, <3>1 DEF CallInv, Stages
  <2>3. Deserved' = Deserved /\ Whole(c)' = Whole(c) /\ Single(c)' = Single(c)
    BY <1>2 DEF Deserved, Whole, Single, InStock, Listed
  <2>4. Reasons(c)'
    BY <1>2, <1>3, <1>8, <1>10 DEF CallInv, Reasons
  <2>5. Checks(c)'
    BY <1>2, <1>3, <1>8 DEF CallInv, Checks, Dead
  <2>6. Uploads(c)'
    <3>1. c \in Streaming => \A i \in 1 .. Len(up'[c]) : up'[c][i] = local'[c].received + i
      BY <1>2, <1>3, <1>7 DEF CallInv, Uploads
    <3> QED
      BY <1>2, <1>3, <1>8, <1>13, <3>1 DEF CallInv, Uploads
  <2>7. Answers(c)'
    <3> SUFFICES ASSUME c \in InOrder PROVE Answers(c)'
      BY DEF Answers
    <3>1. ~Carried(c)'
      BY <1>8 DEF Carried
    <3>2. \A i \in 1 .. Len(down'[c]) : down'[c][i] = Len(got'[c]) + i
      BY <1>2, <1>3, <1>6 DEF CallInv, Answers
    <3>3. handler'[c] # "gone" => Len(got'[c]) + Len(down'[c]) <= local'[c].sent
      <4>1. \A g, a, b, s \in Nat : a <= b /\ g + b <= s => g + a <= s
        OBVIOUS
      <4>2. handler[c] # "gone" => Len(got[c]) + Len(down[c]) <= local[c].sent
        BY <1>3 DEF CallInv, Answers
      <4>3. handler[c] # "gone" => Len(got[c]) + n <= local[c].sent
        BY <1>3, <1>6, <4>1, <4>2
      <4> QED
        BY <1>2, <1>6, <4>3
    <3> QED
      BY <1>2, <1>3, <3>1, <3>2, <3>3 DEF CallInv, Answers
  <2>8. Completes(c)'
    <3>1. c \notin InOrder /\ handler[c] # "gone" => down'[c] = <<>>
      <4>1. c \notin InOrder /\ handler[c] # "gone" => n = 0
        BY <1>3, <1>6 DEF CallInv, Completes
      <4>2. n = 0 => down'[c] = <<>>
        BY <1>6
      <4> QED
        BY <4>1, <4>2
    <3> QED
      BY <1>2, <1>3, <1>8, <3>1 DEF CallInv, Completes
  <2>9. Ends(c)'
    BY <1>2, <1>9 DEF Ends
  <2> QED
    BY <2>1, <2>2, <2>4, <2>5, <2>6, <2>7, <2>8, <2>9 DEF CallInv
<1>15. (\A d \in Call : CallInv(d))'
  <2> SUFFICES ASSUME NEW d \in Call, d # c PROVE CallInv(d)'
    BY <1>14
  <2>1. CallInv(d) /\ handler[d] \in {"none", "gone"}
    BY <1>2 DEF IInv
  <2>2. /\ UNCHANGED <<got, up[d], down[d], sentAll[d], trailer[d], handler, local, outcome>>
        /\ context'[d] = (IF context[d] = "live" THEN "Canceled" ELSE context[d])
        /\ UNCHANGED <<token, product, expired>>
    BY <1>2, <1>6, <1>7, <1>8
  <2> QED
    BY <1>2, <1>3, <2>1, <2>2, LostElsewhere
<1>16. Ahead'
  <2> SUFFICES ASSUME NEW i \in at .. Len(calls)
               PROVE  /\ outcome[calls[i]] = "none"
                      /\ i > at => context'[calls[i]] = "none"
    BY <1>2, <1>9 DEF Ahead
  <2>1. calls[i] \in Call
    BY CallsDiffer DEF IInv
  <2> QED
    BY <1>8, <2>1 DEF IInv, Ahead
<1>17. Sending'
  <2>1. Current' = c /\ (Calling("send"))' = Calling("send") /\ doing' = doing /\ next' = next
    BY <1>1, <1>2 DEF Current, Calling
  <2>2. Arrived(Current)' = Arrived(c)' /\ ~Reaches(Current)'
    BY <1>8, <2>1 DEF Arrived, Reaches
  <2>3. Calling("send") => c \in Streaming /\ ~sentAll[c] /\ Arrived(c) <= next - 1
    BY <1>1 DEF IInv, Sending
  <2>4. Calling("send") => Arrived(c)' <= next' - 1
    <3>1. next \in 1 .. Items + 1
      BY <1>3 DEF TypeOK
    <3>2. next \in Nat
      BY <3>1, StockFacts
    <3>3. Arrived(c)' \in Nat /\ Arrived(c) \in Nat
      BY <1>3, <1>7, <1>13 DEF Arrived
    <3>4. \A a, b, k \in Nat : a <= b /\ b <= k - 1 => a <= k - 1
      OBVIOUS
    <3> QED
      BY <1>13, <2>1, <2>3, <3>2, <3>3, <3>4
  <2>5. c = "first" => Len(got'["first"]) < Limit
    BY <1>1, <1>2 DEF IInv, Sending
  <2> QED
    BY <1>8, <1>9, <2>1, <2>2, <2>3, <2>4, <2>5 DEF Sending
<1> QED
  BY <1>11, <1>12, <1>15, <1>16, <1>17 DEF IInv

-----------------------------------------------------------------------------
(* The theorems.                                                           *)

LEMMA InitFacts == Init => IInv
<1> SUFFICES ASSUME Init PROVE IInv
  OBVIOUS
<1>1. /\ at = 1 /\ doing = "open" /\ next = 1 /\ expired = {} /\ breaks = 0
      /\ got = [c \in Call |-> <<>>] /\ outcome = [c \in Call |-> "none"]
      /\ up = [c \in Call |-> <<>>] /\ sentAll = [c \in Call |-> FALSE]
      /\ down = [c \in Call |-> <<>>] /\ trailer = [c \in Call |-> "none"]
      /\ context = [c \in Call |-> "none"] /\ handler = [c \in Call |-> "none"]
      /\ local = [c \in Call |-> Fresh]
  BY DEF Init
<1>2. calls \in {Main} \cup {<<c>> : c \in Call} /\ Len(calls) \in Nat /\ Len(calls) >= 1
  <2>1. "check" \in Call
    BY CallIs
  <2>2. calls = Main \/ \E c \in Call : calls = <<c>>
    BY <2>1 DEF Init
  <2>3. Len(Main) = 5
    BY DEF Main
  <2>4. \A c : Len(<<c>>) = 1
    OBVIOUS
  <2> QED
    BY <2>2, <2>3, <2>4
<1>3. /\ token \in {"valid", "invalid"} /\ gate \in {"nil", "shut", "open"}
      /\ product \in {"", "slow-item", "keyboard", "monitor", "unknown"}
  BY DEF Init
<1>4. Fresh.item = 0 /\ Fresh.received = 0 /\ Fresh.available = 0 /\ Fresh.sent = 0
  BY DEF Fresh
<1>5. TypeOK
  <2>1. Fresh \in [item : 0 .. Items, received : 0 .. Items,
                   available : 0 .. Cardinality(Available), sent : 0 .. Items]
    BY StockFacts DEF Fresh
  <2>2. /\ at \in 1 .. Len(calls) + 1 /\ next \in 1 .. Items + 1
        /\ breaks \in 0 .. MaxBreaks
    BY <1>1, <1>2, StockFacts, InventoryAssumption
  <2> QED
    BY <1>1, <1>2, <1>3, <2>1, <2>2 DEF TypeOK
<1>6. Queues
  BY <1>1, EmptySeq DEF Queues
<1>7. Ahead
  BY <1>1, CallsDiffer, <1>5 DEF Ahead
<1>8. Sending
  <2>1. Len(<<>>) < Limit
    BY InventoryAssumption
  <2>2. got["first"] = <<>>
    BY <1>1, CallIs
  <2> QED
    BY <1>1, <2>1, <2>2 DEF Sending, Calling
<1>9. ASSUME NEW c \in Call PROVE CallInv(c)
  <2>1. /\ got[c] = <<>> /\ down[c] = <<>> /\ up[c] = <<>> /\ ~sentAll[c]
        /\ trailer[c] = "none" /\ context[c] = "none" /\ handler[c] = "none"
        /\ outcome[c] = "none" /\ local[c] = Fresh
    BY <1>1
  <2>2. Steps(c) /\ Stages(c) /\ Reasons(c) /\ Checks(c) /\ Completes(c) /\ Ends(c)
    BY <2>1 DEF Steps, Stages, Reasons, Checks, Completes, Ends
  <2>3. Uploads(c)
    <3>1. /\ local[c].received = 0 /\ local[c].available = 0 /\ Len(up[c]) = 0
          /\ 0 + 0 <= Items
      BY <1>4, <2>1, StockFacts
    <3> QED
      BY <2>1, <3>1, StockFacts DEF Uploads, Arrived
  <2>4. Answers(c)
    BY <1>4, <2>1, StockFacts DEF Answers
  <2> QED
    BY <2>2, <2>3, <2>4 DEF CallInv
<1> QED
  BY <1>5, <1>6, <1>7, <1>8, <1>9 DEF IInv

LEMMA StutterKeeps == IInv /\ UNCHANGED vars => IInv'
<1> SUFFICES ASSUME IInv, UNCHANGED vars PROVE IInv'
  OBVIOUS
<1>1. /\ UNCHANGED <<calls, token, product, gate, at, doing, next, got, outcome, expired>>
      /\ UNCHANGED <<up, sentAll, down, trailer, context, handler, local, breaks>>
  BY DEF vars, inputVars, clientVars, streamVars, serverVars
<1>2. TypeOK' /\ Queues'
  BY <1>1 DEF IInv, TypeOK, Queues
<1>3. (\A d \in Call : CallInv(d))'
  <2> SUFFICES ASSUME NEW d \in Call PROVE CallInv(d)'
    OBVIOUS
  <2>1. CallInv(d) /\ breaks \in Nat
    BY CallTypes
  <2>2. breaks' \in Nat /\ breaks <= breaks' /\ expired \subseteq expired'
    <3>1. breaks' = breaks /\ expired' = expired
      BY <1>1
    <3> QED
      BY <2>1, <3>1
  <2> QED
    BY <1>1, <2>1, <2>2, Frame
<1>4. Ahead' /\ Sending'
  BY <1>1 DEF IInv, Ahead, Sending, Calling, Current, Arrived, Reaches
<1> QED
  BY <1>2, <1>3, <1>4 DEF IInv

\* Every call is what the invariant says of it at every step of client, server
\* and network.
LEMMA Inductive == Spec => []IInv
<1>1. IInv /\ Next => IInv'
  <2> SUFFICES ASSUME IInv, Next PROVE IInv'
    OBVIOUS
  <2>1. CASE Client
    BY <2>1, OpenKeeps, ErrorKeeps, SendingKeeps, RecvKeeps, EndKeeps DEF Client
  <2>2. CASE Break
    BY <2>2, BreakKeeps
  <2>3. CASE OpenGate \/ \E b \in Budgets : Expire(b)
    BY <2>3, WorldKeeps
  <2>4. CASE \E c \in Call : Handler(c) \/ ServerTimer(c) \/ Reset(c)
    <3>1. PICK c \in Call : Handler(c) \/ ServerTimer(c) \/ Reset(c)
      BY <2>4
    <3> QED
      BY <3>1, HandlerKeeps, ContextKeeps
  <2> QED
    BY <2>1, <2>2, <2>3, <2>4 DEF Next
<1> QED
  BY <1>1, InitFacts, StutterKeeps, PTL DEF Spec

\* The variables keep their types: in particular no handler receives, sends or
\* counts more items than the list holds (grpc/fundamentals/server/main.go).
THEOREM TypeCorrect == Spec => []TypeOK
<1>1. IInv => TypeOK
  BY DEF IInv
<1> QED
  BY <1>1, Inductive, PTL

\* Every call ends as it deserves: without an error only with the whole answer,
\* and with an error only for a reason of its own, whatever deadlines pass, whoever
\* cancels and however often the connection breaks
\* (grpc/fundamentals/server/main.go, client/main.go).
THEOREM DeservedOutcome == Spec => []OutcomeDeserved
<1>1. IInv => OutcomeDeserved
  BY DEF IInv, CallInv, Ends, Grounds, OutcomeDeserved
<1> QED
  BY <1>1, Inductive, PTL

\* The items of a list arrive in its order, and SyncStock answers each item before
\* it receives the next (grpc/fundamentals/server/main.go:31-61, :74-99).
THEOREM InOrderAnswers == Spec => []AnsweredInOrder
<1>1. ASSUME IInv PROVE AnsweredInOrder
  <2>1. ASSUME NEW c \in {"list", "first", "sync"}
        PROVE  /\ got[c] \o down[c] = Listed(Len(got[c] \o down[c]))
               /\ Len(got[c] \o down[c]) = Len(got[c]) + Len(down[c])
    <3>1. c \in Call /\ c \in InOrder
      BY CallIs DEF InOrder
    <3>2. /\ CallInv(c) /\ got[c] \in Seq(Message) /\ down[c] \in Seq(Message)
          /\ Len(got[c]) \in Nat /\ Len(down[c]) \in Nat
      BY <1>1, <3>1, CallTypes
    <3>3. PICK s \in Seq(Message) : s = got[c] \o down[c]
      BY <3>2, ConcatProperties
    <3>4. /\ Len(s) = Len(got[c]) + Len(down[c]) /\ Len(s) \in Nat
          /\ \A i \in 1 .. Len(got[c]) : s[i] = got[c][i]
          /\ \A i \in 1 .. Len(down[c]) : s[Len(got[c]) + i] = down[c][i]
      <4>1. ASSUME NEW a \in Seq(Message), NEW b \in Seq(Message)
            PROVE  /\ Len(a \o b) = Len(a) + Len(b) /\ Len(a \o b) \in Nat
                   /\ \A i \in 1 .. Len(a) : (a \o b)[i] = a[i]
                   /\ \A i \in 1 .. Len(b) : (a \o b)[Len(a) + i] = b[i]
        OBVIOUS
      <4> QED
        BY <3>2, <3>3, <4>1
    <3>5. ASSUME NEW i \in 1 .. Len(s) PROVE s[i] = i
      <4>1. CASE i \in 1 .. Len(got[c])
        BY <3>1, <3>2, <3>4, <4>1 DEF CallInv, Answers
      <4>2. CASE i \notin 1 .. Len(got[c])
        <5>1. i - Len(got[c]) \in 1 .. Len(down[c])
              /\ Len(got[c]) + (i - Len(got[c])) = i
          <6>1. \A g, d \in Nat : \A j \in 1 .. g + d : j \notin 1 .. g =>
                  j - g \in 1 .. d /\ g + (j - g) = j
            OBVIOUS
          <6>2. i \in 1 .. Len(got[c]) + Len(down[c])
            BY <3>4
          <6> QED
            BY <3>2, <4>2, <6>1, <6>2
        <5>2. s[Len(got[c]) + (i - Len(got[c]))] = down[c][i - Len(got[c])]
          BY <3>4, <5>1
        <5>3. down[c][i - Len(got[c])] = Len(got[c]) + (i - Len(got[c]))
          BY <3>1, <3>2, <5>1 DEF CallInv, Answers
        <5> QED
          BY <5>1, <5>2, <5>3
      <4> QED
        BY <4>1, <4>2
    <3>6. s = Listed(Len(s))
      BY <3>4, <3>5, ListedIs
    <3> QED
      BY <3>3, <3>4, <3>6
  <2>2. "sync" \in Call /\ "sync" \in InOrder /\ CallInv("sync")
    BY <1>1, CallIs DEF InOrder, IInv
  <2>3. ASSUME handler["sync"] # "gone"
        PROVE  /\ local["sync"].received \in {local["sync"].sent, local["sync"].sent + 1}
               /\ Len(got["sync"] \o down["sync"]) <= local["sync"].sent
    <3>1. local["sync"].received = local["sync"].sent +
            (IF handler["sync"] \in {"gate", "send"} THEN 1 ELSE 0)
      BY <2>2 DEF CallInv, Answers
    <3>2. local["sync"].sent \in Nat
      BY <1>1, <2>2, CallTypes
    <3>3. local["sync"].received \in {local["sync"].sent, local["sync"].sent + 1}
      BY <3>1, <3>2
    <3>4. Len(got["sync"]) + Len(down["sync"]) <= local["sync"].sent
      BY <2>2, <2>3 DEF CallInv, Answers
    <3> QED
      BY <2>1, <3>3, <3>4
  <2>4. trailer["sync"] = "OK" => Len(got["sync"] \o down["sync"]) = Items
    BY <2>1, <2>2 DEF CallInv, Completes
  <2> QED
    BY <2>1, <2>3, <2>4 DEF AnsweredInOrder
<1>2. IInv => AnsweredInOrder
  BY <1>1
<1> QED
  BY <1>2, Inductive, PTL
=============================================================================
