-------------------------- MODULE InventoryService --------------------------
(***************************************************************************)
(* The gRPC inventory service (grpc/fundamentals): the client's main,      *)
(* which makes five calls one after another, and the server's handlers     *)
(* behind their interceptors.  The calls are CheckStock (unary), ListStock *)
(* (server streaming) twice, of which the second is given up after Limit   *)
(* items, ReportStock (client streaming) and SyncStock (both).  As the     *)
(* tests do, a client may also make one call by itself, CheckStock with    *)
(* any product and token, a stream to a server that holds it at a gate.    *)
(*                                                                         *)
(* gRPC is external.  A call has a queue of messages each way, what the    *)
(* handler returned behind the last response, and a context at each end:   *)
(* the client's ends at its deadline, the server's when its own timer      *)
(* fires, when it hears that the client has given up, or when the          *)
(* connection breaks.  An operation on a stream whose context has ended    *)
(* may still succeed.  An item is its number in the list that both         *)
(* programs hold; Available are those in stock.                            *)
(*                                                                         *)
(* What the interceptors log is left out, as are the channels by which     *)
(* handlers notify a test.                                                 *)
(***************************************************************************)
EXTENDS Naturals, Sequences, FiniteSets

CONSTANTS Items,      \* how many items the lists have: 3 in the code
          Available,
          Limit,      \* 2 in the client's main
          MaxBreaks   \* bound on failures of the connection

ASSUME InventoryAssumption ==
  /\ Items \in Nat \ {0, 1} /\ Available \subseteq 1 .. Items
  /\ Limit \in 1 .. Items /\ MaxBreaks \in Nat

Main == <<"check", "list", "first", "report", "sync">>
Call == {Main[i] : i \in 1 .. Len(Main)}

Request == 0          \* the request of CheckStock and ListStock
Fresh == [item |-> 0, received |-> 0, available |-> 0, sent |-> 0]

VARIABLES calls,     \* the calls of the client: Main, or one by itself
          token,     \* CheckStock's credentials: valid or not
          product,   \* and the product it asks for, without white space
          gate,      \* the two continue channels: nil, shut, or closed (open)
          at,        \* the client's call: an index of calls, past the end when all are made
          doing,     \* "open", "send" or "recv"
          next,      \* the next item that it sends
          got,       \* what each call has received
          outcome,   \* its error, "ok", or "none" while it is not over
          expired,   \* the deadlines that have passed
          up, sentAll,     \* messages to the server, and whether all were sent
          down, trailer,   \* messages to the client, and the status behind them
          context,   \* the server's context of a call: "live" or why it ended
          handler,   \* where its handler is
          local,     \* its variables
          breaks     \* failures of the connection

clientVars == <<at, doing, next, got, outcome>>
inputVars  == <<calls, token, product, gate>>
streamVars == <<up, sentAll, down, trailer>>
serverVars == <<handler, local>>
vars == <<inputVars, clientVars, expired, streamVars, context, serverVars, breaks>>

Init ==
  /\ \/ calls = Main /\ token = "valid" /\ product = "slow-item" /\ gate = "nil"
     \/ /\ calls = <<"check">> /\ gate = "nil" /\ token \in {"valid", "invalid"}
        /\ product \in {"", "slow-item", "keyboard", "monitor", "unknown"}
     \/ /\ calls \in {<<c>> : c \in Call \ {"check"}} /\ gate \in {"nil", "shut"}
        /\ token = "valid" /\ product = ""
  /\ at = 1 /\ doing = "open" /\ next = 1 /\ got = [c \in Call |-> <<>>]
  /\ outcome = [c \in Call |-> "none"] /\ expired = {}
  /\ up = [c \in Call |-> <<>>] /\ sentAll = [c \in Call |-> FALSE]
  /\ down = [c \in Call |-> <<>>] /\ trailer = [c \in Call |-> "none"]
  /\ context = [c \in Call |-> "none"] /\ handler = [c \in Call |-> "none"]
  /\ local = [c \in Call |-> Fresh] /\ breaks = 0

-----------------------------------------------------------------------------
(* The client.                                                             *)

Current   == calls[at]
Calling(state) == at <= Len(calls) /\ doing = state
Budget(c) == IF c = "check" THEN "unary" ELSE "stream"
Late      == Budget(Current) \in expired

\* The call is over; main logs an error and goes on to the next.  The stream is
\* given up with what it still carries, and what an error cut short is forgotten.
Leave(r) ==
  /\ outcome' = [outcome EXCEPT ![Current] = r]
  /\ down' = [down EXCEPT ![Current] = <<>>]
  /\ trailer' = [trailer EXCEPT ![Current] = "none"]
  /\ at' = at + 1 /\ doing' = "open" /\ next' = 1

\* The stream is created; the generated code of CheckStock and ListStock also
\* sends the request, the only one.
Open ==
  /\ Calling("open") /\ ~Late
  /\ context' = [context EXCEPT ![Current] = "live"]
  /\ IF Current \in {"report", "sync"}
     THEN doing' = "send" /\ UNCHANGED up
     ELSE doing' = "recv" /\ up' = [up EXCEPT ![Current] = <<Request>>]
  /\ UNCHANGED <<inputVars, at, next, got, outcome, expired, sentAll, down, trailer,
                 serverVars, breaks>>

\* The connection is up, or fails; the bound has it fail only while no handler of an
\* earlier call is at work.
MayBreak ==
  /\ breaks < MaxBreaks
  /\ \A c \in Call \ {Current} : handler[c] \in {"none", "gone"}

Fail(r) == Leave(r) /\ got' = [got EXCEPT ![Current] = <<>>]

\* No stream: the deadline has passed, or the server cannot be reached.
OpenFails ==
  /\ Calling("open")
  /\ \/ Late /\ Fail("DeadlineExceeded") /\ UNCHANGED breaks
     \/ MayBreak /\ breaks' = breaks + 1 /\ Fail("Unavailable")
  /\ UNCHANGED <<inputVars, expired, up, sentAll, context, serverVars>>

\* What the client sends reaches the server unless the connection is lost.
Reaches(c) == context[c] \in {"live", "DeadlineExceeded"} /\ trailer[c] # "Unavailable"

Send ==
  /\ Calling("send") /\ next <= Items /\ next' = next + 1
  /\ up' = IF Reaches(Current) THEN [up EXCEPT ![Current] = Append(@, next)] ELSE up
  /\ UNCHANGED <<inputVars, at, doing, got, outcome, expired, sentAll, down, trailer,
                 context, serverVars, breaks>>

\* Send returns io.EOF once the stream has ended, or the error of its context.
SendFails ==
  /\ Calling("send") /\ next <= Items
  /\ \/ trailer[Current] # "none" /\ Fail("EOF")
     \/ Late /\ Fail("DeadlineExceeded")
  /\ UNCHANGED <<inputVars, expired, up, sentAll, context, serverVars, breaks>>

\* CloseSend, also as a part of CloseAndRecv.
CloseSend ==
  /\ Calling("send") /\ next > Items /\ doing' = "recv"
  /\ sentAll' = [sentAll EXCEPT ![Current] = Reaches(Current)]
  /\ UNCHANGED <<inputVars, at, next, got, outcome, expired, up, down, trailer, context,
                 serverVars, breaks>>

\* A response.  listFirstStockItems returns after Limit of them.
Recv ==
  /\ Calling("recv") /\ down[Current] # <<>>
  /\ got' = [got EXCEPT ![Current] = Append(@, Head(down[Current]))]
  /\ IF Current = "first" /\ Len(got'["first"]) = Limit THEN Leave("ok")
     ELSE /\ down' = [down EXCEPT ![Current] = Tail(@)]
          /\ UNCHANGED <<at, doing, next, outcome, trailer>>
  /\ UNCHANGED <<inputVars, expired, up, sentAll, context, serverVars, breaks>>

\* io.EOF when the handler returned nil, or its status; or the deadline.
RecvEnd ==
  /\ Calling("recv")
  /\ \/ /\ down[Current] = <<>> /\ trailer[Current] = "OK"
        /\ Leave("ok") /\ UNCHANGED got
     \/ /\ down[Current] = <<>> /\ trailer[Current] \notin {"none", "OK"}
        /\ Fail(trailer[Current])
     \/ Late /\ Fail("DeadlineExceeded")
  /\ UNCHANGED <<inputVars, expired, up, sentAll, context, serverVars, breaks>>

-----------------------------------------------------------------------------
(* The server.                                                             *)

Dead(c)      == context[c] # "live"
At(c, where) == handler[c] = where
Goto(c, to)  == handler' = [handler EXCEPT ![c] = to]

\* What it sends arrives unless the connection or the client is gone.
Carried(c) == trailer[c] = "none" /\ outcome[c] = "none" /\ context[c] # "Canceled"

\* The handler goes on, or returns a status, perhaps with a last response: the
\* interceptors pass both on, and gRPC sends them behind the other responses.  Its
\* context and its variables are no more.
GoOn(c, to) == Goto(c, to) /\ UNCHANGED <<sentAll, trailer, context>>

Return(c, response, status) ==
  /\ Goto(c, "gone")
  /\ IF Carried(c)
     THEN /\ down' = [down EXCEPT ![c] = @ \o response]
          /\ trailer' = [trailer EXCEPT ![c] = status]
     ELSE UNCHANGED <<down, trailer>>
  /\ context' = [context EXCEPT ![c] = "over"]
  /\ up' = [up EXCEPT ![c] = <<>>] /\ sentAll' = [sentAll EXCEPT ![c] = FALSE]
  /\ local' = [local EXCEPT ![c] = Fresh]

\* What the handlers never write.
Aside == <<inputVars, clientVars, expired, breaks>>

\* authenticationUnaryInterceptor: of no metadata, no token, another scheme and a
\* wrong token, none is let through.
Authenticated == token = "valid"

\* A stream arrives; so does CheckStock with its request, which the chain of
\* interceptors refuses by its token and CheckStock by its product, or starts on.
Begin(c) ==
  /\ At(c, "none") /\ context[c] # "none" /\ UNCHANGED Aside
  /\ \/ /\ c \in {"list", "first"} /\ GoOn(c, "request") /\ UNCHANGED <<up, down, local>>
     \/ /\ c \in {"report", "sync"} /\ GoOn(c, "receive") /\ UNCHANGED <<up, down, local>>
     \/ /\ c = "check" /\ up[c] # <<>>
        /\ CASE ~Authenticated -> Return(c, <<>>, "Unauthenticated")
             [] Authenticated /\ product = "" -> Return(c, <<>>, "InvalidArgument")
             [] OTHER -> /\ GoOn(c, IF product = "slow-item" THEN "slow" ELSE "look")
                         /\ up' = [up EXCEPT ![c] = <<>>] /\ UNCHANGED <<down, local>>

\* Its five seconds are over after the call's one; select may then take either.
SlowOperation(c) ==
  /\ At(c, "slow") /\ Dead(c) /\ UNCHANGED Aside
  /\ \/ Return(c, <<>>, context[c])
     \/ GoOn(c, "look") /\ UNCHANGED <<up, down, local>>

InStock(p) == p = "keyboard"

LookUp(c) ==
  /\ At(c, "look") /\ UNCHANGED Aside
  /\ \/ Dead(c) /\ Return(c, <<>>, context[c])
     \/ ~Dead(c) /\ product \in {"keyboard", "monitor"} /\ Return(c, <<InStock(product)>>, "OK")
     \/ ~Dead(c) /\ product \notin {"keyboard", "monitor"} /\ Return(c, <<>>, "NotFound")

\* The generated handler of ListStock receives the request first.
ListRequest(c) ==
  /\ At(c, "request") /\ UNCHANGED Aside
  /\ \/ up[c] # <<>> /\ up' = [up EXCEPT ![c] = <<>>]
        /\ GoOn(c, "check") /\ UNCHANGED <<down, local>>
     \/ Dead(c) /\ Return(c, <<>>, context[c])

\* Before each item of the list: stream.Context().Err().
ListCheck(c) ==
  /\ At(c, "check") /\ UNCHANGED Aside
  /\ IF Dead(c) THEN Return(c, <<>>, context[c])
     ELSE GoOn(c, "send") /\ UNCHANGED <<up, down, local>>

\* stream.Send: of the next item of the list, or of the item received.  Behind the
\* last of the list its handler returns; behind the first there is a gate.
SendItem(c) ==
  /\ At(c, "send") /\ UNCHANGED Aside
  /\ LET sent == local[c].sent + 1
         m    == IF c = "sync" THEN local[c].item ELSE sent
     IN \/ Dead(c) /\ Return(c, <<>>, context[c])
        \/ c # "sync" /\ sent = Items /\ Return(c, <<m>>, "OK")
        \/ /\ c = "sync" \/ sent < Items
           /\ down' = IF Carried(c) THEN [down EXCEPT ![c] = Append(@, m)] ELSE down
           /\ local' = [local EXCEPT ![c].sent = sent, ![c].item = 0] /\ UNCHANGED up
           /\ GoOn(c, CASE c = "sync" -> "receive"
                        [] c # "sync" /\ sent = 1 /\ gate # "nil" -> "gate"
                        [] OTHER -> "check")

\* Mutant: the gate does not look at the context.
GateDeaf(c) ==
  /\ At(c, "gate") /\ gate = "open" /\ UNCHANGED Aside
  /\ GoOn(c, IF c = "sync" THEN "send" ELSE "check") /\ UNCHANGED <<up, down, local>>

\* Mutant: a wait that was cut short skips the item.
GateSkips(c) ==
  /\ At(c, "gate") /\ UNCHANGED Aside /\ UNCHANGED <<up, down, local>>
  /\ \/ gate = "open" /\ GoOn(c, IF c = "sync" THEN "send" ELSE "check")
     \/ Dead(c) /\ GoOn(c, IF c = "sync" THEN "receive" ELSE "check")

\* continueAfterFirstStockItem and continueAfterSyncStockItem, or the context.
Gate(c) ==
  /\ At(c, "gate") /\ UNCHANGED Aside
  /\ \/ /\ gate = "open" /\ GoOn(c, IF c = "sync" THEN "send" ELSE "check")
        /\ UNCHANGED <<up, down, local>>
     \/ Dead(c) /\ Return(c, <<>>, context[c])

ReportOf(c) == <<local[c].received, local[c].available>>

\* Mutant: an error ends the report like the end of the stream.
ReportAnyway(c) ==
  /\ At(c, "receive") /\ c = "report" /\ UNCHANGED Aside
  /\ (up[c] = <<>> /\ sentAll[c]) \/ Dead(c)
  /\ Return(c, <<ReportOf(c)>>, "OK")

\* io.EOF: ReportStock sends its report, which may fail with the context.
ReportEnd(c) ==
  /\ At(c, "receive") /\ c = "report" /\ up[c] = <<>> /\ sentAll[c] /\ UNCHANGED Aside
  /\ Return(c, <<ReportOf(c)>>, "OK") \/ (Dead(c) /\ Return(c, <<>>, context[c]))

\* io.EOF: SyncStock is done.
SyncEnd(c) ==
  /\ At(c, "receive") /\ c = "sync" /\ up[c] = <<>> /\ sentAll[c] /\ UNCHANGED Aside
  /\ Return(c, <<>>, "OK")

\* stream.Recv returns an item: one more in the report, or one to echo.
ReceiveItem(c) ==
  /\ At(c, "receive") /\ up[c] # <<>> /\ up' = [up EXCEPT ![c] = Tail(@)]
  /\ LET i == Head(up[c])
     IN IF c = "report"
        THEN /\ GoOn(c, "receive")
             /\ local' = [local EXCEPT ![c].received = @ + 1,
                                       ![c].available = @ + (IF i \in Available THEN 1 ELSE 0)]
        ELSE /\ GoOn(c, IF gate = "nil" THEN "send" ELSE "gate")
             /\ local' = [local EXCEPT ![c].received = @ + 1, ![c].item = i]
  /\ UNCHANGED down /\ UNCHANGED Aside

\* It returns the error of the context.
ReceiveFails(c) ==
  /\ At(c, "receive") /\ Dead(c) /\ UNCHANGED Aside /\ Return(c, <<>>, context[c])

-----------------------------------------------------------------------------
(* Time, the network and the tests.                                        *)

\* One second for CheckStock; five for the calls after it.
Expire(b) ==
  /\ b \notin expired /\ (calls = Main /\ b = "stream" => at > 1)
  /\ expired' = expired \cup {b}
  /\ UNCHANGED <<inputVars, clientVars, streamVars, context, serverVars, breaks>>

\* The server has a timer of its own for the deadline it was sent.
ServerTimer(c) ==
  /\ context[c] = "live" /\ Budget(c) \in expired
  /\ context' = [context EXCEPT ![c] = "DeadlineExceeded"]
  /\ UNCHANGED <<inputVars, clientVars, expired, streamVars, serverVars, breaks>>

\* It hears that the client has given the call up, or is out of time.
Reset(c) ==
  /\ context[c] = "live" /\ (outcome[c] # "none" \/ Budget(c) \in expired)
  /\ context' = [context EXCEPT ![c] = "Canceled"]
  /\ UNCHANGED <<inputVars, clientVars, expired, streamVars, serverVars, breaks>>

\* The connection is lost, with some of what was under way on it.
Break ==
  /\ at <= Len(calls) /\ context[Current] # "none"
  /\ MayBreak /\ breaks' = breaks + 1
  /\ context' = [c \in Call |-> IF context[c] = "live" THEN "Canceled" ELSE context[c]]
  /\ trailer' = [trailer EXCEPT ![Current] = "Unavailable"]
  /\ \E n \in 0 .. Len(down[Current]) :
       down' = [down EXCEPT ![Current] = SubSeq(@, 1, n)]
  /\ \E n \in 0 .. Len(up[Current]) :
       /\ up' = [up EXCEPT ![Current] = SubSeq(@, 1, n)]
       /\ sentAll' = [sentAll EXCEPT ![Current] = @ /\ n = Len(up[Current])]
  /\ UNCHANGED <<inputVars, clientVars, expired, serverVars>>

\* The holder of the continue channels closes them; it may never do so.
OpenGate ==
  /\ gate = "shut" /\ gate' = "open"
  /\ UNCHANGED <<calls, token, product, clientVars, expired, streamVars, context,
                 serverVars, breaks>>

Client == Open \/ OpenFails \/ Send \/ SendFails \/ CloseSend \/ Recv \/ RecvEnd
Handler(c) ==
  \/ Begin(c) \/ SlowOperation(c) \/ LookUp(c) \/ ListRequest(c) \/ ListCheck(c)
  \/ SendItem(c) \/ Gate(c) \/ ReportEnd(c) \/ SyncEnd(c) \/ ReceiveItem(c)
  \/ ReceiveFails(c)
Budgets == {"unary", "stream"}

Next ==
  \/ Client \/ Break \/ OpenGate
  \/ \E c \in Call : Handler(c) \/ ServerTimer(c) \/ Reset(c)
  \/ \E b \in Budgets : Expire(b)

Spec == Init /\ [][Next]_vars

\* Main and the handlers are scheduled, and the timers of both ends fire.  The
\* news that a call was given up, a loss and the gate may never come.
FairSpec ==
  /\ Spec /\ WF_vars(Client)
  /\ \A c \in Call : WF_vars(Handler(c)) /\ WF_vars(ServerTimer(c))
  /\ \A b \in Budgets : WF_vars(Expire(b))
-----------------------------------------------------------------------------
Status == {"OK", "InvalidArgument", "Unauthenticated", "NotFound", "DeadlineExceeded",
           "Canceled", "Unavailable"}

TypeOK ==
  /\ calls \in {Main} \cup {<<c>> : c \in Call}
  /\ token \in {"valid", "invalid"} /\ gate \in {"nil", "shut", "open"}
  /\ product \in {"", "slow-item", "keyboard", "monitor", "unknown"}
  /\ at \in 1 .. Len(calls) + 1 /\ doing \in {"open", "send", "recv"}
  /\ next \in 1 .. Items + 1 /\ expired \subseteq Budgets /\ breaks \in 0 .. MaxBreaks
  /\ outcome \in [Call -> Status \cup {"none", "ok", "EOF"}]
  /\ trailer \in [Call -> Status \cup {"none"}]
  /\ context \in [Call -> {"none", "live", "DeadlineExceeded", "Canceled", "over"}]
  /\ handler \in [Call -> {"none", "slow", "look", "request", "check", "send", "gate",
                          "receive", "gone"}]
  /\ local \in [Call -> [item : 0 .. Items, received : 0 .. Items,
                         available : 0 .. Cardinality(Available), sent : 0 .. Items]]
  /\ sentAll \in [Call -> BOOLEAN]

Listed(n) == [i \in 1 .. n |-> i]

\* What a call that ends well has received: a whole answer.
Whole(c) ==
  CASE c = "check"             -> <<InStock(product)>>
    [] c \in {"list", "sync"} -> Listed(Items)
    [] c = "first"             -> Listed(Limit)
    [] c = "report"            -> <<<<Items, Cardinality(Available)>>>>

\* How CheckStock ends while there is time.
Deserved ==
  CASE token = "invalid" -> "Unauthenticated"
    [] token = "valid" /\ product = "" -> "InvalidArgument"
    [] token = "valid" /\ product = "unknown" -> "NotFound"
    [] token = "valid" /\ product = "slow-item" -> "late"
    [] OTHER -> "ok"

\* Every call ends as it deserves.  One without an error has the whole answer: no
\* list, echo or report that a deadline, a loss or a cancellation has cut short
\* passes for a complete one, and no limit counts wrong
\* (grpc/fundamentals/server/main.go:32-38, :75-81, :182-193,
\* client/main.go:88-105, :128-148, :172-183, :209-216).  One with an error has
\* that of its request, or a deadline or a lost connection to show for it; the
\* cancel of the list that main cuts short reaches no other call.
OutcomeDeserved ==
  /\ TypeOK
  /\ \A c \in Call :
       /\ outcome[c] = "ok" =>
            /\ got[c] = Whole(c)
            /\ c = "check" => Deserved = "ok"
       /\ outcome[c] \notin {"none", "ok"} =>
            \/ c = "check" /\ outcome[c] = Deserved
            \/ outcome[c] = "DeadlineExceeded" /\ Budget(c) \in expired
            \/ outcome[c] = "Canceled" /\ Budget(c) \in expired
            \/ outcome[c] \in {"Unavailable", "EOF", "Canceled"} /\ breaks > 0
            \/ outcome[c] = "EOF" /\ Budget(c) \in expired

\* The items of a list arrive in its order.  SyncStock answers each item before
\* it receives the next, and when it returns nil it has answered all of them:
\* after any cancellation the answers are those of the first items, and the one
\* at hand is the only one unanswered
\* (grpc/fundamentals/server/main.go:31-61, :74-99).
AnsweredInOrder ==
  /\ \A c \in {"list", "first", "sync"} : got[c] \o down[c] = Listed(Len(got[c] \o down[c]))
  /\ handler["sync"] # "gone" =>
       /\ local["sync"].received \in {local["sync"].sent, local["sync"].sent + 1}
       /\ Len(got["sync"] \o down["sync"]) <= local["sync"].sent
  /\ trailer["sync"] = "OK" => Len(got["sync"] \o down["sync"]) = Items

\* Main makes all of its calls and every handler ends, whatever is lost and even
\* if a channel that a handler waits for is never closed
\* (grpc/fundamentals/server/main.go:47-53, :91-97, :121-133).
EverythingEnds ==
  <>[](at > Len(calls) /\ \A c \in Call : handler[c] \in {"none", "gone"})
=============================================================================
