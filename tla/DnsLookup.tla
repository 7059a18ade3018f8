----------------------------- MODULE DnsLookup -----------------------------
(***************************************************************************)
(* One call of dns.LookupA (internal/dns): the UDP query and the loop that *)
(* filters its responses, the TCP exchange that follows a truncated one,   *)
(* and what runs beside the call: the context that is cancelled or         *)
(* expires, the AfterFunc goroutines that close a socket when it does, the *)
(* socket deadlines, and a network that may send anything at any time.     *)
(*                                                                         *)
(* A message is what the code tells apart: whether its id is the query's,  *)
(* whether it decodes, whether it answers the question, TC, RCODE and its  *)
(* matching A records.  now is the wall clock against the one deadline     *)
(* that the context and both sockets share; each of their timers runs at   *)
(* some moment after it.  heard, response and readLive are history.        *)
(***************************************************************************)
EXTENDS Naturals

CONSTANTS Lengths,   \* the length prefixes a TCP server may send
          None       \* no message

ASSUME DnsAssumption == \A n \in Lengths : n \in Nat /\ n < 65536

Transport == {"udp", "tcp"}

\* foreign: another id, or less than two bytes; garbled: does not decode;
\* mismatch: fails ValidateResponse otherwise; match: passes it.
Message == [kind : {"foreign", "garbled", "mismatch", "match"},
            tc : BOOLEAN, rcode : {0, 3}, answers : {"none", "good", "bad"}]

ASSUME NoneAssumption == None \notin Message

VARIABLES pc,        \* where the call is
          ctx,       \* ctx.Err(): live for nil
          now,       \* the clock: before or after the deadline
          conn,      \* each socket
          watch,     \* the AfterFunc of each socket
          packet,    \* the message being judged
          need,      \* bytes the current io.ReadFull still waits for
          length,    \* the declared length of the TCP response
          result,    \* what the call returns
          heard,     \* the first UDP message with the query's id that decided
          response,  \* the TCP response
          readLive   \* the context was live when the last read returned

msgVars  == <<packet, need, length>>
histVars == <<heard, response, readLive>>
vars == <<pc, ctx, now, conn, watch, msgVars, result, histVars>>

\* The caller's context may have ended before the call.
Init ==
  /\ pc = "begin"
  /\ ctx \in {"live", "canceled", "expired"}
  /\ now = IF ctx = "expired" THEN "late" ELSE "early"
  /\ conn = [t \in Transport |-> "none"]
  /\ watch = [t \in Transport |-> "off"]
  /\ packet = None /\ need = 0 /\ length = 0
  /\ result = "none"
  /\ heard = None /\ response = None /\ readLive = TRUE

-----------------------------------------------------------------------------
(* Steps of the call.                                                      *)

Goto(at) == pc' = at

\* A return from the exchange over t: first its deferred calls.
Fail(t, r) == result' = r /\ Goto(IF t = "tcp" THEN "leave" ELSE "return")

\* if err := ctx.Err(); err != nil: the context's error, or on to the next.
CheckThen(t, next) ==
  \/ ctx # "live" /\ Fail(t, ctx)
  \/ ctx = "live" /\ Goto(next) /\ UNCHANGED result

\* Mutant: the socket's own error is returned.
RawError(cause) == cause

\* lookupIOError: the context's error if it has ended, or if a socket timed
\* out at the deadline before the context's timer ran.
IOError(cause) ==
  IF ctx # "live" THEN ctx
  ELSE IF now = "late" /\ cause = "timeout" THEN "expired" ELSE cause

\* The socket was closed under the operation; a dial, which has none yet, ends
\* with the context.
Severed(t) == conn[t] = "closed" \/ (conn[t] = "none" /\ ctx # "live")

\* An operation on t's socket is cut off by the context or by the deadline.
Interrupt(t) == \E cause \in {"closed", "timeout"} :
  /\ cause = "closed" => Severed(t)
  /\ cause = "timeout" => now = "late"
  /\ Fail(t, IOError(cause))

\* It fails for a reason of the network or the peer.
Refused(t) == Fail(t, IOError("refused"))

Quiet == UNCHANGED <<ctx, now, conn, watch, msgVars, histVars>>

\* Lines 18 to 23.
Begin == pc = "begin" /\ CheckThen("udp", "prepare") /\ Quiet

\* The id and the encoded query, or an invalid name.
Prepare ==
  /\ pc = "prepare"
  /\ \/ Goto("dialUDP") /\ UNCHANGED result
     \/ Fail("udp", "encode")
  /\ Quiet

\* DialContext succeeds.
Dial(t, at, next) ==
  /\ pc = at
  /\ conn' = [conn EXCEPT ![t] = "open"]
  /\ Goto(next)
  /\ UNCHANGED <<ctx, now, watch, msgVars, result, histVars>>

\* Mutant: no AfterFunc.
WatchForgotten(t, at, next) ==
  /\ pc = at /\ Goto(next)
  /\ UNCHANGED <<ctx, now, conn, watch, msgVars, result, histVars>>

\* context.AfterFunc(ctx, conn.Close).
Watch(t, at, next) ==
  /\ pc = at /\ Goto(next)
  /\ watch' = [watch EXCEPT ![t] = "armed"]
  /\ UNCHANGED <<ctx, now, conn, msgVars, result, histVars>>

\* SetDeadline and Write succeed.
Send(t, at, next) ==
  /\ pc = at /\ conn[t] = "open" /\ Goto(next)
  /\ need' = 2
  /\ UNCHANGED <<ctx, now, conn, watch, packet, length, result, histVars>>

\* The top of the loop.
Loop == pc = "loop" /\ CheckThen("udp", "read") /\ Quiet

\* conn.Read returns a datagram.
ReadUDP == \E m \in Message :
  /\ pc = "read" /\ conn["udp"] = "open"
  /\ packet' = m /\ readLive' = (ctx = "live")
  /\ Goto("got")
  /\ UNCHANGED <<ctx, now, conn, watch, need, length, result, heard, response>>

\* Mutant: the context is not looked at again after the read.
GotUnchecked == pc = "got" /\ Goto("judge") /\ UNCHANGED result /\ Quiet

\* The context is checked again after the read.
Got == pc = "got" /\ CheckThen("udp", "judge") /\ Quiet

\* A message of another transaction or question: keep reading.
Ignore ==
  /\ pc = "judge" /\ packet.kind \in {"foreign", "mismatch"}
  /\ Goto("loop")
  /\ UNCHANGED <<result, heard, ctx, now, conn, watch, msgVars, response,
                 readLive>>

\* validateRCode, then ExtractARecords; no matching record is no error.
Verdict(m) ==
  IF m.rcode # 0 THEN "rcode"
  ELSE IF m.answers = "bad" THEN "baddata" ELSE "addresses"

\* Mutant: the UDP socket stays open during the fallback.
DecideKeepUDP ==
  /\ pc = "judge" /\ packet.kind \in {"garbled", "match"}
  /\ heard' = packet
  /\ \/ packet.kind = "garbled" /\ Fail("udp", "decode")
     \/ packet.kind = "match" /\ packet.tc /\ Goto("enter") /\ UNCHANGED result
     \/ /\ packet.kind = "match" /\ ~packet.tc
        /\ Fail("udp", Verdict(packet))
  /\ UNCHANGED <<ctx, now, conn, watch, msgVars, response, readLive>>

\* The deciding UDP message: malformed, truncated or final.
Decide ==
  /\ pc = "judge" /\ packet.kind \in {"garbled", "match"}
  /\ heard' = packet
  /\ \/ packet.kind = "garbled" /\ Fail("udp", "decode") /\ UNCHANGED conn
     \/ /\ packet.kind = "match" /\ packet.tc
        /\ conn' = [conn EXCEPT !["udp"] = "closed"]
        /\ Goto("enter") /\ UNCHANGED result
     \/ /\ packet.kind = "match" /\ ~packet.tc
        /\ Fail("udp", Verdict(packet)) /\ UNCHANGED conn
  /\ UNCHANGED <<ctx, now, watch, msgVars, response, readLive>>

-----------------------------------------------------------------------------
(* exchangeTCP and exchangeTCPConn.                                        *)

\* The two checks of the context, before and after dialling.
Enter == pc = "enter" /\ CheckThen("tcp", "dialTCP") /\ Quiet
Dialed == pc = "dialed" /\ CheckThen("tcp", "watchTCP") /\ Quiet

\* io.ReadFull: some of the bytes still needed arrive.
ReadSome(at) ==
  /\ pc = at /\ conn["tcp"] = "open" /\ need > 0
  /\ need' \in 0 .. need - 1
  /\ readLive' = (ctx = "live")
  /\ UNCHANGED <<pc, ctx, now, conn, watch, packet, length, result, heard,
                 response>>

\* The prefix is complete: a length below the header's is refused, else the
\* payload is read.
Prefix == \E n \in Lengths :
  /\ pc = "prefix" /\ need = 0
  /\ length' = n
  /\ \/ n < 12 /\ Fail("tcp", "length") /\ UNCHANGED need
     \/ n >= 12 /\ need' = n /\ Goto("body") /\ UNCHANGED result
  /\ UNCHANGED <<ctx, now, conn, watch, packet, histVars>>

\* The payload is complete; a bare header has no question to match.
Body == \E m \in Message :
  /\ pc = "body" /\ need = 0
  /\ length = 12 => m.kind # "match"
  /\ packet' = m /\ response' = m
  /\ Goto("complete")
  /\ UNCHANGED <<ctx, now, conn, watch, need, length, result, heard, readLive>>

\* The last check of the context.
Complete == pc = "complete" /\ CheckThen("tcp", "leave") /\ Quiet

\* The deferred stop and conn.Close of the exchange, and its error.
Leave ==
  /\ pc = "leave"
  /\ watch' = [watch EXCEPT !["tcp"] = IF @ = "armed" THEN "off" ELSE @]
  /\ conn' = [conn EXCEPT !["tcp"] = IF @ = "none" THEN @ ELSE "closed"]
  /\ Goto(IF result = "none" THEN "judgeTCP" ELSE "return")
  /\ UNCHANGED <<ctx, now, msgVars, result, histVars>>

\* Mutant: TC over TCP is not an error.
JudgeTCPAnyway ==
  /\ pc = "judgeTCP"
  /\ Fail("udp", CASE packet.kind = "garbled" -> "decode"
                   [] packet.kind \in {"foreign", "mismatch"} -> "mismatch"
                   [] packet.kind = "match" -> Verdict(packet))
  /\ Quiet

\* The TCP response: every mismatch is an error here, and so is TC.
JudgeTCP ==
  /\ pc = "judgeTCP"
  /\ Fail("udp", CASE packet.kind = "garbled" -> "decode"
                   [] packet.kind \in {"foreign", "mismatch"} -> "mismatch"
                   [] packet.kind = "match" ->
                        IF packet.tc THEN "truncated" ELSE Verdict(packet))
  /\ Quiet

\* The deferred calls of LookupA: stop, conn.Close, cancel.
Return ==
  /\ pc = "return"
  /\ watch' = [watch EXCEPT !["udp"] = IF @ = "armed" THEN "off" ELSE @]
  /\ conn' = [conn EXCEPT !["udp"] = IF @ = "none" THEN @ ELSE "closed"]
  /\ ctx' = IF ctx = "live" THEN "canceled" ELSE ctx
  /\ Goto("done")
  /\ UNCHANGED <<now, msgVars, result, histVars>>

-----------------------------------------------------------------------------
(* What runs beside the call.                                              *)

\* The caller cancels.
Cancel ==
  /\ ctx = "live" /\ pc # "done"
  /\ ctx' = "canceled"
  /\ UNCHANGED <<pc, now, conn, watch, msgVars, result, histVars>>

\* The deadline passes.
Deadline ==
  /\ now = "early" /\ pc # "done"
  /\ now' = "late"
  /\ UNCHANGED <<pc, ctx, conn, watch, msgVars, result, histVars>>

\* The context's timer runs.
Expire ==
  /\ ctx = "live" /\ now = "late"
  /\ ctx' = "expired"
  /\ UNCHANGED <<pc, now, conn, watch, msgVars, result, histVars>>

\* The end of the context starts an armed AfterFunc; stop comes too late now.
Fire(t) ==
  /\ ctx # "live" /\ watch[t] = "armed"
  /\ watch' = [watch EXCEPT ![t] = "firing"]
  /\ UNCHANGED <<pc, ctx, now, conn, msgVars, result, histVars>>

\* Its goroutine closes the socket, which may be closed already.
CloseByContext(t) ==
  /\ watch[t] = "firing"
  /\ watch' = [watch EXCEPT ![t] = "ran"]
  /\ conn' = [conn EXCEPT ![t] = "closed"]
  /\ UNCHANGED <<pc, ctx, now, msgVars, result, histVars>>

-----------------------------------------------------------------------------
\* Where the call is inside an operation on each socket.
UdpIO == {"dialUDP", "send", "read"}
TcpIO == {"dialTCP", "write", "prefix", "body"}

Blocked(t) ==
  pc \in (IF t = "udp" THEN UdpIO ELSE TcpIO) /\ (pc = "body" => need > 0)

Interrupted == \E t \in Transport : Blocked(t) /\ Interrupt(t) /\ Quiet
NetworkError == \E t \in Transport : Blocked(t) /\ Refused(t) /\ Quiet

\* The steps the call takes by itself.
Own ==
  \/ Begin \/ Prepare \/ Loop \/ Got \/ Ignore \/ Decide
  \/ Watch("udp", "watchUDP", "send") \/ Watch("tcp", "watchTCP", "write")
  \/ Enter \/ Dialed \/ Prefix \/ Body \/ Complete \/ Leave \/ JudgeTCP
  \/ Interrupted \/ Return

\* The steps that need the network or the peer.
Network ==
  \/ Dial("udp", "dialUDP", "watchUDP") \/ Dial("tcp", "dialTCP", "dialed")
  \/ Send("udp", "send", "loop") \/ Send("tcp", "write", "prefix")
  \/ ReadUDP \/ ReadSome("prefix") \/ ReadSome("body")
  \/ NetworkError

Context ==
  Expire \/ \E t \in Transport : Fire(t) \/ CloseByContext(t)

Next == Own \/ Network \/ Context \/ Cancel \/ Deadline

Spec == Init /\ [][Next]_vars

\* The call and the runtime's timers and goroutines run; neither the network
\* nor the caller nor the clock need do anything.
FairSpec ==
  /\ Spec /\ WF_vars(Own) /\ WF_vars(Expire)
  /\ \A t \in Transport : WF_vars(Fire(t)) /\ WF_vars(CloseByContext(t))

-----------------------------------------------------------------------------
(* Correctness.                                                            *)

Results == {"none", "canceled", "expired", "closed", "timeout", "refused",
            "encode", "decode", "mismatch", "truncated", "length", "rcode",
            "baddata", "addresses"}

\* Type invariant: every variable holds a value of its kind, and a message is
\* there wherever one is judged.
TypeOK ==
  /\ pc \in {"begin", "prepare", "dialUDP", "watchUDP", "send", "loop", "read",
             "got", "judge", "enter", "dialTCP", "dialed", "watchTCP", "write",
             "prefix", "body", "complete", "leave", "judgeTCP", "return",
             "done"}
  /\ ctx \in {"live", "canceled", "expired"} /\ now \in {"early", "late"}
  /\ conn \in [Transport -> {"none", "open", "closed"}]
  /\ watch \in [Transport -> {"off", "armed", "firing", "ran"}]
  /\ packet \in Message \cup {None} /\ need \in Nat /\ length \in Nat
  /\ result \in Results
  /\ heard \in Message \cup {None} /\ response \in Message \cup {None}
  /\ readLive \in BOOLEAN
  /\ pc \in {"got", "judge", "judgeTCP"} => packet # None

\* The message that settles a lookup: the first UDP message of this
\* transaction that decides, or, if that one is truncated, the TCP response.
Settling == IF heard # None /\ heard.tc /\ heard.kind = "match"
            THEN response ELSE heard

\* Addresses are those of the settling message, which answers the question, is
\* complete and reports no error; a response code or bad data likewise is
\* reported only from a complete answer.  What a truncated datagram said, or
\* a datagram of another transaction, never shows.
AnswerIsTrusted ==
  /\ result \in {"addresses", "rcode", "baddata"} =>
       /\ Settling # None /\ Settling.kind = "match" /\ ~Settling.tc
  /\ result = "addresses" => Settling.rcode = 0 /\ Settling.answers # "bad"
  /\ result = "rcode" => Settling.rcode # 0

\* No answer is returned that was read after the context had ended.
NoAnswerAfterEnd ==
  result \in {"addresses", "rcode", "baddata"} => readLive

\* The caller never sees the socket's side of a cancellation or a deadline, a
\* closed connection or an I/O timeout, but always the context's error.
ContextErrorReported == result \notin {"closed", "timeout"}

\* Never are both sockets in use, and a lookup that has returned leaves no
\* socket open and no AfterFunc waiting.
NothingLeft ==
  /\ ~(conn["udp"] = "open" /\ conn["tcp"] = "open")
  /\ pc = "done" => \A t \in Transport :
       conn[t] # "open" /\ watch[t] # "armed"

\* Cancelling ends a lookup, wherever it is blocked, before any deadline; the
\* deadline ends it, whatever the network keeps sending.
LookupEnds ==
  /\ ctx = "canceled" ~> pc = "done"
  /\ now = "late" ~> pc = "done"
=============================================================================
