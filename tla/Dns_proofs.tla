----------------------------- MODULE Dns_proofs -----------------------------
(***************************************************************************)
(* Theorems about DnsLookup, for every set of length prefixes a server may *)
(* send: what an answer rests on, and what becomes of the context's end;   *)
(* and about DnsWire, for every set of messages and every limit on labels, *)
(* names and pointers: the decoder reads nothing outside of the message,   *)
(* keeps no more items than fit it, and every iteration of the loop over a *)
(* name uses up a limited quantity.                                        *)
(***************************************************************************)
EXTENDS DnsLookup, DnsWire, SequenceTheorems, TLAPS

-----------------------------------------------------------------------------
(* DnsLookup.                                                              *)

UdpStage == {"begin", "prepare", "dialUDP", "watchUDP", "send", "loop", "read",
             "got", "judge"}
TcpStage == {"enter", "dialTCP", "dialed", "watchTCP", "write", "prefix",
             "body", "complete"}
Final    == {"addresses", "rcode", "baddata"}

\* The exchange over TCP has succeeded and its response is not judged yet.
Unjudged == pc = "judgeTCP" \/ (pc = "leave" /\ result = "none")

\* A result is there from the first failing step on, and only then.
Returning ==
  /\ result # "none" => pc \in {"leave", "return", "done"}
  /\ pc \in {"return", "done"} => result # "none"
  /\ pc = "leave" => result \notin Final

\* A message that is judged was read while the context was live.
ReadInv ==
  /\ ~readLive => ctx # "live"
  /\ pc = "judge" \/ Unjudged => readLive

\* TCP is entered with a truncated answer, and judged is what it returned.
FallbackInv ==
  /\ pc \in TcpStage \/ Unjudged =>
       heard # None /\ heard.kind = "match" /\ heard.tc
  /\ pc = "complete" \/ Unjudged => packet # None /\ response = packet

\* A socket is closed under the call only because the context has ended.
SocketInv ==
  /\ \A t \in Transport : watch[t] \in {"firing", "ran"} => ctx # "live"
  /\ pc \in UdpStage /\ conn["udp"] = "closed" => ctx # "live"
  /\ pc \in TcpStage /\ conn["tcp"] = "closed" => ctx # "live"
  /\ pc \in UdpStage => conn["tcp"] = "none" /\ watch["tcp"] = "off"

IInv ==
  /\ TypeOK /\ Returning /\ ReadInv /\ FallbackInv /\ SocketInv
  /\ AnswerIsTrusted /\ NoAnswerAfterEnd /\ ContextErrorReported

-----------------------------------------------------------------------------
(* Types.                                                                  *)

\* No step leaves the types; a judged message is there.
LEMMA TypeStep == IInv /\ [Next]_vars => TypeOK'
<1> SUFFICES ASSUME TypeOK, Returning, FallbackInv, [Next]_vars PROVE TypeOK'
  BY DEF IInv
<1> USE DEF TypeOK, Results, msgVars, histVars
<1>1. CASE Begin \/ Loop \/ Got
  BY <1>1 DEF Begin, Loop, Got, CheckThen, Fail, Goto, Quiet
<1>2. CASE Prepare
  BY <1>2 DEF Prepare, Fail, Goto, Quiet
<1>3. CASE Ignore
  BY <1>3 DEF Ignore, Goto, msgVars
<1>4. CASE Decide
  BY <1>4 DEF Decide, Fail, Goto, Verdict
<1>5. CASE Watch("udp", "watchUDP", "send") \/ Watch("tcp", "watchTCP", "write")
  BY <1>5 DEF Watch, Goto
<1>6. CASE Enter \/ Dialed \/ Complete
  BY <1>6 DEF Enter, Dialed, Complete, CheckThen, Fail, Goto, Quiet
<1>7. CASE Prefix
  <2>1. PICK n \in Lengths : Prefix!(n)
    BY <1>7 DEF Prefix
  <2>2. n \in Nat
    BY <2>1, DnsAssumption
  <2> QED
    BY <2>1, <2>2 DEF Prefix, Fail, Goto
<1>8. CASE Body
  BY <1>8 DEF Body, Goto
<1>9. CASE Leave
  <2>1. /\ conn' \in [Transport -> {"none", "open", "closed"}]
        /\ watch' \in [Transport -> {"off", "armed", "firing", "ran"}]
    BY <1>9 DEF Leave
  <2>2. /\ pc' \in {"judgeTCP", "return"}
        /\ pc' = "judgeTCP" => packet' # None
    BY <1>9 DEF Leave, Goto, FallbackInv, Unjudged
  <2>3. UNCHANGED <<ctx, now, packet, need, length, result, heard, response,
                    readLive>>
    BY <1>9 DEF Leave
  <2> QED
    BY <2>1, <2>2, <2>3
<1>10. CASE JudgeTCP
  <2>1. packet.kind \in {"foreign", "garbled", "mismatch", "match"}
    BY <1>10 DEF JudgeTCP, Message
  <2>2. result' \in {"decode", "mismatch", "truncated", "rcode", "baddata",
                     "addresses"}
    BY <1>10, <2>1 DEF JudgeTCP, Fail, Verdict
  <2> QED
    BY <1>10, <2>2 DEF JudgeTCP, Fail, Goto, Quiet
<1>11. CASE Interrupted
  BY <1>11 DEF Interrupted, Interrupt, IOError, Fail, Goto, Quiet
<1>12. CASE Return
  BY <1>12 DEF Return, Goto
<1>13. CASE Dial("udp", "dialUDP", "watchUDP") \/ Dial("tcp", "dialTCP", "dialed")
  BY <1>13 DEF Dial, Goto
<1>14. CASE Send("udp", "send", "loop") \/ Send("tcp", "write", "prefix")
  BY <1>14 DEF Send, Goto
<1>15. CASE ReadUDP
  <2>1. readLive' \in BOOLEAN
    BY <1>15 DEF ReadUDP
  <2>2. packet' \in Message
    BY <1>15 DEF ReadUDP
  <2> QED
    BY <1>15, <2>1, <2>2, NoneAssumption DEF ReadUDP, Goto
<1>16. CASE ReadSome("prefix") \/ ReadSome("body")
  <2>1. need' \in Nat
    BY <1>16 DEF ReadSome
  <2>2. readLive' \in BOOLEAN
    BY <1>16 DEF ReadSome
  <2> QED
    BY <1>16, <2>1, <2>2 DEF ReadSome
<1>17. CASE NetworkError
  <2>1. PICK t \in Transport : Refused(t) /\ Quiet
    BY <1>17 DEF NetworkError
  <2>2. result' \in {"canceled", "expired", "refused"}
    BY <2>1 DEF Refused, IOError, Fail
  <2> QED
    BY <2>1, <2>2 DEF Refused, Fail, Goto, Quiet
<1>18. CASE Context
  BY <1>18 DEF Context, Expire, Fire, CloseByContext
<1>19. CASE Cancel \/ Deadline
  BY <1>19 DEF Cancel, Deadline
<1>20. CASE UNCHANGED vars
  BY <1>20 DEF vars
<1> QED
  BY <1>1, <1>2, <1>3, <1>4, <1>5, <1>6, <1>7, <1>8, <1>9, <1>10, <1>11, <1>12, <1>13, <1>14, <1>15, <1>16, <1>17, <1>18, <1>19, <1>20
  DEF Next, Own, Network, Context

-----------------------------------------------------------------------------
(* Control.                                                                *)

\* No step returns a result too early, judges a message read too late, or
\* falls back without a truncated answer.
LEMMA ControlStep ==
  IInv /\ [Next]_vars => Returning' /\ ReadInv' /\ FallbackInv'
<1> SUFFICES ASSUME IInv, [Next]_vars
             PROVE  Returning' /\ ReadInv' /\ FallbackInv'
  OBVIOUS
<1>0. /\ Returning /\ ReadInv /\ FallbackInv
      /\ ctx \in {"live", "canceled", "expired"} /\ readLive \in BOOLEAN
      /\ packet \in Message \cup {None}
  BY DEF IInv, TypeOK
<1>00. pc = "judge" => packet # None
  BY DEF IInv, TypeOK
<1> USE <1>0, NoneAssumption
    DEF Returning, ReadInv, FallbackInv, Unjudged, TcpStage, Final, msgVars,
        histVars
<1>1. CASE Begin \/ Loop \/ Got
  BY <1>1 DEF Begin, Loop, Got, CheckThen, Fail, Goto, Quiet
<1>2. CASE Prepare
  BY <1>2 DEF Prepare, Fail, Goto, Quiet
<1>3. CASE Ignore
  BY <1>3 DEF Ignore, Goto
<1>4. CASE Decide
  <2>1. /\ heard' = packet /\ packet # None /\ pc = "judge"
        /\ UNCHANGED <<ctx, packet, response, readLive>>
    BY <1>4, <1>00 DEF Decide
  <2>2. \/ result' # "none" /\ pc' = "return"
        \/ /\ packet.kind = "match" /\ packet.tc
           /\ result' = result /\ pc' = "enter"
    BY <1>4 DEF Decide, Fail, Goto, Verdict
  <2> QED
    BY <2>1, <2>2
<1>5. CASE Watch("udp", "watchUDP", "send") \/ Watch("tcp", "watchTCP", "write")
  BY <1>5 DEF Watch, Goto
<1>6. CASE Enter \/ Dialed \/ Complete
  BY <1>6 DEF Enter, Dialed, Complete, CheckThen, Fail, Goto, Quiet
<1>7. CASE Prefix
  BY <1>7 DEF Prefix, Fail, Goto
<1>8. CASE Body
  BY <1>8 DEF Body, Goto
<1>9. CASE Leave
  BY <1>9 DEF Leave, Goto
<1>10. CASE JudgeTCP
  <2>1. packet.kind \in {"foreign", "garbled", "mismatch", "match"}
    BY <1>10 DEF JudgeTCP, Message
  <2>2. result' # "none" /\ pc' = "return"
    BY <1>10, <2>1 DEF JudgeTCP, Fail, Goto, Verdict
  <2> QED
    BY <1>10, <2>2 DEF JudgeTCP, Quiet
<1>11. CASE Interrupted
  BY <1>11 DEF Interrupted, Blocked, Interrupt, IOError, Fail, Goto, Quiet
<1>12. CASE Return
  BY <1>12 DEF Return, Goto
<1>13. CASE Dial("udp", "dialUDP", "watchUDP") \/ Dial("tcp", "dialTCP", "dialed")
  BY <1>13 DEF Dial, Goto
<1>14. CASE Send("udp", "send", "loop") \/ Send("tcp", "write", "prefix")
  BY <1>14 DEF Send, Goto
<1>15. CASE ReadUDP
  BY <1>15 DEF ReadUDP, Goto
<1>16. CASE ReadSome("prefix") \/ ReadSome("body")
  BY <1>16 DEF ReadSome
<1>17. CASE NetworkError
  BY <1>17 DEF NetworkError, Blocked, Refused, IOError, Fail, Goto, Quiet
<1>18. CASE Context
  BY <1>18 DEF Context, Expire, Fire, CloseByContext
<1>19. CASE Cancel \/ Deadline
  BY <1>19 DEF Cancel, Deadline
<1>20. CASE UNCHANGED vars
  BY <1>20 DEF vars
<1> QED
  BY <1>1, <1>2, <1>3, <1>4, <1>5, <1>6, <1>7, <1>8, <1>9, <1>10, <1>11, <1>12, <1>13, <1>14, <1>15, <1>16, <1>17, <1>18, <1>19, <1>20
  DEF Next, Own, Network, Context

-----------------------------------------------------------------------------
(* Sockets.                                                                *)

\* Only the AfterFunc closes a socket under the call, and only once the
\* context has ended.
LEMMA SocketStep == IInv /\ [Next]_vars => SocketInv'
<1> SUFFICES ASSUME IInv, [Next]_vars PROVE SocketInv'
  OBVIOUS
<1>0. /\ SocketInv /\ ctx \in {"live", "canceled", "expired"}
      /\ conn \in [Transport -> {"none", "open", "closed"}]
      /\ watch \in [Transport -> {"off", "armed", "firing", "ran"}]
  BY DEF IInv, TypeOK
<1> USE <1>0 DEF SocketInv, UdpStage, TcpStage, Transport
<1>1. CASE Begin \/ Loop \/ Got
  BY <1>1 DEF Begin, Loop, Got, CheckThen, Fail, Goto, Quiet
<1>2. CASE Prepare \/ Prefix \/ JudgeTCP
  BY <1>2 DEF Prepare, Prefix, JudgeTCP, Fail, Goto, Quiet
<1>3. CASE Ignore \/ Body
  BY <1>3 DEF Ignore, Body, Goto
<1>4. CASE Decide
  BY <1>4 DEF Decide, Fail, Goto
<1>5. CASE Watch("udp", "watchUDP", "send") \/ Watch("tcp", "watchTCP", "write")
  BY <1>5 DEF Watch, Goto
<1>6. CASE Enter \/ Dialed \/ Complete
  BY <1>6 DEF Enter, Dialed, Complete, CheckThen, Fail, Goto, Quiet
<1>7. CASE Leave \/ Return
  BY <1>7 DEF Leave, Return, Goto
<1>8. CASE Interrupted \/ NetworkError
  BY <1>8 DEF Interrupted, NetworkError, Interrupt, Refused, Fail, Goto, Quiet
<1>9. CASE Dial("udp", "dialUDP", "watchUDP") \/ Dial("tcp", "dialTCP", "dialed")
  BY <1>9 DEF Dial, Goto
<1>10. CASE Send("udp", "send", "loop") \/ Send("tcp", "write", "prefix")
  BY <1>10 DEF Send, Goto
<1>11. CASE ReadUDP \/ ReadSome("prefix") \/ ReadSome("body")
  BY <1>11 DEF ReadUDP, ReadSome, Goto
<1>12. CASE Context
  BY <1>12 DEF Context, Expire, Fire, CloseByContext
<1>13. CASE Cancel \/ Deadline
  BY <1>13 DEF Cancel, Deadline
<1>14. CASE UNCHANGED vars
  BY <1>14 DEF vars
<1> QED
  BY <1>1, <1>2, <1>3, <1>4, <1>5, <1>6, <1>7, <1>8, <1>9, <1>10, <1>11, <1>12, <1>13, <1>14
  DEF Next, Own, Network, Context

-----------------------------------------------------------------------------
(* Answers.                                                                *)

\* What is returned is trusted, timely and no socket error.
Answers == AnswerIsTrusted /\ NoAnswerAfterEnd /\ ContextErrorReported

\* A step keeps this that leaves the history alone and returns no answer.
LEMMA NoAnswer ==
  ASSUME Answers, UNCHANGED histVars,
         result' = result \/ result' \notin Final \cup {"closed", "timeout"}
  PROVE  Answers'
BY DEF Answers, AnswerIsTrusted, Settling, NoAnswerAfterEnd,
       ContextErrorReported, histVars, Final

\* A step keeps it that returns nothing yet.
LEMMA NothingReturned == result' = "none" => Answers'
BY DEF Answers, AnswerIsTrusted, NoAnswerAfterEnd, ContextErrorReported

\* Every step keeps it.
LEMMA AnswerStep == IInv /\ [Next]_vars => Answers'
<1> SUFFICES ASSUME IInv, [Next]_vars PROVE Answers'
  OBVIOUS
<1>0. Answers /\ Returning /\ ReadInv /\ FallbackInv /\ SocketInv /\ TypeOK
  BY DEF IInv, Answers
<1> HIDE DEF IInv
<1>1. CASE Begin \/ Loop \/ Got \/ Enter \/ Dialed \/ Complete
  <2>1. /\ UNCHANGED histVars
        /\ result' # result => result' = ctx /\ ctx # "live"
    BY <1>1
    DEF Begin, Loop, Got, Enter, Dialed, Complete, CheckThen, Fail, Quiet
  <2>2. ctx \in {"live", "canceled", "expired"}
    BY <1>0 DEF TypeOK
  <2> QED
    BY <1>0, <2>1, <2>2, NoAnswer DEF Final
<1>2. CASE Prepare \/ Prefix
  <2>1. UNCHANGED histVars
        /\ (result' = result \/ result' \in {"encode", "length"})
    BY <1>2 DEF Prepare, Prefix, Fail, Quiet
  <2> QED
    BY <1>0, <2>1, NoAnswer DEF Final
<1>3. CASE Ignore \/ Leave \/ Return \/ Context \/ Cancel \/ Deadline
  <2>1. UNCHANGED histVars /\ result' = result
    BY <1>3 DEF Ignore, Leave, Return, Context, Expire, Fire, CloseByContext,
                Cancel, Deadline, histVars
  <2> QED
    BY <1>0, <2>1, NoAnswer
<1>4. CASE \/ Watch("udp", "watchUDP", "send")
           \/ Watch("tcp", "watchTCP", "write")
           \/ Dial("udp", "dialUDP", "watchUDP")
           \/ Dial("tcp", "dialTCP", "dialed")
           \/ Send("udp", "send", "loop") \/ Send("tcp", "write", "prefix")
           \/ UNCHANGED vars
  <2>1. UNCHANGED histVars /\ result' = result
    BY <1>4 DEF Watch, Dial, Send, vars
  <2> QED
    BY <1>0, <2>1, NoAnswer
<1>5. CASE ReadUDP \/ ReadSome("prefix") \/ ReadSome("body") \/ Body
  <2>1. /\ pc \in {"read", "prefix", "body"} /\ result' = result
    BY <1>5 DEF ReadUDP, ReadSome, Body
  <2>2. result = "none"
    BY <1>0, <2>1 DEF Returning
  <2> QED
    BY <2>1, <2>2, NothingReturned
<1>6. CASE NetworkError
  <2>1. UNCHANGED histVars /\ result' = IOError("refused")
    BY <1>6 DEF NetworkError, Refused, Fail, Quiet
  <2>2. IOError("refused") \in {"canceled", "expired", "refused"}
    BY <1>0 DEF IOError, TypeOK
  <2> QED
    BY <1>0, <2>1, <2>2, NoAnswer DEF Final
<1>7. CASE Interrupted
  <2>1. PICK t \in Transport : Blocked(t) /\ Interrupt(t) /\ Quiet
    BY <1>7 DEF Interrupted
  <2>2. PICK cause \in {"closed", "timeout"} :
          /\ cause = "closed" => Severed(t)
          /\ cause = "timeout" => now = "late"
          /\ result' = IOError(cause)
    BY <2>1 DEF Interrupt, Fail
  <2>3. cause = "closed" => ctx # "live"
    <3>1. Severed(t) => ctx # "live"
      BY <1>0, <2>1 DEF Severed, SocketInv, Blocked, UdpIO, TcpIO, UdpStage,
                        TcpStage, Transport
    <3> QED
      BY <2>2, <3>1
  <2>4. IOError(cause) \in {"canceled", "expired"}
    BY <1>0, <2>2, <2>3 DEF IOError, TypeOK
  <2>5. UNCHANGED histVars
    BY <2>1 DEF Quiet
  <2> QED
    BY <1>0, <2>2, <2>4, <2>5, NoAnswer DEF Final
<1>8. CASE Decide
  <2>1. /\ pc = "judge" /\ heard' = packet /\ readLive' = readLive
        /\ packet \in Message
    BY <1>0, <1>8 DEF Decide, TypeOK
  <2>2. result = "none" /\ readLive
    BY <1>0, <2>1 DEF Returning, ReadInv
  <2>3. CASE result' \in {"none", "decode"}
    BY <2>3 DEF Answers, AnswerIsTrusted, NoAnswerAfterEnd, ContextErrorReported
  <2>4. CASE packet.kind = "match" /\ ~packet.tc /\ result' = Verdict(packet)
    <3>1. Settling' = packet /\ packet # None
      BY <2>1, <2>4, NoneAssumption DEF Settling
    <3>2. Verdict(packet) \in Final
      BY DEF Verdict, Final
    <3> QED
      BY <2>1, <2>2, <2>4, <3>1, <3>2
      DEF Answers, AnswerIsTrusted, NoAnswerAfterEnd, ContextErrorReported,
          Verdict, Final
  <2> QED
    BY <1>8, <2>2, <2>3, <2>4 DEF Decide, Fail
<1>9. CASE JudgeTCP
  <2>1. /\ pc = "judgeTCP" /\ UNCHANGED histVars /\ packet \in Message
    BY <1>0, <1>9 DEF JudgeTCP, Quiet, TypeOK
  <2>2. /\ readLive /\ heard # None /\ heard.kind = "match" /\ heard.tc
        /\ response = packet
    BY <1>0, <2>1 DEF ReadInv, FallbackInv, Unjudged
  <2>3. Settling' = packet /\ packet # None /\ readLive'
    BY <2>1, <2>2, NoneAssumption DEF Settling, histVars
  <2>4. packet.kind \in {"foreign", "garbled", "mismatch", "match"}
    BY <2>1 DEF Message
  <2>5. \/ result' \in {"decode", "mismatch", "truncated"}
        \/ packet.kind = "match" /\ ~packet.tc /\ result' = Verdict(packet)
    BY <1>9, <2>4 DEF JudgeTCP, Fail
  <2>6. CASE result' \in {"decode", "mismatch", "truncated"}
    BY <2>6 DEF Answers, AnswerIsTrusted, NoAnswerAfterEnd, ContextErrorReported
  <2>7. CASE packet.kind = "match" /\ ~packet.tc /\ result' = Verdict(packet)
    BY <2>3, <2>7
    DEF Answers, AnswerIsTrusted, NoAnswerAfterEnd, ContextErrorReported,
        Verdict
  <2> QED
    BY <2>5, <2>6, <2>7
<1> QED
  BY <1>1, <1>2, <1>3, <1>4, <1>5, <1>6, <1>7, <1>8, <1>9
  DEF Next, Own, Network

-----------------------------------------------------------------------------
(* Cleaning up.                                                            *)

\* The first socket is closed before the second is dialled, and each return
\* closes its socket and stops its AfterFunc.
CleanedUp ==
  /\ pc \in TcpStage \cup {"leave", "judgeTCP"} => conn["udp"] # "open"
  /\ pc \in {"judgeTCP", "return", "done"} =>
       conn["tcp"] # "open" /\ watch["tcp"] # "armed"
  /\ pc = "done" => conn["udp"] # "open" /\ watch["udp"] # "armed"

\* Every step keeps it.
LEMMA CleanStep == IInv /\ CleanedUp /\ [Next]_vars => CleanedUp'
<1> SUFFICES ASSUME IInv, CleanedUp, [Next]_vars PROVE CleanedUp'
  OBVIOUS
<1>0. /\ SocketInv
      /\ conn \in [Transport -> {"none", "open", "closed"}]
      /\ watch \in [Transport -> {"off", "armed", "firing", "ran"}]
  BY DEF IInv, TypeOK
<1> USE <1>0 DEF CleanedUp, SocketInv, UdpStage, TcpStage, Transport
<1>1. CASE Begin \/ Loop \/ Got
  BY <1>1 DEF Begin, Loop, Got, CheckThen, Fail, Goto, Quiet
<1>2. CASE Prepare \/ Prefix \/ JudgeTCP
  BY <1>2 DEF Prepare, Prefix, JudgeTCP, Fail, Goto, Quiet
<1>3. CASE Ignore \/ Body
  BY <1>3 DEF Ignore, Body, Goto
<1>4. CASE Decide
  BY <1>4 DEF Decide, Fail, Goto
<1>5. CASE Watch("udp", "watchUDP", "send") \/ Watch("tcp", "watchTCP", "write")
  BY <1>5 DEF Watch, Goto
<1>6. CASE Enter \/ Dialed \/ Complete
  BY <1>6 DEF Enter, Dialed, Complete, CheckThen, Fail, Goto, Quiet
<1>7. CASE Leave \/ Return
  BY <1>7 DEF Leave, Return, Goto
<1>8. CASE Interrupted \/ NetworkError
  <2>1. PICK t \in Transport : Blocked(t) /\ Quiet
          /\ pc' = IF t = "tcp" THEN "leave" ELSE "return"
    BY <1>8 DEF Interrupted, NetworkError, Interrupt, Refused, Fail, Goto
  <2>2. CASE t = "udp"
    BY <2>1, <2>2 DEF Blocked, UdpIO, Quiet
  <2>3. CASE t = "tcp"
    BY <2>1, <2>3 DEF Blocked, TcpIO, Quiet
  <2> QED
    BY <2>2, <2>3
<1>9. CASE Dial("udp", "dialUDP", "watchUDP") \/ Dial("tcp", "dialTCP", "dialed")
  BY <1>9 DEF Dial, Goto
<1>10. CASE Send("udp", "send", "loop") \/ Send("tcp", "write", "prefix")
  BY <1>10 DEF Send, Goto
<1>11. CASE ReadUDP \/ ReadSome("prefix") \/ ReadSome("body")
  BY <1>11 DEF ReadUDP, ReadSome, Goto
<1>12. CASE Context
  BY <1>12 DEF Context, Expire, Fire, CloseByContext
<1>13. CASE Cancel \/ Deadline
  BY <1>13 DEF Cancel, Deadline
<1>14. CASE UNCHANGED vars
  BY <1>14 DEF vars
<1> QED
  BY <1>1, <1>2, <1>3, <1>4, <1>5, <1>6, <1>7, <1>8, <1>9, <1>10, <1>11, <1>12, <1>13, <1>14
  DEF Next, Own, Network, Context

-----------------------------------------------------------------------------
(* The theorems.                                                           *)

\* The parts together are inductive.
LEMMA Inductive == Spec => []IInv
<1>1. Init => IInv
  BY NoneAssumption
  DEF Init, IInv, TypeOK, Results, Returning, ReadInv, FallbackInv, SocketInv,
      Unjudged, UdpStage, TcpStage, Final, Transport, AnswerIsTrusted,
      NoAnswerAfterEnd, ContextErrorReported
<1>2. IInv /\ [Next]_vars => IInv'
  BY TypeStep, ControlStep, SocketStep, AnswerStep DEF IInv, Answers
<1> QED
  BY <1>1, <1>2, PTL DEF Spec

\* The variables keep their types, and what is judged is a message.
THEOREM TypeCorrect == Spec => []TypeOK
<1>1. IInv => TypeOK
  BY DEF IInv
<1> QED
  BY <1>1, Inductive, PTL

\* Addresses, response codes and bad data come from the settling message only.
THEOREM AnswersAreTrusted == Spec => []AnswerIsTrusted
<1>1. IInv => AnswerIsTrusted
  BY DEF IInv
<1> QED
  BY <1>1, Inductive, PTL

\* Nothing read after the end of the context is ever returned.
THEOREM NoLateAnswer == Spec => []NoAnswerAfterEnd
<1>1. IInv => NoAnswerAfterEnd
  BY DEF IInv
<1> QED
  BY <1>1, Inductive, PTL

\* A cancellation or deadline is never reported as a socket error.
THEOREM ContextErrorsReported == Spec => []ContextErrorReported
<1>1. IInv => ContextErrorReported
  BY DEF IInv
<1> QED
  BY <1>1, Inductive, PTL

\* Both sockets are never in use at once, and a lookup that has returned, on any
\* path, leaves no socket open and no AfterFunc armed.
THEOREM NothingIsLeft == Spec => []NothingLeft
<1>1. Init => CleanedUp
  BY DEF Init, CleanedUp, TcpStage
<1>2. IInv /\ CleanedUp => NothingLeft
  BY DEF IInv, TypeOK, CleanedUp, SocketInv, UdpStage, TcpStage, NothingLeft,
         Transport
<1> QED
  BY <1>1, <1>2, CleanStep, Inductive, PTL DEF Spec

-----------------------------------------------------------------------------
(* DnsWire: bytes and fields.                                              *)

\* Two bytes make a number, and so do the lower bits of one with another.
LEMMA ByteFacts ==
  ASSUME NEW a \in Byte, NEW b \in Byte
  PROVE  a * 256 + b \in Nat /\ (a % 64) * 256 + b \in Nat
<1>1. a \in 0 .. 255 /\ b \in 0 .. 255
  BY DEF Byte
<1>2. a % 64 \in 0 .. 63
  BY <1>1
<1>3. \A n \in 0 .. 63 : n * 256 + b \in Nat
  BY <1>1
<1> QED
  BY <1>1, <1>2, <1>3

\* A byte read is a byte, and a field of two is a number.
LEMMA AtFacts ==
  ASSUME data \in Seq(Byte), NEW i \in Nat
  PROVE  At(i) \in Byte /\ Uint16(i) \in Nat
<1>1. \A j \in Nat : At(j) \in Byte
  <2> SUFFICES ASSUME NEW j \in Nat
               PROVE  At(j) \in Byte
    OBVIOUS
  <2>1. CASE j < Len(data)
    <3>1. j + 1 \in 1 .. Len(data)
      BY <2>1
    <3>2. data[j + 1] \in Byte
      BY <3>1, ElementOfSeq
    <3> QED
      BY <2>1, <3>2 DEF At
  <2>2. CASE ~(j < Len(data))
    BY <2>2 DEF At, Byte
  <2> QED
    BY <2>1, <2>2
<1>2. At(i) \in Byte /\ At(i + 1) \in Byte
  BY <1>1
<1> QED
  BY <1>2, ByteFacts DEF Uint16

\* A pointer is a position.
LEMMA TargetFacts ==
  ASSUME data \in Seq(Byte), current \in Nat
  PROVE  Target \in Nat
<1>1. At(current) \in Byte /\ At(current + 1) \in Byte
  BY AtFacts
<1> QED
  BY <1>1, ByteFacts DEF Target

\* A piece of the message is a sequence of bytes.
LEMMA PieceFacts ==
  ASSUME data \in Seq(Byte), NEW m \in Nat, NEW n \in Int, m >= 1, n <= Len(data)
  PROVE  SubSeq(data, m, n) \in Seq(Byte)
<1>1. \A i \in m .. n : data[i] \in Byte
  BY ElementOfSeq
<1> QED
  BY <1>1, SubSeqProperties

-----------------------------------------------------------------------------
(* The inductive invariant.                                                *)

\* TypeOK, with the sections' items as records.
Sections == [1 .. 4 -> Seq(Item)]

\* Where the positions are while an item is decoded: the item starts inside the
\* message, its name is read at or behind that start until the continuation is
\* known, and the continuation lies behind the start.
PositionsOrdered ==
  /\ offset >= HeaderSize
  /\ state \in {"name", "fields"} => left > 0
  /\ state \in {"item", "name", "fields", "done"} =>
       HeaderSize <= Len(data) /\ offset <= Len(data)
  /\ state = "name" =>
       /\ (next = -1 /\ offset <= current) \/ next \in offset + 1 .. Len(data)
       /\ jumps <= MaxJumps /\ nameLength <= MaxName
  /\ state = "fields" => next \in offset + 1 .. Len(data)

DecoderInv == DecoderTypeOK /\ PositionsOrdered /\ ReadsInside

-----------------------------------------------------------------------------
\* The initial states satisfy the invariant.
LEMMA DecoderInitial ==
  ASSUME DecodeInit
  PROVE  DecoderInv
<1> USE DnsWireAssumption
<1>1. data \in Seq(Byte) /\ Len(data) \in Nat
  BY DEF DecodeInit
<1>2. Nothing \in [id : Nat, flags : Nat, sections : [1 .. 4 -> Seq(Item)]]
  <2>1. <<>> \in Seq(Item)
    BY EmptySeq
  <2> QED
    BY <2>1 DEF Nothing
<1>3. labels \in Seq(Label)
  <2>1. <<>> \in Seq(Label)
    BY EmptySeq
  <2> QED
    BY <2>1 DEF DecodeInit
<1>4. DecoderTypeOK
  BY <1>1, <1>2, <1>3 DEF DecodeInit, DecoderTypeOK, HeaderSize
<1>5. PositionsOrdered
  BY <1>1 DEF DecodeInit, PositionsOrdered, HeaderSize
<1>6. \A s \in 1 .. 4 : Size(s) = 0
  BY DEF DecodeInit, Nothing, Size
<1>7. ReadsInside
  BY <1>1, <1>6 DEF DecodeInit, ReadsInside, ItemsFitMessage, HeaderSize
<1> QED
  BY <1>4, <1>5, <1>7 DEF DecoderInv

\* Touching a position up to the end of the message keeps reach inside.
LEMMA TouchFacts ==
  ASSUME DecoderInv, NEW end \in Nat, end <= Len(data), data' = data, Touch(end)
  PROVE  reach' \in Nat /\ reach' <= Len(data')
BY DEF DecoderInv, DecoderTypeOK, ReadsInside, Touch

\* The sizes of the sections are numbers.
LEMMA SizeFacts ==
  ASSUME DecoderTypeOK
  PROVE  \A s \in 1 .. 4 : Size(s) \in Nat
<1>1. \A s \in 1 .. 4 : message.sections[s] \in Seq(Item)
  BY DEF DecoderTypeOK
<1> QED
  BY <1>1, LenProperties DEF Size

\* A failure, wherever it happens, leaves nothing to show and keeps the rest.
LEMMA RejectKeeps ==
  ASSUME DecoderInv, Reject, reach' \in Nat, reach' <= Len(data')
  PROVE  DecoderInv'
<1>1. Nothing \in [id : Nat, flags : Nat, sections : [1 .. 4 -> Seq(Item)]]
  <2>1. <<>> \in Seq(Item)
    BY EmptySeq
  <2> QED
    BY <2>1 DEF Nothing
<1>2. DecoderTypeOK'
  BY <1>1 DEF DecoderInv, DecoderTypeOK, Reject, nameVars
<1>3. PositionsOrdered'
  BY DEF DecoderInv, PositionsOrdered, Reject
<1>4. \A s \in 1 .. 4 : Size(s)' = 0
  BY DEF Reject, Nothing, Size
<1>5. offset' >= HeaderSize
  BY DEF DecoderInv, PositionsOrdered, Reject
<1>6. Len(data') >= HeaderSize => offset' <= Len(data')
  BY DEF DecoderInv, ReadsInside, ItemsFitMessage, Reject
<1>7. ItemsFitMessage'
  BY <1>4, <1>5, <1>6 DEF ItemsFitMessage, HeaderSize, DecoderInv, DecoderTypeOK, Reject
<1> QED
  BY <1>2, <1>3, <1>7 DEF DecoderInv, ReadsInside

-----------------------------------------------------------------------------
(* The loops over the sections.                                            *)

LEMMA HeaderKeeps ==
  ASSUME DecoderInv, DecodeHeader
  PROVE  DecoderInv'
<1> USE DEF HeaderSize
<1>0. data \in Seq(Byte) /\ Len(data) \in Nat /\ DecoderTypeOK
  BY DEF DecoderInv, DecoderTypeOK
<1>1. CASE Len(data) < HeaderSize
  <2>1. Reject /\ reach' = reach
    BY <1>0, <1>1 DEF DecodeHeader
  <2>2. reach' \in Nat /\ reach' <= Len(data')
    BY <2>1 DEF Reject, DecoderInv, DecoderTypeOK, ReadsInside
  <2> QED
    BY <2>1, <2>2, RejectKeeps
<1>2. CASE Len(data) >= HeaderSize
  <2>1. /\ state' = "item" /\ left' = Count(1) /\ data' = data
        /\ message' = [message EXCEPT !.id = Uint16(0), !.flags = Uint16(2)]
        /\ Touch(HeaderSize) /\ UNCHANGED <<section, offset, nameVars>>
    BY <1>2, <1>0 DEF DecodeHeader
  <2>2. Uint16(0) \in Nat /\ Uint16(2) \in Nat /\ Count(1) \in Nat
    BY <1>0, AtFacts DEF Count
  <2>3. reach' \in Nat /\ reach' <= Len(data')
    BY <2>1, <1>2, <1>0, TouchFacts
  <2>4. /\ message' \in [id : Nat, flags : Nat, sections : [1 .. 4 -> Seq(Item)]]
        /\ message'.sections = message.sections
    BY <2>1, <2>2, <1>0 DEF DecoderTypeOK
  <2>5. DecoderTypeOK'
    BY <2>1, <2>2, <2>3, <2>4, <1>0 DEF DecoderTypeOK, nameVars
  <2>6. offset' = offset /\ offset <= Len(data) /\ offset >= HeaderSize
    BY <2>1, <1>2 DEF DecoderInv, ReadsInside, ItemsFitMessage, PositionsOrdered
  <2>7. PositionsOrdered'
    BY <2>1, <2>6, <1>2, <1>0 DEF PositionsOrdered
  <2>8. ReadsInside'
    BY <2>1, <2>3, <2>4, <2>6 DEF DecoderInv, ReadsInside, ItemsFitMessage, Size
  <2> QED
    BY <2>5, <2>7, <2>8 DEF DecoderInv
<1> QED
  BY <1>0, <1>1, <1>2

LEMMA SectionKeeps ==
  ASSUME DecoderInv, NextSection
  PROVE  DecoderInv'
<1>0. data \in Seq(Byte) /\ section \in 1 .. 4 /\ DecoderTypeOK
  BY DEF DecoderInv, DecoderTypeOK
<1>1. UNCHANGED <<data, offset, nameVars, message, reach>>
  BY DEF NextSection
<1>2. state = "item" /\ state' \in {"item", "done"}
  BY DEF NextSection
<1>3. section' \in 1 .. 4 /\ left' \in Nat
  <2>1. CASE section < 4
    <3>1. section' = section + 1 /\ left' = Count(section + 1)
      BY <2>1, <1>0 DEF NextSection
    <3>2. Count(section + 1) \in Nat
      BY <1>0, AtFacts DEF Count
    <3> QED
      BY <2>1, <3>1, <3>2, <1>0
  <2>2. CASE section = 4
    BY <2>2, <1>0 DEF NextSection, DecoderTypeOK
  <2> QED
    BY <2>1, <2>2, <1>0
<1>4. DecoderTypeOK'
  BY <1>0, <1>1, <1>2, <1>3 DEF DecoderTypeOK, nameVars
<1>5. PositionsOrdered'
  BY <1>1, <1>2 DEF DecoderInv, PositionsOrdered
<1>6. ReadsInside'
  BY <1>1 DEF DecoderInv, ReadsInside, ItemsFitMessage, Size
<1> QED
  BY <1>4, <1>5, <1>6 DEF DecoderInv

LEMMA ItemKeeps ==
  ASSUME DecoderInv, NextItem
  PROVE  DecoderInv'
<1> USE DnsWireAssumption
<1>0. DecoderTypeOK
  BY DEF DecoderInv
<1>1. /\ state = "item" /\ state' = "name" /\ current' = offset /\ next' = -1
      /\ jumps' = 0 /\ nameLength' = 1 /\ labels' = <<>>
      /\ UNCHANGED <<data, section, left, offset, message, reach>>
  BY DEF NextItem
<1>2. <<>> \in Seq(Label)
  BY EmptySeq
<1>3. DecoderTypeOK'
  BY <1>0, <1>1, <1>2 DEF DecoderTypeOK
<1>4. PositionsOrdered'
  <2>1. offset >= HeaderSize /\ HeaderSize <= Len(data) /\ offset <= Len(data)
    BY <1>1 DEF DecoderInv, PositionsOrdered
  <2>2. left' > 0
    BY <1>1 DEF NextItem
  <2>3. current' \in Nat /\ offset' <= current' /\ next' = -1
    BY <1>0, <1>1 DEF DecoderTypeOK
  <2>4. jumps' <= MaxJumps /\ nameLength' <= MaxName
    BY <1>1
  <2> QED
    BY <1>1, <2>1, <2>2, <2>3, <2>4 DEF PositionsOrdered
<1>5. ReadsInside'
  BY <1>1 DEF DecoderInv, ReadsInside, ItemsFitMessage, Size
<1> QED
  BY <1>3, <1>4, <1>5 DEF DecoderInv

-----------------------------------------------------------------------------
(* The loop over a name.                                                   *)

LEMMA NameEndKeeps ==
  ASSUME DecoderInv, NameEnd
  PROVE  DecoderInv'
<1>0. DecoderTypeOK /\ PositionsOrdered /\ Len(data) \in Nat
  BY DEF DecoderInv, DecoderTypeOK
<1>1. /\ state = "name" /\ current < Len(data) /\ state' = "fields"
      /\ Continue(current + 1) /\ Touch(current + 1)
      /\ UNCHANGED <<data, section, left, offset, current, jumps, nameLength,
                     labels, message>>
  BY DEF NameEnd, InName
<1>2. reach' \in Nat /\ reach' <= Len(data')
  <2>1. current + 1 \in Nat /\ current + 1 <= Len(data)
    BY <1>0, <1>1 DEF DecoderTypeOK
  <2> QED
    BY <1>1, <2>1, TouchFacts
<1>3. next' \in offset + 1 .. Len(data)
  BY <1>0, <1>1 DEF DecoderTypeOK, PositionsOrdered, Continue
<1>4. DecoderTypeOK'
  BY <1>0, <1>1, <1>2, <1>3 DEF DecoderTypeOK
<1>5. PositionsOrdered'
  BY <1>0, <1>1, <1>3 DEF PositionsOrdered
<1>6. ReadsInside'
  BY <1>1, <1>2 DEF DecoderInv, ReadsInside, ItemsFitMessage, Size
<1> QED
  BY <1>4, <1>5, <1>6 DEF DecoderInv

LEMMA PointerKeeps ==
  ASSUME DecoderInv, NamePointer
  PROVE  DecoderInv'
<1>0. DecoderTypeOK /\ PositionsOrdered /\ Len(data) \in Nat
  BY DEF DecoderInv, DecoderTypeOK
<1>1. state = "name" /\ current + 1 < Len(data) /\ Touch(current + 2) /\ data' = data
  BY DEF NamePointer, InName, Reject
<1>2. reach' \in Nat /\ reach' <= Len(data')
  <2>1. current + 2 \in Nat /\ current + 2 <= Len(data)
    BY <1>0, <1>1 DEF DecoderTypeOK
  <2> QED
    BY <1>1, <2>1, TouchFacts
<1>3. CASE jumps + 1 > MaxJumps /\ Reject
  BY <1>2, <1>3, RejectKeeps
<1>4. CASE /\ jumps + 1 <= MaxJumps
           /\ Continue(current + 2) /\ jumps' = jumps + 1 /\ current' = Target
           /\ UNCHANGED <<data, state, section, left, offset, nameLength, labels, message>>
  <2>1. next' \in offset + 1 .. Len(data)
    BY <1>0, <1>1, <1>4 DEF DecoderTypeOK, PositionsOrdered, Continue
  <2>2. Target \in Nat
    BY <1>0, TargetFacts DEF DecoderTypeOK
  <2>3. DecoderTypeOK'
    BY <1>0, <1>2, <1>4, <2>1, <2>2 DEF DecoderTypeOK
  <2>4. PositionsOrdered'
    BY <1>0, <1>1, <1>4, <2>1 DEF PositionsOrdered
  <2>5. ReadsInside'
    BY <1>2, <1>4 DEF DecoderInv, ReadsInside, ItemsFitMessage, Size
  <2> QED
    BY <2>3, <2>4, <2>5 DEF DecoderInv
<1> QED
  BY <1>3, <1>4 DEF NamePointer

LEMMA LabelKeeps ==
  ASSUME DecoderInv, NameLabel
  PROVE  DecoderInv'
<1>0. DecoderTypeOK /\ PositionsOrdered /\ Len(data) \in Nat /\ current \in Nat
  BY DEF DecoderInv, DecoderTypeOK
<1> DEFINE n == LabelLength
           end == current + 1 + n
<1>1. /\ state = "name" /\ n \in 1 .. 191 /\ n <= Len(data) - current - 1
      /\ nameLength + 1 + n <= MaxName
  BY DEF NameLabel, IsLabel, InName, Fits
<1>2. /\ nameLength' = nameLength + 1 + n /\ current' = end /\ Touch(end)
      /\ labels' = Append(labels, SubSeq(data, current + 2, end))
      /\ UNCHANGED <<data, state, section, left, offset, next, jumps, message>>
  BY DEF NameLabel
<1>3. end \in Nat /\ end <= Len(data) /\ end > current
  BY <1>0, <1>1
<1> HIDE DEF n, end
<1>4. reach' \in Nat /\ reach' <= Len(data')
  BY <1>2, <1>3, TouchFacts
<1>5. labels' \in Seq(Label)
  <2>1. SubSeq(data, current + 2, end) \in Seq(Byte)
    BY <1>0, <1>3, PieceFacts DEF DecoderTypeOK
  <2> QED
    BY <1>0, <1>2, <2>1, AppendProperties DEF DecoderTypeOK, Label
<1>6. nameLength' \in Nat
  BY <1>0, <1>1, <1>2 DEF DecoderTypeOK
<1>7. DecoderTypeOK'
  BY <1>0, <1>2, <1>3, <1>4, <1>5, <1>6 DEF DecoderTypeOK
<1>8. PositionsOrdered'
  BY <1>0, <1>1, <1>2, <1>3 DEF PositionsOrdered, DecoderTypeOK
<1>9. ReadsInside'
  BY <1>2, <1>4 DEF DecoderInv, ReadsInside, ItemsFitMessage, Size
<1> QED
  BY <1>7, <1>8, <1>9 DEF DecoderInv

\* The three ways in which a name is refused.
LEMMA NameRejectKeeps ==
  ASSUME DecoderInv, NameOutside \/ TruncatedPointer \/ BadLabel
  PROVE  DecoderInv'
<1>0. DecoderTypeOK /\ Len(data) \in Nat /\ current \in Nat
  BY DEF DecoderInv, DecoderTypeOK
<1>1. CASE NameOutside
  <2>1. Reject /\ reach' = reach
    BY <1>1 DEF NameOutside
  <2>2. reach' \in Nat /\ reach' <= Len(data')
    BY <2>1 DEF Reject, DecoderInv, DecoderTypeOK, ReadsInside
  <2> QED
    BY <2>1, <2>2, RejectKeeps
<1>2. CASE TruncatedPointer \/ BadLabel
  <2>1. Reject /\ Touch(current + 1) /\ current < Len(data) /\ data' = data
    BY <1>2 DEF TruncatedPointer, BadLabel, IsLabel, InName, Reject
  <2>2. current + 1 \in Nat /\ current + 1 <= Len(data)
    BY <1>0, <2>1
  <2>3. reach' \in Nat /\ reach' <= Len(data')
    BY <2>1, <2>2, TouchFacts
  <2> QED
    BY <2>1, <2>3, RejectKeeps
<1> QED
  BY <1>1, <1>2

-----------------------------------------------------------------------------
(* The fields behind a name.                                               *)

\* The bytes of the items kept, with one question or one record more.
LEMMA RoomForQuestion ==
  ASSUME NEW questions \in Nat, NEW records \in Nat, NEW start \in Nat,
         NEW end \in Nat, 12 + 5 * questions + 11 * records <= start,
         end >= start + 5
  PROVE  12 + 5 * (questions + 1) + 11 * records <= end
<1> DEFINE bytes == 12 + 5 * questions + 11 * records
<1>1. bytes \in Nat /\ bytes <= start
  OBVIOUS
<1>2. 12 + 5 * (questions + 1) + 11 * records = bytes + 5
  OBVIOUS
<1> HIDE DEF bytes
<1> QED
  BY <1>1, <1>2

LEMMA RoomForRecord ==
  ASSUME NEW questions \in Nat, NEW records \in Nat, NEW start \in Nat,
         NEW end \in Nat, 12 + 5 * questions + 11 * records <= start,
         end >= start + 11
  PROVE  12 + 5 * questions + 11 * (records + 1) <= end
<1> DEFINE bytes == 12 + 5 * questions + 11 * records
<1>1. bytes \in Nat /\ bytes <= start
  OBVIOUS
<1>2. 12 + 5 * questions + 11 * (records + 1) = bytes + 11
  OBVIOUS
<1> HIDE DEF bytes
<1> QED
  BY <1>1, <1>2

\* Keeping an item of at least as many bytes as its section asks for.
LEMMA KeepKeeps ==
  ASSUME DecoderInv, state = "fields", NEW item \in Item, NEW end \in Nat, Keep(item, end),
         end <= Len(data),
         end >= offset + (IF section = 1 THEN 5 ELSE 11)
  PROVE  DecoderInv'
<1>0. DecoderTypeOK /\ PositionsOrdered /\ ItemsFitMessage /\ Len(data) \in Nat
  BY DEF DecoderInv, DecoderTypeOK, ReadsInside
<1>1. /\ message' = [message EXCEPT !.sections[section] = Append(@, item)]
      /\ offset' = end /\ left' = left - 1 /\ state' = "item" /\ Touch(end)
      /\ UNCHANGED <<data, section, nameVars>>
  BY DEF Keep
<1>2. reach' \in Nat /\ reach' <= Len(data')
  BY <1>1, TouchFacts
<1>3. \A s \in 1 .. 4 : message.sections[s] \in Seq(Item)
  BY <1>0 DEF DecoderTypeOK
<1>4. section \in 1 .. 4 /\ message.sections[section] \in Seq(Item)
  BY <1>0, <1>3 DEF DecoderTypeOK
<1>5. /\ Append(message.sections[section], item) \in Seq(Item)
      /\ Len(Append(message.sections[section], item)) = Size(section) + 1
  BY <1>4, AppendProperties DEF Size
<1>6. message' \in [id : Nat, flags : Nat, sections : [1 .. 4 -> Seq(Item)]]
  BY <1>0, <1>1, <1>4, <1>5 DEF DecoderTypeOK
<1>7. \A s \in 1 .. 4 : Size(s)' = IF s = section THEN Size(s) + 1 ELSE Size(s)
  BY <1>0, <1>1, <1>4, <1>5 DEF DecoderTypeOK, Size
<1>8. left' \in Nat
  <2>1. left \in Nat /\ left > 0 /\ left' = left - 1
    BY <1>0, <1>1 DEF DecoderTypeOK, PositionsOrdered
  <2> QED
    BY <2>1
<1>9. DecoderTypeOK'
  BY <1>0, <1>1, <1>2, <1>6, <1>8 DEF DecoderTypeOK, nameVars
<1>10. PositionsOrdered'
  <2>1. offset \in Nat /\ offset >= 12 /\ 12 <= Len(data)
    BY <1>0 DEF PositionsOrdered, DecoderTypeOK, HeaderSize
  <2>2. end >= offset + 5
    BY <2>1
  <2>3. offset' = end /\ data' = data /\ state' = "item"
    BY <1>1
  <2>4. end >= 12
    BY <2>1, <2>2
  <2> QED
    BY <2>1, <2>3, <2>4 DEF PositionsOrdered, HeaderSize
<1>11. ItemsFitMessage'
  <2> DEFINE questions == Size(1)
             records == Size(2) + Size(3) + Size(4)
  <2>1. Size(1) \in Nat /\ Size(2) \in Nat /\ Size(3) \in Nat /\ Size(4) \in Nat
    BY <1>0, SizeFacts
  <2>2. questions \in Nat /\ records \in Nat
    BY <2>1
  <2>3. 12 + 5 * questions + 11 * records <= offset
    BY <1>0 DEF ItemsFitMessage, HeaderSize
  <2>4. offset \in Nat
    BY <1>0 DEF DecoderTypeOK
  <2>5. /\ offset' <= Len(data')
        /\ ItemsFitMessage' <=>
             12 + 5 * Size(1)' + 11 * (Size(2) + Size(3) + Size(4))' <= offset'
    BY <1>1 DEF ItemsFitMessage, HeaderSize
  <2>6. CASE section = 1
    <3>1. questions' = questions + 1 /\ records' = records
      BY <1>7, <2>6
    <3>2. end >= offset + 5
      BY <2>6
    <3> HIDE DEF questions, records
    <3>3. 12 + 5 * (questions + 1) + 11 * records <= end
      BY <2>2, <2>3, <2>4, <3>2, RoomForQuestion
    <3>4. 12 + 5 * questions' + 11 * records' <= offset'
      BY <1>1, <3>1, <3>3
    <3> QED
      BY <2>5, <3>4 DEF questions, records
  <2>7. CASE section # 1
    <3>1. questions' = questions
      BY <1>7, <2>7
    <3>2. records' = records + 1
      <4>1. CASE section = 2
        BY <4>1, <1>7, <2>1
      <4>2. CASE section = 3
        BY <4>2, <1>7, <2>1
      <4>3. CASE section = 4
        BY <4>3, <1>7, <2>1
      <4> QED
        BY <1>4, <2>7, <4>1, <4>2, <4>3
    <3>3. end >= offset + 11
      BY <2>7
    <3> HIDE DEF questions, records
    <3>4. 12 + 5 * questions + 11 * (records + 1) <= end
      BY <2>2, <2>3, <2>4, <3>3, RoomForRecord
    <3>5. 12 + 5 * questions' + 11 * records' <= offset'
      BY <1>1, <3>1, <3>2, <3>4
    <3> QED
      BY <2>5, <3>5 DEF questions, records
  <2> QED
    BY <2>6, <2>7
<1> QED
  BY <1>2, <1>9, <1>10, <1>11 DEF DecoderInv, ReadsInside

\* How far a cut-off item is read.
LEMMA FieldsReadFacts ==
  ASSUME DecoderInv, state = "fields", Remaining < 10
  PROVE  FieldsRead \in Nat /\ FieldsRead <= Len(data)
<1>1. next \in Nat /\ next <= Len(data) /\ Len(data) \in Nat
  BY DEF DecoderInv, DecoderTypeOK, PositionsOrdered
<1>2. Remaining \in 0 .. 9
  BY <1>1 DEF Remaining
<1>3. CASE Remaining < 2
  BY <1>1, <1>2, <1>3 DEF FieldsRead
<1>4. CASE Remaining \in {2, 3}
  BY <1>1, <1>4 DEF FieldsRead, Remaining
<1>5. CASE Remaining \in 4 .. 7
  BY <1>1, <1>5 DEF FieldsRead, Remaining
<1>6. CASE Remaining \in 8 .. 9
  BY <1>1, <1>6 DEF FieldsRead, Remaining
<1> QED
  BY <1>2, <1>3, <1>4, <1>5, <1>6

LEMMA QuestionKeeps ==
  ASSUME DecoderInv, QuestionFields
  PROVE  DecoderInv'
<1>0. /\ state = "fields" /\ section = 1 /\ DecoderTypeOK /\ Len(data) \in Nat
      /\ next \in offset + 1 .. Len(data) /\ offset \in Nat
  BY DEF QuestionFields, DecoderInv, DecoderTypeOK, PositionsOrdered
<1>1. CASE Remaining < 4
  <2>1. Reject /\ Touch(FieldsRead) /\ data' = data
    BY <1>0, <1>1 DEF QuestionFields, Reject, Remaining
  <2>2. FieldsRead \in Nat /\ FieldsRead <= Len(data)
    BY <1>0, <1>1, FieldsReadFacts DEF Remaining
  <2> QED
    BY <2>1, <2>2, TouchFacts, RejectKeeps
<1>2. CASE Remaining >= 4
  <2> DEFINE item == [name |-> labels, type |-> Uint16(next), class |-> Uint16(next + 2)]
  <2>1. Keep(item, next + 4)
    BY <1>0, <1>2 DEF QuestionFields, Remaining
  <2>2. next \in Nat /\ next + 4 <= Len(data) /\ next + 4 >= offset + 5
    BY <1>0, <1>2 DEF Remaining
  <2>3. item \in Item
    BY <1>0, <2>2, AtFacts DEF Item, DecoderTypeOK
  <2> HIDE DEF item
  <2> QED
    BY <1>0, <2>1, <2>2, <2>3, KeepKeeps
<1> QED
  BY <1>0, <1>1, <1>2 DEF Remaining

LEMMA RecordKeeps ==
  ASSUME DecoderInv, RecordFields
  PROVE  DecoderInv'
<1>0. /\ state = "fields" /\ section > 1 /\ DecoderTypeOK /\ Len(data) \in Nat
      /\ next \in offset + 1 .. Len(data) /\ offset \in Nat /\ section \in 1 .. 4
  BY DEF RecordFields, DecoderInv, DecoderTypeOK, PositionsOrdered
<1>1. RDLength \in Nat
  <2>1. next + 8 \in Nat /\ data \in Seq(Byte)
    BY <1>0 DEF DecoderTypeOK
  <2> QED
    BY <2>1, AtFacts DEF RDLength
<1>2. CASE Remaining < 10
  <2>1. Reject /\ Touch(FieldsRead) /\ data' = data
    BY <1>0, <1>2 DEF RecordFields, Reject, Remaining
  <2>2. FieldsRead \in Nat /\ FieldsRead <= Len(data)
    BY <1>0, <1>2, FieldsReadFacts
  <2> QED
    BY <2>1, <2>2, TouchFacts, RejectKeeps
<1>3. CASE Remaining >= 10 /\ RDLength > Remaining - 10
  <2>1. Reject /\ Touch(next + 10) /\ data' = data
    BY <1>0, <1>1, <1>3 DEF RecordFields, Reject, Remaining
  <2>2. next + 10 \in Nat /\ next + 10 <= Len(data)
    BY <1>0, <1>3 DEF Remaining
  <2> QED
    BY <2>1, <2>2, TouchFacts, RejectKeeps
<1>4. CASE Remaining >= 10 /\ RDLength <= Remaining - 10
  <2> DEFINE end == next + 10 + RDLength
             item == [name |-> labels, type |-> Uint16(next), class |-> Uint16(next + 2),
                      rdata |-> SubSeq(data, next + 11, end)]
  <2>1. Keep(item, end)
    BY <1>0, <1>1, <1>4 DEF RecordFields, Remaining
  <2>2. next \in Nat /\ end \in Nat /\ end <= Len(data) /\ end >= offset + 11
    BY <1>0, <1>1, <1>4 DEF Remaining
  <2>3. SubSeq(data, next + 11, end) \in Seq(Byte)
    BY <1>0, <2>2, PieceFacts DEF DecoderTypeOK
  <2>4. item \in Item
    BY <1>0, <2>2, <2>3, AtFacts DEF Item, DecoderTypeOK
  <2> HIDE DEF item, end
  <2> QED
    BY <1>0, <2>1, <2>2, <2>4, KeepKeeps
<1> QED
  BY <1>0, <1>1, <1>2, <1>3, <1>4 DEF Remaining

-----------------------------------------------------------------------------
(* The theorems.                                                           *)

\* Every step keeps the invariant.
LEMMA DecoderKeeps ==
  ASSUME DecoderInv, [DecodeStep]_decodeVars
  PROVE  DecoderInv'
<1>1. CASE DecodeHeader
  BY <1>1, HeaderKeeps
<1>2. CASE NextSection
  BY <1>2, SectionKeeps
<1>3. CASE NextItem
  BY <1>3, ItemKeeps
<1>4. CASE DecodeName
  BY <1>4, NameEndKeeps, PointerKeeps, LabelKeeps, NameRejectKeeps DEF DecodeName
<1>5. CASE QuestionFields
  BY <1>5, QuestionKeeps
<1>6. CASE RecordFields
  BY <1>6, RecordKeeps
<1>7. CASE UNCHANGED decodeVars
  <2>1. UNCHANGED <<data, state, section, left, offset, current, next, jumps, nameLength,
                    labels, message, reach>>
    BY <1>7 DEF decodeVars, nameVars
  <2>2. DecoderTypeOK'
    BY <2>1 DEF DecoderInv, DecoderTypeOK
  <2>3. PositionsOrdered'
    BY <2>1 DEF DecoderInv, PositionsOrdered
  <2>4. ReadsInside'
    BY <2>1 DEF DecoderInv, ReadsInside, ItemsFitMessage, Size
  <2> QED
    BY <2>2, <2>3, <2>4 DEF DecoderInv
<1> QED
  BY <1>1, <1>2, <1>3, <1>4, <1>5, <1>6, <1>7 DEF DecodeStep

\* The invariant holds in every state.
LEMMA DecoderAlways == DecodeSpec => []DecoderInv
<1>1. DecodeInit => DecoderInv
  BY DecoderInitial
<1>2. DecoderInv /\ [DecodeStep]_decodeVars => DecoderInv'
  BY DecoderKeeps
<1> QED
  BY <1>1, <1>2, PTL DEF DecodeSpec

\* Every variable of the decoder keeps its type, whatever the message.
THEOREM DecoderTypes == DecodeSpec => []DecoderTypeOK
<1>1. DecoderInv => DecoderTypeOK
  BY DEF DecoderInv
<1> QED
  BY <1>1, DecoderAlways, PTL

\* Whatever bytes arrive and whatever the limits are, the decoder neither reads nor
\* slices outside of the message, and the items it keeps fit the message.
THEOREM NeverReadsOutside == DecodeSpec => []ReadsInside
<1>1. DecoderInv => ReadsInside
  BY DEF DecoderInv
<1> QED
  BY <1>1, DecoderAlways, PTL

\* An iteration over a name uses up a jump or a part of its length.
LEMMA IterationProgress ==
  ASSUME DecoderInv, [DecodeStep]_decodeVars, state = "name", state' = "name", ~UNCHANGED decodeVars
  PROVE  /\ jumps' + nameLength' > jumps + nameLength
         /\ jumps' <= MaxJumps /\ nameLength' <= MaxName
<1>0. /\ jumps \in Nat /\ nameLength \in Nat
      /\ jumps <= MaxJumps /\ nameLength <= MaxName
  BY DEF DecoderInv, DecoderTypeOK, PositionsOrdered
<1>1. NamePointer \/ NameLabel
  BY DEF DecodeStep, DecodeHeader, NextSection, NextItem, DecodeName, NameOutside, NameEnd,
         TruncatedPointer, BadLabel, Reject, QuestionFields, RecordFields
<1>2. CASE NamePointer
  <2>1. jumps' = jumps + 1 /\ jumps + 1 <= MaxJumps /\ nameLength' = nameLength
    BY <1>2 DEF NamePointer, Reject
  <2> QED
    BY <1>0, <2>1
<1>3. CASE NameLabel
  <2>1. /\ nameLength' = nameLength + 1 + LabelLength /\ jumps' = jumps
        /\ nameLength + 1 + LabelLength <= MaxName /\ LabelLength \in 1 .. 191
    BY <1>3 DEF NameLabel, Fits, IsLabel
  <2> QED
    BY <1>0, <2>1
<1> QED
  BY <1>1, <1>2, <1>3

\* Pointers cannot keep the decoder in a cycle: every iteration of the loop over a
\* name uses up jumps or length, and both are limited.
THEOREM NamesProgress == DecodeSpec => NameLoopProgress
<1>1. DecoderInv /\ [DecodeStep]_decodeVars =>
        [state = "name" /\ state' = "name" =>
           /\ jumps' + nameLength' > jumps + nameLength
           /\ jumps' <= MaxJumps /\ nameLength' <= MaxName]_decodeVars
  BY IterationProgress
<1> QED
  BY <1>1, DecoderAlways, PTL DEF DecodeSpec, NameLoopProgress
=============================================================================
