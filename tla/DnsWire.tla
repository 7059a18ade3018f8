------------------------------ MODULE DnsWire ------------------------------
(***************************************************************************)
(* dns.DecodeMessage (internal/dns): the header, the four sections it      *)
(* declares, the names with their compression pointers, and the fixed      *)
(* fields and RDATA behind each name.  A step is an iteration of a loop of *)
(* the decoder or the fields of one item; all of them read data, a message *)
(* of arbitrary bytes.                                                     *)
(*                                                                         *)
(* Positions count from 0, as in the code.  reach is the highest position  *)
(* read or sliced so far, plus one: past len(data) the program would       *)
(* panic.  The TTL, which nothing reads, is skipped.                       *)
(***************************************************************************)
EXTENDS Integers, Sequences

CONSTANTS Messages,   \* what arrives
          MaxLabel,   \* 63 in the code
          MaxName,    \* 255: the expanded wire length of a name
          MaxJumps    \* 16: maxNameJumps

Byte == 0 .. 255

ASSUME DnsWireAssumption ==
  /\ Messages \subseteq Seq(Byte)
  /\ MaxLabel \in 1 .. 63 /\ MaxName \in Nat \ {0} /\ MaxJumps \in Nat

VARIABLES data,      \* the message
          state,        \* where the decoder is
          section,   \* 1 .. 4: questions, answers, authority, additional
          left,      \* items of the section still to decode
          offset,    \* where the next item starts
          current,   \* decodeName: where it reads
          next,      \* nextOffset: the position after the name, -1 while unset
          jumps, nameLength, labels,
          message,   \* what has been decoded
          reach

nameVars == <<current, next, jumps, nameLength, labels>>
decodeVars == <<data, state, section, left, offset, nameVars, message, reach>>

HeaderSize == 12

\* A byte of the message; a read past the end, which panics, is seen in reach.
At(i)     == IF i < Len(data) THEN data[i + 1] ELSE 0
Uint16(i) == At(i) * 256 + At(i + 1)

\* QDCount, ANCount, NSCount and ARCount.
Count(s) == Uint16(2 + 2 * s)

Touch(end) == reach' = IF end > reach THEN end ELSE reach

Nothing == [id |-> 0, flags |-> 0, sections |-> [s \in 1 .. 4 |-> <<>>]]

DecodeInit ==
  /\ data \in Messages
  /\ state = "header" /\ section = 1 /\ left = 0 /\ offset = HeaderSize
  /\ current = 0 /\ next = -1 /\ jumps = 0 /\ nameLength = 1 /\ labels = <<>>
  /\ message = Nothing /\ reach = 0

\* Every error ends the decoding with a zero Message.
Reject ==
  /\ state' = "error" /\ message' = Nothing
  /\ UNCHANGED <<data, section, left, offset, nameVars>>

-----------------------------------------------------------------------------
(* The header and the loops over the sections.                             *)

DecodeHeader ==
  /\ state = "header"
  /\ \/ Len(data) < HeaderSize /\ Reject /\ UNCHANGED reach
     \/ /\ Len(data) >= HeaderSize
        /\ state' = "item" /\ left' = Count(1)
        /\ message' = [message EXCEPT !.id = Uint16(0), !.flags = Uint16(2)]
        /\ Touch(HeaderSize)
        /\ UNCHANGED <<data, section, offset, nameVars>>

\* The section is complete: the next one, or the end of the message.
NextSection ==
  /\ state = "item" /\ left = 0
  /\ \/ /\ section < 4
        /\ section' = section + 1 /\ left' = Count(section + 1)
        /\ UNCHANGED state
     \/ section = 4 /\ state' = "done" /\ UNCHANGED <<section, left>>
  /\ UNCHANGED <<data, offset, nameVars, message, reach>>

\* The call of decodeName at the start of an item.
NextItem ==
  /\ state = "item" /\ left > 0
  /\ state' = "name" /\ current' = offset /\ next' = -1
  /\ jumps' = 0 /\ nameLength' = 1 /\ labels' = <<>>
  /\ UNCHANGED <<data, section, left, offset, message, reach>>

-----------------------------------------------------------------------------
(* decodeName: one iteration of its loop.                                  *)

InName == state = "name" /\ current < Len(data)

NameOutside ==
  /\ state = "name" /\ current >= Len(data)
  /\ Reject /\ UNCHANGED reach

\* The first of the positions reached this way is the continuation.
Continue(at) == next' = IF next = -1 THEN at ELSE next

\* Mutant: the position after the last pointer's target is the continuation.
NameEndsHere ==
  /\ InName /\ At(current) = 0
  /\ next' = current + 1 /\ state' = "fields" /\ Touch(current + 1)
  /\ UNCHANGED <<data, section, left, offset, current, jumps, nameLength,
                 labels, message>>

NameEnd ==
  /\ InName /\ At(current) = 0
  /\ Continue(current + 1) /\ state' = "fields" /\ Touch(current + 1)
  /\ UNCHANGED <<data, section, left, offset, current, jumps, nameLength,
                 labels, message>>

Target == (At(current) % 64) * 256 + At(current + 1)

\* Mutant: jumps are not counted.
JumpFreely ==
  /\ InName /\ At(current) >= 192 /\ current + 1 < Len(data)
  /\ Continue(current + 2) /\ current' = Target /\ Touch(current + 2)
  /\ UNCHANGED <<data, state, section, left, offset, jumps, nameLength, labels,
                 message>>

\* A compression pointer; one jump too many ends the decoding.
NamePointer ==
  /\ InName /\ At(current) >= 192 /\ current + 1 < Len(data)
  /\ Touch(current + 2)
  /\ \/ jumps + 1 > MaxJumps /\ Reject
     \/ /\ jumps + 1 <= MaxJumps
        /\ Continue(current + 2) /\ jumps' = jumps + 1 /\ current' = Target
        /\ UNCHANGED <<data, state, section, left, offset, nameLength, labels,
                       message>>

TruncatedPointer ==
  /\ InName /\ At(current) >= 192 /\ current + 1 >= Len(data)
  /\ Reject /\ Touch(current + 1)

LabelLength == At(current)
IsLabel     == InName /\ LabelLength \in 1 .. 191

\* The label is of a legal length, lies in the message and in a legal name.
Fits ==
  /\ LabelLength <= MaxLabel
  /\ LabelLength <= Len(data) - current - 1
  /\ nameLength + 1 + LabelLength <= MaxName

NameLabel ==
  /\ IsLabel /\ Fits
  /\ nameLength' = nameLength + 1 + LabelLength
  /\ labels' = Append(labels, SubSeq(data, current + 2,
                                     current + 1 + LabelLength))
  /\ current' = current + 1 + LabelLength
  /\ Touch(current + 1 + LabelLength)
  /\ UNCHANGED <<data, state, section, left, offset, next, jumps, message>>

BadLabel == IsLabel /\ ~Fits /\ Reject /\ Touch(current + 1)

-----------------------------------------------------------------------------
(* The fields behind the name.                                             *)

\* The item is appended to its section and the loop goes on after it.
Keep(item, end) ==
  /\ message' = [message EXCEPT !.sections[section] = Append(@, item)]
  /\ offset' = end /\ left' = left - 1 /\ state' = "item"
  /\ Touch(end)
  /\ UNCHANGED <<data, section, nameVars>>

\* Mutant: the fields may end one byte past the message.
RemainingAndOne == Len(data) - next + 1

Remaining == Len(data) - next

\* How far the fields are read when one of them is cut off: two bytes each,
\* but the TTL four.
FieldsRead ==
  next + CASE Remaining < 2 -> 0 [] Remaining \in {2, 3} -> 2
           [] Remaining \in 4 .. 7 -> 4 [] OTHER -> 8

\* QTYPE and QCLASS.
QuestionFields ==
  /\ state = "fields" /\ section = 1
  /\ \/ Remaining < 4 /\ Reject /\ Touch(FieldsRead)
     \/ /\ Remaining >= 4
        /\ Keep([name |-> labels, type |-> Uint16(next),
                 class |-> Uint16(next + 2)], next + 4)

RDLength == Uint16(next + 8)

\* TYPE, CLASS, TTL, RDLENGTH and the RDATA.
RecordFields ==
  /\ state = "fields" /\ section > 1
  /\ \/ Remaining < 10 /\ Reject /\ Touch(FieldsRead)
     \/ Remaining >= 10 /\ RDLength > Remaining - 10 /\ Reject /\ Touch(next + 10)
     \/ /\ Remaining >= 10 /\ RDLength <= Remaining - 10
        /\ Keep([name |-> labels, type |-> Uint16(next),
                 class |-> Uint16(next + 2),
                 rdata |-> SubSeq(data, next + 11, next + 10 + RDLength)],
                next + 10 + RDLength)

-----------------------------------------------------------------------------
DecodeName ==
  NameOutside \/ NameEnd \/ NamePointer \/ TruncatedPointer
    \/ NameLabel \/ BadLabel

DecodeStep == DecodeHeader \/ NextSection \/ NextItem \/ DecodeName
          \/ QuestionFields \/ RecordFields

DecodeSpec == DecodeInit /\ [][DecodeStep]_decodeVars

\* The decoder is sequential code and is never blocked.
FairDecodeSpec == DecodeSpec /\ WF_decodeVars(DecodeStep)

-----------------------------------------------------------------------------
(* Correctness.                                                            *)

Label  == Seq(Byte)
Item   == [name : Seq(Label), type : Nat, class : Nat]
            \cup [name : Seq(Label), type : Nat, class : Nat, rdata : Seq(Byte)]

\* Every variable has its type.
DecoderTypeOK ==
  /\ data \in Seq(Byte)
  /\ state \in {"header", "item", "name", "fields", "done", "error"}
  /\ section \in 1 .. 4 /\ left \in Nat /\ offset \in Nat
  /\ current \in Nat /\ next \in Nat \cup {-1}
  /\ jumps \in Nat /\ nameLength \in Nat /\ labels \in Seq(Label)
  /\ message \in [id : Nat, flags : Nat, sections : [1 .. 4 -> Seq(Item)]]
  /\ reach \in Nat

Size(s) == Len(message.sections[s])

\* The items kept take up disjoint bytes of the message, a question at least
\* five and a record at least eleven, so what the decoder allocates is bounded
\* by what it received and not by the counts the header declares.
ItemsFitMessage ==
  /\ HeaderSize + 5 * Size(1) + 11 * (Size(2) + Size(3) + Size(4)) <= offset
  /\ Len(data) >= HeaderSize => offset <= Len(data)

\* Whatever the bytes, no read or slice goes past the end of the message: the
\* checks before each field, label and pointer leave nothing to panic on
\* (internal/dns/name.go:19, :32, :50, record.go:29-54, question.go:15-24), and
\* no count of the header makes the decoder keep more than it was sent.
ReadsInside == reach <= Len(data) /\ ItemsFitMessage

\* Every iteration of the loop over a name uses up jumps or length, both of
\* which are limited: pointers cannot keep the decoder in a cycle
\* (internal/dns/name.go:18-60).
NameLoopProgress ==
  [][state = "name" /\ state' = "name" =>
       /\ jumps' + nameLength' > jumps + nameLength
       /\ jumps' <= MaxJumps /\ nameLength' <= MaxName]_decodeVars

\* The decoder ends, also where pointers form a cycle
\* (internal/dns/name.go:39-42, decode.go:17-37).
DecodeEnds == <>(state \in {"done", "error"})
=============================================================================
