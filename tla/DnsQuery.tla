------------------------------ MODULE DnsQuery ------------------------------
(***************************************************************************)
(* What internal/dns computes around a decoded message: EncodeQuery, which *)
(* makes the query of a lookup, ValidateResponse, which compares a message *)
(* with the question asked, and ExtractARecords.                           *)
(*                                                                         *)
(* A domain name as the caller writes it is a record: the labels that      *)
(* strings.Split finds once an optional trailing dot is trimmed, and       *)
(* whether there was one.  "" and "." have one empty label.  Characters    *)
(* are bytes.                                                              *)
(***************************************************************************)
EXTENDS Naturals, Sequences
LOCAL INSTANCE SequencesExt

CONSTANTS MaxEncodedLabel,   \* 63 in the code
          MaxEncodedName     \* 255: the encoded length of a name

Dot     == 46
TypeA   == 1
ClassIN == 1
Refused == <<>>   \* nil, with an error

-----------------------------------------------------------------------------
(* encode.go                                                               *)

PutUint16(n) == <<n \div 256, n % 256>>

\* The labels with their lengths, and the terminating zero.
Labelled(labels) ==
  FlattenSeq([i \in 1 .. Len(labels) |-> <<Len(labels[i])>> \o labels[i]])
    \o <<0>>

\* encodeName: the root by a dot only, no empty and no oversized label, and no
\* oversized name.
EncodeName(text) ==
  CASE text.labels = <<<<>>>> -> IF text.dot THEN <<0>> ELSE Refused
    [] text.labels # <<<<>>>>
       /\ \E i \in 1 .. Len(text.labels) :
            Len(text.labels[i]) \notin 1 .. MaxEncodedLabel -> Refused
    [] OTHER -> IF Len(Labelled(text.labels)) > MaxEncodedName
                THEN Refused ELSE Labelled(text.labels)

\* EncodeQuery: the header with RD and one question, then that question.
Header(id, flags, answers) ==
  PutUint16(id) \o PutUint16(flags) \o PutUint16(1) \o PutUint16(answers)
    \o PutUint16(0) \o PutUint16(0)

FlagQR == 32768
FlagRD == 256

Question(name, question) ==
  name \o PutUint16(question.type) \o PutUint16(question.class)

EncodeQuery(id, question) ==
  LET name == EncodeName(question.text)
  IN  IF name = Refused THEN Refused
      ELSE Header(id, FlagRD, 0) \o Question(name, question)

-----------------------------------------------------------------------------
(* validate.go and extract.go                                              *)

\* strings.Join with dots; the decoded name of the root is "".
Join(labels) ==
  LET dotted == FlattenSeq([i \in 1 .. Len(labels) |-> <<Dot>> \o labels[i]])
  IN  IF labels = <<>> THEN <<>> ELSE Tail(dotted)

\* Question.Name of a lookup.
Written(text) == Join(text.labels) \o (IF text.dot THEN <<Dot>> ELSE <<>>)

TrimDot(s) ==
  IF s # <<>> /\ Last(s) = Dot THEN Front(s) ELSE s

Lower(c) == IF c \in 65 .. 90 THEN c + 32 ELSE c

\* Mutant: a trailing dot makes a difference.
EqualAsWritten(a, b) ==
  Len(a) = Len(b) /\ \A i \in 1 .. Len(a) : Lower(a[i]) = Lower(b[i])

\* equalQuestionNames: without trailing dots and ASCII case.
EqualNames(a, b) ==
  /\ Len(TrimDot(a)) = Len(TrimDot(b))
  /\ \A i \in 1 .. Len(TrimDot(a)) : Lower(TrimDot(a)[i]) = Lower(TrimDot(b)[i])

\* ValidateResponse: id, QR, the one question with its name, type and class.
Validates(message, id, question) ==
  /\ message.id = id
  /\ message.flags >= FlagQR
  /\ Len(message.sections[1]) = 1
  /\ LET received == message.sections[1][1]
     IN  /\ EqualNames(Join(received.name), Written(question.text))
         /\ received.type = question.type /\ received.class = question.class

\* The answers ExtractARecords looks at.
Matching(message, question) ==
  SelectSeq(message.sections[2],
            LAMBDA r : /\ r.type = TypeA /\ r.class = ClassIN
                       /\ EqualNames(Join(r.name), Written(question.text)))

\* ExtractARecords: the addresses of the matching answers; one that is not
\* four bytes long fails the call, and other questions have no addresses.
ExtractARecords(message, question) ==
  LET found == Matching(message, question)
      sound == \A i \in 1 .. Len(found) : Len(found[i].rdata) = 4
  IN  IF question.type # TypeA \/ question.class # ClassIN
      THEN [ok |-> TRUE, addresses |-> <<>>]
      ELSE [ok |-> sound,
            addresses |-> IF sound
                          THEN [i \in 1 .. Len(found) |-> found[i].rdata]
                          ELSE <<>>]
=============================================================================
