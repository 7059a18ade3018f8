----------------------- MODULE FramedProtocol_proofs -----------------------
(***************************************************************************)
(* Theorems about FramedProtocol for every set of well-formed experiments, *)
(* every size of a message, every largest frame and every buffer.          *)
(***************************************************************************)
EXTENDS FramedProtocol, SequenceTheorems, FiniteSetTheorems,
        WellFoundedInduction, TLAPS

-----------------------------------------------------------------------------
(* Sequences of bytes.                                                     *)

\* Bytes behind others.
Join(s, t) == s \o t

\* Joining bytes gives bytes, in whatever order they are joined.
LEMMA JoinFacts ==
  ASSUME NEW s \in Bytes, NEW t \in Bytes
  PROVE  /\ Join(s, t) \in Bytes /\ Len(Join(s, t)) = Len(s) + Len(t)
         /\ Len(s) \in Nat /\ Len(t) \in Nat
         /\ \A u \in Bytes : Join(Join(s, t), u) = Join(s, Join(t, u))
<1>1. s \in Seq(Byte) /\ t \in Seq(Byte) /\ Len(s) \in Nat /\ Len(t) \in Nat
  BY DEF Bytes
<1>2. s \o t \in Seq(Byte) /\ Len(s \o t) = Len(s) + Len(t)
  BY <1>1, ConcatProperties
<1>3. \A u \in Seq(Byte) : (s \o t) \o u = s \o (t \o u)
  BY <1>1, ConcatAssociative
<1> QED
  BY <1>1, <1>2, <1>3 DEF Bytes, Join

LEMMA JoinThree ==
  ASSUME NEW s \in Bytes, NEW t \in Bytes, NEW u \in Bytes
  PROVE  Join(Join(s, t), u) = Join(s, Join(t, u)) /\ Join(t, u) \in Bytes
BY JoinFacts

\* No bytes at all.
LEMMA NoBytes ==
  /\ <<>> \in Bytes /\ Len(<<>>) = 0
  /\ \A s \in Bytes : /\ Join(s, <<>>) = s /\ Join(<<>>, s) = s
                      /\ (s = <<>>) = (Len(s) = 0)
<1>1. <<>> \in Seq(Byte) /\ Len(<<>>) = 0
  OBVIOUS
<1>2. ASSUME NEW s \in Seq(Byte)
      PROVE  s \o <<>> = s /\ <<>> \o s = s /\ (s = <<>>) = (Len(s) = 0)
  <2>1. s \o <<>> = s /\ <<>> \o s = s
    BY ConcatEmptySeq
  <2>2. s # <<>> => Len(s) \in Nat \ {0}
    BY EmptySeq
  <2> QED
    BY <2>1, <2>2
<1> QED
  BY <1>1, <1>2 DEF Bytes, Join

\* Two ways to split the same bytes at the same place.
LEMMA SameSplit ==
  ASSUME NEW a \in Bytes, NEW b \in Bytes, NEW c \in Bytes, NEW d \in Bytes,
         Join(a, b) = Join(c, d), Len(a) = Len(c)
  PROVE  a = c /\ b = d
<1>1. /\ a \in Seq(Byte) /\ b \in Seq(Byte) /\ c \in Seq(Byte) /\ d \in Seq(Byte)
      /\ Len(a) \in Nat /\ Len(b) \in Nat /\ Len(c) \in Nat /\ Len(d) \in Nat
  BY DEF Bytes
<1>9. a \o b = c \o d
  BY DEF Join
<1>2. /\ Len(a \o b) = Len(a) + Len(b)
      /\ \A i \in 1 .. Len(a) + Len(b) :
           (a \o b)[i] = IF i <= Len(a) THEN a[i] ELSE b[i - Len(a)]
  BY <1>1, ConcatProperties
<1>3. /\ Len(c \o d) = Len(c) + Len(d)
      /\ \A i \in 1 .. Len(c) + Len(d) :
           (c \o d)[i] = IF i <= Len(c) THEN c[i] ELSE d[i - Len(c)]
  BY <1>1, ConcatProperties
<1>4. Len(b) = Len(d)
  BY <1>1, <1>2, <1>3, <1>9
<1>5. ASSUME NEW i \in 1 .. Len(a) PROVE a[i] = c[i]
  <2>1. i \in 1 .. Len(a) + Len(b) /\ i \in 1 .. Len(c) + Len(d) /\ i <= Len(a)
    BY <1>1, <1>4
  <2> QED
    BY <1>2, <1>3, <1>9, <2>1
<1>6. ASSUME NEW i \in 1 .. Len(b) PROVE b[i] = d[i]
  <2> DEFINE j == i + Len(a)
  <2>1. /\ j \in 1 .. Len(a) + Len(b) /\ j \in 1 .. Len(c) + Len(d)
        /\ ~(j <= Len(a)) /\ ~(j <= Len(c)) /\ j - Len(a) = i /\ j - Len(c) = i
    BY <1>1, <1>4
  <2> HIDE DEF j
  <2>2. (a \o b)[j] = b[i]
    BY <1>2, <2>1
  <2>3. (c \o d)[j] = d[i]
    BY <1>3, <2>1
  <2> QED
    BY <1>9, <2>2, <2>3
<1>7. a = c
  BY <1>1, <1>5, SeqEqual
<1>8. b = d
  BY <1>1, <1>4, <1>6, SeqEqual
<1> QED
  BY <1>7, <1>8

\* The first n bytes, and the others.
LEMMA CutFacts ==
  ASSUME NEW s \in Bytes, NEW n \in 0 .. Len(s)
  PROVE  /\ SubSeq(s, 1, n) \in Bytes /\ Len(SubSeq(s, 1, n)) = n
         /\ Drop(s, n) \in Bytes /\ Len(Drop(s, n)) = Len(s) - n
         /\ Join(SubSeq(s, 1, n), Drop(s, n)) = s
<1> DEFINE first == SubSeq(s, 1, n)
           rest  == SubSeq(s, n + 1, Len(s))
<1>1. s \in Seq(Byte) /\ Len(s) \in Nat /\ n \in Nat /\ n <= Len(s)
  BY DEF Bytes
<1>2. \A i \in 1 .. Len(s) : s[i] \in Byte
  BY <1>1, ElementOfSeq
<1>3. /\ first \in Seq(Byte) /\ Len(first) = n
      /\ \A i \in 1 .. n : first[i] = s[i]
  BY <1>1, <1>2, SubSeqProperties
<1>4. /\ rest \in Seq(Byte) /\ Len(rest) = Len(s) - n
      /\ \A i \in 1 .. Len(s) - n : rest[i] = s[n + i]
  <2>1. \A i \in n + 1 .. Len(s) : s[i] \in Byte
    BY <1>1, <1>2
  <2>2. /\ rest \in Seq(Byte)
        /\ Len(rest) = IF n + 1 <= Len(s) THEN Len(s) - (n + 1) + 1 ELSE 0
        /\ \A i \in 1 .. Len(s) - (n + 1) + 1 : rest[i] = s[n + 1 + i - 1]
    BY <1>1, <2>1, SubSeqProperties
  <2> QED
    BY <1>1, <2>2
<1> HIDE DEF first, rest
<1>5. /\ first \o rest \in Seq(Byte) /\ Len(first \o rest) = Len(s)
      /\ \A i \in 1 .. Len(s) :
           (first \o rest)[i] = IF i <= n THEN first[i] ELSE rest[i - n]
  <2>1. /\ first \o rest \in Seq(Byte) /\ Len(first \o rest) = Len(first) + Len(rest)
        /\ \A i \in 1 .. Len(first) + Len(rest) :
             (first \o rest)[i] = IF i <= Len(first) THEN first[i]
                                  ELSE rest[i - Len(first)]
    BY <1>3, <1>4, ConcatProperties
  <2>2. Len(first) + Len(rest) = Len(s)
    BY <1>1, <1>3, <1>4
  <2> QED
    BY <1>3, <2>1, <2>2
<1>6. ASSUME NEW i \in 1 .. Len(s) PROVE (first \o rest)[i] = s[i]
  <2>1. CASE i <= n
    BY <1>1, <1>3, <1>5, <2>1
  <2>2. CASE ~(i <= n)
    <3>1. i - n \in 1 .. Len(s) - n /\ n + (i - n) = i
      BY <1>1, <2>2
    <3>2. rest[i - n] = s[i]
      BY <1>4, <3>1
    <3> QED
      BY <1>5, <2>2, <3>2
  <2> QED
    BY <2>1, <2>2
<1>7. first \o rest = s
  BY <1>1, <1>5, <1>6, SeqEqual
<1> QED
  BY <1>3, <1>4, <1>7 DEF Drop, Bytes, Join, first, rest

-----------------------------------------------------------------------------
(* Frames.                                                                 *)

\* What can be framed: a message whose length fits the prefix.
Framable(m) == m \in Message /\ Size(m) \in 0 .. Base * Base - 1

\* A number below the square of the base has two digits.
LEMMA TwoDigits ==
  ASSUME NEW n \in 0 .. Base * Base - 1
  PROVE  /\ n \div Base \in 0 .. Base - 1 /\ n % Base \in 0 .. Base - 1
         /\ (n \div Base) * Base + (n % Base) = n
<1>1. Base \in Nat /\ Base > 0 /\ n \in Nat /\ n < Base * Base
  BY FramedAssumption
<1>2. ASSUME NEW b \in Nat, b > 0, NEW k \in Nat
      PROVE  /\ k \div b \in Nat /\ k % b \in 0 .. b - 1
             /\ k % b = k - (k \div b) * b
             /\ k < b * b => k \div b < b
  <2>1. k \div b \in Nat
    BY <1>2
  <2>2. k % b \in 0 .. b - 1
    BY <1>2
  <2>3. k % b = k - (k \div b) * b
    BY <1>2
  <2>4. k < b * b => k \div b < b
    BY <1>2
  <2> QED
    BY <2>1, <2>2, <2>3, <2>4
<1>3. /\ n \div Base \in Nat /\ n % Base \in 0 .. Base - 1
      /\ n % Base = n - (n \div Base) * Base /\ n \div Base < Base
  BY <1>1, <1>2
<1>4. (n \div Base) * Base \in Int
  BY <1>1, <1>3
<1> QED
  BY <1>1, <1>3, <1>4

\* A prefix is two bytes, and Uint32 undoes it.
LEMMA PrefixFacts ==
  ASSUME NEW n \in 0 .. Base * Base - 1
  PROVE  /\ Prefix(n) \in Bytes /\ Len(Prefix(n)) = 2
         /\ Uint32(Prefix(n)) = n
<1>1. /\ n \div Base \in 0 .. Base - 1 /\ n % Base \in 0 .. Base - 1
      /\ (n \div Base) * Base + (n % Base) = n
  BY TwoDigits
<1>2. <<n \div Base, NoMessage>> \in Byte /\ <<n % Base, NoMessage>> \in Byte
  BY <1>1 DEF Byte, Message
<1>3. Prefix(n) \in Seq(Byte) /\ Len(Prefix(n)) = 2
  BY <1>2 DEF Prefix
<1>4. Prefix(n)[1][1] = n \div Base /\ Prefix(n)[2][1] = n % Base
  BY DEF Prefix
<1> QED
  BY <1>1, <1>3, <1>4 DEF Bytes, Uint32

\* A payload is as long as its message says.
LEMMA PayloadFacts ==
  ASSUME NEW m, Framable(m)
  PROVE  /\ Payload(m) \in Bytes /\ Len(Payload(m)) = Size(m)
         /\ \A i \in 1 .. Size(m) : Payload(m)[i] = <<Base - 1, m>>
<1>1. m \in Message /\ Size(m) \in Nat
  BY FramedAssumption DEF Framable
<1>2. <<Base - 1, m>> \in Byte
  BY <1>1, FramedAssumption DEF Byte
<1>3. \A i \in 1 .. Size(m) : Payload(m)[i] = <<Base - 1, m>>
  BY DEF Payload
<1>4. Payload(m) \in [1 .. Size(m) -> Byte]
  BY <1>2 DEF Payload
<1>5. Payload(m) \in Seq(Byte) /\ Len(Payload(m)) = Size(m)
  BY <1>1, <1>4
<1> QED
  BY <1>3, <1>5 DEF Bytes

\* A frame is a prefix and a payload.
LEMMA FrameFacts ==
  ASSUME NEW m, Framable(m)
  PROVE  /\ Frame(m) \in Bytes /\ Len(Frame(m)) = 2 + Size(m)
         /\ Size(m) \in Nat /\ Frame(m) = Join(Prefix(Size(m)), Payload(m))
<1>1. /\ Prefix(Size(m)) \in Bytes /\ Len(Prefix(Size(m))) = 2
  BY PrefixFacts DEF Framable
<1>2. /\ Payload(m) \in Bytes /\ Len(Payload(m)) = Size(m)
  BY PayloadFacts
<1>3. Frame(m) = Join(Prefix(Size(m)), Payload(m))
  BY Zenon DEF Frame, Join
<1> QED
  BY <1>1, <1>2, <1>3, JoinFacts

\* The payload that decodes names its message.
LEMMA DecodedMessage ==
  ASSUME NEW m, Framable(m), Decodes(Payload(m))
  PROVE  Payload(m)[1][2] = m /\ m # NoMessage /\ ~Malformed(m) /\ Size(m) > 0
<1>1. Size(m) \in Nat
  BY FramedAssumption DEF Framable
<1>2. Size(m) > 0
  <2>1. Len(Payload(m)) = Size(m) /\ Payload(m) \in Bytes
    BY PayloadFacts
  <2>2. Payload(m) # <<>>
    BY DEF Decodes
  <2> QED
    BY <1>1, <2>1, <2>2, NoBytes
<1>3. Payload(m)[1] = <<Base - 1, m>>
  BY <1>1, <1>2, PayloadFacts
<1> QED
  BY <1>2, <1>3 DEF Decodes

\* Whether it decodes is a matter of its message.
LEMMA WhatDecodes ==
  ASSUME NEW m, Framable(m), Size(m) > 0, m # NoMessage, ~Malformed(m)
  PROVE  Decodes(Payload(m))
<1>1. Size(m) \in Nat
  BY FramedAssumption DEF Framable
<1>2. Payload(m)[1] = <<Base - 1, m>>
  BY <1>1, PayloadFacts
<1>3. Payload(m) # <<>>
  <2>1. Len(Payload(m)) = Size(m) /\ Payload(m) \in Bytes
    BY PayloadFacts
  <2> QED
    BY <1>1, <2>1, NoBytes
<1> QED
  BY <1>2, <1>3 DEF Decodes

-----------------------------------------------------------------------------
(* Streams of frames.                                                      *)

\* The bytes R are the frames of the messages of line behind the first j, up to
\* the k-th: r[i] is what is left of them once i are taken.
Stream(R, line, j, k) == \E r \in [j .. k -> Bytes] :
  /\ r[j] = R /\ r[k] = <<>>
  /\ \A i \in j .. k - 1 : Framable(line[i + 1]) /\ r[i] = Join(Frame(line[i + 1]), r[i + 1])

\* An empty stream; and its bytes.
LEMMA StreamStart ==
  ASSUME NEW line, NEW k \in Nat
  PROVE  Stream(<<>>, line, k, k)
<1> DEFINE r == [i \in k .. k |-> <<>>]
<1>1. r \in [k .. k -> Bytes] /\ r[k] = <<>>
  BY NoBytes
<1>2. k .. k - 1 = {}
  OBVIOUS
<1> HIDE DEF r
<1> QED
  BY <1>1, <1>2 DEF Stream

\* A frame that is begun comes last.
LEMMA StreamGrows ==
  ASSUME NEW R, NEW line, NEW j \in Nat, NEW k \in Nat, j <= k,
         Stream(R, line, j, k), Framable(line[k + 1])
  PROVE  R \in Bytes /\ Stream(Join(R, Frame(line[k + 1])), line, j, k + 1)
<1> DEFINE F == Frame(line[k + 1])
<1>1. F \in Bytes
  BY FrameFacts
<1> HIDE DEF F
<1>2. PICK r \in [j .. k -> Bytes] :
        /\ r[j] = R /\ r[k] = <<>>
        /\ \A i \in j .. k - 1 : Framable(line[i + 1]) /\ r[i] = Join(Frame(line[i + 1]), r[i + 1])
  BY DEF Stream
<1> DEFINE q == [i \in j .. k + 1 |-> IF i = k + 1 THEN <<>> ELSE Join(r[i], F)]
<1>3. q \in [j .. k + 1 -> Bytes]
  <2>1. ASSUME NEW i \in j .. k PROVE Join(r[i], F) \in Bytes
    BY <1>1, <1>2, JoinFacts
  <2> QED
    BY <2>1, NoBytes
<1>4. q[j] = Join(R, F) /\ q[k + 1] = <<>> /\ q[k] = F
  <2>1. /\ j \in j .. k + 1 /\ k \in j .. k + 1 /\ k + 1 \in j .. k + 1
        /\ j # k + 1 /\ k # k + 1
    OBVIOUS
  <2>2. q[j] = Join(r[j], F) /\ q[k] = Join(r[k], F) /\ q[k + 1] = <<>>
    BY <2>1
  <2> QED
    BY <1>1, <1>2, <2>2, NoBytes
<1>5. ASSUME NEW i \in j .. k
      PROVE  Framable(line[i + 1]) /\ q[i] = Join(Frame(line[i + 1]), q[i + 1])
  <2>1. CASE i = k
    <3>1. F = Join(F, <<>>)
      BY <1>1, NoBytes
    <3> QED
      BY <1>4, <2>1, <3>1 DEF F
  <2>2. CASE i # k
    <3>1. i \in j .. k - 1 /\ i + 1 \in j .. k /\ i \in j .. k
      BY <2>2
    <3>2. Framable(line[i + 1]) /\ r[i] = Join(Frame(line[i + 1]), r[i + 1])
      BY <1>2, <3>1
    <3>3. q[i] = Join(r[i], F) /\ q[i + 1] = Join(r[i + 1], F)
      <4>1. i \in j .. k + 1 /\ i + 1 \in j .. k + 1 /\ i # k + 1 /\ i + 1 # k + 1
        BY <2>2
      <4> QED
        BY <4>1
    <3>4. Frame(line[i + 1]) \in Bytes /\ r[i + 1] \in Bytes
      BY <3>1, <3>2, FrameFacts
    <3>5. Join(Join(Frame(line[i + 1]), r[i + 1]), F) = Join(Frame(line[i + 1]), Join(r[i + 1], F))
      BY <1>1, <3>4, JoinFacts
    <3> QED
      BY <3>2, <3>3, <3>5
  <2> QED
    BY <2>1, <2>2
<1>6. (k + 1) - 1 = k /\ R \in Bytes
  BY <1>2
<1> HIDE DEF q
<1>7. \A i \in j .. (k + 1) - 1 :
         Framable(line[i + 1]) /\ q[i] = Join(Frame(line[i + 1]), q[i + 1])
  BY <1>5, <1>6
<1> QED
  BY <1>3, <1>4, <1>6, <1>7 DEF Stream, F

\* The next frame comes first.
LEMMA StreamHead ==
  ASSUME NEW R, NEW line, NEW j \in Nat, NEW k \in Nat, j < k,
         Stream(R, line, j, k)
  PROVE  /\ Framable(line[j + 1])
         /\ \E S \in Bytes : R = Join(Frame(line[j + 1]), S) /\ Stream(S, line, j + 1, k)
<1>1. PICK r \in [j .. k -> Bytes] :
        /\ r[j] = R /\ r[k] = <<>>
        /\ \A i \in j .. k - 1 : Framable(line[i + 1]) /\ r[i] = Join(Frame(line[i + 1]), r[i + 1])
  BY DEF Stream
<1> DEFINE q == [i \in j + 1 .. k |-> r[i]]
<1>2. /\ q \in [j + 1 .. k -> Bytes] /\ q[j + 1] = r[j + 1] /\ q[k] = <<>>
  BY <1>1
<1>3. ASSUME NEW i \in j + 1 .. k - 1
      PROVE  Framable(line[i + 1]) /\ q[i] = Join(Frame(line[i + 1]), q[i + 1])
  <2>1. i \in j .. k - 1 /\ i \in j + 1 .. k /\ i + 1 \in j + 1 .. k
    OBVIOUS
  <2>2. q[i] = r[i] /\ q[i + 1] = r[i + 1]
    BY <2>1
  <2> QED
    BY <1>1, <2>1, <2>2
<1> HIDE DEF q
<1>4. Stream(q[j + 1], line, j + 1, k)
  BY <1>2, <1>3 DEF Stream
<1>5. j \in j .. k - 1 /\ j + 1 \in j .. k
  OBVIOUS
<1> QED
  BY <1>1, <1>2, <1>4, <1>5

\* No bytes are left exactly when no frames are, and one byte is not a frame.
LEMMA StreamEnds ==
  ASSUME NEW R, NEW line, NEW j \in Nat, NEW k \in Nat, j <= k,
         Stream(R, line, j, k)
  PROVE  /\ R \in Bytes /\ (j = k => R = <<>>)
         /\ Len(R) < 2 => j = k
<1>1. R \in Bytes /\ (j = k => R = <<>>)
  BY DEF Stream
<1>2. ASSUME j < k PROVE Len(R) >= 2
  <2>1. /\ Framable(line[j + 1])
        /\ \E S \in Bytes : R = Join(Frame(line[j + 1]), S) /\ Stream(S, line, j + 1, k)
    BY <1>2, StreamHead
  <2>2. PICK S \in Bytes : R = Join(Frame(line[j + 1]), S)
    BY <2>1
  <2>3. /\ Frame(line[j + 1]) \in Bytes /\ Size(line[j + 1]) \in Nat
        /\ Len(Frame(line[j + 1])) = 2 + Size(line[j + 1])
    BY <2>1, FrameFacts
  <2>4. Len(R) = Len(Frame(line[j + 1])) + Len(S) /\ Len(S) \in Nat
    BY <2>2, <2>3, JoinFacts
  <2> QED
    BY <2>3, <2>4
<1>3. Len(R) \in Nat
  BY <1>1, JoinFacts
<1> QED
  BY <1>1, <1>2, <1>3

-----------------------------------------------------------------------------
(* Experiments.                                                            *)

\* A set of naturals that is not empty has a least element.
LEMMA Least ==
  ASSUME NEW T \in SUBSET Nat, T # {}
  PROVE  \E n \in T : \A m \in T : n <= m
<1>1. PICK n \in T : \A m \in T : ~(<<m, n>> \in OpToRel(<, Nat))
  BY NatLessThanWellFounded, WFMin
<1>2. \A m \in T : ~(m < n)
  BY <1>1 DEF OpToRel
<1> QED
  BY <1>2

\* One operation more is counted or not.
LEMMA CountFacts ==
  ASSUME NEW p, NEW op, NEW n \in Nat
  PROVE  /\ Count(p, op, n) \in 0 .. n /\ Count(p, op, 0) = 0
         /\ Count(p, op, n + 1) = Count(p, op, n) + IF p[n + 1].op = op THEN 1 ELSE 0
         /\ \A m \in 0 .. n : Count(p, op, m) <= Count(p, op, n)
<1> DEFINE At(m) == {i \in 1 .. m : p[i].op = op}
<1>1. ASSUME NEW m \in Nat
      PROVE  IsFiniteSet(At(m)) /\ Cardinality(At(m)) \in 0 .. m
  <2>1. IsFiniteSet(1 .. m) /\ Cardinality(1 .. m) = m
    BY FS_Interval
  <2>2. At(m) \in SUBSET (1 .. m)
    OBVIOUS
  <2>3. IsFiniteSet(At(m)) /\ Cardinality(At(m)) <= m
    BY <2>1, <2>2, FS_Subset
  <2> QED
    BY <2>3, FS_CardinalityType
<1>2. At(0) = {}
  OBVIOUS
<1>3. At(n + 1) = IF p[n + 1].op = op THEN At(n) \cup {n + 1} ELSE At(n)
  <2>1. 1 .. n + 1 = (1 .. n) \cup {n + 1}
    OBVIOUS
  <2> QED
    BY <2>1
<1>4. n + 1 \notin At(n)
  OBVIOUS
<1>5. \A m \in 0 .. n : At(m) \in SUBSET At(n)
  OBVIOUS
<1>6. \A m \in Nat : Count(p, op, m) = Cardinality(At(m))
  BY DEF Count
<1> HIDE DEF At
<1>7. Cardinality(At(n + 1)) = Cardinality(At(n)) + IF p[n + 1].op = op THEN 1 ELSE 0
  BY <1>1, <1>3, <1>4, FS_AddElement
<1>8. \A m \in 0 .. n : Cardinality(At(m)) <= Cardinality(At(n))
  BY <1>1, <1>5, FS_Subset
<1>9. Cardinality(At(0)) = 0
  BY <1>2, FS_EmptySet
<1>10. n + 1 \in Nat /\ 0 \in Nat /\ \A m \in 0 .. n : m \in Nat
  OBVIOUS
<1> QED
  BY <1>1, <1>6, <1>7, <1>8, <1>9, <1>10

LEMMA CountNext ==
  ASSUME NEW p, NEW op, NEW n \in Nat \ {0}
  PROVE  Count(p, op, n) = Count(p, op, n - 1) + IF p[n].op = op THEN 1 ELSE 0
<1> DEFINE m == n - 1
<1>1. m \in Nat /\ m + 1 = n
  OBVIOUS
<1> HIDE DEF m
<1>2. Count(p, op, m + 1) = Count(p, op, m) + IF p[m + 1].op = op THEN 1 ELSE 0
  BY <1>1, CountFacts
<1> QED
  BY <1>1, <1>2 DEF m

\* The k-th operation of a kind is somewhere, and in one place.
LEMMA CountIndex ==
  ASSUME NEW p, NEW op, NEW n \in Nat, NEW k \in 1 .. Count(p, op, n)
  PROVE  \E i \in 1 .. n : p[i].op = op /\ Count(p, op, i) = k
<1> DEFINE T == {m \in 0 .. n : Count(p, op, m) >= k}
<1>1. \A m \in Nat : Count(p, op, m) \in Nat
  BY CountFacts
<1>2. T \in SUBSET Nat /\ n \in T
  BY <1>1
<1>3. PICK i \in T : \A m \in T : i <= m
  BY <1>2, Least
<1>4. i \in 0 .. n /\ Count(p, op, i) >= k /\ k \in Nat /\ k > 0
  BY <1>1
<1>5. i # 0
  <2>1. Count(p, op, 0) = 0
    BY CountFacts
  <2> QED
    BY <1>4, <2>1
<1>6. i - 1 \in 0 .. n /\ i - 1 \notin T
  BY <1>3, <1>4, <1>5
<1>7. Count(p, op, i - 1) < k /\ Count(p, op, i - 1) \in Nat
  BY <1>1, <1>4, <1>6
<1>8. Count(p, op, i) = Count(p, op, i - 1) + IF p[i].op = op THEN 1 ELSE 0
  <2>1. i - 1 \in Nat /\ (i - 1) + 1 = i
    BY <1>4, <1>5
  <2> QED
    BY <2>1, CountFacts
<1>9. p[i].op = op /\ Count(p, op, i) = k
  BY <1>4, <1>7, <1>8
<1> QED
  BY <1>4, <1>5, <1>9

LEMMA CountUnique ==
  ASSUME NEW p, NEW op, NEW i \in Nat \ {0}, NEW j \in Nat \ {0},
         p[i].op = op, p[j].op = op, Count(p, op, i) = Count(p, op, j)
  PROVE  i = j
<1>1. ASSUME NEW a \in Nat \ {0}, NEW b \in Nat \ {0}, a < b, p[b].op = op
      PROVE  Count(p, op, a) < Count(p, op, b)
  <2>1. b - 1 \in Nat /\ (b - 1) + 1 = b /\ a \in 0 .. b - 1
    BY <1>1
  <2>2. Count(p, op, a) <= Count(p, op, b - 1)
    BY <2>1, CountFacts
  <2>3. Count(p, op, b) = Count(p, op, b - 1) + 1
    BY <1>1, <2>1, CountFacts
  <2>4. Count(p, op, a) \in Nat /\ Count(p, op, b - 1) \in Nat
    BY <2>1, CountFacts
  <2> QED
    BY <2>2, <2>3, <2>4
<1>2. Count(p, op, i) \in Nat
  BY CountFacts
<1> QED
  BY <1>1, <1>2

Operation == [op : {"send", "reply", "end"}, message : Requests, type : STRING]

\* An experiment is a list of operations, and the messages it sends can be framed,
\* as can their answers.
LEMMA ProgramFacts ==
  ASSUME NEW p \in Program \cup Frames
  PROVE  /\ p \in Seq(Operation) /\ Len(p) \in Nat /\ DOMAIN p = 1 .. Len(p)
         /\ \A i \in 1 .. Len(p) :
              p[i].op \in {"send", "reply", "end"} /\ p[i].message \in Requests
         /\ \A m \in Requests : Framable(m) /\ Framable(Answer(m)) /\ Size(Answer(m)) > 0
<1>1. p \in Seq(Operation)
  BY ProgramAssumption DEF Operation
<1>2. Len(p) \in Nat /\ DOMAIN p = 1 .. Len(p)
  BY <1>1
<1>3. \A i \in 1 .. Len(p) : p[i] \in Operation
  BY <1>1, ElementOfSeq
<1>4. ASSUME NEW i \in 1 .. Len(p)
      PROVE  p[i].op \in {"send", "reply", "end"} /\ p[i].message \in Requests
  BY <1>3 DEF Operation
<1>5. ASSUME NEW m \in Requests
      PROVE  Framable(m) /\ Framable(Answer(m)) /\ Size(Answer(m)) > 0
  <2>1. Size(m) \in 0 .. Base * Base - 1 /\ Size(Answer(m)) \in 1 .. Base * Base - 1
    BY ProgramAssumption
  <2>2. m \in Message /\ Answer(m) \in Message
    BY DEF Message
  <2>3. Base * Base \in Int
    BY FramedAssumption
  <2> QED
    BY <2>1, <2>2, <2>3 DEF Framable
<1> QED
  BY <1>1, <1>2, <1>4, <1>5

\* What an experiment sends, one by one.
LEMMA SentFacts ==
  ASSUME NEW p \in Program \cup Frames
  PROVE  /\ SentBy(p) \in Seq(Requests) /\ Len(SentBy(p)) = Count(p, "send", Len(p))
         /\ Len(SentBy(p)) \in Nat /\ DOMAIN SentBy(p) = 1 .. Len(SentBy(p))
         /\ \A k \in 1 .. Len(SentBy(p)) : \E i \in 1 .. Len(p) :
              /\ p[i].op = "send" /\ Count(p, "send", i) = k
              /\ SentBy(p)[k] = p[i].message
         /\ \A i \in 1 .. Len(p) : p[i].op = "send" =>
              /\ Count(p, "send", i) \in 1 .. Len(SentBy(p))
              /\ SentBy(p)[Count(p, "send", i)] = p[i].message
<1> DEFINE total == Count(p, "send", Len(p))
           Place(k) == CHOOSE i \in DOMAIN p : p[i].op = "send" /\ Count(p, "send", i) = k
<1>1. /\ Len(p) \in Nat /\ DOMAIN p = 1 .. Len(p) /\ total \in Nat
      /\ \A i \in 1 .. Len(p) : p[i].message \in Requests
  BY ProgramFacts, CountFacts
<1>2. ASSUME NEW k \in 1 .. total
      PROVE  /\ Place(k) \in 1 .. Len(p) /\ p[Place(k)].op = "send"
             /\ Count(p, "send", Place(k)) = k
  <2>1. k \in 1 .. Count(p, "send", Len(p)) /\ Len(p) \in Nat
    BY <1>1
  <2>2. \E i \in 1 .. Len(p) : p[i].op = "send" /\ Count(p, "send", i) = k
    BY <2>1, CountIndex
  <2>3. \E i \in DOMAIN p : p[i].op = "send" /\ Count(p, "send", i) = k
    BY <1>1, <2>2
  <2> QED
    BY <1>1, <2>3
<1>3. SentBy(p) = [k \in 1 .. total |-> p[Place(k)].message]
  BY DEF SentBy
<1> HIDE DEF total, Place
<1>4. /\ SentBy(p) \in [1 .. total -> Requests]
      /\ \A k \in 1 .. total : SentBy(p)[k] = p[Place(k)].message
  BY <1>1, <1>2, <1>3
<1>5. SentBy(p) \in Seq(Requests) /\ Len(SentBy(p)) = total /\ DOMAIN SentBy(p) = 1 .. total
  BY <1>1, <1>4
<1>6. ASSUME NEW i \in 1 .. Len(p), p[i].op = "send"
      PROVE  /\ Count(p, "send", i) \in 1 .. total
             /\ SentBy(p)[Count(p, "send", i)] = p[i].message
  <2>1. i - 1 \in Nat /\ (i - 1) + 1 = i /\ i \in 0 .. Len(p)
    BY <1>1
  <2>2. Count(p, "send", i) = Count(p, "send", i - 1) + 1 /\ Count(p, "send", i - 1) \in Nat
    <3>1. Count(p, "send", (i - 1) + 1)
            = Count(p, "send", i - 1) + IF p[(i - 1) + 1].op = "send" THEN 1 ELSE 0
      BY <2>1, CountFacts
    <3>2. Count(p, "send", i - 1) \in Nat
      BY <2>1, CountFacts
    <3> QED
      BY <1>6, <2>1, <3>1, <3>2
  <2>3. Count(p, "send", i) <= total
    BY <1>1, <2>1, CountFacts DEF total
  <2>4. Count(p, "send", i) \in 1 .. total
    BY <1>1, <2>2, <2>3
  <2>5. Place(Count(p, "send", i)) = i
    BY <1>2, <1>6, <2>4, <1>1, CountUnique
  <2> QED
    BY <1>4, <2>4, <2>5
<1> QED
  BY <1>1, <1>2, <1>4, <1>5, <1>6 DEF total

\* Requests are not sent two at a time.
OneByOne(p) ==
  \A i \in 1 .. Len(p) - 1 : ~(p[i].op = "send" /\ p[i + 1].op = "send")

\* Then at most one answer is outstanding.
LEMMA OneOutstanding ==
  ASSUME NEW p \in Program, OneByOne(p), NEW n \in 0 .. Len(p)
  PROVE  Count(p, "send", n) <= Count(p, "reply", n) + 1
<1> DEFINE S(m) == Count(p, "send", m)
           R(m) == Count(p, "reply", m)
           Kept(m) == /\ S(m) <= R(m) + 1
                      /\ m = 0 \/ p[m].op = "reply" => S(m) <= R(m)
           T == {m \in 0 .. Len(p) : ~Kept(m)}
<1>1. /\ Len(p) \in Nat /\ DOMAIN p = 1 .. Len(p)
      /\ \A i \in 1 .. Len(p) : p[i].op \in {"send", "reply", "end"}
  BY ProgramFacts
<1>2. \A i \in 1 .. Len(p) : p[i].op = "end" => i = Len(p)
  BY <1>1, ExperimentAssumption DEF WellFormed
<1>3. \A m \in Nat : S(m) \in Nat /\ R(m) \in Nat
  BY CountFacts
<1>4. ASSUME T # {} PROVE FALSE
  <2>1. T \in SUBSET Nat
    BY <1>1
  <2>2. PICK m \in T : \A j \in T : m <= j
    BY <1>4, <2>1, Least
  <2>3. S(0) = 0 /\ R(0) = 0
    BY CountFacts
  <2>4. m \in 1 .. Len(p) /\ ~Kept(m)
    BY <2>2, <2>3, <1>1
  <2>5. m - 1 \in 0 .. Len(p) /\ (m - 1) + 1 = m /\ m - 1 \in Nat /\ m - 1 \notin T
    BY <1>1, <2>2, <2>4
  <2>6. Kept(m - 1)
    BY <2>5
  <2>8. /\ S(m) = S(m - 1) + IF p[m].op = "send" THEN 1 ELSE 0
        /\ R(m) = R(m - 1) + IF p[m].op = "reply" THEN 1 ELSE 0
    BY <2>4, <1>1, CountNext
  <2>9. p[m].op = "send" => m - 1 = 0 \/ p[m - 1].op = "reply"
    <3>1. CASE m - 1 = 0
      BY <3>1
    <3>2. CASE m - 1 # 0
      <4>1. m - 1 \in 1 .. Len(p) /\ m - 1 \in 1 .. Len(p) - 1 /\ m - 1 # Len(p)
        BY <1>1, <2>4, <2>5, <3>2
      <4>2. p[m].op = "send" => p[m - 1].op # "send"
        BY <2>5, <4>1 DEF OneByOne
      <4> QED
        BY <1>1, <1>2, <4>1, <4>2
    <3> QED
      BY <3>1, <3>2
  <2>10. p[m].op \in {"send", "reply", "end"}
    BY <1>1, <2>4
  <2>11. S(m - 1) \in Nat /\ R(m - 1) \in Nat
    BY <1>3, <2>5
  <2> HIDE DEF S, R
  <2> QED
    BY <2>4, <2>6, <2>8, <2>9, <2>10, <2>11
<1> QED
  BY <1>4

\* After an answer that ends the connection nothing is sent.
LEMMA NoMoreSends ==
  ASSUME NEW p \in Program, OneByOne(p),
         Count(p, "reply", Len(p)) > 0,
         ~Valid(SentBy(p)[Count(p, "reply", Len(p))])
  PROVE  Len(SentBy(p)) <= Count(p, "reply", Len(p))
<1> DEFINE replies == Count(p, "reply", Len(p))
           sent == Len(SentBy(p))
<1>1. /\ Len(p) \in Nat /\ DOMAIN p = 1 .. Len(p)
      /\ sent \in Nat /\ replies \in Nat
  BY ProgramFacts, SentFacts, CountFacts
<1>2. CASE sent = 0
  BY <1>1, <1>2
<1>3. CASE sent # 0
  <2>1. sent \in 1 .. sent
    BY <1>1, <1>3
  <2>2. PICK i \in 1 .. Len(p) : p[i].op = "send" /\ Count(p, "send", i) = sent
    BY <2>1, SentFacts
  <2>3. Count(p, "reply", i) > 0 /\ Count(p, "reply", i) = replies
          => Valid(SentBy(p)[Count(p, "reply", i)])
    BY <1>1, <2>2, ExperimentAssumption DEF WellFormed
  <2>4. i \in 0 .. Len(p) /\ i \in Nat
    BY <1>1
  <2>5. Count(p, "reply", i) <= replies /\ Count(p, "reply", i) \in Nat
    BY <1>1, <2>4, CountFacts
  <2>6. sent <= Count(p, "reply", i) + 1
    BY <2>2, <2>4, OneOutstanding
  <2>7. Count(p, "reply", i) # replies
    BY <2>3
  <2> QED
    BY <1>1, <2>5, <2>6, <2>7
<1> QED
  BY <1>2, <1>3

-----------------------------------------------------------------------------
(* The inductive invariant.                                                *)

\* Where the client is in its experiment, what it has sent and read so far, and
\* what it wants to read.
Pos == Len(program) - Len(todo)
Written == Count(program, "send", Pos)
Fetched == Count(program, "reply", Pos)
Replies == Count(program, "reply", Len(program))

\* The messages on their way to an end, how many frames of them are begun and
\* how many are decoded, and the bytes that are not in its hands.
Line(e) == IF e = "server" THEN Sent ELSE [i \in DOMAIN Sent |-> Answer(Sent[i])]
Begun(e) ==
  IF e = "server" THEN Written
  ELSE IF pc.server = "write" THEN Len(replied) + 1 ELSE Len(replied)
Taken(e) ==
  IF e = "client" THEN Fetched
  ELSE IF pc.server = "dispatch" THEN Len(handled) + 1 ELSE Len(handled)
Rest(e) == Join(pipe[e], out[Peer(e)])

\* A reader is in step: where it is in a frame is where the bytes are.
Ready(place, g, n, rest, line, j, k) ==
  /\ place \notin {"prefix", "payload", "closed"} => Stream(rest, line, j, k)
  /\ place = "prefix" => n = 2 /\ Stream(Join(g, rest), line, j, k)
  /\ place = "payload" =>
       /\ j < k /\ n = Size(line[j + 1]) /\ n <= MaxFrame
       /\ Stream(Join(Prefix(n), Join(g, rest)), line, j, k)
InStep(e) == Ready(pc[e], got[e], need[e], Rest(e), Line(e), Taken(e), Begun(e))

Typed ==
  /\ TypeOK
  /\ message \in [End -> Message] /\ handled \in Seq(Message) /\ replied \in Seq(Message)

Places ==
  /\ pc.client \in {"next", "write", "prefix", "payload", "closed"}
  /\ pc.server \in {"loop", "prefix", "payload", "dispatch", "write", "wrote", "closed"}
  /\ service = "framing" =>
       /\ pc.server \in {"loop", "prefix", "payload", "closed"}
       /\ pc.client \in {"next", "write", "closed"}
       /\ pipe.client = <<>>

Sockets ==
  /\ conn.server # "vanished" /\ (conn.server = "closed") = (pc.server = "closed")
  /\ (conn.client = "open") = (pc.client # "closed")
  /\ (conn.client = "open") = (outcome = "running")
  /\ conn.client = "vanished" => outcome = "fail"
  /\ outcome = "pass" => todo = <<>> /\ out.client = <<>>

\* Only a Write has bytes to send.
Writing ==
  /\ \A e \in End : pc[e] # "closed" => (pc[e] = "write") = (out[e] # <<>>)
  /\ pc.server = "closed" /\ conn.client = "open" => out.server = <<>>

Script ==
  /\ program \in (IF service = "protocol" THEN Program ELSE Frames)
  /\ Pos \in 0 .. Len(program) /\ todo = Drop(program, Pos)
  /\ pc.client \in {"prefix", "payload"} => todo # <<>> /\ todo[1].op \in {"reply", "end"}

\* What the server has handled, and what it is about to.
Handling ==
  /\ Len(handled) <= Written /\ \A i \in 1 .. Len(handled) : handled[i] = Sent[i]
  /\ service = "protocol" =>
       /\ \A i \in 1 .. Len(handled) :
            Decodes(Payload(handled[i])) /\ Size(handled[i]) <= MaxFrame
       /\ \A i \in 1 .. Len(handled) :
            i < Len(handled) \/ pc.server \in {"loop", "prefix", "payload", "dispatch"}
              => Valid(handled[i])
       /\ pc.server = "dispatch" =>
            /\ Len(handled) < Written /\ message.server = Sent[Len(handled) + 1]
            /\ Decodes(Payload(message.server)) /\ Size(message.server) <= MaxFrame
       /\ pc.server \in {"write", "wrote"} =>
            Len(handled) > 0 /\ message.server = handled[Len(handled)]

\* What it has answered.
Answering ==
  /\ service = "protocol" =>
       /\ pc.server = "write" => Len(replied) = Len(handled) - 1
       /\ pc.server \notin {"write", "closed"} => Len(replied) = Len(handled)
       /\ Len(replied) \in {Len(handled), Len(handled) - 1}
       /\ \A i \in 1 .. Len(replied) :
            replied[i] = Answer(handled[i]) /\ Size(replied[i]) <= MaxFrame
       /\ pc.server = "write" => Size(Answer(message.server)) <= MaxFrame
  /\ service = "framing" => replied = <<>>
  /\ Fetched <= Len(replied)

\* Why the framing server stopped.
PrinterDone ==
  service = "framing" /\ pc.server = "closed" =>
    \/ clock = "late"
    \/ logged /\ Len(handled) < Len(Sent) /\ Size(Sent[Len(handled) + 1]) > MaxFrame
    \/ outcome # "running" /\ (outcome = "pass" => handled = Sent /\ ~logged)

\* Nothing has happened yet, nor is in the experiment, that may make it fail.
Clean ==
  /\ clock = "early" /\ conn.client # "vanished"
  /\ \A i \in 1 .. Len(Sent) : Size(Sent[i]) <= MaxFrame /\ Size(Answer(Sent[i])) <= MaxFrame
  /\ service = "protocol" => OneByOne(program)

\* Then a server that is done has done everything.
Smooth ==
  Clean =>
    /\ outcome # "fail"
    /\ pc.server = "closed" /\ conn.client = "open" =>
         /\ service = "protocol" /\ pipe.server = <<>> /\ out.client = <<>>
         /\ Written = Len(Sent) /\ Len(replied) = Replies

Control == Typed /\ Places /\ Sockets /\ Writing /\ Script

IInv ==
  /\ Control /\ Handling /\ Answering
  /\ InStep("server") /\ InStep("client")
  /\ outcome # "wrong" /\ PrinterDone /\ Smooth

-----------------------------------------------------------------------------
(* Readers.                                                                *)

\* A frame takes its place at the end of what comes.
LEMMA ReadyGrows ==
  ASSUME NEW place, NEW g \in Bytes, NEW n, NEW rest \in Bytes, NEW line,
         NEW j \in Nat, NEW k \in Nat, j <= k, place # "closed",
         Ready(place, g, n, rest, line, j, k), Framable(line[k + 1]),
         place = "payload" => Framable(line[j + 1])
  PROVE  Ready(place, g, n, Join(rest, Frame(line[k + 1])), line, j, k + 1)
<1> DEFINE F == Frame(line[k + 1])
<1>1. F \in Bytes
  BY FrameFacts
<1>2. CASE place \notin {"prefix", "payload"}
  BY <1>2, StreamGrows DEF Ready
<1>3. CASE place = "prefix"
  <2>1. Stream(Join(Join(g, rest), F), line, j, k + 1)
    BY <1>3, StreamGrows DEF Ready
  <2>2. Join(Join(g, rest), F) = Join(g, Join(rest, F))
    BY <1>1, JoinFacts
  <2> QED
    BY <1>3, <2>1, <2>2 DEF Ready
<1>4. CASE place = "payload"
  <2>1. /\ Stream(Join(Prefix(n), Join(g, rest)), line, j, k)
        /\ j < k /\ n = Size(line[j + 1]) /\ n <= MaxFrame
    BY <1>4 DEF Ready
  <2>2. Prefix(n) \in Bytes /\ Join(g, rest) \in Bytes
    BY <1>4, <2>1, PrefixFacts, JoinFacts DEF Framable
  <2>3. Stream(Join(Join(Prefix(n), Join(g, rest)), F), line, j, k + 1)
    BY <2>1, StreamGrows
  <2>4. Join(Join(Prefix(n), Join(g, rest)), F) = Join(Prefix(n), Join(Join(g, rest), F))
    BY <1>1, <2>2, JoinThree
  <2>5. Join(Join(g, rest), F) = Join(g, Join(rest, F))
    BY <1>1, JoinThree
  <2> QED
    BY <1>4, <2>1, <2>3, <2>4, <2>5 DEF Ready
<1> QED
  BY <1>2, <1>3, <1>4

\* A read moves bytes from the one hand to the other.
LEMMA ReadyReads ==
  ASSUME NEW place, NEW g \in Bytes, NEW n, NEW a \in Bytes, NEW b \in Bytes,
         NEW line, NEW j, NEW k, place \in {"prefix", "payload"},
         Ready(place, g, n, Join(a, b), line, j, k)
  PROVE  Ready(place, Join(g, a), n, b, line, j, k)
<1>1. Join(Join(g, a), b) = Join(g, Join(a, b))
  BY JoinFacts
<1> QED
  BY <1>1 DEF Ready

\* The prefix that has been read is that of the next frame.
LEMMA ReadyPrefix ==
  ASSUME NEW g \in Bytes, NEW n, NEW rest \in Bytes, NEW line,
         NEW j \in Nat, NEW k \in Nat, j <= k, Len(g) = n,
         Ready("prefix", g, n, rest, line, j, k)
  PROVE  /\ j < k /\ Framable(line[j + 1]) /\ Uint32(g) = Size(line[j + 1])
         /\ Size(line[j + 1]) <= MaxFrame
              => Ready("payload", <<>>, Size(line[j + 1]), rest, line, j, k)
<1>1. Len(g) = 2 /\ Stream(Join(g, rest), line, j, k)
  BY DEF Ready
<1>2. Join(g, rest) \in Bytes /\ Len(Join(g, rest)) = 2 + Len(rest) /\ Len(rest) \in Nat
  BY <1>1, JoinFacts
<1>3. j < k
  <2>1. j = k => Join(g, rest) = <<>>
    BY <1>1, StreamEnds
  <2>2. Join(g, rest) # <<>>
    BY <1>2, NoBytes
  <2> QED
    BY <2>1, <2>2
<1> DEFINE m == line[j + 1]
<1>4. Framable(m) /\ \E S \in Bytes : Join(g, rest) = Join(Frame(m), S)
  <2>1. /\ Framable(line[j + 1])
        /\ \E S \in Bytes : Join(g, rest) = Join(Frame(line[j + 1]), S) /\ Stream(S, line, j + 1, k)
    BY <1>1, <1>3, StreamHead
  <2> QED
    BY <2>1
<1> HIDE DEF m
<1>5. PICK S \in Bytes : Join(g, rest) = Join(Frame(m), S)
  BY <1>4
<1>6. /\ Prefix(Size(m)) \in Bytes /\ Len(Prefix(Size(m))) = 2 /\ Payload(m) \in Bytes
      /\ Uint32(Prefix(Size(m))) = Size(m)
  BY <1>4, PrefixFacts, PayloadFacts DEF Framable
<1>7. /\ Join(Payload(m), S) \in Bytes
      /\ Join(Join(Prefix(Size(m)), Payload(m)), S) = Join(Prefix(Size(m)), Join(Payload(m), S))
  BY <1>6, JoinThree
<1>8. Join(g, rest) = Join(Prefix(Size(m)), Join(Payload(m), S))
  BY <1>4, <1>5, <1>7, FrameFacts
<1>9. g = Prefix(Size(m))
  BY <1>1, <1>6, <1>7, <1>8, SameSplit
<1>10. Join(<<>>, rest) = rest
  BY NoBytes
<1>11. Size(m) <= MaxFrame => Ready("payload", <<>>, Size(m), rest, line, j, k)
  BY <1>1, <1>3, <1>9, <1>10 DEF Ready, m
<1> QED
  BY <1>3, <1>4, <1>6, <1>9, <1>11 DEF m

\* The bytes R are the payload of the next message, and what follows its frame.
Ahead(R, line, j, k) == \E S \in Bytes :
  R = Join(Payload(line[j + 1]), S) /\ Stream(S, line, j + 1, k)

\* That is what a reader of a payload has in its hand and before it.
LEMMA ReadyHead ==
  ASSUME NEW g \in Bytes, NEW n, NEW rest \in Bytes, NEW line,
         NEW j \in Nat, NEW k \in Nat,
         Ready("payload", g, n, rest, line, j, k)
  PROVE  /\ j < k /\ Framable(line[j + 1]) /\ n = Size(line[j + 1]) /\ n <= MaxFrame
         /\ Ahead(Join(g, rest), line, j, k)
<1> DEFINE m == line[j + 1]
<1>1. j < k /\ n = Size(m) /\ n <= MaxFrame /\ Stream(Join(Prefix(n), Join(g, rest)), line, j, k)
  BY DEF Ready
<1>2. /\ Framable(line[j + 1])
      /\ \E S \in Bytes : /\ Join(Prefix(n), Join(g, rest)) = Join(Frame(line[j + 1]), S)
                          /\ Stream(S, line, j + 1, k)
  BY <1>1, StreamHead
<1> HIDE DEF m
<1>3. PICK S \in Bytes : Join(Prefix(n), Join(g, rest)) = Join(Frame(m), S) /\ Stream(S, line, j + 1, k)
  BY <1>2 DEF m
<1>4. Framable(m)
  BY <1>2 DEF m
<1>5. /\ Prefix(n) \in Bytes /\ Payload(m) \in Bytes
  BY <1>1, <1>4, PrefixFacts, PayloadFacts DEF Framable
<1>6. /\ Join(Payload(m), S) \in Bytes /\ Join(g, rest) \in Bytes
      /\ Join(Join(Prefix(n), Payload(m)), S) = Join(Prefix(n), Join(Payload(m), S))
  BY <1>5, JoinFacts, JoinThree
<1>7. Join(Prefix(n), Join(g, rest)) = Join(Prefix(n), Join(Payload(m), S))
  BY <1>1, <1>3, <1>4, <1>6, FrameFacts
<1>8. Join(g, rest) = Join(Payload(m), S)
  BY <1>5, <1>6, <1>7, SameSplit
<1> QED
  BY <1>1, <1>3, <1>4, <1>8 DEF Ahead, m

\* The payload that has been read is that of the next message.
Whole(g, n, rest, line, j, k) ==
  /\ j < k /\ Framable(line[j + 1]) /\ n = Size(line[j + 1]) /\ n <= MaxFrame
  /\ g = Payload(line[j + 1]) /\ Stream(rest, line, j + 1, k)

LEMMA ReadyPayload ==
  ASSUME NEW g \in Bytes, NEW n, NEW rest \in Bytes, NEW line,
         NEW j \in Nat, NEW k \in Nat, Len(g) = n,
         Ready("payload", g, n, rest, line, j, k)
  PROVE  Whole(g, n, rest, line, j, k)
<1> DEFINE m == line[j + 1]
<1>1. /\ j < k /\ Framable(m) /\ n = Size(m) /\ n <= MaxFrame
      /\ \E S \in Bytes : Join(g, rest) = Join(Payload(m), S) /\ Stream(S, line, j + 1, k)
  <2>1. /\ j < k /\ Framable(line[j + 1]) /\ n = Size(line[j + 1]) /\ n <= MaxFrame
        /\ Ahead(Join(g, rest), line, j, k)
    <3> HIDE DEF m
    <3>1. g \in Bytes /\ rest \in Bytes /\ j \in Nat /\ k \in Nat /\ Ready("payload", g, n, rest, line, j, k)
      OBVIOUS
    <3> QED
      BY ONLY <3>1, ReadyHead
  <2> QED
    BY <2>1 DEF Ahead
<1> HIDE DEF m
<1>2. PICK S \in Bytes : Join(g, rest) = Join(Payload(m), S) /\ Stream(S, line, j + 1, k)
  BY <1>1
<1>3. Payload(m) \in Bytes /\ Len(Payload(m)) = n
  BY <1>1, PayloadFacts
<1>4. g = Payload(m) /\ rest = S
  BY <1>2, <1>3, SameSplit
<1> QED
  BY <1>1, <1>2, <1>4 DEF Whole, m

\* A reader that waits while nothing is left is between two frames, and has taken all.
LEMMA ReadyStarved ==
  ASSUME NEW place \in {"prefix", "payload"}, NEW g \in Bytes, NEW n,
         NEW rest \in Bytes, rest = <<>>, NEW line,
         NEW j \in Nat, NEW k \in Nat, j <= k, Len(g) < n,
         Ready(place, g, n, rest, line, j, k)
  PROVE  place = "prefix" /\ j = k /\ g = <<>>
<1>1. Join(g, rest) = g /\ Len(g) \in Nat
  BY NoBytes, JoinFacts
<1>2. ASSUME place = "payload" PROVE FALSE
  <2>1. /\ j < k /\ Framable(line[j + 1]) /\ n = Size(line[j + 1]) /\ n <= MaxFrame
        /\ Ahead(Join(g, rest), line, j, k)
    <3>1. /\ g \in Bytes /\ rest \in Bytes /\ j \in Nat /\ k \in Nat
          /\ Ready("payload", g, n, rest, line, j, k)
      BY <1>2
    <3> QED
      BY ONLY <3>1, ReadyHead
  <2>2. PICK S \in Bytes : g = Join(Payload(line[j + 1]), S)
    BY <1>1, <2>1 DEF Ahead
  <2>3. Payload(line[j + 1]) \in Bytes /\ Len(Payload(line[j + 1])) = n
    BY <2>1, PayloadFacts
  <2>4. Len(g) = n + Len(S) /\ Len(S) \in Nat /\ n \in Nat
    BY <2>2, <2>3, JoinFacts
  <2> QED
    BY <1>1, <2>4
<1>3. CASE place = "prefix"
  <2>1. Len(g) < 2 /\ Stream(g, line, j, k)
    BY <1>1, <1>3 DEF Ready
  <2> QED
    BY <1>3, <2>1, StreamEnds
<1> QED
  BY <1>2, <1>3

-----------------------------------------------------------------------------
(* What the invariant says of numbers.                                     *)

\* The experiment's numbers, and what its messages are.
LEMMA ScriptFacts ==
  ASSUME Script
  PROVE  /\ program \in Program \cup Frames
         /\ service = "protocol" => program \in Program
         /\ Len(program) \in Nat /\ Pos \in 0 .. Len(program)
         /\ Len(Sent) \in Nat /\ DOMAIN Sent = 1 .. Len(Sent) /\ Sent \in Seq(Requests)
         /\ Written \in Nat /\ Written <= Len(Sent)
         /\ Fetched \in Nat /\ Fetched <= Replies /\ Replies \in Nat
<1>1. program \in Program \cup Frames /\ (service = "protocol" => program \in Program)
  BY DEF Script
<1>2. Len(program) \in Nat /\ Pos \in 0 .. Len(program) /\ Pos \in Nat
  BY <1>1, ProgramFacts DEF Script
<1>3. /\ SentBy(program) \in Seq(Requests)
      /\ Len(SentBy(program)) = Count(program, "send", Len(program))
      /\ Len(SentBy(program)) \in Nat /\ DOMAIN SentBy(program) = 1 .. Len(SentBy(program))
  BY <1>1, SentFacts
<1>4. \A op : /\ Count(program, op, Pos) \in Nat /\ Count(program, op, Len(program)) \in Nat
              /\ Count(program, op, Pos) <= Count(program, op, Len(program))
  BY <1>2, CountFacts
<1> QED
  BY <1>1, <1>2, <1>3, <1>4 DEF Sent, Written, Fetched, Replies

\* Every message on its way can be framed.
LEMMA LineFacts ==
  ASSUME Script, NEW i \in 1 .. Len(Sent)
  PROVE  /\ Sent[i] \in Requests /\ Line("server")[i] = Sent[i]
         /\ Line("client")[i] = Answer(Sent[i])
         /\ \A e \in End : Framable(Line(e)[i])
         /\ Size(Answer(Sent[i])) > 0
<1>1. program \in Program \cup Frames /\ Sent \in Seq(Requests) /\ DOMAIN Sent = 1 .. Len(Sent)
  BY ScriptFacts
<1>2. Sent[i] \in Requests
  BY <1>1, ElementOfSeq
<1>3. Framable(Sent[i]) /\ Framable(Answer(Sent[i])) /\ Size(Answer(Sent[i])) > 0
  BY <1>1, <1>2, ProgramFacts
<1>4. Line("server")[i] = Sent[i] /\ Line("client")[i] = Answer(Sent[i])
  BY <1>1 DEF Line
<1> QED
  BY <1>2, <1>3, <1>4 DEF End

\* No more frames are decoded than begun, nor begun than there are messages.
LEMMA Numbers ==
  ASSUME Control, Handling, Answering
  PROVE  /\ Len(handled) \in Nat /\ Len(replied) \in Nat /\ Len(replied) <= Len(handled)
         /\ Len(handled) <= Len(Sent)
         /\ \A e \in End : /\ Taken(e) \in Nat /\ Begun(e) \in Nat
                           /\ Taken(e) <= Begun(e) /\ Begun(e) <= Len(Sent)
         /\ service = "protocol" => Begun("client") <= Len(handled)
<1>1. /\ Written \in Nat /\ Written <= Len(Sent) /\ Fetched \in Nat /\ Len(Sent) \in Nat
  BY ScriptFacts DEF Control
<1>2. Len(handled) \in Nat /\ Len(replied) \in Nat
  BY DEF Control, Typed
<1>3. Len(handled) <= Written /\ Fetched <= Len(replied)
  BY DEF Handling, Answering
<1>4. service = "protocol" \/ service = "framing"
  BY DEF Control, Typed, TypeOK
<1>5. service = "protocol" => Len(replied) <= Len(handled)
                             /\ (pc.server = "write" => Len(replied) + 1 <= Len(handled))
  BY <1>2 DEF Answering
<1>6. service = "framing" => Len(replied) = 0 /\ pc.server # "write" /\ pc.server # "dispatch"
  BY DEF Answering, Control, Places
<1>7. pc.server = "dispatch" => Len(handled) < Written
  BY <1>4, <1>6 DEF Handling
<1>8. /\ Taken("client") \in Nat /\ Begun("client") \in Nat
      /\ Taken("client") <= Begun("client") /\ Begun("client") <= Len(Sent)
      /\ service = "protocol" => Begun("client") <= Len(handled)
  BY <1>1, <1>2, <1>3, <1>4, <1>5, <1>6 DEF Taken, Begun
<1>9. /\ Taken("server") \in Nat /\ Begun("server") \in Nat
      /\ Taken("server") <= Begun("server") /\ Begun("server") <= Len(Sent)
  BY <1>1, <1>2, <1>3, <1>7 DEF Taken, Begun
<1> QED
  BY <1>1, <1>2, <1>3, <1>4, <1>5, <1>6, <1>8, <1>9 DEF End

\* The next operation, when there is one.
LEMMA NextOperation ==
  ASSUME Script, todo # <<>>
  PROVE  /\ Pos + 1 \in 1 .. Len(program) /\ todo[1] = program[Pos + 1]
         /\ Drop(todo, 1) = Drop(program, Pos + 1)
         /\ Len(Drop(todo, 1)) = Len(todo) - 1 /\ Len(todo) \in Nat
         /\ todo[1].op \in {"send", "reply", "end"} /\ todo[1].message \in Requests
<1>1. /\ program \in Program \cup Frames /\ Pos \in 0 .. Len(program) /\ Len(program) \in Nat
  BY ScriptFacts
<1>2. /\ program \in Seq(Operation)
      /\ \A i \in 1 .. Len(program) :
           program[i].op \in {"send", "reply", "end"} /\ program[i].message \in Requests
  BY <1>1, ProgramFacts
<1> DEFINE n == Pos
<1>3. n \in Nat /\ n <= Len(program) /\ todo = SubSeq(program, n + 1, Len(program))
  BY <1>1 DEF Script, Drop
<1> HIDE DEF n
<1>4. \A i \in 1 .. Len(program) : program[i] \in Operation
  BY <1>2, ElementOfSeq
<1>5. ASSUME NEW m \in Nat, m <= Len(program)
      PROVE  LET s == SubSeq(program, m + 1, Len(program)) IN
             /\ s \in Seq(Operation) /\ Len(s) = Len(program) - m
             /\ \A i \in 1 .. Len(program) - m : s[i] = program[m + i]
  <2>1. \A i \in m + 1 .. Len(program) : program[i] \in Operation
    BY <1>1, <1>4
  <2>2. LET s == SubSeq(program, m + 1, Len(program)) IN
        /\ s \in Seq(Operation)
        /\ Len(s) = IF m + 1 <= Len(program) THEN Len(program) - (m + 1) + 1 ELSE 0
        /\ \A i \in 1 .. Len(program) - (m + 1) + 1 : s[i] = program[m + 1 + i - 1]
    BY <1>1, <1>2, <1>5, <2>1, SubSeqProperties
  <2> QED
    BY <1>1, <1>5, <2>2
<1>6. /\ todo \in Seq(Operation) /\ Len(todo) = Len(program) - n
      /\ \A i \in 1 .. Len(program) - n : todo[i] = program[n + i]
  BY <1>3, <1>5
<1>7. Len(todo) > 0
  BY <1>6, EmptySeq
<1>8. n + 1 \in 1 .. Len(program) /\ todo[1] = program[n + 1]
  BY <1>1, <1>3, <1>6, <1>7
<1>9. /\ Drop(todo, 1) \in Seq(Operation) /\ Len(Drop(todo, 1)) = Len(todo) - 1
      /\ \A i \in 1 .. Len(todo) - 1 : Drop(todo, 1)[i] = todo[1 + i]
  <2>1. \A i \in 2 .. Len(todo) : todo[i] \in Operation
    BY <1>6, ElementOfSeq
  <2>2. /\ SubSeq(todo, 2, Len(todo)) \in Seq(Operation)
        /\ Len(SubSeq(todo, 2, Len(todo))) = IF 2 <= Len(todo) THEN Len(todo) - 2 + 1 ELSE 0
        /\ \A i \in 1 .. Len(todo) - 2 + 1 : SubSeq(todo, 2, Len(todo))[i] = todo[2 + i - 1]
    BY <1>6, <2>1, SubSeqProperties
  <2> QED
    BY <1>6, <1>7, <2>2 DEF Drop
<1>10. /\ Drop(program, n + 1) \in Seq(Operation)
       /\ Len(Drop(program, n + 1)) = Len(program) - (n + 1)
       /\ \A i \in 1 .. Len(program) - (n + 1) : Drop(program, n + 1)[i] = program[n + 1 + i]
  BY <1>3, <1>5, <1>8 DEF Drop
<1>11. Drop(todo, 1) = Drop(program, n + 1)
  <2>1. Len(Drop(todo, 1)) = Len(Drop(program, n + 1))
    BY <1>1, <1>3, <1>6, <1>9, <1>10
  <2>2. ASSUME NEW i \in 1 .. Len(Drop(todo, 1))
        PROVE  Drop(todo, 1)[i] = Drop(program, n + 1)[i]
    <3>1. /\ i \in 1 .. Len(todo) - 1 /\ 1 + i \in 1 .. Len(program) - n
          /\ i \in 1 .. Len(program) - (n + 1) /\ n + (1 + i) = n + 1 + i
      BY <1>1, <1>3, <1>6, <1>9
    <3>2. Drop(todo, 1)[i] = program[n + (1 + i)]
      BY <1>6, <1>9, <3>1
    <3> QED
      BY <1>10, <3>1, <3>2
  <2> QED
    BY <1>9, <1>10, <2>1, <2>2, SeqEqual
<1> QED
  BY <1>2, <1>6, <1>8, <1>9, <1>11 DEF n

\* The server handles no more requests than the client wants answers.
LEMMA HandledWithinReplies ==
  ASSUME IInv, service = "protocol"
  PROVE  Len(handled) <= Replies
<1>1. /\ program \in Program /\ Replies \in Nat /\ Len(Sent) \in Nat
      /\ Len(handled) \in Nat /\ Len(handled) <= Len(Sent)
  BY ScriptFacts, Numbers DEF IInv, Control
<1>2. /\ \A i \in 1 .. Len(handled) :
           handled[i] = Sent[i] /\ Decodes(Payload(Sent[i])) /\ Size(Sent[i]) <= MaxFrame
      /\ \A i \in 1 .. Len(handled) : i < Len(handled) => Valid(Sent[i])
  BY DEF IInv, Handling
<1>3. \/ Len(Sent) = Replies
      \/ Replies > 0 /\ ~Valid(Sent[Replies])
      \/ ~Decodes(Payload(Sent[Replies + 1])) \/ Size(Sent[Replies + 1]) > MaxFrame
  BY <1>1, ExperimentAssumption DEF WellFormed, Sent, Replies
<1>4. ASSUME Len(handled) > Replies PROVE FALSE
  <2>1. Replies + 1 \in 1 .. Len(handled)
    BY <1>1, <1>4
  <2>2. Decodes(Payload(Sent[Replies + 1])) /\ Size(Sent[Replies + 1]) <= MaxFrame
    BY <1>2, <2>1
  <2>3. Replies > 0 => Replies \in 1 .. Len(handled) /\ Replies < Len(handled)
    BY <1>1, <1>4
  <2>4. Replies > 0 => Valid(Sent[Replies])
    BY <1>2, <2>3
  <2>5. Size(Sent[Replies + 1]) \in Nat
    <3>1. Replies + 1 \in 1 .. Len(Sent)
      BY <1>1, <2>1
    <3>2. Framable(Line("server")[Replies + 1]) /\ Line("server")[Replies + 1] = Sent[Replies + 1]
      BY <3>1, LineFacts DEF IInv, Control, End
    <3> QED
      BY <3>2, FrameFacts
  <2>6. MaxFrame \in Int
    BY FramedAssumption
  <2> QED
    BY <1>1, <1>3, <1>4, <2>2, <2>4, <2>5, <2>6
<1> QED
  BY <1>1, <1>4

\* The payload that the client reads is an answer to what the server handled.
LEMMA ClientReadsAnswer ==
  ASSUME IInv, Fetched < Begun("client")
  PROVE  /\ Fetched + 1 \in 1 .. Len(handled) /\ Fetched + 1 \in 1 .. Len(Sent)
         /\ Line("client")[Fetched + 1] = Answer(Sent[Fetched + 1])
         /\ Framable(Answer(Sent[Fetched + 1])) /\ Size(Answer(Sent[Fetched + 1])) > 0
         /\ Size(Answer(Sent[Fetched + 1])) <= MaxFrame
         /\ Decodes(Payload(Answer(Sent[Fetched + 1])))
         /\ service = "protocol" /\ Fetched + 1 <= Replies
<1>1. service = "protocol"
  <2>1. service = "framing" => Begun("client") = 0
    BY DEF IInv, Control, Places, Answering, Begun
  <2>2. Fetched \in Nat
    BY ScriptFacts DEF IInv, Control
  <2>3. service \in {"protocol", "framing"}
    BY DEF IInv, Control, Typed, TypeOK
  <2> QED
    BY <2>1, <2>2, <2>3
<1> DEFINE k == Fetched + 1
<1>2. /\ Fetched \in Nat /\ Begun("client") \in Nat /\ Begun("client") <= Len(handled)
      /\ Len(handled) \in Nat /\ Len(handled) <= Len(Sent) /\ Len(Sent) \in Nat
      /\ Len(replied) \in Nat
  BY <1>1, ScriptFacts, Numbers DEF IInv, Control, End
<1>3. k \in 1 .. Len(handled) /\ k \in 1 .. Len(Sent) /\ k \in 1 .. Begun("client")
  BY <1>2
<1>4. k \in 1 .. Len(replied) \/ (pc.server = "write" /\ k = Len(replied) + 1)
  BY <1>2, <1>3 DEF Begun
<1> HIDE DEF k
<1>5. /\ Line("client")[k] = Answer(Sent[k]) /\ Sent[k] \in Requests
      /\ Framable(Answer(Sent[k])) /\ Size(Answer(Sent[k])) > 0
  BY <1>3, LineFacts DEF IInv, Control, End
<1>6. handled[k] = Sent[k]
  BY <1>3 DEF IInv, Handling
<1>7. Size(Answer(Sent[k])) <= MaxFrame
  <2>1. CASE k \in 1 .. Len(replied)
    BY <1>1, <1>6, <2>1 DEF IInv, Answering
  <2>2. CASE pc.server = "write" /\ k = Len(replied) + 1
    <3>1. Len(replied) = Len(handled) - 1 /\ message.server = handled[Len(handled)]
          /\ Size(Answer(message.server)) <= MaxFrame
      BY <1>1, <2>2 DEF IInv, Answering, Handling
    <3> QED
      BY <1>2, <1>6, <2>2, <3>1
  <2> QED
    BY <1>4, <2>1, <2>2
<1>8. Decodes(Payload(Answer(Sent[k])))
  <2>1. Answer(Sent[k]) # NoMessage
    <3>1. Answer(Sent[k]).version = 1 /\ NoMessage.version = 0
      BY DEF Answer, NoMessage
    <3> QED
      BY <3>1
  <2>2. ~Malformed(Answer(Sent[k]))
    BY DEF Answer, Valid, Malformed
  <2> QED
    BY <1>5, <2>1, <2>2, WhatDecodes
<1>9. k <= Replies
  <2>1. Len(handled) <= Replies /\ Replies \in Nat
    BY <1>1, HandledWithinReplies, ScriptFacts DEF IInv, Control
  <2> QED
    BY <1>2, <1>3, <2>1
<1> QED
  BY <1>1, <1>3, <1>5, <1>7, <1>8, <1>9 DEF k

-----------------------------------------------------------------------------
(* What a step leaves alone.                                               *)

\* The experiment is a history of its own.
LEMMA SameLine ==
  ASSUME program' = program
  PROVE  Sent' = Sent /\ Replies' = Replies /\ \A e \in End : Line(e)' = Line(e)
<1>1. Sent' = Sent
  BY DEF Sent
<1> QED
  BY <1>1 DEF Line, Replies

LEMMA SameScript ==
  ASSUME program' = program, todo' = todo
  PROVE  Pos' = Pos /\ Written' = Written /\ Fetched' = Fetched
BY DEF Pos, Written, Fetched

\* An operation is done with.
LEMMA Advance ==
  ASSUME Script, todo # <<>>, todo' = Drop(todo, 1), program' = program,
         service' = service
  PROVE  /\ Pos' = Pos + 1 /\ Pos' \in 0 .. Len(program) /\ todo' = Drop(program, Pos')
         /\ Written' = Written + IF todo[1].op = "send" THEN 1 ELSE 0
         /\ Fetched' = Fetched + IF todo[1].op = "reply" THEN 1 ELSE 0
<1>1. /\ Pos + 1 \in 1 .. Len(program) /\ todo[1] = program[Pos + 1]
      /\ Drop(todo, 1) = Drop(program, Pos + 1)
      /\ Len(Drop(todo, 1)) = Len(todo) - 1 /\ Len(todo) \in Nat
  BY NextOperation
<1>2. Pos \in Nat /\ Len(program) \in Nat
  BY ScriptFacts
<1>3. Pos' = Pos + 1
  BY <1>1, <1>2 DEF Pos
<1> DEFINE n == Pos
<1>4. n \in Nat
  BY <1>2
<1> HIDE DEF n
<1>5. /\ Count(program, "send", n + 1)
           = Count(program, "send", n) + IF program[n + 1].op = "send" THEN 1 ELSE 0
      /\ Count(program, "reply", n + 1)
           = Count(program, "reply", n) + IF program[n + 1].op = "reply" THEN 1 ELSE 0
  <2>1. ASSUME NEW op
        PROVE  Count(program, op, n + 1)
                 = Count(program, op, n) + IF program[n + 1].op = op THEN 1 ELSE 0
    BY ONLY <1>4, CountFacts
  <2> QED
    BY <2>1
<1>6. Written' = Count(program, "send", Pos + 1) /\ Fetched' = Count(program, "reply", Pos + 1)
  BY <1>3 DEF Written, Fetched
<1> QED
  BY <1>1, <1>2, <1>3, <1>5, <1>6 DEF Written, Fetched, n

\* A reader whose place and bytes stay is in step.
LEMMA SameStep ==
  ASSUME NEW e \in End, InStep(e), program' = program,
         pc'[e] = pc[e], got'[e] = got[e], need'[e] = need[e], Rest(e)' = Rest(e),
         Taken(e)' = Taken(e), Begun(e)' = Begun(e)
  PROVE  InStep(e)'
<1>1. Line(e)' = Line(e)
  BY SameLine
<1> QED
  BY <1>1 DEF InStep

\* What each end holds is bytes.
LEMMA BytesFacts ==
  ASSUME Control, NEW e \in End
  PROVE  /\ pipe[e] \in Bytes /\ got[e] \in Bytes /\ out[e] \in Bytes
         /\ Rest(e) \in Bytes /\ Peer(e) \in End
<1>1. \A f \in End : pipe[f] \in Bytes /\ got[f] \in Bytes /\ out[f] \in Bytes
  BY DEF Control, Typed, TypeOK
<1>2. Peer(e) \in End
  BY DEF Peer, End
<1> QED
  BY <1>1, <1>2, JoinFacts DEF Rest

-----------------------------------------------------------------------------
(* The steps that end a connection.                                        *)

\* The client leaves, for good or with an error that Clean excludes.
LEMMA ClientEnds ==
  ASSUME IInv, NEW r \in {"pass", "fail"}, NEW c \in {"closed", "vanished"},
         conn.client = "open", pc.client # "closed",
         pc' = [pc EXCEPT !["client"] = "closed"], conn' = [conn EXCEPT !.client = c],
         outcome' = r,
         UNCHANGED <<service, ioVars, message, program, todo, clock, histVars>>,
         r = "pass" => c = "closed" /\ todo = <<>> /\ pc.client = "next",
         r = "fail" => ~Clean \/ c = "vanished"
  PROVE  IInv'
<1>1. Control /\ Handling /\ Answering /\ InStep("server") /\ InStep("client")
  BY DEF IInv
<1>2. /\ pc'.client = "closed" /\ pc'.server = pc.server
      /\ conn'.client = c /\ conn'.server = conn.server
  BY <1>1 DEF Control, Typed, TypeOK, End
<1>3. /\ Pos' = Pos /\ Written' = Written /\ Fetched' = Fetched
      /\ Sent' = Sent /\ Replies' = Replies
  BY SameScript, SameLine
<1>4. Control'
  <2>1. Typed'
    BY <1>1 DEF Control, Typed, TypeOK, End, ioVars, histVars
  <2>2. Places'
    BY <1>1, <1>2 DEF Control, Places, ioVars
  <2>3. Sockets'
    BY <1>1, <1>2 DEF Control, Sockets, Writing, End, ioVars
  <2>4. Writing'
    BY <1>1, <1>2 DEF Control, Writing, End, ioVars
  <2>5. Script'
    BY <1>1, <1>2, <1>3 DEF Control, Script
  <2> QED
    BY <2>1, <2>2, <2>3, <2>4, <2>5 DEF Control
<1>5. Handling' /\ Answering'
  BY <1>1, <1>2, <1>3 DEF Handling, Answering, histVars
<1>6. InStep("server")'
  <2>1. Rest("server")' = Rest("server")
    BY DEF Rest, ioVars
  <2>2. Taken("server")' = Taken("server") /\ Begun("server")' = Begun("server")
    BY <1>2, <1>3 DEF Taken, Begun, histVars
  <2> QED
    BY <1>1, <1>2, <2>1, <2>2, SameStep DEF End, ioVars
<1>7. InStep("client")'
  BY <1>2 DEF InStep, Ready
<1>8. outcome' # "wrong" /\ PrinterDone' /\ Smooth'
  <2>1. outcome' # "wrong"
    OBVIOUS
  <2>2. outcome = "running"
    BY <1>1 DEF Control, Sockets
  <2>3. PrinterDone'
    <3>1. UNCHANGED <<service, clock, logged, handled, pc.server>> /\ outcome' # "running"
      BY <1>2 DEF histVars
    <3>2. ASSUME service = "framing", pc.server = "closed"
          PROVE  \/ clock = "late"
                 \/ logged /\ Len(handled) < Len(Sent) /\ Size(Sent[Len(handled) + 1]) > MaxFrame
      BY <2>2, <3>2 DEF IInv, PrinterDone
    <3> QED
      BY <1>3, <3>1, <3>2 DEF PrinterDone
  <2>4. Smooth'
    <3>1. Clean' => Clean /\ c # "vanished"
      <4>1. conn.client # "vanished"
        BY DEF Clean
      <4> QED
        BY <1>2, <1>3, <4>1 DEF Clean
    <3>2. conn'.client # "open"
      BY <1>2
    <3>3. Clean' => outcome' # "fail"
      BY <3>1
    <3> QED
      BY <3>2, <3>3 DEF Smooth
  <2> QED
    BY <2>1, <2>3, <2>4
<1> QED
  BY <1>4, <1>5, <1>6, <1>7, <1>8 DEF IInv

\* The server leaves: while the client is there, only when it has done all.
LEMMA ServerLeaves ==
  ASSUME IInv, pc.server # "closed",
         conn.client = "open" => out.server = <<>>,
         pc' = [pc EXCEPT !["server"] = "closed"],
         conn' = [conn EXCEPT !.server = "closed"], logged' \in BOOLEAN,
         UNCHANGED <<service, ioVars, message, program, todo, outcome, clock, replied>>,
         handled' \in Seq(Message), Handling', Answering', PrinterDone', Smooth'
  PROVE  IInv'
<1>1. Control /\ Handling /\ Answering /\ InStep("server") /\ InStep("client")
  BY DEF IInv
<1>2. /\ pc'.server = "closed" /\ pc'.client = pc.client
      /\ conn'.server = "closed" /\ conn'.client = conn.client
  BY <1>1 DEF Control, Typed, TypeOK, End
<1>3. /\ Pos' = Pos /\ Written' = Written /\ Fetched' = Fetched
      /\ Sent' = Sent /\ Replies' = Replies
  BY SameScript, SameLine
<1>4. Control'
  <2>1. Typed'
    BY <1>1 DEF Control, Typed, TypeOK, End, ioVars
  <2>2. Places'
    BY <1>1, <1>2 DEF Control, Places, ioVars
  <2>3. Sockets'
    BY <1>1, <1>2 DEF Control, Sockets, ioVars
  <2>4. Writing'
    BY <1>1, <1>2 DEF Control, Writing, End, ioVars
  <2>5. Script'
    BY <1>1, <1>2, <1>3 DEF Control, Script
  <2> QED
    BY <2>1, <2>2, <2>3, <2>4, <2>5 DEF Control
<1>6. InStep("server")'
  BY <1>2 DEF InStep, Ready
<1>7. InStep("client")'
  <2>1. CASE pc.client = "closed"
    BY <1>2, <2>1 DEF InStep, Ready
  <2>2. CASE pc.client # "closed"
    <3>1. conn.client = "open" /\ out.server = <<>>
      BY <1>1, <2>2 DEF Control, Sockets
    <3>2. pc.server # "write"
      BY <1>1, <3>1 DEF Control, Writing, End
    <3>3. Rest("client")' = Rest("client")
      BY DEF Rest, ioVars
    <3>4. Taken("client")' = Taken("client") /\ Begun("client")' = Begun("client")
      BY <1>2, <1>3, <3>2 DEF Taken, Begun
    <3> QED
      BY <1>1, <1>2, <3>3, <3>4, SameStep DEF End, ioVars
  <2> QED
    BY <2>1, <2>2
<1>8. outcome' # "wrong"
  BY DEF IInv
<1> QED
  BY <1>4, <1>6, <1>7, <1>8 DEF IInv

\* What it has handled and answered stays.
LEMMA ServerEnds ==
  ASSUME IInv, pc.server # "closed",
         conn.client = "open" => out.server = <<>>,
         pc' = [pc EXCEPT !["server"] = "closed"],
         conn' = [conn EXCEPT !.server = "closed"], logged' \in BOOLEAN,
         UNCHANGED <<service, ioVars, message, program, todo, outcome, clock,
                     handled, replied>>,
         PrinterDone', Smooth'
  PROVE  IInv'
<1>1. Control /\ Handling /\ Answering
  BY DEF IInv
<1>2. pc'.server = "closed"
  BY <1>1 DEF Control, Typed, TypeOK, End
<1>3. /\ Pos' = Pos /\ Written' = Written /\ Fetched' = Fetched
      /\ Sent' = Sent /\ Replies' = Replies
  BY SameScript, SameLine
<1>4. Handling'
  BY <1>1, <1>2, <1>3 DEF Handling
<1>5. Answering'
  BY <1>1, <1>2, <1>3 DEF Answering
<1>6. handled' \in Seq(Message)
  BY <1>1 DEF Control, Typed
<1> QED
  BY <1>4, <1>5, <1>6, ServerLeaves

\* While the server goes on, and what it is done with stays, there is nothing to show.
LEMMA GoesOn ==
  ASSUME IInv, UNCHANGED <<service, program, clock, outcome>>,
         conn'.client = conn.client, pc'.server = "closed" => pc.server = "closed",
         pc.server = "closed" => UNCHANGED <<handled, logged>>,
         Clean /\ pc.server = "closed" /\ conn.client = "open" =>
           /\ pipe'.server = pipe.server /\ out'.client = out.client
           /\ replied' = replied /\ Written' = Written
  PROVE  outcome' # "wrong" /\ PrinterDone' /\ Smooth'
<1>1. Sent' = Sent /\ Replies' = Replies
  BY SameLine
<1>2. outcome' # "wrong"
  BY DEF IInv
<1>3. PrinterDone'
  BY <1>1 DEF IInv, PrinterDone
<1>4. Clean' => Clean
  BY <1>1 DEF Clean
<1>5. Smooth'
  <2>1. ASSUME Clean, pc.server = "closed", conn.client = "open"
        PROVE  /\ service = "protocol" /\ pipe'.server = <<>> /\ out'.client = <<>>
               /\ Written' = Len(Sent) /\ Len(replied') = Replies
    BY <2>1 DEF IInv, Smooth
  <2>2. Clean => outcome # "fail"
    BY DEF IInv, Smooth
  <2> QED
    BY <1>1, <1>4, <2>1, <2>2 DEF Smooth
<1> QED
  BY <1>2, <1>3, <1>5

-----------------------------------------------------------------------------
(* The steps that move bytes.                                              *)

LEMMA ReadSomeKeeps ==
  ASSUME IInv, NEW e \in End, ReadSome(e)
  PROVE  IInv'
<1>1. Control /\ Handling /\ Answering /\ InStep("server") /\ InStep("client")
  BY DEF IInv
<1>2. PICK n \in 1 .. Smaller(need[e] - Len(got[e]), Len(pipe[e])) :
        /\ pc[e] \in {"prefix", "payload"} /\ conn[e] = "open"
        /\ got' = [got EXCEPT ![e] = @ \o SubSeq(pipe[e], 1, n)]
        /\ pipe' = [pipe EXCEPT ![e] = Drop(@, n)]
        /\ UNCHANGED <<pc, need, out, conn, message, program, service, todo, outcome,
                       clock, histVars>>
  BY DEF ReadSome
<1>3. pipe[e] \in Bytes /\ got[e] \in Bytes /\ out[Peer(e)] \in Bytes /\ Peer(e) \in End
  BY <1>1, BytesFacts
<1>4. /\ Len(pipe[e]) \in Nat /\ Len(got[e]) \in Nat /\ need[e] \in Nat
      /\ Len(got[e]) <= need[e] /\ Len(pipe[e]) <= PipeSize
  <2>1. need[e] \in 0 .. 2 \cup 0 .. MaxFrame /\ Len(got[e]) <= need[e] /\ Len(pipe[e]) <= PipeSize
    BY <1>1 DEF Control, Typed, TypeOK
  <2>2. Len(pipe[e]) \in Nat /\ Len(got[e]) \in Nat
    BY <1>3, JoinFacts
  <2> QED
    BY <2>1, <2>2
<1>5. n \in 0 .. Len(pipe[e]) /\ n <= need[e] - Len(got[e]) /\ n \in Nat
  BY <1>4 DEF Smaller
<1> DEFINE a == SubSeq(pipe[e], 1, n)
           b == Drop(pipe[e], n)
<1>6. a \in Bytes /\ Len(a) = n /\ b \in Bytes /\ Len(b) = Len(pipe[e]) - n /\ pipe[e] = Join(a, b)
  BY <1>3, <1>5, CutFacts
<1>7. /\ got' = [got EXCEPT ![e] = Join(got[e], a)]
      /\ pipe' = [pipe EXCEPT ![e] = b]
  BY <1>2 DEF Join
<1> HIDE DEF a, b
<1>8. Join(got[e], a) \in Bytes /\ Len(Join(got[e], a)) <= need[e] /\ Len(b) <= PipeSize
  <2>1. Join(got[e], a) \in Bytes /\ Len(Join(got[e], a)) = Len(got[e]) + Len(a)
    BY <1>3, <1>6, JoinFacts
  <2>2. PipeSize \in Int
    BY FramedAssumption
  <2> QED
    BY <1>4, <1>5, <1>6, <2>1, <2>2
<1>9. /\ Pos' = Pos /\ Written' = Written /\ Fetched' = Fetched /\ Sent' = Sent
      /\ \A f \in End : Taken(f)' = Taken(f) /\ Begun(f)' = Begun(f)
  <2>1. Pos' = Pos /\ Written' = Written /\ Fetched' = Fetched /\ Sent' = Sent
    BY <1>2, SameScript, SameLine
  <2> QED
    BY <1>2, <2>1 DEF Taken, Begun, histVars
<1>10. Control'
  <2>1. Typed'
    <3>1. got' \in [End -> Bytes] /\ pipe' \in [End -> Bytes]
      BY <1>1, <1>6, <1>7, <1>8 DEF Control, Typed, TypeOK
    <3>2. \A f \in End : Len(got'[f]) <= need'[f] /\ Len(pipe'[f]) <= PipeSize
      BY <1>1, <1>2, <1>7, <1>8 DEF Control, Typed, TypeOK
    <3> QED
      BY <1>1, <1>2, <3>1, <3>2 DEF Control, Typed, TypeOK, histVars
  <2>2. Places'
    <3>1. e = "client" => service # "framing"
      BY <1>1, <1>2 DEF Control, Places
    <3>2. e # "client" => pipe'.client = pipe.client
      BY <1>1, <1>7 DEF Control, Typed, TypeOK, End
    <3> QED
      BY <1>1, <1>2, <3>1, <3>2 DEF Control, Places
  <2>3. Sockets' /\ Writing' /\ Script'
    BY <1>1, <1>2, <1>9 DEF Control, Sockets, Writing, Script
  <2> QED
    BY <2>1, <2>2, <2>3 DEF Control
<1>11. Handling' /\ Answering'
  BY <1>1, <1>2, <1>9 DEF Handling, Answering, histVars
<1>12. \A f \in End : f # e => InStep(f)'
  <2>1. ASSUME NEW f \in End, f # e PROVE InStep(f)'
    <3>1. pc'[f] = pc[f] /\ got'[f] = got[f] /\ need'[f] = need[f]
      BY <1>2, <1>7, <2>1
    <3>2. pipe'[f] = pipe[f] /\ out'[Peer(f)] = out[Peer(f)]
      BY <1>1, <1>2, <1>7, <2>1 DEF Control, Typed, TypeOK
    <3>3. InStep(f) /\ Rest(f)' = Rest(f)
      BY <1>1, <3>2 DEF End, Rest
    <3> QED
      BY <1>2, <1>9, <3>1, <3>3, SameStep
  <2> QED
    BY <2>1
<1>13. InStep(e)'
  <2>1. Rest(e) = Join(a, Join(b, out[Peer(e)])) /\ Join(b, out[Peer(e)]) \in Bytes
    <3> DEFINE x == out[Peer(e)]
    <3>1. x \in Bytes
      BY <1>3
    <3> HIDE DEF x
    <3>2. Join(Join(a, b), x) = Join(a, Join(b, x)) /\ Join(b, x) \in Bytes
      BY ONLY <1>6, <3>1, JoinThree
    <3> QED
      BY <1>6, <3>2 DEF Rest, x
  <2>2. Ready(pc[e], got[e], need[e], Join(a, Join(b, out[Peer(e)])), Line(e), Taken(e), Begun(e))
    BY <1>1, <2>1 DEF InStep, End
  <2>3. Ready(pc[e], Join(got[e], a), need[e], Join(b, out[Peer(e)]), Line(e), Taken(e), Begun(e))
    <3>1. pc[e] \in {"prefix", "payload"}
      BY <1>2
    <3> QED
      BY ONLY <1>3, <1>6, <2>1, <2>2, <3>1, ReadyReads
  <2>4. Rest(e)' = Join(b, out[Peer(e)]) /\ got'[e] = Join(got[e], a)
    BY <1>1, <1>2, <1>7 DEF Rest, Control, Typed, TypeOK
  <2>5. Line(e)' = Line(e)
    BY <1>2, SameLine
  <2> QED
    BY <1>2, <1>9, <2>3, <2>4, <2>5 DEF InStep
<1>14. outcome' # "wrong" /\ PrinterDone' /\ Smooth'
  <2>1. e = "client" => pipe'.server = pipe.server
    BY <1>1, <1>7 DEF Control, Typed, TypeOK, End
  <2>2. e # "client" => pc.server # "closed"
    BY <1>2 DEF End
  <2> QED
    BY <1>2, <1>9, <2>1, <2>2, GoesOn DEF histVars
<1> QED
  BY <1>10, <1>11, <1>12, <1>13, <1>14 DEF IInv, End

\* What one Write moves, the other end has before it.
LEMMA WriteFacts ==
  ASSUME Control, NEW e \in End, NEW next \in {"wrote", "next"}, WriteSome(e, next)
  PROVE  /\ pc[e] = "write" /\ pc' = [pc EXCEPT ![e] = pc'[e]]
         /\ \/ pc'[e] = next /\ out'[e] = <<>>
            \/ pc'[e] = "write" /\ out'[e] # <<>>
         /\ pipe' \in [End -> Bytes] /\ out' \in [End -> Bytes]
         /\ \A f \in End : Len(pipe'[f]) <= PipeSize
         /\ \A f \in End : f # e => out'[f] = out[f] /\ pipe'[e] = pipe[e] /\ pc'[f] = pc[f]
         /\ \A f \in End : Rest(f)' = Rest(f)
         /\ UNCHANGED <<got, need, conn, message, program, service, todo, outcome, clock>>
<1>1. PICK n \in 1 .. Smaller(Len(out[e]), Room(e)) :
        /\ pc[e] = "write"
        /\ out' = [out EXCEPT ![e] = Drop(@, n)]
        /\ pipe' = [pipe EXCEPT ![Peer(e)] = @ \o SubSeq(out[e], 1, n)]
        /\ pc' = [pc EXCEPT ![e] = IF n = Len(out[e]) THEN next ELSE "write"]
        /\ UNCHANGED <<got, need, conn, message, program, service, todo, outcome, clock>>
  BY DEF WriteSome, Goto
<1>2. /\ out[e] \in Bytes /\ pipe[Peer(e)] \in Bytes /\ Peer(e) \in End
  <2>1. Peer(e) \in End
    BY DEF Peer, End
  <2> QED
    BY <2>1, BytesFacts
<1>3. Len(out[e]) \in Nat /\ Len(pipe[Peer(e)]) \in Nat /\ PipeSize \in Nat
  BY <1>2, JoinFacts, FramedAssumption
<1>4. n \in 0 .. Len(out[e]) /\ n + Len(pipe[Peer(e)]) <= PipeSize /\ n \in Nat
  BY <1>3 DEF Smaller, Room
<1> DEFINE a == SubSeq(out[e], 1, n)
           b == Drop(out[e], n)
           p == pipe[Peer(e)]
<1>5. /\ a \in Bytes /\ Len(a) = n /\ b \in Bytes /\ Len(b) = Len(out[e]) - n
      /\ out[e] = Join(a, b)
  BY <1>2, <1>4, CutFacts
<1>6. /\ out' = [out EXCEPT ![e] = b]
      /\ pipe' = [pipe EXCEPT ![Peer(e)] = Join(p, a)]
  BY <1>1 DEF Join
<1>7. p \in Bytes /\ Len(p) + n <= PipeSize /\ Len(p) \in Nat
  BY <1>2, <1>3, <1>4
<1> HIDE DEF a, b, p
<1>8. Join(p, a) \in Bytes /\ Len(Join(p, a)) = Len(p) + Len(a)
  BY <1>5, <1>7, JoinFacts
<1>9. (b = <<>>) = (n = Len(out[e]))
  <2>1. (b = <<>>) = (Len(b) = 0)
    BY <1>5, NoBytes
  <2> QED
    BY <1>3, <1>4, <1>5, <2>1
<1>10. DOMAIN pc = End
  BY DEF Control, Typed, TypeOK
<1>11. pipe \in [End -> Bytes] /\ out \in [End -> Bytes] /\ \A f \in End : Len(pipe[f]) <= PipeSize
  BY DEF Control, Typed, TypeOK
<1>12. pipe' \in [End -> Bytes] /\ out' \in [End -> Bytes]
  BY <1>5, <1>6, <1>8, <1>11
<1>13. \A f \in End : Len(pipe'[f]) <= PipeSize
  BY <1>2, <1>5, <1>6, <1>7, <1>8, <1>11
<1>14. /\ out'[e] = b /\ pipe'[Peer(e)] = Join(p, a)
       /\ \A f \in End : f # e => out'[f] = out[f] /\ pipe'[e] = pipe[e]
  BY <1>2, <1>6, <1>11 DEF Peer, End
<1>15. Rest(Peer(e))' = Rest(Peer(e))
  <2>1. Peer(Peer(e)) = e
    BY DEF Peer, End
  <2>2. Join(Join(p, a), b) = Join(p, Join(a, b))
    BY ONLY <1>5, <1>7, JoinThree
  <2>3. Rest(Peer(e))' = Join(Join(p, a), b)
    BY <1>14, <2>1 DEF Rest
  <2>4. Rest(Peer(e)) = Join(p, Join(a, b))
    BY <1>5, <2>1 DEF Rest, p
  <2> QED
    BY <2>2, <2>3, <2>4
<1>16. Rest(e)' = Rest(e)
  <2>1. Peer(e) # e
    BY DEF Peer, End
  <2> QED
    BY <1>2, <1>14, <2>1 DEF Rest
<1>17. \A f \in End : Rest(f)' = Rest(f)
  <2>1. \A f \in End : f = e \/ f = Peer(e)
    BY DEF Peer, End
  <2> QED
    BY <1>15, <1>16, <2>1
<1>18. /\ pc' = [pc EXCEPT ![e] = pc'[e]]
       /\ \A f \in End : f # e => pc'[f] = pc[f]
       /\ \/ pc'[e] = next /\ out'[e] = <<>>
          \/ pc'[e] = "write" /\ out'[e] # <<>>
  BY <1>1, <1>9, <1>10, <1>14
<1> QED
  BY <1>1, <1>12, <1>13, <1>14, <1>17, <1>18

LEMMA ServerWriteKeeps ==
  ASSUME IInv, ServerWrite
  PROVE  IInv'
<1>1. Control /\ Handling /\ Answering /\ InStep("server") /\ InStep("client")
  BY DEF IInv
<1>2. /\ WriteSome("server", "wrote") /\ handled' = handled /\ logged' = logged
      /\ replied' = IF pc'.server = "wrote" THEN Append(replied, Answer(message.server))
                    ELSE replied
  BY DEF ServerWrite
<1>3. /\ pc.server = "write" /\ pc' = [pc EXCEPT !["server"] = pc'["server"]]
      /\ \/ pc'.server = "wrote" /\ out'.server = <<>>
         \/ pc'.server = "write" /\ out'.server # <<>>
      /\ pipe' \in [End -> Bytes] /\ out' \in [End -> Bytes]
      /\ \A f \in End : Len(pipe'[f]) <= PipeSize
      /\ out'.client = out.client /\ pipe'.server = pipe.server /\ pc'.client = pc.client
      /\ \A f \in End : Rest(f)' = Rest(f)
      /\ UNCHANGED <<got, need, conn, message, program, service, todo, outcome, clock>>
  <2> DEFINE e == "server"
             next == "wrote"
  <2>1. e \in End /\ next \in {"wrote", "next"} /\ WriteSome(e, next) /\ "client" \in End
        /\ "client" # e
    BY <1>2 DEF End
  <2> HIDE DEF e, next
  <2>2. /\ pc[e] = "write" /\ pc' = [pc EXCEPT ![e] = pc'[e]]
        /\ \/ pc'[e] = next /\ out'[e] = <<>>
           \/ pc'[e] = "write" /\ out'[e] # <<>>
        /\ pipe' \in [End -> Bytes] /\ out' \in [End -> Bytes]
        /\ \A f \in End : Len(pipe'[f]) <= PipeSize
        /\ \A f \in End : f # e => out'[f] = out[f] /\ pipe'[e] = pipe[e] /\ pc'[f] = pc[f]
        /\ \A f \in End : Rest(f)' = Rest(f)
        /\ UNCHANGED <<got, need, conn, message, program, service, todo, outcome, clock>>
    BY ONLY <1>1, <2>1, WriteFacts
  <2> QED
    BY <2>1, <2>2 DEF e, next
<1>4. service = "protocol"
  BY <1>1, <1>3 DEF Control, Places, Typed, TypeOK
<1>5. /\ Len(handled) \in Nat /\ Len(replied) = Len(handled) - 1 /\ replied \in Seq(Message)
      /\ Len(handled) > 0 /\ message.server = handled[Len(handled)]
      /\ Size(Answer(message.server)) <= MaxFrame
  BY <1>1, <1>3, <1>4 DEF Control, Typed, Handling, Answering
<1>6. Answer(message.server) \in Message
  <2>1. handled[Len(handled)] = Sent[Len(handled)] /\ Len(handled) \in 1 .. Len(Sent)
    BY <1>1, <1>5, Numbers DEF Handling
  <2>2. Sent[Len(handled)] \in Requests
    BY <1>1, <2>1, LineFacts DEF Control
  <2> QED
    BY <1>5, <2>1, <2>2 DEF Message
<1>7. /\ replied' \in Seq(Message)
      /\ pc'.server = "write" => replied' = replied
      /\ pc'.server = "wrote" =>
           /\ Len(replied') = Len(handled)
           /\ \A i \in 1 .. Len(replied') :
                replied'[i] = IF i = Len(handled) THEN Answer(message.server) ELSE replied[i]
  BY <1>2, <1>3, <1>5, <1>6
<1>8. /\ Pos' = Pos /\ Written' = Written /\ Fetched' = Fetched /\ Sent' = Sent
      /\ \A f \in End : Taken(f)' = Taken(f) /\ Begun(f)' = Begun(f)
  <2>1. Pos' = Pos /\ Written' = Written /\ Fetched' = Fetched /\ Sent' = Sent
    BY <1>3, SameScript, SameLine
  <2> QED
    BY <1>2, <1>3, <1>5, <1>7, <2>1 DEF Taken, Begun
<1>9. Control'
  <2>1. Typed'
    BY <1>1, <1>2, <1>3, <1>7 DEF Control, Typed, TypeOK
  <2>2. Places'
    BY <1>1, <1>3, <1>4 DEF Control, Places
  <2>3. Sockets'
    BY <1>1, <1>3 DEF Control, Sockets
  <2>4. Writing' /\ Script'
    BY <1>1, <1>3, <1>8 DEF Control, Writing, Script, End
  <2> QED
    BY <2>1, <2>2, <2>3, <2>4 DEF Control
<1>10. Handling'
  BY <1>1, <1>2, <1>3, <1>4, <1>8 DEF Handling
<1>11. Answering'
  <2>1. CASE pc'.server = "write"
    BY <1>1, <1>2, <1>3, <1>4, <1>7, <1>8, <2>1 DEF Answering
  <2>2. CASE pc'.server = "wrote"
    <3>1. ASSUME NEW i \in 1 .. Len(replied')
          PROVE  replied'[i] = Answer(handled[i]) /\ Size(replied'[i]) <= MaxFrame
      <4>1. CASE i = Len(handled)
        BY <1>5, <1>7, <2>2, <4>1
      <4>2. CASE i # Len(handled)
        <5>1. i \in 1 .. Len(replied) /\ replied'[i] = replied[i]
          BY <1>5, <1>7, <2>2, <4>2
        <5> QED
          BY <1>1, <1>4, <5>1 DEF Answering
      <4> QED
        BY <4>1, <4>2
    <3>2. Fetched <= Len(replied) /\ Fetched \in Nat
      BY <1>1, ScriptFacts DEF Answering, Control
    <3>3. Fetched' <= Len(replied')
      BY <1>5, <1>7, <1>8, <2>2, <3>2
    <3> QED
      BY <1>2, <1>3, <1>4, <1>5, <1>7, <2>2, <3>1, <3>3 DEF Answering
  <2> QED
    BY <1>3, <2>1, <2>2
<1>12. InStep("client")'
  BY <1>1, <1>3, <1>8, SameStep DEF End
<1>13. InStep("server")'
  <2>1. pc'.server \notin {"prefix", "payload", "closed"} /\ pc.server \notin {"prefix", "payload", "closed"}
    BY <1>3
  <2>2. Line("server")' = Line("server")
    BY <1>3, SameLine DEF End
  <2>3. Stream(Rest("server"), Line("server"), Taken("server"), Begun("server"))
    BY <1>1, <2>1 DEF InStep, Ready
  <2> QED
    BY <1>3, <1>8, <2>1, <2>2, <2>3 DEF InStep, Ready, End
<1>14. outcome' # "wrong" /\ PrinterDone' /\ Smooth'
  BY <1>3, GoesOn
<1> QED
  BY <1>9, <1>10, <1>11, <1>12, <1>13, <1>14 DEF IInv

LEMMA ClientWriteKeeps ==
  ASSUME IInv, ClientWrite
  PROVE  IInv'
<1>1. Control /\ Handling /\ Answering /\ InStep("server") /\ InStep("client")
  BY DEF IInv
<1>2. conn.client = "open" /\ WriteSome("client", "next") /\ UNCHANGED histVars
  BY DEF ClientWrite
<1>3. /\ pc.client = "write" /\ pc' = [pc EXCEPT !["client"] = pc'["client"]]
      /\ \/ pc'.client = "next" /\ out'.client = <<>>
         \/ pc'.client = "write" /\ out'.client # <<>>
      /\ pipe' \in [End -> Bytes] /\ out' \in [End -> Bytes]
      /\ \A f \in End : Len(pipe'[f]) <= PipeSize
      /\ out'.server = out.server /\ pipe'.client = pipe.client /\ pc'.server = pc.server
      /\ \A f \in End : Rest(f)' = Rest(f)
      /\ UNCHANGED <<got, need, conn, message, program, service, todo, outcome, clock>>
  <2> DEFINE e == "client"
             next == "next"
  <2>1. e \in End /\ next \in {"wrote", "next"} /\ WriteSome(e, next) /\ "server" \in End
        /\ "server" # e
    BY <1>2 DEF End
  <2> HIDE DEF e, next
  <2>2. /\ pc[e] = "write" /\ pc' = [pc EXCEPT ![e] = pc'[e]]
        /\ \/ pc'[e] = next /\ out'[e] = <<>>
           \/ pc'[e] = "write" /\ out'[e] # <<>>
        /\ pipe' \in [End -> Bytes] /\ out' \in [End -> Bytes]
        /\ \A f \in End : Len(pipe'[f]) <= PipeSize
        /\ \A f \in End : f # e => out'[f] = out[f] /\ pipe'[e] = pipe[e] /\ pc'[f] = pc[f]
        /\ \A f \in End : Rest(f)' = Rest(f)
        /\ UNCHANGED <<got, need, conn, message, program, service, todo, outcome, clock>>
    BY ONLY <1>1, <2>1, WriteFacts
  <2> QED
    BY <2>1, <2>2 DEF e, next
<1>4. /\ Pos' = Pos /\ Written' = Written /\ Fetched' = Fetched /\ Sent' = Sent
      /\ \A f \in End : Taken(f)' = Taken(f) /\ Begun(f)' = Begun(f)
  <2>1. Pos' = Pos /\ Written' = Written /\ Fetched' = Fetched /\ Sent' = Sent
    BY <1>3, SameScript, SameLine
  <2> QED
    BY <1>2, <1>3, <2>1 DEF Taken, Begun, histVars
<1>5. Control'
  <2>1. Typed'
    BY <1>1, <1>2, <1>3 DEF Control, Typed, TypeOK, histVars
  <2>2. Places'
    BY <1>1, <1>3 DEF Control, Places
  <2>3. Sockets'
    BY <1>1, <1>2, <1>3 DEF Control, Sockets
  <2>4. Writing' /\ Script'
    BY <1>1, <1>3, <1>4 DEF Control, Writing, Script, End
  <2> QED
    BY <2>1, <2>2, <2>3, <2>4 DEF Control
<1>6. Handling' /\ Answering'
  BY <1>1, <1>2, <1>3, <1>4 DEF Handling, Answering, histVars
<1>7. InStep("server")'
  BY <1>1, <1>3, <1>4, SameStep DEF End
<1>8. InStep("client")'
  <2>1. pc'.client \notin {"prefix", "payload", "closed"} /\ pc.client \notin {"prefix", "payload", "closed"}
    BY <1>3
  <2>2. Line("client")' = Line("client")
    BY <1>3, SameLine DEF End
  <2>3. Stream(Rest("client"), Line("client"), Taken("client"), Begun("client"))
    BY <1>1, <2>1 DEF InStep, Ready
  <2> QED
    BY <1>3, <1>4, <2>1, <2>2, <2>3 DEF InStep, Ready, End
<1>9. outcome' # "wrong" /\ PrinterDone' /\ Smooth'
  <2>1. Clean /\ pc.server = "closed" => out.client = <<>>
    BY <1>2 DEF IInv, Smooth
  <2>2. out.client # <<>>
    BY <1>1, <1>3 DEF Control, Writing, End
  <2> QED
    BY <1>2, <1>3, <2>1, <2>2, GoesOn DEF histVars
<1> QED
  BY <1>5, <1>6, <1>7, <1>8, <1>9 DEF IInv

-----------------------------------------------------------------------------
(* The server's steps.                                                     *)

\* Nothing is left under way when nothing is left.
LEMMA Emptied ==
  ASSUME Control, NEW e \in End, Rest(e) = <<>>
  PROVE  pipe[e] = <<>> /\ out[Peer(e)] = <<>>
<1>1. pipe[e] \in Bytes /\ out[Peer(e)] \in Bytes
  BY BytesFacts
<1> DEFINE p == pipe[e]
           o == out[Peer(e)]
<1>2. p \in Bytes /\ o \in Bytes /\ Join(p, o) = <<>>
  BY <1>1 DEF Rest
<1> HIDE DEF p, o
<1>3. Len(Join(p, o)) = Len(p) + Len(o) /\ Len(p) \in Nat /\ Len(o) \in Nat
  BY <1>2, JoinFacts
<1>4. Len(p) = 0 /\ Len(o) = 0
  BY <1>2, <1>3, NoBytes
<1> QED
  BY <1>2, <1>4, NoBytes DEF p, o

\* The end of a step of the server that concerns it alone.
ServerStep ==
  /\ UNCHANGED <<pipe, out, conn, program, service, todo, outcome, clock, replied, logged>>
  /\ pc'.client = pc.client /\ got'.client = got.client /\ need'.client = need.client
  /\ pc' \in [End -> {"next", "loop", "prefix", "payload", "dispatch", "write",
                      "wrote", "closed"}]
  /\ pc.server \notin {"closed", "write"} /\ pc'.server \notin {"closed", "write"}

LEMMA ServerStepKeeps ==
  ASSUME IInv, ServerStep, Typed',
         service = "framing" => pc'.server \in {"loop", "prefix", "payload"},
         pc'.server \in {"loop", "prefix", "payload", "dispatch", "wrote"},
         Handling', InStep("server")',
         service = "protocol" => Len(handled') = Len(handled) /\ handled' = handled
  PROVE  IInv'
<1>1. Control /\ Handling /\ Answering /\ InStep("client")
  BY DEF IInv
<1>2. /\ Pos' = Pos /\ Written' = Written /\ Fetched' = Fetched /\ Sent' = Sent
      /\ Taken("client")' = Taken("client") /\ Begun("client")' = Begun("client")
  <2>1. Pos' = Pos /\ Written' = Written /\ Fetched' = Fetched /\ Sent' = Sent
    BY SameScript, SameLine DEF ServerStep
  <2> QED
    BY <2>1 DEF Taken, Begun, ServerStep
<1>3. Control'
  <2>1. Places'
    BY <1>1 DEF Control, Places, ServerStep
  <2>2. Sockets'
    BY <1>1 DEF Control, Sockets, ServerStep
  <2>3. Writing' /\ Script'
    BY <1>1, <1>2 DEF Control, Writing, Script, End, ServerStep
  <2> QED
    BY <2>1, <2>2, <2>3 DEF Control
<1>4. Answering'
  BY <1>1, <1>2 DEF Answering, ServerStep
<1>5. InStep("client")'
  <2>1. Rest("client")' = Rest("client")
    BY DEF Rest, ServerStep
  <2> QED
    BY <1>1, <1>2, <2>1, SameStep DEF End, ServerStep
<1>6. outcome' # "wrong" /\ PrinterDone' /\ Smooth'
  BY GoesOn DEF ServerStep
<1> QED
  BY <1>3, <1>4, <1>5, <1>6 DEF IInv

\* What the server has read is the frame of the next request.
LEMMA ServerReads ==
  ASSUME IInv, pc.server \in {"prefix", "payload"}, Len(got.server) = need.server
  PROVE  /\ Len(handled) \in Nat /\ Len(handled) < Written /\ Written <= Len(Sent)
         /\ Written \in Nat /\ Len(Sent) \in Nat
         /\ Len(handled) + 1 \in 1 .. Len(Sent) /\ Sent[Len(handled) + 1] \in Requests
         /\ Framable(Sent[Len(handled) + 1])
         /\ Taken("server") = Len(handled) /\ Begun("server") = Written
         /\ pc.server = "prefix" =>
              /\ Uint32(got.server) = Size(Sent[Len(handled) + 1])
              /\ Size(Sent[Len(handled) + 1]) <= MaxFrame =>
                   Ready("payload", <<>>, Size(Sent[Len(handled) + 1]), Rest("server"),
                         Line("server"), Taken("server"), Begun("server"))
         /\ pc.server = "payload" =>
              /\ got.server = Payload(Sent[Len(handled) + 1])
              /\ Size(Sent[Len(handled) + 1]) <= MaxFrame
              /\ Stream(Rest("server"), Line("server"), Len(handled) + 1, Written)
<1> DEFINE g == got["server"]
           n == need["server"]
           rest == Rest("server")
           line == Line("server")
           j == Taken("server")
           k == Begun("server")
<1>1. Control /\ Handling /\ Answering /\ InStep("server") /\ "server" \in End
  BY DEF IInv, End
<1>2. /\ Len(handled) \in Nat /\ j = Len(handled) /\ k = Written /\ k <= Len(Sent)
      /\ j \in Nat /\ k \in Nat /\ j <= k /\ Len(Sent) \in Nat
  BY <1>1, Numbers, ScriptFacts DEF Control, Taken, Begun
<1>3. g \in Bytes /\ rest \in Bytes /\ Len(g) = n
  BY <1>1, BytesFacts
<1>4. \A i \in 1 .. Len(Sent) : line[i] = Sent[i] /\ Sent[i] \in Requests
  BY <1>1, LineFacts DEF Control
<1>5. Ready(pc.server, g, n, rest, line, j, k)
  BY <1>1 DEF InStep
<1> HIDE DEF g, n, rest, line, j, k
<1>6. CASE pc.server = "prefix"
  <2>1. Ready("prefix", g, n, rest, line, j, k)
    BY <1>5, <1>6
  <2>2. /\ j < k /\ Framable(line[j + 1]) /\ Uint32(g) = Size(line[j + 1])
        /\ Size(line[j + 1]) <= MaxFrame
              => Ready("payload", <<>>, Size(line[j + 1]), rest, line, j, k)
    BY ONLY <1>2, <1>3, <2>1, ReadyPrefix
  <2>3. j + 1 \in 1 .. Len(Sent)
    BY <1>2, <2>2
  <2>4. line[j + 1] = Sent[Len(handled) + 1] /\ Sent[Len(handled) + 1] \in Requests
    BY <1>2, <1>4, <2>3
  <2> QED
    BY <1>2, <1>6, <2>2, <2>3, <2>4 DEF g, rest, line, j, k
<1>7. CASE pc.server = "payload"
  <2>1. Ready("payload", g, n, rest, line, j, k)
    BY <1>5, <1>7
  <2>2. Whole(g, n, rest, line, j, k)
    BY ONLY <1>2, <1>3, <2>1, ReadyPayload
  <2>3. j + 1 \in 1 .. Len(Sent)
    BY <1>2, <2>2 DEF Whole
  <2>4. line[j + 1] = Sent[Len(handled) + 1] /\ Sent[Len(handled) + 1] \in Requests
    BY <1>2, <1>4, <2>3
  <2> QED
    BY <1>2, <1>7, <2>2, <2>3, <2>4 DEF Whole, g, rest, line, j, k
<1> QED
  BY <1>6, <1>7

\* The next io.ReadFull is for so many bytes, and has none of them yet.
LEMMA ReadFullFacts ==
  ASSUME Control, NEW e \in End, NEW n \in 0 .. 2 \cup 0 .. MaxFrame,
         got' = [got EXCEPT ![e] = <<>>], need' = [need EXCEPT ![e] = n],
         pipe' = pipe, out' = out
  PROVE  /\ got' \in [End -> Bytes] /\ got'[e] = <<>> /\ need'[e] = n
         /\ need' \in [End -> 0 .. 2 \cup 0 .. MaxFrame]
         /\ \A f \in End : f # e => got'[f] = got[f] /\ need'[f] = need[f]
         /\ \A f \in End : Len(got'[f]) <= need'[f] /\ Len(pipe'[f]) <= PipeSize
         /\ \A f \in End : Rest(f)' = Rest(f)
<1>1. /\ got \in [End -> Bytes] /\ need \in [End -> 0 .. 2 \cup 0 .. MaxFrame]
      /\ \A f \in End : Len(got[f]) <= need[f] /\ Len(pipe[f]) <= PipeSize
  BY DEF Control, Typed, TypeOK
<1>2. /\ got' \in [End -> Bytes] /\ got'[e] = <<>> /\ need'[e] = n
      /\ need' \in [End -> 0 .. 2 \cup 0 .. MaxFrame]
      /\ \A f \in End : f # e => got'[f] = got[f] /\ need'[f] = need[f]
  BY <1>1, NoBytes
<1>3. Len(<<>>) <= n
  BY NoBytes
<1>4. \A f \in End : Len(got'[f]) <= need'[f] /\ Len(pipe'[f]) <= PipeSize
  BY <1>1, <1>2, <1>3
<1>5. \A f \in End : Rest(f)' = Rest(f)
  BY DEF Rest
<1> QED
  BY <1>2, <1>4, <1>5

LEMMA ServerLoopKeeps ==
  ASSUME IInv, ServerLoop
  PROVE  IInv'
<1>1. Control /\ Handling /\ InStep("server")
  BY DEF IInv
<1>2. /\ pc.server = "loop" /\ pc' = [pc EXCEPT !["server"] = "prefix"]
      /\ got' = [got EXCEPT !["server"] = <<>>] /\ need' = [need EXCEPT !["server"] = 2]
      /\ UNCHANGED <<pipe, out, conn, message, program, service, todo, outcome, clock,
                     handled, replied, logged>>
  BY DEF ServerLoop, ReadFull, Goto, histVars
<1>3. ServerStep
  BY <1>1, <1>2 DEF ServerStep, Control, Typed, TypeOK, End
<1>8. /\ got' \in [End -> Bytes] /\ got'.server = <<>> /\ need'.server = 2
      /\ need' \in [End -> 0 .. 2 \cup 0 .. MaxFrame]
      /\ \A f \in End : Len(got'[f]) <= need'[f] /\ Len(pipe'[f]) <= PipeSize
      /\ Rest("server")' = Rest("server")
  <2>1. 2 \in 0 .. 2 \cup 0 .. MaxFrame /\ "server" \in End
    BY DEF End
  <2> QED
    BY <1>1, <1>2, <2>1, ReadFullFacts
<1>4. Typed'
  BY <1>1, <1>2, <1>8 DEF Control, Typed, TypeOK
<1>9. Written' = Written /\ Sent' = Sent /\ Line("server")' = Line("server")
  BY <1>2, SameScript, SameLine DEF End
<1>5. Written' = Written /\ Sent' = Sent /\ Line("server")' = Line("server") /\ pc'.server = "prefix"
      /\ Rest("server")' = Rest("server") /\ got'.server = <<>> /\ need'.server = 2
  BY <1>1, <1>2, <1>8, <1>9 DEF Control, Typed, TypeOK, End
<1>6. Handling'
  BY <1>1, <1>2, <1>5 DEF Handling
<1>7. InStep("server")'
  <2>1. Stream(Rest("server"), Line("server"), Taken("server"), Begun("server"))
    BY <1>1, <1>2 DEF InStep, Ready
  <2>2. Join(<<>>, Rest("server")) = Rest("server")
    BY <1>1, BytesFacts, NoBytes DEF End
  <2>3. Taken("server")' = Taken("server") /\ Begun("server")' = Begun("server")
    BY <1>2, <1>5 DEF Taken, Begun
  <2> QED
    BY <1>5, <2>1, <2>2, <2>3 DEF InStep, Ready
<1> QED
  BY <1>2, <1>3, <1>4, <1>5, <1>6, <1>7, ServerStepKeeps

LEMMA ServerPrefixKeeps ==
  ASSUME IInv, ServerPrefix
  PROVE  IInv'
<1> DEFINE m == Sent[Len(handled) + 1]
<1>1. Control /\ Handling /\ InStep("server")
  BY DEF IInv
<1>2. /\ pc.server = "prefix" /\ Len(got.server) = need.server
      /\ UNCHANGED <<pipe, out, message, program, service, todo, outcome, clock, handled, replied>>
  BY DEF ServerPrefix, Full
<1>3. /\ Uint32(got.server) = Size(m) /\ Framable(m) /\ Len(handled) < Len(Sent)
      /\ Len(handled) \in Nat /\ Len(Sent) \in Nat
      /\ Size(m) <= MaxFrame =>
           Ready("payload", <<>>, Size(m), Rest("server"),
                 Line("server"), Taken("server"), Begun("server"))
  BY <1>2, ServerReads
<1>4. Size(m) \in Nat /\ MaxFrame \in Int /\ Sent' = Sent
  BY <1>2, <1>3, FrameFacts, FramedAssumption, SameLine
<1> HIDE DEF m
<1>5. CASE /\ Size(m) <= MaxFrame /\ pc' = [pc EXCEPT !["server"] = "payload"]
           /\ got' = [got EXCEPT !["server"] = <<>>] /\ need' = [need EXCEPT !["server"] = Size(m)]
           /\ UNCHANGED <<conn, logged>>
  <2>1. ServerStep
    BY <1>1, <1>2, <1>5 DEF ServerStep, Control, Typed, TypeOK, End
  <2>6. /\ got' \in [End -> Bytes] /\ got'.server = <<>> /\ need'.server = Size(m)
        /\ need' \in [End -> 0 .. 2 \cup 0 .. MaxFrame]
        /\ \A f \in End : Len(got'[f]) <= need'[f] /\ Len(pipe'[f]) <= PipeSize
        /\ Rest("server")' = Rest("server")
    <3>1. Size(m) \in 0 .. 2 \cup 0 .. MaxFrame
      BY <1>4, <1>5
    <3> QED
      BY <1>1, <1>2, <1>5, <3>1, ReadFullFacts DEF End
  <2>2. Typed'
    BY <1>1, <1>2, <1>5, <2>6 DEF Control, Typed, TypeOK
  <2>7. Written' = Written /\ Line("server")' = Line("server")
    BY <1>2, SameScript, SameLine DEF End
  <2>3. Written' = Written /\ Line("server")' = Line("server") /\ pc'.server = "payload"
        /\ Rest("server")' = Rest("server") /\ got'.server = <<>> /\ need'.server = Size(m)
    BY <1>1, <1>5, <2>6, <2>7 DEF Control, Typed, TypeOK, End
  <2>4. Handling'
    BY <1>1, <1>2, <1>4, <2>3 DEF Handling
  <2>5. InStep("server")'
    <3>1. Taken("server")' = Taken("server") /\ Begun("server")' = Begun("server")
      BY <1>2, <2>3 DEF Taken, Begun
    <3> QED
      BY <1>3, <1>5, <2>3, <3>1 DEF InStep
  <2> QED
    BY <1>2, <2>1, <2>2, <2>3, <2>4, <2>5, ServerStepKeeps
<1>6. CASE Size(m) > MaxFrame /\ ServerClose /\ logged' = TRUE /\ UNCHANGED <<got, need>>
  <2>1. PrinterDone'
    BY <1>2, <1>3, <1>4, <1>6 DEF PrinterDone, m
  <2>2. Smooth'
    <3>1. Len(handled) + 1 \in 1 .. Len(Sent)
      BY <1>3
    <3>2. Clean' => Size(m) <= MaxFrame
      BY <1>4, <3>1 DEF Clean, m
    <3> QED
      BY <1>4, <1>6, <3>2 DEF Smooth
  <2>3. out.server = <<>>
    BY <1>1, <1>2 DEF Control, Writing, End
  <2>4. /\ pc' = [pc EXCEPT !["server"] = "closed"] /\ conn' = [conn EXCEPT !.server = "closed"]
        /\ logged' \in BOOLEAN /\ UNCHANGED ioVars
    BY <1>2, <1>6 DEF ServerClose, Goto, ioVars
  <2> QED
    BY <1>2, <2>1, <2>2, <2>3, <2>4, ServerEnds
<1>7. \/ /\ Size(m) <= MaxFrame /\ pc' = [pc EXCEPT !["server"] = "payload"]
         /\ got' = [got EXCEPT !["server"] = <<>>] /\ need' = [need EXCEPT !["server"] = Size(m)]
         /\ UNCHANGED <<conn, logged>>
      \/ Size(m) > MaxFrame /\ ServerClose /\ logged' = TRUE /\ UNCHANGED <<got, need>>
  BY <1>3, <1>4 DEF ServerPrefix, Accept, ReadFull, Goto
<1> QED
  BY <1>5, <1>6, <1>7

\* A server that stops over what it cannot decode, or over a request that is not
\* valid, has answered all that the experiment wants answered, and is sent no more.
LEMMA StopsAtTheEnd ==
  ASSUME IInv, Clean, service = "protocol", NEW k \in {Len(handled), Len(handled) + 1},
         Len(replied) = Len(handled), k > 0, k <= Written,
         k = Len(handled) => ~Valid(Sent[k]),
         k = Len(handled) + 1 => ~Decodes(Payload(Sent[k]))
  PROVE  Written = k /\ Written = Len(Sent) /\ Len(replied) = Replies
<1> DEFINE h == Len(handled)
<1>1. /\ program \in Program /\ Replies \in Nat /\ Len(Sent) \in Nat /\ h \in Nat
      /\ Written \in Nat /\ Written <= Len(Sent) /\ Fetched \in Nat /\ Fetched <= h
      /\ Pos \in 0 .. Len(program) /\ Len(program) \in Nat
  BY ScriptFacts, Numbers DEF IInv, Control, Answering
<1>2. h <= Replies
  BY HandledWithinReplies
<1>3. \A i \in 1 .. Replies : Decodes(Payload(Sent[i])) /\ (i < Replies => Valid(Sent[i]))
  BY <1>1, ExperimentAssumption DEF WellFormed, Sent, Replies
<1>4. OneByOne(program)
  BY DEF Clean
<1>5. /\ Written <= Fetched + 1
      /\ Len(Sent) <= Replies + 1
  <2>1. \A n \in 0 .. Len(program) : Count(program, "send", n) <= Count(program, "reply", n) + 1
    BY <1>1, <1>4, OneOutstanding
  <2>2. Len(Sent) = Count(program, "send", Len(program))
    BY <1>1, SentFacts DEF Sent
  <2>3. Len(program) \in 0 .. Len(program)
    BY <1>1
  <2> QED
    BY <1>1, <2>1, <2>2, <2>3 DEF Written, Fetched, Replies
<1>6. CASE k = h
  <2>1. k \in 1 .. Replies /\ ~(k < Replies)
    BY <1>1, <1>2, <1>3, <1>6
  <2>2. k = Replies /\ Replies > 0 /\ ~Valid(Sent[Replies])
    BY <1>1, <1>6, <2>1
  <2>3. Len(Sent) <= Replies
    BY <1>1, <1>4, <2>2, NoMoreSends DEF Sent, Replies
  <2> QED
    BY <1>1, <1>6, <2>2, <2>3
<1>7. CASE k = h + 1
  <2>1. ~(k \in 1 .. Replies)
    BY <1>3, <1>7, <1>1
  <2>2. h = Replies
    BY <1>1, <1>2, <1>7, <2>1
  <2> QED
    BY <1>1, <1>5, <1>7, <2>2
<1> QED
  BY <1>6, <1>7

LEMMA ServerPayloadKeeps ==
  ASSUME IInv, ServerPayload
  PROVE  IInv'
<1> DEFINE m == Sent[Len(handled) + 1]
<1>1. Control /\ Handling /\ Answering /\ InStep("server")
  BY DEF IInv
<1>2. /\ pc.server = "payload" /\ Len(got.server) = need.server /\ service = "protocol"
      /\ UNCHANGED <<pipe, got, need, out, program, service, todo, outcome, clock, handled, replied>>
  BY DEF ServerPayload, Full, ioVars
<1>3. /\ Len(handled) < Written /\ Framable(m) /\ m \in Requests
      /\ Len(handled) \in Nat /\ Written \in Nat /\ Written <= Len(Sent) /\ Len(Sent) \in Nat
      /\ got.server = Payload(m) /\ Size(m) <= MaxFrame
      /\ Stream(Rest("server"), Line("server"), Len(handled) + 1, Written)
  BY <1>2, ServerReads
<1>4. /\ Written' = Written /\ Sent' = Sent /\ Line("server")' = Line("server")
      /\ Rest("server")' = Rest("server")
  BY <1>2, SameScript, SameLine DEF End, Rest
<1> HIDE DEF m
<1>5. CASE /\ Decodes(got.server)
           /\ message' = [message EXCEPT !.server = got.server[1][2]]
           /\ pc' = [pc EXCEPT !["server"] = "dispatch"] /\ UNCHANGED <<conn, logged>>
  <2>1. Decodes(Payload(m)) /\ got.server[1][2] = m
    BY <1>3, <1>5, DecodedMessage
  <2>2. m \in Message
    BY <1>3 DEF Message
  <2>3. message' \in [End -> Message] /\ message'.server = m
    BY <1>1, <1>5, <2>1, <2>2 DEF Control, Typed, End
  <2>4. ServerStep /\ pc'.server = "dispatch"
    BY <1>1, <1>2, <1>5 DEF ServerStep, Control, Typed, TypeOK, End
  <2>5. Typed'
    BY <1>1, <1>2, <1>5, <2>3 DEF Control, Typed, TypeOK
  <2>6. Handling'
    <3>1. Len(handled) < Written' /\ message'.server = Sent'[Len(handled') + 1]
          /\ Decodes(Payload(message'.server)) /\ Size(message'.server) <= MaxFrame
      BY <1>2, <1>3, <1>4, <2>1, <2>3 DEF m
    <3> QED
      BY <1>1, <1>2, <1>4, <2>4, <3>1 DEF Handling
  <2>7. InStep("server")'
    <3>1. Taken("server")' = Len(handled) + 1 /\ Begun("server")' = Written
      BY <1>2, <1>4, <2>4 DEF Taken, Begun
    <3> QED
      BY <1>3, <1>4, <2>4, <3>1 DEF InStep, Ready
  <2> QED
    BY <1>2, <2>4, <2>5, <2>6, <2>7, ServerStepKeeps
<1>6. CASE ~Decodes(got.server) /\ ServerClose /\ logged' = TRUE /\ UNCHANGED message
  <2>1. PrinterDone'
    BY <1>2 DEF PrinterDone
  <2>2. Smooth'
    <3>1. Clean' => Clean
      BY <1>2, <1>4, <1>6 DEF Clean, ServerClose, Control, Typed, TypeOK
    <3>2. ASSUME Clean
          PROVE  /\ outcome # "fail" /\ pipe.server = <<>> /\ out.client = <<>>
                 /\ Written = Len(Sent) /\ Len(replied) = Replies
      <4>1. Len(replied) = Len(handled)
        BY <1>1, <1>2 DEF Answering
      <4>2. Written = Len(handled) + 1 /\ Written = Len(Sent) /\ Len(replied) = Replies
        <5>1. ~Decodes(Payload(Sent[Len(handled) + 1]))
          BY <1>3, <1>6 DEF m
        <5> DEFINE k == Len(handled) + 1
        <5>2. k \in {Len(handled), Len(handled) + 1} /\ k > 0 /\ k <= Written
              /\ k # Len(handled) /\ ~Decodes(Payload(Sent[k]))
          BY <1>3, <5>1
        <5> HIDE DEF k
        <5>3. Written = k /\ Written = Len(Sent) /\ Len(replied) = Replies
          BY <1>2, <3>2, <4>1, <5>2, StopsAtTheEnd
        <5> QED
          BY <5>3 DEF k
      <4>3. Rest("server") = <<>>
        <5>1. Stream(Rest("server"), Line("server"), Written, Written)
          BY <1>3, <4>2
        <5> QED
          BY <1>3, <5>1, StreamEnds
      <4>4. pipe.server = <<>> /\ out.client = <<>>
        BY <1>1, <4>3, Emptied DEF End, Peer
      <4> QED
        BY <3>2, <4>2, <4>4 DEF IInv, Smooth
    <3>3. Replies' = Replies
      BY <1>2, SameLine
    <3> QED
      BY <1>2, <1>4, <3>1, <3>2, <3>3 DEF Smooth
  <2>3. out.server = <<>>
    BY <1>1, <1>2 DEF Control, Writing, End
  <2>4. /\ pc' = [pc EXCEPT !["server"] = "closed"] /\ conn' = [conn EXCEPT !.server = "closed"]
        /\ logged' \in BOOLEAN /\ UNCHANGED ioVars
    BY <1>2, <1>6 DEF ServerClose, Goto, ioVars
  <2> QED
    BY <1>2, <1>6, <2>1, <2>2, <2>3, <2>4, ServerEnds
<1> QED
  BY <1>5, <1>6 DEF ServerPayload, Goto

LEMMA ServerPrintsKeeps ==
  ASSUME IInv, ServerPrints
  PROVE  IInv'
<1> DEFINE m == Sent[Len(handled) + 1]
<1>1. Control /\ Handling /\ Answering /\ InStep("server")
  BY DEF IInv
<1>2. /\ pc.server = "payload" /\ Len(got.server) = need.server /\ service = "framing"
      /\ handled' = Append(handled, IF got.server = <<>> THEN NoMessage ELSE got.server[1][2])
      /\ pc' = [pc EXCEPT !["server"] = "loop"]
      /\ UNCHANGED <<pipe, got, need, out, conn, message, program, service, todo, outcome,
                     clock, replied, logged>>
  BY DEF ServerPrints, Full, Goto, ioVars
<1>3. /\ Len(handled) < Written /\ Framable(m) /\ m \in Requests
      /\ Len(handled) \in Nat /\ Written \in Nat /\ Written <= Len(Sent) /\ Len(Sent) \in Nat
      /\ got.server = Payload(m) /\ Size(m) <= MaxFrame
      /\ Stream(Rest("server"), Line("server"), Len(handled) + 1, Written)
  BY <1>2, ServerReads
<1>4. /\ Written' = Written /\ Sent' = Sent /\ Line("server")' = Line("server")
      /\ Rest("server")' = Rest("server")
  BY <1>2, SameScript, SameLine DEF End, Rest
<1>5. Size(m) = 0 => m = NoMessage
  <2>1. program \in Frames /\ program \in Program \cup Frames
    BY <1>1, <1>2 DEF Control, Script
  <2>2. Len(handled) + 1 \in 1 .. Len(SentBy(program))
    BY <1>3 DEF Sent
  <2>3. PICK i \in 1 .. Len(program) : m = program[i].message
    BY <2>1, <2>2, SentFacts DEF Sent
  <2>4. i \in DOMAIN program
    BY <2>1, ProgramFacts
  <2> QED
    BY <2>1, <2>3, <2>4, ProgramAssumption
<1> HIDE DEF m
<1>6. handled' = Append(handled, m)
  <2>1. Len(Payload(m)) = Size(m) /\ Payload(m) \in Bytes /\ Size(m) \in Nat
        /\ \A i \in 1 .. Size(m) : Payload(m)[i] = <<Base - 1, m>>
    BY <1>3, PayloadFacts, FrameFacts
  <2>2. CASE Payload(m) = <<>>
    BY <1>2, <1>3, <1>5, <2>1, <2>2, NoBytes
  <2>3. CASE Payload(m) # <<>>
    <3>1. Size(m) # 0
      BY <2>1, <2>3, NoBytes
    <3>2. Payload(m)[1] = <<Base - 1, m>>
      BY <2>1, <3>1
    <3> QED
      BY <1>2, <1>3, <2>3, <3>2
  <2> QED
    BY <2>2, <2>3
<1>7. /\ handled' \in Seq(Message) /\ Len(handled') = Len(handled) + 1
      /\ \A i \in 1 .. Len(handled') :
           handled'[i] = IF i = Len(handled) + 1 THEN m ELSE handled[i]
  <2>1. m \in Message
    BY <1>3 DEF Message
  <2>2. handled \in Seq(Message)
    BY <1>1 DEF Control, Typed
  <2> QED
    BY <1>3, <1>6, <2>1, <2>2
<1>8. ServerStep /\ pc'.server = "loop"
  BY <1>1, <1>2 DEF ServerStep, Control, Typed, TypeOK, End
<1>9. Typed'
  BY <1>1, <1>2, <1>7 DEF Control, Typed, TypeOK
<1>10. Handling'
  BY <1>1, <1>2, <1>3, <1>4, <1>7 DEF Handling, m
<1>11. InStep("server")'
  <2>1. Taken("server")' = Len(handled) + 1 /\ Begun("server")' = Written
    BY <1>2, <1>4, <1>7, <1>8 DEF Taken, Begun
  <2> QED
    BY <1>3, <1>4, <1>8, <2>1 DEF InStep, Ready
<1> QED
  BY <1>2, <1>8, <1>9, <1>10, <1>11, ServerStepKeeps

LEMMA ServerReadFailsKeeps ==
  ASSUME IInv, ServerReadFails
  PROVE  IInv'
<1>1. Control /\ Handling /\ Answering /\ InStep("server")
  BY DEF IInv
<1>2. PICK err \in ReadError("server") :
        /\ ServerClose
        /\ logged' = (err # "EOF" \/ (service = "framing" /\ pc.server = "payload"))
        /\ UNCHANGED <<ioVars, message, program, service, todo, outcome, clock, handled, replied>>
  BY DEF ServerReadFails
<1>3. /\ pc.server \in {"prefix", "payload"} /\ Len(got.server) < need.server
      /\ err \in {"EOF", "unexpected EOF"} =>
           conn.client = "closed" /\ pipe.server = <<>> /\ ((err = "EOF") = (got.server = <<>>))
      /\ err = "reset" => conn.client = "closed" /\ pipe.client # <<>>
      /\ err = "timeout" => clock = "late"
      /\ err \in {"EOF", "unexpected EOF", "reset", "timeout"}
  BY DEF ReadError, Peer
<1>4. /\ pc' = [pc EXCEPT !["server"] = "closed"] /\ conn' = [conn EXCEPT !.server = "closed"]
      /\ logged' \in BOOLEAN
  BY <1>2 DEF ServerClose, Goto
<1>5. conn'.client = conn.client /\ Sent' = Sent
  BY <1>1, <1>2, <1>4, SameLine DEF Control, Typed, TypeOK
<1>6. out.server = <<>>
  BY <1>1, <1>3 DEF Control, Writing, End
<1>7. PrinterDone'
  <2>1. ASSUME service = "framing", clock # "late", outcome = "pass"
        PROVE  handled = Sent /\ ~logged'
    <3>1. err \in {"EOF", "unexpected EOF"}
      BY <1>1, <1>3, <2>1 DEF Control, Places
    <3>2. todo = <<>> /\ out.client = <<>> /\ pipe.server = <<>>
      BY <1>1, <1>3, <2>1, <3>1 DEF Control, Sockets
    <3>3. Rest("server") = <<>>
      BY <3>2, NoBytes DEF Rest, Peer
    <3> DEFINE place == pc["server"]
               g == got["server"]
               n == need["server"]
               rest == Rest("server")
               line == Line("server")
               j == Taken("server")
               k == Begun("server")
    <3>4. /\ place \in {"prefix", "payload"} /\ g \in Bytes /\ rest \in Bytes /\ rest = <<>>
          /\ j \in Nat /\ k \in Nat /\ j <= k /\ Len(g) < n
          /\ Ready(place, g, n, rest, line, j, k)
      BY <1>1, <1>3, <3>3, BytesFacts, Numbers DEF InStep, End
    <3> HIDE DEF place, g, n, rest, line, j, k
    <3>5. place = "prefix" /\ j = k /\ g = <<>>
      BY ONLY <3>4, ReadyStarved
    <3>6. pc.server = "prefix" /\ got.server = <<>> /\ Len(handled) = Written
      BY <3>5 DEF place, g, j, k, Taken, Begun
    <3>7. Written = Len(Sent)
      <4>1. Pos = Len(program)
        BY <1>1, <3>2, ScriptFacts DEF Pos, Control
      <4>2. program \in Program \cup Frames
        BY <1>1, ScriptFacts DEF Control
      <4> QED
        BY <4>1, <4>2, SentFacts DEF Written, Sent
    <3>8. handled = Sent
      <4>1. handled \in Seq(Message) /\ Sent \in Seq(Message)
        <5>1. Requests \subseteq Message
          BY DEF Message
        <5>2. Sent \in Seq(Requests)
          BY <1>1, ScriptFacts DEF Control
        <5> QED
          BY <1>1, <5>1, <5>2 DEF Control, Typed
      <4>2. Len(handled) = Len(Sent) /\ \A i \in 1 .. Len(handled) : handled[i] = Sent[i]
        BY <1>1, <3>6, <3>7 DEF Handling
      <4> QED
        BY <4>1, <4>2, SeqEqual
    <3> QED
      BY <1>2, <1>3, <3>1, <3>6, <3>8
  <2>2. service = "framing" /\ clock # "late" => outcome # "running"
    BY <1>1, <1>3 DEF Control, Places, Sockets
  <2> QED
    BY <1>2, <1>5, <2>1, <2>2 DEF PrinterDone
<1>8. Smooth'
  <2>1. Clean' => Clean
    BY <1>2, <1>5 DEF Clean
  <2>2. Clean => conn.client # "open"
    BY <1>3 DEF Clean
  <2>3. Clean => outcome # "fail"
    BY DEF IInv, Smooth
  <2> QED
    BY <1>2, <1>5, <2>1, <2>2, <2>3 DEF Smooth
<1> QED
  BY <1>2, <1>3, <1>4, <1>6, <1>7, <1>8, ServerEnds

LEMMA ServerDispatchKeeps ==
  ASSUME IInv, ServerDispatch
  PROVE  IInv'
<1> DEFINE m == message.server
           h == Len(handled)
           A == Answer(Sent[Len(handled) + 1])
<1>1. Control /\ Handling /\ Answering /\ InStep("server") /\ InStep("client")
  BY DEF IInv
<1>2. /\ pc.server = "dispatch" /\ handled' = Append(handled, m)
      /\ UNCHANGED <<pipe, got, need, message, program, service, todo, outcome, clock, replied>>
      /\ \/ /\ Size(Answer(m)) <= MaxFrame /\ out' = [out EXCEPT !.server = Frame(Answer(m))]
            /\ pc' = [pc EXCEPT !["server"] = "write"] /\ UNCHANGED <<conn, logged>>
         \/ Size(Answer(m)) > MaxFrame /\ ServerClose /\ logged' = TRUE /\ UNCHANGED out
  BY DEF ServerDispatch, Goto
<1>3. service = "protocol"
  BY <1>1, <1>2 DEF Control, Places, Typed, TypeOK
<1>4. /\ h < Written /\ m = Sent[h + 1] /\ Decodes(Payload(m)) /\ Size(m) <= MaxFrame
      /\ Len(replied) = h /\ A = Answer(m)
  BY <1>1, <1>2, <1>3 DEF Handling, Answering
<1>5. /\ h \in Nat /\ Written \in Nat /\ Written <= Len(Sent) /\ Len(Sent) \in Nat
      /\ Fetched \in Nat /\ Fetched <= h
  BY <1>1, <1>4, Numbers, ScriptFacts DEF Control, Answering
<1>6. /\ h + 1 \in 1 .. Len(Sent) /\ m \in Requests /\ Framable(A) /\ Line("client")[h + 1] = A
  <2>1. h + 1 \in 1 .. Len(Sent)
    BY <1>4, <1>5
  <2> QED
    BY <1>1, <1>4, <2>1, LineFacts DEF Control, End
<1>7. /\ handled' \in Seq(Message) /\ Len(handled') = h + 1
      /\ \A i \in 1 .. Len(handled') : handled'[i] = IF i = h + 1 THEN m ELSE handled[i]
  <2>1. m \in Message /\ handled \in Seq(Message)
    BY <1>1, <1>6 DEF Message, Control, Typed
  <2> QED
    BY <1>2, <1>5, <2>1
<1>8. /\ Pos' = Pos /\ Written' = Written /\ Fetched' = Fetched /\ Sent' = Sent
      /\ Line("server")' = Line("server") /\ Line("client")' = Line("client")
  BY <1>2, SameScript, SameLine DEF End
<1>9. pc'.server \in {"write", "closed"}
  BY <1>1, <1>2 DEF ServerClose, Goto, Control, Typed, TypeOK, End
<1>10. Handling'
  <2>1. ASSUME NEW i \in 1 .. Len(handled')
        PROVE  /\ handled'[i] = Sent'[i] /\ Decodes(Payload(handled'[i])) /\ Size(handled'[i]) <= MaxFrame
               /\ i < Len(handled') => Valid(handled'[i])
    <3>1. CASE i = h + 1
      BY <1>4, <1>7, <1>8, <3>1
    <3>2. CASE i # h + 1
      <4>1. i \in 1 .. h /\ handled'[i] = handled[i]
        BY <1>5, <1>7, <3>2
      <4> QED
        BY <1>1, <1>2, <1>3, <1>8, <4>1 DEF Handling
    <3> QED
      BY <3>1, <3>2
  <2>2. Len(handled') <= Written' /\ Len(handled') > 0 /\ message'.server = handled'[Len(handled')]
    BY <1>2, <1>4, <1>5, <1>7, <1>8
  <2> QED
    BY <1>9, <2>1, <2>2 DEF Handling
<1>11. /\ \A i \in 1 .. Len(replied') :
            replied'[i] = Answer(handled'[i]) /\ Size(replied'[i]) <= MaxFrame
       /\ Len(replied') = Len(handled') - 1 /\ Fetched' <= Len(replied')
  <2>1. ASSUME NEW i \in 1 .. Len(replied)
        PROVE  replied[i] = Answer(handled'[i]) /\ Size(replied[i]) <= MaxFrame
    <3>1. handled'[i] = handled[i]
      BY <1>4, <1>5, <1>7
    <3> QED
      BY <1>1, <1>3, <3>1 DEF Answering
  <2> QED
    BY <1>2, <1>4, <1>5, <1>7, <1>8, <2>1
<1>12. out.server = <<>>
  BY <1>1, <1>2 DEF Control, Writing, End
<1> HIDE DEF m, h, A
<1>13. CASE /\ Size(Answer(m)) <= MaxFrame /\ out' = [out EXCEPT !.server = Frame(Answer(m))]
            /\ pc' = [pc EXCEPT !["server"] = "write"] /\ UNCHANGED <<conn, logged>>
  <2>1. /\ pc'.server = "write" /\ pc'.client = pc.client
        /\ pc' \in [End -> {"next", "loop", "prefix", "payload", "dispatch", "write",
                            "wrote", "closed"}]
    BY <1>1, <1>13 DEF Control, Typed, TypeOK, End
  <2>2. Frame(A) \in Bytes /\ Frame(A) # <<>>
    <3>1. Frame(A) \in Bytes /\ Len(Frame(A)) = 2 + Size(A) /\ Size(A) \in Nat
      BY <1>6, FrameFacts
    <3> QED
      BY <3>1, NoBytes
  <2>3. out' \in [End -> Bytes] /\ out'.server = Frame(A) /\ out'.client = out.client
    BY <1>1, <1>4, <1>13, <2>2 DEF Control, Typed, TypeOK, End
  <2>4. Control'
    <3>1. Typed'
      BY <1>1, <1>2, <1>7, <1>13, <2>1, <2>3 DEF Control, Typed, TypeOK
    <3>2. Places'
      BY <1>1, <1>2, <1>3, <2>1 DEF Control, Places
    <3>3. Sockets'
      BY <1>1, <1>2, <1>13, <2>1, <2>3 DEF Control, Sockets
    <3>4. Writing'
      BY <1>1, <1>2, <1>13, <2>1, <2>2, <2>3 DEF Control, Writing, End
    <3>5. Script'
      BY <1>1, <1>2, <1>8, <2>1 DEF Control, Script
    <3> QED
      BY <3>1, <3>2, <3>3, <3>4, <3>5 DEF Control
  <2>5. Answering'
    <3>1. Size(Answer(message'.server)) <= MaxFrame
      BY <1>2, <1>13 DEF m
    <3>2. service' = "protocol"
      BY <1>2, <1>3
    <3> QED
      BY <1>11, <2>1, <3>1, <3>2 DEF Answering
  <2>6. InStep("server")'
    <3>1. Stream(Rest("server"), Line("server"), h + 1, Written)
      BY <1>1, <1>2 DEF InStep, Ready, Taken, Begun, h
    <3>2. Rest("server")' = Rest("server")
      BY <1>2, <2>3 DEF Rest, Peer
    <3>3. Taken("server")' = h + 1 /\ Begun("server")' = Written
      BY <1>7, <1>8, <2>1 DEF Taken, Begun
    <3> QED
      BY <1>8, <2>1, <3>1, <3>2, <3>3 DEF InStep, Ready
  <2>7. InStep("client")'
    <3>1. CASE pc.client = "closed"
      BY <2>1, <3>1 DEF InStep, Ready
    <3>2. CASE pc.client # "closed"
      <4> DEFINE place == pc["client"]
                 g == got["client"]
                 n == need["client"]
                 rest == Rest("client")
                 line == Line("client")
                 j == Fetched
      <4>1. Rest("client")' = Join(rest, Frame(line[h + 1]))
        <5>1. pipe.client \in Bytes
          BY <1>1, BytesFacts DEF End
        <5>2. rest = pipe.client
          BY <1>12, <5>1, NoBytes DEF Rest, Peer
        <5> QED
          BY <1>2, <1>6, <2>3, <5>2 DEF Rest, Peer
      <4>2. /\ g \in Bytes /\ rest \in Bytes /\ j \in Nat /\ h \in Nat /\ j <= h
            /\ place # "closed" /\ Ready(place, g, n, rest, line, j, h)
            /\ Framable(line[h + 1])
        <5>1. Begun("client") = h /\ Taken("client") = Fetched
          BY <1>2, <1>4 DEF Begun, Taken
        <5> QED
          BY <1>1, <1>5, <1>6, <3>2, <5>1, BytesFacts DEF InStep, End
      <4>3. place = "payload" => Framable(line[j + 1])
        <5>1. place = "payload" => j < h
          BY <4>2 DEF Ready
        <5>2. j < h => j + 1 \in 1 .. Len(Sent)
          BY <1>5, <1>6
        <5> QED
          BY <1>1, <5>1, <5>2, LineFacts DEF Control, End
      <4> HIDE DEF place, g, n, rest, line, j
      <4>4. Ready(place, g, n, Join(rest, Frame(line[h + 1])), line, j, h + 1)
        BY ONLY <4>2, <4>3, ReadyGrows
      <4>5. Begun("client")' = h + 1 /\ Taken("client")' = Fetched
        BY <1>2, <1>4, <1>8, <2>1 DEF Begun, Taken
      <4> QED
        BY <1>2, <1>8, <2>1, <4>1, <4>4, <4>5 DEF InStep, place, g, n, line, j
    <3> QED
      BY <3>1, <3>2
  <2>8. outcome' # "wrong" /\ PrinterDone' /\ Smooth'
    <3>1. pc.server # "closed" /\ pc'.server # "closed"
      BY <1>2, <2>1
    <3> QED
      BY <1>2, <1>13, <3>1, GoesOn
  <2> QED
    BY <1>10, <2>4, <2>5, <2>6, <2>7, <2>8 DEF IInv
<1>14. CASE Size(Answer(m)) > MaxFrame /\ ServerClose /\ logged' = TRUE /\ UNCHANGED out
  <2>1. /\ pc' = [pc EXCEPT !["server"] = "closed"] /\ conn' = [conn EXCEPT !.server = "closed"]
        /\ logged' \in BOOLEAN /\ UNCHANGED ioVars
    BY <1>2, <1>14 DEF ServerClose, Goto, ioVars
  <2>2. pc'.server = "closed"
    BY <1>1, <2>1 DEF Control, Typed, TypeOK, End
  <2>3. Answering'
    BY <1>2, <1>3, <1>11, <2>2 DEF Answering
  <2>4. PrinterDone'
    BY <1>2, <1>3 DEF PrinterDone
  <2>5. Smooth'
    <3>1. Clean' => Size(A) <= MaxFrame
      BY <1>6, <1>8 DEF Clean, A, h
    <3>2. Size(A) > MaxFrame /\ Size(A) \in Nat /\ MaxFrame \in Int
      BY <1>4, <1>6, <1>14, FrameFacts, FramedAssumption
    <3> QED
      BY <3>1, <3>2 DEF Smooth
  <2> QED
    BY <1>2, <1>7, <1>10, <1>12, <2>1, <2>3, <2>4, <2>5, ServerLeaves
<1> QED
  BY <1>2, <1>13, <1>14

LEMMA ServerWriteFailsKeeps ==
  ASSUME IInv, ServerWriteFails
  PROVE  IInv'
<1>1. Control
  BY DEF IInv
<1>2. /\ pc.server = "write" /\ conn.client = "closed" /\ logged' \in BOOLEAN
      /\ pc' = [pc EXCEPT !["server"] = "closed"] /\ conn' = [conn EXCEPT !.server = "closed"]
      /\ UNCHANGED <<ioVars, message, program, service, todo, outcome, clock, handled, replied>>
  BY DEF ServerWriteFails, ServerClose, Goto
<1>3. conn'.client = conn.client /\ Sent' = Sent
  BY <1>1, <1>2, SameLine DEF Control, Typed, TypeOK
<1>4. PrinterDone'
  BY <1>1, <1>2 DEF PrinterDone, Control, Places
<1>5. Smooth'
  <2>1. Clean' => Clean
    BY <1>2, <1>3 DEF Clean
  <2>2. Clean => outcome # "fail"
    BY DEF IInv, Smooth
  <2> QED
    BY <1>2, <1>3, <2>1, <2>2 DEF Smooth
<1> QED
  BY <1>2, <1>4, <1>5, ServerEnds

LEMMA ServerWroteKeeps ==
  ASSUME IInv, ServerWrote
  PROVE  IInv'
<1> DEFINE h == Len(handled)
<1>1. Control /\ Handling /\ Answering /\ InStep("server")
  BY DEF IInv
<1>2. /\ pc.server = "wrote"
      /\ IF ~Valid(message.server) THEN ServerClose
         ELSE pc' = [pc EXCEPT !["server"] = "loop"] /\ UNCHANGED conn
      /\ UNCHANGED <<pipe, got, need, out, message, program, service, todo, outcome, clock,
                     handled, replied, logged>>
  BY DEF ServerWrote, CloseAfter, Goto, ioVars, histVars
<1>3. service = "protocol"
  BY <1>1, <1>2 DEF Control, Places, Typed, TypeOK
<1>4. /\ h > 0 /\ message.server = handled[h] /\ Len(replied) = h /\ h <= Written
      /\ h \in Nat /\ Written \in Nat /\ handled[h] = Sent[h]
  <2>1. /\ h > 0 /\ message.server = handled[h] /\ Len(replied) = h /\ h <= Written
    BY <1>1, <1>2, <1>3 DEF Handling, Answering
  <2>2. h \in Nat /\ Written \in Nat
    BY <1>1, Numbers, ScriptFacts DEF Control
  <2> QED
    BY <1>1, <2>1, <2>2 DEF Handling
<1>5. /\ Written' = Written /\ Sent' = Sent /\ Line("server")' = Line("server")
      /\ Rest("server")' = Rest("server") /\ Replies' = Replies
  BY <1>2, SameScript, SameLine DEF End, Rest
<1>6. Stream(Rest("server"), Line("server"), h, Written)
  BY <1>1, <1>2 DEF InStep, Ready, Taken, Begun
<1>7. CASE /\ Valid(message.server)
           /\ pc' = [pc EXCEPT !["server"] = "loop"] /\ UNCHANGED conn
  <2>1. ServerStep /\ pc'.server = "loop"
    BY <1>1, <1>2, <1>7 DEF ServerStep, Control, Typed, TypeOK, End
  <2>2. Typed'
    BY <1>1, <1>2, <1>7 DEF Control, Typed, TypeOK
  <2>3. Handling'
    <3>1. \A i \in 1 .. h : Valid(handled[i])
      <4>1. ASSUME NEW i \in 1 .. h PROVE Valid(handled[i])
        <5>1. CASE i = h
          BY <1>4, <1>7, <5>1
        <5>2. CASE i # h
          <6>1. i < Len(handled)
            BY <1>4, <5>2
          <6> QED
            BY <1>1, <1>3, <6>1 DEF Handling
        <5> QED
          BY <5>1, <5>2
      <4> QED
        BY <4>1
    <3> QED
      BY <1>1, <1>2, <1>5, <2>1, <3>1 DEF Handling
  <2>4. InStep("server")'
    <3>1. Taken("server")' = h /\ Begun("server")' = Written
      BY <1>2, <1>5, <2>1 DEF Taken, Begun
    <3> QED
      BY <1>5, <1>6, <2>1, <3>1 DEF InStep, Ready
  <2> QED
    BY <1>2, <1>3, <2>1, <2>2, <2>3, <2>4, ServerStepKeeps
<1>8. CASE ~Valid(message.server) /\ ServerClose
  <2>1. PrinterDone'
    BY <1>2, <1>3 DEF PrinterDone
  <2>2. Smooth'
    <3>1. Clean' => Clean
      BY <1>2, <1>5, <1>8 DEF Clean, ServerClose, Control, Typed, TypeOK
    <3>2. ASSUME Clean
          PROVE  /\ outcome # "fail" /\ pipe.server = <<>> /\ out.client = <<>>
                 /\ Written = Len(Sent) /\ Len(replied) = Replies
      <4>1. h \in {Len(handled), Len(handled) + 1} /\ h # Len(handled) + 1 /\ ~Valid(Sent[h])
        BY <1>4, <1>8
      <4> HIDE DEF h
      <4>2. Written = h /\ Written = Len(Sent) /\ Len(replied) = Replies
        <5>1. Len(replied) = Len(handled)
          BY <1>4 DEF h
        <5> QED
          BY <1>3, <1>4, <3>2, <4>1, <5>1, StopsAtTheEnd
      <4>3. Rest("server") = <<>>
        <5>1. Stream(Rest("server"), Line("server"), h, h)
          BY <1>6, <4>2
        <5> QED
          BY <1>4, <5>1, StreamEnds
      <4>4. pipe.server = <<>> /\ out.client = <<>>
        BY <1>1, <4>3, Emptied DEF End, Peer
      <4> QED
        BY <3>2, <4>2, <4>4 DEF IInv, Smooth
    <3> QED
      BY <1>2, <1>3, <1>5, <3>1, <3>2 DEF Smooth
  <2>3. out.server = <<>>
    BY <1>1, <1>2 DEF Control, Writing, End
  <2>4. /\ pc' = [pc EXCEPT !["server"] = "closed"] /\ conn' = [conn EXCEPT !.server = "closed"]
        /\ logged' \in BOOLEAN /\ UNCHANGED ioVars
    BY <1>1, <1>2, <1>8 DEF ServerClose, Goto, ioVars, Control, Typed, TypeOK
  <2> QED
    BY <1>2, <2>1, <2>2, <2>3, <2>4, ServerEnds
<1> QED
  BY <1>2, <1>7, <1>8

-----------------------------------------------------------------------------
(* The client's steps.                                                     *)

\* The operation that the client is at: what it sends has its place among the
\* messages, what it waits for is still to come, and only sends are framed.
LEMMA AtOperation ==
  ASSUME Control, todo # <<>>
  PROVE  /\ todo[1].op \in {"send", "reply", "end"}
         /\ service = "framing" => todo[1].op = "send"
         /\ todo[1].op = "send" =>
              /\ Written + 1 \in 1 .. Len(Sent) /\ Sent[Written + 1] = todo[1].message
              /\ Framable(Sent[Written + 1])
         /\ todo[1].op = "reply" =>
              /\ Fetched + 1 \in 1 .. Replies
              /\ service = "protocol" => Wanted(todo[1], Answer(Sent[Fetched + 1]))
         /\ todo[1].op = "end" /\ service = "protocol" => Fetched = Replies
<1> DEFINE n == Pos
<1>1. /\ program \in Program \cup Frames /\ (service = "protocol" => program \in Program)
      /\ (service = "framing" => program \in Frames)
      /\ n \in Nat /\ Len(program) \in Nat /\ DOMAIN program = 1 .. Len(program)
  BY ScriptFacts, ProgramFacts DEF Control, Script
<1>2. /\ n + 1 \in 1 .. Len(program) /\ todo[1] = program[n + 1]
      /\ todo[1].op \in {"send", "reply", "end"}
  BY NextOperation DEF Control
<1>3. /\ Written = Count(program, "send", n) /\ Fetched = Count(program, "reply", n)
      /\ Sent = SentBy(program) /\ Replies = Count(program, "reply", Len(program))
  BY DEF Written, Fetched, Sent, Replies
<1> HIDE DEF n
<1>4. /\ Count(program, "send", n + 1)
           = Count(program, "send", n) + IF program[n + 1].op = "send" THEN 1 ELSE 0
      /\ Count(program, "reply", n + 1)
           = Count(program, "reply", n) + IF program[n + 1].op = "reply" THEN 1 ELSE 0
  <2>1. n \in Nat
    BY <1>1
  <2>2. ASSUME NEW op
        PROVE  Count(program, op, n + 1)
                 = Count(program, op, n) + IF program[n + 1].op = op THEN 1 ELSE 0
    BY ONLY <2>1, CountFacts
  <2> QED
    BY <2>2
<1>5. /\ Fetched \in Nat /\ Replies \in Nat
      /\ Count(program, "reply", n + 1) <= Replies
  <2>1. Count(program, "reply", n + 1) <= Count(program, "reply", Len(program))
    <3>1. n + 1 \in Nat /\ Len(program) \in Nat /\ n + 1 <= Len(program)
      BY <1>1, <1>2
    <3> QED
      BY <3>1, CountFacts
  <2> QED
    BY <1>3, <2>1, ScriptFacts DEF Control
<1>6. service = "framing" => todo[1].op = "send"
  BY <1>1, <1>2, ProgramAssumption
<1>7. ASSUME todo[1].op = "send"
      PROVE  /\ Written + 1 \in 1 .. Len(Sent) /\ Sent[Written + 1] = todo[1].message
             /\ Framable(Sent[Written + 1])
  <2>1. Count(program, "send", n + 1) \in 1 .. Len(SentBy(program))
        /\ SentBy(program)[Count(program, "send", n + 1)] = program[n + 1].message
    BY <1>1, <1>2, <1>7, SentFacts
  <2>2. Count(program, "send", n + 1) = Written + 1
    BY <1>2, <1>3, <1>4, <1>7
  <2>3. Written + 1 \in 1 .. Len(Sent) /\ Sent[Written + 1] = todo[1].message
    BY <1>2, <1>3, <2>1, <2>2
  <2> QED
    BY <2>3, LineFacts DEF Control, End
<1>8. ASSUME todo[1].op = "reply"
      PROVE  /\ Fetched + 1 \in 1 .. Replies
             /\ service = "protocol" => Wanted(todo[1], Answer(Sent[Fetched + 1]))
  <2>1. Count(program, "reply", n + 1) = Fetched + 1
    BY <1>2, <1>3, <1>4, <1>8
  <2>2. service = "protocol" => Wanted(todo[1], Answer(Sent[Fetched + 1]))
    <3>1. ASSUME program \in Program
          PROVE  Wanted(program[n + 1], Answer(SentBy(program)[Count(program, "reply", n + 1)]))
      BY <1>1, <1>2, <1>8, <3>1, ExperimentAssumption DEF WellFormed
    <3> QED
      BY <1>1, <1>2, <1>3, <2>1, <3>1
  <2> QED
    BY <1>5, <2>1, <2>2
<1>9. ASSUME todo[1].op = "end", service = "protocol"
      PROVE  Fetched = Replies
  <2>1. n + 1 = Len(program)
    BY <1>1, <1>2, <1>9, ExperimentAssumption DEF WellFormed
  <2>2. Count(program, "reply", n + 1) = Count(program, "reply", n)
    BY <1>2, <1>3, <1>4, <1>5, <1>9
  <2> QED
    BY <1>3, <2>1, <2>2
<1> QED
  BY <1>2, <1>6, <1>7, <1>8, <1>9

\* What the client has read is the frame of an answer that it waits for.
LEMMA ClientReads ==
  ASSUME IInv, pc.client \in {"prefix", "payload"}, Len(got.client) = need.client
  PROVE  /\ Fetched < Begun("client") /\ Taken("client") = Fetched
         /\ Fetched \in Nat /\ Begun("client") \in Nat
         /\ Framable(Answer(Sent[Fetched + 1]))
         /\ Size(Answer(Sent[Fetched + 1])) <= MaxFrame
         /\ Decodes(Payload(Answer(Sent[Fetched + 1])))
         /\ service = "protocol" /\ Fetched + 1 <= Replies
         /\ pc.client = "prefix" =>
              /\ Uint32(got.client) = Size(Answer(Sent[Fetched + 1]))
              /\ Ready("payload", <<>>, Size(Answer(Sent[Fetched + 1])), Rest("client"),
                       Line("client"), Fetched, Begun("client"))
         /\ pc.client = "payload" =>
              /\ got.client = Payload(Answer(Sent[Fetched + 1]))
              /\ Stream(Rest("client"), Line("client"), Fetched + 1, Begun("client"))
<1> DEFINE g == got["client"]
           n == need["client"]
           rest == Rest("client")
           line == Line("client")
           j == Fetched
           k == Begun("client")
           A == Answer(Sent[Fetched + 1])
<1>1. Control /\ Handling /\ Answering /\ InStep("client") /\ "client" \in End
  BY DEF IInv, End
<1>2. /\ Taken("client") = j /\ j \in Nat /\ k \in Nat /\ j <= k
  BY <1>1, Numbers, ScriptFacts DEF Control, Taken
<1>3. g \in Bytes /\ rest \in Bytes /\ Len(g) = n
  BY <1>1, BytesFacts
<1>4. Ready(pc.client, g, n, rest, line, j, k)
  BY <1>1, <1>2 DEF InStep
<1>5. j < k =>
        /\ line[j + 1] = A /\ Framable(A) /\ Size(A) <= MaxFrame /\ Decodes(Payload(A))
        /\ service = "protocol" /\ j + 1 <= Replies
  BY ClientReadsAnswer
<1> HIDE DEF g, n, rest, line, j, k, A
<1>6. CASE pc.client = "prefix"
  <2>1. Ready("prefix", g, n, rest, line, j, k)
    BY <1>4, <1>6
  <2>2. /\ j < k /\ Framable(line[j + 1]) /\ Uint32(g) = Size(line[j + 1])
        /\ Size(line[j + 1]) <= MaxFrame
              => Ready("payload", <<>>, Size(line[j + 1]), rest, line, j, k)
    BY ONLY <1>2, <1>3, <2>1, ReadyPrefix
  <2> QED
    BY <1>2, <1>5, <1>6, <2>2 DEF g, rest, line, j, k, A
<1>7. CASE pc.client = "payload"
  <2>1. Ready("payload", g, n, rest, line, j, k)
    BY <1>4, <1>7
  <2>2. Whole(g, n, rest, line, j, k)
    BY ONLY <1>2, <1>3, <2>1, ReadyPayload
  <2> QED
    BY <1>2, <1>5, <1>7, <2>2 DEF Whole, g, rest, line, j, k, A
<1> QED
  BY <1>6, <1>7

\* A client that waits while nothing is left has read all that was begun.
LEMMA ClientStarved ==
  ASSUME IInv, pc.client \in {"prefix", "payload"}, Len(got.client) < need.client,
         conn.server = "closed", pipe.client = <<>>
  PROVE  /\ pc.client = "prefix" /\ Fetched = Begun("client") /\ Begun("client") = Len(replied)
         /\ got.client = <<>> /\ Rest("client") = <<>>
<1>1. Control /\ Handling /\ Answering /\ InStep("client") /\ "client" \in End
  BY DEF IInv, End
<1>2. pc.server = "closed" /\ out.server = <<>>
  BY <1>1 DEF Control, Sockets, Writing
<1>3. Rest("client") = <<>>
  BY <1>2, NoBytes DEF Rest, Peer
<1> DEFINE place == pc["client"]
           g == got["client"]
           n == need["client"]
           rest == Rest("client")
           line == Line("client")
           j == Fetched
           k == Begun("client")
<1>4. /\ place \in {"prefix", "payload"} /\ g \in Bytes /\ rest \in Bytes /\ rest = <<>>
      /\ j \in Nat /\ k \in Nat /\ j <= k /\ Len(g) < n
      /\ Ready(place, g, n, rest, line, j, k)
  <2>1. Taken("client") = j
    BY DEF Taken
  <2> QED
    BY <1>1, <1>3, <2>1, BytesFacts, Numbers DEF InStep
<1> HIDE DEF place, g, n, rest, line, j, k
<1>5. place = "prefix" /\ j = k /\ g = <<>>
  BY ONLY <1>4, ReadyStarved
<1> QED
  BY <1>2, <1>3, <1>5 DEF place, g, j, k, Begun

\* The end of a step of the client that concerns it alone.
ClientStep ==
  /\ UNCHANGED <<pipe, out, conn, program, service, outcome, clock, handled, replied, logged>>
  /\ pc'.server = pc.server /\ got'.server = got.server /\ need'.server = need.server
  /\ message'.server = message.server
  /\ pc.client \in {"next", "prefix", "payload"} /\ pc'.client \in {"next", "prefix", "payload"}

LEMMA ClientStepKeeps ==
  ASSUME IInv, ClientStep, Typed', service = "protocol", Script',
         Written' = Written, Fetched' <= Len(replied), InStep("client")'
  PROVE  IInv'
<1>1. Control /\ Handling /\ Answering /\ InStep("server")
  BY DEF IInv
<1>2. Sent' = Sent
  BY SameLine DEF ClientStep
<1>3. Control'
  <2>1. Places'
    BY <1>1 DEF Control, Places, ClientStep
  <2>2. Sockets'
    BY <1>1 DEF Control, Sockets, ClientStep
  <2>3. Writing'
    BY <1>1 DEF Control, Writing, End, ClientStep
  <2> QED
    BY <2>1, <2>2, <2>3 DEF Control
<1>4. Handling'
  BY <1>1, <1>2 DEF Handling, ClientStep
<1>5. Answering'
  BY <1>1, <1>2 DEF Answering, ClientStep
<1>6. InStep("server")'
  <2>1. Rest("server")' = Rest("server")
    BY DEF Rest, ClientStep
  <2>2. Taken("server")' = Taken("server") /\ Begun("server")' = Begun("server")
    BY DEF Taken, Begun, ClientStep
  <2> QED
    BY <1>1, <2>1, <2>2, SameStep DEF End, ClientStep
<1>7. outcome' # "wrong" /\ PrinterDone' /\ Smooth'
  BY GoesOn DEF ClientStep
<1> QED
  BY <1>3, <1>4, <1>5, <1>6, <1>7 DEF IInv

\* An error that Clean excludes.
LEMMA ClientGivesUp ==
  ASSUME IInv, pc.client # "closed", ClientClose("fail"), UNCHANGED <<got, todo>>, ~Clean
  PROVE  IInv'
<1>1. /\ pc' = [pc EXCEPT !["client"] = "closed"] /\ conn' = [conn EXCEPT !.client = "closed"]
      /\ outcome' = "fail"
      /\ UNCHANGED <<service, ioVars, message, program, todo, clock, histVars>>
  BY DEF ClientClose, Goto, ioVars
<1>2. conn.client = "open"
  BY DEF IInv, Control, Sockets
<1> DEFINE r == "fail"
           c == "closed"
<1>3. r \in {"pass", "fail"} /\ c \in {"closed", "vanished"} /\ r # "pass"
  OBVIOUS
<1>4. conn' = [conn EXCEPT !.client = c] /\ outcome' = r
  BY <1>1
<1> HIDE DEF r, c
<1> QED
  BY <1>1, <1>2, <1>3, <1>4, ClientEnds

LEMMA ClientPassKeeps ==
  ASSUME IInv, ClientPass
  PROVE  IInv'
<1>1. /\ pc.client = "next" /\ todo = <<>>
      /\ pc' = [pc EXCEPT !["client"] = "closed"] /\ conn' = [conn EXCEPT !.client = "closed"]
      /\ outcome' = "pass"
      /\ UNCHANGED <<service, ioVars, message, program, todo, clock, histVars>>
  BY DEF ClientPass, ClientClose, Goto, ioVars
<1>2. conn.client = "open" /\ pc.client # "closed"
  BY <1>1 DEF IInv, Control, Sockets
<1> DEFINE r == "pass"
           c == "closed"
<1>3. r \in {"pass", "fail"} /\ c \in {"closed", "vanished"} /\ r # "fail" /\ c = "closed"
  OBVIOUS
<1>4. conn' = [conn EXCEPT !.client = c] /\ outcome' = r
  BY <1>1
<1> HIDE DEF r, c
<1> QED
  BY <1>1, <1>2, <1>3, <1>4, ClientEnds

LEMMA VanishKeeps ==
  ASSUME IInv, Vanish
  PROVE  IInv'
<1>1. /\ conn.client = "open" /\ outcome' = "fail"
      /\ pc' = [pc EXCEPT !["client"] = "closed"] /\ conn' = [conn EXCEPT !.client = "vanished"]
      /\ UNCHANGED <<service, ioVars, message, program, todo, clock, histVars>>
  BY DEF Vanish, Goto
<1>2. pc.client # "closed"
  BY <1>1 DEF IInv, Control, Sockets
<1> DEFINE r == "fail"
           c == "vanished"
<1>3. r \in {"pass", "fail"} /\ c \in {"closed", "vanished"} /\ r # "pass" /\ c = "vanished"
  OBVIOUS
<1>4. conn' = [conn EXCEPT !.client = c] /\ outcome' = r
  BY <1>1
<1> HIDE DEF r, c
<1> QED
  BY <1>1, <1>2, <1>3, <1>4, ClientEnds

LEMMA ClientTooLargeKeeps ==
  ASSUME IInv, ClientTooLarge
  PROVE  IInv'
<1>1. /\ pc.client = "next" /\ todo # <<>> /\ todo[1].op = "send"
      /\ Size(todo[1].message) > MaxFrame
      /\ ClientClose("fail") /\ UNCHANGED <<got, todo>>
  BY DEF ClientTooLarge
<1>2. /\ Written + 1 \in 1 .. Len(Sent) /\ Sent[Written + 1] = todo[1].message
      /\ Framable(Sent[Written + 1])
  BY <1>1, AtOperation DEF IInv
<1>3. Size(Sent[Written + 1]) \in Nat /\ MaxFrame \in Int
  BY <1>2, FrameFacts, FramedAssumption
<1>4. ~Clean
  BY <1>1, <1>2, <1>3 DEF Clean
<1> QED
  BY <1>1, <1>4, ClientGivesUp

LEMMA ClientWriteFailsKeeps ==
  ASSUME IInv, ClientWriteFails
  PROVE  IInv'
<1>1. /\ pc.client = "write" /\ conn.client = "open"
      /\ clock = "late" \/ conn.server = "closed"
      /\ ClientClose("fail") /\ UNCHANGED <<got, todo>>
  BY DEF ClientWriteFails
<1>2. out.client # <<>>
  BY <1>1 DEF IInv, Control, Writing, End
<1>3. ~Clean
  <2>1. Clean /\ conn.server = "closed" => out.client = <<>>
    BY <1>1 DEF IInv, Control, Sockets, Smooth
  <2>2. Clean => clock # "late"
    BY DEF Clean
  <2> QED
    BY <1>1, <1>2, <2>1, <2>2
<1> QED
  BY <1>1, <1>3, ClientGivesUp

LEMMA ClientReadKeeps ==
  ASSUME IInv, ClientRead
  PROVE  IInv'
<1>1. Control /\ Answering /\ InStep("client")
  BY DEF IInv
<1>2. /\ pc.client = "next" /\ todo # <<>> /\ todo[1].op \in {"reply", "end"}
      /\ pc' = [pc EXCEPT !["client"] = "prefix"]
      /\ got' = [got EXCEPT !["client"] = <<>>] /\ need' = [need EXCEPT !["client"] = 2]
      /\ UNCHANGED <<pipe, out, conn, message, program, service, todo, outcome, clock,
                     handled, replied, logged>>
  BY DEF ClientRead, ReadFull, Goto, histVars
<1>3. service = "protocol"
  BY <1>1, <1>2, AtOperation DEF Control, Typed, TypeOK
<1>4. /\ got' \in [End -> Bytes] /\ got'.client = <<>> /\ need'.client = 2
      /\ need' \in [End -> 0 .. 2 \cup 0 .. MaxFrame]
      /\ got'.server = got.server /\ need'.server = need.server
      /\ \A f \in End : Len(got'[f]) <= need'[f] /\ Len(pipe'[f]) <= PipeSize
      /\ Rest("client")' = Rest("client")
  <2>1. 2 \in 0 .. 2 \cup 0 .. MaxFrame /\ "client" \in End /\ "server" \in End
    BY DEF End
  <2> QED
    BY <1>1, <1>2, <2>1, ReadFullFacts
<1>5. /\ Pos' = Pos /\ Written' = Written /\ Fetched' = Fetched
      /\ Line("client")' = Line("client")
  BY <1>2, SameScript, SameLine DEF End
<1>6. /\ pc'.client = "prefix" /\ pc'.server = pc.server
      /\ pc' \in [End -> {"next", "loop", "prefix", "payload", "dispatch", "write",
                          "wrote", "closed"}]
  BY <1>1, <1>2 DEF Control, Typed, TypeOK, End
<1>7. ClientStep
  BY <1>2, <1>4, <1>6 DEF ClientStep
<1>8. Typed'
  BY <1>1, <1>2, <1>4, <1>6 DEF Control, Typed, TypeOK
<1>9. Script'
  BY <1>1, <1>2, <1>5 DEF Control, Script
<1>10. InStep("client")'
  <2>1. Stream(Rest("client"), Line("client"), Taken("client"), Begun("client"))
    BY <1>1, <1>2 DEF InStep, Ready
  <2>2. Join(<<>>, Rest("client")) = Rest("client")
    BY <1>1, BytesFacts, NoBytes DEF End
  <2>3. Taken("client")' = Taken("client") /\ Begun("client")' = Begun("client")
    BY <1>2, <1>5, <1>6 DEF Taken, Begun
  <2> QED
    BY <1>4, <1>5, <1>6, <2>1, <2>2, <2>3 DEF InStep, Ready
<1>11. Fetched' <= Len(replied)
  BY <1>1, <1>5 DEF Answering
<1> QED
  BY <1>3, <1>5, <1>7, <1>8, <1>9, <1>10, <1>11, ClientStepKeeps

LEMMA ClientPrefixKeeps ==
  ASSUME IInv, ClientPrefix
  PROVE  IInv'
<1> DEFINE A == Answer(Sent[Fetched + 1])
<1>1. Control /\ Answering /\ InStep("client")
  BY DEF IInv
<1>2. pc.client = "prefix" /\ Len(got.client) = need.client
  BY DEF ClientPrefix, Full
<1>3. /\ Framable(A) /\ Size(A) <= MaxFrame /\ Uint32(got.client) = Size(A)
      /\ service = "protocol" /\ Taken("client") = Fetched
      /\ Ready("payload", <<>>, Size(A), Rest("client"), Line("client"), Fetched, Begun("client"))
  BY <1>2, ClientReads
<1> HIDE DEF A
<1>4. /\ pc' = [pc EXCEPT !["client"] = "payload"]
      /\ got' = [got EXCEPT !["client"] = <<>>] /\ need' = [need EXCEPT !["client"] = Size(A)]
      /\ UNCHANGED <<pipe, out, conn, message, program, service, todo, outcome, clock,
                     handled, replied, logged>>
  BY <1>3 DEF ClientPrefix, Accept, ReadFull, Goto, histVars
<1>5. /\ got' \in [End -> Bytes] /\ got'.client = <<>> /\ need'.client = Size(A)
      /\ need' \in [End -> 0 .. 2 \cup 0 .. MaxFrame]
      /\ got'.server = got.server /\ need'.server = need.server
      /\ \A f \in End : Len(got'[f]) <= need'[f] /\ Len(pipe'[f]) <= PipeSize
      /\ Rest("client")' = Rest("client")
  <2>1. Size(A) \in 0 .. 2 \cup 0 .. MaxFrame /\ "client" \in End /\ "server" \in End
    <3>1. Size(A) \in Nat /\ MaxFrame \in Int
      BY <1>3, FrameFacts, FramedAssumption
    <3> QED
      BY <1>3, <3>1 DEF End
  <2> QED
    BY <1>1, <1>4, <2>1, ReadFullFacts
<1>6. /\ Pos' = Pos /\ Written' = Written /\ Fetched' = Fetched
      /\ Line("client")' = Line("client")
  BY <1>4, SameScript, SameLine DEF End
<1>7. /\ pc'.client = "payload" /\ pc'.server = pc.server
      /\ pc' \in [End -> {"next", "loop", "prefix", "payload", "dispatch", "write",
                          "wrote", "closed"}]
  BY <1>1, <1>4 DEF Control, Typed, TypeOK, End
<1>8. ClientStep
  BY <1>2, <1>4, <1>5, <1>7 DEF ClientStep
<1>9. Typed'
  BY <1>1, <1>4, <1>5, <1>7 DEF Control, Typed, TypeOK
<1>10. Script'
  BY <1>1, <1>2, <1>4, <1>6 DEF Control, Script
<1>11. InStep("client")'
  <2>1. Taken("client")' = Fetched /\ Begun("client")' = Begun("client")
    BY <1>4, <1>6, <1>7 DEF Taken, Begun
  <2> QED
    BY <1>3, <1>5, <1>6, <1>7, <2>1 DEF InStep
<1>12. Fetched' <= Len(replied)
  BY <1>1, <1>6 DEF Answering
<1> QED
  BY <1>3, <1>6, <1>8, <1>9, <1>10, <1>11, <1>12, ClientStepKeeps

LEMMA ClientPayloadKeeps ==
  ASSUME IInv, ClientPayload
  PROVE  IInv'
<1> DEFINE A == Answer(Sent[Fetched + 1])
<1>1. Control /\ Handling /\ Answering /\ InStep("client")
  BY DEF IInv
<1>2. pc.client = "payload" /\ Len(got.client) = need.client
  BY DEF ClientPayload, Full
<1>3. /\ Fetched < Begun("client") /\ Fetched \in Nat /\ Begun("client") \in Nat
      /\ Framable(A) /\ Decodes(Payload(A)) /\ service = "protocol" /\ Fetched + 1 <= Replies
      /\ got.client = Payload(A)
      /\ Stream(Rest("client"), Line("client"), Fetched + 1, Begun("client"))
  BY <1>2, ClientReads
<1>4. todo # <<>> /\ todo[1].op = "reply" /\ Wanted(todo[1], A)
  <2>1. todo # <<>> /\ todo[1].op \in {"reply", "end"}
    BY <1>1, <1>2 DEF Control, Script
  <2>2. todo[1].op # "end"
    <3>1. todo[1].op = "end" => Fetched = Replies
      BY <1>1, <1>3, <2>1, AtOperation
    <3> QED
      BY <1>3, <3>1
  <2> QED
    BY <1>1, <1>3, <2>1, <2>2, AtOperation
<1> HIDE DEF A
<1>5. Payload(A)[1][2] = A
  BY <1>3, DecodedMessage
<1>6. /\ message' = [message EXCEPT !.client = A] /\ todo' = Drop(todo, 1)
      /\ pc' = [pc EXCEPT !["client"] = "next"]
      /\ UNCHANGED <<pipe, got, need, out, conn, program, service, outcome, clock,
                     handled, replied, logged>>
  BY <1>3, <1>4, <1>5 DEF ClientPayload, Goto, ioVars, histVars
<1>7. /\ Pos' = Pos + 1 /\ Pos' \in 0 .. Len(program) /\ todo' = Drop(program, Pos')
      /\ Written' = Written /\ Fetched' = Fetched + 1
  <2>1. /\ Pos' = Pos + 1 /\ Pos' \in 0 .. Len(program) /\ todo' = Drop(program, Pos')
        /\ Written' = Written + IF todo[1].op = "send" THEN 1 ELSE 0
        /\ Fetched' = Fetched + IF todo[1].op = "reply" THEN 1 ELSE 0
    BY <1>1, <1>4, <1>6, Advance DEF Control
  <2>2. Written \in Nat
    BY <1>1, ScriptFacts DEF Control
  <2> QED
    BY <1>4, <2>1, <2>2
<1>8. /\ pc'.client = "next" /\ pc'.server = pc.server
      /\ pc' \in [End -> {"next", "loop", "prefix", "payload", "dispatch", "write",
                          "wrote", "closed"}]
      /\ message' \in [End -> Message] /\ message'.server = message.server
  <2>1. A \in Message
    BY <1>3 DEF Framable
  <2> QED
    BY <1>1, <1>6, <2>1 DEF Control, Typed, TypeOK, End
<1>9. ClientStep
  BY <1>2, <1>6, <1>8 DEF ClientStep
<1>10. Typed'
  BY <1>1, <1>6, <1>8 DEF Control, Typed, TypeOK
<1>11. Script'
  BY <1>1, <1>6, <1>7, <1>8 DEF Control, Script
<1>12. InStep("client")'
  <2>1. Taken("client")' = Fetched + 1 /\ Begun("client")' = Begun("client")
    BY <1>6, <1>7, <1>8 DEF Taken, Begun
  <2>2. Line("client")' = Line("client") /\ Rest("client")' = Rest("client")
    BY <1>6, SameLine DEF End, Rest
  <2> QED
    BY <1>3, <1>8, <2>1, <2>2 DEF InStep, Ready
<1>13. Fetched' <= Len(replied)
  <2>1. Len(replied) \in Nat
    BY <1>1, Numbers
  <2>2. CASE Begun("client") = Len(replied)
    BY <1>3, <1>7, <2>1, <2>2
  <2>3. CASE pc.server = "write" /\ Begun("client") = Len(replied) + 1
    <3>1. out.server # <<>>
      BY <1>1, <2>3 DEF Control, Writing, End
    <3>2. Rest("client") # <<>>
      BY <1>1, <3>1, Emptied DEF End, Peer
    <3>3. Fetched + 1 # Begun("client")
      <4>1. Fetched + 1 = Begun("client") => Rest("client") = <<>>
        BY <1>3, StreamEnds
      <4> QED
        BY <3>2, <4>1
    <3> QED
      BY <1>3, <1>7, <2>1, <2>3, <3>3
  <2> QED
    BY <2>2, <2>3 DEF Begun
<1> QED
  BY <1>3, <1>7, <1>9, <1>10, <1>11, <1>12, <1>13, ClientStepKeeps

LEMMA ClientReadFailsKeeps ==
  ASSUME IInv, ClientReadFails
  PROVE  IInv'
<1>1. Control /\ Handling /\ Answering /\ InStep("client")
  BY DEF IInv
<1>2. PICK err \in ReadError("client") :
        IF todo[1].op = "end" /\ err = "EOF"
        THEN /\ todo' = Drop(todo, 1) /\ pc' = [pc EXCEPT !["client"] = "next"]
             /\ UNCHANGED <<pipe, got, need, out, conn, message, program, service, outcome,
                            clock, handled, replied, logged>>
        ELSE ClientClose("fail") /\ UNCHANGED <<got, todo>>
  BY DEF ClientReadFails, Goto, ioVars, histVars
<1>3. /\ pc.client \in {"prefix", "payload"} /\ Len(got.client) < need.client
      /\ conn.client = "open"
      /\ err \in {"EOF", "unexpected EOF"} =>
           conn.server = "closed" /\ pipe.client = <<>> /\ ((err = "EOF") = (got.client = <<>>))
      /\ err = "reset" => conn.server = "closed" /\ pipe.server # <<>>
      /\ err = "timeout" => clock = "late"
      /\ err \in {"EOF", "unexpected EOF", "reset", "timeout"}
  BY DEF ReadError, Peer
<1>4. service = "protocol" /\ todo # <<>> /\ todo[1].op \in {"reply", "end"}
  BY <1>1, <1>3 DEF Control, Script, Places, Typed, TypeOK
<1>5. CASE /\ todo[1].op = "end" /\ err = "EOF"
           /\ todo' = Drop(todo, 1) /\ pc' = [pc EXCEPT !["client"] = "next"]
           /\ UNCHANGED <<pipe, got, need, out, conn, message, program, service, outcome,
                          clock, handled, replied, logged>>
  <2>1. /\ Fetched = Begun("client") /\ Begun("client") = Len(replied)
        /\ Rest("client") = <<>>
    BY <1>3, <1>5, ClientStarved
  <2>2. /\ Pos' \in 0 .. Len(program) /\ todo' = Drop(program, Pos')
        /\ Written' = Written /\ Fetched' = Fetched
    <3>1. /\ Pos' \in 0 .. Len(program) /\ todo' = Drop(program, Pos')
          /\ Written' = Written + IF todo[1].op = "send" THEN 1 ELSE 0
          /\ Fetched' = Fetched + IF todo[1].op = "reply" THEN 1 ELSE 0
      BY <1>1, <1>4, <1>5, Advance DEF Control
    <3>2. Written \in Nat /\ Fetched \in Nat
      BY <1>1, ScriptFacts DEF Control
    <3> QED
      BY <1>5, <3>1, <3>2
  <2>3. /\ pc'.client = "next" /\ pc'.server = pc.server
        /\ pc' \in [End -> {"next", "loop", "prefix", "payload", "dispatch", "write",
                            "wrote", "closed"}]
    BY <1>1, <1>5 DEF Control, Typed, TypeOK, End
  <2>4. ClientStep
    BY <1>3, <1>5, <2>3 DEF ClientStep
  <2>5. Typed'
    BY <1>1, <1>5, <2>3 DEF Control, Typed, TypeOK
  <2>6. Script'
    BY <1>1, <1>5, <2>2, <2>3 DEF Control, Script
  <2>7. InStep("client")'
    <3>1. Taken("client")' = Fetched /\ Begun("client")' = Fetched
      BY <1>5, <2>1, <2>2, <2>3 DEF Taken, Begun
    <3>2. Rest("client")' = <<>>
      BY <1>5, <2>1 DEF Rest
    <3>3. Fetched \in Nat
      BY <1>1, ScriptFacts DEF Control
    <3>4. Stream(<<>>, Line("client")', Fetched, Fetched)
      BY <3>3, StreamStart
    <3> QED
      BY <2>3, <3>1, <3>2, <3>4 DEF InStep, Ready
  <2>8. Fetched' <= Len(replied)
    BY <1>1, <2>2 DEF Answering
  <2> QED
    BY <1>4, <2>2, <2>4, <2>5, <2>6, <2>7, <2>8, ClientStepKeeps
<1>6. CASE /\ ~(todo[1].op = "end" /\ err = "EOF")
           /\ ClientClose("fail") /\ UNCHANGED <<got, todo>>
  <2>1. ASSUME Clean PROVE FALSE
    <3>1. conn.server = "closed"
      BY <1>3, <2>1 DEF Clean
    <3>2. pipe.server = <<>> /\ Len(replied) = Replies
      BY <1>1, <1>3, <2>1, <3>1 DEF IInv, Smooth, Control, Sockets
    <3>3. err \in {"EOF", "unexpected EOF"} /\ pipe.client = <<>>
      BY <1>3, <2>1, <3>2 DEF Clean
    <3>4. Fetched = Replies /\ got.client = <<>>
      BY <1>3, <3>1, <3>2, <3>3, ClientStarved
    <3>5. err = "EOF" /\ todo[1].op = "reply"
      BY <1>3, <1>4, <1>6, <3>3, <3>4
    <3>6. Fetched + 1 \in 1 .. Replies /\ Replies \in Nat
      BY <1>1, <1>4, <3>5, AtOperation, ScriptFacts DEF Control
    <3> QED
      BY <3>4, <3>6
  <2> QED
    BY <1>3, <1>6, <2>1, ClientGivesUp
<1> QED
  BY <1>2, <1>5, <1>6

LEMMA ClientSendKeeps ==
  ASSUME IInv, ClientSend
  PROVE  IInv'
<1> DEFINE m == todo[1].message
<1>1. Control /\ Handling /\ Answering /\ InStep("server") /\ InStep("client")
  BY DEF IInv
<1>2. /\ pc.client = "next" /\ todo # <<>> /\ todo[1].op = "send"
      /\ out' = [out EXCEPT !.client = Frame(m)] /\ todo' = Drop(todo, 1)
      /\ pc' = [pc EXCEPT !["client"] = "write"]
      /\ UNCHANGED <<pipe, got, need, conn, message, program, service, outcome, clock,
                     handled, replied, logged>>
  BY DEF ClientSend, Goto, histVars
<1>3. /\ Written + 1 \in 1 .. Len(Sent) /\ Sent[Written + 1] = m /\ Framable(m)
      /\ Written \in Nat /\ Len(Sent) \in Nat
  BY <1>1, <1>2, AtOperation, ScriptFacts DEF Control
<1> HIDE DEF m
<1>4. /\ Pos' \in 0 .. Len(program) /\ todo' = Drop(program, Pos')
      /\ Written' = Written + 1 /\ Fetched' = Fetched
  <2>1. /\ Pos' \in 0 .. Len(program) /\ todo' = Drop(program, Pos')
        /\ Written' = Written + IF todo[1].op = "send" THEN 1 ELSE 0
        /\ Fetched' = Fetched + IF todo[1].op = "reply" THEN 1 ELSE 0
    BY <1>1, <1>2, Advance DEF Control
  <2>2. Fetched \in Nat
    BY <1>1, ScriptFacts DEF Control
  <2> QED
    BY <1>2, <2>1, <2>2
<1>5. /\ Sent' = Sent /\ Line("server")' = Line("server") /\ Line("client")' = Line("client")
  BY <1>2, SameLine DEF End
<1>6. /\ pc'.client = "write" /\ pc'.server = pc.server
      /\ pc' \in [End -> {"next", "loop", "prefix", "payload", "dispatch", "write",
                          "wrote", "closed"}]
  BY <1>1, <1>2 DEF Control, Typed, TypeOK, End
<1>7. Frame(m) \in Bytes /\ Frame(m) # <<>>
  <2>1. Frame(m) \in Bytes /\ Len(Frame(m)) = 2 + Size(m) /\ Size(m) \in Nat
    BY <1>3, FrameFacts
  <2> QED
    BY <2>1, NoBytes
<1>8. out' \in [End -> Bytes] /\ out'.client = Frame(m) /\ out'.server = out.server
  BY <1>1, <1>2, <1>7 DEF Control, Typed, TypeOK, End
<1>9. out.client = <<>>
  BY <1>1, <1>2 DEF Control, Writing, End
<1>10. Control'
  <2>1. Typed'
    BY <1>1, <1>2, <1>6, <1>8 DEF Control, Typed, TypeOK
  <2>2. Places'
    BY <1>1, <1>2, <1>6 DEF Control, Places
  <2>3. Sockets'
    BY <1>1, <1>2, <1>6, <1>8 DEF Control, Sockets
  <2>4. Writing'
    BY <1>1, <1>2, <1>6, <1>7, <1>8 DEF Control, Writing, End
  <2>5. Script'
    BY <1>1, <1>2, <1>4, <1>6 DEF Control, Script
  <2> QED
    BY <2>1, <2>2, <2>3, <2>4, <2>5 DEF Control
<1>11. Handling'
  <2>1. Len(handled) \in Nat /\ Len(handled) <= Written'
    BY <1>1, <1>3, <1>4, Numbers DEF Handling
  <2>2. pc.server = "dispatch" /\ service = "protocol" => Len(handled) < Written'
    BY <1>1, <1>3, <1>4, <2>1 DEF Handling
  <2> QED
    BY <1>1, <1>2, <1>5, <1>6, <2>1, <2>2 DEF Handling
<1>12. Answering'
  BY <1>1, <1>2, <1>4, <1>6 DEF Answering
<1>13. InStep("client")'
  <2>1. Stream(Rest("client"), Line("client"), Taken("client"), Begun("client"))
    BY <1>1, <1>2 DEF InStep, Ready
  <2>2. Taken("client")' = Taken("client") /\ Begun("client")' = Begun("client")
    BY <1>2, <1>4, <1>6 DEF Taken, Begun
  <2>3. Rest("client")' = Rest("client")
    BY <1>2, <1>8 DEF Rest, Peer
  <2> QED
    BY <1>5, <1>6, <2>1, <2>2, <2>3 DEF InStep, Ready
<1>14. InStep("server")'
  <2>1. CASE pc.server = "closed"
    BY <1>6, <2>1 DEF InStep, Ready
  <2>2. CASE pc.server # "closed"
    <3> DEFINE place == pc["server"]
               g == got["server"]
               n == need["server"]
               rest == Rest("server")
               line == Line("server")
               j == Taken("server")
               k == Written
    <3>1. Rest("server")' = Join(rest, Frame(line[k + 1]))
      <4>1. pipe.server \in Bytes
        BY <1>1, BytesFacts DEF End
      <4>2. rest = pipe.server
        BY <1>9, <4>1, NoBytes DEF Rest, Peer
      <4>3. line[k + 1] = m
        BY <1>1, <1>3, LineFacts DEF Control
      <4> QED
        BY <1>2, <1>8, <4>2, <4>3 DEF Rest, Peer
    <3>2. /\ g \in Bytes /\ rest \in Bytes /\ j \in Nat /\ k \in Nat /\ j <= k
          /\ place # "closed" /\ Ready(place, g, n, rest, line, j, k)
          /\ Framable(line[k + 1])
      <4>1. Begun("server") = k
        BY DEF Begun
      <4>2. Framable(line[k + 1])
        BY <1>1, <1>3, LineFacts DEF Control, End
      <4> QED
        BY <1>1, <2>2, <4>1, <4>2, BytesFacts, Numbers DEF InStep, End
    <3>3. place = "payload" => Framable(line[j + 1])
      <4>1. place = "payload" => j < k
        BY <3>2 DEF Ready
      <4>2. j < k => j + 1 \in 1 .. Len(Sent)
        BY <1>3, <3>2
      <4> QED
        BY <1>1, <4>1, <4>2, LineFacts DEF Control, End
    <3> HIDE DEF place, g, n, rest, line, j, k
    <3>4. Ready(place, g, n, Join(rest, Frame(line[k + 1])), line, j, k + 1)
      BY ONLY <3>2, <3>3, ReadyGrows
    <3>5. Begun("server")' = k + 1 /\ Taken("server")' = j
      BY <1>2, <1>4, <1>6 DEF Begun, Taken, j, k
    <3> QED
      BY <1>2, <1>5, <1>6, <3>1, <3>4, <3>5 DEF InStep, place, g, n, line
  <2> QED
    BY <2>1, <2>2
<1>15. outcome' # "wrong" /\ PrinterDone' /\ Smooth'
  <2>1. Clean /\ pc.server = "closed" /\ conn.client = "open" => Written = Len(Sent)
    BY DEF IInv, Smooth
  <2>2. Written # Len(Sent)
    BY <1>3
  <2> QED
    BY <1>2, <1>6, <2>1, <2>2, GoesOn
<1> QED
  BY <1>10, <1>11, <1>12, <1>13, <1>14, <1>15 DEF IInv

-----------------------------------------------------------------------------
(* The invariant.                                                          *)

\* Time passes, or nothing happens.
LEMMA WaitKeeps ==
  ASSUME IInv, clock' \in {clock, "late"},
         UNCHANGED <<service, pc, ioVars, conn, message, program, todo, outcome, histVars>>
  PROVE  IInv'
<1>1. Control /\ Handling /\ Answering /\ InStep("server") /\ InStep("client")
  BY DEF IInv
<1>2. UNCHANGED <<service, pc, pipe, got, need, out, conn, message, program, todo, outcome,
                  handled, replied, logged>>
  BY DEF ioVars, histVars
<1>3. /\ Pos' = Pos /\ Written' = Written /\ Fetched' = Fetched /\ Sent' = Sent
      /\ Replies' = Replies /\ \A e \in End : Taken(e)' = Taken(e) /\ Begun(e)' = Begun(e)
  <2>1. /\ Pos' = Pos /\ Written' = Written /\ Fetched' = Fetched /\ Sent' = Sent
        /\ Replies' = Replies
    BY <1>2, SameScript, SameLine
  <2> QED
    BY <1>2, <2>1 DEF Taken, Begun
<1>4. Control'
  <2>1. Typed'
    BY <1>1, <1>2 DEF Control, Typed, TypeOK
  <2>2. Places' /\ Sockets' /\ Writing' /\ Script'
    BY <1>1, <1>2, <1>3 DEF Control, Places, Sockets, Writing, Script
  <2> QED
    BY <2>1, <2>2 DEF Control
<1>5. Handling' /\ Answering'
  BY <1>1, <1>2, <1>3 DEF Handling, Answering
<1>6. InStep("server")' /\ InStep("client")'
  <2>1. ASSUME NEW e \in End, InStep(e) PROVE InStep(e)'
    <3>1. Rest(e)' = Rest(e)
      BY <1>2 DEF Rest
    <3> QED
      BY <1>2, <1>3, <2>1, <3>1, SameStep
  <2> QED
    BY <1>1, <2>1 DEF End
<1>7. outcome' # "wrong" /\ PrinterDone' /\ Smooth'
  <2>1. outcome' # "wrong"
    BY <1>2 DEF IInv
  <2>2. PrinterDone'
    BY <1>2, <1>3 DEF IInv, PrinterDone
  <2>3. Smooth'
    <3>1. Clean' => Clean
      BY <1>2, <1>3 DEF Clean
    <3> QED
      BY <1>2, <1>3, <3>1 DEF IInv, Smooth
  <2> QED
    BY <2>1, <2>2, <2>3
<1> QED
  BY <1>4, <1>5, <1>6, <1>7 DEF IInv

LEMMA InvariantStarts ==
  ASSUME Init
  PROVE  IInv
<1>1. /\ pc = [client |-> "next", server |-> "loop"]
      /\ pipe = [e \in End |-> <<>>] /\ got = [e \in End |-> <<>>]
      /\ need = [e \in End |-> 0] /\ out = [e \in End |-> <<>>]
      /\ conn = [e \in End |-> "open"] /\ message = [e \in End |-> NoMessage]
      /\ todo = program /\ outcome = "running" /\ clock = "early"
      /\ handled = <<>> /\ replied = <<>> /\ logged = FALSE
      /\ service \in {"protocol", "framing"}
      /\ program \in (IF service = "protocol" THEN Program ELSE Frames)
  BY DEF Init
<1>2. /\ program \in Program \cup Frames /\ Len(program) \in Nat
      /\ program \in Seq(Operation)
  <2>1. program \in Program \cup Frames
    BY <1>1
  <2> QED
    BY <2>1, ProgramFacts
<1>3. Pos = 0 /\ Written = 0 /\ Fetched = 0
  BY <1>1, <1>2, CountFacts DEF Pos, Written, Fetched
<1>4. Control
  <2>1. Typed
    <3>1. NoMessage \in Message /\ <<>> \in Bytes /\ <<>> \in Seq(Message) /\ Len(<<>>) = 0
      BY NoBytes DEF Message
    <3>2. 0 \in 0 .. 2 \cup 0 .. MaxFrame /\ 0 <= PipeSize
      BY FramedAssumption
    <3>3. /\ pipe \in [End -> Bytes] /\ got \in [End -> Bytes] /\ out \in [End -> Bytes]
          /\ message \in [End -> Message] /\ need \in [End -> 0 .. 2 \cup 0 .. MaxFrame]
          /\ conn \in [End -> {"open", "closed", "vanished"}]
      BY <1>1, <3>1, <3>2
    <3>4. \A e \in End : Len(got[e]) <= need[e] /\ Len(pipe[e]) <= PipeSize
      <4>1. \A e \in End : got[e] = <<>> /\ need[e] = 0 /\ pipe[e] = <<>>
        BY <1>1
      <4> QED
        BY <3>1, <3>2, <4>1
    <3>5. pc \in [End -> {"next", "loop", "prefix", "payload", "dispatch", "write",
                         "wrote", "closed"}]
      BY <1>1 DEF End
    <3>6. handled \in Seq(Message) /\ replied \in Seq(Message)
      BY <1>1, <3>1
    <3> QED
      BY <1>1, <3>3, <3>4, <3>5, <3>6 DEF Typed, TypeOK
  <2>2. Places /\ Sockets /\ Writing
    BY <1>1 DEF Places, Sockets, Writing, End
  <2>3. Script
    <3>1. program = Drop(program, 0)
      <4>1. \A i \in 1 .. Len(program) : program[i] \in Operation
        BY <1>2, ElementOfSeq
      <4>2. /\ SubSeq(program, 1, Len(program)) \in Seq(Operation)
            /\ Len(SubSeq(program, 1, Len(program)))
                 = IF 1 <= Len(program) THEN Len(program) - 1 + 1 ELSE 0
            /\ \A i \in 1 .. Len(program) - 1 + 1 :
                 SubSeq(program, 1, Len(program))[i] = program[1 + i - 1]
        BY <1>2, <4>1, SubSeqProperties
      <4>3. Len(SubSeq(program, 1, Len(program))) = Len(program)
            /\ \A i \in 1 .. Len(program) : SubSeq(program, 1, Len(program))[i] = program[i]
        BY <1>2, <4>2
      <4>4. SubSeq(program, 1, Len(program)) = program
        BY <1>2, <4>2, <4>3, SeqEqual
      <4> QED
        BY <4>4 DEF Drop
    <3> QED
      BY <1>1, <1>2, <1>3, <3>1 DEF Script
  <2> QED
    BY <2>1, <2>2, <2>3 DEF Control
<1>5. Len(handled) = 0 /\ Len(replied) = 0
  BY <1>1
<1>6. Handling /\ Answering
  BY <1>1, <1>3, <1>5 DEF Handling, Answering
<1>7. ASSUME NEW e \in End PROVE InStep(e)
  <2>1. Taken(e) = 0 /\ Begun(e) = 0
    BY <1>1, <1>3, <1>5 DEF Taken, Begun, End
  <2>2. Rest(e) = <<>>
    <3>1. pipe[e] = <<>> /\ out[Peer(e)] = <<>>
      BY <1>1 DEF Peer, End
    <3> QED
      BY <3>1, NoBytes DEF Rest
  <2>3. Stream(<<>>, Line(e), 0, 0)
    BY StreamStart
  <2> QED
    BY <1>1, <2>1, <2>2, <2>3 DEF InStep, Ready, End
<1>8. outcome # "wrong" /\ PrinterDone /\ Smooth
  BY <1>1 DEF PrinterDone, Smooth
<1> QED
  BY <1>4, <1>6, <1>7, <1>8 DEF IInv, End

LEMMA InvariantKept ==
  ASSUME IInv, [Next]_vars
  PROVE  IInv'
<1>1. CASE Server
  <2>1. "server" \in End
    BY DEF End
  <2> QED
    BY <1>1, <2>1, ServerLoopKeeps, ServerPrefixKeeps, ServerPayloadKeeps,
       ServerPrintsKeeps, ServerReadFailsKeeps, ServerDispatchKeeps, ServerWriteKeeps,
       ServerWriteFailsKeeps, ServerWroteKeeps, ReadSomeKeeps DEF Server
<1>2. CASE Client
  <2>1. "client" \in End
    BY DEF End
  <2> QED
    BY <1>2, <2>1, ClientPassKeeps, ClientSendKeeps, ClientTooLargeKeeps,
       ClientWriteKeeps, ClientWriteFailsKeeps, ClientReadKeeps, ClientPrefixKeeps,
       ClientPayloadKeeps, ClientReadFailsKeeps, ReadSomeKeeps DEF Client
<1>3. CASE Tick
  BY <1>3, WaitKeeps DEF Tick
<1>4. CASE Vanish
  BY <1>4, VanishKeeps
<1>5. CASE UNCHANGED vars
  BY <1>5, WaitKeeps DEF vars
<1> QED
  BY <1>1, <1>2, <1>3, <1>4, <1>5 DEF Next

\* Whatever pieces the frames travel in, and whenever an end closes, vanishes or
\* gives up: what an end has of a frame and what is on its way continue each
\* other, and what is handled, answered and read is a prefix of what was sent.
THEOREM Invariant == Spec => []IInv
<1>1. Init => IInv
  BY InvariantStarts
<1>2. IInv /\ [Next]_vars => IInv'
  BY InvariantKept
<1> QED
  BY <1>1, <1>2, PTL DEF Spec

\* Every variable has its type, no ReadFull asks for more than the largest frame,
\* and no buffer overflows (protocol.go:67).
THEOREM TypeCorrect == Spec => []TypeOK
<1>1. IInv => TypeOK
  BY DEF IInv, Control, Typed
<1> QED
  BY <1>1, Invariant, PTL

\* For every experiment, split of its frames and order of events: the requests are
\* handled once each, in the order sent, and answered one by one; a request that
\* is not valid is the last; and the framing server prints all there is.
THEOREM RequestsInOrder == Spec => []ServedInOrder
<1>1. ASSUME IInv PROVE ServedInOrder
  <2>1. Control /\ Handling /\ Answering /\ PrinterDone
    BY <1>1 DEF IInv
  <2>2. /\ Len(handled) \in Nat /\ Len(handled) <= Len(Sent) /\ Len(Sent) \in Nat
        /\ handled \in Seq(Message) /\ replied \in Seq(Message)
    BY <2>1, Numbers, ScriptFacts DEF Control, Typed
  <2>3. DOMAIN handled = 1 .. Len(handled) /\ DOMAIN replied = 1 .. Len(replied)
    BY <2>2
  <2>4. TypeOK
    BY <2>1 DEF Control, Typed
  <2>5. \A i \in DOMAIN handled : handled[i] = Sent[i]
    BY <2>1, <2>3 DEF Handling
  <2>6. ASSUME service = "protocol"
        PROVE  /\ Len(replied) \in {Len(handled), Len(handled) - 1}
               /\ \A i \in DOMAIN replied : replied[i] = Answer(handled[i])
               /\ \A i \in DOMAIN handled : ~Malformed(handled[i])
               /\ \A i \in DOMAIN handled : i < Len(handled) => Valid(handled[i])
    <3>1. ASSUME NEW i \in DOMAIN handled PROVE ~Malformed(handled[i])
      <4>1. i \in 1 .. Len(Sent) /\ i \in 1 .. Len(handled)
        BY <2>2, <2>3
      <4>2. Framable(Sent[i])
        BY <2>1, <4>1, LineFacts DEF Control, End
      <4>3. Decodes(Payload(Sent[i]))
        BY <2>1, <2>5, <2>6, <4>1 DEF Handling
      <4> QED
        BY <2>5, <4>2, <4>3, DecodedMessage
    <3> QED
      BY <2>1, <2>3, <2>6, <3>1 DEF Answering, Handling
  <2>7. ASSUME service = "framing", pc.server = "closed", outcome = "pass"
        PROVE  \/ clock = "late"
               \/ handled = Sent /\ ~logged
               \/ logged /\ Size(Sent[Len(handled) + 1]) > MaxFrame
    BY <2>1, <2>7 DEF PrinterDone
  <2> QED
    BY <2>2, <2>4, <2>5, <2>6, <2>7 DEF ServedInOrder
<1> QED
  BY <1>1, Invariant, PTL

\* For every experiment that is sound, the client's verdict is true: it never gets
\* an answer that is not its request's; it passes only if the server handled and
\* answered all that it wants answered; and it fails only by time, by leaving, by
\* a frame that does not fit, or when two requests are outstanding at a time.
THEOREM VerdictTrue == Spec => []VerdictIsTrue
<1>1. ASSUME IInv PROVE VerdictIsTrue
  <2>1. Control /\ Handling /\ Answering /\ Smooth
    BY <1>1 DEF IInv
  <2>2. ASSUME outcome = "pass", service = "protocol"
        PROVE  Len(handled) = Replies /\ Len(replied) = Len(handled)
    <3>1. Fetched = Replies
      <4>1. todo = <<>> /\ Len(program) \in Nat
        BY <2>1, <2>2, ScriptFacts DEF Control, Sockets
      <4>2. Pos = Len(program)
        BY <4>1 DEF Pos
      <4> QED
        BY <4>2 DEF Fetched, Replies
    <3>2. /\ Len(handled) \in Nat /\ Len(replied) \in Nat /\ Len(replied) <= Len(handled)
          /\ Fetched <= Len(replied) /\ Fetched \in Nat
      BY <2>1, Numbers, ScriptFacts DEF Answering, Control
    <3>3. Len(handled) <= Replies
      BY <1>1, <2>2, HandledWithinReplies
    <3> QED
      BY <3>1, <3>2, <3>3
  <2>3. ASSUME outcome = "fail", clock # "late", conn.client # "vanished",
               ~\E i \in DOMAIN Sent : Size(Sent[i]) > MaxFrame \/ Size(Answer(Sent[i])) > MaxFrame
        PROVE  /\ service = "protocol"
               /\ \E i \in 1 .. Len(program) - 1 :
                    program[i].op = "send" /\ program[i + 1].op = "send"
    <3>1. clock = "early"
      BY <2>1, <2>3 DEF Control, Typed, TypeOK
    <3>2. ASSUME NEW i \in 1 .. Len(Sent)
          PROVE  Size(Sent[i]) <= MaxFrame /\ Size(Answer(Sent[i])) <= MaxFrame
      <4>1. Framable(Sent[i]) /\ Framable(Answer(Sent[i]))
        BY <2>1, LineFacts DEF Control, End
      <4>2. Size(Sent[i]) \in Nat /\ Size(Answer(Sent[i])) \in Nat /\ MaxFrame \in Int
        BY <4>1, FrameFacts, FramedAssumption
      <4>3. i \in DOMAIN Sent
        BY <2>1, ScriptFacts DEF Control
      <4> QED
        BY <2>3, <4>2, <4>3
    <3>3. ~(service = "protocol" => OneByOne(program))
      BY <2>1, <2>3, <3>1, <3>2 DEF Smooth, Clean
    <3> QED
      BY <3>3 DEF OneByOne
  <2>4. FailsOnlyByTime
    BY <2>3 DEF FailsOnlyByTime
  <2> QED
    BY <1>1, <2>2, <2>4 DEF VerdictIsTrue, IInv, Replies
<1> QED
  BY <1>1, Invariant, PTL

=============================================================================
