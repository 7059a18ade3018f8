----------------------------- MODULE MCDnsWire -----------------------------
(***************************************************************************)
(* The messages DnsWire is checked with, the decoding by definition, and   *)
(* the lookups whose queries and replies are among the messages.           *)
(***************************************************************************)
EXTENDS DnsWire, DnsQuery, SequencesExt

-----------------------------------------------------------------------------
(* Messages.                                                               *)

StringsUpTo(n, S) == UNION {[1 .. k -> S] : k \in 0 .. n}
Fields == <<0, 1, 0, 1>>

\* Every short string where the question's name starts.  12 and 14 are label
\* lengths too long, positions for a pointer, and contents of labels.
NameSoup == {Header(7, 0, 0) \o s \o f :
               s \in StringsUpTo(5, {0, 1, 2, 12, 14, 192}), f \in {<<>>, Fields}}

\* Names before and behind others: the root, a label, a label with a dot, a
\* pointer back, at itself, past the end, into the header, behind a label, a
\* chain, a label of a reserved length, the longest name and one too long.
Names == {<<0>>, <<1, 97, 0>>, <<3, 97, 46, 98, 0>>, <<192, 12>>, <<192, 19>>,
          <<193, 0>>, <<192, 4>>, <<1, 98, 192, 12>>, <<64, 97, 0>>,
          <<3, 97, 98, 99, 2, 97, 98, 0>>, <<3, 97, 98, 99, 3, 97, 98, 99, 0>>}

\* Records with a declared and an actual length of RDATA.
Records == {name \o Fields \o <<0, 0, 0, 9>> \o PutUint16(rd[1])
              \o [i \in 1 .. rd[2] |-> i] :
              name \in Names, rd \in {<<0, 0>>, <<4, 4>>, <<4, 2>>, <<1, 4>>}}

Counts == {<<1, 1, 0, 0>>, <<1, 0, 0, 1>>, <<0, 1, 1, 0>>, <<1, 1, 1, 0>>,
           <<256, 0, 0, 0>>}

\* Whole messages, every cut of some, and counts that do not fit the items.
Structured ==
  LET declared(c) == PutUint16(7) \o PutUint16(0)
                       \o FlattenSeq([i \in 1 .. 4 |-> PutUint16(c[i])])
      whole(c, q, r) == declared(c) \o q \o Fields \o r
  IN  {whole(c, q, r) : c \in Counts, q \in Names, r \in Records}
        \cup UNION {Prefixes(whole(<<1, 1, 0, 0>>, <<1, 97, 0>>, r)) : r \in Records}

-----------------------------------------------------------------------------
(* Lookups: what is asked, and what an honest server replies.              *)

Labels == {<<>>, <<97>>, <<66>>, <<97, 98>>, <<97, 98, 99>>, <<97, 98, 99, 100>>}

\* Names as a caller writes them, but for "".
Texts == {[labels |-> l, dot |-> d] :
            l \in UNION {[1 .. k -> Labels] : k \in 1 .. 3}, d \in BOOLEAN}
           \ {[labels |-> <<<<>>>>, dot |-> FALSE]}

Asked(text) == [text |-> text, type |-> TypeA, class |-> ClassIN]

\* The query as it would be without the encoder's checks.
Wire(text) == IF text.labels = <<<<>>>> THEN <<0>> ELSE Labelled(text.labels)
Unchecked(text) == Header(7, FlagRD, 0) \o Question(Wire(text), Asked(text))

Lowered(s) == [i \in 1 .. Len(s) |-> Lower(s[i])]

\* The answers of a reply: an address of the name, by pointer or spelled out in
\* lower case, of another name, a record of another type, an address cut short.
Answer(kind, text) ==
  LET record(name, type, rdata) ==
        name \o PutUint16(type) \o PutUint16(ClassIN) \o <<0, 0, 0, 9>>
          \o PutUint16(Len(rdata)) \o rdata
  IN  CASE kind = "pointed" -> record(<<192, 12>>, TypeA, <<1, 2, 3, 4>>)
        [] kind = "spelled" -> record(Lowered(Wire(text)), TypeA, <<5, 6, 7, 8>>)
        [] kind = "foreign" -> record(<<1, 120, 0>>, TypeA, <<9, 9, 9, 9>>)
        [] kind = "typed"   -> record(<<192, 12>>, 28, <<9, 9, 9, 9>>)
        [] kind = "short"   -> record(<<192, 12>>, TypeA, <<1, 2, 3>>)

Address == [pointed |-> <<1, 2, 3, 4>>, spelled |-> <<5, 6, 7, 8>>]

Kinds == {"pointed", "spelled", "foreign", "typed", "short"}

\* The name is repeated as asked or in lower case.
Hosts == {<<<<>>>>, <<<<66>>>>, <<<<97, 98>>, <<66>>>>, <<<<97, 98, 99>>, <<97, 98>>>>}
Replies == [text : {t \in Texts : t.labels \in Hosts}, lower : BOOLEAN,
            answers : {<<a>> : a \in Kinds} \cup {<<a, b>> : a, b \in Kinds}]

Reply(r) ==
  LET name == IF r.lower THEN Lowered(Wire(r.text)) ELSE Wire(r.text)
  IN  Header(7, FlagQR, Len(r.answers)) \o Question(name, Asked(r.text))
        \o FlattenSeq([i \in 1 .. Len(r.answers) |-> Answer(r.answers[i], r.text)])

\* What the caller is to learn from it.
Addresses(r) ==
  LET named == SelectSeq(r.answers, LAMBDA k : k \in DOMAIN Address)
      sound == "short" \notin ToSet(r.answers)
  IN  [ok |-> sound,
       addresses |-> IF sound THEN [i \in 1 .. Len(named) |-> Address[named[i]]]
                     ELSE <<>>]

\* What is on the wire, with what it was made of.
Queries == {<<Unchecked(t), t>> : t \in Texts}
Sent    == {<<Reply(r), r>> : r \in Replies}

MCMessages == NameSoup \cup Structured \cup {q[1] : q \in Queries}
                \cup {s[1] : s \in Sent}

-----------------------------------------------------------------------------
(* Decoding by definition.                                                 *)

IsPointer(d, i) == d[i + 1] >= 192
Follows(d, i) == IF IsPointer(d, i) THEN (d[i + 1] % 64) * 256 + d[i + 2]
                 ELSE i + 1 + d[i + 1]

\* The positions a name at i goes through, up to a zero, to bytes that are not
\* there, or to more elements than a legal name can have.
RECURSIVE Path(_, _, _)
Path(d, i, n) ==
  IF i >= Len(d) \/ n = 0 THEN <<i>>
  ELSE IF d[i + 1] = 0 \/ (IsPointer(d, i) /\ i + 1 >= Len(d)) THEN <<i>>
  ELSE <<i>> \o Path(d, Follows(d, i), n - 1)

\* The elements of a name's path that are labels, and those that are pointers.
LabelsOf(d, path)   == SelectSeq(Front(path), LAMBDA p : ~IsPointer(d, p))
PointersOf(d, path) == {k \in 1 .. Len(path) - 1 : IsPointer(d, path[k])}

\* A name is legal as a whole: it reaches a zero by few enough pointers.
Legal(d, path) ==
  /\ Last(path) < Len(d) /\ d[Last(path) + 1] = 0
  /\ Cardinality(PointersOf(d, path)) <= MaxJumps
  /\ \A p \in ToSet(LabelsOf(d, path)) : d[p + 1] <= MaxLabel
  /\ FoldSeq(LAMBDA p, sum : sum + 1 + d[p + 1], 1, LabelsOf(d, path)) <= MaxName

Name(d, path) ==
  LET at == LabelsOf(d, path)
  IN  [k \in 1 .. Len(at) |-> SubSeq(d, at[k] + 2, at[k] + 1 + d[at[k] + 1])]

\* Where the item goes on: behind the first pointer, or behind the zero.
InPlaceEnd(d, path) ==
  LET pointers == PointersOf(d, path)
  IN  IF pointers = {} THEN Last(path) + 1 ELSE path[Min(pointers)] + 2

\* The items from position i: count of them in section s, then the next
\* section.  Refused unless each lies in the message.
Number(d, i) == d[i + 1] * 256 + d[i + 2]
RECURSIVE ItemsFrom(_, _, _, _)
ItemsFrom(d, i, s, count) ==
  IF count = 0
  THEN IF s = 4 THEN <<<<>>>>
       ELSE LET rest == ItemsFrom(d, i, s + 1, Number(d, 4 + 2 * s))
            IN  IF rest = Refused THEN Refused ELSE <<<<>>>> \o rest
  ELSE LET path  == Path(d, i, MaxJumps + MaxName)
           at    == InPlaceEnd(d, path)
           fixed == at + (IF s = 1 THEN 4 ELSE 10)
           end   == fixed + (IF s = 1 THEN 0 ELSE Number(d, fixed - 2))
           plain == [name |-> Name(d, path), type |-> Number(d, at),
                     class |-> Number(d, at + 2)]
           item  == IF s = 1 THEN plain
                    ELSE plain @@ [rdata |-> SubSeq(d, fixed + 1, end)]
           rest  == ItemsFrom(d, end, s, count - 1)
       IN  IF Legal(d, path) /\ fixed <= Len(d) /\ end <= Len(d) /\ rest # Refused
           THEN <<<<item>> \o Head(rest)>> \o Tail(rest)
           ELSE Refused

Decoded(d) == IF Len(d) < HeaderSize THEN Refused
              ELSE ItemsFrom(d, HeaderSize, 1, Number(d, 4))

\* The decoder accepts exactly the messages whose declared items lie in them,
\* with names that are legal as a whole: pointers followed in any direction but
\* not too often, each name ending in place where its own bytes end.  What it
\* returns are those items, and nothing on an error.
DecodesByDefinition ==
  state \in {"done", "error"} =>
    LET decoded == Decoded(data)
    IN  /\ (state = "done") = (decoded # Refused)
        /\ message = IF state = "error" THEN Nothing
                     ELSE [id |-> Number(data, 0), flags |-> Number(data, 2),
                           sections |-> decoded]

\* The encoder accepts exactly the names whose query the decoder would read
\* back as the question asked, and the reply of a server that repeats the
\* question in either case gives the caller its addresses, in order, of that
\* name only, and none of a malformed set.
LookupUnderstood ==
  /\ state \in {"done", "error"} /\ Uint16(2) = FlagRD =>
       \A q \in Queries : data = q[1] =>
         (EncodeName(q[2]) # Refused)
           = (state = "done" /\ LET asked == message.sections[1][1]
                             IN  /\ Labelled(asked.name) = Wire(q[2])
                                 /\ asked.type = TypeA /\ asked.class = ClassIN)
  /\ state \in {"done", "error"} /\ Uint16(2) = FlagQR =>
       \A s \in Sent : data = s[1] =>
         /\ state = "done" /\ Validates(message, 7, Asked(s[2].text))
         /\ ExtractARecords(message, Asked(s[2].text)) = Addresses(s[2])
=============================================================================
