---------------------------- MODULE UsageProofs ----------------------------
(***************************************************************************)
(* What is proved of the two components that record usage: of IngestTail,  *)
(* for every number of files, events, limits and bounds, and of            *)
(* UsageSessions, for every set of usage values, every timeout and any     *)
(* number of sessions, with or without failing writes and crashes.         *)
(*                                                                         *)
(* IngestTail rests on IngestInv.  What the agent has read in parts is     *)
(* split into the lines of the file, by the lemma Join, as long as what is *)
(* left of the last read is Alike what is left of the file before the      *)
(* offset; a state taken in a file that was replaced is outdated, and says *)
(* nothing of the new one.                                                 *)
(*                                                                         *)
(* The types of UsageSessions are correct even when runs overlap.  The     *)
(* theorems about sessions assume that they do not (the run                *)
(* UsageSessionsOverlap shows why); they rest on the invariant SingleRun,  *)
(* which says how the identifier a run has in hand, the session of the     *)
(* manager and the row of that session go together at each point.          *)
(***************************************************************************)
EXTENDS IngestTail, UsageSessions, SequenceTheorems, WellFoundedInduction, TLAPS

-----------------------------------------------------------------------------
(* IngestTail: what is split from bytes *)

\* The order of the naturals.
IngestBelow == {p \in Nat \X Nat : p[1] < p[2]}

\* It is well-founded: a set of naturals has a lowest.
LEMMA LowestNat ==
  ASSUME NEW S \in SUBSET Nat, S # {}
  PROVE  \E n \in S : \A m \in S : n <= m
<1>1. IsWellFoundedOn(IngestBelow, Nat)
  BY NatLessThanWellFounded DEF OpToRel, IngestBelow
<1>2. PICK n \in S : \A m \in S : ~(<<m, n>> \in IngestBelow)
  BY <1>1, WFMin
<1>3. ASSUME NEW m \in S PROVE n <= m
  <2>1. ~(<<m, n>> \in IngestBelow) /\ m \in Nat /\ n \in Nat
    BY <1>2
  <2>2. QED
    BY <2>1 DEF IngestBelow
<1>4. QED
  BY <1>3

\* What is split from a sequence of bytes.
Parts == [lines : Seq(Seq(Byte)), rest : Seq(Byte)]
Nothing == [lines |-> <<>>, rest |-> <<>>]

\* What one byte more makes of it.
OneMoreByte(part, b) ==
    IF b = Newline THEN [lines |-> Append(part.lines, part.rest), rest |-> <<>>]
    ELSE [part EXCEPT !.rest = Append(@, b)]

\* g splits the first n bytes of the data, one by one.
SplitsUpTo(g, data, n) ==
    g = [i \in 0 .. n |-> IF i = 0 THEN Nothing ELSE OneMoreByte(g[i - 1], data[i])]

LEMMA OneMoreIsParts ==
  ASSUME NEW part \in Parts, NEW b \in Byte
  PROVE  OneMoreByte(part, b) \in Parts
<1>1. part.lines \in Seq(Seq(Byte)) /\ part.rest \in Seq(Byte)
  BY DEF Parts
<1>2. <<>> \in Seq(Byte) /\ Append(part.rest, b) \in Seq(Byte)
      /\ Append(part.lines, part.rest) \in Seq(Seq(Byte))
  BY <1>1
<1>3. QED
  BY <1>1, <1>2 DEF OneMoreByte, Parts

\* There is such a function.
LEMMA SplitExists ==
  ASSUME NEW data \in Seq(Byte)
  PROVE  \A n \in 0 .. Len(data) : \E g \in [0 .. n -> Parts] : SplitsUpTo(g, data, n)
<1> DEFINE Good(n) == \E g \in [0 .. n -> Parts] : SplitsUpTo(g, data, n)
           bad == {n \in 0 .. Len(data) : ~Good(n)}
<1>1. SUFFICES ASSUME bad # {} PROVE FALSE
  OBVIOUS
<1>2. bad \in SUBSET Nat
  OBVIOUS
<1> HIDE DEF Good
<1>3. PICK n \in bad : \A m \in bad : n <= m
  <2> HIDE DEF bad
  <2>1. QED
    BY <1>1, <1>2, LowestNat
<1>4. CASE n = 0
  <2> DEFINE g == [i \in 0 .. 0 |-> Nothing]
  <2>1. g \in [0 .. 0 -> Parts]
    <3>1. Nothing \in Parts
      BY DEF Nothing, Parts
    <3>2. QED
      BY <3>1
  <2>2. SplitsUpTo(g, data, 0)
    BY DEF SplitsUpTo
  <2> HIDE DEF g
  <2>3. Good(0)
    BY <2>1, <2>2 DEF Good
  <2>4. QED
    BY <1>4, <2>3
<1>5. CASE n # 0
  <2>1. n \in 1 .. Len(data) /\ n - 1 \in 0 .. Len(data) /\ n - 1 \notin bad
    BY <1>3, <1>5
  <2>2. Good(n - 1)
    BY <2>1
  <2>3. PICK h \in [0 .. n - 1 -> Parts] : SplitsUpTo(h, data, n - 1)
    BY <2>2 DEF Good
  <2>4. OneMoreByte(h[n - 1], data[n]) \in Parts
    <3>1. h[n - 1] \in Parts /\ data[n] \in Byte
      BY <2>1, <2>3
    <3>2. QED
      BY <3>1, OneMoreIsParts
  <2> DEFINE g == [i \in 0 .. n |-> IF i = n THEN OneMoreByte(h[n - 1], data[n]) ELSE h[i]]
  <2>5. g \in [0 .. n -> Parts] /\ \A i \in 0 .. n - 1 : g[i] = h[i]
    BY <2>1, <2>3, <2>4
  <2>6. SplitsUpTo(g, data, n)
    <3>1. ASSUME NEW i \in 0 .. n
          PROVE  g[i] = IF i = 0 THEN Nothing ELSE OneMoreByte(g[i - 1], data[i])
      <4>1. CASE i = n
        BY <2>1, <2>5, <4>1
      <4>2. CASE i # n
        <5>1. i \in 0 .. n - 1 /\ (i # 0 => i - 1 \in 0 .. n - 1)
          BY <2>1, <4>2
        <5>2. h[i] = IF i = 0 THEN Nothing ELSE OneMoreByte(h[i - 1], data[i])
          BY <2>3, <5>1 DEF SplitsUpTo
        <5> HIDE DEF g
        <5>3. QED
          BY <2>5, <5>1, <5>2
      <4>3. QED
        BY <4>1, <4>2
    <3>2. g = [i \in 0 .. n |-> g[i]]
      OBVIOUS
    <3> HIDE DEF g
    <3>3. QED
      BY <3>1, <3>2 DEF SplitsUpTo
  <2> HIDE DEF g
  <2>7. Good(n)
    BY <2>5, <2>6 DEF Good
  <2>8. QED
    BY <2>7
<1>6. QED
  BY <1>4, <1>5

\* Two sequences have the same first k bytes.
SameBytes(data, other, k) == \A i \in 1 .. k : data[i] = other[i]

\* Then the same is split from these.
LEMMA SameSplit ==
  ASSUME NEW data, NEW other, NEW n \in Nat, NEW m \in Nat, NEW g, NEW h,
         SplitsUpTo(g, data, n), SplitsUpTo(h, other, m),
         NEW k \in 0 .. n, k <= m, SameBytes(data, other, k)
  PROVE  g[k] = h[k]
<1> DEFINE bad == {i \in 0 .. k : g[i] # h[i]}
<1>1. SUFFICES ASSUME bad # {} PROVE FALSE
  BY <1>1
<1>2. PICK i \in bad : \A j \in bad : i <= j
  <2>1. bad \in SUBSET Nat
    OBVIOUS
  <2> HIDE DEF bad
  <2>2. QED
    BY <1>1, <2>1, LowestNat
<1>3. i \in 0 .. n /\ i \in 0 .. m
  OBVIOUS
<1>4. CASE i = 0
  BY <1>2, <1>3, <1>4 DEF SplitsUpTo
<1>5. CASE i # 0
  <2>1. i - 1 \in 0 .. k /\ i \in 1 .. k /\ i - 1 < i
    BY <1>5
  <2>2. g[i - 1] = h[i - 1]
    BY <1>2, <2>1
  <2>3. g[i] = OneMoreByte(g[i - 1], data[i]) /\ h[i] = OneMoreByte(h[i - 1], other[i])
    BY <1>3, <1>5 DEF SplitsUpTo
  <2>4. data[i] = other[i]
    BY <2>1 DEF SameBytes
  <2>5. QED
    BY <2>2, <2>3, <2>4
<1>6. QED
  BY <1>4, <1>5

\* What is split from data is what such a function says of its length.
LEMMA SplitIsLast ==
  ASSUME NEW data \in Seq(Byte)
  PROVE  \E g \in [0 .. Len(data) -> Parts] :
            SplitsUpTo(g, data, Len(data)) /\ Split(data) = g[Len(data)]
<1> DEFINE split == CHOOSE g : SplitsUpTo(g, data, Len(data))
<1>1. Len(data) \in Nat /\ Len(data) \in 0 .. Len(data)
  OBVIOUS
<1>2. PICK h \in [0 .. Len(data) -> Parts] : SplitsUpTo(h, data, Len(data))
  BY <1>1, SplitExists
<1>3. SplitsUpTo(split, data, Len(data))
  BY <1>2
<1>4. Split(data) = split[Len(data)]
  BY DEF Split, SplitsUpTo, OneMoreByte, Nothing
<1> HIDE DEF split
<1>5. split[Len(data)] = h[Len(data)]
  <2>1. SameBytes(data, data, Len(data))
    BY DEF SameBytes
  <2>2. QED
    BY <1>1, <1>2, <1>3, <2>1, SameSplit
<1>6. QED
  BY <1>2, <1>4, <1>5

\* The first bytes of a sequence.
LEMMA UpToIs ==
  ASSUME NEW s \in Seq(Byte), NEW n \in 0 .. Len(s)
  PROVE  /\ UpTo(n, s) \in Seq(Byte) /\ Len(UpTo(n, s)) = n
         /\ \A i \in 1 .. n : UpTo(n, s)[i] = s[i]
<1>1. Len(s) \in Nat /\ n \in Int /\ 1 \in Int /\ \A i \in 1 .. n : s[i] \in Byte
  OBVIOUS
<1>2. UpTo(n, s) = SubSeq(s, 1, n)
  BY <1>1 DEF UpTo
<1>3. /\ SubSeq(s, 1, n) \in Seq(Byte)
      /\ Len(SubSeq(s, 1, n)) = IF 1 <= n THEN n - 1 + 1 ELSE 0
      /\ \A i \in 1 .. n - 1 + 1 : SubSeq(s, 1, n)[i] = s[1 + i - 1]
  BY <1>1, SubSeqProperties
<1>4. QED
  BY <1>1, <1>2, <1>3

\* All of them.
LEMMA UpToEnd ==
  ASSUME NEW s \in Seq(Byte), NEW n \in Nat, n >= Len(s)
  PROVE  UpTo(n, s) = s
<1>1. UpTo(n, s) = SubSeq(s, 1, Len(s))
  BY DEF UpTo
<1>2. QED
  BY <1>1, SubSeqFull

\* Two sequences with the same bytes have the same first bytes.
LEMMA UpToSame ==
  ASSUME NEW s \in Seq(Byte), NEW t \in Seq(Byte), NEW n \in 0 .. Len(s), n <= Len(t),
         SameBytes(s, t, n)
  PROVE  UpTo(n, s) = UpTo(n, t)
<1>1. /\ UpTo(n, s) \in Seq(Byte) /\ Len(UpTo(n, s)) = n /\ \A i \in 1 .. n : UpTo(n, s)[i] = s[i]
  BY UpToIs
<1>2. /\ UpTo(n, t) \in Seq(Byte) /\ Len(UpTo(n, t)) = n /\ \A i \in 1 .. n : UpTo(n, t)[i] = t[i]
  BY UpToIs
<1>3. \A i \in 1 .. Len(UpTo(n, s)) : UpTo(n, s)[i] = UpTo(n, t)[i]
  BY <1>1, <1>2 DEF SameBytes
<1> DEFINE a == UpTo(n, s)
           b == UpTo(n, t)
<1>4. a \in Seq(Byte) /\ b \in Seq(Byte) /\ Len(a) = Len(b) /\ \A i \in 1 .. Len(a) : a[i] = b[i]
  BY <1>1, <1>2, <1>3
<1> HIDE DEF a, b
<1>5. a = b
  BY <1>4, SeqEqual
<1>6. QED
  BY <1>5 DEF a, b

\* What is split from the first bytes is what such a function says of them.
LEMMA SplitParts ==
  ASSUME NEW s \in Seq(Byte)
  PROVE  \E g \in [0 .. Len(s) -> Parts] :
            SplitsUpTo(g, s, Len(s)) /\ \A n \in 0 .. Len(s) : Split(UpTo(n, s)) = g[n]
<1>1. PICK g \in [0 .. Len(s) -> Parts] : SplitsUpTo(g, s, Len(s))
  BY SplitIsLast
<1>2. ASSUME NEW n \in 0 .. Len(s)
      PROVE  Split(UpTo(n, s)) = g[n]
  <2> DEFINE part == UpTo(n, s)
  <2>1. part \in Seq(Byte) /\ Len(part) = n /\ SameBytes(part, s, n)
    BY UpToIs DEF SameBytes
  <2> HIDE DEF part
  <2>2. PICK h : SplitsUpTo(h, part, n) /\ Split(part) = h[n]
    BY <2>1, SplitIsLast
  <2>3. n \in Nat /\ Len(s) \in Nat /\ n \in 0 .. n /\ n <= Len(s)
    OBVIOUS
  <2>4. h[n] = g[n]
    BY <1>1, <2>1, <2>2, <2>3, SameSplit
  <2>5. QED
    BY <2>2, <2>4 DEF part
<1>3. QED
  BY <1>1, <1>2

\* Of no byte nothing is split.
LEMMA SplitNone ==
  ASSUME NEW s \in Seq(Byte)
  PROVE  SplitLines(UpTo(0, s)) = <<>> /\ Remainder(UpTo(0, s)) = <<>>
<1>1. PICK g \in [0 .. Len(s) -> Parts] :
        SplitsUpTo(g, s, Len(s)) /\ \A n \in 0 .. Len(s) : Split(UpTo(n, s)) = g[n]
  BY SplitParts
<1>2. 0 \in 0 .. Len(s)
  OBVIOUS
<1>3. Split(UpTo(0, s)) = Nothing
  BY <1>1, <1>2 DEF SplitsUpTo
<1>4. QED
  BY <1>3 DEF SplitLines, Remainder, Nothing

\* One byte more makes a line, or a longer rest.
LEMMA SplitStep ==
  ASSUME NEW s \in Seq(Byte), NEW n \in 1 .. Len(s)
  PROVE  IF s[n] = Newline
         THEN /\ SplitLines(UpTo(n, s)) = Append(SplitLines(UpTo(n - 1, s)), Remainder(UpTo(n - 1, s)))
              /\ Remainder(UpTo(n, s)) = <<>>
         ELSE /\ SplitLines(UpTo(n, s)) = SplitLines(UpTo(n - 1, s))
              /\ Remainder(UpTo(n, s)) = Append(Remainder(UpTo(n - 1, s)), s[n])
<1>1. PICK g \in [0 .. Len(s) -> Parts] :
        SplitsUpTo(g, s, Len(s)) /\ \A m \in 0 .. Len(s) : Split(UpTo(m, s)) = g[m]
  BY SplitParts
<1>2. n \in 0 .. Len(s) /\ n # 0 /\ n - 1 \in 0 .. Len(s)
  OBVIOUS
<1>3. g[n] = OneMoreByte(g[n - 1], s[n])
  BY <1>1, <1>2 DEF SplitsUpTo
<1>4. g[n - 1] \in Parts /\ g[n] = Split(UpTo(n, s)) /\ g[n - 1] = Split(UpTo(n - 1, s))
  BY <1>1, <1>2
<1>5. ASSUME NEW part \in Parts, NEW b
      PROVE  /\ [part EXCEPT !.rest = Append(@, b)].lines = part.lines
             /\ [part EXCEPT !.rest = Append(@, b)].rest = Append(part.rest, b)
  BY DEF Parts
<1>6. CASE s[n] = Newline
  <2>1. g[n] = [lines |-> Append(g[n - 1].lines, g[n - 1].rest), rest |-> <<>>]
    BY <1>3, <1>6 DEF OneMoreByte
  <2>2. QED
    BY <1>4, <1>6, <2>1 DEF SplitLines, Remainder
<1>7. CASE s[n] # Newline
  <2>1. g[n] = [g[n - 1] EXCEPT !.rest = Append(@, s[n])]
    BY <1>3, <1>7 DEF OneMoreByte
  <2>2. QED
    BY <1>4, <1>5, <1>7, <2>1 DEF SplitLines, Remainder
<1>8. QED
  BY <1>6, <1>7

\* The types of what is split.
LEMMA SplitTypes ==
  ASSUME NEW s \in Seq(Byte)
  PROVE  SplitLines(s) \in Seq(Seq(Byte)) /\ Remainder(s) \in Seq(Byte)
<1>1. PICK g \in [0 .. Len(s) -> Parts] : Split(s) = g[Len(s)]
  BY SplitIsLast
<1>2. Split(s) \in Parts
  <2>1. Len(s) \in 0 .. Len(s)
    OBVIOUS
  <2>2. QED
    BY <1>1, <2>1
<1>3. QED
  BY <1>2 DEF Parts, SplitLines, Remainder

\* A byte at the end makes a line, or a longer rest; what is before it stays.
LEMMA SplitAppend ==
  ASSUME NEW s \in Seq(Byte), NEW b \in Byte
  PROVE  /\ IF b = Newline
            THEN /\ SplitLines(Append(s, b)) = Append(SplitLines(s), Remainder(s))
                 /\ Remainder(Append(s, b)) = <<>>
            ELSE /\ SplitLines(Append(s, b)) = SplitLines(s)
                 /\ Remainder(Append(s, b)) = Append(Remainder(s), b)
         /\ \A n \in 0 .. Len(s) : UpTo(n, Append(s, b)) = UpTo(n, s)
<1> DEFINE t == Append(s, b)
           k == Len(s) + 1
<1>1. t \in Seq(Byte) /\ Len(t) = k /\ t[k] = b /\ k \in 1 .. Len(t) /\ k - 1 = Len(s) /\ k \in Nat
      /\ \A i \in 1 .. Len(s) : t[i] = s[i]
  OBVIOUS
<1> HIDE DEF t
<1>2. ASSUME NEW n \in 0 .. Len(s)
      PROVE  UpTo(n, t) = UpTo(n, s)
  <2>1. SameBytes(s, t, n) /\ n <= Len(t)
    BY <1>1 DEF SameBytes
  <2>2. QED
    BY <1>1, <2>1, UpToSame
<1>3. UpTo(k, t) = t /\ UpTo(k - 1, t) = s
  <2>1. UpTo(Len(s), s) = s /\ Len(s) \in 0 .. Len(s)
    BY UpToEnd
  <2>2. UpTo(k, t) = t
    BY <1>1, UpToEnd
  <2>3. QED
    BY <1>1, <1>2, <2>1, <2>2
<1> HIDE DEF k
<1>4. IF t[k] = Newline
      THEN /\ SplitLines(UpTo(k, t)) = Append(SplitLines(UpTo(k - 1, t)), Remainder(UpTo(k - 1, t)))
           /\ Remainder(UpTo(k, t)) = <<>>
      ELSE /\ SplitLines(UpTo(k, t)) = SplitLines(UpTo(k - 1, t))
           /\ Remainder(UpTo(k, t)) = Append(Remainder(UpTo(k - 1, t)), t[k])
  BY <1>1, SplitStep
<1>5. QED
  BY <1>1, <1>2, <1>3, <1>4 DEF t

\* Lines of padding, of any length.
Pads == Seq({Pad})

\* What a file may have after a newline: padding, or the bytes of an event that are
\* written by now.  A complete line is padding or an event.
RestOK(r) == r \in Pads \/ \E e \in Events : r = <<<<e, 1>>>> \/ r = EventLine(e)
LineOK(l) == l \in Pads \/ \E e \in Events : l = EventLine(e)

\* What the agent has of a line may differ from the line, in the length of padding.
Alike(r, p) == r = p \/ (r \in Pads \ {<<>>} /\ p \in Pads)

\* The three kinds of bytes differ.
LEMMA BytesDiffer ==
  /\ Newline # Pad /\ Newline \in Byte /\ Pad \in Byte
  /\ \A e, h : <<e, h>> # Newline /\ <<e, h>> # Pad
<1>1. Newline # Pad
  BY DEF Newline, Pad
<1>2. ASSUME NEW e, NEW h PROVE <<e, h>> # Newline /\ <<e, h>> # Pad
  <2>1. Len(<<e, h>>) = 2 /\ Len(Newline) = 1 /\ Len(Pad) = 1
    BY DEF Newline, Pad
  <2>2. QED
    BY <2>1
<1>3. QED
  BY <1>1, <1>2 DEF Byte

\* A line of padding is no event, and no newline is in it.
LEMMA PadsIs ==
  ASSUME NEW p \in Pads
  PROVE  /\ p \in Seq(Byte) /\ Append(p, Pad) \in Pads
         /\ \A i \in 1 .. Len(p) : p[i] = Pad
         /\ Parse(p) = Invalid
<1>1. p \in Seq({Pad}) /\ Append(p, Pad) \in Pads /\ \A i \in 1 .. Len(p) : p[i] = Pad
  BY DEF Pads
<1>2. p \in Seq(Byte)
  <2>1. Len(p) \in Nat /\ p \in [1 .. Len(p) -> {Pad}]
    BY <1>1
  <2>2. p \in [1 .. Len(p) -> Byte]
    BY <2>1, BytesDiffer
  <2>3. QED
    BY <2>1, <2>2
<1>3. ASSUME NEW e \in Events, p = EventLine(e)
      PROVE  FALSE
  <2>1. Len(p) = 2 /\ p[1] = <<e, 1>>
    BY <1>3 DEF EventLine
  <2>2. QED
    BY <1>1, <2>1, BytesDiffer
<1>4. QED
  BY <1>1, <1>2, <1>3 DEF Parse

\* The line of an event is its own.
LEMMA EventLineIs ==
  ASSUME NEW e \in Events
  PROVE  EventLine(e) \in Seq(Byte) /\ Parse(EventLine(e)) = e /\ Len(EventLine(e)) = 2
<1>1. EventLine(e) \in Seq(Byte) /\ Len(EventLine(e)) = 2
  <2>1. <<e, 1>> \in Byte /\ <<e, 2>> \in Byte
    BY DEF Byte
  <2>2. QED
    BY <2>1 DEF EventLine
<1>2. ASSUME NEW d \in Events, EventLine(e) = EventLine(d)
      PROVE  d = e
  <2>1. EventLine(e)[1] = <<e, 1>> /\ EventLine(d)[1] = <<d, 1>>
    BY DEF EventLine
  <2>2. <<e, 1>>[1] = e /\ <<d, 1>>[1] = d
    OBVIOUS
  <2>3. QED
    BY <1>2, <2>1, <2>2
<1>3. QED
  BY <1>1, <1>2 DEF Parse

\* No newline is in what follows one.
LEMMA RestIs ==
  ASSUME NEW r, RestOK(r)
  PROVE  r \in Seq(Byte) /\ \A i \in 1 .. Len(r) : r[i] # Newline
<1>1. CASE r \in Pads
  BY <1>1, PadsIs, BytesDiffer
<1>2. CASE \E e \in Events : r = <<<<e, 1>>>> \/ r = EventLine(e)
  <2>1. PICK e \in Events : r = <<<<e, 1>>>> \/ r = EventLine(e)
    BY <1>2
  <2>2. <<e, 1>> \in Byte /\ <<e, 2>> \in Byte
    BY DEF Byte
  <2>3. CASE r = <<<<e, 1>>>>
    <3>1. Len(r) = 1 /\ r[1] = <<e, 1>> /\ r \in Seq(Byte)
      BY <2>2, <2>3
    <3>2. \A i \in 1 .. Len(r) : r[i] = <<e, 1>>
      BY <3>1
    <3>3. QED
      BY <3>1, <3>2, BytesDiffer
  <2>4. CASE r = EventLine(e)
    <3>1. Len(r) = 2 /\ r[1] = <<e, 1>> /\ r[2] = <<e, 2>> /\ r \in Seq(Byte)
      BY <2>2, <2>4 DEF EventLine
    <3>2. QED
      BY <3>1, BytesDiffer
  <2>5. QED
    BY <2>1, <2>3, <2>4
<1>3. QED
  BY <1>1, <1>2 DEF RestOK

\* A rest of padding grows by padding only.
LEMMA PadsGrow ==
  ASSUME NEW r \in Pads, r # <<>>, NEW b, RestOK(Append(r, b))
  PROVE  b = Pad
<1> DEFINE t == Append(r, b)
<1>1. Len(r) \in Nat /\ Len(r) # 0 /\ r[1] = Pad
  <2>1. r \in Seq(Byte) /\ \A i \in 1 .. Len(r) : r[i] = Pad
    BY PadsIs
  <2>2. QED
    BY <2>1
<1>2. Len(t) = Len(r) + 1 /\ t[Len(r) + 1] = b /\ t[1] = Pad
  <2>1. r \in Seq({Pad})
    BY DEF Pads
  <2>2. QED
    BY <1>1, <2>1
<1> HIDE DEF t
<1>3. CASE t \in Pads
  <2>1. \A i \in 1 .. Len(t) : t[i] = Pad
    BY <1>3, PadsIs
  <2>2. QED
    BY <1>1, <1>2, <2>1
<1>4. ASSUME NEW e \in Events, t = <<<<e, 1>>>> \/ t = EventLine(e)
      PROVE  FALSE
  <2>1. t[1] = <<e, 1>>
    BY <1>4 DEF EventLine
  <2>2. QED
    BY <1>2, <2>1, BytesDiffer
<1>5. QED
  BY <1>3, <1>4 DEF RestOK, t

\* Nothing is split from bytes without a newline.
LEMMA SplitRest ==
  ASSUME NEW p \in Seq(Byte), \A i \in 1 .. Len(p) : p[i] # Newline
  PROVE  SplitLines(p) = <<>> /\ Remainder(p) = p
<1> DEFINE bad == {n \in 0 .. Len(p) : ~(SplitLines(UpTo(n, p)) = <<>> /\ Remainder(UpTo(n, p)) = UpTo(n, p))}
<1>1. SUFFICES ASSUME bad # {} PROVE FALSE
  <2>1. Len(p) \in 0 .. Len(p) /\ UpTo(Len(p), p) = p
    BY UpToEnd
  <2>2. QED
    BY <1>1, <2>1
<1>2. PICK n \in bad : \A m \in bad : n <= m
  <2>1. bad \in SUBSET Nat
    OBVIOUS
  <2> HIDE DEF bad
  <2>2. QED
    BY <1>1, <2>1, LowestNat
<1>3. n \in 0 .. Len(p)
  OBVIOUS
<1>4. CASE n = 0
  <2>1. UpTo(0, p) = <<>>
    <3>1. UpTo(0, p) \in Seq(Byte) /\ Len(UpTo(0, p)) = 0
      BY UpToIs
    <3>2. QED
      BY <3>1
  <2>2. QED
    BY <1>4, <2>1, SplitNone
<1>5. CASE n # 0
  <2> DEFINE k == n - 1
  <2>1. k \in 0 .. Len(p) /\ k \notin bad /\ n \in 1 .. Len(p) /\ k < n /\ k + 1 = n
    BY <1>2, <1>3, <1>5
  <2>2. SplitLines(UpTo(k, p)) = <<>> /\ Remainder(UpTo(k, p)) = UpTo(k, p)
    BY <2>1
  <2>3. SplitLines(UpTo(n, p)) = SplitLines(UpTo(k, p))
        /\ Remainder(UpTo(n, p)) = Append(Remainder(UpTo(k, p)), p[n])
    BY <2>1, SplitStep
  <2> DEFINE a == UpTo(k, p)
             b == UpTo(n, p)
  <2>4. a \in Seq(Byte) /\ Len(a) = k /\ \A i \in 1 .. k : a[i] = p[i]
    BY <2>1, UpToIs
  <2>5. b \in Seq(Byte) /\ Len(b) = n /\ \A i \in 1 .. n : b[i] = p[i]
    BY <2>1, UpToIs
  <2>6. p[n] \in Byte
    BY <2>1
  <2> HIDE DEF a, b, k
  <2>7. Append(a, p[n]) = b
    <3> DEFINE c == Append(a, p[n])
    <3>1. c \in Seq(Byte) /\ Len(c) = n /\ \A i \in 1 .. n : c[i] = b[i]
      BY <2>1, <2>4, <2>5, <2>6
    <3> HIDE DEF c
    <3>2. c = b
      BY <2>5, <3>1, SeqEqual
    <3>3. QED
      BY <3>2 DEF c
  <2>8. QED
    BY <2>2, <2>3, <2>7 DEF a, b
<1>6. QED
  BY <1>4, <1>5

\* The lines of the first bytes are the first lines.
LEMMA LinesPrefix ==
  ASSUME NEW s \in Seq(Byte), NEW n \in 0 .. Len(s)
  PROVE  \A m \in n .. Len(s) :
            /\ Len(SplitLines(UpTo(n, s))) <= Len(SplitLines(UpTo(m, s)))
            /\ \A i \in 1 .. Len(SplitLines(UpTo(n, s))) :
                  SplitLines(UpTo(m, s))[i] = SplitLines(UpTo(n, s))[i]
<1> DEFINE L(m) == SplitLines(UpTo(m, s))
           Good(m) == Len(L(n)) <= Len(L(m)) /\ \A i \in 1 .. Len(L(n)) : L(m)[i] = L(n)[i]
           bad == {m \in n .. Len(s) : ~Good(m)}
<1>1. SUFFICES ASSUME bad # {} PROVE FALSE
  OBVIOUS
<1>2. PICK m \in bad : \A j \in bad : m <= j
  <2>1. bad \in SUBSET Nat
    OBVIOUS
  <2> HIDE DEF bad
  <2>2. QED
    BY <1>1, <2>1, LowestNat
<1>3. \A j \in 0 .. Len(s) : L(j) \in Seq(Seq(Byte)) /\ Remainder(UpTo(j, s)) \in Seq(Byte)
  BY UpToIs, SplitTypes
<1>4. n \in Nat /\ m \in n .. Len(s) /\ ~Good(m)
  OBVIOUS
<1>5. CASE m = n
  <2>1. Len(L(n)) \in Nat
    BY <1>3
  <2>2. QED
    BY <1>4, <1>5, <2>1
<1>6. CASE m # n
  <2> DEFINE k == m - 1
  <2>1. k \in n .. Len(s) /\ k \notin bad /\ m \in 1 .. Len(s) /\ k \in 0 .. Len(s) /\ n \in 0 .. Len(s)
    BY <1>2, <1>4, <1>6
  <2>2. Good(k)
    BY <2>1
  <2>3. L(m) = L(k) \/ L(m) = Append(L(k), Remainder(UpTo(k, s)))
    BY <2>1, SplitStep
  <2>4. L(k) \in Seq(Seq(Byte)) /\ Remainder(UpTo(k, s)) \in Seq(Byte) /\ L(n) \in Seq(Seq(Byte))
    BY <1>3, <2>1
  <2> HIDE DEF L, k
  <2>5. CASE L(m) = L(k)
    BY <1>4, <2>2, <2>5
  <2>6. CASE L(m) = Append(L(k), Remainder(UpTo(k, s)))
    <3>1. Len(L(m)) = Len(L(k)) + 1 /\ \A i \in 1 .. Len(L(k)) : L(m)[i] = L(k)[i]
      BY <2>4, <2>6
    <3>2. Len(L(n)) \in Nat /\ Len(L(k)) \in Nat
      BY <2>4
    <3>3. QED
      BY <1>4, <2>2, <3>1, <3>2
  <2>7. QED
    BY <2>3, <2>5, <2>6
<1>7. QED
  BY <1>5, <1>6

\* What is alike is treated alike.
LEMMA AlikeIs ==
  ASSUME NEW r, NEW p, Alike(r, p)
  PROVE  /\ RestOK(r) => RestOK(p)
         /\ LineOK(r) => LineOK(p)
         /\ Parse(p) = Parse(r)
<1>1. CASE r = p
  BY <1>1
<1>2. CASE r \in Pads /\ p \in Pads
  <2>1. Parse(r) = Invalid /\ Parse(p) = Invalid
    BY <1>2, PadsIs
  <2>2. QED
    BY <1>2, <2>1 DEF RestOK, LineOK
<1>3. QED
  BY <1>1, <1>2 DEF Alike

\* It stays so with one byte more.
LEMMA AlikeAppend ==
  ASSUME NEW r \in Seq(Byte), NEW p \in Seq(Byte), Alike(r, p), NEW b \in Byte, RestOK(Append(r, b))
  PROVE  Alike(Append(r, b), Append(p, b))
<1>1. CASE r = p
  BY <1>1 DEF Alike
<1>2. CASE r \in Pads \ {<<>>} /\ p \in Pads
  <2>1. b = Pad
    BY <1>2, PadsGrow
  <2>2. Append(r, b) \in Pads /\ Append(p, b) \in Pads /\ Append(r, b) # <<>>
    BY <1>2, <2>1, PadsIs
  <2>3. QED
    BY <2>2 DEF Alike
<1>3. QED
  BY <1>1, <1>2 DEF Alike

\* The first n bytes of a file have the lines and the rest that the first a bytes in hand
\* have, after the first lines.
Joined(s, n, all, a, first) ==
    /\ Len(SplitLines(UpTo(n, s))) = first + Len(SplitLines(UpTo(a, all)))
    /\ \A i \in 1 .. Len(SplitLines(UpTo(a, all))) :
          Alike(SplitLines(UpTo(n, s))[first + i], SplitLines(UpTo(a, all))[i])
    /\ Alike(Remainder(UpTo(n, s)), Remainder(UpTo(a, all)))

\* One byte more in both.
LEMMA JoinStep ==
  ASSUME NEW s \in Seq(Byte), NEW all \in Seq(Byte), NEW first \in Nat,
         NEW n \in 1 .. Len(s), NEW a \in 1 .. Len(all), s[n] = all[a],
         RestOK(Remainder(UpTo(n, s))),
         Joined(s, n - 1, all, a - 1, first)
  PROVE  Joined(s, n, all, a, first)
<1> DEFINE m == n - 1
           c == a - 1
           b == s[n]
           ls == SplitLines(UpTo(m, s))
           la == SplitLines(UpTo(c, all))
           rs == Remainder(UpTo(m, s))
           ra == Remainder(UpTo(c, all))
<1>1. m \in 0 .. Len(s) /\ c \in 0 .. Len(all) /\ b \in Byte
  OBVIOUS
<1>2. ls \in Seq(Seq(Byte)) /\ la \in Seq(Seq(Byte)) /\ rs \in Seq(Byte) /\ ra \in Seq(Byte)
  BY <1>1, UpToIs, SplitTypes
<1>3. /\ Len(ls) = first + Len(la)
      /\ \A i \in 1 .. Len(la) : Alike(ls[first + i], la[i])
      /\ Alike(rs, ra)
  BY DEF Joined
<1>4. IF b = Newline
      THEN SplitLines(UpTo(n, s)) = Append(ls, rs) /\ Remainder(UpTo(n, s)) = <<>>
      ELSE SplitLines(UpTo(n, s)) = ls /\ Remainder(UpTo(n, s)) = Append(rs, b)
  BY SplitStep
<1>5. IF b = Newline
      THEN SplitLines(UpTo(a, all)) = Append(la, ra) /\ Remainder(UpTo(a, all)) = <<>>
      ELSE SplitLines(UpTo(a, all)) = la /\ Remainder(UpTo(a, all)) = Append(ra, b)
  BY SplitStep
<1> HIDE DEF m, c, b, ls, la, rs, ra
<1>6. CASE b = Newline
  <2> DEFINE ns == Append(ls, rs)
             na == Append(la, ra)
  <2>1. /\ Len(na) = Len(la) + 1 /\ Len(ns) = Len(ls) + 1 /\ Len(la) \in Nat
        /\ na[Len(la) + 1] = ra /\ ns[Len(ls) + 1] = rs
        /\ \A i \in 1 .. Len(la) : na[i] = la[i]
        /\ \A i \in 1 .. Len(ls) : ns[i] = ls[i]
    BY <1>2
  <2> HIDE DEF ns, na
  <2>2. Len(ns) = first + Len(na)
    BY <1>3, <2>1
  <2>3. ASSUME NEW i \in 1 .. Len(na)
        PROVE  Alike(ns[first + i], na[i])
    <3>1. CASE i = Len(la) + 1
      <4>1. first + i = Len(ls) + 1
        BY <1>3, <2>1, <3>1
      <4>2. QED
        BY <1>3, <2>1, <3>1, <4>1
    <3>2. CASE i \in 1 .. Len(la)
      <4>1. first + i \in 1 .. Len(ls)
        BY <1>3, <2>1, <3>2
      <4>2. QED
        BY <1>3, <2>1, <3>2, <4>1
    <3>3. QED
      BY <2>1, <3>1, <3>2
  <2>4. Alike(<<>>, <<>>)
    BY DEF Alike
  <2>5. QED
    BY <1>4, <1>5, <1>6, <2>2, <2>3, <2>4 DEF Joined, ns, na
<1>7. CASE b # Newline
  <2>1. Alike(Append(rs, b), Append(ra, b))
    BY <1>1, <1>2, <1>3, <1>4, <1>7, AlikeAppend
  <2>2. QED
    BY <1>3, <1>4, <1>5, <1>7, <2>1 DEF Joined
<1>8. QED
  BY <1>6, <1>7

\* All what is in hand continues p with the bytes of s from o on.
Continues(all, p, s, o, m) ==
    /\ Len(all) = Len(p) + (m - o)
    /\ SameBytes(p, all, Len(p))
    /\ \A k \in 1 .. m - o : all[Len(p) + k] = s[o + k]

\* What is left of the bytes before an offset, joined to the bytes after it, is split like
\* the file.
LEMMA Join ==
  ASSUME NEW s \in Seq(Byte), NEW o \in 0 .. Len(s), NEW m \in o .. Len(s),
         \A n \in 0 .. Len(s) : RestOK(Remainder(UpTo(n, s))),
         NEW p \in Seq(Byte), Alike(Remainder(UpTo(o, s)), p),
         NEW all \in Seq(Byte), Continues(all, p, s, o, m)
  PROVE  Joined(s, m, all, Len(all), Len(SplitLines(UpTo(o, s))))
<1> DEFINE first == Len(SplitLines(UpTo(o, s)))
           q == Len(p)
           Good(k) == Joined(s, o + k, all, q + k, first)
           bad == {k \in 0 .. m - o : ~Good(k)}
<1>1. first \in Nat /\ q \in Nat /\ o \in Nat /\ m \in Nat /\ Len(s) \in Nat /\ Len(all) = q + (m - o)
  <2>1. SplitLines(UpTo(o, s)) \in Seq(Seq(Byte))
    BY UpToIs, SplitTypes
  <2>2. QED
    BY <2>1 DEF Continues
<1>2. Joined(s, o, all, q, first)
  <2>1. RestOK(p)
    BY AlikeIs
  <2>2. SplitLines(p) = <<>> /\ Remainder(p) = p
    BY <2>1, RestIs, SplitRest
  <2>3. UpTo(q, all) = p
    <3>1. UpTo(q, p) = p /\ q \in 0 .. q /\ q <= Len(all)
      BY <1>1, UpToEnd
    <3>2. UpTo(q, p) = UpTo(q, all)
      BY <1>1, <3>1, UpToSame DEF Continues
    <3>3. QED
      BY <3>1, <3>2
  <2>4. Len(<<>>) = 0
    OBVIOUS
  <2> HIDE DEF first, q
  <2>5. first + 0 = first
    BY <1>1
  <2>6. QED
    BY <1>1, <2>2, <2>3, <2>4, <2>5 DEF Joined, first
<1>3. SUFFICES ASSUME bad # {} PROVE FALSE
  <2>1. m - o \in 0 .. m - o /\ o + (m - o) = m /\ q + (m - o) = Len(all)
    BY <1>1
  <2>2. Good(m - o)
    BY <1>3, <2>1
  <2>3. QED
    BY <2>1, <2>2
<1>4. PICK k \in bad : \A j \in bad : k <= j
  <2>1. bad \in SUBSET Nat
    BY <1>1
  <2> HIDE DEF bad
  <2>2. QED
    BY <1>3, <2>1, LowestNat
<1>5. k \in 0 .. m - o /\ ~Good(k)
  OBVIOUS
<1>6. CASE k = 0
  <2>1. o + k = o /\ q + k = q
    BY <1>1, <1>6
  <2>2. QED
    BY <1>2, <1>5, <2>1
<1>7. CASE k # 0
  <2> DEFINE j == k - 1
             n == o + k
             a == q + k
  <2>1. /\ j \in 0 .. m - o /\ j < k /\ n \in 1 .. Len(s) /\ a \in 1 .. Len(all)
        /\ o + j = n - 1 /\ q + j = a - 1 /\ k \in 1 .. m - o
    <3> HIDE DEF q, first
    <3>1. k \in 1 .. m - o /\ m - o \in Nat /\ m <= Len(s)
      BY <1>1, <1>5, <1>7
    <3>2. QED
      BY <1>1, <3>1
  <2>2. Joined(s, n - 1, all, a - 1, first)
    <3>1. Good(j)
      BY <1>4, <2>1
    <3>2. QED
      BY <2>1, <3>1
  <2>3. s[n] = all[a] /\ RestOK(Remainder(UpTo(n, s)))
    BY <2>1 DEF Continues
  <2> HIDE DEF first, q, n, a
  <2>4. Joined(s, n, all, a, first)
    BY <1>1, <2>1, <2>2, <2>3, JoinStep
  <2>5. QED
    BY <1>5, <2>4 DEF n, a
<1>8. QED
  BY <1>6, <1>7

\* What one read takes.
LEMMA ReadIs ==
  ASSUME NEW s \in Seq(Byte), NEW o \in Nat
  PROVE  /\ ReadFrom(o, s) \in Seq(Byte)
         /\ o <= Len(s) => o + Len(ReadFrom(o, s)) <= Len(s)
         /\ o > Len(s) => ReadFrom(o, s) = <<>>
         /\ \A k \in 1 .. Len(ReadFrom(o, s)) : ReadFrom(o, s)[k] = s[o + k]
<1> DEFINE n == IF o + MaxRead < Len(s) THEN o + MaxRead ELSE Len(s)
           h == UpTo(n, s)
           d == ReadFrom(o, s)
<1>1. o + MaxRead \in Nat /\ o < o + MaxRead /\ Len(s) \in Nat
  BY IngestAssumption
<1>2. n \in 0 .. Len(s) /\ UpTo(o + MaxRead, s) = h
  BY <1>1 DEF UpTo
<1>3. h \in Seq(Byte) /\ Len(h) = n /\ \A i \in 1 .. n : h[i] = s[i]
  BY <1>2, UpToIs
<1>4. d = SubSeq(h, o + 1, n)
  BY <1>2, <1>3 DEF ReadFrom
<1>5. o > Len(s) => n < o
  BY <1>1, <1>2
<1> HIDE DEF d, h, n
<1>6. \A i \in o + 1 .. n : h[i] \in Byte
  BY <1>1, <1>2, <1>3
<1>7. /\ d \in Seq(Byte)
      /\ Len(d) = IF o + 1 <= n THEN n - (o + 1) + 1 ELSE 0
      /\ \A i \in 1 .. n - (o + 1) + 1 : d[i] = h[o + 1 + i - 1]
  <2>1. o + 1 \in Int /\ n \in Int
    BY <1>1, <1>2
  <2>2. QED
    BY <1>3, <1>4, <1>6, <2>1, SubSeqProperties
<1>8. ASSUME NEW k \in 1 .. Len(d)
      PROVE  d[k] = s[o + k]
  <2>1. k \in 1 .. n - (o + 1) + 1 /\ o + k \in 1 .. n /\ o + 1 + k - 1 = o + k
    BY <1>1, <1>2, <1>7
  <2>2. d[k] = h[o + 1 + k - 1]
    BY <1>7, <2>1
  <2>3. QED
    BY <1>3, <2>1, <2>2
<1>9. o <= Len(s) => o + Len(d) <= Len(s)
  BY <1>1, <1>2, <1>7
<1>10. o > Len(s) => d = <<>>
  <2>1. o > Len(s) => Len(d) = 0
    BY <1>1, <1>2, <1>5, <1>7
  <2>2. QED
    BY <1>7, <2>1
<1>11. QED
  BY <1>7, <1>8, <1>9, <1>10 DEF d

\* A read joined to what was left of the last one.
LEMMA ReadJoins ==
  ASSUME NEW s \in Seq(Byte), NEW o \in 0 .. Len(s),
         \A n \in 0 .. Len(s) : RestOK(Remainder(UpTo(n, s))),
         NEW p \in Seq(Byte), Alike(Remainder(UpTo(o, s)), p)
  PROVE  LET all == p \o ReadFrom(o, s)
             m == o + Len(ReadFrom(o, s))
         IN  Joined(s, m, all, Len(all), Len(SplitLines(UpTo(o, s))))
<1> DEFINE d == ReadFrom(o, s)
           m == o + Len(d)
           all == p \o d
<1>1. /\ d \in Seq(Byte) /\ m <= Len(s) /\ o \in Nat /\ Len(d) \in Nat
      /\ \A k \in 1 .. Len(d) : d[k] = s[o + k]
  BY ReadIs
<1> HIDE DEF d
<1>2. all \in Seq(Byte) /\ m \in o .. Len(s) /\ m - o = Len(d)
  BY <1>1
<1>3. Continues(all, p, s, o, m)
  BY <1>1, <1>2 DEF Continues, SameBytes
<1> HIDE DEF all, m
<1>4. Joined(s, m, all, Len(all), Len(SplitLines(UpTo(o, s))))
  BY <1>2, <1>3, Join
<1>5. QED
  BY <1>4 DEF all, m, d

\* The programs write events and padding to a file, a line at a time, and evs has the events
\* of its lines.
FileOK(s, evs) ==
    /\ \A n \in 0 .. Len(s) : RestOK(Remainder(UpTo(n, s)))
    /\ \A i \in 1 .. Len(SplitLines(s)) :
          LineOK(SplitLines(s)[i]) /\ Parse(SplitLines(s)[i]) \in evs \cup {Invalid}

\* A state c, stored or in hand, was taken in the file as it was before its n-th replacement.
Outdated(c, n) == c.offset > 0 /\ c.era # n

\* A state of a file: what is left of the bytes before the offset is in it, unless the file
\* was replaced; then the file is shorter, but for a regrown one.
StateOK(c, s, n, bytes) ==
    /\ c.offset <= bytes /\ Len(c.partial) <= MaxPartial /\ c.era <= n
    /\ Outdated(c, n) => Regrow \/ Len(s) < c.offset
    /\ ~Outdated(c, n) => /\ c.offset <= Len(s)
                          /\ Alike(Remainder(UpTo(c.offset, s)), c.partial)

\* The lines before the offset have been dealt with.
LinesCovered(c, s, n, dealt) ==
    ~Outdated(c, n) => Len(SplitLines(UpTo(c.offset, s))) <= dealt

\* A line in hand is one of a file, unless it was put together from a file and a regrown one.
TakenFrom(l, evs) == Regrow \/ (LineOK(l) /\ Parse(l) \in evs \cup {Invalid})

\* The lines in hand are the last ones before the offset, and those before were dealt with.
HandOK(w, s, n, dealt, evs) ==
    /\ \A i \in 1 .. Len(w.lines) : TakenFrom(w.lines[i], evs)
    /\ ~Outdated(w, n) =>
          /\ w.first <= dealt
          /\ w.first + Len(w.lines) = Len(SplitLines(UpTo(w.offset, s)))
          /\ \A i \in 1 .. Len(w.lines) : Alike(SplitLines(s)[w.first + i], w.lines[i])

\* The types of the variables.
Cursors == [offset : Nat, partial : Seq(Byte), era : Nat]
Works   == [offset : Nat, partial : Seq(Byte), era : Nat,
            lines : Seq(Seq(Byte)), first : Nat, alerts : 0 .. MaxAlerts]

IngestTypes ==
    /\ file \in [Files -> Seq(Byte)] /\ era \in [Files -> Nat]
    /\ seen \in [Files -> SUBSET Events] /\ old \in SUBSET Events
    /\ cursor \in [Files -> Cursors]
    /\ rows \in [Files -> [Events -> {0, 1}]]
    /\ done \in [Files -> Nat]
    /\ pruned \in [Files -> SUBSET Events] /\ alerted \in [Files -> SUBSET Seq(Byte)]
    /\ todo \in Seq(Files) /\ Len(todo) <= MaxPerScan
    /\ at \in 0 .. (NFiles - 1)
    /\ place \in {"wait", "stat", "read", "lines", "prune"}
    /\ work \in Works
    /\ budget \in [bytes : [Files -> Nat], replaced : 0 .. MaxReplaced, faults : 0 .. MaxFaults]

\* What holds of each file, its stored state and the tables.
EachFile(f) ==
    /\ FileOK(file[f], seen[f])
    /\ budget.bytes[f] + Len(file[f]) <= MaxBytes[f]
    /\ StateOK(cursor[f], file[f], era[f], MaxBytes[f])
    /\ LinesCovered(cursor[f], file[f], era[f], done[f])
    /\ done[f] <= Len(SplitLines(file[f]))
    /\ \A l \in alerted[f] : Regrow \/ l \in Pads

\* What holds of the file the agent is in.
InHand(f) ==
    /\ InWork => StateOK(work, file[f], era[f], MaxBytes[f])
    /\ place = "read" => LinesCovered(work, file[f], era[f], done[f])
    /\ place = "lines" => HandOK(work, file[f], era[f], done[f], seen[f])

\* The inductive invariant.
IngestInv ==
    /\ IngestTypes
    /\ \A f \in Files : EachFile(f)
    /\ place \in {"stat", "read", "lines"} => todo # <<>>
    /\ todo # <<>> => InHand(todo[1])

-----------------------------------------------------------------------------
(* A byte is written *)

\* The last byte of a file is the last of its rest, or ends a line.
LEMMA LastByte ==
  ASSUME NEW s \in Seq(Byte)
  PROVE  /\ s = <<>> => Remainder(s) = <<>>
         /\ s # <<>> => IF Last(s) = Newline THEN Remainder(s) = <<>>
                        ELSE Remainder(s) # <<>> /\ Last(Remainder(s)) = Last(s)
<1>1. UpTo(Len(s), s) = s /\ Len(s) \in 0 .. Len(s)
  BY UpToEnd
<1>2. CASE s = <<>>
  <2>1. Len(s) = 0
    BY <1>2
  <2>2. Remainder(UpTo(0, s)) = <<>>
    BY SplitNone
  <2>3. QED
    BY <1>1, <1>2, <2>1, <2>2
<1>3. CASE s # <<>>
  <2> DEFINE n == Len(s)
             r == Remainder(UpTo(n - 1, s))
  <2>1. n \in 1 .. Len(s) /\ n - 1 \in 0 .. Len(s) /\ Last(s) = s[n] /\ s[n] \in Byte
    BY <1>3 DEF Last
  <2>2. IF s[n] = Newline THEN Remainder(UpTo(n, s)) = <<>>
        ELSE Remainder(UpTo(n, s)) = Append(r, s[n])
    BY <2>1, SplitStep
  <2>3. r \in Seq(Byte)
    BY <2>1, UpToIs, SplitTypes
  <2> HIDE DEF r
  <2>4. Append(r, s[n]) # <<>> /\ Last(Append(r, s[n])) = s[n]
    BY <2>1, <2>3 DEF Last
  <2>5. QED
    BY <1>1, <1>3, <2>1, <2>2, <2>4
<1>4. QED
  BY <1>2, <1>3

\* The byte that comes next keeps to the form of a line, and ends only a line that is one.
LEMMA NextByteIs ==
  ASSUME NEW s \in Seq(Byte), RestOK(Remainder(s)), NEW b \in NextBytes(s)
  PROVE  /\ b \in Byte
         /\ b # Newline => RestOK(Append(Remainder(s), b))
         /\ b = Newline => LineOK(Remainder(s))
<1> DEFINE r == Remainder(s)
           x == Last(s)
<1>1. r \in Seq(Byte)
  BY SplitTypes
<1>2. CASE s = <<>> \/ x = Newline
  <2>1. r = <<>>
    BY <1>2, LastByte
  <2>2. b \in {Pad} \cup {<<e, 1>> : e \in Events}
    BY <1>2 DEF NextBytes
  <2> HIDE DEF r, x
  <2>3. CASE b = Pad
    <3>1. <<>> \in Pads
      BY DEF Pads
    <3>2. Append(r, b) \in Pads
      BY <2>1, <2>3, <3>1, PadsIs
    <3>3. QED
      BY <2>3, <3>2, BytesDiffer DEF RestOK, r
  <2>4. ASSUME NEW e \in Events, b = <<e, 1>>
        PROVE  b \in Byte /\ b # Newline /\ RestOK(Append(r, b))
    <3>1. Append(r, b) = <<<<e, 1>>>>
      BY <2>1, <2>4
    <3>2. QED
      BY <2>4, <3>1, BytesDiffer DEF RestOK, Byte
  <2>5. QED
    BY <2>2, <2>3, <2>4 DEF r
<1>3. CASE ~(s = <<>> \/ x = Newline)
  <2>1. r # <<>> /\ Last(r) = x /\ Len(r) \in Nat /\ Len(r) # 0
    BY <1>1, <1>3, LastByte
  <2>2. CASE r \in Pads
    <3>1. x = Pad
      <4>1. \A i \in 1 .. Len(r) : r[i] = Pad
        BY <2>2, PadsIs
      <4>2. r[Len(r)] = Pad
        BY <2>1, <4>1
      <4>3. QED
        BY <2>1, <4>2 DEF Last
    <3>2. b \in {Pad, Newline}
      BY <1>3, <3>1 DEF NextBytes
    <3> HIDE DEF r, x
    <3>3. Append(r, Pad) \in Pads
      BY <2>2, PadsIs
    <3>4. QED
      BY <2>2, <3>2, <3>3, BytesDiffer DEF RestOK, LineOK, r
  <2>3. ASSUME NEW e \in Events, r = <<<<e, 1>>>>
        PROVE  b \in Byte /\ b # Newline /\ RestOK(Append(r, b))
    <3>1. x = <<e, 1>>
      <4>1. Last(<<<<e, 1>>>>) = <<e, 1>>
        BY DEF Last
      <4>2. QED
        BY <2>1, <2>3, <4>1
    <3> HIDE DEF r
    <3>2. x[1] = e /\ x[2] = 1 /\ x # Newline /\ x # Pad
      BY <3>1, BytesDiffer
    <3>3. b = <<e, 2>>
      BY <1>3, <3>2 DEF NextBytes
    <3>4. Append(r, b) = EventLine(e)
      <4>1. ASSUME NEW u, NEW v PROVE Append(<<u>>, v) = <<u, v>>
        <5> DEFINE a == Append(<<u>>, v)
                   c == <<u, v>>
        <5>1. a \in Seq({u, v}) /\ c \in Seq({u, v}) /\ Len(a) = 2 /\ Len(c) = 2
          OBVIOUS
        <5>2. a[1] = u /\ a[2] = v /\ c[1] = u /\ c[2] = v
          OBVIOUS
        <5> HIDE DEF a, c
        <5>3. \A i \in 1 .. Len(a) : a[i] = c[i]
          BY <5>1, <5>2
        <5>4. a = c
          BY <5>1, <5>3, SeqEqual
        <5>5. QED
          BY <5>4 DEF a, c
      <4>2. QED
        BY <2>3, <3>3, <4>1 DEF EventLine
    <3>5. QED
      BY <3>3, <3>4, BytesDiffer DEF RestOK, Byte
  <2>4. ASSUME NEW e \in Events, r = EventLine(e)
        PROVE  b = Newline
    <3>1. x = <<e, 2>>
      <4>1. Last(EventLine(e)) = <<e, 2>>
        BY DEF Last, EventLine
      <4>2. QED
        BY <2>1, <2>4, <4>1
    <3>2. x[2] = 2 /\ x # Newline /\ x # Pad
      BY <3>1, BytesDiffer
    <3>3. QED
      BY <1>3, <3>2 DEF NextBytes
  <2>5. QED
    BY <2>2, <2>3, <2>4, BytesDiffer DEF RestOK, LineOK
<1>4. QED
  BY <1>2, <1>3

\* A file stays in order with that byte.
LEMMA AppendFileOK ==
  ASSUME NEW s \in Seq(Byte), NEW evs, FileOK(s, evs), NEW b \in NextBytes(s), NEW all,
         all = evs \cup (IF b = Newline THEN {Parse(Remainder(s))} \ {Invalid} ELSE {})
  PROVE  FileOK(Append(s, b), all)
<1> DEFINE t == Append(s, b)
           ls == SplitLines(s)
           r == Remainder(s)
<1>1. Len(s) \in 0 .. Len(s) /\ UpTo(Len(s), s) = s
  BY UpToEnd
<1>2. RestOK(r)
  BY <1>1 DEF FileOK
<1>3. b \in Byte /\ (b # Newline => RestOK(Append(r, b))) /\ (b = Newline => LineOK(r))
  BY <1>2, NextByteIs
<1>4. t \in Seq(Byte) /\ Len(t) = Len(s) + 1 /\ UpTo(Len(t), t) = t
  <2>1. t \in Seq(Byte) /\ Len(t) = Len(s) + 1
    BY <1>3
  <2> HIDE DEF t
  <2>2. QED
    BY <2>1, UpToEnd
<1>5. /\ IF b = Newline THEN SplitLines(t) = Append(ls, r) /\ Remainder(t) = <<>>
         ELSE SplitLines(t) = ls /\ Remainder(t) = Append(r, b)
      /\ \A n \in 0 .. Len(s) : UpTo(n, t) = UpTo(n, s)
  BY <1>3, SplitAppend
<1>6. ls \in Seq(Seq(Byte)) /\ r \in Seq(Byte)
  BY SplitTypes
<1>7. RestOK(<<>>)
  BY DEF RestOK, Pads
<1>8. \A n \in 0 .. Len(s) : RestOK(Remainder(UpTo(n, s)))
  BY DEF FileOK
<1>9. \A i \in 1 .. Len(ls) : LineOK(ls[i]) /\ Parse(ls[i]) \in evs \cup {Invalid}
  BY DEF FileOK
<1> HIDE DEF t, ls, r
<1>10. ASSUME NEW n \in 0 .. Len(t)
       PROVE  RestOK(Remainder(UpTo(n, t)))
  <2>1. CASE n \in 0 .. Len(s)
    BY <1>5, <1>8, <2>1
  <2>2. CASE n = Len(t)
    BY <1>3, <1>4, <1>5, <1>7, <2>2
  <2>3. QED
    BY <1>1, <1>4, <2>1, <2>2
<1>11. ASSUME NEW i \in 1 .. Len(SplitLines(t))
       PROVE  LineOK(SplitLines(t)[i]) /\ Parse(SplitLines(t)[i]) \in all \cup {Invalid}
  <2>1. CASE b = Newline
    <3> DEFINE u == Append(ls, r)
    <3>1. /\ Len(u) = Len(ls) + 1 /\ u[Len(ls) + 1] = r /\ \A j \in 1 .. Len(ls) : u[j] = ls[j]
          /\ Len(ls) \in Nat
      BY <1>6
    <3> HIDE DEF u
    <3>2. SplitLines(t) = u
      BY <1>5, <2>1 DEF u
    <3>3. i \in 1 .. Len(ls) \/ i = Len(ls) + 1
      BY <3>1, <3>2
    <3>4. LineOK(r) /\ Parse(r) \in all \cup {Invalid}
      BY <1>3, <2>1 DEF r
    <3>5. QED
      BY <1>9, <3>1, <3>2, <3>3, <3>4
  <2>2. CASE b # Newline
    BY <1>5, <1>9, <2>2
  <2>3. QED
    BY <2>1, <2>2
<1>12. QED
  BY <1>10, <1>11 DEF FileOK, t

\* What is before an offset stays with one byte more.
LEMMA AppendKeeps ==
  ASSUME NEW s \in Seq(Byte), NEW b \in Byte, NEW n \in 0 .. Len(s)
  PROVE  /\ UpTo(n, Append(s, b)) = UpTo(n, s)
         /\ Len(SplitLines(UpTo(n, s))) <= Len(SplitLines(s))
         /\ Len(SplitLines(s)) <= Len(SplitLines(Append(s, b)))
         /\ \A i \in 1 .. Len(SplitLines(s)) : SplitLines(Append(s, b))[i] = SplitLines(s)[i]
<1>1. UpTo(n, Append(s, b)) = UpTo(n, s)
  BY SplitAppend
<1>2. Len(SplitLines(UpTo(n, s))) <= Len(SplitLines(s))
  <2>1. Len(s) \in n .. Len(s) /\ UpTo(Len(s), s) = s
    BY UpToEnd
  <2>2. QED
    BY <2>1, LinesPrefix
<1>3. SplitLines(s) \in Seq(Seq(Byte)) /\ Remainder(s) \in Seq(Byte)
  BY SplitTypes
<1>4. SplitLines(Append(s, b)) = SplitLines(s)
      \/ SplitLines(Append(s, b)) = Append(SplitLines(s), Remainder(s))
  BY SplitAppend
<1> DEFINE ls == SplitLines(s)
           lt == SplitLines(Append(s, b))
           r == Remainder(s)
<1> HIDE DEF ls, lt, r
<1>5. ls \in Seq(Seq(Byte)) /\ r \in Seq(Byte) /\ (lt = ls \/ lt = Append(ls, r))
  BY <1>3, <1>4 DEF ls, lt, r
<1>6. Len(ls) <= Len(lt) /\ \A i \in 1 .. Len(ls) : lt[i] = ls[i]
  <2>1. CASE lt = ls
    BY <1>5, <2>1
  <2>2. CASE lt = Append(ls, r)
    BY <1>5, <2>2
  <2>3. QED
    BY <1>5, <2>1, <2>2
<1>7. QED
  BY <1>1, <1>2, <1>6 DEF ls, lt

\* A state of the file stays one; an outdated one, unless the file outgrows it.
LEMMA AppendStateOK ==
  ASSUME NEW s \in Seq(Byte), NEW b \in Byte, NEW c, c.offset \in Nat, NEW n, NEW bytes,
         StateOK(c, s, n, bytes),
         ~Regrow => ~(Outdated(c, n) /\ c.offset <= Len(s) + 1)
  PROVE  StateOK(c, Append(s, b), n, bytes)
<1>1. Len(Append(s, b)) = Len(s) + 1 /\ Len(s) \in Nat
  OBVIOUS
<1>2. CASE Outdated(c, n)
  BY <1>1, <1>2 DEF StateOK
<1>3. CASE ~Outdated(c, n)
  <2>1. c.offset \in 0 .. Len(s)
    BY <1>3 DEF StateOK
  <2>2. UpTo(c.offset, Append(s, b)) = UpTo(c.offset, s)
    BY <2>1, AppendKeeps
  <2>3. QED
    BY <1>1, <1>3, <2>1, <2>2 DEF StateOK
<1>4. QED
  BY <1>2, <1>3

\* So do what was covered and what is in hand.
LEMMA AppendCovered ==
  ASSUME NEW s \in Seq(Byte), NEW b \in Byte, NEW c, c.offset \in Nat, NEW n, NEW bytes, NEW dealt,
         StateOK(c, s, n, bytes), LinesCovered(c, s, n, dealt)
  PROVE  LinesCovered(c, Append(s, b), n, dealt)
<1>1. ASSUME ~Outdated(c, n)
      PROVE  UpTo(c.offset, Append(s, b)) = UpTo(c.offset, s)
  <2>1. c.offset \in 0 .. Len(s)
    BY <1>1 DEF StateOK
  <2>2. QED
    BY <2>1, AppendKeeps
<1>2. QED
  BY <1>1 DEF LinesCovered

\* The lines in hand are still those of the file.
LEMMA AppendHandOK ==
  ASSUME NEW s \in Seq(Byte), NEW b \in Byte, NEW w \in Works, NEW n, NEW bytes, NEW dealt,
         NEW evs, NEW all, evs \subseteq all,
         StateOK(w, s, n, bytes), HandOK(w, s, n, dealt, evs)
  PROVE  HandOK(w, Append(s, b), n, dealt, all)
<1>1. w.offset \in Nat /\ w.first \in Nat /\ w.lines \in Seq(Seq(Byte))
  BY DEF Works
<1>2. ASSUME ~Outdated(w, n)
      PROVE  /\ UpTo(w.offset, Append(s, b)) = UpTo(w.offset, s)
             /\ \A i \in 1 .. Len(w.lines) :
                   SplitLines(Append(s, b))[w.first + i] = SplitLines(s)[w.first + i]
  <2>1. w.offset \in 0 .. Len(s)
    BY <1>1, <1>2 DEF StateOK
  <2>2. /\ UpTo(w.offset, Append(s, b)) = UpTo(w.offset, s)
        /\ Len(SplitLines(UpTo(w.offset, s))) <= Len(SplitLines(s))
        /\ \A i \in 1 .. Len(SplitLines(s)) : SplitLines(Append(s, b))[i] = SplitLines(s)[i]
    BY <2>1, AppendKeeps
  <2>3. w.first + Len(w.lines) = Len(SplitLines(UpTo(w.offset, s)))
    BY <1>2 DEF HandOK
  <2>4. Len(SplitLines(s)) \in Nat
    BY SplitTypes
  <2>5. \A i \in 1 .. Len(w.lines) : w.first + i \in 1 .. Len(SplitLines(s))
    BY <1>1, <2>2, <2>3, <2>4
  <2>6. QED
    BY <2>2, <2>5
<1>3. \A l : TakenFrom(l, evs) => TakenFrom(l, all)
  BY DEF TakenFrom
<1>4. QED
  BY <1>2, <1>3 DEF HandOK

-----------------------------------------------------------------------------
(* A file is replaced *)

\* A state that was taken with bytes before is outdated; one without says nothing.
LEMMA ReplacedOK ==
  ASSUME NEW s \in Seq(Byte), NEW c, c.offset \in Nat, NEW n \in Nat, c.era \in Nat,
         NEW bytes, StateOK(c, s, n, bytes)
  PROVE  StateOK(c, <<>>, n + 1, bytes) /\ LinesCovered(c, <<>>, n + 1, 0)
<1> DEFINE none == UpTo(0, <<>>)
<1>1. SplitLines(none) = <<>> /\ Remainder(none) = <<>>
  <2>1. <<>> \in Seq(Byte)
    OBVIOUS
  <2>2. QED
    BY <2>1, SplitNone
<1>2. c.era <= n /\ c.offset <= bytes /\ Len(c.partial) <= MaxPartial
  BY DEF StateOK
<1>3. CASE c.offset > 0
  <2>1. Outdated(c, n + 1) /\ Len(<<>>) = 0
    BY <1>2, <1>3 DEF Outdated
  <2>2. QED
    BY <1>2, <1>3, <2>1 DEF StateOK, LinesCovered
<1>4. CASE c.offset = 0
  <2>1. ~Outdated(c, n) /\ ~Outdated(c, n + 1)
    BY <1>4 DEF Outdated
  <2>2. Remainder(UpTo(0, s)) = <<>>
    BY SplitNone
  <2>3. c.partial = <<>>
    BY <1>4, <2>1, <2>2 DEF StateOK, Alike
  <2>4. Alike(<<>>, <<>>) /\ Len(<<>>) = 0
    BY DEF Alike
  <2>5. c.era <= n + 1
    BY <1>2
  <2> HIDE DEF none
  <2>6. QED
    BY <1>1, <1>2, <1>4, <2>1, <2>3, <2>4, <2>5 DEF StateOK, LinesCovered, none
<1>5. QED
  BY <1>3, <1>4

\* Nothing in hand is of the new file.
LEMMA ReplacedHandOK ==
  ASSUME NEW s \in Seq(Byte), NEW w \in Works, NEW n \in Nat, NEW bytes, NEW dealt, NEW evs,
         StateOK(w, s, n, bytes), HandOK(w, s, n, dealt, evs)
  PROVE  HandOK(w, <<>>, n + 1, 0, evs)
<1>1. w.offset \in Nat /\ w.first \in Nat /\ w.lines \in Seq(Seq(Byte)) /\ w.era \in Nat
  BY DEF Works
<1>2. CASE w.offset > 0
  <2>1. w.era <= n
    BY DEF StateOK
  <2>2. Outdated(w, n + 1)
    BY <1>1, <1>2, <2>1 DEF Outdated
  <2>3. QED
    BY <2>2 DEF HandOK
<1>3. CASE w.offset = 0
  <2>1. ~Outdated(w, n)
    BY <1>3 DEF Outdated
  <2>2. SplitLines(UpTo(0, s)) = <<>> /\ Len(<<>>) = 0
    BY SplitNone
  <2>3. w.first + Len(w.lines) = 0
    BY <1>3, <2>1, <2>2 DEF HandOK
  <2>4. w.first = 0 /\ Len(w.lines) = 0
    BY <1>1, <2>3
  <2>5. SplitLines(UpTo(0, <<>>)) = <<>>
    <3>1. <<>> \in Seq(Byte)
      OBVIOUS
    <3>2. QED
      BY <3>1, SplitNone
  <2>6. QED
    BY <1>3, <2>2, <2>4, <2>5 DEF HandOK
<1>4. QED
  BY <1>1, <1>2, <1>3

-----------------------------------------------------------------------------
(* The steps of the agent *)

\* A state that says nothing is one of every file.
LEMMA FreshOK ==
  ASSUME NEW s \in Seq(Byte), NEW n \in Nat, NEW bytes \in Nat, NEW dealt \in Nat
  PROVE  StateOK(Fresh, s, n, bytes) /\ LinesCovered(Fresh, s, n, dealt)
<1>1. SplitLines(UpTo(0, s)) = <<>> /\ Remainder(UpTo(0, s)) = <<>> /\ Len(<<>>) = 0
  BY SplitNone
<1>2. Fresh.offset = 0 /\ Fresh.partial = <<>> /\ Fresh.era = 0
  BY DEF Fresh
<1>3. ~Outdated(Fresh, n)
  BY <1>2 DEF Outdated
<1>4. Len(s) \in Nat /\ MaxPartial \in Nat /\ Alike(<<>>, <<>>)
  BY IngestAssumption DEF Alike
<1>5. QED
  BY <1>1, <1>2, <1>3, <1>4 DEF StateOK, LinesCovered

\* Only offset, partial line and era matter.
LEMMA SameStateOK ==
  ASSUME NEW c, NEW d, c.offset = d.offset, c.partial = d.partial, c.era = d.era,
         NEW s, NEW n, NEW bytes
  PROVE  /\ StateOK(c, s, n, bytes) => StateOK(d, s, n, bytes)
         /\ \A dealt : LinesCovered(c, s, n, dealt) => LinesCovered(d, s, n, dealt)
         /\ Outdated(c, n) <=> Outdated(d, n)
BY DEF StateOK, LinesCovered, Outdated

\* More lines may be dealt with.
LEMMA MoreDealt ==
  ASSUME NEW c, NEW s \in Seq(Byte), NEW n, NEW dealt \in Nat, NEW more \in Nat, dealt <= more,
         LinesCovered(c, s, n, dealt), c.offset \in Nat, NEW bytes, StateOK(c, s, n, bytes)
  PROVE  LinesCovered(c, s, n, more)
<1>1. CASE Outdated(c, n)
  BY <1>1 DEF LinesCovered
<1>2. CASE ~Outdated(c, n)
  <2>1. c.offset \in 0 .. Len(s)
    BY <1>2 DEF StateOK
  <2>2. SplitLines(UpTo(c.offset, s)) \in Seq(Seq(Byte))
    BY <2>1, UpToIs, SplitTypes
  <2>3. Len(SplitLines(UpTo(c.offset, s))) \in Nat
    BY <2>2
  <2>4. QED
    BY <1>2, <2>3 DEF LinesCovered
<1>3. QED
  BY <1>1, <1>2

\* A rest that is too long is padding.
LEMMA LongRest ==
  ASSUME NEW r, NEW p, Alike(r, p), RestOK(r), Len(p) > MaxPartial
  PROVE  Alike(r, <<>>)
<1>1. RestOK(p)
  BY AlikeIs
<1>2. MaxPartial \in Nat /\ MaxPartial >= 2
  BY IngestAssumption
<1>3. ASSUME NEW e \in Events, p = <<<<e, 1>>>> \/ p = EventLine(e)
      PROVE  FALSE
  <2>1. Len(<<<<e, 1>>>>) = 1 /\ Len(EventLine(e)) = 2
    BY DEF EventLine
  <2> DEFINE k == Len(p)
  <2>2. k > MaxPartial /\ (k = 1 \/ k = 2)
    BY <1>3, <2>1
  <2> HIDE DEF k
  <2>3. QED
    BY <1>2, <2>2
<1>4. p \in Pads /\ p # <<>>
  <2>1. p \in Pads
    BY <1>1, <1>3 DEF RestOK
  <2>2. Len(<<>>) = 0
    OBVIOUS
  <2>3. QED
    BY <1>2, <2>1, <2>2
<1>5. <<>> \in Pads
  BY DEF Pads
<1>6. QED
  BY <1>4, <1>5 DEF Alike

\* What Read makes of the state in hand.
AfterRead(w, s, n) ==
    LET data == ReadFrom(w.offset, s)
        all  == w.partial \o data
        rest == Remainder(all)
    IN  [w EXCEPT
          !.offset  = @ + Len(data),
          !.partial = IF data = <<>> THEN @ ELSE IF Len(rest) > MaxPartial THEN <<>> ELSE rest,
          !.lines   = IF data = <<>> THEN <<>> ELSE SplitLines(all),
          !.first   = Len(SplitLines(UpTo(w.offset, s))),
          !.era     = IF w.offset = 0 THEN n ELSE @]

\* Its fields.
LEMMA AfterReadIs ==
  ASSUME NEW s \in Seq(Byte), NEW w \in Works, NEW n \in Nat
  PROVE  LET data == ReadFrom(w.offset, s)
             all  == w.partial \o data
             rest == Remainder(all)
             v    == AfterRead(w, s, n)
         IN  /\ v \in Works
             /\ v.offset = w.offset + Len(data)
             /\ v.partial = IF data = <<>> THEN w.partial ELSE IF Len(rest) > MaxPartial THEN <<>> ELSE rest
             /\ v.lines = IF data = <<>> THEN <<>> ELSE SplitLines(all)
             /\ v.first = Len(SplitLines(UpTo(w.offset, s)))
             /\ v.era = IF w.offset = 0 THEN n ELSE w.era
<1> DEFINE data == ReadFrom(w.offset, s)
           all  == w.partial \o data
           rest == Remainder(all)
           v    == AfterRead(w, s, n)
           k    == Len(SplitLines(UpTo(w.offset, s)))
<1>1. w.offset \in Nat /\ w.partial \in Seq(Byte) /\ w.era \in Nat
  BY DEF Works
<1>2. data \in Seq(Byte) /\ all \in Seq(Byte) /\ Len(data) \in Nat
  <2>1. data \in Seq(Byte)
    BY <1>1, ReadIs
  <2> HIDE DEF data
  <2>2. QED
    BY <1>1, <2>1
<1>3. rest \in Seq(Byte) /\ SplitLines(all) \in Seq(Seq(Byte))
  <2> HIDE DEF all
  <2>1. QED
    BY <1>2, SplitTypes
<1>4. k \in Nat
  <2>1. UpTo(w.offset, s) \in Seq(Byte)
    <3>1. CASE w.offset <= Len(s)
      BY <1>1, <3>1, UpToIs
    <3>2. CASE w.offset > Len(s)
      BY <1>1, <3>2, UpToEnd
    <3>3. QED
      BY <1>1, <3>1, <3>2
  <2>2. SplitLines(UpTo(w.offset, s)) \in Seq(Seq(Byte))
    BY <2>1, SplitTypes
  <2>3. QED
    BY <2>2
<1>5. v = [w EXCEPT
             !.offset  = @ + Len(data),
             !.partial = IF data = <<>> THEN @ ELSE IF Len(rest) > MaxPartial THEN <<>> ELSE rest,
             !.lines   = IF data = <<>> THEN <<>> ELSE SplitLines(all),
             !.first   = k,
             !.era     = IF w.offset = 0 THEN n ELSE @]
  BY DEF AfterRead
<1>6. <<>> \in Seq(Byte) /\ <<>> \in Seq(Seq(Byte)) /\ w.offset + Len(data) \in Nat
  BY <1>1, <1>2
<1> HIDE DEF v, k, rest, all, data
<1>7. /\ v \in Works
      /\ v.offset = w.offset + Len(data)
      /\ v.partial = IF data = <<>> THEN w.partial ELSE IF Len(rest) > MaxPartial THEN <<>> ELSE rest
      /\ v.lines = IF data = <<>> THEN <<>> ELSE SplitLines(all)
      /\ v.first = k
      /\ v.era = IF w.offset = 0 THEN n ELSE w.era
  BY <1>1, <1>2, <1>3, <1>4, <1>5, <1>6 DEF Works
<1>8. QED
  BY <1>7 DEF v, k, rest, all, data

\* The read keeps to the file, whatever was left of the last one.
LEMMA ReadOK ==
  ASSUME NEW s \in Seq(Byte), NEW w \in Works, NEW n \in Nat, NEW bytes \in Nat, Len(s) <= bytes,
         NEW dealt \in Nat, NEW evs, FileOK(s, evs),
         StateOK(w, s, n, bytes), LinesCovered(w, s, n, dealt)
  PROVE  /\ StateOK(AfterRead(w, s, n), s, n, bytes)
         /\ HandOK(AfterRead(w, s, n), s, n, dealt, evs)
<1> DEFINE o    == w.offset
           p    == w.partial
           data == ReadFrom(o, s)
           m    == o + Len(data)
           all  == p \o data
           rest == Remainder(all)
           v    == AfterRead(w, s, n)
           k    == Len(SplitLines(UpTo(o, s)))
<1>1. o \in Nat /\ p \in Seq(Byte) /\ w.era \in Nat /\ Len(s) \in Nat /\ MaxPartial \in Nat
  BY IngestAssumption DEF Works
<1>2. /\ data \in Seq(Byte) /\ Len(data) \in Nat
      /\ o <= Len(s) => m <= Len(s)
      /\ o > Len(s) => data = <<>>
  <2>1. /\ data \in Seq(Byte)
        /\ o <= Len(s) => m <= Len(s)
        /\ o > Len(s) => data = <<>>
    BY <1>1, ReadIs
  <2> HIDE DEF data
  <2>2. QED
    BY <2>1
<1>3. /\ v \in Works
      /\ v.offset = m
      /\ v.partial = IF data = <<>> THEN p ELSE IF Len(rest) > MaxPartial THEN <<>> ELSE rest
      /\ v.lines = IF data = <<>> THEN <<>> ELSE SplitLines(all)
      /\ v.first = k
      /\ v.era = IF o = 0 THEN n ELSE w.era
  BY AfterReadIs
<1>4. Len(<<>>) = 0 /\ (data = <<>> => m = o) /\ m >= o
  <2> HIDE DEF data
  <2>1. QED
    BY <1>1, <1>2
<1>5. o <= bytes /\ Len(p) <= MaxPartial /\ w.era <= n
  BY DEF StateOK
<1>6. v.offset <= bytes /\ Len(v.partial) <= MaxPartial /\ v.era <= n
  <2> HIDE DEF v, k, data, all
  <2>1. m <= bytes
    BY <1>1, <1>2, <1>4, <1>5
  <2>2. Len(v.partial) <= MaxPartial
    <3>1. all \in Seq(Byte)
      BY <1>1, <1>2 DEF all
    <3>2. Len(rest) \in Nat
      BY <3>1, SplitTypes
    <3>3. QED
      BY <1>1, <1>3, <1>4, <1>5, <3>2
  <2>3. QED
    BY <1>1, <1>3, <1>5, <2>1, <2>2
<1>7. CASE Outdated(w, n)
  <2>1. Regrow \/ Len(s) < o
    BY <1>7 DEF StateOK
  <2>2. o > 0 /\ w.era # n
    BY <1>7 DEF Outdated
  <2> HIDE DEF v, k, data, all, rest
  <2>3. Outdated(v, n)
    BY <1>1, <1>3, <1>4, <2>2 DEF Outdated
  <2>4. Regrow \/ (Len(s) < v.offset /\ Len(v.lines) = 0)
    BY <1>1, <1>2, <1>3, <1>4, <2>1
  <2>5. StateOK(v, s, n, bytes)
    BY <1>6, <2>3, <2>4 DEF StateOK
  <2>6. HandOK(v, s, n, dealt, evs)
    <3>1. \A i \in 1 .. Len(v.lines) : TakenFrom(v.lines[i], evs)
      BY <2>4 DEF TakenFrom
    <3>2. QED
      BY <2>3, <3>1 DEF HandOK
  <2>7. QED
    BY <2>5, <2>6 DEF v
<1>8. CASE ~Outdated(w, n)
  <2>1. o \in 0 .. Len(s) /\ Alike(Remainder(UpTo(o, s)), p)
    BY <1>1, <1>8 DEF StateOK
  <2>2. k <= dealt
    BY <1>8 DEF LinesCovered
  <2>3. m \in o .. Len(s) /\ m \in 0 .. Len(s)
    <3> HIDE DEF data
    <3>1. QED
      BY <1>1, <1>2, <1>4, <2>1
  <2>4. ~Outdated(v, n)
    <3> HIDE DEF v, k, data, all, rest
    <3>1. v.era = n \/ (o = 0 /\ v.era = n) \/ w.era = n
      BY <1>1, <1>3, <1>8 DEF Outdated
    <3>2. CASE o = 0
      BY <1>3, <3>2 DEF Outdated
    <3>3. CASE o # 0
      <4>1. w.era = n
        BY <1>1, <1>8, <3>3 DEF Outdated
      <4>2. QED
        BY <1>3, <3>3, <4>1 DEF Outdated
    <3>4. QED
      BY <3>2, <3>3
  <2>5. \A i \in 0 .. Len(s) : RestOK(Remainder(UpTo(i, s)))
    BY DEF FileOK
  <2>6. CASE data = <<>>
    <3> HIDE DEF v, k, data, all, rest
    <3>1. v.offset = o /\ v.partial = p /\ v.lines = <<>> /\ v.first = k
      BY <1>3, <1>4, <2>6
    <3>2. StateOK(v, s, n, bytes)
      BY <1>6, <2>1, <2>4, <3>1 DEF StateOK
    <3>3. SplitLines(UpTo(o, s)) \in Seq(Seq(Byte))
      BY <2>1, UpToIs, SplitTypes
    <3>4. k \in Nat
      BY <3>3 DEF k
    <3>5. k + 0 = k
      BY <3>4
    <3>6. HandOK(v, s, n, dealt, evs)
      BY <1>4, <2>2, <2>4, <3>1, <3>5 DEF HandOK, k
    <3>7. QED
      BY <3>2, <3>6 DEF v
  <2>7. CASE data # <<>>
    <3>1. Joined(s, m, all, Len(all), k)
      BY <1>1, <2>1, <2>5, ReadJoins
    <3>2. all \in Seq(Byte)
      <4> HIDE DEF data
      <4>1. QED
        BY <1>1, <1>2
    <3> HIDE DEF v, k, data, all, rest, m
    <3>3. UpTo(Len(all), all) = all
      BY <3>2, UpToEnd
    <3> DEFINE la == SplitLines(all)
               ls == SplitLines(UpTo(m, s))
               r  == Remainder(UpTo(m, s))
    <3>4. /\ Len(ls) = k + Len(la)
          /\ \A i \in 1 .. Len(la) : Alike(ls[k + i], la[i])
          /\ Alike(r, rest)
      BY <3>1, <3>3 DEF Joined, rest
    <3>5. RestOK(r)
      BY <2>3, <2>5
    <3>6. Alike(r, v.partial)
      <4>1. CASE Len(rest) > MaxPartial
        BY <1>3, <2>7, <3>4, <3>5, <4>1, LongRest
      <4>2. CASE ~(Len(rest) > MaxPartial)
        BY <1>3, <2>7, <3>4, <4>2
      <4>3. QED
        BY <4>1, <4>2
    <3>7. StateOK(v, s, n, bytes)
      <4>1. v.offset = m /\ m <= Len(s)
        BY <1>3, <2>3
      <4>2. QED
        BY <1>6, <2>4, <3>6, <4>1 DEF StateOK
    <3>8. /\ Len(ls) <= Len(SplitLines(s))
          /\ \A i \in 1 .. Len(ls) : SplitLines(s)[i] = ls[i]
      <4>1. UpTo(Len(s), s) = s /\ Len(s) \in m .. Len(s)
        BY <1>1, <2>3, UpToEnd
      <4>2. QED
        BY <2>3, <4>1, LinesPrefix
    <3>9. ls \in Seq(Seq(Byte)) /\ la \in Seq(Seq(Byte)) /\ SplitLines(s) \in Seq(Seq(Byte))
          /\ SplitLines(UpTo(o, s)) \in Seq(Seq(Byte))
      BY <2>1, <2>3, <3>2, UpToIs, SplitTypes
    <3>10. k \in Nat /\ Len(la) \in Nat /\ Len(ls) \in Nat /\ Len(SplitLines(s)) \in Nat
      BY <3>9 DEF k
    <3> HIDE DEF la, ls, r
    <3>11. ASSUME NEW i \in 1 .. Len(la)
           PROVE  /\ Alike(SplitLines(s)[k + i], la[i])
                  /\ TakenFrom(la[i], evs)
      <4>1. k + i \in 1 .. Len(ls) /\ k + i \in 1 .. Len(SplitLines(s))
        BY <3>4, <3>8, <3>10
      <4>2. Alike(SplitLines(s)[k + i], la[i])
        BY <3>4, <3>8, <4>1
      <4>3. LineOK(SplitLines(s)[k + i]) /\ Parse(SplitLines(s)[k + i]) \in evs \cup {Invalid}
        BY <4>1 DEF FileOK
      <4>4. LineOK(la[i]) /\ Parse(la[i]) = Parse(SplitLines(s)[k + i])
        BY <4>2, <4>3, AlikeIs
      <4>5. QED
        BY <4>2, <4>3, <4>4 DEF TakenFrom
    <3>12. v.lines = la /\ v.first = k /\ v.offset = m
      BY <1>3, <2>7 DEF la
    <3>13. HandOK(v, s, n, dealt, evs)
      BY <2>2, <2>4, <3>4, <3>11, <3>12 DEF HandOK, ls
    <3>14. QED
      BY <3>7, <3>13 DEF v
  <2>8. QED
    BY <2>6, <2>7
<1>9. QED
  BY <1>7, <1>8

\* A line in hand is dealt with.
LEMMA DealOK ==
  ASSUME NEW s \in Seq(Byte), NEW w \in Works, NEW v \in Works, NEW n \in Nat, NEW bytes,
         NEW dealt \in Nat, dealt <= Len(SplitLines(s)), NEW evs, NEW more,
         StateOK(w, s, n, bytes), HandOK(w, s, n, dealt, evs), w.lines # <<>>,
         v.offset = w.offset, v.era = w.era, v.lines = Tail(w.lines), v.first = w.first + 1,
         more = IF w.era = n /\ dealt <= w.first THEN w.first + 1 ELSE dealt
  PROVE  /\ HandOK(v, s, n, more, evs)
         /\ more \in Nat /\ dealt <= more /\ more <= Len(SplitLines(s))
         /\ more # dealt => /\ more = dealt + 1
                            /\ Alike(SplitLines(s)[dealt + 1], Head(w.lines))
<1>1. w.offset \in Nat /\ w.first \in Nat /\ w.lines \in Seq(Seq(Byte)) /\ w.era \in Nat
  BY DEF Works
<1>2. /\ Len(w.lines) \in Nat /\ Len(w.lines) # 0 /\ Len(v.lines) = Len(w.lines) - 1
      /\ Head(w.lines) = w.lines[1]
      /\ \A i \in 1 .. Len(v.lines) : v.lines[i] = w.lines[i + 1]
  BY <1>1
<1>3. Outdated(v, n) <=> Outdated(w, n)
  BY DEF Outdated
<1>4. Len(SplitLines(s)) \in Nat
  BY SplitTypes
<1>5. ASSUME NEW i \in 1 .. Len(v.lines)
      PROVE  TakenFrom(v.lines[i], evs)
  <2>1. i + 1 \in 1 .. Len(w.lines) /\ v.lines[i] = w.lines[i + 1]
    BY <1>2
  <2>2. \A j \in 1 .. Len(w.lines) : TakenFrom(w.lines[j], evs)
    BY DEF HandOK
  <2>3. QED
    BY <2>1, <2>2
<1>6. CASE Outdated(w, n)
  <2>1. more = dealt
    BY <1>6 DEF Outdated
  <2>2. HandOK(v, s, n, more, evs)
    BY <1>3, <1>5, <1>6 DEF HandOK
  <2>3. QED
    BY <2>1, <2>2
<1>7. CASE ~Outdated(w, n)
  <2>1. /\ w.first <= dealt
        /\ w.first + Len(w.lines) = Len(SplitLines(UpTo(w.offset, s)))
        /\ \A i \in 1 .. Len(w.lines) : Alike(SplitLines(s)[w.first + i], w.lines[i])
    BY <1>7 DEF HandOK
  <2>2. w.offset \in 0 .. Len(s)
    BY <1>1, <1>7 DEF StateOK
  <2>3. Len(SplitLines(UpTo(w.offset, s))) <= Len(SplitLines(s))
    <3>1. UpTo(Len(s), s) = s /\ Len(s) \in w.offset .. Len(s)
      BY <2>2, UpToEnd
    <3>2. QED
      BY <2>2, <3>1, LinesPrefix
  <2>4. w.era = n
    <3>1. CASE w.offset = 0
      <4>1. SplitLines(UpTo(0, s)) = <<>> /\ Len(<<>>) = 0
        BY SplitNone
      <4>2. QED
        BY <1>1, <1>2, <2>1, <3>1, <4>1
    <3>2. CASE w.offset # 0
      BY <1>1, <1>7, <3>2 DEF Outdated
    <3>3. QED
      BY <3>1, <3>2
  <2>5. /\ more \in Nat /\ dealt <= more /\ w.first + 1 <= more
        /\ more # dealt => dealt = w.first /\ more = w.first + 1
    BY <1>1, <2>1, <2>4
  <2>6. w.first + Len(w.lines) <= Len(SplitLines(s))
    BY <2>1, <2>3
  <2>7. more <= Len(SplitLines(s))
    BY <1>1, <1>2, <1>4, <2>5, <2>6
  <2>8. Alike(SplitLines(s)[w.first + 1], Head(w.lines))
    BY <1>2, <2>1
  <2>9. ASSUME NEW i \in 1 .. Len(v.lines)
        PROVE  Alike(SplitLines(s)[v.first + i], v.lines[i])
    <3>1. i + 1 \in 1 .. Len(w.lines) /\ v.lines[i] = w.lines[i + 1]
      BY <1>2
    <3>2. v.first + i = w.first + (i + 1)
      BY <1>1
    <3>3. QED
      BY <2>1, <3>1, <3>2
  <2>10. v.first + Len(v.lines) = w.first + Len(w.lines)
    BY <1>1, <1>2
  <2>11. HandOK(v, s, n, more, evs)
    BY <1>5, <2>1, <2>5, <2>9, <2>10 DEF HandOK
  <2>12. QED
    BY <2>5, <2>7, <2>8, <2>11
<1>8. QED
  BY <1>6, <1>7

-----------------------------------------------------------------------------
(* The invariant *)

\* A fault costs one of the faults that are left.
LEMMA FaultIs ==
  ASSUME IngestTypes, Fault
  PROVE  /\ budget' \in [bytes : [Files -> Nat], replaced : 0 .. MaxReplaced, faults : 0 .. MaxFaults]
         /\ budget'.bytes = budget.bytes
<1> DEFINE Budgets == [bytes : [Files -> Nat], replaced : 0 .. MaxReplaced, faults : 0 .. MaxFaults]
<1>1. budget \in Budgets
  BY DEF IngestTypes
<1>2. budget.bytes \in [Files -> Nat] /\ budget.replaced \in 0 .. MaxReplaced
      /\ budget.faults \in 0 .. MaxFaults
  BY <1>1
<1>3. budget' = [budget EXCEPT !.faults = @ - 1] /\ budget.faults > 0
  BY DEF Fault
<1>4. budget.faults - 1 \in 0 .. MaxFaults
  BY <1>2, <1>3, IngestAssumption
<1>5. QED
  BY <1>1, <1>3, <1>4

\* What the agent has in hand on its way to the next file.
LEMMA IdleIs ==
  Idle \in Works /\ Idle.offset = 0 /\ Idle.partial = <<>> /\ Idle.era = 0
<1>1. <<>> \in Seq(Byte) /\ <<>> \in Seq(Seq(Byte)) /\ 0 \in 0 .. MaxAlerts
  BY IngestAssumption
<1>2. QED
  BY <1>1 DEF Idle, Works

\* The first file of the scan is one.
LEMMA FirstFile ==
  ASSUME IngestTypes, todo # <<>>
  PROVE  todo[1] \in Files
<1>1. todo \in Seq(Files)
  BY DEF IngestTypes
<1>2. QED
  BY <1>1

\* The way to the next file.
LEMMA NextFileIs ==
  ASSUME IngestTypes, todo # <<>>, NextFile
  PROVE  /\ todo' \in Seq(Files) /\ Len(todo') <= MaxPerScan
         /\ place' \in {"prune", "stat"} /\ (place' = "stat" => todo' # <<>>)
         /\ work' \in Works
<1>1. todo \in Seq(Files) /\ Len(todo) <= MaxPerScan /\ MaxPerScan \in Nat
  BY IngestAssumption DEF IngestTypes
<1>2. Len(todo) \in Nat /\ Len(todo) # 0
  BY <1>1
<1>3. todo' = Tail(todo) /\ work' = Idle /\ place' = IF Len(todo) = 1 THEN "prune" ELSE "stat"
  BY DEF NextFile
<1>4. todo' \in Seq(Files) /\ Len(todo') = Len(todo) - 1
  BY <1>1, <1>2, <1>3
<1>5. place' = "stat" => Len(todo') # 0
  BY <1>2, <1>3, <1>4
<1>6. place' = "stat" => todo' # <<>>
  <2>1. Len(<<>>) = 0
    OBVIOUS
  <2>2. QED
    BY <1>5, <2>1
<1>7. Len(todo') <= MaxPerScan
  BY <1>1, <1>2, <1>4
<1>8. place' \in {"prune", "stat"} /\ work' \in Works
  BY <1>3, IdleIs
<1>9. QED
  BY <1>4, <1>6, <1>7, <1>8

\* What holds of each file stays when its bytes, its state and the tables do.
LEMMA EachFileStays ==
  ASSUME IngestInv, UNCHANGED <<file, era, seen, cursor, done, alerted>>,
         budget'.bytes = budget.bytes
  PROVE  \A f \in Files : EachFile(f)'
BY DEF IngestInv, EachFile

\* Nothing is said of the agent where no file is in hand.
LEMMA NothingInHand ==
  ASSUME ~(place' \in {"read", "lines"})
  PROVE  InHand(todo[1])'
BY DEF InHand, InWork

\* Initially.
LEMMA IngestInitInv == IngestInit => IngestInv
<1> SUFFICES ASSUME IngestInit PROVE IngestInv
  OBVIOUS
<1> USE DEF IngestInit
<1>1. IngestTypes
  <2>1. Fresh \in Cursors
    BY DEF Fresh, Cursors
  <2>2. budget \in [bytes : [Files -> Nat], replaced : 0 .. MaxReplaced, faults : 0 .. MaxFaults]
    BY IngestAssumption DEF Files
  <2>3. /\ file \in [Files -> Seq(Byte)] /\ era \in [Files -> Nat]
        /\ seen \in [Files -> SUBSET Events] /\ old \in SUBSET Events
        /\ done \in [Files -> Nat] /\ pruned \in [Files -> SUBSET Events]
        /\ alerted \in [Files -> SUBSET Seq(Byte)]
    OBVIOUS
  <2>4. todo \in Seq(Files) /\ Len(todo) <= MaxPerScan /\ at \in 0 .. (NFiles - 1)
    BY IngestAssumption
  <2>5. cursor \in [Files -> Cursors] /\ rows \in [Files -> [Events -> {0, 1}]]
    BY <2>1
  <2>6. QED
    BY <2>2, <2>3, <2>4, <2>5, IdleIs DEF IngestTypes
<1>2. ASSUME NEW f \in Files
      PROVE  EachFile(f)
  <2>1. file[f] = <<>> /\ cursor[f] = Fresh /\ era[f] = 0 /\ done[f] = 0 /\ seen[f] = {} /\ alerted[f] = {}
        /\ budget.bytes[f] = MaxBytes[f] /\ MaxBytes[f] \in Nat
    BY IngestAssumption DEF Files
  <2>2. <<>> \in Seq(Byte) /\ Len(<<>>) = 0
    OBVIOUS
  <2>3. SplitLines(UpTo(0, <<>>)) = <<>> /\ Remainder(UpTo(0, <<>>)) = <<>> /\ UpTo(0, <<>>) = <<>>
    <3>1. UpTo(0, <<>>) = <<>>
      <4>1. 0 \in Nat /\ 0 >= Len(<<>>)
        BY <2>2
      <4>2. QED
        BY <2>2, <4>1, UpToEnd
    <3>2. QED
      BY <2>2, <3>1, SplitNone
  <2>4. SplitLines(<<>>) = <<>>
    BY <2>3
  <2>5. RestOK(<<>>)
    BY DEF RestOK, Pads
  <2>6. FileOK(<<>>, {})
    <3>1. \A n \in 0 .. 0 : RestOK(Remainder(UpTo(n, <<>>)))
      BY <2>3, <2>5
    <3>2. QED
      BY <2>2, <2>4, <3>1 DEF FileOK
  <2>7. StateOK(Fresh, <<>>, 0, MaxBytes[f]) /\ LinesCovered(Fresh, <<>>, 0, 0)
    BY <2>1, <2>2, FreshOK
  <2>8. MaxBytes[f] + 0 <= MaxBytes[f]
    BY <2>1
  <2>9. QED
    BY <2>1, <2>2, <2>4, <2>6, <2>7, <2>8 DEF EachFile
<1>3. place = "wait" /\ todo = <<>>
  OBVIOUS
<1>4. QED
  BY <1>1, <1>2, <1>3 DEF IngestInv

\* A step that leaves the file that is in hand.
LEMMA LeaveFileInv ==
  ASSUME IngestInv, todo # <<>>, NextFile, Fault, UNCHANGED <<outside, database, at>>
  PROVE  IngestInv'
<1>1. IngestTypes
  BY DEF IngestInv
<1>2. UNCHANGED <<file, era, seen, old, cursor, rows, pruned, alerted, done, at>>
  BY DEF outside, database
<1>3. IngestTypes'
  BY <1>1, <1>2, NextFileIs, FaultIs DEF IngestTypes
<1>4. \A f \in Files : EachFile(f)'
  BY <1>1, <1>2, FaultIs, EachFileStays
<1>5. place' \in {"prune", "stat"} /\ (place' = "stat" => todo' # <<>>)
  BY <1>1, NextFileIs
<1>6. InHand(todo[1])'
  BY <1>5, NothingInHand
<1>7. QED
  BY <1>3, <1>4, <1>5, <1>6 DEF IngestInv

\* The types of what is said of a file.
LEMMA FileTypes ==
  ASSUME IngestTypes, NEW f \in Files
  PROVE  /\ file[f] \in Seq(Byte) /\ era[f] \in Nat /\ seen[f] \in SUBSET Events
         /\ cursor[f] \in Cursors /\ done[f] \in Nat /\ alerted[f] \in SUBSET Seq(Byte)
         /\ cursor[f].offset \in Nat /\ cursor[f].partial \in Seq(Byte) /\ cursor[f].era \in Nat
         /\ budget.bytes[f] \in Nat /\ MaxBytes[f] \in Nat /\ Len(file[f]) \in Nat
<1>1. /\ file[f] \in Seq(Byte) /\ era[f] \in Nat /\ seen[f] \in SUBSET Events
      /\ cursor[f] \in Cursors /\ done[f] \in Nat /\ alerted[f] \in SUBSET Seq(Byte)
  BY DEF IngestTypes
<1>2. budget.bytes \in [Files -> Nat]
  BY DEF IngestTypes
<1>3. MaxBytes[f] \in Nat
  BY IngestAssumption DEF Files
<1>4. QED
  BY <1>1, <1>2, <1>3 DEF Cursors

\* The types of what is in hand.
LEMMA WorkTypes ==
  ASSUME IngestTypes
  PROVE  /\ work \in Works /\ work.offset \in Nat /\ work.partial \in Seq(Byte) /\ work.era \in Nat
         /\ work.lines \in Seq(Seq(Byte)) /\ work.first \in Nat /\ work.alerts \in 0 .. MaxAlerts
BY DEF IngestTypes, Works

\* WriteByte: the line goes on, or ends.
LEMMA WriteByteInv ==
  ASSUME IngestInv, NEW f \in Files, WriteByte(f)
  PROVE  IngestInv'
<1>1. IngestTypes /\ \A g \in Files : EachFile(g)
  BY DEF IngestInv
<1>2. PICK b \in NextBytes(file[f]) :
        /\ file' = [file EXCEPT ![f] = Append(@, b)]
        /\ seen' = [seen EXCEPT ![f] =
                      @ \cup (IF b = Newline THEN {Parse(Remainder(file[f]))} \ {Invalid} ELSE {})]
  BY DEF WriteByte
<1>3. /\ budget.bytes[f] > 0
      /\ ~Regrow => ~Outgrown(cursor[f], f) /\ ~(InWork /\ f = todo[1] /\ Outgrown(work, f))
      /\ budget' = [budget EXCEPT !.bytes[f] = @ - 1]
      /\ UNCHANGED <<era, old, cursor, rows, pruned, alerted, done, todo, at, place, work>>
  BY DEF WriteByte, database
<1> DEFINE s   == file[f]
           t   == Append(s, b)
           new == IF b = Newline THEN {Parse(Remainder(s))} \ {Invalid} ELSE {}
           all == seen[f] \cup new
<1>4. /\ s \in Seq(Byte) /\ Len(s) \in Nat /\ era[f] \in Nat /\ seen[f] \in SUBSET Events
      /\ cursor[f].offset \in Nat /\ cursor[f] \in Cursors /\ budget.bytes[f] \in Nat
      /\ MaxBytes[f] \in Nat /\ done[f] \in Nat
  BY <1>1, FileTypes
<1>5. FileOK(s, seen[f])
  BY <1>1 DEF EachFile
<1>6. b \in Byte
  <2>1. Len(s) \in 0 .. Len(s) /\ UpTo(Len(s), s) = s
    BY <1>4, UpToEnd
  <2>2. RestOK(Remainder(s))
    BY <1>5, <2>1 DEF FileOK
  <2>3. QED
    BY <1>2, <1>4, <2>2, NextByteIs
<1>7. FileOK(t, all)
  BY <1>2, <1>4, <1>5, AppendFileOK
<1>8. t \in Seq(Byte) /\ Len(t) = Len(s) + 1
  BY <1>4, <1>6
<1>9. new \in SUBSET Events
  BY DEF Parse
<1>10. /\ file'[f] = t /\ seen'[f] = all
       /\ \A g \in Files : g # f => file'[g] = file[g] /\ seen'[g] = seen[g]
  BY <1>1, <1>2 DEF IngestTypes
<1> DEFINE Budgets == [bytes : [Files -> Nat], replaced : 0 .. MaxReplaced, faults : 0 .. MaxFaults]
<1>11. /\ budget' \in Budgets /\ budget'.bytes[f] = budget.bytes[f] - 1
       /\ \A g \in Files : g # f => budget'.bytes[g] = budget.bytes[g]
  <2>1. budget \in Budgets /\ budget.bytes \in [Files -> Nat]
    BY <1>1 DEF IngestTypes
  <2>2. budget.bytes[f] - 1 \in Nat
    BY <1>3, <1>4
  <2>3. QED
    BY <1>3, <2>1, <2>2
<1> HIDE DEF s, t, new, all
<1>12. IngestTypes'
  <2>1. file' \in [Files -> Seq(Byte)] /\ seen' \in [Files -> SUBSET Events]
    <3>1. file \in [Files -> Seq(Byte)] /\ seen \in [Files -> SUBSET Events]
      BY <1>1 DEF IngestTypes
    <3>2. file' = [file EXCEPT ![f] = t] /\ seen' = [seen EXCEPT ![f] = all]
      BY <1>2 DEF s, t, new, all
    <3>3. all \in SUBSET Events
      BY <1>4, <1>9 DEF all
    <3>4. QED
      BY <1>8, <3>1, <3>2, <3>3
  <2>2. QED
    BY <1>1, <1>3, <1>11, <2>1 DEF IngestTypes
<1>13. Len(SplitLines(s)) \in Nat /\ Len(SplitLines(t)) \in Nat /\ Len(SplitLines(s)) <= Len(SplitLines(t))
  <2>1. SplitLines(s) \in Seq(Seq(Byte)) /\ SplitLines(t) \in Seq(Seq(Byte))
    BY <1>4, <1>8, SplitTypes
  <2>2. Len(s) \in 0 .. Len(s)
    BY <1>4
  <2>3. Len(SplitLines(s)) <= Len(SplitLines(Append(s, b)))
    BY <1>4, <1>6, <2>2, AppendKeeps
  <2>4. QED
    BY <2>1, <2>3 DEF t
<1>14. ASSUME NEW g \in Files
       PROVE  EachFile(g)'
  <2>1. CASE g # f
    <3>1. EachFile(g)
      BY <1>1
    <3>2. QED
      BY <1>3, <1>10, <1>11, <2>1, <3>1 DEF EachFile
  <2>2. CASE g = f
    <3>1. EachFile(f)
      BY <1>1
    <3>2. /\ StateOK(cursor[f], s, era[f], MaxBytes[f])
          /\ LinesCovered(cursor[f], s, era[f], done[f])
          /\ budget.bytes[f] + Len(s) <= MaxBytes[f]
          /\ done[f] <= Len(SplitLines(s))
          /\ \A l \in alerted[f] : Regrow \/ l \in Pads
      BY <3>1 DEF EachFile, s
    <3>3. ~Regrow => ~(Outdated(cursor[f], era[f]) /\ cursor[f].offset <= Len(s) + 1)
      BY <1>3 DEF Outgrown, Stale, Outdated, s
    <3>4. StateOK(cursor[f], t, era[f], MaxBytes[f])
      BY <1>4, <1>6, <3>2, <3>3, AppendStateOK DEF t
    <3>5. LinesCovered(cursor[f], t, era[f], done[f])
      BY <1>4, <1>6, <3>2, AppendCovered DEF t
    <3>6. budget'.bytes[f] + Len(t) <= MaxBytes[f] /\ done[f] <= Len(SplitLines(t))
      <4> DEFINE left == budget.bytes[f]
                 next == budget'.bytes[f]
                 size == Len(s)
                 some == Len(SplitLines(s))
                 more == Len(SplitLines(t))
      <4>1. /\ left \in Nat /\ size \in Nat /\ next = left - 1 /\ Len(t) = size + 1
            /\ left + size <= MaxBytes[f] /\ MaxBytes[f] \in Nat
            /\ done[f] \in Nat /\ some \in Nat /\ more \in Nat /\ some <= more /\ done[f] <= some
        BY <1>4, <1>8, <1>11, <1>13, <3>2 DEF s
      <4> HIDE DEF left, next, size, some, more
      <4>2. next + Len(t) <= MaxBytes[f] /\ done[f] <= more
        BY <4>1
      <4>3. QED
        BY <4>2 DEF next, more
    <3>7. QED
      BY <1>3, <1>7, <1>10, <2>2, <3>2, <3>4, <3>5, <3>6 DEF EachFile
  <2>3. QED
    BY <2>1, <2>2
<1>15. ASSUME todo # <<>>
       PROVE  InHand(todo[1])'
  <2>1. InHand(todo[1]) /\ todo[1] \in Files /\ todo' = todo
    BY <1>1, <1>3, <1>15, FirstFile DEF IngestInv
  <2>2. CASE todo[1] # f
    BY <1>3, <1>10, <2>1, <2>2 DEF InHand, InWork
  <2>3. CASE todo[1] = f
    <3>1. work \in Works /\ work.offset \in Nat
      BY <1>1, WorkTypes
    <3>2. /\ InWork => StateOK(work, s, era[f], MaxBytes[f])
          /\ place = "read" => LinesCovered(work, s, era[f], done[f])
          /\ place = "lines" => HandOK(work, s, era[f], done[f], seen[f])
      BY <2>1, <2>3 DEF InHand, s
    <3>3. ASSUME InWork
          PROVE  StateOK(work, t, era[f], MaxBytes[f])
      <4>1. ~Regrow => ~(Outdated(work, era[f]) /\ work.offset <= Len(s) + 1)
        BY <1>3, <2>3, <3>3 DEF Outgrown, Stale, Outdated, s
      <4>2. QED
        BY <1>4, <1>6, <3>1, <3>2, <3>3, <4>1, AppendStateOK DEF t
    <3>4. ASSUME place = "read"
          PROVE  LinesCovered(work, t, era[f], done[f])
      <4>1. InWork
        BY <3>4 DEF InWork
      <4>2. QED
        BY <1>4, <1>6, <3>1, <3>2, <3>4, <4>1, AppendCovered DEF t
    <3>5. ASSUME place = "lines"
          PROVE  HandOK(work, t, era[f], done[f], all)
      <4>1. InWork
        BY <3>5 DEF InWork
      <4>2. seen[f] \subseteq all
        BY DEF all
      <4>3. QED
        BY <1>4, <1>6, <3>1, <3>2, <3>5, <4>1, <4>2, AppendHandOK DEF t
    <3>6. QED
      BY <1>3, <1>10, <2>1, <2>3, <3>3, <3>4, <3>5 DEF InHand, InWork
  <2>4. QED
    BY <2>2, <2>3
<1>16. (place \in {"stat", "read", "lines"} => todo # <<>>)'
  BY <1>3 DEF IngestInv
<1>17. (todo # <<>> => InHand(todo[1]))'
  BY <1>3, <1>15
<1>18. QED
  BY <1>12, <1>14, <1>16, <1>17 DEF IngestInv

\* ReplaceFile: what was taken in the old file is outdated.
LEMMA ReplaceFileInv ==
  ASSUME IngestInv, NEW f \in Files, ReplaceFile(f)
  PROVE  IngestInv'
<1>1. IngestTypes /\ \A g \in Files : EachFile(g)
  BY DEF IngestInv
<1>2. /\ budget.replaced > 0
      /\ file' = [file EXCEPT ![f] = <<>>]
      /\ era' = [era EXCEPT ![f] = @ + 1]
      /\ done' = [done EXCEPT ![f] = 0]
      /\ budget' = [budget EXCEPT !.replaced = @ - 1]
      /\ UNCHANGED <<seen, old, cursor, rows, pruned, alerted, todo, at, place, work>>
  BY DEF ReplaceFile
<1>3. /\ file[f] \in Seq(Byte) /\ era[f] \in Nat /\ cursor[f].offset \in Nat /\ cursor[f].era \in Nat
      /\ done[f] \in Nat /\ Len(file[f]) \in Nat /\ budget.bytes[f] \in Nat /\ MaxBytes[f] \in Nat
  BY <1>1, FileTypes
<1> DEFINE Budgets == [bytes : [Files -> Nat], replaced : 0 .. MaxReplaced, faults : 0 .. MaxFaults]
<1>4. budget' \in Budgets /\ budget'.bytes = budget.bytes
  <2>1. budget \in Budgets /\ budget.replaced \in 0 .. MaxReplaced
    BY <1>1 DEF IngestTypes
  <2>2. budget.replaced - 1 \in 0 .. MaxReplaced
    BY <1>2, <2>1, IngestAssumption
  <2>3. QED
    BY <1>2, <2>1, <2>2
<1>5. /\ file'[f] = <<>> /\ era'[f] = era[f] + 1 /\ done'[f] = 0
      /\ \A g \in Files : g # f => file'[g] = file[g] /\ era'[g] = era[g] /\ done'[g] = done[g]
  BY <1>1, <1>2 DEF IngestTypes
<1>6. IngestTypes'
  <2>1. file' \in [Files -> Seq(Byte)]
    <3>1. <<>> \in Seq(Byte) /\ file \in [Files -> Seq(Byte)]
      BY <1>1 DEF IngestTypes
    <3>2. QED
      BY <1>2, <3>1
  <2>2. era' \in [Files -> Nat] /\ done' \in [Files -> Nat]
    <3>1. era \in [Files -> Nat] /\ done \in [Files -> Nat] /\ era[f] + 1 \in Nat
      BY <1>1, <1>3 DEF IngestTypes
    <3>2. QED
      BY <1>2, <3>1
  <2>3. QED
    BY <1>1, <1>2, <1>4, <2>1, <2>2 DEF IngestTypes
<1>7. Len(<<>>) = 0 /\ <<>> \in Seq(Byte) /\ SplitLines(<<>>) = <<>> /\ FileOK(<<>>, seen[f])
  <2>1. Len(<<>>) = 0 /\ <<>> \in Seq(Byte) /\ 0 \in Nat /\ 0 >= Len(<<>>)
    OBVIOUS
  <2>2. UpTo(0, <<>>) = <<>>
    BY <2>1, UpToEnd
  <2>3. SplitLines(<<>>) = <<>> /\ Remainder(<<>>) = <<>>
    BY <2>1, <2>2, SplitNone
  <2>4. RestOK(<<>>)
    BY DEF RestOK, Pads
  <2>5. \A n \in 0 .. 0 : RestOK(Remainder(UpTo(n, <<>>)))
    BY <2>2, <2>3, <2>4
  <2>6. QED
    BY <2>1, <2>3, <2>5 DEF FileOK
<1>8. ASSUME NEW g \in Files
      PROVE  EachFile(g)'
  <2>1. EachFile(g)
    BY <1>1
  <2>2. CASE g # f
    BY <1>2, <1>4, <1>5, <2>1, <2>2 DEF EachFile
  <2>3. CASE g = f
    <3>1. StateOK(cursor[f], file[f], era[f], MaxBytes[f]) /\ budget.bytes[f] + Len(file[f]) <= MaxBytes[f]
          /\ \A l \in alerted[f] : Regrow \/ l \in Pads
      BY <2>1, <2>3 DEF EachFile
    <3>2. StateOK(cursor[f], <<>>, era[f] + 1, MaxBytes[f]) /\ LinesCovered(cursor[f], <<>>, era[f] + 1, 0)
      BY <1>3, <3>1, ReplacedOK
    <3>3. budget.bytes[f] + 0 <= MaxBytes[f]
      BY <1>3, <3>1
    <3>4. QED
      BY <1>2, <1>4, <1>5, <1>7, <2>3, <3>1, <3>2, <3>3 DEF EachFile
  <2>4. QED
    BY <2>2, <2>3
<1>9. ASSUME todo # <<>>
      PROVE  InHand(todo[1])'
  <2>1. InHand(todo[1]) /\ todo[1] \in Files /\ todo' = todo
    BY <1>1, <1>2, <1>9, FirstFile DEF IngestInv
  <2>2. CASE todo[1] # f
    BY <1>2, <1>5, <2>1, <2>2 DEF InHand, InWork
  <2>3. CASE todo[1] = f
    <3>1. work \in Works /\ work.offset \in Nat /\ work.era \in Nat
      BY <1>1, WorkTypes
    <3>2. InWork => StateOK(work, <<>>, era[f] + 1, MaxBytes[f]) /\ LinesCovered(work, <<>>, era[f] + 1, 0)
      BY <1>3, <2>1, <2>3, <3>1, ReplacedOK DEF InHand
    <3>3. place = "lines" => HandOK(work, <<>>, era[f] + 1, 0, seen[f])
      BY <1>3, <2>1, <2>3, <3>1, ReplacedHandOK DEF InHand, InWork
    <3>4. QED
      BY <1>2, <1>5, <2>1, <2>3, <3>2, <3>3 DEF InHand, InWork
  <2>4. QED
    BY <2>2, <2>3
<1>10. (place \in {"stat", "read", "lines"} => todo # <<>>)'
  BY <1>2 DEF IngestInv
<1>11. (todo # <<>> => InHand(todo[1]))'
  BY <1>2, <1>9
<1>12. QED
  BY <1>6, <1>8, <1>10, <1>11 DEF IngestInv

\* Expire
LEMMA ExpireInv ==
  ASSUME IngestInv, NEW e \in Events, Expire(e)
  PROVE  IngestInv'
<1>1. /\ old' = old \cup {e}
      /\ UNCHANGED <<file, era, seen, cursor, rows, pruned, alerted, done, todo, at, place, work, budget>>
  BY DEF Expire, database
<1>2. IngestTypes'
  BY <1>1 DEF IngestInv, IngestTypes
<1>3. \A f \in Files : EachFile(f)'
  BY <1>1, EachFileStays
<1>4. (todo # <<>> => InHand(todo[1]))'
  BY <1>1 DEF IngestInv, InHand, InWork
<1>5. QED
  BY <1>1, <1>2, <1>3, <1>4 DEF IngestInv

\* Scan: the window is one of files.
LEMMA ScanInv ==
  ASSUME IngestInv, Scan
  PROVE  IngestInv'
<1>1. /\ place' = "stat"
      /\ IF NFiles > MaxPerScan
         THEN /\ todo' = [i \in 1 .. MaxPerScan |-> ((at + i - 1) % NFiles) + 1]
              /\ at' = (at + MaxPerScan) % NFiles
         ELSE todo' = [i \in Files |-> i] /\ at' = 0
      /\ UNCHANGED <<file, era, seen, old, cursor, rows, pruned, alerted, done, work, budget>>
  BY DEF Scan, outside, database
<1>2. at \in 0 .. (NFiles - 1) /\ NFiles \in Nat \ {0} /\ MaxPerScan \in Nat \ {0}
  BY IngestAssumption DEF IngestInv, IngestTypes
<1>3. todo' \in Seq(Files) /\ Len(todo') <= MaxPerScan /\ Len(todo') # 0 /\ at' \in 0 .. (NFiles - 1)
  <2>1. CASE NFiles > MaxPerScan
    <3>1. \A i \in 1 .. MaxPerScan : ((at + i - 1) % NFiles) + 1 \in Files
      BY <1>2 DEF Files
    <3>2. at' \in 0 .. (NFiles - 1)
      BY <1>1, <1>2, <2>1
    <3>3. todo' = [i \in 1 .. MaxPerScan |-> ((at + i - 1) % NFiles) + 1]
      BY <1>1, <2>1
    <3>4. QED
      BY <1>2, <3>1, <3>2, <3>3
  <2>2. CASE ~(NFiles > MaxPerScan)
    <3>1. todo' = [i \in 1 .. NFiles |-> i] /\ at' = 0
      BY <1>1, <2>2 DEF Files
    <3>2. todo' \in Seq(Files) /\ Len(todo') = NFiles
      BY <1>2, <3>1 DEF Files
    <3>3. QED
      BY <1>2, <2>2, <3>1, <3>2
  <2>3. QED
    BY <2>1, <2>2
<1>4. IngestTypes'
  BY <1>1, <1>3 DEF IngestInv, IngestTypes
<1>5. \A f \in Files : EachFile(f)'
  BY <1>1, EachFileStays
<1>6. InHand(todo[1])'
  BY <1>1, NothingInHand
<1>7. todo' # <<>>
  <2>1. Len(<<>>) = 0
    OBVIOUS
  <2>2. QED
    BY <1>3, <2>1
<1>8. QED
  BY <1>4, <1>5, <1>6, <1>7 DEF IngestInv

\* Stat: the stored state, or none.
LEMMA StatInv ==
  ASSUME IngestInv, Stat
  PROVE  IngestInv'
<1> DEFINE f == todo[1]
           c == IF Len(file[f]) < cursor[f].offset THEN Fresh ELSE cursor[f]
<1>1. /\ place = "stat" /\ place' = "read"
      /\ work' = [Idle EXCEPT !.offset = c.offset, !.partial = c.partial, !.era = c.era]
      /\ UNCHANGED <<file, era, seen, old, cursor, rows, pruned, alerted, done, todo, at, budget>>
  BY DEF Stat, outside, database
<1>2. IngestTypes /\ (\A g \in Files : EachFile(g)) /\ todo # <<>>
  BY <1>1 DEF IngestInv
<1>3. f \in Files
  BY <1>2, FirstFile
<1>4. /\ file[f] \in Seq(Byte) /\ era[f] \in Nat /\ cursor[f] \in Cursors /\ done[f] \in Nat
      /\ MaxBytes[f] \in Nat
  BY <1>2, <1>3, FileTypes
<1>5. c \in Cursors /\ StateOK(c, file[f], era[f], MaxBytes[f]) /\ LinesCovered(c, file[f], era[f], done[f])
  <2>1. StateOK(cursor[f], file[f], era[f], MaxBytes[f]) /\ LinesCovered(cursor[f], file[f], era[f], done[f])
    BY <1>2, <1>3 DEF EachFile
  <2>2. Fresh \in Cursors
    BY DEF Fresh, Cursors
  <2>3. QED
    BY <1>4, <2>1, <2>2, FreshOK
<1> HIDE DEF c
<1>6. c.offset \in Nat /\ c.partial \in Seq(Byte) /\ c.era \in Nat
  BY <1>5 DEF Cursors
<1>7. work' \in Works /\ work'.offset = c.offset /\ work'.partial = c.partial /\ work'.era = c.era
  BY <1>1, <1>6, IdleIs DEF Works
<1> HIDE DEF f
<1>8. StateOK(work', file[f], era[f], MaxBytes[f]) /\ LinesCovered(work', file[f], era[f], done[f])
  BY <1>5, <1>7, SameStateOK
<1>9. IngestTypes'
  BY <1>1, <1>2, <1>7 DEF IngestTypes
<1>10. \A g \in Files : EachFile(g)'
  BY <1>1, EachFileStays
<1>11. InHand(todo[1])'
  BY <1>1, <1>8 DEF InHand, InWork, f
<1>12. QED
  BY <1>1, <1>2, <1>9, <1>10, <1>11 DEF IngestInv

\* Read
LEMMA ReadInv ==
  ASSUME IngestInv, Read
  PROVE  IngestInv'
<1> DEFINE f == todo[1]
<1>1. /\ place = "read" /\ place' = "lines"
      /\ work' = AfterRead(work, file[f], era[f])
      /\ UNCHANGED <<file, era, seen, old, cursor, rows, pruned, alerted, done, todo, at, budget>>
  BY DEF Read, AfterRead, outside, database
<1>2. IngestTypes /\ (\A g \in Files : EachFile(g)) /\ todo # <<>> /\ InHand(f)
  BY <1>1 DEF IngestInv
<1>3. f \in Files
  BY <1>2, FirstFile
<1>4. /\ file[f] \in Seq(Byte) /\ era[f] \in Nat /\ done[f] \in Nat /\ MaxBytes[f] \in Nat
      /\ Len(file[f]) \in Nat /\ budget.bytes[f] \in Nat
  BY <1>2, <1>3, FileTypes
<1>5. FileOK(file[f], seen[f]) /\ budget.bytes[f] + Len(file[f]) <= MaxBytes[f]
  BY <1>2, <1>3 DEF EachFile
<1>6. work \in Works /\ StateOK(work, file[f], era[f], MaxBytes[f])
      /\ LinesCovered(work, file[f], era[f], done[f])
  BY <1>1, <1>2, WorkTypes DEF InHand, InWork
<1>7. Len(file[f]) <= MaxBytes[f]
  BY <1>4, <1>5
<1> HIDE DEF f
<1>8. /\ StateOK(work', file[f], era[f], MaxBytes[f])
      /\ HandOK(work', file[f], era[f], done[f], seen[f])
  BY <1>1, <1>4, <1>5, <1>6, <1>7, ReadOK
<1>9. work' \in Works
  BY <1>1, <1>4, <1>6, AfterReadIs
<1>10. IngestTypes'
  BY <1>1, <1>2, <1>9 DEF IngestTypes
<1>11. \A g \in Files : EachFile(g)'
  BY <1>1, EachFileStays
<1>12. InHand(todo[1])'
  BY <1>1, <1>8 DEF InHand, InWork, f
<1>13. QED
  BY <1>1, <1>2, <1>10, <1>11, <1>12 DEF IngestInv

\* What Insert and Report make of the lines that have been dealt with.
DoneNext(f) == IF work.era = era[f] /\ done[f] <= work.first
               THEN [done EXCEPT ![f] = work.first + 1] ELSE done

\* It is the next one, or one that was dealt with before or is of the file before.
LEMMA DoneNextIs ==
  ASSUME IngestInv, place = "lines", work.lines # <<>>, done' = DoneNext(todo[1])
  PROVE  LET f == todo[1] IN
         /\ f \in Files /\ done' \in [Files -> Nat]
         /\ \A g \in Files : g # f => done'[g] = done[g]
         /\ done'[f] = IF work.era = era[f] /\ done[f] <= work.first THEN work.first + 1 ELSE done[f]
<1> DEFINE f == todo[1]
<1>1. IngestTypes /\ todo # <<>>
  BY DEF IngestInv
<1>2. f \in Files
  BY <1>1, FirstFile
<1>3. done \in [Files -> Nat] /\ work.first + 1 \in Nat
  <2>1. done \in [Files -> Nat]
    BY <1>1 DEF IngestTypes
  <2>2. work.first \in Nat
    BY <1>1, WorkTypes
  <2>3. QED
    BY <2>1, <2>2
<1> HIDE DEF f
<1>4. done' = IF work.era = era[f] /\ done[f] <= work.first THEN [done EXCEPT ![f] = work.first + 1] ELSE done
  BY DEF DoneNext, f
<1>5. /\ done' \in [Files -> Nat]
      /\ \A g \in Files : g # f => done'[g] = done[g]
      /\ done'[f] = IF work.era = era[f] /\ done[f] <= work.first THEN work.first + 1 ELSE done[f]
  BY <1>2, <1>3, <1>4
<1>6. QED
  BY <1>2, <1>5 DEF f

\* A line in hand is dealt with; w is the work left.
LEMMA DealIs ==
  ASSUME IngestInv, place = "lines", work.lines # <<>>, done' = DoneNext(todo[1]),
         NEW w \in Works, w.offset = work.offset, w.era = work.era,
         w.lines = Tail(work.lines), w.first = work.first + 1
  PROVE  LET f == todo[1] IN
         /\ HandOK(w, file[f], era[f], done'[f], seen[f])
         /\ done'[f] \in Nat /\ done[f] <= done'[f] /\ done'[f] <= Len(SplitLines(file[f]))
         /\ done'[f] # done[f] => /\ done'[f] = done[f] + 1
                                  /\ Alike(SplitLines(file[f])[done[f] + 1], Head(work.lines))
<1> DEFINE f == todo[1]
           s == file[f]
           n == era[f]
           dealt == done[f]
           more == done'[f]
           evs == seen[f]
           bytes == MaxBytes[f]
<1>1. IngestTypes /\ todo # <<>> /\ (\A g \in Files : EachFile(g)) /\ InHand(f)
  BY DEF IngestInv
<1>2. f \in Files
  BY <1>1, FirstFile
<1>3. s \in Seq(Byte) /\ n \in Nat /\ dealt \in Nat
  BY <1>1, <1>2, FileTypes
<1>4. dealt <= Len(SplitLines(s))
  BY <1>1, <1>2 DEF EachFile
<1>5. work \in Works /\ StateOK(work, s, n, bytes) /\ HandOK(work, s, n, dealt, evs)
  BY <1>1, WorkTypes DEF InHand, InWork
<1>6. more = IF work.era = n /\ dealt <= work.first THEN work.first + 1 ELSE dealt
  BY DoneNextIs
<1> HIDE DEF s, n, dealt, more, evs, bytes
<1>7. /\ HandOK(w, s, n, more, evs)
      /\ more \in Nat /\ dealt <= more /\ more <= Len(SplitLines(s))
      /\ more # dealt => more = dealt + 1 /\ Alike(SplitLines(s)[dealt + 1], Head(work.lines))
  BY <1>3, <1>4, <1>5, <1>6, DealOK
<1>8. QED
  BY <1>7 DEF s, n, dealt, more, evs

\* The step keeps the invariant, whatever it does to the tables besides.
LEMMA DealInv ==
  ASSUME IngestInv, place = "lines", work.lines # <<>>, done' = DoneNext(todo[1]),
         work' \in Works, work'.offset = work.offset, work'.partial = work.partial, work'.era = work.era,
         work'.lines = Tail(work.lines), work'.first = work.first + 1,
         rows' \in [Files -> [Events -> {0, 1}]], alerted' \in [Files -> SUBSET Seq(Byte)],
         \A f \in Files : \A l \in alerted'[f] : Regrow \/ l \in Pads,
         UNCHANGED <<outside, cursor, pruned, todo, at, place, budget>>
  PROVE  IngestInv'
<1> DEFINE f == todo[1]
<1>1. UNCHANGED <<file, era, seen, old, cursor, pruned, todo, at, place, budget>>
  BY DEF outside
<1>2. IngestTypes /\ todo # <<>> /\ (\A g \in Files : EachFile(g)) /\ InHand(f)
  BY DEF IngestInv
<1>3. /\ f \in Files /\ done' \in [Files -> Nat]
      /\ \A g \in Files : g # f => done'[g] = done[g]
  BY DoneNextIs
<1>4. /\ HandOK(work', file[f], era[f], done'[f], seen[f])
      /\ done'[f] \in Nat /\ done[f] <= done'[f] /\ done'[f] <= Len(SplitLines(file[f]))
  BY DealIs
<1> HIDE DEF f
<1>5. IngestTypes'
  BY <1>1, <1>2, <1>3 DEF IngestTypes
<1>6. ASSUME NEW g \in Files
      PROVE  EachFile(g)'
  <2>1. EachFile(g)
    BY <1>2
  <2>2. LinesCovered(cursor[g], file[g], era[g], done'[g]) /\ done'[g] <= Len(SplitLines(file[g]))
    <3>1. LinesCovered(cursor[g], file[g], era[g], done[g]) /\ StateOK(cursor[g], file[g], era[g], MaxBytes[g])
          /\ done[g] <= Len(SplitLines(file[g]))
      BY <2>1 DEF EachFile
    <3>2. CASE g = f
      <4>1. file[f] \in Seq(Byte) /\ done[f] \in Nat /\ cursor[f].offset \in Nat
        BY <1>2, <1>3, FileTypes
      <4>2. LinesCovered(cursor[f], file[f], era[f], done'[f])
        BY <1>4, <3>1, <3>2, <4>1, MoreDealt
      <4>3. QED
        BY <1>4, <3>2, <4>2
    <3>3. CASE g # f
      BY <1>3, <3>1, <3>3
    <3>4. QED
      BY <3>2, <3>3
  <2>3. QED
    BY <1>1, <2>1, <2>2 DEF EachFile
<1>7. StateOK(work', file[f], era[f], MaxBytes[f])
  <2>1. StateOK(work, file[f], era[f], MaxBytes[f])
    BY <1>2 DEF InHand, InWork
  <2>2. QED
    BY <2>1, SameStateOK
<1>8. InHand(todo[1])'
  BY <1>1, <1>4, <1>7 DEF InHand, InWork, f
<1>9. QED
  BY <1>1, <1>2, <1>5, <1>6, <1>8 DEF IngestInv

\* The first line in hand.
LEMMA HeadIs ==
  ASSUME IngestInv, place = "lines", work.lines # <<>>
  PROVE  /\ Head(work.lines) \in Seq(Byte)
         /\ Parse(Head(work.lines)) \in Events \cup {Invalid}
         /\ TakenFrom(Head(work.lines), seen[todo[1]])
<1>1. IngestTypes /\ todo # <<>> /\ InHand(todo[1])
  BY DEF IngestInv
<1>2. work.lines \in Seq(Seq(Byte))
  BY <1>1, WorkTypes
<1>3. 1 \in 1 .. Len(work.lines) /\ Head(work.lines) = work.lines[1] /\ Head(work.lines) \in Seq(Byte)
  BY <1>2
<1>4. HandOK(work, file[todo[1]], era[todo[1]], done[todo[1]], seen[todo[1]])
  BY <1>1 DEF InHand
<1>5. TakenFrom(work.lines[1], seen[todo[1]])
  BY <1>3, <1>4 DEF HandOK
<1>6. Parse(Head(work.lines)) \in Events \cup {Invalid}
  BY DEF Parse
<1>7. QED
  BY <1>3, <1>5, <1>6

\* The work without its first line.
LEMMA WorkTail ==
  ASSUME IngestTypes, work.lines # <<>>
  PROVE  LET w == [work EXCEPT !.lines = Tail(@), !.first = @ + 1]
         IN  /\ w \in Works
             /\ w.offset = work.offset /\ w.partial = work.partial /\ w.era = work.era
             /\ w.lines = Tail(work.lines) /\ w.first = work.first + 1 /\ w.alerts = work.alerts
<1>1. /\ work \in Works /\ work.lines \in Seq(Seq(Byte)) /\ work.first \in Nat
  BY WorkTypes
<1>2. Tail(work.lines) \in Seq(Seq(Byte)) /\ work.first + 1 \in Nat
  BY <1>1
<1>3. QED
  BY <1>1, <1>2 DEF Works

\* Insert
LEMMA InsertInv ==
  ASSUME IngestInv, Insert
  PROVE  IngestInv'
<1> DEFINE f == todo[1]
           e == Parse(Head(work.lines))
<1>1. /\ place = "lines" /\ work.lines # <<>> /\ e # Invalid
      /\ rows' = [rows EXCEPT ![f][e] = IF @ > 0 THEN @ ELSE 1]
      /\ work' = [work EXCEPT !.lines = Tail(@), !.first = @ + 1]
      /\ done' = DoneNext(f)
      /\ UNCHANGED <<outside, cursor, pruned, alerted, todo, at, place, budget>>
  BY DEF Insert, Dealt, DoneNext
<1>2. IngestTypes /\ todo # <<>> /\ \A g \in Files : EachFile(g)
  BY <1>1 DEF IngestInv
<1>3. f \in Files /\ e \in Events
  BY <1>1, <1>2, FirstFile, HeadIs
<1>4. rows' \in [Files -> [Events -> {0, 1}]]
  <2>1. rows \in [Files -> [Events -> {0, 1}]]
    BY <1>2 DEF IngestTypes
  <2>2. (IF rows[f][e] > 0 THEN rows[f][e] ELSE 1) \in {0, 1}
    BY <1>3, <2>1
  <2> HIDE DEF f, e
  <2>3. QED
    BY <1>1, <1>3, <2>1, <2>2
<1>5. alerted' \in [Files -> SUBSET Seq(Byte)]
      /\ \A g \in Files : \A l \in alerted'[g] : Regrow \/ l \in Pads
  BY <1>1, <1>2 DEF IngestTypes, EachFile
<1>6. /\ work' \in Works /\ work'.offset = work.offset /\ work'.partial = work.partial
      /\ work'.era = work.era /\ work'.lines = Tail(work.lines) /\ work'.first = work.first + 1
  BY <1>1, <1>2, WorkTail
<1>7. QED
  BY <1>1, <1>4, <1>5, <1>6, DealInv

\* Report: what is reported is no event.
LEMMA ReportInv ==
  ASSUME IngestInv, Report
  PROVE  IngestInv'
<1> DEFINE f == todo[1]
           l == Head(work.lines)
<1>1. /\ place = "lines" /\ work.lines # <<>> /\ Parse(l) = Invalid
      /\ done' = DoneNext(f)
      /\ UNCHANGED <<outside, cursor, rows, pruned, todo, at, place, budget>>
      /\ \/ /\ work.alerts < MaxAlerts
            /\ alerted' = [alerted EXCEPT ![f] = @ \cup {l}]
            /\ work' = [work EXCEPT !.lines = Tail(@), !.first = @ + 1, !.alerts = @ + 1]
         \/ /\ work' = [work EXCEPT !.lines = Tail(@), !.first = @ + 1]
            /\ UNCHANGED alerted
  BY DEF Report, DoneNext
<1>2. IngestTypes /\ todo # <<>> /\ \A g \in Files : EachFile(g)
  BY <1>1 DEF IngestInv
<1>3. f \in Files /\ l \in Seq(Byte) /\ TakenFrom(l, seen[f])
  BY <1>1, <1>2, FirstFile, HeadIs
<1>4. Regrow \/ l \in Pads
  <2>1. ASSUME NEW e \in Events, l = EventLine(e)
        PROVE  FALSE
    BY <1>1, <2>1, EventLineIs, IngestAssumption
  <2>2. QED
    BY <1>3, <2>1 DEF TakenFrom, LineOK
<1>5. alerted \in [Files -> SUBSET Seq(Byte)]
      /\ \A g \in Files : \A k \in alerted[g] : Regrow \/ k \in Pads
  BY <1>2 DEF IngestTypes, EachFile
<1> HIDE DEF f, l
<1>6. alerted' \in [Files -> SUBSET Seq(Byte)]
      /\ \A g \in Files : \A k \in alerted'[g] : Regrow \/ k \in Pads
  <2>1. CASE alerted' = [alerted EXCEPT ![f] = @ \cup {l}]
    <3>1. /\ alerted'[f] = alerted[f] \cup {l}
          /\ \A g \in Files : g # f => alerted'[g] = alerted[g]
      BY <1>3, <1>5, <2>1
    <3>2. \A g \in Files : \A k \in alerted'[g] : Regrow \/ k \in Pads
      BY <1>3, <1>4, <1>5, <3>1
    <3>3. alerted[f] \cup {l} \in SUBSET Seq(Byte)
      BY <1>3, <1>5
    <3>4. QED
      BY <1>3, <1>5, <2>1, <3>2, <3>3
  <2>2. CASE UNCHANGED alerted
    BY <1>5, <2>2
  <2>3. QED
    BY <1>1, <2>1, <2>2
<1>7. /\ work' \in Works /\ work'.offset = work.offset /\ work'.partial = work.partial
      /\ work'.era = work.era /\ work'.lines = Tail(work.lines) /\ work'.first = work.first + 1
  <2>1. CASE work' = [work EXCEPT !.lines = Tail(@), !.first = @ + 1]
    BY <1>1, <1>2, <2>1, WorkTail
  <2>2. CASE work' = [work EXCEPT !.lines = Tail(@), !.first = @ + 1, !.alerts = @ + 1]
            /\ work.alerts < MaxAlerts
    <3>1. /\ work \in Works /\ work.lines \in Seq(Seq(Byte)) /\ work.first \in Nat
          /\ work.alerts \in 0 .. MaxAlerts
      BY <1>2, WorkTypes
    <3>2. Tail(work.lines) \in Seq(Seq(Byte)) /\ work.first + 1 \in Nat
      BY <1>1, <3>1
    <3>3. work.alerts + 1 \in 0 .. MaxAlerts
      BY <2>2, <3>1, IngestAssumption
    <3>4. QED
      BY <2>2, <3>1, <3>2, <3>3 DEF Works
  <2>3. QED
    BY <1>1, <2>1, <2>2
<1>8. rows' \in [Files -> [Events -> {0, 1}]]
  BY <1>1, <1>2 DEF IngestTypes
<1>9. done' = DoneNext(todo[1])
  BY <1>1 DEF f
<1>10. QED
  BY <1>1, <1>6, <1>7, <1>8, <1>9, DealInv

\* Save: with no line left, all before the offset have been dealt with.
LEMMA SaveInv ==
  ASSUME IngestInv, Save
  PROVE  IngestInv'
<1> DEFINE f == todo[1]
           c == [offset |-> work.offset, partial |-> work.partial, era |-> work.era]
<1>1. /\ place = "lines" /\ work.lines = <<>>
      /\ cursor' = [cursor EXCEPT ![f] = c]
      /\ NextFile
      /\ UNCHANGED <<file, era, seen, old, rows, pruned, alerted, done, at, budget>>
  BY DEF Save, outside
<1>2. IngestTypes /\ todo # <<>> /\ (\A g \in Files : EachFile(g)) /\ InHand(f)
  BY <1>1 DEF IngestInv
<1>3. f \in Files
  BY <1>2, FirstFile
<1>4. work.offset \in Nat /\ work.partial \in Seq(Byte) /\ work.era \in Nat /\ work.first \in Nat
  BY <1>2, WorkTypes
<1>5. c \in Cursors /\ c.offset = work.offset /\ c.partial = work.partial /\ c.era = work.era
  BY <1>4 DEF Cursors
<1> HIDE DEF f, c
<1>6. StateOK(work, file[f], era[f], MaxBytes[f]) /\ HandOK(work, file[f], era[f], done[f], seen[f])
  BY <1>1, <1>2 DEF InHand, InWork
<1>7. LinesCovered(work, file[f], era[f], done[f])
  <2>1. Len(work.lines) = 0 /\ work.first + 0 = work.first
    BY <1>1, <1>4
  <2>2. QED
    BY <1>6, <2>1 DEF HandOK, LinesCovered
<1>8. StateOK(c, file[f], era[f], MaxBytes[f]) /\ LinesCovered(c, file[f], era[f], done[f])
  BY <1>5, <1>6, <1>7, SameStateOK
<1>9. /\ cursor' \in [Files -> Cursors] /\ cursor'[f] = c
      /\ \A g \in Files : g # f => cursor'[g] = cursor[g]
  <2>1. cursor \in [Files -> Cursors]
    BY <1>2 DEF IngestTypes
  <2>2. QED
    BY <1>1, <1>3, <1>5, <2>1
<1>10. IngestTypes'
  BY <1>1, <1>2, <1>9, NextFileIs DEF IngestTypes
<1>11. ASSUME NEW g \in Files
       PROVE  EachFile(g)'
  <2>1. EachFile(g)
    BY <1>2
  <2>2. StateOK(cursor'[g], file[g], era[g], MaxBytes[g]) /\ LinesCovered(cursor'[g], file[g], era[g], done[g])
    <3>1. CASE g = f
      BY <1>8, <1>9, <3>1
    <3>2. CASE g # f
      BY <1>9, <2>1, <3>2 DEF EachFile
    <3>3. QED
      BY <3>1, <3>2
  <2>3. QED
    BY <1>1, <2>1, <2>2 DEF EachFile
<1>12. place' \in {"prune", "stat"} /\ (place' = "stat" => todo' # <<>>)
  BY <1>1, <1>2, NextFileIs
<1>13. InHand(todo[1])'
  BY <1>12, NothingInHand
<1>14. QED
  BY <1>10, <1>11, <1>12, <1>13 DEF IngestInv

\* A step that ends a scan, or starts the daemon again.
LEMMA WaitInv ==
  ASSUME IngestInv, place' = "wait",
         UNCHANGED <<file, era, seen, old, cursor, alerted, done>>,
         rows' \in [Files -> [Events -> {0, 1}]], pruned' \in [Files -> SUBSET Events],
         todo' \in Seq(Files), Len(todo') <= MaxPerScan, at' \in 0 .. (NFiles - 1), work' \in Works,
         budget' = budget \/ Fault
  PROVE  IngestInv'
<1>1. IngestTypes
  BY DEF IngestInv
<1>2. /\ budget' \in [bytes : [Files -> Nat], replaced : 0 .. MaxReplaced, faults : 0 .. MaxFaults]
      /\ budget'.bytes = budget.bytes
  BY <1>1, FaultIs DEF IngestTypes
<1>3. IngestTypes'
  BY <1>1, <1>2 DEF IngestTypes
<1>4. \A f \in Files : EachFile(f)'
  BY <1>2, EachFileStays
<1>5. InHand(todo[1])'
  BY NothingInHand
<1>6. QED
  BY <1>3, <1>4, <1>5 DEF IngestInv

\* Prune, PruneLater, PruneFails and Restart
LEMMA EndOfScanInv ==
  ASSUME IngestInv, Prune \/ PruneLater \/ PruneFails \/ Restart
  PROVE  IngestInv'
<1>1. IngestTypes
  BY DEF IngestInv
<1>2. CASE Prune
  <2>1. rows \in [Files -> [Events -> {0, 1}]] /\ pruned \in [Files -> SUBSET Events]
        /\ old \in SUBSET Events
    BY <1>1 DEF IngestTypes
  <2>2. rows' = [f \in Files |-> [e \in Events |-> IF e \in old THEN 0 ELSE rows[f][e]]]
        /\ pruned' = [f \in Files |-> pruned[f] \cup {e \in old : rows[f][e] > 0}]
    BY <1>2 DEF Prune
  <2>3. rows' \in [Files -> [Events -> {0, 1}]] /\ pruned' \in [Files -> SUBSET Events]
    BY <2>1, <2>2
  <2>4. UNCHANGED <<file, era, seen, old, cursor, alerted, done, todo, at, work, budget>> /\ place' = "wait"
    BY <1>2 DEF Prune, outside
  <2>5. QED
    BY <1>1, <2>3, <2>4, WaitInv DEF IngestTypes
<1>3. CASE PruneLater \/ PruneFails
  <2>1. UNCHANGED <<file, era, seen, old, cursor, rows, pruned, alerted, done, todo, at, work>>
        /\ place' = "wait" /\ (budget' = budget \/ Fault)
    BY <1>3 DEF PruneLater, PruneFails, outside, database
  <2>2. QED
    BY <1>1, <2>1, WaitInv DEF IngestTypes
<1>4. CASE Restart
  <2>1. UNCHANGED <<file, era, seen, old, cursor, rows, pruned, alerted, done>>
        /\ place' = "wait" /\ todo' = <<>> /\ at' = 0 /\ work' = Idle /\ Fault
    BY <1>4 DEF Restart, outside, database
  <2>2. todo' \in Seq(Files) /\ Len(todo') <= MaxPerScan /\ at' \in 0 .. (NFiles - 1)
    BY <2>1, IngestAssumption
  <2>3. QED
    BY <1>1, <2>1, <2>2, IdleIs, WaitInv DEF IngestTypes
<1>5. QED
  BY <1>2, <1>3, <1>4

\* Every step keeps the invariant.
LEMMA IngestNextInv == IngestInv /\ [IngestNext]_IngestVars => IngestInv'
<1> SUFFICES ASSUME IngestInv, [IngestNext]_IngestVars PROVE IngestInv'
  OBVIOUS
<1>1. ASSUME SkipFile \/ InsertFails \/ SaveFails
      PROVE  IngestInv'
  <2>1. /\ place \in {"stat", "lines"} /\ NextFile /\ Fault
        /\ UNCHANGED <<outside, database, at>>
    BY <1>1 DEF SkipFile, InsertFails, SaveFails
  <2>2. todo # <<>>
    BY <2>1 DEF IngestInv
  <2>3. QED
    BY <2>1, <2>2, LeaveFileInv
<1>2. CASE Agent
  BY <1>1, <1>2, ScanInv, StatInv, ReadInv, InsertInv, ReportInv, SaveInv, EndOfScanInv DEF Agent
<1>3. CASE \E f \in Files : WriteByte(f) \/ ReplaceFile(f)
  BY <1>3, WriteByteInv, ReplaceFileInv
<1>4. CASE \E e \in Events : Expire(e)
  BY <1>4, ExpireInv
<1>5. CASE Restart
  BY <1>5, EndOfScanInv
<1>6. CASE UNCHANGED IngestVars
  <2>1. UNCHANGED <<file, era, seen, old, cursor, rows, pruned, alerted, done, todo, at, place, work, budget>>
    BY <1>6 DEF IngestVars, outside, database
  <2>2. IngestTypes'
    BY <2>1 DEF IngestInv, IngestTypes
  <2>3. \A f \in Files : EachFile(f)'
    BY <2>1, EachFileStays
  <2>4. (todo # <<>> => InHand(todo[1]))'
    BY <2>1 DEF IngestInv, InHand, InWork
  <2>5. QED
    BY <2>1, <2>2, <2>3, <2>4 DEF IngestInv
<1>7. QED
  BY <1>2, <1>3, <1>4, <1>5, <1>6 DEF IngestNext

\* It holds in every state.
LEMMA IngestAlwaysInv == IngestSpec => []IngestInv
BY IngestInitInv, IngestNextInv, PTL DEF IngestSpec

\* The variables have their types, and the cursor stays in the file, or where the file
\* it was taken in ended.
THEOREM IngestTypeCorrect == IngestSpec => []IngestTypeOK
<1>1. IngestInv => IngestTypeOK
  <2> SUFFICES ASSUME IngestInv PROVE IngestTypeOK
    OBVIOUS
  <2>1. IngestTypes /\ \A f \in Files : EachFile(f)
    BY DEF IngestInv
  <2>2. ASSUME NEW f \in Files
        PROVE  /\ cursor[f].offset \in 0 .. MaxBytes[f]
               /\ cursor[f].partial \in Seq(Byte) /\ Len(cursor[f].partial) <= MaxPartial
               /\ cursor[f].era \in 0 .. era[f]
               /\ done[f] \in 0 .. Len(SplitLines(file[f]))
               /\ seen[f] \subseteq Events
               /\ pruned[f] \subseteq Events
               /\ budget.bytes[f] \in 0 .. MaxBytes[f]
    <3>1. /\ cursor[f].offset \in Nat /\ cursor[f].partial \in Seq(Byte) /\ cursor[f].era \in Nat
          /\ done[f] \in Nat /\ seen[f] \subseteq Events /\ era[f] \in Nat
          /\ budget.bytes[f] \in Nat /\ MaxBytes[f] \in Nat /\ Len(file[f]) \in Nat
          /\ file[f] \in Seq(Byte)
      BY <2>1, FileTypes
    <3>2. /\ cursor[f].offset <= MaxBytes[f] /\ Len(cursor[f].partial) <= MaxPartial
          /\ cursor[f].era <= era[f] /\ done[f] <= Len(SplitLines(file[f]))
          /\ budget.bytes[f] + Len(file[f]) <= MaxBytes[f]
      BY <2>1 DEF EachFile, StateOK
    <3>3. SplitLines(file[f]) \in Seq(Seq(Byte))
      BY <3>1, SplitTypes
    <3>4. Len(SplitLines(file[f])) \in Nat /\ pruned[f] \subseteq Events
      BY <2>1, <3>3 DEF IngestTypes
    <3>5. budget.bytes[f] <= MaxBytes[f]
      <4> DEFINE left == budget.bytes[f]
                 size == Len(file[f])
      <4>1. left \in Nat /\ size \in Nat /\ left + size <= MaxBytes[f] /\ MaxBytes[f] \in Nat
        BY <3>1, <3>2
      <4> HIDE DEF left, size
      <4>2. left <= MaxBytes[f]
        BY <4>1
      <4>3. QED
        BY <4>2 DEF left
    <3>6. QED
      BY <3>1, <3>2, <3>4, <3>5
  <2>3. InWork => work.offset \in 0 .. MaxBytes[todo[1]]
    <3>1. ASSUME InWork
          PROVE  work.offset \in 0 .. MaxBytes[todo[1]]
      <4>1. todo # <<>> /\ InHand(todo[1])
        BY <3>1 DEF IngestInv, InWork
      <4>2. work.offset <= MaxBytes[todo[1]] /\ work.offset \in Nat
        BY <2>1, <3>1, <4>1, WorkTypes DEF InHand, StateOK
      <4>3. MaxBytes[todo[1]] \in Nat
        BY <2>1, <4>1, FirstFile, FileTypes
      <4>4. QED
        BY <4>2, <4>3
    <3>2. QED
      BY <3>1
  <2>4. /\ work.alerts \in 0 .. MaxAlerts
        /\ budget.replaced \in 0 .. MaxReplaced /\ budget.faults \in 0 .. MaxFaults
    BY <2>1, WorkTypes DEF IngestTypes
  <2>5. QED
    BY <2>1, <2>2, <2>3, <2>4 DEF IngestTypeOK, IngestTypes
<1>2. QED
  BY <1>1, IngestAlwaysInv, PTL

\* Save (api_integrations_ingest_agent.go:218): the stored state never runs ahead of the
\* tables, however reads, failures, restarts and replaced files fall; every line before the
\* offset has been dealt with.
THEOREM CursorAlwaysCoversDealtLines == IngestSpec => []CursorCoversDealtLines
<1>1. IngestInv => CursorCoversDealtLines
  BY DEF IngestInv, EachFile, LinesCovered, Outdated, CursorCoversDealtLines, Stale
<1>2. QED
  BY <1>1, IngestAlwaysInv, PTL

\* Read (api_integrations_ingest_agent.go:162-177): where replaced files come back shorter, no
\* event is ever put together wrongly or cut in two, so only padding is reported.
THEOREM NoEventIsEverTorn ==
  ASSUME ~Regrow
  PROVE  IngestSpec => []NoEventIsTorn
<1>1. IngestInv => NoEventIsTorn
  <2> SUFFICES ASSUME IngestInv, NEW f \in Files, NEW l \in alerted[f], NEW i \in DOMAIN l
               PROVE  l[i] = Pad
    BY DEF NoEventIsTorn
  <2>1. l \in Pads
    BY DEF IngestInv, EachFile
  <2>2. l \in Seq(Byte) /\ \A j \in 1 .. Len(l) : l[j] = Pad
    BY <2>1, PadsIs
  <2>3. i \in 1 .. Len(l)
    BY <2>2
  <2>4. QED
    BY <2>2, <2>3
<1>2. QED
  BY <1>1, IngestAlwaysInv, PTL

-----------------------------------------------------------------------------
(* The ledger *)

\* The refinement mapping.
LedgerLines   == [f \in Files |-> LinesOf(f)]
LedgerCounted == [f \in Files |-> {e \in Events : rows[f][e] > 0} \cup pruned[f]]

\* Mapped lines: as many as the lines, each the event of it.
LEMMA LinesOfIs ==
  ASSUME IngestTypes, NEW f \in Files
  PROVE  /\ LedgerLines[f] = LinesOf(f) /\ LinesOf(f) \in Seq(Events \cup {Invalid})
         /\ Len(LinesOf(f)) = Len(SplitLines(file[f])) /\ Len(LinesOf(f)) \in Nat
         /\ \A i \in 1 .. Len(LinesOf(f)) : LinesOf(f)[i] = Parse(SplitLines(file[f])[i])
<1> DEFINE ls == SplitLines(file[f])
<1>1. ls \in Seq(Seq(Byte))
  BY FileTypes, SplitTypes
<1>2. LinesOf(f) = [i \in DOMAIN ls |-> Parse(ls[i])]
  BY DEF LinesOf
<1>3. \A l : Parse(l) \in Events \cup {Invalid}
  BY DEF Parse
<1> HIDE DEF ls
<1>4. DOMAIN ls = 1 .. Len(ls) /\ Len(ls) \in Nat
  BY <1>1
<1>5. LinesOf(f) \in Seq(Events \cup {Invalid}) /\ Len(LinesOf(f)) = Len(ls)
      /\ \A i \in 1 .. Len(ls) : LinesOf(f)[i] = Parse(ls[i])
  BY <1>2, <1>3, <1>4
<1>6. QED
  BY <1>4, <1>5 DEF LedgerLines, ls

\* Where nothing the ledger sees changes, it stands still.
LEMMA LedgerStands ==
  ASSUME UNCHANGED <<file, seen, rows, pruned, done>>
  PROVE  UNCHANGED Ledger!ledger
<1>1. \A f \in Files : LinesOf(f)' = LinesOf(f)
  BY DEF LinesOf
<1>2. QED
  BY <1>1 DEF Ledger!ledger

\* A byte in a line is none of the ledger's business; a newline writes a line.
LEMMA WriteByteWrites ==
  ASSUME IngestInv, IngestInv', NEW f \in Files, WriteByte(f)
  PROVE  Ledger!LedgerNext \/ UNCHANGED Ledger!ledger
<1>1. IngestTypes /\ IngestTypes' /\ EachFile(f)
  BY DEF IngestInv
<1>2. PICK b \in NextBytes(file[f]) :
        /\ file' = [file EXCEPT ![f] = Append(@, b)]
        /\ seen' = [seen EXCEPT ![f] =
                      @ \cup (IF b = Newline THEN {Parse(Remainder(file[f]))} \ {Invalid} ELSE {})]
  BY DEF WriteByte
<1>3. UNCHANGED <<rows, pruned, done>>
  BY DEF WriteByte, database
<1> DEFINE s  == file[f]
           ls == SplitLines(s)
           r  == Remainder(s)
           l  == Parse(r)
<1>4. s \in Seq(Byte) /\ ls \in Seq(Seq(Byte)) /\ r \in Seq(Byte) /\ seen[f] \subseteq Events
  BY <1>1, FileTypes, SplitTypes
<1>5. b \in Byte
  <2>1. FileOK(s, seen[f])
    BY <1>1 DEF EachFile
  <2>2. UpTo(Len(s), s) = s /\ Len(s) \in 0 .. Len(s)
    BY <1>4, UpToEnd
  <2>3. RestOK(r)
    BY <2>1, <2>2 DEF FileOK
  <2>4. QED
    BY <1>2, <1>4, <2>3, NextByteIs
<1>6. IF b = Newline THEN SplitLines(Append(s, b)) = Append(ls, r) ELSE SplitLines(Append(s, b)) = ls
  BY <1>4, <1>5, SplitAppend
<1>7. /\ file'[f] = Append(s, b)
      /\ \A g \in Files : g # f => file'[g] = file[g]
  BY <1>1, <1>2 DEF IngestTypes
<1>8. \A g \in Files : g # f => LinesOf(g)' = LinesOf(g)
  BY <1>7 DEF LinesOf
<1>9. LinesOf(f) = [i \in DOMAIN ls |-> Parse(ls[i])]
      /\ LinesOf(f)' = [i \in DOMAIN SplitLines(file'[f]) |-> Parse(SplitLines(file'[f])[i])]
  BY DEF LinesOf, Parse, EventLine
<1>10. l \in Events \cup {Invalid}
  BY DEF Parse
<1> HIDE DEF s, ls, r, l
<1>11. CASE b = Newline
  <2> DEFINE next == Append(ls, r)
             a == LinesOf(f)
             c == LinesOf(f)'
  <2>1. SplitLines(file'[f]) = next
    BY <1>6, <1>7, <1>11
  <2>2. /\ next \in Seq(Seq(Byte)) /\ Len(next) = Len(ls) + 1 /\ Len(ls) \in Nat
        /\ next[Len(ls) + 1] = r /\ \A i \in 1 .. Len(ls) : next[i] = ls[i]
    BY <1>4
  <2>3. a = [i \in 1 .. Len(ls) |-> Parse(ls[i])] /\ c = [i \in 1 .. Len(ls) + 1 |-> Parse(next[i])]
    BY <1>4, <1>9, <2>1, <2>2
  <2>4. \A k : Parse(k) \in Events \cup {Invalid}
    BY DEF Parse
  <2> HIDE DEF next, a, c
  <2>5. c = Append(a, l)
    <3> DEFINE d == Append(a, l)
    <3>1. /\ a \in Seq(Events \cup {Invalid}) /\ Len(a) = Len(ls)
          /\ \A i \in 1 .. Len(ls) : a[i] = Parse(ls[i])
      BY <2>2, <2>3, <2>4
    <3>2. /\ c \in Seq(Events \cup {Invalid}) /\ Len(c) = Len(ls) + 1
          /\ \A i \in 1 .. Len(ls) + 1 : c[i] = Parse(next[i])
      BY <2>2, <2>3, <2>4
    <3>3. /\ d \in Seq(Events \cup {Invalid}) /\ Len(d) = Len(ls) + 1 /\ d[Len(ls) + 1] = l
          /\ \A i \in 1 .. Len(ls) : d[i] = a[i]
      BY <1>10, <3>1
    <3> HIDE DEF d
    <3>4. \A i \in 1 .. Len(c) : c[i] = d[i]
      <4>1. c[Len(ls) + 1] = d[Len(ls) + 1]
        <5>1. Len(ls) + 1 \in 1 .. Len(ls) + 1
          BY <2>2
        <5>2. c[Len(ls) + 1] = Parse(next[Len(ls) + 1])
          BY <3>2, <5>1
        <5>3. QED
          BY <2>2, <3>3, <5>2 DEF l
      <4>2. \A i \in 1 .. Len(ls) : c[i] = d[i]
        BY <2>2, <3>1, <3>2, <3>3
      <4>3. \A i \in 1 .. Len(c) : i \in 1 .. Len(ls) \/ i = Len(ls) + 1
        BY <2>2, <3>2
      <4>4. QED
        BY <4>1, <4>2, <4>3
    <3>5. c = d
      BY <3>2, <3>3, <3>4, SeqEqual
    <3>6. QED
      BY <3>5 DEF d
  <2>6. LedgerLines' = [LedgerLines EXCEPT ![f] = Append(@, l)]
    <3>1. \A g \in Files : LinesOf(g)' = IF g = f THEN Append(LinesOf(f), l) ELSE LinesOf(g)
      BY <1>8, <2>5 DEF a, c
    <3>2. QED
      BY <3>1 DEF LedgerLines
  <2>7. seen' = [seen EXCEPT ![f] = @ \cup ({l} \ {Invalid})]
    BY <1>2, <1>11 DEF l, r, s
  <2>8. LedgerCounted' = LedgerCounted
    BY <1>3 DEF LedgerCounted
  <2>9. Ledger!WriteLine(f, l)
    BY <1>3, <2>6, <2>7, <2>8 DEF Ledger!WriteLine, LedgerLines, LedgerCounted
  <2>10. QED
    BY <1>10, <2>9 DEF Ledger!LedgerNext
<1>12. CASE b # Newline
  <2>1. LinesOf(f)' = LinesOf(f)
    BY <1>6, <1>7, <1>9, <1>12
  <2>2. LedgerLines' = LedgerLines
    BY <1>8, <2>1 DEF LedgerLines
  <2>3. seen' = seen
    <3>1. seen \in [Files -> SUBSET Events]
      BY <1>1 DEF IngestTypes
    <3>2. QED
      BY <1>2, <1>12, <3>1
  <2>4. QED
    BY <1>3, <2>2, <2>3 DEF Ledger!ledger, LedgerLines
<1>13. QED
  BY <1>11, <1>12

\* A file that is replaced is so in the ledger.
LEMMA ReplaceFileReplaces ==
  ASSUME IngestInv, NEW f \in Files, ReplaceFile(f)
  PROVE  Ledger!LedgerNext
<1>1. file \in [Files -> Seq(Byte)] /\ done \in [Files -> Nat]
  BY DEF IngestInv, IngestTypes
<1>2. /\ file' = [file EXCEPT ![f] = <<>>] /\ done' = [done EXCEPT ![f] = 0]
      /\ UNCHANGED <<seen, rows, pruned>>
  BY DEF ReplaceFile
<1>3. file'[f] = <<>> /\ \A g \in Files : g # f => file'[g] = file[g]
  BY <1>1, <1>2
<1>4. \A g \in Files : g # f => LinesOf(g)' = LinesOf(g)
  BY <1>3 DEF LinesOf
<1>5. LinesOf(f)' = <<>>
  <2>1. SplitLines(<<>>) = <<>>
    <3>1. <<>> \in Seq(Byte) /\ 0 \in Nat /\ 0 >= Len(<<>>)
      OBVIOUS
    <3>2. UpTo(0, <<>>) = <<>>
      BY <3>1, UpToEnd
    <3>3. QED
      BY <3>1, <3>2, SplitNone
  <2>2. LinesOf(f)' = [i \in DOMAIN SplitLines(file'[f]) |-> Parse(SplitLines(file'[f])[i])]
    BY DEF LinesOf, Parse, EventLine
  <2>3. LinesOf(f)' = [i \in {} |-> Parse(<<>>[i])]
    BY <1>3, <2>1, <2>2
  <2>4. QED
    BY <2>3
<1>6. LedgerLines' = [LedgerLines EXCEPT ![f] = <<>>]
  <2>1. \A g \in Files : LinesOf(g)' = IF g = f THEN <<>> ELSE LinesOf(g)
    BY <1>4, <1>5
  <2>2. QED
    BY <2>1 DEF LedgerLines
<1>7. LedgerCounted' = LedgerCounted
  BY <1>2 DEF LedgerCounted
<1>8. Ledger!Replace(f)
  BY <1>2, <1>6, <1>7 DEF Ledger!Replace, LedgerLines, LedgerCounted
<1>9. QED
  BY <1>8 DEF Ledger!LedgerNext

\* A line that is dealt with for the first time is the next one of the ledger.
LEMMA NextLine ==
  ASSUME IngestInv, place = "lines", work.lines # <<>>, done' = DoneNext(todo[1]),
         done'[todo[1]] # done[todo[1]]
  PROVE  LET f == todo[1] IN
         /\ done[f] < Len(LedgerLines[f]) /\ done' = [done EXCEPT ![f] = @ + 1]
         /\ LedgerLines[f][done[f] + 1] = Parse(Head(work.lines))
<1> DEFINE f == todo[1]
           w == [work EXCEPT !.lines = Tail(@), !.first = @ + 1]
<1>1. IngestTypes
  BY DEF IngestInv
<1>2. /\ w \in Works /\ w.offset = work.offset /\ w.era = work.era
      /\ w.lines = Tail(work.lines) /\ w.first = work.first + 1
  BY <1>1, WorkTail
<1>3. /\ done'[f] = done[f] + 1 /\ done'[f] <= Len(SplitLines(file[f]))
      /\ Alike(SplitLines(file[f])[done[f] + 1], Head(work.lines))
  <2> HIDE DEF w
  <2>1. QED
    BY <1>2, DealIs
<1>4. f \in Files /\ done' \in [Files -> Nat] /\ \A g \in Files : g # f => done'[g] = done[g]
  BY DoneNextIs
<1>5. done \in [Files -> Nat]
  BY <1>1 DEF IngestTypes
<1> HIDE DEF f
<1>6. done' = [done EXCEPT ![f] = @ + 1]
  BY <1>3, <1>4, <1>5
<1>7. /\ LedgerLines[f] = LinesOf(f) /\ Len(LinesOf(f)) = Len(SplitLines(file[f])) /\ Len(LinesOf(f)) \in Nat
      /\ \A i \in 1 .. Len(LinesOf(f)) : LinesOf(f)[i] = Parse(SplitLines(file[f])[i])
  BY <1>1, <1>4, LinesOfIs
<1>8. done[f] \in Nat /\ done[f] < Len(LinesOf(f)) /\ done[f] + 1 \in 1 .. Len(LinesOf(f))
  BY <1>3, <1>4, <1>5, <1>7
<1>9. Parse(SplitLines(file[f])[done[f] + 1]) = Parse(Head(work.lines))
  BY <1>3, AlikeIs
<1>10. QED
  BY <1>6, <1>7, <1>8, <1>9 DEF f

\* An event that is inserted is counted: as the next line, or as one read before.
LEMMA InsertDeals ==
  ASSUME ~Regrow, IngestInv, Insert
  PROVE  Ledger!LedgerNext
<1> DEFINE f == todo[1]
           e == Parse(Head(work.lines))
<1>1. /\ place = "lines" /\ work.lines # <<>> /\ e # Invalid
      /\ rows' = [rows EXCEPT ![f][e] = IF @ > 0 THEN @ ELSE 1]
      /\ done' = DoneNext(f)
      /\ UNCHANGED <<file, seen, pruned>>
  BY DEF Insert, Dealt, DoneNext, outside
<1>2. IngestTypes /\ todo # <<>>
  BY <1>1 DEF IngestInv
<1>3. f \in Files /\ e \in Events /\ e \in seen[f]
  <2>1. f \in Files /\ e \in Events
    BY <1>1, <1>2, FirstFile, HeadIs
  <2>2. TakenFrom(Head(work.lines), seen[f])
    BY <1>1, HeadIs
  <2>3. QED
    BY <1>1, <2>1, <2>2 DEF TakenFrom
<1>4. LedgerLines' = LedgerLines
  <2>1. \A g \in Files : LinesOf(g)' = LinesOf(g)
    BY <1>1 DEF LinesOf
  <2>2. QED
    BY <2>1 DEF LedgerLines
<1>5. LedgerCounted' = [LedgerCounted EXCEPT ![f] = @ \cup {e}]
  <2> HIDE DEF f, e
  <2>1. rows \in [Files -> [Events -> {0, 1}]]
    BY <1>2 DEF IngestTypes
  <2>2. \A g \in Files, d \in Events :
           rows'[g][d] = IF g = f /\ d = e THEN 1 ELSE rows[g][d]
    BY <1>1, <1>3, <2>1
  <2>3. \A g \in Files : ({d \in Events : rows'[g][d] > 0} \cup pruned[g]) =
           IF g = f THEN ({d \in Events : rows[g][d] > 0} \cup pruned[g]) \cup {e}
           ELSE {d \in Events : rows[g][d] > 0} \cup pruned[g]
    <3>1. ASSUME NEW g \in Files, g = f
          PROVE  {d \in Events : rows'[g][d] > 0} = {d \in Events : rows[g][d] > 0} \cup {e}
      <4>1. \A d \in Events : rows'[g][d] > 0 <=> rows[g][d] > 0 \/ d = e
        BY <1>3, <2>1, <2>2, <3>1
      <4>2. QED
        BY <1>3, <4>1
    <3>2. ASSUME NEW g \in Files, g # f
          PROVE  {d \in Events : rows'[g][d] > 0} = {d \in Events : rows[g][d] > 0}
      BY <2>2, <3>2
    <3>3. QED
      BY <3>1, <3>2
  <2>4. LedgerCounted' = [g \in Files |-> {d \in Events : rows'[g][d] > 0} \cup pruned[g]]
    BY <1>1 DEF LedgerCounted
  <2>5. QED
    BY <1>3, <2>3, <2>4 DEF LedgerCounted
<1>6. seen' = seen
  BY <1>1
<1>7. CASE done'[f] # done[f]
  <2>1. /\ done[f] < Len(LedgerLines[f]) /\ done' = [done EXCEPT ![f] = @ + 1]
        /\ LedgerLines[f][done[f] + 1] = e
    BY <1>1, <1>7, NextLine
  <2> HIDE DEF f, e
  <2>2. {e} \ {Invalid} = {e}
    BY <1>1
  <2>3. LedgerCounted' = [LedgerCounted EXCEPT ![f] = @ \cup ({LedgerLines[f][done[f] + 1]} \ {Invalid})]
    BY <1>5, <2>1, <2>2
  <2>4. PICK g \in Files : g = f
    BY <1>3
  <2>5. Ledger!Deal(g)
    BY <1>4, <1>6, <2>1, <2>3, <2>4 DEF Ledger!Deal, LedgerLines, LedgerCounted
  <2>6. QED
    BY <2>5 DEF Ledger!LedgerNext
<1>8. CASE done'[f] = done[f]
  <2>1. done' = done
    <3>1. /\ done' \in [Files -> Nat] /\ done \in [Files -> Nat]
          /\ \A g \in Files : g # f => done'[g] = done[g]
      BY <1>1, <1>2, DoneNextIs DEF IngestTypes
    <3>2. \A g \in Files : done'[g] = done[g]
      BY <1>8, <3>1
    <3>3. QED
      BY <3>1, <3>2
  <2> HIDE DEF f, e
  <2>2. PICK g \in Files, d \in Events : g = f /\ d = e
    BY <1>3
  <2>3. Ledger!DealLate(g, d)
    BY <1>3, <1>4, <1>5, <1>6, <2>1, <2>2 DEF Ledger!DealLate, LedgerLines, LedgerCounted
  <2>4. QED
    BY <2>3 DEF Ledger!LedgerNext
<1>9. QED
  BY <1>7, <1>8

\* A line that is no event counts nothing.
LEMMA ReportDeals ==
  ASSUME IngestInv, Report
  PROVE  Ledger!LedgerNext \/ UNCHANGED Ledger!ledger
<1> DEFINE f == todo[1]
<1>1. /\ place = "lines" /\ work.lines # <<>> /\ Parse(Head(work.lines)) = Invalid
      /\ done' = DoneNext(f)
      /\ UNCHANGED <<file, seen, rows, pruned>>
  BY DEF Report, DoneNext, outside
<1>2. IngestTypes /\ todo # <<>>
  BY <1>1 DEF IngestInv
<1>3. f \in Files
  BY <1>2, FirstFile
<1>4. LedgerLines' = LedgerLines /\ LedgerCounted' = LedgerCounted
  <2>1. \A g \in Files : LinesOf(g)' = LinesOf(g)
    BY <1>1 DEF LinesOf
  <2>2. QED
    BY <1>1, <2>1 DEF LedgerLines, LedgerCounted
<1>5. CASE done'[f] # done[f]
  <2>1. /\ done[f] < Len(LedgerLines[f]) /\ done' = [done EXCEPT ![f] = @ + 1]
        /\ LedgerLines[f][done[f] + 1] = Invalid
    BY <1>1, <1>5, NextLine
  <2> HIDE DEF f
  <2>2. {Invalid} \ {Invalid} = {} /\ LedgerCounted[f] \cup {} = LedgerCounted[f]
    OBVIOUS
  <2>3. LedgerCounted' = [LedgerCounted EXCEPT ![f] = @ \cup ({LedgerLines[f][done[f] + 1]} \ {Invalid})]
    BY <1>4, <2>1, <2>2 DEF LedgerCounted
  <2>4. PICK g \in Files : g = f
    BY <1>3
  <2>5. Ledger!Deal(g)
    BY <1>1, <1>4, <2>1, <2>3, <2>4 DEF Ledger!Deal, LedgerLines, LedgerCounted
  <2>6. QED
    BY <2>5 DEF Ledger!LedgerNext
<1>6. CASE done'[f] = done[f]
  <2>1. done' = done
    <3>1. /\ done' \in [Files -> Nat] /\ done \in [Files -> Nat]
          /\ \A g \in Files : g # f => done'[g] = done[g]
      BY <1>1, <1>2, DoneNextIs DEF IngestTypes
    <3>2. \A g \in Files : done'[g] = done[g]
      BY <1>6, <3>1
    <3>3. QED
      BY <3>1, <3>2
  <2>2. QED
    BY <1>1, <2>1, LedgerStands
<1>7. QED
  BY <1>5, <1>6

\* What is pruned stays counted.
LEMMA PruneStands ==
  ASSUME IngestInv, Prune
  PROVE  UNCHANGED Ledger!ledger
<1>1. /\ rows \in [Files -> [Events -> {0, 1}]] /\ pruned \in [Files -> SUBSET Events]
      /\ old \in SUBSET Events
  BY DEF IngestInv, IngestTypes
<1>2. /\ rows' = [f \in Files |-> [e \in Events |-> IF e \in old THEN 0 ELSE rows[f][e]]]
      /\ pruned' = [f \in Files |-> pruned[f] \cup {e \in old : rows[f][e] > 0}]
      /\ UNCHANGED <<file, seen, done>>
  BY DEF Prune, outside
<1>3. ASSUME NEW f \in Files
      PROVE  {e \in Events : rows'[f][e] > 0} \cup pruned'[f] = {e \in Events : rows[f][e] > 0} \cup pruned[f]
  <2>1. \A e \in Events : rows'[f][e] = IF e \in old THEN 0 ELSE rows[f][e]
    BY <1>2
  <2>2. pruned'[f] = pruned[f] \cup {e \in old : rows[f][e] > 0}
    BY <1>2
  <2>3. \A e \in Events : rows'[f][e] > 0 <=> e \notin old /\ rows[f][e] > 0
    BY <1>1, <2>1
  <2>4. QED
    BY <1>1, <2>2, <2>3
<1>4. LedgerCounted' = LedgerCounted
  <2>1. LedgerCounted' = [f \in Files |-> {e \in Events : rows'[f][e] > 0} \cup pruned'[f]]
    BY DEF LedgerCounted
  <2>2. QED
    BY <1>3, <2>1 DEF LedgerCounted
<1>5. \A f \in Files : LinesOf(f)' = LinesOf(f)
  BY <1>2 DEF LinesOf
<1>6. QED
  BY <1>2, <1>4, <1>5 DEF Ledger!ledger, LedgerCounted

\* The steps the ledger does not see.
LEMMA OthersStand ==
  ASSUME \/ Scan \/ SkipFile \/ Stat \/ Read \/ InsertFails \/ Save \/ SaveFails
         \/ PruneLater \/ PruneFails \/ Restart \/ (\E e \in Events : Expire(e)) \/ UNCHANGED IngestVars
  PROVE  UNCHANGED Ledger!ledger
<1>1. UNCHANGED <<file, seen, rows, pruned, done>>
  BY DEF Scan, SkipFile, Stat, Read, InsertFails, Save, SaveFails, PruneLater, PruneFails, Restart,
         Expire, IngestVars, outside, database
<1>2. QED
  BY <1>1, LedgerStands

\* Where replaced files come back shorter, the agent implements the ledger: every line of a file
\* is dealt with in order, none is skipped, and an event that was seen is counted once,
\* whatever reads, failed calls, restarts and replacements come between (scan and
\* ingestFile, api_integrations_ingest_agent.go:76-229).
THEOREM IngestKeepsLedger ==
  ASSUME ~Regrow
  PROVE  IngestSpec => KeepsLedger
<1>1. IngestInit => Ledger!LedgerInit
  <2> SUFFICES ASSUME IngestInit PROVE Ledger!LedgerInit
    OBVIOUS
  <2>1. /\ file = [f \in Files |-> <<>>] /\ rows = [f \in Files |-> [e \in Events |-> 0]]
        /\ done = [f \in Files |-> 0] /\ seen = [f \in Files |-> {}] /\ pruned = [f \in Files |-> {}]
    BY DEF IngestInit
  <2>2. ASSUME NEW f \in Files
        PROVE  LinesOf(f) = <<>> /\ {e \in Events : rows[f][e] > 0} \cup pruned[f] = {}
    <3>1. SplitLines(<<>>) = <<>>
      <4>1. <<>> \in Seq(Byte) /\ 0 \in Nat /\ 0 >= Len(<<>>)
        OBVIOUS
      <4>2. UpTo(0, <<>>) = <<>>
        BY <4>1, UpToEnd
      <4>3. QED
        BY <4>1, <4>2, SplitNone
    <3>2. file[f] = <<>>
      BY <2>1
    <3>3. LinesOf(f) = [i \in {} |-> Parse(<<>>[i])]
      BY <3>1, <3>2 DEF LinesOf
    <3>4. QED
      BY <2>1, <3>3
  <2>3. QED
    BY <2>1, <2>2 DEF Ledger!LedgerInit
<1>2. IngestInv /\ IngestInv' /\ [IngestNext]_IngestVars => [Ledger!LedgerNext]_(Ledger!ledger)
  <2> SUFFICES ASSUME IngestInv, IngestInv', [IngestNext]_IngestVars
               PROVE  Ledger!LedgerNext \/ UNCHANGED Ledger!ledger
    OBVIOUS
  <2>1. CASE Insert
    BY <2>1, InsertDeals
  <2>2. CASE Report
    BY <2>2, ReportDeals
  <2>3. CASE Prune
    BY <2>3, PruneStands
  <2>4. CASE \E f \in Files : WriteByte(f) \/ ReplaceFile(f)
    BY <2>4, WriteByteWrites, ReplaceFileReplaces
  <2>5. CASE \/ Scan \/ SkipFile \/ Stat \/ Read \/ InsertFails \/ Save \/ SaveFails
             \/ PruneLater \/ PruneFails \/ Restart \/ (\E e \in Events : Expire(e)) \/ UNCHANGED IngestVars
    BY <2>5, OthersStand
  <2>6. QED
    BY <2>1, <2>2, <2>3, <2>4, <2>5 DEF IngestNext, Agent
<1>3. QED
  BY <1>1, <1>2, IngestAlwaysInv, PTL DEF IngestSpec, KeepsLedger, Ledger!LedgerSpec

-----------------------------------------------------------------------------
(* UsageSessions *)

USE SessionsAssumption DEF NoSession, Unknown

\* A single run is there, and there is one while the manager has a session.
OneRun == \A p, q \in Runs : p # q => run[p].pc = "absent" \/ run[q].pc = "absent"

SessionHasRun == session # NoSession => \E r \in Runs : run[r].pc # "absent"

\* A session begins after the baseline.
SessionHasBaseline == session # NoSession => prev # Unknown

NothingBeforeBoot == ~booted => \A r \in Runs : run[r].pc = "absent"

\* A run that calls the store names the session that the manager has.
CallsNameSession ==
    \A r \in Runs : run[r].pc \in {"create", "increment", "max", "close", "exit"} =>
        session # NoSession /\ run[r].id = session

\* What it is about to record is what was reported last.
UsageInHand ==
    \A r \in Runs : run[r].pc \in {"create", "increment", "max"} => prev = {run[r].usage}

\* The row of the session is open, once it has been created.
SessionHasRow ==
    \A r \in Runs : session # NoSession =>
        /\ run[r].pc = "create" => row[session].state = "none"
        /\ run[r].pc \notin {"absent", "create"} => row[session].state = "open"

\* Between reports its maximum covers the usage last reported.
Covered ==
    \A r \in Runs : session # NoSession /\ run[r].pc \in {"select", "poll"} =>
        session \in missed \/ \A u \in prev : row[session].max >= u

\* A session that has not begun has no row.
Unissued == \A s \in Sessions : s > issued => row[s].state = "none"

SingleRun ==
    /\ OneRun
    /\ SessionHasRun
    /\ SessionHasBaseline
    /\ NothingBeforeBoot
    /\ CallsNameSession
    /\ UsageInHand
    /\ SessionHasRow
    /\ Covered
    /\ Unissued
    /\ OpenSessionIsTracked

-----------------------------------------------------------------------------
(* Types *)

LEMMA AbsentIsRun == Absent \in Run
BY DEF Absent, Run, Points

\* The run after a step within its loop.
LEMMA GotoType ==
  ASSUME run \in [Runs -> Run], NEW r \in Runs, NEW point \in Points, Goto(r, point)
  PROVE  /\ run' \in [Runs -> Run]
         /\ run'[r].pc = point
         /\ \A q \in Runs : q # r => run'[q] = run[q]
<1>1. run[r].cancelled \in BOOLEAN
  BY DEF Run
<1>2. [Absent EXCEPT !.pc = point, !.cancelled = run[r].cancelled] \in Run
  BY <1>1, AbsentIsRun DEF Run
<1>3. [Absent EXCEPT !.pc = point, !.cancelled = run[r].cancelled].pc = point
  BY DEF Absent
<1>4. QED
  BY <1>2, <1>3 DEF Goto

\* The run after it has begun a call of the store.
LEMMA CallType ==
  ASSUME run \in [Runs -> Run], NEW r \in Runs, NEW point \in Points,
         NEW s \in Sessions \cup {NoSession}, Call(r, point, s)
  PROVE  /\ run' \in [Runs -> Run]
         /\ run'[r].pc = point /\ run'[r].id = s /\ run'[r].usage = run[r].usage
         /\ \A q \in Runs : q # r => run'[q] = run[q]
<1>1. run[r] \in Run
  OBVIOUS
<1>2. /\ [run[r] EXCEPT !.pc = point, !.id = s] \in Run
      /\ [run[r] EXCEPT !.pc = point, !.id = s].pc = point
      /\ [run[r] EXCEPT !.pc = point, !.id = s].id = s
      /\ [run[r] EXCEPT !.pc = point, !.id = s].usage = run[r].usage
  BY <1>1 DEF Run
<1>3. run' = [run EXCEPT ![r] = [run[r] EXCEPT !.pc = point, !.id = s]]
  BY DEF Call
<1>4. QED
  BY <1>2, <1>3

LEMMA InitType == Init => TypeOK
<1> SUFFICES ASSUME Init PROVE TypeOK
  OBVIOUS
<1>1. run \in [Runs -> Run]
  BY AbsentIsRun DEF Init
<1>2. row \in [Sessions -> Row]
  <2>1. NoRow \in Row
    BY DEF NoRow, Row
  <2>2. QED
    BY <2>1 DEF Init
<1>3. issued \in 0 .. MaxSessions /\ session \in 0 .. issued /\ idle \in 0 .. (Timeout + 1)
  BY DEF Init
<1>4. QED
  BY <1>1, <1>2, <1>3 DEF Init, TypeOK

\* A row whose state, maximum or count is overwritten.
LEMMA RowTypes ==
  ASSUME TypeOK, NEW s \in Sessions
  PROVE  /\ [row EXCEPT ![s] = [NoRow EXCEPT !.state = "open"]] \in [Sessions -> Row]
         /\ [row EXCEPT ![s].state = "closed"] \in [Sessions -> Row]
         /\ row[s].count < MaxCount => [row EXCEPT ![s].count = @ + 1] \in [Sessions -> Row]
         /\ \A u \in Usage : [row EXCEPT ![s].max = u] \in [Sessions -> Row]
<1>1. row \in [Sessions -> Row] /\ row[s] \in Row
  BY DEF TypeOK
<1>2. [NoRow EXCEPT !.state = "open"] \in Row
  BY DEF NoRow, Row
<1>3. [row[s] EXCEPT !.state = "closed"] \in Row
  BY <1>1 DEF Row
<1>4. ASSUME row[s].count < MaxCount PROVE [row[s] EXCEPT !.count = row[s].count + 1] \in Row
  BY <1>1, <1>4 DEF Row
<1>5. ASSUME NEW u \in Usage PROVE [row[s] EXCEPT !.max = u] \in Row
  BY <1>1 DEF Row
<1>6. QED
  BY <1>1, <1>2, <1>3, <1>4, <1>5

LEMMA StepType ==
  ASSUME TypeOK, [Next]_vars
  PROVE  TypeOK'
<1>1. CASE Boot
  <2>1. \A s \in Sessions : [row[s] EXCEPT !.state = "closed"] \in Row
    BY DEF TypeOK, Row
  <2>2. row' \in [Sessions -> Row]
    BY <1>1, <2>1 DEF Boot, TypeOK
  <2>3. unclosed' \subseteq Sessions
    BY <1>1 DEF Boot
  <2>4. QED
    BY <1>1, <2>2, <2>3 DEF Boot, TypeOK, manager
<1>2. ASSUME NEW r \in Runs, StartRun(r) PROVE TypeOK'
  <2>1. [Absent EXCEPT !.pc = "poll"] \in Run
    BY DEF Absent, Run, Points
  <2>2. QED
    BY <1>2, <2>1 DEF StartRun, TypeOK, manager, table
<1>3. ASSUME NEW r \in Runs, CancelRun(r) PROVE TypeOK'
  <2>1. run \in [Runs -> Run] /\ run[r] \in Run
    BY DEF TypeOK
  <2>2. [run[r] EXCEPT !.cancelled = TRUE] \in Run
    BY <2>1 DEF Run
  <2>3. run' \in [Runs -> Run]
    BY <1>3, <2>1, <2>2 DEF CancelRun
  <2>4. QED
    BY <1>3, <2>3 DEF CancelRun, TypeOK, manager, table
<1>4. ASSUME NEW r \in Runs, NextPoll(r) \/ PollWithoutReport(r) PROVE TypeOK'
  <2>1. run' \in [Runs -> Run]
    BY <1>4, GotoType DEF NextPoll, PollWithoutReport, TypeOK, Points
  <2>2. QED
    BY <1>4, <2>1 DEF NextPoll, PollWithoutReport, TypeOK, manager, table
<1>5. ASSUME NEW r \in Runs, ReturnFromRun(r) PROVE TypeOK'
  <2>1. session \in Sessions \cup {NoSession}
    BY DEF TypeOK, Sessions
  <2>2. run' \in [Runs -> Run]
    BY <1>5, <2>1, AbsentIsRun, CallType DEF ReturnFromRun, TypeOK, Points
  <2>3. QED
    BY <1>5, <2>2 DEF ReturnFromRun, TypeOK, manager, table
<1>6. ASSUME NEW r \in Runs, ReportBaseline(r) PROVE TypeOK'
  <2>1. run' \in [Runs -> Run]
    BY <1>6, GotoType DEF ReportBaseline, TypeOK, Points
  <2>2. QED
    BY <1>6, <2>1 DEF ReportBaseline, TypeOK, table
<1>7. ASSUME NEW r \in Runs, ReportChange(r) PROVE TypeOK'
  <2>1. /\ issued' \in 0 .. MaxSessions
        /\ session' \in 0 .. issued'
        /\ session' \in Sessions \cup {NoSession}
    BY <1>7 DEF ReportChange, TypeOK, Sessions
  <2>2. PICK u \in Usage \ prev :
          /\ prev' = {u}
          /\ run' = [run EXCEPT ![r] =
                      [@ EXCEPT !.pc = IF session = NoSession THEN "create" ELSE "increment",
                                !.usage = u, !.id = session']]
    BY <1>7 DEF ReportChange
  <2>3. run \in [Runs -> Run] /\ run[r] \in Run
    BY DEF TypeOK
  <2>4. run' \in [Runs -> Run]
    BY <2>1, <2>2, <2>3 DEF Run, Points
  <2>5. QED
    BY <1>7, <2>1, <2>2, <2>4 DEF ReportChange, TypeOK, table
<1>8. ASSUME NEW r \in Runs, ReportNoChange(r) PROVE TypeOK'
  <2>1. session \in Sessions \cup {NoSession}
    BY DEF TypeOK, Sessions
  <2>2. PICK u \in prev :
          IF session = NoSession
          THEN Goto(r, "select")
          ELSE run' = [run EXCEPT ![r] =
                        [@ EXCEPT !.pc = IF idle > Timeout THEN "close" ELSE "increment",
                                  !.usage = u, !.id = session]]
    BY <1>8 DEF ReportNoChange
  <2>3. run \in [Runs -> Run] /\ run[r] \in Run /\ u \in Usage
    BY DEF TypeOK
  <2>4. run' \in [Runs -> Run]
    <3>1. CASE session = NoSession
      BY <2>2, <2>3, <3>1, GotoType DEF Points
    <3>2. CASE session # NoSession
      <4>1. PICK point \in {"close", "increment"} :
              run' = [run EXCEPT ![r] =
                       [run[r] EXCEPT !.pc = point, !.usage = u, !.id = session]]
        BY <2>2, <3>2
      <4>2. [run[r] EXCEPT !.pc = point, !.usage = u, !.id = session] \in Run
        BY <2>1, <2>3 DEF Run, Points
      <4>3. QED
        BY <2>3, <4>1, <4>2
    <3>3. QED
      BY <3>1, <3>2
  <2>5. QED
    BY <1>8, <2>4 DEF ReportNoChange, TypeOK, manager, table
<1>9. ASSUME NEW r \in Runs, Create(r) PROVE TypeOK'
  <2>1. session \in Sessions \cup {NoSession} /\ run[r].id \in Sessions \cup {NoSession}
    BY DEF TypeOK, Sessions, Run
  <2>2. run' \in [Runs -> Run]
    BY <1>9, <2>1, GotoType, CallType DEF Create, TypeOK, Points
  <2>3. row' \in [Sessions -> Row]
    <3>1. CASE run[r].id \in Sessions
      <4>1. [row EXCEPT ![run[r].id] = [NoRow EXCEPT !.state = "open"]] \in [Sessions -> Row]
        BY <3>1, RowTypes
      <4>2. row \in [Sessions -> Row]
        BY DEF TypeOK
      <4>3. QED
        BY <1>9, <4>1, <4>2 DEF Create
    <3>2. CASE run[r].id = NoSession
      BY <1>9, <3>2 DEF Create, TypeOK, Sessions
    <3>3. QED
      BY <2>1, <3>1, <3>2
  <2>4. QED
    BY <1>9, <2>2, <2>3 DEF Create, TypeOK
<1>10. ASSUME NEW r \in Runs, Increment(r) PROVE TypeOK'
  <2>1. session \in Sessions \cup {NoSession}
    BY DEF TypeOK, Sessions
  <2>2. run' \in [Runs -> Run]
    BY <1>10, <2>1, CallType DEF Increment, TypeOK, Points
  <2>3. row' \in [Sessions -> Row]
    <3>1. row \in [Sessions -> Row]
      BY DEF TypeOK
    <3>2. CASE row' = row
      BY <3>1, <3>2
    <3>3. CASE row' # row
      <4>1. /\ run[r].id \in Sessions
            /\ row[run[r].id].count < MaxCount
            /\ row' = [row EXCEPT ![run[r].id].count = @ + 1]
        BY <1>10, <3>3 DEF Increment, HasRow
      <4>2. QED
        BY <4>1, RowTypes
    <3>4. QED
      BY <3>2, <3>3
  <2>4. QED
    BY <1>10, <2>2, <2>3 DEF Increment, TypeOK, manager
<1>11. ASSUME NEW r \in Runs, UpdateMax(r) PROVE TypeOK'
  <2>1. run' \in [Runs -> Run]
    BY <1>11, GotoType DEF UpdateMax, TypeOK, Points
  <2>2. /\ run[r].usage \in Usage \cup {0}
        /\ run[r].id \in Sessions \cup {NoSession}
        /\ row \in [Sessions -> Row]
    BY DEF TypeOK, Run
  <2>3. row' \in [Sessions -> Row]
    <3>1. CASE row' = row
      BY <2>2, <3>1
    <3>2. CASE row' # row
      <4>1. /\ run[r].id \in Sessions
            /\ row[run[r].id].max < run[r].usage
            /\ row' = [row EXCEPT ![run[r].id].max = run[r].usage]
        BY <1>11, <3>2 DEF UpdateMax, HasRow
      <4>2. row[run[r].id] \in Row
        BY <2>2, <4>1
      <4>3. row[run[r].id].max \in Nat
        <5>1. row[run[r].id].max \in Usage \cup {0}
          BY <4>2 DEF Row
        <5>2. \A u \in Usage \cup {0} : u \in Nat
          OBVIOUS
        <5>3. QED
          BY <5>1, <5>2
      <4>4. run[r].usage \in Usage
        BY <2>2, <4>1, <4>3
      <4>5. QED
        BY <4>1, <4>4, RowTypes
    <3>3. QED
      BY <3>1, <3>2
  <2>4. missed' \subseteq Sessions
    BY <1>11, <2>2 DEF UpdateMax, TypeOK
  <2>5. QED
    BY <1>11, <2>1, <2>3, <2>4 DEF UpdateMax, TypeOK, manager
<1>12. ASSUME NEW r \in Runs, CloseSession(r) PROVE TypeOK'
  <2>1. run' \in [Runs -> Run]
    BY <1>12, GotoType, AbsentIsRun DEF CloseSession, AfterClose, TypeOK, Points
  <2>2. row' \in [Sessions -> Row]
    <3>1. row \in [Sessions -> Row]
      BY DEF TypeOK
    <3>2. CASE row' = row
      BY <3>1, <3>2
    <3>3. CASE row' # row
      <4>1. /\ run[r].id \in Sessions
            /\ row' = [row EXCEPT ![run[r].id].state = "closed"]
        BY <1>12, <3>3 DEF CloseSession, EndRow, HasRow
      <4>2. QED
        BY <4>1, RowTypes
    <3>4. QED
      BY <3>2, <3>3
  <2>3. unclosed' \subseteq Sessions
    BY <1>12 DEF CloseSession, Open, TypeOK
  <2>4. QED
    BY <1>12, <2>1, <2>2, <2>3 DEF CloseSession, TypeOK
<1>13. CASE Tick
  <2>1. UNCHANGED <<booted, run, issued, session, prev, row, unclosed, missed>>
    BY <1>13 DEF Tick, table
  <2>2. idle \in 0 .. (Timeout + 1) /\ idle <= Timeout /\ idle' = idle + 1
    BY <1>13 DEF Tick, TypeOK
  <2>3. idle' \in 0 .. (Timeout + 1)
    BY <2>2
  <2>4. QED
    BY <2>1, <2>3 DEF TypeOK
<1>14. CASE Crash
  <2>1. run' \in [Runs -> Run]
    BY <1>14, AbsentIsRun DEF Crash
  <2>2. session' \in 0 .. issued' /\ idle' \in 0 .. (Timeout + 1)
    BY <1>14 DEF Crash, TypeOK
  <2>3. prev' \in {Unknown} \cup {{u} : u \in Usage}
    BY <1>14 DEF Crash
  <2>4. QED
    BY <1>14, <2>1, <2>2, <2>3 DEF Crash, TypeOK, table
<1>15. CASE UNCHANGED vars
  BY <1>15 DEF vars, manager, table, TypeOK
<1>16. QED
  BY <1>1, <1>2, <1>3, <1>4, <1>5, <1>6, <1>7, <1>8, <1>9, <1>10, <1>11, <1>12, <1>13,
     <1>14, <1>15 DEF Next, RunStep, Poll, Write

\* The session manager, its loops and its table are well-typed, however many
\* runs overlap.
THEOREM TypeCorrect == Spec => []TypeOK
<1>1. QED
  BY InitType, StepType, PTL DEF Spec

-----------------------------------------------------------------------------
(* Sessions, when runs do not overlap *)

\* What SingleRun says of the run that is there.
InStep(r) ==
    /\ session # NoSession => run[r].pc # "absent" /\ prev # Unknown
    /\ run[r].pc \in {"create", "increment", "max", "close", "exit"} =>
           session # NoSession /\ run[r].id = session
    /\ run[r].pc \in {"create", "increment", "max"} => prev = {run[r].usage}
    /\ session # NoSession =>
           /\ run[r].pc = "create" => row[session].state = "none"
           /\ run[r].pc \notin {"absent", "create"} => row[session].state = "open"
           /\ run[r].pc \in {"select", "poll"} =>
                  session \in missed \/ \A u \in prev : row[session].max >= u

LEMMA SingleRunInStep ==
  ASSUME SingleRun, NEW r \in Runs, run[r].pc # "absent"
  PROVE  /\ booted
         /\ \A q \in Runs : q # r => run[q].pc = "absent"
         /\ InStep(r)
BY DEF SingleRun, OneRun, SessionHasRun, SessionHasBaseline, NothingBeforeBoot, CallsNameSession, UsageInHand,
       SessionHasRow, Covered, InStep

\* A step of the run that is there need only be looked at where that run is.
LEMMA OnlyRunSteps ==
  ASSUME NEW r \in Runs,
         booted',
         \A q \in Runs : q # r => run'[q].pc = "absent",
         InStep(r)',
         Unissued', OpenSessionIsTracked'
  PROVE  SingleRun'
<1>1. OneRun'
  BY DEF OneRun
<1>2. SessionHasRun' /\ SessionHasBaseline' /\ NothingBeforeBoot'
  BY DEF SessionHasRun, SessionHasBaseline, NothingBeforeBoot, InStep
<1>3. CallsNameSession' /\ UsageInHand'
  BY DEF CallsNameSession, UsageInHand, InStep
<1>4. SessionHasRow' /\ Covered'
  BY DEF SessionHasRow, Covered, InStep
<1>5. QED
  BY <1>1, <1>2, <1>3, <1>4 DEF SingleRun

LEMMA InitSingleRun == Init => SingleRun
<1> SUFFICES ASSUME Init PROVE SingleRun
  OBVIOUS
<1>1. \A r \in Runs : run[r].pc = "absent"
  BY DEF Init, Absent
<1>2. \A s \in Sessions : row[s].state = "none"
  BY DEF Init, NoRow
<1>3. QED
  BY <1>1, <1>2 DEF Init, SingleRun, OneRun, SessionHasRun, SessionHasBaseline, NothingBeforeBoot,
     CallsNameSession, UsageInHand, SessionHasRow, Covered, Unissued, OpenSessionIsTracked

\* A session the manager has is one that was drawn.
LEMMA SessionDrawn ==
  ASSUME TypeOK
  PROVE  session # NoSession => session \in Sessions /\ session <= issued
BY DEF TypeOK, Sessions

\* Steps that write neither a row nor what the manager holds.
LEMMA LoopStep ==
  ASSUME TypeOK, SingleRun, NEW r \in Runs,
         NextPoll(r) \/ PollWithoutReport(r) \/ ReturnFromRun(r) \/ ReportNoChange(r)
  PROVE  SingleRun'
<1>1. /\ run[r].pc \in {"select", "poll"}
      /\ UNCHANGED <<booted, issued, session, prev, row, unclosed, missed>>
  BY DEF NextPoll, PollWithoutReport, ReturnFromRun, ReportNoChange, manager, table
<1>2. booted /\ InStep(r) /\ \A q \in Runs : q # r => run[q].pc = "absent"
  BY <1>1, SingleRunInStep
<1>3. Unissued' /\ OpenSessionIsTracked'
  BY <1>1 DEF SingleRun, Unissued, OpenSessionIsTracked, Open
<1>4. run \in [Runs -> Run] /\ run[r] \in Run
  BY DEF TypeOK
<1>5. CASE NextPoll(r) \/ PollWithoutReport(r)
  <2>1. /\ run'[r].pc \in {"poll", "select"}
        /\ \A q \in Runs : q # r => run'[q] = run[q]
    BY <1>4, <1>5, GotoType DEF NextPoll, PollWithoutReport, Points
  <2>2. InStep(r)'
    BY <1>1, <1>2, <2>1 DEF InStep
  <2>3. QED
    BY <1>1, <1>2, <1>3, <2>1, <2>2, OnlyRunSteps
<1>6. CASE ReturnFromRun(r)
  <2>1. /\ \A q \in Runs : q # r => run'[q] = run[q]
        /\ session = NoSession => run'[r].pc = "absent"
        /\ session # NoSession => run'[r].pc = "exit" /\ run'[r].id = session
    BY <1>4, <1>6 DEF ReturnFromRun, Call, Absent, Run
  <2>2. InStep(r)'
    BY <1>1, <1>2, <2>1 DEF InStep
  <2>3. QED
    BY <1>1, <1>2, <1>3, <2>1, <2>2, OnlyRunSteps
<1>7. CASE ReportNoChange(r)
  <2>1. PICK u \in prev :
          IF session = NoSession
          THEN Goto(r, "select")
          ELSE run' = [run EXCEPT ![r] =
                        [@ EXCEPT !.pc = IF idle > Timeout THEN "close" ELSE "increment",
                                  !.usage = u, !.id = session]]
    BY <1>7 DEF ReportNoChange
  <2>2. prev = {u}
    BY DEF TypeOK
  <2>3. CASE session = NoSession
    <3>1. /\ run'[r].pc = "select"
          /\ \A q \in Runs : q # r => run'[q] = run[q]
      BY <1>4, <2>1, <2>3, GotoType DEF Points
    <3>2. InStep(r)'
      BY <1>1, <2>3, <3>1 DEF InStep
    <3>3. QED
      BY <1>1, <1>2, <1>3, <3>1, <3>2, OnlyRunSteps
  <2>4. CASE session # NoSession
    <3>1. /\ run'[r].pc \in {"close", "increment"}
          /\ run'[r].usage = u /\ run'[r].id = session
          /\ \A q \in Runs : q # r => run'[q] = run[q]
      BY <1>4, <2>1, <2>4 DEF Run
    <3>2. InStep(r)'
      BY <1>1, <1>2, <2>2, <2>4, <3>1 DEF InStep
    <3>3. QED
      BY <1>1, <1>2, <1>3, <3>1, <3>2, OnlyRunSteps
  <2>5. QED
    BY <2>3, <2>4
<1>8. QED
  BY <1>5, <1>6, <1>7

\* The steps that hand a report to the manager.
LEMMA ReportStep ==
  ASSUME TypeOK, SingleRun, NEW r \in Runs, ReportBaseline(r) \/ ReportChange(r)
  PROVE  SingleRun'
<1>1. /\ run[r].pc = "poll"
      /\ UNCHANGED <<booted, row, unclosed, missed>>
  BY DEF ReportBaseline, ReportChange, table
<1>2. booted /\ InStep(r) /\ \A q \in Runs : q # r => run[q].pc = "absent"
  BY <1>1, SingleRunInStep
<1>3. run \in [Runs -> Run] /\ run[r] \in Run
  BY DEF TypeOK
<1>4. CASE ReportBaseline(r)
  <2>1. /\ run'[r].pc = "select"
        /\ \A q \in Runs : q # r => run'[q] = run[q]
    BY <1>3, <1>4, GotoType DEF ReportBaseline, Points
  <2>2. UNCHANGED <<issued, session>> /\ prev = {}
    BY <1>4 DEF ReportBaseline
  <2>3. Unissued' /\ OpenSessionIsTracked'
    BY <1>1, <2>2 DEF SingleRun, Unissued, OpenSessionIsTracked, Open
  <2>4. session = NoSession
    BY <1>2, <2>2 DEF InStep
  <2>5. InStep(r)'
    BY <2>1, <2>2, <2>4 DEF InStep
  <2>6. QED
    BY <1>1, <1>2, <2>1, <2>3, <2>5, OnlyRunSteps
<1>5. CASE ReportChange(r)
  <2>1. PICK u \in Usage \ prev :
          /\ prev' = {u}
          /\ run' = [run EXCEPT ![r] =
                      [@ EXCEPT !.pc = IF session = NoSession THEN "create" ELSE "increment",
                                !.usage = u, !.id = session']]
    BY <1>5 DEF ReportChange
  <2>2. /\ run'[r].pc = IF session = NoSession THEN "create" ELSE "increment"
        /\ run'[r].usage = u /\ run'[r].id = session'
        /\ \A q \in Runs : q # r => run'[q] = run[q]
    BY <1>3, <2>1 DEF Run
  <2>3. issued \in 0 .. MaxSessions /\ MaxSessions \in Nat
    BY DEF TypeOK
  <2>4. CASE session = NoSession
    <3>1. issued < MaxSessions /\ issued' = issued + 1 /\ session' = issued + 1
      BY <1>5, <2>4 DEF ReportChange
    <3>2. session' \in Sessions /\ session' # NoSession
      BY <2>3, <3>1 DEF Sessions
    <3>3. row'[session'].state = "none"
      BY <1>1, <2>3, <3>1, <3>2 DEF SingleRun, Unissued
    <3>4. Unissued'
      BY <1>1, <2>3, <3>1 DEF SingleRun, Unissued, Sessions
    <3>5. OpenSessionIsTracked'
      <4>1. ASSUME NEW s \in Sessions, Open(s)' PROVE s \in unclosed'
        <5>1. s # session
          BY <2>4 DEF Sessions
        <5>2. QED
          BY <1>1, <1>2, <4>1, <5>1 DEF SingleRun, OpenSessionIsTracked, Open
      <4>2. QED
        BY <4>1 DEF OpenSessionIsTracked
    <3>6. InStep(r)'
      BY <2>1, <2>2, <2>4, <3>2, <3>3 DEF InStep
    <3>7. QED
      BY <1>1, <1>2, <2>2, <3>4, <3>5, <3>6, OnlyRunSteps
  <2>5. CASE session # NoSession
    <3>1. UNCHANGED <<issued, session>>
      BY <1>5, <2>5 DEF ReportChange
    <3>2. Unissued' /\ OpenSessionIsTracked'
      BY <1>1, <3>1 DEF SingleRun, Unissued, OpenSessionIsTracked, Open
    <3>3. InStep(r)'
      BY <1>1, <1>2, <2>1, <2>2, <2>5, <3>1 DEF InStep
    <3>4. QED
      BY <1>1, <1>2, <2>2, <3>2, <3>3, OnlyRunSteps
  <2>6. QED
    BY <2>4, <2>5
<1>6. QED
  BY <1>4, <1>5

\* A run in a call of the store, and the row it is about.
LEMMA InCall ==
  ASSUME TypeOK, SingleRun, NEW r \in Runs,
         run[r].pc \in {"create", "increment", "max", "close", "exit"}
  PROVE  /\ booted /\ InStep(r) /\ \A q \in Runs : q # r => run[q].pc = "absent"
         /\ run \in [Runs -> Run] /\ row \in [Sessions -> Row]
         /\ session \in Sessions /\ session # NoSession /\ session <= issued
         /\ run[r].id = session
BY SingleRunInStep, SessionDrawn DEF TypeOK, InStep

\* A write to the row of the session disturbs no other.
LEMMA OtherRowsStand ==
  ASSUME TypeOK, SingleRun, booted, session \in Sessions, session <= issued,
         UNCHANGED <<issued, session>>,
         \A s \in Sessions : s # session => row'[s] = row[s],
         unclosed \subseteq unclosed'
  PROVE  Unissued' /\ OpenSessionIsTracked'
<1>1. Unissued'
  BY DEF SingleRun, Unissued, TypeOK, Sessions
<1>2. OpenSessionIsTracked'
  BY DEF SingleRun, OpenSessionIsTracked, Open
<1>3. QED
  BY <1>1, <1>2

LEMMA CreateStep ==
  ASSUME TypeOK, SingleRun, NEW r \in Runs, Create(r)
  PROVE  SingleRun'
<1>1. run[r].pc = "create" /\ UNCHANGED <<booted, issued, prev, unclosed, missed>>
  BY DEF Create
<1>2. /\ booted /\ InStep(r) /\ \A q \in Runs : q # r => run[q].pc = "absent"
      /\ run \in [Runs -> Run] /\ row \in [Sessions -> Row]
      /\ session \in Sessions /\ session # NoSession /\ session <= issued
      /\ run[r].id = session
  BY <1>1, InCall
<1>3. CASE /\ row' = [row EXCEPT ![run[r].id] = [NoRow EXCEPT !.state = "open"]]
           /\ Call(r, "increment", session)
           /\ UNCHANGED session
  <2>1. /\ run'[r].pc = "increment" /\ run'[r].id = session /\ run'[r].usage = run[r].usage
        /\ \A q \in Runs : q # r => run'[q] = run[q]
    BY <1>2, <1>3, CallType DEF Points
  <2>2. /\ row'[session].state = "open"
        /\ \A s \in Sessions : s # session => row'[s] = row[s]
    BY <1>2, <1>3 DEF NoRow
  <2>3. Unissued' /\ OpenSessionIsTracked'
    BY <1>1, <1>2, <1>3, <2>2, OtherRowsStand
  <2>4. InStep(r)'
    BY <1>1, <1>2, <1>3, <2>1, <2>2 DEF InStep
  <2>5. QED
    BY <1>1, <1>2, <2>1, <2>3, <2>4, OnlyRunSteps
<1>4. CASE session' = NoSession /\ Goto(r, "select") /\ UNCHANGED row
  <2>1. /\ run'[r].pc = "select"
        /\ \A q \in Runs : q # r => run'[q] = run[q]
    BY <1>2, <1>4, GotoType DEF Points
  <2>2. Unissued'
    BY <1>1, <1>4 DEF SingleRun, Unissued
  <2>3. OpenSessionIsTracked'
    <3>1. row[session].state = "none"
      BY <1>1, <1>2 DEF InStep
    <3>2. QED
      BY <1>1, <1>2, <1>4, <3>1 DEF SingleRun, OpenSessionIsTracked, Open
  <2>4. InStep(r)'
    BY <1>4, <2>1 DEF InStep
  <2>5. QED
    BY <1>1, <1>2, <2>1, <2>2, <2>3, <2>4, OnlyRunSteps
<1>5. QED
  BY <1>3, <1>4 DEF Create

LEMMA IncrementStep ==
  ASSUME TypeOK, SingleRun, NEW r \in Runs, Increment(r)
  PROVE  SingleRun'
<1>1. /\ run[r].pc = "increment"
      /\ UNCHANGED <<booted, issued, session, prev, unclosed, missed>>
      /\ Call(r, "max", session)
  BY DEF Increment, manager
<1>2. /\ booted /\ InStep(r) /\ \A q \in Runs : q # r => run[q].pc = "absent"
      /\ run \in [Runs -> Run] /\ row \in [Sessions -> Row]
      /\ session \in Sessions /\ session # NoSession /\ session <= issued
      /\ run[r].id = session
  BY <1>1, InCall
<1>3. /\ run'[r].pc = "max" /\ run'[r].id = session /\ run'[r].usage = run[r].usage
      /\ \A q \in Runs : q # r => run'[q] = run[q]
  BY <1>1, <1>2, CallType DEF Points
<1>4. /\ row'[session].state = row[session].state
      /\ \A s \in Sessions : s # session => row'[s] = row[s]
  <2>1. CASE row' = row
    BY <2>1
  <2>2. CASE row' # row
    <3>1. row' = [row EXCEPT ![session].count = @ + 1]
      BY <1>2, <2>2 DEF Increment
    <3>2. QED
      BY <1>2, <3>1 DEF Row
  <2>3. QED
    BY <2>1, <2>2
<1>5. Unissued' /\ OpenSessionIsTracked'
  BY <1>1, <1>2, <1>4, OtherRowsStand
<1>6. InStep(r)'
  BY <1>1, <1>2, <1>3, <1>4 DEF InStep
<1>7. QED
  BY <1>1, <1>2, <1>3, <1>5, <1>6, OnlyRunSteps

LEMMA UpdateMaxStep ==
  ASSUME TypeOK, SingleRun, NEW r \in Runs, UpdateMax(r)
  PROVE  SingleRun'
<1>1. /\ run[r].pc = "max"
      /\ UNCHANGED <<booted, issued, session, prev, unclosed>>
      /\ Goto(r, "select")
  BY DEF UpdateMax, manager
<1>2. /\ booted /\ InStep(r) /\ \A q \in Runs : q # r => run[q].pc = "absent"
      /\ run \in [Runs -> Run] /\ row \in [Sessions -> Row]
      /\ session \in Sessions /\ session # NoSession /\ session <= issued
      /\ run[r].id = session
  BY <1>1, InCall
<1>3. /\ run'[r].pc = "select"
      /\ \A q \in Runs : q # r => run'[q] = run[q]
  BY <1>1, <1>2, GotoType DEF Points
<1>4. prev' = {run[r].usage} /\ row[session].state = "open" /\ HasRow(session)
  BY <1>1, <1>2 DEF InStep, HasRow
<1>5. run[r].usage \in Nat /\ row[session].max \in Nat
  <2>1. run[r].usage \in Usage \cup {0} /\ row[session].max \in Usage \cup {0}
    BY <1>2 DEF Run, Row
  <2>2. \A u \in Usage \cup {0} : u \in Nat
    OBVIOUS
  <2>3. QED
    BY <2>1, <2>2
<1>6. /\ row'[session].state = "open"
      /\ \A s \in Sessions : s # session => row'[s] = row[s]
      /\ session \in missed' \/ row'[session].max >= run[r].usage
  <2>1. CASE /\ row' = IF HasRow(session) /\ row[session].max < run[r].usage
                       THEN [row EXCEPT ![session].max = run[r].usage] ELSE row
    <3>1. CASE row[session].max < run[r].usage
      <4>1. row' = [row EXCEPT ![session] = [row[session] EXCEPT !.max = run[r].usage]]
        BY <1>4, <2>1, <3>1
      <4>2. /\ [row[session] EXCEPT !.max = run[r].usage].state = "open"
            /\ [row[session] EXCEPT !.max = run[r].usage].max = run[r].usage
        BY <1>2, <1>4 DEF Row
      <4>3. row'[session].max = run[r].usage
        BY <1>2, <4>1, <4>2
      <4>4. row'[session].max >= run[r].usage
        BY <1>5, <4>3
      <4>5. QED
        BY <1>2, <4>1, <4>2, <4>4
    <3>2. CASE ~(row[session].max < run[r].usage)
      <4>1. row[session].max >= run[r].usage
        BY <1>5, <3>2
      <4>2. QED
        BY <1>4, <2>1, <3>2, <4>1
    <3>3. QED
      BY <3>1, <3>2
  <2>2. CASE missed' = missed \cup ({session} \ {NoSession}) /\ UNCHANGED row
    BY <1>2, <1>4, <2>2
  <2>3. QED
    BY <1>2, <2>1, <2>2 DEF UpdateMax
<1>7. Unissued' /\ OpenSessionIsTracked'
  BY <1>1, <1>2, <1>6, OtherRowsStand
<1>8. InStep(r)'
  <2>1. \A u \in prev' : u = run[r].usage
    BY <1>4
  <2>2. session \in missed' \/ \A u \in prev' : row'[session].max >= u
    BY <1>6, <2>1
  <2>3. QED
    BY <1>1, <1>2, <1>3, <1>4, <1>6, <2>2 DEF InStep
<1>9. QED
  BY <1>1, <1>2, <1>3, <1>7, <1>8, OnlyRunSteps

LEMMA CloseSessionStep ==
  ASSUME TypeOK, SingleRun, NEW r \in Runs, CloseSession(r)
  PROVE  SingleRun'
<1>1. /\ run[r].pc \in {"close", "exit"}
      /\ UNCHANGED <<booted, issued, prev, missed>>
      /\ session' = NoSession
      /\ AfterClose(r)
  BY DEF CloseSession
<1>2. /\ booted /\ InStep(r) /\ \A q \in Runs : q # r => run[q].pc = "absent"
      /\ run \in [Runs -> Run] /\ row \in [Sessions -> Row]
      /\ session \in Sessions /\ session # NoSession /\ session <= issued
      /\ run[r].id = session
  BY <1>1, InCall
<1>3. /\ run'[r].pc \in {"absent", "select"}
      /\ \A q \in Runs : q # r => run'[q] = run[q]
  <2>1. CASE run[r].pc = "exit"
    BY <1>1, <1>2, <2>1 DEF AfterClose, Absent
  <2>2. CASE run[r].pc # "exit"
    BY <1>1, <1>2, <2>2, GotoType DEF AfterClose, Points
  <2>3. QED
    BY <2>1, <2>2
<1>4. row[session].state = "open"
  BY <1>1, <1>2 DEF InStep
<1>5. CASE EndRow(session) /\ UNCHANGED unclosed
  <2>1. /\ row'[session].state = "closed"
        /\ \A s \in Sessions : s # session => row'[s] = row[s]
    <3>1. row' = [row EXCEPT ![session].state = "closed"]
      BY <1>2, <1>4, <1>5 DEF EndRow, HasRow
    <3>2. QED
      BY <1>2, <3>1 DEF Row
  <2>2. Unissued'
    BY <1>1, <1>2, <2>1 DEF SingleRun, Unissued, TypeOK, Sessions
  <2>3. OpenSessionIsTracked'
    BY <1>2, <1>5, <2>1 DEF SingleRun, OpenSessionIsTracked, Open
  <2>4. QED
    BY <1>1, <1>2, <1>3, <2>2, <2>3, OnlyRunSteps DEF InStep
<1>6. CASE unclosed' = unclosed \cup {s \in {session} : Open(s)} /\ UNCHANGED row
  <2>1. Unissued'
    BY <1>1, <1>6 DEF SingleRun, Unissued
  <2>2. OpenSessionIsTracked'
    BY <1>2, <1>6 DEF SingleRun, OpenSessionIsTracked, Open
  <2>3. QED
    BY <1>1, <1>2, <1>3, <2>1, <2>2, OnlyRunSteps DEF InStep
<1>7. QED
  BY <1>2, <1>5, <1>6 DEF CloseSession

\* While no run is there the manager has no session.
LEMMA BootStep ==
  ASSUME TypeOK, SingleRun, Boot
  PROVE  SingleRun'
<1>1. /\ \A r \in Runs : run[r].pc = "absent"
      /\ session = NoSession
  BY DEF SingleRun, NothingBeforeBoot, SessionHasRun, Boot
<1>2. UNCHANGED <<run, issued, session, prev>>
  BY DEF Boot, manager
<1>3. \A s \in Sessions : Open(s)' => s \in unclosed'
  <2>1. CASE row' = [s \in Sessions |->
                       IF Open(s) THEN [row[s] EXCEPT !.state = "closed"] ELSE row[s]]
    <3>1. ASSUME NEW s \in Sessions PROVE row'[s].state # "open"
      <4>1. row[s] \in Row
        BY DEF TypeOK
      <4>2. [row[s] EXCEPT !.state = "closed"].state = "closed"
        BY <4>1 DEF Row
      <4>3. QED
        BY <2>1, <4>2 DEF Open
    <3>2. QED
      BY <3>1 DEF Open
  <2>2. CASE UNCHANGED row /\ unclosed' = {s \in Sessions : Open(s)}
    BY <2>2 DEF Open
  <2>3. QED
    BY <2>1, <2>2 DEF Boot
<1>4. Unissued'
  <2>1. \A s \in Sessions : row[s].state = "none" => row'[s] = row[s]
    BY DEF Boot, Open, TypeOK
  <2>2. QED
    BY <1>2, <2>1 DEF SingleRun, Unissued
<1>5. QED
  BY <1>1, <1>2, <1>3, <1>4 DEF SingleRun, OneRun, SessionHasRun, SessionHasBaseline,
     NothingBeforeBoot, CallsNameSession, UsageInHand, SessionHasRow, Covered,
     OpenSessionIsTracked, Boot

LEMMA StartRunStep ==
  ASSUME TypeOK, SingleRun, ~Overlap, NEW r \in Runs, StartRun(r)
  PROVE  SingleRun'
<1>1. /\ \A q \in Runs : run[q].pc = "absent"
      /\ session = NoSession
      /\ UNCHANGED <<booted, issued, session, prev, row, unclosed, missed>>
      /\ booted
  BY DEF SingleRun, SessionHasRun, StartRun, manager, table
<1>2. /\ run'[r].pc = "poll"
      /\ \A q \in Runs : q # r => run'[q] = run[q]
  BY DEF StartRun, TypeOK, Absent
<1>3. Unissued' /\ OpenSessionIsTracked'
  BY <1>1 DEF SingleRun, Unissued, OpenSessionIsTracked, Open
<1>4. InStep(r)'
  BY <1>1, <1>2 DEF InStep
<1>5. QED
  BY <1>1, <1>2, <1>3, <1>4, OnlyRunSteps

LEMMA CancelRunStep ==
  ASSUME TypeOK, SingleRun, NEW r \in Runs, CancelRun(r)
  PROVE  SingleRun'
<1>1. /\ run[r].pc # "absent"
      /\ UNCHANGED <<booted, issued, session, prev, row, unclosed, missed>>
  BY DEF CancelRun, manager, table
<1>2. booted /\ InStep(r) /\ \A q \in Runs : q # r => run[q].pc = "absent"
  BY <1>1, SingleRunInStep
<1>3. /\ run'[r].pc = run[r].pc /\ run'[r].id = run[r].id /\ run'[r].usage = run[r].usage
      /\ \A q \in Runs : q # r => run'[q] = run[q]
  BY DEF CancelRun, TypeOK, Run
<1>4. Unissued' /\ OpenSessionIsTracked'
  BY <1>1 DEF SingleRun, Unissued, OpenSessionIsTracked, Open
<1>5. InStep(r)'
  BY <1>1, <1>2, <1>3 DEF InStep
<1>6. QED
  BY <1>1, <1>2, <1>3, <1>4, <1>5, OnlyRunSteps

LEMMA CrashStep ==
  ASSUME SingleRun, Crash
  PROVE  SingleRun'
<1>1. \A r \in Runs : run'[r].pc = "absent"
  BY DEF Crash, Absent
<1>2. /\ ~booted' /\ session' = NoSession
      /\ UNCHANGED <<issued, row>>
  BY DEF Crash, table
<1>3. QED
  BY <1>1, <1>2 DEF SingleRun, OneRun, SessionHasRun, SessionHasBaseline,
     NothingBeforeBoot, CallsNameSession, UsageInHand, SessionHasRow, Covered, Unissued,
     OpenSessionIsTracked

\* What the manager, its run and its rows say does not depend on the time.
LEMMA IdleStep ==
  ASSUME SingleRun,
         UNCHANGED <<booted, run, issued, session, prev, row, unclosed, missed>>
  PROVE  SingleRun'
BY DEF SingleRun, OneRun, SessionHasRun, SessionHasBaseline, NothingBeforeBoot,
       CallsNameSession, UsageInHand, SessionHasRow, Covered, Unissued,
       OpenSessionIsTracked, Open

LEMMA StepSingleRun ==
  ASSUME TypeOK, SingleRun, ~Overlap, [Next]_vars
  PROVE  SingleRun'
<1>1. CASE Boot
  BY <1>1, BootStep
<1>2. ASSUME NEW r \in Runs, StartRun(r) \/ CancelRun(r) PROVE SingleRun'
  BY <1>2, StartRunStep, CancelRunStep
<1>3. ASSUME NEW r \in Runs, RunStep(r) PROVE SingleRun'
  BY <1>3, LoopStep, ReportStep, CreateStep, IncrementStep, UpdateMaxStep,
     CloseSessionStep DEF RunStep, Poll, Write
<1>4. CASE Tick
  BY <1>4, IdleStep DEF Tick, table
<1>5. CASE Crash
  BY <1>5, CrashStep
<1>6. CASE UNCHANGED vars
  BY <1>6, IdleStep DEF vars, manager, table
<1>7. QED
  BY <1>1, <1>2, <1>3, <1>4, <1>5, <1>6 DEF Next

-----------------------------------------------------------------------------
(* The theorems *)

\* The invariant behind the theorems below.
THEOREM RunAndSessionAgree ==
  ASSUME ~Overlap
  PROVE  Spec => [](TypeOK /\ SingleRun)
<1>1. Init => TypeOK /\ SingleRun
  BY InitType, InitSingleRun
<1>2. TypeOK /\ SingleRun /\ [Next]_vars => (TypeOK /\ SingleRun)'
  BY StepType, StepSingleRun
<1>3. QED
  BY <1>1, <1>2, PTL DEF Spec

\* Whatever crashes, stops and restarts come between, a row left open is the
\* session the manager has, or one whose closing failed.
THEOREM OpenSessionsAreTracked ==
  ASSUME ~Overlap
  PROVE  Spec => []OpenSessionIsTracked
<1>1. SingleRun => OpenSessionIsTracked
  BY DEF SingleRun
<1>2. QED
  BY <1>1, RunAndSessionAgree, PTL

\* Between polls the maximum recorded for the session covers the usage reported
\* last, unless the write of one was lost.
THEOREM MaxCovers ==
  ASSUME ~Overlap
  PROVE  Spec => []MaxCoversUsage
<1>1. TypeOK /\ SingleRun => MaxCoversUsage
  <2>1. SUFFICES ASSUME TypeOK, SingleRun, NEW r \in Runs,
                        run[r].pc = "select", session # NoSession
                 PROVE  /\ Open(session)
                        /\ session \in missed \/ \A u \in prev : row[session].max >= u
    BY DEF MaxCoversUsage
  <2>2. InStep(r)
    BY <2>1, SingleRunInStep
  <2>3. QED
    BY <2>1, <2>2, SessionDrawn DEF InStep, Open
<1>2. QED
  BY <1>1, RunAndSessionAgree, PTL

\* A step writes the row of a session that is not closed.
LEMMA ClosedRowStands ==
  ASSUME TypeOK, SingleRun, [Next]_vars, NEW s \in Sessions, row[s].state = "closed"
  PROVE  row'[s] = row[s]
<1>1. CASE Boot
  BY <1>1 DEF Boot, Open, TypeOK
<1>2. ASSUME NEW r \in Runs, Write(r) PROVE row'[s] = row[s]
  <2>1. run[r].pc \in {"create", "increment", "max", "close", "exit"}
    BY <1>2 DEF Write, Create, Increment, UpdateMax, CloseSession
  <2>2. InStep(r) /\ run[r].id = session /\ session # NoSession
    BY <2>1, InCall
  <2>3. s # session
    BY <2>1, <2>2 DEF InStep
  <2>4. CASE row' = row
    BY <2>4
  <2>5. CASE row' # row
    <3>1. PICK new : row' = [row EXCEPT ![session] = new]
      BY <1>2, <2>2, <2>5 DEF Write, Create, Increment, UpdateMax, CloseSession, EndRow
    <3>2. QED
      BY <2>3, <3>1 DEF TypeOK
  <2>6. QED
    BY <2>4, <2>5
<1>3. CASE UNCHANGED row
  BY <1>3
<1>4. ASSUME NEW r \in Runs, StartRun(r) \/ CancelRun(r) \/ NextPoll(r) \/ ReturnFromRun(r) \/ Poll(r)
      PROVE  UNCHANGED row
  BY <1>4 DEF StartRun, CancelRun, NextPoll, ReturnFromRun, Poll, PollWithoutReport,
     ReportBaseline, ReportChange, ReportNoChange, table
<1>5. Tick \/ Crash \/ UNCHANGED vars => UNCHANGED row
  BY DEF Tick, Crash, vars, table
<1>6. QED
  BY <1>1, <1>2, <1>3, <1>4, <1>5 DEF Next, RunStep

\* Nothing is counted for a session once it is closed, and it stays closed.
THEOREM ClosedSessionsAreFinal ==
  ASSUME ~Overlap
  PROVE  Spec => ClosedIsFinal
<1>1. TypeOK /\ SingleRun /\ [Next]_vars =>
        [\A s \in Sessions : row[s].state = "closed" => row'[s] = row[s]]_vars
  BY ClosedRowStands
<1>2. QED
  BY <1>1, RunAndSessionAgree, PTL DEF Spec, ClosedIsFinal
=============================================================================
