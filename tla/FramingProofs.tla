------------------------------- MODULE FramingProofs -------------------------------
(***************************************************************************)
(* Proofs about Framing, for any MAX_MESSAGE_SIZE above 3, any payloads    *)
(* and any number of messages.                                             *)
(***************************************************************************)
EXTENDS Framing, WellFoundedInduction, SequenceTheorems, TLAPS

----------------------------------------------------------------------------
(***************************************************************************)
(* The concatenation of a sequence of sequences.  FlattenSeq is defined by *)
(* a recursive function; that there is one is shown first.                 *)
(***************************************************************************)

\* A set of numbers has a least one.
LEMMA LeastNumber ==
    ASSUME NEW T, T \subseteq Nat, T # {}
    PROVE  \E x \in T : \A y \in T : x <= y
<1> DEFINE Below == OpToRel(<, Nat)
<1>1. PICK x \in T : \A y \in T : << y, x >> \notin Below
  <2>1. IsWellFoundedOn(Below, Nat)
    BY NatLessThanWellFounded
  <2> HIDE DEF Below
  <2> QED BY <2>1, WFMin
<1>2. \A y \in T : ~(y < x)
  BY <1>1 DEF OpToRel
<1> QED BY <1>2

\* g concatenates the first n sequences of ss, one after the other.
Flattens(g, ss, n) ==
    g = [i \in 1..n |-> IF i = 1 THEN ss[i] ELSE g[i - 1] \o ss[i]]

LEMMA FlattensNext ==
    ASSUME NEW ss, NEW n \in Nat \ {0}, NEW g, Flattens(g, ss, n)
    PROVE  \E f : Flattens(f, ss, n + 1)
<1>0. PICK last : last = g[n] \o ss[n + 1]
  OBVIOUS
<1> DEFINE f == [i \in 1..(n + 1) |-> IF i = n + 1 THEN last ELSE g[i]]
<1>1. \A i \in 1..n : g[i] = IF i = 1 THEN ss[i] ELSE g[i - 1] \o ss[i]
  BY DEF Flattens
<1>2. \A i \in 1..(n + 1) : f[i] = IF i = 1 THEN ss[i] ELSE f[i - 1] \o ss[i]
  <2> TAKE i \in 1..(n + 1)
  <2>1. CASE i = n + 1
    <3>1. f[i] = last /\ f[i - 1] = g[n] /\ i # 1
      BY <2>1
    <3>2. f[i] = f[i - 1] \o ss[i]
      <4> HIDE DEF f
      <4> QED BY <1>0, <2>1, <3>1
    <3> QED BY <3>1, <3>2
  <2>2. CASE i # n + 1
    BY <2>2, <1>1
  <2> QED BY <2>1, <2>2
<1>3. f = [i \in 1..(n + 1) |-> IF i = 1 THEN ss[i] ELSE f[i - 1] \o ss[i]]
  <2> DEFINE h == [i \in 1..(n + 1) |-> IF i = 1 THEN ss[i] ELSE f[i - 1] \o ss[i]]
  <2>1. DOMAIN f = 1..(n + 1) /\ DOMAIN h = 1..(n + 1)
    OBVIOUS
  <2>2. \A i \in 1..(n + 1) : f[i] = h[i]
    BY <1>2
  <2>3. f = h
    BY <2>1, <2>2
  <2> QED BY <2>3
<1> HIDE DEF f
<1> QED BY <1>3 DEF Flattens

LEMMA FlattensExists ==
    ASSUME NEW ss, NEW n \in Nat \ {0}
    PROVE  \E g : Flattens(g, ss, n)
<1> DEFINE T == {k \in Nat \ {0} : ~ \E g : Flattens(g, ss, k)}
<1> SUFFICES ASSUME n \in T PROVE FALSE
  OBVIOUS
<1>1. PICK k \in T : \A y \in T : k <= y
  <2>1. T # {} /\ T \subseteq Nat
    OBVIOUS
  <2> HIDE DEF T
  <2> QED BY <2>1, LeastNumber
<1>2. k # 1
  <2> DEFINE g == [i \in 1..1 |-> ss[i]]
  <2>1. g = [i \in 1..1 |-> IF i = 1 THEN ss[i] ELSE g[i - 1] \o ss[i]]
    OBVIOUS
  <2> HIDE DEF g
  <2>2. Flattens(g, ss, 1)
    BY <2>1 DEF Flattens
  <2> QED BY <2>2
<1>3. k - 1 \in Nat \ {0} /\ k - 1 \notin T
  BY <1>1, <1>2
<1>4. PICK g : Flattens(g, ss, k - 1)
  BY <1>3
<1>5. \E f : Flattens(f, ss, (k - 1) + 1)
  BY <1>3, <1>4, FlattensNext
<1>6. (k - 1) + 1 = k
  BY <1>1
<1> QED BY <1>1, <1>5, <1>6

LEMMA FlattenUnfolds ==
    ASSUME NEW ss, Len(ss) \in Nat \ {0}
    PROVE  \E g : Flattens(g, ss, Len(ss)) /\ FlattenSeq(ss) = g[Len(ss)]
<1> DEFINE fl == CHOOSE g : Flattens(g, ss, Len(ss))
<1>1. Flattens(fl, ss, Len(ss))
  BY FlattensExists
<1>2. FlattenSeq(ss) = fl[Len(ss)]
  BY DEF FlattenSeq, Flattens
<1> QED BY <1>1, <1>2

LEMMA FlattensAgree ==
    ASSUME NEW ss, NEW tt, NEW n \in Nat, NEW m \in Nat, NEW f, NEW g,
           Flattens(f, ss, n), Flattens(g, tt, m),
           NEW k \in 1..n, k <= m, \A i \in 1..k : ss[i] = tt[i]
    PROVE  f[k] = g[k]
<1> DEFINE T == {i \in 1..k : f[i] # g[i]}
<1> SUFFICES ASSUME k \in T PROVE FALSE
  OBVIOUS
<1>1. PICK i \in T : \A y \in T : i <= y
  <2>1. T # {} /\ T \subseteq Nat
    OBVIOUS
  <2> HIDE DEF T
  <2> QED BY <2>1, LeastNumber
<1>2. /\ f[i] = IF i = 1 THEN ss[i] ELSE f[i - 1] \o ss[i]
      /\ g[i] = IF i = 1 THEN tt[i] ELSE g[i - 1] \o tt[i]
  <2>1. \A j \in 1..n : f[j] = IF j = 1 THEN ss[j] ELSE f[j - 1] \o ss[j]
    BY DEF Flattens
  <2>2. \A j \in 1..m : g[j] = IF j = 1 THEN tt[j] ELSE g[j - 1] \o tt[j]
    BY DEF Flattens
  <2>3. i \in 1..n /\ i \in 1..m
    BY <1>1
  <2> HIDE DEF T
  <2> QED BY <2>1, <2>2, <2>3
<1>3. i # 1 => f[i - 1] = g[i - 1]
  BY <1>1
<1>4. ss[i] = tt[i] /\ f[i] # g[i]
  BY <1>1
<1> HIDE DEF T
<1> QED BY <1>2, <1>3, <1>4

----------------------------------------------------------------------------
(***************************************************************************)
(* The wire format: what the sender puts on the wire for a message, and    *)
(* what the receivers make of it.                                          *)
(***************************************************************************)
PayloadCells == {"data", "ordering"} \X Nat
Cells == {"len_hi", "len_lo", "header", "data_len", "ordering_len", "data", "ordering"} \X Nat

\* The messages of the senders, and what a receiver may take for one.
Messages ==
    [header : Nat, data : Seq(PayloadCells), ordering_values : Seq(PayloadCells)]
Received == [header : Nat, data : Seq(Cells), ordering_values : Seq(Cells)]

Frame(msg) == prefixed(layout(msg))

\* c has the elements of s, then those of t.
IsConcat(c, s, t) ==
    /\ Len(c) = Len(s) + Len(t)
    /\ \A i \in 1..Len(s) : c[i] = s[i]
    /\ \A i \in 1..Len(t) : c[Len(s) + i] = t[i]

LEMMA Concatenation ==
    \A S : \A s, t \in Seq(S) : s \o t \in Seq(S) /\ IsConcat(s \o t, s, t)
<1> TAKE S
<1> TAKE s, t \in Seq(S)
<1>1. s \o t \in Seq(S) /\ Len(s \o t) = Len(s) + Len(t) /\ Len(s) \in Nat /\ Len(t) \in Nat
  OBVIOUS
<1>2. \A i \in 1..Len(s) : (s \o t)[i] = s[i]
  OBVIOUS
<1>3. ASSUME NEW i \in 1..Len(t) PROVE (s \o t)[Len(s) + i] = t[i]
  OBVIOUS
<1> QED BY <1>1, <1>2, <1>3 DEF IsConcat

LEMMA MessageFields ==
    ASSUME NEW msg \in Messages
    PROVE  /\ msg.header \in Nat
           /\ msg.data \in Seq(PayloadCells) /\ msg.ordering_values \in Seq(PayloadCells)
           /\ msg.data \in Seq(Cells) /\ msg.ordering_values \in Seq(Cells)
           /\ Len(msg.data) \in Nat /\ Len(msg.ordering_values) \in Nat
<1>1. PayloadCells \subseteq Cells
  BY DEF PayloadCells, Cells
<1>2. /\ msg.header \in Nat
      /\ msg.data \in Seq(PayloadCells) /\ msg.ordering_values \in Seq(PayloadCells)
  BY DEF Messages
<1> QED BY <1>1, <1>2

\* The cells of a layout l, for d data cells and o ordering values.
IsLayout(l, msg, d, o) ==
    /\ d = Len(msg.data) /\ o = Len(msg.ordering_values)
    /\ l \in Seq(Cells) /\ Len(l) = 3 + d + o
    /\ l[1] = <<"header", msg.header>>
    /\ l[2] = <<"data_len", d>>
    /\ \A i \in 1..d : l[2 + i] = msg.data[i]
    /\ l[3 + d] = <<"ordering_len", o>>
    /\ \A i \in 1..o : l[3 + d + i] = msg.ordering_values[i]

LEMMA LayoutCells ==
    ASSUME NEW msg \in Messages
    PROVE  \E d, o \in Nat : IsLayout(layout(msg), msg, d, o)
<1> DEFINE d == msg.data
           o == msg.ordering_values
           h == << <<"header", msg.header>>, <<"data_len", Len(d)>> >>
           l == << <<"ordering_len", Len(o)>> >>
<1>1. d \in Seq(Cells) /\ o \in Seq(Cells) /\ Len(d) \in Nat /\ Len(o) \in Nat /\ msg.header \in Nat
  BY MessageFields
<1>2. h \in Seq(Cells) /\ Len(h) = 2 /\ h[1] = <<"header", msg.header>> /\ h[2] = <<"data_len", Len(d)>>
  <2>1. <<"header", msg.header>> \in Cells /\ <<"data_len", Len(d)>> \in Cells
    BY <1>1 DEF Cells
  <2> HIDE DEF d
  <2> QED BY <2>1
<1>3. l \in Seq(Cells) /\ Len(l) = 1 /\ l[1] = <<"ordering_len", Len(o)>>
  <2>1. <<"ordering_len", Len(o)>> \in Cells
    BY <1>1 DEF Cells
  <2> HIDE DEF o
  <2> QED BY <2>1
<1>4. layout(msg) = ((h \o d) \o l) \o o
  BY DEF layout
<1> HIDE DEF h, d, l, o
<1>5. PICK a : a \in Seq(Cells) /\ a = h \o d /\ IsConcat(a, h, d)
  BY <1>1, <1>2, Concatenation
<1>6. PICK b : b \in Seq(Cells) /\ b = a \o l /\ IsConcat(b, a, l)
  BY <1>3, <1>5, Concatenation
<1>7. PICK c : c \in Seq(Cells) /\ c = b \o o /\ IsConcat(c, b, o)
  BY <1>1, <1>6, Concatenation
<1>8. layout(msg) = c
  BY <1>4, <1>5, <1>6, <1>7
<1>9. Len(a) = 2 + Len(d) /\ a[1] = h[1] /\ a[2] = h[2] /\ \A i \in 1..Len(d) : a[2 + i] = d[i]
  BY <1>1, <1>2, <1>5 DEF IsConcat
<1>10. Len(b) = 3 + Len(d) /\ b[3 + Len(d)] = l[1] /\ \A i \in 1..(2 + Len(d)) : b[i] = a[i]
  <2>1. Len(b) = 3 + Len(d) /\ b[Len(a) + 1] = l[1] /\ Len(a) + 1 = 3 + Len(d)
    BY <1>1, <1>3, <1>6, <1>9 DEF IsConcat
  <2> QED BY <1>6, <1>9, <2>1 DEF IsConcat
<1>11. /\ Len(c) = 3 + Len(d) + Len(o)
       /\ \A i \in 1..(3 + Len(d)) : c[i] = b[i]
       /\ \A i \in 1..Len(o) : c[3 + Len(d) + i] = o[i]
  BY <1>1, <1>7, <1>10 DEF IsConcat
<1>12. c[1] = h[1] /\ c[2] = h[2]
  BY <1>1, <1>9, <1>10, <1>11
<1>13. c[3 + Len(d)] = l[1]
  BY <1>1, <1>10, <1>11
<1>14. \A i \in 1..Len(d) : c[2 + i] = d[i]
  BY <1>1, <1>9, <1>10, <1>11
<1>15. d = msg.data /\ o = msg.ordering_values
  BY DEF d, o
<1>16. IsLayout(layout(msg), msg, Len(d), Len(o))
  BY <1>2, <1>3, <1>7, <1>8, <1>11, <1>12, <1>13, <1>14, <1>15 DEF IsLayout
<1> QED BY <1>1, <1>16

\* What follows a prefix is never taken for one.
LEMMA NoPrefixInside ==
    ASSUME NEW msg \in Messages, NEW i \in 1..Size(msg)
    PROVE  layout(msg)[i][1] # "len_hi"
<1>1. PICK d, o \in Nat : IsLayout(layout(msg), msg, d, o)
  BY LayoutCells
<1>2. PICK l : l = layout(msg) /\ IsLayout(l, msg, d, o)
  BY <1>1
<1>3. Size(msg) = 3 + d + o
  BY <1>1 DEF IsLayout, Size
<1>4. CASE i \in 3..(2 + d)
  <2>1. i - 2 \in 1..d /\ 2 + (i - 2) = i
    BY <1>4
  <2>2. \A j \in 1..d : l[2 + j] = msg.data[j]
    BY <1>2 DEF IsLayout
  <2>3. l[i] = msg.data[i - 2]
    BY <2>1, <2>2
  <2>4. d = Len(msg.data)
    BY <1>1 DEF IsLayout
  <2>5. msg.data[i - 2] \in PayloadCells
    BY <2>1, <2>4, MessageFields
  <2> QED BY <1>2, <2>3, <2>5 DEF PayloadCells
<1>5. CASE i \in (4 + d)..(3 + d + o)
  <2>1. i - (3 + d) \in 1..o /\ 3 + d + (i - (3 + d)) = i
    BY <1>5
  <2>2. \A j \in 1..o : l[3 + d + j] = msg.ordering_values[j]
    BY <1>2 DEF IsLayout
  <2>3. l[i] = msg.ordering_values[i - (3 + d)]
    BY <2>1, <2>2
  <2>4. o = Len(msg.ordering_values)
    BY <1>1 DEF IsLayout
  <2>5. msg.ordering_values[i - (3 + d)] \in PayloadCells
    BY <2>1, <2>4, MessageFields
  <2> QED BY <1>2, <2>3, <2>5 DEF PayloadCells
<1>6. CASE i \in {1, 2, 3 + d}
  <2>1. l[1][1] = "header"
    BY <1>2 DEF IsLayout
  <2>2. l[2][1] = "data_len"
    BY <1>2 DEF IsLayout
  <2>3. l[3 + d][1] = "ordering_len"
    BY <1>2 DEF IsLayout
  <2> QED BY <1>2, <1>6, <2>1, <2>2, <2>3
<1>7. i \in 3..(2 + d) \/ i \in (4 + d)..(3 + d + o) \/ i \in {1, 2, 3 + d}
  BY <1>3
<1> QED BY <1>4, <1>5, <1>6, <1>7

\* The prefix holds the size modulo MAX_MESSAGE_SIZE + 1.
IsFrame(f, msg) ==
    /\ f \in Seq(Cells) /\ Len(f) = 2 + Size(msg)
    /\ f[1] = <<"len_hi", Size(msg) % (MAX_MESSAGE_SIZE + 1)>>
    /\ f[2] = <<"len_lo", Size(msg) % (MAX_MESSAGE_SIZE + 1)>>
    /\ \A i \in 1..Size(msg) : f[2 + i] = layout(msg)[i]

LEMMA FrameCells ==
    ASSUME NEW msg \in Messages
    PROVE  Size(msg) \in Nat /\ Size(msg) >= FIXED /\ IsFrame(Frame(msg), msg)
<1>0. PICK d, o \in Nat : IsLayout(layout(msg), msg, d, o)
  BY LayoutCells
<1>1. PICK l : l = layout(msg) /\ l \in Seq(Cells) /\ Len(l) = Size(msg)
  BY <1>0 DEF IsLayout, Size
<1>2. PICK n \in Nat : n = Size(msg) % (MAX_MESSAGE_SIZE + 1)
  BY <1>1, FramingAssumption
<1>3. PICK p : p = << <<"len_hi", n>>, <<"len_lo", n>> >>
  OBVIOUS
<1>4. p \in Seq(Cells) /\ Len(p) = 2 /\ p[1] = <<"len_hi", n>> /\ p[2] = <<"len_lo", n>>
  <2>1. <<"len_hi", n>> \in Cells /\ <<"len_lo", n>> \in Cells
    BY DEF Cells
  <2> QED BY <1>3, <2>1
<1>5. Frame(msg) = p \o l
  BY <1>1, <1>2, <1>3 DEF Frame, prefixed, Size
<1>6. PICK f : f \in Seq(Cells) /\ f = p \o l /\ IsConcat(f, p, l)
  BY <1>1, <1>4, Concatenation
<1>7. Len(f) = 2 + Size(msg) /\ f[1] = p[1] /\ f[2] = p[2] /\ \A i \in 1..Size(msg) : f[2 + i] = l[i]
  <2>1. Len(f) = 2 + Size(msg)
    BY <1>1, <1>4, <1>6 DEF IsConcat
  <2>2. \A i \in 1..2 : f[i] = p[i]
    BY <1>4, <1>6 DEF IsConcat
  <2>3. \A i \in 1..Size(msg) : f[2 + i] = l[i]
    BY <1>1, <1>4, <1>6 DEF IsConcat
  <2> QED BY <2>1, <2>2, <2>3
<1>8. Size(msg) \in Nat /\ Size(msg) >= FIXED
  <2>1. Len(layout(msg)) = 3 + d + o
    BY <1>0 DEF IsLayout
  <2> QED BY <2>1 DEF Size, FIXED
<1>9. IsFrame(f, msg)
  BY <1>1, <1>2, <1>4, <1>6, <1>7 DEF IsFrame
<1> QED BY <1>5, <1>6, <1>8, <1>9

(***************************************************************************)
(* deserialize undoes layout, whatever the message.  peek gets the header  *)
(* and the data, and does not read behind the message.                     *)
(***************************************************************************)
LEMMA SubSequence ==
    ASSUME NEW S, NEW s \in Seq(S), NEW t \in Seq(S), NEW k \in Nat,
           k + Len(t) <= Len(s), \A i \in 1..Len(t) : s[k + i] = t[i]
    PROVE  SubSeq(s, k + 1, k + Len(t)) = t
<1>1. PICK u : u = SubSeq(s, k + 1, k + Len(t))
  OBVIOUS
<1>2. u \in Seq(S) /\ Len(u) = Len(t) /\ \A i \in 1..Len(t) : u[i] = s[k + i]
  BY <1>1
<1>3. u = t
  BY <1>2, SeqEqual
<1> QED BY <1>1, <1>3

LEMMA LayoutParsed ==
    ASSUME NEW msg \in Messages, NEW body, body = layout(msg)
    PROVE  /\ deserialize(body) = << msg >>
           /\ peek(body) = << [header |-> msg.header, data |-> msg.data,
                               ordering_values |-> << >>] >>
           /\ ~DataBehindBody(body)
<1>1. PICK d, o \in Nat : IsLayout(body, msg, d, o)
  BY LayoutCells
<1>2. d = Len(msg.data) /\ o = Len(msg.ordering_values)
  BY <1>1 DEF IsLayout
<1>3. body \in Seq(Cells) /\ Len(body) = 3 + d + o
  BY <1>1 DEF IsLayout
<1>4. body[1][2] = msg.header /\ body[2][2] = d
  BY <1>1 DEF IsLayout
<1>5. body[3 + d][2] = o
  BY <1>1 DEF IsLayout
<1>6. PICK ds \in Seq(Cells) : ds = msg.data
  BY MessageFields
<1>7. PICK os \in Seq(Cells) : os = msg.ordering_values
  BY MessageFields
<1>8. SubSeq(body, 3, 2 + d) = ds
  <2>1. Len(ds) = d
    BY <1>2, <1>6
  <2>2. \A i \in 1..d : body[2 + i] = ds[i]
    BY <1>1, <1>6 DEF IsLayout
  <2>3. 2 + Len(ds) <= Len(body) /\ \A i \in 1..Len(ds) : body[2 + i] = ds[i]
    BY <1>3, <2>1, <2>2
  <2>4. SubSeq(body, 2 + 1, 2 + Len(ds)) = ds
    BY <1>3, <1>6, <2>3, SubSequence
  <2> QED BY <2>1, <2>4
<1>9. SubSeq(body, 3 + d + 1, 3 + d + o) = os
  <2>1. Len(os) = o
    BY <1>2, <1>7
  <2>2. \A i \in 1..o : body[3 + d + i] = os[i]
    BY <1>1, <1>7 DEF IsLayout
  <2>3. 3 + d + Len(os) <= Len(body) /\ \A i \in 1..Len(os) : body[3 + d + i] = os[i]
    BY <1>3, <2>1, <2>2
  <2>4. PICK k \in Nat : k = 3 + d
    OBVIOUS
  <2>5. SubSeq(body, k + 1, k + Len(os)) = os
    BY <1>3, <1>7, <2>3, <2>4, SubSequence
  <2> QED BY <2>1, <2>4, <2>5
<1>10. msg = [header |-> msg.header, data |-> ds, ordering_values |-> os]
  BY <1>6, <1>7 DEF Messages
<1>11. deserialize(body) = << [header |-> msg.header, data |-> ds, ordering_values |-> os] >>
  <2>1. ~ (\/ Len(body) < 3 \/ 2 + d > Len(body) \/ 3 + d > Len(body) \/ 3 + d + o > Len(body))
    BY <1>3
  <2> QED BY <1>4, <1>5, <1>8, <1>9, <2>1 DEF deserialize, FIXED
<1>12. peek(body) = << [header |-> msg.header, data |-> ds, ordering_values |-> << >>] >>
  <2>1. ~(Len(body) < 2)
    BY <1>3
  <2> QED BY <1>4, <1>8, <2>1 DEF peek
<1>13. ~DataBehindBody(body)
  <2>1. ~(2 + d > Len(body))
    BY <1>3
  <2> QED BY <1>4, <2>1 DEF DataBehindBody
<1> QED BY <1>6, <1>10, <1>11, <1>12, <1>13

(***************************************************************************)
(* What n messages put on the wire is the start of what n + 1 of them do.  *)
(***************************************************************************)
LEMMA WireEmpty == Wire(<< >>) = << >>
<1>1. PICK ss : ss = [i \in 1..Len(<< >>) |-> prefixed(layout(<< >>[i]))]
  OBVIOUS
<1>2. ss = << >>
  BY <1>1
<1>3. FlattenSeq(ss) = ss
  BY <1>2 DEF FlattenSeq
<1> QED BY <1>1, <1>2, <1>3 DEF Wire

LEMMA WireAppend ==
    ASSUME NEW msgs \in Seq(Messages), NEW msg \in Messages
    PROVE  Wire(Append(msgs, msg)) = Wire(msgs) \o Frame(msg)
<1>0. PICK n \in Nat : n = Len(msgs)
  OBVIOUS
<1>1. PICK more : more = Append(msgs, msg)
  OBVIOUS
<1>2. Len(more) = n + 1 /\ more[n + 1] = msg /\ \A i \in 1..n : more[i] = msgs[i]
  BY <1>0, <1>1
<1>3. PICK ss : ss = [i \in 1..n |-> Frame(msgs[i])]
  OBVIOUS
<1>4. PICK tt : tt = [i \in 1..(n + 1) |-> Frame(more[i])]
  OBVIOUS
<1>5. Wire(msgs) = FlattenSeq(ss) /\ Wire(more) = FlattenSeq(tt)
  BY <1>0, <1>2, <1>3, <1>4 DEF Wire, Frame
<1>6. Len(ss) = n /\ Len(tt) = n + 1 /\ tt[n + 1] = Frame(msg) /\ \A i \in 1..n : ss[i] = tt[i]
  BY <1>2, <1>3, <1>4
<1>7. PICK g : Flattens(g, tt, n + 1) /\ FlattenSeq(tt) = g[n + 1]
  <2>1. Len(tt) \in Nat \ {0}
    BY <1>6
  <2> QED BY <1>6, <2>1, FlattenUnfolds
<1>8. \A i \in 1..(n + 1) : g[i] = IF i = 1 THEN tt[i] ELSE g[i - 1] \o tt[i]
  BY <1>7 DEF Flattens
<1>9. CASE n = 0
  <2>1. n + 1 = 1
    BY <1>9
  <2>2. g[1] = tt[1]
    BY <1>8, <2>1
  <2>3. Wire(more) = Frame(msg)
    <3>1. tt[1] = Frame(msg)
      BY <1>6, <2>1
    <3>2. FlattenSeq(tt) = g[1]
      BY <1>7, <2>1
    <3> QED BY <1>5, <2>2, <3>1, <3>2
  <2>4. msgs = << >>
    BY <1>0, <1>9, EmptySeq
  <2>5. Frame(msg) \in Seq(Cells)
    BY FrameCells DEF IsFrame
  <2> QED BY <1>1, <2>3, <2>4, <2>5, WireEmpty, ConcatEmptySeq
<1>10. CASE n # 0
  <2>1. PICK f : Flattens(f, ss, n) /\ FlattenSeq(ss) = f[n]
    BY <1>6, <1>10, FlattenUnfolds
  <2>2. n \in 1..n /\ n + 1 \in Nat /\ n <= n + 1
    BY <1>10
  <2>3. f[n] = g[n]
    BY <1>6, <1>7, <2>1, <2>2, FlattensAgree
  <2>4. PICK j \in 1..(n + 1) : j = n + 1 /\ j # 1 /\ j - 1 = n
    BY <1>10
  <2>5. g[j] = g[j - 1] \o tt[j]
    BY <1>8, <2>4
  <2> QED BY <1>1, <1>5, <1>6, <1>7, <2>1, <2>3, <2>4, <2>5
<1> QED BY <1>9, <1>10

LEMMA FirstElements ==
    ASSUME NEW S, NEW s \in Seq(S), NEW n \in Nat, n <= Len(s)
    PROVE  FirstN(s, n) \in Seq(S) /\ Len(FirstN(s, n)) = n /\ \A i \in 1..n : FirstN(s, n)[i] = s[i]
<1>1. PICK t : t = SubSeq(s, 1, n)
  OBVIOUS
<1>2. \A i \in 1..n : s[i] \in S
  OBVIOUS
<1>3. t \in Seq(S) /\ Len(t) = (IF 1 <= n THEN n - 1 + 1 ELSE 0)
      /\ \A i \in 1..(n - 1 + 1) : t[i] = s[1 + i - 1]
  BY <1>1, <1>2, SubSeqProperties
<1>4. t \in Seq(S) /\ Len(t) = n /\ \A i \in 1..n : t[i] = s[i]
  BY <1>3
<1> QED BY <1>1, <1>4 DEF FirstN

LEMMA WireNext ==
    ASSUME NEW msgs \in Seq(Messages), NEW n \in Nat, n < Len(msgs)
    PROVE  Wire(FirstN(msgs, n + 1)) = Wire(FirstN(msgs, n)) \o Frame(msgs[n + 1])
<1>1. PICK first : /\ first = FirstN(msgs, n) /\ first \in Seq(Messages) /\ Len(first) = n
                   /\ \A i \in 1..n : first[i] = msgs[i]
  BY FirstElements
<1>2. msgs[n + 1] \in Messages
  OBVIOUS
<1>3. PICK more : /\ more = FirstN(msgs, n + 1) /\ more \in Seq(Messages) /\ Len(more) = n + 1
                  /\ \A i \in 1..(n + 1) : more[i] = msgs[i]
  <2>1. n + 1 \in Nat /\ n + 1 <= Len(msgs)
    OBVIOUS
  <2> QED BY <2>1, FirstElements
<1>4. more = Append(first, msgs[n + 1])
  <2>1. PICK app : app = Append(first, msgs[n + 1])
    OBVIOUS
  <2>2. app \in Seq(Messages) /\ Len(app) = n + 1 /\ app[n + 1] = msgs[n + 1]
        /\ \A i \in 1..n : app[i] = first[i]
    BY <1>1, <1>2, <2>1
  <2>3. \A i \in 1..(n + 1) : more[i] = app[i]
    BY <1>1, <1>3, <2>2
  <2> QED BY <1>3, <2>1, <2>2, <2>3, SeqEqual
<1> QED BY <1>1, <1>2, <1>3, <1>4, WireAppend

LEMMA WireType ==
    ASSUME NEW msgs \in Seq(Messages), NEW n \in Nat, n <= Len(msgs)
    PROVE  Wire(FirstN(msgs, n)) \in Seq(Cells)
<1> DEFINE T == {k \in 0..Len(msgs) : Wire(FirstN(msgs, k)) \notin Seq(Cells)}
<1> SUFFICES ASSUME n \in T PROVE FALSE
  OBVIOUS
<1>1. PICK k \in T : \A y \in T : k <= y
  <2>1. T # {} /\ T \subseteq Nat
    OBVIOUS
  <2> HIDE DEF T
  <2> QED BY <2>1, LeastNumber
<1>2. k \in Nat /\ k <= Len(msgs) /\ Wire(FirstN(msgs, k)) \notin Seq(Cells)
  OBVIOUS
<1>3. CASE k = 0
  <2>1. FirstN(msgs, k) = << >>
    BY <1>3, FirstElements
  <2>2. << >> \in Seq(Cells)
    OBVIOUS
  <2> QED BY <1>2, <2>1, <2>2, WireEmpty
<1>4. CASE k # 0
  <2>1. PICK j \in Nat : k = j + 1 /\ j < Len(msgs)
    <3>1. k - 1 \in Nat /\ k = (k - 1) + 1 /\ k - 1 < Len(msgs)
      BY <1>2, <1>4
    <3> QED BY <3>1
  <2>2. Wire(FirstN(msgs, j)) \in Seq(Cells)
    <3>1. j \notin T /\ j \in 0..Len(msgs)
      <4>1. ~(k <= j) /\ j \in 0..Len(msgs)
        BY <2>1
      <4> HIDE DEF T
      <4> QED BY <1>1, <4>1
    <3> QED BY <3>1
  <2>3. msgs[j + 1] \in Messages
    BY <2>1
  <2>4. Frame(msgs[j + 1]) \in Seq(Cells)
    BY <2>3, FrameCells DEF IsFrame
  <2>5. Wire(FirstN(msgs, k)) = Wire(FirstN(msgs, j)) \o Frame(msgs[j + 1])
    BY <2>1, WireNext
  <2>6. Wire(FirstN(msgs, j)) \o Frame(msgs[j + 1]) \in Seq(Cells)
    BY <2>2, <2>4, Concatenation
  <2> QED BY <1>2, <2>5, <2>6
<1> QED BY <1>3, <1>4

\* t is the start of w.
Starts(t, w) == Len(t) <= Len(w) /\ \A i \in 1..Len(t) : w[i] = t[i]

LEMMA WireStarts ==
    ASSUME NEW msgs \in Seq(Messages), NEW m \in Nat, NEW n \in Nat, m <= n, n <= Len(msgs)
    PROVE  Starts(Wire(FirstN(msgs, m)), Wire(FirstN(msgs, n)))
<1> DEFINE W(k) == Wire(FirstN(msgs, k))
           T == {k \in m..Len(msgs) : ~Starts(W(m), W(k))}
<1>0. \A k \in 0..Len(msgs) : W(k) \in Seq(Cells)
  BY WireType
<1> SUFFICES ASSUME n \in T PROVE FALSE
  OBVIOUS
<1>1. PICK k \in T : \A y \in T : k <= y
  <2>1. T # {} /\ T \subseteq Nat
    OBVIOUS
  <2> HIDE DEF T
  <2> QED BY <2>1, LeastNumber
<1>2. k \in Nat /\ m <= k /\ k <= Len(msgs) /\ ~Starts(W(m), W(k))
  OBVIOUS
<1>3. k # m
  <2>1. PICK w \in Seq(Cells) : w = W(m)
    BY <1>0
  <2>2. Starts(w, w)
    BY DEF Starts
  <2> HIDE DEF W
  <2> QED BY <1>2, <2>1, <2>2
<1>4. PICK j \in Nat : k = j + 1 /\ m <= j /\ j < Len(msgs)
  <2>1. k - 1 \in Nat /\ k = (k - 1) + 1 /\ m <= k - 1 /\ k - 1 < Len(msgs)
    BY <1>2, <1>3
  <2> QED BY <2>1
<1>5. Starts(W(m), W(j))
  <2>1. ~(k <= j) /\ j \in m..Len(msgs)
    BY <1>4
  <2>2. j \notin T
    <3> HIDE DEF T
    <3> QED BY <1>1, <2>1
  <2> HIDE DEF W
  <2> QED BY <2>1, <2>2
<1>6. W(k) = W(j) \o Frame(msgs[j + 1])
  BY <1>4, WireNext
<1>7. Frame(msgs[j + 1]) \in Seq(Cells)
  <2>1. msgs[j + 1] \in Messages
    BY <1>4
  <2> QED BY <2>1, FrameCells DEF IsFrame
<1>8. PICK v \in Seq(Cells) : v = W(j)
  <2>1. j \in 0..Len(msgs)
    BY <1>4
  <2> HIDE DEF W
  <2> QED BY <1>0, <2>1
<1>9. IsConcat(W(k), v, Frame(msgs[j + 1]))
  <2> HIDE DEF W
  <2> QED BY <1>6, <1>7, <1>8, Concatenation
<1>10. PICK u \in Seq(Cells) : u = W(m)
  <2>1. m \in 0..Len(msgs)
    OBVIOUS
  <2> HIDE DEF W
  <2> QED BY <1>0, <2>1
<1>11. PICK x : x = W(k)
  OBVIOUS
<1>12. PICK f : f \in Seq(Cells) /\ f = Frame(msgs[j + 1])
  BY <1>7
<1> HIDE DEF W
<1>13. Starts(u, x)
  <2>1. Starts(u, v)
    BY <1>5, <1>8, <1>10
  <2>2. IsConcat(x, v, f)
    BY <1>9, <1>11, <1>12
  <2>3. Len(x) >= Len(v) /\ \A i \in 1..Len(v) : x[i] = v[i]
    BY <1>8, <1>12, <2>2 DEF IsConcat
  <2> QED BY <1>8, <1>10, <2>1, <2>3 DEF Starts
<1> QED BY <1>2, <1>10, <1>11, <1>13

\* All of a sequence is its first Len(msgs) elements.
LEMMA FirstAll ==
    ASSUME NEW S, NEW s \in Seq(S)
    PROVE  FirstN(s, Len(s)) = s
<1>1. PICK t \in Seq(S) : t = FirstN(s, Len(s)) /\ Len(t) = Len(s) /\ \A i \in 1..Len(s) : t[i] = s[i]
  BY FirstElements
<1>2. t = s
  BY <1>1, SeqEqual
<1> QED BY <1>1, <1>2

----------------------------------------------------------------------------
(***************************************************************************)
(* What the receiver has still ahead of it: the unread bytes of the        *)
(* ReadBuffer, then the stream.  Where they lie does not matter.           *)
(***************************************************************************)
Ahead(r, str) == available(r) + Len(str)
CellAhead(r, str, j) == IF j <= available(r) THEN r.buf[r.head + j - 1] ELSE str[j - available(r)]

IsBuffer(r) ==
    /\ r = [buf |-> r.buf, head |-> r.head, tail |-> r.tail]
    /\ r.head \in Nat /\ r.tail \in Nat /\ r.head <= r.tail
    /\ \A i \in r.head..(r.tail - 1) : r.buf[i] \in Cells

(***************************************************************************)
(* The inductive invariant.                                                *)
(***************************************************************************)
TypeInv ==
    /\ mode \in {"raw", "buffered", "exact"}
    /\ sent \in Seq(Messages) /\ Len(sent) <= MaxMessages
    /\ stream \in Seq(Cells)
    /\ closed \in BOOLEAN /\ leftover \in BOOLEAN
    /\ IsBuffer(rb) /\ rb.tail <= CAPACITY
    /\ delivered \in Seq(Received) /\ Len(delivered) <= Len(sent)
    /\ rstate \in {"open", "failed", "garbled"}

OffsetOf(msgs, n) == Len(Wire(FirstN(msgs, n)))
Offset == OffsetOf(sent, Len(delivered))

\* The receiver stands at the start of a message, and what is ahead of it is
\* what the messages it has not got yet put on the wire: all of it unless the
\* sender has given up.
InSync ==
    /\ Offset + Ahead(rb, stream) <= Len(Wire(sent))
    /\ closed \/ Offset + Ahead(rb, stream) = Len(Wire(sent))
    /\ \A j \in 1..Ahead(rb, stream) : CellAhead(rb, stream, j) = Wire(sent)[Offset + j]

\* The receiver stands inside a message that was too large: it will see so.
OutOfSync ==
    /\ Len(delivered) > 0 /\ Size(sent[Len(delivered)]) > MAX_MESSAGE_SIZE
    /\ closed \/ Ahead(rb, stream) > 0
    /\ Ahead(rb, stream) > 0 => CellAhead(rb, stream, 1)[1] # "len_hi"

\* The handler got what was sent.
Same(i) ==
    \/ delivered[i] = sent[i]
    \/ mode = "raw" /\ delivered[i].header = sent[i].header /\ delivered[i].data = sent[i].data

\* The exact receiver has no byte of the next message.
ExactInv == mode = "exact" => rb.head = 0 /\ rb.tail <= total_needed

\* Why the receiver gave up: the peer closed, a message was too large, or the
\* buffer is full.
FailedInv ==
    (~closed /\ ~leftover /\ Fit(Len(delivered) + 1)) =>
        /\ mode # "exact" /\ Len(delivered) < Len(sent)
        /\ Size(sent[Len(delivered) + 1]) + 2 > MAX_MESSAGE_SIZE

FramingInv ==
    /\ TypeInv
    /\ leftover => rstate = "garbled"
    /\ Fit(Len(delivered)) => \A i \in 1..Len(delivered) : Same(i)
    /\ rstate = "open" => (InSync \/ OutOfSync) /\ ExactInv
    /\ rstate = "failed" => FailedInv
    /\ rstate = "garbled" => ~Fit(Len(delivered) + 1)

----------------------------------------------------------------------------
(***************************************************************************)
(* The operations of the ReadBuffer keep what is ahead.                    *)
(***************************************************************************)
LEMMA Halfway == MAX_MESSAGE_SIZE \in Nat /\ MAX_MESSAGE_SIZE > 3
                 /\ CAPACITY = 2 * MAX_MESSAGE_SIZE /\ CAPACITY \div 2 = MAX_MESSAGE_SIZE
<1>1. MAX_MESSAGE_SIZE \in Nat /\ MAX_MESSAGE_SIZE > 3
  BY FramingAssumption DEF FIXED
<1>2. (2 * MAX_MESSAGE_SIZE) \div 2 = MAX_MESSAGE_SIZE
  BY <1>1
<1> QED BY <1>1, <1>2 DEF CAPACITY

LEMMA BufferCells ==
    ASSUME NEW r, IsBuffer(r)
    PROVE  available(r) \in Nat /\ \A j \in 1..available(r) : r.buf[r.head + j - 1] \in Cells
<1>1. available(r) = r.tail - r.head /\ r.head \in Nat /\ r.tail \in Nat /\ r.head <= r.tail
  BY DEF available, IsBuffer
<1>2. ASSUME NEW j \in 1..available(r) PROVE r.buf[r.head + j - 1] \in Cells
  <2>1. r.head + j - 1 \in r.head..(r.tail - 1)
    BY <1>1
  <2> QED BY <2>1 DEF IsBuffer
<1> QED BY <1>1, <1>2

LEMMA FirstCell ==
    ASSUME NEW r, IsBuffer(r), available(r) >= 2
    PROVE  r.buf[r.head][2] \in Nat
<1>1. r.head \in Nat /\ available(r) \in Nat /\ r.head + 1 - 1 = r.head
  BY BufferCells DEF IsBuffer
<1>2. r.buf[r.head + 1 - 1] \in Cells
  BY <1>1, BufferCells
<1> QED BY <1>1, <1>2 DEF Cells

\* memmove.
LEMMA Moved ==
    ASSUME NEW r, IsBuffer(r)
    PROVE  /\ IsBuffer(memmove(r)) /\ memmove(r).head = 0 /\ memmove(r).tail = available(r)
           /\ \A j \in 1..available(r) : memmove(r).buf[j - 1] = r.buf[r.head + j - 1]
<1>1. PICK n \in Nat : n = available(r)
  BY BufferCells
<1>2. PICK b : b = [i \in 0..(n - 1) |-> r.buf[r.head + i]]
  OBVIOUS
<1>3. memmove(r) = [buf |-> b, head |-> 0, tail |-> n]
  BY <1>1, <1>2 DEF memmove
<1>4. \A i \in 0..(n - 1) : b[i] = r.buf[r.head + i]
  BY <1>2
<1>5. r.head \in Nat
  BY DEF IsBuffer
<1>6. ASSUME NEW j \in 1..n PROVE b[j - 1] = r.buf[r.head + j - 1]
  <2>1. j - 1 \in 0..(n - 1) /\ r.head + (j - 1) = r.head + j - 1
    BY <1>5
  <2> QED BY <1>4, <2>1
<1>7. ASSUME NEW i \in 0..(n - 1) PROVE b[i] \in Cells
  <2>1. i + 1 \in 1..n /\ (i + 1) - 1 = i
    OBVIOUS
  <2>2. b[(i + 1) - 1] \in Cells
    BY <1>1, <1>6, <2>1, BufferCells
  <2> QED BY <2>1, <2>2
<1>8. IsBuffer(memmove(r))
  BY <1>3, <1>7 DEF IsBuffer
<1> QED BY <1>1, <1>3, <1>6, <1>8

\* refill_spin's shift.
LEMMA Shifted ==
    ASSUME NEW r, IsBuffer(r), r.tail <= CAPACITY
    PROVE  \E s : /\ s = shift(r) /\ IsBuffer(s) /\ available(s) = available(r)
                  /\ s.tail <= r.tail
                  /\ s.head = 0 \/ (s = r /\ s.head <= MAX_MESSAGE_SIZE)
                  /\ r.head = 0 => s = r
                  /\ \A j \in 1..available(r) : s.buf[s.head + j - 1] = r.buf[r.head + j - 1]
<1>1. r.head \in Nat /\ r.tail \in Nat /\ r.head <= r.tail /\ available(r) = r.tail - r.head
  BY DEF IsBuffer, available
<1>2. CASE r.head > MAX_MESSAGE_SIZE
  <2>1. PICK s : s = memmove(r)
    OBVIOUS
  <2>2. shift(r) = s
    BY <1>2, <2>1, Halfway DEF shift
  <2>3. IsBuffer(s) /\ s.head = 0 /\ s.tail = available(r)
    BY <2>1, Moved
  <2>4. \A j \in 1..available(r) : s.buf[j - 1] = r.buf[r.head + j - 1]
    BY <2>1, Moved
  <2>5. \A j \in 1..available(r) : s.buf[s.head + j - 1] = r.buf[r.head + j - 1]
    BY <2>3, <2>4
  <2>6. available(s) = available(r) /\ s.tail <= r.tail /\ r.head # 0
    BY <1>1, <1>2, <2>3, Halfway DEF available
  <2> QED BY <2>2, <2>3, <2>5, <2>6
<1>3. CASE ~(r.head > MAX_MESSAGE_SIZE)
  <2>1. shift(r) = r
    BY <1>3, Halfway DEF shift
  <2>2. r.head <= MAX_MESSAGE_SIZE /\ r.tail <= r.tail
    BY <1>1, <1>3, Halfway
  <2> QED BY <2>1, <2>2
<1> QED BY <1>2, <1>3

\* One recv moves k cells from the stream to the buffer.
WithCells(s, str, k) ==
    [s EXCEPT !.buf = [i \in s.head..(s.tail + k - 1) |->
                         IF i < s.tail THEN s.buf[i] ELSE str[i - s.tail + 1]],
              !.tail = @ + k]

LEMMA Refilled ==
    ASSUME NEW s, IsBuffer(s), NEW str \in Seq(Cells), NEW k \in Nat, k <= Len(str)
    PROVE  \E r : /\ r = WithCells(s, str, k)
                  /\ IsBuffer(r) /\ r.head = s.head /\ r.tail = s.tail + k
                  /\ \A j \in 1..(available(s) + k) :
                        r.buf[r.head + j - 1] = IF j <= available(s) THEN s.buf[s.head + j - 1]
                                                ELSE str[j - available(s)]
<1>1. /\ s = [buf |-> s.buf, head |-> s.head, tail |-> s.tail]
      /\ s.head \in Nat /\ s.tail \in Nat /\ s.head <= s.tail /\ available(s) = s.tail - s.head
  BY DEF IsBuffer, available
<1>2. PICK b : b = [i \in s.head..(s.tail + k - 1) |->
                      IF i < s.tail THEN s.buf[i] ELSE str[i - s.tail + 1]]
  OBVIOUS
<1>3. PICK r : r = [buf |-> b, head |-> s.head, tail |-> s.tail + k]
  OBVIOUS
<1>4. \A i \in s.head..(s.tail + k - 1) : b[i] = IF i < s.tail THEN s.buf[i] ELSE str[i - s.tail + 1]
  BY <1>2
<1>5. ASSUME NEW i \in s.head..(s.tail + k - 1) PROVE b[i] \in Cells
  <2>1. CASE i < s.tail
    <3>1. i \in s.head..(s.tail - 1)
      BY <1>1, <2>1
    <3>2. s.buf[i] \in Cells
      BY <3>1 DEF IsBuffer
    <3> QED BY <1>4, <2>1, <3>2
  <2>2. CASE ~(i < s.tail)
    <3>1. i - s.tail + 1 \in 1..Len(str)
      BY <1>1, <2>2
    <3>2. str[i - s.tail + 1] \in Cells
      BY <3>1
    <3> QED BY <1>4, <2>2, <3>2
  <2> QED BY <2>1, <2>2
<1>6. IsBuffer(r)
  <2>1. r.buf = b /\ r.head = s.head /\ r.tail = s.tail + k
    BY <1>3
  <2>2. ASSUME NEW i \in r.head..(r.tail - 1) PROVE r.buf[i] \in Cells
    <3>1. i \in s.head..(s.tail + k - 1)
      BY <1>1, <2>1
    <3>2. b[i] \in Cells
      BY <1>5, <3>1
    <3> QED BY <2>1, <3>2
  <2>3. r = [buf |-> r.buf, head |-> r.head, tail |-> r.tail]
    BY <1>3, <2>1
  <2>4. r.head \in Nat /\ r.tail \in Nat /\ r.head <= r.tail
    BY <1>1, <2>1
  <2> QED BY <2>2, <2>3, <2>4 DEF IsBuffer
<1>7. ASSUME NEW j \in 1..(available(s) + k)
      PROVE  b[s.head + j - 1] = IF j <= available(s) THEN s.buf[s.head + j - 1]
                                 ELSE str[j - available(s)]
  <2>1. PICK i \in s.head..(s.tail + k - 1) : i = s.head + j - 1
    BY <1>1
  <2>2. (i < s.tail <=> j <= available(s)) /\ i - s.tail + 1 = j - available(s)
    BY <1>1, <2>1
  <2>3. b[i] = IF i < s.tail THEN s.buf[i] ELSE str[i - s.tail + 1]
    BY <1>4
  <2> QED BY <2>1, <2>2, <2>3
<1>8. r.buf = b /\ r.head = s.head /\ r.tail = s.tail + k
  BY <1>3
<1>9. \A j \in 1..(available(s) + k) :
         r.buf[r.head + j - 1] = IF j <= available(s) THEN s.buf[s.head + j - 1]
                                 ELSE str[j - available(s)]
  BY <1>7, <1>8
<1>10. r = [s EXCEPT !.buf = b, !.tail = @ + k]
  <2>1. PICK x, y, z : s = [buf |-> x, head |-> y, tail |-> z]
    BY <1>1
  <2>2. s.head = y /\ s.tail = z
    BY <2>1
  <2>3. PICK t : t = s.tail + k
    OBVIOUS
  <2>4. [s EXCEPT !.buf = b, !.tail = t] = [buf |-> b, head |-> y, tail |-> t]
    <3>1. PICK e : e = [s EXCEPT !.buf = b, !.tail = t]
      OBVIOUS
    <3>2. e = [buf |-> b, head |-> y, tail |-> t]
      BY <2>1, <3>1
    <3> QED BY <3>1, <3>2
  <2>5. [s EXCEPT !.buf = b, !.tail = @ + k] = [s EXCEPT !.buf = b, !.tail = t]
    BY <2>3, Zenon
  <2> QED BY <1>3, <2>2, <2>3, <2>4, <2>5
<1>11. r = WithCells(s, str, k)
  BY <1>2, <1>10 DEF WithCells
<1> QED BY <1>6, <1>8, <1>9, <1>11

LEMMA Consumed ==
    ASSUME NEW r, IsBuffer(r), NEW n \in Nat, n <= available(r)
    PROVE  \E c : /\ c = consume(r, n) /\ IsBuffer(c) /\ available(c) = available(r) - n
                  /\ c.tail <= r.tail
                  /\ n = available(r) => c.head = 0 /\ c.tail = 0
                  /\ \A j \in 1..(available(r) - n) : c.buf[c.head + j - 1] = r.buf[r.head + (j + n) - 1]
<1>1. /\ r = [buf |-> r.buf, head |-> r.head, tail |-> r.tail]
      /\ r.head \in Nat /\ r.tail \in Nat /\ r.head <= r.tail /\ available(r) = r.tail - r.head
  BY DEF IsBuffer, available
<1>2. CASE r.head + n = r.tail
  <2>1. PICK c : c = EmptyBuffer
    OBVIOUS
  <2>2. c = consume(r, n)
    BY <1>2, <2>1 DEF consume
  <2>3. c = [buf |-> c.buf, head |-> 0, tail |-> 0]
    BY <2>1 DEF EmptyBuffer
  <2>4. IsBuffer(c) /\ available(c) = 0 /\ c.tail <= r.tail /\ c.head = 0 /\ c.tail = 0
    BY <1>1, <2>3 DEF IsBuffer, available
  <2>5. available(r) - n = 0
    BY <1>1, <1>2
  <2> QED BY <2>2, <2>4, <2>5
<1>3. CASE r.head + n # r.tail
  <2>1. PICK h \in Nat : h = r.head + n /\ h < r.tail
    BY <1>1, <1>3
  <2>2. PICK b : b = [i \in h..(r.tail - 1) |-> r.buf[i]]
    OBVIOUS
  <2>3. PICK c : c = [buf |-> b, head |-> h, tail |-> r.tail]
    OBVIOUS
  <2>4. c = consume(r, n)
    <3>1. PICK e : e = [r EXCEPT !.head = h, !.buf = b]
      OBVIOUS
    <3>2. PICK x, y, z : r = [buf |-> x, head |-> y, tail |-> z] /\ z = r.tail
      BY <1>1
    <3>3. e = [buf |-> b, head |-> h, tail |-> z]
      BY <3>1, <3>2
    <3>4. e = c
      BY <2>3, <3>2, <3>3
    <3>5. consume(r, n) = [r EXCEPT !.head = h, !.buf = b]
      BY <1>3, <2>1, <2>2 DEF consume
    <3> QED BY <3>1, <3>4, <3>5
  <2>5. \A i \in h..(r.tail - 1) : b[i] = r.buf[i]
    BY <2>2
  <2>6. ASSUME NEW i \in h..(r.tail - 1) PROVE b[i] \in Cells
    <3>1. i \in r.head..(r.tail - 1)
      BY <1>1, <2>1
    <3> QED BY <2>5, <3>1 DEF IsBuffer
  <2>7. IsBuffer(c)
    BY <1>1, <2>1, <2>3, <2>6 DEF IsBuffer
  <2>8. available(c) = available(r) - n /\ c.tail <= r.tail /\ n # available(r)
    BY <1>1, <2>1, <2>3 DEF available
  <2>9. ASSUME NEW j \in 1..(available(r) - n)
        PROVE  c.buf[c.head + j - 1] = r.buf[r.head + (j + n) - 1]
    <3>1. PICK i \in h..(r.tail - 1) : i = h + j - 1 /\ i = r.head + (j + n) - 1
      BY <1>1, <2>1
    <3>2. b[i] = r.buf[i]
      BY <2>5
    <3> QED BY <2>3, <3>1, <3>2
  <2> QED BY <2>4, <2>7, <2>8, <2>9
<1> QED BY <1>2, <1>3

----------------------------------------------------------------------------
(***************************************************************************)
(* The sender.                                                             *)
(***************************************************************************)
LEMMA NewMessages ==
    ASSUME NEW n \in Nat, NEW p \in Payloads
    PROVE  NewMessage(n, p) \in Messages
<1>1. p[1] \in Nat /\ p[2] \in Nat
  BY FramingAssumption
<1>2. ASSUME NEW kind \in {"data", "ordering"}, NEW count \in Nat
      PROVE  Tagged(kind, n, count) \in Seq(PayloadCells)
  <2>1. \A i \in 1..count : << kind, 100 * n + i >> \in PayloadCells
    BY DEF PayloadCells
  <2>2. PICK t : t = [i \in 1..count |-> << kind, 100 * n + i >>]
    OBVIOUS
  <2>3. t \in [1..count -> PayloadCells]
    BY <2>1, <2>2
  <2>4. t \in Seq(PayloadCells)
    BY <2>3
  <2> QED BY <2>2, <2>4 DEF Tagged
<1>3. Tagged("data", n, p[1]) \in Seq(PayloadCells) /\ Tagged("ordering", n, p[2]) \in Seq(PayloadCells)
  BY <1>1, <1>2
<1> QED BY <1>3 DEF NewMessage, Messages

LEMMA WireAll ==
    ASSUME NEW msgs \in Seq(Messages)
    PROVE  Wire(msgs) \in Seq(Cells)
<1>1. FirstN(msgs, Len(msgs)) = msgs
  BY FirstAll
<1>2. Len(msgs) \in Nat /\ Len(msgs) <= Len(msgs)
  OBVIOUS
<1>3. Wire(FirstN(msgs, Len(msgs))) \in Seq(Cells)
  BY <1>2, WireType
<1> QED BY <1>1, <1>3

\* One more message does not move the others.
LEMMA OffsetKept ==
    ASSUME NEW msgs \in Seq(Messages), NEW msg \in Messages, NEW n \in Nat, n <= Len(msgs)
    PROVE  OffsetOf(Append(msgs, msg), n) = OffsetOf(msgs, n)
<1>1. PICK more \in Seq(Messages) : /\ more = Append(msgs, msg) /\ n <= Len(more)
                                    /\ \A i \in 1..n : more[i] = msgs[i]
  <2>1. PICK a : a = Append(msgs, msg)
    OBVIOUS
  <2>2. a \in Seq(Messages) /\ Len(a) = Len(msgs) + 1
    BY <2>1
  <2>3. \A i \in 1..Len(msgs) : a[i] = msgs[i]
    BY <2>1
  <2> QED BY <2>1, <2>2, <2>3
<1>2. PICK s \in Seq(Messages) : s = FirstN(msgs, n) /\ Len(s) = n /\ \A i \in 1..n : s[i] = msgs[i]
  BY FirstElements
<1>3. PICK t \in Seq(Messages) : t = FirstN(more, n) /\ Len(t) = n /\ \A i \in 1..n : t[i] = more[i]
  <2>1. n <= Len(more)
    BY <1>1
  <2> QED BY <2>1, FirstElements
<1>4. t = s
  BY <1>1, <1>2, <1>3, SeqEqual
<1> QED BY <1>1, <1>2, <1>3, <1>4 DEF OffsetOf

\* What is sent comes after everything that is ahead of the receiver.
LEMMA SentInSync ==
    ASSUME TypeInv, InSync, ~closed,
           NEW msg \in Messages, NEW wire \in Seq(Cells), Starts(wire, Frame(msg)),
           sent' = Append(sent, msg), stream' = stream \o wire,
           wire = Frame(msg) \/ closed', UNCHANGED << rb, delivered >>
    PROVE  InSync'
<1>1. PICK w \in Seq(Cells) : w = Wire(sent)
  BY WireAll DEF TypeInv
<1>2. PICK f \in Seq(Cells) : f = Frame(msg)
  BY FrameCells DEF IsFrame
<1>3. PICK x : x = Wire(sent')
  OBVIOUS
<1>4. sent \in Seq(Messages) /\ stream \in Seq(Cells) /\ IsBuffer(rb)
  BY DEF TypeInv
<1>5. x = w \o f
  BY <1>1, <1>2, <1>3, <1>4, WireAppend
<1>6. Len(x) = Len(w) + Len(f)
  BY <1>5
<1>7. \A i \in 1..Len(w) : x[i] = w[i]
  BY <1>5
<1>8. \A i \in 1..Len(f) : x[Len(w) + i] = f[i]
  BY <1>5
<1>9. Len(delivered) \in Nat /\ Len(delivered) <= Len(sent)
  BY DEF TypeInv
<1>10. PICK p : p = Offset
  OBVIOUS
<1>11. Offset' = p
  <2>1. Offset' = OffsetOf(sent', Len(delivered))
    BY DEF Offset, OffsetOf
  <2> QED BY <1>4, <1>9, <1>10, <2>1, OffsetKept DEF Offset
<1>12. p \in Nat
  <2>1. Wire(FirstN(sent, Len(delivered))) \in Seq(Cells)
    BY <1>4, <1>9, WireType
  <2> QED BY <1>10, <2>1 DEF Offset, OffsetOf
<1>13. PICK n \in Nat : n = available(rb)
  BY <1>4, BufferCells
<1>14. PICK l \in Nat : l = Len(stream)
  BY <1>4
<1>15. PICK str \in Seq(Cells) : str = stream' /\ IsConcat(str, stream, wire)
  BY <1>4, Concatenation
<1>16. Len(str) = l + Len(wire)
  BY <1>14, <1>15 DEF IsConcat
<1>17. \A i \in 1..l : str[i] = stream[i]
  BY <1>14, <1>15 DEF IsConcat
<1>18. \A i \in 1..Len(wire) : str[l + i] = wire[i]
  BY <1>14, <1>15 DEF IsConcat
<1>19. p + n + l = Len(w)
  BY <1>1, <1>10, <1>12, <1>13, <1>14 DEF InSync, Ahead
<1>20. \A j \in 1..(n + l) : CellAhead(rb, stream, j) = w[p + j]
  BY <1>1, <1>10, <1>13, <1>14 DEF InSync, Ahead
<1>21. Ahead(rb, str) = n + l + Len(wire)
  BY <1>13, <1>16 DEF Ahead
<1>22. Len(wire) \in Nat /\ Len(f) \in Nat /\ Len(w) \in Nat /\ Len(wire) <= Len(f)
  BY <1>2 DEF Starts
<1>23. ASSUME NEW j \in 1..Ahead(rb, str) PROVE CellAhead(rb, str, j) = x[p + j]
  <2>1. CASE j <= n + l
    <3>1. CellAhead(rb, str, j) = CellAhead(rb, stream, j)
      <4>1. j > n => j - n \in 1..l
        BY <1>21, <1>22, <2>1
      <4> QED BY <1>13, <1>17, <1>21, <1>22, <4>1 DEF CellAhead
    <3>2. j \in 1..(n + l) /\ p + j \in 1..Len(w)
      BY <1>12, <1>19, <1>21, <1>22, <2>1
    <3> QED BY <1>7, <1>20, <3>1, <3>2
  <2>2. CASE ~(j <= n + l)
    <3>1. PICK i \in 1..Len(wire) : j = n + l + i
      <4>1. j - (n + l) \in 1..Len(wire) /\ j = n + l + (j - (n + l))
        BY <1>21, <1>22, <2>2
      <4> QED BY <4>1
    <3>2. ~(j <= n) /\ j - n = l + i /\ p + j = Len(w) + i /\ i \in 1..Len(f)
      <4>1. i \in Nat /\ 1 <= i /\ i <= Len(wire)
        BY <1>22, <3>1
      <4>2. ~(j <= n) /\ j - n = l + i
        BY <3>1, <4>1
      <4>3. p + j = (p + n + l) + i
        BY <1>12, <3>1, <4>1
      <4>4. i \in 1..Len(f)
        BY <1>22, <4>1
      <4> QED BY <1>19, <4>2, <4>3, <4>4
    <3>3. CellAhead(rb, str, j) = str[l + i]
      BY <1>13, <3>2 DEF CellAhead
    <3>4. str[l + i] = wire[i] /\ wire[i] = f[i] /\ x[Len(w) + i] = f[i]
      BY <1>2, <1>8, <1>18, <3>1, <3>2 DEF Starts
    <3> QED BY <3>2, <3>3, <3>4
  <2> QED BY <2>1, <2>2
<1>24. p + Ahead(rb, str) <= Len(x) /\ (closed' \/ p + Ahead(rb, str) = Len(x))
  <2>1. p + Ahead(rb, str) = Len(w) + Len(wire)
    <3>1. PICK a \in Nat : a = Len(wire)
      BY <1>22
    <3>2. p + (n + l + a) = (p + n + l) + a
      BY <1>12
    <3> QED BY <1>19, <1>21, <3>1, <3>2
  <2>2. closed' \/ Len(wire) = Len(f)
    BY <1>2
  <2>3. Len(w) + Len(wire) <= Len(x)
    BY <1>6, <1>22
  <2> QED BY <1>6, <2>1, <2>2, <2>3
<1> QED
  BY <1>3, <1>11, <1>15, <1>23, <1>24 DEF InSync

LEMMA SentOutOfSync ==
    ASSUME TypeInv, OutOfSync, ~closed,
           NEW msg \in Messages, NEW wire \in Seq(Cells),
           sent' = Append(sent, msg), stream' = stream \o wire, UNCHANGED << rb, delivered >>
    PROVE  OutOfSync'
<1>1. /\ sent \in Seq(Messages) /\ stream \in Seq(Cells) /\ IsBuffer(rb)
      /\ Len(delivered) \in Nat /\ Len(delivered) <= Len(sent)
  BY DEF TypeInv
<1>2. PICK d \in 1..Len(sent) : d = Len(delivered) /\ Size(sent[d]) > MAX_MESSAGE_SIZE
  BY <1>1 DEF OutOfSync
<1>3. sent'[d] = sent[d]
  BY <1>1
<1>4. PICK n \in Nat : n = available(rb)
  BY <1>1, BufferCells
<1>5. Ahead(rb, stream) > 0 /\ CellAhead(rb, stream, 1)[1] # "len_hi"
  BY DEF OutOfSync
<1>6. PICK str \in Seq(Cells) : str = stream' /\ IsConcat(str, stream, wire)
  BY <1>1, Concatenation
<1>7. Len(str) = Len(stream) + Len(wire) /\ Len(stream) \in Nat /\ Len(wire) \in Nat
  BY <1>1, <1>6 DEF IsConcat
<1>8. \A i \in 1..Len(stream) : str[i] = stream[i]
  BY <1>6 DEF IsConcat
<1>9. CellAhead(rb, str, 1) = CellAhead(rb, stream, 1)
  <2>1. ~(1 <= n) => 1 - n \in 1..Len(stream)
    BY <1>4, <1>5, <1>7 DEF Ahead
  <2> QED BY <1>4, <1>8, <2>1 DEF CellAhead
<1>10. Ahead(rb, str) > 0
  BY <1>4, <1>5, <1>7 DEF Ahead
<1> QED BY <1>2, <1>3, <1>5, <1>6, <1>9, <1>10 DEF OutOfSync

----------------------------------------------------------------------------
(***************************************************************************)
(* What the receiver sees of the next message.                             *)
(***************************************************************************)
LEMMA OffsetNext ==
    ASSUME NEW msgs \in Seq(Messages), NEW n \in Nat, n < Len(msgs)
    PROVE  /\ OffsetOf(msgs, n) \in Nat
           /\ OffsetOf(msgs, n + 1) = OffsetOf(msgs, n) + 2 + Size(msgs[n + 1])
           /\ OffsetOf(msgs, n + 1) <= Len(Wire(msgs))
           /\ \A j \in 1..(2 + Size(msgs[n + 1])) :
                 Wire(msgs)[OffsetOf(msgs, n) + j] = Frame(msgs[n + 1])[j]
<1>1. PICK m \in Messages : m = msgs[n + 1]
  OBVIOUS
<1>2. PICK f \in Seq(Cells) : f = Frame(m) /\ Len(f) = 2 + Size(m) /\ Size(m) \in Nat
  BY FrameCells DEF IsFrame
<1>3. PICK w \in Seq(Cells) : w = Wire(FirstN(msgs, n))
  BY WireType
<1>4. PICK x \in Seq(Cells) : x = Wire(FirstN(msgs, n + 1)) /\ IsConcat(x, w, f)
  <2>1. Wire(FirstN(msgs, n + 1)) = w \o f
    BY <1>1, <1>2, <1>3, WireNext
  <2> QED BY <2>1, Concatenation
<1>5. PICK y \in Seq(Cells) : y = Wire(msgs)
  BY WireAll
<1>6. Starts(x, y)
  <2>1. FirstN(msgs, Len(msgs)) = msgs
    BY FirstAll
  <2>2. n + 1 \in Nat /\ Len(msgs) \in Nat /\ n + 1 <= Len(msgs) /\ Len(msgs) <= Len(msgs)
    OBVIOUS
  <2>3. Starts(Wire(FirstN(msgs, n + 1)), Wire(FirstN(msgs, Len(msgs))))
    BY <2>2, WireStarts
  <2> QED BY <1>4, <1>5, <2>1, <2>3
<1>7. Len(x) = Len(w) + 2 + Size(m) /\ Len(w) \in Nat
  BY <1>2, <1>3, <1>4 DEF IsConcat
<1>8. Len(x) <= Len(y)
  BY <1>6 DEF Starts
<1>9. ASSUME NEW j \in 1..(2 + Size(m)) PROVE y[Len(w) + j] = f[j]
  <2>1. x[Len(w) + j] = f[j]
    BY <1>2, <1>4 DEF IsConcat
  <2>2. Len(w) + j \in 1..Len(x)
    BY <1>2, <1>7
  <2> QED BY <1>6, <2>1, <2>2 DEF Starts
<1>10. OffsetOf(msgs, n) = Len(w) /\ OffsetOf(msgs, n + 1) = Len(x)
  BY <1>3, <1>4 DEF OffsetOf
<1> QED BY <1>1, <1>2, <1>5, <1>7, <1>8, <1>9, <1>10

LEMMA AheadType ==
    ASSUME TypeInv
    PROVE  /\ available(rb) \in Nat /\ Len(stream) \in Nat /\ Ahead(rb, stream) \in Nat
           /\ available(rb) <= Ahead(rb, stream)
           /\ Len(delivered) \in Nat /\ Len(sent) \in Nat
           /\ Offset \in Nat
<1>1. available(rb) \in Nat
  BY BufferCells DEF TypeInv
<1>2. Len(stream) \in Nat /\ Len(delivered) \in Nat /\ Len(sent) \in Nat
  BY DEF TypeInv
<1>3. sent \in Seq(Messages) /\ Len(delivered) <= Len(sent)
  BY DEF TypeInv
<1>4. Wire(FirstN(sent, Len(delivered))) \in Seq(Cells)
  BY <1>2, <1>3, WireType
<1>5. Offset \in Nat
  BY <1>4 DEF Offset, OffsetOf
<1> QED BY <1>1, <1>2, <1>5 DEF Ahead

\* Whatever is ahead belongs to the next message first.
LEMMA NextFrame ==
    ASSUME TypeInv, InSync, Ahead(rb, stream) > 0
    PROVE  \E m \in Messages :
              /\ Len(delivered) < Len(sent) /\ m = sent[Len(delivered) + 1]
              /\ OffsetOf(sent, Len(delivered) + 1) = Offset + 2 + Size(m)
              /\ OffsetOf(sent, Len(delivered) + 1) <= Len(Wire(sent))
              /\ \A j \in 1..Ahead(rb, stream) :
                    j <= 2 + Size(m) => CellAhead(rb, stream, j) = Frame(m)[j]
<1>1. /\ Ahead(rb, stream) \in Nat /\ Len(delivered) \in Nat /\ Len(sent) \in Nat
      /\ Offset \in Nat
  BY AheadType
<1>2. sent \in Seq(Messages) /\ Len(delivered) <= Len(sent)
  BY DEF TypeInv
<1>3. Offset + Ahead(rb, stream) <= Len(Wire(sent))
  BY DEF InSync
<1>4. Len(delivered) # Len(sent)
  <2> SUFFICES ASSUME Len(delivered) = Len(sent) PROVE FALSE
    OBVIOUS
  <2>1. FirstN(sent, Len(delivered)) = sent
    BY <1>2, FirstAll
  <2>2. Offset = Len(Wire(sent))
    BY <2>1 DEF Offset, OffsetOf
  <2> QED BY <1>1, <1>3, <2>2
<1>5. PICK n \in Nat : n = Len(delivered) /\ n < Len(sent)
  BY <1>1, <1>2, <1>4
<1>6. PICK m \in Messages : m = sent[n + 1]
  BY <1>2, <1>5
<1>7. /\ OffsetOf(sent, n + 1) = OffsetOf(sent, n) + 2 + Size(sent[n + 1])
      /\ OffsetOf(sent, n + 1) <= Len(Wire(sent))
  BY <1>2, <1>5, OffsetNext
<1>8. \A j \in 1..(2 + Size(m)) : Wire(sent)[OffsetOf(sent, n) + j] = Frame(m)[j]
  BY <1>2, <1>5, <1>6, OffsetNext
<1>9. Offset = OffsetOf(sent, n)
  BY <1>5 DEF Offset
<1>10. Size(m) \in Nat
  BY FrameCells
<1>11. ASSUME NEW j \in 1..Ahead(rb, stream), j <= 2 + Size(m)
       PROVE  CellAhead(rb, stream, j) = Frame(m)[j]
  <2>1. CellAhead(rb, stream, j) = Wire(sent)[Offset + j]
    BY DEF InSync
  <2>2. j \in 1..(2 + Size(m))
    BY <1>1, <1>10, <1>11
  <2> QED BY <1>8, <1>9, <2>1, <2>2
<1> QED BY <1>5, <1>6, <1>7, <1>9, <1>11

LEMMA PrefixCells ==
    ASSUME TypeInv, HasPrefix
    PROVE  /\ available(rb) >= 2 /\ Ahead(rb, stream) >= 2
           /\ CellAhead(rb, stream, 1) = rb.buf[rb.head]
           /\ CellAhead(rb, stream, 2) = rb.buf[rb.head + 1]
           /\ msg_len \in Nat
<1>1. available(rb) \in Nat /\ available(rb) >= 2 /\ Ahead(rb, stream) >= 2
  BY AheadType DEF HasPrefix
<1>2. rb.head \in Nat /\ rb.head + 1 - 1 = rb.head /\ rb.head + 2 - 1 = rb.head + 1
  BY DEF TypeInv, IsBuffer
<1>3. rb.buf[rb.head + 1 - 1] \in Cells
  BY <1>1, BufferCells DEF TypeInv
<1>4. msg_len \in Nat
  BY <1>2, <1>3 DEF msg_len, Cells
<1>5. CellAhead(rb, stream, 1) = rb.buf[rb.head + 1 - 1]
  BY <1>1 DEF CellAhead
<1>6. CellAhead(rb, stream, 2) = rb.buf[rb.head + 2 - 1]
  BY <1>1 DEF CellAhead
<1> QED BY <1>1, <1>2, <1>4, <1>5, <1>6

\* In sync, what stands at head is the length of the next message.
LEMMA PrefixSeen ==
    ASSUME TypeInv, InSync, HasPrefix
    PROVE  \E m \in Messages :
              /\ Len(delivered) < Len(sent) /\ m = sent[Len(delivered) + 1]
              /\ Aligned
              /\ msg_len = Size(m) % (MAX_MESSAGE_SIZE + 1)
              /\ msg_len \in 0..MAX_MESSAGE_SIZE
              /\ Size(m) \in Nat
              /\ Size(m) <= MAX_MESSAGE_SIZE => msg_len = Size(m)
<1>1. Ahead(rb, stream) \in Nat /\ Ahead(rb, stream) >= 2
  BY PrefixCells, AheadType
<1>2. PICK m \in Messages :
              /\ Len(delivered) < Len(sent) /\ m = sent[Len(delivered) + 1]
              /\ \A j \in 1..Ahead(rb, stream) :
                    j <= 2 + Size(m) => CellAhead(rb, stream, j) = Frame(m)[j]
  BY <1>1, NextFrame
<1>3. Size(m) \in Nat /\ IsFrame(Frame(m), m)
  BY FrameCells
<1>4. CellAhead(rb, stream, 1) = Frame(m)[1] /\ CellAhead(rb, stream, 2) = Frame(m)[2]
  BY <1>1, <1>2, <1>3
<1>5. PICK l : l = Size(m) % (MAX_MESSAGE_SIZE + 1)
  OBVIOUS
<1>6. Frame(m)[1] = <<"len_hi", l>> /\ Frame(m)[2] = <<"len_lo", l>>
  BY <1>3, <1>5 DEF IsFrame
<1>7. rb.buf[rb.head] = <<"len_hi", l>> /\ rb.buf[rb.head + 1] = <<"len_lo", l>>
  BY <1>4, <1>6, PrefixCells
<1>8. Aligned
  BY <1>7 DEF Aligned
<1>9. msg_len = l
  BY <1>7 DEF msg_len
<1>10. l \in 0..MAX_MESSAGE_SIZE /\ (Size(m) <= MAX_MESSAGE_SIZE => l = Size(m))
  BY <1>3, <1>5, Halfway
<1> QED BY <1>2, <1>3, <1>5, <1>8, <1>9, <1>10

LEMMA OutOfSyncSeen ==
    ASSUME TypeInv, OutOfSync, HasPrefix
    PROVE  ~Aligned
<1>1. Ahead(rb, stream) > 0
  BY PrefixCells, AheadType
<1>2. CellAhead(rb, stream, 1)[1] # "len_hi"
  BY <1>1 DEF OutOfSync
<1> QED BY <1>2, PrefixCells DEF Aligned

LEMMA BodyCells ==
    ASSUME TypeInv, HasPrefix, available(rb) >= total_needed
    PROVE  /\ msg_len \in Nat /\ 2 + msg_len <= available(rb)
           /\ Body \in Seq(Cells) /\ Len(Body) = msg_len
           /\ \A i \in 1..msg_len : Body[i] = CellAhead(rb, stream, 2 + i)
<1>1. PICK n \in Nat : n = msg_len
  BY PrefixCells
<1>2. 2 + n <= available(rb) /\ available(rb) \in Nat
  BY <1>1, AheadType DEF total_needed
<1>3. PICK h \in Nat : h = rb.head
  BY DEF TypeInv, IsBuffer
<1>4. PICK b : b = [i \in 1..n |-> rb.buf[h + 1 + i]]
  OBVIOUS
<1>5. ASSUME NEW i \in 1..n
      PROVE  b[i] \in Cells /\ b[i] = CellAhead(rb, stream, 2 + i)
  <2>1. 2 + i \in 1..available(rb) /\ 2 + i <= available(rb) /\ h + (2 + i) - 1 = h + 1 + i
    BY <1>2, <1>3
  <2>2. rb.buf[h + (2 + i) - 1] \in Cells
    BY <1>3, <2>1, BufferCells DEF TypeInv
  <2>3. CellAhead(rb, stream, 2 + i) = rb.buf[h + (2 + i) - 1]
    BY <1>3, <2>1 DEF CellAhead
  <2>4. b[i] = rb.buf[h + 1 + i]
    BY <1>4
  <2> QED BY <2>1, <2>2, <2>3, <2>4
<1>6. b \in [1..n -> Cells]
  BY <1>4, <1>5
<1>7. b \in Seq(Cells) /\ Len(b) = n
  BY <1>6
<1>8. Body = b
  BY <1>1, <1>3, <1>4 DEF Body
<1> QED BY <1>1, <1>2, <1>5, <1>7, <1>8

LEMMA BodySeen ==
    ASSUME TypeInv, InSync, HasPrefix, available(rb) >= total_needed,
           NEW m \in Messages, m = sent[Len(delivered) + 1], Size(m) <= MAX_MESSAGE_SIZE
    PROVE  Body = layout(m)
<1>1. msg_len = Size(m)
  BY PrefixSeen
<1>2. PICK b \in Seq(Cells) : b = Body
  BY BodyCells
<1>3. Len(b) = msg_len /\ msg_len \in Nat /\ 2 + msg_len <= available(rb)
  BY <1>2, BodyCells
<1>4. \A i \in 1..msg_len : b[i] = CellAhead(rb, stream, 2 + i)
  BY <1>2, BodyCells
<1>5. available(rb) \in Nat /\ Ahead(rb, stream) \in Nat /\ available(rb) <= Ahead(rb, stream)
  BY AheadType
<1>6. \A j \in 1..Ahead(rb, stream) : j <= 2 + Size(m) => CellAhead(rb, stream, j) = Frame(m)[j]
  BY <1>3, <1>5, NextFrame
<1>7. PICK l \in Seq(Cells) : l = layout(m) /\ Len(l) = Size(m)
  <2>1. PICK d, o \in Nat : IsLayout(layout(m), m, d, o)
    BY LayoutCells
  <2> QED BY <2>1 DEF IsLayout, Size
<1>8. \A i \in 1..Size(m) : Frame(m)[2 + i] = l[i]
  BY <1>7, FrameCells DEF IsFrame
<1>9. ASSUME NEW i \in 1..Len(b) PROVE b[i] = l[i]
  <2>1. i \in 1..msg_len /\ i \in 1..Size(m)
    BY <1>1, <1>3
  <2>2. 2 + i \in 1..Ahead(rb, stream) /\ 2 + i <= 2 + Size(m)
    BY <1>1, <1>3, <1>5
  <2>3. b[i] = CellAhead(rb, stream, 2 + i)
    BY <1>4, <2>1
  <2>4. CellAhead(rb, stream, 2 + i) = Frame(m)[2 + i]
    BY <1>6, <2>2
  <2> QED BY <1>8, <2>1, <2>3, <2>4
<1>10. Len(b) = Len(l)
  BY <1>1, <1>3, <1>7
<1>11. b = l
  BY <1>9, <1>10, SeqEqual
<1> QED BY <1>2, <1>7, <1>11

\* What a receiver makes of any body.
LEMMA ParsedType ==
    ASSUME NEW body \in Seq(Cells), ~(mode = "raw" /\ DataBehindBody(body))
    PROVE  Parsed(body) = << >> \/ \E x \in Received : Parsed(body) = << x >>
<1>1. \A i \in 1..Len(body) : body[i][2] \in Nat
  <2>1. \A i \in 1..Len(body) : body[i] \in Cells
    OBVIOUS
  <2> QED BY <2>1 DEF Cells
<1>2. Len(body) \in Nat
  OBVIOUS
<1>3. ASSUME NEW a \in Nat \ {0}, NEW b \in Nat, b <= Len(body)
      PROVE  SubSeq(body, a, b) \in Seq(Cells)
  <2>1. \A i \in a..b : body[i] \in Cells
    BY <1>2, <1>3
  <2> QED BY <2>1, SubSeqProperties
<1>4. CASE mode # "raw"
  <2>1. Parsed(body) = deserialize(body)
    BY <1>4 DEF Parsed
  <2>2. PICK d : d = body[2][2]
    OBVIOUS
  <2>3. PICK o : o = body[FIXED + d][2]
    OBVIOUS
  <2>4. CASE Len(body) < FIXED \/ 2 + d > Len(body) \/ FIXED + d > Len(body) \/ FIXED + d + o > Len(body)
    BY <2>1, <2>2, <2>3, <2>4 DEF deserialize
  <2>5. CASE ~(Len(body) < FIXED \/ 2 + d > Len(body) \/ FIXED + d > Len(body) \/ FIXED + d + o > Len(body))
    <3>1. PICK x : x = [header |-> body[1][2], data |-> SubSeq(body, 3, 2 + d),
                        ordering_values |-> SubSeq(body, FIXED + d + 1, FIXED + d + o)]
      OBVIOUS
    <3>2. deserialize(body) = << x >>
      BY <2>2, <2>3, <2>5, <3>1 DEF deserialize
    <3>3. body[1][2] \in Nat /\ d \in Nat
      BY <1>1, <1>2, <2>2, <2>5 DEF FIXED
    <3>4. FIXED + d \in 1..Len(body)
      BY <1>2, <2>5, <3>3 DEF FIXED
    <3>5. o \in Nat
      BY <1>1, <2>3, <3>4
    <3>6. SubSeq(body, 3, 2 + d) \in Seq(Cells)
      <4>1. 2 + d \in Nat /\ 2 + d <= Len(body) /\ 3 \in Nat \ {0}
        BY <1>2, <2>5, <3>3
      <4> QED BY <1>3, <4>1
    <3>7. SubSeq(body, FIXED + d + 1, FIXED + d + o) \in Seq(Cells)
      <4>1. FIXED + d + 1 \in Nat \ {0} /\ FIXED + d + o \in Nat /\ FIXED + d + o <= Len(body)
        BY <1>2, <2>5, <3>3, <3>5 DEF FIXED
      <4> QED BY <1>3, <4>1
    <3>8. x \in Received
      BY <3>1, <3>3, <3>6, <3>7 DEF Received
    <3> QED BY <2>1, <3>2, <3>8
  <2> QED BY <2>4, <2>5
<1>5. CASE mode = "raw" /\ Len(body) < 1
  BY <1>5 DEF Parsed
<1>6. CASE mode = "raw" /\ ~(Len(body) < 1)
  <2>1. Parsed(body) = peek(body)
    BY <1>6 DEF Parsed
  <2>2. PICK d : d = IF Len(body) < 2 THEN 0 ELSE body[2][2]
    OBVIOUS
  <2>3. PICK x : x = [header |-> body[1][2], data |-> SubSeq(body, 3, 2 + d),
                      ordering_values |-> << >>]
    OBVIOUS
  <2>4. peek(body) = << x >>
    BY <2>2, <2>3 DEF peek
  <2>5. body[1][2] \in Nat
    BY <1>1, <1>2, <1>6
  <2>6. SubSeq(body, 3, 2 + d) \in Seq(Cells)
    <3>1. CASE Len(body) < 2
      <4>1. SubSeq(body, 3, 2) = << >>
        BY SubSeqEmpty
      <4>2. << >> \in Seq(Cells)
        OBVIOUS
      <4>3. 2 + d = 2
        BY <2>2, <3>1
      <4> QED BY <4>1, <4>2, <4>3
    <3>2. CASE ~(Len(body) < 2)
      <4>1. d = body[2][2] /\ d \in Nat
        BY <1>1, <1>2, <2>2, <3>2
      <4>2. 2 + d \in Nat /\ 2 + d <= Len(body)
        BY <1>2, <1>6, <3>2, <4>1 DEF DataBehindBody
      <4>3. 3 \in Nat \ {0}
        OBVIOUS
      <4> QED BY <1>3, <4>2, <4>3
    <3> QED BY <3>1, <3>2
  <2>7. x \in Received
    <3>1. << >> \in Seq(Cells)
      OBVIOUS
    <3> QED BY <2>3, <2>5, <2>6, <3>1 DEF Received
  <2> QED BY <2>1, <2>4, <2>7
<1> QED BY <1>4, <1>5, <1>6

----------------------------------------------------------------------------
(***************************************************************************)
(* The receiver's steps.                                                   *)
(***************************************************************************)
LEMMA ConsumedAhead ==
    ASSUME TypeInv, NEW n \in Nat, n <= available(rb)
    PROVE  \E c : /\ c = consume(rb, n) /\ IsBuffer(c) /\ c.tail <= rb.tail
                  /\ n = available(rb) => c.head = 0 /\ c.tail = 0
                  /\ Ahead(c, stream) = Ahead(rb, stream) - n
                  /\ \A j \in 1..Ahead(c, stream) :
                        CellAhead(c, stream, j) = CellAhead(rb, stream, j + n)
<1>1. IsBuffer(rb)
  BY DEF TypeInv
<1>2. PICK c : /\ c = consume(rb, n) /\ IsBuffer(c) /\ available(c) = available(rb) - n
               /\ c.tail <= rb.tail
               /\ n = available(rb) => c.head = 0 /\ c.tail = 0
               /\ \A j \in 1..(available(rb) - n) :
                     c.buf[c.head + j - 1] = rb.buf[rb.head + (j + n) - 1]
  BY <1>1, Consumed
<1>3. available(rb) \in Nat /\ Len(stream) \in Nat
  BY AheadType
<1>4. Ahead(c, stream) = Ahead(rb, stream) - n
  BY <1>2, <1>3 DEF Ahead
<1>5. ASSUME NEW j \in 1..Ahead(c, stream)
      PROVE  CellAhead(c, stream, j) = CellAhead(rb, stream, j + n)
  <2>1. j \in Nat /\ j >= 1
    BY <1>2, <1>3 DEF Ahead
  <2>2. CASE j <= available(rb) - n
    <3>1. j \in 1..(available(rb) - n) /\ j <= available(c) /\ j + n <= available(rb)
      BY <1>2, <1>3, <2>1, <2>2
    <3>2. CellAhead(c, stream, j) = c.buf[c.head + j - 1]
      BY <3>1 DEF CellAhead
    <3>3. CellAhead(rb, stream, j + n) = rb.buf[rb.head + (j + n) - 1]
      BY <3>1 DEF CellAhead
    <3> QED BY <1>2, <3>1, <3>2, <3>3
  <2>3. CASE ~(j <= available(rb) - n)
    <3>1. ~(j <= available(c)) /\ ~(j + n <= available(rb)) /\ j - available(c) = j + n - available(rb)
      BY <1>2, <1>3, <2>1, <2>3
    <3>2. PICK i : i = j - available(c) /\ i = j + n - available(rb)
      BY <3>1
    <3>3. CellAhead(c, stream, j) = stream[i]
      BY <3>1, <3>2 DEF CellAhead
    <3>4. CellAhead(rb, stream, j + n) = stream[i]
      <4>1. PICK q \in Nat : q = j + n /\ ~(q <= available(rb)) /\ i = q - available(rb)
        BY <1>3, <2>1, <3>1, <3>2
      <4>2. CellAhead(rb, stream, q) = stream[i]
        BY <4>1 DEF CellAhead
      <4> QED BY <4>1, <4>2
    <3> QED BY <3>3, <3>4
  <2> QED BY <2>2, <2>3
<1> QED BY <1>2, <1>4, <1>5

LEMMA RefilledAhead ==
    ASSUME TypeInv, NEW k \in 1..CAPACITY, Refill(k)
    PROVE  /\ IsBuffer(rb') /\ stream' \in Seq(Cells)
           /\ Ahead(rb', stream') = Ahead(rb, stream)
           /\ \A j \in 1..Ahead(rb, stream) : CellAhead(rb', stream', j) = CellAhead(rb, stream, j)
           /\ \E s : /\ s = shift(rb) /\ rb'.head = s.head /\ rb'.tail = s.tail + k
                     /\ s.tail \in Nat /\ s.tail <= rb.tail /\ (rb.head = 0 => s = rb)
           /\ available(rb) <= available(rb')
           /\ HasPrefix => rb'.buf[rb'.head] = rb.buf[rb.head]
<1>1. IsBuffer(rb) /\ rb.tail <= CAPACITY /\ stream \in Seq(Cells)
  BY DEF TypeInv
<1>2. PICK s : /\ s = shift(rb) /\ IsBuffer(s) /\ available(s) = available(rb)
               /\ s.tail <= rb.tail /\ (rb.head = 0 => s = rb)
               /\ \A j \in 1..available(rb) : s.buf[s.head + j - 1] = rb.buf[rb.head + j - 1]
  BY <1>1, Shifted
<1>3. k \in Nat /\ k >= 1 /\ k <= Len(stream)
  BY Halfway DEF Refill
<1>4. PICK r : /\ r = WithCells(s, stream, k)
               /\ IsBuffer(r) /\ r.head = s.head /\ r.tail = s.tail + k
               /\ \A j \in 1..(available(s) + k) :
                     r.buf[r.head + j - 1] = IF j <= available(s) THEN s.buf[s.head + j - 1]
                                             ELSE stream[j - available(s)]
  BY <1>1, <1>2, <1>3, Refilled
<1>5. rb' = r /\ stream' = SubSeq(stream, k + 1, Len(stream))
  <2>1. rb' = WithCells(shift(rb), stream, k)
    BY DEF Refill, WithCells
  <2> QED BY <1>2, <1>4, <2>1 DEF Refill
<1>6. PICK n \in Nat : n = available(rb) /\ n = available(s) /\ n + k = available(r)
  <2>1. available(rb) \in Nat
    BY AheadType
  <2>2. available(r) = r.tail - r.head /\ available(s) = s.tail - s.head
    BY DEF available
  <2>3. s.head \in Nat /\ s.tail \in Nat
    BY <1>2 DEF IsBuffer
  <2>4. r.head = s.head /\ r.tail = s.tail + k /\ available(s) = available(rb)
    BY <1>2, <1>4
  <2> QED BY <1>3, <2>1, <2>2, <2>3, <2>4
<1>7. PICK l \in Nat : l = Len(stream) /\ k <= l
  BY <1>1, <1>3
<1>8. PICK str \in Seq(Cells) : str = stream' /\ Len(str) = l - k
                                /\ \A i \in 1..(l - k) : str[i] = stream[k + i]
  <2>1. PICK t : t = SubSeq(stream, k + 1, l)
    OBVIOUS
  <2>2. \A i \in (k + 1)..l : stream[i] \in Cells
    BY <1>1, <1>3, <1>7
  <2>3. /\ t \in Seq(Cells) /\ Len(t) = IF k + 1 <= l THEN l - (k + 1) + 1 ELSE 0
        /\ \A i \in 1..(l - (k + 1) + 1) : t[i] = stream[(k + 1) + i - 1]
    BY <1>3, <2>1, <2>2, SubSeqProperties
  <2>4. Len(t) = l - k
    BY <1>3, <1>7, <2>3
  <2>5. \A i \in 1..(l - k) : t[i] = stream[k + i]
    BY <1>3, <2>3
  <2> QED BY <1>5, <1>7, <2>1, <2>3, <2>4, <2>5
<1>9. Ahead(r, str) = n + l /\ Ahead(rb, stream) = n + l
  BY <1>3, <1>6, <1>7, <1>8 DEF Ahead
<1>10. ASSUME NEW j \in 1..(n + l) PROVE CellAhead(r, str, j) = CellAhead(rb, stream, j)
  <2>1. CASE j <= n
    <3>1. j \in 1..n /\ j \in 1..(n + k) /\ j <= n + k
      BY <1>3, <2>1
    <3>2. r.buf[r.head + j - 1] = s.buf[s.head + j - 1]
      BY <1>4, <1>6, <2>1, <3>1
    <3>3. s.buf[s.head + j - 1] = rb.buf[rb.head + j - 1]
      BY <1>2, <1>6, <3>1
    <3> QED BY <1>6, <2>1, <3>1, <3>2, <3>3 DEF CellAhead
  <2>2. CASE ~(j <= n) /\ j <= n + k
    <3>1. j \in 1..(n + k)
      BY <1>3, <2>2
    <3>2. r.buf[r.head + j - 1] = stream[j - n]
      BY <1>4, <1>6, <2>2, <3>1
    <3> QED BY <1>6, <2>2, <3>2 DEF CellAhead
  <2>3. CASE ~(j <= n + k)
    <3>1. j - (n + k) \in 1..(l - k) /\ k + (j - (n + k)) = j - n /\ ~(j <= n)
      BY <1>3, <2>3
    <3>2. str[j - (n + k)] = stream[j - n]
      BY <1>8, <3>1
    <3> QED BY <1>6, <2>3, <3>1, <3>2 DEF CellAhead
  <2> QED BY <2>1, <2>2, <2>3
<1>11. ASSUME HasPrefix PROVE r.buf[r.head] = rb.buf[rb.head]
  <2>1. 1 \in 1..(n + l) /\ 1 <= n /\ 1 <= n + k
    BY <1>3, <1>6, <1>11 DEF HasPrefix
  <2>2. CellAhead(r, str, 1) = CellAhead(rb, stream, 1)
    BY <1>10, <2>1
  <2>3. r.head \in Nat /\ rb.head \in Nat
    BY <1>1, <1>4 DEF IsBuffer
  <2>4. CellAhead(r, str, 1) = r.buf[r.head]
    BY <1>6, <2>1, <2>3 DEF CellAhead
  <2>5. CellAhead(rb, stream, 1) = rb.buf[rb.head]
    BY <1>6, <2>1, <2>3 DEF CellAhead
  <2> QED BY <2>2, <2>4, <2>5
<1>12. s.tail \in Nat /\ n <= n + k
  BY <1>2, <1>3 DEF IsBuffer
<1> QED BY <1>2, <1>4, <1>5, <1>6, <1>8, <1>9, <1>10, <1>11, <1>12

----------------------------------------------------------------------------
(***************************************************************************)
(* The invariant is inductive: one lemma per kind of step.                 *)
(***************************************************************************)
\* Both kinds of send, and the one that fails half way.
LEMMA SendStep ==
    ASSUME FramingInv, MaySend,
           NEW msg \in Messages, NEW wire \in Seq(Cells), Starts(wire, Frame(msg)),
           sent' = Append(sent, msg), stream' = stream \o wire,
           closed' \in BOOLEAN, wire = Frame(msg) \/ closed',
           UNCHANGED << mode, rb, delivered, rstate, leftover >>
    PROVE  FramingInv'
<1>1. TypeInv /\ rstate = "open" /\ ~closed /\ ~leftover /\ Len(sent) < MaxMessages
  BY DEF FramingInv, MaySend, TypeInv
<1>2. PICK more \in Seq(Messages) : more = sent' /\ Len(more) = Len(sent) + 1
                                    /\ \A i \in 1..Len(sent) : more[i] = sent[i]
  <2>1. sent \in Seq(Messages)
    BY <1>1 DEF TypeInv
  <2>2. PICK a : a = Append(sent, msg)
    OBVIOUS
  <2>3. a \in Seq(Messages) /\ Len(a) = Len(sent) + 1
    BY <2>1, <2>2
  <2>4. \A i \in 1..Len(sent) : a[i] = sent[i]
    BY <2>1, <2>2
  <2> QED BY <2>2, <2>3, <2>4
<1>3. Len(sent) \in Nat /\ Len(delivered) \in Nat /\ Len(delivered) <= Len(sent) /\ MaxMessages \in Nat
  BY <1>1, AheadType, FramingAssumption DEF TypeInv
<1>4. TypeInv'
  <2>1. stream' \in Seq(Cells)
    <3>1. stream \in Seq(Cells)
      BY <1>1 DEF TypeInv
    <3> QED BY <3>1, Concatenation
  <2>2. sent' \in Seq(Messages) /\ Len(sent') <= MaxMessages /\ Len(delivered') <= Len(sent')
    BY <1>1, <1>2, <1>3
  <2>3. IsBuffer(rb') /\ rb'.tail <= CAPACITY /\ delivered' \in Seq(Received)
    BY <1>1 DEF TypeInv
  <2>4. mode' \in {"raw", "buffered", "exact"} /\ rstate' \in {"open", "failed", "garbled"}
    BY <1>1 DEF TypeInv
  <2>5. closed' \in BOOLEAN /\ leftover' \in BOOLEAN
    BY <1>1 DEF TypeInv
  <2> QED BY <2>1, <2>2, <2>3, <2>4, <2>5 DEF TypeInv
<1>5. Fit(Len(delivered))' => \A i \in 1..Len(delivered') : Same(i)'
  <2> SUFFICES ASSUME Fit(Len(delivered))', NEW i \in 1..Len(delivered') PROVE Same(i)'
    OBVIOUS
  <2>1. Fit(Len(delivered))
    <3>1. \A j \in 1..Len(more) : j <= Len(delivered) => Size(more[j]) <= MAX_MESSAGE_SIZE
      BY <1>2 DEF Fit
    <3>2. ASSUME NEW j \in 1..Len(sent), j <= Len(delivered) PROVE Size(sent[j]) <= MAX_MESSAGE_SIZE
      <4>1. j \in 1..Len(more) /\ more[j] = sent[j]
        BY <1>2, <1>3
      <4>2. Size(more[j]) <= MAX_MESSAGE_SIZE
        BY <3>1, <3>2, <4>1
      <4> QED BY <4>1, <4>2
    <3> QED BY <1>1, <3>2 DEF Fit
  <2>2. Same(i)
    BY <2>1 DEF FramingInv
  <2>3. i \in 1..Len(sent)
    BY <1>3
  <2>4. sent'[i] = sent[i]
    BY <1>2, <2>3
  <2> QED BY <2>2, <2>4 DEF Same
<1>6. (InSync \/ OutOfSync)'
  <2>1. CASE InSync
    BY <1>1, <2>1, SentInSync
  <2>2. CASE OutOfSync
    BY <1>1, <2>2, SentOutOfSync
  <2> QED BY <1>1, <2>1, <2>2 DEF FramingInv
<1>7. ExactInv'
  <2>1. ExactInv
    BY <1>1 DEF FramingInv
  <2> QED BY <2>1 DEF ExactInv, total_needed, HasPrefix, msg_len, available
<1>8. rstate' = "open" /\ leftover' = FALSE
  BY <1>1
<1> QED BY <1>4, <1>5, <1>6, <1>7, <1>8 DEF FramingInv

LEMMA SendActions ==
    ASSUME FramingInv, NEW p \in Payloads, SendBytesRaw(p) \/ SendMessage(p) \/ SendFails(p)
    PROVE  FramingInv'
<1>1. PICK msg \in Messages : msg = NewMessage(Len(sent) + 1, p)
  <2>1. Len(sent) + 1 \in Nat
    BY DEF FramingInv, TypeInv
  <2> QED BY <2>1, NewMessages
<1>2. PICK f \in Seq(Cells) : f = Frame(msg) /\ Starts(f, Frame(msg))
  <2>1. Frame(msg) \in Seq(Cells)
    BY FrameCells DEF IsFrame
  <2>2. Len(Frame(msg)) \in Nat
    BY <2>1
  <2> QED BY <2>1, <2>2 DEF Starts
<1>3. closed \in BOOLEAN
  BY DEF FramingInv, TypeInv
<1>4. CASE SendBytesRaw(p)
  <2>1. MaySend /\ Send(msg, f)
    BY <1>1, <1>2, <1>4 DEF SendBytesRaw, build_wire_bytes, Frame
  <2> QED BY <1>2, <1>3, <2>1, SendStep DEF Send
<1>5. CASE SendMessage(p)
  <2>1. MaySend /\ serialize(msg) # << >> /\ Send(msg, prefixed(serialize(msg)))
    BY <1>1, <1>5 DEF SendMessage
  <2>2. serialize(msg) = layout(msg)
    BY <2>1 DEF serialize
  <2>3. Send(msg, f)
    BY <1>2, <2>1, <2>2 DEF Frame
  <2> QED BY <1>2, <1>3, <2>1, <2>3, SendStep DEF Send
<1>6. CASE SendFails(p)
  <2>1. PICK k \in 0..(Len(layout(msg)) + 1) : stream' = stream \o SubSeq(prefixed(layout(msg)), 1, k)
    BY <1>1, <1>6 DEF SendFails
  <2>2. k \in Nat /\ k <= Len(f) /\ Len(f) \in Nat
    <3>1. Size(msg) \in Nat /\ Len(f) = 2 + Size(msg)
      BY <1>2, FrameCells DEF IsFrame
    <3> QED BY <3>1 DEF Size
  <2>3. PICK wire \in Seq(Cells) : wire = FirstN(f, k) /\ Len(wire) = k /\ \A i \in 1..k : wire[i] = f[i]
    BY <1>2, <2>2, FirstElements
  <2>4. Starts(wire, Frame(msg))
    BY <1>2, <2>2, <2>3 DEF Starts
  <2>5. stream' = stream \o wire
    BY <1>2, <2>1, <2>3 DEF FirstN, Frame
  <2>6. /\ MaySend /\ sent' = Append(sent, msg) /\ closed' = TRUE
        /\ UNCHANGED << mode, rb, delivered, rstate, leftover >>
    BY <1>1, <1>6 DEF SendFails
  <2> QED BY <2>3, <2>4, <2>5, <2>6, SendStep
<1> QED BY <1>4, <1>5, <1>6

LEMMA CloseStep ==
    ASSUME FramingInv, Close
    PROVE  FramingInv'
<1>1. closed' = TRUE /\ UNCHANGED << mode, sent, stream, rb, delivered, rstate, leftover >>
  BY DEF Close
<1>2. TypeInv'
  BY <1>1 DEF FramingInv, TypeInv
<1>3. Fit(Len(delivered))' <=> Fit(Len(delivered))
  BY <1>1 DEF Fit
<1>4. Fit(Len(delivered) + 1)' <=> Fit(Len(delivered) + 1)
  BY <1>1 DEF Fit
<1>5. Fit(Len(delivered))' => \A i \in 1..Len(delivered') : Same(i)'
  BY <1>1, <1>3 DEF FramingInv, Same
<1>6. rstate' = "open" => (InSync \/ OutOfSync)' /\ ExactInv'
  <2> SUFFICES ASSUME rstate = "open" PROVE (InSync \/ OutOfSync)' /\ ExactInv'
    BY <1>1
  <2>1. ExactInv'
    BY <1>1 DEF FramingInv, ExactInv, total_needed, HasPrefix, msg_len, available
  <2>2. CASE InSync
    <3>1. InSync'
      BY <1>1, <2>2 DEF InSync, Offset, OffsetOf
    <3> QED BY <2>1, <3>1
  <2>3. CASE OutOfSync
    <3>1. OutOfSync'
      BY <1>1, <2>3 DEF OutOfSync
    <3> QED BY <2>1, <3>1
  <2> QED BY <2>2, <2>3 DEF FramingInv
<1>7. FailedInv'
  BY <1>1 DEF FailedInv
<1>8. /\ leftover' => rstate' = "garbled"
      /\ rstate' = "garbled" => ~Fit(Len(delivered) + 1)'
  BY <1>1, <1>4 DEF FramingInv
<1> QED BY <1>2, <1>5, <1>6, <1>7, <1>8 DEF FramingInv

LEMMA RefillStep ==
    ASSUME FramingInv, NEW k \in 1..CAPACITY, Refill(k)
    PROVE  FramingInv'
<1>1. TypeInv /\ (InSync \/ OutOfSync) /\ ExactInv /\ rstate = "open"
  BY DEF FramingInv, Refill, Waiting
<1>2. UNCHANGED << mode, sent, closed, delivered, rstate, leftover >>
  BY DEF Refill
<1>3. /\ IsBuffer(rb') /\ stream' \in Seq(Cells)
      /\ Ahead(rb', stream') = Ahead(rb, stream)
      /\ \A j \in 1..Ahead(rb, stream) : CellAhead(rb', stream', j) = CellAhead(rb, stream, j)
      /\ available(rb) <= available(rb')
      /\ HasPrefix => rb'.buf[rb'.head] = rb.buf[rb.head]
  BY <1>1, RefilledAhead
<1>0. ASSUME HasPrefix' PROVE msg_len' \in Nat
  <2>1. PICK r : r = rb' /\ IsBuffer(r)
    BY <1>3
  <2>2. available(r) >= 2
    BY <1>0, <2>1 DEF HasPrefix
  <2>3. r.buf[r.head][2] \in Nat
    BY <2>1, <2>2, FirstCell
  <2> QED BY <2>1, <2>3 DEF msg_len
<1>4. PICK s : /\ s = shift(rb) /\ rb'.head = s.head /\ rb'.tail = s.tail + k
               /\ s.tail \in Nat /\ s.tail <= rb.tail /\ (rb.head = 0 => s = rb)
  BY <1>1, RefilledAhead
<1>5. available(rb) \in Nat /\ Ahead(rb, stream) \in Nat /\ available(rb) < total_needed
      /\ k <= Room(s) /\ k \in Nat
  BY <1>1, <1>4, AheadType, Halfway DEF Refill, Waiting
<1>6. (InSync \/ OutOfSync)'
  <2>1. CASE InSync
    <3>1. Offset' = Offset
      BY <1>2 DEF Offset, OffsetOf
    <3>2. InSync'
      BY <1>2, <1>3, <2>1, <3>1 DEF InSync
    <3> QED BY <3>2
  <2>2. CASE OutOfSync
    <3>1. Ahead(rb, stream) > 0 => CellAhead(rb', stream', 1) = CellAhead(rb, stream, 1)
      BY <1>3, <1>5
    <3>2. OutOfSync'
      BY <1>2, <1>3, <2>2, <3>1 DEF OutOfSync
    <3> QED BY <3>2
  <2> QED BY <1>1, <2>1, <2>2
<1>7. ASSUME mode = "exact"
      PROVE  /\ rb'.head = 0 /\ rb'.tail <= total_needed
             /\ rb'.tail <= CAPACITY
             /\ total_needed' >= total_needed
  <2>1. rb.head = 0 /\ s = rb
    BY <1>1, <1>4, <1>7 DEF ExactInv
  <2>2. rb.tail \in Nat /\ available(rb) = rb.tail
    BY <1>1, <2>1 DEF TypeInv, IsBuffer, available
  <2>3. k <= total_needed - rb.tail
    BY <1>5, <1>7, <2>1, <2>2 DEF Room
  <2>4. CASE HasPrefix
    <3>1. PICK n \in Nat : n = msg_len
      BY <1>1, <2>4, PrefixCells
    <3>2. total_needed = 2 + n
      BY <2>4, <3>1 DEF total_needed
    <3>3. Aligned
      BY <2>4 DEF Refill, Waiting
    <3>4. InSync
      BY <1>1, <2>4, <3>3, OutOfSyncSeen
    <3>5. n <= MAX_MESSAGE_SIZE
      BY <1>1, <2>4, <3>1, <3>4, PrefixSeen
    <3>6. HasPrefix' /\ msg_len' = n
      <4>1. available(rb') >= 2
        BY <1>3, <1>5, <2>2, <2>4, <1>4, <2>1 DEF HasPrefix, available
      <4> QED BY <1>3, <2>4, <3>1, <4>1 DEF HasPrefix, msg_len
    <3>7. total_needed' = 2 + n
      BY <3>6 DEF total_needed
    <3>8. rb'.tail = rb.tail + k /\ rb'.head = 0
      BY <1>4, <2>1
    <3> QED BY <1>5, <2>2, <2>3, <3>2, <3>5, <3>7, <3>8, Halfway
  <2>5. CASE ~HasPrefix
    <3>1. total_needed = 2
      BY <2>5 DEF total_needed
    <3>2. rb'.tail = rb.tail + k /\ rb'.head = 0
      BY <1>4, <2>1
    <3>3. total_needed' >= 2
      <4>1. CASE HasPrefix'
        <5>1. PICK n \in Nat : n = msg_len'
          BY <1>0, <4>1
        <5>2. total_needed' = 2 + n
          BY <4>1, <5>1 DEF total_needed
        <5> QED BY <5>2
      <4>2. CASE ~HasPrefix'
        BY <4>2 DEF total_needed
      <4> QED BY <4>1, <4>2
    <3> QED BY <1>5, <2>2, <2>3, <3>1, <3>2, <3>3, Halfway
  <2> QED BY <2>4, <2>5
<1>8. rb'.tail <= CAPACITY
  <2>1. CASE mode = "exact"
    BY <1>7, <2>1
  <2>2. CASE mode # "exact"
    <3>1. k <= CAPACITY - s.tail
      BY <1>5, <2>2 DEF Room
    <3> QED BY <1>4, <1>5, <3>1, Halfway
  <2> QED BY <2>1, <2>2
<1>9. TypeInv'
  BY <1>1, <1>2, <1>3, <1>8 DEF TypeInv
<1>10. ExactInv'
  <2> SUFFICES ASSUME mode = "exact" PROVE rb'.head = 0 /\ rb'.tail <= total_needed'
    BY <1>2 DEF ExactInv
  <2>1. rb'.tail \in Nat
    BY <1>3 DEF IsBuffer
  <2>2. total_needed \in Int /\ total_needed' \in Int
    <3>1. HasPrefix => msg_len \in Nat
      BY <1>1, PrefixCells
    <3>2. HasPrefix' => msg_len' \in Nat
      BY <1>0
    <3> QED BY <3>1, <3>2 DEF total_needed
  <2> QED BY <1>7, <2>1, <2>2
<1>11. /\ Fit(Len(delivered))' => \A i \in 1..Len(delivered') : Same(i)'
       /\ leftover' => rstate' = "garbled"
  BY <1>2 DEF FramingInv, Fit, Same
<1> QED BY <1>1, <1>2, <1>6, <1>9, <1>10, <1>11 DEF FramingInv

LEMMA RecvReturnsZeroStep ==
    ASSUME FramingInv, RecvReturnsZero
    PROVE  FramingInv'
<1>1. TypeInv /\ (InSync \/ OutOfSync) /\ ExactInv /\ rstate = "open" /\ ~leftover
  BY DEF FramingInv, TypeInv, RecvReturnsZero, Waiting
<1>2. UNCHANGED << mode, sent, stream, closed, delivered, leftover >> /\ rstate' = "failed"
  BY DEF RecvReturnsZero
<1>3. PICK s : /\ s = shift(rb) /\ IsBuffer(s) /\ available(s) = available(rb)
               /\ s.tail <= rb.tail
               /\ s.head = 0 \/ s.head <= MAX_MESSAGE_SIZE
  BY <1>1, Shifted DEF TypeInv
<1>4. rb' = s
  BY <1>3 DEF RecvReturnsZero
<1>5. /\ s.head \in Nat /\ s.tail \in Nat /\ available(rb) = s.tail - s.head
      /\ available(rb) \in Nat /\ Len(stream) \in Nat /\ Len(delivered) \in Nat /\ Len(sent) \in Nat
  BY <1>1, <1>3, AheadType DEF IsBuffer, available
<1>6. TypeInv'
  <2>1. s.tail <= CAPACITY
    BY <1>1, <1>3, <1>5, Halfway DEF TypeInv, IsBuffer
  <2> QED BY <1>1, <1>2, <1>3, <1>4, <2>1 DEF TypeInv
<1>7. ASSUME ~closed, Fit(Len(delivered) + 1)
      PROVE  /\ mode # "exact" /\ Len(delivered) < Len(sent)
             /\ Size(sent[Len(delivered) + 1]) + 2 > MAX_MESSAGE_SIZE
  <2>1. stream # << >> /\ Room(s) = 0
    BY <1>3, <1>7 DEF RecvReturnsZero
  <2>2. available(rb) < total_needed /\ (HasPrefix => Aligned)
    BY DEF RecvReturnsZero, Waiting
  <2>3. InSync
    <3> SUFFICES ASSUME OutOfSync PROVE FALSE
      BY <1>1
    <3>1. Len(delivered) \in 1..Len(sent) /\ Size(sent[Len(delivered)]) > MAX_MESSAGE_SIZE
      BY <1>1, <1>5 DEF OutOfSync, TypeInv
    <3>2. Size(sent[Len(delivered)]) <= MAX_MESSAGE_SIZE
      BY <1>5, <1>7, <3>1 DEF Fit
    <3>3. sent[Len(delivered)] \in Messages
      BY <1>1, <3>1 DEF TypeInv
    <3>4. Size(sent[Len(delivered)]) \in Nat
      BY <3>3, FrameCells
    <3> QED BY <3>1, <3>2, <3>4, Halfway
  <2>4. Ahead(rb, stream) > 0
    <3>1. Len(stream) > 0
      BY <1>1, <1>5, <2>1, EmptySeq DEF TypeInv
    <3> QED BY <1>5, <3>1 DEF Ahead
  <2>5. PICK m \in Messages : Len(delivered) < Len(sent) /\ m = sent[Len(delivered) + 1]
    BY <1>1, <2>3, <2>4, NextFrame
  <2>6. Size(m) \in Nat /\ Size(m) <= MAX_MESSAGE_SIZE
    <3>1. Len(delivered) + 1 \in 1..Len(sent) /\ Len(delivered) + 1 <= Len(delivered) + 1
      BY <1>5, <2>5
    <3>2. Size(m) <= MAX_MESSAGE_SIZE
      BY <1>7, <2>5, <3>1 DEF Fit
    <3> QED BY <3>2, FrameCells
  <2>7. PICK need \in Nat : need = total_needed /\ (HasPrefix => need = 2 + Size(m))
                           /\ (~HasPrefix => need = 2)
    <3>1. HasPrefix => msg_len = Size(m)
      BY <1>1, <2>3, <2>5, <2>6, PrefixSeen
    <3> QED BY <2>6, <3>1 DEF total_needed
  <2>8. mode # "exact"
    <3> SUFFICES ASSUME mode = "exact" PROVE FALSE
      OBVIOUS
    <3>1. need - available(rb) = 0
      BY <1>3, <2>1, <2>7 DEF Room
    <3> QED BY <1>5, <2>2, <2>7, <3>1
  <2>9. s.tail = CAPACITY
    <3>1. CAPACITY - s.tail = 0
      BY <2>1, <2>8 DEF Room
    <3> QED BY <1>5, <3>1, Halfway
  <2>10. available(rb) >= MAX_MESSAGE_SIZE
    BY <1>3, <1>5, <2>9, Halfway
  <2>11. HasPrefix
    BY <1>5, <2>10, Halfway DEF HasPrefix
  <2> QED BY <1>5, <2>2, <2>5, <2>6, <2>7, <2>8, <2>10, <2>11, Halfway
<1>8. FailedInv'
  <2>1. Fit(Len(delivered) + 1)' <=> Fit(Len(delivered) + 1)
    BY <1>2 DEF Fit
  <2> QED BY <1>2, <1>7, <2>1 DEF FailedInv
<1>9. /\ Fit(Len(delivered))' => \A i \in 1..Len(delivered') : Same(i)'
      /\ ~leftover'
  BY <1>1, <1>2 DEF FramingInv, Fit, Same
<1> QED BY <1>2, <1>6, <1>8, <1>9 DEF FramingInv

LEMMA GarbleStep ==
    ASSUME FramingInv, Garble
    PROVE  FramingInv'
<1>1. TypeInv /\ (InSync \/ OutOfSync) /\ rstate = "open" /\ HasPrefix
  BY DEF FramingInv, Garble
<1>2. UNCHANGED << mode, sent, stream, closed, rb, delivered, leftover >> /\ rstate' = "garbled"
  BY DEF Garble
<1>3. TypeInv'
  BY <1>1, <1>2 DEF TypeInv
<1>4. Len(delivered) \in Nat /\ Len(sent) \in Nat /\ Len(delivered) <= Len(sent)
  BY <1>1, AheadType DEF TypeInv
<1>5. ~Fit(Len(delivered) + 1)
  <2>1. CASE InSync
    <3>1. PICK m \in Messages :
              /\ Len(delivered) < Len(sent) /\ m = sent[Len(delivered) + 1] /\ Aligned
              /\ Size(m) \in Nat
      BY <1>1, <2>1, PrefixSeen
    <3>2. available(rb) >= total_needed /\ DataBehindBody(Body)
      BY <3>1 DEF Garble
    <3>3. ~(Size(m) <= MAX_MESSAGE_SIZE)
      <4> SUFFICES ASSUME Size(m) <= MAX_MESSAGE_SIZE PROVE FALSE
        OBVIOUS
      <4>1. Body = layout(m)
        BY <1>1, <2>1, <3>1, <3>2, BodySeen
      <4> QED BY <3>2, <4>1, LayoutParsed
    <3>4. Len(delivered) + 1 \in 1..Len(sent) /\ Len(delivered) + 1 <= Len(delivered) + 1
      BY <1>4, <3>1
    <3> QED BY <3>1, <3>3, <3>4 DEF Fit
  <2>2. CASE OutOfSync
    <3>1. Len(delivered) \in 1..Len(sent) /\ Size(sent[Len(delivered)]) > MAX_MESSAGE_SIZE
      BY <1>4, <2>2 DEF OutOfSync
    <3>2. sent[Len(delivered)] \in Messages
      BY <1>1, <3>1 DEF TypeInv
    <3>3. Size(sent[Len(delivered)]) \in Nat
      BY <3>2, FrameCells
    <3>4. ~(Size(sent[Len(delivered)]) <= MAX_MESSAGE_SIZE) /\ Len(delivered) <= Len(delivered) + 1
      BY <1>4, <3>1, <3>3, Halfway
    <3> QED BY <3>1, <3>4 DEF Fit
  <2> QED BY <1>1, <2>1, <2>2
<1>6. ~Fit(Len(delivered) + 1)'
  BY <1>2, <1>5 DEF Fit
<1>7. Fit(Len(delivered))' => \A i \in 1..Len(delivered') : Same(i)'
  BY <1>2 DEF FramingInv, Fit, Same
<1> QED BY <1>2, <1>3, <1>6, <1>7 DEF FramingInv

LEMMA ReconnectStep ==
    ASSUME FramingInv, Reconnect
    PROVE  FramingInv'
<1>1. /\ TypeInv /\ mode = "raw" /\ mode' = mode /\ rb' = rb
      /\ leftover' = (available(rb) > 0)
      /\ rstate' = IF leftover' THEN "garbled" ELSE "open"
      /\ closed' = FALSE
      /\ sent' = << >> /\ stream' = << >> /\ delivered' = << >>
  BY DEF FramingInv, Reconnect
<1>2. TypeInv'
  <2>1. << >> \in Seq(Messages) /\ << >> \in Seq(Cells) /\ << >> \in Seq(Received)
    BY EmptySeq
  <2>2. Len(<< >>) = 0 /\ MaxMessages \in Nat
    BY FramingAssumption
  <2>3. IsBuffer(rb') /\ rb'.tail <= CAPACITY
    BY <1>1 DEF TypeInv
  <2>4. leftover' \in BOOLEAN /\ rstate' \in {"open", "failed", "garbled"}
    BY <1>1
  <2>5. mode' \in {"raw", "buffered", "exact"} /\ closed' \in BOOLEAN
    BY <1>1
  <2>6. sent' \in Seq(Messages) /\ stream' \in Seq(Cells) /\ delivered' \in Seq(Received)
    BY <1>1, <2>1
  <2>7. Len(sent') <= MaxMessages /\ Len(delivered') <= Len(sent')
    BY <1>1, <2>2
  <2> QED BY <2>3, <2>4, <2>5, <2>6, <2>7 DEF TypeInv
<1>3. CASE leftover'
  <2>1. rstate' = "garbled"
    BY <1>1, <1>3
  <2>2. ~Fit(Len(delivered))' /\ ~Fit(Len(delivered) + 1)'
    BY <1>3 DEF Fit
  <2> QED BY <1>2, <2>1, <2>2 DEF FramingInv
<1>4. CASE ~leftover'
  <2>1. rstate' = "open"
    BY <1>1, <1>4
  <2>2. available(rb) = 0
    <3>1. ~(available(rb) > 0)
      BY <1>1, <1>4, Zenon
    <3>2. available(rb) \in Nat
      BY <1>1, AheadType
    <3> QED BY <3>1, <3>2
  <2>3. Ahead(rb', stream') = 0
    BY <1>1, <2>2 DEF Ahead
  <2>4. Offset' = 0 /\ Wire(sent') = << >>
    <3>1. FirstN(<< >>, 0) = << >>
      BY SubSeqEmpty DEF FirstN
    <3>2. Len(delivered') = 0
      BY <1>1
    <3>3. Wire(FirstN(sent', Len(delivered'))) = << >>
      BY <1>1, <3>1, <3>2, WireEmpty
    <3> QED BY <1>1, <3>3, WireEmpty DEF Offset, OffsetOf
  <2>5. InSync'
    <3>1. Len(<< >>) = 0
      OBVIOUS
    <3> QED BY <2>3, <2>4, <3>1 DEF InSync
  <2>6. ExactInv'
    BY <1>1 DEF ExactInv
  <2>7. Fit(Len(delivered))' => \A i \in 1..Len(delivered') : Same(i)'
    BY <1>1
  <2> QED BY <1>2, <1>4, <2>1, <2>5, <2>6, <2>7 DEF FramingInv
<1> QED BY <1>3, <1>4

\* A message that fits is delivered as it was sent; of one that does not, the
\* handler gets something, or nothing, and what is ahead is inside it.
LEMMA DeliverStep ==
    ASSUME FramingInv, Deliver
    PROVE  FramingInv'
<1>1. /\ TypeInv /\ (InSync \/ OutOfSync) /\ ExactInv /\ rstate = "open" /\ HasPrefix /\ Aligned
      /\ available(rb) >= total_needed /\ ~leftover
      /\ ~(mode = "raw" /\ DataBehindBody(Body))
  BY DEF FramingInv, TypeInv, Deliver
<1>2. UNCHANGED << mode, sent, stream, closed, leftover >>
  BY DEF Deliver
<1>3. InSync
  BY <1>1, OutOfSyncSeen
<1>4. PICK m \in Messages :
              /\ Len(delivered) < Len(sent) /\ m = sent[Len(delivered) + 1]
              /\ msg_len \in 0..MAX_MESSAGE_SIZE
              /\ Size(m) \in Nat
              /\ Size(m) <= MAX_MESSAGE_SIZE => msg_len = Size(m)
  BY <1>1, <1>3, PrefixSeen
<1>5. PICK l \in Nat : l = msg_len /\ l <= MAX_MESSAGE_SIZE
  BY <1>4, Halfway
<1>6. PICK n \in Nat : n = 2 + l /\ n <= available(rb) /\ n = total_needed
  <2>1. total_needed = 2 + l
    BY <1>1, <1>5 DEF total_needed
  <2>2. 2 + l \in Nat /\ 2 + l <= available(rb)
    BY <1>1, <2>1, AheadType
  <2> QED BY <2>1, <2>2
<1>7. PICK c : /\ c = consume(rb, n) /\ IsBuffer(c) /\ c.tail <= rb.tail
               /\ n = available(rb) => c.head = 0 /\ c.tail = 0
               /\ Ahead(c, stream) = Ahead(rb, stream) - n
               /\ \A j \in 1..Ahead(c, stream) :
                     CellAhead(c, stream, j) = CellAhead(rb, stream, j + n)
  BY <1>1, <1>6, ConsumedAhead
<1>8. rb' = c /\ stream' = stream
  BY <1>2, <1>5, <1>6, <1>7 DEF Deliver
<1>9. PICK d \in Nat : d = Len(delivered) /\ d < Len(sent) /\ Len(sent) \in Nat
  BY <1>1, <1>4, AheadType
<1>10. PICK body \in Seq(Cells) : body = Body
  BY <1>1, BodyCells
<1>11. /\ delivered' = delivered \o Parsed(body)
       /\ rstate' = IF Parsed(body) = << >> THEN "failed" ELSE "open"
  BY <1>10 DEF Deliver
<1>12. /\ sent' \in Seq(Messages) /\ Len(sent') <= MaxMessages /\ stream' \in Seq(Cells)
       /\ closed' \in BOOLEAN /\ leftover' \in BOOLEAN /\ IsBuffer(rb') /\ rb'.tail <= CAPACITY
       /\ mode' \in {"raw", "buffered", "exact"} /\ rstate' \in {"open", "failed", "garbled"}
  <2>1. c.tail <= CAPACITY
    BY <1>1, <1>7, Halfway DEF TypeInv, IsBuffer
  <2>2. rstate' \in {"open", "failed", "garbled"}
    BY <1>11
  <2> QED BY <1>1, <1>2, <1>7, <1>8, <2>1, <2>2 DEF TypeInv
<1>13. /\ delivered \in Seq(Received)
       /\ Ahead(rb, stream) \in Nat /\ available(rb) <= Ahead(rb, stream) /\ Offset \in Nat
  BY <1>1, AheadType DEF TypeInv
<1>14. PICK a \in Nat : a = Ahead(rb, stream) /\ n <= a /\ a > 0
  <2>1. available(rb) \in Nat
    BY <1>1 DEF available, TypeInv, IsBuffer
  <2> QED BY <1>6, <1>13, <2>1
<1>15. ExactInv'
  <2> SUFFICES ASSUME mode = "exact" PROVE rb'.head = 0 /\ rb'.tail <= total_needed'
    BY <1>2 DEF ExactInv
  <2>1. rb.head = 0 /\ rb.tail <= n
    BY <1>1, <1>6 DEF ExactInv
  <2>2. n = available(rb)
    BY <1>1, <1>6, <2>1 DEF available, TypeInv, IsBuffer
  <2>3. rb'.head = 0 /\ rb'.tail = 0
    BY <1>7, <1>8, <2>2
  <2>4. total_needed' = 2
    BY <2>3 DEF total_needed, HasPrefix, available
  <2> QED BY <2>3, <2>4
<1>16. d + 1 \in 1..Len(sent) /\ m = sent[d + 1]
  BY <1>4, <1>9
<1>17. CASE Parsed(body) = << >>
  <2>1. delivered' = delivered /\ rstate' = "failed"
    BY <1>11, <1>13, <1>17, ConcatEmptySeq
  <2>2. Size(m) > MAX_MESSAGE_SIZE
    <3> SUFFICES ASSUME Size(m) <= MAX_MESSAGE_SIZE PROVE FALSE
      BY <1>4, Halfway
    <3>1. body = layout(m)
      BY <1>1, <1>3, <1>4, <1>10, BodySeen
    <3>2. Parsed(body) = deserialize(body) \/ Parsed(body) = peek(body)
      <4>1. ~(Len(body) < 1)
        <5>1. Len(layout(m)) = Size(m) /\ Size(m) >= 3
          BY FrameCells DEF Size, FIXED
        <5> QED BY <1>4, <3>1, <5>1
      <4>2. mode # "raw" => Parsed(body) = deserialize(body)
        BY DEF Parsed
      <4>3. mode = "raw" => Parsed(body) = peek(body)
        <5>1. mode = "raw" => Parsed(body) = (IF Len(body) < 1 THEN << >> ELSE peek(body))
          BY DEF Parsed
        <5> QED BY <4>1, <5>1, Zenon
      <4> QED BY <4>2, <4>3
    <3>3. Parsed(body) # << >>
      <4>1. PICK y : y = [header |-> m.header, data |-> m.data, ordering_values |-> << >>]
        OBVIOUS
      <4>2. deserialize(body) = << m >> /\ peek(body) = << y >>
        BY <3>1, <4>1, LayoutParsed
      <4>3. << m >> # << >> /\ << y >> # << >>
        OBVIOUS
      <4> QED BY <3>2, <4>2, <4>3, Zenon
    <3> QED BY <1>17, <3>3
  <2>3. ~Fit(Len(delivered) + 1)'
    <3>1. ~(Size(sent[d + 1]) <= MAX_MESSAGE_SIZE)
      BY <1>4, <1>16, <2>2, Halfway
    <3>2. d + 1 <= d + 1
      OBVIOUS
    <3>3. ~Fit(d + 1)
      BY <1>16, <3>1, <3>2 DEF Fit
    <3> QED BY <1>2, <1>9, <2>1, <3>3 DEF Fit
  <2>4. TypeInv'
    BY <1>1, <1>2, <1>12, <2>1 DEF TypeInv
  <2>5. Fit(Len(delivered))' => \A i \in 1..Len(delivered') : Same(i)'
    BY <1>2, <2>1 DEF FramingInv, Fit, Same
  <2>6. FailedInv'
    BY <2>3 DEF FailedInv
  <2>7. ~leftover'
    BY <1>1, <1>2
  <2> QED BY <2>1, <2>4, <2>5, <2>6, <2>7 DEF FramingInv
<1>18. CASE Parsed(body) # << >>
  <2>1. PICK x \in Received : Parsed(body) = << x >>
    BY <1>1, <1>10, <1>18, ParsedType
  <2>2. rstate' = "open" /\ ~leftover'
    BY <1>1, <1>2, <1>11, <1>18
  <2>3. PICK more \in Seq(Received) : /\ more = delivered' /\ Len(more) = d + 1 /\ more[d + 1] = x
                                      /\ \A i \in 1..d : more[i] = delivered[i]
    <3>1. << x >> \in Seq(Received) /\ Len(<< x >>) = 1 /\ << x >>[1] = x
      OBVIOUS
    <3>2. PICK q \in Seq(Received) : q = delivered \o << x >> /\ IsConcat(q, delivered, << x >>)
      BY <1>13, <3>1, Concatenation
    <3>3. PICK o : o = << x >> /\ Len(o) = 1 /\ o[1] = x
      BY <3>1
    <3>4. Len(q) = d + 1 /\ (\A i \in 1..d : q[i] = delivered[i]) /\ q[d + 1] = o[1]
      BY <1>9, <3>2, <3>3 DEF IsConcat
    <3> QED BY <1>11, <2>1, <3>2, <3>3, <3>4
  <2>4. TypeInv'
    <3>1. Len(delivered') <= Len(sent') /\ delivered' \in Seq(Received)
      BY <1>2, <1>9, <2>3
    <3> QED BY <1>12, <3>1 DEF TypeInv
  <2>5. CASE Size(m) <= MAX_MESSAGE_SIZE
    <3>1. body = layout(m)
      BY <1>1, <1>3, <1>4, <1>10, <2>5, BodySeen
    <3>2. \/ x = m
          \/ mode = "raw" /\ x.header = m.header /\ x.data = m.data
      <4>1. ~(Len(body) < 1)
        <5>1. Len(layout(m)) = Size(m) /\ Size(m) >= 3
          BY FrameCells DEF Size, FIXED
        <5> QED BY <1>4, <3>1, <5>1
      <4>2. CASE mode # "raw"
        <5>1. << x >> = << m >>
          BY <2>1, <3>1, <4>2, LayoutParsed DEF Parsed
        <5> QED BY <5>1
      <4>3. CASE mode = "raw"
        <5>1. PICK y : y = [header |-> m.header, data |-> m.data, ordering_values |-> << >>]
          OBVIOUS
        <5>2. << x >> = << y >>
          BY <2>1, <3>1, <4>1, <4>3, <5>1, LayoutParsed DEF Parsed
        <5>3. x = y
          BY <5>2
        <5> QED BY <4>3, <5>1, <5>3
      <4> QED BY <4>2, <4>3
    <3>3. Same(d + 1)'
      BY <1>2, <1>16, <2>3, <3>2 DEF Same
    <3>4. Fit(Len(delivered))' => \A i \in 1..Len(delivered') : Same(i)'
      <4> SUFFICES ASSUME Fit(Len(delivered))', NEW i \in 1..Len(delivered') PROVE Same(i)'
        OBVIOUS
      <4>1. Fit(d)
        <5>1. \A j \in 1..Len(sent) : j <= d + 1 => Size(sent[j]) <= MAX_MESSAGE_SIZE
          BY <1>2, <2>3 DEF Fit
        <5>2. \A j \in 1..Len(sent) : j <= d => Size(sent[j]) <= MAX_MESSAGE_SIZE
          BY <1>9, <5>1
        <5> QED BY <1>1, <5>2 DEF Fit
      <4>2. i \in 1..(d + 1)
        BY <2>3
      <4>3. CASE i = d + 1
        BY <3>3, <4>3
      <4>4. CASE i \in 1..d
        <5>1. Same(i)
          BY <1>9, <4>1, <4>4 DEF FramingInv
        <5> QED BY <1>2, <2>3, <4>4, <5>1 DEF Same
      <4> QED BY <1>9, <4>2, <4>3, <4>4
    <3>5. OffsetOf(sent, d + 1) = Offset + n
      <4>1. Ahead(rb, stream) > 0
        BY <1>14
      <4>2. OffsetOf(sent, d + 1) = Offset + 2 + Size(m)
        BY <1>1, <1>3, <1>4, <1>9, <4>1, NextFrame
      <4> QED BY <1>4, <1>5, <1>6, <1>13, <2>5, <4>2
    <3>6. Offset' = Offset + n
      <4>1. Offset' = OffsetOf(sent, d + 1)
        BY <1>2, <2>3 DEF Offset, OffsetOf
      <4> QED BY <3>5, <4>1
    <3>7. InSync'
      <4>1. PICK w : w = Wire(sent)
        OBVIOUS
      <4>2. PICK p \in Nat : p = Offset
        BY <1>13
      <4>4. p + a <= Len(w) /\ (closed \/ p + a = Len(w))
            /\ \A j \in 1..a : CellAhead(rb, stream, j) = w[p + j]
        BY <1>3, <1>14, <4>1, <4>2 DEF InSync
      <4>5. Ahead(c, stream) = a - n
        BY <1>7, <1>14
      <4>6. (p + n) + (a - n) = p + a
        OBVIOUS
      <4>7. ASSUME NEW j \in 1..(a - n) PROVE CellAhead(c, stream, j) = w[(p + n) + j]
        <5>1. j + n \in 1..a /\ p + (j + n) = (p + n) + j
          OBVIOUS
        <5>2. CellAhead(c, stream, j) = CellAhead(rb, stream, j + n)
          BY <1>7, <4>5
        <5>3. CellAhead(rb, stream, j + n) = w[p + (j + n)]
          BY <4>4, <5>1
        <5> QED BY <5>1, <5>2, <5>3
      <4>8. Wire(sent') = w
        BY <1>2, <4>1
      <4> QED BY <1>2, <1>8, <3>6, <4>2, <4>4, <4>5, <4>6, <4>7, <4>8 DEF InSync
    <3> QED BY <1>15, <2>2, <2>4, <3>4, <3>7 DEF FramingInv
  <2>6. CASE ~(Size(m) <= MAX_MESSAGE_SIZE)
    <3>1. ~Fit(Len(delivered))'
      <4>1. d + 1 <= d + 1
        OBVIOUS
      <4> QED BY <1>2, <1>16, <2>3, <2>6, <4>1 DEF Fit
    <3>2. n < 2 + Size(m) /\ Size(m) > MAX_MESSAGE_SIZE
      BY <1>4, <1>5, <1>6, <2>6, Halfway
    <3>4. Ahead(c, stream) = a - n
      BY <1>7, <1>14
    <3>5. closed \/ a > n
      <4>1. /\ OffsetOf(sent, d + 1) = Offset + 2 + Size(m)
            /\ OffsetOf(sent, d + 1) <= Len(Wire(sent))
        BY <1>1, <1>3, <1>4, <1>9, <1>14, NextFrame
      <4>2. closed \/ Offset + a = Len(Wire(sent))
        BY <1>3, <1>14 DEF InSync
      <4> QED BY <1>4, <1>13, <3>2, <4>1, <4>2
    <3>6. ASSUME a - n > 0 PROVE CellAhead(c, stream, 1)[1] # "len_hi"
      <4>1. 1 \in 1..(a - n) /\ 1 + n \in 1..a /\ 1 + n <= 2 + Size(m) /\ 1 + n = 2 + (l + 1)
        BY <1>4, <1>6, <1>14, <3>2, <3>6
      <4>2. CellAhead(c, stream, 1) = CellAhead(rb, stream, 1 + n)
        BY <1>7, <3>4, <4>1
      <4>3. CellAhead(rb, stream, 1 + n) = Frame(m)[1 + n]
        BY <1>1, <1>3, <1>4, <1>14, <4>1, NextFrame
      <4>4. l + 1 \in 1..Size(m)
        BY <1>4, <1>6, <3>2
      <4>5. Frame(m)[2 + (l + 1)] = layout(m)[l + 1]
        BY <4>4, FrameCells DEF IsFrame
      <4>6. layout(m)[l + 1][1] # "len_hi"
        BY <4>4, NoPrefixInside
      <4> QED BY <4>1, <4>2, <4>3, <4>5, <4>6
    <3>7. OutOfSync'
      <4>1. Len(delivered') = d + 1 /\ sent'[d + 1] = m
        BY <1>2, <1>16, <2>3
      <4>2. Ahead(rb', stream') = a - n /\ CellAhead(rb', stream', 1) = CellAhead(c, stream, 1)
        BY <1>8, <3>4
      <4>3. d + 1 > 0 /\ (closed' \/ a - n > 0)
        BY <1>2, <3>5
      <4> QED BY <3>2, <3>6, <4>1, <4>2, <4>3 DEF OutOfSync
    <3> QED BY <1>15, <2>2, <2>4, <3>1, <3>7 DEF FramingInv
  <2> QED BY <2>5, <2>6
<1> QED BY <1>17, <1>18

----------------------------------------------------------------------------
(***************************************************************************)
(* The invariant holds at first, and every step of Next keeps it.          *)
(***************************************************************************)
LEMMA AtFirst == Init => FramingInv
<1> SUFFICES ASSUME Init PROVE FramingInv
  OBVIOUS
<1>1. /\ mode \in {"raw", "buffered", "exact"} /\ sent = << >> /\ stream = << >> /\ ~closed
      /\ rb = EmptyBuffer /\ delivered = << >> /\ rstate = "open" /\ ~leftover
      /\ closed \in BOOLEAN /\ leftover \in BOOLEAN
  BY DEF Init
<1>2. rb.head = 0 /\ rb.tail = 0 /\ rb = [buf |-> rb.buf, head |-> rb.head, tail |-> rb.tail]
  BY <1>1 DEF EmptyBuffer
<1>3. IsBuffer(rb) /\ available(rb) = 0
  BY <1>2 DEF IsBuffer, available
<1>4. Len(sent) = 0 /\ Len(delivered) = 0 /\ Len(stream) = 0
  BY <1>1
<1>5. sent \in Seq(Messages) /\ stream \in Seq(Cells) /\ delivered \in Seq(Received)
  BY <1>1, EmptySeq
<1>6. TypeInv
  <2>1. Len(sent) <= MaxMessages /\ Len(delivered) <= Len(sent) /\ rb.tail <= CAPACITY
    BY <1>2, <1>4, Halfway, FramingAssumption
  <2> QED BY <1>1, <1>3, <1>5, <2>1 DEF TypeInv
<1>7. Ahead(rb, stream) = 0
  BY <1>3, <1>4 DEF Ahead
<1>8. Offset = 0 /\ Wire(sent) = << >>
  <2>1. FirstN(<< >>, 0) = << >>
    BY SubSeqEmpty DEF FirstN
  <2>2. Wire(FirstN(sent, Len(delivered))) = << >>
    BY <1>1, <1>4, <2>1, WireEmpty
  <2> QED BY <1>1, <2>2, WireEmpty DEF Offset, OffsetOf
<1>9. InSync
  BY <1>7, <1>8 DEF InSync
<1>10. ExactInv
  <2>1. total_needed = 2
    BY <1>3 DEF total_needed, HasPrefix
  <2> QED BY <1>2, <2>1 DEF ExactInv
<1>11. Fit(Len(delivered)) => \A i \in 1..Len(delivered) : Same(i)
  BY <1>4
<1> QED BY <1>1, <1>6, <1>9, <1>10, <1>11 DEF FramingInv

LEMMA NothingChanges ==
    ASSUME FramingInv, UNCHANGED vars
    PROVE  FramingInv'
<1>1. UNCHANGED << mode, sent, stream, closed, rb, delivered, rstate, leftover >>
  BY DEF vars
<1>2. TypeInv'
  BY <1>1 DEF FramingInv, TypeInv
<1>3. (InSync' <=> InSync) /\ (OutOfSync' <=> OutOfSync)
  BY <1>1 DEF InSync, OutOfSync, Offset
<1>4. ExactInv' <=> ExactInv
  BY <1>1 DEF ExactInv, total_needed, HasPrefix, msg_len
<1>5. /\ Fit(Len(delivered))' <=> Fit(Len(delivered))
      /\ Fit(Len(delivered) + 1)' <=> Fit(Len(delivered) + 1)
  BY <1>1 DEF Fit
<1>6. FailedInv' <=> FailedInv
  BY <1>1, <1>5 DEF FailedInv
<1>7. Fit(Len(delivered))' => \A i \in 1..Len(delivered') : Same(i)'
  BY <1>1, <1>5 DEF FramingInv, Same
<1> QED BY <1>1, <1>2, <1>3, <1>4, <1>5, <1>6, <1>7 DEF FramingInv

LEMMA EveryStep == FramingInv /\ [Next]_vars => FramingInv'
<1> SUFFICES ASSUME FramingInv, [Next]_vars PROVE FramingInv'
  OBVIOUS
<1>1. CASE \E p \in Payloads : SendBytesRaw(p) \/ SendMessage(p) \/ SendFails(p)
  BY <1>1, SendActions
<1>2. CASE Close
  BY <1>2, CloseStep
<1>3. CASE \E k \in 1..CAPACITY : Refill(k)
  BY <1>3, RefillStep
<1>4. CASE RecvReturnsZero
  BY <1>4, RecvReturnsZeroStep
<1>5. CASE Deliver
  BY <1>5, DeliverStep
<1>6. CASE Garble
  BY <1>6, GarbleStep
<1>7. CASE Reconnect
  BY <1>7, ReconnectStep
<1>8. CASE Done
  BY <1>8, NothingChanges DEF Done
<1>9. CASE UNCHANGED vars
  BY <1>9, NothingChanges
<1> QED BY <1>1, <1>2, <1>3, <1>4, <1>5, <1>6, <1>7, <1>8, <1>9 DEF Next

(***************************************************************************)
(* Wherever recv cuts the stream, the receiver stands either at the start  *)
(* of a message, with exactly the bytes of the remaining ones ahead of it, *)
(* or inside a message that was longer than its prefix can say; and what   *)
(* made it give up is the peer, such a message, or a full ReadBuffer.      *)
(***************************************************************************)
THEOREM Framed == Spec => []FramingInv
<1> QED BY AtFirst, EveryStep, PTL DEF Spec

----------------------------------------------------------------------------
(***************************************************************************)
(* What the invariant says to a caller.                                    *)
(***************************************************************************)
LEMMA Typed == FramingInv => TypeOK
<1> SUFFICES ASSUME FramingInv PROVE TypeOK
  OBVIOUS
<1>1. TypeInv
  BY DEF FramingInv
<1>2. Len(sent) <= MaxMessages /\ Len(delivered) <= MaxMessages
  BY <1>1, AheadType, FramingAssumption DEF TypeInv
<1>3. rb.head \in 0..CAPACITY /\ rb.tail \in rb.head..CAPACITY
  BY <1>1, Halfway DEF TypeInv, IsBuffer
<1> QED BY <1>1, <1>2, <1>3 DEF TypeInv, TypeOK

\* What was delivered, is unread and is on its way is the start of the wire.
LEMMA NothingLost ==
    ASSUME TypeInv, InSync
    PROVE  IsPrefix(Wire(FirstN(sent, Len(delivered))) \o Unread(rb) \o stream, Wire(sent))
<1>1. PICK n \in Nat : n = Len(delivered) /\ n <= Len(sent) /\ Len(sent) \in Nat
  BY AheadType DEF TypeInv
<1>2. PICK w \in Seq(Cells) : w = Wire(sent) /\ w = Wire(FirstN(sent, Len(sent)))
  <2>1. sent \in Seq(Messages) /\ FirstN(sent, Len(sent)) = sent
    BY FirstAll DEF TypeInv
  <2>2. Wire(FirstN(sent, Len(sent))) \in Seq(Cells)
    BY <1>1, <2>1, WireType
  <2> QED BY <2>1, <2>2
<1>3. PICK d \in Seq(Cells) : d = Wire(FirstN(sent, n)) /\ Starts(d, w) /\ Len(d) = Offset
  <2>1. Wire(FirstN(sent, n)) \in Seq(Cells)
    BY <1>1, WireType DEF TypeInv
  <2>2. Starts(Wire(FirstN(sent, n)), Wire(FirstN(sent, Len(sent))))
    BY <1>1, WireStarts DEF TypeInv
  <2>3. Len(Wire(FirstN(sent, n))) = Offset
    BY <1>1 DEF Offset, OffsetOf
  <2> QED BY <1>2, <2>1, <2>2, <2>3
<1>4. PICK a \in Nat : a = available(rb)
  BY AheadType
<1>5. PICK u \in Seq(Cells) : u = Unread(rb) /\ Len(u) = a /\ \A j \in 1..a : u[j] = rb.buf[rb.head + j - 1]
  <2>1. \A j \in 1..a : rb.buf[rb.head + j - 1] \in Cells
    BY <1>4, BufferCells DEF TypeInv
  <2>2. PICK u : u = [j \in 1..a |-> rb.buf[rb.head + j - 1]]
    OBVIOUS
  <2>3. u \in Seq(Cells) /\ Len(u) = a
    BY <2>1, <2>2
  <2>4. u = Unread(rb)
    BY <1>4, <2>2 DEF Unread
  <2> QED BY <2>2, <2>3, <2>4
<1>6. PICK str \in Seq(Cells) : str = stream /\ Len(str) \in Nat
  BY AheadType DEF TypeInv
<1>7. PICK du \in Seq(Cells) : du = d \o u /\ IsConcat(du, d, u)
  BY Concatenation
<1>8. PICK c \in Seq(Cells) : c = du \o str /\ IsConcat(c, du, str)
  BY Concatenation
<1>9. PICK p \in Nat : p = Len(d)
  OBVIOUS
<1>10. PICK q \in Nat : q = Len(str)
  OBVIOUS
<1>11. Len(w) \in Nat /\ p = Offset
  BY <1>3, <1>9
<1>12. Ahead(rb, stream) = a + q
  BY <1>4, <1>6, <1>10 DEF Ahead
<1>13. p + (a + q) <= Len(w)
  BY <1>2, <1>11, <1>12 DEF InSync
<1>14. ASSUME NEW j \in 1..(a + q) PROVE CellAhead(rb, stream, j) = w[p + j]
  BY <1>2, <1>11, <1>12 DEF InSync
<1>15. Len(du) = p + a
  BY <1>5, <1>7, <1>9 DEF IsConcat
<1>16. Len(c) = p + a + q
  BY <1>8, <1>10, <1>15 DEF IsConcat
<1>17. ASSUME NEW i \in 1..Len(c) PROVE c[i] = w[i]
  <2>1. CASE i <= p
    <3>1. i \in 1..p /\ i \in 1..(p + a)
      BY <1>16, <2>1
    <3>2. d[i] = w[i]
      BY <1>3, <1>9, <3>1 DEF Starts
    <3>3. du[i] = d[i]
      BY <1>7, <1>9, <3>1 DEF IsConcat
    <3>4. c[i] = du[i]
      BY <1>8, <1>15, <3>1 DEF IsConcat
    <3> QED BY <3>2, <3>3, <3>4
  <2>2. CASE i > p /\ i <= p + a
    <3>1. PICK j \in 1..a : i = p + j
      <4>1. i - p \in 1..a /\ i = p + (i - p)
        BY <1>16, <2>2
      <4> QED BY <4>1
    <3>2. i \in 1..(p + a) /\ j \in 1..(a + q)
      BY <2>2
    <3>3. w[p + j] = rb.buf[rb.head + j - 1]
      <4>1. CellAhead(rb, stream, j) = rb.buf[rb.head + j - 1]
        BY <1>4 DEF CellAhead
      <4> QED BY <1>14, <3>2, <4>1
    <3>4. u[j] = rb.buf[rb.head + j - 1]
      BY <1>5
    <3>5. du[p + j] = u[j]
      BY <1>5, <1>7, <1>9 DEF IsConcat
    <3>6. c[i] = du[i]
      BY <1>8, <1>15, <3>2 DEF IsConcat
    <3> QED BY <3>1, <3>3, <3>4, <3>5, <3>6
  <2>3. CASE i > p + a
    <3>1. PICK k \in 1..q : i = p + a + k
      <4>1. i - (p + a) \in 1..q /\ i = p + a + (i - (p + a))
        BY <1>16, <2>3
      <4> QED BY <4>1
    <3>2. a + k \in 1..(a + q) /\ p + (a + k) = p + a + k /\ ~(a + k <= a) /\ (a + k) - a = k
      OBVIOUS
    <3>3. CellAhead(rb, stream, a + k) = str[k]
      BY <1>4, <1>6, <3>2 DEF CellAhead
    <3>4. w[p + (a + k)] = str[k]
      BY <1>14, <3>2, <3>3
    <3>5. c[p + a + k] = str[k]
      BY <1>8, <1>10, <1>15 DEF IsConcat
    <3> QED BY <3>1, <3>2, <3>4, <3>5
  <2> QED BY <1>16, <2>1, <2>2, <2>3
<1>18. Len(c) <= Len(w)
  BY <1>11, <1>13, <1>16
<1>19. IsPrefix(c, w)
  <2>1. PICK l \in Nat : l = Len(c) /\ l <= Len(c) /\ l <= Len(w)
    BY <1>11, <1>16, <1>18
  <2>2. /\ FirstN(c, l) \in Seq(Cells) /\ Len(FirstN(c, l)) = l
        /\ \A i \in 1..l : FirstN(c, l)[i] = c[i]
    BY <2>1, FirstElements
  <2>3. /\ FirstN(w, l) \in Seq(Cells) /\ Len(FirstN(w, l)) = l
        /\ \A i \in 1..l : FirstN(w, l)[i] = w[i]
    BY <2>1, FirstElements
  <2>4. \A i \in 1..l : FirstN(c, l)[i] = FirstN(w, l)[i]
    BY <1>17, <2>1, <2>2, <2>3
  <2>5. FirstN(c, l) = FirstN(w, l)
    BY <2>2, <2>3, <2>4, SeqEqual
  <2> QED BY <1>18, <2>1, <2>5 DEF IsPrefix, FirstN
<1>20. Wire(FirstN(sent, Len(delivered))) \o Unread(rb) \o stream = c
  BY <1>1, <1>3, <1>5, <1>6, <1>7, <1>8
<1> QED BY <1>2, <1>19, <1>20

LEMMA Intact == FramingInv => FramesIntact
<1> SUFFICES ASSUME FramingInv PROVE FramesIntact
  OBVIOUS
<1>1. TypeInv
  BY DEF FramingInv
<1>2. PICK n \in Nat : n = Len(delivered) /\ n <= Len(sent) /\ Len(sent) \in Nat
  BY <1>1, AheadType DEF TypeInv
<1>3. ASSUME Fit(n), NEW i \in 1..n
      PROVE  \/ delivered[i] = sent[i]
             \/ mode = "raw" /\ delivered[i].header = sent[i].header
                             /\ delivered[i].data = sent[i].data
  <2>1. Same(i)
    BY <1>2, <1>3 DEF FramingInv
  <2> QED BY <2>1 DEF Same
<1>4. Fit(n + 1) => rstate # "garbled"
  BY <1>2 DEF FramingInv
<1>5. ASSUME Fit(Len(sent)), rstate = "open"
      PROVE  IsPrefix(Wire(FirstN(sent, n)) \o Unread(rb) \o stream, Wire(sent))
  <2>1. InSync \/ OutOfSync
    BY <1>5 DEF FramingInv
  <2>2. ~OutOfSync
    <3> SUFFICES ASSUME OutOfSync PROVE FALSE
      OBVIOUS
    <3>1. n > 0 /\ Size(sent[n]) > MAX_MESSAGE_SIZE
      BY <1>2 DEF OutOfSync
    <3>2. n \in 1..Len(sent)
      BY <1>2, <3>1
    <3>3. Size(sent[n]) <= MAX_MESSAGE_SIZE
      BY <1>2, <1>5, <3>2 DEF Fit
    <3>4. Size(sent[n]) \in Nat
      <4>1. sent[n] \in Messages
        BY <1>1, <3>2 DEF TypeInv
      <4> QED BY <4>1, FrameCells DEF Size
    <3> QED BY <3>1, <3>3, <3>4, Halfway
  <2> QED BY <1>1, <1>2, <2>1, <2>2, NothingLost
<1> QED BY <1>2, <1>3, <1>4, <1>5 DEF FramesIntact

(***************************************************************************)
(* The buffer indices, the messages and the states stay in their ranges:   *)
(* refill_spin never writes behind the end of the ReadBuffer.              *)
(***************************************************************************)
THEOREM TypeCorrect == Spec => []TypeOK
<1> QED BY Framed, Typed, PTL

(***************************************************************************)
(* recv_raw_buffered, recv_message_buffered and recv_message hand out the  *)
(* messages that were sent, whole and in order, up to the first that the   *)
(* 16 bits of the prefix cannot say the length of; until then no byte is   *)
(* lost, doubled or taken for a prefix.                                    *)
(***************************************************************************)
THEOREM FramesStayIntact == Spec => []FramesIntact
<1> QED BY Framed, Intact, PTL

(***************************************************************************)
(* recv is called with no room, and its 0 taken for a closed connection,   *)
(* only in the middle of a message that takes more than half of the        *)
(* ReadBuffer; recv_message never does so.                                 *)
(***************************************************************************)
THEOREM GivesUpOnlyWhenFull == Spec => []ClosesOnlyWhenFull
<1>1. FramingInv => ClosesOnlyWhenFull
  <2> SUFFICES ASSUME FramingInv, rstate = "failed", ~closed, Fit(Len(delivered) + 1)
               PROVE  /\ mode # "exact"
                      /\ Size(sent[Len(delivered) + 1]) + 2 > CAPACITY \div 2
    BY DEF ClosesOnlyWhenFull
  <2>1. FailedInv /\ ~leftover
    BY DEF FramingInv, Fit
  <2> QED BY <2>1, Halfway DEF FailedInv
<1> QED BY <1>1, Framed, PTL
=============================================================================
