------------------------- MODULE TcpTxBufferProofs -------------------------
(***************************************************************************)
(* What each operation of the transmit buffer keeps, for buffers, segment  *)
(* sizes and streams of every size.                                        *)
(***************************************************************************)
EXTENDS TcpTxBuffer, InductionFacts, TLAPS

BufferField == {"first", "sent", "sentSize", "size", "app", "count", "highest"}

\* The numbers of a buffer, and the place of its items.
Numbers(b) ==
    /\ DOMAIN b = BufferField
    /\ b.first \in Nat /\ b.sentSize \in Nat /\ b.size \in Nat /\ b.highest \in Nat
    /\ 1 <= b.first /\ b.sentSize <= b.size /\ b.size <= MaxBuffer
    /\ b.first + b.size <= StreamLen + 1
    /\ b.app = b.first + b.sentSize
    /\ b.count \in [Flag -> Int]

ItemsInPlace(b) ==
    \A s \in DOMAIN b.sent :
        /\ s \in Byte /\ b.sent[s] \in Item /\ b.sent[s].off = s
        /\ b.first <= s /\ s + b.sent[s].len <= b.first + b.sentSize

ItemsApart(b) == \A s, t \in DOMAIN b.sent : s < t => s + b.sent[s].len <= t

NoHole(b) ==
    \A x \in b.first .. (b.first + b.sentSize - 1) :
        \E s \in DOMAIN b.sent : s <= x /\ x < s + b.sent[s].len

Shape(b) == Numbers(b) /\ ItemsInPlace(b) /\ ItemsApart(b) /\ NoHole(b)

Sound(b) == Shape(b) /\ Counted(b)

\* c is b with other marks.
Reflagged(b, c) ==
    /\ DOMAIN c = BufferField /\ c.count \in [Flag -> Int] /\ c.highest \in Nat
    /\ c.first = b.first /\ c.sentSize = b.sentSize /\ c.size = b.size /\ c.app = b.app
    /\ DOMAIN c.sent = DOMAIN b.sent
    /\ \A s \in DOMAIN b.sent :
          /\ c.sent[s] \in Item
          /\ c.sent[s].off = b.sent[s].off
          /\ c.sent[s].len = b.sent[s].len

LEMMA ReflaggedShape ==
    ASSUME NEW b, NEW c, Shape(b), Reflagged(b, c)
    PROVE  Shape(c)
<1>1. Numbers(c)
  BY DEF Shape, Numbers, Reflagged
<1>2. ItemsInPlace(c) /\ ItemsApart(c)
  BY DEF Shape, ItemsInPlace, ItemsApart, Reflagged
<1>3. NoHole(c)
  BY DEF Shape, NoHole, Reflagged
<1> QED BY <1>1, <1>2, <1>3 DEF Shape

LEMMA ReflaggedCovered ==
    ASSUME NEW b, NEW c, Reflagged(b, c), NEW S \in SUBSET DOMAIN b.sent
    PROVE  Covered(c, S) = Covered(b, S)
BY DEF Reflagged, Covered, EndOf

LEMMA ReflaggedTwice ==
    ASSUME NEW b, NEW c, NEW d, Reflagged(b, c), Reflagged(c, d)
    PROVE  Reflagged(b, d)
BY DEF Reflagged

\* One mark of an item.
LEMMA MarkedItem ==
    ASSUME NEW i \in Item, NEW f \in Flag, NEW v \in BOOLEAN
    PROVE  LET j == [i EXCEPT ![f] = v]
           IN  /\ j \in Item /\ j.off = i.off /\ j.len = i.len
               /\ j[f] = v
               /\ \A g \in Flag : g # f => j[g] = i[g]
<1>1. f = "sacked" \/ f = "lost" \/ f = "retrans"
  BY DEF Flag
<1>2. CASE f = "sacked"
  BY <1>2 DEF Item, Flag
<1>3. CASE f = "lost"
  BY <1>3 DEF Item, Flag
<1>4. CASE f = "retrans"
  BY <1>4 DEF Item, Flag
<1> QED BY <1>1, <1>2, <1>3, <1>4

LEMMA CoveredFinite ==
    ASSUME NEW b, NEW S
    PROVE  /\ Covered(b, S) \in SUBSET Byte
           /\ IsFiniteSet(Covered(b, S))
           /\ BytesOf(b, S) \in Nat
<1>1. IsFiniteSet(Byte)
  BY FS_Interval, TxStreamAssumption DEF Byte
<1>2. Covered(b, S) \in SUBSET Byte
  BY DEF Covered
<1>3. IsFiniteSet(Covered(b, S))
  BY <1>1, <1>2, FS_Subset
<1> QED BY <1>2, <1>3, FS_CardinalityType DEF BytesOf

\* The bytes of disjoint sets of items add up.
LEMMA BytesAdd ==
    ASSUME NEW b, Shape(b), NEW S \in SUBSET DOMAIN b.sent, NEW T \in SUBSET DOMAIN b.sent,
           S \cap T = {}
    PROVE  /\ Covered(b, S \cup T) = Covered(b, S) \cup Covered(b, T)
           /\ Covered(b, S) \cap Covered(b, T) = {}
           /\ BytesOf(b, S \cup T) = BytesOf(b, S) + BytesOf(b, T)
<1>1. Covered(b, S \cup T) = Covered(b, S) \cup Covered(b, T)
  BY DEF Covered
<1>2. ASSUME NEW x, x \in Covered(b, S), x \in Covered(b, T) PROVE FALSE
  <2>1. x \in Int
    BY <1>2, CoveredFinite DEF Byte
  <2>2. PICK s \in S : s <= x /\ x < EndOf(b, s)
    BY <1>2 DEF Covered
  <2>3. PICK t \in T : t <= x /\ x < EndOf(b, t)
    BY <1>2 DEF Covered
  <2>4. s \in Int /\ t \in Int /\ b.sent[s].len \in Int /\ b.sent[t].len \in Int
    BY DEF Shape, ItemsInPlace, Byte, Item
  <2>5. ~ (s < t) /\ ~ (t < s) /\ s # t
    BY <2>1, <2>2, <2>3, <2>4 DEF Shape, ItemsApart, EndOf
  <2> QED BY <2>4, <2>5
<1>3. Covered(b, S) \cap Covered(b, T) = {}
  BY <1>2
<1>4. Cardinality(Covered(b, S) \cup Covered(b, T))
        = Cardinality(Covered(b, S)) + Cardinality(Covered(b, T))
  BY <1>3, CoveredFinite, DisjointUnion
<1> QED BY <1>1, <1>3, <1>4 DEF BytesOf

LEMMA SetFlagsSound ==
    ASSUME NEW b, Sound(b), NEW f \in Flag, NEW S \in SUBSET DOMAIN b.sent
    PROVE  LET c == SetFlags(b, S, f)
           IN  /\ Sound(c) /\ Reflagged(b, c) /\ c.highest = b.highest
               /\ With(c, f) = With(b, f) \cup S
               /\ \A g \in Flag : g # f => With(c, g) = With(b, g) /\ c.count[g] = b.count[g]
<1> DEFINE T == {s \in S : ~ b.sent[s][f]}
           sent == [s \in DOMAIN b.sent |->
                      IF s \in T THEN [b.sent[s] EXCEPT ![f] = TRUE] ELSE b.sent[s]]
           n == b.count[f] + BytesOf(b, T)
           c == [b EXCEPT !.sent = sent, !.count[f] = n]
<1>1. SetFlags(b, S, f) = c
  BY Zenon DEF SetFlags
<1>2. n \in Int
  BY CoveredFinite DEF Sound, Shape, Numbers
<1>3. T \in SUBSET DOMAIN b.sent
  OBVIOUS
<1>4. ASSUME NEW s \in DOMAIN b.sent
      PROVE  /\ sent[s] \in Item
             /\ sent[s].off = b.sent[s].off /\ sent[s].len = b.sent[s].len
             /\ sent[s][f] = (b.sent[s][f] \/ s \in S)
             /\ \A g \in Flag : g # f => sent[s][g] = b.sent[s][g]
  <2>1. b.sent[s] \in Item
    BY DEF Sound, Shape, ItemsInPlace
  <2>2. b.sent[s][f] \in BOOLEAN
    BY <2>1 DEF Item, Flag
  <2> DEFINE i == b.sent[s]
             j == [i EXCEPT ![f] = TRUE]
  <2>3. /\ j \in Item /\ j.off = i.off /\ j.len = i.len
        /\ j[f] = TRUE
        /\ \A g \in Flag : g # f => j[g] = i[g]
    <3> HIDE DEF i
    <3> QED BY <2>1, MarkedItem DEF i
  <2>4. sent[s] = IF s \in T THEN j ELSE i
    OBVIOUS
  <2> HIDE DEF sent, j
  <2>5. CASE s \in T
    BY <2>1, <2>3, <2>4, <2>5
  <2>6. CASE s \notin T
    BY <2>1, <2>2, <2>4, <2>6
  <2> QED BY <2>5, <2>6
<1>5. DOMAIN sent = DOMAIN b.sent
  OBVIOUS
<1> HIDE DEF sent
<1>6. /\ DOMAIN c = BufferField /\ c.first = b.first /\ c.sentSize = b.sentSize
      /\ c.size = b.size /\ c.app = b.app /\ c.highest = b.highest
      /\ c.sent = sent /\ c.count = [b.count EXCEPT ![f] = n]
  BY DEF Sound, Shape, Numbers, BufferField
<1> HIDE DEF c
<1>7. c.count \in [Flag -> Int] /\ c.count[f] = n /\ \A g \in Flag : g # f => c.count[g] = b.count[g]
  BY <1>2, <1>6 DEF Sound, Shape, Numbers
<1>8. Reflagged(b, c)
  BY <1>4, <1>5, <1>6, <1>7 DEF Reflagged, Sound, Shape, Numbers
<1>9. Shape(c)
  BY <1>8, ReflaggedShape DEF Sound
<1>10. With(c, f) = With(b, f) \cup S
  BY <1>4, <1>5, <1>6 DEF With
<1>11. \A g \in Flag : g # f => With(c, g) = With(b, g)
  BY <1>4, <1>5, <1>6 DEF With
<1>12. ASSUME NEW g \in Flag PROVE c.count[g] = BytesOf(c, With(c, g))
  <2>1. With(b, g) \in SUBSET DOMAIN b.sent /\ With(c, g) \in SUBSET DOMAIN b.sent
    BY <1>5, <1>6 DEF With
  <2>2. BytesOf(c, With(c, g)) = BytesOf(b, With(c, g))
    BY <1>8, <2>1, ReflaggedCovered DEF BytesOf
  <2>3. b.count[g] = BytesOf(b, With(b, g))
    BY DEF Sound, Counted
  <2>4. CASE g = f
    <3>1. With(c, g) = With(b, g) \cup T
      BY <1>10, <2>4 DEF With
    <3>2. With(b, g) \cap T = {}
      BY <2>4 DEF With
    <3>3. BytesOf(b, With(b, g) \cup T) = BytesOf(b, With(b, g)) + BytesOf(b, T)
      <4> HIDE DEF T
      <4> QED BY <1>3, <2>1, <3>2, BytesAdd DEF Sound
    <3> QED BY <1>7, <2>2, <2>3, <2>4, <3>1, <3>3
  <2>5. CASE g # f
    BY <1>7, <1>11, <2>2, <2>3, <2>5
  <2> QED BY <2>4, <2>5
<1> HIDE DEF T
<1> QED BY <1>1, <1>6, <1>7, <1>8, <1>9, <1>10, <1>11, <1>12 DEF Sound, Counted

LEMMA ClearFlagsSound ==
    ASSUME NEW b, Sound(b), NEW f \in Flag, NEW S \in SUBSET DOMAIN b.sent
    PROVE  LET c == ClearFlags(b, S, f)
           IN  /\ Sound(c) /\ Reflagged(b, c) /\ c.highest = b.highest
               /\ With(c, f) = With(b, f) \ S
               /\ \A g \in Flag : g # f => With(c, g) = With(b, g) /\ c.count[g] = b.count[g]
<1> DEFINE T == {s \in S : b.sent[s][f]}
           sent == [s \in DOMAIN b.sent |->
                      IF s \in T THEN [b.sent[s] EXCEPT ![f] = FALSE] ELSE b.sent[s]]
           n == b.count[f] - BytesOf(b, T)
           c == [b EXCEPT !.sent = sent, !.count[f] = n]
<1>1. ClearFlags(b, S, f) = c
  BY Zenon DEF ClearFlags
<1>2. n \in Int
  BY CoveredFinite DEF Sound, Shape, Numbers
<1>3. T \in SUBSET DOMAIN b.sent
  OBVIOUS
<1>4. ASSUME NEW s \in DOMAIN b.sent
      PROVE  /\ sent[s] \in Item
             /\ sent[s].off = b.sent[s].off /\ sent[s].len = b.sent[s].len
             /\ sent[s][f] = (b.sent[s][f] /\ s \notin S)
             /\ \A g \in Flag : g # f => sent[s][g] = b.sent[s][g]
  <2>1. b.sent[s] \in Item
    BY DEF Sound, Shape, ItemsInPlace
  <2>2. b.sent[s][f] \in BOOLEAN
    BY <2>1 DEF Item, Flag
  <2> DEFINE i == b.sent[s]
             j == [i EXCEPT ![f] = FALSE]
  <2>3. /\ j \in Item /\ j.off = i.off /\ j.len = i.len
        /\ j[f] = FALSE
        /\ \A g \in Flag : g # f => j[g] = i[g]
    <3> HIDE DEF i
    <3> QED BY <2>1, MarkedItem DEF i
  <2>4. sent[s] = IF s \in T THEN j ELSE i
    OBVIOUS
  <2> HIDE DEF sent, j
  <2>5. CASE s \in T
    BY <2>1, <2>3, <2>4, <2>5
  <2>6. CASE s \notin T
    BY <2>1, <2>2, <2>4, <2>6
  <2> QED BY <2>5, <2>6
<1>5. DOMAIN sent = DOMAIN b.sent
  OBVIOUS
<1> HIDE DEF sent
<1>6. /\ DOMAIN c = BufferField /\ c.first = b.first /\ c.sentSize = b.sentSize
      /\ c.size = b.size /\ c.app = b.app /\ c.highest = b.highest
      /\ c.sent = sent /\ c.count = [b.count EXCEPT ![f] = n]
  BY DEF Sound, Shape, Numbers, BufferField
<1> HIDE DEF c
<1>7. c.count \in [Flag -> Int] /\ c.count[f] = n /\ \A g \in Flag : g # f => c.count[g] = b.count[g]
  BY <1>2, <1>6 DEF Sound, Shape, Numbers
<1>8. Reflagged(b, c)
  BY <1>4, <1>5, <1>6, <1>7 DEF Reflagged, Sound, Shape, Numbers
<1>9. Shape(c)
  BY <1>8, ReflaggedShape DEF Sound
<1>10. With(c, f) = With(b, f) \ S
  BY <1>4, <1>5, <1>6 DEF With
<1>11. \A g \in Flag : g # f => With(c, g) = With(b, g)
  BY <1>4, <1>5, <1>6 DEF With
<1>12. ASSUME NEW g \in Flag PROVE c.count[g] = BytesOf(c, With(c, g))
  <2>1. With(b, g) \in SUBSET DOMAIN b.sent /\ With(c, g) \in SUBSET DOMAIN b.sent
    BY <1>5, <1>6 DEF With
  <2>2. BytesOf(c, With(c, g)) = BytesOf(b, With(c, g))
    BY <1>8, <2>1, ReflaggedCovered DEF BytesOf
  <2>3. b.count[g] = BytesOf(b, With(b, g))
    BY DEF Sound, Counted
  <2>4. CASE g = f
    <3>1. With(b, g) = With(c, g) \cup T
      BY <1>10, <2>4 DEF With
    <3>2. With(c, g) \cap T = {}
      BY <1>10, <2>4 DEF With
    <3>3. BytesOf(b, With(c, g) \cup T) = BytesOf(b, With(c, g)) + BytesOf(b, T)
      <4> HIDE DEF T
      <4> QED BY <1>3, <2>1, <3>2, BytesAdd DEF Sound
    <3>4. BytesOf(b, With(c, g)) \in Nat /\ BytesOf(b, T) \in Nat
      BY CoveredFinite
    <3> QED BY <1>7, <2>2, <2>3, <2>4, <3>1, <3>3, <3>4
  <2>5. CASE g # f
    BY <1>7, <1>11, <2>2, <2>3, <2>5
  <2> QED BY <2>4, <2>5
<1> HIDE DEF T
<1> QED BY <1>1, <1>6, <1>7, <1>8, <1>9, <1>10, <1>11, <1>12 DEF Sound, Counted

(***************************************************************************)
(* The head of the list.                                                   *)
(***************************************************************************)
LEMMA HeadIsFirst ==
    ASSUME NEW b, Shape(b)
    PROVE  /\ b.sentSize > 0 => DOMAIN b.sent # {}
           /\ DOMAIN b.sent # {} => /\ b.sentSize > 0 /\ b.first \in DOMAIN b.sent
                                    /\ HeadItem(b) = b.first
<1>1. ASSUME b.sentSize > 0 PROVE b.first \in DOMAIN b.sent
  <2>1. b.first \in b.first .. (b.first + b.sentSize - 1)
    BY <1>1 DEF Shape, Numbers
  <2>2. PICK s \in DOMAIN b.sent : s <= b.first /\ b.first < s + b.sent[s].len
    BY <2>1 DEF Shape, NoHole
  <2>3. s \in Int /\ b.first \in Int /\ b.first <= s
    BY DEF Shape, ItemsInPlace, Numbers, Byte
  <2> QED BY <2>2, <2>3
<1>2. ASSUME NEW s \in DOMAIN b.sent PROVE b.sentSize > 0
  <2>1. /\ s \in Int /\ b.sent[s].len \in Int /\ b.sent[s].len >= 1
        /\ b.first <= s /\ s + b.sent[s].len <= b.first + b.sentSize
    BY DEF Shape, ItemsInPlace, Byte, Item
  <2> QED BY <2>1 DEF Shape, Numbers
<1>3. ASSUME b.first \in DOMAIN b.sent PROVE HeadItem(b) = b.first
  <2>1. DOMAIN b.sent \in SUBSET Nat /\ DOMAIN b.sent # {}
    BY <1>3 DEF Shape, ItemsInPlace, Byte
  <2> DEFINE D == DOMAIN b.sent
             h == Min(D)
  <2>2. h \in D /\ \A y \in D : h <= y
    <3> HIDE DEF D
    <3> QED BY <2>1, MinOfNaturals DEF D
  <2> HIDE DEF h
  <2>3. h <= b.first /\ b.first <= h /\ h \in Nat /\ b.first \in Nat
    BY <1>3, <2>2 DEF Shape, ItemsInPlace, Numbers, Byte
  <2> QED BY <2>3 DEF HeadItem, h
<1> QED BY <1>1, <1>2, <1>3

LEMMA MarkHeadAsLostSound ==
    ASSUME NEW b, Sound(b)
    PROVE  LET c == MarkHeadAsLost(b)
           IN  /\ Sound(c) /\ Reflagged(b, c) /\ c.highest = b.highest
               /\ With(c, "lost") = With(b, "lost") \cup (DOMAIN b.sent \cap {b.first})
               /\ With(c, "sacked") = With(b, "sacked") \ {b.first}
               /\ With(c, "retrans") = With(b, "retrans") \ {b.first}
<1>1. CASE DOMAIN b.sent = {}
  <2>1. MarkHeadAsLost(b) = b
    BY <1>1 DEF MarkHeadAsLost
  <2>2. Reflagged(b, b)
    BY DEF Reflagged, Sound, Shape, Numbers, ItemsInPlace
  <2> QED BY <1>1, <2>1, <2>2 DEF With
<1>2. CASE DOMAIN b.sent # {}
  <2> DEFINE h == {HeadItem(b)}
             c1 == ClearFlags(b, h, "sacked")
             c2 == ClearFlags(c1, h, "retrans")
             c3 == SetFlags(c2, h, "lost")
  <2>1. MarkHeadAsLost(b) = c3
    BY <1>2, Zenon DEF MarkHeadAsLost
  <2>2. h = {b.first} /\ h \in SUBSET DOMAIN b.sent
    BY <1>2, HeadIsFirst DEF Sound
  <2>3. "sacked" \in Flag /\ "lost" \in Flag /\ "retrans" \in Flag
    BY DEF Flag
  <2> HIDE DEF h
  <2>4. /\ Sound(c1) /\ Reflagged(b, c1) /\ c1.highest = b.highest
        /\ With(c1, "sacked") = With(b, "sacked") \ h
        /\ With(c1, "lost") = With(b, "lost") /\ With(c1, "retrans") = With(b, "retrans")
    BY <2>2, <2>3, ClearFlagsSound
  <2>5. h \in SUBSET DOMAIN c1.sent
    BY <2>2, <2>4 DEF Reflagged
  <2> HIDE DEF c1
  <2>6. /\ Sound(c2) /\ Reflagged(c1, c2) /\ c2.highest = c1.highest
        /\ With(c2, "retrans") = With(c1, "retrans") \ h
        /\ With(c2, "lost") = With(c1, "lost") /\ With(c2, "sacked") = With(c1, "sacked")
    BY <2>3, <2>4, <2>5, ClearFlagsSound
  <2>7. h \in SUBSET DOMAIN c2.sent
    BY <2>5, <2>6 DEF Reflagged
  <2> HIDE DEF c2
  <2>8. /\ Sound(c3) /\ Reflagged(c2, c3) /\ c3.highest = c2.highest
        /\ With(c3, "lost") = With(c2, "lost") \cup h
        /\ With(c3, "retrans") = With(c2, "retrans") /\ With(c3, "sacked") = With(c2, "sacked")
    BY <2>3, <2>6, <2>7, SetFlagsSound
  <2> HIDE DEF c3
  <2>9. Reflagged(b, c3)
    BY <2>4, <2>6, <2>8, ReflaggedTwice
  <2>10. DOMAIN b.sent \cap {b.first} = h
    BY <2>2
  <2> QED BY <2>1, <2>2, <2>4, <2>6, <2>8, <2>9, <2>10
<1> QED BY <1>1, <1>2

\* All the items together hold the bytes sent, and no more.
LEMMA AllBytes ==
    ASSUME NEW b, Shape(b)
    PROVE  /\ Covered(b, DOMAIN b.sent) = b.first .. (b.first + b.sentSize - 1)
           /\ BytesOf(b, DOMAIN b.sent) = b.sentSize
<1>0. b.first \in Int /\ b.sentSize \in Nat
  BY DEF Shape, Numbers
<1>1. ASSUME NEW x \in Covered(b, DOMAIN b.sent)
      PROVE  x \in b.first .. (b.first + b.sentSize - 1)
  <2>1. x \in Int
    BY CoveredFinite DEF Byte
  <2>2. PICK s \in DOMAIN b.sent : s <= x /\ x < EndOf(b, s)
    BY DEF Covered
  <2>3. /\ s \in Int /\ b.sent[s].len \in Int
        /\ b.first <= s /\ s + b.sent[s].len <= b.first + b.sentSize
    BY DEF Shape, ItemsInPlace, Byte, Item
  <2> QED BY <1>0, <2>1, <2>2, <2>3 DEF EndOf
<1>2. ASSUME NEW x \in b.first .. (b.first + b.sentSize - 1)
      PROVE  x \in Covered(b, DOMAIN b.sent)
  <2>1. x \in Byte
    BY <1>0, TxStreamAssumption DEF Shape, Numbers, Byte
  <2>2. PICK s \in DOMAIN b.sent : s <= x /\ x < s + b.sent[s].len
    BY DEF Shape, NoHole
  <2> QED BY <2>1, <2>2 DEF Covered, EndOf
<1>3. Covered(b, DOMAIN b.sent) = b.first .. (b.first + b.sentSize - 1)
  BY <1>1, <1>2
<1>4. Cardinality(b.first .. (b.first + b.sentSize - 1)) = b.sentSize
  <2> DEFINE lo == b.first
             hi == b.first + b.sentSize - 1
  <2>1. lo \in Int /\ hi \in Int
    BY <1>0
  <2>2. Cardinality(lo .. hi) = IF lo > hi THEN 0 ELSE hi - lo + 1
    <3> HIDE DEF lo, hi
    <3> QED BY <2>1, FS_Interval
  <2> QED BY <1>0, <2>2
<1> QED BY <1>3, <1>4 DEF BytesOf

LEMMA NoBytes == \A b : Covered(b, {}) = {} /\ BytesOf(b, {}) = 0
BY FS_EmptySet DEF Covered, BytesOf

\* A guess of what was received marks one item after the head.
LEMMA AddRenoSackSound ==
    ASSUME NEW b, Sound(b)
    PROVE  LET c == AddRenoSack(b)
           IN  /\ Sound(c) /\ Reflagged(b, c)
               /\ With(c, "lost") = With(b, "lost") /\ With(c, "retrans") = With(b, "retrans")
               /\ \/ With(c, "sacked") = With(b, "sacked") /\ c.highest = b.highest
                  \/ /\ c.highest \in DOMAIN b.sent \ {b.first}
                     /\ With(c, "sacked") = With(b, "sacked") \cup {c.highest}
<1> DEFINE open == {s \in DOMAIN b.sent \ {HeadItem(b)} : ~ b.sent[s].sacked}
           k == Min(open)
           d == SetFlags(b, {k}, "sacked")
           c == [d EXCEPT !.highest = k]
<1>0. Reflagged(b, b)
  BY DEF Reflagged, Sound, Shape, Numbers, ItemsInPlace
<1>1. AddRenoSack(b) = IF open = {} THEN b ELSE c
  BY Zenon DEF AddRenoSack
<1>2. CASE open = {}
  <2>1. AddRenoSack(b) = b
    BY <1>1, <1>2
  <2> QED BY <1>0, <2>1
<1>3. CASE open # {}
  <2>1. open \in SUBSET Nat
    BY DEF Sound, Shape, ItemsInPlace, Byte
  <2>2. k \in open
    <3> HIDE DEF open
    <3> QED BY <1>3, <2>1, MinOfNaturals
  <2>3. k \in DOMAIN b.sent /\ k # b.first /\ k \in Nat
    BY <2>1, <2>2, HeadIsFirst DEF Sound
  <2> HIDE DEF k, open
  <2>4. "sacked" \in Flag /\ "lost" \in Flag /\ "retrans" \in Flag
    BY DEF Flag
  <2>5. {k} \in SUBSET DOMAIN b.sent
    BY <2>3
  <2>6. /\ Sound(d) /\ Reflagged(b, d)
        /\ With(d, "sacked") = With(b, "sacked") \cup {k}
        /\ With(d, "lost") = With(b, "lost") /\ With(d, "retrans") = With(b, "retrans")
    BY <2>4, <2>5, SetFlagsSound
  <2> HIDE DEF d
  <2>7. /\ DOMAIN c = BufferField /\ c.first = d.first /\ c.sentSize = d.sentSize
        /\ c.size = d.size /\ c.app = d.app /\ c.highest = k
        /\ c.sent = d.sent /\ c.count = d.count
    BY <2>6 DEF Sound, Shape, Numbers, BufferField
  <2> HIDE DEF c
  <2>8. Reflagged(b, c)
    BY <2>3, <2>6, <2>7 DEF Reflagged
  <2>9. \A f : With(c, f) = With(d, f) /\ BytesOf(c, With(c, f)) = BytesOf(d, With(d, f))
    BY <2>7 DEF With, BytesOf, Covered, EndOf
  <2>10. Sound(c)
    BY <2>6, <2>7, <2>8, <2>9, ReflaggedShape DEF Sound, Counted
  <2>11. AddRenoSack(b) = c
    BY <1>1, <1>3
  <2> QED BY <2>3, <2>6, <2>7, <2>8, <2>9, <2>10, <2>11
<1> QED BY <1>2, <1>3

\* The marks and counters of c, given one by one, make it sound.
LEMMA RemarkedSound ==
    ASSUME NEW b, Shape(b), NEW c, Reflagged(b, c),
           \A f \in Flag : c.count[f] = BytesOf(b, With(c, f))
    PROVE  Sound(c)
<1>1. ASSUME NEW f \in Flag PROVE c.count[f] = BytesOf(c, With(c, f))
  <2>1. With(c, f) \in SUBSET DOMAIN b.sent
    BY DEF With, Reflagged
  <2>2. Covered(c, With(c, f)) = Covered(b, With(c, f))
    BY <2>1, ReflaggedCovered
  <2> QED BY <2>2 DEF BytesOf
<1> QED BY <1>1, ReflaggedShape DEF Sound, Counted

LEMMA ResetRenoSackSound ==
    ASSUME NEW b, Sound(b)
    PROVE  LET c == ResetRenoSack(b)
           IN  /\ Sound(c) /\ Reflagged(b, c) /\ c.highest = 0
               /\ With(c, "sacked") = {}
               /\ With(c, "lost") = With(b, "lost") /\ With(c, "retrans") = With(b, "retrans")
<1> DEFINE sent == [s \in DOMAIN b.sent |-> [b.sent[s] EXCEPT !.sacked = FALSE]]
           c == [b EXCEPT !.sent = sent, !.count["sacked"] = 0, !.highest = 0]
<1>1. ResetRenoSack(b) = c
  BY Zenon DEF ResetRenoSack
<1>2. ASSUME NEW s \in DOMAIN b.sent
      PROVE  /\ sent[s] \in Item /\ sent[s].off = b.sent[s].off /\ sent[s].len = b.sent[s].len
             /\ sent[s].sacked = FALSE /\ sent[s].lost = b.sent[s].lost
             /\ sent[s].retrans = b.sent[s].retrans
  <2>1. b.sent[s] \in Item
    BY DEF Sound, Shape, ItemsInPlace
  <2> QED BY <2>1 DEF Item
<1>3. DOMAIN sent = DOMAIN b.sent
  OBVIOUS
<1> HIDE DEF sent
<1>4. /\ DOMAIN c = BufferField /\ c.first = b.first /\ c.sentSize = b.sentSize
      /\ c.size = b.size /\ c.app = b.app /\ c.highest = 0
      /\ c.sent = sent /\ c.count = [b.count EXCEPT !["sacked"] = 0]
  BY DEF Sound, Shape, Numbers, BufferField
<1> HIDE DEF c
<1>5. /\ c.count \in [Flag -> Int] /\ c.count["sacked"] = 0
      /\ c.count["lost"] = b.count["lost"] /\ c.count["retrans"] = b.count["retrans"]
  BY <1>4 DEF Sound, Shape, Numbers, Flag
<1>6. Reflagged(b, c)
  <2>1. c.highest \in Nat
    BY <1>4
  <2> QED BY <1>2, <1>3, <1>4, <1>5, <2>1 DEF Reflagged
<1>7. /\ With(c, "sacked") = {} /\ With(c, "lost") = With(b, "lost")
      /\ With(c, "retrans") = With(b, "retrans")
  BY <1>2, <1>3, <1>4 DEF With
<1>8. \A f \in Flag : c.count[f] = BytesOf(b, With(c, f))
  BY <1>5, <1>7, NoBytes DEF Sound, Counted, Flag
<1>9. Sound(c)
  BY <1>6, <1>8, RemarkedSound DEF Sound
<1> QED BY <1>1, <1>4, <1>6, <1>7, <1>9

LEMMA SetSentListLostSound ==
    ASSUME NEW b, Sound(b), NEW reset \in BOOLEAN
    PROVE  LET c == SetSentListLost(b, reset)
           IN  /\ Sound(c) /\ Reflagged(b, c)
               /\ c.highest = IF reset THEN 0 ELSE b.highest
               /\ With(c, "sacked") = IF reset THEN {} ELSE With(b, "sacked")
               /\ With(c, "lost") = With(b, "lost") \cup (DOMAIN b.sent \ With(c, "sacked"))
               /\ With(c, "retrans") = {}
<1> DEFINE stillSacked == IF reset THEN {} ELSE {s \in DOMAIN b.sent : b.sent[s].sacked}
           lost == {s \in DOMAIN b.sent : b.sent[s].lost \/ s \notin stillSacked}
           sent == [s \in DOMAIN b.sent |->
                      [b.sent[s] EXCEPT !.sacked = s \in stillSacked,
                                        !.lost = s \in lost,
                                        !.retrans = FALSE]]
           n == IF reset THEN 0 ELSE b.count["sacked"]
           l == IF reset THEN b.sentSize ELSE BytesOf(b, lost)
           h == IF reset THEN 0 ELSE b.highest
           c == [b EXCEPT !.sent = sent, !.count["sacked"] = n, !.count["lost"] = l,
                          !.count["retrans"] = 0, !.highest = h]
<1>1. SetSentListLost(b, reset) =
         [b EXCEPT !.sent = sent,
                  !.count["sacked"] = IF reset THEN 0 ELSE @,
                  !.count["lost"] = IF reset THEN b.sentSize ELSE BytesOf(b, lost),
                  !.count["retrans"] = 0,
                  !.highest = IF reset THEN 0 ELSE @]
  BY Zenon DEF SetSentListLost
<1>2. ASSUME NEW s \in DOMAIN b.sent
      PROVE  /\ sent[s] \in Item /\ sent[s].off = b.sent[s].off /\ sent[s].len = b.sent[s].len
             /\ sent[s].sacked = (s \in stillSacked) /\ sent[s].lost = (s \in lost)
             /\ sent[s].retrans = FALSE
  <2>1. b.sent[s] \in Item
    BY DEF Sound, Shape, ItemsInPlace
  <2> DEFINE i == b.sent[s]
             p == s \in stillSacked
             q == s \in lost
             j == [i EXCEPT !.sacked = p, !.lost = q, !.retrans = FALSE]
  <2>2. sent[s] = j
    BY Zenon
  <2>3. p \in BOOLEAN /\ q \in BOOLEAN
    OBVIOUS
  <2> HIDE DEF p, q, i
  <2>4. /\ j \in Item /\ j.off = i.off /\ j.len = i.len
        /\ j.sacked = p /\ j.lost = q /\ j.retrans = FALSE
    BY <2>1, <2>3 DEF Item, i
  <2> HIDE DEF j, sent
  <2> QED BY <2>2, <2>4 DEF i, p, q
<1>3. DOMAIN sent = DOMAIN b.sent
  OBVIOUS
<1>4. stillSacked \in SUBSET DOMAIN b.sent /\ lost \in SUBSET DOMAIN b.sent
  OBVIOUS
<1>5. n \in Int /\ l \in Int /\ h \in Nat
  BY CoveredFinite DEF Sound, Shape, Numbers, Flag
<1> HIDE DEF sent, n, l, h
<1>6. /\ DOMAIN c = BufferField /\ c.first = b.first /\ c.sentSize = b.sentSize
      /\ c.size = b.size /\ c.app = b.app /\ c.highest = h /\ c.sent = sent
      /\ c.count = [[[b.count EXCEPT !["sacked"] = n] EXCEPT !["lost"] = l] EXCEPT !["retrans"] = 0]
  BY DEF Sound, Shape, Numbers, BufferField
<1>7. SetSentListLost(b, reset) = c
  BY <1>1 DEF n, l, h, Sound, Shape, Numbers, BufferField, Flag
<1> HIDE DEF c
<1>8. /\ c.count \in [Flag -> Int] /\ c.count["sacked"] = n
      /\ c.count["lost"] = l /\ c.count["retrans"] = 0
  BY <1>5, <1>6 DEF Sound, Shape, Numbers, Flag
<1>9. Reflagged(b, c)
  BY <1>2, <1>3, <1>5, <1>6, <1>8 DEF Reflagged
<1>10. With(c, "sacked") = stillSacked /\ With(c, "lost") = lost /\ With(c, "retrans") = {}
  <2> HIDE DEF stillSacked, lost
  <2> QED BY <1>2, <1>3, <1>4, <1>6 DEF With
<1>11. n = BytesOf(b, stillSacked)
  BY NoBytes DEF n, Sound, Counted, Flag, With
<1>12. l = BytesOf(b, lost)
  <2>1. CASE reset
    <3>1. lost = DOMAIN b.sent
      BY <2>1
    <3> QED BY <2>1, <3>1, AllBytes DEF l, Sound
  <2>2. CASE ~ reset
    BY <2>2 DEF l
  <2> QED BY <2>1, <2>2
<1>13. \A f \in Flag : c.count[f] = BytesOf(b, With(c, f))
  <2> HIDE DEF stillSacked, lost
  <2> QED BY <1>8, <1>10, <1>11, <1>12, NoBytes DEF Flag
<1>14. Sound(c)
  BY <1>9, <1>13, RemarkedSound DEF Sound
<1>15. lost = With(b, "lost") \cup (DOMAIN b.sent \ stillSacked)
  BY DEF With
<1>16. stillSacked = IF reset THEN {} ELSE With(b, "sacked")
  BY DEF With
<1> HIDE DEF stillSacked, lost
<1> QED BY <1>6, <1>7, <1>9, <1>10, <1>14, <1>15, <1>16 DEF h

(***************************************************************************)
(* Cutting and joining items.                                              *)
(***************************************************************************)
\* What a cut leaves alone.
SameNumbers(b, c) ==
    /\ DOMAIN c = BufferField
    /\ c.first = b.first /\ c.sentSize = b.sentSize /\ c.size = b.size /\ c.app = b.app
    /\ c.highest = b.highest

\* The item that follows another one in the list begins where that one ends.
LEMMA NextItem ==
    ASSUME NEW b, Shape(b), NEW s \in DOMAIN b.sent
    PROVE  /\ EndOf(b, s) \in Int /\ s < EndOf(b, s) /\ EndOf(b, s) <= SentEnd(b)
           /\ EndOf(b, s) < SentEnd(b) => EndOf(b, s) \in DOMAIN b.sent
<1> DEFINE x == EndOf(b, s)
<1>1. /\ s \in Int /\ b.sent[s].len \in Int /\ 1 <= b.sent[s].len
      /\ b.first <= s /\ x <= SentEnd(b) /\ b.first \in Int /\ b.sentSize \in Int
  BY DEF Shape, Numbers, ItemsInPlace, Item, Byte, EndOf, SentEnd
<1>2. ASSUME x < SentEnd(b) PROVE x \in DOMAIN b.sent
  <2>1. x \in b.first .. (b.first + b.sentSize - 1)
    BY <1>1, <1>2 DEF EndOf, SentEnd
  <2>2. PICK t \in DOMAIN b.sent : t <= x /\ x < t + b.sent[t].len
    BY <2>1 DEF Shape, NoHole
  <2>3. t \in Int /\ b.sent[t].len \in Int
    BY DEF Shape, ItemsInPlace, Item, Byte
  <2>4. ~ (t < s) /\ t # s
    BY <1>1, <2>2, <2>3 DEF Shape, ItemsApart, EndOf
  <2>5. x <= t
    BY <1>1, <2>3, <2>4 DEF Shape, ItemsApart, EndOf
  <2>6. x = t
    BY <1>1, <2>2, <2>3, <2>5 DEF EndOf
  <2> QED BY <2>6
<1> QED BY <1>1, <1>2 DEF EndOf

LEMMA SplitItemSound ==
    ASSUME NEW b, Sound(b), NEW s \in DOMAIN b.sent, NEW n \in Nat, 1 <= n, n < b.sent[s].len
    PROVE  LET c == SplitItem(b, s, n)
           IN  /\ Sound(c) /\ SameNumbers(b, c)
               /\ DOMAIN c.sent = DOMAIN b.sent \cup {s + n} /\ s + n \notin DOMAIN b.sent
               /\ \A k \in DOMAIN b.sent \ {s} : c.sent[k] = b.sent[k]
               /\ c.sent[s].len = n /\ c.sent[s + n].len = b.sent[s].len - n
               /\ \A f \in Flag : /\ c.sent[s][f] = b.sent[s][f]
                                  /\ c.sent[s + n][f] = b.sent[s][f]
                                  /\ Covered(c, With(c, f)) = Covered(b, With(b, f))
<1> DEFINE i == b.sent[s]
           lo == [i EXCEPT !.len = n]
           hi == [i EXCEPT !.off = @ + n, !.len = @ - n]
           sent == [k \in DOMAIN b.sent \cup {s + n} |->
                      IF k = s + n THEN hi ELSE IF k = s THEN lo ELSE b.sent[k]]
           c == [b EXCEPT !.sent = sent]
<1>1. SplitItem(b, s, n) = c
  BY Zenon DEF SplitItem
<1>2. /\ i \in Item /\ i.off = s /\ s \in Byte /\ b.first <= s
      /\ s + i.len <= b.first + b.sentSize /\ s + n \in Byte
  <2>1. /\ i \in Item /\ i.off = s /\ s \in Byte /\ b.first <= s
        /\ s + i.len <= b.first + b.sentSize
    BY DEF Sound, Shape, ItemsInPlace
  <2> QED BY <2>1, TxStreamAssumption DEF Sound, Shape, Numbers, Byte, Item
<1>3. /\ lo \in Item /\ lo.off = s /\ lo.len = n
      /\ \A f \in Flag : lo[f] = i[f]
  <2> HIDE DEF i
  <2> QED BY <1>2, TxStreamAssumption DEF Item, Byte, Flag, i
<1>4. /\ hi \in Item /\ hi.off = s + n /\ hi.len = i.len - n
      /\ \A f \in Flag : hi[f] = i[f]
  <2> DEFINE o == i.off + n
             l == i.len - n
             h == [i EXCEPT !.off = o, !.len = l]
  <2>1. o \in Byte /\ l \in Byte /\ o = s + n
    BY <1>2, TxStreamAssumption DEF Item, Byte
  <2>2. hi = h
    BY Zenon
  <2> HIDE DEF i, o, l, hi
  <2>3. h \in Item /\ h.off = o /\ h.len = l /\ \A f \in Flag : h[f] = i[f]
    BY <1>2, <2>1 DEF Item, Flag
  <2> HIDE DEF h
  <2> QED BY <2>1, <2>2, <2>3 DEF l
<1>5. s + n \notin DOMAIN b.sent
  BY <1>2 DEF Sound, Shape, ItemsApart, ItemsInPlace, Byte, Item
<1>6. /\ DOMAIN sent = DOMAIN b.sent \cup {s + n} /\ sent[s + n] = hi
      /\ sent[s] = lo /\ \A k \in DOMAIN b.sent \ {s} : sent[k] = b.sent[k]
  <2> HIDE DEF lo, hi
  <2> QED BY <1>2, <1>5 DEF Byte
<1> HIDE DEF sent, lo, hi, i
<1>7. /\ DOMAIN c = BufferField /\ c.first = b.first /\ c.sentSize = b.sentSize
      /\ c.size = b.size /\ c.app = b.app /\ c.highest = b.highest
      /\ c.sent = sent /\ c.count = b.count
  BY DEF Sound, Shape, Numbers, BufferField
<1> HIDE DEF c
<1>8. SameNumbers(b, c) /\ Numbers(c)
  BY <1>7 DEF SameNumbers, Sound, Shape, Numbers
<1>9. ItemsInPlace(c)
  <2>1. ASSUME NEW k \in DOMAIN b.sent \cup {s + n}
        PROVE  /\ k \in Byte /\ sent[k] \in Item /\ sent[k].off = k
               /\ b.first <= k /\ k + sent[k].len <= b.first + b.sentSize
    <3>1. CASE k = s + n
      BY <1>2, <1>4, <1>6, <3>1 DEF Sound, Shape, Numbers, Byte, Item
    <3>2. CASE k = s
      BY <1>2, <1>3, <1>6, <3>2 DEF Sound, Shape, Numbers, Byte, Item, i
    <3>3. CASE k \in DOMAIN b.sent \ {s}
      BY <1>6, <3>3 DEF Sound, Shape, ItemsInPlace
    <3> QED BY <3>1, <3>2, <3>3
  <2> QED BY <1>6, <1>7, <2>1 DEF ItemsInPlace
<1>10. ASSUME NEW k \in DOMAIN b.sent \ {s}
       PROVE  /\ k \in Int /\ b.sent[k].len \in Int /\ 1 <= b.sent[k].len
              /\ k < s => k + b.sent[k].len <= s
              /\ s < k => s + i.len <= k
  BY <1>2 DEF Sound, Shape, ItemsApart, ItemsInPlace, Byte, Item, i
<1>11. s \in Int /\ i.len \in Int /\ n < i.len
  BY <1>2 DEF Byte, Item, i
<1>12. ItemsApart(c)
  <2>1. ASSUME NEW j \in DOMAIN b.sent \cup {s + n}, NEW k \in DOMAIN b.sent \cup {s + n}, j < k
        PROVE  j + sent[j].len <= k
    <3>1. CASE j \in {s, s + n} /\ k \in {s, s + n}
      BY <1>3, <1>6, <1>11, <2>1, <3>1
    <3>2. CASE j \in {s, s + n} /\ k \notin {s, s + n}
      <4>1. s < k /\ s + i.len <= k
        BY <1>10, <1>11, <2>1, <3>2
      <4> QED BY <1>3, <1>4, <1>6, <1>10, <1>11, <3>2, <4>1
    <3>3. CASE j \notin {s, s + n} /\ k \in {s, s + n}
      <4>1. ~ (s < j)
        BY <1>10, <1>11, <2>1, <3>3
      <4>2. j + b.sent[j].len <= s
        BY <1>10, <1>11, <3>3, <4>1
      <4> QED BY <1>6, <1>10, <1>11, <3>3, <4>2
    <3>4. CASE j \notin {s, s + n} /\ k \notin {s, s + n}
      BY <1>6, <2>1, <3>4 DEF Sound, Shape, ItemsApart
    <3> QED BY <3>1, <3>2, <3>3, <3>4
  <2> QED BY <1>6, <1>7, <2>1 DEF ItemsApart
<1>13. ASSUME NEW x \in Int, NEW f \in Flag
       PROVE  (\E k \in DOMAIN b.sent : b.sent[k][f] /\ k <= x /\ x < k + b.sent[k].len)
               <=> (\E k \in DOMAIN sent : sent[k][f] /\ k <= x /\ x < k + sent[k].len)
  <2>1. ASSUME NEW k \in DOMAIN b.sent, b.sent[k][f], k <= x, x < k + b.sent[k].len
        PROVE  \E j \in DOMAIN sent : sent[j][f] /\ j <= x /\ x < j + sent[j].len
    <3>1. CASE k = s /\ x < s + n
      BY <1>3, <1>6, <2>1, <3>1 DEF i
    <3>2. CASE k = s /\ ~ (x < s + n)
      BY <1>4, <1>6, <1>11, <2>1, <3>2 DEF i
    <3>3. CASE k # s
      BY <1>6, <2>1, <3>3
    <3> QED BY <3>1, <3>2, <3>3
  <2>2. ASSUME NEW k \in DOMAIN sent, sent[k][f], k <= x, x < k + sent[k].len
        PROVE  \E j \in DOMAIN b.sent : b.sent[j][f] /\ j <= x /\ x < j + b.sent[j].len
    <3>1. CASE k = s
      BY <1>3, <1>6, <1>11, <2>2, <3>1 DEF i
    <3>2. CASE k = s + n
      BY <1>4, <1>6, <1>11, <2>2, <3>2 DEF i
    <3>3. CASE k \notin {s, s + n}
      BY <1>6, <2>2, <3>3
    <3> QED BY <3>1, <3>2, <3>3
  <2> QED BY <2>1, <2>2
<1>14. NoHole(c)
  <2>1. ASSUME NEW x \in b.first .. (b.first + b.sentSize - 1)
        PROVE  \E k \in DOMAIN sent : k <= x /\ x < k + sent[k].len
    <3>1. PICK k \in DOMAIN b.sent : k <= x /\ x < k + b.sent[k].len
      BY DEF Sound, Shape, NoHole
    <3>2. x \in Int
      BY DEF Sound, Shape, Numbers
    <3>3. CASE k = s /\ x < s + n
      BY <1>3, <1>6, <3>1, <3>3
    <3>4. CASE k = s /\ ~ (x < s + n)
      BY <1>4, <1>6, <1>11, <3>1, <3>2, <3>4 DEF i
    <3>5. CASE k # s
      BY <1>6, <3>1, <3>5
    <3> QED BY <3>3, <3>4, <3>5
  <2> QED BY <1>7, <2>1 DEF NoHole
<1>15. ASSUME NEW f \in Flag PROVE Covered(c, With(c, f)) = Covered(b, With(b, f))
  BY <1>7, <1>13 DEF Covered, With, EndOf, Byte
<1>16. Counted(c)
  BY <1>7, <1>15 DEF Sound, Counted, BytesOf
<1>17. Sound(c)
  BY <1>8, <1>9, <1>12, <1>14, <1>16 DEF Sound, Shape
<1> QED BY <1>1, <1>3, <1>4, <1>5, <1>6, <1>7, <1>8, <1>15, <1>17 DEF i

\* MergeItems once the marks of the two items agree.
Joined(b, s, t) ==
    [b EXCEPT !.sent = [k \in DOMAIN b.sent \ {t} |->
         IF k = s THEN [b.sent[s] EXCEPT !.len = @ + b.sent[t].len] ELSE b.sent[k]]]

LEMMA JoinedSound ==
    ASSUME NEW b, Sound(b), NEW s \in DOMAIN b.sent, NEW t \in DOMAIN b.sent, t = EndOf(b, s),
           \A f \in Flag : b.sent[s][f] = b.sent[t][f]
    PROVE  LET c == Joined(b, s, t)
           IN  /\ Sound(c) /\ SameNumbers(b, c)
               /\ DOMAIN c.sent = DOMAIN b.sent \ {t} /\ s \in DOMAIN c.sent
               /\ \A k \in DOMAIN b.sent \ {s, t} : c.sent[k] = b.sent[k]
               /\ c.sent[s].len = b.sent[s].len + b.sent[t].len
               /\ \A f \in Flag : /\ c.sent[s][f] = b.sent[s][f]
                                  /\ Covered(c, With(c, f)) = Covered(b, With(b, f))
<1> DEFINE i == b.sent[s]
           l == i.len + b.sent[t].len
           j == [i EXCEPT !.len = l]
           sent == [k \in DOMAIN b.sent \ {t} |-> IF k = s THEN j ELSE b.sent[k]]
           c == [b EXCEPT !.sent = sent]
<1>1. Joined(b, s, t) = c
  BY Zenon DEF Joined
<1>2. /\ i \in Item /\ i.off = s /\ s \in Byte /\ b.first <= s /\ i.len \in Byte
      /\ b.sent[t].len \in Byte /\ t \in Byte /\ t = s + i.len
      /\ t + b.sent[t].len <= b.first + b.sentSize
  BY DEF Sound, Shape, ItemsInPlace, Item, EndOf
<1>3. l \in Byte /\ s \in Int /\ i.len \in Int /\ b.sent[t].len \in Int /\ 1 <= i.len /\ 1 <= b.sent[t].len
  BY <1>2, TxStreamAssumption DEF Byte, Sound, Shape, Numbers
<1>4. /\ j \in Item /\ j.off = s /\ j.len = l
      /\ \A f \in Flag : j[f] = i[f]
  <2> HIDE DEF i, l
  <2> QED BY <1>2, <1>3 DEF Item, Flag
<1>5. s # t
  BY <1>2, <1>3
<1>6. /\ DOMAIN sent = DOMAIN b.sent \ {t} /\ sent[s] = j /\ s \in DOMAIN sent
      /\ \A k \in DOMAIN b.sent \ {s, t} : sent[k] = b.sent[k]
  <2> HIDE DEF j
  <2> QED BY <1>5
<1> HIDE DEF sent, j
<1>7. /\ DOMAIN c = BufferField /\ c.first = b.first /\ c.sentSize = b.sentSize
      /\ c.size = b.size /\ c.app = b.app /\ c.highest = b.highest
      /\ c.sent = sent /\ c.count = b.count
  BY DEF Sound, Shape, Numbers, BufferField
<1> HIDE DEF c
<1>8. SameNumbers(b, c) /\ Numbers(c)
  BY <1>7 DEF SameNumbers, Sound, Shape, Numbers
<1>9. ItemsInPlace(c)
  <2>1. ASSUME NEW k \in DOMAIN b.sent \ {t}
        PROVE  /\ k \in Byte /\ sent[k] \in Item /\ sent[k].off = k
               /\ b.first <= k /\ k + sent[k].len <= b.first + b.sentSize
    <3>1. CASE k = s
      BY <1>2, <1>3, <1>4, <1>6, <3>1 DEF Sound, Shape, Numbers
    <3>2. CASE k # s
      BY <1>6, <3>2 DEF Sound, Shape, ItemsInPlace
    <3> QED BY <3>1, <3>2
  <2> QED BY <1>6, <1>7, <2>1 DEF ItemsInPlace
<1>10. ASSUME NEW k \in DOMAIN b.sent \ {s, t}
       PROVE  /\ k \in Int /\ b.sent[k].len \in Int /\ 1 <= b.sent[k].len
              /\ k < s => k + b.sent[k].len <= s
              /\ s < k => s + l <= k
  <2>1. /\ k \in Int /\ b.sent[k].len \in Int /\ 1 <= b.sent[k].len
        /\ k < s => k + b.sent[k].len <= s
        /\ s < k => s + i.len <= k
        /\ t < k => t + b.sent[t].len <= k
    BY <1>2 DEF Sound, Shape, ItemsApart, ItemsInPlace, Byte, Item
  <2> QED BY <1>2, <1>3, <2>1
<1>11. l \in Int
  BY <1>3
<1>12. ItemsApart(c)
  <2>1. ASSUME NEW m \in DOMAIN b.sent \ {t}, NEW k \in DOMAIN b.sent \ {t}, m < k
        PROVE  m + sent[m].len <= k
    <3>1. CASE m = s
      <4>1. k \in DOMAIN b.sent \ {s, t}
        BY <1>3, <2>1, <3>1
      <4>2. s + l <= k
        BY <1>10, <2>1, <3>1, <4>1
      <4> QED BY <1>4, <1>6, <3>1, <4>2
    <3>2. CASE m # s
      BY <1>6, <2>1, <3>2 DEF Sound, Shape, ItemsApart
    <3> QED BY <3>1, <3>2
  <2> QED BY <1>6, <1>7, <2>1 DEF ItemsApart
<1>13. ASSUME NEW x \in Int, NEW f \in Flag
       PROVE  (\E k \in DOMAIN b.sent : b.sent[k][f] /\ k <= x /\ x < k + b.sent[k].len)
               <=> (\E k \in DOMAIN sent : sent[k][f] /\ k <= x /\ x < k + sent[k].len)
  <2>1. ASSUME NEW k \in DOMAIN b.sent, b.sent[k][f], k <= x, x < k + b.sent[k].len
        PROVE  \E m \in DOMAIN sent : sent[m][f] /\ m <= x /\ x < m + sent[m].len
    <3>1. CASE k \in {s, t}
      <4>1. sent[s][f] /\ s <= x /\ x < s + sent[s].len
        BY <1>2, <1>3, <1>4, <1>6, <2>1, <3>1
      <4> QED BY <1>6, <4>1
    <3>2. CASE k \notin {s, t}
      BY <1>6, <2>1, <3>2
    <3> QED BY <3>1, <3>2
  <2>2. ASSUME NEW k \in DOMAIN sent, sent[k][f], k <= x, x < k + sent[k].len
        PROVE  \E m \in DOMAIN b.sent : b.sent[m][f] /\ m <= x /\ x < m + b.sent[m].len
    <3>1. CASE k = s /\ x < t
      BY <1>2, <1>4, <1>6, <2>2, <3>1
    <3>2. CASE k = s /\ ~ (x < t)
      <4>1. b.sent[t][f] /\ t <= x /\ x < t + b.sent[t].len
        BY <1>2, <1>3, <1>4, <1>6, <2>2, <3>2
      <4> QED BY <4>1
    <3>3. CASE k # s
      BY <1>6, <2>2, <3>3
    <3> QED BY <3>1, <3>2, <3>3
  <2> QED BY <2>1, <2>2
<1>14. NoHole(c)
  <2>1. ASSUME NEW x \in b.first .. (b.first + b.sentSize - 1)
        PROVE  \E k \in DOMAIN sent : k <= x /\ x < k + sent[k].len
    <3>1. PICK k \in DOMAIN b.sent : k <= x /\ x < k + b.sent[k].len
      BY DEF Sound, Shape, NoHole
    <3>2. x \in Int
      BY DEF Sound, Shape, Numbers
    <3>3. CASE k \in {s, t}
      <4>1. s <= x /\ x < s + sent[s].len
        BY <1>2, <1>3, <1>4, <1>6, <3>1, <3>2, <3>3
      <4> QED BY <1>6, <4>1
    <3>4. CASE k \notin {s, t}
      BY <1>6, <3>1, <3>4
    <3> QED BY <3>3, <3>4
  <2> QED BY <1>7, <2>1 DEF NoHole
<1>15. ASSUME NEW f \in Flag PROVE Covered(c, With(c, f)) = Covered(b, With(b, f))
  BY <1>7, <1>13 DEF Covered, With, EndOf, Byte
<1>16. Counted(c)
  BY <1>7, <1>15 DEF Sound, Counted, BytesOf
<1>17. Sound(c)
  BY <1>8, <1>9, <1>12, <1>14, <1>16 DEF Sound, Shape
<1> QED BY <1>1, <1>4, <1>6, <1>7, <1>8, <1>15, <1>17 DEF i

LEMMA MergeItemsSound ==
    ASSUME NEW b, Sound(b), NEW s \in DOMAIN b.sent, EndOf(b, s) \in DOMAIN b.sent,
           ~ b.sent[s].sacked, ~ b.sent[EndOf(b, s)].sacked,
           b.sent[s].lost = b.sent[EndOf(b, s)].lost
    PROVE  LET c == MergeItems(b, s)
               t == EndOf(b, s)
           IN  /\ Sound(c) /\ SameNumbers(b, c)
               /\ DOMAIN c.sent = DOMAIN b.sent \ {t} /\ s \in DOMAIN c.sent
               /\ c.sent[s].len = b.sent[s].len + b.sent[t].len
               /\ With(c, "sacked") = With(b, "sacked")
               /\ With(c, "lost") = With(b, "lost") \ {t}
               /\ \A k \in DOMAIN b.sent \ {s, t} : c.sent[k].len = b.sent[k].len
               /\ Covered(c, With(c, "lost")) = Covered(b, With(b, "lost"))
               /\ Covered(c, With(c, "retrans")) \subseteq Covered(b, With(b, "retrans"))
<1> DEFINE t == EndOf(b, s)
           e == ClearFlags(b, {s, t}, "retrans")
           d == IF b.sent[s].retrans # b.sent[t].retrans THEN e ELSE b
           c == Joined(d, s, t)
<1>0. "sacked" \in Flag /\ "lost" \in Flag /\ "retrans" \in Flag
  BY DEF Flag
<1>1. /\ Sound(e) /\ Reflagged(b, e) /\ e.highest = b.highest
      /\ With(e, "retrans") = With(b, "retrans") \ {s, t}
      /\ With(e, "sacked") = With(b, "sacked") /\ With(e, "lost") = With(b, "lost")
  <2>1. {s, t} \in SUBSET DOMAIN b.sent
    OBVIOUS
  <2> HIDE DEF t
  <2> QED BY <1>0, <2>1, ClearFlagsSound
<1>2. Reflagged(b, b)
  BY DEF Reflagged, Sound, Shape, Numbers, ItemsInPlace
<1>3. /\ Sound(d) /\ Reflagged(b, d) /\ d.highest = b.highest
      /\ With(d, "sacked") = With(b, "sacked") /\ With(d, "lost") = With(b, "lost")
      /\ With(d, "retrans") \subseteq With(b, "retrans")
  <2> HIDE DEF e
  <2> QED BY <1>1, <1>2
<1>4. ASSUME NEW k \in DOMAIN b.sent, NEW f \in Flag
      PROVE  /\ b.sent[k][f] \in BOOLEAN /\ d.sent[k][f] \in BOOLEAN /\ e.sent[k][f] \in BOOLEAN
             /\ (k \in With(b, f)) = b.sent[k][f]
             /\ (k \in With(d, f)) = d.sent[k][f]
             /\ (k \in With(e, f)) = e.sent[k][f]
  <2> HIDE DEF e, d
  <2>1. b.sent[k] \in Item /\ d.sent[k] \in Item /\ e.sent[k] \in Item
    BY <1>1, <1>2, <1>3 DEF Reflagged
  <2>2. b.sent[k][f] \in BOOLEAN /\ d.sent[k][f] \in BOOLEAN /\ e.sent[k][f] \in BOOLEAN
    BY <2>1 DEF Item, Flag
  <2>3. DOMAIN d.sent = DOMAIN b.sent /\ DOMAIN e.sent = DOMAIN b.sent
    BY <1>1, <1>3 DEF Reflagged
  <2> QED BY <2>2, <2>3 DEF With
<1>5. s \in DOMAIN d.sent /\ t \in DOMAIN d.sent /\ t = EndOf(d, s)
  <2> HIDE DEF d
  <2> QED BY <1>3 DEF Reflagged, EndOf
<1>6. d.sent[s].retrans = d.sent[t].retrans
  <2>1. CASE b.sent[s].retrans # b.sent[t].retrans
    <3>1. d = e
      BY <2>1
    <3> HIDE DEF e, d
    <3>2. s \notin With(e, "retrans") /\ t \notin With(e, "retrans")
      BY <1>1
    <3>3. (s \in With(e, "retrans")) = e.sent[s].retrans /\ (t \in With(e, "retrans")) = e.sent[t].retrans
      BY <1>0, <1>4
    <3> QED BY <3>1, <3>2, <3>3
  <2>2. CASE b.sent[s].retrans = b.sent[t].retrans
    BY <2>2
  <2> QED BY <2>1, <2>2
<1>7. \A f \in Flag : d.sent[s][f] = d.sent[t][f]
  <2> HIDE DEF d
  <2>1. d.sent[s].sacked = d.sent[t].sacked
    BY <1>0, <1>3, <1>4
  <2>2. d.sent[s].lost = d.sent[t].lost
    BY <1>0, <1>3, <1>4
  <2> QED BY <1>6, <2>1, <2>2 DEF Flag
<1>8. MergeItems(b, s) = c
  <2>1. DOMAIN d.sent = DOMAIN b.sent
    BY <1>3 DEF Reflagged
  <2>2. MergeItems(b, s) = [d EXCEPT !.sent = [k \in DOMAIN b.sent \ {t} |->
             IF k = s THEN [d.sent[s] EXCEPT !.len = @ + d.sent[t].len] ELSE d.sent[k]]]
    BY Zenon DEF MergeItems
  <2> HIDE DEF d, t
  <2> QED BY <2>1, <2>2, Zenon DEF Joined
<1> HIDE DEF d
<1>9. /\ Sound(c) /\ SameNumbers(d, c)
      /\ DOMAIN c.sent = DOMAIN d.sent \ {t} /\ s \in DOMAIN c.sent
      /\ \A k \in DOMAIN d.sent \ {s, t} : c.sent[k] = d.sent[k]
      /\ c.sent[s].len = d.sent[s].len + d.sent[t].len
      /\ \A f \in Flag : c.sent[s][f] = d.sent[s][f] /\ Covered(c, With(c, f)) = Covered(d, With(d, f))
  <2> HIDE DEF t
  <2> QED BY <1>3, <1>5, <1>7, JoinedSound
<1> HIDE DEF c
<1>10. SameNumbers(b, c)
  BY <1>3, <1>9 DEF SameNumbers, Reflagged
<1>11. DOMAIN d.sent = DOMAIN b.sent
  BY <1>3 DEF Reflagged
<1>12. \A f \in Flag : With(c, f) = With(d, f) \ {t}
  <2> HIDE DEF t
  <2> QED BY <1>9 DEF With
<1>13. t \notin With(b, "sacked")
  BY DEF With
<1>14. With(c, "sacked") = With(b, "sacked") /\ With(c, "lost") = With(b, "lost") \ {t}
  BY <1>0, <1>3, <1>12, <1>13
<1>15. \A k \in DOMAIN b.sent : d.sent[k].len = b.sent[k].len
  BY <1>3 DEF Reflagged
<1>16. /\ c.sent[s].len = b.sent[s].len + b.sent[t].len
       /\ \A k \in DOMAIN b.sent \ {s, t} : c.sent[k].len = b.sent[k].len
  <2> HIDE DEF t
  <2> QED BY <1>9, <1>5, <1>11, <1>15
<1>17. /\ Covered(c, With(c, "lost")) = Covered(b, With(b, "lost"))
       /\ Covered(c, With(c, "retrans")) \subseteq Covered(b, With(b, "retrans"))
  <2>1. \A f \in Flag : With(d, f) \in SUBSET DOMAIN b.sent
    BY <1>11 DEF With
  <2>2. \A f \in Flag : Covered(c, With(c, f)) = Covered(b, With(d, f))
    BY <1>3, <1>9, <2>1, ReflaggedCovered
  <2>3. Covered(b, With(d, "retrans")) \subseteq Covered(b, With(b, "retrans"))
    BY <1>3 DEF Covered
  <2> QED BY <1>0, <1>3, <2>2, <2>3
<1> QED BY <1>8, <1>9, <1>10, <1>11, <1>14, <1>16, <1>17

\* No item is both sacked and lost, and none is longer than a segment.
Exclusive(b) == With(b, "sacked") \cap With(b, "lost") = {}

Short(b) == \A s \in DOMAIN b.sent : b.sent[s].len <= SegmentSize

\* The sacked items of b are those of c.
SameSacks(b, c) ==
    /\ With(c, "sacked") = With(b, "sacked")
    /\ \A k \in With(b, "sacked") : c.sent[k].len = b.sent[k].len

\* c has the lost bytes of b, and no other byte resent than b and the item at seq.
SameLost(b, c) == Covered(c, With(c, "lost")) = Covered(b, With(b, "lost"))

Resent(b, c, seq) ==
    Covered(c, With(c, "retrans")) \subseteq Covered(b, With(b, "retrans")) \cup Covered(c, {seq})

\* The item at s keeps its first n bytes, if it has more.
CutTo(b, s, n) == IF n < b.sent[s].len THEN SplitItem(b, s, n) ELSE b

LEMMA CutToSound ==
    ASSUME NEW b, Sound(b), NEW s \in DOMAIN b.sent, ~ b.sent[s].sacked,
           NEW n \in Nat, 1 <= n, n <= b.sent[s].len
    PROVE  LET c == CutTo(b, s, n)
           IN  /\ Sound(c) /\ SameNumbers(b, c)
               /\ s \in DOMAIN c.sent /\ c.sent[s].len = n /\ ~ c.sent[s].sacked
               /\ SameSacks(b, c)
               /\ \A k \in DOMAIN c.sent : \/ k \in DOMAIN b.sent \ {s} /\ c.sent[k].len = b.sent[k].len
                                           \/ k = s
                                           \/ c.sent[k].len = b.sent[s].len - n
               /\ Exclusive(b) => Exclusive(c)
               /\ n = b.sent[s].len => c = b
               /\ \A f \in Flag : Covered(c, With(c, f)) = Covered(b, With(b, f))
<1> DEFINE c == CutTo(b, s, n)
<1>0. "sacked" \in Flag /\ "lost" \in Flag /\ "retrans" \in Flag /\ b.sent[s].len \in Int
  BY DEF Flag, Sound, Shape, ItemsInPlace, Item, Byte
<1>1. CASE n < b.sent[s].len
  <2>1. c = SplitItem(b, s, n)
    BY <1>1 DEF CutTo
  <2>2. /\ Sound(c) /\ SameNumbers(b, c)
        /\ DOMAIN c.sent = DOMAIN b.sent \cup {s + n} /\ s + n \notin DOMAIN b.sent
        /\ \A k \in DOMAIN b.sent \ {s} : c.sent[k] = b.sent[k]
        /\ c.sent[s].len = n /\ c.sent[s + n].len = b.sent[s].len - n
        /\ \A f \in Flag : /\ c.sent[s][f] = b.sent[s][f]
                           /\ c.sent[s + n][f] = b.sent[s][f]
                           /\ Covered(c, With(c, f)) = Covered(b, With(b, f))
    BY <1>1, <2>1, SplitItemSound
  <2> HIDE DEF c
  <2>3. ~ c.sent[s].sacked /\ ~ c.sent[s + n].sacked
    BY <1>0, <2>2
  <2>4. With(c, "sacked") = With(b, "sacked") /\ s \notin With(b, "sacked")
    BY <2>2, <2>3 DEF With
  <2>5. \A k \in With(b, "sacked") : c.sent[k].len = b.sent[k].len
    BY <2>2, <2>4 DEF With
  <2>6. ASSUME Exclusive(b) PROVE Exclusive(c)
    <3>1. ASSUME NEW k \in With(c, "lost"), k \in With(c, "sacked") PROVE FALSE
      <4>1. k \in With(b, "sacked") /\ k \in DOMAIN b.sent \ {s} /\ c.sent[k] = b.sent[k]
        BY <2>2, <2>4, <3>1 DEF With
      <4>2. k \in With(b, "lost")
        BY <4>1, <3>1 DEF With
      <4> QED BY <2>6, <4>1, <4>2 DEF Exclusive
    <3> QED BY <3>1 DEF Exclusive
  <2> QED BY <1>1, <2>2, <2>3, <2>4, <2>5, <2>6 DEF SameSacks, c
<1>2. CASE n = b.sent[s].len
  <2>1. c = b
    BY <1>0, <1>2 DEF CutTo
  <2>2. SameNumbers(b, b) /\ SameSacks(b, b)
    BY DEF SameNumbers, SameSacks, Sound, Shape, Numbers
  <2> HIDE DEF c
  <2> QED BY <1>2, <2>1, <2>2 DEF c
<1> QED BY <1>0, <1>1, <1>2

\* A retransmission keeps the buffer sound and the SACK marks where they are.
LEMMA GetTransmittedSegmentSound ==
    ASSUME NEW b, Sound(b), NEW seq \in DOMAIN b.sent, ~ b.sent[seq].sacked,
           NEW numBytes \in Nat, 1 <= numBytes
    PROVE  LET c == GetTransmittedSegment(b, numBytes, seq)
           IN  /\ Sound(c) /\ SameNumbers(b, c)
               /\ seq \in DOMAIN c.sent /\ c.sent[seq].retrans /\ ~ c.sent[seq].sacked
               /\ c.sent[seq].len <= numBytes
               /\ SameSacks(b, c)
               /\ Exclusive(b) => Exclusive(c)
               /\ Short(b) /\ numBytes <= SegmentSize => Short(c)
               /\ With(b, "lost") = {seq} /\ b.sent[seq].len <= numBytes
                     => With(c, "lost") = With(b, "lost")
               /\ SameLost(b, c) /\ Resent(b, c, seq)
<1> DEFINE next == EndOf(b, seq)
           mergeable == /\ next \in DOMAIN b.sent
                        /\ ~ b.sent[next].sacked
                        /\ b.sent[next].lost = b.sent[seq].lost
           len == b.sent[seq].len
           more == IF mergeable THEN b.sent[next].len ELSE 0
           n == Min({numBytes, len + more})
           merged == IF n > len THEN MergeItems(b, seq) ELSE b
           cut == CutTo(merged, seq, n)
           c == SetFlags(cut, {seq}, "retrans")
<1>0. "sacked" \in Flag /\ "lost" \in Flag /\ "retrans" \in Flag
  BY DEF Flag
<1>1. GetTransmittedSegment(b, numBytes, seq) = c
  BY Zenon DEF GetTransmittedSegment, ExactItem, CutTo
<1>2. /\ len \in Nat /\ 1 <= len /\ more \in Nat
      /\ mergeable => b.sent[next].len \in Nat /\ 1 <= b.sent[next].len
  BY DEF Sound, Shape, ItemsInPlace, Item, Byte
<1>3. n \in Nat /\ 1 <= n /\ n <= numBytes /\ n <= len + more /\ (n = numBytes \/ n = len + more)
  <2> HIDE DEF len, more
  <2>1. len + more \in Int
    BY <1>2
  <2>2. n = IF numBytes <= len + more THEN numBytes ELSE len + more
    BY <2>1, MinOfTwo
  <2> QED BY <1>2, <2>2
<1>4. SameNumbers(b, b) /\ SameSacks(b, b)
  BY DEF SameNumbers, SameSacks, Sound, Shape, Numbers
<1> HIDE DEF n
<1>5. /\ Sound(merged) /\ SameNumbers(b, merged) /\ SameSacks(b, merged)
      /\ seq \in DOMAIN merged.sent /\ ~ merged.sent[seq].sacked /\ n <= merged.sent[seq].len
      /\ Exclusive(b) => Exclusive(merged)
      /\ n <= len => merged = b
      /\ n > len => /\ mergeable /\ merged.sent[seq].len = len + b.sent[next].len
                    /\ \A k \in DOMAIN merged.sent \ {seq} :
                          k \in DOMAIN b.sent /\ merged.sent[k].len = b.sent[k].len
      /\ Covered(merged, With(merged, "lost")) = Covered(b, With(b, "lost"))
      /\ Covered(merged, With(merged, "retrans")) \subseteq Covered(b, With(b, "retrans"))
  <2>1. CASE n > len
    <3>1. mergeable
      BY <1>2, <1>3, <2>1
    <3> DEFINE d == MergeItems(b, seq)
    <3>2. /\ Sound(d) /\ SameNumbers(b, d)
          /\ DOMAIN d.sent = DOMAIN b.sent \ {next} /\ seq \in DOMAIN d.sent
          /\ d.sent[seq].len = b.sent[seq].len + b.sent[next].len
          /\ With(d, "sacked") = With(b, "sacked")
          /\ With(d, "lost") = With(b, "lost") \ {next}
          /\ \A k \in DOMAIN b.sent \ {seq, next} : d.sent[k].len = b.sent[k].len
          /\ Covered(d, With(d, "lost")) = Covered(b, With(b, "lost"))
          /\ Covered(d, With(d, "retrans")) \subseteq Covered(b, With(b, "retrans"))
      BY <3>1, MergeItemsSound
    <3> HIDE DEF d
    <3>3. seq \notin With(b, "sacked") /\ next \notin With(b, "sacked")
      BY <3>1 DEF With
    <3>4. ~ d.sent[seq].sacked
      BY <3>2, <3>3 DEF With
    <3>5. SameSacks(b, d)
      BY <3>2, <3>3 DEF SameSacks, With
    <3>6. Exclusive(b) => Exclusive(d)
      BY <3>2 DEF Exclusive
    <3>7. merged = d
      BY <2>1 DEF d
    <3>8. n <= d.sent[seq].len /\ ~ (n <= len)
      BY <1>2, <1>3, <2>1, <3>1, <3>2
    <3> HIDE DEF merged, len, next
    <3> QED BY <2>1, <3>1, <3>2, <3>4, <3>5, <3>6, <3>7, <3>8 DEF len
  <2>2. CASE ~ (n > len)
    <3>1. merged = b
      BY <2>2
    <3>2. n <= len
      BY <1>2, <1>3, <2>2
    <3> HIDE DEF merged
    <3> QED BY <1>4, <2>2, <3>1, <3>2
  <2> QED BY <2>1, <2>2
<1> HIDE DEF merged, mergeable
<1>6. /\ Sound(cut) /\ SameNumbers(merged, cut)
      /\ seq \in DOMAIN cut.sent /\ cut.sent[seq].len = n /\ ~ cut.sent[seq].sacked
      /\ SameSacks(merged, cut)
      /\ \A k \in DOMAIN cut.sent :
            \/ k \in DOMAIN merged.sent \ {seq} /\ cut.sent[k].len = merged.sent[k].len
            \/ k = seq
            \/ cut.sent[k].len = merged.sent[seq].len - n
      /\ Exclusive(merged) => Exclusive(cut)
      /\ n = merged.sent[seq].len => cut = merged
      /\ \A f \in Flag : Covered(cut, With(cut, f)) = Covered(merged, With(merged, f))
  BY <1>3, <1>5, CutToSound
<1> HIDE DEF cut
<1>7. /\ Sound(c) /\ Reflagged(cut, c) /\ c.highest = cut.highest
      /\ With(c, "retrans") = With(cut, "retrans") \cup {seq}
      /\ With(c, "sacked") = With(cut, "sacked") /\ With(c, "lost") = With(cut, "lost")
  <2>1. {seq} \in SUBSET DOMAIN cut.sent
    BY <1>6
  <2> QED BY <1>0, <1>6, <2>1, SetFlagsSound
<1> HIDE DEF c
<1>8. SameNumbers(b, c)
  BY <1>5, <1>6, <1>7 DEF SameNumbers, Reflagged
<1>9. \A k \in DOMAIN cut.sent : k \in DOMAIN c.sent /\ c.sent[k].len = cut.sent[k].len
  BY <1>7 DEF Reflagged
<1>10. seq \in DOMAIN c.sent /\ c.sent[seq].retrans /\ ~ c.sent[seq].sacked /\ c.sent[seq].len <= numBytes
  BY <1>3, <1>6, <1>7, <1>9 DEF With
<1>11. SameSacks(b, c)
  <2>1. SameSacks(b, cut)
    BY <1>5, <1>6 DEF SameSacks
  <2>2. \A k \in With(cut, "sacked") : c.sent[k].len = cut.sent[k].len
    BY <1>9 DEF With
  <2> QED BY <1>7, <2>1, <2>2 DEF SameSacks
<1>12. Exclusive(b) => Exclusive(c)
  BY <1>5, <1>6, <1>7 DEF Exclusive
<1>13. ASSUME Short(b), numBytes <= SegmentSize PROVE Short(c)
  <2>1. ASSUME NEW k \in DOMAIN c.sent PROVE c.sent[k].len <= SegmentSize
    <3>1. k \in DOMAIN cut.sent /\ c.sent[k].len = cut.sent[k].len
      BY <1>7 DEF Reflagged
    <3>2. len <= SegmentSize /\ (mergeable => b.sent[next].len <= SegmentSize) /\ SegmentSize \in Nat
      BY <1>13, TxSegmentAssumption DEF Short, mergeable
    <3>3. CASE k = seq
      BY <1>3, <1>6, <1>13, <3>1, <3>2, <3>3
    <3>4. CASE k \in DOMAIN merged.sent \ {seq} /\ cut.sent[k].len = merged.sent[k].len
      <4>1. k \in DOMAIN b.sent /\ merged.sent[k].len = b.sent[k].len
        BY <1>2, <1>3, <1>5, <3>4
      <4> QED BY <1>13, <3>1, <3>4, <4>1 DEF Short
    <3>5. CASE cut.sent[k].len = merged.sent[seq].len - n
      <4>1. CASE n <= len
        <5>1. merged.sent[seq].len = len
          BY <1>5, <4>1
        <5> HIDE DEF len
        <5> QED BY <1>2, <1>3, <3>1, <3>2, <3>5, <4>1, <5>1
      <4>2. CASE n > len
        <5>1. merged.sent[seq].len = len + b.sent[next].len /\ mergeable
          BY <1>5, <4>2
        <5> HIDE DEF len
        <5> QED BY <1>2, <1>3, <3>1, <3>2, <3>5, <4>2, <5>1
      <4> QED BY <1>2, <1>3, <4>1, <4>2
    <3> QED BY <1>6, <3>1, <3>3, <3>4, <3>5
  <2> QED BY <2>1 DEF Short
<1>14. ASSUME With(b, "lost") = {seq}, b.sent[seq].len <= numBytes
       PROVE  With(c, "lost") = With(b, "lost")
  <2>1. ~ mergeable
    <3>1. ASSUME mergeable PROVE FALSE
      <4>1. seq \in With(b, "lost")
        BY <1>14
      <4>2. b.sent[seq].lost /\ next \in DOMAIN b.sent /\ b.sent[next].lost = b.sent[seq].lost
        BY <3>1, <4>1 DEF With, mergeable
      <4>3. next = seq
        BY <1>14, <4>2 DEF With
      <4>4. seq < next /\ next \in Int
        BY NextItem DEF Sound
      <4> QED BY <4>3, <4>4
    <3> QED BY <3>1
  <2>2. more = 0
    BY <2>1
  <2>3. n = len
    <3> HIDE DEF more
    <3> QED BY <1>2, <1>3, <1>14, <2>2
  <2>4. merged = b
    BY <1>2, <1>5, <2>3
  <2>5. cut = merged
    BY <1>6, <2>3, <2>4
  <2> QED BY <1>7, <2>4, <2>5
<1>15. /\ With(cut, "lost") \in SUBSET DOMAIN cut.sent /\ With(c, "retrans") \in SUBSET DOMAIN cut.sent
       /\ {seq} \in SUBSET DOMAIN cut.sent
  BY <1>6, <1>7 DEF With
<1>16. SameLost(b, c)
  BY <1>0, <1>5, <1>6, <1>7, <1>15, ReflaggedCovered DEF SameLost
<1>17. Resent(b, c, seq)
  <2>1. Covered(c, With(c, "retrans")) = Covered(cut, With(cut, "retrans") \cup {seq})
    BY <1>7, <1>15, ReflaggedCovered
  <2>2. Covered(c, {seq}) = Covered(cut, {seq})
    BY <1>7, <1>15, ReflaggedCovered
  <2>3. Covered(cut, With(cut, "retrans") \cup {seq})
          \subseteq Covered(cut, With(cut, "retrans")) \cup Covered(cut, {seq})
    BY DEF Covered
  <2> QED BY <1>0, <1>5, <1>6, <2>1, <2>2, <2>3 DEF Resent
<1> QED BY <1>1, <1>7, <1>8, <1>10, <1>11, <1>12, <1>13, <1>14, <1>16, <1>17

\* A new segment joins the end of the list.
LEMMA GetNewSegmentSound ==
    ASSUME NEW b, Sound(b), NEW n \in Nat, 1 <= n, n <= b.size - b.sentSize
    PROVE  LET c == GetNewSegment(b, n)
               e == SentEnd(b)
           IN  /\ Sound(c)
               /\ c.first = b.first /\ c.size = b.size /\ c.highest = b.highest
               /\ c.sentSize = b.sentSize + n
               /\ DOMAIN c.sent = DOMAIN b.sent \cup {e} /\ e \notin DOMAIN b.sent
               /\ \A k \in DOMAIN b.sent : c.sent[k] = b.sent[k]
               /\ c.sent[e].len = n /\ ~ c.sent[e].sacked
               /\ SameSacks(b, c) /\ With(c, "lost") = With(b, "lost")
               /\ With(c, "retrans") = With(b, "retrans")
<1> DEFINE e == SentEnd(b)
           item == [off |-> b.app, len |-> n, sacked |-> FALSE, lost |-> FALSE, retrans |-> FALSE]
           sent == [k \in DOMAIN b.sent \cup {e} |-> IF k = e THEN item ELSE b.sent[k]]
           m == b.sentSize + n
           a == b.app + n
           c == [b EXCEPT !.sent = sent, !.sentSize = m, !.app = a]
<1>0. /\ e \in Nat /\ e = b.first + b.sentSize /\ b.app = e /\ b.first \in Nat /\ 1 <= b.first
      /\ b.sentSize \in Nat /\ b.size \in Nat /\ b.first + b.size <= StreamLen + 1
  BY DEF Sound, Shape, Numbers, SentEnd
<1>1. GetNewSegment(b, n) = c
  BY Zenon DEF GetNewSegment
<1>2. /\ item \in Item /\ item.off = e /\ item.len = n /\ e \in Byte
      /\ item.sacked = FALSE /\ item.lost = FALSE /\ item.retrans = FALSE
  BY <1>0, TxStreamAssumption DEF Item, Byte
<1>3. ASSUME NEW k \in DOMAIN b.sent
      PROVE  /\ k \in Byte /\ k \in Int /\ b.sent[k] \in Item /\ b.sent[k].off = k
             /\ b.first <= k /\ k + b.sent[k].len <= e /\ b.sent[k].len \in Int /\ 1 <= b.sent[k].len
  BY <1>0 DEF Sound, Shape, ItemsInPlace, Byte, Item
<1>4. e \notin DOMAIN b.sent
  BY <1>0, <1>3
<1>5. /\ DOMAIN sent = DOMAIN b.sent \cup {e} /\ sent[e] = item
      /\ \A k \in DOMAIN b.sent : sent[k] = b.sent[k]
  <2> HIDE DEF item, e
  <2> QED BY <1>4
<1> HIDE DEF sent, item
<1>6. /\ DOMAIN c = BufferField /\ c.first = b.first /\ c.sentSize = m
      /\ c.size = b.size /\ c.app = a /\ c.highest = b.highest
      /\ c.sent = sent /\ c.count = b.count
  BY DEF Sound, Shape, Numbers, BufferField
<1> HIDE DEF c
<1>7. Numbers(c)
  <2>1. m \in Nat /\ m <= b.size /\ a = b.first + m
    BY <1>0
  <2> HIDE DEF m, a
  <2> QED BY <1>6, <2>1 DEF Sound, Shape, Numbers
<1>8. ItemsInPlace(c)
  <2>1. ASSUME NEW k \in DOMAIN b.sent \cup {e}
        PROVE  /\ k \in Byte /\ sent[k] \in Item /\ sent[k].off = k
               /\ b.first <= k /\ k + sent[k].len <= b.first + m
    BY <1>0, <1>2, <1>3, <1>5
  <2> HIDE DEF m, e
  <2> QED BY <1>5, <1>6, <2>1 DEF ItemsInPlace
<1>9. ItemsApart(c)
  <2>1. ASSUME NEW j \in DOMAIN b.sent \cup {e}, NEW k \in DOMAIN b.sent \cup {e}, j < k
        PROVE  j + sent[j].len <= k
    <3>1. CASE j = e
      BY <1>0, <1>3, <2>1, <3>1
    <3>2. CASE j \in DOMAIN b.sent /\ k = e
      BY <1>3, <1>5, <3>2
    <3>3. CASE j \in DOMAIN b.sent /\ k \in DOMAIN b.sent
      BY <1>5, <2>1, <3>3 DEF Sound, Shape, ItemsApart
    <3> QED BY <3>1, <3>2, <3>3
  <2> HIDE DEF e
  <2> QED BY <1>5, <1>6, <2>1 DEF ItemsApart
<1>10. NoHole(c)
  <2>1. ASSUME NEW x \in b.first .. (b.first + m - 1)
        PROVE  \E k \in DOMAIN sent : k <= x /\ x < k + sent[k].len
    <3>1. CASE x < e
      <4>1. x \in b.first .. (b.first + b.sentSize - 1)
        BY <1>0, <3>1
      <4>2. PICK k \in DOMAIN b.sent : k <= x /\ x < k + b.sent[k].len
        BY <4>1 DEF Sound, Shape, NoHole
      <4> QED BY <1>5, <4>2
    <3>2. CASE ~ (x < e)
      <4>1. e <= x /\ x < e + sent[e].len
        BY <1>0, <1>2, <1>5, <3>2
      <4> QED BY <1>5, <4>1
    <3> QED BY <3>1, <3>2
  <2> HIDE DEF m
  <2> QED BY <1>6, <2>1 DEF NoHole
<1>11. \A f \in Flag : sent[e][f] = FALSE
  BY <1>2, <1>5 DEF Flag
<1>12. ASSUME NEW f \in Flag
       PROVE  With(c, f) = With(b, f) /\ Covered(c, With(c, f)) = Covered(b, With(b, f))
  <2> HIDE DEF e
  <2>1. With(c, f) = With(b, f)
    BY <1>4, <1>5, <1>6, <1>11 DEF With
  <2>2. \A k \in With(b, f) : c.sent[k] = b.sent[k]
    BY <1>5, <1>6 DEF With
  <2> QED BY <2>1, <2>2 DEF Covered, EndOf
<1>13. Counted(c)
  BY <1>6, <1>12 DEF Sound, Counted, BytesOf
<1>14. Sound(c)
  BY <1>7, <1>8, <1>9, <1>10, <1>13 DEF Sound, Shape
<1>15. SameSacks(b, c) /\ With(c, "lost") = With(b, "lost") /\ With(c, "retrans") = With(b, "retrans")
  <2> HIDE DEF e
  <2>1. \A k \in With(b, "sacked") : c.sent[k] = b.sent[k]
    BY <1>5, <1>6 DEF With
  <2> QED BY <1>12, <2>1 DEF SameSacks, Flag
<1> HIDE DEF e
<1> QED BY <1>1, <1>2, <1>4, <1>5, <1>6, <1>14, <1>15 DEF e

\* CopyFromSequence of an item that was sent before.
LEMMA CopySentSound ==
    ASSUME NEW b, Sound(b), NEW seq \in DOMAIN b.sent, ~ b.sent[seq].sacked,
           NEW numBytes \in Nat, 1 <= numBytes
    PROVE  LET c == CopyFromSequence(b, numBytes, seq)
           IN  /\ Sound(c) /\ SameNumbers(b, c)
               /\ seq \in DOMAIN c.sent /\ c.sent[seq].retrans /\ ~ c.sent[seq].sacked
               /\ c.sent[seq].len <= numBytes
               /\ SameSacks(b, c)
               /\ Exclusive(b) => Exclusive(c)
               /\ Short(b) /\ numBytes <= SegmentSize => Short(c)
               /\ With(b, "lost") = {seq} /\ b.sent[seq].len <= numBytes
                     => With(c, "lost") = With(b, "lost")
               /\ SameLost(b, c) /\ Resent(b, c, seq)
<1> DEFINE z == SizeFromSequence(b, seq)
           s == Min({numBytes, z})
           r == SentEnd(b) - seq
           n == Min({s, r})
<1>1. /\ seq \in Int /\ b.sent[seq].len \in Int /\ 1 <= b.sent[seq].len
      /\ seq + b.sent[seq].len <= SentEnd(b) /\ SentEnd(b) \in Int
      /\ TailSequence(b) \in Int /\ SentEnd(b) <= TailSequence(b)
  BY DEF Sound, Shape, Numbers, ItemsInPlace, Byte, Item, SentEnd, TailSequence
<1>2. z = TailSequence(b) - seq
  <2>1. TailSequence(b) - seq \in Int /\ 0 <= TailSequence(b) - seq /\ 0 \in Int
    BY <1>1
  <2> QED BY <2>1, MaxOfTwo DEF SizeFromSequence
<1>3. s = IF numBytes <= z THEN numBytes ELSE z
  <2>1. z \in Int
    BY <1>1, <1>2
  <2> HIDE DEF z
  <2> QED BY <2>1, MinOfTwo
<1> HIDE DEF z, s
<1>4. s \in Nat /\ 1 <= s /\ s <= numBytes /\ r \in Nat /\ 1 <= r
  BY <1>1, <1>2, <1>3
<1>5. n = IF s <= r THEN s ELSE r
  <2> HIDE DEF r
  <2> QED BY <1>4, MinOfTwo
<1>6. /\ n \in Nat /\ 1 <= n /\ n <= numBytes
      /\ b.sent[seq].len <= numBytes => b.sent[seq].len <= n
  <2> HIDE DEF n
  <2> QED BY <1>1, <1>2, <1>3, <1>4, <1>5
<1>7. CopyFromSequence(b, numBytes, seq) = GetTransmittedSegment(b, n, seq)
  <2>1. s # 0 /\ seq < SentEnd(b)
    BY <1>1, <1>4
  <2>2. CopyFromSequence(b, numBytes, seq) =
          IF s = 0 THEN b
          ELSE IF seq < SentEnd(b) THEN GetTransmittedSegment(b, n, seq) ELSE GetNewSegment(b, s)
    BY Zenon DEF CopyFromSequence, s, z
  <2> HIDE DEF n
  <2> QED BY <2>1, <2>2
<1> HIDE DEF n
<1> DEFINE c == GetTransmittedSegment(b, n, seq)
<1>8. /\ Sound(c) /\ SameNumbers(b, c)
      /\ seq \in DOMAIN c.sent /\ c.sent[seq].retrans /\ ~ c.sent[seq].sacked
      /\ c.sent[seq].len <= n
      /\ SameSacks(b, c)
      /\ Exclusive(b) => Exclusive(c)
      /\ Short(b) /\ n <= SegmentSize => Short(c)
      /\ With(b, "lost") = {seq} /\ b.sent[seq].len <= n
            => With(c, "lost") = With(b, "lost")
      /\ SameLost(b, c) /\ Resent(b, c, seq)
  BY <1>6, GetTransmittedSegmentSound
<1> HIDE DEF c
<1>9. c.sent[seq].len \in Int /\ SegmentSize \in Int
  BY <1>8, TxSegmentAssumption DEF Sound, Shape, ItemsInPlace, Item, Byte
<1> QED BY <1>6, <1>7, <1>8, <1>9 DEF c

\* CopyFromSequence at the end of what was sent.
LEMMA CopyNewSound ==
    ASSUME NEW b, Sound(b), NEW numBytes \in Nat, 1 <= numBytes
    PROVE  LET c == CopyFromSequence(b, numBytes, SentEnd(b))
               e == SentEnd(b)
           IN  /\ b.size = b.sentSize => c = b
               /\ b.size > b.sentSize =>
                    /\ Sound(c)
                    /\ c.first = b.first /\ c.size = b.size /\ c.highest = b.highest
                    /\ DOMAIN c.sent = DOMAIN b.sent \cup {e} /\ e \notin DOMAIN b.sent
                    /\ \A k \in DOMAIN b.sent : c.sent[k] = b.sent[k]
                    /\ c.sent[e].len <= numBytes /\ ~ c.sent[e].sacked
                    /\ SentEnd(c) = e + c.sent[e].len
                    /\ SameSacks(b, c) /\ With(c, "lost") = With(b, "lost")
                    /\ With(c, "retrans") = With(b, "retrans")
<1> DEFINE e == SentEnd(b)
           z == SizeFromSequence(b, e)
           s == Min({numBytes, z})
<1>1. /\ b.first \in Int /\ b.sentSize \in Nat /\ b.size \in Nat /\ b.sentSize <= b.size
      /\ e = b.first + b.sentSize
  BY DEF Sound, Shape, Numbers, SentEnd
<1>2. z = b.size - b.sentSize
  <2>1. TailSequence(b) - e \in Int /\ 0 <= TailSequence(b) - e /\ 0 \in Int
    BY <1>1 DEF TailSequence
  <2>2. z = TailSequence(b) - e
    BY <2>1, MaxOfTwo DEF SizeFromSequence
  <2> QED BY <1>1, <2>2 DEF TailSequence
<1>3. s = IF numBytes <= z THEN numBytes ELSE z
  <2>1. z \in Int
    BY <1>1, <1>2
  <2> HIDE DEF z
  <2> QED BY <2>1, MinOfTwo
<1> HIDE DEF z, s
<1>4. CopyFromSequence(b, numBytes, e) =
        IF s = 0 THEN b
        ELSE IF e < SentEnd(b) THEN GetTransmittedSegment(b, Min({s, SentEnd(b) - e}), e)
        ELSE GetNewSegment(b, s)
  BY Zenon DEF CopyFromSequence, s, z
<1>5. ~ (e < SentEnd(b))
  BY <1>1 DEF SentEnd
<1> HIDE DEF e
<1>6. CASE b.size = b.sentSize
  <2>1. s = 0
    BY <1>1, <1>2, <1>3, <1>6
  <2> QED BY <1>1, <1>4, <1>6, <2>1 DEF e
<1>7. CASE b.size > b.sentSize
  <2>1. s \in Nat /\ 1 <= s /\ s <= b.size - b.sentSize /\ s <= numBytes
    BY <1>1, <1>2, <1>3, <1>7
  <2> DEFINE c == GetNewSegment(b, s)
  <2>2. CopyFromSequence(b, numBytes, e) = c
    BY <1>4, <1>5, <2>1
  <2>3. /\ Sound(c)
        /\ c.first = b.first /\ c.size = b.size /\ c.highest = b.highest
        /\ c.sentSize = b.sentSize + s
        /\ DOMAIN c.sent = DOMAIN b.sent \cup {e} /\ e \notin DOMAIN b.sent
        /\ \A k \in DOMAIN b.sent : c.sent[k] = b.sent[k]
        /\ c.sent[e].len = s /\ ~ c.sent[e].sacked
        /\ SameSacks(b, c) /\ With(c, "lost") = With(b, "lost")
        /\ With(c, "retrans") = With(b, "retrans")
    BY <2>1, GetNewSegmentSound DEF e
  <2> HIDE DEF c
  <2>4. SentEnd(c) = e + c.sent[e].len
    BY <1>1, <2>1, <2>3 DEF SentEnd
  <2> QED BY <1>1, <1>7, <2>1, <2>2, <2>3, <2>4 DEF e
<1> QED BY <1>1, <1>6, <1>7

(***************************************************************************)
(* What an acknowledgement discards.                                       *)
(***************************************************************************)
\* A byte has one item.
LEMMA OwnerOf ==
    ASSUME NEW b, Shape(b), NEW s \in DOMAIN b.sent, NEW x \in Int, s <= x, x < EndOf(b, s)
    PROVE  (CHOOSE t \in DOMAIN b.sent : t <= x /\ x < EndOf(b, t)) = s
<1>1. ASSUME NEW t \in DOMAIN b.sent, t <= x, x < EndOf(b, t) PROVE t = s
  <2>1. s \in Int /\ t \in Int /\ b.sent[s].len \in Int /\ b.sent[t].len \in Int
    BY DEF Shape, ItemsInPlace, Byte, Item
  <2>2. ~ (s < t) /\ ~ (t < s)
    BY <1>1, <2>1 DEF Shape, ItemsApart, EndOf
  <2> QED BY <2>1, <2>2
<1> QED BY <1>1

\* The item that is left of the one at s when the bytes below k are gone.
RestOf(b, s, k) == [b.sent[s] EXCEPT !.off = @ + (k - s), !.len = @ - (k - s)]

LEMMA RestIsItem ==
    ASSUME NEW b, Shape(b), NEW s \in DOMAIN b.sent, NEW k \in Int, s <= k, k < EndOf(b, s)
    PROVE  /\ RestOf(b, s, k) \in Item /\ RestOf(b, s, k).off = k
           /\ RestOf(b, s, k).len = EndOf(b, s) - k
           /\ \A f \in Flag : RestOf(b, s, k)[f] = b.sent[s][f]
           /\ k = s => RestOf(b, s, k) = b.sent[s]
           /\ k \in Byte
<1> DEFINE i == b.sent[s]
           o == i.off + (k - s)
           l == i.len - (k - s)
<1>1. /\ i \in Item /\ i.off = s /\ s \in Byte /\ s \in Int /\ i.len \in Int
      /\ s + i.len <= b.first + b.sentSize
  BY DEF Shape, ItemsInPlace, Byte, Item
<1>2. b.first + b.sentSize <= StreamLen + 1 /\ StreamLen \in Int /\ b.first \in Int /\ b.sentSize \in Int
  BY TxStreamAssumption DEF Shape, Numbers
<1>3. EndOf(b, s) = s + i.len
  BY DEF EndOf
<1>4. RestOf(b, s, k) = [i EXCEPT !.off = o, !.len = l]
  BY DEF RestOf
<1> HIDE DEF i
<1>5. o = k /\ l = EndOf(b, s) - k /\ o \in Byte /\ l \in Byte
  BY <1>1, <1>2, <1>3 DEF Byte
<1>6. k = s => o = i.off /\ l = i.len
  BY <1>1
<1> HIDE DEF o, l
<1> DEFINE j == [i EXCEPT !.off = o, !.len = l]
<1>7. j \in Item /\ j.off = o /\ j.len = l /\ \A f \in Flag : j[f] = i[f]
  BY <1>1, <1>5 DEF Item, Flag
<1>8. k = s => j = i
  BY <1>1, <1>6 DEF Item
<1> QED BY <1>4, <1>5, <1>7, <1>8 DEF i

LEMMA DiscardedSound ==
    ASSUME NEW b, Sound(b), NEW seq \in Int, b.first < seq, seq <= SentEnd(b)
    PROVE  LET c == Discarded(b, seq)
           IN  /\ Sound(c)
               /\ c.first = seq /\ c.highest = b.highest /\ SentEnd(c) = SentEnd(b)
               /\ \A s \in DOMAIN b.sent : seq < s => s \in DOMAIN c.sent /\ c.sent[s] = b.sent[s]
               /\ \A k \in DOMAIN c.sent :
                     \E s \in DOMAIN b.sent :
                        /\ s <= k /\ k < EndOf(b, s) /\ EndOf(c, k) = EndOf(b, s)
                        /\ k = s \/ k = seq
                        /\ c.sent[k].len <= b.sent[s].len
                        /\ \A f \in Flag : c.sent[k][f] = b.sent[s][f]
               /\ \A f \in Flag : Covered(c, With(c, f)) = {x \in Covered(b, With(b, f)) : seq <= x}
<1> DEFINE old == {t \in DOMAIN b.sent : seq < EndOf(b, t)}
           keys == {Max({s, seq}) : s \in old}
           owner(k) == CHOOSE t \in DOMAIN b.sent : t <= k /\ k < EndOf(b, t)
           rest(k) == LET s == CHOOSE t \in DOMAIN b.sent : t <= k /\ k < EndOf(b, t)
                      IN  [b.sent[s] EXCEPT !.off = @ + (k - s), !.len = @ - (k - s)]
           sent == [k \in keys |-> rest(k)]
           ss == Max({0, SentEnd(b) - seq})
           sz == SizeFromSequence(b, seq)
           ap == Max({b.app, Min({seq, TailSequence(b)})})
           ct == Discounted(b, seq)
           c == [b EXCEPT !.first = seq, !.sent = sent, !.sentSize = ss, !.size = sz,
                          !.app = ap, !.count = ct]
<1>1. Discarded(b, seq) = c
  BY Zenon DEF Discarded
<1>2. /\ b.first \in Int /\ b.sentSize \in Int /\ b.size \in Int /\ b.app \in Int
      /\ 1 <= b.first /\ b.sentSize <= b.size /\ b.app = b.first + b.sentSize
      /\ b.first + b.size <= StreamLen + 1 /\ b.size <= MaxBuffer
      /\ MaxBuffer \in Int /\ StreamLen \in Int
      /\ SentEnd(b) = b.first + b.sentSize /\ TailSequence(b) = b.first + b.size
  BY TxStreamAssumption, TxBufferAssumption DEF Sound, Shape, Numbers, SentEnd, TailSequence
<1>3. ss = b.first + b.sentSize - seq /\ ss \in Nat
  BY <1>2, MaxOfTwo
<1>4. sz = b.first + b.size - seq /\ sz \in Nat
  BY <1>2, MaxOfTwo DEF SizeFromSequence
<1>5. ap = b.app
  <2>1. Min({seq, TailSequence(b)}) = seq
    BY <1>2, MinOfTwo
  <2>2. ap = Max({b.app, seq})
    BY <2>1
  <2>3. Max({b.app, seq}) = IF b.app <= seq THEN seq ELSE b.app
    BY <1>2, MaxOfTwo
  <2> HIDE DEF ap
  <2> QED BY <1>2, <2>2, <2>3
<1>6. ct = [f \in Flag |-> b.count[f] - Cardinality({x \in Covered(b, With(b, f)) : x < seq})]
  BY Zenon DEF Discounted
<1>7. ASSUME NEW f \in Flag
      PROVE  /\ ct[f] \in Int
             /\ ct[f] = Cardinality({x \in Covered(b, With(b, f)) : seq <= x})
  <2> DEFINE C == Covered(b, With(b, f))
             lo == {x \in C : x < seq}
             hi == {x \in C : seq <= x}
  <2>1. C \in SUBSET Byte /\ IsFiniteSet(C) /\ b.count[f] = Cardinality(C)
    BY CoveredFinite DEF Sound, Counted, BytesOf
  <2>2. ct[f] = b.count[f] - Cardinality(lo)
    BY <1>6
  <2> HIDE DEF C
  <2>3. IsFiniteSet(lo) /\ IsFiniteSet(hi)
    BY <2>1, FS_Subset
  <2>4. lo \cap hi = {} /\ C = lo \cup hi
    <3>1. \A x \in C : x \in Int
      BY <2>1, TxStreamAssumption DEF Byte
    <3>2. \A x \in C : ~ (x < seq /\ seq <= x) /\ (x < seq \/ seq <= x)
      BY <3>1
    <3> QED BY <3>2, Zenon
  <2> HIDE DEF lo, hi
  <2>5. Cardinality(C) = Cardinality(lo) + Cardinality(hi)
    BY <2>3, <2>4, DisjointUnion
  <2>6. Cardinality(lo) \in Nat /\ Cardinality(hi) \in Nat
    BY <2>3, FS_CardinalityType
  <2> QED BY <2>1, <2>2, <2>5, <2>6 DEF hi, C
<1>8. ct \in [Flag -> Int]
  <2>1. ct = [f \in Flag |-> ct[f]]
    BY <1>6
  <2> HIDE DEF ct
  <2> QED BY <1>7, <2>1
<1> HIDE DEF ct
\* The items that stay, and those they come from.
<1>9. ASSUME NEW s \in DOMAIN b.sent
      PROVE  /\ s \in Int /\ b.sent[s].len \in Int /\ s < EndOf(b, s) /\ EndOf(b, s) = s + b.sent[s].len
             /\ EndOf(b, s) <= b.first + b.sentSize /\ b.first <= s
  <2>1. s \in Int /\ b.sent[s].len \in Int /\ 1 <= b.sent[s].len
    BY DEF Sound, Shape, ItemsInPlace, Byte, Item
  <2> QED BY <2>1 DEF Sound, Shape, ItemsInPlace, EndOf
<1>26. ASSUME NEW s \in DOMAIN b.sent PROVE Max({s, seq}) = IF s <= seq THEN seq ELSE s
  BY <1>9, MaxOfTwo
<1>10. ASSUME NEW k \in keys
       PROVE  \E s \in old : s <= k /\ k < EndOf(b, s) /\ (k = s \/ k = seq) /\ seq <= k /\ k \in Int
                             /\ sent[k] = RestOf(b, s, k)
  <2>1. PICK s \in old : k = Max({s, seq})
    OBVIOUS
  <2>2. s <= k /\ k < EndOf(b, s) /\ (k = s \/ k = seq) /\ seq <= k /\ k \in Int
    <3>1. s \in DOMAIN b.sent /\ seq < EndOf(b, s)
      BY DEF old
    <3>2. s \in Int /\ s < EndOf(b, s) /\ EndOf(b, s) \in Int
      BY <1>9, <3>1
    <3>3. k = IF s <= seq THEN seq ELSE s
      BY <1>26, <2>1, <3>1
    <3> HIDE DEF old
    <3> QED BY <3>1, <3>2, <3>3
  <2>3. owner(k) = s
    BY <2>2, OwnerOf DEF Sound
  <2>4. rest(k) = RestOf(b, owner(k), k)
    BY Zenon DEF RestOf
  <2>5. sent[k] = rest(k)
    OBVIOUS
  <2> HIDE DEF rest, owner, sent
  <2> QED BY <2>2, <2>3, <2>4, <2>5
<1>11. DOMAIN sent = keys
  OBVIOUS
<1>12. ASSUME NEW s \in DOMAIN b.sent, seq < EndOf(b, s)
       PROVE  (IF s <= seq THEN seq ELSE s) \in keys
  BY <1>9, <1>12, <1>26
<1> HIDE DEF keys, sent, ss, sz, ap, old
<1>13. /\ DOMAIN c = BufferField /\ c.first = seq /\ c.sentSize = ss /\ c.size = sz
       /\ c.app = ap /\ c.sent = sent /\ c.count = ct /\ c.highest = b.highest
  BY DEF Sound, Shape, Numbers, BufferField
<1> HIDE DEF c
<1>14. SentEnd(c) = SentEnd(b)
  BY <1>2, <1>3, <1>13 DEF SentEnd
<1>15. Numbers(c)
  BY <1>2, <1>3, <1>4, <1>5, <1>8, <1>13 DEF Numbers, Sound, Shape
<1>16. ASSUME NEW k \in DOMAIN c.sent
       PROVE  \E s \in DOMAIN b.sent :
                /\ s \in old
                /\ s <= k /\ k < EndOf(b, s) /\ k \in Int /\ seq <= k
                /\ k = s \/ k = seq
                /\ c.sent[k] \in Item /\ c.sent[k].off = k /\ k \in Byte
                /\ c.sent[k].len = EndOf(b, s) - k
                /\ \A f \in Flag : c.sent[k][f] = b.sent[s][f]
                /\ k = s => c.sent[k] = b.sent[s]
  <2>1. PICK s \in old : s <= k /\ k < EndOf(b, s) /\ (k = s \/ k = seq) /\ seq <= k /\ k \in Int
                         /\ sent[k] = RestOf(b, s, k)
    BY <1>10, <1>11, <1>13
  <2>2. s \in DOMAIN b.sent
    BY DEF old
  <2>3. /\ RestOf(b, s, k) \in Item /\ RestOf(b, s, k).off = k
        /\ RestOf(b, s, k).len = EndOf(b, s) - k
        /\ \A f \in Flag : RestOf(b, s, k)[f] = b.sent[s][f]
        /\ k = s => RestOf(b, s, k) = b.sent[s]
        /\ k \in Byte
    BY <2>1, <2>2, RestIsItem DEF Sound
  <2> QED BY <1>13, <2>1, <2>2, <2>3
<1>17. ItemsInPlace(c)
  <2> SUFFICES ASSUME NEW k \in DOMAIN c.sent
               PROVE  /\ k \in Byte /\ c.sent[k] \in Item /\ c.sent[k].off = k
                      /\ c.first <= k /\ k + c.sent[k].len <= c.first + c.sentSize
    BY DEF ItemsInPlace
  <2>1. PICK s \in DOMAIN b.sent :
                /\ k \in Int /\ seq <= k
                /\ c.sent[k] \in Item /\ c.sent[k].off = k /\ k \in Byte
                /\ c.sent[k].len = EndOf(b, s) - k
    BY <1>16
  <2>2. k + c.sent[k].len = EndOf(b, s) /\ EndOf(b, s) <= c.first + c.sentSize
    BY <1>2, <1>3, <1>9, <1>13, <2>1
  <2> QED BY <1>13, <2>1, <2>2
<1>18. ItemsApart(c)
  <2> SUFFICES ASSUME NEW k \in DOMAIN c.sent, NEW l \in DOMAIN c.sent, k < l
               PROVE  k + c.sent[k].len <= l
    BY DEF ItemsApart
  <2>1. PICK s \in DOMAIN b.sent :
                /\ s <= k /\ k < EndOf(b, s) /\ k \in Int /\ seq <= k
                /\ k = s \/ k = seq
                /\ c.sent[k].len = EndOf(b, s) - k
    BY <1>16
  <2>2. PICK t \in DOMAIN b.sent :
                /\ t <= l /\ l < EndOf(b, t) /\ l \in Int /\ seq <= l
                /\ l = t \/ l = seq
    BY <1>16
  <2>3. s \in Int /\ t \in Int /\ b.sent[s].len \in Int /\ EndOf(b, s) = s + b.sent[s].len
    BY <1>9
  <2>4. l = t /\ s < t
    BY <2>1, <2>2, <2>3
  <2>5. EndOf(b, s) <= t
    BY <2>3, <2>4 DEF Sound, Shape, ItemsApart
  <2> QED BY <2>1, <2>3, <2>4, <2>5
<1>19. ASSUME NEW s \in DOMAIN b.sent, NEW x \in Int, s <= x, x < EndOf(b, s), seq <= x
       PROVE  \E k \in DOMAIN c.sent : /\ k <= x /\ x < EndOf(c, k)
                                       /\ \A f \in Flag : c.sent[k][f] = b.sent[s][f]
  <2> DEFINE k == IF s <= seq THEN seq ELSE s
  <2>1. s \in Int /\ EndOf(b, s) \in Int /\ seq < EndOf(b, s)
    BY <1>9, <1>19
  <2>2. k \in DOMAIN c.sent /\ k \in Int /\ s <= k /\ k <= x
    BY <1>11, <1>12, <1>13, <1>19, <2>1
  <2> HIDE DEF k
  <2>3. PICK t \in DOMAIN b.sent :
                /\ t <= k /\ k < EndOf(b, t) /\ k \in Int
                /\ c.sent[k].len = EndOf(b, t) - k
                /\ \A f \in Flag : c.sent[k][f] = b.sent[t][f]
    BY <1>16, <2>2
  <2>4. k < EndOf(b, s)
    BY <1>19, <2>1, <2>2
  <2>5. t = s
    <3>1. (CHOOSE u \in DOMAIN b.sent : u <= k /\ k < EndOf(b, u)) = s
      BY <2>2, <2>4, OwnerOf DEF Sound
    <3>2. (CHOOSE u \in DOMAIN b.sent : u <= k /\ k < EndOf(b, u)) = t
      BY <2>3, OwnerOf DEF Sound
    <3> QED BY <3>1, <3>2
  <2>6. EndOf(c, k) = EndOf(b, s)
    BY <2>1, <2>2, <2>3, <2>5 DEF EndOf
  <2> QED BY <1>19, <2>2, <2>3, <2>5, <2>6
<1>20. NoHole(c)
  <2> SUFFICES ASSUME NEW x \in c.first .. (c.first + c.sentSize - 1)
               PROVE  \E k \in DOMAIN c.sent : k <= x /\ x < k + c.sent[k].len
    BY DEF NoHole
  <2>1. x \in b.first .. (b.first + b.sentSize - 1) /\ seq <= x /\ x \in Int
    BY <1>2, <1>3, <1>13
  <2>2. PICK s \in DOMAIN b.sent : s <= x /\ x < s + b.sent[s].len
    BY <2>1 DEF Sound, Shape, NoHole
  <2>3. x < EndOf(b, s)
    BY <2>2 DEF EndOf
  <2> QED BY <1>19, <2>1, <2>2, <2>3 DEF EndOf
<1>21. ASSUME NEW f \in Flag
       PROVE  Covered(c, With(c, f)) = {x \in Covered(b, With(b, f)) : seq <= x}
  <2>1. ASSUME NEW x \in Covered(c, With(c, f)) PROVE x \in Covered(b, With(b, f)) /\ seq <= x
    <3>1. x \in Byte /\ x \in Int
      BY <2>1 DEF Covered, Byte
    <3>2. PICK k \in DOMAIN c.sent : c.sent[k][f] /\ k <= x /\ x < EndOf(c, k)
      BY <2>1 DEF Covered, With
    <3>3. PICK s \in DOMAIN b.sent :
                /\ s <= k /\ k \in Int /\ seq <= k
                /\ c.sent[k].len = EndOf(b, s) - k
                /\ c.sent[k][f] = b.sent[s][f]
      BY <1>16
    <3>4. EndOf(c, k) = EndOf(b, s) /\ s \in Int
      BY <1>9, <3>3 DEF EndOf
    <3>5. s <= x /\ x < EndOf(b, s) /\ seq <= x
      BY <3>1, <3>2, <3>3, <3>4
    <3> QED BY <3>1, <3>2, <3>3, <3>5 DEF Covered, With
  <2>2. ASSUME NEW x \in Covered(b, With(b, f)), seq <= x PROVE x \in Covered(c, With(c, f))
    <3>1. x \in Byte /\ x \in Int
      BY <2>2 DEF Covered, Byte
    <3>2. PICK s \in DOMAIN b.sent : b.sent[s][f] /\ s <= x /\ x < EndOf(b, s)
      BY <2>2 DEF Covered, With
    <3>3. PICK k \in DOMAIN c.sent : /\ k <= x /\ x < EndOf(c, k)
                                     /\ c.sent[k][f] = b.sent[s][f]
      BY <1>19, <2>2, <3>1, <3>2
    <3> QED BY <3>1, <3>2, <3>3 DEF Covered, With
  <2> QED BY <2>1, <2>2
<1>22. Counted(c)
  BY <1>7, <1>13, <1>21 DEF Counted, BytesOf
<1>23. Sound(c)
  BY <1>15, <1>17, <1>18, <1>20, <1>22 DEF Sound, Shape
<1>24. \A s \in DOMAIN b.sent : seq < s => s \in DOMAIN c.sent /\ c.sent[s] = b.sent[s]
  <2> SUFFICES ASSUME NEW s \in DOMAIN b.sent, seq < s
               PROVE  s \in DOMAIN c.sent /\ c.sent[s] = b.sent[s]
    OBVIOUS
  <2>1. s \in Int /\ EndOf(b, s) \in Int /\ seq < EndOf(b, s) /\ ~ (s <= seq)
    BY <1>9
  <2>2. s \in DOMAIN c.sent
    BY <1>11, <1>12, <1>13, <2>1
  <2>3. PICK t \in DOMAIN b.sent : (s = t \/ s = seq) /\ (s = t => c.sent[s] = b.sent[t])
    BY <1>16, <2>2
  <2> QED BY <2>1, <2>2, <2>3
<1>25. ASSUME NEW k \in DOMAIN c.sent
       PROVE  \E s \in DOMAIN b.sent :
                        /\ s <= k /\ k < EndOf(b, s) /\ EndOf(c, k) = EndOf(b, s)
                        /\ k = s \/ k = seq
                        /\ c.sent[k].len <= b.sent[s].len
                        /\ \A f \in Flag : c.sent[k][f] = b.sent[s][f]
  <2>1. PICK s \in DOMAIN b.sent :
                /\ s <= k /\ k < EndOf(b, s) /\ k \in Int
                /\ k = s \/ k = seq
                /\ c.sent[k].len = EndOf(b, s) - k
                /\ \A f \in Flag : c.sent[k][f] = b.sent[s][f]
    BY <1>16
  <2>2. EndOf(c, k) = EndOf(b, s) /\ c.sent[k].len <= b.sent[s].len
    BY <1>9, <2>1 DEF EndOf
  <2> QED BY <2>1, <2>2
<1> QED BY <1>1, <1>13, <1>14, <1>21, <1>23, <1>24, <1>25

\* m_highestSack is end() or a sacked item behind the head.
Live(b) == b.highest # 0 => b.highest \in With(b, "sacked") /\ b.first < b.highest

LEMMA SetHighestSound ==
    ASSUME NEW b, Sound(b), NEW h \in Nat
    PROVE  LET c == [b EXCEPT !.highest = h]
           IN  /\ Sound(c) /\ Reflagged(b, c) /\ c.highest = h
               /\ c.sent = b.sent /\ c.count = b.count
               /\ \A f : With(c, f) = With(b, f)
               /\ \A S : Covered(c, S) = Covered(b, S)
<1> DEFINE c == [b EXCEPT !.highest = h]
<1>1. /\ DOMAIN c = BufferField /\ c.first = b.first /\ c.sentSize = b.sentSize
      /\ c.size = b.size /\ c.app = b.app /\ c.highest = h
      /\ c.sent = b.sent /\ c.count = b.count
  BY DEF Sound, Shape, Numbers, BufferField
<1> HIDE DEF c
<1>2. Reflagged(b, c)
  BY <1>1 DEF Reflagged, Sound, Shape, Numbers, ItemsInPlace
<1>3. Shape(c)
  BY <1>2, ReflaggedShape DEF Sound
<1>4. \A f : With(c, f) = With(b, f)
  BY <1>1 DEF With
<1>5. \A S : Covered(c, S) = Covered(b, S)
  BY <1>1 DEF Covered, EndOf
<1>6. Counted(c)
  BY <1>1, <1>4, <1>5 DEF Counted, BytesOf, Sound
<1> QED BY <1>1, <1>2, <1>3, <1>4, <1>5, <1>6 DEF Sound, c

\* A guessed mark on the head, when no other item is lost: the head is lost
\* instead, and the guess moves on.
LEMMA UnsackHeadSound ==
    ASSUME NEW b, Sound(b), b.first \in With(b, "sacked"), With(b, "lost") = {}
    PROVE  LET c == UnsackHead(b)
           IN  /\ Sound(c) /\ Reflagged(b, c)
               /\ With(c, "lost") = {b.first}
               /\ b.first \notin With(c, "sacked")
               /\ \A k \in With(b, "sacked") : k # b.first => k \in With(c, "sacked")
               /\ c.highest = b.highest \/ (c.highest \in With(c, "sacked") /\ b.first < c.highest)
<1>1. b.first \in DOMAIN b.sent /\ HeadItem(b) = b.first /\ b.sent[b.first].sacked
  <2>1. b.first \in DOMAIN b.sent /\ b.sent[b.first].sacked
    BY DEF With
  <2> QED BY <2>1, HeadIsFirst DEF Sound
<1> DEFINE S == {b.first}
           d == ClearFlags(b, S, "sacked")
           e == AddRenoSack(d)
           c == MarkHeadAsLost(e)
<1>2. UnsackHead(b) = c
  BY <1>1 DEF UnsackHead
<1>3. S \in SUBSET DOMAIN b.sent /\ "sacked" \in Flag /\ "lost" \in Flag /\ "lost" # "sacked"
  BY <1>1 DEF Flag
<1>4. /\ Sound(d) /\ Reflagged(b, d) /\ d.highest = b.highest
      /\ With(d, "sacked") = With(b, "sacked") \ S
      /\ With(d, "lost") = With(b, "lost")
  <2> HIDE DEF S
  <2> QED BY <1>3, ClearFlagsSound
<1> HIDE DEF d
<1>5. /\ Sound(e) /\ Reflagged(d, e)
      /\ With(e, "lost") = With(d, "lost")
      /\ \/ With(e, "sacked") = With(d, "sacked") /\ e.highest = d.highest
         \/ /\ e.highest \in DOMAIN d.sent \ {d.first}
            /\ With(e, "sacked") = With(d, "sacked") \cup {e.highest}
  BY <1>4, AddRenoSackSound
<1> HIDE DEF e
<1>6. /\ Sound(c) /\ Reflagged(e, c) /\ c.highest = e.highest
      /\ With(c, "lost") = With(e, "lost") \cup (DOMAIN e.sent \cap {e.first})
      /\ With(c, "sacked") = With(e, "sacked") \ {e.first}
  BY <1>5, MarkHeadAsLostSound
<1> HIDE DEF c
<1>7. d.first = b.first /\ e.first = b.first /\ DOMAIN d.sent = DOMAIN b.sent
      /\ DOMAIN e.sent = DOMAIN b.sent
  BY <1>4, <1>5 DEF Reflagged
<1>8. Reflagged(b, c)
  BY <1>4, <1>5, <1>6, ReflaggedTwice
<1>9. With(c, "lost") = {b.first}
  BY <1>1, <1>4, <1>5, <1>6, <1>7
<1>10. b.first \notin With(c, "sacked")
  BY <1>6, <1>7
<1>11. \A k \in With(b, "sacked") : k # b.first => k \in With(c, "sacked")
  BY <1>4, <1>5, <1>6, <1>7
<1>12. c.highest = b.highest \/ (c.highest \in With(c, "sacked") /\ b.first < c.highest)
  <2>1. CASE e.highest \in DOMAIN d.sent \ {d.first} /\ With(e, "sacked") = With(d, "sacked") \cup {e.highest}
    <3>1. e.highest \in DOMAIN b.sent /\ e.highest # b.first
      BY <1>7, <2>1
    <3>2. b.first < e.highest
      BY <3>1 DEF Sound, Shape, ItemsInPlace, Numbers, Byte
    <3> QED BY <1>6, <1>7, <2>1, <3>1, <3>2
  <2> QED BY <1>4, <1>5, <1>6, <2>1
<1> QED BY <1>2, <1>6, <1>8, <1>9, <1>10, <1>11, <1>12

\* An ACK up to seq: its byte is not sacked, or no item but the head is lost.
LEMMA DiscardUpToSound ==
    ASSUME NEW b, Sound(b), Exclusive(b), Short(b), Live(b), b.first \notin With(b, "sacked"),
           NEW seq \in Int, b.first <= seq, seq <= SentEnd(b),
           \/ seq \notin Covered(b, With(b, "sacked"))
           \/ With(b, "lost") \subseteq {b.first}
    PROVE  LET c == DiscardUpTo(b, seq)
           IN  /\ Sound(c) /\ Exclusive(c) /\ Short(c) /\ Live(c) /\ c.first \notin With(c, "sacked")
               /\ c.first = seq /\ SentEnd(c) = SentEnd(b)
               /\ seq \notin Covered(b, With(b, "sacked"))
                     => Covered(c, With(c, "sacked")) \subseteq Covered(b, With(b, "sacked"))
               /\ With(b, "lost") \subseteq {b.first} => With(c, "lost") \subseteq {seq}
               /\ With(b, "sacked") = {} =>
                     /\ With(c, "sacked") = {}
                     /\ \A k \in With(c, "lost") : \E s \in With(b, "lost") : EndOf(c, k) = EndOf(b, s)
<1>1. CASE seq <= b.first
  <2>1. DiscardUpTo(b, seq) = b
    BY <1>1 DEF DiscardUpTo
  <2>2. seq = b.first
    BY <1>1 DEF Sound, Shape, Numbers
  <2> QED BY <2>1, <2>2
<1>2. CASE ~ (seq <= b.first)
  <2> DEFINE d == Discarded(b, seq)
             e == UnsackHead(d)
             h == IF e.highest <= e.first THEN 0 ELSE e.highest
             c == [e EXCEPT !.highest = h]
  <2>1. DiscardUpTo(b, seq) = c
    BY <1>2, Zenon DEF DiscardUpTo
  <2>2. b.first < seq
    BY <1>2 DEF Sound, Shape, Numbers
  <2>3. /\ Sound(d)
        /\ d.first = seq /\ d.highest = b.highest /\ SentEnd(d) = SentEnd(b)
        /\ \A s \in DOMAIN b.sent : seq < s => s \in DOMAIN d.sent /\ d.sent[s] = b.sent[s]
        /\ \A k \in DOMAIN d.sent :
             \E s \in DOMAIN b.sent :
                /\ s <= k /\ k < EndOf(b, s) /\ EndOf(d, k) = EndOf(b, s)
                /\ k = s \/ k = seq
                /\ d.sent[k].len <= b.sent[s].len
                /\ \A f \in Flag : d.sent[k][f] = b.sent[s][f]
        /\ \A f \in Flag : Covered(d, With(d, f)) = {x \in Covered(b, With(b, f)) : seq <= x}
    BY <2>2, DiscardedSound
  <2> HIDE DEF d
  <2>4. "sacked" \in Flag /\ "lost" \in Flag
    BY DEF Flag
  <2>5. Exclusive(d)
    BY <2>3, <2>4 DEF Exclusive, With
  <2>6. Short(d)
    <3> SUFFICES ASSUME NEW k \in DOMAIN d.sent PROVE d.sent[k].len <= SegmentSize
      BY DEF Short
    <3>1. PICK s \in DOMAIN b.sent : d.sent[k].len <= b.sent[s].len
      BY <2>3
    <3>2. b.sent[s].len <= SegmentSize /\ b.sent[s].len \in Int /\ d.sent[k].len \in Int
      BY <2>3 DEF Short, Sound, Shape, ItemsInPlace, Item, Byte
    <3> QED BY <3>1, <3>2, TxSegmentAssumption
  <2>7. ASSUME With(b, "lost") \subseteq {b.first} PROVE With(d, "lost") \subseteq {seq}
    <3> SUFFICES ASSUME NEW k \in With(d, "lost"), k # seq PROVE FALSE
      OBVIOUS
    <3>1. k \in DOMAIN d.sent /\ d.sent[k].lost
      BY DEF With
    <3>2. PICK s \in DOMAIN b.sent : k = s /\ d.sent[k].lost = b.sent[s].lost
      BY <2>3, <2>4, <3>1
    <3>3. k = b.first
      BY <2>7, <3>1, <3>2 DEF With
    <3>4. seq <= k /\ k \in Int
      BY <2>3, <3>1 DEF Sound, Shape, ItemsInPlace, Byte
    <3> QED BY <2>2, <3>3, <3>4 DEF Sound, Shape, Numbers
  <2>8. ASSUME b.highest # 0, seq < b.highest PROVE b.highest \in With(d, "sacked")
    <3>1. b.highest \in DOMAIN b.sent /\ b.sent[b.highest].sacked
      BY <2>8 DEF Live, With
    <3> QED BY <2>3, <2>8, <3>1 DEF With
  \* The head after the cut is sacked only where marks are guessed.
  <2>9. ASSUME seq \notin Covered(b, With(b, "sacked")) PROVE seq \notin With(d, "sacked")
    <3> SUFFICES ASSUME seq \in With(d, "sacked") PROVE FALSE
      OBVIOUS
    <3>1. seq \in DOMAIN d.sent /\ d.sent[seq].sacked
      BY DEF With
    <3>2. PICK s \in DOMAIN b.sent : s <= seq /\ seq < EndOf(b, s) /\ d.sent[seq].sacked = b.sent[s].sacked
      BY <2>3, <2>4, <3>1
    <3>3. seq \in Byte
      BY <2>3, <3>1 DEF Sound, Shape, ItemsInPlace
    <3> QED BY <2>9, <3>1, <3>2, <3>3 DEF Covered, With
  <2>10. CASE seq \in With(d, "sacked")
    <3>1. With(d, "lost") = {}
      BY <2>5, <2>7, <2>9, <2>10 DEF Exclusive
    <3>2. /\ Sound(e) /\ Reflagged(d, e)
          /\ With(e, "lost") = {d.first}
          /\ d.first \notin With(e, "sacked")
          /\ \A k \in With(d, "sacked") : k # d.first => k \in With(e, "sacked")
          /\ e.highest = d.highest \/ (e.highest \in With(e, "sacked") /\ d.first < e.highest)
      BY <2>3, <2>10, <3>1, UnsackHeadSound
    <3> HIDE DEF e
    <3>3. e.highest \in Nat /\ e.first = seq /\ h \in Nat /\ SentEnd(e) = SentEnd(d)
          /\ DOMAIN e.sent = DOMAIN d.sent
      BY <2>3, <3>2 DEF Sound, Shape, Numbers, Reflagged, SentEnd
    <3> HIDE DEF h
    <3>4. /\ Sound(c) /\ Reflagged(e, c) /\ c.highest = h
          /\ c.sent = e.sent
          /\ \A f : With(c, f) = With(e, f)
      BY <3>2, <3>3, SetHighestSound
    <3> HIDE DEF c
    <3>5. c.first = seq /\ SentEnd(c) = SentEnd(b)
      BY <2>3, <3>3, <3>4 DEF Reflagged, SentEnd
    <3>6. Exclusive(c)
      BY <2>3, <3>2, <3>4 DEF Exclusive
    <3>7. Short(c)
      BY <2>6, <3>2, <3>4 DEF Short, Reflagged
    <3>8. Live(c)
      <4> SUFFICES ASSUME h # 0 PROVE h \in With(c, "sacked") /\ seq < h
        BY <3>4, <3>5 DEF Live
      <4>1. h = e.highest /\ seq < h
        BY <3>3 DEF h
      <4>2. CASE e.highest = d.highest
        BY <2>3, <2>8, <3>2, <3>4, <4>1, <4>2
      <4> QED BY <3>2, <3>4, <4>1, <4>2
    <3>9. c.first \notin With(c, "sacked") /\ With(c, "lost") \subseteq {seq}
      BY <2>3, <3>2, <3>4, <3>5
    <3>10. With(b, "sacked") # {} /\ ~ (seq \notin Covered(b, With(b, "sacked")))
      BY <2>9, <2>10 DEF Covered
    <3> QED BY <2>1, <3>4, <3>5, <3>6, <3>7, <3>8, <3>9, <3>10
  <2>11. CASE seq \notin With(d, "sacked")
    <3>1. e = d
      <4>1. DOMAIN d.sent # {} => HeadItem(d) = seq /\ seq \in DOMAIN d.sent
        BY <2>3, HeadIsFirst DEF Sound
      <4>2. ~ (DOMAIN d.sent # {} /\ d.sent[HeadItem(d)].sacked)
        BY <2>11, <4>1 DEF With
      <4> QED BY <4>2 DEF UnsackHead
    <3> HIDE DEF e
    <3>2. d.highest \in Nat /\ h \in Nat /\ h = IF d.highest <= seq THEN 0 ELSE d.highest
      BY <2>3, <3>1 DEF Sound, Shape, Numbers
    <3> HIDE DEF h
    <3>3. /\ Sound(c) /\ Reflagged(d, c) /\ c.highest = h
          /\ c.sent = d.sent
          /\ \A f : With(c, f) = With(d, f)
          /\ \A S : Covered(c, S) = Covered(d, S)
      BY <2>3, <3>1, <3>2, SetHighestSound
    <3> HIDE DEF c
    <3>4. c.first = seq /\ SentEnd(c) = SentEnd(b)
      BY <2>3, <3>3 DEF Reflagged, SentEnd
    <3>5. Exclusive(c)
      BY <2>5, <3>3 DEF Exclusive
    <3>6. Short(c)
      BY <2>6, <3>3 DEF Short
    <3>7. Live(c)
      <4> SUFFICES ASSUME h # 0 PROVE h \in With(c, "sacked") /\ seq < h
        BY <3>3, <3>4 DEF Live
      <4>1. h = d.highest /\ seq < h
        BY <3>2
      <4> QED BY <2>3, <2>8, <3>3, <4>1
    <3>8. c.first \notin With(c, "sacked")
      BY <2>11, <3>3, <3>4
    <3>9. Covered(c, With(c, "sacked")) \subseteq Covered(b, With(b, "sacked"))
      BY <2>3, <2>4, <3>3
    <3>10. With(b, "lost") \subseteq {b.first} => With(c, "lost") \subseteq {seq}
      BY <2>7, <3>3
    <3>11. ASSUME With(b, "sacked") = {} PROVE With(c, "sacked") = {}
      <4> SUFFICES ASSUME NEW k \in With(d, "sacked") PROVE FALSE
        BY <3>3
      <4>1. k \in DOMAIN d.sent /\ d.sent[k].sacked
        BY DEF With
      <4>2. \E s \in DOMAIN b.sent : b.sent[s].sacked
        BY <2>3, <2>4, <4>1
      <4> QED BY <3>11, <4>2 DEF With
    <3>12. ASSUME NEW k \in With(c, "lost")
           PROVE  \E s \in With(b, "lost") : EndOf(c, k) = EndOf(b, s)
      <4>1. k \in DOMAIN d.sent /\ d.sent[k].lost
        BY <3>3, <3>12 DEF With
      <4>2. PICK s \in DOMAIN b.sent : b.sent[s].lost /\ EndOf(d, k) = EndOf(b, s)
        BY <2>3, <2>4, <4>1
      <4> QED BY <3>3, <4>2 DEF With, EndOf
    <3> QED BY <2>1, <3>3, <3>4, <3>5, <3>6, <3>7, <3>8, <3>9, <3>10, <3>11, <3>12
  <2> QED BY <2>10, <2>11
<1> QED BY <1>1, <1>2

(***************************************************************************)
(* SACK blocks.                                                            *)
(***************************************************************************)
\* c is b with more items sacked, none of them the head, by bytes of U.
Sacked(b, c, U) ==
    /\ Sound(c) /\ Exclusive(c) /\ Live(c)
    /\ Reflagged(b, c)
    /\ c.first \notin With(c, "sacked")
    /\ With(c, "retrans") = With(b, "retrans")
    /\ Covered(c, With(c, "sacked")) \subseteq Covered(b, With(b, "sacked")) \cup U

LEMMA SackBlockSound ==
    ASSUME NEW b, Sound(b), Exclusive(b), Live(b), b.first \notin With(b, "sacked"),
           NEW block, block.first \in Int, block.second \in Int, b.first < block.first,
           NEW U, \A x \in Int : block.first <= x /\ x < block.second => x \in U
    PROVE  Sacked(b, SackBlock(b, block), U)
<1> DEFINE fresh == {s \in DOMAIN b.sent : /\ block.first <= s /\ EndOf(b, s) <= block.second
                                           /\ ~ b.sent[s].sacked}
           moves == \E s \in fresh : b.highest = 0 \/ b.highest <= EndOf(b, s)
           d == ClearFlags(b, fresh, "lost")
           e == SetFlags(d, fresh, "sacked")
           h == IF moves THEN Max(fresh) ELSE e.highest
           c == [e EXCEPT !.highest = h]
<1>1. SackBlock(b, block) = c
  BY Zenon DEF SackBlock
<1>2. /\ "sacked" \in Flag /\ "lost" \in Flag /\ "retrans" \in Flag
      /\ "lost" # "sacked" /\ "retrans" # "sacked" /\ "retrans" # "lost"
  BY DEF Flag
<1>3. fresh \in SUBSET DOMAIN b.sent
  OBVIOUS
<1>4. ASSUME NEW s \in fresh
      PROVE  /\ s \in Nat /\ s <= StreamLen /\ b.first < s /\ s # b.first
             /\ \A x \in Byte : s <= x /\ x < EndOf(b, s) => x \in U
  <2>1. s \in DOMAIN b.sent /\ block.first <= s /\ EndOf(b, s) <= block.second
    OBVIOUS
  <2>2. s \in Nat /\ s <= StreamLen /\ b.first \in Int /\ b.sent[s].len \in Int /\ EndOf(b, s) \in Int
    BY <2>1, TxStreamAssumption DEF Sound, Shape, ItemsInPlace, Numbers, Byte, Item, EndOf
  <2>3. \A x \in Byte : x \in Int
    BY DEF Byte
  <2> HIDE DEF fresh
  <2>4. b.first < s /\ s # b.first
    BY <2>1, <2>2
  <2>5. ASSUME NEW x \in Byte, s <= x, x < EndOf(b, s) PROVE x \in U
    <3>1. x \in Int
      BY <2>3, <2>5
    <3>2. block.first <= x /\ x < block.second
      BY <2>1, <2>2, <2>5, <3>1
    <3> QED BY <3>1, <3>2
  <2> QED BY <2>2, <2>4, <2>5
<1> HIDE DEF fresh
<1>5. /\ Sound(d) /\ Reflagged(b, d) /\ d.highest = b.highest
      /\ With(d, "lost") = With(b, "lost") \ fresh
      /\ With(d, "sacked") = With(b, "sacked") /\ With(d, "retrans") = With(b, "retrans")
  BY <1>2, <1>3, ClearFlagsSound
<1> HIDE DEF d
<1>6. fresh \in SUBSET DOMAIN d.sent
  BY <1>3, <1>5 DEF Reflagged
<1>7. /\ Sound(e) /\ Reflagged(d, e) /\ e.highest = b.highest
      /\ With(e, "sacked") = With(b, "sacked") \cup fresh
      /\ With(e, "lost") = With(b, "lost") \ fresh /\ With(e, "retrans") = With(b, "retrans")
  BY <1>2, <1>5, <1>6, SetFlagsSound
<1> HIDE DEF e
<1>8. Reflagged(b, e)
  BY <1>5, <1>7, ReflaggedTwice
<1>9. h \in Nat /\ (h = b.highest \/ h \in fresh)
  <2>1. CASE moves
    <3>1. fresh # {} /\ fresh \in SUBSET Nat /\ (\A y \in fresh : y <= StreamLen) /\ StreamLen \in Nat
      BY <1>4, <2>1, TxStreamAssumption
    <3>2. Max(fresh) \in fresh
      <4> HIDE DEF moves
      <4> QED BY <3>1, MaxOfNaturals
    <3> QED BY <2>1, <3>1, <3>2
  <2>2. CASE ~ moves
    <3> HIDE DEF moves
    <3> QED BY <1>7, <2>2 DEF Sound, Shape, Numbers
  <2> QED BY <2>1, <2>2
<1> HIDE DEF h
<1>10. /\ Sound(c) /\ Reflagged(e, c) /\ c.highest = h
       /\ \A f : With(c, f) = With(e, f)
       /\ \A S : Covered(c, S) = Covered(e, S)
  BY <1>7, <1>9, SetHighestSound
<1> HIDE DEF c
<1>11. Reflagged(b, c) /\ c.first = b.first
  <2>1. Reflagged(b, c)
    BY <1>8, <1>10, ReflaggedTwice
  <2> QED BY <2>1 DEF Reflagged
<1>12. Exclusive(c)
  BY <1>7, <1>10 DEF Exclusive
<1>13. Live(c)
  BY <1>4, <1>7, <1>9, <1>10, <1>11 DEF Live
<1>14. c.first \notin With(c, "sacked")
  BY <1>4, <1>7, <1>10, <1>11
<1>15. Covered(c, With(c, "sacked")) \subseteq Covered(b, With(b, "sacked")) \cup U
  <2>1. With(b, "sacked") \cup fresh \in SUBSET DOMAIN b.sent
    BY <1>3 DEF With
  <2>2. Covered(c, With(c, "sacked")) = Covered(b, With(b, "sacked") \cup fresh)
    BY <1>7, <1>8, <1>10, <2>1, ReflaggedCovered
  <2>3. Covered(b, With(b, "sacked") \cup fresh) \subseteq Covered(b, With(b, "sacked")) \cup Covered(b, fresh)
    BY DEF Covered
  <2>4. Covered(b, fresh) \subseteq U
    BY <1>4 DEF Covered
  <2> QED BY <2>2, <2>3, <2>4
<1>16. With(c, "retrans") = With(b, "retrans")
  BY <1>7, <1>10
<1> QED BY <1>1, <1>10, <1>11, <1>12, <1>13, <1>14, <1>15, <1>16 DEF Sacked

LEMMA SackedItself ==
    ASSUME NEW b, Sound(b), Exclusive(b), Live(b), b.first \notin With(b, "sacked"), NEW U
    PROVE  Sacked(b, b, U)
<1>1. Reflagged(b, b)
  BY DEF Reflagged, Sound, Shape, Numbers, ItemsInPlace
<1> QED BY <1>1 DEF Sacked

LEMMA SackedTwice ==
    ASSUME NEW b, NEW c, NEW d, NEW U, Sacked(b, c, U), Sacked(c, d, U)
    PROVE  Sacked(b, d, U)
<1>1. Reflagged(b, d)
  BY ReflaggedTwice DEF Sacked
<1> QED BY <1>1 DEF Sacked

LEMMA UpdateLostCountSound ==
    ASSUME NEW b, Sound(b), Exclusive(b), Live(b), b.first \notin With(b, "sacked")
    PROVE  \A U : Sacked(b, UpdateLostCount(b), U)
<1> DEFINE above(s) == {t \in With(b, "sacked") \ {HeadItem(b)} : s <= t /\ t <= b.highest}
           lost == {s \in DOMAIN b.sent : /\ s = HeadItem(b) \/ ~ b.sent[s].sacked
                                          /\ Cardinality(above(s)) >= DupAckThresh}
           c == SetFlags(b, lost, "lost")
<1>1. UpdateLostCount(b) = c
  BY Zenon DEF UpdateLostCount
<1>2. lost \in SUBSET DOMAIN b.sent /\ lost \cap With(b, "sacked") = {}
  <2>1. ASSUME NEW s \in lost PROVE s \notin With(b, "sacked")
    <3>1. s \in DOMAIN b.sent /\ (s = HeadItem(b) \/ ~ b.sent[s].sacked)
      OBVIOUS
    <3>2. HeadItem(b) = b.first
      BY <3>1, HeadIsFirst DEF Sound
    <3> QED BY <3>1, <3>2 DEF With
  <2>2. lost \in SUBSET DOMAIN b.sent
    OBVIOUS
  <2> HIDE DEF lost
  <2> QED BY <2>1, <2>2
<1> HIDE DEF lost
<1>3. "sacked" \in Flag /\ "lost" \in Flag /\ "retrans" \in Flag /\ "sacked" # "lost" /\ "retrans" # "lost"
  BY DEF Flag
<1>4. /\ Sound(c) /\ Reflagged(b, c) /\ c.highest = b.highest
      /\ With(c, "lost") = With(b, "lost") \cup lost
      /\ With(c, "sacked") = With(b, "sacked") /\ With(c, "retrans") = With(b, "retrans")
  BY <1>2, <1>3, SetFlagsSound
<1> HIDE DEF c
<1>5. c.first = b.first
  BY <1>4 DEF Reflagged
<1>6. Exclusive(c) /\ Live(c)
  BY <1>2, <1>4, <1>5 DEF Exclusive, Live
<1>7. Covered(c, With(c, "sacked")) = Covered(b, With(b, "sacked"))
  <2>1. With(b, "sacked") \in SUBSET DOMAIN b.sent
    BY DEF With
  <2> QED BY <1>4, <2>1, ReflaggedCovered
<1> QED BY <1>1, <1>4, <1>5, <1>6, <1>7 DEF Sacked

\* The blocks of a SACK option are read one after the other.
AfterUpTo(m, f, b, read) ==
    f = [n \in 0 .. m |-> IF n = 0 THEN b ELSE SackBlock(f[n - 1], read[n])]

LEMMA AfterExists ==
    ASSUME NEW b, NEW read, NEW N \in Nat
    PROVE  \E f : AfterUpTo(N, f, b, read)
<1> DEFINE S == {m \in 0 .. N : \E f : AfterUpTo(m, f, b, read)}
<1>1. 0 \in S
  <2> DEFINE f == [n \in 0 .. 0 |-> b]
  <2>1. f = [n \in 0 .. 0 |-> IF n = 0 THEN b ELSE SackBlock(f[n - 1], read[n])]
    OBVIOUS
  <2> HIDE DEF f
  <2> QED BY <2>1 DEF AfterUpTo
<1>2. ASSUME NEW m \in 0 .. (N - 1), m \in S PROVE m + 1 \in S
  <2>1. PICK f : AfterUpTo(m, f, b, read)
    BY <1>2
  <2> DEFINE g == [n \in 0 .. (m + 1) |-> IF n <= m THEN f[n] ELSE SackBlock(f[m], read[m + 1])]
  <2>2. \A n \in 0 .. m : g[n] = f[n]
    OBVIOUS
  <2>3. g[m + 1] = SackBlock(f[m], read[m + 1])
    OBVIOUS
  <2>4. \A n \in 0 .. m : f[n] = IF n = 0 THEN b ELSE SackBlock(f[n - 1], read[n])
    BY <2>1, Zenon DEF AfterUpTo
  <2>5. DOMAIN g = 0 .. (m + 1) /\ g = [n \in DOMAIN g |-> g[n]]
    OBVIOUS
  <2> HIDE DEF g
  <2>6. ASSUME NEW n \in 0 .. (m + 1)
        PROVE  g[n] = IF n = 0 THEN b ELSE SackBlock(g[n - 1], read[n])
    <3>1. n = 0 \/ n - 1 \in 0 .. m
      OBVIOUS
    <3>2. n = m + 1 \/ n \in 0 .. m
      OBVIOUS
    <3>3. n = m + 1 => n - 1 = m
      OBVIOUS
    <3> QED BY <3>1, <3>2, <3>3, <2>2, <2>3, <2>4
  <2>7. g = [n \in 0 .. (m + 1) |-> IF n = 0 THEN b ELSE SackBlock(g[n - 1], read[n])]
    BY <2>5, <2>6
  <2>8. AfterUpTo(m + 1, g, b, read)
    BY <2>7, Zenon DEF AfterUpTo
  <2> QED BY <2>8
<1> HIDE DEF S
<1>3. \A i \in 0 .. N : i \in S
  BY <1>1, <1>2, UpTo
<1>4. N \in S
  BY <1>3
<1> QED BY <1>4 DEF S

AfterOf(b, read) == CHOOSE f : f = [n \in 0 .. Len(read) |->
                                      IF n = 0 THEN b ELSE SackBlock(f[n - 1], read[n])]

LEMMA AfterIs ==
    ASSUME NEW b, NEW read, Len(read) \in Nat
    PROVE  /\ AfterOf(b, read)[0] = b
           /\ \A n \in 1 .. Len(read) : AfterOf(b, read)[n] = SackBlock(AfterOf(b, read)[n - 1], read[n])
<1> DEFINE N == Len(read)
           f == AfterOf(b, read)
<1>1. \E g : g = [n \in 0 .. N |-> IF n = 0 THEN b ELSE SackBlock(g[n - 1], read[n])]
  <2>1. N \in Nat
    OBVIOUS
  <2> HIDE DEF N
  <2>2. PICK g : AfterUpTo(N, g, b, read)
    BY <2>1, AfterExists, Zenon
  <2> QED BY <2>2, Zenon DEF AfterUpTo
<1>2. f = [n \in 0 .. N |-> IF n = 0 THEN b ELSE SackBlock(f[n - 1], read[n])]
  BY <1>1, Zenon DEF AfterOf
<1> HIDE DEF f, N
<1>3. \A n \in 0 .. N : f[n] = IF n = 0 THEN b ELSE SackBlock(f[n - 1], read[n])
  BY <1>2, Zenon
<1>4. N \in Nat
  BY DEF N
<1>5. f[0] = b /\ \A n \in 1 .. N : f[n] = SackBlock(f[n - 1], read[n])
  BY <1>3, <1>4
<1> QED BY <1>5 DEF f, N

\* A SACK option whose blocks lie above the head, within the bytes U.
LEMMA UpdateSound ==
    ASSUME NEW b, Sound(b), Exclusive(b), Live(b), b.first \notin With(b, "sacked"),
           NEW U, NEW list \in Seq([first : Int, second : Int]),
           \A i \in 1 .. Len(list) :
              /\ b.first < list[i].first
              /\ \A x \in Int : list[i].first <= x /\ x < list[i].second => x \in U
    PROVE  /\ Sacked(b, Update(b, list), U)
           /\ Len(list) = 0 => Update(b, list) = b
<1> DEFINE outside == {i \in 1 .. Len(list) : SentEnd(b) < list[i].first}
           read == IF outside = {} THEN list ELSE SubSeq(list, 1, Min(outside) - 1)
           f == AfterOf(b, read)
           c == f[Len(read)]
<1>1. Update(b, list)
        = IF outside = {} /\ c.count["sacked"] > b.count["sacked"] THEN UpdateLostCount(c) ELSE c
  BY Zenon DEF Update, AfterOf
<1>2. Len(list) \in Nat /\ \A i \in 1 .. Len(list) : list[i].first \in Int /\ list[i].second \in Int
  <2> HIDE DEF outside, read, f, c
  <2> DEFINE R == [first : Int, second : Int]
  <2>1. list \in Seq(R)
    OBVIOUS
  <2> HIDE DEF R
  <2>2. Len(list) \in Nat /\ \A i \in 1 .. Len(list) : list[i] \in R
    BY <2>1
  <2> QED BY <2>2 DEF R
<1>3. Len(read) \in Nat /\ Len(read) <= Len(list) /\ \A i \in 1 .. Len(read) : read[i] = list[i]
  <2>1. CASE outside = {}
    BY <1>2, <2>1
  <2>2. CASE outside # {}
    <3>1. outside \in SUBSET Nat
      OBVIOUS
    <3> DEFINE n == Min(outside)
    <3>2. n \in outside
      <4> HIDE DEF outside
      <4> QED BY <2>2, <3>1, MinOfNaturals
    <3>3. n \in 1 .. Len(list)
      BY <3>2
    <3>4. read = SubSeq(list, 1, n - 1)
      BY <2>2
    <3> HIDE DEF n, outside, read
    <3> QED BY <1>2, <3>3, <3>4
  <2> QED BY <2>1, <2>2
<1> HIDE DEF read
<1>4. f[0] = b /\ \A n \in 1 .. Len(read) : f[n] = SackBlock(f[n - 1], read[n])
  BY <1>3, AfterIs
<1> HIDE DEF f
<1> DEFINE N == Len(read)
           S == {n \in 0 .. N : Sacked(b, f[n], U)}
<1>5. 0 \in S
  BY <1>3, <1>4, SackedItself
<1>6. ASSUME NEW n \in 0 .. (N - 1), n \in S PROVE n + 1 \in S
  <2>1. n + 1 \in 1 .. N /\ n + 1 \in 0 .. N /\ (n + 1) - 1 = n /\ n + 1 \in 1 .. Len(list)
    BY <1>3
  <2> DEFINE d == f[n]
             k == read[n + 1]
  <2>2. f[n + 1] = SackBlock(d, k)
    BY <1>4, <2>1
  <2>3. Sacked(b, d, U)
    BY <1>6
  <2>4. d.first = b.first /\ Sound(d) /\ Exclusive(d) /\ Live(d) /\ d.first \notin With(d, "sacked")
    BY <2>3 DEF Sacked, Reflagged
  <2>5. k = list[n + 1]
    BY <1>3, <2>1
  <2>6. k.first \in Int /\ k.second \in Int /\ d.first < k.first
        /\ \A x \in Int : k.first <= x /\ x < k.second => x \in U
    <3> HIDE DEF d, k, S, N, c, outside
    <3> QED BY <1>2, <2>1, <2>4, <2>5
  <2> HIDE DEF d, k
  <2>7. Sacked(d, SackBlock(d, k), U)
    BY <2>4, <2>6, SackBlockSound
  <2>8. Sacked(b, SackBlock(d, k), U)
    BY <2>3, <2>7, SackedTwice
  <2> QED BY <2>1, <2>2, <2>8
<1>7. Sacked(b, c, U)
  <2>1. N \in Nat
    BY <1>3
  <2> HIDE DEF S, N
  <2>2. \A i \in 0 .. N : i \in S
    BY <1>5, <1>6, <2>1, UpTo
  <2>3. N \in S
    BY <2>1, <2>2
  <2> QED BY <2>3 DEF S, N
<1>8. Len(list) = 0 => Len(read) = 0 /\ c = b
  BY <1>3, <1>4
<1> HIDE DEF c, outside
<1>9. Sacked(c, UpdateLostCount(c), U)
  BY <1>7, UpdateLostCountSound DEF Sacked
<1>10. Sacked(b, UpdateLostCount(c), U)
  BY <1>7, <1>9, SackedTwice
<1>11. Len(list) = 0 => Update(b, list) = b
  <2>1. b.count["sacked"] \in Int
    BY DEF Sound, Shape, Numbers, Flag
  <2>2. ~ (b.count["sacked"] > b.count["sacked"])
    BY <2>1
  <2> QED BY <1>1, <1>8, <2>2
<1> QED BY <1>1, <1>7, <1>10, <1>11

(***************************************************************************)
(* Bytes in flight.                                                        *)
(***************************************************************************)
LEMMA SameSacksCovered ==
    ASSUME NEW b, NEW c, SameSacks(b, c)
    PROVE  Covered(c, With(c, "sacked")) = Covered(b, With(b, "sacked"))
BY DEF SameSacks, Covered, EndOf

\* BytesInFlight subtracts no more than there is.
LEMMA LeftOut ==
    ASSUME NEW b, Sound(b), Exclusive(b)
    PROVE  /\ \A f \in Flag : b.count[f] \in Nat /\ b.count[f] <= b.sentSize
           /\ b.count["sacked"] + b.count["lost"] <= b.sentSize
           /\ BytesInFlight(b) \in Nat
<1>1. ASSUME NEW S \in SUBSET DOMAIN b.sent PROVE BytesOf(b, S) \in Nat /\ BytesOf(b, S) <= b.sentSize
  <2>1. Covered(b, S) \subseteq Covered(b, DOMAIN b.sent)
    BY DEF Covered
  <2>2. IsFiniteSet(Covered(b, DOMAIN b.sent)) /\ BytesOf(b, S) \in Nat
    BY CoveredFinite
  <2>3. BytesOf(b, DOMAIN b.sent) = b.sentSize
    BY AllBytes DEF Sound
  <2> QED BY <2>1, <2>2, <2>3, FS_Subset DEF BytesOf
<1>2. "sacked" \in Flag /\ "lost" \in Flag /\ "retrans" \in Flag
  BY DEF Flag
<1>3. ASSUME NEW f \in Flag PROVE b.count[f] \in Nat /\ b.count[f] <= b.sentSize
  <2>1. With(b, f) \in SUBSET DOMAIN b.sent
    BY DEF With
  <2> QED BY <1>1, <2>1 DEF Sound, Counted
<1>4. b.count["sacked"] + b.count["lost"] <= b.sentSize
  <2> DEFINE S == With(b, "sacked")
             L == With(b, "lost")
  <2>1. S \in SUBSET DOMAIN b.sent /\ L \in SUBSET DOMAIN b.sent /\ S \cap L = {}
    BY DEF With, Exclusive
  <2>2. b.count["sacked"] = BytesOf(b, S) /\ b.count["lost"] = BytesOf(b, L)
    BY <1>2 DEF Sound, Counted
  <2> HIDE DEF S, L
  <2>3. BytesOf(b, S \cup L) = BytesOf(b, S) + BytesOf(b, L)
    BY <2>1, BytesAdd DEF Sound
  <2>4. BytesOf(b, S \cup L) <= b.sentSize
    BY <1>1, <2>1
  <2> QED BY <2>2, <2>3, <2>4
<1>5. b.count["sacked"] \in Nat /\ b.count["lost"] \in Nat /\ b.count["retrans"] \in Nat /\ b.sentSize \in Nat
  BY <1>2, <1>3 DEF Sound, Shape, Numbers
<1> QED BY <1>3, <1>4, <1>5 DEF BytesInFlight

\* A retransmission adds at most its own bytes.
LEMMA ResentInFlight ==
    ASSUME NEW b, Sound(b), Exclusive(b), NEW c, Sound(c), Exclusive(c), SameNumbers(b, c),
           SameSacks(b, c), SameLost(b, c), NEW seq \in DOMAIN c.sent, Resent(b, c, seq)
    PROVE  BytesInFlight(c) <= BytesInFlight(b) + c.sent[seq].len
<1>1. "sacked" \in Flag /\ "lost" \in Flag /\ "retrans" \in Flag
  BY DEF Flag
<1>2. c.count["sacked"] = b.count["sacked"] /\ c.count["lost"] = b.count["lost"]
  BY <1>1, SameSacksCovered DEF Sound, Counted, BytesOf, SameLost
<1> DEFINE A == Covered(b, With(b, "retrans"))
           B == Covered(c, {seq})
           C == Covered(c, With(c, "retrans"))
<1>3. /\ IsFiniteSet(A) /\ IsFiniteSet(B) /\ C \subseteq A \cup B
      /\ c.count["retrans"] = Cardinality(C) /\ b.count["retrans"] = Cardinality(A)
  BY <1>1, CoveredFinite DEF Resent, Sound, Counted, BytesOf
<1>4. B \subseteq seq .. (seq + c.sent[seq].len - 1) /\ seq \in Int /\ c.sent[seq].len \in Nat
  <2>1. seq \in Int /\ c.sent[seq].len \in Nat
    BY DEF Sound, Shape, ItemsInPlace, Byte, Item
  <2>2. ASSUME NEW x \in B PROVE x \in seq .. (seq + c.sent[seq].len - 1)
    <3>1. x \in Int /\ seq <= x /\ x < EndOf(c, seq)
      BY <2>2 DEF Covered, Byte
    <3> QED BY <2>1, <3>1 DEF EndOf
  <2> QED BY <2>1, <2>2
<1> HIDE DEF A, B, C
<1>5. Cardinality(B) \in Nat /\ Cardinality(B) <= c.sent[seq].len
  <2> DEFINE l == seq
             h == seq + c.sent[seq].len - 1
  <2>1. l \in Int /\ h \in Int
    BY <1>4
  <2>2. IsFiniteSet(l .. h) /\ Cardinality(l .. h) = IF l > h THEN 0 ELSE h - l + 1
    <3> HIDE DEF l, h
    <3> QED BY <2>1, FS_Interval
  <2>3. Cardinality(B) <= Cardinality(l .. h)
    BY <1>3, <1>4, <2>2, FS_Subset
  <2>4. Cardinality(B) \in Nat
    BY <1>3, FS_CardinalityType
  <2> QED BY <1>4, <2>2, <2>3, <2>4
<1>6. IsFiniteSet(A \cup B) /\ Cardinality(A \cup B) <= Cardinality(A) + Cardinality(B)
      /\ Cardinality(A \cup B) \in Nat /\ Cardinality(A) \in Nat
  <2>1. IsFiniteSet(A \cup B)
        /\ Cardinality(A \cup B) = Cardinality(A) + Cardinality(B) - Cardinality(A \cap B)
    BY <1>3, FS_Union
  <2>2. Cardinality(A \cap B) \in Nat
    BY <1>3, FS_Intersection, FS_CardinalityType
  <2>3. Cardinality(A) \in Nat /\ Cardinality(B) \in Nat /\ Cardinality(A \cup B) \in Nat
    BY <1>3, <2>1, FS_CardinalityType
  <2> QED BY <2>1, <2>2, <2>3
<1>7. Cardinality(C) <= Cardinality(A \cup B) /\ Cardinality(C) \in Nat
  BY <1>3, <1>6, FS_Subset, FS_CardinalityType
<1>8. c.count["retrans"] <= b.count["retrans"] + c.sent[seq].len
  BY <1>3, <1>4, <1>5, <1>6, <1>7
<1>9. /\ b.count["sacked"] \in Nat /\ b.count["lost"] \in Nat /\ b.count["retrans"] \in Nat
      /\ c.count["retrans"] \in Nat /\ b.sentSize \in Nat /\ c.sentSize = b.sentSize
  BY <1>1, LeftOut DEF SameNumbers, Sound, Shape, Numbers
<1> QED BY <1>2, <1>4, <1>8, <1>9 DEF BytesInFlight

\* A new segment adds its bytes.
LEMMA NewInFlight ==
    ASSUME NEW b, Sound(b), Exclusive(b), NEW c, Sound(c), NEW n \in Nat, c.sentSize = b.sentSize + n,
           \A f \in Flag : With(c, f) = With(b, f), \A k \in DOMAIN b.sent : c.sent[k] = b.sent[k]
    PROVE  BytesInFlight(c) = BytesInFlight(b) + n
<1>1. "sacked" \in Flag /\ "lost" \in Flag /\ "retrans" \in Flag
  BY DEF Flag
<1>2. ASSUME NEW f \in Flag PROVE c.count[f] = b.count[f]
  <2>1. Covered(c, With(b, f)) = Covered(b, With(b, f))
    BY DEF Covered, With, EndOf
  <2> QED BY <2>1 DEF Sound, Counted, BytesOf
<1>3. b.count["sacked"] \in Nat /\ b.count["lost"] \in Nat /\ b.count["retrans"] \in Nat /\ b.sentSize \in Nat
  BY <1>1, LeftOut DEF Sound, Shape, Numbers
<1> QED BY <1>1, <1>2, <1>3 DEF BytesInFlight

\* After a timeout nothing is in flight.
LEMMA NoneInFlight ==
    ASSUME NEW b, Sound(b), Exclusive(b), With(b, "retrans") = {},
           DOMAIN b.sent \subseteq With(b, "sacked") \cup With(b, "lost")
    PROVE  BytesInFlight(b) = 0
<1> DEFINE S == With(b, "sacked")
           L == With(b, "lost")
<1>1. "sacked" \in Flag /\ "lost" \in Flag /\ "retrans" \in Flag
  BY DEF Flag
<1>2. S \in SUBSET DOMAIN b.sent /\ L \in SUBSET DOMAIN b.sent /\ S \cap L = {} /\ S \cup L = DOMAIN b.sent
  BY DEF With, Exclusive
<1>3. b.count["sacked"] = BytesOf(b, S) /\ b.count["lost"] = BytesOf(b, L) /\ b.count["retrans"] = 0
  BY <1>1, NoBytes DEF Sound, Counted
<1> HIDE DEF S, L
<1>4. BytesOf(b, DOMAIN b.sent) = BytesOf(b, S) + BytesOf(b, L)
  <2>1. BytesOf(b, S \cup L) = BytesOf(b, S) + BytesOf(b, L)
    BY <1>2, BytesAdd DEF Sound
  <2> QED BY <1>2, <2>1
<1>5. BytesOf(b, DOMAIN b.sent) = b.sentSize /\ b.sentSize \in Nat
  BY AllBytes DEF Sound, Shape, Numbers
<1>6. BytesOf(b, S) \in Nat /\ BytesOf(b, L) \in Nat
  BY CoveredFinite
<1> QED BY <1>3, <1>4, <1>5, <1>6 DEF BytesInFlight

(***************************************************************************)
(* The empty buffer, writes, and what a sound buffer promises.             *)
(***************************************************************************)
LEMMA EmptyBufferSound ==
    LET b == EmptyBuffer
    IN  /\ Sound(b) /\ Exclusive(b) /\ Short(b) /\ Live(b)
        /\ b.first = 1 /\ b.sentSize = 0 /\ b.size = 0 /\ SentEnd(b) = 1
        /\ \A f : With(b, f) = {}
<1> DEFINE none == [s \in {} |-> 0]
           zero == [f \in Flag |-> 0]
           b == EmptyBuffer
<1>1. b = [first |-> 1, sent |-> none, sentSize |-> 0, size |-> 0, app |-> 1,
           count |-> zero, highest |-> 0]
  BY Zenon DEF EmptyBuffer
<1>2. DOMAIN none = {} /\ zero \in [Flag -> Int] /\ \A f \in Flag : zero[f] = 0
  OBVIOUS
<1> HIDE DEF none, zero
<1>3. /\ DOMAIN b = BufferField /\ b.first = 1 /\ b.sent = none /\ b.sentSize = 0 /\ b.size = 0
      /\ b.app = 1 /\ b.count = zero /\ b.highest = 0
  BY <1>1 DEF BufferField
<1> HIDE DEF b
<1>4. Numbers(b) /\ SentEnd(b) = 1
  BY <1>2, <1>3, TxStreamAssumption, TxBufferAssumption DEF Numbers, SentEnd
<1>5. ItemsInPlace(b) /\ ItemsApart(b) /\ NoHole(b)
  BY <1>2, <1>3 DEF ItemsInPlace, ItemsApart, NoHole
<1>6. \A f : With(b, f) = {}
  BY <1>2, <1>3 DEF With
<1>7. Counted(b)
  BY <1>2, <1>3, <1>6, NoBytes DEF Counted
<1>8. Exclusive(b) /\ Short(b) /\ Live(b)
  BY <1>2, <1>3, <1>6 DEF Exclusive, Short, Live
<1> QED BY <1>3, <1>4, <1>5, <1>6, <1>7, <1>8 DEF Sound, Shape, b

LEMMA AddSound ==
    ASSUME NEW b, Sound(b), NEW n \in Nat, TailSequence(b) + n <= StreamLen + 1
    PROVE  LET c == Add(b, n)
           IN  /\ Sound(c) /\ c.first = b.first /\ c.sentSize = b.sentSize /\ c.highest = b.highest
               /\ c.sent = b.sent
<1> DEFINE c == [b EXCEPT !.size = @ + n]
<1>1. CASE n <= MaxBuffer - b.size
  <2>1. Add(b, n) = c
    BY <1>1, Zenon DEF Add
  <2> DEFINE m == b.size + n
  <2>2. m \in Nat /\ m <= MaxBuffer /\ b.sentSize <= m /\ b.first + m <= StreamLen + 1
    BY <1>1, TxBufferAssumption, TxStreamAssumption DEF Sound, Shape, Numbers, TailSequence
  <2>3. c = [b EXCEPT !.size = m]
    OBVIOUS
  <2> HIDE DEF m, c
  <2>4. /\ DOMAIN c = BufferField /\ c.first = b.first /\ c.sentSize = b.sentSize
        /\ c.size = m /\ c.app = b.app /\ c.highest = b.highest
        /\ c.sent = b.sent /\ c.count = b.count
    BY <2>3 DEF Sound, Shape, Numbers, BufferField
  <2>5. Numbers(c)
    BY <2>2, <2>4 DEF Sound, Shape, Numbers
  <2>6. ItemsInPlace(c) /\ ItemsApart(c) /\ NoHole(c)
    BY <2>4 DEF Sound, Shape, ItemsInPlace, ItemsApart, NoHole
  <2>7. Counted(c)
    BY <2>4 DEF Sound, Counted, BytesOf, Covered, With, EndOf
  <2> QED BY <2>1, <2>4, <2>5, <2>6, <2>7 DEF Sound, Shape
<1>2. CASE ~ (n <= MaxBuffer - b.size)
  BY <1>2 DEF Add
<1> QED BY <1>1, <1>2

LEMMA SoundScoreboard ==
    ASSUME NEW b, Sound(b), Exclusive(b)
    PROVE  Tiled(b) /\ Counted(b) /\ SackedNotLost(b)
<1>1. Tiled(b)
  <2>1. Covered(b, DOMAIN b.sent) = b.first .. (SentEnd(b) - 1)
    <3>1. Covered(b, DOMAIN b.sent) = b.first .. (b.first + b.sentSize - 1)
      BY AllBytes DEF Sound
    <3>2. b.first + b.sentSize - 1 = SentEnd(b) - 1
      BY DEF Sound, Shape, Numbers, SentEnd
    <3> QED BY <3>1, <3>2, Zenon
  <2> QED BY <2>1 DEF Tiled, Sound, Shape, Numbers, ItemsInPlace, ItemsApart, EndOf, SentEnd
<1>2. SackedNotLost(b)
  BY LeftOut DEF SackedNotLost, Exclusive
<1> QED BY <1>1, <1>2 DEF Sound

LEMMA SoundIsBuffer ==
    ASSUME NEW b, Sound(b), Exclusive(b), Live(b)
    PROVE  IsBuffer(b)
<1>1. /\ b.first \in Nat /\ b.sentSize \in Nat /\ b.size \in Nat /\ b.highest \in Nat
      /\ 1 <= b.first /\ b.sentSize <= b.size /\ b.first + b.size <= StreamLen + 1
      /\ b.app = b.first + b.sentSize /\ b.count \in [Flag -> Int] /\ DOMAIN b = BufferField
  BY DEF Sound, Shape, Numbers
<1>2. b.highest <= StreamLen
  <2>1. CASE b.highest = 0
    BY <2>1, TxStreamAssumption
  <2>2. CASE b.highest # 0
    <3>1. b.highest \in DOMAIN b.sent
      BY <2>2 DEF Live, With
    <3> QED BY <3>1, TxStreamAssumption DEF Sound, Shape, ItemsInPlace, Byte
  <2> QED BY <2>1, <2>2
<1>3. /\ b.first \in 1 .. (StreamLen + 1) /\ b.app \in 1 .. (StreamLen + 1)
      /\ b.sentSize \in 0 .. StreamLen /\ b.size \in 0 .. StreamLen /\ b.highest \in 0 .. StreamLen
  BY <1>1, <1>2, TxStreamAssumption
<1>4. DOMAIN b.sent \subseteq Byte /\ \A s \in DOMAIN b.sent : b.sent[s] \in Item
  BY DEF Sound, Shape, ItemsInPlace
<1>5. b.count \in [Flag -> 0 .. StreamLen]
  <2>1. \A f \in Flag : b.count[f] \in 0 .. StreamLen
    BY <1>3, LeftOut, TxStreamAssumption
  <2> QED BY <1>1, <2>1
<1> QED BY <1>1, <1>3, <1>4, <1>5 DEF IsBuffer, BufferField
=============================================================================
