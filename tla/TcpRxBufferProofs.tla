------------------------- MODULE TcpRxBufferProofs -------------------------
(***************************************************************************)
(* Proofs about the receive buffer, for every stream, segment size, buffer *)
(* size and SACK capacity.                                                 *)
(***************************************************************************)
EXTENDS TcpRxBuffer, FiniteSetTheorems, SequenceTheorems, WellFoundedInduction, TLAPS

(***************************************************************************)
(* Natural numbers: the least element of a set, the basis of every         *)
(* argument by a smallest counterexample below.                            *)
(***************************************************************************)
\* A non-empty set of naturals has a least element.
LEMMA NatLeast ==
    ASSUME NEW T, T \subseteq Nat, T # {}
    PROVE  \E x \in T : \A y \in T : x <= y
<1>1. PICK x \in T : \A y \in T : ~ (<<y, x>> \in OpToRel(<, Nat))
  BY NatLessThanWellFounded, WFMin, Zenon
<1>2. \A y \in T : ~ (y < x)
  BY <1>1 DEF OpToRel
<1> QED
  BY <1>2

\* A bounded non-empty set of naturals has a greatest element.
LEMMA NatGreatest ==
    ASSUME NEW n \in Nat, NEW T, T \subseteq 0 .. n, T # {}
    PROVE  \E x \in T : \A y \in T : y <= x
<1> DEFINE U == {n - y : y \in T}
<1>1. U \subseteq Nat /\ U # {}
  <2>1. \A y \in T : y \in Int /\ 0 <= y /\ y <= n
    OBVIOUS
  <2>2. \A y \in T : n - y \in Nat
    BY <2>1
  <2> QED
    BY <2>2
<1>2. PICK u \in U : \A v \in U : u <= v
  <2> HIDE DEF U
  <2> QED BY <1>1, NatLeast
<1>3. PICK x \in T : u = n - x
  BY <1>2
<1>4. \A y \in T : n - x <= n - y
  BY <1>2, <1>3
<1> QED
  BY <1>4

(***************************************************************************)
(* KeepOnly: every rank up to the size of K belongs to a position in K, so *)
(* what is kept are elements of the list.                                  *)
(***************************************************************************)
\* In a finite set of naturals there is an element of every rank.
LEMMA RankExists ==
    ASSUME NEW n \in Nat, NEW K, K \subseteq 1 .. n, NEW i \in 1 .. Cardinality(K)
    PROVE  \E k \in K : RankIn(K, k) = i
<1> DEFINE Below(k) == {j \in K : j < k}
           UpTo(k) == {j \in K : j <= k}
           T == {k \in K : RankIn(K, k) >= i}
<1>0. \A j \in K : j \in Nat /\ 1 <= j /\ j <= n
  OBVIOUS
<1>1. IsFiniteSet(K) /\ Cardinality(K) \in Nat
  <2>1. IsFiniteSet(1 .. n)
    BY FS_Interval
  <2>2. IsFiniteSet(K)
    BY <2>1, FS_Subset
  <2> QED
    BY <2>2, FS_CardinalityType
<1>2. \A k : IsFiniteSet(UpTo(k)) /\ Cardinality(UpTo(k)) \in Nat
  BY <1>1, FS_Subset, FS_CardinalityType
<1>3. \A k : IsFiniteSet(Below(k)) /\ Cardinality(Below(k)) \in Nat
  BY <1>1, FS_Subset, FS_CardinalityType
<1>4. \A k \in K : RankIn(K, k) = Cardinality(Below(k)) + 1
  <2> TAKE k \in K
  <2>0. \A j \in K : j <= k <=> (j < k \/ j = k)
    BY <1>0
  <2>1. UpTo(k) = Below(k) \cup {k} /\ k \notin Below(k)
    <3>1. ~ (k < k)
      BY <1>0
    <3> QED BY <2>0, <3>1
  <2>2. Cardinality(Below(k) \cup {k}) = Cardinality(Below(k)) + 1
    <3> HIDE DEF Below
    <3> QED BY <1>3, <2>1, FS_AddElement
  <2> QED
    BY <2>1, <2>2 DEF RankIn
<1>5. T # {}
  <2>1. K # {}
    BY <1>1, FS_EmptySet
  <2>2. PICK g \in K : \A y \in K : y <= g
    <3>1. K \subseteq 0 .. n
      BY <1>0
    <3> QED BY <2>1, <3>1, NatGreatest
  <2>3. UpTo(g) = K
    BY <2>2
  <2> QED
    BY <2>3, <1>1 DEF RankIn
<1>6. PICK k \in T : \A y \in T : k <= y
  <2>1. T \subseteq Nat
    BY <1>0
  <2> HIDE DEF T
  <2> QED BY <1>5, <2>1, NatLeast
<1>7. ASSUME Cardinality(Below(k)) >= i
      PROVE  FALSE
  <2>1. Below(k) # {} /\ Below(k) \subseteq 0 .. n
    <3>1. Below(k) \subseteq 0 .. n
      <4>1. K \subseteq 0 .. n
        BY <1>0
      <4>2. Below(k) \subseteq K
        BY Zenon
      <4> QED BY <4>1, <4>2, Zenon
    <3>2. Cardinality(Below(k)) # 0
      BY <1>7
    <3> QED
      BY <3>1, <3>2, FS_EmptySet
  <2>2. PICK g \in Below(k) : \A y \in Below(k) : y <= g
    <3> HIDE DEF Below
    <3> QED BY <2>1, NatGreatest
  <2>3. UpTo(g) = Below(k)
    <3>1. k \in Nat /\ g \in Nat /\ g < k /\ g \in K
      BY <1>0, <1>6, <2>2
    <3>2. \A j \in K : j <= g <=> j < k
      BY <1>0, <2>2, <3>1
    <3> QED
      BY <3>2
  <2>4. g \in T
    <3>1. RankIn(K, g) = Cardinality(Below(k))
      BY <2>3 DEF RankIn
    <3> QED
      BY <3>1, <2>2, <1>7
  <2> QED
    BY <2>2, <2>4, <1>6
<1>8. RankIn(K, k) >= i /\ RankIn(K, k) = Cardinality(Below(k)) + 1 /\ k \in K
  BY <1>4, <1>6
<1>9. Cardinality(Below(k)) \in Nat
  BY <1>3
<1> HIDE DEF Below
<1>10. RankIn(K, k) = i
  BY <1>7, <1>8, <1>9
<1> QED
  BY <1>8, <1>10

\* KeepOnly returns a list of elements at kept positions.
LEMMA KeepOnlyFacts ==
    ASSUME NEW list \in Seq(Block), NEW K \in SUBSET (1 .. Len(list))
    PROVE  /\ KeepOnly(list, K) \in Seq(Block)
           /\ \A i \in 1 .. Len(KeepOnly(list, K)) : \E k \in K : KeepOnly(list, K)[i] = list[k]
<1> DEFINE pos(i) == CHOOSE k \in K : RankIn(K, k) = i
<1>1. Cardinality(K) \in Nat
  <2>1. Len(list) \in Nat
    BY LenProperties
  <2>2. IsFiniteSet(1 .. Len(list))
    BY <2>1, FS_Interval
  <2>3. IsFiniteSet(K)
    BY <2>2, FS_Subset
  <2> QED
    BY <2>3, FS_CardinalityType
<1>2. \A i \in 1 .. Cardinality(K) : pos(i) \in K
  <2>1. Len(list) \in Nat
    BY LenProperties
  <2>2. \A i \in 1 .. Cardinality(K) : \E k \in K : RankIn(K, k) = i
    BY <2>1, RankExists
  <2> QED
    BY <2>2, Zenon
<1> HIDE DEF pos
<1>3. KeepOnly(list, K) = [i \in 1 .. Cardinality(K) |-> list[pos(i)]]
  BY DEF KeepOnly, pos
<1>4. \A i \in 1 .. Cardinality(K) : list[pos(i)] \in Block
  BY <1>2, ElementOfSeq
<1>5. KeepOnly(list, K) \in Seq(Block) /\ Len(KeepOnly(list, K)) = Cardinality(K)
  BY <1>1, <1>3, <1>4
<1> QED
  BY <1>2, <1>3, <1>5

(***************************************************************************)
(* The map m_data.                                                         *)
(***************************************************************************)
MapOK(d) ==
    /\ DOMAIN d \subseteq Byte
    /\ \A s \in DOMAIN d : d[s] \in Packet /\ d[s].off = s /\ LastByte(d, s) <= FinSeq
    /\ Disjoint(d)

\* Held contains data bytes only, so the FIN is never held.
LEMMA HeldBytes ==
    ASSUME NEW d
    PROVE  Held(d) \subseteq Byte /\ FinSeq \notin Held(d)
BY StreamAssumption DEF Held, BytesOf, FinSeq, Byte

\* The bytes of an entry are held, its key among them.
LEMMA EntryHeld ==
    ASSUME NEW d, MapOK(d), NEW s \in DOMAIN d
    PROVE  /\ s \in Held(d)
           /\ s \in Byte /\ LastByte(d, s) \in 2 .. FinSeq /\ s < LastByte(d, s)
           /\ \A x \in s .. (LastByte(d, s) - 1) : x \in Held(d)
BY StreamAssumption DEF MapOK, Held, BytesOf, Holds, LastByte, Byte, FinSeq, Packet

\* EntryOf finds the one entry that holds a byte.
LEMMA EntryOfHeld ==
    ASSUME NEW d, MapOK(d), NEW x \in Held(d)
    PROVE  /\ EntryOf(d, x) \in DOMAIN d
           /\ EntryOf(d, x) <= x /\ x < LastByte(d, EntryOf(d, x))
           /\ \A s \in DOMAIN d : Holds(d, s, x) => s = EntryOf(d, x)
<1>1. \E s \in DOMAIN d : Holds(d, s, x)
  BY DEF Held, BytesOf
<1>2. EntryOf(d, x) \in DOMAIN d /\ Holds(d, EntryOf(d, x), x)
  BY <1>1, Zenon DEF EntryOf
<1>3. ASSUME NEW s \in DOMAIN d, Holds(d, s, x)
      PROVE  s = EntryOf(d, x)
  <2> DEFINE k == EntryOf(d, x)
  <2>1. k \in DOMAIN d /\ Holds(d, k, x)
    BY <1>2
  <2> HIDE DEF k
  <2>2. s \in Byte /\ k \in Byte /\ LastByte(d, s) \in Int /\ LastByte(d, k) \in Int
    BY <2>1, EntryHeld DEF FinSeq
  <2>3. x \in Byte
    BY HeldBytes
  <2>4. ~ (s < k) /\ ~ (k < s)
    BY <1>3, <2>1, <2>2, <2>3, StreamAssumption DEF MapOK, Disjoint, Holds, Byte
  <2>5. s = k
    BY <2>2, <2>4, StreamAssumption DEF Byte
  <2> QED
    BY <2>5 DEF k
<1> QED
  BY <1>2, <1>3 DEF Holds

\* FirstMissing exists: the walk over held bytes ends at the FIN at the latest.
LEMMA FirstMissingFacts ==
    ASSUME NEW d, NEW h \in 1 .. FinSeq
    PROVE  /\ FirstMissing(d, h) \in h .. FinSeq
           /\ FirstMissing(d, h) \notin Held(d)
           /\ \A y \in h .. (FirstMissing(d, h) - 1) : y \in Held(d)
<1> DEFINE T == {x \in h .. FinSeq : x \notin Held(d)}
<1>1. FinSeq \in T /\ T \subseteq Nat
  BY HeldBytes, StreamAssumption DEF FinSeq
<1>2. PICK x \in T : \A y \in T : x <= y
  <2> HIDE DEF T
  <2> QED BY <1>1, NatLeast
<1>3. x \in h .. FinSeq /\ x \notin Held(d)
  BY <1>2
<1>4. \A y \in h .. (x - 1) : y \in Held(d)
  BY <1>2, <1>3, StreamAssumption DEF FinSeq
<1>5. \E z \in h .. FinSeq : z \notin Held(d) /\ \A y \in h .. (z - 1) : y \in Held(d)
  BY <1>3, <1>4
<1> QED
  BY <1>5, Zenon DEF FirstMissing

\* Begin is the least key.
LEMMA BeginFacts ==
    ASSUME NEW d, MapOK(d), DOMAIN d # {}
    PROVE  Begin(d) \in DOMAIN d /\ \A t \in DOMAIN d : Begin(d) <= t
<1>1. DOMAIN d \subseteq Nat
  BY StreamAssumption DEF MapOK, Byte
<1>2. \E s \in DOMAIN d : \A t \in DOMAIN d : s <= t
  BY <1>1, NatLeast
<1> QED
  BY <1>2, Zenon DEF Begin

(***************************************************************************)
(* The SACK list: blocks above n whose bytes are all in H.                 *)
(***************************************************************************)
BlockIn(b, n, H) ==
    /\ n < b.first /\ b.first < b.second
    /\ \A x \in b.first .. (b.second - 1) : x \in H

SackIn(list, n, H) == \A i \in 1 .. Len(list) : BlockIn(list[i], n, H)

\* Pushing, merging and capping keep every block above n and inside H.
LEMMA UpdateSackFacts ==
    ASSUME NEW list \in Seq(Block), NEW n \in Nat, NEW H, SackIn(list, n, H),
           NEW head \in 1 .. FinSeq, NEW tail \in 1 .. FinSeq, n < head, head < tail,
           \A x \in head .. (tail - 1) : x \in H
    PROVE  /\ UpdateSackList(list, head, tail) \in Seq(Block)
           /\ SackIn(UpdateSackList(list, head, tail), n, H)
<1> DEFINE b == [first |-> head, second |-> tail]
           mb == MergedBlock(list, b)
           K == {i \in 1 .. Len(list) : list[i] \notin LeftOf(list, b) \cup RightOf(list, b)}
           kept == KeepOnly(list, K)
           pushed == PushBlock(list, b)
<1>0. FinSeq \in Nat
  BY StreamAssumption DEF FinSeq
<1>1. b \in Block /\ BlockIn(b, n, H) /\ b.first = head /\ b.second = tail
  BY DEF Block, BlockIn
<1>2. \A c \in Blocks(list) : c \in Block /\ BlockIn(c, n, H)
  <2>1. \A i \in 1 .. Len(list) : list[i] \in Block
    BY ElementOfSeq
  <2> QED
    BY <2>1 DEF Blocks, SackIn
<1> HIDE DEF b
<1>3. mb \in Block /\ BlockIn(mb, n, H)
  <2> DEFINE l == IF LeftOf(list, b) = {} THEN b.first
                  ELSE (CHOOSE c \in LeftOf(list, b) : TRUE).first
             r == IF RightOf(list, b) = {} THEN b.second
                  ELSE (CHOOSE c \in RightOf(list, b) : TRUE).second
  <2>1. /\ l \in 1 .. FinSeq /\ n < l /\ l <= head
        /\ \A x \in l .. (head - 1) : x \in H
    <3>1. CASE LeftOf(list, b) = {}
      BY <3>1, <1>1, <1>0
    <3>2. CASE LeftOf(list, b) # {}
      <4>1. PICK c \in LeftOf(list, b) : l = c.first
        BY <3>2, Zenon
      <4>2. c \in Block /\ BlockIn(c, n, H) /\ c.second = head
        BY <4>1, <1>1, <1>2 DEF LeftOf
      <4> HIDE DEF l
      <4> QED
        BY <4>1, <4>2, <1>0 DEF BlockIn, Block
    <3> QED
      BY <3>1, <3>2
  <2>2. /\ r \in 1 .. FinSeq /\ tail <= r
        /\ \A x \in tail .. (r - 1) : x \in H
    <3>1. CASE RightOf(list, b) = {}
      BY <3>1, <1>1, <1>0
    <3>2. CASE RightOf(list, b) # {}
      <4>1. PICK c \in RightOf(list, b) : r = c.second
        BY <3>2, Zenon
      <4>2. c \in Block /\ BlockIn(c, n, H) /\ c.first = tail
        BY <4>1, <1>1, <1>2 DEF RightOf
      <4> HIDE DEF r
      <4> QED
        BY <4>1, <4>2, <1>0 DEF BlockIn, Block
    <3> QED
      BY <3>1, <3>2
  <2>3. mb = [first |-> l, second |-> r]
    BY DEF MergedBlock
  <2> HIDE DEF l, r, mb
  <2>4. \A x \in l .. (r - 1) : x \in H
    <3> TAKE x \in l .. (r - 1)
    <3>1. x \in l .. (head - 1) \/ x \in head .. (tail - 1) \/ x \in tail .. (r - 1)
      BY <2>1, <2>2, <1>0
    <3> QED
      BY <3>1, <2>1, <2>2
  <2> QED
    BY <2>1, <2>2, <2>3, <2>4, <1>0 DEF Block, BlockIn
<1>4. /\ kept \in Seq(Block)
      /\ \A i \in 1 .. Len(kept) : BlockIn(kept[i], n, H)
  <2>1. K \in SUBSET (1 .. Len(list))
    OBVIOUS
  <2> HIDE DEF K
  <2>2. /\ kept \in Seq(Block)
        /\ \A i \in 1 .. Len(kept) : \E k \in K : kept[i] = list[k]
    BY <2>1, KeepOnlyFacts
  <2> HIDE DEF kept
  <2> QED
    BY <2>1, <2>2 DEF SackIn
<1>5. pushed = <<mb>> \o kept
  BY DEF PushBlock
<1> HIDE DEF mb, kept, pushed
<1>6. pushed \in Seq(Block) /\ \A i \in 1 .. Len(pushed) : BlockIn(pushed[i], n, H)
  <2>1. <<mb>> \in Seq(Block) /\ Len(<<mb>>) = 1 /\ <<mb>>[1] = mb
    BY <1>3
  <2>2. /\ pushed \in Seq(Block) /\ Len(pushed) = 1 + Len(kept)
        /\ \A i \in 1 .. Len(pushed) : pushed[i] = IF i <= 1 THEN <<mb>>[i] ELSE kept[i - 1]
    BY <1>4, <1>5, <2>1, ConcatProperties
  <2>3. Len(kept) \in Nat
    BY <1>4, LenProperties
  <2>4. ASSUME NEW i \in 1 .. Len(pushed)
        PROVE  BlockIn(pushed[i], n, H)
    <3>1. CASE i = 1
      <4>1. pushed[i] = mb
        BY <3>1, <2>1, <2>2
      <4> QED BY <4>1, <1>3
    <3>2. CASE i > 1
      <4>1. pushed[i] = kept[i - 1] /\ i - 1 \in 1 .. Len(kept)
        BY <3>2, <2>2, <2>3
      <4> QED BY <4>1, <1>4
    <3> QED
      BY <3>1, <3>2, <2>2, <2>3
  <2> QED
    BY <2>2, <2>4
<1>7. /\ SubSeq(pushed, 1, Len(pushed) - 1) \in Seq(Block)
      /\ SackIn(SubSeq(pushed, 1, Len(pushed) - 1), n, H)
  BY <1>6 DEF SackIn
<1>8. UpdateSackList(list, head, tail) \in {pushed, SubSeq(pushed, 1, Len(pushed) - 1)}
  BY DEF UpdateSackList, pushed, b
<1> QED
  BY <1>6, <1>7, <1>8 DEF SackIn

\* Clearing up to a missing byte leaves only blocks that lie above it.
LEMMA ClearSackFacts ==
    ASSUME NEW list \in Seq(Block), NEW n \in Nat, NEW H, SackIn(list, n, H),
           NEW seq \in Nat, seq \notin H
    PROVE  /\ ClearSackList(list, seq) \in Seq(Block)
           /\ SackIn(ClearSackList(list, seq), seq, H)
<1> DEFINE K == {i \in 1 .. Len(list) : seq < list[i].second}
           kept == KeepOnly(list, K)
<1>1. K \in SUBSET (1 .. Len(list))
  OBVIOUS
<1>2. \A k \in K : BlockIn(list[k], seq, H)
  <2> TAKE k \in K
  <2>1. list[k] \in Block /\ BlockIn(list[k], n, H) /\ seq < list[k].second
    BY ElementOfSeq DEF SackIn
  <2>2. list[k].first \in Nat /\ list[k].second \in Nat
    BY <2>1, StreamAssumption DEF Block, FinSeq
  <2>3. ~ (list[k].first <= seq)
    BY <2>1, <2>2 DEF BlockIn
  <2> QED
    BY <2>1, <2>2, <2>3 DEF BlockIn
<1> HIDE DEF K
<1>3. /\ kept \in Seq(Block)
      /\ \A i \in 1 .. Len(kept) : \E k \in K : kept[i] = list[k]
  BY <1>1, KeepOnlyFacts
<1>4. ClearSackList(list, seq) = kept
  BY DEF ClearSackList, K
<1> HIDE DEF kept
<1> QED
  BY <1>2, <1>3, <1>4 DEF SackIn

(***************************************************************************)
(* The inductive invariant.  To the properties to be proved it adds that   *)
(* entries are stored under their own stream position (MapOK), that        *)
(* everything held lies in the window that starts after the last byte read *)
(* (WindowOK), where a FIN can be (FinOK), and that nothing happens before *)
(* the handshake (SyncOK).                                                 *)
(***************************************************************************)
WindowOK ==
    \A x \in Held(m_data) : Len(delivered) < x /\ x <= Len(delivered) + m_maxBuffer

FinOK ==
    /\ m_gotFin => /\ m_finSeq = FinSeq
                   /\ FinSeq <= Len(delivered) + 1 + m_maxBuffer
                   /\ m_nextRxSeq # FinSeq
    /\ ~ m_gotFin => m_nextRxSeq <= FinSeq

SyncOK ==
    /\ synced => 1 <= m_nextRxSeq
    /\ ~ synced => /\ DOMAIN m_data = {} /\ delivered = << >> /\ m_sackList = << >>
                   /\ m_nextRxSeq = 0 /\ m_availBytes = 0 /\ m_gotFin = FALSE

Inv ==
    /\ TypeOK
    /\ InOrderDelivery
    /\ AckedBytesAreHeld
    /\ SackReportsHeldBytes
    /\ MapOK(m_data)
    /\ m_size = Cardinality(Held(m_data))
    /\ WindowOK
    /\ FinOK
    /\ SyncOK

\* Before the FIN is consumed, the first missing data byte is m_nextRxSeq.
LEMMA AckedFacts ==
    ASSUME Inv, synced, ~ Finished
    PROVE  /\ m_nextRxSeq \in 1 .. FinSeq
           /\ Len(delivered) \in Nat /\ Len(delivered) < m_nextRxSeq
           /\ m_availBytes = m_nextRxSeq - (Len(delivered) + 1)
           /\ m_nextRxSeq \notin Held(m_data)
           /\ \A x \in Byte : x < m_nextRxSeq => (x \in Held(m_data) <=> Len(delivered) < x)
<1>1. FinSeq \in Nat /\ m_nextRxSeq \in 0 .. (FinSeq + 1) /\ Len(delivered) \in Nat
  BY StreamAssumption, LenProperties DEF Inv, TypeOK, FinSeq
<1>2. m_nextRxSeq \in 1 .. FinSeq
  BY <1>1 DEF Inv, FinOK, SyncOK, Finished
<1>3. /\ m_availBytes = m_nextRxSeq - (Len(delivered) + 1)
      /\ m_nextRxSeq \notin Held(m_data)
      /\ \A x \in Byte : x < m_nextRxSeq => (x \in Held(m_data) <=> Len(delivered) < x)
  BY DEF Inv, AckedBytesAreHeld
<1>4. m_availBytes \in Nat
  BY StreamAssumption DEF Inv, TypeOK
<1>5. Len(delivered) < m_nextRxSeq
  BY <1>1, <1>3, <1>4
<1> QED
  BY <1>1, <1>2, <1>3, <1>5

\* The first entry starts right after the bytes read if there is something to
\* read, and beyond m_nextRxSeq otherwise.
LEMMA BeginIs ==
    ASSUME Inv, synced, DOMAIN m_data # {}
    PROVE  /\ Begin(m_data) \in Byte /\ Begin(m_data) \in DOMAIN m_data
           /\ m_availBytes > 0 => Begin(m_data) = Len(delivered) + 1
           /\ m_availBytes = 0 => m_nextRxSeq < Begin(m_data)
<1> DEFINE b == Begin(m_data)
           r == Len(delivered)
           a == IF Finished THEN m_nextRxSeq - 1 ELSE m_nextRxSeq
<1>1. MapOK(m_data) /\ b \in DOMAIN m_data /\ \A t \in DOMAIN m_data : b <= t
  BY BeginFacts DEF Inv
<1>2. b \in Held(m_data) /\ b \in Byte /\ r < b
  BY <1>1, EntryHeld DEF Inv, WindowOK
<1>3. FinSeq \in Nat /\ m_nextRxSeq \in 0 .. (FinSeq + 1) /\ r \in Nat /\ m_availBytes \in Nat
  BY StreamAssumption, LenProperties DEF Inv, TypeOK, FinSeq
<1>4. /\ a \in Int /\ m_availBytes = a - (r + 1)
      /\ \A x \in Byte : x < a => (x \in Held(m_data) <=> r < x)
      /\ a \notin Held(m_data)
  BY <1>3 DEF Inv, AckedBytesAreHeld
<1>5. IF Finished THEN m_nextRxSeq = FinSeq + 1 ELSE m_nextRxSeq <= FinSeq
  BY <1>3 DEF Inv, FinOK, Finished
<1> HIDE DEF a, r, b
<1>6. ASSUME m_availBytes > 0 PROVE b = r + 1
  <2>1. r + 1 < a
    BY <1>6, <1>4, <1>3
  <2>2. r + 1 \in Byte
    <3>1. a <= FinSeq
      BY <1>3, <1>5 DEF a
    <3> QED
      BY <2>1, <3>1, <1>3, <1>4, StreamAssumption DEF Byte, FinSeq
  <2>3. r + 1 \in Held(m_data)
    BY <2>1, <2>2, <1>3, <1>4
  <2> DEFINE k == EntryOf(m_data, r + 1)
  <2>4. k \in DOMAIN m_data /\ k <= r + 1
    BY <2>3, <1>1, EntryOfHeld
  <2>5. b <= k
    BY <1>1, <2>4
  <2>6. k \in Byte
    BY <2>4, <1>1, EntryHeld
  <2> HIDE DEF k
  <2> QED
    BY <2>4, <2>5, <2>6, <1>2, <1>3, StreamAssumption DEF Byte
<1>7. ASSUME m_availBytes = 0 PROVE m_nextRxSeq < b
  <2>1. a = r + 1 /\ a < b
    BY <1>2, <1>3, <1>4, <1>7, StreamAssumption DEF Byte
  <2>2. ~ Finished
    BY <2>1, <1>2, <1>3, <1>5, StreamAssumption DEF Byte, FinSeq, a
  <2> QED
    BY <2>1, <2>2 DEF a
<1> QED
  BY <1>1, <1>2, <1>6, <1>7 DEF b, r

\* Until the FIN is known, the right edge is the end of the window.
LEMMA EdgeIs ==
    ASSUME Inv, synced, ~ m_gotFin
    PROVE  MaxRxSequence = Len(delivered) + 1 + m_maxBuffer
<1>1. ~ Finished
  BY DEF Finished
<1>2. m_maxBuffer \in Nat /\ m_availBytes \in Nat
  BY StreamAssumption, BufferAssumption DEF Inv, TypeOK
<1>3. /\ m_nextRxSeq \in Nat /\ Len(delivered) \in Nat
      /\ m_availBytes = m_nextRxSeq - (Len(delivered) + 1)
  BY <1>1, AckedFacts, StreamAssumption DEF FinSeq
<1>4. CASE m_availBytes = 0
  <2>1. m_nextRxSeq = Len(delivered) + 1
    BY <1>3, <1>4
  <2>2. ~ (DOMAIN m_data # {} /\ m_nextRxSeq > Begin(m_data))
    BY <1>3, <1>4, BeginIs, StreamAssumption DEF Byte
  <2> QED
    BY <2>1, <2>2 DEF MaxRxSequence
<1>5. CASE m_availBytes > 0
  <2>1. DOMAIN m_data # {}
    <3>1. m_nextRxSeq > Len(delivered) + 1 /\ Len(delivered) + 1 \in Byte
      BY <1>1, <1>3, <1>5, AckedFacts, StreamAssumption DEF Byte, FinSeq
    <3>2. Len(delivered) + 1 \in Held(m_data)
      BY <1>1, <1>3, <3>1, AckedFacts
    <3> QED
      BY <3>2 DEF Held, BytesOf
  <2>2. Begin(m_data) = Len(delivered) + 1
    BY <2>1, <1>5, BeginIs
  <2> QED
    BY <2>1, <2>2, <1>3, <1>5 DEF MaxRxSequence
<1> QED
  BY <1>2, <1>4, <1>5

(***************************************************************************)
(* Add.  Where the new fragment lies, and what the map holds with it.      *)
(***************************************************************************)
\* The trimmed segment lies inside the one that arrived and above m_nextRxSeq.
LEMMA TrimFacts ==
    ASSUME Inv, synced, ~ Finished, NEW s \in 1 .. FinSeq, NEW e \in 1 .. FinSeq, Fits(s, e)
    PROVE  /\ TrimTail(e) \in Nat /\ TrimTail(e) <= e
           /\ TrimHead(s, e) \in 1 .. FinSeq
           /\ s <= TrimHead(s, e) /\ m_nextRxSeq <= TrimHead(s, e)
           /\ TrimHead(s, e) < TrimTail(e)
<1>1. FinSeq \in Nat /\ m_nextRxSeq \in 1 .. FinSeq /\ m_maxBuffer \in Nat
  BY AckedFacts, StreamAssumption, BufferAssumption DEF FinSeq, Inv, TypeOK
<1>2. TrimHead(s, e) < TrimTail(e)
  BY DEF Fits
<1>3. CASE DOMAIN m_data = {}
  <2>1. TrimTail(e) = e /\ TrimHead(s, e) = Greater(s, m_nextRxSeq)
    BY <1>3 DEF TrimTail, TrimHead
  <2> QED
    BY <2>1, <1>1, <1>2 DEF Greater
<1>4. CASE DOMAIN m_data # {}
  <2>1. Begin(m_data) \in Nat
    BY <1>4, BeginIs, StreamAssumption DEF Byte
  <2>2. TrimTail(e) = Lesser(e, Begin(m_data) + m_maxBuffer)
    BY <1>4 DEF TrimTail
  <2>3. TrimTail(e) \in Nat /\ TrimTail(e) <= e
    BY <2>1, <2>2, <1>1 DEF Lesser
  <2>4. TrimHead(s, e) = Lesser(Greater(s, m_nextRxSeq), TrimTail(e))
    BY <1>4 DEF TrimHead
  <2>5. TrimHead(s, e) = Greater(s, m_nextRxSeq)
    BY <2>3, <2>4, <1>1, <1>2 DEF Lesser
  <2> QED
    BY <2>3, <2>5, <1>1, <1>2 DEF Greater
<1> QED
  BY <1>3, <1>4

\* The fragment starts at a missing byte, is not empty, and ends where the
\* trimmed segment ends or where a held entry that covers its end begins.
LEMMA FragmentFacts ==
    ASSUME Inv, synced, ~ Finished, NEW s \in 1 .. FinSeq, NEW e \in 1 .. FinSeq, Fits(s, e)
    PROVE  /\ NewHead(s, e) \in Byte /\ NewTail(e) \in 1 .. FinSeq
           /\ s <= NewHead(s, e) /\ m_nextRxSeq <= NewHead(s, e)
           /\ NewHead(s, e) < NewTail(e)
           /\ NewTail(e) <= TrimTail(e) /\ TrimTail(e) \in Nat /\ TrimTail(e) <= e
           /\ NewHead(s, e) \notin Held(m_data)
           /\ \A k \in DOMAIN m_data :
                 IF k < TrimTail(e) /\ TrimTail(e) <= LastByte(m_data, k)
                 THEN NewTail(e) = k
                 ELSE TrimTail(e) <= k \/ LastByte(m_data, k) <= NewTail(e)
<1> DEFINE h0 == TrimHead(s, e)
           t0 == TrimTail(e)
           head == NewHead(s, e)
           tail == NewTail(e)
<1>0. MapOK(m_data)
  BY DEF Inv
<1>1. /\ t0 \in Nat /\ t0 <= e /\ h0 \in 1 .. FinSeq
      /\ s <= h0 /\ m_nextRxSeq <= h0 /\ h0 < t0 /\ head < t0
  BY TrimFacts DEF Fits
<1>2. FinSeq \in Nat /\ m_nextRxSeq \in 1 .. FinSeq
  BY AckedFacts, StreamAssumption DEF FinSeq
<1>3. /\ head \in h0 .. FinSeq /\ head \notin Held(m_data)
  BY <1>1, FirstMissingFacts DEF NewHead
<1> DEFINE k0 == EntryOf(m_data, t0 - 1)
<1>4. tail = IF t0 - 1 \in Held(m_data) THEN k0 ELSE t0
  BY DEF NewTail
<1>5. \A k \in DOMAIN m_data :
         /\ k \in Byte /\ LastByte(m_data, k) \in 2 .. FinSeq /\ k < LastByte(m_data, k)
         /\ head < k \/ LastByte(m_data, k) <= head
  <2> TAKE k \in DOMAIN m_data
  <2>1. /\ k \in Byte /\ LastByte(m_data, k) \in 2 .. FinSeq /\ k < LastByte(m_data, k)
        /\ \A x \in k .. (LastByte(m_data, k) - 1) : x \in Held(m_data)
    BY <1>0, EntryHeld
  <2>2. ~ (k <= head /\ head < LastByte(m_data, k))
    BY <2>1, <1>2, <1>3, StreamAssumption DEF Byte
  <2> QED
    BY <2>1, <2>2, <1>2, <1>3, StreamAssumption DEF Byte
<1>6. ASSUME t0 - 1 \in Held(m_data)
      PROVE  /\ k0 \in DOMAIN m_data /\ k0 < t0 /\ t0 <= LastByte(m_data, k0) /\ head < k0
             /\ \A k \in DOMAIN m_data :
                   k < t0 /\ t0 <= LastByte(m_data, k) => k = k0
  <2>1. /\ k0 \in DOMAIN m_data
        /\ k0 <= t0 - 1 /\ t0 - 1 < LastByte(m_data, k0)
        /\ \A k \in DOMAIN m_data : Holds(m_data, k, t0 - 1) => k = k0
    BY <1>0, <1>6, EntryOfHeld
  <2>2. k0 \in Byte /\ LastByte(m_data, k0) \in 2 .. FinSeq
        /\ (head < k0 \/ LastByte(m_data, k0) <= head)
    BY <1>5, <2>1
  <2> HIDE DEF k0
  <2>3. k0 < t0 /\ t0 <= LastByte(m_data, k0)
    BY <2>1, <2>2, <1>1, <1>2, StreamAssumption DEF Byte
  <2>4. head < k0
    BY <2>2, <2>3, <1>1, <1>2, <1>3, StreamAssumption DEF Byte
  <2>5. \A k \in DOMAIN m_data : k < t0 /\ t0 <= LastByte(m_data, k) => k = k0
    BY <2>1, <1>1, <1>2, <1>5, StreamAssumption DEF Byte, Holds
  <2> QED
    BY <2>1, <2>3, <2>4, <2>5
<1>7. ASSUME t0 - 1 \notin Held(m_data), NEW k \in DOMAIN m_data
      PROVE  ~ (k < t0 /\ t0 <= LastByte(m_data, k))
  <2>1. /\ k \in Byte /\ LastByte(m_data, k) \in 2 .. FinSeq
        /\ \A x \in k .. (LastByte(m_data, k) - 1) : x \in Held(m_data)
    BY <1>0, EntryHeld
  <2> QED
    BY <2>1, <1>1, <1>2, <1>7, StreamAssumption DEF Byte
<1> HIDE DEF h0, t0, head, k0
<1>8. tail \in 1 .. FinSeq /\ head < tail /\ tail <= t0
  <2>1. CASE t0 - 1 \in Held(m_data)
    BY <2>1, <1>1, <1>2, <1>3, <1>4, <1>5, <1>6, StreamAssumption DEF Byte
  <2>2. CASE t0 - 1 \notin Held(m_data)
    BY <2>2, <1>1, <1>2, <1>3, <1>4, StreamAssumption DEF Byte
  <2> QED
    BY <2>1, <2>2
<1>9. ASSUME NEW k \in DOMAIN m_data
      PROVE  IF k < t0 /\ t0 <= LastByte(m_data, k)
             THEN tail = k
             ELSE t0 <= k \/ LastByte(m_data, k) <= tail
  <2>1. k \in Nat /\ LastByte(m_data, k) \in Nat /\ k < LastByte(m_data, k)
    BY <1>5, <1>2, StreamAssumption DEF Byte
  <2>2. CASE t0 - 1 \in Held(m_data)
    <3>1. tail = k0 /\ k0 \in Nat /\ LastByte(m_data, k0) \in Nat
      BY <2>2, <1>4, <1>5, <1>6, <1>2, StreamAssumption DEF Byte
    <3>2. (k0 < k => LastByte(m_data, k0) <= k) /\ (k < k0 => LastByte(m_data, k) <= k0)
      BY <2>2, <1>0, <1>6 DEF MapOK, Disjoint
    <3> QED
      BY <2>1, <2>2, <3>1, <3>2, <1>6, <1>1
  <2>3. CASE t0 - 1 \notin Held(m_data)
    <3>1. tail = t0 /\ ~ (k < t0 /\ t0 <= LastByte(m_data, k))
      BY <2>3, <1>4, <1>7
    <3> QED
      BY <3>1, <2>1, <1>1
  <2> QED
    BY <2>2, <2>3
<1>10. head \in Byte /\ s <= head /\ m_nextRxSeq <= head
  BY <1>1, <1>2, <1>3, StreamAssumption DEF Byte, FinSeq
<1> HIDE DEF tail
<1>11. \A k \in DOMAIN m_data :
          IF k < t0 /\ t0 <= LastByte(m_data, k)
          THEN tail = k
          ELSE t0 <= k \/ LastByte(m_data, k) <= tail
  BY <1>9
<1> QED
  BY <1>1, <1>3, <1>8, <1>10, <1>11 DEF h0, t0, head, tail

\* Storing the fragment keeps the map well formed, adds exactly the fragment's
\* bytes, and the entries it replaces held exactly the bytes both have.
LEMMA DataWithFacts ==
    ASSUME Inv, synced, ~ Finished, NEW s \in 1 .. FinSeq, NEW e \in 1 .. FinSeq, Fits(s, e)
    PROVE  /\ MapOK(DataWith(s, e))
           /\ Held(DataWith(s, e)) = Held(m_data) \cup (NewHead(s, e) .. (NewTail(e) - 1))
           /\ BytesOf(m_data, Embedded(s, e))
                 = Held(m_data) \cap (NewHead(s, e) .. (NewTail(e) - 1))
<1> DEFINE t0 == TrimTail(e)
           head == NewHead(s, e)
           tail == NewTail(e)
           E == Embedded(s, e)
           D == DataWith(s, e)
           f == [off |-> head, len |-> tail - head]
<1>0. MapOK(m_data) /\ FinSeq \in Nat /\ StreamLen \in Nat /\ FinSeq = StreamLen + 1
  BY StreamAssumption DEF Inv, FinSeq
<1>1. /\ head \in Byte /\ tail \in 1 .. FinSeq /\ s <= head /\ head < tail /\ tail <= t0
      /\ t0 \in Nat /\ t0 <= e /\ head \notin Held(m_data)
      /\ \A k \in DOMAIN m_data :
            IF k < t0 /\ t0 <= LastByte(m_data, k)
            THEN tail = k
            ELSE t0 <= k \/ LastByte(m_data, k) <= tail
  BY FragmentFacts
<1>2. D = [k \in (DOMAIN m_data \ E) \cup {head} |-> IF k = head THEN f ELSE m_data[k]]
  BY <1>1, <1>0 DEF DataWith, CreateFragment, Byte
<1>3. E = {k \in DOMAIN m_data : head < k /\ LastByte(m_data, k) < t0}
  BY DEF Embedded
<1> HIDE DEF t0, head, tail, E, D
<1>4. \A k \in DOMAIN m_data :
         /\ k \in Byte /\ k \in Nat /\ LastByte(m_data, k) \in Nat /\ k < LastByte(m_data, k)
         /\ LastByte(m_data, k) <= FinSeq /\ k # head
         /\ head < k \/ LastByte(m_data, k) <= head
  <2> TAKE k \in DOMAIN m_data
  <2>1. /\ k \in Byte /\ LastByte(m_data, k) \in 2 .. FinSeq /\ k < LastByte(m_data, k)
        /\ k \in Held(m_data)
        /\ \A x \in k .. (LastByte(m_data, k) - 1) : x \in Held(m_data)
    BY <1>0, EntryHeld
  <2>2. ~ (k <= head /\ head < LastByte(m_data, k))
    BY <2>1, <1>0, <1>1 DEF Byte
  <2> QED
    BY <2>1, <2>2, <1>0, <1>1 DEF Byte
<1>5. \A k \in DOMAIN m_data : k \in E <=> (head < k /\ k < tail)
  <2> TAKE k \in DOMAIN m_data
  <2> QED
    BY <1>1, <1>3, <1>4, <1>0 DEF Byte
<1>6. \A k \in E : k \in DOMAIN m_data /\ LastByte(m_data, k) <= tail
  BY <1>1, <1>3, <1>4, <1>5, <1>0 DEF Byte
<1>7. /\ DOMAIN D = (DOMAIN m_data \ E) \cup {head}
      /\ D[head] = f /\ LastByte(D, head) = tail
      /\ \A k \in DOMAIN m_data \ E : D[k] = m_data[k] /\ LastByte(D, k) = LastByte(m_data, k)
  BY <1>0, <1>1, <1>2, <1>4 DEF LastByte, Byte
<1>8. MapOK(D)
  <2>1. DOMAIN D \subseteq Byte
    BY <1>1, <1>4, <1>7
  <2>2. f \in Packet /\ f.off = head
    BY <1>0, <1>1 DEF Packet, Byte
  <2>3. ASSUME NEW k \in DOMAIN D
        PROVE  D[k] \in Packet /\ D[k].off = k /\ LastByte(D, k) <= FinSeq
    <3>1. CASE k = head
      BY <3>1, <2>2, <1>7, <1>1, <1>0
    <3>2. CASE k \in DOMAIN m_data \ E
      BY <3>2, <1>7, <1>0 DEF MapOK
    <3> QED
      BY <3>1, <3>2, <1>7
  <2>4. ASSUME NEW k \in DOMAIN D, NEW l \in DOMAIN D, k < l
        PROVE  LastByte(D, k) <= l
    <3>1. CASE k = head /\ l = head
      BY <3>1, <2>4, <1>1, <1>0 DEF Byte
    <3>2. CASE k = head /\ l \in DOMAIN m_data \ E
      BY <3>2, <2>4, <1>4, <1>5, <1>7, <1>1, <1>0 DEF Byte
    <3>3. CASE k \in DOMAIN m_data \ E /\ l = head
      BY <3>3, <2>4, <1>4, <1>7, <1>1, <1>0 DEF Byte
    <3>4. CASE k \in DOMAIN m_data \ E /\ l \in DOMAIN m_data \ E
      BY <3>4, <2>4, <1>7, <1>0 DEF MapOK, Disjoint
    <3> QED
      BY <3>1, <3>2, <3>3, <3>4, <1>7
  <2> QED
    BY <2>1, <2>3, <2>4 DEF MapOK, Disjoint
<1>9. Held(D) = Held(m_data) \cup (head .. (tail - 1))
  <2>1. ASSUME NEW x \in Byte
        PROVE  x \in Held(D) <=> (x \in Held(m_data) \/ x \in head .. (tail - 1))
    <3>0. x \in Nat
      BY <1>0 DEF Byte
    <3>1. x \in Held(D) <=> \E k \in DOMAIN D : k <= x /\ x < LastByte(D, k)
      BY DEF Held, BytesOf, Holds
    <3>2. x \in Held(m_data) <=> \E k \in DOMAIN m_data : k <= x /\ x < LastByte(m_data, k)
      BY DEF Held, BytesOf, Holds
    <3>3. ASSUME x \in Held(D) PROVE x \in Held(m_data) \/ x \in head .. (tail - 1)
      <4>1. PICK k \in DOMAIN D : k <= x /\ x < LastByte(D, k)
        BY <3>1, <3>3
      <4>2. CASE k = head
        BY <4>1, <4>2, <3>0, <1>7, <1>1, <1>0 DEF Byte
      <4>3. CASE k \in DOMAIN m_data \ E
        BY <4>1, <4>3, <3>2, <1>7
      <4> QED
        BY <4>2, <4>3, <1>7
    <3>4. ASSUME x \in head .. (tail - 1) PROVE x \in Held(D)
      BY <3>1, <3>4, <1>7, <1>1, <1>0 DEF Byte
    <3>5. ASSUME x \in Held(m_data) PROVE x \in Held(D)
      <4>1. PICK k \in DOMAIN m_data : k <= x /\ x < LastByte(m_data, k)
        BY <3>2, <3>5
      <4>2. CASE k \in E
        <5>1. x \in head .. (tail - 1)
          BY <4>1, <4>2, <3>0, <1>4, <1>5, <1>6, <1>1, <1>0 DEF Byte
        <5> QED BY <5>1, <3>4
      <4>3. CASE k \notin E
        BY <4>1, <4>3, <3>1, <1>7
      <4> QED
        BY <4>2, <4>3
    <3> QED
      BY <3>3, <3>4, <3>5
  <2>2. Held(D) \subseteq Byte /\ Held(m_data) \subseteq Byte
    BY HeldBytes
  <2>3. head .. (tail - 1) \subseteq Byte
    BY <1>1, <1>0 DEF Byte
  <2> QED
    BY <2>1, <2>2, <2>3
<1>10. BytesOf(m_data, E) = Held(m_data) \cap (head .. (tail - 1))
  <2>1. ASSUME NEW x \in Byte
        PROVE  x \in BytesOf(m_data, E) <=> (x \in Held(m_data) /\ x \in head .. (tail - 1))
    <3>0. x \in Nat
      BY <1>0 DEF Byte
    <3>1. x \in BytesOf(m_data, E) <=> \E k \in E : k <= x /\ x < LastByte(m_data, k)
      BY DEF BytesOf, Holds
    <3>2. x \in Held(m_data) <=> \E k \in DOMAIN m_data : k <= x /\ x < LastByte(m_data, k)
      BY DEF Held, BytesOf, Holds
    <3>3. ASSUME NEW k \in DOMAIN m_data, k <= x, x < LastByte(m_data, k)
          PROVE  k \in E <=> x \in head .. (tail - 1)
      BY <3>0, <3>3, <1>1, <1>4, <1>5, <1>6, <1>0 DEF Byte
    <3> QED
      BY <3>1, <3>2, <3>3, <1>6
  <2>2. BytesOf(m_data, E) \subseteq Byte /\ Held(m_data) \subseteq Byte
    BY DEF BytesOf, Held
  <2> QED
    BY <2>1, <2>2
<1> QED
  BY <1>8, <1>9, <1>10 DEF head, tail, E, D

\* The number of bytes held is a natural number up to StreamLen.
LEMMA HeldFinite ==
    ASSUME NEW d
    PROVE  IsFiniteSet(Held(d)) /\ Cardinality(Held(d)) \in 0 .. StreamLen
<1>1. IsFiniteSet(Byte) /\ Cardinality(Byte) = StreamLen
  <2>1. IsFiniteSet(1 .. StreamLen) /\ Cardinality(1 .. StreamLen) = StreamLen
    BY FS_Interval, StreamAssumption
  <2> QED
    BY <2>1 DEF Byte
<1>2. Held(d) \in SUBSET Byte
  BY HeldBytes
<1>3. IsFiniteSet(Held(d)) /\ Cardinality(Held(d)) <= StreamLen
  BY <1>1, <1>2, FS_Subset
<1> QED
  BY <1>3, FS_CardinalityType, StreamAssumption

\* A segment that Fits is stored: the invariant survives.
LEMMA StoreStep ==
    ASSUME Inv, synced, ~ Finished, NEW s \in 1 .. FinSeq, NEW e \in 1 .. FinSeq, Fits(s, e),
           e <= Len(delivered) + 1 + m_maxBuffer,
           NEW fin \in BOOLEAN, NEW q \in 0 .. FinSeq,
           fin => q = FinSeq /\ FinSeq <= Len(delivered) + 1 + m_maxBuffer,
           m_gotFin' = fin, m_finSeq' = q,
           StoreSegment(s, e, fin, q), UNCHANGED <<synced, m_maxBuffer, delivered>>
    PROVE  Inv' /\ Held(m_data) \subseteq Held(m_data)'
<1> DEFINE head == NewHead(s, e)
           tail == NewTail(e)
           D == DataWith(s, e)
           H == Held(m_data)
           I == head .. (tail - 1)
           n == m_nextRxSeq
           r == Len(delivered)
           next == FirstMissing(D, n)
           sack == IF head > n THEN UpdateSackList(m_sackList, head, tail) ELSE m_sackList
<1>0. FinSeq \in Nat /\ StreamLen \in Nat /\ FinSeq = StreamLen + 1 /\ m_maxBuffer \in Nat
  BY StreamAssumption, BufferAssumption DEF FinSeq, Inv, TypeOK
<1>1. /\ head \in Byte /\ tail \in 1 .. FinSeq /\ n <= head /\ head < tail /\ tail <= e
      /\ head \notin H
  BY FragmentFacts, <1>0
<1>2. /\ MapOK(D) /\ Held(D) = H \cup I
      /\ BytesOf(m_data, Embedded(s, e)) = H \cap I
  BY DataWithFacts
<1>3. /\ n \in 1 .. FinSeq /\ r \in Nat /\ r < n /\ m_availBytes = n - (r + 1)
      /\ n \notin H /\ \A x \in Byte : x < n => (x \in H <=> r < x)
  BY AckedFacts
<1>4. /\ next \in n .. FinSeq /\ next \notin Held(D)
      /\ \A y \in n .. (next - 1) : y \in Held(D)
  BY <1>3, FirstMissingFacts
<1>5. n < FinSeq
  BY <1>0, <1>1, <1>3 DEF Byte
<1>6. /\ m_data' = D
      /\ m_size' = m_size - Cardinality(BytesOf(m_data, Embedded(s, e))) + (tail - head)
      /\ tputBytes' = tputBytes + (tail - head)
      /\ m_sackList' = IF next > n THEN ClearSackList(sack, next) ELSE sack
      /\ m_availBytes' = m_availBytes + (next - n)
      /\ m_nextRxSeq' = IF fin /\ next = q THEN next + 1 ELSE next
  BY DEF StoreSegment
<1>7. synced' /\ m_maxBuffer' = m_maxBuffer /\ delivered' = delivered
  OBVIOUS
<1>8. sack \in Seq(Block) /\ SackIn(sack, n, Held(D))
  <2>1. m_sackList \in Seq(Block) /\ SackIn(m_sackList, n, Held(D))
    BY <1>2 DEF Inv, TypeOK, SackReportsHeldBytes, SackIn, BlockIn
  <2>2. CASE head > n
    <3>1. \A x \in head .. (tail - 1) : x \in Held(D)
      BY <1>2
    <3>2. head \in 1 .. FinSeq /\ n \in Nat
      BY <1>0, <1>1, <1>3 DEF Byte
    <3> HIDE DEF head, tail, D, n
    <3>3. /\ UpdateSackList(m_sackList, head, tail) \in Seq(Block)
          /\ SackIn(UpdateSackList(m_sackList, head, tail), n, Held(D))
      BY <2>1, <2>2, <3>1, <3>2, <1>1, UpdateSackFacts
    <3> QED
      BY <2>2, <3>3
  <2>3. CASE ~ (head > n)
    BY <2>1, <2>3
  <2> QED
    BY <2>2, <2>3
<1> HIDE DEF head, tail, D, next, sack
<1>9. m_sackList' \in Seq(Block) /\ SackIn(m_sackList', m_nextRxSeq', Held(D))
  <2>1. CASE next = n
    <3>1. m_sackList' = sack /\ m_nextRxSeq' = n
      BY <2>1, <1>0, <1>3, <1>5, <1>6
    <3> QED
      BY <3>1, <1>8
  <2>2. CASE next > n
    <3>1. m_sackList' = ClearSackList(sack, next)
      BY <2>2, <1>6
    <3>2. m_sackList' \in Seq(Block) /\ SackIn(m_sackList', next, Held(D))
      BY <3>1, <1>0, <1>3, <1>4, <1>8, ClearSackFacts
    <3>3. CASE m_nextRxSeq' = next
      BY <3>2, <3>3
    <3>4. CASE m_nextRxSeq' = FinSeq + 1 /\ next = FinSeq
      <4>1. \A i \in 1 .. Len(m_sackList') : m_sackList'[i] \in Block
        BY <3>2, ElementOfSeq
      <4>2. \A i \in 1 .. Len(m_sackList') : FALSE
        BY <3>2, <3>4, <4>1, <1>0 DEF SackIn, BlockIn, Block
      <4> QED
        BY <3>2, <4>2 DEF SackIn
    <3> QED
      BY <3>3, <3>4, <1>6, <1>0
  <2> QED
    BY <2>1, <2>2, <1>0, <1>3, <1>4
<1>10. Held(m_data)' = H \cup I
  <2>1. Held(m_data)' = Held(D)
    BY <1>6 DEF Held, BytesOf, Holds, LastByte, Byte
  <2> QED
    BY <2>1, <1>2
<1>11. MapOK(m_data)'
  <2>1. MapOK(m_data)' <=> MapOK(m_data')
    BY DEF MapOK, Disjoint, LastByte, Byte, Packet, FinSeq
  <2> QED
    BY <2>1, <1>2, <1>6
<1>12. (m_size = Cardinality(Held(m_data)))'
  <2>1. IsFiniteSet(H) /\ IsFiniteSet(I) /\ Cardinality(I) = tail - head
    <3>1. head \in Int /\ tail - 1 \in Int /\ ~ (head > tail - 1)
      BY <1>0, <1>1 DEF Byte
    <3>2. IsFiniteSet(I) /\ Cardinality(I) = (tail - 1) - head + 1
      BY <3>1, FS_Interval
    <3> QED
      BY <3>1, <3>2, HeldFinite, <1>0, <1>1 DEF Byte
  <2>2. Cardinality(H \cup I) = Cardinality(H) + Cardinality(I) - Cardinality(H \cap I)
    <3> HIDE DEF H, I
    <3> QED BY <2>1, FS_Union
  <2>3. m_size = Cardinality(H)
    BY DEF Inv
  <2>4. Cardinality(H \cap I) \in Nat /\ Cardinality(H) \in Nat
    <3>1. IsFiniteSet(H \cap I)
      <4> HIDE DEF H, I
      <4> QED BY <2>1, FS_Intersection
    <3> HIDE DEF H, I
    <3> QED BY <2>1, <3>1, FS_CardinalityType
  <2>5. m_size' = Cardinality(H \cup I)
    <3> HIDE DEF H, I
    <3> QED BY <2>1, <2>2, <2>3, <2>4, <1>2, <1>6, <1>0, <1>1 DEF Byte
  <2> QED
    BY <2>5, <1>10
<1>13. WindowOK'
  <2>1. \A x \in H : r < x /\ x <= r + m_maxBuffer
    BY DEF Inv, WindowOK
  <2>2. \A x \in I : r < x /\ x <= r + m_maxBuffer
    BY <1>0, <1>1, <1>3 DEF Byte
  <2> QED
    BY <2>1, <2>2, <1>7, <1>10 DEF WindowOK
<1>14. FinOK'
  BY <1>0, <1>3, <1>4, <1>6, <1>7 DEF FinOK, FinSeq
<1>15. SyncOK'
  BY <1>0, <1>3, <1>4, <1>6, <1>7 DEF SyncOK
<1>16. AckedBytesAreHeld'
  <2> DEFINE a == IF Finished' THEN m_nextRxSeq' - 1 ELSE m_nextRxSeq'
  <2>1. a = next
    BY <1>0, <1>3, <1>4, <1>6 DEF Finished
  <2>2. m_availBytes' = a - (r + 1)
    BY <2>1, <1>0, <1>3, <1>4, <1>6
  <2>3. next \notin H \cup I
    BY <1>2, <1>4
  <2>4. \A x \in Byte : x < next => (x \in H \cup I <=> r < x)
    <3> TAKE x \in Byte
    <3>1. x \in Nat /\ next \in Nat
      BY <1>0, <1>3, <1>4 DEF Byte
    <3>2. CASE x < n
      <4>1. x \notin I
        BY <3>1, <3>2, <1>0, <1>1, <1>3 DEF Byte
      <4> QED
        BY <3>2, <4>1, <1>3
    <3>3. CASE n <= x /\ x < next
      <4>1. x \in H \cup I
        BY <3>1, <3>3, <1>2, <1>3, <1>4, <1>0
      <4> QED
        BY <4>1, <3>1, <3>3, <1>3, <1>0
    <3> QED
      BY <3>1, <3>2, <3>3, <1>3, <1>0
  <2> HIDE DEF a, H, I
  <2> QED
    BY <2>1, <2>2, <2>3, <2>4, <1>7, <1>10 DEF AckedBytesAreHeld, a, Byte
<1>17. SackReportsHeldBytes'
  BY <1>2, <1>9, <1>10 DEF SackReportsHeldBytes, SackIn, BlockIn
<1>18. InOrderDelivery'
  BY <1>7 DEF InOrderDelivery, Inv
<1>19. TypeOK'
  <2>1. DOMAIN m_data' \subseteq Byte /\ \A k \in DOMAIN m_data' : m_data'[k] \in Packet
    BY <1>2, <1>6 DEF MapOK
  <2>2. m_size' \in 0 .. StreamLen
    <3>1. m_size' = Cardinality(Held(D))
      BY <1>2, <1>10, <1>12
    <3> QED
      BY <3>1, HeldFinite
  <2>3. m_availBytes' \in 0 .. StreamLen
    BY <1>0, <1>3, <1>4, <1>6
  <2>4. m_nextRxSeq' \in 0 .. (FinSeq + 1)
    BY <1>0, <1>3, <1>4, <1>6
  <2>5. tputBytes' \in Nat
    BY <1>0, <1>1, <1>6 DEF Inv, TypeOK, Byte
  <2>6. /\ synced' \in BOOLEAN /\ m_gotFin' \in BOOLEAN /\ m_finSeq' \in 0 .. FinSeq
        /\ m_maxBuffer' \in BufferSizes /\ delivered' \in Seq(Byte)
    BY <1>7 DEF Inv, TypeOK
  <2> QED
    BY <2>1, <2>2, <2>3, <2>4, <2>5, <2>6, <1>9 DEF TypeOK, Byte, Packet, FinSeq, Block
<1>20. H \subseteq Held(m_data)'
  BY <1>10
<1> QED
  BY <1>11, <1>12, <1>13, <1>14, <1>15, <1>16, <1>17, <1>18, <1>19, <1>20 DEF Inv

(***************************************************************************)
(* Extract.                                                                *)
(***************************************************************************)
\* The map that is left when the bytes below cut are taken out.
After(cut) ==
    [k \in {j \in DOMAIN m_data : cut <= j} \cup ({cut} \cap Held(m_data)) |->
        CreateFragment(m_data[EntryOf(m_data, k)], k - EntryOf(m_data, k),
                       LastByte(m_data, EntryOf(m_data, k)) - k)]

\* Cutting the front off, through the middle of an entry or not, leaves a well
\* formed map with exactly the bytes from cut on.
LEMMA AfterFacts ==
    ASSUME MapOK(m_data), NEW cut \in Nat
    PROVE  /\ MapOK(After(cut))
           /\ Held(After(cut)) = {x \in Held(m_data) : cut <= x}
<1> DEFINE keys == {j \in DOMAIN m_data : cut <= j} \cup ({cut} \cap Held(m_data))
           src(k) == EntryOf(m_data, k)
           D == After(cut)
<1>0. FinSeq \in Nat /\ StreamLen \in Nat /\ FinSeq = StreamLen + 1
  BY StreamAssumption DEF FinSeq
<1>1. \A k \in DOMAIN m_data :
         /\ k \in Held(m_data) /\ k \in Byte /\ k < LastByte(m_data, k)
         /\ LastByte(m_data, k) \in Nat /\ LastByte(m_data, k) <= FinSeq
         /\ m_data[k].off = k
  BY EntryHeld, <1>0 DEF MapOK
<1>2. \A k \in keys : k \in Held(m_data) /\ k \in Byte /\ k \in Nat /\ cut <= k
  BY <1>1, HeldBytes, <1>0 DEF Byte
<1>3. \A k \in Held(m_data) :
         /\ src(k) \in DOMAIN m_data /\ src(k) <= k /\ k < LastByte(m_data, src(k))
         /\ src(k) \in Nat /\ LastByte(m_data, src(k)) \in Nat
         /\ \A j \in DOMAIN m_data : Holds(m_data, j, k) => j = src(k)
  BY EntryOfHeld, <1>1, <1>0 DEF Byte
<1>4. \A k \in DOMAIN m_data : src(k) = k
  BY <1>1, <1>3, <1>0 DEF Holds, Byte
<1>5. /\ DOMAIN D = keys
      /\ \A k \in keys : /\ D[k] = [off |-> k, len |-> LastByte(m_data, src(k)) - k]
                          /\ LastByte(D, k) = LastByte(m_data, src(k))
  <2>1. DOMAIN D = keys
    BY DEF After
  <2>2. ASSUME NEW k \in keys
        PROVE  D[k] = [off |-> k, len |-> LastByte(m_data, src(k)) - k]
    <3>1. D[k] = [off |-> m_data[src(k)].off + (k - src(k)),
                  len |-> LastByte(m_data, src(k)) - k]
      BY DEF After, CreateFragment
    <3>2. m_data[src(k)].off = src(k) /\ src(k) \in Nat /\ k \in Nat
      BY <1>1, <1>2, <1>3
    <3> HIDE DEF src, keys, D
    <3> QED
      BY <3>1, <3>2
  <2>3. ASSUME NEW k \in keys
        PROVE  LastByte(D, k) = LastByte(m_data, src(k))
    <3>1. D[k].len = LastByte(m_data, src(k)) - k /\ LastByte(D, k) = k + D[k].len
      <4> HIDE DEF src, keys, D
      <4>1. LastByte(D, k) = k + D[k].len
        BY DEF LastByte
      <4>2. D[k] = [off |-> k, len |-> LastByte(m_data, src(k)) - k]
        BY <2>2
      <4>3. D[k].len = LastByte(m_data, src(k)) - k
        BY <4>2
      <4> QED BY <4>1, <4>3
    <3>2. k \in Nat /\ LastByte(m_data, src(k)) \in Nat
      BY <1>2, <1>3
    <3> HIDE DEF src, keys, D
    <3> QED
      BY <3>1, <3>2
  <2> QED
    BY <2>1, <2>2, <2>3
<1>6. \A k \in keys : k \in DOMAIN m_data \/ k = cut
  OBVIOUS
<1>7. \A k \in DOMAIN m_data : cut <= k => k \in keys
  OBVIOUS
<1>8. cut \in Held(m_data) => cut \in keys
  OBVIOUS
<1> HIDE DEF src, keys, D
<1>9. MapOK(D)
  <2>1. \A k \in keys : D[k] \in Packet /\ D[k].off = k /\ LastByte(D, k) <= FinSeq
    <3> TAKE k \in keys
    <3>1. LastByte(m_data, src(k)) <= FinSeq /\ k < LastByte(m_data, src(k))
      BY <1>1, <1>2, <1>3
    <3> QED
      BY <3>1, <1>0, <1>2, <1>3, <1>5 DEF Packet, Byte
  <2>2. ASSUME NEW k \in keys, NEW l \in keys, k < l
        PROVE  LastByte(D, k) <= l
    <3>1. /\ src(k) \in DOMAIN m_data /\ src(l) \in DOMAIN m_data /\ k \in Nat /\ l \in Nat
          /\ src(k) \in Nat /\ src(l) \in Nat /\ src(k) <= k /\ src(l) <= l
          /\ LastByte(m_data, src(k)) \in Nat /\ LastByte(m_data, src(l)) \in Nat
          /\ l < LastByte(m_data, src(l)) /\ cut <= k
      BY <1>2, <1>3
    <3>2. l \in DOMAIN m_data /\ src(l) = l
      BY <2>2, <3>1, <1>4, <1>6
    <3>3. src(k) < l
      BY <2>2, <3>1
    <3>4. LastByte(m_data, src(k)) <= l
      BY <3>1, <3>2, <3>3 DEF MapOK, Disjoint
    <3> QED
      BY <3>4, <1>5
  <2> QED
    BY <2>1, <2>2, <1>2, <1>5 DEF MapOK, Disjoint
<1>10. ASSUME NEW x \in Byte
       PROVE  x \in Held(D) <=> (x \in Held(m_data) /\ cut <= x)
  <2>0. x \in Nat
    BY <1>0 DEF Byte
  <2>1. x \in Held(D) <=> \E k \in keys : k <= x /\ x < LastByte(D, k)
    BY <1>5 DEF Held, BytesOf, Holds
  <2>2. x \in Held(m_data) <=> \E k \in DOMAIN m_data : k <= x /\ x < LastByte(m_data, k)
    BY DEF Held, BytesOf, Holds
  <2>3. ASSUME x \in Held(D) PROVE x \in Held(m_data) /\ cut <= x
    <3>1. PICK k \in keys : k <= x /\ x < LastByte(D, k)
      BY <2>1, <2>3
    <3>2. src(k) \in DOMAIN m_data /\ src(k) <= x /\ x < LastByte(m_data, src(k)) /\ cut <= x
      BY <3>1, <2>0, <1>2, <1>3, <1>5
    <3> QED
      BY <3>2, <2>2
  <2>4. ASSUME x \in Held(m_data), cut <= x PROVE x \in Held(D)
    <3>1. PICK h \in DOMAIN m_data : h <= x /\ x < LastByte(m_data, h)
      BY <2>2, <2>4
    <3>2. CASE cut <= h
      <4>1. h \in keys /\ LastByte(D, h) = LastByte(m_data, h)
        BY <3>2, <1>4, <1>5, <1>7
      <4> QED
        BY <4>1, <3>1, <2>1
    <3>3. CASE h < cut
      <4>1. Holds(m_data, h, cut) /\ cut \in Byte
        BY <2>0, <2>4, <3>1, <3>3, <1>1, <1>0 DEF Holds, Byte
      <4>2. cut \in Held(m_data)
        BY <4>1 DEF Held, BytesOf
      <4>3. cut \in keys /\ src(cut) = h
        BY <4>1, <4>2, <1>3, <1>8
      <4> QED
        BY <4>3, <3>1, <2>1, <2>4, <1>5
    <3> QED
      BY <3>2, <3>3, <1>1, <1>0 DEF Byte
  <2> QED
    BY <2>3, <2>4
<1>11. Held(D) \subseteq Byte /\ Held(m_data) \subseteq Byte
  BY HeldBytes
<1>12. Held(D) = {x \in Held(m_data) : cut <= x}
  BY <1>10, <1>11
<1> QED
  BY <1>9, <1>12 DEF D

\* A read hands over the next bytes of the stream and keeps the invariant.
LEMMA ExtractStep ==
    ASSUME Inv, NEW maxSize \in 1 .. StreamLen, Extract(maxSize)
    PROVE  /\ Inv' /\ synced
           /\ \E n \in 1 .. StreamLen :
                 /\ (Len(delivered) + 1) .. (Len(delivered) + n) \subseteq Held(m_data)
                 /\ delivered' = delivered \o [i \in 1 .. n |-> Len(delivered) + i]
                 /\ Held(m_data)' = Held(m_data) \ ((Len(delivered) + 1) .. (Len(delivered) + n))
<1> DEFINE n == Lesser(maxSize, m_availBytes)
           r == Len(delivered)
           H == Held(m_data)
           cut == r + 1 + n
           I == (r + 1) .. (r + n)
           a == IF Finished THEN m_nextRxSeq - 1 ELSE m_nextRxSeq
<1>0. /\ FinSeq \in Nat /\ StreamLen \in Nat /\ FinSeq = StreamLen + 1 /\ m_maxBuffer \in Nat
      /\ m_nextRxSeq \in 0 .. (FinSeq + 1) /\ m_availBytes \in 0 .. StreamLen
      /\ r \in Nat /\ delivered \in Seq(Byte) /\ MapOK(m_data)
  BY StreamAssumption, BufferAssumption, LenProperties DEF FinSeq, Inv, TypeOK
<1>1. n > 0 /\ n \in 1 .. StreamLen /\ n <= m_availBytes
  BY <1>0 DEF Extract, Lesser
<1>2. synced
  BY <1>0, <1>1 DEF Inv, SyncOK
<1>3. IF Finished THEN m_nextRxSeq = FinSeq + 1 ELSE m_nextRxSeq <= FinSeq
  BY <1>0 DEF Inv, FinOK, Finished
<1>4. /\ a \in Nat /\ a <= FinSeq /\ a <= m_nextRxSeq /\ m_availBytes = a - (r + 1)
      /\ \A x \in Byte : x < a => (x \in H <=> r < x)
      /\ a \notin H
  <2>1. a \in Nat /\ a <= FinSeq /\ a <= m_nextRxSeq
    BY <1>0, <1>2, <1>3 DEF Inv, SyncOK
  <2> QED
    BY <2>1, <1>2 DEF Inv, AckedBytesAreHeld
<1> HIDE DEF a
<1>5. cut \in Nat /\ cut <= a /\ I \subseteq H /\ I \subseteq Byte
  <2>1. cut \in Nat /\ cut <= a
    BY <1>0, <1>1, <1>4
  <2>2. I \subseteq Byte
    BY <2>1, <1>0, <1>1, <1>4 DEF Byte
  <2>3. \A x \in I : r < x /\ x < a
    BY <2>1, <1>0, <1>1, <1>4
  <2> QED
    BY <2>1, <2>2, <2>3, <1>4
<1>6. DOMAIN m_data # {} /\ Begin(m_data) = r + 1
  <2>1. r + 1 \in H
    BY <1>0, <1>1, <1>5
  <2>2. DOMAIN m_data # {}
    BY <2>1 DEF Held, BytesOf
  <2> QED
    BY <2>2, <1>0, <1>1, <1>2, BeginIs
<1>7. \A x \in I : m_data[EntryOf(m_data, x)].off + (x - EntryOf(m_data, x)) = x
  <2> TAKE x \in I
  <2>1. EntryOf(m_data, x) \in DOMAIN m_data
    BY <1>0, <1>5, EntryOfHeld
  <2>2. m_data[EntryOf(m_data, x)].off = EntryOf(m_data, x) /\ EntryOf(m_data, x) \in Nat
    BY <2>1, <1>0 DEF MapOK, Byte
  <2> QED
    BY <2>2, <1>0, <1>1
<1>8. /\ delivered' = delivered \o
            [i \in 1 .. n |-> m_data[EntryOf(m_data, (r + 1) + i - 1)].off
                                + (((r + 1) + i - 1) - EntryOf(m_data, (r + 1) + i - 1))]
      /\ m_data' = After(cut)
      /\ m_size' = m_size - n /\ m_availBytes' = m_availBytes - n
      /\ UNCHANGED <<synced, m_nextRxSeq, m_gotFin, m_finSeq, m_maxBuffer, m_sackList, tputBytes>>
  BY <1>6 DEF Extract, After
<1> HIDE DEF n
<1>9. delivered' = delivered \o [i \in 1 .. n |-> r + i]
  <2>1. \A i \in 1 .. n : (r + 1) + i - 1 = r + i /\ r + i \in I
    BY <1>0, <1>1
  <2>2. \A i \in 1 .. n : m_data[EntryOf(m_data, (r + 1) + i - 1)].off
                             + (((r + 1) + i - 1) - EntryOf(m_data, (r + 1) + i - 1)) = r + i
    <3> TAKE i \in 1 .. n
    <3>1. (r + 1) + i - 1 = r + i /\ r + i \in I
      BY <2>1
    <3>2. m_data[EntryOf(m_data, r + i)].off + ((r + i) - EntryOf(m_data, r + i)) = r + i
      BY <3>1, <1>7
    <3> QED
      BY <3>1, <3>2
  <2> QED
    BY <2>2, <1>8
<1>10. MapOK(After(cut)) /\ Held(After(cut)) = {x \in H : cut <= x}
  BY <1>0, <1>5, AfterFacts
<1>11. {x \in H : cut <= x} = H \ I
  <2>1. \A x \in H : x \in Nat /\ r < x
    BY HeldBytes, <1>0 DEF Inv, WindowOK, Byte
  <2>2. \A x \in H : cut <= x <=> x \notin I
    BY <2>1, <1>0, <1>1
  <2> QED
    BY <2>2
<1>12. Held(m_data)' = H \ I
  <2>1. Held(m_data)' = Held(After(cut))
    BY <1>8 DEF Held, BytesOf, Holds, LastByte, Byte
  <2> QED
    BY <2>1, <1>10, <1>11
<1>13. delivered' \in Seq(Byte) /\ Len(delivered') = r + n
       /\ \A i \in 1 .. (r + n) : delivered'[i] = i
  <2> DEFINE new == [i \in 1 .. n |-> r + i]
  <2>1. new \in Seq(Byte) /\ Len(new) = n
    <3>1. \A i \in 1 .. n : r + i \in Byte
      BY <1>0, <1>1, <1>5
    <3> QED
      BY <3>1, <1>0, <1>1
  <2>2. /\ delivered' \in Seq(Byte) /\ Len(delivered') = r + n
        /\ \A i \in 1 .. (r + n) : delivered'[i] = IF i <= r THEN delivered[i] ELSE new[i - r]
    <3>1. delivered' = delivered \o new
      BY <1>9
    <3> HIDE DEF new
    <3>2. /\ delivered \o new \in Seq(Byte)
          /\ Len(delivered \o new) = Len(delivered) + Len(new)
          /\ \A i \in 1 .. Len(delivered) + Len(new) :
                (delivered \o new)[i] = IF i <= Len(delivered) THEN delivered[i]
                                        ELSE new[i - Len(delivered)]
      BY <2>1, <1>0, ConcatProperties
    <3> QED BY <3>1, <3>2, <2>1
  <2>3. \A i \in 1 .. r : delivered[i] = i
    BY DEF Inv, InOrderDelivery
  <2>4. \A j \in 1 .. n : new[j] = r + j
    OBVIOUS
  <2> HIDE DEF new
  <2>5. \A i \in 1 .. (r + n) : delivered'[i] = i
    <3> TAKE i \in 1 .. (r + n)
    <3>1. CASE i <= r
      BY <3>1, <2>2, <2>3, <1>0, <1>1
    <3>2. CASE i > r
      <4>1. i - r \in 1 .. n
        BY <3>2, <1>0, <1>1
      <4>2. new[i - r] = r + (i - r)
        BY <4>1, <2>4
      <4> QED
        BY <3>2, <4>1, <4>2, <2>2, <1>0, <1>1
    <3> QED
      BY <3>1, <3>2, <1>0, <1>1
  <2> QED
    BY <2>2, <2>5
<1>14. MapOK(m_data)'
  <2>1. MapOK(m_data)' <=> MapOK(m_data')
    BY DEF MapOK, Disjoint, LastByte, Byte, Packet, FinSeq
  <2> QED
    BY <2>1, <1>8, <1>10
<1>15. (m_size = Cardinality(Held(m_data)))'
  <2>1. IsFiniteSet(H) /\ Cardinality(H) \in Nat /\ m_size = Cardinality(H)
    BY HeldFinite, <1>0 DEF Inv
  <2>2. Cardinality(I) = n
    <3>1. r + 1 \in Int /\ r + n \in Int /\ ~ (r + 1 > r + n)
      BY <1>0, <1>1
    <3>2. Cardinality(I) = (r + n) - (r + 1) + 1
      BY <3>1, FS_Interval
    <3> QED
      BY <3>2, <1>0, <1>1
  <2>3. H \cap I = I
    BY <1>5
  <2>4. Cardinality(H \ I) = Cardinality(H) - Cardinality(H \cap I)
    <3> HIDE DEF H, I
    <3> QED BY <2>1, FS_Difference
  <2> QED
    BY <2>1, <2>2, <2>3, <2>4, <1>8, <1>12
<1>16. WindowOK'
  <2>1. \A x \in H \ I : x \in Nat /\ cut <= x /\ x <= r + m_maxBuffer
    BY <1>11, HeldBytes, <1>0 DEF Inv, WindowOK, Byte
  <2>2. \A x \in H \ I : r + n < x /\ x <= (r + n) + m_maxBuffer
    BY <2>1, <1>0, <1>1
  <2> QED
    BY <2>2, <1>8, <1>12, <1>13 DEF WindowOK
<1>17. FinOK'
  <2>1. FinOK
    BY DEF Inv
  <2> QED
    BY <2>1, <1>0, <1>1, <1>8, <1>13 DEF FinOK, FinSeq
<1>18. SyncOK'
  BY <1>2, <1>8 DEF SyncOK, Inv
<1>19. AckedBytesAreHeld'
  <2>1. a = IF Finished' THEN m_nextRxSeq' - 1 ELSE m_nextRxSeq'
    BY <1>8 DEF a, Finished
  <2>2. m_availBytes' = a - ((r + n) + 1)
    BY <1>0, <1>1, <1>4, <1>8
  <2>3. \A x \in Byte : x < a => (x \in H \ I <=> r + n < x)
    <3> TAKE x \in Byte
    <3>1. x \in Nat
      BY <1>0 DEF Byte
    <3>2. x < a => (x \in H <=> r < x)
      BY <1>4
    <3> QED
      BY <3>1, <3>2, <1>0, <1>1
  <2>4. a \notin H \ I
    BY <1>4
  <2> QED
    BY <2>1, <2>2, <2>3, <2>4, <1>12, <1>13 DEF AckedBytesAreHeld, Byte
<1>20. SackReportsHeldBytes'
  <2>1. ASSUME NEW i \in 1 .. Len(m_sackList)
        PROVE  /\ m_nextRxSeq < m_sackList[i].first /\ m_sackList[i].first < m_sackList[i].second
               /\ \A x \in m_sackList[i].first .. (m_sackList[i].second - 1) : x \in H \ I
    <3>1. /\ m_nextRxSeq < m_sackList[i].first /\ m_sackList[i].first < m_sackList[i].second
          /\ \A x \in m_sackList[i].first .. (m_sackList[i].second - 1) : x \in H
      BY DEF Inv, SackReportsHeldBytes
    <3>2. m_sackList[i].first \in Nat /\ m_sackList[i].second \in Nat
      <4>1. m_sackList[i] \in Block
        BY ElementOfSeq DEF Inv, TypeOK
      <4> QED
        BY <4>1, <1>0 DEF Block
    <3>3. \A x \in m_sackList[i].first .. (m_sackList[i].second - 1) : x \notin I
      BY <3>1, <3>2, <1>0, <1>1, <1>4, <1>5
    <3> QED
      BY <3>1, <3>3
  <2> QED
    BY <2>1, <1>8, <1>12 DEF SackReportsHeldBytes
<1>21. InOrderDelivery'
  BY <1>13 DEF InOrderDelivery
<1>22. TypeOK'
  <2>1. DOMAIN m_data' \subseteq Byte /\ \A k \in DOMAIN m_data' : m_data'[k] \in Packet
    BY <1>8, <1>10 DEF MapOK
  <2>2. m_size' \in 0 .. StreamLen
    <3>1. m_size' = Cardinality(Held(After(cut)))
      BY <1>10, <1>11, <1>12, <1>15
    <3> QED
      BY <3>1, HeldFinite
  <2>3. m_availBytes' \in 0 .. StreamLen
    BY <1>0, <1>1, <1>8
  <2> QED
    BY <2>1, <2>2, <2>3, <1>8, <1>13 DEF Inv, TypeOK, Byte, Packet, FinSeq, Block
<1>23. Inv'
  BY <1>14, <1>15, <1>16, <1>17, <1>18, <1>19, <1>20, <1>21, <1>22 DEF Inv
<1> QED
  BY <1>1, <1>2, <1>5, <1>9, <1>12, <1>23

(***************************************************************************)
(* The invariant holds initially and every step preserves it.              *)
(***************************************************************************)
\* Nothing is held by an empty map.
LEMMA EmptyHeld ==
    ASSUME NEW d, DOMAIN d = {}
    PROVE  Held(d) = {} /\ MapOK(d) /\ Cardinality(Held(d)) = 0
<1>1. Held(d) = {} /\ MapOK(d)
  BY DEF Held, BytesOf, MapOK, Disjoint
<1> QED
  BY <1>1, FS_EmptySet

\* The constructed buffer satisfies the invariant.
LEMMA InitInv == Init => Inv
<1> SUFFICES ASSUME Init PROVE Inv
  OBVIOUS
<1>1. DOMAIN m_data = {}
  BY DEF Init, EmptyMap
<1>2. Held(m_data) = {} /\ MapOK(m_data) /\ Cardinality(Held(m_data)) = 0
  BY <1>1, EmptyHeld
<1>3. TypeOK
  <2>1. m_sackList \in Seq(Block) /\ delivered \in Seq(Byte)
    BY EmptySeq DEF Init
  <2>2. /\ synced \in BOOLEAN /\ m_gotFin \in BOOLEAN /\ tputBytes \in Nat
        /\ m_maxBuffer \in BufferSizes
    BY DEF Init
  <2>3. /\ m_nextRxSeq \in 0 .. (FinSeq + 1) /\ m_finSeq \in 0 .. FinSeq
        /\ m_size \in 0 .. StreamLen /\ m_availBytes \in 0 .. StreamLen
    BY StreamAssumption DEF Init, FinSeq
  <2> QED
    BY <1>1, <2>1, <2>2, <2>3 DEF TypeOK
<1>4. InOrderDelivery /\ SackReportsHeldBytes
  BY DEF Init, InOrderDelivery, SackReportsHeldBytes
<1> QED
  BY <1>1, <1>2, <1>3, <1>4, StreamAssumption
     DEF Init, Inv, AckedBytesAreHeld, WindowOK, FinOK, SyncOK, FinSeq

\* A segment the peer may send and the socket lets through ends inside the
\* window, and arrives before the FIN is consumed.
LEMMA AcceptedSegment ==
    ASSUME Inv, synced, NEW s \in 1 .. FinSeq, NEW e \in 1 .. FinSeq,
           PeerMaySend(s, e), ~ OutOfRange(s, e)
    PROVE  ~ Finished /\ e <= Len(delivered) + 1 + m_maxBuffer
<1>0. /\ FinSeq \in Nat /\ m_maxBuffer \in Nat /\ Len(delivered) \in Nat
      /\ m_nextRxSeq \in 0 .. (FinSeq + 1)
  BY StreamAssumption, BufferAssumption, LenProperties DEF FinSeq, Inv, TypeOK
<1>1. ~ Finished
  <2>1. Finished => m_nextRxSeq = FinSeq + 1
    BY <1>0 DEF Inv, FinOK, Finished
  <2> QED
    BY <2>1, <1>0 DEF OutOfRange
<1>2. s < MaxRxSequence /\ (e <= MaxRxSequence \/ e = s + 1)
  <2>1. MaxRxSequence \in Int
    BY <1>0, EdgeIs DEF MaxRxSequence, Inv, TypeOK
  <2> QED
    BY <1>0, <1>1, <2>1 DEF OutOfRange, PeerMaySend
<1>3. CASE m_gotFin
  BY <1>0, <1>1, <1>3 DEF Inv, FinOK
<1>4. CASE ~ m_gotFin
  BY <1>0, <1>1, <1>2, <1>4, EdgeIs
<1> QED
  BY <1>1, <1>3, <1>4, <1>0 DEF Inv, TypeOK

\* Steps that change neither the map nor what was delivered.
LEMMA FrameStep ==
    ASSUME Inv, UNCHANGED <<m_data, m_size, m_availBytes, m_sackList, tputBytes, delivered>>
    PROVE  /\ Held(m_data)' = Held(m_data) /\ MapOK(m_data)'
           /\ (m_size = Cardinality(Held(m_data)))'
           /\ InOrderDelivery'
BY DEF Inv, Held, BytesOf, Holds, LastByte, MapOK, Disjoint, Byte, Packet, FinSeq, InOrderDelivery

\* The FIN without data: only m_gotFin, m_finSeq and m_nextRxSeq change.
LEMMA FinStep ==
    ASSUME Inv, synced, m_nextRxSeq <= FinSeq, FinSeq <= MaxRxSequence,
           m_gotFin' = TRUE, m_finSeq' = FinSeq,
           m_nextRxSeq' = IF m_nextRxSeq = FinSeq THEN m_nextRxSeq + 1 ELSE m_nextRxSeq,
           UNCHANGED <<m_data, m_size, tputBytes, m_sackList, m_availBytes, synced, m_maxBuffer,
                       delivered>>
    PROVE  Inv'
<1>0. /\ FinSeq \in Nat /\ m_maxBuffer \in Nat /\ Len(delivered) \in Nat
      /\ m_nextRxSeq \in 1 .. FinSeq /\ m_gotFin \in BOOLEAN
  BY StreamAssumption, BufferAssumption, LenProperties DEF FinSeq, Inv, TypeOK, SyncOK
<1>1. FinSeq <= Len(delivered) + 1 + m_maxBuffer
  <2>1. CASE m_gotFin
    BY <2>1 DEF Inv, FinOK
  <2>2. CASE ~ m_gotFin
    BY <2>2, EdgeIs
  <2> QED
    BY <2>1, <2>2
<1>2. ~ Finished
  BY <1>0 DEF Finished, Inv, FinOK
<1>3. /\ Held(m_data)' = Held(m_data) /\ MapOK(m_data)'
      /\ (m_size = Cardinality(Held(m_data)))' /\ InOrderDelivery'
  BY FrameStep
<1>4. TypeOK' /\ WindowOK' /\ FinOK' /\ SyncOK'
  <2>1. TypeOK'
    BY <1>0 DEF Inv, TypeOK, FinSeq, Byte, Packet, Block
  <2>2. WindowOK'
    BY <1>3 DEF Inv, WindowOK
  <2>3. FinOK' /\ SyncOK'
    BY <1>0, <1>1 DEF FinOK, SyncOK, FinSeq
  <2> QED
    BY <2>1, <2>2, <2>3
<1>5. AckedBytesAreHeld'
  <2>1. m_nextRxSeq = IF Finished' THEN m_nextRxSeq' - 1 ELSE m_nextRxSeq'
    BY <1>0 DEF Finished
  <2>2. /\ m_availBytes = m_nextRxSeq - (Len(delivered) + 1)
        /\ m_nextRxSeq \notin Held(m_data)
        /\ \A x \in Byte : x < m_nextRxSeq => (x \in Held(m_data) <=> Len(delivered) < x)
    BY <1>2, AckedFacts
  <2> QED
    BY <2>1, <2>2, <1>3 DEF AckedBytesAreHeld, Byte
<1>6. SackReportsHeldBytes'
  <2>1. ASSUME NEW i \in 1 .. Len(m_sackList)
        PROVE  /\ m_nextRxSeq' < m_sackList[i].first
               /\ m_sackList[i].first < m_sackList[i].second
               /\ \A x \in m_sackList[i].first .. (m_sackList[i].second - 1) : x \in Held(m_data)
    <3>1. /\ m_nextRxSeq < m_sackList[i].first /\ m_sackList[i].first < m_sackList[i].second
          /\ \A x \in m_sackList[i].first .. (m_sackList[i].second - 1) : x \in Held(m_data)
      BY DEF Inv, SackReportsHeldBytes
    <3>2. m_sackList[i] \in Block
      BY ElementOfSeq DEF Inv, TypeOK
    <3>3. m_nextRxSeq # FinSeq
      BY <3>1, <3>2, <1>0 DEF Block
    <3> QED
      BY <3>1, <3>3
  <2> QED
    BY <2>1, <1>3 DEF SackReportsHeldBytes
<1> QED
  BY <1>3, <1>4, <1>5, <1>6 DEF Inv

\* Every step of the buffer keeps the invariant, and no step but a read lets
\* go of a byte.
LEMMA NextInv ==
    ASSUME Inv, [Next]_vars
    PROVE  /\ Inv'
           /\ \/ Held(m_data) \subseteq Held(m_data)' /\ delivered' = delivered
              \/ \E n \in 1 .. StreamLen : Extract(n)
<1> USE DEF vars
<1>0. FinSeq \in Nat
  BY StreamAssumption DEF FinSeq
<1>1. CASE SetNextRxSequence
  <2>1. /\ UNCHANGED <<m_data, m_size, m_availBytes, m_sackList, tputBytes, delivered, m_maxBuffer,
                       m_gotFin, m_finSeq>>
        /\ synced' = TRUE /\ m_nextRxSeq' = 1 /\ ~ synced
    BY <1>1 DEF SetNextRxSequence
  <2>2. /\ DOMAIN m_data = {} /\ delivered = << >> /\ m_sackList = << >>
        /\ m_availBytes = 0 /\ m_gotFin = FALSE
    BY <2>1 DEF Inv, SyncOK
  <2>3. /\ Held(m_data)' = Held(m_data) /\ MapOK(m_data)' /\ Held(m_data) = {}
        /\ (m_size = Cardinality(Held(m_data)))' /\ InOrderDelivery'
    BY <2>1, <2>2, FrameStep, EmptyHeld
  <2>4. TypeOK'
    BY <2>1, <1>0 DEF Inv, TypeOK, FinSeq, Byte, Packet, Block
  <2>5. WindowOK' /\ FinOK' /\ SyncOK' /\ SackReportsHeldBytes'
    BY <2>1, <2>2, <2>3, StreamAssumption DEF WindowOK, FinOK, SyncOK, SackReportsHeldBytes, FinSeq
  <2>6. AckedBytesAreHeld'
    BY <2>1, <2>2, <2>3, StreamAssumption DEF AckedBytesAreHeld, Finished, Byte
  <2> QED
    BY <2>1, <2>3, <2>4, <2>5, <2>6 DEF Inv
<1>2. ASSUME NEW m \in BufferSizes, SetMaxBufferSize(m) PROVE Inv' /\ UNCHANGED <<m_data, delivered>>
  <2>1. /\ UNCHANGED <<m_data, m_size, m_availBytes, m_sackList, tputBytes, delivered, synced,
                       m_nextRxSeq, m_gotFin, m_finSeq>>
        /\ m_maxBuffer' = m /\ m_maxBuffer < m
    BY <1>2 DEF SetMaxBufferSize
  <2>2. m_maxBuffer \in Nat /\ m \in Nat /\ Len(delivered) \in Nat
    BY BufferAssumption, LenProperties DEF Inv, TypeOK
  <2>3. /\ Held(m_data)' = Held(m_data) /\ MapOK(m_data)'
        /\ (m_size = Cardinality(Held(m_data)))' /\ InOrderDelivery'
    BY <2>1, FrameStep
  <2>4. TypeOK' /\ SyncOK' /\ FinOK'
    BY <2>1, <2>2, <1>0 DEF Inv, TypeOK, SyncOK, FinOK, FinSeq, Byte, Packet, Block
  <2>5. WindowOK'
    <3>1. \A x \in Held(m_data) : x \in Nat /\ Len(delivered) < x /\ x <= Len(delivered) + m_maxBuffer
      BY HeldBytes, StreamAssumption DEF Inv, WindowOK, Byte
    <3> QED
      BY <3>1, <2>1, <2>2, <2>3 DEF WindowOK
  <2>6. AckedBytesAreHeld' /\ SackReportsHeldBytes'
    BY <2>1, <2>3 DEF Inv, AckedBytesAreHeld, SackReportsHeldBytes, Finished, Byte
  <2> QED
    BY <2>1, <2>3, <2>4, <2>5, <2>6 DEF Inv
<1>3. ASSUME NEW s \in 1 .. FinSeq, NEW e \in 1 .. FinSeq, ReceivedData(s, e)
      PROVE  Inv' /\ Held(m_data) \subseteq Held(m_data)' /\ delivered' = delivered
  <2>1. /\ synced /\ PeerMaySend(s, e) /\ ~ OutOfRange(s, e)
        /\ Add(s, e, m_gotFin, m_finSeq)
        /\ UNCHANGED <<synced, m_gotFin, m_finSeq, m_maxBuffer, delivered>>
    BY <1>3 DEF ReceivedData
  <2>2. ~ Finished /\ e <= Len(delivered) + 1 + m_maxBuffer
    BY <2>1, AcceptedSegment
  <2>3. CASE Fits(s, e) /\ StoreSegment(s, e, m_gotFin, m_finSeq)
    <3>1. PICK fin \in BOOLEAN : fin = m_gotFin
      BY DEF Inv, TypeOK
    <3>2. PICK q \in 0 .. FinSeq : q = m_finSeq
      BY DEF Inv, TypeOK
    <3>3. fin => q = FinSeq /\ FinSeq <= Len(delivered) + 1 + m_maxBuffer
      BY <3>1, <3>2 DEF Inv, FinOK
    <3>4. StoreSegment(s, e, fin, q) /\ m_gotFin' = fin /\ m_finSeq' = q
      BY <2>1, <2>3, <3>1, <3>2
    <3> QED
      BY <2>1, <2>2, <2>3, <3>3, <3>4, StoreStep
  <2>4. CASE UNCHANGED <<m_data, m_size, tputBytes, m_sackList, m_availBytes, m_nextRxSeq>>
    <3>1. UNCHANGED vars
      BY <2>1, <2>4
    <3> QED
      BY <3>1 DEF Inv, TypeOK, InOrderDelivery, AckedBytesAreHeld, SackReportsHeldBytes, MapOK,
                  WindowOK, FinOK, SyncOK, Finished, Held, BytesOf, Holds, LastByte, Disjoint,
                  Byte, Packet, Block, FinSeq
  <2> QED
    BY <2>1, <2>3, <2>4 DEF Add
<1>4. ASSUME NEW s \in 1 .. FinSeq, PeerClose(s)
      PROVE  Inv' /\ Held(m_data) \subseteq Held(m_data)' /\ delivered' = delivered
  <2>1. /\ synced /\ m_nextRxSeq <= s /\ s <= MaxRxSequence
        /\ m_gotFin' = TRUE /\ m_finSeq' = FinSeq
        /\ UNCHANGED <<synced, m_maxBuffer, delivered>>
    BY <1>4 DEF PeerClose
  <2>2. CASE /\ s = FinSeq
             /\ m_nextRxSeq' = IF m_nextRxSeq = FinSeq THEN m_nextRxSeq + 1 ELSE m_nextRxSeq
             /\ UNCHANGED <<m_data, m_size, tputBytes, m_sackList, m_availBytes>>
    <3>1. Inv'
      BY <2>1, <2>2, FinStep
    <3>2. Held(m_data)' = Held(m_data)
      BY <2>1, <2>2, FrameStep
    <3> QED
      BY <2>1, <3>1, <3>2
  <2>3. CASE s < FinSeq /\ Add(s, FinSeq, TRUE, FinSeq)
    <3>0. FinSeq \in 1 .. FinSeq
      BY StreamAssumption DEF FinSeq
    <3>1. PeerMaySend(s, FinSeq) /\ ~ OutOfRange(s, FinSeq)
      BY <1>4, <2>3, <1>0 DEF PeerClose
    <3>2. ~ Finished /\ FinSeq <= Len(delivered) + 1 + m_maxBuffer
      BY <3>0, <3>1, <2>1, AcceptedSegment
    <3>3. CASE Fits(s, FinSeq) /\ StoreSegment(s, FinSeq, TRUE, FinSeq)
      <4>1. FinSeq \in 0 .. FinSeq
        BY <1>0
      <4> QED
        BY <2>1, <3>0, <3>2, <3>3, <4>1, StoreStep
    <3>4. CASE UNCHANGED <<m_data, m_size, tputBytes, m_sackList, m_availBytes, m_nextRxSeq>>
      <4>1. /\ Held(m_data)' = Held(m_data) /\ MapOK(m_data)'
            /\ (m_size = Cardinality(Held(m_data)))' /\ InOrderDelivery'
        BY <2>1, <3>4, FrameStep
      <4>2. m_nextRxSeq \in 1 .. FinSeq /\ m_nextRxSeq < FinSeq
        BY <2>1, <2>3, <3>2, <1>0, AckedFacts
      <4>3. TypeOK' /\ FinOK' /\ SyncOK'
        BY <2>1, <3>2, <3>4, <4>2, <1>0
           DEF Inv, TypeOK, SyncOK, FinOK, FinSeq, Byte, Packet, Block
      <4>4. WindowOK' /\ SackReportsHeldBytes'
        BY <2>1, <3>4, <4>1 DEF Inv, WindowOK, SackReportsHeldBytes
      <4>5. AckedBytesAreHeld'
        <5>1. ~ Finished'
          BY <2>1, <3>4, <4>2, <1>0 DEF Finished
        <5>2. /\ m_availBytes = m_nextRxSeq - (Len(delivered) + 1)
              /\ m_nextRxSeq \notin Held(m_data)
              /\ \A x \in Byte : x < m_nextRxSeq => (x \in Held(m_data) <=> Len(delivered) < x)
          BY <2>1, <3>2, AckedFacts
        <5> QED
          BY <5>1, <5>2, <2>1, <3>4, <4>1 DEF AckedBytesAreHeld, Byte
      <4> QED
        BY <4>1, <4>3, <4>4, <4>5, <2>1 DEF Inv
    <3> QED
      BY <2>3, <3>3, <3>4 DEF Add
  <2> QED
    BY <1>4, <2>2, <2>3 DEF PeerClose
<1>5. ASSUME NEW n \in 1 .. StreamLen, Extract(n) PROVE Inv'
  BY <1>5, ExtractStep
<1>6. CASE UNCHANGED vars
  BY <1>6 DEF Inv, TypeOK, InOrderDelivery, AckedBytesAreHeld, SackReportsHeldBytes, MapOK,
              WindowOK, FinOK, SyncOK, Finished, Held, BytesOf, Holds, LastByte, Disjoint,
              Byte, Packet, Block, FinSeq
<1>7. UNCHANGED m_data => Held(m_data)' = Held(m_data)
  BY DEF Held, BytesOf, Holds, LastByte, Byte
<1>8. SetNextRxSequence => UNCHANGED <<m_data, delivered>>
  BY DEF SetNextRxSequence
<1> QED
  BY <1>1, <1>2, <1>3, <1>4, <1>5, <1>6, <1>7, <1>8 DEF Next

(***************************************************************************)
(* Theorems.                                                               *)
(***************************************************************************)
\* The inductive invariant holds throughout.
THEOREM Invariance == Spec => []Inv
<1>1. Inv /\ [Next]_vars => Inv'
  BY NextInv
<1> QED
  BY <1>1, InitInv, PTL DEF Spec

\* Type correctness of the receive buffer (TcpRxBuffer's fields).
THEOREM TypeCorrect == Spec => []TypeOK
<1>1. Inv => TypeOK
  BY DEF Inv
<1> QED
  BY <1>1, Invariance, PTL

\* The application reads the sender's bytes in order, each once, whatever
\* overlapping segments Add was given (TcpRxBuffer::Add, Extract).
THEOREM DeliveryInOrder == Spec => []InOrderDelivery
<1>1. Inv => InOrderDelivery
  BY DEF Inv
<1> QED
  BY <1>1, Invariance, PTL

\* The cumulative acknowledgement covers only bytes read or held.
THEOREM AckIsHonest == Spec => []AckedBytesAreHeld
<1>1. Inv => AckedBytesAreHeld
  BY DEF Inv
<1> QED
  BY <1>1, Invariance, PTL

\* A SACK block covers only bytes held above the cumulative acknowledgement
\* (UpdateSackList, ClearSackList), whatever the capacity of the list.
THEOREM SackIsHonest == Spec => []SackReportsHeldBytes
<1>1. Inv => SackReportsHeldBytes
  BY DEF Inv
<1> QED
  BY <1>1, Invariance, PTL

\* The occupancy count is exact and stays within RCV.WND when the peer keeps
\* to the advertised edge (m_size and m_maxBuffer).
THEOREM OccupancyCorrect == Spec => []OccupancyBounded
<1>1. ASSUME Inv PROVE OccupancyBounded
  <2> DEFINE W == (Len(delivered) + 1) .. (Len(delivered) + m_maxBuffer)
  <2>1. m_maxBuffer \in Nat /\ Len(delivered) \in Nat
    BY <1>1, BufferAssumption, LenProperties DEF Inv, TypeOK
  <2>2. IsFiniteSet(W) /\ Cardinality(W) <= m_maxBuffer
    <3>1. Len(delivered) + 1 \in Int /\ Len(delivered) + m_maxBuffer \in Int
      BY <2>1
    <3>2. /\ IsFiniteSet(W)
          /\ Cardinality(W) = IF Len(delivered) + 1 > Len(delivered) + m_maxBuffer THEN 0
                              ELSE (Len(delivered) + m_maxBuffer) - (Len(delivered) + 1) + 1
      BY <3>1, FS_Interval
    <3> QED
      BY <3>2, <2>1
  <2>3. Held(m_data) \in SUBSET W
    <3>1. \A x \in Held(m_data) : /\ x \in Nat /\ Len(delivered) < x
                                  /\ x <= Len(delivered) + m_maxBuffer
      BY <1>1, HeldBytes, StreamAssumption DEF Inv, WindowOK, Byte
    <3> QED
      BY <3>1, <2>1
  <2>4. Cardinality(Held(m_data)) <= Cardinality(W)
    <3> HIDE DEF W
    <3> QED BY <2>2, <2>3, FS_Subset
  <2>5. Cardinality(Held(m_data)) \in Nat /\ Cardinality(W) \in Nat
    <3> HIDE DEF W
    <3> QED BY <2>2, HeldFinite, FS_CardinalityType
  <2>6. m_size = Cardinality(Held(m_data)) /\ Disjoint(m_data)
    BY <1>1 DEF Inv, MapOK
  <2> HIDE DEF W
  <2> QED
    BY <2>1, <2>2, <2>4, <2>5, <2>6 DEF OccupancyBounded
<1> QED
  BY <1>1, Invariance, PTL

\* The right edge of the receive window never moves back before the FIN
\* (MaxRxSequence over Add, Extract and SetMaxBufferSize).
THEOREM EdgeIsMonotone == Spec => EdgeNeverRetreats
<1>0. Inv /\ synced /\ ~ m_gotFin => MaxRxSequence = Len(delivered) + 1 + m_maxBuffer
  BY EdgeIs
<1>1. ASSUME Inv, Inv', [Next]_vars, synced, ~ m_gotFin'
      PROVE  MaxRxSequence <= MaxRxSequence'
  <2>1. /\ Len(delivered) \in Nat /\ m_maxBuffer \in Nat
        /\ Len(delivered') \in Nat /\ m_maxBuffer' \in Nat
    BY <1>1, BufferAssumption, LenProperties DEF Inv, TypeOK
  <2>2. ~ m_gotFin /\ synced'
    <3>1. CASE SetNextRxSequence
      BY <3>1, <1>1 DEF SetNextRxSequence
    <3>2. CASE \E n \in BufferSizes : SetMaxBufferSize(n)
      BY <3>2, <1>1 DEF SetMaxBufferSize
    <3>3. CASE \E s, e \in 1 .. FinSeq : ReceivedData(s, e)
      BY <3>3, <1>1 DEF ReceivedData
    <3>4. CASE \E s \in 1 .. FinSeq : PeerClose(s)
      BY <3>4, <1>1 DEF PeerClose
    <3>5. CASE \E n \in 1 .. StreamLen : Extract(n)
      BY <3>5, <1>1 DEF Extract
    <3>6. CASE UNCHANGED vars
      BY <3>6, <1>1 DEF vars
    <3> QED
      BY <1>1, <3>1, <3>2, <3>3, <3>4, <3>5, <3>6 DEF Next
  <2>3. MaxRxSequence = Len(delivered) + 1 + m_maxBuffer
    BY <1>1, <2>2, EdgeIs
  <2>4. MaxRxSequence' = Len(delivered') + 1 + m_maxBuffer'
    <3>1. (Inv /\ synced /\ ~ m_gotFin => MaxRxSequence = Len(delivered) + 1 + m_maxBuffer)'
      BY <1>0, PTL
    <3> QED
      BY <1>1, <2>2, <3>1
  <2>5. Len(delivered) <= Len(delivered') /\ m_maxBuffer <= m_maxBuffer'
    <3>1. CASE \E n \in 1 .. StreamLen : Extract(n)
      <4>1. PICK n \in 1 .. StreamLen :
               delivered' = delivered \o [i \in 1 .. n |-> Len(delivered) + i]
        BY <3>1, <1>1, ExtractStep
      <4>2. m_maxBuffer' = m_maxBuffer
        BY <3>1 DEF Extract
      <4>3. [i \in 1 .. n |-> Len(delivered) + i] \in Seq(Nat)
        BY <2>1, StreamAssumption
      <4>4. delivered \in Seq(Nat)
        <5>1. delivered \in Seq(Byte) /\ Byte \subseteq Nat
          BY <1>1, StreamAssumption DEF Inv, TypeOK, Byte
        <5> QED BY <5>1, SeqMonotonic
      <4>5. Len(delivered') = Len(delivered) + Len([i \in 1 .. n |-> Len(delivered) + i])
        BY <4>1, <4>3, <4>4, ConcatProperties
      <4>6. Len([i \in 1 .. n |-> Len(delivered) + i]) \in Nat
        BY <4>3, LenProperties
      <4> QED
        BY <4>2, <4>5, <4>6, <2>1
    <3>2. CASE ~ \E n \in 1 .. StreamLen : Extract(n)
      <4>1. delivered' = delivered /\ m_maxBuffer <= m_maxBuffer'
        <5>1. CASE SetNextRxSequence
          BY <5>1, <2>1 DEF SetNextRxSequence
        <5>2. CASE \E n \in BufferSizes : SetMaxBufferSize(n)
          BY <5>2, <2>1, BufferAssumption DEF SetMaxBufferSize
        <5>3. CASE \E s, e \in 1 .. FinSeq : ReceivedData(s, e)
          BY <5>3, <2>1 DEF ReceivedData
        <5>4. CASE \E s \in 1 .. FinSeq : PeerClose(s)
          BY <5>4, <2>1 DEF PeerClose
        <5>5. CASE UNCHANGED vars
          BY <5>5, <2>1 DEF vars
        <5> QED
          BY <1>1, <3>2, <5>1, <5>2, <5>3, <5>4, <5>5 DEF Next
      <4> QED
        BY <4>1, <2>1
    <3> QED
      BY <3>1, <3>2
  <2> QED
    BY <2>1, <2>3, <2>4, <2>5
<1>2. Inv /\ Inv' /\ [Next]_vars => [synced /\ ~ m_gotFin' => MaxRxSequence <= MaxRxSequence']_vars
  BY <1>1
<1> QED
  BY <1>2, Invariance, PTL DEF Spec, EdgeNeverRetreats

\* The buffer implements the abstract in-order stream: a byte accepted is held
\* until it is read, although Add erases and replaces entries.
THEOREM Refinement == Spec => ImplementsInOrderStream
<1>1. Init => Stream!StreamInit
  <2> SUFFICES ASSUME Init PROVE Stream!StreamInit
    OBVIOUS
  <2>1. DOMAIN m_data = {} /\ delivered = << >>
    BY DEF Init, EmptyMap
  <2>2. Held(m_data) = {}
    BY <2>1, EmptyHeld
  <2> QED
    BY <2>1, <2>2 DEF Stream!StreamInit
<1>2. ASSUME Inv, Inv', [Next]_vars
      PROVE  [Stream!StreamNext]_(Stream!streamVars)
  <2>1. CASE Held(m_data) \subseteq Held(m_data)' /\ delivered' = delivered
    <3>1. \A x \in Held(m_data)' : x \in Byte /\ Len(delivered') < x
      <4>1. \A x \in Held(m_data) : x \in Byte /\ Len(delivered) < x
        BY <1>2, HeldBytes DEF Inv, WindowOK
      <4>2. (\A x \in Held(m_data) : Len(delivered) < x)'
        BY <1>2 DEF Inv, WindowOK
      <4>3. Held(m_data)' \subseteq Byte
        BY DEF Held, BytesOf, Byte
      <4> QED
        BY <4>2, <4>3
    <3>2. Held(m_data)' \subseteq (Len(delivered) + 1) .. StreamLen
      <4>1. Len(delivered) \in Nat
        BY <1>2, LenProperties DEF Inv, TypeOK
      <4> QED
        BY <2>1, <3>1, <4>1, StreamAssumption DEF Byte
    <3>3. Stream!Arrive
      BY <2>1, <3>2 DEF Stream!Arrive
    <3> QED
      BY <3>3 DEF Stream!StreamNext
  <2>2. CASE \E n \in 1 .. StreamLen : Extract(n)
    <3>1. PICK n \in 1 .. StreamLen :
             /\ (Len(delivered) + 1) .. (Len(delivered) + n) \subseteq Held(m_data)
             /\ delivered' = delivered \o [i \in 1 .. n |-> Len(delivered) + i]
             /\ Held(m_data)' = Held(m_data) \ ((Len(delivered) + 1) .. (Len(delivered) + n))
      BY <2>2, <1>2, ExtractStep
    <3>2. Stream!Read(n)
      BY <3>1 DEF Stream!Read
    <3> QED
      BY <3>2 DEF Stream!StreamNext
  <2> QED
    BY <1>2, <2>1, <2>2, NextInv
<1> QED
  BY <1>1, <1>2, Invariance, PTL DEF Spec, ImplementsInOrderStream, Stream!StreamSpec
=============================================================================
