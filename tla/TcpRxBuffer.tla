---------------------------- MODULE TcpRxBuffer ----------------------------
(***************************************************************************)
(* The receive side of a TCP connection: the reordering buffer             *)
(* (src/internet/model/tcp-rx-buffer.cc) behind the acceptance tests of    *)
(* the socket that feeds it (OutOfRange, PeerClose and ReceivedData of     *)
(* tcp-socket-base.cc) and the reads of the application (Recv, Extract).   *)
(*                                                                         *)
(* The peer sends bytes 1..StreamLen of one stream, then a FIN at          *)
(* StreamLen + 1 (0 is its SYN).  A packet is the record [off, len]: the   *)
(* stream position of its first byte and its length; so a fragment cut at  *)
(* the wrong place, or stored under the wrong key, is visible.  The        *)
(* network loses, duplicates, reorders and re-segments at will.            *)
(***************************************************************************)
EXTENDS Integers, Sequences, FiniteSets

CONSTANTS
    StreamLen,      \* number of data bytes the peer has to send
    MaxSegment,     \* bytes of the longest segment
    BufferSizes,    \* the values RcvBufSize may take
    MaxSackBlocks   \* capacity of m_sackList (4 in the code)

ASSUME StreamAssumption == StreamLen \in Nat
ASSUME SegmentAssumption == MaxSegment \in Nat \ {0}
ASSUME BufferAssumption == BufferSizes \subseteq Nat /\ BufferSizes # {}
ASSUME SackAssumption == MaxSackBlocks \in Nat \ {0}

VARIABLES
    synced,        \* the handshake has set m_nextRxSeq
    m_nextRxSeq,   \* first missing sequence number (RCV.NXT)
    m_gotFin,
    m_finSeq,
    m_data,        \* map: first sequence number -> packet [off, len]
    m_size,
    m_availBytes,
    m_maxBuffer,
    m_sackList,    \* sequence of blocks [first, second), newest first
    tputBytes,     \* sum of the sizes written to m_tputOutputPath
    delivered      \* history: the bytes Extract has returned, in order

vars == <<synced, m_nextRxSeq, m_gotFin, m_finSeq, m_data, m_size,
          m_availBytes, m_maxBuffer, m_sackList, tputBytes, delivered>>

FinSeq == StreamLen + 1
Byte == 1 .. StreamLen
Block == [first : 1 .. FinSeq, second : 1 .. FinSeq]
Packet == [off : Byte, len : 1 .. StreamLen]

Lesser(a, b) == IF a < b THEN a ELSE b
Greater(a, b) == IF a < b THEN b ELSE a

(***************************************************************************)
(* The map m_data.                                                         *)
(***************************************************************************)
EmptyMap == [k \in {} |-> 0]

LastByte(d, s) == s + d[s].len

Holds(d, s, x) == s <= x /\ x < LastByte(d, s)

\* The bytes held by the entries of d that start in S, and by all of d.
BytesOf(d, S) == {x \in Byte : \E s \in S : Holds(d, s, x)}
Held(d) == BytesOf(d, DOMAIN d)

\* m_data.begin()->first
Begin(d) == CHOOSE s \in DOMAIN d : \A t \in DOMAIN d : s <= t

\* The key of the entry that holds byte x.
EntryOf(d, x) == CHOOSE s \in DOMAIN d : Holds(d, s, x)

\* The first sequence number from h on that no entry of d holds: where a
\* walk over adjoining entries that starts at h comes to an end.
FirstMissing(d, h) ==
    CHOOSE x \in h .. FinSeq : x \notin Held(d) /\ \A y \in h .. (x - 1) : y \in Held(d)

\* Faulty variants (of CreateFragment, here) are what mutation testing puts in
\* the place of the operator that follows them.
CreateFragmentShort(p, start, length) == [off |-> p.off + start, len |-> length - 1]
CreateFragmentAtHead(p, start, length) == [off |-> p.off, len |-> length]

\* Packet::CreateFragment
CreateFragment(p, start, length) == [off |-> p.off + start, len |-> length]

(***************************************************************************)
(* The SACK list.  UpdateSackList pushes the new block to the front and    *)
(* merges it with the blocks that touch it exactly.                        *)
(***************************************************************************)
\* The elements of list at the positions in K, in order.
RankIn(K, k) == Cardinality({j \in K : j <= k})
KeepOnly(list, K) ==
    [i \in 1 .. Cardinality(K) |-> list[CHOOSE k \in K : RankIn(K, k) = i]]

Blocks(list) == {list[i] : i \in 1 .. Len(list)}
LeftOf(list, b) == {c \in Blocks(list) : c.second = b.first}
RightOf(list, b) == {c \in Blocks(list) : b.second = c.first}

MergedBlock(list, b) ==
    [first  |-> IF LeftOf(list, b) = {} THEN b.first
                ELSE (CHOOSE c \in LeftOf(list, b) : TRUE).first,
     second |-> IF RightOf(list, b) = {} THEN b.second
                ELSE (CHOOSE c \in RightOf(list, b) : TRUE).second]

\* The list before it is capped.
PushBlock(list, b) ==
    <<MergedBlock(list, b)>> \o
        KeepOnly(list, {i \in 1 .. Len(list) :
                           list[i] \notin LeftOf(list, b) \cup RightOf(list, b)})

UpdateSackList(list, head, tail) ==
    LET pushed == PushBlock(list, [first |-> head, second |-> tail])
    IN  IF Len(pushed) > MaxSackBlocks THEN SubSeq(pushed, 1, Len(pushed) - 1) ELSE pushed

ClearSackListNever(list, seq) == list

ClearSackList(list, seq) == KeepOnly(list, {i \in 1 .. Len(list) : seq < list[i].second})

(***************************************************************************)
(* Add: the arriving segment holds the bytes s .. e-1.                     *)
(***************************************************************************)
\* Tail and head once trimmed to the receive window.
TrimTail(e) ==
    IF DOMAIN m_data = {} THEN e ELSE Lesser(e, Begin(m_data) + m_maxBuffer)
TrimHeadNotAcked(s, e) == s
TrimHead(s, e) ==
    IF DOMAIN m_data = {} THEN Greater(s, m_nextRxSeq)
                          ELSE Lesser(Greater(s, m_nextRxSeq), TrimTail(e))

\* Head and tail once the bytes already held at either end are cut off.  An
\* entry embedded between the two gives way to the new segment.
NewHead(s, e) == FirstMissing(m_data, TrimHead(s, e))
NewTail(e) == IF TrimTail(e) - 1 \in Held(m_data)
              THEN EntryOf(m_data, TrimTail(e) - 1)
              ELSE TrimTail(e)
EmbeddedPartly(s, e) ==
    {k \in DOMAIN m_data : NewHead(s, e) < k /\ k < TrimTail(e)}
Embedded(s, e) ==
    {k \in DOMAIN m_data : NewHead(s, e) < k /\ LastByte(m_data, k) < TrimTail(e)}

\* Something is left to buffer.
Fits(s, e) == TrimHead(s, e) < TrimTail(e) /\ NewHead(s, e) < TrimTail(e)

DataWith(s, e) ==
    [k \in (DOMAIN m_data \ Embedded(s, e)) \cup {NewHead(s, e)} |->
        IF k = NewHead(s, e)
        THEN CreateFragment([off |-> s, len |-> e - s],
                            NewHead(s, e) - s, NewTail(e) - NewHead(s, e))
        ELSE m_data[k]]

\* The whole of Add for a segment that Fits; fin and finSeq are the values
\* of m_gotFin and m_finSeq that the final test of Add reads.
StoreSegment(s, e, fin, finSeq) ==
    LET head == NewHead(s, e)
        tail == NewTail(e)
        next == FirstMissing(DataWith(s, e), m_nextRxSeq)
        sack == IF head > m_nextRxSeq THEN UpdateSackList(m_sackList, head, tail)
                                      ELSE m_sackList
    IN  /\ m_data' = DataWith(s, e)
        /\ m_size' = m_size - Cardinality(BytesOf(m_data, Embedded(s, e))) + (tail - head)
        /\ tputBytes' = tputBytes + (tail - head)
        /\ m_sackList' = IF next > m_nextRxSeq THEN ClearSackList(sack, next) ELSE sack
        /\ m_availBytes' = m_availBytes + (next - m_nextRxSeq)
        /\ m_nextRxSeq' = IF fin /\ next = finSeq THEN next + 1 ELSE next

Add(s, e, fin, finSeq) ==
    \/ Fits(s, e) /\ StoreSegment(s, e, fin, finSeq)
    \/ /\ ~ Fits(s, e)
       /\ UNCHANGED <<m_data, m_size, tputBytes, m_sackList, m_availBytes, m_nextRxSeq>>

(***************************************************************************)
(* What the socket lets through to the buffer.                             *)
(***************************************************************************)
Finished == m_gotFin /\ m_finSeq < m_nextRxSeq

MaxRxSequenceFromBegin ==
    IF m_gotFin THEN m_finSeq
    ELSE IF DOMAIN m_data # {} THEN Begin(m_data) + m_maxBuffer
    ELSE m_nextRxSeq + m_maxBuffer

MaxRxSequence ==
    IF m_gotFin THEN m_finSeq
    ELSE IF DOMAIN m_data # {} /\ m_nextRxSeq > Begin(m_data)
    THEN Begin(m_data) + m_maxBuffer
    ELSE m_nextRxSeq + m_maxBuffer

OutOfRangeNoWindow(head, tail) ==
    IF Finished THEN head # m_nextRxSeq ELSE tail < m_nextRxSeq
OutOfRangeByTail(head, tail) ==
    IF Finished THEN head # m_nextRxSeq
                ELSE tail < m_nextRxSeq \/ MaxRxSequence <= tail

\* Once the FIN is consumed the socket has left the synchronized receiving
\* states and accepts nothing but m_nextRxSeq itself.
OutOfRange(head, tail) ==
    IF Finished THEN head # m_nextRxSeq
                ELSE tail < m_nextRxSeq \/ MaxRxSequence <= head

\* The peer keeps to the advertised right edge, except for the one-byte
\* probes of its persist timer.
PeerMaySend(s, e) ==
    /\ s < e /\ e <= FinSeq /\ e - s <= MaxSegment
    /\ e <= MaxRxSequence \/ e = s + 1

(***************************************************************************)
(* Initial state and actions.                                              *)
(***************************************************************************)
Init ==
    /\ synced = FALSE
    /\ m_nextRxSeq = 0
    /\ m_gotFin = FALSE
    /\ m_finSeq = 0
    /\ m_data = EmptyMap
    /\ m_size = 0
    /\ m_availBytes = 0
    /\ m_maxBuffer \in BufferSizes
    /\ m_sackList = << >>
    /\ tputBytes = 0
    /\ delivered = << >>

\* The SYN (or SYN+ACK) of the peer, sequence number 0, is processed.
SetNextRxSequence ==
    /\ ~ synced
    /\ synced' = TRUE
    /\ m_nextRxSeq' = 1
    /\ UNCHANGED <<m_gotFin, m_finSeq, m_data, m_size, m_availBytes, m_maxBuffer,
                   m_sackList, tputBytes, delivered>>

\* RcvBufSize is raised.  (Lowering it would take back window space already
\* advertised; no caller in the repository does so on a live connection.)
SetMaxBufferSize(n) ==
    /\ m_maxBuffer < n
    /\ m_maxBuffer' = n
    /\ UNCHANGED <<synced, m_nextRxSeq, m_gotFin, m_finSeq, m_data, m_size, m_availBytes,
                   m_sackList, tputBytes, delivered>>

\* A data segment passes IsValidTcpSegment and reaches the buffer.
ReceivedData(s, e) ==
    /\ synced
    /\ PeerMaySend(s, e)
    /\ ~ OutOfRange(s, e)
    /\ Add(s, e, m_gotFin, m_finSeq)
    /\ UNCHANGED <<synced, m_gotFin, m_finSeq, m_maxBuffer, delivered>>

\* A segment with the FIN flag: its bytes s .. StreamLen, none if
\* s = StreamLen + 1, come with the end of the stream.
PeerClose(s) ==
    /\ synced
    /\ s = FinSeq \/ (PeerMaySend(s, FinSeq) /\ ~ OutOfRange(s, FinSeq))
    /\ m_nextRxSeq <= s /\ s <= MaxRxSequence
    /\ m_gotFin' = TRUE
    /\ m_finSeq' = FinSeq
    /\ \/ /\ s = FinSeq
          /\ m_nextRxSeq' = IF m_nextRxSeq = FinSeq THEN m_nextRxSeq + 1 ELSE m_nextRxSeq
          /\ UNCHANGED <<m_data, m_size, tputBytes, m_sackList, m_availBytes>>
       \/ s < FinSeq /\ Add(s, FinSeq, TRUE, FinSeq)
    /\ UNCHANGED <<synced, m_maxBuffer, delivered>>

\* Recv(maxSize) of the application with data available: the in-order bytes
\* up to cut leave the buffer, an entry that straddles cut is split.
Extract(maxSize) ==
    LET n == Lesser(maxSize, m_availBytes)
        begin == Begin(m_data)
        cut == begin + n
        keys == {k \in DOMAIN m_data : cut <= k} \cup ({cut} \cap Held(m_data))
    IN  /\ n > 0
        /\ delivered' = delivered \o
               [i \in 1 .. n |->
                   LET x == begin + i - 1
                       k == EntryOf(m_data, x)
                   IN  m_data[k].off + (x - k)]
        /\ m_data' = [k \in keys |->
               LET h == EntryOf(m_data, k)
               IN  CreateFragment(m_data[h], k - h, LastByte(m_data, h) - k)]
        /\ m_size' = m_size - n
        /\ m_availBytes' = m_availBytes - n
        /\ UNCHANGED <<synced, m_nextRxSeq, m_gotFin, m_finSeq, m_maxBuffer, m_sackList,
                       tputBytes>>

Next ==
    \/ SetNextRxSequence
    \/ \E n \in BufferSizes : SetMaxBufferSize(n)
    \/ \E s, e \in 1 .. FinSeq : ReceivedData(s, e)
    \/ \E s \in 1 .. FinSeq : PeerClose(s)
    \/ \E n \in 1 .. StreamLen : Extract(n)

Spec == Init /\ [][Next]_vars

\* The peer's retransmission timer resends the first missing byte until it
\* gets through, FIN included; the application reads what it is notified of.
\* The guards of ReceivedData and Extract stand in the place of their ENABLED.
Fairness ==
    /\ WF_vars(SetNextRxSequence)
    /\ []<> (synced /\ \E e \in 1 .. FinSeq : /\ PeerMaySend(m_nextRxSeq, e)
                                              /\ ~ OutOfRange(m_nextRxSeq, e)
                                              /\ Fits(m_nextRxSeq, e))
       => []<> <<\E e \in 1 .. FinSeq : ReceivedData(m_nextRxSeq, e)>>_vars
    /\ SF_vars(PeerClose(FinSeq))
    /\ <>[] (m_availBytes > 0) => []<> <<\E n \in 1 .. StreamLen : Extract(n)>>_vars

FairSpec == Spec /\ Fairness

(***************************************************************************)
(* Properties.                                                             *)
(***************************************************************************)
Disjoint(d) ==
    \A s, t \in DOMAIN d : s < t => LastByte(d, s) <= t

\* The receive buffer's fields keep their types (tcp-rx-buffer.h).
TypeOK ==
    /\ synced \in BOOLEAN
    /\ m_nextRxSeq \in 0 .. (FinSeq + 1)
    /\ m_gotFin \in BOOLEAN
    /\ m_finSeq \in 0 .. FinSeq
    /\ DOMAIN m_data \subseteq Byte
    /\ \A s \in DOMAIN m_data : m_data[s] \in Packet
    /\ m_size \in 0 .. StreamLen
    /\ m_availBytes \in 0 .. StreamLen
    /\ m_maxBuffer \in BufferSizes
    /\ m_sackList \in Seq(Block)
    /\ tputBytes \in Nat
    /\ delivered \in Seq(Byte)

\* "the bytes should be returned in the same order that the sender
\* application used to push them down on wire" (tcp-rx-buffer.h): whatever
\* overlaps, trims, splits and replacements went before, Extract returns the
\* sender's bytes, in order, none missing, none twice.
InOrderDelivery ==
    \A i \in 1 .. Len(delivered) : delivered[i] = i

\* The acknowledgement point never runs ahead of the data: every byte below
\* m_nextRxSeq was read or is held, those held are what Available counts, and
\* the byte at m_nextRxSeq is really missing.
AckedBytesAreHeld ==
    LET ackedData == IF Finished THEN m_nextRxSeq - 1 ELSE m_nextRxSeq
    IN  synced =>
            /\ m_availBytes = ackedData - (Len(delivered) + 1)
            /\ \A x \in Byte : x < ackedData =>
                   (x \in Held(m_data) <=> Len(delivered) < x)
            /\ ackedData \notin Held(m_data)

\* Occupancy accounting survives the replacement of embedded segments: m_size
\* is the number of distinct bytes held, and with a peer that keeps to the
\* advertised edge it never exceeds m_maxBuffer (RCV.WND).
OccupancyBounded ==
    /\ Disjoint(m_data)
    /\ m_size = Cardinality(Held(m_data))
    /\ m_size <= m_maxBuffer

\* A SACK block tells the sender it need not resend: each block reported lies
\* above the cumulative acknowledgement and covers only bytes the buffer still
\* holds, although merging, capping and clearing touch the list at other
\* moments than the data.
SackReportsHeldBytes ==
    \A i \in 1 .. Len(m_sackList) :
        LET b == m_sackList[i]
        IN  /\ m_nextRxSeq < b.first /\ b.first < b.second
            /\ \A x \in b.first .. (b.second - 1) : x \in Held(m_data)

\* RFC 793 "shrinking the window": a right edge once advertised is not taken
\* back by any later arrival or read, until the FIN fixes the end of the data.
EdgeNeverRetreats ==
    [][synced /\ ~ m_gotFin' => MaxRxSequence <= MaxRxSequence']_vars

\* The buffer implements the abstract in-order stream.
Stream == INSTANCE InOrderStream WITH arrived <- Held(m_data)
ImplementsInOrderStream == Stream!StreamSpec

\* With a peer that keeps resending and an application that keeps reading, the
\* whole stream is read and its end is seen: no full buffer, zero window, early
\* FIN or stale trim leaves the connection stuck.
EventuallyDelivered == <>(Len(delivered) = StreamLen /\ Finished)
=============================================================================
