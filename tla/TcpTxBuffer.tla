---------------------------- MODULE TcpTxBuffer ----------------------------
(***************************************************************************)
(* The transmit buffer of a TCP socket and its scoreboard                  *)
(* (src/internet/model/tcp-tx-buffer.cc), as operators from a buffer to    *)
(* the buffer it becomes; TcpSender composes them as the socket does.      *)
(*                                                                         *)
(* A buffer b is a record:                                                 *)
(*   first     m_firstByteSeq (SND.UNA)                                    *)
(*   sent      m_sentList: first sequence number -> item.  The list is in  *)
(*             sequence order, so the key stands for m_startSeq, for the   *)
(*             place in the list and for the iterator of the item          *)
(*   sentSize  m_sentSize                                                  *)
(*   size      m_size                                                      *)
(*   app       stream position of the first byte of m_appList, whose       *)
(*             packets are merged and cut at will when a segment is built  *)
(*   count     m_sackedOut, m_lostOut and m_retrans, by flag               *)
(*   highest   m_highestSack: the key of an item, 0 for end()              *)
(* An item holds the bytes of the stream from off on, len of them.         *)
(***************************************************************************)
EXTENDS Integers, Sequences, FiniteSetsExt

CONSTANTS
    StreamLen,     \* number of bytes the application has to send
    SegmentSize,   \* m_segmentSize
    DupAckThresh,  \* m_dupAckThresh (ReTxThreshold)
    MaxBuffer      \* m_maxBuffer (SndBufSize)

ASSUME TxStreamAssumption == StreamLen \in Nat
ASSUME TxSegmentAssumption == SegmentSize \in Nat \ {0}
ASSUME TxThreshAssumption == DupAckThresh \in Nat \ {0}
ASSUME TxBufferAssumption == MaxBuffer \in Nat

Byte == 1 .. StreamLen
Flag == {"sacked", "lost", "retrans"}
Item == [off : Byte, len : Byte, sacked : BOOLEAN, lost : BOOLEAN, retrans : BOOLEAN]

IsBuffer(b) ==
    /\ DOMAIN b = {"first", "sent", "sentSize", "size", "app", "count", "highest"}
    /\ {b.first, b.app} \subseteq 1 .. (StreamLen + 1)
    /\ {b.sentSize, b.size, b.highest} \subseteq 0 .. StreamLen
    /\ DOMAIN b.sent \subseteq Byte /\ \A s \in DOMAIN b.sent : b.sent[s] \in Item
    /\ b.count \in [Flag -> 0 .. StreamLen]

EmptyBuffer ==
    [first |-> 1, sent |-> [s \in {} |-> 0], sentSize |-> 0, size |-> 0, app |-> 1,
     count |-> [f \in Flag |-> 0], highest |-> 0]

(***************************************************************************)
(* Reading the buffer.                                                     *)
(***************************************************************************)
EndOf(b, s) == s + b.sent[s].len
SentEnd(b) == b.first + b.sentSize
TailSequence(b) == b.first + b.size

\* The bytes of the items S, their number, and the items that carry flag f.
Covered(b, S) == {x \in Byte : \E s \in S : s <= x /\ x < EndOf(b, s)}
BytesOf(b, S) == Cardinality(Covered(b, S))
With(b, f) == {s \in DOMAIN b.sent : b.sent[s][f]}

\* Key of m_sentList.front().
HeadItem(b) == Min(DOMAIN b.sent)

SizeFromSequence(b, seq) == Max({0, TailSequence(b) - seq})

BytesInFlight(b) == b.sentSize - (b.count["sacked"] + b.count["lost"]) + b.count["retrans"]

IsLost(b, seq) ==
    /\ seq < b.highest
    /\ \E s \in DOMAIN b.sent : s <= seq /\ seq < EndOf(b, s) /\ b.sent[s].lost

IsRetransmittedDataAcked(b, ack) ==
    \E s \in DOMAIN b.sent : EndOf(b, s) = ack /\ ~ b.sent[s].sacked /\ b.sent[s].retrans

\* NextSeg found nothing.
NoSeg == [seq |-> 0, seqHigh |-> 0]

\* A faulty variant, for mutation testing, like all those named as such below:
\* the search for lost items starts at the back.
NextSegLast(b, isRecovery, rWnd) ==
    LET lost == {s \in With(b, "lost") : ~ b.sent[s].retrans /\ ~ b.sent[s].sacked}
    IN  IF lost # {} THEN [seq |-> Max(lost), seqHigh |-> Max(lost) + SegmentSize]
        ELSE IF SizeFromSequence(b, SentEnd(b)) > 0 /\ b.sentSize < rWnd
        THEN [seq |-> SentEnd(b), seqHigh |-> SentEnd(b) + 1]
        ELSE NoSeg

\* The next segment to transmit (RFC 6675): the first lost item not resent,
\* else new data if the window rWnd lets it, else (rule 3, in recovery only)
\* the first item neither sacked nor resent.
NextSeg(b, isRecovery, rWnd) ==
    LET candidates == {s \in DOMAIN b.sent : ~ b.sent[s].retrans /\ ~ b.sent[s].sacked}
        lost == {s \in candidates : b.sent[s].lost}
        unsent == SizeFromSequence(b, SentEnd(b)) > 0
    IN  IF lost # {}
        THEN [seq |-> Min(lost), seqHigh |-> Min(lost) + SegmentSize]
        ELSE IF unsent
        THEN IF b.sentSize < rWnd
             THEN [seq     |-> SentEnd(b),
                   seqHigh |-> SentEnd(b) + Min({SegmentSize, rWnd - b.sentSize})]
             ELSE NoSeg
        ELSE IF isRecovery /\ candidates # {}
        THEN [seq |-> Min(candidates), seqHigh |-> Min(candidates) + SegmentSize]
        ELSE NoSeg

(***************************************************************************)
(* Flags and their counters.                                               *)
(***************************************************************************)
\* Flag f goes up (down) on the items S, and its counter with it.
SetFlags(b, S, f) ==
    LET T == {s \in S : ~ b.sent[s][f]}
    IN  [b EXCEPT !.sent = [s \in DOMAIN b.sent |->
                               IF s \in T THEN [b.sent[s] EXCEPT ![f] = TRUE] ELSE b.sent[s]],
                  !.count[f] = @ + BytesOf(b, T)]

ClearFlags(b, S, f) ==
    LET T == {s \in S : b.sent[s][f]}
    IN  [b EXCEPT !.sent = [s \in DOMAIN b.sent |->
                               IF s \in T THEN [b.sent[s] EXCEPT ![f] = FALSE] ELSE b.sent[s]],
                  !.count[f] = @ - BytesOf(b, T)]

MarkHeadAsLost(b) ==
    IF DOMAIN b.sent = {} THEN b
    ELSE LET h == {HeadItem(b)}
         IN  SetFlags(ClearFlags(ClearFlags(b, h, "sacked"), h, "retrans"), h, "lost")

\* A duplicate ACK without SACK: the first segment after the head not yet
\* sacked counts as received.
AddRenoSack(b) ==
    LET open == {s \in DOMAIN b.sent \ {HeadItem(b)} : ~ b.sent[s].sacked}
    IN  IF open = {} THEN b
        ELSE [SetFlags(b, {Min(open)}, "sacked") EXCEPT !.highest = Min(open)]

ResetRenoSack(b) ==
    [b EXCEPT !.sent = [s \in DOMAIN b.sent |-> [b.sent[s] EXCEPT !.sacked = FALSE]],
              !.count["sacked"] = 0,
              !.highest = 0]

\* A faulty variant: the retransmission marks survive the timeout.
SetSentListLostKeepRetrans(b, resetSack) ==
    SetFlags(b, {s \in DOMAIN b.sent : ~ b.sent[s].sacked}, "lost")

\* After a timeout all that is not sacked is lost; with resetSack, all of it.
SetSentListLost(b, resetSack) ==
    LET stillSacked == IF resetSack THEN {} ELSE {s \in DOMAIN b.sent : b.sent[s].sacked}
        lost == {s \in DOMAIN b.sent : b.sent[s].lost \/ s \notin stillSacked}
    IN  [b EXCEPT !.sent = [s \in DOMAIN b.sent |->
                      [b.sent[s] EXCEPT !.sacked = s \in stillSacked,
                                        !.lost = s \in lost,
                                        !.retrans = FALSE]],
                  !.count["sacked"] = IF resetSack THEN 0 ELSE @,
                  !.count["lost"] = IF resetSack THEN b.sentSize ELSE BytesOf(b, lost),
                  !.count["retrans"] = 0,
                  !.highest = IF resetSack THEN 0 ELSE @]

(***************************************************************************)
(* Taking a segment out.                                                   *)
(***************************************************************************)
\* Application data is accepted when it fits.
Add(b, n) == IF n <= MaxBuffer - b.size THEN [b EXCEPT !.size = @ + n] ELSE b

\* SplitItems: the item at s keeps its first n bytes.
SplitItem(b, s, n) ==
    [b EXCEPT !.sent = [k \in DOMAIN b.sent \cup {s + n} |->
        IF k = s + n THEN [b.sent[s] EXCEPT !.off = @ + n, !.len = @ - n]
        ELSE IF k = s THEN [b.sent[s] EXCEPT !.len = n]
        ELSE b.sent[k]]]

\* MergeItems: the item at s takes in the one that follows it; if only one of
\* them was retransmitted, that mark is cancelled.
MergeItems(b, s) ==
    LET t == EndOf(b, s)
        c == IF b.sent[s].retrans # b.sent[t].retrans
             THEN ClearFlags(b, {s, t}, "retrans") ELSE b
    IN  [c EXCEPT !.sent = [k \in DOMAIN b.sent \ {t} |->
             IF k = s THEN [c.sent[s] EXCEPT !.len = @ + c.sent[t].len] ELSE c.sent[k]]]

\* GetPacketFromList: the items from seq on become one of exactly n bytes.
ExactItem(b, seq, n) ==
    LET merged == IF n > b.sent[seq].len THEN MergeItems(b, seq) ELSE b
    IN  IF n < merged.sent[seq].len THEN SplitItem(merged, seq, n) ELSE merged

\* A retransmission of at most numBytes from the item at seq, with the next
\* item merged in when that one is not sacked and as lost as the first.
GetTransmittedSegment(b, numBytes, seq) ==
    LET next == EndOf(b, seq)
        mergeable == /\ next \in DOMAIN b.sent
                     /\ ~ b.sent[next].sacked
                     /\ b.sent[next].lost = b.sent[seq].lost
        n == Min({numBytes, b.sent[seq].len + IF mergeable THEN b.sent[next].len ELSE 0})
    IN  SetFlags(ExactItem(b, seq, n), {seq}, "retrans")

GetNewSegment(b, numBytes) ==
    LET item == [off |-> b.app, len |-> numBytes,
                 sacked |-> FALSE, lost |-> FALSE, retrans |-> FALSE]
    IN  [b EXCEPT !.sent = [k \in DOMAIN b.sent \cup {SentEnd(b)} |->
                               IF k = SentEnd(b) THEN item ELSE b.sent[k]],
                  !.sentSize = @ + numBytes,
                  !.app = @ + numBytes]

\* The item at seq, of at most numBytes, is (re)transmitted; a block that is
\* partly new is cut at the end of what was sent.
CopyFromSequence(b, numBytes, seq) ==
    LET s == Min({numBytes, SizeFromSequence(b, seq)})
    IN  IF s = 0 THEN b
        ELSE IF seq < SentEnd(b)
        THEN GetTransmittedSegment(b, Min({s, SentEnd(b) - seq}), seq)
        ELSE GetNewSegment(b, s)

\* The last item sent goes back to the application list.  Only the counter of
\* retransmitted bytes follows it.
ResetLastSegmentSent(b) ==
    LET k == Max(DOMAIN b.sent)
    IN  IF DOMAIN b.sent = {} THEN b
        ELSE [b EXCEPT !.sent = [j \in DOMAIN b.sent \ {k} |-> b.sent[j]],
                       !.sentSize = @ - b.sent[k].len,
                       !.app = b.sent[k].off,
                       !.count["retrans"] = IF b.sent[k].retrans THEN @ - b.sent[k].len ELSE @]

(***************************************************************************)
(* What an acknowledgement does.                                           *)
(***************************************************************************)
\* RemoveFromCounts, for all that lies below seq; and faulty, for nothing.
DiscountedNot(b, seq) == b.count

Discounted(b, seq) ==
    [f \in Flag |-> b.count[f] - Cardinality({x \in Covered(b, With(b, f)) : x < seq})]

\* A faulty variant: an item seq falls into leaves the buffer as a whole.
DiscardedWhole(b, seq) ==
    LET gone == {s \in DOMAIN b.sent : s < seq}
        upTo == IF gone = {} THEN seq ELSE Max({seq, EndOf(b, Max(gone))})
    IN  [b EXCEPT !.first = upTo,
                  !.sent = [k \in DOMAIN b.sent \ gone |-> b.sent[k]],
                  !.sentSize = Max({0, SentEnd(b) - upTo}),
                  !.size = SizeFromSequence(b, upTo),
                  !.app = Max({@, Min({upTo, TailSequence(b)})}),
                  !.count = Discounted(b, upTo)]

\* The bytes below seq leave the buffer, with their marks.
Discarded(b, seq) ==
    LET keys == {Max({s, seq}) : s \in {t \in DOMAIN b.sent : seq < EndOf(b, t)}}
        rest(k) == LET s == CHOOSE t \in DOMAIN b.sent : t <= k /\ k < EndOf(b, t)
                   IN  [b.sent[s] EXCEPT !.off = @ + (k - s), !.len = @ - (k - s)]
    IN  [b EXCEPT !.first = seq,
                  !.sent = [k \in keys |-> rest(k)],
                  !.sentSize = Max({0, SentEnd(b) - seq}),
                  !.size = SizeFromSequence(b, seq),
                  !.app = Max({@, Min({seq, TailSequence(b)})}),
                  !.count = Discounted(b, seq)]

\* A guessed SACK mark that reaches the head moves on to a later segment.
UnsackHead(b) ==
    IF DOMAIN b.sent # {} /\ b.sent[HeadItem(b)].sacked
    THEN MarkHeadAsLost(AddRenoSack(ClearFlags(b, {HeadItem(b)}, "sacked")))
    ELSE b

\* A faulty variant: m_highestSack outlives the item it points to.
DiscardUpToKeepHighest(b, seq) ==
    IF seq <= b.first THEN b ELSE UnsackHead(Discarded(b, seq))

DiscardUpTo(b, seq) ==
    IF seq <= b.first THEN b
    ELSE LET d == UnsackHead(Discarded(b, seq))
         IN  [d EXCEPT !.highest = IF @ <= d.first THEN 0 ELSE @]

\* The items that lie wholly inside a SACK block become sacked.
SackBlock(b, block) ==
    LET fresh == {s \in DOMAIN b.sent : /\ block.first <= s /\ EndOf(b, s) <= block.second
                                        /\ ~ b.sent[s].sacked}
        moves == \E s \in fresh : b.highest = 0 \/ b.highest <= EndOf(b, s)
    IN  [SetFlags(ClearFlags(b, fresh, "lost"), fresh, "sacked")
            EXCEPT !.highest = IF moves THEN Max(fresh) ELSE @]

\* A walk from m_highestSack down to the head, which it treats apart.
UpdateLostCount(b) ==
    LET above(s) == {t \in With(b, "sacked") \ {HeadItem(b)} : s <= t /\ t <= b.highest}
        lost == {s \in DOMAIN b.sent : /\ s = HeadItem(b) \/ ~ b.sent[s].sacked
                                       /\ Cardinality(above(s)) >= DupAckThresh}
    IN  SetFlags(b, lost, "lost")

\* The SACK option of an ACK; a block beyond what was sent ends its reading.
Update(b, list) ==
    LET outside == {i \in 1 .. Len(list) : SentEnd(b) < list[i].first}
        read == IF outside = {} THEN list ELSE SubSeq(list, 1, Min(outside) - 1)
        after[n \in 0 .. Len(read)] ==
            IF n = 0 THEN b ELSE SackBlock(after[n - 1], read[n])
        c == after[Len(read)]
    IN  IF outside = {} /\ c.count["sacked"] > b.count["sacked"] THEN UpdateLostCount(c) ELSE c

(***************************************************************************)
(* What makes a buffer sound.                                              *)
(***************************************************************************)
\* The items tile SND.UNA .. SND.NXT, each with the bytes of its own place in
\* the stream, and the rest of the stream follows in the application list.
Tiled(b) ==
    /\ Covered(b, DOMAIN b.sent) = b.first .. (SentEnd(b) - 1)
    /\ \A s, t \in DOMAIN b.sent : s < t => EndOf(b, s) <= t
    /\ \A s \in DOMAIN b.sent : b.sent[s].off = s
    /\ b.app = SentEnd(b) /\ b.sentSize <= b.size /\ b.size <= MaxBuffer

\* ConsistencyCheck (compiled out): the counters are the bytes of the items
\* that carry the flag.
Counted(b) == \A f \in Flag : b.count[f] = BytesOf(b, With(b, f))

\* BytesInFlight subtracts sacked and lost bytes as if no item were both.
SackedNotLost(b) ==
    /\ With(b, "sacked") \cap With(b, "lost") = {}
    /\ b.count["sacked"] + b.count["lost"] <= b.sentSize

\* m_highestSack.first is end() or a live, sacked item of the list.
HighestIsLive(b) == b.highest # 0 => b.highest \in With(b, "sacked")
=============================================================================
