-------------------------- MODULE TcpRxBufferLoops --------------------------
(***************************************************************************)
(* TcpRxBuffer states what the loops of Add, UpdateSackList and Extract    *)
(* compute in closed form (first missing byte, embedded entries, touching  *)
(* blocks, bytes below a cut).  Here the loops themselves are written down *)
(* iteration by iteration, as recursive operators over the sorted map, and *)
(* compared with the closed forms on every reachable state and input.      *)
(***************************************************************************)
EXTENDS TcpRxBuffer, SequencesExt

SortedKeys(d) == SetToSortSeq(DOMAIN d, <)

\* The overlap loop of Add: keys is what the iterator has still to visit.
RECURSIVE OverlapLoop(_, _, _, _)
OverlapLoop(keys, head, tail, erased) ==
    IF keys = << >> \/ Head(keys) > tail
    THEN [head |-> head, tail |-> tail, erased |-> erased]
    ELSE LET first == Head(keys)
             last == LastByte(m_data, first)
             rest == Tail(keys)
         IN  IF last <= head
             THEN OverlapLoop(rest, head, tail, erased)
             ELSE IF first > head /\ last < tail
             THEN OverlapLoop(rest, head, tail, Append(erased, first))
             ELSE OverlapLoop(rest,
                              IF first <= head THEN last ELSE head,
                              IF last >= tail THEN first ELSE tail,
                              erased)

\* The loop of Add that moves m_nextRxSeq over adjoining entries.
RECURSIVE AdvanceLoop(_, _, _, _, _)
AdvanceLoop(d, keys, next, avail, sack) ==
    IF keys = << >> \/ Head(keys) > next
    THEN [next |-> next, avail |-> avail, sack |-> sack]
    ELSE IF Head(keys) < next
    THEN AdvanceLoop(d, Tail(keys), next, avail, sack)
    ELSE AdvanceLoop(d, Tail(keys), LastByte(d, Head(keys)), avail + d[Head(keys)].len,
                     ClearSackList(sack, LastByte(d, Head(keys))))

\* The merge loop of UpdateSackList: list[1] is the block begin, i is the
\* position of the iterator; after a merge the scan starts over.
RECURSIVE MergeLoop(_, _)
MergeLoop(list, i) ==
    IF i > Len(list) THEN list
    ELSE LET begin == list[1]
             current == list[i]
             restart(m) == MergeLoop(<<m>> \o Tail(RemoveAt(list, i)), 2)
         IN  IF begin.first = current.second
             THEN restart([first |-> current.first, second |-> begin.second])
             ELSE IF begin.second = current.first
             THEN restart([first |-> begin.first, second |-> current.second])
             ELSE MergeLoop(list, i + 1)

UpdateSackListLoop(list, head, tail) ==
    LET merged == MergeLoop(<<[first |-> head, second |-> tail]>> \o list, 2)
    IN  IF Len(merged) > MaxSackBlocks THEN Front(merged) ELSE merged

RECURSIVE ExtractLoopOldKey(_, _, _)
ExtractLoopOldKey(d, size, out) ==
    IF size = 0 THEN [data |-> d, out |-> out]
    ELSE LET b == Begin(d)
             p == d[b]
             rest == [k \in DOMAIN d \ {b} |-> d[k]]
         IN  IF p.len <= size
             THEN ExtractLoopOldKey(rest, size - p.len,
                                    out \o [i \in 1 .. p.len |-> p.off + i - 1])
             ELSE [data |-> [d EXCEPT ![b] = CreateFragment(p, size, p.len - size)],
                   out |-> out \o [i \in 1 .. size |-> p.off + i - 1]]

\* The loop of Extract: whole entries while they fit, then part of one.
RECURSIVE ExtractLoop(_, _, _)
ExtractLoop(d, size, out) ==
    IF size = 0 THEN [data |-> d, out |-> out]
    ELSE LET b == Begin(d)
             p == d[b]
             taken == Lesser(p.len, size)
             rest == [k \in DOMAIN d \ {b} |-> d[k]]
             bytes == [i \in 1 .. taken |-> p.off + i - 1]
         IN  IF p.len <= size
             THEN ExtractLoop(rest, size - p.len, out \o bytes)
             ELSE [data |-> [k \in DOMAIN rest \cup {b + size} |->
                                IF k = b + size THEN CreateFragment(p, size, p.len - size)
                                                ELSE d[k]],
                   out |-> out \o bytes]

ErasedBytes(erased) == FoldLeft(LAMBDA n, k : n + m_data[k].len, 0, erased)

\* Trimming, overlap removal and storing in Add agree with the closed forms for
\* every segment the socket can pass to it: same fragment, same entries erased,
\* same m_size, or the same refusal to store.
OverlapLoopAgrees ==
    \A s, e \in 1 .. FinSeq :
        synced /\ PeerMaySend(s, e) /\ ~ OutOfRange(s, e) =>
            LET r == OverlapLoop(SortedKeys(m_data), TrimHead(s, e), TrimTail(e), << >>)
            IN  /\ Fits(s, e) <=> r.head < r.tail
                /\ Fits(s, e) =>
                      /\ r.head = NewHead(s, e) /\ r.tail = NewTail(e)
                      /\ {r.erased[i] : i \in 1 .. Len(r.erased)} = Embedded(s, e)
                      /\ ErasedBytes(r.erased) = Cardinality(BytesOf(m_data, Embedded(s, e)))
                      /\ s <= r.head /\ r.tail <= e
                /\ ~ Fits(s, e) => r.erased = << >>

\* Moving m_nextRxSeq entry by entry, counting and clearing on the way, ends
\* where the closed form says; and so does merging the SACK list pair by pair.
AdvanceLoopAgrees ==
    \A s, e \in 1 .. FinSeq :
        synced /\ PeerMaySend(s, e) /\ ~ OutOfRange(s, e) /\ Fits(s, e) =>
            LET d == DataWith(s, e)
                out == NewHead(s, e) > m_nextRxSeq
                sack == IF out THEN UpdateSackListLoop(m_sackList, NewHead(s, e), NewTail(e))
                               ELSE m_sackList
                r == AdvanceLoop(d, SortedKeys(d), m_nextRxSeq, m_availBytes, sack)
                next == FirstMissing(d, m_nextRxSeq)
            IN  /\ out => sack = UpdateSackList(m_sackList, NewHead(s, e), NewTail(e))
                /\ r.next = next
                /\ r.avail = m_availBytes + (next - m_nextRxSeq)
                /\ r.sack = IF next > m_nextRxSeq THEN ClearSackList(sack, next) ELSE sack

\* Taking entries off the front one at a time, splitting the last, returns the
\* bytes and leaves the map that Extract states at once.
ExtractLoopAgrees ==
    [][\A n \in 1 .. StreamLen : Extract(n) =>
          LET r == ExtractLoop(m_data, Lesser(n, m_availBytes), << >>)
          IN  m_data' = r.data /\ delivered' = delivered \o r.out]_vars

\* The loops of TcpRxBuffer::Add, UpdateSackList and Extract, run iteration by
\* iteration, compute what the closed forms of the model say, in every reachable
\* state, for every segment and every read.
LoopsAgree == [](OverlapLoopAgrees /\ AdvanceLoopAgrees) /\ ExtractLoopAgrees
=============================================================================
