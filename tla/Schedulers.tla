----------------------------- MODULE Schedulers -----------------------------
(***************************************************************************)
(* The event lists of src/core/model: ListScheduler (and, with the same    *)
(* sorted contents, MapScheduler and PriorityQueueScheduler, which leave   *)
(* the order to the C++ library), HeapScheduler and CalendarScheduler.     *)
(* A scheduler is a record with its kind; Insert, RemoveNext and           *)
(* RemoveFrom return the scheduler they leave.  An event is its key.       *)
(***************************************************************************)
EXTENDS Integers, SequencesExt

Less(a, b) == a.ts < b.ts \/ (a.ts = b.ts /\ a.uid < b.uid)

Kind == {"list", "heap", "calendar"}

\* The loop of ListScheduler::Insert and CalendarScheduler::DoInsert: before
\* the first event that is later.
InsertSorted(list, ev) ==
    LET p == SelectInSeq(list, LAMBDA e : Less(ev, e))
    IN  IF p = 0 THEN Append(list, ev) ELSE InsertAt(list, p, ev)

IndexOf(list, uid) == SelectInSeq(list, LAMBDA e : e.uid = uid)

(***************************************************************************)
(* HeapScheduler.  m_heap[0] is not used, so that indices agree.           *)
(***************************************************************************)
Parent(i) == i \div 2
LeftChild(i) == i * 2
RightChild(i) == i * 2 + 1

Exch(heap, a, b) == [heap EXCEPT ![a] = heap[b], ![b] = heap[a]]

Smallest(heap, a, b) == IF Less(heap[a], heap[b]) THEN a ELSE b

\* The k-th iteration of the loop that moves the last element up.
BottomUp(heap) ==
    LET up[k \in 0 .. Len(heap)] ==
            IF k = 0 THEN [heap |-> heap, index |-> Len(heap)]
            ELSE LET u == up[k - 1]
                     p == Parent(u.index)
                 IN  IF u.index # 1 /\ Less(u.heap[u.index], u.heap[p])
                     THEN [heap |-> Exch(u.heap, u.index, p), index |-> p]
                     ELSE u
    IN  up[Len(heap)].heap

\* A faulty variant: a node with one child is taken for a leaf.
SinkToTwo(heap, i) ==
    LET c == Smallest(heap, LeftChild(i), RightChild(i))
    IN  IF RightChild(i) > Len(heap) \/ Less(heap[i], heap[c]) THEN 0 ELSE c

\* The smaller child of i that is not larger than i, or 0.
SinkTo(heap, i) ==
    LET c == IF RightChild(i) <= Len(heap) THEN Smallest(heap, LeftChild(i), RightChild(i))
             ELSE LeftChild(i)
    IN  IF LeftChild(i) > Len(heap) \/ Less(heap[i], heap[c]) THEN 0 ELSE c

TopDown(heap, start) ==
    LET down[k \in 0 .. Len(heap)] ==
            IF k = 0 THEN [heap |-> heap, index |-> start]
            ELSE LET d == down[k - 1]
                     c == SinkTo(d.heap, d.index)
                 IN  IF c = 0 THEN d ELSE [heap |-> Exch(d.heap, d.index, c), index |-> c]
    IN  down[Len(heap)].heap

\* The last element takes the place of element i and sinks from there.
HeapRemoveAt(heap, i) == TopDown(Front(Exch(heap, i, Len(heap))), i)

(***************************************************************************)
(* CalendarScheduler.  Bucket b holds the events of every "day" whose      *)
(* number is b modulo the number of buckets, sorted.                       *)
(***************************************************************************)
CalendarInit(nBuckets, width, startPrio) ==
    [kind |-> "calendar", buckets |-> [b \in 0 .. (nBuckets - 1) |-> << >>], qSize |-> 0,
     width |-> width, lastPrio |-> startPrio,
     lastBucket |-> (startPrio \div width) % nBuckets,
     bucketTop |-> (startPrio \div width + 1) * width]

NBuckets(c) == Cardinality(DOMAIN c.buckets)

Hash(c, ts) == (ts \div c.width) % NBuckets(c)

DoInsert(c, ev) == [c EXCEPT !.buckets[Hash(c, ev.ts)] = InsertSorted(@, ev)]

\* Buckets are visited from lastBucket on, each one day later than the one
\* before; the first whose head is of that day has the next event.  If none
\* has, the earliest head is taken and its day becomes the current one.
DoRemoveNext(c) ==
    LET bucketAt(k) == (c.lastBucket + k) % NBuckets(c)
        full == {k \in 0 .. (NBuckets(c) - 1) : c.buckets[bucketAt(k)] # << >>}
        head(k) == Head(c.buckets[bucketAt(k)])
        due == {k \in full : head(k).ts < c.bucketTop + k * c.width}
        k == IF due # {} THEN Min(due)
             ELSE CHOOSE x \in full : \A y \in full \ {x} : Less(head(x), head(y))
        ev == head(k)
    IN  [event |-> ev,
         rest |-> [c EXCEPT !.buckets[bucketAt(k)] = Tail(@), !.lastBucket = bucketAt(k),
                            !.lastPrio = ev.ts,
                            !.bucketTop = IF due # {} THEN @ + k * c.width
                                          ELSE (ev.ts \div c.width + 1) * c.width]]

SumOf(gaps) == FoldFunction(LAMBDA x, y : x + y, 0, gaps)

\* Three times the sum of the gaps between the next events, without the
\* unusually large ones.
CalculateNewWidth(c) ==
    LET nSamples == Min({25, IF c.qSize <= 5 THEN c.qSize ELSE 5 + c.qSize \div 10})
        taken[i \in 1 .. nSamples] == DoRemoveNext(IF i = 1 THEN c ELSE taken[i - 1].rest)
        gap == [i \in 1 .. (nSamples - 1) |-> taken[i + 1].event.ts - taken[i].event.ts]
        twiceAvg == (SumOf(gap) \div (nSamples - 1)) * 2
        usual == {i \in DOMAIN gap : gap[i] <= twiceAvg}
    IN  IF c.qSize < 2 THEN 1 ELSE Max({1, 3 * SumOf([i \in usual |-> gap[i]])})

Resize(c, newSize) ==
    LET new == [CalendarInit(newSize, CalculateNewWidth(c), c.lastPrio) EXCEPT !.qSize = c.qSize]
    IN  FoldSet(LAMBDA ev, d : DoInsert(d, ev), new, UNION {ToSet(c.buckets[b]) : b \in DOMAIN c.buckets})

CalendarInsert(c, ev) ==
    LET d == [DoInsert(c, ev) EXCEPT !.qSize = @ + 1]
    IN  IF d.qSize > NBuckets(d) * 2 /\ NBuckets(d) < 32768 THEN Resize(d, NBuckets(d) * 2) ELSE d

\* After an event has left the buckets.
CalendarShrink(c) ==
    LET d == [c EXCEPT !.qSize = @ - 1]
    IN  IF d.qSize < NBuckets(d) \div 2 THEN Resize(d, NBuckets(d) \div 2) ELSE d

(***************************************************************************)
(* The interface, Scheduler.                                               *)
(***************************************************************************)
NewScheduler(kind) ==
    IF kind = "calendar" THEN CalendarInit(2, 1, 0) ELSE [kind |-> kind, list |-> << >>]

Contents(q) ==
    IF q.kind = "calendar" THEN UNION {ToSet(q.buckets[b]) : b \in DOMAIN q.buckets}
    ELSE ToSet(q.list)

IsEmpty(q) == IF q.kind = "calendar" THEN q.qSize = 0 ELSE q.list = << >>

Insert(q, ev) ==
    CASE q.kind = "list" -> [q EXCEPT !.list = InsertSorted(@, ev)]
      [] q.kind = "heap" -> [q EXCEPT !.list = BottomUp(Append(@, ev))]
      [] q.kind = "calendar" -> CalendarInsert(q, ev)

RemoveNext(q) ==
    CASE q.kind = "list" -> [event |-> Head(q.list), rest |-> [q EXCEPT !.list = Tail(@)]]
      [] q.kind = "heap" -> [event |-> Head(q.list), rest |-> [q EXCEPT !.list = HeapRemoveAt(@, 1)]]
      [] q.kind = "calendar" ->
            LET r == DoRemoveNext(q) IN [event |-> r.event, rest |-> CalendarShrink(r.rest)]

RemoveFrom(q, ev) ==
    CASE q.kind = "list" -> [q EXCEPT !.list = RemoveAt(@, IndexOf(@, ev.uid))]
      [] q.kind = "heap" -> [q EXCEPT !.list = HeapRemoveAt(@, IndexOf(@, ev.uid))]
      [] q.kind = "calendar" ->
            CalendarShrink([q EXCEPT !.buckets[Hash(q, ev.ts)] = RemoveAt(@, IndexOf(@, ev.uid))])
=============================================================================
