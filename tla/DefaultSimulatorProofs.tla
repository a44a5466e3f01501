----------------------- MODULE DefaultSimulatorProofs -----------------------
(***************************************************************************)
(* The event loop keeps its promises for any number of events, threads'    *)
(* pushes and calls: what DefaultSimulator.cfg checks for five events.     *)
(* The first part is the contract of the schedulers that the loop relies   *)
(* on, the second the loop.                                                *)
(***************************************************************************)
EXTENDS DefaultSimulator, InductionFacts

(***************************************************************************)
(* The event lists of Schedulers, of every length: Insert adds an event,   *)
(* RemoveNext takes the first one away, and Remove the one it is given.    *)
(***************************************************************************)
Key == [ts : Nat, uid : Nat]

Ordered(list) == \A i, j \in 1 .. Len(list) : i < j => Less(list[i], list[j])

Distinct(list) == \A i, j \in 1 .. Len(list) : i # j => list[i] # list[j]

Heaped(list) == \A i \in 2 .. Len(list) : Less(list[Parent(i)], list[i])

HeapScheduler == {q \in [kind : {"heap"}, list : Seq(Key)] : Heaped(q.list) /\ Distinct(q.list)}

ListScheduler == {q \in [kind : {"list"}, list : Seq(Key)] : Ordered(q.list)}

(***************************************************************************)
(* Order.                                                                  *)
(***************************************************************************)
\* The order of keys is total and strict.
LEMMA LessIsOrder ==
    /\ \A a, b \in Key : a = b \/ Less(a, b) \/ Less(b, a)
    /\ \A a, b \in Key : Less(a, b) => a # b /\ ~ Less(b, a)
    /\ \A a, b, c \in Key : Less(a, b) /\ Less(b, c) => Less(a, c)
<1>1. \A a, b \in Key : a = b \/ Less(a, b) \/ Less(b, a)
  BY DEF Key, Less
<1>2. \A a, b \in Key : Less(a, b) => a # b /\ ~ Less(b, a)
  BY DEF Key, Less
<1>3. \A a, b, c \in Key : Less(a, b) /\ Less(b, c) => Less(a, c)
  BY DEF Key, Less
<1> QED BY <1>1, <1>2, <1>3

LEMMA Joined ==
    ASSUME NEW S, NEW a \in Seq(S), NEW b \in Seq(S)
    PROVE  /\ a \o b \in Seq(S)
           /\ Len(a \o b) = Len(a) + Len(b)
           /\ \A i \in 1 .. (Len(a) + Len(b)) :
                 (a \o b)[i] = IF i <= Len(a) THEN a[i] ELSE b[i - Len(a)]
OBVIOUS

LEMMA Part ==
    ASSUME NEW S, NEW a \in Seq(S), NEW m \in 1 .. (Len(a) + 1), NEW n \in (m - 1) .. Len(a)
    PROVE  /\ SubSeq(a, m, n) \in Seq(S)
           /\ Len(SubSeq(a, m, n)) = n - m + 1
           /\ \A i \in 1 .. (n - m + 1) : SubSeq(a, m, n)[i] = a[m + i - 1]
OBVIOUS

(***************************************************************************)
(* Lists.                                                                  *)
(***************************************************************************)
\* Where an event is inserted: behind what is earlier, before what is later.
LEMMA WhereInserted ==
    ASSUME NEW list \in Seq(Key), Ordered(list), NEW ev \in Key, ev \notin ToSet(list)
    PROVE  \E p \in 1 .. (Len(list) + 1) :
              /\ \A i \in 1 .. Len(list) : IF i < p THEN Less(list[i], ev) ELSE Less(ev, list[i])
              /\ InsertSorted(list, ev) \in Seq(Key)
              /\ Len(InsertSorted(list, ev)) = Len(list) + 1
              /\ \A i \in 1 .. (Len(list) + 1) :
                    InsertSorted(list, ev)[i] = IF i < p THEN list[i]
                                                ELSE IF i = p THEN ev ELSE list[i - 1]
<1> DEFINE I == {i \in 1 .. Len(list) : Less(ev, list[i])}
           s == SelectInSeq(list, LAMBDA e : Less(ev, e))
<1>1. s = IF I # {} THEN Min(I) ELSE 0
  BY Zenon DEF SelectInSeq
<1>2. InsertSorted(list, ev) = IF s = 0 THEN Append(list, ev) ELSE InsertAt(list, s, ev)
  BY Zenon DEF InsertSorted
<1>3. \A i \in 1 .. Len(list) : list[i] \in Key /\ list[i] # ev
  BY DEF ToSet
<1>4. \A i \in 1 .. Len(list) : Less(list[i], ev) \/ Less(ev, list[i])
  BY <1>3, LessIsOrder
<1>5. CASE I = {}
  <2>1. \A i \in 1 .. Len(list) : Less(list[i], ev)
    BY <1>4, <1>5
  <2>2. InsertSorted(list, ev) = Append(list, ev)
    BY <1>1, <1>2, <1>5
  <2> WITNESS Len(list) + 1 \in 1 .. (Len(list) + 1)
  <2> QED BY <2>1, <2>2
<1>6. CASE I # {}
  <2>1. I \in SUBSET Nat
    OBVIOUS
  <2>2. s \in I /\ \A i \in I : s <= i
    <3> HIDE DEF I, s
    <3> QED BY <1>1, <1>6, <2>1, MinOfNaturals
  <2> HIDE DEF s
  <2>3. s \in 1 .. Len(list) /\ Less(ev, list[s])
    BY <2>2
  <2>4. \A i \in 1 .. Len(list) : i < s => Less(list[i], ev)
    BY <1>4, <2>2
  <2>5. \A i \in 1 .. Len(list) : s < i => Less(ev, list[i])
    BY <1>3, <2>3, LessIsOrder DEF Ordered
  <2>6. InsertSorted(list, ev) = SubSeq(list, 1, s - 1) \o <<ev>> \o SubSeq(list, s, Len(list))
    BY <1>2, <2>3 DEF InsertAt
  <2> Len(list) \in Nat /\ s \in 1 .. (Len(list) + 1)
    BY <2>3
  <2> WITNESS s \in 1 .. (Len(list) + 1)
  <2>7. \A i \in 1 .. Len(list) : IF i < s THEN Less(list[i], ev) ELSE Less(ev, list[i])
    BY <2>3, <2>4, <2>5
  <2> DEFINE a == SubSeq(list, 1, s - 1)
             b == SubSeq(list, s, Len(list))
  <2>8. a \in Seq(Key) /\ Len(a) = s - 1 /\ \A i \in 1 .. (s - 1) : a[i] = list[i]
    BY <2>3
  <2>9. b \in Seq(Key) /\ Len(b) = Len(list) - s + 1
        /\ \A i \in 1 .. (Len(list) - s + 1) : b[i] = list[s + i - 1]
    BY <2>3
  <2> HIDE DEF a, b
  <2> DEFINE c == a \o <<ev>>
  <2>10. c \in Seq(Key) /\ Len(c) = s
         /\ \A i \in 1 .. s : c[i] = IF i < s THEN list[i] ELSE ev
    BY <2>3, <2>8
  <2> HIDE DEF c
  <2>11. c \o b \in Seq(Key) /\ Len(c \o b) = Len(list) + 1
    <3>1. Len(c \o b) = Len(c) + Len(b) /\ c \o b \in Seq(Key)
      BY <2>9, <2>10, Joined
    <3> QED BY <3>1, <2>3, <2>9, <2>10
  <2>12. ASSUME NEW i \in 1 .. (Len(list) + 1)
         PROVE  (c \o b)[i] = IF i < s THEN list[i] ELSE IF i = s THEN ev ELSE list[i - 1]
    <3>1. CASE i <= s
      BY <3>1, <2>3, <2>9, <2>10
    <3>2. CASE i > s
      <4>1. (c \o b)[i] = b[i - s]
        BY <3>2, <2>3, <2>9, <2>10
      <4> QED BY <3>2, <4>1, <2>3, <2>9
    <3>3. i <= s \/ i > s
      BY <2>3
    <3> QED BY <3>1, <3>2, <3>3, Zenon
  <2>13. InsertSorted(list, ev) = c \o b
    BY <2>6 DEF a, b, c
  <2> QED BY <2>7, <2>11, <2>12, <2>13
<1> QED BY <1>5, <1>6

LEMMA ListInsert ==
    ASSUME NEW q \in ListScheduler, NEW ev \in Key, ev \notin Contents(q)
    PROVE  Insert(q, ev) \in ListScheduler /\ Contents(Insert(q, ev)) = Contents(q) \cup {ev}
<1> DEFINE list == q.list
           r == InsertSorted(list, ev)
<1>1. q.kind = "list" /\ list \in Seq(Key) /\ Ordered(list)
  BY DEF ListScheduler
<1>2. Contents(q) = ToSet(list)
  BY <1>1 DEF Contents
<1>3. Insert(q, ev) = [q EXCEPT !.list = r]
  BY <1>1 DEF Insert
<1>4. PICK p \in 1 .. (Len(list) + 1) :
         /\ \A i \in 1 .. Len(list) : IF i < p THEN Less(list[i], ev) ELSE Less(ev, list[i])
         /\ r \in Seq(Key)
         /\ Len(r) = Len(list) + 1
         /\ \A i \in 1 .. (Len(list) + 1) :
               r[i] = IF i < p THEN list[i] ELSE IF i = p THEN ev ELSE list[i - 1]
  BY <1>1, <1>2, WhereInserted
<1> HIDE DEF r, list
<1>5. Ordered(r)
  <2> SUFFICES ASSUME NEW i \in 1 .. (Len(list) + 1), NEW j \in 1 .. (Len(list) + 1), i < j
               PROVE  Less(r[i], r[j])
    BY <1>4 DEF Ordered
  <2> Len(list) \in Nat
    BY <1>1
  <2>1. CASE i < p /\ j < p
    BY <2>1, <1>1, <1>4 DEF Ordered
  <2>2. CASE i < p /\ j = p
    BY <2>2, <1>4
  <2>3. CASE i < p /\ j > p
    <3>1. (i < j - 1 /\ j - 1 \in 1 .. Len(list) /\ i \in 1 .. Len(list)) \/ i = j - 1
      BY <2>3
    <3>2. r[i] = list[i] /\ r[j] = list[j - 1]
      BY <2>3, <1>4
    <3> QED BY <3>1, <3>2, <2>3, <1>1 DEF Ordered
  <2>4. CASE i = p
    BY <2>4, <1>4
  <2>5. CASE i > p
    <3>1. r[i] = list[i - 1] /\ r[j] = list[j - 1]
      BY <2>5, <1>4
    <3>2. i - 1 \in 1 .. Len(list) /\ j - 1 \in 1 .. Len(list) /\ i - 1 < j - 1
      BY <2>5
    <3> QED BY <3>1, <3>2, <1>1 DEF Ordered
  <2> QED BY <2>1, <2>2, <2>3, <2>4, <2>5
<1>6. ToSet(r) = ToSet(list) \cup {ev}
  <2> Len(list) \in Nat /\ DOMAIN list = 1 .. Len(list) /\ DOMAIN r = 1 .. (Len(list) + 1)
    BY <1>1, <1>4
  <2>1. ASSUME NEW i \in DOMAIN r PROVE r[i] \in ToSet(list) \cup {ev}
    <3>1. i \in 1 .. (Len(list) + 1)
      OBVIOUS
    <3>2. (i < p /\ i \in DOMAIN list) \/ i = p \/ (i > p /\ i - 1 \in DOMAIN list)
      BY <3>1
    <3> QED BY <3>1, <3>2, <1>4 DEF ToSet
  <2>2. ev \in ToSet(r)
    BY <1>4 DEF ToSet
  <2>3. ASSUME NEW i \in DOMAIN list PROVE list[i] \in ToSet(r)
    <3>1. CASE i < p
      BY <3>1, <1>4 DEF ToSet
    <3>2. CASE ~ (i < p)
      <4>1. i + 1 \in DOMAIN r /\ r[i + 1] = list[i]
        BY <3>2, <1>4
      <4> QED BY <4>1 DEF ToSet
    <3> QED BY <3>1, <3>2
  <2> QED BY <2>1, <2>2, <2>3 DEF ToSet
<1>7. Insert(q, ev) \in ListScheduler /\ Insert(q, ev).kind = "list" /\ Insert(q, ev).list = r
  BY <1>1, <1>3, <1>4, <1>5 DEF ListScheduler
<1> QED BY <1>2, <1>6, <1>7 DEF Contents

LEMMA ListRemoveNext ==
    ASSUME NEW q \in ListScheduler, q.list # << >>
    PROVE  LET r == RemoveNext(q)
           IN  /\ r.event \in Contents(q)
               /\ \A other \in Contents(q) \ {r.event} : Less(r.event, other)
               /\ r.rest \in ListScheduler
               /\ Contents(r.rest) = Contents(q) \ {r.event}
<1> DEFINE list == q.list
           r == RemoveNext(q)
<1>1. q.kind = "list" /\ list \in Seq(Key) /\ Ordered(list)
  BY DEF ListScheduler
<1>2. Contents(q) = ToSet(list)
  BY <1>1 DEF Contents
<1>3. r = [event |-> Head(list), rest |-> [q EXCEPT !.list = Tail(list)]]
  BY <1>1 DEF RemoveNext
<1>4. /\ Len(list) \in Nat /\ Len(list) >= 1 /\ DOMAIN list = 1 .. Len(list)
      /\ Head(list) = list[1]
      /\ Tail(list) \in Seq(Key) /\ DOMAIN Tail(list) = 1 .. (Len(list) - 1)
      /\ \A i \in 1 .. (Len(list) - 1) : Tail(list)[i] = list[i + 1]
      /\ Len(Tail(list)) = Len(list) - 1
  BY <1>1
<1>5. r.event = list[1] /\ r.rest.kind = "list" /\ r.rest.list = Tail(list)
      /\ r.rest \in [kind : {"list"}, list : Seq(Key)]
  <2> HIDE DEF r
  <2>1. r.event = Head(list) /\ r.rest = [q EXCEPT !.list = Tail(list)]
    BY <1>3
  <2>2. q \in [kind : {"list"}, list : Seq(Key)]
    BY DEF ListScheduler
  <2>3. Tail(list) \in Seq(Key)
    BY <1>4
  <2> QED BY <1>4, <2>1, <2>2, <2>3
<1> HIDE DEF r, list
<1>6. \A i \in 2 .. Len(list) : Less(list[1], list[i]) /\ list[i] # list[1]
  <2>1. \A i \in 2 .. Len(list) : Less(list[1], list[i]) /\ list[1] \in Key /\ list[i] \in Key
    BY <1>1, <1>4 DEF Ordered
  <2> QED BY <2>1, LessIsOrder
<1>7. ToSet(Tail(list)) = ToSet(list) \ {list[1]}
  <2>1. \A i \in DOMAIN Tail(list) : i + 1 \in 2 .. Len(list) /\ i + 1 \in DOMAIN list
    BY <1>4
  <2>2. \A i \in DOMAIN list : i = 1 \/ (i - 1 \in DOMAIN Tail(list) /\ i \in 2 .. Len(list)
                                         /\ Tail(list)[i - 1] = list[i])
    BY <1>4
  <2>3. \A i \in DOMAIN Tail(list) : Tail(list)[i] = list[i + 1]
    BY <1>4
  <2> QED BY <1>6, <2>1, <2>2, <2>3 DEF ToSet
<1>8. Ordered(Tail(list))
  <2> SUFFICES ASSUME NEW i \in 1 .. (Len(list) - 1), NEW j \in 1 .. (Len(list) - 1), i < j
               PROVE  Less(Tail(list)[i], Tail(list)[j])
    BY <1>4 DEF Ordered
  <2>1. i + 1 \in 1 .. Len(list) /\ j + 1 \in 1 .. Len(list) /\ i + 1 < j + 1
    BY <1>4
  <2> QED BY <2>1, <1>1, <1>4 DEF Ordered
<1>9. r.rest \in ListScheduler
  BY <1>5, <1>8 DEF ListScheduler
<1>10. Contents(r.rest) = Contents(q) \ {r.event}
  BY <1>2, <1>5, <1>7 DEF Contents
<1>11. r.event \in Contents(q)
  BY <1>2, <1>4, <1>5 DEF ToSet
<1>12. ASSUME NEW other \in Contents(q) \ {r.event} PROVE Less(r.event, other)
  <2>1. PICK i \in DOMAIN list : other = list[i]
    BY <1>2 DEF ToSet
  <2>2. i \in 2 .. Len(list)
    BY <2>1, <1>4, <1>5
  <2> QED BY <2>1, <2>2, <1>5, <1>6
<1> QED BY <1>9, <1>10, <1>11, <1>12 DEF r

LEMMA ListRemoveFrom ==
    ASSUME NEW q \in ListScheduler, NEW ev \in Contents(q),
           \A k \in Contents(q) : k.uid = ev.uid => k = ev
    PROVE  /\ RemoveFrom(q, ev) \in ListScheduler
           /\ Contents(RemoveFrom(q, ev)) = Contents(q) \ {ev}
<1> DEFINE list == q.list
           I == {i \in 1 .. Len(list) : list[i].uid = ev.uid}
           s == IndexOf(list, ev.uid)
           a == SubSeq(list, 1, s - 1)
           b == SubSeq(list, s + 1, Len(list))
           t == a \o b
<1>1. q.kind = "list" /\ list \in Seq(Key) /\ Ordered(list)
  BY DEF ListScheduler
<1>2. Contents(q) = ToSet(list)
  BY <1>1 DEF Contents
<1>3. RemoveFrom(q, ev) = [q EXCEPT !.list = t]
  BY <1>1 DEF RemoveFrom, RemoveAt
<1>4. s = IF I # {} THEN Min(I) ELSE 0
  BY Zenon DEF IndexOf, SelectInSeq
<1> HIDE DEF list, s
<1>5. Len(list) \in Nat /\ DOMAIN list = 1 .. Len(list) /\ \A i \in DOMAIN list : list[i] \in Key
  BY <1>1
<1>6. s \in 1 .. Len(list) /\ list[s] = ev
  <2>1. I \in SUBSET Nat /\ I # {}
    BY <1>2, <1>5 DEF ToSet
  <2>2. s \in I
    <3> HIDE DEF I
    <3> QED BY <2>1, <1>4, MinOfNaturals
  <2>3. s \in 1 .. Len(list) /\ list[s].uid = ev.uid /\ list[s] \in ToSet(list)
    BY <2>2, <1>5 DEF ToSet
  <2> QED BY <2>3, <1>2
<1>7. a \in Seq(Key) /\ Len(a) = s - 1 /\ \A i \in 1 .. (s - 1) : a[i] = list[i]
  BY <1>1, <1>5, <1>6
<1>8. b \in Seq(Key) /\ Len(b) = Len(list) - s /\ \A i \in 1 .. (Len(list) - s) : b[i] = list[s + i]
  <2>1. /\ b \in Seq(Key) /\ Len(b) = Len(list) - (s + 1) + 1
        /\ \A i \in 1 .. (Len(list) - (s + 1) + 1) : b[i] = list[s + 1 + i - 1]
    <3>1. s + 1 \in 1 .. (Len(list) + 1) /\ Len(list) \in (s + 1 - 1) .. Len(list)
      BY <1>5, <1>6
    <3> QED BY <3>1, <1>1, Part
  <2> HIDE DEF b, a, I
  <2> QED BY <2>1, <1>5, <1>6
<1> HIDE DEF a, b, I
<1>9. /\ t \in Seq(Key) /\ Len(t) = Len(a) + Len(b)
      /\ \A i \in 1 .. (Len(a) + Len(b)) : t[i] = IF i <= Len(a) THEN a[i] ELSE b[i - Len(a)]
  BY <1>7, <1>8, Joined
<1> HIDE DEF t
<1>10. Len(t) = Len(list) - 1 /\ DOMAIN t = 1 .. (Len(list) - 1)
  BY <1>5, <1>6, <1>7, <1>8, <1>9
<1>11. ASSUME NEW i \in 1 .. (Len(list) - 1) PROVE t[i] = IF i < s THEN list[i] ELSE list[i + 1]
  <2>0. /\ i \in Int /\ s \in Int /\ i \in 1 .. (Len(a) + Len(b)) /\ Len(a) = s - 1
        /\ t[i] = IF i <= Len(a) THEN a[i] ELSE b[i - Len(a)]
    <3>1. i \in 1 .. (Len(a) + Len(b)) /\ i \in Int /\ s \in Int /\ Len(a) = s - 1
      BY <1>5, <1>6, <1>7, <1>8
    <3> QED BY <3>1, <1>9
  <2>1. CASE i < s
    <3>1. i <= Len(a) /\ i \in 1 .. (s - 1)
      BY <2>0, <2>1
    <3> QED BY <3>1, <2>0, <2>1, <1>7
  <2>2. CASE i >= s
    <3>0. ~ (i <= Len(a))
      BY <2>0, <2>2
    <3>1. t[i] = b[i - (s - 1)] /\ i - (s - 1) \in 1 .. (Len(list) - s)
      <4>1. t[i] = b[i - (s - 1)]
        BY <2>0, <3>0
      <4>2. i - (s - 1) \in 1 .. (Len(list) - s)
        BY <2>2, <1>5, <1>6
      <4> QED BY <4>1, <4>2
    <3> QED BY <3>1, <2>2, <1>5, <1>6, <1>8
  <2> QED BY <2>1, <2>2, <1>6
<1>12. Ordered(t)
  <2> SUFFICES ASSUME NEW i \in 1 .. (Len(list) - 1), NEW j \in 1 .. (Len(list) - 1), i < j
               PROVE  Less(t[i], t[j])
    BY <1>10 DEF Ordered
  <2> DEFINE x == IF i < s THEN i ELSE i + 1
             y == IF j < s THEN j ELSE j + 1
  <2>1. x \in 1 .. Len(list) /\ y \in 1 .. Len(list) /\ x < y
    BY <1>5, <1>6
  <2>2. t[i] = list[x] /\ t[j] = list[y]
    BY <1>11
  <2> HIDE DEF x, y
  <2> QED BY <2>1, <2>2, <1>1 DEF Ordered
<1>13. ToSet(t) = ToSet(list) \ {ev}
  <2>1. ASSUME NEW i \in DOMAIN t PROVE t[i] \in ToSet(list) \ {ev}
    <3> DEFINE x == IF i < s THEN i ELSE i + 1
    <3>1. x \in 1 .. Len(list) /\ x # s
      BY <1>5, <1>6, <1>10
    <3>2. t[i] = list[x]
      BY <1>10, <1>11
    <3> HIDE DEF x
    <3>3. x < s \/ s < x
      BY <3>1, <1>6
    <3>4. list[x] # list[s]
      BY <3>1, <3>3, <1>1, <1>5, <1>6, LessIsOrder DEF Ordered
    <3> QED BY <3>1, <3>2, <3>4, <1>5, <1>6 DEF ToSet
  <2>2. ASSUME NEW i \in DOMAIN list, list[i] # ev PROVE list[i] \in ToSet(t)
    <3> DEFINE x == IF i < s THEN i ELSE i - 1
    <3>1. x \in DOMAIN t /\ t[x] = list[i]
      BY <2>2, <1>5, <1>6, <1>10, <1>11
    <3> HIDE DEF x
    <3> QED BY <3>1 DEF ToSet
  <2> QED BY <2>1, <2>2 DEF ToSet
<1>14. RemoveFrom(q, ev) \in ListScheduler /\ RemoveFrom(q, ev).kind = "list" /\ RemoveFrom(q, ev).list = t
  BY <1>1, <1>3, <1>9, <1>12 DEF ListScheduler
<1> QED BY <1>2, <1>13, <1>14 DEF Contents

(***************************************************************************)
(* Iteration.  The functions up, down, put and move of the modules are     *)
(* defined by recursion from 0 to n.  If the step takes the members of     *)
(* V[i - 1] to members of V[i], the function exists and stays in V.        *)
(***************************************************************************)
Iterates(f, n, a, step) == f = [i \in 0 .. n |-> IF i = 0 THEN a ELSE step[i][f[i - 1]]]

StaysIn(f, n, V) == \A i \in 0 .. n : f[i] \in V[i]

Leads(step, n, V) == \A i \in 1 .. n : \A v \in V[i - 1] : step[i][v] \in V[i]

LEMMA Iteration ==
    ASSUME NEW n \in Nat, NEW V, NEW a \in V[0], NEW step, Leads(step, n, V)
    PROVE  \E f : Iterates(f, n, a, step) /\ StaysIn(f, n, V)
<1> USE DEF Iterates, StaysIn, Leads
<1> DEFINE Upto(m, f) ==
              /\ f = [i \in 0 .. m |-> IF i = 0 THEN a ELSE step[i][f[i - 1]]]
              /\ \A i \in 0 .. m : f[i] \in V[i]
           S == {m \in 0 .. n : \E f : Upto(m, f)}
<1>1. 0 \in S
  <2> DEFINE f == [i \in 0 .. 0 |-> a]
  <2>1. f = [i \in 0 .. 0 |-> IF i = 0 THEN a ELSE step[i][f[i - 1]]]
    OBVIOUS
  <2>2. \A i \in 0 .. 0 : f[i] \in V[i]
    OBVIOUS
  <2>3. Upto(0, f)
    BY <2>1, <2>2
  <2> HIDE DEF Upto
  <2> QED BY <2>3
<1>2. ASSUME NEW m \in 0 .. (n - 1), m \in S PROVE m + 1 \in S
  <2>1. PICK f : Upto(m, f)
    BY <1>2
  <2> DEFINE g == [i \in 0 .. (m + 1) |-> IF i <= m THEN f[i] ELSE step[m + 1][f[m]]]
  <2>2. \A i \in 0 .. m : g[i] = f[i]
    OBVIOUS
  <2>3. g[m + 1] = step[m + 1][f[m]]
    OBVIOUS
  <2>4. \A i \in 0 .. m : f[i] = IF i = 0 THEN a ELSE step[i][f[i - 1]]
    BY <2>1, Zenon
  <2>5. \A i \in 0 .. (m + 1) : g[i] = IF i = 0 THEN a ELSE step[i][g[i - 1]]
    <3> SUFFICES ASSUME NEW i \in 0 .. (m + 1)
                 PROVE  g[i] = IF i = 0 THEN a ELSE step[i][g[i - 1]]
      OBVIOUS
    <3> HIDE DEF g
    <3>1. i = 0 \/ i - 1 \in 0 .. m
      OBVIOUS
    <3>2. i = m + 1 \/ i \in 0 .. m
      OBVIOUS
    <3> QED BY <3>1, <3>2, <2>2, <2>3, <2>4
  <2>6. g = [i \in 0 .. (m + 1) |-> IF i = 0 THEN a ELSE step[i][g[i - 1]]]
    <3>1. DOMAIN g = 0 .. (m + 1) /\ g = [i \in DOMAIN g |-> g[i]]
      OBVIOUS
    <3> HIDE DEF g
    <3> QED BY <3>1, <2>5
  <2>7. \A i \in 0 .. m : f[i] \in V[i]
    BY <2>1
  <2>8. step[m + 1][f[m]] \in V[m + 1]
    <3>1. m + 1 \in 1 .. n /\ (m + 1) - 1 = m /\ m \in 0 .. m
      OBVIOUS
    <3> QED BY <3>1, <2>7
  <2>9. \A i \in 0 .. (m + 1) : g[i] \in V[i]
    <3> HIDE DEF g
    <3>1. \A i \in 0 .. (m + 1) : i = m + 1 \/ i \in 0 .. m
      OBVIOUS
    <3> QED BY <3>1, <2>2, <2>3, <2>7, <2>8
  <2>10. Upto(m + 1, g) /\ m + 1 \in 0 .. n
    BY <2>6, <2>9
  <2> HIDE DEF Upto, g
  <2> QED BY <2>10
<1>3. n \in S
  <2> HIDE DEF S
  <2>1. \A i \in 0 .. n : i \in S
    BY <1>1, <1>2, UpTo
  <2> QED BY <2>1
<1> QED BY <1>3

LEMMA StepByStep ==
    ASSUME NEW n \in Nat, NEW V, NEW f, f[0] \in V[0],
           \A i \in 0 .. (n - 1) : f[i] \in V[i] => f[i + 1] \in V[i + 1]
    PROVE  StaysIn(f, n, V)
<1> DEFINE S == {i \in 0 .. n : f[i] \in V[i]}
<1>1. 0 \in S /\ \A i \in 0 .. (n - 1) : i \in S => i + 1 \in S
  OBVIOUS
<1>2. \A i \in 0 .. n : i \in S
  <2> HIDE DEF S
  <2> QED BY <1>1, UpTo
<1> QED BY <1>2 DEF StaysIn

(***************************************************************************)
(* Heaps.                                                                  *)
(***************************************************************************)
LEMMA Parents ==
    /\ \A i \in Nat : i >= 2 => Parent(i) \in Nat /\ Parent(i) >= 1 /\ Parent(i) < i
    /\ \A i, k \in Nat : i >= 2 => (Parent(i) = k <=> i = LeftChild(k) \/ i = RightChild(k))
BY DEF Parent, LeftChild, RightChild

LEMMA Exchanged ==
    ASSUME NEW h \in Seq(Key), Distinct(h), NEW a \in 1 .. Len(h), NEW b \in 1 .. Len(h)
    PROVE  LET r == Exch(h, a, b)
           IN  /\ r \in Seq(Key) /\ Len(r) = Len(h)
               /\ \A i \in 1 .. Len(h) : r[i] = IF i = a THEN h[b] ELSE IF i = b THEN h[a] ELSE h[i]
               /\ Distinct(r) /\ ToSet(r) = ToSet(h)
<1> DEFINE r == Exch(h, a, b)
<1>1. Len(h) \in Nat /\ DOMAIN h = 1 .. Len(h) /\ h \in [1 .. Len(h) -> Key]
  OBVIOUS
<1>2. r \in [1 .. Len(h) -> Key]
  BY <1>1 DEF Exch
<1>3. \A i \in 1 .. Len(h) : r[i] = IF i = a THEN h[b] ELSE IF i = b THEN h[a] ELSE h[i]
  BY <1>1 DEF Exch
<1>4. r \in Seq(Key) /\ Len(r) = Len(h) /\ DOMAIN r = 1 .. Len(h)
  <2> HIDE DEF r
  <2> QED BY <1>1, <1>2
<1> HIDE DEF r
<1>5. Distinct(r)
  BY <1>3, <1>4 DEF Distinct
<1>6. ToSet(r) = ToSet(h)
  <2>1. \A i \in DOMAIN r : r[i] \in ToSet(h)
    BY <1>1, <1>3, <1>4 DEF ToSet
  <2>2. ASSUME NEW i \in DOMAIN h PROVE h[i] \in ToSet(r)
    <3> DEFINE x == IF i = a THEN b ELSE IF i = b THEN a ELSE i
    <3>1. x \in DOMAIN r /\ r[x] = h[i]
      BY <1>1, <1>3, <1>4
    <3> HIDE DEF x
    <3> QED BY <3>1 DEF ToSet
  <2> QED BY <2>1, <2>2 DEF ToSet
<1> QED BY <1>3, <1>4, <1>5, <1>6 DEF r

\* Every element is in order with its parent, but for x, which may still rise.
Rising(h, x) ==
    \A i \in 2 .. Len(h) : /\ i # x => Less(h[Parent(i)], h[i])
                           /\ Parent(i) = x /\ x >= 2 => Less(h[Parent(x)], h[i])

Risen(h, x) == x = 1 \/ Less(h[Parent(x)], h[x])

LEMMA Rise ==
    ASSUME NEW h \in Seq(Key), Distinct(h), NEW x \in 2 .. Len(h), Rising(h, x),
           Less(h[x], h[Parent(x)])
    PROVE  Rising(Exch(h, x, Parent(x)), Parent(x))
<1> DEFINE p == Parent(x)
           r == Exch(h, x, p)
           n == Len(h)
<1>1. n \in Nat /\ \A i \in 1 .. n : h[i] \in Key
  OBVIOUS
<1>2. p \in 1 .. n /\ p < x
  BY <1>1, Parents
<1>3. Len(r) = n /\ \A i \in 1 .. n : r[i] = IF i = x THEN h[p] ELSE IF i = p THEN h[x] ELSE h[i]
  <2>1. x \in 1 .. n /\ p \in 1 .. n
    BY <1>1, <1>2
  <2> QED BY <2>1, Exchanged, Zenon
<1> HIDE DEF r, p
<1>4. Less(h[x], h[p])
  BY DEF p
<1> SUFFICES ASSUME NEW i \in 2 .. n
             PROVE  /\ i # p => Less(r[Parent(i)], r[i])
                    /\ Parent(i) = p /\ p >= 2 => Less(r[Parent(p)], r[i])
  BY <1>3 DEF Rising, p, r
<1>5. Parent(i) \in 1 .. n /\ Parent(i) < i
  BY <1>1, Parents
<1>6. i # x => Less(h[Parent(i)], h[i])
  BY DEF Rising
<1>7. Parent(i) = x => Less(h[p], h[i])
  BY DEF Rising, p
<1>8. Parent(i) = p /\ i # x => Less(h[x], h[i])
  BY <1>1, <1>2, <1>4, <1>6, LessIsOrder
<1>9. i # p => Less(r[Parent(i)], r[i])
  <2>1. CASE i = x
    <3>1. Parent(i) = p
      BY <2>1 DEF p
    <3> QED BY <2>1, <3>1, <1>2, <1>3, <1>4
  <2>2. CASE i # x /\ i # p /\ Parent(i) = x
    BY <2>2, <1>2, <1>3, <1>5, <1>7
  <2>3. CASE i # x /\ i # p /\ Parent(i) = p
    BY <2>3, <1>2, <1>3, <1>5, <1>8
  <2>4. CASE i # x /\ i # p /\ Parent(i) # x /\ Parent(i) # p
    BY <2>4, <1>3, <1>5, <1>6
  <2> QED BY <2>1, <2>2, <2>3, <2>4
<1>10. Parent(i) = p /\ p >= 2 => Less(r[Parent(p)], r[i])
  <2> SUFFICES ASSUME Parent(i) = p, p >= 2 PROVE Less(r[Parent(p)], r[i])
    OBVIOUS
  <2>1. Parent(p) \in 1 .. n /\ Parent(p) < p
    BY <1>1, <1>2, Parents
  <2>2. Less(h[Parent(p)], h[p])
    BY <1>2 DEF Rising
  <2>3. r[Parent(p)] = h[Parent(p)]
    BY <2>1, <1>2, <1>3
  <2>4. CASE i = x
    BY <2>2, <2>3, <2>4, <1>3
  <2>5. CASE i # x
    <3>1. r[i] = h[i]
      BY <2>5, <1>3, <1>5
    <3>2. Less(h[p], h[i])
      BY <2>5, <1>6
    <3> QED BY <3>1, <3>2, <2>1, <2>2, <2>3, <1>1, <1>2, LessIsOrder
  <2> QED BY <2>4, <2>5
<1> QED BY <1>9, <1>10

\* The states of the loop of BottomUp after k iterations.
RisingStates(n, T, k) ==
    {u \in [heap : Seq(Key), index : 1 .. n] :
        /\ Len(u.heap) = n /\ Distinct(u.heap) /\ ToSet(u.heap) = T
        /\ Rising(u.heap, u.index)
        /\ Risen(u.heap, u.index) \/ u.index <= n - k}

RiseStep(u) ==
    LET p == Parent(u.index)
    IN  IF u.index # 1 /\ Less(u.heap[u.index], u.heap[p])
        THEN [heap |-> Exch(u.heap, u.index, p), index |-> p]
        ELSE u

LEMMA RiseStepKeeps ==
    ASSUME NEW n \in Nat, NEW T, NEW k \in 1 .. n, NEW u \in RisingStates(n, T, k - 1)
    PROVE  RiseStep(u) \in RisingStates(n, T, k)
<1> DEFINE h == u.heap
           x == u.index
           p == Parent(x)
           r == Exch(h, x, p)
<1>1. /\ u \in [heap : Seq(Key), index : 1 .. n]
      /\ h \in Seq(Key) /\ x \in 1 .. n /\ Len(h) = n /\ Distinct(h) /\ ToSet(h) = T
      /\ Rising(h, x)
      /\ Risen(h, x) \/ x <= n - (k - 1)
  BY DEF RisingStates
<1>2. RiseStep(u) = IF x # 1 /\ Less(h[x], h[p]) THEN [heap |-> r, index |-> p] ELSE u
  BY DEF RiseStep
<1> HIDE DEF h, x, p, r
<1>3. CASE x # 1 /\ Less(h[x], h[p])
  <2>1. p \in 1 .. n /\ p < x /\ x \in 2 .. n
    BY <1>1, <1>3, Parents DEF p
  <2>2. Rising(r, p)
    BY <1>1, <1>3, <2>1, Rise DEF p, r
  <2>3. r \in Seq(Key) /\ Len(r) = n /\ Distinct(r) /\ ToSet(r) = T
    <3>1. x \in 1 .. Len(h) /\ p \in 1 .. Len(h)
      BY <1>1, <2>1
    <3>2. r \in Seq(Key) /\ Len(r) = Len(h) /\ Distinct(r) /\ ToSet(r) = ToSet(h)
      BY <3>1, <1>1, Exchanged, Zenon DEF r
    <3> QED BY <3>2, <1>1
  <2>4. h[p] \in Key /\ h[x] \in Key
    BY <1>1, <2>1
  <2>5. p <= n - k
    <3>1. ~ Risen(h, x)
      BY <1>3, <2>4, LessIsOrder DEF Risen, p
    <3> QED BY <3>1, <1>1, <2>1
  <2> DEFINE w == [heap |-> r, index |-> p]
  <2>6. w \in [heap : Seq(Key), index : 1 .. n] /\ w.heap = r /\ w.index = p
    BY <2>1, <2>3
  <2>7. RiseStep(u) = w
    BY <1>2, <1>3
  <2> HIDE DEF w
  <2> QED BY <2>2, <2>3, <2>5, <2>6, <2>7 DEF RisingStates
<1>4. CASE ~ (x # 1 /\ Less(h[x], h[p]))
  <2>1. RiseStep(u) = u
    BY <1>2, <1>4
  <2>2. Risen(h, x)
    <3>1. CASE x = 1
      BY <3>1 DEF Risen
    <3>2. CASE x # 1
      <4>1. p \in 1 .. n /\ p < x
        BY <1>1, <3>2, Parents DEF p
      <4>2. h[p] \in Key /\ h[x] \in Key /\ h[p] # h[x]
        BY <4>1, <1>1 DEF Distinct
      <4> QED BY <4>2, <3>2, <1>4, LessIsOrder DEF Risen, p
    <3> QED BY <3>1, <3>2
  <2> QED BY <2>1, <2>2, <1>1 DEF RisingStates, h, x
<1> QED BY <1>3, <1>4

LEMMA RisenAtTheEnd ==
    ASSUME NEW h \in Seq(Key), h # << >>, Distinct(h), Rising(h, Len(h))
    PROVE  LET r == BottomUp(h)
           IN  r \in Seq(Key) /\ Distinct(r) /\ Heaped(r) /\ ToSet(r) = ToSet(h)
<1> DEFINE n == Len(h)
           T == ToSet(h)
           V == [k \in 0 .. n |-> RisingStates(n, T, k)]
           a == [heap |-> h, index |-> n]
           step == [k \in 1 .. n |-> [u \in V[k - 1] |-> RiseStep(u)]]
           up == CHOOSE f : f = [k \in 0 .. n |-> IF k = 0 THEN a ELSE RiseStep(f[k - 1])]
<1>1. BottomUp(h) = up[n].heap
  BY Zenon DEF BottomUp, RiseStep
<1>2. n \in Nat /\ n >= 1
  OBVIOUS
<1>3. \A k \in 0 .. n : V[k] = RisingStates(n, T, k)
  OBVIOUS
<1>4. a \in V[0]
  <2>1. a \in [heap : Seq(Key), index : 1 .. n] /\ a.heap = h /\ a.index = n
    BY <1>2
  <2> HIDE DEF a
  <2>2. 0 \in 0 .. n /\ n <= n - 0
    BY <1>2
  <2> QED BY <2>1, <2>2, <1>3 DEF RisingStates
<1>5. \A k \in 1 .. n : \A u \in V[k - 1] : RiseStep(u) \in V[k] /\ step[k][u] = RiseStep(u)
  <2> SUFFICES ASSUME NEW k \in 1 .. n, NEW u \in V[k - 1]
               PROVE  RiseStep(u) \in V[k] /\ step[k][u] = RiseStep(u)
    OBVIOUS
  <2>1. step[k][u] = RiseStep(u)
    OBVIOUS
  <2>2. k - 1 \in 0 .. n /\ k \in 0 .. n
    BY <1>2
  <2> HIDE DEF V, step
  <2>3. u \in RisingStates(n, T, k - 1)
    BY <2>2, <1>3
  <2>4. RiseStep(u) \in RisingStates(n, T, k)
    <3> HIDE DEF n, T
    <3> QED BY <2>3, <1>2, RiseStepKeeps
  <2> QED BY <2>1, <2>2, <2>4, <1>3
<1> HIDE DEF V, a, step, n, T
<1>6. \E f : /\ f = [k \in 0 .. n |-> IF k = 0 THEN a ELSE RiseStep(f[k - 1])]
             /\ \A k \in 0 .. n : f[k] \in V[k]
  <2>1. Leads(step, n, V)
    BY <1>5 DEF Leads
  <2>2. PICK f : Iterates(f, n, a, step) /\ StaysIn(f, n, V)
    BY <2>1, <1>2, <1>4, Iteration, Zenon
  <2>3. /\ f = [k \in 0 .. n |-> IF k = 0 THEN a ELSE step[k][f[k - 1]]]
        /\ \A k \in 0 .. n : f[k] \in V[k]
    BY <2>2 DEF Iterates, StaysIn
  <2>4. \A k \in 0 .. n : (IF k = 0 THEN a ELSE step[k][f[k - 1]]) = IF k = 0 THEN a ELSE RiseStep(f[k - 1])
    BY <2>3, <1>2, <1>5
  <2>5. f = [k \in 0 .. n |-> IF k = 0 THEN a ELSE RiseStep(f[k - 1])]
    BY <2>3, <2>4, Zenon
  <2> QED BY <2>3, <2>5
<1>7. up = [k \in 0 .. n |-> IF k = 0 THEN a ELSE RiseStep(up[k - 1])]
  BY <1>6, Zenon
<1> HIDE DEF up
<1>8. \A k \in 0 .. n : up[k] \in V[k]
  <2>1. up[0] = a /\ \A k \in 0 .. (n - 1) : up[k + 1] = RiseStep(up[k])
    <3>1. 0 \in 0 .. n /\ \A k \in 0 .. (n - 1) : k + 1 \in 0 .. n /\ k + 1 # 0 /\ (k + 1) - 1 = k
      BY <1>2
    <3> QED BY <1>7, <3>1
  <2>2. \A k \in 0 .. (n - 1) : up[k] \in V[k] => up[k + 1] \in V[k + 1]
    <3> SUFFICES ASSUME NEW k \in 0 .. (n - 1), up[k] \in V[k] PROVE up[k + 1] \in V[k + 1]
      OBVIOUS
    <3>1. k + 1 \in 1 .. n /\ (k + 1) - 1 = k
      BY <1>2
    <3>2. RiseStep(up[k]) \in V[k + 1]
      BY <3>1, <1>5
    <3> QED BY <3>2, <2>1
  <2> QED BY <2>1, <2>2, <1>2, <1>4, StepByStep DEF StaysIn
<1> DEFINE r == up[n].heap
           x == up[n].index
<1>9. /\ r \in Seq(Key) /\ x \in 1 .. n /\ Len(r) = n /\ Distinct(r) /\ ToSet(r) = T
      /\ Rising(r, x) /\ Risen(r, x)
  <2>1. up[n] \in RisingStates(n, T, n)
    BY <1>2, <1>3, <1>8
  <2> QED BY <2>1, <1>2 DEF RisingStates
<1> HIDE DEF r, x
<1>10. Heaped(r)
  BY <1>9 DEF Heaped, Rising, Risen
<1> QED BY <1>1, <1>9, <1>10 DEF r, T

LEMMA HeapInsert ==
    ASSUME NEW q \in HeapScheduler, NEW ev \in Key, ev \notin Contents(q)
    PROVE  Insert(q, ev) \in HeapScheduler /\ Contents(Insert(q, ev)) = Contents(q) \cup {ev}
<1> DEFINE list == q.list
           n == Len(list)
           h == Append(list, ev)
           r == BottomUp(h)
<1>1. q.kind = "heap" /\ list \in Seq(Key) /\ Heaped(list) /\ Distinct(list)
  BY DEF HeapScheduler
<1>2. Contents(q) = ToSet(list)
  BY <1>1 DEF Contents
<1>3. Insert(q, ev) = [q EXCEPT !.list = r]
  BY <1>1 DEF Insert
<1> HIDE DEF r, list
<1>4. n \in Nat /\ DOMAIN list = 1 .. n /\ \A i \in 1 .. n : list[i] # ev
  BY <1>1, <1>2 DEF ToSet
<1>5. h \in Seq(Key) /\ Len(h) = n + 1 /\ h # << >> /\ DOMAIN h = 1 .. (n + 1) /\ h[n + 1] = ev
      /\ \A i \in 1 .. n : h[i] = list[i]
  BY <1>1
<1> HIDE DEF h, n
<1>6. Distinct(h)
  <2> SUFFICES ASSUME NEW i \in 1 .. (n + 1), NEW j \in 1 .. (n + 1), i # j PROVE h[i] # h[j]
    BY <1>5 DEF Distinct
  <2>1. (i \in 1 .. n \/ i = n + 1) /\ (j \in 1 .. n \/ j = n + 1)
    BY <1>4
  <2> QED BY <2>1, <1>1, <1>4, <1>5 DEF Distinct, n
<1>7. Rising(h, Len(h))
  <2> SUFFICES ASSUME NEW i \in 2 .. (n + 1)
               PROVE  /\ i # n + 1 => Less(h[Parent(i)], h[i])
                      /\ Parent(i) # n + 1
    BY <1>5 DEF Rising
  <2>1. Parent(i) \in 1 .. n /\ Parent(i) < i
    BY <1>4, Parents
  <2>2. i # n + 1 => i \in 2 .. n /\ i \in 1 .. n
    BY <1>4
  <2>3. i # n + 1 => Less(list[Parent(i)], list[i])
    BY <2>2, <1>1 DEF Heaped, n
  <2> QED BY <2>1, <2>2, <2>3, <1>4, <1>5
<1>8. ToSet(h) = ToSet(list) \cup {ev}
  <2>1. \A i \in DOMAIN h : i \in 1 .. n \/ i = n + 1
    BY <1>4, <1>5
  <2>2. 1 .. n \subseteq DOMAIN h /\ n + 1 \in DOMAIN h
    BY <1>4, <1>5
  <2> QED BY <2>1, <2>2, <1>4, <1>5 DEF ToSet
<1>9. r \in Seq(Key) /\ Distinct(r) /\ Heaped(r) /\ ToSet(r) = ToSet(h)
  BY <1>5, <1>6, <1>7, RisenAtTheEnd, Zenon DEF r
<1>10. Insert(q, ev) \in HeapScheduler /\ Insert(q, ev).kind = "heap" /\ Insert(q, ev).list = r
  BY <1>1, <1>3, <1>9 DEF HeapScheduler
<1> QED BY <1>2, <1>8, <1>9, <1>10 DEF Contents

\* The root of a heap is its first event.
LEMMA RootIsFirst ==
    ASSUME NEW h \in Seq(Key), Heaped(h)
    PROVE  \A i \in 2 .. Len(h) : Less(h[1], h[i])
<1> SUFFICES ASSUME NEW j \in 2 .. Len(h), ~ Less(h[1], h[j]) PROVE FALSE
  OBVIOUS
<1> DEFINE T == {i \in 2 .. Len(h) : ~ Less(h[1], h[i])}
<1>1. T \in SUBSET Nat /\ T # {}
  OBVIOUS
<1>2. PICK x \in T : \A y \in T : x <= y
  <2> HIDE DEF T
  <2> QED BY <1>1, LeastNatural
<1>3. x \in 2 .. Len(h) /\ ~ Less(h[1], h[x])
  OBVIOUS
<1>4. Parent(x) \in 1 .. Len(h) /\ Parent(x) < x
  BY <1>3, Parents
<1>5. Less(h[Parent(x)], h[x])
  BY <1>3 DEF Heaped
<1>6. Parent(x) = 1 \/ Parent(x) \in 2 .. Len(h)
  BY <1>4
<1>7. Parent(x) = 1 \/ Less(h[1], h[Parent(x)])
  BY <1>2, <1>3, <1>4, <1>6
<1>8. h[1] \in Key /\ h[Parent(x)] \in Key /\ h[x] \in Key
  BY <1>3, <1>4
<1> QED BY <1>3, <1>5, <1>7, <1>8, LessIsOrder

\* Every element is in order with its parent, but for the children of x, which may still sink.
Sinking(h, x) ==
    \A i \in 2 .. Len(h) : /\ Parent(i) # x => Less(h[Parent(i)], h[i])
                           /\ Parent(i) = x /\ x >= 2 => Less(h[Parent(x)], h[i])

Sunk(h, x) == \A i \in 2 .. Len(h) : Parent(i) = x => Less(h[x], h[i])

LEMMA WhereItSinks ==
    ASSUME NEW h \in Seq(Key), Distinct(h), NEW x \in 1 .. Len(h)
    PROVE  LET c == SinkTo(h, x)
           IN  \/ c = 0 /\ Sunk(h, x)
               \/ /\ c \in 2 .. Len(h) /\ Parent(c) = x /\ Less(h[c], h[x])
                  /\ \A i \in 2 .. Len(h) : Parent(i) = x /\ i # c => Less(h[c], h[i])
<1> DEFINE n == Len(h)
           l == LeftChild(x)
           g == RightChild(x)
           s == IF Less(h[l], h[g]) THEN l ELSE g
           c == IF g <= n THEN s ELSE l
<1>1. SinkTo(h, x) = IF l > n \/ Less(h[x], h[c]) THEN 0 ELSE c
  BY DEF SinkTo, Smallest
<1>2. n \in Nat /\ (\A i \in 1 .. n : h[i] \in Key) /\ \A i, j \in 1 .. n : i # j => h[i] # h[j]
  BY DEF Distinct
<1>3. l \in Nat /\ g = l + 1 /\ l >= 2 /\ l > x
  BY DEF LeftChild, RightChild
<1>4. \A i \in 2 .. n : Parent(i) = x <=> i = l \/ i = g
  BY <1>2, Parents
<1>5. CASE l > n
  <2>1. SinkTo(h, x) = 0
    BY <1>1, <1>5
  <2>2. \A i \in 2 .. n : Parent(i) # x
    BY <1>2, <1>3, <1>4, <1>5
  <2> QED BY <2>1, <2>2 DEF Sunk
<1>6. CASE l <= n
  <2>1. c \in 2 .. n /\ (c = l \/ (c = g /\ g <= n))
    BY <1>2, <1>3, <1>6
  <2>2. \A i \in 2 .. n : Parent(i) = x /\ i # c => Less(h[c], h[i])
    <3> SUFFICES ASSUME NEW i \in 2 .. n, Parent(i) = x, i # c PROVE Less(h[c], h[i])
      OBVIOUS
    <3>1. i = l \/ i = g
      BY <1>4
    <3>2. g <= n /\ l \in 1 .. n /\ g \in 1 .. n /\ l # g
      BY <3>1, <1>2, <1>3, <1>6
    <3>3. Less(h[l], h[g]) \/ Less(h[g], h[l])
      BY <3>2, <1>2, LessIsOrder
    <3> QED BY <3>1, <3>2, <3>3
  <2> HIDE DEF c, s, l, g
  <2>3. Parent(c) = x /\ c \in 1 .. n /\ c # x /\ x \in 1 .. n
    BY <2>1, <1>2, <1>3, <1>4
  <2>4. Less(h[x], h[c]) \/ Less(h[c], h[x])
    BY <2>3, <1>2, LessIsOrder
  <2>5. CASE Less(h[x], h[c])
    <3>1. SinkTo(h, x) = 0
      BY <1>1, <2>5
    <3>2. \A i \in 2 .. n : h[i] \in Key
      BY <1>2
    <3>3. \A i \in 2 .. n : Parent(i) = x => Less(h[x], h[i])
      BY <3>2, <2>2, <2>3, <2>5, <1>2, LessIsOrder
    <3> QED BY <3>1, <3>3 DEF Sunk
  <2>6. CASE ~ Less(h[x], h[c])
    <3>1. SinkTo(h, x) = c
      BY <1>1, <1>2, <1>3, <1>6, <2>6
    <3> QED BY <3>1, <2>1, <2>2, <2>3, <2>4, <2>6
  <2> QED BY <2>5, <2>6
<1> QED BY <1>2, <1>3, <1>5, <1>6

LEMMA Sink ==
    ASSUME NEW h \in Seq(Key), Distinct(h), NEW x \in 1 .. Len(h), Sinking(h, x),
           NEW c \in 2 .. Len(h), Parent(c) = x, Less(h[c], h[x]),
           \A i \in 2 .. Len(h) : Parent(i) = x /\ i # c => Less(h[c], h[i])
    PROVE  Sinking(Exch(h, x, c), c)
<1> DEFINE r == Exch(h, x, c)
           n == Len(h)
<1>1. n \in Nat /\ c \in 1 .. n /\ x \in 1 .. n
  OBVIOUS
<1>2. x < c
  BY <1>1, Parents
<1>3. Len(r) = n /\ \A i \in 1 .. n : r[i] = IF i = x THEN h[c] ELSE IF i = c THEN h[x] ELSE h[i]
  <2>1. c \in 1 .. Len(h)
    BY <1>1
  <2> QED BY ONLY h \in Seq(Key), Distinct(h), x \in 1 .. Len(h), <2>1, Exchanged
<1> HIDE DEF r
<1> SUFFICES ASSUME NEW i \in 2 .. n
             PROVE  /\ Parent(i) # c => Less(r[Parent(i)], r[i])
                    /\ Parent(i) = c /\ c >= 2 => Less(r[Parent(c)], r[i])
  BY <1>3 DEF Sinking, r
<1>4. Parent(i) \in 1 .. n /\ Parent(i) < i /\ i \in 1 .. n
  BY <1>1, Parents
<1>5. Parent(i) # x => Less(h[Parent(i)], h[i])
  BY DEF Sinking
<1>6. x >= 2 => Less(h[Parent(x)], h[c])
  BY DEF Sinking
<1>7. Parent(i) # c => Less(r[Parent(i)], r[i])
  <2>1. CASE i = c
    BY <2>1, <1>1, <1>2, <1>3
  <2>2. CASE i # c /\ Parent(i) = x
    BY <2>2, <1>1, <1>2, <1>3, <1>4
  <2>3. CASE i = x
    BY <2>3, <1>1, <1>2, <1>3, <1>4, <1>6
  <2>4. CASE i # c /\ i # x /\ Parent(i) # x /\ Parent(i) # c
    BY <2>4, <1>3, <1>4, <1>5
  <2> QED BY <2>1, <2>2, <2>3, <2>4
<1>8. Parent(i) = c => Less(r[Parent(c)], r[i])
  <2> SUFFICES ASSUME Parent(i) = c PROVE Less(r[Parent(c)], r[i])
    OBVIOUS
  <2>1. i # x /\ i # c
    BY <1>2, <1>4
  <2>2. r[i] = h[i] /\ r[Parent(c)] = h[c]
    BY <2>1, <1>1, <1>3, <1>4
  <2>3. Less(h[c], h[i])
    BY <1>2, <1>5
  <2> QED BY <2>2, <2>3
<1> QED BY <1>7, <1>8

\* The states of the loop of TopDown after k iterations.
SinkingStates(n, T, k) ==
    {d \in [heap : Seq(Key), index : 1 .. n] :
        /\ Len(d.heap) = n /\ Distinct(d.heap) /\ ToSet(d.heap) = T
        /\ Sinking(d.heap, d.index)
        /\ Sunk(d.heap, d.index) \/ d.index >= k + 1}

SinkStep(d) ==
    LET c == SinkTo(d.heap, d.index)
    IN  IF c = 0 THEN d ELSE [heap |-> Exch(d.heap, d.index, c), index |-> c]

LEMMA SinkStepKeeps ==
    ASSUME NEW n \in Nat, NEW T, NEW k \in 1 .. n, NEW d \in SinkingStates(n, T, k - 1)
    PROVE  SinkStep(d) \in SinkingStates(n, T, k)
<1> DEFINE h == d.heap
           x == d.index
           c == SinkTo(h, x)
           r == Exch(h, x, c)
<1>1. /\ d \in [heap : Seq(Key), index : 1 .. n]
      /\ h \in Seq(Key) /\ x \in 1 .. n /\ Len(h) = n /\ Distinct(h) /\ ToSet(h) = T
      /\ Sinking(h, x)
      /\ Sunk(h, x) \/ x >= k - 1 + 1
  BY DEF SinkingStates
<1>2. SinkStep(d) = IF c = 0 THEN d ELSE [heap |-> r, index |-> c]
  BY DEF SinkStep
<1>3. \/ c = 0 /\ Sunk(h, x)
      \/ /\ c \in 2 .. n /\ Parent(c) = x /\ Less(h[c], h[x])
         /\ \A i \in 2 .. n : Parent(i) = x /\ i # c => Less(h[c], h[i])
  <2> HIDE DEF h, x
  <2>1. x \in 1 .. Len(h)
    BY <1>1
  <2> QED BY <2>1, <1>1, WhereItSinks
<1> HIDE DEF h, x, c, r
<1>4. CASE c = 0
  <2>1. SinkStep(d) = d
    BY <1>2, <1>4
  <2>2. Sunk(h, x)
    BY <1>3, <1>4
  <2> QED BY <2>1, <2>2, <1>1 DEF SinkingStates, h, x
<1>5. CASE c # 0
  <2>1. /\ c \in 2 .. n /\ Parent(c) = x /\ Less(h[c], h[x])
        /\ \A i \in 2 .. n : Parent(i) = x /\ i # c => Less(h[c], h[i])
    BY <1>3, <1>5
  <2>2. c \in 1 .. n /\ x < c
    BY <1>1, <2>1, Parents
  <2>3. Sinking(r, c)
    BY <1>1, <2>1, Sink DEF r
  <2>4. r \in Seq(Key) /\ Len(r) = n /\ Distinct(r) /\ ToSet(r) = T
    <3>1. x \in 1 .. Len(h) /\ c \in 1 .. Len(h)
      BY <1>1, <2>2
    <3>2. r \in Seq(Key) /\ Len(r) = Len(h) /\ Distinct(r) /\ ToSet(r) = ToSet(h)
      BY <3>1, <1>1, Exchanged, Zenon DEF r
    <3> QED BY <3>2, <1>1
  <2>5. ~ Sunk(h, x)
    <3>1. h[c] \in Key /\ h[x] \in Key
      BY <1>1, <2>2
    <3>2. ~ Less(h[x], h[c])
      BY <3>1, <2>1, LessIsOrder
    <3> QED BY <3>2, <1>1, <2>1 DEF Sunk
  <2>6. c >= k + 1
    BY <1>1, <2>2, <2>5
  <2> DEFINE w == [heap |-> r, index |-> c]
  <2>7. w \in [heap : Seq(Key), index : 1 .. n] /\ w.heap = r /\ w.index = c
    BY <2>2, <2>4
  <2>8. SinkStep(d) = w
    BY <1>2, <1>5
  <2> HIDE DEF w
  <2> QED BY <2>3, <2>4, <2>6, <2>7, <2>8 DEF SinkingStates
<1> QED BY <1>4, <1>5

LEMMA SunkAtTheEnd ==
    ASSUME NEW h \in Seq(Key), h # << >>, Distinct(h), Sinking(h, 1)
    PROVE  LET r == TopDown(h, 1)
           IN  r \in Seq(Key) /\ Distinct(r) /\ Heaped(r) /\ ToSet(r) = ToSet(h)
<1> DEFINE n == Len(h)
           T == ToSet(h)
           V == [k \in 0 .. n |-> SinkingStates(n, T, k)]
           a == [heap |-> h, index |-> 1]
           step == [k \in 1 .. n |-> [d \in V[k - 1] |-> SinkStep(d)]]
           down == CHOOSE f : f = [k \in 0 .. n |-> IF k = 0 THEN a ELSE SinkStep(f[k - 1])]
<1>1. TopDown(h, 1) = down[n].heap
  BY Zenon DEF TopDown, SinkStep
<1>2. n \in Nat /\ n >= 1
  OBVIOUS
<1>3. \A k \in 0 .. n : V[k] = SinkingStates(n, T, k)
  OBVIOUS
<1>4. a \in V[0]
  <2>1. a \in [heap : Seq(Key), index : 1 .. n] /\ a.heap = h /\ a.index = 1
    BY <1>2
  <2> HIDE DEF a
  <2>2. 0 \in 0 .. n /\ 1 >= 0 + 1
    BY <1>2
  <2> QED BY <2>1, <2>2, <1>3 DEF SinkingStates
<1>5. \A k \in 1 .. n : \A d \in V[k - 1] : SinkStep(d) \in V[k] /\ step[k][d] = SinkStep(d)
  <2> SUFFICES ASSUME NEW k \in 1 .. n, NEW d \in V[k - 1]
               PROVE  SinkStep(d) \in V[k] /\ step[k][d] = SinkStep(d)
    OBVIOUS
  <2>1. step[k][d] = SinkStep(d)
    OBVIOUS
  <2>2. k - 1 \in 0 .. n /\ k \in 0 .. n
    BY <1>2
  <2> HIDE DEF V, step
  <2>3. d \in SinkingStates(n, T, k - 1)
    BY <2>2, <1>3
  <2>4. SinkStep(d) \in SinkingStates(n, T, k)
    <3> HIDE DEF n, T
    <3> QED BY <2>3, <1>2, SinkStepKeeps
  <2> QED BY <2>1, <2>2, <2>4, <1>3
<1> HIDE DEF V, a, step, n, T
<1>6. \E f : f = [k \in 0 .. n |-> IF k = 0 THEN a ELSE SinkStep(f[k - 1])]
  <2>1. Leads(step, n, V)
    BY <1>5 DEF Leads
  <2>2. PICK f : Iterates(f, n, a, step) /\ StaysIn(f, n, V)
    BY <2>1, <1>2, <1>4, Iteration, Zenon
  <2>3. /\ f = [k \in 0 .. n |-> IF k = 0 THEN a ELSE step[k][f[k - 1]]]
        /\ \A k \in 0 .. n : f[k] \in V[k]
    BY <2>2 DEF Iterates, StaysIn
  <2>4. \A k \in 0 .. n : (IF k = 0 THEN a ELSE step[k][f[k - 1]]) = IF k = 0 THEN a ELSE SinkStep(f[k - 1])
    BY <2>3, <1>2, <1>5
  <2>5. f = [k \in 0 .. n |-> IF k = 0 THEN a ELSE SinkStep(f[k - 1])]
    BY <2>3, <2>4, Zenon
  <2> QED BY <2>5
<1>7. down = [k \in 0 .. n |-> IF k = 0 THEN a ELSE SinkStep(down[k - 1])]
  BY <1>6, Zenon
<1> HIDE DEF down
<1>8. \A k \in 0 .. n : down[k] \in V[k]
  <2>1. down[0] = a /\ \A k \in 0 .. (n - 1) : down[k + 1] = SinkStep(down[k])
    <3>1. 0 \in 0 .. n /\ \A k \in 0 .. (n - 1) : k + 1 \in 0 .. n /\ k + 1 # 0 /\ (k + 1) - 1 = k
      BY <1>2
    <3> QED BY <1>7, <3>1
  <2>2. \A k \in 0 .. (n - 1) : down[k] \in V[k] => down[k + 1] \in V[k + 1]
    <3> SUFFICES ASSUME NEW k \in 0 .. (n - 1), down[k] \in V[k] PROVE down[k + 1] \in V[k + 1]
      OBVIOUS
    <3>1. k + 1 \in 1 .. n /\ (k + 1) - 1 = k
      BY <1>2
    <3>2. SinkStep(down[k]) \in V[k + 1]
      BY <3>1, <1>5
    <3> QED BY <3>2, <2>1
  <2> QED BY <2>1, <2>2, <1>2, <1>4, StepByStep DEF StaysIn
<1> DEFINE r == down[n].heap
           x == down[n].index
<1>9. /\ r \in Seq(Key) /\ x \in 1 .. n /\ Len(r) = n /\ Distinct(r) /\ ToSet(r) = T
      /\ Sinking(r, x) /\ Sunk(r, x)
  <2>1. down[n] \in SinkingStates(n, T, n)
    BY <1>2, <1>3, <1>8
  <2> QED BY <2>1, <1>2 DEF SinkingStates
<1> HIDE DEF r, x
<1>10. Heaped(r)
  BY <1>9 DEF Heaped, Sinking, Sunk
<1> QED BY <1>1, <1>9, <1>10 DEF r, T

LEMMA HeapRemoveNext ==
    ASSUME NEW q \in HeapScheduler, q.list # << >>
    PROVE  LET r == RemoveNext(q)
           IN  /\ r.event \in Contents(q)
               /\ \A other \in Contents(q) \ {r.event} : Less(r.event, other)
               /\ r.rest \in HeapScheduler
               /\ Contents(r.rest) = Contents(q) \ {r.event}
<1> DEFINE list == q.list
           n == Len(list)
           e == Exch(list, 1, n)
           h == SubSeq(e, 1, n - 1)
           t == TopDown(h, 1)
           r == RemoveNext(q)
<1>1. q.kind = "heap" /\ list \in Seq(Key) /\ Heaped(list) /\ Distinct(list)
  BY DEF HeapScheduler
<1>2. Contents(q) = ToSet(list)
  BY <1>1 DEF Contents
<1>3. /\ n \in Nat /\ n >= 1 /\ DOMAIN list = 1 .. n /\ Head(list) = list[1]
      /\ \A i \in 1 .. n : list[i] \in Key
  BY <1>1
<1>4. /\ e \in Seq(Key) /\ Len(e) = n
      /\ \A i \in 1 .. n : e[i] = IF i = 1 THEN list[n] ELSE IF i = n THEN list[1] ELSE list[i]
      /\ Distinct(e) /\ ToSet(e) = ToSet(list)
  <2>1. 1 \in 1 .. n /\ n \in 1 .. n
    BY <1>3
  <2> HIDE DEF list
  <2> QED BY <2>1, <1>1, Exchanged, Zenon
<1>5. r = [event |-> Head(list), rest |-> [q EXCEPT !.list = t]]
  <2>1. HeapRemoveAt(list, 1) = t
    <3>1. HeapRemoveAt(list, 1) = TopDown(SubSeq(e, 1, Len(e) - 1), 1)
      BY DEF HeapRemoveAt, Front
    <3> HIDE DEF e
    <3> QED BY <3>1, <1>4
  <2>2. RemoveNext(q) = [event |-> Head(list), rest |-> [q EXCEPT !.list = HeapRemoveAt(list, 1)]]
    BY <1>1 DEF RemoveNext
  <2> HIDE DEF t
  <2> QED BY <2>1, <2>2
<1>6. /\ h \in Seq(Key) /\ Len(h) = n - 1 /\ DOMAIN h = 1 .. (n - 1)
      /\ \A i \in 1 .. (n - 1) : h[i] = e[i]
  BY <1>3, <1>4
<1> HIDE DEF list, n, e, h, t, r
<1>7. Distinct(h)
  BY <1>3, <1>4, <1>6 DEF Distinct
<1>8. Sinking(h, 1)
  <2> SUFFICES ASSUME NEW i \in 2 .. (n - 1), Parent(i) # 1 PROVE Less(h[Parent(i)], h[i])
    BY <1>6 DEF Sinking
  <2>1. Parent(i) \in 2 .. (n - 1) /\ i \in 2 .. n
    BY <1>3, Parents
  <2>2. h[i] = list[i] /\ h[Parent(i)] = list[Parent(i)]
    BY <2>1, <1>3, <1>4, <1>6
  <2> QED BY <2>1, <2>2, <1>1 DEF Heaped, n
<1>9. ToSet(h) = ToSet(list) \ {list[1]}
  <2>1. ASSUME NEW i \in 1 .. (n - 1) PROVE h[i] \in ToSet(list) \ {list[1]}
    <3>1. i \in 1 .. n /\ n \in 1 .. n /\ h[i] = IF i = 1 THEN list[n] ELSE list[i]
      BY <1>3, <1>4, <1>6
    <3>2. h[i] # list[1]
      BY <3>1, <1>1, <1>3 DEF Distinct, n
    <3> QED BY <3>1, <3>2, <1>3 DEF ToSet
  <2>2. ASSUME NEW i \in 1 .. n, list[i] # list[1] PROVE list[i] \in ToSet(h)
    <3> DEFINE x == IF i = n THEN 1 ELSE i
    <3>1. i # 1
      BY <2>2
    <3>2. x \in 1 .. (n - 1) /\ h[x] = list[i]
      BY <3>1, <1>3, <1>4, <1>6
    <3> HIDE DEF x
    <3> QED BY <3>2, <1>6 DEF ToSet
  <2> QED BY <2>1, <2>2, <1>3, <1>6 DEF ToSet
<1>10. t \in Seq(Key) /\ Distinct(t) /\ Heaped(t) /\ ToSet(t) = ToSet(h)
  <2>1. CASE h # << >>
    BY <2>1, <1>6, <1>7, <1>8, SunkAtTheEnd, Zenon DEF t
  <2>2. CASE h = << >>
    <3>1. t = << >>
      <4> DEFINE a == [heap |-> << >>, index |-> 1]
                 down == CHOOSE f : f = [k \in 0 .. 0 |-> IF k = 0 THEN a ELSE SinkStep(f[k - 1])]
      <4>1. Len(<< >>) = 0
        OBVIOUS
      <4>2. t = down[0].heap
        <5>1. TopDown(h, 1) = (CHOOSE f : f = [k \in 0 .. Len(h) |->
                  IF k = 0 THEN [heap |-> h, index |-> 1] ELSE SinkStep(f[k - 1])])[Len(h)].heap
          BY Zenon DEF TopDown, SinkStep
        <5> QED BY <5>1, <2>2, <4>1, Zenon DEF t
      <4>3. [k \in 0 .. 0 |-> a] = [k \in 0 .. 0 |-> IF k = 0 THEN a ELSE SinkStep([j \in 0 .. 0 |-> a][k - 1])]
        OBVIOUS
      <4> HIDE DEF a
      <4>4. down = [k \in 0 .. 0 |-> IF k = 0 THEN a ELSE SinkStep(down[k - 1])]
        BY <4>3, Zenon
      <4> HIDE DEF down
      <4>5. down[0] = a
        BY <4>4
      <4> QED BY <4>2, <4>5 DEF a
    <3> QED BY <3>1, <2>2 DEF Distinct, Heaped
  <2> QED BY <2>1, <2>2
<1>11. r.event = list[1] /\ r.rest.kind = "heap" /\ r.rest.list = t
       /\ r.rest \in [kind : {"heap"}, list : Seq(Key)]
  <2>1. r.event = Head(list) /\ r.rest = [q EXCEPT !.list = t]
    BY <1>5
  <2>2. q \in [kind : {"heap"}, list : Seq(Key)]
    BY DEF HeapScheduler
  <2> QED BY <1>3, <1>10, <2>1, <2>2
<1>12. r.rest \in HeapScheduler
  BY <1>10, <1>11 DEF HeapScheduler
<1>13. Contents(r.rest) = Contents(q) \ {r.event}
  BY <1>2, <1>9, <1>10, <1>11 DEF Contents
<1>14. r.event \in Contents(q)
  BY <1>2, <1>3, <1>11 DEF ToSet
<1>15. ASSUME NEW other \in Contents(q) \ {r.event} PROVE Less(r.event, other)
  <2>1. PICK i \in DOMAIN list : other = list[i]
    BY <1>2 DEF ToSet
  <2>2. i \in 2 .. Len(list)
    BY <2>1, <1>3, <1>11 DEF n
  <2> QED BY <2>1, <2>2, <1>1, <1>11, RootIsFirst
<1> QED BY <1>12, <1>13, <1>14, <1>15 DEF r

(***************************************************************************)
(* The interface.                                                          *)
(***************************************************************************)
Sound == ListScheduler \cup HeapScheduler

LEMMA NewIsEmpty ==
    ASSUME NEW kind \in {"list", "heap"}
    PROVE  /\ NewScheduler(kind) \in Sound
           /\ NewScheduler(kind).kind = kind
           /\ Contents(NewScheduler(kind)) = {}
<1> DEFINE q == NewScheduler(kind)
<1>1. q = [kind |-> kind, list |-> << >>]
  BY DEF NewScheduler
<1>2. q.kind = kind /\ q.list = << >> /\ q \in [kind : {kind}, list : Seq(Key)]
  BY <1>1
<1>3. Ordered(<< >>) /\ Heaped(<< >>) /\ Distinct(<< >>)
  BY DEF Ordered, Heaped, Distinct
<1>4. ToSet(<< >>) = {}
  BY DEF ToSet
<1> HIDE DEF q
<1>5. q \in Sound
  BY <1>2, <1>3 DEF Sound, ListScheduler, HeapScheduler
<1>6. Contents(q) = {}
  BY <1>2, <1>4 DEF Contents
<1> QED BY <1>2, <1>5, <1>6 DEF q

LEMMA SoundContents ==
    ASSUME NEW q \in Sound
    PROVE  /\ Contents(q) \subseteq Key /\ IsFiniteSet(Contents(q))
           /\ IsEmpty(q) <=> Contents(q) = {}
           /\ IsEmpty(q) <=> q.list = << >>
           /\ q \in ListScheduler <=> q.kind = "list"
           /\ q \in HeapScheduler <=> q.kind = "heap"
<1> DEFINE list == q.list
<1>1. list \in Seq(Key) /\ (q.kind = "list" \/ q.kind = "heap")
  BY DEF Sound, ListScheduler, HeapScheduler
<1>2. Contents(q) = ToSet(list) /\ (IsEmpty(q) <=> list = << >>)
  BY <1>1 DEF Contents, IsEmpty
<1>3. (q \in ListScheduler <=> q.kind = "list") /\ (q \in HeapScheduler <=> q.kind = "heap")
  BY DEF Sound, ListScheduler, HeapScheduler
<1> HIDE DEF list
<1>4. Len(list) \in Nat /\ DOMAIN list = 1 .. Len(list) /\ \A i \in DOMAIN list : list[i] \in Key
  BY <1>1
<1>5. ToSet(list) \subseteq Key /\ (list = << >> <=> ToSet(list) = {})
  <2>1. list = << >> <=> Len(list) = 0
    BY <1>1
  <2>2. Len(list) = 0 \/ 1 \in DOMAIN list
    BY <1>4
  <2>3. Len(list) = 0 => DOMAIN list = {}
    BY <1>4
  <2> QED BY <2>1, <2>2, <2>3, <1>4 DEF ToSet
<1>6. IsFiniteSet(ToSet(list))
  <2>1. list \in Surjection(1 .. Len(list), ToSet(list))
    <3>1. list \in [1 .. Len(list) -> ToSet(list)]
      BY <1>1, <1>4 DEF ToSet
    <3> QED BY <3>1, <1>4 DEF Surjection, ToSet
  <2>2. ExistsSurjection(1 .. Len(list), ToSet(list))
    BY <2>1, Zenon DEF ExistsSurjection
  <2> QED BY <2>2, <1>4, FS_NatSurjection
<1> QED BY <1>2, <1>3, <1>5, <1>6 DEF list

LEMMA InsertAdds ==
    ASSUME NEW q \in Sound, NEW ev \in Key, ev \notin Contents(q)
    PROVE  /\ Insert(q, ev) \in Sound /\ Insert(q, ev).kind = q.kind
           /\ Contents(Insert(q, ev)) = Contents(q) \cup {ev}
<1>1. CASE q \in ListScheduler
  BY <1>1, ListInsert DEF Sound, ListScheduler
<1>2. CASE q \in HeapScheduler
  BY <1>2, HeapInsert DEF Sound, HeapScheduler
<1> QED BY <1>1, <1>2 DEF Sound

LEMMA RemoveNextTakesFirst ==
    ASSUME NEW q \in Sound, ~ IsEmpty(q)
    PROVE  /\ RemoveNext(q).event \in Contents(q)
           /\ \A other \in Contents(q) \ {RemoveNext(q).event} : Less(RemoveNext(q).event, other)
           /\ RemoveNext(q).rest \in Sound /\ RemoveNext(q).rest.kind = q.kind
           /\ Contents(RemoveNext(q).rest) = Contents(q) \ {RemoveNext(q).event}
<1>1. q.list # << >>
  BY SoundContents
<1>2. CASE q \in ListScheduler
  <2>1. RemoveNext(q).rest \in ListScheduler
    BY <1>1, <1>2, ListRemoveNext, Zenon
  <2> QED BY <2>1, <1>1, <1>2, ListRemoveNext DEF Sound, ListScheduler
<1>3. CASE q \in HeapScheduler
  <2>1. RemoveNext(q).rest \in HeapScheduler
    BY <1>1, <1>3, HeapRemoveNext, Zenon
  <2> QED BY <2>1, <1>1, <1>3, HeapRemoveNext DEF Sound, HeapScheduler
<1> QED BY <1>2, <1>3 DEF Sound

LEMMA RemoveTakesAway ==
    ASSUME NEW q \in Sound, q.kind = "list", NEW ev \in Contents(q),
           \A k \in Contents(q) : k.uid = ev.uid => k = ev
    PROVE  /\ RemoveFrom(q, ev) \in Sound /\ RemoveFrom(q, ev).kind = q.kind
           /\ Contents(RemoveFrom(q, ev)) = Contents(q) \ {ev}
<1>1. q \in ListScheduler
  BY SoundContents
<1>2. RemoveFrom(q, ev) \in ListScheduler /\ Contents(RemoveFrom(q, ev)) = Contents(q) \ {ev}
  BY <1>1, ListRemoveFrom
<1> QED BY <1>2 DEF Sound, ListScheduler

(***************************************************************************)
(* Events of the other thread.                                             *)
(***************************************************************************)
\* While the main thread is outside of Run or at the head of its loop, no
\* event has begun since the other thread's list was last empty.
CrossThreadInv ==
    /\ withContext \in Seq(Delays) /\ empty \in BOOLEAN
    /\ empty <=> withContext = << >>
    /\ pc \in {"idle", "handler", "check", "swap", "loop"}
    /\ waited \in {0, 1}
    /\ withContext = << >> \/ pc \in {"idle", "loop"} => waited = 0

LEMMA CrossThreadInductive ==
    ASSUME CrossThreadInv, [Next]_vars
    PROVE  CrossThreadInv'
<1> USE DEF CrossThreadInv
<1>1. ASSUME NEW d \in Delays, ScheduleWithContext(d) PROVE CrossThreadInv'
  <2>1. /\ withContext' = Append(withContext, d) /\ empty' = FALSE
        /\ UNCHANGED <<pc, waited>>
    BY <1>1 DEF ScheduleWithContext
  <2>2. withContext' \in Seq(Delays) /\ withContext' # << >>
    BY <2>1
  <2> QED BY <2>1, <2>2
<1>2. CASE ProcessOneEvent
  <2>1. /\ pc = "loop" /\ pc' \in {"check", "handler"}
        /\ waited' = IF withContext = << >> THEN 0 ELSE waited + 1
        /\ UNCHANGED <<withContext, empty>>
    BY <1>2 DEF ProcessOneEvent
  <2> QED BY <2>1
<1>3. CASE ProcessEventsWithContext
  BY <1>3 DEF ProcessEventsWithContext
<1>4. CASE ReadFlag
  BY <1>4 DEF ReadFlag
<1>5. CASE HandlerReturns \/ RunReturns \/ Run
  BY <1>5 DEF HandlerReturns, RunReturns, Run
<1>6. CASE Stop \/ (\E k \in Kinds : SetScheduler(k))
  BY <1>6 DEF Stop, SetScheduler
<1>7. CASE \E id \in ids : Cancel(id) \/ RemoveEvent(id)
  BY <1>7 DEF Cancel, RemoveEvent
<1>8. CASE \E d \in Delays : Schedule(d)
  BY <1>8 DEF Schedule
<1>9. CASE UNCHANGED vars
  BY <1>9 DEF vars
<1> QED BY <1>1, <1>2, <1>3, <1>4, <1>5, <1>6, <1>7, <1>8, <1>9 DEF Next

\* An event of the other thread waits for at most one event that begins after
\* it was handed over, whatever the schedulers do and however the threads
\* interleave (ProcessEventsWithContext and its flag, read without the mutex).
THEOREM OtherThreadIsServed == Spec => []CrossThreadWaits
<1>1. Init => CrossThreadInv
  BY DEF Init, CrossThreadInv
<1>2. CrossThreadInv /\ [Next]_vars => CrossThreadInv'
  BY CrossThreadInductive
<1>3. CrossThreadInv => CrossThreadWaits
  BY DEF CrossThreadInv, CrossThreadWaits
<1> QED BY <1>1, <1>2, <1>3, PTL DEF Spec

(***************************************************************************)
(* The schedulers' contract, for the loops over several events.            *)
(***************************************************************************)
Late(delays, j) == [ts |-> now.ts + delays[j], uid |-> uid + j]

LEMMA InsertDelayedAdds ==
    ASSUME NEW q \in Sound, NEW delays \in Seq(Nat), now.ts \in Nat, uid \in Nat,
           \A k \in Contents(q) : k.uid <= uid
    PROVE  /\ InsertDelayed(q, delays) \in Sound
           /\ InsertDelayed(q, delays).kind = q.kind
           /\ Contents(InsertDelayed(q, delays)) =
                 Contents(q) \cup {Late(delays, j) : j \in 1 .. Len(delays)}
<1> DEFINE n == Len(delays)
           C(i) == Contents(q) \cup {Late(delays, j) : j \in 1 .. i}
           States(i) == {p \in Sound : p.kind = q.kind /\ Contents(p) = C(i)}
           V == [i \in 0 .. n |-> States(i)]
           step == [i \in 1 .. n |-> [p \in V[i - 1] |-> Insert(p, Late(delays, i))]]
           put == CHOOSE f : f = [i \in 0 .. n |-> IF i = 0 THEN q ELSE Insert(f[i - 1], Late(delays, i))]
<1>1. InsertDelayed(q, delays) = put[n]
  BY Zenon DEF InsertDelayed, Late
<1>2. n \in Nat /\ \A i \in 1 .. n : delays[i] \in Nat
  OBVIOUS
<1>3. \A i \in 0 .. n : V[i] = States(i)
  OBVIOUS
<1>4. q \in V[0]
  BY <1>2
<1>5. \A i \in 1 .. n : \A p \in V[i - 1] :
         Insert(p, Late(delays, i)) \in V[i] /\ step[i][p] = Insert(p, Late(delays, i))
  <2> SUFFICES ASSUME NEW i \in 1 .. n, NEW p \in V[i - 1]
               PROVE  Insert(p, Late(delays, i)) \in V[i] /\ step[i][p] = Insert(p, Late(delays, i))
    OBVIOUS
  <2>1. step[i][p] = Insert(p, Late(delays, i))
    OBVIOUS
  <2>2. i - 1 \in 0 .. n /\ i \in 0 .. n
    BY <1>2
  <2> HIDE DEF step, V
  <2>3. p \in Sound /\ p.kind = q.kind /\ Contents(p) = C(i - 1)
    BY <2>2, <1>3
  <2>4. Late(delays, i) \in Key
    BY <1>2 DEF Late, Key
  <2>5. Late(delays, i) \notin Contents(p)
    <3>1. Late(delays, i).uid = uid + i
      BY DEF Late
    <3>2. \A j \in 1 .. (i - 1) : Late(delays, j).uid = uid + j /\ uid + j < uid + i
      BY <1>2 DEF Late
    <3>3. \A k \in Contents(q) : k.uid \in Nat /\ k.uid <= uid
      BY SoundContents DEF Key
    <3>4. \A k \in Contents(p) : k.uid < uid + i
      BY <3>2, <3>3, <2>3
    <3> QED BY <3>1, <3>4
  <2>6. C(i) = C(i - 1) \cup {Late(delays, i)}
    <3>1. \A j \in 1 .. i : j = i \/ j \in 1 .. (i - 1)
      BY <1>2
    <3>2. i \in 1 .. i /\ 1 .. (i - 1) \subseteq 1 .. i
      BY <1>2
    <3> QED BY <3>1, <3>2, Zenon
  <2> HIDE DEF C
  <2>7. Insert(p, Late(delays, i)) \in States(i)
    BY <2>3, <2>4, <2>5, <2>6, InsertAdds
  <2> HIDE DEF States
  <2> QED BY <2>1, <2>2, <2>7, <1>3
<1> HIDE DEF V, step, n, C, States
<1>6. \E f : f = [i \in 0 .. n |-> IF i = 0 THEN q ELSE Insert(f[i - 1], Late(delays, i))]
  <2>1. Leads(step, n, V)
    BY <1>5 DEF Leads
  <2>2. PICK f : Iterates(f, n, q, step) /\ StaysIn(f, n, V)
    BY <2>1, <1>2, <1>4, Iteration, Zenon
  <2>3. /\ f = [i \in 0 .. n |-> IF i = 0 THEN q ELSE step[i][f[i - 1]]]
        /\ \A i \in 0 .. n : f[i] \in V[i]
    BY <2>2 DEF Iterates, StaysIn
  <2>4. \A i \in 0 .. n : (IF i = 0 THEN q ELSE step[i][f[i - 1]])
                          = IF i = 0 THEN q ELSE Insert(f[i - 1], Late(delays, i))
    <3>1. \A i \in 0 .. n : i = 0 \/ (i \in 1 .. n /\ i - 1 \in 0 .. n)
      BY <1>2
    <3>2. \A i \in 1 .. n : f[i - 1] \in V[i - 1]
      BY <3>1, <2>3, <1>2
    <3>3. \A i \in 1 .. n : step[i][f[i - 1]] = Insert(f[i - 1], Late(delays, i))
      BY <3>2, <1>5, Zenon
    <3> QED BY <3>1, <3>3, Zenon
  <2>5. f = [i \in 0 .. n |-> IF i = 0 THEN q ELSE Insert(f[i - 1], Late(delays, i))]
    BY <2>3, <2>4, Zenon
  <2> QED BY <2>5
<1>7. put = [i \in 0 .. n |-> IF i = 0 THEN q ELSE Insert(put[i - 1], Late(delays, i))]
  BY <1>6, Zenon
<1> HIDE DEF put
<1>8. \A i \in 0 .. n : put[i] \in V[i]
  <2>1. put[0] = q /\ \A i \in 0 .. (n - 1) : put[i + 1] = Insert(put[i], Late(delays, i + 1))
    <3>1. 0 \in 0 .. n /\ \A i \in 0 .. (n - 1) : i + 1 \in 0 .. n /\ i + 1 # 0 /\ (i + 1) - 1 = i
      BY <1>2
    <3> QED BY <1>7, <3>1
  <2>2. \A i \in 0 .. (n - 1) : put[i] \in V[i] => put[i + 1] \in V[i + 1]
    <3> SUFFICES ASSUME NEW i \in 0 .. (n - 1), put[i] \in V[i] PROVE put[i + 1] \in V[i + 1]
      OBVIOUS
    <3>1. i + 1 \in 1 .. n /\ (i + 1) - 1 = i
      BY <1>2
    <3>2. Insert(put[i], Late(delays, i + 1)) \in V[i + 1]
      BY <3>1, <1>5
    <3> QED BY <3>2, <2>1
  <2> QED BY <2>1, <2>2, <1>2, <1>4, StepByStep DEF StaysIn
<1>9. put[n] \in States(n)
  BY <1>2, <1>3, <1>8
<1> QED BY <1>1, <1>9 DEF States, C, n

LEMMA MovedKeeps ==
    ASSUME NEW q \in Sound, NEW kind \in {"list", "heap"}
    PROVE  /\ Moved(q, kind) \in Sound /\ Moved(q, kind).kind = kind
           /\ Contents(Moved(q, kind)) = Contents(q)
<1> DEFINE C == Contents(q)
           n == Cardinality(C)
           States(i) == {m \in [from : Sound, to : Sound] :
                           /\ Contents(m.from) \cup Contents(m.to) = C
                           /\ Contents(m.from) \cap Contents(m.to) = {}
                           /\ Cardinality(Contents(m.from)) = n - i
                           /\ m.to.kind = kind}
           Move(m) == [from |-> RemoveNext(m.from).rest, to |-> Insert(m.to, RemoveNext(m.from).event)]
           V == [i \in 0 .. n |-> States(i)]
           a == [from |-> q, to |-> NewScheduler(kind)]
           step == [i \in 1 .. n |-> [m \in V[i - 1] |-> Move(m)]]
           move == CHOOSE f : f = [i \in 0 .. n |-> IF i = 0 THEN a ELSE Move(f[i - 1])]
<1>1. Moved(q, kind) = move[n].to
  BY Zenon DEF Moved
<1>2. n \in Nat
  BY SoundContents, FS_CardinalityType
<1>3. \A i \in 0 .. n : V[i] = States(i)
  OBVIOUS
<1>4. a \in V[0]
  <2>1. NewScheduler(kind) \in Sound /\ NewScheduler(kind).kind = kind /\ Contents(NewScheduler(kind)) = {}
    BY NewIsEmpty
  <2>2. a \in [from : Sound, to : Sound] /\ a.from = q /\ a.to = NewScheduler(kind)
    BY <2>1
  <2> HIDE DEF a
  <2>3. a \in States(0)
    BY <2>1, <2>2, <1>2
  <2> HIDE DEF States
  <2> QED BY <2>3, <1>2, <1>3
<1>5. ASSUME NEW i \in 1 .. n, NEW m \in States(i - 1) PROVE Move(m) \in States(i)
  <2> DEFINE from == m.from
             to == m.to
             ev == RemoveNext(from).event
             rest == RemoveNext(from).rest
             more == Insert(to, ev)
  <2>1. /\ from \in Sound /\ to \in Sound
        /\ Contents(from) \cup Contents(to) = C
        /\ Contents(from) \cap Contents(to) = {}
        /\ Cardinality(Contents(from)) = n - (i - 1)
        /\ to.kind = kind
    OBVIOUS
  <2>2. Move(m) = [from |-> rest, to |-> more]
    OBVIOUS
  <2> HIDE DEF Move, ev, rest, more, from, to, n, C
  <2>3. IsFiniteSet(Contents(from)) /\ Contents(from) \subseteq Key /\ (IsEmpty(from) <=> Contents(from) = {})
    BY <2>1, SoundContents
  <2>4. Contents(from) # {}
    BY <2>1, <1>2, FS_EmptySet
  <2>5. /\ ev \in Contents(from) /\ rest \in Sound
        /\ Contents(rest) = Contents(from) \ {ev}
    BY <2>1, <2>3, <2>4, RemoveNextTakesFirst DEF ev, rest
  <2>6. more \in Sound /\ more.kind = kind /\ Contents(more) = Contents(to) \cup {ev}
    BY <2>1, <2>3, <2>5, InsertAdds DEF more
  <2>7. Cardinality(Contents(rest)) = n - i
    <3>1. Cardinality(Contents(from) \ {ev}) = Cardinality(Contents(from)) - 1
      BY <2>3, <2>5, FS_RemoveElement
    <3> QED BY <3>1, <2>1, <2>5, <1>2
  <2> DEFINE w == [from |-> rest, to |-> more]
  <2>8. w \in [from : Sound, to : Sound] /\ w.from = rest /\ w.to = more
    BY <2>5, <2>6
  <2>9. Move(m) = w
    BY <2>2
  <2> HIDE DEF w
  <2> QED BY <2>1, <2>5, <2>6, <2>7, <2>8, <2>9
<1>6. \A i \in 1 .. n : \A m \in V[i - 1] : Move(m) \in V[i] /\ step[i][m] = Move(m)
  <2> SUFFICES ASSUME NEW i \in 1 .. n, NEW m \in V[i - 1]
               PROVE  Move(m) \in V[i] /\ step[i][m] = Move(m)
    OBVIOUS
  <2> HIDE DEF Move
  <2>1. step[i][m] = Move(m)
    OBVIOUS
  <2>2. i - 1 \in 0 .. n /\ i \in 0 .. n
    BY <1>2
  <2> HIDE DEF step, V, States
  <2> QED BY <2>1, <2>2, <1>3, <1>5
<1> HIDE DEF V, a, step, n, C, States, Move
<1>7. \E f : f = [i \in 0 .. n |-> IF i = 0 THEN a ELSE Move(f[i - 1])]
  <2>1. Leads(step, n, V)
    BY <1>6 DEF Leads
  <2>2. PICK f : Iterates(f, n, a, step) /\ StaysIn(f, n, V)
    BY <2>1, <1>2, <1>4, Iteration, Zenon
  <2>3. /\ f = [i \in 0 .. n |-> IF i = 0 THEN a ELSE step[i][f[i - 1]]]
        /\ \A i \in 0 .. n : f[i] \in V[i]
    BY <2>2 DEF Iterates, StaysIn
  <2>4. \A i \in 0 .. n : (IF i = 0 THEN a ELSE step[i][f[i - 1]]) = IF i = 0 THEN a ELSE Move(f[i - 1])
    BY <2>3, <1>2, <1>6
  <2>5. f = [i \in 0 .. n |-> IF i = 0 THEN a ELSE Move(f[i - 1])]
    BY <2>3, <2>4, Zenon
  <2> QED BY <2>5
<1>8. move = [i \in 0 .. n |-> IF i = 0 THEN a ELSE Move(move[i - 1])]
  BY <1>7, Zenon
<1> HIDE DEF move
<1>9. \A i \in 0 .. n : move[i] \in V[i]
  <2>1. move[0] = a /\ \A i \in 0 .. (n - 1) : move[i + 1] = Move(move[i])
    <3>1. 0 \in 0 .. n /\ \A i \in 0 .. (n - 1) : i + 1 \in 0 .. n /\ i + 1 # 0 /\ (i + 1) - 1 = i
      BY <1>2
    <3> QED BY <1>8, <3>1
  <2>2. \A i \in 0 .. (n - 1) : move[i] \in V[i] => move[i + 1] \in V[i + 1]
    <3> SUFFICES ASSUME NEW i \in 0 .. (n - 1), move[i] \in V[i] PROVE move[i + 1] \in V[i + 1]
      OBVIOUS
    <3>1. i + 1 \in 1 .. n /\ (i + 1) - 1 = i
      BY <1>2
    <3>2. Move(move[i]) \in V[i + 1]
      BY <3>1, <1>6
    <3> QED BY <3>2, <2>1
  <2> QED BY <2>1, <2>2, <1>2, <1>4, StepByStep DEF StaysIn
<1>10. move[n] \in States(n)
  BY <1>2, <1>3, <1>9
<1>11. /\ move[n].from \in Sound /\ move[n].to \in Sound /\ move[n].to.kind = kind
       /\ Contents(move[n].from) \cup Contents(move[n].to) = C
       /\ Cardinality(Contents(move[n].from)) = 0
  BY <1>2, <1>10 DEF States
<1>12. Contents(move[n].from) = {}
  BY <1>11, SoundContents, FS_EmptySet
<1> QED BY <1>1, <1>11, <1>12 DEF C

(***************************************************************************)
(* The event list, the clock and the EventIds.                             *)
(***************************************************************************)
\* The schedulers whose contract is proved: ListScheduler, and HeapScheduler in
\* a program that does not call Remove.
ProvedKinds == Kinds \subseteq {"list", "heap"} /\ "heap" \notin RemovingKinds

\* Pending events are later than the one executed last and have their own
\* numbers, none of them new; an id that is kept is pending, or executed last,
\* or cancelled.
ListInv ==
    /\ queue \in Sound /\ queue.kind \in Kinds
    /\ uid \in Nat /\ now \in Key /\ now.uid <= uid
    /\ \A k \in Contents(queue) : Less(now, k) /\ 1 <= k.uid /\ k.uid <= uid
    /\ \A j, k \in Contents(queue) : j.uid = k.uid => j = k
    /\ unscheduled = Cardinality(Contents(queue))

IdInv ==
    /\ ids \subseteq Key /\ cancelled \subseteq ids
    /\ \A id \in ids : /\ id.uid <= uid /\ ~ Less(id, now)
                       /\ id \in Contents(queue) \/ id = now \/ id \in cancelled

BoundInv == withContext \in Seq(Delays) /\ stop \in BOOLEAN /\ uid + Len(withContext) <= MaxEvents

SimulatorInv == CrossThreadInv /\ ListInv /\ IdInv /\ BoundInv

LEMMA FiniteContents ==
    ASSUME ListInv
    PROVE  /\ Contents(queue) \subseteq Key /\ IsFiniteSet(Contents(queue))
           /\ IsEmpty(queue) <=> Contents(queue) = {}
BY SoundContents DEF ListInv

\* IsExpired tells whether an id is no longer pending, or cancelled.
LEMMA ExpiredIsExact ==
    ASSUME ListInv, IdInv
    PROVE  IsExpiredIsExact
<1> SUFFICES ASSUME NEW id \in ids
             PROVE  IsExpired(id) <=> id \notin Contents(queue) \/ id \in cancelled
  BY DEF IsExpiredIsExact
<1>1. id \in Key /\ now \in Key /\ ~ Less(id, now)
  BY DEF IdInv, ListInv
<1>2. IsExpired(id) <=> id = now \/ id \in cancelled
  BY <1>1 DEF IsExpired, Less, Key
<1>3. now \notin Contents(queue)
  BY <1>1, LessIsOrder DEF ListInv
<1> QED BY <1>2, <1>3 DEF IdInv

LEMMA ScheduleKeeps ==
    ASSUME SimulatorInv, NEW d \in Delays, Schedule(d)
    PROVE  /\ ListInv' /\ IdInv' /\ BoundInv'
           /\ Order!Schedule
<1> DEFINE key == [ts |-> now.ts + d, uid |-> uid + 1]
           C == Contents(queue)
<1>1. /\ uid + Len(withContext) < MaxEvents
      /\ queue' = Insert(queue, key) /\ uid' = uid + 1 /\ unscheduled' = unscheduled + 1
      /\ ids' = ids \cup {key}
      /\ UNCHANGED <<now, withContext, stop, cancelled>>
  BY DEF Schedule
<1>2. d \in Nat /\ MaxEvents \in Nat
  BY SimulatorAssumption
<1>3. key \in Key /\ key.ts = now.ts + d /\ key.uid = uid + 1
  BY <1>2 DEF SimulatorInv, ListInv, Key
<1> HIDE DEF key
<1>4. C \subseteq Key /\ IsFiniteSet(C)
  BY FiniteContents DEF SimulatorInv
<1>5. key \notin C
  BY <1>3, <1>4 DEF SimulatorInv, ListInv, Key
<1>6. queue' \in Sound /\ queue'.kind = queue.kind /\ Contents(queue') = C \cup {key}
  BY <1>1, <1>3, <1>5, InsertAdds DEF SimulatorInv, ListInv
<1>7. Less(now, key)
  BY <1>2, <1>3 DEF SimulatorInv, ListInv, Key, Less
<1>8. Cardinality(C \cup {key}) = Cardinality(C) + 1
  BY <1>4, <1>5, FS_AddElement
<1> HIDE DEF C
<1>9. ListInv'
  <2>1. \A k \in C \cup {key} : Less(now, k) /\ 1 <= k.uid /\ k.uid <= uid + 1
    BY <1>3, <1>4, <1>7 DEF SimulatorInv, ListInv, C, Key
  <2>2. \A j, k \in C \cup {key} : j.uid = k.uid => j = k
    BY <1>3, <1>4 DEF SimulatorInv, ListInv, C, Key
  <2>3. Contents(queue)' = C \cup {key}
    BY <1>6
  <2>4. unscheduled' = Cardinality(C \cup {key})
    BY <1>1, <1>8 DEF SimulatorInv, ListInv, C
  <2>5. uid' \in Nat /\ now' \in Key /\ now'.uid <= uid'
    BY <1>1 DEF SimulatorInv, ListInv, Key
  <2> QED BY <1>1, <1>6, <2>1, <2>2, <2>3, <2>4, <2>5 DEF SimulatorInv, ListInv
<1>10. IdInv'
  <2>1. now.uid \in Nat /\ uid \in Nat /\ \A id \in ids : id.uid \in Nat
    BY DEF SimulatorInv, ListInv, IdInv, Key
  <2>2. \A id \in ids \cup {key} : id.uid <= uid + 1 /\ ~ Less(id, now)
    BY <1>3, <1>7, <2>1, LessIsOrder DEF SimulatorInv, ListInv, IdInv
  <2>3. \A id \in ids \cup {key} : id \in C \cup {key} \/ id = now \/ id \in cancelled
    BY DEF SimulatorInv, IdInv, C
  <2> QED BY <1>1, <1>3, <1>6, <2>2, <2>3 DEF SimulatorInv, IdInv
<1>11. BoundInv'
  <2>1. Len(withContext) \in Nat /\ uid \in Nat
    BY DEF SimulatorInv, BoundInv, ListInv
  <2> QED BY <1>1, <1>2, <2>1 DEF SimulatorInv, BoundInv
<1>12. Order!Schedule
  BY <1>1, <1>6, <1>7 DEF Order!Schedule, Order!Less, Less, C
<1> QED BY <1>9, <1>10, <1>11, <1>12

LEMMA DelayedKeeps ==
    ASSUME SimulatorInv, ProcessEventsWithContext
    PROVE  /\ ListInv' /\ IdInv' /\ BoundInv'
           /\ Order!Schedule
<1> DEFINE n == Len(withContext)
           C == Contents(queue)
           D == {Late(withContext, j) : j \in 1 .. n}
<1>1. /\ withContext' = << >>
      /\ queue' = InsertDelayed(queue, withContext)
      /\ uid' = uid + n /\ unscheduled' = unscheduled + n
      /\ UNCHANGED <<now, stop, ids, cancelled>>
  BY DEF ProcessEventsWithContext
<1>2. withContext \in Seq(Nat) /\ n \in Nat /\ uid + n <= MaxEvents /\ MaxEvents \in Nat
  <2>1. withContext \in Seq(Delays) /\ Delays \subseteq Nat
    BY SimulatorAssumption DEF SimulatorInv, BoundInv
  <2>2. n \in Nat /\ withContext \in [1 .. n -> Delays]
    BY <2>1
  <2>4. withContext \in [1 .. n -> Nat]
    BY <2>1, <2>2
  <2>5. withContext \in Seq(Nat)
    BY <2>2, <2>4
  <2>3. uid + n <= MaxEvents /\ MaxEvents \in Nat
    BY SimulatorAssumption DEF SimulatorInv, BoundInv
  <2> QED BY <2>2, <2>3, <2>5
<1>3. C \subseteq Key /\ IsFiniteSet(C)
  BY FiniteContents DEF SimulatorInv
<1>4. now.ts \in Nat /\ now.uid \in Nat /\ uid \in Nat /\ now.uid <= uid
  BY DEF SimulatorInv, ListInv, Key
<1>5. queue' \in Sound /\ queue'.kind = queue.kind /\ Contents(queue') = C \cup D
  BY <1>1, <1>2, <1>4, InsertDelayedAdds DEF SimulatorInv, ListInv
<1>6. \A j \in 1 .. n : /\ Late(withContext, j) \in Key
                        /\ Late(withContext, j).uid = uid + j
                        /\ Less(now, Late(withContext, j))
  BY <1>2, <1>4 DEF Late, Key, Less
<1>7. \A i, j \in 1 .. n : Late(withContext, i).uid = Late(withContext, j).uid => i = j
  BY <1>2, <1>4, <1>6
<1>8. C \cap D = {}
  <2>1. \A k \in C : k.uid \in Nat /\ k.uid <= uid
    BY <1>3 DEF SimulatorInv, ListInv, Key
  <2>2. \A j \in 1 .. n : Late(withContext, j) \notin C
    BY <2>1, <1>2, <1>4, <1>6
  <2> QED BY <2>2
<1>9. IsFiniteSet(D) /\ Cardinality(D) = n
  <2> DEFINE f == [j \in 1 .. n |-> Late(withContext, j)]
  <2>1. f \in Bijection(1 .. n, D)
    <3>1. f \in [1 .. n -> D] /\ \A j \in 1 .. n : f[j] = Late(withContext, j)
      OBVIOUS
    <3> HIDE DEF f
    <3>2. \A i, j \in 1 .. n : f[i] = f[j] => i = j
      BY <3>1, <1>7
    <3>3. \A t \in D : \E j \in 1 .. n : f[j] = t
      BY <3>1
    <3>4. DOMAIN f = 1 .. n
      BY <3>1
    <3> QED BY <3>1, <3>2, <3>3, <3>4 DEF Bijection, Injection, Surjection, IsInjective
  <2> HIDE DEF f, D
  <2>2. ExistsBijection(1 .. n, D)
    BY <2>1, Zenon DEF ExistsBijection
  <2>3. IsFiniteSet(1 .. n) /\ Cardinality(1 .. n) = n
    <3>1. 1 \in Int /\ n \in Int
      BY <1>2
    <3>2. IsFiniteSet(1 .. n) /\ Cardinality(1 .. n) = IF 1 > n THEN 0 ELSE n - 1 + 1
      BY <3>1, FS_Interval
    <3> HIDE DEF n
    <3> QED BY <3>2, <1>2
  <2> QED BY <2>2, <2>3, FS_Bijection
<1>10. Cardinality(C \cup D) = Cardinality(C) + n /\ Cardinality(C) \in Nat
  <2> HIDE DEF C, D
  <2>1. Cardinality(C \cup D) = Cardinality(C) + Cardinality(D) - Cardinality({})
    BY <1>3, <1>8, <1>9, FS_Union
  <2> QED BY <2>1, <1>2, <1>3, <1>9, FS_EmptySet, FS_CardinalityType
<1>11. \A k \in D : \E j \in 1 .. n : k = Late(withContext, j)
  OBVIOUS
<1> HIDE DEF C, D
<1>12. \A k \in C \cup D : Less(now, k) /\ 1 <= k.uid /\ k.uid <= uid + n
  <2>1. \A k \in C : Less(now, k) /\ 1 <= k.uid /\ k.uid <= uid + n
    BY <1>2, <1>3, <1>4 DEF SimulatorInv, ListInv, C, Key
  <2>2. \A k \in D : Less(now, k) /\ 1 <= k.uid /\ k.uid <= uid + n
    BY <1>2, <1>4, <1>6, <1>11
  <2> QED BY <2>1, <2>2
<1>13. \A j, k \in C \cup D : j.uid = k.uid => j = k
  <2>1. \A k \in C : k.uid \in Nat /\ k.uid <= uid
    BY <1>3 DEF SimulatorInv, ListInv, C, Key
  <2>2. \A k \in D : k.uid \in Nat /\ k.uid > uid
    BY <1>2, <1>4, <1>6, <1>11
  <2>3. \A j, k \in D : j.uid = k.uid => j = k
    BY <1>7, <1>11
  <2>4. \A j, k \in C : j.uid = k.uid => j = k
    BY DEF SimulatorInv, ListInv, C
  <2> QED BY <2>1, <2>2, <2>3, <2>4, <1>4
<1>14. ListInv'
  <2>1. Contents(queue)' = C \cup D
    BY <1>5
  <2>2. unscheduled' = Cardinality(C \cup D)
    BY <1>1, <1>10 DEF SimulatorInv, ListInv, C
  <2>3. uid' \in Nat /\ now' \in Key /\ now'.uid <= uid'
    BY <1>1, <1>2, <1>4 DEF SimulatorInv, ListInv
  <2> QED BY <1>1, <1>5, <1>12, <1>13, <2>1, <2>2, <2>3 DEF SimulatorInv, ListInv
<1>15. IdInv'
  <2>1. \A id \in ids : id.uid \in Nat
    BY DEF SimulatorInv, IdInv, Key
  <2> QED BY <2>1, <1>1, <1>2, <1>4, <1>5 DEF SimulatorInv, IdInv, C
<1>16. BoundInv'
  <2>1. << >> \in Seq(Delays) /\ Len(<< >>) = 0
    OBVIOUS
  <2> QED BY <2>1, <1>1, <1>2, <1>4 DEF SimulatorInv, BoundInv
<1>17. Order!Schedule
  BY <1>1, <1>5, <1>12 DEF Order!Schedule, Order!Less, Less, C
<1> QED BY <1>14, <1>15, <1>16, <1>17

LEMMA ExecuteKeeps ==
    ASSUME SimulatorInv, ProcessOneEvent
    PROVE  /\ ListInv' /\ IdInv' /\ BoundInv'
           /\ Order!Execute
<1> DEFINE C == Contents(queue)
           ev == RemoveNext(queue).event
           rest == RemoveNext(queue).rest
<1>1. /\ ~ IsEmpty(queue)
      /\ queue' = rest /\ now' = ev /\ unscheduled' = unscheduled - 1
      /\ ids' = {id \in ids : ~ Less(id, now')}
      /\ cancelled' = cancelled \cap ids'
      /\ UNCHANGED <<uid, withContext, stop>>
  BY DEF ProcessOneEvent
<1>2. C \subseteq Key /\ IsFiniteSet(C)
  BY FiniteContents DEF SimulatorInv
<1>3. /\ ev \in C /\ rest \in Sound /\ rest.kind = queue.kind
      /\ Contents(rest) = C \ {ev}
      /\ \A other \in C \ {ev} : Less(ev, other)
  BY <1>1, RemoveNextTakesFirst DEF SimulatorInv, ListInv
<1> HIDE DEF ev, rest
<1>4. Less(now, ev) /\ ev \in Key /\ ev.uid <= uid
  BY <1>2, <1>3 DEF SimulatorInv, ListInv
<1>5. Cardinality(C \ {ev}) = Cardinality(C) - 1
  BY <1>2, <1>3, FS_RemoveElement
<1>6. Contents(queue)' = C \ {ev} /\ Contents(queue') = C \ {ev}
  BY <1>1, <1>3
<1>7. ListInv'
  <2>1. unscheduled' = Cardinality(C \ {ev})
    BY <1>1, <1>5 DEF SimulatorInv, ListInv
  <2> QED BY <1>1, <1>3, <1>4, <1>6, <2>1 DEF SimulatorInv, ListInv
<1>8. IdInv'
  <2>1. ASSUME NEW id \in ids, ~ Less(id, ev)
        PROVE  id \in C \ {ev} \/ id = ev \/ id \in cancelled
    BY <2>1, <1>4 DEF SimulatorInv, IdInv
  <2> QED BY <2>1, <1>1, <1>6 DEF SimulatorInv, IdInv
<1>9. BoundInv'
  BY <1>1 DEF SimulatorInv, BoundInv
<1>10. Order!Execute
  BY <1>1, <1>3, <1>4, <1>6 DEF Order!Execute, Order!Less, Less
<1> QED BY <1>7, <1>8, <1>9, <1>10

LEMMA RemoveKeeps ==
    ASSUME ProvedKinds, SimulatorInv, NEW id \in ids, RemoveEvent(id)
    PROVE  /\ ListInv' /\ IdInv' /\ BoundInv'
           /\ Order!Remove
<1> DEFINE C == Contents(queue)
           rest == RemoveFrom(queue, id)
<1>1. /\ queue.kind \in RemovingKinds /\ ~ IsExpired(id)
      /\ queue' = rest /\ cancelled' = cancelled \cup {id} /\ unscheduled' = unscheduled - 1
      /\ UNCHANGED <<uid, now, withContext, stop, ids>>
  BY DEF RemoveEvent
<1>2. C \subseteq Key /\ IsFiniteSet(C)
  BY FiniteContents DEF SimulatorInv
<1>3. id \in C
  BY <1>1, ExpiredIsExact DEF SimulatorInv, IsExpiredIsExact
<1>4. queue.kind = "list"
  BY <1>1 DEF ProvedKinds, SimulatorInv, ListInv
<1>5. rest \in Sound /\ rest.kind = queue.kind /\ Contents(rest) = C \ {id}
  BY <1>3, <1>4, RemoveTakesAway DEF SimulatorInv, ListInv
<1> HIDE DEF rest
<1>6. Cardinality(C \ {id}) = Cardinality(C) - 1
  BY <1>2, <1>3, FS_RemoveElement
<1>7. Contents(queue)' = C \ {id} /\ Contents(queue') = C \ {id}
  BY <1>1, <1>5
<1>8. ListInv'
  <2>1. unscheduled' = Cardinality(C \ {id})
    BY <1>1, <1>6 DEF SimulatorInv, ListInv
  <2> QED BY <1>1, <1>5, <1>7, <2>1 DEF SimulatorInv, ListInv
<1>9. IdInv'
  BY <1>1, <1>7 DEF SimulatorInv, IdInv
<1>10. BoundInv'
  BY <1>1 DEF SimulatorInv, BoundInv
<1>11. Order!Remove
  BY <1>1, <1>3, <1>7 DEF Order!Remove
<1> QED BY <1>8, <1>9, <1>10, <1>11

LEMMA SwapKeeps ==
    ASSUME ProvedKinds, SimulatorInv, NEW k \in Kinds, SetScheduler(k)
    PROVE  /\ ListInv' /\ IdInv' /\ BoundInv'
           /\ UNCHANGED Order!vars
<1>1. /\ queue' = Moved(queue, k)
      /\ UNCHANGED <<uid, now, unscheduled, withContext, stop, ids, cancelled>>
  BY DEF SetScheduler
<1>2. k \in {"list", "heap"}
  BY DEF ProvedKinds
<1>3. queue' \in Sound /\ queue'.kind = k /\ Contents(queue') = Contents(queue)
  BY <1>1, <1>2, MovedKeeps DEF SimulatorInv, ListInv
<1>4. Contents(queue)' = Contents(queue)
  BY <1>3
<1>5. ListInv'
  BY <1>1, <1>3, <1>4 DEF SimulatorInv, ListInv
<1>6. IdInv' /\ BoundInv'
  BY <1>1, <1>4 DEF SimulatorInv, IdInv, BoundInv
<1> QED BY <1>1, <1>4, <1>5, <1>6 DEF Order!vars

\* Every other step leaves the event list, the clock and the ids alone, but for
\* the ids that Cancel marks.
LEMMA OthersKeep ==
    ASSUME SimulatorInv,
           \/ \E d \in Delays : ScheduleWithContext(d)
           \/ \E id \in ids : Cancel(id)
           \/ Stop \/ Run \/ ReadFlag \/ HandlerReturns \/ RunReturns \/ UNCHANGED vars
    PROVE  /\ ListInv' /\ IdInv' /\ BoundInv'
           /\ UNCHANGED Order!vars
<1>1. CASE \E d \in Delays : ScheduleWithContext(d)
  <2>1. PICK d \in Delays : /\ uid + Len(withContext) < MaxEvents
                            /\ withContext' = Append(withContext, d)
                            /\ UNCHANGED <<queue, uid, now, unscheduled, stop, ids, cancelled>>
    BY <1>1 DEF ScheduleWithContext
  <2>2. ListInv' /\ IdInv' /\ UNCHANGED Order!vars
    BY <2>1 DEF SimulatorInv, ListInv, IdInv, Order!vars
  <2>3. withContext' \in Seq(Delays) /\ Len(withContext') = Len(withContext) + 1 /\ Len(withContext) \in Nat
    BY <2>1 DEF SimulatorInv, BoundInv
  <2>4. uid \in Nat /\ MaxEvents \in Nat
    BY SimulatorAssumption DEF SimulatorInv, ListInv
  <2>5. BoundInv'
    BY <2>1, <2>3, <2>4 DEF SimulatorInv, BoundInv
  <2> QED BY <2>2, <2>5
<1>2. CASE \E id \in ids : Cancel(id)
  <2>1. PICK id \in ids : /\ cancelled' = cancelled \cup {id}
                          /\ UNCHANGED <<queue, uid, now, unscheduled, withContext, stop, ids>>
    BY <1>2 DEF Cancel
  <2> QED BY <2>1 DEF SimulatorInv, ListInv, IdInv, BoundInv, Order!vars
<1>3. CASE Stop \/ Run \/ ReadFlag \/ HandlerReturns \/ RunReturns \/ UNCHANGED vars
  <2>1. /\ UNCHANGED <<queue, uid, now, unscheduled, withContext, ids, cancelled>>
        /\ stop' \in BOOLEAN
    BY <1>3 DEF Stop, Run, ReadFlag, HandlerReturns, RunReturns, vars, SimulatorInv, BoundInv
  <2> QED BY <2>1 DEF SimulatorInv, ListInv, IdInv, BoundInv, Order!vars
<1> QED BY <1>1, <1>2, <1>3

LEMMA SimulatorStep ==
    ASSUME ProvedKinds, SimulatorInv, [Next]_vars
    PROVE  SimulatorInv' /\ [Order!Next]_(Order!vars)
<1>1. CrossThreadInv'
  BY CrossThreadInductive DEF SimulatorInv
<1>2. ListInv' /\ IdInv' /\ BoundInv' /\ [Order!Next]_(Order!vars)
  <2>1. ASSUME NEW d \in Delays, Schedule(d)
        PROVE  ListInv' /\ IdInv' /\ BoundInv' /\ Order!Next
    BY <2>1, ScheduleKeeps DEF Order!Next
  <2>2. CASE ProcessEventsWithContext
    BY <2>2, DelayedKeeps DEF Order!Next
  <2>3. CASE ProcessOneEvent
    BY <2>3, ExecuteKeeps DEF Order!Next
  <2>4. ASSUME NEW id \in ids, RemoveEvent(id)
        PROVE  ListInv' /\ IdInv' /\ BoundInv' /\ Order!Next
    BY <2>4, RemoveKeeps DEF Order!Next
  <2>5. ASSUME NEW k \in Kinds, SetScheduler(k)
        PROVE  ListInv' /\ IdInv' /\ BoundInv' /\ UNCHANGED Order!vars
    BY <2>5, SwapKeeps
  <2>6. CASE \/ \E d \in Delays : ScheduleWithContext(d)
             \/ \E id \in ids : Cancel(id)
             \/ Stop \/ Run \/ ReadFlag \/ HandlerReturns \/ RunReturns \/ UNCHANGED vars
    BY <2>6, OthersKeep
  <2> QED BY <2>1, <2>2, <2>3, <2>4, <2>5, <2>6 DEF Next
<1> QED BY <1>1, <1>2 DEF SimulatorInv

LEMMA SimulatorStarts ==
    ASSUME ProvedKinds, Init
    PROVE  SimulatorInv /\ Order!Init
<1>1. PICK k \in Kinds : queue = NewScheduler(k)
  BY DEF Init
<1>2. queue \in Sound /\ queue.kind = k /\ Contents(queue) = {}
  BY <1>1, NewIsEmpty DEF ProvedKinds
<1>3. now \in Key /\ now.uid = 0 /\ uid = 0
  BY DEF Init, Key
<1>4. CrossThreadInv
  BY DEF Init, CrossThreadInv
<1>5. ListInv
  BY <1>2, <1>3, FS_EmptySet DEF Init, ListInv
<1>6. IdInv
  BY DEF Init, IdInv
<1>7. BoundInv
  <2>1. << >> \in Seq(Delays) /\ Len(<< >>) = 0
    OBVIOUS
  <2>2. withContext = << >> /\ stop = FALSE
    BY DEF Init
  <2>3. MaxEvents \in Nat
    BY SimulatorAssumption
  <2>4. uid + Len(withContext) = 0
    BY <2>1, <2>2, <1>3
  <2>5. uid + Len(withContext) <= MaxEvents
    BY <2>3, <2>4
  <2>6. withContext \in Seq(Delays) /\ stop \in BOOLEAN
    BY <2>1, <2>2
  <2> QED BY <2>5, <2>6 DEF BoundInv
<1>8. Order!Init
  BY <1>2 DEF Init, Order!Init
<1> QED BY <1>4, <1>5, <1>6, <1>7, <1>8 DEF SimulatorInv

\* The inductive invariant.
THEOREM SimulatorIsConsistent == ProvedKinds => (Spec => []SimulatorInv)
<1> SUFFICES ASSUME ProvedKinds PROVE Spec => []SimulatorInv
  OBVIOUS
<1>1. Init => SimulatorInv
  BY SimulatorStarts
<1>2. SimulatorInv /\ [Next]_vars => SimulatorInv'
  BY SimulatorStep
<1> QED BY <1>1, <1>2, PTL DEF Spec

\* Events are executed in the order of their keys and none is executed twice, for
\* any number of events, delays, cancellations, removals, pushes of the other
\* thread and changes of the scheduler: DefaultSimulatorImpl with ListScheduler
\* and HeapScheduler implements EventOrder.
THEOREM ExecutesInOrder == ProvedKinds => (Spec => InOrder)
<1> SUFFICES ASSUME ProvedKinds PROVE Spec => Order!Spec
  BY DEF InOrder
<1>1. Init => SimulatorInv /\ Order!Init
  BY SimulatorStarts
<1>2. SimulatorInv /\ [Next]_vars => SimulatorInv' /\ [Order!Next]_(Order!vars)
  BY SimulatorStep
<1> QED BY <1>1, <1>2, PTL DEF Spec, Order!Spec

\* IsExpired answers exactly for every EventId that is kept.
THEOREM IsExpiredAlwaysExact == ProvedKinds => (Spec => []IsExpiredIsExact)
<1> SUFFICES ASSUME ProvedKinds PROVE Spec => []IsExpiredIsExact
  OBVIOUS
<1>1. Spec => []SimulatorInv
  BY SimulatorIsConsistent
<1>2. SimulatorInv => IsExpiredIsExact
  BY ExpiredIsExact DEF SimulatorInv
<1> QED BY <1>1, <1>2, PTL

\* m_unscheduledEvents is the number of events in the list: no Insert and no change
\* of the scheduler loses one.
THEOREM UnscheduledAlwaysCounts == ProvedKinds => (Spec => []UnscheduledCounts)
<1> SUFFICES ASSUME ProvedKinds PROVE Spec => []UnscheduledCounts
  OBVIOUS
<1>1. Spec => []SimulatorInv
  BY SimulatorIsConsistent
<1>2. SimulatorInv => UnscheduledCounts
  BY DEF SimulatorInv, ListInv, UnscheduledCounts
<1> QED BY <1>1, <1>2, PTL

LEMMA TypedState ==
    ASSUME SimulatorInv
    PROVE  TypeOK
<1> DEFINE C == Contents(queue)
<1>1. C \subseteq Key /\ IsFiniteSet(C)
  BY FiniteContents DEF SimulatorInv
<1>2. uid \in Nat /\ MaxEvents \in Nat /\ Len(withContext) \in Nat /\ uid + Len(withContext) <= MaxEvents
  BY SimulatorAssumption DEF SimulatorInv, ListInv, BoundInv
<1>3. \A k \in C : k.uid \in 1 .. uid /\ k.uid \in 1 .. MaxEvents /\ k.ts \in Nat
  BY <1>1, <1>2 DEF SimulatorInv, ListInv, Key
<1>4. Cardinality(C) <= uid /\ Cardinality(C) \in Nat
  <2> DEFINE f == [k \in C |-> k.uid]
  <2>1. f \in Injection(C, 1 .. uid)
    <3>1. f \in [C -> 1 .. uid] /\ \A k \in C : f[k] = k.uid
      BY <1>3
    <3> HIDE DEF f
    <3>2. \A j, k \in C : f[j] = f[k] => j = k
      BY <3>1 DEF SimulatorInv, ListInv
    <3> QED BY <3>1, <3>2 DEF Injection, IsInjective
  <2>2. IsFiniteSet(1 .. uid) /\ Cardinality(1 .. uid) = uid
    <3>1. IsFiniteSet(1 .. uid) /\ Cardinality(1 .. uid) = IF 1 > uid THEN 0 ELSE uid - 1 + 1
      <4>1. 1 \in Int /\ uid \in Int
        BY <1>2
      <4> QED BY <4>1, FS_Interval
    <3> QED BY <3>1, <1>2
  <2> HIDE DEF f, C
  <2> QED BY <2>1, <2>2, <1>1, FS_Injection, FS_CardinalityType
<1>5. C \subseteq [ts : Nat, uid : 1 .. MaxEvents]
  BY <1>1, <1>3 DEF Key
<1>6. now \in [ts : Nat, uid : 0 .. MaxEvents]
  BY <1>2 DEF SimulatorInv, ListInv, Key
<1>7. uid \in 0 .. MaxEvents /\ unscheduled \in 0 .. MaxEvents
  BY <1>2, <1>4 DEF SimulatorInv, ListInv
<1> QED BY <1>5, <1>6, <1>7 DEF TypeOK, SimulatorInv, CrossThreadInv, IdInv, BoundInv

\* Type correctness: the list never holds more events than have been numbered.
THEOREM TypeCorrect == ProvedKinds => (Spec => []TypeOK)
<1> SUFFICES ASSUME ProvedKinds PROVE Spec => []TypeOK
  OBVIOUS
<1>1. Spec => []SimulatorInv
  BY SimulatorIsConsistent
<1>2. SimulatorInv => TypeOK
  BY TypedState
<1> QED BY <1>1, <1>2, PTL

=============================================================================
