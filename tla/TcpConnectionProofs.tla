------------------------ MODULE TcpConnectionProofs ------------------------
(***************************************************************************)
(* The life of a connection, for every number of retries, every capacity   *)
(* of the network and every amount of data the model allows.               *)
(***************************************************************************)
EXTENDS TcpConnection, InductionFacts, SequenceTheorems

(***************************************************************************)
(* One socket.                                                             *)
(***************************************************************************)
Kind == {"SYN", "SYNACK", "ACK", "FIN", "RST"}

Message == [kind : Kind, seq : Nat, len : 0 .. 1, ack : Nat, sack : SUBSET {2}]

SocketType ==
    [state : State, ep : BOOLEAN, una : Nat, size : Nat, nxt : Nat, high : Nat,
     lost : SUBSET (1 .. 2), sacked : SUBSET {2}, cwnd : {1, 2}, closeOnEmpty : BOOLEAN,
     shutdownSend : BOOLEAN, rcvNxt : Nat, held : SUBSET {2}, unread : Nat,
     gotFin : BOOLEAN, finSeq : Nat, got : Nat, synCount : 0 .. SynRetries,
     retr : 0 .. DataRetries, retx : {"none", "SYN", "SYNACK", "FIN", "RTO"},
     lastAck : BOOLEAN, timewait : BOOLEAN, sendPending : BOOLEAN, out : Seq(Message)]

AppType == [opened : BOOLEAN, wrote : 0 .. 2, closed : BOOLEAN, shut : BOOLEAN]

Handshake == {"SYN_SENT", "SYN_RCVD"}

\* The application has called Close or ShutdownSend.
Ended(a) == a.closed \/ a.shut

\* A socket without end point: nothing is pending.
Gone(s) ==
    /\ s.size = 0 /\ s.nxt = 0 /\ s.high = 0 /\ s.lost = {} /\ s.sacked = {} /\ s.held = {}
    /\ s.unread = 0 /\ s.retx = "none" /\ ~ s.lastAck /\ ~ s.timewait /\ ~ s.sendPending

\* In the handshake nothing is sent but the SYN.
Shaking(n, a, s) ==
    /\ s.una = 0 /\ s.nxt = 0 /\ s.high = 0 /\ s.size = a.wrote /\ s.lost = {} /\ s.sacked = {}
    /\ s.got = 0 /\ s.held = {} /\ s.unread = 0 /\ ~ s.gotFin /\ ~ s.sendPending
    /\ IF n = "c" THEN s.state = "SYN_SENT" /\ s.rcvNxt = 0 /\ s.retx = "SYN"
       ELSE s.state = "SYN_RCVD" /\ s.rcvNxt = 1 /\ s.retx = "SYNACK" /\ a.wrote = 0 /\ ~ Ended(a)

\* Where the stream stands: the FIN, which has the number after the last segment,
\* is not acknowledged, or it is.
Line(a, s) ==
    \/ /\ s.una + s.size = a.wrote + 1 /\ 1 <= s.una
       /\ s.una <= s.nxt /\ s.nxt <= s.high /\ s.high <= a.wrote + 1
    \/ /\ s.una = a.wrote + 2 /\ s.size = 0 /\ s.nxt = a.wrote + 2 /\ s.high = a.wrote + 1
       /\ s.state \notin {"ESTABLISHED", "LAST_ACK"}

Marks(s) ==
    /\ s.lost \subseteq s.una .. (s.high - 1) /\ s.sacked \subseteq s.una .. (s.high - 1)
    /\ s.lost \cap s.sacked = {}

\* What is so once a FIN was sent: the stream is complete.
FinOut(a, s) ==
    /\ Ended(a) /\ s.high = a.wrote + 1 /\ s.state # "ESTABLISHED"
    /\ s.state = "CLOSE_WAIT" => a.closed

Sender(a, s) ==
    /\ Line(a, s) /\ Marks(s)
    /\ s.state \notin {"ESTABLISHED", "CLOSE_WAIT"} \/ s.una = a.wrote + 2 => FinOut(a, s)
    /\ s.state \in {"FIN_WAIT_1", "FIN_WAIT_2"} => a.closed \/ s.shutdownSend
    /\ s.state = "LAST_ACK" => a.wrote <= s.nxt
    /\ s.state = "FIN_WAIT_2" => s.una = a.wrote + 2

\* A close that waits was asked for.
Asked(a, s) ==
    /\ s.closeOnEmpty => a.closed \/ s.shutdownSend
    /\ s.shutdownSend => a.shut

\* FIN_WAIT_2 is entered when the FIN is acknowledged.
Half(a, s) == s.state = "FIN_WAIT_2" => s.una = a.wrote + 2

Timer(a, s) ==
    /\ s.retx \in {"none", "FIN", "RTO"}
    /\ s.retx = "FIN" => s.size = 0 /\ s.nxt = s.una /\ FinOut(a, s)
    /\ s.una < s.high /\ s.state # "TIME_WAIT" => s.retx # "none"
    /\ s.state \in {"FIN_WAIT_1", "CLOSING"} => s.retx # "none"
    /\ s.state = "LAST_ACK" => s.retx # "none" \/ s.lastAck
    /\ s.retx = "RTO" /\ s.size = 0 => FinOut(a, s) /\ (s.state = "LAST_ACK" => s.lastAck)

Receiver(s) ==
    /\ 1 <= s.rcvNxt /\ s.unread <= s.got /\ s.got < s.rcvNxt
    /\ s.held # {} => s.rcvNxt = 1

Counted(s) == s.rcvNxt - 1 <= s.got \/ Finished(s)

Phase(s) ==
    /\ s.state = "CLOSE_WAIT" => Finished(s)
    /\ s.state \in {"ESTABLISHED", "FIN_WAIT_1", "FIN_WAIT_2"} => ~ Finished(s)

Synced(a, s) ==
    /\ s.state \notin Handshake \cup {"CLOSED"}
    /\ Sender(a, s) /\ Asked(a, s) /\ Timer(a, s) /\ Receiver(s)

Local(n, a, s) ==
    /\ s \in SocketType /\ a \in AppType
    /\ s.out = << >> /\ Counted(s)
    /\ Ended(a) \/ 0 < a.wrote \/ s.ep => a.opened
    /\ ~ a.opened => s.rcvNxt = 0
    /\ IF ~ s.ep THEN Gone(s) /\ Half(a, s)
       ELSE IF s.state \in Handshake THEN Shaking(n, a, s) /\ Asked(a, s)
       ELSE Synced(a, s) /\ Phase(s)

(***************************************************************************)
(* One direction of the stream.                                            *)
(***************************************************************************)
\* The first number that the socket has not sent, a FIN apart.
SentUpTo(s) == IF s.state \in Handshake THEN 1 ELSE s.high

\* The FIN of a socket that closes in LAST_ACK may come too early.
Clean(s) == s.state \notin {"LAST_ACK", "CLOSED"}

\* The socket looks at no FIN any more.
Past(r) == ~ r.ep \/ r.state \in {"LAST_ACK", "CLOSING", "TIME_WAIT"}

\* Segment 2 was received before segment 1.
Early(r) == 3 <= r.rcvNxt \/ (r.rcvNxt = 1 /\ (2 \in r.held \/ ~ r.ep))

\* Message m of socket s, whose peer is past FINs or not.
Carried(n, a, s, past, m) ==
    /\ m \in Message
    /\ m.kind = "SYN" => n = "c" /\ m.seq = 0
    /\ m.kind = "SYNACK" => n = "s" /\ m.seq = 0
    /\ m.kind \in {"ACK", "FIN"} => 1 <= m.ack
    /\ m.len = 1 => /\ m.kind \in {"ACK", "FIN"} /\ 1 <= m.seq /\ m.seq <= a.wrote
                    /\ s.ep => m.seq < s.high
    /\ m.kind = "FIN" =>
          /\ Ended(a) /\ (s.ep => FinOut(a, s))
          /\ 1 <= m.seq /\ a.wrote <= m.seq
          /\ m.seq + m.len <= a.wrote + 1 \/ (m.seq = a.wrote + 2 /\ m.len = 0 /\ past)
          /\ Clean(s) => a.wrote + 1 <= m.seq + m.len

\* What the socket r has received of the stream that a wrote and s sends.
Arrived(a, s, r) ==
    /\ IF r.gotFin
       THEN Ended(a) /\ (s.ep => FinOut(a, s)) /\ a.wrote <= r.finSeq /\ r.finSeq <= a.wrote + 1
       ELSE r.finSeq = 0
    /\ r.rcvNxt <= a.wrote + 2
    /\ r.rcvNxt = a.wrote + 2 => Finished(r)
    /\ s.ep => r.rcvNxt <= SentUpTo(s) \/ r.rcvNxt = a.wrote + 2
    /\ r.held \subseteq 1 .. a.wrote /\ (s.ep => \A x \in r.held : x < s.high)
    /\ r.got <= a.wrote
    /\ Clean(s) /\ 1 <= r.rcvNxt =>
          r.got = IF r.rcvNxt <= a.wrote + 1 THEN r.rcvNxt - 1 ELSE a.wrote
    /\ Clean(s) /\ r.gotFin =>
          r.finSeq = a.wrote + 1 \/ a.wrote \in r.held \/ a.wrote < r.rcvNxt \/ ~ r.ep

\* What the ACKs of r, on their way in A, and the marks of s say.
Reports(a, s, r, A) ==
    /\ s.una <= r.rcvNxt
    /\ \A m \in A : m.ack <= r.rcvNxt
    /\ \A m \in A : m.kind = "FIN" /\ m.ack = a.wrote + 2 =>
                       Past(r) \/ (m.len = 0 /\ m.seq <= r.una)
    /\ s.ep /\ s.una = a.wrote + 2 /\ (s.retx = "FIN" \/ s.state \in {"FIN_WAIT_1", "CLOSING"}) => Past(r)
    /\ 2 \in s.sacked \/ (\E m \in A : 2 \in m.sack) => Early(r)
    /\ s.una = 2 \/ r.rcvNxt = 2 \/ (\E m \in A : m.ack = 2) =>
          2 \notin s.sacked /\ \A m \in A : 2 \notin m.sack

Direction(n, a, s, r, M, A) ==
    /\ \A m \in M : Carried(n, a, s, Past(r), m)
    /\ ~ a.opened => M = {} /\ r.rcvNxt = 0
    /\ Arrived(a, s, r)
    /\ Reports(a, s, r, A)

ConnInv ==
    /\ DOMAIN sock = Node /\ DOMAIN app = Node /\ DOMAIN net = Node
    /\ app["s"].opened => app["c"].opened
    /\ \A n \in Node : Local(n, app[n], sock[n])
    /\ \A n \in Node : Direction(n, app[n], sock[n], sock[Peer(n)], net[Peer(n)], net[n])

(***************************************************************************)
(* A handler.  It runs on the socket s of n, whose application has done a, *)
(* and finds the peer at q, its application at b, and the messages A and B *)
(* on their way to n and to the peer; finAck says that it takes an ACK of  *)
(* its own FIN.  Good describes the socket t at every point of it.         *)
(***************************************************************************)
Env(e) ==
    /\ e.n \in Node /\ e.a \in AppType /\ e.b \in AppType
    /\ e.s \in SocketType /\ e.s.ep /\ e.q \in SocketType
    /\ Local(e.n, e.a, e.s) /\ Local(Peer(e.n), e.b, e.q)
    /\ Direction(e.n, e.a, e.s, e.q, e.B, e.A)
    /\ Direction(Peer(e.n), e.b, e.q, e.s, e.A, e.B)

Outs(t) == {t.out[i] : i \in 1 .. Len(t.out)}

\* What is never taken back.
Grown(a, s, t) ==
    /\ t.ep => /\ s.ep /\ s.high <= t.high /\ SentUpTo(s) <= SentUpTo(t)
               /\ FinOut(a, s) => FinOut(a, t)
    /\ Clean(t) => Clean(s)
    /\ Past(s) => Past(t)
    /\ s.una <= t.una /\ s.rcvNxt <= t.rcvNxt
    /\ Early(s) => Early(t)

Open == {"ESTABLISHED", "FIN_WAIT_1", "FIN_WAIT_2"}

\* From s the receiver does not get past 2 by filling a hole.
NoJump(s) == s.rcvNxt = 2 \/ (s.rcvNxt <= 1 /\ 2 \notin s.held)

\* A message m that the handler has sent tells what t has received.
Reported(e, t, m) ==
    /\ m.ack <= t.rcvNxt
    /\ m.kind = "RST" \/ e.s.rcvNxt <= m.ack
    /\ 2 \in m.sack => t.rcvNxt = 1 /\ (2 \in t.held \/ ~ t.ep)
    /\ m.ack = 2 => NoJump(e.s)
    /\ m.kind = "FIN" /\ m.ack = e.b.wrote + 2 =>
          Past(t) \/ (m.len = 0 /\ m.seq <= t.una) \/ (t.state \in Open /\ Finished(t))

\* What t takes for acknowledged was acknowledged.
Acked(e, t) ==
    /\ t.una <= e.q.rcvNxt
    /\ t.una \in {0, 1, e.s.una} \cup {m.ack : m \in e.A}
    /\ \A x \in t.sacked : x \in e.s.sacked \/ \E m \in e.A : x \in m.sack
    /\ t.ep /\ t.una = e.a.wrote + 2 =>
          /\ t.retx = "FIN" \/ t.state = "CLOSING" => Past(e.q)
          /\ t.state = "FIN_WAIT_1" => Past(e.q) \/ e.finAck

Base(e, t) ==
    /\ t \in SocketType /\ Counted(t)
    /\ Grown(e.a, e.s, t)
    /\ \A m \in Outs(t) : Carried(e.n, e.a, t, Past(e.q), m) /\ Reported(e, t, m)
    /\ Arrived(e.b, e.q, t)
    /\ t.rcvNxt = 2 => NoJump(e.s)
    /\ ~ e.b.opened => t.rcvNxt = 0
    /\ Acked(e, t)

\* The socket between two timers: all but that one is running.
TimerSafe(a, s) ==
    /\ s.retx \in {"none", "FIN", "RTO"}
    /\ s.retx = "FIN" => s.size = 0 /\ s.nxt = s.una /\ FinOut(a, s)
    /\ s.retx = "RTO" /\ s.size = 0 => FinOut(a, s) /\ (s.state = "LAST_ACK" => s.lastAck)

TimerOn(s) ==
    /\ s.una < s.high /\ s.state # "TIME_WAIT" => s.retx # "none"
    /\ s.state \in {"FIN_WAIT_1", "CLOSING"} => s.retx # "none"
    /\ s.state = "LAST_ACK" => s.retx # "none" \/ s.lastAck

Core(a, s) ==
    /\ s.state \notin Handshake \cup {"CLOSED"}
    /\ Sender(a, s) /\ Asked(a, s) /\ TimerSafe(a, s) /\ Receiver(s)

Good(e, t) ==
    /\ Base(e, t)
    /\ IF t.ep THEN Core(e.a, t) ELSE Gone(t) /\ Half(e.a, t)

\* What a handler leaves.
Final(e, t) ==
    /\ Base(e, t)
    /\ IF ~ t.ep THEN Gone(t) /\ Half(e.a, t)
       ELSE IF t.state \in Handshake THEN Shaking(e.n, e.a, t) /\ Asked(e.a, t)
       ELSE Synced(e.a, t) /\ Phase(t)
    /\ t.ep /\ t.una = e.a.wrote + 2 /\ t.state = "FIN_WAIT_1" => Past(e.q)

\* An operation that neither takes an ACK nor receives.
Quiet(s, t) ==
    /\ t.una = s.una /\ t.sacked \subseteq s.sacked
    /\ t.rcvNxt = s.rcvNxt /\ t.gotFin = s.gotFin /\ t.finSeq = s.finSeq /\ t.got = s.got
    /\ IF t.ep THEN s.ep /\ t.held = s.held /\ t.unread = s.unread
       ELSE t.held = {} /\ t.unread = 0


(***************************************************************************)
(* Fields.                                                                 *)
(***************************************************************************)
LEMMA SocketFields ==
    ASSUME NEW s \in SocketType
    PROVE  /\ s.state \in State /\ s.ep \in BOOLEAN /\ s.una \in Nat /\ s.size \in Nat
           /\ s.nxt \in Nat /\ s.high \in Nat /\ s.lost \subseteq 1 .. 2 /\ s.sacked \subseteq {2}
           /\ s.cwnd \in {1, 2} /\ s.closeOnEmpty \in BOOLEAN /\ s.shutdownSend \in BOOLEAN
           /\ s.rcvNxt \in Nat /\ s.held \subseteq {2} /\ s.unread \in Nat
           /\ s.gotFin \in BOOLEAN /\ s.finSeq \in Nat /\ s.got \in Nat
           /\ s.synCount \in 0 .. SynRetries /\ s.retr \in 0 .. DataRetries
           /\ s.retx \in {"none", "SYN", "SYNACK", "FIN", "RTO"} /\ s.lastAck \in BOOLEAN
           /\ s.timewait \in BOOLEAN /\ s.sendPending \in BOOLEAN /\ s.out \in Seq(Message)
BY DEF SocketType

LEMMA MessageFields ==
    ASSUME NEW m \in Message
    PROVE  /\ m.kind \in Kind /\ m.seq \in Nat /\ m.len \in 0 .. 1 /\ m.ack \in Nat
           /\ m.sack \subseteq {2}
BY DEF Message

LEMMA OutsAppend ==
    ASSUME NEW s, NEW t, NEW m \in Message, s.out \in Seq(Message), t.out = Append(s.out, m)
    PROVE  t.out \in Seq(Message) /\ Outs(t) = Outs(s) \cup {m}
<1>1. t.out \in Seq(Message) /\ Len(t.out) = Len(s.out) + 1 /\ Len(s.out) \in Nat
  OBVIOUS
<1>2. \A i \in 1 .. Len(s.out) : t.out[i] = s.out[i]
  OBVIOUS
<1>3. t.out[Len(s.out) + 1] = m
  OBVIOUS
<1>4. 1 .. Len(t.out) = (1 .. Len(s.out)) \cup {Len(s.out) + 1}
  BY <1>1
<1> QED BY <1>1, <1>2, <1>3, <1>4 DEF Outs

LEMMA SegmentFields ==
    ASSUME NEW k \in Kind \ {"RST"}, NEW seq \in Nat, NEW len \in 0 .. 1, NEW ack \in Nat,
           NEW sack \in SUBSET {2}
    PROVE  LET m == Segment(k, seq, len, ack, sack)
           IN  m \in Message /\ m.kind = k /\ m.seq = seq /\ m.len = len /\ m.ack = ack /\ m.sack = sack
BY DEF Segment, Message, Kind

LEMMA ResetFields ==
    ASSUME NEW seq, NEW len, NEW ack, NEW sack
    PROVE  LET m == Segment("RST", seq, len, ack, sack)
           IN  m \in Message /\ m.kind = "RST" /\ m.seq = 0 /\ m.len = 0 /\ m.ack = 0 /\ m.sack = {}
BY DEF Segment, Message, Kind

\* What was sent stays explained.
LEMMA CarriedGrows ==
    ASSUME NEW n \in Node, NEW a \in AppType, NEW s \in SocketType, NEW t \in SocketType,
           NEW past, NEW m, Carried(n, a, s, past, m), Grown(a, s, t)
    PROVE  Carried(n, a, t, past, m)
<1>1. m \in Message /\ a.wrote \in Nat
  BY DEF Carried, AppType
<1> QED BY <1>1, MessageFields, SocketFields DEF Carried, Grown

LEMMA GrownTrans ==
    ASSUME NEW a \in AppType, NEW r \in SocketType, NEW s \in SocketType, NEW t \in SocketType,
           Grown(a, r, s), Grown(a, s, t)
    PROVE  Grown(a, r, t)
<1>1. /\ r.una <= t.una /\ r.rcvNxt <= t.rcvNxt
      /\ t.ep => r.high <= t.high
  BY SocketFields DEF Grown
<1>2. SentUpTo(r) \in Nat /\ SentUpTo(s) \in Nat /\ SentUpTo(t) \in Nat
  BY SocketFields DEF SentUpTo
<1>3. t.ep => SentUpTo(r) <= SentUpTo(t)
  BY <1>2 DEF Grown
<1> QED BY <1>1, <1>3 DEF Grown

(***************************************************************************)
(* Steps of a handler that neither take an ACK nor receive.                *)
(***************************************************************************)
LEMMA BaseStep ==
    ASSUME NEW e, Env(e), NEW s, NEW t \in SocketType, Base(e, s), s.ep, t.ep,
           Quiet(s, t), Grown(e.a, s, t),
           \A m \in Outs(t) : \/ m \in Outs(s)
                              \/ Carried(e.n, e.a, t, Past(e.q), m) /\ Reported(e, t, m),
           (\E m \in Outs(s) : m.kind = "FIN") /\ s.state \in Open => t.state \in Open \/ Past(t),
           t.una = e.a.wrote + 2 /\ (t.retx = "FIN" \/ t.state = "CLOSING") => Past(e.q),
           t.una = e.a.wrote + 2 /\ t.state = "FIN_WAIT_1" => s.state = "FIN_WAIT_1"
    PROVE  Base(e, t)
<1>1. s \in SocketType /\ e.a \in AppType /\ e.s \in SocketType /\ e.n \in Node
  BY DEF Base, Env
<1>2. Grown(e.a, e.s, t)
  BY <1>1, GrownTrans DEF Base
<1>3. Finished(t) <=> Finished(s)
  BY DEF Quiet, Finished
<1>4. ASSUME NEW m \in Outs(s)
      PROVE  Carried(e.n, e.a, t, Past(e.q), m) /\ Reported(e, t, m)
  <2>1. Carried(e.n, e.a, s, Past(e.q), m) /\ Reported(e, s, m)
    BY <1>4 DEF Base
  <2>2. Carried(e.n, e.a, t, Past(e.q), m)
    BY <2>1, <1>1, CarriedGrows
  <2>3. m.kind = "FIN" /\ m.ack = e.b.wrote + 2 =>
          Past(t) \/ (m.len = 0 /\ m.seq <= t.una) \/ (t.state \in Open /\ Finished(t))
    BY <2>1, <1>3, <1>4 DEF Reported, Grown, Quiet
  <2> QED BY <2>1, <2>2, <2>3 DEF Reported, Quiet
<1>5. Arrived(e.b, e.q, t)
  BY <1>3 DEF Base, Arrived, Quiet
<1>6. Acked(e, t)
  BY DEF Base, Acked, Quiet
<1>7. Counted(t) /\ (t.rcvNxt = 2 => NoJump(e.s)) /\ (~ e.b.opened => t.rcvNxt = 0)
  BY <1>3 DEF Base, Counted, Quiet
<1> QED BY <1>2, <1>4, <1>5, <1>6, <1>7 DEF Base

LEMMA QuietTrans ==
    ASSUME NEW r, NEW s, NEW t, Quiet(r, s), Quiet(s, t), s.ep \/ ~ t.ep
    PROVE  Quiet(r, t)
BY DEF Quiet

LEMMA NewSocketType ==
    ASSUME SynRetries \in Nat, DataRetries \in Nat
    PROVE  NewSocket \in SocketType
<1>1. << >> \in Seq(Message) /\ "CLOSED" \in State
  BY DEF State
<1>2. SynRetries \in 0 .. SynRetries /\ DataRetries \in 0 .. DataRetries
  OBVIOUS
<1> QED BY <1>1, <1>2 DEF SocketType, NewSocket

\* A socket that gives up its end point, and is left in the state z.
LEMMA Deallocated ==
    ASSUME NEW e, Env(e), NEW s, Base(e, s), NEW z \in State,
           s.state \in {"LAST_ACK", "CLOSED"} => z \in {"LAST_ACK", "CLOSED"},
           z = "FIN_WAIT_2" => s.una = e.a.wrote + 2,
           SynRetries \in Nat, DataRetries \in Nat,
           NEW t, t = DeallocateEndPoint([s EXCEPT !.state = z])
    PROVE  Good(e, t) /\ ~ t.ep /\ Quiet(s, t) /\ Outs(t) = Outs(s)
<1>1. s \in SocketType /\ e.a \in AppType /\ e.s \in SocketType /\ e.n \in Node
  BY DEF Base, Env
<1>2. /\ t.state = z /\ t.out = s.out /\ t.una = s.una /\ t.rcvNxt = s.rcvNxt
      /\ t.gotFin = s.gotFin /\ t.finSeq = s.finSeq /\ t.got = s.got /\ t.ep = FALSE
      /\ t.held = {} /\ t.unread = 0 /\ t.sacked = {} /\ t.lost = {} /\ t.size = 0 /\ t.nxt = 0
      /\ t.high = 0 /\ t.retx = "none" /\ t.lastAck = FALSE /\ t.timewait = FALSE
      /\ t.sendPending = FALSE
  BY <1>1 DEF SocketType, DeallocateEndPoint, NewSocket
<1>3. t \in SocketType
  <2> DEFINE u == [NewSocket EXCEPT !.state = z, !.out = s.out, !.una = s.una]
  <2>1. /\ s.out \in Seq(Message) /\ s.una \in Nat /\ s.rcvNxt \in Nat /\ s.gotFin \in BOOLEAN
        /\ s.finSeq \in Nat /\ s.got \in Nat /\ NewSocket \in SocketType
    BY <1>1, NewSocketType, SocketFields
  <2>2. t = [u EXCEPT !.rcvNxt = s.rcvNxt, !.gotFin = s.gotFin, !.finSeq = s.finSeq, !.got = s.got]
    BY <1>1 DEF SocketType, DeallocateEndPoint, NewSocket
  <2>3. u \in SocketType
    BY <2>1 DEF SocketType
  <2> HIDE DEF u
  <2> DEFINE v == [u EXCEPT !.rcvNxt = s.rcvNxt, !.gotFin = s.gotFin]
  <2>4. v \in SocketType
    BY <2>1, <2>3 DEF SocketType
  <2>5. t = [v EXCEPT !.finSeq = s.finSeq, !.got = s.got]
    BY <2>2, <2>3 DEF SocketType
  <2> HIDE DEF v
  <2> QED BY <2>1, <2>4, <2>5, ZenonT(40) DEF SocketType
<1>4. Gone(t) /\ Quiet(s, t) /\ Outs(t) = Outs(s) /\ (Finished(t) <=> Finished(s))
  BY <1>2 DEF Gone, Quiet, Outs, Finished
<1>5. Grown(e.a, s, t)
  BY <1>1, <1>2, SocketFields DEF Grown, Clean, Past, Early
<1>6. Grown(e.a, e.s, t)
  BY <1>1, <1>3, <1>5, GrownTrans DEF Base
<1>7. ASSUME NEW m \in Outs(t)
      PROVE  Carried(e.n, e.a, t, Past(e.q), m) /\ Reported(e, t, m)
  <2>1. Carried(e.n, e.a, s, Past(e.q), m) /\ Reported(e, s, m)
    BY <1>4, <1>7 DEF Base
  <2>2. Carried(e.n, e.a, t, Past(e.q), m)
    BY <2>1, <1>1, <1>3, <1>5, CarriedGrows
  <2> QED BY <2>1, <2>2, <1>2 DEF Reported, Past
<1>8. Arrived(e.b, e.q, t)
  BY <1>2, <1>4 DEF Base, Arrived
<1>9. Acked(e, t)
  BY <1>2 DEF Base, Acked
<1>10. Counted(t) /\ (t.rcvNxt = 2 => NoJump(e.s)) /\ (~ e.b.opened => t.rcvNxt = 0)
  BY <1>2, <1>4 DEF Base, Counted
<1>11. Base(e, t)
  BY <1>3, <1>6, <1>7, <1>8, <1>9, <1>10 DEF Base
<1> QED BY <1>2, <1>4, <1>11 DEF Good, Half

\* Half where the state tells.
LEMMA HalfOf ==
    ASSUME NEW a, NEW s, s.state # "FIN_WAIT_2" \/ Sender(a, s)
    PROVE  Half(a, s)
BY DEF Half, Sender

LEMMA Closed ==
    ASSUME NEW e, Env(e), NEW s, Base(e, s), Half(e.a, s), SynRetries \in Nat, DataRetries \in Nat,
           NEW t \in {CloseAndNotify(s), DeallocateEndPoint(s)}
    PROVE  Good(e, t) /\ ~ t.ep /\ Quiet(s, t) /\ Outs(t) = Outs(s)
<1>1. s \in SocketType /\ s.state \in State /\ "CLOSED" \in State
  BY SocketFields DEF Base, State
<1>2. s = [s EXCEPT !.state = s.state]
  BY <1>1 DEF SocketType
<1>3. \E z \in {s.state, "CLOSED"} : t = DeallocateEndPoint([s EXCEPT !.state = z])
  BY <1>2 DEF CloseAndNotify
<1> QED BY <1>1, <1>3, Deallocated DEF Half

\* t is s with one more message; state and retx may differ.
Appended(s, t, m) ==
    /\ t \in SocketType /\ m \in Message /\ Outs(t) = Outs(s) \cup {m} /\ t.ep = s.ep
    /\ t.una = s.una /\ t.size = s.size /\ t.nxt = s.nxt /\ t.high = s.high /\ t.lost = s.lost
    /\ t.sacked = s.sacked /\ t.closeOnEmpty = s.closeOnEmpty
    /\ t.shutdownSend = s.shutdownSend /\ t.rcvNxt = s.rcvNxt /\ t.held = s.held
    /\ t.unread = s.unread /\ t.gotFin = s.gotFin /\ t.finSeq = s.finSeq /\ t.got = s.got
    /\ t.lastAck = s.lastAck

LEMMA EmptyAppended ==
    ASSUME NEW s \in SocketType, s.ep, NEW k \in {"ACK", "FIN", "RST"},
           NEW t, t = SendEmptyPacket(s, k)
    PROVE  \E m : /\ Appended(s, t, m) /\ t.state = s.state /\ m.kind = k /\ m.len = 0
                  /\ t.retx = IF s.retx = "none" /\ k = "FIN" THEN "FIN" ELSE s.retx
                  /\ IF k = "RST" THEN m.ack = 0 /\ m.sack = {}
                     ELSE m.ack = s.rcvNxt /\ m.sack = s.held
                  /\ k = "FIN" => m.seq = s.nxt
<1> DEFINE seq == IF k # "FIN" /\ s.state \in {"FIN_WAIT_1", "LAST_ACK", "CLOSING"}
                  THEN s.nxt + 1 ELSE s.nxt
           m == Segment(k, seq, 0, s.rcvNxt, s.held)
           o == Append(s.out, m)
           x == IF s.retx = "none" /\ k = "FIN" THEN "FIN" ELSE s.retx
<1>1. /\ m \in Message /\ m.kind = k /\ m.len = 0
      /\ IF k = "RST" THEN m.ack = 0 /\ m.sack = {} ELSE m.ack = s.rcvNxt /\ m.sack = s.held
      /\ k = "FIN" => m.seq = s.nxt
  <2>1. seq \in Nat /\ 0 \in 0 .. 1 /\ s.rcvNxt \in Nat /\ s.held \in SUBSET {2} /\ s.nxt \in Nat
    BY SocketFields
  <2>2. CASE k = "RST"
    BY <2>2, ResetFields
  <2>3. CASE k # "RST"
    <3>1. k \in Kind \ {"RST"}
      BY <2>3 DEF Kind
    <3> HIDE DEF seq
    <3>2. m \in Message /\ m.kind = k /\ m.len = 0 /\ m.ack = s.rcvNxt /\ m.sack = s.held /\ m.seq = seq
      BY <3>1, <2>1, SegmentFields
    <3> QED BY <3>2, <2>3 DEF seq
  <2> QED BY <2>2, <2>3
<1>2. t = [s EXCEPT !.synCount = s.synCount, !.retx = x, !.out = o]
  BY DEF SendEmptyPacket
<1> HIDE DEF m
<1>3. /\ o \in Seq(Message) /\ x \in {"none", "SYN", "SYNACK", "FIN", "RTO"}
      /\ s.synCount \in 0 .. SynRetries
  BY <1>1, SocketFields
<1> HIDE DEF o, x
<1>4. /\ t \in SocketType /\ t.out = o /\ t.ep = s.ep /\ t.state = s.state /\ t.retx = x
      /\ t.una = s.una /\ t.size = s.size /\ t.nxt = s.nxt /\ t.high = s.high /\ t.lost = s.lost
      /\ t.sacked = s.sacked /\ t.closeOnEmpty = s.closeOnEmpty
      /\ t.shutdownSend = s.shutdownSend /\ t.rcvNxt = s.rcvNxt /\ t.held = s.held
      /\ t.unread = s.unread /\ t.gotFin = s.gotFin /\ t.finSeq = s.finSeq /\ t.got = s.got
      /\ t.lastAck = s.lastAck
  <2> DEFINE u == [s EXCEPT !.synCount = s.synCount, !.retx = x]
  <2>1. u \in SocketType
    BY <1>3 DEF SocketType
  <2>2. t = [u EXCEPT !.out = o]
    BY <1>2 DEF SocketType
  <2>3. t \in SocketType
    <3> HIDE DEF u
    <3> QED BY <2>1, <2>2, <1>3, ZenonT(40) DEF SocketType
  <2> QED BY <1>2, <2>3, ZenonT(40) DEF SocketType
<1>5. Outs(t) = Outs(s) \cup {m}
  <2>1. s.out \in Seq(Message) /\ t.out = Append(s.out, m)
    BY <1>4, SocketFields DEF o
  <2> QED BY <1>1, <2>1, OutsAppend
<1>6. Appended(s, t, m)
  BY <1>1, <1>4, <1>5 DEF Appended
<1> QED BY <1>1, <1>4, <1>6 DEF x

\* The state may change with it.
WithState(s, z) == [s EXCEPT !.state = z]

LEMMA AppendedState ==
    ASSUME NEW s, NEW r, NEW m, Appended(s, r, m), NEW z \in State, NEW t, t = WithState(r, z)
    PROVE  Appended(s, t, m) /\ t.state = z /\ t.retx = r.retx
<1>1. r \in SocketType /\ t = [r EXCEPT !.state = z]
  BY DEF Appended, WithState
<1>2. /\ t \in SocketType /\ t.out = r.out /\ t.ep = r.ep /\ t.state = z /\ t.retx = r.retx
      /\ t.una = r.una /\ t.size = r.size /\ t.nxt = r.nxt /\ t.high = r.high /\ t.lost = r.lost
      /\ t.sacked = r.sacked /\ t.closeOnEmpty = r.closeOnEmpty
      /\ t.shutdownSend = r.shutdownSend /\ t.rcvNxt = r.rcvNxt /\ t.held = r.held
      /\ t.unread = r.unread /\ t.gotFin = r.gotFin /\ t.finSeq = r.finSeq /\ t.got = r.got
      /\ t.lastAck = r.lastAck
  BY <1>1, ZenonT(40) DEF SocketType
<1>3. Outs(t) = Outs(r)
  BY <1>2 DEF Outs
<1> QED BY <1>2, <1>3 DEF Appended

LEMMA AppendedStep ==
    ASSUME NEW e, Env(e), NEW s, NEW t, NEW m, Base(e, s), s.ep, Appended(s, t, m),
           Carried(e.n, e.a, t, Past(e.q), m), Reported(e, t, m),
           s.state \in Handshake <=> t.state \in Handshake,
           FinOut(e.a, s) => FinOut(e.a, t), Clean(t) => Clean(s), Past(s) => Past(t),
           (\E x \in Outs(s) : x.kind = "FIN") /\ s.state \in Open => t.state \in Open \/ Past(t),
           t.una = e.a.wrote + 2 /\ (t.retx = "FIN" \/ t.state = "CLOSING") => Past(e.q),
           t.una = e.a.wrote + 2 /\ t.state = "FIN_WAIT_1" => s.state = "FIN_WAIT_1"
    PROVE  Base(e, t) /\ Quiet(s, t)
<1>1. s \in SocketType /\ t \in SocketType
  BY DEF Base, Appended
<1>2. Quiet(s, t)
  BY DEF Quiet, Appended
<1>3. Grown(e.a, s, t)
  BY <1>1, SocketFields DEF Grown, Appended, SentUpTo, Early
<1>4. \A x \in Outs(t) : x \in Outs(s) \/ x = m
  BY DEF Appended
<1>5. t.ep
  BY DEF Appended
<1>6. Base(e, t)
  <2>1. \A x \in Outs(t) : \/ x \in Outs(s)
                           \/ Carried(e.n, e.a, t, Past(e.q), x) /\ Reported(e, t, x)
    BY <1>4
  <2> QED BY <1>1, <1>2, <1>3, <1>5, <2>1, BaseStep
<1> QED BY <1>2, <1>6

LEMMA ResetBase ==
    ASSUME NEW e, Env(e), NEW s, Base(e, s), s.ep, NEW r, r = SendEmptyPacket(s, "RST")
    PROVE  Base(e, r) /\ Quiet(s, r) /\ r.ep /\ r.state = s.state
<1>1. s \in SocketType /\ s.state \in State
  BY SocketFields DEF Base
<1>3. PICK m : /\ Appended(s, r, m) /\ r.state = s.state /\ m.kind = "RST" /\ m.len = 0
               /\ r.retx = s.retx /\ m.ack = 0 /\ m.sack = {}
  BY <1>1, EmptyAppended
<1>4. Carried(e.n, e.a, r, Past(e.q), m) /\ Reported(e, r, m)
  BY <1>1, <1>3, SocketFields DEF Carried, Reported, Appended
<1>5. r.una = e.a.wrote + 2 /\ (r.retx = "FIN" \/ r.state = "CLOSING") => Past(e.q)
  BY <1>3 DEF Base, Acked, Appended
<1>6. FinOut(e.a, s) => FinOut(e.a, r)
  BY <1>3 DEF FinOut, Appended
<1>7. (Clean(r) => Clean(s)) /\ (Past(s) => Past(r))
  BY <1>3 DEF Clean, Past, Appended
<1>8. r.ep
  BY <1>3 DEF Appended
<1> QED BY <1>3, <1>4, <1>5, <1>6, <1>7, <1>8, AppendedStep

LEMMA SentReset ==
    ASSUME NEW e, Env(e), NEW s, Base(e, s), s.ep, Half(e.a, s), SynRetries \in Nat, DataRetries \in Nat,
           NEW t \in {SendRST(s), ResetAndClose(s)}
    PROVE  Good(e, t) /\ ~ t.ep /\ Quiet(s, t) /\ t.state \in {s.state, "CLOSED"}
<1> DEFINE r == SendEmptyPacket(s, "RST")
<1>1. Base(e, r) /\ Quiet(s, r) /\ r.ep /\ r.state = s.state
  BY ResetBase
<1>2. SendRST(s) = DeallocateEndPoint(r) /\ ResetAndClose(s) = CloseAndNotify(SendRST(s))
  BY DEF SendRST, ResetAndClose
<1> HIDE DEF r
<1>3. Good(e, SendRST(s)) /\ ~ SendRST(s).ep /\ Quiet(r, SendRST(s))
  <2>1. Half(e.a, r)
    BY <1>1 DEF Half, Quiet
  <2> QED BY <1>1, <1>2, <2>1, Closed
<1>4. /\ Good(e, ResetAndClose(s)) /\ ~ ResetAndClose(s).ep /\ Quiet(SendRST(s), ResetAndClose(s))
  <2>1. Base(e, SendRST(s)) /\ Half(e.a, SendRST(s))
    BY <1>3 DEF Good
  <2> QED BY <1>2, <2>1, Closed
<1>5. \A u : DeallocateEndPoint(u).state = u.state
  BY DEF DeallocateEndPoint, NewSocket
<1>6. SendRST(s).state = s.state
  BY <1>1, <1>2, <1>5
<1>7. ResetAndClose(s).state = "CLOSED"
  <2>1. SendRST(s) \in SocketType
    BY <1>3 DEF Good, Base
  <2>2. \A u \in SocketType : [u EXCEPT !.state = "CLOSED"].state = "CLOSED"
    BY DEF SocketType
  <2> QED BY <1>2, <1>5, <2>1, <2>2 DEF CloseAndNotify
<1> QED BY <1>1, <1>3, <1>4, <1>6, <1>7, QuietTrans

\* An ACK without data.
LEMMA SentAck ==
    ASSUME NEW e, Env(e), NEW s, Good(e, s), NEW t, t = SendEmptyPacket(s, "ACK")
    PROVE  /\ Good(e, t) /\ Quiet(s, t) /\ t.ep = s.ep /\ t.state = s.state
           /\ TimerOn(s) => TimerOn(t)
           /\ s.ep => /\ \A m \in Outs(t) : m \in Outs(s) \/ m.kind = "ACK"
                      /\ t.size = s.size /\ t.shutdownSend = s.shutdownSend /\ t.high = s.high
                      /\ t.retx = s.retx /\ t.nxt = s.nxt
<1>1. s \in SocketType /\ s.state \in State
  BY SocketFields DEF Good, Base
<1>2. CASE ~ s.ep
  <2>1. t = s
    BY <1>2 DEF SendEmptyPacket
  <2>2. Quiet(s, s)
    BY <1>2, <1>1 DEF Quiet, Good, Gone
  <2> QED BY <1>2, <2>1, <2>2
<1>3. CASE s.ep
  <2>2. PICK m : /\ Appended(s, t, m) /\ t.state = s.state /\ m.kind = "ACK" /\ m.len = 0
                 /\ t.retx = s.retx /\ m.ack = s.rcvNxt /\ m.sack = s.held
    BY <1>1, <1>3, EmptyAppended
  <2>3. t \in SocketType /\ s.rcvNxt \in Nat /\ 1 <= s.rcvNxt /\ m \in Message
    BY <1>1, <1>3, <2>2, SocketFields DEF Appended, Good, Core, Receiver
  <2>4. Carried(e.n, e.a, t, Past(e.q), m)
    BY <2>2, <2>3 DEF Carried
  <2>5. Reported(e, t, m)
    BY <1>3, <2>2, <2>3 DEF Reported, Appended, Good, Base, Core, Receiver, Grown
  <2>6. t.una = e.a.wrote + 2 /\ (t.retx = "FIN" \/ t.state = "CLOSING") => Past(e.q)
    BY <1>3, <2>2 DEF Good, Base, Acked, Appended
  <2>7. FinOut(e.a, s) => FinOut(e.a, t)
    BY <2>2 DEF FinOut, Appended
  <2>8. (Clean(t) => Clean(s)) /\ (Past(s) => Past(t))
    BY <2>2 DEF Clean, Past, Appended
  <2>9. Base(e, t) /\ Quiet(s, t)
    BY <1>3, <2>2, <2>4, <2>5, <2>6, <2>7, <2>8, AppendedStep DEF Good
  <2>10. t.ep /\ t.size = s.size /\ t.nxt = s.nxt /\ t.una = s.una /\ t.high = s.high
         /\ t.lost = s.lost /\ t.sacked = s.sacked /\ t.closeOnEmpty = s.closeOnEmpty
         /\ t.shutdownSend = s.shutdownSend /\ t.lastAck = s.lastAck /\ t.rcvNxt = s.rcvNxt
         /\ t.held = s.held /\ t.unread = s.unread /\ t.got = s.got
    BY <1>3, <2>2 DEF Appended
  <2>11. Core(e.a, t)
    BY <1>3, <2>2, <2>10 DEF Good, Core, Sender, Line, Marks, FinOut, Asked, TimerSafe, Receiver
  <2>12. TimerOn(s) => TimerOn(t)
    BY <2>2, <2>10 DEF TimerOn
  <2>13. \A x \in Outs(t) : x \in Outs(s) \/ x.kind = "ACK"
    BY <2>2 DEF Appended
  <2> QED BY <1>3, <2>2, <2>9, <2>10, <2>11, <2>12, <2>13 DEF Good
<1> QED BY <1>2, <1>3

(***************************************************************************)
(* A FIN without data.                                                     *)
(***************************************************************************)
LEMMA FinBase ==
    ASSUME NEW e, Env(e), NEW s, Good(e, s), s.ep, NEW z,
           NEW r, r = SendEmptyPacket(s, "FIN"), NEW t, t = WithState(r, z),
           \/ z = s.state /\ FinOut(e.a, s)
           \/ s.state = "ESTABLISHED" /\ z = "FIN_WAIT_1"
           \/ s.state = "CLOSE_WAIT" /\ z = "LAST_ACK",
           Ended(e.a), s.high = e.a.wrote + 1,
           e.a.wrote <= s.nxt, z # "LAST_ACK" => e.a.wrote + 1 <= s.nxt,
           s.nxt <= e.a.wrote + 1 \/ s.nxt <= s.una,
           s.nxt <= s.una \/ z \in Open \/ z = "LAST_ACK",
           s.una = e.a.wrote + 2 => Past(e.q)
    PROVE  /\ Base(e, t) /\ Quiet(s, t) /\ t.state = z /\ FinOut(e.a, t)
           /\ t.retx = IF s.retx = "none" THEN "FIN" ELSE s.retx
           /\ \E m : Appended(s, t, m)
<1>1. s \in SocketType /\ s.state \in State /\ z \in State
  BY SocketFields DEF Good, Base, State
<1>2. PICK m : /\ Appended(s, r, m) /\ r.state = s.state /\ m.kind = "FIN" /\ m.len = 0
               /\ r.retx = IF s.retx = "none" THEN "FIN" ELSE s.retx
               /\ m.ack = s.rcvNxt /\ m.sack = s.held /\ m.seq = s.nxt
  BY <1>1, EmptyAppended
<1>3. Appended(s, t, m) /\ t.state = z /\ t.retx = r.retx
  BY <1>1, <1>2, AppendedState
<1>4. /\ t \in SocketType /\ m \in Message /\ s.rcvNxt \in Nat /\ 1 <= s.rcvNxt /\ s.nxt \in Nat
      /\ s.una \in Nat /\ e.a.wrote \in 0 .. 2 /\ e.a.wrote \in Nat /\ t.high = s.high /\ t.una = s.una
      /\ s.high \in Nat /\ t.ep /\ e.b.wrote \in Nat
  <2>1. t \in SocketType /\ m \in Message /\ t.high = s.high /\ t.una = s.una /\ t.ep
    BY <1>3 DEF Appended
  <2>2. e.a.wrote \in 0 .. 2 /\ e.b.wrote \in 0 .. 2
    BY DEF Env, AppType
  <2>3. 1 <= s.rcvNxt
    BY DEF Good, Core, Receiver
  <2>4. s.rcvNxt \in Nat /\ s.nxt \in Nat /\ s.una \in Nat /\ s.high \in Nat
    BY <1>1, SocketFields
  <2>5. e.a.wrote \in Nat /\ e.b.wrote \in Nat
    BY <2>2
  <2> QED BY <2>1, <2>2, <2>3, <2>4, <2>5
<1>5. FinOut(e.a, t) /\ Ended(e.a)
  BY <1>3, <1>4 DEF FinOut
<1>6. 1 <= s.nxt
  <2>1. 1 <= s.una /\ s.una <= s.nxt
    BY <1>4 DEF Good, Core, Sender, Line
  <2> QED BY <2>1, <1>4
<1>7. Carried(e.n, e.a, t, Past(e.q), m)
  <2>1. Clean(t) => e.a.wrote + 1 <= m.seq + m.len
    BY <1>2, <1>3, <1>4 DEF Clean
  <2>2. s.nxt <= e.a.wrote + 1 \/ (s.nxt = e.a.wrote + 2 /\ Past(e.q))
    BY <1>4 DEF Good, Core, Sender, Line
  <2> QED BY <1>2, <1>3, <1>4, <1>5, <1>6, <2>1, <2>2 DEF Carried
<1>8. Reported(e, t, m)
  <2>1. m.ack = e.b.wrote + 2 => Finished(s)
    BY <1>2 DEF Good, Base, Arrived
  <2>2. Finished(t) <=> Finished(s)
    BY <1>3 DEF Appended, Finished
  <2>3. m.ack = e.b.wrote + 2 =>
          Past(t) \/ (m.len = 0 /\ m.seq <= t.una) \/ (t.state \in Open /\ Finished(t))
    BY <1>2, <1>3, <1>4, <2>1, <2>2 DEF Past
  <2>4. 2 \in m.sack => t.rcvNxt = 1 /\ 2 \in t.held
    BY <1>2, <1>3, <1>4 DEF Good, Core, Receiver, Appended
  <2>5. t.rcvNxt = s.rcvNxt /\ e.s.rcvNxt <= s.rcvNxt /\ (s.rcvNxt = 2 => NoJump(e.s))
    BY <1>3 DEF Appended, Good, Base, Grown
  <2> QED BY <1>2, <1>4, <2>3, <2>4, <2>5 DEF Reported
<1>9. s.state \notin Handshake /\ s.state # "CLOSED" /\ t.state \notin Handshake
  BY <1>3 DEF Good, Core, Handshake
<1>10. (Clean(t) => Clean(s)) /\ (Past(s) => Past(t))
  BY <1>3, <1>4, <1>9 DEF Clean, Past
<1>11. Base(e, t) /\ Quiet(s, t)
  <2>1. s.state \in Open => t.state \in Open \/ Past(t)
    BY <1>3 DEF Past, Open
  <2>2. t.una = e.a.wrote + 2 => Past(e.q)
    BY <1>4
  <2>3. t.una = e.a.wrote + 2 /\ t.state = "FIN_WAIT_1" => s.state = "FIN_WAIT_1"
    <3>1. s.state = "ESTABLISHED" => s.una # e.a.wrote + 2
      BY DEF Good, Core, Sender, FinOut
    <3> QED BY <3>1, <1>3, <1>4
  <2> QED BY <1>3, <1>5, <1>7, <1>8, <1>9, <1>10, <2>1, <2>2, <2>3, AppendedStep DEF Good
<1> QED BY <1>2, <1>3, <1>5, <1>11

\* The states of a close: DoClose and ShutdownSend.
LEMMA ClosingFin ==
    ASSUME NEW e, Env(e), NEW s, Good(e, s), s.ep, TimerOn(s),
           NEW z, \/ s.state = "ESTABLISHED" /\ z = "FIN_WAIT_1"
                  \/ s.state = "CLOSE_WAIT" /\ z = "LAST_ACK",
           NEW r, r = SendEmptyPacket(s, "FIN"), NEW t, t = WithState(r, z),
           e.a.closed \/ s.shutdownSend, s.una + s.size <= s.nxt,
           s.state = "CLOSE_WAIT" =>
              s.una <= e.a.wrote + 1 /\ (s.size = 0 => s.retx = "none")
    PROVE  Good(e, t) /\ Quiet(s, t) /\ t.ep /\ t.state = z /\ t.retx # "none"
<1>1. /\ s.una \in Nat /\ s.size \in Nat /\ s.nxt \in Nat /\ s.high \in Nat
      /\ e.a.wrote \in Nat
  <2>1. e.a.wrote \in 0 .. 2
    BY DEF Env, AppType
  <2>2. s.una \in Nat /\ s.size \in Nat /\ s.nxt \in Nat /\ s.high \in Nat
    BY SocketFields DEF Good, Base
  <2> QED BY <2>1, <2>2
<1>2. /\ s.una + s.size = e.a.wrote + 1 /\ 1 <= s.una
      /\ s.nxt = e.a.wrote + 1 /\ s.high = e.a.wrote + 1
  BY <1>1 DEF Good, Core, Sender, Line
<1>3. Ended(e.a)
  BY DEF Good, Core, Asked, Ended
<1>4. /\ s.retx = "none" => s.size = 0 /\ s.nxt = s.una
      /\ s.retx = "none" \/ (s.retx = "RTO" /\ s.size # 0)
  <2>1. s.retx = "none" => s.una = s.high
    BY <1>1, <1>2 DEF TimerOn
  <2>2. s.state = "ESTABLISHED" => ~ FinOut(e.a, s)
    BY DEF FinOut
  <2>3. s.retx \in {"none", "FIN", "RTO"}
    BY DEF Good, Core, TimerSafe
  <2>4. s.retx = "FIN" => s.size = 0 /\ FinOut(e.a, s)
    BY DEF Good, Core, TimerSafe
  <2>5. s.retx = "RTO" /\ s.size = 0 => FinOut(e.a, s)
    BY DEF Good, Core, TimerSafe
  <2> QED BY <2>1, <2>2, <2>3, <2>4, <2>5, <1>1, <1>2
<1>5. /\ Base(e, t) /\ Quiet(s, t) /\ t.state = z /\ FinOut(e.a, t)
      /\ t.retx = IF s.retx = "none" THEN "FIN" ELSE s.retx
      /\ \E m : Appended(s, t, m)
  <2>1. s.una # e.a.wrote + 2 /\ e.a.wrote <= s.nxt /\ e.a.wrote + 1 <= s.nxt /\ s.nxt <= e.a.wrote + 1
    BY <1>1, <1>2
  <2>2. z \in Open \/ z = "LAST_ACK"
    BY DEF Open
  <2>3. s.high = e.a.wrote + 1
    BY <1>2
  <2> QED BY <1>3, <2>1, <2>2, <2>3, FinBase
<1>6. /\ t.ep /\ t.una = s.una /\ t.size = s.size /\ t.nxt = s.nxt /\ t.high = s.high
      /\ t.lost = s.lost /\ t.sacked = s.sacked /\ t.closeOnEmpty = s.closeOnEmpty
      /\ t.shutdownSend = s.shutdownSend /\ t.rcvNxt = s.rcvNxt /\ t.held = s.held
      /\ t.unread = s.unread /\ t.got = s.got
  BY <1>5 DEF Appended
<1>7. Sender(e.a, t)
  <2>1. Line(e.a, t) /\ Marks(t)
    BY <1>1, <1>2, <1>6 DEF Good, Core, Sender, Line, Marks
  <2> QED BY <1>1, <1>2, <1>5, <1>6, <2>1 DEF Sender
<1>8. TimerSafe(e.a, t)
  BY <1>4, <1>5, <1>6 DEF TimerSafe
<1>9. Asked(e.a, t) /\ Receiver(t)
  BY <1>6 DEF Good, Core, Asked, Receiver
<1>10. z \notin Handshake \cup {"CLOSED"}
  BY DEF Handshake
<1> QED BY <1>4, <1>5, <1>6, <1>7, <1>8, <1>9, <1>10 DEF Good, Core

\* A FIN once more, by m_retxEvent.
LEMMA AgainFin ==
    ASSUME NEW e, Env(e), NEW s, Good(e, s), s.ep, s.size = 0, FinOut(e.a, s),
           s.retx = "none", s.una = e.a.wrote + 2 => Past(e.q),
           NEW t, t = SendEmptyPacket(s, "FIN")
    PROVE  /\ Good(e, t) /\ Quiet(s, t) /\ t.ep /\ t.state = s.state /\ t.retx = "FIN"
           /\ TimerOn(t)
<1>1. /\ s.una \in Nat /\ s.size \in Nat /\ s.nxt \in Nat /\ s.high \in Nat
      /\ e.a.wrote \in Nat
  <2>1. e.a.wrote \in 0 .. 2
    BY DEF Env, AppType
  <2>2. s.una \in Nat /\ s.size \in Nat /\ s.nxt \in Nat /\ s.high \in Nat
    BY SocketFields DEF Good, Base
  <2> QED BY <2>1, <2>2
<1>2. s.nxt = s.una /\ e.a.wrote + 1 <= s.una /\ s.high = e.a.wrote + 1 /\ Ended(e.a)
  BY <1>1 DEF Good, Core, Sender, Line, FinOut
<1>3. s \in SocketType
  BY DEF Good, Base
<1>4. PICK m : Appended(s, t, m) /\ t.state = s.state /\ t.retx = "FIN"
  BY <1>3, EmptyAppended
<1>5. t = WithState(t, s.state)
  BY <1>4 DEF Appended, SocketType, WithState
<1>6. Base(e, t) /\ Quiet(s, t) /\ FinOut(e.a, t)
  <2>1. e.a.wrote <= s.nxt /\ s.nxt <= s.una
    BY <1>1, <1>2
  <2> QED BY <1>2, <1>5, <2>1, FinBase
<1>7. /\ t.ep /\ t.una = s.una /\ t.size = s.size /\ t.nxt = s.nxt /\ t.high = s.high
      /\ t.lost = s.lost /\ t.sacked = s.sacked /\ t.closeOnEmpty = s.closeOnEmpty
      /\ t.shutdownSend = s.shutdownSend /\ t.rcvNxt = s.rcvNxt /\ t.held = s.held
      /\ t.unread = s.unread /\ t.got = s.got /\ t.lastAck = s.lastAck
  BY <1>4 DEF Appended
<1>8. Sender(e.a, t)
  <2>1. Line(e.a, t) /\ Marks(t)
    BY <1>4, <1>7 DEF Good, Core, Sender, Line, Marks
  <2> QED BY <1>4, <1>6, <1>7, <2>1 DEF Good, Core, Sender
<1>9. TimerSafe(e.a, t)
  BY <1>2, <1>4, <1>6, <1>7 DEF TimerSafe
<1>10. Asked(e.a, t) /\ Receiver(t) /\ t.state \notin Handshake \cup {"CLOSED"}
  BY <1>4, <1>7 DEF Good, Core, Asked, Receiver
<1>11. TimerOn(t)
  BY <1>4 DEF TimerOn
<1> QED BY <1>4, <1>6, <1>7, <1>8, <1>9, <1>10, <1>11 DEF Good, Core

(***************************************************************************)
(* Data.                                                                   *)
(***************************************************************************)
\* The state after a FIN, or the same.
StateStep(s, t) ==
    \/ t.state = s.state
    \/ s.state = "ESTABLISHED" /\ t.state = "FIN_WAIT_1"
    \/ s.state = "CLOSE_WAIT" /\ t.state = "LAST_ACK"

\* The numbers of a stream that is not acknowledged to the end.
LEMMA Numbers ==
    ASSUME NEW e, Env(e), NEW s, Good(e, s), s.ep
    PROVE  /\ s \in SocketType /\ s.una \in Nat /\ s.size \in Nat /\ s.nxt \in Nat /\ s.high \in Nat
           /\ s.rcvNxt \in Nat /\ 1 <= s.rcvNxt /\ e.a.wrote \in Nat /\ e.a.wrote <= 2 /\ e.b.wrote \in Nat
           /\ 1 <= s.una /\ s.una <= s.nxt
           /\ s.size # 0 => /\ s.una + s.size = e.a.wrote + 1 /\ s.nxt <= s.high
                            /\ s.high <= e.a.wrote + 1 /\ s.una <= e.a.wrote
<1>1. e.a.wrote \in 0 .. 2 /\ e.b.wrote \in 0 .. 2
  BY DEF Env, AppType
<1>2. e.a.wrote \in Nat /\ e.a.wrote <= 2 /\ e.b.wrote \in Nat
  BY <1>1
<1>3. /\ s \in SocketType /\ s.una \in Nat /\ s.size \in Nat /\ s.nxt \in Nat /\ s.high \in Nat
      /\ s.rcvNxt \in Nat
  BY SocketFields DEF Good, Base
<1>4. 1 <= s.rcvNxt
  BY DEF Good, Core, Receiver
<1>5. Line(e.a, s)
  BY DEF Good, Core, Sender
<1> QED BY <1>2, <1>3, <1>4, <1>5 DEF Line

LEMMA SizeFrom ==
    ASSUME NEW s \in SocketType, NEW seq \in Nat
    PROVE  /\ SizeFromSequence(s, seq) \in Nat
           /\ SizeFromSequence(s, seq) = IF s.una + s.size <= seq THEN 0 ELSE s.una + s.size - seq
<1>1. s.una \in Nat /\ s.size \in Nat
  BY SocketFields
<1> DEFINE d == (s.una + s.size) - seq
<1>2. SizeFromSequence(s, seq) = Max({0, d})
  BY DEF SizeFromSequence, TailSequence
<1>3. d \in Int /\ 0 \in Int
  BY <1>1
<1>4. Max({0, d}) = IF 0 <= d THEN d ELSE 0
  <2> HIDE DEF d
  <2> QED BY <1>3, MaxOfTwo
<1>5. SizeFromSequence(s, seq) = IF 0 <= d THEN d ELSE 0
  BY <1>2, <1>4
<1> QED BY <1>1, <1>3, <1>5

LastOne(s, seq) == s.closeOnEmpty /\ s.una + s.size <= seq + 1

DataSent(s, seq, t, m) ==
    /\ t \in SocketType /\ t.lost = s.lost \ {seq} /\ t.nxt = seq + 1
    /\ t.high = IF s.high <= seq + 1 THEN seq + 1 ELSE s.high
    /\ t.retx = IF s.retx = "none" THEN "RTO" ELSE s.retx
    /\ t.state = IF LastOne(s, seq) /\ s.state = "ESTABLISHED" THEN "FIN_WAIT_1"
                 ELSE IF LastOne(s, seq) /\ s.state = "CLOSE_WAIT" THEN "LAST_ACK"
                 ELSE s.state
    /\ m \in Message /\ Outs(t) = Outs(s) \cup {m}
    /\ m.kind = (IF LastOne(s, seq) THEN "FIN" ELSE "ACK") /\ m.seq = seq /\ m.len = 1
    /\ m.ack = s.rcvNxt /\ m.sack = {}
    /\ t.ep = s.ep /\ t.una = s.una /\ t.size = s.size /\ t.sacked = s.sacked
    /\ t.closeOnEmpty = s.closeOnEmpty /\ t.shutdownSend = s.shutdownSend
    /\ t.rcvNxt = s.rcvNxt /\ t.held = s.held /\ t.unread = s.unread
    /\ t.gotFin = s.gotFin /\ t.finSeq = s.finSeq /\ t.got = s.got
    /\ t.lastAck = s.lastAck

LEMMA SentDataFields ==
    ASSUME NEW s \in SocketType, NEW seq \in Nat, NEW t, t = SendDataPacket(s, seq)
    PROVE  \E m : DataSent(s, seq, t, m)
<1> DEFINE fin == s.closeOnEmpty /\ s.una + s.size <= seq + 1
           k == IF fin THEN "FIN" ELSE "ACK"
           m == Segment(k, seq, 1, s.rcvNxt, {})
           h == IF s.high <= seq + 1 THEN seq + 1 ELSE s.high
           x == IF s.retx = "none" THEN "RTO" ELSE s.retx
           z == IF fin /\ s.state = "ESTABLISHED" THEN "FIN_WAIT_1"
                ELSE IF fin /\ s.state = "CLOSE_WAIT" THEN "LAST_ACK" ELSE s.state
           o == Append(s.out, m)
           l == s.lost \ {seq}
<1>1. fin <=> s.closeOnEmpty /\ SizeFromSequence(s, seq + 1) = 0
  <2>1. s.una \in Nat /\ s.size \in Nat
    BY SocketFields
  <2> QED BY <2>1, SizeFrom
<1>2. m \in Message /\ m.kind = k /\ m.seq = seq /\ m.len = 1 /\ m.ack = s.rcvNxt /\ m.sack = {}
  <2>1. k \in Kind \ {"RST"} /\ s.rcvNxt \in Nat /\ 1 \in 0 .. 1 /\ {} \in SUBSET {2}
    BY SocketFields DEF Kind
  <2> HIDE DEF k
  <2> QED BY <2>1, SegmentFields
<1>3. Max({s.high, seq + 1}) = h /\ h \in Nat
  <2>1. s.high \in Nat /\ seq + 1 \in Nat
    BY SocketFields
  <2> QED BY <2>1, MaxOfTwo
<1>4. /\ o \in Seq(Message) /\ x \in {"none", "SYN", "SYNACK", "FIN", "RTO"} /\ z \in State
      /\ l \in SUBSET (1 .. 2) /\ seq + 1 \in Nat
  BY <1>2, SocketFields DEF State
<1>5. t = [s EXCEPT !.lost = l, !.nxt = seq + 1, !.high = h, !.retx = x, !.state = z, !.out = o]
  BY <1>1, <1>3 DEF SendDataPacket
<1> HIDE DEF fin, k, m, h, x, z, o, l
<1>6. t \in SocketType
  <2> DEFINE u == [s EXCEPT !.lost = l, !.nxt = seq + 1]
             v == [u EXCEPT !.high = h, !.retx = x]
  <2>1. u \in SocketType
    BY <1>4 DEF SocketType
  <2>2. v \in SocketType
    <3> HIDE DEF u
    <3> QED BY <1>3, <1>4, <2>1, ZenonT(40) DEF SocketType
  <2>3. t = [v EXCEPT !.state = z, !.out = o]
    BY <1>5 DEF SocketType
  <2> HIDE DEF v
  <2> QED BY <1>4, <2>2, <2>3, ZenonT(40) DEF SocketType
<1>7. /\ t.lost = l /\ t.nxt = seq + 1 /\ t.high = h /\ t.retx = x /\ t.state = z /\ t.out = o
      /\ t.ep = s.ep /\ t.una = s.una /\ t.size = s.size /\ t.sacked = s.sacked
      /\ t.closeOnEmpty = s.closeOnEmpty /\ t.shutdownSend = s.shutdownSend
      /\ t.rcvNxt = s.rcvNxt /\ t.held = s.held /\ t.unread = s.unread
      /\ t.gotFin = s.gotFin /\ t.finSeq = s.finSeq /\ t.got = s.got /\ t.lastAck = s.lastAck
  BY <1>5 DEF SocketType
<1>8. Outs(t) = Outs(s) \cup {m}
  <2>1. s.out \in Seq(Message) /\ t.out = Append(s.out, m)
    BY <1>7, SocketFields DEF o
  <2> QED BY <1>2, <2>1, OutsAppend
<1>9. DataSent(s, seq, t, m)
  BY <1>2, <1>6, <1>7, <1>8 DEF DataSent, LastOne, fin, k, h, x, z, l
<1> QED BY <1>9

LEMMA SentData ==
    ASSUME NEW e, Env(e), NEW s, Good(e, s), s.ep, s.size # 0,
           NEW seq \in s.lost \cup (s.high .. (s.una + s.size - 1)),
           seq <= s.high, NEW t, t = SendDataPacket(s, seq)
    PROVE  /\ Good(e, t) /\ Quiet(s, t) /\ t.ep /\ StateStep(s, t) /\ TimerOn(t)
           /\ t.size = s.size /\ t.lastAck = s.lastAck
<1>1. /\ s \in SocketType /\ s.una \in Nat /\ s.size \in Nat /\ s.nxt \in Nat /\ s.high \in Nat
      /\ s.rcvNxt \in Nat /\ 1 <= s.rcvNxt /\ e.a.wrote \in Nat /\ e.a.wrote <= 2 /\ e.b.wrote \in Nat
      /\ 1 <= s.una /\ s.una <= s.nxt
      /\ s.una + s.size = e.a.wrote + 1 /\ s.nxt <= s.high
      /\ s.high <= e.a.wrote + 1 /\ s.una <= e.a.wrote
  BY Numbers
<1>2. /\ s.lost \subseteq s.una .. (s.high - 1) /\ s.sacked \subseteq s.una .. (s.high - 1)
      /\ s.lost \cap s.sacked = {}
  BY DEF Good, Core, Sender, Marks
<1>3. seq \in Nat /\ s.una <= seq /\ seq <= e.a.wrote
  BY <1>1, <1>2
<1> DEFINE fin == LastOne(s, seq)
<1>3a. PICK m : DataSent(s, seq, t, m)
  BY <1>1, <1>3, SentDataFields
<1>4. /\ m \in Message
      /\ t \in SocketType /\ t.lost = s.lost \ {seq} /\ t.nxt = seq + 1
      /\ t.high = IF s.high <= seq + 1 THEN seq + 1 ELSE s.high
      /\ t.retx = IF s.retx = "none" THEN "RTO" ELSE s.retx
      /\ t.state = IF fin /\ s.state = "ESTABLISHED" THEN "FIN_WAIT_1"
                   ELSE IF fin /\ s.state = "CLOSE_WAIT" THEN "LAST_ACK"
                   ELSE s.state
      /\ Outs(t) = Outs(s) \cup {m}
      /\ m.kind = (IF fin THEN "FIN" ELSE "ACK") /\ m.seq = seq /\ m.len = 1
      /\ m.ack = s.rcvNxt /\ m.sack = {}
      /\ t.ep = s.ep /\ t.una = s.una /\ t.size = s.size /\ t.sacked = s.sacked
      /\ t.closeOnEmpty = s.closeOnEmpty /\ t.shutdownSend = s.shutdownSend
      /\ t.rcvNxt = s.rcvNxt /\ t.held = s.held /\ t.unread = s.unread
      /\ t.gotFin = s.gotFin /\ t.finSeq = s.finSeq /\ t.got = s.got
      /\ t.lastAck = s.lastAck
  BY <1>3a DEF DataSent
<1>5. fin => seq = e.a.wrote /\ Ended(e.a) /\ (e.a.closed \/ s.shutdownSend)
  <2>1. fin => seq = e.a.wrote
    BY <1>1, <1>3 DEF LastOne
  <2>2. Asked(e.a, s)
    BY DEF Good, Core
  <2> QED BY <2>1, <2>2 DEF Asked, Ended, LastOne
<1> HIDE DEF fin
<1>6. StateStep(s, t) /\ Quiet(s, t)
  BY <1>4 DEF StateStep, Quiet
<1>7. /\ t.high \in Nat /\ s.high <= t.high /\ t.nxt <= t.high /\ t.high <= e.a.wrote + 1
      /\ t.una <= t.nxt /\ seq < t.high /\ (fin => t.high = e.a.wrote + 1)
      /\ t.lost \subseteq t.una .. (t.high - 1) /\ t.sacked \subseteq t.una .. (t.high - 1)
      /\ t.lost \cap t.sacked = {}
  BY <1>1, <1>2, <1>3, <1>4, <1>5
<1>8. FinOut(e.a, s) => FinOut(e.a, t)
  BY <1>1, <1>4, <1>7 DEF FinOut
<1>9. fin => FinOut(e.a, t)
  <2>1. fin => t.state \notin {"ESTABLISHED", "CLOSE_WAIT"}
    BY <1>4
  <2> QED BY <2>1, <1>5, <1>7 DEF FinOut
<1>10. Line(e.a, t) /\ Marks(t)
  BY <1>1, <1>4, <1>7 DEF Line, Marks
<1>11. Sender(e.a, t)
  <2>1. t.state \notin {"ESTABLISHED", "CLOSE_WAIT"} => FinOut(e.a, t)
    <3>1. t.state # s.state => fin
      BY <1>4
    <3>2. s.state \notin {"ESTABLISHED", "CLOSE_WAIT"} => FinOut(e.a, s)
      BY DEF Good, Core, Sender
    <3> QED BY <3>1, <3>2, <1>8, <1>9
  <2>2. t.una # e.a.wrote + 2
    BY <1>1, <1>4
  <2>3. t.state \in {"FIN_WAIT_1", "FIN_WAIT_2"} => e.a.closed \/ t.shutdownSend
    <3>1. s.state \in {"FIN_WAIT_1", "FIN_WAIT_2"} => e.a.closed \/ s.shutdownSend
      BY DEF Good, Core, Sender
    <3> QED BY <3>1, <1>4, <1>5
  <2>4. e.a.wrote <= t.nxt
    BY <1>1, <1>3, <1>4
  <2>5. t.state # "FIN_WAIT_2"
    <3>1. s.state # "FIN_WAIT_2"
      BY <1>1 DEF Good, Core, Sender
    <3> QED BY <3>1, <1>4
  <2> QED BY <1>10, <2>1, <2>2, <2>3, <2>4, <2>5 DEF Sender
<1>12. t.retx = "RTO" /\ TimerSafe(e.a, t) /\ TimerOn(t)
  <2>1. s.retx \in {"none", "RTO"}
    BY DEF Good, Core, TimerSafe
  <2>2. t.retx = "RTO" /\ t.size # 0
    BY <2>1, <1>4
  <2> QED BY <2>2 DEF TimerSafe, TimerOn
<1>13. Asked(e.a, t) /\ Receiver(t)
  BY <1>4 DEF Good, Core, Asked, Receiver
<1>14. s.state \notin Handshake \cup {"CLOSED"} /\ t.state \notin Handshake \cup {"CLOSED"}
  <2>1. s.state \notin Handshake \cup {"CLOSED"}
    BY DEF Good, Core
  <2> QED BY <2>1, <1>4 DEF Handshake
<1>15. Core(e.a, t)
  BY <1>11, <1>12, <1>13, <1>14 DEF Core
<1>16. (Clean(t) => Clean(s)) /\ (Past(s) => Past(t))
  BY <1>4, <1>14 DEF Clean, Past
<1>17. Grown(e.a, s, t)
  <2>1. SentUpTo(s) = s.high /\ SentUpTo(t) = t.high
    BY <1>14 DEF SentUpTo
  <2> QED BY <2>1, <1>1, <1>4, <1>7, <1>8, <1>16 DEF Grown, Early
<1>18. Carried(e.n, e.a, t, Past(e.q), m)
  <2>1. /\ m.kind \in {"ACK", "FIN"} /\ 1 <= m.ack /\ 1 <= m.seq /\ m.seq <= e.a.wrote
        /\ m.seq < t.high
    BY <1>1, <1>3, <1>4, <1>7
  <2>2. m.kind = "FIN" => fin /\ m.seq + m.len = e.a.wrote + 1
    BY <1>1, <1>3, <1>4, <1>5
  <2>3. m.kind = "FIN" => m.seq + m.len <= e.a.wrote + 1 /\ e.a.wrote + 1 <= m.seq + m.len
                          /\ e.a.wrote <= m.seq
    BY <2>2, <1>1, <1>4, <1>5
  <2> QED BY <2>1, <2>2, <2>3, <1>4, <1>5, <1>9 DEF Carried
<1>19. Reported(e, t, m)
  <2>1. m.ack = e.b.wrote + 2 => Finished(t)
    BY <1>4 DEF Good, Base, Arrived, Finished
  <2>2. m.kind = "FIN" => t.state \in Open \/ Past(t)
    <3>1. fin => t.state \in State \ (Handshake \cup {"CLOSED", "ESTABLISHED", "CLOSE_WAIT"})
      BY <1>4, <1>9, <1>14, SocketFields
    <3> QED BY <3>1, <1>4 DEF State, Handshake, Open, Past
  <2>3. t.rcvNxt = s.rcvNxt /\ e.s.rcvNxt <= s.rcvNxt /\ (s.rcvNxt = 2 => NoJump(e.s))
    BY <1>4 DEF Good, Base, Grown
  <2> QED BY <1>1, <1>4, <2>1, <2>2, <2>3 DEF Reported
<1>20. Base(e, t)
  <2>1. \A x \in Outs(t) : \/ x \in Outs(s)
                           \/ Carried(e.n, e.a, t, Past(e.q), x) /\ Reported(e, t, x)
    BY <1>4, <1>18, <1>19
  <2>2. s.state \in Open => t.state \in Open \/ Past(t)
    BY <1>4 DEF Open, Past
  <2>3. t.una # e.a.wrote + 2
    BY <1>1, <1>4
  <2> QED BY <1>4, <1>6, <1>17, <2>1, <2>2, <2>3, BaseStep DEF Good
<1> QED BY <1>4, <1>6, <1>12, <1>15, <1>20 DEF Good

Candidates(s) == s.lost \cup (s.high .. (TailSequence(s) - 1))

\* Nothing is in flight, and there is something to send.
Idle(s) == ~ (BytesInFlight(s) >= s.cwnd) /\ Candidates(s) # {}

LEMMA SentOne ==
    ASSUME NEW e, Env(e), NEW s, Good(e, s), s.ep, s.size # 0, NEW t, t = SendOne(s)
    PROVE  /\ Good(e, t) /\ Quiet(s, t) /\ t.ep /\ StateStep(s, t)
           /\ t.size = s.size /\ t.lastAck = s.lastAck
           /\ TimerOn(s) \/ Idle(s) => TimerOn(t)
<1>1. /\ s \in SocketType /\ s.una \in Nat /\ s.size \in Nat /\ s.high \in Nat
      /\ TailSequence(s) = s.una + s.size
  BY Numbers DEF TailSequence
<1>2. s.lost \subseteq s.una .. (s.high - 1)
  BY DEF Good, Core, Sender, Marks
<1>3. CASE t = s
  <2>1. ~ Idle(s) \/ TimerOn(t)
    <3>1. ASSUME Idle(s) PROVE TimerOn(t)
      <4> DEFINE seq == Min(Candidates(s))
      <4>1. Candidates(s) \in SUBSET Nat /\ Candidates(s) # {}
        BY <1>1, <1>2, <3>1 DEF Candidates, Idle
      <4>2. seq \in Candidates(s) /\ \A x \in Candidates(s) : seq <= x
        BY <4>1, MinOfNaturals
      <4>3. t = SendDataPacket(s, seq)
        BY <3>1, <4>1 DEF SendOne, Idle, Candidates
      <4> HIDE DEF seq
      <4>4. seq <= s.high
        BY <1>1, <1>2, <4>1, <4>2 DEF Candidates
      <4> QED BY <1>1, <4>2, <4>3, <4>4, SentData DEF Candidates
    <3> QED BY <3>1
  <2>2. Quiet(s, s) /\ StateStep(s, s)
    BY DEF Quiet, StateStep
  <2> QED BY <1>3, <2>1, <2>2
<1>4. CASE t # s
  <2> DEFINE seq == Min(Candidates(s))
  <2>1. Candidates(s) # {} /\ t = SendDataPacket(s, seq)
    BY <1>4 DEF SendOne, Candidates
  <2>2. Candidates(s) \in SUBSET Nat
    BY <1>1, <1>2 DEF Candidates
  <2>3. seq \in Candidates(s) /\ \A x \in Candidates(s) : seq <= x
    BY <2>1, <2>2, MinOfNaturals
  <2> HIDE DEF seq
  <2>4. seq <= s.high
    BY <1>1, <1>2, <2>2, <2>3 DEF Candidates
  <2> QED BY <1>1, <2>1, <2>3, <2>4, SentData DEF Candidates
<1> QED BY <1>3, <1>4

LEMMA SentPending ==
    ASSUME NEW e, Env(e), NEW s, Good(e, s), NEW t, t = SendPendingData(s)
    PROVE  /\ Good(e, t) /\ Quiet(s, t) /\ t.ep = s.ep /\ StateStep(s, t)
           /\ t.size = s.size /\ t.lastAck = s.lastAck
           /\ TimerOn(s) \/ (s.ep /\ s.size # 0 /\ Idle(s)) => TimerOn(t)
<1>1. CASE s.size = 0 \/ ~ s.ep
  <2>1. t = s
    BY <1>1 DEF SendPendingData
  <2>2. Quiet(s, s) /\ StateStep(s, s)
    BY DEF Quiet, StateStep, Good, Gone
  <2>3. ~ s.ep => s.size = 0
    BY DEF Good, Gone
  <2> QED BY <1>1, <2>1, <2>2, <2>3
<1>2. CASE s.size # 0 /\ s.ep
  <2> DEFINE r == SendOne(s)
  <2>1. t = SendOne(r)
    BY <1>2 DEF SendPendingData
  <2>2. /\ Good(e, r) /\ Quiet(s, r) /\ r.ep /\ StateStep(s, r)
        /\ r.size = s.size /\ r.lastAck = s.lastAck
        /\ TimerOn(s) \/ Idle(s) => TimerOn(r)
    BY <1>2, SentOne
  <2> HIDE DEF r
  <2>3. /\ Good(e, t) /\ Quiet(r, t) /\ t.ep /\ StateStep(r, t)
        /\ t.size = r.size /\ t.lastAck = r.lastAck
        /\ TimerOn(r) => TimerOn(t)
    BY <1>2, <2>1, <2>2, SentOne
  <2>4. Quiet(s, t)
    BY <2>2, <2>3, QuietTrans
  <2>5. StateStep(s, t)
    BY <2>2, <2>3 DEF StateStep
  <2>6. s.ep \in BOOLEAN /\ t.ep \in BOOLEAN
    BY <2>3, SocketFields DEF Good, Base
  <2> QED BY <1>2, <2>2, <2>3, <2>4, <2>5, <2>6
<1> QED BY <1>1, <1>2

(***************************************************************************)
(* Closing.                                                                *)
(***************************************************************************)
\* Only flags of no importance to the peer differ.
Alike(s, t) ==
    /\ t \in SocketType /\ t.state = s.state /\ t.ep = s.ep /\ t.una = s.una /\ t.size = s.size
    /\ t.nxt = s.nxt /\ t.high = s.high /\ t.lost = s.lost /\ t.sacked = s.sacked
    /\ t.rcvNxt = s.rcvNxt /\ t.held = s.held /\ t.gotFin = s.gotFin /\ t.finSeq = s.finSeq
    /\ t.got = s.got /\ t.retx = s.retx /\ (s.lastAck => t.lastAck) /\ t.out = s.out

LEMMA AlikeBase ==
    ASSUME NEW e, Env(e), NEW s, Base(e, s), NEW t, Alike(s, t)
    PROVE  Base(e, t)
<1>1. s \in SocketType /\ t \in SocketType /\ (Finished(t) <=> Finished(s)) /\ Outs(t) = Outs(s)
  BY DEF Base, Alike, Finished, Outs
<1>2. Counted(t) /\ (t.rcvNxt = 2 => NoJump(e.s)) /\ (~ e.b.opened => t.rcvNxt = 0)
  BY <1>1 DEF Base, Alike, Counted
<1>3. (FinOut(e.a, t) <=> FinOut(e.a, s)) /\ SentUpTo(t) = SentUpTo(s)
      /\ (Clean(t) <=> Clean(s)) /\ (Past(t) <=> Past(s)) /\ (Early(t) <=> Early(s))
  BY DEF Alike, FinOut, SentUpTo, Clean, Past, Early
<1>4. Grown(e.a, e.s, t)
  BY <1>3 DEF Base, Alike, Grown
<1>5. ASSUME NEW m \in Outs(t)
      PROVE  Carried(e.n, e.a, t, Past(e.q), m) /\ Reported(e, t, m)
  <2>1. Carried(e.n, e.a, s, Past(e.q), m) /\ Reported(e, s, m)
    BY <1>1, <1>5 DEF Base
  <2> QED BY <2>1, <1>1, <1>3 DEF Alike, Carried, Reported
<1>6. Arrived(e.b, e.q, t)
  BY <1>1 DEF Base, Alike, Arrived
<1>7. Acked(e, t)
  BY DEF Base, Alike, Acked
<1> QED BY <1>1, <1>2, <1>4, <1>5, <1>6, <1>7 DEF Base

LEMMA AlikeGood ==
    ASSUME NEW e, Env(e), NEW s, Good(e, s), s.ep, NEW t, Alike(s, t),
           Asked(e.a, t), Receiver(t),
           s.state \in {"FIN_WAIT_1", "FIN_WAIT_2"} /\ s.shutdownSend => t.shutdownSend
    PROVE  Good(e, t) /\ (TimerOn(s) => TimerOn(t))
<1>1. Base(e, t)
  BY AlikeBase DEF Good
<1>2. Sender(e.a, t) /\ TimerSafe(e.a, t) /\ t.state \notin Handshake \cup {"CLOSED"}
  <2>1. FinOut(e.a, t) <=> FinOut(e.a, s)
    BY DEF Alike, FinOut
  <2> QED BY <2>1 DEF Good, Core, Alike, Sender, Line, Marks, TimerSafe
<1>3. TimerOn(s) => TimerOn(t)
  BY DEF Alike, TimerOn
<1>4. t.ep
  BY DEF Alike
<1> QED BY <1>1, <1>2, <1>3, <1>4 DEF Good, Core

\* What a close needs in CLOSE_WAIT: no FIN was sent before.
Unsent(a, s) ==
    s.state = "CLOSE_WAIT" => s.una <= a.wrote + 1 /\ (s.size = 0 => s.retx = "none")

LEMMA ClosedOf ==
    ASSUME NEW e, Env(e), NEW s, Good(e, s), s.ep, TimerOn(s), Unsent(e.a, s),
           e.a.closed \/ s.shutdownSend, SynRetries \in Nat, DataRetries \in Nat,
           NEW t, t = CloseOf(s)
    PROVE  /\ Good(e, t) /\ Quiet(s, t)
           /\ t.ep => TimerOn(t) /\ StateStep(s, t)
           /\ IF t.ep THEN s.unread = 0 ELSE t.state \in {s.state, "CLOSED"}
<1>1. CASE s.unread > 0 \/ s.held # {}
  <2>1. t = SendRST(s) /\ Half(e.a, s)
    BY <1>1, HalfOf DEF CloseOf, Good, Core
  <2> QED BY <2>1, SentReset DEF Good
<1>2. CASE ~ (s.unread > 0 \/ s.held # {}) /\ SizeFromSequence(s, s.nxt) > 0
  <2>1. t = [s EXCEPT !.closeOnEmpty = TRUE] /\ s \in SocketType
    BY <1>2 DEF CloseOf, Good, Base
  <2>2. Alike(s, t) /\ t.shutdownSend = s.shutdownSend /\ t.unread = s.unread
    <3> SUFFICES ASSUME NEW u, u = [s EXCEPT !.closeOnEmpty = TRUE]
                 PROVE  Alike(s, u) /\ u.shutdownSend = s.shutdownSend /\ u.unread = s.unread
      BY <2>1
    <3> QED BY <2>1 DEF Alike, SocketType
  <2>3. Asked(e.a, t) /\ Receiver(t)
    BY <2>2 DEF Good, Core, Asked, Receiver, Alike
  <2>4. Quiet(s, t) /\ StateStep(s, t)
    BY <2>2 DEF Quiet, Alike, StateStep
  <2>5. s.unread = 0
    BY <1>2, <2>1, SocketFields
  <2>6. t.ep
    BY <2>2 DEF Alike
  <2> QED BY <2>2, <2>3, <2>4, <2>5, <2>6, AlikeGood
<1>3. CASE ~ (s.unread > 0 \/ s.held # {}) /\ ~ (SizeFromSequence(s, s.nxt) > 0)
  <2>1. t = DoClose(s) /\ s \in SocketType /\ s.state \notin Handshake
    BY <1>3 DEF CloseOf, Good, Base, Core
  <2>2. s.una + s.size <= s.nxt /\ s.unread = 0
    <3>1. s.una \in Nat /\ s.size \in Nat /\ s.nxt \in Nat /\ s.unread \in Nat
      BY <2>1, SocketFields
    <3>2. ~ (s.una + s.size <= s.nxt) => SizeFromSequence(s, s.nxt) = s.una + s.size - s.nxt
      BY <2>1, <3>1, SizeFrom
    <3> QED BY <3>1, <3>2, <1>3
  <2>3. CASE s.state = "ESTABLISHED"
    <3> DEFINE r == SendEmptyPacket(s, "FIN")
    <3>1. t = WithState(r, "FIN_WAIT_1")
      BY <2>1, <2>3 DEF DoClose, WithState
    <3> HIDE DEF r
    <3>2. Good(e, t) /\ Quiet(s, t) /\ t.ep /\ t.state = "FIN_WAIT_1" /\ t.retx # "none"
      BY <2>2, <2>3, <3>1, ClosingFin DEF r, Unsent
    <3> QED BY <2>2, <2>3, <3>2 DEF StateStep, TimerOn
  <2>4. CASE s.state = "CLOSE_WAIT"
    <3> DEFINE r == SendEmptyPacket(s, "FIN")
    <3>1. t = WithState(r, "LAST_ACK")
      BY <2>1, <2>4 DEF DoClose, WithState
    <3> HIDE DEF r
    <3>2. Good(e, t) /\ Quiet(s, t) /\ t.ep /\ t.state = "LAST_ACK" /\ t.retx # "none"
      BY <2>2, <2>4, <3>1, ClosingFin DEF r, Unsent
    <3> QED BY <2>2, <2>4, <3>2 DEF StateStep, TimerOn
  <2>5. CASE s.state = "CLOSING"
    <3>1. t = ResetAndClose(s) /\ Half(e.a, s)
      BY <2>1, <2>5, HalfOf DEF DoClose
    <3> QED BY <3>1, SentReset DEF Good
  <2>6. CASE s.state \notin {"ESTABLISHED", "CLOSE_WAIT", "CLOSING"}
    <3>1. t = s
      BY <2>1, <2>6 DEF DoClose, Handshake
    <3> QED BY <3>1, <2>2 DEF Quiet, StateStep
  <2> QED BY <2>3, <2>4, <2>5, <2>6
<1> QED BY <1>1, <1>2, <1>3

LEMMA ShutdownOf ==
    ASSUME NEW e, Env(e), NEW s, Good(e, s), s.ep, TimerOn(s), Unsent(e.a, s), e.a.shut,
           NEW t, t = ShutdownSendOf(s)
    PROVE  Good(e, t) /\ Quiet(s, t) /\ t.ep /\ TimerOn(t) /\ StateStep(s, t)
<1> DEFINE r == [s EXCEPT !.shutdownSend = TRUE, !.closeOnEmpty = TRUE]
<1>1. s \in SocketType
  BY DEF Good, Base
<1>2. Alike(s, r) /\ r.shutdownSend /\ r.unread = s.unread /\ r.ep /\ r.state = s.state /\ r.size = s.size
  BY <1>1 DEF Alike, SocketType
<1>3. t = IF s.size = 0 /\ s.state \in {"ESTABLISHED", "CLOSE_WAIT"}
          THEN [SendEmptyPacket(r, "FIN") EXCEPT
                  !.state = IF @ = "ESTABLISHED" THEN "FIN_WAIT_1" ELSE "LAST_ACK"]
          ELSE r
  BY DEF ShutdownSendOf
<1> HIDE DEF r
<1>4. Good(e, r) /\ TimerOn(r)
  <2>1. Asked(e.a, r) /\ Receiver(r)
    BY <1>2 DEF Good, Core, Asked, Receiver, Alike
  <2> QED BY <1>2, <2>1, AlikeGood
<1>5. Quiet(s, r) /\ StateStep(s, r)
  BY <1>2 DEF Quiet, Alike, StateStep
<1>6. CASE s.size = 0 /\ s.state \in {"ESTABLISHED", "CLOSE_WAIT"}
  <2> DEFINE f == SendEmptyPacket(r, "FIN")
             z == IF s.state = "ESTABLISHED" THEN "FIN_WAIT_1" ELSE "LAST_ACK"
  <2>1. f.state = s.state
    BY <1>2, EmptyAppended DEF Alike
  <2>2. t = WithState(f, z)
    BY <1>3, <1>6, <2>1 DEF WithState
  <2> HIDE DEF f
  <2>3. r.una + r.size <= r.nxt
    BY <1>2, <1>4, <1>6, Numbers
  <2>4. r.state = "CLOSE_WAIT" => r.una <= e.a.wrote + 1 /\ (r.size = 0 => r.retx = "none")
    BY <1>2 DEF Unsent, Alike
  <2>5. \/ r.state = "ESTABLISHED" /\ z = "FIN_WAIT_1"
        \/ r.state = "CLOSE_WAIT" /\ z = "LAST_ACK"
    BY <1>2, <1>6
  <2> HIDE DEF z
  <2>6. Good(e, t) /\ Quiet(r, t) /\ t.ep /\ t.state = z /\ t.retx # "none"
    BY <1>2, <1>4, <2>2, <2>3, <2>4, <2>5, ClosingFin DEF f
  <2> QED BY <1>2, <1>5, <2>5, <2>6, QuietTrans DEF StateStep, TimerOn
<1>7. CASE ~ (s.size = 0 /\ s.state \in {"ESTABLISHED", "CLOSE_WAIT"})
  BY <1>2, <1>3, <1>4, <1>5, <1>7
<1> QED BY <1>6, <1>7

(***************************************************************************)
(* Receiving.                                                              *)
(***************************************************************************)
\* The receiver of t differs from that of s, and nothing else.
Received(s, t) ==
    /\ t \in SocketType /\ t.state = s.state /\ t.ep = s.ep /\ t.una = s.una /\ t.size = s.size
    /\ t.nxt = s.nxt /\ t.high = s.high /\ t.lost = s.lost /\ t.sacked = s.sacked
    /\ t.closeOnEmpty = s.closeOnEmpty /\ t.shutdownSend = s.shutdownSend
    /\ t.retx = s.retx /\ t.lastAck = s.lastAck /\ t.out = s.out
    /\ s.rcvNxt <= t.rcvNxt

LEMMA LeastIs ==
    ASSUME NEW M \in SUBSET Nat, NEW k \in M, \A x \in M : k <= x
    PROVE  Min(M) = k
<1>1. Min(M) \in M /\ \A y \in M : Min(M) <= y
  BY MinOfNaturals
<1>2. ASSUME NEW y, y \in M, \A x \in M : y <= x PROVE y = k
  <2>1. y \in Nat /\ k \in Nat /\ k <= y /\ y <= k
    BY <1>2
  <2> QED BY <2>1
<1> QED BY <1>1, <1>2, Zenon

\* Segment seq fits before next, after what was held.
Filled(s, seq, next) ==
    \/ s.rcvNxt = 1 /\ seq = 1 /\ s.held = {} /\ next = 2
    \/ s.rcvNxt = 1 /\ seq = 1 /\ s.held = {2} /\ next = 3
    \/ s.rcvNxt = 1 /\ seq = 2 /\ s.held = {} /\ next = 1
    \/ s.rcvNxt = 2 /\ seq = 2 /\ s.held = {} /\ next = 3

Cut(s, seq) == seq < s.rcvNxt \/ seq \in s.held \/ (s.gotFin /\ s.finSeq <= seq)

LEMMA AddFields ==
    ASSUME NEW s \in SocketType, Receiver(s), NEW seq \in {1, 2}, NEW t, t = AddToBuffer(s, seq)
    PROVE  \/ t = s /\ Cut(s, seq)
           \/ /\ ~ Cut(s, seq)
              /\ \E next \in 1 .. 3 :
                    /\ Filled(s, seq, next) /\ Received(s, t)
                    /\ t.held = IF next = 1 THEN {2} ELSE {}
                    /\ t.unread = s.unread + next - s.rcvNxt
                    /\ t.got = s.got + next - s.rcvNxt
                    /\ t.rcvNxt = IF s.gotFin /\ next = s.finSeq THEN next + 1 ELSE next
                    /\ t.gotFin = s.gotFin /\ t.finSeq = s.finSeq
<1>1. CASE Cut(s, seq)
  <2>1. t = s
    BY <1>1 DEF AddToBuffer, Cut
  <2> QED BY <1>1, <2>1
<1>2. CASE ~ Cut(s, seq)
  <2> DEFINE all == s.held \cup {seq}
             missing == {x \in s.rcvNxt .. (seq + 3) : x \notin all}
             next == Min(missing)
             fin == s.gotFin /\ next = s.finSeq
             h == {x \in all : next < x}
             u == s.unread + next - s.rcvNxt
             g == s.got + next - s.rcvNxt
             n == IF fin THEN next + 1 ELSE next
  <2>1. /\ s.rcvNxt \in Nat /\ s.held \in {{}, {2}} /\ s.unread \in Nat /\ s.got \in Nat
        /\ s.rcvNxt \in {1, 2} /\ s.rcvNxt <= seq /\ seq \notin s.held /\ s.unread <= s.got
        /\ s.held # {} => s.rcvNxt = 1
    <3>1. s.rcvNxt \in Nat /\ s.held \subseteq {2} /\ s.unread \in Nat /\ s.got \in Nat
      BY SocketFields
    <3>2. 1 <= s.rcvNxt /\ ~ (seq < s.rcvNxt) /\ seq \notin s.held /\ s.unread <= s.got
          /\ (s.held # {} => s.rcvNxt = 1)
      BY <1>2 DEF Cut, Receiver
    <3> QED BY <3>1, <3>2
  <2>2. all \in SUBSET Nat /\ seq + 3 \in Nat
    BY <2>1
  <2>3. next \in 1 .. 3 /\ Filled(s, seq, next)
    <3>1. ASSUME NEW k \in 1 .. 3, s.rcvNxt <= k, k <= seq + 3, k \notin all,
                 \A x \in s.rcvNxt .. (k - 1) : x \in all
          PROVE  next = k
      <4> HIDE DEF all
      <4>1. missing \in SUBSET Nat
        BY <2>1, <2>2
      <4>2. k \in missing /\ \A x \in missing : k <= x
        BY <2>1, <2>2, <3>1
      <4> HIDE DEF missing
      <4> QED BY <4>1, <4>2, LeastIs
    <3>2. CASE s.rcvNxt = 1 /\ seq = 1 /\ s.held = {}
      <4>1. next = 2
        <5>1. all = {1}
          BY <3>2
        <5> HIDE DEF all
        <5> QED BY <3>1, <3>2, <5>1
      <4> HIDE DEF next
      <4> QED BY <3>2, <4>1 DEF Filled
    <3>3. CASE s.rcvNxt = 1 /\ seq = 1 /\ s.held = {2}
      <4>1. next = 3
        <5>1. all = {1, 2}
          BY <3>3
        <5> HIDE DEF all
        <5> QED BY <3>1, <3>3, <5>1
      <4> HIDE DEF next
      <4> QED BY <3>3, <4>1 DEF Filled
    <3>4. CASE s.rcvNxt = 1 /\ seq = 2 /\ s.held = {}
      <4>1. next = 1
        <5>1. all = {2}
          BY <3>4
        <5> HIDE DEF all
        <5> QED BY <3>1, <3>4, <5>1
      <4> HIDE DEF next
      <4> QED BY <3>4, <4>1 DEF Filled
    <3>5. CASE s.rcvNxt = 2 /\ seq = 2 /\ s.held = {}
      <4>1. next = 3
        <5>1. all = {2}
          BY <3>5
        <5> HIDE DEF all
        <5> QED BY <3>1, <3>5, <5>1
      <4> HIDE DEF next
      <4> QED BY <3>5, <4>1 DEF Filled
    <3> HIDE DEF next
    <3> QED BY <2>1, <3>2, <3>3, <3>4, <3>5
  <2>4. t = [s EXCEPT !.held = h, !.unread = u, !.got = g, !.rcvNxt = n]
    BY <1>2 DEF AddToBuffer, Cut
  <2> HIDE DEF next
  <2>5. /\ h = IF next = 1 THEN {2} ELSE {}
        /\ s.rcvNxt <= next
    BY <2>1, <2>3 DEF Filled
  <2>6. u \in Nat /\ g \in Nat /\ n \in Nat /\ h \in SUBSET {2} /\ s.rcvNxt <= n
    BY <2>1, <2>3, <2>5
  <2> HIDE DEF h, u, g, n
  <2>7. t \in SocketType
    <3> DEFINE v == [s EXCEPT !.held = h, !.unread = u]
    <3>1. v \in SocketType
      BY <2>6 DEF SocketType
    <3>2. t = [v EXCEPT !.got = g, !.rcvNxt = n]
      BY <2>4 DEF SocketType
    <3> HIDE DEF v
    <3> QED BY <2>6, <3>1, <3>2, ZenonT(40) DEF SocketType
  <2>8. /\ t.held = h /\ t.unread = u /\ t.got = g /\ t.rcvNxt = n
        /\ t.state = s.state /\ t.ep = s.ep /\ t.una = s.una /\ t.size = s.size
        /\ t.nxt = s.nxt /\ t.high = s.high /\ t.lost = s.lost /\ t.sacked = s.sacked
        /\ t.closeOnEmpty = s.closeOnEmpty /\ t.shutdownSend = s.shutdownSend
        /\ t.retx = s.retx /\ t.lastAck = s.lastAck /\ t.out = s.out
        /\ t.gotFin = s.gotFin /\ t.finSeq = s.finSeq
    BY <2>4 DEF SocketType
  <2>9. Received(s, t)
    BY <2>6, <2>7, <2>8 DEF Received
  <2> QED BY <1>2, <2>3, <2>5, <2>8, <2>9 DEF u, g, n
<1> QED BY <1>1, <1>2

\* TcpRxBuffer::Add of a segment that the peer has sent.
LEMMA Added ==
    ASSUME NEW e, Env(e), NEW s, Good(e, s), s.ep, Outs(s) = {},
           NEW seq \in {1, 2}, seq <= e.b.wrote, e.q.ep => seq < e.q.high, e.b.opened,
           NEW t, t = AddToBuffer(s, seq)
    PROVE  /\ Good(e, t) /\ Received(s, t) /\ Outs(t) = {}
           /\ t.gotFin = s.gotFin /\ t.finSeq = s.finSeq
           /\ s.rcvNxt < t.rcvNxt => t.unread > 0
           /\ Finished(s) => t = s
           /\ seq < t.rcvNxt \/ seq \in t.held \/ (t.gotFin /\ t.finSeq <= seq)
           /\ e.b.wrote \in s.held \/ e.b.wrote < s.rcvNxt => e.b.wrote \in t.held \/ e.b.wrote < t.rcvNxt
<1>1. s \in SocketType /\ Receiver(s) /\ e.b.wrote \in {0, 1, 2} /\ e.q \in SocketType /\ e.s \in SocketType
      /\ e.a \in AppType
  BY DEF Good, Core, Base, Env, AppType
<1>2. /\ s.rcvNxt \in Nat /\ s.held \subseteq {2} /\ s.unread \in Nat /\ s.got \in Nat
      /\ s.finSeq \in Nat /\ s.gotFin \in BOOLEAN /\ e.q.high \in Nat /\ e.s.rcvNxt \in Nat
      /\ e.s.held \subseteq {2} /\ s.una \in Nat /\ s.high \in Nat
  BY <1>1, SocketFields
<1>3. CASE t = s /\ Cut(s, seq)
  <2>1. Received(s, s)
    BY <1>1, <1>2 DEF Received
  <2>2. ~ (s.rcvNxt < s.rcvNxt)
    BY <1>2
  <2> QED BY <1>3, <2>1, <2>2 DEF Cut
<1>4. CASE ~ Cut(s, seq) /\
           \E next \in 1 .. 3 :
                    /\ Filled(s, seq, next) /\ Received(s, t)
                    /\ t.held = IF next = 1 THEN {2} ELSE {}
                    /\ t.unread = s.unread + next - s.rcvNxt
                    /\ t.got = s.got + next - s.rcvNxt
                    /\ t.rcvNxt = IF s.gotFin /\ next = s.finSeq THEN next + 1 ELSE next
                    /\ t.gotFin = s.gotFin /\ t.finSeq = s.finSeq
  <2>1. PICK next \in 1 .. 3 :
                    /\ Filled(s, seq, next) /\ Received(s, t)
                    /\ t.held = IF next = 1 THEN {2} ELSE {}
                    /\ t.unread = s.unread + next - s.rcvNxt
                    /\ t.got = s.got + next - s.rcvNxt
                    /\ t.rcvNxt = IF s.gotFin /\ next = s.finSeq THEN next + 1 ELSE next
                    /\ t.gotFin = s.gotFin /\ t.finSeq = s.finSeq
    BY <1>4
  <2>2. /\ s.rcvNxt <= seq /\ seq \notin s.held /\ ~ (s.gotFin /\ s.finSeq <= seq)
        /\ ~ Finished(s)
    BY <1>1, <1>2, <1>4 DEF Cut, Finished
  <2>3. /\ s.held \subseteq 1 .. e.b.wrote /\ s.got = s.rcvNxt - 1
        /\ s.gotFin => /\ Ended(e.b) /\ (e.q.ep => FinOut(e.b, e.q))
                       /\ e.b.wrote <= s.finSeq /\ s.finSeq <= e.b.wrote + 1
        /\ e.q.ep => \A x \in s.held : x < e.q.high
        /\ Clean(e.q) /\ s.gotFin =>
             s.finSeq = e.b.wrote + 1 \/ e.b.wrote \in s.held \/ e.b.wrote < s.rcvNxt
    <3>1. s.rcvNxt - 1 <= s.got /\ s.got < s.rcvNxt
      BY <1>1, <2>2 DEF Good, Base, Counted, Receiver
    <3> QED BY <1>2, <3>1 DEF Good, Base, Arrived
  <2>4. /\ 1 <= s.rcvNxt /\ s.rcvNxt <= next /\ next <= e.b.wrote + 1
        /\ e.q.ep /\ next # 1 => next <= e.q.high
        /\ next = 1 => seq = 2 /\ s.rcvNxt = 1 /\ ~ (s.gotFin /\ s.finSeq = 1)
        /\ next # 1 => seq < next /\ s.rcvNxt < next
        /\ e.b.wrote \in s.held => e.b.wrote < next
        /\ t.got = next - 1
    <3>1. s.held = {2} => e.b.wrote = 2 /\ (e.q.ep => 2 < e.q.high)
      BY <1>1, <2>3
    <3>2. \/ s.rcvNxt = 1 /\ seq = 1 /\ s.held = {} /\ next = 2
          \/ s.rcvNxt = 1 /\ seq = 1 /\ s.held = {2} /\ next = 3
          \/ s.rcvNxt = 1 /\ seq = 2 /\ s.held = {} /\ next = 1
          \/ s.rcvNxt = 2 /\ seq = 2 /\ s.held = {} /\ next = 3
      BY <2>1 DEF Filled
    <3>3. t.got = next - 1
      BY <2>1, <2>3, <3>2
    <3>4. next # 1 /\ e.q.ep => next <= e.q.high
      BY <1>1, <1>2, <3>1, <3>2
    <3>5. next = 1 => ~ (s.gotFin /\ s.finSeq = 1)
      BY <1>1, <1>2, <2>2, <2>3, <3>2
    <3>6. e.b.wrote \in s.held => e.b.wrote < next
      BY <1>1, <3>1, <3>2
    <3>7. next <= e.b.wrote + 1
      BY <1>1, <3>1, <3>2
    <3> QED BY <3>2, <3>3, <3>4, <3>5, <3>6, <3>7
  <2>5. s.gotFin /\ next = s.finSeq => Finished(t) /\ next # 1
    BY <1>1, <1>2, <2>1, <2>4 DEF Finished
  <2>6. /\ t.state = s.state /\ t.ep = s.ep /\ t.una = s.una /\ t.size = s.size
        /\ t.nxt = s.nxt /\ t.high = s.high /\ t.lost = s.lost /\ t.sacked = s.sacked
        /\ t.closeOnEmpty = s.closeOnEmpty /\ t.shutdownSend = s.shutdownSend
        /\ t.retx = s.retx /\ t.lastAck = s.lastAck /\ t.out = s.out
        /\ s.rcvNxt <= t.rcvNxt /\ t \in SocketType
    BY <2>1 DEF Received
  <2>7. Counted(t) /\ Outs(t) = {}
    <3>1. Counted(t)
      BY <1>1, <1>2, <2>1, <2>4, <2>5 DEF Counted
    <3> QED BY <3>1, <2>6 DEF Outs
  <2>8. Early(s) => Early(t)
    <3>1. Early(s) => s.rcvNxt = 1 /\ 2 \in s.held
      BY <1>1, <1>2, <2>2 DEF Early
    <3>2. s.rcvNxt = 1 /\ 2 \in s.held => next = 3
      BY <2>1 DEF Filled
    <3>3. next = 3 => 3 <= t.rcvNxt
      BY <2>1
    <3> QED BY <3>1, <3>2, <3>3 DEF Early
  <2>9. Grown(e.a, s, t)
    BY <1>1, <1>2, <2>6, <2>8 DEF Grown, SentUpTo, FinOut, Clean, Past
  <2>10. Grown(e.a, e.s, t)
    BY <1>1, <2>6, <2>9, GrownTrans DEF Good, Base
  <2>11. Arrived(e.b, e.q, t)
    <3>1. t.gotFin => /\ Ended(e.b) /\ (e.q.ep => FinOut(e.b, e.q))
                      /\ e.b.wrote <= t.finSeq /\ t.finSeq <= e.b.wrote + 1
      BY <2>1, <2>3
    <3>2. t.rcvNxt <= e.b.wrote + 2 /\ (t.rcvNxt = e.b.wrote + 2 => Finished(t))
      BY <1>1, <1>2, <2>1, <2>4, <2>5
    <3>3. e.q.ep => t.rcvNxt <= SentUpTo(e.q) \/ t.rcvNxt = e.b.wrote + 2
      <4>1. e.q.ep => SentUpTo(e.q) = e.q.high /\ 1 <= e.q.high
        <5>1. e.q.ep /\ e.q.state \in Handshake => e.q.high = 0
          BY DEF Env, Local, Shaking
        <5> QED BY <1>1, <1>2, <5>1 DEF SentUpTo
      <4>2. CASE s.gotFin /\ next = s.finSeq
        <5>1. e.q.ep => e.q.high = e.b.wrote + 1
          BY <2>3, <4>2 DEF FinOut
        <5> QED BY <1>1, <1>2, <2>1, <2>3, <4>1, <4>2, <5>1
      <4>3. CASE ~ (s.gotFin /\ next = s.finSeq)
        BY <1>1, <1>2, <2>1, <2>4, <4>1, <4>3
      <4> QED BY <4>2, <4>3
    <3>4. t.held \subseteq 1 .. e.b.wrote /\ (e.q.ep => \A x \in t.held : x < e.q.high)
      <4>1. t.held = {} \/ (t.held = {seq} /\ seq \in 1 .. e.b.wrote)
        BY <1>1, <2>1, <2>4
      <4> QED BY <4>1
    <3>5. t.got <= e.b.wrote
      BY <1>1, <2>4
    <3>6. Clean(e.q) =>
             t.got = IF t.rcvNxt <= e.b.wrote + 1 THEN t.rcvNxt - 1 ELSE e.b.wrote
      <4>1. CASE s.gotFin /\ next = s.finSeq
        <5>1. Clean(e.q) => s.finSeq = e.b.wrote + 1
          BY <1>1, <1>2, <2>2, <2>3, <2>4, <4>1
        <5> QED BY <1>1, <1>2, <2>1, <2>4, <4>1, <5>1
      <4>2. CASE ~ (s.gotFin /\ next = s.finSeq)
        BY <1>1, <1>2, <2>1, <2>4, <4>2
      <4> QED BY <4>1, <4>2
    <3>7. Clean(e.q) /\ t.gotFin =>
             t.finSeq = e.b.wrote + 1 \/ e.b.wrote \in t.held \/ e.b.wrote < t.rcvNxt
      <4>1. next <= t.rcvNxt /\ t.rcvNxt \in Nat
        BY <2>1
      <4>2. e.b.wrote \in s.held \/ e.b.wrote < s.rcvNxt => e.b.wrote < t.rcvNxt
        BY <1>1, <1>2, <2>4, <4>1
      <4> QED BY <2>1, <2>3, <4>2
    <3>8. ~ t.gotFin => t.finSeq = 0
      BY <2>1 DEF Good, Base, Arrived
    <3> QED BY <3>1, <3>2, <3>3, <3>4, <3>5, <3>6, <3>7, <3>8 DEF Arrived
  <2>12. t.rcvNxt = 2 => NoJump(e.s)
    <3>1. t.rcvNxt = 2 => s.rcvNxt = 1 /\ s.held = {}
      BY <1>2, <2>1, <2>2, <2>4, <2>5 DEF Filled
    <3>2. e.s.rcvNxt <= s.rcvNxt /\ (Early(e.s) => Early(s))
      BY DEF Good, Base, Grown
    <3>3. e.s.rcvNxt = 1 /\ 2 \in e.s.held => Early(e.s)
      BY DEF Early
    <3>4. s.rcvNxt = 1 /\ s.held = {} => ~ Early(s)
      BY DEF Early
    <3>5. 2 \in e.s.held => e.s.rcvNxt = 1
      BY DEF Env, Local, Shaking, Synced, Receiver
    <3> QED BY <1>2, <3>1, <3>2, <3>3, <3>4, <3>5 DEF NoJump
  <2>13. Acked(e, t)
    BY <2>6 DEF Good, Base, Acked
  <2>14. Base(e, t)
    BY <2>6, <2>7, <2>10, <2>11, <2>12, <2>13 DEF Base
  <2>15. Receiver(t)
    BY <1>1, <1>2, <2>1, <2>4, <2>5 DEF Receiver
  <2>16. Core(e.a, t)
    <3>1. FinOut(e.a, t) <=> FinOut(e.a, s)
      BY <2>6 DEF FinOut
    <3>2. Sender(e.a, t) /\ Asked(e.a, t) /\ TimerSafe(e.a, t) /\ t.state \notin Handshake \cup {"CLOSED"}
      BY <2>6, <3>1 DEF Good, Core, Sender, Line, Marks, Asked, TimerSafe
    <3> QED BY <2>15, <3>2 DEF Core
  <2>17. s.rcvNxt < t.rcvNxt => t.unread > 0
    <3>1. next = 1 => t.rcvNxt = 1 /\ s.rcvNxt = 1
      BY <2>1, <2>4
    <3>2. next # 1 => t.unread > 0
      BY <1>2, <2>1, <2>4
    <3> QED BY <3>1, <3>2
  <2>18. seq < t.rcvNxt \/ seq \in t.held
    BY <1>1, <1>2, <2>1, <2>4
  <2>19. e.b.wrote \in s.held \/ e.b.wrote < s.rcvNxt => e.b.wrote \in t.held \/ e.b.wrote < t.rcvNxt
    BY <1>1, <1>2, <2>1, <2>4
  <2> QED BY <2>1, <2>2, <2>6, <2>7, <2>14, <2>16, <2>17, <2>18, <2>19 DEF Good
<1> QED BY <1>1, <1>3, <1>4, AddFields

\* The end of the stream is known to be at x.
LEMMA FinSet ==
    ASSUME NEW e, Env(e), NEW s, Good(e, s), s.ep,
           NEW x \in Nat, e.b.wrote <= x, x <= e.b.wrote + 1, Ended(e.b),
           e.q.ep => FinOut(e.b, e.q),
           Clean(e.q) => x = e.b.wrote + 1 \/ e.b.wrote \in s.held \/ e.b.wrote < s.rcvNxt,
           NEW t, t = SetFinSequence(s, x)
    PROVE  /\ Good(e, t) /\ Received(s, t) /\ Outs(t) = Outs(s)
           /\ t.held = s.held /\ t.unread = s.unread /\ t.gotFin /\ t.finSeq = x
           /\ t.rcvNxt = IF s.rcvNxt = x THEN x + 1 ELSE s.rcvNxt
           /\ Finished(s) => Finished(t)
<1>1. s \in SocketType /\ Receiver(s) /\ e.b.wrote \in {0, 1, 2} /\ e.q \in SocketType /\ e.s \in SocketType
      /\ e.a \in AppType
  BY DEF Good, Core, Base, Env, AppType
<1>2. /\ s.rcvNxt \in Nat /\ s.held \subseteq {2} /\ s.unread \in Nat /\ s.got \in Nat
      /\ s.finSeq \in Nat /\ s.gotFin \in BOOLEAN /\ e.q.high \in Nat /\ e.s.rcvNxt \in Nat
      /\ e.s.held \subseteq {2} /\ s.una \in Nat /\ s.high \in Nat
      /\ 1 <= s.rcvNxt /\ s.got < s.rcvNxt /\ s.unread <= s.got /\ (s.held # {} => s.rcvNxt = 1)
  BY <1>1, SocketFields DEF Receiver
<1> DEFINE n == IF s.rcvNxt = x THEN x + 1 ELSE s.rcvNxt
<1>3. /\ t \in SocketType /\ t.state = s.state /\ t.ep = s.ep /\ t.una = s.una /\ t.size = s.size
      /\ t.nxt = s.nxt /\ t.high = s.high /\ t.lost = s.lost /\ t.sacked = s.sacked
      /\ t.closeOnEmpty = s.closeOnEmpty /\ t.shutdownSend = s.shutdownSend
      /\ t.retx = s.retx /\ t.lastAck = s.lastAck /\ t.out = s.out
      /\ t.held = s.held /\ t.unread = s.unread /\ t.got = s.got /\ t.gotFin /\ t.finSeq = x
      /\ t.rcvNxt = n
  <2> DEFINE u == [s EXCEPT !.gotFin = TRUE, !.finSeq = x]
  <2>0. s \in SocketType /\ n \in Nat
    BY <1>1, <1>2
  <2>1. u \in SocketType /\ n \in Nat
    BY <2>0 DEF SocketType
  <2>2. t = [s EXCEPT !.gotFin = TRUE, !.finSeq = x, !.rcvNxt = n]
    BY DEF SetFinSequence
  <2> HIDE DEF n
  <2>3. t = [u EXCEPT !.rcvNxt = n]
    BY <1>1, <2>2 DEF SocketType
  <2>4. t \in SocketType
    <3> HIDE DEF u
    <3> QED BY <2>1, <2>3, ZenonT(40) DEF SocketType
  <2> QED BY <1>1, <2>2, <2>4, ZenonT(40) DEF SocketType
<1>4. /\ s.held \subseteq 1 .. e.b.wrote /\ s.got <= e.b.wrote /\ s.rcvNxt <= e.b.wrote + 2
      /\ s.rcvNxt = e.b.wrote + 2 => Finished(s)
      /\ e.q.ep => s.rcvNxt <= SentUpTo(e.q) \/ s.rcvNxt = e.b.wrote + 2
      /\ e.q.ep => \A y \in s.held : y < e.q.high
      /\ Clean(e.q) => s.got = IF s.rcvNxt <= e.b.wrote + 1 THEN s.rcvNxt - 1 ELSE e.b.wrote
      /\ s.gotFin => e.b.wrote <= s.finSeq
  BY <1>2 DEF Good, Base, Arrived
<1>5. /\ s.rcvNxt = x => Finished(t)
      /\ Finished(s) => Finished(t)
      /\ n = e.b.wrote + 2 => Finished(t)
      /\ s.rcvNxt <= n /\ n \in Nat
  <2>1. Finished(s) => e.b.wrote < s.rcvNxt
    BY <1>1, <1>2, <1>4 DEF Finished
  <2> QED BY <1>1, <1>2, <1>3, <1>4, <2>1 DEF Finished
<1>6. 2 \in s.held => s.rcvNxt = 1 /\ x # 1
  BY <1>1, <1>2, <1>4
<1>7. (Early(s) <=> Early(t)) \/ (~ Early(s) /\ Early(t))
  BY <1>2, <1>3, <1>6 DEF Early
<1>8. Grown(e.a, s, t)
  BY <1>1, <1>2, <1>3, <1>5, <1>7 DEF Grown, SentUpTo, FinOut, Clean, Past
<1>9. Grown(e.a, e.s, t)
  BY <1>1, <1>3, <1>8, GrownTrans DEF Good, Base
<1>10. Outs(t) = Outs(s)
  BY <1>3 DEF Outs
<1>11. ASSUME NEW m \in Outs(t)
       PROVE  Carried(e.n, e.a, t, Past(e.q), m) /\ Reported(e, t, m)
  <2>1. Carried(e.n, e.a, s, Past(e.q), m) /\ Reported(e, s, m)
    BY <1>10, <1>11 DEF Good, Base
  <2>2. Carried(e.n, e.a, t, Past(e.q), m)
    BY <1>1, <1>3, <1>8, <2>1, CarriedGrows DEF Env
  <2>3. m \in Message /\ m.ack \in Nat
    BY <2>1, MessageFields DEF Carried
  <2>4. m.ack <= t.rcvNxt
    BY <1>2, <1>3, <1>5, <2>1, <2>3 DEF Reported
  <2>5. 2 \in m.sack => t.rcvNxt = 1 /\ 2 \in t.held
    BY <1>2, <1>3, <1>6, <2>1 DEF Reported
  <2>6. Past(t) <=> Past(s)
    BY <1>3 DEF Past
  <2> QED BY <1>3, <1>5, <2>1, <2>2, <2>4, <2>5, <2>6 DEF Reported
<1>12. Arrived(e.b, e.q, t)
  <2>1. t.rcvNxt <= e.b.wrote + 2 /\ (t.rcvNxt = e.b.wrote + 2 => Finished(t))
    BY <1>1, <1>2, <1>3, <1>4, <1>5
  <2>2. e.q.ep => t.rcvNxt <= SentUpTo(e.q) \/ t.rcvNxt = e.b.wrote + 2
    <3>1. e.q.ep => SentUpTo(e.q) = e.b.wrote + 1
      <4>1. e.q.ep => e.q.high = e.b.wrote + 1
        BY DEF FinOut
      <4>2. e.q.ep /\ e.q.state \in Handshake => e.q.high = 0
        BY DEF Env, Local, Shaking
      <4> QED BY <1>1, <4>1, <4>2 DEF SentUpTo
    <3> QED BY <1>1, <1>2, <1>3, <1>4, <3>1
  <2>3. Clean(e.q) =>
          t.got = IF t.rcvNxt <= e.b.wrote + 1 THEN t.rcvNxt - 1 ELSE e.b.wrote
    <3>1. CASE s.rcvNxt = x
      <4>1. Clean(e.q) => x = e.b.wrote + 1
        BY <1>1, <1>2, <1>4, <3>1
      <4> QED BY <1>1, <1>2, <1>3, <1>4, <3>1, <4>1
    <3>2. CASE s.rcvNxt # x
      BY <1>3, <1>4, <3>2
    <3> QED BY <3>1, <3>2
  <2>4. Clean(e.q) => x = e.b.wrote + 1 \/ e.b.wrote \in t.held \/ e.b.wrote < t.rcvNxt
    BY <1>1, <1>2, <1>3, <1>5
  <2>5. Ended(e.b) /\ (e.q.ep => FinOut(e.b, e.q)) /\ e.b.wrote <= t.finSeq /\ t.finSeq <= e.b.wrote + 1
    BY <1>3
  <2>6. t.held \subseteq 1 .. e.b.wrote /\ t.got <= e.b.wrote /\ (e.q.ep => \A y \in t.held : y < e.q.high)
    BY <1>3, <1>4
  <2>7. t.finSeq = x /\ t.gotFin
    BY <1>3
  <2> QED BY <2>1, <2>2, <2>3, <2>4, <2>5, <2>6, <2>7 DEF Arrived
<1>13. t.rcvNxt = 2 => NoJump(e.s)
  <2>1. CASE s.rcvNxt = x /\ x = 1
    <3>1. s.held = {}
      BY <1>1, <1>2, <1>4, <2>1
    <3>2. e.s.rcvNxt <= s.rcvNxt /\ (Early(e.s) => Early(s))
      BY DEF Good, Base, Grown
    <3>3. e.s.rcvNxt = 1 /\ 2 \in e.s.held => Early(e.s)
      BY DEF Early
    <3>4. ~ Early(s)
      BY <2>1, <3>1 DEF Early
    <3>5. 2 \in e.s.held => e.s.rcvNxt = 1
      BY DEF Env, Local, Shaking, Synced, Receiver
    <3> QED BY <1>2, <2>1, <3>1, <3>2, <3>3, <3>4, <3>5 DEF NoJump
  <2>2. CASE ~ (s.rcvNxt = x /\ x = 1)
    <3>1. t.rcvNxt = 2 => s.rcvNxt = 2
      BY <1>2, <1>3, <2>2
    <3> QED BY <3>1 DEF Good, Base
  <2> QED BY <2>1, <2>2
<1>14. Acked(e, t)
  BY <1>3 DEF Good, Base, Acked
<1>15. Counted(t) /\ e.b.opened
  <2>1. Counted(t)
    BY <1>2, <1>3, <1>5 DEF Good, Base, Counted
  <2>2. s.rcvNxt # 0
    BY <1>2
  <2> QED BY <2>1, <2>2 DEF Good, Base
<1>16. Base(e, t)
  BY <1>3, <1>9, <1>11, <1>12, <1>13, <1>14, <1>15 DEF Base
<1>17. Receiver(t)
  BY <1>2, <1>3, <1>6 DEF Receiver
<1>18. Core(e.a, t)
  <2>1. FinOut(e.a, t) <=> FinOut(e.a, s)
    BY <1>3 DEF FinOut
  <2>2. Sender(e.a, t) /\ Asked(e.a, t) /\ TimerSafe(e.a, t) /\ t.state \notin Handshake \cup {"CLOSED"}
    BY <1>3, <2>1 DEF Good, Core, Sender, Line, Marks, Asked, TimerSafe
  <2> QED BY <1>17, <2>2 DEF Core
<1>19. Received(s, t)
  BY <1>3, <1>5 DEF Received
<1> QED BY <1>3, <1>5, <1>10, <1>16, <1>18, <1>19 DEF Good

(***************************************************************************)
(* The stream of the peer has ended.                                       *)
(***************************************************************************)
LEMMA StateChanged ==
    ASSUME NEW s \in SocketType, NEW z \in State, NEW w, w = WithState(s, z)
    PROVE  /\ w \in SocketType /\ w.state = z /\ w.ep = s.ep /\ w.una = s.una /\ w.size = s.size
           /\ w.nxt = s.nxt /\ w.high = s.high /\ w.lost = s.lost /\ w.sacked = s.sacked
           /\ w.closeOnEmpty = s.closeOnEmpty /\ w.shutdownSend = s.shutdownSend
           /\ w.rcvNxt = s.rcvNxt /\ w.held = s.held /\ w.unread = s.unread
           /\ w.gotFin = s.gotFin /\ w.finSeq = s.finSeq /\ w.got = s.got
           /\ w.retx = s.retx /\ w.lastAck = s.lastAck /\ w.out = s.out /\ Outs(w) = Outs(s)
BY DEF SocketType, WithState, Outs

LEMMA LastAckStarted ==
    ASSUME NEW e, Env(e), NEW s, Good(e, s), s.ep, DataRetries \in Nat,
           NEW t, t = [s EXCEPT !.retr = DataRetries, !.lastAck = TRUE]
    PROVE  Good(e, t) /\ Quiet(s, t) /\ t.ep /\ t.state = s.state /\ (TimerOn(s) => TimerOn(t))
<1>1. s \in SocketType /\ DataRetries \in 0 .. DataRetries
  BY DEF Good, Base
<1>2. Alike(s, t) /\ t.shutdownSend = s.shutdownSend /\ t.unread = s.unread /\ t.closeOnEmpty = s.closeOnEmpty
      /\ t.ep
  BY <1>1 DEF Alike, SocketType
<1>3. Asked(e.a, t) /\ Receiver(t)
  BY <1>2 DEF Good, Core, Asked, Receiver, Alike
<1>4. Quiet(s, t) /\ t.state = s.state
  BY <1>2 DEF Quiet, Alike
<1>5. ASSUME NEW u, Alike(s, u), Asked(e.a, u), Receiver(u), u.shutdownSend = s.shutdownSend
      PROVE  Good(e, u) /\ (TimerOn(s) => TimerOn(u))
  BY <1>5, AlikeGood
<1>6. Good(e, t) /\ (TimerOn(s) => TimerOn(t))
  BY <1>2, <1>3, <1>5
<1> QED BY <1>2, <1>4, <1>6

\* DoPeerClose in ESTABLISHED, FIN_WAIT_1 and FIN_WAIT_2.
LEMMA PeerClosed ==
    ASSUME NEW e, Env(e), NEW s, Good(e, s), s.ep, TimerOn(s), Finished(s), s.state \in Open,
           \A m \in Outs(s) : m.kind # "FIN",
           s.state # "ESTABLISHED" => s.unread > 0,
           SynRetries \in Nat, DataRetries \in Nat,
           NEW t, t = DoPeerClose(s)
    PROVE  /\ Good(e, t) /\ Quiet(s, t) /\ (t.ep => TimerOn(t))
           /\ t.state \in {"CLOSE_WAIT", "LAST_ACK", "CLOSED"}
<1> DEFINE w == WithState(s, "CLOSE_WAIT")
           c == IF s.shutdownSend THEN CloseOf(w) ELSE SendEmptyPacket(w, "ACK")
<1>0. t = IF c.state = "LAST_ACK" THEN [c EXCEPT !.retr = DataRetries, !.lastAck = TRUE] ELSE c
  BY DEF DoPeerClose, WithState
<1>1. s \in SocketType /\ "CLOSE_WAIT" \in State
  BY DEF Good, Base, State
<1>2. /\ w \in SocketType /\ w.state = "CLOSE_WAIT" /\ w.ep = s.ep /\ w.una = s.una /\ w.size = s.size
      /\ w.nxt = s.nxt /\ w.high = s.high /\ w.lost = s.lost /\ w.sacked = s.sacked
      /\ w.closeOnEmpty = s.closeOnEmpty /\ w.shutdownSend = s.shutdownSend
      /\ w.rcvNxt = s.rcvNxt /\ w.held = s.held /\ w.unread = s.unread
      /\ w.gotFin = s.gotFin /\ w.finSeq = s.finSeq /\ w.got = s.got
      /\ w.retx = s.retx /\ w.lastAck = s.lastAck /\ w.out = s.out /\ Outs(w) = Outs(s)
  BY <1>1, StateChanged, ZenonT(40)
<1> HIDE DEF w
<1>3. Quiet(s, w)
  BY <1>2 DEF Quiet
<1>4. CASE s.state = "ESTABLISHED" \/ ~ s.shutdownSend
  <2>1. FinOut(e.a, s) => FinOut(e.a, w)
    <3>1. FinOut(e.a, s) => s.state # "ESTABLISHED" /\ e.a.closed
      BY <1>4 DEF Good, Core, Sender, FinOut, Open
    <3> QED BY <3>1, <1>2 DEF FinOut
  <2>2. Grown(e.a, s, w)
    BY <1>1, <1>2, <2>1, SocketFields DEF Grown, SentUpTo, Handshake, Open, Clean, Past, Early
  <2>3. Good(e, w)
    <3>1. Base(e, w)
      <4>1. \A m \in Outs(w) : m \in Outs(s)
        BY <1>2
      <4>2. w.una = e.a.wrote + 2 /\ w.retx = "FIN" => Past(e.q)
        BY <1>2 DEF Good, Base, Acked
      <4>3. w.ep
        BY <1>2
      <4> QED BY <1>2, <1>3, <2>2, <4>1, <4>2, <4>3, BaseStep DEF Good
    <3>2. Sender(e.a, w)
      <4>1. Line(e.a, w) /\ Marks(w)
        BY <1>2 DEF Good, Core, Sender, Line, Marks
      <4> QED BY <1>2, <2>1, <4>1 DEF Good, Core, Sender
    <3>3. Asked(e.a, w) /\ TimerSafe(e.a, w) /\ Receiver(w) /\ w.state \notin Handshake \cup {"CLOSED"}
      BY <1>2, <2>1 DEF Good, Core, Asked, TimerSafe, Receiver, Handshake
    <3> QED BY <1>2, <3>1, <3>2, <3>3 DEF Good, Core
  <2>4. TimerOn(w) /\ w.ep
    BY <1>2 DEF TimerOn, Open
  <2>5. CASE ~ s.shutdownSend
    <3>1. c = SendEmptyPacket(w, "ACK")
      BY <2>5
    <3> HIDE DEF c
    <3>2. Good(e, c) /\ Quiet(w, c) /\ c.ep = w.ep /\ c.state = w.state /\ TimerOn(c)
      BY <2>3, <2>4, <3>1, SentAck, ZenonT(40)
    <3>3. t = c
      BY <1>0, <1>2, <3>2
    <3> QED BY <1>2, <1>3, <2>4, <3>2, <3>3, QuietTrans
  <2>6. CASE s.shutdownSend
    <3>1. c = CloseOf(w) /\ s.state = "ESTABLISHED" /\ w.shutdownSend
      BY <1>2, <1>4, <2>6
    <3>2. Unsent(e.a, w)
      <4>1. ~ FinOut(e.a, s)
        BY <3>1 DEF FinOut
      <4>2. /\ s.una # e.a.wrote + 2 /\ (s.retx = "FIN" => FinOut(e.a, s))
            /\ (s.retx = "RTO" /\ s.size = 0 => FinOut(e.a, s)) /\ s.retx \in {"none", "FIN", "RTO"}
        BY <4>1 DEF Good, Core, Sender, TimerSafe
      <4>3. s.una <= e.a.wrote + 1
        <5>1. s.una \in Nat /\ s.size \in Nat /\ e.a.wrote \in Nat
          BY Numbers
        <5> QED BY <4>2, <5>1 DEF Good, Core, Sender, Line
      <4> QED BY <1>2, <4>1, <4>2, <4>3 DEF Unsent
    <3>3. /\ Good(e, c) /\ Quiet(w, c)
          /\ c.ep => TimerOn(c) /\ StateStep(w, c)
          /\ ~ c.ep => c.state \in {w.state, "CLOSED"}
      BY <2>3, <2>4, <3>1, <3>2, ClosedOf
    <3> HIDE DEF c
    <3>4. Quiet(s, c)
      BY <1>3, <2>4, <3>3, QuietTrans
    <3>5. CASE ~ c.ep
      BY <1>0, <1>2, <3>3, <3>4, <3>5
    <3>6. CASE c.ep /\ c.state # "LAST_ACK"
      BY <1>0, <1>2, <3>3, <3>4, <3>6 DEF StateStep
    <3>7. CASE c.ep /\ c.state = "LAST_ACK"
      <4>1. t = [c EXCEPT !.retr = DataRetries, !.lastAck = TRUE]
        BY <1>0, <3>7
      <4>2. Good(e, t) /\ Quiet(c, t) /\ t.ep /\ t.state = c.state /\ TimerOn(t)
        BY <3>3, <3>7, <4>1, LastAckStarted
      <4> QED BY <3>4, <3>7, <4>2, QuietTrans
    <3> QED BY <3>5, <3>6, <3>7
  <2> QED BY <2>5, <2>6
<1>5. CASE s.state # "ESTABLISHED" /\ s.shutdownSend
  <2> DEFINE r == SendEmptyPacket(s, "RST")
             x == WithState(r, "CLOSE_WAIT")
  <2>1. Base(e, r) /\ Quiet(s, r) /\ r.ep /\ r.state = s.state /\ r \in SocketType
    BY ResetBase DEF Good, Base
  <2>2. c = SendRST(w) /\ w.unread > 0
    BY <1>2, <1>5 DEF CloseOf
  <2>3. SendEmptyPacket(w, "RST") = x
    <3>1. \A a1, b1, c1, d1 : Segment("RST", a1, b1, c1, d1) = Segment("RST", 0, 0, 0, {})
      BY DEF Segment
    <3> DEFINE o == Append(s.out, Segment("RST", 0, 0, 0, {}))
    <3>2. SendEmptyPacket(w, "RST") = [w EXCEPT !.synCount = w.synCount, !.retx = w.retx, !.out = o]
      <4> DEFINE p == Append(w.out, Segment("RST", 0, 0, 0, {}))
      <4>1. SendEmptyPacket(w, "RST") = [w EXCEPT !.synCount = w.synCount, !.retx = w.retx, !.out = p]
        <5>1. w.ep
          BY <1>2
        <5> QED BY <3>1, <5>1 DEF SendEmptyPacket
      <4>2. p = o
        BY <1>2
      <4> HIDE DEF p, o
      <4> QED BY <4>1, <4>2
    <3>3. r = [s EXCEPT !.synCount = s.synCount, !.retx = s.retx, !.out = o]
      BY <3>1 DEF SendEmptyPacket
    <3> HIDE DEF o, r
    <3>4. x = [w EXCEPT !.synCount = w.synCount, !.retx = w.retx, !.out = o]
      BY <1>1, <3>3 DEF WithState, SocketType, w
    <3> QED BY <3>2, <3>4
  <2>4. c = DeallocateEndPoint(x)
    BY <2>2, <2>3 DEF SendRST
  <2> HIDE DEF c, r
  <2>5. c = DeallocateEndPoint([r EXCEPT !.state = "CLOSE_WAIT"])
    BY <2>4 DEF WithState
  <2>6. s.state \notin {"LAST_ACK", "CLOSED"}
    BY DEF Open
  <2>7. Good(e, c) /\ ~ c.ep /\ Quiet(r, c)
    BY <1>1, <2>1, <2>5, <2>6, Deallocated
  <2>8. c.state = "CLOSE_WAIT"
    BY <2>1, <2>5 DEF DeallocateEndPoint, NewSocket, SocketType
  <2>9. t = c
    BY <1>0, <2>8 DEF c
  <2> QED BY <2>1, <2>7, <2>8, <2>9, QuietTrans
<1> QED BY <1>4, <1>5

\* What the peer sent is explained by its socket.
LEMMA Incoming ==
    ASSUME NEW e, Env(e), NEW m \in e.A
    PROVE  /\ m \in Message /\ Carried(Peer(e.n), e.b, e.q, Past(e.s), m) /\ e.b.opened
           /\ m.ack <= e.q.rcvNxt /\ m.ack \in Nat /\ m.seq \in Nat /\ m.len \in {0, 1}
           /\ m.len = 1 => m.seq \in {1, 2} /\ m.seq <= e.b.wrote /\ (e.q.ep => m.seq < e.q.high)
<1>1. Carried(Peer(e.n), e.b, e.q, Past(e.s), m) /\ e.b.opened
  BY DEF Env, Direction
<1>2. m.ack <= e.q.rcvNxt
  BY DEF Env, Direction, Reports
<1>3. m \in Message /\ e.b.wrote \in {0, 1, 2}
  BY <1>1 DEF Carried, Env, AppType
<1>4. m.ack \in Nat /\ m.seq \in Nat /\ m.len \in {0, 1}
  BY <1>3, MessageFields
<1> QED BY <1>1, <1>2, <1>3, <1>4 DEF Carried

\* What a handler that receives leaves of the sending half.
Steady(s, t) ==
    /\ t.una = s.una /\ t.sacked \subseteq s.sacked /\ s.rcvNxt <= t.rcvNxt
    /\ t.gotFin = s.gotFin /\ t.finSeq = s.finSeq

LEMMA DataReceived ==
    ASSUME NEW e, Env(e), NEW s, Good(e, s), s.ep, TimerOn(s), Outs(s) = {},
           s.state \in Open \/ Finished(s),
           NEW m \in e.A, m.len = 1, SynRetries \in Nat, DataRetries \in Nat,
           NEW t, t = ReceivedData(s, m)
    PROVE  /\ Good(e, t) /\ Steady(s, t)
           /\ t.ep => TimerOn(t)
           /\ Finished(s) => Finished(t)
           /\ IF m.kind # "FIN" /\ ~ Finished(s) /\ Finished(t)
              THEN t.state \in {"CLOSE_WAIT", "LAST_ACK", "CLOSED"}
              ELSE /\ t.ep /\ t.state = s.state /\ t.shutdownSend = s.shutdownSend
                   /\ t.size = s.size /\ t.high = s.high /\ t.retx = s.retx /\ t.nxt = s.nxt
                   /\ \A x \in Outs(t) : x.kind # "FIN"
                   /\ m.seq < t.rcvNxt \/ m.seq \in t.held \/ (t.gotFin /\ t.finSeq <= m.seq)
<1> DEFINE b == AddToBuffer(s, m.seq)
<1>1. /\ m.seq \in {1, 2} /\ m.seq <= e.b.wrote /\ (e.q.ep => m.seq < e.q.high) /\ e.b.opened
  BY Incoming
<1>2. /\ Good(e, b) /\ Received(s, b) /\ Outs(b) = {}
      /\ b.gotFin = s.gotFin /\ b.finSeq = s.finSeq
      /\ s.rcvNxt < b.rcvNxt => b.unread > 0
      /\ Finished(s) => b = s
      /\ m.seq < b.rcvNxt \/ m.seq \in b.held \/ (b.gotFin /\ b.finSeq <= m.seq)
  BY <1>1, Added
<1>3. t = IF s.rcvNxt < b.rcvNxt /\ Finished(b) /\ m.kind # "FIN" THEN DoPeerClose(b)
          ELSE SendEmptyPacket(b, "ACK")
  BY DEF ReceivedData
<1> HIDE DEF b
<1>4. /\ b.ep /\ TimerOn(b) /\ b.state = s.state /\ s.rcvNxt \in Nat /\ b.rcvNxt \in Nat
      /\ s.finSeq \in Nat /\ s.rcvNxt <= b.rcvNxt
  <2>1. s \in SocketType /\ b \in SocketType
    BY <1>2 DEF Good, Base
  <2> QED BY <1>2, <2>1, SocketFields DEF Received, TimerOn
<1>5. CASE s.rcvNxt < b.rcvNxt /\ Finished(b) /\ m.kind # "FIN"
  <2>1. ~ Finished(s)
    BY <1>2, <1>4, <1>5
  <2>2. b.state \in Open /\ b.unread > 0 /\ \A x \in Outs(b) : x.kind # "FIN"
    BY <1>2, <1>4, <1>5, <2>1
  <2>3. Good(e, t) /\ Quiet(b, t) /\ (t.ep => TimerOn(t)) /\ t.state \in {"CLOSE_WAIT", "LAST_ACK", "CLOSED"}
    BY <1>2, <1>3, <1>4, <1>5, <2>2, PeerClosed
  <2>4. Finished(t)
    BY <1>5, <2>3 DEF Quiet, Finished
  <2>5. Steady(s, t)
    BY <1>2, <1>4, <2>3 DEF Steady, Quiet, Received
  <2> QED BY <1>5, <2>1, <2>3, <2>4, <2>5
<1>6. CASE ~ (s.rcvNxt < b.rcvNxt /\ Finished(b) /\ m.kind # "FIN")
  <2>1. t = SendEmptyPacket(b, "ACK")
    BY <1>3, <1>6
  <2>2. /\ Good(e, t) /\ Quiet(b, t) /\ t.ep = b.ep /\ t.state = b.state /\ TimerOn(t)
        /\ \A x \in Outs(t) : x \in Outs(b) \/ x.kind = "ACK"
        /\ t.size = b.size /\ t.shutdownSend = b.shutdownSend /\ t.high = b.high
        /\ t.retx = b.retx /\ t.nxt = b.nxt
    <3>1. Good(e, b) /\ b.ep /\ TimerOn(b)
      BY <1>2, <1>4
    <3>2. Good(e, t) /\ Quiet(b, t) /\ t.state = b.state /\ TimerOn(t)
      BY <2>1, <3>1, SentAck
    <3>3. t.ep = b.ep
      BY <2>1, <3>1, SentAck
    <3>4. \A x \in Outs(t) : x \in Outs(b) \/ x.kind = "ACK"
      BY <2>1, <3>1, SentAck
    <3>5. /\ t.size = b.size /\ t.shutdownSend = b.shutdownSend /\ t.high = b.high
          /\ t.retx = b.retx /\ t.nxt = b.nxt
      BY <2>1, <3>1, SentAck
    <3> QED BY <3>2, <3>3, <3>4, <3>5
  <2>3. Steady(s, t)
    BY <1>2, <1>4, <2>2 DEF Steady, Quiet, Received
  <2>4. (Finished(t) <=> Finished(b)) /\ t.held = b.held /\ t.rcvNxt = b.rcvNxt
        /\ t.gotFin = b.gotFin /\ t.finSeq = b.finSeq /\ t.ep
    BY <1>4, <2>2 DEF Quiet, Finished
  <2>5. Finished(b) /\ ~ Finished(s) => s.rcvNxt < b.rcvNxt
    BY <1>2, <1>4 DEF Finished
  <2>6. Finished(s) => Finished(b)
    BY <1>2
  <2>7. ~ (m.kind # "FIN" /\ ~ Finished(s) /\ Finished(t))
    BY <1>6, <2>4, <2>5
  <2>8. /\ t.state = s.state /\ t.shutdownSend = s.shutdownSend
        /\ t.size = s.size /\ t.high = s.high /\ t.retx = s.retx /\ t.nxt = s.nxt
    BY <1>2, <2>2 DEF Received
  <2>9. \A x \in Outs(t) : x.kind # "FIN"
    BY <1>2, <2>2
  <2>10. m.seq < t.rcvNxt \/ m.seq \in t.held \/ (t.gotFin /\ t.finSeq <= m.seq)
    BY <1>2, <2>4
  <2> QED BY <2>2, <2>3, <2>4, <2>6, <2>7, <2>8, <2>9, <2>10
<1> QED BY <1>5, <1>6

(***************************************************************************)
(* An acknowledgement.                                                     *)
(***************************************************************************)
\* t is s but for what its sender takes from an ACK.
Kept(s, t) ==
    /\ t \in SocketType /\ t.state = s.state /\ t.ep = s.ep /\ t.high = s.high
    /\ t.closeOnEmpty = s.closeOnEmpty /\ t.shutdownSend = s.shutdownSend
    /\ t.rcvNxt = s.rcvNxt /\ t.held = s.held /\ t.unread = s.unread
    /\ t.gotFin = s.gotFin /\ t.finSeq = s.finSeq /\ t.got = s.got
    /\ t.lastAck = s.lastAck /\ t.out = s.out

\* ReadOptions, and what ReceivedAck goes on with when the ACK is not too old.
Marked(s, m) ==
    [s EXCEPT !.sacked = @ \cup (m.sack \cap SentList(s)), !.lost = @ \ m.sack]

Taken(s, m) ==
    LET d == DiscardUpTo(Marked(s, m), m.ack)
    IN  IF s.una < m.ack THEN NewAck(d, m.ack)
        ELSE IF s.high < m.ack THEN [d EXCEPT !.nxt = m.ack] ELSE d

LEMMA SentListIs ==
    ASSUME NEW e, Env(e), NEW s, Good(e, s), s.ep
    PROVE  SentList(s) = s.una .. (s.high - 1)
<1>1. s.una \in Nat /\ s.size \in Nat /\ s.high \in Nat /\ e.a.wrote \in Nat /\ Line(e.a, s)
  BY Numbers DEF Good, Core, Sender
<1> DEFINE d == s.una + s.size
<1>2. d \in Int /\ s.high \in Int
  BY <1>1
<1>3. Min({s.high, d}) = IF s.high <= d THEN s.high ELSE d
  <2> HIDE DEF d
  <2> QED BY <1>2, MinOfTwo
<1>4. SentList(s) = s.una .. (Min({s.high, d}) - 1)
  BY DEF SentList, TailSequence
<1>5. s.high <= d
  BY <1>1 DEF Line
<1> HIDE DEF d
<1> QED BY <1>3, <1>4, <1>5

LEMMA MarkedFields ==
    ASSUME NEW s \in SocketType, NEW m \in Message, NEW u, u = Marked(s, m)
    PROVE  /\ Kept(s, u) /\ u.una = s.una /\ u.size = s.size /\ u.nxt = s.nxt /\ u.retx = s.retx
           /\ u.sacked = s.sacked \cup (m.sack \cap SentList(s)) /\ u.lost = s.lost \ m.sack
<1> DEFINE x == s.sacked \cup (m.sack \cap SentList(s))
           y == s.lost \ m.sack
<1>1. x \in SUBSET {2} /\ y \in SUBSET (1 .. 2)
  BY SocketFields, MessageFields
<1>2. u = [s EXCEPT !.sacked = x, !.lost = y]
  BY DEF Marked
<1> HIDE DEF x, y
<1>3. u \in SocketType
  BY <1>1, <1>2, ZenonT(40) DEF SocketType
<1> QED BY <1>2, <1>3 DEF Kept, SocketType, x, y

LEMMA DiscardFields ==
    ASSUME NEW s \in SocketType, NEW ack \in Nat, NEW t, t = DiscardUpTo(s, ack)
    PROVE  /\ Kept(s, t) /\ t.nxt = s.nxt /\ t.retx = s.retx
           /\ t.una = IF s.una <= ack THEN ack ELSE s.una
           /\ t.size = IF s.una + s.size <= ack THEN 0 ELSE s.una + s.size - ack
           /\ t.lost = {x \in s.lost : ack <= x} /\ t.sacked = {x \in s.sacked : ack <= x}
<1> DEFINE z == SizeFromSequence(s, ack)
           v == IF s.una <= ack THEN ack ELSE s.una
           x == {i \in s.lost : ack <= i}
           y == {i \in s.sacked : ack <= i}
<1>1. /\ z \in Nat /\ z = IF s.una + s.size <= ack THEN 0 ELSE s.una + s.size - ack
      /\ v = Max({s.una, ack}) /\ v \in Nat
  <2>1. s.una \in Nat /\ s.una \in Int /\ ack \in Int
    BY SocketFields
  <2> QED BY <2>1, SizeFrom, MaxOfTwo
<1>2. x \in SUBSET (1 .. 2) /\ y \in SUBSET {2}
  BY SocketFields
<1>3. t = [s EXCEPT !.size = z, !.una = v, !.lost = x, !.sacked = y]
  BY <1>1 DEF DiscardUpTo
<1> HIDE DEF z, v, x, y
<1>4. t \in SocketType
  <2> DEFINE u == [s EXCEPT !.size = z, !.una = v]
  <2>1. u \in SocketType
    BY <1>1, ZenonT(40) DEF SocketType
  <2>2. t = [u EXCEPT !.lost = x, !.sacked = y]
    BY <1>3 DEF SocketType
  <2> HIDE DEF u
  <2> QED BY <1>2, <2>1, <2>2, ZenonT(40) DEF SocketType
<1>5. /\ Kept(s, t) /\ t.nxt = s.nxt /\ t.retx = s.retx
      /\ t.una = v /\ t.size = z /\ t.lost = x /\ t.sacked = y
  BY <1>3, <1>4, ZenonT(40) DEF Kept, SocketType
<1> QED BY <1>1, <1>5 DEF v, x, y

LEMMA NewAckFields ==
    ASSUME NEW s \in SocketType, NEW ack \in Nat, DataRetries \in Nat, NEW t, t = NewAck(s, ack)
    PROVE  /\ Kept(s, t) /\ t.una = s.una /\ t.size = s.size /\ t.lost = s.lost /\ t.sacked = s.sacked
           /\ t.nxt = IF s.nxt <= ack THEN ack ELSE s.nxt
           /\ t.retx = IF s.size = 0 /\ s.state \notin {"FIN_WAIT_1", "CLOSING"} THEN "none" ELSE "RTO"
<1> DEFINE v == IF s.nxt <= ack THEN ack ELSE s.nxt
           x == IF s.size = 0 /\ s.state \notin {"FIN_WAIT_1", "CLOSING"} THEN "none" ELSE "RTO"
<1>1. v = Max({s.nxt, ack}) /\ v \in Nat
  <2>1. s.nxt \in Nat /\ s.nxt \in Int /\ ack \in Int
    BY SocketFields
  <2> QED BY <2>1, MaxOfTwo
<1>2. x \in {"none", "SYN", "SYNACK", "FIN", "RTO"} /\ DataRetries \in 0 .. DataRetries
      /\ 2 \in {1, 2}
  OBVIOUS
<1>3. t = [s EXCEPT !.retr = DataRetries, !.cwnd = 2, !.nxt = v, !.retx = x]
  BY <1>1 DEF NewAck
<1> HIDE DEF v, x
<1>4. t \in SocketType
  <2> DEFINE u == [s EXCEPT !.retr = DataRetries, !.cwnd = 2]
  <2>1. u \in SocketType
    BY <1>2 DEF SocketType
  <2>2. t = [u EXCEPT !.nxt = v, !.retx = x]
    BY <1>3 DEF SocketType
  <2> HIDE DEF u
  <2> QED BY <1>1, <1>2, <2>1, <2>2, ZenonT(40) DEF SocketType
<1>5. /\ Kept(s, t) /\ t.una = s.una /\ t.size = s.size /\ t.lost = s.lost /\ t.sacked = s.sacked
      /\ t.nxt = v /\ t.retx = x
  BY <1>3, <1>4, ZenonT(40) DEF Kept, SocketType
<1> QED BY <1>5 DEF v, x

LEMMA KeptBase ==
    ASSUME NEW e, Env(e), NEW s, Good(e, s), NEW t, Kept(s, t), s.una <= t.una, Outs(s) = {},
           Acked(e, t)
    PROVE  Base(e, t) /\ Outs(t) = {} /\ (FinOut(e.a, t) <=> FinOut(e.a, s))
<1>1. s \in SocketType /\ t \in SocketType /\ e.s \in SocketType /\ e.a \in AppType
  BY DEF Good, Base, Kept, Env
<1>2. (Finished(t) <=> Finished(s)) /\ Outs(t) = {}
  BY DEF Kept, Finished, Outs
<1>3. FinOut(e.a, t) <=> FinOut(e.a, s)
  BY DEF Kept, FinOut
<1>4. Grown(e.a, s, t)
  BY <1>1, <1>3, SocketFields DEF Kept, Grown, SentUpTo, Clean, Past, Early
<1>5. Grown(e.a, e.s, t)
  BY <1>1, <1>4, GrownTrans DEF Good, Base
<1>6. Counted(t) /\ (t.rcvNxt = 2 => NoJump(e.s)) /\ (~ e.b.opened => t.rcvNxt = 0)
  BY <1>2 DEF Good, Base, Counted, Kept
<1>7. Arrived(e.b, e.q, t)
  BY <1>2 DEF Good, Base, Arrived, Kept
<1> QED BY <1>1, <1>2, <1>3, <1>5, <1>6, <1>7 DEF Base

\* The ACKs on their way are for what was sent.
LEMMA InRange ==
    ASSUME NEW e, Env(e), NEW s, Good(e, s), s.ep, NEW m \in e.A
    PROVE  m.ack <= s.high \/ (m.ack = e.a.wrote + 2 /\ FinOut(e.a, s))
<1>1. /\ m.ack <= e.q.rcvNxt /\ m.ack \in Nat /\ e.q.rcvNxt \in Nat /\ e.a.wrote \in Nat
      /\ s.high \in Nat /\ e.s.ep
  <2>1. e.q.rcvNxt \in Nat
    BY SocketFields DEF Env
  <2> QED BY <2>1, Incoming, Numbers DEF Env
<1>2. Arrived(e.a, e.s, e.q)
  BY DEF Env, Direction
<1>3. /\ e.q.rcvNxt <= e.a.wrote + 2
      /\ e.q.rcvNxt = e.a.wrote + 2 => FinOut(e.a, e.s)
      /\ e.q.rcvNxt <= SentUpTo(e.s) \/ e.q.rcvNxt = e.a.wrote + 2
  BY <1>1, <1>2 DEF Arrived, Finished
<1>4. SentUpTo(e.s) <= SentUpTo(s) /\ (FinOut(e.a, e.s) => FinOut(e.a, s))
  BY DEF Good, Base, Grown
<1>5. SentUpTo(s) = s.high
  BY DEF Good, Core, SentUpTo
<1>6. SentUpTo(e.s) \in Nat
  BY SocketFields DEF SentUpTo, Env
<1>7. s.high = e.a.wrote + 1 \/ ~ FinOut(e.a, s)
  BY DEF FinOut
<1> QED BY <1>1, <1>3, <1>4, <1>5, <1>6, <1>7

Acking == Open \cup {"CLOSE_WAIT"}

LEMMA MarkedStep ==
    ASSUME NEW e, Env(e), NEW s, Good(e, s), s.ep, Outs(s) = {}, NEW m \in e.A,
           NEW u, u = Marked(s, m)
    PROVE  Good(e, u) /\ Outs(u) = {} /\ (TimerOn(s) => TimerOn(u))
<1>1. /\ Kept(s, u) /\ u.una = s.una /\ u.size = s.size /\ u.nxt = s.nxt /\ u.retx = s.retx
      /\ u.sacked = s.sacked \cup (m.sack \cap (s.una .. (s.high - 1))) /\ u.lost = s.lost \ m.sack
  <2>1. s \in SocketType /\ m \in Message
    BY Incoming DEF Good, Base
  <2>2. /\ Kept(s, u) /\ u.una = s.una /\ u.size = s.size /\ u.nxt = s.nxt /\ u.retx = s.retx
        /\ u.sacked = s.sacked \cup (m.sack \cap SentList(s)) /\ u.lost = s.lost \ m.sack
    BY <2>1, MarkedFields
  <2>3. SentList(s) = s.una .. (s.high - 1)
    BY SentListIs
  <2> QED BY <2>2, <2>3
<1>2. s.una <= u.una
  BY <1>1, Numbers
<1>3. Acked(e, u)
  BY <1>1 DEF Good, Base, Acked, Kept
<1>4. Base(e, u) /\ Outs(u) = {} /\ (FinOut(e.a, u) <=> FinOut(e.a, s))
  BY <1>1, <1>2, <1>3, KeptBase
<1>5. Sender(e.a, u)
  <2>1. Marks(u)
    BY <1>1 DEF Good, Core, Sender, Marks, Kept
  <2>2. Line(e.a, u)
    BY <1>1 DEF Good, Core, Sender, Line, Kept
  <2> QED BY <1>1, <1>4, <2>1, <2>2 DEF Good, Core, Sender, Kept
<1>6. TimerSafe(e.a, u) /\ Asked(e.a, u) /\ Receiver(u) /\ u.state \notin Handshake \cup {"CLOSED"}
  BY <1>1, <1>4 DEF Good, Core, TimerSafe, Asked, Receiver, Kept
<1>7. TimerOn(s) => TimerOn(u)
  BY <1>1 DEF TimerOn, Kept
<1>8. u.ep
  BY <1>1 DEF Kept
<1> QED BY <1>4, <1>5, <1>6, <1>7, <1>8 DEF Good, Core

LEMMA TakenStep ==
    ASSUME NEW e, Env(e), NEW s, Good(e, s), s.ep, TimerOn(s), Outs(s) = {}, NEW m \in e.A,
           s.state \in Acking, s.una <= m.ack, m.ack = e.a.wrote + 2 => e.finAck,
           DataRetries \in Nat, NEW t, t = Taken(s, m)
    PROVE  Good(e, t) /\ Outs(t) = {} /\ TimerOn(t) /\ Kept(s, t) /\ t.una = m.ack
<1> DEFINE u == Marked(s, m)
           d == DiscardUpTo(u, m.ack)
<1>1. /\ s \in SocketType /\ s.una \in Nat /\ s.size \in Nat /\ s.nxt \in Nat /\ s.high \in Nat
      /\ e.a.wrote \in Nat /\ 1 <= s.una /\ s.una <= s.nxt /\ m.ack \in Nat /\ m.ack <= e.q.rcvNxt
      /\ s.lost \subseteq 1 .. 2 /\ s.sacked \subseteq {2} /\ m \in Message
  BY Numbers, Incoming, SocketFields
<1>2. /\ u \in SocketType /\ Kept(s, u) /\ u.una = s.una /\ u.size = s.size /\ u.nxt = s.nxt /\ u.retx = s.retx
      /\ u.sacked = s.sacked \cup (m.sack \cap (s.una .. (s.high - 1))) /\ u.lost = s.lost \ m.sack
  <2>1. SentList(s) = s.una .. (s.high - 1)
    BY SentListIs
  <2> HIDE DEF u
  <2>2. /\ Kept(s, u) /\ u.una = s.una /\ u.size = s.size /\ u.nxt = s.nxt /\ u.retx = s.retx
        /\ u.sacked = s.sacked \cup (m.sack \cap SentList(s)) /\ u.lost = s.lost \ m.sack
    BY <1>1, MarkedFields DEF u
  <2>3. u \in SocketType
    BY <2>2 DEF Kept
  <2> QED BY <2>1, <2>2, <2>3
<1> HIDE DEF u
<1>3. /\ d \in SocketType /\ Kept(u, d) /\ d.nxt = u.nxt /\ d.retx = u.retx /\ d.una = m.ack
      /\ d.size = IF u.una + u.size <= m.ack THEN 0 ELSE u.una + u.size - m.ack
      /\ d.lost = {x \in u.lost : m.ack <= x} /\ d.sacked = {x \in u.sacked : m.ack <= x}
  <2> HIDE DEF d
  <2>1. /\ Kept(u, d) /\ d.nxt = u.nxt /\ d.retx = u.retx
        /\ d.una = IF u.una <= m.ack THEN m.ack ELSE u.una
        /\ d.size = IF u.una + u.size <= m.ack THEN 0 ELSE u.una + u.size - m.ack
        /\ d.lost = {x \in u.lost : m.ack <= x} /\ d.sacked = {x \in u.sacked : m.ack <= x}
    BY <1>1, <1>2, DiscardFields DEF d
  <2>2. d \in SocketType /\ u.una <= m.ack
    BY <1>2, <2>1 DEF Kept
  <2> QED BY <2>1, <2>2
<1> HIDE DEF d
<1>4. t = IF s.una < m.ack THEN NewAck(d, m.ack)
          ELSE IF s.high < m.ack THEN [d EXCEPT !.nxt = m.ack] ELSE d
  BY DEF Taken, d, u
<1>5. m.ack <= s.high \/ (m.ack = e.a.wrote + 2 /\ FinOut(e.a, s))
  BY InRange
<1>6. Line(e.a, s) /\ Marks(s) /\ (s.state = "FIN_WAIT_2" => s.una = e.a.wrote + 2)
  BY DEF Good, Core, Sender
<1>7. /\ Kept(s, t) /\ t.una = m.ack /\ t.size = d.size /\ t.lost = d.lost /\ t.sacked = d.sacked
      /\ t.nxt = IF s.nxt <= m.ack THEN m.ack ELSE s.nxt
      /\ t.retx = IF s.una < m.ack
                  THEN IF t.size = 0 /\ s.state # "FIN_WAIT_1" THEN "none" ELSE "RTO"
                  ELSE s.retx
  <2>1. Kept(s, d) /\ d.nxt = s.nxt /\ d.retx = s.retx
    BY <1>2, <1>3 DEF Kept
  <2>2. CASE s.una < m.ack
    <3>1. t = NewAck(d, m.ack)
      BY <1>4, <2>2
    <3>2. /\ Kept(d, t) /\ t.una = d.una /\ t.size = d.size /\ t.lost = d.lost /\ t.sacked = d.sacked
          /\ t.nxt = IF d.nxt <= m.ack THEN m.ack ELSE d.nxt
          /\ t.retx = IF d.size = 0 /\ d.state \notin {"FIN_WAIT_1", "CLOSING"} THEN "none" ELSE "RTO"
      BY <1>1, <1>3, <3>1, NewAckFields
    <3>3. Kept(s, t) /\ d.state = s.state
      BY <2>1, <3>2 DEF Kept
    <3>4. s.state # "CLOSING"
      BY DEF Acking, Open
    <3> QED BY <1>3, <2>1, <2>2, <3>2, <3>3, <3>4
  <2>3. CASE ~ (s.una < m.ack)
    <3>1. m.ack = s.una
      BY <1>1, <2>3
    <3>2. s.high < m.ack => s.nxt = m.ack
      BY <1>1, <1>6, <3>1 DEF Line
    <3>3. t = d
      <4>1. s.high < m.ack => d = [d EXCEPT !.nxt = m.ack]
        BY <1>3, <2>1, <3>2 DEF SocketType
      <4> QED BY <1>4, <2>3, <4>1
    <3>4. s.nxt = IF s.nxt <= m.ack THEN m.ack ELSE s.nxt
      BY <1>1, <3>1
    <3> QED BY <1>3, <2>1, <2>3, <3>3, <3>4
  <2> QED BY <2>2, <2>3
<1>8. /\ t.state = s.state /\ t.ep /\ t.high = s.high /\ t.closeOnEmpty = s.closeOnEmpty
      /\ t.shutdownSend = s.shutdownSend /\ t.rcvNxt = s.rcvNxt /\ t.held = s.held
      /\ t.unread = s.unread /\ t.got = s.got /\ t.lastAck = s.lastAck
  BY <1>7 DEF Kept
<1>9. FinOut(e.a, t) <=> FinOut(e.a, s)
  BY <1>8 DEF FinOut
<1>10. Line(e.a, t)
  <2>1. CASE m.ack <= s.high
    <3>1. s.una + s.size = e.a.wrote + 1 /\ s.nxt <= s.high /\ s.high <= e.a.wrote + 1
      BY <1>1, <1>6, <2>1 DEF Line
    <3>2. t.una + t.size = e.a.wrote + 1
      BY <1>1, <1>2, <1>3, <1>7, <2>1, <3>1
    <3> QED BY <1>1, <1>7, <1>8, <2>1, <3>1, <3>2 DEF Line
  <2>2. CASE ~ (m.ack <= s.high)
    <3>1. m.ack = e.a.wrote + 2 /\ s.high = e.a.wrote + 1 /\ s.state # "ESTABLISHED"
      BY <1>5, <2>2 DEF FinOut
    <3>2. t.size = 0 /\ t.nxt = m.ack
      BY <1>1, <1>2, <1>3, <1>6, <1>7, <3>1 DEF Line
    <3>3. s.state # "LAST_ACK"
      BY DEF Acking, Open
    <3> QED BY <1>7, <1>8, <3>1, <3>2, <3>3 DEF Line
  <2> QED BY <2>1, <2>2
<1>11. Marks(t)
  <2>1. /\ t.lost = {x \in s.lost : x \notin m.sack /\ m.ack <= x}
        /\ t.sacked \subseteq {x \in s.sacked : m.ack <= x} \cup {x \in m.sack : m.ack <= x /\ x <= s.high - 1}
    BY <1>2, <1>3, <1>7
  <2>2. \A x \in m.sack : x \in Nat
    BY <1>1, MessageFields
  <2> QED BY <1>1, <1>6, <1>7, <1>8, <2>1, <2>2 DEF Marks
<1>12. m.ack = e.a.wrote + 2 => FinOut(e.a, s)
  BY <1>1, <1>5, <1>6 DEF Line
<1>13. Sender(e.a, t)
  <2>1. t.state = "FIN_WAIT_2" => t.una = e.a.wrote + 2
    <3>1. m.ack <= e.a.wrote + 2
      BY <1>1, <1>5, <1>6 DEF Line
    <3> QED BY <1>1, <1>6, <1>7, <1>8, <3>1
  <2>2. t.state \notin {"ESTABLISHED", "CLOSE_WAIT"} => FinOut(e.a, t)
    BY <1>8, <1>9 DEF Good, Core, Sender
  <2>3. t.una = e.a.wrote + 2 => FinOut(e.a, t)
    BY <1>7, <1>9, <1>12
  <2>4. t.state \in {"FIN_WAIT_1", "FIN_WAIT_2"} => e.a.closed \/ t.shutdownSend
    BY <1>8 DEF Good, Core, Sender
  <2>5. t.state # "LAST_ACK"
    BY <1>8 DEF Acking, Open
  <2> QED BY <1>10, <1>11, <2>1, <2>2, <2>3, <2>4, <2>5 DEF Sender
<1>14. TimerSafe(e.a, t) /\ TimerOn(t)
  <2>1. s.state = "FIN_WAIT_1" => FinOut(e.a, s)
    BY DEF Good, Core, Sender
  <2>2. s.state \notin {"CLOSING", "LAST_ACK", "TIME_WAIT"}
    BY DEF Acking, Open
  <2>3. TimerSafe(e.a, s)
    BY DEF Good, Core
  <2>4. CASE s.una < m.ack
    <3>1. t.retx = IF t.size = 0 /\ s.state # "FIN_WAIT_1" THEN "none" ELSE "RTO"
      BY <1>7, <2>4
    <3>2. t.una < t.high => t.size # 0
      BY <1>1, <1>7, <1>8, <1>10, <2>4 DEF Line
    <3> QED BY <1>8, <1>9, <2>1, <2>2, <3>1, <3>2 DEF TimerSafe, TimerOn
  <2>5. CASE ~ (s.una < m.ack)
    <3>1. m.ack = s.una /\ t.retx = s.retx
      BY <1>1, <1>7, <2>5
    <3>2. t.size = s.size /\ t.nxt = s.nxt
      BY <1>1, <1>2, <1>3, <1>7, <3>1
    <3> QED BY <1>7, <1>8, <1>9, <2>3, <3>1, <3>2 DEF TimerSafe, TimerOn
  <2> QED BY <2>4, <2>5
<1>15. Acked(e, t)
  <2>1. t.una <= e.q.rcvNxt /\ t.una \in {x.ack : x \in e.A}
    BY <1>1, <1>7
  <2>2. \A x \in t.sacked : x \in e.s.sacked \/ \E y \in e.A : x \in y.sack
    <3>1. \A x \in s.sacked : x \in e.s.sacked \/ \E y \in e.A : x \in y.sack
      BY DEF Good, Base, Acked
    <3>2. \A x \in t.sacked : x \in s.sacked \/ x \in m.sack
      BY <1>2, <1>3, <1>7
    <3> QED BY <3>1, <3>2
  <2>3. t.una = e.a.wrote + 2 => t.retx # "FIN" \/ Past(e.q)
    <3>1. s.una < m.ack => t.retx # "FIN"
      BY <1>7
    <3>2. ~ (s.una < m.ack) => t.retx = s.retx /\ m.ack = s.una
      BY <1>1, <1>7
    <3>3. s.una = e.a.wrote + 2 /\ s.retx = "FIN" => Past(e.q)
      BY DEF Good, Base, Acked
    <3> QED BY <1>7, <3>1, <3>2, <3>3
  <2>4. t.state # "CLOSING"
    BY <1>8 DEF Acking, Open
  <2> QED BY <1>7, <2>1, <2>2, <2>3, <2>4 DEF Acked
<1>16. Base(e, t) /\ Outs(t) = {}
  <2>1. s.una <= t.una
    BY <1>7
  <2> QED BY <1>7, <1>15, <2>1, KeptBase
<1>17. Asked(e.a, t) /\ Receiver(t) /\ t.state \notin Handshake \cup {"CLOSED"}
  BY <1>8 DEF Good, Core, Asked, Receiver
<1> QED BY <1>7, <1>8, <1>13, <1>14, <1>16, <1>17 DEF Good, Core

WithData(s, m) == IF m.len > 0 THEN ReceivedData(s, m) ELSE s

\* The data of segment m, if it has any.
LEMMA WithDataStep ==
    ASSUME NEW e, Env(e), NEW s, Good(e, s), s.ep, TimerOn(s), Outs(s) = {},
           s.state \in Open \/ Finished(s),
           NEW m \in e.A, SynRetries \in Nat, DataRetries \in Nat,
           NEW t, t = WithData(s, m)
    PROVE  /\ Good(e, t) /\ Steady(s, t)
           /\ t.ep => TimerOn(t)
           /\ Finished(s) => Finished(t)
           /\ IF m.kind # "FIN" /\ ~ Finished(s) /\ Finished(t)
              THEN t.state \in {"CLOSE_WAIT", "LAST_ACK", "CLOSED"}
              ELSE /\ t.ep /\ t.state = s.state /\ t.size = s.size /\ t.retx = s.retx
                   /\ \A x \in Outs(t) : x.kind # "FIN"
                   /\ m.len = 1 => m.seq < t.rcvNxt \/ m.seq \in t.held \/ (t.gotFin /\ t.finSeq <= m.seq)
<1>1. m.len \in {0, 1}
  BY Incoming
<1>2. CASE m.len = 1
  <2>1. t = ReceivedData(s, m)
    BY <1>2 DEF WithData
  <2>2. Good(e, t) /\ Steady(s, t) /\ (t.ep => TimerOn(t)) /\ (Finished(s) => Finished(t))
    BY <1>2, <2>1, DataReceived
  <2>3. m.kind # "FIN" /\ ~ Finished(s) /\ Finished(t) => t.state \in {"CLOSE_WAIT", "LAST_ACK", "CLOSED"}
    BY <1>2, <2>1, DataReceived
  <2>4. ~ (m.kind # "FIN" /\ ~ Finished(s) /\ Finished(t)) =>
          /\ t.ep /\ t.state = s.state /\ t.size = s.size /\ t.retx = s.retx
          /\ \A x \in Outs(t) : x.kind # "FIN"
          /\ m.seq < t.rcvNxt \/ m.seq \in t.held \/ (t.gotFin /\ t.finSeq <= m.seq)
    BY <1>2, <2>1, DataReceived
  <2> QED BY <2>2, <2>3, <2>4
<1>3. CASE m.len = 0
  <2>1. t = s
    BY <1>3 DEF WithData
  <2>2. Steady(s, s)
    <3>1. s.rcvNxt \in Nat
      BY Numbers
    <3> QED BY <3>1 DEF Steady
  <2> QED BY <1>3, <2>1, <2>2
<1> QED BY <1>1, <1>2, <1>3

LEMMA AckReceived ==
    ASSUME NEW e, Env(e), NEW s, Good(e, s), s.ep, TimerOn(s), Outs(s) = {},
           s.state \in Open \/ (s.state = "CLOSE_WAIT" /\ Finished(s)),
           NEW m \in e.A, m.ack = e.a.wrote + 2 => e.finAck, SynRetries \in Nat, DataRetries \in Nat,
           NEW t, t = ReceivedAck(s, m)
    PROVE  /\ Good(e, t) /\ m.ack <= t.una /\ t.una \in {s.una, m.ack}
           /\ s.rcvNxt <= t.rcvNxt /\ t.gotFin = s.gotFin /\ t.finSeq = s.finSeq
           /\ t.ep => TimerOn(t)
           /\ Finished(s) => Finished(t)
           /\ IF m.kind # "FIN" /\ ~ Finished(s) /\ Finished(t)
              THEN t.state \in {"CLOSE_WAIT", "LAST_ACK", "CLOSED"}
              ELSE /\ t.ep /\ StateStep(s, t)
                   /\ m.len = 1 => m.seq < t.rcvNxt \/ m.seq \in t.held \/ (t.gotFin /\ t.finSeq <= m.seq)
<1>1. /\ s.una \in Nat /\ m.ack \in Nat /\ s.state \in Acking /\ s.rcvNxt \in Nat
  BY Numbers, Incoming DEF Acking
<1> DEFINE Start(v) == /\ Good(e, v) /\ v.ep /\ TimerOn(v) /\ Outs(v) = {} /\ v.state = s.state
                       /\ v.rcvNxt = s.rcvNxt /\ v.gotFin = s.gotFin /\ v.finSeq = s.finSeq
                       /\ v.una \in {s.una, m.ack} /\ m.ack <= v.una
           Result(t0) ==
             /\ Good(e, t0) /\ m.ack <= t0.una /\ t0.una \in {s.una, m.ack}
             /\ s.rcvNxt <= t0.rcvNxt /\ t0.gotFin = s.gotFin /\ t0.finSeq = s.finSeq
             /\ t0.ep => TimerOn(t0)
             /\ Finished(s) => Finished(t0)
             /\ IF m.kind # "FIN" /\ ~ Finished(s) /\ Finished(t0)
                THEN t0.state \in {"CLOSE_WAIT", "LAST_ACK", "CLOSED"}
                ELSE /\ t0.ep /\ StateStep(s, t0)
                     /\ m.len = 1 => m.seq < t0.rcvNxt \/ m.seq \in t0.held \/ (t0.gotFin /\ t0.finSeq <= m.seq)
<1>2. ASSUME NEW v, Start(v) PROVE Result(WithData(v, m))
  <2> DEFINE x == WithData(v, m)
  <2>1. Finished(v) <=> Finished(s)
    BY <1>2 DEF Finished
  <2>2. Good(e, v) /\ v.ep /\ TimerOn(v) /\ Outs(v) = {} /\ (v.state \in Open \/ Finished(v))
    BY <1>2, <2>1
  <2> HIDE DEF x
  <2>3. Good(e, x) /\ Steady(v, x) /\ (x.ep => TimerOn(x)) /\ (Finished(v) => Finished(x))
    BY <2>2, WithDataStep DEF x
  <2>4. m.kind # "FIN" /\ ~ Finished(v) /\ Finished(x) => x.state \in {"CLOSE_WAIT", "LAST_ACK", "CLOSED"}
    BY <2>2, WithDataStep DEF x
  <2>5. ~ (m.kind # "FIN" /\ ~ Finished(v) /\ Finished(x)) =>
          /\ x.ep /\ x.state = v.state
          /\ m.len = 1 => m.seq < x.rcvNxt \/ m.seq \in x.held \/ (x.gotFin /\ x.finSeq <= m.seq)
    BY <2>2, WithDataStep DEF x
  <2>6. Result(x)
    BY <1>2, <2>1, <2>3, <2>4, <2>5 DEF Steady, StateStep
  <2> QED BY <2>6 DEF x
<1>3. ASSUME NEW x, Result(x) PROVE Result(SendPendingData(x))
  <2> DEFINE y == SendPendingData(x)
  <2> HIDE DEF y
  <2>1. Good(e, x)
    BY <1>3
  <2>2. Good(e, y) /\ Quiet(x, y)
    BY <2>1, SentPending DEF y
  <2>3. y.ep = x.ep
    BY <2>1, SentPending DEF y
  <2>4. StateStep(x, y)
    BY <2>1, SentPending DEF y
  <2>5. TimerOn(x) => TimerOn(y)
    BY <2>1, SentPending DEF y
  <2>6. /\ (Finished(y) <=> Finished(x)) /\ y.una = x.una /\ y.rcvNxt = x.rcvNxt
        /\ y.gotFin = x.gotFin /\ y.finSeq = x.finSeq /\ (y.ep => y.held = x.held)
    BY <2>2 DEF Quiet, Finished
  <2>7. StateStep(s, x) => StateStep(s, y)
    BY <2>4 DEF StateStep
  <2>8. x.state \in {"CLOSE_WAIT", "LAST_ACK", "CLOSED"} => y.state \in {"CLOSE_WAIT", "LAST_ACK", "CLOSED"}
    BY <2>4 DEF StateStep
  <2>9. Result(y)
    BY <1>3, <2>2, <2>3, <2>5, <2>6, <2>7, <2>8
  <2> QED BY <2>9 DEF y
<1>4. CASE m.ack < s.una
  <2> DEFINE u == Marked(s, m)
  <2>1. t = WithData(u, m)
    BY <1>4 DEF ReceivedAck, Marked, WithData
  <2>2. Good(e, u) /\ Outs(u) = {} /\ TimerOn(u)
    BY MarkedStep
  <2>3. Kept(s, u) /\ u.una = s.una
    BY Incoming, MarkedFields DEF Good, Base
  <2> HIDE DEF u
  <2>4. Start(u)
    BY <1>1, <1>4, <2>2, <2>3 DEF Kept
  <2> HIDE DEF Start, Result
  <2>5. Result(t)
    BY <1>2, <2>1, <2>4
  <2> QED BY <2>5 DEF Result
<1>5. CASE ~ (m.ack < s.una)
  <2> DEFINE p == Taken(s, m)
  <2>1. t = SendPendingData(WithData(p, m))
    BY <1>5 DEF ReceivedAck, Marked, Taken, WithData
  <2> HIDE DEF p
  <2>2. s.una <= m.ack
    BY <1>1, <1>5
  <2>3. Good(e, p) /\ Outs(p) = {} /\ TimerOn(p) /\ Kept(s, p) /\ p.una = m.ack
    BY <1>1, <2>2, TakenStep DEF p
  <2>4. Start(p)
    BY <1>1, <2>3 DEF Kept
  <2> HIDE DEF Start, Result
  <2>5. Result(t)
    BY <1>2, <1>3, <2>1, <2>4
  <2> QED BY <2>5 DEF Result
<1> QED BY <1>4, <1>5

(***************************************************************************)
(* Before and after a handler.                                             *)
(***************************************************************************)
LEMMA StartBase ==
    ASSUME NEW e, Env(e)
    PROVE  Base(e, e.s) /\ Outs(e.s) = {}
<1>1. /\ e.s \in SocketType /\ e.s.ep /\ e.s.out = << >> /\ Counted(e.s)
      /\ Direction(e.n, e.a, e.s, e.q, e.B, e.A) /\ Direction(Peer(e.n), e.b, e.q, e.s, e.A, e.B)
  BY DEF Env, Local
<1>2. Outs(e.s) = {}
  BY <1>1 DEF Outs
<1>3. Grown(e.a, e.s, e.s)
  <2>1. SentUpTo(e.s) \in Nat
    BY <1>1, SocketFields DEF SentUpTo
  <2> QED BY <1>1, <2>1, SocketFields DEF Grown
<1>4. Arrived(e.b, e.q, e.s) /\ (~ e.b.opened => e.s.rcvNxt = 0)
  BY <1>1 DEF Direction
<1>5. Acked(e, e.s)
  BY <1>1 DEF Direction, Reports, Acked
<1>6. e.s.rcvNxt = 2 => NoJump(e.s)
  BY DEF NoJump
<1> QED BY <1>1, <1>2, <1>3, <1>4, <1>5, <1>6 DEF Base

LEMMA StartGood ==
    ASSUME NEW e, Env(e), e.s.state \notin Handshake
    PROVE  /\ Good(e, e.s) /\ TimerOn(e.s) /\ Phase(e.s) /\ Outs(e.s) = {} /\ e.s.ep
           /\ e.s.una = e.a.wrote + 2 /\ (e.s.retx = "FIN" \/ e.s.state \in {"FIN_WAIT_1", "CLOSING"})
                 => Past(e.q)
<1>1. e.s.ep /\ Synced(e.a, e.s) /\ Phase(e.s)
  BY DEF Env, Local
<1>2. Core(e.a, e.s) /\ TimerOn(e.s)
  BY <1>1 DEF Synced, Core, Timer, TimerSafe, TimerOn
<1>3. e.s.una = e.a.wrote + 2 /\ (e.s.retx = "FIN" \/ e.s.state \in {"FIN_WAIT_1", "CLOSING"})
                 => Past(e.q)
  BY <1>1 DEF Env, Direction, Reports
<1> QED BY <1>1, <1>2, <1>3, StartBase DEF Good

LEMMA Finishing ==
    ASSUME NEW e, NEW t, Good(e, t),
           t.ep => /\ TimerOn(t) /\ Phase(t)
                   /\ t.una = e.a.wrote + 2 /\ t.state = "FIN_WAIT_1" => Past(e.q)
    PROVE  Final(e, t)
BY DEF Good, Final, Core, Synced, Timer, TimerSafe, TimerOn

\* A SYN resets the window.
LEMMA WindowReset ==
    ASSUME NEW e, Env(e), NEW t, t = [e.s EXCEPT !.cwnd = 2]
    PROVE  Alike(e.s, t) /\ t.unread = e.s.unread /\ t.sendPending = e.s.sendPending
           /\ t.closeOnEmpty = e.s.closeOnEmpty /\ t.shutdownSend = e.s.shutdownSend
           /\ t.lastAck = e.s.lastAck /\ t.retr = e.s.retr /\ Outs(t) = Outs(e.s)
<1>1. e.s \in SocketType
  BY DEF Env
<1>2. t \in SocketType
  BY <1>1 DEF SocketType
<1>3. /\ t.state = e.s.state /\ t.ep = e.s.ep /\ t.una = e.s.una /\ t.size = e.s.size
      /\ t.nxt = e.s.nxt /\ t.high = e.s.high /\ t.lost = e.s.lost /\ t.sacked = e.s.sacked
      /\ t.rcvNxt = e.s.rcvNxt /\ t.held = e.s.held /\ t.gotFin = e.s.gotFin
      /\ t.finSeq = e.s.finSeq /\ t.got = e.s.got /\ t.retx = e.s.retx /\ t.out = e.s.out
  BY <1>1 DEF SocketType
<1>4. /\ t.unread = e.s.unread /\ t.sendPending = e.s.sendPending
      /\ t.closeOnEmpty = e.s.closeOnEmpty /\ t.shutdownSend = e.s.shutdownSend
      /\ t.lastAck = e.s.lastAck /\ t.retr = e.s.retr
  BY <1>1 DEF SocketType
<1> QED BY <1>2, <1>3, <1>4 DEF Alike, Outs

(***************************************************************************)
(* The handlers of a segment.                                              *)
(***************************************************************************)
LEMMA PeerCloseStep ==
    ASSUME NEW e, Env(e), NEW s, Good(e, s), s.ep, TimerOn(s), Outs(s) = {},
           s.state = "ESTABLISHED", ~ Finished(s), ~ Past(e.s),
           NEW m \in e.A, m.kind = "FIN", SynRetries \in Nat, DataRetries \in Nat,
           NEW t, t = PeerClose(s, m)
    PROVE  /\ Good(e, t) /\ (t.ep => TimerOn(t))
           /\ Phase(t) /\ t.state \in {"ESTABLISHED", "CLOSE_WAIT", "LAST_ACK", "CLOSED"}
<1> DEFINE f == SetFinSequence(s, m.seq + m.len)
           d == WithData(f, m)
<1>0. /\ m \in Message /\ Carried(Peer(e.n), e.b, e.q, Past(e.s), m) /\ e.b.opened
      /\ m.seq \in Nat /\ m.len \in {0, 1} /\ m.seq + m.len \in Nat /\ e.b.wrote \in Nat
  BY Incoming DEF Env, AppType
<1>1. /\ e.b.wrote <= m.seq + m.len /\ m.seq + m.len <= e.b.wrote + 1 /\ Ended(e.b)
      /\ e.q.ep => FinOut(e.b, e.q)
      /\ Clean(e.q) => m.seq + m.len = e.b.wrote + 1
  BY <1>0 DEF Carried
<1>2. /\ Good(e, f) /\ Received(s, f) /\ Outs(f) = Outs(s)
  BY <1>0, <1>1, FinSet
<1>3. Phase(s)
  BY DEF Phase
<1>4. t = IF m.seq < s.rcvNxt \/ (s.gotFin /\ s.finSeq < m.seq) THEN s
          ELSE IF Finished(d) THEN DoPeerClose(d) ELSE d
  BY <1>0 DEF PeerClose, WithData
<1>5. f.ep /\ f.state = "ESTABLISHED" /\ TimerOn(f) /\ Outs(f) = {} /\ f.state \in Open
  BY <1>2 DEF Received, TimerOn, Open
<1> HIDE DEF f
<1>6. /\ Good(e, d) /\ (d.ep => TimerOn(d)) /\ d.ep /\ d.state = f.state
      /\ \A x \in Outs(d) : x.kind # "FIN"
  BY <1>2, <1>5, WithDataStep
<1>7. d.ep /\ TimerOn(d) /\ d.state = "ESTABLISHED" /\ d.state \in Open
  BY <1>5, <1>6 DEF Open
<1> HIDE DEF d
<1>8. CASE t = s
  BY <1>8, <1>3
<1>9. CASE t = d /\ ~ Finished(d)
  BY <1>9, <1>6, <1>7 DEF Phase
<1>10. CASE t = DoPeerClose(d) /\ Finished(d)
  <2>1. /\ Good(e, t) /\ Quiet(d, t) /\ (t.ep => TimerOn(t))
        /\ t.state \in {"CLOSE_WAIT", "LAST_ACK", "CLOSED"}
    BY <1>10, <1>6, <1>7, PeerClosed
  <2>2. Finished(t)
    BY <2>1, <1>10 DEF Quiet, Finished
  <2> QED BY <2>1, <2>2 DEF Phase
<1> QED BY <1>4, <1>8, <1>9, <1>10

LEMMA EstablishedStep ==
    ASSUME NEW e, Env(e), NEW s, Good(e, s), s.ep, TimerOn(s), Outs(s) = {},
           s.state = "ESTABLISHED", Phase(s), ~ Past(e.s),
           NEW m \in e.A, m.ack = e.a.wrote + 2 => e.finAck, SynRetries \in Nat, DataRetries \in Nat,
           NEW t, t = ProcessEstablished(s, m)
    PROVE  Final(e, t)
<1>1. m \in Message /\ m.kind \in Kind /\ m.ack \in Nat
  BY Incoming, MessageFields
<1>2. /\ ~ Finished(s) /\ s.state \in Open /\ Base(e, s) /\ s \in SocketType
      /\ Sender(e.a, s) /\ s.high \in Nat /\ s.una \in Nat /\ e.a.wrote \in Nat
  BY SocketFields DEF Phase, Open, Good, Base, Core, Env, AppType
<1>3. s.una # e.a.wrote + 2 /\ s.high <= e.a.wrote + 1
  BY <1>2 DEF Sender, FinOut, Line
<1>4. CASE t = s
  BY <1>4, Finishing
<1>5. CASE t = SendEmptyPacket(s, "ACK")
  <2>1. Good(e, t) /\ Quiet(s, t) /\ t.ep = s.ep /\ t.state = s.state /\ TimerOn(t)
    BY <1>5, SentAck, ZenonT(40)
  <2>2. Phase(t)
    BY <2>1 DEF Quiet, Phase, Finished
  <2> QED BY <2>1, <2>2, Finishing
<1>6. CASE m.kind = "ACK" /\ ~ s.high < m.ack /\ t = ReceivedAck(s, m)
  <2>0. s.state \in Open \/ (s.state = "CLOSE_WAIT" /\ Finished(s))
    BY <1>2
  <2>1. /\ Good(e, t) /\ t.una \in {s.una, m.ack}
        /\ t.ep => TimerOn(t)
    BY <1>6, <2>0, AckReceived
  <2>2. IF m.kind # "FIN" /\ ~ Finished(s) /\ Finished(t)
               THEN t.state \in {"CLOSE_WAIT", "LAST_ACK", "CLOSED"}
               ELSE t.ep /\ StateStep(s, t)
    BY <1>6, <2>0, AckReceived
  <2>3. Phase(t)
    BY <2>2, <1>6, <1>2 DEF Phase, StateStep
  <2>4. t.una # e.a.wrote + 2
    BY <2>1, <1>1, <1>2, <1>3, <1>6
  <2> QED BY <2>1, <2>3, <2>4, Finishing
<1>7. CASE m.kind = "FIN" /\ t = PeerClose(s, m)
  <2>1. /\ Good(e, t) /\ (t.ep => TimerOn(t))
        /\ Phase(t) /\ t.state \in {"ESTABLISHED", "CLOSE_WAIT", "LAST_ACK", "CLOSED"}
    BY <1>2, <1>7, PeerCloseStep
  <2> QED BY <2>1, Finishing
<1>8. CASE t = CloseAndNotify(s)
  <2>1. t \in {CloseAndNotify(s), DeallocateEndPoint(s)}
    BY <1>8
  <2>2. Half(e.a, s)
    BY <1>2, HalfOf
  <2>3. Good(e, t) /\ ~ t.ep
    BY <2>1, <2>2, <1>2, Closed
  <2> QED BY <2>3, Finishing
<1>9. \/ t = s \/ t = SendEmptyPacket(s, "ACK")
      \/ m.kind = "ACK" /\ ~ s.high < m.ack /\ t = ReceivedAck(s, m)
      \/ m.kind = "FIN" /\ t = PeerClose(s, m)
      \/ t = CloseAndNotify(s)
  BY <1>1, <1>2 DEF ProcessEstablished, Kind
<1> QED BY <1>4, <1>5, <1>6, <1>7, <1>8, <1>9

\* The state of s becomes z, when our FIN is acknowledged or that of the peer is in order.
LEMMA WaitOver ==
    ASSUME NEW e, Env(e), NEW s, Good(e, s), s.ep, TimerOn(s), NEW z,
           \/ s.state = "FIN_WAIT_1" /\ z = "FIN_WAIT_2" /\ s.una = e.a.wrote + 2
           \/ s.state = "FIN_WAIT_1" /\ z = "CLOSING" /\ (s.una = e.a.wrote + 2 => Past(e.q)),
           NEW t, t = WithState(s, z)
    PROVE  Good(e, t) /\ t.ep /\ TimerOn(t) /\ t.state = z /\ Quiet(s, t)
<1>1. s \in SocketType /\ e.a \in AppType /\ Base(e, s) /\ Core(e.a, s)
  BY DEF Good, Base, Env
<1>2. z \in State
  BY DEF State
<1>3. /\ t \in SocketType /\ t.state = z /\ t.ep = s.ep /\ t.una = s.una /\ t.size = s.size
      /\ t.nxt = s.nxt /\ t.high = s.high /\ t.lost = s.lost /\ t.sacked = s.sacked
      /\ t.closeOnEmpty = s.closeOnEmpty /\ t.shutdownSend = s.shutdownSend
      /\ t.rcvNxt = s.rcvNxt /\ t.held = s.held /\ t.unread = s.unread
      /\ t.gotFin = s.gotFin /\ t.finSeq = s.finSeq /\ t.got = s.got
      /\ t.retx = s.retx /\ t.lastAck = s.lastAck /\ t.out = s.out /\ Outs(t) = Outs(s)
  <2>1. t \in SocketType /\ Outs(t) = Outs(s)
    BY <1>1, <1>2, StateChanged
  <2> QED BY <1>1, <2>1, ZenonT(40) DEF SocketType, WithState
<1>4. Quiet(s, t) /\ t.ep
  <2>1. t.ep
    BY <1>3
  <2>2. t.sacked \subseteq s.sacked
    BY <1>3
  <2> QED BY <1>3, <2>1, <2>2 DEF Quiet
<1>5. FinOut(e.a, s) /\ FinOut(e.a, t)
  BY <1>1, <1>3 DEF Core, Sender, FinOut
<1>6. Grown(e.a, s, t)
  <2>1. s.high <= t.high /\ s.una <= t.una /\ s.rcvNxt <= t.rcvNxt
    BY <1>1, <1>3, SocketFields
  <2>2. SentUpTo(s) = s.high /\ SentUpTo(t) = s.high
    BY <1>3 DEF SentUpTo, Handshake
  <2> QED BY <1>3, <1>5, <2>1, <2>2 DEF Grown, Clean, Past, Early
<1>7. s.una = e.a.wrote + 2 /\ s.retx = "FIN" => Past(e.q)
  BY <1>1 DEF Base, Acked
<1>8. Base(e, t)
  <2>1. \A m \in Outs(t) : m \in Outs(s)
    BY <1>3
  <2>2. t.state \in Open \/ Past(t)
    BY <1>3 DEF Open, Past
  <2>3. t.una = e.a.wrote + 2 /\ (t.retx = "FIN" \/ t.state = "CLOSING") => Past(e.q)
    BY <1>3, <1>7
  <2>4. t.una = e.a.wrote + 2 /\ t.state = "FIN_WAIT_1" => s.state = "FIN_WAIT_1"
    BY <1>3
  <2>5. t \in SocketType
    BY <1>3
  <2> QED BY <1>1, <1>4, <1>6, <2>1, <2>2, <2>3, <2>4, <2>5, BaseStep
<1>9. Core(e.a, t)
  <2>1. Sender(e.a, t)
    BY <1>1, <1>3, <1>5 DEF Core, Sender, Line, Marks
  <2>2. Asked(e.a, t) /\ Receiver(t)
    BY <1>1, <1>3 DEF Core, Asked, Receiver
  <2>3. TimerSafe(e.a, t)
    BY <1>1, <1>3, <1>5 DEF Core, TimerSafe
  <2> QED BY <1>3, <2>1, <2>2, <2>3 DEF Core, Handshake
<1>10. TimerOn(t)
  BY <1>3 DEF TimerOn
<1> QED BY <1>3, <1>4, <1>8, <1>9, <1>10 DEF Good

\* TimeWait cancels all other timers.
LEMMA TimeWaitStep ==
    ASSUME NEW e, Env(e), NEW s, Good(e, s), s.ep, s.state \in {"FIN_WAIT_1", "FIN_WAIT_2", "CLOSING"},
           NEW t, t = TimeWait(s)
    PROVE  Good(e, t) /\ t.ep /\ TimerOn(t) /\ t.state = "TIME_WAIT" /\ Quiet(s, t)
<1>1. s \in SocketType /\ e.a \in AppType /\ Base(e, s) /\ Core(e.a, s)
  BY DEF Good, Base, Env
<1>2. t \in SocketType
  <2> DEFINE u == [s EXCEPT !.state = "TIME_WAIT", !.retx = "none"]
  <2>1. "TIME_WAIT" \in State
    BY DEF State
  <2>2. u \in SocketType
    BY <1>1, <2>1 DEF SocketType
  <2>3. t = [u EXCEPT !.lastAck = FALSE, !.sendPending = FALSE, !.timewait = TRUE]
    BY <1>1 DEF SocketType, TimeWait
  <2> HIDE DEF u
  <2> DEFINE v == [u EXCEPT !.lastAck = FALSE, !.sendPending = FALSE]
  <2>4. v \in SocketType
    BY <2>2 DEF SocketType
  <2>5. t = [v EXCEPT !.timewait = TRUE]
    BY <2>2, <2>3 DEF SocketType
  <2> HIDE DEF v
  <2> QED BY <2>4, <2>5, ZenonT(40) DEF SocketType
<1>3. /\ t.state = "TIME_WAIT" /\ t.ep = s.ep /\ t.una = s.una /\ t.size = s.size
      /\ t.nxt = s.nxt /\ t.high = s.high /\ t.lost = s.lost /\ t.sacked = s.sacked
      /\ t.closeOnEmpty = s.closeOnEmpty /\ t.shutdownSend = s.shutdownSend
      /\ t.rcvNxt = s.rcvNxt /\ t.held = s.held /\ t.unread = s.unread
      /\ t.gotFin = s.gotFin /\ t.finSeq = s.finSeq /\ t.got = s.got
      /\ t.retx = "none" /\ t.out = s.out
  BY <1>1 DEF SocketType, TimeWait
<1>4. Quiet(s, t) /\ t.ep /\ Outs(t) = Outs(s)
  BY <1>3 DEF Quiet, Outs
<1>5. FinOut(e.a, s) /\ FinOut(e.a, t)
  BY <1>1, <1>3 DEF Core, Sender, FinOut
<1>6. Grown(e.a, s, t)
  <2>1. s.high <= t.high /\ s.una <= t.una /\ s.rcvNxt <= t.rcvNxt
    BY <1>1, <1>3, SocketFields
  <2>2. SentUpTo(s) = s.high /\ SentUpTo(t) = s.high
    BY <1>3 DEF SentUpTo, Handshake
  <2> QED BY <1>3, <1>5, <2>1, <2>2 DEF Grown, Clean, Past, Early
<1>8. Base(e, t)
  <2>1. \A m \in Outs(t) : m \in Outs(s)
    BY <1>4
  <2>2. t.state \in Open \/ Past(t)
    BY <1>3 DEF Open, Past
  <2>3. t.una = e.a.wrote + 2 /\ (t.retx = "FIN" \/ t.state = "CLOSING") => Past(e.q)
    BY <1>3
  <2>4. t.una = e.a.wrote + 2 /\ t.state = "FIN_WAIT_1" => s.state = "FIN_WAIT_1"
    BY <1>3
  <2> QED BY <1>1, <1>2, <1>4, <1>6, <2>1, <2>2, <2>3, <2>4, BaseStep
<1>9. Core(e.a, t)
  <2>1. Sender(e.a, t)
    BY <1>1, <1>3, <1>5 DEF Core, Sender, Line, Marks
  <2>2. Asked(e.a, t) /\ Receiver(t)
    BY <1>1, <1>3 DEF Core, Asked, Receiver
  <2>3. TimerSafe(e.a, t)
    BY <1>3 DEF TimerSafe
  <2> QED BY <1>3, <2>1, <2>2, <2>3 DEF Core, Handshake
<1>10. TimerOn(t)
  BY <1>3 DEF TimerOn
<1> QED BY <1>3, <1>4, <1>8, <1>9, <1>10 DEF Good

\* An ACK of the FIN is seen as one.
LEMMA FinAckSeen ==
    ASSUME NEW e, Env(e), NEW s, Good(e, s), s.ep, s.state = "FIN_WAIT_1", NEW m \in e.A
    PROVE  /\ s.una = e.a.wrote + 2 /\ m.ack = e.a.wrote + 2 => FinAcked(s, m)
           /\ FinAcked(s, m) /\ m.ack <= s.una => s.una = e.a.wrote + 2
<1>1. s \in SocketType /\ Sender(e.a, s) /\ e.a.wrote \in Nat /\ s.state # "ESTABLISHED"
  BY DEF Good, Base, Core, Env, AppType
<1>2. s.high = e.a.wrote + 1 /\ Line(e.a, s)
  BY <1>1 DEF Sender, FinOut
<1>3. s.una \in Nat /\ s.size \in Nat /\ m.ack \in Nat
  BY <1>1, SocketFields, Incoming
<1> QED BY <1>1, <1>2, <1>3 DEF Line, FinAcked

LEMMA WaitAck ==
    ASSUME NEW e, Env(e), NEW s, Good(e, s), s.ep, TimerOn(s), Outs(s) = {}, Phase(s),
           s.state \in {"FIN_WAIT_1", "FIN_WAIT_2", "CLOSE_WAIT"},
           NEW m \in e.A, m.kind = "ACK", m.ack = e.a.wrote + 2 <=> e.finAck,
           SynRetries \in Nat, DataRetries \in Nat,
           NEW t, t = ProcessWait(s, m)
    PROVE  Final(e, t)
<1> DEFINE a == ReceivedAck(s, m)
           f == IF a.state = "FIN_WAIT_1" /\ FinAcked(a, m) THEN WithState(a, "FIN_WAIT_2") ELSE a
<1>1. s.state \in Open \/ (s.state = "CLOSE_WAIT" /\ Finished(s))
  BY DEF Phase, Open
<1>2. Good(e, a) /\ m.ack <= a.una
  BY <1>1, AckReceived
<1>3. a.ep => TimerOn(a)
  BY <1>1, AckReceived
<1>4. /\ IF m.kind # "FIN" /\ ~ Finished(s) /\ Finished(a)
         THEN a.state \in {"CLOSE_WAIT", "LAST_ACK", "CLOSED"}
         ELSE a.ep /\ StateStep(s, a)
  BY <1>1, AckReceived
<1>5. Finished(s) => Finished(a)
  BY <1>1, AckReceived
<1>6. t = IF f.state \in {"FIN_WAIT_1", "FIN_WAIT_2"} /\ Finished(f)
          THEN SendEmptyPacket(IF f.state = "FIN_WAIT_1" /\ ~ FinAcked(f, m)
                               THEN [f EXCEPT !.state = "CLOSING"] ELSE TimeWait(f), "ACK")
          ELSE f
  BY DEF ProcessWait, WithState
<1> HIDE DEF a
<1>7. Phase(a)
  BY <1>4, <1>5 DEF Phase, StateStep
<1>8. a.state = "FIN_WAIT_1" => a.ep
  BY <1>4
<1>9. CASE a.state = "FIN_WAIT_1" /\ FinAcked(a, m)
  <2>1. a.una = e.a.wrote + 2
    BY <1>2, <1>8, <1>9, FinAckSeen
  <2>2. Good(e, f) /\ f.ep /\ TimerOn(f) /\ f.state = "FIN_WAIT_2" /\ Quiet(a, f)
    BY <2>1, <1>2, <1>3, <1>8, <1>9, WaitOver
  <2>3. ~ Finished(f)
    BY <2>2, <1>7, <1>9 DEF Quiet, Phase, Finished
  <2>4. t = f
    BY <2>3, <1>6
  <2> QED BY <2>2, <2>3, <2>4, Finishing DEF Phase
<1>10. CASE ~ (a.state = "FIN_WAIT_1" /\ FinAcked(a, m))
  <2>1. f = a /\ t = a
    BY <1>6, <1>7, <1>10 DEF Phase
  <2>2. a.ep /\ a.una = e.a.wrote + 2 /\ a.state = "FIN_WAIT_1" => Past(e.q)
    <3> SUFFICES ASSUME a.ep, a.una = e.a.wrote + 2, a.state = "FIN_WAIT_1" PROVE Past(e.q)
      OBVIOUS
    <3>1. Past(e.q) \/ e.finAck
      BY <1>2 DEF Good, Base, Acked
    <3>2. ~ e.finAck
      BY <1>2, <1>10, FinAckSeen
    <3> QED BY <3>1, <3>2
  <2> QED BY <2>1, <2>2, <1>2, <1>3, <1>7, Finishing
<1> QED BY <1>9, <1>10

LEMMA WaitFin ==
    ASSUME NEW e, Env(e), NEW s, Good(e, s), s.ep, TimerOn(s), Outs(s) = {}, Phase(s),
           s.state \in {"FIN_WAIT_1", "FIN_WAIT_2", "CLOSE_WAIT"}, ~ Past(e.s),
           NEW m \in e.A, m.kind = "FIN", m.ack = e.a.wrote + 2 <=> e.finAck,
           SynRetries \in Nat, DataRetries \in Nat,
           NEW t, t = ProcessWait(s, m)
    PROVE  Final(e, t)
<1> DEFINE a == ReceivedAck(s, m)
           f == SetFinSequence(a, m.seq)
           c == IF f.state = "FIN_WAIT_1" /\ ~ FinAcked(f, m)
                THEN WithState(f, "CLOSING") ELSE TimeWait(f)
<1>1. s.state \in Open \/ (s.state = "CLOSE_WAIT" /\ Finished(s))
  BY DEF Phase, Open
<1>2. Good(e, a) /\ m.ack <= a.una
  BY <1>1, AckReceived
<1>3. a.ep => TimerOn(a)
  BY <1>1, AckReceived
<1>4. a.ep /\ StateStep(s, a)
  BY <1>1, AckReceived
<1>5. Finished(s) => Finished(a)
  BY <1>1, AckReceived
<1>6. m.len = 1 => m.seq < a.rcvNxt \/ m.seq \in a.held \/ (a.gotFin /\ a.finSeq <= m.seq)
  BY <1>1, AckReceived
<1>7. t = IF f.state \in {"FIN_WAIT_1", "FIN_WAIT_2"} /\ Finished(f)
          THEN SendEmptyPacket(c, "ACK") ELSE f
  BY DEF ProcessWait, WithState
<1> HIDE DEF a
<1>8. /\ m.seq \in Nat /\ m.len \in {0, 1} /\ e.b.wrote \in Nat
      /\ Carried(Peer(e.n), e.b, e.q, Past(e.s), m)
  BY Incoming DEF Env, AppType
<1>9. /\ e.b.wrote <= m.seq /\ m.seq <= e.b.wrote + 1 /\ Ended(e.b)
      /\ e.q.ep => FinOut(e.b, e.q)
  BY <1>8 DEF Carried
<1>10. Clean(e.q) => m.seq = e.b.wrote + 1 \/ e.b.wrote \in a.held \/ e.b.wrote < a.rcvNxt
  <2> SUFFICES ASSUME Clean(e.q), m.seq # e.b.wrote + 1
               PROVE  e.b.wrote \in a.held \/ e.b.wrote < a.rcvNxt
    OBVIOUS
  <2>1. m.len = 1 /\ m.seq = e.b.wrote
    BY <1>8, <1>9 DEF Carried
  <2>2. Arrived(e.b, e.q, a) /\ a \in SocketType
    BY <1>2 DEF Good, Base
  <2>3. a.finSeq \in Nat
    BY <2>2, SocketFields
  <2>4. a.gotFin => \/ a.finSeq = e.b.wrote + 1 \/ e.b.wrote \in a.held \/ e.b.wrote < a.rcvNxt
    BY <2>2, <1>4 DEF Arrived
  <2> QED BY <2>1, <2>3, <2>4, <1>6, <1>8
<1>11. Good(e, f) /\ Received(a, f)
  BY <1>2, <1>4, <1>8, <1>9, <1>10, FinSet
<1>12. f.gotFin /\ f.finSeq = m.seq /\ f.rcvNxt = IF a.rcvNxt = m.seq THEN m.seq + 1 ELSE a.rcvNxt
  BY <1>2, <1>4, <1>8, <1>9, <1>10, FinSet
<1>13. Finished(a) => Finished(f)
  BY <1>2, <1>4, <1>8, <1>9, <1>10, FinSet
<1> HIDE DEF f
<1>14. f.ep /\ f.state = a.state /\ TimerOn(f)
  BY <1>11, <1>4, <1>3 DEF Received, TimerOn
<1>15. CASE ~ (f.state \in {"FIN_WAIT_1", "FIN_WAIT_2"} /\ Finished(f))
  <2>1. t = f
    BY <1>7, <1>15
  <2>2. Phase(f)
    BY <1>4, <1>5, <1>13, <1>14, <1>15 DEF StateStep, Phase
  <2>3. f.una = e.a.wrote + 2 /\ f.state = "FIN_WAIT_1" => Past(e.q)
    <3> SUFFICES ASSUME f.una = e.a.wrote + 2, f.state = "FIN_WAIT_1", ~ Past(e.q) PROVE FALSE
      OBVIOUS
    <3>1. m.ack = e.a.wrote + 2
      BY <1>11, <1>14 DEF Good, Base, Acked
    <3>2. m.seq <= e.q.una
      BY <3>1 DEF Env, Direction, Reports
    <3>3. e.q.una <= e.s.rcvNxt
      BY DEF Env, Direction, Reports
    <3>4. e.s.rcvNxt <= a.rcvNxt
      BY <1>2 DEF Good, Base, Grown
    <3>5. e.q.una \in Nat /\ e.s.rcvNxt \in Nat /\ a.rcvNxt \in Nat
      BY <1>2, SocketFields DEF Env, Good, Base
    <3>6. ~ Finished(f)
      BY <1>15
    <3> QED BY <3>2, <3>3, <3>4, <3>5, <3>6, <1>8, <1>12 DEF Finished
  <2> QED BY <2>1, <2>2, <2>3, <1>11, <1>14, Finishing
<1>16. CASE f.state \in {"FIN_WAIT_1", "FIN_WAIT_2"} /\ Finished(f)
  <2>1. t = SendEmptyPacket(c, "ACK")
    BY <1>7, <1>16
  <2>2. Good(e, c) /\ c.ep /\ TimerOn(c) /\ c.state \in {"CLOSING", "TIME_WAIT"}
    <3>1. CASE f.state = "FIN_WAIT_1" /\ ~ FinAcked(f, m)
      <4>1. f.una = e.a.wrote + 2 => Past(e.q)
        <5> SUFFICES ASSUME f.una = e.a.wrote + 2 PROVE Past(e.q)
          OBVIOUS
        <5>1. Past(e.q) \/ e.finAck
          BY <1>11, <1>14, <3>1 DEF Good, Base, Acked
        <5>2. ~ e.finAck
          BY <1>11, <1>14, <3>1, FinAckSeen
        <5> QED BY <5>1, <5>2
      <4>2. c = WithState(f, "CLOSING")
        BY <3>1
      <4> HIDE DEF c
      <4> QED BY <4>1, <4>2, <3>1, <1>11, <1>14, WaitOver
    <3>2. CASE ~ (f.state = "FIN_WAIT_1" /\ ~ FinAcked(f, m))
      <4>1. c = TimeWait(f) /\ f.state \in {"FIN_WAIT_1", "FIN_WAIT_2", "CLOSING"}
        BY <3>2, <1>16
      <4> HIDE DEF c
      <4> QED BY <4>1, <1>11, <1>14, TimeWaitStep
    <3> QED BY <3>1, <3>2
  <2> HIDE DEF c
  <2>3. Good(e, t) /\ t.state = c.state /\ TimerOn(t)
    BY <2>1, <2>2, SentAck
  <2> QED BY <2>2, <2>3, Finishing DEF Phase
<1> QED BY <1>15, <1>16

LEMMA WaitStep ==
    ASSUME NEW e, Env(e), NEW s, Good(e, s), s.ep, TimerOn(s), Outs(s) = {}, Phase(s),
           s.state \in {"FIN_WAIT_1", "FIN_WAIT_2", "CLOSE_WAIT"}, ~ Past(e.s),
           s.una = e.a.wrote + 2 /\ s.state = "FIN_WAIT_1" => Past(e.q),
           NEW m \in e.A, m.ack = e.a.wrote + 2 <=> e.finAck,
           SynRetries \in Nat, DataRetries \in Nat,
           NEW t, t = ProcessWait(s, m)
    PROVE  Final(e, t)
<1>1. m.kind \in Kind
  BY Incoming, MessageFields
<1>2. CASE m.kind = "ACK"
  BY <1>2, WaitAck
<1>3. CASE m.kind = "FIN"
  BY <1>3, WaitFin
<1>4. CASE m.kind = "RST"
  <2>1. t = CloseAndNotify(s) /\ Base(e, s)
    BY <1>4 DEF ProcessWait, Good
  <2>2. t \in {CloseAndNotify(s), DeallocateEndPoint(s)} /\ Half(e.a, s)
    BY <2>1, HalfOf DEF Good, Core
  <2>3. Good(e, t) /\ ~ t.ep
    BY <2>1, <2>2, Closed
  <2> QED BY <2>3, Finishing
<1>5. CASE m.kind \in {"SYN", "SYNACK"}
  <2>1. t = s
    BY <1>5 DEF ProcessWait
  <2> QED BY <2>1, Finishing
<1> QED BY <1>1, <1>2, <1>3, <1>4, <1>5 DEF Kind

\* CLOSING, LAST_ACK and TIME_WAIT.
LEMMA LateStep ==
    ASSUME NEW e, Env(e), NEW s, Good(e, s), s.ep, TimerOn(s),
           s.state \in {"CLOSING", "LAST_ACK", "TIME_WAIT"},
           NEW m \in e.A, SynRetries \in Nat, DataRetries \in Nat,
           NEW t, \/ s.state = "CLOSING" /\ t = ProcessClosing(s, m)
                  \/ s.state = "LAST_ACK" /\ t = ProcessLastAck(s, m)
                  \/ t = s
    PROVE  Final(e, t)
<1>1. m.kind \in Kind /\ Base(e, s)
  BY Incoming, MessageFields DEF Good
<1>2. \/ t = s
      \/ s.state = "CLOSING" /\ t = TimeWait(s)
      \/ t = CloseAndNotify(s)
      \/ t = CloseAndNotify(SendEmptyPacket(s, "ACK"))
      \/ t = ResetAndClose(s)
  BY <1>1 DEF ProcessClosing, ProcessLastAck, Kind
<1>3. CASE t = s
  BY <1>3, Finishing DEF Phase
<1>4. CASE s.state = "CLOSING" /\ t = TimeWait(s)
  <2>1. s.state \in {"FIN_WAIT_1", "FIN_WAIT_2", "CLOSING"}
    BY <1>4
  <2>2. Good(e, t) /\ TimerOn(t) /\ t.state = "TIME_WAIT"
    BY <1>4, <2>1, TimeWaitStep
  <2> QED BY <2>2, Finishing DEF Phase
<1>5. ASSUME NEW u, Base(e, u), Half(e.a, u), t = CloseAndNotify(u)
      PROVE  Final(e, t)
  <2>1. t \in {CloseAndNotify(u), DeallocateEndPoint(u)}
    BY <1>5
  <2>2. Good(e, t) /\ ~ t.ep
    BY <1>5, <2>1, Closed
  <2> QED BY <2>2, Finishing
<1>6. CASE t = CloseAndNotify(SendEmptyPacket(s, "ACK"))
  <2> DEFINE u == SendEmptyPacket(s, "ACK")
  <2>1. Good(e, u) /\ u.state = s.state
    BY SentAck
  <2> HIDE DEF u
  <2>2. t = CloseAndNotify(u) /\ Base(e, u) /\ Half(e.a, u)
    BY <1>6, <2>1, HalfOf DEF u, Good
  <2> QED BY <2>2, <1>5
<1>7. CASE t = ResetAndClose(s)
  <2>1. t \in {SendRST(s), ResetAndClose(s)}
    BY <1>7
  <2>2. Half(e.a, s)
    BY HalfOf
  <2>3. Good(e, t) /\ ~ t.ep
    BY <1>1, <2>1, <2>2, SentReset
  <2> QED BY <2>3, Finishing
<1>8. Half(e.a, s)
  BY HalfOf
<1> QED BY <1>1, <1>2, <1>3, <1>4, <1>5, <1>6, <1>7, <1>8

(***************************************************************************)
(* The handshake.                                                          *)
(***************************************************************************)
\* k is s once its SYN was acknowledged.
Opened(s, k) ==
    /\ k \in SocketType /\ k.state = "ESTABLISHED" /\ k.ep = s.ep /\ k.una = 1 /\ k.nxt = 1
    /\ k.high = 1 /\ k.rcvNxt = 1 /\ k.retx = "none" /\ k.size = s.size /\ k.lost = s.lost
    /\ k.sacked = s.sacked /\ k.closeOnEmpty = s.closeOnEmpty /\ k.shutdownSend = s.shutdownSend
    /\ k.held = s.held /\ k.unread = s.unread /\ k.gotFin = s.gotFin /\ k.got = s.got
    /\ k.finSeq = s.finSeq /\ k.out = s.out

LEMMA SynTypes ==
    ASSUME NEW s \in SocketType, NEW i \in Nat, NEW j \in Nat, SynRetries \in Nat
    PROVE  /\ [s EXCEPT !.retx = "none", !.una = i] \in SocketType
           /\ [s EXCEPT !.nxt = i, !.high = j] \in SocketType
           /\ [s EXCEPT !.synCount = SynRetries, !.state = "ESTABLISHED"] \in SocketType
<1>1. SynRetries \in 0 .. SynRetries /\ "ESTABLISHED" \in State
  BY DEF State
<1>2. [s EXCEPT !.retx = "none", !.una = i] \in SocketType
  BY DEF SocketType
<1>3. [s EXCEPT !.nxt = i, !.high = j] \in SocketType
  BY DEF SocketType
<1>4. [s EXCEPT !.synCount = SynRetries, !.state = "ESTABLISHED"] \in SocketType
  BY <1>1 DEF SocketType
<1> QED BY <1>2, <1>3, <1>4

LEMMA ConnectedFields ==
    ASSUME NEW s \in SocketType, s.nxt = 0, s.rcvNxt = 1, SynRetries \in Nat,
           NEW k, k = [Connected(s) EXCEPT !.state = "ESTABLISHED"]
    PROVE  Opened(s, k)
<1> DEFINE u == [s EXCEPT !.retx = "none", !.una = 1]
           v == [u EXCEPT !.nxt = 1, !.high = 1]
<1>2. u \in SocketType
  BY SynTypes
<1>a. k = [s EXCEPT !.retx = "none", !.una = 1, !.nxt = 1, !.high = 1,
                   !.synCount = SynRetries, !.state = "ESTABLISHED"]
  <2>1. s.nxt + 1 = 1
    OBVIOUS
  <2>2. Connected(s) = [s EXCEPT !.retx = "none", !.una = 1, !.nxt = 1, !.high = 1,
                                 !.synCount = SynRetries]
    BY <2>1 DEF Connected
  <2> QED BY <2>2 DEF SocketType
<1>3. k = [u EXCEPT !.nxt = 1, !.high = 1, !.synCount = SynRetries, !.state = "ESTABLISHED"]
  BY <1>a DEF SocketType
<1> HIDE DEF u
<1>4. v \in SocketType
  BY <1>2, SynTypes
<1>5. k = [v EXCEPT !.synCount = SynRetries, !.state = "ESTABLISHED"]
  BY <1>2, <1>3 DEF SocketType
<1> HIDE DEF v
<1>6. k \in SocketType
  BY <1>4, <1>5, SynTypes
<1>7. /\ k.state = "ESTABLISHED" /\ k.ep = s.ep /\ k.una = 1 /\ k.nxt = 1
      /\ k.high = 1 /\ k.rcvNxt = 1 /\ k.retx = "none" /\ k.size = s.size /\ k.lost = s.lost
      /\ k.sacked = s.sacked /\ k.closeOnEmpty = s.closeOnEmpty /\ k.shutdownSend = s.shutdownSend
      /\ k.held = s.held /\ k.unread = s.unread /\ k.gotFin = s.gotFin /\ k.got = s.got
      /\ k.finSeq = s.finSeq /\ k.out = s.out
  BY <1>a, ZenonT(40) DEF SocketType
<1> QED BY <1>6, <1>7 DEF Opened

LEMMA OpenedGood ==
    ASSUME NEW e, Env(e), e.s.state \in Handshake, NEW s, Alike(e.s, s),
           s.unread = e.s.unread, s.closeOnEmpty = e.s.closeOnEmpty,
           s.shutdownSend = e.s.shutdownSend,
           e.b.opened, 1 <= e.q.rcvNxt,
           NEW k, Opened(s, k)
    PROVE  Good(e, k) /\ k.ep /\ TimerOn(k) /\ Phase(k) /\ Outs(k) = {} /\ ~ Finished(k)
<1>1. /\ e.s \in SocketType /\ e.s.ep /\ e.a \in AppType /\ e.b \in AppType /\ e.q \in SocketType
      /\ Local(e.n, e.a, e.s) /\ Local(Peer(e.n), e.b, e.q) /\ e.a.wrote \in Nat /\ e.b.wrote \in Nat
  BY DEF Env, AppType
<1>2. Shaking(e.n, e.a, e.s) /\ Asked(e.a, e.s) /\ e.s.out = << >>
  BY <1>1 DEF Local
<1>3. /\ e.s.una = 0 /\ e.s.high = 0 /\ e.s.size = e.a.wrote /\ e.s.lost = {} /\ e.s.sacked = {}
      /\ e.s.got = 0 /\ e.s.held = {} /\ e.s.unread = 0 /\ ~ e.s.gotFin /\ e.s.rcvNxt \in {0, 1}
  BY <1>2 DEF Shaking
<1>4. /\ k \in SocketType /\ k.state = "ESTABLISHED" /\ k.una = 1 /\ k.nxt = 1
      /\ k.high = 1 /\ k.rcvNxt = 1 /\ k.retx = "none" /\ k.size = e.a.wrote /\ k.lost = {}
      /\ k.sacked = {} /\ k.closeOnEmpty = e.s.closeOnEmpty /\ k.shutdownSend = e.s.shutdownSend
      /\ k.held = {} /\ k.unread = 0 /\ ~ k.gotFin /\ k.got = 0 /\ k.out = << >>
  BY <1>2, <1>3 DEF Opened, Alike
<1>5. k.ep
  BY <1>1 DEF Opened, Alike
<1>6. Outs(k) = {}
  BY <1>4 DEF Outs
<1>7. ~ Finished(k) /\ Phase(k) /\ TimerOn(k)
  BY <1>4 DEF Finished, Phase, TimerOn
<1>8. Grown(e.a, e.s, k)
  <2>1. SentUpTo(e.s) = 1 /\ SentUpTo(k) = 1
    BY <1>4 DEF SentUpTo, Handshake
  <2>2. ~ FinOut(e.a, e.s)
    BY <1>1, <1>3 DEF FinOut
  <2>3. ~ Past(e.s) /\ ~ Early(e.s) /\ Clean(e.s)
    BY <1>1, <1>3 DEF Past, Early, Clean, Handshake
  <2> QED BY <1>1, <1>3, <1>4, <2>1, <2>2, <2>3 DEF Grown
<1>9. Arrived(e.b, e.q, k)
  <2>1. e.q.ep => 1 <= SentUpTo(e.q)
    <3>1. CASE e.q.state \in Handshake
      BY <3>1 DEF SentUpTo
    <3>2. CASE e.q.ep /\ e.q.state \notin Handshake
      <4>1. Line(e.b, e.q)
        BY <3>2, <1>1 DEF Local, Synced, Sender
      <4> QED BY <4>1, <3>2, <1>1, SocketFields DEF Line, SentUpTo
    <3> QED BY <3>1, <3>2
  <2>2. k.finSeq = 0
    BY <1>3 DEF Env, Direction, Arrived, Opened, Alike
  <2> QED BY <1>1, <1>4, <2>1, <2>2 DEF Arrived
<1>10. Acked(e, k)
  BY <1>1, <1>4 DEF Acked
<1>11. Base(e, k)
  <2>1. Counted(k)
    BY <1>4 DEF Counted
  <2> QED BY <2>1, <1>4, <1>6, <1>8, <1>9, <1>10 DEF Base
<1>12. Core(e.a, k)
  <2>1. Sender(e.a, k)
    BY <1>1, <1>4 DEF Sender, Line, Marks
  <2>2. Asked(e.a, k) /\ TimerSafe(e.a, k) /\ Receiver(k)
    BY <1>2, <1>4 DEF Asked, TimerSafe, Receiver
  <2> QED BY <1>4, <2>1, <2>2 DEF Core, Handshake
<1> QED BY <1>5, <1>6, <1>7, <1>11, <1>12 DEF Good

\* A SYN, or one with ACK.
LEMMA SynAppended ==
    ASSUME NEW s \in SocketType, s.ep, NEW k \in {"SYN", "SYNACK"}, s.synCount # 0, SynRetries \in Nat,
           s.state \notin {"FIN_WAIT_1", "LAST_ACK", "CLOSING"},
           NEW t, t = SendEmptyPacket(s, k)
    PROVE  \E m : /\ Appended(s, t, m) /\ t.state = s.state /\ m.kind = k /\ m.len = 0
                  /\ t.retx = IF s.retx = "none" THEN k ELSE s.retx
                  /\ m.seq = s.nxt /\ m.ack = s.rcvNxt /\ m.sack = s.held
                  /\ t.sendPending = s.sendPending /\ t.out = Append(s.out, m)
<1> DEFINE m == Segment(k, s.nxt, 0, s.rcvNxt, s.held)
           o == Append(s.out, m)
           x == IF s.retx = "none" THEN k ELSE s.retx
           c == s.synCount - 1
<1>1. /\ m \in Message /\ m.kind = k /\ m.len = 0 /\ m.seq = s.nxt /\ m.ack = s.rcvNxt
      /\ m.sack = s.held
  <2>1. s.nxt \in Nat /\ 0 \in 0 .. 1 /\ s.rcvNxt \in Nat /\ s.held \in SUBSET {2}
    BY SocketFields
  <2>2. k \in Kind \ {"RST"}
    BY DEF Kind
  <2> QED BY <2>1, <2>2, SegmentFields
<1>2. t = [s EXCEPT !.synCount = c, !.retx = x, !.out = o]
  BY DEF SendEmptyPacket
<1> HIDE DEF m
<1>3. o \in Seq(Message) /\ x \in {"none", "SYN", "SYNACK", "FIN", "RTO"} /\ c \in 0 .. SynRetries
  <2>1. s.synCount \in 0 .. SynRetries
    BY SocketFields
  <2>2. c \in 0 .. SynRetries
    BY <2>1
  <2> QED BY <1>1, <2>2, SocketFields
<1> HIDE DEF o, x, c
<1>4. t \in SocketType
  <2> DEFINE u == [s EXCEPT !.synCount = c, !.retx = x]
  <2>1. u \in SocketType
    BY <1>3 DEF SocketType
  <2>2. t = [u EXCEPT !.out = o]
    BY <1>2 DEF SocketType
  <2> HIDE DEF u
  <2> QED BY <2>1, <2>2, <1>3, ZenonT(40) DEF SocketType
<1>5. /\ t.out = o /\ t.ep = s.ep /\ t.state = s.state /\ t.retx = x
      /\ t.una = s.una /\ t.size = s.size /\ t.nxt = s.nxt /\ t.high = s.high /\ t.lost = s.lost
      /\ t.sacked = s.sacked /\ t.closeOnEmpty = s.closeOnEmpty
      /\ t.shutdownSend = s.shutdownSend /\ t.rcvNxt = s.rcvNxt /\ t.held = s.held
      /\ t.unread = s.unread /\ t.gotFin = s.gotFin /\ t.finSeq = s.finSeq /\ t.got = s.got
      /\ t.lastAck = s.lastAck /\ t.sendPending = s.sendPending
  BY <1>2, ZenonT(40) DEF SocketType
<1>6. Outs(t) = Outs(s) \cup {m}
  <2>1. s.out \in Seq(Message) /\ t.out = Append(s.out, m)
    BY <1>5, SocketFields DEF o
  <2> QED BY <1>1, <2>1, OutsAppend
<1>7. Appended(s, t, m)
  BY <1>1, <1>4, <1>5, <1>6 DEF Appended
<1> QED BY <1>1, <1>5, <1>7 DEF x, o

\* The SYN of n.
SynOf(n) == IF n = "c" THEN "SYN" ELSE "SYNACK"

\* The handshake, with its timer running or not.
ShakingBut(n, a, s) ==
    /\ s.una = 0 /\ s.nxt = 0 /\ s.high = 0 /\ s.size = a.wrote /\ s.lost = {} /\ s.sacked = {}
    /\ s.got = 0 /\ s.held = {} /\ s.unread = 0 /\ ~ s.gotFin /\ ~ s.sendPending
    /\ s.retx \in {"none", SynOf(n)}
    /\ IF n = "c" THEN s.state = "SYN_SENT" /\ s.rcvNxt = 0
       ELSE s.state = "SYN_RCVD" /\ s.rcvNxt = 1 /\ a.wrote = 0 /\ ~ Ended(a)

LEMMA ShakeSent ==
    ASSUME NEW e, Env(e), NEW s, Base(e, s), s.ep, ShakingBut(e.n, e.a, s), Asked(e.a, s),
           SynRetries \in Nat, DataRetries \in Nat,
           NEW t, t = SendEmptyPacket(s, SynOf(e.n))
    PROVE  Final(e, t)
<1>1. s \in SocketType /\ e.n \in Node /\ s.state \in Handshake /\ e.a.wrote \in Nat /\ e.s \in SocketType
  BY DEF Base, Env, ShakingBut, Handshake, AppType
<1>2. CASE s.synCount = 0
  <2>1. t = CloseAndNotify(s)
    BY <1>2 DEF SendEmptyPacket, SynOf
  <2>2. t \in {CloseAndNotify(s), DeallocateEndPoint(s)} /\ Half(e.a, s)
    BY <1>1, <2>1, HalfOf DEF Handshake
  <2>3. Good(e, t) /\ ~ t.ep
    BY <2>2, Closed
  <2> QED BY <2>3, Finishing
<1>3. CASE s.synCount # 0
  <2>1. SynOf(e.n) \in {"SYN", "SYNACK"} /\ s.state \notin {"FIN_WAIT_1", "LAST_ACK", "CLOSING"}
    BY <1>1 DEF SynOf, Handshake
  <2>2. PICK m : /\ Appended(s, t, m) /\ t.state = s.state /\ m.kind = SynOf(e.n) /\ m.len = 0
                 /\ t.retx = IF s.retx = "none" THEN SynOf(e.n) ELSE s.retx
                 /\ m.seq = s.nxt /\ m.ack = s.rcvNxt /\ m.sack = s.held
                 /\ t.sendPending = s.sendPending
    BY <2>1, <1>1, <1>3, SynAppended
  <2>3. /\ m \in Message /\ m.seq = 0 /\ m.sack = {} /\ m.ack = s.rcvNxt /\ s.rcvNxt \in {0, 1}
        /\ t.rcvNxt = s.rcvNxt /\ t.una = 0 /\ t.ep
    BY <2>2 DEF Appended, ShakingBut
  <2>4. Carried(e.n, e.a, t, Past(e.q), m)
    BY <2>2, <2>3, <1>1 DEF Carried, SynOf, Node
  <2>5. Reported(e, t, m)
    <3>1. e.s.rcvNxt <= s.rcvNxt
      BY DEF Base, Grown
    <3> QED BY <2>1, <2>2, <2>3, <3>1 DEF Reported, SynOf
  <2>6. Base(e, t)
    <3>1. /\ FinOut(e.a, s) => FinOut(e.a, t)
          /\ Clean(t) => Clean(s)
          /\ Past(s) => Past(t)
      BY <2>2, <2>3 DEF FinOut, Clean, Past, Appended
    <3>2. t.una # e.a.wrote + 2
      BY <2>3, <1>1
    <3>3. s.state \notin Open /\ Appended(s, t, m) /\ t.state = s.state
      BY <1>1, <2>2 DEF Open, Handshake
    <3> QED BY <1>1, <2>4, <2>5, <3>1, <3>2, <3>3, AppendedStep
  <2>7. Shaking(e.n, e.a, t) /\ Asked(e.a, t)
    <3>1. t.retx = SynOf(e.n)
      BY <2>2 DEF ShakingBut
    <3> QED BY <2>2, <3>1 DEF Shaking, ShakingBut, Appended, Asked, SynOf
  <2>8. t.state \in Handshake
    BY <1>1, <2>2
  <2> QED BY <2>3, <2>6, <2>7, <2>8 DEF Final, Handshake
<1> QED BY <1>2, <1>3

\* Of a FIN that completes the stream only the state after it matters.
LEMMA StateCommutes ==
    ASSUME NEW s \in SocketType, NEW z \in State
    PROVE  /\ \A x : SetFinSequence(WithState(s, z), x) = WithState(SetFinSequence(s, x), z)
           /\ \A x : AddToBuffer(WithState(s, z), x) = WithState(AddToBuffer(s, x), z)
           /\ DoPeerClose(WithState(s, z)) = DoPeerClose(s)
           /\ Finished(WithState(s, z)) <=> Finished(s)
           /\ {s.state, z} \cap {"FIN_WAIT_1", "LAST_ACK", "CLOSING"} = {} =>
                 SendEmptyPacket(WithState(s, z), "ACK") = WithState(SendEmptyPacket(s, "ACK"), z)
<1> DEFINE w == WithState(s, z)
<1>1. w \in SocketType /\ w.state = z /\ w.ep = s.ep /\ w.nxt = s.nxt /\ w.shutdownSend = s.shutdownSend
  BY DEF SocketType, WithState
<1>2. /\ w.rcvNxt = s.rcvNxt /\ w.held = s.held /\ w.gotFin = s.gotFin /\ w.finSeq = s.finSeq
      /\ w.unread = s.unread /\ w.got = s.got /\ w.out = s.out /\ w.retx = s.retx
      /\ w.synCount = s.synCount
  BY DEF SocketType, WithState
<1>3. ASSUME NEW x PROVE SetFinSequence(w, x) = WithState(SetFinSequence(s, x), z)
  BY <1>2 DEF SetFinSequence, WithState, SocketType
<1>4. ASSUME NEW x PROVE AddToBuffer(w, x) = WithState(AddToBuffer(s, x), z)
  <2> DEFINE next == Min({y \in s.rcvNxt .. (x + 3) : y \notin s.held \cup {x}})
             cut == x < s.rcvNxt \/ x \in s.held \/ (s.gotFin /\ s.finSeq <= x)
             H == {y \in s.held \cup {x} : next < y}
             U == s.unread + next - s.rcvNxt
             G == s.got + next - s.rcvNxt
             R == IF s.gotFin /\ next = s.finSeq THEN next + 1 ELSE next
  <2>1. AddToBuffer(s, x) =
           IF cut THEN s ELSE [s EXCEPT !.held = H, !.unread = U, !.got = G, !.rcvNxt = R]
    BY DEF AddToBuffer
  <2> HIDE DEF w
  <2>2. AddToBuffer(w, x) =
           IF cut THEN w ELSE [w EXCEPT !.held = H, !.unread = U, !.got = G, !.rcvNxt = R]
    BY <1>2 DEF AddToBuffer
  <2> HIDE DEF cut, H, U, G, R
  <2>3. CASE cut
    BY <2>1, <2>2, <2>3 DEF w
  <2>4. CASE ~ cut
    <3>1. AddToBuffer(s, x) = [s EXCEPT !.held = H, !.unread = U, !.got = G, !.rcvNxt = R]
      BY <2>1, <2>4
    <3>2. AddToBuffer(w, x) = [w EXCEPT !.held = H, !.unread = U, !.got = G, !.rcvNxt = R]
      BY <2>2, <2>4
    <3>3. [w EXCEPT !.held = H, !.unread = U, !.got = G, !.rcvNxt = R] =
          WithState([s EXCEPT !.held = H, !.unread = U, !.got = G, !.rcvNxt = R], z)
      BY DEF w, WithState, SocketType
    <3> QED BY <3>1, <3>2, <3>3
  <2> QED BY <2>3, <2>4
<1>5. DoPeerClose(w) = DoPeerClose(s)
  <2>1. [w EXCEPT !.state = "CLOSE_WAIT"] = [s EXCEPT !.state = "CLOSE_WAIT"]
    BY DEF SocketType, WithState
  <2> DEFINE A(b, v) == IF b THEN CloseOf(v) ELSE SendEmptyPacket(v, "ACK")
             P(a) == IF a.state = "LAST_ACK" THEN [a EXCEPT !.retr = DataRetries, !.lastAck = TRUE]
                     ELSE a
  <2> HIDE DEF w
  <2>2. DoPeerClose(w) = P(A(w.shutdownSend, [w EXCEPT !.state = "CLOSE_WAIT"]))
    BY DEF DoPeerClose
  <2>3. DoPeerClose(s) = P(A(s.shutdownSend, [s EXCEPT !.state = "CLOSE_WAIT"]))
    BY DEF DoPeerClose
  <2> HIDE DEF A, P
  <2> QED BY <1>1, <2>1, <2>2, <2>3
<1>6. Finished(w) <=> Finished(s)
  BY <1>2 DEF Finished
<1>7. ASSUME {s.state, z} \cap {"FIN_WAIT_1", "LAST_ACK", "CLOSING"} = {}
      PROVE  SendEmptyPacket(w, "ACK") = WithState(SendEmptyPacket(s, "ACK"), z)
  <2>1. /\ w.state \notin {"FIN_WAIT_1", "LAST_ACK", "CLOSING"}
        /\ s.state \notin {"FIN_WAIT_1", "LAST_ACK", "CLOSING"}
    BY <1>1, <1>7
  <2> DEFINE o == Append(s.out, Segment("ACK", s.nxt, 0, s.rcvNxt, s.held))
  <2>2. SendEmptyPacket(s, "ACK") =
           IF ~ s.ep THEN s ELSE [s EXCEPT !.synCount = s.synCount, !.retx = s.retx, !.out = o]
    BY <2>1 DEF SendEmptyPacket
  <2> HIDE DEF w
  <2>3. SendEmptyPacket(w, "ACK") =
           IF ~ s.ep THEN w ELSE [w EXCEPT !.synCount = s.synCount, !.retx = s.retx, !.out = o]
    BY <2>1, <1>1, <1>2 DEF SendEmptyPacket
  <2> HIDE DEF o
  <2>4. CASE ~ s.ep
    BY <2>2, <2>3, <2>4 DEF w
  <2>5. CASE s.ep
    <3>1. SendEmptyPacket(s, "ACK") = [s EXCEPT !.synCount = s.synCount, !.retx = s.retx, !.out = o]
      BY <2>2, <2>5
    <3>2. SendEmptyPacket(w, "ACK") = [w EXCEPT !.synCount = s.synCount, !.retx = s.retx, !.out = o]
      BY <2>3, <2>5
    <3>3. [w EXCEPT !.synCount = s.synCount, !.retx = s.retx, !.out = o] =
          WithState([s EXCEPT !.synCount = s.synCount, !.retx = s.retx, !.out = o], z)
      BY DEF w, WithState, SocketType
    <3> QED BY <3>1, <3>2, <3>3
  <2> QED BY <2>4, <2>5
<1> QED BY <1>3, <1>4, <1>5, <1>6, <1>7

LEMMA LastSegment ==
    ASSUME NEW f \in SocketType, f.gotFin, f.finSeq = 2, f.held = {}, f.rcvNxt = 1, f.unread = 0,
           f.got = 0, NEW b, b = AddToBuffer(f, 1)
    PROVE  Received(f, b) /\ b.rcvNxt = 3 /\ b.gotFin = f.gotFin /\ b.finSeq = f.finSeq
<1>1. Receiver(f) /\ 1 \in {1, 2}
  BY DEF Receiver
<1>2. ~ Cut(f, 1)
  BY DEF Cut
<1>3. ASSUME NEW g \in SocketType, Receiver(g), ~ Cut(g, 1), NEW d, d = AddToBuffer(g, 1)
      PROVE  \E next \in 1 .. 3 :
                    /\ Filled(g, 1, next) /\ Received(g, d)
                    /\ d.rcvNxt = IF g.gotFin /\ next = g.finSeq THEN next + 1 ELSE next
                    /\ d.gotFin = g.gotFin /\ d.finSeq = g.finSeq
  BY <1>3, AddFields
<1>4. PICK next \in 1 .. 3 :
                    /\ Filled(f, 1, next) /\ Received(f, b)
                    /\ b.rcvNxt = IF f.gotFin /\ next = f.finSeq THEN next + 1 ELSE next
                    /\ b.gotFin = f.gotFin /\ b.finSeq = f.finSeq
  BY <1>1, <1>2, <1>3
<1>5. next = 2
  BY <1>4 DEF Filled
<1>6. b.rcvNxt = 3
  BY <1>4, <1>5
<1> QED BY <1>4, <1>6

\* A FIN in SYN_RCVD, in order: the stream of the peer is complete.
LEMMA FinInSynRcvd ==
    ASSUME NEW s \in SocketType, s.ep, s.nxt = 0, s.rcvNxt = 1, s.held = {}, ~ s.gotFin, s.unread = 0,
           s.got = 0, s.state = "SYN_RCVD", SynRetries \in Nat,
           NEW m \in Message, m.kind = "FIN", m.seq = 1,
           NEW k, k = [Connected(s) EXCEPT !.state = "ESTABLISHED"]
    PROVE  PeerClose(Connected(s), m) = PeerClose(k, m)
<1> DEFINE g == Connected(s)
           x == m.seq + m.len
           f == SetFinSequence(k, x)
           b == AddToBuffer(f, m.seq)
           z == "SYN_RCVD"
<1>0. m.len \in {0, 1} /\ x \in Nat /\ z \in State
  BY MessageFields DEF State
<1>1. Opened(s, k)
  BY ConnectedFields
<1>2. /\ k \in SocketType /\ k.rcvNxt = 1 /\ k.held = {} /\ ~ k.gotFin /\ k.unread = 0 /\ k.got = 0
      /\ k.state = "ESTABLISHED"
  BY <1>1 DEF Opened
<1>2a. k.ep
  BY <1>1 DEF Opened
<1>3. g = WithState(k, z)
  BY DEF Connected, WithState, SocketType
<1>4. /\ f \in SocketType /\ f.gotFin /\ f.finSeq = x /\ f.held = {} /\ f.state = "ESTABLISHED"
      /\ f.rcvNxt = (IF x = 1 THEN 2 ELSE 1) /\ f.unread = 0 /\ f.got = 0 /\ f.ep
  <2> HIDE DEF x
  <2>a. (IF k.rcvNxt = x THEN k.rcvNxt + 1 ELSE k.rcvNxt) = IF x = 1 THEN 2 ELSE 1
    BY <1>2
  <2>1. f = [k EXCEPT !.gotFin = TRUE, !.finSeq = x, !.rcvNxt = IF x = 1 THEN 2 ELSE 1]
    <3>1. f = [k EXCEPT !.gotFin = TRUE, !.finSeq = x,
                        !.rcvNxt = IF k.rcvNxt = x THEN k.rcvNxt + 1 ELSE k.rcvNxt]
      BY <1>2 DEF SetFinSequence, SocketType
    <3> QED BY <2>a, <3>1
  <2>2. (IF x = 1 THEN 2 ELSE 1) \in Nat
    OBVIOUS
  <2> HIDE DEF f
  <2> DEFINE u == [k EXCEPT !.gotFin = TRUE, !.finSeq = x]
             y == IF x = 1 THEN 2 ELSE 1
  <2>3. u \in SocketType
    BY <1>0, <1>2, ZenonT(40) DEF SocketType
  <2>4. f = [u EXCEPT !.rcvNxt = y]
    BY <1>2, <2>1 DEF SocketType
  <2> HIDE DEF u
  <2>5. f \in SocketType
    BY <2>2, <2>3, <2>4 DEF SocketType
  <2> HIDE DEF y
  <2>6. /\ f.gotFin = TRUE /\ f.finSeq = x /\ f.held = k.held /\ f.state = k.state /\ f.rcvNxt = y
        /\ f.unread = k.unread /\ f.got = k.got /\ f.ep = k.ep
    BY <2>1, <1>2 DEF SocketType, y
  <2> QED BY <2>5, <2>6, <1>2, <1>2a DEF y
<1>5. SetFinSequence(g, x) = WithState(f, z)
  BY <1>0, <1>2, <1>3, StateCommutes
<1>6. ~ (m.seq < k.rcvNxt) /\ ~ (m.seq < g.rcvNxt) /\ ~ k.gotFin /\ ~ g.gotFin
  BY <1>2, <1>3 DEF WithState, SocketType
<1>7. CASE m.len = 0
  <2>1. Finished(f)
    BY <1>4, <1>7 DEF Finished
  <2>2. PeerClose(k, m) = DoPeerClose(f)
    BY <1>6, <1>7, <2>1 DEF PeerClose
  <2>3. Finished(WithState(f, z)) /\ DoPeerClose(WithState(f, z)) = DoPeerClose(f)
    BY <2>1, <1>0, <1>4, StateCommutes
  <2> HIDE DEF f, g
  <2>4. PeerClose(g, m) = DoPeerClose(WithState(f, z))
    BY <1>5, <1>6, <1>7, <2>3 DEF PeerClose
  <2> QED BY <2>2, <2>3, <2>4 DEF g
<1>8. CASE m.len = 1
  <2> DEFINE d == SendEmptyPacket(b, "ACK")
  <2>0. x = 2
    BY <1>8
  <2>1. Receiver(f)
    BY <1>4, <2>0 DEF Receiver
  <2>2. ~ Cut(f, m.seq)
    BY <1>4, <2>0 DEF Cut
  <2>3. /\ b.rcvNxt = 3 /\ b.gotFin = f.gotFin /\ b.finSeq = 2
        /\ Received(f, b)
    <3> HIDE DEF f
    <3>1. f \in SocketType /\ f.gotFin /\ f.finSeq = 2 /\ f.held = {} /\ f.rcvNxt = 1 /\ f.unread = 0 /\ f.got = 0
      BY <1>4, <2>0
    <3>2. b = AddToBuffer(f, 1)
      OBVIOUS
    <3> HIDE DEF b
    <3> QED BY <3>1, <3>2, LastSegment
  <2>4. b \in SocketType /\ b.state = "ESTABLISHED"
    BY <2>3, <1>4 DEF Received
  <2>4a. b.ep
    BY <2>3, <1>4 DEF Received
  <2>5. Finished(b)
    BY <2>3, <1>4 DEF Finished
  <2> HIDE DEF b
  <2>6. d \in SocketType /\ Finished(d)
    <3>1. PICK y : Appended(b, d, y)
      BY <2>4, <2>4a, EmptyAppended
    <3> QED BY <3>1, <2>5 DEF Appended, Finished
  <2>7. ReceivedData(f, m) = d
    BY DEF ReceivedData, b
  <2>8. AddToBuffer(WithState(f, z), m.seq) = WithState(b, z)
    BY <1>0, <1>4, StateCommutes DEF b
  <2>9. SendEmptyPacket(WithState(b, z), "ACK") = WithState(d, z)
    <3>1. {b.state, z} \cap {"FIN_WAIT_1", "LAST_ACK", "CLOSING"} = {}
      BY <2>4
    <3> QED BY <3>1, <1>0, <2>4, StateCommutes
  <2> HIDE DEF d, f
  <2>10. ReceivedData(WithState(f, z), m) = WithState(d, z)
    BY <2>8, <2>9 DEF ReceivedData
  <2>11. Finished(WithState(d, z)) /\ DoPeerClose(WithState(d, z)) = DoPeerClose(d)
    BY <2>6, <1>0, StateCommutes
  <2>12. PeerClose(k, m) = DoPeerClose(d)
    BY <1>6, <1>8, <2>6, <2>7 DEF PeerClose, f
  <2> HIDE DEF g
  <2>13. PeerClose(g, m) = DoPeerClose(WithState(d, z))
    BY <1>5, <1>6, <1>8, <2>10, <2>11 DEF PeerClose
  <2> QED BY <2>11, <2>12, <2>13 DEF g
<1> QED BY <1>0, <1>7, <1>8

\* s is e.s, a window apart.
Fresh(e, s) ==
    /\ Alike(e.s, s) /\ s.unread = e.s.unread /\ s.closeOnEmpty = e.s.closeOnEmpty
    /\ s.shutdownSend = e.s.shutdownSend /\ s.sendPending = e.s.sendPending
    /\ s.lastAck = e.s.lastAck /\ Outs(s) = Outs(e.s)

LEMMA FreshShaking ==
    ASSUME NEW e, Env(e), e.s.state \in Handshake, NEW s, Fresh(e, s)
    PROVE  /\ Base(e, s) /\ s \in SocketType /\ s.ep /\ Shaking(e.n, e.a, s) /\ Asked(e.a, s)
           /\ ShakingBut(e.n, e.a, s) /\ Final(e, s) /\ s.state = e.s.state
<1>1. Base(e, s)
  BY StartBase, AlikeBase DEF Fresh
<1>2. Shaking(e.n, e.a, e.s) /\ Asked(e.a, e.s)
  BY DEF Env, Local
<1>3. Shaking(e.n, e.a, s)
  BY <1>2 DEF Shaking, Fresh, Alike
<1>4. Asked(e.a, s) /\ s.state = e.s.state /\ s \in SocketType
  BY <1>2 DEF Asked, Fresh, Alike
<1>5. s.ep
  BY DEF Env, Fresh, Alike
<1>6. ShakingBut(e.n, e.a, s)
  BY <1>3 DEF Shaking, ShakingBut, SynOf
<1>7. Final(e, s)
  BY <1>1, <1>3, <1>4, <1>5 DEF Final, Handshake
<1> QED BY <1>1, <1>3, <1>4, <1>5, <1>6, <1>7

LEMMA ClosedFinal ==
    ASSUME NEW e, Env(e), NEW s, Base(e, s), s.ep, Half(e.a, s), SynRetries \in Nat, DataRetries \in Nat,
           NEW t \in {CloseAndNotify(s), DeallocateEndPoint(s), SendRST(s), ResetAndClose(s)}
    PROVE  Final(e, t)
<1>1. CASE t \in {CloseAndNotify(s), DeallocateEndPoint(s)}
  <2>1. Good(e, t) /\ ~ t.ep
    BY <1>1, Closed
  <2> QED BY <2>1, Finishing
<1>2. CASE t \in {SendRST(s), ResetAndClose(s)}
  <2>1. Good(e, t) /\ ~ t.ep
    BY <1>2, SentReset
  <2> QED BY <2>1, Finishing
<1> QED BY <1>1, <1>2

LEMMA RcvType ==
    ASSUME NEW s \in SocketType, NEW x \in Nat, NEW t, t = [s EXCEPT !.rcvNxt = x]
    PROVE  t \in SocketType /\ t.nxt = s.nxt /\ t.rcvNxt = x
BY DEF SocketType

LEMMA SynSentStep ==
    ASSUME NEW e, Env(e), e.s.state = "SYN_SENT", NEW s, Fresh(e, s),
           NEW m \in e.A, SynRetries \in Nat, DataRetries \in Nat,
           NEW t, t = ProcessSynSent(s, m)
    PROVE  Final(e, t)
<1>1. e.s.state \in Handshake /\ e.n \in Node /\ e.a.wrote \in Nat
  BY DEF Handshake, Env, AppType
<1>2. /\ Base(e, s) /\ s \in SocketType /\ Shaking(e.n, e.a, s) /\ Final(e, s)
  BY <1>1, FreshShaking
<1>2a. s.ep /\ s.state = "SYN_SENT" /\ Half(e.a, s)
  BY <1>1, FreshShaking, HalfOf
<1>3. e.n = "c" /\ s.nxt = 0
  BY <1>2, <1>2a DEF Shaking
<1>4. /\ m.kind \in Kind /\ m.ack \in Nat /\ m.ack <= e.q.rcvNxt /\ e.b.opened
      /\ Carried(Peer(e.n), e.b, e.q, Past(e.s), m)
  BY Incoming, MessageFields
<1>5. m.kind # "SYN" /\ (m.kind = "SYNACK" => m.seq = 0)
  BY <1>3, <1>4 DEF Carried, Peer
<1>6. CASE m.kind = "SYNACK" /\ m.ack = s.nxt + 1
  <2> DEFINE s1 == [s EXCEPT !.rcvNxt = 1]
             k == [Connected(s1) EXCEPT !.state = "ESTABLISHED"]
             r == SendEmptyPacket(k, "ACK")
  <2>1. s1 \in SocketType /\ s1.nxt = 0 /\ s1.rcvNxt = 1
    <3>1. s1 \in SocketType /\ s1.nxt = s.nxt /\ s1.rcvNxt = 1
      BY <1>2, RcvType
    <3> QED BY <3>1, <1>3
  <2>2. k = [Connected(s) EXCEPT !.state = "ESTABLISHED", !.rcvNxt = m.seq + 1]
    <3>1. m.seq + 1 = 1
      BY <1>5, <1>6
    <3>2. [Connected(s) EXCEPT !.state = "ESTABLISHED", !.rcvNxt = 1] = k
      BY <1>2 DEF Connected, SocketType
    <3> QED BY <3>1, <3>2
  <2>3. t = SendPendingData(r)
    BY <1>6, <2>2 DEF ProcessSynSent
  <2>4. /\ s1.ep = s.ep /\ s1.size = s.size /\ s1.lost = s.lost
        /\ s1.sacked = s.sacked /\ s1.closeOnEmpty = s.closeOnEmpty /\ s1.shutdownSend = s.shutdownSend
        /\ s1.held = s.held /\ s1.unread = s.unread /\ s1.gotFin = s.gotFin /\ s1.got = s.got
        /\ s1.finSeq = s.finSeq /\ s1.out = s.out
    BY <1>2 DEF SocketType
  <2> HIDE DEF s1
  <2>5. Opened(s1, k)
    BY <2>1, ConnectedFields
  <2> HIDE DEF k
  <2>6. Opened(s, k)
    BY <2>4, <2>5 DEF Opened
  <2>7. 1 <= e.q.rcvNxt
    BY <1>3, <1>4, <1>6
  <2>8. Good(e, k) /\ k.ep /\ TimerOn(k) /\ ~ Finished(k)
    BY <1>1, <1>4, <2>6, <2>7, OpenedGood DEF Fresh
  <2>9. Good(e, r) /\ Quiet(k, r) /\ TimerOn(r) /\ r.state = k.state
    BY <2>8, SentAck
  <2> HIDE DEF r
  <2>10. Good(e, t) /\ Quiet(r, t) /\ StateStep(r, t) /\ TimerOn(t)
    BY <2>3, <2>9, SentPending
  <2>11. k.state = "ESTABLISHED" /\ k.una = 1
    BY <2>6 DEF Opened
  <2>12. ~ Finished(t) /\ t.una = 1
    BY <2>8, <2>9, <2>10, <2>11 DEF Quiet, Finished
  <2>13. Phase(t)
    BY <2>9, <2>10, <2>11, <2>12 DEF Phase, StateStep
  <2>14. t.una # e.a.wrote + 2
    BY <1>1, <2>12
  <2> QED BY <2>10, <2>13, <2>14, Finishing
<1>7. CASE m.kind = "SYNACK" /\ m.ack # s.nxt + 1
  <2>1. t = ResetAndClose(s)
    BY <1>7 DEF ProcessSynSent
  <2> QED BY <2>1, <1>2, <1>2a, ClosedFinal
<1>8. CASE m.kind = "RST"
  <2>1. t = CloseAndNotify(s)
    BY <1>8 DEF ProcessSynSent
  <2> QED BY <2>1, <1>2, <1>2a, ClosedFinal
<1>9. CASE m.kind \in {"ACK", "FIN"}
  <2>1. t = s
    BY <1>9 DEF ProcessSynSent
  <2> QED BY <2>1, <1>2
<1> QED BY <1>4, <1>5, <1>6, <1>7, <1>8, <1>9 DEF Kind

LEMMA SynRcvdStep ==
    ASSUME NEW e, Env(e), e.s.state = "SYN_RCVD", NEW s, Fresh(e, s),
           NEW m \in e.A, SynRetries \in Nat, DataRetries \in Nat,
           NEW t, t = ProcessSynRcvd(s, m)
    PROVE  Final(e, t)
<1> DEFINE k == [Connected(s) EXCEPT !.state = "ESTABLISHED"]
<1>1. e.s.state \in Handshake /\ e.n \in Node /\ e.a.wrote \in Nat
  BY DEF Handshake, Env, AppType
<1>2. /\ Base(e, s) /\ s \in SocketType /\ Shaking(e.n, e.a, s) /\ Final(e, s) /\ Asked(e.a, s)
      /\ ShakingBut(e.n, e.a, s)
  BY <1>1, FreshShaking
<1>2a. s.ep /\ s.state = "SYN_RCVD" /\ Half(e.a, s)
  BY <1>1, FreshShaking, HalfOf
<1>3. /\ e.n = "s" /\ s.nxt = 0 /\ s.rcvNxt = 1 /\ s.held = {} /\ ~ s.gotFin /\ s.unread = 0
      /\ s.got = 0
  BY <1>1, <1>2, <1>2a DEF Shaking, Node
<1>4. /\ m.kind \in Kind /\ m.ack \in Nat /\ m.ack <= e.q.rcvNxt /\ e.b.opened /\ m \in Message
      /\ Carried(Peer(e.n), e.b, e.q, Past(e.s), m)
  BY Incoming, MessageFields
<1>5. Opened(s, k)
  BY <1>2, <1>3, ConnectedFields
<1>6. ASSUME 1 <= m.ack
      PROVE  Good(e, k) /\ k.ep /\ TimerOn(k) /\ Outs(k) = {} /\ ~ Finished(k)
  <2>1. 1 <= e.q.rcvNxt
    <3>1. e.q.rcvNxt \in Nat
      BY SocketFields DEF Env
    <3> QED BY <1>4, <1>6, <3>1
  <2> HIDE DEF k
  <2> QED BY <1>1, <1>4, <1>5, <2>1, OpenedGood DEF Fresh
<1>7. k.state = "ESTABLISHED" /\ k.una = 1
  BY <1>5 DEF Opened
<1>8. CASE m.kind = "ACK" /\ m.ack = s.nxt + 1
  <2>1. t = ReceivedAck(k, m)
    BY <1>8 DEF ProcessSynRcvd
  <2> HIDE DEF k
  <2>2. /\ Good(e, k) /\ k.ep /\ TimerOn(k) /\ Outs(k) = {} /\ ~ Finished(k)
        /\ m.ack = 1 /\ (m.ack = e.a.wrote + 2 => e.finAck)
        /\ k.state \in Open \/ (k.state = "CLOSE_WAIT" /\ Finished(k))
    BY <1>1, <1>3, <1>6, <1>7, <1>8 DEF Open
  <2>3. /\ Good(e, t) /\ t.una \in {k.una, m.ack}
        /\ t.ep => TimerOn(t)
    BY <2>1, <2>2, AckReceived
  <2>4. IF m.kind # "FIN" /\ ~ Finished(k) /\ Finished(t)
               THEN t.state \in {"CLOSE_WAIT", "LAST_ACK", "CLOSED"}
               ELSE t.ep /\ StateStep(k, t)
    BY <2>1, <2>2, AckReceived
  <2>5. Phase(t)
    BY <2>2, <2>4, <1>7, <1>8 DEF Phase, StateStep
  <2>6. t.una # e.a.wrote + 2
    BY <2>2, <2>3, <1>1, <1>7
  <2> QED BY <2>3, <2>5, <2>6, Finishing
<1>9. CASE m.kind = "SYN"
  <2>1. m.seq + 1 = 1
    BY <1>4, <1>9 DEF Carried
  <2>2. [s EXCEPT !.rcvNxt = m.seq + 1] = s
    BY <2>1, <1>2, <1>3 DEF SocketType
  <2>3. t = SendEmptyPacket(s, SynOf(e.n))
    BY <1>3, <1>9, <2>2 DEF ProcessSynRcvd, SynOf
  <2> QED BY <2>3, <1>2, <1>2a, ShakeSent
<1>10. CASE m.kind = "FIN" /\ m.seq = s.rcvNxt
  <2>1. t = PeerClose(Connected(s), m)
    BY <1>10 DEF ProcessSynRcvd
  <2>2. PeerClose(Connected(s), m) = PeerClose(k, m)
    BY <1>2, <1>2a, <1>3, <1>4, <1>10, FinInSynRcvd
  <2>3. 1 <= m.ack
    BY <1>4, <1>10 DEF Carried
  <2>4. Good(e, k) /\ k.ep /\ TimerOn(k) /\ Outs(k) = {} /\ ~ Finished(k)
    BY <2>3, <1>6
  <2>5. t = PeerClose(k, m) /\ ~ Past(e.s)
    BY <2>1, <2>2 DEF Past, Env
  <2> HIDE DEF k
  <2>6. /\ Good(e, t) /\ (t.ep => TimerOn(t))
        /\ Phase(t) /\ t.state \in {"ESTABLISHED", "CLOSE_WAIT", "LAST_ACK", "CLOSED"}
    BY <1>7, <1>10, <2>4, <2>5, PeerCloseStep
  <2> QED BY <2>6, Finishing
<1>11. CASE t = s
  BY <1>2, <1>11
<1>12. CASE t \in {CloseAndNotify(s), ResetAndClose(s)}
  BY <1>2, <1>2a, <1>12, ClosedFinal
<1>13. \/ m.kind = "ACK" /\ m.ack = s.nxt + 1
       \/ m.kind = "SYN"
       \/ m.kind = "FIN" /\ m.seq = s.rcvNxt
       \/ t = s
       \/ t \in {CloseAndNotify(s), ResetAndClose(s)}
  BY <1>4 DEF ProcessSynRcvd, Kind
<1> QED BY <1>8, <1>9, <1>10, <1>11, <1>12, <1>13

LEMMA FreshGood ==
    ASSUME NEW e, Env(e), e.s.state \notin Handshake, NEW s, Fresh(e, s)
    PROVE  /\ Good(e, s) /\ TimerOn(s) /\ Phase(s) /\ Outs(s) = {} /\ s.ep /\ s.state = e.s.state
           /\ s.una = e.s.una /\ s.retx = e.s.retx
<1>1. Good(e, e.s) /\ TimerOn(e.s) /\ Phase(e.s) /\ Outs(e.s) = {} /\ e.s.ep
  BY StartGood
<1>2. Alike(e.s, s) /\ s.state = e.s.state /\ s.una = e.s.una /\ s.retx = e.s.retx /\ Outs(s) = {}
  BY <1>1 DEF Fresh, Alike
<1>3. s.ep
  BY <1>1 DEF Fresh, Alike
<1>4. Asked(e.a, s) /\ Receiver(s)
  BY <1>1 DEF Good, Core, Asked, Receiver, Fresh, Alike
<1>5. s.shutdownSend = e.s.shutdownSend
  BY DEF Fresh
<1>6. Good(e, s) /\ TimerOn(s)
  BY <1>1, <1>2, <1>4, <1>5, AlikeGood
<1>7. Phase(s)
  BY <1>1 DEF Phase, Finished, Fresh, Alike
<1> QED BY <1>2, <1>3, <1>6, <1>7

LEMMA ForwardStep ==
    ASSUME NEW e, Env(e), NEW m \in e.A, m.ack = e.a.wrote + 2 <=> e.finAck,
           SynRetries \in Nat, DataRetries \in Nat,
           NEW t, t = ForwardUp(e.s, m)
    PROVE  Final(e, t)
<1> DEFINE s == IF m.kind \in {"SYN", "SYNACK"} THEN [e.s EXCEPT !.cwnd = 2] ELSE e.s
<1>1. Fresh(e, s)
  <2>1. CASE m.kind \in {"SYN", "SYNACK"}
    <3>1. s = [e.s EXCEPT !.cwnd = 2]
      BY <2>1
    <3> HIDE DEF s
    <3> QED BY <3>1, WindowReset DEF Fresh
  <2>2. CASE m.kind \notin {"SYN", "SYNACK"}
    <3>1. s = e.s /\ e.s \in SocketType
      BY <2>2 DEF Env
    <3> HIDE DEF s
    <3> QED BY <3>1 DEF Fresh, Alike
  <2> QED BY <2>1, <2>2
<1>2. t = IF m.len > 0 /\ OutOfRange(e.s, m) THEN SendEmptyPacket(e.s, "ACK")
        ELSE CASE e.s.state = "ESTABLISHED" -> ProcessEstablished(s, m)
               [] e.s.state = "SYN_SENT" -> ProcessSynSent(s, m)
               [] e.s.state = "SYN_RCVD" -> ProcessSynRcvd(s, m)
               [] e.s.state \in {"FIN_WAIT_1", "FIN_WAIT_2", "CLOSE_WAIT"} -> ProcessWait(s, m)
               [] e.s.state = "CLOSING" -> ProcessClosing(s, m)
               [] e.s.state = "LAST_ACK" -> ProcessLastAck(s, m)
               [] e.s.state = "TIME_WAIT" -> s
  BY DEF ForwardUp
<1> HIDE DEF s
<1>3. CASE e.s.state \in Handshake
  <2>1. ~ OutOfRange(e.s, m)
    BY <1>3 DEF OutOfRange, Handshake
  <2>2. CASE e.s.state = "SYN_SENT"
    <3>1. t = ProcessSynSent(s, m)
      BY <1>2, <2>1, <2>2
    <3> QED BY <3>1, <1>1, <2>2, SynSentStep
  <2>3. CASE e.s.state = "SYN_RCVD"
    <3>1. t = ProcessSynRcvd(s, m)
      BY <1>2, <2>1, <2>3
    <3> QED BY <3>1, <1>1, <2>3, SynRcvdStep
  <2> QED BY <1>3, <2>2, <2>3 DEF Handshake
<1>4. CASE e.s.state \notin Handshake
  <2>1. /\ Good(e, s) /\ TimerOn(s) /\ Phase(s) /\ Outs(s) = {} /\ s.ep /\ s.state = e.s.state
        /\ s.una = e.s.una
    BY <1>1, <1>4, FreshGood
  <2>2. /\ Good(e, e.s) /\ TimerOn(e.s) /\ Phase(e.s) /\ e.s.ep
        /\ e.s.una = e.a.wrote + 2 /\ e.s.state = "FIN_WAIT_1" => Past(e.q)
    BY <1>4, StartGood
  <2>3. e.s.state \in State \ (Handshake \cup {"CLOSED"})
    BY <2>2, SocketFields DEF Good, Core, Env
  <2>4. CASE m.len > 0 /\ OutOfRange(e.s, m)
    <3>1. t = SendEmptyPacket(e.s, "ACK")
      BY <1>2, <2>4
    <3>2. Good(e, t) /\ Quiet(e.s, t) /\ t.state = e.s.state /\ TimerOn(t)
      BY <3>1, <2>2, SentAck
    <3>3. Phase(t) /\ t.una = e.s.una
      BY <3>2, <2>2 DEF Quiet, Phase, Finished
    <3> QED BY <2>2, <3>2, <3>3, Finishing
  <2>5. CASE ~ (m.len > 0 /\ OutOfRange(e.s, m))
    <3>1. CASE e.s.state = "ESTABLISHED"
      <4>1. t = ProcessEstablished(s, m) /\ ~ Past(e.s)
        BY <1>2, <2>2, <2>5, <3>1 DEF Past
      <4> QED BY <4>1, <2>1, <3>1, EstablishedStep
    <3>2. CASE e.s.state \in {"FIN_WAIT_1", "FIN_WAIT_2", "CLOSE_WAIT"}
      <4>1. t = ProcessWait(s, m) /\ ~ Past(e.s)
        BY <1>2, <2>2, <2>5, <3>2 DEF Past
      <4>2. s.una = e.a.wrote + 2 /\ s.state = "FIN_WAIT_1" => Past(e.q)
        BY <2>1, <2>2
      <4> QED BY <4>1, <4>2, <2>1, <3>2, WaitStep
    <3>3. CASE e.s.state \in {"CLOSING", "LAST_ACK", "TIME_WAIT"}
      <4>1. \/ s.state = "CLOSING" /\ t = ProcessClosing(s, m)
            \/ s.state = "LAST_ACK" /\ t = ProcessLastAck(s, m)
            \/ t = s
        BY <1>2, <2>1, <2>5, <3>3
      <4> QED BY <4>1, <2>1, <3>3, LateStep
    <3> QED BY <2>3, <3>1, <3>2, <3>3 DEF State, Handshake
  <2> QED BY <2>4, <2>5
<1> QED BY <1>3, <1>4

(***************************************************************************)
(* What a handler leaves is again a state of the connection.               *)
(***************************************************************************)
LEMMA OutCleared ==
    ASSUME NEW t \in SocketType, NEW u, u = [t EXCEPT !.out = << >>]
    PROVE  /\ u \in SocketType /\ u.out = << >>
           /\ u.state = t.state /\ u.ep = t.ep /\ u.una = t.una /\ u.size = t.size
           /\ u.nxt = t.nxt /\ u.high = t.high /\ u.lost = t.lost /\ u.sacked = t.sacked
           /\ u.closeOnEmpty = t.closeOnEmpty /\ u.shutdownSend = t.shutdownSend
           /\ u.rcvNxt = t.rcvNxt /\ u.held = t.held /\ u.unread = t.unread
           /\ u.gotFin = t.gotFin /\ u.finSeq = t.finSeq /\ u.got = t.got
           /\ u.retx = t.retx /\ u.lastAck = t.lastAck /\ u.timewait = t.timewait
           /\ u.sendPending = t.sendPending
<1>1. << >> \in Seq(Message)
  OBVIOUS
<1>2. u \in SocketType
  BY <1>1 DEF SocketType
<1>3. u.out = << >>
  BY DEF SocketType
<1> QED BY <1>2, <1>3, ZenonT(40) DEF SocketType

LEMMA HandledLocal ==
    ASSUME NEW e, Env(e), NEW t, Final(e, t), NEW u, u = [t EXCEPT !.out = << >>]
    PROVE  Local(e.n, e.a, u)
<1>1. t \in SocketType /\ Counted(t)
  BY DEF Final, Base
<1>2. /\ u \in SocketType /\ u.out = << >>
      /\ u.state = t.state /\ u.ep = t.ep /\ u.una = t.una /\ u.size = t.size
      /\ u.nxt = t.nxt /\ u.high = t.high /\ u.lost = t.lost /\ u.sacked = t.sacked
      /\ u.closeOnEmpty = t.closeOnEmpty /\ u.shutdownSend = t.shutdownSend
      /\ u.rcvNxt = t.rcvNxt /\ u.held = t.held /\ u.unread = t.unread
      /\ u.gotFin = t.gotFin /\ u.finSeq = t.finSeq /\ u.got = t.got
      /\ u.retx = t.retx /\ u.lastAck = t.lastAck /\ u.timewait = t.timewait
      /\ u.sendPending = t.sendPending
  BY <1>1, OutCleared
<1>3. Counted(u)
  BY <1>1, <1>2 DEF Counted, Finished
<1>4. e.a \in AppType /\ e.a.opened
  BY DEF Env, Local
<1>5. CASE ~ t.ep
  <2>1. Gone(u) /\ ~ u.ep
    BY <1>2, <1>5 DEF Final, Gone
  <2>2. Half(e.a, u)
    BY <1>2, <1>5 DEF Final, Half
  <2> QED BY <1>2, <1>3, <1>4, <2>1, <2>2 DEF Local
<1>6. CASE t.ep /\ t.state \in Handshake
  <2>1. Shaking(e.n, e.a, t) /\ Asked(e.a, t)
    BY <1>6 DEF Final
  <2>2. Shaking(e.n, e.a, u) /\ Asked(e.a, u)
    BY <1>2, <2>1 DEF Shaking, Asked
  <2>3. u.ep /\ u.state \in Handshake
    BY <1>2, <1>6
  <2> QED BY <1>2, <1>3, <1>4, <2>2, <2>3 DEF Local
<1>7. CASE t.ep /\ t.state \notin Handshake
  <2>1. Synced(e.a, t) /\ Phase(t)
    BY <1>7 DEF Final
  <2>2. Synced(e.a, u)
    <3>1. Line(e.a, u) /\ Marks(u) /\ (FinOut(e.a, t) <=> FinOut(e.a, u))
      BY <1>2, <2>1 DEF Synced, Sender, Line, Marks, FinOut
    <3>2. Sender(e.a, u)
      BY <1>2, <2>1, <3>1 DEF Synced, Sender
    <3>3. Asked(e.a, u) /\ Timer(e.a, u) /\ Receiver(u)
      BY <1>2, <2>1, <3>1 DEF Synced, Asked, Timer, Receiver
    <3> QED BY <1>2, <2>1, <3>2, <3>3 DEF Synced
  <2>3. Phase(u)
    BY <1>2, <2>1 DEF Phase, Finished
  <2>4. u.ep /\ u.state \notin Handshake
    BY <1>2, <1>7
  <2> QED BY <1>2, <1>3, <1>4, <2>2, <2>3, <2>4 DEF Local
<1> QED BY <1>5, <1>6, <1>7

LEMMA HandledOut ==
    ASSUME NEW e, Env(e), NEW t, Final(e, t), NEW rest \in SUBSET e.A, NEW N, N \subseteq e.B \cup Outs(t)
    PROVE  Direction(e.n, e.a, t, e.q, N, rest)
<1>1. /\ t \in SocketType /\ e.s \in SocketType /\ e.q \in SocketType /\ e.a \in AppType /\ e.n \in Node
      /\ e.s.ep /\ e.a.opened /\ Base(e, t) /\ Grown(e.a, e.s, t) /\ Acked(e, t)
      /\ Direction(e.n, e.a, e.s, e.q, e.B, e.A)
  BY DEF Final, Base, Env, Local
<1>2. \A m \in N : Carried(e.n, e.a, t, Past(e.q), m)
  <2> SUFFICES ASSUME NEW m \in N PROVE Carried(e.n, e.a, t, Past(e.q), m)
    OBVIOUS
  <2>1. CASE m \in e.B
    <3>1. Carried(e.n, e.a, e.s, Past(e.q), m)
      BY <1>1, <2>1 DEF Direction
    <3> QED BY <1>1, <3>1, CarriedGrows
  <2>2. CASE m \in Outs(t)
    BY <1>1, <2>2 DEF Base
  <2> QED BY <2>1, <2>2
<1>3. Arrived(e.a, t, e.q)
  <2>1. Arrived(e.a, e.s, e.q)
    BY <1>1 DEF Direction
  <2>2. /\ e.s.high \in Nat /\ t.high \in Nat /\ e.q.rcvNxt \in Nat /\ e.q.held \subseteq Nat
        /\ SentUpTo(e.s) \in Nat /\ SentUpTo(t) \in Nat
    BY <1>1, SocketFields DEF SentUpTo
  <2>3. t.ep => \A x \in e.q.held : x < t.high
    BY <1>1, <2>1, <2>2 DEF Arrived, Grown
  <2>4. t.ep => e.q.rcvNxt <= SentUpTo(t) \/ e.q.rcvNxt = e.a.wrote + 2
    BY <1>1, <2>1, <2>2 DEF Arrived, Grown
  <2> QED BY <1>1, <2>1, <2>3, <2>4 DEF Arrived, Grown
<1>4. Reports(e.a, t, e.q, rest)
  <2>1. Reports(e.a, e.s, e.q, e.A)
    BY <1>1 DEF Direction
  <2>2. t.ep /\ t.una = e.a.wrote + 2 /\ (t.retx = "FIN" \/ t.state \in {"FIN_WAIT_1", "CLOSING"}) => Past(e.q)
    BY <1>1 DEF Final, Acked
  <2>3. 2 \in t.sacked \/ (\E m \in rest : 2 \in m.sack) => Early(e.q)
    BY <1>1, <2>1 DEF Reports, Acked
  <2>4. t.una = 2 \/ e.q.rcvNxt = 2 \/ (\E m \in rest : m.ack = 2) =>
          2 \notin t.sacked /\ \A m \in rest : 2 \notin m.sack
    <3> SUFFICES ASSUME t.una = 2 \/ e.q.rcvNxt = 2 \/ (\E m \in rest : m.ack = 2)
                 PROVE  2 \notin t.sacked /\ \A m \in rest : 2 \notin m.sack
      OBVIOUS
    <3>1. e.s.una = 2 \/ e.q.rcvNxt = 2 \/ (\E m \in e.A : m.ack = 2)
      BY <1>1 DEF Acked
    <3>2. 2 \notin e.s.sacked /\ \A m \in e.A : 2 \notin m.sack
      BY <2>1, <3>1 DEF Reports
    <3> QED BY <3>2, <1>1 DEF Acked
  <2> QED BY <1>1, <2>1, <2>2, <2>3, <2>4 DEF Reports, Acked
<1> QED BY <1>1, <1>2, <1>3, <1>4 DEF Direction

LEMMA HandledIn ==
    ASSUME NEW e, Env(e), NEW t, Final(e, t), NEW rest \in SUBSET e.A, NEW N, N \subseteq e.B \cup Outs(t)
    PROVE  Direction(Peer(e.n), e.b, e.q, t, rest, N)
<1>1. /\ t \in SocketType /\ e.s \in SocketType /\ e.q \in SocketType /\ e.b \in AppType
      /\ e.s.ep /\ Base(e, t) /\ Grown(e.a, e.s, t)
      /\ Direction(Peer(e.n), e.b, e.q, e.s, e.A, e.B)
  BY DEF Final, Base, Env
<1>2. /\ e.s.rcvNxt \in Nat /\ t.rcvNxt \in Nat /\ e.q.una \in Nat /\ e.s.una \in Nat /\ t.una \in Nat
      /\ e.s.rcvNxt <= t.rcvNxt /\ e.s.una <= t.una
  BY <1>1, SocketFields DEF Grown
<1>3. \A m \in rest : Carried(Peer(e.n), e.b, e.q, Past(t), m)
  BY <1>1 DEF Direction, Carried, Grown
<1>4. Reports(e.b, e.q, e.s, e.B)
  BY <1>1 DEF Direction
<1>5. ASSUME NEW m \in e.B PROVE m \in Message /\ m.ack \in Nat /\ m.seq \in Nat /\ m.ack <= e.s.rcvNxt
  <2>1. m \in Message
    BY <1>5 DEF Env, Direction, Carried
  <2> QED BY <2>1, <1>4, MessageFields DEF Reports
<1>6. ASSUME NEW m \in Outs(t)
      PROVE  m \in Message /\ m.ack \in Nat /\ m.ack <= t.rcvNxt /\ Reported(e, t, m)
  <2>1. m \in Message /\ Reported(e, t, m)
    BY <1>1, <1>6 DEF Base, Carried
  <2> QED BY <2>1, MessageFields DEF Reported
<1>7. \A m \in N : m.ack <= t.rcvNxt
  BY <1>2, <1>5, <1>6
<1>8. ASSUME NEW m \in N, m.kind = "FIN", m.ack = e.b.wrote + 2
      PROVE  Past(t) \/ (m.len = 0 /\ m.seq <= t.una)
  <2>1. CASE m \in e.B
    <3>1. Past(e.s) \/ (m.len = 0 /\ m.seq <= e.s.una)
      BY <1>4, <1>8, <2>1 DEF Reports
    <3> QED BY <3>1, <1>1, <1>2, <1>5, <2>1 DEF Grown
  <2>2. CASE m \in Outs(t)
    <3>1. Past(t) \/ (m.len = 0 /\ m.seq <= t.una) \/ (t.state \in Open /\ Finished(t))
      BY <1>6, <1>8, <2>2 DEF Reported
    <3>2. t.ep /\ t.state \in Open => ~ Finished(t)
      BY DEF Final, Phase, Open, Handshake
    <3> QED BY <3>1, <3>2 DEF Past
  <2> QED BY <1>8, <2>1, <2>2
<1>9. e.q.ep /\ e.q.una = e.b.wrote + 2 /\ (e.q.retx = "FIN" \/ e.q.state \in {"FIN_WAIT_1", "CLOSING"}) => Past(t)
  BY <1>1, <1>4 DEF Reports, Grown
<1>10. 2 \in e.q.sacked \/ (\E m \in N : 2 \in m.sack) => Early(t)
  <2>1. 2 \in e.q.sacked \/ (\E m \in e.B : 2 \in m.sack) => Early(t)
    BY <1>1, <1>4 DEF Reports, Grown
  <2>2. (\E m \in Outs(t) : 2 \in m.sack) => Early(t)
    BY <1>6 DEF Reported, Early
  <2> QED BY <2>1, <2>2
<1>11. ASSUME e.q.una = 2 \/ t.rcvNxt = 2 \/ (\E m \in N : m.ack = 2)
       PROVE  2 \notin e.q.sacked /\ \A m \in N : 2 \notin m.sack
  <2>1. 2 <= t.rcvNxt
    <3>1. e.q.una <= e.s.rcvNxt
      BY <1>4 DEF Reports
    <3> QED BY <1>2, <1>7, <1>11, <3>1
  <2>2. \A m \in Outs(t) : 2 \notin m.sack
    BY <1>2, <1>6, <2>1 DEF Reported
  <2>3. e.q.una = 2 \/ e.s.rcvNxt = 2 \/ (\E m \in e.B : m.ack = 2) \/ NoJump(e.s)
    BY <1>1, <1>6, <1>11 DEF Base, Reported
  <2>4. 2 \notin e.q.sacked /\ \A m \in e.B : 2 \notin m.sack
    <3>1. CASE e.q.una = 2 \/ e.s.rcvNxt = 2 \/ (\E m \in e.B : m.ack = 2)
      BY <1>4, <3>1 DEF Reports
    <3>2. CASE NoJump(e.s) /\ e.s.rcvNxt # 2
      <4>1. ~ Early(e.s)
        BY <3>2, <1>1, <1>2 DEF NoJump, Early
      <4> QED BY <4>1, <1>4 DEF Reports
    <3> QED BY <2>3, <3>1, <3>2
  <2> QED BY <2>2, <2>4
<1>12. Reports(e.b, e.q, t, N)
  <2>1. e.q.una <= t.rcvNxt
    BY <1>2, <1>4 DEF Reports
  <2> QED BY <2>1, <1>7, <1>8, <1>9, <1>10, <1>11 DEF Reports
<1>13. Arrived(e.b, e.q, t) /\ (~ e.b.opened => rest = {} /\ t.rcvNxt = 0)
  BY <1>1 DEF Base, Direction
<1> QED BY <1>3, <1>12, <1>13 DEF Direction

\* The messages sent do not matter to either direction.
LEMMA SameDirections ==
    ASSUME NEW t \in SocketType, NEW u, u = [t EXCEPT !.out = << >>], NEW n, NEW p, NEW a, NEW b, NEW q,
           NEW M, NEW A
    PROVE  /\ Direction(n, a, t, q, M, A) => Direction(n, a, u, q, M, A)
           /\ Direction(p, b, q, t, A, M) => Direction(p, b, q, u, A, M)
<1>1. /\ u.state = t.state /\ u.ep = t.ep /\ u.una = t.una /\ u.high = t.high
      /\ u.sacked = t.sacked /\ u.rcvNxt = t.rcvNxt /\ u.held = t.held
      /\ u.gotFin = t.gotFin /\ u.finSeq = t.finSeq /\ u.got = t.got /\ u.retx = t.retx
  BY OutCleared
<1>2. /\ FinOut(a, u) = FinOut(a, t) /\ Clean(u) = Clean(t) /\ Past(u) = Past(t)
      /\ SentUpTo(u) = SentUpTo(t) /\ Early(u) = Early(t) /\ Finished(u) = Finished(t)
  BY <1>1 DEF FinOut, Clean, Past, SentUpTo, Early, Finished
<1>3. ASSUME NEW m PROVE Carried(n, a, t, Past(q), m) => Carried(n, a, u, Past(q), m)
  BY <1>1, <1>2 DEF Carried
<1>4. Arrived(a, t, q) => Arrived(a, u, q)
  BY <1>1, <1>2 DEF Arrived
<1>5. Reports(a, t, q, A) => Reports(a, u, q, A)
  BY <1>1, <1>2 DEF Reports
<1>6. Direction(n, a, t, q, M, A) => Direction(n, a, u, q, M, A)
  BY <1>3, <1>4, <1>5 DEF Direction
<1>7. ASSUME NEW m PROVE Carried(p, b, q, Past(t), m) => Carried(p, b, q, Past(u), m)
  BY <1>2 DEF Carried
<1>8. Arrived(b, q, t) => Arrived(b, q, u)
  BY <1>1, <1>2 DEF Arrived
<1>9. Reports(b, q, t, M) => Reports(b, q, u, M)
  BY <1>1, <1>2 DEF Reports
<1>10. Direction(p, b, q, t, A, M) => Direction(p, b, q, u, A, M)
  BY <1>1, <1>7, <1>8, <1>9 DEF Direction
<1> QED BY <1>6, <1>10

(***************************************************************************)
(* The network.                                                            *)
(***************************************************************************)
Join(w, others, x) == IF Cardinality(w) + Cardinality(others) < NetCapacity THEN w \cup {x} ELSE w

JoinsUpTo(m, f, waiting, others, ms) ==
    f = [i \in 0 .. m |-> IF i = 0 THEN waiting ELSE Join(f[i - 1], others, ms[i])]

LEMMA JoinsExist ==
    ASSUME NEW waiting, NEW others, NEW ms, NEW k \in Nat
    PROVE  \E f : JoinsUpTo(k, f, waiting, others, ms)
<1> DEFINE S == {m \in 0 .. k : \E f : JoinsUpTo(m, f, waiting, others, ms)}
<1>1. 0 \in S
  <2> DEFINE f == [i \in 0 .. 0 |-> waiting]
  <2>1. f = [i \in 0 .. 0 |-> IF i = 0 THEN waiting ELSE Join(f[i - 1], others, ms[i])]
    OBVIOUS
  <2> HIDE DEF f
  <2> QED BY <2>1 DEF JoinsUpTo
<1>2. ASSUME NEW m \in 0 .. (k - 1), m \in S PROVE m + 1 \in S
  <2>1. PICK f : JoinsUpTo(m, f, waiting, others, ms)
    BY <1>2
  <2> DEFINE g == [i \in 0 .. (m + 1) |-> IF i <= m THEN f[i] ELSE Join(f[m], others, ms[m + 1])]
  <2>2. \A i \in 0 .. m : g[i] = f[i]
    OBVIOUS
  <2>3. g[m + 1] = Join(f[m], others, ms[m + 1])
    OBVIOUS
  <2>4. \A i \in 0 .. m : f[i] = IF i = 0 THEN waiting ELSE Join(f[i - 1], others, ms[i])
    BY <2>1, Zenon DEF JoinsUpTo
  <2>5. DOMAIN g = 0 .. (m + 1) /\ g = [i \in DOMAIN g |-> g[i]]
    OBVIOUS
  <2> HIDE DEF g
  <2>6. ASSUME NEW i \in 0 .. (m + 1)
        PROVE  g[i] = IF i = 0 THEN waiting ELSE Join(g[i - 1], others, ms[i])
    <3>1. i = 0 \/ i - 1 \in 0 .. m
      OBVIOUS
    <3>2. i = m + 1 \/ i \in 0 .. m
      OBVIOUS
    <3> QED BY <3>1, <3>2, <2>2, <2>3, <2>4
  <2>7. g = [i \in 0 .. (m + 1) |-> IF i = 0 THEN waiting ELSE Join(g[i - 1], others, ms[i])]
    BY <2>5, <2>6
  <2>8. JoinsUpTo(m + 1, g, waiting, others, ms)
    BY <2>7, Zenon DEF JoinsUpTo
  <2> QED BY <2>8
<1> HIDE DEF S
<1>3. \A i \in 0 .. k : i \in S
  BY <1>1, <1>2, UpTo
<1> QED BY <1>3 DEF S

\* What arrives was on its way or has been sent.
LEMMA Enqueued ==
    ASSUME NEW waiting, NEW others, NEW ms \in Seq(Message)
    PROVE  Enqueue(waiting, others, ms) \subseteq waiting \cup {ms[i] : i \in 1 .. Len(ms)}
<1> DEFINE k == Len(ms)
           put == CHOOSE f : JoinsUpTo(k, f, waiting, others, ms)
           all == waiting \cup {ms[i] : i \in 1 .. k}
           S == {i \in 0 .. k : put[i] \subseteq all}
<1>0. k \in Nat
  OBVIOUS
<1>1. Enqueue(waiting, others, ms) = put[k]
  BY Zenon DEF Enqueue, JoinsUpTo, Join
<1> HIDE DEF k
<1>2. JoinsUpTo(k, put, waiting, others, ms)
  BY <1>0, JoinsExist, Zenon
<1> HIDE DEF put
<1>3. \A i \in 0 .. k : put[i] = IF i = 0 THEN waiting ELSE Join(put[i - 1], others, ms[i])
  BY <1>2, Zenon DEF JoinsUpTo
<1>4. 0 \in S
  <2>1. 0 \in 0 .. k
    BY <1>0
  <2> QED BY <1>3, <2>1
<1>5. ASSUME NEW i \in 0 .. (k - 1), i \in S PROVE i + 1 \in S
  <2>1. i + 1 \in 0 .. k /\ i + 1 # 0 /\ (i + 1) - 1 = i /\ i + 1 \in 1 .. k
    BY <1>0
  <2>2. put[i + 1] = Join(put[i], others, ms[i + 1])
    BY <1>3, <2>1
  <2>3. put[i] \subseteq all /\ ms[i + 1] \in all
    BY <1>5, <2>1
  <2> QED BY <2>1, <2>2, <2>3 DEF Join
<1>6. put[k] \subseteq all
  <2> HIDE DEF S
  <2>1. \A i \in 0 .. k : i \in S
    BY <1>0, <1>4, <1>5, UpTo
  <2>2. k \in S
    BY <2>1, <1>0
  <2> QED BY <2>2 DEF S
<1> QED BY <1>1, <1>6 DEF k

LEMMA Peers ==
    ASSUME NEW n \in Node
    PROVE  Peer(n) \in Node /\ Peer(n) # n /\ Peer(Peer(n)) = n /\ Node = {n, Peer(n)}
BY DEF Node, Peer

\* g is f but for n, where it is v.
Becomes(f, g, n, v) == DOMAIN g = Node /\ g[n] = v /\ g[Peer(n)] = f[Peer(n)]

LEMMA BecomesExcept ==
    ASSUME NEW n \in Node, NEW f, DOMAIN f = Node, NEW v, NEW g,
           \/ g = [f EXCEPT ![n] = v]
           \/ g = f /\ v = f[n]
    PROVE  Becomes(f, g, n, v)
BY Peers DEF Becomes

\* A step of n that leaves its socket at u, its application at a, and the messages M and N.
LEMMA Assemble ==
    ASSUME ConnInv, NEW n \in Node, NEW u, NEW a, NEW M, NEW N,
           Becomes(sock, sock', n, u), Becomes(app, app', n, a),
           DOMAIN net' = Node, net'[n] = M, net'[Peer(n)] = N,
           IF n = "s" THEN a.opened => app["c"].opened ELSE app["s"].opened => a.opened,
           Local(n, a, u), Direction(n, a, u, sock[Peer(n)], N, M),
           Direction(Peer(n), app[Peer(n)], sock[Peer(n)], u, M, N)
    PROVE  ConnInv'
<1> DEFINE p == Peer(n)
<1>1. p \in Node /\ p # n /\ Peer(p) = n /\ Node = {n, p}
  BY Peers
<1>3. DOMAIN sock' = Node /\ DOMAIN app' = Node /\ DOMAIN net' = Node
  BY DEF Becomes
<1>4. sock'[n] = u /\ sock'[p] = sock[p] /\ app'[n] = a /\ app'[p] = app[p]
  BY DEF Becomes
<1>5. net'[n] = M /\ net'[p] = N
  OBVIOUS
<1>6. Local(p, app[p], sock[p])
  BY <1>1 DEF ConnInv
<1>7. app'["s"].opened => app'["c"].opened
  BY <1>1, <1>4 DEF Node, ConnInv, Peer
<1> HIDE DEF p
<1>8. \A k \in Node : Local(k, app'[k], sock'[k])
  BY <1>1, <1>4, <1>6
<1>9. Direction(n, app'[n], sock'[n], sock'[Peer(n)], net'[Peer(n)], net'[n])
  BY <1>4, <1>5 DEF p
<1>10. Direction(p, app'[p], sock'[p], sock'[Peer(p)], net'[Peer(p)], net'[p])
  BY <1>1, <1>4, <1>5 DEF p
<1>11. \A k \in Node : Direction(k, app'[k], sock'[k], sock'[Peer(k)], net'[Peer(k)], net'[k])
  BY <1>1, <1>9, <1>10
<1> QED BY <1>3, <1>7, <1>8, <1>11 DEF ConnInv

\* The handler that runs on n, with the application at a.
At(n, a, f) ==
    [n |-> n, a |-> a, b |-> app[Peer(n)], s |-> sock[n], q |-> sock[Peer(n)],
     A |-> net[n], B |-> net[Peer(n)], finAck |-> f]

LEMMA AtEnv ==
    ASSUME ConnInv, NEW n \in Node, sock[n].ep, NEW f
    PROVE  Env(At(n, app[n], f))
<1> DEFINE e == At(n, app[n], f)
           p == Peer(n)
<1>1. p \in Node /\ Peer(p) = n
  BY Peers
<1>2. /\ Local(n, app[n], sock[n]) /\ Local(p, app[p], sock[p])
      /\ Direction(n, app[n], sock[n], sock[p], net[p], net[n])
      /\ Direction(p, app[p], sock[p], sock[n], net[n], net[p])
  BY <1>1 DEF ConnInv
<1>3. /\ e.n = n /\ e.a = app[n] /\ e.b = app[p] /\ e.s = sock[n] /\ e.q = sock[p]
      /\ e.A = net[n] /\ e.B = net[p]
  BY DEF At
<1> HIDE DEF e, p
<1>4. /\ sock[n] \in SocketType /\ app[n] \in AppType /\ sock[p] \in SocketType /\ app[p] \in AppType
  BY <1>2 DEF Local
<1>5. Env(e)
  BY <1>2, <1>3, <1>4 DEF Env, p
<1> QED BY <1>5 DEF e

LEMMA ActorStep ==
    ASSUME ConnInv, NEW n \in Node, NEW a, NEW f, NEW h, NEW rest \in SUBSET net[n],
           Env(At(n, a, f)), Final(At(n, a, f), h),
           Becomes(app, app', n, a), a.opened = app[n].opened, Dispatch(n, h, rest)
    PROVE  ConnInv'
<1> DEFINE e == At(n, a, f)
           p == Peer(n)
           u == [h EXCEPT !.out = << >>]
           N == Enqueue(net[p], rest, h.out)
<1>1. /\ e.n = n /\ e.a = a /\ e.b = app[p] /\ e.s = sock[n] /\ e.q = sock[p]
      /\ e.A = net[n] /\ e.B = net[p]
  BY DEF At
<1>2. Becomes(sock, sock', n, u) /\ DOMAIN net' = Node /\ net'[n] = rest /\ net'[p] = N
  <2>1. DOMAIN net = Node /\ DOMAIN sock = Node /\ p \in Node /\ p # n
    BY Peers DEF ConnInv
  <2>2. Becomes(sock, sock', n, u)
    BY <2>1, BecomesExcept DEF Dispatch
  <2> QED BY <2>1, <2>2 DEF Dispatch
<1>3. h \in SocketType
  BY DEF Final, Base
<1>4. N \subseteq net[p] \cup Outs(h)
  <2>1. h.out \in Seq(Message)
    BY <1>3, SocketFields
  <2>2. N \subseteq net[p] \cup {h.out[i] : i \in 1 .. Len(h.out)}
    BY <2>1, Enqueued
  <2> QED BY <2>2 DEF Outs
<1> HIDE DEF e, p, u, N
<1>5. Env(e) /\ Final(e, h)
  BY DEF e
<1>6. Local(n, a, u)
  BY <1>1, <1>5, HandledLocal DEF u
<1>7. Direction(n, a, h, sock[p], N, rest) /\ Direction(Peer(n), app[p], sock[p], h, rest, N)
  <2>1. rest \in SUBSET e.A /\ N \subseteq e.B \cup Outs(h)
    BY <1>1, <1>4
  <2>2. Direction(e.n, e.a, h, e.q, N, rest)
    BY <1>5, <2>1, HandledOut
  <2>3. Direction(Peer(e.n), e.b, e.q, h, rest, N)
    BY <1>5, <2>1, HandledIn
  <2> QED BY <1>1, <2>2, <2>3
<1>8. Direction(n, a, u, sock[p], N, rest) /\ Direction(Peer(n), app[p], sock[p], u, rest, N)
  BY <1>3, <1>7, SameDirections DEF u
<1>9. IF n = "s" THEN a.opened => app["c"].opened ELSE app["s"].opened => a.opened
  BY DEF ConnInv, Node
<1> QED BY <1>2, <1>6, <1>8, <1>9, Assemble DEF p

(***************************************************************************)
(* The timers.                                                             *)
(***************************************************************************)
\* t is s with m_retxEvent expired.
Expired(s, t) ==
    /\ t \in SocketType /\ t.state = s.state /\ t.ep = s.ep /\ t.una = s.una /\ t.size = s.size
    /\ t.nxt = s.nxt /\ t.high = s.high /\ t.lost = s.lost /\ t.sacked = s.sacked
    /\ t.closeOnEmpty = s.closeOnEmpty /\ t.shutdownSend = s.shutdownSend
    /\ t.rcvNxt = s.rcvNxt /\ t.held = s.held /\ t.unread = s.unread
    /\ t.gotFin = s.gotFin /\ t.finSeq = s.finSeq /\ t.got = s.got /\ t.retx = "none"
    /\ t.lastAck = s.lastAck /\ t.out = s.out /\ t.sendPending = s.sendPending /\ t.retr = s.retr

LEMMA ExpiredFields ==
    ASSUME NEW s \in SocketType, NEW t, t = [s EXCEPT !.retx = "none"]
    PROVE  Expired(s, t)
<1>1. t \in SocketType
  BY DEF SocketType
<1>2. /\ t.state = s.state /\ t.ep = s.ep /\ t.una = s.una /\ t.size = s.size
      /\ t.nxt = s.nxt /\ t.high = s.high /\ t.lost = s.lost /\ t.sacked = s.sacked
      /\ t.closeOnEmpty = s.closeOnEmpty /\ t.shutdownSend = s.shutdownSend
  BY DEF SocketType
<1>3. /\ t.rcvNxt = s.rcvNxt /\ t.held = s.held /\ t.unread = s.unread
      /\ t.gotFin = s.gotFin /\ t.finSeq = s.finSeq /\ t.got = s.got /\ t.retx = "none"
      /\ t.lastAck = s.lastAck /\ t.out = s.out /\ t.sendPending = s.sendPending /\ t.retr = s.retr
  BY DEF SocketType
<1> QED BY <1>1, <1>2, <1>3 DEF Expired

\* t is s with one event fewer.
Stopped(s, t) ==
    /\ t \in SocketType /\ t.state = s.state /\ t.ep = s.ep /\ t.una = s.una /\ t.high = s.high
    /\ t.sacked = s.sacked /\ t.rcvNxt = s.rcvNxt /\ t.held = s.held /\ t.unread = s.unread
    /\ t.gotFin = s.gotFin /\ t.finSeq = s.finSeq /\ t.got = s.got /\ t.retx \in {s.retx, "none"}
    /\ t.out = s.out

LEMMA StoppedBase ==
    ASSUME NEW e, Env(e), NEW t, Stopped(e.s, t)
    PROVE  Base(e, t) /\ Outs(t) = {} /\ t.ep
<1>1. Base(e, e.s) /\ Outs(e.s) = {} /\ e.s \in SocketType /\ e.s.ep
  BY StartBase DEF Env
<1>2. t.ep
  BY <1>1 DEF Stopped
<1>3. t \in SocketType /\ Outs(t) = Outs(e.s) /\ t.state = e.s.state
  BY DEF Stopped, Outs
<1>4. Quiet(e.s, t)
  BY <1>1, <1>2 DEF Stopped, Quiet
<1>5. Grown(e.a, e.s, t)
  <2>1. e.s.high <= t.high /\ e.s.una <= t.una /\ e.s.rcvNxt <= t.rcvNxt
    BY <1>1, SocketFields DEF Stopped
  <2>2. SentUpTo(t) = SentUpTo(e.s) /\ SentUpTo(e.s) <= SentUpTo(e.s)
    BY <1>1, SocketFields DEF Stopped, SentUpTo
  <2>3. /\ FinOut(e.a, e.s) => FinOut(e.a, t)
        /\ Clean(t) => Clean(e.s)
        /\ Past(e.s) => Past(t)
        /\ Early(e.s) => Early(t)
    BY <1>1, <1>2 DEF Stopped, FinOut, Clean, Past, Early
  <2> QED BY <1>1, <2>1, <2>2, <2>3 DEF Grown
<1>6. t.una = e.a.wrote + 2 /\ (t.retx = "FIN" \/ t.state = "CLOSING") => Past(e.q)
  BY <1>1 DEF Stopped, Base, Acked
<1>7. Base(e, t)
  <2>1. \A m \in Outs(t) : m \in Outs(e.s)
    BY <1>3
  <2>2. ~ \E m \in Outs(e.s) : m.kind = "FIN"
    BY <1>1
  <2> QED BY <1>1, <1>2, <1>3, <1>4, <1>5, <1>6, <2>1, <2>2, BaseStep
<1> QED BY <1>1, <1>2, <1>3, <1>7

LEMMA ExpiredBase ==
    ASSUME NEW e, Env(e), NEW t, Expired(e.s, t)
    PROVE  Base(e, t) /\ Outs(t) = {} /\ t.ep
<1>1. Stopped(e.s, t)
  BY DEF Expired, Stopped
<1> QED BY <1>1, StoppedBase

LEMMA ExpiredGood ==
    ASSUME NEW e, Env(e), e.s.state \notin Handshake, NEW t, Expired(e.s, t)
    PROVE  Good(e, t) /\ t.ep /\ Phase(t) /\ (FinOut(e.a, t) <=> FinOut(e.a, e.s))
<1>1. Base(e, t) /\ t.ep
  BY ExpiredBase
<1>2. Good(e, e.s) /\ e.s.ep /\ Phase(e.s)
  BY StartGood
<1>3. Core(e.a, e.s)
  BY <1>2 DEF Good
<1>4. FinOut(e.a, t) <=> FinOut(e.a, e.s)
  BY DEF Expired, FinOut
<1>5. Sender(e.a, t)
  BY <1>3, <1>4 DEF Core, Sender, Line, Marks, Expired
<1>6. Asked(e.a, t) /\ Receiver(t) /\ TimerSafe(e.a, t) /\ t.state \notin Handshake \cup {"CLOSED"}
  BY <1>3 DEF Core, Asked, Receiver, TimerSafe, Expired
<1>7. Phase(t)
  BY <1>2 DEF Expired, Phase, Finished
<1> QED BY <1>1, <1>4, <1>5, <1>6, <1>7 DEF Good, Core

LossMark(s, r, L) == [s EXCEPT !.retr = r, !.cwnd = 1, !.lost = L]

\* t is s with other segments marked lost.
Loss(s, t, L) ==
    /\ t.state = s.state /\ t.ep = s.ep /\ t.una = s.una /\ t.size = s.size
    /\ t.nxt = s.nxt /\ t.high = s.high /\ t.lost = L /\ t.sacked = s.sacked
    /\ t.closeOnEmpty = s.closeOnEmpty /\ t.shutdownSend = s.shutdownSend /\ t.cwnd = 1
    /\ t.rcvNxt = s.rcvNxt /\ t.held = s.held /\ t.unread = s.unread
    /\ t.gotFin = s.gotFin /\ t.finSeq = s.finSeq /\ t.got = s.got /\ t.retx = s.retx
    /\ t.lastAck = s.lastAck /\ t.out = s.out

LEMMA LossFields ==
    ASSUME NEW s \in SocketType, NEW r, NEW L, NEW t, t = LossMark(s, r, L)
    PROVE  Loss(s, t, L)
<1>1. /\ t.state = s.state /\ t.ep = s.ep /\ t.una = s.una /\ t.size = s.size
      /\ t.nxt = s.nxt /\ t.high = s.high /\ t.lost = L /\ t.sacked = s.sacked
  BY DEF SocketType, LossMark
<1>2. /\ t.closeOnEmpty = s.closeOnEmpty /\ t.shutdownSend = s.shutdownSend /\ t.cwnd = 1
      /\ t.rcvNxt = s.rcvNxt /\ t.held = s.held /\ t.unread = s.unread
  BY DEF SocketType, LossMark
<1>3. /\ t.gotFin = s.gotFin /\ t.finSeq = s.finSeq /\ t.got = s.got /\ t.retx = s.retx
      /\ t.lastAck = s.lastAck /\ t.out = s.out
  BY DEF SocketType, LossMark
<1> QED BY <1>1, <1>2, <1>3 DEF Loss

\* The segments sent and not sacked are marked lost.
LEMMA LossMarked ==
    ASSUME NEW e, Env(e), NEW s, Good(e, s), s.ep, s.size # 0, s.retr # 0, Outs(s) = {},
           s.una = 2 => 2 \notin s.sacked, DataRetries \in Nat,
           NEW t, t = [s EXCEPT !.retr = @ - 1, !.cwnd = 1, !.lost = SentList(s) \ s.sacked]
    PROVE  Good(e, t) /\ Quiet(s, t) /\ t.ep /\ t.size # 0 /\ Idle(t) /\ t.state = s.state
<1> DEFINE L == (s.una .. (s.high - 1)) \ s.sacked
           r == s.retr - 1
           u == [s EXCEPT !.retr = r, !.cwnd = 1]
<1>0. /\ s \in SocketType /\ Core(e.a, s) /\ Base(e, s) /\ s.una \in Nat /\ s.high \in Nat
      /\ s.size \in Nat /\ e.a.wrote \in Nat /\ e.a.wrote <= 2
      /\ 1 <= s.una /\ s.una + s.size = e.a.wrote + 1 /\ s.high <= e.a.wrote + 1
      /\ s.una <= s.nxt /\ s.nxt <= s.high /\ s.nxt \in Nat
  BY Numbers DEF Good, Base
<1>1. SentList(s) = s.una .. (s.high - 1)
  BY SentListIs
<1>2. r \in 0 .. DataRetries
  <2>1. s.retr \in 0 .. DataRetries
    BY <1>0, SocketFields
  <2> QED BY <2>1
<1>3. L \in SUBSET (1 .. 2)
  <2>1. s.una .. (s.high - 1) \subseteq 1 .. 2
    BY <1>0
  <2> QED BY <2>1
<1>4. t = LossMark(s, r, L)
  BY <1>1 DEF LossMark
<1> HIDE DEF r
<1>5. u \in SocketType
  BY <1>0, <1>2 DEF SocketType
<1>6. t = [u EXCEPT !.lost = L]
  BY <1>0, <1>4 DEF SocketType, LossMark
<1> HIDE DEF u, L
<1>7. t \in SocketType
  BY <1>3, <1>5, <1>6, SMTT(30) DEF SocketType
<1>8. /\ t.state = s.state /\ t.ep = s.ep /\ t.una = s.una /\ t.size = s.size
      /\ t.nxt = s.nxt /\ t.high = s.high /\ t.lost = L /\ t.sacked = s.sacked
      /\ t.closeOnEmpty = s.closeOnEmpty /\ t.shutdownSend = s.shutdownSend /\ t.cwnd = 1
      /\ t.rcvNxt = s.rcvNxt /\ t.held = s.held /\ t.unread = s.unread
      /\ t.gotFin = s.gotFin /\ t.finSeq = s.finSeq /\ t.got = s.got /\ t.retx = s.retx
      /\ t.lastAck = s.lastAck /\ t.out = s.out
  <2>1. Loss(s, t, L)
    BY <1>0, <1>4, LossFields
  <2> QED BY <2>1 DEF Loss
<1>9. t.ep
  BY <1>8
<1>10. Quiet(s, t) /\ Outs(t) = Outs(s)
  BY <1>8, <1>9 DEF Quiet, Outs
<1>11. Grown(e.a, s, t)
  <2>1. s.high <= t.high /\ s.una <= t.una /\ s.rcvNxt <= t.rcvNxt
    BY <1>0, <1>8, SocketFields
  <2>2. SentUpTo(t) = SentUpTo(s) /\ SentUpTo(s) <= SentUpTo(s)
    BY <1>0, <1>8, SocketFields DEF SentUpTo
  <2>3. /\ FinOut(e.a, s) => FinOut(e.a, t)
        /\ Clean(t) => Clean(s)
        /\ Past(s) => Past(t)
        /\ Early(s) => Early(t)
    BY <1>8, <1>9 DEF FinOut, Clean, Past, Early
  <2> QED BY <2>1, <2>2, <2>3 DEF Grown
<1>12. Base(e, t)
  <2>1. \A m \in Outs(t) : m \in Outs(s)
    BY <1>10
  <2>2. ~ \E m \in Outs(s) : m.kind = "FIN"
    OBVIOUS
  <2>3. t.una # e.a.wrote + 2
    BY <1>0, <1>8
  <2> QED BY <1>0, <1>7, <1>9, <1>10, <1>11, <2>1, <2>2, <2>3, BaseStep
<1>13. Core(e.a, t)
  <2>1. FinOut(e.a, t) <=> FinOut(e.a, s)
    BY <1>8 DEF FinOut
  <2>2. Marks(t)
    BY <1>0, <1>8 DEF Core, Sender, Marks, L
  <2>3. Sender(e.a, t)
    BY <1>0, <1>8, <2>1, <2>2 DEF Core, Sender, Line
  <2>4. Asked(e.a, t) /\ TimerSafe(e.a, t) /\ Receiver(t)
    BY <1>0, <1>8, <2>1 DEF Core, Asked, TimerSafe, Receiver
  <2> QED BY <1>0, <1>8, <2>3, <2>4 DEF Core
<1>14. Good(e, t)
  BY <1>9, <1>12, <1>13 DEF Good
<1>15. Idle(t)
  <2>1. SentList(t) = t.una .. (t.high - 1)
    BY <1>9, <1>14, SentListIs
  <2>2. SentList(t) \ (t.lost \cup t.sacked) = {}
    BY <2>1, <1>8 DEF L
  <2>3. BytesInFlight(t) = 0
    BY <2>2, FS_EmptySet DEF BytesInFlight
  <2>4. s.una \notin s.sacked
    <3>1. s.sacked \subseteq {2}
      BY <1>0, SocketFields
    <3> QED BY <3>1
  <2>5. s.una \in L \/ s.una \in s.high .. ((s.una + s.size) - 1)
    BY <1>0, <2>4 DEF L
  <2>6. Candidates(t) # {}
    BY <2>5, <1>0, <1>8 DEF Candidates, TailSequence
  <2> QED BY <2>3, <2>6, <1>8 DEF Idle
<1> QED BY <1>8, <1>9, <1>10, <1>14, <1>15

\* m_retxEvent.
LEMMA RetxStep ==
    ASSUME NEW e, Env(e), e.s.retx # "none", SynRetries \in Nat, DataRetries \in Nat,
           NEW t, t = RetxEvent(e.s)
    PROVE  Final(e, t)
<1> DEFINE u == [e.s EXCEPT !.retx = "none"]
<1>0. t = IF e.s.retx = "RTO" THEN ReTxTimeout(u) ELSE SendEmptyPacket(u, e.s.retx)
  BY DEF RetxEvent
<1>1. e.s \in SocketType /\ e.s.ep /\ e.a.wrote \in Nat
  BY DEF Env, AppType
<1>2. Expired(e.s, u)
  BY <1>1, ExpiredFields
<1> HIDE DEF u
<1>3. Base(e, u) /\ Outs(u) = {} /\ u.ep
  BY <1>2, ExpiredBase
<1>4. CASE e.s.state \in Handshake
  <2>1. Shaking(e.n, e.a, e.s) /\ Asked(e.a, e.s)
    BY <1>1, <1>4 DEF Env, Local
  <2>2. ShakingBut(e.n, e.a, u) /\ Asked(e.a, u)
    BY <2>1, <1>2 DEF Shaking, ShakingBut, Asked, Expired
  <2>3. e.s.retx = SynOf(e.n) /\ e.s.retx # "RTO"
    BY <2>1 DEF Shaking, SynOf
  <2>4. t = SendEmptyPacket(u, SynOf(e.n))
    BY <1>0, <2>3
  <2> QED BY <1>3, <2>2, <2>4, ShakeSent
<1>5. CASE e.s.state \notin Handshake
  <2>1. Good(e, u) /\ Phase(u) /\ (FinOut(e.a, u) <=> FinOut(e.a, e.s))
    BY <1>2, <1>5, ExpiredGood
  <2>2. /\ TimerSafe(e.a, e.s) /\ Sender(e.a, e.s)
        /\ e.s.una = e.a.wrote + 2 /\ (e.s.retx = "FIN" \/ e.s.state \in {"FIN_WAIT_1", "CLOSING"})
              => Past(e.q)
    BY <1>1, <1>5, StartGood DEF Good, Core
  <2>3. /\ u.state = e.s.state /\ u.una = e.s.una /\ u.size = e.s.size /\ u.retx = "none"
        /\ u.high = e.s.high /\ u.lastAck = e.s.lastAck /\ u.sacked = e.s.sacked
    BY <1>2 DEF Expired
  <2>4. ASSUME u.size = 0, FinOut(e.a, u), u.una = e.a.wrote + 2 => Past(e.q),
               t = SendEmptyPacket(u, "FIN")
        PROVE  Final(e, t)
    <3>1. Good(e, t) /\ Quiet(u, t) /\ t.state = u.state /\ TimerOn(t)
      BY <1>3, <2>1, <2>3, <2>4, AgainFin
    <3>2. Phase(t) /\ t.una = u.una
      BY <3>1, <2>1 DEF Quiet, Phase, Finished
    <3> QED BY <2>4, <3>1, <3>2, Finishing
  <2>5. CASE e.s.retx = "FIN"
    <3>1. t = SendEmptyPacket(u, "FIN")
      BY <1>0, <2>5
    <3>2. u.size = 0 /\ FinOut(e.a, u) /\ (u.una = e.a.wrote + 2 => Past(e.q))
      BY <2>1, <2>2, <2>3, <2>5 DEF TimerSafe
    <3> QED BY <2>4, <3>1, <3>2
  <2>6. CASE e.s.retx = "RTO" /\ e.s.size = 0
    <3>1. t = IF u.state \in {"FIN_WAIT_1", "CLOSING"} THEN SendEmptyPacket(u, "FIN") ELSE u
      BY <1>0, <2>3, <2>6 DEF ReTxTimeout
    <3>2. FinOut(e.a, u) /\ (e.s.state = "LAST_ACK" => e.s.lastAck)
      BY <2>1, <2>2, <2>6 DEF TimerSafe
    <3>3. CASE u.state \in {"FIN_WAIT_1", "CLOSING"}
      <4>1. u.una = e.a.wrote + 2 => Past(e.q)
        BY <2>2, <2>3, <3>3
      <4> QED BY <2>3, <2>4, <2>6, <3>1, <3>2, <3>3, <4>1
    <3>4. CASE u.state \notin {"FIN_WAIT_1", "CLOSING"}
      <4>1. t = u
        BY <3>1, <3>4
      <4>2. ~ (u.una < u.high)
        <5>1. e.s.una \in Nat /\ e.s.high \in Nat
          BY <1>1, SocketFields
        <5> QED BY <1>1, <2>2, <2>3, <2>6, <5>1 DEF Sender, Line
      <4>3. TimerOn(u)
        BY <4>2, <2>3, <3>2, <3>4 DEF TimerOn
      <4> QED BY <4>1, <4>3, <2>1, <3>4, Finishing
    <3> QED BY <3>3, <3>4
  <2>7. CASE e.s.retx = "RTO" /\ e.s.size # 0
    <3> DEFINE v == [u EXCEPT !.retr = @ - 1, !.cwnd = 1, !.lost = SentList(u) \ u.sacked]
    <3>1. t = IF u.retr = 0 THEN DeallocateEndPoint(u) ELSE SendPendingData(v)
      BY <1>0, <2>3, <2>7 DEF ReTxTimeout
    <3>2. CASE u.retr = 0
      <4>1. t = DeallocateEndPoint(u) /\ Half(e.a, u)
        BY <3>1, <3>2, <2>1, <1>3, HalfOf DEF Good, Core
      <4> QED BY <4>1, <1>3, ClosedFinal
    <3>3. CASE u.retr # 0
      <4>0. t = SendPendingData(v)
        BY <3>1, <3>3
      <4>1. u.una = 2 => 2 \notin u.sacked
        BY <2>3 DEF Env, Direction, Reports
      <4>2. u.size # 0
        BY <2>3, <2>7
      <4>3. Good(e, v) /\ Quiet(u, v) /\ v.ep /\ v.size # 0 /\ Idle(v) /\ v.state = u.state
        BY <1>3, <2>1, <3>3, <4>1, <4>2, LossMarked
      <4> HIDE DEF v
      <4>4. Good(e, t) /\ Quiet(v, t) /\ StateStep(v, t) /\ TimerOn(t)
        BY <4>0, <4>3, SentPending
      <4>5. t.una = u.una /\ (Finished(t) <=> Finished(u))
        BY <4>3, <4>4 DEF Quiet, Finished
      <4>6. Phase(t)
        BY <2>1, <4>3, <4>4, <4>5 DEF Phase, StateStep
      <4>7. t.una # e.a.wrote + 2
        BY <1>3, <2>1, <4>2, <4>5, Numbers
      <4> QED BY <4>4, <4>6, <4>7, Finishing
    <3> QED BY <3>2, <3>3
  <2>8. e.s.retx \in {"FIN", "RTO"}
    BY <2>2 DEF TimerSafe
  <2> QED BY <2>5, <2>6, <2>7, <2>8
<1> QED BY <1>4, <1>5

\* t is s with m_lastAckEvent expired.
Silent(s, t) ==
    /\ t \in SocketType /\ t.state = s.state /\ t.ep = s.ep /\ t.una = s.una /\ t.size = s.size
    /\ t.nxt = s.nxt /\ t.high = s.high /\ t.lost = s.lost /\ t.sacked = s.sacked
    /\ t.closeOnEmpty = s.closeOnEmpty /\ t.shutdownSend = s.shutdownSend
    /\ t.rcvNxt = s.rcvNxt /\ t.held = s.held /\ t.unread = s.unread
    /\ t.gotFin = s.gotFin /\ t.finSeq = s.finSeq /\ t.got = s.got /\ t.retx = s.retx
    /\ ~ t.lastAck /\ t.out = s.out /\ t.sendPending = s.sendPending

LEMMA SilentFields ==
    ASSUME NEW s \in SocketType, NEW t, t = [s EXCEPT !.lastAck = FALSE]
    PROVE  Silent(s, t)
<1>1. t \in SocketType
  BY DEF SocketType
<1>2. /\ t.state = s.state /\ t.ep = s.ep /\ t.una = s.una /\ t.size = s.size
      /\ t.nxt = s.nxt /\ t.high = s.high /\ t.lost = s.lost /\ t.sacked = s.sacked
      /\ t.closeOnEmpty = s.closeOnEmpty /\ t.shutdownSend = s.shutdownSend
  BY DEF SocketType
<1>3. /\ t.rcvNxt = s.rcvNxt /\ t.held = s.held /\ t.unread = s.unread
      /\ t.gotFin = s.gotFin /\ t.finSeq = s.finSeq /\ t.got = s.got /\ t.retx = s.retx
      /\ ~ t.lastAck /\ t.out = s.out /\ t.sendPending = s.sendPending
  BY DEF SocketType
<1> QED BY <1>1, <1>2, <1>3 DEF Silent

\* The FIN of LAST_ACK once more; a retransmission may have moved m_nextTxSequence back.
LEMMA LastFin ==
    ASSUME NEW e, Env(e), NEW s, Good(e, s), s.ep, s.state = "LAST_ACK", s.lastAck, TimerOn(s),
           NEW t, t = SendEmptyPacket(s, "FIN")
    PROVE  /\ Good(e, t) /\ Quiet(s, t) /\ t.ep /\ t.state = "LAST_ACK" /\ t.lastAck
<1>1. /\ s.una \in Nat /\ s.size \in Nat /\ s.nxt \in Nat /\ s.high \in Nat
      /\ e.a.wrote \in Nat /\ s \in SocketType /\ s.una <= s.nxt
  BY Numbers
<1>2. /\ FinOut(e.a, s) /\ e.a.wrote <= s.nxt /\ s.high = e.a.wrote + 1 /\ Ended(e.a)
      /\ s.una + s.size = e.a.wrote + 1 /\ s.nxt <= e.a.wrote + 1 /\ s.una # e.a.wrote + 2
  BY <1>1 DEF Good, Core, Sender, Line, FinOut
<1>3. PICK m : /\ Appended(s, t, m) /\ t.state = s.state
               /\ t.retx = IF s.retx = "none" THEN "FIN" ELSE s.retx
  BY <1>1, EmptyAppended
<1>4. t = WithState(t, "LAST_ACK")
  BY <1>3 DEF Appended, SocketType, WithState
<1>5. Base(e, t) /\ Quiet(s, t) /\ FinOut(e.a, t)
  BY <1>2, <1>4, FinBase
<1>6. /\ t.ep /\ t.una = s.una /\ t.size = s.size /\ t.nxt = s.nxt /\ t.high = s.high
      /\ t.lost = s.lost /\ t.sacked = s.sacked /\ t.closeOnEmpty = s.closeOnEmpty
      /\ t.shutdownSend = s.shutdownSend /\ t.rcvNxt = s.rcvNxt /\ t.held = s.held
      /\ t.unread = s.unread /\ t.got = s.got /\ t.lastAck = s.lastAck
  BY <1>3 DEF Appended
<1>7. Sender(e.a, t)
  <2>1. Line(e.a, t) /\ Marks(t)
    BY <1>3, <1>6 DEF Good, Core, Sender, Line, Marks
  <2> QED BY <1>2, <1>3, <1>5, <1>6, <2>1 DEF Sender
<1>8. TimerSafe(e.a, t)
  <2>1. s.retx = "none" => s.size = 0 /\ s.nxt = s.una
    BY <1>1, <1>2 DEF TimerOn
  <2>2. s.retx = "FIN" => s.size = 0 /\ s.nxt = s.una
    BY DEF Good, Core, TimerSafe
  <2>3. t.retx \in {"none", "FIN", "RTO"} /\ (t.retx = "FIN" => t.size = 0 /\ t.nxt = t.una)
    BY <1>3, <1>6, <2>1, <2>2 DEF Good, Core, TimerSafe
  <2> QED BY <1>5, <1>6, <2>3 DEF TimerSafe
<1>9. Asked(e.a, t) /\ Receiver(t) /\ t.state \notin Handshake \cup {"CLOSED"}
  BY <1>3, <1>6 DEF Good, Core, Asked, Receiver
<1> QED BY <1>3, <1>5, <1>6, <1>7, <1>8, <1>9 DEF Good, Core

\* The event that is started again was not missed.
LEMMA LastAckCommutes ==
    ASSUME NEW w \in SocketType, w.ep, w.lastAck, NEW y, y = [w EXCEPT !.lastAck = FALSE]
    PROVE  [SendEmptyPacket(y, "FIN") EXCEPT !.lastAck = TRUE] = SendEmptyPacket(w, "FIN")
<1> DEFINE o == Append(w.out, Segment("FIN", w.nxt, 0, w.rcvNxt, w.held))
           x == IF w.retx = "none" THEN "FIN" ELSE w.retx
<1>1. /\ y.ep /\ y.out = w.out /\ y.nxt = w.nxt /\ y.rcvNxt = w.rcvNxt /\ y.held = w.held
      /\ y.retx = w.retx /\ y.synCount = w.synCount
  BY DEF SocketType
<1>2. SendEmptyPacket(w, "FIN") = [w EXCEPT !.synCount = w.synCount, !.retx = x, !.out = o]
  BY DEF SendEmptyPacket
<1>3. SendEmptyPacket(y, "FIN") = [y EXCEPT !.synCount = w.synCount, !.retx = x, !.out = o]
  <2> DEFINE v == y
  <2>1. v = y
    OBVIOUS
  <2> HIDE DEF v
  <2>2. SendEmptyPacket(v, "FIN") = [v EXCEPT !.synCount = w.synCount, !.retx = x, !.out = o]
    <3>1. /\ v.ep /\ v.out = w.out /\ v.nxt = w.nxt /\ v.rcvNxt = w.rcvNxt /\ v.held = w.held
          /\ v.retx = w.retx /\ v.synCount = w.synCount
      BY <1>1, <2>1
    <3> QED BY <3>1 DEF SendEmptyPacket
  <2> QED BY <2>1, <2>2
<1> HIDE DEF o, x
<1>4. [[y EXCEPT !.synCount = w.synCount, !.retx = x, !.out = o] EXCEPT !.lastAck = TRUE] =
      [w EXCEPT !.synCount = w.synCount, !.retx = x, !.out = o]
  BY DEF SocketType
<1> QED BY <1>2, <1>3, <1>4

\* m_lastAckEvent.
LEMMA LastAckStep ==
    ASSUME NEW e, Env(e), e.s.lastAck, SynRetries \in Nat, DataRetries \in Nat,
           NEW t, t = LastAckTimeout(e.s)
    PROVE  Final(e, t)
<1> DEFINE u == [e.s EXCEPT !.lastAck = FALSE]
           w == [e.s EXCEPT !.retr = @ - 1]
           r == SendEmptyPacket(w, "FIN")
<1>1. e.s \in SocketType /\ e.s.ep
  BY DEF Env
<1>2. Silent(e.s, u)
  BY <1>1, SilentFields
<1>3. Base(e, u) /\ u.ep
  <2>1. Stopped(e.s, u)
    BY <1>2 DEF Silent, Stopped
  <2> QED BY <2>1, StoppedBase
<1>4. t = IF e.s.state # "LAST_ACK" THEN u
          ELSE IF e.s.retr = 0 THEN DeallocateEndPoint(u)
          ELSE [SendEmptyPacket([u EXCEPT !.retr = @ - 1], "FIN") EXCEPT !.lastAck = TRUE]
  BY DEF LastAckTimeout
<1> HIDE DEF u
<1>5. CASE e.s.state # "LAST_ACK"
  <2>1. t = u
    BY <1>4, <1>5
  <2>2. CASE e.s.state \in Handshake
    <3>1. Shaking(e.n, e.a, e.s) /\ Asked(e.a, e.s)
      BY <1>1, <2>2 DEF Env, Local
    <3>2. Shaking(e.n, e.a, u) /\ Asked(e.a, u) /\ u.state \in Handshake
      BY <3>1, <1>2, <2>2 DEF Shaking, Asked, Silent
    <3> QED BY <1>3, <2>1, <3>2 DEF Final, Handshake
  <2>3. CASE e.s.state \notin Handshake
    <3>1. /\ Good(e, e.s) /\ TimerOn(e.s) /\ Phase(e.s)
          /\ e.s.una = e.a.wrote + 2 /\ e.s.state = "FIN_WAIT_1" => Past(e.q)
      BY <2>3, StartGood
    <3>2. Core(e.a, e.s)
      BY <1>1, <3>1 DEF Good
    <3>3. FinOut(e.a, u) <=> FinOut(e.a, e.s)
      BY <1>2 DEF Silent, FinOut
    <3>4. Sender(e.a, u)
      BY <3>2, <3>3, <1>2 DEF Core, Sender, Line, Marks, Silent
    <3>5. Asked(e.a, u) /\ Receiver(u) /\ u.state \notin Handshake \cup {"CLOSED"}
      BY <3>2, <1>2 DEF Core, Asked, Receiver, Silent
    <3>6. TimerSafe(e.a, u) /\ TimerOn(u)
      BY <3>1, <3>2, <3>3, <1>2, <1>5 DEF Core, TimerSafe, TimerOn, Silent
    <3>7. Phase(u) /\ u.una = e.s.una /\ u.state = e.s.state
      BY <3>1, <1>2 DEF Silent, Phase, Finished
    <3>8. Good(e, u)
      BY <1>3, <3>4, <3>5, <3>6 DEF Good, Core
    <3> QED BY <2>1, <3>1, <3>6, <3>7, <3>8, Finishing
  <2> QED BY <2>2, <2>3
<1>6. CASE e.s.state = "LAST_ACK" /\ e.s.retr = 0
  <2>1. t = DeallocateEndPoint(u)
    BY <1>4, <1>6
  <2>2. Half(e.a, u)
    BY <1>2, <1>6, HalfOf DEF Silent
  <2> QED BY <1>3, <2>1, <2>2, ClosedFinal
<1>7. CASE e.s.state = "LAST_ACK" /\ e.s.retr # 0
  <2>0. e.s.state \notin Handshake
    BY <1>7 DEF Handshake
  <2>1. /\ Good(e, e.s) /\ TimerOn(e.s) /\ Phase(e.s)
        /\ e.s.una = e.a.wrote + 2 /\ e.s.state = "FIN_WAIT_1" => Past(e.q)
    BY <2>0, StartGood
  <2>2. w \in SocketType
    <3>1. e.s.retr \in 0 .. DataRetries
      BY <1>1, SocketFields
    <3>2. e.s.retr - 1 \in 0 .. DataRetries
      BY <3>1, <1>7
    <3> QED BY <1>1, <3>2 DEF SocketType
  <2>3. Alike(e.s, w) /\ w.closeOnEmpty = e.s.closeOnEmpty /\ w.shutdownSend = e.s.shutdownSend
        /\ w.unread = e.s.unread /\ w.lastAck = TRUE
    BY <1>1, <2>2 DEF Alike, SocketType
  <2>4. t = [SendEmptyPacket([u EXCEPT !.retr = @ - 1], "FIN") EXCEPT !.lastAck = TRUE]
    BY <1>4, <1>7
  <2>5. t = r
    <3> DEFINE y == [u EXCEPT !.retr = @ - 1]
    <3>1. y = [w EXCEPT !.lastAck = FALSE]
      BY <1>1 DEF u, SocketType
    <3> HIDE DEF y, w
    <3>2. w.ep
      BY <1>1, <2>3 DEF Alike
    <3> QED BY <2>2, <2>3, <2>4, <3>1, <3>2, LastAckCommutes DEF y
  <2> HIDE DEF w
  <2>6. Good(e, w) /\ TimerOn(w) /\ w.ep
    <3>1. Asked(e.a, w) /\ Receiver(w)
      BY <1>1, <2>1, <2>3 DEF Good, Core, Asked, Receiver, Alike
    <3>2. w.ep
      BY <1>1, <2>3 DEF Alike
    <3> QED BY <1>1, <2>1, <2>3, <3>1, <3>2, AlikeGood
  <2>7. w.state = "LAST_ACK" /\ w.lastAck
    BY <1>7, <2>3 DEF Alike
  <2>8. Good(e, t) /\ Quiet(w, t) /\ t.state = "LAST_ACK"
    BY <2>5, <2>6, <2>7, LastFin
  <2>9. t.retx # "none" /\ t.state = "LAST_ACK"
    <3>1. \E m : Appended(w, t, m) /\ t.retx = IF w.retx = "none" THEN "FIN" ELSE w.retx
      BY <2>2, <2>5, <2>6, EmptyAppended
    <3> QED BY <2>8, <3>1
  <2> QED BY <2>8, <2>9, Finishing DEF TimerOn, Phase
<1> QED BY <1>5, <1>6, <1>7

(***************************************************************************)
(* The other events of a socket and the calls of its application.          *)
(***************************************************************************)
LEMMA AlikeStart ==
    ASSUME NEW e, Env(e), e.s.state \notin Handshake, NEW u, Alike(e.s, u),
           u.closeOnEmpty = e.s.closeOnEmpty, u.shutdownSend = e.s.shutdownSend, u.unread <= e.s.unread
    PROVE  /\ Good(e, u) /\ TimerOn(u) /\ Phase(u) /\ u.ep
           /\ u.una = e.a.wrote + 2 /\ u.state = "FIN_WAIT_1" => Past(e.q)
<1>1. /\ Good(e, e.s) /\ TimerOn(e.s) /\ Phase(e.s) /\ e.s.ep
      /\ e.s.una = e.a.wrote + 2 /\ e.s.state = "FIN_WAIT_1" => Past(e.q)
  BY StartGood
<1>2. u.ep /\ u.una = e.s.una /\ u.state = e.s.state
  BY <1>1 DEF Alike
<1>3. Asked(e.a, u)
  BY <1>1 DEF Good, Core, Asked
<1>4. Receiver(u)
  <2>1. e.s \in SocketType /\ u \in SocketType
    BY DEF Env, Alike
  <2>2. e.s.unread \in Nat /\ u.unread \in Nat /\ u.got \in Nat
    BY <2>1, SocketFields
  <2> QED BY <1>1, <2>2 DEF Good, Core, Receiver, Alike
<1>5. Phase(u)
  BY <1>1 DEF Alike, Phase, Finished
<1>6. Good(e, u) /\ TimerOn(u)
  BY <1>1, <1>3, <1>4, AlikeGood
<1> QED BY <1>1, <1>2, <1>5, <1>6

LEMMA PendingStep ==
    ASSUME NEW e, Env(e), e.s.sendPending,
           NEW t, t = SendPendingData([e.s EXCEPT !.sendPending = FALSE])
    PROVE  Final(e, t)
<1> DEFINE u == [e.s EXCEPT !.sendPending = FALSE]
<1>1. e.s \in SocketType /\ e.s.ep /\ e.s.state \notin Handshake
  BY DEF Env, Local, Shaking
<1>2. Alike(e.s, u) /\ u.closeOnEmpty = e.s.closeOnEmpty /\ u.shutdownSend = e.s.shutdownSend
      /\ u.unread = e.s.unread
  BY <1>1 DEF Alike, SocketType
<1>3. t = SendPendingData(u)
  OBVIOUS
<1> HIDE DEF u
<1>4. u.unread <= e.s.unread
  BY <1>1, <1>2, SocketFields
<1>5. /\ Good(e, u) /\ TimerOn(u) /\ Phase(u)
      /\ u.una = e.a.wrote + 2 /\ u.state = "FIN_WAIT_1" => Past(e.q)
  BY <1>1, <1>2, <1>4, AlikeStart
<1>6. Good(e, t) /\ Quiet(u, t) /\ StateStep(u, t) /\ TimerOn(t)
  BY <1>3, <1>5, SentPending
<1>7. t.una = u.una /\ (Finished(t) <=> Finished(u))
  BY <1>6 DEF Quiet, Finished
<1>8. Phase(t)
  BY <1>5, <1>6, <1>7 DEF Phase, StateStep
<1>9. t.una = e.a.wrote + 2 /\ t.state = "FIN_WAIT_1" => Past(e.q)
  <2>1. u.state = "ESTABLISHED" => u.una # e.a.wrote + 2
    <3>1. u.ep
      BY <1>1, <1>2 DEF Alike
    <3>2. Line(e.a, u) /\ e.a.wrote \in Nat /\ u.una \in Nat /\ u.size \in Nat
      BY <1>5, <3>1, Numbers DEF Good, Core, Sender
    <3> QED BY <3>2 DEF Line
  <2> QED BY <2>1, <1>5, <1>6, <1>7 DEF StateStep
<1> QED BY <1>6, <1>8, <1>9, Finishing

LEMMA RecvStep ==
    ASSUME NEW e, Env(e), e.s.unread > 0, NEW t, t = [e.s EXCEPT !.unread = 0]
    PROVE  Final(e, t)
<1>1. e.s \in SocketType /\ e.s.ep /\ e.s.state \notin Handshake
  BY DEF Env, Local, Shaking
<1>2. Alike(e.s, t) /\ t.closeOnEmpty = e.s.closeOnEmpty /\ t.shutdownSend = e.s.shutdownSend
      /\ t.unread = 0
  BY <1>1 DEF Alike, SocketType
<1>3. t.unread <= e.s.unread
  BY <1>1, <1>2, SocketFields
<1>4. /\ Good(e, t) /\ TimerOn(t) /\ Phase(t)
      /\ t.una = e.a.wrote + 2 /\ t.state = "FIN_WAIT_1" => Past(e.q)
  BY <1>1, <1>2, <1>3, AlikeStart
<1> QED BY <1>4, Finishing

LEMMA CloseFlag ==
    ASSUME NEW s \in SocketType, NEW t, t = [s EXCEPT !.closeOnEmpty = TRUE]
    PROVE  /\ Alike(s, t) /\ t.unread = s.unread /\ t.sendPending = s.sendPending
           /\ t.shutdownSend = s.shutdownSend
BY DEF Alike, SocketType

LEMMA ShutdownFlag ==
    ASSUME NEW s \in SocketType, NEW t, t = [s EXCEPT !.shutdownSend = TRUE, !.closeOnEmpty = TRUE]
    PROVE  /\ Alike(s, t) /\ t.unread = s.unread /\ t.sendPending = s.sendPending
           /\ t.shutdownSend = TRUE
BY DEF Alike, SocketType

\* Close.  The FIN was not sent before in CLOSE_WAIT.
LEMMA CloseStep ==
    ASSUME NEW e, Env(e), e.a.closed, e.s.state \notin Handshake => Unsent(e.a, e.s),
           e.s.state # "SYN_RCVD", SynRetries \in Nat, DataRetries \in Nat, NEW t, t = CloseOf(e.s)
    PROVE  Final(e, t)
<1>1. e.s \in SocketType /\ e.s.ep
  BY DEF Env
<1>2. CASE e.s.state \in Handshake
  <2>1. Shaking(e.n, e.a, e.s) /\ Asked(e.a, e.s) /\ e.s.state = "SYN_SENT" /\ Base(e, e.s)
    BY <1>1, <1>2, StartBase DEF Env, Local, Handshake
  <2>2. ~ (e.s.unread > 0 \/ e.s.held # {})
    BY <2>1 DEF Shaking
  <2>3. CASE SizeFromSequence(e.s, e.s.nxt) > 0
    <3>1. t = [e.s EXCEPT !.closeOnEmpty = TRUE]
      BY <2>2, <2>3 DEF CloseOf
    <3>2. Alike(e.s, t) /\ t.unread = e.s.unread /\ t.sendPending = e.s.sendPending
          /\ t.shutdownSend = e.s.shutdownSend
      BY <1>1, <3>1, CloseFlag
    <3>3. Base(e, t)
      BY <2>1, <3>2, AlikeBase
    <3>4. Shaking(e.n, e.a, t) /\ Asked(e.a, t)
      BY <2>1, <3>2 DEF Shaking, Asked, Alike
    <3>5. t.ep /\ t.state = "SYN_SENT"
      BY <1>1, <2>1, <3>2 DEF Alike
    <3> QED BY <3>3, <3>4, <3>5 DEF Final, Handshake
  <2>4. CASE ~ (SizeFromSequence(e.s, e.s.nxt) > 0)
    <3>1. t = ResetAndClose(e.s) /\ Half(e.a, e.s)
      BY <2>1, <2>2, <2>4, HalfOf DEF CloseOf, DoClose
    <3> QED BY <1>1, <2>1, <3>1, ClosedFinal
  <2> QED BY <2>3, <2>4
<1>3. CASE e.s.state \notin Handshake
  <2>1. /\ Good(e, e.s) /\ TimerOn(e.s) /\ Phase(e.s)
        /\ e.s.una = e.a.wrote + 2 /\ e.s.state = "FIN_WAIT_1" => Past(e.q)
    BY <1>3, StartGood
  <2>2. Good(e, t) /\ Quiet(e.s, t) /\ (t.ep => TimerOn(t) /\ StateStep(e.s, t))
    BY <1>1, <1>3, <2>1, ClosedOf
  <2>3. t.una = e.s.una /\ (Finished(t) <=> Finished(e.s))
    BY <2>2 DEF Quiet, Finished
  <2>4. t.ep => Phase(t)
    BY <2>1, <2>2, <2>3 DEF Phase, StateStep
  <2>5. e.s.state = "ESTABLISHED" => e.s.una # e.a.wrote + 2
    <3>1. Line(e.a, e.s) /\ e.a.wrote \in Nat /\ e.s.una \in Nat /\ e.s.size \in Nat
      BY <1>1, <2>1, Numbers DEF Good, Core, Sender
    <3> QED BY <3>1 DEF Line
  <2>6. t.ep => (t.una = e.a.wrote + 2 /\ t.state = "FIN_WAIT_1" => Past(e.q))
    BY <2>1, <2>2, <2>3, <2>5 DEF StateStep
  <2> QED BY <2>2, <2>4, <2>6, Finishing
<1> QED BY <1>2, <1>3

LEMMA ShutdownStep ==
    ASSUME NEW e, Env(e), e.a.shut, e.s.state \notin Handshake => Unsent(e.a, e.s),
           e.s.state # "SYN_RCVD", NEW t, t = ShutdownSendOf(e.s)
    PROVE  Final(e, t)
<1>1. e.s \in SocketType /\ e.s.ep
  BY DEF Env
<1>2. CASE e.s.state \in Handshake
  <2>1. Shaking(e.n, e.a, e.s) /\ Asked(e.a, e.s) /\ e.s.state = "SYN_SENT" /\ Base(e, e.s)
    BY <1>1, <1>2, StartBase DEF Env, Local, Handshake
  <2>2. t = [e.s EXCEPT !.shutdownSend = TRUE, !.closeOnEmpty = TRUE]
    BY <2>1 DEF ShutdownSendOf
  <2>3. Alike(e.s, t) /\ t.unread = e.s.unread /\ t.sendPending = e.s.sendPending
        /\ t.shutdownSend = TRUE
    BY <1>1, <2>2, ShutdownFlag
  <2>4. Base(e, t)
    BY <2>1, <2>3, AlikeBase
  <2>5. Shaking(e.n, e.a, t) /\ Asked(e.a, t)
    BY <2>1, <2>3 DEF Shaking, Asked, Alike
  <2>6. t.ep /\ t.state = "SYN_SENT"
    BY <1>1, <2>1, <2>3 DEF Alike
  <2> QED BY <2>4, <2>5, <2>6 DEF Final, Handshake
<1>3. CASE e.s.state \notin Handshake
  <2>1. /\ Good(e, e.s) /\ TimerOn(e.s) /\ Phase(e.s)
        /\ e.s.una = e.a.wrote + 2 /\ e.s.state = "FIN_WAIT_1" => Past(e.q)
    BY <1>3, StartGood
  <2>2. Good(e, t) /\ Quiet(e.s, t) /\ TimerOn(t) /\ StateStep(e.s, t)
    BY <1>1, <1>3, <2>1, ShutdownOf
  <2>3. t.una = e.s.una /\ (Finished(t) <=> Finished(e.s))
    BY <2>2 DEF Quiet, Finished
  <2>4. Phase(t)
    BY <2>1, <2>2, <2>3 DEF Phase, StateStep
  <2>5. e.s.state = "ESTABLISHED" => e.s.una # e.a.wrote + 2
    <3>1. Line(e.a, e.s) /\ e.a.wrote \in Nat /\ e.s.una \in Nat /\ e.s.size \in Nat
      BY <1>1, <2>1, Numbers DEF Good, Core, Sender
    <3> QED BY <3>1 DEF Line
  <2>6. t.una = e.a.wrote + 2 /\ t.state = "FIN_WAIT_1" => Past(e.q)
    BY <2>1, <2>2, <2>3, <2>5 DEF StateStep
  <2> QED BY <2>2, <2>4, <2>6, Finishing
<1> QED BY <1>2, <1>3

\* An application that ends its stream changes nothing else.
Ends(a, c) ==
    /\ c \in AppType /\ c.opened = a.opened /\ c.wrote = a.wrote
    /\ (a.closed => c.closed) /\ (a.shut => c.shut)

LEMMA EndsEnv ==
    ASSUME ConnInv, NEW n \in Node, sock[n].ep, NEW c, Ends(app[n], c), sock[n].state # "SYN_RCVD",
           ~ app[n].closed, NEW f
    PROVE  Env(At(n, c, f)) /\ (sock[n].state \notin Handshake => Unsent(c, sock[n]))
<1> DEFINE a == app[n]
           s == sock[n]
           p == Peer(n)
           q == sock[p]
           b == app[p]
           e == At(n, c, f)
<1>1. p \in Node /\ Peer(p) = n
  BY Peers
<1>2. /\ Local(n, a, s) /\ Local(p, b, q)
      /\ Direction(n, a, s, q, net[p], net[n])
      /\ Direction(p, b, q, s, net[n], net[p])
  BY <1>1 DEF ConnInv
<1>3. /\ e.n = n /\ e.a = c /\ e.b = b /\ e.s = s /\ e.q = q
      /\ e.A = net[n] /\ e.B = net[p]
  BY DEF At
<1>4. s \in SocketType /\ a \in AppType /\ q \in SocketType /\ b \in AppType /\ s.ep
  BY <1>2 DEF Local
<1>5. ~ a.closed /\ Ends(a, c) /\ s.state # "SYN_RCVD"
  OBVIOUS
<1> HIDE DEF a, s, q, b, e, p
<1>6. /\ c.wrote = a.wrote /\ c.opened = a.opened /\ (Ended(a) => Ended(c))
      /\ (FinOut(a, s) => FinOut(c, s)) /\ c \in AppType
  BY <1>5 DEF Ends, Ended, FinOut
<1>7. Local(n, c, s)
  <2>1. CASE s.state \in Handshake
    <3>1. Shaking(n, a, s) /\ Asked(a, s)
      BY <1>2, <1>4, <2>1 DEF Local
    <3>2. Shaking(n, c, s) /\ Asked(c, s)
      BY <3>1, <1>5, <1>6 DEF Shaking, Asked, Ends
    <3> QED BY <1>2, <1>4, <1>6, <2>1, <3>2 DEF Local
  <2>2. CASE s.state \notin Handshake
    <3>1. Synced(a, s) /\ Phase(s)
      BY <1>2, <1>4, <2>2 DEF Local
    <3>2. Sender(c, s)
      BY <3>1, <1>5, <1>6 DEF Synced, Sender, Line, Ends
    <3>3. Asked(c, s) /\ Timer(c, s)
      BY <3>1, <1>5, <1>6 DEF Synced, Asked, Timer, Ends
    <3>4. Synced(c, s)
      BY <3>1, <3>2, <3>3 DEF Synced
    <3> QED BY <1>2, <1>4, <1>6, <2>2, <3>1, <3>4 DEF Local
  <2> QED BY <2>1, <2>2
<1>8. Direction(n, c, s, q, net[p], net[n])
  <2>1. ASSUME NEW m \in net[p] PROVE Carried(n, c, s, Past(q), m)
    BY <1>2, <1>6 DEF Direction, Carried
  <2>2. Arrived(c, s, q)
    BY <1>2, <1>6 DEF Direction, Arrived
  <2>3. Reports(c, s, q, net[n])
    BY <1>2, <1>6 DEF Direction, Reports
  <2> QED BY <1>2, <1>6, <2>1, <2>2, <2>3 DEF Direction
<1>9. Env(e)
  BY <1>1, <1>2, <1>3, <1>4, <1>6, <1>7, <1>8 DEF Env, p
<1>10. s.state \notin Handshake => Unsent(c, s)
  <2>1. SUFFICES ASSUME s.state = "CLOSE_WAIT"
                 PROVE  s.una <= c.wrote + 1 /\ (s.size = 0 => s.retx = "none")
    BY DEF Unsent
  <2>2. Synced(a, s) /\ ~ FinOut(a, s)
    BY <1>2, <1>4, <1>5, <2>1 DEF Local, FinOut, Handshake
  <2>3. s.una \in Nat /\ s.size \in Nat /\ a.wrote \in Nat
    BY <1>4, SocketFields DEF AppType
  <2>4. s.una <= a.wrote + 1
    BY <2>2, <2>3 DEF Synced, Sender, Line
  <2>5. s.size = 0 => s.retx = "none"
    BY <2>2 DEF Synced, Timer
  <2> QED BY <1>6, <2>4, <2>5
<1> QED BY <1>9, <1>10 DEF e, s

(***************************************************************************)
(* The actions.                                                            *)
(***************************************************************************)
LEMMA Counters ==
    /\ SynRetries \in Nat /\ DataRetries \in Nat /\ SynRetries # 0 /\ DataRetries # 0
    /\ \A n \in Node : Data[n] \in 0 .. 2
BY ConnectionAssumption DEF Data, Node

LEMMA AtFields ==
    ASSUME NEW n, NEW a, NEW f
    PROVE  /\ At(n, a, f).n = n /\ At(n, a, f).a = a /\ At(n, a, f).b = app[Peer(n)]
           /\ At(n, a, f).s = sock[n] /\ At(n, a, f).q = sock[Peer(n)]
           /\ At(n, a, f).A = net[n] /\ At(n, a, f).B = net[Peer(n)] /\ At(n, a, f).finAck = f
BY DEF At

\* Only a socket with an end point has events or data.
LEMMA HasEndPoint ==
    ASSUME ConnInv, NEW n \in Node,
           \/ sock[n].retx # "none" \/ sock[n].lastAck \/ sock[n].timewait
           \/ sock[n].sendPending \/ sock[n].unread > 0
    PROVE  sock[n].ep
<1>1. Local(n, app[n], sock[n])
  BY DEF ConnInv
<1> QED BY <1>1 DEF Local, Gone

LEMMA HandlerStep ==
    ASSUME ConnInv, NEW n \in Node, sock[n].ep, NEW f, NEW h, Final(At(n, app[n], f), h),
           NEW rest \in SUBSET net[n], Dispatch(n, h, rest), UNCHANGED app
    PROVE  ConnInv'
<1>1. Env(At(n, app[n], f))
  BY AtEnv
<1>2. Becomes(app, app', n, app[n])
  BY BecomesExcept DEF ConnInv
<1> QED BY <1>1, <1>2, ActorStep

LEMMA TimerSteps ==
    ASSUME ConnInv, NEW n \in Node,
           RetxTimer(n) \/ LastAckTimer(n) \/ TimeWaitTimer(n) \/ SendPendingDataEvent(n) \/ Recv(n)
    PROVE  ConnInv'
<1> DEFINE e == At(n, app[n], FALSE)
<1>1. sock[n].ep
  BY HasEndPoint DEF RetxTimer, LastAckTimer, TimeWaitTimer, SendPendingDataEvent, Recv
<1>2. Env(e) /\ e.s = sock[n]
  <2> DEFINE f == FALSE
             d == At(n, app[n], f)
  <2>1. e = d
    OBVIOUS
  <2> HIDE DEF f
  <2>2. Env(d) /\ d.s = sock[n]
    BY <1>1, AtEnv, AtFields
  <2> QED BY <2>1, <2>2
<1>3. SynRetries \in Nat /\ DataRetries \in Nat
  BY Counters
<1> HIDE DEF e
<1>4. ASSUME NEW h, Final(e, h), Dispatch(n, h, net[n]), UNCHANGED app PROVE ConnInv'
  BY <1>1, <1>4, HandlerStep DEF e
<1>5. CASE RetxTimer(n)
  <2> DEFINE h == RetxEvent(sock[n])
  <2>1. sock[n].retx # "none" /\ Dispatch(n, h, net[n]) /\ UNCHANGED app
    BY <1>5 DEF RetxTimer
  <2> HIDE DEF h
  <2>2. Final(e, h)
    BY <1>2, <1>3, <2>1, RetxStep DEF h
  <2> QED BY <1>4, <2>1, <2>2
<1>6. CASE LastAckTimer(n)
  <2> DEFINE h == LastAckTimeout(sock[n])
  <2>1. sock[n].lastAck /\ Dispatch(n, h, net[n]) /\ UNCHANGED app
    BY <1>6 DEF LastAckTimer
  <2> HIDE DEF h
  <2>2. Final(e, h)
    BY <1>2, <1>3, <2>1, LastAckStep DEF h
  <2> QED BY <1>4, <2>1, <2>2
<1>7. CASE TimeWaitTimer(n)
  <2> DEFINE h == CloseAndNotify(sock[n])
  <2>1. Dispatch(n, h, net[n]) /\ UNCHANGED app
    BY <1>7 DEF TimeWaitTimer
  <2> HIDE DEF h
  <2>2. Final(e, h)
    <3>1. Base(e, e.s) /\ e.s.ep
      BY <1>1, <1>2, StartBase
    <3>2. Half(e.a, e.s)
      <4>1. CASE e.s.state \in Handshake
        BY <4>1, HalfOf DEF Handshake
      <4>2. CASE e.s.state \notin Handshake
        BY <4>2, <1>2, <3>1, HalfOf DEF Env, Local, Synced
      <4> QED BY <4>1, <4>2
    <3> QED BY <1>2, <1>3, <3>1, <3>2, ClosedFinal DEF h
  <2> QED BY <1>4, <2>1, <2>2
<1>8. CASE SendPendingDataEvent(n)
  <2> DEFINE h == SendPendingData([sock[n] EXCEPT !.sendPending = FALSE])
  <2>1. sock[n].sendPending /\ Dispatch(n, h, net[n]) /\ UNCHANGED app
    BY <1>8 DEF SendPendingDataEvent
  <2> HIDE DEF h
  <2>2. Final(e, h)
    BY <1>2, <2>1, PendingStep DEF h
  <2> QED BY <1>4, <2>1, <2>2
<1>9. CASE Recv(n)
  <2> DEFINE h == [sock[n] EXCEPT !.unread = 0]
  <2>1. sock[n].unread > 0 /\ Dispatch(n, h, net[n]) /\ UNCHANGED app
    BY <1>9 DEF Recv
  <2> HIDE DEF h
  <2>2. Final(e, h)
    BY <1>2, <2>1, RecvStep DEF h
  <2> QED BY <1>4, <2>1, <2>2
<1> QED BY <1>5, <1>6, <1>7, <1>8, <1>9

LEMMA ReceiveStep ==
    ASSUME ConnInv, NEW n \in Node, NEW m, Receive(n, m)
    PROVE  ConnInv'
<1> DEFINE f == (m.ack = app[n].wrote + 2)
           e == At(n, app[n], f)
           h == ForwardUp(sock[n], m)
<1>1. m \in net[n] /\ sock[n].ep /\ Dispatch(n, h, net[n] \ {m}) /\ UNCHANGED app
  BY DEF Receive
<1>2. Env(e) /\ e.s = sock[n] /\ e.A = net[n] /\ e.a = app[n] /\ e.finAck = f
  BY <1>1, AtEnv, AtFields
<1>3. (m.ack = app[n].wrote + 2) <=> f
  OBVIOUS
<1> HIDE DEF f, e, h
<1>4. m.ack = e.a.wrote + 2 <=> e.finAck
  BY <1>2, <1>3
<1>5. Final(e, h)
  BY <1>1, <1>2, <1>4, Counters, ForwardStep DEF h
<1> QED BY <1>1, <1>5, HandlerStep DEF e

LEMMA CloseSteps ==
    ASSUME ConnInv, NEW n \in Node, Close(n) \/ ShutdownSend(n)
    PROVE  ConnInv'
<1>0. sock[n].ep /\ ~ app[n].closed /\ (n = "s" => sock[n].state # "SYN_RCVD") /\ DOMAIN app = Node
  BY DEF Close, ShutdownSend, ConnInv
<1>1. Local(n, app[n], sock[n]) /\ app[n] \in AppType
  BY DEF ConnInv, Local
<1>2. sock[n].state # "SYN_RCVD"
  BY <1>0, <1>1 DEF Local, Shaking, Handshake, Node
<1>3. CASE Close(n)
  <2> DEFINE c == [app[n] EXCEPT !.closed = TRUE]
             e == At(n, c, FALSE)
             h == CloseOf(sock[n])
  <2>1. Becomes(app, app', n, c) /\ Dispatch(n, h, net[n])
    <3>1. app' = [app EXCEPT ![n] = c]
      BY <1>3 DEF Close
    <3> QED BY <1>0, <1>3, <3>1, BecomesExcept DEF Close
  <2>2. Ends(app[n], c) /\ c.closed /\ c.opened = app[n].opened
    BY <1>1 DEF Ends, AppType
  <2> HIDE DEF c, h
  <2>3. Env(e) /\ (sock[n].state \notin Handshake => Unsent(c, sock[n]))
    BY <1>0, <1>2, <2>2, EndsEnv
  <2>4. e.s = sock[n] /\ e.a = c
    BY DEF At
  <2> HIDE DEF e
  <2>5. Final(e, h)
    BY <1>2, <2>2, <2>3, <2>4, Counters, CloseStep DEF h
  <2> QED BY <2>1, <2>2, <2>3, <2>5, ActorStep DEF e
<1>4. CASE ShutdownSend(n)
  <2> DEFINE c == [app[n] EXCEPT !.shut = TRUE]
             e == At(n, c, FALSE)
             h == ShutdownSendOf(sock[n])
  <2>1. Becomes(app, app', n, c) /\ Dispatch(n, h, net[n])
    <3>1. app' = [app EXCEPT ![n] = c]
      BY <1>4 DEF ShutdownSend
    <3> QED BY <1>0, <1>4, <3>1, BecomesExcept DEF ShutdownSend
  <2>2. Ends(app[n], c) /\ c.shut /\ c.opened = app[n].opened
    BY <1>1 DEF Ends, AppType
  <2> HIDE DEF c, h
  <2>3. Env(e) /\ (sock[n].state \notin Handshake => Unsent(c, sock[n]))
    BY <1>0, <1>2, <2>2, EndsEnv
  <2>4. e.s = sock[n] /\ e.a = c
    BY DEF At
  <2> HIDE DEF e
  <2>5. Final(e, h)
    BY <1>2, <2>2, <2>3, <2>4, ShutdownStep DEF h
  <2> QED BY <2>1, <2>2, <2>3, <2>5, ActorStep DEF e
<1> QED BY <1>3, <1>4

\* A message may be lost, and a RST says nothing.
Reset(m) == m = Segment("RST", 0, 0, 0, {})

LEMMA Lost ==
    ASSUME NEW n, NEW a, NEW s, NEW r, NEW M, NEW A, Direction(n, a, s, r, M, A), r \in SocketType,
           NEW N, NEW B,
           \A m \in N : m \in M \/ (Reset(m) /\ a.opened), \A m \in B : m \in A \/ Reset(m)
    PROVE  Direction(n, a, s, r, N, B)
<1>1. ASSUME NEW m, Reset(m)
      PROVE  /\ m \in Message /\ m.kind = "RST" /\ m.len = 0 /\ m.ack = 0 /\ m.sack = {}
  BY <1>1, ResetFields DEF Reset
<1>2. ASSUME NEW m \in N PROVE Carried(n, a, s, Past(r), m)
  <2>1. CASE m \in M
    BY <2>1 DEF Direction
  <2>2. CASE Reset(m)
    BY <2>2, <1>1 DEF Carried
  <2> QED BY <2>1, <2>2
<1>3. ~ a.opened => N = {} /\ r.rcvNxt = 0
  BY DEF Direction
<1>4. Reports(a, s, r, B)
  <2>1. r.rcvNxt \in Nat
    BY SocketFields
  <2>2. \A m \in B : m.ack <= r.rcvNxt
    BY <1>1, <2>1 DEF Direction, Reports
  <2>3. \A m \in B : m.kind = "FIN" /\ m.ack = a.wrote + 2 => Past(r) \/ (m.len = 0 /\ m.seq <= r.una)
    BY <1>1 DEF Direction, Reports
  <2>4. \A m \in B : (2 \in m.sack \/ m.ack = 2) => m \in A
    BY <1>1
  <2> QED BY <2>2, <2>3, <2>4 DEF Direction, Reports
<1> QED BY <1>2, <1>3, <1>4 DEF Direction

LEMMA NetStep ==
    ASSUME ConnInv, NEW n \in Node, UNCHANGED <<sock, app>>, DOMAIN net' = Node,
           \A m \in net'[n] : m \in net[n],
           \A m \in net'[Peer(n)] : m \in net[Peer(n)] \/ (Reset(m) /\ app[n].opened)
    PROVE  ConnInv'
<1> DEFINE p == Peer(n)
<1>1. p \in Node /\ Peer(p) = n
  BY Peers
<1>2. /\ Local(n, app[n], sock[n]) /\ Local(p, app[p], sock[p])
      /\ Direction(n, app[n], sock[n], sock[p], net[p], net[n])
      /\ Direction(p, app[p], sock[p], sock[n], net[n], net[p])
  BY <1>1 DEF ConnInv
<1>3. sock[n] \in SocketType /\ sock[p] \in SocketType
  BY <1>2 DEF Local
<1>4. Becomes(sock, sock', n, sock[n]) /\ Becomes(app, app', n, app[n])
  BY BecomesExcept DEF ConnInv
<1>5. IF n = "s" THEN app[n].opened => app["c"].opened ELSE app["s"].opened => app[n].opened
  BY DEF ConnInv, Node
<1> DEFINE M == net'[n]
           N == net'[p]
<1>6. (\A m \in M : m \in net[n]) /\ (\A m \in N : m \in net[p] \/ (Reset(m) /\ app[n].opened))
  OBVIOUS
<1>7. net'[n] = M /\ net'[p] = N
  OBVIOUS
<1> HIDE DEF p, M, N
<1>8. Direction(n, app[n], sock[n], sock[p], N, M)
  BY <1>2, <1>3, <1>6, Lost
<1>9. Direction(p, app[p], sock[p], sock[n], M, N)
  BY <1>2, <1>3, <1>6, Lost
<1> QED BY <1>2, <1>4, <1>5, <1>7, <1>8, <1>9, Assemble DEF p

LEMMA NetSteps ==
    ASSUME ConnInv, NEW n \in Node, NEW m, NoEndPoint(n, m) \/ Lose(n, m)
    PROVE  ConnInv'
<1> DEFINE p == Peer(n)
<1>1. p \in Node /\ p # n /\ DOMAIN net = Node
  BY Peers DEF ConnInv
<1>2. CASE Lose(n, m)
  <2>1. DOMAIN net' = Node /\ net'[n] = net[n] \ {m} /\ net'[p] = net[p] /\ UNCHANGED <<sock, app>>
    BY <1>1, <1>2 DEF Lose
  <2> QED BY <2>1, NetStep
<1>3. CASE NoEndPoint(n, m)
  <2> DEFINE gone == net[n] \ {m}
             x == Segment("RST", 0, 0, 0, {})
             ms == <<x>>
             E == Enqueue(net[p], gone, ms)
             N == IF n = "s" \/ m.kind \in {"SYN", "RST"} THEN net[p] ELSE E
  <2>1. /\ m \in net[n] /\ UNCHANGED <<sock, app>>
        /\ net' = [net EXCEPT ![n] = gone, ![p] = IF n = "s" \/ m.kind \in {"SYN", "RST"} THEN @ ELSE Enqueue(@, gone, ms)]
    BY <1>3 DEF NoEndPoint
  <2>2. DOMAIN net' = Node /\ net'[n] = gone /\ net'[p] = N
    BY <1>1, <2>1
  <2>3. E \subseteq net[p] \cup {x}
    <3>1. x \in Message
      BY ResetFields
    <3> HIDE DEF x
    <3>2. ms \in Seq(Message) /\ Len(ms) = 1 /\ ms[1] = x
      BY <3>1
    <3> HIDE DEF ms
    <3>3. E \subseteq net[p] \cup {ms[i] : i \in 1 .. Len(ms)}
      BY <3>2, Enqueued
    <3>4. \A i \in 1 .. Len(ms) : ms[i] = x
      BY <3>2
    <3> HIDE DEF E
    <3> QED BY <3>3, <3>4
  <2>4. n = "c" => app[n].opened
    <3>1. SUFFICES ASSUME n = "c" PROVE app["c"].opened
      OBVIOUS
    <3>2. Direction("s", app["s"], sock["s"], sock["c"], net["c"], net["s"])
      BY DEF ConnInv, Node, Peer
    <3>3. app["s"].opened
      BY <2>1, <3>1, <3>2 DEF Direction
    <3> QED BY <3>3 DEF ConnInv
  <2>5. \A y \in N : y \in net[p] \/ (Reset(y) /\ app[n].opened)
    BY <2>3, <2>4 DEF Node, Reset
  <2> HIDE DEF N, gone
  <2>6. \A y \in gone : y \in net[n]
    BY DEF gone
  <2> QED BY <2>1, <2>2, <2>5, <2>6, NetStep
<1> QED BY <1>2, <1>3

\* A socket at its first SYN, with x received.
Starting(u, z, x, k) ==
    /\ u \in SocketType /\ u.ep /\ u.state = z /\ u.una = 0 /\ u.size = 0 /\ u.nxt = 0 /\ u.high = 0
    /\ u.lost = {} /\ u.sacked = {} /\ u.held = {} /\ u.unread = 0 /\ ~ u.gotFin /\ u.finSeq = 0 /\ u.got = 0
    /\ ~ u.sendPending /\ ~ u.closeOnEmpty /\ ~ u.shutdownSend /\ u.rcvNxt = x /\ u.retx = k

LEMMA BlankFields ==
    ASSUME NEW z \in State, NEW x \in Nat, SynRetries \in Nat, DataRetries \in Nat,
           NEW y, y = [NewSocket EXCEPT !.ep = TRUE, !.state = z, !.rcvNxt = x]
    PROVE  Starting(y, z, x, "none") /\ y.out = << >> /\ y.synCount = SynRetries
<1>1. y \in SocketType
  <2> DEFINE v == [NewSocket EXCEPT !.ep = TRUE]
             w == [v EXCEPT !.state = z]
  <2>1. NewSocket \in SocketType
    BY NewSocketType
  <2>2. v \in SocketType
    <3> DEFINE v0 == NewSocket
    <3>1. v0 \in SocketType /\ v = [v0 EXCEPT !.ep = TRUE]
      BY <2>1
    <3> HIDE DEF v0
    <3> QED BY <3>1, ZenonT(40) DEF SocketType
  <2> HIDE DEF v
  <2>3. w \in SocketType
    BY <2>2 DEF SocketType
  <2>4. y = [w EXCEPT !.rcvNxt = x]
    BY DEF v
  <2> HIDE DEF w
  <2> QED BY <2>3, <2>4, RcvType
<1>2. /\ y.ep /\ y.state = z /\ y.una = 0 /\ y.size = 0 /\ y.nxt = 0 /\ y.high = 0
      /\ y.lost = {} /\ y.sacked = {} /\ y.held = {} /\ y.unread = 0 /\ ~ y.gotFin /\ y.finSeq = 0
      /\ y.got = 0
      /\ ~ y.sendPending /\ ~ y.closeOnEmpty /\ ~ y.shutdownSend /\ y.rcvNxt = x /\ y.retx = "none"
      /\ y.out = << >> /\ y.synCount = SynRetries
  BY DEF NewSocket
<1> QED BY <1>1, <1>2 DEF Starting

LEMMA Begun ==
    ASSUME NEW y, NEW z \in State, NEW x, Starting(y, z, x, "none"), y.out = << >>, y.synCount # 0,
           SynRetries \in Nat, z \notin {"FIN_WAIT_1", "LAST_ACK", "CLOSING"},
           NEW k \in {"SYN", "SYNACK"}, NEW v \in State,
           NEW h, h = WithState(SendEmptyPacket(y, k), v), NEW u, u = [h EXCEPT !.out = << >>]
    PROVE  /\ Starting(u, v, x, k) /\ u.out = << >> /\ h \in SocketType
           /\ \E m \in Message : /\ m.kind = k /\ m.seq = 0 /\ m.len = 0 /\ m.ack = x /\ m.sack = {}
                                 /\ Outs(h) = {m}
<1> DEFINE g == SendEmptyPacket(y, k)
<1>1. y \in SocketType /\ y.ep /\ Outs(y) = {} /\ y.state = z
  BY DEF Starting, Outs
<1>2. PICK m : /\ Appended(y, g, m) /\ m.kind = k /\ m.len = 0
               /\ g.retx = IF y.retx = "none" THEN k ELSE y.retx
               /\ m.seq = y.nxt /\ m.ack = y.rcvNxt /\ m.sack = y.held /\ g.sendPending = y.sendPending
  BY <1>1, SynAppended
<1>3. h = WithState(g, v)
  OBVIOUS
<1> HIDE DEF g
<1>4. g \in SocketType /\ Outs(g) = {m}
  BY <1>1, <1>2 DEF Appended
<1>5. h \in SocketType /\ Outs(h) = Outs(g) /\ h.state = v
  <2>1. h \in SocketType
    BY <1>3, <1>4, ZenonT(40) DEF WithState, SocketType
  <2>2. h.out = g.out /\ h.state = v
    BY <1>3, <1>4 DEF WithState, SocketType
  <2> QED BY <2>1, <2>2 DEF Outs
<1>6. /\ h.ep = g.ep /\ h.una = g.una /\ h.size = g.size /\ h.nxt = g.nxt /\ h.high = g.high
      /\ h.lost = g.lost /\ h.sacked = g.sacked /\ h.held = g.held /\ h.unread = g.unread
      /\ h.gotFin = g.gotFin /\ h.finSeq = g.finSeq /\ h.got = g.got
  BY <1>3, <1>4 DEF WithState, SocketType
<1>7. /\ h.sendPending = g.sendPending /\ h.closeOnEmpty = g.closeOnEmpty
      /\ h.shutdownSend = g.shutdownSend /\ h.rcvNxt = g.rcvNxt /\ h.retx = g.retx
  BY <1>3, <1>4 DEF WithState, SocketType
<1>8. Starting(h, v, x, k)
  BY <1>2, <1>5, <1>6, <1>7 DEF Starting, Appended
<1>9. Starting(u, v, x, k) /\ u.out = << >>
  BY <1>5, <1>8, OutCleared DEF Starting
<1>10. m \in Message /\ m.seq = 0 /\ m.ack = x /\ m.sack = {}
  BY <1>2 DEF Starting, Appended
<1> QED BY <1>2, <1>4, <1>5, <1>9, <1>10

LEMMA BeginStep ==
    ASSUME ConnInv, NEW n \in Node, ~ app[n].opened, n = "s" => app["c"].opened,
           NEW u, u.out = << >>,
           Starting(u, IF n = "c" THEN "SYN_SENT" ELSE "SYN_RCVD", IF n = "c" THEN 0 ELSE 1, SynOf(n)),
           NEW c, c = [app[n] EXCEPT !.opened = TRUE],
           NEW x \in Message, x.kind = SynOf(n), x.seq = 0, x.len = 0, x.ack = u.rcvNxt, x.sack = {},
           NEW M, \A m \in M : m \in net[n], NEW N, \A m \in N : m \in net[Peer(n)] \/ m = x,
           Becomes(sock, sock', n, u), Becomes(app, app', n, c),
           DOMAIN net' = Node, net'[n] = M, net'[Peer(n)] = N
    PROVE  ConnInv'
<1> DEFINE p == Peer(n)
           a == app[n]
           b == app[p]
           s == sock[n]
           q == sock[p]
           A == net[n]
           B == net[p]
<1>1. p \in Node /\ Peer(p) = n
  BY Peers
<1>2. /\ Local(n, a, s) /\ Local(p, b, q)
      /\ Direction(n, a, s, q, B, A)
      /\ Direction(p, b, q, s, A, B)
  BY <1>1 DEF ConnInv
<1>3. IF n = "c" THEN ~ b.opened ELSE b.opened
  BY DEF ConnInv, Node, Peer
<1>4. (\A m \in M : m \in A) /\ (\A m \in N : m \in B \/ m = x) /\ ~ a.opened
  OBVIOUS
<1>5. c = [a EXCEPT !.opened = TRUE]
  OBVIOUS
<1> HIDE DEF p, a, b, s, q, A, B
<1>6. /\ a \in AppType /\ b \in AppType /\ q \in SocketType /\ s \in SocketType
  BY <1>2 DEF Local
<1>7. /\ c \in AppType /\ c.opened /\ c.wrote = a.wrote /\ c.closed = a.closed /\ c.shut = a.shut
  BY <1>5, <1>6 DEF AppType
<1>8. a.wrote = 0 /\ ~ Ended(a) /\ s.rcvNxt = 0 /\ b.wrote \in 0 .. 2 /\ ~ Ended(c) /\ c.wrote = 0
  <2>1. a.wrote \in 0 .. 2 /\ b.wrote \in 0 .. 2
    BY <1>6 DEF AppType
  <2>2. ~ (0 < a.wrote) /\ ~ Ended(a) /\ s.rcvNxt = 0
    BY <1>2, <1>4 DEF Local
  <2> QED BY <1>7, <2>1, <2>2 DEF Ended
<1>9. B = {} /\ q.rcvNxt = 0 /\ (n = "c" => A = {})
  BY <1>2, <1>3, <1>4 DEF Direction
<1>10. /\ u \in SocketType /\ u.ep /\ u.una = 0 /\ u.size = 0 /\ u.nxt = 0 /\ u.high = 0
       /\ u.lost = {} /\ u.sacked = {} /\ u.held = {} /\ u.unread = 0 /\ ~ u.gotFin /\ u.finSeq = 0
       /\ u.got = 0 /\ ~ u.sendPending /\ ~ u.closeOnEmpty /\ ~ u.shutdownSend /\ u.retx = SynOf(n)
       /\ u.state = (IF n = "c" THEN "SYN_SENT" ELSE "SYN_RCVD")
       /\ u.rcvNxt = (IF n = "c" THEN 0 ELSE 1)
  BY DEF Starting
<1>11. ~ Finished(u) /\ u.state \in Handshake /\ ~ Past(u) /\ SentUpTo(u) = 1 /\ n \in {"c", "s"}
  BY <1>10 DEF Finished, Handshake, Past, SentUpTo, Node
<1>12. Local(n, c, u)
  <2>1. Shaking(n, c, u) /\ Asked(c, u) /\ Counted(u)
    BY <1>8, <1>10, <1>11 DEF Shaking, Asked, SynOf, Counted
  <2> QED BY <1>7, <1>10, <1>11, <2>1 DEF Local
<1>13. /\ q.ep => q.state \in Handshake
       /\ q.sacked = {} /\ q.una = 0 /\ q.una \in Nat
  <2>1. q.una \in Nat
    BY <1>6, SocketFields
  <2>2. q.una <= s.rcvNxt
    BY <1>2 DEF Direction, Reports
  <2>3. q.una = 0
    BY <1>8, <2>1, <2>2
  <2>4. q.ep => q.state \in Handshake
    BY <1>2, <1>9 DEF Local, Synced, Receiver
  <2>5. q.sacked = {}
    BY <1>2, <2>4 DEF Local, Gone, Shaking
  <2> QED BY <2>1, <2>3, <2>4, <2>5
<1>14. Direction(n, c, u, q, N, M)
  <2>1. ASSUME NEW m \in N PROVE Carried(n, c, u, Past(q), m)
    <3>1. m = x
      BY <1>4, <1>9
    <3> QED BY <3>1, <1>11 DEF Carried, SynOf
  <2>2. Arrived(a, s, q)
    BY <1>2 DEF Direction
  <2>3. ~ q.gotFin /\ q.finSeq = 0 /\ q.held = {} /\ q.got <= 0
    BY <2>2, <1>8 DEF Arrived
  <2>4. Arrived(c, u, q)
    BY <2>3, <1>8, <1>9, <1>11 DEF Arrived
  <2>5. \A m \in M : m.ack <= 0 /\ m.ack \in Nat
    <3>1. \A m \in A : m.ack <= q.rcvNxt
      BY <1>2 DEF Direction, Reports
    <3>2. \A m \in A : m \in Message
      BY <1>2 DEF Direction, Carried
    <3> QED BY <1>4, <1>9, <3>1, <3>2, MessageFields
  <2>6. (\E m \in M : 2 \in m.sack) => Early(q)
    BY <1>2, <1>4 DEF Direction, Reports
  <2>7. Reports(c, u, q, M)
    BY <2>5, <2>6, <1>8, <1>9, <1>10 DEF Reports
  <2> QED BY <2>1, <2>4, <2>7, <1>7 DEF Direction
<1>15. Direction(p, b, q, u, M, N)
  <2>1. ASSUME NEW m \in M PROVE Carried(p, b, q, Past(u), m)
    <3>1. Carried(p, b, q, Past(s), m) /\ m.ack <= q.rcvNxt
      BY <1>2, <1>4 DEF Direction, Reports
    <3>2. m.ack \in Nat
      BY <3>1, MessageFields DEF Carried
    <3>3. m.kind # "FIN"
      BY <3>1, <3>2, <1>9 DEF Carried
    <3> QED BY <3>1, <3>3 DEF Carried
  <2>2. ~ b.opened => M = {} /\ u.rcvNxt = 0
    BY <1>3, <1>4, <1>9, <1>10
  <2>3. Arrived(b, q, u)
    <3>1. q.ep => u.rcvNxt <= SentUpTo(q)
      BY <1>13, <1>10 DEF SentUpTo
    <3> QED BY <3>1, <1>8, <1>10, <1>11 DEF Arrived
  <2>4. Reports(b, q, u, N)
    <3>1. \A m \in N : m = x
      BY <1>4, <1>9
    <3>2. x.ack = u.rcvNxt /\ x.kind # "FIN" /\ x.sack = {}
      BY DEF SynOf
    <3>3. q.una <= u.rcvNxt /\ \A m \in N : m.ack <= u.rcvNxt
      BY <3>1, <3>2, <1>10, <1>13
    <3>4. q.una # b.wrote + 2 /\ q.una # 2 /\ u.rcvNxt # 2
      BY <1>8, <1>10, <1>13
    <3> QED BY <3>1, <3>2, <3>3, <3>4, <1>13 DEF Reports
  <2> QED BY <2>1, <2>2, <2>3, <2>4 DEF Direction
<1>16. IF n = "s" THEN c.opened => app["c"].opened ELSE app["s"].opened => c.opened
  BY <1>7
<1> QED BY <1>12, <1>14, <1>15, <1>16, Assemble DEF p, b, q

\* What is dispatched.
LEMMA Dispatched ==
    ASSUME ConnInv, NEW n \in Node, NEW h \in SocketType, NEW rest, Dispatch(n, h, rest)
    PROVE  /\ Becomes(sock, sock', n, [h EXCEPT !.out = << >>]) /\ DOMAIN net' = Node /\ net'[n] = rest
           /\ \A m \in net'[Peer(n)] : m \in net[Peer(n)] \/ m \in Outs(h)
<1> DEFINE p == Peer(n)
           u == [h EXCEPT !.out = << >>]
           N == Enqueue(net[p], rest, h.out)
<1>1. DOMAIN net = Node /\ DOMAIN sock = Node /\ p \in Node /\ p # n
  BY Peers DEF ConnInv
<1>2. Becomes(sock, sock', n, u)
  BY <1>1, BecomesExcept DEF Dispatch
<1>3. DOMAIN net' = Node /\ net'[n] = rest /\ net'[p] = N
  BY <1>1 DEF Dispatch
<1>4. N \subseteq net[p] \cup Outs(h)
  BY SocketFields, Enqueued DEF Outs
<1> HIDE DEF N, u
<1>5. \A m \in net'[p] : m \in net[p] \/ m \in Outs(h)
  BY <1>3, <1>4
<1> QED BY <1>2, <1>3, <1>5 DEF u

LEMMA ConnectStep ==
    ASSUME ConnInv, Connect
    PROVE  ConnInv'
<1> DEFINE n == "c"
           c == [app[n] EXCEPT !.opened = TRUE]
           y == [NewSocket EXCEPT !.ep = TRUE]
           h == WithState(SendEmptyPacket(y, "SYN"), "SYN_SENT")
           u == [h EXCEPT !.out = << >>]
<1>1. ~ app[n].opened /\ Dispatch(n, h, net[n]) /\ app' = [app EXCEPT ![n] = c] /\ n \in Node
  BY DEF Connect, WithState, Node
<1>2. Starting(y, "CLOSED", 0, "none") /\ y.out = << >> /\ y.synCount = SynRetries
  <2>1. y = [NewSocket EXCEPT !.ep = TRUE, !.state = "CLOSED", !.rcvNxt = 0]
    <3>1. NewSocket \in SocketType /\ NewSocket.state = "CLOSED" /\ NewSocket.rcvNxt = 0
      BY NewSocketType, Counters DEF NewSocket
    <3> QED BY <3>1 DEF SocketType
  <2>2. "CLOSED" \in State /\ 0 \in Nat
    BY DEF State
  <2> HIDE DEF y
  <2> QED BY <2>1, <2>2, Counters, BlankFields
<1> HIDE DEF y
<1>3. /\ Starting(u, "SYN_SENT", 0, "SYN") /\ u.out = << >> /\ h \in SocketType
      /\ \E m \in Message : /\ m.kind = "SYN" /\ m.seq = 0 /\ m.len = 0 /\ m.ack = 0 /\ m.sack = {}
                            /\ Outs(h) = {m}
  <2>1. "CLOSED" \in State /\ "SYN_SENT" \in State /\ y.synCount # 0 /\ SynRetries \in Nat
    BY <1>2, Counters DEF State
  <2> QED BY <1>2, <2>1, Begun
<1> HIDE DEF h
<1>4. PICK x \in Message : /\ x.kind = "SYN" /\ x.seq = 0 /\ x.len = 0 /\ x.ack = 0 /\ x.sack = {}
                           /\ Outs(h) = {x}
  BY <1>3
<1> HIDE DEF n
<1>5. /\ Becomes(sock, sock', n, u) /\ DOMAIN net' = Node /\ net'[n] = net[n]
      /\ \A m \in net'[Peer(n)] : m \in net[Peer(n)] \/ m = x
  BY <1>1, <1>3, <1>4, Dispatched
<1>6. Becomes(app, app', n, c)
  BY <1>1, BecomesExcept DEF ConnInv
<1>7. n = "c" /\ SynOf(n) = "SYN" /\ u.rcvNxt = 0
  BY <1>3 DEF n, SynOf, Starting
<1> HIDE DEF u
<1> DEFINE N == net'[Peer(n)]
<1>8. net'[Peer(n)] = N /\ \A m \in N : m \in net[Peer(n)] \/ m = x
  BY <1>5
<1>9. (n = "s" => app["c"].opened) /\ x.kind = SynOf(n) /\ x.ack = u.rcvNxt
      /\ Starting(u, IF n = "c" THEN "SYN_SENT" ELSE "SYN_RCVD", IF n = "c" THEN 0 ELSE 1, SynOf(n))
  BY <1>3, <1>4, <1>7
<1> HIDE DEF N
<1> QED BY <1>1, <1>3, <1>4, <1>5, <1>6, <1>8, <1>9, BeginStep

LEMMA ForkStep ==
    ASSUME ConnInv, NEW m \in net["s"], Fork(m)
    PROVE  ConnInv'
<1> DEFINE n == "s"
           c == [app[n] EXCEPT !.opened = TRUE]
           y == [NewSocket EXCEPT !.ep = TRUE, !.state = "SYN_RCVD", !.rcvNxt = m.seq + 1]
           g == SendEmptyPacket(y, "SYNACK")
           h == WithState(g, "SYN_RCVD")
           u == [h EXCEPT !.out = << >>]
           rest == net[n] \ {m}
<1>1. ~ app[n].opened /\ Dispatch(n, g, rest) /\ app' = [app EXCEPT ![n] = c] /\ n \in Node
      /\ m.kind = "SYN"
  BY DEF Fork, Node
<1>2. Direction("c", app["c"], sock["c"], sock["s"], net["s"], net["c"])
  BY DEF ConnInv, Node, Peer
<1>3. app["c"].opened /\ m.seq = 0
  BY <1>1, <1>2 DEF Direction, Carried
<1>4. Starting(y, "SYN_RCVD", 1, "none") /\ y.out = << >> /\ y.synCount = SynRetries
  <2>1. y = [NewSocket EXCEPT !.ep = TRUE, !.state = "SYN_RCVD", !.rcvNxt = 1]
    BY <1>3
  <2>2. "SYN_RCVD" \in State /\ 1 \in Nat
    BY DEF State
  <2> HIDE DEF y
  <2> QED BY <2>1, <2>2, Counters, BlankFields
<1> HIDE DEF y
<1>5. "SYN_RCVD" \in State /\ y.synCount # 0 /\ SynRetries \in Nat
  BY <1>4, Counters DEF State
<1>6. g = h
  <2>1. y \in SocketType /\ y.ep /\ y.state = "SYN_RCVD"
    BY <1>4 DEF Starting
  <2>2. \E x : Appended(y, g, x) /\ g.state = "SYN_RCVD"
    BY <1>5, <2>1, SynAppended
  <2> HIDE DEF g
  <2> QED BY <2>2 DEF Appended, SocketType, WithState
<1>7. /\ Starting(u, "SYN_RCVD", 1, "SYNACK") /\ u.out = << >> /\ h \in SocketType
      /\ \E x \in Message : /\ x.kind = "SYNACK" /\ x.seq = 0 /\ x.len = 0 /\ x.ack = 1 /\ x.sack = {}
                            /\ Outs(h) = {x}
  BY <1>4, <1>5, Begun
<1>8. Dispatch(n, h, rest)
  BY <1>1, <1>6
<1> HIDE DEF h, g
<1>9. PICK x \in Message : /\ x.kind = "SYNACK" /\ x.seq = 0 /\ x.len = 0 /\ x.ack = 1 /\ x.sack = {}
                           /\ Outs(h) = {x}
  BY <1>7
<1> HIDE DEF n
<1>10. /\ Becomes(sock, sock', n, u) /\ DOMAIN net' = Node /\ net'[n] = rest
       /\ \A k \in net'[Peer(n)] : k \in net[Peer(n)] \/ k = x
  BY <1>1, <1>7, <1>8, <1>9, Dispatched
<1>11. Becomes(app, app', n, c)
  BY <1>1, BecomesExcept DEF ConnInv
<1>12. n = "s" /\ SynOf(n) = "SYNACK" /\ u.rcvNxt = 1
  BY <1>7 DEF n, SynOf, Starting
<1> HIDE DEF u
<1> DEFINE N == net'[Peer(n)]
<1>13. net'[Peer(n)] = N /\ \A k \in N : k \in net[Peer(n)] \/ k = x
  BY <1>10
<1>14. (n = "s" => app["c"].opened) /\ x.kind = SynOf(n) /\ x.ack = u.rcvNxt
      /\ Starting(u, IF n = "c" THEN "SYN_SENT" ELSE "SYN_RCVD", IF n = "c" THEN 0 ELSE 1, SynOf(n))
  BY <1>3, <1>7, <1>9, <1>12
<1>15. \A k \in rest : k \in net[n]
  OBVIOUS
<1> HIDE DEF N, rest
<1> QED BY <1>1, <1>7, <1>9, <1>10, <1>11, <1>13, <1>14, <1>15, BeginStep

\* The socket after a write.
Written(s, u) ==
    /\ u \in SocketType /\ u.state = s.state /\ u.ep = s.ep /\ u.una = s.una /\ u.size = s.size + 1
    /\ u.nxt = s.nxt /\ u.high = s.high /\ u.lost = s.lost /\ u.sacked = s.sacked
    /\ u.closeOnEmpty = s.closeOnEmpty /\ u.shutdownSend = s.shutdownSend
    /\ u.rcvNxt = s.rcvNxt /\ u.held = s.held /\ u.unread = s.unread
    /\ u.gotFin = s.gotFin /\ u.finSeq = s.finSeq /\ u.got = s.got /\ u.retx = s.retx
    /\ u.lastAck = s.lastAck /\ u.out = s.out
    /\ s.state = "SYN_SENT" => u.sendPending = s.sendPending

Pending(v, w, x) ==
    /\ w \in SocketType /\ w.state = v.state /\ w.ep = v.ep /\ w.una = v.una
    /\ w.size = v.size /\ w.nxt = v.nxt /\ w.high = v.high /\ w.lost = v.lost
    /\ w.sacked = v.sacked /\ w.closeOnEmpty = v.closeOnEmpty
    /\ w.shutdownSend = v.shutdownSend /\ w.rcvNxt = v.rcvNxt /\ w.held = v.held
    /\ w.unread = v.unread /\ w.gotFin = v.gotFin /\ w.finSeq = v.finSeq
    /\ w.got = v.got /\ w.retx = v.retx /\ w.lastAck = v.lastAck /\ w.out = v.out
    /\ w.sendPending = x

LEMMA PendingFields ==
    ASSUME NEW v \in SocketType, NEW x \in BOOLEAN, NEW w, w = [v EXCEPT !.sendPending = x]
    PROVE  Pending(v, w, x)
<1>1. w \in SocketType /\ w.sendPending = x
  BY DEF SocketType
<1>2. /\ w.state = v.state /\ w.ep = v.ep /\ w.una = v.una
      /\ w.size = v.size /\ w.nxt = v.nxt /\ w.high = v.high /\ w.lost = v.lost
      /\ w.sacked = v.sacked /\ w.closeOnEmpty = v.closeOnEmpty
      /\ w.shutdownSend = v.shutdownSend /\ w.rcvNxt = v.rcvNxt /\ w.held = v.held
      /\ w.unread = v.unread /\ w.gotFin = v.gotFin /\ w.finSeq = v.finSeq
      /\ w.got = v.got /\ w.retx = v.retx /\ w.lastAck = v.lastAck /\ w.out = v.out
  BY DEF SocketType
<1> QED BY <1>1, <1>2 DEF Pending

LEMMA WrittenFields ==
    ASSUME NEW s \in SocketType, NEW x, s.state # "SYN_SENT" => x \in BOOLEAN,
           s.state = "SYN_SENT" => x = s.sendPending,
           NEW t, t = [s EXCEPT !.size = @ + 1], NEW u, u = [t EXCEPT !.sendPending = x]
    PROVE  Written(s, u)
<1>1. s.size + 1 \in Nat /\ x \in BOOLEAN
  BY SocketFields
<1>2. /\ t \in SocketType /\ t.state = s.state /\ t.ep = s.ep /\ t.una = s.una
      /\ t.size = s.size + 1
      /\ t.nxt = s.nxt /\ t.high = s.high /\ t.lost = s.lost /\ t.sacked = s.sacked
  BY <1>1 DEF SocketType
<1>3. /\ t.closeOnEmpty = s.closeOnEmpty /\ t.shutdownSend = s.shutdownSend
      /\ t.rcvNxt = s.rcvNxt /\ t.held = s.held /\ t.unread = s.unread
      /\ t.gotFin = s.gotFin /\ t.finSeq = s.finSeq /\ t.got = s.got /\ t.retx = s.retx
      /\ t.lastAck = s.lastAck /\ t.out = s.out
  BY DEF SocketType
<1>4. Pending(t, u, x)
  BY <1>1, <1>2, PendingFields
<1> QED BY <1>2, <1>3, <1>4 DEF Written, Pending

\* A write while no end of the stream was asked for.
LEMMA WriteStep ==
    ASSUME ConnInv, NEW n \in Node, sock[n].ep, app[n].wrote < 2, ~ Ended(app[n]),
           sock[n].state \in {"ESTABLISHED", "SYN_SENT", "CLOSE_WAIT"},
           NEW u, Written(sock[n], u), NEW c, c = [app[n] EXCEPT !.wrote = @ + 1],
           NEW N, \A m \in N : m \in net[Peer(n)],
           Becomes(sock, sock', n, u), Becomes(app, app', n, c),
           DOMAIN net' = Node, net'[n] = net[n], net'[Peer(n)] = N
    PROVE  ConnInv'
<1> DEFINE p == Peer(n)
           a == app[n]
           b == app[p]
           s == sock[n]
           q == sock[p]
           A == net[n]
           B == net[p]
<1>1. p \in Node /\ Peer(p) = n
  BY Peers
<1>2. /\ Local(n, a, s) /\ Local(p, b, q)
      /\ Direction(n, a, s, q, B, A)
      /\ Direction(p, b, q, s, A, B)
  BY <1>1 DEF ConnInv
<1>3. /\ s.ep /\ a.wrote < 2 /\ ~ Ended(a) /\ s.state \in {"ESTABLISHED", "SYN_SENT", "CLOSE_WAIT"}
      /\ Written(s, u) /\ c = [a EXCEPT !.wrote = @ + 1] /\ (\A m \in N : m \in B)
  OBVIOUS
<1> HIDE DEF p, a, b, s, q, A, B
<1>4. a \in AppType /\ b \in AppType /\ q \in SocketType /\ s \in SocketType /\ u \in SocketType
  BY <1>2, <1>3 DEF Local, Written
<1>5. a.wrote \in 0 .. 2 /\ a.wrote \in Nat
  BY <1>4 DEF AppType
<1>6. /\ c \in AppType /\ c.opened = a.opened /\ c.wrote = a.wrote + 1 /\ c.closed = a.closed
      /\ c.shut = a.shut
  BY <1>3, <1>4, <1>5 DEF AppType
<1>7. ~ Ended(c) /\ ~ FinOut(a, s) /\ ~ FinOut(c, u)
  BY <1>3, <1>6 DEF Ended, FinOut
<1>8. (Finished(u) <=> Finished(s)) /\ (Past(u) <=> Past(s)) /\ (Early(u) <=> Early(s))
      /\ (Clean(u) <=> Clean(s)) /\ SentUpTo(u) = SentUpTo(s) /\ u.ep /\ Clean(s)
  BY <1>3 DEF Written, Finished, Past, Early, Clean, SentUpTo
<1>9. /\ s.una \in Nat /\ s.size \in Nat /\ s.high \in Nat /\ s.nxt \in Nat /\ q.rcvNxt \in Nat
      /\ q.got \in Nat
  BY <1>4, SocketFields
<1>10. Local(n, c, u)
  <2>1. u.out = << >> /\ Counted(u) /\ c.opened /\ a.opened
    BY <1>2, <1>3, <1>6, <1>8 DEF Local, Written, Counted
  <2>2. CASE s.state = "SYN_SENT"
    <3>1. Shaking(n, a, s) /\ Asked(a, s)
      BY <1>2, <1>3, <2>2 DEF Local, Handshake
    <3>2. n = "c" /\ u.sendPending = s.sendPending
      BY <2>2, <3>1, <1>3 DEF Shaking, Written
    <3>3. Shaking(n, c, u)
      BY <3>1, <3>2, <1>3, <1>6 DEF Shaking, Written
    <3>4. Asked(c, u)
      BY <3>1, <1>3, <1>6 DEF Asked, Written
    <3>5. u.state \in Handshake
      BY <1>3, <2>2 DEF Written, Handshake
    <3> QED BY <1>4, <1>6, <1>8, <2>1, <3>3, <3>4, <3>5 DEF Local
  <2>3. CASE s.state \in {"ESTABLISHED", "CLOSE_WAIT"}
    <3>1. Synced(a, s) /\ Phase(s)
      BY <1>2, <1>3, <2>3 DEF Local, Handshake
    <3>2. s.una # a.wrote + 2
      BY <3>1, <1>7 DEF Synced, Sender
    <3>3. /\ s.una + s.size = a.wrote + 1 /\ 1 <= s.una
          /\ s.una <= s.nxt /\ s.nxt <= s.high /\ s.high <= a.wrote + 1
      BY <3>1, <3>2 DEF Synced, Sender, Line
    <3>4. Line(c, u)
      BY <3>3, <1>3, <1>5, <1>6, <1>9 DEF Line, Written
    <3>5. Marks(u)
      BY <3>1, <1>3 DEF Synced, Sender, Marks, Written
    <3>6. u.una # c.wrote + 2 /\ u.state = s.state
      BY <3>3, <1>3, <1>5, <1>6, <1>9 DEF Written
    <3>7. Sender(c, u)
      BY <3>4, <3>5, <3>6, <2>3 DEF Sender
    <3>8. Asked(c, u) /\ Receiver(u)
      BY <3>1, <1>3, <1>6 DEF Synced, Asked, Receiver, Written
    <3>9. Timer(c, u)
      <4>1. Timer(a, s) /\ u.size # 0
        BY <3>1, <1>3, <1>9 DEF Synced, Written
      <4>2. s.retx # "FIN" /\ s.retx \in {"none", "FIN", "RTO"}
        BY <4>1, <1>7 DEF Timer
      <4> QED BY <4>1, <4>2, <1>3 DEF Timer, Written
    <3>10. Phase(u) /\ u.state \notin Handshake \cup {"CLOSED"}
      BY <3>1, <3>6, <2>3, <1>8 DEF Phase, Handshake
    <3> QED BY <3>7, <3>8, <3>9, <3>10, <1>4, <1>6, <1>8, <2>1 DEF Local, Synced
  <2> QED BY <1>3, <2>2, <2>3
<1>11. Direction(n, c, u, q, N, A)
  <2>1. ASSUME NEW m \in N PROVE Carried(n, c, u, Past(q), m)
    <3>1. Carried(n, a, s, Past(q), m)
      BY <1>2, <1>3 DEF Direction
    <3>2. m.kind # "FIN" /\ m.seq \in Nat
      BY <3>1, <1>3, MessageFields DEF Carried
    <3> QED BY <3>1, <3>2, <1>3, <1>5, <1>6 DEF Carried, Written
  <2>2. Arrived(a, s, q) /\ ~ q.gotFin
    BY <1>2, <1>3 DEF Direction, Arrived
  <2>3. q.rcvNxt <= a.wrote + 1 /\ q.rcvNxt <= SentUpTo(s)
    <3>1. q.rcvNxt # a.wrote + 2
      BY <2>2 DEF Arrived, Finished
    <3> QED BY <2>2, <3>1, <1>3, <1>5, <1>9 DEF Arrived
  <2>4. Arrived(c, u, q)
    <3>1. q.held \subseteq 1 .. a.wrote /\ q.got <= a.wrote /\ \A x \in q.held : x < s.high
      BY <2>2, <1>3 DEF Arrived
    <3>2. q.held \subseteq 1 .. c.wrote /\ q.got <= c.wrote /\ (\A x \in q.held : x < u.high)
      BY <3>1, <1>3, <1>5, <1>6, <1>9 DEF Written
    <3>3. q.rcvNxt <= c.wrote /\ q.rcvNxt <= SentUpTo(u)
      BY <2>3, <1>6, <1>8
    <3>4. 1 <= q.rcvNxt => q.got = q.rcvNxt - 1
      BY <2>2, <2>3, <1>8 DEF Arrived
    <3> QED BY <2>2, <3>2, <3>3, <3>4, <1>5, <1>6, <1>9 DEF Arrived
  <2>5. Reports(c, u, q, A)
    <3>1. Reports(a, s, q, A)
      BY <1>2 DEF Direction
    <3>2. \A m \in A : m.ack <= q.rcvNxt /\ m.ack \in Nat
      <4>1. \A m \in A : m \in Message
        BY <1>2 DEF Direction, Carried
      <4> QED BY <3>1, <4>1, MessageFields DEF Reports
    <3>3. \A m \in A : m.ack # c.wrote + 2
      BY <3>2, <2>3, <1>5, <1>6, <1>9
    <3>4. u.una # c.wrote + 2 /\ u.una = s.una /\ u.sacked = s.sacked
      BY <3>1, <2>3, <1>3, <1>5, <1>6, <1>9 DEF Written, Reports
    <3> QED BY <3>1, <3>3, <3>4 DEF Reports
  <2>6. ~ c.opened => N = {} /\ q.rcvNxt = 0
    BY <1>2, <1>3, <1>6 DEF Direction
  <2> QED BY <2>1, <2>4, <2>5, <2>6 DEF Direction
<1>12. Direction(p, b, q, u, A, N)
  <2>1. ASSUME NEW m \in A PROVE Carried(p, b, q, Past(u), m)
    BY <1>2, <1>8 DEF Direction, Carried
  <2>2. Arrived(b, q, u)
    <3>1. Arrived(b, q, s)
      BY <1>2 DEF Direction
    <3> QED BY <3>1, <1>3, <1>8 DEF Arrived, Written
  <2>3. Reports(b, q, u, N)
    <3>1. Reports(b, q, s, B)
      BY <1>2 DEF Direction
    <3> QED BY <3>1, <1>3, <1>8 DEF Reports, Written
  <2>4. ~ b.opened => A = {} /\ u.rcvNxt = 0
    BY <1>2, <1>3 DEF Direction, Written
  <2> QED BY <2>1, <2>2, <2>3, <2>4 DEF Direction
<1>13. IF n = "s" THEN c.opened => app["c"].opened ELSE app["s"].opened => c.opened
  BY <1>6 DEF ConnInv, Node, a
<1> QED BY <1>10, <1>11, <1>12, <1>13, Assemble DEF p, b, q, A

LEMMA SendStep ==
    ASSUME ConnInv, NEW n \in Node, Send(n)
    PROVE  ConnInv'
<1> DEFINE s == sock[n]
           t == [s EXCEPT !.size = @ + 1]
           x == s.sendPending \/ (s.state # "SYN_SENT" /\ BytesInFlight(s) < s.cwnd)
           h == [t EXCEPT !.sendPending = x]
           u == [h EXCEPT !.out = << >>]
           c == [app[n] EXCEPT !.wrote = @ + 1]
<1>1. s \in SocketType /\ s.out = << >>
  BY DEF ConnInv, Local
<1>2. /\ s.state \in {"ESTABLISHED", "SYN_SENT", "CLOSE_WAIT"} /\ s.ep
      /\ app[n].wrote < Data[n] /\ ~ app[n].closed /\ ~ app[n].shut
      /\ app' = [app EXCEPT ![n] = c]
      /\ Dispatch(n, [t EXCEPT !.sendPending =
                @ \/ (s.state # "SYN_SENT" /\ BytesInFlight(s) < s.cwnd)], net[n])
  BY DEF Send
<1>3. h = [t EXCEPT !.sendPending = @ \/ (s.state # "SYN_SENT" /\ BytesInFlight(s) < s.cwnd)]
  BY <1>1 DEF SocketType
<1>4. Dispatch(n, h, net[n])
  BY <1>2, <1>3
<1>5. (s.state # "SYN_SENT" => x \in BOOLEAN) /\ (s.state = "SYN_SENT" => x = s.sendPending)
  BY <1>1, SocketFields
<1> HIDE DEF x
<1>6. Written(s, h)
  BY <1>1, <1>5, WrittenFields
<1> HIDE DEF h
<1>7. h \in SocketType /\ h.out = << >> /\ Outs(h) = {}
  BY <1>1, <1>6 DEF Written, Outs
<1>8. u = h
  BY <1>7 DEF SocketType
<1> HIDE DEF u
<1>9. /\ Becomes(sock, sock', n, h) /\ DOMAIN net' = Node /\ net'[n] = net[n]
      /\ \A m \in net'[Peer(n)] : m \in net[Peer(n)]
  BY <1>4, <1>7, <1>8, Dispatched DEF u
<1>10. Becomes(app, app', n, c)
  BY <1>2, BecomesExcept DEF ConnInv
<1>11. app[n].wrote < 2 /\ ~ Ended(app[n])
  <2>1. app[n].wrote \in 0 .. 2 /\ Data[n] \in 0 .. 2
    BY Counters DEF ConnInv, Local, AppType
  <2> QED BY <1>2, <2>1 DEF Ended
<1> DEFINE N == net'[Peer(n)]
<1>12. net'[Peer(n)] = N /\ \A m \in N : m \in net[Peer(n)]
  BY <1>9
<1> HIDE DEF N
<1> QED BY <1>2, <1>6, <1>9, <1>10, <1>11, <1>12, WriteStep

(***************************************************************************)
(* The invariant.                                                          *)
(***************************************************************************)
LEMMA InitInv == Init => ConnInv
<1> SUFFICES ASSUME Init PROVE ConnInv
  OBVIOUS
<1> DEFINE s == NewSocket
           a == [opened |-> FALSE, wrote |-> 0, closed |-> FALSE, shut |-> FALSE]
<1>1. s \in SocketType
  BY Counters, NewSocketType
<1>2. /\ s.ep = FALSE /\ s.state = "CLOSED" /\ s.una = 0 /\ s.size = 0 /\ s.nxt = 0 /\ s.high = 0
      /\ s.lost = {} /\ s.sacked = {} /\ s.held = {} /\ s.unread = 0 /\ s.retx = "none"
      /\ s.lastAck = FALSE /\ s.timewait = FALSE /\ s.sendPending = FALSE /\ s.rcvNxt = 0
      /\ s.gotFin = FALSE /\ s.finSeq = 0 /\ s.got = 0 /\ s.out = << >>
  BY DEF NewSocket
<1>3. a \in AppType /\ a.opened = FALSE /\ a.wrote = 0 /\ a.closed = FALSE /\ a.shut = FALSE
  BY DEF AppType
<1>4. /\ DOMAIN sock = Node /\ DOMAIN app = Node /\ DOMAIN net = Node
      /\ \A n \in Node : sock[n] = s /\ app[n] = a /\ net[n] = {}
  BY DEF Init
<1> HIDE DEF s, a
<1>5. \A n \in Node : Local(n, a, s)
  <2>1. Counted(s) /\ Gone(s) /\ Half(a, s) /\ ~ Ended(a)
    BY <1>2, <1>3 DEF Counted, Gone, Half, Ended
  <2> QED BY <1>1, <1>2, <1>3, <2>1 DEF Local
<1>6. \A n \in Node : Direction(n, a, s, s, {}, {})
  <2>1. Arrived(a, s, s) /\ Reports(a, s, s, {})
    BY <1>2, <1>3 DEF Arrived, Reports
  <2> QED BY <1>2, <2>1 DEF Direction
<1> QED BY <1>3, <1>4, <1>5, <1>6, Peers DEF ConnInv, Node

LEMMA NextInv == ConnInv /\ [Next]_vars => ConnInv'
<1> SUFFICES ASSUME ConnInv, [Next]_vars PROVE ConnInv'
  OBVIOUS
<1>1. CASE UNCHANGED vars
  BY <1>1 DEF vars, ConnInv
<1>2. CASE Connect
  BY <1>2, ConnectStep
<1>3. ASSUME NEW n \in Node, Send(n) PROVE ConnInv'
  BY <1>3, SendStep
<1>4. ASSUME NEW n \in Node, Close(n) \/ ShutdownSend(n) PROVE ConnInv'
  BY <1>4, CloseSteps
<1>5. ASSUME NEW n \in Node,
             RetxTimer(n) \/ LastAckTimer(n) \/ TimeWaitTimer(n) \/ SendPendingDataEvent(n) \/ Recv(n)
      PROVE  ConnInv'
  BY <1>5, TimerSteps
<1>6. ASSUME NEW n \in Node, NEW m \in net[n], Receive(n, m) PROVE ConnInv'
  BY <1>6, ReceiveStep
<1>7. ASSUME NEW n \in Node, NEW m \in net[n], NoEndPoint(n, m) \/ Lose(n, m) PROVE ConnInv'
  BY <1>7, NetSteps
<1>8. ASSUME NEW m \in net["s"], Fork(m) PROVE ConnInv'
  BY <1>8, ForkStep
<1> QED BY <1>1, <1>2, <1>3, <1>4, <1>5, <1>6, <1>7, <1>8 DEF Next

\* Two sockets, their applications and the segments under way fit together.
LEMMA Invariance == Spec => []ConnInv
BY InitInv, NextInv, PTL DEF Spec

(***************************************************************************)
(* What the invariant says of one socket.                                  *)
(***************************************************************************)
LEMMA SentListOf ==
    ASSUME ConnInv, NEW n \in Node, sock[n].ep, sock[n].state \notin Handshake
    PROVE  SentList(sock[n]) = sock[n].una .. (sock[n].high - 1)
<1> DEFINE f == FALSE
           e == At(n, app[n], f)
<1> HIDE DEF f
<1>1. Env(e) /\ e.s = sock[n]
  BY AtEnv, AtFields
<1> HIDE DEF e
<1>2. Good(e, e.s)
  BY <1>1, StartGood
<1> QED BY <1>1, <1>2, SentListIs

LEMMA InvNumbers ==
    ASSUME ConnInv, NEW n \in Node
    PROVE  LET s == sock[n]
           IN  /\ s \in SocketType
               /\ {s.una, s.nxt, s.high, s.rcvNxt, s.finSeq} \subseteq 0 .. 4
               /\ {s.size, s.unread, s.got} \subseteq 0 .. 2
<1> DEFINE s == sock[n]
           r == sock[Peer(n)]
           a == app[n]
           b == app[Peer(n)]
<1>1. /\ Local(n, a, s) /\ Local(Peer(n), b, r)
      /\ Arrived(a, s, r) /\ Reports(a, s, r, net[n]) /\ Arrived(b, r, s)
  BY Peers DEF ConnInv, Direction
<1> HIDE DEF s, r, a, b
<1>2. s \in SocketType /\ r \in SocketType /\ a.wrote \in 0 .. 2 /\ b.wrote \in 0 .. 2
  BY <1>1 DEF Local, AppType
<1>3. /\ s.una \in Nat /\ s.nxt \in Nat /\ s.high \in Nat /\ s.rcvNxt \in Nat /\ s.finSeq \in Nat
      /\ s.size \in Nat /\ s.unread \in Nat /\ s.got \in Nat /\ r.rcvNxt \in Nat
  BY <1>2, SocketFields
<1>4. s.una <= 4 /\ s.rcvNxt <= 4 /\ s.finSeq <= 4 /\ s.got <= 2
  BY <1>1, <1>2, <1>3 DEF Arrived, Reports
<1>5. s.nxt <= 4 /\ s.high <= 4 /\ s.size <= 2 /\ s.unread <= 2
  <2>1. CASE ~ s.ep
    BY <1>1, <2>1 DEF Local, Gone
  <2>2. CASE s.ep /\ s.state \in Handshake
    BY <1>1, <1>2, <2>2 DEF Local, Shaking
  <2>3. CASE s.ep /\ s.state \notin Handshake
    <3>1. Line(a, s) /\ Receiver(s)
      BY <1>1, <2>3 DEF Local, Synced, Sender
    <3> QED BY <1>2, <1>3, <1>4, <3>1 DEF Line, Receiver
  <2> QED BY <2>1, <2>2, <2>3
<1> QED BY <1>2, <1>3, <1>4, <1>5 DEF s

(***************************************************************************)
(* Theorems.                                                               *)
(***************************************************************************)
\* The numbers of a socket stay in range, and the scoreboard marks only segments
\* that were sent and are not acknowledged, none of them both lost and sacked:
\* after every handler of tcp-socket-base.cc, for all numbers of retries.
THEOREM TypeCorrect == Spec => []TypeOK
<1>1. ConnInv => TypeOK
  <2> SUFFICES ASSUME ConnInv, NEW n \in Node
               PROVE  LET s == sock[n]
                      IN  /\ s.state \in State
                          /\ {s.una, s.nxt, s.high, s.rcvNxt, s.finSeq} \subseteq 0 .. 4
                          /\ {s.size, s.unread, s.got} \subseteq 0 .. 2
                          /\ s.lost \cup s.sacked \subseteq SentList(s)
                          /\ s.lost \cap s.sacked = {} /\ s.held \subseteq {2}
                          /\ s.synCount \in 0 .. SynRetries /\ s.retr \in 0 .. DataRetries
                          /\ s.retx \in {"none", "SYN", "SYNACK", "FIN", "RTO"}
    BY DEF TypeOK
  <2> DEFINE s == sock[n]
  <2>1. /\ s \in SocketType
        /\ {s.una, s.nxt, s.high, s.rcvNxt, s.finSeq} \subseteq 0 .. 4
        /\ {s.size, s.unread, s.got} \subseteq 0 .. 2
    BY InvNumbers
  <2>2. Local(n, app[n], s)
    BY DEF ConnInv
  <2>3. s.ep /\ s.state \notin Handshake => SentList(s) = s.una .. (s.high - 1)
    BY SentListOf
  <2> HIDE DEF s
  <2>4. s.lost \cup s.sacked \subseteq SentList(s) /\ s.lost \cap s.sacked = {}
    <3>1. CASE ~ s.ep \/ s.state \in Handshake
      BY <2>2, <3>1 DEF Local, Gone, Shaking
    <3>2. CASE s.ep /\ s.state \notin Handshake
      <4>1. Marks(s)
        BY <2>2, <3>2 DEF Local, Synced, Sender
      <4> QED BY <2>3, <3>2, <4>1 DEF Marks
    <3> QED BY <3>1, <3>2
  <2>5. /\ s.state \in State /\ s.held \subseteq {2}
        /\ s.synCount \in 0 .. SynRetries /\ s.retr \in 0 .. DataRetries
        /\ s.retx \in {"none", "SYN", "SYNACK", "FIN", "RTO"}
    BY <2>1, SocketFields
  <2> QED BY <2>1, <2>4, <2>5 DEF s
<1> QED BY <1>1, Invariance, PTL

\* The FIN of the side that closes first (Close, SendDataPacket, PeerClose) ends a
\* complete stream, whatever the network lost, delayed or reordered and however
\* often ReTxTimeout and SendEmptyPacket have sent again.
THEOREM ActiveCloseComplete == Spec => []ActiveCloseIsComplete
<1>1. ConnInv => ActiveCloseIsComplete
  <2> SUFFICES ASSUME ConnInv, NEW n \in Node, Finished(sock[n]),
                      sock[Peer(n)].state \in {"FIN_WAIT_1", "FIN_WAIT_2", "CLOSING", "TIME_WAIT"}
               PROVE  sock[n].got = app[Peer(n)].wrote
    BY DEF ActiveCloseIsComplete
  <2> DEFINE s == sock[n]
             q == sock[Peer(n)]
             b == app[Peer(n)]
  <2>1. Local(n, app[n], s) /\ Local(Peer(n), b, q) /\ Arrived(b, q, s)
    BY Peers DEF ConnInv, Direction
  <2>2. Finished(s) /\ Clean(q)
    BY DEF Clean
  <2> HIDE DEF s, q, b
  <2>3. s.rcvNxt \in Nat /\ s.finSeq \in Nat /\ s.got \in Nat /\ b.wrote \in Nat
    BY <2>1, SocketFields DEF Local, AppType
  <2>4. b.wrote <= s.finSeq /\ s.finSeq < s.rcvNxt /\ s.rcvNxt <= b.wrote + 2
    BY <2>1, <2>2 DEF Arrived, Finished
  <2>5. 1 <= s.rcvNxt
    BY <2>3, <2>4
  <2>6. s.got = IF s.rcvNxt <= b.wrote + 1 THEN s.rcvNxt - 1 ELSE b.wrote
    BY <2>1, <2>2, <2>5 DEF Arrived
  <2>7. s.got = b.wrote
    BY <2>3, <2>4, <2>6
  <2> QED BY <2>7 DEF s, b
<1> QED BY <1>1, Invariance, PTL

\* What DiscardUpTo takes out of the transmit buffer, and the FIN whose
\* acknowledgement leads ProcessWait to FIN_WAIT_2, the other side has received.
THEOREM AckedReceived == Spec => []AckedIsReceived
<1>1. ConnInv => AckedIsReceived
  <2> SUFFICES ASSUME ConnInv, NEW n \in Node
               PROVE  /\ sock[n].una - 1 <= sock[Peer(n)].got \/ Finished(sock[Peer(n)])
                      /\ sock[n].state = "FIN_WAIT_2" => Finished(sock[Peer(n)])
    BY DEF AckedIsReceived
  <2> DEFINE s == sock[n]
             r == sock[Peer(n)]
             a == app[n]
  <2>1. /\ Local(n, a, s) /\ Local(Peer(n), app[Peer(n)], r)
        /\ Arrived(a, s, r) /\ Reports(a, s, r, net[n])
    BY Peers DEF ConnInv, Direction
  <2> HIDE DEF s, r, a
  <2>2. s.una \in Nat /\ r.rcvNxt \in Nat /\ r.got \in Nat /\ a.wrote \in Nat
    BY <2>1, SocketFields DEF Local, AppType
  <2>3. s.una <= r.rcvNxt
    BY <2>1 DEF Reports
  <2>4. s.una - 1 <= r.got \/ Finished(r)
    BY <2>1, <2>2, <2>3 DEF Local, Counted
  <2>5. s.state = "FIN_WAIT_2" => s.una = a.wrote + 2
    BY <2>1 DEF Local, Half, Synced, Sender, Handshake
  <2>6. s.state = "FIN_WAIT_2" => Finished(r)
    BY <2>1, <2>2, <2>3, <2>5 DEF Arrived
  <2> QED BY <2>4, <2>6 DEF s, r
<1> QED BY <1>1, Invariance, PTL

\* A socket that waits for the acknowledgement of a SYN, of data or of a FIN has
\* m_retxEvent or m_lastAckEvent running, whichever of SendEmptyPacket,
\* SendDataPacket, NewAck and the timers themselves took m_retxEvent last.
THEOREM TimerRuns == Spec => []OutstandingHasTimer
<1>1. ConnInv => OutstandingHasTimer
  <2> SUFFICES ASSUME ConnInv, NEW n \in Node, sock[n].ep,
                      \/ SentList(sock[n]) # {} /\ sock[n].state # "TIME_WAIT"
                      \/ sock[n].state \in {"SYN_SENT", "SYN_RCVD", "FIN_WAIT_1", "CLOSING", "LAST_ACK"}
               PROVE  sock[n].retx # "none" \/ sock[n].lastAck
    BY DEF OutstandingHasTimer
  <2> DEFINE s == sock[n]
  <2>1. Local(n, app[n], s) /\ s.ep
    BY DEF ConnInv
  <2>2. s.state \notin Handshake => SentList(s) = s.una .. (s.high - 1)
    BY SentListOf
  <2>3. \/ SentList(s) # {} /\ s.state # "TIME_WAIT"
        \/ s.state \in {"SYN_SENT", "SYN_RCVD", "FIN_WAIT_1", "CLOSING", "LAST_ACK"}
    OBVIOUS
  <2> HIDE DEF s
  <2>4. CASE s.state \in Handshake
    <3>1. Shaking(n, app[n], s)
      BY <2>1, <2>4 DEF Local
    <3> QED BY <3>1 DEF Shaking, s
  <2>5. CASE s.state \notin Handshake
    <3>1. Timer(app[n], s) /\ s.una \in Nat /\ s.high \in Nat
      BY <2>1, <2>5, SocketFields DEF Local, Synced
    <3>2. SentList(s) # {} => s.una < s.high
      BY <2>2, <2>5, <3>1
    <3>3. s.retx # "none" \/ s.lastAck
      BY <2>3, <2>5, <3>1, <3>2 DEF Timer, Handshake
    <3> QED BY <3>3 DEF s
  <2> QED BY <2>4, <2>5
<1> QED BY <1>1, Invariance, PTL
=============================================================================
