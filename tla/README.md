# A TLA+ model of the TCP of this simulator

The repository is ns-3 with one addition, a congestion control that changes its policy in the
middle of a connection (`src/internet/model/tcp-composite.cc`), and the experiments around it: a
client sends over TCP through a bottleneck whose rate follows a trace, and every run is repeated
with another policy and another window after the switch. What the results rest on is the TCP of
ns-3: whether the stream arrives, whether the scoreboard of the sender tells the truth, whether a
timer runs while it is needed, and whether the window computed before and after the switch is the
one the policies define; and on the event loop under it, which decides what happens in which
order. Those parts are modelled here; paths below are relative to the root of
the repository.

## Inventory

| Part | State | Operations | Talks to |
|---|---|---|---|
| Receive buffer (`tcp-rx-buffer.cc`) | `m_data` (map from sequence number to packet), `m_nextRxSeq`, `m_size`, `m_availBytes`, `m_gotFin`/`m_finSeq`, `m_sackList`, `m_maxBuffer` | `Add`, `UpdateSackList`, `ClearSackList`, `Extract`, `SetFinSequence`, `SetNextRxSequence`, `SetMaxBufferSize` | called by `ReceivedData`, `PeerClose`, `Recv`; read by `AdvertisedWindowSize`, `AddOptionSack` |
| Transmit buffer (`tcp-tx-buffer.cc`) | `m_appList`, `m_sentList` (items with sacked, lost, retransmitted marks), `m_firstByteSeq`, the counters `m_lostOut`, `m_sackedOut`, `m_retrans`, the iterator `m_highestSack` | `Add`, `CopyFromSequence` (cuts and merges items), `DiscardUpTo`, `Update`, `NextSeg`, `IsLost`, `MarkHeadAsLost`, `AddRenoSack`, `ResetRenoSack`, `SetSentListLost` | called by the sender |
| Sender (`tcp-socket-base.cc`) | congestion state, `m_cWnd`, `m_dupAckCount`, `m_recover`, `m_recoverActive`, `m_highTxMark`, retry counter, pending events | `Send`, `SendPendingData`, `ReceivedAck`, `ProcessAck`, `DupAck`, `EnterRecovery`, `NewAck`, `ReTxTimeout` | transmit buffer, congestion control, network, timers |
| Composite congestion control (`tcp-composite.cc`) | policy and two parameters, Cubic epoch (`m_epochStart`, `m_bicK`, `m_bicOriginPoint`, `m_lastMaxCwnd`, `m_cWndCnt`, `m_ackCnt`, `m_tcpCwnd`), HyStart (`m_found`, `m_delayMin`), and of the socket `m_cWnd`, `m_ssThresh` | `IncreaseWindow`, `PktsAcked`, `GetSsThresh`, `CongestionStateSet`, the switch scheduled by `Init` | called by the sender; the switch is called by the simulator |
| Connection (`tcp-socket-base.cc`, `tcp-l4-protocol.cc`) | `m_state`, the end point, `m_closeOnEmpty`, `m_shutdownSend`, `m_synCount`, `m_dataRetrCount`, and the events `m_retxEvent` (one for SYN, FIN and data), `m_lastAckEvent`, `m_timewaitEvent`, `m_sendPendingDataEvent` | `Connect`, `Close`, `ShutdownSend`, the `Process...` function of each state, `PeerClose`, `LastAckTimeout`, `CompleteFork`, `NoEndPointsFound` | both buffers, the peer, timers, the application |
| Flow control and delayed ACKs (`tcp-socket-base.cc`) | `m_rWnd`, `m_highRxAckMark`, `m_persistEvent`; `m_delAckCount`, `m_delAckEvent`, `m_highTxAck` | `UpdateWindowSize`, `PersistTimeout`, `AdvertisedWindowSize`, `ReceivedData`, `DelAckTimeout`, `Recv` | sender and receive buffer of the two ends |
| Event loop (`core/model/default-simulator-impl.cc`) | `m_events`, `m_currentTs`, `m_currentUid`, `m_uid`, `m_unscheduledEvents`, `m_stop`, and, shared with other threads, `m_eventsWithContext` and its flag | `Run`, `ProcessOneEvent`, `Schedule`, `Cancel`, `Remove`, `IsExpired`, `SetScheduler`, `ScheduleWithContext` | calls every handler of the program; threads of real devices call it |
| Schedulers (`core/model/*-scheduler.cc`) | a sorted list, a heap, a calendar of buckets | `Insert`, `RemoveNext`, `Remove`, the resizing of the calendar | called by the event loop |
| ECN, pacing (`tcp-socket-base.cc`) | see "not modelled" | | |
| Recovery algorithms, other congestion controls, RTT and rate estimators | their estimates | return a window, a time | |
| Devices, queues, applications, drivers, scripts | packet queues, files | | |

Handlers run in one thread and to their end; only `ScheduleWithContext` may be called from another
(devices that read from the host). What is hard is order: the events of the
network, of six timers and of the application come in any order; segments are lost, delayed and
reordered, cut differently when they are resent; an ACK is processed long after the scoreboard it
describes; a timeout fires in any congestion state; the switch of the policy finds the other
policy's state; a window closes and the message that opens it is lost; both ends close at once. There is nothing persistent, so crashes are not a topic. `PROJECT.json` lists
these hazards one by one, with the line where each bites and the properties that watch it.

## Modules

| Module | Models |
|---|---|
| `InOrderStream` | what the receive buffer promises: a stream that arrives in any order and is handed over in order |
| `TcpRxBuffer` | `TcpRxBuffer`, with `OutOfRange`, `ReceivedData`, `PeerClose` and reads of any size |
| `TcpRxBufferLoops` | the loops of `Add`, `UpdateSackList` and `Extract` one iteration at a time |
| `TcpRxBufferProofs` | theorems about `TcpRxBuffer` |
| `TcpTxBuffer` | `TcpTxBuffer`, as operators from a buffer to a buffer, and what makes a buffer sound |
| `TcpSender` | the established sender, its timers and application, a network and a receiver; uses `TcpTxBuffer` |
| `TcpFlowControl` | `TcpSender` composed with a receiver that reads late, advertises what is left and delays its ACKs |
| `TcpConnection` | two sockets from `Connect` to the end of the last one, with their applications and the demultiplexer |
| `EventOrder` | what a simulator promises: events are executed once, by time and then by number |
| `Schedulers` | the list, heap and calendar schedulers as operators on one kind of value |
| `DefaultSimulator` | the event loop over `Schedulers`, with a second thread; implements `EventOrder` |
| `TcpComposite` | `TcpComposite`, driven by the calls of the socket's handlers; `MCTcpComposite` names policies for it |
| `TcpTxBufferProofs`, `TcpSenderProofs` | what each operation of the transmit buffer keeps, and from it the theorems about `TcpSender` |
| `TcpFlowControlProofs` | the same handlers against a receiver whose window closes, and from it the theorems about `TcpFlowControl` |
| `TcpConnectionProofs` | what each handler of a socket keeps, and from it the theorems about `TcpConnection` |
| `TcpCompositeProofs` | theorems about `TcpComposite` |
| `DefaultSimulatorProofs` | the contract of the list and heap schedulers, and from it the theorems about `DefaultSimulator` |
| `InductionFacts` | least and greatest elements and induction over a set, used by the proofs of buffer, connection and schedulers |

*Receive buffer.* The variables have the names of the members. A byte of the stream is its number,
so `m_data` maps a first sequence number to the bytes of a packet, and a corrupted stream shows as
a byte in the wrong place. One action per operation: a segment of any position and length within
what a peer may send (`PeerMaySend`: up to the right edge once advertised, plus one probe), a FIN
with or without data, a read of any size, a growth of the buffer. `Add` is written with closed forms
(`NewHead`, `NewTail`, `Embedded`, `FirstMissing`); `TcpRxBufferLoops` has the loops of the code,
and `LoopsAgree` of the run `rx_buffer` compares both in every reachable state for every segment and read.

*Sender.* `snd` is a record of the socket's members with the transmit buffer inside. Each action is
one event of the simulator run to its end: a write, the pending-data event, an arriving ACK with all
of `ReceivedAck` up to the trailing `SendPendingData`, a timeout. Every `NS_ASSERT` on these paths
is evaluated, and one that fails adds its name to `snd.failed`. Network and ACKs are bags:
any message may be next, or be lost; a full queue drops. The receiver is the
reassembly and the SACK list, most recent block first. The congestion window after each ACK is any
of `Windows`: the sender must be right for every congestion control. After
a timeout it is one segment, as in the code. An ACK carries the receiver's window, which
`UpdateWindowSize` takes or leaves, and `DoForwardUp` enters and leaves the persist state around
`ProcessEstablished`; in `TcpSender` itself the application reads at once, so that the window never closes.

*Flow control.* `TcpFlowControl` extends `TcpSender` by the variable `rcv`: what the application has read,
the delayed ACK and the highest ACK sent. `ReceivedData` is the whole handler of the receiver, with
`OutOfRange`, the trim to the buffer, the read that the application makes inside `NotifyDataRecv` (any number
of bytes, none included) and the ACK at once or later; `Recv` is a read at any other moment, which sends
nothing; `PersistTimeout` sends the probe and puts it back. Where the code would follow a null pointer the
model records `NoByte` and stops (`Running`).

*Connection.* `sock[n]` is a socket, a record of its members, and data is counted in segments. A handler is a
function from a socket to the socket it leaves, with the messages sent in `out`, and an action is one event: a call
of the application, a timer, an arriving message. `ForwardUp` chooses by `m_state` as `DoForwardUp` does; a
message for a client without end point gets the reset of `NoEndPointsFound`, unless it is a reset; at the server the
listener finds it and ignores it. `retx` says which of its four
callbacks `m_retxEvent` will run, because the same event serves all and whoever schedules first keeps it.

*Event loop.* One action per call that a handler may make and per step of `Run`. The main thread reads
`m_eventsWithContextEmpty` without the mutex, so reading it and emptying the queue are two steps
(`ReadFlag`, `ProcessEventsWithContext`) between which the other thread may push. `Schedulers` has the heap as the array of the
code with `BottomUp` and `TopDown`, and the calendar with its buckets, their number and width,
`DoRemoveNext` by years and `Resize` with `CalculateNewWidth`. The events that wait are compared with those
of `EventOrder` by `InOrder`.

*Composite.* `cc` is the object, `tcb` what it reads and writes of the socket, `sock` the congestion
state. Actions are the branches of `ProcessAck`, `DupAck`, `EnterRecovery` and `ReTxTimeout`, with
their calls in order. The clock occurs only in comparisons, so an ACK brings the outcomes (`Clock`):
whether the epoch is younger than `m_cubicDelta`, whether HyStart detects something, and where on
the cubic the time is. K is kept as the quotient whose cube root it is; parameters are in quarters;
32-bit arithmetic is modulo `Wrap`. Undefined or endless arithmetic adds a name to `cc.failed`.
The switch is one step: its four events have one time and consecutive numbers, and events of one
time run in the order of their numbers (`InOrder` of `DefaultSimulator`). The bytes in flight, which the socket passes to
`GetSsThresh`, are any of `Flights`, above or below the window: neither a recovery nor the switch that shrinks the window
takes anything out of the network. The window that recovery leaves is the classic one (the threshold on entry, then unchanged) or any of
`Flights`, which stands for the bytes in flight and the quota of `TcpPrrRecovery`. `hist.peak` is a history variable, the largest window
that grew or met a recovery.

## Runs

Bounds are constants of the modules and stand in the `.cfg` files.

| Run | Bounds | Shows |
|---|---|---|
| `rx_buffer` | 7 bytes, segments up to 3, buffer 3 then 6, 2 SACK blocks | type, in-order delivery, honest ACK and SACK, bounded occupancy, right edge never retreats, refinement of `InOrderStream`, closed forms = loops; the stream and its FIN are delivered |
| `sender` | 4 bytes, segment of 2, writes of 1, 2 messages each way, threshold of 2 duplicates, 1 retry; with and without SACK | scoreboard, iterator, assertions, nothing forgotten, timer, one recovery per window, timeouts resend, all data acknowledged or the connection given up |
| `composite` | Cubic then NewReno, Cubic then Cubic, NewReno then Cubic; 4 segments acknowledged, 2 duplicates, window up to 6 segments and what the last ACK adds, 0, 4 or 8 segments in flight | delay known, target below origin, the loop ends, no plateau that was not reached, HyStart armed, the switch changes the window by its difference |
| `connection` | 1 segment each way, 2 SYNs, 1 data retry, 2 messages in the network, the server may half-close | an active close never truncates, acknowledged means received, whoever waits has a timer, the handshake and LAST_ACK end |
| `flow_control` | 5 bytes written at once or 2 by 2, segment of 2, receive buffer of 3, an ACK for every second segment | data fits in the room of the receiver, an ACK that is owed has a timer, probes touch nothing outstanding, a closed window is found open |
| `simulator` | 5 events, 2 of them of the other thread, 1 `Cancel` or `Remove`, 1 `SetScheduler`, delays 0 and 2 | order of execution, `IsExpired` exact, the counter of events, the other thread's events wait for at most one more |

Seven bytes in segments of up to three allow three holes, embedding, overlap on both sides and a
read that ends inside a segment; two SACK blocks are fewer than the holes, so the list overflows.
Writes of single bytes with segments of two make the sender merge runts when it resends and split
what it merged, with up to four items in the list, which is more than the threshold. One retry
suffices for a timeout in each congestion state, since every new ACK restores it. Four acknowledged
segments let the window pass the threshold, lose, recover and start a second epoch on either side
of the switch, and with up to 8 segments in flight NewReno's threshold and a window of proportional rate reduction are below, at and above
the window of 6. One segment each way with a FIN on each side reaches every state of the connection and
every order of two closes; two messages are what a retransmission needs to overtake. A buffer of 3 with segments of 2 is not a multiple, so windows of 0, 1 and
more than a segment occur, and the probe, its refusal and its acceptance. Five events make the calendar grow and
shrink, with an event a year ahead, and give the heap a right subtree. Larger instances of the invariants were
checked once: `sender` with three messages each way (0.2 million states), `connection` with two segments from the client (2.9 million states) and with both sides half-closing and two
data retries (1.3 million), `flow_control` with a buffer of 3 and writes of 2 to 4 (0.3 million). Each passing property has a mutant in `PROJECT.json`: a plausible mistake in one
definition, under which the property fails at these bounds.

*Fairness.* `rx_buffer` assumes a peer that keeps resending the first missing byte (its
retransmission timer) and an application that keeps reading (it is called back for new data).
`sender` and `connection` assume only that scheduled events happen: pending timers expire and pending sends run,
which the event list of the simulator guarantees (`InOrder`: nothing that waits is overtaken for ever, as
time goes on; `UnscheduledCounts`: nothing is lost). They do not assume that anything is ever delivered: then the retry limits end the connection.
`flow_control` assumes that too of the persist and delayed ACK timers, and besides that the application of the
receiver keeps reading and that the network does not lose all of infinitely many messages: probes are
repeated without limit, so nothing else could end a closed window. For the long handlers the `WF` and `SF` are written
out, with the guard of the action in the place of its `ENABLED`, which is what it is, since each of these steps
changes something; TLC evaluates that much faster.

`CHECK_DEADLOCK FALSE` stands where the system really ends: all data read, or acknowledged.

## Disagreements between the code and what is said of it

Each is a run that TLC refutes, described with its quotation in `PROJECT.json`.

- `composite_negative_diff`: a negative window difference wraps a small window. The experiments of
  `tacc-scripts/genSwitchJobSub.py` use -5.
- `composite_cubic_to_cubic`: K is computed at the start of an epoch with the second parameter of that moment. A switch inside the epoch to a Cubic with
  twice that parameter (0.4 and 0.8 in the older list of `genSwitchJobSub.py`) makes the target, which should be below the origin, wrap around.
- `connection_truncated`: in LAST_ACK with data outstanding, a timeout moves `m_nextTxSequence` back and
  `LastAckTimeout` then sends a FIN there, which ends the stream at the peer before its last segment.
- `flow_stall`: a window that is smaller than a segment, but not zero, stops the sender with no timer running, and
  the reader that empties the buffer sends no window update: both sides wait for ever.
- `flow_probe`: the persist timer is started also when no data is left, and follows a null pointer.
- `simulator_heap_remove`: `HeapScheduler::Remove` lets the element that fills the gap sink but not rise; an
  event is then executed after a later one, which the assertion in `ProcessOneEvent` forbids. The run `simulator` therefore
  calls `Remove` with the other schedulers only (`RemovingKinds`).

The models show more of the kind, without a run of their own:

- A segment that replaces a held one is written to the throughput file of the receive buffer in full: its bytes count twice
  (`tputBytes`).
- `m_highestSack` moves down when the segment just below it is sacked (`tcp-tx-buffer.cc:832`), though it is
  described as the highest sacked byte.
- With Nagle on, a timeout may resend nothing and leave no timer (`tcp-socket-base.cc:3362`). The run `sender`
  has `TcpNoDelay`, the ns-3 default.
- The copy constructor of `TcpComposite` copies neither policies nor parameters nor the switch time, so the congestion control of a forked
  socket has no policy, and answers a loss with the largest threshold (`tcp-composite.cc:148`). The model is of
  the object a sending client creates.
- After `ShutdownSend` or a deferred `Close` "fin will go when buffer empties" (`tcp-socket-base.cc:805`), but
  `m_closeOnEmpty` is read only when a data segment is sent: if the last one was in flight already, no FIN follows.
- A hole filled in FIN_WAIT_1 or FIN_WAIT_2 after an early FIN runs `DoPeerClose` inside `ReceivedData`, which puts the
  socket into CLOSE_WAIT, where `tcp-socket.h:73` says only a remote shutdown leads.
- `ProcessLastAck` takes any segment with the expected sequence number for the ACK of the FIN.
- With `SackEnabled` and `LimitedTransmit` both `FALSE`, `NoAssertFails` of `TcpSender` is violated:
  nothing keeps `SendPendingData` from sending in `CA_DISORDER`, which line 3435 of
  `tcp-socket-base.cc` asserts.
- NewReno keeps Cubic's plateau up to date, with its own first parameter in the formula of fast convergence (`tcp-composite.cc:570`). If that is above 1
  (1.5 and 2 in the older list of `genSwitchJobSub.py`) the Cubic that follows aims at a window that was never reached: with a plan
  whose first policy is such a NewReno, TLC finds `PlateauWasReached` violated after two losses.
- After a switch from NewReno, `SlowStartIsWatched` does not hold: HyStart sets `m_found` there too.
- `m_cWndCnt` keeps growth credit that is spent faster than one segment per two acknowledged, the
  maximum that the comment in `Update` gives.
- A held segment that is embedded in a longer one leaves its SACK block behind, nested in the new
  one, where `GetSackList` promises isolated blocks.

## Proofs

The theorems hold for every value of the constants that satisfies the assumptions of the modules. The table
gives the property each one states; the runs check the same definitions on small instances.

| Module | Theorem | Property |
|---|---|---|
| `TcpRxBufferProofs` | `TypeCorrect`, `DeliveryInOrder`, `AckIsHonest`, `SackIsHonest`, `OccupancyCorrect` | the invariants of `rx_buffer` |
| | `EdgeIsMonotone`, `Refinement` | `EdgeNeverRetreats`; the buffer implements `InOrderStream` |
| `TcpSenderProofs` | `SenderTypes`, `SenderScoreboardSound`, `SenderHighestLive`, `SenderForgetsNothing` | `TypeOK`, `ScoreboardSound`, `HighestSackIsLive`, `NeverForgetsMissing` |
| | `SenderAssertsHold`, `SenderKeepsTimer` | `NoAssertFails`, with SACK or limited transmit; `OutstandingHasTimer`, without Nagle |
| | `RecoversOncePerWindow` | `OneRecoveryPerWindow` |
| `TcpFlowControlProofs` | `FlowNewDataFits`, `FlowProbeIsUnsent`, `FlowOwedAckHasTimer` | the invariants of `flow_control`, with SACK: `NewDataFits`, `ProbeIsUnsent`, `OwedAckHasTimer` |
| | `FlowScoreboardSound`, `FlowForgetsNothing`, `FlowAssertsHold` | `ScoreboardSound` and `NeverForgetsMissing` of the sender when windows close; nothing fails but `NoByte` |
| `TcpConnectionProofs` | `TypeCorrect`, `ActiveCloseComplete`, `AckedReceived`, `TimerRuns` | the invariants of `connection`: `TypeOK`, `ActiveCloseIsComplete`, `AckedIsReceived`, `OutstandingHasTimer` |
| `TcpCompositeProofs` | `TypeCorrect`, `DelayAlwaysKnown`, `UpdateAlwaysTerminates`, `EverySlowStartIsWatched` | invariants of `composite`, for all plans |
| | `TargetAlwaysBelowOrigin` | `TargetIsBelowOrigin`, if no plan has two Cubics with different second parameters (`SameCurve`) |
| | `EveryPlateauWasReached` | `PlateauWasReached`, if no NewReno with a first parameter above 1 goes first (`ModestFirst`) |
| | `SwitchAddsDiff` | `SwitchChangesByDiff`, for differences that are not negative |
| `DefaultSimulatorProofs` | `ExecutesInOrder`, `TypeCorrect`, `IsExpiredAlwaysExact`, `UnscheduledAlwaysCounts` | implementation of `EventOrder` and the invariants of `simulator`, with the schedulers of `ProvedKinds` |
| | `OtherThreadIsServed` | `CrossThreadWaits`, with any scheduler |

### Receive buffer

Assumed (`StreamAssumption`, `SegmentAssumption`, `BufferAssumption`, `SackAssumption`): the constants are
naturals, the largest segment and the number of SACK blocks positive, and there is some buffer size.

The invariants are not inductive one by one. `Inv` is their conjunction, strengthened by what `Add`
relies on: every entry holds the bytes of its own place and none overlap (`MapOK`); everything held
lies in the window of `m_maxBuffer` bytes after the last byte read (`WindowOK`), without which the trims would
not bound the occupancy; where a FIN can be and when it is consumed (`FinOK`); nothing happens before
the handshake (`SyncOK`). `Invariance` shows that `Init` implies `Inv` and every action preserves it. The
work is in the lemmas `DataWithFacts` and `StoreStep`, that the stored fragment fills exactly the hole left
by the trims and the embedded entries and that the acknowledgement point moves to the next hole, and in
`ExtractStep`, that a read which ends inside a segment leaves the rest under its own number. The same
facts make each step one of `InOrderStream` or a stutter.

### Sender

Assumed (`SenderAssumption` and the four assumptions of `TcpTxBuffer`): sizes are naturals, the segment, the
writes and the threshold of duplicates are positive, one segment is a possible window, and the
receiver's buffer holds at least a segment. Windows are otherwise any naturals, so the theorems hold with
every congestion control, and nothing is said of the network but that it invents no segment.

`RecoversOncePerWindow` needs the control alone: the recovery point is active only in `CA_RECOVERY` and
`CA_LOSS` (`Control`), so that a recovery begins with no active point or with an ACK that has reached it. The others need
`SenderInv`, which has these parts:

- `SockOK`, the socket between two events: the scoreboard (`Board`), which ends at `m_highTxMark`, starts at the
  highest ACK and has no byte of the recovery point beyond it. `Board` says that the items cover the outstanding
  bytes in order and without overlap (`Shape`) and the counters count the marks (`Counted`), and adds what is needed for that to
  last: no item is sacked and lost (`Exclusive`), none is longer than a segment (`Short`), the iterator is at a sacked item behind the head (`Live`), and the head is not sacked;
- `Guess`: without SACK the marks are not reports but guesses of `AddRenoSack`, and only the congestion state says
  which they can be: outside of `CA_LOSS` only the head is lost, in `CA_LOSS` nothing is sacked;
- `Dups`: how many duplicates can have been counted in each state, which the assertions of `DupAck` and `ProcessAck` rest on;
- `InTransit` and `Receipts`: what the network carries was sent; an ACK, however old, tells of bytes the receiver has;
  and no ACK, and nothing the scoreboard has for received, contains the byte that another ACK asks for. The last part is why
  an old ACK that arrives late can neither have the head sacked nor discard a byte that is missing;
- no assertion has failed, and while data is outstanding the timer runs;
- `Open`: the window is open, no persist timer runs and an ACK that updates the window also reaches the scoreboard, because the
  receiver of `TcpSender` reads at once. The lemmas about the handlers do without this part, so that they serve for flow control too.

`TcpTxBufferProofs` shows what each operation of the buffer keeps: cutting and merging (`CopyFromSequence`),
`DiscardUpTo`, `Update`, the marks of losses, with and without SACK. `TcpSenderProofs` goes from there in the order of the calls: one segment
sent, the loop of `SendPendingData`, entering and leaving recovery, a whole ACK, a timeout, and at the end each action
(`NextSenderInv`). The two hypotheses are those the list of disagreements explains: without SACK and without limited transmit the
assertion of line 3435 can fail, and with Nagle on a timeout may leave no timer.

### Flow control

Assumed: what is assumed of the sender, and `DelAckAssumption`, that the count of delayed ACKs is positive. The theorems are about
connections with SACK (`SackModes = {TRUE}`, as in the run). Without it an ACK that the window update has overtaken can end inside an item
of the sent list while the marks there are guesses, which `Guess` does not describe; that case is neither proved nor among the runs.

`NewDataFits` is not inductive: it says nothing of windows that are still on their way. `FlowInv` has, as long as the program runs, `FlowState`:

- `Calm`, the socket between two events: what the sender's proof says of it, and the persist timer runs exactly when the window is closed, and then
  with nothing outstanding, unless the connection was given up;
- `Credit`: what was sent ends at or before the right edge the sender believes in, which is not beyond the one of the receiver;
- `Holding`: what was acknowledged and sacked is at the receiver, which has nothing beyond what was sent, except the byte of a probe, and
  that only while nothing is outstanding: `PersistTimeout` takes the probe back, so its byte may be received and yet be unsent;
- `Answers`: the right edge of a later ACK is never to the left of an earlier one's, which is why `UpdateWindowSize` may apply the newest and
  ignore all others. An ACK may have been overtaken for the window (`m_highRxAckMark`) and not yet for the buffer, whose head moves only in
  `ReceivedAck`; such an ACK has no SACK blocks, and then no byte it could wrongly mark.

When `PersistTimeout` finds no byte the program ends (`Running`), and `FlowSafe` says what still holds in that last state. `Owing` is the
receiver's part: a count of delayed ACKs that is not zero has its timer. The lemmas go through an ACK in the order of `DoForwardUp`: the window
update, the persist state, `ReceivedAck` and what is sent after it (`Processed`); then the data handler of the receiver, the reads and the timers.

### Connection

Assumed (`ConnectionAssumption`): each application writes at most two segments, which the model's marks rest on, and the two retry
limits and the capacity of the network are positive. The theorems hold for all retries, all capacities, and whoever half-closes.

None of the four invariants is inductive. `ConnInv` says of every socket how its own members fit together (`Local`), and of either direction
of the stream what the writer, the reader and the messages between them can know of each other (`Direction`):

- `Local`: a socket without end point has nothing pending (`Gone`), one in the handshake has sent a SYN only (`Shaking`), any other has its
  stream from `m_firstByteSeq` to the FIN in one of two places (`Line`), a FIN out only when the application has ended the stream and all of it was
  sent once (`FinOut`), a reason for every timer (`Timer`), and is in a state that agrees with the FIN it has or has not received (`Phase`);
- `Carried`: what a message on its way says is of the stream that was written, and a FIN comes behind all of it, except from a
  socket in LAST_ACK, whose FIN `LastAckTimeout` may send too early (`Clean`; the run `connection_truncated`);
- `Arrived`: what the receiver has is what was written up to its next number; a FIN was recorded at the end of the stream or, by
  `ProcessWait`, one before the end when the segment that carried it held data too;
- `Reports`: no ACK, however late, and no mark of the sender is ahead of the receiver. Segment 2 is reported as received before segment 1 only by a receiver
  that has it or had it (`Early`), and then no ACK ever asks for it; that is why the head of the scoreboard is never sacked, and a
  timeout always finds something to send. An ACK of the FIN inside a FIN comes only from a socket that looks at no FIN any more (`Past`).

A handler is a composition of functions, and `ConnInv` does not hold between them: a timer has expired and is not
scheduled yet, a message was produced and is not in the network, an ACK has been taken and the state not changed. `Good` is what holds there, of the socket as
it was (`e.s` in the record `e`, which is `Env`) and as it is: `Base`, that nothing was taken back (`Grown`), that every message
produced so far is one the direction admits, and what was received and acknowledged; and `Core`, the rest of `Local` without the timers that have to run. There is one lemma for each operation,
from `SentReset` and `SentData` to `SentPending`, `DataReceived`, `AckReceived` and `PeerCloseStep`, one for the processing of each state (`SynSentStep` to `LateStep`), and one for each timer and call, which leave
`Final`. `ActorStep` puts it back into the two directions, where `Enqueued` says that the network gets some of the messages produced.
`NextInv` collects the actions.

### Composite congestion control

Assumed (`CompositeAssumption`): sizes are naturals, and the bytes in flight have a bound. `PolicyAssumption` is about the configured policies: NewReno's
second parameter is at least 1, Cubic keeps between a fifth of a window and less than all, and its second parameter is not 0. The experiments
have Cubic with 0.7 and 0.4 and NewReno with 1 and 2 (`tacc-scripts/genSwitchJobSub.py`), its older list Cubic with 0.5 to 0.9 and 0.4 or 0.8 and NewReno with 1 to 2
and 1 to 4; all satisfy it. `WindowAssumption`: the initial threshold is at least two segments and below 2^32,
HyStart's lowest window at least two segments (16 by default), and the largest window, with the
difference of the switch, stays below 2^32. Two theorems have a hypothesis on the plans besides, because without it the code violates them: `SameCurve` and `ModestFirst`.
The present list satisfies both, the older one does not.

`CompositeInv` relates the object to the state of the socket (`Healthy`): in an epoch, and in `CA_DISORDER`, where an ACK reaches `Update` without
a sample of its own, the minimal delay is known; K belongs to the origin and, under `SameCurve`, to the parameters in use; the threshold is at least two segments, which
keeps the divisions and the loop of `Update` defined; and before the switch the window has not wrapped and HyStart is disarmed only
past slow start, with the exception of `CA_RECOVERY`, where the window is what the recovery algorithm left. The last two
carry `SwitchChangesByDiff` and `SlowStartIsWatched`. `Plateau` is about both policies, because the plateau is computed under NewReno and used under Cubic:
`m_lastMaxCwnd` and `m_bicOriginPoint` are at most the largest window that grew or met a recovery; fast convergence keeps that as long as
its factor is at most 1.

### Event loop

Assumed (`SimulatorAssumption`): the bounds are naturals, and the schedulers are among those modelled.

The first part of `DefaultSimulatorProofs` is the contract the loop relies on: `Insert` adds one event (`InsertAdds`),
`RemoveNext` takes the first one away (`RemoveNextTakesFirst`), `Remove` the given one (`RemoveTakesAway`); for a heap by following
the element that rises or sinks, with the order of all others around it kept (`Rise`, `Sink`). `ProvedKinds` is where the contract holds: lists, and heaps without
`Remove`, since with it the heap breaks (`simulator_heap_remove`). Calendars are not covered: their order depends on widths and years.

`SimulatorInv` says that pending events come after the one executed last and have numbers of their own (`ListInv`), that an id which the
program keeps is pending, executed last or cancelled (`IdInv`), without which `IsExpired`, a
comparison with the clock and the current number, would not be exact, and that the other thread's list is empty exactly
when its flag says so, where the main thread is not between the two (`CrossThreadInv`). Each step is then one of `EventOrder` or a stutter.
`EventOrder` lets a pending event be removed in any step that executes none, so that `InOrder` says nothing of events that get lost in `Insert` or `SetScheduler`;
that there are none follows from `UnscheduledCounts`. The flag `m_eventsWithContextEmpty` is a plain `bool` which one thread reads without the mutex under
which the other writes it. For C++ that is a data race; `CrossThreadWaits` assumes that a read returns the value written last.

### How induction is done, and what is only model-checked

The loops of the code are recursive functions in the models, or sets described in closed form. The provers cannot instantiate a theorem
with a predicate as parameter, so the induction is over a set: `UpTo` of `InductionFacts` says that a set with 0 and the
successor of each of its members below n contains 0 .. n, and its proof is that a least counterexample would
exist (`WFMin` over the naturals).

Only model-checked are: every liveness property and what uses `ENABLED`; the equality of the loops of `Add`, `UpdateSackList` and
`Extract` with their closed forms (`LoopsAgree`: they are `RECURSIVE` operators, with which the provers do not work);
`RtoRestartsTransmission`, an action property of `sender`; and the calendar scheduler.

## Abstractions, and what is not modelled

- Sequence numbers are naturals; the wrap at 2^32 and its signed comparison are left out.
- The receive buffer may grow but not shrink below what it holds.
- Window scaling and a receive buffer that is resized are not in `TcpFlowControl`; the SACK scoreboard is not in
  `TcpConnection`, which has too little data for duplicate ACKs to matter and delays no ACK.
- In `TcpConnection` the application does not close in SYN_RCVD nor write after `ShutdownSend`, and the listener forks
  once. The RST with ACK flag with which the demultiplexer answers a bare SYN
  has no timestamp and would be discarded by a socket that uses timestamps; it is left out. A late SYN+ACK would also reset the
  congestion window and `m_rWnd`; the first is unlimited here and the second is not in the model.
- The applications of `TcpConnection` act between events, not inside callbacks: a `Close` made in `NotifyDataRecv` while a FIN with data is processed, for which
  `PeerClose` has a transition from FIN_WAIT_1 to CLOSING (`tcp-socket-base.cc:2646`), or one made in `NotifyNormalClose` (2668) is an action of
  its own, before the FIN or after it.
- The third condition of `UpdateWindowSize`, a sequence number above `m_highRxMark`, is left out of `TcpSender` and `TcpFlowControl`: their receiver sends no data, so it is true
  of its first ACK only, which acknowledges something or carries the window known from the handshake.
- Liveness of the other closing states is not claimed: CLOSE_WAIT does not acknowledge a repeated FIN, and the listener
  ignores the FIN of a peer whose socket is gone, so a socket may resend its FIN without end.
- `ScheduleDestroy` and `Destroy`, the wrap of `m_uid` after 2^32 events, the `Reverse` attribute of the calendar, the
  real-time and the distributed simulator are not modelled; `MapScheduler` orders as the sorted list does.
- Congestion windows are whole segments and at least one. Proportional rate reduction can return less
  for a moment; the timer that `NewAck` leaves running then fires with nothing outstanding, resets the
  window to one segment and sends the held-back data for the first time. That case is not in the runs.
- The channels of ns-3 do not duplicate packets; duplicates come from retransmissions.
- In `TcpSender` a delayed ACK is one that is late or lost; `TcpFlowControl` has the timer.
- An application that writes from inside the callback `NotifySend` is one that writes right after
  the handler. The OnOff application of the experiments does not use it.
- A policy with a first parameter of
  1 or more for Cubic, or a second below 1 for NewReno, has undefined arithmetic and is not configured.
- ECN, pacing, rate samples, the other congestion controls, queue disciplines, headers, and the other
  models of ns-3: reasons in `PROJECT.json`.

## Plan

Done: receive buffer, sender, composite, connection, flow control, event loop. Left, in this order:

1. Proofs. For the sender, `RtoRestartsTransmission`: a running timer has
   something outstanding if there is no Nagle and every window holds a segment, and a timeout leaves the head marked as lost until
   it is resent.
2. `TcpRecoveryOps`: classic recovery and proportional rate reduction, their window against the
   pipe; the condition under which recovery always sends.
3. ECN (`CA_CWR`) as another branch of the sender, and pacing as another timer of it.
4. Queue disciplines, for the bounds of their queues. The other models of ns-3 (Wi-Fi, LTE, routing, energy) are
   upstream code that the experiments do not run, and are not planned.
