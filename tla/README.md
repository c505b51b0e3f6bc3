# tcpraw: a TLA+ model

tcpraw carries datagrams in packets that look like TCP. A real TCP connection
is opened so that NATs and firewalls see a handshake; after that the kernel's
own packets are suppressed (TTL 1 and an iptables rule) and both ends write TCP
packets themselves through raw IP sockets, with numbers they keep in a *flow*.
`faketcp` turns the packets into `net.Conn`s, with optional forward error
correction (FEC).

## Inventory

| part | source | state it keeps | model |
|---|---|---|---|
| `tcpConn`, made by `Listen` | `tcp_linux.go` | sharded flow table, handles, `chMessage`, accepted sockets | `FlowTable` |
| sequence numbers | `tcp_linux.go` (`decodeTCPPacket`, `WriteTo`) | `seq`, `ack` of a flow | `TcpFlow`, `SeqAck`, `SeqResync` |
| `tcpConn`, made by `Dial` | `tcp_linux.go` | one flow, one handle, one socket | `Host`; numbers in `SeqAck` |
| iptables rules, `IPTablesReset` | `tcp_linux.go`, `clear.go` | rules of the host, `connList` | `Host` |
| `Listener`, `FakeConn` | `faketcp/listener.go`, `common/addrkey.go` | `connMap`, `delayMap`, `connChan`, `recvch` | `FakeListener`, abstractly `AcceptQueue` |
| FEC | `faketcp/fec.go` | encoder counters, ordered queue, `dataCh` | `Fec`, abstractly `Datagram` |
| `Listeners` | `faketcp/listeners.go` | channel of accepted connections | `Listeners`, abstractly `AcceptQueue` |
| `Client` | `faketcp/client.go` | none of its own | `Write` and `Close` in `Host` |
| FEC version 2 | `faketcp/fecv2/` | shard sets, tuning | `FecV2`, `AutoTune` |
| socket filters | `sockfilter.go` | filter programs | `Filter` |
| TCP options, counters, stub, examples | `fingerprints.go`, `fecv2/snmp.go`, `tcp_stub.go`, `faketcp/example` | none that behaviour depends on | left out |

How the parts interact: one `captureFlow` goroutine per raw handle finds the
flow of a packet's remote address, updates it and queues the payload in
`chMessage`. The listener's accept loop binds real sockets to the same flows,
the cleaner and `Close` remove them. `acceptDataLoopv2` of `faketcp` reads
`chMessage` and sorts the payloads by address into `FakeConn`s, whose `Read`
decodes FEC; `WriteTo` looks the flow up again. `Listeners` puts several
listeners behind one `Accept`. All connections of a process share the list that
`IPTablesReset` closes, and the host's firewall rules, which outlive the process.

## Modules

**FlowTable** models the server side of one `tcpConn`. Its state is the table
(all shards as one function, `ShardOf` saying which lock covers a key), the
flows' `conn`, `handle` and age, the sockets, and a program counter with locals
for every goroutine. An action is a critical section or a channel operation.
`lockflow` unlocks the shard before it calls its argument, so lookup and
update are two actions (`captureFlow`/`updateFlow`,
`AcceptLockflow`/`AcceptBind`); what may happen in between is the point of the
module. `Close` and the cleaner take one step per shard. A panic ends the
process (`Running`).

**TcpFlow** holds the pure functions on a flow's numbers: `capture` (the
argument of `decodeTCPPacket`'s `lockflow`), `header` and `written` (`WriteTo`).
**SeqAck** connects two ends by a network that loses, repeats, delays and
reorders (a growing set of packets), from the SYN on. The kernel's handshake is
external. **SeqResync** is the same two ends with a small lossy network, for the
liveness of loss recovery.

**FakeListener** models `Listener` and its `FakeConn`s: the accept loop, the
cleaner, both callers of `Listener.Close` (the application and the accept
loop's defer), and the application. Time is two actions, `DelayPasses` (ten
seconds since a `FakeConn.Close`) and `ExpirePasses` (a minute since the last
`Push`).

**Fec** models encoder and decoder. A payload is its group and its place in it;
the decoder only sees the seqid, modulo `SeqidMod`. The Reed-Solomon codec is
external: shards of one group in their own places give the missing data back,
any other mixture gives `Garbage`. `Fec` is shown to implement **Datagram**, an
unreliable datagram service: what is delivered was sent. The mapping takes as
delivered what `DecodeData` has returned and what waits in `dataCh`.

**FecV2** models the second FEC package: the encoder, which skips the seqids of
parity it does not send, the decoder with one heap of shards per group, and the
search for the sender's parameters when they do not fit, whose pure part
(`Sample`, `FindPeriod`) is **AutoTune**. Heaps and the cyclic window of samples
are sets and functions; whether parity is sent, skipped or fails is a choice,
since the code decides by a clock.

**Host** models the connections of one process and what they share. `Dial` and
`Listen` take one step per iptables command, because `Exists` and `Append` are
separate ones and other connections run in between; so do `Close` (one step per
`Delete`) and `IPTablesReset` (lock, unlock, return). A panic (the read error
`Close` causes in batch mode, the RST rule, local addresses that differ) is a
restart: the rules stay, their owners are forgotten. A client's flow is followed
to know whether `Client.Write` sends anything. `guarded`, `left`, `heard` and
`lied` are history variables.

**Filter** has the BPF program of a capture handle as a sequence of instructions
and an interpreter for those it uses (external: the kernel's). `Host` extends it
and puts it behind the captures of its clients (`FilterIsExact`). (A connection that listens on all
addresses has no filter; `captureFlow` compares the port again.)

**Listeners** models several listeners behind one `Accept`: opening them in turn,
a forwarder per listener from the first `Accept` on, the shared `connChan`,
cancellation and `Close`. **AcceptQueue** is what a single listener promises:
every connection is offered once and accepted at most once, in order. `FakeListener` is
shown to implement it, and `Listeners` is built on listeners that behave so and
is shown to be one again for each of its listeners (`KeepsEachQueue`).

`MC*` modules instantiate these for TLC where a cfg alone cannot; `*Proofs` modules hold the theorems.
Definitions marked *faulty* are deliberate mistakes, used to make sure that each
property can fail.

## What the runs check

Passing runs:

| run | configuration | shows |
|---|---|---|
| `flow_shards` | `FlowTable_shards` | two keys in two shards, two sockets, a reader: payloads of orphans are not queued (`DeliveredNotOrphan`), removed flows stay removed (`FlowsStayRemoved`), no closed socket is in the table (`TableHoldsOpenSockets`), `Close` leaves at most one bound flow (`CloseMissesAtMostOne`) |
| `flow_close` | `FlowTable_close` | two handles: `Close` ends all goroutines (`CloseEndsGoroutines`) |
| `seq_stream` | `SeqAck_stream` | no gap is acknowledged (`NoGapAcked`), no hole is sent (`StreamHasNoHole`) |
| `seq_loss` | `SeqResync_loss` | after a loss the sender's number returns to what the peer waits for (`LossIsRepaired`), which does not move meanwhile (`AckWaitsForTheHole`) |
| `fake_conns` | `FakeListener_conns` | an open `FakeConn` is registered (`OpenIsRegistered`) and alone on its address (`OneOpenPerAddress`); the address of a closed one becomes free (`ClosedMakesRoom`); `Listener` implements `AcceptQueue` (`IsAcceptQueue`) |
| `listeners` | `Listeners_accept` | through two channels and a forwarder nothing is lost, repeated or reordered (`KeepsEachQueue`); every connection reaches the application (`OfferedIsAccepted`); a cancellation ends `Accept` and the forwarders, except one blocked by a full channel (`CancelEndsAccept`, `CancelEndsForwarders`) |
| `fec_wrap` | `Fec_wrap` | ordered queue over the wrap (`RxOrdered`), enough shards always recover (`EnoughShardsRecover`), with room in `dataCh` (`DataChHasRoom`); `Fec` implements `Datagram` (`IsDatagramService`) |
| `fec_losses` | `Fec_losses` | enough shards recover (`EnoughShardsRecover`) for two losses in a group of 3 + 2, with the queue length `NewFec` gives |
| `fecv2_tune` | `FecV2_tune` | groups start at multiples of the shard size, parity sent or not (`EncoderAligned`); few groups are held (`HeapsAreRecent`); enough shards recover (`EnoughShardsRecover`); a decoder in step returns only what was sent, also after tuning (`InStepRecoversSent`); parameters change only to the sender's (`TunesToPeer`) |
| `host_rules` | `Host_rules` | who owns which copy of a rule (`CopiesAreOwned`), how many copies there can be over concurrent dials and restarts (`RulesDoNotPileUp`), that the RST rule stays (`ResetsStayDropped`), when a write is lost silently (`LossOnlyBeforeFirstPacket`), that `IPTablesReset` returns (`ResetCompletes`); the filter passes exactly the port's TCP packets at fragment offset 0 (`FilterIsExact`) |

Runs that end in a counterexample, each against a line of the repository:

| run | the repository says | the code does |
|---|---|---|
| `flow_orphan` | binding makes the flow no orphan (`faketcp/readme.md:13`) | the cleaner removes an idle flow between lookup and binding; later packets find a new orphan |
| `fake_close` | "all tasks done, listener closed" (`faketcp/listener.go:363`) | `closeAllFakeConns` never ends on a `FakeConn` closed by the application |

Other places where the models show the code doing something else than a comment
says, or than a reader may expect. They are short (one or two steps) or follow
from a property above, and have no run of their own:

- `Close` of a listener: a socket the accept loop has in hand is bound after the
  sweep and stays open, although `tcp_linux.go:606` says "close all established
  tcp connections". `CloseMissesAtMostOne` is the exact bound.
- A packet captured before `ListenTCP` has returned, or after it has failed, makes
  `lockflow` call `Addr` on a nil listener (`capturePanics`).
- A `FakeConn` has a zero `ts` until its first `Push`; an expiry tick just then
  closes it (`ExpireTick` between `Insert` and `Push`), although
  `faketcp/listener.go:518` calls it a timeout.
- A packet on an IPv6 handle is a panic (`capturePanics`; `README.md:25` says
  "Support IPv4 and IPv6"); so are the read error `Close` causes in batch mode
  (`captureEnds`, `CapturePanics`; the comment at `tcp_linux.go:297` says that the
  loop is left) and the EOF that `Listener.Close` causes in the accept loop
  (`ReadEOF`, `LoopPanics`).
- A packet on another handle rebinds a flow between `ReadFrom` and `WriteTo`;
  conceded in `faketcp/listener.go:314`.
- The TTL rule is shared by all clients and belongs to the one that has appended
  it: when that one is closed, the others go on without the rule, although
  `tcp_linux.go:806` says that it drops the packets of "this socket".
  `CopiesAreOwned` only says that nobody deletes another's copy. And
  `tcp_linux.go:825` says "only one rule, however often one dials": two concurrent
  dials append two (`RulesDoNotPileUp` is the bound).
- `Dial` and `Listen` that fail in `setTTL` or `ListenTCP` leave the capture
  goroutine, the handle and, for `Dial`, the cleaner behind (`OpenFails`).
- A client's flow that has expired comes back without its TCP socket at the next
  packet, an orphan whose data is dropped (`Capture` after `CleanerExpires`).
- With FEC, `Client.Write` reports success for data that a flow without a handle
  does not send (`LossOnlyBeforeFirstPacket` says when).
- `Listeners.Close` does not cancel the context of `Listeners`: a waiting `Accept`
  does not return. `FakeTcpListeners` leaves the listeners it has opened running
  when a later address fails.
- `fecv2`: the decoder's `minShardId` does not follow the seqids over their wrap,
  so that every later packet counts as old (line 222; line 345 calls the wrap
  point "Protect Against Wrapped Sequence numbers"): `EnoughShardsRecover` is
  stated up to the wrap. `FindPeriod` takes the zero value of a sample for a
  parity packet of seqid 0, which `TunesToPeer` excepts.
- `sockfilter.go:19` names the MF bit in its comment, but the mask does not test
  it: a first fragment passes, and `FilterIsExact` says so.

### Bounds

- `Flows`, `Socks`, `Conns` are pools of objects to allocate. Two flows and two
  sockets are the least in which a removed flow and its successor meet, two
  `FakeConn`s the least in which a delayed delete could hit a successor. The
  theorems below hold for any number, and for any number of handles.
- `ChanCap`, `RecvCap`, `ConnCap` of 1 or 2 make full queues common.
- `SeqMod = 6` with packets of 1 and 2 bytes wraps within a few packets.
  `MaxSent` bounds the packets in `SeqAck`; the proof has no such bound.
- `MaxAhead` in `SeqResync` keeps a sender from running a whole cycle of the
  number space ahead, 4 GB in the code. The server's packets are empty there:
  only the client's stream is followed.
- `Fec_wrap` starts one group before the wrap (`Starts`, a state the encoder
  reaches after about 2^32 packets with an empty decoder queue) and uses
  `RxLimit = ShardSize`, the least `NewFECDecoder` accepts, so that four groups
  overflow the queue. `SeqidMod = 64` is more than twice what is in play, as
  2^32 is in the code. That a packet stays in the queue for a whole cycle is
  outside these bounds. It would take 2^32 packets without an overflow.
- `FecV2_tune` starts decoders with the sender's parameters (2 + 1), with others
  (1 + 1, 3 + 1) and just before the wrap; `MaxSamples = 7` is a window of two
  periods and one, the least in which a period is found away from the edge, and
  `maxShardSets = 1` makes flushing happen within three groups.
- `Host_rules` has two clients of one server, one in batch mode and with FEC: they
  want the same TTL and RST rule, so every race on a rule happens. Names are used
  again after `Close` and after a restart, without bound. A listening connection,
  which differs in its rules (the hop-limit rule is really added) and has no
  client flow, is covered by the proofs.
- `Listeners_accept` has two listeners, three connections and a shared channel of
  one, so that a forwarder blocks while the other listener's queue grows.
- `SomePackets` of `MCHost` has every class of packet the filter tells apart:
  other protocols, whole packets, first and later fragments, three header
  lengths, two ports, one of which has the number of the TCP protocol.

### Fairness

`FairSpec` of `FlowTable` and `FakeListener` assumes that the Go scheduler runs
every runnable goroutine (weak fairness), that a `select` one of whose cases
stays ready picks it in the end (strong fairness of `cleanerEnds`,
`CleanerEnds`, `ReadEOF`: `select` chooses at random among ready cases) and, in
`FakeListener`, that time passes and tickers fire. Nothing is assumed of the
network, the peer or the application. `Host` assumes that the goroutines of
`IPTablesReset` and a `Close` under way continue. `Listeners` assumes the same of
the forwarders, and that the application calls `Accept` again after each
connection; `ForwardEnds` and `AcceptFails` are strongly fair because they are
`select` cases. `SeqResync` assumes what the comment in
`WriteTo` assumes, that the peer keeps answering, and that of answers sent again
and again with the same ack one arrives. Deadlock is not checked where the
system may stop (a closed connection, a crashed process, an exhausted pool).

## What is proved

TLAPS checks these for every value of the constants that satisfies the modules'
`ASSUME`s:

- `FlowTableProofs`: `TypeOK`, `DeliveredNotOrphan`, `TableHoldsOpenSockets`,
  `CloseMissesAtMostOne`, `FlowsStayRemoved`. The invariant `Inv` adds where
  flows are filed (`Filed`), what goroutines hold between their steps
  (`CaptureHolds`, `AcceptHolds`, `AppHolds`), that a socket is bound to one flow
  (`BoundOnce`), and, for `Close`, that in the shards already swept at most one
  entry is bound, and then the accept loop has no socket left (`SweptInv`).
- `SeqAckProofs`: `TypeOK`, `NoGapAcked`, `StreamHasNoHole`. *Covered* is defined
  as membership in every set closed under "a packet that starts here ends
  there", which avoids induction: the proof is monotonicity in the packets and
  one closure step. `Inv` adds that the acks under way are covered by what
  their receiver has sent (`AcksCovered`), that the SYN is captured first
  (`SynFirst`), and that `seq` is covered from the first captured ACK on
  (`SeqCovered`).
- `FakeListenerProofs`: `TypeOK`, `OpenIsRegistered`, `OneOpenPerAddress`,
  `IsAcceptQueue`. The
  crux is `DelayOwnsEntry`: as long as a delayed delete is pending, the entry of
  the address is still the closed `FakeConn`'s own (no packet can create a
  successor while it is there), so that deleting by address hits no other.
  For the refinement, `CreateOffers` and `AcceptTakes` map the two steps that
  matter to `Offer` and `Take`; all other actions leave the three mapped
  variables alone.
- `HostProofs`: `TypeOK`, `CopiesAreOwned`, `RulesDoNotPileUp`,
  `ResetsStayDropped`, `LossOnlyBeforeFirstPacket`, for any finite number of
  clients and servers and any addresses, and `FilterIsExact` for every IPv4 packet.
  `RulesDoNotPileUp` is not inductive:
  `CopiesFit` adds the connections that have found the rule missing and are about
  to append it, and holds because such a connection found no copy. `OwnsBehind`
  (a connection has recorded no rule it has not come to) makes the owner of a new
  copy a new one. `RstStays` starts from the moment the RST rule is found, not
  only from when the connection is open, and `HandleKnown` says that once a packet
  was captured no flow is without a handle. The filter is executed symbolically:
  `Instructions` says what each of the nine instructions does to the machine, and
  `Loads` that a header of 5 to 15 words puts the port behind every field read
  before it (`FilterAssumption`: the fields have their widths).
- `SeqResyncProofs`: `AckWaitsForTheHole`, for any number space and packet sizes.
  The invariant it needs is that no packet under way has SYN set, which would make
  `capture` start over with the packet's own number.
- `ListenersProofs`: `TypeOK` (no channel exceeds its capacity) and the refinement
  `KeepsEachQueue`, for any number of listeners, connections and capacities. The
  invariant `Owned` says that a connection belongs to one listener, and that what
  its queue and its forwarder hold is its own. The rest is about the mapping: `only`
  takes a listener's connections out of the shared channel, and `OnlyAppend` and
  `OnlyTail` say how that part changes at the channel's two ends. Both rest on
  `Enumerated`: there is one increasing list of the positions.
- `FecProofs`: `TypeOK`, `DataChHasRoom` and the alignment of groups (`Aligned`) for
  any shard numbers and any length of the stream; `RxOrdered`, `IsDatagramService`
  and `EnoughShardsRecover` if `ShortStream`. Numbers that count on where the
  seqids wrap (`slot`) turn the queue's serial-number order into an order of numbers
  (`InTurn`). Then the search around the inserted packet finds exactly the packets of
  its group that are in the queue (`ShardsOfGroup`), and a group from which `rxlimit`
  has taken nothing is either delivered or short of `DataShards` packets, all of
  them in the queue (`RecoverInv`).
- `FecV2Proofs`: `TypeOK`, `EncoderAligned`, `HeapsAreRecent` and `TunesToPeer`
  without any further hypothesis; `InStepRecoversSent` and `EnoughShardsRecover` if
  `EachSeqidOnce`. A decoder in step files a packet under the group it was sent in
  (`OneGroup`), so a heap of `DataShards` packets determines the missing data
  (`ReturnsSent`), and while no later group was seen its heap holds all the packets
  taken, until there were enough of them (`GroupInv`). For the tuner: `FindPeriod`
  takes position 0 for the left edge when there is none, but if both kinds have a
  period, the end of a run of one kind is the start of a run of the other, so both
  runs were measured from a real edge (`PeriodsArePeers`), over samples that follow
  each other in the sender's stream (`ContinuousSampled`).

Five theorems need a hypothesis on the length of the stream, because `net` keeps
every packet ever sent and may deliver it at any later time. `ShortStream`: any two
packets of a run of the encoder are less than half of the seqid space apart, the
condition under which serial numbers can be compared at all (2^31 packets in the
code). `EachSeqidOnce`: no seqid is used for two packets (`paws`, about 2^32).
Without it a packet that was delayed for a whole cycle is taken for another one,
here as in the code. `MCFec` and `MCFecV2` assert that the instances TLC checks
satisfy them.

What recursive definitions would compute is avoided throughout: what is counted,
searched or selected is stated with sets, and an induction is replaced by the least
element of a set of numbers (`LeastNat`) or by a bijection with `1 .. n`.

Only model-checked: everything with fairness (`CloseEndsGoroutines`,
`LossIsRepaired`, `ClosedMakesRoom`, `ResetCompletes`, `OfferedIsAccepted`,
`CancelEndsAccept`, `CancelEndsForwarders`), which is beyond the prover. Every other
property that a passing run checks has a theorem.

## What is not modelled

- Payload contents, header bytes, options, checksums; deadlines of `ReadFrom`
  and `WriteTo` (they return an error and change nothing); `setTTL`, whose effect
  is the kernel's.
- In `SeqAck`: what the kernels send after the handshake (suppressed by TTL and
  filters), and a flow's second life after an expiry. A packet's capture is its
  arrival: the raw socket queues in order.
- In `FlowTable`: the socket that a second accepted connection of the same
  address displaces from `conn` is simply no longer referred to; reads of `conn`
  and `ts` without the flow's mutex are taken as atomic.
- In `FakeListener`: `Prompt` excludes an accept loop that sleeps for ten seconds
  between two steps; the run needs it for liveness (a `FakeConn` closed and
  forgotten before its insertion is never deleted), the proofs do without it.
- In `Fec`: concurrent writers or readers of one connection.
- In `FecV2`: the codec's errors in the decoder, the statistics (`snmp.go`), and
  payload lengths.
- In `Host`: data that a client receives (`Client.Read` is `ReadFrom`, in
  `FlowTable`, and `DecodeData`, in `Fec`), errors before the first goroutine of
  `Dial` or `Listen` starts, and other programs that change the firewall.
- In `Filter`: the filter of the real socket (`attachBPFFilter`), which drops
  every packet and decides nothing, and `SetBPFFilterPort`, the same program
  through another call, which is not used.
- `fingerprints.go`, `tcp_stub.go` and the examples: constants, errors and command
  lines.
- `FlowTable` and `FakeListener` are not composed over `chMessage`, nor `FakeConn`
  with `Fec`: each side of the channel treats it as a bounded queue that may stay
  full, and their properties do not depend on the other side. A `Read` that waits
  when its `FakeConn` is closed waits for ever, since `recvch` is never closed.
