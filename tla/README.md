# Verification of the programs in `src/code`

The repository holds notes on *Computer Networking: A Top-Down Approach* and
solutions of its programming labs.  This directory holds TLA+ models of the
programs, TLC configurations that check them on small instances, and TLAPS
proofs of their main properties for every value of the constants.

    tlc -workers 2 -config MCAbp.cfg MCAbp      # a run: see "Runs" below
    tlapm Abp_proofs.tla                        # a proof module

## 1. Inventory

| Component | Source | State | Operations | Models |
|---|---|---|---|---|
| Network emulator of the transfer lab | `ch3-rdt/main.c`, `rdt.[ch]` | event list, time, `nsim` | `init`, main loop, `insertevent`, `generate_next_arrival`, `starttimer`, `stoptimer`, `tolayer3`, `tolayer5` | `RdtPacket`, `RdtMedium`, `FifoMedium`, `EventList` |
| Alternating-bit protocol | `ch3-rdt/abp.c` | `A_state`, `B_state`, `unacked_packet`, `received` | `A_output`, `A_input`, `A_timerinterrupt`, `B_input`, inits | `AbpEntities`, `Abp`, `AbpSim` |
| Go-back-N protocol | `ch3-rdt/gbn.c` | `base`, `nextseqnum`, queue, `expectedseqnum`, `B_sndpkt` | the same handlers | `GbnEntities`, `Gbn`, `GbnSim` |
| Distance-vector routers | `ch5-distance-vector/{basic,advanced}/node*.[ch]` | distance table, link costs | `rtinit`, `rtupdate`, `linkhandler`, `recalculate` | `DvEntities` |
| Distance-vector emulator | `.../dv.[ch]`, `main.c` | event list, clock | `init`, `tolayer2`, `insertevent`, main loop | `DvSim`, `Dv` |
| UDP heartbeat | `ch2-udp/heartbeat_{client,server}.py` | `seq`; `last_seq`, `recv_time`, time-out | skip, send, sleep; serve, time out | `Heartbeat` |
| UDP pinger | `ch2-udp/ping_client.py`, `UDPPingerServer.py` | count and RTTs | send, receive, time out, report; serve, drop | `Pinger` |
| Web servers and client | `ch2-web-server/*.py` | the connection, how much was sent | `accept`, `recv`, `send`, `close`, 404; connect, ask, leave | `TcpServer`, `WebServer`, `Http` |
| HTTP proxy | `ch2-proxy-server/proxy_server.py` | the cache files, `resp` | serve from the cache, fetch, answer, write the cache | `TcpServer`, `ProxyServer`, `Http` |
| ICMP ping | `ch5-icmp-ping/ping.py` | the socket, the time | send with checksum, receive, time out, sleep | `IcmpPing` |
| SMTP client | `ch2-smtp/mail_client.py` | none | one send after the other | section 7 |
| Skeletons, examples, plots, notes | the rest | none worth a model | | not modelled |

How they interact: a protocol program is linked with the emulator, whose main
loop takes the earliest event off one list and calls the handler of the entity
it is for; a handler runs to its end and calls back into the emulator, which
puts new events on the list.  So a step of a model is one turn of the loop, and
the interleavings are the orders in which events can be due.  The UDP and ICMP
programs are separate processes that share nothing but datagrams; the HTTP
programs share TCP connections, the proxy's runs also the files of its cache.

What is hard in this code is not any single handler but their combinations:
retransmissions that cross acknowledgements, damaged packets, timers restarted
from three places, an acknowledgement number that is trusted, vectors that
cross while costs rise, an uninitialised flag, events at the same time, a
sequence number that outlives its session, clients that leave in the middle of
an answer, exceptions nobody catches, a cache that survives an interrupt, an
answer that comes for a later ping.  `PROJECT.json` lists each of these
hazards at its line with the properties that would catch it.

What makes the components correct:

* transfer protocols: layer 5 at B gets what A took, in order, once, undamaged;
  A never counts what was not delivered; the timer runs exactly while it is
  needed; nothing is stuck;
* emulator: time never runs backwards, packets to one entity do not overtake;
* routers: a router's vector is the best its table allows, neighbours end up
  with the newest vectors, exchanges die out, and then all costs are shortest;
* heartbeat, pinger and ICMP ping: what they print is true, and they go on;
* web servers and proxy: a client that waits gets a whole answer to its own
  request; the cache holds what an origin sent; a server ends, or stops
  answering, only for the causes the code shows.

## 2. Modules

```
RdtPacket ── RdtMedium ─┬─ FifoMedium ─┬─ Abp ── Abp_proofs   ReliableTransfer
                        │              └─ Gbn ── Gbn_proofs     (implemented by Abp, Gbn)
                        └─ EventList ──┬─ AbpSim ── AbpSim_proofs  (implements Abp)
                                       └─ GbnSim ── GbnSim_proofs  (implements Gbn)
EventList_proofs: the lemmas on both media that these four proof modules share
AbpEntities, GbnEntities: instantiated by Abp, AbpSim / Gbn, GbnSim
DvEntities ─┬─ Dv ── Dv_proofs
            └─ DvSim ── DvSim_proofs  (implements Dv)
TcpServer ─┬─ WebServer ───┬─ Http ─┬─ Sockets_proofs
           └─ ProxyServer ─┘        │
Heartbeat, Pinger, IcmpPing ────────┘
```

* **RdtPacket** — `struct pkt`, `calc_checksum`, `corrupt`, `make_pkt`.  A payload is its first byte, the only one the medium
  ever touches, and the common value of the other nineteen, so the checksum is
  computed exactly as in `rdt.c`.
  **RdtMedium** — the damage, and what else may become of a packet.
* **FifoMedium** — the emulator without a clock: a queue per direction, a timer
  per entity.  Its `Transmit`, `SetTimer` and `ClearTimer` are what `tolayer3`,
  `starttimer` and `stoptimer` come to.  **EventList** — those functions themselves, on
  the sorted event list; `Untimed` is the FifoMedium a list stands for.  Times there are relative to the
  event being handled, which keeps them finite; random delays are taken from
  the constant sets `Delays` (1 + 9·jimsrand()) and `Gaps` (2·lambda·jimsrand()).
* **AbpEntities**, **GbnEntities** — one operator per handler, with the medium
  operators as parameters: the same handlers are checked over both media.  The
  medium `n` a handler gets is the one the main loop left after it took the
  event.  `accepted` and `delivered` are history variables; `status` records
  `exit(0)` ("exited"), the end of the main loop ("terminated") and, in
  go-back-N, the NULL dereference of `STAILQ_REMOVE_HEAD` ("crashed").
* **Abp**, **Gbn** — the main loop over FifoMedium.  Any pending event may be
  taken next, so every time-out may come early: a superset of what the clock
  allows, and what the proofs are about.  **AbpSim**, **GbnSim** — the main
  loop over EventList, which takes the head of the list.  They are shown to
  implement Abp and Gbn, so whatever is proved of these holds with the clock.
* **ReliableTransfer** — the promise: take at most `Window` unacknowledged
  messages, deliver in order once, acknowledge only what was delivered, and
  while running deliver and acknowledge everything.
* **DvEntities** — the handlers of `node.c`.  `basic/node.c` and
  `advanced/node.c` differ in the link handler and in `dt_updated`, which
  `advanced/node.c:77` reads uninitialised: the constant `Garbage` is the set of
  values it may have, `{FALSE}` for basic, `BOOLEAN` for advanced.  Router,
  neighbours and costs (`node0.c` … `node3.c`) are constants, so the proofs are
  about every network.  **Dv** — the program over a medium that keeps the order,
  as the comment in `dv.c:143` promises.  `send_dt_to_neighbors` there is the
  loop of `node.c` together with `tolayer2`; its warning branches cannot be
  reached from `node.c`.  **DvSim** — the program with its clock: the event list
  of `dv.c`, `insertevent`, `lastime`, both link changes at 10000 and 20000.  The
  constant `Delays` is what `2. * jimsrand()` adds, in whole units; where it has
  no 0, DvSim implements Dv, and with a 0 packets due at the same time are taken in
  reverse.
* **Heartbeat** — client and server with time in half seconds; `reported`,
  `dropped` and `first` are histories of the client's session (printed as lost, skipped, and the first
  one served).  **Pinger** —
  client and server with datagrams that may be lost, late or reordered.
* **TcpServer** — what the three HTTP programs share: connections, the backlog
  of `listen()`, `accept` with and without threads, the end of a program by an exception.
  `at` says at which of its waiting or failing calls a handler is; a client may ask,
  say nothing, stop reading, leave, and be reset at any time between them; `send` to a client
  that has stopped reading completes or waits without end (`SendMayWait`).  **WebServer** —
  `http_server.py` and `listen_to` of `oe1_http_server.py`; the status
  line and the newline after it are one piece, every character of the file
  another.  **ProxyServer** — `proxy_server.py`: the origin sends its page in
  pieces, stops or fails anywhere; `cache` outlives the program, which Ctrl-C may
  end anywhere and which is then started again; `replies` is the history of what
  origins sent.  **Http** — any one of the three programs, with the properties.
* **IcmpPing** — one socket per ping, opened by `SendOnePing` and closed by
  `Prints`; answers in `air` are lost or arrive at any time, and every packet of
  the host reaches an open socket.  The checksum is computed from the 16-bit words of
  the packet with the two folds of the code; a request whose sum does not
  verify at the other host gets no answer.
* **MC\*.tla, MC\*.cfg** — instances for TLC.  `DvNetwork` has the network of
  `node0.c`–`node3.c`; `MCPings` runs one of the two ping programs while the other
  has ended, as they share nothing.

A definition whose comment-free twin stands just before it (`calc_checksum`
and `ChecksumWithoutPayload`, `Gap` and `UpToItself`, …) has a *mutant*: a plausible bug
which, put in its place, violates a property.  `PROJECT.json` lists which.  The
mutants are used by nothing else.

## 3. Runs

| Run | Instance | Shows |
|---|---|---|
| `abp` | 5 arrivals, 2 packets per channel, all damage, exit after 3 acknowledgements | safety of ABP and `ImplementsTransfer`, which includes delivery |
| `abp_clock` | 5 arrivals, delays 1 or 10, gaps 0, 8, 60 | the list stays in order (`EventsInOrder`), no premature time-out (`NoPrematureTimeout`), the program `Ends`, `ImplementsAbp` |
| `gbn` | window 2, 4 arrivals, 3 packets per channel, exit on acknowledgement 3 | safety of GBN, the unchecked `acknum` included, and `ImplementsTransfer` |
| `gbn_clock` | window 2, 5 arrivals, delays 1 or 10, gaps 2, 28 | `PacketsApart`, `ImplementsGbn` |
| `dv` | routers 0–2, link 0–1 to 20 and back to 1, every interleaving | `NewestArrivesLast`, `QuietMeansShortest`, `NotBelowCheapestYet`, `Converges` |
| `dv_clock` | the four routers of the code, both link changes at their times | `QuietMeansShortest`: every table printed is right; `ImplementsDv` |
| `heartbeat` | 6 beats per session | only beats skipped in the session are reported, and all of them since the first one heard (`ReportsGaps`), "Client stopped" exactly when off line, the client always gets its answer |
| `http` | 2 clients, 2 pages of 2 pieces, 2 fetches, 1 restart, any of the three programs | `AnswersAreRight` (web servers), `AnswersAreReplies` (proxy), `CacheOnlyGrows`, `EndsOnlyForCause`, `EveryoneIsAnswered` |
| `pings` | one of the two ping programs: 5 UDP pings, or 3 ICMP pings, sums that carry once or twice, two units a second | `LossNotUnderstated`, `AnswersCountOnce`, `ClientEnds`; `TimesAreTrue`, `TimeoutMeansSilence`, `KeepsPinging` |
| `dv_sends`, `dv_ties`, `heartbeat_lost` | | violations: section 4 |

Why the bounds are enough.  One sequence bit has two values, so three messages
already reuse it; 3 acknowledgements reach the exit, and 4 or 5 arrivals leave
room for refused messages and for the cut-off at `nsimmax`.  A channel of two
holds an old and a new packet, a channel of three a window sent twice in part.
`ExitAfter` (10 in `abp.c`) and `AckLimit` (20 in `gbn.c`) only say when to
stop.  `N` is 8 in `gbn.c`; with 2 a window is filled, refused, covered by one
acknowledgement and resent.  Delays of 1 and 10 are the extremes of
1 + 9·jimsrand(); gaps 0 and 2 make arrivals at the same time and in a full window, 60
leaves two time-outs between arrivals.  The proofs do away with these bounds
for everything but liveness.  `dv` has all interleavings of three
routers, with at most 20 packets on their way to each (`Room`), which is more than
there ever are; `dv_clock` has the times
the code computes: a packet comes one unit after the one before it, or, from
routers 0 and 1, at the ends of the link that changes, one to three, so that the routers
hear the news in different orders.  The heartbeat's times are those of the code; 6 beats let a session begin above
and below the old `last_seq`.  Two clients of a web server or of the proxy are one who
is served and one who waits, or two threads; the second page, the second fetch and the
restart let one client's page meet the leftovers of another's.  Three pings
let an answer skip the one after its own; the process number of `MCPings` with its
words makes sums that fold to exactly 65535 and sums that carry a second time.

Where a run says `CHECK_DEADLOCK FALSE` the program ends: it exits, terminates
or has no event left.

## 4. Findings

* **`advanced/node.c:77`** (`dv_sends`): `dt_updated` is not initialised, so a
  router may send a vector that did not change, against the comment at line 149.
  What the routers know stays right (`NewestArrives` is proved for any
  `Garbage`), but the exchange need not end.
* **`dv.c:151`** (`dv_ties`): "medium can not reorder … between 1 and 10 time
  units" says the comment; the code adds `2. * jimsrand()`, which can be too
  little for the float `evtime` to change, and `insertevent` then puts the newer packet
  in front.  The neighbour keeps the older vector for good.
* **`heartbeat_server.py:33`** (`heartbeat_lost`): the server "reports any lost packets",
  says its docstring (lines 6-7).  It looks only between `last_seq` and the beat that came:
  before the first beat it hears `last_seq` is `None`, and later a `last_seq` left by an
  earlier session hides the beats up to it, though the client counts from 1 in every
  session.  What it does print is true, and complete from the first beat it hears of
  a session (`ReportsGaps`).

Seen while modelling, and allowed by the properties as they stand:

* `ping_client.py:56`: with no answer at all `np.min([])` raises an exception
  after the loss rate was printed (`ClientEnds` names the case).
* `dv.c`, `node.c`: after a link has become dearer a router may for a while hold a cost
  that is too low, because its neighbours' vectors still count on the old one: with 0-1 at
  20 router 1 holds 3 to router 0, with 4 the shortest way.  `NotBelowCheapestYet` bounds it
  by the way with each link at the cheapest it has been.
* The transfer lab's main loop stops as soon as the last message was handed to A,
  so it is never delivered; a beat sent to no server blocks the client for ever.
* `http_server.py` ends on an empty request, on a file that is no text, and when a
  client leaves during an answer: `send` fails again in the `except` clause
  (`EndsOnlyForCause`).  A client that says nothing, or asks and does not
  read, holds it, and the proxy, for ever: neither `recv` nor `send` has a time-out (`Blocked`).
* `oe1_http_server.py`: a thread that ends on an exception does not close its
  socket, and `connectionSocket` of the main thread keeps the last one open
  until another client comes (`EveryoneIsAnswered`).
* `proxy_server.py`: a failed `send` from the cache is taken for a missing cache file;
  what is cached, an error page or an empty file left by an interrupt included, is never
  replaced (`CacheOnlyGrows`, `AnswersAreReplies`).
* `ping.py:80`: the answer of an earlier ping, or of another program, is taken for
  this one's; a packet of another length makes `struct.unpack` raise and ends the
  program (`TimesAreTrue`, `KeepsPinging`).

## 5. Fairness

* `Abp`, `Gbn`: weak fairness of taking packets (the main loop takes every
  event on its list), strong fairness of an undamaged delivery of B's answers
  and of A's resent packet: loss and damage have probabilities below 1, so of
  infinitely many packets some get through.  Nothing is assumed of layer 5.
* `AbpSim`, `Dv`, `DvSim`: weak fairness of `Next`: the loop runs until it ends.
  `Ends` needs no more, because time passes between any two events that
  could repeat; `Converges` needs no more, because every exchange dies out.
* `Heartbeat`: weak fairness of serving a beat and of getting an answer: both
  processes are scheduled.  `Pinger`: weak fairness of the client only; a
  wait ends after a second by `settimeout`.
* `Http`: weak fairness of `accept` and of each handler, except while it is in a call
  that may wait without end (`Waits`): `recv` from a client that says nothing or from an
  origin, `send` to a client that does not read.  So nothing is assumed of clients, origins or whoever restarts the
  proxy.  `IcmpPing`: weak fairness of the program with its clock: `select`
  and `sleep` return.

## 6. Proofs

All proofs are in the modules `*_proofs`; `PROJECT.json` lists the theorems.  They
assume only the named `ASSUME`s of the models, and what a theorem itself states under
ASSUME.

* **Abp** — for any number of messages, kinds of damage and channel bound.
  `InOrderOnce` is not inductive: that B never takes an old packet for a new
  one rests on the order of both channels (`DataChannelOrdered`,
  `AckChannelOrdered`), on the distance between A, B and the histories
  (`Progress`) and on the packet kept for retransmission (`KeptPacket`).
  `IInv` is the conjunction.  `Refinement` shows that every step is a step of
  `ReliableTransfer` or a stutter.
* **Gbn** — for any window, too.  `IInv` adds to the properties that packets in
  the data channel are what was accepted under their number (`DataGenuine`) and
  that acknowledgements on their way never go back (`AcksNeverGoBack`), which is
  what makes `base = acknum + 1` without a maximum and the unchecked removal
  from the queue safe (`NoCrash`).
* **EventList** — `EventList_proofs` says what `insertevent`, `starttimer`, `stoptimer`,
  `tolayer3` and the main loop do to the list, and that `Untimed` takes each of them to the
  operator of FifoMedium: `insertevent` keeps the list in the order of time
  (`InsertEventInserts`, `InsertedSorted`), a packet handed to `tolayer3` becomes the last one
  to its entity (`PacketSent`; `PacketsSent` for a window resent), and the first event of the list is
  the first of its channel (`TakenUntimed`).  They rest on `Orderly`: the list is
  sorted, and packets to one entity are at least one unit apart.
* **AbpSim** — for any delays from 1 to 10, any gaps between arrivals, any kinds of damage.
  `ListInv` (the list is `Orderly` and holds exactly one next arrival) gives
  `EventsInOrder` at any `TIMEOUT`.  `NoPrematureTimeout` needs `TIMEOUT > 20`, twice the
  longest delay (it is 25 in `abp.c`), and `ClockInv`: there is one packet at
  most, A's timer runs exactly while A waits, and is due at least `TIMEOUT - 10` after a packet
  to B and `TIMEOUT - 20` after an answer (`Guarded`).  `ClockRefines` is `ImplementsAbp`,
  step by step, with channels of one packet.
* **GbnSim** — for any window, delays, gaps and any `TIMEOUT`: a window may be resent while the
  last one is still on its way.  `PacketsStayApart` is `PacketsApart`, and `ClockRefines` is
  `ImplementsGbn`.  Where the handler resends a window, the packets that survive on the list are
  those of one `TransmitEach` (`OneMoreSurvives`, by the least packet at which
  the two would differ).

  The two refinements carry what is proved of Abp and Gbn over to the programs with their
  clock, `InOrderOnce` and `NoCrash` included.
* **Dv** — for any network of routers, any costs and any changes of a link.  The core is
  `NewestKnown`: for every router and neighbour, the row in the table once
  the queue is empty, or else the last packet queued, is the neighbour's
  present vector.  With `LocallyBest` this gives `QuietMeansBellmanFord` when no
  packet is left.  It holds whatever `dt_updated` was.  That the solution is the
  shortest ways (`QuietMeansShortest`) is proved for connected networks without free
  links (`Connected`, `LinksCost`): a cost above a way would have a shorter way
  with the same fault (`SolutionNotAbove`), and the lowest cost below a shortest way comes
  from a neighbour's lower one (`SolutionNotBelow`); both rest on the triangle inequality
  of shortest ways (`Triangle`).  `NotBelowCheapestYet` follows from the same
  inequality and an invariant on tables, packets and link costs (`AboveWays`), if the
  first vectors and `INFINITY` are not below the first ways (`StartsCautious`).  The bound itself
  moves when a link changes: it can only fall (`CheapestFalls`, `ShortestMonotone`), so
  what was above it stays above.  TLC checks
  these assumptions on the networks of the runs (`NetworkAssumption`).  The provers
  cannot use the library's induction theorems, so each induction looks at the
  least counterexample (`LeastIsLeast`).
* **DvSim** — for any network, and any delays above 0 (`NoDelayIsZero`; with a 0 the statements
  are false, which is `dv_ties`).  `ClockRefines`: every step of the program on the event list
  is a step of Dv or, when `init()` schedules the link changes, none.  `InMedium` is the medium of
  Dv a list stands for.  `lastime` is the time of the last packet to the router, so a
  packet comes behind all others to it (`LastTimeIsLast`, `PacketSent`) and a vector
  reaches the end of each neighbour's queue (`VectorSent`); what the loop takes is the
  first to its router (`TakenArriving`).  `ClockInv` says that the list is sorted and
  holds exactly the link changes still to come, so that the main loop calls both handlers
  with the costs 20 and 1 in turn.  It needs the invariant of Dv for the types of tables
  and costs, so both are carried along (`IInv`); the lemmas of `Dv_proofs` are taken over
  by `INSTANCE`.  In this Dv a link may change at any time (`Garbage` is `BOOLEAN`): whether the
  routers have stopped by 10000 depends on the network and the delays.  For
  `advanced/node.c` as it is, that is `ImplementsDv` (`KeepsPromise`); with `dt_updated` initialised
  the stronger `ImplementsDv`, where a link changes only when no packet is left, is checked on the
  code's own network.  `NewestArrives` and `QuietIsShortest` follow for either.
* **Heartbeat** (with the other programs that use sockets in `Sockets_proofs`) — for any `MaxSeq`.
  `ReportsGaps` needs to know how
  `last_seq`, `first` and the beat on its way lie to each other in every phase of
  the client (`HeartbeatInv`); the two properties of the time-out rest on the sum of
  what the server has waited and what the client still sleeps.
* **Pinger** — for any `PKGNUM`.  `PingerInv` says that a ping is in at most one of the
  places where it can be (on its way, answered, ignored, counted), from which
  `LossNotUnderstated` follows by counting.
* **Http** — for any clients, pages, `Length`, `Fetches`, `Restarts`.  `HttpInv` has one
  part per program: what a web server's client has got is the part of its answer
  up to `sent` (`Web`); the proxy handles one connection at a time (`OneBusy`),
  and what its client has got is nothing, a part of the cached page, or a reply,
  according to where the handler is (`Proxy`); every cache file is a
  reply of its origin, or empty after an interrupt (`CacheInv`).  A client
  that got a part from the cache before the page was fetched again is gone, which
  is what keeps the parts from being mixed and the cache from being overwritten.
* **IcmpPing** — for any process number, any words of the time, any `timeout` and number of
  pings.  `RequestVerifies` is the arithmetic: seven words, folded twice, complemented and added
  again verify.  `TimesAreTrue` rests on an answer carrying the time its
  own ping was sent; `TimeoutMeansSilence` on the socket keeping what comes while it
  is open.

Only model-checked: liveness (`ImplementsTransfer` beyond its safety part,
`Ends`, `Converges`, `AnswerComes`, `ClientEnds`, `EveryoneIsAnswered`, `KeepsPinging`), which
is beyond the prover with its fairness; and, with `dt_updated` initialised, that the routers
have stopped whenever a link changes (`ImplementsDv` of `dv_clock`), which is true of the code's
network and times, not of every one.

## 7. Not modelled

Abstractions: traces and prints (the numbers they print are, where a property
is about them), counters that are only printed (`ntolayer3`, `nlost`,
`ncorrupt`, `message_count`), `malloc`/`free`, the self-test of the random
numbers, `B_output` and `B_timerinterrupt` (empty, and never called).  Times
are exact: that a `float` stops growing at 2^24 matters after millions of messages
in `main.c`; its effect in `dv.c` is the delay 0 of `dv_ties`.  How far the medium fills when
`gbn.c` resends a window of 8 every 25 units is a question of averages, which the
bounded medium of `gbn_clock` does not answer.  `int` sums in `rdt.c` and `node.c` stay
far below 2^31 for the lab's inputs.

The proxy's directory may hold other files than its cache, which it would serve
as pages; `IcmpPing` pings another host (on the loopback its socket would also
receive the request); `checksum` of an odd number of bytes would index past the end and is never
called so; several heartbeat clients at once, which the server mixes up, are
left out.

The SMTP client is a fixed sequence of commands that looks at no answer; the
small TCP and UDP examples exchange one message; the skeletons, plots and notes
have no behaviour to model.
