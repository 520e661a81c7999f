# Formal verification of the trading market simulator

TLA+ models of the simulator in `src/`, the TLC runs that check them on small
instances, and TLAPS proofs that hold for every value of the constants.
`PROJECT.json` maps each definition to the lines it models.

## 1. The system

Three systems share the repository and do not talk to each other yet.

**Exchange side.** `OptionOrderBook` is a limit order book for one option. An
`OptionOrderGenerator` runs on a thread of its own and feeds it with quotes,
aggressive orders and cancels (`generator_main.cc` wires the two). The calls go
both ways: the generator calls `add` and `remove`, and inside `add` the book
calls `notify_fill` back for every resting order that was used up.

**Client side.** `Core` is a client that connects to a market server by TCP. It
runs a pipeline of three threads joined by two bounded queues: the network
thread (`MarketFeed::receive_loop`) receives ticks and reconnects, the strategy
thread turns ticks into signals, the execution thread turns signals into
orders. A fourth thread, the `Controller`'s, starts and stops them. The same
class, in another process, is the market server (`Core::work_server`).

**Market depth feed.** A `MarketDepthGenerator` makes a depth message in every
round of its thread, queues it, takes it from the queue, serializes it into 32
bytes and sends them by UDP to each of its clients. In a client's process a
`MarketDepthConsumer` has a thread that reads datagrams into one buffer and
pushes what it deserializes into a bounded queue; the main thread pops and
prints (`consumer_main.cc`).

| component | state | operations | interacts by |
|---|---|---|---|
| order book | `m_bids`, `m_asks`, `m_order_ids_to_side` | `add`, `try_match`, `remove` | calls, fill callback |
| order generator | `m_live_orders`, `m_next_id`, stop token | `run`, `notify_fill` | calls into the book |
| market server | listening socket, one client socket, static tick counter | `work_server`, `generate_market_data` | TCP |
| market feed | `p_tcp_client`, `m_initialized` | `initialize`, `receive_loop`, `_reconnect`, `stop` | TCP, market data queue, running flag |
| client pipeline | five flags, two queues, two counters, three threads | `initialize_client`, `work_client`, `stop_client`, the loops, the destructor | queues, flags, joins |
| controller | none of its own | `start_client`, `start_server` | calls into Core |
| market depth generator | `m_send_q`, `m_seq`, instruments, clients | `run`, `enqueue`, `generate_depth_message`, `send_msg`, `_serialize` | UDP |
| market depth consumer | one buffer, `m_recv_queue` | `run`, `read_msg`, `_deserialize`, `try_pop` | UDP, queue to the main thread |
| option pricing, configuration reader, error types | none | formulas, parsing | calls |

What is hard here, and what must hold:

* **Order book.** A call of `add` is a loop that only collects the ids of used up
  orders, then a loop that removes them one by one with a callback between two
  removals, then an insertion that can be refused although the order has already
  traded. `remove` erases what `std::ranges::find` returns without looking at it.
  So the map and the two vectors have to agree at every moment a callback runs,
  the vectors have to stay sorted (the matching loop relies on it), the book may
  never be crossed, and the vectors may never outgrow the arena they live in.
* **Order generator.** It never looks at the book. What it quotes and cancels
  comes from a list it maintains from answers and callbacks alone; the list must
  be the book's mirror image, prices must not drift, ids must survive their wrap.
* **Client.** Threads that end for different reasons, a flag any of them may
  clear, queues that fill up, a peer that crashes and comes back with new
  sequence numbers, a stream that is cut in the middle of a tick or without
  anybody noticing, a restart while old threads still run and meet the new ones
  at queues for one producer and one consumer, a thread that cannot be started, a
  destructor that runs while threads do.
* **Market depth feed.** Datagrams are lost, doubled and overtaken and nobody
  answers. A `recv` that fails returns -1, which `run` takes for success, so an
  old buffer is handed on again; a full queue drops what is newest. Two classes
  have to agree on a layout of 32 bytes, with a sign in two of the numbers, and
  a 16 bit number that wraps is all a client has to notice a loss.

The `hazards` of `PROJECT.json` list these at the line where they bite, with the
properties aimed at them.

## 2. The modules

| module | models | built on |
|---|---|---|
| `OptionOrderBook` | the book, one action per step of a call | |
| `MatchingEngine` | what the book promises, without vectors, loops or maps | |
| `OptionOrderGenerator` | the generator's thread wired to the book | `OptionOrderBook` |
| `MarketServer` | the server and the TCP connection to one client | |
| `MarketFeed` | the client's end of the connection and the receive loop | `MarketServer` |
| `Core` | the threads, the queues, start, stop and destruction | `MarketFeed` |
| `TickPipeline` | what the client promises of ticks and orders, without threads, queues or a network | |
| `WireDepthMsgV1` | the 32 bytes of a depth message, writing and reading them | |
| `UdpNetwork` | UDP, from how `send_msg` and `read_msg` use it (external) | |
| `MarketDepthGenerator` | the sender's thread | `WireDepthMsgV1`, `UdpNetwork` |
| `MarketDepthConsumer` | a client's two threads | `WireDepthMsgV1`, `UdpNetwork` |
| `MarketDepth` | sender, network and clients together | both |
| `DepthFeed` | what the feed promises, without bytes, buffers or threads | |
| `MC...` | instances for TLC | the module of that name |
| `SequenceLemmas`, `OptionOrderBook_proofs` | lemmas and proofs | `OptionOrderBook` |
| `BookEngine_proofs` | lemmas and proofs | `OptionOrderBook_proofs`, `MatchingEngine` |
| `OptionOrderGenerator_proofs` | lemmas and proofs | `OptionOrderGenerator`, `BookEngine_proofs` |
| `Core_proofs`, `CoreOrder_proofs` | lemmas and proofs | `Core`, `TickPipeline` |
| `WireDepthMsgV1_proofs`, `MarketDepth_proofs` | lemmas and proofs | `WireDepthMsgV1`, `MarketDepth` |

A definition named `Buggy...` is not part of any specification. It is a mistake
the code could have made, written before the definition it would replace, and
`PROJECT.json` says which property notices it.

**`OptionOrderBook`.** `containers` are the two vectors, best order first, and
`orderIdsToSide` the map. `pc`, `order`, `i`, `idsToRemove` are the locals of a
running `add`: `"match"` is the loop of `try_match` at index `i`, `"purge"` the
loop after it and the outcome. `SkipPassive`, `ConsumePassive`,
`ConsumeAggressor`, `ConsumeBoth` are the four ways through the loop's body,
`PurgeOne` one removal with its callback, `FinishWithoutInsert` and `Insert` the
outcomes of `add`. `remove` is one step. The price check is Price32's, and the
insertion point is what `find_if` finds, equal prices included. Time stamps,
symbols, flags and logging are left out: the book does not read them.

**`MatchingEngine`.** A set of resting orders and at most one incoming one. It
trades with a best compatible order, rests when nothing compatible is left, its
id is free and there is room, and is dropped otherwise. `OptionOrderBook` maps
to it (`Engine`): `resting` is what is in the containers and not in
`idsToRemove`, `incoming` is `order`. One iteration of the loop is one trade or
a stutter, and a purge is a stutter, because its order was gone at its trade.

**`OptionOrderGenerator`.** `live`, `nextId` and the stop token; `batch` is the
second quote of a pair, made before the first is added. Random draws are
arbitrary choices within the distributions' ranges. `PurgeAndNotify` is a
removal with `notify_fill`; `InsertAndTrack` is `add` returning true and `_track`.
`seed` is called by tests only and is left out. The ids wrap at `IdModulus`.

**`MarketServer`.** `srv` is where `work_server` stands: `"accept"`, `"serving"`
the client's present socket, or `"stale"`: still sending to a socket the client
has replaced. A tick is a sequence number, the server process it comes from, and
the branch of `_compute_signal` its prices take; it travels as two halves,
because `recv` returns what happens to be there. `BreakLink`, `CrashServer` and
`RestartServer` are the environment; a cut connection may still deliver a prefix
of what was in flight, and so may end in half a tick. After that it is `"broken"`,
and the client's `recv` will fail, or `"silent"`, and it never will: neither end
sets a timeout or a keepalive. On the server's side a send into a connection whose
other end has gone may be taken by the socket (`SendLost`) before one fails.

**`MarketFeed`.** One place per statement of `receive_loop` that another thread
can come between: the flag, the null check, the retry loop and each dial, the
check behind the loop, the store of false when it gives up, `recv`, `push`, the
spin on a full queue. `hand` is the tick received and not yet pushed. Actions are
indexed by session, because a restarted client can have the network threads of two
calls of `work_client` at once. Two such threads share one `p_tcp_client` and one
queue that are made for one of them, and what follows is undefined:

* One resets the client while the other is in `recv`: the other is `"stray"`. Its
  `recv` may fail, return something nobody sent (`StrayReturns`), never come back,
  or the process may die (`ProcessDies` of `Core`), which it may also do when both
  dial at once.
* Both are in `push`: `RacedPush` may return true or false and marks the queue in
  `raced`. From then on every push and pop of it may do either, a pop may also
  return what nobody queued, and nothing is said of its contents any more.

What races and stray reads make up is bounded by `MaxPhantoms`. `Race` is written
once for both queues and both ends.

**`Core`.** `mainpc` is the Controller's thread: `work_client` starts the three
threads one after the other, and each assignment to a `std::jthread` waits for
the thread it held before. `StopClient` clears the flag; `Destroy` is the
destructor with the members in the order C++ destroys them, so the feed goes
first and the threads are joined after that. `Crash` is an exception in a
thread's loop and its handler. `ThreadFails` is a `std::jthread` whose constructor
throws: `work_client` is left with the flag up and some of the threads running
(`mainpc` is `"thrown"`), the Controller catches, and what remains is the
destructor, which calls `stop_client`. The stop tokens, `m_client_stopping`,
`m_order_queue` and `m_reader_thread` are never read, and are left out. The
queues are the external `fiah::SPSCQueue`, modelled by what the code relies on:
a bounded FIFO whose push and pop are atomic while no two threads are at one end
of it. While `work_client` waits for the strategy or the execution thread of the
session before, two can be: `RacedPopTick`, `RacedPushSignal` and
`RacedPopSignal` are what may come of it, with `raced` as for the push of the
feed. A failed `initialize_client` leaves everything as it was and is a
stutter. `signal.type` is uninitialised for a quote that is not tight, so it is
an arbitrary value there (`SignalTypes`).

**`TickPipeline`.** A tick is its place among all ticks, server process first. One
actor makes ticks, one handles them and decides, one orders what was decided. Any
tick may be missed, the latest decision may be dropped, and after a stop each
side may still finish what it was looking for when the stop came, and nothing
more. `Core` maps to it (`Pipeline`): `handled` is the strategy thread's `md`,
`decided` what is in the signal queue and in the strategy's hand, `ordered` the
execution thread's `signal`, `looking` the threads between the test of the flag
and the pop. The feed, the socket, the market data queue, reconnections and
failures leave no trace in it but missed ticks.

**`WireDepthMsgV1`.** The offsets are computed as the struct does, from the
member before. A `_write_` function is a cast to an unsigned type followed by a
split into bytes, so writing is defined on any integer and takes it modulo the
width; `ReadI32` folds the upper half of the range back to the negative numbers.
A byte has `ByteBase` values, so that TLC can work with small ones; nothing else
of the layout is changed. What `AsSeen` leaves of a message is everything but
the flags of the option, which have no place on the wire.

**`UdpNetwork`.** `SendToAll` puts no, one or two copies of a datagram on the way
to each client; `RecvAt` takes any of them, and one that is not the oldest is an
overtaking. Both are counted and bounded, because two properties speak of the
network's behaviour. A loss is never bounded.

**`MarketDepthGenerator`.** `Generate` is `m_gen_fn` and `enqueue`, `SendMsg` is
`send_msg`: pop, serialize, send to all, count. The default `gen_fn` draws from a
generator that is seeded once, so a run of the program is given by the sequence
of its draws, the constant `Draws`; the theorems hold for every such sequence.
`GenerateDepthMessage` has flags 0, because that is where the initializers of the
return statement go. `sent` is a history variable.

**`MarketDepthConsumer`.** `ReadMsg` is a `recv` that returns a datagram,
`ReadFails` one that returns -1 and leaves the buffer; both go on to `Push` or,
with the queue full, to `PushFull`, whose result nobody reads. `TryPop` is the
round of the main loop that finds a message; `shown` is its `msg`.

**`DepthFeed`.** Numbered updates are published. A reader hears one of those
published, keeps what it heard last, and is shown what it kept in order: it never
sees an update that was not published, but for a blank before it has heard
anything. `MarketDepth` maps to it (`Feed`): `heard` is the deserialized buffer,
`inbox` the receive queue, `published` what was sent.

## 3. What the runs show

| run | question | properties |
|---|---|---|
| `book_safety` | is the book consistent at every step of every call? | `TypeOK`, `MapMatchesContainers`, `PriceSorted`, `Uncrossed`, `NoEmptyOrders`, `WithinArena`, `PurgedAreResting`, `CallProgress` |
| `book_engine` | does it do what a matching engine must, and does each call return? | `ImplementsEngine`, `CallReturns`, `CallsAreBounded` |
| `generator_sync` | does the generator know the book, within its price band, and stop soon? | `GenTypeOK`, `LiveMirrorsBook`, `PriceBand`, `AggressorCrosses`, `StopExits`, `StopIsBounded` |
| `generator_time` | is it a price-*time* book? No. | `PriceTimePriority` |
| `core_safety` | do statistics, flag and threads agree through failures and restarts? | `TypeOK`, `SignalAccounting`, `RunningMeansAllThreads`, `RolesOverlapOnlyAtJoin`, `ShutdownIsBounded` |
| `core_liveness` | are ticks and orders right, and does the client stop, recover and keep moving? | `TicksInOrder`, `ImplementsPipeline`, `StopEndsWorkers`, `LostLinkIsResolved`, `QueuedTicksAreHandled` |
| `core_restart` | one producer per queue, across a restart? No. | `SingleProducer` |
| `core_destroy` | does the feed outlive its thread? No. | `ReceiverHasFeed` |
| `core_framing` | is every parsed tick one that was sent? No. | `ParsedTicksWereSent` |
| `core_spread` | do only tight quotes trade? No. | `OnlyTightQuotesTrade` |
| `depth_feed` | do clients see what was sent, in order, and can they tell what they missed? | `DepthTypeOK`, `InOrder`, `RepeatsAreExplained`, `SeqTellsLoss`, `ImplementsDepthFeed`, `QueuedIsShown`, `ArrivedIsShown` |
| `depth_flags` | is a bid on a call shown as one? No. | `BidsOnCallsAreShown` |

The six that end in "No" carry the seven findings of `PROJECT.json`, the last of
them two:

1. **Last in, first out at a price** (`OptionOrderBook.hh:166`). The insertion
   point is in front of the orders of the same price, while the class is
   described as a price-time book. Three orders show it.
2. **A restart has two producers** (`Core.cc:118-123`). The running flag is set
   before the old network thread is joined; if that thread has not read the
   false, it goes on and pushes beside the new one. The assignment that would
   join it then waits while the client runs without a strategy thread.
3. **The feed dies before its thread** (`Core.hh:87-103`). Members are destroyed
   in reverse order of declaration, and `stop_client` joins nobody.
4. **A short read shifts the stream** (`MarketFeed.cc:149`). The incomplete
   packet is discarded, the rest of it is then read as the head of the next one.
5. **An uninitialised signal type** (`Core.cc:266`). A spread of 0.05 or more,
   which the rounding of `ask - bid` or a shifted tick can produce, leaves
   `type` unset, and any value but HOLD becomes an order.
6. **Every message is an ask** (`MarketDepthGenerator.cc:39`). The initializers of
   the returned struct are one short before the flags: 0 goes to `flags` and the
   bid flag to `_pad`.
7. **Every option is a put** (`MarketDepthGenerator.cc:100`). The message's flags
   are written to `FLAGS_OFFSET`, the option's nowhere; `consumer_main.cc` reads
   them from a zeroed struct.

### Bounds, and why they are enough

* `book_safety`: four ids, three orders a side, three prices, quantities to
  three. One incoming order can use up two resting orders and part of a third,
  insertion can fall in front of, between, at an equal price with and behind
  others, both sides can be full, and an id can come again. Ids are only
  compared, so they are symmetric. 0 is the invalid price.
* `book_engine`: three ids, two a side, quantities to two, no symmetry, since
  the properties are temporal.
* `generator_sync`: ids wrap after four, so a new order can meet an older one of
  its id; two orders a side; half width 2 and offset 1, so aggressors can be
  priced from resting aggressors. `sleep_for` takes no step.
* `core_safety`: two sessions, which is what it takes for threads of one to meet
  those of the next at each queue and at `p_tcp_client`; one cut of the
  connection, noticed or not, one tick, queues of one, one retry, one exception,
  one thing that a race makes up (`MaxPhantoms`). Each queue fills, the client
  gives up, also late and on the next session, and each of the joins of
  `work_client` waits for a thread. A quote that makes a signal and one that makes
  none; a wide one is the subject of `core_spread`. The theorems are for any
  number of sessions.
* `core_liveness`: one session, because `core_restart` shows what two do to the
  order of ticks. Two ticks a server process, one crash of the server, which cuts
  the connection with or without notice, queues of one, one exception: a second
  server process starts its sequence again, a half tick can end a cut stream, and
  each thread can be lost on the way. `MaxPhantoms` plays no part with one
  session: no race can happen (`UndamagedHolds` of `CoreOrder_proofs`).
* In both, `PartialReads = FALSE`: a short read in the middle of a live stream is
  the subject of `core_framing`.
* `depth_feed`: bytes of two values, so the number wraps after four of five
  messages, the first price is negative and the second the largest of its type;
  two instruments, one of them with a negative strike. One client: clients share
  nothing but the datagrams sent to them, and the theorems are for any set of
  them. One doubling, one overtaking, one failed `recv`, a receive queue of two,
  any number of losses. The send queue holds one message, since each round takes
  out what it puts in.

`CHECK_DEADLOCK FALSE` stands where the system may really stop: the generator
after its loop has returned, the client once it is destroyed or its server
sends no more, and the feed when its draws are used up.

### Fairness

* The book: a call that was entered runs to its return (`WF` of `CallStep`); it
  is plain code on the caller's thread. Nobody promises new calls.
* The generator: its thread keeps taking steps (`WF` of `GenStep`); a stop is
  not promised.
* The client: each of the three threads of each session takes a step when it can
  (`WF` per thread), and the Controller's thread goes on when the joins of
  `work_client` are over, and from an exception of `work_client` to the destructor
  (`WF` of `MainGoesOn`). There is no fairness for the server, the network, the
  Controller's decision to stop, or exceptions, and none for `UseAfterReset`: who
  uses what is gone need not come back. A thread blocked in `recv` on a connection
  that is silent, or was cut without notice, stays there, because no step of it is
  enabled. So `StopEndsWorkers` speaks of the other two threads only, and
  `LostLinkIsResolved` only of losses that `recv` reports: of one it never reports
  the code promises nothing.
* The feed: each client's receiving thread and main loop take a step when they
  can (`WF` of `ReceiverStep` and `TryPop`); neither loop has an end. Nobody
  promises that the generator goes on, that a datagram arrives, or that `recv`
  fails.

## 4. What is proved

`OptionOrderBook_proofs` proves, for every `SIZE`, `OrderId`, `Price \subseteq
Int`, `InvalidPrice` outside `Price`, `MaxQty` and `NoOrder` (the assumptions
named in `OptionOrderBook`):

| theorem | states |
|---|---|
| `BookInvariant` | `Spec => []BookInv` |
| `TypeCorrect` | `Spec => []TypeOK` |
| `MapIsConsistent` | `Spec => []MapMatchesContainers` |
| `BestPriceFirst` | `Spec => []PriceSorted` |
| `BookIsUncrossed` | `Spec => []Uncrossed` |
| `ArenaSuffices` | `Spec => []WithinArena` |
| `EmptyOrdersArePurged` | `Spec => []NoEmptyOrders` |
| `PurgeFindsItsOrders` | `Spec => []PurgedAreResting` |
| `MatchingIsExhaustive` | `Spec => []CallProgress` |
| `CallsEnd` | `Spec => CallsAreBounded` |

None of the properties is inductive alone. `Uncrossed` after an insertion needs
to know that nothing compatible is left, which the loop knows only of the orders
it has passed, which is enough only since the containers are sorted; and it must
survive a purge, which removes the right orders only since the map and the
containers agree. `CallProgress` carries this through a call: what was consumed
and not purged is the front of the opposite container, in order
(`ConsumedIsFront`); what the loop passed behind that front cannot trade with
what is left (`NoTradeBehindFront`); an order without quantity is in the front
(`EmptyOnlyInFront`). `BookInv` is the conjunction of `TypeOK`,
`MapMatchesContainers`, `PriceSorted`, `Uncrossed`, `WithinArena` and
`CallProgress`. The proof has one lemma per action
(`...KeepsInv`), each split by conjunct. Under them are lemmas about the
operators: `EraseEffect` and `EraseKeepsShape` (a removal takes exactly the
order of that id), `InsertPosFacts` (everything before the insertion point is
strictly better and everything behind it no better), `TradesAtFront` and
`FrontGrows` (a trade always happens right behind the front), `QtyEdit` (a change
of a quantity disturbs neither order nor ids). `SequenceLemmas` holds facts about
`InsertAt`, `RemoveAt` and least elements of sets of indices.

`CallsEnd` is the safety half of `CallReturns`, with a bound: the loop over the
opposite container only collects, and the purge runs over what was collected.
`StepsLeft` weighs an order still to be passed twice, since it may
have to be purged as well, and one already collected once: an iteration that
collects gives up two and takes on one. That it stays within `2 * SIZE + 2`
needs `CallProgress` and `WithinArena`.

`BookEngine_proofs` proves, under the same assumptions, `EngineSteps`, which is
`ImplementsEngine` without its fairness:

| theorem | states |
|---|---|
| `BookIsAnEngine` | `Spec => EngineSteps` |

There is one lemma per action, which names the engine's step (`RemoveIsCancel`,
`ConsumePassiveIsTrade`, `PurgeIsStutter`, `InsertIsRest`...). They rest on what a
removal, a partial fill and an insertion do to the set of orders (`EraseMembers`,
`EditMembers`, `InsertMembers`). `BookInv` is used in full: ids are keys, so
taking an id out of what rests takes one order (`IdsAreKeys`); a trade is at the
front and the container is sorted, so the passive is a best one
(`PassiveIsBest`); what `CallProgress` says at the end of a call is that nothing
compatible is left (`NothingCompatible`); a full vector is a full side of the
engine (`SideCount`). One part is added, `OwnSide`: a bid is among the bids. The
map alone does not say so.

`OptionOrderGenerator_proofs` proves, under the assumptions on the configuration
(`ConfigAssumption`: a positive half width, a natural offset, lots within
`MaxQty`, and every price of the two bands valid) and on the ids
(`IdAssumption`: `OrderId` is `0..IdModulus - 1`):

| theorem | states |
|---|---|
| `GenInvariant`, `BookInvariantInGenerator` | `GenSpec => []GenInv`, `GenSpec => []BookInv` |
| `GenTypeCorrect` | `GenSpec => []GenTypeOK` |
| `ListMirrorsBook` | `GenSpec => []LiveMirrorsBook` |
| `PricesStayInBand` | `GenSpec => []PriceBand` |
| `AggressorsCross` | `GenSpec => AggressorCrosses` |
| `GeneratorDrivesAnEngine` | `GenSpec => EngineSteps` |
| `StopIsNear` | `GenSpec => StopIsBounded` |

The generator's steps are the book's, so `BookInv` comes from the same lemmas.
`GenInv` adds `Mirror`, which is `LiveMirrorsBook` said position by position
(every live order is in a container and the other way round, no two live orders
share an id, each container holds its own side, the lengths add up): a removal
takes one order from each only since ids are unique in both, and an insertion
adds a fresh id only since `add` has looked into the map. `PriceBand` rests on
the mirror: the best of the list is the front of a container (`FrontIsBest`, from
`PriceSorted`), so an aggressor's price is one offset from the price of an order
of the *opposite* side, which is within its own band. `PendingInBand` carries
that through a call and to the second quote of a pair. `AggressorsCross` follows
from `BestBidIsFront` and `BestAskIsFront`.

`GeneratorDrivesAnEngine` is `EngineSteps` again, under a specification in which
the calls come from the generator's thread and its callback runs inside them: the
lemmas of `BookEngine_proofs` are about single actions of the book and are cited
for the actions of the generator that contain them. `StopIsNear` is the safety
half of `StopExits`: `GenStepsLeft` is what is left of the running call
(`StepsLeft`), a whole call more if a quote of the pair is pending, and the
return; a pair is never longer than that (`ShortBatch`), and no iteration begins
once the stop is requested.

`Core_proofs` and `CoreOrder_proofs` prove, for every capacity of the socket and
of the two queues, every number of sessions, retries, crashes, cuts and
exceptions, and every set of tick kinds and signal types (`ServerAssumption`,
`FeedAssumption`, `CoreAssumption`):

| theorem | states |
|---|---|
| `CoreInvariant` | `Spec => []CoreInv` |
| `CoreTypeCorrect` | `Spec => []TypeOK` |
| `RunningMeansAllThreadsHolds` | `Spec => []RunningMeansAllThreads` |
| `SignalAccountingHolds` | `Spec => []SignalAccounting`, which says nothing once the signal queue is raced on |
| `RolesOverlapOnlyAtJoinHolds` | `Spec => []RolesOverlapOnlyAtJoin` |
| `ShutdownIsBoundedHolds` | `Spec => ShutdownIsBounded` |
| `TicksInOrderHolds` | `StartedOnce` implies `Spec => []TicksInOrder` |
| `ClientIsAPipeline` | `StartedOnce` implies `Spec => ImplementsPipeline` |

All but the last two are for any number of sessions.
`CoreInv` adds three parts to the properties. `DialsLeft` bounds the dials of a
receive loop that is still retrying, without which the counter of retries has no
type. `NotStarted` says that a thread `work_client` has not reached yet does not
exist, so that starting it overwrites nothing. `FlagMeansThreads` says which
threads are alive while the flag is up at every point `work_client` can have
reached, not only after its last, but for a client it was thrown out of. The
accounting is over a difference, signals counted minus signals queued, in hand or
sent, which only an exception changes, as long as push and pop are what a queue's
are: `SignalAccounting` ends with the first meeting of two threads at one end of
the signal queue, whose damage nobody can bound. It goes on through races on the
tick queue and on the TCP client, and through every restart without such a
meeting, which is any in which a strategy or execution thread comes to its flag
before the next one comes to the queue.

A restarted client has two producers for a while, which `core_restart` finds.
`RolesOverlapOnlyAtJoin` says how far that goes: two threads of one kind only
while `work_client` waits for the older, of the session before, and never three.
Its invariant `OldThreadsEnded` says at which point of `work_client` the old
threads of each kind have been joined, and that an exception which leaves an old
thread unjoined has also kept its successor from starting. `ShutdownIsBounded` is the safety half of
`StopEndsWorkers`, and says more: it holds of the network thread too, which only
a silent `recv` keeps from ending, and through exceptions, failed dials and the
late store of a loop that gives up.

`TicksInOrder` is proved of a client started once whose `recv` returns whole
ticks while the connection lives (`StartedOnce`), because it is false otherwise:
`core_restart` shows the two producers and `core_framing` the shifted stream. One
session meets nobody at a queue or at its TCP client (`Undamaged`), so none of the
undefined outcomes can happen to it. The invariant `TickOrder` follows a tick
through the client. `WholeTicks`: the stream
is a sequence of whole ticks, but for a half at the end of a connection that was
cut, which the next connection discards. `PipeInv`: what the strategy has, what
is queued, what the receiver holds and what is in the stream come in that order,
and all of it before `Now`, the number the server gives out next, which a restart
of the server only raises. `SignalInv`: the same on the way out, and no order is
of a tick the strategy has yet to see.

`ClientIsAPipeline` is the refinement, from `TickOrder`, one lemma per action
(`...IsPipeline`). A pop by the strategy is a `Handle`: the tick comes after the
last one handled and before the one the server makes next, both from `PipeInv`. A
pop by the execution thread is a `BeginOrder`: the head of the signal queue is the
earliest decision (`SignalInv`), and taking it out of the queue takes exactly its
place out of the set of decisions, because no two are of one tick
(`OneTickLess`). A signal dropped at a full queue is the latest decision. What a
reconnection, a cut or a spin does is a stutter, and a restart of the server only
makes the next tick later.

`WireDepthMsgV1_proofs` and `MarketDepth_proofs` prove, for every size of a byte
from two values on, every set of clients, every instrument list and sequence of
draws whose prices fit the type, and every capacity and bound (the assumptions
`ByteAssumption`, `NetworkAssumption`, `GeneratorAssumption`,
`ConsumerAssumption`):

| theorem | states |
|---|---|
| `WireRoundTrip` | `Deserialize(Serialize(m)) = AsSeen(m)` for every message `m`, and `Serialize(m)` is a packet |
| `DepthInvariant` | `Spec => []DepthInv` |
| `DepthTypeCorrect` | `Spec => []DepthTypeOK` |
| `SeqTellsLossHolds` | `Spec => []SeqTellsLoss` |
| `DepthFeedImplemented` | `Spec => ImplementsDepthFeed` |
| `InOrderHolds` | `Spec => []InOrder` |
| `RepeatsAreExplainedHolds` | `Spec => []RepeatsAreExplained` |

The round trip rests on one fact about numbers, that a value below `d * e` is
given back by its quotient and its remainder by `d` and that remainders nest
(`Nest`), used once per width: a u16 is two u8, a u32 two u16, a u64 two u32. A
signed value is the same with half of the range shifted. The rest is that writes
at different offsets do not disturb each other. `DepthInv` joins `DepthTypeOK` to
`Numbered` (the k-th message sent has time k and number (k - 1) modulo the width,
and the send queue holds exactly the message of the round) and to
`NothingInvented` (each datagram, buffer and queued message goes back to one that
was sent). With the round trip this makes every step a step or a stutter of
`DepthFeed`, and makes the time stamp of anything a client holds its position in
`sent`, which is `SeqTellsLoss`. `InOrder` is not inductive: a failed `recv` hands
on the buffer, so the buffer has to lie between the queue and the network whether
or not it is about to be pushed. `OrderInv` says so, and is inductive while no
datagram of the client has overtaken another.

`RepeatsAreExplained` speaks of a client's line as it is at one time; the repeats
that have left it are not counted against the doublings and failures that made
them. `RepeatInv` takes a client's whole line (shown, queued, in the
buffer, on the network) and compares its length with the number of different time
stamps in it: the difference stays within the doublings and the failed `recv`s.
A message sent has a stamp that is nowhere in the line yet (`HeardBefore`), so only
its second copy raises the difference; a failed `recv` hands on the buffer once
more and is counted; and what leaves a line takes away at most as many stamps as
entries (`FewerSeen`), so a loss raises nothing.

Only model-checked, and not proved: the liveness properties (`CallReturns`,
`StopExits`, `StopEndsWorkers`, `LostLinkIsResolved`, `QueuedTicksAreHandled`,
`QueuedIsShown`, `ArrivedIsShown`). Fairness and `ENABLED` are out of the prover's
reach, and so is the fairness part of `ImplementsEngine`. Of three of them the
safety half is proved: `CallsEnd`, `StopIsNear` and `ShutdownIsBoundedHolds` say
that no step leads away from the end, and fairness only that there are steps.

## 5. What is not modelled

* **Around the depth feed**: datagrams of other senders, which nothing rejects
  (the checks of type, version and length are commented out in `_deserialize`);
  the receiver's own time stamp, which is only printed; the destructors, which no
  program reaches; a `gen_fn` other than the default.
* **Option pricing**: stateless floating-point formulas.
* **`OptionDepthBook`, `OrderBook.cc`, `Order.cc`**: stubs without behaviour.
* **Configuration reader, errors, logging, thread affinity, benchmark, argument
  parsing of the entry points**: no state that anything here depends on.
* **The memory model.** Flags are release/acquire atomics and the queues are
  external; steps interleave on a sequentially consistent state. Of undefined
  behaviour the model has races on a queue's end, the use of a `p_tcp_client` that
  another thread has reset and of a feed that is destroyed, and the uninitialised
  signal type. A dial is one step: what another session's thread would do with a
  client that is not yet connected is not told apart from what it would do after
  the dial.
* **The Controller after an exception.** It returns, so `work_client` is not
  called again.

## 6. Plan

Done, in this order: the book and its abstract engine, the generator on top of
the book, the client from the socket upwards, the market depth feed from the
bytes upwards with its abstract specification, the theorems about the client's
threads and the order of its ticks, the theorems about the order and the repeats
of the feed, the client's abstract pipeline and its refinement, and bounds on
every loop that has to end.

Left: the parts of the Controller not yet covered, `start_server` beside a client
and an initialisation that fails between two sessions.
