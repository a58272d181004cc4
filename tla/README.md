# okcoin_bot: TLA+ models, checks and proofs

The bot trades bitcoin on OKCoin over one WebSocket.  `main` opens the
connection, starts the strategy's three threads, waits for the user to enter 0
and takes everything down again.  The modules here model the parts of that
program in which several threads, a lossy connection and an exchange meet, and the
containers they share; TLC checks them on small instances, and TLAPS proves the central facts for every
value of the constants.  Paths below are relative to `src/`.

Contents: 1 inventory, 2 modules and their correspondence to the code, 3 runs,
bounds and fairness, 4 proofs, 5 findings, 6 what is not modelled, 7 plan.

## 1. Inventory

| component | state | operations | what makes it correct |
|---|---|---|---|
| Trading strategy, `strategy/roc_strategy.h`, `account_status.h` | `signal`, `inner_sig`, `status`, `mutex_`, `trading_btc`, `trading_asset`, `origin_asset`, `profit_win` | threads `run_strategy`, `risk_control`, `query_asset`; `stop`, `join` | it never buys twice, its books agree with the account, it cannot get stuck between in and out of trading, `stop()` ends it |
| Trade, `trade.h` | `s_`, `lock` | `buy`, `buy_at_market`, `sell`, `sell_at_market`, `cancel`, `close_trade_ugly`, the `ok_spotcny_` requests | a caller takes the reply to its own request; a call returns |
| Profit window, `util/window.h`, and `MIN` of `strategy/tech_index.h` | ring `window`, `index`, `valid_size`, `full` | `put`, `clear`, `get`, `get_range`, `is_full`, `get_size` | it holds the last N values; `MIN` over its slots is their minimum |
| Roc indicator, `roc_strategy.h` 260-364, `util/time_window.h` | `window`, `roc_win`, `maroc_win` | `calc_roc_and_maroc`, `cross_for_up`, `stay_for_up`, `cross_for_down` | the three rings stay aligned; verdicts come from closed minutes |
| Message dispatch, the callbacks of `okbot.cpp`, `pipeline.h`, `util/queue.h` | a map of queues; per queue `queue_`, `mutex_`, `cond_` | `cn_callbak_message`, `get_queue`, `push`, `pop`, timed `pop`, `pop_nonblock` | a channel has one queue, its reader gets every element once and in order, no waiter sleeps beside an item |
| Connection, `okcoin_client/websocket.h`, `okcoinwebsocketapi.cpp` | `pWebsocket`, `m_manual_close`, `is_valid`, `m_hdl`, `hThread` | `RunThread`, `run`, `on_open`, `on_fail`, `on_close`, `doclose`, `Close`, `Remove` | it reconnects until it is closed by hand, and a close ends the thread |
| Asset freeze, `strategy/asset_freeze.h` | `signal`, `inner_sig`, `worked` | threads `global_asset_freeze`, `query_asset`; `stop`, `join`; its start is commented out of `main` | a forced exit sells and closes; `stop()` ends it |
| JSON access, `util/json_util.*` | none | `get_node`, `get_value`, `set_value`, `get_data` | a path names one place; a number is read as it was written |
| Parameters and signature, `okcoin_client/parameter.*`, `md5.*`, `string.*` | a list of pairs | sorted, joined, digested | - |
| REST client and mail, logging, dumping, timers, configuration | - | blocking or pure output | - |
| vendored: websocketpp, rapidjson, spdlog, gtest, cpptoml | - | websocketpp is modelled by what the program sees of it | - |

How they interact.  The io thread of the connection calls
`cn_callbak_message`, which pushes each document on the queue of its channel.
Four queues matter: the klines (popped by `run_strategy`), the account
information (popped by `risk_control`, asked for by `query_asset`), the replies
to orders (popped by whichever thread has just sent one) and the order
information.  Requests go the other way, through `Trade::s_`, a raw pointer to
the WebSocket that `RunThread` makes, publishes and deletes.  The two trading
threads also share the atomics and the status, partly under `mutex_`, partly not.

What is hard.  Replies carry nothing that tells whose they are, so a late one,
or two threads waiting at once, would mix them up.  The position is written in
two steps outside `mutex_`.  `profit_win` is read in two calls between which the
other thread may clear it.  Timed waits give up while the exchange may still
act.  The connection can be lost anywhere, and both `doclose` and `on_open` write
one flag.  `PROJECT.json` lists every such hazard with its line and the
properties that cover it.

## 2. Modules

**`Link`** is the connection as Trade meets it: closed (no valid WebSocket),
connecting (`emit` throws), open.  **`Trade`** extends it with the requests on
their way, the exchange, its answers, the two reply queues and the calls into
Trade.  A call is `call[t]`: `sell_at_market` is the sequence `lock`, `emit`,
`sellwait`; `buywait`, `order` and `infowait` are the waits of the buy, which
`run_strategy` makes itself.  Orders and requests carry an id that no thread
reads before the reply tells it; ids are recycled when nothing refers to them.
The exchange handles requests in any order, may refuse any, and fills or cancels
open orders at will.  `doubt` records that a call gave up without knowing what
became of its order, `late` that its reply was still to come.

**`RocStrategy`** extends Trade with the two trading threads, one label of `pc`
for each access to shared state, `query_asset` and the kline feed as arrivals in
their queues, and `stop()`.  The indicator's verdict is a free choice there.
**`RocStrategyProps`** states what must hold and the inductive invariant;
**`MCRocStrategy`** gives TLC its values.

**`TradeCalls`** extends Trade with what the strategy does not call: the four kinds
of order from any thread, each under Trade's lock from its first step to its
return; `cancel`, whose wait has no time-out; and `close_trade_ugly`, which takes no
lock.  Because of that last one an emit is two steps here, the test of `s_` and its
use.  **`AssetFreeze`** composes it with the two threads of `asset_freeze.h` and with
other threads that make any of the calls.  `global_asset_freeze` has one label per
access to shared state; `worked`, which nobody reads, is left out.  `on_open` is two
steps, the connection and `m_manual_close = false`: a `doclose` between them is taken
back, and `RunThread` reconnects and publishes the new WebSocket.  A document with
account information is the number of coins it says can be sold, 0 when the account is
not below its target.  `dead` records an exception that left its thread or a null
pointer used, after which the program takes no step.

**`Pipeline`** is the way from the callback to the readers.  A document is the list
of the channels its elements name.  `get_queue` is three steps: the look at the map
under the lock, the insertion, and the second look after the lock; that look is a
data race while another thread inserts, and then either finds the queue or ends
the program.  Readers come in the three kinds the code has: loops over the elements
(klines, trade replies), `get_data`, which takes the first of its channel (account
information), and element 0, whatever it is (order information).  **`MCPipeline`**
has one channel of each kind and documents that tell them apart.  Elsewhere a
document has one element: `ReadsAsSent` is the case for that.

**`Window`** and **`TimeWindow`** are the two ring buffers as operators on records, one
per method: each method holds the window's own lock throughout, so a call is one
step of its caller.  (Their `is_full` and `get_size` are `const` and lock a mutex
that is not `mutable`, which a compiler rejects once they are instantiated; they
are modelled as what they are meant to be.)  **`WindowSpec`** is a Window under every
sequence of calls, **`Recent`** the abstract specification it implements: the
last N values.  **`TechIndex`** has `MIN` over doubles that may be NaN twice: `IsMIN`, by
what its result is, and `LoopMIN`, by what its loop does; the trading model uses the
first.

**`JsonPath`** has `get_node`, `get_value` and `set_value`: a path is a sequence of steps, a
key and an index that may be missing, and a number is kept with its type (whole,
double, quoted) so that what each getter refuses, widens or cuts off shows.  `Walk` is
the nodes get_node comes by, `Renewed` the same nodes after a value has been put at the
end of the path.
**`MCData`** runs WindowSpec and JsonPath for TLC, one or the other in a behaviour.

**`Indicator`** is `calc_roc_and_maroc` over three TimeWindows and the three
verdicts.  A step is one turn of the loop over the klines of a document, `left` is how
many are to come, and `run_strategy` looks at the result when none is; no other thread
uses these windows.  A ROC is a whole percentage, a MAROC the sum rather than the mean.
Its history `bars` is the list of minutes, from which the properties define the
indicator anew; `fresh` and `last` tell what the klines of the document were.

**`Queue`** is `util/queue.h` with its mutex, condition variable, spurious
wakeups and deadlines: the code between taking and releasing `mutex_` is one
step, and `notify_one` after the unlock another.  **`AtomicQueue`** is what Trade and
RocStrategy use in its place; `ImplementsAtomic` shows the substitution right,
liveness included.

**`Connection`** is `RunThread` and the life of one WebSocket after another
against main: its input, where 3 unsubscribes and falls through to 0, and its two
calls of `Close()`.  Every write of `m_manual_close`,
`is_valid` and `m_hdl` is a step of its own.  `ImplementsLink` shows that Trade's
three-state link is what this thread provides: `link` is closed until the
WebSocket is published, once it is not valid, and when it is deleted.

So the two simplifications the trading model rests on, the atomic queue and the
three-state link, are each checked against the code they simplify.  `"map"` in
`PROJECT.json` names the lines of every definition.  Definitions commented
*Mutant* are variants of the next one with a plausible bug; they take no part in
any specification and show that the properties can fail.

## 3. Runs

| run | what it asks | distinct states |
|---|---|---|
| safety | both threads, the exchange, one lost connection, a stop-loss that is tried again: replies are the caller's own, the books agree, the stop-loss fires only on an emptied window; the inductive invariant | 2.34 million |
| late | no losses, one reply comes after its wait timed out: waits stay exclusive, no second buy, the status can stick in one way only, even when a stranger's reply was taken | 895 thousand |
| live | `stop()` ends both threads, when the connection is lost meanwhile too | 300 thousand |
| pipeline | two documents of up to two elements, three kinds of readers: one queue per channel, what each reader gets, and that the race on the map ends with the first use of each channel | 170 thousand |
| freeze | the asset freeze and one other thread over Trade, one lost connection, two tries: a reply is that of the caller who waits, calls return, `stop()` ends the threads, a forced exit closes the connection, and nothing trades after that | 198 thousand |
| data | a window of four over three numbers and NaN: implements `Recent`; `MIN`; a document with an array, an object and three kinds of scalars under every `set_value` | 4473 |
| queue | two producers, two consumers, two kinds of item: no lost wakeup, implements `AtomicQueue` with its fairness | 17100 |
| connection | the thread against input and `Close()`: reconnects, closes, implements `Link`, the API object outlives the thread | 606 |
| indicator | every list of klines over seven minutes and three prices, in documents of up to two: what the windows hold, which minutes the verdicts read, what counts as updated | 180 thousand |
| request_sent, quit_sells_all, closed_for_good | the three findings | counterexamples |

What the hardest properties say.  `ReadsAsSent`: as long as documents name a channel
once, its reader gets every element once and in order, order information only from
documents that begin with it; its premise is needed, since a document that names a
channel twice is pushed twice and read twice.  `OwnReply`: for any callers, Trade's
lock alone keeps replies apart, where RocStrategy, whose buy takes no lock, needs
`NeverDoubleUp` for it.  `CallsReturn` and `StopEnds` name the only waits that do not
end: a `cancel` whose request or reply was lost, which keeps the lock, and a freeze
thread that has closed the connection and waits for a document nobody can ask for.
`ExitCloses`: a forced exit on an open connection closes it, unless a thread uses `s_`
just as it becomes null.  `ExitIsFinal`: once that close is there to stay, which it is
when `on_open` has passed, no thread gets a request out any more, whatever call it
is in the middle of; only orders the exchange has already can still be filled.  A close
that meets `on_open` is taken back as in finding 3.  `SameNumber`: a number is read as it
stands in the document through every type, but for a quoted fraction read as a
whole number, which is cut off without an error.

Bounds, each a constant named in a guard:

- `IdLimit`: orders and requests live at once.  Ids are recycled, so it does not
  bound how many orders a behaviour places: the runs go round the trading cycle
  for ever.
- `MaxDrop`, `MaxLate`: losses, and waits that gave up with the answer under way.
  One of each reaches every effect on a later call; two at once only compound.
- `WinSize` (2 in safety, 1 elsewhere), `Profit` (-2, 0): with two slots the window
  holds an older profit beside the one compared, and is full or not.  Longer ones are
  left to the data run (four slots) and to the proofs, which hold for any size.  -2
  lies below the -1 that `MIN` returns of nothing, 0 above it.
- `MaxRetry` for the 500 tries of the stop-loss and of the freeze; the guard is
  `retry < MaxRetry` and counting begins at 1, so 2 gives one try (late, live) and 3 a
  retry (safety, freeze).  A further try goes through the states of the one before.
- `MaxDocs` (2) and `MCDocument`: two documents are what is needed for an order
  between them and for a queue that exists before it is asked for.
- The freeze run has one thread beside the freeze's and one coin: the lock, the reply
  queue and `s_` are each contended by two.
- `MaxInt` lies between the numbers of the data run, so that one of them does not fit
  an int; paths go up to the first index that is not there.
- `MaxKline`, `MaxInfo`: documents waiting in a feed.  More than one changes
  nothing: what they say is a free choice when they are popped.
- `Lot`, `Part`, `Origin`, `Cash`: amounts are whole and exact, prices are left
  out.  Two coins per order and one per cancelled order tell full, partial and no
  deal apart; `Origin` stands for the 0.0004 of `origin_asset`.  Where the ledger
  is not at stake the runs use 1 and 0.
- `MaxLen` of a queue: two items and two waiters are the least at which the
  wrong waiter can be woken.
- `COUNT`, `AVG_NUM`, `Capacity` (2, 2, 3 for 12, 6, 720): three elements are
  what the verdicts read, and in seven minutes each of the three rings wraps.

Fairness.  RocStrategy: both threads are scheduled and each of their waits is
timed or on a feed that is served; the exchange answers what reaches it (weak);
the thread reconnects (weak); klines come as long as the connection keeps being
open, and a handshake tried again and again succeeds (strong, since either can
be interrupted).  `FillOrder` and `CancelOrder` are not fair: an order may stay
open for ever.  Queue: weak on the steps of a thread that can run; strong on the
deadline, because `wait_until` takes a point in time computed on entry that no
number of wakeups postpones.  Pipeline: weak on the callback and on each reader; the
lock is kept over a step only to insert, once per channel, so a wait for it ends.
AssetFreeze: strong on the threads that take Trade's lock, which goes round among
them and which no holder keeps but a stuck `cancel`, named in the property;
strong on the handshake and on `query_asset`, whose look at `s_` meets a connection that
comes and goes; weak on the exchange and the reconnection taken together.  Connection: weak on both threads and on the close
handshake, which websocketpp times out; strong on the handshake.

Deadlock is checked in every run but pipeline and freeze; a program that has ended
stutters by an action of its own (`Terminated`).  In those two the system really
stops: when the program has died of the race or of a missing member, when the
bounded input is used up, and when the freeze has closed the connection and
every thread waits.

## 4. Proofs

Each theorem holds for all values of the constants that the named assumptions of
its modules allow; TLC evaluates these in the runs.  Every proof has one step or
lemma per action, and frame lemmas for what an action leaves alone.

**RocStrategyProofs** (on lemmas of `TradeProofs`; `TradeAssumption`,
`RocStrategyAssumption`): *Invariance*, `Spec => []IInv`, and from it *TypeCorrect*,
*RepliesExclusive*, *BuysOnce*, *StuckTheOneWay* and the action property
*StopLossNeedsClear*.  The properties are not inductive; `IInv` adds
- who holds `mutex_` and Trade's lock at which label (`MutexHolder`, `LockHolder`)
  and which call each label is in (`CallsInv`);
- `BooksInv`: while the strategy buys it holds no coins and is out of trading;
  the two disagree only between the assignments named there; the stop-loss sells
  only coins that are held, and after it has sold, either the status is still in
  trading or the strategy stands before its last assignment;
- `WindowInv`: the window's counters agree, and the profit just put is in a live
  slot, unless the window has been cleared.

Exclusive waiting then follows: a stop-loss waiting means coins held, a buy
waiting means none, and two sales exclude each other by Trade's lock.  The
stop-loss theorem follows because a profit among the live slots is not below
their minimum.

**RepliesOwn**, in both RocStrategyProofs and AssetFreezeProofs, on the second half of
`TradeProofs`: while no reply has come after its wait (`late = 0`), the reply on the
queue is that of the order whose sender waits.  Both rest on one stronger fact, `Owned`:
of all requests for orders on the wire, replies on their way and replies on the queue
there is at most one, and its id belongs to a thread that waits.  TradeProofs shows how
each step of Trade and of the exchange moves that one order; the two compositions
only show that nobody else waits when a wait begins.  RocStrategy has that from
`ExclusiveReply`, because its buy takes no lock (*OwnInvariance* is the invariant on its
own); **AssetFreezeProofs** (`TradeAssumption`, `FreezeAssumption`), where every caller
takes Trade's lock, has it from `LockHolder`, for any number of threads.  Its
*TypeCorrect* needs that the freeze counts a failed try only below `MaxRetry`, and that
`inner_sig` is set exactly when it is done.  *ExitFinal*, `Spec => ExitIsFinal`, rests on
`Closed`: a connection closed by hand is down and has no request, reply or cancel under
way.  A caller that has tested `s_` before the close still emits, but on a connection
that is down (`CallFinal`); the exchange has nothing left to accept, and `RunThread`
returns (`ServiceFinal`).

The last part of RocStrategyProofs: *BooksAgree*, `Spec => []LedgerAgrees`: while
neither thread is between a request and the assignments that record it, `trading_btc`
and `origin_asset` are together what the account holds.  That is true because between
two such moments there is one order, which is in one place at a time.  *CoinsCounted*
states it, as `LedgerInv`, for every label and every place:
- on the wire or refused, the order has moved nothing (`acct.btc = Kept`);
- accepted, a buy has brought `Dealt`: nothing while open, `Part` if cancelled, else
  `Lot`; a sale has left `originAsset`.  The reply says which, from the step in which
  the exchange sends it to the one in which a thread pops it (`Settles`);
- asked about, there is one question or one answer to it, and the answer is still
  true when it is read: a final status does not change any more (`QuestionInv`);
- between two assignments of the books, the account is ahead of them by what the next
  assignment records.

It holds as long as no call has given up on an order (`doubt`) and the final sale, which
takes no `mutex_`, has not begun (`Known`); `LedgerAgrees` claims nothing otherwise.
The invariants above it are what it rests on: whose the one order is (`WaitersOwn`),
and that a buy and a stop-loss do not overlap (`BooksInv`).

**PipelineProofs** (`PipelineAssumption`): *OneQueuePerChannel*, `Spec => []Consistent`, for
any documents, channels and readers.  `Consistent` is inductive as it
stands: only the holder of the lock is at the insertion and its channel is not in
the map, each queue made has one channel, so counting the channels gives the
index of the next queue.  *RaceNeedsNewChannel*, the action property
`RaceOnlyOnFirstUse`, follows from it: a step that looks at the map during an insertion
has some thread at that insertion, whose channel is not in the map.

*ReadInOrder*, `Spec => []ReadsAsSent`, adds an `Account` of every channel whose documents
name it once: what the documents received hold for its reader (`Told`) is what it has
read, then what the documents on its queue hold for it, then what the running callback is
still to push (`Pending`).  That both sides mean the same queue is `Consistent`.  `Told`
joins lists by recursion; the account carries along that this recursion has one value
(`Unfolds`), which grows by the element of each document received.

**DataProofs** (`NAssumption`, `ValueAssumption`, `NaNAssumption`, `JsonAssumption`), the
containers.  For the window: *SlotsLive*, `[]LiveSlots`, which is inductive;
*KeepsLastN*, the whole refinement `Spec => ImplementsRecent` for a window of any
size; and *RangeHoldsContents*.  The step of a put is split by whether the window was
full: the contents then grow by one at the end, or lose their first as well; the index
arithmetic modulo N is one lemma.  `get_range` reads the slots in the order of the
array, the contents are in the order of the calls: the two are the same sequence
turned by `index`, and a bijection between positions keeps every count.

The other theorems are about loops and recursion over data, and go by induction.  The
provers cannot use the library's induction theorems, whose parameter is an operator.
*Induction* says it of a set of numbers instead, "a set that holds 0 and the successor of
each of its members is all of Nat", so that a predicate becomes a set in the proof that
uses it.  It follows from *LeastNumber*, and that from the library's
well-founded order of finite sets, applied to the intervals from 1.  With it,
- *MINIsLeast*, `Spec => []MINIsTheLoop`: the loop has a candidate after every element
  (`MinDefined`), which is NaN if the first is, else the least so far (`Smallest`); two
  numbers neither of which is less are one, so nothing else satisfies `IsMIN`
  (`MINOfAny`);
- *SetsInPlace*, `JsonSpec => SetIsLocal`, for any document and paths of any length.
  `Walks` and `Renews` unfold the two recursions.  A path that leads somewhere meets an
  object at each of its nodes (`LeadsSomewhere`), so a value put at the end of a step is
  what that step then leads to, and a step that parts from it leads where it led
  (`ChildPut`).  Along the path each node is the renewed one (`AlongPath`); a path that
  parts from it does so at one step, and goes through the same nodes as before from there
  (`OffPath`);
- *ReadsTheNumber*, `JsonSpec => []SameNumber`, by cases on the types, needs no induction:
  it holds of any node whatever.

**ConnectionProofs**: *TypeCorrect*, *ThreadEndsFirst* and *LinkImplemented*, the whole
refinement `Spec => ImplementsLink`.  The invariant relates the label of the thread to
the WebSocket it means (`Handshake`: it is deleted exactly between the deletion and the
next `new`, `m_hdl` names the connection once `on_open` has begun), main's to the one
it has called (`Doclose`), and a joined thread to its end (`Joins`).  The Link
opens when `on_open` writes `m_hdl`, falls back to connecting when that connection is
lost, and closes with the write of `is_valid` in `doclose` or with the deletion, whichever
is first; every other step of the three parties maps to a step of it or to none.

**IndicatorProofs** (`IndicatorAssumption`): *WindowsAligned*, *DecidesOnClosedMinutes*,
*UpdatedIsLast* and *TypeCorrect*, for windows of any size and any number of minutes.
One predicate carries them: `Shows(w, n, m, s)`, the ring `w` of `n` places has been put the
list `s` of `m` elements and holds the last `n`.  A put keeps it in each of its three
cases (`PutFollows`), and these are the three things a kline can be to the list of minutes:
a new one, the running one, one gone by.  So `IInv` only says that the three rings show
the minutes, their ROCs and their MAROCs, each list beginning as many minutes later as the
one before needs.  What a step may change of those lists depends on no minute but the
newest (`ROCAlike`, `MAROCAlike`), which is why index 1 and 2 are closed.

**QueueProofs** (`QueueAssumption`): *WakeupsKept*, that no wakeup is lost, and *AtomicSteps*, that every
step is one of the atomic queue or invisible, for any number of producers and
consumers, and *TypeCorrect*.  The invariant counts: while somebody waits, there are at most as many
items as wakeups given or owed; the proof adds and removes one element of a
finite set per action.

Only model-checked: all liveness (`StopTerminates`, `EventuallyRead`, `CallsReturn`,
`StopEnds`, `ExitCloses`, `Reconnects`, `CloseReturns`, `CleanClose`) and the fairness half of
`ImplementsAtomic`, because the prover does not know ENABLED.  Every invariant and every
action property of a passing run is a theorem.  `MAROC` is some function of the values in
the proofs: that it is their sum, TLC alone evaluates.

## 5. Findings

1. `request_sent`: `trade.h:173`.  A request on a connection that is down is
   skipped and reported as sent, and `sell_at_market` waits ten seconds for the
   reply, with Trade's lock held.  `trade.h:33` says requests are not lost.
2. `quit_sells_all`: `roc_strategy.h:242`.  The last sale is tried once and its
   result ignored, so coins can remain, against the comment of line 239.
3. `closed_for_good`: `websocket.h:153`.  `on_open` can take back the manual
   close that main is in the middle of; the connection is then made again and
   main waits in `join` for ever.

Two further things the checks pin down without calling them findings:
`StuckOnlyIfOvertaken` names the one order of steps after which neither thread
trades any more (a stop-loss between `trading_btc =` and `set_status` of a buy),
and `StopLossOnlyAfterClear` that the stop-loss, comparing a profit with the
minimum of a window that contains it, never fires on a full window.

## 6. Not modelled

- The use of a WebSocket after `RunThread` has deleted it, by a thread inside
  Trade: the request then goes unsent or fails.  In `Connection` the same use by
  main may also end the program.  A later `set_websocket` that comes between a
  test and a use of `s_` is the same case.
- Exceptions of `start()`; JSON that does not parse or has the wrong shape, but for
  an element without "channel".
- `get_res_by_channel`, `Window::update` (its guard is inverted), `TimeWindow::update` and
  `clear`, `AssetFreeze::reset`, which nothing calls; `calc_s_roc`, which is empty;
  a second call of `stop()`, which `main` does not make.
- Rounding: `double` amounts are exact, ROCs whole.
- How old a kline is when its verdict is taken: the queue of klines grows while
  `run_strategy` waits for replies.
- Parameters and signature: `parameter.cpp`, `md5.cpp` and `string.cpp` fill, sort and
  digest a local object inside one call.  No state outlives it.
- The REST client, mail, logging, dumping, timers, configuration: blocking I/O or
  output on which the trading does not depend.
- Vendored code (websocketpp, rapidjson, spdlog, gtest, cpptoml), more than nine
  tenths of the repository's lines; websocketpp and rapidjson are modelled by what
  the program sees of them.

## 7. Plan

Written in this order: Window, Trade, RocStrategy with its proofs, Queue with its
proofs, Link and Connection, Indicator, Pipeline, TradeCalls and AssetFreeze,
JsonPath.  Of the program's own code that acts on shared state nothing
large is left, and of what the passing runs check, liveness alone has no theorem.

What would come next is a proof of liveness, by a prover that knows ENABLED: for
`ExitCloses`, that each label from the sale to `doclose` leads to the next one; for
`ImplementsAtomic`, that the steps of a waiter that has been notified lead to the pop.
