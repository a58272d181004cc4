-------------------------- MODULE RocStrategyProps --------------------------
(* What RocStrategy must do and must never do. *)
EXTENDS RocStrategy
-----------------------------------------------------------------------------
(* Safety. *)

\* t1_'s buy waits on "ok_spotcny_trade" without Trade::lock, so nothing in Trade
\* keeps t2_'s sell from waiting there too and taking its reply.  What keeps them
\* apart is the strategy: it never holds coins when it buys.
ExclusiveReply ==
  \A t, u \in Thread : Waiting(t) /\ Waiting(u) => t = u

\* The strategy buys only when it holds no coins bought earlier, up to the point
\* where it records what it bought.
Buying == pc[Strategy] \in {"buy", "buyWait", "askOrder", "orderWait",
                           "setAsset", "setBtc"}
NeverDoubleUp == Buying => tradingBtc = 0

\* As long as no reply came later than its wait, every order request on its way,
\* every answer to one and every document in "ok_spotcny_trade" is that of the
\* call now waiting: a caller never takes the reply to an earlier request.
TradeIds ==
  { r.id : r \in { q \in wire : q.kind # "info" } }
    \cup { a.id : a \in { b \in answers : b.chan = "trade" } }
    \cup { tradeQ[i].id : i \in DOMAIN tradeQ }
NoStrayReply ==
  late = 0 => \A id \in TradeIds : \E t \in Thread : Waiting(t) /\ call[t].id = id

\* Unless a call gave up without learning what became of its order, the books of
\* the strategy and the account at the exchange agree whenever neither thread is
\* trading: the coins in the account are those of the position and origin_asset,
\* which counts those it had and those that orders cancelled half way left behind.
AtRest ==
  /\ pc[Strategy] \in {"top", "kline", "lock", "buy", "quit", "quitCall"}
  /\ pc[Risk] \notin {"sell", "clearBtc"}
LedgerAgrees ==
  AtRest /\ ~ doubt => acct.btc = tradingBtc + originAsset

\* in_trading without coins, where neither thread can ever trade again, arises in
\* one way only: the stop-loss sells a position that the buy has recorded and not
\* yet announced, and its out_of_trading comes before the buy's in_trading.
StuckOnlyIfOvertaken ==
  status = "in" /\ tradingBtc = 0 =>
    overtaken \/ pc[Risk] \in {"clearAsset", "clearWin", "setOut"}

\* The stop-loss fires only when the strategy thread cleared profit_win between
\* is_full() and get_size(): in every other case the window holds the profit that
\* is compared with its minimum.
StopLossOnlyAfterClear ==
  [][ At2("decide") /\ pc'[Risk] = "lock" => PW!GetSize(profitWin) = 0 ]_vars

\* trade.h:33: the websocket layer guarantees that requests are not lost.  A call
\* that waits for the reply to its request has sent one.
RequestSent == \A t \in Thread : Waiting(t) => call[t].id # NoId

\* roc_strategy.h:239: when quit, we sell all our bitcoin.  Once both threads have
\* ended, and every order's outcome is known, the account holds no more than the
\* coins it had and those of cancelled orders.
QuitSellsAll == Joined /\ ~ doubt => acct.btc <= originAsset

-----------------------------------------------------------------------------
(* Liveness. *)

\* Once main asks the strategy to stop, both threads end and join returns.
StopTerminates == signal = 1 ~> Joined

-----------------------------------------------------------------------------
(* The inductive invariant behind ExclusiveReply, NeverDoubleUp,
   StuckOnlyIfOvertaken and StopLossOnlyAfterClear.                           *)

\* Who holds which lock, and which call each label is in.
InSale(t) == call[t].op \in {"lock", "emit", "sellwait"}
StrategyHolds ==
  pc[Strategy] \in {"sell", "setOut", "clearAsset", "clearBtc", "clearWin"}
RiskHolds ==
  pc[Risk] \in {"loop", "sell", "clearBtc", "clearAsset", "clearWin", "setOut"}
RiskSoldOut == pc[Risk] \in {"clearAsset", "clearWin", "setOut"}

MutexHolder ==
  /\ StrategyHolds <=> mutex = Strategy
  /\ RiskHolds <=> mutex = Risk

CallsInv ==
  /\ InSale(Risk) <=> At2("sell")
  /\ call[Risk].op \in {"idle", "lock", "emit", "sellwait"}
  /\ InSale(Strategy) <=> pc[Strategy] \in {"sell", "quitSell"}
  /\ call[Strategy].op = "buywait" <=> At1("buyWait")
  /\ call[Strategy].op = "order" <=> At1("askOrder")
  /\ call[Strategy].op = "infowait" <=> At1("orderWait")
  /\ pc[Strategy] \in {"askOrder", "orderWait"} => call[Strategy].id \in Id
  /\ pc[Strategy] \in {"setAsset", "setBtc"} => call[Strategy].amount = Lot

\* What status and trading_btc say of each other, and where either thread is
\* between changing one and changing the other.
BooksInv ==
  /\ Buying => tradingBtc = 0 /\ status = "out"
  /\ pc[Strategy] \in {"setIn", "clearAsset", "clearBtc"} => status = "out"
  /\ status = "out" /\ tradingBtc # 0 =>
       pc[Strategy] \in {"setIn", "clearAsset", "clearBtc"}
  /\ pc[Risk] \in {"sell", "clearBtc"} => tradingBtc # 0
  /\ RiskSoldOut => tradingBtc = 0 /\ (status = "in" \/ At1("setIn"))
  /\ At1("setIn") /\ tradingBtc = 0 => overtaken \/ RiskSoldOut
  /\ StuckOnlyIfOvertaken

\* profit_win's counters, and the profit just put among its live slots.
WindowInv ==
  /\ profitWin.full <=> profitWin.size = WinSize
  /\ ~ profitWin.full => profitWin.index = profitWin.size
  /\ pc[Risk] \in {"full", "decide"} /\ profitWin.size # 0 =>
       \E i \in 0 .. profitWin.size - 1 : profitWin.arr[i] = profit

IInv ==
  /\ TypeOK /\ LockHolder /\ MutexHolder /\ CallsInv /\ BooksInv /\ WindowInv
  /\ innerSig = 1 <=> At2("done")
=============================================================================
