---------------------------- MODULE RocStrategy ----------------------------
(* The trading strategy (strategy/roc_strategy.h) over Trade: run_strategy on
   thread t1_, risk_control on t2_, query_asset on t3_, and main, which stops
   them.  A label of pc is a point between two accesses to what the threads
   share: AccountStatus, the atomics, profit_win, mutex_, Trade and the queues. *)
EXTENDS Trade

CONSTANTS
  Strategy, Risk,      \* the threads t1_ and t2_
  WinSize,             \* capacity of profit_win
  Profit, NaN,         \* the profits risk_control may compute; 0/0
  MaxRetry,            \* bound of its sell loop
  MaxKline, MaxInfo,   \* bounds: documents waiting in each of the two feeds
  Junk                 \* contents of the uninitialised profit_win

PW   == INSTANCE Window WITH N <- WinSize
Tech == INSTANCE TechIndex

ASSUME RocStrategyAssumption ==
  /\ Thread = {Strategy, Risk} /\ Strategy # Risk
  /\ WinSize \in Nat \ {0} /\ MaxRetry \in Nat /\ MaxKline \in Nat /\ MaxInfo \in Nat
  /\ Profit \subseteq Int /\ NaN \notin Int /\ Junk \notin Profit \cup {NaN}

VARIABLES
  pc,            \* where each thread is
  signal,        \* set by main's stop()
  innerSig,      \* inner_sig: risk_control has ended
  status,        \* AccountStatus::status
  mutex,         \* mutex_
  tradingBtc, tradingAsset, originAsset,
  profitWin,     \* profit_win
  profit,        \* risk_control's local, Junk after its last use
  retry,         \* the counter of its sell loop, 0 outside
  klines,        \* documents in the kline queue
  infos,         \* documents in queue "ok_spotcny_userinfo"
  overtaken      \* history: a stop-loss closed a position not yet announced

books == <<status, tradingBtc, tradingAsset, originAsset, profitWin>>
feeds == <<klines, infos>>
locals == <<profit, retry, overtaken>>
botVars == <<signal, innerSig, mutex, books, feeds, locals>>
vars == <<tradeVars, pc, botVars>>

StrategyLabel ==
  {"top", "kline", "lock", "sell", "setOut", "clearAsset", "clearBtc", "clearWin",
   "buy", "buyWait", "askOrder", "orderWait", "setAsset", "setBtc", "setIn",
   "quit", "quitCall", "quitSell", "done"}
RiskLabel ==
  {"top", "info", "calc", "put", "full", "decide", "lock", "loop", "sell",
   "clearBtc", "clearAsset", "clearWin", "setOut", "done"}

Returned == Profit \cup {NaN}

BotTypeOK ==
  /\ pc \in [Thread -> StrategyLabel \cup RiskLabel]
  /\ pc[Strategy] \in StrategyLabel /\ pc[Risk] \in RiskLabel
  /\ signal \in 0 .. 1 /\ innerSig \in 0 .. 1
  /\ status \in {"in", "out"} /\ mutex \in Thread \cup {NoThread}
  /\ tradingBtc \in {0, Lot} /\ tradingAsset \in {0, Lot} /\ originAsset \in Nat
  /\ profitWin \in PW!Window(Returned \cup {Junk})
  /\ profit \in Returned \cup {Junk} /\ retry \in Nat
  /\ klines \in 0 .. MaxKline /\ infos \in 0 .. MaxInfo
  /\ overtaken \in BOOLEAN

TypeOK == TradeTypeOK /\ BotTypeOK

Init ==
  /\ TradeInit
  /\ pc = [t \in Thread |-> "top"]
  /\ signal = 0 /\ innerSig = 0 /\ status = "out" /\ mutex = NoThread
  /\ tradingBtc = 0 /\ tradingAsset = 0 /\ originAsset = Origin
  /\ profitWin = PW!New(Junk) /\ profit = Junk /\ retry = 0
  /\ klines = 0 /\ infos = 0 /\ overtaken = FALSE

At1(l) == pc[Strategy] = l
Go1(l) == pc' = [pc EXCEPT ![Strategy] = l]
At2(l) == pc[Risk] = l
Go2(l) == pc' = [pc EXCEPT ![Risk] = l]
-----------------------------------------------------------------------------
(* t1_: run_strategy.  Each pass pops a kline document and lets the indicator
   say nothing, buy or sell.                                                  *)
StrategyTop ==
  /\ At1("top") /\ Go1(IF signal = 0 THEN "kline" ELSE "quit")
  /\ UNCHANGED <<tradeVars, botVars>>

\* Mutant: buys whatever the status.
StrategyKlineAny ==
  /\ At1("kline") /\ klines > 0 /\ klines' = klines - 1
  /\ Go1("top") \/ Go1("buy") \/ (status = "in" /\ Go1("lock"))
  /\ UNCHANGED <<tradeVars, signal, innerSig, mutex, books, infos, locals>>

StrategyKline ==
  /\ At1("kline") /\ klines > 0 /\ klines' = klines - 1
  /\ \/ Go1("top")
     \/ status = "in" /\ Go1("lock")
     \/ status = "out" /\ Go1("buy")
  /\ UNCHANGED <<tradeVars, signal, innerSig, mutex, books, infos, locals>>

StrategyLock ==
  /\ At1("lock") /\ mutex = NoThread
  /\ \/ /\ tradingBtc > 0 /\ mutex' = Strategy /\ Go1("sell")
        /\ SellAtMarket(Strategy, tradingBtc)
     \/ tradingBtc = 0 /\ Go1("top") /\ UNCHANGED <<mutex, call>>
  /\ UNCHANGED <<noCallVars, signal, innerSig, books, feeds, locals>>

\* The steps inside sell_at_market, of whichever thread is in it.
SellStep(t) ==
  /\ AcquireTradeLock(t) \/ SendSell(t)
  /\ UNCHANGED <<pc, botVars>>

StrategySold ==
  /\ At1("sell")
  /\ \E ret \in {0, -1} :
       /\ SellReturns(Strategy, ret)
       /\ IF ret = 0 THEN Go1("setOut") /\ UNCHANGED mutex
                     ELSE Go1("top") /\ mutex' = NoThread
  /\ UNCHANGED <<signal, innerSig, books, feeds, locals>>

\* Mutant: set_status is forgotten.
StrategyStaysIn ==
  /\ At1("setOut") /\ Go1("clearAsset")
  /\ UNCHANGED <<tradeVars, botVars>>

StrategySetOut ==
  /\ At1("setOut") /\ Go1("clearAsset") /\ status' = "out"
  /\ UNCHANGED <<tradeVars, signal, innerSig, mutex, tradingBtc, tradingAsset,
                 originAsset, profitWin, feeds, locals>>

StrategyClearAsset ==
  /\ At1("clearAsset") /\ Go1("clearBtc") /\ tradingAsset' = 0
  /\ UNCHANGED <<tradeVars, signal, innerSig, mutex, status, tradingBtc,
                 originAsset, profitWin, feeds, locals>>

\* Mutant: trading_btc is not reset after the sale.
StrategyKeepsBtc ==
  /\ At1("clearBtc") /\ Go1("clearWin")
  /\ UNCHANGED <<tradeVars, botVars>>

StrategyClearBtc ==
  /\ At1("clearBtc") /\ Go1("clearWin") /\ tradingBtc' = 0
  /\ UNCHANGED <<tradeVars, signal, innerSig, mutex, status, tradingAsset,
                 originAsset, profitWin, feeds, locals>>

StrategyClearWin ==
  /\ At1("clearWin") /\ Go1("top")
  /\ profitWin' = PW!Clear(profitWin) /\ mutex' = NoThread
  /\ UNCHANGED <<tradeVars, signal, innerSig, status, tradingBtc, tradingAsset,
                 originAsset, feeds, locals>>

\* The buy takes neither Trade::lock nor mutex_.
StrategyBuy ==
  /\ At1("buy")
  /\ \E ret \in {0, -1}, id \in Id \cup {NoId} :
       /\ OkSpotcnyTrade("buy", 0, id, ret)
       /\ IF ret = 0
          THEN Go1("buyWait") /\ SetCall(Strategy, "buywait", id, 0)
          ELSE Go1("top") /\ UNCHANGED call
  /\ UNCHANGED <<conn, drops, late, tlock, answers, tradeQ, orderQ, open, acct, doubt,
                 botVars>>

StrategyBuyAnswered ==
  /\ At1("buyWait")
  /\ \E reply \in TradeReply :
       /\ PopTrade(reply)
       /\ IF reply.result
          THEN Go1("askOrder") /\ SetCall(Strategy, "order", reply.id, 0)
          ELSE Go1("top") /\ EndCall(Strategy)
  /\ UNCHANGED <<conn, drops, late, tlock, wire, answers, orderQ, open, cancelled, acct,
                 doubt, botVars>>

StrategyBuyTimedOut ==
  /\ At1("buyWait") /\ TimedOut(Strategy, tradeQ)
  /\ Go1("top") /\ EndCall(Strategy)
  /\ UNCHANGED <<conn, drops, tlock, wire, answers, tradeQ, orderQ, open, cancelled,
                 acct, botVars>>

StrategyAskOrder ==
  /\ At1("askOrder")
  /\ \E ret \in {0, -1} :
       /\ OkSpotcnyOrderinfo(call[Strategy].id, ret)
       /\ IF ret = 0
          THEN /\ Go1("orderWait") /\ UNCHANGED doubt
               /\ SetCall(Strategy, "infowait", call[Strategy].id, 0)
          ELSE /\ Go1("top") /\ doubt' = TRUE
               /\ EndCall(Strategy)
  /\ UNCHANGED <<conn, drops, late, tlock, answers, tradeQ, orderQ, open, cancelled,
                 acct, botVars>>

\* status 2: dealt in full; -1: cancelled, what was dealt joins origin_asset;
\* any other status, or a document without one, is logged and forgotten.  The
\* local deal_amount is kept as the amount of the finished call.
StrategyOrderAnswered ==
  /\ At1("orderWait") /\ orderQ # <<>> /\ orderQ' = Tail(orderQ)
  /\ LET info == Head(orderQ) IN
       \/ /\ info.status = 2 /\ Go1("setAsset") /\ UNCHANGED <<originAsset, doubt>>
          /\ SetCall(Strategy, "idle", NoId, info.deal)
       \/ /\ info.status = -1 /\ Go1("top") /\ UNCHANGED doubt
          /\ originAsset' = originAsset + info.deal
          /\ EndCall(Strategy)
       \/ /\ info.status \notin {2, -1} /\ Go1("top") /\ UNCHANGED originAsset
          /\ doubt' = TRUE /\ EndCall(Strategy)
  /\ UNCHANGED <<conn, drops, late, tlock, wire, answers, tradeQ, open, cancelled, acct,
                 signal, innerSig, mutex, status, tradingBtc, tradingAsset,
                 profitWin, feeds, locals>>

StrategyOrderTimedOut ==
  /\ At1("orderWait") /\ TimedOut(Strategy, orderQ)
  /\ Go1("top") /\ EndCall(Strategy)
  /\ UNCHANGED <<conn, drops, tlock, wire, answers, tradeQ, orderQ, open, cancelled,
                 acct, botVars>>

\* The price is not modelled: an amount of coins costs as much in cash.
StrategySetAsset ==
  /\ At1("setAsset") /\ Go1("setBtc") /\ tradingAsset' = call[Strategy].amount
  /\ UNCHANGED <<tradeVars, signal, innerSig, mutex, status, tradingBtc,
                 originAsset, profitWin, feeds, locals>>

StrategySetBtc ==
  /\ At1("setBtc") /\ Go1("setIn") /\ tradingBtc' = call[Strategy].amount
  /\ EndCall(Strategy)
  /\ UNCHANGED <<noCallVars, signal, innerSig, mutex, status, tradingAsset,
                 originAsset, profitWin, feeds, locals>>

\* Mutant: the buy is recorded and not announced.
StrategyStaysOut ==
  /\ At1("setIn") /\ Go1("top")
  /\ UNCHANGED <<tradeVars, botVars>>

StrategySetIn ==
  /\ At1("setIn") /\ Go1("top") /\ status' = "in"
  /\ UNCHANGED <<tradeVars, signal, innerSig, mutex, tradingBtc, tradingAsset,
                 originAsset, profitWin, feeds, locals>>

\* After the loop: the sale that takes no mutex_ and ignores its result.
StrategyQuit ==
  /\ At1("quit") /\ Go1(IF tradingBtc > 0 THEN "quitCall" ELSE "done")
  /\ UNCHANGED <<tradeVars, botVars>>

StrategyQuitCall ==
  /\ At1("quitCall")
  /\ \/ tradingBtc > 0 /\ Go1("quitSell") /\ SellAtMarket(Strategy, tradingBtc)
     \/ tradingBtc = 0 /\ Go1("done") /\ UNCHANGED call
  /\ UNCHANGED <<noCallVars, botVars>>

StrategyQuitSold ==
  /\ At1("quitSell") /\ Go1("done")
  /\ \E ret \in {0, -1} : SellReturns(Strategy, ret)
  /\ UNCHANGED <<botVars>>

RunStrategy ==
  \/ StrategyTop \/ StrategyKline \/ StrategyLock \/ SellStep(Strategy)
  \/ StrategySold \/ StrategySetOut \/ StrategyClearAsset \/ StrategyClearBtc
  \/ StrategyClearWin \/ StrategyBuy \/ StrategyBuyAnswered \/ StrategyBuyTimedOut
  \/ StrategyAskOrder \/ StrategyOrderAnswered \/ StrategyOrderTimedOut
  \/ StrategySetAsset \/ StrategySetBtc \/ StrategySetIn
  \/ StrategyQuit \/ StrategyQuitCall \/ StrategyQuitSold
-----------------------------------------------------------------------------
(* t2_: risk_control. *)
RiskTop ==
  /\ At2("top")
  /\ \/ signal = 0 /\ Go2("info") /\ UNCHANGED innerSig
     \/ signal = 1 /\ Go2("done") /\ innerSig' = innerSig + 1
  /\ UNCHANGED <<tradeVars, signal, mutex, books, feeds, locals>>

\* A document without the two amounts is logged and forgotten.
RiskInfo ==
  /\ At2("info") /\ infos > 0 /\ infos' = infos - 1
  /\ Go2("top") \/ (status = "in" /\ Go2("calc"))
  /\ UNCHANGED <<tradeVars, signal, innerSig, mutex, books, klines, locals>>

\* (current_asset - trading_asset) / trading_asset * 100
RiskCalc ==
  /\ At2("calc") /\ Go2("put")
  /\ \/ profit' \in Profit
     \/ tradingAsset = 0 /\ profit' = NaN
  /\ UNCHANGED <<tradeVars, signal, innerSig, mutex, books, feeds, retry, overtaken>>

RiskPut ==
  /\ At2("put") /\ Go2("full") /\ profitWin' = PW!Put(profitWin, profit)
  /\ UNCHANGED <<tradeVars, signal, innerSig, mutex, status, tradingBtc,
                 tradingAsset, originAsset, feeds, locals>>

RiskFull ==
  /\ At2("full")
  /\ \/ PW!IsFull(profitWin) /\ Go2("decide") /\ UNCHANGED profit
     \/ ~ PW!IsFull(profitWin) /\ Go2("top") /\ profit' = Junk
  /\ UNCHANGED <<tradeVars, signal, innerSig, mutex, books, feeds, retry, overtaken>>

\* Mutant: profit <= security.
AtOrBelowSecurity ==
  \E security \in Profit \cup {NaN, -1} :
    /\ Tech!IsMIN(security,
                  PW!GetRange(profitWin, 0, PW!GetSize(profitWin)))
    /\ profit = security \/ Tech!Less(profit, security)

\* profit < security, where security = MIN(get_range(0, get_size())).
BelowSecurity ==
  \E security \in Profit \cup {NaN, -1} :
    /\ Tech!IsMIN(security,
                  PW!GetRange(profitWin, 0, PW!GetSize(profitWin)))
    /\ Tech!Less(profit, security)

RiskDecide ==
  /\ At2("decide") /\ Go2(IF BelowSecurity THEN "lock" ELSE "top") /\ profit' = Junk
  /\ UNCHANGED <<tradeVars, signal, innerSig, mutex, books, feeds, retry, overtaken>>

\* Mutant: mutex_ is not waited for.
RiskLockless ==
  /\ At2("lock")
  /\ Go2("loop") /\ mutex' = Risk /\ retry' = 1
  /\ UNCHANGED <<tradeVars, signal, innerSig, books, feeds, profit, overtaken>>

RiskLock ==
  /\ At2("lock") /\ mutex = NoThread
  /\ Go2("loop") /\ mutex' = Risk /\ retry' = 1
  /\ UNCHANGED <<tradeVars, signal, innerSig, books, feeds, profit, overtaken>>

RiskLoop ==
  /\ At2("loop")
  /\ \/ /\ retry < MaxRetry /\ tradingBtc > 0 /\ Go2("sell")
        /\ SellAtMarket(Risk, tradingBtc) /\ UNCHANGED <<mutex, retry>>
     \/ /\ ~ (retry < MaxRetry /\ tradingBtc > 0)
        /\ Go2("top") /\ mutex' = NoThread /\ retry' = 0 /\ UNCHANGED call
  /\ UNCHANGED <<noCallVars, signal, innerSig, books, feeds, profit, overtaken>>

\* Mutant: a failed sale does not count as a try.
RiskSoldForever ==
  /\ At2("sell")
  /\ \E ret \in {0, -1} :
       SellReturns(Risk, ret) /\ Go2(IF ret = 0 THEN "clearBtc" ELSE "loop")
  /\ UNCHANGED <<botVars>>

RiskSold ==
  /\ At2("sell")
  /\ \E ret \in {0, -1} :
       /\ SellReturns(Risk, ret)
       /\ IF ret = 0 THEN Go2("clearBtc") /\ retry' = 0
                     ELSE Go2("loop") /\ retry' = retry + 1
  /\ UNCHANGED <<signal, innerSig, mutex, books, feeds, profit, overtaken>>

RiskClearBtc ==
  /\ At2("clearBtc") /\ Go2("clearAsset") /\ tradingBtc' = 0
  /\ UNCHANGED <<tradeVars, signal, innerSig, mutex, status, tradingAsset,
                 originAsset, profitWin, feeds, locals>>

RiskClearAsset ==
  /\ At2("clearAsset") /\ Go2("clearWin") /\ tradingAsset' = 0
  /\ UNCHANGED <<tradeVars, signal, innerSig, mutex, status, tradingBtc,
                 originAsset, profitWin, feeds, locals>>

RiskClearWin ==
  /\ At2("clearWin") /\ Go2("setOut") /\ profitWin' = PW!Clear(profitWin)
  /\ UNCHANGED <<tradeVars, signal, innerSig, mutex, status, tradingBtc,
                 tradingAsset, originAsset, feeds, locals>>

RiskSetOut ==
  /\ At2("setOut") /\ Go2("top") /\ status' = "out" /\ mutex' = NoThread
  /\ overtaken' = (overtaken \/ At1("setIn"))
  /\ UNCHANGED <<tradeVars, signal, innerSig, tradingBtc, tradingAsset,
                 originAsset, profitWin, feeds, profit, retry>>

RiskControl ==
  \/ RiskTop \/ RiskInfo \/ RiskCalc \/ RiskPut \/ RiskFull \/ RiskDecide
  \/ RiskLock \/ RiskLoop \/ SellStep(Risk) \/ RiskSold
  \/ RiskClearBtc \/ RiskClearAsset \/ RiskClearWin \/ RiskSetOut
-----------------------------------------------------------------------------
(* t3_, the two feeds, and main. *)

\* query_asset asks for the account until inner_sig says t2_ has ended.  A
\* request and its reply are one step: nothing else reads either on the way.
QueryAsset ==
  /\ innerSig # 1 /\ conn = "open" /\ infos < MaxInfo /\ infos' = infos + 1
  /\ UNCHANGED <<tradeVars, pc, signal, innerSig, mutex, books, klines, locals>>

Kline ==
  /\ conn = "open" /\ klines < MaxKline /\ klines' = klines + 1
  /\ UNCHANGED <<tradeVars, pc, signal, innerSig, mutex, books, infos, locals>>

\* Mutant: stop() takes effect each time it is called.
StopAgain ==
  /\ signal' = signal + 1
  /\ UNCHANGED <<tradeVars, pc, innerSig, mutex, books, feeds, locals>>

Stop ==
  /\ signal = 0 /\ signal' = signal + 1
  /\ UNCHANGED <<tradeVars, pc, innerSig, mutex, books, feeds, locals>>

Outside ==
  /\ Environment
  /\ UNCHANGED <<pc, botVars>>

\* join returns in main once both threads have ended.
Joined == At1("done") /\ At2("done")

\* The threads of the program have ended; the exchange lives on.
Terminated == Joined /\ UNCHANGED vars

Next ==
  RunStrategy \/ RiskControl \/ QueryAsset \/ Kline \/ Stop
    \/ Outside \/ Terminated

Spec == Init /\ [][Next]_vars

\* Both threads are scheduled and every wait of theirs is bounded or for a queue
\* that is filled while the connection lives; the exchange answers; RunThread
\* reconnects for ever, and a handshake that can always be tried again succeeds.
Fairness ==
  /\ WF_vars(RunStrategy) /\ WF_vars(RiskControl) /\ WF_vars(QueryAsset)
  /\ SF_vars(Kline)
  /\ WF_vars(Outside /\ HandleRequest) /\ WF_vars(Outside /\ Dispatch)
  /\ WF_vars(Outside /\ Reconnect) /\ SF_vars(Outside /\ OnOpen)

FairSpec == Spec /\ Fairness
=============================================================================
