------------------------------- MODULE Trade -------------------------------
(* Trade (trade.h), the queues its replies arrive on, the connection it sends
   through and the exchange at the other end.

   A request carries nothing that its reply repeats: whoever pops the channel's
   queue next takes whichever reply is at its head.  The ids below are those the
   exchange gives to orders; a request carries the id its order will get, which
   no thread reads before the reply tells it.                                 *)
EXTENDS Integers, Sequences, FiniteSets, Link

CONSTANTS
  Thread, NoThread,     \* the threads that trade
  IdLimit,              \* how many orders and requests can be live at once
  Lot,                  \* coins bought by a filled order of the strategy
  Part,                 \* coins bought by an order cancelled half way
  Origin,               \* coins the account holds at the start (origin_asset's 0.0004)
  Cash,                 \* what the account can spend, in coins
  MaxDrop,              \* bound: connections lost
  MaxLate               \* bound: timed pops that expire with the reply still coming

NoId == 0
Id   == 1 .. IdLimit

ASSUME TradeAssumption ==
  /\ NoThread \notin Thread
  /\ IdLimit \in Nat /\ Origin \in Nat /\ Cash \in Nat
  /\ MaxDrop \in Nat /\ MaxLate \in Nat
  /\ Lot \in Nat \ {0} /\ Part \in 0 .. Lot

VARIABLES
  drops,      \* connections lost so far
  late,       \* timed pops that expired with the reply still coming
  tlock,      \* Trade::lock
  call,       \* per thread: the call into Trade it is in
  wire,       \* requests sent and not yet handled by the exchange
  answers,    \* replies of the exchange not yet dispatched
  tradeQ,     \* queue "ok_spotcny_trade"
  orderQ,     \* queue "ok_spotcny_orderinfo"
  open,       \* buy orders accepted and neither filled nor cancelled
  cancelled,  \* buy orders cancelled after a partial deal
  acct,       \* the account at the exchange: coins and spendable cash
  doubt       \* history: a request was left without learning its outcome

tradeVars == <<conn, drops, late, tlock, call, wire, answers, tradeQ, orderQ,
               open, cancelled, acct, doubt>>
\* all of them but call
noCallVars == <<conn, drops, late, tlock, wire, answers, tradeQ, orderQ, open,
                cancelled, acct, doubt>>

Op      == {"idle", "lock", "emit", "sellwait", "buywait", "order", "infowait"}
Call    == [op : Op, id : Id \cup {NoId}, amount : {0, Lot}]
Request == [kind : {"buy", "sell", "info"}, id : Id, amount : {0, Lot}]
TradeReply == [chan : {"trade"}, result : BOOLEAN, id : Id]
\* An order of Lot coins was dealt in full, cancelled half way, or is open.
InfoReply ==
  [chan : {"info"}, status : {2}, deal : {Lot}, id : Id]
    \cup [chan : {"info"}, status : {-1}, deal : {Part}, id : Id]
    \cup [chan : {"info"}, status : {0}, deal : {0}, id : Id]

TradeTypeOK ==
  /\ conn \in {"connecting", "open", "closed"}
  /\ drops \in 0 .. MaxDrop /\ late \in 0 .. MaxLate
  /\ tlock \in Thread \cup {NoThread} /\ call \in [Thread -> Call]
  /\ wire \subseteq Request /\ answers \subseteq TradeReply \cup InfoReply
  /\ tradeQ \in Seq(TradeReply) /\ orderQ \in Seq(InfoReply)
  /\ open \subseteq Id /\ cancelled \subseteq Id
  /\ acct \in [btc : Nat, cash : Nat] /\ doubt \in BOOLEAN

\* main creates Trade with s_ = 0; the queues and the account exist beside it.
TradeInit ==
  /\ LinkInit /\ drops = 0 /\ late = 0 /\ tlock = NoThread
  /\ call = [t \in Thread |-> [op |-> "idle", id |-> NoId, amount |-> 0]]
  /\ wire = {} /\ answers = {} /\ tradeQ = <<>> /\ orderQ = <<>>
  /\ open = {} /\ cancelled = {}
  /\ acct = [btc |-> Origin, cash |-> Cash]
  /\ doubt = FALSE

\* The threads waiting for a document of "ok_spotcny_trade".
Waiting(t) == call[t].op \in {"sellwait", "buywait"}

InTransit == { r.id : r \in wire } \cup { a.id : a \in answers }

\* The ids something still refers to, and the one the next order request gets.
Live ==
  InTransit \cup { tradeQ[i].id : i \in DOMAIN tradeQ }
    \cup { orderQ[i].id : i \in DOMAIN orderQ }
    \cup { call[t].id : t \in Thread } \cup open

NextId(id) == id \in Id \ Live /\ \A other \in Id \ Live : id <= other
SetCall(t, op, id, amount) ==
  call' = [call EXCEPT ![t] = [op |-> op, id |-> id, amount |-> amount]]
EndCall(t) == SetCall(t, "idle", NoId, 0)
-----------------------------------------------------------------------------
(* The threads.  s_->emit puts the request on an open connection.  While the
   handshake runs m_hdl names no connection and send throws; when the WebSocket
   is not valid the request is skipped and the call still returns 0; and a
   WebSocket that is being deleted may do either.                            *)
Emit(request, ret) ==
  \/ conn = "open" /\ ret = 0 /\ wire' = wire \cup {request}
  \/ conn = "connecting" /\ ret = -1 /\ wire' = wire
  \/ conn = "closed" /\ ret \in {0, -1} /\ wire' = wire

\* ok_spotcny_trade: id is NoId when nothing went out.
OkSpotcnyTrade(kind, amount, id, ret) ==
  /\ IF conn = "open" THEN NextId(id) ELSE id = NoId
  /\ Emit([kind |-> kind, id |-> id, amount |-> amount], ret)
  /\ cancelled' = cancelled \ {id}

\* ok_spotcny_orderinfo
OkSpotcnyOrderinfo(id, ret) ==
  Emit([kind |-> "info", id |-> id, amount |-> 0], ret)

\* The reply at the head of "ok_spotcny_trade", whoever it was meant for.
PopTrade(reply) ==
  tradeQ # <<>> /\ reply = Head(tradeQ) /\ tradeQ' = Tail(tradeQ)

\* Mutant: a pop that does not wait.
NoWait(t, queue) ==
  queue = <<>> /\ late' = late /\ doubt' = (doubt \/ call[t].id # NoId)

\* A timed pop gives up.  What was sent may still have been executed.
TimedOut(t, queue) ==
  /\ queue = <<>>
  /\ late' = (IF call[t].id \in InTransit THEN late + 1 ELSE late) /\ late' <= MaxLate
  /\ doubt' = (doubt \/ call[t].id # NoId)

\* sell_at_market with an amount above zero: the call, ...
SellAtMarket(t, amount) == SetCall(t, "lock", NoId, amount)

\* ... its lock_guard, ...
AcquireTradeLock(t) ==
  /\ call[t].op = "lock" /\ tlock = NoThread
  /\ tlock' = t /\ SetCall(t, "emit", NoId, call[t].amount)
  /\ UNCHANGED <<conn, drops, late, wire, answers, tradeQ, orderQ, open, cancelled,
                 acct, doubt>>

\* ... its request, when ok_spotcny_trade returns 0, ...
SendSell(t) ==
  /\ call[t].op = "emit"
  /\ \E id \in Id \cup {NoId} :
       /\ OkSpotcnyTrade("sell", call[t].amount, id, 0)
       /\ SetCall(t, "sellwait", id, call[t].amount)
  /\ UNCHANGED <<conn, drops, late, tlock, answers, tradeQ, orderQ, open, acct, doubt>>

\* ... and its return: the send failed, a reply came (CHECK_AND_RETURN), or none.
SellFails(t) ==
  /\ call[t].op = "emit" /\ OkSpotcnyTrade("sell", call[t].amount, NoId, -1)
  /\ UNCHANGED <<late, tradeQ, doubt>>

SellAnswered(t, ret) ==
  /\ call[t].op = "sellwait"
  /\ \E reply \in TradeReply :
       PopTrade(reply) /\ ret = (IF reply.result THEN 0 ELSE -1)
  /\ UNCHANGED <<late, wire, cancelled, doubt>>

SellTimedOut(t) ==
  /\ call[t].op = "sellwait" /\ TimedOut(t, tradeQ)
  /\ UNCHANGED <<tradeQ, wire, cancelled>>

SellReturns(t, ret) ==
  /\ \/ SellFails(t) /\ ret = -1
     \/ SellAnswered(t, ret)
     \/ SellTimedOut(t) /\ ret = -1
  /\ tlock' = NoThread /\ EndCall(t)
  /\ UNCHANGED <<conn, drops, answers, orderQ, open, acct>>
-----------------------------------------------------------------------------
(* The exchange, which handles requests in any order and may refuse any. *)
Answer(request, reply) ==
  wire' = wire \ {request} /\ answers' = answers \cup {reply}

RejectOrder(r) ==
  /\ r.kind \in {"buy", "sell"}
  /\ Answer(r, [chan |-> "trade", result |-> FALSE, id |-> r.id])
  /\ UNCHANGED <<open, acct>>

AcceptBuy(r) ==
  /\ r.kind = "buy" /\ acct.cash >= Lot
  /\ Answer(r, [chan |-> "trade", result |-> TRUE, id |-> r.id])
  /\ open' = open \cup {r.id} /\ acct' = [btc |-> acct.btc, cash |-> acct.cash - Lot]

AcceptSell(r) ==
  /\ r.kind = "sell" /\ acct.btc >= r.amount
  /\ Answer(r, [chan |-> "trade", result |-> TRUE, id |-> r.id])
  /\ acct' = [btc |-> acct.btc - r.amount, cash |-> acct.cash + r.amount]
  /\ UNCHANGED open

\* Only orders of Lot coins are placed: one that is neither open nor cancelled
\* was dealt in full.
OrderInfo(id) ==
  IF id \in open THEN [chan |-> "info", status |-> 0, deal |-> 0, id |-> id]
  ELSE IF id \in cancelled
       THEN [chan |-> "info", status |-> -1, deal |-> Part, id |-> id]
  ELSE [chan |-> "info", status |-> 2, deal |-> Lot, id |-> id]

AnswerInfo(r) ==
  r.kind = "info" /\ Answer(r, OrderInfo(r.id)) /\ UNCHANGED <<open, acct>>

HandleRequest ==
  /\ \E r \in wire : RejectOrder(r) \/ AcceptBuy(r) \/ AcceptSell(r) \/ AnswerInfo(r)
  /\ UNCHANGED <<conn, drops, late, tlock, call, tradeQ, orderQ, cancelled, doubt>>

FillOrder ==
  /\ \E id \in open : open' = open \ {id}
  /\ acct' = [btc |-> acct.btc + Lot, cash |-> acct.cash]
  /\ UNCHANGED <<conn, drops, late, tlock, call, wire, answers, tradeQ, orderQ,
                 cancelled, doubt>>

CancelOrder ==
  /\ \E id \in open : open' = open \ {id} /\ cancelled' = cancelled \cup {id}
  /\ acct' = [btc |-> acct.btc + Part, cash |-> acct.cash + Lot - Part]
  /\ UNCHANGED <<conn, drops, late, tlock, call, wire, answers, tradeQ, orderQ, doubt>>
-----------------------------------------------------------------------------
(* The connection.  cn_callbak_message pushes a reply on its channel's queue;
   on_open, on_close and on_fail, and RunThread's next WebSocket, change what s_
   points to.  A lost connection takes what was under way with it.           *)
Dispatch ==
  /\ conn = "open"
  /\ \E a \in answers :
       /\ answers' = answers \ {a}
       /\ IF a.chan = "trade"
          THEN tradeQ' = Append(tradeQ, a) /\ UNCHANGED orderQ
          ELSE orderQ' = Append(orderQ, a) /\ UNCHANGED tradeQ
  /\ UNCHANGED <<conn, drops, late, tlock, call, wire, open, cancelled, acct, doubt>>

Connect ==
  /\ Reconnect \/ OnOpen \/ OnFail
  /\ UNCHANGED <<drops, late, tlock, call, wire, answers, tradeQ, orderQ, open,
                 cancelled, acct, doubt>>

OnClose ==
  /\ Lose /\ drops < MaxDrop
  /\ drops' = drops + 1 /\ wire' = {} /\ answers' = {}
  /\ UNCHANGED <<late, tlock, call, tradeQ, orderQ, open, cancelled, acct, doubt>>

Environment ==
  HandleRequest \/ FillOrder \/ CancelOrder \/ Dispatch \/ Connect \/ OnClose

\* Trade::lock is held by the thread between sell_at_market's lock_guard and its
\* return, and by no other.
LockHolder ==
  \A t \in Thread : call[t].op \in {"emit", "sellwait"} <=> tlock = t
=============================================================================
