----------------------------- MODULE TradeProofs -----------------------------
(* What every operation of Trade preserves, for the modules that compose it. *)
EXTENDS Trade, SequenceTheorems, TLAPS

LEMMA TradeInitType == TradeInit => TradeTypeOK /\ LockHolder
<1> SUFFICES ASSUME TradeInit PROVE TradeTypeOK /\ LockHolder
  OBVIOUS
<1>1. call \in [Thread -> Call]
  BY TradeAssumption DEF TradeInit, LinkInit, Call, Op, NoId
<1>2. tradeQ \in Seq(TradeReply) /\ orderQ \in Seq(InfoReply)
  BY DEF TradeInit
<1>3. /\ drops \in 0 .. MaxDrop /\ late \in 0 .. MaxLate
      /\ acct \in [btc : Nat, cash : Nat]
  BY TradeAssumption DEF TradeInit
<1>4. TradeTypeOK
  BY <1>1, <1>2, <1>3 DEF TradeInit, LinkInit, TradeTypeOK
<1>5. LockHolder
  BY TradeAssumption DEF TradeInit, LinkInit, LockHolder
<1> QED
  BY <1>4, <1>5

\* Sending puts at most one well-formed request on the wire.
LEMMA SendType ==
  ASSUME TradeTypeOK, NEW kind \in {"buy", "sell", "info"}, NEW id \in Id \cup {NoId},
         NEW amount \in {0, Lot}, NEW ret,
         \/ OkSpotcnyTrade(kind, amount, id, ret)
         \/ kind = "info" /\ amount = 0 /\ OkSpotcnyOrderinfo(id, ret)
              /\ id \in Id /\ UNCHANGED cancelled
  PROVE  wire' \subseteq Request /\ cancelled' \subseteq Id
<1>1. CASE OkSpotcnyTrade(kind, amount, id, ret)
  <2>1. conn = "open" => id \in Id
    BY <1>1 DEF OkSpotcnyTrade, NextId
  <2> QED
    BY <1>1, <2>1 DEF OkSpotcnyTrade, Emit, TradeTypeOK, Request
<1>2. CASE kind = "info" /\ amount = 0 /\ OkSpotcnyOrderinfo(id, ret)
             /\ id \in Id /\ UNCHANGED cancelled
  BY <1>2 DEF OkSpotcnyOrderinfo, Emit, TradeTypeOK, Request
<1> QED
  BY <1>1, <1>2

LEMMA SetCallType ==
  ASSUME call \in [Thread -> Call], NEW t \in Thread, NEW op \in Op,
         NEW id \in Id \cup {NoId}, NEW amount \in {0, Lot}, SetCall(t, op, id, amount)
  PROVE  /\ call' \in [Thread -> Call]
         /\ call'[t] = [op |-> op, id |-> id, amount |-> amount]
         /\ \A u \in Thread \ {t} : call'[u] = call[u]
  BY DEF SetCall, Call

\* A call that neither begins nor ends inside Trade::lock leaves its holder alone.
LEMMA SetCallLock ==
  ASSUME LockHolder, call \in [Thread -> Call], NEW t \in Thread, NEW op,
         NEW id, NEW amount, SetCall(t, op, id, amount), tlock' = tlock,
         op \notin {"emit", "sellwait"}, call[t].op \notin {"emit", "sellwait"}
  PROVE  LockHolder'
  BY DEF SetCall, LockHolder

LEMMA TimedOutType ==
  ASSUME TradeTypeOK, NEW t, NEW queue, TimedOut(t, queue)
  PROVE  late' \in 0 .. MaxLate /\ doubt' \in BOOLEAN
  BY TradeAssumption DEF TimedOut, TradeTypeOK

LEMMA PopTradeType ==
  ASSUME TradeTypeOK, NEW reply, PopTrade(reply)
  PROVE  tradeQ' \in Seq(TradeReply) /\ reply \in TradeReply
  BY DEF PopTrade, TradeTypeOK

-----------------------------------------------------------------------------
(* sell_at_market *)
LEMMA AcquireTradeLockType ==
  ASSUME TradeTypeOK, LockHolder, NEW t \in Thread, AcquireTradeLock(t)
  PROVE  /\ TradeTypeOK' /\ LockHolder'
         /\ call[t].op = "lock" /\ call'[t].op = "emit"
         /\ \A u \in Thread \ {t} : call'[u] = call[u]
<1>1. /\ call' \in [Thread -> Call]
      /\ call'[t] = [op |-> "emit", id |-> NoId, amount |-> call[t].amount]
      /\ \A u \in Thread \ {t} : call'[u] = call[u]
  <2>1. "emit" \in Op /\ call[t].amount \in {0, Lot} /\ call \in [Thread -> Call]
    BY DEF TradeTypeOK, Call, Op
  <2>2. SetCall(t, "emit", NoId, call[t].amount) /\ NoId \in Id \cup {NoId}
    BY DEF AcquireTradeLock
  <2> QED
    BY <2>1, <2>2, SetCallType
<1>2. TradeTypeOK'
  BY <1>1 DEF AcquireTradeLock, TradeTypeOK
<1>3. LockHolder'
  BY <1>1, TradeAssumption DEF AcquireTradeLock, LockHolder
<1> QED
  BY <1>1, <1>2, <1>3 DEF AcquireTradeLock

LEMMA SendSellType ==
  ASSUME TradeTypeOK, LockHolder, NEW t \in Thread, SendSell(t)
  PROVE  /\ TradeTypeOK' /\ LockHolder'
         /\ call[t].op = "emit" /\ call'[t].op = "sellwait"
         /\ \A u \in Thread \ {t} : call'[u] = call[u]
<1>1. call[t].amount \in {0, Lot} /\ "sellwait" \in Op /\ call \in [Thread -> Call]
  BY DEF TradeTypeOK, Call, Op
<1>2. PICK id \in Id \cup {NoId} :
        /\ OkSpotcnyTrade("sell", call[t].amount, id, 0)
        /\ SetCall(t, "sellwait", id, call[t].amount)
  BY DEF SendSell
<1>3. wire' \subseteq Request /\ cancelled' \subseteq Id
  <2>1. "sell" \in {"buy", "sell", "info"}
    OBVIOUS
  <2> QED
    BY <1>1, <1>2, <2>1, SendType
<1>4. /\ call' \in [Thread -> Call]
      /\ call'[t] = [op |-> "sellwait", id |-> id, amount |-> call[t].amount]
      /\ \A u \in Thread \ {t} : call'[u] = call[u]
  BY <1>1, <1>2, SetCallType
<1>5. TradeTypeOK'
  BY <1>3, <1>4 DEF SendSell, TradeTypeOK
<1>6. LockHolder'
  BY <1>4 DEF SendSell, LockHolder
<1> QED
  BY <1>4, <1>5, <1>6 DEF SendSell

LEMMA EndCallType ==
  ASSUME call \in [Thread -> Call], NEW t \in Thread, EndCall(t)
  PROVE  /\ call' \in [Thread -> Call]
         /\ call'[t] = [op |-> "idle", id |-> NoId, amount |-> 0]
         /\ \A u \in Thread \ {t} : call'[u] = call[u]
<1>1. "idle" \in Op
  BY DEF Op
<1> QED
  BY <1>1, SetCallType DEF EndCall

LEMMA SellReturnsType ==
  ASSUME TradeTypeOK, LockHolder, NEW t \in Thread, NEW ret, SellReturns(t, ret)
  PROVE  /\ TradeTypeOK' /\ LockHolder' /\ call[t].op \in {"emit", "sellwait"}
         /\ call'[t] = [op |-> "idle", id |-> NoId, amount |-> 0]
         /\ \A u \in Thread \ {t} : call'[u] = call[u]
<1>1. /\ call' \in [Thread -> Call]
      /\ call'[t] = [op |-> "idle", id |-> NoId, amount |-> 0]
      /\ \A u \in Thread \ {t} : call'[u] = call[u]
  BY EndCallType DEF SellReturns, TradeTypeOK
<1>2. tlock = t
  BY DEF SellReturns, SellFails, SellAnswered, SellTimedOut, LockHolder
<1>3. LockHolder'
  BY <1>1, <1>2, TradeAssumption DEF SellReturns, LockHolder
<1>4. TradeTypeOK'
  <2>1. CASE SellFails(t)
    <3>1. call[t].amount \in {0, Lot}
      BY DEF TradeTypeOK, Call
    <3>2. wire' \subseteq Request /\ cancelled' \subseteq Id
      BY <2>1, <3>1, SendType DEF SellFails
    <3> QED
      BY <1>1, <2>1, <3>2 DEF SellReturns, SellFails, TradeTypeOK
  <2>2. CASE SellAnswered(t, ret)
    <3>1. tradeQ' \in Seq(TradeReply)
      BY <2>2, PopTradeType DEF SellAnswered
    <3> QED
      BY <1>1, <2>2, <3>1 DEF SellReturns, SellAnswered, TradeTypeOK
  <2>3. CASE SellTimedOut(t)
    <3>1. late' \in 0 .. MaxLate /\ doubt' \in BOOLEAN
      BY <2>3, TimedOutType DEF SellTimedOut
    <3> QED
      BY <1>1, <2>3, <3>1 DEF SellReturns, SellTimedOut, TradeTypeOK
  <2> QED
    BY <2>1, <2>2, <2>3 DEF SellReturns
<1> QED
  BY <1>1, <1>3, <1>4 DEF SellReturns, SellFails, SellAnswered, SellTimedOut
-----------------------------------------------------------------------------
(* The exchange and the connection leave the threads' side of Trade alone. *)
LEMMA HandleRequestType ==
  ASSUME TradeTypeOK, HandleRequest
  PROVE  TradeTypeOK' /\ call' = call /\ tlock' = tlock
<1>1. PICK r \in wire :
        RejectOrder(r) \/ AcceptBuy(r) \/ AcceptSell(r) \/ AnswerInfo(r)
  BY DEF HandleRequest
<1>2. r \in Request /\ r.id \in Id /\ r.amount \in {0, Lot}
  BY DEF TradeTypeOK, Request
<1>3. /\ open' \subseteq Id /\ acct' \in [btc : Nat, cash : Nat]
      /\ wire' \subseteq Request /\ answers' \subseteq TradeReply \cup InfoReply
  <2> DEFINE reply(result) == [chan |-> "trade", result |-> result, id |-> r.id]
  <2>0. \A result \in BOOLEAN : reply(result) \in TradeReply
    BY <1>2 DEF TradeReply
  <2> HIDE DEF reply
  <2>a. ASSUME NEW result \in BOOLEAN, Answer(r, reply(result))
        PROVE  wire' \subseteq Request /\ answers' \subseteq TradeReply \cup InfoReply
    BY <2>0, <2>a DEF Answer, TradeTypeOK
  <2>b. acct.btc \in Nat /\ acct.cash \in Nat
    BY DEF TradeTypeOK
  <2>1. CASE RejectOrder(r)
    <3>1. Answer(r, reply(FALSE)) /\ UNCHANGED <<open, acct>>
      BY <2>1 DEF RejectOrder, reply
    <3> QED
      BY <2>a, <3>1 DEF TradeTypeOK
  <2>2. CASE AcceptBuy(r)
    <3>1. Answer(r, reply(TRUE)) /\ open' = open \cup {r.id} /\ acct.cash >= Lot
      BY <2>2 DEF AcceptBuy, reply
    <3>2. acct' = [btc |-> acct.btc, cash |-> acct.cash - Lot]
      BY <2>2 DEF AcceptBuy
    <3>3. acct.cash - Lot \in Nat
      BY <3>1, <2>b, TradeAssumption
    <3>4. acct' \in [btc : Nat, cash : Nat]
      BY <3>2, <3>3, <2>b
    <3> QED
      BY <1>2, <2>a, <3>1, <3>4 DEF TradeTypeOK
  <2>3. CASE AcceptSell(r)
    <3>1. Answer(r, reply(TRUE)) /\ open' = open /\ acct.btc >= r.amount
      BY <2>3 DEF AcceptSell, reply
    <3>2. acct' = [btc |-> acct.btc - r.amount, cash |-> acct.cash + r.amount]
      BY <2>3 DEF AcceptSell
    <3>3. acct.btc - r.amount \in Nat /\ acct.cash + r.amount \in Nat
      BY <1>2, <3>1, <2>b, TradeAssumption
    <3>4. acct' \in [btc : Nat, cash : Nat]
      BY <3>2, <3>3
    <3> QED
      BY <2>a, <3>1, <3>4 DEF TradeTypeOK
  <2>4. CASE AnswerInfo(r)
    <3>1. OrderInfo(r.id) \in InfoReply
      BY <1>2 DEF OrderInfo, InfoReply
    <3> QED
      BY <2>4, <3>1 DEF AnswerInfo, Answer, TradeTypeOK
  <2> QED
    BY <1>1, <2>1, <2>2, <2>3, <2>4
<1> QED
  BY <1>3 DEF HandleRequest, TradeTypeOK

LEMMA EnvironmentType ==
  ASSUME TradeTypeOK, Environment
  PROVE  TradeTypeOK' /\ call' = call /\ tlock' = tlock
<1>1. CASE HandleRequest
  BY <1>1, HandleRequestType
<1>2. CASE FillOrder
  BY <1>2, TradeAssumption DEF FillOrder, TradeTypeOK
<1>3. CASE CancelOrder
  BY <1>3, TradeAssumption DEF CancelOrder, TradeTypeOK
<1>4. CASE Dispatch
  <2>1. PICK a \in answers :
          /\ answers' = answers \ {a}
          /\ IF a.chan = "trade"
             THEN tradeQ' = Append(tradeQ, a) /\ UNCHANGED orderQ
             ELSE orderQ' = Append(orderQ, a) /\ UNCHANGED tradeQ
    BY <1>4 DEF Dispatch
  <2>2. IF a.chan = "trade" THEN a \in TradeReply ELSE a \in InfoReply
    BY DEF TradeTypeOK, TradeReply, InfoReply
  <2>3. tradeQ \in Seq(TradeReply) /\ orderQ \in Seq(InfoReply)
    BY DEF TradeTypeOK
  <2>4. tradeQ' \in Seq(TradeReply) /\ orderQ' \in Seq(InfoReply)
    <3>1. CASE a.chan = "trade"
      <4>1. a \in TradeReply /\ tradeQ' = Append(tradeQ, a) /\ orderQ' = orderQ
        BY <2>1, <2>2, <3>1
      <4> QED
        BY <2>3, <4>1
    <3>2. CASE a.chan # "trade"
      <4>1. a \in InfoReply /\ orderQ' = Append(orderQ, a) /\ tradeQ' = tradeQ
        BY <2>1, <2>2, <3>2
      <4> QED
        BY <2>3, <4>1
    <3> QED
      BY <3>1, <3>2
  <2> QED
    BY <1>4, <2>1, <2>4 DEF Dispatch, TradeTypeOK
<1>5. CASE Connect
  BY <1>5 DEF Connect, Reconnect, OnOpen, OnFail, TradeTypeOK
<1>6. CASE OnClose
  BY <1>6, TradeAssumption DEF OnClose, Lose, TradeTypeOK
<1> QED
  BY <1>1, <1>2, <1>3, <1>4, <1>5, <1>6 DEF Environment
-----------------------------------------------------------------------------
(* Where an order request and its reply can be, from the request on the wire to the
   document on "ok_spotcny_trade": in one place at a time, and only while a caller
   waits for it.                                                              *)

\* The requests and replies of orders among those on their way.
Orders(w)  == { r \in w : r.kind # "info" }
Replies(a) == { b \in a : b.chan = "trade" }

Ids(w, a, q) ==
  { r.id : r \in Orders(w) } \cup { b.id : b \in Replies(a) }
    \cup { q[i].id : i \in DOMAIN q }

Single(w, a, q) ==
  /\ \A r, s \in Orders(w) : r = s
  /\ \A b, c \in Replies(a) : b = c
  /\ Len(q) <= 1
  /\ Orders(w) # {} => Replies(a) = {} /\ q = <<>>
  /\ Replies(a) # {} => q = <<>>

\* At most one order is on its way, and it is that of one of the owners.
OwnedBy(owners, w, a, q) == Single(w, a, q) /\ Ids(w, a, q) \subseteq owners

LEMMA NothingOwned ==
  ASSUME NEW S, NEW w, NEW a, NEW q \in Seq(S), OwnedBy({}, w, a, q)
  PROVE  Orders(w) = {} /\ Replies(a) = {} /\ q = <<>>
<1>1. Orders(w) = {} /\ Replies(a) = {}
  BY DEF OwnedBy, Ids
<1>2. DOMAIN q = {}
  BY DEF OwnedBy, Ids
<1>3. Len(q) = 0
  BY <1>2
<1> QED
  BY <1>1, <1>3

\* An order goes out while none is on its way.
LEMMA SendOwned ==
  ASSUME NEW S, NEW w, NEW a, NEW q \in Seq(S), OwnedBy({}, w, a, q),
         NEW r, r.kind # "info"
  PROVE  OwnedBy({r.id}, w \cup {r}, a, q)
<1>1. Orders(w) = {} /\ Replies(a) = {} /\ q = <<>>
  BY NothingOwned
<1>2. Orders(w \cup {r}) = {r}
  BY <1>1 DEF Orders
<1>3. DOMAIN q = {} /\ Len(q) = 0
  BY <1>1
<1> HIDE DEF Orders
<1>4. Ids(w \cup {r}, a, q) = {r.id}
  BY <1>1, <1>2, <1>3 DEF Ids
<1> QED
  BY <1>1, <1>2, <1>3, <1>4 DEF OwnedBy, Single

\* Requests for the state of an order are not orders.
LEMMA AskOwned ==
  ASSUME NEW w, NEW a, NEW q, NEW owners, OwnedBy(owners, w, a, q),
         NEW r, r.kind = "info"
  PROVE  OwnedBy(owners, w \cup {r}, a, q)
<1>1. Orders(w \cup {r}) = Orders(w)
  BY DEF Orders
<1> QED
  BY <1>1 DEF OwnedBy, Single, Ids

\* A pop takes the only reply there is.
LEMMA PopOwned ==
  ASSUME NEW S, NEW w, NEW a, NEW q \in Seq(S), q # <<>>, NEW owners,
         OwnedBy(owners, w, a, q)
  PROVE  OwnedBy({}, w, a, Tail(q))
<1>1. Orders(w) = {} /\ Replies(a) = {}
  BY DEF OwnedBy, Single
<1>2. Len(q) = 1
  <2>1. Len(q) \in Nat \ {0}
    BY EmptySeq
  <2> QED
    BY <2>1 DEF OwnedBy, Single
<1>3. Tail(q) = <<>> /\ DOMAIN Tail(q) = {} /\ Len(Tail(q)) = 0
  <2>1. Tail(q) \in Seq(S) /\ Len(Tail(q)) = 0
    BY <1>2, HeadTailProperties
  <2>2. Tail(q) = <<>>
    BY <2>1, EmptySeq
  <2>3. DOMAIN <<>> = {} /\ Len(<<>>) = 0
    OBVIOUS
  <2> QED
    BY <2>2, <2>3, Zenon
<1>4. Ids(w, a, Tail(q)) = {}
  BY <1>1, <1>3 DEF Ids
<1> QED
  BY <1>1, <1>3, <1>4 DEF OwnedBy, Single

\* A wait ends without a reply, when none is on its way.
LEMMA ForgoOwned ==
  ASSUME NEW w, NEW a, NEW id, OwnedBy({id}, w, a, <<>>),
         id \notin { r.id : r \in w } \cup { b.id : b \in a }
  PROVE  OwnedBy({}, w, a, <<>>)
<1>1. Orders(w) = {}
  BY DEF OwnedBy, Ids, Orders
<1>2. Replies(a) = {}
  BY DEF OwnedBy, Ids, Replies
<1>3. Ids(w, a, <<>>) = {}
  BY <1>1, <1>2 DEF Ids
<1> QED
  BY <1>3 DEF OwnedBy

\* The exchange answers a request, and the answer is pushed on its queue.
LEMMA AnswerOwned ==
  ASSUME NEW w, NEW a, NEW q, NEW owners, OwnedBy(owners, w, a, q),
         NEW r \in w, NEW b, b.id = r.id, b.chan = "trade" <=> r.kind # "info"
  PROVE  OwnedBy(owners, w \ {r}, a \cup {b}, q)
<1>1. CASE r.kind = "info"
  <2>1. Orders(w \ {r}) = Orders(w) /\ Replies(a \cup {b}) = Replies(a)
    BY <1>1 DEF Orders, Replies
  <2> QED
    BY <2>1 DEF OwnedBy, Single, Ids
<1>2. CASE r.kind # "info"
  <2>1. r \in Orders(w) /\ Orders(w) = {r}
    BY <1>2 DEF OwnedBy, Single, Orders
  <2>2. Replies(a) = {} /\ q = <<>> /\ r.id \in owners
    BY <2>1 DEF OwnedBy, Single, Ids
  <2>3. Orders(w \ {r}) = {}
    BY <2>1 DEF Orders
  <2>4. Replies(a \cup {b}) = {b}
    BY <1>2, <2>2 DEF Replies
  <2>5. Ids(w \ {r}, a \cup {b}, q) \subseteq owners
    <3>1. DOMAIN q = {}
      BY <2>2
    <3> QED
      BY <2>2, <2>3, <2>4, <3>1 DEF Ids
  <2> QED
    BY <2>2, <2>3, <2>4, <2>5 DEF OwnedBy, Single
<1> QED
  BY <1>1, <1>2

LEMMA DispatchOwned ==
  ASSUME NEW S, NEW w, NEW a, NEW q \in Seq(S), NEW owners, OwnedBy(owners, w, a, q),
         NEW b \in a, b \in S
  PROVE  IF b.chan = "trade" THEN OwnedBy(owners, w, a \ {b}, Append(q, b))
                             ELSE OwnedBy(owners, w, a \ {b}, q)
<1>1. CASE b.chan # "trade"
  <2>1. Replies(a \ {b}) = Replies(a)
    BY <1>1 DEF Replies
  <2> QED
    BY <1>1, <2>1 DEF OwnedBy, Single, Ids
<1>2. CASE b.chan = "trade"
  <2>1. b \in Replies(a) /\ Replies(a) = {b}
    BY <1>2 DEF OwnedBy, Single, Replies
  <2>2. Orders(w) = {} /\ q = <<>> /\ b.id \in owners
    BY <2>1 DEF OwnedBy, Single, Ids
  <2>3. Replies(a \ {b}) = {}
    BY <2>1 DEF Replies
  <2>4. Append(q, b) = <<b>> /\ Len(<<b>>) = 1 /\ DOMAIN <<b>> = {1} /\ <<b>>[1] = b
    BY <2>2
  <2>5. Ids(w, a \ {b}, <<b>>) \subseteq owners
    BY <2>2, <2>3, <2>4 DEF Ids
  <2>6. Single(w, a \ {b}, <<b>>)
    <3>1. Len(<<b>>) <= 1
      BY <2>4
    <3> QED
      BY <2>2, <2>3, <3>1 DEF Single
  <2> QED
    BY <1>2, <2>4, <2>5, <2>6 DEF OwnedBy
<1> QED
  BY <1>1, <1>2

\* A lost connection takes what was under way with it.
LEMMA LossOwned ==
  ASSUME NEW w, NEW a, NEW q, NEW owners, OwnedBy(owners, w, a, q)
  PROVE  OwnedBy(owners, {}, {}, q)
<1>1. Orders({}) = {} /\ Replies({}) = {}
  BY DEF Orders, Replies
<1> QED
  BY <1>1 DEF OwnedBy, Single, Ids
-----------------------------------------------------------------------------
(* The steps of the environment, and those of a call. *)
Owned(owners) == late = 0 => OwnedBy(owners, wire, answers, tradeQ)

LEMMA EnvironmentOwned ==
  ASSUME TradeTypeOK, NEW owners, Owned(owners), Environment
  PROVE  late' = 0 => OwnedBy(owners, wire', answers', tradeQ')
<1> SUFFICES ASSUME late' = 0 PROVE OwnedBy(owners, wire', answers', tradeQ')
  OBVIOUS
<1>0. late' = late
  BY DEF Environment, HandleRequest, FillOrder, CancelOrder, Dispatch, Connect, OnClose
<1>a. OwnedBy(owners, wire, answers, tradeQ)
  BY <1>0 DEF Owned
<1>1. CASE HandleRequest
  <2>1. PICK r \in wire :
          RejectOrder(r) \/ AcceptBuy(r) \/ AcceptSell(r) \/ AnswerInfo(r)
    BY <1>1 DEF HandleRequest
  <2> DEFINE Sent(b) == /\ wire' = wire \ {r} /\ answers' = answers \cup {b}
                        /\ b.id = r.id /\ (b.chan = "trade" <=> r.kind # "info")
  <2>2. PICK b : Sent(b)
    <3> DEFINE reply(result) == [chan |-> "trade", result |-> result, id |-> r.id]
    <3>1. CASE RejectOrder(r)
      <4>1. Sent(reply(FALSE))
        BY <3>1 DEF RejectOrder, Answer
      <4> QED
        BY <4>1
    <3>2. CASE AcceptBuy(r) \/ AcceptSell(r)
      <4>1. Sent(reply(TRUE))
        BY <3>2 DEF AcceptBuy, AcceptSell, Answer
      <4> QED
        BY <4>1
    <3>3. CASE AnswerInfo(r)
      <4>1. Sent(OrderInfo(r.id))
        BY <3>3 DEF AnswerInfo, Answer, OrderInfo
      <4> QED
        BY <4>1
    <3> QED
      BY <2>1, <3>1, <3>2, <3>3
  <2>3. tradeQ' = tradeQ
    BY <1>1 DEF HandleRequest
  <2> QED
    BY <1>a, <2>2, <2>3, AnswerOwned
<1>2. CASE FillOrder \/ CancelOrder \/ Connect
  BY <1>2, <1>a DEF FillOrder, CancelOrder, Connect
<1>3. CASE Dispatch
  <2>1. PICK b \in answers :
          /\ answers' = answers \ {b}
          /\ IF b.chan = "trade" THEN tradeQ' = Append(tradeQ, b) ELSE tradeQ' = tradeQ
    BY <1>3 DEF Dispatch
  <2>2. wire' = wire /\ tradeQ \in Seq(TradeReply \cup InfoReply)
        /\ b \in TradeReply \cup InfoReply
    BY <1>3 DEF Dispatch, TradeTypeOK
  <2>3. CASE b.chan = "trade"
    <3>1. tradeQ' = Append(tradeQ, b)
      BY <2>1, <2>3
    <3>2. OwnedBy(owners, wire, answers \ {b}, Append(tradeQ, b))
      BY <1>a, <2>2, <2>3, DispatchOwned
    <3> QED
      BY <2>1, <2>2, <3>1, <3>2
  <2>4. CASE b.chan # "trade"
    <3>1. tradeQ' = tradeQ
      BY <2>1, <2>4
    <3>2. OwnedBy(owners, wire, answers \ {b}, tradeQ)
      BY <1>a, <2>2, <2>4, DispatchOwned
    <3> QED
      BY <2>1, <2>2, <3>1, <3>2
  <2> QED
    BY <2>3, <2>4
<1>4. CASE OnClose
  BY <1>4, <1>a, LossOwned DEF OnClose
<1> QED
  BY <1>1, <1>2, <1>3, <1>4 DEF Environment

\* ok_spotcny_trade, while nobody waits.
LEMMA OrderOwned ==
  ASSUME TradeTypeOK, Owned({}), late' = late, UNCHANGED <<answers, tradeQ>>,
         NEW kind \in {"buy", "sell"}, NEW amount, NEW id, NEW ret,
         OkSpotcnyTrade(kind, amount, id, ret)
  PROVE  late' = 0 => OwnedBy({id}, wire', answers', tradeQ')
<1> DEFINE request == [kind |-> kind, id |-> id, amount |-> amount]
<1>1. wire' = wire \cup {request} \/ wire' = wire
  BY DEF OkSpotcnyTrade, Emit
<1>2. request.kind # "info" /\ request.id = id
  OBVIOUS
<1>3. tradeQ \in Seq(TradeReply)
  BY DEF TradeTypeOK
<1> HIDE DEF request
<1> SUFFICES ASSUME late = 0, OwnedBy({}, wire, answers, tradeQ)
             PROVE  OwnedBy({id}, wire', answers, tradeQ)
  BY DEF Owned
<1>4. CASE wire' = wire \cup {request}
  BY <1>2, <1>3, <1>4, SendOwned
<1>5. CASE wire' = wire
  BY <1>5 DEF OwnedBy
<1> QED
  BY <1>1, <1>4, <1>5

\* The end of a wait, by a pop or at its deadline.
LEMMA AnsweredOwned ==
  ASSUME TradeTypeOK, NEW owners, Owned(owners), NEW reply, PopTrade(reply),
         UNCHANGED <<late, wire, answers>>
  PROVE  late' = 0 => OwnedBy({}, wire', answers', tradeQ')
  BY PopOwned DEF Owned, PopTrade, TradeTypeOK

LEMMA ExpiredOwned ==
  ASSUME TradeTypeOK, NEW id, Owned({id}), tradeQ = <<>>,
         late' = (IF id \in InTransit THEN late + 1 ELSE late),
         UNCHANGED <<wire, answers, tradeQ>>
  PROVE  late' = 0 => OwnedBy({}, wire', answers', tradeQ')
<1> SUFFICES ASSUME late' = 0 PROVE OwnedBy({}, wire, answers, <<>>)
  OBVIOUS
<1>1. late = 0 /\ id \notin InTransit
  BY TradeAssumption DEF TradeTypeOK
<1> QED
  BY <1>1, ForgoOwned DEF Owned, InTransit
=============================================================================
