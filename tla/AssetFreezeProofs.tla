-------------------------- MODULE AssetFreezeProofs --------------------------
(* AssetFreeze over the calls of Trade, for any number of threads and orders: types,
   the lock, that no caller takes another's reply, and that a close is final.  *)
EXTENDS AssetFreeze, TradeProofs, TLAPS

\* Which calls a thread can be in.
CallsAgree ==
  \A t \in Thread :
    /\ call[t].op \in {"idle", "lock", "emit", "sellwait"}
    /\ call[t].op = "idle" <=> method[t] = "none"
    /\ method[t] = "cancel" => call[t].id \in Id

\* The orders whose callers wait.
Awaited == { call[t].id : t \in { u \in Thread : Awaits(u) } }

CallsInv == CallsTypeOK /\ LockHolder /\ CallsAgree /\ Owned(Awaited)

FreezeTypeOK ==
  /\ pc \in {"top", "pop", "loop", "sell", "setOut", "test",
             "doclose", "null", "quit", "done"}
  /\ retry \in 0 .. MaxRetry /\ free \in Info /\ infoQ \in Seq(Info)
  /\ status \in {"in", "out"} /\ query \in {"run", "tested", "done"}
  /\ signal \in 0 .. 1 /\ innerSig \in 0 .. 1
  /\ pc = "sell" => retry < MaxRetry
  /\ innerSig = 1 <=> pc = "done"

IInv == CallsInv /\ FreezeTypeOK
-----------------------------------------------------------------------------
(* What the steps of a call do to call, and what follows for who waits. *)
LEMMA SetOpType ==
  ASSUME call \in [Thread -> Call], NEW t \in Thread, NEW op \in Op, SetOp(t, op)
  PROVE  /\ call' \in [Thread -> Call]
         /\ call'[t].op = op /\ call'[t].id = call[t].id
         /\ \A u \in Thread \ {t} : call'[u] = call[u]
  BY DEF SetOp, Call

\* Who is inside Trade::lock is the only one who can wait.
LEMMA OnlyHolder ==
  ASSUME LockHolder, NEW t \in Thread, call[t].op \in {"emit", "sellwait"}
  PROVE  /\ tlock = t /\ \A u \in Thread : Awaits(u) => u = t
         /\ call[t].op = "emit" => Awaited = {}
         /\ Awaits(t) => Awaited = {call[t].id}
<1>1. tlock = t /\ \A u \in Thread : Awaits(u) => u = t
  BY DEF LockHolder, Awaits
<1>2. call[t].op = "emit" => ~ Awaits(t)
  BY DEF Awaits
<1> QED
  BY <1>1, <1>2 DEF Awaited

\* A step that moves no order and ends no wait.
LEMMA QuietOwn ==
  ASSUME Owned(Awaited), UNCHANGED <<late, wire, answers, tradeQ>>,
         \A u \in Thread : Awaits(u) => Awaits(u)' /\ call'[u].id = call[u].id
  PROVE  Owned(Awaited)'
<1>1. Awaited \subseteq Awaited'
  BY DEF Awaited
<1>2. late' = late /\ wire' = wire /\ answers' = answers /\ tradeQ' = tradeQ
  OBVIOUS
<1> QED
  BY <1>1, <1>2 DEF Owned, OwnedBy

LEMMA NoneOwn ==
  ASSUME late' = 0 => OwnedBy({}, wire', answers', tradeQ')
  PROVE  Owned(Awaited)'
  BY DEF Owned, OwnedBy

LEMMA EnterInv ==
  ASSUME CallsInv, NEW t \in Thread, NEW m \in {"buy", "sell", "cancel"},
         NEW id \in Id \cup {NoId}, NEW amount \in {0, Lot}, m = "cancel" => id \in Id,
         Enter(t, m, id, amount)
  PROVE  CallsInv'
<1>1. /\ CallsTypeOK /\ LockHolder /\ CallsAgree /\ Owned(Awaited)
      /\ call \in [Thread -> Call] /\ method \in [Thread -> Method]
      /\ method[t] = "none" /\ call[t].op = "idle"
  BY DEF CallsInv, CallsAgree, CallsTypeOK, TradeTypeOK, Enter, InCall
<1>2. /\ method' = [method EXCEPT ![t] = m] /\ SetCall(t, "lock", id, amount)
      /\ UNCHANGED <<noCallVars, checked, ptr, byHand, opening, cancelVars, dead>>
  BY DEF Enter
<1>3. /\ call' \in [Thread -> Call]
      /\ call'[t] = [op |-> "lock", id |-> id, amount |-> amount]
      /\ \A u \in Thread \ {t} : call'[u] = call[u]
  <2>1. "lock" \in Op
    BY DEF Op
  <2> QED
    BY <1>1, <1>2, <2>1, SetCallType
<1>4. CallsTypeOK'
  BY <1>1, <1>2, <1>3 DEF CallsTypeOK, TradeTypeOK, noCallVars, cancelVars, Method
<1>5. LockHolder'
  BY <1>1, <1>2, <1>3 DEF LockHolder, noCallVars
<1>6. CallsAgree'
  BY <1>1, <1>2, <1>3 DEF CallsAgree, CallsTypeOK
<1>7. Owned(Awaited)'
  <2>1. \A u \in Thread : Awaits(u) => Awaits(u)' /\ call'[u].id = call[u].id
    BY <1>1, <1>2, <1>3 DEF Awaits
  <2> QED
    BY <1>1, <1>2, <2>1, QuietOwn DEF noCallVars
<1> QED
  BY <1>4, <1>5, <1>6, <1>7 DEF CallsInv

LEMMA TakeLockInv ==
  ASSUME CallsInv, NEW t \in Thread, TakeLock(t)
  PROVE  CallsInv'
<1>1. /\ CallsTypeOK /\ LockHolder /\ CallsAgree /\ Owned(Awaited)
      /\ call \in [Thread -> Call]
  BY DEF CallsInv, CallsTypeOK, TradeTypeOK
<1>2. /\ call[t].op = "lock" /\ tlock = NoThread /\ tlock' = t /\ SetOp(t, "emit")
      /\ UNCHANGED <<conn, drops, late, wire, answers, tradeQ, orderQ, open, cancelled,
                     acct, doubt, callsVars>>
  BY DEF TakeLock
<1>3. /\ call' \in [Thread -> Call] /\ call'[t].op = "emit" /\ call'[t].id = call[t].id
      /\ \A u \in Thread \ {t} : call'[u] = call[u]
  <2>1. "emit" \in Op
    BY DEF Op
  <2> QED
    BY <1>1, <1>2, <2>1, SetOpType
<1>4. CallsTypeOK'
  BY <1>1, <1>2, <1>3 DEF CallsTypeOK, TradeTypeOK, callsVars, cancelVars
<1>5. LockHolder'
  BY <1>1, <1>2, <1>3, TradeAssumption DEF LockHolder
<1>6. CallsAgree'
  BY <1>1, <1>2, <1>3 DEF CallsAgree, callsVars
<1>7. Owned(Awaited)'
  <2>1. \A u \in Thread : Awaits(u) => Awaits(u)' /\ call'[u].id = call[u].id
    BY <1>2, <1>3 DEF Awaits, callsVars
  <2> QED
    BY <1>1, <1>2, <2>1, QuietOwn
<1> QED
  BY <1>4, <1>5, <1>6, <1>7 DEF CallsInv

LEMMA TestSocketInv ==
  ASSUME CallsInv, NEW t \in Thread, TestSocket(t)
  PROVE  CallsInv'
<1>1. /\ CallsTypeOK /\ LockHolder /\ CallsAgree /\ Owned(Awaited)
      /\ call \in [Thread -> Call] /\ checked \in [Thread -> BOOLEAN]
  BY DEF CallsInv, CallsTypeOK, TradeTypeOK
<1>2. /\ call[t].op = "emit"
      /\ UNCHANGED <<noCallVars, method, ptr, byHand, opening, cancelVars, dead>>
      /\ \/ checked' = [checked EXCEPT ![t] = TRUE] /\ call' = call
         \/ SetOp(t, "sellwait") /\ checked' = checked
  BY DEF TestSocket
<1>3. /\ call' \in [Thread -> Call] /\ checked' \in [Thread -> BOOLEAN]
      /\ call'[t].op \in {"emit", "sellwait"} /\ call'[t].id = call[t].id
      /\ \A u \in Thread \ {t} : call'[u] = call[u]
  <2>1. "sellwait" \in Op
    BY DEF Op
  <2>2. CASE call' = call
    BY <1>1, <1>2, <2>2
  <2>3. CASE SetOp(t, "sellwait") /\ checked' = checked
    BY <1>1, <2>1, <2>3, SetOpType
  <2> QED
    BY <1>2, <2>2, <2>3
<1>4. CallsTypeOK'
  BY <1>1, <1>2, <1>3 DEF CallsTypeOK, TradeTypeOK, noCallVars, cancelVars
<1>5. LockHolder'
  BY <1>1, <1>2, <1>3 DEF LockHolder, noCallVars
<1>6. CallsAgree'
  BY <1>1, <1>2, <1>3 DEF CallsAgree
<1>7. Owned(Awaited)'
  <2>1. \A u \in Thread : ~ Awaits(u)
    BY <1>1, <1>2, OnlyHolder DEF Awaits
  <2> QED
    BY <1>1, <1>2, <2>1, QuietOwn DEF noCallVars
<1> QED
  BY <1>4, <1>5, <1>6, <1>7 DEF CallsInv

LEMMA SendOrderInv ==
  ASSUME CallsInv, NEW t \in Thread, SendOrder(t)
  PROVE  CallsInv'
<1>1. /\ CallsTypeOK /\ TradeTypeOK /\ LockHolder /\ CallsAgree /\ Owned(Awaited)
      /\ call \in [Thread -> Call] /\ call[t].amount \in {0, Lot}
  BY DEF CallsInv, CallsTypeOK, TradeTypeOK, Call
<1>2. /\ call[t].op = "emit" /\ method[t] \in {"buy", "sell"}
      /\ UNCHANGED <<conn, drops, late, tlock, answers, tradeQ, orderQ, open, acct,
                     doubt, method, ptr, byHand, opening, cancelVars, dead>>
      /\ checked' = [checked EXCEPT ![t] = FALSE]
  BY DEF SendOrder
<1>3. PICK id \in Id \cup {NoId} :
        /\ OkSpotcnyTrade(method[t], call[t].amount, id, 0)
        /\ SetCall(t, "sellwait", id, call[t].amount)
  BY DEF SendOrder
<1>4. /\ call' \in [Thread -> Call]
      /\ call'[t] = [op |-> "sellwait", id |-> id, amount |-> call[t].amount]
      /\ \A u \in Thread \ {t} : call'[u] = call[u]
  <2>1. "sellwait" \in Op
    BY DEF Op
  <2> QED
    BY <1>1, <1>3, <2>1, SetCallType
<1>5. wire' \subseteq Request /\ cancelled' \subseteq Id
  <2>1. method[t] \in {"buy", "sell", "info"}
    BY <1>2
  <2> QED
    BY <1>1, <1>3, <2>1, SendType
<1>6. CallsTypeOK'
  BY <1>1, <1>2, <1>4, <1>5 DEF CallsTypeOK, TradeTypeOK, cancelVars
<1>7. LockHolder'
  BY <1>1, <1>2, <1>4 DEF LockHolder
<1>8. CallsAgree'
  BY <1>1, <1>2, <1>4 DEF CallsAgree
<1>9. Owned(Awaited)'
  <2>1. Awaited = {}
    BY <1>1, <1>2, OnlyHolder
  <2>2. late' = 0 => OwnedBy({id}, wire', answers', tradeQ')
    BY <1>1, <1>2, <1>3, <2>1, OrderOwned
  <2>3. id \in Awaited'
    BY <1>2, <1>4 DEF Awaited, Awaits
  <2> QED
    BY <2>2, <2>3 DEF Owned, OwnedBy
<1> QED
  BY <1>6, <1>7, <1>8, <1>9 DEF CallsInv

LEMMA SendCancelInv ==
  ASSUME CallsInv, NEW t \in Thread, SendCancel(t)
  PROVE  CallsInv'
<1>1. /\ CallsTypeOK /\ LockHolder /\ CallsAgree /\ Owned(Awaited)
      /\ call \in [Thread -> Call] /\ cancelWire \subseteq Id
  BY DEF CallsInv, CallsTypeOK, TradeTypeOK
<1>2. /\ call[t].op = "emit" /\ method[t] = "cancel" /\ SetOp(t, "sellwait")
      /\ cancelWire' \in {cancelWire, cancelWire \cup {call[t].id}}
      /\ checked' = [checked EXCEPT ![t] = FALSE]
      /\ UNCHANGED <<noCallVars, method, ptr, byHand, opening, cancelAnswer,
                     cancelQ, dead>>
  BY DEF SendCancel
<1>3. /\ call' \in [Thread -> Call] /\ call'[t].op = "sellwait"
      /\ call'[t].id = call[t].id /\ \A u \in Thread \ {t} : call'[u] = call[u]
  <2>1. "sellwait" \in Op
    BY DEF Op
  <2> QED
    BY <1>1, <1>2, <2>1, SetOpType
<1>4. cancelWire' \subseteq Id
  BY <1>1, <1>2 DEF CallsAgree
<1>5. CallsTypeOK'
  BY <1>1, <1>2, <1>3, <1>4 DEF CallsTypeOK, TradeTypeOK, noCallVars
<1>6. LockHolder'
  BY <1>1, <1>2, <1>3 DEF LockHolder, noCallVars
<1>7. CallsAgree'
  BY <1>1, <1>2, <1>3 DEF CallsAgree
<1>8. Owned(Awaited)'
  <2>1. \A u \in Thread : ~ Awaits(u)
    BY <1>1, <1>2, OnlyHolder DEF Awaits
  <2> QED
    BY <1>1, <1>2, <2>1, QuietOwn DEF noCallVars
<1> QED
  BY <1>5, <1>6, <1>7, <1>8 DEF CallsInv

\* The end of a call.
LEMMA LeaveInv ==
  ASSUME CallsInv, NEW t \in Thread, call[t].op \in {"emit", "sellwait"}, Leave(t),
         wire' \subseteq Request, cancelled' \subseteq Id, tradeQ' \in Seq(TradeReply),
         late' \in 0 .. MaxLate, cancelQ' \in Seq(BOOLEAN),
         UNCHANGED <<conn, drops, answers, orderQ, open, acct, doubt, ptr, byHand,
                     opening, cancelWire, cancelAnswer, dead>>
  PROVE  CallsTypeOK' /\ LockHolder' /\ CallsAgree'
         /\ \A u \in Thread \ {t} : call'[u] = call[u] /\ method'[u] = method[u]
<1>1. /\ CallsTypeOK /\ LockHolder /\ CallsAgree /\ call \in [Thread -> Call]
      /\ method \in [Thread -> Method] /\ checked \in [Thread -> BOOLEAN]
  BY DEF CallsInv, CallsTypeOK, TradeTypeOK
<1>2. /\ tlock' = NoThread /\ EndCall(t)
      /\ method' = [method EXCEPT ![t] = "none"]
      /\ checked' = [checked EXCEPT ![t] = FALSE]
  BY DEF Leave
<1>3. /\ call' \in [Thread -> Call]
      /\ call'[t] = [op |-> "idle", id |-> NoId, amount |-> 0]
      /\ \A u \in Thread \ {t} : call'[u] = call[u]
  BY <1>1, <1>2, EndCallType
<1>4. method' \in [Thread -> Method] /\ checked' \in [Thread -> BOOLEAN]
  BY <1>1, <1>2 DEF Method
<1>5. CallsTypeOK'
  BY <1>1, <1>2, <1>3, <1>4 DEF CallsTypeOK, TradeTypeOK
<1>6. LockHolder'
  BY <1>1, <1>2, <1>3, OnlyHolder, TradeAssumption DEF LockHolder
<1>7. CallsAgree'
  BY <1>1, <1>2, <1>3 DEF CallsAgree
<1> QED
  BY <1>1, <1>2, <1>3, <1>5, <1>6, <1>7

LEMMA ReturnsInv ==
  ASSUME CallsInv, NEW t \in Thread, NEW ret, Returns(t, ret)
  PROVE  CallsInv'
<1>1. /\ TradeTypeOK /\ LockHolder /\ CallsAgree /\ Owned(Awaited)
      /\ wire \subseteq Request /\ cancelled \subseteq Id /\ tradeQ \in Seq(TradeReply)
      /\ late \in 0 .. MaxLate /\ cancelQ \in Seq(BOOLEAN)
      /\ call[t].amount \in {0, Lot}
  BY DEF CallsInv, CallsTypeOK, TradeTypeOK, Call
<1>2. CASE OrderThrows(t) \/ CancelThrows(t)
  <2>1. wire' = wire /\ cancelled' \subseteq Id /\ UNCHANGED <<late, answers, tradeQ>>
    BY <1>1, <1>2 DEF OrderThrows, CancelThrows, OkSpotcnyTrade, Emit
  <2>2. call[t].op = "emit" /\ Leave(t)
    BY <1>2 DEF OrderThrows, CancelThrows
  <2>3. CallsTypeOK' /\ LockHolder' /\ CallsAgree'
    BY <1>1, <1>2, <2>1, <2>2, LeaveInv DEF OrderThrows, CancelThrows, cancelVars
  <2>4. \A u \in Thread : ~ Awaits(u)
    BY <1>1, <2>2, OnlyHolder DEF Awaits
  <2> QED
    BY <1>1, <2>1, <2>3, <2>4, QuietOwn DEF CallsInv
<1>3. CASE OrderAnswered(t, ret)
  <2>1. Awaits(t) /\ call[t].op = "sellwait" /\ Leave(t) /\ UNCHANGED <<wire, answers>>
    BY <1>3 DEF OrderAnswered, Awaits
  <2>2. Owned({call[t].id})
    BY <1>1, <2>1, OnlyHolder
  <2>3. CASE \E reply \in TradeReply : PopTrade(reply) /\ late' = late
    <3>1. PICK reply \in TradeReply : PopTrade(reply) /\ late' = late
      BY <2>3
    <3>2. tradeQ' \in Seq(TradeReply)
      BY <1>1, <3>1, PopTradeType
    <3>3. late' = 0 => OwnedBy({}, wire', answers', tradeQ')
      BY <1>1, <2>1, <2>2, <3>1, AnsweredOwned
    <3>4. CallsTypeOK' /\ LockHolder' /\ CallsAgree'
      BY <1>1, <1>3, <2>1, <3>1, <3>2, LeaveInv DEF OrderAnswered, cancelVars
    <3> QED
      BY <3>3, <3>4, NoneOwn DEF CallsInv
  <2>4. CASE GivesUp(t) /\ tradeQ' = tradeQ
    <3>1. late' \in 0 .. MaxLate
      BY <1>1, <2>4, TradeAssumption DEF GivesUp
    <3>2. late' = 0 => OwnedBy({}, wire', answers', tradeQ')
      BY <1>1, <2>1, <2>2, <2>4, ExpiredOwned DEF GivesUp
    <3>3. CallsTypeOK' /\ LockHolder' /\ CallsAgree'
      BY <1>1, <1>3, <2>1, <2>4, <3>1, LeaveInv DEF OrderAnswered, cancelVars
    <3> QED
      BY <3>2, <3>3, NoneOwn DEF CallsInv
  <2> QED
    BY <1>3, <2>3, <2>4 DEF OrderAnswered
<1>4. CASE CancelAnswered(t, ret)
  <2>1. /\ call[t].op = "sellwait" /\ ~ Awaits(t) /\ Leave(t)
        /\ cancelQ # <<>> /\ cancelQ' = Tail(cancelQ)
        /\ UNCHANGED <<late, wire, answers, tradeQ, cancelled>>
    BY <1>4 DEF CancelAnswered, Awaits
  <2>2. cancelQ' \in Seq(BOOLEAN)
    BY <1>1, <2>1
  <2>3. CallsTypeOK' /\ LockHolder' /\ CallsAgree'
    BY <1>1, <1>4, <2>1, <2>2, LeaveInv DEF CancelAnswered
  <2>4. \A u \in Thread : ~ Awaits(u)
    BY <1>1, <2>1, OnlyHolder
  <2> QED
    BY <1>1, <2>1, <2>3, <2>4, QuietOwn DEF CallsInv
<1> QED
  BY <1>2, <1>3, <1>4 DEF Returns

LEMMA CallStepInv ==
  ASSUME CallsInv, NEW t \in Thread, CallStep(t)
  PROVE  CallsInv'
<1>1. CASE UseNull(t)
  <2>1. CallsTypeOK' /\ LockHolder' /\ CallsAgree'
    BY <1>1 DEF UseNull, CallsInv, CallsTypeOK, TradeTypeOK, LockHolder, CallsAgree,
       tradeVars, cancelVars
  <2>2. UNCHANGED <<late, wire, answers, tradeQ, call, method>> /\ Owned(Awaited)
    BY <1>1 DEF UseNull, tradeVars, CallsInv
  <2>3. \A u \in Thread : Awaits(u) => Awaits(u)' /\ call'[u].id = call[u].id
    BY <2>2 DEF Awaits
  <2> QED
    BY <2>1, <2>2, <2>3, QuietOwn DEF CallsInv
<1> QED
  BY <1>1, TakeLockInv, TestSocketInv, SendOrderInv, SendCancelInv DEF CallStep
-----------------------------------------------------------------------------
(* close_trade_ugly, the exchange and the connection. *)

\* A step that leaves calls and their lock alone.
LEMMA OutsideInv ==
  ASSUME CallsInv, CallsTypeOK', UNCHANGED <<call, tlock, method>>,
         late' = 0 => OwnedBy(Awaited, wire', answers', tradeQ')
  PROVE  CallsInv'
<1>1. LockHolder' /\ CallsAgree'
  BY DEF CallsInv, LockHolder, CallsAgree
<1>2. Awaited' = Awaited
  BY DEF Awaited, Awaits
<1> QED
  BY <1>1, <1>2 DEF CallsInv, Owned

LEMMA DocloseInv ==
  ASSUME CallsInv, Doclose \/ ForgetSocket \/ OnOpenReset
  PROVE  CallsInv'
<1>1. CallsTypeOK'
  BY DEF CallsInv, CallsTypeOK, TradeTypeOK, Doclose, ForgetSocket, OnOpenReset,
     tradeVars, cancelVars
<1>2. UNCHANGED <<call, tlock, method, late, tradeQ>>
  BY DEF Doclose, ForgetSocket, OnOpenReset, tradeVars
<1>3. \/ UNCHANGED <<wire, answers>>
      \/ wire' = {} /\ answers' = {}
  BY DEF Doclose, ForgetSocket, OnOpenReset, tradeVars
<1>4. late' = 0 => OwnedBy(Awaited, wire', answers', tradeQ')
  BY <1>2, <1>3, LossOwned DEF CallsInv, Owned
<1> QED
  BY <1>1, <1>2, <1>4, OutsideInv

\* Steps of Trade's environment, and what they take of the cancels.
LEMMA EnvironmentInv ==
  ASSUME CallsInv, Environment, cancelWire' \in {{}, cancelWire},
         cancelAnswer' \in {{}, cancelAnswer},
         ptr' \in BOOLEAN, opening' \in BOOLEAN,
         UNCHANGED <<method, checked, byHand, cancelQ, dead>>
  PROVE  CallsInv'
<1>1. TradeTypeOK' /\ call' = call /\ tlock' = tlock
  BY EnvironmentType DEF CallsInv, CallsTypeOK
<1>2. CallsTypeOK'
  BY <1>1 DEF CallsInv, CallsTypeOK
<1>3. late' = 0 => OwnedBy(Awaited, wire', answers', tradeQ')
  BY EnvironmentOwned DEF CallsInv, CallsTypeOK
<1> QED
  BY <1>1, <1>2, <1>3, OutsideInv

LEMMA CancelsInv ==
  ASSUME CallsInv, HandleCancel \/ DispatchCancel
  PROVE  CallsInv'
<1>1. CallsTypeOK /\ TradeTypeOK /\ acct.btc \in Nat /\ acct.cash \in Nat
      /\ Lot \in Nat
  BY TradeAssumption DEF CallsInv, CallsTypeOK, TradeTypeOK
<1>2. UNCHANGED <<call, tlock, method, late, wire, answers, tradeQ>>
  BY DEF HandleCancel, DispatchCancel, tradeVars
<1>3. CallsTypeOK'
  <2>1. CASE HandleCancel
    <3>1. PICK id \in cancelWire :
            /\ cancelWire' = cancelWire \ {id}
            /\ cancelAnswer' = cancelAnswer \cup {id \in open}
            /\ open' = open \ {id}
            /\ acct' = IF id \in open
                       THEN [btc |-> acct.btc, cash |-> acct.cash + Lot] ELSE acct
      BY <2>1 DEF HandleCancel
    <3>2. acct' \in [btc : Nat, cash : Nat]
      BY <1>1, <3>1 DEF TradeTypeOK
    <3>3. cancelAnswer' \subseteq BOOLEAN
      BY <1>1, <3>1 DEF CallsTypeOK
    <3> QED
      BY <1>1, <2>1, <3>1, <3>2, <3>3 DEF HandleCancel, CallsTypeOK, TradeTypeOK
  <2>2. CASE DispatchCancel
    <3>1. PICK ok \in cancelAnswer :
            cancelAnswer' = cancelAnswer \ {ok} /\ cancelQ' = Append(cancelQ, ok)
      BY <2>2 DEF DispatchCancel
    <3>2. cancelQ' \in Seq(BOOLEAN)
      BY <1>1, <3>1, AppendProperties DEF CallsTypeOK
    <3> QED
      BY <1>1, <2>2, <3>1, <3>2 DEF DispatchCancel, CallsTypeOK, TradeTypeOK, tradeVars
  <2> QED
    BY <2>1, <2>2
<1>4. late' = 0 => OwnedBy(Awaited, wire', answers', tradeQ')
  BY <1>2 DEF CallsInv, Owned
<1> QED
  BY <1>2, <1>3, <1>4, OutsideInv
-----------------------------------------------------------------------------
(* The threads of AssetFreeze. *)
LEMMA FreezeStep ==
  ASSUME IInv, GlobalAssetFreeze
  PROVE  IInv'
<1>0. /\ CallsInv /\ FreezeTypeOK /\ Freeze \in Thread /\ MaxRetry \in Nat \ {0}
      /\ retry \in 0 .. MaxRetry /\ free \in {0, Lot} /\ NoId \in Id \cup {NoId}
  BY FreezeAssumption DEF IInv, FreezeTypeOK, Info
\* A step of the thread's own leaves Trade alone.
<1>a. ASSUME UNCHANGED <<tradeVars, callsVars>> PROVE CallsInv'
  BY <1>0, <1>a DEF CallsInv, tradeVars, callsVars, cancelVars, CallsTypeOK, TradeTypeOK,
     LockHolder, CallsAgree, Owned, Awaited, Awaits
<1>1. CASE FreezeTop \/ FreezeSetOut \/ FreezeTest \/ FreezeQuit
  <2>1. CallsInv'
    BY <1>1, <1>a DEF FreezeTop, FreezeSetOut, FreezeTest, FreezeQuit
  <2>2. FreezeTypeOK'
    <3>1. CASE FreezeTop \/ FreezeSetOut
      BY <1>0, <3>1 DEF FreezeTop, FreezeSetOut, Step, FreezeTypeOK
    <3>2. CASE FreezeTest
      <4>1. retry' \in 0 .. MaxRetry /\ free' \in Info
        BY <1>0, <3>2 DEF FreezeTest, Info
      <4> QED
        BY <1>0, <3>2, <4>1 DEF FreezeTest, FreezeTypeOK
    <3>3. CASE FreezeQuit
      <4>1. innerSig = 0 /\ innerSig' = 1
        BY <1>0, <3>3 DEF FreezeQuit, Step, FreezeTypeOK
      <4> QED
        BY <1>0, <3>3, <4>1 DEF FreezeQuit, Step, FreezeTypeOK
    <3> QED
      BY <1>1, <3>1, <3>2, <3>3
  <2> QED
    BY <2>1, <2>2 DEF IInv
<1>2. CASE FreezePop
  <2>1. CallsInv'
    BY <1>2, <1>a DEF FreezePop
  <2>2. infoQ \in Seq(Info) /\ infoQ # <<>> /\ infoQ' = Tail(infoQ)
    BY <1>0, <1>2 DEF FreezePop, FreezeTypeOK
  <2>3. infoQ' \in Seq(Info) /\ Head(infoQ) \in Info
    BY <2>2, HeadTailProperties
  <2>4. retry' \in 0 .. MaxRetry /\ free' \in Info /\ pc' \in {"loop", "top"}
    BY <1>0, <1>2, <2>3 DEF FreezePop, Info
  <2>5. FreezeTypeOK'
    BY <1>0, <1>2, <2>3, <2>4 DEF FreezePop, FreezeTypeOK
  <2> QED
    BY <2>1, <2>5 DEF IInv
<1>3. CASE FreezeLoop
  <2>1. CASE retry < MaxRetry
    <3>1. /\ Enter(Freeze, "sell", NoId, free) /\ pc = "loop" /\ pc' = "sell"
          /\ UNCHANGED <<retry, free, infoQ, status, signal, innerSig, query>>
      BY <1>3, <2>1 DEF FreezeLoop
    <3>2. CallsInv'
      BY <1>0, <3>1, EnterInv
    <3>3. FreezeTypeOK'
      BY <1>0, <2>1, <3>1 DEF FreezeTypeOK
    <3> QED
      BY <3>2, <3>3 DEF IInv
  <2>2. CASE ~ (retry < MaxRetry)
    <3>1. /\ pc = "loop" /\ pc' = "top" /\ retry' = 0 /\ free' = 0
          /\ UNCHANGED <<tradeVars, callsVars, infoQ, status, signal, innerSig, query>>
      BY <1>3, <2>2 DEF FreezeLoop
    <3>2. FreezeTypeOK'
      BY <1>0, <3>1 DEF FreezeTypeOK, Info
    <3> QED
      BY <3>1, <3>2, <1>a DEF IInv
  <2> QED
    BY <2>1, <2>2
<1>4. CASE FreezeSold
  <2>1. PICK ret \in {0, -1} : /\ Returns(Freeze, ret)
                               /\ IF ret = 0 THEN pc' = "setOut" /\ retry' = retry
                                  ELSE pc' = "loop" /\ retry' = retry + 1
    BY <1>4 DEF FreezeSold
  <2>2. CallsInv'
    BY <1>0, <2>1, ReturnsInv
  <2>3. pc = "sell" /\ retry < MaxRetry
    BY <1>0, <1>4 DEF FreezeSold, FreezeTypeOK
  <2>4. FreezeTypeOK'
    BY <1>0, <1>4, <2>1, <2>3 DEF FreezeSold, FreezeTypeOK
  <2> QED
    BY <2>2, <2>4 DEF IInv
<1>5. CASE FreezeDoclose \/ FreezeNull
  <2>1. CallsInv'
    BY <1>0, <1>5, DocloseInv DEF FreezeDoclose, FreezeNull
  <2>2. FreezeTypeOK'
    BY <1>0, <1>5 DEF FreezeDoclose, FreezeNull, Step, FreezeTypeOK
  <2> QED
    BY <2>1, <2>2 DEF IInv
<1>6. CASE CallStep(Freeze) /\ UNCHANGED freezeVars
  BY <1>0, <1>6, CallStepInv DEF IInv, FreezeTypeOK, freezeVars
<1> QED
  BY <1>1, <1>2, <1>3, <1>4, <1>5, <1>6 DEF GlobalAssetFreeze

LEMMA OthersStep ==
  ASSUME IInv, NEW t \in Others, Calls(t) \/ Trades(t) \/ CallEnds(t)
  PROVE  IInv'
<1>0. CallsInv /\ FreezeTypeOK /\ t \in Thread /\ Lot \in {0, Lot} /\ 0 \in {0, Lot}
      /\ open \subseteq Id
  BY DEF IInv, Others, CallsInv, CallsTypeOK, TradeTypeOK
<1>1. CASE Calls(t)
  <2>1. CallsInv'
    <3>1. ASSUME NEW m \in {"buy", "sell"}, Enter(t, m, NoId, Lot) PROVE CallsInv'
      BY <1>0, <3>1, EnterInv
    <3>2. ASSUME NEW id \in open, Enter(t, "cancel", id, 0) PROVE CallsInv'
      BY <1>0, <3>2, EnterInv
    <3> QED
      BY <1>1, <3>1, <3>2 DEF Calls
  <2> QED
    BY <1>0, <1>1, <2>1 DEF Calls, IInv, FreezeTypeOK, freezeVars
<1>2. CASE Trades(t)
  BY <1>0, <1>2, CallStepInv DEF Trades, IInv, FreezeTypeOK, freezeVars
<1>3. CASE CallEnds(t)
  <2>1. CallsInv'
    BY <1>0, <1>3, ReturnsInv DEF CallEnds
  <2>2. FreezeTypeOK'
    BY <1>0, <1>3 DEF CallEnds, FreezeTypeOK
  <2> QED
    BY <2>1, <2>2 DEF IInv
<1> QED
  BY <1>1, <1>2, <1>3

LEMMA QueryStep ==
  ASSUME IInv, QueryTest \/ QueryAsset \/ QueryEnds \/ Stop
  PROVE  IInv'
<1>0. CallsInv /\ FreezeTypeOK
  BY DEF IInv
<1>1. CallsInv'
  <2>1. UNCHANGED <<tradeVars, method, checked, ptr, byHand, opening, cancelVars>>
        /\ dead' \in BOOLEAN \cup {dead}
    BY DEF QueryTest, QueryAsset, QueryEnds, Stop, callsVars
  <2> QED
    BY <1>0, <2>1 DEF CallsInv, tradeVars, cancelVars, CallsTypeOK, TradeTypeOK,
       LockHolder, CallsAgree, Owned, Awaited, Awaits
<1>2. infoQ' \in Seq(Info)
  <2>1. infoQ' = infoQ \/ \E sell \in Info : infoQ' = <<sell>>
    BY DEF QueryTest, QueryAsset, QueryEnds, Stop
  <2>2. \A sell \in Info : <<sell>> \in Seq(Info)
    OBVIOUS
  <2>3. infoQ \in Seq(Info)
    BY <1>0 DEF FreezeTypeOK
  <2> QED
    BY <2>1, <2>2, <2>3
<1>3. FreezeTypeOK'
  BY <1>0, <1>2 DEF QueryTest, QueryAsset, QueryEnds, Stop, FreezeTypeOK
<1> QED
  BY <1>1, <1>3 DEF IInv

LEMMA ServiceStep ==
  ASSUME IInv, Serve \/ Fill \/ Connecting(Connect) \/ OnOpenReset \/ LoseConnection,
         UNCHANGED freezeVars
  PROVE  IInv'
<1>0. CallsInv /\ FreezeTypeOK' /\ ptr \in BOOLEAN /\ opening \in BOOLEAN
  BY DEF IInv, FreezeTypeOK, freezeVars, CallsInv, CallsTypeOK
<1>1. CASE HandleCancel \/ DispatchCancel
  BY <1>0, <1>1, CancelsInv DEF IInv
<1>2. CASE (HandleRequest \/ Dispatch \/ FillOrder) /\ UNCHANGED callsVars
  BY <1>0, <1>2, EnvironmentInv DEF IInv, Environment, callsVars, cancelVars
<1>3. CASE Connecting(Connect)
  <2>1. ptr' \in BOOLEAN /\ opening' \in BOOLEAN
    BY <1>0, <1>3 DEF Connecting
  <2> QED
    BY <1>0, <1>3, <2>1, EnvironmentInv DEF IInv, Environment, Connecting, cancelVars
<1>4. CASE OnOpenReset
  BY <1>0, <1>4, DocloseInv DEF IInv
<1>5. CASE LoseConnection
  BY <1>0, <1>5, EnvironmentInv DEF IInv, Environment, LoseConnection
<1> QED
  BY <1>1, <1>2, <1>3, <1>4, <1>5 DEF Serve, Fill

LEMMA InitInv == Init => IInv
<1> SUFFICES ASSUME Init PROVE IInv
  OBVIOUS
<1>1. TradeTypeOK /\ LockHolder
  BY TradeInitType DEF Init, CallsInit
<1>2. /\ call = [t \in Thread |-> [op |-> "idle", id |-> NoId, amount |-> 0]]
      /\ method = [t \in Thread |-> "none"] /\ checked = [t \in Thread |-> FALSE]
      /\ wire = {} /\ answers = {} /\ tradeQ = <<>>
      /\ ptr = TRUE /\ byHand = FALSE /\ opening = FALSE /\ cancelWire = {}
      /\ cancelAnswer = {} /\ cancelQ = <<>> /\ dead = FALSE
  BY DEF Init, CallsInit, TradeInit
<1>3. CallsTypeOK
  <2>1. cancelQ \in Seq(BOOLEAN)
    BY <1>2
  <2>2. method \in [Thread -> Method] /\ checked \in [Thread -> BOOLEAN]
    BY <1>2 DEF Method
  <2>3. {ptr, byHand, opening, dead} \subseteq BOOLEAN
    BY <1>2
  <2>4. cancelWire \subseteq Id /\ cancelAnswer \subseteq BOOLEAN
    BY <1>2
  <2> QED
    BY <1>1, <2>1, <2>2, <2>3, <2>4 DEF CallsTypeOK
<1>4. CallsAgree
  BY <1>2 DEF CallsAgree
<1>5. Owned(Awaited)
  <2>1. Orders(wire) = {} /\ Replies(answers) = {} /\ DOMAIN tradeQ = {}
        /\ Len(tradeQ) = 0
    BY <1>2 DEF Orders, Replies
  <2> QED
    BY <1>2, <2>1 DEF Owned, OwnedBy, Single, Ids
<1>6. FreezeTypeOK
  <2>1. infoQ \in Seq(Info)
    BY DEF Init
  <2>2. /\ pc = "top" /\ retry = 0 /\ free = 0 /\ status = "out"
        /\ signal = 0 /\ innerSig = 0 /\ query = "run"
    BY DEF Init
  <2>3. retry \in 0 .. MaxRetry /\ signal \in 0 .. 1 /\ innerSig \in 0 .. 1
    BY <2>2, FreezeAssumption
  <2>4. free \in Info
    BY <2>2 DEF Info
  <2>5. innerSig # 1
    BY <2>2
  <2> QED
    BY <2>1, <2>2, <2>3, <2>4, <2>5 DEF FreezeTypeOK
<1> QED
  BY <1>1, <1>3, <1>4, <1>5, <1>6 DEF IInv, CallsInv

LEMMA StepInv == IInv /\ [Next]_vars => IInv'
<1> SUFFICES ASSUME IInv, [Next]_vars PROVE IInv'
  OBVIOUS
<1>1. CASE Next
  BY <1>1, FreezeStep, OthersStep, QueryStep, ServiceStep DEF Next
<1>2. CASE UNCHANGED vars
  BY <1>2 DEF vars, tradeVars, callsVars, cancelVars, freezeVars, IInv, CallsInv,
     CallsTypeOK, TradeTypeOK, LockHolder, CallsAgree, Owned, Awaited, Awaits,
     FreezeTypeOK
<1> QED
  BY <1>1, <1>2

\* Every state of every run satisfies IInv: the types, who is inside Trade::lock, and
\* that an order on its way is that of the caller who waits.
THEOREM Invariance == Spec => []IInv
  BY InitInv, StepInv, PTL DEF Spec

\* The freeze's counters and queues, and those of Trade, keep their types.
THEOREM TypeCorrect == Spec => []TypeOK
<1>1. IInv => TypeOK
  BY DEF IInv, CallsInv, FreezeTypeOK, TypeOK
<1> QED
  BY <1>1, Invariance, PTL

\* However many threads buy, sell and cancel beside the freeze, Trade::lock alone
\* keeps their replies apart (trade.h:56, 75, 94, 114, 132).
THEOREM RepliesOwn == Spec => []OwnReply
<1>1. IInv => OwnReply
  <2> SUFFICES ASSUME Owned(Awaited), late = 0, NEW i \in DOMAIN tradeQ
               PROVE  \E t \in Thread : Awaits(t) /\ call[t].id = tradeQ[i].id
    BY DEF IInv, CallsInv, OwnReply
  <2>1. tradeQ[i].id \in Awaited
    BY DEF Owned, OwnedBy, Ids
  <2> QED
    BY <2>1 DEF Awaited
<1> QED
  BY <1>1, Invariance, PTL
-----------------------------------------------------------------------------
(* What a close leaves behind. *)

\* A connection closed by hand has nothing under way.
Closed ==
  byHand => conn = "closed" /\ wire = {} /\ answers = {} /\ cancelWire = {}

\* What a step may still do then.
Final == byHand => byHand' /\ open' \subseteq open

\* An emit on a connection that is down puts nothing on it.
LEMMA CallFinal ==
  ASSUME Closed, NEW t \in Thread,
         \/ CallStep(t)
         \/ \E ret \in {0, -1} : Returns(t, ret)
         \/ \E m \in Method, id \in Id \cup {NoId}, amount \in {0, Lot} :
              Enter(t, m, id, amount)
  PROVE  Closed' /\ Final
<1>1. /\ UNCHANGED <<conn, byHand, open>>
      /\ byHand => UNCHANGED <<wire, answers, cancelWire>>
  <2>1. CASE CallStep(t)
    BY <2>1 DEF Closed, CallStep, TakeLock, TestSocket, SendOrder, SendCancel, UseNull,
       OkSpotcnyTrade, Emit, noCallVars, callsVars, cancelVars, tradeVars
  <2>2. CASE \E ret \in {0, -1} : Returns(t, ret)
    BY <2>2 DEF Closed, Returns, OrderThrows, CancelThrows, OrderAnswered,
       CancelAnswered, OkSpotcnyTrade, Emit, cancelVars
  <2>3. CASE \E m \in Method, id \in Id \cup {NoId}, amount \in {0, Lot} :
              Enter(t, m, id, amount)
    BY <2>3 DEF Enter, noCallVars, cancelVars
  <2> QED
    BY <2>1, <2>2, <2>3
<1> QED
  BY <1>1 DEF Closed, Final

\* The exchange and the connection have nothing to work on, and RunThread does not
\* reconnect.
LEMMA ServiceFinal ==
  ASSUME Closed, Serve \/ Fill \/ Connecting(Connect) \/ OnOpenReset \/ LoseConnection
  PROVE  Closed' /\ Final
<1>1. byHand' = byHand
  BY DEF Serve, Fill, Connecting, OnOpenReset, LoseConnection, HandleCancel,
     DispatchCancel, callsVars
<1>2. ASSUME byHand
      PROVE  /\ UNCHANGED <<conn, wire, answers, cancelWire>>
             /\ open' \subseteq open
  <2>1. conn = "closed" /\ wire = {} /\ cancelWire = {}
    BY <1>2 DEF Closed
  <2>2. (Fill \/ OnOpenReset) /\ conn = "closed"
    BY <1>2, <2>1 DEF Serve, Connecting, LoseConnection, HandleRequest, HandleCancel,
       Dispatch, DispatchCancel, OnClose, Lose
  <2> QED
    BY <2>2 DEF Fill, FillOrder, OnOpenReset, callsVars, cancelVars, tradeVars
<1> QED
  BY <1>1, <1>2 DEF Closed, Final

LEMMA ClosedStep ==
  ASSUME IInv, Closed, [Next]_vars
  PROVE  Closed' /\ Final
<1>1. CASE FreezeDoclose
  BY <1>1 DEF FreezeDoclose, Doclose, Closed, Final
<1>2. CASE CallStep(Freeze) \/ FreezeSold
  BY <1>2, CallFinal, FreezeAssumption DEF FreezeSold
<1>3. CASE FreezeLoop /\ Enter(Freeze, "sell", NoId, free)
  BY <1>3, CallFinal, FreezeAssumption DEF Method, IInv, FreezeTypeOK, Info
<1>4. CASE \E t \in Others : Calls(t) \/ Trades(t) \/ CallEnds(t)
  <2>1. PICK t \in Others : Calls(t) \/ Trades(t) \/ CallEnds(t)
    BY <1>4
  <2>2. t \in Thread /\ open \subseteq Id
    BY DEF Others, IInv, CallsInv, CallsTypeOK, TradeTypeOK
  <2>3. CASE Calls(t)
    BY <2>2, <2>3, CallFinal DEF Calls, Method
  <2>4. CASE Trades(t) \/ CallEnds(t)
    BY <2>2, <2>4, CallFinal DEF Trades, CallEnds
  <2> QED
    BY <2>1, <2>3, <2>4
<1>5. CASE Serve \/ Fill \/ Connecting(Connect) \/ OnOpenReset \/ LoseConnection
  BY <1>5, ServiceFinal
\* What is left has nothing to do with the connection.
<1>6. ASSUME UNCHANGED <<conn, wire, answers, cancelWire, byHand, open>>
      PROVE  Closed' /\ Final
  BY <1>6 DEF Closed, Final
<1>7. CASE \/ FreezeTop \/ FreezePop \/ FreezeSetOut \/ FreezeTest \/ FreezeNull
           \/ FreezeQuit \/ QueryTest \/ QueryAsset \/ QueryEnds \/ Stop
           \/ UNCHANGED vars
  BY <1>6, <1>7 DEF FreezeTop, FreezePop, FreezeSetOut, FreezeTest, FreezeNull,
     ForgetSocket, FreezeQuit, QueryTest, QueryAsset, QueryEnds, Stop, vars, tradeVars,
     callsVars, cancelVars
<1>8. CASE FreezeLoop /\ UNCHANGED <<tradeVars, callsVars>>
  BY <1>6, <1>8 DEF tradeVars, callsVars, cancelVars
<1> QED
  <2>1. FreezeLoop => \/ Enter(Freeze, "sell", NoId, free)
                      \/ UNCHANGED <<tradeVars, callsVars>>
    BY DEF FreezeLoop
  <2> QED
    BY <1>1, <1>2, <1>3, <1>4, <1>5, <1>7, <1>8, <2>1 DEF Next, GlobalAssetFreeze

\* However many threads are in a call when doclose closes the connection, on_open having
\* passed, none of them gets a request out any more and RunThread leaves it closed
\* (trade.h:27, websocket.h:166, okcoinwebsocketapi.cpp:99).
THEOREM ExitFinal == Spec => ExitIsFinal
<1>1. Init => Closed
  BY DEF Init, CallsInit, Closed
<1>2. IInv /\ Closed /\ [Next]_vars => Closed'
  BY ClosedStep
<1>3. IInv /\ Closed /\ [Next]_vars
        => [ byHand => byHand' /\ conn' = "closed" /\ wire' = {} /\ cancelWire' = {}
                       /\ open' \subseteq open ]_vars
  BY ClosedStep DEF Closed, Final
<1> QED
  BY <1>1, <1>2, <1>3, Invariance, PTL DEF Spec, ExitIsFinal
=============================================================================
