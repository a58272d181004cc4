----------------------------- MODULE TradeCalls -----------------------------
(* The calls of Trade (trade.h) that RocStrategy has no use for: buy, buy_at_market,
   sell, sell_at_market and cancel from any thread, and close_trade_ugly.  All but
   the last hold Trade::lock from their first step to their return; op "sellwait"
   of a call is the wait for its reply.  An emit is two steps here, the test of
   s_ and its use, since close_trade_ugly takes no lock.                      *)
EXTENDS Trade

VARIABLES
  method,       \* per thread: the method it is in
  checked,      \* per thread: s_ != 0 && s_->is_valid was true, its use is to come
  ptr,          \* s_ # 0
  byHand,       \* doclose has closed the connection: it is not made again
  opening,      \* on_open has set m_hdl, and m_manual_close not yet
  cancelWire,   \* cancel requests not yet handled by the exchange, by order
  cancelAnswer, \* results of cancels not yet dispatched
  cancelQ,      \* queue "ok_spotcny_cancel_order": the results on it
  dead          \* an exception left its thread, or a null pointer was used

cancelVars == <<cancelWire, cancelAnswer, cancelQ>>
callsVars  == <<method, checked, ptr, byHand, opening, cancelVars, dead>>

Method == {"none", "buy", "sell", "cancel"}

CallsTypeOK ==
  /\ TradeTypeOK
  /\ method \in [Thread -> Method] /\ checked \in [Thread -> BOOLEAN]
  /\ {ptr, byHand, opening, dead} \subseteq BOOLEAN
  /\ cancelWire \subseteq Id /\ cancelAnswer \subseteq BOOLEAN /\ cancelQ \in Seq(BOOLEAN)

\* After init() and the first set_websocket.
CallsInit ==
  /\ TradeInit
  /\ method = [t \in Thread |-> "none"] /\ checked = [t \in Thread |-> FALSE]
  /\ ptr = TRUE /\ byHand = FALSE /\ opening = FALSE
  /\ cancelWire = {} /\ cancelAnswer = {} /\ cancelQ = <<>> /\ dead = FALSE

InCall(t) == method[t] # "none"
Awaits(t) == call[t].op = "sellwait" /\ method[t] \in {"buy", "sell"}

SetOp(t, op) == call' = [call EXCEPT ![t].op = op]
-----------------------------------------------------------------------------
\* A call whose arguments are legal: an order of amount, or a cancel of order id.
Enter(t, m, id, amount) ==
  /\ ~ InCall(t) /\ method' = [method EXCEPT ![t] = m]
  /\ SetCall(t, "lock", id, amount)
  /\ UNCHANGED <<noCallVars, checked, ptr, byHand, opening, cancelVars, dead>>

\* Mutant: no lock_guard.
EnterUnlocked(t) ==
  /\ call[t].op = "lock" /\ tlock' = t /\ SetOp(t, "emit")
  /\ UNCHANGED <<conn, drops, late, wire, answers, tradeQ, orderQ, open, cancelled,
                 acct, doubt, callsVars>>

TakeLock(t) ==
  /\ call[t].op = "lock" /\ tlock = NoThread /\ tlock' = t /\ SetOp(t, "emit")
  /\ UNCHANGED <<conn, drops, late, wire, answers, tradeQ, orderQ, open, cancelled,
                 acct, doubt, callsVars>>

\* s_ != 0 && s_->is_valid.  A WebSocket that has been lost may be deleted already
\* and say anything; without a valid one the request is skipped and 0 returned.
TestSocket(t) ==
  /\ call[t].op = "emit" /\ ~ checked[t]
  /\ \/ ptr /\ checked' = [checked EXCEPT ![t] = TRUE] /\ UNCHANGED call
     \/ (~ ptr \/ conn = "closed") /\ SetOp(t, "sellwait") /\ UNCHANGED checked
  /\ UNCHANGED <<noCallVars, method, ptr, byHand, opening, cancelVars, dead>>

\* The end of a call: lock_guard's destructor.
Leave(t) ==
  /\ tlock' = NoThread /\ EndCall(t)
  /\ method' = [method EXCEPT ![t] = "none"] /\ checked' = [checked EXCEPT ![t] = FALSE]

\* s_->emit of an order, and the return when it throws.
SendOrder(t) ==
  /\ checked[t] /\ ptr /\ call[t].op = "emit" /\ method[t] \in {"buy", "sell"}
  /\ \E id \in Id \cup {NoId} :
       /\ OkSpotcnyTrade(method[t], call[t].amount, id, 0)
       /\ SetCall(t, "sellwait", id, call[t].amount)
  /\ checked' = [checked EXCEPT ![t] = FALSE]
  /\ UNCHANGED <<conn, drops, late, tlock, answers, tradeQ, orderQ, open, acct, doubt,
                 method, ptr, byHand, opening, cancelVars, dead>>

OrderThrows(t) ==
  /\ checked[t] /\ ptr /\ call[t].op = "emit" /\ method[t] \in {"buy", "sell"}
  /\ OkSpotcnyTrade(method[t], call[t].amount, NoId, -1) /\ Leave(t)
  /\ UNCHANGED <<conn, drops, late, answers, tradeQ, orderQ, open, acct, doubt,
                 ptr, byHand, opening, cancelVars, dead>>

\* A timed pop gives up; what became of the order is not kept track of here.
GivesUp(t) ==
  /\ tradeQ = <<>> /\ late' = (IF call[t].id \in InTransit THEN late + 1 ELSE late)
  /\ late' <= MaxLate

\* The wait for the reply: ten seconds on "ok_spotcny_trade", ...
OrderAnswered(t, ret) ==
  /\ Awaits(t) /\ Leave(t)
  /\ \/ /\ \E reply \in TradeReply :
             PopTrade(reply) /\ ret = (IF reply.result THEN 0 ELSE -1)
        /\ UNCHANGED late
     \/ GivesUp(t) /\ ret = -1 /\ UNCHANGED tradeQ
  /\ UNCHANGED <<conn, drops, wire, answers, orderQ, open, cancelled, acct, doubt,
                 ptr, byHand, opening, cancelVars, dead>>

\* ... for a cancel without end.
SendCancel(t) ==
  /\ checked[t] /\ ptr /\ call[t].op = "emit" /\ method[t] = "cancel"
  /\ \/ conn = "open" /\ cancelWire' = cancelWire \cup {call[t].id}
     \/ conn = "closed" /\ UNCHANGED cancelWire
  /\ SetOp(t, "sellwait") /\ checked' = [checked EXCEPT ![t] = FALSE]
  /\ UNCHANGED <<noCallVars, method, ptr, byHand, opening, cancelAnswer, cancelQ,
                 dead>>

CancelThrows(t) ==
  /\ checked[t] /\ ptr /\ call[t].op = "emit" /\ method[t] = "cancel"
  /\ conn # "open" /\ Leave(t)
  /\ UNCHANGED <<conn, drops, late, wire, answers, tradeQ, orderQ, open, cancelled, acct,
                 doubt, ptr, byHand, opening, cancelVars, dead>>

\* Mutant: the lock is kept for the next cancel.
CancelKeepsLock(t, ret) ==
  /\ call[t].op = "sellwait" /\ method[t] = "cancel" /\ cancelQ # <<>>
  /\ ret = (IF Head(cancelQ) THEN 0 ELSE -1) /\ cancelQ' = Tail(cancelQ)
  /\ EndCall(t) /\ method' = [method EXCEPT ![t] = "none"]
  /\ checked' = [checked EXCEPT ![t] = FALSE]
  /\ UNCHANGED <<noCallVars, ptr, byHand, opening, cancelWire, cancelAnswer, dead>>

CancelAnswered(t, ret) ==
  /\ call[t].op = "sellwait" /\ method[t] = "cancel" /\ cancelQ # <<>>
  /\ ret = (IF Head(cancelQ) THEN 0 ELSE -1) /\ cancelQ' = Tail(cancelQ) /\ Leave(t)
  /\ UNCHANGED <<conn, drops, late, wire, answers, tradeQ, orderQ, open, cancelled, acct,
                 doubt, ptr, byHand, opening, cancelWire, cancelAnswer, dead>>

\* emit through a pointer that has become null since it was tested.
UseNull(t) ==
  /\ checked[t] /\ ~ ptr /\ call[t].op = "emit" /\ dead' = TRUE
  /\ UNCHANGED <<tradeVars, method, checked, ptr, byHand, opening, cancelVars>>

CallStep(t) ==
  \/ TakeLock(t) \/ TestSocket(t) \/ SendOrder(t) \/ SendCancel(t) \/ UseNull(t)

Returns(t, ret) ==
  \/ (OrderThrows(t) \/ CancelThrows(t)) /\ ret = -1
  \/ OrderAnswered(t, ret) \/ CancelAnswered(t, ret)
-----------------------------------------------------------------------------
(* close_trade_ugly, after its test of s_ and is_valid. *)

\* doclose throws, out of its thread, unless the connection is open.  m_manual_close is
\* set back by an on_open that has yet to come to it: the connection is then made again.
Doclose ==
  /\ IF conn = "open"
     THEN /\ conn' = "closed" /\ byHand' = ~ opening /\ opening' = FALSE
          /\ wire' = {} /\ answers' = {} /\ cancelWire' = {} /\ cancelAnswer' = {}
          /\ UNCHANGED dead
     ELSE /\ dead' = TRUE
          /\ UNCHANGED <<conn, byHand, opening, wire, answers, cancelWire, cancelAnswer>>
  /\ UNCHANGED <<drops, late, tlock, call, tradeQ, orderQ, open, cancelled, acct, doubt,
                 method, checked, ptr, cancelQ>>

\* s_ = 0
ForgetSocket ==
  /\ ptr' = FALSE
  /\ UNCHANGED <<tradeVars, method, checked, byHand, opening, cancelVars, dead>>
-----------------------------------------------------------------------------
(* The exchange and the connection: those of Trade, and the cancels. *)

\* The rest of the order is cancelled and its cash free again; an order that has
\* been filled meanwhile is refused.
HandleCancel ==
  /\ \E id \in cancelWire :
       /\ cancelWire' = cancelWire \ {id} /\ cancelAnswer' = cancelAnswer \cup {id \in open}
       /\ open' = open \ {id}
       /\ acct' = (IF id \in open
                   THEN [btc |-> acct.btc, cash |-> acct.cash + Lot] ELSE acct)
  /\ UNCHANGED <<conn, drops, late, tlock, call, wire, answers, tradeQ, orderQ, cancelled,
                 doubt, method, checked, ptr, byHand, opening, cancelQ, dead>>

DispatchCancel ==
  /\ conn = "open" /\ ~ opening
  /\ \E ok \in cancelAnswer :
       cancelAnswer' = cancelAnswer \ {ok} /\ cancelQ' = Append(cancelQ, ok)
  /\ UNCHANGED <<tradeVars, method, checked, ptr, byHand, opening, cancelWire, dead>>

Serve ==
  \/ (HandleRequest \/ (~ opening /\ Dispatch)) /\ UNCHANGED callsVars
  \/ HandleCancel \/ DispatchCancel

Fill == FillOrder /\ UNCHANGED callsVars

\* Mutant: RunThread reconnects whatever was asked.
ConnectingAlways(step) ==
  /\ step /\ opening' = (conn' = "open") /\ ptr' = (ptr \/ conn' = "connecting")
  /\ UNCHANGED <<method, checked, byHand, cancelVars, dead>>

\* RunThread reconnects, and publishes the new WebSocket, unless it was closed by
\* hand; the handshake done, it is inside on_open.
Connecting(step) ==
  /\ step /\ (byHand => conn # "closed")
  /\ opening' = (conn' = "open") /\ ptr' = (ptr \/ conn' = "connecting")
  /\ UNCHANGED <<method, checked, byHand, cancelVars, dead>>

\* m_manual_close = false: from here on nothing takes back a doclose, and the thread is
\* on its way to the loop of the endpoint, which dispatches and finds out about losses.
OnOpenReset ==
  /\ opening /\ opening' = FALSE
  /\ UNCHANGED <<tradeVars, method, checked, ptr, byHand, cancelVars, dead>>

LoseConnection ==
  /\ OnClose /\ ~ opening /\ cancelWire' = {} /\ cancelAnswer' = {}
  /\ UNCHANGED <<method, checked, ptr, byHand, opening, cancelQ, dead>>
=============================================================================
