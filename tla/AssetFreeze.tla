---------------------------- MODULE AssetFreeze ----------------------------
(* AssetFreeze (strategy/asset_freeze.h) over Trade: the thread that sells
   everything and closes the connection when the account has lost too much, beside
   other threads that trade.                                                  *)
EXTENDS TradeCalls

CONSTANTS
  Freeze,     \* t1_, the thread of global_asset_freeze
  MaxRetry    \* 500 in the code

ASSUME FreezeAssumption == Freeze \in Thread /\ MaxRetry \in Nat \ {0}

VARIABLES
  pc,        \* global_asset_freeze: the step it is about to take
  retry,     \* its retry
  free,      \* its btc_free
  infoQ,     \* queue "ok_spotcny_userinfo"
  status,    \* AccountStatus::status
  signal, innerSig,
  query      \* t2_, the thread of query_asset

freezeVars == <<pc, retry, free, infoQ, status, signal, innerSig, query>>
vars == <<tradeVars, callsVars, freezeVars>>

\* What an ok_spotcny_userinfo document comes to: the coins to sell, 0 when their value
\* is not below target_asset.
Info == {0, Lot}

TypeOK ==
  /\ CallsTypeOK
  /\ pc \in {"top", "pop", "loop", "sell", "setOut", "test",
             "doclose", "null", "quit", "done"}
  /\ retry \in 0 .. MaxRetry /\ free \in Info /\ infoQ \in Seq(Info)
  /\ status \in {"in", "out"} /\ query \in {"run", "tested", "done"}
  /\ signal \in 0 .. 1 /\ innerSig \in 0 .. 1

Init ==
  /\ CallsInit
  /\ pc = "top" /\ retry = 0 /\ free = 0 /\ infoQ = <<>> /\ status = "out"
  /\ signal = 0 /\ innerSig = 0 /\ query = "run"

Others == Thread \ {Freeze}
-----------------------------------------------------------------------------
(* global_asset_freeze. *)
Step(from, to) == pc = from /\ pc' = to

FreezeTop ==
  /\ pc = "top" /\ pc' = (IF signal # 1 THEN "pop" ELSE "quit")
  /\ UNCHANGED <<tradeVars, callsVars, retry, free, infoQ, status, signal,
                 innerSig, query>>

\* queue.pop(), without a time-out, and the decision: in_trading, res < target_asset
\* and btc_free >= 0.01.
FreezePop ==
  /\ pc = "pop" /\ infoQ # <<>> /\ infoQ' = Tail(infoQ)
  /\ IF status = "in" /\ Head(infoQ) > 0
     THEN pc' = "loop" /\ retry' = 1 /\ free' = Head(infoQ)
     ELSE pc' = "top" /\ UNCHANGED <<retry, free>>
  /\ UNCHANGED <<tradeVars, callsVars, status, signal, innerSig, query>>

\* Mutant: one try too many.
FreezeLoopOnceMore ==
  /\ pc = "loop"
  /\ IF retry <= MaxRetry
     THEN Enter(Freeze, "sell", NoId, free) /\ pc' = "sell" /\ UNCHANGED <<retry, free>>
     ELSE /\ pc' = "top" /\ retry' = 0 /\ free' = 0 /\ UNCHANGED <<tradeVars, callsVars>>
  /\ UNCHANGED <<infoQ, status, signal, innerSig, query>>

FreezeLoop ==
  /\ pc = "loop"
  /\ IF retry < MaxRetry
     THEN Enter(Freeze, "sell", NoId, free) /\ pc' = "sell" /\ UNCHANGED <<retry, free>>
     ELSE /\ pc' = "top" /\ retry' = 0 /\ free' = 0 /\ UNCHANGED <<tradeVars, callsVars>>
  /\ UNCHANGED <<infoQ, status, signal, innerSig, query>>

\* Mutant: the loop forgets to count.
FreezeSoldForever ==
  /\ pc = "sell"
  /\ \E ret \in {0, -1} :
       /\ Returns(Freeze, ret)
       /\ pc' = (IF ret = 0 THEN "setOut" ELSE "loop") /\ retry' = retry
  /\ UNCHANGED <<free, infoQ, status, signal, innerSig, query>>

FreezeSold ==
  /\ pc = "sell"
  /\ \E ret \in {0, -1} :
       /\ Returns(Freeze, ret)
       /\ IF ret = 0 THEN pc' = "setOut" /\ UNCHANGED retry
                     ELSE pc' = "loop" /\ retry' = retry + 1
  /\ UNCHANGED <<free, infoQ, status, signal, innerSig, query>>

\* worked is left out: nobody asks is_worked().
FreezeSetOut ==
  /\ Step("setOut", "test") /\ status' = "out"
  /\ UNCHANGED <<tradeVars, callsVars, retry, free, infoQ, signal, innerSig, query>>

\* Mutant: close_trade_ugly closes only what is not valid.
TestInverted ==
  /\ pc = "test" /\ pc' = (IF ptr /\ conn = "closed" THEN "doclose" ELSE "top")
  /\ retry' = 0 /\ free' = 0
  /\ UNCHANGED <<tradeVars, callsVars, infoQ, status, signal, innerSig, query>>

\* close_trade_ugly leaves a connection alone that is down when it looks, ...
FreezeTest ==
  /\ pc = "test" /\ pc' = (IF ptr /\ conn # "closed" THEN "doclose" ELSE "top")
  /\ retry' = 0 /\ free' = 0
  /\ UNCHANGED <<tradeVars, callsVars, infoQ, status, signal, innerSig, query>>

\* ... and otherwise closes it and drops the pointer.
FreezeDoclose ==
  /\ Step("doclose", "null") /\ Doclose
  /\ UNCHANGED <<retry, free, infoQ, status, signal, innerSig, query>>

FreezeNull ==
  /\ Step("null", "top") /\ ForgetSocket
  /\ UNCHANGED <<retry, free, infoQ, status, signal, innerSig, query>>

FreezeQuit ==
  /\ Step("quit", "done") /\ innerSig' = innerSig + 1
  /\ UNCHANGED <<tradeVars, callsVars, retry, free, infoQ, status, signal, query>>

GlobalAssetFreeze ==
  \/ FreezeTop \/ FreezePop \/ FreezeLoop \/ FreezeSold \/ FreezeSetOut
  \/ FreezeTest \/ FreezeDoclose \/ FreezeNull \/ FreezeQuit
  \/ CallStep(Freeze) /\ UNCHANGED freezeVars
-----------------------------------------------------------------------------
\* query_asset asks every freq milliseconds: the test of s_, ...
QueryTest ==
  /\ query = "run" /\ innerSig # 1 /\ ptr /\ conn # "closed" /\ query' = "tested"
  /\ UNCHANGED <<tradeVars, callsVars, pc, retry, free, infoQ, status, signal,
                 innerSig>>

\* ... and its use, on an open connection answered by a document.  Whether the value
\* of the free coins is below target_asset is left open.
QueryAsset ==
  /\ query = "tested" /\ query' = "run" /\ dead' = ~ ptr
  /\ IF ptr /\ conn = "open" /\ infoQ = <<>>
     THEN \E sell \in Info : sell <= acct.btc /\ infoQ' = <<sell>>
     ELSE UNCHANGED infoQ
  /\ UNCHANGED <<tradeVars, method, checked, ptr, byHand, opening, cancelVars, pc, retry,
                 free, status, signal, innerSig>>

QueryEnds ==
  /\ query = "run" /\ innerSig = 1 /\ query' = "done"
  /\ UNCHANGED <<tradeVars, callsVars, pc, retry, free, infoQ, status, signal,
                 innerSig>>

\* Another thread trades: any call, and the status that a purchase or sale leaves.
Calls(t) ==
  /\ \/ \E m \in {"buy", "sell"} : Enter(t, m, NoId, Lot)
     \/ \E id \in open : Enter(t, "cancel", id, 0)
  /\ UNCHANGED freezeVars

Trades(t) == CallStep(t) /\ UNCHANGED freezeVars

CallEnds(t) ==
  /\ \E ret \in {0, -1} :
       /\ Returns(t, ret)
       /\ status' = (IF ret = -1 \/ method[t] = "cancel" THEN status
                 ELSE IF method[t] = "buy" THEN "in" ELSE "out")
  /\ UNCHANGED <<pc, retry, free, infoQ, signal, innerSig, query>>

Stop ==
  /\ signal = 0 /\ signal' = 1
  /\ UNCHANGED <<tradeVars, callsVars, pc, retry, free, infoQ, status, innerSig,
                 query>>

Joined == pc = "done" /\ query = "done"

Next ==
  /\ ~ dead
  /\ \/ GlobalAssetFreeze \/ QueryTest \/ QueryAsset \/ QueryEnds \/ Stop
     \/ \E t \in Others : Calls(t) \/ Trades(t) \/ CallEnds(t)
     \/ (Serve \/ Fill \/ Connecting(Connect) \/ OnOpenReset \/ LoseConnection)
        /\ UNCHANGED freezeVars

Spec == Init /\ [][Next]_vars

\* The threads are scheduled, Trade::lock goes to each that keeps waiting for it,
\* what reaches the exchange is answered, and a handshake tried again and again
\* succeeds.
Alive(A) == ~ dead /\ A
Fairness ==
  /\ SF_vars(Alive(GlobalAssetFreeze))
  /\ \A t \in Others : SF_vars(Alive(Trades(t) \/ CallEnds(t)))
  /\ SF_vars(Alive(QueryTest \/ QueryAsset \/ QueryEnds))
  /\ WF_vars(Alive((Serve \/ Connecting(Connect) \/ OnOpenReset) /\ UNCHANGED freezeVars))
  /\ SF_vars(Alive(Connecting(OnOpen /\ UNCHANGED <<drops, late, tlock, call, wire, answers,
               tradeQ, orderQ, open, cancelled, acct, doubt>>) /\ UNCHANGED freezeVars))

FairSpec == Spec /\ Fairness
-----------------------------------------------------------------------------
\* Whatever threads trade, under Trade::lock the reply on "ok_spotcny_trade" is that
\* of the order whose caller waits, as long as none came later than its wait.
OwnReply ==
  late = 0 => \A i \in DOMAIN tradeQ :
    \E t \in Thread : Awaits(t) /\ call[t].id = tradeQ[i].id

\* A cancel whose request was skipped or whose reply was lost: it waits for ever,
\* and with the lock.
CancelStuck ==
  /\ \E t \in Thread : method[t] = "cancel" /\ call[t].op = "sellwait"
  /\ cancelWire = {} /\ cancelAnswer = {} /\ cancelQ = <<>>

\* Every call into Trade returns, whoever else trades, unless a cancel is stuck.
CallsReturn == \A t \in Thread : InCall(t) ~> ~ InCall(t) \/ CancelStuck \/ dead

\* global_asset_freeze waits for a document that nobody can ask for any more.
Starved == pc = "pop" /\ infoQ = <<>> /\ ~ ptr

\* stop() ends the thread and join() returns, unless it is behind a stuck cancel or
\* has closed the connection itself and waits for a document.
StopEnds == signal = 1 ~> Joined \/ Starved \/ CancelStuck \/ dead

\* A forced exit that finds the connection open and s_ set, and does not lose it, closes
\* it, unless a thread uses s_ just as it becomes null.
ExitCloses ==
  pc = "test" /\ conn = "open" /\ ptr ~> conn # "open" \/ dead

\* Nothing trades after a close that on_open has not taken back: whatever calls were under
\* way in whatever threads, the connection stays closed, no request is on its way and no
\* order is placed.
ExitIsFinal ==
  [][ byHand => byHand' /\ conn' = "closed" /\ wire' = {} /\ cancelWire' = {}
                /\ open' \subseteq open ]_vars
=============================================================================
