-------------------------- MODULE RocStrategyProofs --------------------------
(* RocStrategy keeps IInv, for any instance: any number of order ids, of
   connections lost, of replies that come too late, any window, any profits. *)
EXTENDS RocStrategyProps, TradeProofs, TLAPS

PcType == pc \in [Thread -> StrategyLabel \cup RiskLabel]

LEMMA Go1Pc ==
  ASSUME PcType, NEW l \in StrategyLabel, Go1(l)
  PROVE  PcType' /\ pc'[Strategy] = l /\ pc'[Risk] = pc[Risk]
  BY RocStrategyAssumption DEF Go1, PcType

LEMMA Go2Pc ==
  ASSUME PcType, NEW l \in RiskLabel, Go2(l)
  PROVE  PcType' /\ pc'[Risk] = l /\ pc'[Strategy] = pc[Strategy]
  BY RocStrategyAssumption DEF Go2, PcType

\* What the steps of one thread leave to the other.
LEMMA StrategyFrame ==
  ASSUME PcType, RunStrategy
  PROVE  /\ PcType' /\ pc'[Risk] = pc[Risk]
         /\ UNCHANGED <<innerSig, profit, overtaken>>
         /\ profitWin' \in {profitWin, PW!Clear(profitWin)}
<1> USE DEF botVars, books, locals
<1>1. CASE StrategyTop
  BY <1>1, Go1Pc DEF StrategyTop, StrategyLabel
<1>2. CASE StrategyKline
  BY <1>2, Go1Pc DEF StrategyKline, StrategyLabel
<1>3. CASE StrategyLock
  BY <1>3, Go1Pc DEF StrategyLock, StrategyLabel
<1>4. CASE StrategySold
  BY <1>4, Go1Pc DEF StrategySold, StrategyLabel
<1>5. CASE StrategySetOut
  BY <1>5, Go1Pc DEF StrategySetOut, StrategyLabel
<1>6. CASE StrategyClearAsset
  BY <1>6, Go1Pc DEF StrategyClearAsset, StrategyLabel
<1>7. CASE StrategyClearBtc
  BY <1>7, Go1Pc DEF StrategyClearBtc, StrategyLabel
<1>8. CASE StrategyClearWin
  BY <1>8, Go1Pc DEF StrategyClearWin, StrategyLabel
<1>9. CASE StrategyBuy
  BY <1>9, Go1Pc DEF StrategyBuy, StrategyLabel
<1>10. CASE StrategyBuyAnswered
  BY <1>10, Go1Pc DEF StrategyBuyAnswered, StrategyLabel
<1>11. CASE StrategyBuyTimedOut
  BY <1>11, Go1Pc DEF StrategyBuyTimedOut, StrategyLabel
<1>12. CASE StrategyAskOrder
  BY <1>12, Go1Pc DEF StrategyAskOrder, StrategyLabel
<1>13. CASE StrategyOrderAnswered
  BY <1>13, Go1Pc DEF StrategyOrderAnswered, StrategyLabel
<1>14. CASE StrategyOrderTimedOut
  BY <1>14, Go1Pc DEF StrategyOrderTimedOut, StrategyLabel
<1>15. CASE StrategySetAsset
  BY <1>15, Go1Pc DEF StrategySetAsset, StrategyLabel
<1>16. CASE StrategySetBtc
  BY <1>16, Go1Pc DEF StrategySetBtc, StrategyLabel
<1>17. CASE StrategySetIn
  BY <1>17, Go1Pc DEF StrategySetIn, StrategyLabel
<1>18. CASE StrategyQuit
  BY <1>18, Go1Pc DEF StrategyQuit, StrategyLabel
<1>19. CASE StrategyQuitCall
  BY <1>19, Go1Pc DEF StrategyQuitCall, StrategyLabel
<1>20. CASE StrategyQuitSold
  BY <1>20, Go1Pc DEF StrategyQuitSold, StrategyLabel
<1>21. CASE SellStep(Strategy)
  BY <1>21 DEF SellStep, PcType
<1> QED
  BY <1>1, <1>2, <1>3, <1>4, <1>5, <1>6, <1>7, <1>8, <1>9, <1>10, <1>11, <1>12,
     <1>13, <1>14, <1>15, <1>16, <1>17, <1>18, <1>19, <1>20, <1>21
     DEF RunStrategy

LEMMA RestFrame ==
  ASSUME QueryAsset \/ Kline \/ Stop \/ Outside \/ Terminated
  PROVE  UNCHANGED <<pc, mutex, books, locals, innerSig>>
  BY DEF QueryAsset, Kline, Stop, Outside, Terminated, vars, botVars, books, locals

-----------------------------------------------------------------------------
(* mutex_: taken and released where the labels say, whichever thread moves. *)
LEMMA MutexStep ==
  ASSUME PcType, MutexHolder, Next
  PROVE  MutexHolder'
<1> USE RocStrategyAssumption, TradeAssumption
    DEF MutexHolder, StrategyHolds, RiskHolds, At1, At2, tradeVars, botVars, vars
<1>1. CASE StrategyTop
  BY <1>1, Go1Pc DEF StrategyTop, StrategyLabel
<1>2. CASE StrategyKline
  BY <1>2, Go1Pc DEF StrategyKline, StrategyLabel
<1>3. CASE StrategyLock
  BY <1>3, Go1Pc DEF StrategyLock, StrategyLabel
<1>4. CASE StrategySold
  BY <1>4, Go1Pc DEF StrategySold, StrategyLabel
<1>5. CASE StrategySetOut
  BY <1>5, Go1Pc DEF StrategySetOut, StrategyLabel
<1>6. CASE StrategyClearAsset
  BY <1>6, Go1Pc DEF StrategyClearAsset, StrategyLabel
<1>7. CASE StrategyClearBtc
  BY <1>7, Go1Pc DEF StrategyClearBtc, StrategyLabel
<1>8. CASE StrategyClearWin
  BY <1>8, Go1Pc DEF StrategyClearWin, StrategyLabel
<1>9. CASE StrategyBuy
  BY <1>9, Go1Pc DEF StrategyBuy, StrategyLabel
<1>10. CASE StrategyBuyAnswered
  BY <1>10, Go1Pc DEF StrategyBuyAnswered, StrategyLabel
<1>11. CASE StrategyBuyTimedOut
  BY <1>11, Go1Pc DEF StrategyBuyTimedOut, StrategyLabel
<1>12. CASE StrategyAskOrder
  BY <1>12, Go1Pc DEF StrategyAskOrder, StrategyLabel
<1>13. CASE StrategyOrderAnswered
  BY <1>13, Go1Pc DEF StrategyOrderAnswered, StrategyLabel
<1>14. CASE StrategyOrderTimedOut
  BY <1>14, Go1Pc DEF StrategyOrderTimedOut, StrategyLabel
<1>15. CASE StrategySetAsset
  BY <1>15, Go1Pc DEF StrategySetAsset, StrategyLabel
<1>16. CASE StrategySetBtc
  BY <1>16, Go1Pc DEF StrategySetBtc, StrategyLabel
<1>17. CASE StrategySetIn
  BY <1>17, Go1Pc DEF StrategySetIn, StrategyLabel
<1>18. CASE StrategyQuit
  BY <1>18, Go1Pc DEF StrategyQuit, StrategyLabel
<1>19. CASE StrategyQuitCall
  BY <1>19, Go1Pc DEF StrategyQuitCall, StrategyLabel
<1>20. CASE StrategyQuitSold
  BY <1>20, Go1Pc DEF StrategyQuitSold, StrategyLabel
<1>21. CASE SellStep(Strategy)
  BY <1>21 DEF SellStep
<1>22. CASE RiskTop
  BY <1>22, Go2Pc DEF RiskTop, RiskLabel
<1>23. CASE RiskInfo
  BY <1>23, Go2Pc DEF RiskInfo, RiskLabel
<1>24. CASE RiskCalc
  BY <1>24, Go2Pc DEF RiskCalc, RiskLabel
<1>25. CASE RiskPut
  BY <1>25, Go2Pc DEF RiskPut, RiskLabel
<1>26. CASE RiskFull
  BY <1>26, Go2Pc DEF RiskFull, RiskLabel
<1>27. CASE RiskDecide
  BY <1>27, Go2Pc DEF RiskDecide, RiskLabel
<1>28. CASE RiskLock
  BY <1>28, Go2Pc DEF RiskLock, RiskLabel
<1>29. CASE RiskLoop
  BY <1>29, Go2Pc DEF RiskLoop, RiskLabel
<1>30. CASE RiskSold
  BY <1>30, Go2Pc DEF RiskSold, RiskLabel
<1>31. CASE RiskClearBtc
  BY <1>31, Go2Pc DEF RiskClearBtc, RiskLabel
<1>32. CASE RiskClearAsset
  BY <1>32, Go2Pc DEF RiskClearAsset, RiskLabel
<1>33. CASE RiskClearWin
  BY <1>33, Go2Pc DEF RiskClearWin, RiskLabel
<1>34. CASE RiskSetOut
  BY <1>34, Go2Pc DEF RiskSetOut, RiskLabel
<1>35. CASE SellStep(Risk)
  BY <1>35 DEF SellStep
<1>36. CASE QueryAsset \/ Kline \/ Stop \/ Outside \/ Terminated
  BY <1>36, RestFrame
<1> QED
  BY <1>1, <1>2, <1>3, <1>4, <1>5, <1>6, <1>7, <1>8, <1>9, <1>10, <1>11, <1>12,
     <1>13, <1>14, <1>15, <1>16, <1>17, <1>18, <1>19, <1>20, <1>21, <1>22, <1>23,
     <1>24, <1>25, <1>26, <1>27, <1>28, <1>29, <1>30, <1>31, <1>32, <1>33, <1>34,
     <1>35, <1>36
     DEF Next, RunStrategy, RiskControl

-----------------------------------------------------------------------------
(* inner_sig is set once, by the last step of risk_control. *)
LEMMA InnerSigStep ==
  ASSUME PcType, innerSig \in 0 .. 1, innerSig = 1 <=> At2("done"), Next
  PROVE  (innerSig = 1 <=> At2("done"))'
<1> USE RocStrategyAssumption DEF At1, At2, botVars, vars, PcType
<1>1. CASE RunStrategy
  BY <1>1, StrategyFrame
<1>2. CASE RiskTop
  BY <1>2, Go2Pc DEF RiskTop, RiskLabel
<1>3. CASE RiskInfo
  BY <1>3, Go2Pc DEF RiskInfo, RiskLabel
<1>4. CASE RiskCalc
  BY <1>4, Go2Pc DEF RiskCalc, RiskLabel
<1>5. CASE RiskPut
  BY <1>5, Go2Pc DEF RiskPut, RiskLabel
<1>6. CASE RiskFull
  BY <1>6, Go2Pc DEF RiskFull, RiskLabel
<1>7. CASE RiskDecide
  BY <1>7, Go2Pc DEF RiskDecide, RiskLabel
<1>8. CASE RiskLock
  BY <1>8, Go2Pc DEF RiskLock, RiskLabel
<1>9. CASE RiskLoop
  BY <1>9, Go2Pc DEF RiskLoop, RiskLabel
<1>10. CASE RiskSold
  BY <1>10, Go2Pc DEF RiskSold, RiskLabel
<1>11. CASE RiskClearBtc
  BY <1>11, Go2Pc DEF RiskClearBtc, RiskLabel
<1>12. CASE RiskClearAsset
  BY <1>12, Go2Pc DEF RiskClearAsset, RiskLabel
<1>13. CASE RiskClearWin
  BY <1>13, Go2Pc DEF RiskClearWin, RiskLabel
<1>14. CASE RiskSetOut
  BY <1>14, Go2Pc DEF RiskSetOut, RiskLabel
<1>15. CASE SellStep(Risk)
  BY <1>15 DEF SellStep
<1>16. CASE QueryAsset \/ Kline \/ Stop \/ Outside \/ Terminated
  BY <1>16, RestFrame
<1> QED
  BY <1>1, <1>2, <1>3, <1>4, <1>5, <1>6, <1>7, <1>8, <1>9, <1>10, <1>11, <1>12,
     <1>13, <1>14, <1>15, <1>16
     DEF Next, RiskControl

-----------------------------------------------------------------------------
(* The books.  While t1_ holds mutex_ the stop-loss is outside its critical
   section, and the other way round; what is left are the steps of the buy, which
   hold nothing and find no coins to sell.                                     *)
LEMMA BooksStep ==
  ASSUME PcType, pc[Strategy] \in StrategyLabel, pc[Risk] \in RiskLabel,
         status \in {"in", "out"}, tradingBtc \in {0, Lot},
         MutexHolder, CallsInv, BooksInv, Next
  PROVE  BooksInv'
<1> USE RocStrategyAssumption
    DEF BooksInv, StuckOnlyIfOvertaken, MutexHolder, StrategyHolds, RiskHolds,
        RiskSoldOut, Buying, At1, At2, botVars, books, locals, vars
<1>1. CASE StrategyTop
  BY <1>1, Go1Pc DEF StrategyTop, StrategyLabel
<1>2. CASE StrategyKline
  BY <1>2, Go1Pc DEF StrategyKline, StrategyLabel
<1>3. CASE StrategyLock
  BY <1>3, Go1Pc DEF StrategyLock, StrategyLabel
<1>4. CASE StrategySold
  BY <1>4, Go1Pc DEF StrategySold, StrategyLabel
<1>5. CASE StrategySetOut
  BY <1>5, Go1Pc DEF StrategySetOut, StrategyLabel
<1>6. CASE StrategyClearAsset
  BY <1>6, Go1Pc DEF StrategyClearAsset, StrategyLabel
<1>7. CASE StrategyClearBtc
  BY <1>7, Go1Pc DEF StrategyClearBtc, StrategyLabel
<1>8. CASE StrategyClearWin
  BY <1>8, Go1Pc DEF StrategyClearWin, StrategyLabel
<1>9. CASE StrategyBuy
  BY <1>9, Go1Pc DEF StrategyBuy, StrategyLabel
<1>10. CASE StrategyBuyAnswered
  BY <1>10, Go1Pc DEF StrategyBuyAnswered, StrategyLabel
<1>11. CASE StrategyBuyTimedOut
  BY <1>11, Go1Pc DEF StrategyBuyTimedOut, StrategyLabel
<1>12. CASE StrategyAskOrder
  BY <1>12, Go1Pc DEF StrategyAskOrder, StrategyLabel
<1>13. CASE StrategyOrderAnswered
  BY <1>13, Go1Pc DEF StrategyOrderAnswered, StrategyLabel
<1>14. CASE StrategyOrderTimedOut
  BY <1>14, Go1Pc DEF StrategyOrderTimedOut, StrategyLabel
<1>15. CASE StrategySetAsset
  BY <1>15, Go1Pc DEF StrategySetAsset, StrategyLabel
<1>16. CASE StrategySetBtc
  <2>1. tradingBtc' = Lot /\ Lot # 0
    BY <1>16, TradeAssumption DEF StrategySetBtc, CallsInv
  <2>2. ~ RiskSoldOut
    BY <1>16 DEF StrategySetBtc
  <2> QED
    BY <1>16, <2>1, <2>2, Go1Pc DEF StrategySetBtc, StrategyLabel
<1>17. CASE StrategySetIn
  BY <1>17, Go1Pc DEF StrategySetIn, StrategyLabel
<1>18. CASE StrategyQuit
  BY <1>18, Go1Pc DEF StrategyQuit, StrategyLabel
<1>19. CASE StrategyQuitCall
  BY <1>19, Go1Pc DEF StrategyQuitCall, StrategyLabel
<1>20. CASE StrategyQuitSold
  BY <1>20, Go1Pc DEF StrategyQuitSold, StrategyLabel
<1>21. CASE SellStep(Strategy)
  BY <1>21 DEF SellStep
<1>22. CASE RiskTop
  BY <1>22, Go2Pc DEF RiskTop, RiskLabel
<1>23. CASE RiskInfo
  BY <1>23, Go2Pc DEF RiskInfo, RiskLabel
<1>24. CASE RiskCalc
  BY <1>24, Go2Pc DEF RiskCalc, RiskLabel
<1>25. CASE RiskPut
  BY <1>25, Go2Pc DEF RiskPut, RiskLabel
<1>26. CASE RiskFull
  BY <1>26, Go2Pc DEF RiskFull, RiskLabel
<1>27. CASE RiskDecide
  BY <1>27, Go2Pc DEF RiskDecide, RiskLabel
<1>28. CASE RiskLock
  BY <1>28, Go2Pc DEF RiskLock, RiskLabel
<1>29. CASE RiskLoop
  BY <1>29, Go2Pc DEF RiskLoop, RiskLabel
<1>30. CASE RiskSold
  BY <1>30, Go2Pc DEF RiskSold, RiskLabel
<1>31. CASE RiskClearBtc
  BY <1>31, Go2Pc DEF RiskClearBtc, RiskLabel
<1>32. CASE RiskClearAsset
  BY <1>32, Go2Pc DEF RiskClearAsset, RiskLabel
<1>33. CASE RiskClearWin
  BY <1>33, Go2Pc DEF RiskClearWin, RiskLabel
<1>34. CASE RiskSetOut
  BY <1>34, Go2Pc DEF RiskSetOut, RiskLabel
<1>35. CASE SellStep(Risk)
  BY <1>35 DEF SellStep
<1>36. CASE QueryAsset \/ Kline \/ Stop \/ Outside \/ Terminated
  BY <1>36, RestFrame DEF books
<1> QED
  BY <1>1, <1>2, <1>3, <1>4, <1>5, <1>6, <1>7, <1>8, <1>9, <1>10, <1>11, <1>12,
     <1>13, <1>14, <1>15, <1>16, <1>17, <1>18, <1>19, <1>20, <1>21, <1>22, <1>23,
     <1>24, <1>25, <1>26, <1>27, <1>28, <1>29, <1>30, <1>31, <1>32, <1>33, <1>34,
     <1>35, <1>36
     DEF Next, RunStrategy, RiskControl

-----------------------------------------------------------------------------
(* profit_win. *)
LEMMA PutWindow ==
  ASSUME NEW S, NEW w \in PW!Window(S), NEW x \in S,
         w.full <=> w.size = WinSize, ~ w.full => w.index = w.size
  PROVE  LET v == PW!Put(w, x) IN
           /\ v \in PW!Window(S) /\ v.size # 0
           /\ v.full <=> v.size = WinSize
           /\ ~ v.full => v.index = v.size
           /\ \E i \in 0 .. v.size - 1 : v.arr[i] = x
<1> DEFINE v == PW!Put(w, x)
<1>1. /\ w.arr \in [0 .. WinSize - 1 -> S] /\ w.index \in 0 .. WinSize - 1
      /\ w.size \in 0 .. WinSize /\ w.full \in BOOLEAN
  BY DEF PW!Window
<1>2. /\ v.arr = [w.arr EXCEPT ![w.index] = x]
      /\ v.index = (w.index + 1) % WinSize
      /\ v.size = IF w.full THEN w.size ELSE w.size + 1
      /\ v.full = (w.full \/ w.index + 1 = WinSize)
      /\ v = [arr |-> v.arr, index |-> v.index, size |-> v.size, full |-> v.full]
  BY DEF PW!Put
<1> HIDE DEF v
<1>3. /\ v.index \in 0 .. WinSize - 1
      /\ w.index + 1 < WinSize => v.index = w.index + 1
  <2>1. WinSize \in Nat \ {0} /\ w.index + 1 \in 1 .. WinSize
    BY <1>1, RocStrategyAssumption
  <2>2. \A n \in Nat \ {0} : \A i \in 0 .. n : i % n = IF i = n THEN 0 ELSE i
    OBVIOUS
  <2> QED
    BY <1>2, <2>1, <2>2
<1>4. v.size \in 1 .. WinSize /\ w.index \in 0 .. v.size - 1
  BY <1>1, <1>2, RocStrategyAssumption
<1>5. v.arr \in [0 .. WinSize - 1 -> S] /\ v.arr[w.index] = x
  BY <1>1, <1>2
<1>6. v.full \in BOOLEAN /\ (v.full <=> v.size = WinSize)
  <2>1. CASE w.full
    BY <1>1, <1>2, <2>1
  <2>2. CASE ~ w.full
    BY <1>1, <1>2, <2>2, RocStrategyAssumption
  <2> QED
    BY <2>1, <2>2
<1>7. ASSUME ~ v.full PROVE v.index = v.size
  <2>1. ~ w.full /\ w.index + 1 # WinSize
    BY <1>2, <1>7
  <2> QED
    BY <1>1, <1>2, <1>3, <2>1, RocStrategyAssumption
<1>8. v \in PW!Window(S)
  <2>1. [arr |-> v.arr, index |-> v.index, size |-> v.size, full |-> v.full]
          \in PW!Window(S)
    BY <1>3, <1>4, <1>5, <1>6, RocStrategyAssumption DEF PW!Window
  <2> QED
    BY <1>2, <2>1
<1> QED
  BY <1>4, <1>5, <1>6, <1>7, <1>8 DEF v

LEMMA ClearWindow ==
  ASSUME NEW S, NEW w \in PW!Window(S)
  PROVE  /\ PW!Clear(w) \in PW!Window(S)
         /\ PW!Clear(w).size = 0 /\ PW!Clear(w).index = 0
         /\ PW!Clear(w).full = FALSE
  BY RocStrategyAssumption DEF PW!Window, PW!Clear

LEMMA NewWindow ==
  /\ PW!New(Junk) \in PW!Window(Returned \cup {Junk})
  /\ PW!New(Junk).size = 0 /\ PW!New(Junk).index = 0 /\ PW!New(Junk).full = FALSE
  BY RocStrategyAssumption DEF PW!Window, PW!New

LEMMA WindowStep ==
  ASSUME BotTypeOK, WindowInv, Next
  PROVE  WindowInv'
<1>0. /\ PcType /\ pc[Strategy] \in StrategyLabel /\ pc[Risk] \in RiskLabel
      /\ profitWin \in PW!Window(Returned \cup {Junk})
      /\ profit \in Returned \cup {Junk}
  BY DEF BotTypeOK, PcType
<1> USE <1>0, RocStrategyAssumption
    DEF WindowInv, At1, At2, botVars, books, locals, vars
<1>1. CASE RunStrategy
  <2>1. CASE profitWin' = PW!Clear(profitWin)
    <3>1. profitWin'.size = 0 /\ profitWin'.index = 0 /\ profitWin'.full = FALSE
      BY <2>1, ClearWindow
    <3> QED
      BY <1>1, <3>1, StrategyFrame
  <2> QED
    BY <1>1, <2>1, StrategyFrame
<1>2. CASE RiskTop
  BY <1>2, Go2Pc DEF RiskTop, RiskLabel
<1>3. CASE RiskInfo
  BY <1>3, Go2Pc DEF RiskInfo, RiskLabel
<1>4. CASE RiskCalc
  BY <1>4, Go2Pc DEF RiskCalc, RiskLabel
<1>5. CASE RiskPut
  <2>1. profitWin' = PW!Put(profitWin, profit) /\ profit' = profit
    BY <1>5 DEF RiskPut
  <2> QED
    BY <1>5, <2>1, PutWindow
<1>6. CASE RiskFull
  BY <1>6, Go2Pc DEF RiskFull, RiskLabel
<1>7. CASE RiskDecide
  BY <1>7, Go2Pc DEF RiskDecide, RiskLabel
<1>8. CASE RiskLock
  BY <1>8, Go2Pc DEF RiskLock, RiskLabel
<1>9. CASE RiskLoop
  BY <1>9, Go2Pc DEF RiskLoop, RiskLabel
<1>10. CASE RiskSold
  BY <1>10, Go2Pc DEF RiskSold, RiskLabel
<1>11. CASE RiskClearBtc
  BY <1>11, Go2Pc DEF RiskClearBtc, RiskLabel
<1>12. CASE RiskClearAsset
  BY <1>12, Go2Pc DEF RiskClearAsset, RiskLabel
<1>13. CASE RiskClearWin
  <2>1. profitWin' = PW!Clear(profitWin)
    BY <1>13 DEF RiskClearWin
  <2>2. profitWin'.size = 0 /\ profitWin'.index = 0 /\ profitWin'.full = FALSE
    BY <2>1, ClearWindow
  <2> QED
    BY <1>13, <2>2, Go2Pc DEF RiskClearWin, RiskLabel
<1>14. CASE RiskSetOut
  BY <1>14, Go2Pc DEF RiskSetOut, RiskLabel
<1>15. CASE SellStep(Risk)
  BY <1>15 DEF SellStep
<1>16. CASE QueryAsset \/ Kline \/ Stop \/ Outside \/ Terminated
  BY <1>16, RestFrame
<1> QED
  BY <1>1, <1>2, <1>3, <1>4, <1>5, <1>6, <1>7, <1>8, <1>9, <1>10, <1>11, <1>12,
     <1>13, <1>14, <1>15, <1>16
     DEF Next, RiskControl

LEMMA BotTypeStep ==
  ASSUME TradeTypeOK, BotTypeOK, CallsInv, WindowInv,
         innerSig = 1 <=> At2("done"), Next
  PROVE  BotTypeOK'
<1>0. PcType
  BY DEF BotTypeOK, PcType
<1> USE <1>0, RocStrategyAssumption, TradeAssumption
    DEF BotTypeOK, PcType, At1, At2, botVars, books, feeds, locals, vars
<1>1. CASE StrategyTop
  BY <1>1, Go1Pc DEF StrategyTop, StrategyLabel
<1>2. CASE StrategyKline
  BY <1>2, Go1Pc DEF StrategyKline, StrategyLabel
<1>3. CASE StrategyLock
  BY <1>3, Go1Pc DEF StrategyLock, StrategyLabel
<1>4. CASE StrategySold
  BY <1>4, Go1Pc DEF StrategySold, StrategyLabel
<1>5. CASE StrategySetOut
  BY <1>5, Go1Pc DEF StrategySetOut, StrategyLabel
<1>6. CASE StrategyClearAsset
  BY <1>6, Go1Pc DEF StrategyClearAsset, StrategyLabel
<1>7. CASE StrategyClearBtc
  BY <1>7, Go1Pc DEF StrategyClearBtc, StrategyLabel
<1>8. CASE StrategyClearWin
  <2>1. profitWin' \in PW!Window(Returned \cup {Junk})
    BY <1>8, ClearWindow DEF StrategyClearWin
  <2> QED
    BY <1>8, <2>1, Go1Pc DEF StrategyClearWin, StrategyLabel
<1>9. CASE StrategyBuy
  BY <1>9, Go1Pc DEF StrategyBuy, StrategyLabel
<1>10. CASE StrategyBuyAnswered
  BY <1>10, Go1Pc DEF StrategyBuyAnswered, StrategyLabel
<1>11. CASE StrategyBuyTimedOut
  BY <1>11, Go1Pc DEF StrategyBuyTimedOut, StrategyLabel
<1>12. CASE StrategyAskOrder
  BY <1>12, Go1Pc DEF StrategyAskOrder, StrategyLabel
<1>13. CASE StrategyOrderAnswered
  <2>1. originAsset' \in Nat
    <3>1. Head(orderQ) \in InfoReply
      BY <1>13 DEF StrategyOrderAnswered, TradeTypeOK
    <3>2. Head(orderQ).deal \in Nat
      BY <3>1 DEF InfoReply
    <3> QED
      BY <1>13, <3>2 DEF StrategyOrderAnswered
  <2> QED
    BY <1>13, <2>1, Go1Pc DEF StrategyOrderAnswered, StrategyLabel
<1>14. CASE StrategyOrderTimedOut
  BY <1>14, Go1Pc DEF StrategyOrderTimedOut, StrategyLabel
<1>15. CASE StrategySetAsset
  <2>1. call[Strategy].amount = Lot
    BY <1>15 DEF StrategySetAsset, CallsInv
  <2> QED
    BY <1>15, <2>1, Go1Pc DEF StrategySetAsset, StrategyLabel
<1>16. CASE StrategySetBtc
  <2>1. call[Strategy].amount = Lot
    BY <1>16 DEF StrategySetBtc, CallsInv
  <2> QED
    BY <1>16, <2>1, Go1Pc DEF StrategySetBtc, StrategyLabel
<1>17. CASE StrategySetIn
  BY <1>17, Go1Pc DEF StrategySetIn, StrategyLabel
<1>18. CASE StrategyQuit
  BY <1>18, Go1Pc DEF StrategyQuit, StrategyLabel
<1>19. CASE StrategyQuitCall
  BY <1>19, Go1Pc DEF StrategyQuitCall, StrategyLabel
<1>20. CASE StrategyQuitSold
  BY <1>20, Go1Pc DEF StrategyQuitSold, StrategyLabel
<1>21. CASE SellStep(Strategy)
  BY <1>21 DEF SellStep
<1>22. CASE RiskTop
  <2>1. innerSig' \in 0 .. 1
    BY <1>22 DEF RiskTop
  <2> QED
    BY <1>22, <2>1, Go2Pc DEF RiskTop, RiskLabel
<1>23. CASE RiskInfo
  BY <1>23, Go2Pc DEF RiskInfo, RiskLabel
<1>24. CASE RiskCalc
  <2>1. profit' \in Returned \cup {Junk}
    BY <1>24 DEF RiskCalc, Returned
  <2> QED
    BY <1>24, <2>1, Go2Pc DEF RiskCalc, RiskLabel
<1>25. CASE RiskPut
  <2>1. profitWin' \in PW!Window(Returned \cup {Junk})
    BY <1>25, PutWindow DEF RiskPut, WindowInv
  <2> QED
    BY <1>25, <2>1, Go2Pc DEF RiskPut, RiskLabel
<1>26. CASE RiskFull
  BY <1>26, Go2Pc DEF RiskFull, RiskLabel
<1>27. CASE RiskDecide
  BY <1>27, Go2Pc DEF RiskDecide, RiskLabel
<1>28. CASE RiskLock
  BY <1>28, Go2Pc DEF RiskLock, RiskLabel
<1>29. CASE RiskLoop
  BY <1>29, Go2Pc DEF RiskLoop, RiskLabel
<1>30. CASE RiskSold
  BY <1>30, Go2Pc DEF RiskSold, RiskLabel
<1>31. CASE RiskClearBtc
  BY <1>31, Go2Pc DEF RiskClearBtc, RiskLabel
<1>32. CASE RiskClearAsset
  BY <1>32, Go2Pc DEF RiskClearAsset, RiskLabel
<1>33. CASE RiskClearWin
  <2>1. profitWin' \in PW!Window(Returned \cup {Junk})
    BY <1>33, ClearWindow DEF RiskClearWin
  <2> QED
    BY <1>33, <2>1, Go2Pc DEF RiskClearWin, RiskLabel
<1>34. CASE RiskSetOut
  BY <1>34, Go2Pc DEF RiskSetOut, RiskLabel
<1>35. CASE SellStep(Risk)
  BY <1>35 DEF SellStep
<1>36. CASE QueryAsset
  BY <1>36 DEF QueryAsset
<1>37. CASE Kline
  BY <1>37 DEF Kline
<1>38. CASE Stop
  BY <1>38 DEF Stop
<1>39. CASE Outside
  BY <1>39 DEF Outside
<1>40. CASE Terminated
  BY <1>40 DEF Terminated
<1> QED
  BY <1>1, <1>2, <1>3, <1>4, <1>5, <1>6, <1>7, <1>8, <1>9, <1>10, <1>11, <1>12,
     <1>13, <1>14, <1>15, <1>16, <1>17, <1>18, <1>19, <1>20, <1>21, <1>22, <1>23,
     <1>24, <1>25, <1>26, <1>27, <1>28, <1>29, <1>30, <1>31, <1>32, <1>33, <1>34,
     <1>35, <1>36, <1>37, <1>38, <1>39, <1>40
     DEF Next, RunStrategy, RiskControl

-----------------------------------------------------------------------------
(* What each step does to Trade: it keeps TradeTypeOK and LockHolder. *)
LEMMA SellStepTrade ==
  ASSUME TradeTypeOK, LockHolder, NEW t \in Thread, SellStep(t)
  PROVE  /\ TradeTypeOK' /\ LockHolder' /\ InSale(t) /\ InSale(t)'
         /\ \A u \in Thread \ {t} : call'[u] = call[u]
  BY AcquireTradeLockType, SendSellType DEF SellStep, InSale

\* A step that begins a sale, of a position that is not empty.
LEMMA SellAtMarketTrade ==
  ASSUME TradeTypeOK, LockHolder, NEW t \in Thread, NEW amount \in {0, Lot},
         SellAtMarket(t, amount), ~ InSale(t), UNCHANGED noCallVars
  PROVE  /\ TradeTypeOK' /\ LockHolder' /\ call'[t].op = "lock"
         /\ \A u \in Thread \ {t} : call'[u] = call[u]
<1>1. /\ call \in [Thread -> Call] /\ "lock" \in Op
      /\ NoId \in Id \cup {NoId} /\ amount \in {0, Lot}
  BY DEF TradeTypeOK, Op
<1>2. SetCall(t, "lock", NoId, amount)
  BY DEF SellAtMarket
<1>3. /\ call' \in [Thread -> Call]
      /\ call'[t] = [op |-> "lock", id |-> NoId, amount |-> amount]
      /\ \A u \in Thread \ {t} : call'[u] = call[u]
  BY <1>1, <1>2, SetCallType
<1>4. LockHolder'
  BY <1>1, <1>2, SetCallLock DEF noCallVars, InSale
<1> QED
  BY <1>3, <1>4 DEF noCallVars, TradeTypeOK

LEMMA TradeStep ==
  ASSUME TypeOK, LockHolder, CallsInv, Next
  PROVE  TradeTypeOK' /\ LockHolder'
<1>0. /\ TradeTypeOK /\ tradingBtc \in {0, Lot}
      /\ Strategy \in Thread /\ Risk \in Thread
      /\ call \in [Thread -> Call] /\ NoId \in Id \cup {NoId}
  BY RocStrategyAssumption DEF TypeOK, BotTypeOK, TradeTypeOK
<1> USE <1>0
<1>1. CASE StrategyTop \/ StrategyKline \/ StrategySetOut \/ StrategyClearAsset \/
         StrategyClearBtc \/ StrategyClearWin \/ StrategySetAsset \/
         StrategySetIn \/ StrategyQuit
  BY <1>1 DEF StrategyTop, StrategyKline, StrategySetOut, StrategyClearAsset,
         StrategyClearBtc, StrategyClearWin, StrategySetAsset, StrategySetIn,
         StrategyQuit, tradeVars, vars, TradeTypeOK, LockHolder
<1>2. CASE StrategyLock
  <2>1. Strategy \in Thread /\ ~ InSale(Strategy)
    BY <1>2 DEF StrategyLock, CallsInv, At1, At2
  <2>2. CASE SellAtMarket(Strategy, tradingBtc)
    BY <1>2, <2>1, <2>2, SellAtMarketTrade DEF StrategyLock
  <2>3. CASE call' = call
    BY <1>2, <2>3 DEF StrategyLock, noCallVars, TradeTypeOK, LockHolder
  <2> QED
    BY <1>2, <2>2, <2>3 DEF StrategyLock
<1>3. CASE StrategySold
  <2>1. PICK ret \in {0, -1} : SellReturns(Strategy, ret)
    BY <1>3 DEF StrategySold
  <2> QED
    BY <2>1, SellReturnsType
<1>4. CASE StrategyBuy
  <2>1. PICK ret \in {0, -1}, id \in Id \cup {NoId} :
          /\ OkSpotcnyTrade("buy", 0, id, ret)
          /\ SetCall(Strategy, "buywait", id, 0) \/ UNCHANGED call
    BY <1>4 DEF StrategyBuy
  <2>2. wire' \subseteq Request /\ cancelled' \subseteq Id
    <3>1. "buy" \in {"buy", "sell", "info"} /\ 0 \in {0, Lot}
      OBVIOUS
    <3> QED
      BY <2>1, <3>1, SendType
  <2>3. call[Strategy].op \notin {"emit", "sellwait"} /\ tlock' = tlock
    BY <1>4 DEF StrategyBuy, CallsInv, InSale, At1
  <2>4. call' \in [Thread -> Call] /\ LockHolder'
    <3>1. CASE SetCall(Strategy, "buywait", id, 0)
      <4>1. "buywait" \in Op /\ 0 \in {0, Lot}
        BY DEF Op
      <4> QED
        BY <2>3, <3>1, <4>1, SetCallType, SetCallLock
    <3>2. CASE call' = call
      BY <2>3, <3>2 DEF LockHolder
    <3> QED
      BY <2>1, <3>1, <3>2
  <2> QED
    BY <1>4, <2>2, <2>4 DEF StrategyBuy, TradeTypeOK
<1>5. CASE StrategyBuyAnswered
  <2>1. PICK reply \in TradeReply :
          /\ PopTrade(reply)
          /\ SetCall(Strategy, "order", reply.id, 0) \/ EndCall(Strategy)
    BY <1>5 DEF StrategyBuyAnswered
  <2>2. tradeQ' \in Seq(TradeReply)
    BY <2>1, PopTradeType
  <2>3. call[Strategy].op \notin {"emit", "sellwait"} /\ tlock' = tlock
    BY <1>5 DEF StrategyBuyAnswered, CallsInv, InSale, At1
  <2>4. call' \in [Thread -> Call] /\ LockHolder'
    <3>1. /\ "order" \in Op /\ "idle" \in Op /\ 0 \in {0, Lot}
          /\ reply.id \in Id \cup {NoId}
      BY DEF Op, TradeReply
    <3> QED
      BY <2>1, <2>3, <3>1, SetCallType, SetCallLock DEF EndCall
  <2> QED
    BY <1>5, <2>2, <2>4 DEF StrategyBuyAnswered, TradeTypeOK
<1>6. CASE StrategyBuyTimedOut
  <2>1. late' \in 0 .. MaxLate /\ doubt' \in BOOLEAN
    BY <1>6, TimedOutType DEF StrategyBuyTimedOut
  <2>2. call' \in [Thread -> Call] /\ LockHolder'
    <3>1. call[Strategy].op \notin {"emit", "sellwait"} /\ tlock' = tlock
      BY <1>6 DEF StrategyBuyTimedOut, CallsInv, InSale, At1
    <3>2. SetCall(Strategy, "idle", NoId, 0)
      BY <1>6 DEF StrategyBuyTimedOut, EndCall
    <3> QED
      BY <1>6, <3>1, <3>2, EndCallType, SetCallLock DEF StrategyBuyTimedOut
  <2> QED
    BY <1>6, <2>1, <2>2 DEF StrategyBuyTimedOut, TradeTypeOK
<1>7. CASE StrategyAskOrder
  <2>1. PICK ret \in {0, -1} :
          /\ OkSpotcnyOrderinfo(call[Strategy].id, ret)
          /\ \/ SetCall(Strategy, "infowait", call[Strategy].id, 0) /\ doubt' = doubt
             \/ EndCall(Strategy) /\ doubt' = TRUE
    BY <1>7 DEF StrategyAskOrder
  <2>2. /\ call[Strategy].id \in Id /\ tlock' = tlock
        /\ call[Strategy].op \notin {"emit", "sellwait"}
    BY <1>7 DEF StrategyAskOrder, CallsInv, InSale, At1
  <2>3. wire' \subseteq Request
    <3>1. "info" \in {"buy", "sell", "info"} /\ 0 \in {0, Lot} /\ UNCHANGED cancelled
      BY <1>7 DEF StrategyAskOrder
    <3> QED
      BY <2>1, <2>2, <3>1, SendType
  <2>4. call' \in [Thread -> Call] /\ LockHolder'
    <3>1. "infowait" \in Op /\ "idle" \in Op /\ 0 \in {0, Lot}
      BY DEF Op
    <3> QED
      BY <2>1, <2>2, <3>1, SetCallType, SetCallLock DEF EndCall
  <2>5. doubt' \in BOOLEAN
    BY <2>1 DEF TradeTypeOK
  <2> QED
    BY <1>7, <2>3, <2>4, <2>5 DEF StrategyAskOrder, TradeTypeOK
<1>8. CASE StrategyOrderAnswered
  <2>1. orderQ' \in Seq(InfoReply) /\ Head(orderQ) \in InfoReply
    BY <1>8 DEF StrategyOrderAnswered, TradeTypeOK
  <2>2. call[Strategy].op \notin {"emit", "sellwait"} /\ tlock' = tlock
    BY <1>8 DEF StrategyOrderAnswered, CallsInv, InSale, At1
  <2>3. \E amount \in {0, Lot} : SetCall(Strategy, "idle", NoId, amount)
    BY <1>8, <2>1 DEF StrategyOrderAnswered, EndCall, InfoReply
  <2>4. call' \in [Thread -> Call] /\ LockHolder'
    <3>1. "idle" \in Op
      BY DEF Op
    <3> QED
      BY <2>2, <2>3, <3>1, SetCallType, SetCallLock
  <2>5. doubt' \in BOOLEAN
    BY <1>8 DEF StrategyOrderAnswered, TradeTypeOK
  <2> QED
    BY <1>8, <2>1, <2>4, <2>5 DEF StrategyOrderAnswered, TradeTypeOK
<1>9. CASE StrategyOrderTimedOut
  <2>1. late' \in 0 .. MaxLate /\ doubt' \in BOOLEAN
    BY <1>9, TimedOutType DEF StrategyOrderTimedOut
  <2>2. call' \in [Thread -> Call] /\ LockHolder'
    <3>1. call[Strategy].op \notin {"emit", "sellwait"} /\ tlock' = tlock
      BY <1>9 DEF StrategyOrderTimedOut, CallsInv, InSale, At1
    <3>2. SetCall(Strategy, "idle", NoId, 0)
      BY <1>9 DEF StrategyOrderTimedOut, EndCall
    <3> QED
      BY <1>9, <3>1, <3>2, EndCallType, SetCallLock DEF StrategyOrderTimedOut
  <2> QED
    BY <1>9, <2>1, <2>2 DEF StrategyOrderTimedOut, TradeTypeOK
<1>10. CASE StrategySetBtc
  <2>1. call' \in [Thread -> Call] /\ LockHolder'
    <3>1. call[Strategy].op \notin {"emit", "sellwait"} /\ tlock' = tlock
      BY <1>10 DEF StrategySetBtc, noCallVars, CallsInv, InSale, At1
    <3>2. SetCall(Strategy, "idle", NoId, 0)
      BY <1>10 DEF StrategySetBtc, EndCall
    <3> QED
      BY <1>10, <3>1, <3>2, EndCallType, SetCallLock DEF StrategySetBtc
  <2> QED
    BY <1>10, <2>1 DEF StrategySetBtc, noCallVars, TradeTypeOK
<1>11. CASE StrategyQuitCall
  <2>1. Strategy \in Thread /\ ~ InSale(Strategy)
    BY <1>11 DEF StrategyQuitCall, CallsInv, At1, At2
  <2>2. CASE SellAtMarket(Strategy, tradingBtc)
    BY <1>11, <2>1, <2>2, SellAtMarketTrade DEF StrategyQuitCall
  <2>3. CASE call' = call
    BY <1>11, <2>3 DEF StrategyQuitCall, noCallVars, TradeTypeOK, LockHolder
  <2> QED
    BY <1>11, <2>2, <2>3 DEF StrategyQuitCall
<1>12. CASE StrategyQuitSold
  <2>1. PICK ret \in {0, -1} : SellReturns(Strategy, ret)
    BY <1>12 DEF StrategyQuitSold
  <2> QED
    BY <2>1, SellReturnsType
<1>13. CASE SellStep(Strategy)
  BY <1>13, SellStepTrade
<1>14. CASE RiskTop \/ RiskInfo \/ RiskCalc \/ RiskPut \/ RiskFull \/ RiskDecide \/
         RiskLock \/ RiskClearBtc \/ RiskClearAsset \/ RiskClearWin \/ RiskSetOut
  BY <1>14 DEF RiskTop, RiskInfo, RiskCalc, RiskPut, RiskFull, RiskDecide, RiskLock,
         RiskClearBtc, RiskClearAsset, RiskClearWin, RiskSetOut, tradeVars, vars,
         TradeTypeOK, LockHolder
<1>15. CASE RiskLoop
  <2>1. Risk \in Thread /\ ~ InSale(Risk)
    BY <1>15 DEF RiskLoop, CallsInv, At1, At2
  <2>2. CASE SellAtMarket(Risk, tradingBtc)
    BY <1>15, <2>1, <2>2, SellAtMarketTrade DEF RiskLoop
  <2>3. CASE call' = call
    BY <1>15, <2>3 DEF RiskLoop, noCallVars, TradeTypeOK, LockHolder
  <2> QED
    BY <1>15, <2>2, <2>3 DEF RiskLoop
<1>16. CASE RiskSold
  <2>1. PICK ret \in {0, -1} : SellReturns(Risk, ret)
    BY <1>16 DEF RiskSold
  <2> QED
    BY <2>1, SellReturnsType
<1>17. CASE SellStep(Risk)
  BY <1>17, SellStepTrade
<1>18. CASE QueryAsset \/ Kline \/ Stop \/ Terminated
  BY <1>18 DEF QueryAsset, Kline, Stop, Terminated, tradeVars, vars, TradeTypeOK,
         LockHolder
<1>19. CASE Outside
  <2>1. TradeTypeOK' /\ call' = call /\ tlock' = tlock
    BY <1>19, EnvironmentType DEF Outside
  <2> QED
    BY <2>1 DEF LockHolder
<1> QED
  BY <1>1, <1>2, <1>3, <1>4, <1>5, <1>6, <1>7, <1>8, <1>9, <1>10, <1>11, <1>12,
     <1>13, <1>14, <1>15, <1>16, <1>17, <1>18, <1>19
     DEF Next, RunStrategy, RiskControl

LEMMA CallsStep ==
  ASSUME TypeOK, LockHolder, CallsInv, Next
  PROVE  CallsInv'
<1>0. /\ PcType /\ TradeTypeOK /\ call \in [Thread -> Call]
      /\ pc[Strategy] \in StrategyLabel /\ pc[Risk] \in RiskLabel
      /\ Strategy \in Thread /\ Risk \in Thread /\ Strategy # Risk
  BY RocStrategyAssumption DEF TypeOK, BotTypeOK, TradeTypeOK, PcType
<1> USE <1>0 DEF CallsInv, At1, At2, InSale, tradeVars, botVars, vars
<1>1. CASE StrategyTop
  BY <1>1, Go1Pc DEF StrategyTop, StrategyLabel
<1>2. CASE StrategyKline
  BY <1>2, Go1Pc DEF StrategyKline, StrategyLabel
<1>3. CASE StrategyLock
  BY <1>3, Go1Pc DEF StrategyLock, StrategyLabel, SellAtMarket, SetCall
<1>4. CASE StrategySold
  <2>1. PICK ret \in {0, -1} : SellReturns(Strategy, ret)
    BY <1>4 DEF StrategySold
  <2>2. call'[Strategy].op = "idle" /\ call'[Risk] = call[Risk]
    BY <2>1, SellReturnsType
  <2> QED
    BY <1>4, <2>2, Go1Pc DEF StrategySold, StrategyLabel
<1>5. CASE StrategySetOut
  BY <1>5, Go1Pc DEF StrategySetOut, StrategyLabel
<1>6. CASE StrategyClearAsset
  BY <1>6, Go1Pc DEF StrategyClearAsset, StrategyLabel
<1>7. CASE StrategyClearBtc
  BY <1>7, Go1Pc DEF StrategyClearBtc, StrategyLabel
<1>8. CASE StrategyClearWin
  BY <1>8, Go1Pc DEF StrategyClearWin, StrategyLabel
<1>9. CASE StrategyBuy
  BY <1>9, Go1Pc DEF StrategyBuy, StrategyLabel, SetCall, EndCall
<1>10. CASE StrategyBuyAnswered
  <2>1. PICK reply \in TradeReply :
          \/ SetCall(Strategy, "order", reply.id, 0) /\ Go1("askOrder")
          \/ EndCall(Strategy) /\ Go1("top")
    BY <1>10 DEF StrategyBuyAnswered
  <2>2. reply.id \in Id
    BY DEF TradeReply
  <2> QED
    BY <1>10, <2>1, <2>2, Go1Pc DEF StrategyBuyAnswered, StrategyLabel, SetCall, EndCall
<1>11. CASE StrategyBuyTimedOut
  BY <1>11, Go1Pc DEF StrategyBuyTimedOut, StrategyLabel, SetCall, EndCall
<1>12. CASE StrategyAskOrder
  BY <1>12, Go1Pc DEF StrategyAskOrder, StrategyLabel, SetCall, EndCall
<1>13. CASE StrategyOrderAnswered
  <2>1. Head(orderQ) \in InfoReply
    BY <1>13 DEF StrategyOrderAnswered, TradeTypeOK
  <2>2. \/ SetCall(Strategy, "idle", NoId, Lot) /\ Go1("setAsset")
        \/ EndCall(Strategy) /\ Go1("top")
    BY <1>13, <2>1 DEF StrategyOrderAnswered, InfoReply
  <2> QED
    BY <1>13, <2>2, Go1Pc DEF StrategyOrderAnswered, StrategyLabel, SetCall, EndCall
<1>14. CASE StrategyOrderTimedOut
  BY <1>14, Go1Pc DEF StrategyOrderTimedOut, StrategyLabel, SetCall, EndCall
<1>15. CASE StrategySetAsset
  BY <1>15, Go1Pc DEF StrategySetAsset, StrategyLabel
<1>16. CASE StrategySetBtc
  BY <1>16, Go1Pc DEF StrategySetBtc, StrategyLabel, SetCall, EndCall
<1>17. CASE StrategySetIn
  BY <1>17, Go1Pc DEF StrategySetIn, StrategyLabel
<1>18. CASE StrategyQuit
  BY <1>18, Go1Pc DEF StrategyQuit, StrategyLabel
<1>19. CASE StrategyQuitCall
  BY <1>19, Go1Pc DEF StrategyQuitCall, StrategyLabel, SellAtMarket, SetCall
<1>20. CASE StrategyQuitSold
  <2>1. PICK ret \in {0, -1} : SellReturns(Strategy, ret)
    BY <1>20 DEF StrategyQuitSold
  <2>2. call'[Strategy].op = "idle" /\ call'[Risk] = call[Risk]
    BY <2>1, SellReturnsType
  <2> QED
    BY <1>20, <2>2, Go1Pc DEF StrategyQuitSold, StrategyLabel
<1>21. CASE SellStep(Strategy)
  <2>1. /\ call[Strategy].op \in {"lock", "emit"}
        /\ call'[Strategy].op \in {"emit", "sellwait"}
    BY <1>21, AcquireTradeLockType, SendSellType DEF SellStep
  <2>2. call'[Risk] = call[Risk]
    BY <1>21, SellStepTrade
  <2> QED
    BY <1>21, <2>1, <2>2 DEF SellStep
<1>22. CASE RiskTop \/ RiskInfo \/ RiskCalc \/ RiskPut \/ RiskFull \/ RiskDecide \/
         RiskLock \/ RiskClearBtc \/ RiskClearAsset \/ RiskClearWin \/ RiskSetOut
  BY <1>22, Go2Pc
     DEF RiskTop, RiskInfo, RiskCalc, RiskPut, RiskFull, RiskDecide, RiskLock,
         RiskClearBtc, RiskClearAsset, RiskClearWin, RiskSetOut, RiskLabel
<1>23. CASE RiskLoop
  BY <1>23, Go2Pc DEF RiskLoop, RiskLabel, SellAtMarket, SetCall
<1>24. CASE RiskSold
  <2>1. PICK ret \in {0, -1} : SellReturns(Risk, ret)
    BY <1>24 DEF RiskSold
  <2>2. call'[Risk].op = "idle" /\ call'[Strategy] = call[Strategy]
    BY <2>1, SellReturnsType
  <2> QED
    BY <1>24, <2>2, Go2Pc DEF RiskSold, RiskLabel
<1>25. CASE SellStep(Risk)
  <2>1. /\ call[Risk].op \in {"lock", "emit"}
        /\ call'[Risk].op \in {"emit", "sellwait"}
    BY <1>25, AcquireTradeLockType, SendSellType DEF SellStep
  <2>2. call'[Strategy] = call[Strategy]
    BY <1>25, SellStepTrade
  <2> QED
    BY <1>25, <2>1, <2>2 DEF SellStep
<1>26. CASE QueryAsset \/ Kline \/ Stop \/ Terminated
  BY <1>26 DEF QueryAsset, Kline, Stop, Terminated
<1>27. CASE Outside
  BY <1>27, EnvironmentType DEF Outside
<1> QED
  BY <1>1, <1>2, <1>3, <1>4, <1>5, <1>6, <1>7, <1>8, <1>9, <1>10, <1>11, <1>12,
     <1>13, <1>14, <1>15, <1>16, <1>17, <1>18, <1>19, <1>20, <1>21, <1>22, <1>23,
     <1>24, <1>25, <1>26, <1>27
     DEF Next, RunStrategy, RiskControl

-----------------------------------------------------------------------------
LEMMA InitInv == Init => IInv
<1> SUFFICES ASSUME Init PROVE IInv
  OBVIOUS
<1>1. TradeTypeOK /\ LockHolder
  BY TradeInitType DEF Init
<1>2. /\ pc[Strategy] = "top" /\ pc[Risk] = "top" /\ PcType
      /\ \A t \in Thread : call[t].op = "idle"
  BY RocStrategyAssumption DEF Init, TradeInit, PcType, StrategyLabel
<1>3. BotTypeOK
  <2>1. /\ pc \in [Thread -> StrategyLabel \cup RiskLabel]
        /\ pc[Strategy] \in StrategyLabel /\ pc[Risk] \in RiskLabel
    BY <1>2 DEF PcType, StrategyLabel, RiskLabel
  <2>2. profitWin \in PW!Window(Returned \cup {Junk})
    BY NewWindow DEF Init
  <2>3. /\ signal \in 0 .. 1 /\ innerSig \in 0 .. 1
        /\ klines \in 0 .. MaxKline /\ infos \in 0 .. MaxInfo
    BY RocStrategyAssumption DEF Init
  <2>4. /\ status \in {"in", "out"} /\ mutex \in Thread \cup {NoThread}
        /\ profit \in Returned \cup {Junk} /\ overtaken \in BOOLEAN
        /\ tradingBtc \in {0, Lot} /\ tradingAsset \in {0, Lot}
        /\ originAsset \in Nat /\ retry \in Nat
    BY TradeAssumption DEF Init
  <2> QED
    BY <2>1, <2>2, <2>3, <2>4 DEF BotTypeOK
<1>4. MutexHolder
  BY <1>2, RocStrategyAssumption, TradeAssumption
     DEF Init, MutexHolder, StrategyHolds, RiskHolds
<1>5. CallsInv
  BY <1>2, RocStrategyAssumption DEF CallsInv, InSale, At1, At2
<1>6. BooksInv
  BY <1>2 DEF Init, BooksInv, StuckOnlyIfOvertaken, Buying, RiskSoldOut, At1
<1>7. WindowInv
  BY <1>2, NewWindow, RocStrategyAssumption DEF Init, WindowInv
<1> QED
  BY <1>1, <1>2, <1>3, <1>4, <1>5, <1>6, <1>7 DEF Init, IInv, TypeOK, At2

LEMMA StepInv == IInv /\ [Next]_vars => IInv'
<1> SUFFICES ASSUME IInv, [Next]_vars PROVE IInv'
  OBVIOUS
<1>1. CASE Next
  <2>1. /\ PcType /\ pc[Strategy] \in StrategyLabel /\ pc[Risk] \in RiskLabel
        /\ status \in {"in", "out"} /\ tradingBtc \in {0, Lot}
        /\ innerSig \in 0 .. 1
    BY DEF IInv, TypeOK, BotTypeOK, PcType
  <2>2. TradeTypeOK' /\ LockHolder'
    BY <1>1, TradeStep DEF IInv
  <2>3. BotTypeOK'
    BY <1>1, BotTypeStep DEF IInv, TypeOK
  <2>4. MutexHolder'
    BY <1>1, <2>1, MutexStep DEF IInv
  <2>5. CallsInv'
    BY <1>1, CallsStep DEF IInv
  <2>6. BooksInv'
    BY <1>1, <2>1, BooksStep DEF IInv
  <2>7. WindowInv'
    BY <1>1, WindowStep DEF IInv, TypeOK
  <2>8. (innerSig = 1 <=> At2("done"))'
    BY <1>1, <2>1, InnerSigStep DEF IInv
  <2> QED
    BY <2>2, <2>3, <2>4, <2>5, <2>6, <2>7, <2>8 DEF IInv, TypeOK
<1>2. CASE UNCHANGED vars
  BY <1>2 DEF vars, tradeVars, botVars, books, feeds, locals, IInv, TypeOK,
              TradeTypeOK, BotTypeOK, LockHolder, MutexHolder, StrategyHolds,
              RiskHolds, CallsInv, InSale, BooksInv, StuckOnlyIfOvertaken, Buying,
              RiskSoldOut, WindowInv, At1, At2
<1> QED
  BY <1>1, <1>2

\* Every state of every run satisfies IInv: the locks, the calls, the books and the
\* window fit the place where each thread is (roc_strategy.h run_strategy and
\* risk_control).
THEOREM Invariance == Spec => []IInv
  BY InitInv, StepInv, PTL DEF Spec

\* The variables of Trade and RocStrategy keep their types: no counter passes its
\* bound, no queue holds a foreign document, origin_asset never turns negative.
THEOREM TypeCorrect == Spec => []TypeOK
<1>1. IInv => TypeOK
  BY DEF IInv
<1> QED
  BY <1>1, Invariance, PTL

LEMMA Exclusive == IInv => ExclusiveReply
<1> SUFFICES ASSUME IInv, NEW t \in Thread, NEW u \in Thread, t # u,
                    Waiting(t), Waiting(u)
             PROVE  FALSE
  BY DEF ExclusiveReply
<1>1. PICK w \in Thread : call[w].op = "buywait" /\ Waiting(w)
  BY DEF Waiting, IInv, LockHolder
<1>2. w = Strategy /\ tradingBtc = 0
  BY <1>1, RocStrategyAssumption DEF IInv, CallsInv, BooksInv, Buying, At1
<1>3. call[Risk].op = "sellwait"
  BY <1>1, <1>2, RocStrategyAssumption DEF Waiting, IInv, CallsInv
<1>4. tradingBtc # 0
  BY <1>3 DEF IInv, CallsInv, BooksInv, InSale, At2
<1> QED
  BY <1>2, <1>4

\* Two threads never wait on "ok_spotcny_trade" together: Trade::lock keeps two
\* sales apart, and the buy of run_strategy, which does not take it, begins with
\* trading_btc = 0, where risk_control sells nothing.
THEOREM RepliesExclusive == Spec => []ExclusiveReply
  BY Exclusive, Invariance, PTL

\* run_strategy never buys, waits for a buy or records one while trading_btc still
\* holds the coins of an earlier one.
THEOREM BuysOnce == Spec => []NeverDoubleUp
<1>1. IInv => NeverDoubleUp
  BY DEF IInv, BooksInv, NeverDoubleUp
<1> QED
  BY <1>1, Invariance, PTL

\* status = in_trading with no coins, which blocks both threads for ever, needs a
\* stop-loss between set_trading_btc and set_status of the buy
\* (roc_strategy.h:194-195) or is about to be undone by risk_control.
THEOREM StuckTheOneWay == Spec => []StuckOnlyIfOvertaken
<1>1. IInv => StuckOnlyIfOvertaken
  BY DEF IInv, BooksInv
<1> QED
  BY <1>1, Invariance, PTL
-----------------------------------------------------------------------------
(* The stop-loss. *)
LEMMA NothingBelowMIN ==
  ASSUME NEW S, NEW w \in PW!Window(S), NEW i \in 0 .. w.size - 1, NEW m,
         Tech!IsMIN(m, PW!GetRange(w, 0, PW!GetSize(w)))
  PROVE  ~ Tech!Less(w.arr[i], m)
<1> DEFINE vec == PW!GetRange(w, 0, PW!GetSize(w))
<1>1. w.size \in Nat
  BY RocStrategyAssumption DEF PW!Window
<1>2. vec = [j \in 1 .. w.size |-> w.arr[j - 1]]
  BY DEF PW!GetRange, PW!GetSize
<1>3. Len(vec) = w.size
  <2>1. DOMAIN vec = 1 .. w.size
    BY <1>2
  <2> QED
    BY <1>1, <2>1
<1>4. i + 1 \in 1 .. w.size /\ vec[i + 1] = w.arr[i]
  BY <1>1, <1>2
<1> HIDE DEF vec
<1>5. CASE vec[1] = NaN
  <2>1. m = NaN
    BY <1>1, <1>3, <1>4, <1>5 DEF Tech!IsMIN, vec
  <2> QED
    BY <2>1 DEF Tech!Less
<1>6. CASE vec[1] # NaN
  <2>1. \A j \in 1 .. Len(vec) : ~ Tech!Less(vec[j], m)
    BY <1>1, <1>3, <1>4, <1>6 DEF Tech!IsMIN, vec
  <2> QED
    BY <1>3, <1>4, <2>1
<1> QED
  BY <1>5, <1>6

LEMMA BelowSecurityEmpty ==
  ASSUME IInv, At2("decide"), BelowSecurity
  PROVE  PW!GetSize(profitWin) = 0
<1> SUFFICES ASSUME profitWin.size # 0 PROVE FALSE
  BY DEF PW!GetSize
<1>1. PICK i \in 0 .. profitWin.size - 1 : profitWin.arr[i] = profit
  BY DEF IInv, WindowInv, At2
<1>2. profitWin \in PW!Window(Returned \cup {Junk})
  BY DEF IInv, TypeOK, BotTypeOK
<1>3. PICK security \in Profit \cup {NaN, -1} :
        /\ Tech!IsMIN(security, PW!GetRange(profitWin, 0, PW!GetSize(profitWin)))
        /\ Tech!Less(profit, security)
  BY DEF BelowSecurity
<1> QED
  BY <1>1, <1>2, <1>3, NothingBelowMIN

LEMMA DecideStep ==
  ASSUME PcType, At2("decide"), pc'[Risk] = "lock", Next
  PROVE  BelowSecurity
<1> USE DEF At2, At1, vars, botVars, PcType
<1>1. CASE RunStrategy
  BY <1>1, StrategyFrame
<1>2. CASE RiskTop
  BY <1>2, Go2Pc DEF RiskTop, RiskLabel
<1>3. CASE RiskInfo
  BY <1>3, Go2Pc DEF RiskInfo, RiskLabel
<1>4. CASE RiskCalc
  BY <1>4, Go2Pc DEF RiskCalc, RiskLabel
<1>5. CASE RiskPut
  BY <1>5, Go2Pc DEF RiskPut, RiskLabel
<1>6. CASE RiskFull
  BY <1>6, Go2Pc DEF RiskFull, RiskLabel
<1>7. CASE RiskDecide
  BY <1>7, Go2Pc DEF RiskDecide, RiskLabel
<1>8. CASE RiskLock
  BY <1>8, Go2Pc DEF RiskLock, RiskLabel
<1>9. CASE RiskLoop
  BY <1>9, Go2Pc DEF RiskLoop, RiskLabel
<1>10. CASE RiskSold
  BY <1>10, Go2Pc DEF RiskSold, RiskLabel
<1>11. CASE RiskClearBtc
  BY <1>11, Go2Pc DEF RiskClearBtc, RiskLabel
<1>12. CASE RiskClearAsset
  BY <1>12, Go2Pc DEF RiskClearAsset, RiskLabel
<1>13. CASE RiskClearWin
  BY <1>13, Go2Pc DEF RiskClearWin, RiskLabel
<1>14. CASE RiskSetOut
  BY <1>14, Go2Pc DEF RiskSetOut, RiskLabel
<1>15. CASE SellStep(Risk)
  BY <1>15 DEF SellStep
<1>16. CASE QueryAsset \/ Kline \/ Stop \/ Outside \/ Terminated
  BY <1>16, RestFrame
<1> QED
  BY <1>1, <1>2, <1>3, <1>4, <1>5, <1>6, <1>7, <1>8, <1>9, <1>10, <1>11, <1>12,
     <1>13, <1>14, <1>15, <1>16
     DEF Next, RiskControl

\* risk_control compares the profit it has just put with the minimum of a window
\* that holds it (roc_strategy.h:76-80), so it decides to sell only if the window
\* was emptied in between.
THEOREM StopLossNeedsClear == Spec => StopLossOnlyAfterClear
<1>1. IInv /\ [Next]_vars =>
        [At2("decide") /\ pc'[Risk] = "lock" => PW!GetSize(profitWin) = 0]_vars
  <2> SUFFICES ASSUME IInv, Next, At2("decide"), pc'[Risk] = "lock"
               PROVE  PW!GetSize(profitWin) = 0
    OBVIOUS
  <2>1. PcType
    BY DEF IInv, TypeOK, BotTypeOK, PcType
  <2> QED
    BY <2>1, DecideStep, BelowSecurityEmpty
<1> QED
  BY <1>1, Invariance, PTL DEF Spec, StopLossOnlyAfterClear
-----------------------------------------------------------------------------
(* Replies: while no reply is overdue, at most one order is on its way and it is that
   of the caller who waits.                                                   *)
Waiters == { call[t].id : t \in { u \in Thread : Waiting(u) } }
WaitersOwn == Owned(Waiters)

LEMMA OneWaiter ==
  ASSUME ExclusiveReply, NEW t \in Thread, Waiting(t)
  PROVE  Waiters = {call[t].id}
  BY DEF ExclusiveReply, Waiters

\* Who begins to wait is the only one.
LEMMA BeginsWait ==
  ASSUME ExclusiveReply', NEW t \in Thread, ~ Waiting(t), Waiting(t)',
         \A u \in Thread \ {t} : call'[u] = call[u]
  PROVE  Waiters = {} /\ Waiters' = {call'[t].id}
<1>1. ASSUME NEW u \in Thread, Waiting(u) PROVE FALSE
  <2>1. u # t /\ Waiting(u)'
    BY <1>1 DEF Waiting
  <2> QED
    BY <2>1 DEF ExclusiveReply
<1>2. \A u \in Thread : Waiting(u)' => u = t
  BY DEF ExclusiveReply
<1> QED
  BY <1>1, <1>2 DEF Waiters

\* A step that moves no order and ends no wait.
LEMMA QuietOwn ==
  ASSUME WaitersOwn, UNCHANGED <<late, wire, answers, tradeQ>>,
         \A u \in Thread : call'[u] = call[u] \/ ~ Waiting(u)
  PROVE  WaitersOwn'
<1>1. Waiters \subseteq Waiters'
  BY DEF Waiters, Waiting
<1>2. late' = late /\ wire' = wire /\ answers' = answers /\ tradeQ' = tradeQ
  OBVIOUS
<1> QED
  BY <1>1, <1>2 DEF WaitersOwn, Owned, OwnedBy

\* After the end of the only wait no order is on its way.
LEMMA NoneOwn ==
  ASSUME late' = 0 => OwnedBy({}, wire', answers', tradeQ')
  PROVE  WaitersOwn'
  BY DEF WaitersOwn, Owned, OwnedBy

LEMMA OrderSent ==
  ASSUME TradeTypeOK, WaitersOwn, ExclusiveReply', NEW t \in Thread,
         ~ Waiting(t), Waiting(t)', \A u \in Thread \ {t} : call'[u] = call[u],
         NEW kind \in {"buy", "sell"}, NEW amount, NEW ret,
         OkSpotcnyTrade(kind, amount, call'[t].id, ret),
         UNCHANGED <<late, answers, tradeQ>>
  PROVE  WaitersOwn'
<1>1. Waiters = {} /\ Waiters' = {call'[t].id}
  BY BeginsWait
<1>2. Owned({})
  BY <1>1 DEF WaitersOwn
<1>3. late' = 0 => OwnedBy({call'[t].id}, wire', answers', tradeQ')
  BY <1>2, OrderOwned
<1> QED
  BY <1>1, <1>3 DEF WaitersOwn, Owned

LEMMA ReplyTaken ==
  ASSUME TradeTypeOK, WaitersOwn, NEW reply, PopTrade(reply),
         UNCHANGED <<late, wire, answers>>
  PROVE  WaitersOwn'
  BY AnsweredOwned, NoneOwn DEF WaitersOwn

LEMMA WaitExpired ==
  ASSUME TradeTypeOK, WaitersOwn, ExclusiveReply, NEW t \in Thread, Waiting(t),
         TimedOut(t, tradeQ), UNCHANGED <<wire, answers, tradeQ>>
  PROVE  WaitersOwn'
<1>1. Owned({call[t].id})
  BY OneWaiter DEF WaitersOwn
<1>2. tradeQ = <<>>
      /\ late' = (IF call[t].id \in InTransit THEN late + 1 ELSE late)
  BY DEF TimedOut
<1> QED
  BY <1>1, <1>2, ExpiredOwned, NoneOwn

LEMMA SellStepOwn ==
  ASSUME TradeTypeOK, LockHolder, WaitersOwn, ExclusiveReply', NEW t \in Thread,
         SellStep(t)
  PROVE  WaitersOwn'
<1>1. CASE AcquireTradeLock(t)
  <2>1. call[t].op = "lock" /\ \A u \in Thread \ {t} : call'[u] = call[u]
    BY <1>1, AcquireTradeLockType
  <2> QED
    BY <1>1, <2>1, QuietOwn DEF AcquireTradeLock, Waiting
<1>2. CASE SendSell(t)
  <2>1. /\ call[t].op = "emit" /\ call'[t].op = "sellwait"
        /\ \A u \in Thread \ {t} : call'[u] = call[u]
    BY <1>2, SendSellType
  <2>2. PICK id \in Id \cup {NoId} :
          /\ OkSpotcnyTrade("sell", call[t].amount, id, 0)
          /\ SetCall(t, "sellwait", id, call[t].amount)
    BY <1>2 DEF SendSell
  <2>3. call'[t].id = id
    BY <2>2 DEF SetCall, TradeTypeOK
  <2>4. UNCHANGED <<late, answers, tradeQ>>
    BY <1>2 DEF SendSell
  <2>5. ~ Waiting(t) /\ Waiting(t)'
    BY <2>1 DEF Waiting
  <2> QED
    BY <2>1, <2>2, <2>3, <2>4, <2>5, OrderSent
<1> QED
  BY <1>1, <1>2 DEF SellStep

LEMMA SellReturnsOwn ==
  ASSUME TradeTypeOK, LockHolder, WaitersOwn, ExclusiveReply, NEW t \in Thread,
         NEW ret, SellReturns(t, ret)
  PROVE  WaitersOwn'
<1>1. \A u \in Thread \ {t} : call'[u] = call[u]
  BY SellReturnsType
<1>2. CASE SellFails(t)
  <2>1. call[t].op = "emit" /\ wire' = wire /\ UNCHANGED <<late, tradeQ>>
    BY <1>2 DEF SellFails, OkSpotcnyTrade, Emit
  <2>2. answers' = answers
    BY DEF SellReturns
  <2> QED
    BY <1>1, <2>1, <2>2, QuietOwn DEF Waiting
<1>3. CASE SellAnswered(t, ret)
  BY <1>3, ReplyTaken DEF SellReturns, SellAnswered
<1>4. CASE SellTimedOut(t)
  BY <1>4, WaitExpired DEF SellReturns, SellTimedOut, Waiting
<1> QED
  BY <1>2, <1>3, <1>4 DEF SellReturns

LEMMA RunStrategyOwn ==
  ASSUME IInv, WaitersOwn, ExclusiveReply, ExclusiveReply', RunStrategy
  PROVE  WaitersOwn'
<1> USE DEF noCallVars
<1>0. /\ TradeTypeOK /\ LockHolder /\ Strategy \in Thread
      /\ call \in [Thread -> Call]
      /\ call[Strategy].op = "buywait" <=> At1("buyWait")
      /\ InSale(Strategy) <=> pc[Strategy] \in {"sell", "quitSell"}
  BY RocStrategyAssumption DEF IInv, TypeOK, TradeTypeOK, CallsInv
\* No label but sell, quitSell and buyWait is in a wait for a reply.
<1>a. Waiting(Strategy) => pc[Strategy] \in {"sell", "quitSell", "buyWait"}
  BY <1>0 DEF Waiting, InSale, At1
<1>b. ASSUME NEW op, NEW id, NEW amount, SetCall(Strategy, op, id, amount)
      PROVE  /\ call'[Strategy] = [op |-> op, id |-> id, amount |-> amount]
             /\ \A u \in Thread \ {Strategy} : call'[u] = call[u]
  BY <1>0, <1>b DEF SetCall
<1>1. CASE UNCHANGED <<late, wire, answers, tradeQ, call>>
  BY <1>1, QuietOwn
<1>2. CASE StrategyLock \/ StrategyQuitCall
  <2>1. call' = call \/ \A u \in Thread \ {Strategy} : call'[u] = call[u]
    BY <1>2, <1>b DEF StrategyLock, StrategyQuitCall, SellAtMarket
  <2>2. ~ Waiting(Strategy)
    BY <1>2, <1>a DEF StrategyLock, StrategyQuitCall, At1
  <2>3. UNCHANGED <<late, wire, answers, tradeQ>>
    BY <1>2 DEF StrategyLock, StrategyQuitCall
  <2> QED
    BY <2>1, <2>2, <2>3, QuietOwn
<1>3. CASE SellStep(Strategy)
  BY <1>0, <1>3, SellStepOwn
<1>4. CASE StrategySold \/ StrategyQuitSold
  <2>1. PICK ret \in {0, -1} : SellReturns(Strategy, ret)
    BY <1>4 DEF StrategySold, StrategyQuitSold
  <2> QED
    BY <1>0, <2>1, SellReturnsOwn
<1>5. CASE StrategyBuy
  <2>1. PICK ret \in {0, -1}, id \in Id \cup {NoId} :
          /\ OkSpotcnyTrade("buy", 0, id, ret)
          /\ IF ret = 0 THEN SetCall(Strategy, "buywait", id, 0) ELSE call' = call
    BY <1>5 DEF StrategyBuy
  <2>2. UNCHANGED <<late, answers, tradeQ>> /\ ~ Waiting(Strategy)
    BY <1>5, <1>a DEF StrategyBuy, At1
  <2>3. CASE ret = 0
    <3>1. /\ call'[Strategy] = [op |-> "buywait", id |-> id, amount |-> 0]
          /\ \A u \in Thread \ {Strategy} : call'[u] = call[u]
      BY <2>1, <2>3, <1>b
    <3>2. Waiting(Strategy)' /\ call'[Strategy].id = id
      BY <3>1 DEF Waiting
    <3>3. OkSpotcnyTrade("buy", 0, call'[Strategy].id, ret)
      BY <2>1, <3>2
    <3> QED
      BY <1>0, <2>2, <3>1, <3>2, <3>3, OrderSent
  <2>4. CASE ret = -1
    <3>1. wire' = wire /\ call' = call
      BY <2>1, <2>4 DEF OkSpotcnyTrade, Emit
    <3> QED
      BY <2>2, <3>1, QuietOwn
  <2> QED
    BY <2>3, <2>4
<1>6. CASE StrategyBuyAnswered
  <2>1. PICK reply \in TradeReply : PopTrade(reply)
    BY <1>6 DEF StrategyBuyAnswered
  <2> QED
    BY <1>0, <1>6, <2>1, ReplyTaken DEF StrategyBuyAnswered
<1>7. CASE StrategyBuyTimedOut
  BY <1>0, <1>7, WaitExpired DEF StrategyBuyTimedOut, Waiting
<1>8. CASE StrategyAskOrder
  <2>1. PICK ret \in {0, -1} :
          /\ OkSpotcnyOrderinfo(call[Strategy].id, ret)
          /\ \E op, id, amount : SetCall(Strategy, op, id, amount)
    BY <1>8 DEF StrategyAskOrder, EndCall
  <2>2. /\ UNCHANGED <<late, answers, tradeQ>> /\ ~ Waiting(Strategy)
        /\ \A u \in Thread \ {Strategy} : call'[u] = call[u]
    BY <1>8, <2>1, <1>a, <1>b DEF StrategyAskOrder, At1
  <2>3. CASE wire' = wire
    BY <2>2, <2>3, QuietOwn
  <2>4. CASE wire' # wire
    <3> DEFINE request == [kind |-> "info", id |-> call[Strategy].id, amount |-> 0]
    <3>1. wire' = wire \cup {request} /\ request.kind = "info"
      BY <2>1, <2>4 DEF OkSpotcnyOrderinfo, Emit
    <3> HIDE DEF request
    <3>2. Waiters \subseteq Waiters'
      BY <2>2 DEF Waiters, Waiting
    <3>3. late = 0 => OwnedBy(Waiters, wire', answers, tradeQ)
      BY <3>1, AskOwned DEF WaitersOwn, Owned
    <3> QED
      BY <2>2, <3>2, <3>3 DEF WaitersOwn, Owned, OwnedBy
  <2> QED
    BY <2>3, <2>4
<1>9. CASE StrategyOrderAnswered \/ StrategyOrderTimedOut
  <2>1. \E op, id, amount : SetCall(Strategy, op, id, amount)
    BY <1>9 DEF StrategyOrderAnswered, StrategyOrderTimedOut, EndCall
  <2>2. /\ UNCHANGED <<wire, answers, tradeQ>> /\ ~ Waiting(Strategy)
        /\ \A u \in Thread \ {Strategy} : call'[u] = call[u]
    BY <1>9, <2>1, <1>a, <1>b DEF StrategyOrderAnswered, StrategyOrderTimedOut, At1
  <2>3. late' \in {late, late + 1} /\ late \in Nat
    BY <1>0, <1>9, TradeAssumption
    DEF StrategyOrderAnswered, StrategyOrderTimedOut, TimedOut, TradeTypeOK
  <2>4. CASE late' = late
    BY <2>2, <2>4, QuietOwn
  <2>5. CASE late' # late
    BY <2>3, <2>5 DEF WaitersOwn, Owned
  <2> QED
    BY <2>4, <2>5
<1>10. CASE StrategySetBtc
  <2>1. /\ ~ Waiting(Strategy) /\ UNCHANGED <<late, wire, answers, tradeQ>>
        /\ \A u \in Thread \ {Strategy} : call'[u] = call[u]
    BY <1>10, <1>a, <1>b DEF StrategySetBtc, EndCall, At1
  <2> QED
    BY <2>1, QuietOwn
<1>11. CASE \/ StrategyTop \/ StrategyKline \/ StrategySetOut \/ StrategyClearAsset
            \/ StrategyClearBtc \/ StrategyClearWin \/ StrategySetAsset
            \/ StrategySetIn \/ StrategyQuit
  <2>1. UNCHANGED tradeVars
    BY <1>11 DEF StrategyTop, StrategyKline, StrategySetOut, StrategyClearAsset,
       StrategyClearBtc, StrategyClearWin, StrategySetAsset, StrategySetIn,
       StrategyQuit
  <2> QED
    BY <2>1, <1>1 DEF tradeVars
<1> QED
  BY <1>2, <1>3, <1>4, <1>5, <1>6, <1>7, <1>8, <1>9, <1>10, <1>11 DEF RunStrategy

LEMMA RiskControlOwn ==
  ASSUME IInv, WaitersOwn, ExclusiveReply, ExclusiveReply', RiskControl
  PROVE  WaitersOwn'
<1> USE DEF noCallVars
<1>0. TradeTypeOK /\ LockHolder /\ Risk \in Thread /\ call \in [Thread -> Call]
  BY RocStrategyAssumption DEF IInv, TypeOK, TradeTypeOK
<1>1. CASE RiskLoop
  <2>1. call' = call \/ \A u \in Thread \ {Risk} : call'[u] = call[u]
    BY <1>0, <1>1 DEF RiskLoop, SellAtMarket, SetCall
  <2>2. ~ Waiting(Risk)
    BY <1>1 DEF RiskLoop, At2, IInv, CallsInv, InSale, Waiting
  <2>3. UNCHANGED <<late, wire, answers, tradeQ>>
    BY <1>1 DEF RiskLoop
  <2> QED
    BY <2>1, <2>2, <2>3, QuietOwn
<1>2. CASE SellStep(Risk)
  BY <1>0, <1>2, SellStepOwn
<1>3. CASE RiskSold
  <2>1. PICK ret \in {0, -1} : SellReturns(Risk, ret)
    BY <1>3 DEF RiskSold
  <2> QED
    BY <1>0, <2>1, SellReturnsOwn
<1>4. CASE \/ RiskTop \/ RiskInfo \/ RiskCalc \/ RiskPut \/ RiskFull \/ RiskDecide
           \/ RiskLock \/ RiskClearBtc \/ RiskClearAsset \/ RiskClearWin \/ RiskSetOut
  <2>1. UNCHANGED tradeVars
    BY <1>4 DEF RiskTop, RiskInfo, RiskCalc, RiskPut, RiskFull, RiskDecide, RiskLock,
       RiskClearBtc, RiskClearAsset, RiskClearWin, RiskSetOut
  <2> QED
    BY <2>1, QuietOwn DEF tradeVars
<1> QED
  BY <1>1, <1>2, <1>3, <1>4 DEF RiskControl

LEMMA OwnInit == Init => WaitersOwn
<1> SUFFICES ASSUME Init PROVE OwnedBy(Waiters, wire, answers, tradeQ)
  BY DEF WaitersOwn, Owned
<1>1. wire = {} /\ answers = {} /\ tradeQ = <<>>
  BY DEF Init, TradeInit
<1>2. Orders(wire) = {} /\ Replies(answers) = {} /\ DOMAIN tradeQ = {}
      /\ Len(tradeQ) = 0
  BY <1>1 DEF Orders, Replies
<1> QED
  BY <1>1, <1>2 DEF OwnedBy, Single, Ids

LEMMA OwnStep == IInv /\ IInv' /\ WaitersOwn /\ [Next]_vars => WaitersOwn'
<1>a. IInv' => ExclusiveReply'
  BY Exclusive, PTL
<1> SUFFICES ASSUME IInv, IInv', WaitersOwn, [Next]_vars PROVE WaitersOwn'
  OBVIOUS
<1>0. ExclusiveReply /\ ExclusiveReply'
  BY <1>a, Exclusive
<1>1. CASE RunStrategy
  BY <1>0, <1>1, RunStrategyOwn
<1>2. CASE RiskControl
  BY <1>0, <1>2, RiskControlOwn
<1>3. CASE Outside
  <2>1. TradeTypeOK /\ Environment
    BY <1>3 DEF Outside, IInv, TypeOK
  <2>2. Waiters' = Waiters
    BY <2>1, EnvironmentType DEF Waiters, Waiting
  <2>3. late' = 0 => OwnedBy(Waiters, wire', answers', tradeQ')
    BY <2>1, EnvironmentOwned DEF WaitersOwn
  <2> QED
    BY <2>2, <2>3 DEF WaitersOwn, Owned
<1>4. CASE QueryAsset \/ Kline \/ Stop \/ UNCHANGED vars
  <2>1. UNCHANGED tradeVars
    BY <1>4 DEF QueryAsset, Kline, Stop, vars
  <2> QED
    BY <2>1, QuietOwn DEF tradeVars
<1> QED
  BY <1>1, <1>2, <1>3, <1>4 DEF Next, Terminated

\* The inductive invariant behind NoStrayReply holds beside IInv.
THEOREM OwnInvariance == Spec => [](IInv /\ WaitersOwn)
<1> QED
  BY OwnInit, OwnStep, Invariance, PTL DEF Spec

\* Whatever the two threads do, a caller of Trade never takes the reply to an earlier
\* request, unless one came later than the ten seconds it was waited for.
THEOREM RepliesOwn == Spec => []NoStrayReply
<1>1. WaitersOwn => NoStrayReply
  BY DEF WaitersOwn, Owned, OwnedBy, Ids, Orders, Replies, Waiters, NoStrayReply, TradeIds
<1> QED
  BY <1>1, OwnInvariance, PTL
-----------------------------------------------------------------------------
(* The books of the strategy and the account at the exchange: where the coins of the
   one order that is under way are counted, at every label and wherever its request
   and its reply are.                                                         *)
\* No call has given up on an order, and the sale without mutex_ has not begun.
Known == ~ doubt /\ pc[Strategy] \notin {"quitSell", "done"}

Kept == tradingBtc + originAsset

\* What an order that was accepted has brought.
Dealt(id) == IF id \in open THEN 0 ELSE IF id \in cancelled THEN Part ELSE Lot

\* The order whose outcome the strategy is waiting for, or asking for.
Pending ==
  IF pc[Strategy] \in {"buyWait", "askOrder", "orderWait"} THEN {call[Strategy].id} ELSE {}

OrdersInv ==
  /\ open \subseteq Pending /\ open \cap cancelled = {}
  /\ \A r \in Orders(wire) : r.id \notin open \cup cancelled

\* At most one question about an order is on its way, and its answer is still true.
Asking == IF At1("orderWait") THEN {call[Strategy].id} ELSE {}
Questions(w) == { r \in w : r.kind = "info" }
Told(a) == { b \in a : b.chan = "info" }
Tells(b) ==
  /\ b.id \in Asking
  /\ b.status = 2 => b.id \notin open \cup cancelled
  /\ b.status = -1 => b.id \in cancelled

QuestionInv ==
  /\ \A r, s \in Questions(wire) : r = s
  /\ \A b, c \in Told(answers) : b = c
  /\ Len(orderQ) <= 1
  /\ Questions(wire) # {} => Told(answers) = {} /\ orderQ = <<>>
  /\ Told(answers) # {} => orderQ = <<>>
  /\ \A r \in Questions(wire) : r.id \in Asking
  /\ \A b \in Told(answers) : Tells(b)
  /\ \A i \in DOMAIN orderQ : Tells(orderQ[i])

\* A reply and what the account holds when it has been sent.
Settles(b) ==
  IF ~ b.result THEN acct.btc = Kept /\ b.id \notin open
  ELSE acct.btc = IF At1("buyWait") THEN Kept + Dealt(b.id) ELSE originAsset

Sold == pc[Strategy] \in {"setOut", "clearAsset", "clearBtc"} \/ At2("clearBtc")
Quiet ==
  /\ pc[Strategy] \in {"top", "kline", "lock", "sell", "clearWin", "buy", "setIn",
                       "quit", "quitCall"}
  /\ ~ At2("clearBtc") /\ \A t \in Thread : ~ Waiting(t)

AccountInv ==
  /\ \A t \in Thread : pc[t] = "sell" => call[t].amount = tradingBtc
  /\ Quiet => acct.btc = Kept
  /\ Sold => acct.btc = originAsset
  /\ pc[Strategy] \in {"askOrder", "orderWait"} =>
       acct.btc = Kept + Dealt(call[Strategy].id)
  /\ pc[Strategy] \in {"setAsset", "setBtc"} => acct.btc = Kept + Lot
  /\ \A t \in Thread : Waiting(t) /\ call[t].id = NoId => acct.btc = Kept
  /\ \A r \in Orders(wire) :
       /\ acct.btc = Kept
       /\ IF At1("buyWait") THEN r.kind = "buy"
                            ELSE r.kind = "sell" /\ r.amount = tradingBtc
  /\ \A b \in Replies(answers) : Settles(b)
  /\ \A i \in DOMAIN tradeQ : Settles(tradeQ[i])

Ledger == late = 0 /\ OrdersInv /\ QuestionInv /\ AccountInv
LedgerInv == Known => Ledger
-----------------------------------------------------------------------------
(* What the other invariants say of the labels. *)
LEMMA Labels ==
  ASSUME IInv
  PROVE  /\ Thread = {Strategy, Risk} /\ Strategy # Risk
         /\ acct.btc \in Nat /\ tradingBtc \in {0, Lot} /\ originAsset \in Nat
         /\ Lot \in Nat \ {0} /\ Part \in Nat
         /\ open \subseteq Id /\ NoId \notin Id
         /\ wire \subseteq Request /\ answers \subseteq TradeReply \cup InfoReply
         /\ tradeQ \in Seq(TradeReply) /\ orderQ \in Seq(InfoReply)
         /\ call \in [Thread -> Call]
         /\ Waiting(Strategy) => pc[Strategy] \in {"sell", "quitSell", "buyWait"}
         /\ Waiting(Risk) => pc[Risk] = "sell"
         /\ pc[Strategy] = "buyWait" => Waiting(Strategy)
         /\ Buying => tradingBtc = 0 /\ pc[Risk] \notin {"sell", "clearBtc"}
         /\ StrategyHolds => ~ RiskHolds
<1>1. TradeTypeOK /\ BotTypeOK /\ CallsInv /\ BooksInv /\ MutexHolder
  BY DEF IInv, TypeOK
<1>2. NoId \notin Id
  BY DEF NoId, Id
<1>3. Thread = {Strategy, Risk} /\ Strategy # Risk /\ Lot \in Nat \ {0} /\ Part \in Nat
  BY RocStrategyAssumption, TradeAssumption
<1>4. /\ acct.btc \in Nat /\ tradingBtc \in {0, Lot} /\ originAsset \in Nat
      /\ open \subseteq Id /\ wire \subseteq Request
      /\ answers \subseteq TradeReply \cup InfoReply
      /\ tradeQ \in Seq(TradeReply) /\ orderQ \in Seq(InfoReply)
      /\ call \in [Thread -> Call]
  BY <1>1 DEF TradeTypeOK, BotTypeOK
<1>5. /\ Waiting(Strategy) => pc[Strategy] \in {"sell", "quitSell", "buyWait"}
      /\ Waiting(Risk) => pc[Risk] = "sell"
      /\ pc[Strategy] = "buyWait" => Waiting(Strategy)
  BY <1>1 DEF CallsInv, InSale, Waiting, At1, At2
<1>6. Buying => tradingBtc = 0 /\ pc[Risk] \notin {"sell", "clearBtc"}
  BY <1>1 DEF BooksInv
<1>7. StrategyHolds => ~ RiskHolds
  BY <1>1, <1>3 DEF MutexHolder
<1> QED
  BY <1>2, <1>3, <1>4, <1>5, <1>6, <1>7

\* While nobody waits, no order is on its way.
LEMMA NobodyWaits ==
  ASSUME IInv, WaitersOwn, late = 0, \A t \in Thread : ~ Waiting(t)
  PROVE  Orders(wire) = {} /\ Replies(answers) = {} /\ tradeQ = <<>>
<1>1. Waiters = {} /\ tradeQ \in Seq(TradeReply)
  BY Labels DEF Waiters
<1>2. OwnedBy({}, wire, answers, tradeQ)
  BY <1>1 DEF WaitersOwn, Owned
<1> QED
  BY <1>1, <1>2, NothingOwned

\* The one that is belongs to the thread that waits.
LEMMA OneOrder ==
  ASSUME IInv, WaitersOwn, late = 0, NEW t \in Thread, Waiting(t)
  PROVE  /\ Single(wire, answers, tradeQ)
         /\ \A r \in Orders(wire) : r.id = call[t].id
         /\ \A b \in Replies(answers) : b.id = call[t].id
         /\ \A i \in DOMAIN tradeQ : tradeQ[i].id = call[t].id
         /\ \A u \in Thread : Waiting(u) => u = t
<1>1. ExclusiveReply
  BY Exclusive
<1>2. Waiters = {call[t].id}
  BY <1>1, OneWaiter
<1>3. OwnedBy({call[t].id}, wire, answers, tradeQ)
  BY <1>2 DEF WaitersOwn, Owned
<1> QED
  BY <1>1, <1>3 DEF OwnedBy, Ids, ExclusiveReply
-----------------------------------------------------------------------------
(* The exchange answers the order that is under way. *)
LEMMA OrderAnswered ==
  ASSUME IInv, WaitersOwn, late = 0, NEW r \in wire, NEW b, r.kind # "info",
         b.chan = "trade", Answer(r, b)
  PROVE  /\ r \in Orders(wire) /\ \E t \in Thread : Waiting(t) /\ r.id = call[t].id
         /\ Orders(wire') = {} /\ Replies(answers') = {b} /\ tradeQ = <<>>
         /\ Questions(wire') = Questions(wire) /\ Told(answers') = Told(answers)
<1>1. r \in Orders(wire)
  BY DEF Orders
<1>2. PICK t \in Thread : Waiting(t)
  BY <1>1, NobodyWaits
<1>3. Single(wire, answers, tradeQ) /\ r.id = call[t].id
  BY <1>1, <1>2, OneOrder
<1>4. /\ \A s \in Orders(wire) : s = r
      /\ Replies(answers) = {} /\ tradeQ = <<>>
  BY <1>1, <1>3 DEF Single
<1>5. wire' = wire \ {r} /\ answers' = answers \cup {b}
  BY DEF Answer
<1>6. Orders(wire') = {}
  BY <1>4, <1>5 DEF Orders
<1>7. Replies(answers') = {b}
  BY <1>4, <1>5 DEF Replies
<1>8. Questions(wire') = Questions(wire) /\ Told(answers') = Told(answers)
  BY <1>5 DEF Questions, Told
<1> QED
  BY <1>1, <1>2, <1>3, <1>4, <1>6, <1>7, <1>8

LEMMA RejectLedger ==
  ASSUME IInv, WaitersOwn, Ledger, NEW r \in wire, RejectOrder(r),
         UNCHANGED <<late, call, tradeQ, orderQ, cancelled, pc, tradingBtc, originAsset>>
  PROVE  Ledger'
<1> DEFINE b == [chan |-> "trade", result |-> FALSE, id |-> r.id]
<1>1. Answer(r, b) /\ r.kind # "info" /\ UNCHANGED <<open, acct>>
  BY DEF RejectOrder
<1>2. b.chan = "trade" /\ b.id = r.id /\ ~ b.result
  OBVIOUS
<1> HIDE DEF b
<1>3. /\ r \in Orders(wire)
      /\ Orders(wire') = {} /\ Replies(answers') = {b} /\ tradeQ' = <<>>
      /\ Questions(wire') = Questions(wire) /\ Told(answers') = Told(answers)
  BY <1>1, <1>2, OrderAnswered DEF Ledger
<1>4. OrdersInv'
  BY <1>1, <1>3 DEF Ledger, OrdersInv, Pending
<1>5. QuestionInv'
  BY <1>1, <1>3 DEF Ledger, QuestionInv, Tells, Asking, At1
<1>6. Settles(b)'
  BY <1>1, <1>2, <1>3 DEF Settles, Ledger, AccountInv, OrdersInv, Kept
<1>7. AccountInv'
  BY <1>1, <1>3, <1>6 DEF Ledger, AccountInv, Quiet, Sold, Waiting, Kept, Dealt, At1, At2
<1> QED
  BY <1>4, <1>5, <1>7 DEF Ledger

LEMMA AcceptBuyLedger ==
  ASSUME IInv, WaitersOwn, Known, Ledger, NEW r \in wire, AcceptBuy(r),
         UNCHANGED <<late, call, tradeQ, orderQ, cancelled, pc, tradingBtc, originAsset>>
  PROVE  Ledger'
<1> DEFINE b == [chan |-> "trade", result |-> TRUE, id |-> r.id]
<1>1. Answer(r, b) /\ r.kind = "buy" /\ open' = open \cup {r.id} /\ acct'.btc = acct.btc
  BY DEF AcceptBuy
<1>2. b.chan = "trade" /\ b.id = r.id /\ b.result
  OBVIOUS
<1> HIDE DEF b
<1>3. /\ r \in Orders(wire) /\ \E t \in Thread : Waiting(t) /\ r.id = call[t].id
      /\ Orders(wire') = {} /\ Replies(answers') = {b} /\ tradeQ' = <<>>
      /\ Questions(wire') = Questions(wire) /\ Told(answers') = Told(answers)
  BY <1>1, <1>2, OrderAnswered DEF Ledger
<1>4. At1("buyWait") /\ acct.btc = Kept /\ r.id \notin open \cup cancelled
  BY <1>1, <1>3 DEF Ledger, AccountInv, OrdersInv
<1>5. /\ Waiting(Strategy) /\ r.id = call[Strategy].id
      /\ \A t \in Thread : Waiting(t) => t = Strategy
  BY <1>3, <1>4, Labels, OneOrder DEF At1, Ledger
<1>6. OrdersInv'
  BY <1>1, <1>3, <1>4, <1>5 DEF Ledger, OrdersInv, Pending, At1
<1>7. QuestionInv'
  BY <1>1, <1>3, <1>4 DEF Ledger, QuestionInv, Tells, Asking, At1
<1>8. Settles(b)'
  BY <1>1, <1>2, <1>4, Labels DEF Settles, Kept, Dealt, At1
<1>9. /\ ~ Quiet' /\ ~ Sold'
      /\ r.id \in Id
  BY <1>4, <1>5, Labels DEF Quiet, Sold, Waiting, At1, At2, Buying, Request
<1>10. AccountInv'
  BY <1>1, <1>3, <1>4, <1>5, <1>8, <1>9, Labels
  DEF Ledger, AccountInv, Waiting, Kept, At1
<1> QED
  BY <1>6, <1>7, <1>10 DEF Ledger

\* Where the other thread is while one waits for the reply to its sale.
LEMMA OneSale ==
  ASSUME IInv, Known, NEW t \in Thread, pc[t] = "sell"
  PROVE  /\ ~ Sold /\ ~ Buying
         /\ pc[Strategy] \notin {"askOrder", "orderWait", "setAsset", "setBtc"}
         /\ Quiet <=> \A u \in Thread : ~ Waiting(u)
<1>1. CASE t = Strategy
  BY <1>1, Labels DEF StrategyHolds, RiskHolds, Sold, Buying, Quiet, At2
<1>2. CASE t = Risk
  <2>1. ~ StrategyHolds /\ ~ Buying
    BY <1>2, Labels DEF RiskHolds
  <2>2. pc[Strategy] \in StrategyLabel
    BY DEF IInv, TypeOK, BotTypeOK
  <2> QED
    BY <1>2, <2>1, <2>2
    DEF StrategyHolds, Buying, Known, Sold, Quiet, At2, StrategyLabel
<1> QED
  BY <1>1, <1>2, Labels

LEMMA AcceptSellLedger ==
  ASSUME IInv, WaitersOwn, Known, Ledger, NEW r \in wire, AcceptSell(r),
         UNCHANGED <<late, call, tradeQ, orderQ, cancelled, pc, tradingBtc, originAsset>>
  PROVE  Ledger'
<1> DEFINE b == [chan |-> "trade", result |-> TRUE, id |-> r.id]
<1>1. /\ Answer(r, b) /\ r.kind = "sell" /\ open' = open
      /\ acct'.btc = acct.btc - r.amount
  BY DEF AcceptSell
<1>2. b.chan = "trade" /\ b.id = r.id /\ b.result
  OBVIOUS
<1> HIDE DEF b
<1>3. /\ r \in Orders(wire)
      /\ Orders(wire') = {} /\ Replies(answers') = {b} /\ tradeQ' = <<>>
      /\ Questions(wire') = Questions(wire) /\ Told(answers') = Told(answers)
  BY <1>1, <1>2, OrderAnswered DEF Ledger
<1>a. PICK t \in Thread : Waiting(t) /\ r.id = call[t].id
  BY <1>1, <1>2, OrderAnswered DEF Ledger
<1>4. ~ At1("buyWait") /\ acct.btc = Kept /\ r.amount = tradingBtc
  BY <1>1, <1>3 DEF Ledger, AccountInv
<1>5. acct'.btc = originAsset
  BY <1>1, <1>4, Labels DEF Kept
<1>6. OrdersInv'
  BY <1>1, <1>3 DEF Ledger, OrdersInv, Pending
<1>7. QuestionInv'
  BY <1>1, <1>3 DEF Ledger, QuestionInv, Tells, Asking, At1
<1>8. Settles(b)'
  BY <1>2, <1>4, <1>5 DEF Settles, At1
<1>9. /\ pc[t] = "sell"
      /\ \A u \in Thread : Waiting(u) => call[u].id # NoId
  BY <1>a, <1>4, Labels, OneOrder DEF Known, At1, Ledger, Request
<1>10. AccountInv'
  BY <1>3, <1>5, <1>8, <1>9, <1>a, OneSale
  DEF Ledger, AccountInv, Quiet, Sold, Waiting, At1, At2
<1> QED
  BY <1>6, <1>7, <1>10 DEF Ledger

LEMMA AnswerInfoLedger ==
  ASSUME IInv, Ledger, NEW r \in wire, AnswerInfo(r),
         UNCHANGED <<late, call, tradeQ, orderQ, cancelled, pc, tradingBtc, originAsset>>
  PROVE  Ledger'
<1>0. PICK b : b = OrderInfo(r.id)
  OBVIOUS
<1>1. /\ r.kind = "info" /\ wire' = wire \ {r} /\ answers' = answers \cup {b}
      /\ UNCHANGED <<open, acct>>
  BY <1>0 DEF AnswerInfo, Answer
<1>2. /\ b.chan = "info" /\ b.id = r.id
      /\ b.status = 2 => b.id \notin open \cup cancelled
      /\ b.status = -1 => b.id \in cancelled
  BY <1>0 DEF OrderInfo
<1>3. r \in Questions(wire)
  BY <1>1 DEF Questions
<1>4. Orders(wire') = Orders(wire) /\ Replies(answers') = Replies(answers)
  BY <1>1, <1>2 DEF Orders, Replies
<1>5. Questions(wire') = {} /\ Told(answers') = {b} /\ orderQ' = <<>>
  <2>1. Told(answers) = {} /\ orderQ = <<>> /\ \A s \in Questions(wire) : s = r
    BY <1>3 DEF Ledger, QuestionInv
  <2> QED
    BY <1>1, <1>2, <2>1 DEF Questions, Told
<1>6. Tells(b)'
  BY <1>1, <1>2, <1>3 DEF Tells, Ledger, QuestionInv, Asking, At1
<1>7. OrdersInv'
  BY <1>1, <1>4 DEF Ledger, OrdersInv, Pending
<1>8. QuestionInv'
  <2>1. Len(<<>>) <= 1 /\ DOMAIN <<>> = {}
    OBVIOUS
  <2> QED
    BY <1>5, <1>6, <2>1 DEF QuestionInv, Tells
<1>9. AccountInv'
  BY <1>1, <1>4 DEF Ledger, AccountInv, Quiet, Sold, Settles, Waiting, Kept, Dealt,
     At1, At2
<1> QED
  BY <1>7, <1>8, <1>9 DEF Ledger

LEMMA HandleLedger ==
  ASSUME IInv, WaitersOwn, Known, Ledger, HandleRequest,
         UNCHANGED <<pc, tradingBtc, originAsset>>
  PROVE  Ledger'
<1>1. PICK r \in wire :
        RejectOrder(r) \/ AcceptBuy(r) \/ AcceptSell(r) \/ AnswerInfo(r)
  BY DEF HandleRequest
<1>2. UNCHANGED <<late, call, tradeQ, orderQ, cancelled, pc, tradingBtc, originAsset>>
  BY DEF HandleRequest
<1> QED
  BY <1>1, <1>2, RejectLedger, AcceptBuyLedger, AcceptSellLedger, AnswerInfoLedger
-----------------------------------------------------------------------------
(* An open order is filled or cancelled while the strategy waits for its outcome. *)
LEMMA OpenOrder ==
  ASSUME IInv, WaitersOwn, Ledger, NEW id \in open
  PROVE  /\ pc[Strategy] \in {"buyWait", "askOrder", "orderWait"}
         /\ call[Strategy].id = id /\ id # NoId /\ id \notin cancelled
         /\ Orders(wire) = {} /\ ~ Quiet /\ ~ Sold
         /\ \A t \in Thread : Waiting(t) => t = Strategy /\ At1("buyWait")
         /\ ~ At1("buyWait") => Replies(answers) = {} /\ tradeQ = <<>>
         /\ \A b \in Replies(answers) : b.id = id /\ b.result
         /\ \A i \in DOMAIN tradeQ : tradeQ[i].id = id /\ tradeQ[i].result
<1>1. /\ pc[Strategy] \in {"buyWait", "askOrder", "orderWait"}
      /\ call[Strategy].id = id /\ id # NoId /\ id \notin cancelled
  BY Labels DEF Ledger, OrdersInv, Pending
<1>2. ~ Quiet /\ ~ Sold /\ pc[Risk] # "sell"
  BY <1>1, Labels DEF Quiet, Sold, Buying, At2
<1>3. \A t \in Thread : Waiting(t) => t = Strategy /\ At1("buyWait")
  BY <1>1, <1>2, Labels DEF At1
<1>4. ~ At1("buyWait") => Orders(wire) = {} /\ Replies(answers) = {} /\ tradeQ = <<>>
  BY <1>3, NobodyWaits DEF Ledger
<1>5. CASE At1("buyWait")
  <2>1. /\ \A r \in Orders(wire) : r.id = id
        /\ \A b \in Replies(answers) : b.id = id
        /\ \A i \in DOMAIN tradeQ : tradeQ[i].id = id
    BY <1>1, <1>5, Labels, OneOrder DEF At1, Ledger
  <2>2. \A r \in Orders(wire) : r.id # id
    BY DEF Ledger, OrdersInv
  <2>3. /\ \A b \in Replies(answers) : b.result
        /\ \A i \in DOMAIN tradeQ : tradeQ[i].result
    BY <2>1 DEF Ledger, AccountInv, Settles
  <2> QED
    BY <1>1, <1>2, <1>3, <1>5, <2>1, <2>2, <2>3
<1>6. CASE ~ At1("buyWait")
  <2>1. DOMAIN <<>> = {}
    OBVIOUS
  <2> QED
    BY <1>1, <1>2, <1>3, <1>4, <1>6, <2>1
<1> QED
  BY <1>5, <1>6

\* Filled or cancelled: the account changes by what the order has then brought.
LEMMA DealLedger ==
  ASSUME IInv, WaitersOwn, Ledger, NEW id \in open,
         open' = open \ {id}, cancelled' \in {cancelled, cancelled \cup {id}},
         acct'.btc = acct.btc + (IF id \in cancelled' THEN Part ELSE Lot),
         UNCHANGED <<late, call, wire, answers, tradeQ, orderQ, pc, tradingBtc,
                     originAsset>>
  PROVE  Ledger'
<1>1. /\ pc[Strategy] \in {"buyWait", "askOrder", "orderWait"}
      /\ call[Strategy].id = id /\ id # NoId /\ id \notin cancelled
      /\ Orders(wire) = {} /\ ~ Quiet /\ ~ Sold
      /\ \A t \in Thread : Waiting(t) => t = Strategy /\ At1("buyWait")
      /\ ~ At1("buyWait") => Replies(answers) = {} /\ tradeQ = <<>>
      /\ \A b \in Replies(answers) : b.id = id /\ b.result
      /\ \A i \in DOMAIN tradeQ : tradeQ[i].id = id /\ tradeQ[i].result
  BY OpenOrder
<1>2. acct.btc \in Nat /\ Kept \in Nat /\ Kept' = Kept /\ Lot \in Nat /\ Part \in Nat
  BY Labels DEF Kept
<1>3. acct'.btc = acct.btc + Dealt(id)' /\ Dealt(id) = 0 /\ Dealt(id)' \in Nat
  BY <1>2 DEF Dealt
<1>4. OrdersInv'
  BY <1>1 DEF Ledger, OrdersInv, Pending
<1>5. QuestionInv'
  BY <1>1 DEF Ledger, QuestionInv, Tells, Asking, At1
<1>6. ASSUME NEW b, b.id = id, b.result, Settles(b), At1("buyWait") PROVE Settles(b)'
  BY <1>2, <1>3, <1>6 DEF Settles, At1
<1>7. /\ \A b \in Replies(answers) : Settles(b)'
      /\ \A i \in DOMAIN tradeQ : Settles(tradeQ[i])'
  <2>1. CASE At1("buyWait")
    BY <1>1, <1>6, <2>1 DEF Ledger, AccountInv
  <2>2. CASE ~ At1("buyWait")
    <3>1. DOMAIN <<>> = {}
      OBVIOUS
    <3> QED
      BY <1>1, <2>2, <3>1
  <2> QED
    BY <2>1, <2>2
<1>8. /\ ~ Quiet' /\ ~ Sold'
      /\ \A t \in Thread : Waiting(t)' => call'[t].id # NoId
  BY <1>1 DEF Quiet, Sold, Waiting, At1, At2
<1>9. pc[Strategy] \in {"askOrder", "orderWait"} =>
        acct'.btc = Kept' + Dealt(call[Strategy].id)'
  BY <1>1, <1>2, <1>3 DEF Ledger, AccountInv
<1>10. AccountInv'
  BY <1>1, <1>7, <1>8, <1>9 DEF Ledger, AccountInv
<1> QED
  BY <1>4, <1>5, <1>10 DEF Ledger

LEMMA FillLedger ==
  ASSUME IInv, WaitersOwn, Ledger, FillOrder \/ CancelOrder,
         UNCHANGED <<pc, tradingBtc, originAsset>>
  PROVE  Ledger'
<1>1. CASE FillOrder
  <2>1. PICK id \in open : open' = open \ {id}
    BY <1>1 DEF FillOrder
  <2>2. id \notin cancelled
    BY OpenOrder
  <2>3. acct'.btc = acct.btc + (IF id \in cancelled' THEN Part ELSE Lot)
    BY <1>1, <2>2 DEF FillOrder
  <2>4. cancelled' = cancelled
        /\ UNCHANGED <<late, call, wire, answers, tradeQ, orderQ>>
    BY <1>1 DEF FillOrder
  <2> QED
    BY <2>1, <2>3, <2>4, DealLedger
<1>2. CASE CancelOrder
  <2>1. PICK id \in open : open' = open \ {id} /\ cancelled' = cancelled \cup {id}
    BY <1>2 DEF CancelOrder
  <2>2. acct'.btc = acct.btc + (IF id \in cancelled' THEN Part ELSE Lot)
    BY <1>2, <2>1 DEF CancelOrder
  <2>3. UNCHANGED <<late, call, wire, answers, tradeQ, orderQ>>
    BY <1>2 DEF CancelOrder
  <2> QED
    BY <2>1, <2>2, <2>3, DealLedger
<1> QED
  BY <1>1, <1>2
-----------------------------------------------------------------------------
(* The connection: a reply reaches its queue, or all that is under way is lost. *)
LEMMA Appended ==
  ASSUME NEW S, NEW b \in S
  PROVE  /\ Append(<<>>, b) = <<b>> /\ Len(<<b>>) = 1 /\ DOMAIN <<b>> = {1}
         /\ <<b>>[1] = b
  OBVIOUS

LEMMA DispatchLedger ==
  ASSUME IInv, WaitersOwn, Ledger, Dispatch, UNCHANGED <<pc, tradingBtc, originAsset>>
  PROVE  Ledger'
<1>1. PICK b \in answers :
        /\ answers' = answers \ {b}
        /\ IF b.chan = "trade"
           THEN tradeQ' = Append(tradeQ, b) /\ orderQ' = orderQ
           ELSE orderQ' = Append(orderQ, b) /\ tradeQ' = tradeQ
  BY DEF Dispatch
<1>2. UNCHANGED <<late, call, wire, open, cancelled, acct>>
  BY DEF Dispatch
<1>3. OrdersInv'
  BY <1>2 DEF Ledger, OrdersInv, Pending
<1>4. CASE b.chan = "trade"
  <2>1. b \in Replies(answers) /\ Told(answers') = Told(answers)
    BY <1>1, <1>4 DEF Replies, Told
  <2>2. PICK t \in Thread : Waiting(t)
    BY <2>1, NobodyWaits DEF Ledger
  <2>3. tradeQ = <<>> /\ \A c \in Replies(answers) : c = b
    BY <2>1, <2>2, OneOrder DEF Ledger, Single
  <2>4. Replies(answers') = {} /\ tradeQ' = <<b>> /\ DOMAIN <<b>> = {1} /\ <<b>>[1] = b
    BY <1>1, <1>4, <2>3, Appended DEF Replies
  <2>5. QuestionInv'
    BY <1>1, <1>2, <1>4, <2>1 DEF Ledger, QuestionInv, Tells, Asking, At1
  <2>6. Settles(b)
    BY <2>1 DEF Ledger, AccountInv
  <2>7. AccountInv'
    BY <1>2, <2>4, <2>6 DEF Ledger, AccountInv, Quiet, Sold, Settles, Waiting, Kept,
       Dealt, At1, At2
  <2> QED
    BY <1>2, <1>3, <2>5, <2>7 DEF Ledger
<1>5. CASE b.chan # "trade"
  <2>1. b \in Told(answers) /\ Replies(answers') = Replies(answers)
    BY <1>1, <1>5, Labels DEF Replies, Told, TradeReply, InfoReply
  <2>2. orderQ = <<>> /\ Questions(wire) = {} /\ \A c \in Told(answers) : c = b
    BY <2>1 DEF Ledger, QuestionInv
  <2>3. Told(answers') = {} /\ orderQ' = <<b>> /\ DOMAIN <<b>> = {1} /\ <<b>>[1] = b
        /\ Len(<<b>>) = 1
    BY <1>1, <1>5, <2>2, Appended DEF Told
  <2>4. Tells(b) /\ Questions(wire') = {}
    BY <1>2, <2>1, <2>2 DEF Ledger, QuestionInv
  <2>5. QuestionInv'
    BY <1>2, <2>3, <2>4 DEF QuestionInv, Tells, Asking, At1
  <2>6. AccountInv'
    BY <1>1, <1>2, <1>5, <2>1
    DEF Ledger, AccountInv, Quiet, Sold, Settles, Waiting, Kept, Dealt, At1, At2
  <2> QED
    BY <1>2, <1>3, <2>5, <2>6 DEF Ledger
<1> QED
  BY <1>4, <1>5

LEMMA LossLedger ==
  ASSUME Ledger, OnClose, UNCHANGED <<pc, tradingBtc, originAsset>>
  PROVE  Ledger'
<1>1. /\ wire' = {} /\ answers' = {}
      /\ UNCHANGED <<late, call, tradeQ, orderQ, open, cancelled, acct>>
  BY DEF OnClose
<1>2. /\ Orders(wire') = {} /\ Replies(answers') = {}
      /\ Questions(wire') = {} /\ Told(answers') = {}
  BY <1>1 DEF Orders, Replies, Questions, Told
<1>3. OrdersInv'
  BY <1>1, <1>2 DEF Ledger, OrdersInv, Pending
<1>4. QuestionInv'
  BY <1>1, <1>2 DEF Ledger, QuestionInv, Tells, Asking, At1
<1>5. AccountInv'
  BY <1>1, <1>2
  DEF Ledger, AccountInv, Quiet, Sold, Settles, Waiting, Kept, Dealt, At1, At2
<1> QED
  BY <1>1, <1>3, <1>4, <1>5 DEF Ledger

\* A step that moves neither coins nor orders, between labels of the same kind.
LEMMA SameLedger ==
  ASSUME IInv, Ledger, UNCHANGED <<late, call, wire, answers, tradeQ, orderQ, open,
           cancelled, acct, tradingBtc, originAsset>>,
         pc \in [Thread -> StrategyLabel \cup RiskLabel],
         \A l \in {"buyWait", "askOrder", "orderWait", "sell"} :
            pc'[Strategy] = l <=> pc[Strategy] = l,
         \A l \in {"sell", "clearBtc"} : pc'[Risk] = l <=> pc[Risk] = l,
         pc'[Strategy] \in {"setOut", "clearAsset", "clearBtc"} =>
           pc[Strategy] \in {"setOut", "clearAsset", "clearBtc"},
         pc'[Strategy] \in {"setAsset", "setBtc"} => pc[Strategy] \in {"setAsset", "setBtc"},
         Quiet' => Quiet
  PROVE  Ledger'
<1>1. OrdersInv'
  BY DEF Ledger, OrdersInv, Pending
<1>2. QuestionInv'
  BY DEF Ledger, QuestionInv, Tells, Asking, At1
<1>3. \A t \in Thread : pc'[t] = "sell" => pc[t] = "sell"
  BY Labels
<1>4. AccountInv'
  BY <1>3 DEF Ledger, AccountInv, Sold, Settles, Waiting, Kept, Dealt, At1, At2
<1> QED
  BY <1>1, <1>2, <1>4 DEF Ledger

LEMMA OutsideLedger ==
  ASSUME IInv, WaitersOwn, LedgerInv, Outside
  PROVE  LedgerInv'
<1> USE DEF botVars, books
<1> SUFFICES ASSUME Known' PROVE Ledger'
  BY DEF LedgerInv
<1>1. doubt' = doubt /\ UNCHANGED <<pc, tradingBtc, originAsset>>
  BY DEF Outside, Environment, HandleRequest, FillOrder, CancelOrder, Dispatch, Connect,
     OnClose
<1>2. Known /\ Ledger
  BY <1>1 DEF Known, LedgerInv
<1>3. CASE Connect
  <2>1. UNCHANGED <<late, call, wire, answers, tradeQ, orderQ, open, cancelled, acct>>
    BY <1>3 DEF Connect
  <2>2. Quiet' => Quiet
    BY <1>1, <2>1 DEF Quiet, Waiting, At2
  <2>3. pc \in [Thread -> StrategyLabel \cup RiskLabel]
    BY DEF IInv, TypeOK, BotTypeOK
  <2> QED
    BY <1>1, <1>2, <2>1, <2>2, <2>3, SameLedger
<1> QED
  BY <1>1, <1>2, <1>3, HandleLedger, FillLedger, DispatchLedger, LossLedger
  DEF Outside, Environment
-----------------------------------------------------------------------------
(* The threads.  While nobody waits for a reply or for the state of an order, nothing
   is under way.                                                              *)
Settled ==
  /\ late = 0 /\ Orders(wire) = {} /\ Replies(answers) = {} /\ tradeQ = <<>>
  /\ open = {} /\ Questions(wire) = {} /\ Told(answers) = {} /\ orderQ = <<>>
  /\ \A t \in Thread : ~ Waiting(t)
  /\ pc[Strategy] \notin {"askOrder", "orderWait"}
  /\ \A t \in Thread : pc[t] = "sell" => call[t].amount = tradingBtc
  /\ Quiet => acct.btc = Kept
  /\ Sold => acct.btc = originAsset
  /\ pc[Strategy] \in {"setAsset", "setBtc"} => acct.btc = Kept + Lot

LEMMA SettledBefore ==
  ASSUME IInv, WaitersOwn, Ledger, \A t \in Thread : ~ Waiting(t),
         pc[Strategy] \notin {"askOrder", "orderWait"}
  PROVE  Settled
<1>1. Orders(wire) = {} /\ Replies(answers) = {} /\ tradeQ = <<>>
  BY NobodyWaits DEF Ledger
<1>2. Pending = {} /\ Asking = {}
  BY Labels DEF Pending, Asking, At1
<1>3. open = {} /\ Questions(wire) = {} /\ Told(answers) = {} /\ orderQ = <<>>
  <2>1. open = {} /\ Questions(wire) = {} /\ Told(answers) = {} /\ DOMAIN orderQ = {}
    BY <1>2 DEF Ledger, OrdersInv, QuestionInv, Tells
  <2>2. orderQ \in Seq(InfoReply)
    BY Labels
  <2>3. Len(orderQ) = 0
    BY <2>1, <2>2
  <2> QED
    BY <2>1, <2>2, <2>3
<1> QED
  BY <1>1, <1>3 DEF Settled, Ledger, AccountInv

LEMMA SettledLedger == Settled => Ledger
<1> SUFFICES ASSUME Settled PROVE Ledger
  OBVIOUS
<1>1. Len(<<>>) <= 1 /\ DOMAIN <<>> = {}
  OBVIOUS
<1>2. OrdersInv
  BY DEF Settled, OrdersInv
<1>3. QuestionInv
  BY <1>1 DEF Settled, QuestionInv
<1>4. AccountInv
  BY <1>1 DEF Settled, AccountInv
<1> QED
  BY <1>2, <1>3, <1>4 DEF Settled, Ledger

\* While risk_control holds mutex_ and there are coins.
LEMMA RiskAlone ==
  ASSUME IInv, Known, RiskHolds, tradingBtc # 0
  PROVE  /\ pc[Strategy] \in {"top", "kline", "lock", "setIn", "quit", "quitCall"}
         /\ ~ Waiting(Strategy)
<1>1. pc[Strategy] \in StrategyLabel
  BY DEF IInv, TypeOK, BotTypeOK
<1>2. ~ StrategyHolds /\ ~ Buying
  BY Labels
<1>3. pc[Strategy] \in {"top", "kline", "lock", "setIn", "quit", "quitCall"}
  BY <1>1, <1>2 DEF StrategyLabel, StrategyHolds, Buying, Known
<1> QED
  BY <1>3, Labels

\* An order goes out, or is skipped and has no id.
LEMMA OrderOut ==
  ASSUME IInv, Settled, NEW kind \in {"buy", "sell"}, NEW amount, NEW id,
         OkSpotcnyTrade(kind, amount, id, 0)
  PROVE  LET r == [kind |-> kind, id |-> id, amount |-> amount] IN
           /\ Orders(wire') \subseteq {r} /\ Questions(wire') = {}
           /\ id = NoId => Orders(wire') = {}
           /\ id \notin cancelled'
<1> DEFINE r == [kind |-> kind, id |-> id, amount |-> amount]
<1>1. r.kind # "info"
  OBVIOUS
<1>2. \/ wire' = wire \cup {r} /\ id # NoId
      \/ wire' = wire
  BY Labels DEF OkSpotcnyTrade, Emit, NextId
<1>3. Orders(wire) = {} /\ Questions(wire) = {}
  BY DEF Settled
<1>4. id \notin cancelled'
  BY DEF OkSpotcnyTrade
<1> HIDE DEF r
<1>5. Orders(wire') \subseteq {r} /\ Questions(wire') = {} /\ (id = NoId => Orders(wire') = {})
  BY <1>1, <1>2, <1>3 DEF Orders, Questions
<1> QED
  BY <1>4, <1>5 DEF r

LEMMA SendSellLedger ==
  ASSUME IInv, WaitersOwn, Known, Ledger, NEW t \in Thread, SendSell(t),
         UNCHANGED <<pc, tradingBtc, originAsset>>
  PROVE  Ledger'
<1>1. /\ call[t].op = "emit" /\ call \in [Thread -> Call] /\ pc[t] = "sell"
      /\ call[t].amount = tradingBtc
  <2>1. call[t].op = "emit" /\ InSale(t) /\ t \in {Strategy, Risk}
    BY Labels DEF SendSell, InSale
  <2>2. pc[t] = "sell"
    BY <2>1 DEF IInv, CallsInv, Known, At2
  <2> QED
    BY <2>1, <2>2, Labels DEF Ledger, AccountInv
<1>2. \A u \in Thread : ~ Waiting(u)
  <2>1. \A u \in Thread \ {t} : call[u].op # "sellwait"
    BY <1>1 DEF IInv, LockHolder
  <2>2. \A u \in Thread : call[u].op # "buywait"
    BY <1>1, OneSale, Labels DEF IInv, CallsInv, At1, Buying
  <2> QED
    BY <1>1, <2>1, <2>2 DEF Waiting
<1>3. /\ Settled /\ acct.btc = Kept /\ ~ Sold
      /\ pc[Strategy] \notin {"buyWait", "askOrder", "orderWait", "setAsset", "setBtc"}
  <2>1. /\ ~ Sold /\ Quiet
        /\ pc[Strategy] \notin {"askOrder", "orderWait", "setAsset", "setBtc"}
    BY <1>1, <1>2, OneSale
  <2>2. pc[Strategy] # "buyWait"
    BY <1>2, Labels
  <2> QED
    BY <1>2, <2>1, <2>2, SettledBefore DEF Ledger, AccountInv
<1>4. PICK id \in Id \cup {NoId} :
        /\ OkSpotcnyTrade("sell", call[t].amount, id, 0)
        /\ SetCall(t, "sellwait", id, call[t].amount)
  BY DEF SendSell
<1>5. /\ call'[t] = [op |-> "sellwait", id |-> id, amount |-> call[t].amount]
      /\ \A u \in Thread \ {t} : call'[u] = call[u]
  BY <1>1, <1>4 DEF SetCall
<1>6. UNCHANGED <<late, answers, tradeQ, orderQ, open, acct>>
  BY DEF SendSell
<1>7. /\ \A r \in Orders(wire') : r.kind = "sell" /\ r.amount = tradingBtc /\ r.id = id
      /\ Questions(wire') = {} /\ id \notin cancelled'
  BY <1>1, <1>3, <1>4, OrderOut
<1>8. OrdersInv'
  BY <1>3, <1>6, <1>7 DEF OrdersInv, Settled
<1>a. Len(<<>>) <= 1 /\ DOMAIN <<>> = {}
  OBVIOUS
<1>9. QuestionInv'
  BY <1>3, <1>6, <1>7, <1>a DEF QuestionInv, Settled
<1>10. ~ Quiet' /\ (Sold' <=> Sold)
  BY <1>5 DEF Quiet, Sold, Waiting, At2
<1>11. AccountInv'
  BY <1>1, <1>2, <1>3, <1>5, <1>6, <1>7, <1>10, <1>a
  DEF AccountInv, Settled, Waiting, Kept, At1
<1> QED
  BY <1>3, <1>6, <1>8, <1>9, <1>11 DEF Ledger, Settled

LEMMA SellStepLedger ==
  ASSUME IInv, WaitersOwn, Known, Ledger, NEW t \in Thread, SellStep(t)
  PROVE  Ledger'
<1>1. UNCHANGED <<pc, tradingBtc, originAsset>>
  BY DEF SellStep, botVars, books
<1>2. CASE AcquireTradeLock(t)
  <2>1. /\ UNCHANGED <<late, wire, answers, tradeQ, orderQ, open, cancelled, acct>>
        /\ call[t].op = "lock" /\ SetCall(t, "emit", NoId, call[t].amount)
    BY <1>2 DEF AcquireTradeLock
  <2>2. /\ call'[t] = [op |-> "emit", id |-> NoId, amount |-> call[t].amount]
        /\ \A u \in Thread \ {t} : call'[u] = call[u]
    BY <2>1, Labels DEF SetCall
  <2>3. \A u \in Thread : /\ Waiting(u)' <=> Waiting(u)
                          /\ Waiting(u) => call'[u] = call[u]
                          /\ call'[u].amount = call[u].amount
    BY <2>1, <2>2 DEF Waiting
  <2>4. pc[Strategy] \in {"buyWait", "askOrder", "orderWait"} =>
          call'[Strategy] = call[Strategy]
    <3>1. pc[Strategy] \in {"buyWait", "askOrder", "orderWait"} => call[Strategy].op # "lock"
      BY DEF IInv, CallsInv, At1
    <3> QED
      BY <2>1, <2>2, <3>1, Labels
  <2>5. OrdersInv'
    BY <1>1, <2>1, <2>4 DEF Ledger, OrdersInv, Pending
  <2>6. QuestionInv'
    BY <1>1, <2>1, <2>4 DEF Ledger, QuestionInv, Tells, Asking, At1
  <2>7. Quiet' => Quiet
    BY <1>1, <2>3 DEF Quiet, At2
  <2>8. AccountInv'
    BY <1>1, <2>1, <2>3, <2>4, <2>7
    DEF Ledger, AccountInv, Sold, Settles, Kept, Dealt, At1, At2
  <2> QED
    BY <2>1, <2>5, <2>6, <2>8 DEF Ledger
<1> QED
  BY <1>1, <1>2, SendSellLedger DEF SellStep

\* A step of a thread while nothing is under way, after which nothing is either.
LEMMA SettledStep ==
  ASSUME Settled, UNCHANGED <<late, wire, answers, tradeQ, orderQ, open>>,
         \A t \in Thread : ~ Waiting(t)',
         pc'[Strategy] \notin {"askOrder", "orderWait"},
         \A t \in Thread : pc'[t] = "sell" => call'[t].amount = tradingBtc',
         Quiet' => acct'.btc = Kept', Sold' => acct'.btc = originAsset',
         pc'[Strategy] \in {"setAsset", "setBtc"} => acct'.btc = Kept' + Lot
  PROVE  Ledger'
<1>1. Settled'
  BY DEF Settled
<1> QED
  BY <1>1, SettledLedger, PTL

\* Unless the strategy waits for its buy or its outcome, there is neither.
LEMMA NoBuyUnderWay ==
  ASSUME Ledger, pc[Strategy] \notin {"buyWait", "askOrder", "orderWait"},
         orderQ \in Seq(InfoReply)
  PROVE  open = {} /\ Questions(wire) = {} /\ Told(answers) = {} /\ orderQ = <<>>
<1>1. Pending = {} /\ Asking = {}
  BY DEF Pending, Asking, At1
<1>2. open = {} /\ Questions(wire) = {} /\ Told(answers) = {} /\ DOMAIN orderQ = {}
  BY <1>1 DEF Ledger, OrdersInv, QuestionInv, Tells
<1>3. Len(orderQ) = 0
  BY <1>2
<1> QED
  BY <1>2, <1>3

Idle == IInv /\ WaitersOwn /\ late = 0 /\ \A t \in Thread : ~ Waiting(t)
LEMMA IdleEmpty == Idle => Orders(wire) = {} /\ Replies(answers) = {} /\ tradeQ = <<>>
  BY NobodyWaits DEF Idle

\* The return of a sale whose outcome is known: no order is under way any more, and
\* the account holds what the result says.
LEMMA SellReturnsLedger ==
  ASSUME IInv, WaitersOwn, WaitersOwn', IInv', Known, Ledger, ~ doubt',
         NEW t \in Thread, pc[t] = "sell", NEW ret \in {0, -1}, SellReturns(t, ret)
  PROVE  /\ late' = 0 /\ Orders(wire') = {} /\ Replies(answers') = {} /\ tradeQ' = <<>>
         /\ open' = {} /\ Questions(wire') = {} /\ Told(answers') = {} /\ orderQ' = <<>>
         /\ \A u \in Thread : ~ Waiting(u)'
         /\ \A u \in Thread \ {t} : call'[u] = call[u]
         /\ acct'.btc = IF ret = 0 THEN originAsset ELSE Kept
<1>0. /\ call'[t] = [op |-> "idle", id |-> NoId, amount |-> 0]
      /\ \A u \in Thread \ {t} : call'[u] = call[u]
      /\ UNCHANGED <<answers, orderQ, open, acct>>
  BY Labels DEF SellReturns, EndCall, SetCall
<1>1. /\ ~ Buying /\ pc[Strategy] # "buyWait"
      /\ Quiet <=> \A u \in Thread : ~ Waiting(u)
  BY OneSale DEF Buying
<1>2. open = {} /\ Questions(wire) = {} /\ Told(answers) = {} /\ orderQ = <<>>
  BY <1>1, NoBuyUnderWay, Labels DEF Buying
<1>3. call[t].op \in {"emit", "sellwait"}
  BY DEF SellReturns, SellFails, SellAnswered, SellTimedOut
<1>4. \A u \in Thread \ {t} : ~ Waiting(u)
  <2>1. \A u \in Thread \ {t} : call[u].op # "sellwait"
    BY <1>3 DEF IInv, LockHolder
  <2>2. \A u \in Thread : call[u].op # "buywait"
    BY <1>1, Labels DEF IInv, CallsInv, At1, Waiting
  <2> QED
    BY <2>1, <2>2 DEF Waiting
<1>5. \A u \in Thread : ~ Waiting(u)'
  BY <1>0, <1>4 DEF Waiting
<1>6. /\ late' = 0 /\ Questions(wire') = {}
      /\ acct.btc = IF ret = 0 THEN originAsset ELSE Kept
  <2>1. CASE SellFails(t) /\ ret = -1
    <3>1. \A u \in Thread : ~ Waiting(u)
      BY <1>4, <2>1 DEF SellFails, Waiting
    <3>2. acct.btc = Kept
      BY <1>1, <3>1 DEF Ledger, AccountInv
    <3> QED
      BY <1>2, <2>1, <3>2 DEF SellFails, OkSpotcnyTrade, Emit, Ledger
  <2>2. CASE SellAnswered(t, ret)
    <3>1. PICK reply : PopTrade(reply) /\ ret = (IF reply.result THEN 0 ELSE -1)
      BY <2>2 DEF SellAnswered
    <3>2. 1 \in DOMAIN tradeQ /\ reply = tradeQ[1]
      <4>1. tradeQ # <<>> /\ reply = Head(tradeQ) /\ tradeQ \in Seq(TradeReply)
        BY <3>1, Labels DEF PopTrade
      <4> QED
        BY <4>1
    <3>3. Settles(reply)
      BY <3>2 DEF Ledger, AccountInv
    <3>4. acct.btc = IF ret = 0 THEN originAsset ELSE Kept
      BY <1>1, <3>1, <3>3 DEF Settles, At1
    <3> QED
      BY <1>2, <2>2, <3>4 DEF SellAnswered, Ledger
  <2>3. CASE SellTimedOut(t) /\ ret = -1
    <3>1. /\ call[t].id = NoId /\ call[t].op = "sellwait" /\ wire' = wire
          /\ late' = IF call[t].id \in InTransit THEN late + 1 ELSE late
      BY <2>3 DEF SellTimedOut, TimedOut
    <3>2. NoId \notin InTransit
      BY Labels DEF InTransit, Request, TradeReply, InfoReply
    <3>3. acct.btc = Kept
      BY <3>1 DEF Ledger, AccountInv, Waiting
    <3> QED
      BY <1>2, <2>3, <3>1, <3>2, <3>3 DEF Ledger
  <2> QED
    BY <2>1, <2>2, <2>3 DEF SellReturns
<1>7. Idle' => (Orders(wire) = {} /\ Replies(answers) = {} /\ tradeQ = <<>>)'
  BY IdleEmpty, PTL
<1> QED
  BY <1>0, <1>2, <1>5, <1>6, <1>7 DEF Idle
-----------------------------------------------------------------------------
(* The steps of the strategy thread. *)
LEMMA StrategyPc ==
  ASSUME IInv, NEW l \in StrategyLabel, Go1(l)
  PROVE  pc'[Strategy] = l /\ pc'[Risk] = pc[Risk]
  BY Go1Pc DEF IInv, TypeOK, BotTypeOK, PcType

LEMMA StrategyCall ==
  ASSUME IInv, NEW t \in Thread, NEW op, NEW id, NEW amount, SetCall(t, op, id, amount)
  PROVE  /\ call'[t] = [op |-> op, id |-> id, amount |-> amount]
         /\ \A u \in Thread \ {t} : call'[u] = call[u]
  BY Labels DEF SetCall

\* A doubt is for ever, and so is the end of the thread.
LEMMA StrategyKnown ==
  ASSUME IInv, RunStrategy, Known'
  PROVE  Known
<1>1. doubt \in BOOLEAN /\ (doubt => doubt')
  BY DEF IInv, TypeOK, TradeTypeOK, RunStrategy, StrategyTop, StrategyKline, StrategyLock,
     SellStep, AcquireTradeLock, SendSell, StrategySold, StrategySetOut,
     StrategyClearAsset, StrategyClearBtc, StrategyClearWin, StrategyBuy,
     StrategyBuyAnswered, StrategyBuyTimedOut, StrategyAskOrder, StrategyOrderAnswered,
     StrategyOrderTimedOut, StrategySetAsset, StrategySetBtc, StrategySetIn,
     StrategyQuit, StrategyQuitCall, StrategyQuitSold, SellReturns, SellFails,
     SellAnswered, SellTimedOut, TimedOut, tradeVars, noCallVars
<1>2. pc[Strategy] # "done"
  <2>1. CASE SellStep(Strategy)
    BY <2>1, Labels DEF IInv, CallsInv, InSale, SellStep, AcquireTradeLock, SendSell
  <2> QED
    BY <2>1 DEF RunStrategy, StrategyTop, StrategyKline, StrategyLock, StrategySold,
       StrategySetOut, StrategyClearAsset, StrategyClearBtc, StrategyClearWin,
       StrategyBuy, StrategyBuyAnswered, StrategyBuyTimedOut, StrategyAskOrder,
       StrategyOrderAnswered, StrategyOrderTimedOut, StrategySetAsset, StrategySetBtc,
       StrategySetIn, StrategyQuit, StrategyQuitCall, StrategyQuitSold, At1
<1>3. pc[Strategy] # "quitSell"
  <2> SUFFICES ASSUME pc[Strategy] = "quitSell" PROVE FALSE
    OBVIOUS
  <2>1. CASE SellStep(Strategy)
    BY <2>1 DEF SellStep, Known
  <2>2. CASE StrategyQuitSold
    BY <2>2, StrategyPc DEF StrategyQuitSold, Known, StrategyLabel
  <2> QED
    BY <2>1, <2>2 DEF RunStrategy, StrategyTop, StrategyKline, StrategyLock, StrategySold,
       StrategySetOut, StrategyClearAsset, StrategyClearBtc, StrategyClearWin,
       StrategyBuy, StrategyBuyAnswered, StrategyBuyTimedOut, StrategyAskOrder,
       StrategyOrderAnswered, StrategyOrderTimedOut, StrategySetAsset, StrategySetBtc,
       StrategySetIn, StrategyQuit, StrategyQuitCall, At1
<1> QED
  BY <1>1, <1>2, <1>3 DEF Known

\* The sale on the indicator's word.
LEMMA StrategySaleLedger ==
  ASSUME IInv, IInv', WaitersOwn, WaitersOwn', Known, Known', Ledger,
         StrategyLock \/ StrategySold \/ StrategyClearBtc
  PROVE  Ledger'
<1> USE DEF botVars, books, noCallVars
<1>1. CASE StrategyLock
  <2>1. At1("lock") /\ mutex = NoThread
    BY <1>1 DEF StrategyLock
  <2>2. ~ RiskHolds
    BY <2>1, TradeAssumption, Labels DEF IInv, MutexHolder
  <2>3. \A t \in Thread : ~ Waiting(t)
    BY <2>1, <2>2, Labels DEF At1, RiskHolds
  <2>4. Settled /\ Quiet
    BY <2>1, <2>2, <2>3, SettledBefore DEF At1, At2, Quiet, RiskHolds
  <2>5. acct.btc = Kept
    BY <2>4 DEF Settled
  <2>6. CASE tradingBtc = 0
    <3>1. Go1("top") /\ UNCHANGED <<tradeVars, books>>
      BY <1>1, <2>6 DEF StrategyLock, tradeVars
    <3>2. pc'[Strategy] = "top" /\ pc'[Risk] = pc[Risk]
      BY <3>1, StrategyPc DEF StrategyLabel
    <3>3. \A t \in Thread : ~ Waiting(t)' /\ pc'[t] # "sell"
      BY <2>2, <2>3, <3>1, <3>2, Labels DEF Waiting, tradeVars, RiskHolds
    <3>4. ~ Sold'
      BY <2>2, <3>2 DEF Sold, RiskHolds, At2
    <3> QED
      BY <2>4, <2>5, <3>1, <3>2, <3>3, <3>4, SettledStep DEF tradeVars, Kept
  <2>7. CASE tradingBtc # 0
    <3>1. /\ Go1("sell") /\ SetCall(Strategy, "lock", NoId, tradingBtc)
          /\ UNCHANGED <<noCallVars, books>>
      BY <1>1, <2>7 DEF StrategyLock, SellAtMarket
    <3>2. pc'[Strategy] = "sell" /\ pc'[Risk] = pc[Risk] /\ pc[Risk] # "sell"
      BY <2>2, <3>1, StrategyPc DEF StrategyLabel, RiskHolds
    <3>3. /\ call'[Strategy] = [op |-> "lock", id |-> NoId, amount |-> tradingBtc]
          /\ \A u \in Thread \ {Strategy} : call'[u] = call[u]
      BY <3>1, Labels, StrategyCall
    <3>4. \A t \in Thread : /\ ~ Waiting(t)'
                            /\ pc'[t] = "sell" => call'[t].amount = tradingBtc
      BY <2>3, <3>2, <3>3, Labels DEF Waiting
    <3>5. ~ Sold'
      BY <2>2, <3>2 DEF Sold, RiskHolds, At2
    <3> QED
      BY <2>4, <2>5, <3>1, <3>2, <3>4, <3>5, SettledStep DEF Kept
  <2> QED
    BY <2>6, <2>7
<1>2. CASE StrategySold
  <2>1. PICK ret \in {0, -1} :
          /\ SellReturns(Strategy, ret)
          /\ IF ret = 0 THEN Go1("setOut") ELSE Go1("top")
    BY <1>2 DEF StrategySold
  <2>2. At1("sell") /\ UNCHANGED books
    BY <1>2 DEF StrategySold
  <2>3. /\ pc'[Strategy] = (IF ret = 0 THEN "setOut" ELSE "top")
        /\ pc'[Risk] = pc[Risk]
    BY <2>1, StrategyPc DEF StrategyLabel
  <2>4. ~ doubt' /\ pc[Strategy] = "sell" /\ Strategy \in Thread
    BY <2>2, Labels DEF Known, At1
  <2>5. /\ late' = 0 /\ Orders(wire') = {} /\ Replies(answers') = {} /\ tradeQ' = <<>>
        /\ open' = {} /\ Questions(wire') = {} /\ Told(answers') = {} /\ orderQ' = <<>>
        /\ \A u \in Thread : ~ Waiting(u)'
        /\ acct'.btc = IF ret = 0 THEN originAsset ELSE Kept
    BY <2>1, <2>4, SellReturnsLedger
  <2>6. ~ RiskHolds
    BY <2>4, Labels DEF StrategyHolds
  <2>7. \A t \in Thread : pc'[t] # "sell"
    BY <2>3, <2>6, Labels DEF RiskHolds
  <2>8. Settled'
    BY <2>2, <2>3, <2>5, <2>6, <2>7
    DEF Settled, Quiet, Sold, Waiting, Kept, At2, RiskHolds
  <2> QED
    BY <2>8, SettledLedger, PTL
<1>3. CASE StrategyClearBtc
  <2>1. /\ At1("clearBtc") /\ Go1("clearWin") /\ tradingBtc' = 0
        /\ UNCHANGED <<tradeVars, originAsset>>
    BY <1>3 DEF StrategyClearBtc
  <2>2. pc'[Strategy] = "clearWin" /\ pc'[Risk] = pc[Risk]
    BY <2>1, StrategyPc DEF StrategyLabel
  <2>3. ~ RiskHolds /\ \A t \in Thread : ~ Waiting(t)
    BY <2>1, Labels DEF StrategyHolds, RiskHolds, At1
  <2>4. Settled /\ Sold
    BY <2>1, <2>3, SettledBefore DEF At1, Sold
  <2>5. acct.btc = originAsset
    BY <2>4 DEF Settled
  <2>6. \A t \in Thread : ~ Waiting(t)' /\ pc'[t] # "sell"
    BY <2>1, <2>2, <2>3, Labels DEF Waiting, tradeVars, RiskHolds
  <2>7. ~ Sold' /\ Kept' = originAsset'
    BY <2>1, <2>2, <2>3, Labels DEF Sold, RiskHolds, At2, Kept
  <2> QED
    BY <2>1, <2>2, <2>4, <2>5, <2>6, <2>7, SettledStep DEF tradeVars
<1> QED
  BY <1>1, <1>2, <1>3
\* The buy goes out: while the strategy is buying it has no coins of its own.
LEMMA StrategyBuyLedger ==
  ASSUME IInv, WaitersOwn, Known, Ledger, StrategyBuy
  PROVE  Ledger'
<1> USE DEF botVars, books
<1>1. PICK ret \in {0, -1}, id \in Id \cup {NoId} :
        /\ OkSpotcnyTrade("buy", 0, id, ret)
        /\ IF ret = 0 THEN Go1("buyWait") /\ SetCall(Strategy, "buywait", id, 0)
                      ELSE Go1("top") /\ UNCHANGED call
  BY DEF StrategyBuy
<1>2. At1("buy") /\ UNCHANGED <<late, answers, tradeQ, orderQ, open, acct, books>>
  BY DEF StrategyBuy
<1>3. tradingBtc = 0 /\ pc[Risk] \notin {"sell", "clearBtc"}
  BY <1>2, Labels DEF Buying, At1
<1>4. \A t \in Thread : ~ Waiting(t)
  BY <1>2, <1>3, Labels DEF At1
<1>5. Settled /\ Quiet
  BY <1>2, <1>3, <1>4, SettledBefore DEF At1, At2, Quiet
<1>6. acct.btc = Kept
  BY <1>5 DEF Settled
<1>7. CASE ret = -1
  <2>1. wire' = wire /\ call' = call
    BY <1>1, <1>7 DEF OkSpotcnyTrade, Emit
  <2>2. pc'[Strategy] = "top" /\ pc'[Risk] = pc[Risk]
    BY <1>1, <1>7, StrategyPc DEF StrategyLabel
  <2>3. ~ Sold' /\ \A t \in Thread : ~ Waiting(t)' /\ pc'[t] # "sell"
    BY <1>3, <1>4, <2>1, <2>2, Labels DEF Sold, Waiting, At2
  <2> QED
    BY <1>2, <1>5, <1>6, <2>1, <2>2, <2>3, SettledStep DEF Kept
<1>8. CASE ret = 0
  <2>1. pc'[Strategy] = "buyWait" /\ pc'[Risk] = pc[Risk]
    BY <1>1, <1>8, StrategyPc DEF StrategyLabel
  <2>2. /\ call'[Strategy] = [op |-> "buywait", id |-> id, amount |-> 0]
        /\ \A u \in Thread \ {Strategy} : call'[u] = call[u]
    BY <1>1, <1>8, Labels, StrategyCall
  <2>3. /\ \A r \in Orders(wire') : r.kind = "buy" /\ r.id = id
        /\ Questions(wire') = {} /\ id \notin cancelled'
    BY <1>1, <1>5, <1>8, OrderOut
  <2>4. Len(<<>>) <= 1 /\ DOMAIN <<>> = {}
    OBVIOUS
  <2>5. OrdersInv'
    BY <1>2, <1>5, <2>3 DEF OrdersInv, Settled
  <2>6. QuestionInv'
    BY <1>2, <1>5, <2>3, <2>4 DEF QuestionInv, Settled
  <2>7. ~ Quiet' /\ ~ Sold' /\ \A t \in Thread : pc'[t] # "sell"
    BY <1>3, <2>1, Labels DEF Quiet, Sold, At2
  <2>8. AccountInv'
    BY <1>2, <1>5, <1>6, <2>1, <2>3, <2>4, <2>7 DEF AccountInv, Settled, Kept, At1
  <2> QED
    BY <1>2, <1>5, <2>5, <2>6, <2>8 DEF Ledger, Settled
<1> QED
  BY <1>7, <1>8

\* Nothing has been asked about the order before its id is known.
LEMMA NoQuestion ==
  ASSUME Ledger, ~ At1("orderWait"), orderQ \in Seq(InfoReply)
  PROVE  Questions(wire) = {} /\ Told(answers) = {} /\ orderQ = <<>>
<1>1. Questions(wire) = {} /\ Told(answers) = {} /\ DOMAIN orderQ = {}
  BY DEF Ledger, QuestionInv, Tells, Asking
<1>2. Len(orderQ) = 0
  BY <1>1
<1> QED
  BY <1>1, <1>2

\* The strategy stops waiting for the reply to its buy.
LEMMA StrategyBuyReturnsLedger ==
  ASSUME IInv, IInv', WaitersOwn, WaitersOwn', Known, Known', Ledger,
         StrategyBuyAnswered \/ StrategyBuyTimedOut
  PROVE  Ledger'
<1> USE DEF botVars, books
<1>1. /\ At1("buyWait") /\ Waiting(Strategy) /\ Strategy \in Thread
      /\ UNCHANGED <<wire, answers, orderQ, open, cancelled, acct, books>>
  BY Labels DEF StrategyBuyAnswered, StrategyBuyTimedOut, At1
<1>2. tradingBtc = 0 /\ pc[Risk] \notin {"sell", "clearBtc"}
  BY <1>1, Labels DEF Buying, At1
<1>3. open \subseteq {call[Strategy].id} /\ \A t \in Thread : Waiting(t) => t = Strategy
  BY <1>1, Labels, OneOrder DEF Ledger, OrdersInv, Pending, At1
<1>4. Questions(wire) = {} /\ Told(answers) = {} /\ orderQ = <<>>
  BY <1>1, Labels, NoQuestion DEF At1
<1>5. Idle' => (Orders(wire) = {} /\ Replies(answers) = {} /\ tradeQ = <<>>)'
  BY IdleEmpty, PTL
<1>6. ASSUME late' = 0, EndCall(Strategy), Go1("top"), open = {}, acct.btc = Kept
      PROVE  Ledger'
  <2>1. pc'[Strategy] = "top" /\ pc'[Risk] = pc[Risk]
    BY <1>6, StrategyPc DEF StrategyLabel
  <2>2. /\ call'[Strategy] = [op |-> "idle", id |-> NoId, amount |-> 0]
        /\ \A u \in Thread \ {Strategy} : call'[u] = call[u]
    BY <1>1, <1>6, StrategyCall DEF EndCall
  <2>3. \A t \in Thread : ~ Waiting(t)' /\ pc'[t] # "sell"
    BY <1>2, <1>3, <2>1, <2>2, Labels DEF Waiting
  <2>4. ~ Sold'
    BY <1>2, <2>1 DEF Sold, At2
  <2>5. Settled'
    BY <1>1, <1>4, <1>5, <1>6, <2>1, <2>3, <2>4 DEF Settled, Idle, Kept
  <2> QED
    BY <2>5, SettledLedger, PTL
<1>7. CASE StrategyBuyAnswered
  <2>1. PICK reply :
          /\ PopTrade(reply)
          /\ IF reply.result
             THEN Go1("askOrder") /\ SetCall(Strategy, "order", reply.id, 0)
             ELSE Go1("top") /\ EndCall(Strategy)
    BY <1>7 DEF StrategyBuyAnswered
  <2>2. 1 \in DOMAIN tradeQ /\ reply = tradeQ[1]
    <3>1. tradeQ # <<>> /\ reply = Head(tradeQ) /\ tradeQ \in Seq(TradeReply)
      BY <2>1, Labels DEF PopTrade
    <3> QED
      BY <3>1
  <2>3. reply.id = call[Strategy].id /\ Settles(reply) /\ late' = 0
    BY <1>1, <1>7, <2>2, OneOrder DEF Ledger, AccountInv, StrategyBuyAnswered
  <2>4. CASE ~ reply.result
    BY <1>3, <1>6, <2>1, <2>3, <2>4 DEF Settles
  <2>5. CASE reply.result
    <3>1. pc'[Strategy] = "askOrder" /\ pc'[Risk] = pc[Risk]
      BY <2>1, <2>5, StrategyPc DEF StrategyLabel
    <3>2. /\ call'[Strategy] = [op |-> "order", id |-> reply.id, amount |-> 0]
          /\ \A u \in Thread \ {Strategy} : call'[u] = call[u]
      BY <1>1, <2>1, <2>5, StrategyCall
    <3>3. /\ \A t \in Thread : ~ Waiting(t)' /\ pc'[t] # "sell"
          /\ ~ Quiet' /\ ~ Sold'
      BY <1>2, <1>3, <3>1, <3>2, Labels DEF Waiting, Quiet, Sold, At2
    <3>4. Orders(wire') = {} /\ Replies(answers') = {} /\ tradeQ' = <<>>
      BY <1>5, <2>3, <3>3 DEF Idle
    <3>5. acct.btc = Kept + Dealt(reply.id)
      BY <1>1, <2>3, <2>5 DEF Settles
    <3>6. Len(<<>>) <= 1 /\ DOMAIN <<>> = {}
      OBVIOUS
    <3>7. OrdersInv'
      BY <1>1, <1>3, <2>3, <3>1, <3>2, <3>4 DEF Ledger, OrdersInv, Pending
    <3>8. QuestionInv'
      BY <1>1, <1>4, <3>6 DEF QuestionInv
    <3>9. AccountInv'
      BY <1>1, <3>1, <3>2, <3>3, <3>4, <3>5, <3>6 DEF AccountInv, Kept, Dealt
    <3> QED
      BY <2>3, <3>7, <3>8, <3>9 DEF Ledger
  <2> QED
    BY <2>4, <2>5
<1>8. CASE StrategyBuyTimedOut
  <2>1. /\ call[Strategy].id = NoId /\ Go1("top") /\ EndCall(Strategy)
        /\ late' = IF call[Strategy].id \in InTransit THEN late + 1 ELSE late
    BY <1>8 DEF StrategyBuyTimedOut, TimedOut, Known
  <2>2. NoId \notin InTransit
    BY Labels DEF InTransit, Request, TradeReply, InfoReply
  <2>3. open = {} /\ acct.btc = Kept /\ late' = 0
    BY <1>1, <1>3, <2>1, <2>2, Labels DEF Ledger, AccountInv
  <2> QED
    BY <1>6, <2>1, <2>3
<1> QED
  BY <1>7, <1>8
LEMMA TailOfOne ==
  ASSUME NEW S, NEW q \in Seq(S), q # <<>>, Len(q) <= 1
  PROVE  Tail(q) = <<>>
<1>1. Len(q) \in Nat \ {0}
  BY EmptySeq
<1>2. Tail(q) \in Seq(S) /\ Len(Tail(q)) = Len(q) - 1
  BY <1>1
<1>3. Len(Tail(q)) = 0
  BY <1>1, <1>2
<1> QED
  BY <1>2, <1>3, EmptySeq

\* It asks what became of the order, and hears it or gives up.
LEMMA StrategyAskLedger ==
  ASSUME IInv, WaitersOwn, Known, Known', Ledger,
         StrategyAskOrder \/ StrategyOrderAnswered \/ StrategyOrderTimedOut
  PROVE  Ledger'
<1> USE DEF botVars, books
<1>1. /\ pc[Strategy] \in {"askOrder", "orderWait"}
      /\ UNCHANGED <<answers, tradeQ, open, cancelled, acct, tradingBtc>>
  BY DEF StrategyAskOrder, StrategyOrderAnswered, StrategyOrderTimedOut, At1
<1>2. /\ tradingBtc = 0 /\ pc[Risk] \notin {"sell", "clearBtc"}
      /\ call[Strategy].id \in Id
  BY <1>1, Labels DEF Buying, IInv, CallsInv
<1>3. \A t \in Thread : ~ Waiting(t)
  BY <1>1, <1>2, Labels
<1>4. Orders(wire) = {} /\ Replies(answers) = {} /\ tradeQ = <<>> /\ late = 0
  BY <1>3, NobodyWaits DEF Ledger
<1>5. open \subseteq {call[Strategy].id} /\ acct.btc = Kept + Dealt(call[Strategy].id)
  BY <1>1 DEF Ledger, OrdersInv, Pending, AccountInv
<1>a. Len(<<>>) <= 1 /\ DOMAIN <<>> = {}
  OBVIOUS
<1>6. CASE StrategyAskOrder
  <2>1. /\ OkSpotcnyOrderinfo(call[Strategy].id, 0) /\ Go1("orderWait")
        /\ SetCall(Strategy, "infowait", call[Strategy].id, 0)
    BY <1>6 DEF StrategyAskOrder, Known
  <2>2. At1("askOrder") /\ UNCHANGED <<late, orderQ, originAsset>>
    BY <1>6 DEF StrategyAskOrder
  <2>3. pc'[Strategy] = "orderWait" /\ pc'[Risk] = pc[Risk]
    BY <2>1, StrategyPc DEF StrategyLabel
  <2>4. /\ call'[Strategy] = [op |-> "infowait", id |-> call[Strategy].id, amount |-> 0]
        /\ \A u \in Thread \ {Strategy} : call'[u] = call[u]
    BY <2>1, Labels, StrategyCall
  <2>5. Questions(wire) = {} /\ Told(answers) = {} /\ orderQ = <<>>
    BY <2>2, Labels, NoQuestion DEF At1
  <2>a. PICK request : request = [kind |-> "info", id |-> call[Strategy].id, amount |-> 0]
    OBVIOUS
  <2>6. /\ wire' = wire \cup {request} \/ wire' = wire
        /\ request.kind = "info" /\ request.id = call[Strategy].id
    BY <2>1, <2>a DEF OkSpotcnyOrderinfo, Emit
  <2>7. Orders(wire') = {} /\ Questions(wire') \subseteq {request}
    BY <1>4, <2>5, <2>6 DEF Orders, Questions
  <2>8. /\ \A t \in Thread : ~ Waiting(t)' /\ pc'[t] # "sell"
        /\ ~ Quiet' /\ ~ Sold'
    BY <1>2, <1>3, <2>3, <2>4, Labels DEF Waiting, Quiet, Sold, At2
  <2>9. OrdersInv'
    BY <1>1, <1>5, <2>3, <2>4, <2>7 DEF Ledger, OrdersInv, Pending
  <2>10. QuestionInv'
    BY <1>1, <1>a, <2>2, <2>3, <2>4, <2>5, <2>6, <2>7 DEF QuestionInv, Asking, At1
  <2>11. AccountInv'
    BY <1>1, <1>4, <1>5, <1>a, <2>2, <2>3, <2>4, <2>7, <2>8 DEF AccountInv, Kept, Dealt
  <2> QED
    BY <1>4, <2>2, <2>9, <2>10, <2>11 DEF Ledger
<1>7. CASE StrategyOrderAnswered
  <2>1. PICK info :
          /\ orderQ # <<>> /\ info = Head(orderQ) /\ orderQ' = Tail(orderQ)
          /\ \/ /\ info.status = 2 /\ Go1("setAsset") /\ UNCHANGED originAsset
                /\ SetCall(Strategy, "idle", NoId, info.deal)
             \/ /\ info.status = -1 /\ Go1("top") /\ EndCall(Strategy)
                /\ originAsset' = originAsset + info.deal
    BY <1>7 DEF StrategyOrderAnswered, Known
  <2>2. At1("orderWait") /\ UNCHANGED <<late, wire>>
    BY <1>7 DEF StrategyOrderAnswered
  <2>3. /\ info \in InfoReply /\ 1 \in DOMAIN orderQ /\ info = orderQ[1]
        /\ Len(orderQ) # 0 /\ orderQ \in Seq(InfoReply)
    <3>1. orderQ \in Seq(InfoReply)
      BY Labels
    <3> QED
      BY <2>1, <3>1
  <2>4. Tells(info) /\ Questions(wire) = {} /\ Told(answers) = {} /\ Len(orderQ) <= 1
    BY <2>1, <2>3 DEF Ledger, QuestionInv
  <2>5. orderQ' = <<>>
    BY <2>1, <2>3, <2>4, TailOfOne
  <2>6. /\ info.id = call[Strategy].id
        /\ info.status = 2 => info.id \notin open \cup cancelled
        /\ info.status = -1 => info.id \in cancelled
        /\ open \cap cancelled = {}
    BY <2>4 DEF Tells, Asking, Ledger, OrdersInv
  <2>7. /\ open = {}
        /\ acct.btc = Kept + (IF info.status = 2 THEN Lot ELSE Part)
    BY <1>5, <2>1, <2>6 DEF Dealt
  <2>8. info.status = -1 => info.deal = Part
    BY <2>3 DEF InfoReply
  <2>9. PICK amount : SetCall(Strategy, "idle", NoId, amount)
    BY <2>1 DEF EndCall
  <2>10. /\ call'[Strategy] = [op |-> "idle", id |-> NoId, amount |-> amount]
         /\ \A u \in Thread \ {Strategy} : call'[u] = call[u]
    BY <2>9, Labels, StrategyCall
  <2>11. /\ pc'[Strategy] = (IF info.status = 2 THEN "setAsset" ELSE "top")
         /\ pc'[Risk] = pc[Risk]
    BY <2>1, StrategyPc DEF StrategyLabel
  <2>12. /\ \A t \in Thread : ~ Waiting(t)' /\ pc'[t] # "sell"
         /\ ~ Sold'
    BY <1>2, <1>3, <2>10, <2>11, Labels DEF Waiting, Sold, At2
  <2>13. Kept' = Kept + (IF info.status = 2 THEN 0 ELSE Part)
    BY <1>1, <2>1, <2>8, Labels DEF Kept
  <2>14. Kept \in Nat
    BY Labels DEF Kept
  <2>15. Settled'
    BY <1>1, <1>4, <2>2, <2>4, <2>5, <2>7, <2>11, <2>12, <2>13, <2>14
    DEF Settled, Quiet
  <2> QED
    BY <2>15, SettledLedger, PTL
<1>8. CASE StrategyOrderTimedOut
  BY <1>2, <1>8, Labels DEF StrategyOrderTimedOut, TimedOut, Known
<1> QED
  BY <1>6, <1>7, <1>8

\* The buy is recorded.
LEMMA StrategyRecordLedger ==
  ASSUME IInv, WaitersOwn, Known, Ledger, StrategySetAsset \/ StrategySetBtc
  PROVE  Ledger'
<1> USE DEF botVars, books, noCallVars
<1>1. /\ pc[Strategy] \in {"setAsset", "setBtc"}
      /\ UNCHANGED <<late, wire, answers, tradeQ, orderQ, open, acct, originAsset>>
  BY DEF StrategySetAsset, StrategySetBtc, tradeVars, At1
<1>2. /\ tradingBtc = 0 /\ pc[Risk] \notin {"sell", "clearBtc"}
      /\ call[Strategy].amount = Lot
  BY <1>1, Labels DEF Buying, IInv, CallsInv
<1>3. \A t \in Thread : ~ Waiting(t)
  BY <1>1, <1>2, Labels
<1>4. Settled /\ acct.btc = Kept + Lot
  BY <1>1, <1>3, SettledBefore DEF Settled
<1>5. CASE StrategySetAsset
  <2>1. Go1("setBtc") /\ UNCHANGED <<call, tradingBtc>>
    BY <1>5 DEF StrategySetAsset, tradeVars
  <2>2. pc'[Strategy] = "setBtc" /\ pc'[Risk] = pc[Risk]
    BY <2>1, StrategyPc DEF StrategyLabel
  <2>3. /\ \A t \in Thread : ~ Waiting(t)' /\ pc'[t] # "sell"
        /\ ~ Quiet' /\ ~ Sold'
    BY <1>2, <1>3, <2>1, <2>2, Labels DEF Waiting, Quiet, Sold, At2
  <2> QED
    BY <1>1, <1>4, <2>1, <2>2, <2>3, SettledStep DEF Kept
<1>6. CASE StrategySetBtc
  <2>1. Go1("setIn") /\ EndCall(Strategy) /\ tradingBtc' = Lot
    BY <1>2, <1>6 DEF StrategySetBtc
  <2>2. pc'[Strategy] = "setIn" /\ pc'[Risk] = pc[Risk]
    BY <2>1, StrategyPc DEF StrategyLabel
  <2>3. /\ call'[Strategy] = [op |-> "idle", id |-> NoId, amount |-> 0]
        /\ \A u \in Thread \ {Strategy} : call'[u] = call[u]
    BY <2>1, Labels, StrategyCall DEF EndCall
  <2>4. /\ \A t \in Thread : ~ Waiting(t)' /\ pc'[t] # "sell"
        /\ ~ Sold'
    BY <1>2, <1>3, <2>2, <2>3, Labels DEF Waiting, Sold, At2
  <2>5. Kept' = Kept + Lot
    BY <1>1, <1>2, <2>1, Labels DEF Kept
  <2> QED
    BY <1>1, <1>4, <2>2, <2>4, <2>5, SettledStep
<1> QED
  BY <1>5, <1>6
LEMMA RunStrategyLedger ==
  ASSUME IInv, IInv', WaitersOwn, WaitersOwn', LedgerInv, RunStrategy
  PROVE  LedgerInv'
<1> USE DEF botVars, books
<1> SUFFICES ASSUME Known' PROVE Ledger'
  BY DEF LedgerInv
<1>0. Known /\ Ledger /\ pc \in [Thread -> StrategyLabel \cup RiskLabel]
      /\ Strategy \in Thread
  BY StrategyKnown, Labels DEF LedgerInv, IInv, TypeOK, BotTypeOK
<1>1. CASE StrategyLock \/ StrategySold \/ StrategyClearBtc
  BY <1>0, <1>1, StrategySaleLedger
<1>2. CASE SellStep(Strategy)
  BY <1>0, <1>2, SellStepLedger
<1>3. CASE StrategyBuy
  BY <1>0, <1>3, StrategyBuyLedger
<1>4. CASE StrategyBuyAnswered \/ StrategyBuyTimedOut
  BY <1>0, <1>4, StrategyBuyReturnsLedger
<1>5. CASE StrategyAskOrder \/ StrategyOrderAnswered \/ StrategyOrderTimedOut
  BY <1>0, <1>5, StrategyAskLedger
<1>6. CASE StrategySetAsset \/ StrategySetBtc
  BY <1>0, <1>6, StrategyRecordLedger
<1>7. CASE StrategyQuitCall \/ StrategyQuitSold
  BY <1>7, StrategyPc DEF StrategyQuitCall, StrategyQuitSold, StrategyLabel, Known
<1>8. CASE \/ StrategyTop \/ StrategyKline \/ StrategySetOut \/ StrategyClearAsset
           \/ StrategyClearWin \/ StrategySetIn \/ StrategyQuit
  <2>1. UNCHANGED <<tradeVars, tradingBtc, originAsset>>
    BY <1>8 DEF StrategyTop, StrategyKline, StrategySetOut, StrategyClearAsset,
       StrategyClearWin, StrategySetIn, StrategyQuit
  <2>2. pc'[Risk] = pc[Risk]
    BY <1>8, StrategyPc DEF StrategyTop, StrategyKline, StrategySetOut,
       StrategyClearAsset, StrategyClearWin, StrategySetIn, StrategyQuit, StrategyLabel
  <2>3. \/ /\ pc[Strategy] \in {"top", "kline", "clearWin", "setIn", "quit"}
           /\ pc'[Strategy] \in {"top", "kline", "lock", "buy", "quit", "quitCall"}
        \/ pc[Strategy] = "setOut" /\ pc'[Strategy] = "clearAsset"
        \/ pc[Strategy] = "clearAsset" /\ pc'[Strategy] = "clearBtc"
    <3>1. Known'
      OBVIOUS
    <3> QED
      BY <1>8, <3>1, StrategyPc DEF StrategyTop, StrategyKline, StrategySetOut,
         StrategyClearAsset, StrategyClearWin, StrategySetIn, StrategyQuit, StrategyLabel,
         At1, Known
  <2>4. Quiet' => Quiet
    BY <2>1, <2>2, <2>3 DEF Quiet, Waiting, At2, tradeVars
  <2>5. UNCHANGED <<late, call, wire, answers, tradeQ, orderQ, open, cancelled, acct,
                    tradingBtc, originAsset>>
    BY <2>1 DEF tradeVars
  <2> QED
    BY <1>0, <2>2, <2>3, <2>4, <2>5, SameLedger
<1> QED
  BY <1>1, <1>2, <1>3, <1>4, <1>5, <1>6, <1>7, <1>8 DEF RunStrategy
-----------------------------------------------------------------------------
(* The steps of the risk control. *)
LEMMA RiskPc ==
  ASSUME IInv, NEW l \in RiskLabel, Go2(l)
  PROVE  pc'[Risk] = l /\ pc'[Strategy] = pc[Strategy]
  BY Go2Pc DEF IInv, TypeOK, BotTypeOK, PcType

LEMMA RiskKnown ==
  ASSUME IInv, RiskControl, Known'
  PROVE  Known
<1>1. doubt \in BOOLEAN /\ (doubt => doubt')
  BY DEF IInv, TypeOK, TradeTypeOK, RiskControl, RiskTop, RiskInfo, RiskCalc, RiskPut,
     RiskFull, RiskDecide, RiskLock, RiskLoop, SellStep, AcquireTradeLock, SendSell,
     RiskSold, RiskClearBtc, RiskClearAsset, RiskClearWin, RiskSetOut, SellReturns,
     SellFails, SellAnswered, SellTimedOut, TimedOut, tradeVars, noCallVars
<1>2. pc'[Strategy] = pc[Strategy]
  BY RiskPc DEF RiskControl, RiskTop, RiskInfo, RiskCalc, RiskPut,
     RiskFull, RiskDecide, RiskLock, RiskLoop, SellStep,
     RiskSold, RiskClearBtc, RiskClearAsset, RiskClearWin, RiskSetOut, RiskLabel
<1> QED
  BY <1>1, <1>2 DEF Known

\* The stop-loss: it holds mutex_, and the strategy can be neither buying nor selling
\* while it has coins to sell.
LEMMA RiskSaleLedger ==
  ASSUME IInv, IInv', WaitersOwn, WaitersOwn', Known, Known', Ledger,
         RiskHolds, tradingBtc # 0, RiskLoop \/ RiskSold \/ RiskClearBtc
  PROVE  Ledger'
<1> USE DEF botVars, books, noCallVars
<1>1. /\ pc[Strategy] \in {"top", "kline", "lock", "setIn", "quit", "quitCall"}
      /\ ~ Waiting(Strategy)
  BY RiskAlone
<1>2. CASE RiskLoop
  <2>1. At2("loop") /\ UNCHANGED <<noCallVars, books>>
    BY <1>2 DEF RiskLoop
  <2>2. \A t \in Thread : ~ Waiting(t)
    BY <1>1, <2>1, Labels DEF At2
  <2>3. Settled /\ acct.btc = Kept
    BY <1>1, <2>1, <2>2, SettledBefore DEF Settled, Quiet, At2
  <2>4. CASE Go2("sell") /\ SetCall(Risk, "lock", NoId, tradingBtc)
    <3>1. pc'[Risk] = "sell" /\ pc'[Strategy] = pc[Strategy]
      BY <2>4, RiskPc DEF RiskLabel
    <3>2. /\ call'[Risk] = [op |-> "lock", id |-> NoId, amount |-> tradingBtc]
          /\ \A u \in Thread \ {Risk} : call'[u] = call[u]
      BY <2>4, Labels, StrategyCall
    <3>3. \A t \in Thread : /\ ~ Waiting(t)'
                            /\ pc'[t] = "sell" => call'[t].amount = tradingBtc
      BY <1>1, <2>2, <3>1, <3>2, Labels DEF Waiting
    <3>4. ~ Sold'
      BY <1>1, <3>1 DEF Sold, At2
    <3> QED
      BY <1>1, <2>1, <2>3, <3>1, <3>3, <3>4, SettledStep DEF Kept
  <2>5. CASE Go2("top") /\ UNCHANGED call
    <3>1. pc'[Risk] = "top" /\ pc'[Strategy] = pc[Strategy]
      BY <2>5, RiskPc DEF RiskLabel
    <3>2. \A t \in Thread : ~ Waiting(t)' /\ pc'[t] # "sell"
      BY <1>1, <2>2, <2>5, <3>1, Labels DEF Waiting
    <3>3. ~ Sold'
      BY <1>1, <3>1 DEF Sold, At2
    <3> QED
      BY <1>1, <2>1, <2>3, <3>1, <3>2, <3>3, SettledStep DEF Kept
  <2> QED
    BY <1>2, <2>4, <2>5 DEF RiskLoop, SellAtMarket
<1>3. CASE RiskSold
  <2>1. PICK ret \in {0, -1} :
          SellReturns(Risk, ret) /\ IF ret = 0 THEN Go2("clearBtc") ELSE Go2("loop")
    BY <1>3 DEF RiskSold
  <2>2. At2("sell") /\ UNCHANGED books
    BY <1>3 DEF RiskSold
  <2>3. /\ pc'[Risk] = (IF ret = 0 THEN "clearBtc" ELSE "loop")
        /\ pc'[Strategy] = pc[Strategy]
    BY <2>1, RiskPc DEF RiskLabel
  <2>4. ~ doubt' /\ pc[Risk] = "sell" /\ Risk \in Thread
    BY <2>2, Labels DEF Known, At2
  <2>5. /\ late' = 0 /\ Orders(wire') = {} /\ Replies(answers') = {} /\ tradeQ' = <<>>
        /\ open' = {} /\ Questions(wire') = {} /\ Told(answers') = {} /\ orderQ' = <<>>
        /\ \A u \in Thread : ~ Waiting(u)'
        /\ acct'.btc = IF ret = 0 THEN originAsset ELSE Kept
    BY <2>1, <2>4, SellReturnsLedger
  <2>6. \A t \in Thread : pc'[t] # "sell"
    BY <1>1, <2>3, Labels
  <2>7. Settled'
    BY <1>1, <2>2, <2>3, <2>5, <2>6 DEF Settled, Quiet, Sold, Waiting, Kept, At2
  <2> QED
    BY <2>7, SettledLedger, PTL
<1>4. CASE RiskClearBtc
  <2>1. /\ At2("clearBtc") /\ Go2("clearAsset") /\ tradingBtc' = 0
        /\ UNCHANGED <<tradeVars, originAsset>>
    BY <1>4 DEF RiskClearBtc
  <2>2. pc'[Risk] = "clearAsset" /\ pc'[Strategy] = pc[Strategy]
    BY <2>1, RiskPc DEF RiskLabel
  <2>3. \A t \in Thread : ~ Waiting(t)
    BY <1>1, <2>1, Labels DEF At2
  <2>4. Settled /\ acct.btc = originAsset
    BY <1>1, <2>1, <2>3, SettledBefore DEF Settled, Sold
  <2>5. /\ \A t \in Thread : ~ Waiting(t)' /\ pc'[t] # "sell"
        /\ ~ Sold' /\ Kept' = originAsset'
    BY <1>1, <2>1, <2>2, <2>3, Labels DEF Sold, Waiting, At2, Kept, tradeVars
  <2> QED
    BY <1>1, <2>1, <2>2, <2>4, <2>5, SettledStep DEF tradeVars
<1> QED
  BY <1>2, <1>3, <1>4

LEMMA RiskControlLedger ==
  ASSUME IInv, IInv', WaitersOwn, WaitersOwn', LedgerInv, RiskControl
  PROVE  LedgerInv'
<1> USE DEF botVars, books, noCallVars
<1> SUFFICES ASSUME Known' PROVE Ledger'
  BY DEF LedgerInv
<1>0. Known /\ Ledger /\ pc \in [Thread -> StrategyLabel \cup RiskLabel]
      /\ Risk \in Thread
  BY RiskKnown, Labels DEF LedgerInv, IInv, TypeOK, BotTypeOK
<1>1. CASE (RiskLoop /\ tradingBtc # 0) \/ RiskSold \/ RiskClearBtc
  <2>1. RiskHolds /\ tradingBtc # 0
    BY <1>1 DEF RiskLoop, RiskSold, RiskClearBtc, RiskHolds, At2, IInv, BooksInv
  <2> QED
    BY <1>0, <1>1, <2>1, RiskSaleLedger
<1>2. CASE SellStep(Risk)
  BY <1>0, <1>2, SellStepLedger
<1>3. CASE \/ RiskTop \/ RiskInfo \/ RiskCalc \/ RiskPut \/ RiskFull \/ RiskDecide
           \/ RiskLock \/ (RiskLoop /\ tradingBtc = 0)
           \/ RiskClearAsset \/ RiskClearWin \/ RiskSetOut
  <2>1. UNCHANGED <<tradeVars, tradingBtc, originAsset>>
    BY <1>3 DEF RiskTop, RiskInfo, RiskCalc, RiskPut, RiskFull, RiskDecide, RiskLock,
       RiskLoop, RiskClearAsset, RiskClearWin, RiskSetOut, tradeVars
  <2>2. /\ pc'[Strategy] = pc[Strategy]
        /\ pc[Risk] \notin {"sell", "clearBtc"} /\ pc'[Risk] \notin {"sell", "clearBtc"}
    BY <1>3, RiskPc DEF RiskTop, RiskInfo, RiskCalc, RiskPut, RiskFull, RiskDecide,
       RiskLock, RiskLoop, RiskClearAsset, RiskClearWin, RiskSetOut, RiskLabel, At2
  <2>3. Quiet' => Quiet
    BY <2>1, <2>2 DEF Quiet, Waiting, At2, tradeVars
  <2>4. UNCHANGED <<late, call, wire, answers, tradeQ, orderQ, open, cancelled, acct,
                    tradingBtc, originAsset>>
    BY <2>1 DEF tradeVars
  <2> QED
    BY <1>0, <2>2, <2>3, <2>4, SameLedger
<1> QED
  BY <1>1, <1>2, <1>3 DEF RiskControl
-----------------------------------------------------------------------------
LEMMA LedgerInit == Init => LedgerInv
<1> SUFFICES ASSUME Init PROVE Settled
  BY SettledLedger DEF LedgerInv
<1>1. /\ wire = {} /\ answers = {} /\ tradeQ = <<>> /\ orderQ = <<>> /\ open = {}
      /\ late = 0 /\ acct.btc = Origin /\ tradingBtc = 0 /\ originAsset = Origin
      /\ \A t \in Thread : pc[t] = "top" /\ call[t].op = "idle"
  BY DEF Init, TradeInit
<1>2. /\ Orders(wire) = {} /\ Replies(answers) = {}
      /\ Questions(wire) = {} /\ Told(answers) = {}
  BY <1>1 DEF Orders, Replies, Questions, Told
<1>3. pc[Strategy] = "top" /\ pc[Risk] = "top"
  BY <1>1, RocStrategyAssumption
<1>4. acct.btc = Kept
  BY <1>1, TradeAssumption DEF Kept
<1> QED
  BY <1>1, <1>2, <1>3, <1>4 DEF Settled, Waiting, Sold, At2

LEMMA LedgerStep ==
  IInv /\ IInv' /\ WaitersOwn /\ WaitersOwn' /\ LedgerInv /\ [Next]_vars => LedgerInv'
<1> SUFFICES ASSUME IInv, IInv', WaitersOwn, WaitersOwn', LedgerInv, [Next]_vars
             PROVE  LedgerInv'
  OBVIOUS
<1>1. CASE RunStrategy
  BY <1>1, RunStrategyLedger
<1>2. CASE RiskControl
  BY <1>2, RiskControlLedger
<1>3. CASE Outside
  BY <1>3, OutsideLedger
<1>4. CASE QueryAsset \/ Kline \/ Stop \/ UNCHANGED vars
  <2>1. UNCHANGED <<late, call, wire, answers, tradeQ, orderQ, open, cancelled, acct,
                    doubt, pc, tradingBtc, originAsset>>
    BY <1>4 DEF QueryAsset, Kline, Stop, vars, tradeVars, botVars, books
  <2>2. (Known' => Known) /\ (Quiet' => Quiet)
    BY <2>1 DEF Known, Quiet, Waiting, At2
  <2>3. pc \in [Thread -> StrategyLabel \cup RiskLabel]
    BY DEF IInv, TypeOK, BotTypeOK
  <2> QED
    BY <2>1, <2>2, <2>3, SameLedger DEF LedgerInv
<1> QED
  BY <1>1, <1>2, <1>3, <1>4 DEF Next, Terminated

\* Between two trades nobody waits, so the account holds what the books say.
LEMMA RestLedger == IInv /\ LedgerInv => LedgerAgrees
<1> SUFFICES ASSUME IInv, LedgerInv, AtRest, ~ doubt
             PROVE  acct.btc = tradingBtc + originAsset
  BY DEF LedgerAgrees
<1>1. Known /\ Ledger
  BY DEF Known, LedgerInv, AtRest
<1>2. \A t \in Thread : ~ Waiting(t)
  BY Labels DEF AtRest
<1>3. Quiet
  BY <1>2 DEF Quiet, AtRest, At2
<1> QED
  BY <1>1, <1>3 DEF Ledger, AccountInv, Kept

\* Where the coins of every order are counted, at every label: for any number of
\* orders, connections and threads' interleavings, as long as no call gave up on one.
THEOREM CoinsCounted == Spec => []LedgerInv
<1> QED
  BY LedgerInit, LedgerStep, OwnInvariance, PTL DEF Spec

\* The books of the strategy and the account at the exchange agree whenever neither
\* thread is trading, whatever was sold, bought, refused, cancelled half way or lost
\* with the connection, unless a call gave up without learning its order's outcome.
THEOREM BooksAgree == Spec => []LedgerAgrees
<1> QED
  BY RestLedger, CoinsCounted, Invariance, PTL
=============================================================================
