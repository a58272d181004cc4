----------------------------- MODULE Indicator -----------------------------
(* The indicator of strategy/roc_strategy.h: calc_roc_and_maroc over the three
   time windows, and the three verdicts run_strategy takes from them.  Only the
   strategy's thread uses them; a step is one turn of the loop over the klines of
   a document, and the verdicts are read between documents (left = 0).        *)
EXTENDS Integers, Sequences
LOCAL INSTANCE SequencesExt

CONSTANTS
  COUNT, AVG_NUM,   \* minutes a ROC looks back over; ROCs a MAROC averages
  Capacity,         \* of roc_win and maroc_win
  Close,            \* closing prices
  MaxTime,          \* bound: minutes
  MaxKlines         \* bound: klines in a document

ASSUME IndicatorAssumption ==
  /\ COUNT \in Nat \ {0} /\ AVG_NUM \in Nat \ {0}
  /\ Capacity \in Nat /\ Capacity > AVG_NUM
  /\ Close \subseteq Nat \ {0} /\ MaxTime \in Nat /\ MaxKlines \in Nat

W == INSTANCE TimeWindow WITH N <- COUNT
R == INSTANCE TimeWindow WITH N <- Capacity

VARIABLES
  window, roc_win, maroc_win,
  updated,   \* what calc_roc_and_maroc returns
  left,      \* the klines of its document that its loops have still to reach
  bars,      \* history: the minutes seen, with their last closing prices
  fresh,     \* history: the document has begun a minute
  last       \* history: its last kline was "new", of the "same" minute, "old"

history == <<bars, fresh, last>>
vars == <<window, roc_win, maroc_win, updated, left, history>>

Kline == [time : 1 .. MaxTime, close : Close]

\* In per cent.  Close is chosen so that the quotients are whole.
ROC(today, before) == ((today * 100) \div before) - 100

\* The sum of the ROCs: AVG_NUM times what the code keeps, to stay whole.
Total(vals) == FoldLeft(LAMBDA sum, val : sum + val, 0, vals)
MAROC(rocs) == Total([i \in DOMAIN rocs |-> rocs[i].val])

\* The ROC of the running minute.
LatestROC(w) == ROC(W!Get(w, 0).val, W!Get(w, COUNT - 1).val)

\* Mutant: every kline that reaches the MAROC counts as an update.
FeedAlwaysUpdates(kline) ==
  /\ window' = W!Put(window, kline.time, kline.close)
  /\ \/ ~ W!IsFull(window') /\ UNCHANGED <<roc_win, maroc_win, updated>>
     \/ /\ W!IsFull(window')
        /\ roc_win' = R!Put(roc_win, kline.time, LatestROC(window'))
        /\ \/ R!GetSize(roc_win') < AVG_NUM /\ UNCHANGED <<maroc_win, updated>>
           \/ /\ R!GetSize(roc_win') >= AVG_NUM /\ updated' = TRUE
              /\ maroc_win' = R!Put(maroc_win, kline.time,
                                    MAROC(R!GetRange(roc_win', 0, AVG_NUM)))

\* One kline: each window feeds the next once it has enough of its own.
Feed(kline) ==
  /\ window' = W!Put(window, kline.time, kline.close)
  /\ \/ ~ W!IsFull(window') /\ UNCHANGED <<roc_win, maroc_win, updated>>
     \/ /\ W!IsFull(window')
        /\ roc_win' = R!Put(roc_win, kline.time, LatestROC(window'))
        /\ \/ R!GetSize(roc_win') < AVG_NUM /\ UNCHANGED <<maroc_win, updated>>
           \/ /\ R!GetSize(roc_win') >= AVG_NUM
              /\ updated' = (kline.time # R!Get(maroc_win, 0).time)
              /\ maroc_win' = R!Put(maroc_win, kline.time,
                                    MAROC(R!GetRange(roc_win', 0, AVG_NUM)))

\* The minutes after one more kline.
Newest == IF bars = <<>> THEN 0 ELSE bars[Len(bars)].time
Record(kline) ==
  \/ /\ kline.time > Newest
     /\ bars' = Append(bars, kline) /\ last' = "new" /\ fresh' = TRUE
  \/ /\ kline.time = Newest
     /\ bars' = [bars EXCEPT ![Len(bars)] = kline] /\ last' = "same" /\ UNCHANGED fresh
  \/ kline.time < Newest /\ last' = "old" /\ UNCHANGED <<bars, fresh>>

Init ==
  /\ window = W!New /\ roc_win = R!New /\ maroc_win = R!New
  /\ updated = FALSE /\ left = 0 /\ bars = <<>> /\ fresh = FALSE /\ last = "none"

\* calc_roc_and_maroc is called with a document.
CalcRocAndMaroc ==
  /\ left = 0 /\ left' \in 0 .. MaxKlines
  /\ updated' = FALSE /\ fresh' = FALSE /\ last' = "none"
  /\ UNCHANGED <<window, roc_win, maroc_win, bars>>

\* Its next kline.  Those after a reconnection come as a list that reaches back to
\* minutes already seen.
NextKline ==
  /\ left > 0 /\ left' = left - 1
  /\ \E kline \in Kline : Feed(kline) /\ Record(kline)

Next == CalcRocAndMaroc \/ NextKline

Spec == Init /\ [][Next]_vars
-----------------------------------------------------------------------------
\* The verdicts compare the ROC of the minute k ago with its MAROC, which is kept
\* AVG_NUM times as large.
Roc(k)   == R!Get(roc_win, k).val * AVG_NUM
Maroc(k) == R!Get(maroc_win, k).val
Enough   == R!GetSize(maroc_win) >= 3

\* Mutant: the running minute takes part.
CrossForUpEarly ==
  Enough /\ Roc(0) > Maroc(0) /\ Roc(1) < Maroc(1) /\ Maroc(0) > Maroc(1)

CrossForUp ==
  Enough /\ Roc(1) > Maroc(1) /\ Roc(2) < Maroc(2) /\ Maroc(1) > Maroc(2)
StayForUp ==
  Enough /\ Roc(1) > Maroc(1) /\ Roc(2) > Maroc(2) /\ Maroc(1) > Maroc(2)
CrossForDown ==
  Enough /\ Roc(1) < Maroc(1) /\ Roc(2) > Maroc(2)

Verdict == <<CrossForUp \/ StayForUp, CrossForDown>>
-----------------------------------------------------------------------------
\* The history is of minutes, and every window keeps its counters together:
\* one counted full holds as many elements as it has places.
Counters(w, n) ==
  /\ w.index \in 0 .. n - 1 /\ w.size \in 0 .. n
  /\ w.full <=> w.size = n
  /\ w.first <=> w.size = 0

TypeOK ==
  /\ updated \in BOOLEAN /\ fresh \in BOOLEAN /\ left \in 0 .. MaxKlines
  /\ last \in {"none", "new", "same", "old"}
  /\ bars \in Seq(Kline) /\ Len(bars) <= MaxTime
  /\ Counters(window, COUNT) /\ Counters(roc_win, Capacity)
  /\ Counters(maroc_win, Capacity)

\* The indicator over the list of minutes, without windows: the ROC and the
\* MAROC of the i-th minute.
RefROC(i)   == ROC(bars[i].close, bars[i - COUNT + 1].close)
RefMAROC(i) == MAROC([j \in 1 .. AVG_NUM |-> [val |-> RefROC(i - j + 1)]])

\* The elements of a window of n that has been put one for each minute from the
\* first-th on.
Held(first, n) ==
  LET m == Len(bars) - first + 1 IN IF m < 0 THEN 0 ELSE IF m > n THEN n ELSE m

\* Whatever minutes are rewritten, repeated, left out or sent too late, the three
\* windows stay aligned: the k-th newest elements are those of the k-th newest
\* minute, and hold what the indicator is defined to be there.
WindowsAgree ==
  LET n == Len(bars)
      rocs == Held(COUNT, Capacity)
      marocs == Held(COUNT + AVG_NUM - 1, Capacity)
  IN /\ R!GetSize(roc_win) = rocs /\ R!GetSize(maroc_win) = marocs
     /\ \A k \in 0 .. rocs - 1 :
          R!Get(roc_win, k) = [time |-> bars[n - k].time, val |-> RefROC(n - k)]
     /\ \A k \in 0 .. marocs - 1 :
          R!Get(maroc_win, k) = [time |-> bars[n - k].time, val |-> RefMAROC(n - k)]

\* What run_strategy decides by is that of closed minutes: as long as no minute
\* begins, no kline changes it.
VerdictIsClosed == [][ Newest' = Newest => Verdict' = Verdict ]_vars

\* roc_strategy.h:259: calc_roc_and_maroc tells whether the MAROC of the last
\* minute is new.  Its last kline decides: it says so without a new minute only
\* after one of a minute gone by, which the windows ignore, and misses a new minute
\* only when the document goes on with a second kline of it.
UpdatedByLastKline ==
  /\ updated => fresh \/ last = "old"
  /\ fresh /\ R!GetSize(maroc_win) > 0 /\ ~ updated => last = "same"
=============================================================================
