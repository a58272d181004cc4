----------------------------- MODULE WindowSpec -----------------------------
(* A window of util/window.h under any sequence of put and clear, which is how
   the strategy's threads use profit_win.                                     *)
EXTENDS Window, TechIndex, FiniteSets

CONSTANTS Value, Junk

ASSUME ValueAssumption == Value \subseteq Int \cup {NaN} /\ Junk \notin Value

VARIABLE win

Init == win = New(Junk)

WindowPut(v) == win' = Put(win, v)
WindowClear  == win' = Clear(win)

Next == WindowClear \/ \E v \in Value : WindowPut(v)

Spec == Init /\ [][Next]_win
-----------------------------------------------------------------------------
\* The counters stay in range and agree: a window that is not full has been filled
\* from slot 0 up, so that the first size slots are exactly the live ones and no
\* reader of them meets an element that was never put.
LiveSlots ==
  /\ win \in Window(Value \cup {Junk})
  /\ win.full <=> win.size = N
  /\ ~ win.full => win.index = win.size
  /\ \A i \in 0 .. win.size - 1 : win.arr[i] \in Value

\* The live elements, oldest first, read through get(at).
Contents == [i \in 1 .. GetSize(win) |-> Get(win, GetSize(win) - i)]

\* What get(at) returns is what was put at calls ago: the ring implements the last
\* N values put since the last clear().
History == INSTANCE Recent WITH recent <- Contents
ImplementsRecent == History!Spec

\* get_range(0, get_size()) returns every live element as often as it is there, in
\* the order of the slots: right for a minimum, wrong for anything that needs to
\* know which element is the newest.
Count(s, v) == Cardinality({ i \in DOMAIN s : s[i] = v })
RangeIsContents ==
  \A v \in Value :
    Count(GetRange(win, 0, GetSize(win)), v) = Count(Contents, v)

\* The set-based definition of MIN is what the loop returns for every content of
\* the window, NaN elements included: exactly one value satisfies it.
MINIsTheLoop ==
  LET vec == GetRange(win, 0, GetSize(win)) IN
    \A m \in Value \cup {-1} : IsMIN(m, vec) <=> m = LoopMIN(vec)
=============================================================================
