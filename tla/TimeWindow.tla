----------------------------- MODULE TimeWindow -----------------------------
(* The ring buffer of util/time_window.h, whose elements carry the time of their
   minute, as operators on a record, one per method.                          *)
EXTENDS Integers, Sequences

CONSTANT N        \* the template parameter: the capacity, above zero

\* The pairs of the array are value-initialised.
Empty == [time |-> 0, val |-> 0]

New ==
  [arr |-> [i \in 0 .. N - 1 |-> Empty], index |-> 0, size |-> 0,
   full |-> FALSE, first |-> TRUE]

IsFull(w)  == w.full
GetSize(w) == w.size
Get(w, at) == w.arr[(w.index + N - 1 - at) % N]

\* get_range(beg, length) steps back in time, from the place beg AFTER the newest
\* element: only with beg = 0, as it is called, from the element get(beg).
GetRange(w, beg, length) ==
  [i \in 1 .. (IF beg + length > N THEN N - beg ELSE length) |->
     w.arr[(beg - (i - 1) + w.index + N - 1) % N]]

\* Mutant: elements go on being counted when the window is full.
AddCounting(w, elem) ==
  [arr   |-> [w.arr EXCEPT ![w.index] = elem],
   index |-> (w.index + 1) % N,
   size  |-> w.size + 1,
   full  |-> w.full \/ w.index + 1 = N,
   first |-> FALSE]

Add(w, elem) ==
  [arr   |-> [w.arr EXCEPT ![w.index] = elem],
   index |-> (w.index + 1) % N,
   size  |-> IF w.full THEN w.size ELSE w.size + 1,
   full  |-> w.full \/ w.index + 1 = N,
   first |-> FALSE]

Rewrite(w, elem) == [w EXCEPT !.arr[(w.index + N - 1) % N] = elem]

\* Mutant: an element of an earlier minute is added like a later one.
PutAnyTime(w, time, val) ==
  LET elem == [time |-> time, val |-> val] IN
    IF ~ w.first /\ Get(w, 0).time = time THEN Rewrite(w, elem) ELSE Add(w, elem)

\* A new minute is added, the running one rewritten, an earlier one ignored.
Put(w, time, val) ==
  LET elem == [time |-> time, val |-> val] IN
    IF w.first \/ Get(w, 0).time < time THEN Add(w, elem)
    ELSE IF Get(w, 0).time = time THEN Rewrite(w, elem)
    ELSE w
=============================================================================
