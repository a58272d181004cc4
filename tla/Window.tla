------------------------------- MODULE Window -------------------------------
(* The ring buffer of util/window.h as operators on a record, one per method.
   Every method holds the window's own lock from its first to its last access
   of the fields, so a call is one atomic step of the thread that makes it.  *)
EXTENDS Integers, Sequences

CONSTANT N                       \* the template parameter: the capacity

ASSUME NAssumption == N \in Nat \ {0}

\* The fields.  arr is left uninitialised by the constructor, so the initial
\* contents are whatever the memory holds.
Window(Elem) ==
  [arr : [0 .. N - 1 -> Elem], index : 0 .. N - 1, size : 0 .. N, full : BOOLEAN]

New(junk) ==
  [arr |-> [i \in 0 .. N - 1 |-> junk], index |-> 0, size |-> 0, full |-> FALSE]

\* Mutant: full is set one element early.
PutFullEarly(w, elem) ==
  [arr   |-> [w.arr EXCEPT ![w.index] = elem],
   index |-> (w.index + 1) % N,
   size  |-> IF w.full THEN w.size ELSE w.size + 1,
   full  |-> w.full \/ w.index + 2 = N]

Put(w, elem) ==
  [arr   |-> [w.arr EXCEPT ![w.index] = elem],
   index |-> (w.index + 1) % N,
   size  |-> IF w.full THEN w.size ELSE w.size + 1,
   full  |-> w.full \/ w.index + 1 = N]

\* Mutant: clear() forgets the position.
ClearKeepsIndex(w) == [arr |-> w.arr, index |-> w.index, size |-> 0, full |-> FALSE]

\* clear() resets the counters and leaves the elements where they are.
Clear(w) == [arr |-> w.arr, index |-> 0, size |-> 0, full |-> FALSE]

IsFull(w)  == w.full
GetSize(w) == w.size

\* Mutant: index taken for the newest element.
GetFromIndex(w, at) == w.arr[(w.index + N - at) % N]

\* get(at): the element put at calls ago.
Get(w, at) == w.arr[(w.index + N - 1 - at) % N]

\* get_range(beg, length): the first length slots of the array; beg is only
\* checked, and the position of the newest element plays no part.
GetRange(w, beg, length) == [i \in 1 .. length |-> w.arr[i - 1]]
=============================================================================
