----------------------------- MODULE DataProofs -----------------------------
(* The containers, for any capacity and any values: WindowSpec, whose counters and live
   slots agree, which implements Recent, and over which MIN is the least element; and
   JsonPath, for any document and any paths.                                  *)
EXTENDS WindowSpec, JsonPath, SequenceTheorems, FiniteSetTheorems, FunctionTheorems,
        TLAPS

\* The fields of a window after put.
LEMMA PutFields ==
  ASSUME LiveSlots, NEW v \in Value, WindowPut(v)
  PROVE  /\ win.arr \in [0 .. N - 1 -> Value \cup {Junk}] /\ win.index \in 0 .. N - 1
         /\ win.size \in 0 .. N /\ win.full \in BOOLEAN
         /\ win'.arr = [win.arr EXCEPT ![win.index] = v]
         /\ win'.index = (win.index + 1) % N
         /\ win'.size = IF win.full THEN win.size ELSE win.size + 1
         /\ win'.full = (win.full \/ win.index + 1 = N)
         /\ win' = [arr |-> win'.arr, index |-> win'.index, size |-> win'.size,
                    full |-> win'.full]
  BY DEF LiveSlots, WindowPut, Put, Window

\* Arithmetic modulo the capacity, up to twice the capacity.
LEMMA Modulo ==
  ASSUME NEW n \in Nat \ {0}, NEW i \in 0 .. 2 * n - 1
  PROVE  /\ i % n = IF i < n THEN i ELSE i - n
         /\ i % n \in 0 .. n - 1
  OBVIOUS

LEMMA PutLive ==
  ASSUME LiveSlots, NEW v \in Value, WindowPut(v)
  PROVE  LiveSlots'
<1> USE NAssumption
<1>0. /\ win.arr \in [0 .. N - 1 -> Value \cup {Junk}] /\ win.index \in 0 .. N - 1
      /\ win.size \in 0 .. N /\ win.full \in BOOLEAN
      /\ win'.arr = [win.arr EXCEPT ![win.index] = v]
      /\ win'.size = IF win.full THEN win.size ELSE win.size + 1
      /\ win'.full = (win.full \/ win.index + 1 = N)
  BY PutFields
<1>a. /\ win.full <=> win.size = N
      /\ ~ win.full => win.index = win.size
      /\ \A i \in 0 .. win.size - 1 : win.arr[i] \in Value
  BY DEF LiveSlots
<1>1. win'.index \in 0 .. N - 1 /\ (win.index + 1 < N => win'.index = win.index + 1)
  <2> DEFINE next == win.index + 1
  <2>1. next \in 0 .. 2 * N - 1
    BY <1>0
  <2>2. win'.index = next % N
    BY PutFields
  <2> HIDE DEF next
  <2>3. next % N = (IF next < N THEN next ELSE next - N) /\ next % N \in 0 .. N - 1
    BY <2>1, Modulo
  <2> QED
    BY <2>2, <2>3 DEF next
<1>2. win'.size \in 0 .. N /\ win'.full \in BOOLEAN /\ (win'.full <=> win'.size = N)
  <2>1. CASE win.full
    BY <1>0, <1>a, <2>1
  <2>2. CASE ~ win.full
    <3>1. win.size < N /\ win'.size = win.size + 1 /\ win.index = win.size
      BY <1>0, <1>a, <2>2
    <3>2. win'.full <=> win.index + 1 = N
      BY <1>0, <2>2
    <3> QED
      BY <1>0, <3>1, <3>2
  <2> QED
    BY <2>1, <2>2
<1>3. ~ win'.full => win'.index = win'.size
  <2> SUFFICES ASSUME ~ win'.full PROVE win'.index = win'.size
    OBVIOUS
  <2>1. ~ win.full /\ win.index + 1 # N
    BY <1>0
  <2> QED
    BY <2>1, <1>0, <1>1, <1>a
<1>4. win'.arr \in [0 .. N - 1 -> Value \cup {Junk}]
  BY <1>0
<1>5. \A i \in 0 .. win'.size - 1 : win'.arr[i] \in Value
  BY <1>0, <1>a
<1>6. win' \in Window(Value \cup {Junk})
  <2>1. win' = [arr |-> win'.arr, index |-> win'.index, size |-> win'.size,
                full |-> win'.full]
    BY PutFields
  <2>2. [arr |-> win'.arr, index |-> win'.index, size |-> win'.size,
         full |-> win'.full] \in Window(Value \cup {Junk})
    BY <1>1, <1>2, <1>4 DEF Window
  <2> QED
    BY <2>1, <2>2
<1> QED
  BY <1>2, <1>3, <1>5, <1>6 DEF LiveSlots

LEMMA ClearLive ==
  ASSUME LiveSlots, WindowClear
  PROVE  LiveSlots' /\ win'.size = 0
  BY NAssumption DEF LiveSlots, WindowClear, Clear, Window

LEMMA InitLive == Init => LiveSlots /\ win.size = 0
  BY NAssumption DEF Init, New, LiveSlots, Window

\* No reader of the live slots ever meets an element that was not put.
THEOREM SlotsLive == Spec => []LiveSlots
<1>1. LiveSlots /\ [Next]_win => LiveSlots'
  <2> SUFFICES ASSUME LiveSlots, [Next]_win PROVE LiveSlots'
    OBVIOUS
  <2>1. CASE WindowClear
    BY <2>1, ClearLive
  <2>2. ASSUME NEW v \in Value, WindowPut(v) PROVE LiveSlots'
    BY <2>2, PutLive
  <2>3. CASE UNCHANGED win
    BY <2>3 DEF LiveSlots
  <2> QED
    BY <2>1, <2>2, <2>3 DEF Next
<1> QED
  BY InitLive, <1>1, PTL DEF Spec
-----------------------------------------------------------------------------
(* The refinement. *)

\* Where the elements are that get(at) returns.
InOrder ==
  /\ Contents \in Seq(Value) /\ Len(Contents) = win.size
  /\ \A i \in 1 .. win.size :
       Contents[i] = IF win.full THEN win.arr[(win.index + i - 1) % N]
                                 ELSE win.arr[i - 1]

LEMMA ContentsInOrder == LiveSlots => InOrder
<1> SUFFICES ASSUME LiveSlots PROVE InOrder
  OBVIOUS
<1> USE NAssumption
<1> DEFINE slot(i) == (win.index + N - 1 - (win.size - i)) % N
<1>0. win.index \in 0 .. N - 1 /\ win.size \in 0 .. N
  BY DEF LiveSlots, Window
<1>1. Contents = [i \in 1 .. win.size |-> win.arr[slot(i)]]
  BY DEF Contents, Get, GetSize
<1>2. ASSUME NEW i \in 1 .. win.size
      PROVE  /\ slot(i) = IF win.full THEN (win.index + i - 1) % N ELSE i - 1
             /\ slot(i) \in 0 .. win.size - 1
  <2>1. CASE win.full
    <3>1. win.size = N /\ win.index + N - 1 - (win.size - i) = win.index + i - 1
      BY <1>0, <2>1 DEF LiveSlots
    <3> DEFINE j == win.index + i - 1
    <3>2. j \in 0 .. 2 * N - 1
      BY <1>0, <3>1
    <3>3. slot(i) = j % N
      BY <3>1
    <3> HIDE DEF j
    <3>4. j % N \in 0 .. N - 1
      BY <3>2, Modulo
    <3> QED
      BY <2>1, <3>1, <3>3, <3>4 DEF j
  <2>2. CASE ~ win.full
    <3>1. win.index = win.size /\ win.size < N
      BY <1>0, <2>2 DEF LiveSlots
    <3> DEFINE j == win.index + N - 1 - (win.size - i)
    <3>2. j \in 0 .. 2 * N - 1 /\ ~ (j < N) /\ j - N = i - 1
      BY <1>0, <3>1
    <3>3. slot(i) = j % N
      OBVIOUS
    <3> HIDE DEF j, slot
    <3>4. j % N = j - N
      BY <3>2, Modulo
    <3>5. slot(i) = i - 1 /\ i - 1 \in 0 .. win.size - 1
      BY <1>0, <3>2, <3>3, <3>4
    <3> QED
      BY <2>2, <3>5
  <2> QED
    BY <2>1, <2>2
<1>3. \A i \in 1 .. win.size : win.arr[slot(i)] \in Value
  BY <1>2 DEF LiveSlots
<1> HIDE DEF slot
<1>4. Contents \in Seq(Value) /\ Len(Contents) = win.size
  BY <1>0, <1>1, <1>3
<1> QED
  BY <1>1, <1>2, <1>4 DEF InOrder

\* A put on a window that is not full.
LEMMA PutAppends ==
  ASSUME LiveSlots, LiveSlots', InOrder, InOrder', NEW v \in Value, WindowPut(v),
         ~ win.full
  PROVE  Contents' = Append(Contents, v)
<1> USE NAssumption
<1>1. /\ win.index = win.size /\ win.size \in 0 .. N - 1 /\ win'.size = win.size + 1
      /\ win'.arr = [win.arr EXCEPT ![win.size] = v]
      /\ win.arr \in [0 .. N - 1 -> Value \cup {Junk}]
  BY PutFields DEF LiveSlots
<1>2. ASSUME NEW i \in 1 .. win.size + 1 PROVE Contents'[i] = win'.arr[i - 1]
  <2>1. CASE win'.full
    <3>1. win'.index = 0
      <4>1. win.index + 1 = N
        BY <2>1, PutFields
      <4>2. N % N = 0
        BY Modulo, N \in 0 .. 2 * N - 1
      <4> QED
        BY <4>1, <4>2, PutFields
    <3>2. (win'.index + i - 1) % N = i - 1
      BY <1>1, <3>1
    <3> QED
      BY <1>1, <2>1, <3>2 DEF InOrder
  <2>2. CASE ~ win'.full
    BY <1>1, <2>2 DEF InOrder
  <2> QED
    BY <2>1, <2>2
<1>3. ASSUME NEW i \in 1 .. win.size + 1
      PROVE  win'.arr[i - 1] = IF i = win.size + 1 THEN v ELSE win.arr[i - 1]
  BY <1>1
<1>4. \A i \in 1 .. win.size : Contents[i] = win.arr[i - 1]
  BY DEF InOrder
<1>5. /\ Contents \in Seq(Value) /\ Len(Contents) = win.size
      /\ Contents' \in Seq(Value) /\ Len(Contents') = win.size + 1
  BY <1>1 DEF InOrder
<1>6. /\ Append(Contents, v) \in Seq(Value) /\ Len(Append(Contents, v)) = win.size + 1
      /\ \A i \in 1 .. win.size : Append(Contents, v)[i] = Contents[i]
      /\ Append(Contents, v)[win.size + 1] = v
  BY <1>5, AppendProperties
<1>7. \A i \in 1 .. win.size + 1 : Contents'[i] = Append(Contents, v)[i]
  BY <1>1, <1>2, <1>3, <1>4, <1>6
<1> QED
  BY <1>5, <1>6, <1>7, SeqEqual

\* A put on a full window, where the oldest element makes room.
LEMMA PutReplaces ==
  ASSUME LiveSlots, LiveSlots', InOrder, InOrder', NEW v \in Value, WindowPut(v),
         win.full
  PROVE  Contents' = Append(Tail(Contents), v)
<1> USE NAssumption
<1>1. /\ win.size = N /\ win'.size = N /\ win'.full /\ win.index \in 0 .. N - 1
      /\ win'.arr = [win.arr EXCEPT ![win.index] = v]
      /\ win'.index = (win.index + 1) % N
      /\ win.arr \in [0 .. N - 1 -> Value \cup {Junk}]
  BY PutFields DEF LiveSlots
<1>2. win'.index = IF win.index + 1 = N THEN 0 ELSE win.index + 1
  <2> DEFINE next == win.index + 1
  <2>1. next \in 0 .. 2 * N - 1
    BY <1>1
  <2>2. win'.index = next % N
    BY <1>1
  <2> HIDE DEF next
  <2>3. next % N = IF next < N THEN next ELSE next - N
    BY <2>1, Modulo
  <2> QED
    BY <1>1, <2>2, <2>3 DEF next
<1> DEFINE slot(i) == IF win.index + i < N THEN win.index + i ELSE win.index + i - N
<1>3. ASSUME NEW i \in 1 .. N
      PROVE  (win'.index + i - 1) % N = slot(i) /\ (win.index + i) % N = slot(i)
  <2> DEFINE j == win'.index + i - 1
             k == win.index + i
  <2>0. N \in Nat \ {0} /\ win.index \in 0 .. N - 1 /\ win'.index \in 0 .. N - 1
    BY <1>1, <1>2
  <2>1. j \in 0 .. 2 * N - 1 /\ k \in 0 .. 2 * N - 1
    BY <2>0
  <2>2. j = IF win.index + 1 = N THEN i - 1 ELSE k
    BY <1>1, <1>2
  <2>3. win.index + 1 = N => k - N = i - 1 /\ i - 1 < N /\ ~ (k < N)
    BY <1>1
  <2>4. /\ k < N => slot(i) = k
        /\ ~ (k < N) => slot(i) = k - N
    BY <1>1
  <2> HIDE DEF j, k, slot
  <2>5. /\ j % N = IF j < N THEN j ELSE j - N
        /\ k % N = IF k < N THEN k ELSE k - N
    BY <2>1, Modulo
  <2>6. j % N = slot(i) /\ k % N = slot(i)
    BY <2>1, <2>2, <2>3, <2>4, <2>5
  <2> QED
    BY <2>6 DEF j, k
<1>4. ASSUME NEW i \in 1 .. N
      PROVE  slot(i) \in 0 .. N - 1 /\ (slot(i) = win.index <=> i = N)
  BY <1>1
<1>5. ASSUME NEW i \in 1 .. N PROVE Contents'[i] = win'.arr[slot(i)]
  <2>1. Contents'[i] = win'.arr[(win'.index + i - 1) % N]
    BY <1>1 DEF InOrder
  <2> HIDE DEF slot
  <2> QED
    BY <1>3, <2>1
<1>6. ASSUME NEW i \in 1 .. N - 1 PROVE Contents[i + 1] = win.arr[slot(i)]
  <2>1. i + 1 \in 1 .. N /\ win.index + (i + 1) - 1 = win.index + i
    BY <1>1
  <2>2. Contents[i + 1] = win.arr[(win.index + (i + 1) - 1) % N]
    BY <1>1, <2>1 DEF InOrder
  <2> HIDE DEF slot
  <2> QED
    BY <1>3, <2>1, <2>2
<1> HIDE DEF slot
<1>7. /\ Contents \in Seq(Value) /\ Len(Contents) = N
      /\ Contents' \in Seq(Value) /\ Len(Contents') = N
  BY <1>1 DEF InOrder
<1>8. /\ Tail(Contents) \in Seq(Value) /\ Len(Tail(Contents)) = N - 1
      /\ \A i \in 1 .. N - 1 : Tail(Contents)[i] = Contents[i + 1]
  BY <1>7, HeadTailProperties
<1>9. /\ Append(Tail(Contents), v) \in Seq(Value) /\ Len(Append(Tail(Contents), v)) = N
      /\ \A i \in 1 .. N - 1 : Append(Tail(Contents), v)[i] = Tail(Contents)[i]
      /\ Append(Tail(Contents), v)[N] = v
  BY <1>8, AppendProperties
<1>10. ASSUME NEW i \in 1 .. N PROVE Contents'[i] = Append(Tail(Contents), v)[i]
  <2>1. slot(i) \in 0 .. N - 1 /\ (slot(i) = win.index <=> i = N)
    BY <1>4
  <2>2. Contents'[i] = IF i = N THEN v ELSE win.arr[slot(i)]
    BY <1>1, <1>5, <2>1
  <2>3. CASE i = N
    BY <1>9, <2>2, <2>3
  <2>4. CASE i # N
    <3>1. i \in 1 .. N - 1
      BY <2>4
    <3> QED
      BY <1>6, <1>8, <1>9, <2>2, <2>4, <3>1
  <2> QED
    BY <2>3, <2>4
<1> QED
  BY <1>7, <1>9, <1>10, SeqEqual

\* get(at) returns what was put at calls ago: the ring is the last N values put since
\* the last clear(), for any capacity.
THEOREM KeepsLastN == Spec => ImplementsRecent
<1>1. Init => History!Init
  <2> SUFFICES ASSUME Init PROVE Contents = << >>
    BY DEF History!Init
  <2>1. InOrder /\ win.size = 0
    BY InitLive, ContentsInOrder
  <2> QED
    BY <2>1, EmptySeq DEF InOrder
<1>2. (LiveSlots => InOrder)'
  BY ContentsInOrder, PTL
<1>3. LiveSlots /\ LiveSlots' /\ [Next]_win => [History!Next]_Contents
  <2> SUFFICES ASSUME LiveSlots, LiveSlots', [Next]_win PROVE [History!Next]_Contents
    OBVIOUS
  <2>0. InOrder /\ InOrder'
    BY ContentsInOrder, <1>2
  <2>1. CASE WindowClear
    <3>1. Contents' = << >>
      BY <2>0, <2>1, ClearLive, EmptySeq DEF InOrder
    <3> QED
      BY <3>1 DEF History!Next, History!Clear
  <2>2. ASSUME NEW v \in Value, WindowPut(v) PROVE History!Put(v)
    <3>1. Len(Contents) = N <=> win.full
      BY <2>0 DEF InOrder, LiveSlots
    <3>2. CASE win.full
      BY <2>0, <2>2, <3>1, <3>2, PutReplaces DEF History!Put
    <3>3. CASE ~ win.full
      BY <2>0, <2>2, <3>1, <3>3, PutAppends DEF History!Put
    <3> QED
      BY <3>2, <3>3
  <2>3. CASE UNCHANGED win
    <3>1. Contents' = Contents
      BY <2>3 DEF Contents
    <3> QED
      BY <3>1
  <2> QED
    BY <2>1, <2>2, <2>3 DEF Next, History!Next
<1> QED
  BY <1>1, <1>3, SlotsLive, PTL DEF Spec, ImplementsRecent, History!Spec

-----------------------------------------------------------------------------
(* get_range(0, get_size()). *)

\* s is t with its m positions reordered by g.
Reorders(g, m, s, t) ==
  /\ m \in Nat /\ DOMAIN s = 1 .. m /\ DOMAIN t = 1 .. m
  /\ g \in [1 .. m -> 1 .. m] /\ \A i, j \in 1 .. m : g[i] = g[j] => i = j
  /\ \A j \in 1 .. m : \E i \in 1 .. m : g[i] = j
  /\ \A i \in 1 .. m : s[i] = t[g[i]]

\* A reordering changes no count.
LEMMA SameCount ==
  ASSUME NEW g, NEW m, NEW s, NEW t, NEW v, Reorders(g, m, s, t)
  PROVE  Count(s, v) = Count(t, v)
<1> USE DEF Reorders
<1> DEFINE A == { i \in DOMAIN s : s[i] = v }
           B == { i \in DOMAIN t : t[i] = v }
           f == [i \in A |-> g[i]]
<1>1. f \in Bijection(A, B)
  <2>1. f \in [A -> B]
    OBVIOUS
  <2>2. \A i, j \in A : f[i] = f[j] => i = j
    OBVIOUS
  <2>3. \A j \in B : \E i \in A : f[i] = j
    OBVIOUS
  <2> HIDE DEF A, B, f
  <2> QED
    BY <2>1, <2>2, <2>3, Fun_IsBij
<1>2. IsFiniteSet(A)
  <2>1. IsFiniteSet(1 .. m)
    BY FS_Interval
  <2>2. A \subseteq 1 .. m
    OBVIOUS
  <2> HIDE DEF A
  <2> QED
    BY <2>1, <2>2, FS_Subset
<1>3. Count(s, v) = Cardinality(A) /\ Count(t, v) = Cardinality(B)
  BY DEF Count
<1> HIDE DEF A, B, f
<1>4. ExistsBijection(A, B)
  BY <1>1 DEF ExistsBijection
<1> QED
  BY <1>2, <1>3, <1>4, FS_Bijection

\* The slots of a full window are its elements, turned.
LEMMA RangeTurned ==
  ASSUME LiveSlots, NEW v PROVE Count(GetRange(win, 0, GetSize(win)), v) = Count(Contents, v)
<1> USE NAssumption
<1> DEFINE range == GetRange(win, 0, GetSize(win))
           turned(i) == IF ~ win.full THEN i
                        ELSE IF win.index + i - 1 < N THEN win.index + i ELSE win.index + i - N
           back(j) == IF ~ win.full THEN j
                      ELSE IF j > win.index THEN j - win.index ELSE j - win.index + N
           g == [i \in 1 .. win.size |-> turned(i)]
<1>0. /\ win.index \in 0 .. N - 1 /\ win.size \in 0 .. N
      /\ win.full => win.size = N
  BY DEF LiveSlots, Window
<1>1. DOMAIN range = 1 .. win.size /\ DOMAIN Contents = 1 .. win.size
  BY DEF GetRange, GetSize, Contents
<1>2. \A i \in 1 .. win.size : turned(i) \in 1 .. win.size
  BY <1>0
<1>3. \A i, j \in 1 .. win.size : turned(i) = turned(j) => i = j
  BY <1>0
<1>4. \A j \in 1 .. win.size : back(j) \in 1 .. win.size /\ turned(back(j)) = j
  BY <1>0
<1>5. ASSUME NEW i \in 1 .. win.size PROVE Contents[i] = range[turned(i)]
  <2>1. Contents[i] = IF win.full THEN win.arr[(win.index + i - 1) % N] ELSE win.arr[i - 1]
    BY ContentsInOrder DEF InOrder
  <2>2. range[turned(i)] = win.arr[turned(i) - 1]
    BY <1>2 DEF GetRange, GetSize
  <2>3. win.full => (win.index + i - 1) % N = turned(i) - 1
    <3> DEFINE j == win.index + i - 1
    <3>1. j \in 0 .. 2 * N - 1
      BY <1>0
    <3>2. win.full => turned(i) - 1 = (IF j < N THEN j ELSE j - N)
      BY <1>0
    <3> HIDE DEF j
    <3>3. j % N = IF j < N THEN j ELSE j - N
      BY <3>1, Modulo
    <3>4. win.full => j % N = turned(i) - 1
      BY <3>2, <3>3
    <3> QED
      BY <3>4 DEF j
  <2> QED
    BY <1>0, <2>1, <2>2, <2>3
<1> HIDE DEF range, turned, back
<1>6. /\ g \in [1 .. win.size -> 1 .. win.size]
      /\ \A i, j \in 1 .. win.size : g[i] = g[j] => i = j
      /\ \A j \in 1 .. win.size : \E i \in 1 .. win.size : g[i] = j
      /\ \A i \in 1 .. win.size : Contents[i] = range[g[i]]
  BY <1>2, <1>3, <1>4, <1>5
<1>7. win.size \in Nat
  BY <1>0
<1> DEFINE m == win.size
           con == Contents
<1>8. Reorders(g, m, con, range)
  BY <1>1, <1>6, <1>7 DEF Reorders
<1> HIDE DEF g, m, con
<1>9. Count(con, v) = Count(range, v)
  BY <1>8, SameCount
<1> QED
  BY <1>9 DEF con, range

\* Whatever the capacity and however often the ring has gone round, get_range(0,
\* get_size()) returns each live element as often as it is there: right for a minimum.
THEOREM RangeHoldsContents == Spec => []RangeIsContents
<1>1. LiveSlots => RangeIsContents
  BY RangeTurned DEF RangeIsContents
<1> QED
  BY SlotsLive, <1>1, PTL
-----------------------------------------------------------------------------
(* Induction.  What holds of 0 and of the successor of each number it holds of is stated
   as a set of numbers; the library's order of finite sets by inclusion gives a least
   number that is missing. *)

\* Any set of numbers that is not empty has a least element.
LEMMA LeastNumber ==
  ASSUME NEW T \in SUBSET Nat, T # {}
  PROVE  \E x \in T : \A y \in T : x <= y
<1> DEFINE R == StrictSubsetOrdering(Nat)
           I == { 1 .. x : x \in T }
<1>1. IsWellFoundedOn(R, FiniteSubsetsOf(Nat))
  BY FS_StrictSubsetOrderingWellFounded
<1>2. I \subseteq FiniteSubsetsOf(Nat) /\ I # {}
  <2>1. ASSUME NEW x \in T PROVE 1 .. x \in SUBSET Nat /\ IsFiniteSet(1 .. x)
    BY FS_Interval
  <2> QED
    BY <2>1 DEF FiniteSubsetsOf
<1> HIDE DEF R
<1>3. PICK i \in I : \A j \in I : <<j, i>> \notin R
  <2> HIDE DEF I
  <2> QED
    BY <1>1, <1>2, WFMin
<1>4. PICK x \in T : i = 1 .. x
  OBVIOUS
<1>5. ASSUME NEW y \in T, y < x PROVE FALSE
  <2>1. /\ 1 .. y \in SUBSET Nat /\ 1 .. x \in SUBSET Nat
        /\ 1 .. y \subseteq 1 .. x /\ x \in 1 .. x /\ x \notin 1 .. y
    BY <1>5
  <2>2. <<1 .. y, i>> \in R
    BY <2>1, <1>4 DEF R, StrictSubsetOrdering
  <2> QED
    BY <1>3, <2>2
<1> QED
  BY <1>5

\* A set of numbers that holds 0 and the successor of each of its members is all of them.
LEMMA Induction ==
  ASSUME NEW T \in SUBSET Nat, 0 \in T, \A n \in T : n + 1 \in T
  PROVE  T = Nat
<1> DEFINE U == Nat \ T
<1>1. SUFFICES ASSUME U # {} PROVE FALSE
  OBVIOUS
<1>2. PICK x \in U : \A y \in U : x <= y
  <2>1. U \in SUBSET Nat /\ U # {}
    BY <1>1
  <2> HIDE DEF U
  <2> QED
    BY <2>1, LeastNumber
<1>3. x # 0 /\ x - 1 \in Nat /\ x - 1 \notin U
  BY <1>2
<1> QED
  BY <1>3
-----------------------------------------------------------------------------
(* MIN. *)

Candidates(vec, n, f) == 
  /\ f \in [1 .. n -> Int \cup {NaN}]
  /\ \A i \in 1 .. n : f[i] = IF i = 1 THEN vec[1]
                       ELSE IF Less(vec[i], f[i - 1]) THEN vec[i] ELSE f[i - 1]

\* The loop has a candidate after every element.
LEMMA MinDefined ==
  ASSUME NEW vec \in Seq(Int \cup {NaN})
  PROVE  \A n \in 0 .. Len(vec) : \E f : Candidates(vec, n, f)
<1> DEFINE T == { n \in Nat : n <= Len(vec) => \E f : Candidates(vec, n, f) }
<1>1. 0 \in T
  <2>1. Candidates(vec, 0, << >>)
    BY DEF Candidates
  <2> QED BY <2>1
<1>2. ASSUME NEW n \in T PROVE n + 1 \in T
  <2> SUFFICES ASSUME n + 1 <= Len(vec) PROVE \E f : Candidates(vec, n + 1, f)
    OBVIOUS
  <2>1. PICK f : Candidates(vec, n, f)
    OBVIOUS
  <2> DEFINE last == IF n = 0 THEN vec[1] 
                     ELSE IF Less(vec[n + 1], f[n]) THEN vec[n + 1] ELSE f[n]
             g == [i \in 1 .. n + 1 |-> IF i = n + 1 THEN last ELSE f[i]]
  <2>2. vec[n + 1] \in Int \cup {NaN}
    OBVIOUS
  <2>3. last \in Int \cup {NaN}
    BY <2>1, <2>2 DEF Candidates
  <2>4. \A i \in 1 .. n + 1 : i # n + 1 => i \in 1 .. n /\ (i = 1 \/ i - 1 \in 1 .. n)
    OBVIOUS
  <2>5. g \in [1 .. n + 1 -> Int \cup {NaN}]
    BY <2>1, <2>3, <2>4 DEF Candidates
  <2>6. ASSUME NEW i \in 1 .. n + 1
        PROVE  g[i] = IF i = 1 THEN vec[1]
                       ELSE IF Less(vec[i], g[i - 1]) THEN vec[i] ELSE g[i - 1]
    <3>1. CASE i = n + 1
      <4>1. i # 1 => n \in 1 .. n + 1 /\ n # n + 1 /\ i - 1 = n
        BY <3>1
      <4> HIDE DEF last
      <4>2. g[i] = last /\ (i # 1 => g[i - 1] = f[n])
        BY <3>1, <4>1
      <4> QED BY <3>1, <4>1, <4>2 DEF last
    <3>2. CASE i # n + 1
      <4>1. i \in 1 .. n /\ (i # 1 => i - 1 \in 1 .. n + 1 /\ i - 1 # n + 1)
        BY <3>2
      <4> HIDE DEF last
      <4>2. g[i] = f[i] /\ (i # 1 => g[i - 1] = f[i - 1])
        BY <4>1, <3>2
      <4> QED BY <2>1, <4>1, <4>2 DEF Candidates
    <3> QED BY <3>1, <3>2
  <2> HIDE DEF g
  <2> QED BY <2>5, <2>6 DEF Candidates
<1> HIDE DEF T
<1>3. T = Nat
  <2>1. T \in SUBSET Nat BY DEF T
  <2> QED BY <1>1, <1>2, <2>1, Induction
<1> QED BY <1>3 DEF T

\* LoopMIN returns the last of them.
LEMMA LoopMINDefined ==
  ASSUME NEW vec \in Seq(Int \cup {NaN}), Len(vec) # 0
  PROVE  \E f : Candidates(vec, Len(vec), f) /\ LoopMIN(vec) = f[Len(vec)]
<1> DEFINE IsLoop(f) ==
             f = [i \in 1 .. Len(vec) |->
                    IF i = 1 THEN vec[1]
                    ELSE IF Less(vec[i], f[i - 1]) THEN vec[i] ELSE f[i - 1]]
           min == CHOOSE f : IsLoop(f)
<1>1. PICK f : Candidates(vec, Len(vec), f)
  BY MinDefined, Len(vec) \in 0 .. Len(vec)
<1>2. IsLoop(f)
  BY <1>1 DEF Candidates
<1>3. IsLoop(min)
  <2> HIDE DEF IsLoop
  <2> QED
    BY <1>2, Zenon
<1>4. LoopMIN(vec) = min[Len(vec)]
  BY Zenon DEF LoopMIN
<1>5. \A n \in 1 .. Len(vec) : min[n] = f[n]
  <2> HIDE DEF min
  <2> DEFINE T == { n \in Nat : n + 1 <= Len(vec) => min[n + 1] = f[n + 1] }
  <2>1. 0 \in T
    BY <1>1, <1>3 DEF Candidates
  <2>2. ASSUME NEW n \in T PROVE n + 1 \in T
    <3> SUFFICES ASSUME (n + 1) + 1 <= Len(vec) PROVE min[(n + 1) + 1] = f[(n + 1) + 1]
      OBVIOUS
    <3> DEFINE k == (n + 1) + 1
    <3>1. n + 1 \in 1 .. Len(vec) /\ k \in 1 .. Len(vec) /\ k # 1 /\ k - 1 = n + 1
      OBVIOUS
    <3>2. min[n + 1] = f[n + 1]
      BY <3>1
    <3> HIDE DEF k, T
    <3> QED
      BY <1>1, <1>3, <3>1, <3>2 DEF Candidates, k
  <2>3. T \in SUBSET Nat
    OBVIOUS
  <2> HIDE DEF T
  <2>4. T = Nat
    BY <2>1, <2>2, <2>3, Induction
  <2>5. \A n \in 1 .. Len(vec) : n - 1 \in T /\ (n - 1) + 1 = n
    BY <2>4
  <2> QED
    BY <2>5 DEF T
<1> HIDE DEF min
<1> QED
  BY <1>1, <1>4, <1>5

\* What the candidate is after n elements.
LEMMA Smallest ==
  ASSUME NEW vec \in Seq(Int \cup {NaN}), NEW f, Candidates(vec, Len(vec), f)
  PROVE  \A n \in 1 .. Len(vec) :
           IF vec[1] = NaN THEN f[n] = NaN
           ELSE /\ f[n] # NaN
                /\ \E i \in 1 .. n : vec[i] = f[n]
                /\ \A i \in 1 .. n : ~ Less(vec[i], f[n])
<1> USE NaNAssumption
<1> DEFINE Holds(n) == IF vec[1] = NaN THEN f[n] = NaN
                       ELSE /\ f[n] # NaN
                            /\ \E i \in 1 .. n : vec[i] = f[n]
                            /\ \A i \in 1 .. n : ~ Less(vec[i], f[n])
           T == { n \in Nat : n + 1 <= Len(vec) => Holds(n + 1) }
<1>1. 0 \in T
  <2> SUFFICES ASSUME 1 <= Len(vec) PROVE Holds(1)
    OBVIOUS
  <2>1. f[1] = vec[1] /\ vec[1] \in Int \cup {NaN}
    BY DEF Candidates
  <2> QED
    BY <2>1 DEF Less
<1>2. ASSUME NEW n \in T PROVE n + 1 \in T
  <2> DEFINE m == n + 1
             k == m + 1
  <2> SUFFICES ASSUME k <= Len(vec) PROVE Holds(k)
    OBVIOUS
  <2>1. m \in 1 .. Len(vec) /\ k \in 1 .. Len(vec) /\ k # 1 /\ k - 1 = m
    OBVIOUS
  <2>2. Holds(m)
    BY <2>1
  <2> HIDE DEF T
  <2>3. /\ f[k] = (IF Less(vec[k], f[m]) THEN vec[k] ELSE f[m])
        /\ \A i \in 1 .. k : vec[i] \in Int \cup {NaN} /\ (i = k \/ i \in 1 .. m)
        /\ \A i \in 1 .. m : i \in 1 .. k
        /\ k \in 1 .. k /\ f[m] \in Int \cup {NaN}
    BY <2>1 DEF Candidates
  <2> HIDE DEF m, k
  <2> QED
    BY <2>2, <2>3 DEF Less
<1>3. T \in SUBSET Nat
  OBVIOUS
<1> HIDE DEF T
<1>4. T = Nat
  BY <1>1, <1>2, <1>3, Induction
<1> HIDE DEF Holds
<1>5. \A n \in 1 .. Len(vec) : n - 1 \in T /\ (n - 1) + 1 = n
  BY <1>4
<1>6. \A n \in 1 .. Len(vec) : Holds(n)
  BY <1>5 DEF T
<1> QED
  BY <1>6 DEF Holds

\* MIN of any vector, NaN elements included, is what IsMIN says it is and nothing else.
LEMMA MINOfAny ==
  ASSUME NEW vec \in Seq(Int \cup {NaN}), NEW m
  PROVE  IsMIN(m, vec) <=> m = LoopMIN(vec)
<1>1. CASE Len(vec) = 0
  BY <1>1 DEF IsMIN, LoopMIN
<1>2. CASE Len(vec) # 0
  <2>1. PICK f : Candidates(vec, Len(vec), f) /\ LoopMIN(vec) = f[Len(vec)]
    BY <1>2, LoopMINDefined
  <2> DEFINE least == f[Len(vec)]
  <2>2. IF vec[1] = NaN THEN least = NaN
        ELSE /\ least # NaN
             /\ \E i \in 1 .. Len(vec) : vec[i] = least
             /\ \A i \in 1 .. Len(vec) : ~ Less(vec[i], least)
    BY <1>2, <2>1, Smallest, Len(vec) \in 1 .. Len(vec)
  <2>3. \A i \in 1 .. Len(vec) : vec[i] \in Int \cup {NaN}
    OBVIOUS
  <2> HIDE DEF least
  <2>4. IsMIN(m, vec) <=> m = least
    BY <1>2, <2>2, <2>3, NaNAssumption DEF IsMIN, Less
  <2> QED
    BY <2>1, <2>4 DEF least
<1> QED
  BY <1>1, <1>2

\* MIN over the whole window, whatever has been put, cleared and overwritten, is the
\* value the risk control is to compare with: the least live element, -1 of an empty
\* window, NaN when the slot it begins with holds NaN.
THEOREM MINIsLeast == Spec => []MINIsTheLoop
<1>1. LiveSlots => MINIsTheLoop
  <2> SUFFICES ASSUME LiveSlots PROVE MINIsTheLoop
    OBVIOUS
  <2>1. GetRange(win, 0, GetSize(win)) \in Seq(Int \cup {NaN})
    <3> DEFINE slot(i) == win.arr[i - 1]
               k == win.size
    <3>1. k \in Nat
      BY NAssumption DEF LiveSlots, Window
    <3>2. \A i \in 1 .. k : i - 1 \in 0 .. win.size - 1
      BY <3>1
    <3>3. \A i \in 1 .. k : slot(i) \in Int \cup {NaN}
      BY <3>2, ValueAssumption DEF LiveSlots
    <3>4. GetRange(win, 0, GetSize(win)) = [i \in 1 .. k |-> slot(i)]
      BY DEF GetRange, GetSize
    <3> HIDE DEF slot, k
    <3> QED
      BY <3>1, <3>3, <3>4
  <2> QED
    BY <2>1, MINOfAny DEF MINIsTheLoop
<1> QED
  BY <1>1, SlotsLive, PTL
-----------------------------------------------------------------------------
(* JsonPath. *)

\* The steps of paths.
Steps == [key : STRING, which : Int]

\* The walk begins with the node and takes one step of the path at a time.
LEMMA Walks ==
  ASSUME NEW node, NEW path \in Seq(Steps)
  PROVE  /\ Walk(node, path)[0] = node
         /\ \A i \in 1 .. Len(path) :
              Walk(node, path)[i] = Child(Walk(node, path)[i - 1], path[i])
<1> DEFINE IsWalk(f, n) ==
             f = [i \in 0 .. n |-> IF i = 0 THEN node ELSE Child(f[i - 1], path[i])]
           T == { n \in Nat : \E f : IsWalk(f, n) }
           at == CHOOSE f : IsWalk(f, Len(path))
<1>1. 0 \in T
  <2>1. IsWalk([i \in 0 .. 0 |-> node], 0)
    OBVIOUS
  <2> HIDE DEF IsWalk
  <2> QED
    BY <2>1
<1>2. ASSUME NEW n \in T PROVE n + 1 \in T
  <2>1. PICK f : IsWalk(f, n)
    OBVIOUS
  <2> DEFINE g == [i \in 0 .. n + 1 |->
                     IF i = n + 1 THEN Child(f[n], path[n + 1]) ELSE f[i]]
  <2>2. ASSUME NEW i \in 0 .. n + 1
        PROVE  g[i] = IF i = 0 THEN node ELSE Child(g[i - 1], path[i])
    <3>1. CASE i = n + 1
      <4>1. i # 0 /\ n \in 0 .. n + 1 /\ n # n + 1 /\ i - 1 = n
        BY <3>1
      <4> QED
        BY <3>1, <4>1
    <3>2. CASE i # n + 1
      <4>1. i \in 0 .. n /\ (i # 0 => i - 1 \in 0 .. n + 1 /\ i - 1 # n + 1)
        BY <3>2
      <4>2. g[i] = f[i] /\ (i # 0 => g[i - 1] = f[i - 1])
        BY <3>2, <4>1
      <4> HIDE DEF g
      <4> QED
        BY <2>1, <4>1, <4>2
    <3> QED
      BY <3>1, <3>2
  <2>3. IsWalk(g, n + 1)
    <3>1. g = [i \in 0 .. n + 1 |-> g[i]]
      OBVIOUS
    <3> HIDE DEF g
    <3> QED
      BY <2>2, <3>1
  <2> HIDE DEF g, IsWalk
  <2> QED
    BY <2>3
<1>3. T \in SUBSET Nat
  OBVIOUS
<1> HIDE DEF T
<1>4. T = Nat
  BY <1>1, <1>2, <1>3, Induction
<1>5. \E f : IsWalk(f, Len(path))
  BY <1>4 DEF T
<1>6. IsWalk(at, Len(path))
  <2> HIDE DEF IsWalk
  <2> QED
    BY <1>5, Zenon
<1>7. Walk(node, path) = at
  BY Zenon DEF Walk
<1> HIDE DEF at
<1> QED
  BY <1>6, <1>7

\* The same of the nodes that take their place, from the last.
LEMMA Renews ==
  ASSUME NEW node, NEW path \in Seq(Steps), NEW value
  PROVE  /\ Renewed(node, path, value)[Len(path)] = value
         /\ \A i \in 0 .. Len(path) - 1 :
              Renewed(node, path, value)[i] =
                WithChild(Walk(node, path)[i], path[i + 1], Renewed(node, path, value)[i + 1])
<1> DEFINE top == Len(path)
           at == Walk(node, path)
           IsNew(f, n) ==
             f = [i \in top - n .. top |->
                    IF i = top THEN value ELSE WithChild(at[i], path[i + 1], f[i + 1])]
           T == { n \in Nat : \E f : IsNew(f, n) }
           IsAll(f) ==
             f = [i \in 0 .. top |->
                    IF i = top THEN value ELSE WithChild(at[i], path[i + 1], f[i + 1])]
           new == CHOOSE f : IsAll(f)
<1>0. top \in Nat
  OBVIOUS
<1>7. Renewed(node, path, value) = new
  BY Zenon DEF Renewed
<1> HIDE DEF at, top
<1>1. 0 \in T
  <2>1. IsNew([i \in top - 0 .. top |-> value], 0)
    BY <1>0
  <2> HIDE DEF IsNew
  <2> QED
    BY <2>1
<1>2. ASSUME NEW n \in T PROVE n + 1 \in T
  <2>1. PICK f : IsNew(f, n)
    OBVIOUS
  <2> DEFINE low == top - (n + 1)
             g == [i \in low .. top |->
                     IF i = low THEN WithChild(at[low], path[low + 1], f[low + 1]) ELSE f[i]]
  <2>2. ASSUME NEW i \in low .. top
        PROVE  g[i] = IF i = top THEN value ELSE WithChild(at[i], path[i + 1], g[i + 1])
    <3>1. CASE i = low
      <4>1. i # top /\ low + 1 \in low .. top /\ low + 1 # low
        BY <1>0, <3>1
      <4> HIDE DEF low
      <4> QED
        BY <3>1, <4>1
    <3>2. CASE i # low
      <4>1. i \in top - n .. top /\ (i # top => i + 1 \in low .. top /\ i + 1 # low)
        BY <1>0, <3>2
      <4> HIDE DEF low
      <4>2. g[i] = f[i] /\ (i # top => g[i + 1] = f[i + 1])
        BY <3>2, <4>1
      <4> HIDE DEF g
      <4> QED
        BY <2>1, <4>1, <4>2
    <3> QED
      BY <3>1, <3>2
  <2>3. IsNew(g, n + 1)
    <3>1. g = [i \in low .. top |-> g[i]]
      OBVIOUS
    <3> HIDE DEF g
    <3> QED
      BY <2>2, <3>1
  <2> HIDE DEF g, IsNew
  <2> QED
    BY <2>3
<1>3. T \in SUBSET Nat
  OBVIOUS
<1> HIDE DEF T
<1>4. T = Nat
  BY <1>1, <1>2, <1>3, Induction
<1>5. \E f : IsAll(f)
  <2>1. PICK f : IsNew(f, top)
    BY <1>0, <1>4 DEF T
  <2>2. top - top = 0
    BY <1>0
  <2>3. IsAll(f)
    BY <2>1, <2>2
  <2> QED
    BY <2>3
<1>6. IsAll(new)
  <2> HIDE DEF IsAll
  <2> QED
    BY <1>5, Zenon
<1> HIDE DEF new
<1>8. /\ new[top] = value
      /\ \A i \in 0 .. top - 1 : new[i] = WithChild(at[i], path[i + 1], new[i + 1])
  BY <1>0, <1>6
<1> QED
  BY <1>7, <1>8 DEF at, top

\* From nothing, every step leads to nothing.
LEMMA ChildOfNull ==
  ASSUME NEW step \in Steps
  PROVE  Child(Null, step) = Null
BY DEF Child, Null

\* A walk that gets somewhere has met no Null.
LEMMA LeadsSomewhere ==
  ASSUME NEW node, NEW path \in Seq(Steps), GetNode(node, path) # Null
  PROVE  \A i \in 1 .. Len(path) : Walk(node, path)[i] # Null
<1> DEFINE top == Len(path)
           at == Walk(node, path)
           T == { n \in Nat : n < top => at[top - n] # Null }
<1>0. top \in Nat /\ at[top] # Null
  BY DEF GetNode
<1>1. \A i \in 1 .. top : at[i] = Child(at[i - 1], path[i]) /\ path[i] \in Steps
  BY Walks
<1> HIDE DEF at, top
<1>2. 0 \in T
  BY <1>0
<1>3. ASSUME NEW n \in T PROVE n + 1 \in T
  <2> SUFFICES ASSUME n + 1 < top PROVE at[top - (n + 1)] # Null
    OBVIOUS
  <2> DEFINE m == top - n
  <2>1. m \in 1 .. top /\ m - 1 = top - (n + 1) /\ at[m] # Null
    BY <1>0
  <2> HIDE DEF m, T
  <2>2. at[m - 1] # Null
    BY <1>1, <2>1, ChildOfNull
  <2> QED
    BY <2>1, <2>2
<1>4. T \in SUBSET Nat
  OBVIOUS
<1> HIDE DEF T
<1>5. T = Nat
  BY <1>2, <1>3, <1>4, Induction
<1>6. \A i \in 1 .. top : top - i \in T /\ top - i < top /\ top - (top - i) = i
  BY <1>0, <1>5
<1>7. \A i \in 1 .. top : at[i] # Null
  BY <1>6 DEF T
<1> QED
  BY <1>7 DEF at, top

\* Where there is something at the end of a step, what is put there is what the step
\* then leads to, and steps that part from it lead where they led.
LEMMA ChildPut ==
  ASSUME NEW node, NEW s \in Steps, NEW child, Child(node, s) # Null
  PROVE  /\ Child(WithChild(node, s, child), s) = child
         /\ \A t \in Steps : Part(s, t) => Child(WithChild(node, s, child), t) = Child(node, t)
<1> DEFINE members == node.members
           member == members[s.key]
           elems == member.elems
           kid == IF s.which = -1 THEN child
                  ELSE Array([elems EXCEPT ![s.which + 1] = child])
           new == WithChild(node, s, child)
<1>1. /\ node.type = "object" /\ s.key \in DOMAIN members
      /\ s.which # -1 => member.type = "array" /\ s.which + 1 \in DOMAIN elems
  BY DEF Child
<1>2. /\ new.type = "object" /\ new.members = [members EXCEPT ![s.key] = kid]
  BY DEF WithChild, Object
<1>3. s.which # -1 => /\ kid.type = "array"
                      /\ kid.elems = [elems EXCEPT ![s.which + 1] = child]
  BY DEF Array
<1>4. /\ DOMAIN new.members = DOMAIN members /\ new.members[s.key] = kid
      /\ \A k \in DOMAIN members : k # s.key => new.members[k] = members[k]
  BY <1>1, <1>2
<1>5. s.which # -1 => /\ DOMAIN kid.elems = DOMAIN elems
                      /\ kid.elems[s.which + 1] = child
                      /\ \A i \in DOMAIN elems :
                           i # s.which + 1 => kid.elems[i] = elems[i]
  BY <1>1, <1>3
<1>6. s.which = -1 => kid = child
  OBVIOUS
<1> HIDE DEF new, kid
<1>7. Child(new, s) = child
  BY <1>1, <1>2, <1>3, <1>4, <1>5, <1>6 DEF Child
<1>8. ASSUME NEW t \in Steps, Part(s, t) PROVE Child(new, t) = Child(node, t)
  <2>1. CASE s.key # t.key
    BY <1>1, <1>2, <1>4, <2>1 DEF Child
  <2>2. CASE s.key = t.key
    <3>1. s.which # -1 /\ t.which # -1 /\ t.which + 1 # s.which + 1
      BY <1>8, <2>2 DEF Part, Steps
    <3>2. \A i \in DOMAIN elems : i # s.which + 1 => kid.elems[i] = elems[i]
      BY <1>5, <3>1
    <3> QED
      BY <1>1, <1>2, <1>3, <1>4, <1>5, <2>2, <3>1, <3>2 DEF Child
  <2> QED
    BY <2>1, <2>2
<1> QED
  BY <1>7, <1>8 DEF new

\* What the document becomes along the path to the changed node, as far as another path
\* goes with it.
LEMMA AlongPath ==
  ASSUME NEW node, NEW p \in Seq(Steps), NEW value, GetNode(node, p) # Null,
         NEW q \in Seq(Steps), NEW n \in Nat, n <= Len(p), n <= Len(q),
         \A i \in 1 .. n : p[i] = q[i]
  PROVE  \A i \in 0 .. n :
           Walk(Replace(node, p, value), q)[i] = Renewed(node, p, value)[i]
<1> DEFINE old == Walk(node, p)
           new == Renewed(node, p, value)
           at == Walk(Replace(node, p, value), q)
           T == { i \in Nat : i <= n => at[i] = new[i] }
<1>1. at[0] = new[0] /\ \A i \in 1 .. Len(q) : at[i] = Child(at[i - 1], q[i])
  BY Walks DEF Replace
<1>2. \A i \in 0 .. Len(p) - 1 : new[i] = WithChild(old[i], p[i + 1], new[i + 1])
  BY Renews
<1>3. \A i \in 1 .. Len(p) : old[i] = Child(old[i - 1], p[i]) /\ old[i] # Null
  BY Walks, LeadsSomewhere
<1>4. Len(p) \in Nat /\ Len(q) \in Nat /\ \A i \in 1 .. Len(p) : p[i] \in Steps
  OBVIOUS
<1> HIDE DEF old, new, at
<1>5. 0 \in T
  BY <1>1
<1>6. ASSUME NEW i \in T PROVE i + 1 \in T
  <2> DEFINE k == i + 1
  <2> SUFFICES ASSUME k <= n PROVE at[k] = new[k]
    OBVIOUS
  <2>1. at[i] = new[i] /\ i \in 0 .. Len(p) - 1 /\ k \in 1 .. Len(p) /\ k \in 1 .. Len(q)
        /\ k - 1 = i /\ k \in 1 .. n
    BY <1>4
  <2>2. new[i] = WithChild(old[i], p[k], new[k])
    BY <1>2, <2>1
  <2> HIDE DEF k, T
  <2>3. at[k] = Child(WithChild(old[i], p[k], new[k]), p[k])
    BY <1>1, <2>1, <2>2
  <2>4. Child(old[i], p[k]) # Null /\ p[k] \in Steps
    BY <1>3, <1>4, <2>1
  <2> QED
    BY <2>3, <2>4, ChildPut
<1>7. T \in SUBSET Nat
  OBVIOUS
<1> HIDE DEF T
<1>8. T = Nat
  BY <1>5, <1>6, <1>7, Induction
<1> QED
  BY <1>8 DEF T, at, new

\* At the end of the path is the value that was put there.
LEMMA AtPath ==
  ASSUME NEW node, NEW p \in Seq(Steps), NEW value, GetNode(node, p) # Null
  PROVE  GetNode(Replace(node, p, value), p) = value
<1>1. Len(p) \in Nat /\ Len(p) \in 0 .. Len(p)
  OBVIOUS
<1>2. Walk(Replace(node, p, value), p)[Len(p)] = Renewed(node, p, value)[Len(p)]
  BY <1>1, AlongPath
<1>3. Renewed(node, p, value)[Len(p)] = value
  <2>1. /\ Renewed(node, p, value)[Len(p)] = value
        /\ \A i \in 0 .. Len(p) - 1 :
             Renewed(node, p, value)[i] =
               WithChild(Walk(node, p)[i], p[i + 1], Renewed(node, p, value)[i + 1])
    BY Renews
  <2> QED
    BY <2>1
<1> QED
  BY <1>2, <1>3 DEF GetNode

\* At the end of a path that parts from it is what was there before.
LEMMA OffPath ==
  ASSUME NEW node, NEW p \in Seq(Steps), NEW value, GetNode(node, p) # Null,
         NEW q \in Seq(Steps), Apart(p, q)
  PROVE  GetNode(Replace(node, p, value), q) = GetNode(node, q)
<1> DEFINE old == Walk(node, p)
           new == Renewed(node, p, value)
           was == Walk(node, q)
           at == Walk(Replace(node, p, value), q)
<1>1. PICK i \in DOMAIN p \cap DOMAIN q :
        SubSeq(p, 1, i - 1) = SubSeq(q, 1, i - 1) /\ Part(p[i], q[i])
  BY DEF Apart
<1> DEFINE n == i - 1
<1>2. /\ i \in 1 .. Len(p) /\ i \in 1 .. Len(q) /\ n \in Nat /\ n + 1 = i
      /\ n \in 0 .. Len(p) - 1 /\ n <= Len(p) /\ n <= Len(q)
      /\ Len(p) \in Nat /\ Len(q) \in Nat
      /\ p[i] \in Steps /\ q[i] \in Steps
  OBVIOUS
<1>3. \A j \in 1 .. n : p[j] = q[j]
  <2>1. ASSUME NEW j \in 1 .. n
        PROVE  SubSeq(p, 1, n)[j] = p[j] /\ SubSeq(q, 1, n)[j] = q[j]
    BY <1>2
  <2> QED
    BY <1>1, <2>1
<1>4. at[n] = new[n]
  <2> HIDE DEF n
  <2>1. n \in 0 .. n
    BY <1>2
  <2> QED
    BY <1>2, <1>3, <2>1, AlongPath
<1>5. was[n] = old[n]
  <2> DEFINE T == { j \in Nat : j <= n => was[j] = old[j] }
  <2>1. 0 \in T
    BY Walks
  <2>2. ASSUME NEW j \in T PROVE j + 1 \in T
    <3> SUFFICES ASSUME j + 1 <= n PROVE was[j + 1] = old[j + 1]
      OBVIOUS
    <3>1. /\ was[j] = old[j] /\ j + 1 \in 1 .. n /\ j + 1 \in 1 .. Len(p)
          /\ j + 1 \in 1 .. Len(q) /\ (j + 1) - 1 = j
      BY <1>2
    <3> HIDE DEF T
    <3>2. /\ was[j + 1] = Child(was[(j + 1) - 1], q[j + 1])
          /\ old[j + 1] = Child(old[(j + 1) - 1], p[j + 1])
      BY <3>1, Walks
    <3> HIDE DEF was, old, n
    <3> QED
      BY <1>3, <3>1, <3>2
  <2>3. T \in SUBSET Nat
    OBVIOUS
  <2> HIDE DEF T
  <2>4. T = Nat
    BY <2>1, <2>2, <2>3, Induction
  <2>5. n \in T /\ n <= n
    BY <1>2, <2>4
  <2> HIDE DEF n
  <2> QED
    BY <2>5 DEF T
<1>6. at[i] = was[i]
  <2>1. at[i] = Child(at[n], q[i]) /\ was[i] = Child(was[n], q[i])
    BY <1>2, Walks
  <2>2. old[i] = Child(old[n], p[i]) /\ old[i] # Null
    BY <1>2, Walks, LeadsSomewhere
  <2>3. new[n] = WithChild(old[n], p[i], new[n + 1])
    BY <1>2, Renews
  <2> HIDE DEF at, was, old, new, n
  <2>4. Child(WithChild(old[n], p[i], new[n + 1]), q[i]) = Child(old[n], q[i])
    BY <1>1, <1>2, <2>2, ChildPut
  <2> QED
    BY <1>4, <1>5, <2>1, <2>3, <2>4
<1>7. at[Len(q)] = was[Len(q)]
  <2> DEFINE T == { j \in Nat : i + j <= Len(q) => at[i + j] = was[i + j] }
  <2>1. 0 \in T
    BY <1>2, <1>6
  <2>2. ASSUME NEW j \in T PROVE j + 1 \in T
    <3> DEFINE k == i + (j + 1)
    <3> SUFFICES ASSUME k <= Len(q) PROVE at[k] = was[k]
      OBVIOUS
    <3>1. at[k - 1] = was[k - 1] /\ k \in 1 .. Len(q)
      <4>1. k - 1 = i + j /\ i + j <= Len(q) /\ k \in 1 .. Len(q)
        BY <1>2
      <4> QED
        BY <4>1
    <3> HIDE DEF T, k
    <3>2. at[k] = Child(at[k - 1], q[k]) /\ was[k] = Child(was[k - 1], q[k])
      BY <3>1, Walks
    <3> HIDE DEF at, was
    <3> QED
      BY <3>1, <3>2
  <2>3. T \in SUBSET Nat
    OBVIOUS
  <2> HIDE DEF T
  <2>4. T = Nat
    BY <2>1, <2>2, <2>3, Induction
  <2> DEFINE rest == Len(q) - i
  <2>5. rest \in T /\ i + rest = Len(q) /\ i + rest <= Len(q)
    BY <1>2, <2>4
  <2> HIDE DEF at, was, rest
  <2>6. at[i + rest] = was[i + rest]
    BY <2>5 DEF T
  <2> QED
    BY <2>5, <2>6
<1> QED
  BY <1>7 DEF GetNode

\* Whatever earlier calls have made of the document, set_value changes the value its path
\* leads to, which get_value of the same type then returns, and no value on a path that
\* parts from it: the price does not end up in another order of the same reply.
THEOREM SetsInPlace == JsonSpec => SetIsLocal
<1> DEFINE Local ==
             \A p \in Path, type \in Types, n \in Number :
               SetValue(p, type, n) =>
                 /\ GetValue(type, GetNode(doc', p)) = {n}
                 /\ \A q \in Path : Apart(p, q) => GetNode(doc', q) = GetNode(doc, q)
<1>1. Local
  <2> SUFFICES ASSUME NEW p \in Path, NEW type \in Types, NEW n \in Number,
                      SetValue(p, type, n)
               PROVE  /\ GetValue(type, GetNode(doc', p)) = {n}
                      /\ \A q \in Path : Apart(p, q) => GetNode(doc', q) = GetNode(doc, q)
    OBVIOUS
  <2>1. /\ Fits(type, n) /\ GetNode(doc, p) # Null
        /\ doc' = Replace(doc, p, Stored(type, n))
    BY DEF SetValue
  <2>2. p \in Seq(Steps)
    BY JsonAssumption DEF Steps
  <2>3. GetNode(doc', p) = Stored(type, n)
    <3> DEFINE value == Stored(type, n)
    <3> HIDE DEF value
    <3>1. GetNode(Replace(doc, p, value), p) = value
      BY <2>1, <2>2, AtPath
    <3> QED
      BY <2>1, <3>1 DEF value
  <2>4. GetValue(type, Stored(type, n)) = {n}
    BY <2>1 DEF GetValue, Stored, Scalar, Types, Fits
  <2>5. ASSUME NEW q \in Path, Apart(p, q) PROVE GetNode(doc', q) = GetNode(doc, q)
    <3> DEFINE value == Stored(type, n)
    <3>1. q \in Seq(Steps)
      BY JsonAssumption DEF Steps
    <3> HIDE DEF value
    <3>2. GetNode(Replace(doc, p, value), q) = GetNode(doc, q)
      BY <2>1, <2>2, <2>5, <3>1, OffPath
    <3> QED
      BY <2>1, <3>2 DEF value
  <2> QED
    BY <2>3, <2>4, <2>5
<1> QED
  BY <1>1, PTL DEF JsonSpec, SetIsLocal

\* get_value returns the number that is there, quoted or not, through whichever type it
\* is asked for, but for a quoted fraction read as a whole number.
THEOREM ReadsTheNumber == JsonSpec => []SameNumber
<1>1. SameNumber
  <2> SUFFICES ASSUME NEW p \in Path, NEW type \in Types
               PROVE  LET node == GetNode(doc, p) IN
                        \A n \in GetValue(type, node) :
                          n = node.num \/ (node.type = "text" /\ type \in {"int", "int64"})
    BY DEF SameNumber
  <2> QED
    BY DEF GetValue, Types
<1> QED
  BY <1>1, PTL
=============================================================================
