--------------------------- MODULE IndicatorProofs ---------------------------
(* The three time windows of the indicator stay aligned with the list of minutes,
   and what run_strategy decides by is that of closed minutes: for any capacity,
   any number of minutes and any prices.                                       *)
EXTENDS Indicator, SequenceTheorems, TLAPS

(* One time window of n places, whatever its n. *)
Ring(w, n) ==
  /\ w = [arr |-> w.arr, index |-> w.index, size |-> w.size, full |-> w.full,
          first |-> w.first]
  /\ DOMAIN w.arr = 0 .. n - 1
  /\ w.index \in 0 .. n - 1 /\ w.full \in BOOLEAN /\ w.first \in BOOLEAN

At(w, n, k) == w.arr[(w.index + n - 1 - k) % n]

\* It has been put one element for each place of s, a list of m, and holds the last n.
Shows(w, n, m, s) ==
  /\ Ring(w, n) /\ m \in Nat
  /\ w.size = (IF m < n THEN m ELSE n)
  /\ (w.full <=> w.size = n) /\ (w.first <=> w.size = 0)
  /\ w.full \/ w.index = m
  /\ \A k \in 0 .. w.size - 1 : At(w, n, k) = s[m - k]

Added(w, n, e) ==
  [arr   |-> [w.arr EXCEPT ![w.index] = e],
   index |-> (w.index + 1) % n,
   size  |-> IF w.full THEN w.size ELSE w.size + 1,
   full  |-> w.full \/ w.index + 1 = n,
   first |-> FALSE]

Rewritten(w, n, e) == [w EXCEPT !.arr[(w.index + n - 1) % n] = e]

\* Arithmetic modulo the capacity, up to twice the capacity.
LEMMA Modulo ==
  ASSUME NEW n \in Nat \ {0}, NEW i \in 0 .. 2 * n - 1
  PROVE  /\ i % n = IF i < n THEN i ELSE i - n
         /\ i % n \in 0 .. n - 1
  OBVIOUS

\* The place of the k-th newest element.
Place(index, n, k) == IF index > k THEN index - 1 - k ELSE index + n - 1 - k

LEMMA Places ==
  ASSUME NEW n \in Nat \ {0}, NEW index \in 0 .. n - 1, NEW k \in 0 .. n - 1
  PROVE  /\ (index + n - 1 - k) % n = Place(index, n, k)
         /\ Place(index, n, k) \in 0 .. n - 1
<1>1. index + n - 1 - k \in 0 .. 2 * n - 1
  OBVIOUS
<1> DEFINE i == index + n - 1 - k
<1>2. i % n = IF i < n THEN i ELSE i - n
  <2> HIDE DEF i
  <2> QED
    BY <1>1, Modulo DEF i
<1> QED
  BY <1>2 DEF Place

LEMMA AddShows ==
  ASSUME NEW n \in Nat \ {0}, NEW m, NEW w, NEW e, NEW s, NEW t, Shows(w, n, m, s),
         \A i \in 1 .. m : t[i] = s[i], t[m + 1] = e
  PROVE  Shows(Added(w, n, e), n, m + 1, t)
<1> DEFINE a == Added(w, n, e)
<1>0. /\ Ring(w, n) /\ m \in Nat /\ w.size \in 0 .. n
      /\ w.size = (IF m < n THEN m ELSE n)
      /\ (w.full <=> w.size = n) /\ (w.first <=> w.size = 0)
      /\ w.full \/ w.index = m
      /\ w.index \in 0 .. n - 1 /\ DOMAIN w.arr = 0 .. n - 1 /\ w.full \in BOOLEAN
  BY DEF Shows, Ring
<1>1. /\ a.arr = [w.arr EXCEPT ![w.index] = e] /\ a.index = (w.index + 1) % n
      /\ a.size = (IF w.full THEN w.size ELSE w.size + 1)
      /\ a.full \in BOOLEAN /\ (a.full <=> w.full \/ w.index + 1 = n)
      /\ a.first \in BOOLEAN /\ ~ a.first
      /\ a = [arr |-> a.arr, index |-> a.index, size |-> a.size, full |-> a.full,
              first |-> a.first]
  BY DEF Added
<1> HIDE DEF a
<1>2. a.index = (IF w.index + 1 = n THEN 0 ELSE w.index + 1) /\ a.index \in 0 .. n - 1
  <2>1. w.index + 1 \in 0 .. 2 * n - 1
    BY <1>0
  <2> DEFINE i == w.index + 1
  <2>2. i % n = IF i < n THEN i ELSE i - n
    <3> HIDE DEF i
    <3> QED
      BY <2>1, Modulo DEF i
  <2> QED
    BY <1>0, <1>1, <2>2
<1>3. Ring(a, n)
  BY <1>0, <1>1, <1>2 DEF Ring
<1>4. /\ a.size = (IF m + 1 < n THEN m + 1 ELSE n)
      /\ (a.full <=> a.size = n) /\ (a.first <=> a.size = 0)
      /\ a.full \/ a.index = m + 1
  <2>1. a.size = (IF m + 1 < n THEN m + 1 ELSE n)
    BY <1>0, <1>1
  <2>2. a.full <=> a.size = n
    BY <1>0, <1>1
  <2>3. a.first <=> a.size = 0
    BY <1>0, <1>1
  <2>4. a.full \/ a.index = m + 1
    BY <1>0, <1>1, <1>2
  <2> QED
    BY <2>1, <2>2, <2>3, <2>4
<1>5. ASSUME NEW k \in 0 .. a.size - 1 PROVE At(a, n, k) = t[m + 1 - k]
  <2>1. k \in 0 .. n - 1
    BY <1>0, <1>4
  <2>2. At(a, n, k) = a.arr[Place(a.index, n, k)] /\ Place(a.index, n, k) \in 0 .. n - 1
    BY <1>2, <2>1, Places DEF At
  <2>3. CASE k = 0
    <3>1. Place(a.index, n, k) = w.index
      BY <1>0, <1>2, <2>3 DEF Place
    <3> QED
      BY <1>0, <1>1, <2>2, <2>3, <3>1
  <2>4. CASE k > 0
    <3> DEFINE j == k - 1
    <3>1. j \in 0 .. w.size - 1 /\ j \in 0 .. n - 1
      BY <1>0, <1>1, <1>4, <2>1, <2>4
    <3>2. Place(a.index, n, k) = Place(w.index, n, j) /\ Place(w.index, n, j) # w.index
      BY <1>0, <1>2, <2>1, <2>4 DEF Place
    <3>3. At(w, n, j) = w.arr[Place(w.index, n, j)]
      BY <1>0, <3>1, Places DEF At
    <3>4. At(w, n, j) = s[m - j]
      BY <3>1 DEF Shows
    <3>5. At(a, n, k) = w.arr[Place(w.index, n, j)]
      BY <1>0, <1>1, <2>2, <3>2
    <3>6. m - j \in 1 .. m /\ m - j = m + 1 - k
      BY <1>0, <3>1, <2>4
    <3> QED
      BY <3>3, <3>4, <3>5, <3>6
  <2> QED
    BY <2>1, <2>3, <2>4
<1> QED
  BY <1>0, <1>3, <1>4, <1>5 DEF Shows, a

LEMMA RewriteFields ==
  ASSUME NEW n, NEW w, NEW e, Ring(w, n)
  PROVE  Rewritten(w, n, e) =
           [arr |-> [w.arr EXCEPT ![(w.index + n - 1) % n] = e], index |-> w.index,
            size |-> w.size, full |-> w.full, first |-> w.first]
<1> DEFINE i == (w.index + n - 1) % n
           v == [arr |-> w.arr, index |-> w.index, size |-> w.size, full |-> w.full,
                 first |-> w.first]
<1>1. Rewritten(w, n, e) = [w EXCEPT !.arr[i] = e]
  BY DEF Rewritten
<1> HIDE DEF i
<1>2. [v EXCEPT !.arr[i] = e] =
        [arr |-> [w.arr EXCEPT ![i] = e], index |-> w.index, size |-> w.size,
         full |-> w.full, first |-> w.first]
  OBVIOUS
<1>3. w = v
  BY DEF Ring
<1> HIDE DEF v
<1>4. Rewritten(w, n, e) =
        [arr |-> [w.arr EXCEPT ![i] = e], index |-> w.index, size |-> w.size,
         full |-> w.full, first |-> w.first]
  BY <1>1, <1>2, <1>3
<1> QED
  BY <1>4 DEF i

LEMMA RewriteShows ==
  ASSUME NEW n \in Nat \ {0}, NEW m, NEW w, NEW e, NEW s, NEW t, Shows(w, n, m, s),
         m > 0, \A i \in 1 .. m - 1 : t[i] = s[i], t[m] = e
  PROVE  Shows(Rewritten(w, n, e), n, m, t)
<1> DEFINE a == Rewritten(w, n, e)
<1>0. /\ Ring(w, n) /\ m \in Nat /\ w.size \in 0 .. n
      /\ w.size = (IF m < n THEN m ELSE n)
      /\ (w.full <=> w.size = n) /\ (w.first <=> w.size = 0)
      /\ w.full \/ w.index = m
      /\ w.index \in 0 .. n - 1 /\ DOMAIN w.arr = 0 .. n - 1 /\ w.full \in BOOLEAN
      /\ 0 \in 0 .. n - 1
  BY DEF Shows, Ring
<1>1. /\ a.arr = [w.arr EXCEPT ![(w.index + n - 1) % n] = e]
      /\ a.index = w.index /\ a.size = w.size /\ a.full = w.full /\ a.first = w.first
      /\ a = [arr |-> a.arr, index |-> a.index, size |-> a.size, full |-> a.full,
              first |-> a.first]
  <2> DEFINE i == (w.index + n - 1) % n
  <2>1. a = [arr |-> [w.arr EXCEPT ![i] = e], index |-> w.index, size |-> w.size,
             full |-> w.full, first |-> w.first]
    BY <1>0, RewriteFields
  <2> HIDE DEF a, i
  <2>2. /\ a.arr = [w.arr EXCEPT ![i] = e]
        /\ a.index = w.index /\ a.size = w.size /\ a.full = w.full /\ a.first = w.first
        /\ a = [arr |-> a.arr, index |-> a.index, size |-> a.size, full |-> a.full,
                first |-> a.first]
    BY <2>1
  <2> QED
    BY <2>2 DEF i
<1> HIDE DEF a
<1>2. (w.index + n - 1) % n = Place(w.index, n, 0) /\ Place(w.index, n, 0) \in 0 .. n - 1
  <2>1. (w.index + n - 1 - 0) % n = Place(w.index, n, 0)
        /\ Place(w.index, n, 0) \in 0 .. n - 1
    BY <1>0, Places
  <2>2. w.index + n - 1 - 0 = w.index + n - 1
    BY <1>0
  <2> QED
    BY <2>1, <2>2
<1>3. Ring(a, n)
  BY <1>0, <1>1 DEF Ring
<1>4. ASSUME NEW k \in 0 .. a.size - 1 PROVE At(a, n, k) = t[m - k]
  <2>1. k \in 0 .. n - 1 /\ k \in 0 .. w.size - 1
    BY <1>0, <1>1
  <2>2. /\ At(a, n, k) = a.arr[Place(w.index, n, k)]
        /\ At(w, n, k) = w.arr[Place(w.index, n, k)]
        /\ Place(w.index, n, k) \in 0 .. n - 1
    <3>1. /\ (w.index + n - 1 - k) % n = Place(w.index, n, k)
          /\ Place(w.index, n, k) \in 0 .. n - 1
      BY <1>0, <2>1, Places
    <3> HIDE DEF Place
    <3> QED
      BY <1>1, <3>1 DEF At
  <2>3. CASE k = 0
    BY <1>0, <1>1, <1>2, <2>2, <2>3
  <2>4. CASE k > 0
    <3>1. Place(w.index, n, k) # Place(w.index, n, 0)
      BY <1>0, <2>1, <2>4 DEF Place
    <3>2. At(w, n, k) = s[m - k]
      BY <2>1 DEF Shows
    <3>3. m - k \in 1 .. m - 1
      BY <1>0, <2>1, <2>4
    <3>4. a.arr[Place(w.index, n, k)] = w.arr[Place(w.index, n, k)]
      BY <1>0, <1>1, <1>2, <2>2, <3>1
    <3> QED
      BY <2>2, <3>2, <3>3, <3>4
  <2> QED
    BY <2>1, <2>3, <2>4
<1> QED
  BY <1>0, <1>1, <1>3, <1>4 DEF Shows, a

LEMMA EmptyShows ==
  ASSUME NEW n \in Nat \ {0}, NEW w, NEW s, NEW t, Shows(w, n, 0, s)
  PROVE  Shows(w, n, 0, t)
  BY DEF Shows

\* TimeWindow's put.
PutIn(w, n, time, val) ==
  LET e == [time |-> time, val |-> val] IN
    IF w.first \/ At(w, n, 0).time < time THEN Added(w, n, e)
    ELSE IF At(w, n, 0).time = time THEN Rewritten(w, n, e)
    ELSE w
-----------------------------------------------------------------------------
(* The list of minutes and what each window is to hold of it.  A window that is put
   one element for each minute from the f-th on has been put Past(b, f).        *)
Past(b, f) == IF Len(b) < f THEN 0 ELSE Len(b) - f + 1

ROCAt(b, i)   == ROC(b[i].close, b[i - COUNT + 1].close)
MAROCAt(b, i) == MAROC([j \in 1 .. AVG_NUM |-> [val |-> ROCAt(b, i - j + 1)]])

First == COUNT + AVG_NUM - 1
Minutes(b) == [i \in 1 .. Past(b, 1) |-> [time |-> b[i].time, val |-> b[i].close]]
Rocs(b)    == [i \in 1 .. Past(b, COUNT) |->
                 [time |-> b[i + COUNT - 1].time, val |-> ROCAt(b, i + COUNT - 1)]]
Marocs(b)  == [i \in 1 .. Past(b, First) |->
                 [time |-> b[i + First - 1].time, val |-> MAROCAt(b, i + First - 1)]]

\* c is b after the kline k.
Follows(b, c, k) ==
  /\ Len(b) \in Nat /\ Len(c) \in Nat /\ k.time \in Nat
  /\ Len(b) > 0 => b[Len(b)].time \in Nat
  /\ \/ /\ Len(c) = Len(b) + 1 /\ \A i \in 1 .. Len(b) : c[i] = b[i]
        /\ c[Len(c)] = k /\ (Len(b) > 0 => b[Len(b)].time < k.time)
     \/ /\ Len(b) > 0 /\ Len(c) = Len(b) /\ \A i \in 1 .. Len(b) - 1 : c[i] = b[i]
        /\ c[Len(c)] = k /\ b[Len(b)].time = k.time
     \/ Len(b) > 0 /\ c = b /\ b[Len(b)].time > k.time

\* t is made of c as s of b: an element depends on its minute and those before.
Alike(s, t, b, c, f) ==
  /\ \A i \in 1 .. Past(b, f) : s[i].time = b[i + f - 1].time
  /\ \A i \in 1 .. Past(b, f) :
       i + f - 1 <= Len(c) /\ (\A j \in 1 .. i + f - 1 : c[j] = b[j]) => t[i] = s[i]

LEMMA PutFollows ==
  ASSUME NEW n \in Nat \ {0}, NEW f \in Nat \ {0}, NEW w, NEW s, NEW t, NEW b, NEW c,
         NEW k, NEW val, Follows(b, c, k), Len(c) >= f, Shows(w, n, Past(b, f), s),
         Alike(s, t, b, c, f),
         c[Len(c)] = k => t[Past(c, f)] = [time |-> k.time, val |-> val]
  PROVE  Shows(PutIn(w, n, k.time, val), n, Past(c, f), t)
<1> DEFINE e == [time |-> k.time, val |-> val]
           m == Past(b, f)
<1>0. /\ m \in Nat /\ Len(b) \in Nat /\ Len(c) \in Nat /\ k.time \in Nat
      /\ w.first <=> m = 0
      /\ m > 0 => At(w, n, 0) = s[m] /\ s[m].time = b[Len(b)].time
  <2>1. m \in Nat /\ Len(b) \in Nat /\ Len(c) \in Nat /\ k.time \in Nat
    BY DEF Follows, Past
  <2>2. w.first <=> m = 0
    BY <2>1 DEF Shows
  <2>3. ASSUME m > 0 PROVE At(w, n, 0) = s[m]
    <3>1. 0 \in 0 .. w.size - 1 /\ m - 0 = m
      BY <2>1, <2>3 DEF Shows
    <3> HIDE DEF m
    <3>2. At(w, n, 0) = s[m - 0]
      BY <3>1 DEF Shows, m
    <3> QED
      BY <3>1, <3>2
  <2>4. ASSUME m > 0 PROVE s[m].time = b[Len(b)].time
    <3>1. m \in 1 .. Past(b, f) /\ m + f - 1 = Len(b)
      BY <2>1, <2>4 DEF Past
    <3> QED
      BY <3>1 DEF Alike
  <2> QED
    BY <2>1, <2>2, <2>3, <2>4
<1>1. CASE /\ Len(c) = Len(b) + 1 /\ \A i \in 1 .. Len(b) : c[i] = b[i]
           /\ c[Len(c)] = k /\ (Len(b) > 0 => b[Len(b)].time < k.time)
  <2>1. Past(c, f) = m + 1 /\ (m > 0 => Len(b) > 0)
    BY <1>0, <1>1 DEF Past
  <2>2. PutIn(w, n, k.time, val) = Added(w, n, e)
    <3> HIDE DEF m
    <3> QED
      BY <1>0, <1>1, <2>1 DEF PutIn
  <2>3. ASSUME NEW i \in 1 .. m PROVE t[i] = s[i]
    <3>1. i \in 1 .. Past(b, f) /\ i + f - 1 <= Len(b) /\ i + f - 1 \in Nat
      BY <1>0 DEF Past
    <3>2. i + f - 1 <= Len(c) /\ \A j \in 1 .. i + f - 1 : c[j] = b[j]
      BY <1>0, <1>1, <3>1
    <3> QED
      BY <3>1, <3>2 DEF Alike
  <2>4. t[m + 1] = e
    BY <1>1, <2>1
  <2> HIDE DEF m, e
  <2>5. Shows(w, n, m, s)
    BY DEF m
  <2>6. Shows(Added(w, n, e), n, m + 1, t)
    BY <2>3, <2>4, <2>5, AddShows
  <2> QED
    BY <2>1, <2>2, <2>6
<1>2. CASE /\ Len(b) > 0 /\ Len(c) = Len(b) /\ \A i \in 1 .. Len(b) - 1 : c[i] = b[i]
           /\ c[Len(c)] = k /\ b[Len(b)].time = k.time
  <2>1. Past(c, f) = m /\ m > 0
    BY <1>0, <1>2 DEF Past
  <2>2. PutIn(w, n, k.time, val) = Rewritten(w, n, e)
    <3> HIDE DEF m
    <3> QED
      BY <1>0, <1>2, <2>1 DEF PutIn
  <2>3. ASSUME NEW i \in 1 .. m - 1 PROVE t[i] = s[i]
    <3>1. i \in 1 .. Past(b, f) /\ i + f - 1 <= Len(b) - 1 /\ i + f - 1 \in Nat
      BY <1>0 DEF Past
    <3>2. i + f - 1 <= Len(c) /\ \A j \in 1 .. i + f - 1 : c[j] = b[j]
      BY <1>0, <1>2, <3>1
    <3> QED
      BY <3>1, <3>2 DEF Alike
  <2>4. t[m] = e
    BY <1>2, <2>1
  <2> HIDE DEF m, e
  <2>5. Shows(w, n, m, s)
    BY DEF m
  <2>6. Shows(Rewritten(w, n, e), n, m, t)
    BY <2>1, <2>3, <2>4, <2>5, RewriteShows
  <2> QED
    BY <2>1, <2>2, <2>6
<1>3. CASE Len(b) > 0 /\ c = b /\ b[Len(b)].time > k.time
  <2>1. Past(c, f) = m /\ m > 0
    BY <1>0, <1>3 DEF Past
  <2>2. PutIn(w, n, k.time, val) = w
    <3>1. b[Len(b)].time \in Nat
      BY <1>3 DEF Follows
    <3> HIDE DEF m
    <3> QED
      BY <1>0, <1>3, <2>1, <3>1 DEF PutIn
  <2>3. ASSUME NEW i \in 1 .. m PROVE t[i] = s[i]
    <3>1. i \in 1 .. Past(b, f) /\ i + f - 1 <= Len(c)
      BY <1>0, <1>3 DEF Past
    <3> QED
      BY <1>3, <3>1 DEF Alike
  <2>4. Shows(w, n, m, t)
    <3> HIDE DEF m
    <3>1. Shows(w, n, m, s)
      BY DEF m
    <3>2. ASSUME NEW i \in 0 .. w.size - 1 PROVE At(w, n, i) = t[m - i]
      <4>1. m - i \in 1 .. m
        BY <1>0, <3>1 DEF Shows
      <4> QED
        BY <2>3, <3>1, <4>1 DEF Shows
    <3> QED
      BY <3>1, <3>2 DEF Shows
  <2> QED
    BY <2>1, <2>2, <2>4
<1> QED
  BY <1>1, <1>2, <1>3 DEF Follows
-----------------------------------------------------------------------------
(* What is put. *)
LEMMA Constants ==
  /\ COUNT \in Nat \ {0} /\ AVG_NUM \in Nat \ {0} /\ Capacity \in Nat \ {0}
  /\ AVG_NUM < Capacity /\ First \in Nat \ {0} /\ 1 \in Nat \ {0}
  BY IndicatorAssumption DEF First

\* The ROC the code computes from a full window is that of the newest minute.
LEMMA LatestIs ==
  ASSUME NEW b, NEW w, Len(b) \in Nat, Len(b) >= COUNT,
         Shows(w, COUNT, Past(b, 1), Minutes(b))
  PROVE  LatestROC(w) = ROCAt(b, Len(b))
<1>0. /\ COUNT \in Nat \ {0} /\ Past(b, 1) = Len(b) /\ w.size = COUNT
  BY Constants DEF Past, Shows
<1>1. ASSUME NEW k \in 0 .. COUNT - 1 PROVE W!Get(w, k).val = b[Len(b) - k].close
  <2>1. At(w, COUNT, k) = Minutes(b)[Len(b) - k]
    BY <1>0 DEF Shows
  <2>2. Len(b) - k \in 1 .. Past(b, 1)
    BY <1>0
  <2>3. Minutes(b)[Len(b) - k].val = b[Len(b) - k].close
    BY <2>2 DEF Minutes
  <2> QED
    BY <2>1, <2>3 DEF At, W!Get
<1>2. W!Get(w, 0).val = b[Len(b)].close
  BY <1>0, <1>1
<1>3. W!Get(w, COUNT - 1).val = b[Len(b) - COUNT + 1].close
  <2>1. W!Get(w, COUNT - 1).val = b[Len(b) - (COUNT - 1)].close
    BY <1>0, <1>1
  <2>2. Len(b) - (COUNT - 1) = Len(b) - COUNT + 1
    BY <1>0
  <2> QED
    BY <2>1, <2>2
<1> QED
  BY <1>2, <1>3 DEF LatestROC, ROCAt

\* MAROC reads nothing but the values.
LEMMA SameMAROC ==
  ASSUME NEW x, NEW y, NEW n \in Nat, DOMAIN x = 1 .. n, DOMAIN y = 1 .. n,
         \A i \in 1 .. n : x[i].val = y[i].val
  PROVE  MAROC(x) = MAROC(y)
<1>1. [i \in DOMAIN x |-> x[i].val] = [i \in DOMAIN y |-> y[i].val]
  OBVIOUS
<1> QED
  BY <1>1 DEF MAROC

\* The MAROC of the last ROCs is that of the newest minute.
LEMMA MarocIs ==
  ASSUME NEW b, NEW w, Len(b) \in Nat, Past(b, COUNT) >= AVG_NUM,
         Shows(w, Capacity, Past(b, COUNT), Rocs(b))
  PROVE  MAROC(R!GetRange(w, 0, AVG_NUM)) = MAROCAt(b, Len(b))
<1> DEFINE x == R!GetRange(w, 0, AVG_NUM)
           y == [j \in 1 .. AVG_NUM |-> [val |-> ROCAt(b, Len(b) - j + 1)]]
           m == Past(b, COUNT)
<1>0. /\ COUNT \in Nat \ {0} /\ AVG_NUM \in Nat \ {0} /\ Capacity \in Nat \ {0}
      /\ AVG_NUM < Capacity /\ m = Len(b) - COUNT + 1 /\ m \in Nat
      /\ w.size >= AVG_NUM /\ w.size \in Nat /\ w.index \in Nat
  BY Constants DEF Past, Shows, Ring
<1>1. DOMAIN x = 1 .. AVG_NUM /\ DOMAIN y = 1 .. AVG_NUM
  BY <1>0 DEF R!GetRange
<1>2. ASSUME NEW i \in 1 .. AVG_NUM PROVE x[i].val = y[i].val
  <2> HIDE DEF m
  <2>1. x[i] = w.arr[(0 - (i - 1) + w.index + Capacity - 1) % Capacity]
    BY <1>0, <1>1 DEF R!GetRange
  <2>2. 0 - (i - 1) + w.index + Capacity - 1 = w.index + Capacity - 1 - (i - 1)
    BY <1>0
  <2>3. x[i] = At(w, Capacity, i - 1)
    BY <2>1, <2>2 DEF At
  <2>4. At(w, Capacity, i - 1) = Rocs(b)[m - (i - 1)]
    <3>1. i - 1 \in 0 .. w.size - 1
      BY <1>0
    <3> QED
      BY <3>1 DEF Shows, m
  <2>5. m - (i - 1) \in 1 .. m /\ m - (i - 1) + COUNT - 1 = Len(b) - i + 1
    <3>1. AVG_NUM <= m
      BY DEF m
    <3> QED
      BY <1>0, <3>1
  <2>6. Rocs(b)[m - (i - 1)].val = ROCAt(b, Len(b) - i + 1)
    BY <2>5 DEF Rocs, m
  <2> QED
    BY <2>3, <2>4, <2>6
<1> HIDE DEF x, y
<1>3. MAROC(x) = MAROC(y)
  BY <1>0, <1>1, <1>2, SameMAROC
<1> QED
  BY <1>3 DEF x, y, MAROCAt
-----------------------------------------------------------------------------
(* The lists of the three windows after one more kline. *)
LEMMA ROCAlike ==
  ASSUME NEW b, NEW c, NEW h \in Nat, \A j \in 1 .. h : c[j] = b[j],
         NEW i \in COUNT .. h
  PROVE  ROCAt(c, i) = ROCAt(b, i)
<1>1. i \in 1 .. h /\ i - COUNT + 1 \in 1 .. h
  BY Constants
<1> QED
  BY <1>1 DEF ROCAt

LEMMA MAROCAlike ==
  ASSUME NEW b, NEW c, NEW h \in Nat, \A j \in 1 .. h : c[j] = b[j],
         NEW i \in First .. h
  PROVE  MAROCAt(c, i) = MAROCAt(b, i)
<1>1. ASSUME NEW j \in 1 .. AVG_NUM PROVE ROCAt(c, i - j + 1) = ROCAt(b, i - j + 1)
  <2>1. i - j + 1 \in COUNT .. h
    BY Constants DEF First
  <2> QED
    BY <2>1, ROCAlike
<1>2. [j \in 1 .. AVG_NUM |-> [val |-> ROCAt(c, i - j + 1)]]
        = [j \in 1 .. AVG_NUM |-> [val |-> ROCAt(b, i - j + 1)]]
  BY <1>1
<1> QED
  BY <1>2 DEF MAROCAt

LEMMA MinutesAlike ==
  ASSUME NEW b, NEW c, Len(b) \in Nat, Len(c) \in Nat
  PROVE  Alike(Minutes(b), Minutes(c), b, c, 1)
<1> SUFFICES ASSUME NEW i \in 1 .. Past(b, 1)
             PROVE  /\ Minutes(b)[i].time = b[i + 1 - 1].time
                    /\ i + 1 - 1 <= Len(c) /\ (\A j \in 1 .. i + 1 - 1 : c[j] = b[j])
                         => Minutes(c)[i] = Minutes(b)[i]
  BY DEF Alike
<1>1. i + 1 - 1 = i /\ Past(b, 1) = Len(b) /\ Past(c, 1) = Len(c) /\ i \in 1 .. i
  BY DEF Past
<1> QED
  BY <1>1 DEF Minutes

LEMMA RocsAlike ==
  ASSUME NEW b, NEW c, Len(b) \in Nat, Len(c) \in Nat
  PROVE  Alike(Rocs(b), Rocs(c), b, c, COUNT)
<1> SUFFICES ASSUME NEW i \in 1 .. Past(b, COUNT)
             PROVE  /\ Rocs(b)[i].time = b[i + COUNT - 1].time
                    /\ i + COUNT - 1 <= Len(c)
                         /\ (\A j \in 1 .. i + COUNT - 1 : c[j] = b[j])
                         => Rocs(c)[i] = Rocs(b)[i]
  BY DEF Alike
<1> DEFINE h == i + COUNT - 1
<1>1. h \in Nat /\ h \in 1 .. h /\ h \in COUNT .. h
  BY Constants DEF Past
<1>2. Rocs(b)[i] = [time |-> b[h].time, val |-> ROCAt(b, h)]
  BY DEF Rocs
<1>3. ASSUME h <= Len(c), \A j \in 1 .. h : c[j] = b[j]
      PROVE  Rocs(c)[i] = Rocs(b)[i]
  <2>1. i \in 1 .. Past(c, COUNT)
    BY <1>3, Constants DEF Past
  <2>2. Rocs(c)[i] = [time |-> c[h].time, val |-> ROCAt(c, h)]
    BY <2>1 DEF Rocs
  <2> HIDE DEF h
  <2>3. ROCAt(c, h) = ROCAt(b, h) /\ c[h] = b[h]
    BY <1>1, <1>3, ROCAlike
  <2> QED
    BY <1>2, <2>2, <2>3
<1> QED
  BY <1>2, <1>3

LEMMA MarocsAlike ==
  ASSUME NEW b, NEW c, Len(b) \in Nat, Len(c) \in Nat
  PROVE  Alike(Marocs(b), Marocs(c), b, c, First)
<1> SUFFICES ASSUME NEW i \in 1 .. Past(b, First)
             PROVE  /\ Marocs(b)[i].time = b[i + First - 1].time
                    /\ i + First - 1 <= Len(c)
                         /\ (\A j \in 1 .. i + First - 1 : c[j] = b[j])
                         => Marocs(c)[i] = Marocs(b)[i]
  BY DEF Alike
<1> DEFINE h == i + First - 1
<1>1. h \in Nat /\ h \in 1 .. h /\ h \in First .. h
  BY Constants DEF Past
<1>2. Marocs(b)[i] = [time |-> b[h].time, val |-> MAROCAt(b, h)]
  BY DEF Marocs
<1>3. ASSUME h <= Len(c), \A j \in 1 .. h : c[j] = b[j]
      PROVE  Marocs(c)[i] = Marocs(b)[i]
  <2>1. i \in 1 .. Past(c, First)
    BY <1>3, Constants DEF Past
  <2>2. Marocs(c)[i] = [time |-> c[h].time, val |-> MAROCAt(c, h)]
    BY <2>1 DEF Marocs
  <2> HIDE DEF h
  <2>3. MAROCAt(c, h) = MAROCAt(b, h) /\ c[h] = b[h]
    BY <1>1, <1>3, MAROCAlike
  <2> QED
    BY <1>2, <2>2, <2>3
<1> QED
  BY <1>2, <1>3
-----------------------------------------------------------------------------
(* The inductive invariant. *)
Typed ==
  /\ updated \in BOOLEAN /\ fresh \in BOOLEAN /\ left \in 0 .. MaxKlines
  /\ last \in {"none", "new", "same", "old"}
  /\ bars \in Seq(Kline) /\ Len(bars) <= Newest

Agree ==
  /\ Shows(window, COUNT, Past(bars, 1), Minutes(bars))
  /\ Shows(roc_win, Capacity, Past(bars, COUNT), Rocs(bars))
  /\ Shows(maroc_win, Capacity, Past(bars, First), Marocs(bars))
  /\ Past(bars, First) = 0 => maroc_win = R!New

Told ==
  /\ updated => fresh \/ last = "old"
  /\ fresh /\ Past(bars, First) > 0 /\ ~ updated => last = "same"
  /\ updated => Past(bars, First) > 0

IInv == Typed /\ Agree /\ Told

LEMMA NewShows ==
  ASSUME NEW n \in Nat \ {0}, NEW w, NEW s,
         w = [arr |-> [i \in 0 .. n - 1 |-> [time |-> 0, val |-> 0]], index |-> 0,
              size |-> 0, full |-> FALSE, first |-> TRUE]
  PROVE  Shows(w, n, 0, s)
<1>1. /\ DOMAIN w.arr = 0 .. n - 1 /\ w.index = 0 /\ w.size = 0 /\ ~ w.full /\ w.first
      /\ w.full \in BOOLEAN /\ w.first \in BOOLEAN
      /\ w = [arr |-> w.arr, index |-> w.index, size |-> w.size, full |-> w.full,
              first |-> w.first]
  OBVIOUS
<1> QED
  BY <1>1 DEF Shows, Ring

LEMMA InitInv == Init => IInv
<1> SUFFICES ASSUME Init PROVE IInv
  OBVIOUS
<1>1. bars = <<>> /\ Len(bars) = 0 /\ Newest = 0
  BY DEF Init, Newest
<1>2. Past(bars, 1) = 0 /\ Past(bars, COUNT) = 0 /\ Past(bars, First) = 0
  BY <1>1, Constants DEF Past
<1>3. Typed
  <2>1. bars \in Seq(Kline) /\ Len(bars) <= Newest
    BY <1>1, EmptySeq
  <2>2. left \in 0 .. MaxKlines
    BY IndicatorAssumption DEF Init
  <2> QED
    BY <2>1, <2>2 DEF Typed, Init
<1>4. Agree
  <2>1. Shows(window, COUNT, 0, Minutes(bars))
    BY Constants, NewShows DEF Init, W!New, W!Empty
  <2>2. Shows(roc_win, Capacity, 0, Rocs(bars))
    BY Constants, NewShows DEF Init, R!New, R!Empty
  <2>3. Shows(maroc_win, Capacity, 0, Marocs(bars)) /\ maroc_win = R!New
    BY Constants, NewShows DEF Init, R!New, R!Empty
  <2> QED
    BY <1>2, <2>1, <2>2, <2>3 DEF Agree
<1>5. Told
  BY DEF Told, Init
<1> QED
  BY <1>3, <1>4, <1>5 DEF IInv

\* The list of minutes after one more kline.
LEMMA RecordFollows ==
  ASSUME Typed, NEW k \in Kline, Record(k)
  PROVE  /\ Follows(bars, bars', k) /\ bars' \in Seq(Kline) /\ Len(bars') <= Newest'
         /\ fresh' \in BOOLEAN /\ last' \in {"new", "same", "old"} /\ Len(bars') > 0
         /\ last' = "new" => /\ fresh' /\ Len(bars') = Len(bars) + 1
                             /\ Len(bars) > 0 => k.time > bars[Len(bars)].time
         /\ last' # "new" => /\ fresh' = fresh /\ Len(bars') = Len(bars)
                             /\ Len(bars) > 0 /\ Newest' = Newest
         /\ last' = "same" => k.time = bars[Len(bars)].time
         /\ last' = "old" => k.time < bars[Len(bars)].time
         /\ k.time \in Nat \ {0}
<1>0. /\ bars \in Seq(Kline) /\ Len(bars) \in Nat /\ Len(bars) <= Newest
      /\ k.time \in Nat \ {0} /\ fresh \in BOOLEAN
      /\ Len(bars) > 0 => Newest = bars[Len(bars)].time /\ bars[Len(bars)].time \in Nat
      /\ Len(bars) = 0 => Newest = 0
      /\ Newest \in Nat
  <2>1. bars \in Seq(Kline) /\ Len(bars) \in Nat /\ Len(bars) <= Newest /\ fresh \in BOOLEAN
    BY DEF Typed
  <2>2. k.time \in Nat \ {0}
    BY IndicatorAssumption DEF Kline
  <2>3. ASSUME Len(bars) > 0
        PROVE  Newest = bars[Len(bars)].time /\ bars[Len(bars)].time \in Nat
    <3>1. bars # <<>> /\ bars[Len(bars)] \in Kline
      BY <2>1, <2>3
    <3> QED
      BY <3>1, IndicatorAssumption DEF Newest, Kline
  <2>4. Len(bars) = 0 => Newest = 0
    BY <2>1 DEF Newest
  <2> QED
    BY <2>1, <2>2, <2>3, <2>4
<1>1. CASE k.time > Newest /\ bars' = Append(bars, k) /\ last' = "new" /\ fresh' = TRUE
  <2>1. /\ bars' \in Seq(Kline) /\ Len(bars') = Len(bars) + 1
        /\ \A i \in 1 .. Len(bars) : bars'[i] = bars[i]
        /\ bars'[Len(bars')] = k
    BY <1>0, <1>1
  <2>2. Newest' = k.time
    BY <1>0, <2>1 DEF Newest
  <2>3. Follows(bars, bars', k)
    BY <1>0, <1>1, <2>1 DEF Follows
  <2> QED
    BY <1>0, <1>1, <2>1, <2>2, <2>3
<1>2. CASE k.time = Newest /\ bars' = [bars EXCEPT ![Len(bars)] = k] /\ last' = "same"
           /\ UNCHANGED fresh
  <2>1. Len(bars) > 0
    BY <1>0, <1>2
  <2>2. /\ bars' \in Seq(Kline) /\ Len(bars') = Len(bars)
        /\ \A i \in 1 .. Len(bars) - 1 : bars'[i] = bars[i]
        /\ bars'[Len(bars')] = k
    BY <1>0, <1>2, <2>1
  <2>3. Newest' = k.time
    BY <1>0, <2>1, <2>2 DEF Newest
  <2>4. Follows(bars, bars', k)
    BY <1>0, <1>2, <2>1, <2>2 DEF Follows
  <2> QED
    BY <1>0, <1>2, <2>1, <2>2, <2>3, <2>4
<1>3. CASE k.time < Newest /\ last' = "old" /\ UNCHANGED <<bars, fresh>>
  <2>1. Len(bars) > 0
    BY <1>0, <1>3
  <2>2. Newest' = Newest
    BY <1>3 DEF Newest
  <2>3. Follows(bars, bars', k)
    BY <1>0, <1>3, <2>1 DEF Follows
  <2> QED
    BY <1>0, <1>3, <2>1, <2>2, <2>3
<1> QED
  BY <1>1, <1>2, <1>3 DEF Record

\* Which of the windows a kline reaches, and that each then shows what it is to hold.
LEMMA FeedAgrees ==
  ASSUME Agree, NEW k \in Kline, Follows(bars, bars', k), Len(bars') > 0, Feed(k)
  PROVE  /\ Agree'
         /\ Past(bars', First) = 0 => updated' = updated
         /\ Past(bars', First) > 0 =>
              updated' = (k.time # R!Get(maroc_win, 0).time)
<1> DEFINE c == bars'
<1>0. Len(bars) \in Nat /\ Len(c) \in Nat /\ Len(c) >= 1
  BY DEF Follows
<1>1. Shows(window', COUNT, Past(c, 1), Minutes(c))
  <2>1. window' = PutIn(window, COUNT, k.time, k.close)
    BY DEF Feed, W!Put, PutIn, W!Get, At, W!Add, Added, W!Rewrite, Rewritten
  <2>2. c[Len(c)] = k => Minutes(c)[Past(c, 1)] = [time |-> k.time, val |-> k.close]
    BY <1>0 DEF Minutes, Past
  <2>3. Alike(Minutes(bars), Minutes(c), bars, c, 1)
    BY <1>0, MinutesAlike
  <2>4. Shows(window, COUNT, Past(bars, 1), Minutes(bars))
    BY DEF Agree
  <2> HIDE DEF c
  <2>5. Follows(bars, c, k)
    BY DEF c
  <2>6. Shows(PutIn(window, COUNT, k.time, k.close), COUNT, Past(c, 1), Minutes(c))
    BY <1>0, <2>2, <2>3, <2>4, <2>5, Constants, PutFollows
  <2> QED
    BY <2>1, <2>6
<1>2. W!IsFull(window') <=> Len(c) >= COUNT
  <2> HIDE DEF c
  <2> QED
    BY <1>0, <1>1, Constants DEF Shows, Past, W!IsFull
<1>3. CASE ~ W!IsFull(window')
  <2>1. UNCHANGED <<roc_win, maroc_win, updated>>
    BY <1>3 DEF Feed
  <2>2. /\ Past(bars, COUNT) = 0 /\ Past(c, COUNT) = 0
        /\ Past(bars, First) = 0 /\ Past(c, First) = 0
    BY <1>0, <1>2, <1>3, Constants DEF Past, First, Follows
  <2> HIDE DEF c
  <2>3. Shows(roc_win', Capacity, 0, Rocs(c))
    BY <2>1, <2>2, Constants, EmptyShows DEF Agree
  <2>4. Shows(maroc_win', Capacity, 0, Marocs(c)) /\ maroc_win' = R!New
    BY <2>1, <2>2, Constants, EmptyShows DEF Agree
  <2> QED
    BY <1>1, <2>1, <2>2, <2>3, <2>4 DEF Agree, c, Past
<1>4. CASE W!IsFull(window')
  <2>1. Len(c) >= COUNT
    BY <1>2, <1>4
  <2>2. Shows(roc_win', Capacity, Past(c, COUNT), Rocs(c))
    <3> HIDE DEF c
    <3>1. LatestROC(window') = ROCAt(c, Len(c))
      BY <1>0, <1>1, <2>1, LatestIs
    <3>2. roc_win' = PutIn(roc_win, Capacity, k.time, ROCAt(c, Len(c)))
      BY <1>4, <3>1 DEF Feed, R!Put, PutIn, R!Get, At, R!Add, Added, R!Rewrite, Rewritten
    <3>3. c[Len(c)] = k =>
            Rocs(c)[Past(c, COUNT)] = [time |-> k.time, val |-> ROCAt(c, Len(c))]
      <4>1. Past(c, COUNT) \in 1 .. Past(c, COUNT) /\ Past(c, COUNT) + COUNT - 1 = Len(c)
        BY <1>0, <2>1, Constants DEF Past
      <4> QED
        BY <4>1 DEF Rocs
    <3>4. Alike(Rocs(bars), Rocs(c), bars, c, COUNT)
      BY <1>0, RocsAlike
    <3>5. Follows(bars, c, k) /\ Shows(roc_win, Capacity, Past(bars, COUNT), Rocs(bars))
      BY DEF Agree, c
    <3>6. Shows(PutIn(roc_win, Capacity, k.time, ROCAt(c, Len(c))), Capacity,
                Past(c, COUNT), Rocs(c))
      BY <2>1, <3>3, <3>4, <3>5, Constants, PutFollows
    <3> QED
      BY <3>2, <3>6
  <2>3. R!GetSize(roc_win') >= AVG_NUM <=> Past(c, First) > 0
    <3> HIDE DEF c
    <3> QED
      BY <1>0, <2>1, <2>2, Constants DEF Shows, Past, First, R!GetSize
  <2>4. CASE R!GetSize(roc_win') < AVG_NUM
    <3>1. R!GetSize(roc_win') \in Nat
      BY <2>2, Constants DEF Shows, R!GetSize
    <3>2. UNCHANGED <<maroc_win, updated>>
      BY <1>4, <2>4, <3>1, Constants DEF Feed
    <3>3. Past(c, First) = 0 /\ Past(bars, First) = 0
      BY <1>0, <2>3, <2>4, <3>1, Constants DEF Past, Follows
    <3> HIDE DEF c
    <3>4. Shows(maroc_win', Capacity, 0, Marocs(c)) /\ maroc_win' = R!New
      BY <3>2, <3>3, Constants, EmptyShows DEF Agree
    <3> QED
      BY <1>1, <2>2, <3>2, <3>3, <3>4 DEF Agree, c
  <2>5. CASE R!GetSize(roc_win') >= AVG_NUM
    <3>1. Len(c) >= First /\ Past(c, First) > 0 /\ Past(c, COUNT) >= AVG_NUM
      BY <1>0, <2>3, <2>5, Constants DEF Past, First
    <3>2. /\ updated' = (k.time # R!Get(maroc_win, 0).time)
          /\ maroc_win' = R!Put(maroc_win, k.time, MAROC(R!GetRange(roc_win', 0, AVG_NUM)))
      <4>1. R!GetSize(roc_win') \in Nat
        BY <2>2, Constants DEF Shows, R!GetSize
      <4> QED
        BY <1>4, <2>5, <4>1, Constants DEF Feed
    <3> HIDE DEF c
    <3>3. MAROC(R!GetRange(roc_win', 0, AVG_NUM)) = MAROCAt(c, Len(c))
      BY <1>0, <2>2, <3>1, MarocIs
    <3>4. maroc_win' = PutIn(maroc_win, Capacity, k.time, MAROCAt(c, Len(c)))
      BY <3>2, <3>3 DEF R!Put, PutIn, R!Get, At, R!Add, Added, R!Rewrite, Rewritten
    <3>5. c[Len(c)] = k =>
            Marocs(c)[Past(c, First)] = [time |-> k.time, val |-> MAROCAt(c, Len(c))]
      <4>1. Past(c, First) \in 1 .. Past(c, First) /\ Past(c, First) + First - 1 = Len(c)
        BY <1>0, <3>1, Constants DEF Past
      <4> QED
        BY <4>1 DEF Marocs
    <3>6. Alike(Marocs(bars), Marocs(c), bars, c, First)
      BY <1>0, MarocsAlike
    <3>7. Follows(bars, c, k) /\ Shows(maroc_win, Capacity, Past(bars, First), Marocs(bars))
      BY DEF Agree, c
    <3>8. Shows(PutIn(maroc_win, Capacity, k.time, MAROCAt(c, Len(c))), Capacity,
                Past(c, First), Marocs(c))
      BY <3>1, <3>5, <3>6, <3>7, Constants, PutFollows
    <3>9. Agree'
      BY <1>1, <2>2, <3>1, <3>4, <3>8 DEF Agree, c
    <3> QED
      BY <3>1, <3>2, <3>9 DEF c
  <2> QED
    <3>1. R!GetSize(roc_win') \in Nat
      BY <2>2, Constants DEF Shows, R!GetSize
    <3> QED
      BY <2>4, <2>5, <3>1, Constants
<1> QED
  BY <1>3, <1>4

\* The newest MAROC is that of the newest minute; the place before the first is zero.
LEMMA NewestMAROC ==
  ASSUME Typed, Agree
  PROVE  /\ Past(bars, First) > 0 => R!Get(maroc_win, 0).time = bars[Len(bars)].time
         /\ Past(bars, First) = 0 => R!Get(maroc_win, 0).time = 0
<1>1. ASSUME Past(bars, First) > 0
      PROVE  R!Get(maroc_win, 0).time = bars[Len(bars)].time
  <2>1. Len(bars) \in Nat
    BY DEF Typed
  <2> DEFINE m == Past(bars, First)
  <2>2. m \in Nat /\ m > 0 /\ m + First - 1 = Len(bars) /\ m \in 1 .. m /\ m - 0 = m
    BY <1>1, <2>1, Constants DEF Past
  <2>3. At(maroc_win, Capacity, 0) = Marocs(bars)[m - 0]
    <3> HIDE DEF m
    <3>1. Shows(maroc_win, Capacity, m, Marocs(bars))
      BY DEF Agree, m
    <3>2. 0 \in 0 .. maroc_win.size - 1
      BY <2>2, <3>1, Constants DEF Shows
    <3> QED
      BY <3>1, <3>2 DEF Shows
  <2>4. Marocs(bars)[m].time = bars[m + First - 1].time
    BY <2>2 DEF Marocs
  <2>5. R!Get(maroc_win, 0) = At(maroc_win, Capacity, 0)
    BY DEF R!Get, At
  <2> HIDE DEF m
  <2> QED
    BY <2>2, <2>3, <2>4, <2>5
<1>2. ASSUME Past(bars, First) = 0 PROVE R!Get(maroc_win, 0).time = 0
  <2>1. maroc_win = R!New
    BY <1>2 DEF Agree
  <2>2. maroc_win.index = 0 /\ maroc_win.arr = [i \in 0 .. Capacity - 1 |-> R!Empty]
    BY <2>1 DEF R!New
  <2>3. (0 + Capacity - 1 - 0) % Capacity \in 0 .. Capacity - 1
    <3>1. 0 \in 0 .. Capacity - 1
      BY Constants
    <3> QED
      BY <3>1, Constants, Places
  <2> QED
    BY <2>2, <2>3 DEF R!Get, R!Empty
<1> QED
  BY <1>1, <1>2

LEMMA NextKlineInv == IInv /\ NextKline => IInv'
<1> SUFFICES ASSUME IInv, NextKline PROVE IInv'
  OBVIOUS
<1>0. PICK k \in Kline : Feed(k) /\ Record(k)
  BY DEF NextKline
<1>1. Typed /\ Agree /\ Told
  BY DEF IInv
<1>2. /\ Follows(bars, bars', k) /\ bars' \in Seq(Kline) /\ Len(bars') <= Newest'
      /\ fresh' \in BOOLEAN /\ last' \in {"new", "same", "old"} /\ Len(bars') > 0
      /\ last' = "new" => /\ fresh' /\ Len(bars') = Len(bars) + 1
                          /\ Len(bars) > 0 => k.time > bars[Len(bars)].time
      /\ last' # "new" => fresh' = fresh /\ Len(bars') = Len(bars) /\ Len(bars) > 0
      /\ last' = "same" => k.time = bars[Len(bars)].time
      /\ last' = "old" => k.time < bars[Len(bars)].time
      /\ k.time \in Nat \ {0}
  BY <1>0, <1>1, RecordFollows
<1>3. /\ Agree'
      /\ Past(bars', First) = 0 => updated' = updated
      /\ Past(bars', First) > 0 => updated' = (k.time # R!Get(maroc_win, 0).time)
  BY <1>0, <1>1, <1>2, FeedAgrees
<1>4. /\ Len(bars) \in Nat /\ Len(bars') \in Nat
      /\ Past(bars, First) \in Nat /\ Past(bars', First) \in Nat
      /\ last' # "new" => Past(bars', First) = Past(bars, First)
      /\ Past(bars, First) > 0 => Past(bars', First) > 0 /\ Len(bars) > 0
      /\ Len(bars) > 0 => bars[Len(bars)].time \in Nat
  BY <1>2, Constants DEF Past, Follows
<1>5. updated' \in BOOLEAN
  <2>1. updated \in BOOLEAN
    BY <1>1 DEF Typed
  <2>2. CASE Past(bars', First) = 0
    BY <1>3, <2>1, <2>2
  <2>3. CASE Past(bars', First) > 0
    BY <1>3, <2>3
  <2> QED
    BY <1>4, <2>2, <2>3
<1>6. Typed'
  <2>1. left' \in 0 .. MaxKlines
    BY <1>1, IndicatorAssumption DEF NextKline, Typed
  <2> QED
    BY <1>2, <1>5, <2>1 DEF Typed
<1>7. Told'
  <2>1. CASE Past(bars', First) = 0
    <3>1. updated' = updated /\ ~ updated
      BY <1>1, <1>3, <1>4, <2>1 DEF Told
    <3> QED
      BY <2>1, <3>1 DEF Told
  <2>2. CASE Past(bars', First) > 0
    <3>1. updated' <=> k.time # R!Get(maroc_win, 0).time
      BY <1>3, <2>2
    <3>2. last' = "new" => updated'
      BY <1>1, <1>2, <1>4, <3>1, NewestMAROC
    <3>3. last' = "same" => ~ updated'
      BY <1>1, <1>2, <1>4, <2>2, <3>1, NewestMAROC
    <3>4. last' = "old" => updated'
      BY <1>1, <1>2, <1>4, <2>2, <3>1, NewestMAROC
    <3> QED
      BY <1>2, <2>2, <3>2, <3>3, <3>4 DEF Told
  <2> QED
    BY <1>4, <2>1, <2>2
<1> QED
  BY <1>3, <1>6, <1>7 DEF IInv

LEMMA StepInv == IInv /\ [Next]_vars => IInv'
<1> SUFFICES ASSUME IInv, [Next]_vars PROVE IInv'
  OBVIOUS
<1>1. CASE CalcRocAndMaroc
  <2>1. UNCHANGED <<window, roc_win, maroc_win, bars>>
    BY <1>1 DEF CalcRocAndMaroc
  <2>2. Typed'
    BY <1>1, <2>1 DEF IInv, Typed, CalcRocAndMaroc, Newest
  <2>3. Agree'
    BY <2>1 DEF IInv, Agree
  <2>4. Told'
    BY <1>1 DEF CalcRocAndMaroc, Told
  <2> QED
    BY <2>2, <2>3, <2>4 DEF IInv
<1>2. CASE UNCHANGED vars
  BY <1>2 DEF vars, history, IInv, Typed, Agree, Told, Newest
<1> QED
  BY <1>1, <1>2, NextKlineInv DEF Next

\* In every state the three windows show the minutes, ROCs and MAROCs of the list of
\* minutes (roc_strategy.h calc_roc_and_maroc).
THEOREM Invariance == Spec => []IInv
  BY InitInv, StepInv, PTL DEF Spec
-----------------------------------------------------------------------------
LEMMA TypesFollow == IInv => TypeOK
<1> SUFFICES ASSUME IInv PROVE TypeOK
  OBVIOUS
<1>1. Typed /\ Agree
  BY DEF IInv
<1>2. ASSUME NEW n \in Nat \ {0}, NEW w, NEW m, NEW s, Shows(w, n, m, s)
      PROVE  Counters(w, n)
  <2>1. w.index \in 0 .. n - 1 /\ w.size \in 0 .. n
    BY <1>2 DEF Shows, Ring
  <2> QED
    BY <1>2, <2>1 DEF Shows, Counters
<1>3. Counters(window, COUNT) /\ Counters(roc_win, Capacity) /\ Counters(maroc_win, Capacity)
  BY <1>1, <1>2, Constants DEF Agree
<1>4. Len(bars) <= MaxTime
  <2>1. Len(bars) \in Nat /\ Len(bars) <= Newest /\ bars \in Seq(Kline)
    BY <1>1 DEF Typed
  <2>2. CASE bars = <<>>
    BY <2>2, IndicatorAssumption
  <2>3. CASE bars # <<>>
    <3>1. bars[Len(bars)] \in Kline
      BY <2>1, <2>3
    <3>2. Newest \in 1 .. MaxTime
      BY <2>3, <3>1 DEF Newest, Kline
    <3> QED
      BY <2>1, <3>2, IndicatorAssumption
  <2> QED
    BY <2>2, <2>3
<1> QED
  BY <1>1, <1>3, <1>4 DEF Typed, TypeOK

\* Every variable keeps its type, the counters of each window fit one another, and
\* there are no more minutes than times.
THEOREM TypeCorrect == Spec => []TypeOK
  BY Invariance, TypesFollow, PTL

LEMMA HeldIs ==
  ASSUME Typed, NEW f \in Nat \ {0}, NEW n \in Nat \ {0}
  PROVE  /\ Past(bars, f) \in Nat
         /\ Held(f, n) = IF Past(bars, f) < n THEN Past(bars, f) ELSE n
         /\ Past(bars, f) > 0 => Past(bars, f) = Len(bars) - f + 1
<1>1. Len(bars) \in Nat
  BY DEF Typed
<1> QED
  BY <1>1 DEF Held, Past

LEMMA WindowsFollow == IInv => WindowsAgree
<1> SUFFICES ASSUME IInv PROVE WindowsAgree
  OBVIOUS
<1> DEFINE rocs == Held(COUNT, Capacity)
           marocs == Held(First, Capacity)
           p == Past(bars, COUNT)
           q == Past(bars, First)
<1>0. Typed /\ Agree /\ Len(bars) \in Nat
  BY DEF IInv, Typed
<1>1. /\ p \in Nat /\ q \in Nat
      /\ rocs = (IF p < Capacity THEN p ELSE Capacity)
      /\ marocs = (IF q < Capacity THEN q ELSE Capacity)
      /\ p > 0 => p = Len(bars) - COUNT + 1
      /\ q > 0 => q = Len(bars) - First + 1
  BY <1>0, Constants, HeldIs
<1>2. /\ Shows(roc_win, Capacity, p, Rocs(bars))
      /\ Shows(maroc_win, Capacity, q, Marocs(bars))
  BY <1>0 DEF Agree
<1>3. roc_win.size = rocs /\ maroc_win.size = marocs
  <2> HIDE DEF p, q, rocs, marocs
  <2> QED
    BY <1>1, <1>2 DEF Shows
<1>4. ASSUME NEW i \in 0 .. rocs - 1
      PROVE  R!Get(roc_win, i)
               = [time |-> bars[Len(bars) - i].time, val |-> RefROC(Len(bars) - i)]
  <2>1. p - i \in 1 .. p /\ p - i + COUNT - 1 = Len(bars) - i
    <3> HIDE DEF p, rocs
    <3> QED
      BY <1>0, <1>1, Constants
  <2>2. At(roc_win, Capacity, i) = Rocs(bars)[p - i]
    <3> HIDE DEF p, rocs
    <3> QED
      BY <1>2, <1>3 DEF Shows
  <2>3. Rocs(bars)[p - i]
          = [time |-> bars[Len(bars) - i].time, val |-> ROCAt(bars, Len(bars) - i)]
    BY <2>1 DEF Rocs
  <2> QED
    BY <2>2, <2>3 DEF R!Get, At, RefROC, ROCAt
<1>5. ASSUME NEW i \in 0 .. marocs - 1
      PROVE  R!Get(maroc_win, i)
               = [time |-> bars[Len(bars) - i].time, val |-> RefMAROC(Len(bars) - i)]
  <2>1. q - i \in 1 .. q /\ q - i + First - 1 = Len(bars) - i
    <3> HIDE DEF q, marocs
    <3> QED
      BY <1>0, <1>1, Constants
  <2>2. At(maroc_win, Capacity, i) = Marocs(bars)[q - i]
    <3> HIDE DEF q, marocs
    <3> QED
      BY <1>2, <1>3 DEF Shows
  <2>3. Marocs(bars)[q - i]
          = [time |-> bars[Len(bars) - i].time, val |-> MAROCAt(bars, Len(bars) - i)]
    BY <2>1 DEF Marocs
  <2> QED
    BY <2>2, <2>3 DEF R!Get, At, RefMAROC, MAROCAt, RefROC, ROCAt
<1> QED
  BY <1>3, <1>4, <1>5 DEF WindowsAgree, R!GetSize, First

\* For any windows and any list of klines: the k-th newest element of each window is
\* that of the k-th newest minute, and is what the indicator is defined to be there.
THEOREM WindowsAligned == Spec => []WindowsAgree
  BY Invariance, WindowsFollow, PTL

LEMMA UpdatedFollows == IInv => UpdatedByLastKline
<1> SUFFICES ASSUME IInv PROVE UpdatedByLastKline
  OBVIOUS
<1>1. Shows(maroc_win, Capacity, Past(bars, First), Marocs(bars)) /\ Told
  BY DEF IInv, Agree
<1>2. R!GetSize(maroc_win) > 0 => Past(bars, First) > 0
  BY <1>1, Constants DEF Shows, R!GetSize
<1> QED
  BY <1>1, <1>2 DEF Told, UpdatedByLastKline

\* What calc_roc_and_maroc returns is decided by the last kline: without a new minute
\* it is true only after a kline of a minute gone by, and with one false only when
\* the document repeats it.
THEOREM UpdatedIsLast == Spec => []UpdatedByLastKline
  BY Invariance, UpdatedFollows, PTL

\* A step that begins no minute keeps the elements of all minutes but the newest.
LEMMA ClosedKept ==
  ASSUME IInv, WindowsAgree, WindowsAgree', [Next]_vars, Newest' = Newest,
         NEW i \in 1 .. 2
  PROVE  /\ R!GetSize(maroc_win') = R!GetSize(maroc_win)
         /\ Enough => /\ R!Get(roc_win, i)' = R!Get(roc_win, i)
                      /\ R!Get(maroc_win, i)' = R!Get(maroc_win, i)
<1>1. CASE UNCHANGED <<roc_win, maroc_win>>
  BY <1>1
<1>2. CASE NextKline
  <2>0. PICK k \in Kline : Record(k)
    BY <1>2 DEF NextKline
  <2>1. Len(bars) \in Nat /\ bars \in Seq(Kline) /\ Typed
    BY DEF IInv, Typed
  <2>2. Len(bars') = Len(bars) /\ \A j \in 1 .. Len(bars) - 1 : bars'[j] = bars[j]
    <3>1. Len(bars) > 0 => Newest = bars[Len(bars)].time
      BY <2>1 DEF Newest
    <3>2. CASE k.time > Newest /\ bars' = Append(bars, k)
      <4>1. Newest' = k.time
        BY <2>1, <3>2 DEF Newest
      <4>2. k.time \in Nat /\ Newest \in Nat
        <5>1. bars # <<>> => bars[Len(bars)] \in Kline
          BY <2>1
        <5> QED
          BY <5>1, IndicatorAssumption DEF Kline, Newest
      <4> QED
        BY <3>2, <4>1, <4>2
    <3>3. CASE bars' = [bars EXCEPT ![Len(bars)] = k]
      BY <2>1, <3>3
    <3>4. CASE bars' = bars
      BY <3>4
    <3> QED
      BY <2>0, <3>2, <3>3, <3>4 DEF Record
  <2> DEFINE rocs == Held(COUNT, Capacity)
             marocs == Held(First, Capacity)
  <2>3. /\ rocs' = rocs /\ marocs' = marocs
        /\ marocs <= rocs /\ rocs \in Nat /\ marocs \in Nat
        /\ marocs > 2 => Len(bars) - 2 >= First
    BY <2>1, <2>2, Constants DEF Held, First
  <2>4. R!GetSize(maroc_win) = marocs /\ R!GetSize(maroc_win') = marocs
    BY <2>1, <2>3 DEF WindowsAgree, First
  <2>5. ASSUME Enough
        PROVE  R!Get(roc_win, i)' = R!Get(roc_win, i)
               /\ R!Get(maroc_win, i)' = R!Get(maroc_win, i)
    <3>1. marocs > 2 /\ i \in 0 .. rocs - 1 /\ i \in 0 .. marocs - 1
      BY <2>3, <2>4, <2>5 DEF Enough
    <3>2. /\ Len(bars) - i \in First .. Len(bars) - 1
          /\ Len(bars) - i \in COUNT .. Len(bars) - 1
          /\ Len(bars) - 1 \in Nat /\ Len(bars) - i \in 1 .. Len(bars) - 1
      BY <2>1, <2>3, <3>1, Constants DEF First
    <3>3. /\ ROCAt(bars', Len(bars) - i) = ROCAt(bars, Len(bars) - i)
          /\ MAROCAt(bars', Len(bars) - i) = MAROCAt(bars, Len(bars) - i)
          /\ bars'[Len(bars) - i] = bars[Len(bars) - i]
      BY <2>2, <3>2, ROCAlike, MAROCAlike
    <3>4. /\ RefROC(Len(bars) - i)' = RefROC(Len(bars) - i)
          /\ RefMAROC(Len(bars) - i)' = RefMAROC(Len(bars) - i)
      BY <2>2, <3>3 DEF RefROC, RefMAROC, ROCAt, MAROCAt
    <3>5. /\ R!Get(roc_win, i)
               = [time |-> bars[Len(bars) - i].time, val |-> RefROC(Len(bars) - i)]
          /\ R!Get(maroc_win, i)
               = [time |-> bars[Len(bars) - i].time, val |-> RefMAROC(Len(bars) - i)]
      BY <2>1, <3>1 DEF WindowsAgree, First
    <3>6. /\ R!Get(roc_win, i)'
               = [time |-> bars[Len(bars) - i].time, val |-> RefROC(Len(bars) - i)]'
          /\ R!Get(maroc_win, i)'
               = [time |-> bars[Len(bars) - i].time, val |-> RefMAROC(Len(bars) - i)]'
      BY <2>1, <2>3, <3>1 DEF WindowsAgree, First
    <3> QED
      BY <2>2, <3>3, <3>4, <3>5, <3>6
  <2> QED
    BY <2>4, <2>5
<1> QED
  BY <1>1, <1>2 DEF Next, CalcRocAndMaroc, vars

\* run_strategy decides by closed minutes: no kline of the running minute, and none
\* of an earlier one, changes any of the three verdicts.
THEOREM DecidesOnClosedMinutes == Spec => VerdictIsClosed
<1>1. IInv /\ WindowsAgree /\ WindowsAgree' /\ [Next]_vars
        => [Newest' = Newest => Verdict' = Verdict]_vars
  <2> SUFFICES ASSUME IInv, WindowsAgree, WindowsAgree', [Next]_vars, Newest' = Newest
               PROVE  Verdict' = Verdict
    OBVIOUS
  <2>1. Enough' <=> Enough
    BY ClosedKept DEF Enough
  <2>2. CASE ~ Enough
    BY <2>1, <2>2 DEF Verdict, CrossForUp, StayForUp, CrossForDown
  <2>3. CASE Enough
    <3>1. /\ Roc(1)' = Roc(1) /\ Roc(2)' = Roc(2)
          /\ Maroc(1)' = Maroc(1) /\ Maroc(2)' = Maroc(2)
      BY <2>3, ClosedKept DEF Roc, Maroc
    <3> QED
      BY <2>1, <2>3, <3>1 DEF Verdict, CrossForUp, StayForUp, CrossForDown
  <2> QED
    BY <2>2, <2>3
<1> QED
  BY <1>1, Invariance, WindowsAligned, PTL DEF Spec, VerdictIsClosed
=============================================================================
