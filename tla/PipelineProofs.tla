--------------------------- MODULE PipelineProofs ---------------------------
(* Pipeline, for any channels, readers and documents: one queue per channel, whoever
   asks for it first.                                                         *)
EXTENDS Pipeline, FiniteSetTheorems, SequenceTheorems, TLAPS

\* The callback goes to an element of the document that names a channel, or ends.
LEMMA Element ==
  ASSUME Consistent, NEW doc \in Document, NEW i \in Nat \ {0}, GoElement(doc, i)
  PROVE  \/ at' = [at EXCEPT ![Io] = "idle"] /\ pos' = 0
         \/ /\ at' = [at EXCEPT ![Io] = "check"]
            /\ pos' \in DOMAIN doc /\ pos' \in Nat /\ doc[pos'] \in Channel
<1>1. doc \in Seq(Channel \cup {NoChannel})
  BY PipelineAssumption
<1> DEFINE named == { k \in i .. Len(doc) : doc[k] # NoChannel }
<1>2. CASE named = {}
  BY <1>2 DEF GoElement, Go
<1>3. CASE named # {}
  <2>1. pos' \in named /\ at' = [at EXCEPT ![Io] = "check"]
    BY <1>3 DEF GoElement, Go
  <2>2. pos' \in DOMAIN doc /\ pos' \in Nat /\ doc[pos'] # NoChannel
    BY <1>1, <2>1
  <2> QED
    BY <1>1, <2>1, <2>2
<1> QED
  BY <1>2, <1>3

LEMMA CheckKeeps ==
  ASSUME Consistent, NEW t \in Threads, Check(t)
  PROVE  Consistent'
<1>1. /\ at[t] = "check" /\ holder = NoChannel
      /\ UNCHANGED <<map, queues, ref, docs, pos, seen, failed>>
      /\ \/ /\ Name(t) \in DOMAIN map
            /\ at' = [at EXCEPT ![t] = "lookup"] /\ holder' = holder
         \/ /\ Name(t) \notin DOMAIN map
            /\ at' = [at EXCEPT ![t] = "insert"] /\ holder' = t
  BY DEF Check, At, Go
<1>2. TypeOK'
  BY <1>1 DEF Consistent, TypeOK
<1>3. InLoop'
  <2>1. at'[Io] # "idle" => at[Io] # "idle"
    BY <1>1 DEF Consistent, TypeOK, Threads
  <2> QED
    BY <1>1, <2>1 DEF Consistent, InLoop, Current
<1>4. \A u \in Threads : Name(u)' = Name(u)
  BY <1>1 DEF Name, Current
<1>5. ASSUME NEW u \in Threads
      PROVE  /\ at'[u] \in {"lookup", "use"} => Name(u) \in DOMAIN map
             /\ at'[u] = "use" => ref[u] = map[Name(u)]
             /\ at'[u] = "insert" => Name(u) \notin DOMAIN map
             /\ at'[u] = "insert" <=> holder' = u
  BY <1>1, PipelineAssumption DEF Consistent, TypeOK, OneQueue, Threads
<1> QED
  BY <1>1, <1>2, <1>3, <1>4, <1>5 DEF Consistent, OneQueue

LEMMA InsertKeeps ==
  ASSUME Consistent, NEW t \in Threads, Insert(t)
  PROVE  Consistent'
<1> DEFINE name == Name(t)
<1>1. /\ at[t] = "insert" /\ holder = t /\ name \notin DOMAIN map /\ name \in Channel
      /\ at' = [at EXCEPT ![t] = "lookup"] /\ holder' = NoChannel
      /\ queues' = Append(queues, <<>>) /\ UNCHANGED <<ref, docs, pos, seen, failed>>
  BY DEF Consistent, Insert, At, Go, OneQueue, InLoop, Name, Threads
<1>2. /\ queues \in Seq(Seq(1 .. MaxDocs)) /\ Len(queues) \in Nat
      /\ queues' \in Seq(Seq(1 .. MaxDocs)) /\ Len(queues') = Len(queues) + 1
  BY <1>1 DEF Consistent, TypeOK
<1>3. /\ DOMAIN map' = DOMAIN map \cup {name}
      /\ map' = [c \in DOMAIN map' |-> map'[c]]
      /\ \A c \in DOMAIN map : map'[c] = map[c] /\ map[c] \in 1 .. Len(queues)
      /\ map'[name] = Len(queues) + 1
  BY <1>1, <1>2 DEF Insert, Consistent, TypeOK
<1>4. \A u \in Threads : Name(u)' = Name(u)
  BY <1>1 DEF Name, Current
<1> HIDE DEF name
<1>5. TypeOK'
  <2>1. DOMAIN map' \subseteq Channel /\ map' \in [DOMAIN map' -> 1 .. Len(queues')]
    BY <1>1, <1>2, <1>3 DEF Consistent, TypeOK
  <2>2. ref' \in [Threads -> 0 .. Len(queues')]
    BY <1>1, <1>2 DEF Consistent, TypeOK
  <2> QED
    BY <1>1, <1>2, <2>1, <2>2 DEF Consistent, TypeOK
<1>6. InLoop'
  BY <1>1 DEF Consistent, TypeOK, InLoop, Current
<1>7. Len(queues') = Cardinality(DOMAIN map')
  <2>1. IsFiniteSet(DOMAIN map)
    BY PipelineAssumption, FS_Subset DEF Consistent, TypeOK
  <2>2. Cardinality(DOMAIN map \cup {name}) = Cardinality(DOMAIN map) + 1
    BY <1>1, <2>1, FS_AddElement
  <2> QED
    BY <1>2, <1>3, <2>2 DEF Consistent, OneQueue
<1>8. \A c, d \in DOMAIN map' : map'[c] = map'[d] => c = d
  BY <1>2, <1>3 DEF Consistent, OneQueue
<1>9. ASSUME NEW u \in Threads
      PROVE  /\ at'[u] \in {"lookup", "use"} => Name(u) \in DOMAIN map'
             /\ at'[u] = "use" => ref'[u] = map'[Name(u)]
             /\ at'[u] = "insert" => Name(u) \notin DOMAIN map'
             /\ at'[u] = "insert" <=> holder' = u
  <2>1. CASE u = t
    BY <1>1, <1>3, <2>1, PipelineAssumption DEF name, Consistent, TypeOK, Threads
  <2>2. CASE u # t
    <3>1. at'[u] = at[u] /\ at[u] # "insert" /\ holder' # u
      BY <1>1, <2>2, PipelineAssumption DEF Consistent, TypeOK, OneQueue, Threads
    <3> QED
      BY <1>1, <1>3, <3>1 DEF Consistent, OneQueue
  <2> QED
    BY <2>1, <2>2
<1> QED
  BY <1>4, <1>5, <1>6, <1>7, <1>8, <1>9 DEF Consistent, OneQueue

LEMMA LookupKeeps ==
  ASSUME Consistent, NEW t \in Threads, Lookup(t)
  PROVE  Consistent'
<1>1. /\ at[t] = "lookup" /\ Name(t) \in DOMAIN map
      /\ UNCHANGED <<holder, map, queues, docs, pos, seen>>
      /\ \/ /\ ref' = [ref EXCEPT ![t] = map[Name(t)]]
            /\ at' = [at EXCEPT ![t] = "use"] /\ failed' = failed
         \/ at' = at /\ ref' = ref /\ failed' = "race"
  BY DEF Consistent, OneQueue, Lookup, At, Go
<1>2. TypeOK'
  <2>1. /\ at' \in [Threads -> {"idle", "check", "insert", "lookup", "use"}]
        /\ failed' \in {"no", "race", "member"}
    BY <1>1 DEF Consistent, TypeOK
  <2>2. map[Name(t)] \in 0 .. Len(queues)
    BY <1>1 DEF Consistent, TypeOK
  <2>3. ref' \in [Threads -> 0 .. Len(queues)]
    BY <1>1, <2>2 DEF Consistent, TypeOK
  <2> QED
    BY <1>1, <2>1, <2>3 DEF Consistent, TypeOK
<1>3. InLoop'
  <2>1. at'[Io] # "idle" => at[Io] # "idle"
    BY <1>1 DEF Consistent, TypeOK, Threads
  <2> QED
    BY <1>1, <2>1 DEF Consistent, InLoop, Current
<1>4. \A u \in Threads : Name(u)' = Name(u)
  BY <1>1 DEF Name, Current
<1>5. ASSUME NEW u \in Threads
      PROVE  /\ at'[u] \in {"lookup", "use"} => Name(u) \in DOMAIN map
             /\ at'[u] = "use" => ref'[u] = map[Name(u)]
             /\ at'[u] = "insert" => Name(u) \notin DOMAIN map
             /\ at'[u] = "insert" <=> holder = u
  BY <1>1 DEF Consistent, TypeOK, OneQueue
<1> QED
  BY <1>1, <1>2, <1>3, <1>4, <1>5 DEF Consistent, OneQueue

LEMMA ReceiveKeeps ==
  ASSUME Consistent, NEW doc \in Document, Receive(doc)
  PROVE  Consistent'
<1>1. /\ at[Io] = "idle" /\ docs' = Append(docs, doc) /\ GoElement(doc, 1)
      /\ UNCHANGED <<holder, map, queues, ref, seen, failed>>
      /\ docs' \in Seq(Document) /\ Len(docs') <= MaxDocs
      /\ docs' # <<>> /\ docs'[Len(docs')] = doc
  BY PipelineAssumption DEF Consistent, TypeOK, Receive, At
<1>2. \/ at' = [at EXCEPT ![Io] = "idle"] /\ pos' = 0
      \/ /\ at' = [at EXCEPT ![Io] = "check"]
         /\ pos' \in DOMAIN doc /\ pos' \in Nat /\ doc[pos'] \in Channel
  BY <1>1, Element
<1>3. TypeOK'
  BY <1>1, <1>2 DEF Consistent, TypeOK, Threads
<1>4. InLoop'
  BY <1>1, <1>2 DEF Consistent, TypeOK, Threads, InLoop, Current
<1>5. ASSUME NEW u \in Threads
      PROVE  /\ at'[u] \in {"lookup", "use"} => Name(u)' \in DOMAIN map
             /\ at'[u] = "use" => ref[u] = map[Name(u)']
             /\ at'[u] = "insert" => Name(u)' \notin DOMAIN map
             /\ at'[u] = "insert" <=> holder = u
  BY <1>1, <1>2 DEF Consistent, TypeOK, OneQueue, Name
<1> QED
  BY <1>1, <1>3, <1>4, <1>5 DEF Consistent, OneQueue

LEMMA PushKeeps ==
  ASSUME Consistent, Push
  PROVE  Consistent'
<1>1. /\ at[Io] = "use" /\ GoElement(Current, pos + 1)
      /\ ref' = [ref EXCEPT ![Io] = 0]
      /\ queues' = [queues EXCEPT ![ref[Io]] = Append(@, Len(docs))]
      /\ UNCHANGED <<holder, map, docs, seen, failed>>
  BY DEF Push, At, Forget
<1>2. /\ docs \in Seq(Document) /\ docs # <<>> /\ Current \in Document
      /\ Len(docs) \in 1 .. MaxDocs /\ pos + 1 \in Nat \ {0}
  BY <1>1, PipelineAssumption DEF Consistent, TypeOK, InLoop, Current
<1>3. \/ at' = [at EXCEPT ![Io] = "idle"] /\ pos' = 0
      \/ /\ at' = [at EXCEPT ![Io] = "check"]
         /\ pos' \in DOMAIN Current /\ pos' \in Nat /\ Current[pos'] \in Channel
  BY <1>1, <1>2, Element
<1>4. ref[Io] \in DOMAIN queues
  BY <1>1 DEF Consistent, TypeOK, OneQueue, Threads
<1>5. queues' \in Seq(Seq(1 .. MaxDocs)) /\ Len(queues') = Len(queues)
  BY <1>1, <1>2, <1>4 DEF Consistent, TypeOK
<1>6. TypeOK'
  BY <1>1, <1>2, <1>3, <1>5 DEF Consistent, TypeOK, Threads
<1>7. InLoop'
  BY <1>1, <1>2, <1>3 DEF Consistent, TypeOK, Threads, InLoop, Current
<1>8. ASSUME NEW u \in Threads
      PROVE  /\ at'[u] \in {"lookup", "use"} => Name(u)' \in DOMAIN map
             /\ at'[u] = "use" => ref'[u] = map[Name(u)']
             /\ at'[u] = "insert" => Name(u)' \notin DOMAIN map
             /\ at'[u] = "insert" <=> holder = u
  BY <1>1, <1>3 DEF Consistent, TypeOK, OneQueue, Name
<1> QED
  BY <1>1, <1>5, <1>6, <1>7, <1>8 DEF Consistent, OneQueue

LEMMA ReadKeeps ==
  ASSUME Consistent, NEW c \in Channel, Read(c)
  PROVE  Consistent'
<1>1. /\ at[c] = "use" /\ c # Io /\ c \in Threads /\ queues[ref[c]] # <<>>
      /\ queues' = [queues EXCEPT ![ref[c]] = Tail(@)]
      /\ UNCHANGED <<holder, map, docs, pos>>
  BY PipelineAssumption DEF Read, At, Threads
<1>2. /\ \/ at' = at /\ ref' = ref
         \/ at' = [at EXCEPT ![c] = "check"] /\ ref' = [ref EXCEPT ![c] = 0]
      /\ failed' \in {"no", "race", "member"} /\ DOMAIN seen' = Channel
  BY DEF Read, Go, Forget, Consistent, TypeOK
<1>3. ref[c] \in DOMAIN queues
  BY <1>1 DEF Consistent, TypeOK, OneQueue
<1>4. queues' \in Seq(Seq(1 .. MaxDocs)) /\ Len(queues') = Len(queues)
  BY <1>1, <1>3 DEF Consistent, TypeOK
<1>5. TypeOK'
  <2>1. at' \in [Threads -> {"idle", "check", "insert", "lookup", "use"}]
    BY <1>1, <1>2 DEF Consistent, TypeOK
  <2>2. ref' \in [Threads -> 0 .. Len(queues')]
    <3>1. Len(queues') \in Nat /\ ref \in [Threads -> 0 .. Len(queues')]
      BY <1>4 DEF Consistent, TypeOK
    <3> QED
      BY <1>2, <3>1
  <2>3. map' \in [DOMAIN map' -> DOMAIN queues']
    BY <1>1, <1>4 DEF Consistent, TypeOK
  <2> QED
    BY <1>1, <1>2, <1>4, <2>1, <2>2, <2>3 DEF Consistent, TypeOK
<1>6. InLoop'
  <2>1. at'[Io] = at[Io]
    BY <1>1, <1>2 DEF Consistent, TypeOK, Threads
  <2> QED
    BY <1>1, <2>1 DEF Consistent, InLoop, Current
<1>7. \A u \in Threads : Name(u)' = Name(u)
  BY <1>1 DEF Name, Current
<1>8. ASSUME NEW u \in Threads
      PROVE  /\ at'[u] \in {"lookup", "use"} => Name(u) \in DOMAIN map
             /\ at'[u] = "use" => ref'[u] = map[Name(u)]
             /\ at'[u] = "insert" => Name(u) \notin DOMAIN map
             /\ at'[u] = "insert" <=> holder = u
  BY <1>1, <1>2 DEF Consistent, TypeOK, OneQueue
<1> QED
  BY <1>1, <1>4, <1>5, <1>6, <1>7, <1>8 DEF Consistent, OneQueue

LEMMA InitConsistent ==
  ASSUME Init
  PROVE  Consistent
<1>1. /\ map = <<>> /\ DOMAIN map = {} /\ queues = <<>> /\ docs = <<>> /\ pos = 0
      /\ at = [t \in Threads |-> IF t = Io THEN "idle" ELSE "check"]
      /\ holder = NoChannel /\ ref = [t \in Threads |-> 0] /\ DOMAIN seen = Channel
      /\ failed = "no"
  BY DEF Init
<1>2. TypeOK
  BY <1>1, PipelineAssumption DEF TypeOK
<1>3. InLoop
  BY <1>1 DEF InLoop, Threads
<1>4. OneQueue
  BY <1>1, FS_EmptySet, PipelineAssumption DEF OneQueue
<1> QED
  BY <1>2, <1>3, <1>4 DEF Consistent

LEMMA NextConsistent ==
  ASSUME Consistent, [Next]_vars
  PROVE  Consistent'
<1>1. ASSUME NEW t \in Threads, GetQueue(t) PROVE Consistent'
  BY <1>1, CheckKeeps, InsertKeeps, LookupKeeps DEF GetQueue
<1>2. CASE Callback
  BY <1>1, <1>2, PushKeeps DEF Callback, Threads
<1>3. ASSUME NEW doc \in Document, Receive(doc) PROVE Consistent'
  BY <1>3, ReceiveKeeps
<1>4. ASSUME NEW c \in Channel, Reader(c) PROVE Consistent'
  BY <1>1, <1>4, ReadKeeps DEF Reader, Threads
<1>5. CASE UNCHANGED vars
  BY <1>5 DEF vars, Consistent, TypeOK, InLoop, OneQueue, Name, Current
<1> QED
  BY <1>2, <1>3, <1>4, <1>5 DEF Next

\* Whoever asks for a channel's queue first, and however often the two sides of it
\* ask, there is one queue per channel, and no document is pushed on another.
THEOREM OneQueuePerChannel == Spec => []Consistent
<1>1. Init => Consistent
  BY InitConsistent
<1>2. Consistent /\ [Next]_vars => Consistent'
  BY NextConsistent
<1> QED
  BY <1>1, <1>2, PTL DEF Spec

\* get_queue reads the map without its lock.  That can only hurt while another thread
\* makes the queue of a channel that has none yet: once every channel has its queue
\* the race is over for good.
THEOREM RaceNeedsNewChannel == Spec => RaceOnlyOnFirstUse
<1>1. ASSUME Consistent, NEW u \in Threads, at[u] = "insert"
      PROVE  DOMAIN map # Channel
  <2>1. Name(u) \notin DOMAIN map
    BY <1>1 DEF Consistent, OneQueue
  <2>2. Name(u) \in Channel
    BY <1>1 DEF Consistent, InLoop, Name, Threads
  <2> QED
    BY <2>1, <2>2
<1>2. Consistent /\ [Next]_vars =>
        [failed' = "race" /\ failed # "race" => DOMAIN map # Channel]_vars
  <2> SUFFICES ASSUME Consistent, Next, failed' = "race", failed # "race"
               PROVE  DOMAIN map # Channel
    OBVIOUS
  <2>1. PICK t \in Threads : Lookup(t)
    BY DEF Next, Callback, Receive, Push, Reader, Read, GetQueue, Check, Insert, Threads
  <2>2. \E u \in Threads : at[u] = "insert"
    BY <2>1 DEF Lookup
  <2> QED
    BY <1>1, <2>2
<1> QED
  BY <1>2, OneQueuePerChannel, PTL DEF Spec, RaceOnlyOnFirstUse
-----------------------------------------------------------------------------
(* What the readers get.  Told is defined by recursion on the list of documents.  That
   the recursion determines a value, and that a document more adds its elements at the
   end, is carried along by the invariant, since documents come one at a time.        *)

\* What each document holds for c, and f is the recursion of FlattenSeq on s.
Parts(c) == [n \in 1 .. Len(docs) |-> Of(n, Own(c, docs[n]))]

Flattens(f, s) ==
  f = [i \in 1 .. Len(s) |-> IF i = 1 THEN s[i] ELSE f[i - 1] \o s[i]]

Unfolds(s) == \E f : Flattens(f, s) /\ \A g : Flattens(g, s) => g = f

\* The callback has yet to push the last document for c.
Pending(c) == at[Io] # "idle" /\ \E i \in Own(c, Current) : pos <= i

ToldOf(c) ==
  /\ Unfolds(Parts(c))
  /\ Told(c) \in Seq(Nat \X Nat)
  /\ \A k \in DOMAIN Told(c) :
       Told(c)[k][1] \in DOMAIN docs /\ Told(c)[k][2] \in Own(c, docs[Told(c)[k][1]])

SeenOf(c) ==
  /\ seen[c] \in Seq(Nat \X Nat) /\ Len(seen[c]) <= Len(Told(c))
  /\ \A k \in 1 .. Len(seen[c]) : seen[c][k] = Told(c)[k]

\* What c was told is what it has seen, then what waits on its queue, then what the
\* callback is about to push.
DueOf(c) ==
  /\ Len(Told(c)) = Len(seen[c]) + Len(Waiting(c)) + (IF Pending(c) THEN 1 ELSE 0)
  /\ \A k \in 1 .. Len(Waiting(c)) : Told(c)[Len(seen[c]) + k][1] = Waiting(c)[k]
  /\ Pending(c) => Told(c)[Len(Told(c))][1] = Len(docs)

Account(c) ==
  Simple(c) => ToldOf(c) /\ SeenOf(c) /\ (failed # "member" => DueOf(c))

IInv == Consistent /\ \A c \in Channel : Account(c)

\* What one element, or none, of a document makes of the list.
LEMMA OfNone ==
  ASSUME NEW n
  PROVE  Of(n, {}) = <<>>
BY FS_EmptySet DEF Of

LEMMA OfOne ==
  ASSUME NEW n, NEW i
  PROVE  Of(n, {i}) = << <<n, i>> >>
<1>1. Cardinality({i}) = 1
  BY FS_Singleton
<1>2. InOrder({i}) = <<i>>
  <2> DEFINE P(s) == \A j, k \in DOMAIN s : j < k => s[j] < s[k]
  <2>1. <<i>> \in [1 .. 1 -> {i}] /\ \A s \in [1 .. 1 -> {i}] : s = <<i>>
    OBVIOUS
  <2>2. P(<<i>>)
    OBVIOUS
  <2> HIDE DEF P
  <2>3. (CHOOSE s \in [1 .. 1 -> {i}] : P(s)) = <<i>>
    BY <2>1, <2>2
  <2> QED
    BY <1>1, <2>3 DEF InOrder, P
<1> QED
  BY <1>1, <1>2 DEF Of

LEMMA OfSimple ==
  ASSUME NEW n \in Nat, NEW doc \in Document, NEW c \in Channel,
         \A i, j \in Own(c, doc) : i = j
  PROVE  /\ Of(n, Own(c, doc)) \in Seq(Nat \X Nat)
         /\ \/ Own(c, doc) = {} /\ Of(n, Own(c, doc)) = <<>>
            \/ \E i \in Nat : Own(c, doc) = {i} /\ Of(n, Own(c, doc)) = << <<n, i>> >>
<1> DEFINE own == Own(c, doc)
<1>1. CASE own = {}
  <2>1. Of(n, own) = <<>>
    BY <1>1, OfNone
  <2> HIDE DEF own
  <2>2. Of(n, own) \in Seq(Nat \X Nat) /\ own = {} /\ Of(n, own) = <<>>
    BY <1>1, <2>1, EmptySeq
  <2> QED
    BY <2>2 DEF own
<1>2. CASE own # {}
  <2>1. PICK i \in own : own = {i}
    BY <1>2
  <2>2. i \in Nat
    BY PipelineAssumption DEF Own
  <2>3. Of(n, own) = << <<n, i>> >>
    BY <2>1, OfOne
  <2>4. << <<n, i>> >> \in Seq(Nat \X Nat)
    BY <2>2
  <2> HIDE DEF own
  <2>5. Of(n, own) \in Seq(Nat \X Nat)
        /\ \E j \in Nat : own = {j} /\ Of(n, own) = << <<n, j>> >>
    BY <2>1, <2>2, <2>3, <2>4
  <2> QED
    BY <2>5 DEF own
<1> QED
  BY <1>1, <1>2

LEMMA FlattenGrows ==
  ASSUME NEW V, NEW s \in Seq(Seq(V)), NEW x \in Seq(V), Unfolds(s),
         FlattenSeq(s) \in Seq(V)
  PROVE  /\ Unfolds(Append(s, x))
         /\ FlattenSeq(Append(s, x)) = FlattenSeq(s) \o x
<1> DEFINE n == Len(s)
           t == Append(s, x)
<1>1. PICK f : Flattens(f, s) /\ \A g : Flattens(g, s) => g = f
  BY DEF Unfolds
<1>2. n \in Nat /\ Len(t) = n + 1 /\ t \in Seq(Seq(V)) /\ t[n + 1] = x
      /\ \A i \in 1 .. n : t[i] = s[i]
  OBVIOUS
<1>3. \A i \in 1 .. n : f[i] = IF i = 1 THEN s[i] ELSE f[i - 1] \o s[i]
  <2>1. Flattens(f, s)
    BY <1>1
  <2> QED
    BY <2>1 DEF Flattens
<1>4. FlattenSeq(s) = IF n = 0 THEN <<>> ELSE f[n]
  <2>1. (CHOOSE g : Flattens(g, s)) = f
    BY <1>1
  <2>2. CASE n = 0
    BY <2>2 DEF FlattenSeq
  <2>3. CASE n # 0
    <3>1. FlattenSeq(s) = f[Len(s)]
      BY <2>1, <2>3, Zenon DEF FlattenSeq, Flattens
    <3> QED
      BY <2>3, <3>1
  <2> QED
    BY <2>2, <2>3
<1> HIDE DEF n, t
\* The recursion on t: f, and one value more.
<1> DEFINE last == IF n = 0 THEN x ELSE f[n] \o x
           h == [i \in 1 .. n + 1 |-> IF i = n + 1 THEN last ELSE f[i]]
<1>5. DOMAIN h = 1 .. n + 1 /\ h[n + 1] = last /\ \A i \in 1 .. n : h[i] = f[i]
  BY <1>2
<1>6. h = [i \in 1 .. n + 1 |-> h[i]]
  OBVIOUS
<1> HIDE DEF h
<1>7. Flattens(h, t)
  <2>1. ASSUME NEW i \in 1 .. n + 1
        PROVE  h[i] = IF i = 1 THEN t[i] ELSE h[i - 1] \o t[i]
    <3>1. CASE i = n + 1
      BY <1>2, <1>5, <3>1
    <3>2. CASE i # n + 1
      <4>1. i \in 1 .. n /\ (i # 1 => i - 1 \in 1 .. n)
        BY <1>2, <3>2
      <4> QED
        BY <1>2, <1>3, <1>5, <4>1
    <3> QED
      BY <3>1, <3>2
  <2> QED
    BY <1>2, <1>6, <2>1 DEF Flattens
<1>8. ASSUME NEW g, Flattens(g, t)
      PROVE  g = h
  <2>1. \A i \in 1 .. n + 1 : g[i] = IF i = 1 THEN t[i] ELSE g[i - 1] \o t[i]
    BY <1>2, <1>8 DEF Flattens
  <2>2. g = [i \in 1 .. n + 1 |-> g[i]]
    BY <1>2, <1>8 DEF Flattens
  <2> DEFINE r == [i \in 1 .. n |-> g[i]]
  <2>3. Flattens(r, s)
    BY <1>2, <2>1 DEF Flattens, n
  <2>4. r = f
    BY <1>1, <2>3
  <2>5. \A i \in 1 .. n : g[i] = f[i]
    BY <2>4
  <2> HIDE DEF r
  <2>6. g[n + 1] = last
    <3>1. g[n + 1] = IF n + 1 = 1 THEN t[n + 1] ELSE g[n] \o t[n + 1]
      BY <1>2, <2>1
    <3>2. n # 0 => n \in 1 .. n
      BY <1>2
    <3>3. n # 0 => g[n] = f[n]
      BY <2>5, <3>2
    <3> QED
      BY <1>2, <3>1, <3>3
  <2>7. \A i \in 1 .. n + 1 : g[i] = h[i]
    BY <1>2, <1>5, <2>5, <2>6
  <2> QED
    BY <1>6, <2>2, <2>7
<1>9. \A g : Flattens(g, t) => g = h
  BY <1>8
<1>10. Unfolds(t)
  BY <1>7, <1>9 DEF Unfolds
<1>11. FlattenSeq(t) = h[n + 1]
  <2>1. (CHOOSE g : Flattens(g, t)) = h
    BY <1>7, <1>9
  <2>2. Len(t) = n + 1 /\ Len(t) # 0
    BY <1>2
  <2> QED
    BY <2>1, <2>2, Zenon DEF FlattenSeq, Flattens
<1>12. last = FlattenSeq(s) \o x
  <2>1. CASE n = 0
    BY <1>4, <2>1
  <2>2. CASE n # 0
    BY <1>4, <2>2
  <2> QED
    BY <2>1, <2>2
<1> QED
  BY <1>5, <1>10, <1>11, <1>12 DEF t

\* Told and Simple speak of the documents only.
LEMMA SameDocs ==
  ASSUME NEW c \in Channel, docs' = docs
  PROVE  /\ Simple(c)' = Simple(c) /\ Told(c)' = Told(c)
         /\ ToldOf(c)' = ToldOf(c)
BY DEF Simple, Told, ToldOf, Parts

LEMMA Undisturbed ==
  ASSUME NEW c \in Channel, Account(c), docs' = docs, seen'[c] = seen[c],
         Waiting(c)' = Waiting(c), Pending(c)' = Pending(c),
         failed' # "member" => failed # "member"
  PROVE  Account(c)'
<1>1. SUFFICES ASSUME Simple(c) PROVE ToldOf(c)' /\ SeenOf(c)' /\ (failed' # "member" => DueOf(c)')
  BY SameDocs DEF Account
<1>2. ToldOf(c) /\ SeenOf(c) /\ (failed # "member" => DueOf(c))
  BY <1>1 DEF Account
<1>3. ToldOf(c)' /\ Told(c)' = Told(c)
  BY <1>2, SameDocs
<1>4. SeenOf(c)'
  BY <1>2, <1>3 DEF SeenOf
<1>5. DueOf(c) => DueOf(c)'
  BY <1>3 DEF DueOf
<1> QED
  BY <1>2, <1>3, <1>4, <1>5

\* The callback goes on from element i to the first that names a channel: what is left
\* for c is what is left from there.
LEMMA Onwards ==
  ASSUME NEW doc \in Document, NEW i \in Nat \ {0}, GoElement(doc, i), NEW c \in Channel,
         DOMAIN at = Threads
  PROVE  at'[Io] # "idle" /\ (\E k \in Own(c, doc) : pos' <= k)
         <=> \E k \in Own(c, doc) : i <= k
<1> DEFINE named == { k \in i .. Len(doc) : doc[k] # NoChannel }
<1>1. doc \in Seq(Channel \cup {NoChannel}) /\ NoChannel # c /\ Io \in Threads
  BY PipelineAssumption DEF Threads
<1>2. \A k \in Own(c, doc) : i <= k => k \in named
  BY <1>1 DEF Own
<1>3. CASE named = {}
  BY <1>1, <1>2, <1>3 DEF GoElement, Go
<1>4. CASE named # {}
  <2>1. /\ at'[Io] = "check" /\ pos' \in Nat /\ i <= pos' /\ \A k \in named : pos' <= k
    BY <1>1, <1>4 DEF GoElement, Go
  <2>2. \A k \in Own(c, doc) : k \in Nat
    BY <1>1 DEF Own
  <2> HIDE DEF named
  <2> QED
    BY <1>2, <2>1, <2>2
<1> QED
  BY <1>3, <1>4

LEMMA WaitingType ==
  ASSUME Consistent, NEW c \in Channel
  PROVE  Waiting(c) \in Seq(1 .. MaxDocs) /\ Len(Waiting(c)) \in Nat
<1>1. Waiting(c) \in Seq(1 .. MaxDocs)
  <2>1. queues \in Seq(Seq(1 .. MaxDocs)) /\ map \in [DOMAIN map -> DOMAIN queues]
    BY DEF Consistent, TypeOK
  <2>2. c \in DOMAIN map => queues[map[c]] \in Seq(1 .. MaxDocs)
    BY <2>1
  <2> QED
    BY <2>2, EmptySeq DEF Waiting
<1> QED
  BY <1>1

LEMMA QueuesOfOthers ==
  ASSUME Consistent, NEW t \in Threads, at[t] = "use", NEW c \in Channel, c # Name(t),
         map' = map, NEW x, queues' = [queues EXCEPT ![ref[t]] = x]
  PROVE  Waiting(c)' = Waiting(c)
<1>1. Name(t) \in DOMAIN map /\ ref[t] = map[Name(t)]
  BY DEF Consistent, OneQueue
<1>2. \A d \in DOMAIN map : map[d] \in DOMAIN queues
  BY DEF Consistent, TypeOK
<1>3. c \in DOMAIN map => map[c] # ref[t]
  BY <1>1 DEF Consistent, OneQueue
<1> QED
  BY <1>2, <1>3 DEF Waiting

LEMMA QueueOfOne ==
  ASSUME Consistent, NEW t \in Threads, at[t] = "use", NEW c \in Channel, c = Name(t),
         map' = map, NEW x, queues' = [queues EXCEPT ![ref[t]] = x]
  PROVE  Waiting(c) = queues[ref[t]] /\ Waiting(c)' = x
<1>1. c \in DOMAIN map /\ ref[t] = map[c] /\ ref[t] \in DOMAIN queues
  BY DEF Consistent, OneQueue, TypeOK
<1> QED
  BY <1>1 DEF Waiting

LEMMA Steps ==
  ASSUME Consistent
  PROVE  DOMAIN at = Threads /\ Io \in Threads
<1>1. DOMAIN at = Threads
  BY DEF Consistent, TypeOK
<1> QED
  BY <1>1 DEF Threads

LEMMA CheckAccounts ==
  ASSUME IInv, NEW t \in Threads, Check(t)
  PROVE  \A c \in Channel : Account(c)'
<1>1. /\ at[t] = "check" /\ DOMAIN at = Threads /\ Io \in Threads
      /\ UNCHANGED <<map, queues, docs, pos, seen, failed>>
      /\ at' = [at EXCEPT ![t] = "lookup"] \/ at' = [at EXCEPT ![t] = "insert"]
  BY Steps DEF IInv, Check, At, Go
<1>2. at'[Io] # "idle" <=> at[Io] # "idle"
  BY <1>1
<1>3. ASSUME NEW c \in Channel
      PROVE  Waiting(c)' = Waiting(c) /\ Pending(c)' = Pending(c)
  BY <1>1, <1>2 DEF Waiting, Pending, Current
<1> QED
  BY <1>1, <1>3, Undisturbed DEF IInv

LEMMA InsertAccounts ==
  ASSUME IInv, NEW t \in Threads, Insert(t)
  PROVE  \A c \in Channel : Account(c)'
<1>1. /\ at[t] = "insert" /\ DOMAIN at = Threads /\ Io \in Threads
      /\ UNCHANGED <<docs, pos, seen, failed>>
      /\ at' = [at EXCEPT ![t] = "lookup"] /\ Name(t) \notin DOMAIN map
  BY Steps DEF IInv, Consistent, OneQueue, Insert, At, Go
<1>2. at'[Io] # "idle" <=> at[Io] # "idle"
  BY <1>1
<1>3. /\ queues' = Append(queues, <<>>) /\ queues \in Seq(Seq(1 .. MaxDocs))
      /\ DOMAIN map' = DOMAIN map \cup {Name(t)}
      /\ map'[Name(t)] = Len(queues) + 1
      /\ \A c \in DOMAIN map : map'[c] = map[c] /\ map[c] \in 1 .. Len(queues)
  BY <1>1 DEF Insert, IInv, Consistent, TypeOK
<1>4. ASSUME NEW c \in Channel
      PROVE  Waiting(c)' = Waiting(c) /\ Pending(c)' = Pending(c)
  <2>1. Waiting(c)' = Waiting(c)
    BY <1>1, <1>3 DEF Waiting
  <2>2. Pending(c)' = Pending(c)
    BY <1>1, <1>2 DEF Pending, Current
  <2> QED
    BY <2>1, <2>2
<1> QED
  BY <1>1, <1>4, Undisturbed DEF IInv

LEMMA LookupAccounts ==
  ASSUME IInv, NEW t \in Threads, Lookup(t)
  PROVE  \A c \in Channel : Account(c)'
<1>1. /\ at[t] = "lookup" /\ DOMAIN at = Threads /\ Io \in Threads
      /\ UNCHANGED <<map, queues, docs, pos, seen>>
      /\ at' = [at EXCEPT ![t] = "use"] \/ at' = at
      /\ failed = "no"
  BY Steps DEF IInv, Lookup, At, Go
<1>2. at'[Io] # "idle" <=> at[Io] # "idle"
  BY <1>1
<1>3. ASSUME NEW c \in Channel
      PROVE  Waiting(c)' = Waiting(c) /\ Pending(c)' = Pending(c)
  BY <1>1, <1>2 DEF Waiting, Pending, Current
<1> QED
  BY <1>1, <1>3, Undisturbed DEF IInv

LEMMA ReceiveAccounts ==
  ASSUME IInv, NEW doc \in Document, Receive(doc)
  PROVE  \A c \in Channel : Account(c)'
<1> SUFFICES ASSUME NEW c \in Channel, Simple(c)'
             PROVE  ToldOf(c)' /\ SeenOf(c)' /\ (failed' # "member" => DueOf(c)')
  BY DEF Account
<1> DEFINE n == Len(docs) + 1
           part == Of(n, Own(c, doc))
<1>1. /\ at[Io] = "idle" /\ docs' = Append(docs, doc) /\ GoElement(doc, 1)
      /\ UNCHANGED <<map, queues, seen, failed>>
      /\ docs \in Seq(Document) /\ Current' = doc /\ n \in Nat \ {0}
  BY DEF IInv, Consistent, TypeOK, Receive, At, Current
<1>2. /\ Len(docs') = n /\ docs'[n] = doc /\ DOMAIN docs' = 1 .. n
      /\ DOMAIN docs = 1 .. n - 1
      /\ \A k \in DOMAIN docs : docs'[k] = docs[k]
  BY <1>1
<1>3. Simple(c) /\ \A i, j \in Own(c, doc) : i = j
  BY <1>2 DEF Simple
<1>4. ToldOf(c) /\ SeenOf(c) /\ (failed # "member" => DueOf(c))
  BY <1>3 DEF IInv, Account
<1>5. Waiting(c)' = Waiting(c) /\ ~ Pending(c) /\ Len(Waiting(c)) \in Nat
  BY <1>1, WaitingType DEF IInv, Waiting, Pending
<1>6. Pending(c)' <=> Own(c, doc) # {}
  <2>1. at'[Io] # "idle" /\ (\E k \in Own(c, doc) : pos' <= k)
        <=> \E k \in Own(c, doc) : 1 <= k
    BY <1>1, Onwards, Steps DEF IInv
  <2>2. \A k \in Own(c, doc) : 1 <= k
    BY PipelineAssumption DEF Own
  <2> QED
    BY <1>1, <2>1, <2>2 DEF Pending
<1>7. /\ part \in Seq(Nat \X Nat)
      /\ \/ Own(c, doc) = {} /\ part = <<>>
         \/ \E i \in Nat : Own(c, doc) = {i} /\ part = << <<n, i>> >>
  BY <1>1, <1>3, OfSimple
<1>8. Parts(c) \in Seq(Seq(Nat \X Nat))
  <2>1. \A k \in 1 .. Len(docs) : Of(k, Own(c, docs[k])) \in Seq(Nat \X Nat)
    BY <1>1, <1>3, OfSimple DEF Simple
  <2> QED
    BY <1>1, <2>1 DEF Parts
<1> HIDE DEF n, part
<1>9. Unfolds(Parts(c)') /\ Told(c)' = Told(c) \o part
  <2>1. Parts(c)' = Append(Parts(c), part)
    BY <1>1, <1>2 DEF Parts, n, part
  <2>2. Told(c) = FlattenSeq(Parts(c)) /\ Told(c)' = FlattenSeq(Parts(c)')
    BY DEF Told, Parts
  <2> QED
    BY <1>4, <1>7, <1>8, <2>1, <2>2, FlattenGrows DEF ToldOf
<1> DEFINE told == Told(c)
<1>10. told \in Seq(Nat \X Nat) /\ Len(told) \in Nat
  BY <1>4 DEF ToldOf
<1>11. CASE Own(c, doc) = {} /\ part = <<>>
  <2>1. Told(c)' = told /\ ~ Pending(c)'
    BY <1>6, <1>9, <1>10, <1>11
  <2>2. ToldOf(c)'
    BY <1>2, <1>4, <1>9, <2>1 DEF ToldOf
  <2>3. SeenOf(c)'
    BY <1>1, <1>4, <2>1 DEF SeenOf
  <2>4. DueOf(c) => DueOf(c)'
    BY <1>1, <1>5, <2>1 DEF DueOf
  <2> QED
    BY <1>1, <1>4, <2>2, <2>3, <2>4
<1>12. ASSUME NEW i \in Nat, Own(c, doc) = {i}, part = << <<n, i>> >>
       PROVE  ToldOf(c)' /\ SeenOf(c)' /\ (failed' # "member" => DueOf(c)')
  <2> HIDE DEF told
  <2>1. /\ Told(c)' = Append(told, <<n, i>>) /\ Told(c)' \in Seq(Nat \X Nat)
        /\ Len(Told(c)') = Len(told) + 1 /\ Told(c)'[Len(told) + 1] = <<n, i>>
        /\ \A k \in 1 .. Len(told) : Told(c)'[k] = told[k]
    BY <1>1, <1>9, <1>10, <1>12 DEF n, told
  <2>2. ToldOf(c)'
    <3>1. ASSUME NEW k \in 1 .. Len(told) + 1
          PROVE  /\ Told(c)'[k][1] \in 1 .. n
                 /\ Told(c)'[k][2] \in Own(c, docs'[Told(c)'[k][1]])
      <4>1. CASE k = Len(told) + 1
        BY <1>1, <1>2, <1>12, <2>1, <4>1
      <4>2. CASE k # Len(told) + 1
        <5>1. k \in 1 .. Len(told) /\ k \in DOMAIN told
          BY <1>10, <4>2
        <5>2. told[k][1] \in DOMAIN docs /\ told[k][2] \in Own(c, docs[told[k][1]])
          BY <1>4, <5>1 DEF ToldOf, told
        <5> QED
          BY <1>1, <1>2, <2>1, <5>1, <5>2
      <4> QED
        BY <4>1, <4>2
    <3> QED
      BY <1>2, <1>9, <2>1, <3>1 DEF ToldOf
  <2>3. SeenOf(c)'
    <3>1. seen[c] \in Seq(Nat \X Nat) /\ Len(seen[c]) \in Nat /\ Len(seen[c]) <= Len(told)
          /\ \A k \in 1 .. Len(seen[c]) : seen[c][k] = told[k]
      BY <1>4 DEF SeenOf, told
    <3>2. Len(seen[c]) <= Len(Told(c)')
          /\ \A k \in 1 .. Len(seen[c]) : seen[c][k] = Told(c)'[k]
      BY <1>10, <2>1, <3>1
    <3> QED
      BY <1>1, <3>1, <3>2 DEF SeenOf
  <2>4. ASSUME DueOf(c) PROVE DueOf(c)'
    <3>1. Pending(c)' /\ Len(told) = Len(seen[c]) + Len(Waiting(c))
          /\ Len(seen[c]) \in Nat
      BY <1>4, <1>5, <1>6, <1>12, <2>4 DEF DueOf, SeenOf, told
    <3>2. \A k \in 1 .. Len(Waiting(c)) : Told(c)'[Len(seen[c]) + k][1] = Waiting(c)[k]
      <4>1. TAKE k \in 1 .. Len(Waiting(c))
      <4>2. Len(seen[c]) + k \in 1 .. Len(told)
        BY <1>5, <1>10, <3>1
      <4>3. told[Len(seen[c]) + k][1] = Waiting(c)[k]
        BY <2>4 DEF DueOf, told
      <4> QED
        BY <2>1, <4>2, <4>3
    <3>3. Len(Told(c)') = Len(seen[c]) + Len(Waiting(c)) + 1
          /\ Told(c)'[Len(Told(c)')][1] = n
      BY <1>1, <2>1, <3>1
    <3> QED
      BY <1>1, <1>2, <1>5, <3>1, <3>2, <3>3 DEF DueOf
  <2> QED
    BY <1>1, <1>4, <2>2, <2>3, <2>4
<1> QED
  BY <1>7, <1>11, <1>12

LEMMA PushAccounts ==
  ASSUME IInv, Push
  PROVE  \A c \in Channel : Account(c)'
<1> DEFINE p == Current[pos]
<1>1. /\ at[Io] = "use" /\ GoElement(Current, pos + 1) /\ Io \in Threads
      /\ queues' = [queues EXCEPT ![ref[Io]] = Append(@, Len(docs))]
      /\ UNCHANGED <<map, docs, seen, failed>>
  BY PipelineAssumption DEF Push, At, Threads
<1>2. /\ docs \in Seq(Document) /\ Len(docs) \in Nat /\ Current \in Document
      /\ pos \in DOMAIN Current /\ pos \in Nat /\ pos + 1 \in Nat \ {0}
      /\ p \in Channel /\ p = Name(Io) /\ Current' = Current
  BY <1>1 DEF IInv, Consistent, TypeOK, InLoop, Current, Name
<1>3. ASSUME NEW c \in Channel
      PROVE  /\ Pending(c)' <=> \E k \in Own(c, Current) : pos + 1 <= k
             /\ \A k \in Own(c, Current) : k \in Nat
  <2>1. at'[Io] # "idle" /\ (\E k \in Own(c, Current) : pos' <= k)
        <=> \E k \in Own(c, Current) : pos + 1 <= k
    BY <1>1, <1>2, Onwards, Steps DEF IInv
  <2>2. Pending(c)' <=> at'[Io] # "idle" /\ \E k \in Own(c, Current) : pos' <= k
    BY <1>2 DEF Pending
  <2>3. \A k \in Own(c, Current) : k \in Nat
    BY <1>2, PipelineAssumption DEF Own
  <2> QED
    BY <2>1, <2>2, <2>3
<1> SUFFICES ASSUME NEW c \in Channel PROVE Account(c)'
  OBVIOUS
<1>4. CASE c # p
  <2>1. Waiting(c)' = Waiting(c)
    BY <1>1, <1>2, <1>4, QueuesOfOthers DEF IInv
  <2>2. pos \notin Own(c, Current)
    BY <1>4 DEF Own
  <2>3. Pending(c)' = Pending(c)
    <3>1. \A k \in Own(c, Current) : pos <= k <=> pos + 1 <= k
      BY <1>2, <1>3, <2>2
    <3>2. Pending(c) <=> \E k \in Own(c, Current) : pos <= k
      BY <1>1 DEF Pending
    <3>3. Pending(c)' <=> Pending(c)
      BY <1>3, <3>1, <3>2
    <3> QED
      BY <3>3 DEF Pending
  <2> QED
    BY <1>1, <2>1, <2>3, Undisturbed DEF IInv
<1>5. CASE c = p
  <2> SUFFICES ASSUME Simple(c)
               PROVE  ToldOf(c)' /\ SeenOf(c)' /\ (failed' # "member" => DueOf(c)')
    BY <1>1, SameDocs DEF Account
  <2>1. ToldOf(c) /\ SeenOf(c) /\ (failed # "member" => DueOf(c))
    BY DEF IInv, Account
  <2>2. ToldOf(c)' /\ Told(c)' = Told(c)
    BY <1>1, <2>1, SameDocs
  <2>3. SeenOf(c)'
    BY <1>1, <2>1, <2>2 DEF SeenOf
  <2>4. Waiting(c)' = Append(Waiting(c), Len(docs))
    BY <1>1, <1>2, <1>5, QueueOfOne DEF IInv
  <2>5. pos \in Own(c, Current) /\ \A k \in Own(c, Current) : k = pos
    <3>1. pos \in Own(c, Current)
      BY <1>2, <1>5 DEF Own
    <3>2. Len(docs) \in DOMAIN docs
      BY <1>1, <1>2 DEF IInv, Consistent, InLoop
    <3> QED
      BY <3>1, <3>2 DEF Simple, Current
  <2>6. Pending(c) /\ ~ Pending(c)'
    <3>1. Pending(c)
      BY <1>1, <1>2, <2>5 DEF Pending
    <3> QED
      BY <1>2, <1>3, <2>5, <3>1
  <2>7. Waiting(c) \in Seq(1 .. MaxDocs) /\ Len(Waiting(c)) \in Nat
    BY WaitingType DEF IInv
  <2>8. Len(seen[c]) \in Nat
    BY <2>1 DEF SeenOf
  <2>9. ASSUME DueOf(c) PROVE DueOf(c)'
    <3> DEFINE q == Waiting(c)
               r == Len(seen[c])
               told == Told(c)
    <3>1. /\ Len(told) = r + Len(q) + 1 /\ told[Len(told)][1] = Len(docs)
          /\ \A k \in 1 .. Len(q) : told[r + k][1] = q[k]
      BY <2>6, <2>9 DEF DueOf
    <3>2. Len(Waiting(c)') = Len(q) + 1 /\ Waiting(c)'[Len(q) + 1] = Len(docs)
          /\ \A k \in 1 .. Len(q) : Waiting(c)'[k] = q[k]
      BY <1>2, <2>4, <2>7
    <3>0. Len(q) \in Nat /\ r \in Nat
      BY <2>7, <2>8
    <3> HIDE DEF q, r, told
    <3>3. ASSUME NEW k \in 1 .. Len(q) + 1 PROVE told[r + k][1] = Waiting(c)'[k]
      <4>1. CASE k = Len(q) + 1
        <5>1. r + k = Len(told)
          BY <3>0, <3>1, <4>1
        <5> QED
          BY <3>1, <3>2, <4>1, <5>1
      <4>2. CASE k # Len(q) + 1
        <5>1. k \in 1 .. Len(q)
          BY <3>0, <4>2
        <5> QED
          BY <3>1, <3>2, <5>1
      <4> QED
        BY <4>1, <4>2
    <3>4. Len(told) = r + Len(Waiting(c)')
      BY <3>0, <3>1, <3>2
    <3>5. \A k \in 1 .. Len(Waiting(c)') : told[r + k][1] = Waiting(c)'[k]
      BY <3>2, <3>3
    <3>6. Told(c)' = told /\ Len(seen'[c]) = r /\ ~ Pending(c)' /\ r \in Nat
      BY <1>1, <2>2, <2>6, <3>0 DEF told, r
    <3>7. Len(Waiting(c)') \in Nat
      BY <3>0, <3>2
    <3> QED
      BY <3>4, <3>5, <3>6, <3>7 DEF DueOf
  <2> QED
    BY <1>1, <2>1, <2>2, <2>3, <2>9
<1> QED
  BY <1>4, <1>5

LEMMA ReadAccounts ==
  ASSUME IInv, NEW c \in Channel, Read(c)
  PROVE  \A d \in Channel : Account(d)'
<1> DEFINE q == Waiting(c)
           n == Head(queues[ref[c]])
<1>1. /\ at[c] = "use" /\ c \in Threads /\ c # Io /\ c = Name(c) /\ failed = "no"
      /\ queues[ref[c]] # <<>>
      /\ queues' = [queues EXCEPT ![ref[c]] = Tail(@)]
      /\ UNCHANGED <<holder, map, docs, pos>> /\ DOMAIN seen = Channel
      /\ at' = at \/ at' = [at EXCEPT ![c] = "check"]
      /\ \/ failed' = "member" /\ seen' = seen
         \/ /\ failed' = failed
            /\ seen' = [seen EXCEPT ![c] = @ \o Of(n, Used(c, docs[n]))]
  BY PipelineAssumption DEF IInv, Consistent, TypeOK, Read, At, Go, Threads, Name
<1>2. at'[Io] = at[Io]
  BY <1>1, Steps DEF IInv
<1>3. \A d \in Channel : Pending(d)' = Pending(d)
  BY <1>1, <1>2 DEF Pending, Current
<1>4. ASSUME NEW d \in Channel, d # c PROVE Account(d)'
  <2>1. Waiting(d)' = Waiting(d)
    BY <1>1, <1>4, QueuesOfOthers DEF IInv
  <2>2. seen'[d] = seen[d]
    BY <1>1, <1>4
  <2> QED
    BY <1>1, <1>3, <2>1, <2>2, Undisturbed DEF IInv
<1>5. Account(c)'
  <2> SUFFICES ASSUME Simple(c)
               PROVE  ToldOf(c)' /\ SeenOf(c)' /\ (failed' # "member" => DueOf(c)')
    BY <1>1, SameDocs DEF Account
  <2>1. ToldOf(c) /\ SeenOf(c) /\ DueOf(c)
    BY <1>1 DEF IInv, Account
  <2>2. ToldOf(c)' /\ Told(c)' = Told(c)
    BY <1>1, <2>1, SameDocs
  <2>3. q = queues[ref[c]] /\ Waiting(c)' = Tail(q)
    BY <1>1, QueueOfOne DEF IInv
  <2>4. /\ q \in Seq(1 .. MaxDocs) /\ Len(q) \in Nat \ {0} /\ n = q[1]
        /\ Len(Waiting(c)') = Len(q) - 1
        /\ \A k \in 1 .. Len(q) - 1 : Waiting(c)'[k] = q[k + 1]
    <3>1. q \in Seq(1 .. MaxDocs)
      BY WaitingType DEF IInv
    <3> QED
      BY <1>1, <2>3, <3>1
  <2> DEFINE r == Len(seen[c])
             told == Told(c)
  <2>5. /\ told \in Seq(Nat \X Nat) /\ Len(told) \in Nat /\ r \in Nat
        /\ seen[c] \in Seq(Nat \X Nat) /\ \A k \in 1 .. r : seen[c][k] = told[k]
        /\ Len(told) = r + Len(q) + (IF Pending(c) THEN 1 ELSE 0)
        /\ \A k \in 1 .. Len(q) : told[r + k][1] = q[k]
        /\ Pending(c) => told[Len(told)][1] = Len(docs)
    <3>1. /\ told \in Seq(Nat \X Nat) /\ seen[c] \in Seq(Nat \X Nat)
          /\ \A k \in 1 .. r : seen[c][k] = told[k]
      BY <2>1 DEF ToldOf, SeenOf
    <3>2. /\ Len(told) = r + Len(q) + (IF Pending(c) THEN 1 ELSE 0)
          /\ \A k \in 1 .. Len(q) : told[r + k][1] = q[k]
          /\ Pending(c) => told[Len(told)][1] = Len(docs)
      BY <2>1 DEF DueOf
    <3>3. Len(told) \in Nat /\ r \in Nat
      BY <3>1
    <3> QED
      BY <3>1, <3>2, <3>3
  <2> HIDE DEF told, r, q, n
  <2>6. CASE failed' = "member" /\ seen' = seen
    BY <2>1, <2>2, <2>6 DEF SeenOf
  <2>7. CASE failed' = failed /\ seen' = [seen EXCEPT ![c] = @ \o Of(n, Used(c, docs[n]))]
    <3>1. r + 1 \in DOMAIN told /\ told[r + 1][1] = n /\ told[r + 1] \in Nat \X Nat
      BY <2>4, <2>5
    <3> DEFINE i == told[r + 1][2]
    <3>2. n \in DOMAIN docs /\ i \in Own(c, docs[n]) /\ i \in Nat /\ n \in Nat
          /\ told[r + 1] = <<n, i>>
      BY <2>1, <3>1 DEF ToldOf, told
    <3> HIDE DEF i
    <3>3. Used(c, docs[n]) = {i}
      <4>1. \A j, k \in Own(c, docs[n]) : j = k /\ (c \in Heads => j = 1)
        BY <3>2 DEF Simple
      <4>2. Own(c, docs[n]) = {i}
        BY <3>2, <4>1
      <4> QED
        BY <3>2, <4>1, <4>2 DEF Used
    <3>4. seen'[c] = seen[c] \o << <<n, i>> >>
      BY <1>1, <2>7, <3>3, OfOne
    <3>5. /\ seen'[c] \in Seq(Nat \X Nat) /\ Len(seen'[c]) = r + 1
          /\ seen'[c][r + 1] = <<n, i>>
          /\ \A k \in 1 .. r : seen'[c][k] = seen[c][k]
      BY <2>5, <3>2, <3>4 DEF r
    <3>6. SeenOf(c)'
      <4>1. r + 1 <= Len(told)
        BY <2>4, <2>5
      <4>2. \A k \in 1 .. r + 1 : seen'[c][k] = told[k]
        <5>1. ASSUME NEW k \in 1 .. r + 1 PROVE k = r + 1 \/ k \in 1 .. r
          BY <2>5
        <5> QED
          BY <2>5, <3>2, <3>5, <5>1
      <4> QED
        BY <2>2, <3>5, <4>1, <4>2 DEF SeenOf, told
    <3>7. DueOf(c)'
      <4>1. Len(told) = Len(seen'[c]) + Len(Waiting(c)') + (IF Pending(c) THEN 1 ELSE 0)
        BY <2>4, <2>5, <3>5
      <4>2. \A k \in 1 .. Len(Waiting(c)') : told[Len(seen'[c]) + k][1] = Waiting(c)'[k]
        <5>1. TAKE k \in 1 .. Len(Waiting(c)')
        <5>2. k + 1 \in 1 .. Len(q) /\ Len(seen'[c]) + k = r + (k + 1)
              /\ Waiting(c)'[k] = q[k + 1]
          BY <2>4, <2>5, <3>5
        <5>3. told[r + (k + 1)][1] = q[k + 1]
          BY <2>5, <5>2
        <5> QED
          BY <5>2, <5>3
      <4>3. Pending(c) => told[Len(told)][1] = Len(docs)
        BY <2>5
      <4> QED
        BY <1>1, <1>3, <2>2, <4>1, <4>2, <4>3 DEF DueOf, told
    <3> QED
      BY <2>2, <3>6, <3>7
  <2> QED
    BY <1>1, <2>6, <2>7 DEF n
<1> QED
  BY <1>4, <1>5

\* As long as documents name a channel once, where its reader looks, the reader gets
\* every element for it, once, in the order it was sent, and is behind only by what
\* waits on its queue: for any number of documents, channels and readers.
THEOREM ReadInOrder == Spec => []ReadsAsSent
<1>1. Init => IInv
  <2> SUFFICES ASSUME Init PROVE IInv
    OBVIOUS
  <2>1. Consistent
    BY InitConsistent
  <2>2. /\ docs = <<>> /\ Len(docs) = 0 /\ at[Io] = "idle" /\ map = <<>> /\ DOMAIN map = {}
        /\ \A c \in Channel : seen[c] = <<>>
    BY DEF Init, Threads
  <2>3. ASSUME NEW c \in Channel PROVE Account(c)
    <3>1. Parts(c) = <<>>
      BY <2>2 DEF Parts
    <3>2. Told(c) = <<>>
      BY <2>2 DEF Told, FlattenSeq
    <3>3. Unfolds(<<>>)
      <4>1. Flattens(<<>>, <<>>) /\ \A g : Flattens(g, <<>>) => g = <<>>
        BY DEF Flattens
      <4> QED
        BY <4>1 DEF Unfolds
    <3>4. ToldOf(c)
      BY <3>1, <3>2, <3>3, EmptySeq DEF ToldOf
    <3>5. SeenOf(c)
      <4>1. seen[c] = <<>> /\ Len(seen[c]) = 0 /\ Len(Told(c)) = 0
        BY <2>2, <3>2
      <4> QED
        BY <4>1, EmptySeq DEF SeenOf
    <3>6. DueOf(c)
      BY <2>2, <3>2 DEF DueOf, Waiting, Pending
    <3> QED
      BY <3>4, <3>5, <3>6 DEF Account
  <2> QED
    BY <2>1, <2>3 DEF IInv
<1>2. IInv /\ [Next]_vars => IInv'
  <2> SUFFICES ASSUME IInv, [Next]_vars PROVE IInv'
    OBVIOUS
  <2>1. Consistent'
    BY NextConsistent DEF IInv
  <2> SUFFICES \A c \in Channel : Account(c)'
    BY <2>1 DEF IInv
  <2>2. ASSUME NEW t \in Threads, GetQueue(t) PROVE \A c \in Channel : Account(c)'
    BY <2>2, CheckAccounts, InsertAccounts, LookupAccounts DEF GetQueue
  <2>3. CASE Callback
    BY <2>2, <2>3, PushAccounts DEF Callback, Threads
  <2>4. ASSUME NEW doc \in Document, Receive(doc) PROVE \A c \in Channel : Account(c)'
    BY <2>4, ReceiveAccounts
  <2>5. ASSUME NEW c \in Channel, Reader(c) PROVE \A d \in Channel : Account(d)'
    BY <2>2, <2>5, ReadAccounts DEF Reader, Threads
  <2>6. CASE UNCHANGED vars
    <3>1. \A c \in Channel : Waiting(c)' = Waiting(c) /\ Pending(c)' = Pending(c)
      BY <2>6 DEF vars, Waiting, Pending, Current
    <3> QED
      BY <2>6, <3>1, Undisturbed DEF vars, IInv
  <2> QED
    BY <2>3, <2>4, <2>5, <2>6 DEF Next
<1>3. IInv => ReadsAsSent
  <2> SUFFICES ASSUME IInv, NEW c \in Channel, Simple(c)
               PROVE  /\ IsPrefix(seen[c], Told(c))
                      /\ Drained(c) => seen[c] = Told(c)
    BY DEF ReadsAsSent
  <2>1. ToldOf(c) /\ SeenOf(c) /\ (failed # "member" => DueOf(c))
    BY DEF IInv, Account
  <2>2. /\ seen[c] \in Seq(Nat \X Nat) /\ Told(c) \in Seq(Nat \X Nat)
        /\ Len(seen[c]) <= Len(Told(c))
        /\ \A k \in 1 .. Len(seen[c]) : seen[c][k] = Told(c)[k]
    BY <2>1 DEF ToldOf, SeenOf
  <2>3. IsPrefix(seen[c], Told(c))
    <3> DEFINE s == seen[c]
               t == Told(c)
    <3>1. s \in Seq(Nat \X Nat) /\ t \in Seq(Nat \X Nat) /\ Len(s) <= Len(t)
          /\ \A k \in 1 .. Len(s) : s[k] = t[k]
      BY <2>2
    <3> HIDE DEF s, t
    <3>2. SubSeq(s, 1, Len(s)) = [k \in 1 .. Len(s) |-> s[k]]
          /\ SubSeq(t, 1, Len(s)) = [k \in 1 .. Len(s) |-> t[k]]
      BY <3>1
    <3> QED
      BY <3>1, <3>2 DEF IsPrefix, s, t
  <2>4. ASSUME Drained(c) PROVE seen[c] = Told(c)
    <3>1. Len(Told(c)) = Len(seen[c])
      BY <2>1, <2>2, <2>4 DEF Drained, DueOf, Pending
    <3> QED
      BY <2>2, <3>1, SeqEqual
  <2> QED
    BY <2>3, <2>4
<1> QED
  BY <1>1, <1>2, <1>3, PTL DEF Spec
=============================================================================
