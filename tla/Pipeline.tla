------------------------------ MODULE Pipeline ------------------------------
(* How a message reaches its readers: cn_callbak_message (okbot.cpp), the map of
   queues (pipeline.h), and the ways the documents on a queue are read.  A document
   is the list of the channels its elements name.  The queues are those of
   AtomicQueue; each channel has one reader, a thread of its own.              *)
EXTENDS Integers, Sequences, FiniteSets, SequencesExt

CONSTANTS
  Walks,      \* channels whose reader loops over the elements: klines, trade replies
  Finds,      \* ... calls json_util::get_data: account information
  Heads,      \* ... reads element 0, whatever it is: order information
  Io,         \* the thread of the connection, which makes the callbacks
  NoChannel,  \* of an element without the member "channel"
  Document,   \* what the server may send: the channels of the elements, in order
  MaxDocs     \* bound: documents received

Channel == Walks \cup Finds \cup Heads
Threads == Channel \cup {Io}

ASSUME PipelineAssumption ==
  /\ Io \notin Channel /\ NoChannel \notin Threads /\ IsFiniteSet(Channel)
  /\ Walks \cap Finds = {} /\ (Walks \cup Finds) \cap Heads = {}
  /\ Document \subseteq Seq(Channel \cup {NoChannel}) /\ MaxDocs \in Nat

VARIABLES
  at,       \* per thread: the step it is about to take
  holder,   \* who is inside get_queue's block with lock, NoChannel if nobody
  map,      \* queue_map: the index of each channel's queue in queues
  queues,   \* every Queue made: the numbers of the documents on it
  ref,      \* per thread: the queue get_queue returned, 0 before
  docs,     \* the documents received, in order
  pos,      \* the callback's index into the last of them, 0 when it has returned
  seen,     \* per reader: the elements it has read, <<document, index>>
  failed    \* how the program died: "no", "race" or "member"

vars == <<at, holder, map, queues, ref, docs, pos, seen, failed>>

\* Readers begin with get_queue, each for its channel.
Init ==
  /\ at = [t \in Threads |-> IF t = Io THEN "idle" ELSE "check"]
  /\ holder = NoChannel
  /\ map = <<>> /\ queues = <<>> /\ ref = [t \in Threads |-> 0]
  /\ docs = <<>> /\ pos = 0 /\ seen = [c \in Channel |-> <<>>] /\ failed = "no"

At(t, step) == at[t] = step /\ failed = "no"
Go(t, step) == at' = [at EXCEPT ![t] = step]

\* The document in the callback, and the channel a thread asks get_queue for.
Current == docs[Len(docs)]
Name(t) == IF t = Io THEN Current[pos] ELSE t

\* The queue is a local of the callback's loop and of the reader's calls.
Forget(t) == ref' = [ref EXCEPT ![t] = 0]
-----------------------------------------------------------------------------
(* Pipeline::get_queue. *)

\* Mutant: the count is looked at before the lock is taken.
CheckUnlocked(t) ==
  /\ At(t, "check")
  /\ Go(t, IF Name(t) \in DOMAIN map THEN "lookup" ELSE "insert")
  /\ UNCHANGED <<holder, map, queues, ref, docs, pos, seen, failed>>

\* In the block with the lock: a channel not yet there ...
Check(t) ==
  /\ At(t, "check") /\ holder = NoChannel
  /\ IF Name(t) \in DOMAIN map
     THEN Go(t, "lookup") /\ UNCHANGED holder
     ELSE Go(t, "insert") /\ holder' = t
  /\ UNCHANGED <<map, queues, ref, docs, pos, seen, failed>>

\* ... is given a new queue.
Insert(t) ==
  /\ At(t, "insert") /\ Go(t, "lookup") /\ holder' = NoChannel
  /\ queues' = Append(queues, <<>>)
  /\ map' = [c \in DOMAIN map \cup {Name(t)} |->
               IF c = Name(t) THEN Len(queues') ELSE map[c]]
  /\ UNCHANGED <<ref, docs, pos, seen, failed>>

\* The map is read again after the block.  While another thread inserts, that is
\* a data race on the hash table, in which the lookup finds the queue, or finds
\* none and dereferences a null pointer.
Lookup(t) ==
  /\ At(t, "lookup")
  /\ \/ /\ ref' = [ref EXCEPT ![t] = map[Name(t)]] /\ Go(t, "use") /\ UNCHANGED failed
     \/ /\ \E u \in Threads \ {t} : at[u] = "insert"
        /\ failed' = "race" /\ UNCHANGED <<at, ref>>
  /\ UNCHANGED <<holder, map, queues, docs, pos, seen>>

GetQueue(t) == Check(t) \/ Insert(t) \/ Lookup(t)
-----------------------------------------------------------------------------
(* cn_callbak_message. *)

\* On to the next element of doc that names a channel, from index i, or to the end.
GoElement(doc, i) ==
  LET named == { k \in i .. Len(doc) : doc[k] # NoChannel } IN
    IF named = {} THEN Go(Io, "idle") /\ pos' = 0
    ELSE Go(Io, "check") /\ pos' \in named /\ \A k \in named : pos' <= k

Receive(doc) ==
  /\ At(Io, "idle") /\ Len(docs) < MaxDocs
  /\ docs' = Append(docs, doc) /\ GoElement(doc, 1)
  /\ UNCHANGED <<holder, map, queues, ref, seen, failed>>

\* Mutant: the callback returns after the first element that names a channel.
PushOnce ==
  /\ At(Io, "use") /\ Go(Io, "idle") /\ pos' = 0 /\ Forget(Io)
  /\ queues' = [queues EXCEPT ![ref[Io]] = Append(@, Len(docs))]
  /\ UNCHANGED <<holder, map, docs, seen, failed>>

\* For each of these elements the whole document is pushed on its channel's queue.
Push ==
  /\ At(Io, "use") /\ GoElement(Current, pos + 1) /\ Forget(Io)
  /\ queues' = [queues EXCEPT ![ref[Io]] = Append(@, Len(docs))]
  /\ UNCHANGED <<holder, map, docs, seen, failed>>
-----------------------------------------------------------------------------
(* The readers. *)
Own(c, doc) == { i \in DOMAIN doc : doc[i] = c }

\* The elements of a document its reader makes use of.
Used(c, doc) ==
  { i \in Own(c, doc) : /\ c \in Finds => \A j \in Own(c, doc) : i <= j
                        /\ c \in Heads => i = 1 }

\* A loop meets them in ascending order.
InOrder(S) ==
  CHOOSE s \in [1 .. Cardinality(S) -> S] :
    \A i, j \in DOMAIN s : i < j => s[i] < s[j]

Of(n, S) == [k \in 1 .. Cardinality(S) |-> <<n, InOrder(S)[k]>>]

\* A pop and what the reader does with the document.  run_strategy keeps its queue,
\* the others ask for it every time.  A loop over the elements takes the "channel"
\* of each, and rapidjson has none to give for one that lacks it.
Read(c) ==
  /\ At(c, "use") /\ queues[ref[c]] # <<>>
  /\ queues' = [queues EXCEPT ![ref[c]] = Tail(@)]
  /\ LET n == Head(queues[ref[c]]) IN
       IF c \in Walks /\ Contains(docs[n], NoChannel)
       THEN failed' = "member" /\ UNCHANGED <<at, seen, ref>>
       ELSE /\ seen' = [seen EXCEPT ![c] = @ \o Of(n, Used(c, docs[n]))]
            /\ (IF c \in Walks THEN UNCHANGED <<at, ref>> ELSE Go(c, "check") /\ Forget(c))
            /\ UNCHANGED failed
  /\ UNCHANGED <<holder, map, docs, pos>>

Callback == Push \/ GetQueue(Io)
Reader(c) == Read(c) \/ GetQueue(c)

Next ==
  \/ Callback \/ \E doc \in Document : Receive(doc)
  \/ \E c \in Channel : Reader(c)

Spec == Init /\ [][Next]_vars

\* Every thread is scheduled.  The lock is kept over a step only to insert, once per
\* channel, so that waiting for it ends.
Fairness == WF_vars(Callback) /\ \A c \in Channel : WF_vars(Reader(c))

FairSpec == Spec /\ Fairness
-----------------------------------------------------------------------------
TypeOK ==
  /\ at \in [Threads -> {"idle", "check", "insert", "lookup", "use"}]
  /\ holder \in Threads \cup {NoChannel}
  /\ DOMAIN map \subseteq Channel /\ map \in [DOMAIN map -> DOMAIN queues]
  /\ queues \in Seq(Seq(1 .. MaxDocs))
  /\ ref \in [Threads -> 0 .. Len(queues)]
  /\ docs \in Seq(Document) /\ Len(docs) <= MaxDocs /\ pos \in Nat
  /\ DOMAIN seen = Channel
  /\ failed \in {"no", "race", "member"}

\* Whoever asks first, a channel has one queue for ever: none is made and lost, and
\* who pushes and who pops hold the same one.  That is what the lock is for.
OneQueue ==
  /\ Len(queues) = Cardinality(DOMAIN map)
  /\ \A c, d \in DOMAIN map : map[c] = map[d] => c = d
  /\ \A t \in Threads :
       /\ at[t] \in {"lookup", "use"} => Name(t) \in DOMAIN map
       /\ at[t] = "use" => ref[t] = map[Name(t)]
       /\ at[t] = "insert" => Name(t) \notin DOMAIN map
       /\ at[t] = "insert" <=> holder = t

\* Inside its loop the callback stands at an element that names a channel.
InLoop ==
  at[Io] # "idle" => docs # <<>> /\ pos \in DOMAIN Current /\ Current[pos] \in Channel

Consistent == TypeOK /\ InLoop /\ OneQueue

\* What the documents hold for a reader, in the order they came.
Told(c) == FlattenSeq([n \in 1 .. Len(docs) |-> Of(n, Own(c, docs[n]))])

\* The documents c's reader is made for: they name c once, where it looks.
Simple(c) ==
  \A n \in DOMAIN docs : \A i, j \in Own(c, docs[n]) : i = j /\ (c \in Heads => i = 1)

\* The numbers of the documents on c's queue.
Waiting(c) == IF c \in DOMAIN map THEN queues[map[c]] ELSE <<>>

Drained(c) == failed = "no" /\ at[Io] = "idle" /\ Waiting(c) = <<>>

\* A document is pushed once for each element that names the channel and each
\* reader has its own way of reading it.  As long as documents name a channel once,
\* its reader gets every element, once, in order; order information only from
\* documents that begin with it.
ReadsAsSent ==
  \A c \in Channel : Simple(c) =>
    IsPrefix(seen[c], Told(c)) /\ (Drained(c) => seen[c] = Told(c))

\* get_queue reads the map without its lock, but only the first document of a
\* channel, or its reader's first call, can be hurt by it.
RaceOnlyOnFirstUse ==
  [][ failed' = "race" /\ failed # "race" => DOMAIN map # Channel ]_vars

\* Whatever a document holds, a loop over its elements meets each of them, and
\* get_data the first of its channel, unless the program died.
EventuallyRead ==
  \A n \in 1 .. MaxDocs, i \in UNION { DOMAIN doc : doc \in Document },
     c \in Walks \cup Finds :
    /\ n \in DOMAIN docs
    /\ i \in DOMAIN docs[n] /\ docs[n][i] = c
    /\ c \in Finds => \A j \in 1 .. i - 1 : docs[n][j] # c
    ~> Contains(seen[c], <<n, i>>) \/ failed # "no"
=============================================================================
