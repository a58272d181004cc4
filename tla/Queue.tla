------------------------------- MODULE Queue -------------------------------
(* Queue<T> (util/queue.h): a std::queue behind mutex_ and cond_.  What a thread
   does while it holds mutex_ is one step; a wait on cond_ gives the mutex up and
   has to take it again, after a notify_one, for no reason, or at the deadline. *)
EXTENDS Integers, Sequences, FiniteSets

CONSTANTS
  Producer, Consumer,   \* the threads that push, those that pop
  Item, NoItem,         \* documents; what a pop that returned false leaves
  MaxLen                \* bound: items waiting

ASSUME QueueAssumption ==
  /\ IsFiniteSet(Producer) /\ IsFiniteSet(Consumer)
  /\ NoItem \notin Item /\ MaxLen \in Nat

VARIABLES
  queue,   \* queue_
  at,      \* per consumer: where in its pop it is
  timed,   \* per consumer: whether that pop has a time-out
  got,     \* per consumer: what its last pop returned
  notify   \* the producers between mlock.unlock() and cond_.notify_one()

vars == <<queue, at, timed, got, notify>>

TypeOK ==
  /\ queue \in Seq(Item) /\ Len(queue) <= MaxLen
  /\ at \in [Consumer -> {"idle", "enter", "blocked", "woken", "expired"}]
  /\ timed \in [Consumer -> BOOLEAN] /\ got \in [Consumer -> Item \cup {NoItem}]
  /\ notify \subseteq Producer

Init ==
  /\ queue = <<>> /\ at = [c \in Consumer |-> "idle"]
  /\ timed = [c \in Consumer |-> FALSE] /\ got = [c \in Consumer |-> NoItem]
  /\ notify = {}

Blocked == { c \in Consumer : at[c] = "blocked" }
Woken   == { c \in Consumer : at[c] = "woken" }
-----------------------------------------------------------------------------
\* Mutant: notifies only for an item that found the queue empty.
PushQuietly(p, item) ==
  /\ p \notin notify /\ Len(queue) < MaxLen
  /\ queue' = Append(queue, item)
  /\ notify' = (IF queue = <<>> THEN notify \cup {p} ELSE notify)
  /\ UNCHANGED <<at, timed, got>>

\* push: the item goes in under mutex_, ...
Push(p, item) ==
  /\ p \notin notify /\ Len(queue) < MaxLen
  /\ queue' = Append(queue, item) /\ notify' = notify \cup {p}
  /\ UNCHANGED <<at, timed, got>>

\* ... and one waiting consumer, if there is one by now, is woken after it.
NotifyOne(p) ==
  /\ p \in notify /\ notify' = notify \ {p}
  /\ \/ Blocked = {} /\ UNCHANGED at
     \/ \E c \in Blocked : at' = [at EXCEPT ![c] = "woken"]
  /\ UNCHANGED <<queue, timed, got>>

\* A call of pop() or of pop(item, time_out).
Call(c, hasTimeout) ==
  /\ at[c] = "idle" /\ at' = [at EXCEPT ![c] = "enter"]
  /\ timed' = [timed EXCEPT ![c] = hasTimeout]
  /\ UNCHANGED <<queue, got, notify>>

\* Mutant: the predicate is left out; front() of an empty queue is no item.
TakeBlindly(c) ==
  /\ queue' = SubSeq(queue, 2, Len(queue))
  /\ got' = [got EXCEPT ![c] = IF queue = <<>> THEN <<>> ELSE Head(queue)]
  /\ at' = [at EXCEPT ![c] = "idle"]
  /\ UNCHANGED <<timed, notify>>

\* queue_.front() and queue_.pop(), and the return.
Take(c) ==
  /\ queue # <<>> /\ queue' = Tail(queue) /\ got' = [got EXCEPT ![c] = Head(queue)]
  /\ at' = [at EXCEPT ![c] = "idle"]
  /\ UNCHANGED <<timed, notify>>

\* Under mutex_, on entry or woken: the predicate decides between item and wait.
TakeOrWait(c) ==
  /\ at[c] \in {"enter", "woken"}
  /\ \/ Take(c)
     \/ queue = <<>> /\ at' = [at EXCEPT ![c] = "blocked"]
        /\ UNCHANGED <<queue, timed, got, notify>>

SpuriousWakeup(c) ==
  /\ at[c] = "blocked" /\ at' = [at EXCEPT ![c] = "woken"]
  /\ UNCHANGED <<queue, timed, got, notify>>

\* The deadline of wait_until passes; mutex_ is still to be taken.
Expire(c) ==
  /\ at[c] = "blocked" /\ timed[c] /\ at' = [at EXCEPT ![c] = "expired"]
  /\ UNCHANGED <<queue, timed, got, notify>>

\* Mutant: the predicate is not looked at again after the deadline.
ReturnFalse(c) ==
  /\ at[c] = "expired" /\ at' = [at EXCEPT ![c] = "idle"]
  /\ got' = [got EXCEPT ![c] = NoItem] /\ UNCHANGED <<queue, timed, notify>>

\* wait_until returns what the predicate says then.
ReturnExpired(c) ==
  /\ at[c] = "expired"
  /\ \/ Take(c)
     \/ /\ queue = <<>> /\ at' = [at EXCEPT ![c] = "idle"]
        /\ got' = [got EXCEPT ![c] = NoItem] /\ UNCHANGED <<queue, timed, notify>>

PopNonblock(c) ==
  /\ at[c] = "idle"
  /\ \/ Take(c)
     \/ queue = <<>> /\ got' = [got EXCEPT ![c] = NoItem]
        /\ UNCHANGED <<queue, at, timed, notify>>

Next ==
  \/ \E p \in Producer : NotifyOne(p) \/ \E item \in Item : Push(p, item)
  \/ \E c \in Consumer :
       \/ \E hasTimeout \in BOOLEAN : Call(c, hasTimeout)
       \/ TakeOrWait(c) \/ SpuriousWakeup(c)
       \/ Expire(c) \/ ReturnExpired(c) \/ PopNonblock(c)

Spec == Init /\ [][Next]_vars

\* A thread that has the processor to itself finishes what it is in: the notify
\* after a push, and a pop that is not waiting.  The deadline is a point in time
\* computed on entry, which no number of wakeups puts off.
Fairness ==
  /\ \A p \in Producer : WF_vars(NotifyOne(p))
  /\ \A c \in Consumer :
       WF_vars(TakeOrWait(c)) /\ WF_vars(ReturnExpired(c)) /\ SF_vars(Expire(c))

FairSpec == Spec /\ Fairness
-----------------------------------------------------------------------------
\* push notifies after it has released mutex_, and a consumer that comes in
\* between, one whose deadline passes, or a spurious wakeup, may take the item
\* first.  All the same, while anybody waits on cond_, each item still in the
\* queue has a wakeup of its own under way.
NoLostWakeup ==
  Blocked # {} => Len(queue) <= Cardinality(Woken) + Cardinality(notify)

\* To its callers the mutex, the condition variable and the order of notify and
\* unlock do not show: the queue does what an atomic one does, gives up on time
\* only when it is empty, and leaves no item to a waiting caller unserved.
calls ==
  [c \in Consumer |->
     IF at[c] = "idle" THEN "idle" ELSE IF timed[c] THEN "timed" ELSE "pop"]
Atomic == INSTANCE AtomicQueue WITH items <- queue
ImplementsAtomic == Atomic!FairSpec
=============================================================================
