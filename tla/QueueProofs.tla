---------------------------- MODULE QueueProofs ----------------------------
(* Queue, for any number of producers, consumers and items: its types, that no
   wakeup is lost, and that its steps are those of the atomic queue.          *)
EXTENDS Queue, FiniteSetTheorems, TLAPS

\* One operation of the queue, whoever performs it.
ProducerStep(p) == NotifyOne(p) \/ \E item \in Item : Push(p, item)
ConsumerStep(c) ==
  \/ \E hasTimeout \in BOOLEAN : Call(c, hasTimeout)
  \/ TakeOrWait(c) \/ SpuriousWakeup(c) \/ Expire(c) \/ ReturnExpired(c)
  \/ PopNonblock(c)

LEMMA TakeType ==
  ASSUME TypeOK, NEW c \in Consumer, Take(c)
  PROVE  TypeOK' /\ Len(queue') = Len(queue) - 1 /\ Len(queue) > 0
<1>1. queue \in Seq(Item) /\ queue # <<>>
  BY DEF TypeOK, Take
<1>2. Head(queue) \in Item /\ Tail(queue) \in Seq(Item)
      /\ Len(Tail(queue)) = Len(queue) - 1 /\ Len(queue) \in Nat \ {0}
  BY <1>1
<1> QED
  BY <1>2, QueueAssumption DEF TypeOK, Take

LEMMA PushType ==
  ASSUME TypeOK, NEW p \in Producer, NEW item \in Item, Push(p, item)
  PROVE  TypeOK' /\ Len(queue') = Len(queue) + 1
<1>1. queue \in Seq(Item)
  BY DEF TypeOK
<1>2. queue' = Append(queue, item)
  BY DEF Push
<1>3. queue' \in Seq(Item) /\ Len(queue') = Len(queue) + 1
  BY <1>1, <1>2
<1> QED
  BY <1>3, QueueAssumption DEF TypeOK, Push

\* Only a pop with a time-out has a deadline to pass.
ExpiredIsTimed == \A c \in Consumer : at[c] = "expired" => timed[c]

LEMMA StepType ==
  TypeOK /\ [Next]_vars => TypeOK'
<1> SUFFICES ASSUME TypeOK, [Next]_vars PROVE TypeOK'
  OBVIOUS
<1>1. CASE UNCHANGED vars
  BY <1>1 DEF TypeOK, vars
<1>2. ASSUME NEW p \in Producer, NotifyOne(p) PROVE TypeOK'
  BY <1>2 DEF TypeOK, NotifyOne, Blocked
<1>3. ASSUME NEW p \in Producer, NEW item \in Item, Push(p, item) PROVE TypeOK'
  BY <1>3, PushType
<1>4. ASSUME NEW c \in Consumer, ConsumerStep(c) PROVE TypeOK'
  <2>1. CASE \E hasTimeout \in BOOLEAN : Call(c, hasTimeout)
    BY <2>1 DEF TypeOK, Call
  <2>2. CASE TakeOrWait(c)
    BY <2>2, TakeType DEF TypeOK, TakeOrWait
  <2>3. CASE SpuriousWakeup(c) \/ Expire(c)
    BY <2>3 DEF TypeOK, SpuriousWakeup, Expire
  <2>4. CASE ReturnExpired(c)
    BY <2>4, TakeType DEF TypeOK, ReturnExpired
  <2>5. CASE PopNonblock(c)
    BY <2>5, TakeType DEF TypeOK, PopNonblock
  <2> QED
    BY <1>4, <2>1, <2>2, <2>3, <2>4, <2>5 DEF ConsumerStep
<1> QED
  BY <1>1, <1>2, <1>3, <1>4 DEF Next, ConsumerStep
LEMMA StepExpired ==
  TypeOK /\ ExpiredIsTimed /\ [Next]_vars => ExpiredIsTimed'
  BY DEF TypeOK, ExpiredIsTimed, Next, vars, NotifyOne, Blocked, Push, Call, Take,
         TakeOrWait, SpuriousWakeup, Expire, ReturnExpired, PopNonblock
-----------------------------------------------------------------------------
\* The counting behind NoLostWakeup.

LEMMA FiniteSides ==
  ASSUME TypeOK
  PROVE  /\ IsFiniteSet(Woken) /\ Cardinality(Woken) \in Nat
         /\ IsFiniteSet(notify) /\ Cardinality(notify) \in Nat
         /\ Len(queue) \in Nat
<1>1. Woken \subseteq Consumer /\ notify \subseteq Producer
  BY DEF Woken, TypeOK
<1>2. IsFiniteSet(Woken) /\ IsFiniteSet(notify)
  BY <1>1, QueueAssumption, FS_Subset
<1>3. Len(queue) \in Nat
  BY DEF TypeOK
<1> QED
  BY <1>2, <1>3, FS_CardinalityType

LEMMA FiniteSidesNext ==
  ASSUME TypeOK'
  PROVE  Cardinality(Woken') \in Nat /\ Cardinality(notify') \in Nat
<1>1. Woken' \subseteq Consumer /\ notify' \subseteq Producer
  BY DEF Woken, TypeOK
<1> QED
  BY <1>1, QueueAssumption, FS_Subset, FS_CardinalityType

\* The count of the woken when one consumer becomes woken, ...
LEMMA OneMoreWoken ==
  ASSUME TypeOK, NEW c \in Consumer, at[c] # "woken",
         at' = [at EXCEPT ![c] = "woken"]
  PROVE  Cardinality(Woken') = Cardinality(Woken) + 1
<1>1. Woken' = Woken \cup {c} /\ c \notin Woken
  BY DEF Woken, TypeOK
<1> QED
  BY <1>1, FiniteSides, FS_AddElement

\* ... stops being it, ...
LEMMA OneLessWoken ==
  ASSUME TypeOK, NEW c \in Consumer, at[c] = "woken", NEW label, label # "woken",
         at' = [at EXCEPT ![c] = label]
  PROVE  Cardinality(Woken') = Cardinality(Woken) - 1
<1>1. Woken' = Woken \ {c} /\ c \in Woken
  BY DEF Woken, TypeOK
<1> QED
  BY <1>1, FiniteSides, FS_RemoveElement

\* ... or moves between two other places.
LEMMA SameWoken ==
  ASSUME TypeOK, NEW c \in Consumer, at[c] # "woken", NEW label, label # "woken",
         at' = [at EXCEPT ![c] = label]
  PROVE  Woken' = Woken
  BY DEF Woken, TypeOK

LEMMA TakeKeepsWakeups ==
  ASSUME TypeOK, NoLostWakeup, NEW c \in Consumer, Take(c)
  PROVE  NoLostWakeup'
<1>1. at' = [at EXCEPT ![c] = "idle"] /\ notify' = notify
  BY DEF Take
<1>2. Blocked' \subseteq Blocked
  BY <1>1 DEF Blocked, TypeOK
<1>3. Cardinality(Woken') >= Cardinality(Woken) - 1
  <2>1. CASE at[c] = "woken"
    <3>1. at' = [at EXCEPT ![c] = "idle"] /\ "idle" # "woken"
      BY <1>1
    <3>2. Cardinality(Woken') = Cardinality(Woken) - 1
      BY <3>1, <2>1, OneLessWoken
    <3> QED
      BY <3>2, FiniteSides
  <2>2. CASE at[c] # "woken"
    <3>1. Woken' = Woken
      BY <1>1, <2>2, SameWoken
    <3> QED
      BY <3>1, FiniteSides
  <2> QED
    BY <2>1, <2>2
<1>4. Len(queue') = Len(queue) - 1
  BY TakeType
<1>5. TypeOK'
  BY TakeType
<1>6. Cardinality(Woken') \in Nat
  BY <1>5, FiniteSidesNext
<1> QED
  BY <1>1, <1>2, <1>3, <1>4, <1>6, FiniteSides DEF NoLostWakeup

LEMMA StepWakeups ==
  TypeOK /\ NoLostWakeup /\ [Next]_vars => NoLostWakeup'
<1> SUFFICES ASSUME TypeOK, NoLostWakeup, [Next]_vars PROVE NoLostWakeup'
  OBVIOUS
<1>1. CASE UNCHANGED vars
  BY <1>1 DEF NoLostWakeup, Blocked, Woken, vars
<1>2. ASSUME NEW p \in Producer, NotifyOne(p) PROVE NoLostWakeup'
  <2>1. Cardinality(notify') = Cardinality(notify) - 1 /\ queue' = queue
    BY <1>2, FiniteSides, FS_RemoveElement DEF NotifyOne
  <2>2. CASE Blocked = {} /\ UNCHANGED at
    BY <2>2 DEF NoLostWakeup, Blocked
  <2>3. ASSUME NEW c \in Blocked, at' = [at EXCEPT ![c] = "woken"]
        PROVE  NoLostWakeup'
    <3>1. c \in Consumer /\ at[c] = "blocked" /\ Blocked # {}
      BY <2>3 DEF Blocked
    <3>2. Cardinality(Woken') = Cardinality(Woken) + 1
      BY <2>3, <3>1, OneMoreWoken
    <3> QED
      BY <2>1, <3>1, <3>2, FiniteSides DEF NoLostWakeup
  <2> QED
    BY <1>2, <2>2, <2>3 DEF NotifyOne
<1>3. ASSUME NEW p \in Producer, NEW item \in Item, Push(p, item)
      PROVE  NoLostWakeup'
  <2>1. Len(queue') = Len(queue) + 1
    BY <1>3, PushType
  <2>2. Cardinality(notify') = Cardinality(notify) + 1
    BY <1>3, FiniteSides, FS_AddElement DEF Push
  <2>3. Blocked' = Blocked /\ Woken' = Woken
    BY <1>3 DEF Push, Blocked, Woken
  <2> QED
    BY <2>1, <2>2, <2>3, FiniteSides DEF NoLostWakeup
<1>4. ASSUME NEW c \in Consumer, ConsumerStep(c) PROVE NoLostWakeup'
  <2>1. CASE \E hasTimeout \in BOOLEAN : Call(c, hasTimeout)
    <3>1. at[c] = "idle" /\ at' = [at EXCEPT ![c] = "enter"]
          /\ queue' = queue /\ notify' = notify
      BY <2>1 DEF Call
    <3>2. Woken' = Woken
      BY <3>1, SameWoken
    <3>3. Blocked' = Blocked
      BY <3>1 DEF Blocked, TypeOK
    <3> QED
      BY <3>1, <3>2, <3>3 DEF NoLostWakeup
  <2>2. CASE Take(c)
    BY <2>2, TakeKeepsWakeups
  <2>3. CASE queue = <<>> /\ queue' = queue
    <3>1. Len(queue') = 0
      BY <2>3
    <3>2. Cardinality(Woken') \in Nat /\ Cardinality(notify') \in Nat
      BY StepType, FiniteSidesNext
    <3> QED
      BY <3>1, <3>2 DEF NoLostWakeup
  <2>4. CASE SpuriousWakeup(c) \/ Expire(c)
    <3>1. at[c] = "blocked" /\ queue' = queue /\ notify' = notify
          /\ \/ at' = [at EXCEPT ![c] = "woken"]
             \/ at' = [at EXCEPT ![c] = "expired"]
      BY <2>4 DEF SpuriousWakeup, Expire
    <3>2. Blocked # {}
      BY <3>1 DEF Blocked
    <3>3. Woken' = Woken \/ Cardinality(Woken') = Cardinality(Woken) + 1
      BY <3>1, OneMoreWoken, SameWoken
    <3> QED
      BY <3>1, <3>2, <3>3, FiniteSides DEF NoLostWakeup
  <2> QED
    BY <1>4, <2>1, <2>2, <2>3, <2>4
       DEF ConsumerStep, TakeOrWait, ReturnExpired, PopNonblock
<1> QED
  BY <1>1, <1>2, <1>3, <1>4 DEF Next, ConsumerStep

IInv == TypeOK /\ ExpiredIsTimed /\ NoLostWakeup

LEMMA InitHolds == Init => IInv
<1> SUFFICES ASSUME Init PROVE IInv
  OBVIOUS
<1>1. TypeOK
  BY QueueAssumption DEF Init, TypeOK
<1>2. Blocked = {} /\ ExpiredIsTimed
  BY DEF Init, Blocked, ExpiredIsTimed
<1> QED
  BY <1>1, <1>2 DEF NoLostWakeup, IInv

LEMMA Invariance == Spec => []IInv
<1>1. IInv /\ [Next]_vars => IInv'
  BY StepType, StepExpired, StepWakeups DEF IInv
<1> QED
  BY InitHolds, <1>1, PTL DEF Spec

\* Every variable keeps its type, and no push ever exceeds the room there is.
THEOREM TypeCorrect == Spec => []TypeOK
<1>1. IInv => TypeOK
  BY DEF IInv
<1> QED
  BY Invariance, <1>1, PTL

\* Whatever threads push to and pop from a Queue, while anybody waits on cond_
\* there is a wakeup under way for every item that is in it: push's notify_one
\* after the unlock loses none.
THEOREM WakeupsKept == Spec => []NoLostWakeup
<1>1. IInv => NoLostWakeup
  BY DEF IInv
<1> QED
  BY Invariance, <1>1, PTL
-----------------------------------------------------------------------------
\* To its callers Queue takes the steps of the atomic queue: items come out in
\* the order of the pushes, each once, and a timed pop returns false only over an
\* empty queue.
THEOREM AtomicSteps == Spec => Atomic!Spec
<1>1. Init => Atomic!Init
  BY DEF Init, Atomic!Init, calls
<1>2. IInv /\ [Next]_vars => [Atomic!Next]_Atomic!vars
  <2> SUFFICES ASSUME TypeOK, ExpiredIsTimed, [Next]_vars
               PROVE [Atomic!Next]_Atomic!vars
    BY DEF IInv
  <2>1. CASE UNCHANGED vars
    BY <2>1 DEF vars, Atomic!vars, calls
  <2>2. ASSUME NEW p \in Producer, NotifyOne(p) PROVE UNCHANGED Atomic!vars
    BY <2>2 DEF NotifyOne, Atomic!vars, calls, Blocked, TypeOK
  <2>3. ASSUME NEW p \in Producer, NEW item \in Item, Push(p, item)
        PROVE  Atomic!Push(item)
    BY <2>3 DEF Push, Atomic!Push, calls
  <2>4. ASSUME NEW c \in Consumer, ConsumerStep(c) PROVE [Atomic!Next]_Atomic!vars
    <3>1. ASSUME NEW hasTimeout \in BOOLEAN, Call(c, hasTimeout)
          PROVE  \E kind \in {"pop", "timed"} : Atomic!Call(c, kind)
      <4>1. calls' = [calls EXCEPT ![c] = IF hasTimeout THEN "timed" ELSE "pop"]
        BY <3>1 DEF Call, calls, TypeOK
      <4> QED
        BY <3>1, <4>1 DEF Call, Atomic!Call, calls
    <3>2. ASSUME Take(c) PROVE calls' = [calls EXCEPT ![c] = "idle"] /\ Atomic!Take(c)
      BY <3>2 DEF Take, Atomic!Take, calls, TypeOK
    <3>3. ASSUME NEW label \in {"blocked", "woken", "expired"}, at[c] # "idle",
                 at' = [at EXCEPT ![c] = label], UNCHANGED <<queue, timed, got>>
          PROVE  UNCHANGED Atomic!vars
      BY <3>3 DEF calls, TypeOK, Atomic!vars
    <3>4. CASE TakeOrWait(c)
      BY <3>2, <3>3, <3>4 DEF TakeOrWait, Atomic!Next, Atomic!Pop, calls
    <3>5. CASE SpuriousWakeup(c) \/ Expire(c)
      BY <3>3, <3>5 DEF SpuriousWakeup, Expire
    <3>6. CASE ReturnExpired(c)
      <4>1. CASE Take(c)
        BY <3>2, <3>6, <4>1 DEF ReturnExpired, Atomic!Next, Atomic!Pop, calls
      <4>2. CASE /\ queue = <<>> /\ at' = [at EXCEPT ![c] = "idle"]
                 /\ got' = [got EXCEPT ![c] = NoItem] /\ UNCHANGED <<queue, timed, notify>>
        <5>1. calls' = [calls EXCEPT ![c] = "idle"]
          BY <4>2 DEF calls, TypeOK
        <5>2. calls[c] = "timed"
          BY <3>6 DEF ReturnExpired, ExpiredIsTimed, calls
        <5> QED
          BY <4>2, <5>1, <5>2 DEF Atomic!Next, Atomic!GiveUp
      <4> QED
        BY <3>6, <4>1, <4>2 DEF ReturnExpired
    <3>7. CASE PopNonblock(c)
      BY <3>2, <3>7 DEF PopNonblock, Atomic!Next, Atomic!TryPop, calls
    <3> QED
      BY <2>4, <3>1, <3>4, <3>5, <3>6, <3>7 DEF ConsumerStep, Atomic!Next
  <2> QED
    BY <2>1, <2>2, <2>3, <2>4 DEF Next, ConsumerStep, Atomic!Next
<1> QED
  BY Invariance, <1>1, <1>2, PTL DEF Spec, Atomic!Spec
=============================================================================
