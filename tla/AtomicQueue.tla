---------------------------- MODULE AtomicQueue ----------------------------
(* What Queue (util/queue.h) promises its callers, and what Trade and
   RocStrategy use in its place: the items are handed out in the order they were
   pushed, each once; a timed pop may give up, and only when there is nothing to
   take; and an item does not stay while somebody waits for one.              *)
EXTENDS Sequences, Naturals

CONSTANTS Consumer, Item, NoItem, MaxLen

VARIABLES
  items,   \* what has been pushed and not taken
  calls,   \* per consumer: the pop it is in, if any
  got      \* per consumer: what its last pop returned, NoItem for false

vars == <<items, calls, got>>

Init ==
  /\ items = <<>> /\ calls = [c \in Consumer |-> "idle"]
  /\ got = [c \in Consumer |-> NoItem]

Push(item) ==
  Len(items) < MaxLen /\ items' = Append(items, item) /\ UNCHANGED <<calls, got>>

Call(c, kind) ==
  calls[c] = "idle" /\ calls' = [calls EXCEPT ![c] = kind] /\ UNCHANGED <<items, got>>

Take(c) ==
  items # <<>> /\ items' = Tail(items) /\ got' = [got EXCEPT ![c] = Head(items)]

Pop(c) == calls[c] # "idle" /\ Take(c) /\ calls' = [calls EXCEPT ![c] = "idle"]

GiveUp(c) ==
  /\ calls[c] = "timed" /\ items = <<>>
  /\ calls' = [calls EXCEPT ![c] = "idle"] /\ got' = [got EXCEPT ![c] = NoItem]
  /\ UNCHANGED items

TryPop(c) ==
  /\ calls[c] = "idle" /\ UNCHANGED calls
  /\ \/ Take(c)
     \/ items = <<>> /\ got' = [got EXCEPT ![c] = NoItem] /\ UNCHANGED items

Next ==
  \/ \E item \in Item : Push(item)
  \/ \E c \in Consumer :
       \/ \E kind \in {"pop", "timed"} : Call(c, kind)
       \/ Pop(c) \/ GiveUp(c) \/ TryPop(c)

Spec == Init /\ [][Next]_vars

\* An item is taken if any pop is under way, and a timed pop returns.
FairSpec ==
  /\ Spec
  /\ WF_vars(\E c \in Consumer : Pop(c))
  /\ \A c \in Consumer : WF_vars(calls[c] = "timed" /\ (Pop(c) \/ GiveUp(c)))
=============================================================================
