------------------------------- MODULE Recent -------------------------------
(* What a window promises its users: the last N values put since it was made or
   cleared, oldest first.                                                     *)
EXTENDS Integers, Sequences

CONSTANTS N, Value

VARIABLE recent

Init == recent = <<>>

Put(v) == recent' = IF Len(recent) = N THEN Append(Tail(recent), v)
                                       ELSE Append(recent, v)

Clear == recent' = <<>>

Next == Clear \/ \E v \in Value : Put(v)

Spec == Init /\ [][Next]_recent
=============================================================================
