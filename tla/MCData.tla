------------------------------- MODULE MCData -------------------------------
(* The containers without threads of their own, for TLC: WindowSpec over the values
   risk_control puts, with MIN of strategy/tech_index.h on every window it can be
   given, and JsonPath over a small document.  A behaviour is of one of the two.  *)
EXTENDS WindowSpec, JsonPath

VARIABLE part   \* which of the two

MCValue == {-3, -1, 2, NaN}

\* {"data": [{"status": 1}, {"status": "1.5"}], "status": 1.0}
MCStart ==
  LET scalar(type, n) == [type |-> type, num |-> n]
      order(s) == [type |-> "object", members |-> [status |-> s]]
  IN [type |-> "object",
      members |->
        [data |-> [type |-> "array",
                   elems |-> <<order(scalar("whole", 10)), order(scalar("text", 15))>>],
         status |-> scalar("double", 10)]]

\* "data", "status", "status\0", "data.status", and "data\i", "data\i.status" up to the
\* first index that is not there.
MCPath ==
  LET at(key, which) == [key |-> key, which |-> which]
      status == at("status", -1)
  IN {<<status>>, <<at("status", 0)>>} \cup { <<at("data", i)>> : i \in -1 .. 2 }
       \cup { <<at("data", i), status>> : i \in -1 .. 2 }

MCInit == part \in {"window", "json"} /\ Init /\ JsonInit

MCNext ==
  /\ \/ part = "window" /\ Next /\ UNCHANGED doc
     \/ part = "json" /\ JsonNext /\ UNCHANGED win
  /\ UNCHANGED part

MCSpec == MCInit /\ [][MCNext]_<<win, doc, part>>
=============================================================================
