------------------------------ MODULE JsonPath ------------------------------
(* Paths into a document and the typed values at their ends (util/json_util): the
   strategy reads "data.orders\0.status" and the like.  A path is the sequence of its
   steps, [key, which], which -1 for a step without index; parseKey and the search
   for "." make one of the text.  A number is kept in tenths.                  *)
EXTENDS Integers, Sequences

CONSTANTS
  Start,     \* the document to begin with
  Path,      \* the paths the program uses, each a sequence of steps [key, which]
  Number,    \* the numbers in documents, in tenths
  MaxInt     \* the greatest int, in tenths

\* which is the index parseKey reads, -1 for a step without one.
ASSUME JsonAssumption == Path \subseteq Seq([key : STRING, which : Int])

VARIABLE doc

\* A scalar is a number rapidjson holds as a whole number or as a double, or a text of
\* one.
Object(members)    == [type |-> "object", members |-> members]
Array(elems)       == [type |-> "array", elems |-> elems]
Scalar(type, n)    == [type |-> type, num |-> n]
Null               == [type |-> "null"]

\* IsInt of a whole number.
FitsInt(n) == n <= MaxInt

JsonInit == doc = Start

\* Mutant: an index equal to the size is let through to the last element.
ChildOffByOne(node, step) ==
  IF node.type # "object" \/ step.key \notin DOMAIN node.members THEN Null
  ELSE LET member == node.members[step.key] IN
    IF step.which = -1 THEN member
    ELSE IF member.type # "array" \/ step.which > Len(member.elems) THEN Null
    ELSE IF step.which = Len(member.elems) THEN member.elems[step.which]
    ELSE member.elems[step.which + 1]

\* One step of get_node: only an object has members, only an array indices.
Child(node, step) ==
  IF node.type # "object" \/ step.key \notin DOMAIN node.members THEN Null
  ELSE LET member == node.members[step.key] IN
    IF step.which = -1 THEN member
    ELSE IF member.type # "array" \/ step.which + 1 \notin DOMAIN member.elems THEN Null
    ELSE member.elems[step.which + 1]

\* The nodes get_node comes by, the one it is called with first.
Walk(node, path) ==
  LET at[i \in 0 .. Len(path)] == IF i = 0 THEN node ELSE Child(at[i - 1], path[i])
  IN at

GetNode(node, path) == Walk(node, path)[Len(path)]

\* stoi, stoll and stod read as much of a text as they can.
Truncated(n) == n - (n % 10)

\* Mutant: GetInt of a double.
GetValueOfAny(type, node) ==
  IF node.type \notin {"whole", "double", "text"} THEN {}
  ELSE IF type \in {"int", "int64"} THEN {Truncated(node.num)} ELSE {node.num}

\* get_value<type>: the number it stores, none when it returns -1.
GetValue(type, node) ==
  CASE node.type = "whole"  -> { n \in {node.num} : type = "int" => FitsInt(n) }
    [] node.type = "double" -> { n \in {node.num} : type = "double" }
    [] node.type = "text" /\ type \in {"int", "int64"} ->
         { n \in {Truncated(node.num)} : type = "int" => FitsInt(n) }
    [] node.type = "text"   -> {node.num}
    [] OTHER                -> {}

\* The node with child at the end of the step, where there is something.
WithChild(node, step, child) ==
  Object([node.members EXCEPT ![step.key] =
            IF step.which = -1 THEN child
            ELSE Array([@.elems EXCEPT ![step.which + 1] = child])])

\* The same nodes when a value is put at the end of the path: that node is changed in
\* place, and with it what each of them holds.
Renewed(node, path, value) ==
  LET new[i \in 0 .. Len(path)] ==
        IF i = Len(path) THEN value
        ELSE WithChild(Walk(node, path)[i], path[i + 1], new[i + 1])
  IN new

Replace(node, path, value) == Renewed(node, path, value)[0]

\* What SetInt, SetInt64, SetDouble and SetString leave of a value of the type.
Types == {"int", "int64", "double", "string"}
Stored(type, n) ==
  Scalar(CASE type = "double" -> "double" [] type = "string" -> "text" [] OTHER -> "whole", n)

Fits(type, n) ==
  (type \in {"int", "int64"} => n = Truncated(n)) /\ (type = "int" => FitsInt(n))

\* set_value<type>; at a path that leads nowhere it returns -1.
SetValue(path, type, n) ==
  /\ path # <<>> /\ Fits(type, n)
  /\ GetNode(doc, path) # Null
  /\ doc' = Replace(doc, path, Stored(type, n))

JsonNext == \E path \in Path, type \in Types, n \in Number : SetValue(path, type, n)

JsonSpec == JsonInit /\ [][JsonNext]_doc
-----------------------------------------------------------------------------
\* Two steps that lead from any one node to different places, and two paths.
Part(s, t) ==
  \/ s.key # t.key
  \/ s.which # t.which /\ -1 \notin {s.which, t.which}

Apart(p, q) ==
  \E i \in DOMAIN p \cap DOMAIN q :
    SubSeq(p, 1, i - 1) = SubSeq(q, 1, i - 1) /\ Part(p[i], q[i])

\* Whatever earlier calls have made of a document, set_value changes what its path
\* leads to, which get_value of the same type then returns, and nothing on paths that
\* part from it.
SetIsLocal ==
  [][ \A p \in Path, type \in Types, n \in Number :
        SetValue(p, type, n) =>
          /\ GetValue(type, GetNode(doc', p)) = {n}
          /\ \A q \in Path : Apart(p, q) => GetNode(doc', q) = GetNode(doc, q) ]_doc

\* The exchange writes the same number now bare, now quoted.  What get_value returns is
\* the number that is there, through whichever type it is asked for, but for one case:
\* a quoted fraction, read as a whole number, is cut off without a word.
SameNumber ==
  \A p \in Path, type \in Types :
    LET node == GetNode(doc, p) IN
      \A n \in GetValue(type, node) :
        n = node.num \/ (node.type = "text" /\ type \in {"int", "int64"})
=============================================================================
