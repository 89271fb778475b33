---------------------------- MODULE MCNecReceiver ---------------------------
(***************************************************************************)
(* Bytes of two bits; the demo's tolerances (ty_example_ir.c).             *)
(***************************************************************************)
EXTENDS NecReceiver

DemoTolerance ==
  [p \in {"lead", "logics", "logic0", "logic1", "repeat"} |->
    CASE p = "lead" -> 70 [] p = "logics" -> 45 [] p = "logic0" -> 45
      [] p = "logic1" -> 70 [] p = "repeat" -> 50]

\* Two keys: address 7 and command 2, address 4 and command 11, repeated r times.
Key(r)   == [addr |-> {0, 1, 2}, cmd |-> {1}, repeat |-> r]
Other(r) == [addr |-> {2}, cmd |-> {0, 1, 3}, repeat |-> r]
Keys == {<<Key(0)>>, <<Key(1)>>, <<Other(3)>>, <<Other(0), Key(1)>>, <<Key(1), Other(0)>>}

\* As far as the tolerances of the bits allow, and a receiver that is exact.
Edges == {[mark |-> m, space |-> -m] : m \in {-251, 0, 251}}

Crackle == {<<>>, <<300, 700>>}

\* The theorems' hypotheses hold here.
ASSUME CodesClear /\ QueueFits
=============================================================================
