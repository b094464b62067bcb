------------------------------- MODULE MCGraph -------------------------------
(* Constants of the runs of Graph: two strings that read as the same number, *)
(* a string that reads as none, and the number.                              *)
EXTENDS Graph, TLC

CONSTANTS n1, n2, e1, one, plusOne, word, num

Field(type, mark) == [type |-> type, mark |-> mark]

MCIntOf  == (one :> num) @@ (plusOne :> num) @@ (word :> NoValue)
MCTextOf == num :> one

MCNodeInputs == {"f" :> one, "f" :> plusOne, ("f" :> one) @@ ("g" :> num)}
MCEdgeInputs == {"f" :> word}

MCSchemas ==
    LET f == "f" :> Field("String", "unique")
        g == "g" :> Field("Int", "plain")
        edge == "L" :> ("f" :> Field("String", "plain"))
    IN  {<<>>, "A" :> f, "A" :> (f @@ g), ("A" :> g) @@ edge}

Symmetry == Permutations({n1, n2})
==============================================================================
