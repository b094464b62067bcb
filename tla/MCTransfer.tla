------------------------------ MODULE MCTransfer ------------------------------
(***************************************************************************)
(* Databases to export: with ids of their own and an additional label;     *)
(* with an id twice and a node without one; with values whose text reads   *)
(* as another kind, keys that differ, null and an object; and a plain one  *)
(* that CSV keeps.                                                         *)
(***************************************************************************)
EXTENDS Transfer, TLC

MCNode(type, props) == [type |-> type, props |-> props, labels |-> {}]
MCEdge(type, from, to, props) == [type |-> type, from |-> from, to |-> to, props |-> props]
one  == <<"number", 1>>
yes  == <<"bool", TRUE>>
bag  == <<"object", "bag">>

MCSources ==
    { [nodes |-> << MCNode("User", ("id" :> Str("u1")) @@ ("code" :> one)),
                    [MCNode("User", ("id" :> Str("u2")) @@ ("code" :> Nil)) EXCEPT !.labels = {"Project"}],
                    MCNode("Project", ("id" :> Str("p1")) @@ ("any" :> bag)) >>,
       edges |-> << MCEdge("OWNS", 1, 3, <<>>), MCEdge("FOLLOWS", 2, 1, ("role" :> Str("true"))), MCEdge("FOLLOWS", 1, 1, <<>>) >>],
      [nodes |-> << MCNode("User", ("id" :> Str("u1"))), MCNode("User", ("id" :> Str("u1"))), MCNode("User", <<>>) >>,
       edges |-> << MCEdge("FOLLOWS", 1, 2, <<>>), MCEdge("FOLLOWS", 3, 1, <<>>) >>],
      [nodes |-> << MCNode("User", ("id" :> Str("1"))), MCNode("User", ("id" :> Str("u2")) @@ ("since" :> Str("date"))),
                    MCNode("Project", ("any" :> Str("wide"))) >>,
       edges |-> << MCEdge("OWNS", 2, 3, ("role" :> Str("1"))) >>],
      [nodes |-> << MCNode("Project", ("id" :> Str("p1")) @@ ("any" :> yes)), MCNode("Project", ("id" :> Str("p2")) @@ ("any" :> one)) >>,
       edges |-> <<>>] }

MCDestinations ==
    { [nodes |-> <<>>, edges |-> <<>>],
      [nodes |-> << MCNode("Project", ("id" :> Str("u2"))), MCNode("User", ("id" :> Str("u1")) @@ ("code" :> one)),
                    MCNode("User", ("id" :> Str(""))) >>,
       edges |-> <<>>] }

\* Json takes everything, DateTime strings.
MCAny == {"string", "number", "bool", "object"}
MCNodeFields ==
    ("User" :> (("id" :> {"string"}) @@ ("code" :> {"number"}) @@ ("since" :> {"string"})))
      @@ ("Project" :> (("id" :> {"string"}) @@ ("any" :> MCAny)))
MCEdgeFields == ("OWNS" :> ("role" :> {"string"})) @@ ("FOLLOWS" :> ("role" :> {"string"}))
MCEdgeEnds   == ("OWNS" :> <<"User", "Project">>) @@ ("FOLLOWS" :> <<"User", "User">>)

MCTextOf   == (one :> "1") @@ (yes :> "true") @@ (bag :> "{}")
MCInferred == ("1" :> one) @@ ("true" :> yes) @@ ("date" :> <<"number", 2>>)
MCPlaces   == [k \in 1..9 |-> "place"]
==============================================================================
