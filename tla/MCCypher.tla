------------------------------ MODULE MCCypher ------------------------------
(***************************************************************************)
(* Queries over small databases: two or three nodes of the types "A" and   *)
(* "B" and edges of the types "E" (from "A" to "B") and "L" (any ends).    *)
(* The schema does not know the name "T", which queries use all the same.  *)
(***************************************************************************)
EXTENDS Cypher, TLC

MCNodeTypes == {"A", "B"}
MCEndTypes  == ("E" :> <<"A", "B">>) @@ ("L" :> <<Unlabelled, Unlabelled>>)

node(s, ls, v) == [serial |-> s, labels |-> ls, value |-> v]
edge(s, t, f, to, v) == [serial |-> s, type |-> t, from |-> f, to |-> to, value |-> v]

MCDatabases ==
    { [node |-> <<node(1, <<"A">>, 1), node(2, <<"B">>, v)>>,
       edge |-> <<edge(3, "E", 1, 2, 1)>>, serial |-> 5] : v \in {1, 2, Absent} }
    \cup
    { [node |-> <<node(1, <<"A">>, 1), node(2, <<"B", "A">>, 2), node(3, <<"A">>, w)>>,
       edge |-> <<edge(4, "E", 1, 2, 2), edge(5, "L", 2, 3, 1), edge(6, "L", 3, f, 2)>>, serial |-> 7] :
        w \in {2, 3}, f \in {1, 3} }
    \cup { [node |-> <<>>, edge |-> <<>>, serial |-> 1] }

Pattern(x, label, v) == [var |-> x, label |-> label, value |-> v]
Every(x, label) == Pattern(x, label, AnyValue)
Single(pattern) == [start |-> pattern, hops |-> <<>>]
Hop(d, type, x, end) == [direction |-> d, type |-> type, var |-> x, end |-> end]
Path(first, hop) == [start |-> first, hops |-> <<hop>>]
Everywhere == [var |-> NoVar, value |-> 0]
Where(x, v) == [var |-> x, value |-> v]

Set(x, y, plus) == [target |-> x, from |-> y, plus |-> plus]
Clause(kind, items) == [kind |-> kind, items |-> items]
Item1(x) == [target |-> x]
NodeItem(pattern) == [kind |-> "node", pattern |-> pattern]
EndItem(pattern)  == [kind |-> "end", pattern |-> pattern]
EdgeItem(type, d) == [kind |-> "edge", type |-> type, direction |-> d]
Query(match, where, clauses) == [match |-> match, where |-> where, clauses |-> clauses, ret |-> NoReturn]
Shown(x) == [key |-> x, var |-> x]
By(key, descending) == [key |-> key, descending |-> descending]
Returning(xs, order, skip, limit, distinct) ==
    [items |-> [k \in DOMAIN xs |-> Shown(xs[k])], order |-> order, skip |-> skip, limit |-> limit, distinct |-> distinct]

Out(type, end) == Hop("Right", type, "r", end)

MCMatches ==
    { <<Single(Every("a", "A"))>>, <<Single(Pattern("a", Unlabelled, 2))>>,
      <<Path(Every("a", Unlabelled), Out(Unlabelled, Every("b", Unlabelled)))>>,
      <<Path(Every("a", Unlabelled), Hop("Left", Unlabelled, "r", Every("b", "A")))>>,
      <<[start |-> Every("a", Unlabelled), hops |-> <<Hop("Both", "L", "r", Every("c", Unlabelled)), Hop("Right", "L", "q", Every("b", Unlabelled))>>]>>,
      <<Single(Every("a", Unlabelled)), Single(Every("b", "B"))>> }

MCChanges ==
    { <<Clause("set", <<Set("a", "b", 0), Set("b", "a", 0)>>)>>,
      <<Clause("set", <<Set("a", "a", 1)>>)>>,
      <<Clause("set", <<Set("b", "b", 1)>>), Clause("set", <<Set("a", NoVar, 2)>>)>>,
      <<Clause("remove", <<Item1("a")>>), Clause("set", <<Set("b", "a", 0)>>)>>,
      <<Clause("delete", <<Item1("a")>>)>>, <<Clause("delete", <<Item1("a"), Item1("b")>>)>>,
      <<Clause("delete", <<Item1("r")>>), Clause("delete", <<Item1("b")>>)>>,
      <<Clause("delete", <<Item1("b")>>), Clause("set", <<Set("b", NoVar, 3)>>)>>,
      <<Clause("delete", <<Item1("a")>>), Clause("create", <<NodeItem(Every("n", "A"))>>)>> }

MCCyphers ==
    { Query(ms, w, cs) : ms \in MCMatches, w \in {Everywhere, Where("a", 2)}, cs \in MCChanges }
    \cup
    { Query(ms, w, <<Clause("create", items)>>) :
        ms \in {<<>>, <<Single(Every("a", "A"))>>, <<Path(Every("a", Unlabelled), Out("E", Every("b", Unlabelled)))>>},
        w \in {Everywhere, Where("a", 2)},
        items \in { <<NodeItem(Pattern("n", "A", 1))>>,
                    <<EndItem(Every("a", "A")), EndItem(Every("b", "B")), EdgeItem("E", "Right")>>,
                    <<EndItem(Every("a", "A")), EndItem(Every("b", "B")), EdgeItem("E", "Left"), EndItem(Every("c", "A")), EdgeItem("L", "Right")>> } }
    \cup
    { Query(<<>>, Everywhere, <<Clause("merge", items)>>) :
        items \in { <<Pattern("n", "A", 2)>>, <<Every("n", "B")>>, <<Pattern("n", "T", 2)>>,
                    <<Pattern("n", "A", 3), Every("m", "T")>>,
                    <<Pattern("n", "A", 3), Pattern("m", "A", 3)>>, <<Pattern("n", "B", 1), Pattern("n", "A", 1)>> } }
    \cup
    { [Query(ms, w, cs) EXCEPT !.ret = r] :
        ms \in {<<Single(Every("a", Unlabelled))>>, <<Path(Every("a", Unlabelled), Out(Unlabelled, Every("b", Unlabelled)))>>},
        w \in {Everywhere, Where("a", 2)},
        cs \in {<<>>, <<Clause("set", <<Set("a", NoVar, 2)>>)>>},
        r \in { Returning(<<"a", "r">>, <<By("a", FALSE), By("r", TRUE)>>, 0, 2, FALSE),
                Returning(<<"a", "r">>, <<By("r", FALSE), By("a", FALSE)>>, 1, NoLimit, FALSE),
                Returning(<<"a", "b">>, <<By("b", TRUE), By("r", FALSE), By("a", FALSE)>>, 1, 3, TRUE),
                Returning(<<"a">>, <<>>, 5, 1, TRUE) } }
    \cup { Query(<<>>, Everywhere, <<Clause("set", <<Set("a", NoVar, 1)>>)>>) }

=============================================================================
