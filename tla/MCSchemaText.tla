----------------------------- MODULE MCSchemaText -----------------------------
(***************************************************************************)
(* Schema texts whose names are what the grammar could stumble over: types *)
(* named like a primitive, like a keyword, like a generic type, with a     *)
(* space inside and with spaces around; fields named like keywords; every  *)
(* kind of type expression.  An underscore stands for a space.             *)
(***************************************************************************)
EXTENDS SchemaText

MCBareNames == {"A", "L", "Int", "List", "extends", "from", "to", "props", "T", "a", "node", "unique"}
MCPadded    == [n \in {"_A_", "_Int_", "a_", "_two words"} |->
                  CASE n = "_A_" -> "A" [] n = "_Int_" -> "Int" [] n = "a_" -> "a" [] OTHER -> "two words"]
MCQuotable  == MCBareNames \cup {"two words"} \cup DOMAIN MCPadded

\* Names in backticks, which the lists below write with apostrophes.
MCTicked == [t \in {"'Int'", "'two words'", "'A'", "'_A_'", "'_Int_'", "'a_'", "'_two words'"} |->
                CASE t = "'Int'" -> "Int" [] t = "'A'" -> "A" [] t = "'two words'" -> "two words" [] t = "'_A_'" -> "_A_"
                  [] t = "'_Int_'" -> "_Int_" [] t = "'a_'" -> "a_" [] OTHER -> "_two words"]

Lexed(s) ==
    CASE s \in {"<", ">", "{", "}", ":", ",", "@"} -> Mark(s)
      [] s \in DOMAIN MCTicked -> Quoted(MCTicked[s])
      [] s = "3"   -> <<"integer", 3>>
      [] OTHER -> Word(s)

Text(words) == [k \in DOMAIN words |-> Lexed(words[k])]

MCSourceTexts ==
    { Text(<<>>),
      Text(<<"node", "A", "{", "a", ":", "Int", "@", "index", "@", "unique", "}">>),
      Text(<<"node", "'A'", "{", "a", ":", "Int", "from", ":", "List", "<", "Map", "<", "String", ",", "Vector", "<", "3", ">", ">", ">", "}",
             "edge", "L", "<", "T", ":", "A", ",", "a", ">", "{", "from", ":", "T", "to", ":", "a", "props", ":", "{", "to", ":", "Int", "}", "}">>),
      Text(<<"node", "Int", "{", "}", "node", "extends", "extends", "Int", "{", "node", ":", "'Int'", "props", ":", "Json", "}",
             "edge", "from", "{", "from", ":", "'Int'", "to", ":", "extends", "}">>),
      Text(<<"node", "List", "<", "T", ">", "{", "a", ":", "List", "<", "List", ">", "}",
             "edge", "'two words'", "{", "from", ":", "NodeRef", "<", "List", ">", "to", ":", "List",
             "props", ":", "{", "a", ":", "EdgeRef", "<", "'two words'", ">", "}", "}">>),
      \* Refused: a bound that is not defined, a list with an index, an unknown annotation.
      Text(<<"node", "A", "{", "}", "edge", "L", "<", "T", ":", "a", ">", "{", "from", ":", "T", "to", ":", "A", "}">>),
      Text(<<"node", "A", "{", "a", ":", "List", "<", "Int", ">", "@", "index", "}">>),
      Text(<<"node", "A", "{", "a", ":", "Int", "@", "node", "}">>),
      \* A field changes its type: refused, and accepted when a second definition keeps the old one.
      Text(<<"node", "A", "{", "a", ":", "Float", "}", "node", "A", "{", "a", ":", "Int", "}">>),
      Text(<<"node", "A", "{", "a", ":", "Float", "}">>),
      \* Spaces around names: two types, and two fields, that are one without them; a type that
      \* becomes a primitive; a name that keeps its space, being no identifier.
      Text(<<"node", "A", "{", "a", ":", "Float", "}", "node", "'_A_'", "{", "a", ":", "Int", "'a_'", ":", "String", "}",
             "edge", "L", "{", "from", ":", "'_A_'", "to", ":", "A", "}">>),
      Text(<<"node", "'_Int_'", "{", "'_two words'", ":", "'_Int_'", "}",
             "edge", "L", "{", "from", ":", "'_Int_'", "to", ":", "NodeRef", "<", "'_Int_'", ">", "}">>),
      Text(<<"node", "'_two words'", "extends", "'_two words'", "{", "}">>),
      \* A field that is there twice.
      Text(<<"node", "A", "{", "a", ":", "Int", "a", ":", "Float", "}">>) }

MCFieldNames == {"Int", "two words", "line break", "a", "a_"}
==============================================================================
