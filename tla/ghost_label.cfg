SPECIFICATION Spec
CONSTANTS
    n1 = n1
    n2 = n2
    e1 = e1
    one = one
    plusOne = plusOne
    word = word
    num = num
    Nodes = {n1, n2}
    Edges = {e1}
    NodeTypes = {"A", "B"}
    EdgeTypes = {"L", "K"}
    Fields = {"f", "g"}
    Strings = {one, plusOne, word}
    Numbers = {num}
    Null = Null
    NoValue = NoValue
    IntOf <- MCIntOf
    TextOf <- MCTextOf
    NodeInputs <- MCNodeInputs
    EdgeInputs <- MCEdgeInputs
    Schemas <- MCSchemas
    SettledMarks = TRUE
    FreshIds = FALSE
SYMMETRY Symmetry
INVARIANT FreeIdsUnlisted
