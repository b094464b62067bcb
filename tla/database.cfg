SPECIFICATION MCSpec
CONSTANTS
    Nodes <- MCNodes
    Edges <- MCEdges
    Graphs <- MCGraphs
    Missing <- MCMissing
    Starts <- MCStarts
    Steps <- MCSteps
    MaxSteps = 3
    Collects <- MCCollects
    Bindings <- MCBindings
    TextHolds <- MCTextHolds
    Requests <- MCRequests
    Databases <- MCDatabases
    Queries <- MCCyphers
    MaxQueries = 1
    MaxRecords = 5
    NodeTypes <- MCNodeTypes
    EndTypes <- MCEndTypes
    UniqueType = "A"
    p1 = p1
    p2 = p2
    none = none
    Procs = {p1, p2}
    NoProc = none
    Writes = {1, 2, 3}
    MaxInodes = 3
    Relative = {p2}
    Alone = TRUE
    Kinds = {"node", "edge"}
    Names = {"t1", "t2"}
    FieldSets = {"undefined", "none", "f"}
    Undefined = "undefined"
    Schemas <- MCSchemas
    LastId = 5
    MaxLength = 4
    MaxStored = 1
    BareNames <- MCBareNames
    Padded <- MCPadded
    QuotableNames <- MCQuotable
    SourceTexts <- MCSourceTexts
    FieldNames <- MCFieldNames
    Sources <- MCSources
    Destinations <- MCDestinations
    NodeFields <- MCNodeFields
    EdgeFields <- MCEdgeFields
    EdgeEnds <- MCEdgeEnds
    UniqueKeys = {"code"}
    TextOf <- MCTextOf
    Inferred <- MCInferred
    Wide = {"wide"}
    Places <- MCPlaces
    MaxImports = 2
INVARIANTS RepeatReaches OrderedStably Levels ShortestFound SubgraphConnects DeleteExact SetFromRows MergeOnce NoStaleTarget PagesExact SettledStays OneHolder RegistryNamesOpen TypesKeepNames CacheFresh TextReadsBack EdgesJoinNamed ImportRestores
PROPERTY SearchEnds
