----------------------------- MODULE Graph_proofs -----------------------------
(***************************************************************************)
(* Proofs about Graph, for any records, types, fields and values: the      *)
(* label index, the property store and what a change of schema shows, as   *)
(* long as no label call names a deleted record; the property index and    *)
(* the uniqueness of fields, if besides no mark comes to a field that has  *)
(* values.                                                                 *)
(***************************************************************************)
EXTENDS Graph, FiniteSetTheorems, TLAPS

\* A record of a node: four fields, and properties.
IsNode(rec) ==
    /\ rec = [type |-> rec.type, props |-> rec.props, labels |-> rec.labels, ends |-> rec.ends]
    /\ rec.props \in PropMaps

\* The schema defines fields of known types.
SchemaTyped == DOMAIN schema \subseteq Types /\ \A t \in DOMAIN schema : schema[t] \in FieldMaps

\* The inductive invariant behind the label index: nodes in use have a type and other labels
\* beside it, and those not in use have no record.
Labels ==
    /\ used \subseteq Ids
    /\ records = [r \in Ids |-> records[r]]
    /\ \A n \in Nodes :
           /\ IsNode(records[n])
           /\ n \notin used => records[n] = NoRecord
           /\ n \in used => /\ records[n].type \in NodeTypes /\ records[n].labels \subseteq NodeTypes
                            /\ records[n].type \notin records[n].labels
    /\ SchemaTyped
    /\ labelIndex \in [Nodes -> [NodeTypes -> Nat]]
    /\ LabelIndexExact

-----------------------------------------------------------------------------
\* Records and maps.

\* A record with other properties, and one with other labels.
WithProps(rec, p)  == [rec EXCEPT !.props = p]
WithLabels(rec, l) == [rec EXCEPT !.labels = l]

\* Both stay records of nodes, and change in that field only.
LEMMA NodeChanged ==
    ASSUME NEW rec, IsNode(rec)
    PROVE  /\ \A p \in PropMaps : /\ IsNode(WithProps(rec, p)) /\ WithProps(rec, p).props = p
                                  /\ WithProps(rec, p).type = rec.type /\ WithProps(rec, p).labels = rec.labels
           /\ \A l : /\ IsNode(WithLabels(rec, l)) /\ WithLabels(rec, l).labels = l
                     /\ WithLabels(rec, l).type = rec.type /\ WithLabels(rec, l).props = rec.props
  BY DEF IsNode, WithProps, WithLabels

\* A record put together from its four fields.
LEMMA NewNode ==
    ASSUME NEW t, NEW p \in PropMaps, NEW l, NEW e
    PROVE  IsNode([type |-> t, props |-> p, labels |-> l, ends |-> e])
  BY DEF IsNode

\* The empty map is a property map.
LEMMA EmptyProps == <<>> \in PropMaps /\ DOMAIN <<>> = {}
  BY DEF PropMaps

Values == Strings \cup Numbers \cup {Null}

\* A property map is a function from fields to values.
LEMMA PropMap ==
    ASSUME NEW p
    PROVE  p \in PropMaps <=> DOMAIN p \subseteq Fields /\ p \in [DOMAIN p -> Values]
<1>1. ASSUME p \in PropMaps PROVE DOMAIN p \subseteq Fields /\ p \in [DOMAIN p -> Values]
  BY <1>1 DEF PropMaps, Values
<1>2. ASSUME DOMAIN p \subseteq Fields, p \in [DOMAIN p -> Values] PROVE p \in PropMaps
  BY <1>2 DEF PropMaps, Values
<1> QED
  BY <1>1, <1>2

\* Part of a property map, two of them put together, and one with a field renamed or changed.
LEMMA PropsClosed ==
    ASSUME NEW p \in PropMaps
    PROVE  /\ \A S : Restrict(p, DOMAIN p \cap S) \in PropMaps
           /\ \A q \in PropMaps : Patched(p, q) \in PropMaps
           /\ \A f \in Fields, g \in Fields : RenamedProps(p, f, g) \in PropMaps
           /\ \A f \in DOMAIN p, v \in Values : [p EXCEPT ![f] = v] \in PropMaps
<1>1. DOMAIN p \subseteq Fields /\ p \in [DOMAIN p -> Values]
  BY PropMap
<1>2. ASSUME NEW S PROVE Restrict(p, DOMAIN p \cap S) \in PropMaps
  <2> DEFINE r == [x \in DOMAIN p \cap S |-> p[x]]
  <2>1. DOMAIN r \subseteq Fields /\ r \in [DOMAIN r -> Values]
    BY <1>1
  <2> QED
    BY <2>1, PropMap DEF Restrict
<1>3. ASSUME NEW q \in PropMaps PROVE Patched(p, q) \in PropMaps
  <2>1. DOMAIN q \subseteq Fields /\ q \in [DOMAIN q -> Values]
    BY PropMap
  <2> DEFINE r == [f \in DOMAIN p \cup DOMAIN q |-> IF f \in DOMAIN p THEN p[f] ELSE q[f]]
  <2>2. DOMAIN r \subseteq Fields /\ r \in [DOMAIN r -> Values]
    BY <1>1, <2>1
  <2> QED
    BY <2>2, PropMap DEF Patched
<1>4. ASSUME NEW f \in Fields, NEW g \in Fields PROVE RenamedProps(p, f, g) \in PropMaps
  <2> DEFINE D == (DOMAIN p \ {f, g}) \cup (IF f \in DOMAIN p THEN {g} ELSE {})
             r == [h \in D |-> p[IF h = g THEN f ELSE h]]
  <2>1. D \subseteq Fields /\ \A h \in D : p[IF h = g THEN f ELSE h] \in Values
    BY <1>1
  <2> HIDE DEF D
  <2>2. DOMAIN r \subseteq Fields /\ r \in [DOMAIN r -> Values]
    BY <2>1
  <2>3. r = RenamedProps(p, f, g)
    BY DEF RenamedProps, D
  <2> QED
    BY <2>2, <2>3, PropMap
<1>5. ASSUME NEW f \in DOMAIN p, NEW v \in Values PROVE [p EXCEPT ![f] = v] \in PropMaps
  <2>1. DOMAIN [p EXCEPT ![f] = v] \subseteq Fields /\ [p EXCEPT ![f] = v] \in [DOMAIN [p EXCEPT ![f] = v] -> Values]
    BY <1>1
  <2> QED
    BY <2>1, PropMap
<1> QED
  BY <1>2, <1>3, <1>4, <1>5

-----------------------------------------------------------------------------
\* The label index.

\* Whether a node belongs under a type, and how often it is listed there.
IsListed(n, t) == n \in used /\ (t = records[n].type \/ t \in records[n].labels)
ListedRight(n, t) == labelIndex[n][t] = IF IsListed(n, t) THEN 1 ELSE 0

\* The label index is exact when it is so entry by entry.
LEMMA EntryByEntry ==
    /\ LabelIndexExact <=> \A n \in Nodes, t \in NodeTypes : ListedRight(n, t)
    /\ LabelIndexExact' <=> \A n \in Nodes, t \in NodeTypes : ListedRight(n, t)'
<1>1. \A n, t : t \in TypeIds(n) <=> t = records[n].type \/ t \in records[n].labels
  BY DEF TypeIds
<1>2. \A n, t : t \in TypeIds(n)' <=> t = records'[n].type \/ t \in records'[n].labels
  BY DEF TypeIds
<1>3. LabelIndexExact <=> \A n \in Nodes, t \in NodeTypes : ListedRight(n, t)
  BY <1>1 DEF LabelIndexExact, ListedRight, IsListed
<1>4. LabelIndexExact' <=> \A n \in Nodes, t \in NodeTypes : ListedRight(n, t)'
  BY <1>2 DEF LabelIndexExact, ListedRight, IsListed
<1> QED
  BY <1>3, <1>4

\* Nothing is listed at first.
LEMMA LabelsInit == Init => Labels
<1> SUFFICES ASSUME Init PROVE Labels
  OBVIOUS
<1>1. \A r \in Ids : records[r] = NoRecord
  BY DEF Init
<1>2. IsNode(NoRecord)
  BY EmptyProps DEF NoRecord, IsNode
<1>3. SchemaTyped
  BY DEF Init, SchemaTyped
<1> QED
  BY <1>1, <1>2, <1>3 DEF Init, Labels, Ids, LabelIndexExact

\* A step that changes properties, edges and the schema only.
LEMMA PropsStep ==
    ASSUME Labels, used' \subseteq Ids, \A n \in Nodes : n \in used' <=> n \in used,
           labelIndex' = labelIndex, SchemaTyped', records' = [r \in Ids |-> records'[r]],
           \A n \in Nodes : /\ IsNode(records'[n]) /\ records'[n].type = records[n].type
                            /\ records'[n].labels = records[n].labels
                            /\ n \notin used => records'[n] = records[n]
    PROVE  Labels'
<1>1. ASSUME NEW n \in Nodes, NEW t \in NodeTypes PROVE ListedRight(n, t)'
  <2>1. ListedRight(n, t)
    BY EntryByEntry DEF Labels
  <2> QED
    BY <2>1 DEF ListedRight, IsListed
<1>2. LabelIndexExact'
  BY <1>1, EntryByEntry
<1> QED
  BY <1>2 DEF Labels

\* insert_node lists an id that was not listed.
LEMMA InsertNodeStep ==
    ASSUME Labels, NEW n \in Nodes, NEW t \in NodeTypes, NEW p \in PropMaps, NEW labels \in SUBSET NodeTypes,
           InsertNode(n, t, p, labels)
    PROVE  /\ n \notin used /\ used' = used \cup {n}
           /\ records'[n].type = t /\ records'[n].props = p
           /\ \A m \in Nodes : m # n => records'[m] = records[m]
           /\ Labels'
<1> DEFINE rec == [type |-> t, props |-> p, labels |-> Normalized(t, labels), ends |-> <<>>]
<1>1. /\ n \notin used /\ used' = used \cup {n} /\ records' = [records EXCEPT ![n] = rec]
      /\ labelIndex' = Listed(labelIndex, n, {t} \cup rec.labels) /\ UNCHANGED schema
  BY DEF InsertNode
<1>2. /\ IsNode(rec) /\ rec.type = t /\ rec.props = p /\ rec.labels = labels \ {t}
  BY NewNode DEF Normalized
<1> HIDE DEF rec
<1>3. /\ records' = [r \in Ids |-> records'[r]] /\ records'[n] = rec
      /\ \A m \in Nodes : m # n => records'[m] = records[m]
  BY <1>1 DEF Labels, Ids
<1>4. labelIndex \in [Nodes -> [NodeTypes -> Nat]] /\ \A u \in NodeTypes : labelIndex[n][u] = 0
  BY <1>1 DEF Labels, LabelIndexExact
<1>5. /\ labelIndex' \in [Nodes -> [NodeTypes -> Nat]]
      /\ \A m \in Nodes, u \in NodeTypes :
             labelIndex'[m][u] = IF m = n THEN (IF u \in {t} \cup rec.labels THEN 1 ELSE 0) ELSE labelIndex[m][u]
  BY <1>1, <1>4 DEF Listed
<1>6. ASSUME NEW m \in Nodes, NEW u \in NodeTypes PROVE ListedRight(m, u)'
  <2>1. ListedRight(m, u)
    BY EntryByEntry DEF Labels
  <2>2. CASE m = n
    <3>1. IsListed(n, u)' <=> u \in {t} \cup rec.labels
      BY <1>1, <1>2, <1>3 DEF IsListed
    <3> QED
      BY <1>5, <2>2, <3>1 DEF ListedRight
  <2>3. CASE m # n
    <3>1. IsListed(m, u)' <=> IsListed(m, u)
      BY <1>1, <1>3, <2>3 DEF IsListed
    <3> QED
      BY <1>5, <2>1, <2>3, <3>1 DEF ListedRight
  <2> QED
    BY <2>2, <2>3
<1>7. SchemaTyped'
  BY <1>1 DEF Labels, SchemaTyped
<1>8. Labels'
  BY <1>1, <1>2, <1>3, <1>5, <1>6, <1>7, EntryByEntry DEF Labels, Ids
<1> QED
  BY <1>1, <1>2, <1>3, <1>8

\* delete_node takes the node off the list of each of its types, and its edges go with it.
LEMMA DeleteNodeStep ==
    ASSUME FreshIds = TRUE, Labels, NEW n \in Nodes, DeleteNode(n)
    PROVE  /\ n \in used /\ \A m \in Nodes : m \in used' <=> m \in used /\ m # n
           /\ records'[n] = NoRecord
           /\ \A m \in Nodes : m # n => records'[m] = records[m]
           /\ Labels'
<1> DEFINE gone == {n} \cup Incident(n)
<1>1. /\ n \in used /\ used' = used \ gone /\ records' = Freed(gone)
      /\ labelIndex' = Unlisted(labelIndex, n, TypeIds(n)) /\ UNCHANGED schema
  BY DEF DeleteNode
<1>2. \A m \in Nodes : m \in gone <=> m = n
  BY GraphAssumption DEF Incident
<1> HIDE DEF gone
<1>3. /\ records' = [r \in Ids |-> records'[r]] /\ records'[n] = NoRecord
      /\ \A m \in Nodes : m # n => records'[m] = records[m]
  BY <1>1, <1>2 DEF Freed, Ids
<1>4. IsNode(NoRecord)
  BY EmptyProps DEF NoRecord, IsNode
<1>5. \A m \in Nodes : m \in used' <=> m \in used /\ m # n
  BY <1>1, <1>2
<1>6. /\ labelIndex \in [Nodes -> [NodeTypes -> Nat]]
      /\ \A u \in NodeTypes : labelIndex[n][u] = IF u \in TypeIds(n) THEN 1 ELSE 0
  BY <1>1 DEF Labels, LabelIndexExact
<1>7. /\ labelIndex' \in [Nodes -> [NodeTypes -> Nat]]
      /\ \A m \in Nodes, u \in NodeTypes : labelIndex'[m][u] = IF m = n THEN 0 ELSE labelIndex[m][u]
  BY <1>1, <1>6 DEF Unlisted
<1>8. ASSUME NEW m \in Nodes, NEW u \in NodeTypes PROVE ListedRight(m, u)'
  <2>1. ListedRight(m, u)
    BY EntryByEntry DEF Labels
  <2>2. IsListed(m, u)' <=> m # n /\ IsListed(m, u)
    BY <1>3, <1>5 DEF IsListed
  <2> QED
    BY <1>7, <2>1, <2>2 DEF ListedRight
<1>9. SchemaTyped'
  BY <1>1 DEF Labels, SchemaTyped
<1>10. Labels'
  BY <1>1, <1>3, <1>4, <1>5, <1>7, <1>8, <1>9, EntryByEntry DEF Labels
<1> QED
  BY <1>1, <1>3, <1>5, <1>10

\* set_additional_labels lists and unlists what has changed.
LEMMA NodeLabelsStep ==
    ASSUME FreshIds = TRUE, Labels, NEW n \in Nodes, NEW labels \in SUBSET NodeTypes, SetNodeLabels(n, labels)
    PROVE  /\ \A m \in Nodes : records'[m].type = records[m].type /\ records'[m].props = records[m].props
           /\ UNCHANGED <<used, schema, propIndex>> /\ Labels'
<1> DEFINE old == records[n].labels
           new == Normalized(records[n].type, labels)
<1>1. /\ n \in used /\ records' = [records EXCEPT ![n].labels = new]
      /\ labelIndex' = Listed(Unlisted(labelIndex, n, old \ new), n, new \ old)
      /\ UNCHANGED <<schema, used, propIndex>>
  BY DEF SetNodeLabels, Labelled
<1>2. /\ IsNode(records[n]) /\ records[n].type \in NodeTypes /\ old \subseteq NodeTypes
      /\ records[n].type \notin old /\ new \subseteq NodeTypes /\ records[n].type \notin new
  BY <1>1 DEF Labels, Normalized
<1> HIDE DEF new
<1>3. /\ records' = [r \in Ids |-> records'[r]] /\ records'[n] = WithLabels(records[n], new)
      /\ \A m \in Nodes : m # n => records'[m] = records[m]
  BY <1>1 DEF Labels, Ids, WithLabels
<1>4. /\ IsNode(records'[n]) /\ records'[n].labels = new
      /\ records'[n].type = records[n].type /\ records'[n].props = records[n].props
  BY <1>2, <1>3, NodeChanged
<1>5. /\ labelIndex \in [Nodes -> [NodeTypes -> Nat]]
      /\ \A u \in NodeTypes : labelIndex[n][u] = IF u \in TypeIds(n) THEN 1 ELSE 0
  BY <1>1 DEF Labels, LabelIndexExact
<1> DEFINE less == Unlisted(labelIndex, n, old \ new)
<1>6. /\ less \in [Nodes -> [NodeTypes -> Nat]]
      /\ \A m \in Nodes, u \in NodeTypes :
             less[m][u] = IF m = n /\ u \in old \ new THEN 0 ELSE labelIndex[m][u]
  BY <1>1, <1>5 DEF Unlisted, TypeIds
<1> HIDE DEF less
<1>7. /\ labelIndex' \in [Nodes -> [NodeTypes -> Nat]]
      /\ \A m \in Nodes, u \in NodeTypes :
             labelIndex'[m][u] = IF m = n /\ u \in new \ old THEN less[m][u] + 1 ELSE less[m][u]
  <2>1. labelIndex' = Listed(less, n, new \ old)
    BY <1>1 DEF less
  <2> QED
    BY <1>6, <2>1 DEF Listed
<1>8. ASSUME NEW m \in Nodes, NEW u \in NodeTypes PROVE ListedRight(m, u)'
  <2>1. ListedRight(m, u)
    BY EntryByEntry DEF Labels
  <2>2. CASE m # n
    <3>1. IsListed(m, u)' <=> IsListed(m, u)
      BY <1>1, <1>3, <2>2 DEF IsListed
    <3> QED
      BY <1>6, <1>7, <2>1, <2>2, <3>1 DEF ListedRight
  <2>3. CASE m = n
    <3>1. labelIndex'[n][u] = IF u = records[n].type \/ u \in new THEN 1 ELSE 0
      BY <1>2, <1>5, <1>6, <1>7 DEF TypeIds
    <3>2. IsListed(n, u)' <=> u = records[n].type \/ u \in new
      BY <1>1, <1>4 DEF IsListed
    <3> QED
      BY <2>3, <3>1, <3>2 DEF ListedRight
  <2> QED
    BY <2>2, <2>3
<1>9. SchemaTyped'
  BY <1>1 DEF Labels, SchemaTyped
<1>10. Labels'
  BY <1>1, <1>2, <1>3, <1>4, <1>7, <1>8, <1>9, EntryByEntry DEF Labels
<1> QED
  BY <1>1, <1>3, <1>4, <1>10

\* A step that leaves the records of nodes alone.
NodesAsTheyAre ==
    /\ \A m \in Nodes : (m \in used' <=> m \in used) /\ records'[m] = records[m]
    /\ UNCHANGED <<schema, labelIndex, propIndex>>

\* The calls on one edge change its record and whether it is in use.
LEMMA EdgeStep ==
    ASSUME FreshIds = TRUE, Labels, EdgeCalls
    PROVE  NodesAsTheyAre /\ Labels'
<1>1. ASSUME NEW e \in Edges, used' \subseteq Ids, \A r : r # e => (r \in used' <=> r \in used),
             UNCHANGED <<schema, labelIndex, propIndex>>, records' = [r \in Ids |-> records'[r]],
             \A r \in Ids : r # e => records'[r] = records[r]
      PROVE  NodesAsTheyAre /\ Labels'
  <2>1. \A m \in Nodes : m # e /\ m \in Ids
    BY GraphAssumption DEF Ids
  <2>2. SchemaTyped'
    BY <1>1 DEF Labels, SchemaTyped
  <2>3. \A m \in Nodes : (m \in used' <=> m \in used) /\ records'[m] = records[m] /\ IsNode(records'[m])
    BY <1>1, <2>1 DEF Labels
  <2> QED
    BY <1>1, <2>2, <2>3, PropsStep DEF NodesAsTheyAre
<1>2. used \subseteq Ids /\ records = [r \in Ids |-> records[r]] /\ Edges \subseteq Ids
  BY DEF Labels, Ids
<1>3. ASSUME NEW e \in Edges, NEW t, NEW from, NEW to, NEW p, NEW labels, InsertEdge(e, t, from, to, p, labels)
      PROVE  NodesAsTheyAre /\ Labels'
  <2> DEFINE rec == [type |-> t, props |-> p, labels |-> Normalized(t, labels), ends |-> <<from, to>>]
  <2>1. /\ used' = used \cup {e} /\ records' = [records EXCEPT ![e] = rec]
        /\ UNCHANGED <<schema, labelIndex, propIndex>>
    BY <1>3 DEF InsertEdge
  <2> HIDE DEF rec
  <2> QED
    BY <1>1, <1>2, <2>1
<1>4. ASSUME NEW e \in Edges, DeleteEdge(e) PROVE NodesAsTheyAre /\ Labels'
  <2>1. /\ used' = used \ {e} /\ records' = [r \in Ids |-> IF r \in {e} THEN NoRecord ELSE records[r]]
        /\ UNCHANGED <<schema, labelIndex, propIndex>>
    BY <1>4 DEF DeleteEdge, Freed
  <2> QED
    BY <1>1, <1>2, <2>1
<1>5. ASSUME NEW e \in Edges, NEW p, UpdateProperties(e, p) PROVE NodesAsTheyAre /\ Labels'
  <2>1. e \notin Nodes
    BY GraphAssumption
  <2>2. records' = [records EXCEPT ![e].props = p] /\ UNCHANGED <<schema, used, labelIndex, propIndex>>
    BY <1>5, <2>1 DEF UpdateProperties
  <2> QED
    BY <1>1, <1>2, <2>2
<1>6. ASSUME NEW e \in Edges, NEW labels, SetEdgeLabels(e, labels) PROVE NodesAsTheyAre /\ Labels'
  <2>1. /\ records' = [records EXCEPT ![e].labels = Normalized(records[e].type, labels)]
        /\ UNCHANGED <<schema, used, labelIndex, propIndex>>
    BY <1>6 DEF SetEdgeLabels
  <2> QED
    BY <1>1, <1>2, <2>1
<1> QED
  BY <1>3, <1>4, <1>5, <1>6 DEF EdgeCalls, PatchProperties, AddEdgeLabel, RemoveEdgeLabel

\* The entries of a node in the property index.
NodeEntries(n) == Entries(records[n].type, n, records[n].props, Indexed(records[n].type))

\* update_node_properties
LEMMA UpdateNodeStep ==
    ASSUME Labels, NEW n \in Nodes, NEW p \in PropMaps, UpdateProperties(n, p)
    PROVE  /\ n \in used /\ UNCHANGED <<schema, used>> /\ ~Taken(records[n].type, p, {n})
           /\ propIndex' = (propIndex \ NodeEntries(n)) \cup Entries(records[n].type, n, p, Indexed(records[n].type))
           /\ records'[n] = WithProps(records[n], p)
           /\ \A m \in Nodes : m # n => records'[m] = records[m]
           /\ Labels'
<1>1. /\ n \in used /\ UNCHANGED <<schema, used, labelIndex>> /\ ~Taken(records[n].type, p, {n})
      /\ propIndex' = (propIndex \ NodeEntries(n)) \cup Entries(records[n].type, n, p, Indexed(records[n].type))
      /\ records' = [records EXCEPT ![n].props = p]
  BY DEF UpdateProperties, NodeEntries
<1>2. /\ records' = [r \in Ids |-> records'[r]] /\ records'[n] = WithProps(records[n], p)
      /\ \A m \in Nodes : m # n => records'[m] = records[m]
  BY <1>1 DEF Labels, Ids, WithProps
<1>3. IsNode(records[n])
  BY DEF Labels
<1>4. /\ IsNode(records'[n]) /\ records'[n].type = records[n].type /\ records'[n].labels = records[n].labels
  BY <1>2, <1>3, NodeChanged
<1>5. SchemaTyped'
  BY <1>1 DEF Labels, SchemaTyped
<1>6. /\ used' \subseteq Ids
      /\ \A m \in Nodes : /\ m \in used' <=> m \in used
                          /\ IsNode(records'[m]) /\ records'[m].type = records[m].type
                          /\ records'[m].labels = records[m].labels
                          /\ m \notin used => records'[m] = records[m]
  BY <1>1, <1>2, <1>3, <1>4 DEF Labels
<1>7. Labels'
  BY <1>1, <1>2, <1>5, <1>6, PropsStep
<1> QED
  BY <1>1, <1>2, <1>7

\* Visible properties are properties.
LEMMA VisibleProps ==
    ASSUME NEW r, records[r].props \in PropMaps
    PROVE  /\ Visible(r) \in PropMaps /\ DOMAIN Visible(r) \subseteq DOMAIN records[r].props
           /\ \A f \in DOMAIN Visible(r) : Visible(r)[f] = records[r].props[f]
<1>1. \A S : /\ Restrict(records[r].props, DOMAIN records[r].props \cap S) \in PropMaps
            /\ DOMAIN Restrict(records[r].props, DOMAIN records[r].props \cap S) = DOMAIN records[r].props \cap S
            /\ \A f \in DOMAIN records[r].props \cap S :
                   Restrict(records[r].props, DOMAIN records[r].props \cap S)[f] = records[r].props[f]
  BY PropsClosed DEF Restrict
<1> QED
  BY <1>1 DEF Visible

-----------------------------------------------------------------------------
\* Schema calls and the label index.

\* rids_of_kind finds the nodes of a type in the label index: those in use that have properties.
LEMMA OfTypeNodes ==
    ASSUME Labels, NEW t \in Types, NEW n \in Nodes
    PROVE  n \in OfType(t) <=> n \in used /\ records[n].type = t /\ records[n].props # <<>>
<1>1. n \in Ids /\ (n \in used => records[n].type \in NodeTypes)
  BY DEF Labels, Ids
<1>2. CASE t \in NodeTypes
  <2>1. ListedRight(n, t)
    BY <1>2, EntryByEntry DEF Labels
  <2>2. labelIndex[n][t] > 0 <=> IsListed(n, t)
    BY <2>1 DEF ListedRight
  <2> QED
    BY <1>1, <1>2, <2>2 DEF OfType, IsListed
<1>3. CASE t \notin NodeTypes
  BY <1>1, <1>3 DEF OfType
<1> QED
  BY <1>2, <1>3

\* A schema call puts the properties q in the place of those of the records S.
LEMMA RewriteStep ==
    ASSUME Labels, SchemaTyped', UNCHANGED <<used, labelIndex>>, NEW S, NEW q,
           records' = [r \in Ids |-> IF r \in S THEN WithProps(records[r], q[r]) ELSE records[r]],
           \A n \in S \cap Nodes : n \in used /\ q[n] \in PropMaps
    PROVE  /\ Labels'
           /\ \A n \in Nodes : /\ records'[n].type = records[n].type
                               /\ records'[n].props = IF n \in S THEN q[n] ELSE records[n].props
<1>1. \A n \in Nodes : records'[n] = IF n \in S THEN WithProps(records[n], q[n]) ELSE records[n]
  BY DEF Ids
<1>2. ASSUME NEW n \in Nodes
      PROVE  /\ IsNode(records'[n]) /\ records'[n].type = records[n].type
             /\ records'[n].labels = records[n].labels
             /\ records'[n].props = IF n \in S THEN q[n] ELSE records[n].props
             /\ n \notin used => records'[n] = records[n]
  <2>1. IsNode(records[n])
    BY DEF Labels
  <2>2. CASE n \in S
    BY <1>1, <2>1, <2>2, NodeChanged
  <2>3. CASE n \notin S
    BY <1>1, <2>1, <2>3
  <2> QED
    BY <2>2, <2>3
<1>3. records' = [r \in Ids |-> records'[r]] /\ used' \subseteq Ids
  BY DEF Labels
<1>4. Labels'
  BY <1>2, <1>3, PropsStep
<1> QED
  BY <1>2, <1>4

\* The mark of a field that is declared.
LEMMA Declares ==
    ASSUME SchemaTyped, NEW t \in DOMAIN schema
    PROVE  /\ t \in Types /\ Declared(t) = DOMAIN schema[t] /\ Declared(t) \subseteq Fields
           /\ schema[t] \in [Declared(t) -> FieldDefs]
  BY DEF SchemaTyped, FieldMaps, Declared

\* What apply_schema does to nodes.
LEMMA ApplySchemaStep ==
    ASSUME Labels, NEW new \in Schemas, ApplySchema(new)
    PROVE  /\ Labels' /\ UNCHANGED used /\ schema' = new /\ (SettledMarks => Settled(new))
           /\ \A n \in Nodes :
                  /\ records'[n].type = records[n].type
                  /\ n \in Purged(new) => n \in used /\ records[n].type \in Changing(new)
                  /\ n \in used /\ n \notin Purged(new) /\ records[n].type \in Changing(new)
                         => DOMAIN records[n].props \subseteq Keep(new, records[n].type)
                  /\ records'[n].props = IF n \in Purged(new)
                         THEN Restrict(records[n].props, DOMAIN records[n].props \cap Keep(new, records[n].type))
                         ELSE records[n].props
           /\ propIndex' = propIndex \ UNION {Entries(records[n].type, n, records[n].props,
                                Indexed(records[n].type) \ DOMAIN new[records[n].type]) : n \in Purged(new) \cap Nodes}
<1> DEFINE kept(r) == Restrict(records[r].props, DOMAIN records[r].props \cap Keep(new, records[r].type))
           S == Purged(new)
           q == [r \in Ids |-> kept(r)]
<1>1. /\ UNCHANGED <<used, labelIndex>> /\ schema' = new /\ (SettledMarks => Settled(new))
      /\ propIndex' = propIndex \ UNION {Entries(records[n].type, n, records[n].props,
                                Indexed(records[n].type) \ DOMAIN new[records[n].type]) : n \in S \cap Nodes}
      /\ records' = [r \in Ids |-> IF r \in S THEN WithProps(records[r], kept(r)) ELSE records[r]]
  BY DEF ApplySchema, WithProps
<1>2. SchemaTyped'
  BY <1>1, GraphAssumption DEF SchemaTyped, Types
<1>3. ASSUME NEW n \in Nodes
      PROVE  /\ n \in S => n \in used /\ records[n].type \in Changing(new)
             /\ n \in used /\ n \notin S /\ records[n].type \in Changing(new)
                    => DOMAIN records[n].props \subseteq Keep(new, records[n].type)
  <2>1. \A t \in Changing(new) : t \in Types
    BY DEF Changing, Labels, SchemaTyped
  <2>2. n \in S <=> \E t \in Changing(new) : n \in OfType(t) /\ ~(DOMAIN records[n].props \subseteq Keep(new, t))
    BY DEF Purged
  <2>3. n \in S <=> \E t \in Changing(new) : /\ n \in used /\ records[n].type = t /\ records[n].props # <<>>
                                            /\ ~(DOMAIN records[n].props \subseteq Keep(new, t))
    BY <2>1, <2>2, OfTypeNodes
  <2> QED
    BY <2>3, EmptyProps
<1>4. ASSUME NEW n \in S \cap Nodes PROVE n \in used /\ q[n] = kept(n) /\ q[n] \in PropMaps
  <2>1. records[n].props \in PropMaps
    BY DEF Labels, IsNode
  <2> QED
    BY <1>3, <2>1, PropsClosed DEF Ids
<1> HIDE DEF S
<1>5. records' = [r \in Ids |-> IF r \in S THEN WithProps(records[r], q[r]) ELSE records[r]]
  BY <1>1
<1> HIDE DEF q
<1>6. /\ Labels'
      /\ \A n \in Nodes : /\ records'[n].type = records[n].type
                          /\ records'[n].props = IF n \in S THEN q[n] ELSE records[n].props
  BY <1>1, <1>2, <1>4, <1>5, RewriteStep
<1>7. \A n \in Nodes : records'[n].props = IF n \in S THEN kept(n) ELSE records[n].props
  BY <1>4, <1>6
<1> HIDE DEF kept
<1>8. \A n \in Nodes : kept(n) = Restrict(records[n].props, DOMAIN records[n].props \cap Keep(new, records[n].type))
  BY DEF kept
<1> QED
  BY <1>1, <1>3, <1>6, <1>7, <1>8 DEF S

\* The sets f[n] of the nodes S.
AllOf(f, S) == UNION {f[n] : n \in S}

\* The records that a rename rewrites, and what it takes out of the property index and puts in.
Touched(t, f, g) == {r \in OfType(t) : {f, g} \cap DOMAIN records[r].props # {}}
Moved(t, f, g)   == IF f \in Indexed(t) THEN Touched(t, f, g) \cap Nodes ELSE {}
RenamedOut(t, f, g) == [n \in Moved(t, f, g) |-> Entries(t, n, records[n].props, {f})]
RenamedIn(t, f, g)  == [n \in Moved(t, f, g) |-> Entries(t, n, RenamedProps(records[n].props, f, g), {g})]

\* What a rename does to nodes.
LEMMA RenameStep ==
    ASSUME Labels, NEW t \in DOMAIN schema, NEW f \in Fields, NEW g \in Fields, RenameField(t, f, g)
    PROVE  /\ Labels' /\ UNCHANGED used /\ f \in Declared(t) /\ g \notin Declared(t)
           /\ schema' = [schema EXCEPT ![t] = RenamedDef(t, f, g)]
           /\ \A n \in Nodes :
                  /\ records'[n].type = records[n].type
                  /\ n \in Touched(t, f, g) <=> /\ n \in used /\ records[n].type = t
                                       /\ {f, g} \cap DOMAIN records[n].props # {}
                  /\ records'[n].props = IF n \in Touched(t, f, g) THEN RenamedProps(records[n].props, f, g)
                                         ELSE records[n].props
           /\ propIndex' = (propIndex \ AllOf(RenamedOut(t, f, g), Moved(t, f, g)))
                               \cup AllOf(RenamedIn(t, f, g), Moved(t, f, g))
<1> DEFINE q == [r \in Ids |-> RenamedProps(records[r].props, f, g)]
<1>1. /\ UNCHANGED <<used, labelIndex>> /\ f \in Declared(t) /\ g \notin Declared(t)
      /\ schema' = [schema EXCEPT ![t] = RenamedDef(t, f, g)]
      /\ propIndex' = (propIndex \ UNION {Entries(t, n, records[n].props, {f}) : n \in Moved(t, f, g)})
                          \cup UNION {Entries(t, n, RenamedProps(records[n].props, f, g), {g}) : n \in Moved(t, f, g)}
      /\ records' = [r \in Ids |-> IF r \in Touched(t, f, g) THEN WithProps(records[r], RenamedProps(records[r].props, f, g))
                                   ELSE records[r]]
  BY DEF RenameField, WithProps, Touched, Moved
<1>2. SchemaTyped'
  <2>1. SchemaTyped
    BY DEF Labels
  <2>2. /\ t \in Types /\ Declared(t) \subseteq Fields /\ schema[t] \in [Declared(t) -> FieldDefs]
    BY <2>1, Declares
  <2> DEFINE D == (Declared(t) \ {f}) \cup {g}
             def == [h \in D |-> schema[t][IF h = g THEN f ELSE h]]
  <2>3. D \subseteq Fields /\ \A h \in D : (IF h = g THEN f ELSE h) \in Declared(t)
    BY <1>1, <2>2
  <2> HIDE DEF D
  <2>4. D \in SUBSET Fields /\ def \in [D -> FieldDefs]
    BY <2>2, <2>3
  <2>5. def \in FieldMaps
    BY <2>4 DEF FieldMaps
  <2>6. RenamedDef(t, f, g) = def
    BY DEF RenamedDef, D
  <2> HIDE DEF def
  <2>7. DOMAIN schema' = DOMAIN schema /\ \A u \in DOMAIN schema : schema'[u] = IF u = t THEN def ELSE schema[u]
    BY <1>1, <2>6
  <2> QED
    BY <2>1, <2>5, <2>7 DEF SchemaTyped
<1>3. t \in Types
  BY Declares DEF Labels
<1>4. ASSUME NEW n \in Nodes
      PROVE  n \in Touched(t, f, g) <=> n \in used /\ records[n].type = t /\ {f, g} \cap DOMAIN records[n].props # {}
  BY <1>3, OfTypeNodes, EmptyProps DEF Touched
<1>5. ASSUME NEW n \in Touched(t, f, g) \cap Nodes PROVE n \in used /\ q[n] = RenamedProps(records[n].props, f, g) /\ q[n] \in PropMaps
  <2>1. records[n].props \in PropMaps
    BY DEF Labels, IsNode
  <2> QED
    BY <1>4, <2>1, PropsClosed DEF Ids
<1>6. records' = [r \in Ids |-> IF r \in Touched(t, f, g) THEN WithProps(records[r], q[r]) ELSE records[r]]
  BY <1>1
<1> HIDE DEF q
<1>7. /\ Labels'
      /\ \A n \in Nodes : /\ records'[n].type = records[n].type
                          /\ records'[n].props = IF n \in Touched(t, f, g) THEN q[n] ELSE records[n].props
  <2>1. UNCHANGED <<used, labelIndex>> /\ \A n \in Touched(t, f, g) \cap Nodes : n \in used /\ q[n] \in PropMaps
    BY <1>1, <1>5
  <2> QED
    BY <1>2, <1>6, <2>1, RewriteStep
<1>8. propIndex' = (propIndex \ AllOf(RenamedOut(t, f, g), Moved(t, f, g))) \cup AllOf(RenamedIn(t, f, g), Moved(t, f, g))
  <2>1. AllOf(RenamedOut(t, f, g), Moved(t, f, g)) = UNION {Entries(t, n, records[n].props, {f}) : n \in Moved(t, f, g)}
    BY DEF AllOf, RenamedOut
  <2>2. AllOf(RenamedIn(t, f, g), Moved(t, f, g))
            = UNION {Entries(t, n, RenamedProps(records[n].props, f, g), {g}) : n \in Moved(t, f, g)}
    BY DEF AllOf, RenamedIn
  <2> QED
    BY <1>1, <2>1, <2>2
<1>9. \A n \in Nodes : records'[n].props = IF n \in Touched(t, f, g) THEN RenamedProps(records[n].props, f, g)
                                           ELSE records[n].props
  BY <1>5, <1>7
<1> QED
  BY <1>1, <1>4, <1>7, <1>8, <1>9

\* A value becomes a value.
LEMMA ValueAsValue ==
    ASSUME NEW v \in Values, NEW to \in {"String", "Int"}
    PROVE  ValueAs(v, to) \in Values
<1>1. v \in Strings => IntOf[v] \in Numbers \cup {NoValue}
  BY GraphAssumption
<1>2. v \in Numbers => TextOf[v] \in Strings
  BY GraphAssumption
<1>3. CASE Matches(v, to)
  BY <1>3 DEF ValueAs, Converted, Values
<1>4. CASE ~Matches(v, to) /\ v \in Strings
  BY <1>1, <1>4 DEF ValueAs, Converted, Values
<1>5. CASE ~Matches(v, to) /\ v \notin Strings
  <2>1. v \in Numbers
    BY <1>5 DEF Matches, Values
  <2> QED
    BY <1>2, <1>5, <2>1 DEF ValueAs, Converted, Values
<1> QED
  BY <1>3, <1>4, <1>5

\* What a change of type takes out of the property index and puts in.
Converting(t, f, to) == IF f \in Indexed(t) THEN Replaced(t, f, to) \cap Nodes ELSE {}
ConvertedOut(t, f, to) == [n \in Converting(t, f, to) |-> Entries(t, n, records[n].props, {f})]
ConvertedIn(t, f, to)  == [n \in Converting(t, f, to) |-> Entries(t, n, PropsAs(n, f, to), {f})]

\* What a change of type does to nodes.
LEMMA ChangeTypeStep ==
    ASSUME Labels, NEW t \in DOMAIN schema, NEW f \in Fields, NEW to \in {"String", "Int"}, NEW reject,
           ChangeFieldType(t, f, to, reject)
    PROVE  /\ Labels' /\ UNCHANGED used /\ f \in Declared(t) /\ schema' = [schema EXCEPT ![t][f].type = to]
           /\ f \in Unique(t) => ~ClashAs(t, f, to)
           /\ \A n \in Nodes :
                  /\ records'[n].type = records[n].type
                  /\ n \in StoredIn(t, f) <=> /\ n \in used /\ records[n].type = t
                                              /\ f \in DOMAIN records[n].props /\ records[n].props[f] # Null
                  /\ records'[n].props = IF n \in Replaced(t, f, to) THEN PropsAs(n, f, to) ELSE records[n].props
           /\ propIndex' = (propIndex \ AllOf(ConvertedOut(t, f, to), Converting(t, f, to)))
                               \cup AllOf(ConvertedIn(t, f, to), Converting(t, f, to))
<1>1. /\ UNCHANGED <<used, labelIndex>> /\ f \in Declared(t) /\ schema' = [schema EXCEPT ![t][f].type = to]
      /\ f \in Unique(t) => ~ClashAs(t, f, to)
      /\ propIndex' = (propIndex \ UNION {Entries(t, n, records[n].props, {f}) : n \in Converting(t, f, to)})
                          \cup UNION {Entries(t, n, PropsAs(n, f, to), {f}) : n \in Converting(t, f, to)}
      /\ records' = [r \in Ids |-> IF r \in Replaced(t, f, to) THEN WithProps(records[r], PropsAs(r, f, to))
                                   ELSE records[r]]
  BY DEF ChangeFieldType, WithProps, Converting
<1>2. SchemaTyped'
  <2>1. SchemaTyped
    BY DEF Labels
  <2>2. /\ t \in Types /\ Declared(t) \subseteq Fields /\ Declared(t) = DOMAIN schema[t]
        /\ schema[t] \in [Declared(t) -> FieldDefs]
    BY <2>1, Declares
  <2> DEFINE def == [schema[t] EXCEPT ![f].type = to]
  <2>3. [schema[t][f] EXCEPT !.type = to] \in FieldDefs
    BY <1>1, <2>2 DEF FieldDefs
  <2>4. def \in [Declared(t) -> FieldDefs]
    BY <2>2, <2>3
  <2>5. def \in FieldMaps
    BY <2>2, <2>4 DEF FieldMaps
  <2> HIDE DEF def
  <2>6. schema' = [schema EXCEPT ![t] = def]
    BY <1>1, Zenon DEF def
  <2>7. DOMAIN schema' = DOMAIN schema /\ \A u \in DOMAIN schema : schema'[u] = IF u = t THEN def ELSE schema[u]
    BY <2>6
  <2> QED
    BY <2>1, <2>5, <2>7 DEF SchemaTyped
<1>3. t \in Types
  BY Declares DEF Labels
<1>4. ASSUME NEW n \in Nodes
      PROVE  n \in StoredIn(t, f) <=> /\ n \in used /\ records[n].type = t
                                      /\ f \in DOMAIN records[n].props /\ records[n].props[f] # Null
  BY <1>3, OfTypeNodes, EmptyProps DEF StoredIn
<1> DEFINE q == [r \in Ids |-> PropsAs(r, f, to)]
<1>5. ASSUME NEW n \in Replaced(t, f, to) \cap Nodes PROVE n \in used /\ q[n] = PropsAs(n, f, to) /\ q[n] \in PropMaps
  <2>1. n \in StoredIn(t, f) /\ records[n].props \in PropMaps
    BY DEF Replaced, Labels, IsNode
  <2>2. n \in used /\ f \in DOMAIN records[n].props
    BY <1>4, <2>1
  <2>3. ValueAs(records[n].props[f], to) \in Values
    BY <2>1, <2>2, PropMap, ValueAsValue
  <2> QED
    BY <2>1, <2>2, <2>3, PropsClosed DEF Ids, PropsAs
<1>6. records' = [r \in Ids |-> IF r \in Replaced(t, f, to) THEN WithProps(records[r], q[r]) ELSE records[r]]
  BY <1>1
<1> HIDE DEF q
<1>7. /\ Labels'
      /\ \A n \in Nodes : /\ records'[n].type = records[n].type
                          /\ records'[n].props = IF n \in Replaced(t, f, to) THEN q[n] ELSE records[n].props
  <2> DEFINE S == Replaced(t, f, to)
  <2>1. UNCHANGED <<used, labelIndex>> /\ \A n \in S \cap Nodes : n \in used /\ q[n] \in PropMaps
    BY <1>1, <1>5
  <2>2. records' = [r \in Ids |-> IF r \in S THEN WithProps(records[r], q[r]) ELSE records[r]]
    BY <1>6
  <2> HIDE DEF S
  <2>3. /\ Labels'
        /\ \A n \in Nodes : /\ records'[n].type = records[n].type
                            /\ records'[n].props = IF n \in S THEN q[n] ELSE records[n].props
    BY <1>2, <2>1, <2>2, RewriteStep
  <2> QED
    BY <2>3 DEF S
<1>8. \A n \in Nodes : records'[n].props = IF n \in Replaced(t, f, to) THEN PropsAs(n, f, to) ELSE records[n].props
  BY <1>5, <1>7
<1>9. propIndex' = (propIndex \ AllOf(ConvertedOut(t, f, to), Converting(t, f, to)))
                       \cup AllOf(ConvertedIn(t, f, to), Converting(t, f, to))
  <2>1. AllOf(ConvertedOut(t, f, to), Converting(t, f, to))
            = UNION {Entries(t, n, records[n].props, {f}) : n \in Converting(t, f, to)}
    BY DEF AllOf, ConvertedOut
  <2>2. AllOf(ConvertedIn(t, f, to), Converting(t, f, to))
            = UNION {Entries(t, n, PropsAs(n, f, to), {f}) : n \in Converting(t, f, to)}
    BY DEF AllOf, ConvertedIn
  <2> QED
    BY <1>1, <2>1, <2>2
<1> QED
  BY <1>1, <1>4, <1>7, <1>8, <1>9

-----------------------------------------------------------------------------
\* Vacuum and the label index.

\* The record that is copied to an id.
Source(ids, r) == CHOOSE q \in used : ids[q] = r

\* vacuum lists the nodes in use under their new ids.
LEMMA VacuumStep ==
    ASSUME Labels, NEW ids \in Renumberings, Vacuum(ids)
    PROVE  /\ Labels' /\ UNCHANGED schema
           /\ propIndex' = UNION {NodeEntries(n)' : n \in Nodes \cap used'}
           /\ \A m \in Nodes \cap used' :
                  /\ Source(ids, m) \in Nodes \cap used /\ ids[Source(ids, m)] = m
                  /\ records'[m].type = records[Source(ids, m)].type
                  /\ records'[m].props = Visible(Source(ids, m))
<1> DEFINE live(r) == CHOOSE q \in used : ids[q] = r
           copy(r) == [type |-> records[r].type, props |-> Visible(r), labels |-> records[r].labels,
                       ends |-> [i \in DOMAIN records[r].ends |-> ids[records[r].ends[i]]]]
           nodes == {ids[n] : n \in used \cap Nodes}
<1>1. /\ used' = {ids[r] : r \in used} /\ UNCHANGED schema
      /\ records' = [r \in Ids |-> IF r \in used' THEN copy(live(r)) ELSE NoRecord]
      /\ labelIndex' = [n \in Nodes |-> [t \in NodeTypes |-> IF n \in nodes /\ t \in TypeIds(n)' THEN 1 ELSE 0]]
      /\ propIndex' = UNION {Entries(records'[n].type, n, records'[n].props, Indexed(records'[n].type)) : n \in nodes}
  BY DEF Vacuum
<1>2. /\ ids \in [used -> Ids] /\ \A r \in used : ids[r] \in Nodes <=> r \in Nodes
  BY DEF Renumberings, Injection
<1> HIDE DEF copy
<1>3. nodes = Nodes \cap used'
  BY <1>1, <1>2
<1>4. ASSUME NEW m \in Nodes \cap used'
      PROVE  /\ live(m) \in Nodes \cap used /\ ids[live(m)] = m
  <2>1. \E r \in used : ids[r] = m
    BY <1>1
  <2>2. live(m) \in used /\ ids[live(m)] = m
    BY <2>1
  <2> QED
    BY <1>2, <2>2
<1>5. ASSUME NEW m \in Nodes \cap used'
      PROVE  /\ IsNode(records'[m]) /\ records'[m].type = records[live(m)].type
             /\ records'[m].labels = records[live(m)].labels /\ records'[m].props = Visible(live(m))
  <2> DEFINE q == live(m)
             e == [i \in DOMAIN records[q].ends |-> ids[records[q].ends[i]]]
  <2>1. records'[m] = [type |-> records[q].type, props |-> Visible(q), labels |-> records[q].labels, ends |-> e]
    BY <1>1 DEF Ids, copy
  <2>2. q \in Nodes
    BY <1>4
  <2> HIDE DEF q, e
  <2>3. IsNode(records[q]) /\ records[q].props \in PropMaps
    BY <2>2 DEF Labels, IsNode
  <2>4. Visible(q) \in PropMaps
    BY <2>3, VisibleProps
  <2> QED
    BY <2>1, <2>4, NewNode DEF q
<1>6. ASSUME NEW m \in Nodes, m \notin used' PROVE IsNode(records'[m]) /\ records'[m] = NoRecord
  <2>1. records'[m] = NoRecord
    BY <1>1, <1>6 DEF Ids
  <2> QED
    BY <2>1, EmptyProps DEF NoRecord, IsNode
<1> HIDE DEF nodes, live
<1>7. /\ labelIndex' \in [Nodes -> [NodeTypes -> Nat]]
      /\ \A n \in Nodes, t \in NodeTypes : labelIndex'[n][t] = IF n \in nodes /\ t \in TypeIds(n)' THEN 1 ELSE 0
  BY <1>1
<1>8. LabelIndexExact'
  BY <1>3, <1>7 DEF LabelIndexExact
<1>9. ASSUME NEW m \in Nodes \cap used'
      PROVE  /\ records'[m].type \in NodeTypes /\ records'[m].labels \subseteq NodeTypes
             /\ records'[m].type \notin records'[m].labels
  BY <1>4, <1>5 DEF Labels
<1>10. SchemaTyped' /\ used' \subseteq Ids /\ records' = [r \in Ids |-> records'[r]]
  BY <1>1, <1>2 DEF Labels, SchemaTyped
<1>11. Labels'
  BY <1>5, <1>6, <1>7, <1>8, <1>9, <1>10 DEF Labels
<1>12. propIndex' = UNION {NodeEntries(n)' : n \in Nodes \cap used'}
  <2>1. \A t : Indexed(t)' = Indexed(t)
    BY <1>1 DEF Indexed, Declared
  <2>2. \A n : NodeEntries(n)' = Entries(records'[n].type, n, records'[n].props, Indexed(records'[n].type))
    BY <2>1 DEF NodeEntries, Entries
  <2> QED
    BY <1>1, <1>3, <2>2
<1> QED
  BY <1>1, <1>4, <1>5, <1>11, <1>12 DEF Source, live

-----------------------------------------------------------------------------
\* Every step.

\* The calls on nodes, by what the lemmas above say of them.
LEMMA NodeCases ==
    ASSUME FreshIds = TRUE, Labels, NodeCalls
    PROVE  \/ \E n \in Nodes, t \in NodeTypes, p \in PropMaps, labels \in SUBSET NodeTypes : InsertNode(n, t, p, labels)
           \/ \E n \in Nodes : DeleteNode(n)
           \/ \E n \in Nodes, p \in PropMaps : UpdateProperties(n, p)
           \/ \E n \in Nodes, labels \in SUBSET NodeTypes : SetNodeLabels(n, labels)
<1>1. NodeInputs \subseteq PropMaps
  BY GraphAssumption
<1>2. ASSUME NEW n \in Nodes, NEW p \in NodeInputs, PatchProperties(n, p)
      PROVE  Patched(p, Visible(n)) \in PropMaps /\ UpdateProperties(n, Patched(p, Visible(n)))
  <2>1. records[n].props \in PropMaps
    BY DEF Labels, IsNode
  <2> QED
    BY <1>1, <1>2, <2>1, VisibleProps, PropsClosed DEF PatchProperties
<1>3. ASSUME NEW n \in Nodes, NEW labels, SetNodeLabels(n, labels) PROVE records[n].labels \subseteq NodeTypes
  BY <1>3 DEF SetNodeLabels, Labelled, Labels
<1>4. ASSUME NEW n \in Nodes, NEW t \in NodeTypes, AddNodeLabel(n, t) \/ RemoveNodeLabel(n, t)
      PROVE  \E labels \in SUBSET NodeTypes : SetNodeLabels(n, labels)
  <2>1. CASE AddNodeLabel(n, t)
    <3> DEFINE labels == records[n].labels \cup {t}
    <3>1. SetNodeLabels(n, labels)
      BY <2>1 DEF AddNodeLabel
    <3> HIDE DEF labels
    <3>2. records[n].labels \subseteq NodeTypes
      BY <1>3, <3>1
    <3>3. labels \in SUBSET NodeTypes
      BY <3>2 DEF labels
    <3> QED
      BY <3>1, <3>3
  <2>2. CASE RemoveNodeLabel(n, t)
    <3> DEFINE labels == records[n].labels \ {t}
    <3>1. SetNodeLabels(n, labels)
      BY <2>2 DEF RemoveNodeLabel
    <3> HIDE DEF labels
    <3>2. records[n].labels \subseteq NodeTypes
      BY <1>3, <3>1
    <3>3. labels \in SUBSET NodeTypes
      BY <3>2 DEF labels
    <3> QED
      BY <3>1, <3>3
  <2> QED
    BY <1>4, <2>1, <2>2
<1> QED
  BY <1>1, <1>2, <1>4 DEF NodeCalls

\* Every step keeps the label index.
LEMMA LabelsNext ==
    ASSUME FreshIds = TRUE, Labels, [Next]_vars
    PROVE  Labels'
<1>1. CASE NodeCalls
  BY <1>1, NodeCases, InsertNodeStep, DeleteNodeStep, UpdateNodeStep, NodeLabelsStep
<1>2. CASE EdgeCalls
  BY <1>2, EdgeStep
<1>3. CASE SchemaCalls
  BY <1>3, ApplySchemaStep, RenameStep, ChangeTypeStep DEF SchemaCalls
<1>4. CASE \E ids \in Renumberings : Vacuum(ids)
  BY <1>4, VacuumStep
<1>5. CASE UNCHANGED vars
  <2>1. \A n, t : ListedRight(n, t)' <=> ListedRight(n, t)
    BY <1>5 DEF vars, ListedRight, IsListed
  <2>2. LabelIndexExact'
    BY <2>1, EntryByEntry DEF Labels
  <2> QED
    BY <1>5, <2>2 DEF vars, Labels, SchemaTyped
<1> QED
  BY <1>1, <1>2, <1>3, <1>4, <1>5 DEF Next

\* The label index agrees with the records after every call, for any number of nodes, edges,
\* types and schemas: list_nodes and count_nodes, which read it, give what a scan would
\* give.  Calls that set labels of deleted nodes are left out, as the label calls of db.rs do
\* not reject them.
THEOREM LabelIndexAgrees == ASSUME FreshIds = TRUE PROVE Spec => []LabelIndexExact
<1>1. Init => Labels
  BY LabelsInit
<1>2. Labels /\ [Next]_vars => Labels'
  BY LabelsNext
<1>3. Labels => LabelIndexExact
  BY DEF Labels
<1> QED
  BY <1>1, <1>2, <1>3, PTL DEF Spec

-----------------------------------------------------------------------------
\* The property index.

\* The entries that a node ought to have.
Held(n) == IF n \in used THEN NodeEntries(n) ELSE {}

\* What the entries of some properties are.
LEMMA EntriesAre ==
    \A t, n, p, F, x : x \in Entries(t, n, p, F) <=> \E f \in F \cap DOMAIN p : p[f] # Null /\ x = <<t, f, p[f], n>>
  BY DEF Entries

\* The entries of a node name it.
LEMMA HeldByOwner ==
    /\ \A n : \A x \in Held(n) : x[4] = n
    /\ \A n : \A x \in Held(n)' : x[4] = n
<1>1. \A t, n, p, F : \A x \in Entries(t, n, p, F) : x[4] = n
  BY EntriesAre
<1>2. \A n : \A x \in Held(n) : x[4] = n
  BY <1>1 DEF Held, NodeEntries
<1>3. \A n : \A x \in Held(n)' : x[4] = n
  BY <1>1 DEF Held, NodeEntries
<1> QED
  BY <1>2, <1>3

\* The property index is exact when it is what the nodes ought to have.
LEMMA IndexIsHeld ==
    /\ PropIndexExact <=> propIndex = UNION {Held(n) : n \in Nodes}
    /\ PropIndexExact' <=> propIndex' = UNION {Held(n)' : n \in Nodes}
<1>1. UNION {Held(n) : n \in Nodes} = UNION {NodeEntries(n) : n \in Nodes \cap used}
  BY DEF Held
<1>2. UNION {Held(n)' : n \in Nodes} = UNION {NodeEntries(n)' : n \in Nodes \cap used'}
  BY DEF Held
<1>3. PropIndexExact <=> propIndex = UNION {NodeEntries(n) : n \in Nodes \cap used}
  BY DEF PropIndexExact, NodeEntries
<1>4. PropIndexExact' <=> propIndex' = UNION {NodeEntries(n)' : n \in Nodes \cap used'}
  BY DEF PropIndexExact, NodeEntries
<1> QED
  BY <1>1, <1>2, <1>3, <1>4

\* A call that takes the entries g[n] out and puts the entries c[n] in, for the nodes of S.
LEMMA IndexMoves ==
    ASSUME PropIndexExact, NEW S \in SUBSET Nodes, NEW g, NEW c,
           propIndex' = (propIndex \ AllOf(g, S)) \cup AllOf(c, S),
           \A n \in S : \A x \in g[n] \cup c[n] : x[4] = n,
           \A n \in S : Held(n)' = (Held(n) \ g[n]) \cup c[n],
           \A n \in Nodes \ S : Held(n)' = Held(n)
    PROVE  PropIndexExact'
<1>1. propIndex = UNION {Held(n) : n \in Nodes}
  BY IndexIsHeld
<1>2. ASSUME NEW x PROVE x \in propIndex' <=> \E n \in Nodes : x \in Held(n)'
  <2>1. x \in propIndex <=> x[4] \in Nodes /\ x \in Held(x[4])
    BY <1>1, HeldByOwner
  <2>2. (\E n \in Nodes : x \in Held(n)') <=> x[4] \in Nodes /\ x \in Held(x[4])'
    BY HeldByOwner
  <2>3. /\ x \in AllOf(g, S) <=> x[4] \in S /\ x \in g[x[4]]
        /\ x \in AllOf(c, S) <=> x[4] \in S /\ x \in c[x[4]]
    BY DEF AllOf
  <2>4. CASE x[4] \in S
    BY <2>1, <2>2, <2>3, <2>4
  <2>5. CASE x[4] \notin S
    BY <2>1, <2>2, <2>3, <2>5
  <2> QED
    BY <2>4, <2>5
<1>3. propIndex' = UNION {Held(n)' : n \in Nodes}
  BY <1>2
<1> QED
  BY <1>3, IndexIsHeld

\* A call that leaves the index alone and what it is made from.
LEMMA IndexStays ==
    ASSUME PropIndexExact, propIndex' = propIndex, \A n \in Nodes : Held(n)' = Held(n)
    PROVE  PropIndexExact'
<1> DEFINE g == [n \in {} |-> {}]
<1> QED
  BY IndexMoves, IndexIsHeld

\* The indexed and the unique fields of a type under a schema.
FieldsIn(s, t) == IF t \in DOMAIN s THEN DOMAIN s[t] ELSE {}
IndexedIn(s, t) == {f \in FieldsIn(s, t) : t \in NodeTypes /\ s[t][f].mark # "plain"}
UniqueIn(s, t)  == {f \in IndexedIn(s, t) : s[t][f].mark = "unique"}

\* The marks of a type, now and after a step.
LEMMA MarksIn ==
    /\ \A t : Declared(t) = FieldsIn(schema, t) /\ Indexed(t) = IndexedIn(schema, t) /\ Unique(t) = UniqueIn(schema, t)
    /\ \A t : Indexed(t)' = IndexedIn(schema', t) /\ Unique(t)' = UniqueIn(schema', t)
<1>1. \A t : Declared(t) = FieldsIn(schema, t) /\ Declared(t)' = FieldsIn(schema', t)
  BY DEF Declared, FieldsIn
<1>2. \A t : Indexed(t) = IndexedIn(schema, t) /\ Indexed(t)' = IndexedIn(schema', t)
  BY <1>1 DEF Indexed, IndexedIn
<1> QED
  BY <1>1, <1>2 DEF Unique, UniqueIn

\* Entries depend on the properties and the marks.
LEMMA HeldAs ==
    /\ \A n, x : x \in Held(n) <=> /\ n \in used
                                   /\ \E f \in IndexedIn(schema, records[n].type) \cap DOMAIN records[n].props :
                                          /\ records[n].props[f] # Null
                                          /\ x = <<records[n].type, f, records[n].props[f], n>>
    /\ \A n, x : x \in Held(n)' <=> /\ n \in used'
                                    /\ \E f \in IndexedIn(schema', records'[n].type) \cap DOMAIN records'[n].props :
                                           /\ records'[n].props[f] # Null
                                           /\ x = <<records'[n].type, f, records'[n].props[f], n>>
<1>1. \A n, x : x \in Held(n) <=> n \in used /\ x \in Entries(records[n].type, n, records[n].props, IndexedIn(schema, records[n].type))
  BY MarksIn DEF Held, NodeEntries
<1>2. \A n, x : x \in Held(n)' <=> n \in used' /\ x \in Entries(records'[n].type, n, records'[n].props, IndexedIn(schema', records'[n].type))
  <2>1. \A n : Indexed(records[n].type)' = IndexedIn(schema', records'[n].type)
    BY DEF Indexed, IndexedIn, Declared, FieldsIn
  <2> QED
    BY <2>1 DEF Held, NodeEntries, Entries
<1> QED
  BY <1>1, <1>2, EntriesAre

\* A node that keeps its type and the values of its marked fields.
LEMMA HeldStays ==
    ASSUME NEW n, n \in used' <=> n \in used,
           n \in used => /\ records'[n].type = records[n].type
                         /\ IndexedIn(schema', records[n].type) \cap DOMAIN records'[n].props
                                = IndexedIn(schema, records[n].type) \cap DOMAIN records[n].props
                         /\ \A f \in IndexedIn(schema, records[n].type) \cap DOMAIN records[n].props :
                                records'[n].props[f] = records[n].props[f]
    PROVE  Held(n)' = Held(n)
<1>1. \A x : x \in Held(n)' <=> x \in Held(n)
  BY HeldAs
<1> QED
  BY <1>1

\* The entries of a node in use, before and after a step.
LEMMA HeldOf ==
    /\ \A n \in used : Held(n) = Entries(records[n].type, n, records[n].props, IndexedIn(schema, records[n].type))
    /\ \A n \in used' : Held(n)' = Entries(records'[n].type, n, records'[n].props, IndexedIn(schema', records'[n].type))
<1>1. \A n \in used : \A x : x \in Held(n) <=> x \in Entries(records[n].type, n, records[n].props, IndexedIn(schema, records[n].type))
  BY HeldAs, EntriesAre
<1>2. \A n \in used' : \A x : x \in Held(n)' <=> x \in Entries(records'[n].type, n, records'[n].props, IndexedIn(schema', records'[n].type))
  BY HeldAs, EntriesAre
<1> QED
  BY <1>1, <1>2

\* insert_node
LEMMA InsertKeepsIndex ==
    ASSUME Labels, PropIndexExact, NEW n \in Nodes, NEW t \in NodeTypes, NEW p \in PropMaps, NEW labels \in SUBSET NodeTypes,
           InsertNode(n, t, p, labels)
    PROVE  PropIndexExact'
<1> DEFINE E == Entries(t, n, p, Indexed(t))
           g == [m \in {n} |-> {}]
           c == [m \in {n} |-> E]
<1>1. schema' = schema /\ propIndex' = propIndex \cup E
  BY DEF InsertNode
<1>2. /\ n \notin used /\ used' = used \cup {n} /\ records'[n].type = t /\ records'[n].props = p
      /\ \A m \in Nodes : m # n => records'[m] = records[m]
  BY InsertNodeStep
<1>3. Held(n) = {} /\ Held(n)' = E
  BY <1>1, <1>2, HeldOf, MarksIn DEF Held
<1>4. \A x \in E : x[4] = n
  BY EntriesAre
<1>5. \A m \in Nodes \ {n} : Held(m)' = Held(m)
  BY <1>1, <1>2, HeldStays
<1> HIDE DEF E
<1>6. propIndex' = (propIndex \ AllOf(g, {n})) \cup AllOf(c, {n})
  BY <1>1 DEF AllOf
<1>7. \A m \in {n} : Held(m)' = (Held(m) \ g[m]) \cup c[m] /\ \A x \in g[m] \cup c[m] : x[4] = m
  BY <1>3, <1>4
<1> HIDE DEF g, c
<1> QED
  BY <1>5, <1>6, <1>7, IndexMoves

\* delete_node
LEMMA DeleteKeepsIndex ==
    ASSUME FreshIds = TRUE, Labels, PropIndexExact, NEW n \in Nodes, DeleteNode(n)
    PROVE  PropIndexExact'
<1> DEFINE E == Entries(records[n].type, n, records[n].props, Indexed(records[n].type))
           g == [m \in {n} |-> E]
           c == [m \in {n} |-> {}]
<1>1. schema' = schema /\ propIndex' = propIndex \ E
  BY DEF DeleteNode
<1>2. /\ n \in used /\ \A m \in Nodes : m \in used' <=> m \in used /\ m # n
      /\ \A m \in Nodes : m # n => records'[m] = records[m]
  BY DeleteNodeStep
<1>3. Held(n) = E /\ Held(n)' = {}
  BY <1>1, <1>2, HeldOf, MarksIn DEF Held
<1>4. \A x \in E : x[4] = n
  BY EntriesAre
<1>5. \A m \in Nodes \ {n} : Held(m)' = Held(m)
  BY <1>1, <1>2, HeldStays
<1> HIDE DEF E
<1>6. propIndex' = (propIndex \ AllOf(g, {n})) \cup AllOf(c, {n})
  BY <1>1 DEF AllOf
<1>7. \A m \in {n} : Held(m)' = (Held(m) \ g[m]) \cup c[m] /\ \A x \in g[m] \cup c[m] : x[4] = m
  BY <1>3, <1>4
<1> HIDE DEF g, c
<1> QED
  BY <1>5, <1>6, <1>7, IndexMoves

\* update_node_properties
LEMMA UpdateKeepsIndex ==
    ASSUME Labels, PropIndexExact, NEW n \in Nodes, NEW p \in PropMaps, UpdateProperties(n, p)
    PROVE  PropIndexExact'
<1> DEFINE O == NodeEntries(n)
           E == Entries(records[n].type, n, p, Indexed(records[n].type))
           g == [m \in {n} |-> O]
           c == [m \in {n} |-> E]
<1>1. /\ n \in used /\ UNCHANGED <<schema, used>> /\ propIndex' = (propIndex \ O) \cup E
      /\ records'[n] = WithProps(records[n], p) /\ \A m \in Nodes : m # n => records'[m] = records[m]
  BY UpdateNodeStep
<1>2. IsNode(records[n])
  BY DEF Labels
<1>3. records'[n].type = records[n].type /\ records'[n].props = p
  BY <1>1, <1>2, NodeChanged
<1>4. Held(n) = O /\ Held(n)' = E
  BY <1>1, <1>3, HeldOf, MarksIn DEF Held
<1>5. \A x \in O \cup E : x[4] = n
  BY EntriesAre DEF NodeEntries
<1>6. \A m \in Nodes \ {n} : Held(m)' = Held(m)
  BY <1>1, HeldStays
<1> HIDE DEF O, E
<1>7. propIndex' = (propIndex \ AllOf(g, {n})) \cup AllOf(c, {n})
  BY <1>1 DEF AllOf
<1>8. \A m \in {n} : Held(m)' = (Held(m) \ g[m]) \cup c[m] /\ \A x \in g[m] \cup c[m] : x[4] = m
  BY <1>4, <1>5
<1> HIDE DEF g, c
<1> QED
  BY <1>6, <1>7, <1>8, IndexMoves

\* Calls on labels and on edges, and vacuum.
LEMMA OthersKeepIndex ==
    ASSUME FreshIds = TRUE, Labels, PropIndexExact,
           \/ \E n \in Nodes, labels \in SUBSET NodeTypes : SetNodeLabels(n, labels)
           \/ EdgeCalls
           \/ \E ids \in Renumberings : Vacuum(ids)
           \/ UNCHANGED vars
    PROVE  PropIndexExact'
<1>1. ASSUME UNCHANGED <<schema, propIndex>>,
             \A n \in Nodes : /\ n \in used' <=> n \in used
                              /\ records'[n].type = records[n].type /\ records'[n].props = records[n].props
      PROVE  PropIndexExact'
  <2>1. \A n \in Nodes : Held(n)' = Held(n)
    BY <1>1, HeldStays
  <2> QED
    BY <1>1, <2>1, IndexStays
<1>2. ASSUME NEW n \in Nodes, NEW labels \in SUBSET NodeTypes, SetNodeLabels(n, labels) PROVE PropIndexExact'
  BY <1>1, <1>2, NodeLabelsStep
<1>3. CASE EdgeCalls
  BY <1>1, <1>3, EdgeStep DEF NodesAsTheyAre
<1>4. ASSUME NEW ids \in Renumberings, Vacuum(ids) PROVE PropIndexExact'
  <2>1. propIndex' = UNION {NodeEntries(n)' : n \in Nodes \cap used'}
    BY <1>4, VacuumStep
  <2>2. UNION {Held(n)' : n \in Nodes} = UNION {NodeEntries(n)' : n \in Nodes \cap used'}
    BY DEF Held
  <2> QED
    BY <2>1, <2>2, IndexIsHeld
<1>5. CASE UNCHANGED vars
  BY <1>1, <1>5 DEF vars
<1> QED
  BY <1>2, <1>3, <1>4, <1>5

\* What apply_schema means for the marked values of a node.
LEMMA ApplyMarks ==
    ASSUME SettledMarks = TRUE, Labels, NEW new \in Schemas, ApplySchema(new), NEW n \in Nodes \cap used,
           NEW t, t = records[n].type
    PROVE  /\ \A f \in DOMAIN records'[n].props :
                  /\ f \in DOMAIN records[n].props /\ records'[n].props[f] = records[n].props[f]
                  /\ f \in IndexedIn(schema', t) <=> f \in IndexedIn(schema, t)
                  /\ f \in UniqueIn(schema', t) <=> f \in UniqueIn(schema, t)
           /\ \A f \in DOMAIN records[n].props \cap IndexedIn(schema, t) :
                  f \in DOMAIN records'[n].props <=> n \notin Purged(new) \/ f \in DOMAIN new[t]
<1>1. /\ schema' = new /\ Settled(new)
      /\ n \in Purged(new) => t \in Changing(new)
      /\ n \notin Purged(new) /\ t \in Changing(new) => DOMAIN records[n].props \subseteq Keep(new, t)
      /\ records'[n].props = IF n \in Purged(new)
             THEN Restrict(records[n].props, DOMAIN records[n].props \cap Keep(new, t)) ELSE records[n].props
  BY ApplySchemaStep
<1>2. t \in NodeTypes
  BY DEF Labels
<1>3. CASE t \notin DOMAIN schema
  <2>1. n \notin Purged(new)
    BY <1>1, <1>3 DEF Changing
  <2>2. IndexedIn(schema, t) = {} /\ UniqueIn(schema, t) = {}
    BY <1>3 DEF IndexedIn, UniqueIn, FieldsIn
  <2>3. \A f : t \in DOMAIN new /\ f \in DOMAIN new[t] => new[t][f].mark = "plain"
    BY <1>1, <1>3 DEF Settled
  <2>4. IndexedIn(schema', t) = {} /\ UniqueIn(schema', t) = {}
    BY <1>1, <2>3 DEF IndexedIn, UniqueIn, FieldsIn
  <2> QED
    BY <1>1, <2>1, <2>2, <2>4
<1>4. CASE t \in DOMAIN schema
  <2>1. t \in DOMAIN new
    BY <1>1, <1>4 DEF Settled
  <2>2. FieldsIn(schema, t) = DOMAIN schema[t] /\ FieldsIn(schema', t) = DOMAIN new[t] /\ Declared(t) = DOMAIN schema[t]
    BY <1>1, <1>4, <2>1 DEF FieldsIn, Declared
  <2>3. \A f \in DOMAIN schema[t] \cap DOMAIN new[t] : new[t][f].mark = schema[t][f].mark
    BY <1>1, <1>4, <2>1, <2>2 DEF Settled
  <2>4. \A f \in DOMAIN schema[t] \cap DOMAIN new[t] :
            /\ f \in IndexedIn(schema', t) <=> f \in IndexedIn(schema, t)
            /\ f \in UniqueIn(schema', t) <=> f \in UniqueIn(schema, t)
    BY <1>1, <2>2, <2>3 DEF IndexedIn, UniqueIn
  <2>5. /\ IndexedIn(schema, t) \subseteq DOMAIN schema[t] /\ UniqueIn(schema, t) \subseteq DOMAIN schema[t]
        /\ IndexedIn(schema', t) \subseteq DOMAIN new[t] /\ UniqueIn(schema', t) \subseteq DOMAIN new[t]
    BY <2>2 DEF IndexedIn, UniqueIn
  <2>6. Keep(new, t) = DOMAIN schema[t] \cap DOMAIN new[t]
    BY <2>2 DEF Keep
  <2>7. t \notin Changing(new) => DOMAIN new[t] = DOMAIN schema[t]
    BY <1>4, <2>1, <2>2 DEF Changing
  <2>8. CASE n \in Purged(new)
    <3>1. /\ DOMAIN records'[n].props = DOMAIN records[n].props \cap Keep(new, t)
          /\ \A f \in DOMAIN records[n].props \cap Keep(new, t) : records'[n].props[f] = records[n].props[f]
      BY <1>1, <2>8 DEF Restrict
    <3> QED
      BY <2>4, <2>5, <2>6, <2>8, <3>1
  <2>9. CASE n \notin Purged(new)
    <3>1. records'[n].props = records[n].props
      BY <1>1, <2>9
    <3>2. \A f \in DOMAIN records[n].props : f \in DOMAIN schema[t] <=> f \in DOMAIN new[t]
      BY <1>1, <2>6, <2>7, <2>9
    <3> QED
      BY <2>4, <2>5, <2>9, <3>1, <3>2
  <2> QED
    BY <2>8, <2>9
<1> QED
  BY <1>3, <1>4

\* apply_schema takes the entries of the dropped fields out.
LEMMA ApplyKeepsIndex ==
    ASSUME SettledMarks = TRUE, Labels, PropIndexExact, NEW new \in Schemas, ApplySchema(new)
    PROVE  PropIndexExact'
<1> DEFINE S == Purged(new) \cap Nodes
           E(n) == Entries(records[n].type, n, records[n].props, Indexed(records[n].type) \ DOMAIN new[records[n].type])
           g == [n \in S |-> E(n)]
           c == [n \in S |-> {}]
<1>1. /\ UNCHANGED used /\ propIndex' = propIndex \ UNION {E(n) : n \in S}
      /\ \A n \in Nodes : records'[n].type = records[n].type
      /\ \A n \in S : n \in used
  BY ApplySchemaStep
<1>2. \A n : \A x \in E(n) : x[4] = n
  BY EntriesAre
<1>3. ASSUME NEW n \in S PROVE Held(n)' = Held(n) \ E(n)
  <2> DEFINE t == records[n].type
  <2>1. n \in used /\ n \in Nodes /\ records'[n].type = t
    BY <1>1
  <2>2. \A x : x \in E(n) <=> \E f \in (IndexedIn(schema, t) \ DOMAIN new[t]) \cap DOMAIN records[n].props :
                                  records[n].props[f] # Null /\ x = <<t, f, records[n].props[f], n>>
    BY EntriesAre, MarksIn
  <2>3. \A f \in DOMAIN records'[n].props :
            /\ f \in DOMAIN records[n].props /\ records'[n].props[f] = records[n].props[f]
            /\ f \in IndexedIn(schema', t) <=> f \in IndexedIn(schema, t)
    BY <2>1, ApplyMarks
  <2>4. \A f \in DOMAIN records[n].props \cap IndexedIn(schema, t) : f \in DOMAIN records'[n].props <=> f \in DOMAIN new[t]
    BY <2>1, ApplyMarks
  <2>5. \A x : x \in Held(n) <=> \E f \in IndexedIn(schema, t) \cap DOMAIN records[n].props :
                                     records[n].props[f] # Null /\ x = <<t, f, records[n].props[f], n>>
    BY <2>1, HeldAs
  <2>6. \A x : x \in Held(n)' <=> \E f \in IndexedIn(schema', t) \cap DOMAIN records'[n].props :
                                     records'[n].props[f] # Null /\ x = <<t, f, records'[n].props[f], n>>
    BY <1>1, <2>1, HeldAs
  <2> HIDE DEF t, E
  <2>7. \A x : x \in Held(n)' <=> x \in Held(n) /\ x \notin E(n)
    BY <2>2, <2>3, <2>4, <2>5, <2>6
  <2> QED
    BY <2>7
<1>4. ASSUME NEW n \in Nodes \ S PROVE Held(n)' = Held(n)
  <2> DEFINE t == records[n].type
  <2>1. CASE n \notin used
    BY <1>1, <2>1 DEF Held
  <2>2. CASE n \in used
    <3>1. \A f \in DOMAIN records'[n].props :
              /\ f \in DOMAIN records[n].props /\ records'[n].props[f] = records[n].props[f]
              /\ f \in IndexedIn(schema', t) <=> f \in IndexedIn(schema, t)
      BY <2>2, ApplyMarks
    <3>2. \A f \in DOMAIN records[n].props \cap IndexedIn(schema, t) : f \in DOMAIN records'[n].props
      BY <2>2, ApplyMarks
    <3> QED
      BY <1>1, <2>2, <3>1, <3>2, HeldStays
  <2> QED
    BY <2>1, <2>2
<1> HIDE DEF S, E
<1>5. propIndex' = (propIndex \ AllOf(g, S)) \cup AllOf(c, S)
  <2>1. AllOf(g, S) = UNION {E(n) : n \in S}
    BY DEF AllOf
  <2>2. AllOf(c, S) = {}
    BY DEF AllOf
  <2> HIDE DEF g, c
  <2> QED
    BY <1>1, <2>1, <2>2
<1>6. \A n \in S : Held(n)' = (Held(n) \ g[n]) \cup c[n] /\ \A x \in g[n] \cup c[n] : x[4] = n
  BY <1>2, <1>3
<1> HIDE DEF g, c
<1>7. S \in SUBSET Nodes
  BY DEF S
<1>8. \A n \in S : Held(n)' = (Held(n) \ g[n]) \cup c[n]
  BY <1>6
<1>9. \A n \in S : \A x \in g[n] \cup c[n] : x[4] = n
  BY <1>6
<1>10. \A n \in Nodes \ S : Held(n)' = Held(n)
  BY <1>4
<1> QED
  BY ONLY PropIndexExact, <1>5, <1>7, <1>8, <1>9, <1>10, IndexMoves

\* The marks after a rename: g has the mark of f, and f none.
LEMMA RenamedMarks ==
    ASSUME NEW t \in DOMAIN schema, NEW f, NEW g, f \in Declared(t), g \notin Declared(t),
           schema' = [schema EXCEPT ![t] = RenamedDef(t, f, g)]
    PROVE  /\ \A u : u # t => /\ IndexedIn(schema', u) = IndexedIn(schema, u)
                              /\ UniqueIn(schema', u) = UniqueIn(schema, u)
           /\ \A h : /\ h \in IndexedIn(schema', t) <=> IF h = g THEN f \in IndexedIn(schema, t)
                                                        ELSE h # f /\ h \in IndexedIn(schema, t)
                     /\ h \in UniqueIn(schema', t) <=> IF h = g THEN f \in UniqueIn(schema, t)
                                                       ELSE h # f /\ h \in UniqueIn(schema, t)
           /\ g \notin IndexedIn(schema, t)
<1> DEFINE def == RenamedDef(t, f, g)
<1>1. /\ DOMAIN def = (DOMAIN schema[t] \ {f}) \cup {g}
      /\ \A h \in DOMAIN def : def[h] = schema[t][IF h = g THEN f ELSE h]
  BY DEF RenamedDef, Declared
<1> HIDE DEF def
<1>2. DOMAIN schema' = DOMAIN schema /\ \A u \in DOMAIN schema : schema'[u] = IF u = t THEN def ELSE schema[u]
  BY DEF def
<1>3. ASSUME NEW u, u # t PROVE FieldsIn(schema', u) = FieldsIn(schema, u) /\ (u \in DOMAIN schema => schema'[u] = schema[u])
  BY <1>2, <1>3 DEF FieldsIn
<1>4. \A u : u # t => IndexedIn(schema', u) = IndexedIn(schema, u)
  BY <1>3 DEF IndexedIn, FieldsIn
<1>5. \A u : u # t => UniqueIn(schema', u) = UniqueIn(schema, u)
  BY <1>3, <1>4 DEF UniqueIn, IndexedIn, FieldsIn
<1>6. /\ FieldsIn(schema, t) = DOMAIN schema[t] /\ FieldsIn(schema', t) = DOMAIN def /\ schema'[t] = def
      /\ f \in DOMAIN schema[t] /\ g \notin DOMAIN schema[t]
  BY <1>2 DEF FieldsIn, Declared
<1>7. \A h : h \in IndexedIn(schema', t) <=> IF h = g THEN f \in IndexedIn(schema, t)
                                             ELSE h # f /\ h \in IndexedIn(schema, t)
  BY <1>1, <1>6 DEF IndexedIn
<1>8. \A h : h \in UniqueIn(schema', t) <=> IF h = g THEN f \in UniqueIn(schema, t)
                                            ELSE h # f /\ h \in UniqueIn(schema, t)
  BY <1>1, <1>6, <1>7 DEF UniqueIn, IndexedIn
<1> QED
  BY <1>4, <1>5, <1>6, <1>7, <1>8 DEF IndexedIn

\* The properties after a rename, value by value.
LEMMA RenamedAre ==
    ASSUME NEW p, NEW f, NEW g, NEW r, r = RenamedProps(p, f, g)
    PROVE  /\ \A h : h \in DOMAIN r <=> (h \in DOMAIN p /\ h # f /\ h # g) \/ (h = g /\ f \in DOMAIN p)
           /\ \A h \in DOMAIN r : r[h] = p[IF h = g THEN f ELSE h]
  BY DEF RenamedProps

\* rename_node_field moves the entries of the field.
LEMMA RenameKeepsIndex ==
    ASSUME Labels, PropIndexExact, NEW t \in DOMAIN schema, NEW f \in Fields, NEW g \in Fields, RenameField(t, f, g)
    PROVE  PropIndexExact'
<1> DEFINE S == Moved(t, f, g)
           O(n) == Entries(t, n, records[n].props, {f})
           E(n) == Entries(t, n, RenamedProps(records[n].props, f, g), {g})
           out == RenamedOut(t, f, g)
           in  == RenamedIn(t, f, g)
           I == IndexedIn(schema, t)
           J == IndexedIn(schema', t)
<1>1. /\ UNCHANGED used /\ f \in Declared(t) /\ g \notin Declared(t)
      /\ schema' = [schema EXCEPT ![t] = RenamedDef(t, f, g)]
      /\ propIndex' = (propIndex \ AllOf(out, S)) \cup AllOf(in, S)
      /\ \A n \in Nodes : /\ records'[n].type = records[n].type
                          /\ n \in Touched(t, f, g) <=> n \in used /\ records[n].type = t /\ {f, g} \cap DOMAIN records[n].props # {}
                          /\ records'[n].props = IF n \in Touched(t, f, g) THEN RenamedProps(records[n].props, f, g)
                                                 ELSE records[n].props
  BY RenameStep
<1>2. \A n : \A x \in O(n) \cup E(n) : x[4] = n
  BY EntriesAre
<1>3. /\ \A u : u # t => IndexedIn(schema', u) = IndexedIn(schema, u)
      /\ \A h : h \in J <=> IF h = g THEN f \in I ELSE h # f /\ h \in I
      /\ g \notin I /\ f # g
  BY <1>1, RenamedMarks
<1> HIDE DEF I, J
<1>4. ASSUME NEW n \in S PROVE Held(n)' = (Held(n) \ O(n)) \cup E(n)
  <2> DEFINE p == records[n].props
             r == RenamedProps(p, f, g)
  <2>1. n \in used /\ n \in Nodes /\ records[n].type = t /\ records'[n].type = t /\ records'[n].props = r /\ f \in I /\ n \in used'
    BY <1>1, MarksIn DEF I, Moved
  <2>2. /\ \A h : h \in DOMAIN r <=> (h \in DOMAIN p /\ h # f /\ h # g) \/ (h = g /\ f \in DOMAIN p)
        /\ \A h \in DOMAIN r : r[h] = p[IF h = g THEN f ELSE h]
    BY RenamedAre
  <2>3. \A x : /\ x \in O(n) <=> f \in DOMAIN p /\ p[f] # Null /\ x = <<t, f, p[f], n>>
               /\ x \in E(n) <=> g \in DOMAIN r /\ r[g] # Null /\ x = <<t, g, r[g], n>>
    BY EntriesAre
  <2>4. \A x : x \in Held(n) <=> \E h \in I \cap DOMAIN p : p[h] # Null /\ x = <<t, h, p[h], n>>
    BY <2>1, HeldAs DEF I
  <2>5. \A x : x \in Held(n)' <=> \E h \in J \cap DOMAIN r : r[h] # Null /\ x = <<t, h, r[h], n>>
    BY <2>1, HeldAs DEF J
  <2> HIDE DEF p, r, O, E
  <2>6. \A x : x \in Held(n)' <=> (x \in Held(n) /\ x \notin O(n)) \/ x \in E(n)
    <3> TAKE x
    <3>1. ASSUME x \in Held(n)' PROVE (x \in Held(n) /\ x \notin O(n)) \/ x \in E(n)
      <4>1. PICK h \in J \cap DOMAIN r : r[h] # Null /\ x = <<t, h, r[h], n>>
        BY <2>5, <3>1
      <4>2. CASE h = g
        BY <2>3, <4>1, <4>2
      <4>3. CASE h # g
        <5>1. h \in I \cap DOMAIN p /\ h # f /\ r[h] = p[h]
          BY <1>3, <2>2, <4>1, <4>3
        <5> QED
          BY <2>3, <2>4, <4>1, <5>1
      <4> QED
        BY <4>2, <4>3
    <3>2. ASSUME x \in E(n) PROVE x \in Held(n)'
      BY <1>3, <2>1, <2>3, <2>5, <3>2
    <3>3. ASSUME x \in Held(n), x \notin O(n) PROVE x \in Held(n)'
      <4>1. PICK h \in I \cap DOMAIN p : p[h] # Null /\ x = <<t, h, p[h], n>>
        BY <2>4, <3>3
      <4>2. h # f /\ h # g
        BY <1>3, <2>3, <3>3, <4>1
      <4>3. h \in J \cap DOMAIN r /\ r[h] = p[h]
        BY <1>3, <2>2, <4>1, <4>2
      <4> QED
        BY <2>5, <4>1, <4>3
    <3> QED
      BY <3>1, <3>2, <3>3
  <2> QED
    BY <2>6
<1>5. ASSUME NEW n \in Nodes \ S PROVE Held(n)' = Held(n)
  <2>1. CASE n \notin used
    BY <1>1, <2>1 DEF Held
  <2>2. CASE n \in used /\ records[n].type # t
    <3>1. records'[n].props = records[n].props
      BY <1>1, <2>2
    <3> QED
      BY <1>1, <1>3, <2>2, <3>1, HeldStays
  <2>3. CASE n \in used /\ records[n].type = t /\ n \notin Touched(t, f, g)
    <3>1. records'[n].props = records[n].props /\ f \notin DOMAIN records[n].props /\ g \notin DOMAIN records[n].props
      BY <1>1, <2>3
    <3>2. J \cap DOMAIN records[n].props = I \cap DOMAIN records[n].props
      BY <1>3, <3>1
    <3> QED
      BY <1>1, <2>3, <3>1, <3>2, HeldStays DEF I, J
  <2>4. CASE n \in used /\ records[n].type = t /\ n \in Touched(t, f, g)
    <3> DEFINE p == records[n].props
               r == RenamedProps(p, f, g)
    <3>1. records'[n].props = r /\ f \notin I
      BY <1>1, <2>4, MarksIn DEF I, Moved
    <3>2. /\ \A h : h \in DOMAIN r <=> (h \in DOMAIN p /\ h # f /\ h # g) \/ (h = g /\ f \in DOMAIN p)
          /\ \A h \in DOMAIN r : r[h] = p[IF h = g THEN f ELSE h]
      BY RenamedAre
    <3> HIDE DEF p, r
    <3>3. J \cap DOMAIN r = I \cap DOMAIN p /\ \A h \in I \cap DOMAIN p : r[h] = p[h]
      BY <1>3, <3>1, <3>2
    <3> QED
      BY <1>1, <2>4, <3>1, <3>3, HeldStays DEF I, J, p
  <2> QED
    BY <2>1, <2>2, <2>3, <2>4
<1>6. \A n \in S : out[n] = O(n) /\ in[n] = E(n)
  BY DEF RenamedOut, RenamedIn
<1> HIDE DEF S, O, E, out, in
<1>7. \A n \in S : Held(n)' = (Held(n) \ out[n]) \cup in[n]
  BY <1>4, <1>6
<1>8. \A n \in S : \A x \in out[n] \cup in[n] : x[4] = n
  BY <1>2, <1>6
<1>9. S \in SUBSET Nodes
  BY DEF S, Moved
<1>10. \A n \in Nodes \ S : Held(n)' = Held(n)
  BY <1>5
<1> QED
  BY ONLY PropIndexExact, <1>1, <1>7, <1>8, <1>9, <1>10, IndexMoves

\* A change of type leaves the marks alone.
LEMMA ChangedMarks ==
    ASSUME SchemaTyped, NEW t \in DOMAIN schema, NEW f \in Declared(t), NEW to, schema' = [schema EXCEPT ![t][f].type = to]
    PROVE  \A u : IndexedIn(schema', u) = IndexedIn(schema, u) /\ UniqueIn(schema', u) = UniqueIn(schema, u)
<1> DEFINE def == [schema[t] EXCEPT ![f].type = to]
           one == [schema[t][f] EXCEPT !.type = to]
<1>1. Declared(t) = DOMAIN schema[t] /\ schema[t] \in [Declared(t) -> FieldDefs]
  BY Declares
<1>2. one.mark = schema[t][f].mark
  BY <1>1 DEF FieldDefs
<1>3. def = [schema[t] EXCEPT ![f] = one]
  BY Zenon
<1>4. schema' = [schema EXCEPT ![t] = def]
  BY Zenon
<1> HIDE DEF one
<1>5. DOMAIN def = DOMAIN schema[t] /\ \A h \in DOMAIN schema[t] : def[h].mark = schema[t][h].mark
  BY <1>1, <1>2, <1>3
<1> HIDE DEF def
<1>6. DOMAIN schema' = DOMAIN schema /\ \A u \in DOMAIN schema : schema'[u] = IF u = t THEN def ELSE schema[u]
  BY <1>4
<1>7. \A u \in DOMAIN schema : /\ DOMAIN schema'[u] = DOMAIN schema[u]
                               /\ \A h \in DOMAIN schema[u] : schema'[u][h].mark = schema[u][h].mark
  BY <1>5, <1>6
<1>8. \A u : FieldsIn(schema', u) = FieldsIn(schema, u)
  BY <1>6, <1>7 DEF FieldsIn
<1>9. \A u, h : h \in FieldsIn(schema, u) => schema'[u][h].mark = schema[u][h].mark
  BY <1>7 DEF FieldsIn
<1>10. \A u, h : h \in IndexedIn(schema', u) <=> h \in IndexedIn(schema, u)
  <2>1. ASSUME NEW u, NEW h PROVE h \in IndexedIn(schema', u) <=> h \in IndexedIn(schema, u)
    <3>1. h \in IndexedIn(schema', u) <=>
              h \in FieldsIn(schema', u) /\ u \in NodeTypes /\ schema'[u][h].mark # "plain"
      BY Zenon DEF IndexedIn
    <3>2. h \in IndexedIn(schema, u) <=>
              h \in FieldsIn(schema, u) /\ u \in NodeTypes /\ schema[u][h].mark # "plain"
      BY Zenon DEF IndexedIn
    <3> QED
      BY ONLY <1>8, <1>9, <3>1, <3>2
  <2> QED
    BY ONLY <2>1
<1>11. \A u, h : h \in UniqueIn(schema', u) <=> h \in UniqueIn(schema, u)
  <2>1. ASSUME NEW u, NEW h PROVE h \in UniqueIn(schema', u) <=> h \in UniqueIn(schema, u)
    <3>1. h \in UniqueIn(schema', u) <=> h \in IndexedIn(schema', u) /\ schema'[u][h].mark = "unique"
      BY Zenon DEF UniqueIn
    <3>2. h \in UniqueIn(schema, u) <=> h \in IndexedIn(schema, u) /\ schema[u][h].mark = "unique"
      BY Zenon DEF UniqueIn
    <3>3. h \in IndexedIn(schema, u) => h \in FieldsIn(schema, u)
      BY Zenon DEF IndexedIn
    <3> QED
      BY ONLY <1>9, <1>10, <3>1, <3>2, <3>3
  <2> QED
    BY ONLY <2>1
<1> HIDE DEF def
<1>12. \A u : IndexedIn(schema', u) = IndexedIn(schema, u)
  BY <1>10, SetExtensionality, Zenon
<1>13. \A u : UniqueIn(schema', u) = UniqueIn(schema, u)
  BY <1>11, SetExtensionality, Zenon
<1> QED
  BY <1>12, <1>13

\* The properties after a change of type, value by value.
LEMMA AsAre ==
    ASSUME NEW t, NEW f, NEW to, NEW r \in StoredIn(t, f)
    PROVE  /\ DOMAIN PropsAs(r, f, to) = DOMAIN records[r].props
           /\ PropsAs(r, f, to)[f] = ValueAs(records[r].props[f], to)
           /\ \A h \in DOMAIN records[r].props : h # f => PropsAs(r, f, to)[h] = records[r].props[h]
  BY DEF PropsAs, StoredIn

\* change_node_field_type replaces the entries of the values that change.
LEMMA ChangeTypeKeepsIndex ==
    ASSUME Labels, PropIndexExact, NEW t \in DOMAIN schema, NEW f \in Fields, NEW to \in {"String", "Int"}, NEW reject,
           ChangeFieldType(t, f, to, reject)
    PROVE  PropIndexExact'
<1> DEFINE S == Converting(t, f, to)
           O(n) == Entries(t, n, records[n].props, {f})
           E(n) == Entries(t, n, PropsAs(n, f, to), {f})
           out == ConvertedOut(t, f, to)
           in  == ConvertedIn(t, f, to)
           I == IndexedIn(schema, t)
<1>1. /\ UNCHANGED used /\ f \in Declared(t)
      /\ schema' = [schema EXCEPT ![t][f].type = to]
      /\ propIndex' = (propIndex \ AllOf(out, S)) \cup AllOf(in, S)
      /\ \A n \in Nodes : /\ records'[n].type = records[n].type
                          /\ n \in StoredIn(t, f) <=> /\ n \in used /\ records[n].type = t
                                                      /\ f \in DOMAIN records[n].props /\ records[n].props[f] # Null
                          /\ records'[n].props = IF n \in Replaced(t, f, to) THEN PropsAs(n, f, to)
                                                 ELSE records[n].props
  BY ChangeTypeStep
<1>2. \A n : \A x \in O(n) \cup E(n) : x[4] = n
  BY EntriesAre
<1>3. \A u : IndexedIn(schema', u) = IndexedIn(schema, u)
  BY <1>1, ChangedMarks DEF Labels
<1> HIDE DEF I
<1>4. ASSUME NEW n \in S PROVE Held(n)' = (Held(n) \ O(n)) \cup E(n)
  <2> DEFINE p == records[n].props
             r == PropsAs(n, f, to)
  <2>1. n \in Nodes /\ n \in StoredIn(t, f) /\ n \in Replaced(t, f, to) /\ f \in I
    BY MarksIn DEF I, Converting, Replaced
  <2>2. /\ n \in used /\ n \in used' /\ records[n].type = t /\ records'[n].type = t /\ records'[n].props = r
        /\ f \in DOMAIN p /\ p[f] # Null
    BY <1>1, <2>1
  <2>3. DOMAIN r = DOMAIN p /\ \A h \in DOMAIN p : h # f => r[h] = p[h]
    BY <2>1, AsAre
  <2>4. \A x : /\ x \in O(n) <=> f \in DOMAIN p /\ p[f] # Null /\ x = <<t, f, p[f], n>>
               /\ x \in E(n) <=> f \in DOMAIN r /\ r[f] # Null /\ x = <<t, f, r[f], n>>
    BY EntriesAre
  <2>5. \A x : x \in Held(n) <=> \E h \in I \cap DOMAIN p : p[h] # Null /\ x = <<t, h, p[h], n>>
    BY <2>2, HeldAs DEF I
  <2>6. \A x : x \in Held(n)' <=> \E h \in I \cap DOMAIN r : r[h] # Null /\ x = <<t, h, r[h], n>>
    BY <1>3, <2>2, HeldAs DEF I
  <2> HIDE DEF p, r, O, E
  <2>7. \A x : x \in Held(n)' <=> (x \in Held(n) /\ x \notin O(n)) \/ x \in E(n)
    <3> TAKE x
    <3>1. ASSUME x \in Held(n)' PROVE (x \in Held(n) /\ x \notin O(n)) \/ x \in E(n)
      <4>1. PICK h \in I \cap DOMAIN r : r[h] # Null /\ x = <<t, h, r[h], n>>
        BY <2>6, <3>1
      <4>2. CASE h = f
        BY <2>4, <4>1, <4>2
      <4>3. CASE h # f
        BY <2>3, <2>4, <2>5, <4>1, <4>3
      <4> QED
        BY <4>2, <4>3
    <3>2. ASSUME x \in E(n) PROVE x \in Held(n)'
      BY <2>1, <2>4, <2>6, <3>2
    <3>3. ASSUME x \in Held(n), x \notin O(n) PROVE x \in Held(n)'
      <4>1. PICK h \in I \cap DOMAIN p : p[h] # Null /\ x = <<t, h, p[h], n>>
        BY <2>5, <3>3
      <4>2. h # f
        BY <2>4, <3>3, <4>1
      <4> QED
        BY <2>3, <2>6, <4>1, <4>2
    <3> QED
      BY <3>1, <3>2, <3>3
  <2> QED
    BY <2>7
<1>5. ASSUME NEW n \in Nodes \ S PROVE Held(n)' = Held(n)
  <2>1. CASE n \notin used
    BY <1>1, <2>1 DEF Held
  <2>2. CASE n \in used /\ n \notin Replaced(t, f, to)
    <3>1. records'[n].props = records[n].props
      BY <1>1, <2>2
    <3> QED
      BY <1>1, <1>3, <2>2, <3>1, HeldStays
  <2>3. CASE n \in Replaced(t, f, to)
    <3> DEFINE p == records[n].props
               r == PropsAs(n, f, to)
    <3>1. n \in StoredIn(t, f) /\ f \notin I
      BY <2>3, MarksIn DEF I, Converting, Replaced
    <3>2. records'[n].props = r /\ records[n].type = t /\ n \in used
      BY <1>1, <2>3, <3>1
    <3>3. DOMAIN r = DOMAIN p /\ \A h \in DOMAIN p : h # f => r[h] = p[h]
      BY <3>1, AsAre
    <3> HIDE DEF p, r
    <3>4. I \cap DOMAIN r = I \cap DOMAIN p /\ \A h \in I \cap DOMAIN p : r[h] = p[h]
      BY <3>1, <3>3
    <3> QED
      BY <1>1, <1>3, <3>2, <3>4, HeldStays DEF I, p
  <2> QED
    BY <2>1, <2>2, <2>3
<1>6. \A n \in S : out[n] = O(n) /\ in[n] = E(n)
  BY DEF ConvertedOut, ConvertedIn
<1> HIDE DEF S, O, E, out, in
<1>7. \A n \in S : Held(n)' = (Held(n) \ out[n]) \cup in[n]
  BY <1>4, <1>6
<1>8. \A n \in S : \A x \in out[n] \cup in[n] : x[4] = n
  BY <1>2, <1>6
<1>9. S \in SUBSET Nodes
  BY DEF S, Converting
<1>10. \A n \in Nodes \ S : Held(n)' = Held(n)
  BY <1>5
<1> QED
  BY ONLY PropIndexExact, <1>1, <1>7, <1>8, <1>9, <1>10, IndexMoves

\* Every step keeps the property index.
LEMMA IndexNext ==
    ASSUME FreshIds = TRUE, SettledMarks = TRUE, Labels, PropIndexExact, [Next]_vars
    PROVE  PropIndexExact'
<1>1. CASE NodeCalls
  BY <1>1, NodeCases, InsertKeepsIndex, DeleteKeepsIndex, UpdateKeepsIndex, OthersKeepIndex
<1>2. CASE EdgeCalls \/ (\E ids \in Renumberings : Vacuum(ids)) \/ UNCHANGED vars
  BY <1>2, OthersKeepIndex
<1>3. CASE SchemaCalls
  BY <1>3, ApplyKeepsIndex, RenameKeepsIndex, ChangeTypeKeepsIndex DEF SchemaCalls
<1> QED
  BY <1>1, <1>2, <1>3 DEF Next

\* The property index has, after every call, exactly the entries of the nodes in use under
\* the marks of the schema, for any nodes, fields, values and schemas: find_node, which reads
\* it, finds what a scan would find.  Left out are schemas that mark a field which has
\* values, as apply_schema does not index those.
THEOREM PropIndexAgrees == ASSUME FreshIds = TRUE, SettledMarks = TRUE PROVE Spec => []PropIndexExact
<1>1. Init => Labels /\ PropIndexExact
  <2>1. Init => PropIndexExact
    BY DEF Init, PropIndexExact
  <2> QED
    BY <2>1, LabelsInit
<1>2. Labels /\ PropIndexExact /\ [Next]_vars => (Labels /\ PropIndexExact)'
  BY LabelsNext, IndexNext
<1> QED
  BY <1>1, <1>2, PTL DEF Spec

-----------------------------------------------------------------------------
\* Unique fields.

\* Two nodes of a type hold different values of each unique field that both have.
Differ(n, o) ==
    records[n].type = records[o].type =>
        \A f \in UniqueIn(schema, records[n].type) \cap DOMAIN records[n].props \cap DOMAIN records[o].props :
            records[n].props[f] # Null => records[n].props[f] # records[o].props[f]

Apart == \A n, o \in Nodes \cap used : n # o => Differ(n, o)

\* Nodes that differ are what UniqueHolds asks for.
LEMMA ApartIsUnique == Apart => UniqueHolds
<1> SUFFICES ASSUME Apart, NEW t \in NodeTypes, NEW f \in Unique(t), NEW v \in Strings \cup Numbers,
                    NEW n \in Scanned(t, f, v), NEW o \in Scanned(t, f, v), n # o
             PROVE  FALSE
  BY DEF UniqueHolds
<1>1. v # Null
  BY GraphAssumption
<1>2. /\ n \in Nodes \cap used /\ o \in Nodes \cap used /\ records[n].type = t /\ records[o].type = t
      /\ f \in DOMAIN records[n].props /\ records[n].props[f] = v
      /\ f \in DOMAIN records[o].props /\ records[o].props[f] = v
  BY DEF Scanned, Holds
<1>3. f \in UniqueIn(schema, t)
  BY MarksIn
<1> QED
  BY <1>1, <1>2, <1>3 DEF Apart, Differ

\* check_unique passes: no other node holds a value of a unique field.
LEMMA NotTaken ==
    ASSUME PropIndexExact, NEW t, NEW p, NEW ex, ~Taken(t, p, ex), NEW o \in (Nodes \cap used) \ ex, records[o].type = t,
           NEW f \in UniqueIn(schema, t) \cap DOMAIN p \cap DOMAIN records[o].props, p[f] # Null
    PROVE  p[f] # records[o].props[f]
<1> SUFFICES ASSUME p[f] = records[o].props[f] PROVE FALSE
  OBVIOUS
<1>1. f \in Unique(t) /\ f \in Indexed(t) /\ f \in IndexedIn(schema, t)
  BY MarksIn DEF UniqueIn
<1>2. <<t, f, p[f], o>> \in Held(o)
  BY <1>1, HeldAs
<1>3. <<t, f, p[f], o>> \in propIndex
  BY <1>2, IndexIsHeld
<1>4. o \in FindAll(t, f, p[f])
  BY <1>1, <1>3 DEF FindAll, Holds
<1> QED
  BY <1>1, <1>4 DEF Taken

\* A call whose nodes keep the values of their unique fields, or lose some; src[n] is what n was.
LEMMA CarriedApart ==
    ASSUME Apart, NEW src,
           \A n \in Nodes \cap used' :
               /\ src[n] \in Nodes \cap used /\ records'[n].type = records[src[n]].type
               /\ \A f \in UniqueIn(schema', records'[n].type) \cap DOMAIN records'[n].props :
                      /\ f \in UniqueIn(schema, records'[n].type) \cap DOMAIN records[src[n]].props
                      /\ records'[n].props[f] = records[src[n]].props[f],
           \A n, o \in Nodes \cap used' : src[n] = src[o] => n = o
    PROVE  Apart'
<1> SUFFICES ASSUME NEW n \in Nodes \cap used', NEW o \in Nodes \cap used', n # o PROVE Differ(n, o)'
  BY DEF Apart
<1>1. Differ(src[n], src[o])
  BY DEF Apart
<1> QED
  BY <1>1 DEF Differ

\* One node gets properties that no other node of its type holds.
LEMMA OneApart ==
    ASSUME Apart, PropIndexExact, schema' = schema, NEW n \in Nodes, NEW t, NEW p, ~Taken(t, p, {n}),
           records'[n].type = t, records'[n].props = p,
           \A m \in Nodes : m # n => records'[m] = records[m] /\ (m \in used' => m \in used)
    PROVE  Apart'
<1>1. ASSUME NEW o \in Nodes \cap used, o # n, records[o].type = t,
             NEW f \in UniqueIn(schema, t) \cap DOMAIN p \cap DOMAIN records[o].props, p[f] # Null
      PROVE  p[f] # records[o].props[f]
  BY <1>1, NotTaken
<1> SUFFICES ASSUME NEW m \in Nodes \cap used', NEW o \in Nodes \cap used', m # o PROVE Differ(m, o)'
  BY DEF Apart
<1>2. CASE m # n /\ o # n
  <2>1. Differ(m, o)
    BY <1>2 DEF Apart
  <2> QED
    BY <1>2, <2>1 DEF Differ
<1>3. CASE m = n
  <2>1. o \in Nodes \cap used /\ o # n /\ records'[o] = records[o]
    BY <1>3
  <2> QED
    BY <1>1, <1>3, <2>1 DEF Differ
<1>4. CASE o = n
  <2>1. m \in Nodes \cap used /\ m # n /\ records'[m] = records[m]
    BY <1>4
  <2> QED
    BY <1>1, <1>4, <2>1 DEF Differ
<1> QED
  BY <1>2, <1>3, <1>4

\* Calls on nodes.
LEMMA NodeCallsApart ==
    ASSUME FreshIds = TRUE, Labels, PropIndexExact, Apart, NodeCalls
    PROVE  Apart'
<1>1. ASSUME NEW n \in Nodes, NEW t \in NodeTypes, NEW p \in PropMaps, NEW labels \in SUBSET NodeTypes,
             InsertNode(n, t, p, labels)
      PROVE  Apart'
  <2>1. schema' = schema /\ ~Taken(t, p, {})
    BY <1>1 DEF InsertNode
  <2>2. ~Taken(t, p, {n})
    BY <2>1 DEF Taken
  <2>3. /\ used' = used \cup {n} /\ records'[n].type = t /\ records'[n].props = p
        /\ \A m \in Nodes : m # n => records'[m] = records[m]
    BY <1>1, InsertNodeStep
  <2> QED
    BY <2>1, <2>2, <2>3, OneApart
<1>2. ASSUME NEW n \in Nodes, NEW p \in PropMaps, UpdateProperties(n, p) PROVE Apart'
  <2>1. /\ UNCHANGED <<schema, used>> /\ ~Taken(records[n].type, p, {n}) /\ records'[n] = WithProps(records[n], p)
        /\ \A m \in Nodes : m # n => records'[m] = records[m]
    BY <1>2, UpdateNodeStep
  <2>2. IsNode(records[n])
    BY DEF Labels
  <2>3. records'[n].type = records[n].type /\ records'[n].props = p
    BY <2>1, <2>2, NodeChanged
  <2> QED
    BY <2>1, <2>3, OneApart
<1> DEFINE src == [m \in Nodes |-> m]
<1>3. ASSUME NEW n \in Nodes, DeleteNode(n) PROVE Apart'
  <2>1. schema' = schema
    BY <1>3 DEF DeleteNode
  <2>2. /\ \A m \in Nodes : m \in used' <=> m \in used /\ m # n
        /\ \A m \in Nodes : m # n => records'[m] = records[m]
    BY <1>3, DeleteNodeStep
  <2>3. \A m \in Nodes \cap used' : src[m] = m /\ m \in used /\ records'[m] = records[m]
    BY <2>2
  <2> HIDE DEF src
  <2> QED
    BY <2>1, <2>3, CarriedApart
<1>4. ASSUME NEW n \in Nodes, NEW labels \in SUBSET NodeTypes, SetNodeLabels(n, labels) PROVE Apart'
  <2>1. /\ \A m \in Nodes : records'[m].type = records[m].type /\ records'[m].props = records[m].props
        /\ UNCHANGED <<used, schema>>
    BY <1>4, NodeLabelsStep
  <2>2. \A m \in Nodes : src[m] = m
    OBVIOUS
  <2> HIDE DEF src
  <2> QED
    BY <2>1, <2>2, CarriedApart
<1> QED
  BY <1>1, <1>2, <1>3, <1>4, NodeCases

\* Calls on edges, vacuum, and steps that change nothing.
LEMMA OthersApart ==
    ASSUME FreshIds = TRUE, Labels, Apart, EdgeCalls \/ (\E ids \in Renumberings : Vacuum(ids)) \/ UNCHANGED vars
    PROVE  Apart'
<1> DEFINE same == [m \in Nodes |-> m]
<1>1. \A m \in Nodes : same[m] = m
  OBVIOUS
<1> HIDE DEF same
<1>2. CASE EdgeCalls \/ UNCHANGED vars
  <2>1. schema' = schema /\ \A m \in Nodes : (m \in used' <=> m \in used) /\ records'[m] = records[m]
    BY <1>2, EdgeStep DEF NodesAsTheyAre, vars
  <2> QED
    BY <1>1, <2>1, CarriedApart
<1>3. ASSUME NEW ids \in Renumberings, Vacuum(ids) PROVE Apart'
  <2>1. /\ schema' = schema
        /\ \A m \in Nodes \cap used' :
               /\ Source(ids, m) \in Nodes \cap used /\ ids[Source(ids, m)] = m
               /\ records'[m].type = records[Source(ids, m)].type
               /\ records'[m].props = Visible(Source(ids, m))
    BY <1>3, VacuumStep
  <2> DEFINE src == [m \in Nodes |-> Source(ids, m)]
  <2>2. \A m \in Nodes : src[m] = Source(ids, m)
    OBVIOUS
  <2> HIDE DEF src
  <2>3. \A m \in Nodes : records[m].props \in PropMaps
    BY DEF Labels, IsNode
  <2>4. \A m \in Nodes : /\ DOMAIN Visible(m) \subseteq DOMAIN records[m].props
                         /\ \A f \in DOMAIN Visible(m) : Visible(m)[f] = records[m].props[f]
    BY <2>3, VisibleProps
  <2>5. \A m \in Nodes \cap used' :
            /\ src[m] \in Nodes \cap used /\ ids[src[m]] = m /\ records'[m].type = records[src[m]].type
            /\ DOMAIN records'[m].props \subseteq DOMAIN records[src[m]].props
            /\ \A f \in DOMAIN records'[m].props : records'[m].props[f] = records[src[m]].props[f]
    BY <2>1, <2>2, <2>4
  <2>6. \A m, o \in Nodes \cap used' : src[m] = src[o] => m = o
    BY <2>5
  <2>7. \A m \in Nodes \cap used' :
            /\ src[m] \in Nodes \cap used /\ records'[m].type = records[src[m]].type
            /\ \A f \in UniqueIn(schema', records'[m].type) \cap DOMAIN records'[m].props :
                   /\ f \in UniqueIn(schema, records'[m].type) \cap DOMAIN records[src[m]].props
                   /\ records'[m].props[f] = records[src[m]].props[f]
    BY <2>1, <2>5
  <2> QED
    BY <2>6, <2>7, CarriedApart
<1> QED
  BY <1>2, <1>3

\* apply_schema
LEMMA ApplyApart ==
    ASSUME SettledMarks = TRUE, Labels, Apart, NEW new \in Schemas, ApplySchema(new)
    PROVE  Apart'
<1> DEFINE same == [m \in Nodes |-> m]
<1>1. \A m \in Nodes : same[m] = m
  OBVIOUS
<1> HIDE DEF same
<1>2. used' = used /\ \A m \in Nodes : records'[m].type = records[m].type
  BY ApplySchemaStep
<1>3. ASSUME NEW m \in Nodes \cap used,
             NEW f \in UniqueIn(schema', records[m].type) \cap DOMAIN records'[m].props
      PROVE  /\ f \in UniqueIn(schema, records[m].type) \cap DOMAIN records[m].props
             /\ records'[m].props[f] = records[m].props[f]
  BY ApplyMarks
<1>4. \A m \in Nodes \cap used' :
          /\ same[m] \in Nodes \cap used /\ records'[m].type = records[same[m]].type
          /\ \A f \in UniqueIn(schema', records'[m].type) \cap DOMAIN records'[m].props :
                 /\ f \in UniqueIn(schema, records'[m].type) \cap DOMAIN records[same[m]].props
                 /\ records'[m].props[f] = records[same[m]].props[f]
  BY <1>1, <1>2, <1>3
<1> QED
  BY <1>1, <1>4, CarriedApart

\* rename_node_field
LEMMA RenameApart ==
    ASSUME Labels, Apart, NEW t \in DOMAIN schema, NEW f \in Fields, NEW g \in Fields, RenameField(t, f, g)
    PROVE  Apart'
<1>1. /\ UNCHANGED used /\ f \in Declared(t) /\ g \notin Declared(t)
      /\ schema' = [schema EXCEPT ![t] = RenamedDef(t, f, g)]
      /\ \A n \in Nodes : /\ records'[n].type = records[n].type
                          /\ n \in Touched(t, f, g) <=> n \in used /\ records[n].type = t /\ {f, g} \cap DOMAIN records[n].props # {}
                          /\ records'[n].props = IF n \in Touched(t, f, g) THEN RenamedProps(records[n].props, f, g)
                                                 ELSE records[n].props
  BY RenameStep
<1>2. /\ \A u : u # t => UniqueIn(schema', u) = UniqueIn(schema, u)
      /\ \A h : h \in UniqueIn(schema', t) <=> IF h = g THEN f \in UniqueIn(schema, t)
                                               ELSE h # f /\ h \in UniqueIn(schema, t)
  BY <1>1, RenamedMarks
<1> DEFINE was(h) == IF h = g THEN f ELSE h
<1>3. ASSUME NEW n \in Nodes \cap used, records[n].type = t,
             NEW h \in UniqueIn(schema', t) \cap DOMAIN records'[n].props
      PROVE  /\ was(h) \in UniqueIn(schema, t) \cap DOMAIN records[n].props
             /\ records'[n].props[h] = records[n].props[was(h)]
  <2>1. CASE n \in Touched(t, f, g)
    <3> DEFINE p == records[n].props
               r == RenamedProps(p, f, g)
    <3>1. /\ \A k : k \in DOMAIN r <=> (k \in DOMAIN p /\ k # f /\ k # g) \/ (k = g /\ f \in DOMAIN p)
          /\ \A k \in DOMAIN r : r[k] = p[IF k = g THEN f ELSE k]
      BY RenamedAre
    <3>2. records'[n].props = r
      BY <1>1, <2>1
    <3> HIDE DEF r
    <3> QED
      BY <1>2, <3>1, <3>2
  <2>2. CASE n \notin Touched(t, f, g)
    <3>1. records'[n].props = records[n].props /\ f \notin DOMAIN records[n].props /\ g \notin DOMAIN records[n].props
      BY <1>1, <1>3, <2>2
    <3> QED
      BY <1>2, <3>1
  <2> QED
    BY <2>1, <2>2
<1> HIDE DEF was
<1> SUFFICES ASSUME NEW n \in Nodes \cap used, NEW o \in Nodes \cap used, n # o,
                    records[n].type = records[o].type,
                    NEW h \in UniqueIn(schema', records[n].type) \cap DOMAIN records'[n].props \cap DOMAIN records'[o].props,
                    records'[n].props[h] # Null
             PROVE  records'[n].props[h] # records'[o].props[h]
  BY <1>1 DEF Apart, Differ
<1>4. Differ(n, o)
  BY DEF Apart
<1>5. CASE records[n].type = t
  <2>1. /\ was(h) \in UniqueIn(schema, t) \cap DOMAIN records[n].props \cap DOMAIN records[o].props
        /\ records'[n].props[h] = records[n].props[was(h)] /\ records'[o].props[h] = records[o].props[was(h)]
    BY <1>3, <1>5
  <2> QED
    BY <1>4, <1>5, <2>1 DEF Differ
<1>6. CASE records[n].type # t
  <2>1. records'[n].props = records[n].props /\ records'[o].props = records[o].props
    BY <1>1, <1>6
  <2> QED
    BY <1>2, <1>4, <1>6, <2>1 DEF Differ
<1> QED
  BY <1>5, <1>6

\* change_node_field_type
LEMMA ChangeTypeApart ==
    ASSUME Labels, PropIndexExact, Apart, NEW t \in DOMAIN schema, NEW f \in Fields, NEW to \in {"String", "Int"}, NEW reject,
           ChangeFieldType(t, f, to, reject)
    PROVE  Apart'
<1> DEFINE p(n) == records[n].props
           v(n) == ValueAs(records[n].props[f], to)
<1>1. /\ UNCHANGED used /\ f \in Declared(t) /\ schema' = [schema EXCEPT ![t][f].type = to]
      /\ f \in Unique(t) => ~ClashAs(t, f, to)
      /\ \A n \in Nodes : /\ records'[n].type = records[n].type
                          /\ n \in StoredIn(t, f) <=> /\ n \in used /\ records[n].type = t
                                                      /\ f \in DOMAIN records[n].props /\ records[n].props[f] # Null
                          /\ records'[n].props = IF n \in Replaced(t, f, to) THEN PropsAs(n, f, to)
                                                 ELSE records[n].props
  BY ChangeTypeStep
<1>2. \A u : UniqueIn(schema', u) = UniqueIn(schema, u)
  BY <1>1, ChangedMarks DEF Labels
<1>3. ASSUME NEW n \in Nodes
      PROVE  /\ DOMAIN records'[n].props = DOMAIN p(n)
             /\ \A h \in DOMAIN p(n) : h # f \/ n \notin Replaced(t, f, to) => records'[n].props[h] = p(n)[h]
             /\ n \in Replaced(t, f, to) => /\ n \in StoredIn(t, f) /\ records'[n].props[f] = v(n)
             /\ n \in StoredIn(t, f) /\ n \notin Replaced(t, f, to) => v(n) = p(n)[f]
  <2>1. n \in Replaced(t, f, to) <=> n \in StoredIn(t, f) /\ v(n) # p(n)[f]
    BY DEF Replaced
  <2>2. CASE n \in Replaced(t, f, to)
    BY <1>1, <2>1, <2>2, AsAre
  <2>3. CASE n \notin Replaced(t, f, to)
    BY <1>1, <2>1, <2>3
  <2> QED
    BY <2>2, <2>3
\* A value that changes differs from what every other node comes to.
<1>4. ASSUME f \in UniqueIn(schema, t), NEW r \in Replaced(t, f, to), r \in Nodes, v(r) # Null,
             NEW o \in Nodes \cap used, o # r, records[o].type = t, f \in DOMAIN p(o)
      PROVE  v(r) # records'[o].props[f]
  <2>1. ~ClashAs(t, f, to) /\ f \in IndexedIn(schema, t)
    BY <1>1, <1>4, MarksIn DEF UniqueIn
  <2>2. ASSUME o \in StoredIn(t, f), v(o) = v(r),
               o \in Replaced(t, f, to) \/ <<t, f, v(r), o>> \in propIndex
        PROVE  FALSE
    <3>1. o \in StoredIn(t, f) \ {r}
      BY <1>4, <2>2
    <3> QED
      BY <1>4, <2>1, <2>2, <3>1 DEF ClashAs
  <2>3. CASE o \in Replaced(t, f, to)
    <3>1. o \in StoredIn(t, f) /\ records'[o].props[f] = v(o)
      BY <1>3, <2>3
    <3> QED
      BY <2>2, <2>3, <3>1
  <2>4. CASE o \notin Replaced(t, f, to) /\ p(o)[f] = Null
    BY <1>3, <1>4, <2>4
  <2>5. CASE o \notin Replaced(t, f, to) /\ p(o)[f] # Null
    <3>1. o \in StoredIn(t, f)
      BY <1>1, <1>4, <2>5
    <3>2. v(o) = p(o)[f] /\ records'[o].props[f] = p(o)[f]
      BY <1>3, <1>4, <2>5, <3>1
    <3>3. <<t, f, p(o)[f], o>> \in Held(o)
      BY <1>4, <2>1, <2>5, HeldAs
    <3>4. <<t, f, p(o)[f], o>> \in propIndex
      BY <3>3, IndexIsHeld
    <3> QED
      BY <2>2, <3>1, <3>2, <3>4
  <2> QED
    BY <2>3, <2>4, <2>5
<1> SUFFICES ASSUME NEW n \in Nodes \cap used, NEW o \in Nodes \cap used, n # o,
                    records[n].type = records[o].type,
                    NEW h \in UniqueIn(schema, records[n].type) \cap DOMAIN p(n) \cap DOMAIN p(o),
                    records'[n].props[h] # Null
             PROVE  records'[n].props[h] # records'[o].props[h]
  BY <1>1, <1>2, <1>3 DEF Apart, Differ
<1>5. Differ(n, o)
  BY DEF Apart
<1>6. CASE h # f \/ (n \notin Replaced(t, f, to) /\ o \notin Replaced(t, f, to))
  <2>1. records'[n].props[h] = p(n)[h] /\ records'[o].props[h] = p(o)[h]
    BY <1>3, <1>6
  <2> QED
    BY <1>5, <2>1 DEF Differ
<1>7. CASE h = f /\ n \in Replaced(t, f, to)
  <2>1. records[n].type = t /\ records[o].type = t /\ records'[n].props[f] = v(n)
    BY <1>1, <1>3, <1>7
  <2> QED
    BY <1>4, <1>7, <2>1
<1>8. CASE h = f /\ n \notin Replaced(t, f, to) /\ o \in Replaced(t, f, to)
  <2>1. records[n].type = t /\ records[o].type = t /\ records'[o].props[f] = v(o)
    BY <1>1, <1>3, <1>8
  <2>2. CASE v(o) = Null
    BY <1>8, <2>1, <2>2
  <2>3. CASE v(o) # Null
    BY <1>4, <1>8, <2>1, <2>3
  <2> QED
    BY <2>2, <2>3
<1> QED
  BY <1>6, <1>7, <1>8

\* Every step keeps them apart.
LEMMA ApartNext ==
    ASSUME FreshIds = TRUE, SettledMarks = TRUE, Labels, PropIndexExact, Apart, [Next]_vars
    PROVE  Apart'
<1>1. CASE NodeCalls
  BY <1>1, NodeCallsApart
<1>2. CASE EdgeCalls \/ (\E ids \in Renumberings : Vacuum(ids)) \/ UNCHANGED vars
  BY <1>2, OthersApart
<1>3. CASE SchemaCalls
  BY <1>3, ApplyApart, RenameApart, ChangeTypeApart DEF SchemaCalls
<1> QED
  BY <1>1, <1>2, <1>3 DEF Next

\* No two nodes of a type ever hold the same value of a unique field, for any nodes, fields,
\* values and schemas: through inserts, updates, renames, changes of type that make values
\* equal, deletes that free ids for others, and vacuum.  The bounds are those of the two
\* theorems above: a mark that comes to a field with values is not checked by the code.
THEOREM UniqueValues == ASSUME FreshIds = TRUE, SettledMarks = TRUE PROVE Spec => []UniqueHolds
<1> DEFINE Inv == Labels /\ PropIndexExact /\ Apart
<1>1. Init => Inv
  <2>1. Init => PropIndexExact /\ Apart
    BY DEF Init, PropIndexExact, Apart
  <2> QED
    BY <2>1, LabelsInit
<1>2. Inv /\ [Next]_vars => Inv'
  BY LabelsNext, IndexNext, ApartNext
<1>3. Inv => UniqueHolds
  BY ApartIsUnique
<1> QED
  BY <1>1, <1>2, <1>3, PTL DEF Spec

\* As long as no mark comes to a field with values, an insert is refused whenever another
\* node of its type holds a value of a unique field: the accepted duplicates that the run
\* late_unique shows come from such marks alone.
THEOREM InsertsRespectUnique == ASSUME FreshIds = TRUE, SettledMarks = TRUE PROVE Spec => InsertsKeepUnique
<1> DEFINE Inv == Labels /\ PropIndexExact
           Kept == \A n \in Nodes, t \in NodeTypes, p \in NodeInputs, labels \in SUBSET NodeTypes :
                       InsertNode(n, t, p, labels) =>
                           \A f \in Unique(t) \cap DOMAIN p : p[f] # Null =>
                               \A o \in Nodes \cap used : records[o].type = t => ~Holds(o, f, p[f])
<1>1. Init => Inv
  <2>1. Init => PropIndexExact
    BY DEF Init, PropIndexExact
  <2> QED
    BY <2>1, LabelsInit
<1>2. Inv /\ [Next]_vars => Inv'
  BY LabelsNext, IndexNext
<1>3. Inv => Kept
  <2> SUFFICES ASSUME Inv, NEW n \in Nodes, NEW t \in NodeTypes, NEW p \in NodeInputs, NEW labels \in SUBSET NodeTypes,
                      InsertNode(n, t, p, labels), NEW f \in Unique(t) \cap DOMAIN p, p[f] # Null,
                      NEW o \in Nodes \cap used, records[o].type = t, Holds(o, f, p[f])
               PROVE  FALSE
    OBVIOUS
  <2>1. ~Taken(t, p, {})
    BY DEF InsertNode
  <2>2. /\ o \in (Nodes \cap used) \ {} /\ f \in UniqueIn(schema, t) \cap DOMAIN p \cap DOMAIN records[o].props
        /\ p[f] = records[o].props[f]
    BY MarksIn DEF Holds
  <2> QED
    BY <2>1, <2>2, NotTaken
<1>4. Inv /\ [Next]_vars => [Kept]_vars
  BY <1>3
<1> QED
  BY <1>1, <1>2, <1>4, PTL DEF Spec, InsertsKeepUnique

-----------------------------------------------------------------------------
\* The property store: its cells are counted by what refers to them.

\* The references among S to a content, and how many there are.
To(S, c)    == {x \in S : <<x[2], x[3]>> = c}
HowMany(S, c) == Cardinality(To(S, c))

\* How often a count has a content.
At(f, c) == IF c \in DOMAIN f THEN f[c] ELSE 0

\* A count has the contents that something refers to, and how often.
LEMMA Counts ==
    ASSUME NEW S, IsFiniteSet(S)
    PROVE  /\ \A c : /\ HowMany(S, c) \in Nat /\ At(Count(S), c) = HowMany(S, c)
                     /\ c \in DOMAIN Count(S) <=> HowMany(S, c) # 0
           /\ Count(S) = [c \in DOMAIN Count(S) |-> HowMany(S, c)]
<1>1. ASSUME NEW c
      PROVE  /\ HowMany(S, c) \in Nat /\ At(Count(S), c) = HowMany(S, c)
             /\ c \in DOMAIN Count(S) <=> HowMany(S, c) # 0
  <2>1. IsFiniteSet(To(S, c))
    BY FS_Subset DEF To
  <2>2. HowMany(S, c) \in Nat /\ (HowMany(S, c) = 0 <=> To(S, c) = {})
    BY <2>1, FS_CardinalityType, FS_EmptySet DEF HowMany
  <2>3. c \in DOMAIN Count(S) <=> To(S, c) # {}
    BY DEF Count, To
  <2>4. c \in DOMAIN Count(S) => Count(S)[c] = HowMany(S, c)
    BY DEF Count, HowMany, To
  <2> QED
    BY <2>2, <2>3, <2>4 DEF At
<1>2. Count(S) = [c \in DOMAIN Count(S) |-> HowMany(S, c)]
  BY DEF Count, HowMany, To
<1> QED
  BY <1>1, <1>2

\* Taking references away and adding others that were not there moves the numbers.
LEMMA NumbersMove ==
    ASSUME NEW S, IsFiniteSet(S), NEW W, IsFiniteSet(W), NEW F \in SUBSET S, W \cap (S \ F) = {}, NEW c
    PROVE  HowMany((S \ F) \cup W, c) = HowMany(S, c) + HowMany(W, c) - HowMany(F, c)
<1> DEFINE s == To(S, c)
           w == To(W, c)
           f == To(F, c)
<1>1. IsFiniteSet(s) /\ IsFiniteSet(w) /\ IsFiniteSet(f) /\ s \cap f = f
  <2>1. s \subseteq S /\ w \subseteq W /\ f \subseteq S /\ s \cap f = f
    BY DEF To
  <2> QED
    BY <2>1, FS_Subset
<1>2. To((S \ F) \cup W, c) = (s \ f) \cup w
  BY DEF To
<1>3. (s \ f) \cap w = {}
  BY DEF To
<1> HIDE DEF s, w, f
<1>4. IsFiniteSet(s \ f) /\ Cardinality(s \ f) = Cardinality(s) - Cardinality(f)
  <2>1. IsFiniteSet(s)
    BY <1>1
  <2>2. IsFiniteSet(s \ f) /\ Cardinality(s \ f) = Cardinality(s) - Cardinality(s \cap f)
    BY <2>1, FS_Difference
  <2> QED
    BY <1>1, <2>2
<1>5. Cardinality((s \ f) \cup w) = Cardinality(s \ f) + Cardinality(w) - Cardinality({})
  <2>1. Cardinality((s \ f) \cup w) = Cardinality(s \ f) + Cardinality(w) - Cardinality((s \ f) \cap w)
    BY <1>1, <1>4, FS_Union
  <2> QED
    BY <1>3, <2>1
<1>6. Cardinality(s) \in Nat /\ Cardinality(w) \in Nat /\ Cardinality(f) \in Nat /\ Cardinality({}) = 0
  BY <1>1, FS_CardinalityType, FS_EmptySet
<1>7. Cardinality((s \ f) \cup w) = Cardinality(s) + Cardinality(w) - Cardinality(f)
  BY <1>4, <1>5, <1>6
<1> QED
  BY <1>2, <1>7 DEF HowMany, s, w, f

\* A call that frees some references and writes new ones leaves a count of those that are left.
LEMMA StoredCounts ==
    ASSUME NEW S, IsFiniteSet(S), NEW W, IsFiniteSet(W), NEW F \in SUBSET S, W \cap (S \ F) = {},
           cells = Count(S)
    PROVE  Stored(W, F) = Count((S \ F) \cup W)
<1> DEFINE T == (S \ F) \cup W
           now(c) == At(cells, c) + At(Count(W), c) - At(Count(F), c)
           D == {c \in DOMAIN cells \cup DOMAIN Count(W) \cup DOMAIN Count(F) : now(c) # 0}
<1>1. IsFiniteSet(F) /\ IsFiniteSet(T)
  BY FS_Subset, FS_Difference, FS_Union
<1>2. Stored(W, F) = [c \in D |-> now(c)]
  BY DEF Stored, At
<1>3. ASSUME NEW c PROVE now(c) = HowMany(T, c)
  <2>1. At(cells, c) = HowMany(S, c) /\ At(Count(W), c) = HowMany(W, c) /\ At(Count(F), c) = HowMany(F, c)
    BY <1>1, Counts
  <2>2. HowMany(T, c) = HowMany(S, c) + HowMany(W, c) - HowMany(F, c)
    BY NumbersMove
  <2> QED
    BY <2>1, <2>2
<1>4. \A c : c \in DOMAIN Count(T) => c \in DOMAIN Count(S) \cup DOMAIN Count(W)
  BY DEF Count
<1> HIDE DEF now, T
<1>5. \A c : c \in D <=> c \in DOMAIN Count(T)
  <2>1. \A c : c \in DOMAIN Count(T) <=> HowMany(T, c) # 0
    BY <1>1, Counts
  <2> QED
    BY <1>3, <1>4, <2>1
<1>6. D = DOMAIN Count(T)
  BY <1>5
<1>7. Count(T) = [c \in DOMAIN Count(T) |-> HowMany(T, c)]
  BY <1>1, Counts
<1> HIDE DEF D
<1> QED
  BY <1>2, <1>3, <1>6, <1>7 DEF T

-----------------------------------------------------------------------------
\* References.

\* The references of the records S.
Refs(recs, S) == PropRefs(recs, S) \cup LabelRefs(recs, S)

\* Finitely many records have finitely many references.
LEMMA RefsFinite ==
    ASSUME NEW recs, NEW S, IsFiniteSet(S)
    PROVE  IsFiniteSet(PropRefs(recs, S)) /\ IsFiniteSet(LabelRefs(recs, S)) /\ IsFiniteSet(Refs(recs, S))
<1>1. IsFiniteSet(PropRefs(recs, S))
  <2> DEFINE D == {q \in S : recs[q].props # <<>>}
             f == [q \in D |-> <<q, "props", recs[q].props>>]
  <2>1. f \in Surjection(D, PropRefs(recs, S))
    BY DEF Surjection, PropRefs
  <2>2. IsFiniteSet(D)
    BY FS_Subset
  <2> HIDE DEF f, D
  <2> QED
    BY <2>1, <2>2, FS_Surjection
<1>2. IsFiniteSet(LabelRefs(recs, S))
  <2> DEFINE D == {q \in S : recs[q].labels # {}}
             f == [q \in D |-> <<q, "labels", recs[q].labels>>]
  <2>1. f \in Surjection(D, LabelRefs(recs, S))
    BY DEF Surjection, LabelRefs
  <2>2. IsFiniteSet(D)
    BY FS_Subset
  <2> HIDE DEF f, D
  <2> QED
    BY <2>1, <2>2, FS_Surjection
<1> QED
  BY <1>1, <1>2, FS_Union DEF Refs

\* A reference is that of one record to its properties or to its labels.
IsPropRef(rec, x)  == rec.props # <<>> /\ x = <<x[1], "props", rec.props>>
IsLabelRef(rec, x) == rec.labels # {} /\ x = <<x[1], "labels", rec.labels>>

LEMMA RefsAre ==
    ASSUME NEW x
    PROVE  /\ \A recs, S : /\ x \in PropRefs(recs, S) <=> x[1] \in S /\ IsPropRef(recs[x[1]], x)
                           /\ x \in LabelRefs(recs, S) <=> x[1] \in S /\ IsLabelRef(recs[x[1]], x)
           /\ \A rec, other : ~(IsPropRef(rec, x) /\ IsLabelRef(other, x))
           /\ \A rec, other : rec.props = other.props => (IsPropRef(rec, x) <=> IsPropRef(other, x))
           /\ \A rec, other : rec.labels = other.labels => (IsLabelRef(rec, x) <=> IsLabelRef(other, x))
<1>1. ASSUME NEW recs, NEW S
      PROVE  /\ x \in PropRefs(recs, S) <=> x[1] \in S /\ IsPropRef(recs[x[1]], x)
             /\ x \in LabelRefs(recs, S) <=> x[1] \in S /\ IsLabelRef(recs[x[1]], x)
  <2>1. x \in PropRefs(recs, S) <=> \E q \in S : recs[q].props # <<>> /\ x = <<q, "props", recs[q].props>>
    BY DEF PropRefs
  <2>2. x \in LabelRefs(recs, S) <=> \E q \in S : recs[q].labels # {} /\ x = <<q, "labels", recs[q].labels>>
    BY DEF LabelRefs
  <2> QED
    BY <2>1, <2>2 DEF IsPropRef, IsLabelRef
<1>2. ASSUME NEW rec, NEW other PROVE ~(IsPropRef(rec, x) /\ IsLabelRef(other, x))
  <2>1. IsPropRef(rec, x) => x[2] = "props"
    BY DEF IsPropRef
  <2>2. IsLabelRef(other, x) => x[2] = "labels"
    BY DEF IsLabelRef
  <2> QED
    BY <2>1, <2>2
<1>3. /\ \A rec, other : rec.props = other.props => (IsPropRef(rec, x) <=> IsPropRef(other, x))
      /\ \A rec, other : rec.labels = other.labels => (IsLabelRef(rec, x) <=> IsLabelRef(other, x))
  BY Zenon DEF IsPropRef, IsLabelRef
<1> QED
  BY <1>1, <1>2, <1>3

\* A new record brings its references.
Inserts(recs, new, U, V, n) == n \notin U /\ V = U \cup {n} /\ \A r \in U : new[r] = recs[r]

LEMMA RefsInserted ==
    ASSUME NEW recs, NEW new, NEW U, NEW V, NEW n, Inserts(recs, new, U, V, n)
    PROVE  /\ Refs(new, V) = (Refs(recs, U) \ {}) \cup Refs(new, {n})
           /\ Refs(new, {n}) \cap (Refs(recs, U) \ {}) = {}
<1>1. \A x : /\ x \in PropRefs(new, V) <=> x \in PropRefs(recs, U) \/ x \in PropRefs(new, {n})
             /\ x \in LabelRefs(new, V) <=> x \in LabelRefs(recs, U) \/ x \in LabelRefs(new, {n})
  BY DEF PropRefs, LabelRefs, Inserts
<1>2. \A x : x \in Refs(new, {n}) => x[1] = n
  BY RefsAre DEF Refs
<1>3. \A x : x \in Refs(recs, U) => x[1] # n
  BY RefsAre DEF Refs, Inserts
<1> QED
  BY <1>1, <1>2, <1>3 DEF Refs

\* Records that go take their references with them.
Deletes(recs, new, U, V, S) == S \subseteq U /\ V = U \ S /\ \A r \in U \ S : new[r] = recs[r]

LEMMA RefsDeleted ==
    ASSUME NEW recs, NEW new, NEW U, NEW V, NEW S, Deletes(recs, new, U, V, S)
    PROVE  /\ Refs(new, V) = (Refs(recs, U) \ Refs(recs, S)) \cup {}
           /\ Refs(recs, S) \subseteq Refs(recs, U)
<1>1. ASSUME NEW x
      PROVE  /\ x \in Refs(new, V) <=> x \in Refs(recs, U) /\ x[1] \notin S
             /\ x \in Refs(recs, S) <=> x \in Refs(recs, U) /\ x[1] \in S
  <2>1. /\ x \in PropRefs(new, V) <=> x \in PropRefs(recs, U) /\ x[1] \notin S
        /\ x \in PropRefs(recs, S) <=> x \in PropRefs(recs, U) /\ x[1] \in S
    BY RefsAre DEF Deletes
  <2>2. /\ x \in LabelRefs(new, V) <=> x \in LabelRefs(recs, U) /\ x[1] \notin S
        /\ x \in LabelRefs(recs, S) <=> x \in LabelRefs(recs, U) /\ x[1] \in S
    BY RefsAre DEF Deletes
  <2> QED
    BY <2>1, <2>2 DEF Refs
<1> QED
  BY <1>1

\* Records that get other properties change the references to them and no others.
Rewrites(recs, new, U, S) ==
    /\ S \subseteq U
    /\ \A r \in U : new[r].labels = recs[r].labels /\ (r \notin S => new[r].props = recs[r].props)

LEMMA RefsRewritten ==
    ASSUME NEW recs, NEW new, NEW U, NEW S, Rewrites(recs, new, U, S)
    PROVE  /\ Refs(new, U) = (Refs(recs, U) \ PropRefs(recs, S)) \cup PropRefs(new, S)
           /\ PropRefs(new, S) \cap (Refs(recs, U) \ PropRefs(recs, S)) = {}
           /\ PropRefs(recs, S) \subseteq Refs(recs, U)
<1>1. ASSUME NEW x
      PROVE  /\ x \in LabelRefs(new, U) <=> x \in LabelRefs(recs, U)
             /\ x \in PropRefs(new, U) <=> x \in PropRefs(new, S) \/ (x \in PropRefs(recs, U) /\ x[1] \notin S)
             /\ x \in PropRefs(recs, S) <=> x \in PropRefs(recs, U) /\ x[1] \in S
             /\ x \in PropRefs(new, S) => x[1] \in S
             /\ x \in LabelRefs(recs, U) => x \notin PropRefs(recs, S) /\ x \notin PropRefs(new, S)
  <2> DEFINE r == x[1]
             a == recs[r]
             b == new[r]
  <2>1. /\ x \in LabelRefs(new, U) <=> r \in U /\ IsLabelRef(b, x)
        /\ x \in LabelRefs(recs, U) <=> r \in U /\ IsLabelRef(a, x)
        /\ x \in PropRefs(new, U) <=> r \in U /\ IsPropRef(b, x)
        /\ x \in PropRefs(recs, U) <=> r \in U /\ IsPropRef(a, x)
        /\ x \in PropRefs(new, S) <=> r \in S /\ IsPropRef(b, x)
        /\ x \in PropRefs(recs, S) <=> r \in S /\ IsPropRef(a, x)
    BY RefsAre
  <2>2. r \in U => b.labels = a.labels /\ (r \notin S => b.props = a.props)
    BY DEF Rewrites
  <2> HIDE DEF r, a, b
  <2>3. /\ r \in U => (IsLabelRef(b, x) <=> IsLabelRef(a, x))
        /\ r \in U /\ r \notin S => (IsPropRef(b, x) <=> IsPropRef(a, x))
        /\ ~(IsPropRef(a, x) /\ IsLabelRef(a, x)) /\ ~(IsPropRef(b, x) /\ IsLabelRef(a, x))
    BY <2>2, RefsAre, Zenon
  <2>4. r \in S => r \in U
    BY DEF Rewrites
  <2> QED
    BY <2>1, <2>3, <2>4 DEF r
<1> QED
  BY <1>1 DEF Refs

\* The same with labels.
Relabels(recs, new, U, S) ==
    /\ S \subseteq U
    /\ \A r \in U : new[r].props = recs[r].props /\ (r \notin S => new[r].labels = recs[r].labels)

LEMMA RefsRelabelled ==
    ASSUME NEW recs, NEW new, NEW U, NEW S, Relabels(recs, new, U, S)
    PROVE  /\ Refs(new, U) = (Refs(recs, U) \ LabelRefs(recs, S)) \cup LabelRefs(new, S)
           /\ LabelRefs(new, S) \cap (Refs(recs, U) \ LabelRefs(recs, S)) = {}
           /\ LabelRefs(recs, S) \subseteq Refs(recs, U)
<1>1. ASSUME NEW x
      PROVE  /\ x \in PropRefs(new, U) <=> x \in PropRefs(recs, U)
             /\ x \in LabelRefs(new, U) <=> x \in LabelRefs(new, S) \/ (x \in LabelRefs(recs, U) /\ x[1] \notin S)
             /\ x \in LabelRefs(recs, S) <=> x \in LabelRefs(recs, U) /\ x[1] \in S
             /\ x \in LabelRefs(new, S) => x[1] \in S
             /\ x \in PropRefs(recs, U) => x \notin LabelRefs(recs, S) /\ x \notin LabelRefs(new, S)
  <2> DEFINE r == x[1]
             a == recs[r]
             b == new[r]
  <2>1. /\ x \in PropRefs(new, U) <=> r \in U /\ IsPropRef(b, x)
        /\ x \in PropRefs(recs, U) <=> r \in U /\ IsPropRef(a, x)
        /\ x \in LabelRefs(new, U) <=> r \in U /\ IsLabelRef(b, x)
        /\ x \in LabelRefs(recs, U) <=> r \in U /\ IsLabelRef(a, x)
        /\ x \in LabelRefs(new, S) <=> r \in S /\ IsLabelRef(b, x)
        /\ x \in LabelRefs(recs, S) <=> r \in S /\ IsLabelRef(a, x)
    BY RefsAre
  <2>2. r \in U => b.props = a.props /\ (r \notin S => b.labels = a.labels)
    BY DEF Relabels
  <2> HIDE DEF r, a, b
  <2>3. /\ r \in U => (IsPropRef(b, x) <=> IsPropRef(a, x))
        /\ r \in U /\ r \notin S => (IsLabelRef(b, x) <=> IsLabelRef(a, x))
        /\ ~(IsPropRef(a, x) /\ IsLabelRef(a, x)) /\ ~(IsPropRef(a, x) /\ IsLabelRef(b, x))
    BY <2>2, RefsAre, Zenon
  <2>4. r \in S => r \in U
    BY DEF Relabels
  <2> QED
    BY <2>1, <2>3, <2>4 DEF r
<1> QED
  BY <1>1 DEF Refs

-----------------------------------------------------------------------------
\* What a call writes and frees.

Shaped(rec) == rec = [type |-> rec.type, props |-> rec.props, labels |-> rec.labels, ends |-> rec.ends]

\* The inductive invariant behind the property store, over the one behind the label index.
Accounted ==
    /\ IsFiniteSet(used)
    /\ \A r \in Ids : Shaped(records[r])
    /\ \A e \in Edges \cap used : records[e].type \in EdgeTypes
    /\ CellsExact

\* A record keeps its shape.
LEMMA StaysShaped ==
    ASSUME NEW rec, Shaped(rec)
    PROVE  /\ \A p : /\ Shaped(WithProps(rec, p)) /\ WithProps(rec, p).props = p
                     /\ WithProps(rec, p).type = rec.type /\ WithProps(rec, p).labels = rec.labels
           /\ \A l : /\ Shaped(WithLabels(rec, l)) /\ WithLabels(rec, l).labels = l
                     /\ WithLabels(rec, l).type = rec.type /\ WithLabels(rec, l).props = rec.props
  BY DEF Shaped, WithProps, WithLabels

LEMMA NewShaped == \A t, p, l, e : Shaped([type |-> t, props |-> p, labels |-> l, ends |-> e])
  BY DEF Shaped

\* The cells are exact again after a call that frees F and writes W.
LEMMA CellsMove ==
    ASSUME Accounted, NEW W, NEW F, IsFiniteSet(W), F \subseteq Refs(records, used), W \cap (Refs(records, used) \ F) = {},
           Refs(records', used') = (Refs(records, used) \ F) \cup W, cells' = Stored(W, F)
    PROVE  CellsExact'
<1>1. cells = Count(Refs(records, used)) /\ IsFiniteSet(Refs(records, used))
  BY RefsFinite DEF Accounted, CellsExact, Refs
<1>2. cells' = Count(Refs(records', used'))
  BY <1>1, StoredCounts
<1> QED
  BY <1>2 DEF CellsExact, Refs

\* A record is inserted with what it refers to.
LEMMA InsertAccounted ==
    ASSUME Accounted, used \subseteq Ids, records = [r \in Ids |-> records[r]], NEW n \in Ids, n \notin used, NEW rec,
           Shaped(rec), n \in Edges => rec.type \in EdgeTypes,
           used' = used \cup {n}, records' = [records EXCEPT ![n] = rec], cells' = Stored(Refs(records', {n}), {})
    PROVE  Accounted'
<1>1. records'[n] = rec /\ \A r \in Ids : r # n => records'[r] = records[r]
  OBVIOUS
<1>2. IsFiniteSet(used') /\ IsFiniteSet({n})
  BY FS_AddElement, FS_Singleton DEF Accounted
<1>3. \A r \in Ids : Shaped(records'[r])
  BY <1>1 DEF Accounted
<1>4. \A e \in Edges \cap used' : records'[e].type \in EdgeTypes
  BY <1>1 DEF Accounted, Ids
<1>5. Inserts(records, records', used, used', n)
  BY <1>1 DEF Inserts
<1>6. /\ Refs(records', used') = (Refs(records, used) \ {}) \cup Refs(records', {n})
      /\ Refs(records', {n}) \cap (Refs(records, used) \ {}) = {}
  BY <1>5, RefsInserted
<1>7. CellsExact'
  <2>1. IsFiniteSet(Refs(records', {n})) /\ {} \subseteq Refs(records, used)
    BY <1>2, RefsFinite
  <2> QED
    BY <1>6, <2>1, CellsMove
<1> QED
  BY <1>2, <1>3, <1>4, <1>7 DEF Accounted

\* Records are deleted with what they refer to.
LEMMA DeleteAccounted ==
    ASSUME Accounted, NEW S \in SUBSET used, used \subseteq Ids,
           used' = used \ S, records' = [r \in Ids |-> IF r \in S THEN NoRecord ELSE records[r]],
           cells' = Stored({}, Refs(records, S))
    PROVE  Accounted'
<1>1. \A r \in Ids : records'[r] = IF r \in S THEN NoRecord ELSE records[r]
  OBVIOUS
<1>2. IsFiniteSet(used') /\ IsFiniteSet({})
  BY FS_Difference, FS_EmptySet DEF Accounted
<1>3. \A r \in Ids : Shaped(records'[r])
  <2>1. Shaped(NoRecord)
    BY NewShaped DEF NoRecord
  <2> QED
    BY <1>1, <2>1 DEF Accounted
<1>4. \A r \in used \ S : records'[r] = records[r]
  BY <1>1
<1>5. \A e \in Edges \cap used' : records'[e].type \in EdgeTypes
  BY <1>4 DEF Accounted
<1>6. /\ Refs(records', used') = (Refs(records, used) \ Refs(records, S)) \cup {}
      /\ Refs(records, S) \subseteq Refs(records, used)
  <2>1. Deletes(records, records', used, used', S)
    BY <1>4 DEF Deletes
  <2> QED
    BY <2>1, RefsDeleted
<1>7. CellsExact'
  <2>1. {} \cap (Refs(records, used) \ Refs(records, S)) = {}
    OBVIOUS
  <2> QED
    BY <1>2, <1>6, <2>1, CellsMove
<1> QED
  BY <1>2, <1>3, <1>5, <1>7 DEF Accounted

\* Records get other properties.
LEMMA PropsAccounted ==
    ASSUME Accounted, used \subseteq Ids, NEW S \in SUBSET used, NEW q, UNCHANGED used,
           records' = [r \in Ids |-> IF r \in S THEN WithProps(records[r], q[r]) ELSE records[r]],
           cells' = Stored(PropRefs(records', S), PropRefs(records, S))
    PROVE  Accounted'
<1>1. ASSUME NEW r \in Ids
      PROVE  /\ Shaped(records'[r]) /\ records'[r].type = records[r].type /\ records'[r].labels = records[r].labels
             /\ r \notin S => records'[r].props = records[r].props
  <2>1. Shaped(records[r])
    BY DEF Accounted
  <2>2. records'[r] = IF r \in S THEN WithProps(records[r], q[r]) ELSE records[r]
    OBVIOUS
  <2> QED
    BY <2>1, <2>2, StaysShaped
<1>2. Rewrites(records, records', used, S)
  BY <1>1 DEF Rewrites
<1>3. /\ Refs(records', used) = (Refs(records, used) \ PropRefs(records, S)) \cup PropRefs(records', S)
      /\ PropRefs(records', S) \cap (Refs(records, used) \ PropRefs(records, S)) = {}
      /\ PropRefs(records, S) \subseteq Refs(records, used)
  BY <1>2, RefsRewritten
<1>4. IsFiniteSet(PropRefs(records', S))
  BY FS_Subset, RefsFinite DEF Accounted
<1>5. CellsExact'
  BY <1>3, <1>4, CellsMove
<1>6. \A e \in Edges \cap used : records'[e].type \in EdgeTypes
  BY <1>1 DEF Accounted
<1> QED
  BY <1>1, <1>5, <1>6 DEF Accounted

\* A record gets other labels.
LEMMA LabelsAccounted ==
    ASSUME Accounted, used \subseteq Ids, records = [r \in Ids |-> records[r]], NEW n \in used, NEW l, UNCHANGED used,
           records' = [records EXCEPT ![n].labels = l], cells' = Stored(LabelRefs(records', {n}), LabelRefs(records, {n}))
    PROVE  Accounted'
<1>1. ASSUME NEW r \in Ids
      PROVE  /\ Shaped(records'[r]) /\ records'[r].type = records[r].type /\ records'[r].props = records[r].props
             /\ r \notin {n} => records'[r].labels = records[r].labels
  <2>1. Shaped(records[r])
    BY DEF Accounted
  <2>2. records'[r] = IF r \in {n} THEN WithLabels(records[r], l) ELSE records[r]
    BY DEF WithLabels
  <2> QED
    BY <2>1, <2>2, StaysShaped
<1>2. Relabels(records, records', used, {n})
  BY <1>1 DEF Relabels
<1>3. /\ Refs(records', used) = (Refs(records, used) \ LabelRefs(records, {n})) \cup LabelRefs(records', {n})
      /\ LabelRefs(records', {n}) \cap (Refs(records, used) \ LabelRefs(records, {n})) = {}
      /\ LabelRefs(records, {n}) \subseteq Refs(records, used)
  BY <1>2, RefsRelabelled
<1>4. IsFiniteSet(LabelRefs(records', {n}))
  BY FS_Singleton, RefsFinite
<1>5. CellsExact'
  BY <1>3, <1>4, CellsMove
<1>6. \A e \in Edges \cap used : records'[e].type \in EdgeTypes
  BY <1>1 DEF Accounted
<1> QED
  BY <1>1, <1>5, <1>6 DEF Accounted

-----------------------------------------------------------------------------
\* Every call.

\* update_node_properties, update_edge_properties
LEMMA UpdateAccounted ==
    ASSUME Labels, Accounted, NEW n \in Ids, NEW p, UpdateProperties(n, p)
    PROVE  Accounted'
<1> DEFINE q == [r \in Ids |-> p]
<1>1. /\ n \in used /\ UNCHANGED used /\ records' = [records EXCEPT ![n].props = p]
      /\ cells' = Stored(PropRefs(records', {n}), PropRefs(records, {n}))
  BY DEF UpdateProperties
<1>2. used \subseteq Ids /\ records = [r \in Ids |-> records[r]]
  BY DEF Labels
<1>3. records' = [r \in Ids |-> IF r \in {n} THEN WithProps(records[r], q[r]) ELSE records[r]]
  BY <1>1, <1>2 DEF WithProps
<1> HIDE DEF q
<1> QED
  BY <1>1, <1>2, <1>3, PropsAccounted

\* set_additional_labels, set_edge_additional_labels
LEMMA RelabelAccounted ==
    ASSUME FreshIds = TRUE, Labels, Accounted, NEW n, NEW labels, SetNodeLabels(n, labels) \/ SetEdgeLabels(n, labels)
    PROVE  Accounted'
<1> DEFINE l == Normalized(records[n].type, labels)
<1>1. /\ n \in used /\ UNCHANGED used /\ records' = [records EXCEPT ![n].labels = l]
      /\ cells' = Stored(LabelRefs(records', {n}), LabelRefs(records, {n}))
  BY DEF SetNodeLabels, SetEdgeLabels, Labelled
<1>2. used \subseteq Ids /\ records = [r \in Ids |-> records[r]]
  BY DEF Labels
<1> HIDE DEF l
<1> QED
  BY <1>1, <1>2, LabelsAccounted

\* The calls on nodes.
LEMMA NodeCallsAccounted ==
    ASSUME FreshIds = TRUE, Labels, Accounted, NodeCalls
    PROVE  Accounted'
<1>1. used \subseteq Ids /\ records = [r \in Ids |-> records[r]] /\ Nodes \subseteq Ids /\ Nodes \cap Edges = {}
  BY GraphAssumption DEF Labels, Ids
<1>2. ASSUME NEW n \in Nodes, NEW t, NEW p, NEW labels, InsertNode(n, t, p, labels) PROVE Accounted'
  <2> DEFINE rec == [type |-> t, props |-> p, labels |-> Normalized(t, labels), ends |-> <<>>]
  <2>1. /\ n \notin used /\ used' = used \cup {n} /\ records' = [records EXCEPT ![n] = rec]
        /\ cells' = Stored(Refs(records', {n}), {}) /\ n \notin Edges /\ n \in Ids
    BY <1>1, <1>2 DEF InsertNode, Refs
  <2>2. Shaped(rec)
    BY NewShaped
  <2> HIDE DEF rec
  <2> QED
    BY <1>1, <2>1, <2>2, InsertAccounted
<1>3. ASSUME NEW n \in Nodes, DeleteNode(n) PROVE Accounted'
  <2> DEFINE gone == {n} \cup Incident(n)
  <2>1. /\ n \in used /\ used' = used \ gone /\ records' = Freed(gone) /\ cells' = Stored({}, Refs(records, gone))
    BY <1>3 DEF DeleteNode, Refs
  <2>2. gone \subseteq used
    BY <2>1 DEF Incident
  <2> HIDE DEF gone
  <2>3. records' = [r \in Ids |-> IF r \in gone THEN NoRecord ELSE records[r]]
    BY <2>1 DEF Freed
  <2> QED
    BY <1>1, <2>1, <2>2, <2>3, DeleteAccounted
<1> QED
  BY <1>1, <1>2, <1>3, UpdateAccounted, RelabelAccounted, NodeCases

\* The calls on edges.
LEMMA EdgeCallsAccounted ==
    ASSUME FreshIds = TRUE, Labels, Accounted, EdgeCalls
    PROVE  Accounted'
<1>1. used \subseteq Ids /\ records = [r \in Ids |-> records[r]] /\ Edges \subseteq Ids
  BY DEF Labels, Ids
<1>2. ASSUME NEW e \in Edges, NEW t \in EdgeTypes, NEW from, NEW to, NEW p, NEW labels, InsertEdge(e, t, from, to, p, labels)
      PROVE  Accounted'
  <2> DEFINE rec == [type |-> t, props |-> p, labels |-> Normalized(t, labels), ends |-> <<from, to>>]
  <2>1. /\ e \notin used /\ used' = used \cup {e} /\ records' = [records EXCEPT ![e] = rec]
        /\ cells' = Stored(Refs(records', {e}), {}) /\ e \in Ids
    BY <1>1, <1>2 DEF InsertEdge, Refs
  <2>2. Shaped(rec) /\ rec.type \in EdgeTypes
    BY NewShaped
  <2> HIDE DEF rec
  <2> QED
    BY <1>1, <2>1, <2>2, InsertAccounted
<1>3. ASSUME NEW e \in Edges, DeleteEdge(e) PROVE Accounted'
  <2> DEFINE gone == {e}
  <2>1. /\ gone \subseteq used /\ used' = used \ gone /\ records' = Freed(gone) /\ cells' = Stored({}, Refs(records, gone))
    BY <1>3 DEF DeleteEdge, Refs
  <2> HIDE DEF gone
  <2>2. records' = [r \in Ids |-> IF r \in gone THEN NoRecord ELSE records[r]]
    BY <2>1 DEF Freed
  <2> QED
    BY <1>1, <2>1, <2>2, DeleteAccounted
<1>4. ASSUME NEW e \in Edges, NEW p, UpdateProperties(e, p) \/ PatchProperties(e, p) PROVE Accounted'
  <2>1. e \in Ids /\ \E q : UpdateProperties(e, q)
    BY <1>1, <1>4 DEF PatchProperties
  <2> QED
    BY <2>1, UpdateAccounted
<1>5. ASSUME NEW e \in Edges, NEW t, AddEdgeLabel(e, t) \/ RemoveEdgeLabel(e, t) PROVE Accounted'
  <2>1. \E labels : SetEdgeLabels(e, labels)
    BY <1>5 DEF AddEdgeLabel, RemoveEdgeLabel
  <2> QED
    BY <2>1, RelabelAccounted
<1> QED
  BY <1>2, <1>3, <1>4, <1>5 DEF EdgeCalls

\* rids_of_kind gives records in use.
LEMMA OfTypeUsed ==
    ASSUME Labels, NEW t \in Types
    PROVE  OfType(t) \subseteq used
<1> SUFFICES ASSUME NEW r \in OfType(t) PROVE r \in used
  OBVIOUS
<1>1. CASE t \in NodeTypes
  <2>1. r \in Nodes
    BY <1>1 DEF OfType
  <2> QED
    BY <2>1, OfTypeNodes
<1>2. CASE t \notin NodeTypes
  BY <1>2 DEF OfType
<1> QED
  BY <1>1, <1>2

\* The schema calls.
LEMMA SchemaCallsAccounted ==
    ASSUME Labels, Accounted, SchemaCalls
    PROVE  Accounted'
<1>1. used \subseteq Ids /\ DOMAIN schema \subseteq Types
  BY DEF Labels, SchemaTyped
<1>2. ASSUME NEW new, ApplySchema(new) PROVE Accounted'
  <2> DEFINE kept(r) == Restrict(records[r].props, DOMAIN records[r].props \cap Keep(new, records[r].type))
             S == Purged(new)
             q == [r \in Ids |-> kept(r)]
  <2>1. /\ UNCHANGED used /\ cells' = Stored(PropRefs(records', S), PropRefs(records, S))
        /\ records' = [r \in Ids |-> IF r \in S THEN WithProps(records[r], kept(r)) ELSE records[r]]
    BY <1>2 DEF ApplySchema, WithProps
  <2>2. S \subseteq used
    BY <1>1, OfTypeUsed DEF Purged, Changing
  <2> HIDE DEF S, kept
  <2>3. records' = [r \in Ids |-> IF r \in S THEN WithProps(records[r], q[r]) ELSE records[r]]
    BY <2>1
  <2> HIDE DEF q
  <2> QED
    BY <1>1, <2>1, <2>2, <2>3, PropsAccounted
<1>3. ASSUME NEW t \in DOMAIN schema, NEW f, NEW g, RenameField(t, f, g) PROVE Accounted'
  <2> DEFINE renamed(r) == RenamedProps(records[r].props, f, g)
             S == Touched(t, f, g)
             q == [r \in Ids |-> renamed(r)]
  <2>1. /\ UNCHANGED used /\ cells' = Stored(PropRefs(records', S), PropRefs(records, S))
        /\ records' = [r \in Ids |-> IF r \in S THEN WithProps(records[r], renamed(r)) ELSE records[r]]
    BY <1>3 DEF RenameField, Touched, WithProps
  <2>2. S \subseteq used
    BY <1>1, OfTypeUsed DEF Touched
  <2> HIDE DEF S, renamed
  <2>3. records' = [r \in Ids |-> IF r \in S THEN WithProps(records[r], q[r]) ELSE records[r]]
    BY <2>1
  <2> HIDE DEF q
  <2> QED
    BY <1>1, <2>1, <2>2, <2>3, PropsAccounted
<1>4. ASSUME NEW t \in DOMAIN schema, NEW f, NEW to, NEW reject, ChangeFieldType(t, f, to, reject) PROVE Accounted'
  <2> DEFINE S == Replaced(t, f, to)
             q == [r \in Ids |-> PropsAs(r, f, to)]
  <2>1. /\ UNCHANGED used /\ cells' = Stored(PropRefs(records', S), PropRefs(records, S))
        /\ records' = [r \in Ids |-> IF r \in S THEN WithProps(records[r], PropsAs(r, f, to)) ELSE records[r]]
    BY <1>4 DEF ChangeFieldType, WithProps
  <2>2. S \subseteq used
    BY <1>1, OfTypeUsed DEF Replaced, StoredIn
  <2> HIDE DEF S
  <2>3. records' = [r \in Ids |-> IF r \in S THEN WithProps(records[r], q[r]) ELSE records[r]]
    BY <2>1
  <2> HIDE DEF q
  <2> QED
    BY <1>1, <2>1, <2>2, <2>3, PropsAccounted
<1> QED
  BY <1>2, <1>3, <1>4 DEF SchemaCalls

\* vacuum writes every record anew.
LEMMA VacuumAccounted ==
    ASSUME Labels, Accounted, NEW ids \in Renumberings, Vacuum(ids)
    PROVE  Accounted'
<1> DEFINE copy(r) == [type |-> records[r].type, props |-> Visible(r), labels |-> records[r].labels,
                       ends |-> [i \in DOMAIN records[r].ends |-> ids[records[r].ends[i]]]]
<1>1. /\ used' = {ids[r] : r \in used} /\ CellsExact'
      /\ records' = [r \in Ids |-> IF r \in used' THEN copy(Source(ids, r)) ELSE NoRecord]
  BY DEF Vacuum, CellsExact, Source
<1>2. /\ ids \in [used -> Ids] /\ \A r \in used : ids[r] \in Nodes <=> r \in Nodes
  BY DEF Renumberings, Injection
<1>3. IsFiniteSet(used')
  <2>1. ids \in Surjection(used, used')
    BY <1>1, <1>2 DEF Surjection
  <2> QED
    BY <2>1, FS_Surjection DEF Accounted
<1>4. \A r : Shaped(copy(r)) /\ copy(r).type = records[r].type
  BY NewShaped
<1> HIDE DEF copy
<1>5. \A r \in Ids : Shaped(records'[r])
  <2>1. Shaped(NoRecord)
    BY NewShaped DEF NoRecord
  <2> QED
    BY <1>1, <1>4, <2>1
<1>6. ASSUME NEW e \in Edges \cap used' PROVE records'[e].type \in EdgeTypes
  <2>1. \E r \in used : ids[r] = e
    BY <1>1
  <2>2. Source(ids, e) \in used /\ ids[Source(ids, e)] = e
    BY <2>1 DEF Source
  <2>3. Source(ids, e) \in Edges
    BY <1>2, <2>2, GraphAssumption DEF Labels, Ids
  <2>4. records'[e].type = records[Source(ids, e)].type
    BY <1>1, <1>4 DEF Ids
  <2> QED
    BY <2>2, <2>3, <2>4 DEF Accounted
<1> QED
  BY <1>1, <1>3, <1>5, <1>6 DEF Accounted

\* Every step keeps the accounts.
LEMMA AccountedNext ==
    ASSUME FreshIds = TRUE, Labels, Accounted, [Next]_vars
    PROVE  Accounted'
<1>1. CASE UNCHANGED vars
  BY <1>1 DEF vars, Accounted, CellsExact, PropRefs, LabelRefs
<1> QED
  BY <1>1, NodeCallsAccounted, EdgeCallsAccounted, SchemaCallsAccounted, VacuumAccounted DEF Next

LEMMA AccountedInit == Init => Accounted
<1> SUFFICES ASSUME Init PROVE Accounted
  OBVIOUS
<1>1. IsFiniteSet(used) /\ used = {} /\ \A r \in Ids : records[r] = NoRecord
  BY FS_EmptySet DEF Init
<1>2. Shaped(NoRecord)
  BY NewShaped DEF NoRecord
<1>3. PropRefs(records, used) \cup LabelRefs(records, used) = {}
  BY <1>1 DEF PropRefs, LabelRefs
<1>4. Count({}) = <<>>
  BY DEF Count
<1>5. CellsExact
  BY <1>3, <1>4 DEF Init, CellsExact
<1> QED
  BY <1>1, <1>2, <1>5 DEF Accounted

\* The property store holds one cell for each value and each label list of the records in use
\* and no other, after every order of calls, for any records, types, values and schemas: no
\* call of db.rs leaks a cell, frees one twice or lets two records share one.  Label calls on
\* deleted records are left out: they write a list that no record in use refers to.
THEOREM CellsAgree == ASSUME FreshIds = TRUE PROVE Spec => []CellsExact
<1>1. Init => Labels /\ Accounted
  BY LabelsInit, AccountedInit
<1>2. Labels /\ Accounted /\ [Next]_vars => Labels' /\ Accounted'
  BY LabelsNext, AccountedNext
<1>3. Accounted => CellsExact
  BY DEF Accounted
<1> QED
  BY <1>1, <1>2, <1>3, PTL DEF Spec

-----------------------------------------------------------------------------
\* What a schema call shows.

\* rids_of_kind finds the records in use that have properties, nodes and edges.
LEMMA OfTypeFinds ==
    ASSUME Labels, Accounted, NEW r \in used, records[r].type \in Types, records[r].props # <<>>
    PROVE  r \in OfType(records[r].type)
<1>1. r \in Ids /\ (r \in Edges => records[r].type \in EdgeTypes /\ records[r].type \notin NodeTypes)
  BY GraphAssumption DEF Labels, Accounted
<1>2. CASE r \in Nodes
  BY <1>2, OfTypeNodes
<1>3. CASE r \in Edges
  BY <1>1, <1>3 DEF OfType
<1> QED
  BY <1>1, <1>2, <1>3 DEF Ids

\* The part of a map with the keys in A, as a read shows it.
Part(p, A) == Restrict(p, DOMAIN p \cap A)

\* A record whose properties p became q, and the fields D and N of its type before and after.
Rewritten(p, q, D, N) ==
    \/ q = Part(p, D \cap N)
    \/ q = p /\ DOMAIN p \cap N = DOMAIN p \cap (D \cap N)

\* What it shows afterwards is what it showed, of the fields that stay.
LEMMA RewrittenShows ==
    ASSUME NEW p, NEW q, NEW D, NEW N, Rewritten(p, q, D, N)
    PROVE  Part(q, N) = Part(Part(p, D), N)
<1> DEFINE v == Part(p, D)
           S == DOMAIN p \cap (D \cap N)
<1>1. DOMAIN v = DOMAIN p \cap D /\ \A x \in DOMAIN v : v[x] = p[x]
  BY DEF Part, Restrict
<1>2. DOMAIN v \cap N = S /\ \A x \in S : v[x] = p[x]
  BY <1>1
<1>3. DOMAIN q \cap N = S /\ \A x \in S : q[x] = p[x]
  <2>1. CASE q = Part(p, D \cap N)
    <3>1. DOMAIN q = S /\ \A x \in S : q[x] = p[x]
      BY <2>1 DEF Part, Restrict
    <3> QED
      BY <3>1
  <2>2. CASE q = p /\ DOMAIN p \cap N = S
    BY <2>2
  <2> QED
    BY <2>1, <2>2 DEF Rewritten
<1> HIDE DEF v, S
<1>4. Part(v, N) = [x \in S |-> p[x]] /\ Part(q, N) = [x \in S |-> p[x]]
  BY <1>2, <1>3 DEF Part, Restrict
<1> QED
  BY <1>4 DEF v

\* One record, before and after apply_schema.
LEMMA ApplyShows ==
    ASSUME Labels, Accounted, NEW new \in Schemas, ApplySchema(new),
           NEW r \in used, records[r].type \in DOMAIN schema \cap DOMAIN new
    PROVE  Visible(r)' = Restrict(Visible(r), DOMAIN Visible(r) \cap DOMAIN new[records[r].type])
<1> DEFINE t == records[r].type
           p == records[r].props
           K == Keep(new, t)
           q == records'[r].props
<1>1. r \in Ids /\ Shaped(records[r]) /\ t \in Types
  BY DEF Labels, Accounted, SchemaTyped
<1>2. /\ schema' = new
      /\ records'[r] = IF r \in Purged(new) THEN WithProps(records[r], Restrict(p, DOMAIN p \cap K)) ELSE records[r]
  BY <1>1 DEF ApplySchema, WithProps
<1>3. records'[r].type = t /\ q = IF r \in Purged(new) THEN Restrict(p, DOMAIN p \cap K) ELSE p
  BY <1>1, <1>2, StaysShaped
<1>4. /\ Declared(t) = DOMAIN schema[t] /\ Declared(t)' = DOMAIN new[t]
      /\ K = Declared(t) \cap DOMAIN new[t]
  BY <1>2, <1>3 DEF Declared, Keep
<1>5. Visible(r) = Restrict(p, DOMAIN p \cap Declared(t))
  BY DEF Visible
<1>6. Visible(r)' = Restrict(q, DOMAIN q \cap DOMAIN new[t])
  BY <1>2, <1>3, <1>4 DEF Visible
<1>7. ASSUME r \notin Purged(new) PROVE DOMAIN p \cap DOMAIN new[t] = DOMAIN p \cap K
  <2>1. CASE t \notin Changing(new)
    BY <1>4, <2>1 DEF Changing
  <2>2. CASE t \in Changing(new) /\ p = <<>>
    BY <2>2, EmptyProps
  <2>3. CASE t \in Changing(new) /\ p # <<>>
    <3>1. r \in OfType(t)
      BY <1>1, <2>3, OfTypeFinds
    <3>2. DOMAIN p \subseteq K
      BY <1>7, <2>3, <3>1 DEF Purged
    <3> QED
      BY <1>4, <3>2
  <2> QED
    BY <2>1, <2>2, <2>3
<1> DEFINE D == Declared(t)
           N == DOMAIN new[t]
<1>8. Rewritten(p, q, D, N)
  BY <1>3, <1>4, <1>7 DEF Rewritten, Part
<1>9. Visible(r)' = Part(q, N) /\ Visible(r) = Part(p, D)
  BY <1>5, <1>6 DEF Part
<1>10. Part(q, N) = Part(Part(p, D), N)
  BY <1>8, RewrittenShows
<1> QED
  BY <1>9, <1>10 DEF Part

\* apply_schema shows of every record, node or edge, exactly the values it showed before
\* under the fields that stay declared, for any schemas and values: none is lost, and no value
\* that was stored undeclared or left behind by a removed field comes to show.
THEOREM ValuesKept == ASSUME FreshIds = TRUE PROVE Spec => SchemaKeepsValues
<1> DEFINE Kept == schema' # schema => \A new \in Schemas : ApplySchema(new) =>
                       \A r \in used : records[r].type \in DOMAIN schema \cap DOMAIN new =>
                           Visible(r)' = Restrict(Visible(r), DOMAIN Visible(r) \cap DOMAIN new[records[r].type])
<1>1. Init => Labels /\ Accounted
  BY LabelsInit, AccountedInit
<1>2. Labels /\ Accounted /\ [Next]_vars => Labels' /\ Accounted'
  BY LabelsNext, AccountedNext
<1>3. Labels /\ Accounted => Kept
  BY ApplyShows
<1>4. Labels /\ Accounted /\ [Next]_vars => [Kept]_vars
  BY <1>3
<1> QED
  BY <1>1, <1>2, <1>4, PTL DEF Spec, SchemaKeepsValues
=============================================================================
