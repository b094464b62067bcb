---------------------------- MODULE Queries_proofs ----------------------------
(***************************************************************************)
(* Proofs about the parts that work through the calls of a database: the   *)
(* import of files (Transfer), for any databases, files and rows, and the  *)
(* search for paths (Pathfinding), for any graphs and requests.            *)
(***************************************************************************)
EXTENDS Transfer, Pathfinding, SetInduction, FiniteSetTheorems

-----------------------------------------------------------------------------
(* Sequences of whatever they hold. *)

IsSeq(s) == s \in Seq(Range(s))

LEMMA SeqShape ==
  ASSUME NEW s, IsSeq(s)
  PROVE  Len(s) \in Nat /\ DOMAIN s = 1 .. Len(s)
BY DEF IsSeq

\* Appending keeps what is there and puts one behind it.
LEMMA Appended ==
  ASSUME NEW s, IsSeq(s), NEW x
  PROVE  /\ IsSeq(Append(s, x))
         /\ DOMAIN Append(s, x) = 1 .. (Len(s) + 1)
         /\ Append(s, x)[Len(s) + 1] = x
         /\ \A k \in DOMAIN s : Append(s, x)[k] = s[k]
<1> DEFINE S == Range(s) \cup {x}
           t == Append(s, x)
<1>1. s \in Seq(S)
  BY DEF IsSeq
<1>2. /\ t \in Seq(S) /\ Len(t) = Len(s) + 1 /\ DOMAIN t = 1 .. (Len(s) + 1)
      /\ t[Len(s) + 1] = x /\ \A k \in 1 .. Len(s) : t[k] = s[k]
  BY <1>1
<1>3. DOMAIN s = 1 .. Len(s) /\ Len(s) \in Nat
  BY SeqShape
<1> HIDE DEF t
<1>4. \A k \in 1 .. Len(t) : t[k] \in Range(t)
  BY <1>2, <1>3 DEF Range
<1>5. t \in Seq(Range(t))
  BY <1>2, <1>4
<1> QED
  BY <1>2, <1>3, <1>5 DEF t, IsSeq

\* A function on the numbers up to some number is a sequence.
LEMMA MadeSeq ==
  ASSUME NEW n \in Nat, NEW s, DOMAIN s = 1 .. n, s = [k \in 1 .. n |-> s[k]]
  PROVE  IsSeq(s) /\ Len(s) = n
<1>1. \A k \in 1 .. n : s[k] \in Range(s)
  BY DEF Range
<1>2. s \in Seq(Range(s))
  BY <1>1
<1> QED
  BY <1>2 DEF IsSeq

-----------------------------------------------------------------------------
(* Scans. *)

UpTo(S, x) == {y \in S : y <= x}

LEMMA UpToCount ==
  ASSUME NEW S \in SUBSET Nat, IsFiniteSet(S), NEW x
  PROVE  IsFiniteSet(UpTo(S, x)) /\ Cardinality(UpTo(S, x)) \in 0 .. Cardinality(S) /\ Cardinality(S) \in Nat
<1>1. UpTo(S, x) \subseteq S
  BY DEF UpTo
<1>2. IsFiniteSet(UpTo(S, x)) /\ Cardinality(UpTo(S, x)) <= Cardinality(S)
  BY <1>1, FS_Subset
<1> QED
  BY <1>2, FS_CardinalityType

\* The larger of two records comes later.
LEMMA RankGrows ==
  ASSUME NEW S \in SUBSET Nat, IsFiniteSet(S), NEW x \in S, NEW y \in S, x < y
  PROVE  Cardinality(UpTo(S, x)) < Cardinality(UpTo(S, y))
<1>1. \A z \in S : z \in Nat
  OBVIOUS
<1>2. UpTo(S, x) \subseteq UpTo(S, y) /\ y \in UpTo(S, y) /\ y \notin UpTo(S, x)
  <2>1. \A a, b, c \in Nat : a <= b /\ b < c => a <= c
    OBVIOUS
  <2>2. ASSUME NEW z \in S, z <= x PROVE z <= y
    BY <1>1, <2>1, <2>2
  <2>3. y <= y /\ ~ (y <= x)
    BY <1>1
  <2> QED
    BY <2>2, <2>3 DEF UpTo
<1>3. IsFiniteSet(UpTo(S, y)) /\ UpTo(S, x) # UpTo(S, y)
  BY <1>2, UpToCount
<1>4. Cardinality(UpTo(S, x)) \in Nat /\ Cardinality(UpTo(S, y)) \in Nat
  BY UpToCount
<1>5. /\ Cardinality(UpTo(S, x)) <= Cardinality(UpTo(S, y))
      /\ Cardinality(UpTo(S, y)) # Cardinality(UpTo(S, x))
  BY <1>2, <1>3, FS_Subset
<1> QED
  BY <1>4, <1>5

\* Every number up to that of the records is the rank of one.
LEMMA RankTaken ==
  ASSUME NEW S \in SUBSET Nat, IsFiniteSet(S), NEW k \in 1 .. Cardinality(S)
  PROVE  \E x \in S : Cardinality(UpTo(S, x)) = k
<1> DEFINE T == {n \in Nat : n + 1 <= Cardinality(S) => \E x \in S : Cardinality(UpTo(S, x)) = n + 1}
<1>0. Cardinality(S) \in Nat
  BY FS_CardinalityType
<1>1. ASSUME NEW n \in Nat, NEW R \in SUBSET S, Cardinality(R) = n, IsFiniteSet(R), n + 1 <= Cardinality(S),
             \A x \in R, y \in S \ R : x < y
      PROVE  \E x \in S : Cardinality(UpTo(S, x)) = n + 1
  <2>1. S \ R # {}
    <3> SUFFICES ASSUME S \ R = {} PROVE FALSE
      OBVIOUS
    <3>1. R = S
      OBVIOUS
    <3> QED
      BY <1>1, <3>1
  <2>2. S \ R \in SUBSET Nat
    OBVIOUS
  <2>3. PICK x \in S \ R : \A y \in S \ R : x <= y
    BY <2>1, <2>2, LeastNumber
  <2>4. \A y \in R : y <= x
    BY <1>1, <2>3
  <2>5. \A y \in S \ R : y <= x => y = x
    BY <2>3
  <2>6. UpTo(S, x) = R \cup {x}
    BY <2>3, <2>4, <2>5 DEF UpTo
  <2>7. Cardinality(R \cup {x}) = n + 1
    BY <1>1, <2>3, FS_AddElement
  <2> QED
    BY <2>3, <2>6, <2>7
<1>2. 0 \in T
  <2>1. Cardinality({}) = 0 /\ IsFiniteSet({})
    BY FS_EmptySet
  <2> QED
    BY <1>1, <2>1
<1>3. ASSUME NEW n \in Nat, n \in T PROVE n + 1 \in T
  <2> SUFFICES ASSUME n + 1 + 1 <= Cardinality(S)
               PROVE  \E x \in S : Cardinality(UpTo(S, x)) = n + 1 + 1
    OBVIOUS
  <2>1. PICK x \in S : Cardinality(UpTo(S, x)) = n + 1
    BY <1>0, <1>3
  <2>2. IsFiniteSet(UpTo(S, x)) /\ UpTo(S, x) \in SUBSET S
    BY UpToCount DEF UpTo
  <2>3. \A z \in UpTo(S, x), y \in S \ UpTo(S, x) : z < y
    BY DEF UpTo
  <2> QED
    BY <1>1, <2>1, <2>2, <2>3
<1>4. Nat \subseteq T
  <2> HIDE DEF T
  <2> QED
    BY <1>2, <1>3, SetInduction
<1>5. k - 1 \in Nat /\ k - 1 \in T
  BY <1>0, <1>4
<1> QED
  BY <1>0, <1>5

\* A scan visits every record once, in ascending order.
LEMMA ScanVisits ==
  ASSUME NEW S \in SUBSET Nat, IsFiniteSet(S)
  PROVE  /\ Cardinality(S) \in Nat
         /\ IsSeq(Scan(S)) /\ Len(Scan(S)) = Cardinality(S) /\ DOMAIN Scan(S) = 1 .. Cardinality(S)
         /\ Scan(S) = [k \in 1 .. Cardinality(S) |-> Scan(S)[k]]
         /\ Range(Scan(S)) = S
         /\ \A k \in 1 .. Cardinality(S) : Scan(S)[k] \in S /\ Cardinality(UpTo(S, Scan(S)[k])) = k
<1> DEFINE n == Cardinality(S)
           s == Scan(S)
<1>1. n \in Nat
  BY FS_CardinalityType
<1>2. s = [k \in 1 .. n |-> CHOOSE x \in S : Cardinality(UpTo(S, x)) = k]
  BY DEF Scan, UpTo
<1>3. ASSUME NEW k \in 1 .. n PROVE s[k] \in S /\ Cardinality(UpTo(S, s[k])) = k
  <2>1. \E x \in S : Cardinality(UpTo(S, x)) = k
    BY RankTaken
  <2>2. s[k] = CHOOSE x \in S : Cardinality(UpTo(S, x)) = k
    BY <1>2
  <2> QED
    BY <2>1, <2>2
<1>4. DOMAIN s = 1 .. n /\ s = [k \in 1 .. n |-> s[k]]
  BY <1>2
<1> HIDE DEF s
<1>5. IsSeq(s) /\ Len(s) = n
  BY <1>1, <1>4, MadeSeq
<1>6. ASSUME NEW x \in S PROVE x \in Range(s)
  <2> DEFINE k == Cardinality(UpTo(S, x))
  <2>1. k \in 1 .. n
    <3>1. x \in UpTo(S, x) /\ IsFiniteSet(UpTo(S, x)) /\ k \in 0 .. n
      BY UpToCount DEF UpTo
    <3>2. k # 0
      BY <3>1, FS_EmptySet
    <3> QED
      BY <1>1, <3>1, <3>2
  <2>2. s[k] \in S /\ Cardinality(UpTo(S, s[k])) = k
    BY <1>3, <2>1
  <2>3. ~ (s[k] < x) /\ ~ (x < s[k])
    <3> HIDE DEF k
    <3>1. ASSUME s[k] < x PROVE FALSE
      <4>1. Cardinality(UpTo(S, s[k])) < Cardinality(UpTo(S, x))
        BY <2>2, <3>1, RankGrows
      <4> QED
        BY <2>1, <2>2, <4>1 DEF k
    <3>2. ASSUME x < s[k] PROVE FALSE
      <4>1. Cardinality(UpTo(S, x)) < Cardinality(UpTo(S, s[k]))
        BY <2>2, <3>2, RankGrows
      <4> QED
        BY <2>1, <2>2, <4>1 DEF k
    <3> QED
      BY <3>1, <3>2
  <2>4. s[k] = x
    <3> HIDE DEF k
    <3>1. s[k] \in Nat /\ x \in Nat
      BY <2>2
    <3> QED
      BY <2>3, <3>1
  <2> QED
    BY <1>4, <2>1, <2>4 DEF Range
<1>7. Range(s) = S
  BY <1>3, <1>4, <1>6 DEF Range
<1> QED
  BY <1>1, <1>3, <1>4, <1>5, <1>7 DEF s

LEMMA FirstFinite == ASSUME NEW n \in Nat PROVE IsFiniteSet(1 .. n)
BY FS_Interval

\* A scan of the first n records is the list of them.
LEMMA ScanAll ==
  ASSUME NEW n \in Nat
  PROVE  Scan(1 .. n) = [k \in 1 .. n |-> k]
<1>1. IsFiniteSet(1 .. n) /\ Cardinality(1 .. n) = n
  BY FS_Interval
<1>2. ASSUME NEW k \in 1 .. n PROVE Scan(1 .. n)[k] = k
  <2>1. Scan(1 .. n)[k] \in 1 .. n /\ Cardinality(UpTo(1 .. n, Scan(1 .. n)[k])) = k
    BY <1>1, ScanVisits
  <2>2. UpTo(1 .. n, Scan(1 .. n)[k]) = 1 .. Scan(1 .. n)[k]
    BY <2>1 DEF UpTo
  <2> QED
    BY <2>1, <2>2, FS_Interval
<1>3. Scan(1 .. n) = [k \in 1 .. n |-> Scan(1 .. n)[k]]
  BY <1>1, ScanVisits
<1> QED
  BY <1>2, <1>3

-----------------------------------------------------------------------------
(* Transfer: edges join the nodes that their rows name. *)

\* The node at a place has an id.
HasId(nodes, k, id) == k \in DOMAIN nodes /\ IdOf(nodes[k].props) = <<id>>

\* What is known of a database is so.
KnowsRight(known, nodes) == \A id \in DOMAIN known : HasId(nodes, known[id], id)

\* An edge that was inserted joins the nodes its row named.
Joins(d, entry) ==
    /\ entry[1] \in DOMAIN d.edges
    /\ HasId(d.nodes, d.edges[entry[1]].from, entry[2])
    /\ HasId(d.nodes, d.edges[entry[1]].to, entry[3])

Databases(d) == DOMAIN d = {"nodes", "edges"} /\ IsSeq(d.nodes) /\ IsSeq(d.edges)

Jobs(w) == DOMAIN w = DOMAIN Resting(0) /\ IsSeq(w.ends)

Joined ==
    /\ Databases(target) /\ Jobs(job)
    /\ KnowsRight(job.known, target.nodes)
    /\ \A k \in DOMAIN job.ends : Joins(target, job.ends[k])

LEMMA RestingJob == ASSUME NEW n PROVE Jobs(Resting(n)) /\ Resting(n).known = <<>> /\ Resting(n).ends = <<>>
<1>1. IsSeq(<<>>)
  BY DEF IsSeq, Range
<1> QED
  BY <1>1 DEF Jobs, Resting

\* The last node with an id is one with that id.
LEMMA KnownInRight ==
  ASSUME NEW d, IsSeq(d.nodes)
  PROVE  KnowsRight(KnownIn(d), d.nodes)
<1> DEFINE with(id) == {k \in DOMAIN d.nodes : IdOf(d.nodes[k].props) = <<id>>}
           ids == UNION {ToSet(IdOf(d.nodes[k].props)) : k \in DOMAIN d.nodes}
           last(id) == CHOOSE k \in with(id) : \A h \in with(id) : h <= k
<1>1. KnownIn(d) = [id \in ids |-> last(id)]
  BY DEF KnownIn
<1>2. ASSUME NEW id \in ids PROVE \E k \in with(id) : \A h \in with(id) : h <= k
  <2>1. PICK k \in DOMAIN d.nodes : id \in ToSet(IdOf(d.nodes[k].props))
    OBVIOUS
  <2>2. IdOf(d.nodes[k].props) = <<id>>
    BY <2>1 DEF IdOf, ToSet
  <2>3. k \in with(id)
    BY <2>2
  <2>4. Len(d.nodes) \in Nat /\ DOMAIN d.nodes = 1 .. Len(d.nodes)
    BY SeqShape
  <2> DEFINE T == {Len(d.nodes) - h : h \in with(id)}
  <2>5. T \in SUBSET Nat /\ T # {}
    <3>1. \A h \in with(id) : Len(d.nodes) - h \in Nat
      BY <2>4
    <3> QED
      BY <2>3, <3>1
  <2>6. PICK x \in T : \A y \in T : x <= y
    BY <2>5, LeastNumber
  <2>7. PICK m \in with(id) : x = Len(d.nodes) - m
    BY <2>6
  <2>8. ASSUME NEW h \in with(id) PROVE h <= m
    <3>1. Len(d.nodes) - h \in T
      OBVIOUS
    <3>2. h \in DOMAIN d.nodes /\ m \in DOMAIN d.nodes
      BY <2>7
    <3>3. h \in Int /\ m \in Int
      BY <2>4, <3>2
    <3>4. x <= Len(d.nodes) - h
      BY <2>6, <3>1
    <3> QED
      BY <2>4, <2>7, <3>3, <3>4
  <2> QED
    BY <2>8
<1>3. ASSUME NEW id \in ids PROVE last(id) \in with(id)
  <2> HIDE DEF with
  <2> QED
    BY <1>2
<1> HIDE DEF last
<1>4. ASSUME NEW id \in ids PROVE HasId(d.nodes, last(id), id)
  BY <1>3 DEF HasId
<1> QED
  BY <1>1, <1>4 DEF KnowsRight

LEMMA JoinedInit == TransferInit => Joined
<1> SUFFICES ASSUME TransferInit PROVE Joined
  OBVIOUS
<1>1. Databases(target)
  BY TransferAssumption DEF TransferInit, Databases, WellFormed, IsSeq
<1>2. Jobs(job) /\ job.known = <<>> /\ job.ends = <<>>
  BY RestingJob DEF TransferInit
<1> QED
  BY <1>1, <1>2 DEF Joined, KnowsRight

\* A database only grows: what was right of it stays so.
LEMMA GrownNodes ==
  ASSUME Joined, Databases(target'),
         \A k \in DOMAIN target.nodes : k \in DOMAIN target'.nodes /\ target'.nodes[k] = target.nodes[k],
         \A k \in DOMAIN target.edges : k \in DOMAIN target'.edges /\ target'.edges[k] = target.edges[k]
  PROVE  /\ KnowsRight(job.known, target'.nodes)
         /\ \A k \in DOMAIN job.ends : Joins(target', job.ends[k])
<1>1. ASSUME NEW k, NEW id, HasId(target.nodes, k, id) PROVE HasId(target'.nodes, k, id)
  BY <1>1 DEF HasId
<1>2. ASSUME NEW entry, Joins(target, entry) PROVE Joins(target', entry)
  BY <1>1, <1>2 DEF Joins
<1> QED
  BY <1>1, <1>2 DEF Joined, KnowsRight

LEMMA JoinedNode == ASSUME Joined, ImportNode PROVE Joined'
<1> DEFINE row == Head(job.nodes)
           new == [type |-> row.type, props |-> row.props, labels |-> {}]
           place == Len(target.nodes) + 1
<1>1. target' = [target EXCEPT !.nodes = Append(target.nodes, new)]
  BY DEF ImportNode
<1>2. job' = [job EXCEPT !.nodes = Tail(job.nodes), !.known = Knowing(job.known, IdOf(row.props), place)]
  BY DEF ImportNode, KnownAfter
<1>3. new.props = row.props
  OBVIOUS
<1> HIDE DEF row, new
<1>4. target'.nodes = Append(target.nodes, new) /\ target'.edges = target.edges /\ DOMAIN target' = DOMAIN target
  BY <1>1 DEF Joined, Databases
<1>5. IsSeq(target.nodes) /\ DOMAIN target.nodes = 1 .. Len(target.nodes) /\ Len(target.nodes) \in Nat
  BY SeqShape DEF Joined, Databases
<1>6. /\ IsSeq(target'.nodes) /\ place \in DOMAIN target'.nodes /\ target'.nodes[place] = new
      /\ \A k \in DOMAIN target.nodes : k \in DOMAIN target'.nodes /\ target'.nodes[k] = target.nodes[k]
  BY <1>4, <1>5, Appended
<1>7. Databases(target')
  BY <1>4, <1>6 DEF Joined, Databases
<1>8. /\ KnowsRight(job.known, target'.nodes)
      /\ \A k \in DOMAIN job.ends : Joins(target', job.ends[k])
  BY <1>4, <1>6, <1>7, GrownNodes
<1>9. DOMAIN job' = DOMAIN job /\ job'.ends = job.ends /\ job'.known = Knowing(job.known, IdOf(row.props), place)
  BY <1>2 DEF Joined, Jobs, Resting
<1>10. KnowsRight(job'.known, target'.nodes)
  <2> SUFFICES ASSUME NEW id \in DOMAIN job'.known PROVE HasId(target'.nodes, job'.known[id], id)
    BY DEF KnowsRight
  <2>1. CASE id \in ToSet(IdOf(row.props))
    <3>1. job'.known[id] = place
      BY <1>9, <2>1 DEF Knowing
    <3>2. IdOf(row.props) = <<id>>
      BY <2>1 DEF ToSet, IdOf
    <3> QED
      BY <1>3, <1>6, <3>1, <3>2 DEF HasId
  <2>2. CASE id \notin ToSet(IdOf(row.props))
    <3>1. id \in DOMAIN job.known /\ job'.known[id] = job.known[id]
      BY <1>9, <2>2 DEF Knowing
    <3> QED
      BY <1>8, <3>1 DEF KnowsRight
  <2> QED
    BY <2>1, <2>2
<1> QED
  BY <1>7, <1>8, <1>9, <1>10 DEF Joined, Jobs

LEMMA JoinedEdge == ASSUME Joined, ImportEdge PROVE Joined'
<1> DEFINE row == Head(job.edges)
           new == EdgeMade(row)
           place == Len(target.edges) + 1
           entry == <<place, row.from, row.to>>
<1>1. target' = [target EXCEPT !.edges = Append(target.edges, new)]
  BY DEF ImportEdge
<1>2. job' = [job EXCEPT !.edges = Tail(job.edges), !.ends = Append(job.ends, entry)]
  BY DEF ImportEdge
<1>3. row.from \in DOMAIN job.known /\ row.to \in DOMAIN job.known
  BY DEF ImportEdge, EdgeFits
<1>4. new.from = job.known[row.from] /\ new.to = job.known[row.to]
  BY DEF EdgeMade
<1>5. entry[1] = place /\ entry[2] = row.from /\ entry[3] = row.to
  OBVIOUS
<1> HIDE DEF row, new, entry
<1>6. target'.edges = Append(target.edges, new) /\ target'.nodes = target.nodes /\ DOMAIN target' = DOMAIN target
  BY <1>1 DEF Joined, Databases
<1>7. IsSeq(target.edges) /\ DOMAIN target.edges = 1 .. Len(target.edges) /\ Len(target.edges) \in Nat
  BY SeqShape DEF Joined, Databases
<1>8. /\ IsSeq(target'.edges) /\ place \in DOMAIN target'.edges /\ target'.edges[place] = new
      /\ \A k \in DOMAIN target.edges : k \in DOMAIN target'.edges /\ target'.edges[k] = target.edges[k]
  BY <1>6, <1>7, Appended
<1>9. Databases(target')
  BY <1>6, <1>8 DEF Joined, Databases
<1>10. /\ KnowsRight(job.known, target'.nodes)
       /\ \A k \in DOMAIN job.ends : Joins(target', job.ends[k])
  BY <1>6, <1>8, <1>9, GrownNodes
<1>11. DOMAIN job' = DOMAIN job /\ job'.ends = Append(job.ends, entry) /\ job'.known = job.known
  BY <1>2 DEF Joined, Jobs, Resting
<1>12. IsSeq(job.ends) /\ DOMAIN job.ends = 1 .. Len(job.ends) /\ Len(job.ends) \in Nat
  BY SeqShape DEF Joined, Jobs
<1>13. /\ IsSeq(job'.ends) /\ DOMAIN job'.ends = 1 .. (Len(job.ends) + 1)
       /\ job'.ends[Len(job.ends) + 1] = entry
       /\ \A k \in DOMAIN job.ends : job'.ends[k] = job.ends[k]
  BY <1>11, <1>12, Appended
<1>14. Joins(target', entry)
  <2>1. HasId(target'.nodes, new.from, row.from) /\ HasId(target'.nodes, new.to, row.to)
    BY <1>3, <1>4, <1>10 DEF KnowsRight
  <2> QED
    BY <1>5, <1>8, <2>1 DEF Joins
<1>15. ASSUME NEW k \in DOMAIN job'.ends PROVE Joins(target', job'.ends[k])
  <2>1. k \in DOMAIN job.ends \/ k = Len(job.ends) + 1
    BY <1>12, <1>13
  <2> QED
    BY <1>10, <1>13, <1>14, <2>1
<1> QED
  BY <1>9, <1>10, <1>11, <1>13, <1>15 DEF Joined, Jobs

LEMMA JoinedStart == ASSUME Joined, StartImport PROVE Joined'
<1>1. target' = target /\ job'.known = KnownIn(target) /\ job'.ends = <<>> /\ DOMAIN job' = DOMAIN Resting(0)
  BY DEF StartImport, Resting
<1>2. IsSeq(<<>>)
  BY DEF IsSeq, Range
<1>3. KnowsRight(KnownIn(target), target.nodes)
  BY KnownInRight DEF Joined, Databases
<1> QED
  BY <1>1, <1>2, <1>3 DEF Joined, Jobs

LEMMA JoinedStep == Joined /\ [TransferNext]_xferVars => Joined'
<1> SUFFICES ASSUME Joined, [TransferNext]_xferVars PROVE Joined'
  OBVIOUS
<1>1. CASE Export
  BY <1>1 DEF Export, Joined
<1>2. CASE StartImport
  BY <1>2, JoinedStart
<1>3. CASE ImportNode
  BY <1>3, JoinedNode
<1>4. CASE ImportEdge
  BY <1>4, JoinedEdge
<1>5. CASE Refused \/ Killed
  <2>1. job' = Resting(job.imports) /\ target' = target
    BY <1>5 DEF Refused, Killed
  <2> QED
    BY <2>1, RestingJob DEF Joined, KnowsRight
<1>6. CASE Flush
  <2>1. target' = target /\ job'.known = job.known /\ job'.ends = job.ends /\ DOMAIN job' = DOMAIN job
    BY <1>6 DEF Flush, Joined, Jobs, Resting
  <2> QED
    BY <2>1 DEF Joined, Jobs
<1>7. CASE UNCHANGED xferVars
  BY <1>7 DEF xferVars, Joined
<1> QED
  BY <1>1, <1>2, <1>3, <1>4, <1>5, <1>6, <1>7 DEF TransferNext

\* An import gives each edge the nodes that carry the ids of its row, whatever the database held
\* before it, wherever an earlier import of the file stopped, and when ids occur twice (import.rs).
THEOREM EdgesOfRows == TransferSpec => []EdgesJoinNamed
<1>1. Joined => EdgesJoinNamed
  BY DEF Joined, EdgesJoinNamed, Joins, HasId
<1> QED
  BY JoinedInit, JoinedStep, <1>1, PTL DEF TransferSpec

-----------------------------------------------------------------------------
(* Transfer: a first import into an empty database restores what the file keeps. *)

NodeRows == [k \in DOMAIN items.nodes |-> Row(items.nodes[k])]
EdgeRows == [k \in DOMAIN items.edges |-> EdgeRow(items.edges[k])]

\* The file was written from the source.
FromSource ==
    /\ IsSeq(items.nodes) /\ IsSeq(items.edges)
    /\ items.format = "json" =>
          items.nodes = JsonNodes(source, items.filter) /\ items.edges = JsonEdges(source, items.filter)
    /\ items.format = "csv" /\ items.filter \in DOMAIN NodeFields => items.nodes = CsvNodes(source, items.filter)

\* The rows left are the last ones.
Left(left, all) ==
    /\ IsSeq(left) /\ Len(left) <= Len(all)
    /\ \A k \in DOMAIN left : left[k] = all[Len(all) - Len(left) + k]

Copied(n, row) == n.type = row.type /\ n.props = row.props

Drawn(e, row, nodes) ==
    /\ e = [type |-> row.type, from |-> e.from, to |-> e.to, props |-> row.props]
    /\ HasId(nodes, e.from, row.from) /\ HasId(nodes, e.to, row.to)

\* The import has gone through the rows up to some place.  If it began without nodes, the nodes
\* and edges are those of the rows so far.
Progress(d, nodesLeft, edgesLeft, nodeRows, edgeRows) ==
    /\ Left(nodesLeft, nodeRows) /\ Left(edgesLeft, edgeRows)
    /\ Len(d.nodes) = Len(nodeRows) - Len(nodesLeft) =>
          /\ \A k \in DOMAIN d.nodes : Copied(d.nodes[k], nodeRows[k])
          /\ Len(d.edges) = Len(edgeRows) - Len(edgesLeft)
          /\ \A k \in DOMAIN d.edges : Drawn(d.edges[k], edgeRows[k], d.nodes)

Restoring ==
    /\ source \in Sources /\ FromSource
    /\ DOMAIN job = DOMAIN Resting(0)
    /\ job.phase \in {"idle", "import", "done"} /\ job.imports \in Nat
    /\ job.imports = 0 => target \in Destinations
    /\ job.phase # "idle" /\ job.imports = 1 => Progress(target, job.nodes, job.edges, NodeRows, EdgeRows)
    /\ job.phase # "idle" => job.imports # 0
    /\ job.phase = "done" => job.nodes = <<>> /\ job.edges = <<>>

LEMMA LeftTail ==
  ASSUME NEW left, NEW all, IsSeq(all), Left(left, all), left # <<>>
  PROVE  /\ Left(Tail(left), all) /\ Len(Tail(left)) = Len(left) - 1
         /\ Len(all) - Len(left) + 1 \in DOMAIN all
         /\ Head(left) = all[Len(all) - Len(left) + 1]
         /\ Len(left) \in Nat /\ Len(all) \in Nat
<1>1. IsSeq(left) /\ Len(left) \in Nat /\ DOMAIN left = 1 .. Len(left) /\ Len(all) \in Nat /\ DOMAIN all = 1 .. Len(all)
  BY SeqShape DEF Left
<1>2. Len(left) # 0
  BY <1>1 DEF IsSeq
<1>3. Head(left) = left[1]
  BY <1>1, <1>2 DEF IsSeq
<1>4. /\ DOMAIN Tail(left) = 1 .. (Len(left) - 1)
      /\ \A k \in 1 .. (Len(left) - 1) : Tail(left)[k] = left[k + 1]
      /\ Tail(left) = [k \in 1 .. (Len(left) - 1) |-> Tail(left)[k]]
  <2>1. left \in Seq(Range(left)) /\ left # <<>>
    BY <1>1 DEF IsSeq
  <2> DEFINE n == Len(left) - 1
             t == Tail(left)
  <2>2. t \in Seq(Range(left)) /\ Len(t) = n
    BY <1>1, <2>1
  <2>3. \A k \in 1 .. n : t[k] = left[k + 1]
    BY <1>1, <2>1
  <2> HIDE DEF t, n
  <2>4. DOMAIN t = 1 .. n /\ t = [k \in 1 .. n |-> t[k]]
    BY <2>2
  <2> QED
    BY <2>3, <2>4 DEF t, n
<1>5. Len(left) - 1 \in Nat
  BY <1>1, <1>2
<1>6. IsSeq(Tail(left)) /\ Len(Tail(left)) = Len(left) - 1
  BY <1>4, <1>5, MadeSeq
<1>7. ASSUME NEW k \in DOMAIN Tail(left) PROVE Tail(left)[k] = all[Len(all) - Len(Tail(left)) + k]
  <2>1. k + 1 \in DOMAIN left /\ Tail(left)[k] = left[k + 1]
    BY <1>1, <1>4
  <2>2. left[k + 1] = all[Len(all) - Len(left) + (k + 1)]
    BY <2>1 DEF Left
  <2>3. Len(all) - Len(left) + (k + 1) = Len(all) - Len(Tail(left)) + k
    BY <1>1, <1>4, <1>6
  <2> QED
    BY <2>1, <2>2, <2>3
<1>8. Left(Tail(left), all)
  BY <1>1, <1>6, <1>7 DEF Left
<1>9. Head(left) = all[Len(all) - Len(left) + 1] /\ Len(all) - Len(left) + 1 \in DOMAIN all
  BY <1>1, <1>2, <1>3 DEF Left
<1> QED
  BY <1>1, <1>6, <1>8, <1>9

LEMMA RowsStay ==
  ASSUME items' = items
  PROVE  NodeRows' = NodeRows /\ EdgeRows' = EdgeRows
BY DEF NodeRows, EdgeRows, Row, EdgeRow, RowProps

LEMMA RowsShape ==
  ASSUME FromSource
  PROVE  /\ IsSeq(NodeRows) /\ Len(NodeRows) = Len(items.nodes) /\ DOMAIN NodeRows = DOMAIN items.nodes
         /\ IsSeq(EdgeRows) /\ Len(EdgeRows) = Len(items.edges) /\ DOMAIN EdgeRows = DOMAIN items.edges
<1>1. /\ Len(items.nodes) \in Nat /\ DOMAIN items.nodes = 1 .. Len(items.nodes)
      /\ Len(items.edges) \in Nat /\ DOMAIN items.edges = 1 .. Len(items.edges)
  BY SeqShape DEF FromSource
<1>2. DOMAIN NodeRows = 1 .. Len(items.nodes) /\ NodeRows = [k \in 1 .. Len(items.nodes) |-> NodeRows[k]]
  BY <1>1 DEF NodeRows
<1>3. DOMAIN EdgeRows = 1 .. Len(items.edges) /\ EdgeRows = [k \in 1 .. Len(items.edges) |-> EdgeRows[k]]
  BY <1>1 DEF EdgeRows
<1> QED
  BY <1>1, <1>2, <1>3, MadeSeq

LEMMA SoundSource ==
  ASSUME NEW d \in Sources \cup Destinations
  PROVE  WellFormed(d) /\ Databases(d)
BY TransferAssumption DEF WellFormed, Databases, IsSeq

\* An export writes one row for each record listed.
LEMMA FilesAreSeqs ==
  ASSUME NEW d \in Sources, NEW filter
  PROVE  /\ IsSeq(CsvNodes(d, filter)) /\ IsSeq(CsvEdges(d, filter))
         /\ IsSeq(JsonNodes(d, filter)) /\ IsSeq(JsonEdges(d, filter)) /\ IsSeq(<<>>)
<1>1. /\ Len(d.nodes) \in Nat /\ DOMAIN d.nodes = 1 .. Len(d.nodes)
      /\ Len(d.edges) \in Nat /\ DOMAIN d.edges = 1 .. Len(d.edges)
  <2>1. Databases(d)
    BY SoundSource
  <2> QED
    BY <2>1, SeqShape DEF Databases
<1> DEFINE N == {k \in DOMAIN d.nodes : filter \in DOMAIN NodeFields => d.nodes[k].type = filter}
           E == {k \in DOMAIN d.edges : filter = Everything \/ d.edges[k].type = filter}
<1>2. N \in SUBSET Nat /\ IsFiniteSet(N) /\ E \in SUBSET Nat /\ IsFiniteSet(E)
  <2>1. IsFiniteSet(1 .. Len(d.nodes)) /\ IsFiniteSet(1 .. Len(d.edges))
    BY <1>1, FirstFinite
  <2>2. N \in SUBSET DOMAIN d.nodes /\ E \in SUBSET DOMAIN d.edges
    OBVIOUS
  <2> HIDE DEF N, E
  <2>3. IsFiniteSet(N) /\ IsFiniteSet(E)
    BY <1>1, <2>1, <2>2, FS_Subset
  <2> QED
    BY <1>1, <2>2, <2>3
<1>3. ListNodes(d, filter) = Scan(N)
  BY DEF ListNodes
<1>4. ListEdges(d, filter) = [k \in DOMAIN Scan(E) |-> d.edges[Scan(E)[k]]]
  BY DEF ListEdges
<1> DEFINE n == Cardinality(N)
           m == Cardinality(E)
<1> HIDE DEF N, E
<1>5. n \in Nat /\ m \in Nat /\ DOMAIN ListNodes(d, filter) = 1 .. n /\ DOMAIN ListEdges(d, filter) = 1 .. m
  BY <1>2, <1>3, <1>4, ScanVisits
<1> HIDE DEF n, m
<1>6. IsSeq(JsonNodes(d, filter))
  <2> DEFINE s == JsonNodes(d, filter)
  <2>1. DOMAIN s = 1 .. n /\ s = [k \in 1 .. n |-> s[k]]
    BY <1>5 DEF JsonNodes
  <2> HIDE DEF s
  <2>2. IsSeq(s)
    BY <1>5, <2>1, MadeSeq
  <2> QED
    BY <2>2 DEF s
<1>7. IsSeq(JsonEdges(d, filter))
  <2> DEFINE s == JsonEdges(d, filter)
  <2>1. DOMAIN s = 1 .. m /\ s = [k \in 1 .. m |-> s[k]]
    BY <1>5 DEF JsonEdges
  <2> HIDE DEF s
  <2>2. IsSeq(s)
    BY <1>5, <2>1, MadeSeq
  <2> QED
    BY <2>2 DEF s
<1>8. IsSeq(CsvNodes(d, filter))
  <2> DEFINE s == CsvNodes(d, filter)
  <2>1. DOMAIN s = 1 .. n /\ s = [k \in 1 .. n |-> s[k]]
    BY <1>5 DEF CsvNodes
  <2> HIDE DEF s
  <2>2. IsSeq(s)
    BY <1>5, <2>1, MadeSeq
  <2> QED
    BY <2>2 DEF s
<1>9. IsSeq(CsvEdges(d, filter))
  <2> DEFINE s == CsvEdges(d, filter)
  <2>1. DOMAIN s = 1 .. m /\ s = [k \in 1 .. m |-> s[k]]
    BY <1>5 DEF CsvEdges
  <2> HIDE DEF s
  <2>2. IsSeq(s)
    BY <1>5, <2>1, MadeSeq
  <2> QED
    BY <2>2 DEF s
<1>10. IsSeq(<<>>)
  BY DEF IsSeq, Range
<1> QED
  BY <1>6, <1>7, <1>8, <1>9, <1>10

LEMMA RestoringInit == TransferInit => Restoring
<1> SUFFICES ASSUME TransferInit PROVE Restoring
  OBVIOUS
<1>1. IsSeq(<<>>)
  BY DEF IsSeq, Range
<1>2. FromSource
  BY <1>1 DEF TransferInit, FromSource, NoItems
<1>3. DOMAIN job = DOMAIN Resting(0) /\ job.phase = "idle" /\ job.imports = 0
  BY DEF TransferInit, Resting
<1> QED
  BY <1>2, <1>3 DEF TransferInit, Restoring

LEMMA RestoringExport == ASSUME Restoring, Export PROVE Restoring'
<1>1. job.imports = 0 /\ job' = job /\ source' = source /\ target' = target /\ job.phase = "idle"
  BY DEF Export, Resting
<1>2. FromSource'
  <2>1. CASE \E type \in DOMAIN NodeFields \cup DOMAIN EdgeFields : ExportCsv(type)
    <3>1. PICK type \in DOMAIN NodeFields \cup DOMAIN EdgeFields : ExportCsv(type)
      BY <2>1
    <3>2. /\ items'.format = "csv" /\ items'.filter = type
          /\ items'.nodes = IF type \in DOMAIN NodeFields THEN CsvNodes(source, type) ELSE <<>>
          /\ items'.edges = IF type \in DOMAIN NodeFields THEN <<>> ELSE CsvEdges(source, type)
      BY <3>1 DEF ExportCsv
    <3>3. IsSeq(items'.nodes) /\ IsSeq(items'.edges)
      BY <3>2, FilesAreSeqs DEF Restoring
    <3> QED
      BY <1>1, <3>2, <3>3 DEF FromSource
  <2>2. CASE \E filter \in {Everything} \cup DOMAIN NodeFields \cup DOMAIN EdgeFields : ExportJson(filter)
    <3>1. PICK filter : ExportJson(filter)
      BY <2>2
    <3>2. /\ items'.format = "json" /\ items'.filter = filter
          /\ items'.nodes = JsonNodes(source, filter) /\ items'.edges = JsonEdges(source, filter)
      BY <3>1 DEF ExportJson
    <3>3. IsSeq(items'.nodes) /\ IsSeq(items'.edges)
      BY <3>2, FilesAreSeqs DEF Restoring
    <3> QED
      BY <1>1, <3>2, <3>3 DEF FromSource
  <2> QED
    BY <2>1, <2>2 DEF Export
<1> QED
  BY <1>1, <1>2 DEF Restoring

LEMMA RestoringStart == ASSUME Restoring, StartImport PROVE Restoring'
<1>1. /\ source' = source /\ items' = items /\ target' = target
      /\ job'.phase = "import" /\ job'.imports = job.imports + 1 /\ DOMAIN job' = DOMAIN Resting(0)
      /\ job'.nodes = NodeRows /\ job'.edges = EdgeRows
  BY DEF StartImport, Resting, NodeRows, EdgeRows
<1>2. FromSource' /\ NodeRows' = NodeRows /\ EdgeRows' = EdgeRows
  BY <1>1, RowsStay DEF Restoring, FromSource
<1>3. ASSUME job.imports = 0 PROVE Progress(target, NodeRows, EdgeRows, NodeRows, EdgeRows)
  <2>1. WellFormed(target) /\ Databases(target)
    BY <1>3, SoundSource DEF Restoring
  <2>2. /\ Len(target.nodes) \in Nat /\ DOMAIN target.nodes = 1 .. Len(target.nodes)
        /\ Len(target.edges) \in Nat /\ DOMAIN target.edges = 1 .. Len(target.edges)
    BY <2>1, SeqShape DEF Databases
  <2>3. IsSeq(NodeRows) /\ IsSeq(EdgeRows) /\ Len(NodeRows) \in Nat /\ Len(EdgeRows) \in Nat
    BY RowsShape, SeqShape DEF Restoring
  <2>4. Left(NodeRows, NodeRows) /\ Left(EdgeRows, EdgeRows)
    <3>1. \A k : Len(NodeRows) - Len(NodeRows) + k = 0 + k /\ Len(EdgeRows) - Len(EdgeRows) + k = 0 + k
      BY <2>3
    <3>2. DOMAIN NodeRows = 1 .. Len(NodeRows) /\ DOMAIN EdgeRows = 1 .. Len(EdgeRows)
      BY <2>3, SeqShape
    <3> QED
      BY <2>3, <3>1, <3>2 DEF Left
  <2>5. ASSUME Len(target.nodes) = Len(NodeRows) - Len(NodeRows)
        PROVE  DOMAIN target.nodes = {} /\ DOMAIN target.edges = {} /\ Len(target.edges) = 0
    <3>1. DOMAIN target.nodes = {}
      BY <2>2, <2>3, <2>5
    <3>2. ASSUME NEW k \in DOMAIN target.edges PROVE FALSE
      <4>1. target.edges[k] \in Range(target.edges)
        BY DEF Range
      <4>2. target.edges[k].from \in DOMAIN target.nodes
        BY <2>1, <4>1 DEF WellFormed
      <4> QED
        BY <3>1, <4>2
    <3>3. Len(target.edges) = 0
      <4>1. 1 \notin DOMAIN target.edges
        BY <3>2
      <4> QED
        BY <2>2, <4>1
    <3> QED
      BY <3>1, <3>2, <3>3
  <2> QED
    BY <2>3, <2>4, <2>5 DEF Progress
<1>4. job'.imports \in Nat /\ job'.imports # 0 /\ (job'.imports = 1 => job.imports = 0)
  BY <1>1 DEF Restoring
<1>5. job'.imports = 1 => Progress(target', job'.nodes, job'.edges, NodeRows', EdgeRows')
  BY <1>1, <1>2, <1>3, <1>4
<1> QED
  BY <1>1, <1>2, <1>4, <1>5 DEF Restoring

LEMMA RestoringNode == ASSUME Joined, Restoring, ImportNode PROVE Restoring'
<1> DEFINE row == Head(job.nodes)
           new == [type |-> row.type, props |-> row.props, labels |-> {}]
<1>1. target' = [target EXCEPT !.nodes = Append(target.nodes, new)]
  BY DEF ImportNode
<1>2. /\ source' = source /\ items' = items /\ job.phase = "import" /\ job.nodes # <<>>
      /\ job'.phase = "import" /\ job'.imports = job.imports /\ DOMAIN job' = DOMAIN job
      /\ job'.nodes = Tail(job.nodes) /\ job'.edges = job.edges
  BY DEF ImportNode, Restoring, Resting
<1>3. new.type = row.type /\ new.props = row.props
  OBVIOUS
<1> HIDE DEF new
<1>4. target'.nodes = Append(target.nodes, new) /\ target'.edges = target.edges
  BY <1>1 DEF Joined, Databases
<1>5. FromSource' /\ NodeRows' = NodeRows /\ EdgeRows' = EdgeRows
  BY <1>2, RowsStay DEF Restoring, FromSource
<1>6. ASSUME job.imports = 1 PROVE Progress(target', job'.nodes, job'.edges, NodeRows, EdgeRows)
  <2>1. Progress(target, job.nodes, job.edges, NodeRows, EdgeRows)
    BY <1>2, <1>6 DEF Restoring
  <2>2. IsSeq(NodeRows)
    BY RowsShape DEF Restoring
  <2>3. /\ Left(Tail(job.nodes), NodeRows) /\ Len(Tail(job.nodes)) = Len(job.nodes) - 1
        /\ row = NodeRows[Len(NodeRows) - Len(job.nodes) + 1]
        /\ Len(job.nodes) \in Nat /\ Len(NodeRows) \in Nat
    BY <1>2, <2>1, <2>2, LeftTail DEF Progress
  <2>4. Left(job.edges, EdgeRows)
    BY <2>1 DEF Progress
  <2>5. IsSeq(target.nodes) /\ DOMAIN target.nodes = 1 .. Len(target.nodes) /\ Len(target.nodes) \in Nat
    BY SeqShape DEF Joined, Databases
  <2>6. /\ DOMAIN target'.nodes = 1 .. (Len(target.nodes) + 1) /\ target'.nodes[Len(target.nodes) + 1] = new
        /\ \A k \in DOMAIN target.nodes : target'.nodes[k] = target.nodes[k]
        /\ IsSeq(target'.nodes)
    BY <1>4, <2>5, Appended
  <2>7. Len(target'.nodes) = Len(target.nodes) + 1
    BY <1>4, <2>5 DEF IsSeq
  <2>8. ASSUME Len(target'.nodes) = Len(NodeRows) - Len(Tail(job.nodes))
        PROVE  /\ \A k \in DOMAIN target'.nodes : Copied(target'.nodes[k], NodeRows[k])
               /\ Len(target.edges) = Len(EdgeRows) - Len(job.edges)
               /\ \A k \in DOMAIN target.edges : Drawn(target.edges[k], EdgeRows[k], target'.nodes)
    <3>1. Len(target.nodes) = Len(NodeRows) - Len(job.nodes)
      <4> DEFINE a == Len(target.nodes)
                 b == Len(NodeRows)
                 c == Len(job.nodes)
      <4>1. a \in Nat /\ b \in Nat /\ c \in Nat /\ a + 1 = b - (c - 1)
        BY <2>3, <2>5, <2>7, <2>8, Zenon
      <4> HIDE DEF a, b, c
      <4>2. a = b - c
        BY <4>1
      <4> QED
        BY <4>2 DEF a, b, c
    <3>2. /\ \A k \in DOMAIN target.nodes : Copied(target.nodes[k], NodeRows[k])
          /\ Len(target.edges) = Len(EdgeRows) - Len(job.edges)
          /\ \A k \in DOMAIN target.edges : Drawn(target.edges[k], EdgeRows[k], target.nodes)
      BY <2>1, <3>1 DEF Progress
    <3>3. Copied(new, NodeRows[Len(target.nodes) + 1])
      BY <1>3, <2>3, <3>1 DEF Copied
    <3>4. ASSUME NEW k \in DOMAIN target'.nodes PROVE Copied(target'.nodes[k], NodeRows[k])
      <4>1. k \in DOMAIN target.nodes \/ k = Len(target.nodes) + 1
        BY <2>5, <2>6
      <4> QED
        BY <2>6, <3>2, <3>3, <4>1
    <3>5. ASSUME NEW k, NEW id, HasId(target.nodes, k, id) PROVE HasId(target'.nodes, k, id)
      <4>1. k \in DOMAIN target'.nodes
        BY <2>5, <2>6, <3>5 DEF HasId
      <4> QED
        BY <2>6, <3>5, <4>1 DEF HasId
    <3>6. \A k \in DOMAIN target.edges : Drawn(target.edges[k], EdgeRows[k], target'.nodes)
      BY <3>2, <3>5 DEF Drawn
    <3> QED
      BY <3>2, <3>4, <3>6
  <2> QED
    BY <1>2, <1>4, <2>3, <2>4, <2>8 DEF Progress
<1> QED
  BY <1>2, <1>5, <1>6 DEF Restoring

LEMMA RestoringEdge == ASSUME Joined, Restoring, ImportEdge PROVE Restoring'
<1> DEFINE row == Head(job.edges)
           new == EdgeMade(row)
<1>1. target' = [target EXCEPT !.edges = Append(target.edges, new)]
  BY DEF ImportEdge
<1>2. /\ source' = source /\ items' = items /\ job.phase = "import" /\ job.edges # <<>>
      /\ job'.phase = "import" /\ job'.imports = job.imports /\ DOMAIN job' = DOMAIN job
      /\ job'.nodes = job.nodes /\ job'.edges = Tail(job.edges)
      /\ row.from \in DOMAIN job.known /\ row.to \in DOMAIN job.known
  BY DEF ImportEdge, Restoring, Resting, EdgeFits
<1>3. Drawn(new, row, target.nodes)
  <2>1. HasId(target.nodes, job.known[row.from], row.from) /\ HasId(target.nodes, job.known[row.to], row.to)
    BY <1>2 DEF Joined, KnowsRight
  <2> QED
    BY <2>1 DEF Drawn, EdgeMade
<1> HIDE DEF new, row
<1>4. target'.edges = Append(target.edges, new) /\ target'.nodes = target.nodes
  BY <1>1 DEF Joined, Databases
<1>5. FromSource' /\ NodeRows' = NodeRows /\ EdgeRows' = EdgeRows
  BY <1>2, RowsStay DEF Restoring, FromSource
<1>6. ASSUME job.imports = 1 PROVE Progress(target', job'.nodes, job'.edges, NodeRows, EdgeRows)
  <2>1. Progress(target, job.nodes, job.edges, NodeRows, EdgeRows)
    BY <1>2, <1>6 DEF Restoring
  <2>2. IsSeq(EdgeRows)
    BY RowsShape DEF Restoring
  <2>3. /\ Left(Tail(job.edges), EdgeRows) /\ Len(Tail(job.edges)) = Len(job.edges) - 1
        /\ row = EdgeRows[Len(EdgeRows) - Len(job.edges) + 1]
        /\ Len(job.edges) \in Nat /\ Len(EdgeRows) \in Nat
    BY <1>2, <2>1, <2>2, LeftTail DEF Progress, row
  <2>4. Left(job.nodes, NodeRows)
    BY <2>1 DEF Progress
  <2>5. IsSeq(target.edges) /\ DOMAIN target.edges = 1 .. Len(target.edges) /\ Len(target.edges) \in Nat
    BY SeqShape DEF Joined, Databases
  <2>6. /\ DOMAIN target'.edges = 1 .. (Len(target.edges) + 1) /\ target'.edges[Len(target.edges) + 1] = new
        /\ \A k \in DOMAIN target.edges : target'.edges[k] = target.edges[k]
    BY <1>4, <2>5, Appended
  <2>7. Len(target'.edges) = Len(target.edges) + 1
    BY <1>4, <2>5 DEF IsSeq
  <2>8. ASSUME Len(target.nodes) = Len(NodeRows) - Len(job.nodes)
        PROVE  /\ \A k \in DOMAIN target.nodes : Copied(target.nodes[k], NodeRows[k])
               /\ Len(target'.edges) = Len(EdgeRows) - Len(Tail(job.edges))
               /\ \A k \in DOMAIN target'.edges : Drawn(target'.edges[k], EdgeRows[k], target.nodes)
    <3>1. /\ \A k \in DOMAIN target.nodes : Copied(target.nodes[k], NodeRows[k])
          /\ Len(target.edges) = Len(EdgeRows) - Len(job.edges)
          /\ \A k \in DOMAIN target.edges : Drawn(target.edges[k], EdgeRows[k], target.nodes)
      BY <2>1, <2>8 DEF Progress
    <3>2. Drawn(new, EdgeRows[Len(target.edges) + 1], target.nodes)
      BY <1>3, <2>3, <3>1
    <3>3. ASSUME NEW k \in DOMAIN target'.edges PROVE Drawn(target'.edges[k], EdgeRows[k], target.nodes)
      <4>1. k \in DOMAIN target.edges \/ k = Len(target.edges) + 1
        BY <2>5, <2>6
      <4> QED
        BY <2>6, <3>1, <3>2, <4>1
    <3>4. Len(target'.edges) = Len(EdgeRows) - Len(Tail(job.edges))
      <4> DEFINE a == Len(target.edges)
                 b == Len(EdgeRows)
                 c == Len(job.edges)
      <4>1. a \in Nat /\ b \in Nat /\ c \in Nat /\ a = b - c
        BY <2>3, <2>5, <3>1, Zenon
      <4> HIDE DEF a, b, c
      <4>2. a + 1 = b - (c - 1)
        BY <4>1
      <4> QED
        BY <2>3, <2>7, <4>2, Zenon DEF a, b, c
    <3> QED
      BY <3>1, <3>3, <3>4
  <2> QED
    BY <1>2, <1>4, <2>3, <2>4, <2>8 DEF Progress
<1> QED
  BY <1>2, <1>5, <1>6 DEF Restoring

LEMMA RestoringStep == Joined /\ Restoring /\ [TransferNext]_xferVars => Restoring'
<1> SUFFICES ASSUME Joined, Restoring, [TransferNext]_xferVars PROVE Restoring'
  OBVIOUS
<1>1. CASE Export
  BY <1>1, RestoringExport
<1>2. CASE StartImport
  BY <1>2, RestoringStart
<1>3. CASE ImportNode
  BY <1>3, RestoringNode
<1>4. CASE ImportEdge
  BY <1>4, RestoringEdge
<1>5. CASE Refused \/ Killed
  <2>1. /\ source' = source /\ items' = items /\ target' = target
        /\ DOMAIN job' = DOMAIN Resting(0) /\ job'.phase = "idle" /\ job'.imports = job.imports
    BY <1>5 DEF Refused, Killed, Resting
  <2>2. FromSource'
    BY <2>1 DEF Restoring, FromSource
  <2> QED
    BY <2>1, <2>2 DEF Restoring
<1>6. CASE Flush
  <2>1. /\ source' = source /\ items' = items /\ target' = target
        /\ DOMAIN job' = DOMAIN job /\ job'.phase = "done" /\ job'.imports = job.imports
        /\ job.phase = "import" /\ job'.nodes = job.nodes /\ job'.edges = job.edges
        /\ job.nodes = <<>> /\ job.edges = <<>>
    BY <1>6 DEF Flush, Restoring, Resting
  <2>2. FromSource' /\ NodeRows' = NodeRows /\ EdgeRows' = EdgeRows
    BY <2>1, RowsStay DEF Restoring, FromSource
  <2> QED
    BY <2>1, <2>2 DEF Restoring
<1>7. CASE UNCHANGED xferVars
  <2>1. /\ source' = source /\ items' = items /\ target' = target /\ job' = job
    BY <1>7 DEF xferVars
  <2>2. FromSource' /\ NodeRows' = NodeRows /\ EdgeRows' = EdgeRows
    BY <2>1, RowsStay DEF Restoring, FromSource
  <2> QED
    BY <2>1, <2>2 DEF Restoring
<1> QED
  BY <1>1, <1>2, <1>3, <1>4, <1>5, <1>6, <1>7 DEF TransferNext

\* What a list of nodes is: the places wanted, in order.
LEMMA NodesListed ==
  ASSUME NEW d \in Sources, NEW filter
  PROVE  /\ Len(ListNodes(d, filter)) \in Nat /\ DOMAIN ListNodes(d, filter) = 1 .. Len(ListNodes(d, filter))
         /\ \A k \in DOMAIN ListNodes(d, filter) :
               /\ ListNodes(d, filter)[k] \in DOMAIN d.nodes
               /\ filter \in DOMAIN NodeFields => d.nodes[ListNodes(d, filter)[k]].type = filter
         /\ filter \notin DOMAIN NodeFields => ListNodes(d, filter) = [k \in DOMAIN d.nodes |-> k]
<1>1. /\ Len(d.nodes) \in Nat /\ DOMAIN d.nodes = 1 .. Len(d.nodes)
  BY SoundSource, SeqShape DEF Databases
<1> DEFINE N == {k \in DOMAIN d.nodes : filter \in DOMAIN NodeFields => d.nodes[k].type = filter}
<1>2. N \in SUBSET Nat /\ IsFiniteSet(N)
  <2>1. IsFiniteSet(1 .. Len(d.nodes))
    BY <1>1, FirstFinite
  <2>2. N \in SUBSET (1 .. Len(d.nodes))
    BY <1>1
  <2> HIDE DEF N
  <2>3. IsFiniteSet(N)
    BY <2>1, <2>2, FS_Subset
  <2> QED
    BY <1>1, <2>2, <2>3
<1>3. ListNodes(d, filter) = Scan(N)
  BY DEF ListNodes
<1>4. \A k \in N : k \in DOMAIN d.nodes /\ (filter \in DOMAIN NodeFields => d.nodes[k].type = filter)
  OBVIOUS
<1>5. filter \notin DOMAIN NodeFields => N = 1 .. Len(d.nodes)
  BY <1>1
<1> HIDE DEF N
<1>6. Cardinality(N) \in Nat /\ Len(Scan(N)) = Cardinality(N) /\ DOMAIN Scan(N) = 1 .. Cardinality(N)
  BY <1>2, ScanVisits
<1>7. \A k \in DOMAIN Scan(N) : Scan(N)[k] \in N
  BY <1>2, <1>6, ScanVisits
<1>8. filter \notin DOMAIN NodeFields => Scan(N) = [k \in DOMAIN d.nodes |-> k]
  BY <1>1, <1>5, ScanAll
<1> QED
  BY <1>3, <1>4, <1>6, <1>7, <1>8

LEMMA EdgesListed ==
  ASSUME NEW d \in Sources
  PROVE  ListEdges(d, Everything) = d.edges
<1>1. IsSeq(d.edges) /\ Len(d.edges) \in Nat /\ DOMAIN d.edges = 1 .. Len(d.edges)
  BY SoundSource, SeqShape DEF Databases
<1> DEFINE E == {k \in DOMAIN d.edges : Everything = Everything \/ d.edges[k].type = Everything}
<1>2. E = 1 .. Len(d.edges)
  BY <1>1
<1>3. ListEdges(d, Everything) = [k \in DOMAIN Scan(E) |-> d.edges[Scan(E)[k]]]
  BY DEF ListEdges
<1>4. Scan(E) = [k \in 1 .. Len(d.edges) |-> k]
  BY <1>1, <1>2, ScanAll
<1>5. d.edges = [k \in 1 .. Len(d.edges) |-> d.edges[k]]
  BY <1>1 DEF IsSeq
<1> HIDE DEF E
<1> QED
  BY <1>3, <1>4, <1>5

\* A cell reads as the value it was written from.
LEMMA CellReadsBack ==
  ASSUME NEW v, v = <<v[1], v[2]>>, v[1] \in {"string", "null", "object"} \/ Readback(v),
         PlainCell(v), v[1] \notin {"null", "object"}
  PROVE  Infer(CellOf(v)) = v
<1>1. CASE v[1] = "string"
  <2>1. CellOf(v) = v[2] /\ v[2] \notin DOMAIN Inferred
    BY <1>1 DEF CellOf, PlainCell
  <2> QED
    BY <1>1, <2>1 DEF Infer, Str
<1>2. CASE v[1] # "string"
  <2>1. Readback(v)
    BY <1>2
  <2>2. CellOf(v) = TextOf[v]
    BY <1>2 DEF CellOf
  <2> QED
    BY <2>1, <2>2 DEF Readback, Infer
<1> QED
  BY <1>1, <1>2

\* The rows of such a file are the nodes listed.
LEMMA RowsOfNodes ==
  ASSUME source \in Sources, FromSource, KeepsAll(source, items)
  PROVE  /\ DOMAIN NodeRows = DOMAIN ListNodes(source, items.filter)
         /\ \A k \in DOMAIN NodeRows : Copied(source.nodes[ListNodes(source, items.filter)[k]], NodeRows[k])
<1> DEFINE L == ListNodes(source, items.filter)
<1>1. \A k \in DOMAIN L : L[k] \in DOMAIN source.nodes
  BY NodesListed
<1>2. CASE items.format = "json"
  <2>1. items.nodes = [k \in DOMAIN L |-> [type |-> source.nodes[L[k]].type, props |-> source.nodes[L[k]].props]]
    BY <1>2 DEF FromSource, JsonNodes
  <2> HIDE DEF L
  <2>2. \A k \in DOMAIN L : NodeRows[k].type = source.nodes[L[k]].type /\ NodeRows[k].props = source.nodes[L[k]].props
    BY <1>2, <2>1 DEF NodeRows, Row, RowProps
  <2>3. DOMAIN NodeRows = DOMAIN L
    BY <2>1 DEF NodeRows
  <2> QED
    BY <2>2, <2>3 DEF L, Copied
<1>3. CASE /\ items.format = "csv" /\ items.filter \in DOMAIN NodeFields
           /\ \A r, s \in {source.nodes[k] : k \in ToSet(L)} : DOMAIN s.props = DOMAIN r.props
           /\ \A r \in {source.nodes[k] : k \in ToSet(L)} : \A key \in DOMAIN r.props :
                  PlainCell(r.props[key]) /\ r.props[key][1] \notin {"null", "object"}
  <2> DEFINE records == [k \in DOMAIN L |-> source.nodes[L[k]]]
  <2>1. items.nodes = [k \in DOMAIN records |-> [type |-> items.filter, cells |-> Cells(records[k].props, HeaderOf(records))]]
    BY <1>3 DEF FromSource, CsvNodes
  <2>2. DOMAIN NodeRows = DOMAIN L
    BY <2>1 DEF NodeRows
  <2>3. ASSUME NEW k \in DOMAIN L PROVE Copied(source.nodes[L[k]], NodeRows[k])
    <3> DEFINE n == source.nodes[L[k]]
    <3>1. n \in Range(source.nodes) /\ n.type = items.filter
      BY <1>1, <1>3, NodesListed DEF Range
    <3>2. \A h \in DOMAIN L : source.nodes[L[h]] \in {source.nodes[g] : g \in ToSet(L)}
      BY DEF ToSet
    <3>3. 1 \in DOMAIN L
      <4>1. Len(L) \in Nat /\ DOMAIN L = 1 .. Len(L)
        BY NodesListed
      <4> HIDE DEF L
      <4> QED
        BY <4>1
    <3>4. HeaderOf(records) = DOMAIN n.props
      <4>1. records # <<>>
        <5>1. DOMAIN records # {}
          BY <3>3
        <5> HIDE DEF records
        <5>2. DOMAIN <<>> = {}
          OBVIOUS
        <5> QED
          BY <5>1, <5>2
      <4>2. records[1] = source.nodes[L[1]]
        BY <3>3
      <4>3. HeaderOf(records) = DOMAIN source.nodes[L[1]].props
        <5> HIDE DEF records
        <5> QED
          BY <4>1, <4>2 DEF HeaderOf
      <4> HIDE DEF records, L
      <4> QED
        BY <1>3, <3>2, <3>3, <4>3
    <3>5. items.nodes[k].type = items.filter /\ items.nodes[k].cells = Cells(n.props, DOMAIN n.props)
      BY <2>1, <3>4
    <3>6. /\ n.props = [key \in DOMAIN n.props |-> n.props[key]]
          /\ \A v \in Range(n.props) : v = <<v[1], v[2]>> /\ (v[1] \in {"string", "null", "object"} \/ Readback(v))
      <4>1. WellFormed(source)
        BY SoundSource
      <4> HIDE DEF n
      <4> QED
        BY <3>1, <4>1, Zenon DEF WellFormed
    <3>7. \A key \in DOMAIN n.props : PlainCell(n.props[key]) /\ n.props[key][1] \notin {"null", "object"}
      BY <1>3, <3>2
    <3> HIDE DEF n, records
    <3>8. ASSUME NEW key \in DOMAIN n.props PROVE Infer(CellOf(n.props[key])) = n.props[key]
      <4>1. n.props[key] \in Range(n.props)
        BY DEF Range
      <4> DEFINE v == n.props[key]
      <4>2. v = <<v[1], v[2]>> /\ (v[1] \in {"string", "null", "object"} \/ Readback(v)) /\ PlainCell(v) /\ v[1] \notin {"null", "object"}
        BY <3>6, <3>7, <4>1
      <4> HIDE DEF v
      <4>3. Infer(CellOf(v)) = v
        BY <4>2, CellReadsBack
      <4> QED
        BY <4>3 DEF v
    <3>9. RowProps(items.nodes[k]) = [key \in DOMAIN n.props |-> Infer(CellOf(n.props[key]))]
      <4>1. items.nodes[k].cells = [key \in DOMAIN n.props |-> CellOf(n.props[key])]
        BY <3>5 DEF Cells
      <4>2. items.format # "json"
        BY <1>3
      <4> QED
        BY <4>1, <4>2 DEF RowProps
    <3>10. RowProps(items.nodes[k]) = n.props
      BY <3>6, <3>8, <3>9
    <3>11. NodeRows[k] = [type |-> items.nodes[k].type, props |-> RowProps(items.nodes[k])]
      BY <2>2 DEF NodeRows, Row
    <3> QED
      BY <3>1, <3>5, <3>10, <3>11 DEF Copied, n
  <2> QED
    BY <2>2, <2>3
<1> QED
  BY <1>2, <1>3 DEF KeepsAll

\* The rows of edges name the ends by their ids.
LEMMA RowsOfEdges ==
  ASSUME source \in Sources, FromSource, items.format = "json", items.filter = Everything,
         \A k \in DOMAIN source.nodes : IdOf(source.nodes[k].props) # <<>>
  PROVE  /\ DOMAIN EdgeRows = DOMAIN source.edges
         /\ \A k \in DOMAIN source.edges :
               /\ EdgeRows[k].type = source.edges[k].type /\ EdgeRows[k].props = source.edges[k].props
               /\ IdOf(source.nodes[source.edges[k].from].props) = <<EdgeRows[k].from>>
               /\ IdOf(source.nodes[source.edges[k].to].props) = <<EdgeRows[k].to>>
<1> DEFINE L == ListNodes(source, Everything)
           end(place) == IF place \in ToSet(L) THEN EndOr(IdOf(source.nodes[place].props), "") ELSE ""
           row(e) == [type |-> e.type, from |-> end(e.from), to |-> end(e.to), props |-> e.props]
<1>1. items.edges = [k \in DOMAIN source.edges |-> row(source.edges[k])]
  BY EdgesListed DEF FromSource, JsonEdges
<1>2. L = [k \in DOMAIN source.nodes |-> k]
  BY NodesListed, TransferAssumption
<1>3. ToSet(L) = DOMAIN source.nodes
  BY <1>2 DEF ToSet
<1>4. ASSUME NEW place \in DOMAIN source.nodes PROVE IdOf(source.nodes[place].props) = <<end(place)>>
  <2>1. end(place) = EndOr(IdOf(source.nodes[place].props), "")
    BY <1>3
  <2> QED
    BY <2>1 DEF IdOf, EndOr
<1> HIDE DEF end
<1>5. ASSUME NEW k \in DOMAIN source.edges
      PROVE  /\ EdgeRows[k].type = source.edges[k].type /\ EdgeRows[k].props = source.edges[k].props
             /\ EdgeRows[k].from = end(source.edges[k].from) /\ EdgeRows[k].to = end(source.edges[k].to)
  <2>1. items.edges[k] = row(source.edges[k])
    BY <1>1
  <2>2. EdgeRows[k] = EdgeRow(row(source.edges[k]))
    BY <1>1, <2>1 DEF EdgeRows
  <2> QED
    BY <2>2 DEF EdgeRow, RowProps
<1>6. ASSUME NEW k \in DOMAIN source.edges
      PROVE  source.edges[k].from \in DOMAIN source.nodes /\ source.edges[k].to \in DOMAIN source.nodes
  <2>1. source.edges[k] \in Range(source.edges)
    BY DEF Range
  <2> QED
    BY <2>1, SoundSource DEF WellFormed
<1>7. DOMAIN EdgeRows = DOMAIN source.edges
  BY <1>1 DEF EdgeRows
<1> QED
  BY <1>4, <1>5, <1>6, <1>7

LEMMA RestoringGives == Joined /\ Restoring => ImportRestores
<1> SUFFICES ASSUME Joined, Restoring, job.phase = "done", job.imports = 1, Len(target.nodes) = Len(items.nodes),
                    KeepsAll(source, items)
             PROVE  /\ Plain(target.nodes)
                         = Plain([k \in DOMAIN ListNodes(source, items.filter) |-> source.nodes[ListNodes(source, items.filter)[k]]])
                    /\ items.format = "json" => target.edges = source.edges
  BY DEF ImportRestores
<1> DEFINE L == ListNodes(source, items.filter)
<1>1. source \in Sources /\ FromSource /\ Progress(target, <<>>, <<>>, NodeRows, EdgeRows)
  BY DEF Restoring
<1>2. Len(<<>>) = 0 /\ Len(NodeRows) = Len(items.nodes) /\ Len(NodeRows) \in Nat /\ Len(EdgeRows) \in Nat
  BY <1>1, RowsShape, SeqShape
<1>3. /\ \A k \in DOMAIN target.nodes : Copied(target.nodes[k], NodeRows[k])
      /\ Len(target.edges) = Len(EdgeRows)
      /\ \A k \in DOMAIN target.edges : Drawn(target.edges[k], EdgeRows[k], target.nodes)
  BY <1>1, <1>2 DEF Progress
<1>4. /\ IsSeq(target.nodes) /\ DOMAIN target.nodes = DOMAIN NodeRows
      /\ IsSeq(target.edges) /\ DOMAIN target.edges = DOMAIN EdgeRows
  <2>1. /\ DOMAIN target.nodes = 1 .. Len(target.nodes) /\ DOMAIN target.edges = 1 .. Len(target.edges)
    BY SeqShape DEF Joined, Databases
  <2>2. DOMAIN NodeRows = 1 .. Len(NodeRows) /\ DOMAIN EdgeRows = 1 .. Len(EdgeRows)
    BY <1>1, RowsShape, SeqShape
  <2> QED
    BY <1>2, <1>3, <2>1, <2>2 DEF Joined, Databases
<1>5. /\ DOMAIN NodeRows = DOMAIN L
      /\ \A k \in DOMAIN NodeRows : Copied(source.nodes[L[k]], NodeRows[k])
  BY <1>1, RowsOfNodes
<1>6. \A k \in DOMAIN L : target.nodes[k].type = source.nodes[L[k]].type /\ target.nodes[k].props = source.nodes[L[k]].props
  BY <1>3, <1>4, <1>5 DEF Copied
<1>7. Plain(target.nodes) = Plain([k \in DOMAIN L |-> source.nodes[L[k]]])
  <2> HIDE DEF L
  <2>1. DOMAIN target.nodes = DOMAIN L
    BY <1>4, <1>5
  <2> QED
    BY <1>6, <2>1 DEF Plain
<1>8. ASSUME items.format = "json" PROVE target.edges = source.edges
  <2>1. /\ items.filter = Everything
        /\ \A h, k \in DOMAIN source.nodes :
              /\ IdOf(source.nodes[h].props) # <<>>
              /\ h # k => IdOf(source.nodes[h].props) # IdOf(source.nodes[k].props)
    BY <1>8 DEF KeepsAll
  <2>2. L = [k \in DOMAIN source.nodes |-> k]
    BY <1>1, <2>1, NodesListed, TransferAssumption
  <2> HIDE DEF L
  <2>3. DOMAIN target.nodes = DOMAIN source.nodes /\ \A k \in DOMAIN target.nodes : target.nodes[k].props = source.nodes[k].props
    <3>1. DOMAIN L = DOMAIN source.nodes /\ \A k \in DOMAIN source.nodes : L[k] = k
      BY <2>2
    <3> QED
      BY <1>4, <1>5, <1>6, <3>1
  <2>4. /\ DOMAIN EdgeRows = DOMAIN source.edges
        /\ \A k \in DOMAIN source.edges :
              /\ EdgeRows[k].type = source.edges[k].type /\ EdgeRows[k].props = source.edges[k].props
              /\ IdOf(source.nodes[source.edges[k].from].props) = <<EdgeRows[k].from>>
              /\ IdOf(source.nodes[source.edges[k].to].props) = <<EdgeRows[k].to>>
    BY <1>1, <1>8, <2>1, RowsOfEdges
  <2>5. ASSUME NEW place, NEW other \in DOMAIN source.nodes, NEW id, HasId(target.nodes, place, id),
               IdOf(source.nodes[other].props) = <<id>>
        PROVE  place = other
    <3>1. place \in DOMAIN source.nodes /\ IdOf(source.nodes[place].props) = <<id>>
      BY <2>3, <2>5 DEF HasId
    <3> QED
      BY <2>1, <2>5, <3>1
  <2>6. ASSUME NEW k \in DOMAIN source.edges PROVE target.edges[k] = source.edges[k]
    <3> DEFINE e == source.edges[k]
               t == target.edges[k]
               row == EdgeRows[k]
    <3>1. e \in Range(source.edges)
      BY DEF Range
    <3>2. e = [type |-> e.type, from |-> e.from, to |-> e.to, props |-> e.props] /\ e.from \in DOMAIN source.nodes /\ e.to \in DOMAIN source.nodes
      <4>1. WellFormed(source)
        BY <1>1, SoundSource
      <4> HIDE DEF e
      <4> QED
        BY <3>1, <4>1 DEF WellFormed
    <3>3. Drawn(t, row, target.nodes)
      BY <1>3, <1>4, <2>4
    <3>4. row.type = e.type /\ row.props = e.props
      BY <2>4
    <3>5. t.from = e.from
      <4>1. HasId(target.nodes, t.from, row.from) /\ IdOf(source.nodes[e.from].props) = <<row.from>>
        BY <2>4, <3>3 DEF Drawn
      <4> QED
        BY <2>5, <3>2, <4>1
    <3>6. t.to = e.to
      <4>1. HasId(target.nodes, t.to, row.to) /\ IdOf(source.nodes[e.to].props) = <<row.to>>
        BY <2>4, <3>3 DEF Drawn
      <4> QED
        BY <2>5, <3>2, <4>1
    <3>7. t = [type |-> row.type, from |-> t.from, to |-> t.to, props |-> row.props]
      BY <3>3, Zenon DEF Drawn
    <3> HIDE DEF t, e, row
    <3>8. t = e
      BY <3>2, <3>4, <3>5, <3>6, <3>7
    <3> QED
      BY <3>8 DEF t, e
  <2>7. IsSeq(source.edges)
    BY <1>1, SoundSource DEF Databases
  <2>8. DOMAIN target.edges = DOMAIN source.edges
    BY <1>4, <2>4
  <2>9. target.edges = [k \in DOMAIN target.edges |-> target.edges[k]] /\ source.edges = [k \in DOMAIN source.edges |-> source.edges[k]]
    BY <1>4, <2>7 DEF IsSeq
  <2> QED
    BY <2>6, <2>8, <2>9
<1> QED
  BY <1>7, <1>8

\* A first import that ends, into a database without nodes, has restored the records of the source
\* that the file kept: JSON all of them, if every node has an id of its own, CSV the nodes of a
\* type with values that their text gives back (export.rs, import.rs).
THEOREM FilesRestore == TransferSpec => []ImportRestores
BY JoinedInit, JoinedStep, RestoringInit, RestoringStep, RestoringGives, PTL DEF TransferSpec

-----------------------------------------------------------------------------
(* Pathfinding: what is reached in so many hops. *)

\* One hop further along the edges of E.
Hop(B, E) == B \cup {m \in Nodes : \E b \in B, e \in E : Leads(b, e, m)}

\* f has what is reached from n in up to K hops.
Hops(f, n, K, E) == f = [l \in 0 .. K |-> IF l = 0 THEN {n} ELSE Hop(f[l - 1], E)]

LEMMA HopsExist ==
  ASSUME NEW n, NEW E
  PROVE  \A K \in Nat : \E f : Hops(f, n, K, E)
<1> DEFINE T == {K \in Nat : \E f : Hops(f, n, K, E)}
<1>1. 0 \in T
  <2> DEFINE f == [l \in 0 .. 0 |-> {n}]
  <2>1. f = [l \in 0 .. 0 |-> IF l = 0 THEN {n} ELSE Hop(f[l - 1], E)]
    OBVIOUS
  <2> HIDE DEF f
  <2> QED
    BY <2>1 DEF Hops
<1>2. ASSUME NEW K \in Nat, K \in T PROVE K + 1 \in T
  <2>1. PICK f : Hops(f, n, K, E)
    BY <1>2
  <2> HIDE DEF T
  <2>2. f = [l \in 0 .. K |-> IF l = 0 THEN {n} ELSE Hop(f[l - 1], E)]
    BY <2>1 DEF Hops
  <2>0. ASSUME NEW k \in 0 .. K, k # 0 PROVE f[k] = Hop(f[k - 1], E)
    BY <2>0, <2>2
  <2> DEFINE g == [l \in 0 .. (K + 1) |-> IF l <= K THEN f[l] ELSE Hop(f[K], E)]
             h == [l \in 0 .. (K + 1) |-> IF l = 0 THEN {n} ELSE Hop(g[l - 1], E)]
  <2>3. ASSUME NEW l \in 0 .. (K + 1) PROVE g[l] = h[l]
    <3>1. CASE l = 0
      BY <2>2, <3>1
    <3>2. CASE l # 0 /\ l <= K
      <4>1. g[l] = f[l] /\ g[l - 1] = f[l - 1]
        BY <3>2
      <4>2. f[l] = Hop(f[l - 1], E)
        <5>1. l \in 0 .. K
          BY <3>2
        <5> QED
          BY <2>0, <3>2, <5>1
      <4>3. h[l] = Hop(g[l - 1], E)
        BY <3>2
      <4> QED
        BY <4>1, <4>2, <4>3
    <3>3. CASE l = K + 1
      <4>1. g[l] = Hop(f[K], E) /\ g[l - 1] = f[K]
        BY <3>3
      <4>2. h[l] = Hop(g[l - 1], E)
        BY <3>3
      <4> QED
        BY <4>1, <4>2
    <3> QED
      BY <3>1, <3>2, <3>3
  <2>4. g = h
    <3>1. DOMAIN g = 0 .. (K + 1) /\ DOMAIN h = 0 .. (K + 1)
      OBVIOUS
    <3>2. g = [l \in 0 .. (K + 1) |-> g[l]] /\ h = [l \in 0 .. (K + 1) |-> h[l]]
      OBVIOUS
    <3> HIDE DEF g, h
    <3> QED
      BY <2>3, <3>2
  <2>5. Hops(g, n, K + 1, E)
    <3>1. g = [l \in 0 .. (K + 1) |-> IF l = 0 THEN {n} ELSE Hop(g[l - 1], E)]
      BY <2>4
    <3> HIDE DEF g
    <3> QED
      BY <3>1 DEF Hops
  <2> HIDE DEF g, h
  <2> QED
    BY <2>5 DEF T
<1>3. Nat \subseteq T
  <2> HIDE DEF T
  <2> QED
    BY <1>1, <1>2, SetInduction
<1> QED
  BY <1>3

LEMMA BallIs ==
  ASSUME NEW n, NEW K \in Nat
  PROVE  \E f : Hops(f, n, K, Edges) /\ Ball(n, K) = f[K]
<1> DEFINE W == CHOOSE f : Hops(f, n, K, Edges)
<1>1. Hops(W, n, K, Edges)
  BY HopsExist
<1>2. Ball(n, K) = W[K]
  BY DEF Ball, Hops, Hop
<1> QED
  BY <1>1, <1>2

-----------------------------------------------------------------------------
(* Pathfinding: the neighbours of a node are those that an edge leads to. *)

\* A scan from the end visits the same records.
LEMMA ListedVisits ==
  ASSUME NEW S \in SUBSET Nat, IsFiniteSet(S)
  PROVE  IsSeq(Listed(S)) /\ Range(Listed(S)) = S
<1> DEFINE n == Cardinality(S)
           s == Scan(S)
           t == Listed(S)
<1>1. n \in Nat /\ Len(s) = n /\ DOMAIN s = 1 .. n /\ Range(s) = S
  BY ScanVisits
<1>2. t = [k \in 1 .. n |-> s[(n - k) + 1]]
  <2> HIDE DEF s, n
  <2>1. Reverse(s) = [k \in 1 .. n |-> s[(n - k) + 1]]
    BY <1>1 DEF Reverse
  <2> QED
    BY <2>1 DEF Listed, s
<1> HIDE DEF n, s
<1>3. DOMAIN t = 1 .. n /\ t = [k \in 1 .. n |-> t[k]]
  BY <1>2
<1>4. ASSUME NEW k \in 1 .. n PROVE t[k] \in Range(s)
  <2>1. (n - k) + 1 \in DOMAIN s
    BY <1>1
  <2> QED
    BY <1>2, <2>1 DEF Range
<1>5. ASSUME NEW x \in Range(s) PROVE x \in Range(t)
  <2>1. PICK k \in 1 .. n : x = s[k]
    BY <1>1 DEF Range
  <2>2. (n - k) + 1 \in 1 .. n /\ (n - ((n - k) + 1)) + 1 = k
    BY <1>1
  <2>3. t[(n - k) + 1] = s[k]
    BY <1>2, <2>2
  <2> HIDE DEF t
  <2> QED
    BY <1>3, <2>1, <2>2, <2>3 DEF Range
<1> HIDE DEF t
<1>6. IsSeq(t)
  BY <1>1, <1>3, MadeSeq
<1>7. Range(t) = Range(s)
  BY <1>3, <1>4, <1>5 DEF Range
<1> QED
  BY <1>1, <1>6, <1>7 DEF t

\* The list of edges with the nodes they lead to.
LEMMA Paired ==
  ASSUME NEW S \in SUBSET Edges, NEW far
  PROVE  LET fitting == Listed(S)
             s == [k \in DOMAIN fitting |-> <<fitting[k], graph.ends[fitting[k]][far]>>]
         IN  IsSeq(s) /\ Range(s) = {<<e, graph.ends[e][far]>> : e \in S}
<1> DEFINE fitting == Listed(S)
           s == [k \in DOMAIN fitting |-> <<fitting[k], graph.ends[fitting[k]][far]>>]
<1>1. S \in SUBSET Nat /\ IsFiniteSet(S)
  <2>1. Edges \subseteq Nat /\ IsFiniteSet(Edges)
    BY GraphViewAssumption
  <2> QED
    BY <2>1, FS_Subset
<1>2. IsSeq(fitting) /\ Range(fitting) = S
  BY <1>1, ListedVisits
<1>3. Len(fitting) \in Nat /\ DOMAIN fitting = 1 .. Len(fitting)
  BY <1>2, SeqShape
<1> HIDE DEF fitting
<1>4. DOMAIN s = 1 .. Len(fitting) /\ s = [k \in 1 .. Len(fitting) |-> s[k]]
  BY <1>3
<1>5. IsSeq(s)
  <2> HIDE DEF s
  <2> QED
    BY <1>3, <1>4, MadeSeq
<1>6. Range(s) = {<<e, graph.ends[e][far]>> : e \in Range(fitting)}
  BY DEF Range
<1> QED
  BY <1>2, <1>5, <1>6 DEF fitting

\* Two sequences one behind the other hold what either holds.
LEMMA Joined2 ==
  ASSUME NEW s, NEW t, IsSeq(s), IsSeq(t)
  PROVE  IsSeq(s \o t) /\ Range(s \o t) = Range(s) \cup Range(t)
<1> DEFINE S == Range(s) \cup Range(t)
           u == s \o t
<1>1. s \in Seq(S) /\ t \in Seq(S)
  BY DEF IsSeq
<1>2. /\ u \in Seq(S) /\ Len(u) = Len(s) + Len(t) /\ Len(s) \in Nat /\ Len(t) \in Nat
      /\ \A k \in 1 .. Len(s) : u[k] = s[k]
      /\ \A k \in 1 .. Len(t) : u[Len(s) + k] = t[k]
  BY <1>1
<1>3. DOMAIN s = 1 .. Len(s) /\ DOMAIN t = 1 .. Len(t) /\ DOMAIN u = 1 .. Len(u)
  BY <1>1, <1>2
<1> HIDE DEF u, S
<1>4. Range(u) \subseteq S
  BY <1>2, <1>3 DEF Range
<1>5. ASSUME NEW x \in Range(s) PROVE x \in Range(u)
  <2>1. PICK k \in 1 .. Len(s) : s[k] = x
    BY <1>3 DEF Range
  <2> QED
    BY <1>2, <1>3, <2>1 DEF Range
<1>6. ASSUME NEW x \in Range(t) PROVE x \in Range(u)
  <2>1. PICK k \in 1 .. Len(t) : t[k] = x
    BY <1>3 DEF Range
  <2>2. Len(s) + k \in 1 .. Len(u) /\ u[Len(s) + k] = x
    BY <1>2, <2>1
  <2> QED
    BY <1>3, <2>2 DEF Range
<1>7. Range(u) = S
  BY <1>4, <1>5, <1>6 DEF S
<1>8. u \in Seq(Range(u))
  BY <1>2, <1>7
<1> QED
  BY <1>7, <1>8 DEF IsSeq, u, S

\* The neighbours of a node are the ends of the edges that lead on from it.
LEMMA NeighborsAre ==
  ASSUME graph \in Graphs, NEW n
  PROVE  /\ IsSeq(Neighbors(n))
         /\ \A p \in Range(Neighbors(n)) : p = <<p[1], p[2]>> /\ p[1] \in Edges /\ p[2] \in Nodes /\ Leads(n, p[1], p[2])
         /\ \A e \in Edges, m \in Nodes : Leads(n, e, m) => <<e, m>> \in Range(Neighbors(n))
<1> DEFINE Out == {e \in Edges : From(e) = n /\ Matches(e)}
           In == {e \in Edges : To(e) = n /\ Matches(e)}
           out == [k \in DOMAIN Listed(Out) |-> <<Listed(Out)[k], To(Listed(Out)[k])>>]
           in == [k \in DOMAIN Listed(In) |-> <<Listed(In)[k], From(Listed(In)[k])>>]
           s == IF request.direction \in {"Outgoing", "Both"} THEN out ELSE <<>>
           t == IF request.direction \in {"Incoming", "Both"} THEN in ELSE <<>>
<1>1. Neighbors(n) = s \o t
  BY DEF Neighbors, Toward, From, To
<1>2. IsSeq(out) /\ Range(out) = {<<e, To(e)>> : e \in Out}
  BY Paired DEF To
<1>3. IsSeq(in) /\ Range(in) = {<<e, From(e)>> : e \in In}
  BY Paired DEF From
<1>4. IsSeq(<<>>) /\ Range(<<>>) = {}
  BY DEF IsSeq, Range
<1>5. \A e \in Edges : From(e) \in Nodes /\ To(e) \in Nodes
  BY GraphViewAssumption DEF From, To
<1> HIDE DEF out, in
<1>6. IsSeq(s) /\ IsSeq(t)
  BY <1>2, <1>3, <1>4
<1>7. \A p \in Range(s) : p = <<p[1], p[2]>> /\ p[1] \in Edges /\ p[2] \in Nodes /\ Leads(n, p[1], p[2])
  BY <1>2, <1>4, <1>5 DEF Leads
<1>8. \A p \in Range(t) : p = <<p[1], p[2]>> /\ p[1] \in Edges /\ p[2] \in Nodes /\ Leads(n, p[1], p[2])
  BY <1>3, <1>4, <1>5 DEF Leads
<1>9. ASSUME NEW e \in Edges, NEW m \in Nodes, Leads(n, e, m) PROVE <<e, m>> \in Range(s) \/ <<e, m>> \in Range(t)
  BY <1>2, <1>3, <1>9 DEF Leads
<1> HIDE DEF s, t
<1>10. IsSeq(s \o t) /\ Range(s \o t) = Range(s) \cup Range(t)
  BY <1>6, Joined2
<1> QED
  BY <1>1, <1>7, <1>8, <1>9, <1>10

-----------------------------------------------------------------------------
(* Pathfinding: the path along a tree of visited nodes. *)

\* Every node but the root was reached along an edge from one a level up.
Tree(tree, lev, root) ==
    /\ DOMAIN lev = DOMAIN tree /\ DOMAIN tree \subseteq Nodes /\ root \in DOMAIN tree /\ lev[root] = 0
    /\ \A n \in DOMAIN tree : lev[n] \in Nat
    /\ \A n \in DOMAIN tree \ {root} :
          /\ tree[n][2] \in DOMAIN tree /\ tree[n][1] \in Edges
          /\ Leads(tree[n][2], tree[n][1], n) /\ lev[n] = lev[tree[n][2]] + 1

LEMMA RootLevel ==
  ASSUME NEW tree, NEW lev, NEW root, Tree(tree, lev, root), NEW n \in DOMAIN tree
  PROVE  lev[n] = 0 <=> n = root
<1>1. CASE n = root
  BY <1>1 DEF Tree
<1>2. CASE n # root
  <2>1. tree[n][2] \in DOMAIN tree /\ lev[n] = lev[tree[n][2]] + 1
    BY <1>2 DEF Tree
  <2>2. lev[tree[n][2]] \in Nat
    BY <2>1 DEF Tree
  <2> QED
    BY <1>2, <2>1, <2>2
<1> QED
  BY <1>1, <1>2

\* There are at least as many nodes as levels.
LEMMA LevelsFit ==
  ASSUME NEW tree, NEW lev, NEW root, Tree(tree, lev, root), NEW n \in DOMAIN tree
  PROVE  /\ IsFiniteSet(DOMAIN tree) /\ Cardinality(DOMAIN tree) \in Nat /\ Cardinality(Nodes) \in Nat
         /\ lev[n] + 1 <= Cardinality(DOMAIN tree) /\ Cardinality(DOMAIN tree) <= Cardinality(Nodes)
<1> DEFINE D == DOMAIN tree
           L == lev[n]
           T == {lev[m] : m \in D}
           S == {k \in Nat : k <= L => \E m \in D : lev[m] = L - k}
           f == [m \in D |-> lev[m]]
<1>1. IsFiniteSet(Nodes) /\ D \in SUBSET Nodes
  BY GraphViewAssumption DEF Tree
<1>2. IsFiniteSet(D) /\ Cardinality(D) <= Cardinality(Nodes)
  BY <1>1, FS_Subset
<1>3. Cardinality(D) \in Nat /\ Cardinality(Nodes) \in Nat
  BY <1>1, <1>2, FS_CardinalityType
<1>4. L \in Nat
  BY DEF Tree
<1>5. 0 \in S
  BY <1>4
<1>6. ASSUME NEW k \in Nat, k \in S PROVE k + 1 \in S
  <2> SUFFICES ASSUME k + 1 <= L PROVE \E m \in D : lev[m] = L - (k + 1)
    OBVIOUS
  <2>1. PICK m \in D : lev[m] = L - k
    BY <1>4, <1>6
  <2>2. m # root
    BY <1>4, <2>1, RootLevel
  <2>3. tree[m][2] \in D /\ lev[m] = lev[tree[m][2]] + 1 /\ lev[tree[m][2]] \in Nat
    BY <2>1, <2>2 DEF Tree
  <2>4. lev[tree[m][2]] = L - (k + 1)
    BY <1>4, <2>1, <2>3
  <2> QED
    BY <2>3, <2>4
<1>7. Nat \subseteq S
  <2> HIDE DEF S
  <2> QED
    BY <1>5, <1>6, SetInduction
<1>8. ASSUME NEW k \in 0 .. L PROVE k \in T
  <2>1. L - k \in S /\ L - k \in Nat /\ L - k <= L
    BY <1>4, <1>7
  <2>2. PICK m \in D : lev[m] = L - (L - k)
    BY <2>1
  <2>3. lev[m] = k
    BY <1>4, <2>2
  <2> QED
    BY <2>3
<1>9. IsFiniteSet(T) /\ Cardinality(T) <= Cardinality(D)
  <2>1. f \in Surjection(D, T)
    BY DEF Surjection
  <2> HIDE DEF f, T, D
  <2> QED
    BY <1>2, <2>1, FS_Surjection
<1>10. Cardinality(0 .. L) = L + 1 /\ Cardinality(0 .. L) <= Cardinality(T) /\ Cardinality(T) \in Nat
  <2>1. Cardinality(0 .. L) = L + 1
    BY <1>4, FS_Interval
  <2>2. 0 .. L \in SUBSET T
    BY <1>8
  <2> HIDE DEF T
  <2> QED
    BY <1>9, <2>1, <2>2, FS_Subset, FS_CardinalityType
<1> HIDE DEF T, D, L
<1>11. L + 1 <= Cardinality(D)
  BY <1>3, <1>4, <1>9, <1>10
<1> QED
  BY <1>2, <1>3, <1>11 DEF D, L

\* One step back, and K steps.
Back(tree, root, n) == IF n = root THEN root ELSE tree[n][2]

Backs(f, tree, root, n, K) == f = [k \in 0 .. K |-> IF k = 0 THEN n ELSE Back(tree, root, f[k - 1])]

LEMMA BacksEach ==
  ASSUME NEW f, NEW tree, NEW root, NEW n, NEW K \in Nat, Backs(f, tree, root, n, K)
  PROVE  DOMAIN f = 0 .. K /\ f[0] = n /\ \A k \in 0 .. K : k # 0 => f[k] = Back(tree, root, f[k - 1])
<1>1. f = [k \in 0 .. K |-> IF k = 0 THEN n ELSE Back(tree, root, f[k - 1])]
  BY DEF Backs
<1>2. ASSUME NEW k \in 0 .. K PROVE f[k] = IF k = 0 THEN n ELSE Back(tree, root, f[k - 1])
  BY <1>1
<1>3. 0 \in 0 .. K /\ DOMAIN f = 0 .. K
  BY <1>1
<1> QED
  BY <1>2, <1>3

LEMMA BacksExist ==
  ASSUME NEW tree, NEW root, NEW n
  PROVE  \A K \in Nat : \E f : Backs(f, tree, root, n, K)
<1> DEFINE T == {K \in Nat : \E f : Backs(f, tree, root, n, K)}
<1>1. 0 \in T
  <2> DEFINE f == [k \in 0 .. 0 |-> n]
  <2>1. f = [k \in 0 .. 0 |-> IF k = 0 THEN n ELSE Back(tree, root, f[k - 1])]
    OBVIOUS
  <2> HIDE DEF f
  <2> QED
    BY <2>1 DEF Backs
<1>2. ASSUME NEW K \in Nat, K \in T PROVE K + 1 \in T
  <2>1. PICK f : Backs(f, tree, root, n, K)
    BY <1>2
  <2>2. f[0] = n /\ \A k \in 0 .. K : k # 0 => f[k] = Back(tree, root, f[k - 1])
    BY <2>1, BacksEach
  <2> DEFINE g == [k \in 0 .. (K + 1) |-> IF k <= K THEN f[k] ELSE Back(tree, root, f[K])]
             h == [k \in 0 .. (K + 1) |-> IF k = 0 THEN n ELSE Back(tree, root, g[k - 1])]
  <2>3. ASSUME NEW k \in 0 .. (K + 1) PROVE g[k] = h[k]
    <3>1. CASE k = 0
      BY <2>2, <3>1
    <3>2. CASE k # 0 /\ k <= K
      <4>1. g[k] = f[k] /\ g[k - 1] = f[k - 1]
        BY <3>2
      <4>2. k \in 0 .. K
        BY <3>2
      <4>3. f[k] = Back(tree, root, f[k - 1])
        BY <2>2, <3>2, <4>2
      <4>4. h[k] = Back(tree, root, g[k - 1])
        BY <3>2
      <4> QED
        BY <4>1, <4>3, <4>4
    <3>3. CASE k = K + 1
      <4>1. g[k] = Back(tree, root, f[K]) /\ g[k - 1] = f[K]
        BY <3>3
      <4>2. h[k] = Back(tree, root, g[k - 1])
        BY <3>3
      <4> QED
        BY <4>1, <4>2
    <3> QED
      BY <3>1, <3>2, <3>3
  <2>4. g = h
    <3>1. g = [k \in 0 .. (K + 1) |-> g[k]] /\ h = [k \in 0 .. (K + 1) |-> h[k]]
      OBVIOUS
    <3> HIDE DEF g, h
    <3> QED
      BY <2>3, <3>1
  <2>5. Backs(g, tree, root, n, K + 1)
    <3>1. g = [k \in 0 .. (K + 1) |-> IF k = 0 THEN n ELSE Back(tree, root, g[k - 1])]
      BY <2>4
    <3> HIDE DEF g
    <3> QED
      BY <3>1 DEF Backs
  <2> HIDE DEF g, h
  <2> QED
    BY <2>5
<1>3. Nat \subseteq T
  <2> HIDE DEF T
  <2> QED
    BY <1>1, <1>2, SetInduction
<1> QED
  BY <1>3

\* After k steps back one is k levels up.
LEMMA Traced ==
  ASSUME NEW tree, NEW lev, NEW root, Tree(tree, lev, root), NEW n \in DOMAIN tree,
         NEW f, NEW K \in Nat, Backs(f, tree, root, n, K)
  PROVE  \A k \in 0 .. K : k <= lev[n] => f[k] \in DOMAIN tree /\ lev[f[k]] = lev[n] - k
<1> DEFINE S == {k \in Nat : k <= K /\ k <= lev[n] => f[k] \in DOMAIN tree /\ lev[f[k]] = lev[n] - k}
<1>1. f[0] = n /\ \A k \in 0 .. K : k # 0 => f[k] = Back(tree, root, f[k - 1])
  BY BacksEach
<1>2. lev[n] \in Nat
  BY DEF Tree
<1>3. 0 \in S
  BY <1>1, <1>2
<1>4. ASSUME NEW k \in Nat, k \in S PROVE k + 1 \in S
  <2> SUFFICES ASSUME k + 1 <= K, k + 1 <= lev[n]
               PROVE  f[k + 1] \in DOMAIN tree /\ lev[f[k + 1]] = lev[n] - (k + 1)
    OBVIOUS
  <2>1. f[k] \in DOMAIN tree /\ lev[f[k]] = lev[n] - k
    BY <1>2, <1>4
  <2>2. f[k + 1] = Back(tree, root, f[k])
    BY <1>1
  <2>3. f[k] # root
    BY <1>2, <2>1, RootLevel
  <2>4. f[k + 1] = tree[f[k]][2]
    BY <2>2, <2>3 DEF Back
  <2>5. tree[f[k]][2] \in DOMAIN tree /\ lev[f[k]] = lev[tree[f[k]][2]] + 1 /\ lev[tree[f[k]][2]] \in Nat
    BY <2>1, <2>3 DEF Tree
  <2> QED
    BY <1>2, <2>1, <2>4, <2>5
<1>5. Nat \subseteq S
  <2> HIDE DEF S
  <2> QED
    BY <1>3, <1>4, SetInduction
<1> QED
  BY <1>5

\* p goes from one node to another in L hops.
PathOf(p, from, to, L) ==
    /\ IsSeq(p.nodes) /\ Len(p.nodes) = L + 1 /\ IsSeq(p.edges) /\ Len(p.edges) = L
    /\ p.nodes[1] = from /\ p.nodes[L + 1] = to
    /\ \A k \in 1 .. (L + 1) : p.nodes[k] \in Nodes
    /\ \A k \in 1 .. L : p.edges[k] \in Edges /\ Leads(p.nodes[k], p.edges[k], p.nodes[k + 1])

LEMMA Reconstructed ==
  ASSUME NEW tree, NEW lev, NEW root, Tree(tree, lev, root), NEW n \in DOMAIN tree
  PROVE  PathOf(Reconstruct(tree, root, n), root, n, lev[n])
<1> DEFINE K == Cardinality(DOMAIN tree)
           L == lev[n]
           W == CHOOSE f : Backs(f, tree, root, n, K)
           length == CHOOSE k \in DOMAIN W : W[k] = root /\ \A l \in DOMAIN W : W[l] = root => k <= l
           P == [nodes |-> [k \in 1 .. (length + 1) |-> W[length + 1 - k]],
                 edges |-> [k \in 1 .. length |-> tree[W[length - k]][1]]]
<1>1. Reconstruct(tree, root, n) = P
  BY DEF Reconstruct, Backs, Back
<1>2. K \in Nat /\ L \in Nat /\ L <= K
  <2>1. K \in Nat /\ L + 1 <= K
    BY LevelsFit
  <2>2. L \in Nat
    BY DEF Tree
  <2> HIDE DEF K, L
  <2> QED
    BY <2>1, <2>2
<1>3. Backs(W, tree, root, n, K)
  BY <1>2, BacksExist
<1> HIDE DEF W, K
<1>4. DOMAIN W = 0 .. K /\ W[0] = n /\ \A k \in 0 .. K : k # 0 => W[k] = Back(tree, root, W[k - 1])
  BY <1>2, <1>3, BacksEach
<1>5. \A k \in 0 .. L : W[k] \in DOMAIN tree /\ lev[W[k]] = L - k /\ k \in 0 .. K
  BY <1>2, <1>3, Traced
<1>6. \A k \in 0 .. L : W[k] = root <=> k = L
  <2> SUFFICES ASSUME NEW k \in 0 .. L PROVE W[k] = root <=> k = L
    OBVIOUS
  <2>1. lev[W[k]] = 0 <=> W[k] = root
    BY <1>5, RootLevel
  <2>2. L - k = 0 <=> k = L
    BY <1>2
  <2> QED
    BY <1>5, <2>1, <2>2
<1> HIDE DEF L
<1>7. length = L
  <2>1. L \in DOMAIN W /\ W[L] = root
    BY <1>2, <1>4, <1>6
  <2>2. ASSUME NEW l \in DOMAIN W, W[l] = root PROVE L <= l
    <3> SUFFICES ASSUME l < L PROVE FALSE
      BY <1>2, <1>4
    <3>1. l \in 0 .. L /\ l # L
      BY <1>2, <1>4
    <3> QED
      BY <1>6, <2>2, <3>1
  <2>3. length \in DOMAIN W /\ W[length] = root /\ \A l \in DOMAIN W : W[l] = root => length <= l
    BY <2>1, <2>2
  <2> HIDE DEF length
  <2>4. length <= L /\ L <= length /\ length \in Int
    BY <1>4, <2>1, <2>2, <2>3
  <2> QED
    BY <1>2, <2>4
<1> HIDE DEF length
<1> DEFINE s == [k \in 1 .. (L + 1) |-> W[L + 1 - k]]
           t == [k \in 1 .. L |-> tree[W[L - k]][1]]
<1>8. P.nodes = s /\ P.edges = t
  BY <1>7
<1>9. IsSeq(s) /\ Len(s) = L + 1
  <2>1. DOMAIN s = 1 .. (L + 1) /\ s = [k \in 1 .. (L + 1) |-> s[k]] /\ L + 1 \in Nat
    BY <1>2
  <2> HIDE DEF s
  <2> QED
    BY <2>1, MadeSeq
<1>10. IsSeq(t) /\ Len(t) = L
  <2>1. DOMAIN t = 1 .. L /\ t = [k \in 1 .. L |-> t[k]]
    OBVIOUS
  <2> HIDE DEF t
  <2> QED
    BY <1>2, <2>1, MadeSeq
<1>11. s[1] = root /\ s[L + 1] = n
  <2>1. s[1] = W[L] /\ s[L + 1] = W[0]
    BY <1>2
  <2> QED
    BY <1>2, <1>4, <1>6, <2>1
<1>12. ASSUME NEW k \in 1 .. (L + 1) PROVE s[k] \in Nodes
  <2>1. L + 1 - k \in 0 .. L /\ s[k] = W[L + 1 - k]
    BY <1>2
  <2> QED
    BY <1>5, <2>1 DEF Tree
<1>13. ASSUME NEW k \in 1 .. L PROVE t[k] \in Edges /\ Leads(s[k], t[k], s[k + 1])
  <2>1. L - k \in 0 .. L /\ L - k # L /\ L - k + 1 \in 0 .. K /\ L - k + 1 # 0 /\ (L - k + 1) - 1 = L - k
    BY <1>2
  <2> DEFINE m == W[L - k]
  <2>2. m \in DOMAIN tree /\ m # root
    BY <1>5, <1>6, <2>1
  <2>3. t[k] = tree[m][1]
    OBVIOUS
  <2>4. s[k + 1] = m
    <3>1. L + 1 - (k + 1) = L - k /\ k + 1 \in 1 .. (L + 1)
      BY <1>2
    <3> QED
      BY <3>1
  <2>5. s[k] = tree[m][2]
    <3>1. s[k] = W[L - k + 1]
      <4>1. L + 1 - k = L - k + 1 /\ k \in 1 .. (L + 1)
        BY <1>2
      <4> QED
        BY <4>1
    <3>2. W[L - k + 1] = Back(tree, root, W[L - k])
      <4>1. W[L - k + 1] = Back(tree, root, W[(L - k + 1) - 1])
        BY <1>4, <2>1
      <4> QED
        BY <2>1, <4>1
    <3> QED
      BY <2>2, <3>1, <3>2 DEF Back
  <2> HIDE DEF m, s, t
  <2> QED
    BY <2>2, <2>3, <2>4, <2>5 DEF Tree
<1> HIDE DEF s, t, P
<1>14. PathOf(P, root, n, L)
  BY <1>8, <1>9, <1>10, <1>11, <1>12, <1>13 DEF PathOf
<1> QED
  BY <1>1, <1>14 DEF L

-----------------------------------------------------------------------------
(* Pathfinding: the search. *)

\* All neighbours of m were met, and none lies more than one level below.
Done(m) == \A e \in Edges, n \in Nodes : Leads(m, e, n) => n \in DOMAIN visited /\ level[n] <= level[m] + 1

InLine(m) == \E k \in DOMAIN queue : queue[k][1] = m

\* The node taken off the queue is the one whose neighbours are being looked at.
Busy(m) == current # <<>> /\ current[1] = m /\ pending # <<>>

\* The queue holds nodes met, each once, by level.
Line ==
    /\ IsSeq(queue)
    /\ \A k \in DOMAIN queue : /\ queue[k] = <<queue[k][1], queue[k][2]>>
                               /\ queue[k][1] \in DOMAIN visited /\ queue[k][2] = level[queue[k][1]]
    /\ \A k, l \in DOMAIN queue : k < l => queue[k][1] # queue[l][1] /\ queue[k][2] <= queue[l][2]

\* The levels are those up to the current node's, and the next one.
Frontier ==
    /\ current = <<>> => pending = <<>> /\ DOMAIN queue = {1} /\ DOMAIN visited = {Origin}
    /\ current # <<>> =>
          /\ current = <<current[1], current[2]>> /\ current[1] \in DOMAIN visited /\ current[2] = level[current[1]]
          /\ \A k \in DOMAIN queue : queue[k][1] # current[1] /\ current[2] <= queue[k][2]
          /\ \A n \in DOMAIN visited : level[n] <= current[2] + 1

\* What is left to look at.
Scanned ==
    /\ IsSeq(pending)
    /\ \A p \in Range(pending) : p = <<p[1], p[2]>> /\ p[1] \in Edges /\ p[2] \in Nodes /\ Leads(current[1], p[1], p[2])
    /\ pending # <<>> =>
          /\ current # <<>> /\ current[2] < request.depth
          /\ \A e \in Edges, n \in Nodes : Leads(current[1], e, n) => <<e, n>> \in Range(pending) \/ n \in DOMAIN visited
    /\ \A m \in DOMAIN visited : ~ InLine(m) /\ ~ Busy(m) /\ level[m] < request.depth => Done(m)

Asked == graph \in Graphs /\ request \in Requests /\ i \in DOMAIN request.nodes /\ j \in DOMAIN request.nodes

Shallow == \A n \in DOMAIN visited : level[n] <= request.depth

Search == Tree(visited, level, Origin) /\ Line /\ Frontier /\ Scanned /\ Shallow /\ Target \notin DOMAIN visited

LEMMA AskedTypes ==
  ASSUME Asked
  PROVE  /\ Origin \in Nodes /\ Target \in Nodes /\ request.depth \in Nat /\ request.nodes \in Seq(Nodes)
         /\ i \in Nat /\ j \in Nat /\ DOMAIN request.nodes = 1 .. Len(request.nodes) /\ Len(request.nodes) \in Nat
<1>1. request.nodes \in Seq(Nodes) /\ request.depth \in Nat
  BY RequestsAssumption DEF Asked
<1>2. DOMAIN request.nodes = 1 .. Len(request.nodes) /\ Len(request.nodes) \in Nat
  BY <1>1
<1> QED
  BY <1>1, <1>2 DEF Asked, Origin, Target

LEMMA LeadsStay ==
  ASSUME graph' = graph, request' = request
  PROVE  \A m, e, n : Leads(m, e, n)' <=> Leads(m, e, n)
BY DEF Leads, Matches, From, To

LEMMA EmptyRange == IsSeq(<<>>) /\ Range(<<>>) = {} /\ DOMAIN <<>> = {}
BY DEF IsSeq, Range

\* The first of a sequence that is not empty, and the rest.
LEMMA HeadTail ==
  ASSUME NEW s, IsSeq(s), s # <<>>
  PROVE  /\ Len(s) \in Nat /\ 1 <= Len(s) /\ DOMAIN s = 1 .. Len(s) /\ Head(s) = s[1] /\ Head(s) \in Range(s)
         /\ IsSeq(Tail(s)) /\ DOMAIN Tail(s) = 1 .. (Len(s) - 1) /\ \A k \in DOMAIN Tail(s) : Tail(s)[k] = s[k + 1]
         /\ Range(s) = {Head(s)} \cup Range(Tail(s))
<1> DEFINE t == Tail(s)
           n == Len(s)
<1>1. s \in Seq(Range(s)) /\ n \in Nat /\ DOMAIN s = 1 .. n /\ n # 0
  BY DEF IsSeq
<1>2. Head(s) = s[1] /\ t \in Seq(Range(s)) /\ Len(t) = n - 1 /\ \A k \in 1 .. (n - 1) : t[k] = s[k + 1]
  BY <1>1
<1> HIDE DEF t, n
<1>3. DOMAIN t = 1 .. (n - 1) /\ t = [k \in 1 .. (n - 1) |-> t[k]] /\ n - 1 \in Nat
  BY <1>1, <1>2
<1>4. IsSeq(t)
  BY <1>3, MadeSeq
<1>5. ASSUME NEW x \in Range(s) PROVE x = s[1] \/ x \in Range(t)
  <2>1. PICK k \in 1 .. n : x = s[k]
    BY <1>1 DEF Range
  <2>2. CASE k # 1
    <3>1. k - 1 \in 1 .. (n - 1) /\ (k - 1) + 1 = k
      BY <1>1, <2>2
    <3>2. t[k - 1] = s[k]
      BY <1>2, <3>1
    <3> QED
      BY <1>3, <2>1, <3>1, <3>2 DEF Range
  <2> QED
    BY <2>1, <2>2
<1>6. ASSUME NEW x \in Range(t) PROVE x \in Range(s)
  <2>1. PICK k \in 1 .. (n - 1) : x = t[k]
    BY <1>3 DEF Range
  <2>2. k + 1 \in 1 .. n /\ t[k] = s[k + 1]
    BY <1>1, <1>2, <2>1
  <2> QED
    BY <1>1, <2>1, <2>2 DEF Range
<1>7. s[1] \in Range(s) /\ 1 <= n
  BY <1>1 DEF Range
<1> QED
  BY <1>1, <1>2, <1>3, <1>4, <1>5, <1>6, <1>7 DEF t, n

LEMMA SearchStarts ==
  ASSUME Asked, StartSearch, Origin # Target, Unchanged, current = <<>>, pending = <<>>
  PROVE  Search'
<1>1. /\ visited' = [n \in {Origin} |-> <<>>] /\ level' = [n \in {Origin} |-> 0]
      /\ queue' = <<<<Origin, 0>>>> /\ current' = <<>> /\ pending' = <<>>
      /\ request' = request /\ i' = i /\ j' = j /\ graph' = graph
  BY DEF StartSearch, Unchanged
<1>2. Origin' = Origin /\ Target' = Target /\ Origin \in Nodes /\ request.depth \in Nat
  BY <1>1, AskedTypes DEF Origin, Target
<1>3. DOMAIN visited' = {Origin} /\ DOMAIN level' = {Origin} /\ level'[Origin] = 0
  BY <1>1
<1>4. Tree(visited, level, Origin)'
  BY <1>2, <1>3 DEF Tree
<1>5. DOMAIN queue' = {1} /\ queue'[1] = <<Origin, 0>> /\ IsSeq(queue')
  <2>1. queue' \in Seq({<<Origin, 0>>}) /\ Range(queue') = {<<Origin, 0>>}
    BY <1>1 DEF Range
  <2> QED
    BY <1>1, <2>1 DEF IsSeq
<1>6. Line'
  BY <1>3, <1>5 DEF Line
<1>7. Frontier'
  BY <1>1, <1>2, <1>3, <1>5 DEF Frontier
<1>8. \A m \in DOMAIN visited' : InLine(m)'
  <2>1. queue'[1][1] = Origin
    BY <1>5
  <2> QED
    BY <1>3, <1>5, <2>1 DEF InLine
<1>9. Scanned'
  BY <1>1, <1>8, EmptyRange DEF Scanned
<1>10. Shallow'
  BY <1>1, <1>2, <1>3 DEF Shallow
<1>11. (Target \notin DOMAIN visited)'
  BY <1>2, <1>3
<1> QED
  BY <1>4, <1>6, <1>7, <1>9, <1>10, <1>11 DEF Search

LEMMA SearchTakes ==
  ASSUME Asked, Search, Take, Unchanged
  PROVE  Search'
<1> DEFINE m == queue[1][1]
           d == queue[1][2]
<1>1. /\ pending = <<>> /\ queue # <<>> /\ queue' = Tail(queue) /\ current' = Head(queue)
      /\ pending' = IF AtLimit(Head(queue)[2]) THEN <<>> ELSE Neighbors(Head(queue)[1])
      /\ visited' = visited /\ level' = level /\ request' = request /\ i' = i /\ j' = j /\ graph' = graph
  BY DEF Take, Unchanged
<1>2. /\ Len(queue) \in Nat /\ 1 <= Len(queue) /\ DOMAIN queue = 1 .. Len(queue) /\ Head(queue) = queue[1]
      /\ IsSeq(queue') /\ DOMAIN queue' = 1 .. (Len(queue) - 1) /\ \A k \in DOMAIN queue' : queue'[k] = queue[k + 1]
  BY <1>1, HeadTail DEF Search, Line
<1>3. Origin' = Origin /\ Target' = Target
  BY <1>1 DEF Origin, Target
<1>4. \A a, e, n : Leads(a, e, n)' <=> Leads(a, e, n)
  BY <1>1, LeadsStay
<1>5. Tree(visited, level, Origin)'
  BY <1>1, <1>3, <1>4 DEF Search, Tree
<1>6. current' = <<m, d>> /\ m \in DOMAIN visited /\ d = level[m] /\ d \in Nat
  BY <1>1, <1>2 DEF Search, Line, Tree
<1>7. \A k \in DOMAIN queue' : k + 1 \in DOMAIN queue /\ 1 < k + 1 /\ k \in Int
  BY <1>2
<1>8. Line'
  <2>1. \A k, l \in DOMAIN queue' : k < l => k + 1 < l + 1
    BY <1>2
  <2> QED
    BY <1>1, <1>2, <1>7, <2>1 DEF Search, Line
<1>9. \A k \in DOMAIN queue' : queue'[k][1] # m /\ d <= queue'[k][2]
  BY <1>2, <1>7 DEF Search, Line
<1>10. \A n \in DOMAIN visited : level[n] <= d + 1
  <2>1. CASE current = <<>>
    BY <1>2, <1>6, <2>1 DEF Search, Frontier, Tree
  <2>2. CASE current # <<>>
    <3>1. current[2] <= d /\ current[2] \in Nat
      BY <1>2, <2>2 DEF Search, Frontier, Tree
    <3> QED
      BY <1>6, <2>2, <3>1 DEF Search, Frontier, Tree
  <2> QED
    BY <2>1, <2>2
<1>11. current' # <<>> /\ current'[1] = m /\ current'[2] = d
  BY <1>6
<1>12. Frontier'
  BY <1>1, <1>6, <1>9, <1>10, <1>11 DEF Frontier
<1>13. \A a : a # m => (InLine(a)' <=> InLine(a))
  <2> SUFFICES ASSUME NEW a, a # m PROVE InLine(a)' <=> InLine(a)
    OBVIOUS
  <2>1. ASSUME InLine(a) PROVE InLine(a)'
    <3>1. PICK k \in DOMAIN queue : queue[k][1] = a
      BY <2>1 DEF InLine
    <3>2. k # 1
      BY <3>1
    <3>3. k - 1 \in DOMAIN queue' /\ (k - 1) + 1 = k
      BY <1>2, <3>2
    <3> QED
      BY <1>2, <3>1, <3>3 DEF InLine
  <2>2. ASSUME InLine(a)' PROVE InLine(a)
    BY <1>2, <1>7, <2>2 DEF InLine
  <2> QED
    BY <2>1, <2>2
<1>14. \A a : Done(a)' <=> Done(a)
  BY <1>1, <1>4 DEF Done
<1>15. ASSUME NEW a \in DOMAIN visited, a # m, ~ InLine(a)', level[a] < request.depth PROVE Done(a)
  <2>1. ~ InLine(a) /\ ~ Busy(a)
    BY <1>1, <1>13, <1>15 DEF Busy
  <2> QED
    BY <1>15, <2>1 DEF Search, Scanned
<1>16. Scanned'
  <2>1. CASE AtLimit(d)
    <3>1. pending' = <<>> /\ ~ (level[m] < request.depth)
      <4>1. request.depth \in Nat /\ d >= request.depth
        BY <2>1, AskedTypes DEF AtLimit
      <4> QED
        BY <1>1, <1>2, <1>6, <2>1, <4>1
    <3> QED
      BY <1>1, <1>14, <1>15, <3>1, EmptyRange DEF Scanned
  <2>2. CASE ~ AtLimit(d)
    <3>1. pending' = Neighbors(m) /\ d < request.depth
      <4>1. request.depth \in Nat
        BY AskedTypes
      <4> QED
        BY <1>1, <1>2, <1>6, <2>2, <4>1 DEF AtLimit
    <3>2. /\ IsSeq(pending')
          /\ \A p \in Range(pending') : p = <<p[1], p[2]>> /\ p[1] \in Edges /\ p[2] \in Nodes /\ Leads(m, p[1], p[2])
          /\ \A e \in Edges, n \in Nodes : Leads(m, e, n) => <<e, n>> \in Range(pending')
      BY <3>1, NeighborsAre DEF Asked
    <3>3. ASSUME pending' = <<>> PROVE Done(m)
      BY <3>2, <3>3, EmptyRange DEF Done
    <3>4. ASSUME NEW a \in DOMAIN visited, ~ InLine(a)', ~ Busy(a)', level[a] < request.depth PROVE Done(a)
      <4>1. CASE a = m
        <5>1. pending' = <<>>
          BY <1>11, <3>4, <4>1 DEF Busy
        <5> QED
          BY <3>3, <4>1, <5>1
      <4> QED
        BY <1>15, <3>4, <4>1
    <3> HIDE DEF m, d
    <3> QED
      BY <1>1, <1>4, <1>11, <1>14, <3>1, <3>2, <3>4 DEF Scanned
  <2> QED
    BY <2>1, <2>2
<1> QED
  BY <1>1, <1>3, <1>5, <1>8, <1>12, <1>16 DEF Search, Shallow

\* A neighbour is looked at that was not met before: the tree grows by it.
Meets == phase = "search" /\ Head(pending)[2] \notin DOMAIN visited

LEMMA LookedAt ==
  ASSUME Search, Look, Unchanged
  PROVE  /\ Head(pending) = <<Head(pending)[1], Head(pending)[2]>> /\ Head(pending)[1] \in Edges /\ Head(pending)[2] \in Nodes
         /\ Leads(current[1], Head(pending)[1], Head(pending)[2])
         /\ current # <<>> /\ current[1] \in DOMAIN visited /\ current[2] = level[current[1]] /\ current[2] \in Nat
         /\ current[2] < request.depth
         /\ current' = current /\ request' = request /\ i' = i /\ j' = j /\ graph' = graph
         /\ Origin' = Origin /\ Target' = Target /\ \A a, e, n : Leads(a, e, n)' <=> Leads(a, e, n)
         /\ IsSeq(pending') /\ Range(pending) = {Head(pending)} \cup Range(pending')
<1>1. pending # <<>> /\ pending' = Tail(pending) /\ current' = current /\ request' = request /\ i' = i /\ j' = j /\ graph' = graph
  BY DEF Look, Unchanged
<1>2. Origin' = Origin /\ Target' = Target
  BY <1>1 DEF Origin, Target
<1>3. IsSeq(pending') /\ Range(pending) = {Head(pending)} \cup Range(pending')
  BY <1>1, HeadTail DEF Search, Scanned
<1>4. Head(pending) \in Range(pending)
  BY <1>3
<1>5. /\ Head(pending) = <<Head(pending)[1], Head(pending)[2]>> /\ Head(pending)[1] \in Edges /\ Head(pending)[2] \in Nodes
      /\ Leads(current[1], Head(pending)[1], Head(pending)[2])
  BY <1>4, Zenon DEF Search, Scanned
<1>6. current # <<>> /\ current[2] < request.depth
  BY <1>1 DEF Search, Scanned
<1>7. current[1] \in DOMAIN visited /\ current[2] = level[current[1]]
  BY <1>6 DEF Search, Frontier
<1>8. current[2] \in Nat
  BY <1>7 DEF Search, Tree
<1> QED
  BY <1>1, <1>2, <1>3, <1>5, <1>6, <1>7, <1>8, LeadsStay

LEMMA TreeGrows ==
  ASSUME Search, Look, Unchanged, Meets
  PROVE  /\ DOMAIN visited' = DOMAIN visited \cup {Head(pending)[2]} /\ DOMAIN level' = DOMAIN visited'
         /\ \A m \in DOMAIN visited : visited'[m] = visited[m] /\ level'[m] = level[m]
         /\ visited'[Head(pending)[2]] = <<Head(pending)[1], current[1]>>
         /\ level'[Head(pending)[2]] = current[2] + 1
         /\ Tree(visited, level, Origin)' /\ Tree(visited', level', Origin)
<1> DEFINE e == Head(pending)[1]
           n == Head(pending)[2]
<1>1. /\ visited' = [m \in DOMAIN visited \cup {n} |-> IF m = n THEN <<e, current[1]>> ELSE visited[m]]
      /\ level' = [m \in DOMAIN level \cup {n} |-> IF m = n THEN current[2] + 1 ELSE level[m]]
      /\ n \notin DOMAIN visited
  BY DEF Look, Meets
<1>2. /\ e \in Edges /\ n \in Nodes /\ Leads(current[1], e, n)
      /\ current[1] \in DOMAIN visited /\ current[2] = level[current[1]] /\ current[2] \in Nat
      /\ Origin' = Origin /\ \A a, f, b : Leads(a, f, b)' <=> Leads(a, f, b)
  BY LookedAt
<1> HIDE DEF e, n
<1>3. DOMAIN level = DOMAIN visited /\ DOMAIN visited \subseteq Nodes /\ Origin \in DOMAIN visited /\ level[Origin] = 0
  BY DEF Search, Tree
<1>4. DOMAIN visited' = DOMAIN visited \cup {n} /\ DOMAIN level' = DOMAIN visited'
  BY <1>1, <1>3
<1>5. \A m \in DOMAIN visited : visited'[m] = visited[m] /\ level'[m] = level[m]
  BY <1>1, <1>3
<1>6. visited'[n] = <<e, current[1]>> /\ level'[n] = current[2] + 1
  BY <1>1, <1>3
<1>7. ASSUME NEW m \in DOMAIN visited' PROVE level'[m] \in Nat
  <2>1. CASE m = n
    BY <1>2, <1>6, <2>1
  <2>2. CASE m # n
    BY <1>4, <1>5, <2>2 DEF Search, Tree
  <2> QED
    BY <2>1, <2>2
<1>8. ASSUME NEW m \in DOMAIN visited' \ {Origin}
      PROVE  /\ visited'[m][2] \in DOMAIN visited' /\ visited'[m][1] \in Edges
             /\ Leads(visited'[m][2], visited'[m][1], m) /\ level'[m] = level'[visited'[m][2]] + 1
  <2>1. CASE m = n
    BY <1>2, <1>4, <1>5, <1>6, <2>1
  <2>2. CASE m # n
    <3>1. m \in DOMAIN visited \ {Origin} /\ visited'[m] = visited[m] /\ level'[m] = level[m]
      BY <1>4, <1>5, <1>8, <2>2
    <3>2. /\ visited[m][2] \in DOMAIN visited /\ visited[m][1] \in Edges
          /\ Leads(visited[m][2], visited[m][1], m) /\ level[m] = level[visited[m][2]] + 1
      BY <3>1 DEF Search, Tree
    <3> QED
      BY <1>4, <1>5, <3>1, <3>2
  <2> QED
    BY <2>1, <2>2
<1>9. DOMAIN visited' \subseteq Nodes /\ Origin \in DOMAIN visited' /\ level'[Origin] = 0
  BY <1>2, <1>3, <1>4, <1>5
<1>10. Tree(visited, level, Origin)' /\ Tree(visited', level', Origin)
  BY <1>2, <1>4, <1>7, <1>8, <1>9 DEF Tree
<1> QED
  BY <1>4, <1>5, <1>6, <1>10 DEF e, n

LEMMA SearchPasses ==
  ASSUME Asked, Search, Look, Unchanged, ~ Meets
  PROVE  Search'
<1> DEFINE h == Head(pending)
<1>1. /\ visited' = visited /\ level' = level /\ queue' = queue /\ h[2] \in DOMAIN visited
  BY DEF Look, Meets
<1>2. /\ h = <<h[1], h[2]>>
      /\ current # <<>> /\ current[1] \in DOMAIN visited /\ current[2] < request.depth /\ current[2] = level[current[1]]
      /\ current' = current /\ request' = request /\ graph' = graph
      /\ Origin' = Origin /\ Target' = Target /\ \A a, e, n : Leads(a, e, n)' <=> Leads(a, e, n)
      /\ IsSeq(pending') /\ Range(pending) = {h} \cup Range(pending')
  BY LookedAt
<1> HIDE DEF h
<1>3. Tree(visited, level, Origin)'
  BY <1>1, <1>2 DEF Search, Tree
<1>4. Line'
  BY <1>1 DEF Search, Line
<1>5. Frontier'
  BY <1>1, <1>2 DEF Search, Frontier
<1>6. pending # <<>>
  BY DEF Look
<1>7. \A e \in Edges, n \in Nodes : Leads(current[1], e, n) => <<e, n>> \in Range(pending') \/ n \in DOMAIN visited
  <2> SUFFICES ASSUME NEW e \in Edges, NEW n \in Nodes, Leads(current[1], e, n), n \notin DOMAIN visited
               PROVE  <<e, n>> \in Range(pending')
    OBVIOUS
  <2>1. <<e, n>> \in Range(pending)
    BY <1>6 DEF Search, Scanned
  <2>2. <<e, n>> # h
    BY <1>1
  <2> QED
    BY <1>2, <2>1, <2>2
<1>8. ASSUME NEW m \in DOMAIN visited, ~ InLine(m)', ~ Busy(m)', level[m] < request.depth PROVE Done(m)
  <2>1. ~ InLine(m)
    BY <1>1, <1>8 DEF InLine
  <2>2. CASE m = current[1]
    <3>1. pending' = <<>>
      BY <1>2, <1>8, <2>2 DEF Busy
    <3>2. \A e \in Edges, n \in Nodes : Leads(m, e, n) => n \in DOMAIN visited
      BY <1>7, <2>2, <3>1, EmptyRange
    <3>3. \A n \in DOMAIN visited : level[n] <= level[m] + 1
      BY <1>2, <2>2 DEF Search, Frontier
    <3> QED
      BY <3>2, <3>3 DEF Done
  <2>3. CASE m # current[1]
    <3>1. ~ Busy(m)
      BY <2>3 DEF Busy
    <3> QED
      BY <1>8, <2>1, <3>1 DEF Search, Scanned
  <2> QED
    BY <2>2, <2>3
<1>9. \A m : Done(m)' <=> Done(m)
  BY <1>1, <1>2 DEF Done
<1>10. \A p \in Range(pending') : p = <<p[1], p[2]>> /\ p[1] \in Edges /\ p[2] \in Nodes /\ Leads(current[1], p[1], p[2])
  BY <1>2 DEF Search, Scanned
<1>11. Scanned'
  BY <1>1, <1>2, <1>7, <1>8, <1>9, <1>10 DEF Scanned
<1>12. Shallow' /\ (Target \notin DOMAIN visited)'
  BY <1>1, <1>2 DEF Search, Shallow
<1> QED
  BY <1>3, <1>4, <1>5, <1>11, <1>12 DEF Search

LEMMA SearchMeets ==
  ASSUME Asked, Search, Look, Unchanged, Meets, Head(pending)[2] # Target
  PROVE  Search'
<1> DEFINE h == Head(pending)
           n == Head(pending)[2]
           d == current[2]
           a == Len(queue)
<1>1. queue' = Append(queue, <<n, d + 1>>) /\ n \notin DOMAIN visited /\ pending # <<>>
  BY DEF Look, Meets, Queued
<1>2. /\ h = <<h[1], n>>
      /\ current # <<>> /\ current[1] \in DOMAIN visited /\ d < request.depth /\ d = level[current[1]] /\ d \in Nat
      /\ current' = current /\ request' = request /\ graph' = graph
      /\ Origin' = Origin /\ Target' = Target /\ \A b, e, m : Leads(b, e, m)' <=> Leads(b, e, m)
      /\ IsSeq(pending') /\ Range(pending) = {h} \cup Range(pending')
  BY LookedAt
<1>3. /\ DOMAIN visited' = DOMAIN visited \cup {n}
      /\ \A m \in DOMAIN visited : level'[m] = level[m]
      /\ level'[n] = d + 1 /\ Tree(visited, level, Origin)'
  BY TreeGrows
<1>4. IsSeq(queue) /\ a \in Nat /\ DOMAIN queue = 1 .. a
  BY SeqShape DEF Search, Line
<1>5. IsSeq(queue') /\ DOMAIN queue' = 1 .. (a + 1) /\ queue'[a + 1] = <<n, d + 1>> /\ \A k \in 1 .. a : queue'[k] = queue[k]
  BY <1>1, <1>4, Appended
<1> HIDE DEF h, n, d, a
<1>6. \A m \in DOMAIN visited : level[m] <= d + 1 /\ level[m] \in Nat
  BY <1>2 DEF Search, Frontier, Tree, d
<1>7. \A k \in 1 .. a : /\ queue[k] = <<queue[k][1], queue[k][2]>> /\ queue[k][1] \in DOMAIN visited
                        /\ queue[k][2] = level[queue[k][1]]
  BY <1>4 DEF Search, Line
<1>8. \A k \in 1 .. a : queue[k][1] # n /\ queue[k][2] <= d + 1
  BY <1>1, <1>6, <1>7
<1>9. queue'[a + 1][1] = n /\ queue'[a + 1][2] = d + 1
  BY <1>5
<1>10. \A k \in 1 .. (a + 1) : k \in 1 .. a \/ k = a + 1
  BY <1>4
<1>11. Line'
  <2>1. ASSUME NEW k \in DOMAIN queue'
        PROVE  /\ queue'[k] = <<queue'[k][1], queue'[k][2]>> /\ queue'[k][1] \in DOMAIN visited'
               /\ queue'[k][2] = level'[queue'[k][1]]
    <3>1. CASE k = a + 1
      BY <1>3, <1>5, <1>9, <3>1
    <3>2. CASE k \in 1 .. a
      BY <1>3, <1>5, <1>7, <3>2
    <3> QED
      BY <1>5, <1>10, <3>1, <3>2
  <2>2. ASSUME NEW k \in DOMAIN queue', NEW l \in DOMAIN queue', k < l
        PROVE  queue'[k][1] # queue'[l][1] /\ queue'[k][2] <= queue'[l][2]
    <3>1. k \in 1 .. a
      BY <1>4, <1>5, <2>2
    <3>2. CASE l = a + 1
      BY <1>5, <1>8, <1>9, <3>1, <3>2
    <3>3. CASE l \in 1 .. a
      BY <1>4, <1>5, <2>2, <3>1, <3>3 DEF Search, Line
    <3> QED
      BY <1>5, <1>10, <3>2, <3>3
  <2> QED
    BY <1>5, <2>1, <2>2 DEF Line
<1>12. Frontier'
  <2>1. \A k \in DOMAIN queue' : queue'[k][1] # current[1] /\ d <= queue'[k][2]
    <3> SUFFICES ASSUME NEW k \in DOMAIN queue' PROVE queue'[k][1] # current[1] /\ d <= queue'[k][2]
      OBVIOUS
    <3>1. CASE k = a + 1
      BY <1>1, <1>2, <1>9, <3>1
    <3>2. CASE k \in 1 .. a
      BY <1>2, <1>4, <1>5, <3>2 DEF Search, Frontier, d
    <3> QED
      BY <1>5, <1>10, <3>1, <3>2
  <2>2. \A m \in DOMAIN visited' : level'[m] <= d + 1
    BY <1>2, <1>3, <1>6
  <2>3. current[1] \in DOMAIN visited' /\ d = level'[current[1]] /\ current = <<current[1], current[2]>>
    BY <1>2, <1>3 DEF Search, Frontier
  <2> QED
    BY <1>2, <2>1, <2>2, <2>3 DEF Frontier, d
<1>13. \A e \in Edges, m \in Nodes : Leads(current[1], e, m) => <<e, m>> \in Range(pending') \/ m \in DOMAIN visited'
  <2> SUFFICES ASSUME NEW e \in Edges, NEW m \in Nodes, Leads(current[1], e, m), m \notin DOMAIN visited'
               PROVE  <<e, m>> \in Range(pending')
    OBVIOUS
  <2>1. <<e, m>> \in Range(pending)
    BY <1>1, <1>3 DEF Search, Scanned
  <2>2. <<e, m>> # h
    BY <1>2, <1>3
  <2> QED
    BY <1>2, <2>1, <2>2
<1>14. \A m : InLine(m) => InLine(m)'
  BY <1>4, <1>5 DEF InLine
<1>15. \A m : m = n => InLine(m)'
  BY <1>4, <1>5, <1>9 DEF InLine
<1>16. ASSUME NEW m \in DOMAIN visited, Done(m) PROVE Done(m)'
  <2> SUFFICES ASSUME NEW e \in Edges, NEW b \in Nodes, Leads(m, e, b)
               PROVE  b \in DOMAIN visited' /\ level'[b] <= level'[m] + 1
    BY <1>2 DEF Done
  <2>1. b \in DOMAIN visited /\ level[b] <= level[m] + 1
    BY <1>16 DEF Done
  <2> QED
    BY <1>3, <2>1
<1>17. ASSUME NEW m \in DOMAIN visited', ~ InLine(m)', ~ Busy(m)', level'[m] < request.depth PROVE Done(m)'
  <2>1. m \in DOMAIN visited /\ ~ InLine(m)
    BY <1>3, <1>14, <1>15, <1>17
  <2>2. CASE m = current[1]
    <3>1. pending' = <<>>
      BY <1>2, <1>17, <2>2 DEF Busy
    <3>2. \A e \in Edges, b \in Nodes : Leads(m, e, b) => b \in DOMAIN visited'
      BY <1>13, <2>2, <3>1, EmptyRange
    <3>3. \A b \in DOMAIN visited' : level'[b] <= d + 1
      BY <1>2, <1>3, <1>6
    <3>4. level'[m] = d
      BY <1>2, <1>3, <2>2
    <3> QED
      BY <1>2, <3>2, <3>3, <3>4 DEF Done
  <2>3. CASE m # current[1]
    <3>1. ~ Busy(m)
      BY <2>3 DEF Busy
    <3>2. level[m] < request.depth
      BY <1>3, <1>17, <2>1
    <3>3. Done(m)
      BY <2>1, <3>1, <3>2 DEF Search, Scanned
    <3> QED
      BY <1>16, <2>1, <3>3
  <2> QED
    BY <2>2, <2>3
<1>18. \A p \in Range(pending') : p = <<p[1], p[2]>> /\ p[1] \in Edges /\ p[2] \in Nodes /\ Leads(current[1], p[1], p[2])
  BY <1>2 DEF Search, Scanned
<1>19. Scanned'
  BY <1>2, <1>13, <1>17, <1>18 DEF Scanned, d
<1>20. Shallow'
  <2>1. request.depth \in Nat
    BY AskedTypes
  <2>2. \A m \in DOMAIN visited : level[m] <= request.depth
    BY DEF Search, Shallow
  <2> QED
    BY <1>2, <1>3, <2>1, <2>2 DEF Shallow
<1>21. (Target \notin DOMAIN visited)'
  BY <1>2, <1>3 DEF Search, n
<1> QED
  BY <1>3, <1>11, <1>12, <1>19, <1>20, <1>21 DEF Search

\* What is within c hops was met when all neighbours of the nodes above level c were.
LEMMA BallMet ==
  ASSUME Search, NEW c \in Nat, \A m \in DOMAIN visited : level[m] < c => Done(m)
  PROVE  Ball(Origin, c) \subseteq DOMAIN visited
<1>1. PICK f : Hops(f, Origin, c, Edges) /\ Ball(Origin, c) = f[c]
  BY BallIs
<1>2. \A l \in 0 .. c : f[l] = IF l = 0 THEN {Origin} ELSE Hop(f[l - 1], Edges)
  <2>1. f = [l \in 0 .. c |-> IF l = 0 THEN {Origin} ELSE Hop(f[l - 1], Edges)]
    BY <1>1 DEF Hops
  <2> QED
    BY <2>1
<1> DEFINE T == {l \in Nat : l <= c => \A x \in f[l] : x \in DOMAIN visited /\ level[x] <= l}
<1>3. 0 \in T
  BY <1>2 DEF Search, Tree
<1>4. ASSUME NEW l \in Nat, l \in T PROVE l + 1 \in T
  <2> SUFFICES ASSUME l + 1 <= c, NEW x \in f[l + 1] PROVE x \in DOMAIN visited /\ level[x] <= l + 1
    OBVIOUS
  <2>1. f[l + 1] = Hop(f[l], Edges)
    <3>1. l + 1 \in 0 .. c /\ l + 1 # 0 /\ (l + 1) - 1 = l
      OBVIOUS
    <3> QED
      BY <1>2, <3>1
  <2>2. \A y \in f[l] : y \in DOMAIN visited /\ level[y] <= l /\ level[y] \in Nat
    BY <1>4 DEF Search, Tree
  <2>3. CASE x \in f[l]
    BY <2>2, <2>3
  <2>4. CASE x \notin f[l]
    <3>1. PICK y \in f[l], e \in Edges : Leads(y, e, x) /\ x \in Nodes
      BY <2>1, <2>4 DEF Hop
    <3>2. Done(y)
      BY <2>2, <3>1
    <3>3. x \in DOMAIN visited /\ level[x] <= level[y] + 1
      BY <3>1, <3>2 DEF Done
    <3> QED
      BY <2>2, <3>1, <3>3 DEF Search, Tree
  <2> QED
    BY <2>3, <2>4
<1>5. c \in T
  <2> HIDE DEF T
  <2> QED
    BY <1>3, <1>4, SetInduction
<1> QED
  BY <1>1, <1>5

LEMMA BallStays ==
  ASSUME graph' = graph, request' = request
  PROVE  \A n, K : Ball(n, K)' = Ball(n, K)
BY DEF Ball, Leads, Matches, From, To

\* A path was found, of L edges; none is shorter.
Shortest(L) ==
    /\ PathOf(path, Origin, Target, L) /\ L <= request.depth /\ L + 1 <= Cardinality(Nodes)
    /\ L # 0 => Target \notin Ball(Origin, L - 1)

LEMMA SearchFinds ==
  ASSUME Asked, Search, Look, Unchanged, Meets, Head(pending)[2] = Target
  PROVE  \E L \in Nat : Shortest(L)'
<1> DEFINE d == current[2]
<1>1. path' = Reconstruct(visited', Origin, Target)
  BY DEF Look, Meets
<1>2. /\ d < request.depth /\ d = level[current[1]] /\ d \in Nat /\ current # <<>> /\ current[1] \in DOMAIN visited
      /\ request' = request /\ graph' = graph /\ Origin' = Origin /\ Target' = Target
  BY LookedAt
<1>3. Tree(visited', level', Origin) /\ Target \in DOMAIN visited' /\ level'[Target] = d + 1
  BY TreeGrows
<1>4. PathOf(path', Origin, Target, d + 1)
  BY <1>1, <1>3, Reconstructed
<1> HIDE DEF d
<1>5. PathOf(path, Origin, Target, d + 1)'
  <2>1. \A a, e, n : Leads(a, e, n)' <=> Leads(a, e, n)
    BY LookedAt
  <2>2. d' = d
    BY LookedAt DEF d
  <2> QED
    BY <1>2, <1>4, <2>1, <2>2 DEF PathOf
<1>6. d + 1 <= request.depth /\ d + 1 \in Nat
  <2>1. request.depth \in Nat
    BY AskedTypes
  <2> QED
    BY <1>2, <2>1
<1>7. d + 1 + 1 <= Cardinality(Nodes)
  <2>1. /\ Cardinality(DOMAIN visited') \in Nat /\ Cardinality(Nodes) \in Nat
        /\ d + 1 + 1 <= Cardinality(DOMAIN visited') /\ Cardinality(DOMAIN visited') <= Cardinality(Nodes)
    BY <1>3, LevelsFit
  <2> QED
    BY <1>6, <2>1
<1>8. Target \notin Ball(Origin, d)
  <2>1. ASSUME NEW m \in DOMAIN visited, level[m] < d PROVE Done(m)
    <3>1. m # current[1]
      BY <1>2, <2>1 DEF d, Search, Tree
    <3>2. ~ InLine(m)
      <4> SUFFICES ASSUME NEW k \in DOMAIN queue, queue[k][1] = m PROVE FALSE
        BY DEF InLine
      <4>1. queue[k][2] = level[m] /\ d <= queue[k][2] /\ level[m] \in Nat
        BY <1>2 DEF Search, Line, Frontier, Tree, d
      <4> QED
        BY <1>2, <2>1, <4>1 DEF d
    <3>3. level[m] < request.depth
      <4>1. level[m] \in Nat /\ request.depth \in Nat /\ d \in Nat
        BY <1>2, AskedTypes DEF Search, Tree, d
      <4> QED
        BY <1>2, <2>1, <4>1 DEF d
    <3> QED
      BY <3>1, <3>2, <3>3 DEF Search, Scanned, Busy
  <2>2. Ball(Origin, d) \subseteq DOMAIN visited
    BY <1>2, <2>1, BallMet DEF d
  <2> QED
    BY <2>2 DEF Search
<1>9. \A n, K : Ball(n, K)' = Ball(n, K)
  BY <1>2, BallStays
<1>10. \A L : L = d + 1 => Shortest(L)'
  <2> SUFFICES ASSUME NEW L, L = d + 1 PROVE Shortest(L)'
    OBVIOUS
  <2>1. L - 1 = d
    BY <1>2 DEF d
  <2>2. PathOf(path, Origin, Target, L)'
    <3>1. d' = d
      BY LookedAt DEF d
    <3> QED
      BY <1>5, <3>1
  <2> QED
    BY <1>2, <1>6, <1>7, <1>8, <1>9, <2>1, <2>2 DEF Shortest
<1> QED
  BY <1>6, <1>10

LEMMA NothingFound ==
  ASSUME Asked, Search, pending = <<>>, queue = <<>>
  PROVE  Target \notin Ball(Origin, request.depth)
<1>1. ASSUME NEW m \in DOMAIN visited, level[m] < request.depth PROVE Done(m)
  <2>1. ~ InLine(m) /\ ~ Busy(m)
    BY EmptyRange DEF InLine, Busy
  <2> QED
    BY <1>1, <2>1 DEF Search, Scanned
<1>2. Ball(Origin, request.depth) \subseteq DOMAIN visited
  BY <1>1, AskedTypes, BallMet
<1> QED
  BY <1>2 DEF Search

-----------------------------------------------------------------------------
(* Pathfinding: whole calls. *)

\* A place of the call: which pair is searched for.
Placed == request \in Requests /\ i \in Nat \ {0} /\ j \in Nat \ {0}

Calm == NoSearch /\ path = NoPath

\* The running search, in each phase of a call.
Progressing ==
    /\ graph \in Graphs
    /\ phase \in {"idle", "pairs", "search", "found", "lost", "done"}
    /\ phase # "idle" => Placed
    /\ phase \in {"idle", "pairs", "done"} => Calm
    /\ phase = "search" => Asked /\ Search /\ path = NoPath
    /\ phase = "found" => Asked /\ (visited # <<>> => Tree(visited, level, Origin)) /\ \E L \in Nat : Shortest(L)
    /\ phase = "lost" => Asked /\ path = NoPath /\ Target \notin Ball(Origin, request.depth)
                         /\ Search

LEMMA ProgressingInit ==
  ASSUME Init, PathInit
  PROVE  Progressing
BY DEF Init, PathInit, Progressing, Calm

\* What a call has in hand does not change while it runs.
LEMMA SameCall ==
  ASSUME Asked, graph' = graph, request' = request, i' = i, j' = j
  PROVE  /\ Asked' /\ Origin' = Origin /\ Target' = Target /\ \A n, K : Ball(n, K)' = Ball(n, K)
         /\ Placed => Placed'
BY BallStays DEF Asked, Origin, Target, Placed

LEMMA SameSearch ==
  ASSUME graph' = graph, request' = request, i' = i, j' = j, visited' = visited, level' = level, queue' = queue,
         current' = current, pending' = pending
  PROVE  /\ Search' <=> Search
         /\ Tree(visited, level, Origin)' <=> Tree(visited, level, Origin)
<1>1. \A a, e, n : Leads(a, e, n)' <=> Leads(a, e, n)
  BY LeadsStay
<1>2. Origin' = Origin /\ Target' = Target
  BY DEF Origin, Target
<1>3. Tree(visited, level, Origin)' <=> Tree(visited, level, Origin)
  BY <1>1, <1>2 DEF Tree
<1>4. Line' <=> Line
  BY DEF Line
<1>5. Frontier' <=> Frontier
  BY <1>2 DEF Frontier
<1>6. \A m : (Done(m)' <=> Done(m)) /\ (InLine(m)' <=> InLine(m)) /\ (Busy(m)' <=> Busy(m))
  BY <1>1 DEF Done, InLine, Busy
<1>7. Scanned' <=> Scanned
  BY <1>1, <1>6 DEF Scanned
<1>8. Shallow' <=> Shallow
  BY DEF Shallow
<1>9. (Target \notin DOMAIN visited)' <=> Target \notin DOMAIN visited
  BY <1>2
<1> QED
  BY <1>3, <1>4, <1>5, <1>7, <1>8, <1>9 DEF Search

\* From a node to itself the path is that node.
LEMMA NoWay ==
  ASSUME Asked, Origin = Target, path' = [nodes |-> <<Origin>>, edges |-> <<>>], Origin' = Origin, Target' = Target,
         request' = request
  PROVE  Shortest(0)'
<1>1. Origin \in Nodes /\ request.depth \in Nat
  BY AskedTypes
<1>2. 0 + 1 <= Cardinality(Nodes)
  <2>1. IsFiniteSet(Nodes) /\ Cardinality(Nodes) \in Nat
    BY GraphViewAssumption, FS_CardinalityType
  <2>2. Cardinality(Nodes) # 0
    BY <1>1, <2>1, FS_EmptySet
  <2> QED
    BY <2>1, <2>2
<1>3. path'.nodes = <<Origin>> /\ path'.edges = <<>>
  OBVIOUS
<1>4. IsSeq(path'.nodes) /\ Len(path'.nodes) = 0 + 1 /\ path'.nodes[1] = Origin /\ path'.nodes[0 + 1] = Origin
  <2>1. <<Origin>> \in Seq({Origin}) /\ Range(<<Origin>>) = {Origin}
    BY DEF Range
  <2> QED
    BY <1>3, <2>1 DEF IsSeq
<1>5. IsSeq(path'.edges) /\ Len(path'.edges) = 0
  BY <1>3, EmptyRange
<1>6. PathOf(path, Origin, Target, 0)'
  <2>1. \A k \in 1 .. (0 + 1) : path'.nodes[k] \in Nodes
    BY <1>1, <1>4
  <2>2. \A k \in 1 .. 0 : FALSE
    OBVIOUS
  <2> QED
    BY <1>4, <1>5, <2>1, <2>2 DEF PathOf
<1> QED
  BY <1>1, <1>2, <1>6 DEF Shortest

LEMMA ProgressingStarts ==
  ASSUME Progressing, StartSearch, Unchanged
  PROVE  Progressing'
<1>1. /\ phase = "pairs" /\ request' = request /\ i' = i /\ j' = j /\ graph' = graph
      /\ i <= Len(request.nodes) /\ j <= Len(request.nodes)
  BY DEF StartSearch, Unchanged
<1>2. Placed /\ Calm
  BY <1>1 DEF Progressing
<1>3. Asked
  <2>1. request.nodes \in Seq(Nodes)
    BY <1>2, RequestsAssumption DEF Placed
  <2>2. DOMAIN request.nodes = 1 .. Len(request.nodes) /\ Len(request.nodes) \in Nat
    BY <2>1
  <2> QED
    BY <1>1, <1>2, <2>2 DEF Asked, Placed, Progressing
<1>4. Asked' /\ Placed' /\ Origin' = Origin /\ Target' = Target /\ graph' \in Graphs
  BY <1>1, <1>2, <1>3, SameCall DEF Asked
<1>5. CASE Origin = Target
  <2>1. phase' = "found" /\ path' = [nodes |-> <<Origin>>, edges |-> <<>>] /\ visited' = <<>>
    BY <1>2, <1>5 DEF StartSearch, searchVars, Calm, NoSearch
  <2>2. Shortest(0)'
    BY <1>1, <1>3, <1>4, <1>5, <2>1, NoWay
  <2>3. (\E L \in Nat : Shortest(L))'
    BY <2>2
  <2> QED
    BY <1>4, <2>1, <2>3 DEF Progressing
<1>6. CASE Origin # Target
  <2>1. phase' = "search" /\ path' = NoPath /\ current = <<>> /\ pending = <<>>
    BY <1>2, <1>6 DEF StartSearch, Calm, NoSearch
  <2>2. Search'
    BY <1>3, <1>6, <2>1, SearchStarts
  <2> QED
    BY <1>4, <2>1, <2>2 DEF Progressing
<1> QED
  BY <1>5, <1>6

LEMMA ProgressingLooks ==
  ASSUME Progressing, Look, Unchanged
  PROVE  Progressing'
<1>1. phase = "search" /\ request' = request /\ i' = i /\ j' = j /\ graph' = graph
  BY DEF Look, Unchanged
<1>2. Asked /\ Search /\ path = NoPath /\ Placed
  BY <1>1 DEF Progressing
<1>3. Asked' /\ Placed' /\ graph' \in Graphs
  BY <1>1, <1>2, SameCall DEF Asked
<1>4. CASE ~ Meets
  <2>1. phase' = "search" /\ path' = NoPath
    BY <1>1, <1>2, <1>4 DEF Look, Meets
  <2> QED
    BY <1>2, <1>3, <1>4, <2>1, SearchPasses DEF Progressing
<1>5. CASE Meets /\ Head(pending)[2] # Target
  <2>1. phase' = "search" /\ path' = NoPath
    BY <1>1, <1>2, <1>5 DEF Look, Meets
  <2> QED
    BY <1>2, <1>3, <1>5, <2>1, SearchMeets DEF Progressing
<1>6. CASE Meets /\ Head(pending)[2] = Target
  <2>1. phase' = "found"
    BY <1>1, <1>6 DEF Look, Meets
  <2>2. Tree(visited, level, Origin)'
    BY <1>2, <1>6, TreeGrows
  <2>3. (\E L \in Nat : Shortest(L))'
    BY <1>2, <1>6, SearchFinds
  <2> QED
    BY <1>3, <2>1, <2>2, <2>3 DEF Progressing
<1> QED
  BY <1>4, <1>5, <1>6

LEMMA ProgressingStep ==
  ASSUME Progressing, [PathNext /\ Unchanged]_<<graph, pvars>>
  PROVE  Progressing'
<1>1. ASSUME NEW r \in Requests, Ask(r), Unchanged PROVE Progressing'
  BY <1>1 DEF Progressing, Ask, Unchanged, Placed, Calm, NoSearch, searchVars
<1>2. ASSUME Take, Unchanged PROVE Progressing'
  <2>1. /\ phase = "search" /\ phase' = phase /\ request' = request /\ i' = i /\ j' = j /\ graph' = graph /\ path' = path
    BY <1>2 DEF Take, Unchanged
  <2>2. Asked /\ Search /\ path = NoPath /\ Placed
    BY <2>1 DEF Progressing
  <2> QED
    BY <1>2, <2>1, <2>2, SameCall, SearchTakes DEF Progressing, Asked
<1>3. ASSUME GiveUp, Unchanged PROVE Progressing'
  <2>1. /\ phase = "search" /\ phase' = "lost" /\ request' = request /\ i' = i /\ j' = j /\ graph' = graph /\ path' = path
        /\ visited' = visited /\ level' = level /\ queue' = queue /\ current' = current /\ pending' = pending
        /\ pending = <<>> /\ queue = <<>>
    BY <1>3 DEF GiveUp, Unchanged, searchVars
  <2>2. Asked /\ Search /\ path = NoPath /\ Placed
    BY <2>1 DEF Progressing
  <2>3. Target \notin Ball(Origin, request.depth)
    BY <2>1, <2>2, NothingFound
  <2>4. Asked' /\ Placed' /\ Origin' = Origin /\ Target' = Target /\ \A n, K : Ball(n, K)' = Ball(n, K)
    BY <2>1, <2>2, SameCall
  <2>5. (Target \notin Ball(Origin, request.depth))'
    BY <2>1, <2>3, <2>4
  <2>6. Search'
    BY <2>1, <2>2, SameSearch
  <2> QED
    BY <2>1, <2>2, <2>4, <2>5, <2>6 DEF Progressing, Asked
<1>4. ASSUME Absorb, Unchanged PROVE Progressing'
  <2>1. /\ phase \in {"found", "lost"} /\ phase' \in {"done", "pairs"} /\ request' = request /\ i' = i /\ j' = j + 1
        /\ graph' = graph /\ path' = NoPath /\ NoSearch'
    BY <1>4 DEF Absorb, Unchanged, DropSearch, NoSearch, NextPlace
  <2>2. Placed /\ j + 1 \in Nat \ {0}
    BY <2>1 DEF Progressing, Placed
  <2>3. Placed'
    BY <2>1, <2>2 DEF Placed
  <2> QED
    BY <2>1, <2>3 DEF Progressing, Calm
<1>5. ASSUME NextNode, Unchanged PROVE Progressing'
  <2>1. /\ phase = "pairs" /\ phase' = "pairs" /\ request' = request /\ i' = i + 1 /\ j' = i + 2
        /\ graph' = graph /\ path' = path
        /\ visited' = visited /\ level' = level /\ queue' = queue /\ current' = current /\ pending' = pending
    BY <1>5 DEF NextNode, Unchanged, searchVars
  <2>2. Placed' /\ Calm'
    BY <2>1 DEF Progressing, Placed, Calm, NoSearch
  <2> QED
    BY <2>1, <2>2 DEF Progressing
<1>6. ASSUME Finish, Unchanged PROVE Progressing'
  BY <1>6 DEF Progressing, Finish, Unchanged, Placed, Calm, NoSearch, searchVars
<1>7. ASSUME Answer, Unchanged PROVE Progressing'
  BY <1>7 DEF Progressing, Answer, Unchanged, Placed, Calm, NoSearch, searchVars
<1>8. ASSUME UNCHANGED <<graph, pvars>> PROVE Progressing'
  <2>1. /\ phase' = phase /\ request' = request /\ i' = i /\ j' = j /\ graph' = graph /\ path' = path
        /\ visited' = visited /\ level' = level /\ queue' = queue /\ current' = current /\ pending' = pending
    BY <1>8 DEF pvars
  <2>2. \A a, e, n : Leads(a, e, n)' <=> Leads(a, e, n)
    BY <2>1, LeadsStay
  <2>3. \A n, K : Ball(n, K)' = Ball(n, K)
    BY <2>1, BallStays
  <2>4. Origin' = Origin /\ Target' = Target /\ (Asked' <=> Asked) /\ (Placed' <=> Placed) /\ (Calm' <=> Calm)
    BY <2>1 DEF Origin, Target, Asked, Placed, Calm, NoSearch
  <2>5. (Search' <=> Search) /\ (Tree(visited, level, Origin)' <=> Tree(visited, level, Origin))
    BY <2>1, SameSearch
  <2>6. ASSUME NEW L, Shortest(L) PROVE Shortest(L)'
    BY <2>1, <2>2, <2>3, <2>4, <2>6 DEF Shortest, PathOf
  <2> QED
    BY <2>1, <2>3, <2>4, <2>5, <2>6 DEF Progressing
<1> QED
  BY <1>1, <1>2, <1>3, <1>4, <1>5, <1>6, <1>7, <1>8, ProgressingStarts, ProgressingLooks DEF PathNext, SearchStep

LEMMA ProgressingLevels ==
  ASSUME Progressing
  PROVE  Levels
<1> SUFFICES ASSUME Searching
             PROVE  /\ level[Origin] = 0
                    /\ \A n \in DOMAIN visited \ {Origin} :
                          /\ visited[n][2] \in DOMAIN visited
                          /\ Leads(visited[n][2], visited[n][1], n)
                          /\ level[n] = level[visited[n][2]] + 1
                    /\ phase # "found" => \A m \in Expanded : Done(m)
  BY DEF Levels, Done
<1>1. Tree(visited, level, Origin)
  BY DEF Searching, Progressing, Search
<1>2. ASSUME phase # "found", NEW m \in Expanded PROVE Done(m)
  <2>1. Search
    BY <1>2 DEF Searching, Progressing
  <2>2. m \in DOMAIN visited /\ level[m] < request.depth /\ ~ InLine(m) /\ ~ Busy(m)
    BY DEF Expanded, InLine, Busy
  <2> QED
    BY <2>1, <2>2 DEF Search, Scanned
<1> QED
  BY <1>1, <1>2 DEF Tree

LEMMA ProgressingFound ==
  ASSUME Progressing
  PROVE  ShortestFound
<1>1. ASSUME phase = "found"
      PROVE  /\ path.nodes[1] = Origin /\ path.nodes[Len(path.nodes)] = Target
             /\ Len(path.nodes) = Len(path.edges) + 1
             /\ \A k \in DOMAIN path.edges : Leads(path.nodes[k], path.edges[k], path.nodes[k + 1])
             /\ Len(path.edges) <= request.depth
             /\ path.edges # <<>> => Target \notin Ball(Origin, Len(path.edges) - 1)
  <2>1. PICK L \in Nat : Shortest(L)
    BY <1>1 DEF Progressing
  <2>2. IsSeq(path.edges) /\ Len(path.edges) = L /\ PathOf(path, Origin, Target, L)
    BY <2>1 DEF Shortest, PathOf
  <2>3. DOMAIN path.edges = 1 .. L
    BY <2>2, SeqShape
  <2>4. path.edges # <<>> => L # 0
    BY <2>2 DEF IsSeq
  <2> QED
    BY <2>1, <2>2, <2>3, <2>4 DEF Shortest, PathOf
<1>2. phase = "lost" => Target \notin Ball(Origin, request.depth)
  BY DEF Progressing
<1> QED
  BY <1>1, <1>2 DEF ShortestFound

\* Distances come out right whatever the graph, the order of its edges and the limit: a node is
\* met along an edge from one a level up, and what was passed hides no shorter way
\* (bfs in shortest_path).
THEOREM LevelsHold == PathSpec => []Levels
BY ProgressingInit, ProgressingStep, ProgressingLevels, PTL DEF PathSpec

\* A path that is found is a shortest one of the wanted types and directions, and a search that
\* is lost has nothing within its limit (shortest_path, reconstruct_path).
THEOREM PathsAreShortest == PathSpec => []ShortestFound
BY ProgressingInit, ProgressingStep, ProgressingFound, PTL DEF PathSpec

-----------------------------------------------------------------------------
(* Pathfinding: subgraphs. *)

\* A way from a to b along the edges of E that meets no node twice.
Linked(E, a, b) ==
    \E p : \E L \in Nat : PathOf(p, a, b, L) /\ L <= Cardinality(Nodes) /\ \A k \in 1 .. L : p.edges[k] \in E

\* The searches for the pairs before this one have added what they found.
Gathered ==
    /\ phase = "idle" => allNodes = {} /\ allEdges = {}
    /\ phase # "idle" /\ request.kind = "subgraph" =>
          /\ allEdges \subseteq Edges
          /\ \A e \in allEdges : From(e) \in allNodes /\ To(e) \in allNodes
          /\ \A k \in 1 .. Len(request.nodes) : k < i => request.nodes[k] \in allNodes
          /\ \A k, l \in 1 .. Len(request.nodes) :
                k < l /\ (k < i \/ (k = i /\ l < j)) /\ request.nodes[l] \in Ball(request.nodes[k], request.depth)
                    => Linked(allEdges, request.nodes[k], request.nodes[l])
          /\ phase = "done" => Len(request.nodes) < i

LEMMA LinkedStay ==
  ASSUME graph' = graph, request' = request
  PROVE  \A E, a, b : Linked(E, a, b)' <=> Linked(E, a, b)
<1>1. \A a, e, n : Leads(a, e, n)' <=> Leads(a, e, n)
  BY LeadsStay
<1>2. \A p, a, b, L : PathOf(p, a, b, L)' <=> PathOf(p, a, b, L)
  BY <1>1 DEF PathOf
<1> QED
  BY <1>2 DEF Linked

LEMMA LinkedGrow ==
  ASSUME NEW E, NEW F, E \subseteq F, NEW a, NEW b, Linked(E, a, b)
  PROVE  Linked(F, a, b)
BY DEF Linked

\* What such a way joins is found by hops along the same edges.
LEMMA LinkedHops ==
  ASSUME NEW E, NEW a, NEW b, Linked(E, a, b), NEW K \in Nat, K = Cardinality(Nodes), NEW f, Hops(f, a, K, E)
  PROVE  b \in f[K]
<1>1. \A l \in 0 .. K : f[l] = IF l = 0 THEN {a} ELSE Hop(f[l - 1], E)
  <2>1. f = [l \in 0 .. K |-> IF l = 0 THEN {a} ELSE Hop(f[l - 1], E)]
    BY DEF Hops
  <2> QED
    BY <2>1
<1>2. PICK p : \E L \in Nat : PathOf(p, a, b, L) /\ L <= K /\ \A k \in 1 .. L : p.edges[k] \in E
  BY DEF Linked
<1>3. PICK L \in Nat : PathOf(p, a, b, L) /\ L <= K /\ \A k \in 1 .. L : p.edges[k] \in E
  BY <1>2
<1> DEFINE T == {l \in Nat : /\ l <= L => p.nodes[l + 1] \in f[l]
                             /\ L <= l /\ l <= K => b \in f[l]}
<1>4. 0 \in T
  BY <1>3, <1>1 DEF PathOf
<1>5. ASSUME NEW l \in Nat, l \in T PROVE l + 1 \in T
  <2>1. l + 1 <= K => f[l + 1] = Hop(f[l], E)
    <3> SUFFICES ASSUME l + 1 <= K PROVE f[l + 1] = Hop(f[l], E)
      OBVIOUS
    <3>1. l + 1 \in 0 .. K /\ l + 1 # 0 /\ (l + 1) - 1 = l
      OBVIOUS
    <3> QED
      BY <1>1, <3>1
  <2>2. ASSUME l + 1 <= L PROVE p.nodes[(l + 1) + 1] \in f[l + 1]
    <3>1. l + 1 \in 1 .. L /\ (l + 1) + 1 \in 1 .. (L + 1) /\ l <= L /\ l + 1 <= K
      BY <1>3, <2>2
    <3>2. /\ Leads(p.nodes[l + 1], p.edges[l + 1], p.nodes[(l + 1) + 1])
          /\ p.edges[l + 1] \in E /\ p.nodes[(l + 1) + 1] \in Nodes
      BY <1>3, <3>1 DEF PathOf
    <3>3. p.nodes[l + 1] \in f[l]
      BY <1>5, <3>1
    <3> QED
      BY <2>1, <3>1, <3>2, <3>3 DEF Hop
  <2>3. ASSUME L <= l + 1, l + 1 <= K PROVE b \in f[l + 1]
    <3>1. CASE L = l + 1
      BY <1>3, <2>2, <3>1 DEF PathOf
    <3>2. CASE L <= l
      BY <1>5, <2>1, <2>3, <3>2 DEF Hop
    <3> QED
      BY <2>3, <3>1, <3>2
  <2> QED
    BY <2>2, <2>3
<1>6. K \in T
  <2> HIDE DEF T
  <2> QED
    BY <1>4, <1>5, SetInduction
<1> QED
  BY <1>3, <1>6

\* A path that was found goes into the sets whole.
LEMMA GatheredFound ==
  ASSUME Progressing, Gathered, Absorb, Unchanged, phase = "found", request.kind = "subgraph"
  PROVE  /\ allEdges' \subseteq Edges /\ allEdges \subseteq allEdges' /\ allNodes \subseteq allNodes'
         /\ \A e \in allEdges' : From(e) \in allNodes' /\ To(e) \in allNodes'
         /\ Linked(allEdges', Origin, Target)
<1>1. PICK L \in Nat : Shortest(L)
  BY DEF Progressing
<1>2. PathOf(path, Origin, Target, L) /\ L + 1 <= Cardinality(Nodes) /\ Cardinality(Nodes) \in Nat
  BY <1>1, GraphViewAssumption, FS_CardinalityType DEF Shortest
<1>3. /\ DOMAIN path.edges = 1 .. L /\ DOMAIN path.nodes = 1 .. (L + 1)
  BY <1>2, SeqShape DEF PathOf
<1>4. allNodes' = allNodes \cup Range(path.nodes) /\ allEdges' = allEdges \cup Range(path.edges)
  BY DEF Absorb, Extended
<1>5. \A k \in 1 .. L : path.edges[k] \in Edges /\ path.edges[k] \in allEdges'
  BY <1>2, <1>3, <1>4 DEF PathOf, Range
<1>6. allEdges \subseteq Edges /\ \A e \in allEdges : From(e) \in allNodes /\ To(e) \in allNodes
  BY DEF Gathered
<1>7. \A e \in Range(path.edges) : \E k \in 1 .. L : e = path.edges[k]
  BY <1>3 DEF Range
<1>8. ASSUME NEW e \in Range(path.edges) PROVE e \in Edges /\ From(e) \in allNodes' /\ To(e) \in allNodes'
  <2>1. PICK k \in 1 .. L : e = path.edges[k]
    BY <1>7
  <2>2. k \in DOMAIN path.nodes /\ k + 1 \in DOMAIN path.nodes
    BY <1>3
  <2>3. path.nodes[k] \in allNodes' /\ path.nodes[k + 1] \in allNodes'
    BY <1>4, <2>2 DEF Range
  <2>4. Leads(path.nodes[k], e, path.nodes[k + 1])
    BY <1>2, <2>1 DEF PathOf
  <2> QED
    BY <1>5, <2>1, <2>3, <2>4 DEF Leads
<1>9. Linked(allEdges', Origin, Target)
  <2>1. L <= Cardinality(Nodes)
    BY <1>2
  <2> QED
    BY <1>2, <1>5, <2>1 DEF Linked
<1> QED
  BY <1>4, <1>6, <1>8, <1>9

LEMMA GatheredAbsorbs ==
  ASSUME Progressing, Gathered, Absorb, Unchanged
  PROVE  Gathered'
<1> DEFINE wanted == request.nodes
<1>1. /\ phase \in {"found", "lost"} /\ request' = request /\ i' = i /\ j' = j + 1 /\ graph' = graph
      /\ phase' = IF request.kind = "path" THEN "done" ELSE "pairs"
  BY DEF Absorb, Unchanged, NextPlace
<1>2. Asked
  BY <1>1 DEF Progressing
<1>3. i \in Nat /\ j \in Nat /\ Len(wanted) \in Nat
  BY <1>2, AskedTypes
<1> SUFFICES ASSUME request.kind = "subgraph" PROVE Gathered'
  BY <1>1 DEF Gathered
<1>4. phase' = "pairs"
  BY <1>1
<1>5. /\ allEdges' \subseteq Edges /\ allEdges \subseteq allEdges' /\ allNodes \subseteq allNodes'
      /\ \A e \in allEdges' : From(e) \in allNodes' /\ To(e) \in allNodes'
      /\ Target \in Ball(Origin, request.depth) => Linked(allEdges', Origin, Target)
  <2>1. CASE phase = "found"
    BY <2>1, GatheredFound
  <2>2. CASE phase = "lost"
    <3>1. path = NoPath /\ Target \notin Ball(Origin, request.depth)
      BY <2>2 DEF Progressing
    <3>2. allNodes' = allNodes /\ allEdges' = allEdges
      <4>1. path.nodes = <<>> /\ path.edges = <<>>
        BY <3>1 DEF NoPath
      <4>2. Range(path.nodes) = {} /\ Range(path.edges) = {}
        BY <4>1, EmptyRange
      <4> QED
        BY <4>2 DEF Absorb, Extended
    <3> QED
      BY <1>1, <3>1, <3>2 DEF Gathered
  <2> QED
    BY <1>1, <2>1, <2>2
<1>6. \A n, K : Ball(n, K)' = Ball(n, K)
  BY <1>1, BallStays
<1>7. \A e : From(e)' = From(e) /\ To(e)' = To(e)
  BY <1>1 DEF From, To
<1>8. ASSUME NEW k \in 1 .. Len(wanted), NEW l \in 1 .. Len(wanted), k < l, k < i \/ (k = i /\ l < j + 1),
             wanted[l] \in Ball(wanted[k], request.depth)
      PROVE  Linked(allEdges', wanted[k], wanted[l])
  <2>1. CASE k < i \/ (k = i /\ l < j)
    <3>1. Linked(allEdges, wanted[k], wanted[l])
      BY <1>1, <1>8, <2>1 DEF Gathered
    <3> QED
      BY <1>5, <3>1, LinkedGrow
  <2>2. CASE k = i /\ l = j
    BY <1>5, <1>8, <2>2 DEF Origin, Target
  <2> QED
    BY <1>3, <1>8, <2>1, <2>2
<1>9. ASSUME NEW k \in 1 .. Len(wanted), k < i PROVE wanted[k] \in allNodes'
  BY <1>1, <1>5, <1>9 DEF Gathered
<1>10. ASSUME NEW k \in 1 .. Len(wanted), NEW l \in 1 .. Len(wanted), k < l, k < i \/ (k = i /\ l < j + 1),
              wanted[l] \in Ball(wanted[k], request.depth)
       PROVE  Linked(allEdges, wanted[k], wanted[l])'
  BY <1>1, <1>8, <1>10, LinkedStay
<1> QED
  BY <1>1, <1>4, <1>5, <1>6, <1>7, <1>9, <1>10 DEF Gathered

LEMMA GatheredNext ==
  ASSUME Progressing, Gathered, NextNode, Unchanged
  PROVE  Gathered'
<1> DEFINE wanted == request.nodes
<1>1. /\ phase = "pairs" /\ phase' = "pairs" /\ request' = request /\ i' = i + 1 /\ j' = i + 2 /\ graph' = graph
      /\ allNodes' = allNodes \cup {Origin} /\ allEdges' = allEdges /\ j > Len(wanted)
  BY DEF NextNode, Unchanged
<1>2. Placed
  BY <1>1 DEF Progressing
<1>3. i \in Nat /\ j \in Nat /\ Len(wanted) \in Nat
  <2>1. wanted \in Seq(Nodes)
    BY <1>2, RequestsAssumption DEF Placed
  <2> QED
    BY <1>2, <2>1 DEF Placed
<1> SUFFICES ASSUME request.kind = "subgraph" PROVE Gathered'
  BY <1>1 DEF Gathered
<1>4. \A n, K : Ball(n, K)' = Ball(n, K)
  BY <1>1, BallStays
<1>5. \A e : From(e)' = From(e) /\ To(e)' = To(e)
  BY <1>1 DEF From, To
<1>6. ASSUME NEW k \in 1 .. Len(wanted), NEW l \in 1 .. Len(wanted), k < l, k < i + 1 \/ (k = i + 1 /\ l < i + 2),
             wanted[l] \in Ball(wanted[k], request.depth)
      PROVE  Linked(allEdges, wanted[k], wanted[l])
  <2>1. k < i \/ (k = i /\ l < j)
    BY <1>1, <1>3, <1>6
  <2> QED
    BY <1>1, <1>6, <2>1 DEF Gathered
<1>7. ASSUME NEW k \in 1 .. Len(wanted), NEW l \in 1 .. Len(wanted), k < l, k < i + 1 \/ (k = i + 1 /\ l < i + 2),
             wanted[l] \in Ball(wanted[k], request.depth)
      PROVE  Linked(allEdges, wanted[k], wanted[l])'
  <2>1. \A E, a, b : Linked(E, a, b)' <=> Linked(E, a, b)
    BY <1>1, LinkedStay
  <2> QED
    BY <1>1, <1>6, <1>7, <2>1
<1>8. ASSUME NEW k \in 1 .. Len(wanted), k < i + 1 PROVE wanted[k] \in allNodes'
  <2>1. k < i \/ k = i
    BY <1>3, <1>8
  <2> QED
    BY <1>1, <1>8, <2>1 DEF Gathered, Origin
<1>9. allEdges' \subseteq Edges /\ \A e \in allEdges' : From(e) \in allNodes' /\ To(e) \in allNodes'
  BY <1>1 DEF Gathered
<1> QED
  BY <1>1, <1>4, <1>5, <1>7, <1>8, <1>9 DEF Gathered

LEMMA GatheredAsks ==
  ASSUME Gathered, NEW r \in Requests, Ask(r)
  PROVE  Gathered'
<1>1. allNodes' = {} /\ allEdges' = {} /\ phase' = "pairs" /\ i' = 1 /\ j' = 2
  BY DEF Ask, Gathered
<1>2. \A k \in 1 .. Len(request'.nodes) : ~ (k < 1)
  OBVIOUS
<1>3. \A k, l \in 1 .. Len(request'.nodes) : ~ (k < l /\ k = 1 /\ l < 2)
  OBVIOUS
<1> QED
  BY <1>1, <1>2, <1>3 DEF Gathered

\* Steps that keep the sets, the pair and the call.
LEMMA GatheredKeeps ==
  ASSUME Gathered, graph' = graph, request' = request, i' = i, j' = j, allNodes' = allNodes, allEdges' = allEdges,
         phase = "idle" <=> phase' = "idle", phase' = "done" /\ phase # "done" => Len(request.nodes) < i
  PROVE  Gathered'
<1>1. \A n, K : Ball(n, K)' = Ball(n, K)
  BY BallStays
<1>2. \A e : From(e)' = From(e) /\ To(e)' = To(e)
  BY DEF From, To
<1>3. \A E, a, b : Linked(E, a, b)' <=> Linked(E, a, b)
  BY LinkedStay
<1>4. ASSUME NEW k, NEW l, Linked(allEdges, request.nodes[k], request.nodes[l])
      PROVE  Linked(allEdges, request.nodes[k], request.nodes[l])'
  BY <1>3, <1>4
<1> QED
  BY <1>1, <1>2, <1>4 DEF Gathered

LEMMA GatheredStep ==
  ASSUME Progressing, Gathered, [PathNext /\ Unchanged]_<<graph, pvars>>
  PROVE  Gathered'
<1>1. ASSUME StartSearch \/ Take \/ Look \/ GiveUp, Unchanged PROVE Gathered'
  <2>1. /\ graph' = graph /\ request' = request /\ i' = i /\ j' = j /\ allNodes' = allNodes /\ allEdges' = allEdges
        /\ phase # "idle" /\ phase' \notin {"idle", "done"}
    BY <1>1 DEF StartSearch, Take, Look, GiveUp, Unchanged
  <2> QED
    BY <2>1, GatheredKeeps
<1>2. ASSUME Finish, Unchanged PROVE Gathered'
  <2>1. /\ graph' = graph /\ request' = request /\ i' = i /\ j' = j /\ allNodes' = allNodes /\ allEdges' = allEdges
        /\ phase = "pairs" /\ phase' = "done" /\ i > Len(request.nodes)
    BY <1>2 DEF Finish, Unchanged
  <2>2. i \in Nat /\ Len(request.nodes) \in Nat
    <3>1. Placed
      BY <2>1 DEF Progressing
    <3>2. request.nodes \in Seq(Nodes)
      BY <3>1, RequestsAssumption DEF Placed
    <3> QED
      BY <3>1, <3>2 DEF Placed
  <2>3. Len(request.nodes) < i
    BY <2>1, <2>2
  <2> QED
    BY <2>1, <2>3, GatheredKeeps
<1>3. ASSUME Answer, Unchanged PROVE Gathered'
  BY <1>3 DEF Answer, Gathered
<1>4. ASSUME UNCHANGED <<graph, pvars>> PROVE Gathered'
  <2>1. /\ graph' = graph /\ request' = request /\ i' = i /\ j' = j /\ allNodes' = allNodes /\ allEdges' = allEdges
        /\ phase' = phase
    BY <1>4 DEF pvars
  <2> QED
    BY <2>1, GatheredKeeps
<1> QED
  BY <1>1, <1>2, <1>3, <1>4, GatheredAsks, GatheredAbsorbs, GatheredNext DEF PathNext, SearchStep

LEMMA GatheredInit ==
  ASSUME PathInit
  PROVE  Gathered
BY DEF PathInit, Gathered

LEMMA GatheredConnects ==
  ASSUME Progressing, Gathered
  PROVE  SubgraphConnects
<1> DEFINE wanted == request.nodes
           K == Cardinality(Nodes)
           Ways(n) == CHOOSE f : Hops(f, n, K, allEdges)
<1> SUFFICES ASSUME phase = "done", request.kind = "subgraph"
             PROVE  /\ Range(wanted) \subseteq allNodes
                    /\ \A e \in allEdges : {From(e), To(e)} \subseteq allNodes
                    /\ \A k, l \in DOMAIN wanted :
                          k < l /\ wanted[l] \in Ball(wanted[k], request.depth) => wanted[l] \in Ways(wanted[k])[K]
  BY DEF SubgraphConnects, Hops, Hop
<1>1. Placed
  BY DEF Progressing
<1>2. wanted \in Seq(Nodes)
  BY <1>1, RequestsAssumption DEF Placed
<1>3. DOMAIN wanted = 1 .. Len(wanted) /\ Len(wanted) \in Nat /\ i \in Nat /\ Len(wanted) < i
  BY <1>1, <1>2 DEF Gathered, Placed
<1>4. \A k \in DOMAIN wanted : k < i
  BY <1>3
<1>5. Range(wanted) \subseteq allNodes
  BY <1>3, <1>4 DEF Gathered, Range
<1>6. \A e \in allEdges : {From(e), To(e)} \subseteq allNodes
  BY DEF Gathered
<1>7. K \in Nat
  BY GraphViewAssumption, FS_CardinalityType
<1>8. ASSUME NEW k \in DOMAIN wanted, NEW l \in DOMAIN wanted, k < l, wanted[l] \in Ball(wanted[k], request.depth)
      PROVE  wanted[l] \in Ways(wanted[k])[K]
  <2>1. Linked(allEdges, wanted[k], wanted[l])
    BY <1>3, <1>4, <1>8 DEF Gathered
  <2>2. Hops(Ways(wanted[k]), wanted[k], K, allEdges)
    BY <1>7, HopsExist
  <2> QED
    BY <1>7, <2>1, <2>2, LinkedHops
<1> QED
  BY <1>5, <1>6, <1>8

\* A subgraph joins every two of the nodes asked for that one search would join, and holds both
\* ends of its edges, however many searches come in between (connecting_subgraph).
THEOREM SubgraphsConnect == PathSpec => []SubgraphConnects
BY ProgressingInit, ProgressingStep, GatheredInit, GatheredStep, GatheredConnects, PTL DEF PathSpec
===============================================================================
