---------------------------- MODULE BlocksProofs ----------------------------
(***************************************************************************)
(* Theorems about the block store: a block that is ready has its data and  *)
(* its links, and what a finished job went through has a name.             *)
(***************************************************************************)
EXTENDS Blocks, FiniteSetTheorems, TLAPS

\* A block on its way into the metadata has its data, but for a deletion.
DataFirst ==
    /\ \A c \in Range(batch) : c \in object \union raced
    /\ \A j \in Jobs : jobs[j].cur # None => jobs[j].cur \in object \union raced
StoredInv == ReadyIsStored /\ DataFirst

\* All the links in a block's data are there while it is ready and uncut.
LinksPresent == \A c \in Cids : BlockExists(c) /\ c \notin cut => UniqLinks(c) \subseteq Present

\* The block and what it links to are among the excepted.
Lost(c) == Linked({c}) \subseteq unnamed

\* Whoever adds links to a block, or is about to, has its data.
ParentsStored ==
    /\ deleting # None => Lost(deleting)
    /\ \A c \in Range(batch) : c \in object \/ Lost(c)
    /\ \A j \in Jobs : jobs[j].cur # None => jobs[j].cur \in object \/ Lost(jobs[j].cur)
    /\ \A l \in Present : l.parent \in object \/ Lost(l.parent)

\* A ready block has a node and its links.
ReadyIsWhole ==
    \A c \in Cids : BlockExists(c) =>
        /\ node[c] # None \/ c \in unnamed
        /\ \A l \in UniqLinks(c) : l \in Present \/ l.child \in unnamed

Walked == {"put", "names", "refetch", "fetched", "store", "gaps", "done"}

\* A job's walk goes down from its root.
Down(j) ==
    /\ At(j, {"collect"}) => jobs[j].cur = None /\ jobs[j].root \in Cids
    /\ At(j, {"put"}) /\ jobs[j].cur # None => jobs[j].cur \in jobs[j].todo
    /\ At(j, {"put", "names"}) => jobs[j].todo \subseteq jobs[j].walk
    /\ At(j, Walked) =>
         /\ jobs[j].walk \subseteq Reachable(jobs[j].root)
         /\ \A x \in jobs[j].walk \ {jobs[j].root} : \E y \in jobs[j].walk \ {x} : x \in Children(y)
WalkDown == \A j \in Jobs : Down(j)

\* What a job has walked through is ready or still ahead of it.
Ahead(j, y) == At(j, {"put"}) /\ (y \in jobs[j].todo \/ y \in Range(batch))
WalkStored ==
    \A j \in Jobs : At(j, Walked) => \A y \in jobs[j].walk : Lost(y) \/ BlockExists(y) \/ Ahead(j, y)

\* A job that will still give the block its name.
Owes(k, x) ==
    \/ At(k, {"put"}) /\ x \in jobs[k].walk
    \/ At(k, {"names"}) /\ x \in jobs[k].todo
Through(j, x) ==
    \/ At(j, {"names"}) /\ x \notin jobs[j].todo
    \/ At(j, {"refetch", "fetched", "store", "gaps", "done"})

BatchOwed == \A x \in Range(batch) : x \in unnamed \/ \E k \in Jobs : At(k, {"put"}) /\ x \in jobs[k].walk
NamedOrOwed ==
    \A j \in Jobs : \A x \in jobs[j].walk \ {jobs[j].root} : Through(j, x) =>
        x \in unnamed \/ node[x] \in Names \/ \E k \in Jobs : Owes(k, x)

NamesInv == ParentsStored /\ ReadyIsWhole /\ WalkDown /\ WalkStored /\ BatchOwed /\ NamedOrOwed
-----------------------------------------------------------------------------
(* Data.  The library's induction principles range over operators; the well- *)
(* foundedness of finite sets gives least elements without one.             *)

\* A set of natural numbers that is not empty has a least element: the first
\* link of a block to another, and the link row with the lowest id, exist.
LEMMA LeastNumber ==
    ASSUME NEW S \in SUBSET Nat, S # {}
    PROVE  \E m \in S : \A k \in S : m <= k
<1> DEFINE T == {0..m : m \in S}
<1>1. T \subseteq FiniteSubsetsOf(Nat)
    <2> SUFFICES ASSUME NEW m \in S PROVE 0..m \in FiniteSubsetsOf(Nat)
        OBVIOUS
    <2>1. m \in Int /\ 0 \in Int
        OBVIOUS
    <2>2. IsFiniteSet(0..m)
        BY <2>1, FS_Interval
    <2> QED
        BY <2>2 DEF FiniteSubsetsOf
<1>2. IsWellFoundedOn(StrictSubsetOrdering(Nat), FiniteSubsetsOf(Nat))
    BY FS_StrictSubsetOrderingWellFounded
<1>3. T # {}
    OBVIOUS
<1>4. \E x \in T : \A y \in T : <<y, x>> \notin StrictSubsetOrdering(Nat)
    <2> HIDE DEF T
    <2> QED
        BY <1>1, <1>2, <1>3, WFMin
<1>5. PICK m \in S : \A k \in S : <<0..k, 0..m>> \notin StrictSubsetOrdering(Nat)
    BY <1>4
<1>6. ASSUME NEW k \in S, k < m
      PROVE  FALSE
    <2>1. 0..k \subseteq 0..m /\ 0..k # 0..m /\ 0..k \subseteq Nat /\ 0..m \subseteq Nat
        BY <1>6
    <2>2. <<0..k, 0..m>> \in StrictSubsetOrdering(Nat)
        BY <2>1 DEF StrictSubsetOrdering
    <2> QED
        BY <2>2, <1>5
<1> QED
    BY <1>6

\* There are finitely many link rows, so that counting them gives numbers.
LEMMA RowsFinite == IsFiniteSet(LinkRow)
<1>1. ASSUME NEW c \in Cids
      PROVE  IsFiniteSet(UniqLinks(c))
    <2> DEFINE R(i) == [parent |-> c, child |-> Links[c][i].cid, index |-> Cardinality({k \in FirstLinks(c) : k <= i})]
    <2>1. Links[c] \in Seq([cid : Cids, name : STRING])
        BY BlocksAssumption
    <2>2. IsFiniteSet(1..Len(Links[c])) /\ FirstLinks(c) \in SUBSET (1..Len(Links[c]))
        BY <2>1, FS_Interval DEF FirstLinks
    <2>3. IsFiniteSet(FirstLinks(c))
        BY <2>2, FS_Subset
    <2>4. [i \in FirstLinks(c) |-> R(i)] \in Surjection(FirstLinks(c), UniqLinks(c))
        BY DEF Surjection, UniqLinks
    <2> QED
        BY <2>3, <2>4, FS_Surjection
<1>2. [c \in Cids |-> UniqLinks(c)] \in Surjection(Cids, {UniqLinks(c) : c \in Cids})
    BY DEF Surjection
<1>3. IsFiniteSet({UniqLinks(c) : c \in Cids})
    BY <1>2, FS_Surjection, BlocksAssumption
<1> QED
    BY <1>1, <1>3, FS_UNION DEF LinkRow

\* What a link row says is what the parent's data says at that link.
LEMMA RowData ==
    ASSUME NEW c \in Cids, NEW l \in UniqLinks(c)
    PROVE  \E i \in FirstLinks(c) : l.parent = c /\ l.child = Links[c][i].cid
<1> DEFINE Place(i) == Cardinality({k \in FirstLinks(c) : k <= i})
<1>1. PICK i \in FirstLinks(c) : l = [parent |-> c, child |-> Links[c][i].cid, index |-> Place(i)]
    BY Zenon DEF UniqLinks
<1> HIDE DEF Place
<1> QED
    BY <1>1

\* A link row is its parent's, and its child is one the parent links to.
LEMMA RowsOfParents ==
    /\ \A c \in Cids : \A l \in UniqLinks(c) :
          l \in LinkRow /\ l.parent = c /\ l.child \in Children(c)
    /\ \A l \in LinkRow : l.parent \in Cids /\ l \in UniqLinks(l.parent)
    /\ \A c \in Cids : Children(c) \subseteq Cids
<1>1. ASSUME NEW c \in Cids
      PROVE  Children(c) \subseteq Cids
    <2> DEFINE E == [cid : Cids, name : STRING]
    <2>1. Links[c] \in Seq(E)
        BY BlocksAssumption
    <2>2. \A e \in E : e.cid \in Cids
        OBVIOUS
    <2>3. Range(Links[c]) \subseteq E
        <3> HIDE DEF E
        <3> QED
            BY <2>1 DEF Range
    <2> QED
        BY <2>2, <2>3 DEF Children
<1>2. ASSUME NEW c \in Cids, NEW l \in UniqLinks(c)
      PROVE  l \in LinkRow /\ l.parent = c /\ l.child \in Children(c)
    <2>1. \E i \in FirstLinks(c) : l.parent = c /\ l.child = Links[c][i].cid
        BY RowData
    <2>2. l.child \in Children(c)
        BY <2>1 DEF FirstLinks, Children, Range
    <2> QED
        BY <2>1, <2>2 DEF LinkRow
<1> QED
    BY <1>1, <1>2 DEF LinkRow

\* Every block a block links to has its link row, however often it is linked.
LEMMA RowOfChild ==
    ASSUME NEW c \in Cids, NEW x \in Children(c)
    PROVE  \E l \in UniqLinks(c) : l.child = x
<1> DEFINE S == {i \in DOMAIN Links[c] : Links[c][i].cid = x}
<1>1. Links[c] \in Seq([cid : Cids, name : STRING])
    BY BlocksAssumption
<1>2. S \in SUBSET Nat /\ S # {}
    BY <1>1 DEF Children, Range
<1>3. PICK m \in S : \A k \in S : m <= k
    BY <1>2, LeastNumber
<1>4. m \in FirstLinks(c)
    BY <1>1, <1>3 DEF FirstLinks
<1>5. [parent |-> c, child |-> Links[c][m].cid, index |-> Cardinality({k \in FirstLinks(c) : k <= m})] \in UniqLinks(c)
    BY <1>4 DEF UniqLinks
<1> QED
    BY <1>3, <1>5

\* A link is found by its name in the parent's data.
LEMMA NameOfRow ==
    ASSUME NEW l \in LinkRow
    PROVE  Links[l.parent][CHOOSE i \in FirstLinks(l.parent) : Links[l.parent][i].cid = l.child].name \in Names
<1>1. l.parent \in Cids /\ l \in UniqLinks(l.parent)
    BY RowsOfParents
<1>2. \E i \in FirstLinks(l.parent) : Links[l.parent][i].cid = l.child
    BY <1>1, RowData
<1> DEFINE i == CHOOSE i \in FirstLinks(l.parent) : Links[l.parent][i].cid = l.child
<1>3. i \in DOMAIN Links[l.parent]
    BY <1>2 DEF FirstLinks
<1>4. Links[l.parent][i] \in Range(Links[l.parent])
    BY <1>3 DEF Range
<1> HIDE DEF i
<1>5. Links[l.parent][i].name \in Names
    BY <1>1, <1>4 DEF Names
<1> QED
    BY <1>5 DEF i

\* What is reached is linked to by something else that is reached.
LEMMA ReachedFromRoot ==
    ASSUME NEW r \in Cids
    PROVE  /\ r \in Reachable(r) /\ Reachable(r) \subseteq Cids
           /\ \A x \in Reachable(r) \ {r} : \E y \in Reachable(r) \ {x} : x \in Children(y)
<1>1. r \in Reachable(r) /\ Reachable(r) \subseteq Cids
    BY DEF Reachable
<1>2. ASSUME NEW S \in SUBSET Cids, r \in S, Closed(S)
      PROVE  Reachable(r) \subseteq S
    BY <1>2 DEF Reachable
<1>3. Closed(Reachable(r))
    BY RowsOfParents DEF Reachable, Closed
<1>4. ASSUME NEW x \in Reachable(r) \ {r}, \A y \in Reachable(r) \ {x} : x \notin Children(y)
      PROVE  FALSE
    <2> DEFINE S == Reachable(r) \ {x}
    <2>1. Closed(S)
        BY <1>3, <1>4 DEF Closed
    <2>2. S \in SUBSET Cids /\ r \in S
        BY <1>1
    <2> QED
        BY <1>2, <2>1, <2>2
<1> QED
    BY <1>1, <1>4
-----------------------------------------------------------------------------
(* The metadata store: what its two transactions do to the link rows.       *)

\* Link rows that are there are finite in number, and a subset can be counted.
LEMMA RowsCounted ==
    ASSUME NEW S \in SUBSET LinkRow
    PROVE  /\ IsFiniteSet(S) /\ Cardinality(S) \in Nat
           /\ S # {} => Cardinality(S) > 0
<1>1. IsFiniteSet(S)
    BY RowsFinite, FS_Subset
<1> QED
    BY <1>1, FS_CardinalityType, FS_EmptySet

\* BatchPin: afterwards all links of the batch's blocks are there, and all that
\* were there before.
LEMMA PinnedRows ==
    ASSUME link \in [LinkRow -> Nat], NEW b \in Seq(Cids), BatchPin(b)
    PROVE  /\ link' \in [LinkRow -> Nat]
           /\ Present' = Present \union UNION {UniqLinks(c) : c \in Range(b)}
<1> DEFINE added == UNION {PinPreparedBlock(c) : c \in Range(b)}
           turn(c) == Cardinality({i \in DOMAIN b : \A k \in 1..i : b[k] # c})
           before(l) == {k \in added : \/ turn(k.parent) < turn(l.parent)
                                       \/ k.parent = l.parent /\ k.index < l.index}
           id(l) == Cardinality(Present) + Cardinality(before(l)) + 1
<1>1. link' = [l \in LinkRow |-> IF l \in added THEN id(l) ELSE link[l]]
    BY Zenon DEF BatchPin
<1>2. Range(b) \subseteq Cids
    BY DEF Range
<1>3. added \subseteq LinkRow
    BY <1>2 DEF PinPreparedBlock, LinkRow
<1>4. added \union Present = Present \union UNION {UniqLinks(c) : c \in Range(b)}
    BY DEF PinPreparedBlock
<1>5. ASSUME NEW l
      PROVE  id(l) \in Nat /\ id(l) > 0
    <2>1. Present \in SUBSET LinkRow /\ before(l) \in SUBSET LinkRow
        BY <1>3 DEF Present
    <2>2. Cardinality(Present) \in Nat /\ Cardinality(before(l)) \in Nat
        BY <2>1, RowsCounted
    <2> HIDE DEF before
    <2> QED
        BY <2>2
<1> HIDE DEF id, added
<1>6. link' \in [LinkRow -> Nat]
    BY <1>1, <1>5
<1>7. Present' = {l \in LinkRow : l \in added \/ link[l] > 0}
    BY <1>1, <1>5 DEF Present
<1> QED
    BY <1>3, <1>4, <1>6, <1>7 DEF Present

\* Unpin: the rows from and to the block go, and no others.
LEMMA UnpinnedRows ==
    ASSUME link \in [LinkRow -> Nat], NEW c, Unpin(c)
    PROVE  /\ link' \in [LinkRow -> Nat]
           /\ Present' = {l \in Present : c \notin {l.parent, l.child}}
<1> DEFINE kept == {l \in Present : c \notin {l.parent, l.child}}
           below(l) == {k \in kept : link[k] <= link[l]}
<1>1. link' = [l \in LinkRow |-> IF l \in kept THEN Cardinality(below(l)) ELSE 0]
    BY Zenon DEF Unpin
<1>2. kept \subseteq LinkRow
    BY DEF Present
<1>3. ASSUME NEW l \in kept
      PROVE  Cardinality(below(l)) \in Nat /\ Cardinality(below(l)) > 0
    <2>1. l \in below(l) /\ below(l) \in SUBSET LinkRow
        BY <1>2
    <2> HIDE DEF below
    <2> QED
        BY <2>1, RowsCounted
<1> HIDE DEF below, kept
<1>4. link' \in [LinkRow -> Nat]
    BY <1>1, <1>3
<1>5. Present' = {l \in LinkRow : l \in kept}
    BY <1>1, <1>3 DEF Present
<1> QED
    BY <1>2, <1>4, <1>5 DEF kept
-----------------------------------------------------------------------------
(* Types.                                                                   *)

\* A job's fields keep their types when it changes some of them.
LEMMA JobFields ==
    ASSUME NEW s \in JobState
    PROVE  /\ s.kind \in {None, "upload", "retrieve"} /\ s.root \in Cids \union {None} /\ s.cur \in Cids \union {None}
           /\ s.todo \subseteq Cids /\ s.plan \subseteq Cids /\ s.walk \subseteq Cids
           /\ s.pc \in JobPc
BY DEF JobState

\* The blocks a walk may visit.
LEMMA WalksDown ==
    ASSUME NEW r \in Cids, NEW S \in Walks(r)
    PROVE  /\ S \subseteq Reachable(r) /\ S \subseteq Cids
           /\ \A x \in S \ {r} : \E y \in S \ {x} : x \in Children(y)
BY ReachedFromRoot DEF Walks

\* BatchPin keeps the types of the rows, nodes and links.
LEMMA PinnedTypes ==
    ASSUME TypeOK, NEW b \in Seq(Cids), BatchPin(b)
    PROVE  /\ row' \in [Cids -> Readiness] /\ node' \in [Cids -> NodeName]
           /\ \A c \in Cids : row'[c] = "none" => node'[c] = None
           /\ link' \in [LinkRow -> Nat] /\ cut' \subseteq Cids
<1>1. link' \in [LinkRow -> Nat]
    BY PinnedRows DEF TypeOK
<1>2. row' = [c \in Cids |-> IF c \in Range(b) THEN "ready"
                            ELSE EnsureChildBlocks(UNION {Children(x) : x \in Range(b)})[c]]
    BY Zenon DEF BatchPin
<1>3. node' = [c \in Cids |-> IF c \in Range(b) THEN "" ELSE node[c]] /\ cut' = cut \ Range(b)
    BY Zenon DEF BatchPin, ExtractNodeMetadata
<1>4. row \in [Cids -> Readiness] /\ node \in [Cids -> NodeName] /\ cut \subseteq Cids
      /\ \A c \in Cids : row[c] = "none" => node[c] = None
    BY DEF TypeOK
<1>5. row' \in [Cids -> Readiness]
    BY <1>2, <1>4 DEF EnsureChildBlocks, Readiness
<1>6. node' \in [Cids -> NodeName]
    BY <1>3, <1>4 DEF NodeName
<1>7. \A c \in Cids : row'[c] = "none" => node'[c] = None
    BY <1>2, <1>3, <1>4 DEF EnsureChildBlocks
<1> QED
    BY <1>1, <1>3, <1>4, <1>5, <1>6, <1>7

\* A name that is found is a name in some parent's data.
LEMMA NameResolved ==
    ASSUME link \in [LinkRow -> Nat], NEW c \in Cids
    PROVE  \/ ResolveNameFromParent(c) \in Names
           \/ /\ ResolveNameFromParent(c) = None
              /\ \/ \A l \in Present : l.child # c
                 \/ \E l \in Present : l.child = c /\ l.parent \notin object
<1> DEFINE to == {l \in Present : l.child = c}
           least == CHOOSE l \in to : \A k \in to : link[l] <= link[k]
<1>1. CASE to = {}
    BY <1>1 DEF ResolveNameFromParent
<1>2. CASE to # {}
    <2>1. {link[l] : l \in to} \in SUBSET Nat /\ {link[l] : l \in to} # {}
        BY <1>2 DEF Present
    <2>2. \E m \in {link[l] : l \in to} : \A k \in {link[l] : l \in to} : m <= k
        BY <2>1, LeastNumber
    <2>3. least \in to
        BY <2>2
    <2>4. least \in LinkRow /\ least.child = c
        BY <2>3 DEF Present
    <2> DEFINE name == Links[least.parent][CHOOSE i \in FirstLinks(least.parent) : Links[least.parent][i].cid = c].name
    <2>a. ResolveNameFromParent(c) = IF to = {} \/ least.parent \notin object THEN None ELSE name
        BY Zenon DEF ResolveNameFromParent
    <2> HIDE DEF name
    <2>5. ResolveNameFromParent(c) = IF least.parent \notin object THEN None ELSE name
        BY <1>2, <2>a
    <2> HIDE DEF least
    <2>6. name \in Names
        BY <2>4, NameOfRow DEF name
    <2> HIDE DEF to
    <2>7. \E l \in Present : l.child = c
        BY <2>3 DEF to
    <2>8. least \in Present /\ least.child = c
        BY <2>3 DEF to
    <2>9. CASE least.parent \in object
        BY <2>5, <2>6, <2>9
    <2>10. CASE least.parent \notin object
        BY <2>5, <2>8, <2>10
    <2> QED
        BY <2>9, <2>10
<1> QED
    BY <1>1, <1>2

\* What Append gives is a sequence one longer.
LEMMA Appended ==
    ASSUME NEW b \in Seq(Cids), NEW c \in Cids
    PROVE  /\ Append(b, c) \in Seq(Cids) /\ Len(Append(b, c)) = Len(b) + 1
           /\ Range(Append(b, c)) = Range(b) \union {c}
<1>1. /\ Append(b, c) \in Seq(Cids) /\ Len(Append(b, c)) = Len(b) + 1
      /\ DOMAIN Append(b, c) = 1..(Len(b) + 1) /\ DOMAIN b = 1..Len(b) /\ Len(b) \in Nat
    OBVIOUS
<1>2. \A i \in 1..(Len(b) + 1) : Append(b, c)[i] = IF i = Len(b) + 1 THEN c ELSE b[i]
    OBVIOUS
<1>3. Range(b) = {b[i] : i \in 1..Len(b)}
    BY <1>1 DEF Range
<1>4. Range(Append(b, c)) = {Append(b, c)[i] : i \in 1..(Len(b) + 1)}
    BY <1>1 DEF Range
<1> DEFINE a == Append(b, c)
           n == Len(b)
<1> HIDE DEF a, n
<1>5. {a[i] : i \in 1..(n + 1)} = {b[i] : i \in 1..n} \union {c}
    BY <1>1, <1>2 DEF a, n
<1> QED
    BY <1>1, <1>3, <1>4, <1>5 DEF a, n

\* The store starts empty, with every job idle.
LEMMA InitTypes == Init => TypeOK
<1> SUFFICES ASSUME Init PROVE TypeOK
    OBVIOUS
<1>0. BatchSize \in Nat \ {0}
    BY BlocksAssumption
<1>1. <<>> \in Seq(Cids) /\ Len(<<>>) < BatchSize
    BY <1>0
<1>2. IdleJob \in JobState
    BY DEF IdleJob, JobState, JobPc
<1> QED
    BY <1>1, <1>2 DEF Init, TypeOK, Readiness, NodeName
-----------------------------------------------------------------------------
(* Jobs: what one step changes in the record of the job that takes it.      *)

\* The job j is now at pc, with these blocks in its hands and ahead of it; the
\* other jobs are where they were.
Moved(j, pc, cur, todo, walk) ==
    /\ jobs' \in [Jobs -> JobState]
    /\ \A k \in Jobs \ {j} : jobs'[k] = jobs[k]
    /\ jobs'[j].root = jobs[j].root /\ jobs'[j].plan = jobs[j].plan
    /\ jobs'[j].pc = pc /\ jobs'[j].cur = cur /\ jobs'[j].todo = todo /\ jobs'[j].walk = walk

\* Assigning some of a job's fields moves the job.
LEMMA FieldsAssigned ==
    ASSUME jobs \in [Jobs -> JobState], NEW j \in Jobs,
           NEW p \in JobPc, NEW c \in Cids \union {None}, NEW t \in SUBSET Cids, NEW w \in SUBSET Cids
    PROVE  /\ jobs' = [jobs EXCEPT ![j].pc = p] =>
                Moved(j, p, jobs[j].cur, jobs[j].todo, jobs[j].walk)
           /\ jobs' = [jobs EXCEPT ![j].cur = c] =>
                Moved(j, jobs[j].pc, c, jobs[j].todo, jobs[j].walk)
           /\ jobs' = [jobs EXCEPT ![j].todo = t] =>
                Moved(j, jobs[j].pc, jobs[j].cur, t, jobs[j].walk)
           /\ jobs' = [jobs EXCEPT ![j].pc = p, ![j].todo = t] =>
                Moved(j, p, jobs[j].cur, t, jobs[j].walk)
           /\ jobs' = [jobs EXCEPT ![j].pc = p, ![j].cur = c] =>
                Moved(j, p, c, jobs[j].todo, jobs[j].walk)
           /\ jobs' = [jobs EXCEPT ![j].cur = c, ![j].todo = t] =>
                Moved(j, jobs[j].pc, c, t, jobs[j].walk)
           /\ jobs' = [jobs EXCEPT ![j].pc = p, ![j].cur = c, ![j].todo = t] =>
                Moved(j, p, c, t, jobs[j].walk)
           /\ jobs' = [jobs EXCEPT ![j].pc = p, ![j].walk = w, ![j].todo = t] =>
                Moved(j, p, jobs[j].cur, t, w)
<1>1. ASSUME jobs' = [jobs EXCEPT ![j].pc = p]
      PROVE  Moved(j, p, jobs[j].cur, jobs[j].todo, jobs[j].walk)
    <2>1. jobs' \in [Jobs -> JobState]
        BY <1>1 DEF JobState
    <2> QED
        BY <1>1, <2>1 DEF Moved, JobState
<1>2. ASSUME jobs' = [jobs EXCEPT ![j].cur = c]
      PROVE  Moved(j, jobs[j].pc, c, jobs[j].todo, jobs[j].walk)
    <2>1. jobs' \in [Jobs -> JobState]
        BY <1>2 DEF JobState
    <2> QED
        BY <1>2, <2>1 DEF Moved, JobState
<1>3. ASSUME jobs' = [jobs EXCEPT ![j].todo = t]
      PROVE  Moved(j, jobs[j].pc, jobs[j].cur, t, jobs[j].walk)
    <2>1. jobs' \in [Jobs -> JobState]
        BY <1>3 DEF JobState
    <2> QED
        BY <1>3, <2>1 DEF Moved, JobState
<1>4. ASSUME jobs' = [jobs EXCEPT ![j].pc = p, ![j].todo = t]
      PROVE  Moved(j, p, jobs[j].cur, t, jobs[j].walk)
    <2> DEFINE s == [jobs[j] EXCEPT !.pc = p, !.todo = t]
    <2>a. s \in JobState
        BY DEF JobState
    <2>b. jobs' = [jobs EXCEPT ![j] = s]
        BY <1>4
    <2>1. jobs' \in [Jobs -> JobState]
        <3> HIDE DEF s
        <3> QED
            BY <2>a, <2>b
    <2> QED
        BY <1>4, <2>1 DEF Moved, JobState
<1>5. ASSUME jobs' = [jobs EXCEPT ![j].pc = p, ![j].cur = c]
      PROVE  Moved(j, p, c, jobs[j].todo, jobs[j].walk)
    <2> DEFINE s == [jobs[j] EXCEPT !.pc = p, !.cur = c]
    <2>a. s \in JobState
        BY DEF JobState
    <2>b. jobs' = [jobs EXCEPT ![j] = s]
        BY <1>5
    <2>1. jobs' \in [Jobs -> JobState]
        <3> HIDE DEF s
        <3> QED
            BY <2>a, <2>b
    <2> QED
        BY <1>5, <2>1 DEF Moved, JobState
<1>6. ASSUME jobs' = [jobs EXCEPT ![j].cur = c, ![j].todo = t]
      PROVE  Moved(j, jobs[j].pc, c, t, jobs[j].walk)
    <2> DEFINE s == [jobs[j] EXCEPT !.cur = c, !.todo = t]
    <2>a. s \in JobState
        BY DEF JobState
    <2>b. jobs' = [jobs EXCEPT ![j] = s]
        BY <1>6
    <2>1. jobs' \in [Jobs -> JobState]
        <3> HIDE DEF s
        <3> QED
            BY <2>a, <2>b
    <2> QED
        BY <1>6, <2>1 DEF Moved, JobState
<1>7. ASSUME jobs' = [jobs EXCEPT ![j].pc = p, ![j].cur = c, ![j].todo = t]
      PROVE  Moved(j, p, c, t, jobs[j].walk)
    <2> DEFINE s == [jobs[j] EXCEPT !.pc = p, !.cur = c, !.todo = t]
    <2>a. s \in JobState
        BY DEF JobState
    <2>b. jobs' = [jobs EXCEPT ![j] = s]
        BY <1>7
    <2>1. jobs' \in [Jobs -> JobState]
        <3> HIDE DEF s
        <3> QED
            BY <2>a, <2>b
    <2> QED
        BY <1>7, <2>1 DEF Moved, JobState
<1>8. ASSUME jobs' = [jobs EXCEPT ![j].pc = p, ![j].walk = w, ![j].todo = t]
      PROVE  Moved(j, p, jobs[j].cur, t, w)
    <2> DEFINE s == [jobs[j] EXCEPT !.pc = p, !.walk = w, !.todo = t]
    <2>a. s \in JobState
        BY DEF JobState
    <2>b. jobs' = [jobs EXCEPT ![j] = s]
        BY <1>8
    <2>1. jobs' \in [Jobs -> JobState]
        <3> HIDE DEF s
        <3> QED
            BY <2>a, <2>b
    <2> QED
        BY <1>8, <2>1 DEF Moved, JobState
<1> QED
    BY <1>1, <1>2, <1>3, <1>4, <1>5, <1>6, <1>7, <1>8

\* BeginUpload, CollectVirtually: the job j starts for the root r.
Begun(j, r, pc, todo, walk) ==
    /\ jobs' \in [Jobs -> JobState]
    /\ \A k \in Jobs \ {j} : jobs'[k] = jobs[k]
    /\ jobs'[j].root = r /\ jobs'[j].cur = None
    /\ jobs'[j].pc = pc /\ jobs'[j].todo = todo /\ jobs'[j].walk = walk

\* How each step moves its job.
LEMMA JobSteps ==
    ASSUME TypeOK, NEW j \in Jobs
    PROVE  /\ \A c \in Cids : BeginUpload(j, c) => Begun(j, c, "put", Reachable(c), Reachable(c))
           /\ \A c \in Cids : CollectVirtually(j, c) => Begun(j, c, "collect", {}, {})
           /\ CollectDAGCids(j) => \E S \in Walks(jobs[j].root) \union {{}} :
                 /\ \A x \in S : BlockExists(x) => x \in object
                 /\ Moved(j, "put", jobs[j].cur, {x \in S : ~BlockExists(x)}, S)
           /\ AddMetadata(j) => jobs[j].cur \in Cids /\
                 \/ jobs[j].pc = "refetch" /\ Moved(j, "fetched", jobs[j].cur, jobs[j].todo, jobs[j].walk)
                 \/ jobs[j].pc = "put" /\ Moved(j, "put", None, jobs[j].todo \ {jobs[j].cur}, jobs[j].walk)
           /\ EndNames(j) => \/ Moved(j, "done", jobs[j].cur, jobs[j].todo, jobs[j].walk)
                             \/ Moved(j, "refetch", jobs[j].cur, jobs[j].plan \ {jobs[j].root}, jobs[j].walk)
           /\ \A c \in Cids : FetchAndPrepareChildBlock(j, c) =>
                 \/ Readable(c) /\ Moved(j, "fetched", c, jobs[j].todo, jobs[j].walk)
                 \/ Moved(j, jobs[j].pc, jobs[j].cur, jobs[j].todo \ {c}, jobs[j].walk)
           /\ Confirm(j) => \/ Moved(j, "gaps", jobs[j].cur, jobs[j].plan, jobs[j].walk)
                            \/ Moved(j, "failed", jobs[j].cur, jobs[j].todo, jobs[j].walk)
           /\ \A c \in Cids : PutObject(j, c) => Moved(j, jobs[j].pc, c, jobs[j].todo, jobs[j].walk)
           /\ Flush(j) => Moved(j, "names", jobs[j].cur, jobs[j].walk, jobs[j].walk)
           /\ \A c \in Cids : ProcessMissingUnixFSNames(j, c) =>
                 \/ row[c] = "none" /\ Moved(j, jobs[j].pc, jobs[j].cur, {}, jobs[j].walk)
                 \/ row[c] # "none" /\ Moved(j, jobs[j].pc, jobs[j].cur, jobs[j].todo \ {c}, jobs[j].walk)
           /\ PrepareChildBlock(j) => Moved(j, "refetch", None, jobs[j].todo \ {jobs[j].cur}, jobs[j].walk)
           /\ EndRetrieve(j) => Moved(j, "store", jobs[j].cur, jobs[j].plan, jobs[j].walk)
           /\ \A c \in Cids : StorePlanned(j, c) => Moved(j, jobs[j].pc, jobs[j].cur, jobs[j].todo \ {c}, jobs[j].walk)
           /\ FailJob(j) => Moved(j, "failed", None, {}, jobs[j].walk)
<1>a. jobs \in [Jobs -> JobState]
    BY DEF TypeOK
<1>b. {"idle", "collect", "put", "names", "refetch", "fetched", "store", "gaps", "done", "failed"} \subseteq JobPc
    BY DEF JobPc
<1>c. /\ jobs[j].root \in Cids \union {None} /\ jobs[j].cur \in Cids \union {None} /\ jobs[j].pc \in JobPc
      /\ jobs[j].todo \in SUBSET Cids /\ jobs[j].plan \in SUBSET Cids /\ jobs[j].walk \in SUBSET Cids
    BY <1>a DEF JobState
<1>d. \A x : Reachable(x) \in SUBSET Cids
    BY DEF Reachable
<1>1. ASSUME NEW c \in Cids, BeginUpload(j, c)
      PROVE  Begun(j, c, "put", Reachable(c), Reachable(c))
    <2> DEFINE s == [IdleJob EXCEPT !.kind = "upload", !.root = c, !.pc = "put", !.todo = Reachable(c),
                                    !.plan = Reachable(c), !.walk = Reachable(c)]
    <2>1. IdleJob \in JobState /\ IdleJob.cur = None
        BY <1>b DEF IdleJob, JobState
    <2>2. s \in JobState
        BY <1>b, <1>d, <2>1 DEF JobState
    <2>3. jobs' = [jobs EXCEPT ![j] = s]
        BY <1>1 DEF BeginUpload
    <2>4. s.root = c /\ s.cur = None /\ s.pc = "put" /\ s.todo = Reachable(c) /\ s.walk = Reachable(c)
        BY <2>1 DEF JobState
    <2> HIDE DEF s
    <2> QED
        BY <1>a, <2>2, <2>3, <2>4 DEF Begun
<1>2. ASSUME NEW c \in Cids, CollectVirtually(j, c)
      PROVE  Begun(j, c, "collect", {}, {})
    <2>1. PICK S \in Walks(c) :
              jobs' = [jobs EXCEPT ![j] = [IdleJob EXCEPT !.kind = "retrieve", !.root = c, !.pc = "collect", !.plan = S]]
        BY <1>2 DEF CollectVirtually
    <2> DEFINE s == [IdleJob EXCEPT !.kind = "retrieve", !.root = c, !.pc = "collect", !.plan = S]
    <2>3. S \subseteq Cids
        BY WalksDown
    <2>4. IdleJob \in JobState /\ IdleJob.cur = None /\ IdleJob.todo = {} /\ IdleJob.walk = {}
        BY <1>b DEF IdleJob, JobState
    <2>6. s \in JobState
        BY <1>b, <2>3, <2>4 DEF JobState
    <2>5. s.root = c /\ s.cur = None /\ s.pc = "collect" /\ s.todo = {} /\ s.walk = {}
        BY <2>4 DEF JobState
    <2> HIDE DEF s
    <2> QED
        BY <1>a, <2>1, <2>5, <2>6 DEF Begun, s
<1>3. ASSUME CollectDAGCids(j)
      PROVE  \E S \in Walks(jobs[j].root) \union {{}} :
                 /\ \A x \in S : BlockExists(x) => x \in object
                 /\ Moved(j, "put", jobs[j].cur, {x \in S : ~BlockExists(x)}, S)
    <2>1. PICK S \in Walks(jobs[j].root) \union {{}} :
              /\ \A x \in S : BlockExists(x) => x \in object
              /\ jobs' = [jobs EXCEPT ![j].pc = "put", ![j].walk = S, ![j].todo = {x \in S : ~BlockExists(x)}]
        BY <1>3 DEF CollectDAGCids
    <2>2. S \in SUBSET Cids /\ {x \in S : ~BlockExists(x)} \in SUBSET Cids
        BY <1>d DEF Walks
    <2>3. Moved(j, "put", jobs[j].cur, {x \in S : ~BlockExists(x)}, S)
        BY <1>a, <1>b, <1>c, <2>1, <2>2, FieldsAssigned
    <2> QED
        BY <2>1, <2>3
<1>4. ASSUME AddMetadata(j)
      PROVE  jobs[j].cur \in Cids /\
                 \/ jobs[j].pc = "refetch" /\ Moved(j, "fetched", jobs[j].cur, jobs[j].todo, jobs[j].walk)
                 \/ jobs[j].pc = "put" /\ Moved(j, "put", None, jobs[j].todo \ {jobs[j].cur}, jobs[j].walk)
    <2>1. jobs[j].cur \in Cids /\ (jobs[j].pc = "put" \/ jobs[j].pc = "refetch")
        BY <1>c, <1>4 DEF AddMetadata, At
    <2>2. CASE jobs[j].pc = "refetch"
        <3>1. jobs' = [jobs EXCEPT ![j].pc = "fetched"]
            BY <1>4, <2>2 DEF AddMetadata, At
        <3> QED
            BY <1>a, <1>b, <1>c, <2>1, <2>2, <3>1, FieldsAssigned
    <2>3. CASE jobs[j].pc = "put"
        <3>1. jobs' = [jobs EXCEPT ![j].cur = None, ![j].todo = jobs[j].todo \ {jobs[j].cur}]
            BY <1>a, <1>4, <2>3 DEF AddMetadata, At
        <3>2. jobs[j].todo \ {jobs[j].cur} \in SUBSET Cids
            BY <1>c
        <3>3. Moved(j, jobs[j].pc, None, jobs[j].todo \ {jobs[j].cur}, jobs[j].walk)
            BY <1>a, <1>b, <1>c, <3>1, <3>2, FieldsAssigned
        <3> QED
            BY <2>1, <2>3, <3>3
    <2> QED
        BY <2>1, <2>2, <2>3
<1>5. ASSUME EndNames(j)
      PROVE  \/ Moved(j, "done", jobs[j].cur, jobs[j].todo, jobs[j].walk)
             \/ Moved(j, "refetch", jobs[j].cur, jobs[j].plan \ {jobs[j].root}, jobs[j].walk)
    <2>1. \/ jobs' = [jobs EXCEPT ![j].pc = "done"]
          \/ jobs' = [jobs EXCEPT ![j].pc = "refetch", ![j].todo = jobs[j].plan \ {jobs[j].root}]
        BY <1>5 DEF EndNames
    <2>2. jobs[j].plan \ {jobs[j].root} \in SUBSET Cids
        BY <1>c
    <2> QED
        BY <1>a, <1>b, <1>c, <2>1, <2>2, FieldsAssigned
<1>6. ASSUME NEW c \in Cids, FetchAndPrepareChildBlock(j, c)
      PROVE  \/ Readable(c) /\ Moved(j, "fetched", c, jobs[j].todo, jobs[j].walk)
             \/ Moved(j, jobs[j].pc, jobs[j].cur, jobs[j].todo \ {c}, jobs[j].walk)
    <2>1. \/ Readable(c) /\ jobs' = [jobs EXCEPT ![j].pc = "fetched", ![j].cur = c]
          \/ jobs' = [jobs EXCEPT ![j].todo = jobs[j].todo \ {c}]
        BY <1>a, <1>6 DEF FetchAndPrepareChildBlock
    <2>2. jobs[j].todo \ {c} \in SUBSET Cids
        BY <1>c
    <2> QED
        BY <1>a, <1>b, <1>c, <2>1, <2>2, FieldsAssigned
<1>7. ASSUME Confirm(j)
      PROVE  \/ Moved(j, "gaps", jobs[j].cur, jobs[j].plan, jobs[j].walk)
             \/ Moved(j, "failed", jobs[j].cur, jobs[j].todo, jobs[j].walk)
    <2>1. \/ jobs' = [jobs EXCEPT ![j].pc = "gaps", ![j].todo = jobs[j].plan]
          \/ jobs' = [jobs EXCEPT ![j].pc = "failed"]
        BY <1>7 DEF Confirm
    <2> QED
        BY <1>a, <1>b, <1>c, <2>1, FieldsAssigned
<1>8. ASSUME NEW c \in Cids, PutObject(j, c)
      PROVE  Moved(j, jobs[j].pc, c, jobs[j].todo, jobs[j].walk)
    <2>1. jobs' = [jobs EXCEPT ![j].cur = c]
        BY <1>a, <1>8 DEF PutObject
    <2>2. (jobs[j].todo) \in SUBSET Cids
        BY <1>c
    <2> QED
        BY <1>a, <1>b, <1>c, <2>1, <2>2, FieldsAssigned
<1>9. ASSUME Flush(j)
      PROVE  Moved(j, "names", jobs[j].cur, jobs[j].walk, jobs[j].walk)
    <2>1. jobs' = [jobs EXCEPT ![j].pc = "names", ![j].todo = jobs[j].walk]
        BY <1>a, <1>9 DEF Flush
    <2>2. (jobs[j].walk) \in SUBSET Cids
        BY <1>c
    <2> QED
        BY <1>a, <1>b, <1>c, <2>1, <2>2, FieldsAssigned
<1>10. ASSUME NEW c \in Cids, ProcessMissingUnixFSNames(j, c)
      PROVE  \/ row[c] = "none" /\ Moved(j, jobs[j].pc, jobs[j].cur, {}, jobs[j].walk)
             \/ row[c] # "none" /\ Moved(j, jobs[j].pc, jobs[j].cur, jobs[j].todo \ {c}, jobs[j].walk)
    <2>1. jobs' = [jobs EXCEPT ![j].todo = IF row[c] = "none" THEN {} ELSE jobs[j].todo \ {c}]
        BY <1>a, <1>10 DEF ProcessMissingUnixFSNames
    <2>2. {} \in SUBSET Cids /\ jobs[j].todo \ {c} \in SUBSET Cids
        BY <1>c
    <2>3. CASE row[c] = "none"
        BY <1>a, <1>b, <1>c, <2>1, <2>2, <2>3, FieldsAssigned
    <2>4. CASE row[c] # "none"
        BY <1>a, <1>b, <1>c, <2>1, <2>2, <2>4, FieldsAssigned
    <2> QED
        BY <2>3, <2>4
<1>11. ASSUME PrepareChildBlock(j)
      PROVE  Moved(j, "refetch", None, jobs[j].todo \ {jobs[j].cur}, jobs[j].walk)
    <2>1. jobs' = [jobs EXCEPT ![j].pc = "refetch", ![j].cur = None, ![j].todo = jobs[j].todo \ {jobs[j].cur}]
        BY <1>a, <1>11 DEF PrepareChildBlock
    <2>2. (jobs[j].todo \ {jobs[j].cur}) \in SUBSET Cids
        BY <1>c
    <2> QED
        BY <1>a, <1>b, <1>c, <2>1, <2>2, FieldsAssigned
<1>12. ASSUME EndRetrieve(j)
      PROVE  Moved(j, "store", jobs[j].cur, jobs[j].plan, jobs[j].walk)
    <2>1. jobs' = [jobs EXCEPT ![j].pc = "store", ![j].todo = jobs[j].plan]
        BY <1>a, <1>12 DEF EndRetrieve
    <2>2. (jobs[j].plan) \in SUBSET Cids
        BY <1>c
    <2> QED
        BY <1>a, <1>b, <1>c, <2>1, <2>2, FieldsAssigned
<1>13. ASSUME NEW c \in Cids, StorePlanned(j, c)
      PROVE  Moved(j, jobs[j].pc, jobs[j].cur, jobs[j].todo \ {c}, jobs[j].walk)
    <2>1. jobs' = [jobs EXCEPT ![j].todo = jobs[j].todo \ {c}]
        BY <1>a, <1>13 DEF StorePlanned
    <2>2. (jobs[j].todo \ {c}) \in SUBSET Cids
        BY <1>c
    <2> QED
        BY <1>a, <1>b, <1>c, <2>1, <2>2, FieldsAssigned
<1>14. ASSUME FailJob(j)
      PROVE  Moved(j, "failed", None, {}, jobs[j].walk)
    <2>1. jobs' = [jobs EXCEPT ![j].pc = "failed", ![j].cur = None, ![j].todo = {}]
        BY <1>a, <1>14 DEF FailJob
    <2>2. ({}) \in SUBSET Cids
        BY <1>c
    <2> QED
        BY <1>a, <1>b, <1>c, <2>1, <2>2, FieldsAssigned
<1> QED
    BY <1>1, <1>2, <1>3, <1>4, <1>5, <1>6, <1>7, <1>8, <1>9, <1>10, <1>11, <1>12, <1>13, <1>14

\* A restart ends the jobs that were running.
LEMMA RestartStep ==
    ASSUME jobs \in [Jobs -> JobState], Restart
    PROVE  /\ jobs' \in [Jobs -> JobState]
           /\ \A j \in Jobs : At(j, {"idle", "done"}) => jobs'[j] = jobs[j]
           /\ \A j \in Jobs : ~At(j, {"idle", "done"}) => jobs'[j].pc = "failed" /\ jobs'[j].cur = None
<1> DEFINE failed(j) == [jobs[j] EXCEPT !.pc = "failed", !.cur = None, !.todo = {}]
<1>1. ASSUME NEW j \in Jobs
      PROVE  failed(j) \in JobState /\ failed(j).pc = "failed" /\ failed(j).cur = None
    <2>1. "failed" \in JobPc
        BY DEF JobPc
    <2> DEFINE s == jobs[j]
    <2>2. s \in JobState
        OBVIOUS
    <2> HIDE DEF s
    <2>3. [s EXCEPT !.pc = "failed", !.cur = None, !.todo = {}] \in JobState
        BY <2>1, <2>2 DEF JobState
    <2>4. /\ [s EXCEPT !.pc = "failed", !.cur = None, !.todo = {}].pc = "failed"
          /\ [s EXCEPT !.pc = "failed", !.cur = None, !.todo = {}].cur = None
        BY <2>2 DEF JobState
    <2> QED
        BY <2>3, <2>4 DEF s
<1>2. jobs' = [j \in Jobs |-> IF At(j, {"idle", "done"}) THEN jobs[j] ELSE failed(j)]
    BY DEF Restart
<1> HIDE DEF failed
<1> QED
    BY <1>1, <1>2

\* Every step of the store and its jobs keeps the types.
LEMMA NextTypes == TypeOK /\ [Next]_vars => TypeOK'
<1> SUFFICES ASSUME TypeOK, [Next]_vars PROVE TypeOK'
    OBVIOUS
<1>1. /\ row \in [Cids -> Readiness] /\ link \in [LinkRow -> Nat]
      /\ node \in [Cids -> NodeName] /\ \A c \in Cids : row[c] = "none" => node[c] = None
      /\ object \subseteq Cids /\ batch \in Seq(Cids) /\ Len(batch) < BatchSize
      /\ jobs \in [Jobs -> JobState] /\ deleting \in Cids \union {None}
      /\ marked \subseteq Cids /\ raced \subseteq Cids /\ cut \subseteq Cids /\ unnamed \subseteq Cids
    BY DEF TypeOK
<1>2. None \in NodeName /\ "" \in NodeName /\ BatchSize \in Nat \ {0} /\ <<>> \in Seq(Cids) /\ Len(<<>>) < BatchSize
    <2>1. BatchSize \in Nat \ {0}
        BY BlocksAssumption
    <2> QED
        BY <2>1 DEF NodeName
<1>3. \A S \in SUBSET Cids : Linked(S) \subseteq Cids
    BY RowsOfParents DEF Linked
<1>4. \A c : Reachable(c) \subseteq Cids
    BY DEF Reachable
<1>5. ASSUME NEW j \in Jobs, NEW c \in Cids, BeginUpload(j, c)
      PROVE  TypeOK'
    <2>1. jobs' \in [Jobs -> JobState]
        BY <1>5, JobSteps DEF Begun
    <2> QED
        BY <1>1, <1>5, <2>1 DEF BeginUpload, TypeOK
<1>6. ASSUME NEW j \in Jobs, NEW c \in Cids, CollectVirtually(j, c)
      PROVE  TypeOK'
    <2>1. jobs' \in [Jobs -> JobState]
        BY <1>6, JobSteps DEF Begun
    <2> QED
        BY <1>1, <1>6, <2>1 DEF CollectVirtually, TypeOK
<1>7. ASSUME NEW j \in Jobs, CollectDAGCids(j)
      PROVE  TypeOK'
    <2>1. jobs' \in [Jobs -> JobState]
        BY <1>7, JobSteps DEF Moved
    <2> QED
        BY <1>1, <1>7, <2>1 DEF CollectDAGCids, TypeOK
<1>8. ASSUME NEW j \in Jobs, NEW c \in Cids, PutObject(j, c)
      PROVE  TypeOK'
    <2>1. jobs' \in [Jobs -> JobState]
        BY <1>8, JobSteps DEF Moved
    <2> QED
        BY <1>1, <1>8, <2>1 DEF PutObject, TypeOK
<1>9. ASSUME NEW j \in Jobs, AddMetadata(j)
      PROVE  TypeOK'
    <2> DEFINE c == jobs[j].cur
               b == Append(batch, c)
    <2>1. c \in Cids
        BY <1>1, <1>9 DEF AddMetadata, JobState
    <2>2. b \in Seq(Cids) /\ Len(b) = Len(batch) + 1
        BY <1>1, <2>1, Appended
    <2>3. jobs' \in [Jobs -> JobState]
        BY <1>9, JobSteps DEF Moved
    <2>4. unnamed' \subseteq Cids
        BY <1>1, <1>9, <2>1 DEF AddMetadata
    <2>5. /\ row' \in [Cids -> Readiness] /\ node' \in [Cids -> NodeName]
          /\ \A x \in Cids : row'[x] = "none" => node'[x] = None
          /\ link' \in [LinkRow -> Nat] /\ cut' \subseteq Cids /\ batch' \in Seq(Cids) /\ Len(batch') < BatchSize
        <3>1. CASE Len(b) >= BatchSize
            <4>1. BatchPin(b) /\ batch' = <<>>
                BY <1>9, <3>1 DEF AddMetadata
            <4> HIDE DEF b
            <4> QED
                BY <1>2, <2>2, <4>1, PinnedTypes
        <3>2. CASE ~(Len(b) >= BatchSize)
            <4>1. batch' = b /\ UNCHANGED <<row, link, node, cut>>
                BY <1>9, <3>2 DEF AddMetadata
            <4>2. Len(b) < BatchSize
                <5> DEFINE n == Len(b)
                           m == BatchSize
                <5>1. n \in Nat /\ m \in Nat /\ ~(n >= m)
                    <6>1. Len(batch) \in Nat
                        BY <1>1
                    <6>2. n \in Nat
                        BY <2>2, <6>1
                    <6>3. m \in Nat
                        BY <1>2
                    <6> QED
                        BY <3>2, <6>2, <6>3
                <5> HIDE DEF n, m
                <5>2. n < m
                    BY <5>1
                <5> QED
                    BY <5>2 DEF n, m
            <4> HIDE DEF b
            <4>3. batch' \in Seq(Cids) /\ Len(batch') < BatchSize
                BY <2>2, <4>1, <4>2
            <4> QED
                BY <1>1, <4>1, <4>3
        <3> QED
            BY <3>1, <3>2
    <2> QED
        BY <1>1, <1>9, <2>3, <2>4, <2>5 DEF AddMetadata, TypeOK
<1>10. ASSUME NEW j \in Jobs, Flush(j)
       PROVE  TypeOK'
    <2>1. jobs' \in [Jobs -> JobState]
        BY <1>10, JobSteps DEF Moved
    <2>2. /\ row' \in [Cids -> Readiness] /\ node' \in [Cids -> NodeName]
          /\ \A x \in Cids : row'[x] = "none" => node'[x] = None
          /\ link' \in [LinkRow -> Nat] /\ cut' \subseteq Cids
        BY <1>1, <1>10, PinnedTypes DEF Flush
    <2> QED
        BY <1>1, <1>2, <1>10, <2>1, <2>2 DEF Flush, TypeOK
<1>11. ASSUME NEW j \in Jobs, NEW c \in Cids, ProcessMissingUnixFSNames(j, c)
       PROVE  TypeOK'
    <2>1. jobs' \in [Jobs -> JobState]
        BY <1>11, JobSteps DEF Moved
    <2>2. ResolveNameFromParent(c) = None \/ ResolveNameFromParent(c) \in NodeName
        BY <1>1, NameResolved DEF NodeName
    <2>3. node' \in [Cids -> NodeName] /\ \A x \in Cids : row[x] = "none" => node'[x] = None
        <3> DEFINE name == ResolveNameFromParent(c)
        <3>1. node' = IF node[c] # "" \/ name = None THEN node ELSE [node EXCEPT ![c] = name]
            BY <1>11 DEF ProcessMissingUnixFSNames
        <3> HIDE DEF name
        <3>2. name \in NodeName /\ None # ""
            <4>1. None # ""
                BY BlocksAssumption
            <4> QED
                BY <1>2, <2>2, <4>1 DEF name
        <3>3. row[c] = "none" => node' = node
            BY <1>1, <3>1, <3>2
        <3>4. CASE node' = node
            BY <1>1, <3>4
        <3>5. CASE node' = [node EXCEPT ![c] = name] /\ row[c] # "none"
            BY <1>1, <3>2, <3>5
        <3> QED
            BY <3>1, <3>3, <3>4, <3>5
    <2>4. unnamed' \subseteq Cids
        BY <1>1, <1>11 DEF ProcessMissingUnixFSNames, JobState
    <2> QED
        BY <1>1, <1>11, <2>1, <2>3, <2>4 DEF ProcessMissingUnixFSNames, TypeOK
<1>12. ASSUME NEW j \in Jobs, EndNames(j)
       PROVE  TypeOK'
    <2>1. jobs' \in [Jobs -> JobState]
        BY <1>12, JobSteps DEF Moved
    <2> QED
        BY <1>1, <1>12, <2>1 DEF EndNames, TypeOK
<1>13. ASSUME NEW j \in Jobs, NEW c \in Cids, FetchAndPrepareChildBlock(j, c)
       PROVE  TypeOK'
    <2>1. jobs' \in [Jobs -> JobState]
        BY <1>13, JobSteps DEF Moved
    <2> QED
        BY <1>1, <1>13, <2>1 DEF FetchAndPrepareChildBlock, TypeOK
<1>14. ASSUME NEW j \in Jobs, PrepareChildBlock(j)
       PROVE  TypeOK'
    <2> DEFINE c == jobs[j].cur
    <2>1. jobs' \in [Jobs -> JobState]
        BY <1>14, JobSteps DEF Moved
    <2>2. node' = IF row[c] # "none" /\ node[c] = None THEN [node EXCEPT ![c] = ""] ELSE node
        BY <1>14 DEF PrepareChildBlock, UpdateUnixFSMetadata, ExtractNodeMetadata
    <2>3. node' \in [Cids -> NodeName] /\ \A x \in Cids : row[x] = "none" => node'[x] = None
        BY <1>1, <1>2, <2>2
    <2>4. unnamed' \subseteq Cids
        <3>1. unnamed' = unnamed \/ (c # None /\ unnamed' = unnamed \union {c})
            <4>1. CASE c \in Cids
                <5>1. c # None
                    BY <4>1, BlocksAssumption
                <5> QED
                    BY <1>14, <5>1 DEF PrepareChildBlock
            <4>2. CASE c \notin Cids
                <5>1. node' = node
                    BY <1>1, <2>2, <4>2
                <5> QED
                    BY <1>14, <5>1 DEF PrepareChildBlock
            <4> QED
                BY <4>1, <4>2
        <3>2. c \in Cids \union {None}
            BY <1>1 DEF JobState
        <3> QED
            BY <1>1, <3>1, <3>2
    <2> QED
        BY <1>1, <1>14, <2>1, <2>3, <2>4 DEF PrepareChildBlock, TypeOK
<1>15. ASSUME NEW j \in Jobs, EndRetrieve(j)
       PROVE  TypeOK'
    <2>1. jobs' \in [Jobs -> JobState]
        BY <1>15, JobSteps DEF Moved
    <2> QED
        BY <1>1, <1>15, <2>1 DEF EndRetrieve, TypeOK
<1>16. ASSUME NEW j \in Jobs, NEW c \in Cids, StorePlanned(j, c)
       PROVE  TypeOK'
    <2>1. jobs' \in [Jobs -> JobState]
        BY <1>16, JobSteps DEF Moved
    <2>2. row' \in [Cids -> Readiness] /\ \A x \in Cids : row'[x] = "none" => row[x] = "none"
        BY <1>1, <1>16 DEF StorePlanned, MarkBlockReady, Readiness
    <2>3. marked' \subseteq Cids /\ cut' \subseteq Cids /\ unnamed' \subseteq Cids
        BY <1>1, <1>3, <1>16 DEF StorePlanned
    <2> QED
        BY <1>1, <1>16, <2>1, <2>2, <2>3 DEF StorePlanned, TypeOK
<1>17. ASSUME NEW j \in Jobs, Confirm(j)
       PROVE  TypeOK'
    <2>1. jobs' \in [Jobs -> JobState]
        BY <1>17, JobSteps DEF Moved
    <2> QED
        BY <1>1, <1>17, <2>1 DEF Confirm, TypeOK
<1>18. ASSUME NEW j \in Jobs, FailJob(j)
       PROVE  TypeOK'
    <2>1. jobs' \in [Jobs -> JobState]
        BY <1>18, JobSteps DEF Moved
    <2> QED
        BY <1>1, <1>4, <1>18, <2>1 DEF FailJob, TypeOK
<1>19. ASSUME NEW c \in Cids, Unpin(c)
       PROVE  TypeOK'
    <2>1. link' \in [LinkRow -> Nat]
        BY <1>1, <1>19, UnpinnedRows
    <2>2. /\ row' \in [Cids -> Readiness] /\ node' \in [Cids -> NodeName]
          /\ \A x \in Cids : row'[x] = "none" => node'[x] = None
        BY <1>1, <1>2, <1>19 DEF Unpin, Readiness
    <2>3. cut' \subseteq Cids
        BY <1>1, <1>19, RowsOfParents DEF Unpin, Present
    <2>4. unnamed' \subseteq Cids
        BY <1>1, <1>3, <1>19 DEF Unpin
    <2> QED
        BY <1>1, <1>19, <2>1, <2>2, <2>3, <2>4 DEF Unpin, TypeOK
<1>20. ASSUME DeleteObject
       PROVE  TypeOK'
    BY <1>1, <1>20 DEF DeleteObject, TypeOK
<1>21. ASSUME Restart
       PROVE  TypeOK'
    <2>1. jobs' \in [Jobs -> JobState]
        BY <1>1, <1>21, RestartStep
    <2>2. unnamed' \subseteq Cids
        <3>1. unnamed' = unnamed \union UNION {Reachable(jobs[j].root) : j \in {k \in Jobs : ~At(k, {"idle", "done"})}}
            BY <1>21 DEF Restart
        <3>2. UNION {Reachable(jobs[j].root) : j \in {k \in Jobs : ~At(k, {"idle", "done"})}} \subseteq Cids
            BY <1>4
        <3> QED
            BY <1>1, <3>1, <3>2
    <2> QED
        BY <1>1, <1>2, <1>21, <2>1, <2>2 DEF Restart, TypeOK
<1>22. CASE UNCHANGED vars
    BY <1>1, <1>22 DEF vars, TypeOK
<1> QED
    BY <1>5, <1>6, <1>7, <1>8, <1>9, <1>10, <1>11, <1>12, <1>13, <1>14, <1>15, <1>16, <1>17, <1>18, <1>19, <1>20,
       <1>21, <1>22 DEF Next, Finished

\* Rows, links, nodes, the batch and the jobs keep their types, the batch stays
\* below its limit, and only a block with a row has a node.
THEOREM TypeCorrect == Spec => []TypeOK
BY InitTypes, NextTypes, PTL DEF Spec
-----------------------------------------------------------------------------
(* Data before metadata.                                                    *)

\* What a step must respect: data is not taken from a block on its way, and a
\* block becomes ready, enters the batch or a job's hands with its data.
LEMMA StoredKept ==
    ASSUME StoredInv, object \subseteq object', raced \subseteq raced', marked \subseteq marked',
           \A c \in Cids : row'[c] = "ready" => row[c] = "ready" \/ c \in object' \union marked' \union raced',
           \A c \in Range(batch)' : c \in Range(batch) \union object' \union raced',
           \A j \in Jobs : jobs'[j].cur # None => jobs'[j].cur = jobs[j].cur \/ jobs'[j].cur \in object' \union raced'
    PROVE  StoredInv'
<1>1. ReadyIsStored'
    BY DEF StoredInv, ReadyIsStored, BlockExists
<1>2. DataFirst'
    BY DEF StoredInv, DataFirst
<1> QED
    BY <1>1, <1>2 DEF StoredInv

\* BatchPin makes the blocks of the batch ready and no others; their nodes are
\* written over, the other nodes are left.
LEMMA PinnedReady ==
    ASSUME TypeOK, NEW b \in Seq(Cids), BatchPin(b)
    PROVE  /\ \A c \in Cids : row'[c] = "ready" <=> c \in Range(b) \/ row[c] = "ready"
           /\ \A c \in Cids : node'[c] = IF c \in Range(b) THEN "" ELSE node[c]
           /\ cut' = cut \ Range(b)
<1>1. row' = [c \in Cids |-> IF c \in Range(b) THEN "ready"
                            ELSE EnsureChildBlocks(UNION {Children(x) : x \in Range(b)})[c]]
    BY Zenon DEF BatchPin
<1>2. node' = [c \in Cids |-> IF c \in Range(b) THEN "" ELSE node[c]] /\ cut' = cut \ Range(b)
    BY Zenon DEF BatchPin, ExtractNodeMetadata
<1> QED
    BY <1>1, <1>2 DEF EnsureChildBlocks

\* Every step keeps data before metadata.
LEMMA NextStored == TypeOK /\ StoredInv /\ [Next]_vars => StoredInv'
<1> SUFFICES ASSUME TypeOK, StoredInv, [Next]_vars PROVE StoredInv'
    OBVIOUS
<1>1. jobs \in [Jobs -> JobState] /\ batch \in Seq(Cids)
    BY DEF TypeOK
<1>2. \A c \in Range(batch) : c \in object \union raced
    BY DEF StoredInv, DataFirst
<1>3. \A j \in Jobs : jobs[j].cur # None => jobs[j].cur \in object \union raced
    BY DEF StoredInv, DataFirst
<1>a. None \notin Cids
    BY BlocksAssumption
<1>4. ASSUME NEW j \in Jobs, NEW c \in Cids, BeginUpload(j, c) \/ CollectVirtually(j, c)
      PROVE  StoredInv'
    <2>1. \A k \in Jobs : jobs'[k].cur = jobs[k].cur \/ jobs'[k].cur = None
        BY <1>4, JobSteps DEF Begun
    <2>2. UNCHANGED <<row, object, batch, marked, raced>>
        BY <1>4 DEF BeginUpload, CollectVirtually
    <2> QED
        BY <2>1, <2>2, StoredKept
<1>5. ASSUME NEW j \in Jobs, CollectDAGCids(j) \/ EndNames(j) \/ EndRetrieve(j) \/ Confirm(j)
      PROVE  StoredInv'
    <2>1. \A k \in Jobs : jobs'[k].cur = jobs[k].cur
        BY <1>5, JobSteps DEF Moved
    <2>2. UNCHANGED <<row, object, batch, marked, raced>>
        BY <1>5 DEF CollectDAGCids, EndNames, EndRetrieve, Confirm
    <2> QED
        BY <2>1, <2>2, StoredKept
<1>6. ASSUME NEW j \in Jobs, NEW c \in Cids, PutObject(j, c)
      PROVE  StoredInv'
    <2>1. \A k \in Jobs : jobs'[k].cur = jobs[k].cur \/ jobs'[k].cur = c
        BY <1>6, JobSteps DEF Moved
    <2>2. UNCHANGED <<row, batch, marked, raced>> /\ object' = object \union {c}
        BY <1>6 DEF PutObject
    <2> QED
        BY <2>1, <2>2, StoredKept
<1>7. ASSUME NEW j \in Jobs, AddMetadata(j)
      PROVE  StoredInv'
    <2> DEFINE c == jobs[j].cur
               b == Append(batch, c)
    <2>1. c \in Cids /\ c \in object \union raced
        BY <1>3, <1>7, <1>a, JobSteps
    <2>2. b \in Seq(Cids) /\ Range(b) = Range(batch) \union {c}
        BY <1>1, <2>1, Appended
    <2>3. \A k \in Jobs : jobs'[k].cur = jobs[k].cur \/ jobs'[k].cur = None
        BY <1>7, JobSteps DEF Moved
    <2>4. UNCHANGED <<object, marked, raced>>
        BY <1>7 DEF AddMetadata
    <2>5. /\ \A x \in Cids : row'[x] = "ready" => row[x] = "ready" \/ x \in object \union raced
          /\ \A x \in Range(batch)' : x \in object \union raced
        <3>1. CASE Len(b) >= BatchSize
            <4>1. BatchPin(b) /\ batch' = <<>>
                BY <1>7, <3>1 DEF AddMetadata
            <4>2. Range(batch)' = {}
                BY <4>1 DEF Range
            <4> HIDE DEF b
            <4> QED
                BY <1>2, <2>1, <2>2, <4>1, <4>2, PinnedReady
        <3>2. CASE ~(Len(b) >= BatchSize)
            <4>1. batch' = b /\ row' = row
                BY <1>7, <3>2 DEF AddMetadata
            <4>2. Range(batch)' = Range(b)
                BY <4>1 DEF Range
            <4> QED
                BY <1>2, <2>1, <2>2, <4>1, <4>2
        <3> QED
            BY <3>1, <3>2
    <2> QED
        BY <2>3, <2>4, <2>5, StoredKept
<1>8. ASSUME NEW j \in Jobs, Flush(j)
      PROVE  StoredInv'
    <2>1. \A k \in Jobs : jobs'[k].cur = jobs[k].cur
        BY <1>8, JobSteps DEF Moved
    <2>2. BatchPin(batch) /\ batch' = <<>> /\ UNCHANGED <<object, marked, raced>>
        BY <1>8 DEF Flush
    <2>3. \A x \in Cids : row'[x] = "ready" => row[x] = "ready" \/ x \in object \union raced
        BY <1>1, <1>2, <2>2, PinnedReady
    <2>4. Range(batch)' = {}
        BY <2>2 DEF Range
    <2> QED
        BY <2>1, <2>2, <2>3, <2>4, StoredKept
<1>9. ASSUME NEW j \in Jobs, NEW c \in Cids, ProcessMissingUnixFSNames(j, c)
      PROVE  StoredInv'
    <2>1. \A k \in Jobs : jobs'[k].cur = jobs[k].cur
        BY <1>9, JobSteps DEF Moved
    <2>2. UNCHANGED <<row, object, batch, marked, raced>>
        BY <1>9 DEF ProcessMissingUnixFSNames
    <2> QED
        BY <2>1, <2>2, StoredKept
<1>10. ASSUME NEW j \in Jobs, NEW c \in Cids, FetchAndPrepareChildBlock(j, c)
       PROVE  StoredInv'
    <2>1. \A k \in Jobs : jobs'[k].cur = jobs[k].cur \/ (jobs'[k].cur = c /\ c \in object)
        BY <1>10, JobSteps DEF Moved, Readable
    <2>2. UNCHANGED <<row, object, batch, marked, raced>>
        BY <1>10 DEF FetchAndPrepareChildBlock
    <2> QED
        BY <2>1, <2>2, StoredKept
<1>11. ASSUME NEW j \in Jobs, PrepareChildBlock(j)
       PROVE  StoredInv'
    <2>1. \A k \in Jobs : jobs'[k].cur = jobs[k].cur \/ jobs'[k].cur = None
        BY <1>11, JobSteps DEF Moved
    <2>2. UNCHANGED <<row, object, batch, marked, raced>>
        BY <1>11 DEF PrepareChildBlock
    <2> QED
        BY <2>1, <2>2, StoredKept
<1>12. ASSUME NEW j \in Jobs, NEW c \in Cids, StorePlanned(j, c)
       PROVE  StoredInv'
    <2>1. \A k \in Jobs : jobs'[k].cur = jobs[k].cur
        BY <1>12, JobSteps DEF Moved
    <2>2. UNCHANGED <<object, batch, raced>> /\ marked \subseteq marked'
        BY <1>12 DEF StorePlanned
    <2>3. \A x \in Cids : row'[x] = "ready" => row[x] = "ready" \/ x \in object \union marked'
        BY <1>12 DEF StorePlanned, MarkBlockReady, TypeOK
    <2> QED
        BY <2>1, <2>2, <2>3, StoredKept
<1>13. ASSUME NEW j \in Jobs, FailJob(j)
       PROVE  StoredInv'
    <2>1. \A k \in Jobs : jobs'[k].cur = jobs[k].cur \/ jobs'[k].cur = None
        BY <1>13, JobSteps DEF Moved
    <2>2. UNCHANGED <<row, object, batch, marked, raced>>
        BY <1>13 DEF FailJob
    <2> QED
        BY <2>1, <2>2, StoredKept
<1>14. ASSUME NEW c \in Cids, Unpin(c)
       PROVE  StoredInv'
    <2>1. UNCHANGED <<jobs, object, batch, marked, raced>>
        BY <1>14 DEF Unpin
    <2>2. \A x \in Cids : row'[x] = "ready" => row[x] = "ready"
        BY <1>14 DEF Unpin, TypeOK
    <2> QED
        BY <2>1, <2>2, StoredKept
<1>15. ASSUME DeleteObject
       PROVE  StoredInv'
    <2>1. /\ UNCHANGED <<jobs, row, batch, marked>> /\ object' = object \ {deleting}
          /\ raced \subseteq raced'
          /\ Contains(batch, deleting) \/ BlockExists(deleting) \/ (\E j \in Jobs : jobs[j].cur = deleting)
             => deleting \in raced'
        BY <1>15 DEF DeleteObject
    <2>2. deleting \in Range(batch) => Contains(batch, deleting)
        BY DEF Contains, Range
    <2>3. ReadyIsStored'
        BY <2>1 DEF StoredInv, ReadyIsStored, BlockExists
    <2>4. DataFirst'
        BY <1>2, <1>3, <2>1, <2>2 DEF DataFirst
    <2> QED
        BY <2>3, <2>4 DEF StoredInv
<1>16. ASSUME Restart
       PROVE  StoredInv'
    <2>1. \A k \in Jobs : jobs'[k].cur = jobs[k].cur \/ jobs'[k].cur = None
        BY <1>1, <1>16, RestartStep
    <2>2. UNCHANGED <<row, object, marked, raced>> /\ batch' = <<>>
        BY <1>16 DEF Restart
    <2>3. Range(batch)' = {}
        BY <2>2 DEF Range
    <2> QED
        BY <2>1, <2>2, <2>3, StoredKept
<1>17. CASE UNCHANGED vars
    <2>1. UNCHANGED <<row, object, batch, jobs, marked, raced>>
        BY <1>17 DEF vars
    <2> QED
        BY <2>1, StoredKept
<1> QED
    BY <1>4, <1>5, <1>6, <1>7, <1>8, <1>9, <1>10, <1>11, <1>12, <1>13, <1>14, <1>15, <1>16, <1>17 DEF Next, Finished

\* A block the store says it has has its data (BlockStore.Has), whatever uploads,
\* retrievals, deletions and restarts overlap - with the exceptions named there.
THEOREM Stored == Spec => []ReadyIsStored
<1>1. Init => StoredInv
    BY DEF Init, StoredInv, ReadyIsStored, DataFirst, BlockExists, IdleJob, Range
<1>2. StoredInv => ReadyIsStored
    BY DEF StoredInv
<1> QED
    BY InitTypes, NextTypes, NextStored, <1>1, <1>2, PTL DEF Spec
-----------------------------------------------------------------------------
(* The links of a ready block.                                              *)

\* Every step keeps the links of ready blocks: a block becomes ready in a batch
\* that adds its links, and one that loses a link is cut.
LEMMA NextLinks == TypeOK /\ LinksPresent /\ [Next]_vars => LinksPresent'
<1> SUFFICES ASSUME TypeOK, LinksPresent, [Next]_vars PROVE LinksPresent'
    OBVIOUS
<1>1. jobs \in [Jobs -> JobState] /\ batch \in Seq(Cids) /\ link \in [LinkRow -> Nat]
    BY DEF TypeOK
<1>2. ASSUME UNCHANGED <<row, link, cut>>
      PROVE  LinksPresent'
    BY <1>2 DEF LinksPresent, BlockExists, Present
<1>3. ASSUME NEW b \in Seq(Cids), BatchPin(b)
      PROVE  LinksPresent'
    <2>1. /\ Present' = Present \union UNION {UniqLinks(c) : c \in Range(b)}
          /\ \A c \in Cids : row'[c] = "ready" <=> c \in Range(b) \/ row[c] = "ready"
          /\ cut' = cut \ Range(b)
        BY <1>1, <1>3, PinnedRows, PinnedReady
    <2> SUFFICES ASSUME NEW c \in Cids, row'[c] = "ready", c \notin cut'
                 PROVE  UniqLinks(c) \subseteq Present'
        BY DEF LinksPresent, BlockExists
    <2> QED
        BY <2>1 DEF LinksPresent, BlockExists
<1>4. ASSUME NEW j \in Jobs, AddMetadata(j)
      PROVE  LinksPresent'
    <2> DEFINE b == Append(batch, jobs[j].cur)
    <2>1. jobs[j].cur \in Cids
        BY <1>4, JobSteps
    <2>2. b \in Seq(Cids)
        BY <1>1, <2>1, Appended
    <2>3. BatchPin(b) \/ UNCHANGED <<row, link, cut>>
        BY <1>4 DEF AddMetadata
    <2> HIDE DEF b
    <2> QED
        BY <1>2, <1>3, <2>2, <2>3
<1>5. ASSUME NEW j \in Jobs, Flush(j)
      PROVE  LinksPresent'
    BY <1>1, <1>3, <1>5 DEF Flush
<1>6. ASSUME NEW j \in Jobs, NEW c \in Cids, StorePlanned(j, c)
      PROVE  LinksPresent'
    <2>1. /\ link' = link /\ cut \subseteq cut'
          /\ \A x \in Cids : row'[x] = "ready" => row[x] = "ready" \/ x \in cut'
        BY <1>6 DEF StorePlanned, MarkBlockReady, TypeOK, Readiness
    <2> QED
        BY <2>1 DEF LinksPresent, BlockExists, Present
<1>7. ASSUME NEW c \in Cids, Unpin(c)
      PROVE  LinksPresent'
    <2>1. Present' = {l \in Present : c \notin {l.parent, l.child}}
        BY <1>1, <1>7, UnpinnedRows
    <2>2. /\ cut' = (cut \union {l.parent : l \in {k \in Present : k.child = c}}) \ {c}
          /\ \A x \in Cids : row'[x] = "ready" => row[x] = "ready" /\ x # c
        BY <1>7 DEF Unpin, TypeOK
    <2> SUFFICES ASSUME NEW x \in Cids, row'[x] = "ready", x \notin cut', NEW l \in UniqLinks(x)
                 PROVE  l \in Present'
        BY DEF LinksPresent, BlockExists
    <2>3. row[x] = "ready" /\ x # c /\ x \notin cut /\ l.parent = x
        BY <2>2, RowsOfParents
    <2>4. l \in Present
        BY <2>3 DEF LinksPresent, BlockExists
    <2>5. l.child # c
        BY <2>2, <2>3, <2>4
    <2> QED
        BY <2>1, <2>3, <2>4, <2>5
<1>8. ASSUME NEW j \in Jobs, NEW c \in Cids,
             \/ BeginUpload(j, c) \/ CollectVirtually(j, c) \/ PutObject(j, c) \/ ProcessMissingUnixFSNames(j, c)
             \/ FetchAndPrepareChildBlock(j, c)
      PROVE  UNCHANGED <<row, link, cut>>
    BY <1>8 DEF BeginUpload, CollectVirtually, PutObject, ProcessMissingUnixFSNames, FetchAndPrepareChildBlock
<1>9. ASSUME NEW j \in Jobs,
             \/ CollectDAGCids(j) \/ PrepareChildBlock(j) \/ EndNames(j) \/ EndRetrieve(j) \/ Confirm(j) \/ FailJob(j)
      PROVE  UNCHANGED <<row, link, cut>>
    BY <1>9 DEF CollectDAGCids, PrepareChildBlock, EndNames, EndRetrieve, Confirm, FailJob
<1>10. ASSUME DeleteObject \/ Restart \/ UNCHANGED vars
       PROVE  UNCHANGED <<row, link, cut>>
    BY <1>10 DEF DeleteObject, Restart, vars
<1> QED
    BY <1>2, <1>4, <1>5, <1>6, <1>7, <1>8, <1>9, <1>10 DEF Next, Finished

\* BlockChildren gives exactly the ready children of a ready block, in the order
\* of its links - with the exceptions named at ChildrenKnown.
THEOREM Known == Spec => []ChildrenKnown
<1>1. Init => LinksPresent
    BY DEF Init, LinksPresent, BlockExists
<1>2. LinksPresent => ChildrenKnown
    <2> SUFFICES ASSUME LinksPresent, NEW c \in Cids, BlockExists(c), c \notin cut
                 PROVE  BlockChildren(c) = InOrder({l \in UniqLinks(c) : BlockExists(l.child)})
        BY DEF ChildrenKnown
    <2>1. {l \in Present : l.parent = c /\ BlockExists(l.child)} = {l \in UniqLinks(c) : BlockExists(l.child)}
        BY RowsOfParents DEF LinksPresent, Present
    <2> QED
        BY <2>1 DEF BlockChildren
<1> QED
    BY InitTypes, NextTypes, NextLinks, <1>1, <1>2, PTL DEF Spec
-----------------------------------------------------------------------------
(* Names.                                                                   *)

\* Where a job is when it takes each step.
LEMMA JobGuards ==
    ASSUME NEW j \in Jobs
    PROVE  /\ \A c \in Cids : BeginUpload(j, c) \/ CollectVirtually(j, c) => jobs[j].pc = "idle"
           /\ CollectDAGCids(j) => jobs[j].pc = "collect"
           /\ \A c \in Cids : PutObject(j, c) =>
                 jobs[j].pc \in {"put", "refetch"} /\ jobs[j].cur = None /\ c \in jobs[j].todo
           /\ AddMetadata(j) => jobs[j].pc \in {"put", "refetch"} /\ jobs[j].cur # None
           /\ Flush(j) => jobs[j].pc = "put" /\ jobs[j].todo = {}
           /\ \A c \in Cids : ProcessMissingUnixFSNames(j, c) => jobs[j].pc \in {"names", "gaps"} /\ jobs[j].todo # {}
           /\ EndNames(j) => jobs[j].pc \in {"names", "gaps"} /\ jobs[j].todo = {}
           /\ \A c \in Cids : FetchAndPrepareChildBlock(j, c) => jobs[j].pc = "refetch"
           /\ PrepareChildBlock(j) => jobs[j].pc = "fetched"
           /\ EndRetrieve(j) => jobs[j].pc = "refetch"
           /\ \A c \in Cids : StorePlanned(j, c) => jobs[j].pc = "store"
           /\ Confirm(j) => jobs[j].pc = "store"
BY DEF BeginUpload, CollectVirtually, CollectDAGCids, PutObject, AddMetadata, Flush, ProcessMissingUnixFSNames, EndNames,
       FetchAndPrepareChildBlock, PrepareChildBlock, EndRetrieve, StorePlanned, Confirm, At

\* A job that keeps its walk goes down it still.
LEMMA DownKept ==
    ASSUME WalkDown, NEW j \in Jobs, NEW p, NEW c, NEW t, Moved(j, p, c, t, jobs[j].walk),
           p # "collect", p \in Walked => jobs[j].pc \in Walked,
           p = "put" /\ c # None => c \in t, p \in {"put", "names"} => t \subseteq jobs[j].walk
    PROVE  WalkDown'
<1> SUFFICES ASSUME NEW k \in Jobs PROVE Down(k)'
    BY DEF WalkDown
<1>1. CASE k # j
    BY <1>1 DEF WalkDown, Down, At, Moved
<1>2. CASE k = j
    <2>1. /\ jobs'[j].root = jobs[j].root /\ jobs'[j].pc = p /\ jobs'[j].cur = c /\ jobs'[j].todo = t
          /\ jobs'[j].walk = jobs[j].walk
        BY DEF Moved
    <2>2. Down(j)
        BY DEF WalkDown
    <2> QED
        BY <1>2, <2>1, <2>2 DEF Down, At
<1> QED
    BY <1>1, <1>2

\* Every step keeps a job's walk one that goes down from its root.
LEMMA NextDown == TypeOK /\ WalkDown /\ [Next]_vars => WalkDown'
<1> SUFFICES ASSUME TypeOK, WalkDown, [Next]_vars PROVE WalkDown'
    OBVIOUS
<1>1. jobs \in [Jobs -> JobState]
    BY DEF TypeOK
<1>2. \A j \in Jobs : Down(j)
    BY DEF WalkDown
<1>3. ASSUME NEW j \in Jobs, NEW r \in Cids, NEW p \in {"put", "collect"}, NEW S \in SUBSET Cids,
             Begun(j, r, p, S, S), S # {} => S = Reachable(r)
      PROVE  WalkDown'
    <2> SUFFICES ASSUME NEW k \in Jobs PROVE Down(k)'
        BY DEF WalkDown
    <2>1. CASE k # j
        BY <1>2, <1>3, <2>1 DEF Down, At, Begun
    <2>2. CASE k = j
        BY <1>3, <2>2, ReachedFromRoot DEF Down, At, Begun
    <2> QED
        BY <2>1, <2>2
<1>4. ASSUME NEW j \in Jobs, NEW c \in Cids, BeginUpload(j, c) \/ CollectVirtually(j, c)
      PROVE  WalkDown'
    <2>1. Begun(j, c, "put", Reachable(c), Reachable(c)) \/ Begun(j, c, "collect", {}, {})
        BY <1>4, JobSteps
    <2>2. Reachable(c) \in SUBSET Cids
        BY ReachedFromRoot
    <2> QED
        BY <1>3, <2>1, <2>2
<1>5. ASSUME NEW j \in Jobs, CollectDAGCids(j)
      PROVE  WalkDown'
    <2>1. jobs[j].cur = None /\ jobs[j].root \in Cids
        BY <1>2, <1>5, JobGuards DEF Down, At
    <2>2. PICK S \in Walks(jobs[j].root) \union {{}} :
              Moved(j, "put", jobs[j].cur, {x \in S : ~BlockExists(x)}, S)
        BY <1>5, JobSteps
    <2>3. /\ S \subseteq Reachable(jobs[j].root)
          /\ \A x \in S \ {jobs[j].root} : \E y \in S \ {x} : x \in Children(y)
        BY <2>1, <2>2, WalksDown
    <2> SUFFICES ASSUME NEW k \in Jobs PROVE Down(k)'
        BY DEF WalkDown
    <2>4. CASE k # j
        BY <1>2, <2>2, <2>4 DEF Down, At, Moved
    <2>5. CASE k = j
        BY <2>1, <2>2, <2>3, <2>5 DEF Down, At, Moved
    <2> QED
        BY <2>4, <2>5
<1>6. ASSUME NEW j \in Jobs, NEW c \in Cids, PutObject(j, c)
      PROVE  WalkDown'
    <2>1. Moved(j, jobs[j].pc, c, jobs[j].todo, jobs[j].walk)
        BY <1>6, JobSteps
    <2>2. jobs[j].pc \in {"put", "refetch"} /\ c \in jobs[j].todo
        BY <1>6, JobGuards
    <2> QED
        BY <1>2, <2>1, <2>2, DownKept DEF Down, At
<1>7. ASSUME NEW j \in Jobs, AddMetadata(j)
      PROVE  WalkDown'
    <2>1. \/ jobs[j].pc = "refetch" /\ Moved(j, "fetched", jobs[j].cur, jobs[j].todo, jobs[j].walk)
          \/ jobs[j].pc = "put" /\ Moved(j, "put", None, jobs[j].todo \ {jobs[j].cur}, jobs[j].walk)
        BY <1>7, JobSteps
    <2>2. Down(j)
        BY <1>2
    <2> QED
        BY <2>1, <2>2, DownKept DEF Down, At, Walked
<1>8. ASSUME NEW j \in Jobs, Flush(j)
      PROVE  WalkDown'
    <2>1. jobs[j].pc = "put"
        BY <1>8, JobGuards
    <2>2. Moved(j, "names", jobs[j].cur, jobs[j].walk, jobs[j].walk)
        BY <1>8, JobSteps
    <2> QED
        BY <2>1, <2>2, DownKept DEF Walked
<1>9. ASSUME NEW j \in Jobs, NEW c \in Cids, ProcessMissingUnixFSNames(j, c)
      PROVE  WalkDown'
    <2>1. PICK t : Moved(j, jobs[j].pc, jobs[j].cur, t, jobs[j].walk) /\ t \subseteq jobs[j].todo
        BY <1>9, JobSteps
    <2>2. jobs[j].pc \in {"names", "gaps"}
        BY <1>9, JobGuards
    <2>3. jobs[j].pc \in {"put", "names"} => jobs[j].todo \subseteq jobs[j].walk
        BY <1>2 DEF Down, At
    <2> QED
        BY <2>1, <2>2, <2>3, DownKept
<1>10. ASSUME NEW j \in Jobs, EndNames(j)
       PROVE  WalkDown'
    <2>1. PICK p, c, t : Moved(j, p, c, t, jobs[j].walk) /\ p \in {"done", "refetch"}
        BY <1>10, JobSteps
    <2>2. jobs[j].pc \in Walked
        BY <1>10, JobGuards DEF Walked
    <2> QED
        BY <2>1, <2>2, DownKept
<1>11. ASSUME NEW j \in Jobs, NEW c \in Cids, FetchAndPrepareChildBlock(j, c)
       PROVE  WalkDown'
    <2>1. jobs[j].pc = "refetch"
        BY <1>11, JobGuards
    <2>2. PICK p, x, t : Moved(j, p, x, t, jobs[j].walk) /\ p \in {"fetched", "refetch"}
        BY <1>11, <2>1, JobSteps
    <2> QED
        BY <2>1, <2>2, DownKept DEF Walked
<1>12. ASSUME NEW j \in Jobs, PrepareChildBlock(j) \/ EndRetrieve(j) \/ Confirm(j) \/ FailJob(j)
       PROVE  WalkDown'
    <2>1. PICK p, c, t : Moved(j, p, c, t, jobs[j].walk) /\ p \in {"refetch", "store", "gaps", "failed"}
                         /\ (p = "failed" \/ jobs[j].pc \in Walked)
        BY <1>12, JobSteps, JobGuards DEF Walked
    <2> QED
        BY <2>1, DownKept DEF Walked
<1>13. ASSUME NEW j \in Jobs, NEW c \in Cids, StorePlanned(j, c)
       PROVE  WalkDown'
    <2>1. jobs[j].pc = "store"
        BY <1>13, JobGuards
    <2>2. Moved(j, "store", jobs[j].cur, jobs[j].todo \ {c}, jobs[j].walk)
        BY <1>13, <2>1, JobSteps
    <2> QED
        BY <2>1, <2>2, DownKept DEF Walked
<1>14. ASSUME Restart
       PROVE  WalkDown'
    <2> SUFFICES ASSUME NEW k \in Jobs PROVE Down(k)'
        BY DEF WalkDown
    <2>1. jobs'[k] = jobs[k] \/ jobs'[k].pc = "failed"
        BY <1>1, <1>14, RestartStep
    <2> QED
        BY <1>2, <2>1 DEF Down, At, Walked
<1>15. ASSUME jobs' = jobs
       PROVE  WalkDown'
    BY <1>2, <1>15 DEF WalkDown, Down, At
<1>16. ASSUME (\E c \in Cids : Unpin(c)) \/ DeleteObject \/ UNCHANGED vars
       PROVE  jobs' = jobs
    BY <1>16 DEF Unpin, DeleteObject, vars
<1> QED
    BY <1>4, <1>5, <1>6, <1>7, <1>8, <1>9, <1>10, <1>11, <1>12, <1>13, <1>14, <1>15, <1>16 DEF Next, Finished

\* No block that may be without a name is forgotten.
LEMMA ExceptedKept == [Next]_vars => unnamed \subseteq unnamed' /\ \A c : Lost(c) => Lost(c)'
<1> SUFFICES ASSUME [Next]_vars PROVE unnamed \subseteq unnamed'
    BY DEF Lost
<1>1. ASSUME NEW j \in Jobs, NEW c \in Cids,
             \/ BeginUpload(j, c) \/ CollectVirtually(j, c) \/ PutObject(j, c) \/ ProcessMissingUnixFSNames(j, c)
             \/ FetchAndPrepareChildBlock(j, c) \/ StorePlanned(j, c)
      PROVE  unnamed \subseteq unnamed'
    BY <1>1 DEF BeginUpload, CollectVirtually, PutObject, ProcessMissingUnixFSNames, FetchAndPrepareChildBlock, StorePlanned
<1>2. ASSUME NEW j \in Jobs,
             \/ CollectDAGCids(j) \/ AddMetadata(j) \/ Flush(j) \/ PrepareChildBlock(j) \/ EndNames(j) \/ EndRetrieve(j)
             \/ Confirm(j) \/ FailJob(j)
      PROVE  unnamed \subseteq unnamed'
    BY <1>2 DEF CollectDAGCids, AddMetadata, Flush, PrepareChildBlock, EndNames, EndRetrieve, Confirm, FailJob
<1>3. ASSUME (\E c \in Cids : Unpin(c)) \/ DeleteObject \/ Restart \/ UNCHANGED vars
      PROVE  unnamed \subseteq unnamed'
    BY <1>3 DEF Unpin, DeleteObject, Restart, vars
<1> QED
    BY <1>1, <1>2, <1>3 DEF Next, Finished

\* A block and those it links to, of which one is excepted with its links.
LEMMA LostBlocks ==
    ASSUME NEW c, Lost(c)
    PROVE  c \in unnamed /\ Children(c) \subseteq unnamed
BY DEF Lost, Linked

\* What a step must respect: data goes only where the block is excepted, and who
\* will add links to a block, or has added them, had its data.
LEMMA ParentsKept ==
    ASSUME ParentsStored, [Next]_vars,
           deleting' # None => Lost(deleting)',
           \A c \in object : c \in object' \/ Lost(c)',
           \A c \in Range(batch)' : c \in Range(batch) \/ c \in object \/ Lost(c),
           \A j \in Jobs : jobs'[j].cur # None =>
               jobs'[j].cur = jobs[j].cur \/ jobs'[j].cur \in object' \/ Lost(jobs'[j].cur),
           \A l \in Present' : l \in Present \/ l.parent \in object \/ Lost(l.parent)
    PROVE  ParentsStored'
<1>1. \A c : Lost(c) => Lost(c)'
    BY ExceptedKept
<1>2. \A c \in Range(batch)' : c \in object' \/ Lost(c)'
    BY <1>1 DEF ParentsStored
<1>3. \A j \in Jobs : jobs'[j].cur # None => jobs'[j].cur \in object' \/ Lost(jobs[j].cur)'
    <2> SUFFICES ASSUME NEW j \in Jobs, jobs'[j].cur # None
                 PROVE  jobs'[j].cur \in object' \/ Lost(jobs[j].cur)'
        OBVIOUS
    <2>1. jobs'[j].cur = jobs[j].cur => jobs[j].cur \in object \/ Lost(jobs[j].cur)
        BY DEF ParentsStored
    <2> QED
        BY <2>1, ExceptedKept DEF Lost
<1>4. \A l \in Present' : l.parent \in object' \/ Lost(l.parent)'
    BY <1>1 DEF ParentsStored
<1> QED
    BY <1>2, <1>3, <1>4 DEF ParentsStored

\* Every step that adds links to a block, or prepares to, has its data.
LEMMA NextParents == TypeOK /\ ParentsStored /\ [Next]_vars => ParentsStored'
<1> SUFFICES ASSUME TypeOK, ParentsStored, [Next]_vars PROVE ParentsStored'
    OBVIOUS
<1>1. jobs \in [Jobs -> JobState] /\ batch \in Seq(Cids) /\ link \in [LinkRow -> Nat] /\ deleting \in Cids \union {None}
    BY DEF TypeOK
<1>2. /\ deleting # None => Lost(deleting)
      /\ \A c \in Range(batch) : c \in object \/ Lost(c)
      /\ \A j \in Jobs : jobs[j].cur # None => jobs[j].cur \in object \/ Lost(jobs[j].cur)
    BY DEF ParentsStored
<1>3. \A c : Lost(c) => Lost(c)'
    BY ExceptedKept
<1>a. None \notin Cids
    BY BlocksAssumption
<1>4. ASSUME deleting' = deleting
      PROVE  deleting' # None => Lost(deleting)'
    <2>1. deleting # None => Lost(deleting)
        BY <1>2
    <2> QED
        BY <1>4, <2>1, ExceptedKept DEF Lost
<1>5. ASSUME UNCHANGED <<link, batch, deleting>>, object \subseteq object',
             \A j \in Jobs : jobs'[j].cur = jobs[j].cur \/ jobs'[j].cur = None \/ jobs'[j].cur \in object'
      PROVE  ParentsStored'
    <2>1. Range(batch)' = Range(batch) /\ Present' = Present
        BY <1>5 DEF Range, Present
    <2> QED
        BY <1>4, <1>5, <2>1, ParentsKept
<1>6. ASSUME NEW j \in Jobs, NEW c \in Cids, BeginUpload(j, c) \/ CollectVirtually(j, c)
      PROVE  ParentsStored'
    <2>1. \A k \in Jobs : jobs'[k].cur = jobs[k].cur \/ jobs'[k].cur = None
        BY <1>6, JobSteps DEF Begun
    <2>2. UNCHANGED <<link, batch, deleting, object>>
        BY <1>6 DEF BeginUpload, CollectVirtually
    <2> QED
        BY <1>5, <2>1, <2>2
<1>7. ASSUME NEW j \in Jobs, CollectDAGCids(j) \/ EndNames(j) \/ EndRetrieve(j) \/ Confirm(j)
      PROVE  ParentsStored'
    <2>1. \A k \in Jobs : jobs'[k].cur = jobs[k].cur
        BY <1>7, JobSteps DEF Moved
    <2>2. UNCHANGED <<link, batch, deleting, object>>
        BY <1>7 DEF CollectDAGCids, EndNames, EndRetrieve, Confirm
    <2> QED
        BY <1>5, <2>1, <2>2
<1>8. ASSUME NEW j \in Jobs, NEW c \in Cids, PutObject(j, c)
      PROVE  ParentsStored'
    <2>1. \A k \in Jobs : jobs'[k].cur = jobs[k].cur \/ jobs'[k].cur = c
        BY <1>8, JobSteps DEF Moved
    <2>2. UNCHANGED <<link, batch, deleting>> /\ object' = object \union {c}
        BY <1>8 DEF PutObject
    <2> QED
        BY <1>5, <2>1, <2>2
<1>9. ASSUME NEW b \in Seq(Cids), BatchPin(b), \A c \in Range(b) : c \in object \/ Lost(c)
      PROVE  \A l \in Present' : l \in Present \/ l.parent \in object \/ Lost(l.parent)
    <2>1. Present' = Present \union UNION {UniqLinks(c) : c \in Range(b)}
        BY <1>1, <1>9, PinnedRows
    <2>2. \A c \in Range(b) : \A l \in UniqLinks(c) : l.parent = c
        BY RowsOfParents DEF Range
    <2> QED
        BY <1>9, <2>1, <2>2
<1>10. ASSUME NEW j \in Jobs, AddMetadata(j)
       PROVE  ParentsStored'
    <2> DEFINE c == jobs[j].cur
               b == Append(batch, c)
    <2>1. c \in Cids
        BY <1>10, JobSteps
    <2>2. c \in object \/ Lost(c)
        BY <1>2, <1>a, <2>1
    <2>3. b \in Seq(Cids) /\ Range(b) = Range(batch) \union {c}
        BY <1>1, <2>1, Appended
    <2>4. \A x \in Range(b) : x \in object \/ Lost(x)
        BY <1>2, <2>2, <2>3
    <2>5. \A k \in Jobs : jobs'[k].cur = jobs[k].cur \/ jobs'[k].cur = None
        BY <1>10, JobSteps DEF Moved
    <2>6. UNCHANGED <<object, deleting>>
        BY <1>10 DEF AddMetadata
    <2>7. /\ \A x \in Range(batch)' : x \in object \/ Lost(x)
          /\ \A l \in Present' : l \in Present \/ l.parent \in object \/ Lost(l.parent)
        <3>1. CASE Len(b) >= BatchSize
            <4>1. BatchPin(b) /\ batch' = <<>>
                BY <1>10, <3>1 DEF AddMetadata
            <4>2. Range(batch)' = {}
                BY <4>1 DEF Range
            <4> HIDE DEF b
            <4> QED
                BY <1>9, <2>3, <2>4, <4>1, <4>2
        <3>2. CASE ~(Len(b) >= BatchSize)
            <4>1. batch' = b /\ link' = link
                BY <1>10, <3>2 DEF AddMetadata
            <4>2. Range(batch)' = Range(b) /\ Present' = Present
                BY <4>1 DEF Range, Present
            <4> QED
                BY <2>4, <4>2
        <3> QED
            BY <3>1, <3>2
    <2> QED
        BY <1>4, <2>5, <2>6, <2>7, ParentsKept
<1>11. ASSUME NEW j \in Jobs, Flush(j)
       PROVE  ParentsStored'
    <2>1. \A k \in Jobs : jobs'[k].cur = jobs[k].cur
        BY <1>11, JobSteps DEF Moved
    <2>2. BatchPin(batch) /\ batch' = <<>> /\ UNCHANGED <<object, deleting>>
        BY <1>11 DEF Flush
    <2>3. Range(batch)' = {}
        BY <2>2 DEF Range
    <2>4. \A l \in Present' : l \in Present \/ l.parent \in object \/ Lost(l.parent)
        BY <1>1, <1>2, <1>9, <2>2
    <2> QED
        BY <1>4, <2>1, <2>2, <2>3, <2>4, ParentsKept
<1>12. ASSUME NEW j \in Jobs, NEW c \in Cids, ProcessMissingUnixFSNames(j, c) \/ StorePlanned(j, c)
       PROVE  ParentsStored'
    <2>1. \A k \in Jobs : jobs'[k].cur = jobs[k].cur
        BY <1>12, JobSteps DEF Moved
    <2>2. UNCHANGED <<link, batch, deleting, object>>
        BY <1>12 DEF ProcessMissingUnixFSNames, StorePlanned
    <2> QED
        BY <1>5, <2>1, <2>2
<1>13. ASSUME NEW j \in Jobs, NEW c \in Cids, FetchAndPrepareChildBlock(j, c)
       PROVE  ParentsStored'
    <2>1. \A k \in Jobs : jobs'[k].cur = jobs[k].cur \/ (jobs'[k].cur = c /\ c \in object)
        BY <1>13, JobSteps DEF Moved, Readable
    <2>2. UNCHANGED <<link, batch, deleting, object>>
        BY <1>13 DEF FetchAndPrepareChildBlock
    <2> QED
        BY <1>5, <2>1, <2>2
<1>14. ASSUME NEW j \in Jobs, PrepareChildBlock(j) \/ FailJob(j)
       PROVE  ParentsStored'
    <2>1. \A k \in Jobs : jobs'[k].cur = jobs[k].cur \/ jobs'[k].cur = None
        BY <1>14, JobSteps DEF Moved
    <2>2. UNCHANGED <<link, batch, deleting, object>>
        BY <1>14 DEF PrepareChildBlock, FailJob
    <2> QED
        BY <1>5, <2>1, <2>2
<1>15. ASSUME NEW c \in Cids, Unpin(c)
       PROVE  ParentsStored'
    <2>1. deleting' = c /\ unnamed' = unnamed \union Linked({c}) /\ UNCHANGED <<jobs, object, batch>>
        BY <1>15 DEF Unpin
    <2>2. deleting' # None => Lost(deleting)'
        BY <2>1 DEF Lost
    <2>3. Present' \subseteq Present
        BY <1>1, <1>15, UnpinnedRows
    <2>4. Range(batch)' = Range(batch)
        BY <2>1 DEF Range
    <2> QED
        BY <2>1, <2>2, <2>3, <2>4, ParentsKept
<1>16. ASSUME DeleteObject
       PROVE  ParentsStored'
    <2>1. /\ deleting # None /\ deleting' = None /\ object' = object \ {deleting}
          /\ UNCHANGED <<jobs, batch, link>>
        BY <1>16 DEF DeleteObject
    <2>2. \A c \in object : c \in object' \/ Lost(c)'
        BY <1>2, <1>3, <2>1
    <2>3. Range(batch)' = Range(batch) /\ Present' = Present
        BY <2>1 DEF Range, Present
    <2> QED
        BY <2>1, <2>2, <2>3, ParentsKept
<1>17. ASSUME Restart
       PROVE  ParentsStored'
    <2>1. \A k \in Jobs : jobs'[k].cur = jobs[k].cur \/ jobs'[k].cur = None
        BY <1>1, <1>17, RestartStep
    <2>2. UNCHANGED <<link, object>> /\ deleting' = None /\ batch' = <<>>
        BY <1>17 DEF Restart
    <2>3. Range(batch)' = {} /\ Present' = Present
        BY <2>2 DEF Range, Present
    <2> QED
        BY <2>1, <2>2, <2>3, ParentsKept
<1>18. CASE UNCHANGED vars
    <2>1. UNCHANGED <<link, batch, deleting, object, jobs>>
        BY <1>18 DEF vars
    <2> QED
        BY <1>5, <2>1
<1> QED
    BY <1>6, <1>7, <1>8, <1>10, <1>11, <1>12, <1>13, <1>14, <1>15, <1>16, <1>17, <1>18 DEF Next, Finished

\* Every step leaves a ready block with a node and its links.
LEMMA NextWhole == TypeOK /\ ReadyIsWhole /\ [Next]_vars => ReadyIsWhole'
<1> SUFFICES ASSUME TypeOK, ReadyIsWhole, [Next]_vars PROVE ReadyIsWhole'
    OBVIOUS
<1>1. /\ jobs \in [Jobs -> JobState] /\ batch \in Seq(Cids) /\ link \in [LinkRow -> Nat]
      /\ row \in [Cids -> Readiness] /\ node \in [Cids -> NodeName]
    BY DEF TypeOK
<1>2. None # "" /\ None \notin Names
    BY BlocksAssumption
<1>a. unnamed \subseteq unnamed'
    BY ExceptedKept
<1>3. ASSUME UNCHANGED <<row, link>>, \A c \in Cids : node[c] # None => node'[c] # None
      PROVE  ReadyIsWhole'
    BY <1>3, <1>a DEF ReadyIsWhole, BlockExists, Present
<1>4. ASSUME NEW b \in Seq(Cids), BatchPin(b)
      PROVE  ReadyIsWhole'
    <2>1. /\ Present' = Present \union UNION {UniqLinks(c) : c \in Range(b)}
          /\ \A c \in Cids : row'[c] = "ready" <=> c \in Range(b) \/ row[c] = "ready"
          /\ \A c \in Cids : node'[c] = IF c \in Range(b) THEN "" ELSE node[c]
        BY <1>1, <1>4, PinnedRows, PinnedReady
    <2> SUFFICES ASSUME NEW c \in Cids, row'[c] = "ready"
                 PROVE  /\ node'[c] # None \/ c \in unnamed'
                        /\ \A l \in UniqLinks(c) : l \in Present' \/ l.child \in unnamed'
        BY DEF ReadyIsWhole, BlockExists
    <2>2. CASE c \in Range(b)
        BY <1>2, <2>1, <2>2
    <2>3. CASE c \notin Range(b)
        BY <1>a, <2>1, <2>3 DEF ReadyIsWhole, BlockExists
    <2> QED
        BY <2>2, <2>3
<1>5. ASSUME NEW j \in Jobs, AddMetadata(j)
      PROVE  ReadyIsWhole'
    <2> DEFINE b == Append(batch, jobs[j].cur)
    <2>1. jobs[j].cur \in Cids
        BY <1>5, JobSteps
    <2>2. b \in Seq(Cids)
        BY <1>1, <2>1, Appended
    <2>3. BatchPin(b) \/ UNCHANGED <<row, link, node>>
        BY <1>5 DEF AddMetadata
    <2> HIDE DEF b
    <2> QED
        BY <1>3, <1>4, <2>2, <2>3
<1>6. ASSUME NEW j \in Jobs, Flush(j)
      PROVE  ReadyIsWhole'
    BY <1>1, <1>4, <1>6 DEF Flush
<1>7. ASSUME NEW j \in Jobs, NEW c \in Cids, ProcessMissingUnixFSNames(j, c)
      PROVE  ReadyIsWhole'
    <2>1. UNCHANGED <<row, link>>
        BY <1>7 DEF ProcessMissingUnixFSNames
    <2> DEFINE name == ResolveNameFromParent(c)
    <2>2. node' = IF node[c] # "" \/ name = None THEN node ELSE [node EXCEPT ![c] = name]
        BY <1>7 DEF ProcessMissingUnixFSNames
    <2> HIDE DEF name
    <2>3. \A x \in Cids : node[x] # None => node'[x] # None
        BY <1>1, <2>2
    <2> QED
        BY <1>3, <2>1, <2>3
<1>8. ASSUME NEW j \in Jobs, PrepareChildBlock(j)
      PROVE  ReadyIsWhole'
    <2>1. UNCHANGED <<row, link>>
        BY <1>8 DEF PrepareChildBlock
    <2> DEFINE c == jobs[j].cur
    <2>2. node' = IF row[c] # "none" /\ node[c] = None THEN [node EXCEPT ![c] = ""] ELSE node
        BY <1>8 DEF PrepareChildBlock, UpdateUnixFSMetadata, ExtractNodeMetadata
    <2>3. \A x \in Cids : node[x] # None => node'[x] # None
        BY <1>1, <1>2, <2>2
    <2> QED
        BY <1>3, <2>1, <2>3
<1>9. ASSUME NEW j \in Jobs, NEW c \in Cids, StorePlanned(j, c)
      PROVE  ReadyIsWhole'
    <2>1. /\ UNCHANGED <<link, node>>
          /\ row' = MarkBlockReady(c)
          /\ unnamed' = IF row[c] = "placeholder" THEN unnamed \union Linked({c}) ELSE unnamed
        BY <1>9 DEF StorePlanned
    <2>2. \A x \in Cids : row'[x] = "ready" => row[x] = "ready" \/ x = c
        BY <1>1, <2>1 DEF MarkBlockReady
    <2>3. row[c] = "none" => row'[c] # "ready"
        BY <1>1, <2>1 DEF MarkBlockReady
    <2> SUFFICES ASSUME NEW x \in Cids, row'[x] = "ready"
                 PROVE  /\ node'[x] # None \/ x \in unnamed'
                        /\ \A l \in UniqLinks(x) : l \in Present' \/ l.child \in unnamed'
        BY DEF ReadyIsWhole, BlockExists
    <2>4. CASE row[x] = "ready"
        BY <1>a, <2>1, <2>4 DEF ReadyIsWhole, BlockExists, Present
    <2>5. CASE row[x] # "ready"
        <3>1. x = c /\ row[c] = "placeholder"
            BY <1>1, <2>2, <2>3, <2>5 DEF Readiness
        <3>2. Linked({x}) \subseteq unnamed'
            BY <2>1, <3>1
        <3>3. x \in unnamed' /\ Children(x) \subseteq unnamed'
            BY <3>2 DEF Linked
        <3> QED
            BY <3>3, RowsOfParents
    <2> QED
        BY <2>4, <2>5
<1>10. ASSUME NEW c \in Cids, Unpin(c)
       PROVE  ReadyIsWhole'
    <2>1. Present' = {l \in Present : c \notin {l.parent, l.child}}
        BY <1>1, <1>10, UnpinnedRows
    <2>2. /\ unnamed' = unnamed \union Linked({c})
          /\ \A x \in Cids : row'[x] = "ready" => row[x] = "ready" /\ x # c
          /\ \A x \in Cids : x # c => node'[x] = node[x]
        BY <1>1, <1>10 DEF Unpin
    <2>3. c \in unnamed'
        BY <2>2 DEF Linked
    <2> SUFFICES ASSUME NEW x \in Cids, row'[x] = "ready"
                 PROVE  /\ node'[x] # None \/ x \in unnamed'
                        /\ \A l \in UniqLinks(x) : l \in Present' \/ l.child \in unnamed'
        BY DEF ReadyIsWhole, BlockExists
    <2>4. \A l \in UniqLinks(x) : l.parent = x
        BY RowsOfParents
    <2>5. row[x] = "ready" /\ x # c
        BY <2>2
    <2>6. /\ node[x] # None \/ x \in unnamed
          /\ \A l \in UniqLinks(x) : l \in Present \/ l.child \in unnamed
        BY <2>5 DEF ReadyIsWhole, BlockExists
    <2> QED
        BY <1>a, <2>1, <2>2, <2>3, <2>4, <2>5, <2>6
<1>11. ASSUME NEW j \in Jobs, NEW c \in Cids,
              BeginUpload(j, c) \/ CollectVirtually(j, c) \/ PutObject(j, c) \/ FetchAndPrepareChildBlock(j, c)
       PROVE  UNCHANGED <<row, link, node>>
    BY <1>11 DEF BeginUpload, CollectVirtually, PutObject, FetchAndPrepareChildBlock
<1>12. ASSUME NEW j \in Jobs,
              CollectDAGCids(j) \/ EndNames(j) \/ EndRetrieve(j) \/ Confirm(j) \/ FailJob(j)
       PROVE  UNCHANGED <<row, link, node>>
    BY <1>12 DEF CollectDAGCids, EndNames, EndRetrieve, Confirm, FailJob
<1>13. ASSUME DeleteObject \/ Restart \/ UNCHANGED vars
       PROVE  UNCHANGED <<row, link, node>>
    BY <1>13 DEF DeleteObject, Restart, vars
<1>14. ASSUME UNCHANGED <<row, link, node>>
       PROVE  ReadyIsWhole'
    BY <1>3, <1>14
<1> QED
    BY <1>5, <1>6, <1>7, <1>8, <1>9, <1>10, <1>11, <1>12, <1>13, <1>14 DEF Next, Finished

\* Only Unpin takes a ready row away, and it excepts the block.
LEMMA ReadyKept == TypeOK /\ [Next]_vars => \A c \in Cids : row[c] = "ready" => row'[c] = "ready" \/ Lost(c)'
<1> SUFFICES ASSUME TypeOK, [Next]_vars PROVE \A c \in Cids : row[c] = "ready" => row'[c] = "ready" \/ Lost(c)'
    OBVIOUS
<1>1. jobs \in [Jobs -> JobState] /\ batch \in Seq(Cids) /\ row \in [Cids -> Readiness]
    BY DEF TypeOK
<1>2. ASSUME NEW j \in Jobs, AddMetadata(j)
      PROVE  \A c \in Cids : row[c] = "ready" => row'[c] = "ready"
    <2> DEFINE b == Append(batch, jobs[j].cur)
    <2>1. jobs[j].cur \in Cids
        BY <1>2, JobSteps
    <2>2. b \in Seq(Cids)
        BY <1>1, <2>1, Appended
    <2>3. BatchPin(b) \/ UNCHANGED row
        BY <1>2 DEF AddMetadata
    <2> HIDE DEF b
    <2> QED
        BY <2>2, <2>3, PinnedReady
<1>3. ASSUME NEW j \in Jobs, Flush(j)
      PROVE  \A c \in Cids : row[c] = "ready" => row'[c] = "ready"
    BY <1>1, <1>3, PinnedReady DEF Flush
<1>4. ASSUME NEW j \in Jobs, NEW x \in Cids, StorePlanned(j, x)
      PROVE  \A c \in Cids : row[c] = "ready" => row'[c] = "ready"
    BY <1>1, <1>4 DEF StorePlanned, MarkBlockReady
<1>5. ASSUME NEW x \in Cids, Unpin(x)
      PROVE  \A c \in Cids : row[c] = "ready" => row'[c] = "ready" \/ Lost(c)'
    BY <1>1, <1>5 DEF Unpin, Lost
<1>6. ASSUME NEW j \in Jobs, NEW c \in Cids,
             \/ BeginUpload(j, c) \/ CollectVirtually(j, c) \/ PutObject(j, c) \/ ProcessMissingUnixFSNames(j, c)
             \/ FetchAndPrepareChildBlock(j, c)
      PROVE  row' = row
    BY <1>6 DEF BeginUpload, CollectVirtually, PutObject, ProcessMissingUnixFSNames, FetchAndPrepareChildBlock
<1>7. ASSUME NEW j \in Jobs,
             \/ CollectDAGCids(j) \/ PrepareChildBlock(j) \/ EndNames(j) \/ EndRetrieve(j) \/ Confirm(j) \/ FailJob(j)
      PROVE  row' = row
    BY <1>7 DEF CollectDAGCids, PrepareChildBlock, EndNames, EndRetrieve, Confirm, FailJob
<1>8. ASSUME DeleteObject \/ Restart \/ UNCHANGED vars
      PROVE  row' = row
    BY <1>8 DEF DeleteObject, Restart, vars
<1> QED
    BY <1>2, <1>3, <1>4, <1>5, <1>6, <1>7, <1>8 DEF Next, Finished

\* What a step must respect: a block of a walk is added only ready or ahead, and
\* one that was ahead becomes ready or stays ahead.
LEMMA AccountKept ==
    ASSUME TypeOK, WalkStored, [Next]_vars,
           \A k \in Jobs : jobs'[k].pc \in Walked => \A y \in jobs'[k].walk :
               \/ row'[y] = "ready" \/ Ahead(k, y)'
               \/ jobs[k].pc \in Walked /\ y \in jobs[k].walk /\ ~Ahead(k, y)
    PROVE  WalkStored'
<1> SUFFICES ASSUME NEW k \in Jobs, jobs'[k].pc \in Walked, NEW y \in jobs'[k].walk
             PROVE  Lost(y)' \/ row'[y] = "ready" \/ Ahead(k, y)'
    BY DEF WalkStored, BlockExists, At
<1>1. CASE jobs[k].pc \in Walked /\ y \in jobs[k].walk /\ ~Ahead(k, y)
    <2>1. y \in Cids
        BY <1>1 DEF TypeOK, JobState
    <2>2. Lost(y) \/ row[y] = "ready"
        BY <1>1 DEF WalkStored, BlockExists, At
    <2> QED
        BY <2>1, <2>2, ReadyKept, ExceptedKept
<1> QED
    BY <1>1

\* Every step keeps what a job has walked through ready or ahead of it.
LEMMA NextWalkStored == TypeOK /\ WalkDown /\ WalkStored /\ [Next]_vars => WalkStored'
<1> SUFFICES ASSUME TypeOK, WalkDown, WalkStored, [Next]_vars PROVE WalkStored'
    OBVIOUS
<1>1. /\ jobs \in [Jobs -> JobState] /\ batch \in Seq(Cids)
      /\ \A k \in Jobs : jobs[k].walk \subseteq Cids
    BY DEF TypeOK, JobState
<1>2. ASSUME NEW k \in Jobs, jobs'[k] = jobs[k], Range(batch)' = Range(batch), jobs'[k].pc \in Walked, NEW y \in jobs'[k].walk
      PROVE  \/ Ahead(k, y)'
             \/ jobs[k].pc \in Walked /\ y \in jobs[k].walk /\ ~Ahead(k, y)
    BY <1>2 DEF Ahead, At
<1>3. ASSUME NEW j \in Jobs, NEW p, NEW c, NEW t, Moved(j, p, c, t, jobs[j].walk), batch' = batch,
             p \in Walked => jobs[j].pc \in Walked, jobs[j].pc = "put" /\ p \in Walked => p = "put" /\ t = jobs[j].todo
      PROVE  WalkStored'
    <2>1. Range(batch)' = Range(batch)
        BY <1>3 DEF Range
    <2>2. ASSUME NEW y \in jobs'[j].walk, jobs'[j].pc \in Walked
          PROVE  \/ Ahead(j, y)'
                 \/ jobs[j].pc \in Walked /\ y \in jobs[j].walk /\ ~Ahead(j, y)
        <3>1. /\ jobs'[j].pc = p /\ jobs'[j].todo = t /\ y \in jobs[j].walk /\ jobs[j].pc \in Walked
            BY <1>3, <2>2 DEF Moved
        <3>2. CASE jobs[j].pc = "put"
            BY <1>3, <2>1, <2>2, <3>1, <3>2 DEF Ahead, At
        <3>3. CASE jobs[j].pc # "put"
            BY <3>1, <3>3 DEF Ahead, At
        <3> QED
            BY <3>2, <3>3
    <2>3. \A k \in Jobs : k # j => jobs'[k] = jobs[k]
        BY <1>3 DEF Moved
    <2> QED
        BY <1>2, <2>1, <2>2, <2>3, AccountKept
<1>4. ASSUME NEW j \in Jobs, NEW c \in Cids, BeginUpload(j, c)
      PROVE  WalkStored'
    <2>1. Range(batch)' = Range(batch)
        BY <1>4 DEF BeginUpload, Range
    <2>2. Begun(j, c, "put", Reachable(c), Reachable(c))
        BY <1>4, JobSteps
    <2>3. \A y \in jobs'[j].walk : Ahead(j, y)'
        BY <2>2 DEF Begun, Ahead, At
    <2> QED
        BY <1>2, <2>1, <2>2, <2>3, AccountKept DEF Begun
<1>5. ASSUME NEW j \in Jobs, NEW c \in Cids, CollectVirtually(j, c)
      PROVE  WalkStored'
    <2>1. Range(batch)' = Range(batch)
        BY <1>5 DEF CollectVirtually, Range
    <2>2. Begun(j, c, "collect", {}, {})
        BY <1>5, JobSteps
    <2> QED
        BY <1>2, <2>1, <2>2, AccountKept DEF Begun
<1>6. ASSUME NEW j \in Jobs, CollectDAGCids(j)
      PROVE  WalkStored'
    <2>1. Range(batch)' = Range(batch) /\ row' = row
        BY <1>6 DEF CollectDAGCids, Range
    <2>2. PICK S : Moved(j, "put", jobs[j].cur, {x \in S : ~BlockExists(x)}, S)
        BY <1>6, JobSteps
    <2>3. \A y \in jobs'[j].walk : row'[y] = "ready" \/ Ahead(j, y)'
        BY <2>1, <2>2 DEF Moved, Ahead, At, BlockExists
    <2>4. \A k \in Jobs : k # j => jobs'[k] = jobs[k]
        BY <2>2 DEF Moved
    <2> QED
        BY <1>2, <2>1, <2>3, <2>4, AccountKept
<1>7. ASSUME NEW j \in Jobs, NEW c \in Cids, PutObject(j, c)
      PROVE  WalkStored'
    <2>1. Moved(j, jobs[j].pc, c, jobs[j].todo, jobs[j].walk)
        BY <1>7, JobSteps
    <2>2. batch' = batch
        BY <1>7 DEF PutObject
    <2> QED
        BY <1>3, <2>1, <2>2
<1>8. ASSUME NEW j \in Jobs, AddMetadata(j)
      PROVE  WalkStored'
    <2> DEFINE c == jobs[j].cur
               b == Append(batch, c)
    <2>1. c \in Cids
        BY <1>8, JobSteps
    <2>2. b \in Seq(Cids) /\ Range(b) = Range(batch) \union {c}
        BY <1>1, <2>1, Appended
    <2>3. \A x \in Range(batch) \union {c} : x \in Range(batch)' \/ row'[x] = "ready"
        <3>1. CASE Len(b) >= BatchSize
            <4>1. BatchPin(b)
                BY <1>8, <3>1 DEF AddMetadata
            <4>2. Range(b) \subseteq Cids
                BY <2>2 DEF Range
            <4> HIDE DEF b
            <4> QED
                BY <2>2, <4>1, <4>2, PinnedReady
        <3>2. CASE ~(Len(b) >= BatchSize)
            <4>1. batch' = b
                BY <1>8, <3>2 DEF AddMetadata
            <4>2. Range(batch)' = Range(b)
                BY <4>1 DEF Range
            <4> QED
                BY <2>2, <4>2
        <3> QED
            BY <3>1, <3>2
    <2>4. \/ jobs[j].pc = "refetch" /\ Moved(j, "fetched", c, jobs[j].todo, jobs[j].walk)
          \/ jobs[j].pc = "put" /\ Moved(j, "put", None, jobs[j].todo \ {c}, jobs[j].walk)
        BY <1>8, JobSteps
    <2>5. ASSUME NEW k \in Jobs, jobs'[k].pc \in Walked, NEW y \in jobs'[k].walk
          PROVE  \/ row'[y] = "ready" \/ Ahead(k, y)'
                 \/ jobs[k].pc \in Walked /\ y \in jobs[k].walk /\ ~Ahead(k, y)
        <3> HIDE DEF c
        <3>1. CASE k # j
            <4>1. jobs'[k] = jobs[k]
                BY <2>4, <3>1 DEF Moved
            <4> QED
                BY <2>3, <2>5, <4>1 DEF Ahead, At
        <3>2. CASE k = j /\ jobs[j].pc = "refetch"
            BY <2>4, <2>5, <3>2 DEF Ahead, At, Moved, Walked
        <3>3. CASE k = j /\ jobs[j].pc = "put"
            <4>1. /\ jobs'[j].pc = "put" /\ jobs'[j].todo = jobs[j].todo \ {c} /\ jobs'[j].walk = jobs[j].walk
                BY <2>4, <3>3 DEF Moved
            <4> QED
                BY <2>3, <2>5, <3>3, <4>1 DEF Ahead, At, Walked
        <3> QED
            BY <2>4, <3>1, <3>2, <3>3
    <2> QED
        BY <2>5, AccountKept
<1>9. ASSUME NEW j \in Jobs, Flush(j)
      PROVE  WalkStored'
    <2>1. jobs[j].pc = "put" /\ jobs[j].todo = {}
        BY <1>9, JobGuards
    <2>2. Moved(j, "names", jobs[j].cur, jobs[j].walk, jobs[j].walk)
        BY <1>9, JobSteps
    <2>3. BatchPin(batch)
        BY <1>9 DEF Flush
    <2>4. \A x \in Range(batch) : row'[x] = "ready"
        <3>1. Range(batch) \subseteq Cids
            BY <1>1 DEF Range
        <3> QED
            BY <1>1, <2>3, <3>1, PinnedReady
    <2>5. ASSUME NEW k \in Jobs, jobs'[k].pc \in Walked, NEW y \in jobs'[k].walk
          PROVE  \/ row'[y] = "ready" \/ Ahead(k, y)'
                 \/ jobs[k].pc \in Walked /\ y \in jobs[k].walk /\ ~Ahead(k, y)
        <3>1. CASE k # j
            <4>1. jobs'[k] = jobs[k]
                BY <2>2, <3>1 DEF Moved
            <4> QED
                BY <2>4, <2>5, <4>1 DEF Ahead, At
        <3>2. CASE k = j
            BY <2>1, <2>2, <2>4, <2>5, <3>2 DEF Ahead, At, Moved, Walked
        <3> QED
            BY <3>1, <3>2
    <2> QED
        BY <2>5, AccountKept
<1>10. ASSUME NEW j \in Jobs, NEW c \in Cids,
              ProcessMissingUnixFSNames(j, c) \/ FetchAndPrepareChildBlock(j, c) \/ StorePlanned(j, c)
       PROVE  WalkStored'
    <2>1. batch' = batch
        BY <1>10 DEF ProcessMissingUnixFSNames, FetchAndPrepareChildBlock, StorePlanned
    <2>2. jobs[j].pc \in {"names", "gaps", "refetch", "store"}
        BY <1>10, JobGuards
    <2>3. \E p, x, t : Moved(j, p, x, t, jobs[j].walk)
        BY <1>10, JobSteps
    <2> QED
        BY <1>3, <2>1, <2>2, <2>3 DEF Walked
<1>11. ASSUME NEW j \in Jobs, EndNames(j) \/ PrepareChildBlock(j) \/ EndRetrieve(j) \/ Confirm(j)
       PROVE  WalkStored'
    <2>1. batch' = batch
        BY <1>11 DEF EndNames, PrepareChildBlock, EndRetrieve, Confirm
    <2>2. jobs[j].pc \in {"names", "gaps", "refetch", "fetched", "store"}
        BY <1>11, JobGuards
    <2>3. \E p, x, t : Moved(j, p, x, t, jobs[j].walk)
        BY <1>11, JobSteps
    <2> QED
        BY <1>3, <2>1, <2>2, <2>3 DEF Walked
<1>12. ASSUME NEW j \in Jobs, FailJob(j)
       PROVE  WalkStored'
    <2>1. batch' = batch
        BY <1>12 DEF FailJob
    <2>2. Moved(j, "failed", None, {}, jobs[j].walk)
        BY <1>12, JobSteps
    <2> QED
        BY <1>3, <2>1, <2>2 DEF Walked
<1>13. ASSUME Restart
       PROVE  WalkStored'
    <2>1. ASSUME NEW k \in Jobs, jobs'[k].pc \in Walked, NEW y \in jobs'[k].walk
          PROVE  jobs[k].pc \in Walked /\ y \in jobs[k].walk /\ ~Ahead(k, y)
        <3>1. jobs[k].pc \in {"idle", "done"} /\ jobs'[k] = jobs[k]
            BY <1>1, <1>13, <2>1, RestartStep DEF Walked, At
        <3> QED
            BY <2>1, <3>1 DEF Ahead, At
    <2> QED
        BY <2>1, AccountKept
<1>14. ASSUME UNCHANGED <<jobs, batch>>
       PROVE  WalkStored'
    <2>1. Range(batch)' = Range(batch)
        BY <1>14 DEF Range
    <2> QED
        BY <1>2, <1>14, <2>1, AccountKept
<1>15. ASSUME (\E c \in Cids : Unpin(c)) \/ DeleteObject \/ UNCHANGED vars
       PROVE  UNCHANGED <<jobs, batch>>
    BY <1>15 DEF Unpin, DeleteObject, vars
<1> QED
    BY <1>4, <1>5, <1>6, <1>7, <1>8, <1>9, <1>10, <1>11, <1>12, <1>13, <1>14, <1>15 DEF Next, Finished

\* What becomes of the names a job owes and of the blocks it is through with:
\* only the names step settles the one and adds to the other.  A job that stores
\* stays with its walk until the batch is written.
Due(k, x) ==
    /\ Owes(k, x) => Owes(k, x)' \/ x \in unnamed' \/ ProcessMissingUnixFSNames(k, x)
    /\ At(k, {"put"}) /\ x \in jobs[k].walk =>
         \/ At(k, {"put"})' /\ x \in jobs'[k].walk
         \/ x \in unnamed' \/ batch' = <<>>
    /\ Through(k, x)' /\ x \in jobs'[k].walk \ {jobs'[k].root} =>
         \/ Through(k, x) /\ x \in jobs[k].walk \ {jobs[k].root}
         \/ x \in unnamed' \/ ProcessMissingUnixFSNames(k, x)

\* Every step settles what is due.
LEMMA NamesDue == TypeOK /\ WalkDown /\ [Next]_vars => \A k \in Jobs : \A x : Due(k, x)
<1> SUFFICES ASSUME TypeOK, WalkDown, [Next]_vars, NEW k \in Jobs, NEW x PROVE Due(k, x)
    OBVIOUS
<1>1. jobs \in [Jobs -> JobState]
    BY DEF TypeOK
<1>2. Owes(k, x) => x \in jobs[k].walk /\ x \in Reachable(jobs[k].root) /\ jobs[k].pc \in {"put", "names"}
    BY DEF WalkDown, Down, Owes, At, Walked
<1>3. jobs'[k] = jobs[k] => Due(k, x)
    BY DEF Due, Owes, Through, At
<1>4. ASSUME NEW j \in Jobs, NEW c \in Cids, BeginUpload(j, c) \/ CollectVirtually(j, c)
      PROVE  Due(k, x)
    <2>1. jobs[j].pc = "idle"
        BY <1>4, JobGuards
    <2>2. /\ \A i \in Jobs : i # j => jobs'[i] = jobs[i]
          /\ jobs'[j].pc \in {"put", "collect"}
        BY <1>4, JobSteps DEF Begun
    <2> QED
        BY <1>3, <2>1, <2>2 DEF Due, Owes, Through, At
<1>5. ASSUME NEW j \in Jobs, CollectDAGCids(j)
      PROVE  Due(k, x)
    <2>1. jobs[j].pc = "collect"
        BY <1>5, JobGuards
    <2>2. /\ \A i \in Jobs : i # j => jobs'[i] = jobs[i]
          /\ jobs'[j].pc = "put"
        BY <1>5, JobSteps DEF Moved
    <2> QED
        BY <1>3, <2>1, <2>2 DEF Due, Owes, Through, At
<1>6. ASSUME NEW j \in Jobs, NEW p \in {"put", "refetch", "fetched", "store", "gaps", "done", "failed"},
             NEW c, NEW t, Moved(j, p, c, t, jobs[j].walk), jobs[j].pc = "put" => p = "put",
             jobs[j].pc = "names" => jobs[j].todo = {}, jobs[j].pc \in Walked, p = "put" => jobs[j].pc = "put"
      PROVE  Due(k, x)
    <2>1. CASE k # j
        BY <1>3, <1>6, <2>1 DEF Moved
    <2>2. CASE k = j
        <3>1. /\ jobs'[k].pc = p /\ jobs'[k].walk = jobs[k].walk /\ jobs'[k].root = jobs[k].root
            BY <1>6, <2>2 DEF Moved
        <3>2. jobs[k].pc \in {"put", "refetch", "fetched", "store", "gaps", "done"} \/ (jobs[k].pc = "names" /\ jobs[k].todo = {})
            BY <1>6, <2>2 DEF Walked
        <3> QED
            BY <1>6, <2>2, <3>1, <3>2 DEF Due, Owes, Through, At
    <2> QED
        BY <2>1, <2>2
<1>7. ASSUME NEW j \in Jobs, NEW c \in Cids, PutObject(j, c) \/ FetchAndPrepareChildBlock(j, c) \/ StorePlanned(j, c)
      PROVE  Due(k, x)
    <2>1. PICK p, y, t : Moved(j, p, y, t, jobs[j].walk) /\ p \in {jobs[j].pc, "fetched"} /\ (jobs[j].pc = "put" => p = "put")
        <3>1. CASE PutObject(j, c)
            BY <3>1, JobSteps
        <3>2. CASE FetchAndPrepareChildBlock(j, c)
            <4>1. jobs[j].pc = "refetch"
                BY <3>2, JobGuards
            <4> QED
                BY <3>2, <4>1, JobSteps
        <3>3. CASE StorePlanned(j, c)
            BY <3>3, JobSteps
        <3> QED
            BY <1>7, <3>1, <3>2, <3>3
    <2>2. jobs[j].pc \in {"put", "refetch", "store"}
        BY <1>7, JobGuards
    <2> QED
        BY <1>6, <2>1, <2>2 DEF Walked
<1>8. ASSUME NEW j \in Jobs, AddMetadata(j)
      PROVE  Due(k, x)
    <2>1. PICK p, y, t : /\ Moved(j, p, y, t, jobs[j].walk)
                         /\ (jobs[j].pc = "put" /\ p = "put") \/ (jobs[j].pc = "refetch" /\ p = "fetched")
        BY <1>8, JobSteps
    <2> QED
        BY <1>6, <2>1 DEF Walked
<1>9. ASSUME NEW j \in Jobs, EndNames(j)
      PROVE  Due(k, x)
    <2>1. PICK p, y, t : Moved(j, p, y, t, jobs[j].walk) /\ p \in {"done", "refetch"}
        BY <1>9, JobSteps
    <2>2. jobs[j].pc \in {"names", "gaps"} /\ jobs[j].todo = {}
        BY <1>9, JobGuards
    <2> QED
        BY <1>6, <2>1, <2>2 DEF Walked
<1>10. ASSUME NEW j \in Jobs, PrepareChildBlock(j) \/ EndRetrieve(j) \/ Confirm(j)
       PROVE  Due(k, x)
    <2>1. PICK p, y, t : Moved(j, p, y, t, jobs[j].walk) /\ p \in {"refetch", "store", "gaps", "failed"}
        BY <1>10, JobSteps
    <2>2. jobs[j].pc \in {"fetched", "refetch", "store"}
        BY <1>10, JobGuards
    <2> QED
        BY <1>6, <2>1, <2>2 DEF Walked
<1>11. ASSUME NEW j \in Jobs, Flush(j)
       PROVE  Due(k, x)
    <2>1. Moved(j, "names", jobs[j].cur, jobs[j].walk, jobs[j].walk) /\ batch' = <<>>
        BY <1>11, JobSteps DEF Flush
    <2>2. CASE k # j
        BY <1>3, <2>1, <2>2 DEF Moved
    <2>3. CASE k = j
        BY <1>2, <2>1, <2>3 DEF Due, Owes, Through, At, Moved
    <2> QED
        BY <2>2, <2>3
<1>12. ASSUME NEW j \in Jobs, NEW c \in Cids, ProcessMissingUnixFSNames(j, c)
       PROVE  Due(k, x)
    <2>1. PICK t : /\ Moved(j, jobs[j].pc, jobs[j].cur, t, jobs[j].walk)
                   /\ \/ row[c] = "none" /\ t = {}
                      \/ row[c] # "none" /\ t = jobs[j].todo \ {c}
        BY <1>12, JobSteps
    <2>2. unnamed' = IF row[c] = "none" THEN unnamed \union jobs[j].todo ELSE unnamed
        BY <1>12 DEF ProcessMissingUnixFSNames
    <2>3. \A y \in jobs[j].todo : y \in t \/ y \in unnamed' \/ ProcessMissingUnixFSNames(j, y)
        BY <1>12, <2>1, <2>2
    <2>4. jobs[j].pc \in {"names", "gaps"}
        BY <1>12, JobGuards
    <2>5. CASE k # j
        BY <1>3, <2>1, <2>5 DEF Moved
    <2>6. CASE k = j
        <3>1. /\ jobs'[k].pc = jobs[k].pc /\ jobs'[k].walk = jobs[k].walk /\ jobs'[k].root = jobs[k].root
              /\ jobs'[k].todo = t
            BY <2>1, <2>6 DEF Moved
        <3> QED
            BY <2>3, <2>4, <2>6, <3>1 DEF Due, Owes, Through, At
    <2> QED
        BY <2>5, <2>6
<1>13. ASSUME NEW j \in Jobs, FailJob(j)
       PROVE  Due(k, x)
    <2>1. Moved(j, "failed", None, {}, jobs[j].walk) /\ unnamed' = unnamed \union Reachable(jobs[j].root)
        BY <1>13, JobSteps DEF FailJob
    <2>2. CASE k # j
        BY <1>3, <2>1, <2>2 DEF Moved
    <2>3. CASE k = j
        <3>1. jobs'[k].pc = "failed" /\ unnamed' = unnamed \union Reachable(jobs[k].root)
            BY <2>1, <2>3 DEF Moved
        <3> QED
            BY <1>2, <3>1 DEF Due, Owes, Through, At
    <2> QED
        BY <2>2, <2>3
<1>14. ASSUME Restart
       PROVE  Due(k, x)
    <2>1. CASE At(k, {"idle", "done"})
        BY <1>1, <1>3, <1>14, <2>1, RestartStep
    <2>2. CASE ~At(k, {"idle", "done"})
        <3>1. jobs'[k].pc = "failed"
            BY <1>1, <1>14, <2>2, RestartStep
        <3>2. unnamed' = unnamed \union UNION {Reachable(jobs[j].root) : j \in {i \in Jobs : ~At(i, {"idle", "done"})}}
            BY <1>14 DEF Restart
        <3>3. Reachable(jobs[k].root) \subseteq unnamed'
            BY <2>2, <3>2
        <3> QED
            BY <1>2, <3>1, <3>3 DEF Due, Owes, Through, At
    <2> QED
        BY <2>1, <2>2
<1>15. ASSUME (\E c \in Cids : Unpin(c)) \/ DeleteObject \/ UNCHANGED vars
       PROVE  jobs' = jobs
    BY <1>15 DEF Unpin, DeleteObject, vars
<1> QED
    BY <1>3, <1>4, <1>5, <1>7, <1>8, <1>9, <1>10, <1>11, <1>12, <1>13, <1>14, <1>15 DEF Next, Finished

\* The batch holds only blocks whose names are excepted or still to be given: a
\* job that adds one stays with its walk until the batch is written.
LEMMA NextBatchOwed == TypeOK /\ WalkDown /\ BatchOwed /\ [Next]_vars => BatchOwed'
<1> SUFFICES ASSUME TypeOK, WalkDown, BatchOwed, [Next]_vars, NEW x \in Range(batch)'
             PROVE  x \in unnamed' \/ \E k \in Jobs : At(k, {"put"})' /\ x \in jobs'[k].walk
    BY DEF BatchOwed
<1>1. batch \in Seq(Cids)
    BY DEF TypeOK
<1>2. unnamed \subseteq unnamed'
    BY ExceptedKept
<1>3. batch' # <<>>
    BY DEF Range
<1>4. ASSUME NEW k \in Jobs, At(k, {"put"}), x \in jobs[k].walk
      PROVE  x \in unnamed' \/ \E i \in Jobs : At(i, {"put"})' /\ x \in jobs'[i].walk
    BY <1>3, <1>4, NamesDue DEF Due
<1>5. CASE x \in Range(batch)
    BY <1>2, <1>4, <1>5 DEF BatchOwed
<1>6. ASSUME NEW j \in Jobs, AddMetadata(j), x \notin Range(batch)
      PROVE  x \in unnamed' \/ \E k \in Jobs : At(k, {"put"})' /\ x \in jobs'[k].walk
    <2> DEFINE c == jobs[j].cur
    <2>1. c \in Cids /\ c # None /\ jobs[j].pc \in {"put", "refetch"}
        BY <1>6, JobSteps, JobGuards
    <2>2. Range(Append(batch, c)) = Range(batch) \union {c}
        BY <1>1, <2>1, Appended
    <2>3. batch' = Append(batch, c)
        BY <1>3, <1>6 DEF AddMetadata
    <2>4. x = c
        BY <1>6, <2>2, <2>3 DEF Range
    <2>5. CASE jobs[j].pc = "refetch"
        <3>1. unnamed' = unnamed \union {c}
            BY <1>6, <2>5 DEF AddMetadata, At
        <3> QED
            BY <2>4, <3>1
    <2>6. CASE jobs[j].pc = "put"
        <3>1. At(j, {"put"}) /\ c \in jobs[j].walk
            BY <2>1, <2>6 DEF WalkDown, Down, At
        <3> QED
            BY <1>4, <2>4, <3>1
    <2> QED
        BY <2>1, <2>5, <2>6
<1>7. ASSUME NEW j \in Jobs, NEW c \in Cids,
             \/ BeginUpload(j, c) \/ CollectVirtually(j, c) \/ PutObject(j, c) \/ ProcessMissingUnixFSNames(j, c)
             \/ FetchAndPrepareChildBlock(j, c) \/ StorePlanned(j, c)
      PROVE  batch' = batch
    BY <1>7 DEF BeginUpload, CollectVirtually, PutObject, ProcessMissingUnixFSNames, FetchAndPrepareChildBlock, StorePlanned
<1>8. ASSUME NEW j \in Jobs,
             \/ CollectDAGCids(j) \/ PrepareChildBlock(j) \/ EndNames(j) \/ EndRetrieve(j) \/ Confirm(j) \/ FailJob(j)
      PROVE  batch' = batch
    BY <1>8 DEF CollectDAGCids, PrepareChildBlock, EndNames, EndRetrieve, Confirm, FailJob
<1>9. ASSUME (\E j \in Jobs : Flush(j)) \/ (\E c \in Cids : Unpin(c)) \/ DeleteObject \/ Restart \/ UNCHANGED vars
      PROVE  batch' = batch \/ batch' = <<>>
    BY <1>9 DEF Flush, Unpin, DeleteObject, Restart, vars
<1>10. batch' = batch => x \in Range(batch)
    BY DEF Range
<1> QED
    BY <1>3, <1>5, <1>6, <1>7, <1>8, <1>9, <1>10 DEF Next, Finished

\* The names step finds a name for a block that a job has walked through, below
\* its root: the block it was reached from is ready, has its link rows, and the
\* parent of the link found first has its data - unless the block is excepted.
LEMMA NameFound ==
    ASSUME TypeOK, ParentsStored, ReadyIsWhole, WalkDown, WalkStored, [Next]_vars,
           NEW j \in Jobs, jobs[j].pc \in Walked \ {"put"}, NEW x \in jobs[j].walk \ {jobs[j].root},
           NEW k \in Jobs, ProcessMissingUnixFSNames(k, x)
    PROVE  x \in unnamed' \/ node'[x] \in Names
<1> SUFFICES ASSUME x \notin unnamed PROVE node'[x] \in Names
    BY ExceptedKept
<1>1. x \in Cids /\ jobs[j].walk \subseteq Cids /\ node \in [Cids -> NodeName] /\ link \in [LinkRow -> Nat]
    BY DEF TypeOK, JobState
<1>2. \A y \in jobs[j].walk : Lost(y) \/ row[y] = "ready"
    BY DEF WalkStored, Ahead, At, BlockExists
<1>3. row[x] = "ready" /\ node[x] # None
    <2>1. row[x] = "ready"
        BY <1>2, LostBlocks
    <2> QED
        BY <1>1, <2>1 DEF ReadyIsWhole, BlockExists
<1>4. PICK y \in jobs[j].walk : x \in Children(y)
    BY DEF WalkDown, Down, At
<1>5. row[y] = "ready"
    BY <1>2, <1>4, LostBlocks
<1>6. \E l \in Present : l.child = x
    <2>1. y \in Cids
        BY <1>1
    <2>2. PICK l \in UniqLinks(y) : l.child = x
        BY <1>4, <2>1, RowOfChild
    <2>3. l \in Present \/ l.child \in unnamed
        BY <1>5, <2>1 DEF ReadyIsWhole, BlockExists
    <2> QED
        BY <2>2, <2>3
<1>7. \A l \in Present : l.child = x => l.parent \in object
    <2> SUFFICES ASSUME NEW l \in Present, l.child = x, l.parent \notin object
                 PROVE  FALSE
        OBVIOUS
    <2>1. l.parent \in Cids /\ x \in Children(l.parent)
        BY RowsOfParents DEF Present
    <2>2. Lost(l.parent)
        BY DEF ParentsStored
    <2> QED
        BY <2>1, <2>2, LostBlocks
<1> DEFINE name == ResolveNameFromParent(x)
<1>8. name \in Names
    BY <1>1, <1>6, <1>7, NameResolved
<1>9. node' = IF node[x] # "" \/ name = None THEN node ELSE [node EXCEPT ![x] = name]
    BY DEF ProcessMissingUnixFSNames
<1>10. None \notin Names
    BY BlocksAssumption
<1> HIDE DEF name
<1>11. CASE node[x] = ""
    BY <1>1, <1>8, <1>9, <1>10, <1>11
<1>12. CASE node[x] # ""
    BY <1>1, <1>3, <1>9, <1>12 DEF NodeName
<1> QED
    BY <1>11, <1>12

\* A name that is there stays, is owed again when the node is written over, or
\* the block is excepted.
LEMMA NameKept ==
    ASSUME TypeOK, WalkDown, BatchOwed, [Next]_vars, NEW x \in Cids, node[x] \in Names
    PROVE  node'[x] \in Names \/ x \in unnamed' \/ \E k \in Jobs : Owes(k, x)'
<1>1. batch \in Seq(Cids) /\ node \in [Cids -> NodeName] /\ jobs \in [Jobs -> JobState]
    BY DEF TypeOK
<1>2. None \notin Names /\ "" \notin Names
    BY BlocksAssumption
<1>3. ASSUME NEW k \in Jobs, At(k, {"put"}), x \in jobs[k].walk
      PROVE  x \in unnamed' \/ \E i \in Jobs : Owes(i, x)'
    <2>1. Owes(k, x)
        BY <1>3 DEF Owes
    <2>2. ~ProcessMissingUnixFSNames(k, x)
        BY <1>3 DEF ProcessMissingUnixFSNames, At
    <2> QED
        BY <2>1, <2>2, NamesDue DEF Due
<1>4. x \in Range(batch) => x \in unnamed' \/ \E k \in Jobs : Owes(k, x)'
    BY <1>3, ExceptedKept DEF BatchOwed
<1>5. ASSUME NEW j \in Jobs, AddMetadata(j)
      PROVE  node'[x] \in Names \/ x \in unnamed' \/ \E k \in Jobs : Owes(k, x)'
    <2> DEFINE c == jobs[j].cur
               b == Append(batch, c)
    <2>1. c \in Cids /\ c # None /\ jobs[j].pc \in {"put", "refetch"}
        BY <1>5, JobSteps, JobGuards
    <2>2. b \in Seq(Cids) /\ Range(b) = Range(batch) \union {c}
        BY <1>1, <2>1, Appended
    <2>3. BatchPin(b) \/ node' = node
        BY <1>5 DEF AddMetadata
    <2>4. node'[x] = node[x] \/ x \in Range(b)
        <3> HIDE DEF b
        <3> QED
            BY <2>2, <2>3, PinnedReady
    <2>5. ASSUME x = c
          PROVE  x \in unnamed' \/ \E k \in Jobs : Owes(k, x)'
        <3>1. CASE jobs[j].pc = "refetch"
            <4>1. unnamed' = unnamed \union {c}
                BY <1>5, <3>1 DEF AddMetadata, At
            <4> QED
                BY <2>5, <4>1
        <3>2. CASE jobs[j].pc = "put"
            <4>1. At(j, {"put"}) /\ c \in jobs[j].walk
                BY <2>1, <3>2 DEF WalkDown, Down, At
            <4> QED
                BY <1>3, <2>5, <4>1
        <3> QED
            BY <2>1, <3>1, <3>2
    <2> QED
        BY <1>4, <2>2, <2>4, <2>5
<1>6. ASSUME NEW j \in Jobs, Flush(j)
      PROVE  node'[x] \in Names \/ x \in unnamed' \/ \E k \in Jobs : Owes(k, x)'
    <2>1. node'[x] = node[x] \/ x \in Range(batch)
        BY <1>1, <1>6, PinnedReady DEF Flush
    <2> QED
        BY <1>4, <2>1
<1>7. ASSUME NEW j \in Jobs, NEW c \in Cids, ProcessMissingUnixFSNames(j, c)
      PROVE  node'[x] \in Names
    <2> DEFINE name == ResolveNameFromParent(c)
    <2>1. node' = IF node[c] # "" \/ name = None THEN node ELSE [node EXCEPT ![c] = name]
        BY <1>7 DEF ProcessMissingUnixFSNames
    <2> HIDE DEF name
    <2> QED
        BY <1>1, <1>2, <2>1
<1>8. ASSUME NEW j \in Jobs, PrepareChildBlock(j)
      PROVE  node'[x] \in Names
    <2> DEFINE c == jobs[j].cur
    <2>1. node' = IF row[c] # "none" /\ node[c] = None THEN [node EXCEPT ![c] = ""] ELSE node
        BY <1>8 DEF PrepareChildBlock, UpdateUnixFSMetadata, ExtractNodeMetadata
    <2> QED
        BY <1>1, <1>2, <2>1
<1>9. ASSUME NEW c \in Cids, Unpin(c)
      PROVE  node'[x] \in Names \/ x \in unnamed'
    <2>1. node' = [node EXCEPT ![c] = None] /\ unnamed' = unnamed \union Linked({c})
        BY <1>9 DEF Unpin
    <2>2. c \in Linked({c})
        BY DEF Linked
    <2> QED
        BY <1>1, <2>1, <2>2
<1>10. ASSUME NEW j \in Jobs, NEW c \in Cids,
              \/ BeginUpload(j, c) \/ CollectVirtually(j, c) \/ PutObject(j, c) \/ FetchAndPrepareChildBlock(j, c)
              \/ StorePlanned(j, c)
       PROVE  node' = node
    BY <1>10 DEF BeginUpload, CollectVirtually, PutObject, FetchAndPrepareChildBlock, StorePlanned
<1>11. ASSUME NEW j \in Jobs,
              CollectDAGCids(j) \/ EndNames(j) \/ EndRetrieve(j) \/ Confirm(j) \/ FailJob(j)
       PROVE  node' = node
    BY <1>11 DEF CollectDAGCids, EndNames, EndRetrieve, Confirm, FailJob
<1>12. ASSUME DeleteObject \/ Restart \/ UNCHANGED vars
       PROVE  node' = node
    BY <1>12 DEF DeleteObject, Restart, vars
<1> QED
    BY <1>5, <1>6, <1>7, <1>8, <1>9, <1>10, <1>11, <1>12 DEF Next, Finished

\* Every step leaves what a job is through with named, owed or excepted.
LEMMA NextNamed == TypeOK /\ NamesInv /\ [Next]_vars => NamedOrOwed'
<1> SUFFICES ASSUME TypeOK, NamesInv, [Next]_vars, NEW j \in Jobs,
                    NEW x \in jobs'[j].walk \ {jobs'[j].root}, Through(j, x)'
             PROVE  x \in unnamed' \/ node'[x] \in Names \/ \E k \in Jobs : Owes(k, x)'
    BY DEF NamedOrOwed
<1>1. ParentsStored /\ ReadyIsWhole /\ WalkDown /\ WalkStored /\ BatchOwed /\ NamedOrOwed
    BY DEF NamesInv
<1>2. \A k \in Jobs : Due(k, x)
    BY <1>1, NamesDue
<1>3. CASE ProcessMissingUnixFSNames(j, x) /\ x \notin unnamed'
    <2>1. jobs[j].pc \in {"names", "gaps"}
        BY <1>3, JobGuards DEF ProcessMissingUnixFSNames, At
    <2>2. x \in jobs[j].walk \ {jobs[j].root}
        <3>1. x \in Cids
            BY <1>3 DEF ProcessMissingUnixFSNames, TypeOK, JobState
        <3> QED
            BY <1>3, <3>1, JobSteps DEF Moved
    <2> QED
        BY <1>1, <1>3, <2>1, <2>2, NameFound DEF Walked
<1>4. CASE Through(j, x) /\ x \in jobs[j].walk \ {jobs[j].root}
    <2>1. jobs[j].pc \in Walked \ {"put"}
        BY <1>4 DEF Through, At, Walked
    <2>2. x \in Cids
        BY <1>4 DEF TypeOK, JobState
    <2>3. CASE x \in unnamed
        BY <2>3, ExceptedKept
    <2>4. CASE node[x] \in Names
        BY <1>1, <2>2, <2>4, NameKept
    <2>5. ASSUME NEW k \in Jobs, Owes(k, x)
          PROVE  x \in unnamed' \/ node'[x] \in Names \/ \E i \in Jobs : Owes(i, x)'
        <3>1. CASE ProcessMissingUnixFSNames(k, x)
            BY <1>1, <1>4, <2>1, <3>1, NameFound
        <3>2. CASE ~ProcessMissingUnixFSNames(k, x)
            BY <1>2, <2>5, <3>2 DEF Due
        <3> QED
            BY <3>1, <3>2
    <2> QED
        BY <1>1, <1>4, <2>3, <2>4, <2>5 DEF NamedOrOwed
<1> QED
    BY <1>2, <1>3, <1>4 DEF Due

\* When no job is running, what a finished upload or retrieval went through has
\* one of its names, although a second upload writes the node over - with the
\* exceptions named there.
THEOREM Named == Spec => []NamesResolved
<1>1. Init => NamesInv
    <2> SUFFICES ASSUME Init PROVE NamesInv
        OBVIOUS
    <2>1. /\ row = [c \in Cids |-> "none"] /\ batch = <<>> /\ deleting = None
          /\ \A j \in Jobs : jobs[j].pc = "idle" /\ jobs[j].cur = None
        BY DEF Init, IdleJob
    <2>2. Present = {} /\ Range(batch) = {}
        BY <2>1 DEF Init, Present, Range
    <2> QED
        BY <2>1, <2>2 DEF NamesInv, ParentsStored, ReadyIsWhole, BlockExists, WalkDown, Down, WalkStored, Walked, BatchOwed,
                          NamedOrOwed, Through, At
<1>2. TypeOK /\ NamesInv /\ [Next]_vars => NamesInv'
    BY NextParents, NextWhole, NextDown, NextWalkStored, NextBatchOwed, NextNamed DEF NamesInv
<1>3. NamesInv => NamesResolved
    BY DEF NamesInv, NamedOrOwed, NamesResolved, Through, Owes, At
<1> QED
    BY InitTypes, NextTypes, <1>1, <1>2, <1>3, PTL DEF Spec
=============================================================================
