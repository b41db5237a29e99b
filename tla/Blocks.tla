------------------------------- MODULE Blocks -------------------------------
(***************************************************************************)
(* The block store over its two stores: the objects with the blocks' data  *)
(* and the metadata store, with a row for every block and for every block  *)
(* another one links to (internal/protocol/store/blockstore.go,            *)
(* metadata.go, batcher.go), and the operations that fill them: an upload, *)
(* and the retrieval of a DAG from the network with its store and confirm  *)
(* steps (op_retrieve.go, op_store.go, op_confirm.go, dag/walk.go).  A     *)
(* block linked to before it is stored has a placeholder row, which is not *)
(* ready.  The UnixFS node of a block has the name its parent links it by, *)
(* filled in at the end of an upload.                                      *)
(* Left out: failing writes of the batcher (BlockPipeline has them), sizes *)
(* and quota, and the cache in front, which may skip a repeated Put.       *)
(***************************************************************************)
EXTENDS Naturals, SequencesExt, FiniteSetsExt

CONSTANTS Cids,
          Links,      \* what each block links to: a sequence of [cid, name]
          None,
          Jobs,       \* uploads and retrievals
          Tasks,      \* what each of them may be: [kind, root]
          BatchSize,  \* blocks the batcher collects before it writes them
          MaxFaults   \* bound on deletions, jobs that fail and restarts

Names == UNION {{l.name : l \in Range(Links[c])} : c \in Cids}

ASSUME BlocksAssumption ==
    /\ Links \in [Cids -> Seq([cid : Cids, name : STRING])] /\ "" \notin Names
    /\ IsFiniteSet(Cids) /\ None \notin Cids \union Names \union {""}
    /\ Tasks \in [Jobs -> SUBSET [kind : {"upload", "retrieve"}, root : Cids]]
    /\ BatchSize \in Nat \ {0} /\ MaxFaults \in Nat

VARIABLES row,       \* the block's row: "none", "placeholder", "ready"
          link,      \* the id of each link row, by its rank among them; 0 without the row
          node,      \* the name in the block's UnixFS node, None without one
          object,    \* the blocks whose data is stored
          batch,     \* the blocks whose metadata is not written yet
          jobs,
          deleting,  \* a block whose row is deleted and whose object is about to be
          faults,
          marked,    \* history: blocks declared ready without data
          raced,     \* history: blocks deleted while they were being stored
          cut,       \* history: blocks that lost a link with a block they link to
          unnamed    \* history: blocks whose name may be missing

vars == <<row, link, node, object, batch, jobs, deleting, faults, marked, raced, cut, unnamed>>

\* What a block links to; its link rows have each CID once, in order.
Children(c) == {l.cid : l \in Range(Links[c])}
FirstLinks(c) == {i \in DOMAIN Links[c] : \A k \in 1..(i - 1) : Links[c][k].cid # Links[c][i].cid}
UniqLinks(c) == {[parent |-> c, child |-> Links[c][i].cid, index |-> Cardinality({k \in FirstLinks(c) : k <= i})] :
                    i \in FirstLinks(c)}
LinkRow == UNION {UniqLinks(c) : c \in Cids}

Linked(S) == S \union UNION {Children(c) : c \in S}
Closed(S) == \A y \in S : Children(y) \subseteq S
Reachable(c) == {x \in Cids : \A S \in SUBSET Cids : c \in S /\ Closed(S) => x \in S}
Readiness == {"none", "placeholder", "ready"}
NodeName == {None, ""} \union Names
JobPc == {"idle", "collect", "put", "names", "refetch", "fetched", "store", "gaps", "done", "failed"}
JobState ==
    [kind : {None, "upload", "retrieve"}, root : Cids \union {None}, cur : Cids \union {None},
     pc : JobPc, todo : SUBSET Cids, plan : SUBSET Cids, walk : SUBSET Cids]
IdleJob == [kind |-> None, root |-> None, pc |-> "idle", cur |-> None, todo |-> {}, plan |-> {}, walk |-> {}]

Init ==
    /\ row = [c \in Cids |-> "none"]
    /\ link = [l \in LinkRow |-> 0]
    /\ node = [c \in Cids |-> None]
    /\ object = {}
    /\ batch = <<>>
    /\ jobs = [j \in Jobs |-> IdleJob]
    /\ deleting = None
    /\ faults = 0
    /\ marked = {} /\ raced = {} /\ cut = {} /\ unnamed = {}
-----------------------------------------------------------------------------
(* The metadata store.                                                      *)

BlockExists(c) == row[c] = "ready"

Present == {l \in LinkRow : link[l] > 0}

\* The ready children, in the order of the links.
InOrder(rows) ==
    [i \in 1..Cardinality(rows) |-> (CHOOSE l \in rows : Cardinality({k \in rows : k.index < l.index}) = i - 1).child]
BlockChildren(c) == InOrder({l \in Present : l.parent = c /\ BlockExists(l.child)})

\* Rows for the children that have none; the others are left alone.
EnsureChildBlocks(cs) == [c \in Cids |-> IF c \in cs /\ row[c] = "none" THEN "placeholder" ELSE row[c]]

\* Every block here is a UnixFS node; its name is not in its own block.
ExtractNodeMetadata(c) == ""

\* Mutant of PinPreparedBlock: a block that has a row keeps its links too.
PinNewBlock(c) == {l \in UniqLinks(c) \ Present : row[c] = "none"}

\* The rows of a block's links are added where they are not there yet.
PinPreparedBlock(c) == UniqLinks(c) \ Present

\* One transaction for the whole batch: rows for the children of all, then each
\* block in turn becomes ready, its node is written over, its links are added.
BatchPin(b) ==
    LET added == UNION {PinPreparedBlock(c) : c \in Range(b)}
        turn(c) == Cardinality({i \in DOMAIN b : \A k \in 1..i : b[k] # c})
        before(l) == {k \in added : \/ turn(k.parent) < turn(l.parent)
                                    \/ k.parent = l.parent /\ k.index < l.index}
        ensured == EnsureChildBlocks(UNION {Children(c) : c \in Range(b)})
    IN /\ row' = [c \in Cids |-> IF c \in Range(b) THEN "ready" ELSE ensured[c]]
       /\ node' = [c \in Cids |-> IF c \in Range(b) THEN ExtractNodeMetadata(c) ELSE node[c]]
       /\ link' = [l \in LinkRow |-> IF l \in added THEN Cardinality(Present) + Cardinality(before(l)) + 1
                                     ELSE link[l]]
       /\ cut' = cut \ Range(b)

\* The row, the node and every link from or to the block go.
Unpin(c) ==
    LET kept == {l \in Present : c \notin {l.parent, l.child}}
    IN /\ deleting = None /\ faults < MaxFaults
       /\ deleting' = c /\ faults' = faults + 1
       /\ row' = [row EXCEPT ![c] = "none"]
       /\ node' = [node EXCEPT ![c] = None]
       /\ link' = [l \in LinkRow |-> IF l \in kept THEN Cardinality({k \in kept : link[k] <= link[l]}) ELSE 0]
       /\ cut' = (cut \union {l.parent : l \in {k \in Present : k.child = c}}) \ {c}
       /\ unnamed' = unnamed \union Linked({c})
       /\ UNCHANGED <<object, batch, jobs, marked, raced>>

\* DeleteBlock's second step.
DeleteObject ==
    /\ deleting # None
    /\ object' = object \ {deleting}
    /\ raced' = IF \/ Contains(batch, deleting) \/ BlockExists(deleting) \/ \E j \in Jobs : jobs[j].cur = deleting
                THEN raced \union {deleting} ELSE raced
    /\ deleting' = None
    /\ UNCHANGED <<row, link, node, batch, jobs, faults, marked, cut, unnamed>>

\* The name the first link found to the block has in the parent's data.
ResolveNameFromParent(c) ==
    LET to == {l \in Present : l.child = c}
        p == (CHOOSE l \in to : \A k \in to : link[l] <= link[k]).parent
    IN IF to = {} \/ p \notin object THEN None
       ELSE Links[p][CHOOSE i \in FirstLinks(p) : Links[p][i].cid = c].name

\* Both fail for a block without a row; a node that is there is kept.
MarkBlockReady(c) == IF row[c] = "none" THEN row ELSE [row EXCEPT ![c] = "ready"]
UpdateUnixFSMetadata(c) ==
    IF row[c] # "none" /\ node[c] = None THEN [node EXCEPT ![c] = ExtractNodeMetadata(c)] ELSE node
-----------------------------------------------------------------------------
(* Jobs.                                                                    *)
At(j, pcs) == jobs[j].pc \in pcs
First(S) == CHOOSE c \in S : TRUE

\* The nodes a walk that ignores errors may reach: from the root down, where
\* the parents could be fetched.
Walks(c) ==
    {S \in SUBSET Reachable(c) : c \in S /\ \A x \in S \ {c} : \E y \in S \ {x} : x \in Children(y)}

BeginUpload(j, r) ==
    /\ [kind |-> "upload", root |-> r] \in Tasks[j] /\ At(j, {"idle"})
    /\ jobs' = [jobs EXCEPT ![j] = [IdleJob EXCEPT !.kind = "upload", !.root = r, !.pc = "put", !.todo = Reachable(r),
                                                   !.plan = Reachable(r), !.walk = Reachable(r)]]
    /\ UNCHANGED <<row, link, node, object, batch, deleting, faults, marked, raced, cut, unnamed>>

\* The virtual walk plans what the workflow is about; a root without children
\* that were found is left to the rest of the workflow.
CollectVirtually(j, r) ==
    /\ [kind |-> "retrieve", root |-> r] \in Tasks[j] /\ At(j, {"idle"})
    /\ \E S \in Walks(r) : S # {r} /\
         jobs' = [jobs EXCEPT ![j] = [IdleJob EXCEPT !.kind = "retrieve", !.root = r, !.pc = "collect", !.plan = S]]
    /\ UNCHANGED <<row, link, node, object, batch, deleting, faults, marked, raced, cut, unnamed>>

\* The walk that stores: it may find other blocks than the first one did, and
\* puts those that are not there.  A block that is ready without data is an
\* error, and its node is skipped.
Readable(c) == BlockExists(c) /\ c \in object
CollectDAGCids(j) ==
    /\ At(j, {"collect"})
    /\ \E S \in Walks(jobs[j].root) \union {{}} :
         /\ \A c \in S : BlockExists(c) => c \in object
         /\ jobs' = [jobs EXCEPT ![j].pc = "put", ![j].walk = S, ![j].todo = {c \in S : ~BlockExists(c)}]
    /\ UNCHANGED <<row, link, node, object, batch, deleting, faults, marked, raced, cut, unnamed>>

\* Mutant of PutObject: a block with a row is taken to be stored.
PutUnknown(j, c) ==
    /\ At(j, {"put", "refetch"}) /\ jobs[j].cur = None /\ c \in jobs[j].todo
    /\ At(j, {"refetch"}) => ~BlockExists(c)
    /\ object' = IF row[c] = "none" THEN object \union {c} ELSE object
    /\ jobs' = [jobs EXCEPT ![j].cur = c]
    /\ UNCHANGED <<row, link, node, batch, deleting, faults, marked, raced, cut, unnamed>>

\* Put: the object first, then the metadata through the batcher.
PutObject(j, c) ==
    /\ At(j, {"put", "refetch"}) /\ jobs[j].cur = None /\ c \in jobs[j].todo
    /\ At(j, {"refetch"}) => ~BlockExists(c)
    /\ object' = object \union {c}
    /\ jobs' = [jobs EXCEPT ![j].cur = c]
    /\ UNCHANGED <<row, link, node, batch, deleting, faults, marked, raced, cut, unnamed>>

\* A block that is stored again is no longer looked at when names are given.
AddMetadata(j) ==
    LET b == Append(batch, jobs[j].cur)
    IN /\ At(j, {"put", "refetch"}) /\ jobs[j].cur # None
       /\ IF Len(b) >= BatchSize THEN BatchPin(b) /\ batch' = <<>>
          ELSE batch' = b /\ UNCHANGED <<row, link, node, cut>>
       /\ jobs' = IF At(j, {"refetch"}) THEN [jobs EXCEPT ![j].pc = "fetched"]
                  ELSE [jobs EXCEPT ![j].cur = None, ![j].todo = @ \ {jobs[j].cur}]
       /\ unnamed' = IF At(j, {"refetch"}) THEN unnamed \union {jobs[j].cur} ELSE unnamed
       /\ UNCHANGED <<object, deleting, faults, marked, raced>>

Flush(j) ==
    /\ At(j, {"put"}) /\ jobs[j].todo = {}
    /\ BatchPin(batch) /\ batch' = <<>>
    /\ jobs' = [jobs EXCEPT ![j].pc = "names", ![j].todo = jobs[j].walk]
    /\ UNCHANGED <<object, deleting, faults, marked, raced, unnamed>>

\* Mutant of ProcessMissingUnixFSNames: blocks that were there before are skipped.
NameNewBlocks(j, c) ==
    LET name == ResolveNameFromParent(c)
    IN /\ At(j, {"names", "gaps"}) /\ jobs[j].todo # {} /\ c = First(jobs[j].todo)
       /\ node' = IF node[c] # "" \/ name = None \/ \E k \in Jobs \ {j} : c \in jobs[k].plan THEN node
                  ELSE [node EXCEPT ![c] = name]
       /\ jobs' = [jobs EXCEPT ![j].todo = @ \ {c}]
       /\ UNCHANGED <<row, link, object, batch, deleting, faults, marked, raced, cut, unnamed>>

\* A node without a name gets one; without a parent it has none.  A block
\* without a row ends the pass: the error is only logged.
ProcessMissingUnixFSNames(j, c) ==
    LET name == ResolveNameFromParent(c)
    IN /\ At(j, {"names", "gaps"}) /\ jobs[j].todo # {} /\ c = First(jobs[j].todo)
       /\ node' = IF node[c] # "" \/ name = None THEN node ELSE [node EXCEPT ![c] = name]
       /\ jobs' = [jobs EXCEPT ![j].todo = IF row[c] = "none" THEN {} ELSE @ \ {c}]
       /\ unnamed' = IF row[c] = "none" THEN unnamed \union jobs[j].todo ELSE unnamed
       /\ UNCHANGED <<row, link, object, batch, deleting, faults, marked, raced, cut>>

EndNames(j) ==
    /\ At(j, {"names", "gaps"}) /\ jobs[j].todo = {}
    /\ jobs' = IF jobs[j].kind = "upload" \/ At(j, {"gaps"}) THEN [jobs EXCEPT ![j].pc = "done"]
               ELSE [jobs EXCEPT ![j].pc = "refetch", ![j].todo = jobs[j].plan \ {jobs[j].root}]
    /\ UNCHANGED <<row, link, node, object, batch, deleting, faults, marked, raced, cut, unnamed>>

\* A planned child is read, for which it may have to be fetched and stored
\* again (PutObject), or it is skipped.
FetchAndPrepareChildBlock(j, c) ==
    /\ At(j, {"refetch"}) /\ jobs[j].cur = None /\ c \in jobs[j].todo
    /\ \/ Readable(c) /\ jobs' = [jobs EXCEPT ![j].pc = "fetched", ![j].cur = c]
       \/ jobs' = [jobs EXCEPT ![j].todo = @ \ {c}]
    /\ UNCHANGED <<row, link, node, object, batch, deleting, faults, marked, raced, cut, unnamed>>

\* A block that was read gets its node; an error is only logged.
PrepareChildBlock(j) ==
    LET c == jobs[j].cur
    IN /\ At(j, {"fetched"})
       /\ node' = UpdateUnixFSMetadata(c)
       /\ unnamed' = IF node'[c] # node[c] THEN unnamed \union {c} ELSE unnamed
       /\ jobs' = [jobs EXCEPT ![j].pc = "refetch", ![j].cur = None, ![j].todo = @ \ {c}]
       /\ UNCHANGED <<row, link, object, batch, deleting, faults, marked, raced, cut>>

EndRetrieve(j) ==
    /\ At(j, {"refetch"}) /\ jobs[j].cur = None /\ jobs[j].todo = {}
    /\ jobs' = [jobs EXCEPT ![j].pc = "store", ![j].todo = jobs[j].plan]
    /\ UNCHANGED <<row, link, node, object, batch, deleting, faults, marked, raced, cut, unnamed>>

\* The store step declares every planned block ready; an error is only logged.
StorePlanned(j, c) ==
    /\ At(j, {"store"}) /\ jobs[j].todo # {} /\ c = First(jobs[j].todo)
    /\ row' = MarkBlockReady(c)
    /\ marked' = IF row'[c] = "ready" /\ c \notin object THEN marked \union {c} ELSE marked
    /\ jobs' = [jobs EXCEPT ![j].todo = @ \ {c}]
    /\ cut' = IF row[c] = "placeholder" THEN cut \union {c} ELSE cut
    /\ unnamed' = IF row[c] = "placeholder" THEN unnamed \union Linked({c}) ELSE unnamed
    /\ UNCHANGED <<link, node, object, batch, deleting, faults, raced>>

\* The confirm step: every planned block must be there; names that are
\* missing are looked for once more.
Confirm(j) ==
    /\ At(j, {"store"}) /\ jobs[j].todo = {}
    /\ jobs' = IF \A c \in jobs[j].plan : BlockExists(c) THEN [jobs EXCEPT ![j].pc = "gaps", ![j].todo = jobs[j].plan]
               ELSE [jobs EXCEPT ![j].pc = "failed"]
    /\ UNCHANGED <<row, link, node, object, batch, deleting, faults, marked, raced, cut, unnamed>>

\* An operation fails and is given up.
FailJob(j) ==
    /\ ~At(j, {"idle", "done", "failed"}) /\ faults < MaxFaults /\ faults' = faults + 1
    /\ jobs' = [jobs EXCEPT ![j].pc = "failed", ![j].cur = None, ![j].todo = {}]
    /\ unnamed' = unnamed \union Reachable(jobs[j].root)
    /\ UNCHANGED <<row, link, node, object, batch, deleting, marked, raced, cut>>

\* The process ends: the batch is lost, and so are the jobs.
Restart ==
    /\ faults < MaxFaults /\ faults' = faults + 1
    /\ batch' = <<>> /\ deleting' = None
    /\ jobs' = [j \in Jobs |-> IF At(j, {"idle", "done"}) THEN jobs[j]
                               ELSE [jobs[j] EXCEPT !.pc = "failed", !.cur = None, !.todo = {}]]
    /\ unnamed' = unnamed \union UNION {Reachable(jobs[j].root) : j \in {k \in Jobs : ~At(k, {"idle", "done"})}}
    /\ UNCHANGED <<row, link, node, object, marked, raced, cut>>

Finished ==
    /\ \A j \in Jobs : At(j, {"done", "failed"})
    /\ UNCHANGED vars

Next ==
    \/ \E j \in Jobs :
         \/ \E r \in Cids : BeginUpload(j, r) \/ CollectVirtually(j, r)
         \/ CollectDAGCids(j) \/ AddMetadata(j) \/ PrepareChildBlock(j) \/ Flush(j) \/ EndNames(j) \/ EndRetrieve(j) \/ Confirm(j) \/ FailJob(j)
         \/ \E c \in Cids : PutObject(j, c) \/ ProcessMissingUnixFSNames(j, c) \/ FetchAndPrepareChildBlock(j, c)
                            \/ StorePlanned(j, c)
    \/ \E c \in Cids : Unpin(c)
    \/ DeleteObject \/ Restart \/ Finished

Spec == Init /\ [][Next]_vars
-----------------------------------------------------------------------------
\* The store's own limits: the batch stays below the size at which it is
\* written, and only blocks with a row have a node (batcher.go Add, metadata.go
\* Unpin).
TypeOK ==
    /\ row \in [Cids -> Readiness]
    /\ link \in [LinkRow -> Nat]
    /\ node \in [Cids -> NodeName] /\ \A c \in Cids : row[c] = "none" => node[c] = None
    /\ object \subseteq Cids
    /\ batch \in Seq(Cids) /\ Len(batch) < BatchSize
    /\ jobs \in [Jobs -> JobState]
    /\ deleting \in Cids \union {None}
    /\ marked \subseteq Cids /\ raced \subseteq Cids /\ cut \subseteq Cids /\ unnamed \subseteq Cids

\* A block the store says it has (BlockStore.Has, metadata.go BlockExists) has
\* its data, whatever uploads, retrievals, deletions and restarts overlap -
\* but for a block whose deletion overlapped its Put, and one that the store
\* step declared ready although it was never fetched (op_store.go).
ReadyIsStored == \A c \in Cids : BlockExists(c) => c \in object \union marked \union raced

\* The links the store knows of a ready block are those in its data, in order:
\* BlockChildren gives exactly its ready children, although children are stored
\* before it, after it, with it and by others - but for links that Unpin of a
\* child has cut, and a block that was only declared ready.
ChildrenKnown ==
    \A c \in Cids : BlockExists(c) /\ c \notin cut =>
        BlockChildren(c) = InOrder({l \in UniqLinks(c) : BlockExists(l.child)})

\* When no job is running, every block a finished upload or retrieval went
\* through, below its root, has one of the names it is linked by, although a
\* second upload of the block writes its node over (pinPreparedBlockInTx) - but
\* where that upload failed, a block was deleted, or the node was made or
\* written over by a retrieval that had looked for names before, or the block
\* was declared ready without having been stored.
NamesResolved ==
    (\A j \in Jobs : At(j, {"idle", "done", "failed"})) =>
        \A j \in Jobs : At(j, {"done"}) =>
            \A c \in jobs[j].walk \ ({jobs[j].root} \union unnamed) : node[c] \in Names
=============================================================================
