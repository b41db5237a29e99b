----------------------------- MODULE FilePaths ------------------------------
(***************************************************************************)
(* The file manager's table of paths (internal/service/file_manager), the  *)
(* operation that fills it at the end of every pin and upload              *)
(* (op_file_path.go, helpers.go) and the part of DeletePin that empties it *)
(* (service/pin/pin.go), for one user.  Operations and deletions run       *)
(* concurrently, a step for each access to the database, any of which may  *)
(* fail in an operation.  The metadata of the blocks is there and does not *)
(* change while an operation runs.                                         *)
(* A path is the sequence of its names.  A CID may be spelt in version 0;   *)
(* blocks, links and pins are stored under version 1, and an upload has one *)
(* root.                                                                    *)
(* Left out: the progress of the operation, timestamps, filters, sorting   *)
(* and pages of the listings, and pruneRelatedPaths, whose list of CIDs no *)
(* code fills.                                                             *)
(***************************************************************************)
EXTENDS Naturals, SequencesExt, FiniteSetsExt

CONSTANTS Cids,
          NormalizeCid, \* the version 1 of each of them
          Meta,       \* the UnixFS node of each block: [unixfs, name, dir, size, children, raw]:
                      \* size the logical size of a file and 0 otherwise, raw that of the block;
                      \* no node is found under a version 0 (GetBlockMeta compares the bytes)
          Requests,   \* 1..n, used in this order
          Tasks,      \* what each of them may pin: [cid, kind]
          None,
          Long,       \* blocks whose path or name is too long for its column
          Failing,    \* the accesses of an operation that may fail: <<kind, CID>>
          MaxFaults,  \* bound on accesses that fail
          MaxBusy     \* bound on operations and deletions at work at once

ASSUME FilePathsAssumption ==
    /\ NormalizeCid \in [Cids -> Cids]
    /\ \A c \in Cids :
        /\ NormalizeCid[NormalizeCid[c]] = NormalizeCid[c]
        /\ NormalizeCid[c] # c => ~Meta[c].unixfs /\ Meta[c].children = Meta[NormalizeCid[c]].children
        /\ \A d \in Range(Meta[c].children) : NormalizeCid[d] = d
    /\ Meta \in [Cids -> [unixfs : BOOLEAN, name : STRING, dir : BOOLEAN, size : Nat, children : Seq(Cids), raw : Nat]]
    /\ IsFiniteSet(Cids) /\ None \notin Cids /\ IsFiniteSet(Requests) /\ Requests = 1..Cardinality(Requests)
    /\ Tasks \in [Requests -> SUBSET [cid : Cids, kind : {"upload", "retrieve"}]]
    /\ Long \subseteq Cids /\ Failing \subseteq {"meta", "child", "create", "orphan", "update"} \X Cids
    /\ MaxFaults \in Nat /\ MaxBusy \in Nat \ {0}

VARIABLES pins,     \* per request: [cid, kind, live]
          ops,      \* per request, its file path operation: [pc, cids, walk, row]
          dels,     \* per request, its DeletePin: [pc, left, path], path the row it is about to delete
          rows,     \* ipfs_file_paths without the deleted rows
          faults,
          raced,    \* history: CIDs pinned again between the count and the deletion of a path
          hidden,   \* history: CIDs an operation had to list and did not reach
          partial,  \* history: CIDs whose total some operation did not see whole
          removed   \* history: paths that were deleted

filesVars == <<pins, ops, dels, rows, faults, raced, hidden, partial, removed>>

\* The blocks that can be reached from a block by the links Down.
Closure(c, Down(_)) == {k \in Cids : \A S \in SUBSET Cids : c \in S /\ (\A d \in S : Down(d) \subseteq S) => k \in S}

Children(c) == Range(Meta[c].children)
Reachable == [c \in Cids |-> Closure(c, Children)]
\* What is shown as a file or a directory of the DAG: chunks of files are not.
Inside(c) == IF Meta[c].dir THEN Children(c) ELSE {}
Total == [c \in Cids |-> MapThenSumSet(LAMBDA k : Meta[k].size, Closure(c, Inside))]
Live(c) == {r \in Requests : pins[r].live /\ pins[r].cid = c}
Writing(r) == ops[r].pc \in {"walk", "insert"}
Busy == Cardinality({r \in Requests : ops[r].pc \notin {"idle", "done"}})
            + Cardinality({r \in Requests : dels[r].pc \notin {"idle", "done"}})

\* What an operation keeps while it runs: the roots still to be walked, the
\* directories being walked, the innermost last, [cid, path, left, size], the
\* blocks met, those listed, and the orphans still to be listed, [cid, read].
Nowhere == [roots |-> {}, stack |-> <<>>, processed |-> {}, reached |-> {}, orphans |-> {}]

FilesInit ==
    /\ pins = [r \in Requests |-> [cid |-> None, kind |-> None, live |-> FALSE]]
    /\ ops = [r \in Requests |-> [pc |-> "idle", cids |-> {}, walk |-> Nowhere, row |-> None]]
    /\ dels = [r \in Requests |-> [pc |-> "idle", left |-> {}, path |-> None]]
    /\ rows = {}
    /\ faults = 0
    /\ raced = {} /\ hidden = {} /\ partial = {} /\ removed = {}

Fails(kind, c) == <<kind, c>> \in Failing /\ faults < MaxFaults /\ faults' = faults + 1
-----------------------------------------------------------------------------
(* The pin, and the CIDs its file path operation is given.                  *)

\* The walk of a retrieval skips what is not UnixFS.
Links(c) == IF Meta[c].unixfs THEN {k \in Children(c) : Meta[k].unixfs} ELSE {}

\* An upload names its root as the CAR file spells it; a retrieval names all
\* blocks of the DAG when there is more than the root, and none otherwise.
GivenCids(c, kind) ==
    LET root == NormalizeCid[c]
    IN IF kind = "upload" THEN {c} ELSE IF Closure(root, Links) = {root} THEN {} ELSE Closure(root, Links)

\* The row of the pin gets the version 1 (IPFSPin.BeforeSave, db/ipfs_pin.go:71),
\* whatever the operation gets.
Pin(r) ==
    /\ ops[r].pc = "idle" /\ Busy < MaxBusy /\ \A q \in 1..(r - 1) : ops[q].pc # "idle"
    /\ \E t \in Tasks[r] : LET c == NormalizeCid[t.cid] IN
          /\ pins' = [pins EXCEPT ![r] = [cid |-> c, kind |-> t.kind, live |-> TRUE]]
          /\ ops' = [ops EXCEPT ![r].pc = "relate", ![r].cids = GivenCids(t.cid, t.kind)]
          /\ raced' = IF \E q \in Requests : dels[q].pc = "delete" /\ pins[q].cid = c THEN raced \union {c} ELSE raced
    /\ UNCHANGED <<dels, rows, faults, hidden, partial, removed>>

\* The parents and children of the block that the user has pinned too.
GetRelatedCIDs(c) == {d \in Children(c) \union {p \in Cids : c \in Children(p)} : Live(d) # {}}

ValidateDAGCompletion(c) == IF GetRelatedCIDs(c) = {} THEN {} ELSE GetRelatedCIDs(c) \union {c}

\* A retrieved pin that was deleted meanwhile is not found any more, and gets
\* no related CIDs; neither does one for which the lookup fails.
Relate(r) ==
    /\ ops[r].pc = "relate"
    /\ \/ LET related == IF pins[r].live \/ pins[r].kind = "upload" THEN ValidateDAGCompletion(pins[r].cid) ELSE {}
          IN ops' = [ops EXCEPT ![r].pc = "queued", ![r].cids = @ \union related] /\ UNCHANGED faults
       \/ /\ faults < MaxFaults /\ faults' = faults + 1
          /\ ops' = [ops EXCEPT ![r].pc = "queued"]
    /\ UNCHANGED <<pins, dels, rows, raced, hidden, partial, removed>>
-----------------------------------------------------------------------------
(* The operation: the nodes are read, the roots among them are walked, and  *)
(* the orphans are listed at the top.                                       *)

\* Blocks without a node, and nodes with neither name nor children.
Incomplete(c) == ~Meta[c].unixfs \/ (Meta[c].name = "" /\ Children(c) = {})

Metas(cids, unread) == {c \in cids \ unread : ~Incomplete(c)}

Roots(cids, unread) == {c \in Metas(cids, unread) : \A d \in Metas(cids, unread) : c \notin Children(d)}

\* A second root does not count what the first did.
Start(r) ==
    /\ ops[r].pc = "queued"
    /\ \E unread \in {{}} \union {{c} : c \in ops[r].cids} :
          LET roots == Roots(ops[r].cids, unread)
          IN /\ IF unread = {} THEN UNCHANGED faults ELSE \E c \in unread : Fails("meta", c)
             /\ ops' = [ops EXCEPT ![r].pc = "walk",
                                   ![r].walk = [Nowhere EXCEPT !.roots = roots,
                                       !.orphans = [cid : ops[r].cids \ Metas(ops[r].cids, unread), read : {FALSE}]]]
             /\ partial' = IF unread = {} /\ \A c, d \in roots : c = d THEN partial ELSE partial \union ops[r].cids
    /\ UNCHANGED <<pins, dels, rows, raced, hidden, removed>>

Same(a, b) == a.cid = b.cid /\ a.path = b.path

\* Nothing keeps two rows with one CID and path out of the table: the unique
\* key ends in a column that is NULL.
Create(row) ==
    LET used == {x.id : x \in {y \in rows \union UNION {dels[q].left : q \in Requests} : Same(y, row)}}
    IN rows' = rows \union {[id |-> 1 + Max(used \union {0}), cid |-> row.cid, path |-> row.path,
                             orphan |-> row.orphan, size |-> row.size, dir |-> row.dir]}

\* Mutant of CreateFilePath: directories get no row of their own.
CreateFile(r, row, next) ==
    IF row.dir \/ \E x \in rows : Same(x, row) THEN ops' = [ops EXCEPT ![r].walk = next] /\ UNCHANGED rows
    ELSE Create(row) /\ ops' = [ops EXCEPT ![r].walk = next]

\* A row that is there is left as it is.  It looks for the row in one
\* transaction and creates it in another; only an operation that is running
\* already can come between the two in a way that matters.
CreateFilePath(r, row, next) ==
    IF \E x \in rows : Same(x, row) THEN ops' = [ops EXCEPT ![r].walk = next] /\ UNCHANGED rows
    ELSE IF \E q \in Requests \ {r} : Writing(q)
    THEN ops' = [ops EXCEPT ![r].pc = "insert", ![r].walk = next, ![r].row = row] /\ UNCHANGED rows
    ELSE Create(row) /\ ops' = [ops EXCEPT ![r].walk = next]

\* The second transaction of CreateFilePath.
Insert(r) ==
    /\ ops[r].pc = "insert"
    /\ Create(ops[r].row)
    /\ ops' = [ops EXCEPT ![r].pc = "walk", ![r].row = None]
    /\ UNCHANGED <<pins, dels, faults, raced, hidden, partial, removed>>

NodeName(c) == IF Meta[c].name = "" THEN c ELSE Meta[c].name

FileRow(c, parent) == [cid |-> c, path |-> Append(parent, NodeName(c)), orphan |-> FALSE, size |-> Meta[c].size, dir |-> Meta[c].dir]

\* The walk takes up a root or a child of the innermost directory, ...
Taken(walk, c) == IF walk.stack = <<>> THEN [walk EXCEPT !.roots = @ \ {c}]
                  ELSE [walk EXCEPT !.stack[Len(walk.stack)].left = Tail(@)]

\* ... and adds its size to the directory's; the size of a root goes nowhere.
Counted(walk, n) == IF walk.stack = <<>> THEN walk ELSE [walk EXCEPT !.stack[Len(walk.stack)].size = @ + n]

\* A directory with children is walked next, anything else is counted.
Entered(walk, row) ==
    IF row.dir /\ Meta[row.cid].children # <<>>
    THEN [walk EXCEPT !.stack = Append(@, [cid |-> row.cid, path |-> row.path, left |-> Meta[row.cid].children, size |-> row.size])]
    ELSE Counted(walk, row.size)

\* Mutant of Met: a block is listed and counted wherever it is met.
NeverMet(walk, c) == FALSE

\* A block met before, in this tree or another, is not looked at again.
Met(walk, c) == c \in walk.processed

\* The call for a block up to the calls for its children.  One that cannot be
\* listed where it is met first is not listed at all; a root joins the orphans.
Visit(r, c, parent) ==
    LET walk == Taken(ops[r].walk, c)
        seen == [walk EXCEPT !.processed = @ \union {c}]
        row == FileRow(c, parent)
    IN \/ Met(walk, c) /\ ops' = [ops EXCEPT ![r].walk = walk] /\ UNCHANGED <<rows, faults, partial>>
       \/ /\ ~Met(walk, c)
          /\ (c \in Long /\ UNCHANGED faults) \/ Fails("create", c)
          /\ ops' = [ops EXCEPT ![r].walk = IF parent = <<>> THEN [seen EXCEPT !.orphans = @ \union {[cid |-> c, read |-> TRUE]}]
                                                             ELSE seen]
          /\ partial' = partial \union ops[r].cids
          /\ UNCHANGED rows
       \/ /\ ~Met(walk, c) /\ c \notin Long
          /\ CreateFilePath(r, row, Entered([seen EXCEPT !.reached = @ \union {c}], row))
          /\ UNCHANGED <<faults, partial>>

PinName(c) == IF Live(c) # {} /\ pins[Min(Live(c))].kind = "retrieve" THEN "pin" ELSE ""

\* The blocks of a DAG, each once; the size of an orphan without a node.
WalkDAGForTotalSize(c) == MapThenSumSet(LAMBDA k : Meta[k].raw, Reachable[c])

\* An orphan has its own name if its node was read, otherwise that of the
\* user's pin, if there is one with a name, otherwise its CID.
OrphanRow(c, read) ==
    LET name == IF read /\ Meta[c].name # "" THEN Meta[c].name ELSE PinName(c)
    IN [cid |-> c, path |-> <<IF name = "" THEN c ELSE name>>, orphan |-> TRUE,
        size |-> IF read THEN Meta[c].size ELSE WalkDAGForTotalSize(c), dir |-> read /\ Meta[c].dir]

\* An orphan that cannot be listed is left out, such as a root whose own name
\* was too long.
CreateOrphanEntry(r, c, read, next) ==
    \/ /\ ~(read /\ c \in Long)
       /\ CreateFilePath(r, OrphanRow(c, read), [next EXCEPT !.reached = @ \union {c}])
       /\ UNCHANGED <<faults, partial>>
    \/ /\ (read /\ c \in Long /\ UNCHANGED faults) \/ Fails("orphan", c)
       /\ ops' = [ops EXCEPT ![r].walk = next] /\ partial' = partial \union ops[r].cids
       /\ UNCHANGED rows

\* The roots and then the orphans, each in any order.
Execute(r) ==
    /\ ops[r].pc = "walk" /\ ops[r].walk.stack = <<>>
    /\ LET walk == ops[r].walk
       IN \/ \E c \in walk.roots : Visit(r, c, <<>>)
          \/ /\ walk.roots = {}
             /\ \E w \in walk.orphans : CreateOrphanEntry(r, w.cid, w.read, [walk EXCEPT !.orphans = @ \ {w}])
    /\ UNCHANGED <<pins, dels, raced, hidden, removed>>

\* The next child of the innermost directory; one whose node cannot be read is
\* an orphan.
ComputePathsRecursive(r) ==
    /\ ops[r].pc = "walk" /\ ops[r].walk.stack # <<>>
    /\ LET walk == ops[r].walk
           d == Last(walk.stack)
           k == Head(d.left)
       IN /\ d.left # <<>>
          /\ \/ Meta[k].unixfs /\ Visit(r, k, d.path)
             \/ /\ ~Meta[k].unixfs /\ CreateOrphanEntry(r, k, FALSE, Taken(walk, k))
             \/ /\ Meta[k].unixfs /\ Fails("child", k)
                /\ CreateFilePath(r, OrphanRow(k, FALSE), [Taken(walk, k) EXCEPT !.reached = @ \union {k}])
                /\ partial' = partial \union ops[r].cids
    /\ UNCHANGED <<pins, dels, raced, hidden, removed>>

\* The end of a directory: its row gets the total, which its parent's includes.
UpdateFilePath(r) ==
    /\ ops[r].pc = "walk" /\ ops[r].walk.stack # <<>>
    /\ LET walk == ops[r].walk
           d == Last(walk.stack)
       IN /\ d.left = <<>>
          /\ ops' = [ops EXCEPT ![r].walk = Counted([walk EXCEPT !.stack = Front(@)], d.size)]
          /\ \/ /\ rows' = {IF Same(x, d) THEN [x EXCEPT !.size = d.size, !.dir = TRUE, !.orphan = FALSE] ELSE x : x \in rows}
                /\ UNCHANGED <<faults, partial>>
             \/ /\ Fails("update", d.cid)
                /\ partial' = partial \union ops[r].cids \union {d.cid}
                /\ UNCHANGED rows
    /\ UNCHANGED <<pins, dels, raced, hidden, removed>>

\* The count at the end; when it fails, the workflow tries the operation again.
Validate(r) ==
    /\ ops[r].pc = "walk" /\ ops[r].walk.stack = <<>> /\ ops[r].walk.roots = {} /\ ops[r].walk.orphans = {}
    /\ \/ /\ ops' = [ops EXCEPT ![r].pc = "done", ![r].walk = Nowhere]
          /\ hidden' = hidden \union (ops[r].cids \ ops[r].walk.reached)
          /\ UNCHANGED faults
       \/ /\ faults < MaxFaults /\ faults' = faults + 1
          /\ ops' = [ops EXCEPT ![r].pc = "queued", ![r].walk = Nowhere]
          /\ UNCHANGED hidden
    /\ UNCHANGED <<pins, dels, rows, raced, partial, removed>>
-----------------------------------------------------------------------------
(* DeletePin.                                                               *)

\* The pin goes and the others of its CID are counted.  The count has a
\* transaction of its own (PinService!DeleteTx): when two deletions
\* overlap there, neither goes on to the paths, which then stay.
DeletePin(r) ==
    /\ pins[r].live /\ Busy < MaxBusy
    /\ pins' = [pins EXCEPT ![r].live = FALSE]
    /\ dels' = [dels EXCEPT ![r].pc = IF Live(pins[r].cid) = {r} THEN "unpin" ELSE "done"]
    /\ UNCHANGED <<ops, rows, faults, raced, hidden, partial, removed>>

\* The core pin is removed; when that fails the paths stay.  Then
\* DeleteFilePathSmart looks for the paths.
Unpin(r) ==
    /\ dels[r].pc = "unpin"
    /\ \/ /\ dels' = [dels EXCEPT ![r].pc = "count", ![r].left = {x \in rows : x.cid = pins[r].cid}]
          /\ UNCHANGED faults
       \/ /\ faults < MaxFaults /\ faults' = faults + 1
          /\ dels' = [dels EXCEPT ![r].pc = "done"]
    /\ UNCHANGED <<pins, ops, rows, raced, hidden, partial, removed>>

\* Mutant of CountPins: the path goes whatever the count.
CountNothing(r) ==
    /\ dels[r].pc = "count"
    /\ \/ dels[r].left = {} /\ dels' = [dels EXCEPT ![r].pc = "done"]
       \/ \E x \in dels[r].left : dels' = [dels EXCEPT ![r].pc = "delete", ![r].path = x]
    /\ UNCHANGED <<pins, ops, rows, faults, raced, hidden, partial, removed>>

\* For each path: count the user's pins of the CID, ...
CountPins(r) ==
    /\ dels[r].pc = "count"
    /\ \/ dels[r].left = {} /\ dels' = [dels EXCEPT ![r].pc = "done"]
       \/ \E x \in dels[r].left :
            dels' = IF Live(pins[r].cid) = {} THEN [dels EXCEPT ![r].pc = "delete", ![r].path = x]
                    ELSE [dels EXCEPT ![r].left = @ \ {x}]
    /\ UNCHANGED <<pins, ops, rows, faults, raced, hidden, partial, removed>>

\* ... and delete the path if there is none.
DeletePath(r) ==
    /\ dels[r].pc = "delete"
    /\ LET x == dels[r].path
       IN /\ rows' = {y \in rows : ~(Same(x, y) /\ x.id = y.id)}
          /\ removed' = removed \union {x.path}
          /\ dels' = [dels EXCEPT ![r].pc = "count", ![r].left = @ \ {x}, ![r].path = None]
    /\ UNCHANGED <<pins, ops, faults, raced, hidden, partial>>

Operation(r) ==
    \/ Relate(r) \/ Start(r) \/ Execute(r) \/ ComputePathsRecursive(r) \/ UpdateFilePath(r) \/ Insert(r) \/ Validate(r)

FilesNext == \E r \in Requests : Pin(r) \/ Operation(r) \/ DeletePin(r) \/ Unpin(r) \/ CountPins(r) \/ DeletePath(r)

FilesSpec == FilesInit /\ [][FilesNext]_filesVars
-----------------------------------------------------------------------------
(* What the file manager shows.                                             *)

ListDirectoryContents(dir) == {x \in rows : Front(x.path) = dir}

GetBreadcrumbs(path) == {x \in rows : x.path \in Prefixes(path) \ {<<>>}}

\* A pin whose operation is through has a row, so that the file manager shows
\* it, under every spelling of its CID that the operation was given: DeletePin
\* leaves the rows of a CID that is pinned again.  The root of an upload may be
\* a version 0: its row is an orphan's, and the pin's own CID has one only if
\* the operation was given that too (Relate).  There is no row when the
\* operation was given no CID (a pinned leaf, op_retrieve.go:127), when it was
\* given the CID as the child of another and could not list it there, and when
\* it was pinned between a deletion's count and its delete.
PinnedIsListed ==
    \A r \in Requests : pins[r].live /\ ops[r].pc = "done" /\ ops[r].cids # {} =>
        LET spellings == {c \in ops[r].cids : NormalizeCid[c] = pins[r].cid}
        IN /\ spellings # {}
           /\ \A c \in spellings : (\E x \in rows : x.cid = c) \/ c \in hidden \union raced

\* The size of a row is never more than the files in it together: none is
\* counted twice, however many directories hold it; and a directory at the
\* top has all of them once no operation is at work, unless some operation
\* had two roots (the second does not count what the first did), met a failure
\* or a path that is too long.  A directory further down lacks the files that
\* are listed elsewhere.
SizeIsTotal ==
    \A x \in rows :
        \/ x.orphan
        \/ x.size = Total[x.cid]
        \/ x.size < Total[x.cid] /\ (x.cid \in partial \/ Len(x.path) > 1 \/ \E r \in Requests : Writing(r))

\* Every row can be reached from the top: all directories of its path have
\* rows, and are directories, but for those deleted with their pin, whose
\* contents stay, and for a directory that was an orphan when it was listed
\* first, as long as the total that would make it a directory is not written.
Browsable ==
    \A x \in rows : \A p \in Prefixes(Front(x.path)) \ {<<>>} :
        \/ p \in removed
        \/ \E y \in GetBreadcrumbs(x.path) : y.path = p /\ (y.dir \/ (y.orphan /\ y.cid \in partial) \/ \E r \in Requests : Writing(r))
=============================================================================
