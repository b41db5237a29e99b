---------------------------- MODULE PinWorkflows ----------------------------
(***************************************************************************)
(* The workflow operations that pin content, over the ledgers of           *)
(* PinService: Retrieve and Confirm of the PIN workflow, PostUpload and    *)
(* the TUS upload (internal/protocol/op_*.go, quota_helpers.go,            *)
(* internal/service/upload/upload.go).  An operation reserves quota for    *)
(* every block, pins each block in the portal (which settles its           *)
(* reservation), creates the pin record of the root and marks it pinned;   *)
(* every step may fail, and the workflow engine then runs the operation    *)
(* again.  Scan, Store and Publish do not touch the ledgers; whether Store *)
(* has made the blocks ready is the outcome of Check.                      *)
(***************************************************************************)
EXTENDS PinService

CONSTANTS Children,     \* the blocks below each CID
          MaxAttempts   \* runs of an operation before the engine gives up

ASSUME WorkflowAssumption ==
    /\ Children \in [Cids -> SUBSET Cids] /\ \A c \in Cids : c \notin Children[c]
    /\ MaxAttempts \in Nat \ {0}

Held    == {"upload", "both"}   \* a reservation that still takes quota
Blocks(c) == {c} \union Children[c]
JobKey(j, c) == <<jobs[j].user, c>>
At(j, op, pc) == jobs[j].pc = pc /\ jobs[j].op \in op

Init == PinInit

Set(j, job) == jobs' = [jobs EXCEPT ![j] = job]

\* Mutant of ReleaseBlockReservationsMap: only complete pairs are released.
ReleasePairs(job) == [job EXCEPT !.res = [c \in Cids |-> IF @[c] = "both" THEN "none" ELSE @[c]]]

ReleaseBlockReservationsMap(job) ==
    [job EXCEPT !.res = [c \in Cids |-> IF @[c] \in Held THEN "none" ELSE @[c]]]

cleanupDownloadReservation(job) ==
    [job EXCEPT !.download = "none"]

ReleaseAll(job) == cleanupDownloadReservation(ReleaseBlockReservationsMap(job))

\* Execute returns an error.
Fail(j, job) ==
    /\ Set(j, [job EXCEPT !.pc = "error", !.todo = {}, !.put = {}])
    /\ blame' = IF job.cid \in job.put THEN Blame(JobKey(j, job.cid), "abandoned") ELSE blame

\* The workflow is over; what it has left behind stays.
Ended(job, pc) == [IdleJob EXCEPT !.pc = pc, !.unread = job.unread, !.left = job.left]

\* The engine runs the operation again, with the workflow data it has and
\* reservations of its own.
Retry(j) ==
    /\ jobs[j].pc = "error" /\ jobs[j].attempt < MaxAttempts
    /\ Set(j, [jobs[j] EXCEPT !.pc = "begin", !.attempt = @ + 1, !.got = {}, !.broke = FALSE,
                              !.res = IdleJob.res, !.download = "none"])
    /\ UNCHANGED <<rows, core, billed, calls, blame>>

GiveUp(j) ==
    /\ jobs[j].pc = "error" /\ jobs[j].attempt = MaxAttempts
    /\ Set(j, Ended(jobs[j], "failed"))
    /\ UNCHANGED <<rows, core, billed, calls, blame>>

\* A POST or TUS upload of the DAG below c has been stored by the API.
StartUpload(j, u, c) ==
    /\ jobs[j].pc = "free"
    /\ Set(j, [IdleJob EXCEPT !.pc = "begin", !.op = "upload", !.user = u, !.cid = c])
    /\ UNCHANGED <<rows, core, billed, calls, blame>>
-----------------------------------------------------------------------------
(* Retrieve has succeeded, and Confirm comes next.  What Retrieve still has  *)
(* reserved is neither settled nor released: the download, and the blocks   *)
(* that it could not read back and did not process.                         *)
ToConfirm(job) ==
    [job EXCEPT !.pc = "begin", !.op = "confirm", !.attempt = 1, !.put = {}, !.got = {},
                !.left = [blocks |-> {c \in Cids : job.res[c] \in Held}, download |-> job.download = "held"],
                !.res = IdleJob.res, !.download = "none"]

(* Retrieve, up to the reservations: the walk reports the blocks it could   *)
(* read and no error, so any part of the DAG may be missing.                *)
Collect(j) ==
    /\ At(j, {"retrieve"}, "begin")
    /\ \E got \in SUBSET Children[jobs[j].cid] :
          \E sized \in SUBSET got :
             Set(j, IF got = {}
                    THEN ToConfirm([jobs[j] EXCEPT !.download = "held"])
                    ELSE [jobs[j] EXCEPT !.pc = "reserve", !.got = got, !.todo = sized,
                                         !.download = "held"])
    /\ UNCHANGED <<rows, core, billed, calls, blame>>

\* PostUpload and TUS: the quota is only checked, the blocks are stored by
\* ProcessBlocks.  Blocks of unknown size get no reservation.
ProcessBlocks(j) ==
    /\ At(j, {"upload"}, "begin")
    /\ \E sized \in SUBSET Blocks(jobs[j].cid) :
          Set(j, [jobs[j] EXCEPT !.pc = "reserve", !.got = Blocks(jobs[j].cid), !.todo = sized])
    /\ UNCHANGED <<rows, core, billed, calls, blame>>

\* Any operation may fail before it has reserved or changed anything.
BeginFails(j) ==
    /\ At(j, {"retrieve", "confirm", "upload"}, "begin")
    /\ Fail(j, jobs[j])
    /\ UNCHANGED <<rows, core, billed, calls>>
-----------------------------------------------------------------------------
(* CreatePerBlockReservations: for each block one reservation of upload and *)
(* one of storage quota.  When a block is refused, its half-made pair and   *)
(* everything reserved before it is released, and by Retrieve the download. *)
Reserved(job, pairs, half) ==
    [job EXCEPT !.res = [c \in Cids |-> IF c \in pairs THEN "both"
                                        ELSE IF c \in half THEN "upload" ELSE @[c]]]

ReserveFails(j) ==
    /\ jobs[j].pc = "reserve"
    /\ \E c \in jobs[j].todo :
          \E pairs \in SUBSET (jobs[j].todo \ {c}), half \in SUBSET {c} :
             Fail(j, ReleaseAll(Reserved(jobs[j], pairs, half)))
    /\ UNCHANGED <<rows, core, billed, calls>>

\* Retrieve now fetches the blocks for real; an upload has them already.
CreatePerBlockReservations(j) ==
    LET job == Reserved(jobs[j], jobs[j].todo, {}) IN
    /\ jobs[j].pc = "reserve"
    /\ Set(j, IF job.op = "retrieve"
              THEN [job EXCEPT !.pc = "fetch", !.todo = {}]
              ELSE [job EXCEPT !.pc = "process", !.todo = job.got])
    /\ UNCHANGED <<rows, core, billed, calls, blame>>

\* A failed fetch releases the download and forgets the blocks' reservations.
FetchFails(j) ==
    /\ jobs[j].pc = "fetch"
    /\ Fail(j, [cleanupDownloadReservation(jobs[j]) EXCEPT !.broke = TRUE])
    /\ UNCHANGED <<rows, core, billed, calls>>

\* The CIDs go into the workflow data; the children that have a reservation and
\* can be read back are processed, and it is an error if there are none.
Fetch(j) ==
    LET job == [jobs[j] EXCEPT !.cids = {jobs[j].cid} \union jobs[j].got] IN
    /\ jobs[j].pc = "fetch"
    /\ LET reserved == {c \in jobs[j].got : jobs[j].res[c] = "both"} IN
       \E valid \in SUBSET reserved :
          IF valid = {}
          THEN Fail(j, ReleaseAll(job))
          ELSE /\ Set(j, [job EXCEPT !.pc = "process", !.todo = valid, !.unread = reserved \ valid])
               /\ UNCHANGED blame
    /\ UNCHANGED <<rows, core, billed, calls>>

DataFails(j) ==
    /\ jobs[j].pc = "fetch"
    /\ Fail(j, ReleaseAll(jobs[j]))
    /\ UNCHANGED <<rows, core, billed, calls>>
-----------------------------------------------------------------------------
(* ProcessUpload, one CID: an upload record, the portal's pin, the pinned   *)
(* event and the completed event, which settle the block's reservations.    *)
AfterCid(job) ==
    IF job.todo # {} THEN job
    ELSE IF job.op = "retrieve"
         THEN ToConfirm(job)
         ELSE [job EXCEPT !.pc = "root"]

Deciding(k) ==
    \E a \in Calls : /\ calls[a].unpin /\ calls[a].pc \in {"delete", "commit", "get", "unpin"}
                     /\ KeyOf(calls[a].rid) = k

ProcessUpload(j, c) ==
    LET job == jobs[j]
        k   == JobKey(j, c)
    IN
    /\ job.pc = "process" /\ c \in job.todo
    /\ core' = core \union {k}
    /\ billed' = [billed EXCEPT ![k] = @ + 1]
    /\ blame' = [blame EXCEPT ![k] = @ \union (IF c = job.cid THEN {} ELSE {"child"})
                                       \union (IF Deciding(k) THEN {"overlap"} ELSE {})]
    /\ Set(j, AfterCid([job EXCEPT !.todo = @ \ {c}, !.put = @ \union {c},
                                !.res[c] = IF @ = "both" THEN "settled" ELSE @]))
    /\ UNCHANGED <<rows, calls>>

\* Confirm has no reservations to release.
ProcessFails(j) ==
    /\ jobs[j].pc = "process"
    /\ Fail(j, ReleaseAll(jobs[j]))
    /\ UNCHANGED <<rows, core, billed, calls>>
-----------------------------------------------------------------------------
(* Confirm: all CIDs of the workflow data are there, the root too.  A pin   *)
(* whose walk found no child has no CIDs, and nothing is pinned.            *)
Check(j) ==
    LET cids == jobs[j].cids IN
    /\ At(j, {"confirm"}, "begin")
    /\ Set(j, IF cids = {} THEN [jobs[j] EXCEPT !.pc = "status"]
              ELSE [jobs[j] EXCEPT !.pc = "process", !.todo = cids])
    /\ blame' = IF cids = {} THEN Blame(JobKey(j, jobs[j].cid), "empty") ELSE blame
    /\ UNCHANGED <<rows, core, billed, calls>>

\* The record of the root; Confirm's is a second one next to the pin it works for.
CreateRootPin(j) ==
    LET job == jobs[j] IN
    /\ job.pc = "root"
    /\ AddPin(job.user, job.cid)
    /\ Set(j, [job EXCEPT !.pc = "status", !.put = {},
                          !.rid = IF job.op = "confirm" THEN @ ELSE Len(rows) + 1])
    /\ UNCHANGED <<core, billed, calls, blame>>

\* PostUpload releases once more here and below, the TUS upload does not;
\* every reservation is settled by then.
LateFail(j) ==
    \/ Fail(j, jobs[j])
    \/ jobs[j].op = "upload" /\ Fail(j, ReleaseBlockReservationsMap(jobs[j]))

CreateRootPinFails(j) ==
    /\ jobs[j].pc = "root"
    /\ LateFail(j)
    /\ UNCHANGED <<rows, core, billed, calls>>

SetPinned(j) ==
    /\ jobs[j].pc = "status" /\ rows[jobs[j].rid].live /\ ~Locked(jobs[j].rid)
    /\ UpdatePinStatus(jobs[j].rid)
    /\ Set(j, IF jobs[j].op = "confirm" THEN Ended(jobs[j], "done")
              ELSE [jobs[j] EXCEPT !.pc = "data"])
    /\ UNCHANGED <<core, billed, calls, blame>>

\* The record is gone or the update fails: an error for Confirm, a log line
\* for the uploads.
SetPinnedFails(j) ==
    /\ jobs[j].pc = "status"
    /\ IF jobs[j].op = "confirm" THEN Fail(j, jobs[j])
       ELSE Set(j, [jobs[j] EXCEPT !.pc = "data"]) /\ UNCHANGED blame
    /\ UNCHANGED <<rows, core, billed, calls>>

\* The uploads save the workflow data last; a failure makes the engine run the
\* whole operation again, which creates another record.
UpdateWorkflow(j) ==
    /\ jobs[j].pc = "data"
    /\ \/ /\ Set(j, [IdleJob EXCEPT !.pc = "done", !.res = jobs[j].res])
          /\ UNCHANGED blame
       \/ LateFail(j)
    /\ UNCHANGED <<rows, core, billed, calls>>

JobStep(j) ==
    \/ \E u \in Users, c \in Cids : StartUpload(j, u, c)
    \/ Retry(j) \/ GiveUp(j)
    \/ Collect(j) \/ ProcessBlocks(j) \/ BeginFails(j)
    \/ ReserveFails(j) \/ CreatePerBlockReservations(j)
    \/ Fetch(j) \/ FetchFails(j) \/ DataFails(j)
    \/ (\E c \in Cids : ProcessUpload(j, c)) \/ ProcessFails(j)
    \/ Check(j) \/ CreateRootPin(j) \/ CreateRootPinFails(j)
    \/ SetPinned(j) \/ SetPinnedFails(j) \/ UpdateWorkflow(j)

Next == (\E a \in Calls : CallStep(a)) \/ (\E j \in Jobs : JobStep(j))

Spec == Init /\ [][Next]_pinVars
-----------------------------------------------------------------------------
Job == [pc : {"free", "begin", "reserve", "fetch", "process", "root", "status", "data",
              "error", "failed", "done"},
        op : {"none", "retrieve", "confirm", "upload"}, user : Users \union {NoUser}, cid : Cids,
        rid : Nat, cids : SUBSET Cids, got : SUBSET Cids, todo : SUBSET Cids, put : SUBSET Cids,
        res : [Cids -> {"none", "upload", "both", "settled"}],
        download : {"none", "held"}, attempt : 1 .. MaxAttempts, broke : BOOLEAN,
        unread : SUBSET Cids, left : [blocks : SUBSET Cids, download : BOOLEAN]]

Call == [pc : {"idle", "start", "delete", "replace", "commit", "get", "unpin", "done", "failed"},
         user : Users \union {NoUser}, rid : Nat, loaded : BOOLEAN, unpin : BOOLEAN, found : BOOLEAN]

(* Records, calls and workflow requests have their types, and every request *)
(* ID that a call or a workflow works on is that of a record: pin.go and    *)
(* the handlers look records up by IDs they keep across transactions.       *)
TypeOK ==
    /\ \A r \in DOMAIN rows : rows[r] \in Row
    /\ core \subseteq Keys
    /\ billed \in [Keys -> Int]
    /\ blame \in [Keys -> SUBSET Reasons]
    /\ \A a \in Calls : calls[a] \in Call /\ calls[a].rid \in 0 .. Len(rows)
    /\ \A j \in Jobs : jobs[j] \in Job /\ jobs[j].rid \in 0 .. Len(rows)

(* A live record with status pinned is backed by the portal's pin of its    *)
(* CID, whatever else the user pinned and deleted: DeletePin unpins only    *)
(* what no other record of the user names (pin.go:281-294), and a record is *)
(* marked pinned after ProcessUpload.  The exceptions are a decision to     *)
(* unpin taken while another call or workflow had the key in hand, and a    *)
(* Confirm that had no CIDs.                                                *)
PinnedIsHeld ==
    \A r \in DOMAIN rows :
        (rows[r].live /\ rows[r].status = "pinned" /\ blame[KeyOf(r)] \intersect {"overlap", "empty"} = {})
            => KeyOf(r) \in core

Busy(k) ==
    \/ \E a \in Calls : /\ calls[a].pc \notin {"idle", "done", "failed"}
                        /\ KeyOf(calls[a].rid) = k
    \/ \E j \in Jobs : /\ jobs[j].pc \notin {"free", "done", "failed"}
                       /\ jobs[j].user = k[1] /\ k[2] \in Blocks(jobs[j].cid)

(* When the last record of a key has been deleted and nothing works on the  *)
(* key, the portal no longer holds it.  The exceptions are the five ways in *)
(* which the code loses track of a portal pin: overlapping deletes,         *)
(* ReplacePin, a portal call that fails after the commit, an attempt that   *)
(* ends before its record exists, and the pins of child blocks.             *)
DeletedIsReleased ==
    \A k \in Keys :
        (LiveOf(k) = {} /\ ~Busy(k) /\ blame[k] \subseteq {"empty"}) => k \notin core

(* What the portal holds is billed: every portal pin has at least one more  *)
(* pinned event than unpinned events, through retries, double pinning and   *)
(* failed unpins (upload.go:202, pin.go:313-335).  The exception is again an*)
(* unpin decided while the key was in use, which may report it twice.       *)
HeldIsBilled ==
    \A k \in core : "overlap" \notin blame[k] => billed[k] >= 1

NothingReserved(job) == job.download # "held" /\ \A c \in Cids : job.res[c] \notin Held

(* Quota that an attempt has reserved is settled or released when it ends,  *)
(* wherever among the blocks it failed (op_post_upload.go:152-206,          *)
(* op_tus_upload.go:224-238, op_retrieve.go:82-215), with two exceptions.   *)
(* Retrieve's failing fetch (op_retrieve.go:131-135) releases the download  *)
(* only; and a Retrieve that succeeds leaves the download reserved, and of  *)
(* its blocks those that it has reserved and could not read back            *)
(* (op_retrieve.go:197-206), no others.                                     *)
AttemptsEndClean ==
    \A j \in Jobs :
        /\ jobs[j].pc \in {"error", "failed", "done"} => jobs[j].broke \/ NothingReserved(jobs[j])
        /\ jobs[j].left.blocks \subseteq jobs[j].unread
=============================================================================
