-------------------------- MODULE PinWorkflowsProofs --------------------------
(***************************************************************************)
(* Proofs about PinWorkflows and the PinService it extends, for any users, *)
(* DAGs, calls, workflow requests, records and attempts: their types, that *)
(* no attempt of an operation ends with quota still reserved, and that the *)
(* three ledgers (the records, the portal's pins, what is billed) agree    *)
(* except in the ways that the history variable names.                     *)
(***************************************************************************)
EXTENDS PinWorkflows, FiniteSetTheorems, TLAPS

\* Which operation a workflow request may be running at each of its places.
OpOfPlace(job) ==
    /\ job.pc \in {"free", "failed", "done"} => job.op = "none"
    /\ job.pc \in {"begin", "process", "error"} => job.op \in {"retrieve", "confirm", "upload"}
    /\ job.pc = "reserve" => job.op \in {"retrieve", "upload"}
    /\ job.pc = "fetch" => job.op = "retrieve"
    /\ job.pc \in {"root", "status"} => job.op \in {"confirm", "upload"}
    /\ job.pc = "data" => job.op = "upload"
    /\ job.op # "none" => job.user \in Users

\* What is reserved at each place.  An upload processes every block it has a
\* reservation for; a retrieval drops what it has not processed.
Reservations(job) ==
    /\ job.pc \notin {"reserve", "fetch", "process", "error"} => NothingReserved(job)
    /\ job.pc = "reserve" => \A c \in Cids : job.res[c] \notin Held
    /\ job.pc = "reserve" /\ job.op = "upload" => job.download # "held" /\ job.todo \subseteq job.got
    /\ job.pc = "process" /\ job.op # "retrieve" =>
          /\ job.download # "held"
          /\ \A c \in Cids : job.res[c] # "upload" /\ (job.res[c] = "both" => c \in job.todo)
    /\ job.pc = "error" => job.broke \/ NothingReserved(job)

\* Which blocks are put: the root by an upload or Confirm, and not by Retrieve.
Putting(job) ==
    /\ job.put # {} => job.pc \in {"process", "root"}
    /\ job.cids # {} => job.cid \in job.cids
    /\ job.pc = "reserve" /\ job.op = "upload" => job.cid \in job.got
    /\ job.pc \in {"reserve", "fetch"} /\ job.op = "retrieve" => job.cid \notin job.got
    /\ job.pc = "process" => IF job.op = "retrieve" THEN job.cid \notin job.put \union job.todo
                                                    ELSE job.cid \in job.put \union job.todo
    /\ job.pc = "root" => job.cid \in job.put

JobShape(job) == job \in Job /\ OpOfPlace(job) /\ Reservations(job) /\ Putting(job)

\* The record that a workflow works for is one of its user and root.
OwnRecord(j) ==
    /\ jobs[j].rid \in 0 .. Len(rows)
    /\ jobs[j].op # "none" /\ jobs[j].rid # 0 =>
          rows[jobs[j].rid].user = jobs[j].user /\ rows[jobs[j].rid].cid = jobs[j].cid
    /\ jobs[j].op \in {"retrieve", "confirm"} \/ jobs[j].pc = "status" => jobs[j].rid # 0

\* What a call knows of its record at each place of DeletePin.
CallShape(call, table) ==
    /\ call \in Call /\ call.rid \in 0 .. Len(table)
    /\ call.pc \notin {"idle", "done", "failed"} => call.rid # 0 /\ call.user \in Users
    /\ call.unpin => call.loaded /\ call.pc \in {"delete", "commit", "get", "unpin"}
    /\ call.found => call.pc = "unpin"
    /\ call.pc \in {"get", "unpin"} => call.unpin /\ ~table[call.rid].live
    /\ call.pc = "commit" => call.loaded /\ table[call.rid].live

\* The lock on a record has one holder.
OneHolder ==
    \A a, b \in Calls : a # b /\ calls[a].pc = "commit" /\ calls[b].pc = "commit" =>
        calls[a].rid # calls[b].rid

Inv ==
    /\ rows \in Seq(Row)
    /\ core \subseteq Keys /\ billed \in [Keys -> Int] /\ blame \in [Keys -> SUBSET Reasons]
    /\ calls \in [Calls -> Call] /\ jobs \in [Jobs -> Job]
    /\ \A a \in Calls : CallShape(calls[a], rows)
    /\ OneHolder
    /\ \A j \in Jobs : JobShape(jobs[j]) /\ OwnRecord(j)

CallKey(a) == <<rows[calls[a].rid].user, rows[calls[a].rid].cid>>

\* What a deletion is to a key: it has decided to unpin it, it will report the
\* unpin, it leaves another record, it is between its decision and its end.
Unpins(a, k)  == calls[a].unpin /\ CallKey(a) = k
Reports(a, k) == calls[a].found /\ CallKey(a) = k
Spares(a, k)  == calls[a].pc = "commit" /\ ~calls[a].unpin /\ CallKey(a) = k
Deletes(a, k) == Unpins(a, k) \/ Spares(a, k)

\* A record is marked pinned, or a workflow is about to mark it.
Used(r) == rows[r].status = "pinned" \/ \E j \in Jobs : jobs[j].pc = "status" /\ jobs[j].rid = r

\* Two deletions of one key at a time are an overlap.
Single(k) ==
    "overlap" \notin blame[k] => \A a, b \in Calls : Deletes(a, k) /\ Deletes(b, k) => a = b

\* Once a call has decided to unpin, every other live record of the key is a
\* new one that no workflow has pinned.
Unused(k) ==
    blame[k] \intersect {"overlap", "empty"} = {} =>
        \A a \in Calls : Unpins(a, k) =>
            ~Rooting(k) /\ \A r \in LiveOf(k) \ {calls[a].rid} : ~Used(r)

\* What is pinned, about to be, or between the portal's pin and its record is
\* in the portal.
InPortal(k) ==
    blame[k] \intersect {"overlap", "empty"} = {} =>
        (Rooting(k) \/ (\E r \in LiveOf(k) : Used(r)) => k \in core)

\* What is in the portal is billed; an unpin that will be reported is of a pin
\* that is still there.
Counted(k) ==
    "overlap" \notin blame[k] =>
        /\ billed[k] >= 0 /\ (k \in core => billed[k] >= 1)
        /\ \A a \in Calls : Reports(a, k) => k \in core

\* What is in the portal has a record, or one that is being created, or a call
\* that will unpin it; a deletion that will not unpin leaves another record.
Accounted(k) ==
    blame[k] \subseteq {"empty"} =>
        /\ k \in core => LiveOf(k) # {} \/ Rooting(k) \/ (\E a \in Calls : Unpins(a, k))
        /\ \A a \in Calls : Spares(a, k) => LiveOf(k) \ {calls[a].rid} # {}

KeyInv(k) == Single(k) /\ Unused(k) /\ InPortal(k) /\ Counted(k) /\ Accounted(k)

LedgerInv == \A k \in Keys : KeyInv(k)
-----------------------------------------------------------------------------
(* The helpers that release keep a request's place and what it has put, and *)
(* leave nothing held (ReleaseBlockReservationsMap,                         *)
(* cleanupDownloadReservation).                                             *)
LEMMA Released ==
  ASSUME NEW job \in Job
  PROVE  /\ ReleaseAll(job) \in Job /\ NothingReserved(ReleaseAll(job))
         /\ ReleaseBlockReservationsMap(job) \in Job
         /\ \A c \in Cids : ReleaseBlockReservationsMap(job).res[c] \notin Held
         /\ ReleaseBlockReservationsMap(job).download = job.download
         /\ \A r \in {ReleaseAll(job), ReleaseBlockReservationsMap(job)} :
               /\ r.pc = job.pc /\ r.op = job.op /\ r.user = job.user /\ r.cid = job.cid
               /\ r.rid = job.rid /\ r.cids = job.cids /\ r.put = job.put /\ r.broke = job.broke
  BY DEF ReleaseAll, cleanupDownloadReservation, ReleaseBlockReservationsMap, NothingReserved, Job, Held

(* An operation that returns an error has dropped its blocks.               *)
LEMMA Failed ==
  ASSUME NEW job \in Job, job.op \in {"retrieve", "confirm", "upload"}, job.user \in Users,
         job.cids # {} => job.cid \in job.cids,
         job.broke \/ NothingReserved(job)
  PROVE  JobShape([job EXCEPT !.pc = "error", !.todo = {}, !.put = {}])
<1> DEFINE new == [job EXCEPT !.pc = "error", !.todo = {}, !.put = {}]
<1>1. /\ new \in Job /\ new.pc = "error" /\ new.todo = {} /\ new.put = {}
      /\ new.op = job.op /\ new.user = job.user /\ new.cid = job.cid /\ new.cids = job.cids
      /\ new.res = job.res /\ new.download = job.download /\ new.broke = job.broke
  BY DEF Job
<1> HIDE DEF new
<1>2. OpOfPlace(new) /\ Putting(new)
  BY <1>1 DEF OpOfPlace, Putting
<1>3. Reservations(new)
  BY <1>1 DEF Reservations, NothingReserved
<1> QED
  BY <1>1, <1>2, <1>3 DEF JobShape, new

(* Requests that are free or finished, and those that start.                *)
LEMMA Idle ==
  /\ IdleJob \in Job /\ JobShape(IdleJob)
  /\ IdleJob.op = "none" /\ IdleJob.put = {} /\ IdleJob.pc = "free" /\ IdleJob.cids = {} /\ IdleJob.rid = 0
  /\ IdleJob.res \in [Cids -> {"none", "upload", "both", "settled"}]
  /\ \A c \in Cids : IdleJob.res[c] = "none"
<1>1. (CHOOSE c \in Cids : TRUE) \in Cids
  BY PinAssumption
<1>2. IdleJob \in Job
  BY <1>1, WorkflowAssumption DEF IdleJob, Job
<1>3. /\ IdleJob.op = "none" /\ IdleJob.put = {} /\ IdleJob.pc = "free" /\ IdleJob.cids = {}
      /\ IdleJob.rid = 0 /\ IdleJob.download = "none" /\ IdleJob.res = [c \in Cids |-> "none"]
  BY DEF IdleJob
<1>4. OpOfPlace(IdleJob) /\ Reservations(IdleJob) /\ Putting(IdleJob)
  BY <1>3 DEF OpOfPlace, Reservations, Putting, NothingReserved, Held
<1> QED
  BY <1>2, <1>3, <1>4 DEF JobShape
-----------------------------------------------------------------------------
(* A workflow that is over works for nothing and has nothing reserved.      *)
LEMMA Ending ==
  ASSUME NEW job \in Job, NEW pc \in {"failed", "done"}
  PROVE  /\ JobShape(Ended(job, pc)) /\ Ended(job, pc).op = "none" /\ Ended(job, pc).put = {}
         /\ Ended(job, pc).rid = 0 /\ Ended(job, pc).pc = pc
<1> DEFINE new == Ended(job, pc)
<1>1. /\ new \in Job /\ new.pc = pc /\ new.op = "none" /\ new.put = {} /\ new.rid = 0
      /\ new.cids = {} /\ new.res = IdleJob.res /\ new.download = "none"
  <2>1. IdleJob.download = "none" /\ IdleJob \in Job
    BY Idle DEF IdleJob
  <2>2. job.unread \in SUBSET Cids /\ job.left \in [blocks : SUBSET Cids, download : BOOLEAN]
    BY DEF Job
  <2> QED
    BY <2>1, <2>2, Idle DEF Ended, Job
<1> HIDE DEF new
<1>2. JobShape(new)
  BY <1>1, Idle DEF JobShape, OpOfPlace, Reservations, Putting, NothingReserved, Held
<1> QED
  BY <1>1, <1>2 DEF new
-----------------------------------------------------------------------------
(* What a step of a workflow request does to the ledgers.                   *)

\* It only lets go of what it has put; a root among that is remembered.
Drops(j) ==
    /\ UNCHANGED <<rows, core, billed>>
    /\ jobs'[j].put = {} /\ jobs'[j].pc # "status"
    /\ blame' = IF jobs[j].cid \in jobs[j].put
                THEN Blame(JobKey(j, jobs[j].cid), "abandoned") ELSE blame

\* It pins a block in the portal.
Puts(j, c) ==
    /\ rows' = rows
    /\ core' = core \union {JobKey(j, c)}
    /\ billed' = [billed EXCEPT ![JobKey(j, c)] = @ + 1]
    /\ blame' = [blame EXCEPT ![JobKey(j, c)] =
                    @ \union (IF c = jobs[j].cid THEN {} ELSE {"child"})
                      \union (IF Deciding(JobKey(j, c)) THEN {"overlap"} ELSE {})]
    /\ jobs[j].user \in Users /\ jobs'[j].user = jobs[j].user /\ jobs'[j].cid = jobs[j].cid
    /\ jobs'[j].pc # "status"
    /\ jobs'[j].cid \in jobs'[j].put <=> jobs[j].cid \in jobs[j].put \union {c}

\* It goes on to mark its record pinned without having pinned anything.
Skips(j) ==
    /\ UNCHANGED <<rows, core, billed>>
    /\ jobs[j].op = "confirm" /\ jobs[j].put = {} /\ jobs'[j].put = {}
    /\ jobs'[j].pc = "status" /\ jobs'[j].rid = jobs[j].rid
    /\ blame' = Blame(JobKey(j, jobs[j].cid), "empty")

\* It creates the record of a root it has put.
Roots(j) ==
    /\ UNCHANGED <<core, billed, blame>>
    /\ jobs[j].cid \in jobs[j].put /\ jobs'[j].put = {}
    /\ rows' = Append(rows, NewRow(jobs[j].user, jobs[j].cid))
    /\ jobs'[j].pc = "status" /\ jobs'[j].rid \in {jobs[j].rid, Len(rows) + 1}
    /\ jobs'[j].op = jobs[j].op /\ jobs'[j].user = jobs[j].user /\ jobs'[j].cid = jobs[j].cid
    /\ jobs'[j].rid = jobs[j].rid => jobs[j].rid # 0

\* It marks its record pinned.
Pins(j) ==
    /\ UNCHANGED <<core, billed, blame>>
    /\ jobs[j].pc = "status" /\ rows[jobs[j].rid].live
    /\ rows' = [rows EXCEPT ![jobs[j].rid].status = "pinned"]
    /\ jobs[j].put = {} /\ jobs'[j].put = {} /\ jobs'[j].pc # "status"

\* It goes on, starts or ends.
GoesOn(j) ==
    \/ /\ jobs'[j].rid = jobs[j].rid /\ jobs'[j].user = jobs[j].user /\ jobs'[j].cid = jobs[j].cid
       /\ jobs[j].op # "none"
       /\ jobs'[j].op \in {"retrieve", "confirm"} => jobs[j].op \in {"retrieve", "confirm"}
       /\ jobs'[j].pc = "status" => jobs[j].op = "confirm"
    \/ jobs'[j].op \in {"none", "upload"} /\ jobs'[j].rid = 0 /\ jobs'[j].pc # "status"

JobMoves(j) ==
    /\ JobShape(jobs'[j]) /\ jobs' \in [Jobs -> Job]
    /\ \A i \in Jobs \ {j} : jobs'[i] = jobs[i]
    /\ UNCHANGED calls
    /\ \/ Roots(j)
       \/ GoesOn(j) /\ (Drops(j) \/ (\E c \in Cids : Puts(j, c)) \/ Skips(j) \/ Pins(j))

(* A request that is set to a record is that record, and no other request   *)
(* is touched.                                                              *)
LEMMA SetJob ==
  ASSUME Inv, NEW j \in Jobs, NEW new, JobShape(new), Set(j, new)
  PROVE  /\ jobs'[j] = new /\ JobShape(jobs'[j]) /\ jobs' \in [Jobs -> Job]
         /\ \A i \in Jobs \ {j} : jobs'[i] = jobs[i]
  BY DEF Set, Inv, JobShape

(* Every error return of an operation releases what it held, or belongs to  *)
(* Retrieve's failing fetch.                                                *)
LEMMA FailMoves ==
  ASSUME Inv, NEW j \in Jobs, NEW job \in Job, jobs[j].op # "none",
         job.op = jobs[j].op, job.user = jobs[j].user, job.cid = jobs[j].cid, job.rid = jobs[j].rid,
         job.put = jobs[j].put, job.cids # {} => job.cid \in job.cids,
         job.broke \/ NothingReserved(job),
         Fail(j, job), UNCHANGED <<rows, core, billed, calls>>
  PROVE  JobMoves(j)
<1> DEFINE new == [job EXCEPT !.pc = "error", !.todo = {}, !.put = {}]
<1>1. jobs[j] \in Job /\ OpOfPlace(jobs[j])
  BY DEF Inv, JobShape
<1>2. job.op \in {"retrieve", "confirm", "upload"} /\ job.user \in Users
  BY <1>1 DEF OpOfPlace, Job
<1>3. JobShape(new)
  BY <1>2, Failed
<1>4. /\ new.pc = "error" /\ new.put = {} /\ new.op = job.op /\ new.user = job.user
      /\ new.cid = job.cid /\ new.rid = job.rid
  BY DEF Job
<1>5. /\ Set(j, new)
      /\ blame' = IF job.cid \in job.put THEN Blame(JobKey(j, job.cid), "abandoned") ELSE blame
  BY DEF Fail
<1> HIDE DEF new
<1>6. /\ jobs'[j] = new /\ JobShape(jobs'[j]) /\ jobs' \in [Jobs -> Job]
      /\ \A i \in Jobs \ {j} : jobs'[i] = jobs[i]
  BY <1>3, <1>5, SetJob
<1>7. GoesOn(j) /\ Drops(j)
  BY <1>2, <1>4, <1>5, <1>6 DEF GoesOn, Drops
<1> QED
  BY <1>6, <1>7 DEF JobMoves

(* A step that puts nothing and had put nothing.                            *)
LEMMA PlainMoves ==
  ASSUME Inv, NEW j \in Jobs, NEW new, JobShape(new), Set(j, new), jobs[j].put = {}, new.put = {},
         new.pc # "status",
         \/ /\ new.rid = jobs[j].rid /\ new.user = jobs[j].user /\ new.cid = jobs[j].cid
            /\ jobs[j].op # "none"
            /\ new.op \in {"retrieve", "confirm"} => jobs[j].op \in {"retrieve", "confirm"}
         \/ new.op \in {"none", "upload"} /\ new.rid = 0,
         UNCHANGED <<rows, core, billed, calls, blame>>
  PROVE  JobMoves(j)
<1>1. /\ jobs'[j] = new /\ JobShape(jobs'[j]) /\ jobs' \in [Jobs -> Job]
      /\ \A i \in Jobs \ {j} : jobs'[i] = jobs[i]
  BY SetJob
<1>2. GoesOn(j) /\ Drops(j)
  BY <1>1 DEF GoesOn, Drops
<1> QED
  BY <1>1, <1>2 DEF JobMoves

(* The engine starts a request, runs a failed one again, or gives it up.    *)
LEMMA EngineMoves ==
  ASSUME Inv, NEW j \in Jobs,
         \/ \E u \in Users, c \in Cids : StartUpload(j, u, c)
         \/ Retry(j) \/ GiveUp(j)
  PROVE  JobMoves(j)
<1>1. jobs[j] \in Job /\ JobShape(jobs[j]) /\ UNCHANGED <<rows, core, billed, calls, blame>>
  BY DEF StartUpload, Retry, GiveUp, Inv, JobShape
<1>2. jobs[j].pc \in {"free", "error"} /\ jobs[j].put = {}
  BY <1>1 DEF StartUpload, Retry, GiveUp, JobShape, Putting
<1>3. ASSUME NEW u \in Users, NEW c \in Cids, StartUpload(j, u, c) PROVE JobMoves(j)
  <2> DEFINE new == [IdleJob EXCEPT !.pc = "begin", !.op = "upload", !.user = u, !.cid = c]
  <2>1. /\ new \in Job /\ new.pc = "begin" /\ new.op = "upload" /\ new.user = u /\ new.put = {}
        /\ new.rid = 0 /\ new.cids = {} /\ new.res = IdleJob.res /\ new.download = "none"
    BY Idle DEF Job, IdleJob
  <2>2. Set(j, new)
    BY <1>3 DEF StartUpload
  <2> HIDE DEF new
  <2>3. JobShape(new)
    BY <2>1, Idle DEF JobShape, OpOfPlace, Reservations, Putting, NothingReserved, Held
  <2> QED
    BY <1>1, <1>2, <2>1, <2>2, <2>3, PlainMoves
<1>4. CASE Retry(j)
  <2> DEFINE new == [jobs[j] EXCEPT !.pc = "begin", !.attempt = @ + 1, !.got = {}, !.broke = FALSE,
                                    !.res = IdleJob.res, !.download = "none"]
  <2>1. jobs[j].attempt + 1 \in 1 .. MaxAttempts
    BY <1>1, <1>4, WorkflowAssumption DEF Retry, Job
  <2>2. /\ new \in Job /\ new.pc = "begin" /\ new.op = jobs[j].op /\ new.user = jobs[j].user
        /\ new.cid = jobs[j].cid /\ new.put = jobs[j].put
        /\ new.rid = jobs[j].rid /\ new.cids = jobs[j].cids
        /\ new.res = IdleJob.res /\ new.download = "none"
    <3>1. PICK res : res = IdleJob.res /\ res \in [Cids -> {"none", "upload", "both", "settled"}]
      BY Idle
    <3> QED
      BY <1>1, <2>1, <3>1 DEF Job
  <2>3. Set(j, new) /\ jobs[j].pc = "error"
    BY <1>4 DEF Retry
  <2> HIDE DEF new
  <2>4. JobShape(new) /\ jobs[j].op # "none"
    BY <1>1, <1>2, <2>2, <2>3, Idle DEF JobShape, OpOfPlace, Reservations, Putting, NothingReserved, Held
  <2> QED
    BY <1>1, <1>2, <2>2, <2>3, <2>4, PlainMoves
<1>5. CASE GiveUp(j)
  <2> DEFINE new == Ended(jobs[j], "failed")
  <2>1. JobShape(new) /\ new.op = "none" /\ new.put = {} /\ new.rid = 0 /\ new.pc = "failed"
    BY <1>1, Ending
  <2>2. Set(j, new)
    BY <1>5 DEF GiveUp
  <2> HIDE DEF new
  <2> QED
    BY <1>1, <1>2, <2>1, <2>2, PlainMoves
<1> QED
  BY <1>3, <1>4, <1>5

(* Retrieve that has succeeded goes on as Confirm, which reserves nothing   *)
(* of its own.                                                              *)
LEMMA Confirms ==
  ASSUME NEW job \in Job, job.op = "retrieve", job.user \in Users,
         job.cids # {} => job.cid \in job.cids
  PROVE  /\ JobShape(ToConfirm(job))
         /\ ToConfirm(job).pc = "begin" /\ ToConfirm(job).op = "confirm" /\ ToConfirm(job).put = {}
         /\ ToConfirm(job).rid = job.rid /\ ToConfirm(job).user = job.user /\ ToConfirm(job).cid = job.cid
<1> DEFINE new == ToConfirm(job)
<1>1. /\ new \in Job /\ new.pc = "begin" /\ new.op = "confirm" /\ new.put = {} /\ new.rid = job.rid
      /\ new.user = job.user /\ new.cid = job.cid /\ new.cids = job.cids /\ new.res = IdleJob.res
      /\ new.download = "none"
  <2>1. 1 \in 1 .. MaxAttempts
    BY WorkflowAssumption
  <2>2. IdleJob.res \in [Cids -> {"none", "upload", "both", "settled"}]
    BY Idle
  <2> QED
    BY <2>1, <2>2 DEF ToConfirm, Job
<1> HIDE DEF new
<1>2. JobShape(new)
  BY <1>1, Idle DEF JobShape, OpOfPlace, Reservations, Putting, NothingReserved, Held
<1> QED
  BY <1>1, <1>2 DEF new

(* The walk or the upload has found the blocks; reservations come next.     *)
LEMMA CollectMoves ==
  ASSUME Inv, NEW j \in Jobs, Collect(j) \/ ProcessBlocks(j) \/ BeginFails(j)
  PROVE  JobMoves(j)
<1>1. /\ jobs[j] \in Job /\ JobShape(jobs[j]) /\ jobs[j].pc = "begin" /\ jobs[j].op # "none"
      /\ UNCHANGED <<rows, core, billed, calls>>
  BY DEF Collect, ProcessBlocks, BeginFails, At, Inv, JobShape
<1>2. /\ jobs[j].put = {} /\ NothingReserved(jobs[j]) /\ (jobs[j].cids # {} => jobs[j].cid \in jobs[j].cids)
      /\ jobs[j].user \in Users
  BY <1>1 DEF JobShape, Putting, Reservations, OpOfPlace
<1>3. jobs[j].cid \in Cids /\ Children[jobs[j].cid] \subseteq Cids /\ jobs[j].cid \notin Children[jobs[j].cid]
  <2>1. jobs[j].cid \in Cids
    BY <1>1 DEF Job
  <2> QED
    BY <2>1, WorkflowAssumption
<1>4. CASE Collect(j)
  <2>1. jobs[j].op = "retrieve" /\ blame' = blame
    BY <1>4 DEF Collect, At
  <2>2. PICK got \in SUBSET Children[jobs[j].cid] : \E sized \in SUBSET got :
           Set(j, IF got = {} THEN ToConfirm([jobs[j] EXCEPT !.download = "held"])
                  ELSE [jobs[j] EXCEPT !.pc = "reserve", !.got = got, !.todo = sized, !.download = "held"])
    BY <1>4 DEF Collect
  <2>3. PICK sized \in SUBSET got :
           Set(j, IF got = {} THEN ToConfirm([jobs[j] EXCEPT !.download = "held"])
                  ELSE [jobs[j] EXCEPT !.pc = "reserve", !.got = got, !.todo = sized, !.download = "held"])
    BY <2>2
  <2>4. CASE got = {}
    <3> DEFINE job == [jobs[j] EXCEPT !.download = "held"]
    <3>1. /\ job \in Job /\ job.op = "retrieve" /\ job.user = jobs[j].user /\ job.rid = jobs[j].rid
          /\ job.cid = jobs[j].cid /\ job.cids = jobs[j].cids
      BY <1>1, <2>1 DEF Job
    <3>2. Set(j, ToConfirm(job))
      BY <2>3, <2>4
    <3> HIDE DEF job
    <3>3. /\ JobShape(ToConfirm(job)) /\ ToConfirm(job).pc = "begin" /\ ToConfirm(job).op = "confirm"
          /\ ToConfirm(job).put = {} /\ ToConfirm(job).rid = jobs[j].rid
          /\ ToConfirm(job).user = jobs[j].user /\ ToConfirm(job).cid = jobs[j].cid
      BY <1>2, <3>1, Confirms
    <3> QED
      BY <1>1, <1>2, <2>1, <3>2, <3>3, PlainMoves
  <2>5. CASE got # {}
    <3> DEFINE new == [jobs[j] EXCEPT !.pc = "reserve", !.got = got, !.todo = sized, !.download = "held"]
    <3>1. /\ new \in Job /\ new.pc = "reserve" /\ new.op = jobs[j].op /\ new.user = jobs[j].user
          /\ new.cid = jobs[j].cid /\ new.rid = jobs[j].rid /\ new.cids = jobs[j].cids /\ new.put = jobs[j].put
          /\ new.res = jobs[j].res /\ new.got = got
      BY <1>1, <1>3 DEF Job
    <3>2. Set(j, new)
      BY <2>3, <2>5
    <3> HIDE DEF new
    <3>3. OpOfPlace(new) /\ Putting(new)
      BY <1>1, <1>2, <1>3, <2>1, <3>1 DEF OpOfPlace, Putting
    <3>4. Reservations(new)
      BY <1>2, <2>1, <3>1 DEF Reservations, NothingReserved
    <3> QED
      BY <1>1, <1>2, <2>1, <3>1, <3>2, <3>3, <3>4, PlainMoves DEF JobShape
  <2> QED
    BY <2>4, <2>5
<1>5. CASE ProcessBlocks(j)
  <2>1. jobs[j].op = "upload" /\ blame' = blame
    BY <1>5 DEF ProcessBlocks, At
  <2>2. PICK sized \in SUBSET Blocks(jobs[j].cid) :
           Set(j, [jobs[j] EXCEPT !.pc = "reserve", !.got = Blocks(jobs[j].cid), !.todo = sized])
    BY <1>5 DEF ProcessBlocks
  <2> DEFINE new == [jobs[j] EXCEPT !.pc = "reserve", !.got = Blocks(jobs[j].cid), !.todo = sized]
  <2>3. Blocks(jobs[j].cid) \subseteq Cids /\ jobs[j].cid \in Blocks(jobs[j].cid)
    BY <1>3 DEF Blocks
  <2>4. /\ new \in Job /\ new.pc = "reserve" /\ new.op = jobs[j].op /\ new.user = jobs[j].user
        /\ new.cid = jobs[j].cid /\ new.rid = jobs[j].rid /\ new.cids = jobs[j].cids /\ new.put = jobs[j].put
        /\ new.res = jobs[j].res /\ new.got = Blocks(jobs[j].cid) /\ new.todo = sized
        /\ new.download = jobs[j].download
    BY <1>1, <2>3 DEF Job
  <2>5. Set(j, new)
    BY <2>2
  <2> HIDE DEF new
  <2>6. OpOfPlace(new) /\ Putting(new)
    BY <1>1, <1>2, <2>1, <2>3, <2>4 DEF OpOfPlace, Putting
  <2>7. Reservations(new)
    BY <1>2, <2>1, <2>4 DEF Reservations, NothingReserved
  <2> QED
    BY <1>1, <1>2, <2>1, <2>4, <2>5, <2>6, <2>7, PlainMoves DEF JobShape
<1>6. CASE BeginFails(j)
  BY <1>1, <1>2, <1>6, FailMoves DEF BeginFails
<1> QED
  BY <1>4, <1>5, <1>6

(* Reservations are made for all blocks, or released again.                 *)
LEMMA ReserveMoves ==
  ASSUME Inv, NEW j \in Jobs, ReserveFails(j) \/ CreatePerBlockReservations(j)
  PROVE  JobMoves(j)
<1>1. /\ jobs[j] \in Job /\ JobShape(jobs[j]) /\ jobs[j].pc = "reserve" /\ jobs[j].op \in {"retrieve", "upload"}
      /\ UNCHANGED <<rows, core, billed, calls>>
  BY DEF ReserveFails, CreatePerBlockReservations, Inv, JobShape, OpOfPlace
<1>2. /\ jobs[j].put = {} /\ (jobs[j].cids # {} => jobs[j].cid \in jobs[j].cids) /\ jobs[j].user \in Users
      /\ jobs[j].op = "upload" => jobs[j].cid \in jobs[j].got /\ jobs[j].todo \subseteq jobs[j].got
                                  /\ jobs[j].download # "held"
      /\ jobs[j].op = "retrieve" => jobs[j].cid \notin jobs[j].got
      /\ \A c \in Cids : jobs[j].res[c] \notin Held
  BY <1>1 DEF JobShape, Putting, Reservations, OpOfPlace
<1>3. ASSUME NEW pairs, NEW half, NEW job, job = Reserved(jobs[j], pairs, half)
      PROVE  /\ job \in Job
             /\ job.pc = jobs[j].pc /\ job.op = jobs[j].op /\ job.user = jobs[j].user /\ job.cid = jobs[j].cid
             /\ job.rid = jobs[j].rid /\ job.cids = jobs[j].cids /\ job.put = jobs[j].put
             /\ job.got = jobs[j].got /\ job.todo = jobs[j].todo /\ job.download = jobs[j].download
             /\ \A c \in Cids : job.res[c] = IF c \in pairs THEN "both"
                                             ELSE IF c \in half THEN "upload" ELSE jobs[j].res[c]
  BY <1>1, <1>3 DEF Reserved, Job
<1>4. CASE ReserveFails(j)
  <2>1. PICK pairs, half : Fail(j, ReleaseAll(Reserved(jobs[j], pairs, half)))
    BY <1>4 DEF ReserveFails
  <2>2. PICK job : job = Reserved(jobs[j], pairs, half)
    OBVIOUS
  <2>3. PICK released : released = ReleaseAll(job)
    OBVIOUS
  <2>4. /\ released \in Job /\ NothingReserved(released)
        /\ released.op = job.op /\ released.user = job.user /\ released.cid = job.cid
        /\ released.rid = job.rid /\ released.cids = job.cids /\ released.put = job.put
    BY <1>3, <2>2, <2>3, Released
  <2> QED
    <3>1. /\ job.op = jobs[j].op /\ job.user = jobs[j].user /\ job.cid = jobs[j].cid
          /\ job.rid = jobs[j].rid /\ job.cids = jobs[j].cids /\ job.put = jobs[j].put
      BY <1>3, <2>2
    <3>2. Fail(j, released) /\ jobs[j].op # "none"
      BY <1>1, <2>1, <2>2, <2>3
    <3> QED
      BY <1>1, <1>2, <2>4, <3>1, <3>2, FailMoves
<1>5. CASE CreatePerBlockReservations(j)
  <2>1. PICK job : job = Reserved(jobs[j], jobs[j].todo, {})
    OBVIOUS
  <2>2. blame' = blame /\ Set(j, IF job.op = "retrieve" THEN [job EXCEPT !.pc = "fetch", !.todo = {}]
                                 ELSE [job EXCEPT !.pc = "process", !.todo = job.got])
    BY <1>5, <2>1 DEF CreatePerBlockReservations
  <2>3. /\ job \in Job
        /\ job.pc = jobs[j].pc /\ job.op = jobs[j].op /\ job.user = jobs[j].user /\ job.cid = jobs[j].cid
        /\ job.rid = jobs[j].rid /\ job.cids = jobs[j].cids /\ job.put = jobs[j].put
        /\ job.got = jobs[j].got /\ job.todo = jobs[j].todo /\ job.download = jobs[j].download
        /\ \A c \in Cids : job.res[c] = IF c \in jobs[j].todo THEN "both" ELSE jobs[j].res[c]
    BY <1>3, <2>1
  <2>4. CASE job.op = "retrieve"
    <3> DEFINE new == [job EXCEPT !.pc = "fetch", !.todo = {}]
    <3>1. /\ new \in Job /\ new.pc = "fetch" /\ new.op = "retrieve" /\ new.user = job.user /\ new.cid = job.cid
          /\ new.rid = job.rid /\ new.cids = job.cids /\ new.put = job.put /\ new.got = job.got
      BY <2>3, <2>4 DEF Job
    <3>2. Set(j, new)
      BY <2>2, <2>4
    <3> HIDE DEF new
    <3>3. JobShape(new)
      BY <1>2, <2>3, <2>4, <3>1 DEF JobShape, OpOfPlace, Putting, Reservations
    <3>4. /\ new.put = {} /\ new.pc # "status" /\ new.rid = jobs[j].rid /\ new.user = jobs[j].user
          /\ new.cid = jobs[j].cid /\ jobs[j].op # "none" /\ jobs[j].op = "retrieve"
      BY <1>1, <1>2, <2>3, <2>4, <3>1
    <3> QED
      BY <1>1, <1>2, <2>2, <3>2, <3>3, <3>4, PlainMoves
  <2>5. CASE job.op # "retrieve"
    <3> DEFINE new == [job EXCEPT !.pc = "process", !.todo = job.got]
    <3>1. /\ new \in Job /\ new.pc = "process" /\ new.op = "upload" /\ new.user = job.user /\ new.cid = job.cid
          /\ new.rid = job.rid /\ new.cids = job.cids /\ new.put = job.put /\ new.todo = job.got
          /\ new.res = job.res /\ new.download = job.download
      BY <1>1, <2>3, <2>5 DEF Job
    <3>2. Set(j, new)
      BY <2>2, <2>5
    <3> HIDE DEF new
    <3>3. OpOfPlace(new) /\ Putting(new)
      BY <1>1, <1>2, <2>3, <2>5, <3>1 DEF OpOfPlace, Putting
    <3>4. Reservations(new)
      BY <1>1, <1>2, <2>3, <2>5, <3>1 DEF Reservations, Held
    <3> QED
      BY <1>1, <1>2, <2>2, <2>3, <3>1, <3>2, <3>3, <3>4, PlainMoves DEF JobShape
  <2> QED
    BY <2>4, <2>5
<1> QED
  BY <1>4, <1>5

(* The fetch: the workflow data gets the CIDs, the root among them; the     *)
(* children that can be processed are not the root.                         *)
LEMMA FetchMoves ==
  ASSUME Inv, NEW j \in Jobs, Fetch(j) \/ FetchFails(j) \/ DataFails(j)
  PROVE  JobMoves(j)
<1>1. /\ jobs[j] \in Job /\ JobShape(jobs[j]) /\ jobs[j].pc = "fetch" /\ jobs[j].op = "retrieve"
      /\ UNCHANGED <<rows, core, billed, calls>>
  BY DEF Fetch, FetchFails, DataFails, Inv, JobShape, OpOfPlace
<1>2. /\ jobs[j].put = {} /\ (jobs[j].cids # {} => jobs[j].cid \in jobs[j].cids) /\ jobs[j].user \in Users
      /\ jobs[j].cid \notin jobs[j].got
  BY <1>1 DEF JobShape, Putting, OpOfPlace
<1>3. ASSUME NEW job \in Job, job.op = jobs[j].op, job.user = jobs[j].user, job.cid = jobs[j].cid,
             job.rid = jobs[j].rid, job.put = jobs[j].put, job.cids # {} => job.cid \in job.cids,
             Fail(j, ReleaseAll(job))
      PROVE  JobMoves(j)
  <2>1. PICK released : released = ReleaseAll(job)
    OBVIOUS
  <2>2. /\ released \in Job /\ NothingReserved(released)
        /\ released.op = job.op /\ released.user = job.user /\ released.cid = job.cid
        /\ released.rid = job.rid /\ released.cids = job.cids /\ released.put = job.put
    BY <2>1, Released
  <2> QED
    BY <1>1, <1>3, <2>1, <2>2, FailMoves
<1>4. CASE FetchFails(j)
  <2> DEFINE job == [cleanupDownloadReservation(jobs[j]) EXCEPT !.broke = TRUE]
  <2>1. /\ job \in Job /\ job.op = jobs[j].op /\ job.user = jobs[j].user /\ job.cid = jobs[j].cid
        /\ job.rid = jobs[j].rid /\ job.put = jobs[j].put /\ job.cids = jobs[j].cids /\ job.broke
    BY <1>1 DEF cleanupDownloadReservation, Job
  <2>2. Fail(j, job)
    BY <1>4 DEF FetchFails
  <2> HIDE DEF job
  <2> QED
    BY <1>1, <1>2, <2>1, <2>2, FailMoves
<1>5. CASE DataFails(j)
  BY <1>1, <1>2, <1>3, <1>5 DEF DataFails
<1>6. CASE Fetch(j)
  <2> DEFINE job == [jobs[j] EXCEPT !.cids = {jobs[j].cid} \union jobs[j].got]
  <2>1. /\ job \in Job /\ job.op = jobs[j].op /\ job.user = jobs[j].user /\ job.cid = jobs[j].cid
        /\ job.rid = jobs[j].rid /\ job.put = jobs[j].put /\ job.cid \in job.cids
    BY <1>1 DEF Job
  <2> DEFINE reserved == {c \in jobs[j].got : jobs[j].res[c] = "both"}
  <2>2. PICK valid \in SUBSET reserved :
           IF valid = {} THEN Fail(j, ReleaseAll(job))
           ELSE /\ Set(j, [job EXCEPT !.pc = "process", !.todo = valid, !.unread = reserved \ valid])
                /\ UNCHANGED blame
    BY <1>6 DEF Fetch
  <2> HIDE DEF job
  <2>3. CASE valid = {}
    BY <1>3, <2>1, <2>2, <2>3
  <2>4. CASE valid # {}
    <3> DEFINE new == [job EXCEPT !.pc = "process", !.todo = valid, !.unread = reserved \ valid]
    <3>1. valid \subseteq Cids /\ valid \subseteq jobs[j].got /\ reserved \ valid \subseteq Cids
      BY <1>1 DEF Job
    <3>2. /\ new \in Job /\ new.pc = "process" /\ new.op = job.op /\ new.user = job.user /\ new.cid = job.cid
          /\ new.rid = job.rid /\ new.cids = job.cids /\ new.put = job.put /\ new.todo = valid
      BY <2>1, <3>1 DEF Job
    <3>3. Set(j, new) /\ blame' = blame
      BY <2>2, <2>4
    <3> HIDE DEF new
    <3>4. JobShape(new)
      BY <1>1, <1>2, <2>1, <3>1, <3>2 DEF JobShape, OpOfPlace, Putting, Reservations
    <3> QED
      BY <1>1, <1>2, <2>1, <3>2, <3>3, <3>4, PlainMoves
  <2> QED
    BY <2>3, <2>4
<1> QED
  BY <1>4, <1>5, <1>6

(* One CID is pinned in the portal, and its reservations are settled.  When *)
(* it was the last one the operation goes on to the root's record, Retrieve *)
(* to Confirm.                                                              *)
LEMMA ProcessMoves ==
  ASSUME Inv, NEW j \in Jobs, NEW c \in Cids, ProcessUpload(j, c)
  PROVE  JobMoves(j)
<1>1. /\ jobs[j] \in Job /\ JobShape(jobs[j]) /\ jobs[j].pc = "process" /\ c \in jobs[j].todo
      /\ jobs[j].op \in {"retrieve", "confirm", "upload"} /\ jobs[j].user \in Users
      /\ UNCHANGED <<rows, calls>>
  BY DEF ProcessUpload, Inv, JobShape, OpOfPlace
<1> DEFINE job == [jobs[j] EXCEPT !.todo = @ \ {c}, !.put = @ \union {c},
                                  !.res[c] = IF @ = "both" THEN "settled" ELSE @]
<1>2. /\ job \in Job /\ job.pc = "process" /\ job.op = jobs[j].op /\ job.user = jobs[j].user
      /\ job.cid = jobs[j].cid /\ job.rid = jobs[j].rid /\ job.cids = jobs[j].cids
      /\ job.todo = jobs[j].todo \ {c} /\ job.put = jobs[j].put \union {c}
      /\ job.download = jobs[j].download
      /\ job.res = [jobs[j].res EXCEPT ![c] = IF @ = "both" THEN "settled" ELSE @]
  BY <1>1 DEF Job
<1>3. /\ core' = core \union {JobKey(j, c)}
      /\ billed' = [billed EXCEPT ![JobKey(j, c)] = @ + 1]
      /\ blame' = [blame EXCEPT ![JobKey(j, c)] =
                      @ \union (IF c = jobs[j].cid THEN {} ELSE {"child"})
                        \union (IF Deciding(JobKey(j, c)) THEN {"overlap"} ELSE {})]
  BY DEF ProcessUpload
<1>4. Set(j, AfterCid(job))
  BY DEF ProcessUpload
<1> HIDE DEF job
<1>5. job.res \in [Cids -> {"none", "upload", "both", "settled"}]
      /\ \A d \in Cids : job.res[d] = IF d = c /\ jobs[j].res[d] = "both" THEN "settled" ELSE jobs[j].res[d]
  <2>1. jobs[j].res \in [Cids -> {"none", "upload", "both", "settled"}]
    BY <1>1 DEF Job
  <2> QED
    BY <1>2, <2>1
<1>6. JobShape(job)
  <2>1. OpOfPlace(job)
    BY <1>1, <1>2 DEF JobShape, OpOfPlace
  <2>2. Reservations(job)
    BY <1>1, <1>2, <1>5 DEF JobShape, Reservations
  <2>3. Putting(job)
    BY <1>1, <1>2 DEF JobShape, Putting
  <2> QED
    BY <1>2, <2>1, <2>2, <2>3 DEF JobShape
<1>7. ASSUME NEW new, JobShape(new), Set(j, new), new.rid = job.rid, new.user = job.user,
             new.cid = job.cid, new.pc # "status", new.op \in {"retrieve", "confirm"} => job.op # "upload",
             \/ new.put = job.put
             \/ new.put = {} /\ job.op = "retrieve"
      PROVE  JobMoves(j)
  <2>1. /\ jobs'[j] = new /\ JobShape(jobs'[j]) /\ jobs' \in [Jobs -> Job]
        /\ \A i \in Jobs \ {j} : jobs'[i] = jobs[i]
    BY <1>7, SetJob
  <2>2. new.cid \in new.put <=> jobs[j].cid \in jobs[j].put \union {c}
    <3>1. job.op = "retrieve" => jobs[j].cid \notin jobs[j].put \union {c}
      BY <1>1, <1>2 DEF JobShape, Putting
    <3> QED
      BY <1>2, <1>7, <3>1
  <2>3. Puts(j, c)
    BY <1>1, <1>2, <1>3, <1>7, <2>1, <2>2 DEF Puts
  <2>4. GoesOn(j)
    BY <1>1, <1>2, <1>7, <2>1 DEF GoesOn
  <2> QED
    BY <1>1, <2>1, <2>3, <2>4 DEF JobMoves
<1>8. CASE job.todo # {}
  BY <1>2, <1>4, <1>6, <1>7, <1>8, <1>1 DEF AfterCid
<1>9. CASE job.todo = {} /\ job.op = "retrieve"
  <2>1. Set(j, ToConfirm(job))
    BY <1>4, <1>9 DEF AfterCid
  <2>2. /\ JobShape(ToConfirm(job)) /\ ToConfirm(job).pc = "begin" /\ ToConfirm(job).op = "confirm"
        /\ ToConfirm(job).put = {} /\ ToConfirm(job).rid = job.rid
        /\ ToConfirm(job).user = job.user /\ ToConfirm(job).cid = job.cid
    BY <1>1, <1>2, <1>6, <1>9, Confirms DEF JobShape, Putting
  <2> QED
    BY <1>7, <1>9, <2>1, <2>2
<1>10. CASE job.todo = {} /\ job.op # "retrieve"
  <2> DEFINE new == [job EXCEPT !.pc = "root"]
  <2>1. Set(j, new)
    BY <1>4, <1>10 DEF AfterCid
  <2>2. /\ new \in Job /\ new.pc = "root" /\ new.op = job.op /\ new.user = job.user
        /\ new.cid = job.cid /\ new.rid = job.rid /\ new.cids = job.cids
        /\ new.put = job.put /\ new.todo = {} /\ new.res = job.res /\ new.download = job.download
    BY <1>2, <1>10 DEF Job
  <2> HIDE DEF new
  <2>3. JobShape(new)
    <3>1. OpOfPlace(new)
      BY <1>1, <1>2, <1>10, <2>2 DEF OpOfPlace
    <3>2. Putting(new)
      BY <1>2, <1>6, <1>10, <2>2 DEF JobShape, Putting
    <3>3. Reservations(new)
      <4>1. \A d \in Cids : job.res[d] # "upload" /\ job.res[d] # "both"
        BY <1>2, <1>6, <1>10 DEF JobShape, Reservations
      <4> QED
        BY <1>2, <1>6, <1>10, <2>2, <4>1 DEF JobShape, Reservations, NothingReserved, Held
    <3> QED
      BY <2>2, <3>1, <3>2, <3>3 DEF JobShape
  <2> QED
    BY <1>7, <1>1, <1>2, <1>10, <2>1, <2>2, <2>3
<1> QED
  BY <1>8, <1>9, <1>10

(* From the blocks to the record of the root and its status; Confirm with   *)
(* no CIDs goes there at once.                                              *)
LEMMA FinishMoves ==
  ASSUME Inv, NEW j \in Jobs,
         \/ ProcessFails(j) \/ Check(j) \/ CreateRootPin(j) \/ CreateRootPinFails(j)
         \/ SetPinned(j) \/ SetPinnedFails(j) \/ UpdateWorkflow(j)
  PROVE  JobMoves(j)
<1>1. /\ jobs[j] \in Job /\ JobShape(jobs[j]) /\ OwnRecord(j) /\ rows \in Seq(Row)
      /\ jobs[j].pc \in {"begin", "process", "root", "status", "data"}
      /\ UNCHANGED <<core, billed, calls>>
  BY DEF ProcessFails, Check, At, CreateRootPin, CreateRootPinFails, SetPinned, SetPinnedFails,
         UpdateWorkflow, Inv, JobShape
<1>2. jobs[j].op \in {"retrieve", "confirm", "upload"} /\ jobs[j].user \in Users /\ jobs[j].cid \in Cids
  <2>1. OpOfPlace(jobs[j])
    BY <1>1 DEF JobShape
  <2> QED
    BY <1>1, <2>1 DEF OpOfPlace, Job, Check, At
<1>3. /\ jobs[j].cids # {} => jobs[j].cid \in jobs[j].cids
      /\ jobs[j].pc \in {"begin", "status", "data"} => jobs[j].put = {}
      /\ jobs[j].pc = "root" => jobs[j].cid \in jobs[j].put
  BY <1>1 DEF JobShape, Putting
<1>4. jobs[j].pc # "process" => NothingReserved(jobs[j])
  BY <1>1 DEF JobShape, Reservations
<1>5. ASSUME UNCHANGED rows, NEW released \in {jobs[j], ReleaseAll(jobs[j]), ReleaseBlockReservationsMap(jobs[j])},
             NothingReserved(released), Fail(j, released)
      PROVE  JobMoves(j)
  <2>1. /\ released \in Job /\ released.op = jobs[j].op /\ released.user = jobs[j].user
        /\ released.cid = jobs[j].cid /\ released.rid = jobs[j].rid /\ released.put = jobs[j].put
        /\ released.cids = jobs[j].cids
    BY <1>1, <1>5, Released
  <2> QED
    BY <1>1, <1>2, <1>3, <1>5, <2>1, FailMoves
<1>6. ASSUME UNCHANGED rows, LateFail(j), jobs[j].pc # "process"
      PROVE  JobMoves(j)
  <2>1. NothingReserved(ReleaseBlockReservationsMap(jobs[j])) /\ NothingReserved(jobs[j])
    BY <1>1, <1>4, <1>6, Released DEF NothingReserved
  <2> QED
    BY <1>5, <1>6, <2>1 DEF LateFail
<1>7. CASE ProcessFails(j)
  <2>1. NothingReserved(ReleaseAll(jobs[j]))
    BY <1>1, Released
  <2> QED
    BY <1>5, <1>7, <2>1 DEF ProcessFails
<1>8. CASE Check(j)
  <2>1. /\ jobs[j].op = "confirm" /\ jobs[j].pc = "begin" /\ jobs[j].put = {} /\ NothingReserved(jobs[j])
        /\ jobs[j].rid # 0 /\ UNCHANGED rows
    BY <1>1, <1>3, <1>4, <1>8 DEF Check, At, OwnRecord
  <2>2. CASE jobs[j].cids = {}
    <3> DEFINE new == [jobs[j] EXCEPT !.pc = "status"]
    <3>1. /\ new \in Job /\ new.pc = "status" /\ new.op = "confirm" /\ new.user = jobs[j].user
          /\ new.cid = jobs[j].cid /\ new.rid = jobs[j].rid /\ new.put = {} /\ new.cids = {}
          /\ new.res = jobs[j].res /\ new.download = jobs[j].download
      BY <1>1, <2>1, <2>2 DEF Job
    <3>2. Set(j, new) /\ blame' = Blame(JobKey(j, jobs[j].cid), "empty")
      BY <1>8, <2>2 DEF Check
    <3> HIDE DEF new
    <3>3. JobShape(new)
      BY <1>2, <2>1, <3>1 DEF JobShape, OpOfPlace, Putting, Reservations, NothingReserved
    <3>4. /\ jobs'[j] = new /\ JobShape(jobs'[j]) /\ jobs' \in [Jobs -> Job]
          /\ \A i \in Jobs \ {j} : jobs'[i] = jobs[i]
      BY <3>2, <3>3, SetJob
    <3>5. GoesOn(j) /\ Skips(j)
      BY <1>1, <2>1, <3>1, <3>2, <3>4 DEF GoesOn, Skips
    <3> QED
      BY <1>1, <3>4, <3>5 DEF JobMoves
  <2>3. CASE jobs[j].cids # {}
    <3> DEFINE new == [jobs[j] EXCEPT !.pc = "process", !.todo = jobs[j].cids]
    <3>1. /\ new \in Job /\ new.pc = "process" /\ new.op = "confirm" /\ new.user = jobs[j].user
          /\ new.cid = jobs[j].cid /\ new.rid = jobs[j].rid /\ new.put = {} /\ new.cids = jobs[j].cids
          /\ new.todo = jobs[j].cids
          /\ new.res = jobs[j].res /\ new.download = jobs[j].download
      BY <1>1, <2>1 DEF Job
    <3>2. Set(j, new) /\ blame' = blame
      BY <1>8, <2>3 DEF Check
    <3> HIDE DEF new
    <3>3. OpOfPlace(new) /\ Putting(new) /\ Reservations(new)
      BY <1>2, <1>3, <2>1, <2>3, <3>1 DEF OpOfPlace, Putting, Reservations, NothingReserved, Held
    <3> QED
      BY <1>1, <2>1, <3>1, <3>2, <3>3, PlainMoves DEF JobShape
  <2> QED
    BY <2>2, <2>3
<1>9. CASE CreateRootPin(j)
  <2>1. /\ jobs[j].pc = "root" /\ jobs[j].cid \in jobs[j].put /\ NothingReserved(jobs[j])
        /\ jobs[j].op \in {"confirm", "upload"}
        /\ rows' = Append(rows, NewRow(jobs[j].user, jobs[j].cid)) /\ blame' = blame
    BY <1>1, <1>3, <1>4, <1>9 DEF CreateRootPin, AddPin, JobShape, OpOfPlace
  <2>2. PICK rid : rid = IF jobs[j].op = "confirm" THEN jobs[j].rid ELSE Len(rows) + 1
    OBVIOUS
  <2>3. Len(rows) \in Nat /\ rid \in Nat /\ rid # 0 /\ rid \in {jobs[j].rid, Len(rows) + 1}
        /\ (rid = jobs[j].rid => jobs[j].rid # 0)
    BY <1>1, <2>2 DEF OwnRecord
  <2> DEFINE new == [jobs[j] EXCEPT !.pc = "status", !.put = {}, !.rid = rid]
  <2>4. /\ new \in Job /\ new.pc = "status" /\ new.op = jobs[j].op /\ new.user = jobs[j].user
        /\ new.cid = jobs[j].cid /\ new.rid = rid /\ new.put = {} /\ new.cids = jobs[j].cids
        /\ new.res = jobs[j].res /\ new.download = jobs[j].download
    BY <1>1, <2>3 DEF Job
  <2>5. Set(j, new)
    BY <1>9, <2>2 DEF CreateRootPin
  <2> HIDE DEF new
  <2>6. OpOfPlace(new) /\ Putting(new) /\ Reservations(new)
    BY <1>2, <1>3, <2>1, <2>4 DEF OpOfPlace, Putting, Reservations, NothingReserved
  <2>7. /\ jobs'[j] = new /\ JobShape(jobs'[j]) /\ jobs' \in [Jobs -> Job]
        /\ \A i \in Jobs \ {j} : jobs'[i] = jobs[i]
    BY <2>4, <2>5, <2>6, SetJob DEF JobShape
  <2>8. Roots(j)
    BY <1>1, <2>1, <2>3, <2>4, <2>7 DEF Roots
  <2> QED
    BY <1>1, <2>7, <2>8 DEF JobMoves
<1>10. CASE CreateRootPinFails(j)
  BY <1>6, <1>10 DEF CreateRootPinFails
<1>11. CASE SetPinned(j)
  <2>1. /\ jobs[j].pc = "status" /\ jobs[j].put = {} /\ NothingReserved(jobs[j])
        /\ rows[jobs[j].rid].live /\ rows' = [rows EXCEPT ![jobs[j].rid].status = "pinned"]
        /\ jobs[j].op \in {"confirm", "upload"} /\ blame' = blame
    BY <1>1, <1>3, <1>4, <1>11 DEF SetPinned, UpdatePinStatus, JobShape, OpOfPlace
  <2>2. ASSUME NEW new, JobShape(new), Set(j, new), new.put = {}, new.pc # "status",
               \/ new.op = "none" /\ new.rid = 0
               \/ new.op = "upload" /\ new.rid = jobs[j].rid /\ new.user = jobs[j].user /\ new.cid = jobs[j].cid
        PROVE  JobMoves(j)
    <3>1. /\ jobs'[j] = new /\ JobShape(jobs'[j]) /\ jobs' \in [Jobs -> Job]
          /\ \A i \in Jobs \ {j} : jobs'[i] = jobs[i]
      BY <2>2, SetJob
    <3>2. GoesOn(j) /\ Pins(j)
      BY <1>1, <2>1, <2>2, <3>1 DEF GoesOn, Pins
    <3> QED
      BY <1>1, <3>1, <3>2 DEF JobMoves
  <2>3. CASE jobs[j].op = "confirm"
    <3> DEFINE new == Ended(jobs[j], "done")
    <3>1. JobShape(new) /\ new.op = "none" /\ new.put = {} /\ new.rid = 0 /\ new.pc = "done"
      BY <1>1, Ending
    <3>2. Set(j, new)
      BY <1>11, <2>3 DEF SetPinned
    <3> HIDE DEF new
    <3> QED
      BY <2>2, <3>1, <3>2
  <2>4. CASE jobs[j].op = "upload"
    <3> DEFINE new == [jobs[j] EXCEPT !.pc = "data"]
    <3>1. /\ new \in Job /\ new.pc = "data" /\ new.op = "upload" /\ new.user = jobs[j].user
          /\ new.cid = jobs[j].cid /\ new.rid = jobs[j].rid /\ new.put = {} /\ new.cids = jobs[j].cids
          /\ new.res = jobs[j].res /\ new.download = jobs[j].download
      BY <1>1, <2>1, <2>4 DEF Job
    <3>2. Set(j, new)
      BY <1>11, <2>4 DEF SetPinned
    <3> HIDE DEF new
    <3>3. OpOfPlace(new) /\ Putting(new) /\ Reservations(new)
      BY <1>2, <1>3, <2>1, <3>1 DEF OpOfPlace, Putting, Reservations, NothingReserved
    <3> QED
      BY <2>2, <3>1, <3>2, <3>3 DEF JobShape
  <2> QED
    BY <2>1, <2>3, <2>4
<1>12. CASE SetPinnedFails(j)
  <2>1. /\ jobs[j].pc = "status" /\ jobs[j].put = {} /\ NothingReserved(jobs[j]) /\ UNCHANGED rows
        /\ jobs[j].op \in {"confirm", "upload"}
    BY <1>1, <1>3, <1>4, <1>12 DEF SetPinnedFails, JobShape, OpOfPlace
  <2>2. CASE jobs[j].op = "confirm"
    BY <1>5, <1>12, <2>1, <2>2 DEF SetPinnedFails
  <2>3. CASE jobs[j].op = "upload"
    <3> DEFINE new == [jobs[j] EXCEPT !.pc = "data"]
    <3>1. /\ new \in Job /\ new.pc = "data" /\ new.op = "upload" /\ new.user = jobs[j].user
          /\ new.cid = jobs[j].cid /\ new.rid = jobs[j].rid /\ new.put = {} /\ new.cids = jobs[j].cids
          /\ new.res = jobs[j].res /\ new.download = jobs[j].download
      BY <1>1, <2>1, <2>3 DEF Job
    <3>2. Set(j, new) /\ blame' = blame
      BY <1>12, <2>3 DEF SetPinnedFails
    <3> HIDE DEF new
    <3>3. OpOfPlace(new) /\ Putting(new) /\ Reservations(new)
      BY <1>2, <1>3, <2>1, <3>1 DEF OpOfPlace, Putting, Reservations, NothingReserved
    <3> QED
      BY <1>1, <1>2, <2>1, <3>1, <3>2, <3>3, PlainMoves DEF JobShape
  <2> QED
    BY <2>1, <2>2, <2>3
<1>13. CASE UpdateWorkflow(j)
  <2>1. /\ jobs[j].pc = "data" /\ jobs[j].put = {} /\ NothingReserved(jobs[j]) /\ UNCHANGED rows
    BY <1>3, <1>4, <1>13 DEF UpdateWorkflow
  <2>2. CASE LateFail(j)
    BY <1>6, <2>1, <2>2
  <2>3. CASE Set(j, [IdleJob EXCEPT !.pc = "done", !.res = jobs[j].res]) /\ UNCHANGED blame
    <3> DEFINE new == [IdleJob EXCEPT !.pc = "done", !.res = jobs[j].res]
    <3>1. /\ new \in Job /\ new.pc = "done" /\ new.op = "none" /\ new.put = {}
          /\ new.rid = 0 /\ new.cids = {} /\ new.res = jobs[j].res /\ new.download = "none"
      <4>1. IdleJob.download = "none" /\ IdleJob \in Job
        BY Idle DEF IdleJob
      <4>2. jobs[j].res \in [Cids -> {"none", "upload", "both", "settled"}]
        BY <1>1 DEF Job
      <4> QED
        BY <4>1, <4>2, Idle DEF Job
    <3>2. Set(j, new) /\ blame' = blame
      BY <2>3
    <3> HIDE DEF new
    <3>3. OpOfPlace(new) /\ Putting(new) /\ Reservations(new)
      BY <2>1, <3>1 DEF OpOfPlace, Putting, Reservations, NothingReserved
    <3> QED
      BY <1>1, <2>1, <3>1, <3>2, <3>3, PlainMoves DEF JobShape
  <2> QED
    BY <1>13, <2>2, <2>3 DEF UpdateWorkflow
<1> QED
  BY <1>7, <1>8, <1>9, <1>10, <1>11, <1>12, <1>13

(* Every step of a workflow request is one of these moves.                  *)
LEMMA JobStepMoves ==
  ASSUME Inv, NEW j \in Jobs, JobStep(j)
  PROVE  JobMoves(j)
<1>1. CASE \E u \in Users, c \in Cids : StartUpload(j, u, c)
  BY <1>1, EngineMoves
<1>2. CASE Retry(j) \/ GiveUp(j)
  BY <1>2, EngineMoves
<1>3. CASE Collect(j) \/ ProcessBlocks(j) \/ BeginFails(j)
  BY <1>3, CollectMoves
<1>4. CASE ReserveFails(j) \/ CreatePerBlockReservations(j)
  BY <1>4, ReserveMoves
<1>5. CASE Fetch(j) \/ FetchFails(j) \/ DataFails(j)
  BY <1>5, FetchMoves
<1>6. CASE \E c \in Cids : ProcessUpload(j, c)
  BY <1>6, ProcessMoves
<1>7. CASE \/ ProcessFails(j) \/ Check(j) \/ CreateRootPin(j) \/ CreateRootPinFails(j)
           \/ SetPinned(j) \/ SetPinnedFails(j) \/ UpdateWorkflow(j)
  BY <1>7, FinishMoves
<1> QED
  BY <1>1, <1>2, <1>3, <1>4, <1>5, <1>6, <1>7 DEF JobStep
-----------------------------------------------------------------------------
(* The table of records: it grows, and what a record is about never changes.*)
Grows ==
    /\ rows' \in Seq(Row) /\ Len(rows) <= Len(rows')
    /\ \A r \in 1 .. Len(rows) :
          /\ rows'[r].user = rows[r].user /\ rows'[r].cid = rows[r].cid
          /\ rows'[r].live => rows[r].live

(* A new record comes last and is queued (AddPin).                          *)
LEMMA Added ==
  ASSUME rows \in Seq(Row), NEW u \in Users, NEW c \in Cids, rows' = Append(rows, NewRow(u, c))
  PROVE  /\ Grows /\ Len(rows') = Len(rows) + 1
         /\ rows'[Len(rows) + 1] = NewRow(u, c)
         /\ \A r \in 1 .. Len(rows) : rows'[r] = rows[r]
<1>1. NewRow(u, c) \in Row
  BY DEF NewRow, Row
<1> QED
  BY <1>1 DEF Grows

(* A record is soft-deleted, or marked pinned; the others stay.             *)
LEMMA Changed ==
  ASSUME rows \in Seq(Row), NEW i \in 1 .. Len(rows), NEW new \in Seq(Row),
         \/ new = [rows EXCEPT ![i].live = FALSE]
         \/ new = [rows EXCEPT ![i].status = "pinned"]
  PROVE  /\ Len(new) = Len(rows)
         /\ \A r \in (1 .. Len(rows)) \ {i} : new[r] = rows[r]
         /\ new[i].user = rows[i].user /\ new[i].cid = rows[i].cid
         /\ new = [rows EXCEPT ![i].live = FALSE] => ~new[i].live /\ new[i].status = rows[i].status
         /\ new = [rows EXCEPT ![i].status = "pinned"] => new[i].status = "pinned" /\ new[i].live = rows[i].live
<1>1. rows[i] \in Row
  OBVIOUS
<1> QED
  BY <1>1 DEF Row

(* Both changes leave a table of records.                                   *)
LEMMA StillRows ==
  ASSUME rows \in Seq(Row), NEW i \in 1 .. Len(rows)
  PROVE  /\ [rows EXCEPT ![i].live = FALSE] \in Seq(Row)
         /\ [rows EXCEPT ![i].status = "pinned"] \in Seq(Row)
<1>1. rows[i] \in Row
  OBVIOUS
<1>2. [rows[i] EXCEPT !.live = FALSE] \in Row /\ [rows[i] EXCEPT !.status = "pinned"] \in Row
  BY <1>1 DEF Row
<1> QED
  BY <1>2

(* No step of a workflow request deletes a record.                          *)
LEMMA JobRows ==
  ASSUME Inv, NEW j \in Jobs, JobMoves(j)
  PROVE  /\ Grows
         /\ \A r \in 1 .. Len(rows) : rows'[r].live = rows[r].live
<1>1. rows \in Seq(Row) /\ OwnRecord(j) /\ JobShape(jobs[j])
  BY DEF Inv
<1>2. CASE Roots(j)
  <2>1. jobs[j].user \in Users /\ jobs[j].cid \in Cids
    BY <1>1, <1>2 DEF Roots, JobShape, OpOfPlace, Putting, Job
  <2> QED
    BY <1>1, <1>2, <2>1, Added DEF Roots
<1>3. CASE Pins(j)
  <2>1. jobs[j].rid \in 1 .. Len(rows)
    BY <1>1, <1>3 DEF Pins, OwnRecord
  <2>2. rows' \in Seq(Row) /\ rows' = [rows EXCEPT ![jobs[j].rid].status = "pinned"]
    BY <1>1, <1>3, <2>1, StillRows DEF Pins
  <2>3. /\ Len(rows') = Len(rows)
        /\ \A r \in (1 .. Len(rows)) \ {jobs[j].rid} : rows'[r] = rows[r]
        /\ rows'[jobs[j].rid].user = rows[jobs[j].rid].user /\ rows'[jobs[j].rid].cid = rows[jobs[j].rid].cid
        /\ rows'[jobs[j].rid].live = rows[jobs[j].rid].live
    BY <1>1, <2>1, <2>2, Changed
  <2> QED
    BY <1>1, <2>1, <2>2, <2>3 DEF Grows
<1>4. CASE rows' = rows
  BY <1>1, <1>4 DEF Grows
<1> QED
  BY <1>2, <1>3, <1>4 DEF JobMoves, Drops, Puts, Skips

(* The steps of workflow requests keep the invariant.                       *)
LEMMA JobKeepsInv ==
  ASSUME Inv, NEW j \in Jobs, JobMoves(j)
  PROVE  Inv'
<1>1. /\ Grows /\ \A r \in 1 .. Len(rows) : rows'[r].live = rows[r].live
      /\ Len(rows) \in Nat /\ Len(rows') \in Nat
  BY JobRows DEF Grows, Inv
<1>2. /\ JobShape(jobs[j]) /\ OwnRecord(j) /\ JobShape(jobs'[j]) /\ jobs' \in [Jobs -> Job]
      /\ calls' = calls
      /\ \A i \in Jobs \ {j} : jobs'[i] = jobs[i]
  BY DEF Inv, JobMoves
<1>3. core' \subseteq Keys /\ billed' \in [Keys -> Int] /\ blame' \in [Keys -> SUBSET Reasons]
  <2>1. core \subseteq Keys /\ billed \in [Keys -> Int] /\ blame \in [Keys -> SUBSET Reasons]
    BY DEF Inv
  <2>2. CASE Drops(j) \/ Skips(j)
    BY <2>1, <2>2 DEF Drops, Skips, Blame, Reasons
  <2>3. CASE Roots(j) \/ Pins(j)
    BY <2>1, <2>3 DEF Roots, Pins
  <2>4. ASSUME NEW c \in Cids, Puts(j, c)
        PROVE  core' \subseteq Keys /\ billed' \in [Keys -> Int] /\ blame' \in [Keys -> SUBSET Reasons]
    <3>1. JobKey(j, c) \in Keys
      BY <2>4 DEF Puts, JobKey, Keys
    <3> QED
      BY <2>1, <2>4, <3>1 DEF Puts, Reasons
  <2> QED
    BY <2>2, <2>3, <2>4 DEF JobMoves
<1>4. ASSUME NEW a \in Calls PROVE CallShape(calls'[a], rows')
  <2>1. CallShape(calls[a], rows)
    BY DEF Inv
  <2>2. calls'[a] = calls[a]
    BY <1>2
  <2>3. /\ calls[a].rid \in 0 .. Len(rows')
        /\ calls[a].pc \in {"get", "unpin", "commit"} => rows'[calls[a].rid].live = rows[calls[a].rid].live
    BY <1>1, <2>1 DEF CallShape, Grows
  <2> QED
    BY <2>1, <2>2, <2>3 DEF CallShape
<1>5. OneHolder'
  BY <1>2 DEF Inv, OneHolder
<1>6. ASSUME NEW i \in Jobs PROVE JobShape(jobs[i])' /\ OwnRecord(i)'
  <2>1. CASE i # j
    <3>1. jobs'[i] = jobs[i] /\ JobShape(jobs[i]) /\ OwnRecord(i)
      BY <1>2, <2>1 DEF Inv
    <3> QED
      BY <1>1, <3>1 DEF Grows, OwnRecord, JobShape, OpOfPlace, Reservations, Putting
  <2>2. CASE i = j
    <3>1. CASE Roots(j)
      <4>1. jobs[j].user \in Users /\ jobs[j].cid \in Cids /\ rows \in Seq(Row) /\ jobs[j].op # "none"
        BY <1>2, <3>1 DEF Roots, JobShape, OpOfPlace, Putting, Job, Inv
      <4>2. /\ Len(rows') = Len(rows) + 1 /\ rows'[Len(rows) + 1] = NewRow(jobs[j].user, jobs[j].cid)
            /\ \A r \in 1 .. Len(rows) : rows'[r] = rows[r]
        BY <3>1, <4>1, Added DEF Roots
      <4>3. OwnRecord(j)'
        BY <1>1, <1>2, <3>1, <4>1, <4>2 DEF Roots, OwnRecord, NewRow
      <4> QED
        BY <1>2, <2>2, <4>3 DEF JobShape, OpOfPlace, Reservations, Putting
    <3>2. CASE GoesOn(j)
      <4>1. OwnRecord(j)'
        BY <1>1, <1>2, <3>2 DEF GoesOn, OwnRecord, Grows
      <4> QED
        BY <1>2, <2>2, <4>1 DEF JobShape, OpOfPlace, Reservations, Putting
    <3> QED
      BY <3>1, <3>2 DEF JobMoves
  <2> QED
    BY <2>1, <2>2
<1> QED
  BY <1>1, <1>2, <1>3, <1>4, <1>5, <1>6 DEF Inv, Grows
-----------------------------------------------------------------------------
(* A call that is set to a record is that record.  The record fits the      *)
(* table; what other calls know stays true unless it is a record they hold  *)
(* the lock on that is deleted.                                             *)
LEMMA SetCall ==
  ASSUME Inv, NEW a \in Calls, NEW new, calls' = [calls EXCEPT ![a] = new],
         Grows, CallShape(new, rows'),
         \A b \in Calls \ {a} : calls[b].pc = "commit" =>
             rows'[calls[b].rid].live /\ (new.pc = "commit" => calls[b].rid # new.rid)
  PROVE  /\ calls'[a] = new /\ \A b \in Calls \ {a} : calls'[b] = calls[b]
         /\ calls' \in [Calls -> Call] /\ OneHolder'
         /\ \A b \in Calls : CallShape(calls'[b], rows')
<1>1. calls \in [Calls -> Call] /\ OneHolder /\ new \in Call /\ rows \in Seq(Row)
  BY DEF Inv, CallShape
<1>2. /\ calls'[a] = new /\ \A b \in Calls \ {a} : calls'[b] = calls[b]
      /\ calls' \in [Calls -> Call]
  BY <1>1
<1>3. OneHolder'
  BY <1>1, <1>2 DEF OneHolder
<1>4. ASSUME NEW b \in Calls \ {a} PROVE CallShape(calls'[b], rows')
  <2>1. CallShape(calls[b], rows) /\ calls'[b] = calls[b]
    BY <1>2 DEF Inv
  <2>2. /\ calls[b].rid \in 0 .. Len(rows')
        /\ calls[b].pc \in {"get", "unpin"} => ~rows'[calls[b].rid].live
        /\ calls[b].pc = "commit" => rows'[calls[b].rid].live
    BY <1>1, <2>1 DEF Grows, CallShape
  <2> QED
    BY <2>1, <2>2 DEF CallShape
<1> QED
  BY <1>2, <1>3, <1>4

(* What a call does to the records leaves the requests as they were.        *)
LEMMA JobsStay ==
  ASSUME Inv, Grows, jobs' = jobs
  PROVE  /\ jobs' \in [Jobs -> Job]
         /\ \A j \in Jobs : JobShape(jobs'[j]) /\ OwnRecord(j)'
<1>1. jobs \in [Jobs -> Job] /\ rows \in Seq(Row)
  BY DEF Inv
<1>2. ASSUME NEW j \in Jobs PROVE JobShape(jobs'[j]) /\ OwnRecord(j)'
  <2>1. JobShape(jobs[j]) /\ OwnRecord(j)
    BY DEF Inv
  <2> QED
    BY <1>1, <2>1 DEF Grows, OwnRecord
<1> QED
  BY <1>1, <1>2

(* A call that returns has forgotten everything.                            *)
LEMMA Returned ==
  ASSUME NEW pc \in {"done", "failed"}, NEW table \in Seq(Row), NEW call, call = [IdleCall EXCEPT !.pc = pc]
  PROVE  /\ CallShape(call, table) /\ call \in Call
         /\ call.pc = pc /\ call.rid = 0 /\ ~call.loaded /\ ~call.unpin /\ ~call.found
<1>1. call = [pc |-> pc, user |-> NoUser, rid |-> 0, loaded |-> FALSE, unpin |-> FALSE, found |-> FALSE]
  BY DEF IdleCall
<1>2. /\ call \in Call
      /\ call.pc = pc /\ call.rid = 0 /\ ~call.loaded /\ ~call.unpin /\ ~call.found
  <2>1. call \in Call
    <3>1. [pc |-> pc, user |-> NoUser, rid |-> 0, loaded |-> FALSE, unpin |-> FALSE, found |-> FALSE] \in Call
      BY DEF Call
    <3> QED
      BY <1>1, <3>1
  <2>2. call.pc = pc /\ call.rid = 0 /\ ~call.loaded /\ ~call.unpin /\ ~call.found
    BY <1>1
  <2> QED
    BY <2>1, <2>2
<1>3. 0 \in 0 .. Len(table)
  OBVIOUS
<1> QED
  BY <1>2, <1>3, pc \notin {"get", "unpin", "commit"} DEF CallShape

(* A step of a call that leaves the records and the requests alone.         *)
LEMMA CallOnly ==
  ASSUME Inv, NEW a \in Calls, NEW new, calls' = [calls EXCEPT ![a] = new],
         UNCHANGED <<rows, jobs>>, CallShape(new, rows),
         new.pc = "commit" =>
             \A b \in Calls \ {a} : calls[b].pc = "commit" => calls[b].rid # new.rid,
         core' \subseteq Keys, billed' \in [Keys -> Int], blame' \in [Keys -> SUBSET Reasons]
  PROVE  Inv'
<1>1. Grows /\ rows' \in Seq(Row)
  BY DEF Inv, Grows
<1>2. \A b \in Calls \ {a} : calls[b].pc = "commit" =>
          rows'[calls[b].rid].live /\ (new.pc = "commit" => calls[b].rid # new.rid)
  BY DEF Inv, CallShape
<1>3. /\ calls' \in [Calls -> Call] /\ OneHolder'
      /\ \A b \in Calls : CallShape(calls'[b], rows')
  BY <1>1, <1>2, SetCall
<1>4. /\ jobs' \in [Jobs -> Job]
      /\ \A j \in Jobs : JobShape(jobs'[j]) /\ OwnRecord(j)'
  BY <1>1, JobsStay
<1>5. \A j \in Jobs : JobShape(jobs[j])'
  BY <1>4 DEF JobShape, OpOfPlace, Reservations, Putting
<1>6. \A b \in Calls : CallShape(calls[b], rows)'
  BY <1>3 DEF CallShape
<1> QED
  BY <1>1, <1>3, <1>4, <1>5, <1>6 DEF Inv

(* The record that a call works on, at a place where it has one.            *)
LEMMA CallRecord ==
  ASSUME Inv, NEW a \in Calls, calls[a].pc \notin {"idle", "done", "failed"}
  PROVE  /\ CallShape(calls[a], rows) /\ calls[a] \in Call
         /\ calls[a].rid \in 1 .. Len(rows) /\ calls[a].user \in Users
         /\ rows[calls[a].rid] \in Row /\ KeyOf(calls[a].rid) \in Keys /\ CallKey(a) = KeyOf(calls[a].rid)
<1>1. CallShape(calls[a], rows) /\ rows \in Seq(Row)
  BY DEF Inv
<1>2. calls[a].rid \in 1 .. Len(rows) /\ calls[a] \in Call /\ calls[a].user \in Users
  BY <1>1 DEF CallShape
<1>3. rows[calls[a].rid] \in Row
  BY <1>1, <1>2
<1> QED
  BY <1>1, <1>2, <1>3 DEF KeyOf, CallKey, Keys, Row

(* A call goes on to another place, keeping its record and decision.        *)
LEMMA Moved ==
  ASSUME NEW call \in Call, NEW pc \in {"delete", "commit", "get", "unpin"}, NEW new,
         new = [call EXCEPT !.pc = pc]
  PROVE  /\ new \in Call /\ new.pc = pc /\ new.rid = call.rid /\ new.user = call.user
         /\ new.loaded = call.loaded /\ new.unpin = call.unpin /\ new.found = call.found
<1>1. [call EXCEPT !.pc = pc] \in Call
  BY DEF Call
<1> QED
  BY <1>1 DEF Call

(* The steps of calls that change no record.                                *)
LEMMA CallStepKeepsInv ==
  ASSUME Inv, NEW a \in Calls,
         \/ \E u \in Users, r \in DOMAIN rows : DeletePinForUser(a, u, r) \/ ReplacePinForUser(a, u, r)
         \/ ReplaceFails(a) \/ CountFails(a) \/ DeleteNotFound(a) \/ DeleteRollback(a)
         \/ GetCorePin(a) \/ Unpin(a) \/ UnpinFails(a)
  PROVE  Inv'
<1>1. /\ rows \in Seq(Row) /\ calls[a] \in Call /\ CallShape(calls[a], rows) /\ calls \in [Calls -> Call]
      /\ core \subseteq Keys /\ billed \in [Keys -> Int] /\ blame \in [Keys -> SUBSET Reasons]
  BY DEF Inv
<1>2. ASSUME NEW pc \in {"done", "failed"}, Return(a, pc), UNCHANGED <<rows, jobs>>,
             core' \subseteq Keys, billed' \in [Keys -> Int], blame' \in [Keys -> SUBSET Reasons]
      PROVE  Inv'
  <2>1. PICK new : new = [IdleCall EXCEPT !.pc = pc]
    OBVIOUS
  <2>2. CallShape(new, rows) /\ new.pc = pc
    BY <1>1, <2>1, Returned
  <2> QED
    BY <1>1, <1>2, <2>1, <2>2, CallOnly DEF Return
<1>3. ASSUME UNCHANGED <<rows, jobs, core, billed, blame>>, calls[a].unpin, ~rows[calls[a].rid].live,
             calls[a].pc = "delete", Goto(a, "get")
      PROVE  Inv'
  <2>1. PICK new : new = [calls[a] EXCEPT !.pc = "get"]
    OBVIOUS
  <2>2. /\ new \in Call /\ new.pc = "get" /\ new.rid = calls[a].rid /\ new.user = calls[a].user
        /\ new.loaded = calls[a].loaded /\ new.unpin = calls[a].unpin /\ new.found = calls[a].found
    BY <1>1, <2>1, Moved
  <2>3. CallShape(new, rows)
    BY <1>1, <1>3, <2>2 DEF CallShape
  <2>4. calls' = [calls EXCEPT ![a] = new]
    BY <1>1, <1>3, <2>1 DEF Goto
  <2> QED
    BY <1>1, <1>3, <2>2, <2>3, <2>4, CallOnly
<1>4. ASSUME NEW u \in Users, NEW r \in DOMAIN rows, NEW next \in {"delete", "replace"}, ForUser(a, u, r, next)
      PROVE  Inv'
  <2>1. CASE Return(a, "failed")
    BY <1>1, <1>2, <1>4, <2>1 DEF ForUser
  <2>2. CASE calls' = [calls EXCEPT ![a].pc = next, ![a].user = u, ![a].rid = r]
    <3>1. PICK new : new = [[[calls[a] EXCEPT !.pc = next] EXCEPT !.user = u] EXCEPT !.rid = r]
      OBVIOUS
    <3>2. [[[calls[a] EXCEPT !.pc = next] EXCEPT !.user = u] EXCEPT !.rid = r] \in Call
      <4>1. r \in Nat
        BY <1>1
      <4> QED
        BY <1>1, <4>1 DEF Call
    <3>3. /\ new \in Call /\ new.pc = next /\ new.rid = r /\ new.user = u
          /\ new.unpin = calls[a].unpin /\ new.found = calls[a].found
      BY <1>1, <3>1, <3>2 DEF Call
    <3>4. calls' = [calls EXCEPT ![a] = new]
      BY <1>1, <2>2, <3>1
    <3>5. ~calls[a].unpin /\ ~calls[a].found
      BY <1>1, <1>4 DEF CallShape, ForUser
    <3>6. r \in 1 .. Len(rows)
      BY <1>1
    <3>7. CallShape(new, rows)
      BY <3>3, <3>5, <3>6 DEF CallShape
    <3> QED
      BY <1>1, <1>4, <3>3, <3>4, <3>7, CallOnly DEF ForUser
  <2> QED
    BY <1>4, <2>1, <2>2 DEF ForUser
<1>5. CASE \E u \in Users, r \in DOMAIN rows : DeletePinForUser(a, u, r) \/ ReplacePinForUser(a, u, r)
  BY <1>4, <1>5 DEF DeletePinForUser, ReplacePinForUser
<1>6. CASE ReplaceFails(a)
  BY <1>1, <1>2, <1>6 DEF ReplaceFails
<1>7. CASE CountFails(a)
  <2>1. CASE Return(a, "failed")
    BY <1>1, <1>2, <1>7, <2>1 DEF CountFails
  <2>2. CASE calls' = [calls EXCEPT ![a].loaded = TRUE]
    <3>1. PICK new : new = [calls[a] EXCEPT !.loaded = TRUE]
      OBVIOUS
    <3>2. [calls[a] EXCEPT !.loaded = TRUE] \in Call
      BY <1>1 DEF Call
    <3>3. /\ new \in Call /\ new.pc = calls[a].pc /\ new.rid = calls[a].rid /\ new.user = calls[a].user
          /\ new.unpin = calls[a].unpin /\ new.found = calls[a].found /\ new.loaded
      BY <1>1, <3>1, <3>2 DEF Call
    <3>4. calls' = [calls EXCEPT ![a] = new]
      BY <1>1, <2>2, <3>1
    <3>5. CallShape(new, rows) /\ calls[a].pc = "delete"
      BY <1>1, <1>7, <3>3 DEF CallShape, CountFails
    <3> QED
      BY <1>1, <1>7, <3>3, <3>4, <3>5, CallOnly DEF CountFails
  <2> QED
    BY <1>7, <2>1, <2>2 DEF CountFails
<1>8. CASE DeleteNotFound(a)
  <2>1. CASE calls[a].loaded /\ calls[a].unpin
    BY <1>3, <1>8, <2>1 DEF DeleteNotFound, AfterTx
  <2>2. CASE ~(calls[a].loaded /\ calls[a].unpin)
    BY <1>1, <1>2, <1>8, <2>2 DEF DeleteNotFound, AfterTx
  <2> QED
    BY <2>1, <2>2
<1>9. CASE DeleteRollback(a)
  <2>1. CASE Return(a, "failed")
    BY <1>1, <1>2, <1>9, <2>1 DEF DeleteRollback
  <2>2. CASE Goto(a, "delete")
    <3>1. PICK new : new = [calls[a] EXCEPT !.pc = "delete"]
      OBVIOUS
    <3>2. /\ new \in Call /\ new.pc = "delete" /\ new.rid = calls[a].rid /\ new.user = calls[a].user
          /\ new.loaded = calls[a].loaded /\ new.unpin = calls[a].unpin /\ new.found = calls[a].found
      BY <1>1, <3>1, Moved
    <3>3. CallShape(new, rows)
      BY <1>1, <1>9, <3>2 DEF CallShape, DeleteRollback
    <3>4. calls' = [calls EXCEPT ![a] = new]
      BY <1>1, <2>2, <3>1 DEF Goto
    <3> QED
      BY <1>1, <1>9, <3>2, <3>3, <3>4, CallOnly DEF DeleteRollback
  <2> QED
    BY <1>9, <2>1, <2>2 DEF DeleteRollback
<1>10. CASE GetCorePin(a)
  <2>1. PICK found \in BOOLEAN : calls' = [calls EXCEPT ![a].pc = "unpin", ![a].found = found]
    <3>1. PICK found \in {FALSE, KeyOf(calls[a].rid) \in core} :
              calls' = [calls EXCEPT ![a].pc = "unpin", ![a].found = found]
      BY <1>10 DEF GetCorePin
    <3>2. found = FALSE \/ found = (KeyOf(calls[a].rid) \in core)
      OBVIOUS
    <3>3. found \in BOOLEAN
      <4>1. found = TRUE \/ found = FALSE
        BY <3>2
      <4> QED
        BY <4>1
    <3> QED
      BY <3>1, <3>3
  <2>2. PICK new : new = [[calls[a] EXCEPT !.pc = "unpin"] EXCEPT !.found = found]
    OBVIOUS
  <2>3. [[calls[a] EXCEPT !.pc = "unpin"] EXCEPT !.found = found] \in Call
    BY <1>1 DEF Call
  <2>4. /\ new \in Call /\ new.pc = "unpin" /\ new.rid = calls[a].rid /\ new.user = calls[a].user
        /\ new.unpin = calls[a].unpin /\ new.loaded = calls[a].loaded
    BY <1>1, <2>2, <2>3 DEF Call
  <2>5. calls' = [calls EXCEPT ![a] = new]
    BY <1>1, <2>1, <2>2
  <2>6. CallShape(new, rows)
    BY <1>1, <1>10, <2>4 DEF CallShape, GetCorePin
  <2> QED
    BY <1>1, <1>10, <2>4, <2>5, <2>6, CallOnly DEF GetCorePin
<1>11. CASE Unpin(a)
  <2>1. core' \subseteq Keys /\ billed' \in [Keys -> Int] /\ blame' \in [Keys -> SUBSET Reasons]
    BY <1>1, <1>11, CallRecord DEF Unpin
  <2> QED
    BY <1>2, <1>11, <2>1 DEF Unpin
<1>12. CASE UnpinFails(a)
  <2>1. core' \subseteq Keys /\ billed' \in [Keys -> Int] /\ blame' \in [Keys -> SUBSET Reasons]
    BY <1>1, <1>12, CallRecord DEF UnpinFails, Blame, Reasons
  <2> QED
    BY <1>2, <1>12, <2>1 DEF UnpinFails
<1> QED
  BY <1>5, <1>6, <1>7, <1>8, <1>9, <1>10, <1>11, <1>12

(* A step of a call that changes the records too.                           *)
LEMMA CallAndRows ==
  ASSUME Inv, NEW a \in Calls, NEW new, calls' = [calls EXCEPT ![a] = new],
         jobs' = jobs, Grows, CallShape(new, rows'), new.pc # "commit",
         \A b \in Calls \ {a} : calls[b].pc = "commit" => rows'[calls[b].rid].live,
         core' \subseteq Keys, billed' \in [Keys -> Int], blame' \in [Keys -> SUBSET Reasons]
  PROVE  Inv'
<1>1. /\ calls' \in [Calls -> Call] /\ OneHolder'
      /\ \A b \in Calls : CallShape(calls'[b], rows')
  BY SetCall
<1>2. /\ jobs' \in [Jobs -> Job]
      /\ \A j \in Jobs : JobShape(jobs'[j]) /\ OwnRecord(j)'
  BY JobsStay
<1>3. \A j \in Jobs : JobShape(jobs[j])'
  BY <1>2 DEF JobShape, OpOfPlace, Reservations, Putting
<1>4. \A b \in Calls : CallShape(calls[b], rows)'
  BY <1>1 DEF CallShape
<1> QED
  BY <1>1, <1>2, <1>3, <1>4 DEF Inv, Grows

(* A record is created, deleted, or replaced by a new one.                  *)
LEMMA RecordStepKeepsInv ==
  ASSUME Inv, NEW a \in Calls,
         \/ \E u \in Users, c \in Cids : addPin(a, u, c)
         \/ \E c \in Cids : ReplacePin(a, c)
         \/ DeleteCommit(a)
  PROVE  Inv'
<1>1. /\ rows \in Seq(Row) /\ calls[a] \in Call /\ CallShape(calls[a], rows) /\ calls \in [Calls -> Call]
      /\ core \subseteq Keys /\ billed \in [Keys -> Int] /\ blame \in [Keys -> SUBSET Reasons]
      /\ Len(rows) \in Nat
      /\ \A b \in Calls : CallShape(calls[b], rows)
  BY DEF Inv
<1>2. ASSUME NEW u \in Users, NEW c \in Cids, addPin(a, u, c) PROVE Inv'
  <2>1. /\ Grows /\ Len(rows') = Len(rows) + 1
        /\ \A r \in 1 .. Len(rows) : rows'[r] = rows[r]
    BY <1>1, <1>2, Added DEF addPin, AddPin
  <2>2. PICK new : new = [[[calls[a] EXCEPT !.pc = "start"] EXCEPT !.user = u] EXCEPT !.rid = Len(rows) + 1]
    OBVIOUS
  <2>3. [[[calls[a] EXCEPT !.pc = "start"] EXCEPT !.user = u] EXCEPT !.rid = Len(rows) + 1] \in Call
    <3>1. Len(rows) + 1 \in Nat /\ calls[a] \in Call
      BY <1>1
    <3> QED
      BY <3>1 DEF Call
  <2>4. /\ new \in Call /\ new.pc = "start" /\ new.rid = Len(rows) + 1 /\ new.user = u
        /\ new.unpin = calls[a].unpin /\ new.found = calls[a].found
    BY <1>1, <2>2, <2>3 DEF Call
  <2>5. calls' = [calls EXCEPT ![a] = new] /\ calls[a].pc = "idle" /\ UNCHANGED <<core, billed, jobs, blame>>
    BY <1>1, <1>2, <2>2 DEF addPin
  <2>6. CallShape(new, rows')
    <3>1. ~calls[a].unpin /\ ~calls[a].found
      BY <1>1, <2>5 DEF CallShape
    <3> QED
      BY <1>1, <2>1, <2>4, <3>1 DEF CallShape
  <2>7. \A b \in Calls \ {a} : calls[b].pc = "commit" => rows'[calls[b].rid].live
    BY <1>1, <2>1 DEF CallShape
  <2> QED
    BY <1>1, <2>1, <2>4, <2>5, <2>6, <2>7, CallAndRows
<1>3. ASSUME NEW c \in Cids, ReplacePin(a, c) PROVE Inv'
  <2>1. PICK old \in 1 .. Len(rows) : old = calls[a].rid
    BY <1>3, CallRecord DEF ReplacePin
  <2>2. /\ calls[a].pc = "replace" /\ ~Locked(old) /\ UNCHANGED <<core, billed, jobs>>
        /\ calls[a].user \in Users
        /\ rows' = Append([rows EXCEPT ![old].live = FALSE], NewRow(calls[a].user, c))
    BY <1>3, <2>1, CallRecord DEF ReplacePin
  <2>3. PICK table \in Seq(Row) : table = [rows EXCEPT ![old].live = FALSE]
    BY <1>1, StillRows
  <2>4. /\ Len(table) = Len(rows) /\ \A r \in (1 .. Len(rows)) \ {old} : table[r] = rows[r]
        /\ table[old].user = rows[old].user /\ table[old].cid = rows[old].cid /\ ~table[old].live
    BY <1>1, <2>3, Changed
  <2>5. NewRow(calls[a].user, c) \in Row
    BY <2>2 DEF NewRow, Row
  <2>6. /\ rows' \in Seq(Row) /\ Len(rows') = Len(rows) + 1
        /\ \A r \in 1 .. Len(rows) : rows'[r] = table[r]
    BY <1>1, <2>2, <2>3, <2>4, <2>5
  <2>7. Grows
    BY <1>1, <2>4, <2>6 DEF Grows
  <2>8. PICK new : new = [[calls[a] EXCEPT !.pc = "start"] EXCEPT !.rid = Len(rows) + 1]
    OBVIOUS
  <2>9. [[calls[a] EXCEPT !.pc = "start"] EXCEPT !.rid = Len(rows) + 1] \in Call
    <3>1. Len(rows) + 1 \in Nat /\ calls[a] \in Call
      BY <1>1
    <3> QED
      BY <3>1 DEF Call
  <2>10. /\ new \in Call /\ new.pc = "start" /\ new.rid = Len(rows) + 1 /\ new.user = calls[a].user
         /\ new.unpin = calls[a].unpin /\ new.found = calls[a].found
    BY <1>1, <2>8, <2>9 DEF Call
  <2>11. calls' = [calls EXCEPT ![a] = new]
    BY <1>1, <1>3, <2>8 DEF ReplacePin
  <2>12. CallShape(new, rows')
    <3>1. ~calls[a].unpin /\ ~calls[a].found
      BY <1>1, <2>2 DEF CallShape
    <3> QED
      BY <1>1, <2>2, <2>6, <2>10, <3>1 DEF CallShape
  <2>13. \A b \in Calls \ {a} : calls[b].pc = "commit" => rows'[calls[b].rid].live
    <3> SUFFICES ASSUME NEW b \in Calls \ {a}, calls[b].pc = "commit" PROVE rows'[calls[b].rid].live
      OBVIOUS
    <3>1. calls[b].rid \in 1 .. Len(rows) /\ CallShape(calls[b], rows)
      BY <1>1, CallRecord
    <3>2. rows[calls[b].rid].live /\ calls[b].rid # old
      BY <2>2, <3>1 DEF CallShape, Locked
    <3> QED
      BY <2>4, <2>6, <3>1, <3>2
  <2>14. blame' \in [Keys -> SUBSET Reasons]
    BY <1>1, <1>3 DEF ReplacePin, Blame, Reasons
  <2> QED
    BY <1>1, <2>2, <2>7, <2>10, <2>11, <2>12, <2>13, <2>14, CallAndRows
<1>4. CASE DeleteCommit(a)
  <2>1. PICK old \in 1 .. Len(rows) : old = calls[a].rid
    BY <1>4, CallRecord DEF DeleteCommit
  <2>2. /\ calls[a].pc = "commit" /\ UNCHANGED <<core, billed, jobs, blame>> /\ AfterTx(a)
        /\ rows' = [rows EXCEPT ![old].live = FALSE]
    BY <1>4, <2>1 DEF DeleteCommit
  <2>3. rows' \in Seq(Row)
    BY <1>1, <2>2, StillRows
  <2>4. /\ Len(rows') = Len(rows) /\ \A r \in (1 .. Len(rows)) \ {old} : rows'[r] = rows[r]
        /\ rows'[old].user = rows[old].user /\ rows'[old].cid = rows[old].cid /\ ~rows'[old].live
    BY <1>1, <2>2, <2>3, Changed
  <2>5. Grows
    BY <1>1, <2>3, <2>4 DEF Grows
  <2>6. \A b \in Calls \ {a} : calls[b].pc = "commit" => rows'[calls[b].rid].live
    <3> SUFFICES ASSUME NEW b \in Calls \ {a}, calls[b].pc = "commit" PROVE rows'[calls[b].rid].live
      OBVIOUS
    <3>1. calls[b].rid \in 1 .. Len(rows) /\ rows[calls[b].rid].live /\ calls[b].rid # old
      BY <1>1, <2>1, <2>2 DEF CallShape, Inv, OneHolder
    <3> QED
      BY <2>4, <3>1
  <2>7. ASSUME NEW new, calls' = [calls EXCEPT ![a] = new], CallShape(new, rows'), new.pc # "commit"
        PROVE  Inv'
    BY <1>1, <2>2, <2>5, <2>6, <2>7, CallAndRows
  <2>8. CASE calls[a].loaded /\ calls[a].unpin
    <3>1. PICK new : new = [calls[a] EXCEPT !.pc = "get"]
      OBVIOUS
    <3>2. /\ new \in Call /\ new.pc = "get" /\ new.rid = calls[a].rid /\ new.user = calls[a].user
          /\ new.loaded = calls[a].loaded /\ new.unpin = calls[a].unpin /\ new.found = calls[a].found
      BY <1>1, <3>1, Moved
    <3>3. CallShape(new, rows')
      BY <1>1, <2>1, <2>2, <2>4, <2>8, <3>2 DEF CallShape
    <3>4. calls' = [calls EXCEPT ![a] = new]
      BY <1>1, <2>2, <2>8, <3>1 DEF AfterTx, Goto
    <3> QED
      BY <2>7, <3>2, <3>3, <3>4
  <2>9. CASE ~(calls[a].loaded /\ calls[a].unpin)
    <3>1. PICK new : new = [IdleCall EXCEPT !.pc = "done"]
      OBVIOUS
    <3>2. CallShape(new, rows') /\ new.pc = "done"
      BY <2>3, <3>1, Returned
    <3>3. calls' = [calls EXCEPT ![a] = new]
      BY <2>2, <2>9, <3>1 DEF AfterTx, Return
    <3> QED
      BY <2>7, <3>2, <3>3
  <2> QED
    BY <2>8, <2>9
<1> QED
  BY <1>2, <1>3, <1>4

(* DeletePin's transaction takes the lock and decides.                      *)
LEMMA DeleteTxKeepsInv ==
  ASSUME Inv, NEW a \in Calls, DeleteTx(a)
  PROVE  Inv'
<1>1. /\ calls[a] \in Call /\ CallShape(calls[a], rows) /\ calls \in [Calls -> Call]
      /\ core \subseteq Keys /\ billed \in [Keys -> Int] /\ blame \in [Keys -> SUBSET Reasons]
      /\ calls[a].pc = "delete" /\ rows[calls[a].rid].live /\ ~Locked(calls[a].rid)
      /\ UNCHANGED <<rows, core, billed, jobs>>
  BY DEF Inv, DeleteTx
<1>2. PICK unpin \in BOOLEAN : calls' = [calls EXCEPT ![a].pc = "commit", ![a].loaded = TRUE, ![a].unpin = unpin]
  <2>1. (countUserPinsByCID(KeyOf(calls[a].rid), calls[a].rid) = 0) \in BOOLEAN
    OBVIOUS
  <2> QED
    BY <2>1 DEF DeleteTx
<1>3. PICK new : new = [[[calls[a] EXCEPT !.pc = "commit"] EXCEPT !.loaded = TRUE] EXCEPT !.unpin = unpin]
  OBVIOUS
<1>4. [[[calls[a] EXCEPT !.pc = "commit"] EXCEPT !.loaded = TRUE] EXCEPT !.unpin = unpin] \in Call
  BY <1>1 DEF Call
<1>5. /\ new \in Call /\ new.pc = "commit" /\ new.rid = calls[a].rid /\ new.user = calls[a].user
      /\ new.loaded /\ new.found = calls[a].found
  BY <1>1, <1>3, <1>4 DEF Call
<1>6. calls' = [calls EXCEPT ![a] = new]
  BY <1>1, <1>2, <1>3
<1>7. CallShape(new, rows)
  BY <1>1, <1>5 DEF CallShape
<1>8. \A b \in Calls \ {a} : calls[b].pc = "commit" => calls[b].rid # new.rid
  BY <1>1, <1>5 DEF Locked
<1>9. blame' \in [Keys -> SUBSET Reasons]
  BY <1>1 DEF DeleteTx, Blame, Reasons
<1> QED
  BY <1>1, <1>5, <1>6, <1>7, <1>8, <1>9, CallOnly

(* The call has started the workflow that works for its record, or not.     *)
LEMMA StartKeepsInv ==
  ASSUME Inv, NEW a \in Calls, startPinWorkflow(a)
  PROVE  Inv'
<1>1. /\ rows \in Seq(Row) /\ CallShape(calls[a], rows) /\ calls \in [Calls -> Call] /\ jobs \in [Jobs -> Job]
      /\ core \subseteq Keys /\ billed \in [Keys -> Int] /\ blame \in [Keys -> SUBSET Reasons]
      /\ calls[a].pc = "start" /\ UNCHANGED <<rows, core, billed, blame>>
  BY DEF Inv, startPinWorkflow
<1>2. ASSUME NEW pc \in {"done", "failed"}, Return(a, pc)
      PROVE  \E new : calls' = [calls EXCEPT ![a] = new] /\ CallShape(new, rows) /\ new.pc = pc
  <2>1. PICK new : new = [IdleCall EXCEPT !.pc = pc]
    OBVIOUS
  <2>2. CallShape(new, rows) /\ new.pc = pc
    BY <1>1, <2>1, Returned
  <2>3. calls' = [calls EXCEPT ![a] = new]
    BY <1>2, <2>1 DEF Return
  <2> QED
    BY <2>2, <2>3
<1>3. PICK pc \in {"done", "failed"} : Return(a, pc)
  BY DEF startPinWorkflow
<1>4. PICK new : calls' = [calls EXCEPT ![a] = new] /\ CallShape(new, rows) /\ new.pc = pc
  BY <1>2, <1>3
<1>5. CASE UNCHANGED jobs
  BY <1>1, <1>3, <1>4, <1>5, CallOnly
<1>6. ASSUME NEW j \in Jobs, jobs[j].pc = "free",
             jobs' = [jobs EXCEPT ![j] = [IdleJob EXCEPT !.pc = "begin", !.op = "retrieve", !.rid = calls[a].rid,
                                                         !.user = rows[calls[a].rid].user,
                                                         !.cid = rows[calls[a].rid].cid]]
      PROVE  Inv'
  <2>1. PICK r \in 1 .. Len(rows) : r = calls[a].rid /\ rows[r] \in Row
    BY <1>1, CallRecord
  <2>2. rows[r].user \in Users /\ rows[r].cid \in Cids /\ r \in Nat /\ r # 0
    BY <1>1, <2>1 DEF Row
  <2> DEFINE job == [IdleJob EXCEPT !.pc = "begin", !.op = "retrieve", !.rid = r,
                                    !.user = rows[r].user, !.cid = rows[r].cid]
  <2>3. /\ job \in Job /\ job.pc = "begin" /\ job.op = "retrieve" /\ job.rid = r
        /\ job.user = rows[r].user /\ job.cid = rows[r].cid /\ job.put = {} /\ job.cids = {}
        /\ job.res = IdleJob.res /\ job.download = "none"
    BY <2>2, Idle DEF Job, IdleJob
  <2>4. jobs' = [jobs EXCEPT ![j] = job]
    BY <1>6, <2>1
  <2> HIDE DEF job
  <2>5. JobShape(job)
    BY <2>2, <2>3, Idle DEF JobShape, OpOfPlace, Reservations, Putting, NothingReserved, Held
  <2>6. /\ jobs' \in [Jobs -> Job] /\ jobs'[j] = job /\ \A i \in Jobs \ {j} : jobs'[i] = jobs[i]
    BY <1>1, <2>3, <2>4
  <2>7. \A i \in Jobs : JobShape(jobs'[i]) /\ OwnRecord(i)'
    <3>1. ASSUME NEW i \in Jobs \ {j} PROVE JobShape(jobs'[i]) /\ OwnRecord(i)'
      BY <1>1, <2>6 DEF Inv, OwnRecord
    <3>2. JobShape(jobs'[j]) /\ OwnRecord(j)'
      BY <1>1, <2>1, <2>2, <2>3, <2>5, <2>6 DEF OwnRecord
    <3> QED
      BY <3>1, <3>2
  <2>8. \A i \in Jobs : JobShape(jobs[i])'
    BY <2>7 DEF JobShape, OpOfPlace, Reservations, Putting
  <2>9. Grows
    BY <1>1 DEF Grows
  <2>10. /\ calls' \in [Calls -> Call] /\ OneHolder'
         /\ \A b \in Calls : CallShape(calls'[b], rows')
    <3>1. \A b \in Calls \ {a} : calls[b].pc = "commit" =>
              rows'[calls[b].rid].live /\ (new.pc = "commit" => calls[b].rid # new.rid)
      BY <1>1, <1>3, <1>4 DEF Inv, CallShape
    <3>2. CallShape(new, rows')
      BY <1>1, <1>4
    <3> QED
      BY <1>4, <2>9, <3>1, <3>2, SetCall
  <2>11. \A b \in Calls : CallShape(calls[b], rows)'
    BY <2>10 DEF CallShape
  <2> QED
    BY <1>1, <2>6, <2>7, <2>8, <2>10, <2>11 DEF Inv
<1> QED
  BY <1>5, <1>6 DEF startPinWorkflow

(* The records of a key can be counted (countUserPinsByCID).                *)
LEMMA LiveIsFinite ==
  ASSUME rows \in Seq(Row), NEW k
  PROVE  IsFiniteSet(LiveOf(k)) /\ Cardinality(LiveOf(k)) \in Nat
         /\ (Cardinality(LiveOf(k)) = 0 <=> LiveOf(k) = {})
<1>1. IsFiniteSet(1 .. Len(rows))
  BY FS_Interval
<1>2. LiveOf(k) \subseteq 1 .. Len(rows)
  BY DEF LiveOf
<1>3. IsFiniteSet(LiveOf(k))
  BY <1>1, <1>2, FS_Subset
<1> QED
  BY <1>3, FS_CardinalityType, FS_EmptySet

(* The first uploads of one user, each pinned and billed.                   *)
LEMMA InitRows ==
  ASSUME Init
  PROVE  /\ rows \in Seq(Row) /\ core = {KeyOf(i) : i \in 1 .. Len(rows)}
         /\ \A i \in 1 .. Len(rows) : rows[i].live /\ rows[i].status = "pinned" /\ KeyOf(i) \in Keys
         /\ billed = [k \in Keys |-> Cardinality(LiveOf(k))]
<1>1. PICK u \in Users : \E n \in 0 .. Len(Earlier) :
          /\ rows = [i \in 1 .. n |-> [NewRow(u, Earlier[i]) EXCEPT !.status = "pinned"]]
          /\ core = {KeyOf(i) : i \in 1 .. n}
          /\ billed = [k \in Keys |-> Cardinality(LiveOf(k))]
  BY DEF Init, PinInit
<1>2. PICK n \in 0 .. Len(Earlier) :
          /\ rows = [i \in 1 .. n |-> [NewRow(u, Earlier[i]) EXCEPT !.status = "pinned"]]
          /\ core = {KeyOf(i) : i \in 1 .. n}
          /\ billed = [k \in Keys |-> Cardinality(LiveOf(k))]
  BY <1>1
<1>3. n \in Nat /\ Earlier \in Seq(Cids) /\ \A i \in 1 .. n : Earlier[i] \in Cids
  BY PinAssumption
<1>4. ASSUME NEW i \in 1 .. n
      PROVE  rows[i] \in Row /\ rows[i].live /\ rows[i].status = "pinned" /\ KeyOf(i) \in Keys
  <2>1. PICK c \in Cids : c = Earlier[i]
    BY <1>3
  <2>2. rows[i] = [NewRow(u, c) EXCEPT !.status = "pinned"]
    BY <1>2, <2>1
  <2>3. NewRow(u, c) \in Row /\ NewRow(u, c).live /\ NewRow(u, c).user = u /\ NewRow(u, c).cid = c
    BY DEF NewRow, Row
  <2>4. [NewRow(u, c) EXCEPT !.status = "pinned"] \in Row
    BY <2>3 DEF Row
  <2>5. rows[i] \in Row /\ rows[i].live /\ rows[i].status = "pinned"
        /\ rows[i].user = u /\ rows[i].cid = c
    BY <2>2, <2>3, <2>4 DEF Row
  <2> QED
    BY <2>5 DEF KeyOf, Keys
<1>5. rows = [i \in 1 .. n |-> rows[i]]
  BY <1>2
<1>6. rows \in Seq(Row) /\ Len(rows) = n
  BY <1>3, <1>4, <1>5
<1> QED
  BY <1>2, <1>4, <1>6

(* Initially nothing is under way, and the invariant holds.                 *)
LEMMA InitInv ==
  ASSUME Init
  PROVE  Inv
<1>1. /\ rows \in Seq(Row) /\ core = {KeyOf(i) : i \in 1 .. Len(rows)}
      /\ \A i \in 1 .. Len(rows) : KeyOf(i) \in Keys
      /\ billed = [k \in Keys |-> Cardinality(LiveOf(k))]
      /\ calls = [a \in Calls |-> IdleCall] /\ jobs = [j \in Jobs |-> IdleJob]
      /\ blame = [k \in Keys |-> {}]
  BY InitRows DEF Init, PinInit
<1>2. core \subseteq Keys /\ billed \in [Keys -> Int] /\ blame \in [Keys -> SUBSET Reasons]
  <2>1. \A k \in Keys : Cardinality(LiveOf(k)) \in Int
    BY <1>1, LiveIsFinite
  <2> QED
    BY <1>1, <2>1
<1>3. IdleCall \in Call
  BY DEF IdleCall, Call
<1>4. IdleCall.pc = "idle" /\ IdleCall.rid = 0 /\ ~IdleCall.unpin /\ ~IdleCall.found
  BY DEF IdleCall
<1>5. CallShape(IdleCall, rows)
  <2>1. 0 \in 0 .. Len(rows)
    BY <1>1
  <2> QED
    BY <1>3, <1>4, <2>1 DEF CallShape
<1>6. calls \in [Calls -> Call] /\ (\A a \in Calls : CallShape(calls[a], rows)) /\ OneHolder
  BY <1>1, <1>3, <1>4, <1>5 DEF OneHolder
<1>7. jobs \in [Jobs -> Job] /\ \A j \in Jobs : JobShape(jobs[j]) /\ OwnRecord(j)
  <2>1. 0 \in 0 .. Len(rows)
    BY <1>1
  <2> QED
    BY <1>1, <2>1, Idle DEF OwnRecord
<1> QED
  BY <1>1, <1>2, <1>6, <1>7 DEF Inv

(* The steps of calls and of requests keep the invariant.                   *)
LEMMA NextInv == Inv /\ [Next]_pinVars => Inv'
<1> SUFFICES ASSUME Inv, [Next]_pinVars PROVE Inv'
  OBVIOUS
<1>1. ASSUME NEW a \in Calls, CallStep(a) PROVE Inv'
  BY <1>1, CallStepKeepsInv, RecordStepKeepsInv, DeleteTxKeepsInv, StartKeepsInv DEF CallStep
<1>2. ASSUME NEW j \in Jobs, JobStep(j) PROVE Inv'
  BY <1>2, JobStepMoves, JobKeepsInv
<1>3. CASE UNCHANGED pinVars
  BY <1>3 DEF pinVars, Inv, OneHolder, CallShape, OwnRecord, JobShape, OpOfPlace, Reservations, Putting
<1> QED
  BY <1>1, <1>2, <1>3 DEF Next

(* Records, calls and requests have their types, and a request ID that is   *)
(* kept across transactions always names a record.                          *)
THEOREM TypeCorrect == Spec => []TypeOK
<1>1. Inv => TypeOK
  BY DEF Inv, TypeOK, CallShape, OwnRecord, JobShape
<1> QED
  BY <1>1, InitInv, NextInv, PTL DEF Spec

(* What a retrieval has reserved at each place, and what one that succeeded *)
(* has left reserved: only blocks that it could not read back.              *)
Leaving(job) ==
    /\ job.left.blocks \subseteq job.unread
    /\ job.op = "retrieve" => job.left.blocks = {}
    /\ job.op = "retrieve" /\ job.pc = "reserve" => job.todo \subseteq job.got
    /\ job.op = "retrieve" /\ job.pc = "fetch" =>
          \A c \in Cids : job.res[c] \in Held => job.res[c] = "both" /\ c \in job.got
    /\ job.op = "retrieve" /\ job.pc = "process" =>
          \A c \in Cids : job.res[c] \in Held => job.res[c] = "both" /\ c \in job.todo \union job.unread

LeavingInv == \A j \in Jobs : Leaving(jobs[j])

\* A step that neither reserves, reads back nor leaves anything.
LEMMA SameLeaving ==
  ASSUME NEW job, Leaving(job), NEW new,
         new.left = job.left, new.unread = job.unread,
         \/ new.op # "retrieve"
         \/ new.op = job.op /\ new.pc \notin {"reserve", "fetch", "process"}
  PROVE  Leaving(new)
  BY DEF Leaving

LEMMA FreshLeaving ==
  ASSUME NEW new, new.left = IdleJob.left, new.pc \notin {"reserve", "fetch", "process"}
  PROVE  Leaving(new)
  BY DEF Leaving, IdleJob

LEMMA FailLeaves ==
  ASSUME Inv, LeavingInv, NEW j \in Jobs, NEW job \in Job, Fail(j, job),
         job.left = jobs[j].left, job.unread = jobs[j].unread, job.op = jobs[j].op
  PROVE  Leaving(jobs'[j])
<1> DEFINE new == [job EXCEPT !.pc = "error", !.todo = {}, !.put = {}]
<1>1. /\ new.left = job.left /\ new.unread = job.unread /\ new.op = job.op /\ new.pc = "error"
  BY DEF Job
<1>2. jobs'[j] = new /\ Leaving(jobs[j])
  BY DEF Fail, Set, Inv, LeavingInv
<1> HIDE DEF new
<1> QED
  BY <1>1, <1>2, SameLeaving

\* Releasing touches neither what was left nor what could not be read.
LEMMA ReleasedLeft ==
  ASSUME NEW job \in Job
  PROVE  \A released \in {job, ReleaseAll(job), ReleaseBlockReservationsMap(job)} :
            released \in Job /\ released.left = job.left /\ released.unread = job.unread /\ released.op = job.op
<1> DEFINE blocks == ReleaseBlockReservationsMap(job)
<1>1. blocks \in Job /\ blocks.left = job.left /\ blocks.unread = job.unread /\ blocks.op = job.op
  BY DEF ReleaseBlockReservationsMap, Job
<1>2. ReleaseAll(job) = [blocks EXCEPT !.download = "none"]
  BY DEF ReleaseAll, cleanupDownloadReservation
<1> HIDE DEF blocks
<1>3. LET all == ReleaseAll(job)
      IN  all \in Job /\ all.left = job.left /\ all.unread = job.unread /\ all.op = job.op
  BY <1>1, <1>2 DEF Job
<1> QED
  BY <1>1, <1>3 DEF blocks

LEMMA EngineLeaves ==
  ASSUME Inv, LeavingInv, NEW j \in Jobs,
         \/ \E u \in Users, c \in Cids : StartUpload(j, u, c)
         \/ Retry(j) \/ GiveUp(j)
  PROVE  Leaving(jobs'[j])
<1>1. jobs[j] \in Job /\ jobs \in [Jobs -> Job] /\ Leaving(jobs[j])
  BY DEF Inv, LeavingInv
<1>2. ASSUME NEW u \in Users, NEW c \in Cids, StartUpload(j, u, c) PROVE Leaving(jobs'[j])
  <2> DEFINE new == [IdleJob EXCEPT !.pc = "begin", !.op = "upload", !.user = u, !.cid = c]
  <2>1. jobs'[j] = new /\ new.left = IdleJob.left /\ new.pc = "begin"
    BY <1>1, <1>2 DEF StartUpload, Set, IdleJob
  <2> QED
    BY <2>1, FreshLeaving
<1>3. CASE Retry(j)
  <2> DEFINE new == [jobs[j] EXCEPT !.pc = "begin", !.attempt = @ + 1, !.got = {}, !.broke = FALSE,
                                    !.res = IdleJob.res, !.download = "none"]
  <2>1. /\ jobs'[j] = new /\ new.left = jobs[j].left /\ new.unread = jobs[j].unread
        /\ new.op = jobs[j].op /\ new.pc = "begin"
    BY <1>1, <1>3 DEF Retry, Set, Job
  <2> QED
    BY <1>1, <2>1, SameLeaving
<1>4. CASE GiveUp(j)
  <2> DEFINE new == Ended(jobs[j], "failed")
  <2>1. /\ jobs'[j] = new /\ new.left = jobs[j].left /\ new.unread = jobs[j].unread
        /\ new.op = "none"
    BY <1>1, <1>4 DEF GiveUp, Set, Ended, IdleJob
  <2> QED
    BY <1>1, <2>1, SameLeaving
<1> QED
  BY <1>2, <1>3, <1>4

\* ToConfirm leaves what is still held.
LEMMA ConfirmLeaves ==
  ASSUME NEW job \in Job, \A c \in Cids : job.res[c] \in Held => c \in job.unread
  PROVE  Leaving(ToConfirm(job))
<1>1. /\ ToConfirm(job).left.blocks = {c \in Cids : job.res[c] \in Held}
      /\ ToConfirm(job).unread = job.unread /\ ToConfirm(job).op = "confirm"
  BY DEF ToConfirm, Job
<1>2. {c \in Cids : job.res[c] \in Held} \subseteq job.unread
  OBVIOUS
<1> QED
  BY <1>1, <1>2 DEF Leaving

LEMMA CollectLeaves ==
  ASSUME Inv, LeavingInv, NEW j \in Jobs, Collect(j) \/ ProcessBlocks(j) \/ BeginFails(j)
  PROVE  Leaving(jobs'[j])
<1>1. jobs[j] \in Job /\ jobs \in [Jobs -> Job] /\ Leaving(jobs[j]) /\ JobShape(jobs[j])
  BY DEF Inv, LeavingInv
<1>2. CASE Collect(j)
  <2>1. jobs[j].op = "retrieve" /\ jobs[j].pc = "begin"
    BY <1>2 DEF Collect, At
  <2>2. NothingReserved(jobs[j]) /\ jobs[j].left.blocks = {}
    BY <1>1, <2>1 DEF JobShape, Reservations, Leaving
  <2>3. PICK got \in SUBSET Children[jobs[j].cid] : \E sized \in SUBSET got :
           Set(j, IF got = {} THEN ToConfirm([jobs[j] EXCEPT !.download = "held"])
                  ELSE [jobs[j] EXCEPT !.pc = "reserve", !.got = got, !.todo = sized, !.download = "held"])
    BY <1>2 DEF Collect
  <2>4. PICK sized \in SUBSET got :
           Set(j, IF got = {} THEN ToConfirm([jobs[j] EXCEPT !.download = "held"])
                  ELSE [jobs[j] EXCEPT !.pc = "reserve", !.got = got, !.todo = sized, !.download = "held"])
    BY <2>3
  <2>5. CASE got = {}
    <3> DEFINE job == [jobs[j] EXCEPT !.download = "held"]
    <3>1. job \in Job /\ \A c \in Cids : job.res[c] \notin Held
      BY <1>1, <2>2 DEF Job, NothingReserved
    <3>2. jobs'[j] = ToConfirm(job)
      BY <1>1, <2>4, <2>5 DEF Set
    <3> HIDE DEF job
    <3> QED
      BY <3>1, <3>2, ConfirmLeaves
  <2>6. CASE got # {}
    <3> DEFINE new == [jobs[j] EXCEPT !.pc = "reserve", !.got = got, !.todo = sized, !.download = "held"]
    <3>1. /\ new.left = jobs[j].left /\ new.unread = jobs[j].unread /\ new.got = got /\ new.todo = sized
          /\ new.pc = "reserve"
      BY <1>1 DEF Job
    <3>2. jobs'[j] = new
      BY <1>1, <2>4, <2>6 DEF Set
    <3> HIDE DEF new
    <3> QED
      BY <1>1, <2>2, <2>4, <3>1, <3>2 DEF Leaving
  <2> QED
    BY <2>5, <2>6
<1>3. CASE ProcessBlocks(j)
  <2>1. jobs[j].op = "upload"
    BY <1>3 DEF ProcessBlocks, At
  <2>2. PICK sized \in SUBSET Blocks(jobs[j].cid) :
           Set(j, [jobs[j] EXCEPT !.pc = "reserve", !.got = Blocks(jobs[j].cid), !.todo = sized])
    BY <1>3 DEF ProcessBlocks
  <2> DEFINE new == [jobs[j] EXCEPT !.pc = "reserve", !.got = Blocks(jobs[j].cid), !.todo = sized]
  <2>3. jobs'[j] = new /\ new.left = jobs[j].left /\ new.unread = jobs[j].unread /\ new.op = "upload"
    BY <1>1, <2>1, <2>2 DEF Set, Job
  <2> QED
    BY <1>1, <2>3, SameLeaving
<1>4. CASE BeginFails(j)
  BY <1>1, <1>4, FailLeaves DEF BeginFails
<1> QED
  BY <1>2, <1>3, <1>4

LEMMA ReserveLeaves ==
  ASSUME Inv, LeavingInv, NEW j \in Jobs, ReserveFails(j) \/ CreatePerBlockReservations(j)
  PROVE  Leaving(jobs'[j])
<1>1. /\ jobs[j] \in Job /\ jobs \in [Jobs -> Job] /\ Leaving(jobs[j]) /\ jobs[j].pc = "reserve"
      /\ \A c \in Cids : jobs[j].res[c] \notin Held
  BY DEF Inv, LeavingInv, ReserveFails, CreatePerBlockReservations, JobShape, Reservations
<1>2. ASSUME NEW pairs, NEW half, NEW job, job = Reserved(jobs[j], pairs, half)
      PROVE  /\ job \in Job /\ job.op = jobs[j].op /\ job.got = jobs[j].got
             /\ job.left = jobs[j].left /\ job.unread = jobs[j].unread
             /\ \A c \in Cids : job.res[c] = IF c \in pairs THEN "both"
                                             ELSE IF c \in half THEN "upload" ELSE jobs[j].res[c]
  BY <1>1, <1>2 DEF Reserved, Job
<1>3. CASE ReserveFails(j)
  <2>1. PICK pairs, half : Fail(j, ReleaseAll(Reserved(jobs[j], pairs, half)))
    BY <1>3 DEF ReserveFails
  <2>2. PICK job : job = Reserved(jobs[j], pairs, half)
    OBVIOUS
  <2>3. PICK released : released = ReleaseAll(job)
    OBVIOUS
  <2>4. /\ released \in Job /\ released.left = jobs[j].left /\ released.unread = jobs[j].unread
        /\ released.op = jobs[j].op
    BY <1>2, <2>2, <2>3, ReleasedLeft
  <2> QED
    BY <2>1, <2>2, <2>3, <2>4, FailLeaves
<1>4. CASE CreatePerBlockReservations(j)
  <2>1. PICK job : job = Reserved(jobs[j], jobs[j].todo, {})
    OBVIOUS
  <2>2. /\ job \in Job /\ job.op = jobs[j].op /\ job.got = jobs[j].got
        /\ job.left = jobs[j].left /\ job.unread = jobs[j].unread
        /\ \A c \in Cids : job.res[c] = IF c \in jobs[j].todo THEN "both" ELSE jobs[j].res[c]
    BY <1>2, <2>1
  <2>3. jobs'[j] = IF job.op = "retrieve" THEN [job EXCEPT !.pc = "fetch", !.todo = {}]
                   ELSE [job EXCEPT !.pc = "process", !.todo = job.got]
    BY <1>1, <1>4, <2>1 DEF CreatePerBlockReservations, Set
  <2>4. CASE job.op = "retrieve"
    <3> DEFINE new == [job EXCEPT !.pc = "fetch", !.todo = {}]
    <3>1. /\ new.pc = "fetch" /\ new.left = job.left /\ new.unread = job.unread /\ new.got = job.got
          /\ new.res = job.res
      BY <2>2 DEF Job
    <3>2. jobs'[j] = new
      BY <2>3, <2>4
    <3> HIDE DEF new
    <3>3. jobs[j].left.blocks = {} /\ jobs[j].todo \subseteq jobs[j].got
      BY <1>1, <2>2, <2>4 DEF Leaving
    <3> QED
      BY <1>1, <2>2, <3>1, <3>2, <3>3 DEF Leaving
  <2>5. CASE job.op # "retrieve"
    <3> DEFINE new == [job EXCEPT !.pc = "process", !.todo = job.got]
    <3>1. jobs'[j] = new /\ new.left = jobs[j].left /\ new.unread = jobs[j].unread /\ new.op # "retrieve"
      BY <2>2, <2>3, <2>5 DEF Job
    <3> QED
      BY <1>1, <3>1, SameLeaving
  <2> QED
    BY <2>4, <2>5
<1> QED
  BY <1>3, <1>4

LEMMA FetchLeaves ==
  ASSUME Inv, LeavingInv, NEW j \in Jobs, Fetch(j) \/ FetchFails(j) \/ DataFails(j)
  PROVE  Leaving(jobs'[j])
<1>1. /\ jobs[j] \in Job /\ jobs \in [Jobs -> Job] /\ Leaving(jobs[j]) /\ jobs[j].pc = "fetch"
      /\ jobs[j].op = "retrieve"
  BY DEF Inv, LeavingInv, Fetch, FetchFails, DataFails, JobShape, OpOfPlace
<1>2. CASE FetchFails(j)
  <2> DEFINE job == [cleanupDownloadReservation(jobs[j]) EXCEPT !.broke = TRUE]
  <2>1. job \in Job /\ job.left = jobs[j].left /\ job.unread = jobs[j].unread /\ job.op = jobs[j].op
    BY <1>1 DEF cleanupDownloadReservation, Job
  <2>2. Fail(j, job)
    BY <1>2 DEF FetchFails
  <2> HIDE DEF job
  <2> QED
    BY <2>1, <2>2, FailLeaves
<1>3. CASE DataFails(j)
  BY <1>1, <1>3, ReleasedLeft, FailLeaves DEF DataFails
<1>4. CASE Fetch(j)
  <2> DEFINE job == [jobs[j] EXCEPT !.cids = {jobs[j].cid} \union jobs[j].got]
  <2> DEFINE reserved == {c \in jobs[j].got : jobs[j].res[c] = "both"}
  <2>1. /\ job \in Job /\ job.left = jobs[j].left /\ job.unread = jobs[j].unread /\ job.op = jobs[j].op
        /\ job.res = jobs[j].res
    BY <1>1 DEF Job
  <2>2. PICK valid \in SUBSET reserved :
           IF valid = {} THEN Fail(j, ReleaseAll(job))
           ELSE /\ Set(j, [job EXCEPT !.pc = "process", !.todo = valid, !.unread = reserved \ valid])
                /\ UNCHANGED blame
    BY <1>4 DEF Fetch
  <2> HIDE DEF job
  <2>3. CASE valid = {}
    BY <2>1, <2>2, <2>3, ReleasedLeft, FailLeaves
  <2>4. CASE valid # {}
    <3> DEFINE new == [job EXCEPT !.pc = "process", !.todo = valid, !.unread = reserved \ valid]
    <3>1. /\ new.pc = "process" /\ new.left = jobs[j].left /\ new.unread = reserved \ valid /\ new.todo = valid
          /\ new.res = jobs[j].res
      BY <2>1 DEF Job
    <3>2. jobs'[j] = new
      BY <1>1, <2>2, <2>4 DEF Set
    <3> HIDE DEF new
    <3>3. jobs[j].left.blocks = {} /\ \A c \in Cids : jobs[j].res[c] \in Held => c \in reserved
      BY <1>1 DEF Leaving
    <3> QED
      BY <3>1, <3>2, <3>3 DEF Leaving
  <2> QED
    BY <2>3, <2>4
<1> QED
  BY <1>2, <1>3, <1>4

LEMMA ProcessLeaves ==
  ASSUME Inv, LeavingInv, NEW j \in Jobs, NEW c \in Cids, ProcessUpload(j, c)
  PROVE  Leaving(jobs'[j])
<1>1. /\ jobs[j] \in Job /\ jobs \in [Jobs -> Job] /\ Leaving(jobs[j]) /\ jobs[j].pc = "process"
      /\ c \in jobs[j].todo
  BY DEF Inv, LeavingInv, ProcessUpload
<1> DEFINE job == [jobs[j] EXCEPT !.todo = @ \ {c}, !.put = @ \union {c},
                                  !.res[c] = IF @ = "both" THEN "settled" ELSE @]
<1>2. /\ job \in Job /\ job.pc = "process" /\ job.op = jobs[j].op /\ job.todo = jobs[j].todo \ {c}
      /\ job.left = jobs[j].left /\ job.unread = jobs[j].unread
      /\ job.res = [jobs[j].res EXCEPT ![c] = IF @ = "both" THEN "settled" ELSE @]
  BY <1>1 DEF Job
<1>3. jobs'[j] = AfterCid(job)
  BY <1>1 DEF ProcessUpload, Set
<1> HIDE DEF job
<1>4. \A d \in Cids : job.res[d] = IF d = c /\ jobs[j].res[d] = "both" THEN "settled" ELSE jobs[j].res[d]
  <2>1. jobs[j].res \in [Cids -> {"none", "upload", "both", "settled"}]
    BY <1>1 DEF Job
  <2> QED
    BY <1>2, <2>1
<1>5. CASE job.op # "retrieve"
  <2>1. CASE job.todo # {}
    BY <1>1, <1>2, <1>3, <1>5, <2>1, SameLeaving DEF AfterCid
  <2>2. CASE job.todo = {}
    <3>1. jobs'[j] = [job EXCEPT !.pc = "root"]
      BY <1>3, <1>5, <2>2 DEF AfterCid
    <3>2. jobs'[j].left = jobs[j].left /\ jobs'[j].unread = jobs[j].unread /\ jobs'[j].op # "retrieve"
      BY <1>2, <1>5, <3>1 DEF Job
    <3> QED
      BY <1>1, <3>2, SameLeaving
  <2> QED
    BY <2>1, <2>2
<1>6. CASE job.op = "retrieve"
  <2>1. \A d \in Cids : job.res[d] \in Held => d \in job.todo \union job.unread
    <3> SUFFICES ASSUME NEW d \in Cids, job.res[d] \in Held PROVE d \in job.todo \union job.unread
      OBVIOUS
    <3>1. jobs[j].res[d] \in Held /\ (d # c \/ jobs[j].res[d] # "both")
      BY <1>4 DEF Held
    <3>2. jobs[j].res[d] = "both" /\ d \in jobs[j].todo \union jobs[j].unread
      BY <1>1, <1>2, <1>6, <3>1 DEF Leaving
    <3>3. d # c
      BY <3>1, <3>2
    <3> QED
      BY <1>2, <3>2, <3>3
  <2>2. CASE job.todo # {}
    <3>1. jobs'[j] = job /\ \A d \in Cids : job.res[d] \in Held => job.res[d] = "both"
      <4>1. \A d \in Cids : jobs[j].res[d] \in Held => jobs[j].res[d] = "both"
        BY <1>1, <1>2, <1>6 DEF Leaving
      <4> QED
        BY <1>3, <1>4, <2>2, <4>1 DEF AfterCid, Held
    <3>2. jobs[j].left.blocks = {}
      BY <1>1, <1>2, <1>6 DEF Leaving
    <3> QED
      BY <1>2, <2>1, <3>1, <3>2 DEF Leaving
  <2>3. CASE job.todo = {}
    <3>1. jobs'[j] = ToConfirm(job)
      BY <1>3, <1>6, <2>3 DEF AfterCid
    <3> QED
      BY <1>2, <2>1, <2>3, <3>1, ConfirmLeaves
  <2> QED
    BY <2>2, <2>3
<1> QED
  BY <1>5, <1>6

LEMMA FinishLeaves ==
  ASSUME Inv, LeavingInv, NEW j \in Jobs,
         \/ ProcessFails(j) \/ Check(j) \/ CreateRootPin(j) \/ CreateRootPinFails(j)
         \/ SetPinned(j) \/ SetPinnedFails(j) \/ UpdateWorkflow(j)
  PROVE  Leaving(jobs'[j])
<1>1. /\ jobs[j] \in Job /\ jobs \in [Jobs -> Job] /\ Leaving(jobs[j]) /\ OpOfPlace(jobs[j])
  BY DEF Inv, LeavingInv, JobShape
<1>2. CASE ProcessFails(j)
  BY <1>1, <1>2, ReleasedLeft, FailLeaves DEF ProcessFails
<1>3. ASSUME LateFail(j) PROVE Leaving(jobs'[j])
  BY <1>1, <1>3, ReleasedLeft, FailLeaves DEF LateFail
<1>4. CASE Check(j)
  <2>1. /\ jobs'[j].left = jobs[j].left /\ jobs'[j].unread = jobs[j].unread /\ jobs'[j].op = "confirm"
    BY <1>1, <1>4 DEF Check, At, Set, Job
  <2> QED
    BY <1>1, <2>1, SameLeaving
<1>5. CASE CreateRootPin(j) \/ CreateRootPinFails(j)
  <2>1. CASE CreateRootPin(j)
    <3>1. jobs[j].op \in {"confirm", "upload"}
      BY <1>1, <2>1 DEF CreateRootPin, OpOfPlace
    <3>2. /\ jobs'[j].left = jobs[j].left /\ jobs'[j].unread = jobs[j].unread /\ jobs'[j].op = jobs[j].op
      BY <1>1, <2>1 DEF CreateRootPin, Set, Job
    <3> QED
      BY <1>1, <3>1, <3>2, SameLeaving
  <2>2. CASE CreateRootPinFails(j)
    BY <1>3, <2>2 DEF CreateRootPinFails
  <2> QED
    BY <1>5, <2>1, <2>2
<1>6. CASE SetPinned(j) \/ SetPinnedFails(j)
  <2>1. jobs[j].op \in {"confirm", "upload"}
    BY <1>1, <1>6 DEF SetPinned, SetPinnedFails, OpOfPlace
  <2>2. CASE Set(j, Ended(jobs[j], "done"))
    <3>1. /\ jobs'[j].left = jobs[j].left /\ jobs'[j].unread = jobs[j].unread /\ jobs'[j].op = "none"
      BY <1>1, <2>2 DEF Set, Ended, IdleJob
    <3> QED
      BY <1>1, <3>1, SameLeaving
  <2>3. CASE Set(j, [jobs[j] EXCEPT !.pc = "data"])
    <3>1. /\ jobs'[j].left = jobs[j].left /\ jobs'[j].unread = jobs[j].unread /\ jobs'[j].op = jobs[j].op
      BY <1>1, <2>3 DEF Set, Job
    <3> QED
      BY <1>1, <2>1, <3>1, SameLeaving
  <2>4. CASE Fail(j, jobs[j])
    BY <1>1, <2>4, FailLeaves
  <2> QED
    BY <1>6, <2>2, <2>3, <2>4 DEF SetPinned, SetPinnedFails
<1>7. CASE UpdateWorkflow(j)
  <2>1. CASE Set(j, [IdleJob EXCEPT !.pc = "done", !.res = jobs[j].res])
    <3> DEFINE new == [IdleJob EXCEPT !.pc = "done", !.res = jobs[j].res]
    <3>1. jobs'[j] = new /\ new.left = IdleJob.left /\ new.pc = "done"
      BY <1>1, <2>1 DEF Set, IdleJob
    <3> QED
      BY <3>1, FreshLeaving
  <2> QED
    BY <1>3, <1>7, <2>1 DEF UpdateWorkflow
<1> QED
  BY <1>2, <1>4, <1>5, <1>6, <1>7

LEMMA NextLeaves == Inv /\ LeavingInv /\ [Next]_pinVars => LeavingInv'
<1> SUFFICES ASSUME Inv, LeavingInv, [Next]_pinVars PROVE LeavingInv'
  OBVIOUS
<1>1. ASSUME NEW a \in Calls, CallStep(a) PROVE LeavingInv'
  <2>1. CASE UNCHANGED jobs
    BY <2>1 DEF LeavingInv
  <2>2. ASSUME startPinWorkflow(a), NEW j \in Jobs,
               jobs' = [jobs EXCEPT ![j] = [IdleJob EXCEPT !.pc = "begin", !.op = "retrieve", !.rid = calls[a].rid,
                                                           !.user = rows[calls[a].rid].user,
                                                           !.cid = rows[calls[a].rid].cid]]
        PROVE  LeavingInv'
    <3> DEFINE new == [IdleJob EXCEPT !.pc = "begin", !.op = "retrieve", !.rid = calls[a].rid,
                                      !.user = rows[calls[a].rid].user, !.cid = rows[calls[a].rid].cid]
    <3>1. new.left = IdleJob.left /\ new.pc = "begin" /\ jobs' = [jobs EXCEPT ![j] = new]
      BY <2>2 DEF IdleJob
    <3> HIDE DEF new
    <3>2. Leaving(new) /\ jobs \in [Jobs -> Job]
      BY <3>1, FreshLeaving DEF Inv
    <3> QED
      BY <3>1, <3>2 DEF LeavingInv
  <2>3. startPinWorkflow(a) => LeavingInv'
    BY <2>1, <2>2 DEF startPinWorkflow
  <2>4. startPinWorkflow(a) \/ UNCHANGED jobs
    BY <1>1 DEF CallStep, addPin, DeletePinForUser, ReplacePinForUser, ForUser, ReplacePin, ReplaceFails,
                DeleteTx, CountFails, DeleteNotFound, DeleteCommit, DeleteRollback, GetCorePin, Unpin, UnpinFails
  <2> QED
    BY <2>1, <2>3, <2>4
<1>2. ASSUME NEW j \in Jobs, JobStep(j) PROVE LeavingInv'
  <2>1. Leaving(jobs'[j])
    BY <1>2, EngineLeaves, CollectLeaves, ReserveLeaves, FetchLeaves, ProcessLeaves, FinishLeaves DEF JobStep
  <2>2. \A i \in Jobs \ {j} : jobs'[i] = jobs[i]
    BY <1>2, JobStepMoves DEF JobMoves
  <2> QED
    BY <2>1, <2>2 DEF LeavingInv
<1>3. CASE UNCHANGED pinVars
  BY <1>3 DEF pinVars, LeavingInv
<1> QED
  BY <1>1, <1>2, <1>3 DEF Next

(* No attempt ends with quota reserved, except where the code gives up the  *)
(* handles: in Retrieve's failing fetch, and for what a Retrieve that       *)
(* succeeds has not processed.  Everywhere else the error paths of          *)
(* PostUpload, of the TUS upload and of Retrieve release what is not        *)
(* settled, wherever among the blocks they fail; and a retrieval leaves no  *)
(* block reserved but those it could not read back.                         *)
THEOREM NoLeak == Spec => []AttemptsEndClean
<1>1. Inv /\ LeavingInv => AttemptsEndClean
  BY DEF Inv, AttemptsEndClean, JobShape, Reservations, LeavingInv, Leaving
<1>2. Init => LeavingInv
  <2> SUFFICES ASSUME Init, NEW j \in Jobs PROVE Leaving(jobs[j])
    BY DEF LeavingInv
  <2>1. jobs[j] = IdleJob /\ IdleJob.pc = "free"
    BY DEF Init, PinInit, IdleJob
  <2> QED
    BY <2>1, FreshLeaving
<1> QED
  BY <1>1, <1>2, InitInv, NextInv, NextLeaves, PTL DEF Spec
-----------------------------------------------------------------------------
(* Whether request i has pinned the root k and not yet created its record.  *)
Holds(i, k) == <<jobs[i].user, jobs[i].cid>> = k /\ jobs[i].cid \in jobs[i].put

(* A step of a request changes nothing that a deletion is to a key.         *)
LEMMA JobFrame ==
  ASSUME Inv, NEW j \in Jobs, JobMoves(j), NEW k \in Keys
  PROVE  /\ calls' = calls
         /\ \A a \in Calls : /\ Unpins(a, k)' <=> Unpins(a, k)
                             /\ Reports(a, k)' <=> Reports(a, k)
                             /\ Spares(a, k)' <=> Spares(a, k)
         /\ \A i \in Jobs \ {j} : Holds(i, k)' <=> Holds(i, k)
<1>1. Grows /\ calls' = calls /\ \A i \in Jobs \ {j} : jobs'[i] = jobs[i]
  BY JobRows DEF JobMoves
<1>2. ASSUME NEW a \in Calls
      PROVE  /\ Unpins(a, k)' <=> Unpins(a, k)
             /\ Reports(a, k)' <=> Reports(a, k)
             /\ Spares(a, k)' <=> Spares(a, k)
  <2>1. CallShape(calls[a], rows)
    BY DEF Inv
  <2>2. CASE calls[a].pc \in {"idle", "done", "failed"}
    <3>1. ~calls[a].unpin /\ ~calls[a].found /\ calls[a].pc # "commit"
      BY <2>1, <2>2 DEF CallShape
    <3> QED
      BY <1>1, <3>1 DEF Unpins, Reports, Spares
  <2>3. CASE calls[a].pc \notin {"idle", "done", "failed"}
    <3>1. calls[a].rid \in 1 .. Len(rows)
      BY <2>3, CallRecord
    <3>2. CallKey(a)' = CallKey(a)
      BY <1>1, <3>1 DEF CallKey, Grows
    <3> QED
      BY <1>1, <3>2 DEF Unpins, Reports, Spares
  <2> QED
    BY <2>2, <2>3
<1>3. \A i \in Jobs \ {j} : Holds(i, k)' <=> Holds(i, k)
  BY <1>1 DEF Holds
<1> QED
  BY <1>1, <1>2, <1>3

(* What a step of a request does to one key.                                *)
LEMMA JobEffect ==
  ASSUME Inv, NEW j \in Jobs, JobMoves(j), NEW k \in Keys
  PROVE  /\ blame[k] \subseteq blame'[k]
         /\ \/ /\ LiveOf(k)' = LiveOf(k) /\ billed'[k] = billed[k] /\ (k \in core' <=> k \in core)
               /\ Holds(j, k)' => Holds(j, k)
               /\ Holds(j, k) => Holds(j, k)' \/ "abandoned" \in blame'[k]
               /\ \A r \in LiveOf(k) : Used(r)' => Used(r) \/ "empty" \in blame'[k]
            \/ /\ LiveOf(k)' = LiveOf(k) /\ billed'[k] = billed[k] + 1 /\ k \in core'
               /\ \A r \in LiveOf(k) : Used(r)' => Used(r)
               /\ (\E a \in Calls : Unpins(a, k)) => "overlap" \in blame'[k]
               /\ Holds(j, k)' \/ "child" \in blame'[k]
            \/ /\ LiveOf(k) \subseteq LiveOf(k)' /\ LiveOf(k)' # {} /\ Holds(j, k) /\ ~Holds(j, k)'
               /\ UNCHANGED <<billed, core>>
<1>1. /\ Grows /\ \A r \in 1 .. Len(rows) : rows'[r].live = rows[r].live
      /\ \A i \in Jobs \ {j} : jobs'[i] = jobs[i]
      /\ rows \in Seq(Row) /\ JobShape(jobs[j]) /\ OwnRecord(j)
      /\ core \subseteq Keys /\ billed \in [Keys -> Int] /\ blame \in [Keys -> SUBSET Reasons]
  BY JobRows DEF JobMoves, Inv
<1>2. ASSUME rows' = rows PROVE LiveOf(k)' = LiveOf(k)
  BY <1>2 DEF LiveOf, KeyOf
<1>3. ASSUME rows' = rows, jobs'[j].pc # "status", NEW r PROVE Used(r)' => Used(r)
  BY <1>1, <1>3 DEF Used
<1>4. CASE Drops(j)
  <2>1. ~Holds(j, k)'
    BY <1>4 DEF Drops, Holds
  <2>2. Holds(j, k) => "abandoned" \in blame'[k]
    BY <1>1, <1>4 DEF Drops, Holds, Blame, JobKey
  <2>3. blame[k] \subseteq blame'[k]
    BY <1>1, <1>4 DEF Drops, Blame
  <2> QED
    BY <1>2, <1>3, <1>4, <2>1, <2>2, <2>3 DEF Drops
<1>5. ASSUME NEW c \in Cids, Puts(j, c)
      PROVE  /\ blame[k] \subseteq blame'[k]
             /\ \/ /\ LiveOf(k)' = LiveOf(k) /\ billed'[k] = billed[k] /\ (k \in core' <=> k \in core)
                   /\ Holds(j, k)' => Holds(j, k)
                   /\ Holds(j, k) => Holds(j, k)' \/ "abandoned" \in blame'[k]
                   /\ \A r \in LiveOf(k) : Used(r)' => Used(r) \/ "empty" \in blame'[k]
                \/ /\ LiveOf(k)' = LiveOf(k) /\ billed'[k] = billed[k] + 1 /\ k \in core'
                   /\ \A r \in LiveOf(k) : Used(r)' => Used(r)
                   /\ (\E a \in Calls : Unpins(a, k)) => "overlap" \in blame'[k]
                   /\ Holds(j, k)' \/ "child" \in blame'[k]
  <2>1. PICK b \in Keys : b = JobKey(j, c)
    BY <1>5 DEF Puts, JobKey, Keys
  <2>2. /\ core' = core \union {b} /\ billed' = [billed EXCEPT ![b] = @ + 1]
        /\ blame' = [blame EXCEPT ![b] = @ \union (IF c = jobs[j].cid THEN {} ELSE {"child"})
                                             \union (IF Deciding(b) THEN {"overlap"} ELSE {})]
        /\ rows' = rows /\ jobs'[j].pc # "status"
        /\ jobs'[j].user = jobs[j].user /\ jobs'[j].cid = jobs[j].cid
        /\ jobs'[j].cid \in jobs'[j].put <=> jobs[j].cid \in jobs[j].put \union {c}
    BY <1>5, <2>1 DEF Puts
  <2>3. blame[k] \subseteq blame'[k]
    BY <1>1, <2>2
  <2>4. LiveOf(k)' = LiveOf(k) /\ \A r \in LiveOf(k) : Used(r)' => Used(r)
    BY <1>2, <1>3, <2>2
  <2>5. CASE b # k
    <3>1. billed'[k] = billed[k] /\ (k \in core' <=> k \in core)
      BY <1>1, <2>2, <2>5
    <3>2. Holds(j, k)' <=> Holds(j, k)
      BY <2>1, <2>2, <2>5 DEF Holds, JobKey
    <3> QED
      BY <2>3, <2>4, <3>1, <3>2
  <2>6. CASE b = k
    <3>1. billed'[k] = billed[k] + 1 /\ k \in core'
      BY <1>1, <2>2, <2>6
    <3>2. ASSUME NEW a \in Calls, Unpins(a, k) PROVE "overlap" \in blame'[k]
      <4>1. CallShape(calls[a], rows)
        BY DEF Inv
      <4>2. Deciding(k)
        BY <3>2, <4>1 DEF Unpins, CallKey, CallShape, Deciding, KeyOf
      <4> QED
        BY <1>1, <2>2, <2>6, <4>2
    <3>3. Holds(j, k)' \/ "child" \in blame'[k]
      <4>1. CASE c = jobs[j].cid
        BY <2>1, <2>2, <2>6, <4>1 DEF Holds, JobKey
      <4>2. CASE c # jobs[j].cid
        BY <1>1, <2>2, <2>6, <4>2
      <4> QED
        BY <4>1, <4>2
    <3> QED
      BY <2>3, <2>4, <3>1, <3>2, <3>3
  <2> QED
    BY <2>5, <2>6
<1>6. CASE Skips(j)
  <2>1. PICK b \in Keys : b = JobKey(j, jobs[j].cid)
    BY <1>1, <1>6 DEF Skips, JobKey, Keys, JobShape, OpOfPlace, Job
  <2>2. blame[k] \subseteq blame'[k] /\ (b = k => "empty" \in blame'[k])
    BY <1>1, <1>6, <2>1 DEF Skips, Blame
  <2>3. LiveOf(k)' = LiveOf(k) /\ UNCHANGED <<billed, core>>
    BY <1>2, <1>6 DEF Skips
  <2>4. ~Holds(j, k)' /\ ~Holds(j, k)
    BY <1>6 DEF Skips, Holds
  <2>5. ASSUME NEW r \in LiveOf(k), Used(r)', ~Used(r) PROVE "empty" \in blame'[k]
    <3>1. rows' = rows /\ jobs[j].rid # 0 /\ jobs'[j].rid = jobs[j].rid /\ jobs[j].op = "confirm"
      BY <1>1, <1>6 DEF Skips, OwnRecord
    <3>2. r = jobs[j].rid
      BY <1>1, <2>5, <3>1 DEF Used
    <3>3. KeyOf(r) = k
      BY DEF LiveOf
    <3> QED
      BY <1>1, <2>1, <2>2, <3>1, <3>2, <3>3 DEF OwnRecord, KeyOf, JobKey
  <2> QED
    BY <2>2, <2>3, <2>4, <2>5
<1>7. CASE Roots(j)
  <2>1. /\ jobs[j].user \in Users /\ jobs[j].cid \in Cids /\ jobs[j].cid \in jobs[j].put /\ jobs'[j].put = {}
        /\ rows' = Append(rows, NewRow(jobs[j].user, jobs[j].cid)) /\ jobs[j].op # "none"
        /\ jobs'[j].pc = "status" /\ jobs'[j].rid \in {jobs[j].rid, Len(rows) + 1}
        /\ jobs'[j].rid = jobs[j].rid => jobs[j].rid # 0
        /\ UNCHANGED <<core, billed, blame>>
    BY <1>1, <1>7 DEF Roots, JobShape, OpOfPlace, Putting, Job
  <2>2. /\ Len(rows') = Len(rows) + 1 /\ rows'[Len(rows) + 1] = NewRow(jobs[j].user, jobs[j].cid)
        /\ \A r \in 1 .. Len(rows) : rows'[r] = rows[r]
        /\ DOMAIN rows' = 1 .. Len(rows) + 1 /\ DOMAIN rows = 1 .. Len(rows) /\ Len(rows) \in Nat
    BY <1>1, <2>1, Added
  <2>3. ~Holds(j, k)'
    BY <2>1 DEF Holds
  <2>4. CASE JobKey(j, jobs[j].cid) = k
    <3>1. Len(rows) + 1 \in LiveOf(k)'
      BY <2>2, <2>4 DEF LiveOf, KeyOf, NewRow, JobKey
    <3>2. LiveOf(k) \subseteq LiveOf(k)'
      BY <2>2 DEF LiveOf, KeyOf
    <3>3. Holds(j, k)
      BY <2>1, <2>4 DEF Holds, JobKey
    <3> QED
      BY <2>1, <2>3, <3>1, <3>2, <3>3
  <2>5. CASE JobKey(j, jobs[j].cid) # k
    <3>1. LiveOf(k)' = LiveOf(k)
      BY <2>2, <2>5 DEF LiveOf, KeyOf, NewRow, JobKey
    <3>2. ~Holds(j, k)
      BY <2>5 DEF Holds, JobKey
    <3>3. ASSUME NEW r \in LiveOf(k), Used(r)' PROVE Used(r)
      <4>1. r \in 1 .. Len(rows) /\ KeyOf(r) = k /\ rows'[r] = rows[r]
        BY <2>2 DEF LiveOf
      <4>2. jobs'[j].rid # r
        <5>1. jobs[j].rid # 0 => KeyOf(jobs[j].rid) = JobKey(j, jobs[j].cid)
          BY <1>1, <2>1 DEF OwnRecord, KeyOf, JobKey
        <5> QED
          BY <2>1, <2>2, <2>5, <4>1, <5>1
      <4> QED
        BY <1>1, <3>3, <4>1, <4>2 DEF Used
    <3> QED
      BY <2>1, <2>3, <3>1, <3>2, <3>3
  <2> QED
    BY <2>4, <2>5
<1>8. CASE Pins(j)
  <2>1. /\ rows' = [rows EXCEPT ![jobs[j].rid].status = "pinned"] /\ UNCHANGED <<core, billed, blame>>
        /\ jobs[j].pc = "status" /\ jobs'[j].pc # "status" /\ jobs[j].rid \in 1 .. Len(rows)
    BY <1>1, <1>8 DEF Pins, OwnRecord
  <2>2. Len(rows') = Len(rows) /\ \A r \in (1 .. Len(rows)) \ {jobs[j].rid} : rows'[r] = rows[r]
    BY <1>1, <2>1
  <2>3. LiveOf(k)' = LiveOf(k)
    BY <1>1, <2>2 DEF LiveOf, KeyOf, Grows
  <2>4. ASSUME NEW r \in LiveOf(k), Used(r)' PROVE Used(r)
    <3>1. r \in 1 .. Len(rows)
      BY <1>1 DEF LiveOf
    <3> QED
      BY <1>1, <2>1, <2>2, <2>4, <3>1 DEF Used
  <2>5. ~Holds(j, k)' /\ ~Holds(j, k)
    BY <1>8 DEF Pins, Holds
  <2> QED
    BY <2>1, <2>3, <2>4, <2>5
<1> QED
  BY <1>4, <1>5, <1>6, <1>7, <1>8 DEF JobMoves

(* Steps of requests keep the ledgers of every key.                         *)
LEMMA JobKeepsLedger ==
  ASSUME Inv, NEW j \in Jobs, JobMoves(j), NEW k \in Keys, KeyInv(k)
  PROVE  KeyInv(k)'
<1>1. /\ calls' = calls
      /\ \A a \in Calls : /\ Unpins(a, k)' <=> Unpins(a, k)
                          /\ Reports(a, k)' <=> Reports(a, k)
                          /\ Spares(a, k)' <=> Spares(a, k)
      /\ \A i \in Jobs \ {j} : Holds(i, k)' <=> Holds(i, k)
  BY JobFrame
<1>2. /\ Rooting(k) <=> \E i \in Jobs : Holds(i, k)
      /\ Rooting(k)' <=> \E i \in Jobs : Holds(i, k)'
  BY DEF Rooting, Holds
<1>3. blame[k] \subseteq blame'[k] /\ billed[k] \in Int
  BY JobEffect DEF Inv
<1>4. Single(k)'
  BY <1>1, <1>3 DEF KeyInv, Single, Deletes
<1>5. CASE /\ LiveOf(k)' = LiveOf(k) /\ billed'[k] = billed[k] /\ (k \in core' <=> k \in core)
           /\ Holds(j, k)' => Holds(j, k)
           /\ Holds(j, k) => Holds(j, k)' \/ "abandoned" \in blame'[k]
           /\ \A r \in LiveOf(k) : Used(r)' => Used(r) \/ "empty" \in blame'[k]
  <2>1. Rooting(k)' => Rooting(k)
    BY <1>1, <1>2, <1>5
  <2>2. Rooting(k) => Rooting(k)' \/ "abandoned" \in blame'[k]
    BY <1>1, <1>2, <1>5
  <2>3. Unused(k)' /\ InPortal(k)'
    BY <1>1, <1>3, <1>5, <2>1 DEF KeyInv, Unused, InPortal
  <2>4. Counted(k)'
    BY <1>1, <1>3, <1>5 DEF KeyInv, Counted
  <2>5. Accounted(k)'
    BY <1>1, <1>3, <1>5, <2>2 DEF KeyInv, Accounted
  <2> QED
    BY <1>4, <2>3, <2>4, <2>5 DEF KeyInv
<1>6. CASE /\ LiveOf(k)' = LiveOf(k) /\ billed'[k] = billed[k] + 1 /\ k \in core'
           /\ \A r \in LiveOf(k) : Used(r)' => Used(r)
           /\ (\E a \in Calls : Unpins(a, k)) => "overlap" \in blame'[k]
           /\ Holds(j, k)' \/ "child" \in blame'[k]
  <2>1. Unused(k)' /\ InPortal(k)'
    BY <1>1, <1>6 DEF Unused, InPortal
  <2>2. Counted(k)'
    BY <1>1, <1>3, <1>6 DEF KeyInv, Counted
  <2>3. Accounted(k)'
    BY <1>1, <1>2, <1>3, <1>6 DEF KeyInv, Accounted
  <2> QED
    BY <1>4, <2>1, <2>2, <2>3 DEF KeyInv
<1>7. CASE /\ LiveOf(k) \subseteq LiveOf(k)' /\ LiveOf(k)' # {} /\ Holds(j, k) /\ ~Holds(j, k)'
           /\ UNCHANGED <<billed, core>>
  <2>1. Rooting(k)
    BY <1>2, <1>7
  <2>2. Unused(k)' /\ InPortal(k)'
    BY <1>1, <1>3, <1>7, <2>1 DEF KeyInv, Unused, InPortal
  <2>3. Counted(k)'
    BY <1>1, <1>3, <1>7 DEF KeyInv, Counted
  <2>4. Accounted(k)'
    BY <1>1, <1>3, <1>7 DEF KeyInv, Accounted
  <2> QED
    BY <1>4, <2>2, <2>3, <2>4 DEF KeyInv
<1> QED
  BY <1>5, <1>6, <1>7, JobEffect
-----------------------------------------------------------------------------
(* A step that adds at most new, unused records to a key and no deletion,   *)
(* and that says so when it drops a record or a decision to unpin, keeps    *)
(* the key's ledgers.                                                       *)
LEMMA Quiet ==
  ASSUME NEW k \in Keys, KeyInv(k), blame[k] \subseteq blame'[k],
         billed'[k] = billed[k], k \in core' <=> k \in core, Rooting(k)' <=> Rooting(k),
         LiveOf(k) \subseteq LiveOf(k)' \/ ~(blame'[k] \subseteq {"empty"}),
         \A r \in LiveOf(k)' : Used(r)' => r \in LiveOf(k) /\ Used(r),
         \A a \in Calls :
            /\ Unpins(a, k)' => Unpins(a, k) /\ calls'[a].rid = calls[a].rid
            /\ Spares(a, k)' => Spares(a, k) /\ calls'[a].rid = calls[a].rid
            /\ Reports(a, k)' => Reports(a, k) \/ k \in core
            /\ Unpins(a, k) => Unpins(a, k)' \/ LiveOf(k) # {} \/ ~(blame'[k] \subseteq {"empty"})
  PROVE  KeyInv(k)'
<1>1. Single(k)'
  BY DEF KeyInv, Single, Deletes
<1>2. Unused(k)' /\ InPortal(k)'
  BY DEF KeyInv, Unused, InPortal
<1>3. Counted(k)'
  BY DEF KeyInv, Counted
<1>4. Accounted(k)'
  BY DEF KeyInv, Accounted
<1> QED
  BY <1>1, <1>2, <1>3, <1>4 DEF KeyInv

(* What a call is to a key changes only by its own steps.                   *)
LEMMA OtherCalls ==
  ASSUME Inv, Grows, NEW b \in Calls, calls'[b] = calls[b], NEW k \in Keys
  PROVE  /\ Unpins(b, k)' <=> Unpins(b, k)
         /\ Reports(b, k)' <=> Reports(b, k)
         /\ Spares(b, k)' <=> Spares(b, k)
<1>1. CallShape(calls[b], rows)
  BY DEF Inv
<1>2. CASE calls[b].pc \in {"idle", "done", "failed"}
  <2>1. ~calls[b].unpin /\ ~calls[b].found /\ calls[b].pc # "commit"
    BY <1>1, <1>2 DEF CallShape
  <2> QED
    BY <2>1 DEF Unpins, Reports, Spares
<1>3. CASE calls[b].pc \notin {"idle", "done", "failed"}
  <2>1. calls[b].rid \in 1 .. Len(rows)
    BY <1>3, CallRecord
  <2>2. CallKey(b)' = CallKey(b)
    BY <2>1 DEF CallKey, Grows
  <2> QED
    BY <2>2 DEF Unpins, Reports, Spares
<1> QED
  BY <1>2, <1>3

(* A call that goes on without taking a decision.                           *)
LEMMA QuietCalls ==
  ASSUME Inv, NEW a \in Calls, NEW k \in Keys, KeyInv(k), UNCHANGED <<rows, core, billed>>,
         blame[k] \subseteq blame'[k], Rooting(k)' <=> Rooting(k), \A r : Used(r)' <=> Used(r),
         \A b \in Calls \ {a} : calls'[b] = calls[b],
         calls'[a].unpin => calls[a].unpin /\ calls'[a].rid = calls[a].rid,
         calls'[a].found => calls'[a].rid = calls[a].rid /\ CallKey(a) \in core,
         calls'[a].pc # "commit",
         calls[a].unpin => calls'[a].unpin \/ rows[calls[a].rid].live \/ "unpin" \in blame'[CallKey(a)]
  PROVE  KeyInv(k)'
<1>1. Grows /\ rows \in Seq(Row)
  BY DEF Inv, Grows
<1>2. LiveOf(k)' = LiveOf(k)
  BY DEF LiveOf, KeyOf
<1>3. ASSUME NEW b \in Calls \ {a}
      PROVE  /\ Unpins(b, k)' <=> Unpins(b, k)
             /\ Reports(b, k)' <=> Reports(b, k)
             /\ Spares(b, k)' <=> Spares(b, k)
             /\ calls'[b].rid = calls[b].rid
  BY <1>1, OtherCalls
<1>4. /\ Unpins(a, k)' => Unpins(a, k) /\ calls'[a].rid = calls[a].rid
      /\ ~Spares(a, k)'
      /\ Reports(a, k)' => k \in core
  BY DEF Unpins, Spares, Reports, CallKey
<1>5. Unpins(a, k) => Unpins(a, k)' \/ LiveOf(k) # {} \/ ~(blame'[k] \subseteq {"empty"})
  <2> SUFFICES ASSUME Unpins(a, k) PROVE Unpins(a, k)' \/ LiveOf(k) # {} \/ ~(blame'[k] \subseteq {"empty"})
    OBVIOUS
  <2>1. calls[a].unpin /\ CallKey(a) = k
    BY DEF Unpins
  <2>2. CASE calls'[a].unpin
    BY <2>1, <2>2 DEF Unpins, CallKey
  <2>3. CASE rows[calls[a].rid].live
    <3>1. calls[a].pc \notin {"idle", "done", "failed"}
      BY <2>1 DEF Inv, CallShape
    <3>2. calls[a].rid \in LiveOf(k)
      BY <1>1, <2>1, <2>3, <3>1, CallRecord DEF LiveOf, KeyOf, CallKey
    <3> QED
      BY <3>2
  <2>4. CASE "unpin" \in blame'[k]
    BY <2>4
  <2> QED
    BY <2>1, <2>2, <2>3, <2>4
<1>6. \A b \in Calls :
         /\ Unpins(b, k)' => Unpins(b, k) /\ calls'[b].rid = calls[b].rid
         /\ Spares(b, k)' => Spares(b, k) /\ calls'[b].rid = calls[b].rid
         /\ Reports(b, k)' => Reports(b, k) \/ k \in core
         /\ Unpins(b, k) => Unpins(b, k)' \/ LiveOf(k) # {} \/ ~(blame'[k] \subseteq {"empty"})
  BY <1>3, <1>4, <1>5
<1> QED
  BY <1>2, <1>6, Quiet

(* What a returning call knew is gone.                                      *)
LEMMA ReturnedCall ==
  ASSUME Inv, NEW a \in Calls, NEW pc \in {"done", "failed"}, Return(a, pc)
  PROVE  /\ ~calls'[a].unpin /\ ~calls'[a].found /\ calls'[a].pc # "commit"
         /\ \A b \in Calls \ {a} : calls'[b] = calls[b]
<1>1. PICK new : new = [IdleCall EXCEPT !.pc = pc]
  OBVIOUS
<1>2. new.pc = pc /\ ~new.unpin /\ ~new.found
  BY <1>1, Returned DEF Inv
<1>3. calls \in [Calls -> Call] /\ calls' = [calls EXCEPT ![a] = new]
  BY <1>1 DEF Inv, Return
<1> QED
  BY <1>2, <1>3

(* The steps that take no decision: a start, a look-up, a retry, a failure. *)
LEMMA QuietSteps ==
  ASSUME Inv, NEW a \in Calls, NEW k \in Keys, KeyInv(k),
         \/ \E u \in Users, r \in DOMAIN rows : DeletePinForUser(a, u, r) \/ ReplacePinForUser(a, u, r)
         \/ startPinWorkflow(a) \/ ReplaceFails(a) \/ CountFails(a) \/ DeleteNotFound(a)
         \/ DeleteRollback(a) \/ GetCorePin(a) \/ UnpinFails(a)
  PROVE  KeyInv(k)'
<1>1. /\ calls \in [Calls -> Call] /\ calls[a] \in Call /\ CallShape(calls[a], rows)
      /\ blame \in [Keys -> SUBSET Reasons] /\ jobs \in [Jobs -> Job]
  BY DEF Inv
<1>2. ASSUME UNCHANGED <<rows, jobs>>
      PROVE  (Rooting(k)' <=> Rooting(k)) /\ \A r : Used(r)' <=> Used(r)
  BY <1>2 DEF Rooting, Used
<1>3. ASSUME NEW pc \in {"done", "failed"}, Return(a, pc), UNCHANGED <<rows, core, billed, blame, jobs>>,
             calls[a].unpin => rows[calls[a].rid].live
      PROVE  KeyInv(k)'
  BY <1>2, <1>3, ReturnedCall, QuietCalls
<1>4. ASSUME NEW pc, calls'[a].pc = pc, pc \in {"delete", "replace", "get", "unpin"},
             UNCHANGED <<rows, core, billed, blame, jobs>>,
             \A b \in Calls \ {a} : calls'[b] = calls[b],
             calls'[a].unpin <=> calls[a].unpin, calls[a].unpin => calls'[a].rid = calls[a].rid,
             calls'[a].found => calls'[a].rid = calls[a].rid /\ CallKey(a) \in core
      PROVE  KeyInv(k)'
  BY <1>2, <1>4, QuietCalls
<1>5. ASSUME NEW pc \in {"get", "delete"}, Goto(a, pc), calls[a].pc \in {"delete", "commit"},
             UNCHANGED <<rows, core, billed, blame, jobs>>
      PROVE  KeyInv(k)'
  <2>1. ~calls[a].found
    BY <1>1, <1>5 DEF CallShape
  <2>2. /\ calls'[a].pc = pc /\ calls'[a].unpin = calls[a].unpin /\ calls'[a].found = calls[a].found
        /\ calls'[a].rid = calls[a].rid /\ \A b \in Calls \ {a} : calls'[b] = calls[b]
    BY <1>1, <1>5 DEF Goto, Call
  <2> QED
    BY <1>4, <1>5, <2>1, <2>2
<1>6. ASSUME NEW u \in Users, NEW r \in DOMAIN rows, NEW next \in {"delete", "replace"}, ForUser(a, u, r, next)
      PROVE  KeyInv(k)'
  <2>1. calls[a].pc = "idle" /\ UNCHANGED <<rows, core, billed, blame, jobs>>
    BY <1>6 DEF ForUser
  <2>2. ~calls[a].unpin /\ ~calls[a].found
    BY <1>1, <2>1 DEF CallShape
  <2>3. CASE Return(a, "failed")
    BY <1>3, <2>1, <2>2, <2>3
  <2>4. CASE calls' = [calls EXCEPT ![a].pc = next, ![a].user = u, ![a].rid = r]
    <3>1. /\ calls'[a].pc = next /\ calls'[a].unpin = calls[a].unpin /\ calls'[a].found = calls[a].found
          /\ \A b \in Calls \ {a} : calls'[b] = calls[b]
      BY <1>1, <2>4 DEF Call
    <3> QED
      BY <1>4, <2>1, <2>2, <3>1
  <2> QED
    BY <1>6, <2>3, <2>4 DEF ForUser
<1>7. CASE \E u \in Users, r \in DOMAIN rows : DeletePinForUser(a, u, r) \/ ReplacePinForUser(a, u, r)
  BY <1>6, <1>7 DEF DeletePinForUser, ReplacePinForUser
<1>8. CASE startPinWorkflow(a)
  <2>1. calls[a].pc = "start" /\ UNCHANGED <<rows, core, billed, blame>>
    BY <1>8 DEF startPinWorkflow
  <2>2. ~calls[a].unpin
    BY <1>1, <2>1 DEF CallShape
  <2>3. PICK pc \in {"done", "failed"} : Return(a, pc)
    BY <1>8 DEF startPinWorkflow
  <2>4. CASE UNCHANGED jobs
    BY <1>3, <2>1, <2>2, <2>3, <2>4
  <2>5. ASSUME NEW j \in Jobs, jobs[j].pc = "free",
               jobs' = [jobs EXCEPT ![j] = [IdleJob EXCEPT !.pc = "begin", !.op = "retrieve", !.rid = calls[a].rid,
                                                           !.user = rows[calls[a].rid].user,
                                                           !.cid = rows[calls[a].rid].cid]]
        PROVE  KeyInv(k)'
    <3>1. jobs[j].put = {}
      BY <2>5 DEF Inv, JobShape, Putting
    <3>2. jobs'[j].pc = "begin" /\ jobs'[j].put = {} /\ \A i \in Jobs \ {j} : jobs'[i] = jobs[i]
      BY <1>1, <2>5 DEF IdleJob
    <3>3. Rooting(k)' <=> Rooting(k)
      BY <3>1, <3>2 DEF Rooting
    <3>4. \A r : Used(r)' <=> Used(r)
      BY <2>1, <2>5, <3>2 DEF Used
    <3> QED
      BY <2>1, <2>2, <2>3, <3>3, <3>4, ReturnedCall, QuietCalls
  <2> QED
    BY <1>8, <2>4, <2>5 DEF startPinWorkflow
<1>9. CASE ReplaceFails(a)
  <2>1. ~calls[a].unpin
    BY <1>1, <1>9 DEF CallShape, ReplaceFails
  <2> QED
    BY <1>3, <1>9, <2>1 DEF ReplaceFails
<1>10. CASE CountFails(a)
  <2>1. CASE Return(a, "failed")
    BY <1>3, <1>10, <2>1 DEF CountFails
  <2>2. CASE calls' = [calls EXCEPT ![a].loaded = TRUE]
    <3>1. /\ calls'[a].pc = calls[a].pc /\ calls'[a].unpin = calls[a].unpin /\ calls'[a].found = calls[a].found
          /\ calls'[a].rid = calls[a].rid /\ \A b \in Calls \ {a} : calls'[b] = calls[b]
      BY <1>1, <2>2 DEF Call
    <3>2. calls[a].pc = "delete" /\ ~calls[a].found /\ UNCHANGED <<rows, core, billed, blame, jobs>>
      BY <1>1, <1>10 DEF CallShape, CountFails
    <3> QED
      BY <1>4, <3>1, <3>2
  <2> QED
    BY <1>10, <2>1, <2>2 DEF CountFails
<1>11. CASE DeleteNotFound(a)
  <2>1. calls[a].pc = "delete" /\ AfterTx(a) /\ UNCHANGED <<rows, core, billed, blame, jobs>>
    BY <1>11 DEF DeleteNotFound
  <2>2. CASE calls[a].loaded /\ calls[a].unpin
    BY <1>5, <2>1, <2>2 DEF AfterTx
  <2>3. CASE ~(calls[a].loaded /\ calls[a].unpin)
    <3>1. ~calls[a].unpin
      BY <1>1, <2>3 DEF CallShape
    <3> QED
      BY <1>3, <2>1, <2>3, <3>1 DEF AfterTx
  <2> QED
    BY <2>2, <2>3
<1>12. CASE DeleteRollback(a)
  <2>1. calls[a].pc = "commit" /\ UNCHANGED <<rows, core, billed, blame, jobs>> /\ rows[calls[a].rid].live
    BY <1>1, <1>12 DEF DeleteRollback, CallShape
  <2>2. CASE Goto(a, "delete")
    BY <1>5, <2>1, <2>2
  <2>3. CASE Return(a, "failed")
    BY <1>3, <2>1, <2>3
  <2> QED
    BY <1>12, <2>2, <2>3 DEF DeleteRollback
<1>13. CASE GetCorePin(a)
  <2>1. PICK found \in {FALSE, KeyOf(calls[a].rid) \in core} :
            calls' = [calls EXCEPT ![a].pc = "unpin", ![a].found = found]
    BY <1>13 DEF GetCorePin
  <2>2. /\ calls'[a].pc = "unpin" /\ calls'[a].unpin = calls[a].unpin /\ calls'[a].found = found
        /\ calls'[a].rid = calls[a].rid /\ \A b \in Calls \ {a} : calls'[b] = calls[b]
    BY <1>1, <2>1 DEF Call
  <2>3. found => CallKey(a) \in core
    BY <2>1 DEF KeyOf, CallKey
  <2> QED
    BY <1>4, <1>13, <2>2, <2>3 DEF GetCorePin
<1>14. CASE UnpinFails(a)
  <2>1. /\ calls[a].pc = "unpin" /\ Return(a, "failed") /\ UNCHANGED <<rows, core, billed, jobs>>
        /\ blame' = Blame(CallKey(a), "unpin")
    BY <1>14 DEF UnpinFails, KeyOf, CallKey
  <2>2. CallKey(a) \in Keys
    BY <2>1, CallRecord
  <2>3. blame[k] \subseteq blame'[k] /\ "unpin" \in blame'[CallKey(a)]
    BY <1>1, <2>1, <2>2 DEF Blame
  <2> QED
    BY <1>2, <2>1, <2>3, ReturnedCall, QuietCalls
<1> QED
  BY <1>7, <1>8, <1>9, <1>10, <1>11, <1>12, <1>13, <1>14

(* A new record is queued, and only its own call knows it (POST /pins).     *)
LEMMA AddKeepsLedger ==
  ASSUME Inv, NEW a \in Calls, NEW k \in Keys, KeyInv(k), NEW u \in Users, NEW c \in Cids, addPin(a, u, c)
  PROVE  KeyInv(k)'
<1>1. /\ calls \in [Calls -> Call] /\ calls[a] \in Call /\ CallShape(calls[a], rows) /\ rows \in Seq(Row)
      /\ calls[a].pc = "idle" /\ rows' = Append(rows, NewRow(u, c)) /\ UNCHANGED <<core, billed, jobs, blame>>
      /\ calls' = [calls EXCEPT ![a].pc = "start", ![a].user = u, ![a].rid = Len(rows) + 1]
  BY DEF Inv, addPin, AddPin
<1>2. /\ Grows /\ Len(rows') = Len(rows) + 1 /\ rows'[Len(rows) + 1] = NewRow(u, c)
      /\ \A r \in 1 .. Len(rows) : rows'[r] = rows[r]
      /\ DOMAIN rows' = 1 .. Len(rows) + 1 /\ DOMAIN rows = 1 .. Len(rows) /\ Len(rows) \in Nat
  BY <1>1, Added
<1>3. /\ calls'[a].pc = "start" /\ calls'[a].unpin = calls[a].unpin /\ calls'[a].found = calls[a].found
      /\ \A b \in Calls \ {a} : calls'[b] = calls[b]
  BY <1>1 DEF Call
<1>4. ~calls[a].unpin /\ ~calls[a].found
  BY <1>1 DEF CallShape
<1>5. LiveOf(k) \subseteq LiveOf(k)'
  BY <1>2 DEF LiveOf, KeyOf
<1>6. ASSUME NEW r \in LiveOf(k)', Used(r)' PROVE r \in LiveOf(k) /\ Used(r)
  <2>1. r \in 1 .. Len(rows) + 1
    BY <1>2 DEF LiveOf
  <2>2. r # Len(rows) + 1
    <3>1. \A j \in Jobs : jobs[j].rid # Len(rows) + 1
      BY <1>2 DEF Inv, OwnRecord
    <3>2. rows'[Len(rows) + 1].status = "queued"
      BY <1>2 DEF NewRow
    <3> QED
      BY <1>1, <1>6, <3>1, <3>2 DEF Used
  <2>3. r \in 1 .. Len(rows) /\ rows'[r] = rows[r]
    BY <1>2, <2>1, <2>2
  <2>4. Used(r)
    BY <1>1, <1>6, <2>3 DEF Used
  <2> QED
    BY <1>2, <2>3, <2>4 DEF LiveOf, KeyOf
<1>7. \A b \in Calls :
         /\ Unpins(b, k)' => Unpins(b, k) /\ calls'[b].rid = calls[b].rid
         /\ Spares(b, k)' => Spares(b, k) /\ calls'[b].rid = calls[b].rid
         /\ Reports(b, k)' => Reports(b, k) \/ k \in core
         /\ Unpins(b, k) => Unpins(b, k)' \/ LiveOf(k) # {} \/ ~(blame'[k] \subseteq {"empty"})
  <2>1. \A b \in Calls \ {a} : (Unpins(b, k)' <=> Unpins(b, k)) /\ (Reports(b, k)' <=> Reports(b, k))
                               /\ (Spares(b, k)' <=> Spares(b, k)) /\ calls'[b].rid = calls[b].rid
    BY <1>2, <1>3, OtherCalls
  <2>2. ~Unpins(a, k)' /\ ~Unpins(a, k) /\ ~Spares(a, k)' /\ ~Reports(a, k)'
    BY <1>3, <1>4 DEF Unpins, Spares, Reports
  <2> QED
    BY <2>1, <2>2
<1>8. Rooting(k)' <=> Rooting(k)
  BY <1>1 DEF Rooting
<1> QED
  BY <1>1, <1>5, <1>6, <1>7, <1>8, Quiet

(* ReplacePin drops a record without a look at its CID, which is remembered.*)
LEMMA ReplaceKeepsLedger ==
  ASSUME Inv, NEW a \in Calls, NEW k \in Keys, KeyInv(k), NEW c \in Cids, ReplacePin(a, c)
  PROVE  KeyInv(k)'
<1>1. PICK old \in 1 .. Len(rows) : old = calls[a].rid /\ KeyOf(old) \in Keys /\ calls[a].user \in Users
  BY CallRecord DEF ReplacePin
<1>2. /\ calls \in [Calls -> Call] /\ calls[a] \in Call /\ CallShape(calls[a], rows) /\ rows \in Seq(Row)
      /\ blame \in [Keys -> SUBSET Reasons]
      /\ calls[a].pc = "replace" /\ UNCHANGED <<core, billed, jobs>> /\ blame' = Blame(KeyOf(old), "replaced")
      /\ rows' = Append([rows EXCEPT ![old].live = FALSE], NewRow(calls[a].user, c))
      /\ calls' = [calls EXCEPT ![a].pc = "start", ![a].rid = Len(rows) + 1]
  BY <1>1 DEF Inv, ReplacePin
<1>3. PICK table \in Seq(Row) : table = [rows EXCEPT ![old].live = FALSE]
  BY <1>2, StillRows
<1>4. /\ Len(table) = Len(rows) /\ \A r \in (1 .. Len(rows)) \ {old} : table[r] = rows[r]
      /\ table[old].user = rows[old].user /\ table[old].cid = rows[old].cid /\ ~table[old].live
  BY <1>2, <1>3, Changed
<1>5. PICK new \in Row : new = NewRow(calls[a].user, c)
  BY <1>1 DEF NewRow, Row
<1>6. /\ rows' \in Seq(Row) /\ Len(rows') = Len(rows) + 1 /\ rows'[Len(rows) + 1] = new
      /\ \A r \in 1 .. Len(rows) : rows'[r] = table[r]
      /\ DOMAIN rows' = 1 .. Len(rows) + 1 /\ DOMAIN rows = 1 .. Len(rows) /\ Len(rows) \in Nat
  BY <1>2, <1>3, <1>4, <1>5
<1>7. Grows
  BY <1>2, <1>4, <1>6 DEF Grows
<1>8. /\ calls'[a].pc = "start" /\ calls'[a].unpin = calls[a].unpin /\ calls'[a].found = calls[a].found
      /\ \A b \in Calls \ {a} : calls'[b] = calls[b]
  BY <1>2 DEF Call
<1>9. ~calls[a].unpin /\ ~calls[a].found
  BY <1>2 DEF CallShape
<1>10. blame[k] \subseteq blame'[k] /\ (KeyOf(old) = k => "replaced" \in blame'[k])
  BY <1>1, <1>2 DEF Blame
<1>11. LiveOf(k) \subseteq LiveOf(k)' \/ ~(blame'[k] \subseteq {"empty"})
  <2>1. CASE KeyOf(old) = k
    BY <1>10, <2>1
  <2>2. CASE KeyOf(old) # k
    <3>1. ASSUME NEW r \in LiveOf(k) PROVE r \in LiveOf(k)'
      <4>1. r \in 1 .. Len(rows) /\ r # old
        BY <1>6, <2>2 DEF LiveOf
      <4>2. rows'[r] = rows[r] /\ r \in DOMAIN rows'
        BY <1>4, <1>6, <4>1
      <4> QED
        BY <3>1, <4>2 DEF LiveOf, KeyOf
    <3> QED
      BY <3>1
  <2> QED
    BY <2>1, <2>2
<1>12. ASSUME NEW r \in LiveOf(k)', Used(r)' PROVE r \in LiveOf(k) /\ Used(r)
  <2>1. r \in 1 .. Len(rows) + 1
    BY <1>6 DEF LiveOf
  <2>2. r # Len(rows) + 1
    <3>1. \A j \in Jobs : jobs[j].rid # Len(rows) + 1
      BY <1>6 DEF Inv, OwnRecord
    <3>2. new.status = "queued"
      BY <1>5 DEF NewRow
    <3> QED
      BY <1>2, <1>6, <1>12, <3>1, <3>2 DEF Used
  <2>3. r # old
    BY <1>4, <1>6 DEF LiveOf
  <2>4. r \in 1 .. Len(rows) /\ rows'[r] = rows[r]
    BY <1>4, <1>6, <2>1, <2>2, <2>3
  <2>5. Used(r)
    BY <1>2, <1>12, <2>4 DEF Used
  <2> QED
    BY <1>6, <2>4, <2>5 DEF LiveOf, KeyOf
<1>13. \A b \in Calls :
         /\ Unpins(b, k)' => Unpins(b, k) /\ calls'[b].rid = calls[b].rid
         /\ Spares(b, k)' => Spares(b, k) /\ calls'[b].rid = calls[b].rid
         /\ Reports(b, k)' => Reports(b, k) \/ k \in core
         /\ Unpins(b, k) => Unpins(b, k)' \/ LiveOf(k) # {} \/ ~(blame'[k] \subseteq {"empty"})
  <2>1. \A b \in Calls \ {a} : (Unpins(b, k)' <=> Unpins(b, k)) /\ (Reports(b, k)' <=> Reports(b, k))
                               /\ (Spares(b, k)' <=> Spares(b, k)) /\ calls'[b].rid = calls[b].rid
    BY <1>7, <1>8, OtherCalls
  <2>2. ~Unpins(a, k)' /\ ~Unpins(a, k) /\ ~Spares(a, k)' /\ ~Reports(a, k)'
    BY <1>8, <1>9 DEF Unpins, Spares, Reports
  <2> QED
    BY <2>1, <2>2
<1>14. Rooting(k)' <=> Rooting(k)
  BY <1>2 DEF Rooting
<1> QED
  BY <1>2, <1>10, <1>11, <1>12, <1>13, <1>14, Quiet

(* DeletePin decides to unpin when no other live record has the key; what   *)
(* else is going on at the key is remembered as an overlap.                 *)
LEMMA DecideKeepsLedger ==
  ASSUME Inv, NEW a \in Calls, NEW k \in Keys, KeyInv(k), DeleteTx(a)
  PROVE  KeyInv(k)'
<1>1. PICK own \in Keys : own = CallKey(a) /\ own = KeyOf(calls[a].rid)
  BY CallRecord DEF DeleteTx
<1>2. PICK unpin : unpin = (countUserPinsByCID(own, calls[a].rid) = 0)
  OBVIOUS
<1>3. /\ calls \in [Calls -> Call] /\ calls[a] \in Call /\ CallShape(calls[a], rows) /\ rows \in Seq(Row)
      /\ blame \in [Keys -> SUBSET Reasons]
      /\ calls[a].pc = "delete" /\ rows[calls[a].rid].live /\ UNCHANGED <<rows, core, billed, jobs>>
      /\ calls' = [calls EXCEPT ![a].pc = "commit", ![a].loaded = TRUE, ![a].unpin = unpin]
      /\ blame' = IF Deleting(own, a) \/ (unpin /\ Rooting(own)) THEN Blame(own, "overlap") ELSE blame
  BY <1>1, <1>2 DEF Inv, DeleteTx
<1>4. /\ calls'[a].pc = "commit" /\ calls'[a].unpin = unpin /\ calls'[a].rid = calls[a].rid
      /\ calls'[a].found = calls[a].found
      /\ \A b \in Calls \ {a} : calls'[b] = calls[b]
  BY <1>3 DEF Call
<1>5. ~calls[a].found /\ calls[a].rid \in LiveOf(own) /\ CallKey(a)' = own
  <2>1. ~calls[a].found
    BY <1>3 DEF CallShape
  <2>2. calls[a].rid \in LiveOf(own)
    BY <1>1, <1>3, CallRecord DEF LiveOf
  <2>3. CallKey(a)' = own
    BY <1>1, <1>3, <1>4 DEF CallKey
  <2> QED
    BY <2>1, <2>2, <2>3
<1>6. /\ LiveOf(k)' = LiveOf(k) /\ (Rooting(k)' <=> Rooting(k)) /\ \A r : Used(r)' <=> Used(r)
  BY <1>3 DEF LiveOf, KeyOf, Rooting, Used
<1>7. blame[k] \subseteq blame'[k]
  BY <1>3 DEF Blame
<1>8. \A b \in Calls \ {a} : (Unpins(b, k)' <=> Unpins(b, k)) /\ (Reports(b, k)' <=> Reports(b, k))
                             /\ (Spares(b, k)' <=> Spares(b, k)) /\ calls'[b].rid = calls[b].rid
  <2>1. Grows
    BY <1>3 DEF Grows
  <2> QED
    BY <1>4, <2>1, OtherCalls
<1>9. ~Reports(a, k)'
  BY <1>4, <1>5 DEF Reports
<1>10. CASE k # own
  <2>1. ~Unpins(a, k) /\ ~Unpins(a, k)' /\ ~Spares(a, k)'
    BY <1>1, <1>5, <1>10 DEF Unpins, Spares
  <2>2. \A b \in Calls :
           /\ Unpins(b, k)' => Unpins(b, k) /\ calls'[b].rid = calls[b].rid
           /\ Spares(b, k)' => Spares(b, k) /\ calls'[b].rid = calls[b].rid
           /\ Reports(b, k)' => Reports(b, k) \/ k \in core
           /\ Unpins(b, k) => Unpins(b, k)' \/ LiveOf(k) # {} \/ ~(blame'[k] \subseteq {"empty"})
    BY <1>8, <1>9, <2>1
  <2> QED
    BY <1>3, <1>6, <1>7, <2>2, Quiet
<1>11. CASE k = own
  <2>1. unpin <=> LiveOf(k) \ {calls[a].rid} = {}
    <3>1. IsFiniteSet(LiveOf(k) \ {calls[a].rid})
      BY <1>3, LiveIsFinite, FS_Subset
    <3> QED
      BY <1>2, <1>11, <3>1, FS_EmptySet DEF countUserPinsByCID
  <2>2. "overlap" \notin blame'[k] => ~Deleting(k, a) /\ ~(unpin /\ Rooting(k)) /\ blame' = blame
    BY <1>3, <1>11 DEF Blame
  <2>3. (\E b \in Calls \ {a} : Deletes(b, k)) => Deleting(k, a)
    <3> SUFFICES ASSUME NEW b \in Calls \ {a}, Deletes(b, k) PROVE Deleting(k, a)
      OBVIOUS
    <3>1. CallShape(calls[b], rows)
      BY DEF Inv
    <3> QED
      BY <3>1 DEF Deletes, Unpins, Spares, CallShape, Deleting, CallKey, KeyOf
  <2>4. Unpins(a, k)' <=> unpin
    BY <1>4, <1>5, <1>11 DEF Unpins
  <2>5. Spares(a, k)' => ~unpin
    BY <1>4 DEF Spares
  <2>6. Single(k)'
    BY <1>8, <2>2, <2>3 DEF Single, Deletes
  <2>7. Unused(k)' /\ InPortal(k)'
    <3>1. Unused(k)'
      BY <1>3, <1>4, <1>6, <1>8, <2>1, <2>2, <2>3, <2>4 DEF Unused, Deletes
    <3>2. InPortal(k)'
      BY <1>3, <1>6, <1>7 DEF KeyInv, InPortal
    <3> QED
      BY <3>1, <3>2
  <2>8. Counted(k)'
    BY <1>3, <1>7, <1>8, <1>9 DEF KeyInv, Counted
  <2>9. Accounted(k)'
    BY <1>3, <1>4, <1>5, <1>6, <1>7, <1>8, <1>11, <2>1, <2>5 DEF KeyInv, Accounted
  <2> QED
    BY <2>6, <2>7, <2>8, <2>9 DEF KeyInv
<1> QED
  BY <1>10, <1>11

(* The record is gone: its key has another one, or is about to be unpinned. *)
LEMMA CommitKeepsLedger ==
  ASSUME Inv, NEW a \in Calls, NEW k \in Keys, KeyInv(k), DeleteCommit(a)
  PROVE  KeyInv(k)'
<1>1. PICK old \in 1 .. Len(rows) : old = calls[a].rid /\ CallKey(a) = KeyOf(old)
  BY CallRecord DEF DeleteCommit
<1>2. /\ calls \in [Calls -> Call] /\ calls[a] \in Call /\ CallShape(calls[a], rows) /\ rows \in Seq(Row)
      /\ calls[a].pc = "commit" /\ UNCHANGED <<core, billed, jobs, blame>> /\ AfterTx(a)
      /\ rows' = [rows EXCEPT ![old].live = FALSE]
  BY <1>1 DEF Inv, DeleteCommit
<1>3. rows' \in Seq(Row)
  BY <1>2, StillRows
<1>4. /\ Len(rows') = Len(rows) /\ \A r \in (1 .. Len(rows)) \ {old} : rows'[r] = rows[r]
      /\ rows'[old].user = rows[old].user /\ rows'[old].cid = rows[old].cid /\ ~rows'[old].live
      /\ rows'[old].status = rows[old].status
      /\ DOMAIN rows' = 1 .. Len(rows) /\ DOMAIN rows = 1 .. Len(rows)
  BY <1>2, <1>3, Changed
<1>5. Grows
  BY <1>2, <1>3, <1>4 DEF Grows
<1>6. LiveOf(k)' = LiveOf(k) \ {old}
  BY <1>4 DEF LiveOf, KeyOf
<1>7. \A r \in LiveOf(k)' : Used(r)' => Used(r)
  BY <1>2, <1>4, <1>6 DEF Used, LiveOf
<1>8. Rooting(k)' <=> Rooting(k)
  BY <1>2 DEF Rooting
<1>9. /\ \A b \in Calls \ {a} : calls'[b] = calls[b]
      /\ calls[a].unpin => calls'[a].unpin /\ calls'[a].rid = old
      /\ ~calls[a].unpin => ~calls'[a].unpin
      /\ calls'[a].pc # "commit" /\ ~calls'[a].found
  <2>1. CASE calls[a].loaded /\ calls[a].unpin
    <3>1. /\ calls'[a].pc = "get" /\ calls'[a].unpin = calls[a].unpin /\ calls'[a].rid = calls[a].rid
          /\ calls'[a].found = calls[a].found /\ \A b \in Calls \ {a} : calls'[b] = calls[b]
      <4>1. Goto(a, "get") /\ calls \in [Calls -> Call]
        BY <1>2, <2>1 DEF AfterTx
      <4> QED
        BY <4>1 DEF Goto, Call
    <3>2. ~calls[a].found
      BY <1>2 DEF CallShape
    <3> QED
      BY <1>1, <2>1, <3>1, <3>2
  <2>2. CASE ~(calls[a].loaded /\ calls[a].unpin)
    <3>1. Return(a, "done") /\ ~calls[a].unpin
      BY <1>2, <2>2 DEF AfterTx, CallShape
    <3> QED
      BY <3>1, ReturnedCall
  <2> QED
    BY <2>1, <2>2
<1>10. \A b \in Calls \ {a} : (Unpins(b, k)' <=> Unpins(b, k)) /\ (Reports(b, k)' <=> Reports(b, k))
                              /\ (Spares(b, k)' <=> Spares(b, k)) /\ calls'[b].rid = calls[b].rid
  BY <1>5, <1>9, OtherCalls
<1>11. ~Reports(a, k)' /\ ~Spares(a, k)'
  BY <1>9 DEF Reports, Spares
<1>12. Unpins(a, k)' <=> Unpins(a, k)
  <2>1. CASE calls[a].unpin
    <3>1. CallKey(a)' = CallKey(a)
      BY <1>1, <1>4, <1>9, <2>1 DEF CallKey
    <3> QED
      BY <1>9, <2>1, <3>1 DEF Unpins
  <2>2. CASE ~calls[a].unpin
    BY <1>9, <2>2 DEF Unpins
  <2> QED
    BY <2>1, <2>2
<1>13. Unpins(a, k) => calls'[a].rid = calls[a].rid
  BY <1>1, <1>9 DEF Unpins
<1>14. Single(k)'
  BY <1>2, <1>10, <1>11, <1>12 DEF KeyInv, Single, Deletes
<1>15. Unused(k)' /\ InPortal(k)'
  <2>1. Unused(k)'
    BY <1>2, <1>6, <1>7, <1>8, <1>10, <1>12, <1>13 DEF KeyInv, Unused
  <2>2. InPortal(k)'
    BY <1>2, <1>6, <1>7, <1>8 DEF KeyInv, InPortal
  <2> QED
    BY <2>1, <2>2
<1>16. Counted(k)'
  BY <1>2, <1>10, <1>11 DEF KeyInv, Counted
<1>17. Accounted(k)'
  <2>1. CASE CallKey(a) # k
    <3>1. LiveOf(k)' = LiveOf(k)
      BY <1>1, <1>6, <2>1 DEF LiveOf
    <3> QED
      BY <1>2, <1>8, <1>10, <1>11, <1>12, <3>1 DEF KeyInv, Accounted
  <2>2. CASE CallKey(a) = k
    <3>1. Unpins(a, k) \/ Spares(a, k)
      BY <1>2, <2>2 DEF Unpins, Spares
    <3>2. blame'[k] \subseteq {"empty"} => \A b \in Calls : ~Spares(b, k)'
      BY <1>2, <1>10, <1>11, <3>1 DEF KeyInv, Single, Deletes
    <3>3. blame'[k] \subseteq {"empty"} /\ Spares(a, k) => LiveOf(k)' # {}
      BY <1>1, <1>2, <1>6 DEF KeyInv, Accounted
    <3> QED
      BY <1>12, <3>1, <3>2, <3>3 DEF Accounted
  <2> QED
    BY <2>1, <2>2
<1> QED
  BY <1>14, <1>15, <1>16, <1>17 DEF KeyInv

(* The portal's pin is deleted, and reported if it was found before.        *)
LEMMA UnpinKeepsLedger ==
  ASSUME Inv, NEW a \in Calls, NEW k \in Keys, KeyInv(k), Unpin(a)
  PROVE  KeyInv(k)'
<1>1. PICK own \in Keys : own = CallKey(a) /\ own = KeyOf(calls[a].rid)
  BY CallRecord DEF Unpin
<1>2. /\ CallShape(calls[a], rows) /\ rows \in Seq(Row) /\ billed \in [Keys -> Int]
      /\ calls[a].pc = "unpin" /\ UNCHANGED <<rows, jobs, blame>> /\ Return(a, "done")
      /\ core' = core \ {own} /\ billed' = [billed EXCEPT ![own] = @ - (IF calls[a].found THEN 1 ELSE 0)]
  BY <1>1 DEF Inv, Unpin
<1>3. /\ ~calls'[a].unpin /\ ~calls'[a].found /\ calls'[a].pc # "commit"
      /\ \A b \in Calls \ {a} : calls'[b] = calls[b]
  BY <1>2, ReturnedCall
<1>4. LiveOf(k)' = LiveOf(k) /\ (Rooting(k)' <=> Rooting(k)) /\ \A r : Used(r)' <=> Used(r)
  BY <1>2 DEF LiveOf, KeyOf, Rooting, Used
<1>5. \A b \in Calls \ {a} : (Unpins(b, k)' <=> Unpins(b, k)) /\ (Reports(b, k)' <=> Reports(b, k))
                             /\ (Spares(b, k)' <=> Spares(b, k)) /\ calls'[b].rid = calls[b].rid
  <2>1. Grows
    BY <1>2 DEF Grows
  <2> QED
    BY <1>3, <2>1, OtherCalls
<1>6. ~Unpins(a, k)' /\ ~Reports(a, k)' /\ ~Spares(a, k)'
  BY <1>3 DEF Unpins, Reports, Spares
<1>7. CASE k # own
  <2>1. ~Unpins(a, k)
    BY <1>1, <1>7 DEF Unpins
  <2>2. (k \in core' <=> k \in core) /\ billed'[k] = billed[k]
    BY <1>2, <1>7
  <2>3. \A b \in Calls :
           /\ Unpins(b, k)' => Unpins(b, k) /\ calls'[b].rid = calls[b].rid
           /\ Spares(b, k)' => Spares(b, k) /\ calls'[b].rid = calls[b].rid
           /\ Reports(b, k)' => Reports(b, k) \/ k \in core
           /\ Unpins(b, k) => Unpins(b, k)' \/ LiveOf(k) # {} \/ ~(blame'[k] \subseteq {"empty"})
    BY <1>5, <1>6, <2>1
  <2> QED
    BY <1>2, <1>4, <2>2, <2>3, Quiet
<1>8. CASE k = own
  <2>1. Unpins(a, k) /\ calls[a].rid \notin LiveOf(k)
    BY <1>1, <1>2, <1>8 DEF CallShape, Unpins, LiveOf
  <2>2. k \notin core' /\ billed[k] \in Int
        /\ billed'[k] = billed[k] - (IF calls[a].found THEN 1 ELSE 0)
    BY <1>2, <1>8
  <2>3. Single(k)'
    BY <1>2, <1>5, <1>6 DEF KeyInv, Single, Deletes
  <2>4. Unused(k)' /\ InPortal(k)'
    <3>1. Unused(k)'
      BY <1>2, <1>4, <1>5, <1>6 DEF KeyInv, Unused
    <3>2. InPortal(k)'
      BY <1>2, <1>4, <2>1 DEF KeyInv, Unused, InPortal
    <3> QED
      BY <3>1, <3>2
  <2>5. Counted(k)'
    <3>1. "overlap" \notin blame[k] => \A b \in Calls \ {a} : ~Reports(b, k)
      <4> SUFFICES ASSUME "overlap" \notin blame[k], NEW b \in Calls \ {a}, Reports(b, k) PROVE FALSE
        OBVIOUS
      <4>1. Unpins(b, k)
        BY DEF Inv, CallShape, Reports, Unpins
      <4> QED
        BY <2>1, <4>1 DEF KeyInv, Single, Deletes
    <3>2. calls[a].found => Reports(a, k)
      BY <1>1, <1>8 DEF Reports
    <3>3. "overlap" \notin blame[k] => billed'[k] >= 0
      BY <2>2, <3>2 DEF KeyInv, Counted
    <3> QED
      BY <1>2, <1>5, <1>6, <2>2, <3>1, <3>3 DEF Counted
  <2>6. Accounted(k)'
    BY <1>2, <1>4, <1>5, <1>6, <2>2 DEF KeyInv, Accounted
  <2> QED
    BY <2>3, <2>4, <2>5, <2>6 DEF KeyInv
<1> QED
  BY <1>7, <1>8

(* Initially the uploads of one user are pinned, billed and have records.   *)
LEMMA InitLedger ==
  ASSUME Init, NEW k \in Keys
  PROVE  KeyInv(k)
<1>1. /\ rows \in Seq(Row) /\ core = {KeyOf(i) : i \in 1 .. Len(rows)}
      /\ \A i \in 1 .. Len(rows) : rows[i].live
      /\ billed = [b \in Keys |-> Cardinality(LiveOf(b))]
      /\ calls = [a \in Calls |-> IdleCall] /\ jobs = [j \in Jobs |-> IdleJob]
  BY InitRows DEF Init, PinInit
<1>2. \A a \in Calls : ~Unpins(a, k) /\ ~Reports(a, k) /\ ~Spares(a, k)
  BY <1>1 DEF IdleCall, Unpins, Reports, Spares
<1>3. ~Rooting(k)
  BY <1>1, Idle DEF Rooting
<1>4. LiveOf(k) # {} <=> k \in core
  BY <1>1 DEF LiveOf
<1>5. billed[k] \in Nat /\ (billed[k] = 0 <=> LiveOf(k) = {})
  BY <1>1, LiveIsFinite
<1>6. Single(k) /\ Unused(k)
  BY <1>2 DEF Single, Deletes, Unused
<1>7. InPortal(k)
  BY <1>3, <1>4 DEF InPortal
<1>8. Counted(k)
  BY <1>2, <1>4, <1>5 DEF Counted
<1>9. Accounted(k)
  BY <1>2, <1>4 DEF Accounted
<1> QED
  BY <1>6, <1>7, <1>8, <1>9 DEF KeyInv

(* Every step keeps the ledgers of every key.                               *)
LEMMA LedgersKept == Spec => []LedgerInv
<1>1. Init => LedgerInv
  BY InitLedger DEF LedgerInv
<1>2. Inv /\ LedgerInv /\ [Next]_pinVars => LedgerInv'
  <2> SUFFICES ASSUME Inv, LedgerInv, [Next]_pinVars, NEW k \in Keys PROVE KeyInv(k)'
    BY DEF LedgerInv
  <2>1. KeyInv(k)
    BY DEF LedgerInv
  <2>2. ASSUME NEW a \in Calls, CallStep(a) PROVE KeyInv(k)'
    BY <2>1, <2>2, QuietSteps, AddKeepsLedger, ReplaceKeepsLedger, DecideKeepsLedger,
       CommitKeepsLedger, UnpinKeepsLedger DEF CallStep
  <2>3. ASSUME NEW j \in Jobs, JobStep(j) PROVE KeyInv(k)'
    BY <2>1, <2>3, JobStepMoves, JobKeepsLedger
  <2>4. CASE UNCHANGED pinVars
    BY <2>1, <2>4 DEF pinVars, KeyInv, Single, Unused, InPortal, Counted, Accounted, Deletes, Unpins, Reports,
       Spares, CallKey, Used, LiveOf, KeyOf, Rooting
  <2> QED
    BY <2>2, <2>3, <2>4 DEF Next
<1> QED
  BY <1>1, <1>2, InitInv, NextInv, PTL DEF Spec

(* A live record marked pinned is backed by the portal's pin, however the   *)
(* API calls and the workflows interleave, unless an unpin was decided while*)
(* the key was in use or a Confirm had no CIDs (pin.go:281-294).            *)
THEOREM PinnedHeld == Spec => []PinnedIsHeld
<1>1. Inv /\ LedgerInv => PinnedIsHeld
  <2> SUFFICES ASSUME Inv, LedgerInv, NEW r \in DOMAIN rows, rows[r].live, rows[r].status = "pinned",
                      blame[KeyOf(r)] \intersect {"overlap", "empty"} = {}
               PROVE  KeyOf(r) \in core
    BY DEF PinnedIsHeld
  <2>1. rows[r] \in Row
    BY DEF Inv
  <2>2. KeyOf(r) \in Keys /\ r \in LiveOf(KeyOf(r)) /\ Used(r)
    BY <2>1 DEF KeyOf, Keys, Row, LiveOf, Used
  <2> QED
    BY <2>2 DEF LedgerInv, KeyInv, InPortal
<1> QED
  BY <1>1, InitInv, NextInv, LedgersKept, PTL DEF Spec

(* What the portal holds is billed, through retries, double pinning and     *)
(* failed unpins (upload.go:202, pin.go:313-335).                           *)
THEOREM HeldBilled == Spec => []HeldIsBilled
<1>1. Inv /\ LedgerInv => HeldIsBilled
  BY DEF Inv, LedgerInv, KeyInv, Counted, HeldIsBilled
<1> QED
  BY <1>1, InitInv, NextInv, LedgersKept, PTL DEF Spec

(* When the last record of a key is gone and nothing works on the key, the  *)
(* portal no longer holds it, except in the ways that blame names.          *)
THEOREM DeletedReleased == Spec => []DeletedIsReleased
<1>1. Inv /\ LedgerInv => DeletedIsReleased
  <2> SUFFICES ASSUME Inv, LedgerInv, NEW k \in Keys, LiveOf(k) = {}, ~Busy(k), blame[k] \subseteq {"empty"},
                      k \in core
               PROVE  FALSE
    BY DEF DeletedIsReleased
  <2>1. Rooting(k) \/ \E a \in Calls : Unpins(a, k)
    BY DEF LedgerInv, KeyInv, Accounted
  <2>2. ASSUME NEW a \in Calls, Unpins(a, k) PROVE FALSE
    BY <2>2 DEF Inv, CallShape, Unpins, CallKey, Busy, KeyOf
  <2>3. ASSUME NEW j \in Jobs, <<jobs[j].user, jobs[j].cid>> = k, jobs[j].cid \in jobs[j].put PROVE FALSE
    <3>1. jobs[j].pc \in {"process", "root"}
      BY <2>3 DEF Inv, JobShape, Putting
    <3> QED
      BY <2>3, <3>1 DEF Busy, Blocks
  <2> QED
    BY <2>1, <2>2, <2>3 DEF Rooting
<1> QED
  BY <1>1, InitInv, NextInv, LedgersKept, PTL DEF Spec
==============================================================================
