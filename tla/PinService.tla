----------------------------- MODULE PinService -----------------------------
(***************************************************************************)
(* The pin records of the plugin and the API calls that change them        *)
(* (internal/service/pin/pin.go, internal/api/api_pins.go).  Three ledgers *)
(* have to agree and no transaction spans two of them: the ipfs_pins       *)
(* table, the portal's own pins (core), and what the quota plugin bills,   *)
(* which it learns from pinned and unpinned events.                        *)
(*                                                                         *)
(* A request ID is the position of its record in rows; deleting a record   *)
(* is a soft delete and keeps the position.  Calls run concurrently, one   *)
(* transaction or service call a step.  The workflows that the calls start *)
(* are in PinWorkflows, which extends this module.                         *)
(***************************************************************************)
EXTENDS Integers, Sequences, FiniteSets

CONSTANTS Users, Cids,
          NoUser,     \* owner of a call or a request that has not begun
          Calls,      \* API calls to pins, each made once
          Jobs,       \* workflow requests of the portal's workflow engine
          MaxRows,    \* bound on the records ever created
          Earlier     \* CIDs that a user may have uploaded before

ASSUME PinAssumption ==
    /\ IsFiniteSet(Users) /\ IsFiniteSet(Cids) /\ IsFiniteSet(Calls) /\ IsFiniteSet(Jobs)
    /\ MaxRows \in Nat /\ Earlier \in Seq(Cids)
    /\ NoUser \notin Users /\ Cids # {}

Keys == Users \X Cids

VARIABLES rows,    \* the ipfs_pins table
          core,    \* keys that the portal's pin service holds
          billed,  \* pinned minus unpinned events, per key
          calls,   \* the API calls in progress
          jobs,    \* the workflow requests
          blame    \* history: why the ledgers of a key may disagree

pinVars == <<rows, core, billed, calls, jobs, blame>>

Row == [user : Users, cid : Cids, status : {"queued", "pinned"}, live : BOOLEAN]

Reasons == {"overlap",    \* an unpin was decided while the key was in use
            "replaced",   \* ReplacePin deleted a record
            "unpin",      \* the portal failed to delete its pin
            "abandoned",  \* an attempt ended between the portal's pin and the record
            "empty",      \* Confirm had no CIDs to pin
            "child"}      \* pinned as a block of another CID

NewRow(u, c) == [user |-> u, cid |-> c, status |-> "queued", live |-> TRUE]

KeyOf(r)  == <<rows[r].user, rows[r].cid>>
LiveOf(k) == {r \in DOMAIN rows : rows[r].live /\ KeyOf(r) = k}
Blame(k, why) == [blame EXCEPT ![k] = @ \union {why}]

IdleCall == [pc |-> "idle", user |-> NoUser, rid |-> 0,
             loaded |-> FALSE, unpin |-> FALSE, found |-> FALSE]
IdleJob  == [pc |-> "free", op |-> "none", user |-> NoUser,
             cid |-> CHOOSE c \in Cids : TRUE, rid |-> 0, cids |-> {}, got |-> {},
             todo |-> {}, put |-> {}, res |-> [c \in Cids |-> "none"],
             download |-> "none", attempt |-> 1, broke |-> FALSE, unread |-> {},
             left |-> [blocks |-> {}, download |-> FALSE]]

\* The first n of a user's earlier uploads have been completed.
PinInit ==
    /\ \E u \in Users, n \in 0 .. Len(Earlier) :
          /\ rows = [i \in 1 .. n |-> [NewRow(u, Earlier[i]) EXCEPT !.status = "pinned"]]
          /\ core = {KeyOf(i) : i \in 1 .. n}
          /\ billed = [k \in Keys |-> Cardinality(LiveOf(k))]
    /\ calls = [a \in Calls |-> IdleCall]
    /\ jobs = [j \in Jobs |-> IdleJob]
    /\ blame = [k \in Keys |-> {}]

Goto(a, pc) == calls' = [calls EXCEPT ![a].pc = pc]

\* The call returns, and what it knew is gone.
Return(a, pc) == calls' = [calls EXCEPT ![a] = [IdleCall EXCEPT !.pc = pc]]
-----------------------------------------------------------------------------
(* POST /pins: the record, then the workflow that will fetch the content.   *)
AddPin(u, c) ==
    /\ Len(rows) < MaxRows
    /\ rows' = Append(rows, NewRow(u, c))

addPin(a, u, c) ==
    /\ calls[a].pc = "idle"
    /\ AddPin(u, c)
    /\ calls' = [calls EXCEPT ![a].pc = "start", ![a].user = u, ![a].rid = Len(rows) + 1]
    /\ UNCHANGED <<core, billed, jobs, blame>>

\* The workflow gets the record's request ID and its CID; if it cannot be
\* started the caller sees an error and the record stays.
startPinWorkflow(a) ==
    /\ calls[a].pc = "start"
    /\ \/ /\ Return(a, "done")
          /\ \E j \in Jobs :
                /\ jobs[j].pc = "free"
                /\ jobs' = [jobs EXCEPT ![j] =
                      [IdleJob EXCEPT !.pc = "begin", !.op = "retrieve", !.rid = calls[a].rid,
                                      !.user = rows[calls[a].rid].user,
                                      !.cid = rows[calls[a].rid].cid]]
       \/ Return(a, "failed") /\ UNCHANGED jobs
    /\ UNCHANGED <<rows, core, billed, blame>>
-----------------------------------------------------------------------------
(* DELETE and POST on /pins/:requestid look for the record among the        *)
(* caller's own, in a transaction of their own.                             *)
OwnedBy(r, u) == rows[r].live /\ rows[r].user = u

ForUser(a, u, r, next) ==
    /\ calls[a].pc = "idle"
    /\ IF OwnedBy(r, u)
       THEN calls' = [calls EXCEPT ![a].pc = next, ![a].user = u, ![a].rid = r]
       ELSE Return(a, "failed")
    /\ UNCHANGED <<rows, core, billed, jobs, blame>>

DeletePinForUser(a, u, r)  == ForUser(a, u, r, "delete")
ReplacePinForUser(a, u, r) == ForUser(a, u, r, "replace")

\* A DeletePin transaction holds the lock on its row until it ends.
Locked(r) == \E a \in Calls : calls[a].pc = "commit" /\ calls[a].rid = r

\* The old record is deleted without a look at its CID: the portal's pin of
\* the old CID stays.
ReplacePin(a, c) ==
    LET old == calls[a].rid IN
    /\ calls[a].pc = "replace" /\ ~Locked(old)
    /\ Len(rows) < MaxRows
    /\ rows' = Append([rows EXCEPT ![old].live = FALSE], NewRow(calls[a].user, c))
    /\ blame' = Blame(KeyOf(old), "replaced")
    /\ calls' = [calls EXCEPT ![a].pc = "start", ![a].rid = Len(rows) + 1]
    /\ UNCHANGED <<core, billed, jobs>>

\* Any of the transactions may fail; a failed one changes nothing.
ReplaceFails(a) ==
    /\ calls[a].pc = "replace"
    /\ Return(a, "failed")
    /\ UNCHANGED <<rows, core, billed, jobs, blame>>
-----------------------------------------------------------------------------
(* DeletePin.  The transaction locks the row, deletes it and counts the     *)
(* other records of the key; the count is a transaction of its own, so it   *)
(* sees what is committed, deletes of other calls that are not excluded.    *)
\* Mutant of countUserPinsByCID: the record that is being deleted counts too.
CountSelf(k, r) == Cardinality(LiveOf(k))

countUserPinsByCID(k, r) == Cardinality(LiveOf(k) \ {r})

Deleting(k, a) ==   \* another call is between its count and its unpin
    \E b \in Calls \ {a} :
        /\ \/ calls[b].pc = "commit"
           \/ calls[b].unpin /\ calls[b].pc \in {"delete", "get", "unpin"}
        /\ KeyOf(calls[b].rid) = k

\* A workflow has pinned the key in the portal and not yet created its record.
Rooting(k) ==
    \E j \in Jobs : <<jobs[j].user, jobs[j].cid>> = k /\ jobs[j].cid \in jobs[j].put

DeleteTx(a) ==
    LET r == calls[a].rid
        k == KeyOf(r)
        unpin == countUserPinsByCID(k, r) = 0
    IN
    /\ calls[a].pc = "delete" /\ rows[r].live /\ ~Locked(r)
    /\ calls' = [calls EXCEPT ![a].pc = "commit", ![a].loaded = TRUE, ![a].unpin = unpin]
    /\ blame' = IF Deleting(k, a) \/ (unpin /\ Rooting(k)) THEN Blame(k, "overlap") ELSE blame
    /\ UNCHANGED <<rows, core, billed, jobs>>

\* The count fails after the row was loaded; the decision of an earlier try stays.
CountFails(a) ==
    /\ calls[a].pc = "delete" /\ rows[calls[a].rid].live /\ ~Locked(calls[a].rid)
    /\ \/ calls' = [calls EXCEPT ![a].loaded = TRUE]
       \/ Return(a, "failed")
    /\ UNCHANGED <<rows, core, billed, jobs, blame>>

\* Mutant of AfterTx: shouldUnpin is not looked at.
AfterTxAlways(a) == IF calls[a].loaded THEN Goto(a, "get") ELSE Return(a, "done")

\* The record is gone: nothing to do, unless an earlier try of the same
\* transaction has set loaded and shouldUnpin, which nobody resets.
AfterTx(a) ==
    IF calls[a].loaded /\ calls[a].unpin THEN Goto(a, "get") ELSE Return(a, "done")

DeleteNotFound(a) ==
    /\ calls[a].pc = "delete" /\ ~rows[calls[a].rid].live
    /\ AfterTx(a)
    /\ UNCHANGED <<rows, core, billed, jobs, blame>>

DeleteCommit(a) ==
    /\ calls[a].pc = "commit"
    /\ rows' = [rows EXCEPT ![calls[a].rid].live = FALSE]
    /\ AfterTx(a)
    /\ UNCHANGED <<core, billed, jobs, blame>>

\* The transaction is rolled back: RetryableComponentTransaction runs it again
\* or gives up, and DeletePin returns the error.
DeleteRollback(a) ==
    /\ calls[a].pc = "commit"
    /\ Goto(a, "delete") \/ Return(a, "failed")
    /\ UNCHANGED <<rows, core, billed, jobs, blame>>

\* The portal's pin is read for the event; a failure is only logged.
GetCorePin(a) ==
    /\ calls[a].pc = "get"
    /\ \E found \in {FALSE, KeyOf(calls[a].rid) \in core} :
          calls' = [calls EXCEPT ![a].pc = "unpin", ![a].found = found]
    /\ UNCHANGED <<rows, core, billed, jobs, blame>>

Unpin(a) ==
    LET k == KeyOf(calls[a].rid) IN
    /\ calls[a].pc = "unpin"
    /\ core' = core \ {k}
    /\ billed' = [billed EXCEPT ![k] = @ - (IF calls[a].found THEN 1 ELSE 0)]
    /\ Return(a, "done")
    /\ UNCHANGED <<rows, jobs, blame>>

\* Mutant of UnpinFails: the event is emitted before the portal is asked.
UnpinFailsBilled(a) ==
    LET k == KeyOf(calls[a].rid) IN
    /\ calls[a].pc = "unpin"
    /\ blame' = Blame(k, "unpin")
    /\ billed' = [billed EXCEPT ![k] = @ - (IF calls[a].found THEN 1 ELSE 0)]
    /\ Return(a, "failed")
    /\ UNCHANGED <<rows, core, jobs>>

\* The record is deleted and committed by now, so nobody will try again.
UnpinFails(a) ==
    /\ calls[a].pc = "unpin"
    /\ blame' = Blame(KeyOf(calls[a].rid), "unpin")
    /\ Return(a, "failed")
    /\ UNCHANGED <<rows, core, billed, jobs>>
-----------------------------------------------------------------------------
(* UpdatePinStatus reports an error when no live record has the ID.         *)
UpdatePinStatus(r) == rows' = [rows EXCEPT ![r].status = "pinned"]

\* One call of the API, or one step of it.
CallStep(a) ==
    \/ \E u \in Users, c \in Cids : addPin(a, u, c)
    \/ \E u \in Users, r \in DOMAIN rows : DeletePinForUser(a, u, r)
    \/ \E u \in Users, r \in DOMAIN rows : ReplacePinForUser(a, u, r)
    \/ \E c \in Cids : ReplacePin(a, c)
    \/ startPinWorkflow(a) \/ ReplaceFails(a)
    \/ DeleteTx(a) \/ CountFails(a) \/ DeleteNotFound(a) \/ DeleteCommit(a) \/ DeleteRollback(a)
    \/ GetCorePin(a) \/ Unpin(a) \/ UnpinFails(a)
=============================================================================
