----------------------------- MODULE DoneTracker -----------------------------
(***************************************************************************)
(* DefaultDoneTracker (internal/protocol/done_tracker.go): the set of      *)
(* completed CIDs that block producers wait on.  One action is one section *)
(* under dt.mu, one channel close, or one select that fires; Done closes   *)
(* the waiters' channels after it has released the lock, and WaitDone      *)
(* takes the lock a second time when its context is cancelled, so the      *)
(* interleavings of those sections are what is checked.                    *)
(*                                                                         *)
(* Every WaitDone invocation makes a channel of its own, so an invocation  *)
(* also names its channel.                                                 *)
(***************************************************************************)
EXTENDS Naturals, FiniteSets

CONSTANTS Cids,       \* content identifiers
          Calls,      \* invocations of WaitDone, and their channels
          Marks       \* invocations of Done

NoCid == "none"

ASSUME DoneTrackerAssumption ==
    /\ NoCid \notin Cids
    /\ IsFiniteSet(Cids)

VARIABLES completed,  \* dt.completed
          present,    \* keys of dt.waiters
          entryDone,  \* cidWaiter.done of the entry of a CID
          chans,      \* cidWaiter.waiters of the entry of a CID
          closed,     \* channels that have been closed
          closing,    \* waitersToClose of a Done that has released the lock
          callPc,     \* where a WaitDone invocation is
          callCid,    \* the CID it was called with
          result,     \* what it returned
          markPc,     \* where a Done invocation is
          everDone,   \* history: CIDs that were ever in completed
          dropped     \* history: calls whose channel Reset threw away

vars == <<completed, present, entryDone, chans, closed, closing,
          callPc, callCid, result, markPc, everDone, dropped>>

mapVars == <<completed, present, entryDone, chans, everDone, dropped>>
callVars == <<callPc, callCid, result>>

Init ==
    /\ completed = {} /\ everDone = {} /\ dropped = {}
    /\ present = {}
    /\ entryDone = [c \in Cids |-> FALSE]
    /\ chans = [c \in Cids |-> {}]
    /\ closed = {}
    /\ closing = [m \in Marks |-> {}]
    /\ callPc = [w \in Calls |-> "start"]
    /\ callCid = [w \in Calls |-> NoCid]
    /\ result = [w \in Calls |-> "pending"]
    /\ markPc = [m \in Marks |-> "start"]
-----------------------------------------------------------------------------
\* Mutants of Done: complete the zero CID of a fresh entry; leave the entry in
\* the map with its channels; drop the entry and forget its channels.
DoneUndefinedCid(m, c) ==
    /\ markPc[m] = "start"
    /\ completed' = completed \union {NoCid}
    /\ markPc' = [markPc EXCEPT ![m] = "returned"]
    /\ UNCHANGED <<everDone, dropped, present, entryDone, chans, closed, closing, callVars>>

DoneKeepsEntry(m, c) ==
    /\ markPc[m] = "start"
    /\ completed' = completed \union {c}
    /\ everDone' = everDone \union {c}
    /\ closing' = [closing EXCEPT ![m] = chans[c]]
    /\ markPc' = [markPc EXCEPT ![m] = "closing"]
    /\ UNCHANGED <<present, entryDone, chans, dropped, closed, callVars>>

DoneForgetsChannels(m, c) ==
    /\ markPc[m] = "start"
    /\ completed' = completed \union {c}
    /\ everDone' = everDone \union {c}
    /\ present' = present \ {c}
    /\ chans' = [chans EXCEPT ![c] = {}]
    /\ markPc' = [markPc EXCEPT ![m] = "closing"]
    /\ UNCHANGED <<entryDone, dropped, closed, closing, callVars>>

\* The locked section of Done: complete the CID, take its waiters' channels
\* and drop the entry.
Done(m, c) ==
    /\ markPc[m] = "start"
    /\ IF c \in present /\ entryDone[c]
       THEN /\ markPc' = [markPc EXCEPT ![m] = "returned"]
            /\ UNCHANGED <<completed, everDone, present, entryDone, chans, closing>>
       ELSE /\ completed' = completed \union {c}
            /\ everDone' = everDone \union {c}
            /\ present' = present \ {c}
            /\ closing' = [closing EXCEPT ![m] = chans[c]]
            /\ chans' = [chans EXCEPT ![c] = {}]
            /\ markPc' = [markPc EXCEPT ![m] = "closing"]
            /\ entryDone' = [entryDone EXCEPT ![c] = (c \in present)]
    /\ UNCHANGED <<closed, callVars, dropped>>

\* Done closes the channels it took one at a time, with no lock held.
CloseOne(m, w) ==
    /\ markPc[m] = "closing"
    /\ w \in closing[m]
    /\ closing' = [closing EXCEPT ![m] = @ \ {w}]
    /\ closed' = closed \union {w}
    /\ UNCHANGED <<mapVars, callVars, markPc>>

DoneReturns(m) ==
    /\ markPc[m] = "closing"
    /\ closing[m] = {}
    /\ markPc' = [markPc EXCEPT ![m] = "returned"]
    /\ UNCHANGED <<mapVars, callVars, closed, closing>>

\* Mutant of WaitDone: a new entry replaces the one that is there.
WaitDoneNewEntry(w, c) ==
    /\ callPc[w] = "start"
    /\ callCid' = [callCid EXCEPT ![w] = c]
    /\ IF c \in completed
       THEN /\ callPc' = [callPc EXCEPT ![w] = "returned"]
            /\ result' = [result EXCEPT ![w] = "true"]
            /\ UNCHANGED <<present, chans>>
       ELSE /\ present' = present \union {c}
            /\ chans' = [chans EXCEPT ![c] = {w}]
            /\ callPc' = [callPc EXCEPT ![w] = "waiting"]
            /\ UNCHANGED result
    /\ UNCHANGED <<completed, everDone, dropped, entryDone, closed, closing, markPc>>

\* The first locked section of WaitDone: return at once, or register a
\* channel (in a new entry if there is none) and wait.
WaitDone(w, c) ==
    /\ callPc[w] = "start"
    /\ callCid' = [callCid EXCEPT ![w] = c]
    /\ IF c \in completed \/ (c \in present /\ entryDone[c])
       THEN /\ callPc' = [callPc EXCEPT ![w] = "returned"]
            /\ result' = [result EXCEPT ![w] = "true"]
            /\ UNCHANGED <<present, chans, entryDone>>
       ELSE /\ present' = present \union {c}
            /\ entryDone' = [entryDone EXCEPT ![c] = FALSE]  \* a new entry is not done
            /\ chans' = [chans EXCEPT ![c] = @ \union {w}]
            /\ callPc' = [callPc EXCEPT ![w] = "waiting"]
            /\ UNCHANGED result
    /\ UNCHANGED <<completed, everDone, dropped, closed, closing, markPc>>

\* The select's first case: the channel was closed.
Woken(w) ==
    /\ callPc[w] = "waiting"
    /\ w \in closed
    /\ callPc' = [callPc EXCEPT ![w] = "returned"]
    /\ result' = [result EXCEPT ![w] = "true"]
    /\ UNCHANGED <<mapVars, closed, closing, callCid, markPc>>

\* The select's second case: the context is done.  The lock is not held yet.
Cancelled(w) ==
    /\ callPc[w] = "waiting"
    /\ callPc' = [callPc EXCEPT ![w] = "cancelled"]
    /\ UNCHANGED <<mapVars, closed, closing, callCid, result, markPc>>

\* Mutants of Unregister: the empty entry stays; a cancelled call reports true.
UnregisterKeepsEntry(w) ==
    /\ callPc[w] = "cancelled"
    /\ callPc' = [callPc EXCEPT ![w] = "returned"]
    /\ result' = [result EXCEPT ![w] = "false"]
    /\ chans' = [chans EXCEPT ![callCid[w]] = @ \ {w}]
    /\ UNCHANGED <<completed, everDone, dropped, present, entryDone, closed, closing, callCid, markPc>>

UnregisterReportsTrue(w) ==
    /\ callPc[w] = "cancelled"
    /\ callPc' = [callPc EXCEPT ![w] = "returned"]
    /\ result' = [result EXCEPT ![w] = "true"]
    /\ chans' = [chans EXCEPT ![callCid[w]] = @ \ {w}]
    /\ present' = IF chans[callCid[w]] \subseteq {w} THEN present \ {callCid[w]} ELSE present
    /\ UNCHANGED <<completed, everDone, dropped, entryDone, closed, closing, callCid, markPc>>

\* The locked section after a cancellation: take the channel out of the entry
\* the map holds now, and delete an entry that has no channel left.
Unregister(w) ==
    LET c == callCid[w]
        left == chans[c] \ {w}
    IN /\ callPc[w] = "cancelled"
       /\ callPc' = [callPc EXCEPT ![w] = "returned"]
       /\ result' = [result EXCEPT ![w] = "false"]
       /\ chans' = [chans EXCEPT ![c] = left]
       /\ present' = IF left = {} THEN present \ {c} ELSE present
       /\ UNCHANGED <<completed, everDone, dropped, entryDone, closed, closing, callCid, markPc>>

\* Reset replaces both maps; the channels of calls still waiting are dropped
\* without being closed.
Reset ==
    /\ completed' = {}
    /\ dropped' = dropped \union UNION {chans[c] : c \in Cids}
    /\ present' = {}
    /\ entryDone' = [c \in Cids |-> FALSE]
    /\ chans' = [c \in Cids |-> {}]
    /\ UNCHANGED <<closed, closing, callVars, markPc, everDone>>

Next ==
    \/ \E m \in Marks, c \in Cids : Done(m, c)
    \/ \E m \in Marks, w \in Calls : CloseOne(m, w)
    \/ \E m \in Marks : DoneReturns(m)
    \/ \E w \in Calls, c \in Cids : WaitDone(w, c)
    \/ \E w \in Calls : Woken(w) \/ Cancelled(w) \/ Unregister(w)
    \/ Reset

Spec == Init /\ [][Next]_vars

\* A goroutine that can run does run: Done finishes its loop of closes, a
\* select with a ready case fires, and the lock is granted in the end.  No
\* fairness on the calls themselves nor on cancellation.
Fairness ==
    /\ \A m \in Marks : /\ WF_vars(DoneReturns(m))
                        /\ \A w \in Calls : WF_vars(CloseOne(m, w))
    /\ \A w \in Calls : WF_vars(Woken(w)) /\ WF_vars(Unregister(w))

FairSpec == Spec /\ Fairness
-----------------------------------------------------------------------------
\* IsDone, GetDoneCIDs and Count read the maps under the lock.
IsDone(c) == c \in completed \/ (c \in present /\ entryDone[c])

GetDoneCIDs == {c \in present : entryDone[c]} \union completed

Count == Cardinality({c \in present : entryDone[c]}) + Cardinality(completed \ present)
-----------------------------------------------------------------------------
TypeOK ==
    /\ completed \subseteq Cids
    /\ everDone \subseteq Cids
    /\ dropped \subseteq Calls
    /\ present \subseteq Cids
    /\ entryDone \in [Cids -> BOOLEAN]
    /\ chans \in [Cids -> SUBSET Calls]
    /\ closed \subseteq Calls
    /\ closing \in [Marks -> SUBSET Calls]
    /\ callPc \in [Calls -> {"start", "waiting", "cancelled", "returned"}]
    /\ callCid \in [Calls -> Cids \union {NoCid}]
    /\ result \in [Calls -> {"pending", "true", "false"}]
    /\ markPc \in [Marks -> {"start", "closing", "returned"}]

\* A channel is on its way to being closed at most once: the map, the lists
\* Done has taken and the closed channels never share one, so close(ch) never
\* panics.
NoDoubleClose ==
    /\ \A c \in Cids : chans[c] \intersect closed = {}
    /\ \A c \in Cids, m \in Marks : chans[c] \intersect closing[m] = {}
    /\ \A m \in Marks : closing[m] \intersect closed = {}
    /\ \A m, n \in Marks : m # n => closing[m] \intersect closing[n] = {}
    /\ \A c, d \in Cids : c # d => chans[c] \intersect chans[d] = {}

\* A call that waits is in the entry of its CID, in a list Done is closing, or
\* its channel is closed: no wake-up is lost between the check of completed
\* and the registration.  A call that Reset dropped is the one exception.
Reachable(w) ==
    \/ callCid[w] \in present /\ w \in chans[callCid[w]]
    \/ \E m \in Marks : w \in closing[m]
    \/ w \in closed

NoLostWakeup == \A w \in Calls : callPc[w] = "waiting" => Reachable(w) \/ w \in dropped

\* The waiters map keeps no empty entry behind (it would be kept for ever),
\* and no entry for a CID that is done.
EntriesInUse ==
    \A c \in present : chans[c] # {} /\ c \notin completed /\ ~entryDone[c]

\* Count and GetDoneCIDs, computed from the two maps, agree with IsDone.
CountAgrees ==
    /\ Count = Cardinality(GetDoneCIDs)
    /\ \A c \in Cids : IsDone(c) <=> c \in GetDoneCIDs

\* The two maps fit together: no entry outlives its waiters or its CID's
\* completion, so that the readers that combine the maps count a CID once.
MapsAgree == EntriesInUse /\ CountAgrees

\* A call that waits for a CID returns once the CID is done, unless Reset
\* dropped its channel (then only its context ends it).
DoneWakesWaiter ==
    \A w \in Calls : (callPc[w] = "waiting" /\ callCid[w] \in completed /\ w \notin dropped)
                        ~> (callPc[w] = "returned")

\* The locked implementation is the set of done CIDs the interface describes.
Abstract == INSTANCE DoneSet WITH
    marked <- everDone, want <- callCid, result <- result

ImplementsDoneSet == Abstract!AbsSpec
=============================================================================
