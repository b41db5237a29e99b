--------------------------- MODULE BlockWaitsProofs ---------------------------
(***************************************************************************)
(* Proofs about the two places where a goroutine waits for a block that    *)
(* others are busy with: DoneTracker, whose WaitDone waits for a block to  *)
(* be stored, and Downloader, whose Get waits for a block to be fetched.   *)
(* The two share no state.  For any CIDs and any number of calls: the      *)
(* tracker's safety invariants, and that it implements DoneSet.  For any   *)
(* blocks and links, workers, calls of Get and failures: every download    *)
(* under way is in exactly one place, no block is left in the queue while  *)
(* all workers sleep, and blocks somebody waits for are taken up first.    *)
(***************************************************************************)
EXTENDS DoneTracker, Downloader, FiniteSetTheorems, SequenceTheorems, TLAPS

-----------------------------------------------------------------------------
(* The tracker of what is done.                                             *)

\* A call that has not started is nowhere yet; one that has started names a CID,
\* and it has a result exactly when it has returned.
CallsAgree ==
    \A w \in Calls :
        /\ callPc[w] = "start" => /\ callCid[w] = NoCid
                                  /\ w \notin closed
                                  /\ \A c \in Cids : w \notin chans[c]
                                  /\ \A m \in Marks : w \notin closing[m]
        /\ callPc[w] # "start" => callCid[w] \in Cids
        /\ (result[w] = "pending") <=> (callPc[w] # "returned")

\* A channel is kept under the CID its call waits for, and only in an entry the
\* map holds.
ChannelsFiled ==
    \A c \in Cids : \A w \in chans[c] : callCid[w] = c /\ c \in present

\* A channel is closed only for a CID that was done, and completed is part of
\* what was done.
ClosedMeansDone ==
    /\ completed \subseteq everDone
    /\ \A w \in closed : callCid[w] \in everDone
    /\ \A m \in Marks : \A w \in closing[m] : callCid[w] \in everDone

\* A Done that has not started holds no channels.
MarksAgree == \A m \in Marks : markPc[m] = "start" => closing[m] = {}

Inv ==
    /\ TypeOK
    /\ CallsAgree
    /\ ChannelsFiled
    /\ ClosedMeansDone
    /\ MarksAgree
    /\ NoDoubleClose
    /\ NoLostWakeup
    /\ EntriesInUse
-----------------------------------------------------------------------------
LEMMA InitInv == Init => Inv
  BY DoneTrackerAssumption
  DEF Init, Inv, TypeOK, CallsAgree, ChannelsFiled, ClosedMeansDone, MarksAgree,
      NoDoubleClose, NoLostWakeup, EntriesInUse

LEMMA DoneInv ==
  ASSUME Inv, NEW m \in Marks, NEW c \in Cids, Done(m, c)
  PROVE  Inv'
<1>1. /\ completed' = completed \union {c}
      /\ everDone' = everDone \union {c}
      /\ present' = present \ {c}
      /\ closing' = [closing EXCEPT ![m] = chans[c]]
      /\ chans' = [chans EXCEPT ![c] = {}]
      /\ markPc' = [markPc EXCEPT ![m] = "closing"]
      /\ entryDone' = [entryDone EXCEPT ![c] = (c \in present)]
      /\ UNCHANGED <<closed, callPc, callCid, result, dropped>>
  BY DEF Inv, EntriesInUse, Done, callVars
<1>2. TypeOK'
  <2>1. (c \in present) \in BOOLEAN
    OBVIOUS
  <2>2. entryDone' \in [Cids -> BOOLEAN]
    BY <1>1, <2>1 DEF Inv, TypeOK
  <2>. QED
    BY <1>1, <2>2 DEF Inv, TypeOK
<1>3. CallsAgree'
  BY <1>1 DEF Inv, CallsAgree
<1>4. ChannelsFiled'
  BY <1>1 DEF Inv, TypeOK, ChannelsFiled
<1>5. ClosedMeansDone'
  BY <1>1 DEF Inv, ChannelsFiled, ClosedMeansDone
<1>6. MarksAgree'
  BY <1>1 DEF Inv, TypeOK, MarksAgree
<1>7. NoDoubleClose'
  BY <1>1 DEF Inv, TypeOK, NoDoubleClose
<1>8. NoLostWakeup'
  <2>. SUFFICES ASSUME NEW w \in Calls, callPc'[w] = "waiting", w \notin dropped'
                PROVE  Reachable(w)'
    BY DEF NoLostWakeup
  <2>1. Reachable(w) /\ callCid[w] \in Cids
    BY <1>1 DEF Inv, CallsAgree, NoLostWakeup
  <2>2. CASE w \in chans[c]
    <3>1. w \in closing'[m]
      BY <1>1, <2>2 DEF Inv, TypeOK
    <3>. QED
      BY <3>1 DEF Reachable
  <2>3. CASE w \notin chans[c] /\ w \in chans[callCid[w]] /\ callCid[w] \in present
    <3>1. w \in chans'[callCid'[w]] /\ callCid'[w] \in present'
      BY <1>1, <2>1, <2>3 DEF Inv, TypeOK
    <3>. QED
      BY <3>1 DEF Reachable
  <2>4. CASE \E n \in Marks : w \in closing[n]
    <3>1. PICK n \in Marks : w \in closing[n]
      BY <2>4
    <3>2. n # m
      BY <3>1 DEF Inv, MarksAgree, Done
    <3>3. w \in closing'[n]
      BY <1>1, <3>1, <3>2 DEF Inv, TypeOK
    <3>. QED
      BY <3>3 DEF Reachable
  <2>5. CASE w \in closed
    BY <1>1, <2>5 DEF Reachable
  <2>. QED
    BY <2>1, <2>2, <2>3, <2>4, <2>5 DEF Reachable
<1>9. EntriesInUse'
  BY <1>1 DEF Inv, EntriesInUse
<1>. QED
  BY <1>2, <1>3, <1>4, <1>5, <1>6, <1>7, <1>8, <1>9 DEF Inv

LEMMA CloseOneInv ==
  ASSUME Inv, NEW m \in Marks, NEW w \in Calls, CloseOne(m, w)
  PROVE  Inv'
<1>1. TypeOK'
  BY DEF Inv, TypeOK, CloseOne, mapVars, callVars
<1>2. CallsAgree'
  BY DEF Inv, CallsAgree, CloseOne, mapVars, callVars
<1>3. ChannelsFiled'
  BY DEF Inv, ChannelsFiled, CloseOne, mapVars, callVars
<1>4. ClosedMeansDone'
  BY DEF Inv, ClosedMeansDone, CloseOne, mapVars, callVars
<1>5. MarksAgree'
  BY DEF Inv, MarksAgree, CloseOne
<1>6. NoDoubleClose'
  BY DEF Inv, TypeOK, NoDoubleClose, CloseOne, mapVars
<1>7. NoLostWakeup'
  BY DEF Inv, NoLostWakeup, Reachable, CloseOne, mapVars, callVars
<1>8. EntriesInUse'
  BY DEF Inv, EntriesInUse, CloseOne, mapVars
<1>. QED
  BY <1>1, <1>2, <1>3, <1>4, <1>5, <1>6, <1>7, <1>8 DEF Inv

LEMMA DoneReturnsInv ==
  ASSUME Inv, NEW m \in Marks, DoneReturns(m)
  PROVE  Inv'
<1>1. TypeOK'
  BY DEF Inv, TypeOK, DoneReturns, mapVars, callVars
<1>2. CallsAgree'
  BY DEF Inv, CallsAgree, DoneReturns, mapVars, callVars
<1>3. ChannelsFiled'
  BY DEF Inv, ChannelsFiled, DoneReturns, mapVars, callVars
<1>4. ClosedMeansDone'
  BY DEF Inv, ClosedMeansDone, DoneReturns, mapVars, callVars
<1>5. MarksAgree'
  BY DEF Inv, MarksAgree, DoneReturns
<1>6. NoDoubleClose'
  BY DEF Inv, NoDoubleClose, DoneReturns, mapVars
<1>7. NoLostWakeup'
  BY DEF Inv, NoLostWakeup, Reachable, DoneReturns, mapVars, callVars
<1>8. EntriesInUse'
  BY DEF Inv, EntriesInUse, DoneReturns, mapVars
<1>. QED
  BY <1>1, <1>2, <1>3, <1>4, <1>5, <1>6, <1>7, <1>8 DEF Inv

LEMMA WaitDoneInv ==
  ASSUME Inv, NEW w \in Calls, NEW c \in Cids, WaitDone(w, c)
  PROVE  Inv'
<1>1. TypeOK'
  <2>1. CASE UNCHANGED <<present, chans, entryDone>>
    BY <2>1 DEF Inv, TypeOK, WaitDone
  <2>2. CASE ~ UNCHANGED <<present, chans, entryDone>>
    <3>1. /\ present' = present \union {c}
          /\ entryDone' = [entryDone EXCEPT ![c] = FALSE]
          /\ chans' = [chans EXCEPT ![c] = @ \union {w}]
          /\ callPc' = [callPc EXCEPT ![w] = "waiting"]
          /\ UNCHANGED result
      BY <2>2 DEF WaitDone
    <3>2. chans' \in [Cids -> SUBSET Calls]
      BY <3>1 DEF Inv, TypeOK
    <3>3. present' \subseteq Cids /\ entryDone' \in [Cids -> BOOLEAN]
      BY <3>1 DEF Inv, TypeOK
    <3>. QED
      BY <3>1, <3>2, <3>3 DEF Inv, TypeOK, WaitDone
  <2>. QED
    BY <2>1, <2>2
<1>2. CallsAgree'
  BY DEF Inv, TypeOK, CallsAgree, WaitDone
<1>3. ChannelsFiled'
  BY DEF Inv, TypeOK, CallsAgree, ChannelsFiled, WaitDone
<1>4. ClosedMeansDone'
  BY DEF Inv, CallsAgree, ClosedMeansDone, WaitDone
<1>5. MarksAgree'
  BY DEF Inv, MarksAgree, WaitDone
<1>6. NoDoubleClose'
  <2>1. CASE UNCHANGED chans
    BY <2>1 DEF Inv, NoDoubleClose, WaitDone
  <2>2. CASE chans' = [chans EXCEPT ![c] = @ \union {w}]
    <3>1. w \notin closed /\ (\A m \in Marks : w \notin closing[m]) /\ (\A d \in Cids : w \notin chans[d])
      BY DEF Inv, CallsAgree, WaitDone
    <3>2. \A d \in Cids : chans'[d] \subseteq chans[d] \union {w} /\ (d # c => chans'[d] = chans[d])
      BY <2>2 DEF Inv, TypeOK
    <3>. QED
      BY <3>1, <3>2 DEF Inv, NoDoubleClose, WaitDone
  <2>. QED
    BY <2>1, <2>2 DEF WaitDone
<1>7. NoLostWakeup'
  BY DEF Inv, TypeOK, NoLostWakeup, Reachable, WaitDone
<1>8. EntriesInUse'
  BY DEF Inv, TypeOK, EntriesInUse, WaitDone
<1>. QED
  BY <1>1, <1>2, <1>3, <1>4, <1>5, <1>6, <1>7, <1>8 DEF Inv

LEMMA WokenInv ==
  ASSUME Inv, NEW w \in Calls, Woken(w)
  PROVE  Inv'
<1>1. TypeOK'
  BY DEF Inv, TypeOK, Woken, mapVars
<1>2. CallsAgree'
  BY DEF Inv, TypeOK, CallsAgree, Woken, mapVars
<1>3. ChannelsFiled'
  BY DEF Inv, ChannelsFiled, Woken, mapVars
<1>4. ClosedMeansDone'
  BY DEF Inv, ClosedMeansDone, Woken, mapVars
<1>5. MarksAgree'
  BY DEF Inv, MarksAgree, Woken
<1>6. NoDoubleClose'
  BY DEF Inv, NoDoubleClose, Woken, mapVars
<1>7. NoLostWakeup'
  BY DEF Inv, NoLostWakeup, Reachable, Woken, mapVars
<1>8. EntriesInUse'
  BY DEF Inv, EntriesInUse, Woken, mapVars
<1>. QED
  BY <1>1, <1>2, <1>3, <1>4, <1>5, <1>6, <1>7, <1>8 DEF Inv

LEMMA CancelledInv ==
  ASSUME Inv, NEW w \in Calls, Cancelled(w)
  PROVE  Inv'
<1>1. TypeOK'
  BY DEF Inv, TypeOK, Cancelled, mapVars
<1>2. CallsAgree'
  BY DEF Inv, CallsAgree, Cancelled, mapVars
<1>3. ChannelsFiled'
  BY DEF Inv, ChannelsFiled, Cancelled, mapVars
<1>4. ClosedMeansDone'
  BY DEF Inv, ClosedMeansDone, Cancelled, mapVars
<1>5. MarksAgree'
  BY DEF Inv, MarksAgree, Cancelled
<1>6. NoDoubleClose'
  BY DEF Inv, NoDoubleClose, Cancelled, mapVars
<1>7. NoLostWakeup'
  BY DEF Inv, NoLostWakeup, Reachable, Cancelled, mapVars
<1>8. EntriesInUse'
  BY DEF Inv, EntriesInUse, Cancelled, mapVars
<1>. QED
  BY <1>1, <1>2, <1>3, <1>4, <1>5, <1>6, <1>7, <1>8 DEF Inv

LEMMA UnregisterInv ==
  ASSUME Inv, NEW w \in Calls, Unregister(w)
  PROVE  Inv'
<1>1. TypeOK'
  BY DEF Inv, TypeOK, Unregister
<1>2. CallsAgree'
  BY DEF Inv, TypeOK, CallsAgree, Unregister
<1>3. ChannelsFiled'
  BY DEF Inv, TypeOK, ChannelsFiled, Unregister
<1>4. ClosedMeansDone'
  BY DEF Inv, ClosedMeansDone, Unregister
<1>5. MarksAgree'
  BY DEF Inv, MarksAgree, Unregister
<1>6. NoDoubleClose'
  BY DEF Inv, NoDoubleClose, Unregister
<1>7. NoLostWakeup'
  BY DEF Inv, NoLostWakeup, Reachable, Unregister
<1>8. EntriesInUse'
  BY DEF Inv, EntriesInUse, Unregister
<1>. QED
  BY <1>1, <1>2, <1>3, <1>4, <1>5, <1>6, <1>7, <1>8 DEF Inv

LEMMA ResetInv ==
  ASSUME Inv, Reset
  PROVE  Inv'
<1>1. TypeOK'
  BY DEF Inv, TypeOK, Reset, callVars
<1>2. CallsAgree'
  BY DEF Inv, CallsAgree, Reset, callVars
<1>3. ChannelsFiled'
  BY DEF ChannelsFiled, Reset
<1>4. ClosedMeansDone'
  BY DEF Inv, ClosedMeansDone, Reset, callVars
<1>5. MarksAgree'
  BY DEF Inv, MarksAgree, Reset
<1>6. NoDoubleClose'
  BY DEF Inv, NoDoubleClose, Reset
<1>7. NoLostWakeup'
  BY DEF Inv, CallsAgree, NoLostWakeup, Reachable, Reset, callVars
<1>8. EntriesInUse'
  BY DEF EntriesInUse, Reset
<1>. QED
  BY <1>1, <1>2, <1>3, <1>4, <1>5, <1>6, <1>7, <1>8 DEF Inv

LEMMA StutterInv ==
  ASSUME Inv, UNCHANGED vars
  PROVE  Inv'
  BY DEF Inv, TypeOK, CallsAgree, ChannelsFiled, ClosedMeansDone, MarksAgree,
         NoDoubleClose, NoLostWakeup, EntriesInUse, Reachable, vars

LEMMA NextInv == Inv /\ [Next]_vars => Inv'
<1>. SUFFICES ASSUME Inv, [Next]_vars
              PROVE  Inv'
  OBVIOUS
<1>1. ASSUME NEW m \in Marks, NEW c \in Cids, Done(m, c)
      PROVE  Inv'
  BY <1>1, DoneInv
<1>2. ASSUME NEW m \in Marks, NEW w \in Calls, CloseOne(m, w)
      PROVE  Inv'
  BY <1>2, CloseOneInv
<1>3. ASSUME NEW m \in Marks, DoneReturns(m)
      PROVE  Inv'
  BY <1>3, DoneReturnsInv
<1>4. ASSUME NEW w \in Calls, NEW c \in Cids, WaitDone(w, c)
      PROVE  Inv'
  BY <1>4, WaitDoneInv
<1>5. ASSUME NEW w \in Calls, Woken(w)
      PROVE  Inv'
  BY <1>5, WokenInv
<1>6. ASSUME NEW w \in Calls, Cancelled(w)
      PROVE  Inv'
  BY <1>6, CancelledInv
<1>7. ASSUME NEW w \in Calls, Unregister(w)
      PROVE  Inv'
  BY <1>7, UnregisterInv
<1>8. CASE Reset
  BY <1>8, ResetInv
<1>9. CASE UNCHANGED vars
  BY <1>9, StutterInv
<1>. QED
  BY <1>1, <1>2, <1>3, <1>4, <1>5, <1>6, <1>7, <1>8, <1>9 DEF Next

\* The inductive invariant holds in every reachable state.
THEOREM Invariance == Spec => []Inv
  BY InitInv, NextInv, PTL DEF Spec

\* Every variable of the tracker keeps its type.
THEOREM TypeCorrect == Spec => []TypeOK
<1>1. Inv => TypeOK
  BY DEF Inv
<1>. QED
  BY <1>1, Invariance, PTL

\* Done closes no channel twice, however many calls of Done, WaitDone and Reset
\* overlap: close(ch) never panics.
THEOREM NeverDoubleClose == Spec => []NoDoubleClose
<1>1. Inv => NoDoubleClose
  BY DEF Inv
<1>. QED
  BY <1>1, Invariance, PTL

\* A WaitDone call that waits can always still be woken, unless Reset dropped
\* its channel.
THEOREM NeverLostWakeup == Spec => []NoLostWakeup
<1>1. Inv => NoLostWakeup
  BY DEF Inv
<1>. QED
  BY <1>1, Invariance, PTL

\* The done entries of the waiters map are none, so Count adds up the completed
\* CIDs and GetDoneCIDs lists them.
LEMMA CountFromMaps ==
  ASSUME TypeOK, EntriesInUse
  PROVE  CountAgrees
<1>1. {c \in present : entryDone[c]} = {} /\ completed \ present = completed
  BY DEF EntriesInUse
<1>2. GetDoneCIDs = completed
  BY <1>1 DEF GetDoneCIDs
<1>3. IsFiniteSet(completed)
  BY DoneTrackerAssumption, FS_Subset DEF TypeOK
<1>4. Count = Cardinality(GetDoneCIDs)
  <2>1. Count = Cardinality({}) + Cardinality(completed)
    BY <1>1, Zenon DEF Count
  <2>2. Cardinality({}) = 0
    BY FS_EmptySet
  <2>3. Cardinality(completed) \in Nat
    BY <1>3, FS_CardinalityType
  <2>. QED
    BY <1>2, <2>1, <2>2, <2>3
<1>5. \A c \in Cids : IsDone(c) <=> c \in GetDoneCIDs
  BY DEF IsDone, GetDoneCIDs
<1>. QED
  BY <1>4, <1>5 DEF CountAgrees

\* The waiters map keeps no empty entry and no entry of a done CID, and Count,
\* GetDoneCIDs and IsDone, which read both maps, agree.
THEOREM MapsAlwaysAgree == Spec => []MapsAgree
<1>1. Inv => MapsAgree
  BY CountFromMaps DEF Inv, MapsAgree
<1>. QED
  BY <1>1, Invariance, PTL
-----------------------------------------------------------------------------
LEMMA InitAbs == Init => Abstract!AbsInit
  BY DEF Init, Abstract!AbsInit, Abstract!NoCid, NoCid

\* Each step of the tracker is a step of the set of done CIDs or changes none of
\* what that set shows.
LEMMA NextAbs == Inv /\ [Next]_vars => [Abstract!AbsNext]_Abstract!absVars
<1>. SUFFICES ASSUME Inv, [Next]_vars
              PROVE  [Abstract!AbsNext]_Abstract!absVars
  OBVIOUS
<1>1. ASSUME NEW m \in Marks, NEW c \in Cids, Done(m, c)
      PROVE  Abstract!AbsNext
  <2>1. Abstract!Mark(c)
    BY <1>1 DEF Done, callVars, Inv, EntriesInUse, Abstract!Mark
  <2>. QED
    BY <2>1 DEF Abstract!AbsNext
<1>2. ASSUME NEW m \in Marks, NEW w \in Calls, CloseOne(m, w)
      PROVE  UNCHANGED Abstract!absVars
  BY <1>2 DEF CloseOne, mapVars, callVars, Abstract!absVars
<1>3. ASSUME NEW m \in Marks, DoneReturns(m)
      PROVE  UNCHANGED Abstract!absVars
  BY <1>3 DEF DoneReturns, mapVars, callVars, Abstract!absVars
<1>4. ASSUME NEW w \in Calls, NEW c \in Cids, WaitDone(w, c)
      PROVE  Abstract!AbsNext
  <2>1. Abstract!Ask(w, c)
    BY <1>4 DEF WaitDone, Inv, CallsAgree, ClosedMeansDone, EntriesInUse,
                Abstract!Ask, Abstract!NoCid, NoCid
  <2>. QED
    BY <2>1 DEF Abstract!AbsNext
<1>5. ASSUME NEW w \in Calls, Woken(w)
      PROVE  Abstract!AbsNext
  <2>1. Abstract!ReturnTrue(w)
    BY <1>5 DEF Woken, mapVars, Inv, CallsAgree, ClosedMeansDone, Abstract!ReturnTrue
  <2>. QED
    BY <2>1 DEF Abstract!AbsNext
<1>6. ASSUME NEW w \in Calls, Cancelled(w)
      PROVE  UNCHANGED Abstract!absVars
  BY <1>6 DEF Cancelled, mapVars, Abstract!absVars
<1>7. ASSUME NEW w \in Calls, Unregister(w)
      PROVE  Abstract!AbsNext
  <2>1. Abstract!ReturnFalse(w)
    BY <1>7, DoneTrackerAssumption
    DEF Unregister, Inv, CallsAgree, Abstract!ReturnFalse, Abstract!NoCid, NoCid
  <2>. QED
    BY <2>1 DEF Abstract!AbsNext
<1>8. CASE Reset
  BY <1>8 DEF Reset, callVars, Abstract!absVars
<1>9. CASE UNCHANGED vars
  BY <1>9 DEF vars, Abstract!absVars
<1>. QED
  BY <1>1, <1>2, <1>3, <1>4, <1>5, <1>6, <1>7, <1>8, <1>9 DEF Next

\* The locked, channel-based tracker implements the set of done CIDs: WaitDone
\* returns once, and with true only for a CID that Done was called for.
THEOREM Refinement == Spec => ImplementsDoneSet
  BY InitAbs, NextAbs, Invariance, PTL DEF Spec, ImplementsDoneSet, Abstract!AbsSpec

-----------------------------------------------------------------------------
(* The downloader.                                                          *)

(* A worker has a block only from the pop to the removal from the map        *)
(* (downloadWorker); a Get has an answer once its channel is closed.        *)
Task == [pc : {"check", "wait"}, cid : {None}] \cup [pc : {"download", "closed", "done"}, cid : BlockCids]
GetCall == [pc : {"idle"}, cid : {None}, answer : {None}]
            \cup [pc : {"queue", "wait", "end"}, cid : BlockCids, answer : BOOLEAN \cup {None}]

(* What bd.mu protects.                                                     *)
Machine == [resp : [BlockCids -> Response \cup {None}], queue : Seq(BlockCids), worker : [Workers -> Task]]

(* The inductive part of InflightIsOwned, of a map, a queue and the workers,*)
(* which are those of a state or what queueRelated has under its lock: no   *)
(* block is queued twice, held twice, or both; what is queued or held is in *)
(* the map, done exactly when its worker is through with it; and what is in *)
(* the map is queued or held.                                               *)
Owned(r, q, ws) ==
    /\ \A i, j \in DOMAIN q : q[i] = q[j] => i = j
    /\ \A v, w \in Workers : ws[v].cid = ws[w].cid /\ ws[v].cid # None => v = w
    /\ \A i \in DOMAIN q : /\ r[q[i]] # None /\ ~r[q[i]].done
                           /\ \A w \in Workers : ws[w].cid # q[i]
    /\ \A w \in Workers : ws[w].cid # None =>
          /\ r[ws[w].cid] # None
          /\ r[ws[w].cid].done <=> ws[w].pc \in {"closed", "done"}
    /\ \A c \in BlockCids : r[c] # None =>
          (\E i \in DOMAIN q : q[i] = c) \/ \E w \in Workers : ws[w].cid = c

(* A block in the queue finds a worker awake: one that works, or that is to *)
(* look at the queue again (cond.Signal in queueBlock).                     *)
Awake(q, ws) == q # <<>> => \E w \in Workers : ws[w].pc # "wait"

(* Only a Get gives the highest priority, and the block that an unanswered  *)
(* Get waits for has it, queued or being fetched.                           *)
Foreground(r) ==
    /\ \A c \in BlockCids : r[c] # None /\ r[c].priority = Top => c \in asked
    /\ \A g \in Getters : getter[g].pc = "wait" /\ getter[g].answer = None =>
          r[getter[g].cid] # None /\ r[getter[g].cid].priority = Top /\ ~r[getter[g].cid].done

Good(m) == m \in Machine /\ Owned(m.resp, m.queue, m.worker) /\ Awake(m.queue, m.worker) /\ Foreground(m.resp)

(* The downloader's variables keep their types.                             *)
DownloaderTypeOK ==
    /\ ready \subseteq BlockCids
    /\ Now \in Machine
    /\ related \in [BlockCids -> Nat]
    /\ getter \in [Getters -> GetCall]
    /\ faults \in Nat
    /\ asked \subseteq BlockCids

(* The inductive invariant.                                                 *)
DownloaderInv == DownloaderTypeOK /\ Owned(resp, queue, worker) /\ Awake(queue, worker) /\ Foreground(resp)

-----------------------------------------------------------------------------
(* What the heap, the signal and queueBlock do.                             *)

\* A set of natural numbers that is not empty has a least element.
LEMMA LeastNumber ==
    ASSUME NEW S \in SUBSET Nat, S # {}
    PROVE  \E m \in S : \A k \in S : m <= k
<1> DEFINE T == {0..m : m \in S}
<1>1. T \subseteq FiniteSubsetsOf(Nat)
    <2> SUFFICES ASSUME NEW m \in S PROVE 0..m \in FiniteSubsetsOf(Nat)
        OBVIOUS
    <2>1. m \in Int /\ 0 \in Int
        OBVIOUS
    <2>2. IsFiniteSet(0..m)
        BY <2>1, FS_Interval
    <2> QED
        BY <2>2 DEF FiniteSubsetsOf
<1>2. IsWellFoundedOn(StrictSubsetOrdering(Nat), FiniteSubsetsOf(Nat))
    BY FS_StrictSubsetOrderingWellFounded
<1>3. T # {}
    OBVIOUS
<1>4. \E x \in T : \A y \in T : <<y, x>> \notin StrictSubsetOrdering(Nat)
    <2> HIDE DEF T
    <2> QED
        BY <1>1, <1>2, <1>3, WFMin
<1>5. PICK m \in S : \A k \in S : <<0..k, 0..m>> \notin StrictSubsetOrdering(Nat)
    BY <1>4
<1>6. ASSUME NEW k \in S, k < m
      PROVE  FALSE
    <2>1. 0..k \subseteq 0..m /\ 0..k # 0..m /\ 0..k \subseteq Nat /\ 0..m \subseteq Nat
        BY <1>6
    <2> QED
        BY <1>5, <2>1 DEF StrictSubsetOrdering
<1> QED
    BY <1>6

\* Signal changes no more than one waiting worker, which it wakes.
LEMMA SignalWakes ==
    ASSUME NEW ws \in [Workers -> Task]
    PROVE  /\ Signal(ws) \in [Workers -> Task]
           /\ \A w \in Workers : /\ Signal(ws)[w].cid = ws[w].cid
                                 /\ Signal(ws)[w].pc = ws[w].pc \/ (ws[w].pc = "wait" /\ Signal(ws)[w].pc = "check")
           /\ \E w \in Workers : Signal(ws)[w].pc # "wait"
<1> DEFINE waiting == {w \in Workers : ws[w].pc = "wait"}
           one == CHOOSE w \in waiting : TRUE
<1>1. CASE waiting = {}
    <2>1. Signal(ws) = ws
        BY <1>1 DEF Signal
    <2> QED
        BY <1>1, <2>1, DownloaderAssumption
<1>2. CASE waiting # {}
    <2>1. one \in waiting
        BY <1>2
    <2>2. Signal(ws) = [ws EXCEPT ![one] = Idle]
        BY <1>2 DEF Signal
    <2> HIDE DEF one
    <2>3. Idle \in Task /\ Idle.cid = None /\ Idle.pc = "check"
        BY DEF Idle, Task
    <2>4. ws[one].cid = None
        BY <2>1 DEF Task
    <2> QED
        BY <2>1, <2>2, <2>3, <2>4
<1> QED
    BY <1>1, <1>2

\* The higher of two priorities.
LEMMA HigherOfTwo ==
    ASSUME NEW a \in Low..Top, NEW b \in Low..Top
    PROVE  Max({a, b}) = IF a < b THEN b ELSE a
<1>1. \E x \in {a, b} : \A y \in {a, b} : x >= y
    BY DEF Low, Top
<1>2. Max({a, b}) \in {a, b} /\ \A y \in {a, b} : Max({a, b}) >= y
    BY <1>1 DEF Max
<1> QED
    BY <1>2 DEF Low, Top

\* A block in flight stays where it is, and its priority rises.
LEMMA QueueKnown ==
    ASSUME NEW m \in Machine, NEW c \in BlockCids, NEW priority \in Low..Top, m.resp[c] # None
    PROVE  LET hi == IF m.resp[c].priority < priority THEN priority ELSE m.resp[c].priority
           IN QueueBlock(m, c, priority) = [resp |-> [m.resp EXCEPT ![c] = [done |-> m.resp[c].done, ok |-> m.resp[c].ok, priority |-> hi]],
                                            queue |-> m.queue, worker |-> m.worker]
<1> DEFINE hi == IF m.resp[c].priority < priority THEN priority ELSE m.resp[c].priority
<1>1. m.resp[c] \in Response
    BY DEF Machine
<1>2. Max({m.resp[c].priority, priority}) = hi
    BY <1>1, HigherOfTwo DEF Response
<1>3. QueueBlock(m, c, priority) = [m EXCEPT !.resp[c].priority = Max({m.resp[c].priority, priority})]
    BY Zenon DEF QueueBlock
<1>4. QueueBlock(m, c, priority) = [m EXCEPT !.resp[c].priority = hi]
    BY <1>2, <1>3
<1> HIDE DEF hi
<1>5. [m EXCEPT !.resp[c].priority = hi] =
        [resp |-> [m.resp EXCEPT ![c] = [done |-> m.resp[c].done, ok |-> m.resp[c].ok, priority |-> hi]],
         queue |-> m.queue, worker |-> m.worker]
    <2> DEFINE rr == [done |-> m.resp[c].done, ok |-> m.resp[c].ok, priority |-> hi]
    <2>1. [m.resp[c] EXCEPT !.priority = hi] = rr
        BY <1>1 DEF Response
    <2>2. [m EXCEPT !.resp[c].priority = hi] = [m EXCEPT !.resp = [m.resp EXCEPT ![c] = [m.resp[c] EXCEPT !.priority = hi]]]
        OBVIOUS
    <2> HIDE DEF rr
    <2>3. [m EXCEPT !.resp[c].priority = hi] = [m EXCEPT !.resp = [m.resp EXCEPT ![c] = rr]]
        BY <2>1, <2>2
    <2>4. [m EXCEPT !.resp[c].priority = hi] = [resp |-> [m.resp EXCEPT ![c] = rr], queue |-> m.queue, worker |-> m.worker]
        BY <2>3 DEF Machine
    <2> QED
        BY <2>4 DEF rr
<1>6. QueueBlock(m, c, priority) =
        [resp |-> [m.resp EXCEPT ![c] = [done |-> m.resp[c].done, ok |-> m.resp[c].ok, priority |-> hi]],
         queue |-> m.queue, worker |-> m.worker]
    BY <1>4, <1>5
<1> QED
    BY <1>6 DEF hi

\* A block that is not in flight gets a response and the last place, and a
\* worker is signalled.
LEMMA QueueNew ==
    ASSUME NEW m \in Machine, NEW c \in BlockCids, NEW priority \in Low..Top, m.resp[c] = None
    PROVE  QueueBlock(m, c, priority) =
               [resp |-> [m.resp EXCEPT ![c] = [done |-> FALSE, ok |-> FALSE, priority |-> priority]],
                queue |-> Append(m.queue, c), worker |-> Signal(m.worker)]
<1>1. QueueBlock(m, c, priority) =
          [m EXCEPT !.resp[c] = [done |-> FALSE, ok |-> FALSE, priority |-> priority],
                    !.queue = Append(m.queue, c), !.worker = Signal(m.worker)]
    BY Zenon DEF QueueBlock
<1> DEFINE s == Signal(m.worker)
           q == Append(m.queue, c)
           rr == [done |-> FALSE, ok |-> FALSE, priority |-> priority]
<1>2. QueueBlock(m, c, priority) = [m EXCEPT !.resp[c] = rr, !.queue = q, !.worker = s]
    BY <1>1
<1> HIDE DEF s, q, rr
<1>3. QueueBlock(m, c, priority) = [resp |-> [m.resp EXCEPT ![c] = rr], queue |-> q, worker |-> s]
    BY <1>2 DEF Machine
<1> QED
    BY <1>3 DEF s, q, rr

\* What queueBlock keeps for whoever is already in flight, and what it gives to
\* the block it is called for.
LEMMA QueueRaises ==
    ASSUME NEW m \in Machine, NEW c \in BlockCids, NEW priority \in Low..Top
    PROVE  LET q == QueueBlock(m, c, priority)
           IN /\ q.resp[c] # None /\ q.resp[c].priority >= priority
              /\ q.resp[c].priority = priority \/ (m.resp[c] # None /\ q.resp[c].priority = m.resp[c].priority)
              /\ m.resp[c] = None => ~q.resp[c].done
              /\ m.resp[c] # None => q.resp[c].done = m.resp[c].done
              /\ m.resp[c] # None => q.resp[c].ok = m.resp[c].ok
              /\ \A d \in BlockCids \ {c} : q.resp[d] = m.resp[d]
<1> DEFINE q == QueueBlock(m, c, priority)
<1>1. CASE m.resp[c] # None
    <2> DEFINE hi == IF m.resp[c].priority < priority THEN priority ELSE m.resp[c].priority
               rr == [done |-> m.resp[c].done, ok |-> m.resp[c].ok, priority |-> hi]
    <2>1. q = [resp |-> [m.resp EXCEPT ![c] = rr], queue |-> m.queue, worker |-> m.worker]
        BY <1>1, QueueKnown, Zenon
    <2>2. m.resp[c] \in Response
        BY <1>1 DEF Machine
    <2>3. rr \in Response /\ rr # None /\ rr.priority >= priority /\ rr.priority \in {priority, m.resp[c].priority}
          /\ rr.done = m.resp[c].done /\ rr.ok = m.resp[c].ok
        BY <2>2, DownloaderAssumption DEF Response, Low, Top
    <2> HIDE DEF rr, q
    <2>4. q.resp[c] = rr /\ \A d \in BlockCids \ {c} : q.resp[d] = m.resp[d]
        BY <2>1 DEF Machine
    <2>5. q.resp[c] # None /\ q.resp[c].priority >= priority
          /\ (q.resp[c].priority = priority \/ q.resp[c].priority = m.resp[c].priority)
          /\ q.resp[c].done = m.resp[c].done /\ q.resp[c].ok = m.resp[c].ok
        BY <2>3, <2>4
    <2> QED
        BY <1>1, <2>4, <2>5 DEF q
<1>2. CASE m.resp[c] = None
    <2> DEFINE rr == [done |-> FALSE, ok |-> FALSE, priority |-> priority]
               s == Signal(m.worker)
    <2>1. q = [resp |-> [m.resp EXCEPT ![c] = rr], queue |-> Append(m.queue, c), worker |-> s]
        BY <1>2, QueueNew, Zenon
    <2>2. rr \in Response
        BY DEF Response
    <2>3. rr # None /\ rr.priority = priority /\ ~rr.done
        BY <2>2, DownloaderAssumption
    <2> HIDE DEF rr, q, s
    <2>4. q.resp[c] = rr /\ \A d \in BlockCids \ {c} : q.resp[d] = m.resp[d]
        BY <2>1 DEF Machine
    <2>5. q.resp[c] # None /\ q.resp[c].priority >= priority /\ q.resp[c].priority = priority /\ ~q.resp[c].done
        BY <2>3, <2>4 DEF Low, Top
    <2> QED
        BY <1>2, <2>4, <2>5 DEF q
<1> QED
    BY <1>1, <1>2

\* A map, a queue and workers of the right types.
LEMMA MachineOf ==
    ASSUME NEW a \in [BlockCids -> Response \cup {None}], NEW b \in Seq(BlockCids), NEW s \in [Workers -> Task]
    PROVE  [resp |-> a, queue |-> b, worker |-> s] \in Machine
BY DEF Machine

\* queueBlock keeps the types.
LEMMA QueueTyped ==
    ASSUME NEW m \in Machine, NEW c \in BlockCids, NEW priority \in Low..Top
    PROVE  QueueBlock(m, c, priority) \in Machine
<1> DEFINE q == QueueBlock(m, c, priority)
<1>1. CASE m.resp[c] # None
    <2> DEFINE hi == IF m.resp[c].priority < priority THEN priority ELSE m.resp[c].priority
               rr == [done |-> m.resp[c].done, ok |-> m.resp[c].ok, priority |-> hi]
    <2>1. q = [resp |-> [m.resp EXCEPT ![c] = rr], queue |-> m.queue, worker |-> m.worker]
        BY <1>1, QueueKnown, Zenon
    <2>2. m.resp[c] \in Response
        BY <1>1 DEF Machine
    <2>3. rr \in Response
        BY <2>2 DEF Response, Low, Top
    <2>4. m.resp \in [BlockCids -> Response \cup {None}] /\ m.queue \in Seq(BlockCids) /\ m.worker \in [Workers -> Task]
        BY DEF Machine
    <2> HIDE DEF rr
    <2>5. [m.resp EXCEPT ![c] = rr] \in [BlockCids -> Response \cup {None}]
        BY <2>3, <2>4
    <2>6. [resp |-> [m.resp EXCEPT ![c] = rr], queue |-> m.queue, worker |-> m.worker] \in Machine
        BY <2>4, <2>5, MachineOf
    <2> HIDE DEF q
    <2>7. q \in Machine
        BY <2>1, <2>6
    <2> QED
        BY <2>7 DEF q
<1>2. CASE m.resp[c] = None
    <2> DEFINE rr == [done |-> FALSE, ok |-> FALSE, priority |-> priority]
               s == Signal(m.worker)
    <2>1. q = [resp |-> [m.resp EXCEPT ![c] = rr], queue |-> Append(m.queue, c), worker |-> s]
        BY <1>2, QueueNew, Zenon
    <2>3. rr \in Response
        BY DEF Response
    <2>4. m.worker \in [Workers -> Task] /\ m.queue \in Seq(BlockCids)
        BY DEF Machine
    <2>5. s \in [Workers -> Task]
        BY <2>4, SignalWakes
    <2> HIDE DEF rr, s
    <2>6. Append(m.queue, c) \in Seq(BlockCids)
        BY <2>4
    <2>7. [m.resp EXCEPT ![c] = rr] \in [BlockCids -> Response \cup {None}]
        BY <2>3 DEF Machine
    <2>8. [resp |-> [m.resp EXCEPT ![c] = rr], queue |-> Append(m.queue, c), worker |-> s] \in Machine
        BY <2>5, <2>6, <2>7, MachineOf
    <2> HIDE DEF q
    <2>9. q \in Machine
        BY <2>1, <2>8
    <2> QED
        BY <2>9 DEF q
<1> QED
    BY <1>1, <1>2

\* queueBlock queues only what is not in flight ("avoid redundant downloads").
LEMMA QueueOwned ==
    ASSUME NEW m \in Machine, NEW c \in BlockCids, NEW priority \in Low..Top, Owned(m.resp, m.queue, m.worker)
    PROVE  LET q == QueueBlock(m, c, priority) IN Owned(q.resp, q.queue, q.worker)
<1> DEFINE q == QueueBlock(m, c, priority)
<1>0. /\ q.resp[c] # None
      /\ m.resp[c] = None => ~q.resp[c].done
      /\ m.resp[c] # None => q.resp[c].done = m.resp[c].done
      /\ \A d \in BlockCids \ {c} : q.resp[d] = m.resp[d]
    BY QueueRaises
<1>a. /\ m.worker \in [Workers -> Task] /\ m.queue \in Seq(BlockCids)
      /\ \A w \in Workers : m.worker[w].cid \in BlockCids \cup {None}
    BY DEF Machine, Task
<1>1. CASE m.resp[c] # None
    <2>1. q.queue = m.queue /\ q.worker = m.worker
        BY <1>1, QueueKnown
    <2>2. \A d \in BlockCids : /\ q.resp[d] # None <=> m.resp[d] # None
                               /\ m.resp[d] # None => q.resp[d].done = m.resp[d].done
        BY <1>0, <1>1
    <2>3. \A i \in DOMAIN m.queue : m.queue[i] \in BlockCids
        BY <1>a
    <2> HIDE DEF q
    <2>4. Owned(q.resp, q.queue, q.worker)
        BY <1>a, <2>1, <2>2, <2>3 DEF Owned
    <2> QED
        BY <2>4 DEF q
<1>2. CASE m.resp[c] = None
    <2>1. q.queue = Append(m.queue, c) /\ q.worker = Signal(m.worker)
        BY <1>2, QueueNew
    <2>2. \A w \in Workers : /\ q.worker[w].cid = m.worker[w].cid
                             /\ q.worker[w].pc = m.worker[w].pc \/ (m.worker[w].pc = "wait" /\ q.worker[w].pc = "check")
        BY <1>a, <2>1, SignalWakes
    <2>3. \A i \in DOMAIN m.queue : m.queue[i] # c
        BY <1>2 DEF Owned
    <2>4. \A w \in Workers : m.worker[w].cid # c
        BY <1>2, DownloaderAssumption DEF Owned
    <2>5. /\ DOMAIN q.queue = DOMAIN m.queue \cup {Len(m.queue) + 1} /\ q.queue[Len(m.queue) + 1] = c
          /\ Len(m.queue) + 1 \notin DOMAIN m.queue
          /\ \A i \in DOMAIN m.queue : q.queue[i] = m.queue[i]
        BY <1>a, <2>1
    <2> HIDE DEF q
    <2>6. \A i \in DOMAIN m.queue : m.queue[i] \in BlockCids
        BY <1>a
    <2>o. ASSUME NEW i \in DOMAIN q.queue, NEW j \in DOMAIN q.queue, q.queue[i] = q.queue[j]
          PROVE  i = j
        BY <2>o, <2>3, <2>5 DEF Owned
    <2>p. ASSUME NEW i \in DOMAIN q.queue
          PROVE  /\ q.resp[q.queue[i]] # None /\ ~q.resp[q.queue[i]].done
                 /\ \A w \in Workers : q.worker[w].cid # q.queue[i]
        <3>1. CASE i \in DOMAIN m.queue
            <4>1. q.queue[i] \in BlockCids \ {c} /\ q.queue[i] = m.queue[i]
                BY <3>1, <2>3, <2>5, <2>6
            <4> QED
                BY <3>1, <4>1, <1>0, <2>2 DEF Owned
        <3>2. CASE i = Len(m.queue) + 1
            BY <3>2, <1>0, <1>2, <2>2, <2>4, <2>5
        <3> QED
            BY <3>1, <3>2, <2>5
    <2>q. ASSUME NEW w \in Workers, q.worker[w].cid # None
          PROVE  /\ q.resp[q.worker[w].cid] # None
                 /\ q.resp[q.worker[w].cid].done <=> q.worker[w].pc \in {"closed", "done"}
        <3>1. q.worker[w].cid = m.worker[w].cid /\ m.worker[w].cid \in BlockCids \ {c}
            BY <2>q, <2>2, <2>4, <1>a
        <3>2. q.worker[w].pc \in {"closed", "done"} <=> m.worker[w].pc \in {"closed", "done"}
            BY <2>2
        <3> QED
            BY <2>q, <3>1, <3>2, <1>0 DEF Owned
    <2>r. ASSUME NEW d \in BlockCids, q.resp[d] # None
          PROVE  (\E i \in DOMAIN q.queue : q.queue[i] = d) \/ \E w \in Workers : q.worker[w].cid = d
        <3>1. CASE d = c
            BY <3>1, <2>5
        <3>2. CASE d # c
            <4>1. m.resp[d] # None
                BY <2>r, <3>2, <1>0
            <4>2. (\E i \in DOMAIN m.queue : m.queue[i] = d) \/ \E w \in Workers : m.worker[w].cid = d
                BY <4>1 DEF Owned
            <4> QED
                BY <4>2, <2>2, <2>5
        <3> QED
            BY <3>1, <3>2
    <2>s. \A v, w \in Workers : q.worker[v].cid = q.worker[w].cid /\ q.worker[v].cid # None => v = w
        BY <2>2 DEF Owned
    <2>t. Owned(q.resp, q.queue, q.worker)
        BY <2>o, <2>p, <2>q, <2>r, <2>s DEF Owned
    <2> QED
        BY <2>t DEF q
<1> QED
    BY <1>1, <1>2

\* queueBlock signals a worker for every block it adds.
LEMMA QueueAwake ==
    ASSUME NEW m \in Machine, NEW c \in BlockCids, NEW priority \in Low..Top, Awake(m.queue, m.worker)
    PROVE  LET q == QueueBlock(m, c, priority) IN Awake(q.queue, q.worker)
<1> DEFINE q == QueueBlock(m, c, priority)
<1>1. CASE m.resp[c] # None
    <2>1. q.queue = m.queue /\ q.worker = m.worker
        BY <1>1, QueueKnown
    <2> QED
        BY <2>1 DEF Awake
<1>2. CASE m.resp[c] = None
    <2>1. q.worker = Signal(m.worker)
        BY <1>2, QueueNew
    <2>2. m.worker \in [Workers -> Task]
        BY DEF Machine
    <2>3. \E w \in Workers : q.worker[w].pc # "wait"
        BY <2>1, <2>2, SignalWakes
    <2> QED
        BY <2>3 DEF Awake
<1> QED
    BY <1>1, <1>2

\* Blocks that are fetched in advance do not get the priority of a Get.
LEMMA QueueForeground ==
    ASSUME NEW m \in Machine, NEW c \in BlockCids, NEW priority \in {Low, Medium}, Foreground(m.resp),
           getter \in [Getters -> GetCall]
    PROVE  LET q == QueueBlock(m, c, priority) IN Foreground(q.resp)
<1> DEFINE q == QueueBlock(m, c, priority)
<1>0. priority \in Low..Top /\ priority < Top
    BY DEF Low, Medium, Top
<1>1. /\ q.resp[c] # None /\ q.resp[c].priority >= priority
      /\ q.resp[c].priority = priority \/ (m.resp[c] # None /\ q.resp[c].priority = m.resp[c].priority)
      /\ m.resp[c] # None => q.resp[c].done = m.resp[c].done
      /\ \A d \in BlockCids \ {c} : q.resp[d] = m.resp[d]
    BY <1>0, QueueRaises
<1> HIDE DEF q
<1>2. ASSUME NEW d \in BlockCids, q.resp[d] # None, q.resp[d].priority = Top
      PROVE  d \in asked
    <2>1. m.resp[d] # None /\ m.resp[d].priority = Top
        BY <1>0, <1>1, <1>2
    <2> QED
        BY <2>1 DEF Foreground
<1>3. ASSUME NEW g \in Getters, getter[g].pc = "wait", getter[g].answer = None
      PROVE  /\ q.resp[getter[g].cid] # None
             /\ q.resp[getter[g].cid].priority = Top /\ ~q.resp[getter[g].cid].done
    <2>1. getter[g].cid \in BlockCids
        BY <1>3 DEF GetCall
    <2>2. /\ m.resp[getter[g].cid] # None
          /\ m.resp[getter[g].cid].priority = Top /\ ~m.resp[getter[g].cid].done
        BY <1>3 DEF Foreground
    <2>3. CASE getter[g].cid = c
        <3>1. m.resp[c].priority = Top /\ m.resp[c] # None /\ ~m.resp[c].done
            BY <2>2, <2>3
        <3>2. q.resp[c].priority = Top
            <4>1. QueueBlock(m, c, priority).resp[c] = q.resp[c]
                BY DEF q
            <4>2. m.resp[c] \in Response
                BY <3>1 DEF Machine
            <4>3. q.resp = [m.resp EXCEPT ![c] = [done |-> m.resp[c].done, ok |-> m.resp[c].ok, priority |-> Top]]
                <5> DEFINE hi == IF m.resp[c].priority < priority THEN priority ELSE m.resp[c].priority
                <5>1. hi = Top
                    BY <3>1, <1>0 DEF Low, Top
                <5>2. q.resp = [m.resp EXCEPT ![c] = [done |-> m.resp[c].done, ok |-> m.resp[c].ok, priority |-> hi]]
                    BY <3>1, <1>0, QueueKnown DEF q
                <5> HIDE DEF hi
                <5> QED
                    BY <5>1, <5>2
            <4> QED
                BY <4>3 DEF Machine
        <3> QED
            BY <2>3, <3>1, <3>2, <1>1
    <2>4. CASE getter[g].cid # c
        BY <2>1, <2>2, <2>4, <1>1
    <2> QED
        BY <2>3, <2>4
<1>4. Foreground(q.resp)
    BY <1>2, <1>3 DEF Foreground
<1> QED
    BY <1>4 DEF q

\* Queueing one related block.
LEMMA QueueGood ==
    ASSUME NEW m, Good(m), NEW c \in BlockCids, NEW priority \in {Low, Medium}, getter \in [Getters -> GetCall]
    PROVE  Good(QueueBlock(m, c, priority))
<1>1. m \in Machine /\ Owned(m.resp, m.queue, m.worker) /\ Awake(m.queue, m.worker) /\ Foreground(m.resp) /\ priority \in Low..Top
    BY DEF Good, Low, Medium, Top
<1> QED
    BY <1>1, QueueTyped, QueueOwned, QueueAwake, QueueForeground DEF Good

\* The loop over a list of links: the recursion has a solution, and by induction
\* over the list every state it goes through is good.
LEMMA QueueAllGood ==
    ASSUME NEW m, Good(m), NEW list, NEW priority \in {Low, Medium}, getter \in [Getters -> GetCall],
           Len(list) \in Nat, \A n \in 1..Len(list) : Child(list[n]) \in BlockCids
    PROVE  Good(QueueAll(m, list, priority))
<1> DEFINE L == Len(list)
           Turn(x, n) == IF Child(list[n]) \in ready THEN QueueBlock(x, Child(list[n]), priority) ELSE x
           Run(f, k) == f = [n \in 0..k |-> IF n = 0 THEN m ELSE Turn(f[n - 1], n)]
           after == CHOOSE f : f = [n \in 0..L |-> IF n = 0 THEN m
                                                   ELSE IF Child(list[n]) \in ready THEN QueueBlock(f[n - 1], Child(list[n]), priority)
                                                   ELSE f[n - 1]]
<1>0. QueueAll(m, list, priority) = after[L]
    BY Zenon DEF QueueAll
<1>1. after = CHOOSE f : Run(f, L)
    OBVIOUS
<1>2. ASSUME NEW x, Good(x), NEW n \in 1..L
      PROVE  Good(Turn(x, n))
    BY <1>2, QueueGood
<1> HIDE DEF after, Turn, L
<1>3. L \in Nat
    BY DEF L
<1>4. \A k \in Nat : \E f : Run(f, k)
    <2> DEFINE B == {k \in Nat : ~ \E f : Run(f, k)}
    <2> SUFFICES ASSUME B # {} PROVE FALSE
        OBVIOUS
    <2>1. PICK k \in B : \A j \in B : k <= j
        BY LeastNumber
    <2>2. CASE k = 0
        <3> DEFINE f == [n \in 0..0 |-> m]
        <3>1. Run(f, 0)
            OBVIOUS
        <3> QED
            BY <2>1, <2>2, <3>1
    <2>3. CASE k # 0
        <3>1. k \in Nat /\ k - 1 \in Nat /\ k - 1 \notin B
            BY <2>1, <2>3
        <3>2. PICK f : Run(f, k - 1)
            BY <3>1
        <3> DEFINE g == [n \in 0..k |-> IF n = 0 THEN m ELSE Turn(f[n - 1], n)]
        <3>3. \A n \in 0..(k - 1) : g[n] = f[n]
            BY <3>1, <3>2
        <3>4. \A n \in 0..k : n # 0 => n - 1 \in 0..(k - 1)
            BY <3>1
        <3>5. \A n \in 0..k : n # 0 => g[n - 1] = f[n - 1]
            BY <3>3, <3>4
        <3>a. g = [n \in 0..k |-> IF n = 0 THEN m ELSE Turn(f[n - 1], n)]
            OBVIOUS
        <3> HIDE DEF g
        <3>6. \A n \in 0..k : (IF n = 0 THEN m ELSE Turn(g[n - 1], n)) = (IF n = 0 THEN m ELSE Turn(f[n - 1], n))
            BY <3>5
        <3>7. Run(g, k)
            BY <3>a, <3>6
        <3> QED
            BY <2>1, <3>7
    <2> QED
        BY <2>2, <2>3
<1>5. Run(after, L)
    <2>1. \E f : Run(f, L)
        BY <1>3, <1>4
    <2> HIDE DEF Run
    <2> QED
        BY <2>1, <1>1
<1>6. \A n \in 0..L : Good(after[n])
    <2> DEFINE B == {n \in 0..L : ~Good(after[n])}
    <2> SUFFICES ASSUME B # {} PROVE FALSE
        OBVIOUS
    <2>1. B \in SUBSET Nat
        BY <1>3
    <2>2. PICK k \in B : \A j \in B : k <= j
        BY <2>1, LeastNumber
    <2>3. CASE k = 0
        <3>1. after[0] = m
            BY <1>3, <1>5
        <3> QED
            BY <2>2, <2>3, <3>1
    <2>4. CASE k # 0
        <3>1. k \in 1..L /\ k - 1 \in 0..L /\ k - 1 \notin B
            BY <1>3, <2>2, <2>4
        <3>2. Good(after[k - 1])
            BY <3>1
        <3>3. after[k] = Turn(after[k - 1], k)
            BY <1>5, <3>1, <1>3, <2>4
        <3>4. Good(after[k])
            BY <1>2, <3>1, <3>2, <3>3
        <3> QED
            BY <2>2, <3>4
    <2> QED
        BY <2>3, <2>4
<1> QED
    BY <1>0, <1>3, <1>6

-----------------------------------------------------------------------------
(* The pop.                                                                 *)

\* Less is a strict order on the queue, so the heap has a first element, and no
\* other has a higher priority.
LEMMA FirstIsFirst ==
    ASSUME NEW m \in Machine, Owned(m.resp, m.queue, m.worker), m.queue # <<>>
    PROVE  /\ First(m) \in DOMAIN m.queue
           /\ \A j \in DOMAIN m.queue : m.resp[m.queue[First(m)]].priority >= m.resp[m.queue[j]].priority
<1> DEFINE D == DOMAIN m.queue
           P(i) == m.resp[m.queue[i]].priority
<1>1. \A i \in D : P(i) \in Low..Top
    <2> SUFFICES ASSUME NEW i \in D PROVE P(i) \in Low..Top
        OBVIOUS
    <2>1. m.queue[i] \in BlockCids
        BY DEF Machine
    <2>2. m.resp[m.queue[i]] # None
        BY DEF Owned
    <2>3. m.resp[m.queue[i]] \in Response
        BY <2>1, <2>2 DEF Machine
    <2> QED
        BY <2>3 DEF Response
<1>2. D # {} /\ D \in SUBSET Nat
    <2>1. m.queue \in Seq(BlockCids)
        BY DEF Machine
    <2> DEFINE q == m.queue
    <2> HIDE DEF q
    <2>2. q \in Seq(BlockCids) /\ q # <<>>
        BY <2>1 DEF q
    <2>3. DOMAIN q = 1..Len(q) /\ Len(q) \in Nat /\ Len(q) # 0
        BY <2>2
    <2>4. DOMAIN q # {} /\ DOMAIN q \in SUBSET Nat
        BY <2>3
    <2> QED
        BY <2>4 DEF q
<1>3. First(m) = CHOOSE i \in D : \A j \in D \ {i} : P(i) > P(j) \/ (P(i) = P(j) /\ i < j)
    BY DEF First, Less
<1> HIDE DEF P, D
<1>4. PICK s \in {Top - P(i) : i \in D} : \A x \in {Top - P(i) : i \in D} : s <= x
    <2>a. \A i \in D : Top - P(i) \in Nat
        BY <1>1 DEF Low, Top
    <2>1. {Top - P(i) : i \in D} \in SUBSET Nat /\ {Top - P(i) : i \in D} # {}
        BY <1>2, <2>a
    <2> QED
        BY <2>1, LeastNumber
<1>5. PICK i \in {k \in D : Top - P(k) = s} : \A x \in {k \in D : Top - P(k) = s} : i <= x
    <2>1. {k \in D : Top - P(k) = s} \in SUBSET Nat /\ {k \in D : Top - P(k) = s} # {}
        BY <1>2, <1>4
    <2> QED
        BY <2>1, LeastNumber
<1>6. \A j \in D \ {i} : P(i) > P(j) \/ (P(i) = P(j) /\ i < j)
    <2> SUFFICES ASSUME NEW j \in D \ {i} PROVE P(i) > P(j) \/ (P(i) = P(j) /\ i < j)
        OBVIOUS
    <2>1. s = Top - P(i) /\ Top - P(i) <= Top - P(j) /\ P(i) \in Low..Top /\ P(j) \in Low..Top
        BY <1>1, <1>4, <1>5
    <2>2. Top - P(j) = s => i <= j
        BY <1>5
    <2>3. i \in Nat /\ j \in Nat /\ i # j
        BY <1>2, <1>5
    <2> QED
        BY <2>1, <2>2, <2>3 DEF Low, Top
<1>7. First(m) \in D /\ \A j \in D \ {First(m)} : P(First(m)) > P(j) \/ (P(First(m)) = P(j) /\ First(m) < j)
    BY <1>3, <1>5, <1>6
<1>8. \A j \in D : P(First(m)) >= P(j)
    BY <1>1, <1>7 DEF Low, Top
<1> QED
    BY <1>7, <1>8 DEF D, P

\* Popping one element keeps the others in their order.
LEMMA RemoveOne ==
    ASSUME NEW q \in Seq(BlockCids), NEW i \in DOMAIN q
    PROVE  /\ RemoveAt(q, i) \in Seq(BlockCids)
           /\ DOMAIN RemoveAt(q, i) = 1..(Len(q) - 1)
           /\ \A k \in 1..(Len(q) - 1) : RemoveAt(q, i)[k] = q[IF k < i THEN k ELSE k + 1]
<1> DEFINE a == SubSeq(q, 1, i - 1)
           b == SubSeq(q, i + 1, Len(q))
<1>1. i \in 1..Len(q) /\ Len(q) \in Nat
    OBVIOUS
<1>2. a \in Seq(BlockCids) /\ Len(a) = i - 1 /\ \A k \in 1..(i - 1) : a[k] = q[k]
    BY <1>1
<1>3. b \in Seq(BlockCids) /\ Len(b) = Len(q) - i /\ \A k \in 1..(Len(q) - i) : b[k] = q[i + k]
    BY <1>1
<1>4. RemoveAt(q, i) = a \o b
    BY DEF RemoveAt
<1> HIDE DEF a, b
<1>5. a \o b \in Seq(BlockCids) /\ Len(a \o b) = Len(q) - 1
    BY <1>1, <1>2, <1>3
<1>6. ASSUME NEW k \in 1..(Len(q) - 1)
      PROVE  (a \o b)[k] = q[IF k < i THEN k ELSE k + 1]
    <2>1. CASE k < i
        <3>1. (a \o b)[k] = a[k]
            BY <1>1, <1>2, <1>3, <2>1
        <3> QED
            BY <1>1, <1>2, <2>1, <3>1
    <2>2. CASE ~(k < i)
        <3>a. k \in 1..(Len(a) + Len(b)) /\ k > Len(a)
            BY <1>1, <1>2, <1>3, <2>2
        <3>b. (a \o b)[k] = b[k - Len(a)]
            <4>1. \A j \in 1..Len(a) + Len(b) : (a \o b)[j] = IF j <= Len(a) THEN a[j] ELSE b[j - Len(a)]
                BY <1>2, <1>3, ConcatProperties
            <4>2. (a \o b)[k] = IF k <= Len(a) THEN a[k] ELSE b[k - Len(a)]
                BY <3>a, <4>1
            <4>3. ~(k <= Len(a))
                BY <1>1, <1>2, <3>a
            <4> QED
                BY <4>2, <4>3
        <3>1. (a \o b)[k] = b[k - (i - 1)] /\ k - (i - 1) \in 1..(Len(q) - i)
            BY <1>1, <1>2, <2>2, <3>b
        <3>2. i + (k - (i - 1)) = k + 1
            BY <1>1
        <3> QED
            BY <1>3, <2>2, <3>1, <3>2
    <2> QED
        BY <2>1, <2>2
<1> QED
    BY <1>4, <1>5, <1>6

-----------------------------------------------------------------------------
(* The initial states and the steps.                                        *)

\* NewBlockDownloader: nothing is in flight.
LEMMA DownloaderInitInv == DownloaderInit => DownloaderInv
<1> SUFFICES ASSUME DownloaderInit PROVE DownloaderInv
    OBVIOUS
<1> USE DEF DownloaderInit
<1>1. Now \in Machine
    <2>1. Idle \in Task
        BY DEF Idle, Task
    <2>2. resp \in [BlockCids -> Response \cup {None}] /\ queue \in Seq(BlockCids) /\ worker \in [Workers -> Task]
        BY <2>1
    <2> QED
        BY <2>2, MachineOf DEF Now
<1>2. DownloaderTypeOK
    BY <1>1, DownloaderAssumption DEF DownloaderTypeOK, GetCall
<1>3. Owned(resp, queue, worker)
    BY DEF Owned, Idle
<1>4. Awake(queue, worker) /\ Foreground(resp)
    BY DEF Awake, Foreground
<1> QED
    BY <1>2, <1>3, <1>4 DEF DownloaderInv

\* The siblings and children are known blocks, in the order the store lists them.
LEMMA QueueRelatedInv ==
    ASSUME DownloaderInv, NEW c \in BlockCids, QueueRelated(c)
    PROVE  DownloaderInv'
<1>1. PICK siblings \in BlockSiblings(c), children \in BlockChildren(c) :
          LET m == QueueAll(QueueAll(Now, siblings, Medium), children, Low)
          IN resp' = m.resp /\ queue' = m.queue /\ worker' = m.worker
    BY Zenon DEF QueueRelated
<1> DEFINE m1 == QueueAll(Now, siblings, Medium)
           m2 == QueueAll(m1, children, Low)
<1>2. \A row \in Linked : Child(row) \in BlockCids
    <2> SUFFICES ASSUME NEW row \in Linked PROVE Child(row) \in BlockCids
        OBVIOUS
    <2>1. Child(row) \in ready \union Missing
        BY DEF Linked
    <2> QED
        BY <2>1, DownloaderAssumption DEF DownloaderInv, DownloaderTypeOK
<1>3. ASSUME NEW rows \in SUBSET Linked, NEW list \in Listings(rows)
      PROVE  Len(list) \in Nat /\ \A n \in 1..Len(list) : Child(list[n]) \in BlockCids
    <2>1. PICK k \in 0..MaxRelated : list \in [1..k -> rows]
        BY <1>3 DEF Listings, SeqOf
    <2>2. k \in Nat
        BY DownloaderAssumption
    <2>3. Len(list) = k
        BY <2>1, <2>2
    <2> QED
        BY <2>1, <2>2, <2>3, <1>2
<1>4. Len(siblings) \in Nat /\ \A n \in 1..Len(siblings) : Child(siblings[n]) \in BlockCids
    BY <1>1, <1>3 DEF BlockSiblings
<1>5. Len(children) \in Nat /\ \A n \in 1..Len(children) : Child(children[n]) \in BlockCids
    BY <1>1, <1>3 DEF BlockChildren
<1>6. getter \in [Getters -> GetCall] /\ Good(Now)
    BY DEF DownloaderInv, DownloaderTypeOK, Good, Now
<1>7. Good(m1)
    BY <1>4, <1>6, QueueAllGood
<1> HIDE DEF m1
<1>8. Good(m2)
    BY <1>5, <1>6, <1>7, QueueAllGood
<1>9. resp' = m2.resp /\ queue' = m2.queue /\ worker' = m2.worker
    BY <1>1 DEF m1
<1> HIDE DEF m2
<1>10. Now' = m2
    <2>1. m2 = [resp |-> m2.resp, queue |-> m2.queue, worker |-> m2.worker]
        BY <1>8 DEF Good, Machine
    <2> QED
        BY <2>1, <1>9 DEF Now
<1>11. UNCHANGED <<ready, getter, faults, asked>> /\ related' = [related EXCEPT ![c] = @ - 1] /\ related[c] > 0
    BY DEF QueueRelated
<1>a. m2 \in Machine /\ Owned(m2.resp, m2.queue, m2.worker) /\ Awake(m2.queue, m2.worker) /\ Foreground(m2.resp)
    BY <1>8 DEF Good
<1>12. Now' \in Machine /\ Owned(resp, queue, worker)' /\ Awake(queue, worker)'
    <2>1. Now' \in Machine
        BY <1>10, <1>a
    <2>2. Owned(resp', queue', worker') /\ Awake(queue', worker')
        BY <1>9, <1>a
    <2> QED
        BY <2>1, <2>2 DEF Owned, Awake
<1>13. Foreground(resp)'
    BY <1>9, <1>11, <1>a DEF Foreground
<1>14. DownloaderTypeOK'
    BY <1>11, <1>12 DEF DownloaderInv, DownloaderTypeOK
<1> QED
    BY <1>12, <1>13, <1>14 DEF DownloaderInv

\* What the invariant says of the variables themselves.
LEMMA InvFacts ==
    ASSUME DownloaderInv
    PROVE  /\ ready \subseteq BlockCids /\ related \in [BlockCids -> Nat] /\ getter \in [Getters -> GetCall]
           /\ faults \in Nat /\ asked \subseteq BlockCids
           /\ resp \in [BlockCids -> Response \cup {None}] /\ queue \in Seq(BlockCids) /\ worker \in [Workers -> Task]
           /\ Owned(resp, queue, worker) /\ Awake(queue, worker) /\ Foreground(resp) /\ Now \in Machine
           /\ \A i \in DOMAIN queue : queue[i] \in BlockCids
BY DEF DownloaderInv, DownloaderTypeOK, Now, Machine

\* downloadWorker sleeps only when the queue is empty; what it pops it holds.
LEMMA DownloadWorkerInv ==
    ASSUME DownloaderInv, NEW w \in Workers, DownloadWorker(w)
    PROVE  DownloaderInv'
<1>i. /\ ready \subseteq BlockCids /\ related \in [BlockCids -> Nat] /\ getter \in [Getters -> GetCall]
      /\ faults \in Nat /\ asked \subseteq BlockCids
      /\ resp \in [BlockCids -> Response \cup {None}] /\ queue \in Seq(BlockCids) /\ worker \in [Workers -> Task]
      /\ \A i \in DOMAIN queue : queue[i] \in BlockCids
    BY InvFacts
<1>o. Owned(resp, queue, worker) /\ Awake(queue, worker) /\ Foreground(resp)
    BY InvFacts
<1>0. worker[w].pc = "check" /\ worker[w].cid = None /\ UNCHANGED <<ready, resp, related, getter, faults, asked>>
    BY <1>i DEF DownloadWorker, Task
<1>1. CASE queue = <<>>
    <2>1. worker' = [worker EXCEPT ![w].pc = "wait"] /\ queue' = queue
        BY <1>1 DEF DownloadWorker
    <2>2. worker' \in [Workers -> Task] /\ worker'[w].pc = "wait" /\ \A v \in Workers : worker'[v].cid = worker[v].cid
        BY <1>i, <1>0, <2>1 DEF Task
    <2>3. \A v \in Workers : worker'[v].pc \in {"closed", "done"} <=> worker[v].pc \in {"closed", "done"}
        BY <1>i, <1>0, <2>1
    <2>4. Now' \in Machine
        BY <1>i, <1>0, <2>1, <2>2, MachineOf DEF Now
    <2>5. Owned(resp, queue, worker)'
        BY <1>o, <1>0, <1>1, <2>1, <2>2, <2>3 DEF Owned
    <2>6. Awake(queue, worker)' /\ Foreground(resp)'
        BY <1>o, <1>0, <1>1, <2>1 DEF Awake, Foreground
    <2> QED
        BY <1>i, <1>0, <2>4, <2>5, <2>6 DEF DownloaderInv, DownloaderTypeOK
<1>2. CASE queue # <<>>
    <2> DEFINE i == First(Now)
               c == queue[i]
    <2>1. i \in DOMAIN queue
        BY <1>2, <1>o, InvFacts, FirstIsFirst DEF Now
    <2>2. worker' = [worker EXCEPT ![w] = [pc |-> "download", cid |-> c]] /\ queue' = RemoveAt(queue, i)
        BY <1>2 DEF DownloadWorker
    <2> HIDE DEF i
    <2>3. c \in BlockCids
        BY <1>i, <2>1
    <2>4. /\ queue' \in Seq(BlockCids)
          /\ DOMAIN queue' = 1..(Len(queue) - 1)
          /\ \A k \in 1..(Len(queue) - 1) : queue'[k] = queue[IF k < i THEN k ELSE k + 1]
        BY <1>i, <2>1, <2>2, RemoveOne
    <2>5. worker' \in [Workers -> Task] /\ worker'[w].cid = c /\ worker'[w].pc = "download"
          /\ \A v \in Workers \ {w} : worker'[v] = worker[v]
        BY <1>i, <2>2, <2>3 DEF Task
    <2>6. Now' \in Machine
        BY <1>i, <1>0, <2>4, <2>5, MachineOf DEF Now
    <2>7. Owned(resp, queue, worker)'
        <3>1. /\ \A j, k \in DOMAIN queue : queue[j] = queue[k] => j = k
              /\ \A u, v \in Workers : worker[u].cid = worker[v].cid /\ worker[u].cid # None => u = v
              /\ \A j \in DOMAIN queue : /\ resp[queue[j]] # None /\ ~resp[queue[j]].done
                                         /\ \A v \in Workers : worker[v].cid # queue[j]
              /\ \A v \in Workers : worker[v].cid # None =>
                    /\ resp[worker[v].cid] # None
                    /\ resp[worker[v].cid].done <=> worker[v].pc \in {"closed", "done"}
              /\ \A d \in BlockCids : resp[d] # None =>
                    (\E j \in DOMAIN queue : queue[j] = d) \/ \E v \in Workers : worker[v].cid = d
            BY <1>o DEF Owned
        <3>2. \A k \in DOMAIN queue' : \E j \in DOMAIN queue : j # i /\ queue'[k] = queue[j] /\ j = IF k < i THEN k ELSE k + 1
            <4> SUFFICES ASSUME NEW k \in DOMAIN queue'
                         PROVE  \E j \in DOMAIN queue : j # i /\ queue'[k] = queue[j] /\ j = IF k < i THEN k ELSE k + 1
                OBVIOUS
            <4>1. k \in 1..(Len(queue) - 1) /\ i \in 1..Len(queue) /\ Len(queue) \in Nat /\ DOMAIN queue = 1..Len(queue)
                BY <1>i, <2>1, <2>4
            <4>2. (IF k < i THEN k ELSE k + 1) \in 1..Len(queue) /\ (IF k < i THEN k ELSE k + 1) # i
                BY <4>1
            <4>3. queue'[k] = queue[IF k < i THEN k ELSE k + 1]
                BY <2>4, <4>1
            <4> QED
                BY <4>1, <4>2, <4>3
        <3>3. \A k, l \in DOMAIN queue' : queue'[k] = queue'[l] => k = l
            <4> SUFFICES ASSUME NEW k \in DOMAIN queue', NEW l \in DOMAIN queue', queue'[k] = queue'[l] PROVE k = l
                OBVIOUS
            <4>1. (IF k < i THEN k ELSE k + 1) \in DOMAIN queue /\ (IF l < i THEN l ELSE l + 1) \in DOMAIN queue
                BY <3>2
            <4>2. (IF k < i THEN k ELSE k + 1) = (IF l < i THEN l ELSE l + 1)
                <5>1. queue[IF k < i THEN k ELSE k + 1] = queue[IF l < i THEN l ELSE l + 1]
                    BY <2>4
                <5> QED
                    BY <3>1, <4>1, <5>1
            <4>3. k \in Int /\ l \in Int /\ i \in Int
                BY <1>i, <2>1, <2>4
            <4> QED
                BY <4>2, <4>3
        <3>4. \A k \in DOMAIN queue' : queue'[k] # c
            BY <2>1, <3>1, <3>2
        <3>c. \A v \in Workers : worker[v].cid # c
            BY <2>1, <3>1
        <3>5. \A u, v \in Workers : worker'[u].cid = worker'[v].cid /\ worker'[u].cid # None => u = v
            BY <2>5, <3>1, <3>c
        <3>6. \A k \in DOMAIN queue' : /\ resp'[queue'[k]] # None /\ ~resp'[queue'[k]].done
                                       /\ \A v \in Workers : worker'[v].cid # queue'[k]
            <4> SUFFICES ASSUME NEW k \in DOMAIN queue'
                         PROVE  /\ resp'[queue'[k]] # None /\ ~resp'[queue'[k]].done
                                /\ \A v \in Workers : worker'[v].cid # queue'[k]
                OBVIOUS
            <4>1. PICK j \in DOMAIN queue : j # i /\ queue'[k] = queue[j]
                BY <3>2
            <4>2. resp[queue[j]] # None /\ ~resp[queue[j]].done /\ \A v \in Workers : worker[v].cid # queue[j]
                BY <3>1
            <4>3. queue'[k] # c
                BY <3>4
            <4> HIDE DEF c
            <4> QED
                BY <1>0, <2>5, <4>1, <4>2, <4>3
        <3>7. ASSUME NEW v \in Workers, worker'[v].cid # None
              PROVE  /\ resp'[worker'[v].cid] # None
                     /\ resp'[worker'[v].cid].done <=> worker'[v].pc \in {"closed", "done"}
            <4>1. CASE v = w
                <5>1. resp[c] # None /\ ~resp[c].done
                    BY <2>1, <3>1
                <5> QED
                    BY <1>0, <2>5, <4>1, <5>1
            <4>2. CASE v # w
                BY <1>0, <2>5, <3>1, <3>7, <4>2
            <4> QED
                BY <4>1, <4>2
        <3>8. ASSUME NEW d \in BlockCids, resp'[d] # None
              PROVE  (\E k \in DOMAIN queue' : queue'[k] = d) \/ \E v \in Workers : worker'[v].cid = d
            <4>1. CASE \E j \in DOMAIN queue : queue[j] = d
                <5>1. PICK j \in DOMAIN queue : queue[j] = d
                    BY <4>1
                <5>2. CASE j = i
                    BY <5>1, <5>2, <2>5
                <5>3. CASE j # i
                    <6> DEFINE k == IF j < i THEN j ELSE j - 1
                    <6>1. j \in 1..Len(queue) /\ i \in 1..Len(queue) /\ Len(queue) \in Nat
                        BY <1>i, <2>1
                    <6>2. k \in 1..(Len(queue) - 1) /\ (IF k < i THEN k ELSE k + 1) = j
                        BY <5>3, <6>1
                    <6>3. queue'[k] = d
                        BY <2>4, <5>1, <6>2
                    <6> QED
                        BY <2>4, <6>2, <6>3
                <5> QED
                    BY <5>2, <5>3
            <4>2. CASE \E v \in Workers : worker[v].cid = d
                <5>1. PICK v \in Workers : worker[v].cid = d
                    BY <4>2
                <5>2. v # w
                    BY <1>0, <5>1, DownloaderAssumption
                <5> QED
                    BY <2>5, <5>1, <5>2
            <4> QED
                BY <1>0, <3>1, <3>8, <4>1, <4>2
        <3> QED
            BY <3>3, <3>5, <3>6, <3>7, <3>8 DEF Owned
    <2>8. Awake(queue, worker)' /\ Foreground(resp)'
        BY <1>o, <1>0, <2>5 DEF Awake, Foreground
    <2> QED
        BY <1>i, <1>0, <2>6, <2>7, <2>8 DEF DownloaderInv, DownloaderTypeOK
<1> QED
    BY <1>1, <1>2

\* Two fields of a record that are set one after the other.
LEMMA ResponseSet ==
    ASSUME NEW x \in Response, NEW a, NEW b
    PROVE  [[x EXCEPT !.done = a] EXCEPT !.ok = b] = [done |-> a, ok |-> b, priority |-> x.priority]
<1> DEFINE y == [x EXCEPT !.done = a]
<1>1. y = [done |-> a, ok |-> x.ok, priority |-> x.priority]
    BY DEF Response
<1> HIDE DEF y
<1>2. [y EXCEPT !.ok = b] = [done |-> a, ok |-> b, priority |-> x.priority]
    BY <1>1
<1> QED
    BY <1>2 DEF y

\* The same for a Get that gives up.
LEMMA CallSet ==
    ASSUME NEW x \in GetCall, NEW a, NEW b
    PROVE  [[x EXCEPT !.pc = a] EXCEPT !.answer = b] = [pc |-> a, cid |-> x.cid, answer |-> b]
<1> DEFINE y == [x EXCEPT !.pc = a]
<1>1. y = [pc |-> a, cid |-> x.cid, answer |-> x.answer]
    BY DEF GetCall
<1> HIDE DEF y
<1>2. [y EXCEPT !.answer = b] = [pc |-> a, cid |-> x.cid, answer |-> b]
    BY <1>1
<1> QED
    BY <1>2 DEF y

\* The end of a download answers every Get that waits for it.
LEMMA DoDownloadTaskInv ==
    ASSUME DownloaderInv, NEW w \in Workers, NEW ok \in BOOLEAN, DoDownloadTask(w, ok)
    PROVE  DownloaderInv'
<1>i. /\ ready \subseteq BlockCids /\ related \in [BlockCids -> Nat] /\ getter \in [Getters -> GetCall]
      /\ faults \in Nat /\ asked \subseteq BlockCids
      /\ resp \in [BlockCids -> Response \cup {None}] /\ queue \in Seq(BlockCids) /\ worker \in [Workers -> Task]
      /\ \A i \in DOMAIN queue : queue[i] \in BlockCids
    BY InvFacts
<1>o. Owned(resp, queue, worker) /\ Awake(queue, worker) /\ Foreground(resp)
    BY InvFacts
<1> DEFINE c == worker[w].cid
<1>0. /\ worker[w].pc = "download" /\ c \in BlockCids /\ c # None
      /\ DownloadBlockData(c, ok)
      /\ resp' = [resp EXCEPT ![c].done = TRUE, ![c].ok = ok]
      /\ getter' = Answered(c, ok)
      /\ worker' = [worker EXCEPT ![w].pc = "closed"]
      /\ UNCHANGED <<ready, queue, related, asked>>
    BY <1>i, DownloaderAssumption DEF DoDownloadTask, Task
<1>1. resp[c] \in Response
    <2>1. resp[c] # None
        BY <1>o, <1>0 DEF Owned
    <2> QED
        BY <1>i, <1>0, <2>1
<1> HIDE DEF c
<1> DEFINE rr == [done |-> TRUE, ok |-> ok, priority |-> resp[c].priority]
<1>2. resp' = [resp EXCEPT ![c] = rr]
    <2>1. [[resp[c] EXCEPT !.done = TRUE] EXCEPT !.ok = ok] = rr
        BY <1>1, ResponseSet, Zenon
    <2>2. resp' = [resp EXCEPT ![c] = [[resp[c] EXCEPT !.done = TRUE] EXCEPT !.ok = ok]]
        BY <1>i, <1>0
    <2> HIDE DEF rr
    <2> QED
        BY <2>1, <2>2
<1>a. rr \in Response /\ rr.done /\ rr.priority = resp[c].priority
    BY <1>1 DEF Response
<1> HIDE DEF rr
<1>3. resp' \in [BlockCids -> Response \cup {None}] /\ resp'[c] = rr /\ resp'[c] \in Response /\ resp'[c].done
      /\ \A d \in BlockCids \ {c} : resp'[d] = resp[d]
    <2>1. resp' \in [BlockCids -> Response \cup {None}]
        BY <1>i, <1>2, <1>a
    <2>2. resp'[c] = rr /\ \A d \in BlockCids \ {c} : resp'[d] = resp[d]
        BY <1>i, <1>0, <1>2
    <2> QED
        BY <1>a, <2>1, <2>2
<1>4. \A d \in BlockCids : /\ resp'[d] # None <=> resp[d] # None
                           /\ resp[d] # None => resp'[d].priority = resp[d].priority
    <2>1. resp[c] # None /\ resp'[c] # None /\ resp'[c].priority = resp[c].priority
        BY <1>1, <1>3, <1>a, DownloaderAssumption
    <2> QED
        BY <1>3, <2>1
<1>5. worker' \in [Workers -> Task] /\ worker'[w].pc = "closed"
      /\ \A v \in Workers \ {w} : worker'[v] = worker[v]
    BY <1>i, <1>0 DEF Task, c
<1>b. \A v \in Workers : worker'[v].cid = worker[v].cid
    BY <1>i, <1>0, <1>5
<1>6. getter' \in [Getters -> GetCall]
    <2>1. ASSUME NEW g \in Getters
          PROVE  (IF getter[g].pc = "wait" /\ getter[g].cid = c /\ getter[g].answer = None
                  THEN [getter[g] EXCEPT !.answer = ok] ELSE getter[g]) \in GetCall
        BY <1>i DEF GetCall
    <2> QED
        BY <1>0, <2>1 DEF Answered
<1>7. Now' \in Machine
    BY <1>i, <1>0, <1>3, <1>5, MachineOf DEF Now
<1>8. faults' \in Nat
    BY <1>i, <1>0 DEF DownloadBlockData
<1>9. Owned(resp, queue, worker)'
    <2>1. /\ \A j, k \in DOMAIN queue : queue[j] = queue[k] => j = k
          /\ \A u, v \in Workers : worker[u].cid = worker[v].cid /\ worker[u].cid # None => u = v
          /\ \A j \in DOMAIN queue : /\ resp[queue[j]] # None /\ ~resp[queue[j]].done
                                     /\ \A v \in Workers : worker[v].cid # queue[j]
          /\ \A v \in Workers : worker[v].cid # None =>
                /\ resp[worker[v].cid] # None
                /\ resp[worker[v].cid].done <=> worker[v].pc \in {"closed", "done"}
          /\ \A d \in BlockCids : resp[d] # None =>
                (\E j \in DOMAIN queue : queue[j] = d) \/ \E v \in Workers : worker[v].cid = d
        BY <1>o DEF Owned
    <2>2. \A j \in DOMAIN queue : queue[j] # c /\ queue[j] \in BlockCids
        BY <1>i, <2>1 DEF c
    <2>3. \A j \in DOMAIN queue : /\ resp'[queue[j]] # None /\ ~resp'[queue[j]].done
                                  /\ \A v \in Workers : worker'[v].cid # queue[j]
        BY <1>3, <1>b, <2>1, <2>2
    <2>4. ASSUME NEW v \in Workers, worker'[v].cid # None
          PROVE  /\ resp'[worker'[v].cid] # None
                 /\ resp'[worker'[v].cid].done <=> worker'[v].pc \in {"closed", "done"}
        <3>1. CASE v = w
            BY <1>0, <1>3, <1>4, <1>5, <1>b, <1>1, <3>1, DownloaderAssumption DEF c
        <3>2. CASE v # w
            <4>1. worker[v].cid # None /\ worker[v].cid # c /\ worker[v].cid \in BlockCids /\ worker'[v] = worker[v]
                BY <1>i, <1>0, <1>5, <1>b, <2>1, <2>4, <3>2 DEF Task, c
            <4> QED
                BY <1>3, <2>1, <4>1
        <3> QED
            BY <3>1, <3>2
    <2> QED
        <3>1. queue' = queue
            BY <1>0
        <3>2. \A u, v \in Workers : worker'[u].cid = worker'[v].cid /\ worker'[u].cid # None => u = v
            BY <1>b, <2>1
        <3>3. \A d \in BlockCids : resp'[d] # None =>
                  (\E j \in DOMAIN queue : queue[j] = d) \/ \E v \in Workers : worker'[v].cid = d
            BY <1>4, <1>b, <2>1
        <3> QED
            BY <3>1, <3>2, <3>3, <2>1, <2>3, <2>4 DEF Owned
<1>10. Awake(queue, worker)'
    BY <1>o, <1>0, <1>5 DEF Awake
<1>11. Foreground(resp)'
    <2>1. ASSUME NEW d \in BlockCids, resp'[d] # None, resp'[d].priority = Top
          PROVE  d \in asked'
        BY <1>o, <1>0, <1>4, <2>1 DEF Foreground
    <2>2. ASSUME NEW g \in Getters, getter'[g].pc = "wait", getter'[g].answer = None
          PROVE  /\ resp'[getter'[g].cid] # None
                 /\ resp'[getter'[g].cid].priority = Top /\ ~resp'[getter'[g].cid].done
        <3>1. getter'[g] = IF getter[g].pc = "wait" /\ getter[g].cid = c /\ getter[g].answer = None
                           THEN [getter[g] EXCEPT !.answer = ok] ELSE getter[g]
            BY <1>0 DEF Answered
        <3>2. ~(getter[g].pc = "wait" /\ getter[g].cid = c /\ getter[g].answer = None)
            <4> SUFFICES ASSUME getter[g].pc = "wait" /\ getter[g].cid = c /\ getter[g].answer = None PROVE FALSE
                OBVIOUS
            <4>1. getter'[g].answer = ok
                BY <1>i, <3>1 DEF GetCall
            <4> QED
                BY <4>1, <2>2, DownloaderAssumption
        <3>3. getter'[g] = getter[g]
            BY <3>1, <3>2
        <3>4. getter[g].cid \in BlockCids \ {c}
            BY <1>i, <2>2, <3>2, <3>3 DEF GetCall
        <3> QED
            BY <1>o, <1>3, <2>2, <3>3, <3>4 DEF Foreground
    <2> QED
        BY <2>1, <2>2 DEF Foreground
<1> QED
    BY <1>i, <1>0, <1>6, <1>7, <1>8, <1>9, <1>10, <1>11 DEF DownloaderInv, DownloaderTypeOK

\* Starting queueRelated changes neither the map nor the queue.
LEMMA PrefetchInv ==
    ASSUME DownloaderInv, NEW w \in Workers, Prefetch(w)
    PROVE  DownloaderInv'
<1>i. /\ ready \subseteq BlockCids /\ related \in [BlockCids -> Nat] /\ getter \in [Getters -> GetCall]
      /\ faults \in Nat /\ asked \subseteq BlockCids
      /\ resp \in [BlockCids -> Response \cup {None}] /\ queue \in Seq(BlockCids) /\ worker \in [Workers -> Task]
    BY InvFacts
<1>o. Owned(resp, queue, worker) /\ Awake(queue, worker) /\ Foreground(resp)
    BY InvFacts
<1>0. /\ worker[w].pc = "closed" /\ worker[w].cid \in BlockCids
      /\ worker' = [worker EXCEPT ![w].pc = "done"]
      /\ related' = related \/ related' = [related EXCEPT ![worker[w].cid] = @ + 1]
      /\ UNCHANGED <<ready, resp, queue, getter, faults, asked>>
    BY <1>i DEF Prefetch, Task
<1>1. related' \in [BlockCids -> Nat]
    BY <1>i, <1>0
<1>2. worker' \in [Workers -> Task]
    <2>1. worker[w].cid \in BlockCids /\ worker[w] \in Task
        BY <1>i, <1>0
    <2>2. [worker[w] EXCEPT !.pc = "done"] \in Task
        BY <2>1, <1>0 DEF Task
    <2> QED
        BY <1>i, <1>0, <2>2
<1>3. \A v \in Workers : /\ worker'[v].cid = worker[v].cid
                         /\ worker'[v].pc \in {"closed", "done"} <=> worker[v].pc \in {"closed", "done"}
                         /\ worker'[v].pc = "wait" <=> worker[v].pc = "wait"
    BY <1>i, <1>0
<1>4. Now' \in Machine
    BY <1>i, <1>0, <1>2, MachineOf DEF Now
<1>5. Owned(resp, queue, worker)'
    BY <1>o, <1>0, <1>3 DEF Owned
<1>6. Awake(queue, worker)' /\ Foreground(resp)'
    BY <1>o, <1>0, <1>3 DEF Awake, Foreground
<1> QED
    BY <1>i, <1>0, <1>1, <1>4, <1>5, <1>6 DEF DownloaderInv, DownloaderTypeOK

\* The response leaves the map when nobody waits for it any more.
LEMMA EndTaskInv ==
    ASSUME DownloaderInv, NEW w \in Workers, EndTask(w)
    PROVE  DownloaderInv'
<1>i. /\ ready \subseteq BlockCids /\ related \in [BlockCids -> Nat] /\ getter \in [Getters -> GetCall]
      /\ faults \in Nat /\ asked \subseteq BlockCids
      /\ resp \in [BlockCids -> Response \cup {None}] /\ queue \in Seq(BlockCids) /\ worker \in [Workers -> Task]
      /\ \A i \in DOMAIN queue : queue[i] \in BlockCids
    BY InvFacts
<1>o. Owned(resp, queue, worker) /\ Awake(queue, worker) /\ Foreground(resp)
    BY InvFacts
<1> DEFINE c == worker[w].cid
<1>0. /\ worker[w].pc = "done" /\ c \in BlockCids /\ c # None
      /\ resp' = [resp EXCEPT ![c] = None]
      /\ worker' = [worker EXCEPT ![w] = Idle]
      /\ UNCHANGED <<ready, queue, related, getter, faults, asked>>
    BY <1>i, DownloaderAssumption DEF EndTask, Task
<1>1. resp' \in [BlockCids -> Response \cup {None}] /\ resp'[c] = None
      /\ \A d \in BlockCids \ {c} : resp'[d] = resp[d]
    BY <1>i, <1>0
<1>2. worker' \in [Workers -> Task] /\ worker'[w].cid = None /\ worker'[w].pc = "check"
      /\ \A v \in Workers \ {w} : worker'[v] = worker[v]
    <2>1. Idle \in Task /\ Idle.cid = None /\ Idle.pc = "check"
        BY DEF Idle, Task
    <2> QED
        BY <1>i, <1>0, <2>1
<1>3. Now' \in Machine
    BY <1>i, <1>0, <1>1, <1>2, MachineOf DEF Now
<1>4. /\ \A j, k \in DOMAIN queue : queue[j] = queue[k] => j = k
      /\ \A u, v \in Workers : worker[u].cid = worker[v].cid /\ worker[u].cid # None => u = v
      /\ \A j \in DOMAIN queue : /\ resp[queue[j]] # None /\ ~resp[queue[j]].done
                                 /\ \A v \in Workers : worker[v].cid # queue[j]
      /\ \A v \in Workers : worker[v].cid # None =>
            /\ resp[worker[v].cid] # None
            /\ resp[worker[v].cid].done <=> worker[v].pc \in {"closed", "done"}
      /\ \A d \in BlockCids : resp[d] # None =>
            (\E j \in DOMAIN queue : queue[j] = d) \/ \E v \in Workers : worker[v].cid = d
    BY <1>o DEF Owned
<1>5. \A j \in DOMAIN queue : queue[j] \in BlockCids \ {c}
    BY <1>i, <1>4
<1>6. \A v \in Workers \ {w} : worker[v].cid # c
    BY <1>0, <1>4
<1>7. resp[c] # None /\ resp[c].done
    BY <1>0, <1>4
<1>t. \A v \in Workers : worker[v].cid \in BlockCids \cup {None}
    BY <1>i DEF Task
<1> HIDE DEF c
<1>8. Owned(resp, queue, worker)'
    <2>1. \A j \in DOMAIN queue : /\ resp'[queue[j]] # None /\ ~resp'[queue[j]].done
                                  /\ \A v \in Workers : worker'[v].cid # queue[j]
        <3> SUFFICES ASSUME NEW j \in DOMAIN queue
                     PROVE  /\ resp'[queue[j]] # None /\ ~resp'[queue[j]].done
                            /\ \A v \in Workers : worker'[v].cid # queue[j]
            OBVIOUS
        <3>1. resp'[queue[j]] = resp[queue[j]] /\ queue[j] # None
            BY <1>1, <1>5, DownloaderAssumption
        <3> QED
            BY <1>2, <1>4, <3>1
    <2>2. \A u, v \in Workers : worker'[u].cid = worker'[v].cid /\ worker'[u].cid # None => u = v
        BY <1>2, <1>4
    <2>3. ASSUME NEW v \in Workers, worker'[v].cid # None
          PROVE  /\ resp'[worker'[v].cid] # None
                 /\ resp'[worker'[v].cid].done <=> worker'[v].pc \in {"closed", "done"}
        <3>1. v # w /\ worker'[v] = worker[v]
            BY <1>2, <2>3
        <3>2. resp'[worker[v].cid] = resp[worker[v].cid]
            BY <1>1, <1>6, <1>t, <2>3, <3>1
        <3> QED
            BY <1>4, <2>3, <3>1, <3>2
    <2>4. ASSUME NEW d \in BlockCids, resp'[d] # None
          PROVE  (\E j \in DOMAIN queue : queue[j] = d) \/ \E v \in Workers : worker'[v].cid = d
        <3>1. d # c /\ resp[d] # None
            BY <1>1, <2>4
        <3>2. CASE \E v \in Workers : worker[v].cid = d
            <4>1. PICK v \in Workers : worker[v].cid = d
                BY <3>2
            <4>2. v # w
                BY <3>1, <4>1 DEF c
            <4> QED
                BY <1>2, <4>1, <4>2
        <3> QED
            BY <1>4, <3>1, <3>2
    <2>5. queue' = queue
        BY <1>0
    <2> QED
        BY <1>4, <2>1, <2>2, <2>3, <2>4, <2>5 DEF Owned
<1>9. Awake(queue, worker)'
    BY <1>2 DEF Awake
<1>10. Foreground(resp)'
    <2>1. ASSUME NEW d \in BlockCids, resp'[d] # None, resp'[d].priority = Top
          PROVE  d \in asked'
        <3>1. d # c
            BY <1>1, <2>1
        <3> QED
            BY <1>o, <1>0, <1>1, <2>1, <3>1 DEF Foreground
    <2>2. ASSUME NEW g \in Getters, getter'[g].pc = "wait", getter'[g].answer = None
          PROVE  resp'[getter'[g].cid] # None /\ resp'[getter'[g].cid].priority = Top /\ ~resp'[getter'[g].cid].done
        <3>1. getter' = getter
            BY <1>0
        <3>2. resp[getter[g].cid] # None /\ resp[getter[g].cid].priority = Top /\ ~resp[getter[g].cid].done
            BY <1>o, <2>2, <3>1 DEF Foreground
        <3>3. getter[g].cid \in BlockCids \ {c}
            BY <1>i, <1>7, <2>2, <3>1, <3>2 DEF GetCall
        <3> QED
            BY <1>1, <3>1, <3>2, <3>3
    <2> QED
        BY <2>1, <2>2 DEF Foreground
<1> QED
    BY <1>i, <1>0, <1>3, <1>8, <1>9, <1>10 DEF DownloaderInv, DownloaderTypeOK

\* A Get raises the block it finds queued, or is answered by the response it finds.
LEMMA GetInv ==
    ASSUME DownloaderInv, NEW g \in Getters, Get(g)
    PROVE  DownloaderInv'
<1>i. /\ ready \subseteq BlockCids /\ related \in [BlockCids -> Nat] /\ getter \in [Getters -> GetCall]
      /\ faults \in Nat /\ asked \subseteq BlockCids /\ Now \in Machine
    BY InvFacts
<1>o. Owned(resp, queue, worker) /\ Awake(queue, worker) /\ Foreground(resp)
    BY InvFacts
<1> DEFINE c == getter[g].cid
           m == QueueBlock(Now, c, Top)
           answer == IF m.resp[c].done THEN m.resp[c].ok ELSE None
<1>0. /\ getter[g].pc = "queue" /\ c \in BlockCids
      /\ resp' = m.resp /\ queue' = m.queue /\ worker' = m.worker
      /\ asked' = asked \union {c}
      /\ getter' = [getter EXCEPT ![g].pc = "wait", ![g].answer = answer]
      /\ UNCHANGED <<ready, related, faults>>
    BY <1>i DEF Get, GetCall
<1>1. Top \in Low..Top
    BY DEF Low, Top
<1>2. /\ m.resp[c] # None /\ m.resp[c].priority >= Top
      /\ resp[c] = None => ~m.resp[c].done
      /\ resp[c] # None => m.resp[c].done = resp[c].done
      /\ \A d \in BlockCids \ {c} : m.resp[d] = resp[d]
    BY <1>i, <1>0, <1>1, QueueRaises DEF Now
<1>3. m \in Machine
    BY <1>i, <1>0, <1>1, QueueTyped
<1>4. Owned(m.resp, m.queue, m.worker)
    BY <1>i, <1>o, <1>0, <1>1, QueueOwned DEF Now
<1>5. Awake(m.queue, m.worker)
    BY <1>i, <1>o, <1>0, <1>1, QueueAwake DEF Now
<1> HIDE DEF m
<1>6. m.resp[c] \in Response
    BY <1>0, <1>2, <1>3 DEF Machine
<1>7. m.resp[c].priority = Top /\ answer \in BOOLEAN \cup {None} /\ (answer = None => ~m.resp[c].done)
    BY <1>2, <1>6, DownloaderAssumption DEF Response, Low, Top
<1>8. Now' \in Machine
    <2>1. m = [resp |-> m.resp, queue |-> m.queue, worker |-> m.worker]
        BY <1>3 DEF Machine
    <2>2. Now' = m
        BY <1>0, <2>1 DEF Now
    <2> QED
        BY <1>3, <2>2
<1> HIDE DEF answer
<1>9. /\ getter' \in [Getters -> GetCall]
      /\ getter'[g].cid = c /\ getter'[g].answer = answer
      /\ \A h \in Getters \ {g} : getter'[h] = getter[h]
    BY <1>i, <1>0, <1>7 DEF GetCall
<1>10. Owned(resp, queue, worker)'
    <2>1. Owned(resp', queue', worker')
        BY <1>0, <1>4
    <2> QED
        BY <2>1 DEF Owned
<1>11. Awake(queue, worker)'
    BY <1>0, <1>5 DEF Awake
<1>12. Foreground(resp)'
    <2>1. ASSUME NEW d \in BlockCids, resp'[d] # None, resp'[d].priority = Top
          PROVE  d \in asked'
        BY <1>o, <1>0, <1>2, <2>1 DEF Foreground
    <2>2. ASSUME NEW h \in Getters, getter'[h].pc = "wait", getter'[h].answer = None
          PROVE  resp'[getter'[h].cid] # None /\ resp'[getter'[h].cid].priority = Top /\ ~resp'[getter'[h].cid].done
        <3>1. CASE getter'[h].cid = c /\ h = g
            BY <1>0, <1>2, <1>7, <1>9, <2>2, <3>1
        <3>2. CASE h # g
            <4>1. getter'[h] = getter[h] /\ getter[h].cid \in BlockCids
                BY <1>9, <1>i, <2>2, <3>2 DEF GetCall
            <4>2. resp[getter[h].cid] # None /\ resp[getter[h].cid].priority = Top /\ ~resp[getter[h].cid].done
                BY <1>o, <2>2, <4>1 DEF Foreground
            <4>3. CASE getter[h].cid = c
                BY <1>0, <1>2, <1>7, <4>1, <4>2, <4>3
            <4>4. CASE getter[h].cid # c
                BY <1>0, <1>2, <4>1, <4>2, <4>4
            <4> QED
                BY <4>3, <4>4
        <3> QED
            BY <1>9, <3>1, <3>2
    <2> QED
        BY <2>1, <2>2 DEF Foreground
<1> QED
    BY <1>i, <1>0, <1>8, <1>9, <1>10, <1>11, <1>12 DEF DownloaderInv, DownloaderTypeOK

\* BeginGet, Block and Delete touch neither the map nor the queue.
LEMMA CallerInv ==
    ASSUME DownloaderInv, UNCHANGED <<resp, queue, worker, related, asked>>,
           ready' \subseteq ready, getter' \in [Getters -> GetCall], faults' \in Nat,
           \A g \in Getters : getter'[g].pc = "wait" => getter'[g] = getter[g]
    PROVE  DownloaderInv'
<1>1. Owned(resp, queue, worker)' /\ Awake(queue, worker)' /\ Now' \in Machine
    BY InvFacts DEF Owned, Awake, Now
<1>2. Foreground(resp)'
    BY InvFacts DEF Foreground
<1> QED
    BY <1>1, <1>2, InvFacts DEF DownloaderInv, DownloaderTypeOK

\* The check of the store.
LEMMA BeginGetInv ==
    ASSUME DownloaderInv, NEW g \in Getters, NEW c \in BlockCids, BeginGet(g, c)
    PROVE  DownloaderInv'
<1>i. getter \in [Getters -> GetCall] /\ faults \in Nat
    BY InvFacts
<1> DEFINE call == IF c \in ready THEN [pc |-> "queue", cid |-> c, answer |-> None]
                   ELSE [pc |-> "end", cid |-> c, answer |-> FALSE]
<1>1. getter' = [getter EXCEPT ![g] = call] /\ UNCHANGED <<ready, resp, queue, worker, related, faults, asked>>
    BY DEF BeginGet
<1>2. call \in GetCall /\ call.pc # "wait"
    BY DEF GetCall
<1> HIDE DEF call
<1>3. getter' \in [Getters -> GetCall] /\ \A h \in Getters : getter'[h].pc = "wait" => getter'[h] = getter[h]
    BY <1>i, <1>1, <1>2
<1> QED
    BY <1>i, <1>1, <1>3, CallerInv

\* The end of a Get, answered or cancelled.
LEMMA BlockInv ==
    ASSUME DownloaderInv, NEW g \in Getters, Block(g)
    PROVE  DownloaderInv'
<1>i. getter \in [Getters -> GetCall] /\ faults \in Nat
    BY InvFacts
<1>1. /\ getter[g].pc = "wait" /\ getter[g].cid \in BlockCids
      /\ \E a \in BOOLEAN \cup {None} : getter' = [getter EXCEPT ![g] = [pc |-> "end", cid |-> getter[g].cid, answer |-> a]]
      /\ faults' \in Nat /\ UNCHANGED <<ready, resp, queue, worker, related, asked>>
    <2>1. getter[g] \in [pc : {"wait"}, cid : BlockCids, answer : BOOLEAN \cup {None}]
        BY <1>i DEF Block, GetCall
    <2>2. [getter[g] EXCEPT !.pc = "end"] = [pc |-> "end", cid |-> getter[g].cid, answer |-> getter[g].answer]
        BY <2>1
    <2>3. [[getter[g] EXCEPT !.pc = "end"] EXCEPT !.answer = FALSE] = [pc |-> "end", cid |-> getter[g].cid, answer |-> FALSE]
        BY <1>i, CallSet, Zenon
    <2>4. getter' = [getter EXCEPT ![g] = [getter[g] EXCEPT !.pc = "end"]]
          \/ getter' = [getter EXCEPT ![g] = [[getter[g] EXCEPT !.pc = "end"] EXCEPT !.answer = FALSE]]
        BY <1>i DEF Block
    <2>5. faults' \in Nat /\ UNCHANGED <<ready, resp, queue, worker, related, asked>>
        BY <1>i DEF Block
    <2> QED
        BY <2>1, <2>2, <2>3, <2>4, <2>5
<1>2. getter' \in [Getters -> GetCall] /\ \A h \in Getters : getter'[h].pc = "wait" => getter'[h] = getter[h]
    BY <1>i, <1>1 DEF GetCall
<1> QED
    BY <1>1, <1>2, CallerInv

-----------------------------------------------------------------------------
(* The theorems.                                                            *)

\* Every step keeps the invariant.
LEMMA DownloaderNextInv == DownloaderInv /\ [DownloaderNext]_downloaderVars => DownloaderInv'
<1> SUFFICES ASSUME DownloaderInv, [DownloaderNext]_downloaderVars PROVE DownloaderInv'
    OBVIOUS
<1>1. ASSUME NEW w \in Workers, WorkerStep(w) PROVE DownloaderInv'
    BY <1>1, DownloadWorkerInv, DoDownloadTaskInv, PrefetchInv, EndTaskInv DEF WorkerStep
<1>2. ASSUME NEW c \in BlockCids, QueueRelated(c) PROVE DownloaderInv'
    BY <1>2, QueueRelatedInv
<1>3. ASSUME NEW c \in BlockCids, Delete(c) PROVE DownloaderInv'
    <2>1. getter' \in [Getters -> GetCall] /\ faults' \in Nat /\ ready' \subseteq ready
          /\ UNCHANGED <<resp, queue, worker, related, asked, getter>>
        BY <1>3, InvFacts DEF Delete
    <2> QED
        BY <2>1, CallerInv
<1>4. ASSUME NEW c \in BlockCids, NEW g \in Getters, BeginGet(g, c) PROVE DownloaderInv'
    BY <1>4, BeginGetInv
<1>5. ASSUME NEW g \in Getters, GetterStep(g) PROVE DownloaderInv'
    BY <1>5, GetInv, BlockInv DEF GetterStep
<1>6. CASE UNCHANGED downloaderVars
    BY <1>6 DEF downloaderVars, DownloaderInv, DownloaderTypeOK, Owned, Awake, Foreground, Now
<1> QED
    BY <1>1, <1>2, <1>3, <1>4, <1>5, <1>6 DEF DownloaderNext

\* The invariant holds of every reachable state.
THEOREM DownloaderInductive == DownloaderSpec => []DownloaderInv
<1>1. DownloaderInit => DownloaderInv
    BY DownloaderInitInv
<1>2. DownloaderInv /\ [DownloaderNext]_downloaderVars => DownloaderInv'
    BY DownloaderNextInv
<1> QED
    BY <1>1, <1>2, PTL DEF DownloaderSpec

\* The map, the heap, the workers and the calls of Get keep their types.
THEOREM DownloaderTypeCorrect == DownloaderSpec => []DownloaderTypeOK
<1>1. DownloaderInv => DownloaderTypeOK
    BY DEF DownloaderInv
<1> QED
    BY <1>1, DownloaderInductive, PTL

\* downloadWorker and queueBlock: one signal for each block is enough.  However
\* workers sleep, wake and find the queue empty again, the queue never holds a
\* block while all of them sleep.
THEOREM QueueIsAttended == DownloaderSpec => []Awake(queue, worker)
<1>1. DownloaderInv => Awake(queue, worker)
    BY DEF DownloaderInv
<1> QED
    BY <1>1, DownloaderInductive, PTL

\* One place in the queue, or one worker, counted.
LEMMA OwnedOnce == DownloaderInv => InflightIsOwned
<1> SUFFICES ASSUME DownloaderInv, NEW c \in BlockCids
             PROVE  LET holders == {w \in Workers : worker[w].cid = c}
                        places == Cardinality({i \in DOMAIN queue : queue[i] = c}) + Cardinality(holders)
                    IN /\ places = IF resp[c] = None THEN 0 ELSE 1
                       /\ resp[c] # None => resp[c] \in Response /\ (resp[c].done <=> \E w \in holders : worker[w].pc \in {"closed", "done"})
    BY DEF InflightIsOwned
<1> DEFINE holders == {w \in Workers : worker[w].cid = c}
           queued == {i \in DOMAIN queue : queue[i] = c}
<1>i. resp \in [BlockCids -> Response \cup {None}] /\ c # None
    BY InvFacts, DownloaderAssumption
<1>o. /\ \A j, k \in DOMAIN queue : queue[j] = queue[k] => j = k
      /\ \A u, v \in Workers : worker[u].cid = worker[v].cid /\ worker[u].cid # None => u = v
      /\ \A j \in DOMAIN queue : /\ resp[queue[j]] # None /\ ~resp[queue[j]].done
                                 /\ \A v \in Workers : worker[v].cid # queue[j]
      /\ \A v \in Workers : worker[v].cid # None =>
            /\ resp[worker[v].cid] # None
            /\ resp[worker[v].cid].done <=> worker[v].pc \in {"closed", "done"}
      /\ \A d \in BlockCids : resp[d] # None =>
            (\E j \in DOMAIN queue : queue[j] = d) \/ \E v \in Workers : worker[v].cid = d
    BY InvFacts DEF Owned
<1>0. Cardinality({}) = 0
    BY FS_EmptySet
<1>1. CASE resp[c] = None
    <2>1. queued = {} /\ holders = {}
        BY <1>i, <1>o, <1>1
    <2>2. Cardinality(queued) + Cardinality(holders) = 0
        <3> HIDE DEF queued, holders
        <3> QED
            BY <1>0, <2>1
    <2> QED
        BY <1>1, <2>2
<1>2. CASE resp[c] # None /\ queued # {}
    <2>1. PICK i \in DOMAIN queue : queue[i] = c
        BY <1>2
    <2>2. queued = {i} /\ holders = {} /\ ~resp[c].done
        BY <1>o, <2>1
    <2>3. Cardinality(queued) + Cardinality(holders) = 1
        <3>1. queued = {i} /\ holders = {}
            BY <2>2
        <3>2. Cardinality({i}) = 1
            BY FS_Singleton
        <3> HIDE DEF queued, holders
        <3>3. Cardinality(queued) = 1 /\ Cardinality(holders) = 0
            BY <1>0, <3>1, <3>2
        <3> QED
            BY <3>3
    <2> QED
        BY <1>i, <1>2, <2>2, <2>3
<1>3. CASE resp[c] # None /\ queued = {}
    <2>1. PICK w \in Workers : worker[w].cid = c
        BY <1>o, <1>3
    <2>2. holders = {w} /\ (resp[c].done <=> worker[w].pc \in {"closed", "done"})
        BY <1>i, <1>o, <2>1
    <2>3. Cardinality(queued) + Cardinality(holders) = 1
        <3>1. queued = {} /\ holders = {w}
            BY <1>3, <2>2
        <3>2. Cardinality({w}) = 1
            BY FS_Singleton
        <3> HIDE DEF queued, holders
        <3>3. Cardinality(queued) = 0 /\ Cardinality(holders) = 1
            BY <1>0, <3>1, <3>2
        <3> QED
            BY <3>3
    <2> QED
        BY <1>i, <1>3, <2>2, <2>3
<1> QED
    BY <1>1, <1>2, <1>3

\* The in-flight map of downloader.go: every response in it is queued once or held
\* by one worker, so no block is fetched twice at a time and no entry stays behind.
THEOREM InflightAlwaysOwned == DownloaderSpec => []InflightIsOwned
    BY OwnedOnce, DownloaderInductive, PTL

\* The pop takes the highest priority, which only blocks some Get asked for have.
LEMMA ForegroundStep ==
    ASSUME DownloaderInv, NEW w \in Workers, DownloadWorker(w), queue # <<>>,
           \E g \in Getters : getter[g].pc = "wait" /\ getter[g].answer = None /\ Contains(queue, getter[g].cid)
    PROVE  worker'[w].cid \in asked
<1>i. queue \in Seq(BlockCids) /\ worker \in [Workers -> Task] /\ resp \in [BlockCids -> Response \cup {None}]
      /\ Now \in Machine /\ Owned(resp, queue, worker) /\ Foreground(resp)
    BY InvFacts
<1> DEFINE i == First(Now)
<1>1. /\ i \in DOMAIN queue
      /\ \A j \in DOMAIN queue : resp[queue[i]].priority >= resp[queue[j]].priority
    BY <1>i, FirstIsFirst DEF Now
<1>2. worker' = [worker EXCEPT ![w] = [pc |-> "download", cid |-> queue[i]]]
    BY DEF DownloadWorker
<1> HIDE DEF i
<1>3. worker'[w].cid = queue[i] /\ queue[i] \in BlockCids
    BY <1>i, <1>1, <1>2
<1>4. PICK g \in Getters : getter[g].pc = "wait" /\ getter[g].answer = None /\ Contains(queue, getter[g].cid)
    OBVIOUS
<1>5. PICK j \in DOMAIN queue : queue[j] = getter[g].cid
    BY <1>i, <1>4 DEF Contains
<1>6. resp[queue[j]].priority = Top
    BY <1>i, <1>4, <1>5 DEF Foreground
<1>7. resp[queue[i]] # None
    BY <1>i, <1>1 DEF Owned
<1>8. resp[queue[i]].priority \in Low..Top
    BY <1>i, <1>3, <1>7 DEF Response
<1>9. resp[queue[i]].priority = Top
    BY <1>1, <1>6, <1>8 DEF Low, Top
<1> QED
    BY <1>i, <1>3, <1>7, <1>9 DEF Foreground

\* priorityQueue.Less and the raised priority of queueBlock: no step of a worker
\* takes up a block fetched in advance while a block somebody waits for is queued.
THEOREM ForegroundAlwaysFirst == DownloaderSpec => ForegroundFirst
<1> DEFINE A == \A w \in Workers :
                  /\ DownloadWorker(w) /\ queue # <<>>
                  /\ \E g \in Getters : getter[g].pc = "wait" /\ getter[g].answer = None /\ Contains(queue, getter[g].cid)
                  => worker'[w].cid \in asked
<1>1. DownloaderInv => [A]_downloaderVars
    BY ForegroundStep
<1>2. []DownloaderInv => [][A]_downloaderVars
    <2> HIDE DEF A
    <2> QED
        BY <1>1, PTL
<1> QED
    BY <1>2, DownloaderInductive, PTL DEF ForegroundFirst
=============================================================================
