----------------------------- MODULE Reprovider -----------------------------
(***************************************************************************)
(* The reprovider (internal/protocol/ipfs/provide.go) over the metadata    *)
(* store's announcement times: a loop that takes the blocks announced      *)
(* longest ago, a batch at a time, announces them to the network and       *)
(* writes down when.  Blocks come and go meanwhile, an announcement fails  *)
(* for all or for some blocks, and the node may be shut down between any   *)
(* two steps and started again.                                            *)
(* Times are ranks: 0 for a block never announced, otherwise the position  *)
(* of its announcement among those still in the table; blocks up to the    *)
(* rank "cutoff" were announced longer ago than the interval.              *)
(* Left out: metrics, and different CIDs with one multihash.               *)
(***************************************************************************)
EXTENDS Naturals, SequencesExt, FiniteSetsExt

CONSTANTS Cids,
          Broken,     \* blocks the basic provider never can announce
          BatchSize,
          MaxFaults,  \* bound on failures and restarts
          MaxChanges  \* bound on blocks added and deleted

ASSUME ReproviderAssumption ==
    /\ IsFiniteSet(Cids) /\ Broken \subseteq Cids
    /\ BatchSize \in Nat \ {0} /\ MaxFaults \in Nat /\ MaxChanges \in Nat

VARIABLES fullrt,     \* one announcement for the batch, or one for each block
          blocks,     \* the ready blocks
          last,       \* last_announcement of each, as a rank
          cutoff,     \* ranks up to this one are older than the interval
          pc,         \* where Run is
          sleep,      \* how long it sleeps next
          trigger,    \* triggerProvide is full
          batch,      \* what ProvideCIDs returned
          done,       \* the blocks to be written down as announced
          whole,      \* whether ProvideMany returned no error
          cancelled,  \* the node's context has ended
          faults, changes,
          provided,   \* history: the blocks announced since they were last due
          wanted      \* history: a Trigger no fetch has followed yet

vars == <<fullrt, blocks, last, cutoff, pc, sleep, trigger, batch, done, whole, cancelled, faults, changes, provided, wanted>>

Stale(c) == last[c] <= cutoff

Init ==
    /\ fullrt \in BOOLEAN
    /\ blocks = Cids
    /\ last = [c \in Cids |-> 0] /\ cutoff = 0
    /\ pc = "start" /\ sleep = "none"
    /\ trigger = FALSE /\ batch = {} /\ done = {} /\ whole = TRUE
    /\ cancelled = FALSE
    /\ faults = 0 /\ changes = 0
    /\ provided = {} /\ wanted = FALSE
-----------------------------------------------------------------------------
(* The metadata store.                                                      *)

\* Up to the limit of the stale blocks, those announced longest ago first, in
\* any order among blocks of one time.
ProvideCIDs ==
    LET stale == {c \in blocks : Stale(c)}
    IN {S \in SUBSET stale : /\ Cardinality(S) = Min({BatchSize, Cardinality(stale)})
                             /\ \A c \in S, d \in stale \ S : last[c] <= last[d]}

\* The ranks in use without gaps.
Ranked(l, cut) ==
    LET used == {l[c] : c \in blocks} \ {0}
        rank(n) == Cardinality({k \in used : k <= n})
    IN /\ last' = [c \in Cids |-> IF c \in blocks THEN rank(l[c]) ELSE 0]
       /\ cutoff' = rank(cut)

\* One transaction: a block that is gone undoes it all.
SetLastAnnouncement(S) == Ranked([c \in Cids |-> IF c \in S THEN Cardinality(Cids) + 1 ELSE last[c]], cutoff)
SetFails(S) == cancelled \/ ~(S \subseteq blocks)
-----------------------------------------------------------------------------
(* The node.                                                                *)

Fault == faults < MaxFaults /\ faults' = faults + 1

\* Mutant of Trigger: the channel has no buffer.
TriggerWaiting ==
    /\ trigger' = (trigger \/ pc = "sleep") /\ wanted' = TRUE
    /\ UNCHANGED <<blocks, last, cutoff, pc, sleep, batch, done, whole, cancelled, faults, changes, provided>>

\* The channel has room for one.
Trigger ==
    /\ trigger' = TRUE /\ wanted' = TRUE
    /\ UNCHANGED <<blocks, last, cutoff, pc, sleep, batch, done, whole, cancelled, faults, changes, provided>>

\* A block is stored, which ends with a Trigger of its own.
AddBlock(c) ==
    /\ c \notin blocks /\ changes < MaxChanges /\ changes' = changes + 1
    /\ blocks' = blocks \union {c} /\ last' = [last EXCEPT ![c] = 0]
    /\ UNCHANGED <<cutoff, pc, sleep, trigger, batch, done, whole, cancelled, faults, provided, wanted>>

DeleteBlock(c) ==
    /\ c \in blocks /\ changes < MaxChanges /\ changes' = changes + 1
    /\ blocks' = blocks \ {c} /\ last' = [last EXCEPT ![c] = 0]
    /\ provided' = provided \ ({c} \ done)
    /\ UNCHANGED <<cutoff, pc, sleep, trigger, batch, done, whole, cancelled, faults, wanted>>

\* Time passes: the oldest announcements are due again.
Expire ==
    /\ \E c \in blocks : last[c] = cutoff + 1
    /\ cutoff' = cutoff + 1
    /\ provided' = {c \in provided : last[c] # cutoff + 1}
    /\ UNCHANGED <<blocks, last, pc, sleep, trigger, batch, done, whole, cancelled, faults, changes, wanted>>

Shutdown ==
    /\ ~cancelled /\ Fault /\ cancelled' = TRUE
    /\ UNCHANGED <<blocks, last, cutoff, pc, sleep, trigger, batch, done, whole, changes, provided, wanted>>

\* A new process: what was not written down is lost.
Restart ==
    /\ pc = "stopped"
    /\ pc' = "start" /\ sleep' = "none" /\ cancelled' = FALSE
    /\ trigger' = FALSE /\ batch' = {} /\ done' = {} /\ whole' = TRUE /\ wanted' = FALSE
    /\ UNCHANGED <<blocks, last, cutoff, faults, changes, provided>>
-----------------------------------------------------------------------------
(* Run.                                                                     *)

\* The provider is ready, sooner or later.
Ready ==
    /\ pc = "start"
    /\ pc' \in {"sleep"} \union (IF cancelled THEN {"stopped"} ELSE {})
    /\ UNCHANGED <<blocks, last, cutoff, sleep, trigger, batch, done, whole, cancelled, faults, changes, provided, wanted>>

\* The select: any of its cases that can go on may.
Wake ==
    /\ pc = "sleep"
    /\ \/ cancelled /\ pc' = "stopped" /\ UNCHANGED trigger
       \/ pc' = "fetch" /\ UNCHANGED trigger
       \/ trigger /\ trigger' = FALSE /\ pc' = "delay"
    /\ UNCHANGED <<blocks, last, cutoff, sleep, batch, done, whole, cancelled, faults, changes, provided, wanted>>

\* The delay after a trigger.
Delay ==
    /\ pc = "delay"
    /\ pc' \in {"fetch"} \union (IF cancelled THEN {"stopped"} ELSE {})
    /\ UNCHANGED <<blocks, last, cutoff, sleep, trigger, batch, done, whole, cancelled, faults, changes, provided, wanted>>

Sleep(d) == pc' = "sleep" /\ sleep' = d

\* performProvide up to the announcement.
Fetch ==
    /\ pc = "fetch"
    /\ wanted' = FALSE
    /\ \/ /\ ~cancelled /\ \E S \in ProvideCIDs : batch' = S
          /\ IF batch' = {} THEN Sleep("empty") ELSE pc' = "provide" /\ UNCHANGED sleep
          /\ UNCHANGED faults
       \/ /\ IF cancelled THEN UNCHANGED faults ELSE Fault
          /\ Sleep("error") /\ UNCHANGED batch
    /\ UNCHANGED <<blocks, last, cutoff, trigger, done, whole, cancelled, changes, provided>>

\* What an announcement may come to: the blocks tried, and those that failed.
\* FullRT has one answer for all.
FullRTOutcomes == {[tried |-> batch, failed |-> f] : f \in {{}, batch}}

\* The basic provider tries them all unless it is cancelled, and then leaves
\* the rest out of the failed ones.
BasicOutcomes ==
    {o \in [tried : SUBSET batch, failed : SUBSET batch] :
        /\ o.tried = batch \/ cancelled
        /\ o.failed \subseteq o.tried /\ Broken \intersect o.tried \subseteq o.failed}

Outcomes == IF fullrt THEN FullRTOutcomes ELSE BasicOutcomes

\* Mutant of ProvideMany: a failed block does not count as failed.
ProvideAll ==
    /\ pc = "provide" /\ pc' = "record"
    /\ \E o \in Outcomes :
         /\ IF cancelled \/ o.failed \subseteq Broken THEN UNCHANGED faults ELSE Fault
         /\ provided' = provided \union (o.tried \ o.failed)
         /\ done' = batch /\ whole' = (o.failed = {})
    /\ UNCHANGED <<blocks, last, cutoff, sleep, trigger, batch, cancelled, changes, wanted>>

ProvideMany ==
    /\ pc = "provide" /\ pc' = "record"
    /\ \E o \in Outcomes :
         /\ IF cancelled \/ o.failed \subseteq Broken THEN UNCHANGED faults ELSE Fault
         /\ provided' = provided \union (o.tried \ o.failed)
         /\ done' = batch \ o.failed /\ whole' = (o.failed = {})
    /\ UNCHANGED <<blocks, last, cutoff, sleep, trigger, batch, cancelled, changes, wanted>>

\* Mutant of Record: an announcement that failed is not tried again soon.
RecordWhole ==
    /\ pc = "record"
    /\ \/ /\ ~SetFails(done) /\ whole /\ SetLastAnnouncement(done)
          /\ Sleep(IF Cardinality(batch) >= BatchSize THEN "backlog" ELSE "interval")
          /\ UNCHANGED faults
       \/ /\ IF SetFails(done) \/ ~whole THEN UNCHANGED faults ELSE Fault
          /\ Sleep("error") /\ UNCHANGED <<last, cutoff>>
    /\ batch' = {} /\ done' = {} /\ whole' = TRUE
    /\ UNCHANGED <<blocks, trigger, cancelled, changes, provided, wanted>>

\* The rest of performProvide: the blocks that did not fail are written down,
\* and what happened says how long to sleep.
Record ==
    /\ pc = "record"
    /\ \/ /\ ~SetFails(done) /\ SetLastAnnouncement(done)
          /\ Sleep(IF ~whole THEN "error" ELSE IF Cardinality(batch) >= BatchSize THEN "backlog" ELSE "interval")
          /\ UNCHANGED faults
       \/ /\ IF SetFails(done) THEN UNCHANGED faults ELSE Fault
          /\ Sleep("error") /\ UNCHANGED <<last, cutoff>>
    /\ batch' = {} /\ done' = {} /\ whole' = TRUE
    /\ UNCHANGED <<blocks, trigger, cancelled, changes, provided, wanted>>

Run == Ready \/ Wake \/ Delay \/ Fetch \/ ProvideMany \/ Record
Next ==
    /\ \/ Run \/ Trigger \/ Expire \/ Shutdown \/ Restart
       \/ \E c \in Cids : AddBlock(c) \/ DeleteBlock(c)
    /\ UNCHANGED fullrt

\* The loop is a goroutine, its sleeps end, and the provider becomes ready.
Spec == Init /\ [][Next]_vars /\ WF_vars(Run /\ UNCHANGED fullrt)
-----------------------------------------------------------------------------
\* A block the store has down as announced within the interval was announced:
\* blocks that failed, that a shutdown left untried or that came back after a
\* deletion are not (performProvide, basicDHTProvider.ProvideMany).
AnnouncedIsProvided == \A c \in blocks : ~Stale(c) => c \in provided

\* A Trigger is not lost while the loop is busy: whenever it goes to sleep, a
\* Trigger that no look at the store has followed is still in the channel.
TriggerKept == pc = "sleep" /\ wanted => trigger

\* Every block that can be announced is, although others fail for ever at the
\* head of the list - unless it is deleted or the node is shut down.  Fewer
\* blocks fail for ever than a batch holds.
EventuallyAnnounced ==
    \A c \in Cids \ Broken :
        c \in blocks /\ Stale(c) ~> c \notin blocks \/ ~Stale(c) \/ cancelled
=============================================================================
