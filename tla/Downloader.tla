----------------------------- MODULE Downloader -----------------------------
(***************************************************************************)
(* The block downloader (internal/protocol/store/downloader/downloader.go):*)
(* Gets for blocks meet in a map of the responses in flight, a priority    *)
(* queue feeds a fixed number of workers over one condition variable, and  *)
(* a block that was asked for has its siblings and children fetched after  *)
(* it.  A Get holds on to the response it found, whatever becomes of the   *)
(* map meanwhile.                                                          *)
(* Left out: the block's data and its hash (a download succeeds or fails), *)
(* client addresses, and blocks stored after the start.                    *)
(***************************************************************************)
EXTENDS Naturals, SequencesExt, FiniteSetsExt

CONSTANTS BlockCids,
          Links,      \* what each block links to, in order, each CID once
          Missing,    \* blocks that are linked to and were never stored
          None,
          Workers,
          Getters,    \* calls of Get
          MaxRelated, \* 64 in the code
          MaxFaults   \* bound on failing downloads, deletions and cancelled calls

Low == 1
Medium == 2
High == 3
Top == 4  \* downloadPriorityMax

Response == [done : BOOLEAN, ok : BOOLEAN, priority : Low..Top]

ASSUME DownloaderAssumption ==
    /\ Links \in [BlockCids -> Seq(BlockCids)] /\ Missing \subseteq BlockCids
    /\ None \notin BlockCids \union Response \union BOOLEAN
    /\ MaxRelated \in Nat /\ MaxFaults \in Nat
    /\ Workers # {}

VARIABLES ready,    \* the blocks the metadata store knows; Unpin takes them away
          resp,     \* inflight: the response for each CID, or None
          queue,    \* the CIDs in the queue, in the order of their timestamps
          worker,   \* [pc, cid] of each worker
          related,  \* how many queueRelated calls are under way for each CID
          getter,   \* [pc, cid, answer] of each Get
          faults,
          asked     \* history: the CIDs some Get has queued

downloaderVars == <<ready, resp, queue, worker, related, getter, faults, asked>>

Idle == [pc |-> "check", cid |-> None]

DownloaderInit ==
    /\ ready = BlockCids \ Missing
    /\ resp = [c \in BlockCids |-> None]
    /\ queue = <<>>
    /\ worker = [w \in Workers |-> Idle]
    /\ related = [c \in BlockCids |-> 0]
    /\ getter = [g \in Getters |-> [pc |-> "idle", cid |-> None, answer |-> None]]
    /\ faults = 0 /\ asked = {}
-----------------------------------------------------------------------------
(* The metadata store's two queries over its rows <<parent, index>> of the  *)
(* links.  A link is known while its parent is stored and its child is not  *)
(* deleted.                                                                 *)

Child(row) == Links[row[1]][row[2]]
Linked == {row \in UNION {{p} \X DOMAIN Links[p] : p \in ready} : Child(row) \in ready \union Missing}

\* ORDER BY link_index LIMIT max: links with one index come in any order.
Listings(rows) ==
    {list \in SeqOf(rows, MaxRelated) :
        /\ \A j, k \in DOMAIN list : j < k => list[j] # list[k] /\ list[j][2] <= list[k][2]
        /\ \A row \in rows \ Range(list) : Len(list) = MaxRelated /\ \A j \in DOMAIN list : list[j][2] <= row[2]}

BlockChildren(c) == Listings({row \in Linked : row[1] = c /\ Child(row) \in ready})

\* The links after the one to this block, in each of its parents; those to
\* blocks that are not ready are dropped after the limit.
BlockSiblings(c) ==
    Listings({row \in Linked : \E i \in 1..(row[2] - 1) : <<row[1], i>> \in Linked /\ Child(<<row[1], i>>) = c})
-----------------------------------------------------------------------------
(* The queue and the workers.  State that queueBlock changes is passed as a *)
(* record, for queueRelated calls it many times under one lock.             *)

\* Less: the higher priority first, then the earlier timestamp.
Less(m, i, j) ==
    \/ m.resp[m.queue[i]].priority > m.resp[m.queue[j]].priority
    \/ m.resp[m.queue[i]].priority = m.resp[m.queue[j]].priority /\ i < j
First(m) == CHOOSE i \in DOMAIN m.queue : \A j \in DOMAIN m.queue \ {i} : Less(m, i, j)

\* cond.Signal wakes one waiting worker, if there is one.
Signal(ws) ==
    LET waiting == {w \in Workers : ws[w].pc = "wait"}
    IN IF waiting = {} THEN ws ELSE [ws EXCEPT ![CHOOSE w \in waiting : TRUE] = Idle]

Now == [resp |-> resp, queue |-> queue, worker |-> worker]

\* Mutant of QueueBlock: workers are not woken.
QueueSilently(m, c, priority) ==
    IF m.resp[c] # None THEN [m EXCEPT !.resp[c].priority = Max({@, priority})]
    ELSE [m EXCEPT !.resp[c] = [done |-> FALSE, ok |-> FALSE, priority |-> priority], !.queue = Append(@, c)]

\* Mutant of QueueBlock: a response in flight keeps its priority.
QueueOnce(m, c, priority) ==
    IF m.resp[c] # None THEN m
    ELSE [m EXCEPT !.resp[c] = [done |-> FALSE, ok |-> FALSE, priority |-> priority],
                   !.queue = Append(@, c), !.worker = Signal(@)]

QueueBlock(m, c, priority) ==
    IF m.resp[c] # None THEN [m EXCEPT !.resp[c].priority = Max({@, priority})]
    ELSE [m EXCEPT !.resp[c] = [done |-> FALSE, ok |-> FALSE, priority |-> priority],
                   !.queue = Append(@, c), !.worker = Signal(@)]

\* One loop of queueRelated: the blocks the store still has are queued.
QueueAll(m, list, priority) ==
    LET after[n \in 0..Len(list)] ==
            IF n = 0 THEN m
            ELSE IF Child(list[n]) \in ready THEN QueueBlock(after[n - 1], Child(list[n]), priority)
            ELSE after[n - 1]
    IN after[Len(list)]

\* The siblings at medium, then the children at low priority.
QueueRelated(c) ==
    /\ related[c] > 0 /\ related' = [related EXCEPT ![c] = @ - 1]
    /\ \E siblings \in BlockSiblings(c), children \in BlockChildren(c) :
        LET m == QueueAll(QueueAll(Now, siblings, Medium), children, Low)
        IN resp' = m.resp /\ queue' = m.queue /\ worker' = m.worker
    /\ UNCHANGED <<ready, getter, faults, asked>>

\* The worker's wait loop and the pop.
DownloadWorker(w) ==
    /\ worker[w].pc = "check"
    /\ IF queue = <<>> THEN worker' = [worker EXCEPT ![w].pc = "wait"] /\ UNCHANGED queue
       ELSE LET i == First(Now) IN
            /\ worker' = [worker EXCEPT ![w] = [pc |-> "download", cid |-> queue[i]]]
            /\ queue' = RemoveAt(queue, i)
    /\ UNCHANGED <<ready, resp, related, getter, faults, asked>>

\* What the Gets that wait for a response see once its channel is closed.
Answered(c, ok) ==
    [g \in Getters |-> IF getter[g].pc = "wait" /\ getter[g].cid = c /\ getter[g].answer = None
                       THEN [getter[g] EXCEPT !.answer = ok] ELSE getter[g]]

\* A block that was deleted is not found; any other may fail or be damaged.
DownloadBlockData(c, ok) ==
    /\ ok => c \in ready
    /\ IF ok \/ c \notin ready THEN UNCHANGED faults ELSE faults < MaxFaults /\ faults' = faults + 1

\* The download ends one way or the other, within its minute, and everyone who
\* waits is answered.
DoDownloadTask(w, ok) ==
    LET c == worker[w].cid
    IN /\ worker[w].pc = "download"
       /\ DownloadBlockData(c, ok)
       /\ resp' = [resp EXCEPT ![c].done = TRUE, ![c].ok = ok]
       /\ getter' = Answered(c, ok)
       /\ worker' = [worker EXCEPT ![w].pc = "closed"]
       /\ UNCHANGED <<ready, queue, related, asked>>

\* A block someone asked for has its relatives queued.  The priority is read
\* without the lock: a Get since the channel was closed counts as well.
Prefetch(w) ==
    LET c == worker[w].cid
    IN /\ worker[w].pc = "closed"
       /\ related' = IF resp[c].ok /\ resp[c].priority >= High THEN [related EXCEPT ![c] = @ + 1] ELSE related
       /\ worker' = [worker EXCEPT ![w].pc = "done"]
       /\ UNCHANGED <<ready, resp, queue, getter, faults, asked>>

\* Mutant of EndTask: only a block that was downloaded leaves the map.
EndDownloaded(w) ==
    /\ worker[w].pc = "done"
    /\ resp' = IF resp[worker[w].cid].ok THEN [resp EXCEPT ![worker[w].cid] = None] ELSE resp
    /\ worker' = [worker EXCEPT ![w] = Idle]
    /\ UNCHANGED <<ready, queue, related, getter, faults, asked>>

\* The response leaves the map only now: until then a Get finds it ended.
EndTask(w) ==
    /\ worker[w].pc = "done"
    /\ resp' = [resp EXCEPT ![worker[w].cid] = None]
    /\ worker' = [worker EXCEPT ![w] = Idle]
    /\ UNCHANGED <<ready, queue, related, getter, faults, asked>>
-----------------------------------------------------------------------------
(* Get: the check of the store, the queue, the wait.                        *)

BeginGet(g, c) ==
    /\ getter[g].pc = "idle"
    /\ getter' = [getter EXCEPT ![g] = IF c \in ready THEN [pc |-> "queue", cid |-> c, answer |-> None]
                                       ELSE [pc |-> "end", cid |-> c, answer |-> FALSE]]
    /\ UNCHANGED <<ready, resp, queue, worker, related, faults, asked>>

Get(g) ==
    LET c == getter[g].cid
        m == QueueBlock(Now, c, Top)
    IN /\ getter[g].pc = "queue"
       /\ resp' = m.resp /\ queue' = m.queue /\ worker' = m.worker
       /\ asked' = asked \union {c}
       /\ getter' = [getter EXCEPT ![g].pc = "wait", ![g].answer = IF m.resp[c].done THEN m.resp[c].ok ELSE None]
       /\ UNCHANGED <<ready, related, faults>>

\* The wait ends with the answer, or with the caller's context.
Block(g) ==
    /\ getter[g].pc = "wait"
    /\ \/ getter[g].answer # None /\ getter' = [getter EXCEPT ![g].pc = "end"] /\ UNCHANGED faults
       \/ /\ faults < MaxFaults /\ faults' = faults + 1
          /\ getter' = [getter EXCEPT ![g].pc = "end", ![g].answer = FALSE]
    /\ UNCHANGED <<ready, resp, queue, worker, related, asked>>

Delete(c) ==
    /\ c \in ready /\ faults < MaxFaults /\ faults' = faults + 1
    /\ ready' = ready \ {c}
    /\ UNCHANGED <<resp, queue, worker, related, getter, asked>>

WorkerStep(w) == DownloadWorker(w) \/ (\E ok \in BOOLEAN : DoDownloadTask(w, ok)) \/ Prefetch(w) \/ EndTask(w)
GetterStep(g) == Get(g) \/ Block(g)

DownloaderNext ==
    \/ \E w \in Workers : WorkerStep(w)
    \/ \E c \in BlockCids : QueueRelated(c) \/ Delete(c) \/ \E g \in Getters : BeginGet(g, c)
    \/ \E g \in Getters : GetterStep(g)

\* The workers are goroutines that never end, and a call that was made goes on;
\* nothing makes anybody cancel one.
DownloaderSpec ==
    /\ DownloaderInit /\ [][DownloaderNext]_downloaderVars
    /\ \A w \in Workers : WF_downloaderVars(WorkerStep(w))
    /\ \A g \in Getters : WF_downloaderVars(GetterStep(g) /\ UNCHANGED faults)
-----------------------------------------------------------------------------
\* Every response in flight is in somebody's hands, once: queued or with one
\* worker, and it leaves the map when that worker is through with it.  So no
\* block is downloaded twice at a time ("avoid redundant downloads"), and the
\* failure of a download is not the answer to every later Get.
InflightIsOwned ==
    \A c \in BlockCids :
        LET holders == {w \in Workers : worker[w].cid = c}
            places == Cardinality({i \in DOMAIN queue : queue[i] = c}) + Cardinality(holders)
        IN /\ places = IF resp[c] = None THEN 0 ELSE 1
           /\ resp[c] # None => resp[c] \in Response /\ (resp[c].done <=> \E w \in holders : worker[w].pc \in {"closed", "done"})

\* No worker takes up a block fetched in advance while a block somebody waits
\* for is in the queue, although it may have been queued in advance first.
ForegroundFirst ==
    [][\A w \in Workers :
        /\ DownloadWorker(w) /\ queue # <<>>
        /\ \E g \in Getters : getter[g].pc = "wait" /\ getter[g].answer = None /\ Contains(queue, getter[g].cid)
        => worker'[w].cid \in asked]_downloaderVars

\* Every Get ends, whatever the order in which workers sleep, are signalled
\* and find the queue.
GetsEnd == \A g \in Getters : getter[g].pc = "queue" ~> getter[g].pc = "end"
=============================================================================
