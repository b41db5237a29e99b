--------------------------- MODULE BitswapServing ---------------------------
(***************************************************************************)
(* Serving blocks to the peers of the IPFS network: the tracer that notes  *)
(* which address wants which block, the filter that limits the requests of *)
(* every peer, BlockStore.Get with the check of the pinners' quota and the *)
(* billing of the download, and the two clean-ups that run when a      *)
(* connection closes.  Messages, reads and clean-ups run on goroutines of  *)
(* their own, and each takes its locks for one step only.                  *)
(***************************************************************************)
EXTENDS Naturals, Sequences, FiniteSets, FiniteSetsExt

CONSTANTS Workers,       \* goroutines that process messages and read blocks
          Cids,
          Conns,         \* connections: [peer, ip, n]
          Exempt,        \* gateway peers and the node itself
          NoIP,          \* the address of a connection that has no usable one
          GlobalBurst, PeerBurst,   \* sizes of the token buckets
          Accounts,
          Uploader, Pinners,   \* of each block: an account, and a set of them, which stay
          Limit,         \* blocks an account's quota allows
          MaxJobs, MaxCloses, MaxRefills, MaxFaults   \* bounds

Peers == {n.peer : n \in Conns}
Addrs == {n.ip : n \in Conns} \ {NoIP}

ASSUME BurstAssumption ==
    /\ GlobalBurst \in Nat \ {0} /\ PeerBurst \in Nat \ {0}
    /\ Exempt \subseteq Peers
    /\ Limit \in Nat
    /\ Uploader \in [Cids -> Accounts] /\ Pinners \in [Cids -> SUBSET Accounts]
    /\ Workers # {} /\ IsFiniteSet(Workers)

VARIABLES
    open,       \* open connections
    cleanup,    \* pending calls of the disconnect listeners: <<conn, listener>>
    requests,   \* BlockRequestTracker: [Cids -> addresses]
    limiterOf,  \* WantBlockFilter.peerLimiters: a peer's limiter, 0 if none
    buckets,    \* tokens of the limiters made so far
    global,     \* tokens of the global limiter
    denied,     \* topNDeniedPeersCollector: the peers with a count
    queue,      \* blocks the engine is to send
    job,        \* what each worker does
    used,       \* blocks billed to each account
    lent,       \* history: reads of an account's uploads that only another pinner's room let through
    bounds,     \* messages and reads, closes, refills, faults so far
    hist        \* histories, see Init

vars == <<open, cleanup, requests, limiterOf, buckets, global, denied, queue,
          job, used, lent, bounds, hist>>

Idle == [pc |-> "idle"]
At(w, pc) == job[w].pc = pc
Go(w, pc) == job' = [job EXCEPT ![w].pc = pc]
Count(kind, max) ==
    /\ bounds[kind] < max
    /\ bounds' = [bounds EXCEPT ![kind] = @ + 1]

(***************************************************************************)
(* Messages: the tracer                                                    *)
(***************************************************************************)
\* A message of a connected peer arrives; it wants one block.
Receive(w, n, c) ==
    /\ At(w, "idle") /\ n \in open
    /\ Count("jobs", MaxJobs)
    /\ job' = [job EXCEPT ![w] = [pc |-> "trace", peer |-> n.peer, cid |-> c]]
    /\ UNCHANGED <<open, cleanup, requests, limiterOf, buckets, global, denied, queue, used, lent, hist>>

\* ConnsToPeer: the address of one of the peer's connections, if any.
MessageReceived(w) ==
    /\ At(w, "trace")
    /\ LET conns == {n \in open : n.peer = job[w].peer /\ n.ip # NoIP}
           bare == {n \in open : n.peer = job[w].peer} \ conns IN
       \/ \E n \in conns :
             job' = [job EXCEPT ![w] = [pc |-> "add", peer |-> @.peer, cid |-> @.cid, ip |-> n.ip]]
       \/ (conns = {} \/ bare # {}) /\ Go(w, "filter")
    /\ UNCHANGED <<open, cleanup, requests, limiterOf, buckets, global, denied, queue, used, lent, bounds, hist>>

AddRequest(reqs, c, ip) == [reqs EXCEPT ![c] = @ \cup {ip}]

\* The wants of the message, of which there is one, are kept for the address.
TrackWants(w) ==
    /\ At(w, "add")
    /\ requests' = AddRequest(requests, job[w].cid, job[w].ip)
    /\ Go(w, "filter")
    /\ UNCHANGED <<open, cleanup, limiterOf, buckets, global, denied, queue, used, lent, bounds, hist>>

(***************************************************************************)
(* Messages: the filter                                                    *)
(***************************************************************************)
\* The engine takes the request over; the message is done.
Enqueue(w) ==
    /\ queue' = Append(queue, job[w].cid)
    /\ job' = [job EXCEPT ![w] = Idle]

\* increment: a lookup and an addition; an addition to a counter that was
\* removed in between is one made before the removal.  The number does not
\* matter here.
Deny(w) ==
    /\ denied' = denied \cup {job[w].peer}
    /\ job' = [job EXCEPT ![w] = Idle]
    /\ UNCHANGED queue

\* Exempt peers pass; the others need a token of the global limiter first.
Allow(w) ==
    /\ At(w, "filter")
    /\ \/ /\ job[w].peer \in Exempt
          /\ Enqueue(w) /\ UNCHANGED <<global, denied>>
       \/ /\ job[w].peer \notin Exempt /\ global = 0
          /\ Deny(w) /\ UNCHANGED global
       \/ /\ job[w].peer \notin Exempt /\ global > 0
          /\ global' = global - 1
          /\ Go(w, "lookup") /\ UNCHANGED <<queue, denied>>
    /\ UNCHANGED <<open, cleanup, requests, limiterOf, buckets, used, lent, bounds, hist>>

\* getPeerLimiter: the lookup under the read lock.
LookupLimiter(w) ==
    /\ At(w, "lookup")
    /\ LET l == limiterOf[job[w].peer] IN
       job' = [job EXCEPT ![w] =
           [pc |-> IF l = 0 THEN "create" ELSE "take",
            peer |-> @.peer, cid |-> @.cid, limiter |-> l]]
    /\ UNCHANGED <<open, cleanup, requests, limiterOf, buckets, global, denied, queue, used, lent, bounds, hist>>

\* Mutant of CreateLimiter: no second look under the write lock.
CreateAnyway(w) ==
    LET p == job[w].peer IN
    /\ At(w, "create")
    /\ buckets' = Append(buckets, PeerBurst)
    /\ limiterOf' = [limiterOf EXCEPT ![p] = Len(buckets) + 1]
    /\ job' = [job EXCEPT ![w].pc = "take", ![w].limiter = Len(buckets) + 1]
    /\ UNCHANGED <<open, cleanup, requests, global, denied, queue, used, lent, bounds, hist>>

\* getPeerLimiter: a second look, and the creation, under the write lock.
CreateLimiter(w) ==
    LET p == job[w].peer
        found == limiterOf[p] # 0
        l == IF found THEN limiterOf[p] ELSE Len(buckets) + 1 IN
    /\ At(w, "create")
    /\ buckets' = IF found THEN buckets ELSE Append(buckets, PeerBurst)
    /\ limiterOf' = [limiterOf EXCEPT ![p] = l]
    /\ job' = [job EXCEPT ![w].pc = "take", ![w].limiter = l]
    /\ UNCHANGED <<open, cleanup, requests, global, denied, queue, used, lent, bounds, hist>>

\* The token of the peer's own limiter; the global one stays spent.
TakeToken(w) ==
    LET l == job[w].limiter IN
    /\ At(w, "take")
    /\ \/ /\ buckets[l] > 0
          /\ buckets' = [buckets EXCEPT ![l] = @ - 1]
          /\ hist' = [hist EXCEPT !.allowed[job[w].peer] = @ + 1, !.passed = @ + 1]
          /\ Enqueue(w) /\ UNCHANGED denied
       \/ /\ buckets[l] = 0
          /\ Deny(w) /\ UNCHANGED <<buckets, hist>>
    /\ UNCHANGED <<open, cleanup, requests, limiterOf, global, used, lent, bounds>>

\* Time passes: every bucket that is not full gets a token.
Refill ==
    /\ global < GlobalBurst \/ \E l \in DOMAIN buckets : buckets[l] < PeerBurst
    /\ Count("refills", MaxRefills)
    /\ global' = Min({GlobalBurst, global + 1})
    /\ buckets' = [l \in DOMAIN buckets |-> Min({PeerBurst, buckets[l] + 1})]
    /\ UNCHANGED <<open, cleanup, requests, limiterOf, denied, queue, job, used, lent, hist>>

(***************************************************************************)
(* Reading blocks: BlockStore.Get                                          *)
(***************************************************************************)
\* The engine reads the next block; nobody knows for whom.
BeginTask(w) ==
    /\ At(w, "idle") /\ queue # <<>>
    /\ queue' = Tail(queue)
    /\ job' = [job EXCEPT ![w] = [pc |-> "check", cid |-> Head(queue), known |-> FALSE]]
    /\ UNCHANGED <<open, cleanup, requests, limiterOf, buckets, global, denied, used, lent, bounds, hist>>

\* A read with the client's address in its context.
BeginRead(w, c) ==
    /\ At(w, "idle")
    /\ Count("jobs", MaxJobs)
    /\ job' = [job EXCEPT ![w] = [pc |-> "check", cid |-> c, known |-> TRUE]]
    /\ UNCHANGED <<open, cleanup, requests, limiterOf, buckets, global, denied, queue, used, lent, hist>>

\* Mutant of CheckGroup: the answer of the quota service is not looked at.
CheckNothing(w) ==
    /\ At(w, "check")
    /\ Go(w, "fetch")
    /\ UNCHANGED <<open, cleanup, requests, limiterOf, buckets, global, denied, queue, used, lent, bounds, hist>>

HasRoom(a) == used[a] + 1 <= Limit

\* One pinner with room is enough, whoever will be billed; nothing is reserved.
CheckGroup(w) ==
    LET c == job[w].cid IN
    /\ At(w, "check")
    /\ \/ /\ \E a \in Pinners[c] : HasRoom(a)
          /\ lent' = IF HasRoom(Uploader[c]) THEN lent ELSE [lent EXCEPT ![Uploader[c]] = @ + 1]
          /\ Go(w, "fetch")
       \/ /\ \A a \in Pinners[c] : ~HasRoom(a)
          /\ job' = [job EXCEPT ![w] = Idle] /\ UNCHANGED lent
    /\ UNCHANGED <<open, cleanup, requests, limiterOf, buckets, global, denied, queue, used, bounds, hist>>

\* A check that fails counts as passed.
CheckGroupFails(w) ==
    /\ At(w, "check")
    /\ Count("faults", MaxFaults)
    /\ Go(w, "fetch")
    /\ UNCHANGED <<open, cleanup, requests, limiterOf, buckets, global, denied, queue, used, lent, hist>>

\* The block or its upload cannot be had: no event.
FetchFails(w) ==
    /\ At(w, "fetch")
    /\ job' = [job EXCEPT ![w] = Idle]
    /\ UNCHANGED <<open, cleanup, requests, limiterOf, buckets, global, denied, queue, used, lent, bounds, hist>>

\* GetAndRemoveRandomPeer: any of the addresses, which is removed.
TakePeer(c, ip) == requests' = [requests EXCEPT ![c] = @ \ {ip}]

\* The download is billed to the uploader, with an address that wants the block
\* if the client's is not known, with none if there is none.
EmitDownload(w) ==
    LET c == job[w].cid IN
    /\ At(w, "fetch")
    /\ used' = [used EXCEPT ![Uploader[c]] = @ + 1]
    /\ \/ /\ ~job[w].known
          /\ \E ip \in requests[c] : TakePeer(c, ip)
       \/ /\ job[w].known \/ requests[c] = {}
          /\ UNCHANGED requests
    /\ job' = [job EXCEPT ![w] = Idle]
    /\ UNCHANGED <<open, cleanup, limiterOf, buckets, global, denied, queue, lent, bounds, hist>>

(***************************************************************************)
(* Connections                                                             *)
(***************************************************************************)
\* A connection closes; both listeners are to be called.
Disconnect(n) ==
    /\ n \in open
    /\ Count("closes", MaxCloses)
    /\ open' = open \ {n}
    /\ cleanup' = cleanup \cup {<<n, "tracker">>, <<n, "filter">>}
    /\ UNCHANGED <<requests, limiterOf, buckets, global, denied, queue, job, used, lent, hist>>

\* The peers of which a message is being processed.
InProcess == {job[w].peer : w \in {v \in Workers : "peer" \in DOMAIN job[v]}}

\* Mutant of RemovePeerFromAll: the search ends at the first block found.
RemovePeerFromOne(ip) ==
    LET found == {c \in Cids : ip \in requests[c]} IN
    IF found = {} THEN requests
    ELSE [requests EXCEPT ![CHOOSE c \in found : TRUE] = @ \ {ip}]

RemovePeerFromAll(ip) == [c \in Cids |-> requests[c] \ {ip}]

HandlePeerDisconnected(n) ==
    /\ <<n, "tracker">> \in cleanup
    /\ cleanup' = cleanup \ {<<n, "tracker">>}
    /\ requests' = IF n.ip = NoIP THEN requests ELSE RemovePeerFromAll(n.ip)
    /\ hist' = [hist EXCEPT !.raced = @ \cup InProcess]
    /\ UNCHANGED <<open, limiterOf, buckets, global, denied, queue, job, used, lent, bounds>>

RemovePeerLimiter(n) ==
    /\ <<n, "filter">> \in cleanup
    /\ cleanup' = cleanup \ {<<n, "filter">>}
    /\ limiterOf' = [limiterOf EXCEPT ![n.peer] = 0]
    /\ denied' = denied \ {n.peer}
    /\ hist' = [hist EXCEPT !.raced = @ \cup InProcess, !.resets[n.peer] = @ + 1]
    /\ UNCHANGED <<open, requests, buckets, global, queue, job, used, lent, bounds>>

(***************************************************************************)
(* The specification                                                       *)
(***************************************************************************)
Init ==
    /\ open = Conns /\ cleanup = {}
    /\ requests = [c \in Cids |-> {}]
    /\ limiterOf = [p \in Peers |-> 0]
    /\ buckets = <<>> /\ global = GlobalBurst
    /\ denied = {}
    /\ queue = <<>>
    /\ job = [w \in Workers |-> Idle]
    /\ used \in [Accounts -> 0..Limit] /\ lent = [a \in Accounts |-> 0]
    /\ bounds = [jobs |-> 0, closes |-> 0, refills |-> 0, faults |-> 0]
    /\ hist = [allowed |-> [p \in Peers |-> 0],   \* requests passed by a peer's limiters
               passed |-> 0,                      \* and by the limiters of all peers
               resets |-> [p \in Peers |-> 0],    \* limiters removed
               raced |-> {}]    \* peers in process when a listener ran

Next ==
    \/ \E w \in Workers :
        \/ \E n \in Conns, c \in Cids : Receive(w, n, c)
        \/ MessageReceived(w)
        \/ TrackWants(w)
        \/ Allow(w)
        \/ LookupLimiter(w)
        \/ CreateLimiter(w)
        \/ TakeToken(w)
        \/ BeginTask(w)
        \/ \E c \in Cids : BeginRead(w, c)
        \/ CheckGroup(w)
        \/ CheckGroupFails(w)
        \/ FetchFails(w)
        \/ EmitDownload(w)
    \/ Refill
    \/ \E n \in Conns :
        \/ Disconnect(n)
        \/ HandlePeerDisconnected(n)
        \/ RemovePeerLimiter(n)

Spec == Init /\ [][Next]_vars

(***************************************************************************)
(* Properties                                                              *)
(***************************************************************************)
\* "to prevent ghost wants from accumulating over time" (bitswap_tracer.go): a
\* peer that is gone leaves no want, no limiter and no count behind, unless a
\* message of it was being processed when a listener ran.
NothingLeftBehind ==
    LET gone(conns) ==
            /\ open \cap conns = {}
            /\ {x[1] : x \in cleanup} \cap conns = {}
            /\ {n.peer : n \in conns} \cap (hist.raced \cup InProcess) = {}
    IN  /\ \A p \in Peers : gone({n \in Conns : n.peer = p}) =>
              limiterOf[p] = 0 /\ p \notin denied
        /\ \A ip \in Addrs : gone({n \in Conns : n.ip = ip}) =>
              \A c \in Cids : ip \notin requests[c]

\* WantBlockFilter: concurrent messages get no more than the bursts and what
\* time has added; a peer gets a burst anew with every connection it closes.
LimitsHold ==
    /\ \A p \in Peers :
          hist.allowed[p] <= (1 + hist.resets[p]) * (PeerBurst + bounds.refills)
    /\ hist.passed <= GlobalBurst + bounds.refills

\* BlockStore.Get: the check is not a reservation, so an account may be billed
\* for more than its quota, but by no more than the reads that run together, the
\* checks that failed, and the reads that were let through although it had no
\* room, because another pinner of its upload had; these alone have no limit.
OverrunIsBounded ==
    \A a \in Accounts :
        LET passed == {w \in Workers : At(w, "fetch") /\ Uploader[job[w].cid] = a} IN
        used[a] + Cardinality(passed) <= Limit + Cardinality(Workers) - 1 + bounds.faults + lent[a]
=============================================================================
