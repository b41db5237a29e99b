------------------------- MODULE BitswapServingProofs -------------------------
(***************************************************************************)
(* Proofs about BitswapServing for any goroutines, peers, connections and  *)
(* blocks: the types, that peers that are gone leave nothing behind, that  *)
(* concurrent messages get no more than the limiters grant, and how far    *)
(* reads that run together overrun the quota of the account they are billed *)
(* to.                                                                     *)
(***************************************************************************)
EXTENDS BitswapServing, FiniteSetTheorems, TLAPS

(* What a goroutine has at hand: a message until the engine has it or the   *)
(* filter denies it, or a block to read (BitswapTracer, WantBlockFilter,    *)
(* BlockStore.Get).                                                         *)
Traced == [pc : {"trace", "filter", "lookup"}, peer : Peers, cid : Cids]
Tracked == [pc : {"add", "filter", "lookup"}, peer : Peers, cid : Cids, ip : Addrs]
Limited == [pc : {"create", "take"}, peer : Peers, cid : Cids, limiter : Nat]
Reading == [pc : {"check", "fetch"}, cid : Cids, known : BOOLEAN]
Job == [pc : {"idle"}] \cup Traced \cup Tracked \cup Limited \cup Reading

Bounds == [jobs : Nat, closes : Nat, refills : Nat, faults : Nat]
History == [allowed : [Peers -> Nat], passed : Nat, resets : [Peers -> Nat], raced : SUBSET Peers]

TypeOK ==
    /\ open \subseteq Conns
    /\ cleanup \subseteq Conns \X {"tracker", "filter"}
    /\ requests \in [Cids -> SUBSET Addrs]
    /\ limiterOf \in [Peers -> 0..Len(buckets)]
    /\ buckets \in Seq(0..PeerBurst) /\ global \in 0..GlobalBurst
    /\ denied \subseteq Peers
    /\ queue \in Seq(Cids)
    /\ job \in [Workers -> Job]
    /\ \A w \in Workers : At(w, "take") => job[w].limiter \in 1..Len(buckets)
    /\ used \in [Accounts -> Nat] /\ lent \in [Accounts -> Nat]
    /\ bounds \in Bounds /\ hist \in History

(* The places of a message.                                                 *)
Message == {"trace", "add", "filter", "lookup", "create", "take"}

(* A connection of the peer is open or its listener is still to be called,  *)
(* or a listener has run into a message of the peer.                        *)
Held(p) ==
    \/ p \in hist.raced
    \/ \E n \in Conns : n.peer = p /\ (n \in open \/ <<n, "filter">> \in cleanup)

Tracks(p, ip) ==
    \E n \in Conns : /\ n.peer = p /\ n.ip = ip
                     /\ p \in hist.raced \/ n \in open \/ <<n, "tracker">> \in cleanup

MessageHeld(w) ==
    /\ job[w].pc \in Message => Held(job[w].peer)
    /\ job[w].pc = "add" => Tracks(job[w].peer, job[w].ip)

(* Whatever there is of a peer, somebody is still to clear it up: a message *)
(* in process, a limiter, a count, an address about to be noted or noted    *)
(* (bitswap_tracer.go, want_filter.go).                                     *)
BehindInv ==
    /\ \A w \in Workers : MessageHeld(w)
    /\ \A p \in Peers : limiterOf[p] # 0 \/ p \in denied => Held(p)
    /\ \A c \in Cids : \A ip \in requests[c] : \E p \in Peers : Tracks(p, ip)

(* The limiters made for a peer, and the tokens that were taken from them,  *)
(* each as the number it has among those a limiter has granted.             *)
LimitersOf(maker, p) == {l \in DOMAIN maker : maker[l] = p}
Spent(maker, tokens, room, p) ==
    {x \in LimitersOf(maker, p) \X (1..room) : x[2] + tokens[x[1]] <= room}

(* A limiter is used for the peer it was made for; a peer has had one more  *)
(* than were removed, if it has one; and every request that passed took a   *)
(* token of one of them (getPeerLimiter, RemovePeerLimiter, Allow).         *)
MadeFor(maker) ==
    /\ \A p \in Peers : limiterOf[p] # 0 => maker[limiterOf[p]] = p
    /\ \A w \in Workers : job[w].pc = "take" => maker[job[w].limiter] = job[w].peer
Grants(maker) ==
    \A p \in Peers :
        /\ Cardinality(LimitersOf(maker, p)) <= hist.resets[p] + (IF limiterOf[p] = 0 THEN 0 ELSE 1)
        /\ hist.allowed[p] <= Cardinality(Spent(maker, buckets, PeerBurst + bounds.refills, p))
PeerLimitInv == \E maker \in [1..Len(buckets) -> Peers] : MadeFor(maker) /\ Grants(maker)

-----------------------------------------------------------------------------
(* Types.                                                                   *)

(* The parts of a job are what its place says, and only a message has a     *)
(* peer.                                                                    *)
LEMMA JobParts ==
  ASSUME NEW j \in Job
  PROVE  /\ j.pc \in Message => j.peer \in Peers /\ j.cid \in Cids
         /\ j.pc \in {"check", "fetch"} => j.cid \in Cids /\ j.known \in BOOLEAN
         /\ j.pc = "add" => j.ip \in Addrs
         /\ j.pc \in {"create", "take"} => j.limiter \in Nat
         /\ j.pc \in Message \cup {"idle", "check", "fetch"}
         /\ "peer" \in DOMAIN j <=> j.pc \in Message
  BY DEF Job, Traced, Tracked, Limited, Reading, Message

(* A job that ends, and one that begins or goes on.                         *)
LEMMA NewJobs ==
  /\ Idle \in Job /\ Idle.pc = "idle"
  /\ \A p \in Peers, c \in Cids : [pc |-> "trace", peer |-> p, cid |-> c] \in Job
  /\ \A p \in Peers, c \in Cids, ip \in Addrs : [pc |-> "add", peer |-> p, cid |-> c, ip |-> ip] \in Job
  /\ \A pc \in {"create", "take"}, p \in Peers, c \in Cids, l \in Nat :
        [pc |-> pc, peer |-> p, cid |-> c, limiter |-> l] \in Job
  /\ \A c \in Cids, k \in BOOLEAN : [pc |-> "check", cid |-> c, known |-> k] \in Job
  BY DEF Job, Traced, Tracked, Limited, Reading, Idle

(* A job that goes on keeps its parts.                                      *)
LEMMA OldJobs ==
  ASSUME NEW j \in Job
  PROVE  /\ j.pc \in {"trace", "add"} => [j EXCEPT !.pc = "filter"] \in Job
         /\ j.pc = "filter" => [j EXCEPT !.pc = "lookup"] \in Job
         /\ j.pc = "check" => [j EXCEPT !.pc = "fetch"] \in Job
         /\ j.pc = "create" => \A l \in Nat : [j EXCEPT !.pc = "take", !.limiter = l] \in Job
<1>1. CASE j \in [pc : {"idle"}]
  BY <1>1
<1>2. CASE j \in Traced
  BY <1>2 DEF Job, Traced
<1>3. CASE j \in Tracked
  BY <1>3 DEF Job, Tracked
<1>4. CASE j \in Limited
  BY <1>4 DEF Job, Limited
<1>5. CASE j \in Reading
  BY <1>5 DEF Job, Reading
<1> QED
  BY <1>1, <1>2, <1>3, <1>4, <1>5 DEF Job

(* One goroutine goes from one place to another, with the same message if   *)
(* it has one at both; the others stay where they are.                      *)
Turn(w, from, to) ==
    /\ job[w].pc \in from /\ job'[w].pc \in to
    /\ job' \in [Workers -> Job]
    /\ \A v \in Workers \ {w} : job'[v] = job[v]
    /\ job[w].pc \in Message /\ job'[w].pc \in Message => job'[w].peer = job[w].peer

(* A new value of one goroutine's job leaves the others as they are.        *)
LEMMA TurnOf ==
  ASSUME TypeOK, NEW w \in Workers, NEW j \in Job, job' = [job EXCEPT ![w] = j]
  PROVE  /\ job'[w] = j /\ job' \in [Workers -> Job]
         /\ \A v \in Workers \ {w} : job'[v] = job[v]
  BY DEF TypeOK

(* The places that the steps of a message lead to (MessageReceived, Allow,  *)
(* getPeerLimiter).                                                         *)
LEMMA MessageTurns ==
  ASSUME TypeOK, NEW w \in Workers
  PROVE  /\ \A n \in Conns, c \in Cids : Receive(w, n, c) => Turn(w, {"idle"}, {"trace"}) /\ job'[w].peer = n.peer
         /\ MessageReceived(w) =>
               /\ Turn(w, {"trace"}, {"add", "filter"})
               /\ job'[w].pc = "add" => \E n \in open : n.peer = job[w].peer /\ n.ip = job'[w].ip
         /\ TrackWants(w) => Turn(w, {"add"}, {"filter"})
         /\ Allow(w) => Turn(w, {"filter"}, {"idle", "lookup"})
         /\ LookupLimiter(w) =>
               /\ Turn(w, {"lookup"}, {"create", "take"})
               /\ job'[w].pc = "take" => job'[w].limiter = limiterOf[job[w].peer] /\ job'[w].limiter # 0
         /\ CreateLimiter(w) =>
               /\ Turn(w, {"create"}, {"take"})
               /\ job'[w].limiter = limiterOf'[job[w].peer]
         /\ TakeToken(w) => Turn(w, {"take"}, {"idle"})
<1> DEFINE j == job[w]
<1> j \in Job
  BY DEF TypeOK
<1>0. j.pc \in Message => j.peer \in Peers /\ j.cid \in Cids
  BY JobParts
<1>1. ASSUME NEW n \in Conns, NEW c \in Cids, Receive(w, n, c)
      PROVE  Turn(w, {"idle"}, {"trace"}) /\ job'[w].peer = n.peer
  <2>1. n.peer \in Peers
    BY DEF Peers
  <2> DEFINE k == [pc |-> "trace", peer |-> n.peer, cid |-> c]
  <2>2. k \in Job /\ k.pc = "trace" /\ k.peer = n.peer
    BY <2>1, NewJobs
  <2>3. job' = [job EXCEPT ![w] = k] /\ j.pc = "idle"
    BY <1>1 DEF Receive, At
  <2> HIDE DEF k
  <2> QED
    BY <2>2, <2>3, TurnOf DEF Turn, Message
<1>2. ASSUME MessageReceived(w)
      PROVE  /\ Turn(w, {"trace"}, {"add", "filter"})
             /\ job'[w].pc = "add" => \E n \in open : n.peer = job[w].peer /\ n.ip = job'[w].ip
  <2>1. j.pc = "trace" /\ j.peer \in Peers /\ j.cid \in Cids
    BY <1>0, <1>2 DEF MessageReceived, At, Message
  <2>2. CASE Go(w, "filter")
    <3> DEFINE k == [j EXCEPT !.pc = "filter"]
    <3>1. k \in Job /\ k.pc = "filter" /\ k.peer = j.peer
      BY <2>1, OldJobs DEF Job, Traced, Tracked, Limited, Reading
    <3>2. job' = [job EXCEPT ![w] = k]
      BY <2>2 DEF Go
    <3> HIDE DEF k
    <3> QED
      BY <2>1, <3>1, <3>2, TurnOf DEF Turn
  <2>3. ASSUME NEW n \in open, n.peer = j.peer, n.ip # NoIP,
               job' = [job EXCEPT ![w] = [pc |-> "add", peer |-> j.peer, cid |-> j.cid, ip |-> n.ip]]
        PROVE  /\ Turn(w, {"trace"}, {"add", "filter"})
               /\ job'[w].pc = "add" => \E m \in open : m.peer = job[w].peer /\ m.ip = job'[w].ip
    <3> DEFINE k == [pc |-> "add", peer |-> j.peer, cid |-> j.cid, ip |-> n.ip]
    <3>1. n.ip \in Addrs
      BY <2>3 DEF Addrs, TypeOK
    <3>2. k \in Job /\ k.pc = "add" /\ k.peer = j.peer /\ k.ip = n.ip
      BY <2>1, <3>1, NewJobs
    <3>3. job' = [job EXCEPT ![w] = k]
      BY <2>3
    <3> HIDE DEF k
    <3>4. Turn(w, {"trace"}, {"add", "filter"}) /\ job'[w] = k
      BY <2>1, <3>2, <3>3, TurnOf DEF Turn
    <3> QED
      BY <2>3, <3>2, <3>4
  <2>4. \/ Go(w, "filter")
        \/ \E n \in open : /\ n.peer = j.peer /\ n.ip # NoIP
                           /\ job' = [job EXCEPT ![w] = [pc |-> "add", peer |-> j.peer, cid |-> j.cid, ip |-> n.ip]]
    BY <1>2 DEF MessageReceived
  <2>5. CASE Go(w, "filter")
    <3>1. job'[w].pc = "filter"
      BY <2>1, <2>5 DEF Go, TypeOK, Job, Traced, Tracked, Limited, Reading
    <3> QED
      BY <2>2, <2>5, <3>1
  <2> QED
    BY <2>3, <2>4, <2>5
<1>3. ASSUME TrackWants(w) PROVE Turn(w, {"add"}, {"filter"})
  <2> DEFINE k == [j EXCEPT !.pc = "filter"]
  <2>1. j.pc = "add" /\ job' = [job EXCEPT ![w] = k]
    BY <1>3 DEF TrackWants, Go, At
  <2>2. k \in Job /\ k.pc = "filter" /\ k.peer = j.peer
    BY <2>1, OldJobs DEF Job, Traced, Tracked, Limited, Reading
  <2> HIDE DEF k
  <2> QED
    BY <2>1, <2>2, TurnOf DEF Turn
<1>4. ASSUME Allow(w) PROVE Turn(w, {"filter"}, {"idle", "lookup"})
  <2> DEFINE k == [j EXCEPT !.pc = "lookup"]
  <2>1. j.pc = "filter" /\ (job' = [job EXCEPT ![w] = k] \/ job' = [job EXCEPT ![w] = Idle])
    BY <1>4 DEF Allow, Go, At, Enqueue, Deny
  <2>2. k \in Job /\ k.pc = "lookup" /\ k.peer = j.peer
    BY <2>1, OldJobs DEF Job, Traced, Tracked, Limited, Reading
  <2> HIDE DEF k
  <2>3. CASE job' = [job EXCEPT ![w] = k]
    BY <2>1, <2>2, <2>3, TurnOf DEF Turn
  <2>4. CASE job' = [job EXCEPT ![w] = Idle]
    BY <2>1, <2>4, NewJobs, TurnOf DEF Turn, Message
  <2> QED
    BY <2>1, <2>3, <2>4
<1>5. ASSUME LookupLimiter(w)
      PROVE  /\ Turn(w, {"lookup"}, {"create", "take"})
             /\ job'[w].pc = "take" => job'[w].limiter = limiterOf[job[w].peer] /\ job'[w].limiter # 0
  <2> DEFINE l == limiterOf[j.peer]
             k == [pc |-> IF l = 0 THEN "create" ELSE "take", peer |-> j.peer, cid |-> j.cid, limiter |-> l]
  <2>1. j.pc = "lookup" /\ job' = [job EXCEPT ![w] = k]
    BY <1>5 DEF LookupLimiter, At
  <2>2. j.peer \in Peers /\ j.cid \in Cids /\ l \in Nat
    BY <1>0, <2>1 DEF Message, TypeOK
  <2>3. /\ k \in Job /\ k.peer = j.peer /\ k.limiter = l
        /\ k.pc = IF l = 0 THEN "create" ELSE "take"
    BY <2>2, NewJobs
  <2> HIDE DEF k
  <2>4. Turn(w, {"lookup"}, {"create", "take"}) /\ job'[w] = k
    BY <2>1, <2>3, TurnOf DEF Turn
  <2> QED
    BY <2>3, <2>4
<1>6. ASSUME CreateLimiter(w)
      PROVE  /\ Turn(w, {"create"}, {"take"})
             /\ job'[w].limiter = limiterOf'[job[w].peer]
  <2> DEFINE l == IF limiterOf[j.peer] # 0 THEN limiterOf[j.peer] ELSE Len(buckets) + 1
             k == [j EXCEPT !.pc = "take", !.limiter = l]
  <2>1. /\ j.pc = "create" /\ job' = [job EXCEPT ![w] = k]
        /\ limiterOf' = [limiterOf EXCEPT ![j.peer] = l]
    BY <1>6, j \in Job DEF CreateLimiter, At, TypeOK
  <2>2. j.peer \in Peers /\ l \in Nat
    BY <1>0, <2>1 DEF Message, TypeOK
  <2>3. k \in Job /\ k.pc = "take" /\ k.peer = j.peer /\ k.limiter = l
    BY <2>1, <2>2, OldJobs DEF Job, Traced, Tracked, Limited, Reading
  <2>4. limiterOf'[j.peer] = l
    BY <2>1, <2>2 DEF TypeOK
  <2> HIDE DEF k
  <2>5. Turn(w, {"create"}, {"take"}) /\ job'[w] = k
    BY <2>1, <2>3, TurnOf DEF Turn
  <2> QED
    BY <2>3, <2>4, <2>5
<1>7. ASSUME TakeToken(w) PROVE Turn(w, {"take"}, {"idle"})
  <2>1. j.pc = "take" /\ job' = [job EXCEPT ![w] = Idle]
    BY <1>7 DEF TakeToken, At, Enqueue, Deny
  <2> QED
    BY <2>1, NewJobs, TurnOf DEF Turn, Message
<1> QED
  BY <1>1, <1>2, <1>3, <1>4, <1>5, <1>6, <1>7

(* The places that the steps of a read lead to (BlockStore.Get).            *)
LEMMA ReadTurns ==
  ASSUME TypeOK, NEW w \in Workers
  PROVE  /\ BeginTask(w) \/ (\E c \in Cids : BeginRead(w, c)) => Turn(w, {"idle"}, {"check"})
         /\ CheckGroup(w) => Turn(w, {"check"}, {"fetch", "idle"})
         /\ CheckGroupFails(w) => Turn(w, {"check"}, {"fetch"})
         /\ FetchFails(w) \/ EmitDownload(w) => Turn(w, {"fetch"}, {"idle"})
<1> DEFINE j == job[w]
<1> j \in Job
  BY DEF TypeOK
<1>1. ASSUME BeginTask(w) \/ (\E c \in Cids : BeginRead(w, c))
      PROVE  Turn(w, {"idle"}, {"check"})
  <2>1. PICK c \in Cids, k \in BOOLEAN : job' = [job EXCEPT ![w] = [pc |-> "check", cid |-> c, known |-> k]]
    <3>1. CASE BeginTask(w)
      <4>1. Head(queue) \in Cids
        BY <3>1 DEF BeginTask, TypeOK
      <4> QED
        BY <3>1, <4>1 DEF BeginTask
    <3>2. CASE \E c \in Cids : BeginRead(w, c)
      BY <3>2 DEF BeginRead
    <3> QED
      BY <1>1, <3>1, <3>2
  <2>2. j.pc = "idle"
    BY <1>1 DEF BeginTask, BeginRead, At
  <2> DEFINE r == [pc |-> "check", cid |-> c, known |-> k]
  <2>3. r \in Job /\ r.pc = "check" /\ job' = [job EXCEPT ![w] = r]
    BY <2>1, NewJobs
  <2> HIDE DEF r
  <2> QED
    BY <2>2, <2>3, TurnOf DEF Turn, Message
<1>2. ASSUME CheckGroup(w) \/ CheckGroupFails(w)
      PROVE  /\ CheckGroup(w) => Turn(w, {"check"}, {"fetch", "idle"})
             /\ CheckGroupFails(w) => Turn(w, {"check"}, {"fetch"})
  <2> DEFINE k == [j EXCEPT !.pc = "fetch"]
  <2>1. /\ j.pc = "check"
        /\ CheckGroupFails(w) => job' = [job EXCEPT ![w] = k]
        /\ job' = [job EXCEPT ![w] = k] \/ job' = [job EXCEPT ![w] = Idle]
    BY <1>2 DEF CheckGroup, CheckGroupFails, Go, At
  <2>2. k \in Job /\ k.pc = "fetch"
    BY <2>1, OldJobs DEF Job, Traced, Tracked, Limited, Reading
  <2> HIDE DEF k
  <2>3. CASE job' = [job EXCEPT ![w] = k]
    BY <2>1, <2>2, <2>3, TurnOf DEF Turn, Message
  <2>4. CASE ~CheckGroupFails(w) /\ job' = [job EXCEPT ![w] = Idle]
    BY <2>1, <2>4, NewJobs, TurnOf DEF Turn, Message
  <2> QED
    BY <2>1, <2>3, <2>4
<1>3. ASSUME FetchFails(w) \/ EmitDownload(w)
      PROVE  Turn(w, {"fetch"}, {"idle"})
  <2>1. j.pc = "fetch" /\ job' = [job EXCEPT ![w] = Idle]
    BY <1>3 DEF FetchFails, EmitDownload, At
  <2> QED
    BY <2>1, NewJobs, TurnOf DEF Turn, Message
<1> QED
  BY <1>1, <1>2, <1>3

(* The smaller of two numbers.                                              *)
LEMMA MinOfTwo ==
  ASSUME NEW a \in Nat, NEW b \in Nat
  PROVE  Min({a, b}) = IF a <= b THEN a ELSE b
<1> DEFINE least(x) == x \in {a, b} /\ \A y \in {a, b} : x =< y
<1>1. least(IF a <= b THEN a ELSE b)
  OBVIOUS
<1>2. \A x, y : least(x) /\ least(y) => x = y
  OBVIOUS
<1>3. Min({a, b}) = CHOOSE x : least(x)
  BY Zenon DEF Min
<1>4. least(CHOOSE x : least(x))
  BY <1>1
<1> HIDE DEF least
<1> QED
  BY <1>1, <1>2, <1>3, <1>4

(* Nothing is made up at the start: no jobs, limiters, wants or counts.     *)
LEMMA InitType == Init => TypeOK
<1> SUFFICES ASSUME Init PROVE TypeOK
  OBVIOUS
<1>1. job \in [Workers -> Job] /\ \A w \in Workers : job[w].pc = "idle"
  BY NewJobs DEF Init
<1>2. limiterOf \in [Peers -> 0..Len(buckets)] /\ buckets \in Seq(0..PeerBurst)
  BY DEF Init
<1>3. hist \in History /\ bounds \in Bounds
  BY DEF Init, History, Bounds
<1> QED
  BY <1>1, <1>2, <1>3, BurstAssumption DEF Init, TypeOK, At

(* The limiter a goroutine is about to ask exists, as the limiters that     *)
(* were removed from the map do.                                            *)
LEMMA TakersKept ==
  ASSUME TypeOK, NEW w \in Workers, NEW from, NEW to, Turn(w, from, to),
         Len(buckets') \in Nat, Len(buckets) <= Len(buckets'),
         job'[w].pc = "take" => job'[w].limiter \in 1..Len(buckets')
  PROVE  /\ job' \in [Workers -> Job]
         /\ \A v \in Workers : At(v, "take")' => job'[v].limiter \in 1..Len(buckets')
<1>1. \A v \in Workers \ {w} : job'[v] = job[v]
  BY DEF Turn
<1>2. ASSUME NEW v \in Workers \ {w}, job[v].pc = "take"
      PROVE  job[v].limiter \in 1..Len(buckets')
  BY <1>2 DEF TypeOK, At
<1> QED
  BY <1>1, <1>2 DEF Turn, At

(* A turn that does not end before a limiter keeps the types of the jobs.   *)
LEMMA NoTaker ==
  ASSUME TypeOK, NEW w \in Workers, NEW from, NEW to, Turn(w, from, to), "take" \notin to,
         UNCHANGED buckets
  PROVE  /\ job' \in [Workers -> Job]
         /\ \A v \in Workers : At(v, "take")' => job'[v].limiter \in 1..Len(buckets')
<1>1. Len(buckets) \in Nat
  BY DEF TypeOK
<1> QED
  BY <1>1, TakersKept DEF Turn

(* What a sequence has is of its type.                                      *)
LEMMA ElementOf ==
  ASSUME NEW S, NEW s \in Seq(S), NEW i \in 1..Len(s)
  PROVE  s[i] \in S
  OBVIOUS

(* The types of the parts of the state.                                     *)
LEMMA Types ==
  ASSUME TypeOK
  PROVE  /\ limiterOf \in [Peers -> 0..Len(buckets)] /\ Len(buckets) \in Nat
         /\ buckets \in Seq(0..PeerBurst) /\ \A l \in 1..Len(buckets) : buckets[l] \in 0..PeerBurst
         /\ global \in 0..GlobalBurst
         /\ denied \subseteq Peers /\ queue \in Seq(Cids)
         /\ requests \in [Cids -> SUBSET Addrs]
         /\ used \in [Accounts -> Nat] /\ lent \in [Accounts -> Nat]
         /\ bounds \in Bounds /\ hist \in History
         /\ open \subseteq Conns /\ cleanup \subseteq Conns \X {"tracker", "filter"}
         /\ PeerBurst \in Nat /\ GlobalBurst \in Nat
<1>1. buckets \in Seq(0..PeerBurst)
  BY DEF TypeOK
<1>2. Len(buckets) \in Nat /\ \A l \in 1..Len(buckets) : buckets[l] \in 0..PeerBurst
  <2> DEFINE S == 0..PeerBurst
  <2>1. buckets \in Seq(S)
    BY <1>1
  <2> HIDE DEF S
  <2>2. Len(buckets) \in Nat /\ \A l \in 1..Len(buckets) : buckets[l] \in S
    BY <2>1, ElementOf
  <2> QED
    BY <2>2 DEF S
<1> QED
  BY <1>1, <1>2, BurstAssumption DEF TypeOK

(* Counting keeps a type.                                                   *)
LEMMA Counting ==
  ASSUME bounds \in Bounds, NEW kind \in {"jobs", "closes", "refills", "faults"}, NEW max, Count(kind, max)
  PROVE  /\ bounds' \in Bounds
         /\ bounds'.refills = IF kind = "refills" THEN bounds.refills + 1 ELSE bounds.refills
         /\ bounds'.faults = IF kind = "faults" THEN bounds.faults + 1 ELSE bounds.faults
<1>1. kind = "jobs" \/ kind = "closes" \/ kind = "refills" \/ kind = "faults"
  OBVIOUS
<1>2. bounds' = [bounds EXCEPT ![kind] = bounds[kind] + 1]
  BY DEF Count
<1> QED
  BY <1>1, <1>2 DEF Bounds

(* The steps of a message keep the types.                                   *)
LEMMA MessageTypes ==
  ASSUME TypeOK, NEW w \in Workers
  PROVE  /\ \A n \in Conns, c \in Cids : Receive(w, n, c) => TypeOK'
         /\ MessageReceived(w) => TypeOK'
         /\ TrackWants(w) => TypeOK'
         /\ Allow(w) => TypeOK'
         /\ LookupLimiter(w) => TypeOK'
<1>0. Len(buckets) \in Nat
  BY DEF TypeOK
<1>1. ASSUME NEW n \in Conns, NEW c \in Cids, Receive(w, n, c) PROVE TypeOK'
  <2>1. /\ job' \in [Workers -> Job]
        /\ \A v \in Workers : At(v, "take")' => job'[v].limiter \in 1..Len(buckets')
    BY <1>1, MessageTurns, NoTaker DEF Receive
  <2>2. bounds' \in Bounds
    BY <1>1, Types, Counting DEF Receive
  <2> QED
    BY <1>1, <2>1, <2>2 DEF Receive, TypeOK
<1>2. ASSUME MessageReceived(w) PROVE TypeOK'
  <2>1. /\ job' \in [Workers -> Job]
        /\ \A v \in Workers : At(v, "take")' => job'[v].limiter \in 1..Len(buckets')
    BY <1>2, MessageTurns, NoTaker DEF MessageReceived
  <2> QED
    BY <1>2, <2>1 DEF MessageReceived, TypeOK
<1>3. ASSUME TrackWants(w) PROVE TypeOK'
  <2>1. /\ job' \in [Workers -> Job]
        /\ \A v \in Workers : At(v, "take")' => job'[v].limiter \in 1..Len(buckets')
    BY <1>3, MessageTurns, NoTaker DEF TrackWants
  <2>2. job[w].ip \in Addrs
    BY <1>3, JobParts DEF TrackWants, At, TypeOK
  <2>3. requests' \in [Cids -> SUBSET Addrs]
    BY <1>3, <2>2 DEF TrackWants, AddRequest, TypeOK
  <2> QED
    BY <1>3, <2>1, <2>3 DEF TrackWants, TypeOK
<1>4. ASSUME Allow(w) PROVE TypeOK'
  <2>1. /\ job' \in [Workers -> Job]
        /\ \A v \in Workers : At(v, "take")' => job'[v].limiter \in 1..Len(buckets')
    BY <1>4, MessageTurns, NoTaker DEF Allow
  <2>2. job[w].peer \in Peers /\ job[w].cid \in Cids
    BY <1>4, JobParts DEF Allow, At, TypeOK, Message
  <2>3. queue' \in Seq(Cids) /\ denied' \subseteq Peers /\ global' \in 0..GlobalBurst
    <3>1. queue \in Seq(Cids) /\ denied \subseteq Peers /\ global \in 0..GlobalBurst /\ GlobalBurst \in Nat
      BY Types
    <3>2. queue' = queue \/ queue' = Append(queue, job[w].cid)
      BY <1>4 DEF Allow, Enqueue, Deny
    <3>3. denied' = denied \/ denied' = denied \cup {job[w].peer}
      BY <1>4 DEF Allow, Enqueue, Deny
    <3>4. global' = global \/ (global > 0 /\ global' = global - 1)
      BY <1>4 DEF Allow, Enqueue, Deny
    <3>5. queue' \in Seq(Cids)
      BY <2>2, <3>1, <3>2
    <3>6. denied' \subseteq Peers
      BY <2>2, <3>1, <3>3
    <3>7. global' \in 0..GlobalBurst
      BY <3>1, <3>4
    <3> QED
      BY <3>5, <3>6, <3>7
  <2> QED
    BY <1>4, <2>1, <2>3 DEF Allow, TypeOK
<1>5. ASSUME LookupLimiter(w) PROVE TypeOK'
  <2>1. job[w].peer \in Peers
    BY <1>5, JobParts DEF LookupLimiter, At, TypeOK, Message
  <2>2. job'[w].pc = "take" => job'[w].limiter \in 1..Len(buckets)
    BY <1>0, <1>5, <2>1, MessageTurns DEF TypeOK
  <2>3. /\ job' \in [Workers -> Job]
        /\ \A v \in Workers : At(v, "take")' => job'[v].limiter \in 1..Len(buckets')
    <3>1. Turn(w, {"lookup"}, {"create", "take"}) /\ buckets' = buckets
      BY <1>5, MessageTurns DEF LookupLimiter
    <3> QED
      BY <1>0, <2>2, <3>1, TakersKept
  <2> QED
    BY <1>5, <2>3 DEF LookupLimiter, TypeOK
<1> QED
  BY <1>1, <1>2, <1>3, <1>4, <1>5

(* So do the steps that touch the limiters.                                 *)
LEMMA LimiterTypes ==
  ASSUME TypeOK, NEW w \in Workers
  PROVE  /\ CreateLimiter(w) => TypeOK'
         /\ TakeToken(w) => TypeOK'
         /\ Refill => TypeOK'
<1>0. Len(buckets) \in Nat
  BY DEF TypeOK
<1>1. ASSUME CreateLimiter(w) PROVE TypeOK'
  <2> DEFINE p == job[w].peer
  <2>1. p \in Peers
    BY <1>1, JobParts DEF CreateLimiter, At, TypeOK, Message
  <2>2. CASE limiterOf[p] # 0
    <3>1. buckets' = buckets /\ limiterOf'[p] = limiterOf[p] /\ limiterOf' \in [Peers -> 0..Len(buckets)]
      BY <1>1, <2>1, <2>2 DEF CreateLimiter, TypeOK
    <3>2. limiterOf'[p] \in 1..Len(buckets')
      BY <1>0, <2>1, <2>2, <3>1
    <3>3. /\ job' \in [Workers -> Job]
          /\ \A v \in Workers : At(v, "take")' => job'[v].limiter \in 1..Len(buckets')
      BY <1>0, <1>1, <3>1, <3>2, MessageTurns, TakersKept
    <3> QED
      BY <1>1, <3>1, <3>3 DEF CreateLimiter, TypeOK
  <2>3. CASE limiterOf[p] = 0
    <3>1. /\ buckets' = Append(buckets, PeerBurst)
          /\ limiterOf' = [limiterOf EXCEPT ![p] = Len(buckets) + 1]
      BY <1>1, <2>3 DEF CreateLimiter
    <3>2. buckets' \in Seq(0..PeerBurst) /\ Len(buckets') = Len(buckets) + 1
      BY <3>1, BurstAssumption DEF TypeOK
    <3>3. limiterOf' \in [Peers -> 0..Len(buckets')] /\ limiterOf'[p] = Len(buckets')
      BY <1>0, <2>1, <3>1, <3>2 DEF TypeOK
    <3>4. /\ job' \in [Workers -> Job]
          /\ \A v \in Workers : At(v, "take")' => job'[v].limiter \in 1..Len(buckets')
      BY <1>0, <1>1, <3>2, <3>3, MessageTurns, TakersKept
    <3> QED
      BY <1>1, <3>2, <3>3, <3>4 DEF CreateLimiter, TypeOK
  <2> QED
    BY <2>2, <2>3
<1>2. ASSUME TakeToken(w) PROVE TypeOK'
  <2> DEFINE l == job[w].limiter
  <2>1. job[w].peer \in Peers /\ job[w].cid \in Cids /\ l \in 1..Len(buckets)
    BY <1>2, JobParts DEF TakeToken, At, TypeOK, Message
  <2>2. buckets[l] \in 0..PeerBurst
    BY <2>1, Types
  <2>3. buckets' \in Seq(0..PeerBurst) /\ Len(buckets') = Len(buckets)
    <3>1. CASE UNCHANGED buckets
      BY <3>1 DEF TypeOK
    <3>2. CASE buckets[l] > 0 /\ buckets' = [buckets EXCEPT ![l] = @ - 1]
      <4>1. buckets[l] - 1 \in 0..PeerBurst
        BY <2>2, <3>2, BurstAssumption
      <4> QED
        BY <2>1, <3>2, <4>1 DEF TypeOK
    <3> QED
      BY <1>2, <3>1, <3>2 DEF TakeToken
  <2>4. /\ job' \in [Workers -> Job]
        /\ \A v \in Workers : At(v, "take")' => job'[v].limiter \in 1..Len(buckets')
    <3>1. Turn(w, {"take"}, {"idle"}) /\ job'[w].pc # "take"
      BY <1>2, MessageTurns DEF Turn
    <3> QED
      BY <1>0, <2>3, <3>1, TakersKept
  <2>5. queue' \in Seq(Cids) /\ denied' \subseteq Peers
    <3>1. queue \in Seq(Cids) /\ denied \subseteq Peers
      BY Types
    <3>2. queue' = queue \/ queue' = Append(queue, job[w].cid)
      BY <1>2 DEF TakeToken, Enqueue, Deny
    <3>3. denied' = denied \/ denied' = denied \cup {job[w].peer}
      BY <1>2 DEF TakeToken, Enqueue, Deny
    <3>4. queue' \in Seq(Cids)
      BY <2>1, <3>1, <3>2
    <3> QED
      BY <2>1, <3>1, <3>3, <3>4
  <2>6. hist' \in History
    <3>1. hist' = hist \/ hist' = [hist EXCEPT !.allowed[job[w].peer] = @ + 1, !.passed = @ + 1]
      BY <1>2 DEF TakeToken
    <3> DEFINE allowed == [hist.allowed EXCEPT ![job[w].peer] = @ + 1]
    <3>2. hist \in History
      BY Types
    <3>3. allowed \in [Peers -> Nat] /\ hist.passed + 1 \in Nat
      BY <2>1, <3>2 DEF History
    <3>4. hist' = hist \/ hist' = [hist EXCEPT !.allowed = allowed, !.passed = hist.passed + 1]
      BY <3>1, <3>2 DEF History
    <3> HIDE DEF allowed
    <3> QED
      BY <3>2, <3>3, <3>4 DEF History
  <2>7. limiterOf' \in [Peers -> 0..Len(buckets')]
    BY <1>2, <2>3 DEF TakeToken, TypeOK
  <2> QED
    BY <1>2, <2>3, <2>4, <2>5, <2>6, <2>7 DEF TakeToken, TypeOK
<1>3. ASSUME Refill PROVE TypeOK'
  <2>1. /\ global' = Min({GlobalBurst, global + 1})
        /\ buckets' = [l \in 1..Len(buckets) |-> Min({PeerBurst, buckets[l] + 1})]
    BY <1>3 DEF Refill, TypeOK
  <2>2. global' \in 0..GlobalBurst
    <3>1. global \in 0..GlobalBurst /\ GlobalBurst \in Nat /\ global + 1 \in Nat
      BY Types
    <3>2. global' = IF GlobalBurst <= global + 1 THEN GlobalBurst ELSE global + 1
      BY <2>1, <3>1, MinOfTwo
    <3> QED
      BY <3>1, <3>2
  <2>3. ASSUME NEW l \in 1..Len(buckets)
        PROVE  Min({PeerBurst, buckets[l] + 1}) \in 0..PeerBurst
    <3>1. buckets[l] \in 0..PeerBurst /\ PeerBurst \in Nat /\ buckets[l] + 1 \in Nat
      BY Types
    <3>2. Min({PeerBurst, buckets[l] + 1}) = IF PeerBurst <= buckets[l] + 1 THEN PeerBurst ELSE buckets[l] + 1
      BY <3>1, MinOfTwo
    <3> QED
      BY <3>1, <3>2
  <2>4. buckets' \in Seq(0..PeerBurst) /\ Len(buckets') = Len(buckets)
    BY <1>0, <2>1, <2>3
  <2>5. bounds' \in Bounds
    BY <1>3, Types, Counting DEF Refill
  <2> QED
    BY <1>3, <2>2, <2>4, <2>5 DEF Refill, TypeOK, At
<1> QED
  BY <1>1, <1>2, <1>3

(* One account's count goes up.                                             *)
LEMMA MoreOfOne ==
  ASSUME NEW S, NEW f \in [S -> Nat], NEW u
  PROVE  [f EXCEPT ![u] = f[u] + 1] \in [S -> Nat]
<1>1. CASE u \in S
  BY <1>1
<1>2. CASE u \notin S
  BY <1>2
<1> QED
  BY <1>1, <1>2

(* The steps of a read keep the types.                                      *)
LEMMA ReadTypes ==
  ASSUME TypeOK, NEW w \in Workers
  PROVE  /\ BeginTask(w) \/ (\E c \in Cids : BeginRead(w, c)) => TypeOK'
         /\ CheckGroup(w) \/ CheckGroupFails(w) \/ FetchFails(w) \/ EmitDownload(w) => TypeOK'
<1>0. Len(buckets) \in Nat
  BY DEF TypeOK
<1>1. ASSUME NEW from, NEW to, Turn(w, from, to), "take" \notin to, UNCHANGED buckets
      PROVE  /\ job' \in [Workers -> Job]
             /\ \A v \in Workers : At(v, "take")' => job'[v].limiter \in 1..Len(buckets')
  BY <1>0, <1>1, TakersKept DEF Turn
<1>2. ASSUME BeginTask(w) PROVE TypeOK'
  <2>1. queue' \in Seq(Cids)
    BY <1>2 DEF BeginTask, TypeOK
  <2> QED
    BY <1>1, <1>2, <2>1, ReadTurns DEF BeginTask, TypeOK
<1>3. ASSUME NEW c \in Cids, BeginRead(w, c) PROVE TypeOK'
  <2>1. bounds' \in Bounds
    BY <1>3, Types, Counting DEF BeginRead
  <2> QED
    BY <1>1, <1>3, <2>1, ReadTurns DEF BeginRead, TypeOK
<1>4. ASSUME CheckGroup(w) \/ FetchFails(w) PROVE TypeOK'
  <2>1. CASE CheckGroup(w)
    <3> DEFINE u == Uploader[job[w].cid]
    <3>1. lent \in [Accounts -> Nat] /\ (lent' = lent \/ lent' = [lent EXCEPT ![u] = lent[u] + 1])
      BY <2>1, Types DEF CheckGroup
    <3> HIDE DEF u
    <3>2. lent' \in [Accounts -> Nat]
      BY <3>1, MoreOfOne
    <3> QED
      BY <1>1, <2>1, <3>2, ReadTurns DEF CheckGroup, TypeOK
  <2>2. CASE FetchFails(w)
    BY <1>1, <2>2, ReadTurns DEF FetchFails, TypeOK
  <2> QED
    BY <1>4, <2>1, <2>2
<1>5. ASSUME CheckGroupFails(w) PROVE TypeOK'
  <2>1. bounds' \in Bounds
    BY <1>5, Types, Counting DEF CheckGroupFails
  <2> QED
    BY <1>1, <1>5, <2>1, ReadTurns DEF CheckGroupFails, TypeOK
<1>6. ASSUME EmitDownload(w) PROVE TypeOK'
  <2>1. requests' \in [Cids -> SUBSET Addrs]
    BY <1>6, Types DEF EmitDownload, TakePeer
  <2> DEFINE u == Uploader[job[w].cid]
  <2>2. used \in [Accounts -> Nat] /\ used' = [used EXCEPT ![u] = used[u] + 1]
    BY <1>6, Types DEF EmitDownload
  <2> HIDE DEF u
  <2>3. used' \in [Accounts -> Nat]
    BY <2>2, MoreOfOne
  <2> QED
    BY <1>1, <1>6, <2>1, <2>3, ReadTurns DEF EmitDownload, TypeOK
<1> QED
  BY <1>2, <1>3, <1>4, <1>5, <1>6

(* So do connections that close and the listeners.                          *)
LEMMA ConnTypes ==
  ASSUME TypeOK, NEW n \in Conns, Disconnect(n) \/ HandlePeerDisconnected(n) \/ RemovePeerLimiter(n)
  PROVE  TypeOK'
<1>1. InProcess \subseteq Peers /\ n.peer \in Peers
  BY JobParts DEF InProcess, TypeOK, Peers
<1>2. CASE Disconnect(n)
  <2>1. bounds' \in Bounds
    BY <1>2, Types, Counting DEF Disconnect
  <2>2. cleanup' \subseteq Conns \X {"tracker", "filter"}
    BY <1>2 DEF Disconnect, TypeOK
  <2> QED
    BY <1>2, <2>1, <2>2 DEF Disconnect, TypeOK, At
<1>3. CASE HandlePeerDisconnected(n)
  <2>1. requests' \in [Cids -> SUBSET Addrs]
    BY <1>3 DEF HandlePeerDisconnected, RemovePeerFromAll, TypeOK
  <2>2. hist' \in History
    BY <1>1, <1>3, Types DEF HandlePeerDisconnected, History
  <2> QED
    BY <1>3, <2>1, <2>2 DEF HandlePeerDisconnected, TypeOK, At
<1>4. CASE RemovePeerLimiter(n)
  <2>1. limiterOf' \in [Peers -> 0..Len(buckets)]
    BY <1>1, <1>4, Types DEF RemovePeerLimiter
  <2>2. hist' \in History
    <3>1. hist' = [hist EXCEPT !.raced = @ \cup InProcess, !.resets[n.peer] = @ + 1]
      BY <1>4 DEF RemovePeerLimiter
    <3> DEFINE resets == [hist.resets EXCEPT ![n.peer] = @ + 1]
    <3>2. hist \in History
      BY Types
    <3>3. resets \in [Peers -> Nat] /\ hist.raced \cup InProcess \in SUBSET Peers
      BY <1>1, <3>2 DEF History
    <3>4. hist' = [hist EXCEPT !.raced = hist.raced \cup InProcess, !.resets = resets]
      BY <3>1, <3>2 DEF History
    <3> HIDE DEF resets
    <3> QED
      BY <3>2, <3>3, <3>4 DEF History
  <2> QED
    BY <1>4, <2>1, <2>2 DEF RemovePeerLimiter, TypeOK, At
<1> QED
  BY <1>2, <1>3, <1>4

(* Jobs, limiters, wants and counts keep their types, for any goroutines    *)
(* (BitswapTracer, WantBlockFilter, BlockStore.Get).                        *)
LEMMA TypeStep == TypeOK /\ [Next]_vars => TypeOK'
<1> SUFFICES ASSUME TypeOK, [Next]_vars PROVE TypeOK'
  OBVIOUS
<1>1. CASE UNCHANGED vars
  BY <1>1 DEF vars, TypeOK, At
<1>2. CASE Refill
  BY <1>2, LimiterTypes, BurstAssumption
<1>3. CASE \E n \in Conns : Disconnect(n) \/ HandlePeerDisconnected(n) \/ RemovePeerLimiter(n)
  BY <1>3, ConnTypes
<1>4. ASSUME NEW w \in Workers, NEW n \in Conns, NEW c \in Cids, Receive(w, n, c) PROVE TypeOK'
  BY <1>4, MessageTypes
<1>5. ASSUME NEW w \in Workers,
             MessageReceived(w) \/ TrackWants(w) \/ Allow(w) \/ LookupLimiter(w) \/ CreateLimiter(w) \/ TakeToken(w)
      PROVE  TypeOK'
  BY <1>5, MessageTypes, LimiterTypes
<1>6. ASSUME NEW w \in Workers,
             \/ BeginTask(w) \/ (\E c \in Cids : BeginRead(w, c))
             \/ CheckGroup(w) \/ CheckGroupFails(w) \/ FetchFails(w) \/ EmitDownload(w)
      PROVE  TypeOK'
  BY <1>6, ReadTypes
<1> QED
  BY <1>1, <1>2, <1>3, <1>4, <1>5, <1>6 DEF Next

(* The types hold in every state, for any goroutines, peers, connections    *)
(* and blocks (BitswapTracer, WantBlockFilter, BlockStore.Get).             *)
THEOREM TypeCorrect == Spec => []TypeOK
  BY InitType, TypeStep, PTL DEF Spec

-----------------------------------------------------------------------------
(* The quota of the account that is billed.                                 *)

(* The goroutines at some places.                                           *)
Busy(places) == {w \in Workers : job[w].pc \in places}

(* One goroutine turns, and the number of those at some places changes by   *)
(* as much.                                                                 *)
LEMMA BusyMove ==
  ASSUME TypeOK, NEW w \in Workers, NEW from, NEW to, Turn(w, from, to), NEW places
  PROVE  /\ Cardinality(Busy(places)) \in Nat /\ Cardinality(Busy(places)') \in Nat /\ Cardinality(Workers) \in Nat
         /\ Cardinality(Busy(places)') <= Cardinality(Workers)
         /\ (job[w].pc \in places <=> job'[w].pc \in places) => Cardinality(Busy(places)') = Cardinality(Busy(places))
         /\ job[w].pc \notin places /\ job'[w].pc \in places => Cardinality(Busy(places)') = Cardinality(Busy(places)) + 1
         /\ job[w].pc \in places /\ job'[w].pc \notin places => Cardinality(Busy(places)') = Cardinality(Busy(places)) - 1
<1> DEFINE now == Busy(places)
           next == Busy(places)'
<1>1. now \in SUBSET Workers /\ next \in SUBSET Workers
  BY DEF Busy
<1>2. IsFiniteSet(Workers) /\ IsFiniteSet(now) /\ IsFiniteSet(next)
  BY <1>1, BurstAssumption, FS_Subset
<1>3. /\ Cardinality(now) \in Nat /\ Cardinality(next) \in Nat /\ Cardinality(Workers) \in Nat
      /\ Cardinality(next) <= Cardinality(Workers)
  BY <1>1, <1>2, FS_Subset, FS_CardinalityType
<1>4. ASSUME job[w].pc \in places <=> job'[w].pc \in places PROVE next = now
  BY <1>4 DEF Turn, Busy
<1>5. ASSUME job[w].pc \notin places, job'[w].pc \in places PROVE next = now \cup {w} /\ w \notin now
  BY <1>5 DEF Turn, Busy
<1>6. ASSUME job[w].pc \in places, job'[w].pc \notin places PROVE next = now \ {w} /\ w \in now
  BY <1>6 DEF Turn, Busy
<1>7. /\ w \notin now => Cardinality(now \cup {w}) = Cardinality(now) + 1
      /\ w \in now => Cardinality(now \ {w}) = Cardinality(now) - 1
  BY <1>2, FS_AddElement, FS_RemoveElement
<1> HIDE DEF now, next
<1> QED
  BY <1>3, <1>4, <1>5, <1>6, <1>7 DEF now, next

(* The goroutines that have passed the check and will bill an account, and  *)
(* its bill.                                                                *)
Billing(w, a) == job[w].pc = "fetch" /\ Uploader[job[w].cid] = a
Fetching(a) == {w \in Workers : Billing(w, a)}
\* The claim is inductive as it stands.
Overrun ==
    \A a \in Accounts :
        used[a] + Cardinality(Fetching(a)) <= Limit + Cardinality(Workers) - 1 + bounds.faults + lent[a]

(* One goroutine turns, and the number of those that will bill an account   *)
(* changes by as much (BlockStore.Get).                                     *)
LEMMA FetchersMove ==
  ASSUME TypeOK, NEW w \in Workers, NEW from, NEW to, Turn(w, from, to), NEW a
  PROVE  /\ Cardinality(Fetching(a)) \in Nat /\ Cardinality(Fetching(a)') \in Nat /\ Cardinality(Workers) \in Nat
         /\ Cardinality(Fetching(a)') <= Cardinality(Workers)
         /\ (Billing(w, a) <=> Billing(w, a)') => Cardinality(Fetching(a)') = Cardinality(Fetching(a))
         /\ ~Billing(w, a) /\ Billing(w, a)' => Cardinality(Fetching(a)') = Cardinality(Fetching(a)) + 1
         /\ Billing(w, a) /\ ~Billing(w, a)' => Cardinality(Fetching(a)') = Cardinality(Fetching(a)) - 1
<1> DEFINE now == Fetching(a)
           next == Fetching(a)'
<1>1. now \in SUBSET Workers /\ next \in SUBSET Workers
  BY DEF Fetching
<1>2. IsFiniteSet(Workers) /\ IsFiniteSet(now) /\ IsFiniteSet(next)
  BY <1>1, BurstAssumption, FS_Subset
<1>3. /\ Cardinality(now) \in Nat /\ Cardinality(next) \in Nat /\ Cardinality(Workers) \in Nat
      /\ Cardinality(next) <= Cardinality(Workers)
  BY <1>1, <1>2, FS_Subset, FS_CardinalityType
<1>4. \A v \in Workers \ {w} : Billing(v, a)' <=> Billing(v, a)
  BY DEF Turn, Billing
<1>5. ASSUME Billing(w, a) <=> Billing(w, a)' PROVE next = now
  BY <1>4, <1>5 DEF Fetching
<1>6. ASSUME ~Billing(w, a), Billing(w, a)' PROVE next = now \cup {w} /\ w \notin now
  BY <1>4, <1>6 DEF Fetching
<1>7. ASSUME Billing(w, a), ~Billing(w, a)' PROVE next = now \ {w} /\ w \in now
  BY <1>4, <1>7 DEF Fetching
<1>8. /\ w \notin now => Cardinality(now \cup {w}) = Cardinality(now) + 1
      /\ w \in now => Cardinality(now \ {w}) = Cardinality(now) - 1
  BY <1>2, FS_AddElement, FS_RemoveElement
<1> HIDE DEF now, next
<1> QED
  BY <1>3, <1>5, <1>6, <1>7, <1>8 DEF now, next

(* A turn of another kind leaves the bills and the reads alone.             *)
LEMMA OtherTurns ==
  ASSUME TypeOK, Overrun, NEW w \in Workers, NEW from, NEW to, Turn(w, from, to),
         "fetch" \notin from, "fetch" \notin to,
         used' = used, lent' = lent, bounds' \in Bounds, bounds'.faults = bounds.faults
  PROVE  Overrun'
<1>1. ASSUME NEW a PROVE Cardinality(Fetching(a)') = Cardinality(Fetching(a))
  <2>1. ~Billing(w, a) /\ ~Billing(w, a)'
    BY DEF Turn, Billing
  <2> QED
    BY <2>1, FetchersMove
<1> QED
  BY <1>1 DEF Overrun

(* What an account's bill and the reads that will be billed to it come to.  *)
LEMMA OverrunParts ==
  ASSUME TypeOK, Overrun, NEW a \in Accounts
  PROVE  /\ used[a] \in Nat /\ lent[a] \in Nat /\ Limit \in Nat /\ bounds.faults \in Nat
         /\ used[a] + Cardinality(Fetching(a)) <= Limit + Cardinality(Workers) - 1 + bounds.faults + lent[a]
  BY Types, BurstAssumption DEF Bounds, Overrun

(* A read that passes found room in the quota of its uploader, or in that   *)
(* of another pinner, which is counted (CheckCIDGroupDownloadAvailability). *)
LEMMA CheckKeepsOverrun ==
  ASSUME TypeOK, Overrun, NEW w \in Workers, CheckGroup(w)
  PROVE  Overrun'
<1> DEFINE c == job[w].cid
<1>1. job[w].pc = "check" /\ c \in Cids /\ job[w] \in Job
  BY JobParts DEF CheckGroup, At, TypeOK
<1>2. PICK u \in Accounts : u = Uploader[c]
  BY <1>1, BurstAssumption
<1>3. Turn(w, {"check"}, {"fetch", "idle"}) /\ UNCHANGED <<used, bounds>>
  BY ReadTurns DEF CheckGroup
<1>4. CASE Go(w, "fetch") /\ lent' = IF HasRoom(u) THEN lent ELSE [lent EXCEPT ![u] = @ + 1]
  <2> SUFFICES ASSUME NEW a \in Accounts
               PROVE  used[a] + Cardinality(Fetching(a)')
                          <= Limit + Cardinality(Workers) - 1 + bounds.faults + lent'[a]
    BY <1>3 DEF Overrun
  <2>1. job'[w].pc = "fetch" /\ job'[w].cid = c
    BY <1>1, <1>4 DEF Go, TypeOK, Job, Traced, Tracked, Limited, Reading
  <2>2. ~Billing(w, a) /\ (Billing(w, a)' <=> a = u)
    BY <1>1, <1>2, <2>1 DEF Billing
  <2>3. /\ used[a] \in Nat /\ lent[a] \in Nat /\ Limit \in Nat /\ bounds.faults \in Nat
        /\ used[a] + Cardinality(Fetching(a)) <= Limit + Cardinality(Workers) - 1 + bounds.faults + lent[a]
    BY OverrunParts
  <2>4. /\ Cardinality(Fetching(a)) \in Nat /\ Cardinality(Fetching(a)') \in Nat /\ Cardinality(Workers) \in Nat
        /\ Cardinality(Fetching(a)') <= Cardinality(Workers)
        /\ Cardinality(Fetching(a)') = IF a = u THEN Cardinality(Fetching(a)) + 1 ELSE Cardinality(Fetching(a))
    BY <1>3, <2>2, FetchersMove
  <2>5. lent'[a] = IF a = u /\ ~HasRoom(u) THEN lent[a] + 1 ELSE lent[a]
    BY <1>4, Types
  <2>6. HasRoom(u) => used[u] + 1 <= Limit
    BY DEF HasRoom
  <2> QED
    BY <2>3, <2>4, <2>5, <2>6
<1>5. CASE job' = [job EXCEPT ![w] = Idle] /\ lent' = lent
  <2>1. job'[w].pc = "idle"
    BY <1>5, NewJobs DEF TypeOK
  <2>2. ASSUME NEW a PROVE Cardinality(Fetching(a)') = Cardinality(Fetching(a))
    <3>1. ~Billing(w, a) /\ ~Billing(w, a)'
      BY <1>1, <2>1 DEF Billing
    <3> QED
      BY <1>3, <3>1, FetchersMove
  <2> QED
    BY <1>3, <1>5, <2>2 DEF Overrun
<1> QED
  BY <1>2, <1>4, <1>5 DEF CheckGroup

(* A check that fails is counted, and a read that fetches a block is billed *)
(* to its uploader once (BlockStore.Get).                                   *)
LEMMA ReadsKeepOverrun ==
  ASSUME TypeOK, Overrun, NEW w \in Workers,
         CheckGroup(w) \/ CheckGroupFails(w) \/ FetchFails(w) \/ EmitDownload(w)
  PROVE  Overrun'
<1>1. CASE CheckGroup(w)
  BY <1>1, CheckKeepsOverrun
<1>2. CASE CheckGroupFails(w)
  <2>1. Turn(w, {"check"}, {"fetch"}) /\ used' = used /\ lent' = lent
    BY <1>2, ReadTurns DEF CheckGroupFails
  <2>2. bounds'.faults = bounds.faults + 1
    BY <1>2, Types, Counting DEF CheckGroupFails
  <2> SUFFICES ASSUME NEW a \in Accounts
               PROVE  used[a] + Cardinality(Fetching(a)')
                          <= Limit + Cardinality(Workers) - 1 + (bounds.faults + 1) + lent[a]
    BY <2>1, <2>2 DEF Overrun
  <2>3. /\ used[a] \in Nat /\ lent[a] \in Nat /\ Limit \in Nat /\ bounds.faults \in Nat
        /\ used[a] + Cardinality(Fetching(a)) <= Limit + Cardinality(Workers) - 1 + bounds.faults + lent[a]
    BY OverrunParts
  <2>4. ~Billing(w, a)
    BY <2>1 DEF Turn, Billing
  <2>5. /\ Cardinality(Fetching(a)) \in Nat /\ Cardinality(Fetching(a)') \in Nat /\ Cardinality(Workers) \in Nat
        /\ Cardinality(Fetching(a)') <= Cardinality(Fetching(a)) + 1
    BY <2>1, <2>4, FetchersMove
  <2> QED
    BY <2>3, <2>5
<1>3. CASE FetchFails(w) \/ EmitDownload(w)
  <2> DEFINE c == job[w].cid
  <2>1. Turn(w, {"fetch"}, {"idle"}) /\ bounds' = bounds /\ lent' = lent
    BY <1>3, ReadTurns DEF FetchFails, EmitDownload
  <2>2. used' = used \/ used' = [used EXCEPT ![Uploader[c]] = @ + 1]
    BY <1>3 DEF FetchFails, EmitDownload
  <2> SUFFICES ASSUME NEW a \in Accounts
               PROVE  used'[a] + Cardinality(Fetching(a)')
                          <= Limit + Cardinality(Workers) - 1 + bounds.faults + lent[a]
    BY <2>1 DEF Overrun
  <2>3. /\ used[a] \in Nat /\ lent[a] \in Nat /\ Limit \in Nat /\ bounds.faults \in Nat
        /\ used[a] + Cardinality(Fetching(a)) <= Limit + Cardinality(Workers) - 1 + bounds.faults + lent[a]
    BY OverrunParts
  <2>4. (Billing(w, a) <=> a = Uploader[c]) /\ ~Billing(w, a)'
    BY <2>1 DEF Turn, Billing
  <2>5. /\ Cardinality(Fetching(a)) \in Nat /\ Cardinality(Fetching(a)') \in Nat /\ Cardinality(Workers) \in Nat
        /\ Cardinality(Fetching(a)') =
               IF a = Uploader[c] THEN Cardinality(Fetching(a)) - 1 ELSE Cardinality(Fetching(a))
    BY <2>1, <2>4, FetchersMove
  <2>6. used'[a] = used[a] \/ (a = Uploader[c] /\ used'[a] = used[a] + 1)
    <3> DEFINE u == Uploader[c]
    <3>1. used \in [Accounts -> Nat] /\ (used' = used \/ used' = [used EXCEPT ![u] = used[u] + 1])
      BY <2>2, Types
    <3> HIDE DEF u
    <3>2. used'[a] = used[a] \/ (a = u /\ used'[a] = used[a] + 1)
      BY <3>1
    <3> QED
      BY <3>2 DEF u
  <2> QED
    BY <2>3, <2>5, <2>6
<1> QED
  BY <1>1, <1>2, <1>3

(* No other step touches the bill or a read that is under way.              *)
LEMMA OthersKeepOverrun ==
  ASSUME TypeOK, Overrun,
         \/ Refill \/ UNCHANGED vars
         \/ \E n \in Conns : Disconnect(n) \/ HandlePeerDisconnected(n) \/ RemovePeerLimiter(n)
         \/ \E w \in Workers :
               \/ \E n \in Conns, c \in Cids : Receive(w, n, c)
               \/ MessageReceived(w) \/ TrackWants(w) \/ Allow(w) \/ LookupLimiter(w) \/ CreateLimiter(w)
               \/ TakeToken(w) \/ BeginTask(w) \/ \E c \in Cids : BeginRead(w, c)
  PROVE  Overrun'
<1>0. bounds \in Bounds
  BY Types
<1>1. CASE Refill \/ UNCHANGED vars \/ \E n \in Conns : Disconnect(n) \/ HandlePeerDisconnected(n) \/ RemovePeerLimiter(n)
  <2>1. job' = job /\ used' = used /\ lent' = lent
    BY <1>1 DEF Refill, Disconnect, HandlePeerDisconnected, RemovePeerLimiter, vars
  <2>2. bounds'.faults = bounds.faults
    BY <1>0, <1>1, Counting DEF Refill, Disconnect, HandlePeerDisconnected, RemovePeerLimiter, vars
  <2> QED
    BY <2>1, <2>2 DEF Overrun, Fetching, Billing
<1>2. ASSUME NEW w \in Workers, NEW n \in Conns, NEW c \in Cids, Receive(w, n, c) PROVE Overrun'
  <2>1. Turn(w, {"idle"}, {"trace"}) /\ used' = used /\ lent' = lent
    BY <1>2, MessageTurns DEF Receive
  <2>2. bounds' \in Bounds /\ bounds'.faults = bounds.faults
    BY <1>0, <1>2, Counting DEF Receive
  <2> QED
    BY <2>1, <2>2, OtherTurns
<1>3. ASSUME NEW w \in Workers, NEW c \in Cids, BeginRead(w, c) PROVE Overrun'
  <2>1. Turn(w, {"idle"}, {"check"}) /\ used' = used /\ lent' = lent
    BY <1>3, ReadTurns DEF BeginRead
  <2>2. bounds' \in Bounds /\ bounds'.faults = bounds.faults
    BY <1>0, <1>3, Counting DEF BeginRead
  <2> QED
    BY <2>1, <2>2, OtherTurns
<1>4. ASSUME NEW w \in Workers,
             \/ MessageReceived(w) \/ TrackWants(w) \/ Allow(w) \/ LookupLimiter(w) \/ CreateLimiter(w)
             \/ TakeToken(w) \/ BeginTask(w)
      PROVE  Overrun'
  <2>1. used' = used /\ lent' = lent /\ bounds' = bounds
    BY <1>4 DEF MessageReceived, TrackWants, Allow, LookupLimiter, CreateLimiter, TakeToken, BeginTask
  <2>2. \/ Turn(w, {"trace"}, {"add", "filter"}) \/ Turn(w, {"add"}, {"filter"})
        \/ Turn(w, {"filter"}, {"idle", "lookup"}) \/ Turn(w, {"lookup"}, {"create", "take"})
        \/ Turn(w, {"create"}, {"take"}) \/ Turn(w, {"take"}, {"idle"}) \/ Turn(w, {"idle"}, {"check"})
    BY <1>4, MessageTurns, ReadTurns
  <2>3. PICK from, to : Turn(w, from, to) /\ "fetch" \notin from /\ "fetch" \notin to
    BY <2>2
  <2> QED
    BY <1>0, <2>1, <2>3, OtherTurns
<1> QED
  BY <1>1, <1>2, <1>3, <1>4

(* An account is billed for more than its quota, but by no more than the    *)
(* reads that run together, the checks that failed and the reads of its     *)
(* uploads that the room of another pinner let through, for any number of   *)
(* goroutines, accounts and pinners; the last have no limit                 *)
(* (BlockStore.Get, CheckCIDGroupDownloadAvailability).                     *)
THEOREM BoundedOverrun == Spec => []OverrunIsBounded
<1>1. Init => Overrun
  <2> SUFFICES ASSUME Init, NEW a \in Accounts
               PROVE  used[a] + Cardinality(Fetching(a))
                          <= Limit + Cardinality(Workers) - 1 + bounds.faults + lent[a]
    BY DEF Overrun
  <2>1. Fetching(a) = {}
    BY DEF Init, Fetching, Billing, Idle
  <2>2. Cardinality(Fetching(a)) = 0
    BY <2>1, FS_EmptySet
  <2>3. Cardinality(Workers) \in Nat /\ Cardinality(Workers) # 0
    BY BurstAssumption, FS_EmptySet, FS_CardinalityType
  <2>4. used[a] \in Nat /\ used[a] <= Limit /\ bounds.faults = 0 /\ lent[a] = 0 /\ Limit \in Nat
    BY BurstAssumption DEF Init
  <2> QED
    BY <2>2, <2>3, <2>4
<1>2. TypeOK /\ Overrun /\ [Next]_vars => Overrun'
  <2> SUFFICES ASSUME TypeOK, Overrun, [Next]_vars PROVE Overrun'
    OBVIOUS
  <2>1. ASSUME NEW w \in Workers, CheckGroup(w) \/ CheckGroupFails(w) \/ FetchFails(w) \/ EmitDownload(w)
        PROVE  Overrun'
    BY <2>1, ReadsKeepOverrun
  <2> QED
    BY <2>1, OthersKeepOverrun DEF Next
<1>3. Overrun => OverrunIsBounded
  <2>1. \A a : Fetching(a) = {w \in Workers : At(w, "fetch") /\ Uploader[job[w].cid] = a}
    BY DEF Fetching, Billing, At
  <2> QED
    BY <2>1 DEF Overrun, OverrunIsBounded
<1> QED
  BY <1>1, <1>2, <1>3, TypeCorrect, PTL DEF Spec

-----------------------------------------------------------------------------
(* Peers that are gone.                                                     *)

(* A step that leaves connections and listeners alone holds on to whoever   *)
(* is still to clear up.                                                    *)
LEMMA StillHeld ==
  ASSUME open' = open, cleanup' = cleanup, hist'.raced = hist.raced
  PROVE  \A p : (Held(p)' <=> Held(p)) /\ \A ip : Tracks(p, ip)' <=> Tracks(p, ip)
  BY DEF Held, Tracks

(* A connection that closes leaves its listeners to be called, and a        *)
(* listener that runs clears up, or has run into a message of its peer.     *)
LEMMA HandedOver ==
  ASSUME TypeOK, NEW n \in Conns
  PROVE  /\ Disconnect(n) => \A p : /\ Held(p) => Held(p)'
                                    /\ \A ip : Tracks(p, ip) => Tracks(p, ip)'
         /\ HandlePeerDisconnected(n) =>
               \A p : /\ Held(p) => Held(p)'
                      /\ \A ip : Tracks(p, ip) /\ (ip # n.ip \/ p \in InProcess) => Tracks(p, ip)'
         /\ RemovePeerLimiter(n) =>
               \A p : /\ Held(p) /\ (p # n.peer \/ p \in InProcess) => Held(p)'
                      /\ \A ip : Tracks(p, ip) => Tracks(p, ip)'
<1>1. ASSUME Disconnect(n)
      PROVE  \A p : /\ Held(p) => Held(p)'
                    /\ \A ip : Tracks(p, ip) => Tracks(p, ip)'
  <2>1. /\ hist' = hist
        /\ \A m \in Conns : /\ m \in open \/ <<m, "filter">> \in cleanup => m \in open' \/ <<m, "filter">> \in cleanup'
                            /\ m \in open \/ <<m, "tracker">> \in cleanup => m \in open' \/ <<m, "tracker">> \in cleanup'
    BY <1>1 DEF Disconnect
  <2> QED
    BY <2>1 DEF Held, Tracks
<1>2. ASSUME HandlePeerDisconnected(n)
      PROVE  \A p : /\ Held(p) => Held(p)'
                    /\ \A ip : Tracks(p, ip) /\ (ip # n.ip \/ p \in InProcess) => Tracks(p, ip)'
  <2>1. open' = open /\ cleanup' = cleanup \ {<<n, "tracker">>} /\ hist'.raced = hist.raced \cup InProcess
    BY <1>2, Types DEF HandlePeerDisconnected, History
  <2> QED
    BY <2>1 DEF Held, Tracks
<1>3. ASSUME RemovePeerLimiter(n)
      PROVE  \A p : /\ Held(p) /\ (p # n.peer \/ p \in InProcess) => Held(p)'
                    /\ \A ip : Tracks(p, ip) => Tracks(p, ip)'
  <2>1. open' = open /\ cleanup' = cleanup \ {<<n, "filter">>} /\ hist'.raced = hist.raced \cup InProcess
    BY <1>3, Types DEF RemovePeerLimiter, History
  <2> QED
    BY <2>1 DEF Held, Tracks
<1> QED
  BY <1>1, <1>2, <1>3

(* The listeners and the connections that close leave nothing behind but    *)
(* what somebody is still to clear up (RemovePeerFromAll,                   *)
(* RemovePeerLimiter).                                                      *)
LEMMA ConnsLeaveNothing ==
  ASSUME TypeOK, BehindInv, NEW n \in Conns,
         Disconnect(n) \/ HandlePeerDisconnected(n) \/ RemovePeerLimiter(n)
  PROVE  BehindInv'
<1>0. \A w \in Workers : job[w].pc \in Message => job[w].peer \in InProcess
  BY JobParts DEF InProcess, TypeOK
<1>1. job' = job
  BY DEF Disconnect, HandlePeerDisconnected, RemovePeerLimiter
<1>2. CASE Disconnect(n)
  <2>1. UNCHANGED <<requests, limiterOf, denied>>
    BY <1>2 DEF Disconnect
  <2>2. \A p : (Held(p) => Held(p)') /\ \A ip : Tracks(p, ip) => Tracks(p, ip)'
    BY <1>2, HandedOver
  <2> QED
    BY <1>1, <2>1, <2>2 DEF BehindInv, MessageHeld
<1>3. CASE HandlePeerDisconnected(n)
  <2>1. /\ UNCHANGED <<limiterOf, denied>>
        /\ requests' = IF n.ip = NoIP THEN requests ELSE [c \in Cids |-> requests[c] \ {n.ip}]
    BY <1>3 DEF HandlePeerDisconnected, RemovePeerFromAll
  <2>2. \A p : /\ Held(p) => Held(p)'
               /\ \A ip : Tracks(p, ip) /\ (ip # n.ip \/ p \in InProcess) => Tracks(p, ip)'
    BY <1>3, HandedOver
  <2>3. ASSUME NEW w \in Workers
        PROVE  MessageHeld(w)'
    BY <1>0, <1>1, <2>2 DEF BehindInv, MessageHeld, Message
  <2>4. ASSUME NEW c \in Cids, NEW ip \in requests'[c]
        PROVE  ip \in requests[c] /\ ip # n.ip
    <3>1. requests \in [Cids -> SUBSET Addrs] /\ \A x \in Addrs : x # NoIP
      BY Types DEF Addrs
    <3> QED
      BY <2>1, <2>4, <3>1
  <2>5. ASSUME NEW c \in Cids, NEW ip \in requests'[c]
        PROVE  \E p \in Peers : Tracks(p, ip)'
    BY <2>2, <2>4 DEF BehindInv
  <2>6. \A p \in Peers : limiterOf'[p] # 0 \/ p \in denied' => Held(p)'
    BY <2>1, <2>2 DEF BehindInv
  <2> QED
    BY <2>3, <2>5, <2>6 DEF BehindInv
<1>4. CASE RemovePeerLimiter(n)
  <2>1. /\ requests' = requests /\ denied' = denied \ {n.peer}
        /\ limiterOf' = [limiterOf EXCEPT ![n.peer] = 0]
    BY <1>4 DEF RemovePeerLimiter
  <2>2. \A p : /\ Held(p) /\ (p # n.peer \/ p \in InProcess) => Held(p)'
               /\ \A ip : Tracks(p, ip) => Tracks(p, ip)'
    BY <1>4, HandedOver
  <2>3. ASSUME NEW p \in Peers, limiterOf'[p] # 0 \/ p \in denied'
        PROVE  p # n.peer /\ (limiterOf[p] # 0 \/ p \in denied)
    BY <2>1, <2>3, Types
  <2>4. \A p \in Peers : limiterOf'[p] # 0 \/ p \in denied' => Held(p)'
    BY <2>2, <2>3 DEF BehindInv
  <2>5. \A c \in Cids : \A ip \in requests'[c] : \E p \in Peers : Tracks(p, ip)'
    BY <2>1, <2>2 DEF BehindInv
  <2>6. ASSUME NEW w \in Workers
        PROVE  MessageHeld(w)'
    BY <1>0, <1>1, <2>2 DEF BehindInv, MessageHeld, Message
  <2> QED
    BY <2>4, <2>5, <2>6 DEF BehindInv
<1> QED
  BY <1>2, <1>3, <1>4

(* What a step of a goroutine has to keep of that: its message, if it is a  *)
(* new one, comes from an open connection, and it adds to the tables for    *)
(* the peer and the address of its message only.                            *)
LEMMA GoroutinesLeaveNothing ==
  ASSUME TypeOK, BehindInv, NEW w \in Workers, NEW from, NEW to, Turn(w, from, to),
         open' = open, cleanup' = cleanup, hist'.raced = hist.raced,
         job'[w].pc \in Message /\ job[w].pc \notin Message => Held(job'[w].peer),
         job'[w].pc = "add" => Tracks(job'[w].peer, job'[w].ip),
         \A p \in Peers : (limiterOf'[p] # 0 \/ p \in denied') =>
             limiterOf[p] # 0 \/ p \in denied \/ (job[w].pc \in Message /\ job[w].peer = p),
         \A c \in Cids : \A ip \in requests'[c] :
             ip \in requests[c] \/ (job[w].pc = "add" /\ job[w].ip = ip)
  PROVE  BehindInv'
<1>1. \A p : (Held(p)' <=> Held(p)) /\ \A ip : Tracks(p, ip)' <=> Tracks(p, ip)
  BY StillHeld
<1>2. ASSUME NEW v \in Workers
      PROVE  MessageHeld(v)'
  <2>1. CASE v = w
    BY <1>1, <2>1 DEF BehindInv, MessageHeld, Turn
  <2>2. CASE v # w
    BY <1>1, <2>2 DEF BehindInv, MessageHeld, Turn
  <2> QED
    BY <2>1, <2>2
<1>3. \A p \in Peers : limiterOf'[p] # 0 \/ p \in denied' => Held(p)
  BY DEF BehindInv, MessageHeld
<1>4. ASSUME NEW c \in Cids, NEW ip \in requests'[c]
      PROVE  \E p \in Peers : Tracks(p, ip)
  <2>1. CASE ip \in requests[c]
    BY <2>1 DEF BehindInv
  <2>2. CASE job[w].pc = "add" /\ job[w].ip = ip
    BY <2>2, JobParts DEF BehindInv, MessageHeld, TypeOK, Message
  <2> QED
    BY <2>1, <2>2
<1> QED
  BY <1>1, <1>2, <1>3, <1>4 DEF BehindInv

(* The steps of a message (BitswapTracer.MessageReceived,                   *)
(* WantBlockFilter.Allow).                                                  *)
LEMMA MessagesLeaveNothing ==
  ASSUME TypeOK, BehindInv, NEW w \in Workers,
         \/ \E n \in Conns, c \in Cids : Receive(w, n, c)
         \/ MessageReceived(w) \/ TrackWants(w) \/ Allow(w) \/ LookupLimiter(w) \/ CreateLimiter(w) \/ TakeToken(w)
  PROVE  BehindInv'
<1>0. UNCHANGED <<open, cleanup>> /\ hist'.raced = hist.raced
  <2>1. UNCHANGED <<open, cleanup>>
    BY DEF Receive, MessageReceived, TrackWants, Allow, LookupLimiter, CreateLimiter, TakeToken
  <2>2. hist' = hist \/ hist' = [hist EXCEPT !.allowed[job[w].peer] = @ + 1, !.passed = @ + 1]
    BY DEF Receive, MessageReceived, TrackWants, Allow, LookupLimiter, CreateLimiter, TakeToken
  <2> QED
    BY <2>1, <2>2, Types DEF History
<1>1. CASE \E n \in Conns, c \in Cids : Receive(w, n, c)
  <2>1. PICK n \in Conns, c \in Cids : Receive(w, n, c)
    BY <1>1
  <2>2. Turn(w, {"idle"}, {"trace"}) /\ job'[w].peer = n.peer
    BY <2>1, MessageTurns
  <2>3. Held(n.peer) /\ UNCHANGED <<requests, limiterOf, denied>>
    BY <2>1 DEF Receive, Held
  <2>4. job'[w].pc = "trace"
    BY <2>2 DEF Turn
  <2> QED
    BY <1>0, <2>2, <2>3, <2>4, GoroutinesLeaveNothing
<1>2. CASE MessageReceived(w)
  <2>1. /\ Turn(w, {"trace"}, {"add", "filter"})
        /\ job'[w].pc = "add" => \E n \in open : n.peer = job[w].peer /\ n.ip = job'[w].ip
    BY <1>2, MessageTurns
  <2>2. job[w].pc \in Message /\ (job'[w].pc = "add" => job'[w].peer = job[w].peer)
    BY <2>1 DEF Turn, Message
  <2>3. job'[w].pc = "add" => Tracks(job'[w].peer, job'[w].ip)
    BY <2>1, <2>2, Types DEF Tracks
  <2>4. UNCHANGED <<requests, limiterOf, denied>>
    BY <1>2 DEF MessageReceived
  <2> QED
    BY <1>0, <2>1, <2>2, <2>3, <2>4, GoroutinesLeaveNothing
<1>3. CASE TrackWants(w)
  <2>1. Turn(w, {"add"}, {"filter"}) /\ UNCHANGED <<limiterOf, denied>>
    BY <1>3, MessageTurns DEF TrackWants
  <2>2. job[w].pc = "add" /\ job[w].pc \in Message /\ job'[w].pc # "add"
    BY <2>1 DEF Turn, Message
  <2>3. \A c \in Cids : \A ip \in requests'[c] : ip \in requests[c] \/ job[w].ip = ip
    BY <1>3, Types DEF TrackWants, AddRequest
  <2> QED
    BY <1>0, <2>1, <2>2, <2>3, GoroutinesLeaveNothing
<1>4. CASE Allow(w)
  <2>1. Turn(w, {"filter"}, {"idle", "lookup"}) /\ UNCHANGED <<requests, limiterOf>>
    BY <1>4, MessageTurns DEF Allow
  <2>2. job[w].pc \in Message /\ job'[w].pc # "add"
    BY <2>1 DEF Turn, Message
  <2>3. denied' = denied \/ denied' = denied \cup {job[w].peer}
    BY <1>4 DEF Allow, Enqueue, Deny
  <2> QED
    BY <1>0, <2>1, <2>2, <2>3, GoroutinesLeaveNothing
<1>5. CASE LookupLimiter(w)
  <2>1. Turn(w, {"lookup"}, {"create", "take"}) /\ UNCHANGED <<requests, limiterOf, denied>>
    BY <1>5, MessageTurns DEF LookupLimiter
  <2>2. job[w].pc \in Message /\ job'[w].pc # "add"
    BY <2>1 DEF Turn, Message
  <2> QED
    BY <1>0, <2>1, <2>2, GoroutinesLeaveNothing
<1>6. CASE CreateLimiter(w)
  <2>1. Turn(w, {"create"}, {"take"}) /\ UNCHANGED <<requests, denied>>
    BY <1>6, MessageTurns DEF CreateLimiter
  <2>2. job[w].pc \in Message /\ job'[w].pc # "add"
    BY <2>1 DEF Turn, Message
  <2>3. \A p \in Peers : p = job[w].peer \/ limiterOf'[p] = limiterOf[p]
    BY <1>6, Types DEF CreateLimiter
  <2> QED
    BY <1>0, <2>1, <2>2, <2>3, GoroutinesLeaveNothing
<1>7. CASE TakeToken(w)
  <2>1. Turn(w, {"take"}, {"idle"}) /\ UNCHANGED <<requests, limiterOf>>
    BY <1>7, MessageTurns DEF TakeToken
  <2>2. job[w].pc \in Message /\ job'[w].pc # "add"
    BY <2>1 DEF Turn, Message
  <2>3. denied' = denied \/ denied' = denied \cup {job[w].peer}
    BY <1>7 DEF TakeToken, Enqueue, Deny
  <2> QED
    BY <1>0, <2>1, <2>2, <2>3, GoroutinesLeaveNothing
<1> QED
  BY <1>1, <1>2, <1>3, <1>4, <1>5, <1>6, <1>7

(* A read knows no peer, and takes at most one of the addresses away        *)
(* (BlockStore.Get, GetAndRemoveRandomPeer).                                *)
LEMMA ReadsLeaveNothing ==
  ASSUME TypeOK, BehindInv, NEW w \in Workers,
         \/ BeginTask(w) \/ (\E c \in Cids : BeginRead(w, c))
         \/ CheckGroup(w) \/ CheckGroupFails(w) \/ FetchFails(w) \/ EmitDownload(w)
  PROVE  BehindInv'
<1>1. UNCHANGED <<open, cleanup, limiterOf, denied, hist>>
  BY DEF BeginTask, BeginRead, CheckGroup, CheckGroupFails, FetchFails, EmitDownload
<1>2. \/ Turn(w, {"idle"}, {"check"}) \/ Turn(w, {"check"}, {"fetch", "idle"})
      \/ Turn(w, {"check"}, {"fetch"}) \/ Turn(w, {"fetch"}, {"idle"})
  BY ReadTurns
<1>3. PICK from, to : Turn(w, from, to) /\ job'[w].pc \notin Message
  BY <1>2 DEF Turn, Message
<1>4. \A c \in Cids : \A ip \in requests'[c] : ip \in requests[c]
  BY Types DEF BeginTask, BeginRead, CheckGroup, CheckGroupFails, FetchFails, EmitDownload, TakePeer
<1>5. job'[w].pc # "add"
  BY <1>3 DEF Message
<1> QED
  BY <1>1, <1>3, <1>4, <1>5, GoroutinesLeaveNothing

(* A peer that is gone leaves no want, no limiter and no count behind,      *)
(* unless a message of it was in process when a listener ran, however many  *)
(* connections, messages and reads there are (bitswap_tracer.go,            *)
(* want_filter.go).                                                         *)
THEOREM LeftClean == Spec => []NothingLeftBehind
<1>1. Init => BehindInv
  BY DEF Init, BehindInv, MessageHeld, Message, Idle
<1>2. TypeOK /\ BehindInv /\ [Next]_vars => BehindInv'
  <2> SUFFICES ASSUME TypeOK, BehindInv, [Next]_vars PROVE BehindInv'
    OBVIOUS
  <2>1. CASE Refill \/ UNCHANGED vars
    <3>1. UNCHANGED <<open, cleanup, requests, limiterOf, denied, job, hist>>
      BY <2>1 DEF Refill, vars
    <3> QED
      BY <3>1, StillHeld DEF BehindInv, MessageHeld
  <2>2. CASE \E n \in Conns : Disconnect(n) \/ HandlePeerDisconnected(n) \/ RemovePeerLimiter(n)
    BY <2>2, ConnsLeaveNothing
  <2>3. ASSUME NEW w \in Workers,
               \/ \E n \in Conns, c \in Cids : Receive(w, n, c)
               \/ MessageReceived(w) \/ TrackWants(w) \/ Allow(w) \/ LookupLimiter(w) \/ CreateLimiter(w)
               \/ TakeToken(w)
        PROVE  BehindInv'
    BY <2>3, MessagesLeaveNothing
  <2>4. ASSUME NEW w \in Workers,
               \/ BeginTask(w) \/ (\E c \in Cids : BeginRead(w, c))
               \/ CheckGroup(w) \/ CheckGroupFails(w) \/ FetchFails(w) \/ EmitDownload(w)
        PROVE  BehindInv'
    BY <2>4, ReadsLeaveNothing
  <2> QED
    BY <2>1, <2>2, <2>3, <2>4 DEF Next
<1>3. BehindInv => NothingLeftBehind
  <2> SUFFICES ASSUME BehindInv PROVE NothingLeftBehind
    OBVIOUS
  <2> DEFINE gone(conns) ==
               /\ open \cap conns = {}
               /\ {x[1] : x \in cleanup} \cap conns = {}
               /\ {n.peer : n \in conns} \cap (hist.raced \cup InProcess) = {}
  <2>1. ASSUME NEW p \in Peers, gone({n \in Conns : n.peer = p})
        PROVE  ~Held(p)
    <3>1. PICK m \in Conns : m.peer = p
      BY DEF Peers
    <3>2. p \notin hist.raced
      BY <2>1, <3>1
    <3>3. ASSUME NEW n \in Conns, n.peer = p
          PROVE  n \notin open /\ <<n, "filter">> \notin cleanup
      BY <2>1, <3>3
    <3> QED
      BY <3>2, <3>3 DEF Held
  <2>2. ASSUME NEW ip \in Addrs, gone({n \in Conns : n.ip = ip}), NEW p
        PROVE  ~Tracks(p, ip)
    <3>1. ASSUME NEW n \in Conns, n.peer = p, n.ip = ip
          PROVE  p \notin hist.raced /\ n \notin open /\ <<n, "tracker">> \notin cleanup
      <4>1. n \in {m \in Conns : m.ip = ip}
        BY <3>1
      <4>2. n \notin open /\ <<n, "tracker">> \notin cleanup
        BY <2>2, <4>1
      <4>3. p \in {m.peer : m \in {k \in Conns : k.ip = ip}}
        BY <3>1, <4>1
      <4> QED
        BY <2>2, <4>2, <4>3
    <3> QED
      BY <3>1 DEF Tracks
  <2> QED
    BY <2>1, <2>2 DEF BehindInv, NothingLeftBehind
<1> QED
  BY <1>1, <1>2, <1>3, TypeCorrect, PTL DEF Spec

-----------------------------------------------------------------------------
(* The limiters.                                                            *)

(* A message that has the global token and has not passed yet.              *)
Passing == Busy({"lookup", "create", "take"})

(* Every token of the global limiter that was ever there is still there, or *)
(* a message has it, or one passed with it, or was denied by its peer's own *)
(* limiter (Allow).                                                         *)
GlobalLimitInv == hist.passed + Cardinality(Passing) + global <= GlobalBurst + bounds.refills

(* At the start all tokens of the global limiter are there.                 *)
LEMMA GlobalInit == Init => GlobalLimitInv
<1> SUFFICES ASSUME Init PROVE GlobalLimitInv
  OBVIOUS
<1>1. Passing = {}
  BY DEF Init, Passing, Busy, Idle
<1>2. Cardinality(Passing) = 0
  BY <1>1, FS_EmptySet
<1> QED
  BY <1>2, BurstAssumption DEF Init, GlobalLimitInv

(* A step of a goroutine that neither takes a global token nor passes.      *)
LEMMA OthersKeepGlobal ==
  ASSUME TypeOK, GlobalLimitInv, NEW w \in Workers, NEW from, NEW to, Turn(w, from, to),
         job'[w].pc \in {"lookup", "create", "take"} => job[w].pc \in {"lookup", "create", "take"},
         global' = global, hist'.passed = hist.passed, bounds'.refills = bounds.refills
  PROVE  GlobalLimitInv'
<1>1. /\ Cardinality(Passing) \in Nat /\ Cardinality(Passing') \in Nat
      /\ Cardinality(Passing') = Cardinality(Passing) \/ Cardinality(Passing') = Cardinality(Passing) - 1
  BY BusyMove DEF Passing
<1>2. global \in Nat /\ hist.passed \in Nat /\ bounds.refills \in Nat /\ GlobalBurst \in Nat
  BY Types DEF Bounds, History
<1> QED
  BY <1>1, <1>2 DEF GlobalLimitInv

(* Every step keeps the account of the global tokens.                       *)
LEMMA GlobalStep == TypeOK /\ GlobalLimitInv /\ [Next]_vars => GlobalLimitInv'
<1> SUFFICES ASSUME TypeOK, GlobalLimitInv, [Next]_vars PROVE GlobalLimitInv'
  OBVIOUS
<1> DEFINE tokenPlaces == {"lookup", "create", "take"}
<1>0. /\ global \in 0..GlobalBurst /\ hist \in History /\ hist.passed \in Nat
      /\ bounds \in Bounds /\ bounds.refills \in Nat /\ GlobalBurst \in Nat
  BY Types DEF Bounds, History
<1>1. CASE Refill
  <2>1. global' <= global + 1
    <3>1. global' = Min({GlobalBurst, global + 1}) /\ global + 1 \in Nat
      BY <1>0, <1>1 DEF Refill
    <3>2. global' = IF GlobalBurst <= global + 1 THEN GlobalBurst ELSE global + 1
      BY <1>0, <3>1, MinOfTwo
    <3> QED
      BY <1>0, <3>2
  <2>2. bounds'.refills = bounds.refills + 1 /\ hist' = hist /\ job' = job
    BY <1>0, <1>1, Counting DEF Refill
  <2>3. Passing' = Passing /\ Cardinality(Passing) \in Nat
    <3>1. Passing' = Passing /\ Passing \in SUBSET Workers
      BY <2>2 DEF Passing, Busy
    <3> QED
      BY <3>1, BurstAssumption, FS_Subset, FS_CardinalityType
  <2>4. global' \in Nat
    BY <1>1, LimiterTypes, BurstAssumption DEF TypeOK
  <2> QED
    BY <1>0, <2>1, <2>2, <2>3, <2>4 DEF GlobalLimitInv
<1>2. CASE UNCHANGED vars \/ \E n \in Conns : Disconnect(n) \/ HandlePeerDisconnected(n) \/ RemovePeerLimiter(n)
  <2>1. job' = job /\ global' = global
    BY <1>2 DEF Disconnect, HandlePeerDisconnected, RemovePeerLimiter, vars
  <2>2. bounds'.refills = bounds.refills
    BY <1>0, <1>2, Counting DEF Disconnect, HandlePeerDisconnected, RemovePeerLimiter, vars
  <2>3. hist'.passed = hist.passed
    BY <1>0, <1>2 DEF Disconnect, HandlePeerDisconnected, RemovePeerLimiter, vars, History
  <2> QED
    BY <2>1, <2>2, <2>3 DEF GlobalLimitInv, Passing, Busy
<1>3. ASSUME NEW w \in Workers, Allow(w) PROVE GlobalLimitInv'
  <2>1. Turn(w, {"filter"}, {"idle", "lookup"}) /\ UNCHANGED <<bounds, hist>>
    BY <1>3, MessageTurns DEF Allow
  <2>2. /\ Cardinality(Passing) \in Nat
        /\ job'[w].pc = "lookup" => Cardinality(Passing') = Cardinality(Passing) + 1
        /\ job'[w].pc # "lookup" => Cardinality(Passing') = Cardinality(Passing)
    BY <2>1, BusyMove DEF Passing, Turn
  <2>3. CASE global' = global /\ job'[w].pc # "lookup"
    BY <2>1, <2>2, <2>3 DEF GlobalLimitInv
  <2>4. CASE global > 0 /\ global' = global - 1
    BY <1>0, <2>1, <2>2, <2>4 DEF GlobalLimitInv
  <2>5. job' = [job EXCEPT ![w] = Idle] => job'[w].pc # "lookup"
    BY DEF TypeOK, Idle
  <2> QED
    BY <1>3, <2>3, <2>4, <2>5 DEF Allow, Enqueue, Deny
<1>4. ASSUME NEW w \in Workers, TakeToken(w) PROVE GlobalLimitInv'
  <2>1. Turn(w, {"take"}, {"idle"}) /\ UNCHANGED <<bounds, global>>
    BY <1>4, MessageTurns DEF TakeToken
  <2>2. Cardinality(Passing) \in Nat /\ Cardinality(Passing') = Cardinality(Passing) - 1
    BY <2>1, BusyMove DEF Passing, Turn
  <2>3. hist'.passed = hist.passed \/ hist'.passed = hist.passed + 1
    <3>1. hist' = hist \/ hist' = [hist EXCEPT !.allowed[job[w].peer] = @ + 1, !.passed = @ + 1]
      BY <1>4 DEF TakeToken
    <3> QED
      BY <1>0, <3>1 DEF History
  <2> QED
    BY <1>0, <2>1, <2>2, <2>3 DEF GlobalLimitInv
<1>5. ASSUME NEW w \in Workers,
             \/ MessageReceived(w) \/ TrackWants(w) \/ LookupLimiter(w) \/ CreateLimiter(w) \/ BeginTask(w)
             \/ CheckGroup(w) \/ FetchFails(w) \/ EmitDownload(w)
      PROVE  GlobalLimitInv'
  <2>1. UNCHANGED <<global, hist, bounds>>
    BY <1>5 DEF MessageReceived, TrackWants, LookupLimiter, CreateLimiter, BeginTask, CheckGroup, FetchFails, EmitDownload
  <2>2. \/ Turn(w, {"trace"}, {"add", "filter"}) \/ Turn(w, {"add"}, {"filter"})
        \/ Turn(w, {"lookup"}, {"create", "take"}) \/ Turn(w, {"create"}, {"take"})
        \/ Turn(w, {"idle"}, {"check"}) \/ Turn(w, {"check"}, {"fetch", "idle"}) \/ Turn(w, {"fetch"}, {"idle"})
    BY <1>5, MessageTurns, ReadTurns
  <2>3. PICK from, to : Turn(w, from, to) /\ (job'[w].pc \in tokenPlaces => job[w].pc \in tokenPlaces)
    BY <2>2 DEF Turn
  <2> QED
    BY <2>1, <2>3, OthersKeepGlobal
<1>6. ASSUME NEW w \in Workers,
             \/ \E n \in Conns, c \in Cids : Receive(w, n, c)
             \/ (\E c \in Cids : BeginRead(w, c)) \/ CheckGroupFails(w)
      PROVE  GlobalLimitInv'
  <2>1. UNCHANGED <<global, hist>>
    BY <1>6 DEF Receive, BeginRead, CheckGroupFails
  <2>2. bounds'.refills = bounds.refills
    BY <1>0, <1>6, Counting DEF Receive, BeginRead, CheckGroupFails
  <2>3. Turn(w, {"idle"}, {"trace"}) \/ Turn(w, {"idle"}, {"check"}) \/ Turn(w, {"check"}, {"fetch"})
    BY <1>6, MessageTurns, ReadTurns
  <2>4. PICK from, to : Turn(w, from, to) /\ (job'[w].pc \in tokenPlaces => job[w].pc \in tokenPlaces)
    BY <2>3 DEF Turn
  <2> QED
    BY <2>1, <2>2, <2>4, OthersKeepGlobal
<1> QED
  BY <1>1, <1>2, <1>3, <1>4, <1>5, <1>6 DEF Next

(* The tokens taken from a peer's limiters are finitely many, and no more   *)
(* than each of them may have granted.                                      *)
LEMMA SpentFinite ==
  ASSUME NEW len \in Nat, NEW maker \in [1..len -> Peers], NEW tokens, NEW room \in Nat, NEW p
  PROVE  /\ IsFiniteSet(LimitersOf(maker, p)) /\ Cardinality(LimitersOf(maker, p)) \in Nat
         /\ IsFiniteSet(Spent(maker, tokens, room, p)) /\ Cardinality(Spent(maker, tokens, room, p)) \in Nat
         /\ Cardinality(Spent(maker, tokens, room, p)) <= Cardinality(LimitersOf(maker, p)) * room
<1> DEFINE mine == LimitersOf(maker, p)
<1>1. IsFiniteSet(1..len) /\ IsFiniteSet(1..room) /\ Cardinality(1..room) = room
  BY FS_Interval
<1>2. IsFiniteSet(mine) /\ Cardinality(mine) \in Nat
  <2>1. mine \in SUBSET (1..len)
    BY DEF LimitersOf
  <2> QED
    BY <1>1, <2>1, FS_Subset, FS_CardinalityType
<1>3. IsFiniteSet(mine \X (1..room)) /\ Cardinality(mine \X (1..room)) = Cardinality(mine) * room
  BY <1>1, <1>2, FS_Product
<1>4. Spent(maker, tokens, room, p) \in SUBSET (mine \X (1..room))
  BY DEF Spent
<1>5. /\ IsFiniteSet(Spent(maker, tokens, room, p))
      /\ Cardinality(Spent(maker, tokens, room, p)) <= Cardinality(mine \X (1..room))
  BY <1>3, <1>4, FS_Subset
<1>6. Cardinality(Spent(maker, tokens, room, p)) \in Nat
  BY <1>5, FS_CardinalityType
<1> QED
  BY <1>2, <1>3, <1>5, <1>6

(* A limiter that is made, and tokens that are refilled, take nothing back  *)
(* from what was granted.                                                   *)
LEMMA SpentGrows ==
  ASSUME NEW len \in Nat, NEW len2 \in Nat, len <= len2,
         NEW maker \in [1..len -> Peers], NEW maker2 \in [1..len2 -> Peers],
         NEW tokens, NEW tokens2, NEW room \in Nat, NEW room2 \in Nat, room <= room2,
         \A l \in 1..len : /\ maker2[l] = maker[l] /\ tokens[l] \in Nat /\ tokens2[l] \in Nat
                           /\ tokens2[l] + room <= tokens[l] + room2,
         NEW p
  PROVE  /\ Spent(maker, tokens, room, p) \subseteq Spent(maker2, tokens2, room2, p)
         /\ Cardinality(Spent(maker, tokens, room, p)) <= Cardinality(Spent(maker2, tokens2, room2, p))
<1>1. Spent(maker, tokens, room, p) \in SUBSET Spent(maker2, tokens2, room2, p)
  <2> SUFFICES ASSUME NEW x \in Spent(maker, tokens, room, p)
               PROVE  x \in Spent(maker2, tokens2, room2, p)
    OBVIOUS
  <2>1. PICK l \in LimitersOf(maker, p), k \in 1..room : x = <<l, k>> /\ k + tokens[l] <= room
    BY DEF Spent
  <2>2. l \in 1..len /\ maker[l] = p
    BY <2>1 DEF LimitersOf
  <2>3. l \in LimitersOf(maker2, p)
    BY <2>2 DEF LimitersOf
  <2>4. k \in 1..room2 /\ k + tokens2[l] <= room2
    BY <2>1, <2>2
  <2> QED
    BY <2>1, <2>3, <2>4 DEF Spent
<1> QED
  BY <1>1, SpentFinite, FS_Subset

(* A token that is taken is one more that was granted.                      *)
LEMMA SpentOneMore ==
  ASSUME NEW len \in Nat, NEW maker \in [1..len -> Peers], NEW tokens \in [1..len -> Nat], NEW room \in Nat,
         NEW l \in 1..len, tokens[l] > 0, tokens[l] <= room
  PROVE  LET spent == [tokens EXCEPT ![l] = tokens[l] - 1]
         IN Cardinality(Spent(maker, spent, room, maker[l])) >= Cardinality(Spent(maker, tokens, room, maker[l])) + 1
<1> DEFINE spent == [tokens EXCEPT ![l] = tokens[l] - 1]
           token == <<l, room - tokens[l] + 1>>
           old == Spent(maker, tokens, room, maker[l])
           new == Spent(maker, spent, room, maker[l])
<1>1. \A m \in 1..len : tokens[m] \in Nat /\ spent[m] \in Nat /\ spent[m] <= tokens[m] /\ spent[l] = tokens[l] - 1
  OBVIOUS
<1> HIDE DEF spent
<1>2. old \subseteq new
  <2>1. \A m \in 1..len : /\ maker[m] = maker[m] /\ tokens[m] \in Nat /\ spent[m] \in Nat
                           /\ spent[m] + room <= tokens[m] + room
    BY <1>1
  <2>2. len <= len /\ room <= room
    OBVIOUS
  <2> QED
    BY <2>1, <2>2, SpentGrows
<1>3. token \in new /\ token \notin old
  <2>1. l \in LimitersOf(maker, maker[l]) /\ room - tokens[l] + 1 \in 1..room
    BY <1>1 DEF LimitersOf
  <2>2. token \in LimitersOf(maker, maker[l]) \X (1..room) /\ token[1] = l /\ token[2] = room - tokens[l] + 1
    BY <2>1
  <2>3. token[2] + spent[token[1]] <= room /\ ~(token[2] + tokens[token[1]] <= room)
    BY <1>1, <2>2
  <2> HIDE DEF token
  <2> QED
    BY <2>2, <2>3 DEF Spent
<1>4. IsFiniteSet(old) /\ IsFiniteSet(new) /\ Cardinality(old) \in Nat /\ Cardinality(new) \in Nat
  BY SpentFinite
<1> HIDE DEF old, new, token
<1>5. Cardinality(old \cup {token}) = Cardinality(old) + 1
  BY <1>3, <1>4, FS_AddElement
<1>6. Cardinality(old \cup {token}) <= Cardinality(new)
  BY <1>2, <1>3, <1>4, FS_Subset
<1> QED
  BY <1>4, <1>5, <1>6 DEF old, new, spent

(* The tokens that one limiter may have granted by now.                     *)
Room == PeerBurst + bounds.refills

(* The types of the limiters and of what was counted of them.               *)
LEMMA LimitTypes ==
  ASSUME TypeOK
  PROVE  /\ Len(buckets) \in Nat /\ Room \in Nat /\ bounds.refills \in Nat
         /\ buckets \in [1..Len(buckets) -> Nat]
         /\ \A l \in 1..Len(buckets) : buckets[l] <= PeerBurst /\ buckets[l] <= Room
         /\ \A p \in Peers : /\ hist.allowed[p] \in Nat /\ hist.resets[p] \in Nat
                             /\ limiterOf[p] \in 0..Len(buckets)
         /\ \A w \in Workers : job[w].pc = "take" => job[w].limiter \in 1..Len(buckets) /\ job[w].peer \in Peers
<1>1. /\ Len(buckets) \in Nat /\ \A l \in 1..Len(buckets) : buckets[l] \in 0..PeerBurst
      /\ PeerBurst \in Nat /\ bounds.refills \in Nat
  BY Types DEF Bounds
<1>2. buckets \in [1..Len(buckets) -> Nat]
  <2> DEFINE S == 0..PeerBurst
  <2>1. buckets \in Seq(S)
    BY Types
  <2> HIDE DEF S
  <2>2. buckets \in [1..Len(buckets) -> S]
    BY <2>1
  <2> USE DEF S
  <2>3. buckets \in [1..Len(buckets) -> 0..PeerBurst]
    BY <2>2
  <2> QED
    BY <1>1, <2>3
<1>3. \A p \in Peers : /\ hist.allowed[p] \in Nat /\ hist.resets[p] \in Nat
                       /\ limiterOf[p] \in 0..Len(buckets)
  BY Types DEF History
<1>4. \A w \in Workers : job[w].pc = "take" => job[w].limiter \in 1..Len(buckets) /\ job[w].peer \in Peers
  BY JobParts DEF TypeOK, At, Message
<1> QED
  BY <1>1, <1>2, <1>3, <1>4 DEF Room

(* A step that touches no limiter and sends nobody to take a token.         *)
LEMMA OthersKeepLimits ==
  ASSUME PeerLimitInv, UNCHANGED <<buckets, limiterOf>>,
         hist'.allowed = hist.allowed, hist'.resets = hist.resets, bounds'.refills = bounds.refills,
         \A v \in Workers : job'[v].pc = "take" => job'[v] = job[v]
  PROVE  PeerLimitInv'
<1>1. PICK maker \in [1..Len(buckets) -> Peers] : MadeFor(maker) /\ Grants(maker)
  BY DEF PeerLimitInv
<1>2. MadeFor(maker)'
  BY <1>1 DEF MadeFor
<1>3. Grants(maker)'
  BY <1>1 DEF Grants
<1> QED
  BY <1>1, <1>2, <1>3 DEF PeerLimitInv

(* Two goroutines that look a limiter up find the same one                  *)
(* (getPeerLimiter).                                                        *)
LEMMA LookupKeepsLimits ==
  ASSUME TypeOK, PeerLimitInv, NEW w \in Workers, LookupLimiter(w)
  PROVE  PeerLimitInv'
<1>1. PICK maker \in [1..Len(buckets) -> Peers] : MadeFor(maker) /\ Grants(maker)
  BY DEF PeerLimitInv
<1>2. UNCHANGED <<buckets, limiterOf, hist, bounds>>
  BY DEF LookupLimiter
<1>3. /\ Turn(w, {"lookup"}, {"create", "take"})
      /\ job'[w].pc = "take" => job'[w].limiter = limiterOf[job[w].peer] /\ job'[w].limiter # 0
  BY MessageTurns
<1>4. job[w].peer \in Peers
  BY JobParts DEF LookupLimiter, At, TypeOK, Message
<1>5. job'[w].pc = "take" => maker[job'[w].limiter] = job'[w].peer
  BY <1>1, <1>3, <1>4 DEF MadeFor, Turn, Message
<1>6. MadeFor(maker)'
  <2>1. \A p \in Peers : limiterOf'[p] # 0 => maker[limiterOf'[p]] = p
    BY <1>1, <1>2 DEF MadeFor
  <2>2. \A v \in Workers : job'[v].pc = "take" => maker[job'[v].limiter] = job'[v].peer
    BY <1>1, <1>3, <1>5 DEF MadeFor, Turn
  <2> QED
    BY <2>1, <2>2 DEF MadeFor
<1>7. Grants(maker)'
  BY <1>1, <1>2 DEF Grants
<1> QED
  BY <1>1, <1>2, <1>6, <1>7 DEF PeerLimitInv

(* A limiter is made under the write lock, and only if there is none        *)
(* (getPeerLimiter).                                                        *)
LEMMA CreateKeepsLimits ==
  ASSUME TypeOK, PeerLimitInv, NEW w \in Workers, CreateLimiter(w)
  PROVE  PeerLimitInv'
<1> DEFINE p == job[w].peer
           len == Len(buckets)
<1>1. PICK maker \in [1..len -> Peers] : MadeFor(maker) /\ Grants(maker)
  BY DEF PeerLimitInv
<1>2. /\ Turn(w, {"create"}, {"take"}) /\ job'[w].limiter = limiterOf'[p]
      /\ UNCHANGED <<hist, bounds>>
  BY MessageTurns DEF CreateLimiter
<1>3. p \in Peers /\ len \in Nat /\ job'[w].peer = p
  BY <1>2, JobParts, LimitTypes DEF CreateLimiter, At, TypeOK, Message, Turn
<1>4. CASE limiterOf[p] # 0
  <2>1. UNCHANGED <<buckets, limiterOf>>
    BY <1>3, <1>4, Types DEF CreateLimiter
  <2>2. MadeFor(maker)'
    <3>1. \A q \in Peers : limiterOf'[q] # 0 => maker[limiterOf'[q]] = q
      BY <1>1, <2>1 DEF MadeFor
    <3>2. maker[job'[w].limiter] = job'[w].peer
      BY <1>2, <1>3, <1>4, <2>1, <3>1
    <3>3. \A v \in Workers : job'[v].pc = "take" => maker[job'[v].limiter] = job'[v].peer
      BY <1>1, <1>2, <3>2 DEF MadeFor, Turn
    <3> QED
      BY <3>1, <3>3 DEF MadeFor
  <2>3. Grants(maker)'
    BY <1>1, <1>2, <2>1 DEF Grants
  <2> QED
    BY <2>1, <2>2, <2>3 DEF PeerLimitInv
<1>5. CASE limiterOf[p] = 0
  <2>1. buckets' = Append(buckets, PeerBurst) /\ limiterOf' = [limiterOf EXCEPT ![p] = len + 1]
    BY <1>5 DEF CreateLimiter
  <2>2. /\ Len(buckets') = len + 1 /\ \A l \in 1..len : buckets'[l] = buckets[l]
        /\ limiterOf'[p] = len + 1 /\ \A q \in Peers \ {p} : limiterOf'[q] = limiterOf[q]
    BY <1>3, <2>1, Types
  <2>3. PICK maker2 \in [1..(len + 1) -> Peers] : /\ maker2[len + 1] = p
                                                  /\ \A l \in 1..len : maker2[l] = maker[l]
    <3> DEFINE next == [l \in 1..(len + 1) |-> IF l = len + 1 THEN p ELSE maker[l]]
    <3>1. /\ next \in [1..(len + 1) -> Peers] /\ next[len + 1] = p
          /\ \A l \in 1..len : next[l] = maker[l]
      BY <1>1, <1>3
    <3> QED
      BY <3>1
  <2>4. MadeFor(maker2)'
    <3>1. ASSUME NEW q \in Peers, limiterOf'[q] # 0 PROVE maker2[limiterOf'[q]] = q
      <4>1. CASE q = p
        BY <2>2, <2>3, <4>1
      <4>2. CASE q # p
        <5>1. limiterOf[q] \in 1..len /\ limiterOf'[q] = limiterOf[q]
          BY <1>3, <2>2, <3>1, <4>2, LimitTypes
        <5> QED
          BY <1>1, <2>3, <3>1, <5>1 DEF MadeFor
      <4> QED
        BY <4>1, <4>2
    <3>2. ASSUME NEW v \in Workers, job'[v].pc = "take" PROVE maker2[job'[v].limiter] = job'[v].peer
      <4>1. CASE v = w
        BY <1>2, <1>3, <2>2, <2>3, <4>1
      <4>2. CASE v # w
        <5>1. job'[v] = job[v] /\ job[v].limiter \in 1..len
          BY <1>2, <3>2, <4>2, LimitTypes DEF Turn
        <5> QED
          BY <1>1, <2>3, <3>2, <5>1 DEF MadeFor
      <4> QED
        BY <4>1, <4>2
    <3> QED
      BY <3>1, <3>2 DEF MadeFor
  <2>5. Grants(maker2)'
    <3> SUFFICES ASSUME NEW q \in Peers
                 PROVE  /\ Cardinality(LimitersOf(maker2, q)) <= hist.resets[q] + (IF limiterOf'[q] = 0 THEN 0 ELSE 1)
                        /\ hist.allowed[q] <= Cardinality(Spent(maker2, buckets', Room, q))
      BY <1>2 DEF Grants, Room
    <3>1. /\ Cardinality(LimitersOf(maker, q)) <= hist.resets[q] + (IF limiterOf[q] = 0 THEN 0 ELSE 1)
          /\ hist.allowed[q] <= Cardinality(Spent(maker, buckets, Room, q))
      BY <1>1 DEF Grants, Room
    <3>2. /\ IsFiniteSet(LimitersOf(maker, q)) /\ Cardinality(LimitersOf(maker, q)) \in Nat
          /\ Cardinality(Spent(maker, buckets, Room, q)) \in Nat
      BY <1>1, <1>3, SpentFinite, LimitTypes
    <3>3. Cardinality(LimitersOf(maker2, q)) <= hist.resets[q] + (IF limiterOf'[q] = 0 THEN 0 ELSE 1)
      <4>1. CASE q = p
        <5>1. LimitersOf(maker2, q) = LimitersOf(maker, q) \cup {len + 1} /\ len + 1 \notin LimitersOf(maker, q)
          BY <1>3, <2>3, <4>1 DEF LimitersOf
        <5>2. Cardinality(LimitersOf(maker2, q)) = Cardinality(LimitersOf(maker, q)) + 1
          BY <3>2, <5>1, FS_AddElement
        <5>3. hist.resets[q] \in Nat /\ limiterOf'[q] # 0
          BY <1>3, <2>2, <4>1, LimitTypes
        <5> QED
          BY <1>5, <3>1, <3>2, <4>1, <5>2, <5>3
      <4>2. CASE q # p
        <5>1. LimitersOf(maker2, q) = LimitersOf(maker, q)
          BY <1>3, <2>3, <4>2 DEF LimitersOf
        <5> QED
          BY <2>2, <3>1, <4>2, <5>1
      <4> QED
        BY <4>1, <4>2
    <3>4. Cardinality(Spent(maker, buckets, Room, q)) <= Cardinality(Spent(maker2, buckets', Room, q))
      <4>1. \A l \in 1..len : /\ maker2[l] = maker[l] /\ buckets[l] \in Nat /\ buckets'[l] \in Nat
                              /\ buckets'[l] + Room <= buckets[l] + Room
        BY <2>2, <2>3, LimitTypes
      <4>2. Room \in Nat /\ Room <= Room /\ len <= len + 1 /\ len + 1 \in Nat
        BY <1>3, LimitTypes
      <4> QED
        BY <1>1, <1>3, <2>3, <4>1, <4>2, SpentGrows
    <3>5. Cardinality(Spent(maker2, buckets', Room, q)) \in Nat /\ hist.allowed[q] \in Nat
      <4>1. Room \in Nat /\ len + 1 \in Nat /\ hist.allowed[q] \in Nat
        BY <1>3, LimitTypes
      <4> QED
        BY <2>3, <4>1, SpentFinite
    <3> QED
      BY <3>1, <3>2, <3>3, <3>4, <3>5
  <2> QED
    BY <2>2, <2>3, <2>4, <2>5 DEF PeerLimitInv
<1> QED
  BY <1>4, <1>5

(* A message that passes takes a token of a limiter of its own peer, even   *)
(* of one that has been removed meanwhile (Allow).                          *)
LEMMA TakeKeepsLimits ==
  ASSUME TypeOK, PeerLimitInv, NEW w \in Workers, TakeToken(w)
  PROVE  PeerLimitInv'
<1>1. /\ Turn(w, {"take"}, {"idle"}) /\ job[w].pc = "take"
      /\ UNCHANGED <<limiterOf, bounds>>
      /\ \A v \in Workers : job'[v].pc = "take" => job'[v] = job[v]
  BY MessageTurns DEF TakeToken, Turn
<1>2. CASE UNCHANGED <<buckets, hist>>
  BY <1>1, <1>2, OthersKeepLimits
<1>3. CASE ~(UNCHANGED <<buckets, hist>>)
  <2>1. PICK p, l : p = job[w].peer /\ l = job[w].limiter
    OBVIOUS
  <2>2. PICK len, room : len = Len(buckets) /\ room = Room
    OBVIOUS
  <2>3. PICK maker \in [1..len -> Peers] : MadeFor(maker) /\ Grants(maker)
    BY <2>2 DEF PeerLimitInv
  <2>4. p \in Peers /\ l \in 1..len /\ maker[l] = p
    BY <1>1, <2>1, <2>2, <2>3, LimitTypes DEF MadeFor
  <2>5. /\ len \in Nat /\ room \in Nat /\ buckets \in [1..len -> Nat] /\ buckets[l] <= room
        /\ \A q \in Peers : hist.allowed[q] \in Nat /\ hist.resets[q] \in Nat
    BY <2>2, <2>4, LimitTypes
  <2>6. /\ buckets[l] > 0 /\ buckets' = [buckets EXCEPT ![l] = buckets[l] - 1]
        /\ hist' = [hist EXCEPT !.allowed[p] = @ + 1, !.passed = @ + 1]
    BY <1>3, <2>1 DEF TakeToken
  <2>7. /\ hist'.resets = hist.resets
        /\ \A q \in Peers : hist'.allowed[q] = IF q = p THEN hist.allowed[q] + 1 ELSE hist.allowed[q]
    BY <2>4, <2>6, Types DEF History
  <2>8. Len(buckets') = len /\ Room' = room
    BY <1>1, <2>2, <2>4, <2>6, Types DEF Room
  <2>9. MadeFor(maker)'
    BY <1>1, <2>3 DEF MadeFor
  <2>10. Grants(maker)'
    <3> SUFFICES ASSUME NEW q \in Peers
                 PROVE  /\ Cardinality(LimitersOf(maker, q)) <= hist'.resets[q] + (IF limiterOf'[q] = 0 THEN 0 ELSE 1)
                        /\ hist'.allowed[q] <= Cardinality(Spent(maker, buckets', room, q))
      BY <2>8 DEF Grants, Room
    <3>1. /\ Cardinality(LimitersOf(maker, q)) <= hist.resets[q] + (IF limiterOf[q] = 0 THEN 0 ELSE 1)
          /\ hist.allowed[q] <= Cardinality(Spent(maker, buckets, room, q))
      BY <2>2, <2>3 DEF Grants, Room
    <3>2. /\ Cardinality(Spent(maker, buckets, room, q)) \in Nat
          /\ Cardinality(Spent(maker, buckets', room, q)) \in Nat
      BY <2>5, SpentFinite
    <3>3. CASE q = p
      <4>1. Cardinality(Spent(maker, buckets', room, q)) >= Cardinality(Spent(maker, buckets, room, q)) + 1
        BY <2>4, <2>5, <2>6, <3>3, SpentOneMore
      <4> QED
        BY <1>1, <2>5, <2>7, <3>1, <3>2, <3>3, <4>1
    <3>4. CASE q # p
      <4>1. \A m \in 1..len : /\ maker[m] = maker[m] /\ buckets[m] \in Nat /\ buckets'[m] \in Nat
                              /\ buckets'[m] + room <= buckets[m] + room
        BY <2>4, <2>5, <2>6
      <4>2. len <= len /\ room <= room
        BY <2>5
      <4>3. Cardinality(Spent(maker, buckets, room, q)) <= Cardinality(Spent(maker, buckets', room, q))
        BY <2>5, <4>1, <4>2, SpentGrows
      <4> QED
        BY <1>1, <2>5, <2>7, <3>1, <3>2, <3>4, <4>3
    <3> QED
      BY <3>3, <3>4
  <2> QED
    BY <2>2, <2>8, <2>9, <2>10 DEF PeerLimitInv
<1> QED
  BY <1>2, <1>3

(* Time adds a token at most to every limiter.                              *)
LEMMA RefillKeepsLimits ==
  ASSUME TypeOK, PeerLimitInv, Refill
  PROVE  PeerLimitInv'
<1>1. PICK len, room : len = Len(buckets) /\ room = Room
  OBVIOUS
<1>2. PICK maker \in [1..len -> Peers] : MadeFor(maker) /\ Grants(maker)
  BY <1>1 DEF PeerLimitInv
<1>3. /\ len \in Nat /\ room \in Nat /\ buckets \in [1..len -> Nat] /\ PeerBurst \in Nat
      /\ \A q \in Peers : hist.allowed[q] \in Nat /\ hist.resets[q] \in Nat
  BY <1>1, LimitTypes, Types
<1>4. /\ UNCHANGED <<limiterOf, job, hist>>
      /\ buckets' = [l \in 1..len |-> Min({PeerBurst, buckets[l] + 1})]
  BY <1>1, <1>3 DEF Refill
<1>5. \A l \in 1..len : buckets'[l] \in Nat /\ buckets'[l] <= buckets[l] + 1
  <2> SUFFICES ASSUME NEW l \in 1..len PROVE buckets'[l] \in Nat /\ buckets'[l] <= buckets[l] + 1
    OBVIOUS
  <2>1. buckets[l] + 1 \in Nat /\ buckets'[l] = Min({PeerBurst, buckets[l] + 1})
    BY <1>3, <1>4
  <2>2. Min({PeerBurst, buckets[l] + 1}) = IF PeerBurst <= buckets[l] + 1 THEN PeerBurst ELSE buckets[l] + 1
    BY <1>3, <2>1, MinOfTwo
  <2> QED
    BY <1>3, <2>1, <2>2
<1>6. Len(buckets') = len /\ Room' = room + 1
  <2>1. bounds'.refills = bounds.refills + 1 /\ bounds.refills \in Nat
    BY Types, Counting, LimitTypes DEF Refill
  <2> QED
    BY <1>1, <1>3, <1>4, <2>1 DEF Room
<1>7. MadeFor(maker)'
  BY <1>2, <1>4 DEF MadeFor
<1>8. Grants(maker)'
  <2> SUFFICES ASSUME NEW q \in Peers
               PROVE  /\ Cardinality(LimitersOf(maker, q)) <= hist.resets[q] + (IF limiterOf[q] = 0 THEN 0 ELSE 1)
                      /\ hist.allowed[q] <= Cardinality(Spent(maker, buckets', room + 1, q))
    BY <1>4, <1>6 DEF Grants, Room
  <2>1. /\ Cardinality(LimitersOf(maker, q)) <= hist.resets[q] + (IF limiterOf[q] = 0 THEN 0 ELSE 1)
        /\ hist.allowed[q] <= Cardinality(Spent(maker, buckets, room, q))
    BY <1>1, <1>2 DEF Grants, Room
  <2>2. /\ Cardinality(Spent(maker, buckets, room, q)) \in Nat
        /\ Cardinality(Spent(maker, buckets', room + 1, q)) \in Nat
    <3>1. room + 1 \in Nat
      BY <1>3
    <3> QED
      BY <1>3, <3>1, SpentFinite
  <2>3. Cardinality(Spent(maker, buckets, room, q)) <= Cardinality(Spent(maker, buckets', room + 1, q))
    <3>1. \A m \in 1..len : /\ maker[m] = maker[m] /\ buckets[m] \in Nat /\ buckets'[m] \in Nat
                            /\ buckets'[m] + room <= buckets[m] + (room + 1)
      BY <1>3, <1>5
    <3>2. len <= len /\ room <= room + 1 /\ room + 1 \in Nat
      BY <1>3
    <3> QED
      BY <1>3, <3>1, <3>2, SpentGrows
  <2> QED
    BY <1>3, <2>1, <2>2, <2>3
<1> QED
  BY <1>1, <1>2, <1>6, <1>7, <1>8 DEF PeerLimitInv

(* A limiter that is removed makes room for one more (RemovePeerLimiter).   *)
LEMMA RemoveKeepsLimits ==
  ASSUME TypeOK, PeerLimitInv, NEW n \in Conns, RemovePeerLimiter(n)
  PROVE  PeerLimitInv'
<1>1. PICK maker \in [1..Len(buckets) -> Peers] : MadeFor(maker) /\ Grants(maker)
  BY DEF PeerLimitInv
<1>2. /\ UNCHANGED <<buckets, job, bounds>>
      /\ limiterOf' = [limiterOf EXCEPT ![n.peer] = 0]
      /\ hist' = [hist EXCEPT !.raced = @ \cup InProcess, !.resets[n.peer] = @ + 1]
  BY DEF RemovePeerLimiter
<1>3. n.peer \in Peers
  BY DEF Peers
<1>4. /\ hist'.allowed = hist.allowed
      /\ \A p \in Peers : /\ hist'.resets[p] = IF p = n.peer THEN hist.resets[p] + 1 ELSE hist.resets[p]
                          /\ limiterOf'[p] = IF p = n.peer THEN 0 ELSE limiterOf[p]
  BY <1>2, <1>3, Types DEF History
<1>5. MadeFor(maker)'
  BY <1>1, <1>2, <1>4 DEF MadeFor
<1>6. Grants(maker)'
  <2> SUFFICES ASSUME NEW p \in Peers
               PROVE  /\ Cardinality(LimitersOf(maker, p)) <= hist'.resets[p] + (IF limiterOf'[p] = 0 THEN 0 ELSE 1)
                      /\ hist'.allowed[p] <= Cardinality(Spent(maker, buckets, PeerBurst + bounds.refills, p))
    BY <1>2 DEF Grants
  <2>1. /\ Cardinality(LimitersOf(maker, p)) <= hist.resets[p] + (IF limiterOf[p] = 0 THEN 0 ELSE 1)
        /\ hist.allowed[p] <= Cardinality(Spent(maker, buckets, PeerBurst + bounds.refills, p))
    BY <1>1 DEF Grants
  <2>2. hist.resets[p] \in Nat /\ Cardinality(LimitersOf(maker, p)) \in Nat
    BY <1>1, LimitTypes, SpentFinite
  <2> QED
    BY <1>4, <2>1, <2>2
<1> QED
  BY <1>1, <1>2, <1>5, <1>6 DEF PeerLimitInv

(* Every step keeps the account of every peer's limiters.                   *)
LEMMA LimitStep == TypeOK /\ PeerLimitInv /\ [Next]_vars => PeerLimitInv'
<1> SUFFICES ASSUME TypeOK, PeerLimitInv, [Next]_vars PROVE PeerLimitInv'
  OBVIOUS
<1>0. bounds \in Bounds /\ hist \in History
  BY Types
<1>1. CASE UNCHANGED vars \/ \E n \in Conns : Disconnect(n) \/ HandlePeerDisconnected(n)
  <2>1. UNCHANGED <<buckets, limiterOf, job>>
    BY <1>1 DEF Disconnect, HandlePeerDisconnected, vars
  <2>2. bounds'.refills = bounds.refills
    BY <1>0, <1>1, Counting DEF Disconnect, HandlePeerDisconnected, vars
  <2>3. hist'.allowed = hist.allowed /\ hist'.resets = hist.resets
    BY <1>0, <1>1 DEF Disconnect, HandlePeerDisconnected, vars, History
  <2> QED
    BY <2>1, <2>2, <2>3, OthersKeepLimits
<1>2. CASE Refill \/ \E n \in Conns : RemovePeerLimiter(n)
  BY <1>2, RefillKeepsLimits, RemoveKeepsLimits
<1>3. ASSUME NEW w \in Workers, LookupLimiter(w) \/ CreateLimiter(w) \/ TakeToken(w)
      PROVE  PeerLimitInv'
  BY <1>3, LookupKeepsLimits, CreateKeepsLimits, TakeKeepsLimits
<1>4. ASSUME NEW w \in Workers,
             \/ \E n \in Conns, c \in Cids : Receive(w, n, c)
             \/ MessageReceived(w) \/ TrackWants(w) \/ Allow(w) \/ BeginTask(w) \/ (\E c \in Cids : BeginRead(w, c))
             \/ CheckGroup(w) \/ CheckGroupFails(w) \/ FetchFails(w) \/ EmitDownload(w)
      PROVE  PeerLimitInv'
  <2>1. UNCHANGED <<buckets, limiterOf, hist>>
    BY <1>4 DEF Receive, MessageReceived, TrackWants, Allow, BeginTask, BeginRead, CheckGroup, CheckGroupFails,
                FetchFails, EmitDownload
  <2>2. bounds'.refills = bounds.refills
    BY <1>0, <1>4, Counting DEF Receive, MessageReceived, TrackWants, Allow, BeginTask, BeginRead, CheckGroup,
                CheckGroupFails, FetchFails, EmitDownload
  <2>3. \/ Turn(w, {"idle"}, {"trace"}) \/ Turn(w, {"trace"}, {"add", "filter"}) \/ Turn(w, {"add"}, {"filter"})
        \/ Turn(w, {"filter"}, {"idle", "lookup"}) \/ Turn(w, {"idle"}, {"check"})
        \/ Turn(w, {"check"}, {"fetch", "idle"}) \/ Turn(w, {"check"}, {"fetch"}) \/ Turn(w, {"fetch"}, {"idle"})
    BY <1>4, MessageTurns, ReadTurns
  <2>4. \A v \in Workers : job'[v].pc = "take" => job'[v] = job[v]
    BY <2>3 DEF Turn
  <2> QED
    BY <2>1, <2>2, <2>4, OthersKeepLimits
<1> QED
  BY <1>1, <1>2, <1>3, <1>4 DEF Next

(* At the start there are no limiters.                                      *)
LEMMA LimitInit == Init => PeerLimitInv
<1> SUFFICES ASSUME Init PROVE PeerLimitInv
  OBVIOUS
<1>1. buckets = <<>> /\ Len(buckets) = 0
  BY DEF Init
<1>2. PICK maker \in [1..0 -> Peers] : TRUE
  <2>1. [l \in 1..0 |-> l] \in [1..0 -> Peers]
    OBVIOUS
  <2> QED
    BY <2>1
<1>3. MadeFor(maker)
  BY DEF Init, MadeFor, Idle
<1>4. Grants(maker)
  <2> SUFFICES ASSUME NEW p \in Peers
               PROVE  /\ Cardinality(LimitersOf(maker, p)) <= hist.resets[p] + (IF limiterOf[p] = 0 THEN 0 ELSE 1)
                      /\ hist.allowed[p] <= Cardinality(Spent(maker, buckets, PeerBurst + bounds.refills, p))
    BY DEF Grants
  <2>1. LimitersOf(maker, p) = {}
    BY DEF LimitersOf
  <2>2. Cardinality(LimitersOf(maker, p)) = 0
    BY <2>1, FS_EmptySet
  <2>3. PeerBurst + bounds.refills \in Nat
    BY BurstAssumption DEF Init
  <2>4. Cardinality(Spent(maker, buckets, PeerBurst + bounds.refills, p)) \in Nat
    BY <2>3, SpentFinite
  <2> QED
    BY <2>2, <2>4 DEF Init
<1> QED
  BY <1>1, <1>2, <1>3, <1>4 DEF PeerLimitInv

(* A product grows with its first factor.                                   *)
LEMMA ProductGrows ==
  ASSUME NEW a \in Nat, NEW b \in Nat, NEW c \in Nat, a <= b
  PROVE  a * c <= b * c
  OBVIOUS

(* Concurrent messages get no more than the bursts and what time has added, *)
(* from all limiters and from those of one peer, which has a burst anew     *)
(* with every connection it closes (WantBlockFilter.Allow, getPeerLimiter,  *)
(* RemovePeerLimiter).                                                      *)
THEOREM Limits == Spec => []LimitsHold
<1>1. TypeOK /\ PeerLimitInv /\ GlobalLimitInv => LimitsHold
  <2> SUFFICES ASSUME TypeOK, PeerLimitInv, GlobalLimitInv PROVE LimitsHold
    OBVIOUS
  <2>1. ASSUME NEW p \in Peers
        PROVE  hist.allowed[p] <= (1 + hist.resets[p]) * (PeerBurst + bounds.refills)
    <3>1. PICK maker \in [1..Len(buckets) -> Peers] : Grants(maker)
      BY DEF PeerLimitInv
    <3> DEFINE mine == Cardinality(LimitersOf(maker, p))
               spent == Cardinality(Spent(maker, buckets, Room, p))
    <3>2. mine <= hist.resets[p] + (IF limiterOf[p] = 0 THEN 0 ELSE 1) /\ hist.allowed[p] <= spent
      BY <3>1 DEF Grants, Room
    <3>3. Room \in Nat /\ hist.resets[p] \in Nat /\ hist.allowed[p] \in Nat
      BY LimitTypes
    <3>4. mine \in Nat /\ spent \in Nat /\ spent <= mine * Room
      BY <3>1, <3>3, LimitTypes, SpentFinite
    <3> HIDE DEF mine, spent
    <3>5. 1 + hist.resets[p] \in Nat /\ mine <= 1 + hist.resets[p]
      BY <3>2, <3>3, <3>4
    <3>6. mine * Room <= (1 + hist.resets[p]) * Room
      BY <3>3, <3>4, <3>5, ProductGrows
    <3>7. mine * Room \in Nat /\ (1 + hist.resets[p]) * Room \in Nat
      BY <3>3, <3>4, <3>5
    <3>8. hist.allowed[p] <= (1 + hist.resets[p]) * Room
      BY <3>2, <3>3, <3>4, <3>6, <3>7
    <3> QED
      BY <3>8 DEF Room
  <2>2. hist.passed <= GlobalBurst + bounds.refills
    <3>1. Cardinality(Passing) \in Nat
      <4>1. Passing \in SUBSET Workers
        BY DEF Passing, Busy
      <4> QED
        BY <4>1, BurstAssumption, FS_Subset, FS_CardinalityType
    <3>2. global \in Nat /\ hist.passed \in Nat /\ bounds.refills \in Nat /\ GlobalBurst \in Nat
      BY Types DEF Bounds, History
    <3> QED
      BY <3>1, <3>2 DEF GlobalLimitInv
  <2> QED
    BY <2>1, <2>2 DEF LimitsHold
<1> QED
  BY <1>1, LimitInit, LimitStep, GlobalInit, GlobalStep, TypeCorrect, PTL DEF Spec
=============================================================================
