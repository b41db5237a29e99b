---------------------------- MODULE UploadProofs -----------------------------
(***************************************************************************)
(* Proofs about what happens to an upload.                                 *)
(* First BlockPipeline, for any number of files, any capacity of the       *)
(* channel, the pool and the batch, any number of retries and of blocks of *)
(* other uploads, and for every interleaving of the producer, the          *)
(* consumer, the pool and the other uploads: its types, that the error of  *)
(* a pool worker is never lost, that only an archive's producer can send   *)
(* on the closed channel, and that success means stored.                   *)
(* Then FilePaths, for any DAGs, any number of pins, operations and        *)
(* deletions at work at once and any failures: its types, that a pin is    *)
(* listed, and that every row can be reached from the top.                 *)
(***************************************************************************)
EXTENDS BlockPipeline, FilePaths, FiniteSetTheorems, WellFoundedInduction, SequenceTheorems, TLAPS

JobStates == {"none", "queued", "started", "uploaded", "ok", "failed", "skipped"}

\* No job of the pool is under way.
Quiet == \A b \in Blocks : job[b] \notin {"queued", "started", "uploaded"}

\* ProcessBlocks has not returned.
InLoop == cpc \in {"next", "mark", "queue", "stopwait", "flush", "check", "roots"}

\* A failed job has its error in errChan; the check of errChan comes after
\* StopWait, when no job runs that could still fail.
ErrInv ==
    /\ job \in [Blocks -> JobStates] /\ errChan \in BOOLEAN
    /\ kind \in {"archive", "file", "car"}
    /\ (\E b \in Blocks : job[b] = "failed") => errChan
    /\ result = "none" <=> InLoop
    /\ cpc \in {"flush", "check", "roots"} \/ result = "ok" => Quiet
    /\ cpc = "roots" \/ result = "ok" => ~errChan

\* The delivery channel is closed by the producer, when it has nothing more to
\* send, or by the release; a file's release waits for the producer first.
ClosedInv ==
    /\ streamClosed => processingDone \/ sbsClosed
    /\ sbsClosed => result # "none"
    /\ cpc = "closeChannel" => sbsClosed
    /\ streamClosed /\ phase \in {"send", "panicked"} => kind = "archive" /\ result # "none"
    /\ phase = "panicked" => streamClosed
    /\ cpc \in {"closeStore", "closeChannel", "released"} /\ kind = "file" => phase \in {"ended", "failed"}
    /\ cpc \in {"closeStore", "closeChannel"} => kind # "car"
    /\ kind = "car" => phase = "run"

\* The number of steps of a producer.
Length == IF kind = "archive" THEN 3 * NumFiles + 3 ELSE IF kind = "file" THEN Root + 3 ELSE Root

\* Where the producer is in its script.
StepInv ==
    /\ step \in 1 .. Length + (IF kind = "car" THEN 1 ELSE 0)
    /\ phase \in {"put", "send"} => Cur.op = "add"
    /\ phase = "wait" => Cur.op \in {"add", "get"}
    /\ phase \notin {"failed", "panicked"} => errorChan = 0

\* ProcessBlocks has a block in hand.
CurInv == cpc \in {"mark", "queue"} <=> cur # 0

TypeInv == TypeOK /\ StepInv /\ CurInv

\* The first add of block b is behind the producer.
Past(b) ==
    step > IF kind # "archive" THEN b
           ELSE IF b = Root THEN 3 * NumFiles + 1 ELSE 2 * b

\* Nothing has gone wrong so far.
Going == result = "none" /\ ~errChan /\ ~interrupted

\* On its way from the producer to the pool, or handed to the pool.
InPipe(b) ==
    \/ \E i \in 1 .. Len(stream) : stream[i] = b
    \/ cpc \in {"mark", "queue"} /\ cur = b
    \/ job[b] # "none"

\* What the producer has stored of its blocks.
ProducerInv ==
    /\ pending \subseteq seen
    /\ Streaming => done \subseteq seen
    /\ result = "none" /\ ~interrupted => procCtx
    /\ phase = "send" => Cur.b \in seen
    /\ Streaming /\ procCtx => \A b \in Blocks : Past(b) => b \in seen \union dropped
    /\ streamClosed => completed \/ result # "none"
    /\ completed => /\ Streaming /\ \A b \in Blocks : Past(b)
                    /\ phase = "ended" \/ (phase = "run" /\ Cur.op = "mark")

\* No block is lost between the producer and the pool.
PipeInv ==
    Going =>
        /\ queueCtx = "live"
        /\ \A b \in Blocks : job[b] # "skipped"
        /\ \A b \in seen : \/ InPipe(b) \/ b \in dropped
                           \/ phase = "send" /\ Cur.b = b
                           \/ phase \in {"failed", "panicked"}
        /\ kind = "car" => stream = <<>> /\ \A b \in Blocks : Past(b) => InPipe(b)
        /\ cpc \in {"stopwait", "flush", "check", "roots"} =>
              IF kind = "car" THEN step > Root ELSE stream = <<>> /\ completed

\* No block is lost between the pool and the store, unless a flush fails.
StoreInv ==
    /\ \A b \in Blocks : job[b] = "uploaded" \/ b \in batch \union db => b \in s3
    /\ ~batchErr => \A b \in Blocks : job[b] = "ok" => b \in batch \union db
    /\ ~batchErr /\ cpc \in {"check", "roots"} => \A b \in Blocks : job[b] = "ok" => b \in db

StoredInv == ProducerInv /\ PipeInv /\ StoreInv /\ SuccessMeansStored

-----------------------------------------------------------------------------
(* What the concatenation of two scripts consists of.                       *)
LEMMA ConcatAt ==
  ASSUME NEW S, NEW s \in Seq(S), NEW t \in Seq(S)
  PROVE  /\ s \o t \in Seq(S) /\ Len(s \o t) = Len(s) + Len(t)
         /\ \A i \in 1 .. Len(s) : (s \o t)[i] = s[i]
         /\ \A i \in 1 .. Len(t) : (s \o t)[Len(s) + i] = t[i]
  OBVIOUS

(* A script that is given step by step is a sequence.                       *)
LEMMA TableSeq ==
  ASSUME NEW S, NEW n \in Nat, NEW f \in [1 .. n -> S]
  PROVE  f \in Seq(S) /\ Len(f) = n
  OBVIOUS

(* The steps of the producers one by one: an archive's walk, the reading    *)
(* back of its files, its directory (archive_processor.go) ...              *)
LEMMA ArchiveScript ==
  /\ Len(Script("archive")) = 3 * NumFiles + 3
  /\ \A i \in 1 .. 2 * NumFiles : Script("archive")[i] = StepOf("add", (i + 1) \div 2)
  /\ \A i \in 1 .. NumFiles : Script("archive")[2 * NumFiles + i] = StepOf("get", i)
  /\ Script("archive")[3 * NumFiles + 1] = StepOf("add", Root)
  /\ Script("archive")[3 * NumFiles + 2] = StepOf("get", Root)
  /\ Script("archive")[3 * NumFiles + 3] = StepOf("complete", Root)
<1> DEFINE Steps == {StepOf(op, b) : op \in {"add", "get", "complete"}, b \in Nat}
           a == [i \in 1 .. 2 * NumFiles |-> StepOf("add", (i + 1) \div 2)]
           g == [i \in 1 .. NumFiles |-> StepOf("get", i)]
           t == <<StepOf("add", Root), StepOf("get", Root), StepOf("complete", Root)>>
           ag == a \o g
<1>1. NumFiles \in Nat /\ 2 * NumFiles \in Nat /\ Root \in Nat
  BY PipelineAssumption DEF Root
<1>2. a \in Seq(Steps) /\ Len(a) = 2 * NumFiles
  <2>1. \A i \in 1 .. 2 * NumFiles : (i + 1) \div 2 \in Nat
    BY <1>1
  <2>2. a \in [1 .. 2 * NumFiles -> Steps]
    BY <2>1
  <2> QED
    BY <1>1, <2>2, TableSeq
<1>3. g \in Seq(Steps) /\ Len(g) = NumFiles
  <2>1. g \in [1 .. NumFiles -> Steps]
    BY <1>1
  <2> QED
    BY <1>1, <2>1, TableSeq
<1>4. t \in Seq(Steps) /\ Len(t) = 3
  BY <1>1
<1>5. t[1] = StepOf("add", Root) /\ t[2] = StepOf("get", Root) /\ t[3] = StepOf("complete", Root)
  OBVIOUS
<1>6. /\ \A i \in 1 .. 2 * NumFiles : a[i] = StepOf("add", (i + 1) \div 2)
      /\ \A i \in 1 .. NumFiles : g[i] = StepOf("get", i)
  OBVIOUS
<1>7. Script("archive") = ag \o t
  BY DEF Script
<1> HIDE DEF Steps, a, g, t
<1>8. /\ ag \in Seq(Steps) /\ Len(ag) = 3 * NumFiles
      /\ \A i \in 1 .. 2 * NumFiles : ag[i] = a[i]
      /\ \A i \in 1 .. NumFiles : ag[2 * NumFiles + i] = g[i]
  BY <1>1, <1>2, <1>3
<1> HIDE DEF ag
<1>9. /\ Len(ag \o t) = Len(ag) + Len(t)
      /\ \A i \in 1 .. Len(ag) : (ag \o t)[i] = ag[i]
      /\ \A i \in 1 .. Len(t) : (ag \o t)[Len(ag) + i] = t[i]
  <2>1. ag \in Seq(Steps) /\ t \in Seq(Steps)
    BY <1>4, <1>8
  <2> QED
    BY <2>1, ConcatAt
<1>10. /\ \A i \in 1 .. 2 * NumFiles : i \in 1 .. 3 * NumFiles
       /\ \A i \in 1 .. NumFiles : 2 * NumFiles + i \in 1 .. 3 * NumFiles
       /\ 1 \in 1 .. 3 /\ 2 \in 1 .. 3 /\ 3 \in 1 .. 3
  BY <1>1
<1>11. \A i \in 1 .. 2 * NumFiles : Script("archive")[i] = StepOf("add", (i + 1) \div 2)
  BY <1>6, <1>7, <1>8, <1>9, <1>10, Zenon
<1>12. ASSUME NEW i \in 1 .. NumFiles
       PROVE  Script("archive")[2 * NumFiles + i] = StepOf("get", i)
  <2>1. (ag \o t)[2 * NumFiles + i] = ag[2 * NumFiles + i]
    BY <1>8, <1>9, <1>10, Zenon
  <2> QED
    BY <1>6, <1>7, <1>8, <2>1, Zenon
<1>13. Script("archive")[3 * NumFiles + 1] = StepOf("add", Root)
  BY <1>4, <1>5, <1>7, <1>8, <1>9, <1>10, Zenon
<1>14. Script("archive")[3 * NumFiles + 2] = StepOf("get", Root)
  BY <1>4, <1>5, <1>7, <1>8, <1>9, <1>10, Zenon
<1>15. Script("archive")[3 * NumFiles + 3] = StepOf("complete", Root)
  BY <1>4, <1>5, <1>7, <1>8, <1>9, <1>10, Zenon
<1> QED
  BY <1>4, <1>7, <1>8, <1>9, <1>11, <1>12, <1>13, <1>14, <1>15, Zenon

(* ... a file's blocks, its root node once more, and its end                *)
(* (block_processor_file.go) ...                                            *)
LEMMA FileScript ==
  /\ Len(Script("file")) = Root + 3
  /\ \A i \in 1 .. Root : Script("file")[i] = StepOf("add", i)
  /\ Script("file")[Root + 1] = StepOf("add", Root)
  /\ Script("file")[Root + 2] = StepOf("complete", Root)
  /\ Script("file")[Root + 3] = StepOf("mark", Root)
<1> DEFINE Steps == {StepOf(op, b) : op \in {"add", "mark", "complete"}, b \in Nat}
           a == [i \in 1 .. Root |-> StepOf("add", i)]
           t == <<StepOf("add", Root), StepOf("complete", Root), StepOf("mark", Root)>>
<1>1. Root \in Nat
  BY PipelineAssumption DEF Root
<1>2. a \in Seq(Steps) /\ Len(a) = Root
  <2>1. a \in [1 .. Root -> Steps]
    BY <1>1
  <2> QED
    BY <1>1, <2>1, TableSeq
<1>3. t \in Seq(Steps) /\ Len(t) = 3
  BY <1>1
<1>4. t[1] = StepOf("add", Root) /\ t[2] = StepOf("complete", Root) /\ t[3] = StepOf("mark", Root)
  OBVIOUS
<1>5. Script("file") = a \o t
  BY DEF Script, Blocks
<1>6. \A i \in 1 .. Root : a[i] = StepOf("add", i)
  OBVIOUS
<1> HIDE DEF Steps, a, t
<1>7. /\ Len(a \o t) = Len(a) + Len(t)
      /\ \A i \in 1 .. Len(a) : (a \o t)[i] = a[i]
      /\ \A i \in 1 .. Len(t) : (a \o t)[Len(a) + i] = t[i]
  <2>1. a \in Seq(Steps) /\ t \in Seq(Steps)
    BY <1>2, <1>3
  <2> QED
    BY <2>1, ConcatAt
<1>8. 1 \in 1 .. 3 /\ 2 \in 1 .. 3 /\ 3 \in 1 .. 3
  OBVIOUS
<1> QED
  BY <1>2, <1>3, <1>4, <1>5, <1>6, <1>7, <1>8, Zenon

(* ... and the blocks of a CAR (block_processor_car.go).                    *)
LEMMA CarScript ==
  /\ Len(Script("car")) = Root
  /\ \A i \in 1 .. Root : Script("car")[i] = StepOf("read", i)
<1>1. Root \in Nat
  BY PipelineAssumption DEF Root
<1>2. Script("car") = [i \in 1 .. Root |-> StepOf("read", i)]
  BY DEF Script, Blocks
<1> QED
  BY <1>1, <1>2
-----------------------------------------------------------------------------
(* What each action leaves alone, of the variables below.  The producer's   *)
(* actions change nothing of the queue and of its caller ...                *)
LEMMA ProducerFrame ==
  ASSUME Producer
  PROVE  /\ Streaming
         /\ UNCHANGED <<kind, queueCtx, errChan, job, attempt, cpc, cur, result, roots, interrupted,
                        s3, batch, batchErr, db, processed, sbsClosed, procCtx>>
<1>1. Streaming /\ UNCHANGED interrupted
  BY DEF Producer
<1>2. UNCHANGED <<kind, queueVars, callerVars, storeVars, processed, sbsClosed, procCtx>>
  BY DEF Producer, ProducerCancelled, ReadFails, Has, PutBlock, Send, Get, WaitDone, Complete,
         MarkDone, sbsVars, baseVars
<1> QED
  BY <1>1, <1>2 DEF queueVars, callerVars, storeVars

(* ... the pool's nothing of the producer and of ProcessBlocks ...          *)
LEMMA PoolFrame ==
  ASSUME NEW b \in Blocks, Worker(b)
  PROVE  UNCHANGED <<kind, step, phase, dropped, stream, streamClosed, pending, processed, sbsClosed,
                     processingDone, procCtx, errorChan, completed, cpc, cur, result, roots, interrupted>>
<1>1. UNCHANGED <<kind, producerVars, stream, streamClosed, pending, processed, sbsClosed,
                   processingDone, baseVars, callerVars, interrupted>>
  BY DEF Worker, JobStart, JobCancelled, UploadObject, BatcherAdd, sbsVars
<1> QED
  BY <1>1 DEF producerVars, baseVars, callerVars

(* ... and other uploads, the timeout and a shutdown only the batcher and   *)
(* the contexts.                                                            *)
LEMMA OtherFrame ==
  ASSUME OtherUpload \/ Timeout \/ Shutdown \/ UNCHANGED vars
  PROVE  /\ UNCHANGED <<kind, step, phase, dropped, stream, streamClosed, pending, processed, seen,
                        sbsClosed, processingDone, done, errorChan, completed, errChan, job, attempt,
                        cpc, cur, result, roots, s3>>
         /\ OtherUpload \/ UNCHANGED <<batch, batchErr, db>>
         /\ OtherUpload => UNCHANGED <<queueCtx, procCtx, interrupted>>
<1>1. CASE OtherUpload
  BY <1>1 DEF OtherUpload, OtherFlush, OtherAdd, producerVars, sbsVars, baseVars, queueVars, callerVars
<1>2. CASE ~OtherUpload
  BY <1>2 DEF Timeout, Shutdown, vars, producerVars, sbsVars, baseVars, queueVars, callerVars, storeVars
<1> QED
  BY <1>1, <1>2
-----------------------------------------------------------------------------
(* The deferred release abandons queued jobs and fails none.                *)
LEMMA ReleaseErr ==
  ASSUME job \in [Blocks -> JobStates], ReleaseQueue
  PROVE  /\ job' \in [Blocks -> JobStates] /\ errChan' = errChan
         /\ \A b \in Blocks : /\ job'[b] = "failed" => job[b] = "failed"
                              /\ job'[b] # "queued"
         /\ Quiet => Quiet' /\ job' = job
<1>1. /\ job' = [b \in Blocks |-> IF job[b] = "queued" THEN "skipped" ELSE job[b]]
      /\ errChan' = errChan
  BY DEF ReleaseQueue
<1>2. Quiet => job' = job
  BY <1>1 DEF Quiet
<1> QED
  BY <1>1, <1>2 DEF JobStates, Quiet

(* A failed attempt is retried or records its error (recordError).          *)
LEMMA AttemptErr ==
  ASSUME job \in [Blocks -> JobStates], errChan \in BOOLEAN, NEW b \in Blocks, AttemptFails(b)
  PROVE  \/ /\ errChan' = errChan
            /\ job' = [job EXCEPT ![b] = "started"]
            /\ queueCtx = "live" /\ queueCtx' = queueCtx
         \/ errChan' = TRUE /\ job' = [job EXCEPT ![b] = "failed"]
  BY DEF AttemptFails

(* What a job of the pool may become in one step: it was under way before,  *)
(* and when it fails its error is recorded.                                 *)
LEMMA WorkerStep ==
  ASSUME job \in [Blocks -> JobStates], errChan \in BOOLEAN, NEW b \in Blocks, Worker(b)
  PROVE  /\ job[b] \in {"queued", "started", "uploaded"}
         /\ \/ \E v \in {"started", "uploaded", "ok", "skipped"} :
                  job' = [job EXCEPT ![b] = v] /\ errChan' = errChan
            \/ job' = [job EXCEPT ![b] = "failed"] /\ errChan' = TRUE
<1>1. CASE JobStart(b)
  BY <1>1 DEF JobStart
<1>2. CASE JobCancelled(b)
  BY <1>2 DEF JobCancelled
<1>3. CASE UploadObject(b)
  BY <1>3, AttemptErr DEF UploadObject, JobSucceeds
<1>4. CASE BatcherAdd(b)
  BY <1>4, AttemptErr DEF BatcherAdd, JobSucceeds
<1> QED
  BY <1>1, <1>2, <1>3, <1>4 DEF Worker

(* No step of ProcessBlocks, of the pool, of the producer, of other uploads *)
(* or of the contexts loses an error.                                       *)
LEMMA NextErr == ErrInv /\ [Next]_vars => ErrInv'
<1> SUFFICES ASSUME ErrInv, [Next]_vars PROVE ErrInv'
  OBVIOUS
<1>1. ASSUME UNCHANGED <<kind, job, errChan, result, cpc>> PROVE ErrInv'
  BY <1>1 DEF ErrInv, Quiet, InLoop
<1>2. CASE Producer
  BY <1>1, <1>2, ProducerFrame
<1>3. CASE OtherUpload \/ Timeout \/ Shutdown \/ UNCHANGED vars
  BY <1>1, <1>3, OtherFrame
<1>4. CASE Pool
  <2>1. PICK b \in Blocks : Worker(b)
    BY <1>4 DEF Pool
  <2>2. ~Quiet /\ UNCHANGED <<kind, cpc, result>>
    BY <2>1, WorkerStep, PoolFrame DEF ErrInv, Quiet
  <2>3. job' \in [Blocks -> JobStates] /\ errChan' \in BOOLEAN
    BY <2>1, WorkerStep DEF ErrInv, JobStates
  <2>4. (\E c \in Blocks : job'[c] = "failed") => errChan'
    BY <2>1, WorkerStep DEF ErrInv
  <2> QED
    BY <2>2, <2>3, <2>4 DEF ErrInv, InLoop
<1>5. ASSUME cpc' = "stopping", result' = "err", ReleaseQueue, kind' = kind PROVE ErrInv'
  BY <1>5, ReleaseErr DEF ErrInv, InLoop
<1>6. ASSUME cpc \in {"next", "mark", "queue"}, cpc' \in {"next", "mark", "queue", "stopwait"},
             UNCHANGED <<kind, job, errChan, result>>
      PROVE  ErrInv'
  BY <1>6 DEF ErrInv, InLoop
<1>7. ASSUME ~InLoop, ~InLoop', UNCHANGED <<kind, job, errChan, result>> PROVE ErrInv'
  BY <1>7 DEF ErrInv, InLoop, Quiet
<1>8. CASE Consumer
  <2>1. CASE TakeBlock \/ MarkBlockProcessed
    BY <2>1, <1>6 DEF TakeBlock, MarkBlockProcessed, queueVars
  <2>2. CASE ReadCAR
    BY <2>2, <1>5, <1>6 DEF ReadCAR, Return, queueVars
  <2>3. CASE NextEnds
    BY <2>3, <1>5, <1>6 DEF NextEnds, Return, queueVars
  <2>4. CASE QueueBlock
    <3>1. CASE queueCtx = "live"
      <4>1. /\ cpc = "queue" /\ cpc' = "next" /\ job' = [job EXCEPT ![cur] = "queued"]
            /\ UNCHANGED <<kind, errChan, result>>
        BY <2>4, <3>1 DEF QueueBlock
      <4> QED
        BY <4>1 DEF ErrInv, InLoop, JobStates
    <3>2. CASE queueCtx # "live"
      BY <2>4, <3>2, <1>6 DEF QueueBlock
    <3> QED
      BY <3>1, <3>2
  <2>5. CASE StopWait
    BY <2>5 DEF StopWait, queueVars, ErrInv, InLoop, Quiet
  <2>6. CASE Flush
    <3>1. CASE cpc' = "check" /\ UNCHANGED <<result, queueVars>>
      BY <2>6, <3>1 DEF Flush, queueVars, ErrInv, InLoop, Quiet
    <3> QED
      BY <2>6, <3>1, <1>5 DEF Flush, Return
  <2>7. CASE Check
    <3>1. CASE errChan
      BY <2>7, <3>1, <1>5 DEF Check, Return
    <3>2. CASE ~errChan
      BY <2>7, <3>2 DEF Check, queueVars, ErrInv, InLoop, Quiet
    <3> QED
      BY <3>1, <3>2
  <2>8. CASE GetRoots
    BY <2>8, ReleaseErr DEF GetRoots, Return, ErrInv, InLoop
  <2>9. CASE StopQueue
    <3>1. cpc' \in {"closeStore", "closeBase", "released"}
      BY <2>9 DEF StopQueue, ErrInv
    <3> QED
      BY <2>9, <1>7, <3>1 DEF StopQueue, InLoop, queueVars
  <2>10. CASE CloseStore \/ CloseChannel \/ CloseBase \/ WaitProducer
    BY <2>10, <1>7 DEF CloseStore, CloseChannel, CloseBase, WaitProducer, InLoop, queueVars
  <2> QED
    BY <1>8, <2>1, <2>2, <2>3, <2>4, <2>5, <2>6, <2>7, <2>8, <2>9, <2>10 DEF Consumer
<1>9. CASE Terminated
  BY <1>3, <1>9 DEF Terminated
<1> QED
  BY <1>2, <1>3, <1>4, <1>8, <1>9 DEF Next

(* The initial states satisfy the invariant: no job, no error.              *)
LEMMA InitErr == Init => ErrInv
  BY PipelineAssumption DEF Init, ErrInv, JobStates, Quiet, InLoop

(* The inductive invariant about jobs and errors holds.                     *)
THEOREM ErrorsKept == Spec => []ErrInv
  BY InitErr, NextErr, PTL DEF Spec

(* ProcessBlocks does not return success when a job of the pool has failed, *)
(* whenever the job fails: during the loop, while StopWait waits, after a   *)
(* timeout or a shutdown (block_queue.go).                                  *)
THEOREM FailedJobs == Spec => []FailedJobMeansError
<1>1. ErrInv => FailedJobMeansError
  BY DEF ErrInv, FailedJobMeansError
<1> QED
  BY <1>1, ErrorsKept, PTL
-----------------------------------------------------------------------------
(* What a step of the producer does to its phase and to the channel.        *)
LEMMA ProducerPhase ==
  ASSUME Producer
  PROVE  /\ phase \in {"run", "put", "send", "wait"}
         /\ \/ /\ phase' \in {"run", "put", "wait", "failed", "ended"}
               /\ UNCHANGED <<streamClosed, processingDone>>
            \/ /\ phase' = "send" /\ ~sbsClosed /\ ~processingDone
               /\ UNCHANGED <<streamClosed, processingDone>>
            \/ /\ phase = "send" /\ phase' = "panicked" /\ streamClosed
               /\ UNCHANGED <<streamClosed, processingDone>>
            \/ phase' \in {"run", "ended"} /\ streamClosed' /\ processingDone'
<1>1. AddFails => phase' \in {"run", "failed"}
  BY DEF AddFails, Fail
<1>2. CASE ProducerCancelled \/ ReadFails \/ Has \/ Get \/ WaitDone \/ MarkDone
  BY <1>1, <1>2 DEF ProducerCancelled, ReadFails, Has, Get, WaitDone, MarkDone, Fail, Advance, sbsVars
<1>3. CASE PutBlock
  BY <1>1, <1>3 DEF PutBlock, Advance
<1>4. CASE Send
  BY <1>1, <1>4 DEF Send, Advance
<1>5. CASE Complete
  BY <1>5 DEF Complete, Advance
<1> QED
  BY <1>2, <1>3, <1>4, <1>5 DEF Producer

(* The channel is not closed under a producer that sends, except an         *)
(* archive's during the release.                                            *)
LEMMA NextClosed == ErrInv /\ ErrInv' /\ ClosedInv /\ [Next]_vars => ClosedInv'
<1> SUFFICES ASSUME ErrInv, ErrInv', ClosedInv, [Next]_vars PROVE ClosedInv'
  OBVIOUS
<1>1. ASSUME UNCHANGED <<kind, phase, streamClosed, processingDone, sbsClosed, cpc, result>>
      PROVE  ClosedInv'
  BY <1>1 DEF ClosedInv
<1>2. CASE Producer
  <2>1. UNCHANGED <<kind, cpc, result, sbsClosed>> /\ kind # "car"
    BY <1>2, ProducerFrame DEF Streaming
  <2> QED
    BY <1>2, <2>1, ProducerPhase DEF ClosedInv, ErrInv
<1>3. CASE OtherUpload \/ Timeout \/ Shutdown \/ UNCHANGED vars
  BY <1>1, <1>3, OtherFrame
<1>4. CASE Pool
  BY <1>1, <1>4, PoolFrame DEF Pool
<1>5. ASSUME UNCHANGED <<kind, phase, streamClosed, processingDone, sbsClosed>>,
             cpc \notin {"closeStore", "closeChannel", "released"},
             cpc' \notin {"closeStore", "closeChannel", "released"}, result' # "none" \/ result' = result
      PROVE  ClosedInv'
  BY <1>5 DEF ClosedInv
<1>6. CASE Consumer
  <2>1. CASE TakeBlock \/ MarkBlockProcessed
    BY <2>1, <1>5 DEF TakeBlock, MarkBlockProcessed, producerVars
  <2>2. CASE ReadCAR
    BY <2>2, <1>5 DEF ReadCAR, Return, sbsVars
  <2>3. CASE NextEnds
    BY <2>3, <1>5 DEF NextEnds, Return, producerVars, sbsVars
  <2>4. CASE QueueBlock \/ StopWait
    BY <2>4, <1>5 DEF QueueBlock, StopWait, producerVars, sbsVars
  <2>5. CASE Flush \/ Check \/ GetRoots
    BY <2>5, <1>5 DEF Flush, Check, GetRoots, Return, producerVars, sbsVars
  <2>6. CASE StopQueue
    <3>1. UNCHANGED <<kind, phase, streamClosed, processingDone, sbsClosed, result>>
      BY <2>6 DEF StopQueue, producerVars, sbsVars
    <3>2. cpc' = IF kind = "archive" THEN "closeStore" ELSE IF kind = "file" THEN "closeBase" ELSE "released"
      BY <2>6 DEF StopQueue, ErrInv
    <3> QED
      BY <3>1, <3>2 DEF ClosedInv, ErrInv
  <2>7. CASE CloseStore
    BY <2>7 DEF CloseStore, ClosedInv, ErrInv, InLoop, producerVars
  <2>8. CASE CloseChannel
    BY <2>8 DEF CloseChannel, ClosedInv, ErrInv, InLoop, producerVars
  <2>9. CASE CloseBase
    BY <2>9, <1>5 DEF CloseBase, producerVars, sbsVars
  <2>10. CASE WaitProducer
    BY <2>10 DEF WaitProducer, ClosedInv, ErrInv, producerVars, sbsVars
  <2> QED
    BY <1>6, <2>1, <2>2, <2>3, <2>4, <2>5, <2>6, <2>7, <2>8, <2>9, <2>10 DEF Consumer
<1>7. CASE Terminated
  BY <1>3, <1>7 DEF Terminated
<1> QED
  BY <1>2, <1>3, <1>4, <1>6, <1>7 DEF Next

(* The inductive invariant about the delivery channel holds.                *)
THEOREM ChannelSafe == Spec => []ClosedInv
<1>1. Init => ClosedInv
  BY DEF Init, ClosedInv
<1> QED
  BY <1>1, ErrorsKept, NextClosed, PTL DEF Spec

(* A file's producer never sends on the closed channel, and an archive's    *)
(* only after ProcessBlocks has returned: putBlock's send races with        *)
(* ProcessingDone and with Close (streaming_blockstore.go).                 *)
THEOREM NoSend == Spec => []NoSendOnClosedChannel
<1>1. ClosedInv => NoSendOnClosedChannel
  BY DEF ClosedInv, NoSendOnClosedChannel
<1> QED
  BY <1>1, ChannelSafe, PTL
-----------------------------------------------------------------------------
(* The step that the producer is at, by its number.                         *)
LEMMA CurStep ==
  ASSUME kind \in {"archive", "file", "car"}, step \in 1 .. Length + 1
  PROVE  /\ Len(Script(kind)) = Length
         /\ kind = "archive" =>
              /\ step <= 2 * NumFiles =>
                   Cur.op = "add" /\ Cur.b \in 1 .. NumFiles /\ (2 * Cur.b = step \/ 2 * Cur.b = step + 1)
              /\ step > 2 * NumFiles /\ step <= 3 * NumFiles => Cur.op = "get" /\ Cur.b \in 1 .. NumFiles
              /\ step = 3 * NumFiles + 1 => Cur.op = "add" /\ Cur.b = Root
              /\ step = 3 * NumFiles + 2 => Cur.op = "get" /\ Cur.b = Root
              /\ step = 3 * NumFiles + 3 => Cur.op = "complete" /\ Cur.b = Root
         /\ kind = "file" =>
              /\ step <= Root => Cur.op = "add" /\ Cur.b = step
              /\ step = Root + 1 => Cur.op = "add" /\ Cur.b = Root
              /\ step = Root + 2 => Cur.op = "complete" /\ Cur.b = Root
              /\ step = Root + 3 => Cur.op = "mark" /\ Cur.b = Root
         /\ kind = "car" /\ step <= Root => Cur.op = "read" /\ Cur.b = step
<1>1. NumFiles \in Nat \ {0} /\ Root = NumFiles + 1
  BY PipelineAssumption DEF Root
<1>2. \A op, b : StepOf(op, b).op = op /\ StepOf(op, b).b = b
  BY DEF StepOf
<1>3. CASE kind = "archive"
  <2>1. Length = 3 * NumFiles + 3 /\ Len(Script(kind)) = Length
    BY <1>3, ArchiveScript DEF Length
  <2>2. ASSUME step <= 2 * NumFiles
        PROVE  Cur.op = "add" /\ Cur.b \in 1 .. NumFiles /\ (2 * Cur.b = step \/ 2 * Cur.b = step + 1)
    <3>1. Cur = StepOf("add", (step + 1) \div 2)
      BY <1>1, <1>3, <2>1, <2>2, ArchiveScript DEF Cur
    <3>2. Cur.op = "add" /\ Cur.b = (step + 1) \div 2
      BY <3>1, <1>2
    <3> QED
      BY <3>2, <1>1, <2>1, <2>2
  <2>3. ASSUME step > 2 * NumFiles /\ step <= 3 * NumFiles
        PROVE  Cur.op = "get" /\ Cur.b \in 1 .. NumFiles
    <3> DEFINE i == step - 2 * NumFiles
    <3>1. i \in 1 .. NumFiles /\ step = 2 * NumFiles + i
      BY <1>1, <2>1, <2>3
    <3>2. Cur = StepOf("get", i)
      BY <3>1, <1>3, ArchiveScript, Zenon DEF Cur
    <3> QED
      BY <3>1, <3>2, <1>2
  <2>4. /\ step = 3 * NumFiles + 1 => Cur.op = "add" /\ Cur.b = Root
        /\ step = 3 * NumFiles + 2 => Cur.op = "get" /\ Cur.b = Root
        /\ step = 3 * NumFiles + 3 => Cur.op = "complete" /\ Cur.b = Root
    <3>1. /\ step = 3 * NumFiles + 1 => Cur = StepOf("add", Root)
          /\ step = 3 * NumFiles + 2 => Cur = StepOf("get", Root)
          /\ step = 3 * NumFiles + 3 => Cur = StepOf("complete", Root)
      BY <1>3, ArchiveScript DEF Cur
    <3> QED
      BY <1>2, <3>1
  <2> QED
    BY <1>3, <2>1, <2>2, <2>3, <2>4
<1>4. CASE kind = "file"
  <2>1. Length = Root + 3 /\ Len(Script(kind)) = Length
    BY <1>4, FileScript DEF Length
  <2>2. step <= Root => Cur = StepOf("add", step)
    <3>1. step <= Root => step \in 1 .. Root
      BY <1>1, <2>1
    <3> QED
      BY <1>4, <3>1, FileScript, Zenon DEF Cur
  <2>3. /\ step = Root + 1 => Cur.op = "add" /\ Cur.b = Root
        /\ step = Root + 2 => Cur.op = "complete" /\ Cur.b = Root
        /\ step = Root + 3 => Cur.op = "mark" /\ Cur.b = Root
    <3>1. /\ step = Root + 1 => Cur = StepOf("add", Root)
          /\ step = Root + 2 => Cur = StepOf("complete", Root)
          /\ step = Root + 3 => Cur = StepOf("mark", Root)
      BY <1>4, FileScript DEF Cur
    <3> QED
      BY <1>2, <3>1
  <2> QED
    BY <1>2, <1>4, <2>1, <2>2, <2>3
<1>5. CASE kind = "car"
  <2>1. Length = Root /\ Len(Script(kind)) = Length
    BY <1>5, CarScript DEF Length
  <2>2. step <= Root => Cur = StepOf("read", step)
    <3>1. step <= Root => step \in 1 .. Root
      BY <1>1, <2>1
    <3> QED
      BY <1>5, <3>1, CarScript, Zenon DEF Cur
  <2> QED
    BY <1>2, <1>5, <2>1, <2>2
<1> QED
  BY <1>3, <1>4, <1>5

(* A step of the producer, as one of nine moves.                            *)
ProducerMoves ==
    \/ /\ phase' = "failed" /\ errorChan' = errorChan + 1 /\ Cur.op \in {"add", "get"}
       /\ UNCHANGED <<step, dropped, stream, streamClosed, pending, seen, processingDone, done, completed>>
    \/ /\ Walking /\ step' = 2 * Cur.b + 1 /\ phase' = "run" /\ Cur.op \in {"add", "get"}
       /\ dropped' = dropped \union {Cur.b}
       /\ UNCHANGED <<errorChan, stream, streamClosed, pending, seen, processingDone, done, completed>>
    \/ /\ phase = "run"
       /\ \/ Cur.op = "add" /\ phase' = "put"
          \/ Cur.op \in {"add", "get"} /\ phase' = "wait"
       /\ UNCHANGED <<errorChan, step, dropped, stream, streamClosed, pending, seen, processingDone, done, completed>>
    \/ /\ Advance /\ phase # "send"
       /\ Cur.op = "get" \/ (Cur.op = "add" /\ (~procCtx \/ Cur.b \in seen \union pending \union done))
       /\ UNCHANGED <<errorChan, dropped, stream, streamClosed, pending, seen, processingDone, done, completed>>
    \/ /\ phase = "put" /\ phase' = "send" /\ Cur.op = "add" /\ ~processingDone
       /\ pending' = pending \union {Cur.b} /\ seen' = seen \union {Cur.b}
       /\ UNCHANGED <<errorChan, step, dropped, stream, streamClosed, processingDone, done, completed>>
    \/ /\ phase = "send" /\ phase' = "panicked" /\ Cur.op = "add"
       /\ UNCHANGED <<errorChan, step, dropped, stream, streamClosed, pending, seen, processingDone, done, completed>>
    \/ /\ phase = "send" /\ Advance /\ Cur.op = "add"
       /\ Len(stream) < QueueSize /\ stream' = Append(stream, Cur.b)
       /\ UNCHANGED <<errorChan, dropped, streamClosed, pending, seen, processingDone, done, completed>>
    \/ /\ phase = "run" /\ Cur.op = "complete"
       /\ completed' = TRUE /\ processingDone' = TRUE /\ streamClosed' = TRUE
       /\ IF step = Len(Script(kind)) THEN phase' = "ended" /\ UNCHANGED step ELSE Advance
       /\ UNCHANGED <<errorChan, dropped, stream, pending, seen, done>>
    \/ /\ phase = "run" /\ Cur.op = "mark" /\ phase' = "ended"
       /\ seen' = seen \union {Cur.b} /\ done' = done \union {Cur.b}
       /\ UNCHANGED <<errorChan, step, dropped, stream, streamClosed, pending, processingDone, completed>>

(* Every action of the producer makes one of these moves.                   *)
LEMMA ProducerMove ==
  ASSUME StepInv, Producer
  PROVE  ProducerMoves
<1>1. /\ phase \in {"put", "send"} => Cur.op = "add"
      /\ phase = "wait" => Cur.op \in {"add", "get"}
  BY DEF StepInv
<1>2. ASSUME AddFails, Cur.op \in {"add", "get"},
             UNCHANGED <<stream, streamClosed, pending, seen, processingDone, done, completed>>
      PROVE  ProducerMoves
  BY <1>2 DEF AddFails, Fail, ProducerMoves
<1>3. ASSUME Fail, Cur.op \in {"add", "get"},
             UNCHANGED <<step, dropped, stream, streamClosed, pending, seen, processingDone, done, completed>>
      PROVE  ProducerMoves
  BY <1>3 DEF Fail, ProducerMoves
<1>4. CASE ProducerCancelled \/ ReadFails
  BY <1>2, <1>3, <1>4 DEF ProducerCancelled, ReadFails, Building, sbsVars
<1>5. CASE Has
  <2>1. CASE sbsClosed /\ AddFails
    BY <1>2, <1>5, <2>1 DEF Has, sbsVars
  <2>2. CASE ~(sbsClosed /\ AddFails)
    BY <1>5, <2>2 DEF Has, sbsVars, ProducerMoves, Advance
  <2> QED
    BY <2>1, <2>2
<1>6. CASE PutBlock
  <2>1. CASE AddFails /\ UNCHANGED <<pending, seen>>
    BY <1>1, <1>2, <1>6, <2>1 DEF PutBlock
  <2>2. CASE ~(AddFails /\ UNCHANGED <<pending, seen>>)
    BY <1>1, <1>6, <2>2 DEF PutBlock, ProducerMoves, Advance
  <2> QED
    BY <2>1, <2>2
<1>7. CASE Send
  <2>1. CASE AddFails /\ UNCHANGED stream
    BY <1>1, <1>2, <1>7, <2>1 DEF Send
  <2>2. CASE ~(AddFails /\ UNCHANGED stream)
    BY <1>1, <1>7, <2>2 DEF Send, ProducerMoves, Advance
  <2> QED
    BY <2>1, <2>2
<1>8. CASE Get
  <2>1. CASE Fail /\ UNCHANGED step
    BY <1>3, <1>8, <2>1 DEF Get, sbsVars
  <2>2. CASE ~(Fail /\ UNCHANGED step)
    BY <1>8, <2>2 DEF Get, sbsVars, ProducerMoves, Advance
  <2> QED
    BY <2>1, <2>2
<1>9. CASE WaitDone
  <2>1. phase = "wait" /\ UNCHANGED <<stream, streamClosed, pending, seen, processingDone, done, completed>>
    BY <1>9 DEF WaitDone, sbsVars
  <2>2. CASE Advance /\ UNCHANGED <<dropped, errorChan>>
    BY <1>1, <1>9, <2>1, <2>2 DEF WaitDone, ProducerMoves
  <2>3. CASE Fail /\ UNCHANGED <<step, dropped>>
    BY <1>1, <1>3, <2>1, <2>3
  <2>4. CASE AddFails
    BY <1>1, <1>2, <2>1, <2>4
  <2> QED
    BY <1>9, <2>2, <2>3, <2>4 DEF WaitDone
<1>10. CASE Complete
  BY <1>10 DEF Complete, ProducerMoves
<1>11. CASE MarkDone
  BY <1>11 DEF MarkDone, ProducerMoves, baseVars
<1> QED
  BY <1>4, <1>5, <1>6, <1>7, <1>8, <1>9, <1>10, <1>11 DEF Producer

(* The types in groups: of the flags, the queue's jobs, the store, the      *)
(* channel and the maps, ProcessBlocks and the producer.                    *)
FlagTypes ==
    /\ streamClosed \in BOOLEAN /\ sbsClosed \in BOOLEAN /\ processingDone \in BOOLEAN
    /\ procCtx \in BOOLEAN /\ completed \in BOOLEAN /\ errChan \in BOOLEAN
    /\ roots \in BOOLEAN /\ batchErr \in BOOLEAN /\ interrupted \in BOOLEAN
QueueTypes ==
    /\ queueCtx \in {"live", "canceled", "deadline"}
    /\ job \in [Blocks -> JobStates]
    /\ attempt \in [Blocks -> 0 .. MaxRetries - 1]
StoreTypes ==
    /\ s3 \subseteq Blocks
    /\ batch \subseteq Blocks \union Others /\ db \subseteq Blocks \union Others
MapTypes ==
    /\ stream \in Seq(Blocks) /\ Len(stream) <= QueueSize
    /\ pending \subseteq Blocks /\ processed \subseteq Blocks
    /\ seen \subseteq Blocks /\ done \subseteq Blocks
CallerTypes ==
    /\ cpc \in {"next", "mark", "queue", "stopwait", "flush", "check", "roots", "stopping",
                "closeStore", "closeChannel", "closeBase", "waitProducer", "released"}
    /\ cur \in Blocks \union {0} /\ result \in {"none", "ok", "err"}
ProducerTypes ==
    /\ kind \in Kinds
    /\ step \in 1 .. 3 * NumFiles + 4
    /\ phase \in {"run", "put", "send", "wait", "ended", "failed", "panicked"}
    /\ dropped \subseteq 1 .. NumFiles
    /\ errorChan \in 0 .. 1

(* The types are these groups.                                              *)
LEMMA TypeGroups ==
  TypeOK <=> FlagTypes /\ QueueTypes /\ StoreTypes /\ MapTypes /\ CallerTypes /\ ProducerTypes
  BY DEF TypeOK, FlagTypes, QueueTypes, StoreTypes, MapTypes, CallerTypes, ProducerTypes, JobStates

(* The initial states have their types.                                     *)
LEMMA InitType == Init => TypeInv
<1> SUFFICES ASSUME Init PROVE TypeInv
  OBVIOUS
<1>1. /\ NumFiles \in Nat \ {0} /\ Root = NumFiles + 1 /\ 1 \in Blocks
      /\ MaxRetries \in Nat \ {0} /\ QueueSize \in Nat
  BY PipelineAssumption DEF Root, Blocks
<1>2. FlagTypes
  BY Zenon DEF Init, FlagTypes
<1>3. QueueTypes
  BY <1>1 DEF Init, QueueTypes, JobStates
<1>4. StoreTypes
  BY <1>1 DEF Init, StoreTypes
<1>5. MapTypes
  BY <1>1 DEF Init, MapTypes
<1>6. CallerTypes /\ ProducerTypes
  BY <1>1 DEF Init, CallerTypes, ProducerTypes
<1>7. StepInv /\ CurInv
  BY <1>1 DEF Init, StepInv, CurInv, Length
<1> QED
  BY <1>2, <1>3, <1>4, <1>5, <1>6, <1>7, TypeGroups DEF TypeInv

(* The producer's script bounds its steps, and the blocks it names are      *)
(* blocks of the upload.                                                    *)
LEMMA StepFacts ==
  ASSUME TypeInv
  PROVE  /\ kind \in {"archive", "file", "car"}
         /\ NumFiles \in Nat \ {0} /\ Root = NumFiles + 1 /\ Blocks = 1 .. Root
         /\ step \in 1 .. Length + 1 /\ step \in Nat
         /\ kind = "archive" => Length = 3 * NumFiles + 3 /\ step <= Length
         /\ kind = "file" => Length = Root + 3 /\ step <= Length
         /\ kind = "car" => Length = Root
<1>1. NumFiles \in Nat \ {0} /\ Root = NumFiles + 1 /\ Blocks = 1 .. Root
  BY PipelineAssumption DEF Root, Blocks
<1>2. kind \in {"archive", "file", "car"}
  BY PipelineAssumption DEF TypeInv, TypeOK
<1> QED
  BY <1>1, <1>2 DEF TypeInv, StepInv, Length

(* What the producer is at when its current step is of some kind.           *)
LEMMA CurFacts ==
  ASSUME TypeInv
  PROVE  /\ Len(Script(kind)) = Length
         /\ step <= Length => Cur.b \in Blocks
         /\ kind # "car" /\ Cur.op \in {"add", "get"} => step + 1 <= Length
         /\ kind # "car" /\ Cur.op = "complete" =>
              IF kind = "archive" THEN step = Length ELSE step = Root + 2
         /\ kind # "car" /\ Cur.op = "mark" => kind = "file" /\ step = Root + 3 /\ Cur.b = Root
         /\ Walking => /\ Cur.op = "add" /\ Cur.b \in 1 .. NumFiles
                       /\ 2 * Cur.b = step \/ 2 * Cur.b = step + 1
<1>1. /\ kind \in {"archive", "file", "car"}
      /\ NumFiles \in Nat \ {0} /\ Root = NumFiles + 1 /\ Blocks = 1 .. Root
      /\ step \in 1 .. Length + 1 /\ step \in Nat
      /\ kind = "archive" => Length = 3 * NumFiles + 3 /\ step <= Length
      /\ kind = "file" => Length = Root + 3 /\ step <= Length
      /\ kind = "car" => Length = Root
  BY StepFacts
<1>2. CASE kind = "archive"
  <2>1. \/ step <= 2 * NumFiles \/ (step > 2 * NumFiles /\ step <= 3 * NumFiles)
        \/ step = 3 * NumFiles + 1 \/ step = 3 * NumFiles + 2 \/ step = 3 * NumFiles + 3
    BY <1>1, <1>2
  <2> QED
    BY <1>1, <1>2, <2>1, CurStep DEF Walking
<1>3. CASE kind = "file"
  <2>1. step <= Root \/ step = Root + 1 \/ step = Root + 2 \/ step = Root + 3
    BY <1>1, <1>3
  <2> QED
    BY <1>1, <1>3, <2>1, CurStep DEF Walking
<1>4. CASE kind = "car"
  BY <1>1, <1>4, CurStep DEF Walking
<1> QED
  BY <1>1, <1>2, <1>3, <1>4

(* The producer stays inside its script, and reports at most one error.     *)
LEMMA ProducerType ==
  ASSUME TypeInv, Producer
  PROVE  TypeInv'
<1> DEFINE U == UNCHANGED <<kind, queueCtx, errChan, job, attempt, cpc, cur, result, roots, interrupted,
                            s3, batch, batchErr, db, processed, sbsClosed, procCtx>>
<1>1. U /\ kind # "car" /\ phase \in {"run", "put", "send", "wait"}
  BY ProducerFrame, ProducerPhase DEF Streaming
<1>2. ProducerMoves
  BY ProducerMove DEF TypeInv
<1>3. /\ NumFiles \in Nat \ {0} /\ Blocks = 1 .. Root /\ Root = NumFiles + 1
      /\ step \in Nat /\ 1 <= step /\ step <= Length /\ Length <= 3 * NumFiles + 4 /\ Length \in Nat
      /\ Length' = Length /\ kind \in Kinds
      /\ kind = "archive" => Length = 3 * NumFiles + 3
  BY <1>1, StepFacts DEF Length, TypeInv, TypeOK
<1>4. /\ Len(Script(kind)) = Length
      /\ Cur.b \in Blocks
      /\ Cur.op \in {"add", "get"} => step + 1 <= Length
      /\ Walking => /\ Cur.b \in 1 .. NumFiles /\ kind = "archive"
                    /\ 2 * Cur.b = step \/ 2 * Cur.b = step + 1
  BY <1>1, <1>3, CurFacts DEF Walking
<1>5. FlagTypes /\ QueueTypes /\ StoreTypes /\ MapTypes /\ CallerTypes /\ ProducerTypes /\ errorChan = 0
  BY <1>1, TypeGroups DEF TypeInv, StepInv
<1>6. FlagTypes'
  <2>1. /\ completed' \in {completed, TRUE} /\ streamClosed' \in {streamClosed, TRUE}
        /\ processingDone' \in {processingDone, TRUE}
    BY <1>2, Zenon DEF ProducerMoves
  <2> QED
    BY <1>1, <1>5, <2>1, Zenon DEF FlagTypes
<1>7. QueueTypes' /\ StoreTypes' /\ CallerTypes'
  BY <1>1, <1>5 DEF QueueTypes, StoreTypes, CallerTypes
<1>8. MapTypes'
  <2>1. QueueSize \in Nat
    BY PipelineAssumption
  <2>2. CASE stream' = stream
    BY <1>1, <1>2, <1>4, <1>5, <2>2 DEF MapTypes, ProducerMoves
  <2>3. CASE stream' = Append(stream, Cur.b) /\ Len(stream) < QueueSize /\ UNCHANGED <<pending, seen, done>>
    BY <1>1, <1>4, <1>5, <2>1, <2>3 DEF MapTypes
  <2> QED
    BY <1>2, <2>2, <2>3 DEF ProducerMoves
<1>9. /\ step' \in Nat /\ 1 <= step' /\ step' <= Length
      /\ phase' \in {"run", "put", "send", "wait", "ended", "failed", "panicked"}
      /\ dropped' \subseteq 1 .. NumFiles
      /\ errorChan' \in 0 .. 1
      /\ phase' \notin {"failed", "panicked"} => errorChan' = 0
      /\ phase' \in {"put", "send"} => Cur.op = "add" /\ step' = step
      /\ phase' = "wait" => Cur.op \in {"add", "get"} /\ step' = step
  <2>1. step' = step \/ (step' = step + 1 /\ step + 1 <= Length) \/ (Walking /\ step' = 2 * Cur.b + 1)
    <3>1. CASE Cur.op \in {"add", "get"}
      BY <1>2, <1>4, <3>1 DEF ProducerMoves, Advance
    <3>2. CASE Cur.op \notin {"add", "get"}
      BY <1>2, <1>3, <1>4, <3>2 DEF ProducerMoves, Advance
    <3> QED
      BY <3>1, <3>2
  <2>2. step' \in Nat /\ 1 <= step' /\ step' <= Length
    BY <1>3, <1>4, <2>1 DEF Walking
  <2>3. phase' \in {"run", "put", "send", "wait", "ended", "failed", "panicked"}
    BY <1>2 DEF ProducerMoves, Advance
  <2>4. dropped' \subseteq 1 .. NumFiles
    BY <1>2, <1>4, <1>5 DEF ProducerMoves, ProducerTypes
  <2>5. errorChan' \in 0 .. 1 /\ (phase' \notin {"failed", "panicked"} => errorChan' = 0)
    BY <1>2, <1>5 DEF ProducerMoves
  <2>6. /\ phase' \in {"put", "send"} => Cur.op = "add" /\ step' = step
        /\ phase' = "wait" => Cur.op \in {"add", "get"} /\ step' = step
    BY <1>2 DEF ProducerMoves, Advance
  <2> QED
    BY <2>2, <2>3, <2>4, <2>5, <2>6
<1>10. ProducerTypes'
  BY <1>1, <1>3, <1>9 DEF ProducerTypes
<1>11. StepInv'
  BY <1>1, <1>3, <1>9 DEF StepInv, Cur
<1>12. TypeOK'
  BY <1>6, <1>7, <1>8, <1>10, TypeGroups, PTL
<1> QED
  BY <1>1, <1>11, <1>12 DEF TypeInv, CurInv

(* A step that keeps the producer where it is keeps the types, if it keeps  *)
(* those of the other groups.                                               *)
LEMMA KeepsProducer ==
  ASSUME TypeInv, UNCHANGED <<kind, step, phase, dropped, errorChan>>,
         FlagTypes', QueueTypes', StoreTypes', MapTypes', CallerTypes', CurInv'
  PROVE  TypeInv'
<1>1. ProducerTypes'
  BY TypeGroups DEF TypeInv, ProducerTypes
<1>2. StepInv'
  BY DEF TypeInv, StepInv, Length, Cur
<1>3. TypeOK'
  BY <1>1, TypeGroups, PTL
<1> QED
  BY <1>2, <1>3 DEF TypeInv

(* The pool counts its attempts below the limit.                            *)
LEMMA WorkerType ==
  ASSUME TypeInv, NEW b \in Blocks, Worker(b)
  PROVE  TypeInv'
<1>1. FlagTypes /\ QueueTypes /\ StoreTypes /\ MapTypes /\ CallerTypes /\ ProducerTypes
  BY TypeGroups DEF TypeInv
<1>2. UNCHANGED <<kind, step, phase, dropped, stream, streamClosed, pending, processed, sbsClosed,
                  processingDone, procCtx, errorChan, completed, cpc, cur, result, roots, interrupted>>
  BY PoolFrame
<1>3. job' \in [Blocks -> JobStates] /\ errChan' \in {errChan, TRUE}
  <2>1. job \in [Blocks -> JobStates] /\ errChan \in BOOLEAN
    BY <1>1 DEF QueueTypes, FlagTypes
  <2>2. \/ \E v \in {"started", "uploaded", "ok", "skipped"} :
              job' = [job EXCEPT ![b] = v] /\ errChan' = errChan
        \/ job' = [job EXCEPT ![b] = "failed"] /\ errChan' = TRUE
    BY <2>1, WorkerStep
  <2>3. job' \in [Blocks -> JobStates]
    BY <2>1, <2>2 DEF JobStates
  <2> QED
    BY <2>2, <2>3, Zenon
<1>4. attempt' = attempt \/ attempt' = [attempt EXCEPT ![b] = 0]
        \/ (attempt' = [attempt EXCEPT ![b] = @ + 1] /\ attempt[b] + 1 < MaxRetries)
  BY DEF Worker, JobStart, JobCancelled, UploadObject, BatcherAdd, JobSucceeds, AttemptFails
<1>5. attempt' \in [Blocks -> 0 .. MaxRetries - 1]
  BY <1>1, <1>4, PipelineAssumption DEF QueueTypes
<1>6. queueCtx' \in {queueCtx, "canceled"}
  BY DEF Worker, JobStart, JobCancelled, UploadObject, BatcherAdd, JobSucceeds, AttemptFails
<1>7. /\ s3' \subseteq s3 \union {b} /\ seen' \subseteq seen \union {b} /\ done' \subseteq done \union {b}
      /\ batchErr' \in {batchErr, TRUE}
      /\ batch' \subseteq batch \union {b} /\ db' \subseteq db \union batch \union {b}
  <2>1. CASE JobStart(b) \/ JobCancelled(b)
    BY <2>1 DEF JobStart, JobCancelled, sbsVars, storeVars
  <2>2. CASE UploadObject(b)
    BY <2>2 DEF UploadObject, JobSucceeds
  <2>3. CASE BatcherAdd(b)
    <3>1. s3' = s3 /\ seen' \subseteq seen \union {b} /\ done' \subseteq done \union {b}
      BY <2>3 DEF BatcherAdd, JobSucceeds
    <3>2. /\ batchErr' \in {batchErr, TRUE}
          /\ batch' \subseteq batch \union {b} /\ db' \subseteq db \union batch \union {b}
      BY <2>3 DEF BatcherAdd, FlushOK, FlushFail
    <3> QED
      BY <3>1, <3>2
  <2> QED
    BY <2>1, <2>2, <2>3 DEF Worker
<1>8. FlagTypes'
  BY <1>1, <1>2, <1>3, <1>7, Zenon DEF FlagTypes
<1>9. QueueTypes' /\ StoreTypes' /\ MapTypes' /\ CallerTypes'
  BY <1>1, <1>2, <1>3, <1>5, <1>6, <1>7 DEF QueueTypes, StoreTypes, MapTypes, CallerTypes
<1>10. CurInv'
  BY <1>2 DEF TypeInv, CurInv
<1> QED
  BY <1>2, <1>8, <1>9, <1>10, KeepsProducer

(* The deferred release keeps the types of the queue.                       *)
LEMMA ReleaseType ==
  ASSUME FlagTypes, QueueTypes, ReleaseQueue
  PROVE  QueueTypes' /\ errChan' = errChan
<1>1. job' \in [Blocks -> JobStates] /\ errChan' = errChan
  BY ReleaseErr DEF QueueTypes
<1> QED
  BY <1>1 DEF ReleaseQueue, QueueTypes

(* ProcessBlocks and the release keep the types.                            *)
LEMMA ConsumerType ==
  ASSUME TypeInv, ClosedInv, Consumer
  PROVE  TypeInv'
<1>1. FlagTypes /\ QueueTypes /\ StoreTypes /\ MapTypes /\ CallerTypes /\ ProducerTypes
  BY TypeGroups DEF TypeInv
<1>2. interrupted' = interrupted /\ CurInv
  BY DEF Consumer, TypeInv
<1> USE DEF producerVars, sbsVars, baseVars, queueVars, callerVars, storeVars
<1>3. CASE TakeBlock
  <2>1. /\ UNCHANGED <<kind, step, phase, dropped, errorChan>> /\ UNCHANGED <<queueVars, storeVars>>
        /\ UNCHANGED <<streamClosed, sbsClosed, processingDone, procCtx, completed, errChan, roots>>
    BY <1>3 DEF TakeBlock
  <2>2. MapTypes' /\ CallerTypes' /\ CurInv'
    <3>1. 0 \notin Blocks /\ QueueSize \in Nat
      BY PipelineAssumption, StepFacts
    <3>2. /\ stream # <<>> /\ stream' = Tail(stream) /\ cur' = Head(stream)
          /\ pending' = pending \ {Head(stream)} /\ UNCHANGED <<processed, seen, done, result>>
          /\ cpc' = "mark"
      BY <1>3 DEF TakeBlock
    <3>3. Head(stream) \in Blocks /\ Tail(stream) \in Seq(Blocks) /\ Len(Tail(stream)) <= QueueSize
      BY <1>1, <3>1, <3>2 DEF MapTypes
    <3> QED
      BY <1>1, <3>1, <3>2, <3>3 DEF CurInv, MapTypes, CallerTypes
  <2>3. FlagTypes' /\ QueueTypes' /\ StoreTypes'
    BY <1>1, <1>2, <2>1 DEF FlagTypes, QueueTypes, StoreTypes
  <2> QED
    BY <2>1, <2>2, <2>3, KeepsProducer
<1>4. CASE ReadCAR
  <2>1. /\ UNCHANGED <<kind, phase, dropped, errorChan, s3, batch, batchErr, db>>
        /\ UNCHANGED <<sbsVars, done, procCtx, completed, roots>>
    BY <1>4 DEF ReadCAR
  <2>2. QueueTypes' /\ errChan' = errChan
    <3>1. ReleaseQueue \/ UNCHANGED queueVars
      BY <1>4 DEF ReadCAR
    <3> QED
      BY <1>1, <3>1, ReleaseType DEF QueueTypes
  <2>3. FlagTypes' /\ StoreTypes' /\ MapTypes'
    BY <1>1, <1>2, <2>1, <2>2 DEF FlagTypes, StoreTypes, MapTypes
  <2>4. kind = "car" /\ Len(Script(kind)) = Root /\ Blocks = 1 .. Root
        /\ (step <= Root => Cur.b \in Blocks) /\ step \in Nat /\ step <= Root + 1
        /\ Root = NumFiles + 1 /\ NumFiles \in Nat
    BY <1>4, StepFacts, CurFacts DEF ReadCAR, Streaming
  <2>5. CallerTypes' /\ CurInv'
    BY <1>1, <1>2, <1>4, <2>4 DEF CurInv, ReadCAR, CallerTypes, Return
  <2>6. step' = step \/ (step <= Root /\ step' = step + 1)
    BY <1>4, <2>4 DEF ReadCAR
  <2>7. ProducerTypes'
    BY <1>1, <2>1, <2>4, <2>6 DEF ProducerTypes
  <2>8. StepInv'
    BY <2>1, <2>4, <2>6 DEF TypeInv, StepInv, Length, ClosedInv
  <2>9. TypeOK'
    BY <2>2, <2>3, <2>5, <2>7, TypeGroups, PTL
  <2> QED
    BY <2>5, <2>8, <2>9 DEF TypeInv
<1>5. CASE NextEnds
  <2>1. /\ UNCHANGED <<kind, step, phase, dropped, s3, batch, batchErr, db, cur>>
        /\ UNCHANGED <<sbsVars, done, procCtx, completed, roots>>
    BY <1>5 DEF NextEnds
  <2>2. QueueTypes' /\ errChan' = errChan
    <3>1. ReleaseQueue \/ UNCHANGED queueVars
      BY <1>5 DEF NextEnds
    <3> QED
      BY <1>1, <3>1, ReleaseType DEF QueueTypes
  <2>3. FlagTypes' /\ StoreTypes' /\ MapTypes'
    BY <1>1, <1>2, <2>1, <2>2 DEF FlagTypes, StoreTypes, MapTypes
  <2>4. CallerTypes' /\ CurInv'
    BY <1>1, <1>2, <1>5, <2>1 DEF CurInv, NextEnds, CallerTypes, Return
  <2>5. ProducerTypes' /\ StepInv'
    <3>1. errorChan' = errorChan \/ (errorChan > 0 /\ errorChan' = errorChan - 1)
      BY <1>5 DEF NextEnds
    <3> QED
      BY <1>1, <2>1, <3>1 DEF ProducerTypes, TypeInv, StepInv, Length, Cur
  <2>6. TypeOK'
    BY <2>2, <2>3, <2>4, <2>5, TypeGroups, PTL
  <2> QED
    BY <2>4, <2>5, <2>6 DEF TypeInv
<1>6. CASE MarkBlockProcessed \/ StopWait \/ CloseBase \/ WaitProducer
  <2>1. /\ UNCHANGED <<kind, step, phase, dropped, errorChan, queueVars, storeVars>>
        /\ UNCHANGED <<streamClosed, sbsClosed, processingDone, completed, roots>>
    BY <1>6 DEF MarkBlockProcessed, StopWait, CloseBase, WaitProducer
  <2>2. MapTypes' /\ CallerTypes' /\ CurInv'
    BY <1>1, <1>2, <1>6 DEF CurInv, MarkBlockProcessed, StopWait, CloseBase, WaitProducer, MapTypes, CallerTypes
  <2>3. procCtx' \in {procCtx, FALSE}
    BY <1>6 DEF MarkBlockProcessed, StopWait, CloseBase, WaitProducer
  <2>4. FlagTypes' /\ QueueTypes' /\ StoreTypes'
    BY <1>1, <1>2, <2>1, <2>3 DEF FlagTypes, QueueTypes, StoreTypes
  <2> QED
    BY <2>1, <2>2, <2>4, KeepsProducer
<1>7. CASE QueueBlock
  <2>1. /\ UNCHANGED <<kind, step, phase, dropped, errorChan, storeVars, procCtx, completed, roots>>
        /\ UNCHANGED <<sbsVars, errChan>>
    BY <1>7 DEF QueueBlock
  <2>2. QueueTypes' /\ CallerTypes' /\ CurInv'
    BY <1>1, <1>2, <1>7 DEF CurInv, QueueBlock, QueueTypes, CallerTypes, JobStates
  <2>3. done' = done \/ (cur # 0 /\ done' = done \union {cur})
    BY <1>2, <1>7 DEF CurInv, QueueBlock
  <2>4. FlagTypes' /\ StoreTypes' /\ MapTypes'
    BY <1>1, <1>2, <2>1, <2>3 DEF FlagTypes, StoreTypes, MapTypes, CallerTypes
  <2> QED
    BY <2>1, <2>2, <2>4, KeepsProducer
<1>8. CASE Flush \/ Check \/ GetRoots
  <2>1. UNCHANGED <<kind, step, phase, dropped, errorChan, sbsVars, done, procCtx, completed, cur, s3>>
    BY <1>8 DEF Flush, Check, GetRoots
  <2>2. QueueTypes' /\ errChan' = errChan
    <3>1. ReleaseQueue \/ UNCHANGED queueVars
      BY <1>8 DEF Flush, Check, GetRoots
    <3> QED
      BY <1>1, <3>1, ReleaseType DEF QueueTypes
  <2>3. CallerTypes' /\ MapTypes' /\ CurInv'
    BY <1>1, <1>2, <1>8, <2>1 DEF CurInv, Flush, Check, GetRoots, Return, CallerTypes, MapTypes
  <2>4. /\ batch' \subseteq batch /\ db' \subseteq db \union batch
        /\ batchErr' \in {batchErr, TRUE}
    BY <1>8 DEF Flush, Check, GetRoots, FlushOK, FlushFail
  <2>5. StoreTypes'
    BY <1>1, <2>1, <2>4 DEF StoreTypes
  <2>6. roots' \in {roots} \union BOOLEAN
    <3>1. GetRoots => roots' \in BOOLEAN
      <4> SUFFICES ASSUME GetRoots PROVE roots' \in BOOLEAN
        OBVIOUS
      <4>1. roots' = TRUE \/ roots' = FALSE \/ roots' = (Root \in db \intersect s3)
        BY DEF GetRoots
      <4>2. (Root \in db \intersect s3) \in BOOLEAN
        OBVIOUS
      <4> QED
        BY <4>1, <4>2, Zenon
    <3>2. Flush \/ Check => roots' = roots
      BY DEF Flush, Check
    <3> QED
      BY <1>8, <3>1, <3>2
  <2>7. FlagTypes'
    BY <1>1, <1>2, <2>1, <2>2, <2>4, <2>6, Zenon DEF FlagTypes
  <2> QED
    BY <2>1, <2>2, <2>3, <2>5, <2>7, KeepsProducer
<1>9. CASE StopQueue \/ CloseStore \/ CloseChannel
  <2>1. /\ UNCHANGED <<kind, step, phase, dropped, errorChan, queueVars, storeVars, stream, seen, done>>
        /\ UNCHANGED <<procCtx, completed, roots, processingDone, cur, result>>
    BY <1>9 DEF StopQueue, CloseStore, CloseChannel
  <2>2. streamClosed' \in {streamClosed, TRUE} /\ sbsClosed' \in {sbsClosed, TRUE}
    BY <1>9 DEF StopQueue, CloseStore, CloseChannel
  <2>3. kind \in {"archive", "file", "car"}
    BY StepFacts
  <2>4. CallerTypes' /\ CurInv'
    BY <1>1, <1>2, <1>9, <2>1, <2>3 DEF CurInv, StopQueue, CloseStore, CloseChannel, CallerTypes
  <2>5. MapTypes'
    BY <1>1, <1>9, <2>1 DEF StopQueue, CloseStore, CloseChannel, MapTypes
  <2>6. FlagTypes' /\ QueueTypes' /\ StoreTypes'
    BY <1>1, <1>2, <2>1, <2>2 DEF FlagTypes, QueueTypes, StoreTypes
  <2> QED
    BY <2>1, <2>4, <2>5, <2>6, KeepsProducer
<1> QED
  BY <1>3, <1>4, <1>5, <1>6, <1>7, <1>8, <1>9 DEF Consumer

(* Every step keeps the types.                                              *)
LEMMA NextType == ClosedInv /\ TypeInv /\ [Next]_vars => TypeInv'
<1> SUFFICES ASSUME ClosedInv, TypeInv, [Next]_vars PROVE TypeInv'
  OBVIOUS
<1>1. FlagTypes /\ QueueTypes /\ StoreTypes /\ MapTypes /\ CallerTypes
  BY TypeGroups DEF TypeInv
<1>2. CASE OtherUpload \/ Timeout \/ Shutdown \/ UNCHANGED vars
  <2>1. UNCHANGED <<kind, step, phase, dropped, stream, streamClosed, pending, processed, seen,
                    sbsClosed, processingDone, done, errorChan, completed, errChan, job, attempt,
                    cpc, cur, result, roots, s3>>
    BY <1>2, OtherFrame
  <2>2. /\ batch' \subseteq batch \union Others /\ db' \subseteq db \union batch \union Others
        /\ batchErr' \in {batchErr, TRUE}
        /\ queueCtx' \in {queueCtx, "canceled", "deadline"}
        /\ procCtx' \in {procCtx, FALSE} /\ interrupted' \in {interrupted, TRUE}
    <3>1. CASE OtherUpload
      BY <3>1 DEF OtherUpload, OtherFlush, OtherAdd, FlushOK, FlushFail, queueVars, baseVars
    <3>2. CASE Timeout \/ Shutdown \/ UNCHANGED vars
      BY <3>2 DEF Timeout, Shutdown, vars, storeVars, queueVars, baseVars
    <3> QED
      BY <1>2, <3>1, <3>2
  <2>3. FlagTypes'
    BY <1>1, <2>1, <2>2, Zenon DEF FlagTypes
  <2>4. QueueTypes' /\ StoreTypes' /\ MapTypes' /\ CallerTypes'
    BY <1>1, <2>1, <2>2 DEF QueueTypes, StoreTypes, MapTypes, CallerTypes
  <2>5. CurInv'
    BY <2>1 DEF TypeInv, CurInv
  <2> QED
    BY <2>1, <2>3, <2>4, <2>5, KeepsProducer
<1>3. CASE Terminated
  BY <1>2, <1>3 DEF Terminated
<1> QED
  BY <1>2, <1>3, ProducerType, ConsumerType, WorkerType DEF Next, Pool

(* Where the producer and ProcessBlocks are fits the types of the rest.     *)
THEOREM TypesKept == Spec => []TypeInv
  BY InitType, NextType, ChannelSafe, PTL DEF Spec

(* The pipeline keeps its types: the channel never holds more than its      *)
(* capacity, the producer stays inside its script, a job inside its number  *)
(* of attempts, and errorChan is never full when an error is put into it.   *)
THEOREM TypeCorrect == Spec => []TypeOK
<1>1. TypeInv => TypeOK
  BY DEF TypeInv
<1> QED
  BY <1>1, TypesKept, PTL
-----------------------------------------------------------------------------
(* A block whose first add the producer leaves behind is the one of its     *)
(* current step ...                                                         *)
LEMMA PastAdvance ==
  ASSUME TypeInv, kind # "car", kind' = kind, step' = step + 1, step + 1 <= Length,
         NEW b \in Blocks, Past(b)', ~Past(b)
  PROVE  Cur.op = "add" /\ Cur.b = b
<1>1. /\ NumFiles \in Nat \ {0} /\ Root = NumFiles + 1 /\ b \in 1 .. Root
      /\ kind \in {"archive", "file"} /\ step \in 1 .. Length + 1
      /\ kind = "archive" => Length = 3 * NumFiles + 3
      /\ kind = "file" => Length = Root + 3
  BY StepFacts
<1>2. CASE kind = "archive"
  <2>1. CASE b = Root
    BY <1>1, <1>2, <2>1, CurStep DEF Past
  <2>2. CASE b # Root
    <3>1. step = 2 * b /\ step <= 2 * NumFiles
      BY <1>1, <1>2, <2>2 DEF Past
    <3>2. Cur.op = "add" /\ Cur.b \in 1 .. NumFiles /\ (2 * Cur.b = step \/ 2 * Cur.b = step + 1)
      BY <1>1, <1>2, <3>1, CurStep
    <3> QED
      BY <1>1, <3>1, <3>2
  <2> QED
    BY <2>1, <2>2
<1>3. CASE kind = "file"
  BY <1>1, <1>3, CurStep DEF Past
<1> QED
  BY <1>1, <1>2, <1>3

(* ... also when the rest of its file is left out ...                       *)
LEMMA PastDrop ==
  ASSUME TypeInv, Walking, kind' = kind, step' = 2 * Cur.b + 1, NEW b \in Blocks, Past(b)'
  PROVE  b = Cur.b \/ Past(b)
<1>1. /\ NumFiles \in Nat \ {0} /\ Root = NumFiles + 1 /\ b \in 1 .. Root
      /\ kind = "archive" /\ step \in Nat
  BY StepFacts DEF Walking
<1>2. Cur.b \in 1 .. NumFiles /\ (2 * Cur.b = step \/ 2 * Cur.b = step + 1)
  BY CurFacts
<1> QED
  BY <1>1, <1>2 DEF Past

(* ... and at the end all are behind it.                                    *)
LEMMA PastAll ==
  ASSUME TypeInv, kind # "car", Cur.op \in {"complete", "mark"}, NEW b \in Blocks
  PROVE  Past(b)
<1>1. /\ NumFiles \in Nat \ {0} /\ Root = NumFiles + 1 /\ b \in 1 .. Root /\ step \in Nat
      /\ kind = "archive" => Length = 3 * NumFiles + 3
  BY StepFacts
<1>2. IF kind = "archive" THEN step = Length ELSE step >= Root + 2
  BY <1>1, CurFacts
<1> QED
  BY <1>1, <1>2 DEF Past

(* The producer passes over no block.                                       *)
LEMMA ProducerKept ==
  ASSUME TypeInv, ProducerInv, Producer
  PROVE  ProducerInv'
<1>1. /\ kind' = kind /\ kind # "car" /\ phase \in {"run", "put", "send", "wait"}
      /\ UNCHANGED <<result, interrupted, procCtx>>
  BY ProducerFrame, ProducerPhase DEF Streaming
<1>2. ProducerMoves
  BY ProducerMove DEF TypeInv
<1>3. /\ Cur.op \in {"add", "get"} => step + 1 <= Length
      /\ Walking => Cur.op = "add"
      /\ Cur.op = "mark" => kind = "file" /\ step = Root + 3
      /\ Cur.op = "complete" => IF kind = "archive" THEN step = Length ELSE step = Root + 2
      /\ Len(Script(kind)) = Length
  BY <1>1, CurFacts
<1>4. completed => phase = "run" /\ Cur.op = "mark"
  BY <1>1 DEF ProducerInv
<1>5. /\ pending' \subseteq seen' /\ seen \subseteq seen' /\ dropped \subseteq dropped'
      /\ done' \subseteq seen'
  BY <1>1, <1>2 DEF ProducerInv, ProducerMoves, Streaming
<1>6. phase' = "send" => Cur.b \in seen' /\ Cur' = Cur
  BY <1>1, <1>2, <1>5 DEF ProducerMoves, Advance, Cur
<1>7. ASSUME NEW b \in Blocks, Past(b)', procCtx PROVE b \in seen' \union dropped'
  <2>1. Past(b) => b \in seen \union dropped
    BY <1>1, <1>7 DEF ProducerInv, Streaming
  <2>2. CASE step' = step
    BY <1>1, <1>5, <1>7, <2>1, <2>2 DEF Past
  <2>3. CASE Walking /\ step' = 2 * Cur.b + 1 /\ dropped' = dropped \union {Cur.b}
    BY <1>1, <1>5, <1>7, <2>1, <2>3, PastDrop
  <2>4. CASE step' = step + 1 /\ Cur.op \in {"add", "get"} /\ (Cur.op = "add" => Cur.b \in seen)
    BY <1>1, <1>3, <1>5, <1>7, <2>1, <2>4, PastAdvance
  <2>5. CASE Cur.op = "complete"
    BY <1>1, <1>5, <2>1, <2>5, PastAll
  <2>6. phase = "send" => Cur.b \in seen
    BY DEF ProducerInv
  <2>7. pending \subseteq seen /\ done \subseteq seen
    BY <1>1 DEF ProducerInv, Streaming
  <2> QED
    BY <1>2, <1>7, <2>2, <2>3, <2>4, <2>5, <2>6, <2>7 DEF ProducerMoves, Advance
<1>8. streamClosed' => completed' \/ result' # "none"
  BY <1>1, <1>2, Zenon DEF ProducerInv, ProducerMoves
<1>9. completed' => Cur.op \in {"complete", "mark"}
  BY <1>2, <1>4 DEF ProducerMoves
<1>10. ASSUME completed' PROVE (\A b \in Blocks : Past(b)') /\ (phase' = "ended" \/ (phase' = "run" /\ Cur'.op = "mark"))
  <2>1. Cur.op \in {"complete", "mark"} /\ \A b \in Blocks : Past(b)
    BY <1>1, <1>9, <1>10, PastAll
  <2>2. step' = step \/ step' = step + 1
    BY <1>2, <1>3, <2>1 DEF ProducerMoves, Advance
  <2>3. \A b \in Blocks : Past(b)'
    BY <1>1, <2>1, <2>2, StepFacts DEF Past
  <2>4. CASE step' = step
    <3>1. step' # step + 1
      BY <2>4, StepFacts
    <3>2. phase' = "ended"
      BY <1>2, <2>1, <3>1 DEF ProducerMoves, Advance
    <3> QED
      BY <2>3, <3>2
  <2>5. CASE step' # step
    <3>1. phase' = "run" /\ Cur.op = "complete" /\ step' = step + 1 /\ step # Length
      BY <1>2, <1>3, <2>1, <2>5 DEF ProducerMoves, Advance
    <3>2. kind = "file" /\ step' = Root + 3
      BY <1>1, <1>3, <3>1, StepFacts
    <3>3. Cur' = StepOf("mark", Root)
      BY <1>1, <3>2, FileScript DEF Cur
    <3> QED
      BY <2>3, <3>1, <3>3 DEF StepOf
  <2> QED
    BY <2>3, <2>4, <2>5
<1> QED
  BY <1>1, <1>5, <1>6, <1>7, <1>8, <1>10 DEF ProducerInv, Streaming, Past

(* What the producer sends is in the channel, and the rest stays there.     *)
LEMMA ProducerPipe ==
  ASSUME TypeInv, ProducerInv, PipeInv, Producer
  PROVE  PipeInv'
<1>1. /\ UNCHANGED <<kind, queueCtx, errChan, job, cpc, cur, result, interrupted>>
      /\ kind # "car" /\ phase \in {"run", "put", "send", "wait"}
  BY ProducerFrame, ProducerPhase DEF Streaming
<1>2. ProducerMoves
  BY ProducerMove DEF TypeInv
<1> SUFFICES ASSUME Going
             PROVE  /\ queueCtx' = "live"
                    /\ \A b \in Blocks : job'[b] # "skipped"
                    /\ \A b \in seen' : \/ InPipe(b)' \/ b \in dropped'
                                        \/ phase' = "send" /\ Cur'.b = b
                                        \/ phase' \in {"failed", "panicked"}
                    /\ cpc' \in {"stopwait", "flush", "check", "roots"} => stream' = <<>> /\ completed'
  BY <1>1 DEF PipeInv, Going
<1>3. \A b \in seen : InPipe(b) \/ b \in dropped \/ (phase = "send" /\ Cur.b = b)
  BY <1>1 DEF PipeInv
<1>4. stream \in Seq(Blocks) /\ Cur.b \in Blocks /\ dropped \subseteq 1 .. NumFiles /\ Root \notin 1 .. NumFiles
  <2>1. step <= Length /\ Root \notin 1 .. NumFiles
    BY <1>1, StepFacts
  <2> QED
    BY <2>1, CurFacts DEF TypeInv, TypeOK
<1>5. CASE stream' = stream
  <2>1. \A b \in Blocks : InPipe(b)' <=> InPipe(b)
    BY <1>1, <1>5 DEF InPipe
  <2>2. seen \subseteq Blocks
    BY DEF TypeInv, TypeOK
  <2>3. \A b \in seen : \/ InPipe(b)' \/ b \in dropped'
                        \/ phase' = "send" /\ Cur'.b = b
                        \/ phase' \in {"failed", "panicked"}
    <3>1. CASE phase # "send"
      <4>1. dropped \subseteq dropped'
        BY <1>2 DEF ProducerMoves
      <4> QED
        BY <1>3, <2>1, <2>2, <3>1, <4>1
    <3>2. CASE phase = "send"
      <4>1. dropped \subseteq dropped' /\ (Cur.b \in dropped' \/ phase' \in {"failed", "panicked"})
        <5>1. stream' # Append(stream, Cur.b)
          BY <1>4, <1>5
        <5> QED
          BY <1>2, <3>2, <5>1 DEF ProducerMoves
      <4> QED
        BY <1>3, <2>1, <2>2, <4>1
    <3> QED
      BY <3>1, <3>2
  <2>4. ASSUME NEW b \in seen', b \notin seen
        PROVE  phase' = "send" /\ Cur'.b = b
    <3>1. CASE phase = "put" /\ phase' = "send" /\ seen' = seen \union {Cur.b} /\ step' = step
      BY <1>1, <2>4, <3>1 DEF Cur
    <3>2. CASE Cur.op = "mark" /\ seen' = seen \union {Cur.b}
      <4>1. Cur.b = Root /\ Root \in Blocks /\ Past(Root)
        BY <1>1, <3>2, CurFacts, StepFacts, PastAll
      <4>2. procCtx
        BY DEF ProducerInv, Going
      <4>3. Root \in seen
        BY <1>1, <1>4, <4>1, <4>2 DEF ProducerInv, Streaming
      <4> QED
        BY <2>4, <3>2, <4>1, <4>3
    <3> QED
      BY <1>2, <2>4, <3>1, <3>2 DEF ProducerMoves
  <2>5. completed => completed'
    BY <1>2 DEF ProducerMoves
  <2> QED
    BY <1>1, <1>5, <2>3, <2>4, <2>5 DEF PipeInv
<1>6. CASE phase = "send" /\ stream' = Append(stream, Cur.b) /\ UNCHANGED <<seen, dropped>>
  <2>1. /\ Len(stream') = Len(stream) + 1 /\ stream'[Len(stream) + 1] = Cur.b
        /\ \A i \in 1 .. Len(stream) : stream'[i] = stream[i] /\ i \in 1 .. Len(stream')
        /\ Len(stream) + 1 \in 1 .. Len(stream')
    BY <1>4, <1>6
  <2>2. \A b \in Blocks : InPipe(b) => InPipe(b)'
    BY <1>1, <2>1 DEF InPipe
  <2>3. \A b \in Blocks : Cur.b = b => InPipe(b)'
    BY <2>1 DEF InPipe
  <2>4. cpc \notin {"stopwait", "flush", "check", "roots"}
    <3>1. ~completed
      BY <1>6 DEF ProducerInv
    <3> QED
      BY <1>1, <3>1 DEF PipeInv
  <2>5. seen \subseteq Blocks
    BY DEF TypeInv, TypeOK
  <2> QED
    BY <1>1, <1>3, <1>6, <2>2, <2>3, <2>4, <2>5 DEF PipeInv
<1> QED
  BY <1>2, <1>5, <1>6 DEF ProducerMoves

(* What was stored, and reported as success, stays so.                      *)
LEMMA SuccessKept ==
  ASSUME SuccessMeansStored, UNCHANGED <<result, roots>>,
         db \subseteq db', s3 \subseteq s3', dropped \subseteq dropped',
         interrupted => interrupted', batchErr => batchErr'
  PROVE  SuccessMeansStored'
  BY DEF SuccessMeansStored, Succeeded, Stored

(* The producer leaves what is stored alone.                                *)
LEMMA ProducerStored ==
  ASSUME TypeInv, StoredInv, Producer
  PROVE  StoredInv'
<1>1. UNCHANGED <<job, cpc, result, roots, interrupted, s3, batch, batchErr, db>>
  BY ProducerFrame
<1>2. dropped \subseteq dropped'
  BY ProducerMove DEF TypeInv, ProducerMoves
<1>3. StoreInv'
  BY <1>1 DEF StoredInv, StoreInv
<1>4. SuccessMeansStored'
  BY <1>1, <1>2, SuccessKept DEF StoredInv
<1> QED
  BY <1>3, <1>4, ProducerKept, ProducerPipe DEF StoredInv
-----------------------------------------------------------------------------
(* How far a step of a worker takes a block: a job is skipped only when the *)
(* context is done, succeeds only with its block in the batch or in the     *)
(* database, and a failed flush is remembered.                              *)
LEMMA WorkerStores ==
  ASSUME job \in [Blocks -> JobStates], errChan \in BOOLEAN, StoreInv, NEW b \in Blocks, Worker(b)
  PROVE  /\ job'[b] \in JobStates \ {"none", "queued"} /\ \A c \in Blocks \ {b} : job'[c] = job[c]
         /\ job'[b] = "skipped" => queueCtx # "live"
         /\ errChan => errChan'
         /\ ~errChan' => queueCtx' = queueCtx
         /\ seen \subseteq seen' /\ seen' \subseteq seen \union {b}
         /\ kind # "car" /\ done \subseteq seen => done' \subseteq seen'
         /\ s3 \subseteq s3' /\ db \subseteq db' /\ (batchErr => batchErr')
         /\ ~batchErr' => batch \union db \subseteq batch' \union db'
         /\ batch' \union db' \subseteq batch \union db \union (IF job[b] = "uploaded" THEN {b} ELSE {})
         /\ job'[b] = "uploaded" => b \in s3'
         /\ job'[b] = "ok" => b \in batch' \union db'
<1>1. CASE JobStart(b) \/ JobCancelled(b)
  BY <1>1 DEF JobStart, JobCancelled, JobStates, sbsVars, storeVars
<1>2. ASSUME AttemptFails(b)
      PROVE  /\ job'[b] \in {"started", "failed"} /\ \A c \in Blocks \ {b} : job'[c] = job[c]
             /\ errChan => errChan'
             /\ ~errChan' => queueCtx' = queueCtx
  BY <1>2 DEF AttemptFails
<1>3. ASSUME JobSucceeds(b)
      PROVE  /\ job'[b] = "ok" /\ \A c \in Blocks \ {b} : job'[c] = job[c]
             /\ errChan' = errChan /\ queueCtx' = queueCtx
             /\ seen \subseteq seen' /\ seen' \subseteq seen \union {b}
             /\ kind # "car" /\ done \subseteq seen => done' \subseteq seen'
  BY <1>3 DEF JobSucceeds
<1>4. CASE UploadObject(b)
  <2>1. UNCHANGED <<batch, batchErr, db>>
    BY <1>4 DEF UploadObject
  <2>2. CASE b \in db /\ JobSucceeds(b) /\ UNCHANGED s3
    BY <1>3, <2>1, <2>2 DEF JobStates
  <2>3. CASE AttemptFails(b) /\ UNCHANGED <<s3, done, seen>>
    BY <1>2, <2>1, <2>3 DEF JobStates
  <2>4. CASE s3' = s3 \union {b} /\ job' = [job EXCEPT ![b] = "uploaded"]
               /\ UNCHANGED <<done, seen, queueCtx, errChan, attempt>>
    BY <2>1, <2>4 DEF JobStates
  <2> QED
    BY <1>4, <2>2, <2>3, <2>4 DEF UploadObject
<1>5. CASE BatcherAdd(b)
  <2>1. job[b] = "uploaded" /\ s3' = s3
    BY <1>5 DEF BatcherAdd
  <2>2. CASE JobSucceeds(b) /\ UNCHANGED batchErr /\ b \in batch' \union db' /\ db \subseteq db'
               /\ batch' \union db' = batch \union db \union {b}
    BY <1>3, <2>1, <2>2 DEF JobStates
  <2>3. CASE AttemptFails(b) /\ UNCHANGED <<done, seen, db>> /\ batchErr' /\ batch' \subseteq batch
    BY <1>2, <2>1, <2>3 DEF JobStates
  <2> QED
    BY <1>5, <2>2, <2>3 DEF BatcherAdd, FlushOK, FlushFail
<1> QED
  BY <1>1, <1>4, <1>5 DEF Worker

(* The pool keeps blocks in the pipe until they are stored.                 *)
LEMMA WorkerStored ==
  ASSUME ErrInv, TypeInv, StoredInv, NEW b \in Blocks, Worker(b)
  PROVE  StoredInv'
<1>1. UNCHANGED <<kind, step, phase, dropped, stream, streamClosed, pending, processed, sbsClosed,
                  processingDone, procCtx, errorChan, completed, cpc, cur, result, roots, interrupted>>
  BY PoolFrame
<1>2. /\ job'[b] \in JobStates \ {"none", "queued"} /\ \A c \in Blocks \ {b} : job'[c] = job[c]
      /\ job'[b] = "skipped" => queueCtx # "live"
      /\ errChan => errChan'
      /\ ~errChan' => queueCtx' = queueCtx
      /\ seen \subseteq seen' /\ seen' \subseteq seen \union {b}
      /\ kind # "car" /\ done \subseteq seen => done' \subseteq seen'
      /\ s3 \subseteq s3' /\ db \subseteq db' /\ (batchErr => batchErr')
      /\ ~batchErr' => batch \union db \subseteq batch' \union db'
      /\ batch' \union db' \subseteq batch \union db \union (IF job[b] = "uploaded" THEN {b} ELSE {})
      /\ job'[b] = "uploaded" => b \in s3'
      /\ job'[b] = "ok" => b \in batch' \union db'
  BY WorkerStores DEF ErrInv, StoredInv
<1>3. job[b] \in {"queued", "started", "uploaded"} /\ cpc \notin {"check", "roots"}
  BY WorkerStep DEF ErrInv, Quiet
<1>4. ProducerInv'
  BY <1>1, <1>2 DEF StoredInv, ProducerInv, Past, Cur, Streaming
<1>5. PipeInv'
  <2>1. Going' => Going /\ queueCtx' = queueCtx
    BY <1>1, <1>2 DEF Going
  <2>2. \A c \in Blocks : InPipe(c) => InPipe(c)'
    BY <1>1, <1>2 DEF InPipe
  <2>3. InPipe(b)' /\ seen \subseteq Blocks
    <3>1. InPipe(b)'
      BY <1>2 DEF InPipe
    <3>2. seen \subseteq Blocks
      BY DEF TypeInv, TypeOK
    <3> QED
      BY <3>1, <3>2
  <2>4. \A c \in Blocks : Past(c)' <=> Past(c)
    BY <1>1 DEF Past
  <2>5. Cur' = Cur
    BY <1>1 DEF Cur
  <2> QED
    BY <1>1, <1>2, <2>1, <2>2, <2>3, <2>4, <2>5 DEF StoredInv, PipeInv
<1>6. StoreInv'
  BY <1>1, <1>2, <1>3 DEF StoredInv, StoreInv
<1>7. SuccessMeansStored'
  BY <1>1, <1>2, SuccessKept DEF StoredInv
<1> QED
  BY <1>4, <1>5, <1>6, <1>7 DEF StoredInv

(* Other uploads flush our blocks with theirs; the timeout and a shutdown   *)
(* are remembered.                                                          *)
LEMMA OtherStored ==
  ASSUME TypeInv, StoredInv, OtherUpload \/ Timeout \/ Shutdown \/ UNCHANGED vars
  PROVE  StoredInv'
<1>1. /\ UNCHANGED <<kind, step, phase, dropped, stream, streamClosed, pending, processed, seen,
                     sbsClosed, processingDone, done, errorChan, completed, errChan, job, attempt,
                     cpc, cur, result, roots, s3>>
      /\ OtherUpload \/ UNCHANGED <<batch, batchErr, db>>
      /\ OtherUpload => UNCHANGED <<queueCtx, procCtx, interrupted>>
  BY OtherFrame
<1>2. /\ interrupted => interrupted'
      /\ ~interrupted' => UNCHANGED <<queueCtx, procCtx>>
      /\ procCtx' => procCtx
  <2>1. CASE Timeout \/ Shutdown
    BY <2>1 DEF Timeout, Shutdown, baseVars
  <2>2. CASE UNCHANGED vars
    BY <2>2 DEF vars, queueVars, baseVars
  <2> QED
    BY <1>1, <2>1, <2>2
<1>3. /\ db \subseteq db' /\ (batchErr => batchErr')
      /\ ~batchErr' => batch \union db \subseteq batch' \union db'
      /\ batch' \union db' \subseteq batch \union db \union Others
  <2>1. CASE OtherFlush
    BY <2>1 DEF OtherFlush, FlushOK, FlushFail
  <2>2. ASSUME NEW o \in Others, OtherAdd(o)
        PROVE  \/ batch' = batch \union {o} /\ UNCHANGED <<batchErr, db>>
               \/ batch' = {} /\ db' = db \union (batch \union {o}) /\ UNCHANGED batchErr
               \/ batch' = {} /\ batchErr' /\ UNCHANGED db
    BY <2>2 DEF OtherAdd, FlushOK, FlushFail
  <2>3. CASE \E o \in Others : OtherAdd(o)
    BY <2>2, <2>3
  <2> QED
    BY <1>1, <2>1, <2>3 DEF OtherUpload
<1>4. \A b \in Blocks : b \notin Others
  <2>1. Blocks \subseteq Nat
    BY PipelineAssumption DEF Blocks, Root
  <2>2. Others \intersect Nat = {}
    BY PipelineAssumption
  <2> QED
    BY <2>1, <2>2
<1>5. ProducerInv'
  BY <1>1, <1>2 DEF StoredInv, ProducerInv, Past, Cur, Streaming
<1>6. PipeInv'
  <2>1. Going' => Going /\ queueCtx' = queueCtx
    BY <1>1, <1>2 DEF Going
  <2>2. \A c \in Blocks : (InPipe(c)' <=> InPipe(c)) /\ (Past(c)' <=> Past(c))
    BY <1>1 DEF InPipe, Past
  <2>3. Cur' = Cur /\ seen \subseteq Blocks
    BY <1>1 DEF Cur, TypeInv, TypeOK
  <2> QED
    BY <1>1, <2>1, <2>2, <2>3 DEF StoredInv, PipeInv
<1>7. StoreInv'
  BY <1>1, <1>3, <1>4 DEF StoredInv, StoreInv
<1>8. SuccessMeansStored'
  BY <1>1, <1>2, <1>3, SuccessKept DEF StoredInv
<1> QED
  BY <1>5, <1>6, <1>7, <1>8 DEF StoredInv

(* ProcessBlocks takes every block to the pool before it waits for it, and  *)
(* the release leaves what is stored alone.                                 *)
LEMMA ConsumerStored ==
  ASSUME ErrInv, ClosedInv, TypeInv, StoredInv, Consumer
  PROVE  StoredInv'
<1> USE DEF producerVars, sbsVars, baseVars, queueVars, callerVars, storeVars
<1>1. /\ interrupted' = interrupted /\ CurInv /\ kind' = kind
      /\ ProducerInv /\ PipeInv /\ StoreInv /\ SuccessMeansStored
  BY DEF Consumer, TypeInv, StoredInv, TakeBlock, MarkBlockProcessed, ReadCAR, NextEnds, QueueBlock,
         StopWait, Flush, Check, GetRoots, StopQueue, CloseStore, CloseChannel, CloseBase, WaitProducer
<1>2. /\ seen \subseteq Blocks /\ stream \in Seq(Blocks) /\ cur \in Blocks \union {0}
      /\ 0 \notin Blocks /\ job \in [Blocks -> JobStates]
  <2>1. seen \subseteq Blocks /\ stream \in Seq(Blocks) /\ cur \in Blocks \union {0}
    BY DEF TypeInv, TypeOK
  <2>2. 0 \notin Blocks
    BY StepFacts
  <2> QED
    BY <2>1, <2>2 DEF ErrInv
<1>3. ASSUME result' # "none" PROVE PipeInv'
  BY <1>3 DEF PipeInv, Going
(* Steps that keep the producer, and all but its pending map.               *)
<1>4. ASSUME UNCHANGED <<step, phase, seen, dropped, streamClosed, completed, procCtx>>, pending' \subseteq pending,
             Streaming => done' = done, result' = result \/ result' # "none"
      PROVE  ProducerInv'
  BY <1>1, <1>4 DEF ProducerInv, Past, Cur, Streaming
(* Steps that keep the store.                                               *)
<1>5. ASSUME UNCHANGED storeVars, cpc' \notin {"check", "roots"},
             \A b \in Blocks : job'[b] \in {"ok", "uploaded"} => job'[b] = job[b]
      PROVE  StoreInv'
  BY <1>1, <1>5 DEF StoreInv
<1>6. ASSUME UNCHANGED <<result, roots, s3, db, batchErr, dropped>> PROVE SuccessMeansStored'
  BY <1>1, <1>6, SuccessKept
<1>7. ASSUME result' = "err" PROVE SuccessMeansStored'
  BY <1>7 DEF SuccessMeansStored, Succeeded
<1>8. ReleaseQueue => \A b \in Blocks : job'[b] \in {"ok", "uploaded"} => job'[b] = job[b]
  BY DEF ReleaseQueue
<1>9. CASE TakeBlock
  <2>1. /\ cpc = "next" /\ cpc' = "mark" /\ stream # <<>>
        /\ cur' = Head(stream) /\ stream' = Tail(stream) /\ pending' \subseteq pending
        /\ UNCHANGED <<step, phase, seen, dropped, streamClosed, completed, procCtx, done, job, errChan, queueCtx>>
        /\ UNCHANGED <<storeVars, result, roots>>
    BY <1>9 DEF TakeBlock
  <2>2. ASSUME NEW b \in Blocks, InPipe(b) PROVE InPipe(b)'
    <3>1. CASE job[b] # "none"
      BY <2>1, <3>1 DEF InPipe
    <3>2. CASE job[b] = "none"
      <4>1. PICK i \in 1 .. Len(stream) : stream[i] = b
        BY <2>1, <2>2, <3>2 DEF InPipe
      <4>2. CASE i = 1
        <5>1. cur' = b
          BY <1>2, <2>1, <4>1, <4>2
        <5> QED
          BY <2>1, <5>1 DEF InPipe
      <4>3. CASE i # 1
        <5>1. i - 1 \in 1 .. Len(stream') /\ stream'[i - 1] = b
          BY <1>2, <2>1, <4>1, <4>3
        <5> QED
          BY <5>1 DEF InPipe
      <4> QED
        BY <4>2, <4>3
    <3> QED
      BY <3>1, <3>2
  <2>3. PipeInv'
    BY <1>1, <1>2, <2>1, <2>2 DEF PipeInv, Going, Past, Cur
  <2> QED
    BY <2>1, <2>3, <1>4, <1>5, <1>6 DEF StoredInv
<1>10. CASE MarkBlockProcessed
  <2>1. /\ cpc = "mark" /\ cpc' = "queue"
        /\ UNCHANGED <<step, phase, seen, dropped, streamClosed, completed, procCtx, done, pending, job, errChan, queueCtx>>
        /\ UNCHANGED <<storeVars, result, roots, cur, stream>>
    BY <1>10 DEF MarkBlockProcessed
  <2>2. PipeInv'
    BY <1>1, <1>2, <2>1 DEF PipeInv, Going, Past, Cur, InPipe
  <2> QED
    BY <2>1, <2>2, <1>4, <1>5, <1>6 DEF StoredInv
<1>11. CASE ReadCAR
  <2>1. /\ kind = "car" /\ cpc = "next" /\ Len(Script(kind)) = Root /\ phase = "run" /\ step \in Nat /\ ~completed
        /\ UNCHANGED <<phase, seen, dropped, streamClosed, completed, procCtx, done, pending, stream, storeVars, roots>>
    BY <1>1, <1>11, CurFacts, StepFacts DEF ReadCAR, Streaming, ClosedInv, ProducerInv
  <2>2. CASE result' = "err" /\ ReleaseQueue /\ step' = step /\ cpc' = "stopping"
    BY <1>3, <1>4, <1>5, <1>7, <1>8, <2>1, <2>2 DEF StoredInv
  <2>3. CASE step > Root /\ cpc' = "stopwait" /\ UNCHANGED <<cur, step, result, queueVars>>
    <3>1. PipeInv'
      BY <1>1, <1>2, <2>1, <2>3 DEF PipeInv, Going, Past, Cur, InPipe
    <3> QED
      BY <1>4, <1>5, <1>6, <2>1, <2>3, <3>1 DEF StoredInv
  <2>4. CASE step <= Root /\ cur' = Cur.b /\ step' = step + 1 /\ cpc' = "queue" /\ UNCHANGED <<result, queueVars>>
    <3>1. Cur.b = step /\ step \in Blocks
      BY <2>1, <2>4, CurStep, StepFacts
    <3>2. \A b \in Blocks : InPipe(b) => InPipe(b)'
      BY <2>1, <2>4 DEF InPipe
    <3>3. ASSUME Going', NEW b \in Blocks, Past(b)' PROVE InPipe(b)'
      <4>1. CASE b = step
        BY <2>4, <3>1, <4>1 DEF InPipe
      <4>2. CASE b # step
        <5>1. Past(b)
          BY <1>1, <1>2, <2>1, <2>4, <3>3, <4>2, StepFacts DEF Past
        <5> QED
          BY <1>1, <2>1, <2>4, <3>2, <3>3, <5>1 DEF PipeInv, Going
      <4> QED
        BY <4>1, <4>2
    <3>4. PipeInv'
      BY <1>1, <1>2, <2>1, <2>4, <3>2, <3>3 DEF PipeInv, Going
    <3>5. ProducerInv'
      BY <1>1, <2>1, <2>4 DEF ProducerInv, Streaming
    <3> QED
      BY <1>5, <1>6, <2>1, <2>4, <3>4, <3>5 DEF StoredInv
  <2> QED
    BY <1>11, <2>1, <2>2, <2>3, <2>4 DEF ReadCAR, Return
<1>12. CASE NextEnds
  <2>1. /\ kind # "car" /\ cpc = "next"
        /\ UNCHANGED <<step, phase, seen, dropped, streamClosed, completed, procCtx, done, pending, stream, storeVars, roots, cur>>
    BY <1>12 DEF NextEnds, Streaming
  <2>2. CASE result' = "err" /\ ReleaseQueue /\ cpc' = "stopping"
    BY <1>3, <1>4, <1>5, <1>7, <1>8, <2>1, <2>2 DEF StoredInv
  <2>3. CASE stream = <<>> /\ streamClosed /\ cpc' = "stopwait" /\ UNCHANGED <<result, queueVars>>
    <3>1. Going => completed
      BY <1>1, <2>3 DEF ProducerInv, Going
    <3>2. PipeInv'
      BY <1>1, <1>2, <2>1, <2>3, <3>1 DEF PipeInv, Going, Past, Cur, InPipe
    <3> QED
      BY <1>4, <1>5, <1>6, <2>1, <2>3, <3>2 DEF StoredInv
  <2> QED
    BY <1>12, <2>2, <2>3 DEF NextEnds, Return
<1>13. CASE QueueBlock
  <2>1. /\ cpc = "queue" /\ cur \in Blocks
        /\ UNCHANGED <<step, phase, seen, dropped, streamClosed, completed, procCtx, pending, stream, storeVars,
                       result, roots, queueCtx, errChan>>
        /\ Streaming => done' = done
        /\ IF queueCtx = "live" THEN job' = [job EXCEPT ![cur] = "queued"] /\ cpc' = "next"
                                ELSE job' = job /\ cpc' = "stopwait"
    BY <1>1, <1>2, <1>13 DEF QueueBlock, CurInv
  <2>2. \A b \in Blocks : job'[b] # "queued" => job'[b] = job[b]
    BY <1>2, <2>1
  <2>3. ASSUME Going PROVE PipeInv'
    <3>1. queueCtx = "live" /\ job' = [job EXCEPT ![cur] = "queued"] /\ cpc' = "next"
      BY <1>1, <2>1, <2>3 DEF PipeInv
    <3>2. \A b \in Blocks : InPipe(b) => InPipe(b)'
      BY <1>2, <2>1, <3>1 DEF InPipe
    <3> QED
      BY <1>1, <1>2, <2>1, <2>2, <2>3, <3>1, <3>2 DEF PipeInv, Going, Past, Cur
  <2>4. PipeInv'
    BY <1>1, <2>1, <2>3 DEF PipeInv, Going
  <2> QED
    BY <1>4, <1>5, <1>6, <2>1, <2>2, <2>4 DEF StoredInv
<1>14. CASE StopWait
  <2>1. /\ cpc = "stopwait" /\ cpc' = "flush"
        /\ UNCHANGED <<step, phase, seen, dropped, streamClosed, completed, procCtx, done, pending, stream, storeVars,
                       result, roots, cur, queueVars>>
    BY <1>14 DEF StopWait
  <2>2. PipeInv'
    BY <1>1, <1>2, <2>1 DEF PipeInv, Going, Past, Cur, InPipe
  <2> QED
    BY <1>4, <1>5, <1>6, <2>1, <2>2 DEF StoredInv
<1>15. CASE Flush
  <2>1. /\ cpc = "flush" /\ s3' = s3
        /\ UNCHANGED <<step, phase, seen, dropped, streamClosed, completed, procCtx, done, pending, stream, roots, cur>>
    BY <1>15 DEF Flush
  <2>2. CASE cpc' = "check" /\ UNCHANGED <<result, queueVars, batchErr>> /\ batch' = {} /\ db' = db \union batch
    <3>1. PipeInv'
      BY <1>1, <1>2, <2>1, <2>2 DEF PipeInv, Going, Past, Cur, InPipe
    <3>2. StoreInv'
      BY <1>1, <2>1, <2>2 DEF StoreInv
    <3>3. SuccessMeansStored'
      BY <1>1, <2>1, <2>2, SuccessKept
    <3> QED
      BY <1>4, <2>1, <2>2, <3>1, <3>2, <3>3 DEF StoredInv
  <2>3. CASE result' = "err" /\ ReleaseQueue /\ cpc' = "stopping" /\ batch' = {} /\ batchErr' /\ db' = db
    <3>1. StoreInv'
      BY <1>1, <1>8, <2>1, <2>3 DEF StoreInv
    <3> QED
      BY <1>3, <1>4, <1>7, <2>1, <2>3, <3>1 DEF StoredInv
  <2> QED
    BY <1>15, <2>2, <2>3 DEF Flush, FlushOK, FlushFail, Return
<1>16. CASE Check
  <2>1. /\ cpc = "check"
        /\ UNCHANGED <<step, phase, seen, dropped, streamClosed, completed, procCtx, done, pending, stream, storeVars, roots, cur>>
    BY <1>16 DEF Check
  <2>2. CASE result' = "err" /\ ReleaseQueue /\ cpc' = "stopping"
    BY <1>3, <1>4, <1>5, <1>7, <1>8, <2>1, <2>2 DEF StoredInv
  <2>3. CASE cpc' = "roots" /\ UNCHANGED <<result, queueVars>>
    <3>1. PipeInv'
      BY <1>1, <1>2, <2>1, <2>3 DEF PipeInv, Going, Past, Cur, InPipe
    <3>2. StoreInv'
      BY <1>1, <2>1, <2>3 DEF StoreInv
    <3> QED
      BY <1>4, <1>6, <2>1, <2>3, <3>1, <3>2 DEF StoredInv
  <2> QED
    BY <1>16, <2>2, <2>3 DEF Check, Return
<1>17. CASE GetRoots
  <2>1. /\ cpc = "roots" /\ cpc' = "stopping" /\ result' = "ok" /\ ReleaseQueue
        /\ UNCHANGED <<step, phase, seen, dropped, streamClosed, completed, procCtx, done, pending, stream, storeVars, cur>>
    BY <1>17 DEF GetRoots, Return
  <2>2. /\ Quiet /\ ~errChan /\ result = "none" /\ \A b \in Blocks : job[b] # "failed"
    BY <2>1 DEF ErrInv, InLoop
  <2>3. ASSUME ~interrupted, ~batchErr, NEW b \in Blocks, b \notin dropped PROVE b \in db /\ b \in s3
    <3>1. Going
      BY <2>2, <2>3 DEF Going
    <3>2. InPipe(b)
      <4>1. CASE kind = "car"
        <5>1. step > Root /\ Root \in Nat /\ step \in Nat /\ b \in 1 .. Root
          BY <1>1, <2>1, <3>1, <4>1, StepFacts DEF PipeInv
        <5>2. Past(b)
          BY <4>1, <5>1 DEF Past
        <5> QED
          BY <1>1, <3>1, <4>1, <5>2 DEF PipeInv
      <4>2. CASE kind # "car"
        <5>1. completed
          BY <1>1, <2>1, <3>1, <4>2 DEF PipeInv
        <5>2. b \in seen /\ phase \in {"ended", "run"}
          BY <1>1, <2>3, <3>1, <4>2, <5>1 DEF ProducerInv, Going, Streaming
        <5> QED
          BY <1>1, <2>3, <3>1, <5>2 DEF PipeInv
      <4> QED
        BY <4>1, <4>2
    <3>3. job[b] # "none"
      <4>1. CASE kind = "car"
        <5>1. stream = <<>>
          BY <1>1, <3>1, <4>1 DEF PipeInv
        <5> QED
          BY <2>1, <3>2, <5>1 DEF InPipe
      <4>2. CASE kind # "car"
        BY <1>1, <2>1, <3>1, <3>2, <4>2 DEF InPipe, PipeInv
      <4> QED
        BY <4>1, <4>2
    <3>4. job[b] = "ok"
      BY <1>1, <1>2, <2>2, <3>1, <3>3 DEF PipeInv, Quiet, JobStates
    <3> QED
      BY <1>1, <2>1, <2>3, <3>4 DEF StoreInv
  <2>4. SuccessMeansStored'
    BY <1>1, <2>1, <2>3 DEF SuccessMeansStored, Stored
  <2> QED
    BY <1>3, <1>4, <1>5, <1>8, <2>1, <2>4 DEF StoredInv
<1>18. CASE StopQueue \/ CloseStore \/ CloseChannel \/ CloseBase \/ WaitProducer
  <2>1. /\ cpc \in {"stopping", "closeStore", "closeChannel", "closeBase", "waitProducer"}
        /\ UNCHANGED <<step, phase, seen, dropped, completed, done, stream, storeVars, result, roots, cur, queueVars>>
        /\ pending' \subseteq pending
    BY <1>18 DEF StopQueue, CloseStore, CloseChannel, CloseBase, WaitProducer
  <2>2. cpc' \in {"closeStore", "closeChannel", "closeBase", "waitProducer", "released"}
    <3>1. kind \in {"archive", "file", "car"}
      BY DEF ErrInv
    <3>2. CASE StopQueue
      BY <3>1, <3>2 DEF StopQueue
    <3>3. CASE CloseStore \/ CloseChannel \/ CloseBase \/ WaitProducer
      BY <3>3 DEF CloseStore, CloseChannel, CloseBase, WaitProducer
    <3> QED
      BY <1>18, <3>2, <3>3
  <2>3. result # "none"
    BY <2>1 DEF ErrInv, InLoop
  <2>4. ProducerInv'
    <3>1. CASE CloseBase
      BY <1>1, <2>1, <2>3, <3>1 DEF CloseBase, ProducerInv, Past, Cur, Streaming
    <3>2. CASE ~CloseBase
      <4>1. procCtx' = procCtx /\ (streamClosed' => streamClosed \/ result # "none")
        BY <1>18, <2>3, <3>2 DEF StopQueue, CloseStore, CloseChannel, WaitProducer
      <4> QED
        BY <1>1, <2>1, <2>3, <4>1 DEF ProducerInv, Past, Cur, Streaming
    <3> QED
      BY <3>1, <3>2
  <2> QED
    BY <1>3, <1>5, <1>6, <2>1, <2>2, <2>3, <2>4 DEF StoredInv
<1> QED
  BY <1>9, <1>10, <1>11, <1>12, <1>13, <1>14, <1>15, <1>16, <1>17, <1>18 DEF Consumer

(* Nothing is stored of this upload at first but what an earlier one did,   *)
(* and the producer has everything before it.                               *)
LEMMA InitStored == Init => StoredInv
<1> SUFFICES ASSUME Init PROVE StoredInv
  OBVIOUS
<1>1. /\ step = 1 /\ phase = "run" /\ seen = {} /\ pending = {} /\ stream = <<>> /\ result = "none"
      /\ cpc = "next" /\ cur = 0 /\ queueCtx = "live" /\ job = [b \in Blocks |-> "none"]
      /\ batch = {} /\ db = s3 /\ ~streamClosed /\ ~completed /\ procCtx /\ done = {}
  BY DEF Init
<1>2. \A b \in Blocks : ~Past(b)
  <2>1. NumFiles \in Nat \ {0} /\ \A b \in Blocks : b >= 1 /\ b \in Nat
    BY PipelineAssumption DEF Blocks, Root
  <2> QED
    BY <1>1, <2>1 DEF Past
<1>3. ProducerInv
  BY <1>1, <1>2 DEF ProducerInv
<1>4. PipeInv
  BY <1>1, <1>2 DEF PipeInv
<1>5. StoreInv
  BY <1>1 DEF StoreInv
<1>6. SuccessMeansStored
  BY <1>1 DEF SuccessMeansStored, Succeeded
<1> QED
  BY <1>3, <1>4, <1>5, <1>6 DEF StoredInv

(* Every step keeps what is stored, or on its way there.                    *)
LEMMA NextStored == ErrInv /\ ClosedInv /\ TypeInv /\ StoredInv /\ [Next]_vars => StoredInv'
<1> SUFFICES ASSUME ErrInv, ClosedInv, TypeInv, StoredInv, [Next]_vars PROVE StoredInv'
  OBVIOUS
<1>1. CASE Producer
  BY <1>1, ProducerStored
<1>2. CASE Consumer
  BY <1>2, ConsumerStored
<1>3. CASE Pool
  BY <1>3, WorkerStored DEF Pool
<1>4. CASE OtherUpload \/ Timeout \/ Shutdown \/ UNCHANGED vars
  BY <1>4, OtherStored
<1> QED
  BY <1>1, <1>2, <1>3, <1>4 DEF Next, Terminated

(* ProcessBlocks reports success with a root only when every block it was   *)
(* given, but for the files the archive's walk left out, is in S3 and in    *)
(* the database, unless the upload was interrupted or a flush of the shared *)
(* batcher failed.                                                          *)
THEOREM SuccessStored == Spec => []SuccessMeansStored
<1>1. StoredInv => SuccessMeansStored
  BY DEF StoredInv
<1> QED
  BY <1>1, InitStored, NextStored, ErrorsKept, ChannelSafe, TypesKept, PTL DEF Spec

-----------------------------------------------------------------------------
(* File paths: what there is.                                               *)

(* Names of nodes and of pins, and the sizes that rows get.                 *)
Names == STRING \cup {"pin"} \cup Cids
Sizes == Nat \cup {WalkDAGForTotalSize(c) : c \in Cids}

(* What is written, and what the table holds (db/file_path.go).             *)
FileRows == [cid : Cids, path : Seq(Names), orphan : BOOLEAN, size : Sizes, dir : BOOLEAN]
Entries == [id : Nat, cid : Cids, path : Seq(Names), orphan : BOOLEAN, size : Sizes, dir : BOOLEAN]

(* A directory being walked, and what an operation keeps.                   *)
Directories == [cid : Cids, path : Seq(Names), left : Seq(Cids), size : Nat]
Walks == [roots : SUBSET Cids, stack : Seq(Directories), processed : SUBSET Cids, reached : SUBSET Cids,
          orphans : SUBSET [cid : Cids, read : BOOLEAN]]
Operations == [pc : {"idle", "relate", "queued", "walk", "insert", "done"}, cids : SUBSET Cids,
               walk : Walks, row : FileRows \cup {None}]

FilesTypeOK ==
    /\ pins \in [Requests -> [cid : Cids \cup {None}, kind : {None, "upload", "retrieve"}, live : BOOLEAN]]
    /\ ops \in [Requests -> Operations]
    /\ dels \in [Requests -> [pc : {"idle", "unpin", "count", "delete", "done"}, left : SUBSET Entries, path : Entries \cup {None}]]
    /\ \A r \in Requests : IsFiniteSet(dels[r].left)
    /\ rows \in SUBSET Entries /\ IsFiniteSet(rows)
    /\ faults \in Nat
    /\ raced \subseteq Cids /\ hidden \subseteq Cids /\ partial \subseteq Cids
    /\ removed \subseteq Seq(Names)

\* The directories that are open, by CID and path.
Dirs(walk) == {<<walk.stack[m].cid, walk.stack[m].path>> : m \in DOMAIN walk.stack}

\* What the operation was given of its pin's CID: that itself, or the version 0
\* that the CAR file has.
Spellings(r, cids) == {c \in cids : NormalizeCid[c] = pins[r].cid}

\* What is idle has not begun; a pin has a version 1; an operation was given its
\* pin's CID, in some spelling, if any; only one that is at work has a walk; a
\* deletion looks at the rows of its CID.
CallsOK ==
    /\ \A r \in Requests :
        /\ ops[r].pc = "idle" => ~pins[r].live /\ dels[r].pc = "idle" /\ dels[r].left = {}
        /\ ops[r].pc # "idle" => /\ pins[r].cid \in Cids /\ NormalizeCid[pins[r].cid] = pins[r].cid
                                 /\ ops[r].cids # {} => Spellings(r, ops[r].cids) # {}
        /\ ops[r].pc = "insert" => ops[r].row \in FileRows
        /\ ~Writing(r) => ops[r].walk = Nowhere
        /\ dels[r].pc = "delete" => dels[r].path \in dels[r].left
        /\ \A x \in dels[r].left : x.cid = pins[r].cid

\* A row is a directory's if its node is, but for orphans, whose node may be
\* unknown; only directories are open.
RowOK(x) == x.dir = Meta[x.cid].dir \/ x.orphan

RowsOK ==
    /\ \A x \in rows : RowOK(x)
    /\ \A r \in Requests :
        /\ ops[r].pc = "insert" => RowOK(ops[r].row)
        /\ \A d \in Dirs(ops[r].walk) : Meta[d[1]].dir

\* The CID has a row, or is about to have one from r, or was pinned too late for
\* the deletion of one.
Listed(r, c) == \/ \E x \in rows : x.cid = c
                \/ c \in raced
                \/ ops[r].pc = "insert" /\ ops[r].row.cid = c

\* A row about to be deleted belongs to no live pin but such as were raced; and
\* what an operation says it has reached is listed.
ListedInv ==
    /\ \A q, r \in Requests : dels[q].pc = "delete" /\ pins[r].live /\ pins[r].cid = pins[q].cid => pins[r].cid \in raced
    /\ \A r \in Requests : \A c \in Cids :
        pins[r].live /\ Writing(r) /\ NormalizeCid[c] = pins[r].cid /\ c \in ops[r].walk.reached => Listed(r, c)
    /\ PinnedIsListed

\* The directories above a path.
Above(path) == Prefixes(Front(path)) \ {<<>>}

\* The row is that of a directory that some operation has open.
Pending(x) == \E r \in Requests : <<x.cid, x.path>> \in Dirs(ops[r].walk)

\* There is a row for p that is a directory's, or will be when its total is
\* written, unless it was deleted, or writing the total failed.
Shown(p) == p \in removed \/ \E y \in rows : y.path = p /\ (y.dir \/ (y.orphan /\ y.cid \in partial) \/ Pending(y))

\* All that is above a row is shown, and so is all that is above a row held back
\* and above a directory that is open, which has a row itself, or will have one.
BrowseInv ==
    /\ \A x \in rows : \A p \in Above(x.path) : Shown(p)
    /\ \A r \in Requests :
        /\ ops[r].pc = "insert" => \A p \in Above(ops[r].row.path) : Shown(p)
        /\ \A d \in Dirs(ops[r].walk) :
            /\ \A p \in Above(d[2]) : Shown(p)
            /\ \/ d[2] \in removed
               \/ \E y \in rows : y.cid = d[1] /\ y.path = d[2]
               \/ ops[r].pc = "insert" /\ ops[r].row.cid = d[1] /\ ops[r].row.path = d[2]

FilesInv == FilesTypeOK /\ CallsOK /\ RowsOK /\ ListedInv /\ BrowseInv

-----------------------------------------------------------------------------
\* The node of a block.
LEMMA Shapes ==
    ASSUME NEW c \in Cids
    PROVE  /\ Meta[c].unixfs \in BOOLEAN /\ Meta[c].name \in STRING /\ Meta[c].dir \in BOOLEAN
           /\ Meta[c].size \in Nat /\ Meta[c].children \in Seq(Cids)
           /\ NodeName(c) \in Names
    BY FilePathsAssumption DEF NodeName, Names

\* All names of a path but the last.
LEMMA FrontShape ==
    ASSUME NEW path \in Seq(Names), path # <<>>
    PROVE  /\ Front(path) \in Seq(Names) /\ Len(Front(path)) = Len(path) - 1
           /\ \A i \in 1..(Len(path) - 1) : Front(path)[i] = path[i]
<1> DEFINE k == Len(path)
           n == k - 1
<1>1. k \in Nat /\ k >= 1 /\ \A i \in 1..(k - 1) : path[i] \in Names
    OBVIOUS
<1> HIDE DEF k
<1>2. n \in Int /\ 1 \in Int /\ (1 <= n => n - 1 + 1 = n) /\ (~(1 <= n) => n = 0)
    BY <1>1
<1>3. /\ \A i \in 1..n : i = 1 + i - 1
      /\ n - 1 + 1 = n
    BY <1>1
<1> HIDE DEF n
<1>4. /\ SubSeq(path, 1, n) \in Seq(Names) /\ Len(SubSeq(path, 1, n)) = n
      /\ \A i \in 1..n : SubSeq(path, 1, n)[i] = path[i]
    BY <1>1, <1>2, <1>3, SubSeqProperties DEF n, k
<1>5. Front(path) = SubSeq(path, 1, n)
    BY DEF Front, n, k
<1> QED
    BY <1>4, <1>5 DEF n, k

\* The directories above a child are those above its directory, and that one.
LEMMA AboveChild ==
    ASSUME NEW path \in Seq(Names), NEW name \in Names, NEW p \in Above(Append(path, name))
    PROVE  p = path \/ p \in Above(path)
<1>1. Append(path, name) \in Seq(Names) /\ Len(Append(path, name)) = Len(path) + 1 /\ Len(path) \in Nat
    OBVIOUS
<1>2. Front(Append(path, name)) = path
    <2>1. SubSeq(Append(path, name), 1, Len(path)) \in Seq(Names)
        BY <1>1
    <2>2. Len(SubSeq(Append(path, name), 1, Len(path))) = Len(path)
        BY <1>1
    <2>3. \A i \in 1..Len(path) : SubSeq(Append(path, name), 1, Len(path))[i] = path[i]
        BY <1>1
    <2>4. SubSeq(Append(path, name), 1, Len(path)) = path
        BY <2>1, <2>2, <2>3, SeqEqual
    <2> QED
        BY <1>1, <2>4 DEF Front
<1>3. PICK l \in 0..Len(path) : p = SubSeq(path, 1, l)
    BY <1>2 DEF Above, Prefixes
<1>4. p # <<>>
    BY DEF Above
<1>5. CASE l = Len(path)
    BY <1>3, <1>5
<1>6. CASE l # Len(path)
    <2>1. l \in 0..(Len(path) - 1)
        BY <1>6
    <2>2. /\ Front(path) \in Seq(Names) /\ Len(Front(path)) = Len(path) - 1
          /\ \A i \in 1..(Len(path) - 1) : Front(path)[i] = path[i]
        <3>1. path # <<>>
            BY <2>1
        <3> QED
            BY <3>1, FrontShape
    <2>3. SubSeq(Front(path), 1, l) = SubSeq(path, 1, l)
        <3>1. SubSeq(Front(path), 1, l) \in Seq(Names) /\ SubSeq(path, 1, l) \in Seq(Names)
            BY <2>1, <2>2
        <3>2. Len(SubSeq(Front(path), 1, l)) = l /\ Len(SubSeq(path, 1, l)) = l
            BY <2>1, <2>2
        <3>3. \A i \in 1..l : SubSeq(Front(path), 1, l)[i] = SubSeq(path, 1, l)[i]
            BY <2>1, <2>2
        <3> QED
            BY <3>1, <3>2, <3>3, SeqEqual
    <2>4. p \in Prefixes(Front(path))
        BY <1>3, <2>1, <2>2, <2>3 DEF Prefixes
    <2> QED
        BY <1>4, <2>4 DEF Above
<1> QED
    BY <1>5, <1>6

\* What is above a path is part of it.
LEMMA AbovePrefix ==
    ASSUME NEW path \in Seq(Names), NEW p \in Above(path)
    PROVE  p \in Prefixes(path) \ {<<>>}
<1>1. PICK l \in 0..Len(Front(path)) : p = SubSeq(Front(path), 1, l)
    BY DEF Above, Prefixes
<1>2. Front(path) = SubSeq(path, 1, Len(path) - 1) /\ Len(path) \in Nat
    BY DEF Front
<1>3. p # <<>>
    BY DEF Above
<1>4. CASE path = <<>>
    <2>1. Front(path) = <<>>
        BY <1>2, <1>4
    <2>2. p = <<>>
        BY <1>1, <2>1
    <2> QED
        BY <1>3, <2>2
<1>5. CASE path # <<>>
    <2>1. Len(path) >= 1 /\ Len(path) - 1 \in Nat
        BY <1>2, <1>5
    <2>2. Front(path) \in Seq(Names) /\ Len(Front(path)) = Len(path) - 1 /\ \A i \in 1..(Len(path) - 1) : Front(path)[i] = path[i]
        BY <1>5, FrontShape
    <2>3. l \in 0..(Len(path) - 1)
        BY <2>2
    <2>4. SubSeq(Front(path), 1, l) = SubSeq(path, 1, l)
        <3>1. SubSeq(Front(path), 1, l) \in Seq(Names) /\ SubSeq(path, 1, l) \in Seq(Names)
            BY <2>1, <2>2, <2>3
        <3>2. Len(SubSeq(Front(path), 1, l)) = l /\ Len(SubSeq(path, 1, l)) = l
            BY <2>1, <2>2, <2>3
        <3>3. \A i \in 1..l : SubSeq(Front(path), 1, l)[i] = SubSeq(path, 1, l)[i]
            BY <2>1, <2>2, <2>3
        <3> QED
            BY <3>1, <3>2, <3>3, SeqEqual
    <2>5. l \in 0..Len(path)
        BY <2>1, <2>3
    <2> QED
        BY <1>1, <1>3, <2>4, <2>5 DEF Prefixes
<1> QED
    BY <1>4, <1>5

\* What is at the top has nothing above it.
LEMMA NothingAbove == ASSUME NEW name PROVE Above(<<name>>) = {}
<1>1. Front(<<name>>) = <<>>
    BY DEF Front
<1>2. \A l \in 0..Len(<<>>) : SubSeq(<<>>, 1, l) = <<>>
    OBVIOUS
<1> QED
    BY <1>1, <1>2 DEF Above, Prefixes

\* One directory of the walk is replaced by itself with other counts.
LEMMA SameDirs ==
    ASSUME NEW s \in Seq(Directories), s # <<>>, NEW d \in Directories, d.cid = s[Len(s)].cid, d.path = s[Len(s)].path
    PROVE  LET t == [s EXCEPT ![Len(s)] = d]
           IN /\ t \in Seq(Directories) /\ t # <<>>
              /\ {<<t[m].cid, t[m].path>> : m \in DOMAIN t} = {<<s[m].cid, s[m].path>> : m \in DOMAIN s}
<1> DEFINE t == [s EXCEPT ![Len(s)] = d]
<1>1. Len(s) \in Nat /\ DOMAIN s = 1..Len(s) /\ Len(s) # 0
    OBVIOUS
<1>2. t \in Seq(Directories) /\ DOMAIN t = DOMAIN s
    BY <1>1
<1>3. \A m \in DOMAIN s : t[m].cid = s[m].cid /\ t[m].path = s[m].path
    BY <1>1
<1>4. t # <<>>
    BY <1>1, <1>2
<1> QED
    BY <1>2, <1>3, <1>4

\* A directory with other children left, or another size, is still one, with
\* its CID and path.
LEMMA SameDirLeft ==
    ASSUME NEW e \in Directories, NEW left \in Seq(Cids)
    PROVE  /\ [e EXCEPT !.left = left] \in Directories
           /\ [e EXCEPT !.left = left].cid = e.cid /\ [e EXCEPT !.left = left].path = e.path
    BY DEF Directories

LEMMA SameDirSize ==
    ASSUME NEW e \in Directories, NEW size \in Nat
    PROVE  /\ [e EXCEPT !.size = size] \in Directories
           /\ [e EXCEPT !.size = size].cid = e.cid /\ [e EXCEPT !.size = size].path = e.path
    BY DEF Directories

\* Taking up a root or a child, and counting a size, leave the directories that
\* are open and what was reached.
LEMMA TakenWalk ==
    ASSUME NEW walk \in Walks, NEW c \in Cids,
           walk.stack # <<>> => walk.stack[Len(walk.stack)].left # <<>>
    PROVE  /\ Taken(walk, c) \in Walks /\ Dirs(Taken(walk, c)) = Dirs(walk)
           /\ Taken(walk, c).reached = walk.reached
<1>1. CASE walk.stack = <<>>
    BY <1>1 DEF Taken, Walks, Dirs
<1>2. CASE walk.stack # <<>>
    <2> DEFINE s == walk.stack
               d == [s[Len(s)] EXCEPT !.left = Tail(@)]
    <2>1. s \in Seq(Directories) /\ s[Len(s)] \in Directories
        BY <1>2 DEF Walks
    <2>a. Tail(s[Len(s)].left) \in Seq(Cids)
        <3>1. s[Len(s)].left \in Seq(Cids)
            BY <2>1 DEF Directories
        <3> QED
            BY <1>2, <3>1
    <2>2. d \in Directories /\ d.cid = s[Len(s)].cid /\ d.path = s[Len(s)].path
        BY <2>1, <2>a, SameDirLeft, Zenon
    <2>3. Taken(walk, c) = [walk EXCEPT !.stack = [s EXCEPT ![Len(s)] = d]]
        BY <1>2 DEF Taken
    <2> HIDE DEF d
    <2>4. /\ [s EXCEPT ![Len(s)] = d] \in Seq(Directories)
          /\ {<<[s EXCEPT ![Len(s)] = d][m].cid, [s EXCEPT ![Len(s)] = d][m].path>> : m \in DOMAIN [s EXCEPT ![Len(s)] = d]}
                = {<<s[m].cid, s[m].path>> : m \in DOMAIN s}
        BY <1>2, <2>1, <2>2, SameDirs
    <2>5. /\ Taken(walk, c).stack = [s EXCEPT ![Len(s)] = d] /\ Taken(walk, c).reached = walk.reached
          /\ Taken(walk, c) \in Walks
        BY <2>3, <2>4 DEF Walks
    <2> QED
        BY <2>4, <2>5 DEF Dirs
<1> QED
    BY <1>1, <1>2

LEMMA CountedWalk ==
    ASSUME NEW walk \in Walks, NEW n \in Nat
    PROVE  /\ Counted(walk, n) \in Walks /\ Dirs(Counted(walk, n)) = Dirs(walk)
           /\ Counted(walk, n).reached = walk.reached
<1>1. CASE walk.stack = <<>>
    BY <1>1 DEF Counted
<1>2. CASE walk.stack # <<>>
    <2> DEFINE s == walk.stack
               k == s[Len(s)].size + n
               d == [s[Len(s)] EXCEPT !.size = k]
    <2>1. s \in Seq(Directories) /\ s[Len(s)] \in Directories
        BY <1>2 DEF Walks
    <2>a. k \in Nat
        BY <2>1 DEF Directories
    <2> HIDE DEF k
    <2>2. d \in Directories /\ d.cid = s[Len(s)].cid /\ d.path = s[Len(s)].path
        BY <2>1, <2>a, SameDirSize, Zenon
    <2>3. Counted(walk, n) = [walk EXCEPT !.stack = [s EXCEPT ![Len(s)] = d]]
        BY <1>2 DEF Counted, k
    <2> HIDE DEF d
    <2>4. /\ [s EXCEPT ![Len(s)] = d] \in Seq(Directories)
          /\ {<<[s EXCEPT ![Len(s)] = d][m].cid, [s EXCEPT ![Len(s)] = d][m].path>> : m \in DOMAIN [s EXCEPT ![Len(s)] = d]}
                = {<<s[m].cid, s[m].path>> : m \in DOMAIN s}
        BY <1>2, <2>1, <2>2, SameDirs
    <2>5. /\ Counted(walk, n).stack = [s EXCEPT ![Len(s)] = d] /\ Counted(walk, n).reached = walk.reached
          /\ Counted(walk, n) \in Walks
        BY <2>3, <2>4 DEF Walks
    <2> QED
        BY <2>4, <2>5 DEF Dirs
<1> QED
    BY <1>1, <1>2

\* Taking up a block leaves the directories, or adds that block to them.
LEMMA EnteredWalk ==
    ASSUME NEW walk \in Walks, NEW row \in FileRows, row.size \in Nat
    PROVE  /\ Entered(walk, row) \in Walks /\ Entered(walk, row).reached = walk.reached
           /\ Dirs(walk) \subseteq Dirs(Entered(walk, row))
           /\ \A d \in Dirs(Entered(walk, row)) : d \in Dirs(walk) \/ (d = <<row.cid, row.path>> /\ row.dir)
<1>1. CASE row.dir /\ Meta[row.cid].children # <<>>
    <2> DEFINE e == [cid |-> row.cid, path |-> row.path, left |-> Meta[row.cid].children, size |-> row.size]
               s == walk.stack
    <2>1. e \in Directories /\ s \in Seq(Directories)
        BY Shapes DEF Directories, FileRows, Walks
    <2>a. e.cid = row.cid /\ e.path = row.path
        OBVIOUS
    <2>2. Entered(walk, row) = [walk EXCEPT !.stack = Append(s, e)]
        BY <1>1 DEF Entered
    <2> HIDE DEF e
    <2>3. Append(s, e) \in Seq(Directories) /\ DOMAIN Append(s, e) = 1..(Len(s) + 1) /\ DOMAIN s = 1..Len(s) /\ Len(s) \in Nat
        BY <2>1
    <2>4. \A m \in 1..Len(s) : Append(s, e)[m] = s[m]
        BY <2>1
    <2>5. Append(s, e)[Len(s) + 1] = e
        BY <2>1
    <2>6. Entered(walk, row).stack = Append(s, e) /\ Entered(walk, row) \in Walks /\ Entered(walk, row).reached = walk.reached
        BY <2>2, <2>3 DEF Walks
    <2>7. ASSUME NEW d \in Dirs(walk) PROVE d \in Dirs(Entered(walk, row))
        <3>1. PICK m \in 1..Len(s) : d = <<s[m].cid, s[m].path>>
            BY <2>3 DEF Dirs
        <3> QED
            BY <3>1, <2>3, <2>4, <2>6 DEF Dirs
    <2>8. ASSUME NEW d \in Dirs(Entered(walk, row)) PROVE d \in Dirs(walk) \/ d = <<row.cid, row.path>>
        <3>1. PICK m \in 1..(Len(s) + 1) : d = <<Append(s, e)[m].cid, Append(s, e)[m].path>>
            BY <2>3, <2>6 DEF Dirs
        <3>2. CASE m = Len(s) + 1
            BY <3>1, <3>2, <2>5, <2>a
        <3>3. CASE m # Len(s) + 1
            <4>1. m \in 1..Len(s)
                BY <3>3, <2>3
            <4> QED
                BY <3>1, <4>1, <2>3, <2>4 DEF Dirs
        <3> QED
            BY <3>2, <3>3
    <2> QED
        BY <1>1, <2>6, <2>7, <2>8
<1>2. CASE ~(row.dir /\ Meta[row.cid].children # <<>>)
    <2>1. Entered(walk, row) = Counted(walk, row.size)
        BY <1>2 DEF Entered
    <2> QED
        BY <2>1, CountedWalk
<1> QED
    BY <1>1, <1>2

\* The end of a directory.
LEMMA LeftWalk ==
    ASSUME NEW walk \in Walks, walk.stack # <<>>
    PROVE  LET d == Last(walk.stack)
               next == Counted([walk EXCEPT !.stack = Front(@)], d.size)
           IN /\ d \in Directories /\ <<d.cid, d.path>> \in Dirs(walk)
              /\ next \in Walks /\ next.reached = walk.reached
              /\ Dirs(next) \subseteq Dirs(walk)
              /\ \A e \in Dirs(walk) : e \in Dirs(next) \/ e = <<d.cid, d.path>>
<1> DEFINE s == walk.stack
           d == Last(s)
           w == [walk EXCEPT !.stack = Front(s)]
           next == Counted(w, d.size)
<1>1. s \in Seq(Directories) /\ Len(s) \in Nat /\ Len(s) # 0 /\ DOMAIN s = 1..Len(s)
    BY DEF Walks
<1>2. d \in Directories /\ d = s[Len(s)]
    BY <1>1 DEF Last
<1>3. Front(s) \in Seq(Directories) /\ DOMAIN Front(s) = 1..(Len(s) - 1)
    BY <1>1 DEF Front
<1>4. \A m \in 1..(Len(s) - 1) : Front(s)[m] = s[m]
    BY <1>1 DEF Front
<1>5. w \in Walks /\ w.stack = Front(s) /\ w.reached = walk.reached
    BY <1>3 DEF Walks
<1>6. d.size \in Nat
    BY <1>2 DEF Directories
<1> HIDE DEF w, d
<1>7. next \in Walks /\ next.reached = walk.reached /\ Dirs(next) = Dirs(w)
    BY <1>5, <1>6, CountedWalk
<1>8. Dirs(w) \subseteq Dirs(walk)
    <2> SUFFICES ASSUME NEW e \in Dirs(w) PROVE e \in Dirs(walk)
        OBVIOUS
    <2>1. PICK m \in 1..(Len(s) - 1) : e = <<Front(s)[m].cid, Front(s)[m].path>>
        BY <1>3, <1>5 DEF Dirs
    <2>2. m \in DOMAIN s /\ e = <<s[m].cid, s[m].path>>
        BY <1>1, <1>4, <2>1
    <2> QED
        BY <2>2 DEF Dirs
<1>9. ASSUME NEW e \in Dirs(walk) PROVE e \in Dirs(w) \/ e = <<d.cid, d.path>>
    <2>1. PICK m \in 1..Len(s) : e = <<s[m].cid, s[m].path>>
        BY <1>1 DEF Dirs
    <2>2. CASE m = Len(s)
        BY <2>1, <2>2, <1>2
    <2>3. CASE m # Len(s)
        <3>1. m \in 1..(Len(s) - 1)
            BY <1>1, <2>3
        <3> QED
            BY <2>1, <3>1, <1>3, <1>4, <1>5 DEF Dirs
    <2> QED
        BY <2>2, <2>3
<1>10. <<d.cid, d.path>> \in Dirs(walk)
    <2>1. Len(s) \in DOMAIN s
        BY <1>1
    <2> QED
        BY <2>1, <1>2 DEF Dirs
<1> QED
    BY <1>2, <1>7, <1>8, <1>9, <1>10 DEF d, w

-----------------------------------------------------------------------------
(* The rows.                                                                *)

\* A finite set of numbers that is not empty has a greatest one.
LEMMA Greatest ==
    ASSUME NEW S \in SUBSET Nat, IsFiniteSet(S), S # {}
    PROVE  \E m \in S : \A k \in S : m >= k
<1> DEFINE above(m) == {k \in S : k > m}
           T == {above(m) : m \in S}
<1>1. T \subseteq FiniteSubsetsOf(Nat)
    <2> SUFFICES ASSUME NEW m \in S PROVE above(m) \in FiniteSubsetsOf(Nat)
        OBVIOUS
    <2>1. above(m) \in SUBSET S
        OBVIOUS
    <2>2. IsFiniteSet(above(m))
        BY <2>1, FS_Subset
    <2> QED
        BY <2>1, <2>2 DEF FiniteSubsetsOf
<1>2. IsWellFoundedOn(StrictSubsetOrdering(Nat), FiniteSubsetsOf(Nat))
    BY FS_StrictSubsetOrderingWellFounded
<1>3. T # {}
    OBVIOUS
<1>4. \E x \in T : \A y \in T : <<y, x>> \notin StrictSubsetOrdering(Nat)
    <2> HIDE DEF T
    <2> QED
        BY <1>1, <1>2, <1>3, WFMin
<1>5. PICK m \in S : \A k \in S : <<above(k), above(m)>> \notin StrictSubsetOrdering(Nat)
    BY <1>4
<1>6. ASSUME NEW k \in S, ~(m >= k)
      PROVE  FALSE
    <2>1. k \in above(m) /\ k \notin above(k) /\ m \in Nat /\ k \in Nat /\ k > m
        BY <1>6
    <2>2. above(k) \subseteq above(m) /\ above(k) # above(m) /\ above(k) \subseteq Nat /\ above(m) \subseteq Nat
        <3>1. ASSUME NEW i \in above(k) PROVE i \in above(m)
            BY <2>1
        <3> QED
            BY <2>1, <3>1
    <2>3. <<above(k), above(m)>> \in StrictSubsetOrdering(Nat)
        BY <2>2 DEF StrictSubsetOrdering
    <2> QED
        BY <2>3, <1>5
<1> QED
    BY <1>6

\* Rows are written with names, and sizes are numbers for what has a node.
LEMMA FileRowShape ==
    ASSUME NEW c \in Cids, NEW parent \in Seq(Names)
    PROVE  /\ FileRow(c, parent) \in FileRows /\ RowOK(FileRow(c, parent))
           /\ FileRow(c, parent).cid = c /\ FileRow(c, parent).size \in Nat
           /\ FileRow(c, parent).dir = Meta[c].dir
           /\ FileRow(c, parent).path = Append(parent, NodeName(c))
<1>1. Append(parent, NodeName(c)) \in Seq(Names)
    BY Shapes
<1>2. Meta[c].size \in Sizes /\ Meta[c].size \in Nat /\ Meta[c].dir \in BOOLEAN
    BY Shapes DEF Sizes
<1> QED
    BY <1>1, <1>2 DEF FileRow, FileRows, RowOK

LEMMA OrphanRowShape ==
    ASSUME NEW c \in Cids, NEW read \in BOOLEAN
    PROVE  /\ OrphanRow(c, read) \in FileRows /\ RowOK(OrphanRow(c, read))
           /\ OrphanRow(c, read).cid = c /\ Above(OrphanRow(c, read).path) = {}
<1> DEFINE own == IF read /\ Meta[c].name # "" THEN Meta[c].name ELSE PinName(c)
           shown == IF own = "" THEN c ELSE own
           size == IF read THEN Meta[c].size ELSE WalkDAGForTotalSize(c)
           dir == read /\ Meta[c].dir
<1>1. shown \in Names
    <2>1. PinName(c) = "pin" \/ PinName(c) = ""
        BY DEF PinName
    <2> QED
        BY <2>1, Shapes DEF Names
<1>2. size \in Sizes /\ dir \in BOOLEAN
    BY Shapes DEF Sizes
<1>3. OrphanRow(c, read) = [cid |-> c, path |-> <<shown>>, orphan |-> TRUE, size |-> size, dir |-> dir]
    BY DEF OrphanRow
<1> HIDE DEF shown, size, dir
<1>4. <<shown>> \in Seq(Names)
    BY <1>1
<1> QED
    BY <1>2, <1>3, <1>4, NothingAbove DEF FileRows, RowOK

\* Creating adds one row to the table, with what was written.
LEMMA CreateRow ==
    ASSUME FilesTypeOK, NEW row \in FileRows, Create(row)
    PROVE  \E e \in Entries :
              /\ rows' = rows \cup {e} /\ IsFiniteSet(rows')
              /\ e.cid = row.cid /\ e.path = row.path /\ e.orphan = row.orphan /\ e.dir = row.dir
<1> DEFINE all == rows \cup UNION {dels[q].left : q \in Requests}
           used == {x.id : x \in {y \in all : Same(y, row)}}
           n == 1 + Max(used \cup {0})
           e == [id |-> n, cid |-> row.cid, path |-> row.path, orphan |-> row.orphan, size |-> row.size, dir |-> row.dir]
<1>1. rows' = rows \cup {e}
    BY DEF Create
<1>2. IsFiniteSet(all) /\ all \subseteq Entries
    <2>1. IsFiniteSet({dels[q].left : q \in Requests})
        <3> DEFINE f == [q \in Requests |-> dels[q].left]
        <3>1. f \in Surjection(Requests, {dels[q].left : q \in Requests})
            BY DEF Surjection
        <3> QED
            BY <3>1, FS_Surjection, FilePathsAssumption
    <2>2. \A T \in {dels[q].left : q \in Requests} : IsFiniteSet(T) /\ T \subseteq Entries
        BY DEF FilesTypeOK
    <2>3. IsFiniteSet(UNION {dels[q].left : q \in Requests})
        BY <2>1, <2>2, FS_UNION
    <2>4. IsFiniteSet(rows) /\ rows \subseteq Entries
        BY DEF FilesTypeOK
    <2> QED
        BY <2>2, <2>3, <2>4, FS_Union
<1>3. used \cup {0} \in SUBSET Nat /\ IsFiniteSet(used \cup {0})
    <2> DEFINE T == {y \in all : Same(y, row)}
    <2>1. IsFiniteSet(T)
        BY <1>2, FS_Subset
    <2>2. IsFiniteSet({x.id : x \in T})
        <3> HIDE DEF T
        <3>1. [x \in T |-> x.id] \in Surjection(T, {x.id : x \in T})
            BY DEF Surjection
        <3> QED
            BY <2>1, <3>1, FS_Surjection
    <2>3. used \subseteq Nat
        BY <1>2 DEF Entries
    <2> QED
        BY <2>2, <2>3, FS_AddElement
<1>4. n \in Nat
    <2> HIDE DEF used
    <2>1. \E m \in used \cup {0} : \A k \in used \cup {0} : m >= k
        BY <1>3, Greatest
    <2>2. Max(used \cup {0}) \in used \cup {0}
        BY <2>1 DEF Max
    <2> QED
        BY <1>3, <2>2
<1> HIDE DEF n
<1>5. e \in Entries
    BY <1>4 DEF FileRows, Entries
<1>6. e.cid = row.cid /\ e.path = row.path /\ e.orphan = row.orphan /\ e.dir = row.dir
    OBVIOUS
<1> HIDE DEF e
<1>7. IsFiniteSet(rows')
    BY <1>1, FS_AddElement DEF FilesTypeOK
<1> QED
    BY <1>1, <1>5, <1>6, <1>7

-----------------------------------------------------------------------------
(* One operation moves, and what the others know stays true.                *)

\* An operation goes on with another walk, ...
LEMMA WalkMoves ==
    ASSUME FilesTypeOK, NEW r \in Requests, NEW next \in Walks, ops' = [ops EXCEPT ![r].walk = next]
    PROVE  /\ ops' \in [Requests -> Operations]
           /\ \A q \in Requests : /\ ops'[q].pc = ops[q].pc /\ ops'[q].cids = ops[q].cids /\ ops'[q].row = ops[q].row
                                  /\ ops'[q].walk = IF q = r THEN next ELSE ops[q].walk
                                  /\ q # r => ops'[q] = ops[q]
    BY DEF FilesTypeOK, Operations

\* Any change of one operation's record.
LEMMA OperationMoves ==
    ASSUME FilesTypeOK, NEW r \in Requests, NEW o \in Operations, ops' = [ops EXCEPT ![r] = o]
    PROVE  ops' \in [Requests -> Operations] /\ \A q \in Requests : ops'[q] = IF q = r THEN o ELSE ops[q]
    BY DEF FilesTypeOK

\* ... or with a row to be inserted first.
LEMMA WalkInserts ==
    ASSUME FilesTypeOK, NEW r \in Requests, NEW next \in Walks, NEW row \in FileRows,
           ops' = [ops EXCEPT ![r].pc = "insert", ![r].walk = next, ![r].row = row]
    PROVE  /\ ops' \in [Requests -> Operations]
           /\ \A q \in Requests : /\ ops'[q].pc = (IF q = r THEN "insert" ELSE ops[q].pc) /\ ops'[q].cids = ops[q].cids
                                  /\ ops'[q].row = (IF q = r THEN row ELSE ops[q].row)
                                  /\ ops'[q].walk = IF q = r THEN next ELSE ops[q].walk
                                  /\ q # r => ops'[q] = ops[q]
<1> DEFINE o == [ops[r] EXCEPT !.pc = "insert", !.walk = next, !.row = row]
<1>1. ops[r] \in Operations
    BY DEF FilesTypeOK
<1>2. o \in Operations /\ o.pc = "insert" /\ o.cids = ops[r].cids /\ o.walk = next /\ o.row = row
    BY <1>1 DEF Operations
<1>3. ops' = [ops EXCEPT ![r] = o]
    BY DEF FilesTypeOK
<1> HIDE DEF o
<1> QED
    BY <1>2, <1>3, OperationMoves

\* What is shown below stays so when what is shown above does.
LEMMA BrowseMoves ==
    ASSUME BrowseInv, \A p : Shown(p) => Shown(p)',
           \A x \in rows' : \A p \in Above(x.path) : Shown(p),
           \A q \in Requests : ops'[q].pc = "insert" =>
                \/ ops[q].pc = "insert" /\ ops'[q].row = ops[q].row
                \/ \A p \in Above(ops'[q].row.path) : Shown(p),
           \A q \in Requests : \A d \in Dirs(ops'[q].walk) :
                /\ d \in Dirs(ops[q].walk) \/ \A p \in Above(d[2]) : Shown(p)
                /\ \/ d[2] \in removed'
                   \/ \E y \in rows' : y.cid = d[1] /\ y.path = d[2]
                   \/ ops'[q].pc = "insert" /\ ops'[q].row.cid = d[1] /\ ops'[q].row.path = d[2]
    PROVE  BrowseInv'
<1>1. ASSUME NEW x \in rows', NEW p \in Above(x.path) PROVE Shown(p)'
    OBVIOUS
<1>2. ASSUME NEW q \in Requests, ops'[q].pc = "insert", NEW p \in Above(ops'[q].row.path) PROVE Shown(p)'
    <2>1. Shown(p)
        BY <1>2 DEF BrowseInv
    <2> QED
        BY <2>1
<1>3. ASSUME NEW q \in Requests, NEW d \in Dirs(ops'[q].walk), NEW p \in Above(d[2]) PROVE Shown(p)'
    <2>1. Shown(p)
        BY DEF BrowseInv
    <2> QED
        BY <2>1
<1> QED
    BY <1>1, <1>2, <1>3 DEF BrowseInv

\* It does when rows and directories are only added.
LEMMA ShownKept ==
    ASSUME rows \subseteq rows', removed \subseteq removed', partial \subseteq partial',
           \A q \in Requests : Dirs(ops[q].walk) \subseteq Dirs(ops'[q].walk)
    PROVE  \A p : Shown(p) => Shown(p)'
<1> SUFFICES ASSUME NEW p, Shown(p) PROVE Shown(p)'
    OBVIOUS
<1>1. CASE p \in removed
    BY <1>1 DEF Shown
<1>2. CASE \E y \in rows : y.path = p /\ (y.dir \/ (y.orphan /\ y.cid \in partial) \/ Pending(y))
    <2>1. PICK y \in rows : y.path = p /\ (y.dir \/ (y.orphan /\ y.cid \in partial) \/ Pending(y))
        BY <1>2
    <2>2. y \in rows' /\ (Pending(y) => Pending(y)')
        BY DEF Pending
    <2> QED
        BY <2>1, <2>2 DEF Shown
<1> QED
    BY <1>1, <1>2 DEF Shown

\* What can be reached from the top stays so when rows and directories are
\* only added, below such as can be reached themselves.
LEMMA BrowseKept ==
    ASSUME BrowseInv, rows \subseteq rows', removed \subseteq removed', partial \subseteq partial',
           \A q \in Requests : Dirs(ops[q].walk) \subseteq Dirs(ops'[q].walk),
           \A x \in rows' : x \in rows \/ \A p \in Above(x.path) : Shown(p),
           \A q \in Requests : ops'[q].pc = "insert" =>
                \/ ops[q].pc = "insert" /\ ops'[q].row = ops[q].row
                \/ \A p \in Above(ops'[q].row.path) : Shown(p),
           \A q \in Requests : \A d \in Dirs(ops'[q].walk) :
                /\ d \in Dirs(ops[q].walk) \/ \A p \in Above(d[2]) : Shown(p)
                /\ \/ d[2] \in removed'
                   \/ \E y \in rows' : y.cid = d[1] /\ y.path = d[2]
                   \/ ops'[q].pc = "insert" /\ ops'[q].row.cid = d[1] /\ ops'[q].row.path = d[2]
    PROVE  BrowseInv'
<1>1. \A p : Shown(p) => Shown(p)'
    BY ShownKept
<1>2. \A x \in rows' : \A p \in Above(x.path) : Shown(p)
    BY DEF BrowseInv
<1> QED
    BY <1>1, <1>2, BrowseMoves

\* Pins stay listed when no block loses its rows, and an operation reaches
\* only what it lists.
LEMMA ListedKept ==
    ASSUME ListedInv, pins' = pins, raced' = raced, hidden \subseteq hidden',
           \A q \in Requests : dels'[q].pc = "delete" => dels[q].pc = "delete",
           \A x \in rows : \E y \in rows' : y.cid = x.cid,
           \A q \in Requests : ops[q].pc = "insert" =>
                \/ ops'[q].pc = "insert" /\ ops'[q].row = ops[q].row
                \/ \E y \in rows' : y.cid = ops[q].row.cid,
           \A q \in Requests : \A c \in Cids : Writing(q)' /\ c \in ops'[q].walk.reached =>
                \/ Writing(q) /\ c \in ops[q].walk.reached
                \/ Listed(q, c)',
           \A q \in Requests : pins[q].live /\ ops'[q].pc = "done" /\ ops'[q].cids # {} =>
                \/ ops[q].pc = "done" /\ ops'[q].cids = ops[q].cids
                \/ /\ Spellings(q, ops'[q].cids) # {}
                   /\ \A c \in Spellings(q, ops'[q].cids) :
                        c \in hidden' \/ (\E y \in rows' : y.cid = c) \/ c \in raced
    PROVE  ListedInv'
<1>1. ASSUME NEW q \in Requests, NEW c \in Cids, Listed(q, c) PROVE Listed(q, c)'
    BY <1>1 DEF Listed
<1>2. ASSUME NEW q \in Requests, NEW s \in Requests, dels'[q].pc = "delete", pins[s].live, pins[s].cid = pins[q].cid
      PROVE  pins[s].cid \in raced
    BY <1>2 DEF ListedInv
<1>3. ASSUME NEW q \in Requests, NEW c \in Cids, pins[q].live, Writing(q)', NormalizeCid[c] = pins[q].cid, c \in ops'[q].walk.reached
      PROVE  Listed(q, c)'
    <2>1. CASE Writing(q) /\ c \in ops[q].walk.reached
        <3>1. Listed(q, c)
            BY <1>3, <2>1 DEF ListedInv
        <3> QED
            BY <1>1, <3>1
    <2> QED
        BY <1>3, <2>1
<1>4. ASSUME NEW q \in Requests, pins[q].live, ops'[q].pc = "done", ops'[q].cids # {}
      PROVE  /\ Spellings(q, ops'[q].cids) # {}
             /\ \A c \in Spellings(q, ops'[q].cids) : (\E y \in rows' : y.cid = c) \/ c \in hidden' \cup raced
    <2>1. CASE ops[q].pc = "done" /\ ops'[q].cids = ops[q].cids
        <3>1. /\ Spellings(q, ops[q].cids) # {}
              /\ \A c \in Spellings(q, ops[q].cids) : (\E y \in rows : y.cid = c) \/ c \in hidden \cup raced
            BY <1>4, <2>1 DEF ListedInv, PinnedIsListed, Spellings
        <3> QED
            BY <2>1, <3>1
    <2> QED
        BY <1>4, <2>1
<1>5. PinnedIsListed'
    BY <1>4 DEF PinnedIsListed, Spellings
<1> QED
    BY <1>2, <1>3, <1>5 DEF ListedInv

-----------------------------------------------------------------------------
(* The steps of a walk.                                                     *)

\* Steps that change the walk of r, the rows and what is known of failures.
WalkStep(r) ==
    /\ r \in Requests /\ ops[r].pc = "walk"
    /\ faults' \in Nat /\ partial \subseteq partial' /\ partial' \subseteq Cids
    /\ UNCHANGED <<pins, dels, raced, hidden, removed>>

\* The walk goes on without a row.
LEMMA QuietInv ==
    ASSUME FilesInv, NEW r \in Requests, WalkStep(r), NEW next \in Walks,
           ops' = [ops EXCEPT ![r].walk = next], rows' = rows,
           next.reached = ops[r].walk.reached, Dirs(next) = Dirs(ops[r].walk)
    PROVE  FilesInv'
<1>1. /\ ops' \in [Requests -> Operations]
      /\ \A q \in Requests : /\ ops'[q].pc = ops[q].pc /\ ops'[q].cids = ops[q].cids /\ ops'[q].row = ops[q].row
                             /\ ops'[q].walk = IF q = r THEN next ELSE ops[q].walk
    BY WalkMoves DEF FilesInv
<1>2. FilesTypeOK'
    BY <1>1 DEF FilesInv, FilesTypeOK, WalkStep
<1>3. \A q \in Requests : (Writing(q)' <=> Writing(q)) /\ ops'[q].walk.reached = ops[q].walk.reached
                          /\ Dirs(ops'[q].walk) = Dirs(ops[q].walk) /\ (q # r => ops'[q].walk = ops[q].walk)
    BY <1>1 DEF Writing
<1>4. CallsOK'
    BY <1>1, <1>3 DEF FilesInv, CallsOK, Spellings, WalkStep, Writing
<1>5. RowsOK'
    BY <1>1, <1>3 DEF FilesInv, RowsOK
<1>6. ListedInv'
    BY <1>1, <1>3, ListedKept DEF FilesInv, WalkStep
<1>7. BrowseInv'
    <2>1. \A q \in Requests : \A d \in Dirs(ops'[q].walk) :
                \/ d[2] \in removed'
                \/ \E y \in rows' : y.cid = d[1] /\ y.path = d[2]
                \/ ops'[q].pc = "insert" /\ ops'[q].row.cid = d[1] /\ ops'[q].row.path = d[2]
        BY <1>1, <1>3 DEF FilesInv, BrowseInv, WalkStep
    <2> QED
        BY <1>1, <1>3, <2>1, BrowseKept DEF FilesInv, WalkStep
<1> QED
    BY <1>2, <1>4, <1>5, <1>6, <1>7 DEF FilesInv

\* A block is listed: its row is there, or is added, or is about to be.
LEMMA ListInv ==
    ASSUME FilesInv, NEW r \in Requests, WalkStep(r), NEW next \in Walks, NEW row \in FileRows, RowOK(row),
           CreateFilePath(r, row, next),
           next.reached = ops[r].walk.reached \cup {row.cid},
           Dirs(ops[r].walk) \subseteq Dirs(next),
           \A d \in Dirs(next) : d \in Dirs(ops[r].walk) \/ (d = <<row.cid, row.path>> /\ Meta[row.cid].dir),
           \A p \in Above(row.path) : Shown(p)
    PROVE  FilesInv'
<1> DEFINE there == \E x \in rows' : x.cid = row.cid /\ x.path = row.path
           insert == ops'[r].pc = "insert" /\ ops'[r].row = row
<1>1. /\ ops' \in [Requests -> Operations]
      /\ \A q \in Requests : /\ ops'[q].cids = ops[q].cids
                             /\ q # r => ops'[q] = ops[q]
                             /\ ops'[q].walk = IF q = r THEN next ELSE ops[q].walk
      /\ IsFiniteSet(rows') /\ rows' \subseteq Entries /\ rows \subseteq rows'
      /\ \A x \in rows' : x \in rows \/ (x.cid = row.cid /\ x.path = row.path /\ x.orphan = row.orphan /\ x.dir = row.dir)
      /\ (ops'[r].pc = "walk" /\ there) \/ insert
    <2>1. ASSUME ops' = [ops EXCEPT ![r].walk = next]
          PROVE  /\ ops' \in [Requests -> Operations]
                 /\ \A q \in Requests : ops'[q].cids = ops[q].cids /\ (q # r => ops'[q] = ops[q])
                                        /\ ops'[q].walk = IF q = r THEN next ELSE ops[q].walk
                 /\ ops'[r].pc = "walk"
        <3>1. /\ ops' \in [Requests -> Operations]
              /\ \A q \in Requests : /\ ops'[q].pc = ops[q].pc /\ ops'[q].cids = ops[q].cids /\ ops'[q].row = ops[q].row
                                     /\ ops'[q].walk = IF q = r THEN next ELSE ops[q].walk
                                     /\ q # r => ops'[q] = ops[q]
            BY <2>1, WalkMoves DEF FilesInv
        <3> QED
            BY <3>1 DEF WalkStep
    <2>3. CASE /\ ops' = [ops EXCEPT ![r].walk = next]
               /\ rows' = rows /\ \E x \in rows : Same(x, row)
        BY <2>1, <2>3 DEF Same, FilesInv, FilesTypeOK
    <2>4. CASE ops' = [ops EXCEPT ![r].walk = next] /\ Create(row)
        <3>1. PICK e \in Entries : /\ rows' = rows \cup {e} /\ IsFiniteSet(rows')
                                   /\ e.cid = row.cid /\ e.path = row.path /\ e.orphan = row.orphan /\ e.dir = row.dir
            BY <2>4, CreateRow DEF FilesInv
        <3> QED
            BY <2>1, <2>4, <3>1 DEF FilesInv, FilesTypeOK
    <2>2. CASE ops' = [ops EXCEPT ![r].pc = "insert", ![r].walk = next, ![r].row = row] /\ rows' = rows
        <3>1. /\ ops' \in [Requests -> Operations]
              /\ \A q \in Requests : ops'[q].cids = ops[q].cids /\ (q # r => ops'[q] = ops[q])
                                     /\ ops'[q].walk = IF q = r THEN next ELSE ops[q].walk
              /\ insert
            <4>1. /\ ops' \in [Requests -> Operations]
                  /\ \A q \in Requests : /\ ops'[q].pc = (IF q = r THEN "insert" ELSE ops[q].pc) /\ ops'[q].cids = ops[q].cids
                                         /\ ops'[q].row = (IF q = r THEN row ELSE ops[q].row)
                                         /\ ops'[q].walk = IF q = r THEN next ELSE ops[q].walk
                                         /\ q # r => ops'[q] = ops[q]
                BY <2>2, WalkInserts DEF FilesInv
            <4> QED
                BY <4>1
        <3> QED
            BY <2>2, <3>1 DEF FilesInv, FilesTypeOK
    <2> QED
        BY <2>2, <2>3, <2>4 DEF CreateFilePath
<1> HIDE DEF there, insert
<1>2. FilesTypeOK'
    BY <1>1 DEF FilesInv, FilesTypeOK, WalkStep
<1>3. \A q \in Requests : Writing(q)' <=> Writing(q)
    BY <1>1 DEF Writing, WalkStep, insert
<1>4. CallsOK'
    BY <1>1, <1>3 DEF FilesInv, CallsOK, Spellings, WalkStep, Writing, insert
<1>5. RowsOK'
    BY <1>1 DEF FilesInv, RowsOK, RowOK, insert
<1>6. ListedInv'
    <2>1. Listed(r, row.cid)'
        BY <1>1 DEF Listed, there, insert, WalkStep
    <2>2. \A q \in Requests : \A c \in Cids : Writing(q)' /\ c \in ops'[q].walk.reached =>
                \/ Writing(q) /\ c \in ops[q].walk.reached
                \/ Listed(q, c)'
        BY <1>1, <1>3, <2>1
    <2>3. \A q \in Requests : ops'[q].pc = "done" => ops[q].pc = "done" /\ ops'[q].cids = ops[q].cids
        BY <1>1 DEF insert
    <2>4. \A q \in Requests : ops[q].pc = "insert" => ops'[q].pc = "insert" /\ ops'[q].row = ops[q].row
        BY <1>1 DEF WalkStep
    <2> QED
        BY <1>1, <2>2, <2>3, <2>4, ListedKept DEF FilesInv, WalkStep
<1>7. BrowseInv'
    <2>1. \A q \in Requests : Dirs(ops[q].walk) \subseteq Dirs(ops'[q].walk)
        BY <1>1
    <2>2. \A x \in rows' : x \in rows \/ \A p \in Above(x.path) : Shown(p)
        BY <1>1
    <2>3. \A q \in Requests : ops'[q].pc = "insert" =>
                \/ ops[q].pc = "insert" /\ ops'[q].row = ops[q].row
                \/ \A p \in Above(ops'[q].row.path) : Shown(p)
        BY <1>1 DEF insert
    <2>4. ASSUME NEW q \in Requests, NEW d \in Dirs(ops'[q].walk)
          PROVE  /\ d \in Dirs(ops[q].walk) \/ \A p \in Above(d[2]) : Shown(p)
                 /\ \/ d[2] \in removed'
                    \/ \E y \in rows' : y.cid = d[1] /\ y.path = d[2]
                    \/ ops'[q].pc = "insert" /\ ops'[q].row.cid = d[1] /\ ops'[q].row.path = d[2]
        <3>1. CASE d \in Dirs(ops[q].walk)
            <4>1. \/ d[2] \in removed
                  \/ \E y \in rows : y.cid = d[1] /\ y.path = d[2]
                  \/ ops[q].pc = "insert" /\ ops[q].row.cid = d[1] /\ ops[q].row.path = d[2]
                BY <3>1 DEF FilesInv, BrowseInv
            <4> QED
                BY <3>1, <4>1, <1>1 DEF WalkStep
        <3>2. CASE q = r /\ d = <<row.cid, row.path>>
            <4>1. d[1] = row.cid /\ d[2] = row.path
                BY <3>2
            <4> QED
                BY <3>2, <4>1, <1>1 DEF there, insert
        <3> QED
            BY <3>1, <3>2, <1>1
    <2> QED
        BY <1>1, <2>1, <2>2, <2>3, <2>4, BrowseKept DEF FilesInv, WalkStep
<1> QED
    BY <1>2, <1>4, <1>5, <1>6, <1>7 DEF FilesInv

\* The other changes of a walk leave its directories alone.
LEMMA ProcessedWalk ==
    ASSUME NEW walk \in Walks, NEW c \in Cids
    PROVE  LET next == [walk EXCEPT !.processed = @ \cup {c}]
           IN next \in Walks /\ next.reached = walk.reached /\ Dirs(next) = Dirs(walk)
    BY DEF Walks, Dirs

LEMMA ReachedWalk ==
    ASSUME NEW walk \in Walks, NEW c \in Cids
    PROVE  LET next == [walk EXCEPT !.reached = @ \cup {c}]
           IN next \in Walks /\ next.reached = walk.reached \cup {c} /\ Dirs(next) = Dirs(walk)
    BY DEF Walks, Dirs

LEMMA OrphanedWalk ==
    ASSUME NEW walk \in Walks, NEW found \in SUBSET [cid : Cids, read : BOOLEAN]
    PROVE  LET next == [walk EXCEPT !.orphans = @ \cup found]
           IN next \in Walks /\ next.reached = walk.reached /\ Dirs(next) = Dirs(walk)
    BY DEF Walks, Dirs

LEMMA LessOrphansWalk ==
    ASSUME NEW walk \in Walks, NEW w
    PROVE  LET next == [walk EXCEPT !.orphans = @ \ {w}]
           IN next \in Walks /\ next.reached = walk.reached /\ Dirs(next) = Dirs(walk)
    BY DEF Walks, Dirs

\* A failure is counted, and what it hides is noted.
LEMMA FailureNoted ==
    ASSUME FilesTypeOK, NEW r \in Requests, NEW what, NEW c \in Cids, Fails(what, c) \/ faults' = faults,
           partial' = partial \/ partial' = partial \cup ops[r].cids \/ partial' = partial \cup ops[r].cids \cup {c}
    PROVE  faults' \in Nat /\ partial \subseteq partial' /\ partial' \subseteq Cids
<1>1. faults' \in Nat
    BY DEF Fails, FilesTypeOK
<1>2. ops[r].cids \subseteq Cids /\ partial \subseteq Cids
    BY DEF FilesTypeOK, Operations
<1> QED
    BY <1>1, <1>2

\* The call for a block: met before, not listed, or listed where it is.
LEMMA VisitInv ==
    ASSUME FilesInv, NEW r \in Requests, ops[r].pc = "walk", NEW c \in Cids, NEW parent \in Seq(Names),
           ops[r].walk.stack # <<>> => ops[r].walk.stack[Len(ops[r].walk.stack)].left # <<>>,
           \A p \in Above(Append(parent, NodeName(c))) : Shown(p),
           Visit(r, c, parent), UNCHANGED <<pins, dels, raced, hidden, removed>>
    PROVE  FilesInv'
<1> DEFINE walk == Taken(ops[r].walk, c)
           noted == [walk EXCEPT !.processed = @ \cup {c}]
           listing == [noted EXCEPT !.reached = @ \cup {c}]
           row == FileRow(c, parent)
<1>1. walk \in Walks /\ Dirs(walk) = Dirs(ops[r].walk) /\ walk.reached = ops[r].walk.reached
    BY TakenWalk DEF FilesInv, FilesTypeOK, Operations
<1>2. noted \in Walks /\ Dirs(noted) = Dirs(ops[r].walk) /\ noted.reached = ops[r].walk.reached
    <2> HIDE DEF walk
    <2> QED
        BY <1>1, ProcessedWalk
<1>3. FilesTypeOK
    BY DEF FilesInv
<1>4. CASE Met(walk, c) /\ ops' = [ops EXCEPT ![r].walk = walk] /\ UNCHANGED <<rows, faults, partial>>
    <2>1. WalkStep(r)
        BY <1>3, <1>4 DEF WalkStep, FilesTypeOK
    <2> HIDE DEF walk
    <2> QED
        BY <1>1, <1>4, <2>1, QuietInv
<1>5. CASE /\ (c \in Long /\ UNCHANGED faults) \/ Fails("create", c)
           /\ ops' = [ops EXCEPT ![r].walk = IF parent = <<>> THEN [noted EXCEPT !.orphans = @ \cup {[cid |-> c, read |-> TRUE]}]
                                                              ELSE noted]
           /\ partial' = partial \cup ops[r].cids
           /\ UNCHANGED rows
    <2> DEFINE next == IF parent = <<>> THEN [noted EXCEPT !.orphans = @ \cup {[cid |-> c, read |-> TRUE]}] ELSE noted
    <2> HIDE DEF noted
    <2>1. next \in Walks /\ next.reached = ops[r].walk.reached /\ Dirs(next) = Dirs(ops[r].walk)
        <3>1. {[cid |-> c, read |-> TRUE]} \in SUBSET [cid : Cids, read : BOOLEAN]
            OBVIOUS
        <3> QED
            BY <1>2, <3>1, OrphanedWalk
    <2>2. WalkStep(r)
        BY <1>3, <1>5, FailureNoted DEF WalkStep
    <2>3. ops' = [ops EXCEPT ![r].walk = next] /\ rows' = rows
        BY <1>5
    <2> HIDE DEF next
    <2> QED
        BY <2>1, <2>2, <2>3, QuietInv
<1>6. CASE CreateFilePath(r, row, Entered(listing, row)) /\ UNCHANGED <<faults, partial>>
    <2>1. /\ row \in FileRows /\ RowOK(row) /\ row.cid = c /\ row.size \in Nat /\ row.dir = Meta[c].dir
          /\ row.path = Append(parent, NodeName(c))
        BY FileRowShape
    <2>2. listing \in Walks /\ listing.reached = ops[r].walk.reached \cup {c} /\ Dirs(listing) = Dirs(ops[r].walk)
        <3> HIDE DEF noted
        <3> QED
            BY <1>2, ReachedWalk
    <2> DEFINE next == Entered(listing, row)
    <2> HIDE DEF listing, row
    <2>3. /\ next \in Walks /\ next.reached = ops[r].walk.reached \cup {row.cid}
          /\ Dirs(ops[r].walk) \subseteq Dirs(next)
          /\ \A d \in Dirs(next) : d \in Dirs(ops[r].walk) \/ (d = <<row.cid, row.path>> /\ Meta[row.cid].dir)
        BY <2>1, <2>2, EnteredWalk
    <2>4. WalkStep(r)
        BY <1>3, <1>6 DEF WalkStep, FilesTypeOK
    <2>5. \A p \in Above(row.path) : Shown(p)
        BY <2>1
    <2>6. CreateFilePath(r, row, next)
        BY <1>6
    <2> HIDE DEF next
    <2> QED
        BY <2>1, <2>3, <2>4, <2>5, <2>6, ListInv
<1> QED
    <2> HIDE DEF walk
    <2> QED
        BY <1>4, <1>5, <1>6 DEF Visit, walk

\* An orphan is listed at the top, or left out.
LEMMA OrphanInv ==
    ASSUME FilesInv, NEW r \in Requests, ops[r].pc = "walk", NEW c \in Cids, NEW read \in BOOLEAN,
           NEW next \in Walks, next.reached = ops[r].walk.reached, Dirs(next) = Dirs(ops[r].walk),
           CreateOrphanEntry(r, c, read, next), UNCHANGED <<pins, dels, raced, hidden, removed>>
    PROVE  FilesInv'
<1>1. FilesTypeOK
    BY DEF FilesInv
<1>2. CASE CreateFilePath(r, OrphanRow(c, read), [next EXCEPT !.reached = @ \cup {c}]) /\ UNCHANGED <<faults, partial>>
    <2> DEFINE row == OrphanRow(c, read)
               listing == [next EXCEPT !.reached = @ \cup {c}]
    <2>1. row \in FileRows /\ RowOK(row) /\ row.cid = c /\ Above(row.path) = {}
        BY OrphanRowShape
    <2>2. listing \in Walks /\ listing.reached = ops[r].walk.reached \cup {c} /\ Dirs(listing) = Dirs(ops[r].walk)
        BY ReachedWalk
    <2>3. WalkStep(r)
        BY <1>1, <1>2 DEF WalkStep, FilesTypeOK
    <2>4. CreateFilePath(r, row, listing)
        BY <1>2
    <2> HIDE DEF row, listing
    <2> QED
        BY <2>1, <2>2, <2>3, <2>4, ListInv
<1>3. CASE /\ (read /\ c \in Long /\ UNCHANGED faults) \/ Fails("orphan", c)
           /\ ops' = [ops EXCEPT ![r].walk = next] /\ partial' = partial \cup ops[r].cids
           /\ UNCHANGED rows
    <2>1. WalkStep(r)
        BY <1>1, <1>3, FailureNoted DEF WalkStep
    <2> QED
        BY <1>3, <2>1, QuietInv
<1> QED
    BY <1>2, <1>3 DEF CreateOrphanEntry

\* The roots and the orphans: their rows are at the top.
LEMMA ExecuteInv ==
    ASSUME FilesInv, NEW r \in Requests, Execute(r)
    PROVE  FilesInv'
<1> DEFINE walk == ops[r].walk
<1>1. /\ ops[r].pc = "walk" /\ walk.stack = <<>>
      /\ UNCHANGED <<pins, dels, raced, hidden, removed>>
    BY DEF Execute
<1>2. walk \in Walks
    BY DEF FilesInv, FilesTypeOK, Operations
<1>3. CASE \E c \in walk.roots : Visit(r, c, <<>>)
    <2>1. PICK c \in walk.roots : Visit(r, c, <<>>)
        BY <1>3
    <2>2. c \in Cids
        BY <1>2 DEF Walks
    <2>3. Append(<<>>, NodeName(c)) = <<NodeName(c)>> /\ <<>> \in Seq(Names)
        OBVIOUS
    <2>4. \A p \in Above(Append(<<>>, NodeName(c))) : Shown(p)
        BY <2>3, NothingAbove
    <2> QED
        BY <1>1, <2>1, <2>2, <2>3, <2>4, VisitInv
<1>4. CASE \E w \in walk.orphans : CreateOrphanEntry(r, w.cid, w.read, [walk EXCEPT !.orphans = @ \ {w}])
    <2>1. PICK w \in walk.orphans : CreateOrphanEntry(r, w.cid, w.read, [walk EXCEPT !.orphans = @ \ {w}])
        BY <1>4
    <2>2. w.cid \in Cids /\ w.read \in BOOLEAN
        BY <1>2 DEF Walks
    <2> DEFINE next == [walk EXCEPT !.orphans = @ \ {w}]
    <2>3. next \in Walks /\ next.reached = walk.reached /\ Dirs(next) = Dirs(walk)
        <3> HIDE DEF walk
        <3> QED
            BY <1>2, LessOrphansWalk
    <2>4. CreateOrphanEntry(r, w.cid, w.read, next)
        BY <2>1
    <2> HIDE DEF next
    <2> QED
        BY <1>1, <2>2, <2>3, <2>4, OrphanInv
<1> QED
    BY <1>3, <1>4 DEF Execute

\* The children of a directory: their rows are below its row, which is there,
\* or was deleted.
LEMMA ComputePathsRecursiveInv ==
    ASSUME FilesInv, NEW r \in Requests, ComputePathsRecursive(r)
    PROVE  FilesInv'
<1> DEFINE walk == ops[r].walk
           d == Last(walk.stack)
           k == Head(d.left)
<1>1. /\ ops[r].pc = "walk" /\ walk.stack # <<>> /\ d.left # <<>>
      /\ UNCHANGED <<pins, dels, raced, hidden, removed>>
    BY DEF ComputePathsRecursive
<1>2. walk \in Walks /\ FilesTypeOK
    BY DEF FilesInv, FilesTypeOK, Operations
<1>3. d \in Directories /\ <<d.cid, d.path>> \in Dirs(walk) /\ d = walk.stack[Len(walk.stack)]
    <2> HIDE DEF walk
    <2> QED
        BY <1>1, <1>2, LeftWalk DEF Last
<1>4. k \in Cids /\ d.path \in Seq(Names) /\ NodeName(k) \in Names
    <2> HIDE DEF d
    <2>1. d.left \in Seq(Cids) /\ d.path \in Seq(Names)
        BY <1>3 DEF Directories
    <2>2. k \in Cids
        BY <1>1, <2>1
    <2> QED
        BY <2>1, <2>2, Shapes
<1>5. Shown(d.path) /\ \A p \in Above(d.path) : Shown(p)
    <2> HIDE DEF d
    <2>1. /\ \A p \in Above(d.path) : Shown(p)
          /\ d.path \in removed \/ \E y \in rows : y.cid = d.cid /\ y.path = d.path
        BY <1>1, <1>3 DEF FilesInv, BrowseInv
    <2> QED
        BY <1>3, <2>1 DEF Shown, Pending
<1>6. \A p \in Above(Append(d.path, NodeName(k))) : Shown(p)
    <2> HIDE DEF d, k
    <2> QED
        BY <1>4, <1>5, AboveChild
<1>7. Taken(walk, k) \in Walks /\ Taken(walk, k).reached = walk.reached /\ Dirs(Taken(walk, k)) = Dirs(walk)
    <2> HIDE DEF walk, k
    <2> QED
        BY <1>1, <1>2, <1>3, <1>4, TakenWalk
<1>8. CASE Visit(r, k, d.path)
    <2> HIDE DEF k
    <2> QED
        BY <1>1, <1>3, <1>4, <1>6, <1>8, VisitInv
<1>9. CASE CreateOrphanEntry(r, k, FALSE, Taken(walk, k))
    <2> HIDE DEF k
    <2> QED
        BY <1>1, <1>4, <1>7, <1>9, OrphanInv
<1>10. CASE /\ Fails("child", k)
            /\ CreateFilePath(r, OrphanRow(k, FALSE), [Taken(walk, k) EXCEPT !.reached = @ \cup {k}])
            /\ partial' = partial \cup ops[r].cids
    <2> DEFINE row == OrphanRow(k, FALSE)
               listing == [Taken(walk, k) EXCEPT !.reached = @ \cup {k}]
    <2>1. row \in FileRows /\ RowOK(row) /\ row.cid = k /\ Above(row.path) = {}
        BY <1>4, OrphanRowShape
    <2>2. listing \in Walks /\ listing.reached = walk.reached \cup {k} /\ Dirs(listing) = Dirs(walk)
        <3> HIDE DEF walk, k
        <3> QED
            BY <1>4, <1>7, ReachedWalk
    <2>3. WalkStep(r)
        <3> HIDE DEF k
        <3> QED
            BY <1>1, <1>2, <1>4, <1>10, FailureNoted DEF WalkStep
    <2>4. CreateFilePath(r, row, listing)
        BY <1>10
    <2> HIDE DEF row, listing
    <2> QED
        BY <2>1, <2>2, <2>3, <2>4, ListInv
<1> QED
    BY <1>8, <1>9, <1>10 DEF ComputePathsRecursive

\* The end of a directory: its row becomes a directory's, or the failure is
\* noted.
LEMMA UpdateFilePathInv ==
    ASSUME FilesInv, NEW r \in Requests, UpdateFilePath(r)
    PROVE  FilesInv'
<1> DEFINE walk == ops[r].walk
           d == Last(walk.stack)
           next == Counted([walk EXCEPT !.stack = Front(@)], d.size)
           updated(x) == IF Same(x, d) THEN [x EXCEPT !.size = d.size, !.dir = TRUE, !.orphan = FALSE] ELSE x
           ends == \A x \in rows : \E y \in rows' :
                       /\ y.cid = x.cid /\ y.path = x.path
                       /\ y = x \/ y.dir
                       /\ x.cid = d.cid /\ x.path = d.path => y.dir \/ (y.orphan /\ d.cid \in partial')
<1>1. /\ ops[r].pc = "walk" /\ walk.stack # <<>>
      /\ ops' = [ops EXCEPT ![r].walk = next]
      /\ UNCHANGED <<pins, dels, raced, hidden, removed>>
    BY DEF UpdateFilePath
<1>2. walk \in Walks /\ FilesTypeOK
    BY DEF FilesInv, FilesTypeOK, Operations
<1>3. /\ d \in Directories /\ <<d.cid, d.path>> \in Dirs(walk)
      /\ next \in Walks /\ next.reached = walk.reached
      /\ Dirs(next) \subseteq Dirs(walk)
      /\ \A e \in Dirs(walk) : e \in Dirs(next) \/ e = <<d.cid, d.path>>
    <2> HIDE DEF walk
    <2> QED
        BY <1>1, <1>2, LeftWalk
<1>4. d.cid \in Cids /\ d.size \in Nat /\ d.size \in Sizes /\ Meta[d.cid].dir
    <2> HIDE DEF d
    <2>1. d.cid \in Cids /\ d.size \in Nat
        BY <1>3 DEF Directories
    <2>2. Meta[<<d.cid, d.path>>[1]].dir
        BY <1>3 DEF FilesInv, RowsOK
    <2> QED
        BY <2>1, <2>2 DEF Sizes
<1>5. /\ WalkStep(r) /\ ends
      /\ rows' \subseteq Entries /\ IsFiniteSet(rows') /\ \A y \in rows' : RowOK(y) /\ \E x \in rows : y.path = x.path
    <2>1. CASE rows' = {updated(x) : x \in rows} /\ UNCHANGED <<faults, partial>>
        <3> HIDE DEF d
        <3>1. ASSUME NEW x \in rows
              PROVE  /\ updated(x) \in Entries /\ updated(x).cid = x.cid /\ updated(x).path = x.path
                     /\ updated(x) = x \/ (updated(x).dir /\ Same(x, d))
                     /\ Same(x, d) => updated(x).dir
                     /\ RowOK(updated(x))
            <4>1. x \in Entries /\ RowOK(x)
                BY <1>2 DEF FilesTypeOK, FilesInv, RowsOK
            <4>2. CASE Same(x, d)
                <5>1. updated(x) = [id |-> x.id, cid |-> x.cid, path |-> x.path, orphan |-> FALSE, size |-> d.size, dir |-> TRUE]
                    BY <4>1, <4>2 DEF Entries
                <5>2. Meta[x.cid].dir = TRUE
                    BY <1>4, <4>2 DEF Same
                <5> DEFINE e == [id |-> x.id, cid |-> x.cid, path |-> x.path, orphan |-> FALSE, size |-> d.size, dir |-> TRUE]
                <5>3. e \in Entries
                    BY <1>4, <4>1 DEF Entries
                <5>4. e.cid = x.cid /\ e.path = x.path /\ e.dir = TRUE
                    OBVIOUS
                <5>5. updated(x) = e
                    BY <5>1
                <5> HIDE DEF updated, e
                <5>6. RowOK(e)
                    BY <5>2, <5>4 DEF RowOK
                <5> QED
                    BY <4>2, <5>3, <5>4, <5>5, <5>6
            <4>3. CASE ~Same(x, d)
                BY <4>1, <4>3
            <4> QED
                BY <4>2, <4>3
        <3>2. [x \in rows |-> updated(x)] \in Surjection(rows, rows')
            <4> HIDE DEF updated
            <4> QED
                BY <2>1 DEF Surjection
        <3>3. IsFiniteSet(rows')
            BY <1>2, <3>2, FS_Surjection DEF FilesTypeOK
        <3>4. WalkStep(r)
            BY <1>1, <1>2, <2>1 DEF WalkStep, FilesTypeOK
        <3> HIDE DEF updated
        <3>5. ends
            <4> SUFFICES ASSUME NEW x \in rows
                         PROVE  \E y \in rows' :
                                   /\ y.cid = x.cid /\ y.path = x.path
                                   /\ y = x \/ y.dir
                                   /\ x.cid = d.cid /\ x.path = d.path => y.dir \/ (y.orphan /\ d.cid \in partial')
                OBVIOUS
            <4>1. updated(x) \in rows'
                BY <2>1
            <4> QED
                BY <3>1, <4>1 DEF Same
        <3>6. rows' \subseteq Entries /\ \A y \in rows' : RowOK(y) /\ \E x \in rows : y.path = x.path
            BY <2>1, <3>1
        <3> QED
            BY <3>3, <3>4, <3>5, <3>6
    <2>2. CASE /\ Fails("update", d.cid)
               /\ partial' = partial \cup ops[r].cids \cup {d.cid}
               /\ UNCHANGED rows
        <3> HIDE DEF d
        <3>1. WalkStep(r)
            BY <1>1, <1>2, <1>4, <2>2, FailureNoted DEF WalkStep
        <3>2. ends
            <4>1. ASSUME NEW x \in rows, x.cid = d.cid PROVE x.dir \/ x.orphan
                <5>1. RowOK(x)
                    BY DEF FilesInv, RowsOK
                <5> QED
                    BY <1>4, <4>1, <5>1 DEF RowOK
            <4> QED
                BY <2>2, <4>1
        <3>3. rows' \subseteq Entries /\ IsFiniteSet(rows') /\ \A y \in rows' : RowOK(y)
            BY <2>2 DEF FilesInv, FilesTypeOK, RowsOK
        <3> QED
            BY <2>2, <3>1, <3>2, <3>3
    <2> QED
        BY <2>1, <2>2 DEF UpdateFilePath
<1> HIDE DEF next, d, ends
<1>6. /\ ops' \in [Requests -> Operations]
      /\ \A q \in Requests : /\ ops'[q].pc = ops[q].pc /\ ops'[q].cids = ops[q].cids /\ ops'[q].row = ops[q].row
                             /\ ops'[q].walk = IF q = r THEN next ELSE ops[q].walk
                             /\ q # r => ops'[q] = ops[q]
    BY <1>1, <1>2, <1>3, WalkMoves
<1>7. \A q \in Requests : (Writing(q)' <=> Writing(q)) /\ ops'[q].walk.reached = ops[q].walk.reached
                          /\ Dirs(ops'[q].walk) \subseteq Dirs(ops[q].walk)
    BY <1>3, <1>6 DEF Writing
<1>8. FilesTypeOK'
    BY <1>2, <1>5, <1>6 DEF FilesTypeOK, WalkStep
<1>9. CallsOK'
    BY <1>5, <1>6, <1>7 DEF FilesInv, CallsOK, Spellings, WalkStep, Writing
<1>10. RowsOK'
    BY <1>5, <1>6, <1>7 DEF FilesInv, RowsOK
<1>11. ListedInv'
    <2>1. \A x \in rows : \E y \in rows' : y.cid = x.cid
        BY <1>5 DEF ends
    <2> QED
        BY <1>5, <1>6, <1>7, <2>1, ListedKept DEF FilesInv, WalkStep
<1>12. BrowseInv'
    <2>1. ASSUME NEW p, Shown(p) PROVE Shown(p)'
        <3>1. CASE p \in removed
            BY <1>1, <3>1 DEF Shown
        <3>2. CASE \E y \in rows : y.path = p /\ (y.dir \/ (y.orphan /\ y.cid \in partial) \/ Pending(y))
            <4>1. PICK x \in rows : x.path = p /\ (x.dir \/ (x.orphan /\ x.cid \in partial) \/ Pending(x))
                BY <3>2
            <4>2. PICK y \in rows' : /\ y.cid = x.cid /\ y.path = x.path
                                     /\ y = x \/ y.dir
                                     /\ x.cid = d.cid /\ x.path = d.path => y.dir \/ (y.orphan /\ d.cid \in partial')
                BY <1>5 DEF ends
            <4>3. CASE x.cid = d.cid /\ x.path = d.path
                BY <4>1, <4>2, <4>3 DEF Shown
            <4>4. CASE ~(x.cid = d.cid /\ x.path = d.path)
                <5>1. Pending(x) => Pending(x)'
                    <6>1. ASSUME NEW q \in Requests, <<x.cid, x.path>> \in Dirs(ops[q].walk)
                          PROVE  <<x.cid, x.path>> \in Dirs(ops'[q].walk)
                        BY <1>3, <1>6, <4>4, <6>1
                    <6> QED
                        BY <6>1 DEF Pending
                <5>2. partial \subseteq partial'
                    BY <1>5 DEF WalkStep
                <5>3. CASE y = x
                    BY <4>1, <4>2, <5>1, <5>2, <5>3 DEF Shown
                <5>4. CASE y.dir
                    BY <4>1, <4>2, <5>4 DEF Shown
                <5> QED
                    BY <4>2, <5>3, <5>4
            <4> QED
                BY <4>3, <4>4
        <3> QED
            BY <2>1, <3>1, <3>2 DEF Shown
    <2>2. \A x \in rows' : \A p \in Above(x.path) : Shown(p)
        BY <1>5 DEF FilesInv, BrowseInv
    <2>3. ASSUME NEW q \in Requests, NEW e \in Dirs(ops'[q].walk)
          PROVE  /\ e \in Dirs(ops[q].walk)
                 /\ \/ e[2] \in removed'
                    \/ \E y \in rows' : y.cid = e[1] /\ y.path = e[2]
                    \/ ops'[q].pc = "insert" /\ ops'[q].row.cid = e[1] /\ ops'[q].row.path = e[2]
        <3>1. e \in Dirs(ops[q].walk)
            BY <1>7
        <3>2. \/ e[2] \in removed
              \/ \E y \in rows : y.cid = e[1] /\ y.path = e[2]
              \/ ops[q].pc = "insert" /\ ops[q].row.cid = e[1] /\ ops[q].row.path = e[2]
            BY <3>1 DEF FilesInv, BrowseInv
        <3>3. (\E y \in rows : y.cid = e[1] /\ y.path = e[2]) => \E y \in rows' : y.cid = e[1] /\ y.path = e[2]
            BY <1>5 DEF ends
        <3> QED
            BY <1>1, <1>6, <3>1, <3>2, <3>3
    <2> QED
        BY <1>6, <2>1, <2>2, <2>3, BrowseMoves DEF FilesInv
<1> QED
    BY <1>8, <1>9, <1>10, <1>11, <1>12 DEF FilesInv

\* The row that was held back is created.
LEMMA InsertInv ==
    ASSUME FilesInv, NEW r \in Requests, Insert(r)
    PROVE  FilesInv'
<1> DEFINE row == ops[r].row
<1>1. /\ ops[r].pc = "insert" /\ Create(row) /\ ops' = [ops EXCEPT ![r].pc = "walk", ![r].row = None]
      /\ UNCHANGED <<pins, dels, faults, raced, hidden, partial, removed>>
    BY DEF Insert
<1>2. row \in FileRows /\ RowOK(row) /\ FilesTypeOK
    BY <1>1 DEF FilesInv, CallsOK, RowsOK
<1>3. PICK e \in Entries : /\ rows' = rows \cup {e} /\ IsFiniteSet(rows')
                           /\ e.cid = row.cid /\ e.path = row.path /\ e.orphan = row.orphan /\ e.dir = row.dir
    BY <1>1, <1>2, CreateRow
<1>4. /\ ops' \in [Requests -> Operations]
      /\ \A q \in Requests : /\ ops'[q].cids = ops[q].cids /\ ops'[q].walk = ops[q].walk
                             /\ q # r => ops'[q] = ops[q]
      /\ ops'[r].pc = "walk"
    <2> DEFINE o == [ops[r] EXCEPT !.pc = "walk", !.row = None]
    <2>1. ops[r] \in Operations /\ ops' = [ops EXCEPT ![r] = o]
        BY <1>1, <1>2 DEF FilesTypeOK
    <2>2. o \in Operations /\ o.pc = "walk" /\ o.cids = ops[r].cids /\ o.walk = ops[r].walk
        BY <2>1 DEF Operations
    <2> HIDE DEF o
    <2>3. ops' \in [Requests -> Operations] /\ \A q \in Requests : ops'[q] = IF q = r THEN o ELSE ops[q]
        BY <1>2, <2>1, <2>2, OperationMoves
    <2> QED
        BY <2>2, <2>3
<1>5. FilesTypeOK'
    BY <1>1, <1>2, <1>3, <1>4 DEF FilesTypeOK
<1>6. \A q \in Requests : Writing(q)' <=> Writing(q)
    BY <1>1, <1>4 DEF Writing
<1>7. CallsOK'
    BY <1>1, <1>4, <1>6 DEF FilesInv, CallsOK, Spellings, Writing
<1>8. RowsOK'
    BY <1>2, <1>3, <1>4 DEF FilesInv, RowsOK, RowOK
<1>9. ListedInv'
    BY <1>1, <1>3, <1>4, <1>6, ListedKept DEF FilesInv
<1>10. BrowseInv'
    <2>1. \A x \in rows' : x \in rows \/ \A p \in Above(x.path) : Shown(p)
        BY <1>1, <1>3 DEF FilesInv, BrowseInv
    <2>2. ASSUME NEW q \in Requests, NEW d \in Dirs(ops'[q].walk)
          PROVE  \/ d[2] \in removed'
                 \/ \E y \in rows' : y.cid = d[1] /\ y.path = d[2]
                 \/ ops'[q].pc = "insert" /\ ops'[q].row.cid = d[1] /\ ops'[q].row.path = d[2]
        <3>1. \/ d[2] \in removed
              \/ \E y \in rows : y.cid = d[1] /\ y.path = d[2]
              \/ ops[q].pc = "insert" /\ ops[q].row.cid = d[1] /\ ops[q].row.path = d[2]
            BY <1>4 DEF FilesInv, BrowseInv
        <3> QED
            BY <1>1, <1>3, <1>4, <3>1
    <2> QED
        BY <1>1, <1>3, <1>4, <2>1, <2>2, BrowseKept DEF FilesInv
<1> QED
    BY <1>5, <1>7, <1>8, <1>9, <1>10 DEF FilesInv

-----------------------------------------------------------------------------
(* The steps before and after a walk.                                       *)

\* An operation that does not walk has no directory open and reached nothing.
LEMMA NowhereShape == Nowhere \in Walks /\ Dirs(Nowhere) = {} /\ Nowhere.reached = {} /\ Nowhere.stack = <<>>
    BY DEF Nowhere, Walks, Dirs

\* An operation comes to a point with nothing listed and no directory open.
LEMMA PausedInv ==
    ASSUME FilesInv, NEW r \in Requests, NEW o \in Operations, ops' = [ops EXCEPT ![r] = o],
           ops[r].pc \in {"relate", "queued", "walk"}, Dirs(ops[r].walk) = {},
           o.pc \in {"queued", "walk", "done"}, Dirs(o.walk) = {}, o.walk.reached = {},
           o.pc # "walk" => o.walk = Nowhere,
           o.cids # {} => Spellings(r, o.cids) # {},
           o.pc = "done" /\ pins[r].live => \A c \in Spellings(r, o.cids) :
                c \in hidden' \/ (\E x \in rows : x.cid = c) \/ c \in raced,
           faults' \in Nat, hidden \subseteq hidden', hidden' \subseteq Cids, partial \subseteq partial', partial' \subseteq Cids,
           UNCHANGED <<pins, dels, rows, raced, removed>>
    PROVE  FilesInv'
<1>1. FilesTypeOK
    BY DEF FilesInv
<1>2. ops' \in [Requests -> Operations] /\ \A q \in Requests : ops'[q] = IF q = r THEN o ELSE ops[q]
    BY <1>1, OperationMoves
<1>3. FilesTypeOK'
    BY <1>1, <1>2 DEF FilesTypeOK
<1>4. CallsOK'
    <2>1. \A q \in Requests : ops'[q].pc # "idle" /\ ops'[q].cids # {} => Spellings(q, ops'[q].cids) # {}
        BY <1>2 DEF FilesInv, CallsOK
    <2> QED
        BY <1>2, <2>1 DEF FilesInv, CallsOK, Writing, Spellings
<1>5. RowsOK'
    BY <1>2 DEF FilesInv, RowsOK
<1>6. ListedInv'
    <2>1. \A q \in Requests : \A c \in Cids : Writing(q)' /\ c \in ops'[q].walk.reached => Writing(q) /\ c \in ops[q].walk.reached
        BY <1>2 DEF Writing
    <2>2. \A q \in Requests : pins[q].live /\ ops'[q].pc = "done" /\ ops'[q].cids # {} =>
                \/ ops[q].pc = "done" /\ ops'[q].cids = ops[q].cids
                \/ /\ Spellings(q, ops'[q].cids) # {}
                   /\ \A c \in Spellings(q, ops'[q].cids) :
                        c \in hidden' \/ (\E y \in rows' : y.cid = c) \/ c \in raced
        BY <1>2
    <2> QED
        BY <1>2, <2>1, <2>2, ListedKept DEF FilesInv
<1>7. BrowseInv'
    <2>1. ASSUME NEW q \in Requests, NEW d \in Dirs(ops'[q].walk)
          PROVE  /\ q # r
                 /\ \/ d[2] \in removed'
                    \/ \E y \in rows' : y.cid = d[1] /\ y.path = d[2]
                    \/ ops'[q].pc = "insert" /\ ops'[q].row.cid = d[1] /\ ops'[q].row.path = d[2]
        BY <1>2 DEF FilesInv, BrowseInv
    <2> QED
        BY <1>2, <2>1, BrowseKept DEF FilesInv
<1> QED
    BY <1>3, <1>4, <1>5, <1>6, <1>7 DEF FilesInv

\* The children of a block are blocks.
LEMMA ChildrenShape == ASSUME NEW c \in Cids PROVE Children(c) \subseteq Cids
<1>1. Meta[c].children \in Seq(Cids)
    BY Shapes
<1> QED
    BY <1>1 DEF Children, Range

\* The related CIDs come with the pin's own.
LEMMA RelateInv ==
    ASSUME FilesInv, NEW r \in Requests, Relate(r)
    PROVE  FilesInv'
<1> DEFINE c == pins[r].cid
<1>1. /\ ops[r].pc = "relate" /\ ops[r] \in Operations /\ FilesTypeOK
      /\ UNCHANGED <<pins, dels, rows, raced, hidden, partial, removed>>
    BY DEF Relate, FilesInv, FilesTypeOK
<1>2. /\ ops[r].walk = Nowhere /\ c \in Cids /\ NormalizeCid[c] = c
      /\ ops[r].cids # {} => Spellings(r, ops[r].cids) # {}
    BY <1>1 DEF FilesInv, CallsOK, Writing
<1>3. PICK o \in Operations : /\ ops' = [ops EXCEPT ![r] = o]
                              /\ o.pc = "queued" /\ o.walk = Nowhere /\ (o.cids # {} => Spellings(r, o.cids) # {})
    <2>1. ValidateDAGCompletion(c) \in SUBSET Cids /\ (ValidateDAGCompletion(c) # {} => c \in ValidateDAGCompletion(c))
        <3>1. GetRelatedCIDs(c) \subseteq Cids
            BY <1>2, ChildrenShape DEF GetRelatedCIDs
        <3> QED
            BY <1>2, <3>1 DEF ValidateDAGCompletion
    <2>2. CASE ops' = [ops EXCEPT ![r].pc = "queued"]
        <3> DEFINE o == [ops[r] EXCEPT !.pc = "queued"]
        <3>1. o \in Operations /\ o.pc = "queued" /\ o.cids = ops[r].cids /\ o.walk = Nowhere
            BY <1>1, <1>2 DEF Operations
        <3>2. ops' = [ops EXCEPT ![r] = o]
            BY <2>2
        <3> QED
            BY <1>2, <3>1, <3>2
    <2> DEFINE related == IF pins[r].live \/ pins[r].kind = "upload" THEN ValidateDAGCompletion(c) ELSE {}
    <2>3. CASE ops' = [ops EXCEPT ![r].pc = "queued", ![r].cids = @ \cup related]
        <3> DEFINE o == [ops[r] EXCEPT !.pc = "queued", !.cids = @ \cup related]
        <3>1. related \in SUBSET Cids /\ (related # {} => c \in related)
            BY <2>1
        <3>2. ops' = [ops EXCEPT ![r] = o]
            BY <1>1, <2>3 DEF FilesTypeOK
        <3> HIDE DEF related
        <3>3. o \in Operations /\ o.pc = "queued" /\ o.cids = ops[r].cids \cup related /\ o.walk = Nowhere
            BY <1>1, <1>2, <3>1 DEF Operations
        <3> HIDE DEF o
        <3>4. o.cids # {} => Spellings(r, o.cids) # {}
            <4>1. related # {} => c \in Spellings(r, o.cids)
                BY <1>2, <3>1, <3>3 DEF Spellings
            <4>2. Spellings(r, ops[r].cids) \subseteq Spellings(r, o.cids)
                BY <3>3 DEF Spellings
            <4> QED
                BY <1>2, <3>3, <4>1, <4>2
        <3> QED
            BY <3>2, <3>3, <3>4
    <2> QED
        BY <2>2, <2>3 DEF Relate
<1>6. faults' \in Nat /\ hidden' \subseteq Cids /\ partial' \subseteq Cids
    BY <1>1 DEF Relate, FilesTypeOK
<1> QED
    BY <1>1, <1>2, <1>3, <1>6, NowhereShape, PausedInv

\* The walk starts with the roots, and with nothing reached.
LEMMA StartInv ==
    ASSUME FilesInv, NEW r \in Requests, Start(r)
    PROVE  FilesInv'
<1>1. /\ ops[r].pc = "queued" /\ ops[r] \in Operations /\ FilesTypeOK
      /\ UNCHANGED <<pins, dels, rows, raced, hidden, removed>>
    BY DEF Start, FilesInv, FilesTypeOK
<1>2. ops[r].walk = Nowhere /\ (ops[r].cids # {} => Spellings(r, ops[r].cids) # {}) /\ ops[r].cids \subseteq Cids
    BY <1>1 DEF FilesInv, CallsOK, Writing, Operations
<1>3. PICK unread \in {{}} \cup {{x} : x \in ops[r].cids} :
         /\ IF unread = {} THEN UNCHANGED faults ELSE \E x \in unread : Fails("meta", x)
         /\ ops' = [ops EXCEPT ![r].pc = "walk",
                               ![r].walk = [Nowhere EXCEPT !.roots = Roots(ops[r].cids, unread),
                                   !.orphans = [cid : ops[r].cids \ Metas(ops[r].cids, unread), read : {FALSE}]]]
         /\ partial' = IF unread = {} /\ \A a, b \in Roots(ops[r].cids, unread) : a = b THEN partial ELSE partial \cup ops[r].cids
    BY DEF Start
<1> DEFINE walk == [Nowhere EXCEPT !.roots = Roots(ops[r].cids, unread),
                                   !.orphans = [cid : ops[r].cids \ Metas(ops[r].cids, unread), read : {FALSE}]]
           o == [ops[r] EXCEPT !.pc = "walk", !.walk = walk]
<1>4. walk \in Walks /\ Dirs(walk) = {} /\ walk.reached = {}
    <2>1. Roots(ops[r].cids, unread) \subseteq Cids
        BY <1>2 DEF Roots, Metas
    <2>2. [cid : ops[r].cids \ Metas(ops[r].cids, unread), read : {FALSE}] \subseteq [cid : Cids, read : BOOLEAN]
        BY <1>2
    <2> DEFINE first == Roots(ops[r].cids, unread)
               found == [cid : ops[r].cids \ Metas(ops[r].cids, unread), read : {FALSE}]
    <2>3. walk = [roots |-> first, stack |-> <<>>, processed |-> {}, reached |-> {}, orphans |-> found]
        <3>1. walk = [Nowhere EXCEPT !.roots = first, !.orphans = found]
            OBVIOUS
        <3> HIDE DEF first, found, walk
        <3> QED
            BY <3>1 DEF Nowhere
    <2> HIDE DEF first, found, walk
    <2>4. first \subseteq Cids /\ found \subseteq [cid : Cids, read : BOOLEAN]
        BY <2>1, <2>2 DEF first, found
    <2>5. walk.stack = <<>> /\ walk.reached = {} /\ walk \in Walks
        BY <2>3, <2>4 DEF Walks
    <2> QED
        BY <2>5 DEF Dirs
<1>5. ops' = [ops EXCEPT ![r] = o]
    BY <1>1, <1>3 DEF FilesTypeOK
<1> HIDE DEF walk
<1>6. o \in Operations /\ o.pc = "walk" /\ o.cids = ops[r].cids /\ o.walk = walk
    BY <1>1, <1>4 DEF Operations
<1>7. faults' \in Nat /\ hidden' \subseteq Cids /\ partial \subseteq partial' /\ partial' \subseteq Cids
    <2>1. faults' = faults \/ faults' = faults + 1
        BY <1>3 DEF Fails
    <2>2. partial' = partial \/ partial' = partial \cup ops[r].cids
        BY <1>3
    <2>3. faults \in Nat /\ partial \subseteq Cids /\ hidden' \subseteq Cids
        BY <1>1 DEF FilesTypeOK
    <2> QED
        BY <1>2, <2>1, <2>2, <2>3
<1> HIDE DEF o
<1> QED
    BY <1>1, <1>2, <1>4, <1>5, <1>6, <1>7, NowhereShape, PausedInv

\* All that was given was reached, or is noted as hidden.
LEMMA ValidateInv ==
    ASSUME FilesInv, NEW r \in Requests, Validate(r)
    PROVE  FilesInv'
<1>1. /\ ops[r].pc = "walk" /\ ops[r] \in Operations /\ FilesTypeOK /\ ops[r].walk.stack = <<>>
      /\ UNCHANGED <<pins, dels, rows, raced, partial, removed>>
    BY DEF Validate, FilesInv, FilesTypeOK
<1>2. /\ Dirs(ops[r].walk) = {}
      /\ ops[r].cids # {} => Spellings(r, ops[r].cids) # {}
      /\ ops[r].cids \subseteq Cids
    BY <1>1 DEF FilesInv, CallsOK, Dirs, Operations
<1>3. PICK next \in {"done", "queued"} :
         /\ ops' = [ops EXCEPT ![r].pc = next, ![r].walk = Nowhere]
         /\ next = "done" => hidden' = hidden \cup (ops[r].cids \ ops[r].walk.reached)
         /\ next = "queued" => hidden' = hidden
         /\ faults' = faults \/ faults' = faults + 1
    BY DEF Validate
<1> DEFINE o == [ops[r] EXCEPT !.pc = next, !.walk = Nowhere]
<1>4. ops' = [ops EXCEPT ![r] = o]
    BY <1>1, <1>3 DEF FilesTypeOK
<1>5. o \in Operations /\ o.pc = next /\ o.cids = ops[r].cids /\ o.walk = Nowhere
    BY <1>1, NowhereShape DEF Operations
<1>6. faults' \in Nat /\ hidden \subseteq hidden' /\ hidden' \subseteq Cids /\ partial' \subseteq Cids
    BY <1>1, <1>2, <1>3 DEF FilesTypeOK
<1>7. ASSUME next = "done", pins[r].live, NEW c \in Spellings(r, ops[r].cids)
      PROVE  c \in hidden' \/ (\E x \in rows : x.cid = c) \/ c \in raced
    <2>1. c \in Cids /\ c \in ops[r].cids /\ NormalizeCid[c] = pins[r].cid
        BY <1>2 DEF Spellings
    <2>2. c \in ops[r].walk.reached => Listed(r, c)
        BY <1>1, <1>7, <2>1 DEF FilesInv, ListedInv, Writing
    <2> QED
        BY <1>1, <1>3, <1>7, <2>1, <2>2 DEF Listed
<1> HIDE DEF o
<1> QED
    BY <1>1, <1>2, <1>4, <1>5, <1>6, <1>7, NowhereShape, PausedInv

-----------------------------------------------------------------------------
(* Pins and deletions.                                                      *)

\* What an operation is given names the root, in one spelling, or is nothing.
LEMMA GivenShape ==
    ASSUME NEW c \in Cids, NEW how
    PROVE  /\ NormalizeCid[c] \in Cids /\ NormalizeCid[NormalizeCid[c]] = NormalizeCid[c]
           /\ GivenCids(c, how) \subseteq Cids
           /\ GivenCids(c, how) # {} => \E k \in GivenCids(c, how) : NormalizeCid[k] = NormalizeCid[c]
<1> DEFINE root == NormalizeCid[c]
<1>1. root \in Cids /\ NormalizeCid[root] = root
    BY FilePathsAssumption
<1>2. Closure(root, Links) \subseteq Cids /\ root \in Closure(root, Links)
    BY <1>1 DEF Closure
<1>3. GivenCids(c, how) \in {{}, {c}, Closure(root, Links)}
    BY DEF GivenCids
<1> QED
    BY <1>1, <1>2, <1>3

\* A new pin: its operation has yet to run, and a deletion that has counted
\* already is noted.
LEMMA PinInv ==
    ASSUME FilesInv, NEW r \in Requests, Pin(r)
    PROVE  FilesInv'
<1>1. PICK t \in Tasks[r] :
         /\ pins' = [pins EXCEPT ![r] = [cid |-> NormalizeCid[t.cid], kind |-> t.kind, live |-> TRUE]]
         /\ ops' = [ops EXCEPT ![r].pc = "relate", ![r].cids = GivenCids(t.cid, t.kind)]
         /\ raced' = IF \E q \in Requests : dels[q].pc = "delete" /\ pins[q].cid = NormalizeCid[t.cid]
                     THEN raced \cup {NormalizeCid[t.cid]} ELSE raced
    BY DEF Pin
<1> DEFINE c == NormalizeCid[t.cid]
<1>2. /\ ops[r].pc = "idle" /\ ops[r] \in Operations /\ FilesTypeOK
      /\ UNCHANGED <<dels, rows, faults, hidden, partial, removed>>
    BY DEF Pin, FilesInv, FilesTypeOK
<1>3. /\ t.cid \in Cids /\ t.kind \in {"upload", "retrieve"}
      /\ c \in Cids /\ NormalizeCid[c] = c
    BY FilePathsAssumption
<1>4. /\ \A q \in Requests \ {r} : pins'[q] = pins[q]
      /\ pins'[r].cid = c
      /\ pins' \in [Requests -> [cid : Cids \cup {None}, kind : {None, "upload", "retrieve"}, live : BOOLEAN]]
    BY <1>1, <1>2, <1>3 DEF FilesTypeOK
<1>5. /\ ops' \in [Requests -> Operations]
      /\ \A q \in Requests \ {r} : ops'[q] = ops[q]
      /\ ops'[r].pc = "relate" /\ ops'[r].walk = ops[r].walk
      /\ ops'[r].cids # {} => \E k \in ops'[r].cids : NormalizeCid[k] = c
    <2> DEFINE given == GivenCids(t.cid, t.kind)
               o == [ops[r] EXCEPT !.pc = "relate", !.cids = given]
    <2>1. given \subseteq Cids /\ (given # {} => \E k \in given : NormalizeCid[k] = c)
        BY <1>3, GivenShape
    <2>2. ops' = [ops EXCEPT ![r] = o]
        BY <1>1, <1>2 DEF FilesTypeOK
    <2> HIDE DEF given
    <2>3. o \in Operations /\ o.pc = "relate" /\ o.cids = given /\ o.walk = ops[r].walk
        BY <1>2, <2>1 DEF Operations
    <2> HIDE DEF o
    <2> QED
        BY <1>2, <2>1, <2>2, <2>3, OperationMoves
<1>6. /\ raced \subseteq raced' /\ raced' \subseteq Cids
      /\ \A q \in Requests : dels[q].pc = "delete" /\ pins[q].cid = c => c \in raced'
    BY <1>1, <1>2, <1>3 DEF FilesTypeOK
<1>7. ~pins[r].live /\ dels[r].pc = "idle" /\ dels[r].left = {} /\ ops[r].walk = Nowhere
    BY <1>2 DEF FilesInv, CallsOK, Writing
<1> HIDE DEF c
<1>8. FilesTypeOK'
    BY <1>2, <1>4, <1>5, <1>6 DEF FilesTypeOK
<1>9. \A q \in Requests : (Writing(q)' <=> Writing(q)) /\ ops'[q].walk = ops[q].walk
    BY <1>2, <1>5 DEF Writing
<1>10. CallsOK'
    BY <1>2, <1>3, <1>4, <1>5, <1>7, <1>9 DEF FilesInv, CallsOK, Spellings
<1>11. RowsOK'
    BY <1>2, <1>5, <1>9 DEF FilesInv, RowsOK
<1>12. ListedInv'
    <2>1. ASSUME NEW q \in Requests, NEW s \in Requests, dels'[q].pc = "delete", pins'[s].live, pins'[s].cid = pins'[q].cid
          PROVE  pins'[s].cid \in raced'
        <3>1. q # r /\ dels[q].pc = "delete" /\ pins'[q] = pins[q]
            BY <1>2, <1>4, <1>7, <2>1
        <3>2. CASE s = r
            BY <1>4, <1>6, <2>1, <3>1, <3>2
        <3>3. CASE s # r
            BY <1>4, <1>6, <2>1, <3>1, <3>3 DEF FilesInv, ListedInv
        <3> QED
            BY <3>2, <3>3
    <2>2. ASSUME NEW q \in Requests, NEW k \in Cids, pins'[q].live, Writing(q)', NormalizeCid[k] = pins'[q].cid, k \in ops'[q].walk.reached
          PROVE  Listed(q, k)'
        <3>1. q # r
            BY <1>2, <1>9, <2>2 DEF Writing
        <3>2. Listed(q, k)
            BY <1>4, <1>9, <2>2, <3>1 DEF FilesInv, ListedInv
        <3> QED
            BY <1>2, <1>4, <1>5, <1>6, <3>1, <3>2 DEF Listed
    <2>3. PinnedIsListed'
        BY <1>2, <1>4, <1>5, <1>6 DEF FilesInv, ListedInv, PinnedIsListed
    <2> QED
        BY <2>1, <2>2, <2>3 DEF ListedInv
<1>13. BrowseInv'
    <2>1. ASSUME NEW q \in Requests, NEW d \in Dirs(ops'[q].walk)
          PROVE  \/ d[2] \in removed'
                 \/ \E y \in rows' : y.cid = d[1] /\ y.path = d[2]
                 \/ ops'[q].pc = "insert" /\ ops'[q].row.cid = d[1] /\ ops'[q].row.path = d[2]
        <3>1. \/ d[2] \in removed
              \/ \E y \in rows : y.cid = d[1] /\ y.path = d[2]
              \/ ops[q].pc = "insert" /\ ops[q].row.cid = d[1] /\ ops[q].row.path = d[2]
            BY <1>9 DEF FilesInv, BrowseInv
        <3> QED
            BY <1>2, <1>5, <3>1
    <2>2. \A q \in Requests : ops'[q].pc = "insert" => ops[q].pc = "insert" /\ ops'[q].row = ops[q].row
        BY <1>5
    <2> QED
        BY <1>2, <1>9, <2>1, <2>2, BrowseKept DEF FilesInv
<1> QED
    BY <1>8, <1>10, <1>11, <1>12, <1>13 DEF FilesInv

\* A deletion comes to a point where it removes no row.
LEMMA DeletionMoves ==
    ASSUME FilesInv, NEW r \in Requests,
           pins' \in [Requests -> [cid : Cids \cup {None}, kind : {None, "upload", "retrieve"}, live : BOOLEAN]],
           \A q \in Requests : pins'[q].cid = pins[q].cid /\ (pins'[q].live => pins[q].live),
           dels' \in [Requests -> [pc : {"idle", "unpin", "count", "delete", "done"}, left : SUBSET Entries, path : Entries \cup {None}]],
           \A q \in Requests \ {r} : dels'[q] = dels[q],
           ops[r].pc # "idle",
           IsFiniteSet(dels'[r].left), \A x \in dels'[r].left : x.cid = pins[r].cid,
           dels'[r].pc = "delete" => dels'[r].path \in dels'[r].left /\ Live(pins[r].cid) = {},
           faults' \in Nat, UNCHANGED <<ops, rows, raced, hidden, partial, removed>>
    PROVE  FilesInv'
<1>1. FilesTypeOK'
    BY DEF FilesInv, FilesTypeOK
<1>2. \A q \in Requests : Writing(q)' <=> Writing(q)
    BY DEF Writing
<1>3. CallsOK'
    BY <1>2 DEF FilesInv, CallsOK, Spellings
<1>4. RowsOK'
    BY DEF FilesInv, RowsOK
<1>5. ListedInv'
    <2>1. ASSUME NEW q \in Requests, NEW s \in Requests, dels'[q].pc = "delete", pins'[s].live, pins'[s].cid = pins'[q].cid
          PROVE  pins'[s].cid \in raced'
        <3>1. CASE q = r
            BY <2>1, <3>1 DEF Live
        <3>2. CASE q # r
            BY <2>1, <3>2 DEF FilesInv, ListedInv
        <3> QED
            BY <3>1, <3>2
    <2>2. ASSUME NEW q \in Requests, NEW k \in Cids, pins'[q].live, Writing(q)', NormalizeCid[k] = pins'[q].cid, k \in ops'[q].walk.reached
          PROVE  Listed(q, k)'
        <3>1. Listed(q, k)
            BY <1>2, <2>2 DEF FilesInv, ListedInv
        <3> QED
            BY <3>1 DEF Listed
    <2>3. PinnedIsListed'
        BY DEF FilesInv, ListedInv, PinnedIsListed
    <2> QED
        BY <2>1, <2>2, <2>3 DEF ListedInv
<1>6. BrowseInv'
    <2>1. \A q \in Requests : \A d \in Dirs(ops'[q].walk) :
                \/ d[2] \in removed'
                \/ \E y \in rows' : y.cid = d[1] /\ y.path = d[2]
                \/ ops'[q].pc = "insert" /\ ops'[q].row.cid = d[1] /\ ops'[q].row.path = d[2]
        BY DEF FilesInv, BrowseInv
    <2> QED
        BY <2>1, BrowseKept DEF FilesInv
<1> QED
    BY <1>1, <1>3, <1>4, <1>5, <1>6 DEF FilesInv


\* A pin that goes makes no demand on the table.
LEMMA DeletePinInv ==
    ASSUME FilesInv, NEW r \in Requests, DeletePin(r)
    PROVE  FilesInv'
<1>1. /\ pins[r].live /\ pins' = [pins EXCEPT ![r].live = FALSE]
      /\ dels' = [dels EXCEPT ![r].pc = IF Live(pins[r].cid) = {r} THEN "unpin" ELSE "done"]
      /\ UNCHANGED <<ops, rows, faults, raced, hidden, partial, removed>>
    BY DEF DeletePin
<1>2. FilesTypeOK /\ ops[r].pc # "idle"
    BY <1>1 DEF FilesInv, CallsOK
<1>3. /\ pins' \in [Requests -> [cid : Cids \cup {None}, kind : {None, "upload", "retrieve"}, live : BOOLEAN]]
      /\ \A q \in Requests : pins'[q].cid = pins[q].cid /\ (pins'[q].live => pins[q].live)
    BY <1>1, <1>2 DEF FilesTypeOK
<1>4. /\ dels' \in [Requests -> [pc : {"idle", "unpin", "count", "delete", "done"}, left : SUBSET Entries, path : Entries \cup {None}]]
      /\ \A q \in Requests \ {r} : dels'[q] = dels[q]
      /\ dels'[r].left = dels[r].left /\ dels'[r].pc # "delete"
    BY <1>1, <1>2 DEF FilesTypeOK
<1>5. IsFiniteSet(dels[r].left) /\ \A x \in dels[r].left : x.cid = pins[r].cid
    BY DEF FilesInv, FilesTypeOK, CallsOK
<1>6. faults' \in Nat
    BY <1>1, <1>2 DEF FilesTypeOK
<1> QED
    BY <1>1, <1>2, <1>3, <1>4, <1>5, <1>6, DeletionMoves

\* The deletion of an idle request has nothing to do.
LEMMA DeletesPinned ==
    ASSUME FilesInv, NEW r \in Requests, dels[r].pc # "idle" PROVE ops[r].pc # "idle"
    BY DEF FilesInv, CallsOK

\* The rows found are those of the CID.
LEMMA UnpinInv ==
    ASSUME FilesInv, NEW r \in Requests, Unpin(r)
    PROVE  FilesInv'
<1>1. /\ dels[r].pc = "unpin" /\ FilesTypeOK /\ ops[r].pc # "idle"
      /\ UNCHANGED <<pins, ops, rows, raced, hidden, partial, removed>>
    BY DeletesPinned DEF Unpin, FilesInv
<1> DEFINE found == {x \in rows : x.cid = pins[r].cid}
<1>2. found \in SUBSET Entries /\ IsFiniteSet(found)
    <2>1. found \in SUBSET rows
        OBVIOUS
    <2> QED
        BY <1>1, <2>1, FS_Subset DEF FilesTypeOK
<1>3. IsFiniteSet(dels[r].left) /\ \A x \in dels[r].left : x.cid = pins[r].cid
    BY DEF FilesInv, FilesTypeOK, CallsOK
<1>4. /\ dels' \in [Requests -> [pc : {"idle", "unpin", "count", "delete", "done"}, left : SUBSET Entries, path : Entries \cup {None}]]
      /\ \A q \in Requests \ {r} : dels'[q] = dels[q]
      /\ dels'[r].left = found \/ dels'[r].left = dels[r].left
      /\ dels'[r].pc # "delete"
    <2>1. CASE dels' = [dels EXCEPT ![r].pc = "count", ![r].left = found]
        <3> HIDE DEF found
        <3> QED
            BY <1>1, <1>2, <2>1 DEF FilesTypeOK
    <2>2. CASE dels' = [dels EXCEPT ![r].pc = "done"]
        BY <1>1, <2>2 DEF FilesTypeOK
    <2> QED
        BY <2>1, <2>2 DEF Unpin
<1>5. IsFiniteSet(dels'[r].left) /\ \A x \in dels'[r].left : x.cid = pins[r].cid
    BY <1>2, <1>3, <1>4
<1>6. faults' \in Nat
    BY <1>1 DEF Unpin, FilesTypeOK
<1> QED
    BY <1>1, <1>4, <1>5, <1>6, DeletionMoves DEF FilesTypeOK

\* A path is only taken for deletion when no pin of its CID is live.
LEMMA CountPinsInv ==
    ASSUME FilesInv, NEW r \in Requests, CountPins(r)
    PROVE  FilesInv'
<1>1. /\ dels[r].pc = "count" /\ FilesTypeOK /\ ops[r].pc # "idle"
      /\ UNCHANGED <<pins, ops, rows, faults, raced, hidden, partial, removed>>
    BY DeletesPinned DEF CountPins, FilesInv
<1>2. IsFiniteSet(dels[r].left) /\ dels[r].left \subseteq Entries /\ \A x \in dels[r].left : x.cid = pins[r].cid
    BY DEF FilesInv, FilesTypeOK, CallsOK
<1> DEFINE moves ==
        /\ dels' \in [Requests -> [pc : {"idle", "unpin", "count", "delete", "done"}, left : SUBSET Entries, path : Entries \cup {None}]]
        /\ \A q \in Requests \ {r} : dels'[q] = dels[q]
        /\ dels'[r].left \subseteq dels[r].left
        /\ dels'[r].pc = "delete" => dels'[r].path \in dels'[r].left /\ Live(pins[r].cid) = {}
<1>3. moves
    <2>1. CASE dels' = [dels EXCEPT ![r].pc = "done"]
        BY <1>1, <2>1 DEF FilesTypeOK
    <2>2. ASSUME NEW x \in dels[r].left, Live(pins[r].cid) = {}, dels' = [dels EXCEPT ![r].pc = "delete", ![r].path = x]
          PROVE  moves
        BY <1>1, <1>2, <2>2 DEF FilesTypeOK
    <2>3. ASSUME NEW x \in dels[r].left, dels' = [dels EXCEPT ![r].left = @ \ {x}]
          PROVE  moves
        BY <1>1, <1>2, <2>3 DEF FilesTypeOK
    <2> QED
        BY <2>1, <2>2, <2>3 DEF CountPins
<1>4. IsFiniteSet(dels'[r].left)
    BY <1>2, <1>3, FS_Subset
<1>5. pins \in [Requests -> [cid : Cids \cup {None}, kind : {None, "upload", "retrieve"}, live : BOOLEAN]] /\ faults \in Nat
    BY <1>1 DEF FilesTypeOK
<1> QED
    BY <1>1, <1>2, <1>3, <1>4, <1>5, DeletionMoves

\* The row goes: no pin needs it but those noted as raced, and what is below it
\* is below a path that was deleted.
LEMMA DeletePathInv ==
    ASSUME FilesInv, NEW r \in Requests, DeletePath(r)
    PROVE  FilesInv'
<1> DEFINE x == dels[r].path
<1>1. /\ dels[r].pc = "delete" /\ FilesTypeOK /\ ops[r].pc # "idle"
      /\ rows' = {y \in rows : ~(Same(x, y) /\ x.id = y.id)}
      /\ removed' = removed \cup {x.path}
      /\ dels' = [dels EXCEPT ![r].pc = "count", ![r].left = @ \ {x}, ![r].path = None]
      /\ UNCHANGED <<pins, ops, faults, raced, hidden, partial>>
    BY DeletesPinned DEF DeletePath, FilesInv
<1>2. /\ IsFiniteSet(dels[r].left) /\ dels[r].left \subseteq Entries
      /\ x \in dels[r].left /\ \A y \in dels[r].left : y.cid = pins[r].cid
    BY <1>1 DEF FilesInv, FilesTypeOK, CallsOK
<1>3. x \in Entries /\ x.path \in Seq(Names) /\ x.cid = pins[r].cid
    <2> HIDE DEF x
    <2> QED
        BY <1>2 DEF Entries
<1> HIDE DEF x
<1>4. /\ dels' \in [Requests -> [pc : {"idle", "unpin", "count", "delete", "done"}, left : SUBSET Entries, path : Entries \cup {None}]]
      /\ \A q \in Requests \ {r} : dels'[q] = dels[q]
      /\ dels'[r].left \subseteq dels[r].left /\ dels'[r].pc = "count"
    <2> DEFINE less == dels[r].left \ {x}
               deletions == [pc : {"idle", "unpin", "count", "delete", "done"}, left : SUBSET Entries, path : Entries \cup {None}]
               o == [dels[r] EXCEPT !.pc = "count", !.left = less, !.path = None]
    <2>1. dels \in [Requests -> deletions] /\ dels' = [dels EXCEPT ![r] = o]
        BY <1>1 DEF FilesTypeOK
    <2>2. less \in SUBSET Entries /\ less \subseteq dels[r].left
        BY <1>2
    <2> HIDE DEF less
    <2>3. o \in deletions /\ o.pc = "count" /\ o.left = less
        BY <2>1, <2>2
    <2> HIDE DEF o, deletions
    <2>4. dels' \in [Requests -> deletions] /\ (\A q \in Requests \ {r} : dels'[q] = dels[q]) /\ dels'[r] = o
        BY <2>1, <2>3
    <2> QED
        BY <2>2, <2>3, <2>4 DEF deletions
<1>5. /\ rows' \subseteq rows /\ IsFiniteSet(rows') /\ IsFiniteSet(dels'[r].left)
      /\ \A y \in rows : y \in rows' \/ (y.cid = x.cid /\ y.path = x.path)
    <2>1. rows' \in SUBSET rows /\ IsFiniteSet(rows)
        BY <1>1 DEF FilesTypeOK
    <2> QED
        BY <1>1, <1>2, <1>4, <2>1, FS_Subset DEF Same
<1>6. FilesTypeOK'
    <2>1. removed' \subseteq Seq(Names)
        BY <1>1, <1>3 DEF FilesTypeOK
    <2>2. \A q \in Requests : IsFiniteSet(dels'[q].left)
        BY <1>1, <1>4, <1>5 DEF FilesTypeOK
    <2> QED
        BY <1>1, <1>4, <1>5, <2>1, <2>2 DEF FilesTypeOK
<1>7. \A q \in Requests : Writing(q)' <=> Writing(q)
    BY <1>1 DEF Writing
<1>8. CallsOK'
    BY <1>1, <1>2, <1>4, <1>7 DEF FilesInv, CallsOK
<1>9. RowsOK'
    BY <1>1, <1>5 DEF FilesInv, RowsOK
<1>10. ListedInv'
    <2>0. NormalizeCid[x.cid] = x.cid
        BY <1>1, <1>3 DEF FilesInv, CallsOK
    <2>1. ASSUME NEW q \in Requests, pins[q].live, pins[q].cid = x.cid PROVE x.cid \in raced
        BY <1>1, <1>3, <2>1 DEF FilesInv, ListedInv
    <2>2. ASSUME NEW q \in Requests, pins[q].live, NEW y \in rows, NormalizeCid[y.cid] = pins[q].cid
          PROVE  y \in rows' \/ y.cid \in raced
        BY <1>5, <2>0, <2>1, <2>2
    <2>3. ASSUME NEW q \in Requests, NEW c \in Cids, pins[q].live, NormalizeCid[c] = pins[q].cid, Listed(q, c) PROVE Listed(q, c)'
        BY <1>1, <2>2, <2>3 DEF Listed
    <2>4. ASSUME NEW q \in Requests, NEW s \in Requests, dels'[q].pc = "delete", pins'[s].live, pins'[s].cid = pins'[q].cid
          PROVE  pins'[s].cid \in raced'
        BY <1>1, <1>4, <2>4 DEF FilesInv, ListedInv
    <2>5. ASSUME NEW q \in Requests, NEW c \in Cids, pins'[q].live, Writing(q)', NormalizeCid[c] = pins'[q].cid, c \in ops'[q].walk.reached
          PROVE  Listed(q, c)'
        BY <1>1, <1>7, <2>3, <2>5 DEF FilesInv, ListedInv
    <2>6. PinnedIsListed'
        BY <1>1, <2>2 DEF FilesInv, ListedInv, PinnedIsListed
    <2> QED
        BY <2>4, <2>5, <2>6 DEF ListedInv
<1>11. BrowseInv'
    <2>1. ASSUME NEW p, Shown(p) PROVE Shown(p)'
        <3>1. CASE p \in removed
            BY <1>1, <3>1 DEF Shown
        <3>2. CASE \E y \in rows : y.path = p /\ (y.dir \/ (y.orphan /\ y.cid \in partial) \/ Pending(y))
            <4>1. PICK y \in rows : y.path = p /\ (y.dir \/ (y.orphan /\ y.cid \in partial) \/ Pending(y))
                BY <3>2
            <4>2. CASE y \in rows'
                BY <1>1, <4>1, <4>2 DEF Shown, Pending
            <4>3. CASE y.path = x.path
                BY <1>1, <4>1, <4>3 DEF Shown
            <4> QED
                BY <1>5, <4>2, <4>3
        <3> QED
            BY <2>1, <3>1, <3>2 DEF Shown
    <2>2. \A y \in rows' : \A p \in Above(y.path) : Shown(p)
        BY <1>5 DEF FilesInv, BrowseInv
    <2>3. ASSUME NEW q \in Requests, NEW d \in Dirs(ops'[q].walk)
          PROVE  /\ d \in Dirs(ops[q].walk)
                 /\ \/ d[2] \in removed'
                    \/ \E y \in rows' : y.cid = d[1] /\ y.path = d[2]
                    \/ ops'[q].pc = "insert" /\ ops'[q].row.cid = d[1] /\ ops'[q].row.path = d[2]
        <3>1. \/ d[2] \in removed
              \/ \E y \in rows : y.cid = d[1] /\ y.path = d[2]
              \/ ops[q].pc = "insert" /\ ops[q].row.cid = d[1] /\ ops[q].row.path = d[2]
            BY <1>1 DEF FilesInv, BrowseInv
        <3> QED
            BY <1>1, <1>5, <3>1
    <2> QED
        BY <1>1, <2>1, <2>2, <2>3, BrowseMoves DEF FilesInv
<1> QED
    BY <1>6, <1>8, <1>9, <1>10, <1>11 DEF FilesInv

-----------------------------------------------------------------------------
(* The theorems.                                                            *)

\* The invariant holds at the start, every step keeps it, and so it always holds.
LEMMA FilesInitInv == FilesInit => FilesInv
<1> SUFFICES ASSUME FilesInit PROVE FilesInv
    OBVIOUS
<1>1. FilesTypeOK
    <2>1. IsFiniteSet({})
        BY FS_EmptySet
    <2>2. ops \in [Requests -> Operations]
        BY NowhereShape DEF FilesInit, Operations
    <2>3. dels \in [Requests -> [pc : {"idle", "unpin", "count", "delete", "done"}, left : SUBSET Entries, path : Entries \cup {None}]]
        BY DEF FilesInit
    <2>4. pins \in [Requests -> [cid : Cids \cup {None}, kind : {None, "upload", "retrieve"}, live : BOOLEAN]]
        BY DEF FilesInit
    <2> QED
        BY <2>1, <2>2, <2>3, <2>4 DEF FilesInit, FilesTypeOK
<1>2. CallsOK
    BY DEF FilesInit, CallsOK, Writing
<1>3. RowsOK
    BY NowhereShape DEF FilesInit, RowsOK
<1>4. ListedInv
    BY DEF FilesInit, ListedInv, PinnedIsListed, Writing
<1>5. BrowseInv
    BY NowhereShape DEF FilesInit, BrowseInv
<1> QED
    BY <1>1, <1>2, <1>3, <1>4, <1>5 DEF FilesInv

LEMMA FilesNextInv == FilesInv /\ [FilesNext]_filesVars => FilesInv'
<1> SUFFICES ASSUME FilesInv, [FilesNext]_filesVars PROVE FilesInv'
    OBVIOUS
<1>1. ASSUME NEW r \in Requests, Pin(r) PROVE FilesInv'
    BY <1>1, PinInv
<1>2. ASSUME NEW r \in Requests, Operation(r) PROVE FilesInv'
    BY <1>2, RelateInv, StartInv, ExecuteInv, ComputePathsRecursiveInv, UpdateFilePathInv, InsertInv, ValidateInv DEF Operation
<1>3. ASSUME NEW r \in Requests, DeletePin(r) \/ Unpin(r) \/ CountPins(r) \/ DeletePath(r) PROVE FilesInv'
    BY <1>3, DeletePinInv, UnpinInv, CountPinsInv, DeletePathInv
<1>4. ASSUME UNCHANGED filesVars PROVE FilesInv'
    <2>1. /\ pins' = pins /\ ops' = ops /\ dels' = dels /\ rows' = rows /\ faults' = faults
          /\ raced' = raced /\ hidden' = hidden /\ partial' = partial /\ removed' = removed
        BY <1>4 DEF filesVars
    <2>2. \A p : Shown(p) => Shown(p)'
        BY <2>1 DEF Shown, Pending
    <2>3. BrowseInv'
        BY <2>1, <2>2 DEF FilesInv, BrowseInv
    <2>4. ListedInv'
        BY <2>1 DEF FilesInv, ListedInv, PinnedIsListed, Listed, Writing
    <2> QED
        BY <2>1, <2>3, <2>4 DEF FilesInv, FilesTypeOK, CallsOK, RowsOK, Writing, Spellings
<1> QED
    BY <1>1, <1>2, <1>3, <1>4 DEF FilesNext

LEMMA FilesInductive == FilesSpec => []FilesInv
    BY FilesInitInv, FilesNextInv, PTL DEF FilesSpec

\* What the operations, the deletions and the table hold.
THEOREM FilesTypeCorrect == FilesSpec => []FilesTypeOK
<1>1. FilesInv => FilesTypeOK
    BY DEF FilesInv
<1> QED
    BY <1>1, FilesInductive, PTL

\* A pin whose operation is through is listed, for any number of pins and any
\* DAG, unless it was never reached or was pinned under a deletion.
THEOREM PinnedAlwaysListed == FilesSpec => []PinnedIsListed
<1>1. FilesInv => PinnedIsListed
    BY DEF FilesInv, ListedInv
<1> QED
    BY <1>1, FilesInductive, PTL

\* Every row can be reached from the top.
THEOREM AlwaysBrowsable == FilesSpec => []Browsable
<1>1. ASSUME FilesInv PROVE Browsable
    <2> SUFFICES ASSUME NEW x \in rows, NEW p \in Above(x.path)
                 PROVE  \/ p \in removed
                        \/ \E y \in GetBreadcrumbs(x.path) :
                              y.path = p /\ (y.dir \/ (y.orphan /\ y.cid \in partial) \/ \E r \in Requests : Writing(r))
        BY DEF Browsable, Above
    <2>1. Shown(p)
        BY <1>1 DEF FilesInv, BrowseInv
    <2>2. \A y : Pending(y) => \E r \in Requests : Writing(r)
        BY <1>1, NowhereShape DEF FilesInv, CallsOK, Pending
    <2>3. p \in Prefixes(x.path) \ {<<>>}
        <3>1. x.path \in Seq(Names)
            BY <1>1 DEF FilesInv, FilesTypeOK, Entries
        <3> QED
            BY <3>1, AbovePrefix
    <2> QED
        BY <2>1, <2>2, <2>3 DEF Shown, GetBreadcrumbs
<1> QED
    BY <1>1, FilesInductive, PTL
=============================================================================
