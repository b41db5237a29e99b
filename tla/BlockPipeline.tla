---------------------------- MODULE BlockPipeline ----------------------------
(***************************************************************************)
(* One upload on its way into the store: a producer goroutine cuts the     *)
(* file or archive into blocks and puts them into a streaming blockstore,  *)
(* ProcessBlocks takes them off its bounded channel and hands them to a    *)
(* worker pool, the workers store each block in S3 and queue its metadata  *)
(* in the batcher that all uploads share, and the caller releases the      *)
(* processor in the end.  (internal/protocol: block_queue.go,              *)
(* block_processor_*.go, streaming_blockstore.go, store/batcher.go;        *)
(* internal/upload/streaming_processor.go.)                                *)
(*                                                                         *)
(* Blocks are numbered: 1 .. NumFiles are the root blocks of the files,    *)
(* Root is the directory (archive), the file's root node (file) or the     *)
(* CAR's last block.  The done tracker is the set of its interface         *)
(* (module DoneSet, which DoneTracker implements).                         *)
(***************************************************************************)
EXTENDS Naturals, FiniteSets, Sequences

CONSTANTS NumFiles,     \* blocks before the root block
          QueueSize,    \* capacity of the delivery channel (128 in the code)
          Workers,      \* size of the worker pool
          MaxRetries,   \* attempts for one block (3 in the code)
          BatchSize,    \* blocks per metadata batch (50 in the code)
          Others,       \* blocks that other uploads add to the same batcher
          Kinds,        \* which processors are explored
          Interrupts    \* "timeout" (30 minutes) and "shutdown" may happen

Root   == NumFiles + 1
Blocks == 1 .. Root

ASSUME PipelineAssumption ==
    /\ NumFiles \in Nat \ {0} /\ QueueSize \in Nat \ {0} /\ Workers \in Nat \ {0}
    /\ MaxRetries \in Nat \ {0} /\ BatchSize \in Nat \ {0}
    /\ IsFiniteSet(Others) /\ Others \intersect Nat = {}
    /\ Kinds \subseteq {"archive", "file", "car"} /\ Kinds # {}
    /\ Interrupts \subseteq {"timeout", "shutdown"}

VARIABLES
    kind,        \* which BlockProcessor the upload uses
    \* The producer goroutine (the CAR reader for a CAR).
    step,        \* index into Script(kind)
    phase,       \* "run", "put", "send", "wait", "ended", "failed", "panicked"
    dropped,     \* files of an archive whose processing failed (FileInfo.Error)
    \* DefaultStreamingBlockstore
    stream, streamClosed, pending, processed, seen, sbsClosed, processingDone,
    done,        \* the done tracker's completed CIDs
    \* BaseBlockProcessor
    procCtx,     \* the processor's context is live
    errorChan,   \* errors waiting in errorChan
    completed,   \* markCompleted has run
    \* BlockQueue
    queueCtx,    \* "live", "canceled" or "deadline"
    errChan,     \* recordError has put an error into errChan
    job,         \* state of the worker job of a block
    attempt,     \* failed attempts of the job that runs for a block
    \* ProcessBlocks and its caller
    cpc, cur, result, roots,
    interrupted, \* history: the timeout or a shutdown has happened
    \* S3, the metadata batcher and the database
    s3, batch, batchErr, db

producerVars == <<step, phase, dropped>>
sbsVars      == <<stream, streamClosed, pending, processed, seen, sbsClosed, processingDone>>
baseVars     == <<procCtx, errorChan, completed>>
queueVars    == <<queueCtx, errChan, job, attempt>>
callerVars   == <<cpc, cur, result, roots>>
storeVars    == <<s3, batch, batchErr, db>>

vars == <<kind, producerVars, sbsVars, done, baseVars, queueVars, callerVars, storeVars, interrupted>>
-----------------------------------------------------------------------------
(* What a producer does, as a list of steps.  An archive stores each file   *)
(* (CreateNode adds its blocks, Add adds the node again), reads the file    *)
(* nodes back to build the directory, stores the directory and reads it     *)
(* back as the root.  A file stores its blocks and its root node twice,     *)
(* and marks the root done itself.                                          *)
StepOf(op, b) == [op |-> op, b |-> b]

Script(k) ==
    CASE k = "archive" -> [i \in 1 .. 2 * NumFiles |-> StepOf("add", (i + 1) \div 2)]
                            \o [i \in 1 .. NumFiles |-> StepOf("get", i)]
                            \o <<StepOf("add", Root), StepOf("get", Root), StepOf("complete", Root)>>
      [] k = "file"    -> [i \in Blocks |-> StepOf("add", i)]
                            \o <<StepOf("add", Root), StepOf("complete", Root), StepOf("mark", Root)>>
      [] k = "car"     -> [i \in Blocks |-> StepOf("read", i)]

Cur == Script(kind)[step]

\* Steps of an archive up to here belong to collectFileMetadata's walk.
Walking == kind = "archive" /\ step <= 2 * NumFiles

Init ==
    /\ kind \in Kinds
    /\ step = 1 /\ phase = "run" /\ dropped = {}
    /\ stream = <<>> /\ streamClosed = FALSE /\ sbsClosed = FALSE /\ processingDone = FALSE
    /\ pending = {} /\ processed = {} /\ seen = {} /\ done = {}
    /\ procCtx = TRUE /\ errorChan = 0 /\ completed = FALSE
    /\ queueCtx = "live" /\ errChan = FALSE
    /\ job = [b \in Blocks |-> "none"] /\ attempt = [b \in Blocks |-> 0]
    /\ cpc = "next" /\ cur = 0 /\ result = "none" /\ roots = FALSE /\ interrupted = FALSE
    /\ batch = {} /\ batchErr = FALSE
    /\ \E stored \in SUBSET {1} : db = stored /\ s3 = stored   \* an earlier upload's block
-----------------------------------------------------------------------------
(* The producer.                                                            *)
\* The background goroutine ends with an error and reports it.
Fail ==
    /\ phase' = "failed"
    /\ errorChan' = errorChan + 1

Advance == step' = step + 1 /\ phase' = "run"

\* A file of an archive that cannot be stored is logged and left out; any
\* other failure ends the producer.
AddFails ==
    IF Walking
    THEN /\ dropped' = dropped \union {Cur.b}
         /\ step' = 2 * Cur.b + 1
         /\ phase' = "run"
         /\ UNCHANGED errorChan
    ELSE Fail /\ UNCHANGED <<step, dropped>>

\* The step reads input: CreateNode, the first of the two adds of a node.
Building ==
    /\ Cur.op = "add"
    /\ IF kind = "archive" THEN Walking /\ step % 2 = 1 ELSE step <= Root

\* The walk and the file processor stop at a cancelled context.
ProducerCancelled ==
    /\ phase = "run" /\ Building
    /\ ~procCtx
    /\ Fail
    /\ UNCHANGED <<kind, step, dropped, sbsVars, done, procCtx, completed, queueVars, callerVars, storeVars>>

\* Reading a file or building its node fails.  An archive whose walk itself
\* fails (its filesystem, a path, a file's info) ends instead of leaving a file out.
ReadFails ==
    /\ phase = "run" /\ Building
    /\ \/ AddFails
       \/ Fail /\ UNCHANGED <<step, dropped>>
    /\ UNCHANGED <<kind, sbsVars, done, procCtx, completed, queueVars, callerVars, storeVars>>

\* blockservice.AddBlock asks Has first: the bloom filter, the pending and the
\* processed map, then the done tracker, which is waited for.  The filter says
\* "seen" of every block put into it and, once it holds any, of others by chance.
Has ==
    /\ phase = "run" /\ Cur.op = "add"
    /\ \/ sbsClosed /\ AddFails
       \/ /\ ~sbsClosed
          /\ \/ Cur.b \notin seen /\ phase' = "put" /\ UNCHANGED <<step, dropped, errorChan>>
             \/ Cur.b \in seen \intersect (pending \union processed) /\ Advance /\ UNCHANGED <<dropped, errorChan>>
             \/ /\ seen # {} /\ Cur.b \notin pending \union processed
                /\ phase' = "wait"
                /\ UNCHANGED <<step, dropped, errorChan>>
    /\ UNCHANGED <<kind, sbsVars, done, procCtx, completed, queueVars, callerVars, storeVars>>

\* putBlock up to the send: refuse when closed or done, skip what is pending.
PutBlock ==
    /\ phase = "put"
    /\ \/ /\ sbsClosed \/ processingDone
          /\ AddFails
          /\ UNCHANGED <<pending, seen>>
       \/ /\ ~sbsClosed /\ ~processingDone
          /\ IF Cur.b \in pending
             THEN Advance /\ UNCHANGED <<pending, seen>>
             ELSE /\ pending' = pending \union {Cur.b}
                  /\ seen' = seen \union {Cur.b}
                  /\ phase' = "send" /\ UNCHANGED step
          /\ UNCHANGED <<dropped, errorChan>>
    /\ UNCHANGED <<kind, stream, streamClosed, processed, sbsClosed, processingDone, done,
                   procCtx, completed, queueVars, callerVars, storeVars>>

\* The select of putBlock.  A send on a closed channel panics, even when a
\* context is done too: select takes any ready case.
Send ==
    /\ phase = "send"
    /\ \/ /\ streamClosed
          /\ phase' = "panicked"
          /\ UNCHANGED <<step, dropped, stream, errorChan>>
       \/ /\ ~streamClosed /\ Len(stream) < QueueSize
          /\ stream' = Append(stream, Cur.b)
          /\ Advance
          /\ UNCHANGED <<dropped, errorChan>>
       \/ /\ sbsClosed \/ ~procCtx
          /\ AddFails
          /\ UNCHANGED stream
    /\ UNCHANGED <<kind, streamClosed, pending, processed, seen, sbsClosed, processingDone, done,
                   procCtx, completed, queueVars, callerVars, storeVars>>

\* DefaultStreamingBlockstore.Get while the directory is built: pending blocks
\* are handed back, processed ones are waited for, anything else is not found.
Get ==
    /\ phase = "run" /\ Cur.op = "get"
    /\ \/ Cur.b \in dropped /\ Advance /\ UNCHANGED errorChan
       \/ /\ Cur.b \notin dropped
          /\ \/ ~sbsClosed /\ Cur.b \in pending /\ Advance /\ UNCHANGED errorChan
             \/ ~sbsClosed /\ Cur.b \in processed \ pending /\ phase' = "wait" /\ UNCHANGED <<step, errorChan>>
             \/ /\ sbsClosed \/ Cur.b \notin pending \union processed
                /\ Fail /\ UNCHANGED step
    /\ UNCHANGED <<kind, dropped, sbsVars, done, procCtx, completed, queueVars, callerVars, storeVars>>

\* WaitDone returns: with true the block is read from the store behind (Has
\* only needs the answer), with false the context was cancelled.
WaitDone ==
    /\ phase = "wait"
    /\ \/ /\ Cur.b \in done
          /\ IF Cur.op = "add" \/ Cur.b \in db \intersect s3
             THEN Advance /\ UNCHANGED <<dropped, errorChan>>
             ELSE Fail /\ UNCHANGED <<step, dropped>>
       \/ /\ ~procCtx
          /\ IF Cur.op = "add" /\ Cur.b \in db
             THEN Advance /\ UNCHANGED <<dropped, errorChan>>
             ELSE AddFails
    /\ UNCHANGED <<kind, sbsVars, done, procCtx, completed, queueVars, callerVars, storeVars>>

\* Mutant of Complete: the delivery channel stays open.
CompleteKeepsChannel ==
    /\ phase = "run" /\ Cur.op = "complete"
    /\ completed' = TRUE
    /\ processingDone' = TRUE
    /\ IF step = Len(Script(kind)) THEN phase' = "ended" /\ UNCHANGED step ELSE Advance
    /\ UNCHANGED <<kind, dropped, stream, streamClosed, pending, processed, seen, sbsClosed, done,
                   procCtx, errorChan, queueVars, callerVars, storeVars>>

\* markCompleted, then ProcessingDone closes the delivery channel.
Complete ==
    /\ phase = "run" /\ Cur.op = "complete"
    /\ completed' = TRUE
    /\ processingDone' = TRUE
    /\ streamClosed' = TRUE
    /\ IF step = Len(Script(kind)) THEN phase' = "ended" /\ UNCHANGED step ELSE Advance
    /\ UNCHANGED <<kind, dropped, stream, pending, processed, seen, sbsClosed, done,
                   procCtx, errorChan, queueVars, callerVars, storeVars>>

\* FileBlockProcessor marks its root done as soon as it is queued.
MarkDone ==
    /\ phase = "run" /\ Cur.op = "mark"
    /\ seen' = seen \union {Cur.b}
    /\ done' = done \union {Cur.b}
    /\ phase' = "ended"
    /\ UNCHANGED <<kind, step, dropped, stream, streamClosed, pending, processed, sbsClosed,
                   processingDone, baseVars, queueVars, callerVars, storeVars, interrupted>>
-----------------------------------------------------------------------------
(* The worker pool.                                                         *)
Running == {b \in Blocks : job[b] \in {"started", "uploaded"}}

\* A pool worker takes a job; it does nothing when the queue's context is done.
JobStart(b) ==
    /\ job[b] = "queued"
    /\ Cardinality(Running) < Workers
    /\ job' = [job EXCEPT ![b] = IF queueCtx = "live" THEN "started" ELSE "skipped"]
    /\ UNCHANGED <<kind, producerVars, sbsVars, done, baseVars, queueCtx, errChan, attempt,
                   callerVars, storeVars>>

\* retry.Do returns the bare context error when the context is done before the
\* first attempt; isContextCanceled swallows it.
JobCancelled(b) ==
    /\ job[b] = "started" /\ attempt[b] = 0
    /\ queueCtx # "live"
    /\ job' = [job EXCEPT ![b] = "skipped"]
    /\ UNCHANGED <<kind, producerVars, sbsVars, done, baseVars, queueCtx, errChan, attempt,
                   callerVars, storeVars>>

\* Mutant of AttemptFails: the last failure cancels without recording its error.
AttemptFailsUnrecorded(b) ==
    /\ job' = [job EXCEPT ![b] = "failed"]
    /\ queueCtx' = IF queueCtx = "live" THEN "canceled" ELSE queueCtx
    /\ UNCHANGED <<errChan, attempt>>

\* A failed attempt is retried while the context is live; then recordError
\* keeps the first error and cancels the queue's context.
AttemptFails(b) ==
    IF queueCtx = "live" /\ attempt[b] + 1 < MaxRetries
    THEN /\ attempt' = [attempt EXCEPT ![b] = @ + 1]
         /\ job' = [job EXCEPT ![b] = "started"]
         /\ UNCHANGED <<queueCtx, errChan>>
    ELSE /\ job' = [job EXCEPT ![b] = "failed"]
         /\ errChan' = TRUE
         /\ queueCtx' = IF queueCtx = "live" THEN "canceled" ELSE queueCtx
         /\ attempt' = [attempt EXCEPT ![b] = 0]

\* onPersisted: a streaming processor's block is done once AddBlock returned.
JobSucceeds(b) ==
    /\ job' = [job EXCEPT ![b] = "ok"]
    /\ IF kind = "car"
       THEN UNCHANGED <<done, seen>>
       ELSE done' = done \union {b} /\ seen' = seen \union {b}
    /\ attempt' = [attempt EXCEPT ![b] = 0]
    /\ UNCHANGED <<queueCtx, errChan>>

\* AddBlock: a block the store has already is not put again; else upload it.
UploadObject(b) ==
    /\ job[b] = "started"
    /\ \/ b \in db /\ JobSucceeds(b) /\ UNCHANGED s3
       \/ /\ b \notin db
          /\ s3' = s3 \union {b}
          /\ job' = [job EXCEPT ![b] = "uploaded"]
          /\ UNCHANGED <<done, seen, queueCtx, errChan, attempt>>
       \/ b \notin db /\ AttemptFails(b) /\ UNCHANGED <<s3, done, seen>>
    /\ UNCHANGED <<kind, producerVars, stream, streamClosed, pending, processed, sbsClosed,
                   processingDone, baseVars, callerVars, batch, batchErr, db>>

\* flushLocked: the batch is taken, and lost if BatchPin fails.
FlushOK(blocks)   == batch' = {} /\ db' = db \union blocks /\ UNCHANGED batchErr
FlushFail(blocks) == batch' = {} /\ batchErr' = TRUE /\ UNCHANGED db

\* metadataBatcher.Add with its error made sticky by an earlier failed flush;
\* a full batch is flushed with the caller's context.
BatcherAdd(b) ==
    /\ job[b] = "uploaded"
    /\ LET full == batch \union {b}
       IN \/ /\ batchErr
             /\ AttemptFails(b)
             /\ UNCHANGED <<batch, batchErr, db, done, seen>>
          \/ /\ ~batchErr /\ Cardinality(full) < BatchSize
             /\ batch' = full
             /\ JobSucceeds(b)
             /\ UNCHANGED <<batchErr, db>>
          \/ /\ ~batchErr /\ Cardinality(full) >= BatchSize
             /\ queueCtx = "live"
             /\ FlushOK(full)
             /\ JobSucceeds(b)
          \/ /\ ~batchErr /\ Cardinality(full) >= BatchSize
             /\ FlushFail(full)
             /\ AttemptFails(b)
             /\ UNCHANGED <<done, seen>>
    /\ UNCHANGED <<kind, producerVars, stream, streamClosed, pending, processed, sbsClosed,
                   processingDone, baseVars, callerVars, s3>>

\* Other uploads use the same batcher: they fill it and flush it, with theirs
\* and our blocks in it.
OtherAdd(o) ==
    /\ o \notin batch \union db /\ ~batchErr
    /\ LET full == batch \union {o}
       IN \/ Cardinality(full) < BatchSize /\ batch' = full /\ UNCHANGED <<batchErr, db>>
          \/ Cardinality(full) >= BatchSize /\ (FlushOK(full) \/ FlushFail(full))
    /\ UNCHANGED <<kind, producerVars, sbsVars, done, baseVars, queueVars, callerVars, s3>>

OtherFlush ==
    /\ batch # {} /\ Others # {}
    /\ FlushOK(batch) \/ FlushFail(batch)
    /\ UNCHANGED <<kind, producerVars, sbsVars, done, baseVars, queueVars, callerVars, s3>>
-----------------------------------------------------------------------------
(* ProcessBlocks and the release of its processor.                          *)
Streaming == kind # "car"

\* The deferred bp.release: the context is cancelled, running jobs finish and
\* queued ones are abandoned.
ReleaseQueue ==
    /\ queueCtx' = IF queueCtx = "live" THEN "canceled" ELSE queueCtx
    /\ job' = [b \in Blocks |-> IF job[b] = "queued" THEN "skipped" ELSE job[b]]
    /\ UNCHANGED <<errChan, attempt>>

Return(r) == cpc' = "stopping" /\ result' = r

\* Next takes an entry off the channel; MarkBlockProcessed first deletes it
\* from the pending map ...
TakeBlock ==
    /\ cpc = "next" /\ Streaming
    /\ stream # <<>>
    /\ cur' = Head(stream)
    /\ stream' = Tail(stream)
    /\ pending' = pending \ {Head(stream)}
    /\ cpc' = "mark"
    /\ UNCHANGED <<kind, producerVars, streamClosed, processed, seen, sbsClosed, processingDone,
                   done, baseVars, queueVars, result, roots, storeVars>>

\* ... and then, under another lock, enters it in the processed map.
MarkBlockProcessed ==
    /\ cpc = "mark"
    /\ processed' = processed \union {cur}
    /\ cpc' = "queue"
    /\ UNCHANGED <<kind, producerVars, stream, streamClosed, pending, seen, sbsClosed,
                   processingDone, done, baseVars, queueVars, cur, result, roots, storeVars>>

\* CARBlockProcessor.Next reads from the file itself.
ReadCAR ==
    /\ cpc = "next" /\ ~Streaming
    /\ \/ /\ step <= Len(Script(kind))
          /\ cur' = Cur.b /\ step' = step + 1 /\ cpc' = "queue"
          /\ UNCHANGED <<result, queueVars>>
       \/ /\ step <= Len(Script(kind))         \* a read error
          /\ Return("err")
          /\ ReleaseQueue /\ UNCHANGED <<cur, step>>
       \/ /\ step > Len(Script(kind))
          /\ cpc' = "stopwait" /\ UNCHANGED <<cur, step, result, queueVars>>
    /\ UNCHANGED <<kind, phase, dropped, sbsVars, done, baseVars, roots, storeVars>>

\* Next's other cases: the channel is closed and drained, the context is done,
\* or the producer reported an error.
NextEnds ==
    /\ cpc = "next" /\ Streaming
    /\ \/ /\ stream = <<>> /\ streamClosed /\ errorChan = 0
          /\ cpc' = "stopwait" /\ UNCHANGED <<result, queueVars, errorChan>>
       \/ /\ ~procCtx
          /\ Return("err") /\ ReleaseQueue /\ UNCHANGED errorChan
       \/ /\ errorChan > 0
          /\ errorChan' = errorChan - 1
          /\ Return("err") /\ ReleaseQueue
    /\ UNCHANGED <<kind, producerVars, sbsVars, done, procCtx, completed, cur, roots, storeVars>>

\* queueBlock refuses when the queue's context is done, and the loop ends as if
\* the input had; else the pool gets the job, and a CAR's block is done now.
QueueBlock ==
    /\ cpc = "queue"
    /\ cur' = 0
    /\ IF queueCtx = "live"
       THEN /\ job' = [job EXCEPT ![cur] = "queued"]
            /\ done' = IF Streaming THEN done ELSE done \union {cur}
            /\ cpc' = "next"
       ELSE cpc' = "stopwait" /\ UNCHANGED <<job, done>>
    /\ UNCHANGED <<kind, producerVars, sbsVars, baseVars, queueCtx, errChan, attempt,
                   result, roots, storeVars>>

\* Mutant of StopWait: the queued jobs are abandoned, as Stop does.
StopAbandons ==
    /\ cpc = "stopwait"
    /\ Running = {}
    /\ job' = [b \in Blocks |-> IF job[b] = "queued" THEN "skipped" ELSE job[b]]
    /\ cpc' = "flush"
    /\ UNCHANGED <<kind, producerVars, sbsVars, done, baseVars, queueCtx, errChan, attempt,
                   cur, result, roots, storeVars>>

\* wp.StopWait: every queued job has run.
StopWait ==
    /\ cpc = "stopwait"
    /\ \A b \in Blocks : job[b] \notin {"queued", "started", "uploaded"}
    /\ cpc' = "flush"
    /\ UNCHANGED <<kind, producerVars, sbsVars, done, baseVars, queueVars, cur, result, roots, storeVars>>

\* The flush, with a context that cannot be cancelled.
Flush ==
    /\ cpc = "flush"
    /\ \/ batch = {} /\ cpc' = "check" /\ UNCHANGED <<result, batch, batchErr, db, queueVars>>
       \/ batch # {} /\ FlushOK(batch) /\ cpc' = "check" /\ UNCHANGED <<result, queueVars>>
       \/ batch # {} /\ FlushFail(batch) /\ Return("err") /\ ReleaseQueue
    /\ UNCHANGED <<kind, producerVars, sbsVars, done, baseVars, cur, roots, s3>>

\* The error check: a recorded error wins; a context error is taken for a
\* cancellation whatever it is, and the upload counts as processed.
Check ==
    /\ cpc = "check"
    /\ IF errChan THEN Return("err") /\ ReleaseQueue
                  ELSE cpc' = "roots" /\ UNCHANGED <<result, queueVars>>
    /\ UNCHANGED <<kind, producerVars, sbsVars, done, baseVars, cur, roots, storeVars>>

\* Roots: a CAR's header names them, a completed processor knows them; an
\* archive in progress tries to read the directory back.
RootStored == kind = "archive" /\ step > 3 * NumFiles + 1

GetRoots ==
    /\ cpc = "roots"
    /\ \/ /\ kind = "car" \/ completed
          /\ roots' = TRUE
       \/ /\ Streaming /\ ~completed /\ ~RootStored
          /\ roots' = FALSE
       \/ /\ ~completed /\ RootStored
          /\ \/ Root \in pending /\ roots' = TRUE
             \/ Root \in done \ pending /\ roots' = (Root \in db \intersect s3)
             \/ Root \notin pending \union processed /\ roots' = FALSE
             \/ ~procCtx /\ roots' = FALSE
    /\ Return("ok")
    /\ ReleaseQueue
    /\ UNCHANGED <<kind, producerVars, sbsVars, done, baseVars, cur, storeVars>>

\* Mutant of StopQueue: every processor closes its blockstore first.
StopQueueStoreFirst ==
    /\ cpc = "stopping"
    /\ Running = {}
    /\ cpc' = IF Streaming THEN "closeStore" ELSE "released"
    /\ UNCHANGED <<kind, producerVars, sbsVars, done, baseVars, queueVars, cur, result, roots, storeVars>>

\* wp.Stop waits for the running jobs, then the caller's deferred Release runs.
StopQueue ==
    /\ cpc = "stopping"
    /\ Running = {}
    /\ cpc' = CASE kind = "archive" -> "closeStore"
                [] kind = "file"    -> "closeBase"
                [] kind = "car"     -> "released"
    /\ UNCHANGED <<kind, producerVars, sbsVars, done, baseVars, queueVars, cur, result, roots, storeVars>>

\* DefaultStreamingBlockstore.Close in its two observable steps: mark closed
\* and cancel, then close the channel and drop the maps.
CloseStore ==
    /\ cpc = "closeStore"
    /\ sbsClosed' = TRUE
    /\ cpc' = "closeChannel"
    /\ UNCHANGED <<kind, producerVars, stream, streamClosed, pending, processed, seen,
                   processingDone, done, baseVars, queueVars, cur, result, roots, storeVars>>

CloseChannel ==
    /\ cpc = "closeChannel"
    /\ streamClosed' = TRUE
    /\ pending' = {} /\ processed' = {}
    /\ cpc' = IF kind = "archive" THEN "closeBase" ELSE "released"
    /\ UNCHANGED <<kind, producerVars, stream, seen, sbsClosed, processingDone, done, baseVars,
                   queueVars, cur, result, roots, storeVars>>

\* BaseBlockProcessor.Close cancels the processor's context ...
CloseBase ==
    /\ cpc = "closeBase"
    /\ procCtx' = FALSE
    /\ cpc' = "waitProducer"
    /\ UNCHANGED <<kind, producerVars, sbsVars, done, errorChan, completed, queueVars,
                   cur, result, roots, storeVars>>

\* ... and waits for the producer.
WaitProducer ==
    /\ cpc = "waitProducer"
    /\ phase \in {"ended", "failed"}
    /\ cpc' = IF kind = "archive" THEN "released" ELSE "closeStore"
    /\ UNCHANGED <<kind, producerVars, sbsVars, done, baseVars, queueVars, cur, result, roots, storeVars>>
-----------------------------------------------------------------------------
\* The queue's 30-minute timeout.
Timeout ==
    /\ "timeout" \in Interrupts
    /\ queueCtx = "live" /\ result = "none"
    /\ queueCtx' = "deadline" /\ interrupted' = TRUE
    /\ UNCHANGED <<kind, producerVars, sbsVars, done, baseVars, errChan, job, attempt, callerVars, storeVars>>

\* The portal shuts down: both contexts come from the component's.
Shutdown ==
    /\ "shutdown" \in Interrupts
    /\ procCtx /\ result = "none"
    /\ procCtx' = FALSE /\ interrupted' = TRUE
    /\ queueCtx' = IF queueCtx = "live" THEN "canceled" ELSE queueCtx
    /\ UNCHANGED <<kind, producerVars, sbsVars, done, errorChan, completed, errChan, job, attempt,
                   callerVars, storeVars>>

Producer ==
    /\ Streaming
    /\ UNCHANGED interrupted
    /\ \/ ProducerCancelled \/ ReadFails \/ Has \/ PutBlock \/ Send
       \/ Get \/ WaitDone \/ Complete \/ MarkDone

Worker(b) ==
    /\ UNCHANGED interrupted
    /\ JobStart(b) \/ JobCancelled(b) \/ UploadObject(b) \/ BatcherAdd(b)

Pool == \E b \in Blocks : Worker(b)

Consumer ==
    /\ UNCHANGED interrupted
    /\ \/ TakeBlock \/ MarkBlockProcessed \/ ReadCAR \/ NextEnds \/ QueueBlock
       \/ StopWait \/ Flush \/ Check \/ GetRoots
       \/ StopQueue \/ CloseStore \/ CloseChannel \/ CloseBase \/ WaitProducer

OtherUpload ==
    /\ UNCHANGED interrupted
    /\ OtherFlush \/ \E o \in Others : OtherAdd(o)

\* Nothing happens after the release, nor after a panic (it ends the process).
Terminated == (cpc = "released" \/ phase = "panicked") /\ UNCHANGED vars

Next ==
    \/ Producer
    \/ Consumer
    \/ Pool
    \/ OtherUpload
    \/ Timeout \/ Shutdown
    \/ Terminated

Spec == Init /\ [][Next]_vars

\* The Go scheduler runs every goroutine that can run.  Nothing forces other
\* uploads, the timeout or a shutdown.
FairSpec == Spec /\ WF_vars(Producer) /\ WF_vars(Consumer) /\ WF_vars(Pool)
-----------------------------------------------------------------------------
TypeOK ==
    /\ kind \in Kinds
    /\ step \in 1 .. 3 * NumFiles + 4
    /\ phase \in {"run", "put", "send", "wait", "ended", "failed", "panicked"}
    /\ dropped \subseteq 1 .. NumFiles
    /\ stream \in Seq(Blocks) /\ Len(stream) <= QueueSize
    /\ pending \subseteq Blocks /\ processed \subseteq Blocks
    /\ seen \subseteq Blocks /\ done \subseteq Blocks
    /\ {streamClosed, sbsClosed, processingDone, procCtx, completed, errChan, roots,
        batchErr, interrupted} \subseteq BOOLEAN
    /\ errorChan \in 0 .. 1
    /\ queueCtx \in {"live", "canceled", "deadline"}
    /\ job \in [Blocks -> {"none", "queued", "started", "uploaded", "ok", "failed", "skipped"}]
    /\ attempt \in [Blocks -> 0 .. MaxRetries - 1]
    /\ cpc \in {"next", "mark", "queue", "stopwait", "flush", "check", "roots", "stopping",
                "closeStore", "closeChannel", "closeBase", "waitProducer", "released"}
    /\ cur \in Blocks \union {0}
    /\ result \in {"none", "ok", "err"}
    /\ s3 \subseteq Blocks
    /\ batch \subseteq Blocks \union Others /\ db \subseteq Blocks \union Others

Stored(b) == b \in db /\ b \in s3

Succeeded == result = "ok" /\ roots

\* An upload that ProcessBlocks reports as processed, with a root, has every
\* block that was not dropped in S3 and in the database, as long as nothing
\* interrupted it and no flush of the shared batcher failed.
SuccessMeansStored ==
    Succeeded /\ ~interrupted /\ ~batchErr => \A b \in Blocks \ dropped : Stored(b)

\* An error of a pool worker is never lost: no result "ok" with a failed job.
FailedJobMeansError == result = "ok" => \A b \in Blocks : job[b] # "failed"

\* Only an archive's producer can send on the closed delivery channel, and only
\* when it still runs while the processor is released.
NoSendOnClosedChannel == phase = "panicked" => kind = "archive" /\ result # "none"

\* The bloom filter took a block for one it has seen, and Has waits in the done
\* tracker for a block that nobody put: only a cancelled context ends the wait.
Misled == phase = "wait" /\ Cur.op = "add" /\ Cur.b \notin seen

\* Without a failed block, an interruption and a false positive of the bloom
\* filter, ProcessBlocks returns and the processor is released.
Terminates == <>(cpc = "released" \/ errChan \/ interrupted \/ phase = "panicked" \/ Misled)
=============================================================================
