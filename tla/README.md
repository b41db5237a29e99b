# Verification of portal-plugin-ipfs

TLA+ specifications of the IPFS plugin of the Lume portal: what is uploaded or pinned, where it is
recorded, and what the concurrent parts of the plugin promise each other. Paths below are relative to
`src/internal/` unless they start with `src/`.

## The system

The plugin runs inside the portal process. Users reach it through an HTTP API; long work is done by
workflow operations that the portal's workflow engine starts and retries; blocks live in an S3 object
store, and everything about them in a SQL database. No transaction spans two of these, and most of the
difficulty is there.

| Part | State it keeps | Operations | What makes it correct |
|---|---|---|---|
| Done tracker (`protocol/done_tracker.go`) | completed CIDs, waiters' channels | `Done`, `WaitDone`, `IsDone`, `Reset` | no wakeup is lost, no channel is closed twice, entries do not leak |
| Block pipeline (`protocol/block_queue.go`, `block_processor_*.go`, `streaming_blockstore.go`, `upload/streaming_processor.go`, `store/batcher.go`) | delivery channel, pending and processed maps, worker pool, contexts, the metadata batch shared by all uploads | put, get, take, process, flush, release | a successful upload is stored completely; errors surface; everybody ends |
| Pin service and pinning API (`service/pin/pin.go`, `api/api_pins.go`) | `ipfs_pins` rows, the portal's pins, billing events | add, replace, delete, update status | the three ledgers agree |
| Pin and upload workflows (`protocol/op_*.go`, `service/upload/upload.go`), quota (`quota/quota.go`) | workflow data, reservations | Retrieve, Store, Scan, Confirm, Publish, PostUpload, TUS upload | reservations are settled or released; a pinned record is backed by a pin |
| Block store, metadata store, downloader, virtual store (`protocol/store/`) | S3 objects, block rows with readiness, links, in-flight downloads | put, get, delete, pin, adopt, prefetch | a ready block is readable; a shared download never serves a stale error |
| DAG walk (`protocol/dag/walk.go`) | visited set | walk | visits what is reachable, reports errors as documented |
| File manager and file path operation (`service/file_manager/`, `protocol/op_file_path.go`) | `file_paths` rows | compute paths, smart delete | every pinned CID has a path |
| Archive tree (`upload/streaming_processor.go`, `upload/common/directory_utils.go`) | directory nodes | build bottom up | a parent links the final CIDs of its children |
| Provider, reprovider, composite routing (`protocol/ipfs/`) | announcement times, trigger channel | announce stale CIDs | a CID recorded as announced was announced |
| Bitswap filters and peer tracker (`protocol/ipfs/want_*.go`, `peer_tracker.go`) | rate limiters, counters | admit or deny wants | limits hold and admitted peers get their share |
| Website service, janitor, HNS (`service/website/`) | websites, HNS domains | create, update, delete, block, validate, check | the status reflects what was decided last; DNS and IPNS follow the target |
| DNS service (`service/dns/`, PowerDNS client) | zones in the database and in PowerDNS, records | create, restore, delete, validate, import | the two stores agree; a zone in use is not deleted |
| IPNS keys and republisher (`service/ipns_key/`) | key rows with the last published CID | create, delete, publish, republish | the network ends up with the CID published last |
| API, DTOs, configuration, migrations, metrics | none of their own | | |

How they interact. An upload handler hands a reader to a *block processor*; its producer goroutine
puts blocks into the streaming blockstore, whose bounded channel `ProcessBlocks` drains into a worker
pool; a worker stores the block in S3 and queues its metadata in the batcher; the done tracker tells
the producer when it may read a block back. `POST /pins` creates a record and starts a workflow that
fetches the DAG (Retrieve), and pins each block in the portal and marks the record pinned (Confirm);
uploads do the same in PostUpload. `DELETE /pins` deletes the record in a transaction and unpins
afterwards. Websites point to pins or to IPNS keys; the janitor checks them every minute; the
reprovider announces what is ready and pinned.

What is hard: goroutines that wait for each other across two contexts; a batch shared by uploads that
know nothing of each other; state read in one transaction and acted on after it; operations that are
retried by the workflow engine, and transactions that are retried inside a call; whole rows saved from
copies read earlier; and errors in the middle of a sequence of calls to four different services.
`PROJECT.json` lists each such place under `hazards`.

## Modules

| Module | Models |
|---|---|
| `DoneSet` | what the `DoneTracker` interface promises: a set of done CIDs and calls that return |
| `DoneTracker` | `DefaultDoneTracker`: every section under its mutex, every channel close and every select is a step; implements `DoneSet` |
| `BlockPipeline` | one archive, file or CAR upload from the reader to the database, with the done tracker as the set of its interface |
| `PinService` | pin records, portal pins and billing under concurrent API calls |
| `PinWorkflows`, `MCPinWorkflows`, `PinWorkflowsProofs` | extends `PinService` with the operations that pin content, their reservations, failures and retries; its instance; the theorems of both |
| `Blocks`, `MCBlocks`, `BlocksProofs` | objects, block rows, links and UnixFS names under uploads, retrievals, deletions and restarts; its theorems |
| `Downloader`, `MCDownloader` | the in-flight map, priority queue, workers and prefetching of the block downloader |
| `BlockWaitsProofs` | the theorems of `DoneTracker` and `Downloader` |
| `BitswapServing`, `MCBitswapServing`, `BitswapServingProofs` | serving blocks to peers: request tracker, want filter, quota check, attribution, disconnect listeners; its theorems |
| `Reprovider` | the reprovider's loop, both providers, the trigger and the announcement times |
| `FilePaths`, `MCFilePaths` | the file manager's table, the operation that fills it and the deletion that empties it |
| `UploadProofs` | the theorems of `BlockPipeline` and `FilePaths` |
| `Websites`, `MCWebsites`, `WebsitesProofs` | websites with their zone, DNSLink, IPNS key, HNS name and status, under users, administrator and janitor; its theorems |
| `IpnsKeys` | IPNS key rows, the records on the network, publications, the republisher and key deletion |
| `RebroadcastProofs` | the theorems of `Reprovider` and `IpnsKeys` |
| `DnsZones`, `MCDnsZones` | DNS zones as rows and as PowerDNS zones, under calls of users, websites and the janitor |
| `ZoneRecords`, `MCZoneRecords` | the record sets and DNSSEC keys of one zone, with record calls and zone file imports |
| `DnsZonesProofs` | the theorems of `DnsZones` and `ZoneRecords` |

An `MC` module gives the constants that need more than a value in a `.cfg`: a small DAG, requests,
symmetries. The other modules are instantiated by their `.cfg` alone. A proof module for two components
extends both, so the names that both would define carry the component's name in one of them
(`IpnsSpec`, `RecordsSpec`, `DownloaderSpec`, `FilesSpec`).

Two conventions run through the modules. A step is what happens between two points at which another
goroutine, transaction or request can come in; what a transaction or a section under a lock does is one
step. And where the code is known to let two stores part, a history variable (`blame`, `excuse`,
`raced`, `marked`, `others` and the like) records at that very step which of the known ways it was, and
the invariants say that there is *no other*: a new way would show as a state without an excuse.

**DoneTracker.** `completed`, `present` (keys of the waiter map), `entryDone` and `chans` (a
`cidWaiter`), `closed` (channels) are the struct's fields; `closing` is the local `waitersToClose` of a
`Done` that has released the lock, `callPc` and `markPc` are program counters. `Done` is the section
under the lock, `CloseOne` one close after it. A cancelled `WaitDone` takes the lock a second time
(`Cancelled`, then `Unregister`), which is where a `Done` can slip in. `Reset` throws waiters away by
design; `dropped` remembers whose channel went, and the wakeup properties exclude those calls.

**BlockPipeline.** The producer follows a script of steps per kind of upload (`add`, `get`,
`complete`, `mark`; `read` for a CAR); `phase` says where inside a step it is. `stream` is the delivery
channel, `pending`, `processed` and `seen` the maps and the bloom filter of the streaming blockstore,
`job` and `attempt` the pool, `cpc` the consumer's place in `ProcessBlocks` and, after it, in `Release`.
`procCtx` and `queueCtx` are the two contexts whose separation decides who learns of an error. `batch`
is shared with `Others`, the blocks of other uploads: their flush takes ours with it, and a failing
flush loses both (`batchErr`). The bloom filter answers "seen" for every block put into it and, once it
holds one, for any other block by chance: `Has` then waits in the done tracker for a block that nobody
put (`Misled`), and only a cancelled context ends the wait. A file of an archive that cannot be read is
left out (`dropped`); an error of the walk itself ends the producer. Blocks have no content.

**PinService and PinWorkflows.** `rows` is the table (a request ID is an index, deletion keeps the row),
`core` the portal's pins, `billed` pinned minus unpinned events. A call's record holds what `DeletePin`
keeps across its transaction and its retries (`loaded`, `unpin`). A job is a workflow request: `res` has
the reservation of each block, `todo` and `put` the blocks that `ProcessUpload` has not and has pinned,
`attempt` the engine's retries, `left` what a Retrieve that succeeded still has reserved and `unread` the
children that it reserved and could not read back. The quota plugin, the portal's pin service and the
workflow engine are external; each of their calls may succeed or fail. The ledgers part in a few known
ways, which `blame` records per key: two deletions that overlap, a replacement, a portal call that fails
after the commit, an attempt abandoned between pin and record, a Confirm without CIDs, and the pins of
child blocks, which nothing ever removes.

**Blocks.** `row` is a block's metadata (a block that is linked to before it is stored has a placeholder
that is not ready), `link` the rank of each possible link row's id, 0 where there is no row, `node` the
name in its UnixFS node, `object` the blocks with data, `batch` the batcher's. A job is an upload or a
retrieval; a retrieval walks the DAG twice, once to plan and once to store, and either walk may miss
nodes, because errors are ignored (`Walks`); then every planned child is read again, the store step
declares the planned blocks ready and the confirm step requires them. `Unpin` and `DeleteObject` are the
two halves of `DeleteBlock`. A restart loses the batch and the jobs. Failing writes of the batcher are in
`BlockPipeline`.

**Downloader.** `resp` is the in-flight map, `queue` the heap in the order of the timestamps, `worker`
and `getter` the goroutines, `related` the prefetching calls under way. A `Get` keeps the response it
found whatever becomes of the map. A worker sleeps on the condition variable; one signal wakes one.
`BlockSiblings` and `BlockChildren` are queries over the rows of the links: ordered by index and cut off at
the limit, rows of equal index in any order. `Prefetch` is a step of its own, after the answer, because
`doDownloadTask` looks at the priority without the downloader's lock, so that a `Get` that comes in
between can still set off the prefetching.

**BitswapServing.** `requests` is the tracker (which address wants which block), `limiterOf` and
`buckets` the filter's limiters, so that a limiter removed from the map and still held by a message is
told apart from the new one; `cleanup` has the calls of the two disconnect listeners that are due.
A message goes through tracer, filter and engine, a read through the quota check, the download, the
attribution and the bill; each lock is one step. The check passes when one of `Pinners` has room, the bill
goes to the `Uploader`, who need not be the one with room, nor a pinner; `lent` counts the reads that passed
although the uploader had none. Bitswap's message loop, its engine and the clock that
refills the limiters are external.

**Reprovider.** `last` is the announcement time of a block as a rank among those in the table, `cutoff`
the rank up to which they are older than the interval, `trigger` the channel of one place, `pc` and
`sleep` where `Run` is and how long it sleeps next. `fullrt` chooses between the provider that announces
a batch at once and the one that goes key by key and may fail for some. A shutdown may come between any
two steps.

**FilePaths.** `rows` is `ipfs_file_paths`, `ops` the file path operations, `dels` the part of `DeletePin`
that deletes paths, in its transactions. The recursion of `ComputePathsRecursive` is the `stack` of a
walk: the directories that are open, each with the children it has left and the size counted so far;
`processed` is the code's map, `orphans` what `Execute` lists at the end, `reached` (a history) what has
been listed. A pin, a block and a link have CIDs of version 1 (`NormalizeCid`), but the operation of an
upload is given the root as the CAR file spells it. A step is one access to the database: `Visit` and
`CreateOrphanEntry` list a block, `UpdateFilePath` ends a directory, and `CreateFilePath`'s second
transaction is a step of its own (`Insert`) when another operation could come in between. A path is the
sequence of its names. One access of an operation may fail, and a path may be too long for its column;
both are skipped or end the operation, as in the code.

**Websites.** `site` has the rows, `zone` and `rec` the zones and the DNSLink records in them (a subdomain
is put into its parent's zone), `key` the CID last published under a domain's own key, `publishing` the
publications in the background, `hns` the zone, record and row of an HNS name, `pinned` the CIDs that
validation finds pinned. A call's `row` is its copy, which `CreateWebsite`, the validation, the
administrator's block and the janitor save whole and the others save by columns. `want` and `asked` are
what was acknowledged and asked for last. `excuse` has, per domain: `Failed` (a request or a write
failed), `Overlap` (calls overlapped on it; so do two calls for the HNS name, on whichever domains),
`Saves` (one of them saves whole rows), `Retry` (the transaction of an update was tried twice), `Moved`
(the domain changed), `Switched` (from one IPNS key to another: the DNS update is skipped,
`website.go:667`), `DeadZone` (joined a zone that is deleted), `Unhosted` (a token renewed with hosting
off, `website.go:1228`). One user, one HNS name, one change per request; tokens and timestamps are left
out, and so are refused and no-op requests and creation with a key as target. Any call may fail at any
step; a run may bound this with `OneFault`. The janitor loads a row and validates it.

**IpnsKeys.** `keys` has the rows (deletion keeps them), `record` what the network serves. A member of
`pubs` is a `PublishWithKey` call, of an API call or of the goroutine that `publishCIDAsync` starts: it
reads the private key, publishes, writes the row, and each of these may fail. `PutValue` is the composite
value store's: the DHT's answer counts, and after an error pubsub may have the record all the same.
`sweep` is what one cycle of the republisher has read and not yet broadcast. `pointing`, the keys that
active websites have as targets, is what `DeleteKey` counts; websites change it freely.

**DnsZones.** `zone` is the row of a domain as it was spelled, live or soft-deleted, `pdns` and `record`
what PowerDNS has. A domain may be stored with its final dot or without it (HNS rows are stored with it)
and in any letter case, and rows are looked up by the raw spelling; PowerDNS knows one name (`Canonical`)
for all spellings, and answers the creation of a zone it has with that zone. Rows of several spellings,
and of several users, therefore share a zone there. A call's `copy` is the row it read last:
`ValidateNameservers` and `UpdateZone` save it whole, after a DNS lookup or at the end of a transaction.
`Saved` is gorm's `Save`, whose update finds no deleted row and falls back to an insert that overwrites. A
PowerDNS request is carried out, refused without notice (the client ignores the status of a delete and of
a patch), fails, or fails after it was carried out. `excuse` names, per name, what has gone wrong: a
failed request or write, a deletion that overlapped with another call, or one that took the zone while the
row of another spelling was alive (`Shared`).

**ZoneRecords.** `rrsets` is what PowerDNS holds of one zone by full name and type, `keys` its DNSSEC
keys, `call` the request a client is in the middle of, with the record sets an import read at its start.
A name is the sequence of its labels and a text the sequence of its bytes, because completing and
stripping the domain, quoting and unquoting TXT, and taking the first byte of a zone file's value are
what decides the result. `dotted` says whether the zone's domain was stored with its final dot. The service
tells upper and lower case apart and PowerDNS does not: `SpelledKey` is how the service names an RRset,
`Key` how PowerDNS does (`LowerCase`). PowerDNS may refuse any change (`WriteEntryRefused`,
`DeleteRefused`, `PurgeRefused`: an invalid value or name, a record of another type in the way, a server
error), and the client goes on as if it were made, because it never looks at the status; `refused` is the
history of it.

## Runs

| Run | Properties | What they say |
|---|---|---|
| `done_tracker` | `NoDoubleClose`, `NoLostWakeup`, `MapsAgree`; `DoneWakesWaiter` (liveness); `ImplementsDoneSet` (refinement) | no panic, no waiter left behind, no entry left over, and the tracker is the set its interface promises |
| `pipeline` | `SuccessMeansStored`, `FailedJobMeansError`, `NoSendOnClosedChannel`; `Terminates` (liveness) | an upload that succeeds is stored completely, a block that fails is reported, only an archive's producer that outlives its consumer can send on the closed channel, everybody ends unless a block failed, the upload was interrupted or the bloom filter took a block nobody put for one it had seen |
| `pinning` | `PinnedIsHeld`, `DeletedIsReleased`, `HeldIsBilled`, `AttemptsEndClean` | records, portal pins and billing agree but for the ways above; no attempt ends with a reservation, but for Retrieve's failing fetch, and for the download and the unread children of a Retrieve that succeeds |
| `names` | `NamesSettle` (liveness); `DeletedKeysFallSilent` (action property) | the CID published last wins although older ones are broadcast again; a deleted key is used by nobody new |
| `zones` | `ZonesAgree`, `CreatedIsOwned`; `OwnersKept` (action property) | the two stores have the same zones but for failures, overlapping deletions and spellings that share a zone; a row of a domain is its creator's and never changes hands |
| `websites` | `HostedIsServed`, `HnsFollows`, `PublishedIsAsked`, `AckedIsKept` | DNS, HNS and IPNS follow a website's target, and acknowledged changes survive |
| `blocks` | `ReadyIsStored`, `ChildrenKnown`, `NamesResolved` | a ready block has its data, its links and a name |
| `downloader` | `InflightIsOwned`; `ForegroundFirst` (action property); `GetsEnd` (liveness) | one download of a block at a time and none forgotten, blocks somebody waits for come first, every `Get` ends |
| `reprovide` | `AnnouncedIsProvided`, `TriggerKept`; `EventuallyAnnounced` (liveness) | nothing is down as announced that was not, no trigger is lost, blocks that fail do not starve the others |
| `files` | `PinnedIsListed`, `SizeIsTotal`, `Browsable` | what is pinned is shown, sizes count each file once, and what is shown can be reached from the top |
| `zone_records` | `ImportHonoursMode`, `ReportedIsThere`, `DsIsStable` | imports keep and replace what their mode says and what is reported is there, but for changes PowerDNS refused and names it spells differently; a DS once handed out stays |
| `serving` | `NothingLeftBehind`, `LimitsHold`, `OverrunIsBounded` | peers that are gone leave nothing, limits hold under concurrent messages, an account's quota is overrun by no more than the reads in flight, failed checks and reads that another pinner's room let through |

The comment above each property in its module names its exceptions. No run lists a bare type
invariant: `TypeOK` is there in the modules that have a proof or are to get one, and documents the
types.

Bounds, and why they are enough.

- `done_tracker`: two CIDs, two waiting calls, two `Done` calls. Calls interact only through the entry
  of one CID; two of each give every overlap of closing, cancelling and re-registering, and a second
  CID shows that entries are kept apart. The safety part and the refinement are proved for any number.
- `pipeline`: two files and a root, a channel of one place, two workers, two attempts, a batch of two
  shared with one foreign block. The channel is smaller than the upload, so that the producer blocks;
  the batch is smaller than the upload, so that a flush happens in the middle and another one is left
  for the end; both interrupts are possible at every step.
- `pinning`: one user, a directory with two leaves, two API calls, one workflow, at most three records,
  two attempts, and up to two completed uploads of the directory before. Two calls and a workflow give
  every pairwise overlap on a key; two earlier records let "the last record of a key" be decided twice; of
  two leaves Retrieve can read one back and not the other. Keys of two users share nothing, and the
  theorems are for any number of them. The leaves, calls and jobs are symmetric. The calls are finite in
  number and the system then stops, so deadlock is not checked here.
- `names`: one key, two CIDs, two publications at a time and four in all, two deletions. Keys share
  nothing but the republisher's list. Four publications let a third one settle after two have overlapped
  and another one follow a cycle of the republisher.
- `zones`: one name in two spellings, hence two rows and one zone in PowerDNS, two users, two calls at a
  time and five in all. Names share nothing. Five calls allow a creation, an activation, a deletion, a
  restoration and one more call beside each.
- `websites`: a domain and its subdomain with a website each, one CID to create with and another to
  change to, two calls at a time and three in all. The third call is what it takes for a zone that one
  website has created and another has joined to be left or emptied. With `OneFault` one call fails in a
  behaviour, while it is alone, and no call begins after that; neither bound is used by the proofs.
- `blocks`: a directory that links to a file twice and to a directory with the same file, uploaded or
  retrieved while the inner directory is uploaded; a batch of three, which holds blocks of both; one
  deletion, failure or restart.
- `downloader`: five blocks, one missing, two `Get`s, two workers, two related blocks (64 in the code)
  and one fault. A `Get` can find its block queued in advance, in progress, done and gone. Every `Get`
  may have ended, so deadlock is not checked.
- `reprovide`: three blocks, one of which can never be announced, batches of two, two failures or
  restarts, two blocks added or deleted. The batch is smaller than the table and larger than the number
  of blocks that fail for ever.
- `files`: three requests (a retrieval of a directory, an upload of it, in either version of its CID, or
  of another one, an upload of a file in both or of one in the other), two operations or deletions at a
  time, one failing access. The DAG has a file in two directories, a file with a chunk, a block without a
  UnixFS node and a name that is too long. The requests are used up, so deadlock is not checked; nor is it
  in the next two runs, for the same reason.
- `zone_records`: two clients with one call each, one name with two record types and one that holds the
  domain twice, beside the zone's own SOA and NS, a zone that is bare or filled, one failing request and
  any number of refused ones; files repeat a name with the domain, without it and in upper case and have
  an empty entry. The zone's domain is in lower case here; the theorems are for any. `Entries` and
  `Texts`, which the proofs range over, are what those requests contain.
- `serving`: two goroutines, two blocks, a peer with two connections of which one has no usable address,
  an exempt peer, a global burst of two and one of one per peer, two messages or reads, two closed
  connections, one refill, one failing quota check. One account has uploaded and pinned the first block
  alone; another has uploaded the second, which both have pinned; they have used any part of their quota.
  The peer's burst is smaller than the messages it can send, and both listeners of a connection may run
  anywhere between its steps.

Fairness. `DoneTracker` assumes weak fairness of the closes and wakeups of calls in progress: a
goroutine that can run does. `BlockPipeline` assumes it of the producer, the consumer and the pool,
separately; not of timeouts, shutdown or other uploads, which need never happen. Store errors are
choices of the pool and the retry bound limits them, as in the code. `Downloader` assumes it of each
worker, a goroutine that never ends, and of each `Get` that was made; not of new calls, cancellations
or the prefetching. `Reprovider` assumes it of its loop, which is one goroutine; nothing makes anybody
trigger it, and time need not pass. `IpnsKeys` assumes weak fairness of the calls in progress and of the
republisher's timer, whose loop runs as long as the node does, and strong fairness of the broadcast of
each key: the network does not refuse a key in every cycle for ever. Nothing makes users publish or
delete. The other modules state safety only.

## Proofs

`BlockWaitsProofs` holds, for every set of CIDs and calls of the done tracker (assuming that CIDs are
finite and none is the value for "no CID"):

- `TypeCorrect`, `NeverDoubleClose`, `NeverLostWakeup`, `MapsAlwaysAgree`: `Spec => []P` for the type
  invariant and the invariants of the run of the same meaning;
- `Refinement`: `Spec => ImplementsDoneSet`; each step of the tracker is a step of `DoneSet` or changes
  none of its variables.

None of the invariants is inductive alone. That a close cannot hit a closed channel depends on which
list a channel is in; so `Inv` adds `CallsAgree` (a waiting call's CID and program counter agree),
`ChannelsFiled` (a channel is in at most one waiter list or one `waitersToClose`, and only while its
call still waits), `ClosedMeansDone` (a channel is closed only for a CID that has been done) and
`MarksAgree` (an idle `Done` owns no channels). `NextInv` has a lemma per action, and each lemma a step
per conjunct that the action can disturb. `CountFromMaps` derives what `Count` adds up from the fact that
no done CID has an entry left. The refinement uses `ClosedMeansDone` for the step in which a woken call
returns true.

For the downloader it holds, for any blocks, links, workers, calls and any limit of the prefetching
(assuming at least one worker, of which `MaxConcurrentFetches` makes ten, and that "none" is no block,
response or answer): `DownloaderTypeCorrect`; `InflightAlwaysOwned` and `ForegroundAlwaysFirst`, the
safety properties of the run; and `QueueIsAttended`, that a queued block always has a worker that is
awake, although `queueBlock` signals one worker for each new block and none when a priority is raised.
`DownloaderInv` has three parts. `Owned`: a CID is in flight if it has one place in the queue or one
worker, never both, and its response has ended if that worker is past the fetch. `Awake` is
`QueueIsAttended`. `Foreground`: only what some `Get` asked for has the highest priority, and what an
unanswered `Get` waits for has it and has not ended; for `ForegroundAlwaysFirst` it remains that `First`
takes an entry of the highest priority in the queue, which exists because the queue is finite.
`queueRelated` calls `queueBlock` for a listing of any length under one lock: `QueueAllGood` shows that
each call keeps the invariant, for the least call after which it did not hold would follow one after which
it did; and `QueueAll` is a recursive function, for which the first lemma is that the equation it is
defined by has a solution.

`UploadProofs` holds, for `BlockPipeline` with any number of files, capacities, workers, attempts and
blocks of other uploads (assuming these are finite and the sizes positive): `TypeCorrect`; `FailedJobs`,
that `ProcessBlocks` never succeeds when a job of the pool has failed; `NoSend`, that only an archive's
producer can send on the closed channel, and only after `ProcessBlocks` has returned; and `SuccessStored`,
that a success with a root means that every block is in the object store and in the database. `ErrInv`
carries the first: a failed job has its error in `errChan` from the step in which it fails, and the
channel is looked at after `StopWait`, when no job runs. `ClosedInv` says who may have closed the channel.
`TypeInv` adds to the types where the producer is in its script (`StepInv`). `StoredInv` follows a block
from hand to hand: seen by the producer (`ProducerInv`), in the channel, the consumer's hand or the pool
as long as nothing has gone wrong (`PipeInv`), in the batch or the database (`StoreInv`); none of the
three is inductive without the other two.

For `FilePaths`, in the same module, any DAGs, any number of pins, of operations and deletions at work and
of failures (assuming finitely many blocks and requests): `FilesTypeCorrect`, `PinnedAlwaysListed` and
`AlwaysBrowsable`. The first is more than types: an id for a new row exists because the table and what
deletions have still to look at are finite (`Greatest`). `ListedInv` ties the two ends of the race between a
pin and a deletion together: what an operation has reached has a row, or one held back between
`CreateFilePath`'s two transactions (`Listed`), and a row that a deletion is about to remove belongs to no
live pin but such as came after its count; a row of a version 0 is never removed, since deletions look
for the pin's CID (`Spellings`). `BrowseInv` says of every directory that some operation has open
that it has a row, or that one is held back, and that what is above it is shown; the path of a child is then
shown because it ends in its directory (`AboveChild`). `RowsOK` is needed for the step that ends a directory
without writing its total: its row is a directory's all the same, unless it was an orphan's, which the
attempt to prove that step found and `Browsable` now excepts. `ListInv` is the lemma for all the steps that
list a block, `QuietInv` for those that list none.

`PinWorkflowsProofs` holds, for any users, DAGs, calls, workflow requests, records and attempts (assuming
finite sets, at least one CID, and that no block is its own child): `TypeCorrect`; `NoLeak`, that no
attempt ends with a reservation, except by the failing fetch, and by what a successful Retrieve leaves
(`LeavingInv` follows a retrieval's reservations from place to place); and, for the three
ledgers, `PinnedHeld`, `HeldBilled` and `DeletedReleased`. `Inv` ties every place of a workflow to what it
may have reserved and put (`Reservations`, `Putting`), to its own record (`OwnRecord`), and every place
of `DeletePin` to what it knows of its record (`CallShape`, `OneHolder`). `LedgerInv` is five statements
per key: overlapping deletions are blamed (`Single`), a call that has decided to unpin leaves nobody who
relies on the pin (`Unused`), what is used is in the portal (`InPortal`) and billed (`Counted`), and what is
in the portal has a record or a call that will unpin it (`Accounted`). A deletion's decision is made in
one transaction and carried out after it, so each of them speaks of the calls in between.

`BlocksProofs` holds, for any DAG, any jobs and any number of faults (assuming finitely many blocks and
a value for "none" that is no block and no name): `TypeCorrect`, `Stored`, `Known` and `Named`, the three
invariants of the run. A ready block has its data because whatever is in the batch or in a job's hands has
(`DataFirst`); its links are known because the batch that makes it ready adds them (`LinksPresent`).
Names take `NamesInv`, six statements that need one another: the parent of every link row has its data
(`ParentsStored`), a ready block has a node and its links (`ReadyIsWhole`), a job's walk goes down from
its root (`WalkDown`) and is ready or still ahead of the job (`WalkStored`), a block in the batch will
still be given its name (`BatchOwed`), and a block a job is through with has one or is owed one
(`NamedOrOwed`). Then the names step finds a name (`NameFound`): the block was reached from one that is
ready, so it has a link row, and the parent of the row that is found first has its data. Two exceptions of
`NamesResolved` were found in this way, as steps that the proof could not get past: see
`op_retrieve.go` below.

`DnsZonesProofs` holds, for all domains, spellings, users and contents and for any number of concurrent
calls (assuming finite sets of domains and callers and a value for "none" that is no user, domain or
content):

- `TypeCorrect` and `CreateReturnsOwn`: `Spec => []TypeOK` and `Spec => []CreatedIsOwned`;
- `DomainsKeepOwners`: `Spec => OwnersKept`; no step changes the owner of a row or removes it;
- `ZonesStayTogether`: `Spec => []ZonesAgree`; between calls PowerDNS has the names of which a row is alive in
  some spelling, but for the three excuses above.

The owner is checked once, when `CreateZone` looks the row up, and used several requests later; and
`ValidateNameservers` saves a row it read before a DNS lookup. So `Inv` says of every call in flight
that what it checked still holds (`CheckedOwner`) and that the copy it may save has the owner of the row
there is now (`CopyOwner`). The lemma `OneCaller` reduces a step to its own caller: the facts of the
others survive because rows are kept, which each action's lemma shows together with `Inv'`. For the two
stores, `AgreeInv` adds, for every name in which nothing has gone wrong, what the calls in flight still
owe one of the stores (`Expect`), and that a call that will change the row is alone with it (`Alone`).

For `ZoneRecords`, in the same module, any requests, entries, zones, keys, clients and number of faults
(assuming that an update and a deletion name one entry, that only bulk deletions and imports are dry runs,
and that PowerDNS names RRsets in lower case): `RecordsTypeCorrect`, `ImportsHonourTheirMode`,
`ReportsAreTrue` and `AnswersAreStable`. A call goes through its entries one request at a time, and other
clients change the zone in between. `RecordsInv` therefore says of every call only what it may rely on, of
the RRsets that nobody else has changed since it looked (`ClientOK`): those a merge has found are as they
were found (`MergeKeeps`) unless the file spells them otherwise, those a replacement is through with hold the
last entry that PowerDNS took, and the others nothing unless their names elude the deletion
(`ReplacedSoFar`), what was written is what will be read back (`ReadsOwn`), and what was reported
is there (`ReportHolds`). `OthersKeep` is the lemma that a step of one client disturbs none of this for
another; `OneClient` reduces a step to its own client. For the DS, `AnswerInv` adds that a call which met
no other is alone (`MetNobody`), that only such a call makes the first key (`MakesFirst`) and that a DS
answered is the first of the keys there are (`Settled`).

`RebroadcastProofs` has the theorems of the two loops that tell the network what the node has.

- `IpnsKeys`, for any keys, CIDs and calls (assuming finite sets, and that calls are no publications):
  `IpnsTypeCorrect`, and `Silence`: `IpnsSpec => DeletedKeysFallSilent`. What a deleted key may still
  change is what was read before its deletion; the proof counts it as a call or as an entry of the
  republisher's sweep, which is why a call must not be confused with an entry.
- `Reprovider`, for any blocks and batch sizes (assuming finitely many blocks): `Announced` and
  `NoTriggerLost`. `AnnounceInv` says that between two looks at the table the loop holds only blocks that
  are due (`HoldsDue`) and that what it is about to write down was announced (`DoneIsProvided`);
  `TriggerInv` that a trigger not followed by a look is in the channel or has the loop on its way.

`WebsitesProofs` holds, for any websites, contents, callers and number of calls, and whatever fails
(assuming that "none" is no website, CID, domain or target): `TypeCorrect`, `HostedWebsitesAreServed`,
`HnsNamesFollow`, `PublishedAsAsked` and `AcknowledgedIsKept`, the type invariant and the four invariants
of the run. A website's row, record, zone and key are changed by separate steps of a call, so each
property is about domains on which no call is at work and nothing has gone wrong. `IInv` says what holds in
between:

- `TypeInv`: at each point of a call, which operation it is, and what its copy of the row has;
- `FreshInv`: a row that is still to be inserted has one call;
- `PairI`, `LiveI`: calls that share a domain, or that a deletion overtook, have excused it. The proofs
  use it the other way round: on a domain without an excuse a call is alone;
- `KnowInv`: what a call that is alone has copied is what is stored; `DomainsFixed`: so is its domain,
  until one is changed, which excuses both;
- `DnsInv`: a domain has one website, each of its records belongs to that website's zone or to a call about
  to remove it, and the record is there unless a call is about to write it; `CountInv`: a zone found empty
  stays so until it is deleted; `HnsInv` says the like of the HNS name;
- `AckInv`: every copy that will be saved whole holds what was acknowledged; `PublishInv`: what is being
  published is what was asked for last.

`StepFrame` says what every step of a call leaves alone; `AloneFacts`, `OwnBefore` and `OwnAfter` turn the
invariant into what one caller has to show, and each invariant has its step lemma. The attempt to prove
`HnsInv` found what the runs of three calls could not reach: two calls of `CreateHNSDomain`, for different
websites, share the HNS zone, so the one that fails on the unique row has overwritten the other's DNSLink
(`hns.go:235-335`). The excuse `Overlap` now covers it.

`BitswapServingProofs` holds, for any peers, blocks, connections and goroutines (assuming finitely many
goroutines, positive bursts and a natural limit): `TypeCorrect`; `LeftClean`, that peers that are gone
leave nothing behind; `Limits`, that no limiter lets through more than its burst and refills, although
messages of one peer race to create it; and `BoundedOverrun`, that an account is billed beyond its quota for
no more than the reads in flight, the checks that failed and the reads of its uploads that another pinner's
room let through. `BehindInv` says who will still clear up each thing there is of a peer. `PeerLimitInv`
counts the tokens taken from all the limiters a peer has had: a limiter removed from the map may still
be in a message's hands; which limiter was made for whom is a witness that the invariant guesses.
`GlobalLimitInv` counts the messages past the global limiter, and `Overrun` the reads past the check.

How the proofs are laid out: a lemma per action or per kind of action first says what the step does to
the part of the state that an invariant is about (`JobSteps`, `JobMoves`, `ProducerMoves`, `Turn`); the
invariants are then kept by these descriptions. Sequences of any length and sets of numbers are reasoned
about without induction over data: that a set of numbers has a least element follows from the
well-foundedness of finite sets (`LeastNumber`).

Only model-checked:

- liveness (`DoneWakesWaiter`, `Terminates`, `NamesSettle`, `GetsEnd`, `EventuallyAnnounced`), which is
  beyond the prover;
- `SizeIsTotal` of `FilePaths`, which compares sums over sets of blocks: what a sum is, for any set, is an
  induction over data, which is beyond the prover too. For the same reason the proofs take the size of an
  orphan, a sum, as whatever it is.

## Where the code departs from what it says

Met while modelling; each is an exception that a property names, or a part of the model.

Uploads and blocks
- `block_queue.go:256,270`: the 30-minute timeout ends `ProcessBlocks` without an error, so an upload
  that ran out of time counts as complete; `:182` says "After all blocks are processed, it flushes".
- `block_queue.go:205`: a block is reported done when its metadata is in the batch; the comment at `:202`
  says "only after the block is actually in the database".
- `block_queue.go:177`: `recordError` cancels the queue's context only; producer and consumer can then
  wait on the processor's; `:169` says it "cancels processing".
- `streaming_blockstore.go:349`: a false positive of the bloom filter makes `Has` wait for a block that
  was never put, and with it the producer and the consumer, until the processor's context is cancelled;
  `Terminates` names it (`Misled`).
- `streaming_processor.go:410`: a file of an archive that cannot be processed is left out and the upload
  succeeds.
- `op_retrieve.go:188-208`: a block that the storing walk missed is fetched and stored again after names
  were looked for. It waits in the batch that all jobs share, so that the flush of an upload that has
  nothing to do with it writes the block's node over, without a name; the confirm step's own look for names
  (`op_confirm.go:91`) may be over by then, because the store step has declared the block ready.
- `op_retrieve.go:80-87, 176-220`: a Retrieve that succeeds neither settles nor releases its download
  reservation, nor the reservations of the children it could not read back (`:197-206`); only its error
  returns do (`:245`).
- `op_store.go:58`: every planned CID is marked ready, fetched or not, although `Has` "returns whether
  or not a given block is in the blockstore" (`blockstore.go:71`).

Pins and files
- `op_confirm.go:102`: Confirm's own record keeps content pinned after the user has deleted theirs
  (`api/api.go:269`); `op_retrieve.go:127`: a CID of a single block is marked pinned and nothing is
  pinned (`api/api.go:224`); `upload.go:150`: pins of child blocks are never removed; `pin.go:218`:
  `ReplacePin` unpins nothing.
- `block_processor_car.go:45`, `op_post_upload.go:371`, `op_tus_upload.go:272`: the file path operation of
  an upload whose root is a CID of version 0 is given that; pins and blocks have version 1
  (`ipfs_pin.go:71`). No node is found (`op_file_path.go:135`), the directory is listed as an orphan under
  a CID that is not the pin's, none of its files are, and no `DeletePin` removes the row.
- `file_manager.go:475`: rows of a directory that is still pinned are deleted (comment `:431`). The raw
  queries around `:298-330` see soft-deleted rows; a prefix search without a slash finds sibling
  directories (`:384`); the unique key ends in a NULL `deleted_at`, so overlapping operations insert
  twice; the contents of an unpinned directory stay listed. `op_file_path.go:495`: when the total of a
  directory cannot be written, and the directory was listed as an orphan by an earlier operation, its row
  stays an orphan's that is no directory, while its children are listed below it.

Names, zones and websites
- `dns_service_zone.go:143` looks a row up by its raw spelling, `validateDomain` accepts a final dot and
  upper case (`:647-675`), HNS rows have the dot (`hns.go:76,273`), and PowerDNS is asked for the name without
  it and answers 409 with the zone it has (`powerdns_client.go:81,107-121`). So `name` and `name.` are two
  rows, of two users perhaps, over one zone; the records are shared, and deleting one row takes the zone
  from the other.
- `dns_service_zone.go:236`, `powerdns_client.go:169`: a zone's deletion is reported as done while
  PowerDNS keeps the records (`api/api.go:794`).
- `janitor.go:147`: a blocked website that the janitor was validating becomes active, and can be deleted
  (`website.go:943`). `website.go:265-281`: a zone that cannot be linked is deleted with the subdomain
  that joined it. `hns.go:235-335`: of two overlapping calls for one HNS name the one that is refused has
  replaced the other's DNSLink. No unique index backs one website per domain (`:153-160`).
- `dns_service_record.go`: `string(values[0][0])` is the first byte of a zone file's value, so that
  entries other than TXT are refused and an import in replace mode deletes the user's records and creates
  few; two entries for one name and type overwrite each other. `UpdateZoneRRSets` ignores the status, so a
  deletion or an update that PowerDNS refuses is reported as a success (`:246,420`). Names are compared with
  their letter case, which PowerDNS does not keep (`:407,434`): a merge file that says `WWW` overwrites
  `www`, a creation of it is read back in vain, and in a zone stored as `Example.com` a replacement
  deletes nothing (`dns_helpers.go:40-67`). The
  API lets users change NS and, on the update and delete paths, SOA (`src/core/dns_filter.go:43`). Overlapping
  first calls of `EnsureDNSSECAndGetDS` answer different DS records. A name that holds the domain twice
  loses one of them when it is stripped and completed again, so that the purge of a replacement hits another
  RRset. `ImportZoneFile` has no caller but
  tests.

Network
- `node.go:767` passes a nil `*fullrt.FullRT` as an interface, so the basic mode takes the FullRT
  provider. A batch full of blocks that fail for ever starves the others.
- The disconnect listeners run per connection: closing one of two resets the peer's limiter and drops
  its wants. A throttled peer still spends global tokens. A quota check that fails passes
  (`quota.go:210-232`).
- `blockstore.go:112-121` lets a read pass when any pinner of the block has room, `:180` bills the uploader,
  although the usage "will be distributed among users who have pinned this upload" (`:108`). A full uploader
  of a block that somebody with room has pinned is billed for every read, without limit.

## Plan

1. **Done.** All parts of the system that keep state of their own are modelled: uploads, pins, blocks,
   downloads, announcements, serving, files, websites, names, zones and records. All safety properties
   of these are proved but one, `SizeIsTotal`, a property of sums.
2. **Compositions** still open: `Websites` has zones and keys as their services return them, not as
   `DnsZones` and `IpnsKeys` detail them; a refinement between them would need the calls of the one as the
   actions of the others.

## Not modelled

- Of the DNS service, filters and pages of listings, TTLs, disabled records and check timestamps; of the
  IPNS keys, their encryption and import; of the website service, tokens and e-mail notices; of the block
  store, the cache in front and the virtual store's own map.
- The IPFS node's construction and shutdown order, request parsing, DTOs, configuration, migrations and
  metrics, which have no state of their own. The block service and the value store's reads only read.
- The portal's services (workflow engine, pin service, quota plugin, database), S3, PowerDNS and libp2p
  appear as the outcomes their callers handle.
- Out of scope for good: cryptography of keys and DANE records, formats of CAR, UnixFS and archives, the
  DHT and bitswap protocols themselves.
