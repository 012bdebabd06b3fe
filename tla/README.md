# A verification project for treasure-slog

TLA+ modules of the parts of treasure-slog that keep state or run concurrently,
TLC configurations that check them on small instances, and TLAPS proofs of the
properties they rest on. Line numbers are those of
`src/logger.go` unless another file is named.

To check a run: `tlc -config <run>.cfg <module>`; to check the proofs:
`tlapm <module>Proofs.tla`. `PROJECT.json` lists the runs, the mutants of each
property, the code each definition models, the hazards and the theorems.

## The system

treasure-slog is a logging library over `log/slog`. A call of `Info` and its
siblings passes the level filter, takes an entry from a pool, and pushes it into
a sharded ring buffer; one worker per shard pops batches and runs the handler
chain: decorators, write-error handling, sampling, hooks, serialisation. The
serialised line goes into a `batchWriter`, a `bufio.Writer` with a flush timer,
and from there to the outputs: standard output, a rotating file, the network, or
an `io.Writer` of the caller's. When the shard is full, or asynchronous mode is
off, the caller runs the chain itself. `Sync` stops the workers and closes the
outputs, once.

| Component | State it keeps | Operations | Talks to |
|---|---|---|---|
| asynchronous pipeline (183-201, 645-743, 949-1031, 1139-1342, 1619-1665) | entry pool, ring, wake-up channels, `stopCh`, `asyncEnabled`, `syncOnce`, `wg` | `log`, `worker.run`, `processBatch`, `stop`, `Sync` | ring shards, handler chain, batchWriter |
| ring shard (205-331) | slots, `head`, `tail`, `drop`, a mutex, a channel of one slot | `push`, `PopBatch` | producers, one worker |
| batchWriter (331-412) | buffer, sticky error, `closed`, timer, a mutex | `Write`, `flush` (timer), `Close` | workers or callers, `io.Writer` below |
| FileWriter (`internal/writer/file_writer.go`) | file handle, size, age, `closed`, the directory | `Write`, `rotate`, `cleanup`, background ticker, `Close`, `ListBackups` | batchWriter, the file system |
| networkWriter (416-546) | connection behind an RWMutex | `Write` with retries, `connect`, `Close` | batchWriter or callers, the remote side |
| httpWriter (548-587) | an `http.Client` | `Write` with retries | batchWriter or callers, the remote side |
| outputs and their closing (897-947, 1619-1665) | which outputs there are, which are closed | `io.MultiWriter`, the console's own batchWriter, the closers of `Sync` | batchWriter, the writers of each output |
| ring sizing (232-267, 949-972) | slots and shards, computed once | `roundUpPowerOf2`, `newShardedRingBuffer` | ring shards, workers |
| sampling (1755-1913) | per level and message: window end and count, two atomics | `Handle` | workers or callers |
| level gate (1139-1159, 1360-1377, 1568-1598, `fast_handler.go` 50-57) | `level` (atomic) and `levelVar` | `SetLevel`, the checks of `logf`, `log` and the handlers | callers, workers |
| derived loggers (1114-1137, 1395-1566) | `withArgs`, `preAttrKeys`, hooks, the handler chain | `With`, `WithContext`, `AddHook` | the chain, the context of a call |
| hooks, decorators, write errors (`extensibility.go`) | hooks | `Handle`, `BeforeWrite`, `AfterWrite`, `OnWriteError` | user code, which may panic or call `Sync` |
| FastHandler (`fast_handler.go`) | preset attributes, group prefix | `Handle`, `WithAttrs`, `WithGroup` | batchWriter |
| construction, configuration, paths, global logger, timing statistics | configuration; counters | `NewFromConfig`, `ApplyDefaults`, ... | everything, once |

### What is hard in it, and what makes a component correct

* **Pipeline.** Entries are recycled, so an entry must have one owner at a time.
  The wake-up channel has one slot and a full one drops the signal, so the
  worker must look again before it sleeps. A full ring hands the record back to
  the caller: neither lost nor written twice. `Sync` races with calls under way,
  and must not close the outputs under a worker.
* **Ring shard.** Counters that run freely over an array used as a ring: full,
  empty, and slots that would keep popped entries alive.
* **batchWriter.** A timer, writers and `Close` share one buffer; the writer
  below takes any part of what it is given and then fails or panics. The byte
  stream must stay what was accepted.
* **FileWriter.** Every step of a rotation and of a cleanup can fail, and the
  process can die between any two. Nothing may be overwritten, the size kept must be the
  file's, backups must stay within their number, the oldest must go first.
* **networkWriter.** Goroutines that find a broken connection all replace it; a
  replaced connection must be closed, and a payload acknowledged only when one
  connection took all of it. Nothing tells that it arrived, but for an HTTP
  server's answer, and nothing limits how long a send takes.
* **Handler chain and outputs.** A record passes layers of user code that may panic,
  each with its own recover or none, and several outputs behind two writers, which
  may fail, panic, or not return at all. What a hook is told, what `Sync` returns
  and what the outputs hold must fit together.
* **Sampling.** Two atomics updated one after the other at the end of a window, by
  records whose time stamps come in any order: a producer sets the stamp (1207),
  and a worker uses it whenever it gets to the record (1325).
* **Level gate.** One level in two variables, read up to four times for a record,
  by two goroutines.
* **Derived loggers.** Attributes kept twice, once in the chain and once in a Go
  slice that siblings share; groups kept as a slice that is copied and appended to.

## Modules

| Module | Models | Runs |
|---|---|---|
| `LogService` | what the pipeline promises a caller: a call may be handled any time after it began, only calls that returned before `Sync` began are promised | refined by `AsyncLogger` |
| `AsyncLogger`, `MCAsyncLogger` | `log()`, workers, pool, ring, wake-up, `Sync` | `async_pipeline`, `async_sync`, `async_stranded` |
| `AsyncLoggerProofs` | types, wake-up, ownership, exactly once, order, `Sync`, the refinement | proofs |
| `BoundedQueue` | a FIFO queue that refuses when it is full | refined by `RingShard` |
| `RingShard`, `RingShardProofs` | slots and counters of one shard | `ring_shard`, proofs |
| `RingSizing`, `MCRingShard`, `RingShardProofs` | how many slots and shards a configuration gets; both with the shard itself | `ring_shard`, proofs |
| `ByteStream` | a stream of bytes given in order and without a gap; bytes are given again only after a call that ended without an answer | refined by `BatchWriter` |
| `BatchWriter`, `BatchWriterProofs` | `batchWriter` over `bufio.Writer`, byte by byte | `batch_writer`, `batch_panic`, proofs |
| `HandlerChain`, `MCHandlerChain`, `HandlerChainProofs` | one record through decorators, hooks, serialisation and all outputs; `Sync` closing them | `handler_chain`, proofs |
| `FileWriter`, `MCFileWriter`, `FileWriterProofs` | `FileWriter` over a file system | `file_writer`, proofs |
| `Delivery` | an output that acknowledges a payload once it has handed all of it over in one piece, and a bounded number of times; only a remote side that answers confirms that it has it | refined by `NetworkWriter` |
| `NetworkWriter`, `NetworkWriterProofs` | `networkWriter` and `httpWriter` | `network_writer`, proofs |
| `Sampling`, `MCSampling`, `SamplingProofs` | one counter of `SamplingHandler` | `sampling`, proofs |
| `LevelGate`, `MCLevelGate`, `LoggerProofs` | `SetLevel` and every check of the level | `level_gate`, proofs |
| `Derivation`, `MCDerivation`, `LoggerProofs` | `With`, `WithContext`, `AddHook`; `WithAttrs` and `WithGroup` of a logger's handler | `derivation`, proofs |

The modules share no variables: each takes the others at the promise that their
abstract module or their properties state. `AsyncLogger` uses a shard as a queue,
which `RingShard` implements, and one sink for the whole chain; `HandlerChain`
uses a batchWriter as a buffer of whole records with a sticky error, which is
what `ByteStream`, `WholeLines` and `CloseDelivers` say of `BatchWriter`, and
`Workers`, whom `Sync` awaits, as `AsyncLogger` has them.

How state and actions correspond to the code:

* **AsyncLogger.** A producer's `pc` is the point of `log()` it has reached;
  each of `Acquire`, `Route`, `Push`, `Notify`, `Fallback`, `FallbackRelease` is
  one access to shared memory or one critical section. `cur` is the local
  variable with its entry, `route` the shard it chose. A worker's `wpc` goes
  round `drain` (PopBatch), `process` and `release` (processBatch), `select`.
  `queue` is the content of a shard, which `RingShard` shows to be a queue.
  `Sync` is `SyncBegin` (the `sync.Once`), `StopWorker` per worker, `DisableAsync`
  after `wg.Wait`, `CloseSink`. A caller that finds the `Once` taken waits in
  `SyncAgain`. `sink` says what became of a record: in the buffer of the
  batchWriter, written, refused after `Close`, or lost to a panic. The ticker of
  a worker is `WakeTick`. One sink stands for all outputs, which `HandlerChain`
  has one by one.
* **RingShard.** `Push` and `PopBatch` are the critical sections of `s.mu`.
  `Slot` is the index `tail & mask`; the capacity is a power of two, so that is
  the remainder (`MaskCorrect`).
* **RingSizing.** `RoundUp` is the rounding that `newShardedRingBuffer` does twice,
  with its shifts (`Smear`) and the operators `|` and `&` (`Or`, `And`, defined from
  the lowest bit up), `PerShard` is its result, `Requested` and `Workers` what
  `NewFromConfig` passes to it. `SizingInit` chooses a configuration; the ring never
  changes size.
* **BatchWriter.** `WriteBegin` takes the mutex. `WriteThrough`, `FillAndFlush`,
  `CopyRest` are the passes of the loop in `bufio.Writer.Write`; `FlushOk`,
  `FlushFails`, `FlushPanics` the outcomes of a call of the writer below, which may
  have taken any part of its bytes, or all, when it fails or panics. `err`
  is bufio's sticky error. `sent` are the bytes bufio has dropped from its buffer,
  `out` those the writer below took: they differ after a panic, of which bufio
  knows nothing. `cuts` are the parts of `sent` that a successful call took.
  `TimerFlush` is `flush`, which waits for the mutex.
* **HandlerChain.** `pc` is where a goroutine is in `processEntry`: `before` the
  hooks, `main` and `console` in the one and the other handler of
  `slog.MultiHandler`, `after` for `AfterWrite` and `writeErrorHandler`; `syncing`
  and `resyncing` are a hook that has called `Sync` before and after the write. `k`
  is the member of `io.MultiWriter` that is written next. `bw` has the two
  batchWriters with whole records in them; `locked` is their mutex when a panic, or
  an output that does not return, leaves it locked. `FlushOk`, `FlushFails`,
  `FlushPanics` and `FlushHangs` are one call of the writer below, by a record
  (`WriteBatch`), the timer (`TimerFlush`) or `Sync` (`CloseBatch`). `WriteMember`
  is a Write without a batchWriter, `MemberStalls` one that does not return
  (`stalled`); closing the network output ends a send under way. `sync` is the one
  run of the closers: wait for the workers, then close the batchWriters, the file,
  the network. `taken` and `outcome` are histories: what each output took, and what
  `AfterWrite` was told of each record.
* **FileWriter.** `cfg` is chosen at the start. `pc` walks through `Write` and
  `rotate`; the mutex is free when it is `idle`. `files` is the directory. A file
  holds the numbers of the Writes its bytes come from. The name of a backup is a
  pair, and pairs in their order are names as `Glob` lists them; `Foreign` are
  those of files of others that cleanup's pattern matches. `Restart` is the end of
  the process at any point followed by `NewFileWriter`. `FirstFree` is the search
  for a backup name that is not taken. `Cleanup` leaves out files of which `os.Stat`
  fails, and leaves behind those of which `os.Remove` does (`spared` remembers
  both); `CleanupDies` is the end of the process between two removals.
* **Sampling.** `Load`, `Store`, `CompareAndSwap`, `Add` are the atomics of
  `incCheckReset`. `ts` is the time stamp the record got when it was logged, which
  `Begin` chooses freely: stamps from a queue come in any order. `firsts` counts the
  records of each window that drew a number up to `Initial`.
* **NetworkWriter.** `Load` begins a round of the retry loop, `LockConnect` and
  `DialOk` or `DialFails` are `connect` (the mutex is held while it dials),
  `Reload` reads the connection again, `Send` and `SendFails` are one
  `conn.Write`, whose success says that the kernel has the bytes (515): `handed` is
  what each connection was given, and `Transmits` decides whether it gets through
  (`lost`); over TCP nothing does after a loss. `socks` holds every connection ever
  dialed. A request of
  `httpWriter` is one step, `PostOk` or `PostFails`, of a goroutine at `post`; it
  leaves a connection that is closed again.
* **LevelGate.** `StoreLevel` and `SetLevelVar` are the two stores of `SetLevel`;
  `LogfCheck` and `LogCheck` the two loads of the call; `HandleMain` and
  `HandleConsole` the questions of `slog.MultiHandler`.
* **Derivation.** A slice is an array and a length. `loggers` holds every logger
  derived so far, and every handler that `Handler()` has given away, on which
  only `WithAttrs` and `WithGroup` are called. `groups` is the slice of group
  names as the code makes it, `opened` the groups as they were opened.
  `Attributes` are arguments that are a `slog.Attr`: slog takes such a one alone
  (`Lone`), while `With` pads and pairs it like any other (1441).
  `Only` is each loop of the code that keeps some elements of a slice. Its
  specification is `LoggersSpec`: `LoggerProofs` proves about this module and
  `LevelGate` together, which share no name.

## Runs

| Run | Instance | What it shows |
|---|---|---|
| `async_pipeline` | 1 shard of 2 slots, 2 producers of 2 calls, 2 `Sync`, 4 pooled entries, batches of 2, each producer's first record panics | `EntryOwnership`, `HandledExactlyOnce`, `ShardOrder`, `NoLostWakeup`, and `ImplementsService`: the pipeline refines `LogService` |
| `async_sync` | 2 shards of 1 slot, 2 producers of 1 call, 2 `Sync` | `SyncDeliversEarlierLogs`; `QueuedIsHandled` and `SyncReturns` under fairness |
| `ring_shard` | 4 slots, `tail` up to 9, batches of 1, 3 and 5; buffer sizes at both sides of the powers of two, 1 to 32 workers | `LiveSlots`, `CapacityFits`, and `ImplementsQueue`: the shard refines `BoundedQueue` |
| `batch_writer` | 2 writers of 2 lines of 1, 2 or 5 bytes, buffer of 4, which is also the threshold, as with any `batch_size` of 64 or more (349); 2 errors or panics, after any part of a call | `WholeLines`, `AckedInStream`, `CloseDelivers`, `WholeRecordsPerWrite`, `ImplementsStream`, and `BufferedIsWritten` under fairness |
| `file_writer` | 4 Writes of 1 or 2 bytes, 3 instants, 2 failures (of a rename, an open, a write, `os.Stat` or `os.Remove`), 1 restart, also amid the removals of a cleanup; by size (2 bytes, 2 backups), or by size and time (3 bytes, 1 backup, age 1, every instant) | `NothingOverwritten`, `SizeTracked`, `SizeBounded`, `BackupsBounded`, `OldestGoFirst` |
| `sampling` | 2 goroutines, 6 records with 4 time stamps in any order, windows of 2, first 2 and every 4th | `OverAdmissionBounded`, `ExactWhenSequential`, `WindowAdvances` |
| `network_writer` | 2 goroutines of 1 Write, 1 retry, 2 lines, TCP, UDP or HTTP, 2 failures, 1 stall; anything handed over may be lost | `NoConnectionLeaked`, `AloneFailsOnlyWithNetwork`, `ImplementsDelivery`; `WriteReturnsUnlessStalled` under fairness |
| `level_gate` | 2 setters of 2 calls, 2 records, one handler or two | `EnabledIsWritten`, `DisabledIsFiltered` |
| `derivation` | all trees of 5 loggers and handlers, 3 argument lists, 2 context fields, 2 groups | `ReplayIsFaithful`, `PresetKeysWin`, `GroupsInKeys`, `SiblingsApart` |
| `handler_chain` | a worker with 2 records, a producer with 1, 6 configurations (with and without `async`, both formats, with and without a second console, each kind of output), a threshold of 2 records, 2 errors, panics or Writes that do not return | `NilMeansKept`, `SyncNilMeansWritten`, `OutputsAgree`, `NothingFailsByItself`, and `ChainReturns` under fairness |
| `async_stranded` | 1 call, 1 `Sync` | violates `NoStrandedEntry` |
| `batch_panic` | 1 panic | violates `MutexReleased` |

The two violations are what the code does against what its documentation says:

* `async_stranded`: README.md:696 promises that `Sync` before exit puts all
  queued records on disk. A call that has read `asyncEnabled` and pushes after
  the worker's last drain leaves its record in the ring for good.
  `SyncDeliversEarlierLogs` is the promise the code keeps: calls that returned
  before `Sync` began.
* `batch_panic`: README.md:695 says that panics of every layer are caught. A
  panic of the writer below is, but `batchWriter.mu` stays locked, and every
  later Write, and `Sync`, waits for ever.

Other configurations reproduce further behaviours that a reader of the
documentation would not expect. They are kept beside the runs; each ends with a
counterexample, and the passing properties are stated around them.

| Configuration (module) | Violates | The code does |
|---|---|---|
| `BatchTorn` (`BatchWriter`) | `EveryRecordWhole` | with `batch_size` of 64 or more the buffer ends at the threshold (349), so a record is split between two writes, over UDP between two datagrams (470-471 wants one each) |
| `BatchRetry` (`BatchWriter`) | `NextWriteRetries` | the comment at 389 says the next Write tries again after a failed flush; `bufio.Writer` keeps its error and refuses all that follows |
| `BatchCrash` (`BatchWriter`) | `Survives` | a panic in the timer's flush is recovered nowhere (382; README.md:695) |
| `ChainPanic` (`MCHandlerChain`) | `SyncIsTruthful` | a panic of one closer ends `Sync` (1642), which returns nil over the records that the closers after it would have written or reported |
| `ChainRepeats` (`MCHandlerChain`) | `NoRepeats` | the batchWriter whose `Close` panicked stays open with its records, and its timer writes them again (`WholeLines` and `ImplementsStream` allow for it) |
| `ChainAfterWrite` (`MCHandlerChain`) | `AfterWriteIsTold` | `AfterWrite` (`extensibility.go`:200) hears of no error when the record is in a buffer whose flush fails later |
| `ChainAwaits` (`MCHandlerChain`) | `NobodyAwaitsItself` | a hook that calls `Sync` on a worker waits for that worker (1626) |
| `FileForeign` (`MCFileWriter`) | `OnlyOwnBackupsRemoved` | cleanup's pattern (`file_writer.go`:216) matches the files of a logger whose base name continues this one's |
| `FileListing` (`MCFileWriter`) | `ListedOldestFirst` | `ListBackups` (`file_writer.go`:328, 344) sorts names: `app-T-1.log` before the older `app-T.log` |
| `SamplingFirst` (`MCSampling`) | `FirstOfWindowKept` | a goroutine that loses the compare-and-swap counts its record in the new window (1786), whose first N records are then not all kept (1824) |
| `NetworkContended` (`NetworkWriter`) | `FailsOnlyWithNetwork` | after one failure two goroutines close each other's new connection (443) until one has used up its retries |
| `NetworkReopened` (`NetworkWriter`) | `ClosedForGood` | a Write after `Close` dials again (497), and nobody closes that connection |
| `NetworkStalled` (`NetworkWriter`) | `WriteReturns` | `timeout` (`config/config.go`:80) limits dialing only; a send has no deadline (515) |
| `LevelTwoSetters` (`MCLevelGate`) | `OneLevel` | two `SetLevel` at once leave JSON and text outputs at different levels (1593-1594) |
| `DeriveOdd` (`MCDerivation`) | `ReplayIsFaithful` | `With` keeps unpadded arguments (1441), also a `slog.Attr`, which slog takes alone; `AddHook` then pairs keys and values wrongly |
| `DeriveNested` (`MCDerivation`) | `NestedGroupsFlatten` | a group within a group has an empty name between the two (`fast_handler.go`:143): the prefix has two dots in a row |
| `DeriveRepeated` (`MCDerivation`) | `KeysAreUnique` | `WithContext` twice puts each key twice into every record (1412) |

### Bounds

`MaxLogs`, `MaxTail`, `MaxWrites`, `MaxFaults`, `MaxClock`, `MaxRestarts`,
`MaxRecords`, `MaxStalls`, `MaxSets` and `MaxLoggers` bound counters that the
code does not bound. They are chosen so that each interesting case happens, and
every action of every module fires in some passing run:

* two calls of two producers over two slots fill the shard, take the fallback,
  reuse pooled entries and make batches of two; two shards make `Sync` stop more
  than one worker, and a third goroutine adds only another of the same kind;
* `tail` up to 9 over 4 slots goes round the array twice;
* lines of 1, 2 and 5 bytes over a buffer of 4 take each way through bufio: they
  fit, they cross the end, they go straight through; a threshold at the end of the
  buffer is the case in which lines are cut (the theorem has any threshold); the
  third failure changes nothing, for the error stays;
* four Writes rotate by size twice within one instant, which is the collision of
  two names, and three instants let a backup expire by age; two failures hit
  the rename and the open after it, or two files of a cleanup;
* a free backup name is always found: a suffix is tried for each Write there is;
* sizes from 255 up to 2^17 + 1, just below, at and above each power of two, and
  1 to 32 shards, take `RoundUp` and the minimum of a shard to both sides;
* in the chain, a threshold of 2 lets one record wait in the buffer and the next
  one flush it; two faults hit a flush and the close after it; each of the six
  configurations has another output, buffer or format in front;
* two goroutines, with stamps in any order, admit 4 records as the first 2 of a
  window, which is the bound: the count is set to 1 by who opens the window, then by
  one that had the window before in hand, then for the next window by one that stays
  before its compare-and-swap;
* two setters interleave their two stores; two records let one be queued while
  the next is checked.

### Abstractions

`uint64` counters do not wrap: `head` and `tail` would need 2^64 pushes. The counter
that chooses the shard is kept modulo the number of shards. A step of `bufio.Writer`
is taken from its documented behaviour, as are `os`, `net`, `slog` and `sync`. Not
in the file model: a failing `os.Stat` in the search for a free backup name, and the
order of more than twelve backups of equal age, where `sort.Slice` is not stable. In
the sampling model two messages whose hashes collide are one message, as they are in
the code. That code decides by `n % Thereafter`, as `sampling_test.go` expects;
zap's sampler, whose semantics 1758 and README.md:21 claim, counts from the end of
the first `Initial`, so it keeps as many records but others. In `HandlerChain` the
hooks of a logger are one hook, and a buffer holds whole records. There an output
that calls `Sync` under the mutex of a batchWriter is a flush that does not return,
with `SyncBegin` as its call. In the network model a request of `httpWriter` is one
step, and a loss in the network, which may come at any later time, is decided with
the send. `RingSizing` leaves out a negative `buffer_size` and sizes above 2^28, and
`NetworkWriter` a negative `retry`, which nothing validates.

### Fairness

* `AsyncLogger`: a call of `log()` that has begun, a worker with work or with a
  token in its channel, and a `Sync` that has begun go on (weak fairness: the Go
  scheduler starves no runnable goroutine). A `select` with several ready cases
  takes one at random, so a closed `stopCh` that is ready again and again is
  taken eventually (strong fairness of `WakeStop`). Nothing is assumed of the
  ticker: `QueuedIsHandled` shows that wake-ups alone suffice. `SyncReturns`
  holds because calls are finite in number: a worker told to stop drains until
  its shard is empty, and nothing in the code ends that while calls go on.
* `BatchWriter`: a Write that holds the mutex goes on, the runtime fires the
  timer, and the mutex does not starve the timer's goroutine (strong fairness;
  `sync.Mutex` hands over to a waiter after 1 ms).
* `NetworkWriter`: a Write goes on whenever it can again and again; the RWMutex
  starves neither readers nor writers.
* `HandlerChain`: a goroutine in the chain goes on whenever it can again and
  again (the mutex of `slog.TextHandler` starves nobody), and so does a `Sync`
  that has begun. Nothing is assumed of the timers, nor of the outputs: a Write of
  the network or of the caller's output may never return (515), and `ChainReturns`
  says who then waits. Behind a batchWriter that is every record and `Sync`; without
  one it is the record in that Write, and with `slog.TextHandler` those behind it.

The other modules claim safety only.

## Proofs

For every value of the constants that their assumptions admit. All four
refinements are both model-checked and proved.

| Theorem | Statement | Argument |
|---|---|---|
| `AsyncLoggerProofs!TypeCorrect` | `Spec => []TypeOK` | `TypeInv` is `TypeOK` with what it needs to be inductive: batches are not empty while they are processed, and an entry a producer fills is not blank |
| `AsyncLoggerProofs!WakeupSafe` | `Spec => []NoLostWakeup` | a push leaves its producer at `notify`, which leaves a token; the worker consumes it only to drain, and sleeps only when the shard is empty |
| `AsyncLoggerProofs!OwnershipSafe` | `Spec => []EntryOwnership` | the conjuncts (held, queued, batched, pooled entries are apart) are inductive together: each action moves an entry from one place to another |
| `AsyncLoggerProofs!HandledOnceSafe` | `Spec => []HandledExactlyOnce` | `Carriers`: each record under way is carried by one producer or one entry; every action is of one of a few kinds (a record begins, runs, passes to an entry, is spent, is dropped, nothing moves), and each kind keeps it |
| `AsyncLoggerProofs!SyncDelivers`, `WorkersServed` | `Spec => []SyncDeliversEarlierLogs`, `Spec => []WorkersNeverRefused` | `ServiceIInv`: one caller has the `Once`; a stopped worker's shard holds nothing older than `Sync` (`OwnInv`, `StopInv`, `OnceInv`); a record `Sync` must deliver has returned (`BeforeInv`); the sink is closed only when no worker is left (`SinkInv`) |
| `AsyncLoggerProofs!ShardsKeepOrder` | `Spec => []ShardOrder` | `OrderInv`: an entry in a shard was pushed there (`ViaIs`); of two records of a producer in a shard the later one is behind the earlier one, in the queue, in the batch (`InOrder`) and between them (`BatchFirst`) |
| `AsyncLoggerProofs!RefinesService` | `Spec => ImplementsService` | with `ServiceIInv`, each action is a step of `LogService` or a stutter |
| `RingShardProofs!TypeCorrect`, `SlotsCorrect` | `Spec => []TypeOK`, `Spec => []LiveSlots` | `head <= tail <= head + Cap`; two counters less than `Cap` apart have different slots |
| `RingShardProofs!RingRefinesQueue` | `Spec => ImplementsQueue` | initial states map to the empty queue, a push to `Put` or `Refuse`, a pop to `Take` |
| `RingShardProofs!CapacityCorrect` | `SizingSpec => []CapacityFits` | in terms of the bits from `j` up to `k` of a number, all set: a shift by `m` and an or set the next `m` (`SmearFills`), so five of them set all, and one more is the first power of two that is not smaller (`RoundUpIs`); a number shares no bit with its predecessor only if it is such a power (`AndOfPredecessor`). The capacity and the slots of a shard are multiples of 256, so what the division drops, less than 32 slots, is made up by the rounding |
| `RingShardProofs!MaskCorrect` | `SizingSpec => []MaskIsRemainder` | the slots of a shard are a power of two, and `And` with one less than it leaves the remainder (`MaskIs`) |
| `BatchWriterProofs!TypeCorrect`, `RefinesByteStream` | `Spec => []TypeOK`, `Spec => ImplementsStream` | a step moves a prefix of the buffer to the writer below, or carries bytes of the line into the buffer: what bufio has dropped and what it holds, joined, only grow. A call is given what bufio holds, from its first byte; after a panic it holds all of it still, and that is the one way for a byte to be given twice |
| `BatchWriterProofs!CloseIsComplete` | `Spec => []CloseDelivers` | `CloseInv`: after a `Close` without error nobody is inside, and the buffer is empty for good |
| `BatchWriterProofs!LinesStayWhole`, `AckedIsInStream` | `Spec => []WholeLines`, `Spec => []AckedInStream` | `LineInv` says where in the stream the line of the writer inside begins, and that what the stream has behind it is the part of the line it has passed on; actions are of a few kinds (`Kinds`). What the writer below took is a prefix of the stream until it panics; then the mutex stays locked or the process ends, unless it panicked in `Close` |
| `BatchWriterProofs!WritesWholeRecords` | `Spec => []WholeRecordsPerWrite` | `CutInv` says it of every cut so far; it needs that what is left of a line is its end (`RestInv`), that the buffer is below its threshold whenever a Write begins (`LowInv`), and that a remembered error ends the Write (`CleanInv`). It holds at any `Size` and `Threshold`; when they are equal it still says that only a full buffer cuts a line, one that began in it, and none twice |
| `HandlerChainProofs!TypeCorrect` | `Spec => []TypeOK` | with it, `Grows`: nothing leaves an output, and what leaves a buffer is in every output below it unless the error is set |
| `HandlerChainProofs!NilMeansKeptCorrect` | `Spec => []NilMeansKept` | `StageOf`: at each stage, the outputs a goroutine has passed without an error have its record, or a buffer or a remembered error has it |
| `HandlerChainProofs!SyncNilCorrect` | `Spec => []SyncNilMeansWritten` | each closer that `Sync` has passed without an error left an empty buffer and a batchWriter that takes no more; it has a sticky error only when an output took all of a flush and reported one, and then what a later output lacks is on that one or before it |
| `HandlerChainProofs!NothingFailsCorrect` | `Spec => []NothingFailsByItself` | `Closing`: outputs are closed only once `Sync` has waited for the workers; `FineInv`: without a fault the only errors are those of goroutines it did not wait for (`Late`) |
| `HandlerChainProofs!OutputsAgreeCorrect` | `Spec => []OutputsAgree` | `OrderInv`: records behind the batchWriter are new to it and in one order; its outputs have the same until it fails, then a later one has the beginning of what an earlier one has (`BatchInv`); under the mutex of `slog.TextHandler` the record in hand is the last of each output before the next member, and new to those after (`TextInv`, `PlaceInv`) |
| `FileWriterProofs!TypeCorrect`, `SizeIsTracked` | `Spec => []TypeOK`, `Spec => []SizeTracked` | the directory changes in five ways: a file is opened, renamed, removed, grows, or nothing; each has its lemma, here and below |
| `FileWriterProofs!NothingIsOverwritten` | `Spec => []NothingOverwritten` | `OverInv`: Writes to come are in no file (`NotYet`), past ones in a file or removed (`Kept`), and in one place (`Apart`) |
| `FileWriterProofs!SizeIsBounded` | `Spec => []SizeBounded` | `BoundInv`: the same bound for the active file, by the point of the rotation it is at |
| `FileWriterProofs!BackupsAreBounded` | `Spec => []BackupsBounded` | `CountInv`: the same at every point, with one backup more while a rotation is between its rename and the end of its cleanup; cleanup, which removes all of the sorted list but the last `MaxBackups`, leaves that many and one for each file of which `os.Stat` or `os.Remove` fails (`RemoveLeavesFew`), in whatever order `Glob` lists files of equal age |
| `FileWriterProofs!TheOldestGoFirst` | `Spec => []OldestGoFirst` | `AgeInv`: the active file was modified last, and what was removed before everything there is; what cleanup removes, to the end or half-way, is the oldest of what it found but for the files it failed at (`ExcessIsOldest`, `DoomedIsOldest`, `RemovalsAre`) |
| `NetworkWriterProofs!TypeCorrect` | `Spec => []TypeOK` | `FlowInv`: what a goroutine at each stage knows of its own connection |
| `NetworkWriterProofs!NothingLeaked` | `Spec => []NoConnectionLeaked` | whoever dials holds the mutex and has set `conn` to nil, so the connection it stores replaces none (`MutexInv`) |
| `NetworkWriterProofs!AloneFailsCorrect` | `Spec => AloneFailsOnlyWithNetwork` | `AloneInv`: a Write that is alone finds at each round but the first a connection that was just made, or none; so each of them has had a fault of its own |
| `NetworkWriterProofs!RefinesDelivery` | `Spec => ImplementsDelivery` | `RemoteInv`: what a Write has sent before its current round is on connections that are closed, so it handed over at most one whole payload in each failed round; each that is handed over gets through or is lost, and is not counted again |
| `SamplingProofs!TypeCorrect`, `WindowMonotone` | `Spec => []TypeOK`, `Spec => WindowAdvances` | a goroutine at its compare-and-swap has read a window that ended before its time stamp |
| `SamplingProofs!OverAdmissionCorrect` | `Spec => []OverAdmissionBounded` | `AdmitInv`: the numbers up to `Initial` that were drawn in this window, those the count has `Left`, and those of the `Resets` to come fit the bound (`Bounded`). A goroutine can reset the count of a window once because it read the one before (`Stale`) and once for the next one (`Ready`); when all have done the latter nobody draws (`StoreBound`, `OpenBound`) |
| `SamplingProofs!SequentialCorrect` | `Spec => []ExactWhenSequential` | `SeqInv`: as long as no two records overlapped, the counter is at the last line of the `Book`, or, within a record, on the way to the next (`OnBook`) |
| `LoggerProofs!TypeCorrect`, `EnabledRecordsAreWritten`, `DisabledRecordsAreFiltered` | `Spec => []TypeOK`, `Spec => []EnabledIsWritten`, `Spec => []DisabledIsFiltered` | both variables stay between `low` and `high` of every record under way (`Between`), so every check decides alike for a level outside; `Progress` says what a record has got by its stage |
| `LoggerProofs!LoggersTyped`, `SiblingsStayApart` | `LoggersSpec => []LoggersInv`, `LoggersSpec => SiblingsApart` | a slice of `withArgs` lies in an array that is there (`Fits`), and no step changes such an array (`Grows`) |
| `LoggerProofs!GroupsInKeysCorrect` | `LoggersSpec => []GroupsInKeys` | `LoggersInv` has every attribute `Placed` behind its groups, and every handler in groups ready to place the next one (`GroupsOk`): the first name of its slice is empty and the second is not, so `joinGroups` leaves out just the first (`JoinSkipsOne`, `GroupOpened`) |
| `LoggerProofs!ReplayIsFaithfulCorrect`, `PresetKeysWinCorrect` | `AllPaired => (LoggersSpec => []ReplayIsFaithful)`, `AllPaired => (LoggersSpec => []PresetKeysWin)` | `ReplayInv`: the attributes in a logger's chain are those its `withArgs` say, read by twos, and each of their keys is in `preAttrKeys`. slog and `argsToAttrs` both read such arguments by twos (`SlogPairs`, `PlainPairs`), and reading is a homomorphism (`PairsConcat`) |

`TypeOK` of the modules with proofs, and `WorkersNeverRefused`, are proved and
therefore in no run. The assumptions are those the modules name: at least one
shard, slot and batch place, a positive tick and so on; TLC evaluates them in
every run.

Two theorems have a condition of their own. `AllPaired` says that the lists given
to `With` have a string in the place of each key, and a value for each; without
it `ReplayIsFaithful` is false, as `DeriveOdd` shows. `Sampling` assumes that the
goroutines are finitely many, and that there is one, which the bound it proves needs
in order to be a number.

Several of these results are by induction over data: what a cleanup leaves of a
sorted list, what `SlogAttrs` and `Only` make of argument lists of any length, what
`Or` and `And` do to numbers of any width. The library's induction theorems take a
predicate as a parameter and cannot be used here, so `LoggerProofs` and
`SamplingProofs` derive induction in terms of sets (`Induct`): a set of naturals that
has 0 and the successor of each of its elements has all of them, for otherwise there
were a least one it lacks (`Least`, from `NatLessThanWellFounded`); `RingShardProofs`
has it with all predecessors in place of one. The recursive functions of the models
are chosen values (`CHOOSE`); that each exists is the first use of it (`UpToExists`,
`FromExists`, and `Recursion` for any recursion over smaller naturals). The provers
know an exponential only when it is written in digits, so the powers of two are those
of a function `TwoTo`, which `TwoToIsPower` equates with `2^i` one by one.

What is only model-checked is liveness (`QueuedIsHandled`, `SyncReturns`,
`BufferedIsWritten`, `WriteReturnsUnlessStalled`, `ChainReturns`): it is out of the
prover's reach, as is `ENABLED`. Every safety property that a passing run checks is
proved.

## Not modelled

* Text: JSON and text formatting, time formatting, escaping. Which attributes a
  record carries, and behind which groups, is modelled; how they are written is
  not.
* Construction and configuration: reading YAML, defaults, and an output that
  cannot be made (`NewFromConfig` then returns with the file of the others open).
  The values it yields are constants of the modules.
* The finalizer (973-979), which depends on what the garbage collector can reach;
  the global logger, a `sync.Once` around a constructor; path resolution, which
  is string handling; timing statistics, atomic counters that nothing reads but
  their report; commands and examples, which are callers of the library.
* What a remote side does with what it has received, and `os.Stat` failing in the
  search for a free backup name.

## Plan

The order of the work was: `AsyncLogger`, through which everything passes, and
`RingShard` below it; the outputs one by one; what decides whether and how a
record is written (sampling, level, derivation); the chain that joins hooks,
outputs and `Sync`; the abstract specifications with their proofs. Open:

1. Shorter proofs where lemmas of several modules say the same of sequences and
   sets.
2. The negative values that configuration admits (`buffer_size`, `retry`), when
   the repository says what they should mean.
