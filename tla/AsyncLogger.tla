---------------------------- MODULE AsyncLogger ----------------------------
(***************************************************************************)
(* The asynchronous pipeline of logger.go: goroutines that call log(), the *)
(* sharded ring buffer with one worker per shard, the pool of entries, the *)
(* sink behind the workers, and Sync(), which shuts the pipeline down.     *)
(*                                                                         *)
(* A step is one access to shared memory, or one critical section of a     *)
(* mutex.  The level filter and sampling are modules of their own; here a  *)
(* call is one that passed the filter.  The sink is a batchWriter whose    *)
(* underlying writer never fails.                                          *)
(***************************************************************************)
EXTENDS Integers, Sequences, FiniteSets

CONSTANTS
    Producers,   \* goroutines that log
    Syncers,     \* goroutines that call Sync, each once
    Objs,        \* *logEntry objects
    NoEntry,     \* no *logEntry
    NoRecord,    \* the content of an entry that was Reset
    NShards,     \* shards of the ring, and workers
    Cap,         \* slots of a shard
    BatchCap,    \* log.async.batch_size: what a worker pops at once
    MaxLogs,     \* bound: calls each producer makes
    UsePool,     \* log.performance.use_pool
    Panicking    \* records on which a decorator or a value being formatted panics

Shards  == 0 .. NShards - 1
Records == Producers \X (1 .. MaxLogs)    \* the k-th call of a producer
OffRing == -1

ASSUME ShardsAssumption  == NShards \in Nat \ {0}
ASSUME CapAssumption     == Cap \in Nat \ {0}
ASSUME BatchAssumption   == BatchCap \in Nat \ {0}
ASSUME LogsAssumption    == MaxLogs \in Nat
ASSUME PoolAssumption    == UsePool \in BOOLEAN
ASSUME PanicAssumption   == Panicking \subseteq Records
ASSUME NoEntryAssumption == NoEntry \notin Objs
ASSUME NoRecordAssumption == NoRecord \notin Records

VARIABLES
    asyncEnabled, \* the atomic.Bool shared by the logger and all derived loggers
    next,         \* round-robin counter of the ring, modulo NShards
    queue,        \* per shard, the entries in buf[head .. tail-1]
    notify,       \* per shard, whether the wake-up mailbox holds a signal
    pool,         \* entries in logEntryPool
    msg,          \* content of each entry
    pc, calls, cur, route,     \* producers
    wpc, batch, stopping,      \* workers
    stopCh,       \* per worker, whether stopCh is closed
    once, spc,    \* the sync.Once of Sync, and the goroutines that call Sync
    closed,       \* batchWriter.closed
    sink,         \* what became of a handled record
    handles,      \* history: how often the handler chain ran for a record
    via,          \* history: the shard a record was pushed to, OffRing if none
    before        \* history: records whose call had returned when Sync began

producerVars == <<pc, calls, cur, route>>
workerVars   == <<wpc, batch, stopping>>
syncVars     == <<stopCh, once, spc, asyncEnabled, before>>
ringVars     == <<next, queue, notify>>
entryVars    == <<pool, msg>>
sinkVars     == <<closed, sink, handles>>
vars == <<producerVars, workerVars, syncVars, ringVars, entryVars, sinkVars, via>>

-----------------------------------------------------------------------------
(* Entries and records *)

Rec(p) == <<p, calls[p]>>      \* the record of p's current or last call

Elems(q) == {q[i] : i \in 1 .. Len(q)}

\* Entries some goroutine or ring slot refers to.
Referenced == {cur[p] : p \in Producers}
              \cup (UNION {Elems(queue[s]) : s \in Shards})
              \cup (UNION {Elems(batch[w]) : w \in Shards})

\* log() has returned for these records.
Returned == {r \in Records : \/ r[2] < calls[r[1]]
                             \/ r[2] = calls[r[1]] /\ pc[r[1]] = "idle"}

Init ==
    /\ asyncEnabled = TRUE
    /\ next = 0
    /\ queue = [s \in Shards |-> <<>>]
    /\ notify = [s \in Shards |-> FALSE]
    /\ pool = {}
    /\ msg = [o \in Objs |-> NoRecord]
    /\ pc = [p \in Producers |-> "idle"]
    /\ calls = [p \in Producers |-> 0]
    /\ cur = [p \in Producers |-> NoEntry]
    /\ route = [p \in Producers |-> 0]
    /\ wpc = [w \in Shards |-> "drain"]
    /\ batch = [w \in Shards |-> <<>>]
    /\ stopping = [w \in Shards |-> FALSE]
    /\ stopCh = [w \in Shards |-> FALSE]
    /\ once = "fresh"
    /\ spc = [c \in Syncers |-> "idle"]
    /\ closed = FALSE
    /\ sink = [r \in Records \cup {NoRecord} |-> "none"]
    /\ handles = [r \in Records \cup {NoRecord} |-> 0]
    /\ via = [r \in Records |-> OffRing]
    /\ before = {}

-----------------------------------------------------------------------------
(* The handler chain and the sink *)

\* bufio hands what it holds to the underlying writer.
Flushed(snk) == [r \in DOMAIN snk |-> IF snk[r] = "buffered" THEN "written" ELSE snk[r]]

\* What the handler chain makes of a record.  A panic is recovered in
\* processEntry(Direct) and printed; a closed batchWriter returns io.EOF, which
\* the write-error handler reports.
Outcome(r) == IF r \in Panicking THEN "panicked" ELSE IF closed THEN "refused" ELSE "buffered"

\* processEntry and processEntryDirect run the handler chain once; a buffer
\* that reaches its threshold is flushed by the same Write.
Handle(r) ==
    /\ handles' = [handles EXCEPT ![r] = @ + 1]
    /\ LET snk == [sink EXCEPT ![r] = Outcome(r)]
       IN  \/ sink' = snk
           \/ Outcome(r) = "buffered" /\ sink' = Flushed(snk)
    /\ UNCHANGED closed

\* batchWriter.flush, in the timer's goroutine.
TimerFlush ==
    /\ ~closed
    /\ \E r \in Records : sink[r] = "buffered"
    /\ sink' = Flushed(sink)
    /\ UNCHANGED <<producerVars, workerVars, syncVars, ringVars, entryVars, closed, handles, via>>

\* An entry that was processed: Reset and Put with use_pool; otherwise it is
\* dropped, and the next allocation is zero.
Release(o) ==
    /\ msg' = [msg EXCEPT ![o] = NoRecord]
    /\ pool' = IF UsePool THEN pool \cup {o} ELSE pool

-----------------------------------------------------------------------------
(* Producers: log() *)

\* The level check passed; log() loads asyncEnabled and decides the path.
LogStart(p) ==
    /\ pc[p] = "idle" /\ calls[p] < MaxLogs
    /\ calls' = [calls EXCEPT ![p] = @ + 1]
    /\ pc' = [pc EXCEPT ![p] = IF asyncEnabled THEN "acquire" ELSE "direct"]
    /\ UNCHANGED <<cur, route, workerVars, syncVars, ringVars, entryVars, sinkVars, via>>

\* processEntryDirect.
Direct(p) ==
    /\ pc[p] = "direct"
    /\ Handle(Rec(p))
    /\ pc' = [pc EXCEPT ![p] = "idle"]
    /\ UNCHANGED <<calls, cur, route, workerVars, syncVars, ringVars, entryVars, via>>

\* logEntryPool.Get, which may return any pooled entry or none, or a fresh
\* allocation; then log() fills the entry.
Acquire(p) ==
    /\ pc[p] = "acquire"
    /\ \E o \in pool \cup (Objs \ Referenced) :
          /\ cur' = [cur EXCEPT ![p] = o]
          /\ msg' = [msg EXCEPT ![o] = Rec(p)]
          /\ pool' = pool \ {o}
    /\ pc' = [pc EXCEPT ![p] = "route"]
    /\ UNCHANGED <<calls, route, workerVars, syncVars, ringVars, sinkVars, via>>

\* ringBuffer.Push picks the shard: next.Add(1) % ns, or shard 0.
Route(p) ==
    /\ pc[p] = "route"
    /\ next' = (next + 1) % NShards
    /\ route' = [route EXCEPT ![p] = next']
    /\ pc' = [pc EXCEPT ![p] = "push"]
    /\ UNCHANGED <<calls, cur, queue, notify, workerVars, syncVars, entryVars, sinkVars, via>>

\* Fault: log() puts the entry back as soon as it is queued.
PushAndPut(p) ==
    /\ pc[p] = "push" /\ Len(queue[route[p]]) < Cap
    /\ queue' = [queue EXCEPT ![route[p]] = Append(@, cur[p])]
    /\ cur' = [cur EXCEPT ![p] = NoEntry]
    /\ pool' = pool \cup {cur[p]}
    /\ via' = [via EXCEPT ![Rec(p)] = route[p]]
    /\ pc' = [pc EXCEPT ![p] = "notify"]
    /\ UNCHANGED <<calls, route, next, notify, msg, workerVars, syncVars, sinkVars>>

\* rbShard.push under s.mu: a full shard refuses the entry.
Push(p) ==
    /\ pc[p] = "push"
    /\ \/ /\ Len(queue[route[p]]) < Cap
          /\ queue' = [queue EXCEPT ![route[p]] = Append(@, cur[p])]
          /\ cur' = [cur EXCEPT ![p] = NoEntry]
          /\ via' = [via EXCEPT ![Rec(p)] = route[p]]
          /\ pc' = [pc EXCEPT ![p] = "notify"]
       \/ /\ Len(queue[route[p]]) >= Cap
          /\ pc' = [pc EXCEPT ![p] = "fallback"]
          /\ UNCHANGED <<queue, cur, via>>
    /\ UNCHANGED <<calls, route, next, notify, workerVars, syncVars, entryVars, sinkVars>>

\* Fault: the mailbox has no buffer, so a worker that is not yet waiting in its
\* select misses the signal.
NotifyUnbuffered(p) ==
    /\ pc[p] = "notify"
    /\ \E waits \in {FALSE, wpc[route[p]] = "select"} : notify' = [notify EXCEPT ![route[p]] = waits]
    /\ pc' = [pc EXCEPT ![p] = "idle"]
    /\ UNCHANGED <<calls, cur, route, next, queue, workerVars, syncVars, entryVars, sinkVars, via>>

\* The non-blocking send to the mailbox, after the unlock; then log() returns.
Notify(p) ==
    /\ pc[p] = "notify"
    /\ notify' = [notify EXCEPT ![route[p]] = TRUE]
    /\ pc' = [pc EXCEPT ![p] = "idle"]
    /\ UNCHANGED <<calls, cur, route, next, queue, workerVars, syncVars, entryVars, sinkVars, via>>

\* Fault: a full shard drops the entry.
FallbackDrops(p) ==
    /\ pc[p] = "fallback"
    /\ pc' = [pc EXCEPT ![p] = "release"]
    /\ UNCHANGED <<calls, cur, route, workerVars, syncVars, ringVars, entryVars, sinkVars, via>>

\* The shard was full: the producer processes the entry itself...
Fallback(p) ==
    /\ pc[p] = "fallback"
    /\ Handle(msg[cur[p]])
    /\ pc' = [pc EXCEPT ![p] = "release"]
    /\ UNCHANGED <<calls, cur, route, workerVars, syncVars, ringVars, entryVars, via>>

\* ... and gives it back.
FallbackRelease(p) ==
    /\ pc[p] = "release"
    /\ Release(cur[p])
    /\ cur' = [cur EXCEPT ![p] = NoEntry]
    /\ pc' = [pc EXCEPT ![p] = "idle"]
    /\ UNCHANGED <<calls, route, workerVars, syncVars, ringVars, sinkVars, via>>

-----------------------------------------------------------------------------
(* Workers: run() and processBatch() *)

\* Fault: the batch comes out newest first.
PopNewestFirst(w) ==
    /\ wpc[w] = "drain" /\ queue[w] # <<>>
    /\ LET n == Len(queue[w])
       IN  batch' = [batch EXCEPT ![w] = [i \in 1 .. n |-> queue[w][n + 1 - i]]]
    /\ queue' = [queue EXCEPT ![w] = <<>>]
    /\ wpc' = [wpc EXCEPT ![w] = "process"]
    /\ UNCHANGED <<stopping, next, notify, producerVars, syncVars, entryVars, sinkVars, via>>

\* PopBatch under s.mu takes as many entries as the batch holds.
PopSome(w) ==
    /\ wpc[w] = "drain" /\ queue[w] # <<>>
    /\ LET n == IF Len(queue[w]) < BatchCap THEN Len(queue[w]) ELSE BatchCap
       IN  /\ batch' = [batch EXCEPT ![w] = SubSeq(queue[w], 1, n)]
           /\ queue' = [queue EXCEPT ![w] = SubSeq(queue[w], n + 1, Len(queue[w]))]
    /\ wpc' = [wpc EXCEPT ![w] = "process"]
    /\ UNCHANGED <<stopping, next, notify, producerVars, syncVars, entryVars, sinkVars, via>>

\* drain() ends on an empty shard; after the stop signal, so does run().
PopNone(w) ==
    /\ wpc[w] = "drain" /\ queue[w] = <<>>
    /\ wpc' = [wpc EXCEPT ![w] = IF stopping[w] THEN "done" ELSE "select"]
    /\ UNCHANGED <<batch, stopping, producerVars, syncVars, ringVars, entryVars, sinkVars, via>>

\* processEntry on the next entry of the batch; its panics end with it.
Process(w) ==
    /\ wpc[w] = "process"
    /\ Handle(msg[Head(batch[w])])
    /\ wpc' = [wpc EXCEPT ![w] = "release"]
    /\ UNCHANGED <<batch, stopping, producerVars, syncVars, ringVars, entryVars, via>>

ProcessRelease(w) ==
    /\ wpc[w] = "release"
    /\ Release(Head(batch[w]))
    /\ batch' = [batch EXCEPT ![w] = Tail(@)]
    /\ wpc' = [wpc EXCEPT ![w] = IF Len(batch[w]) = 1 THEN "drain" ELSE "process"]
    /\ UNCHANGED <<stopping, producerVars, syncVars, ringVars, sinkVars, via>>

\* Fault: the stop signal ends run() without the last drain.
WakeStopAtOnce(w) ==
    /\ wpc[w] = "select" /\ stopCh[w]
    /\ stopping' = [stopping EXCEPT ![w] = TRUE]
    /\ wpc' = [wpc EXCEPT ![w] = "done"]
    /\ UNCHANGED <<batch, producerVars, syncVars, ringVars, entryVars, sinkVars, via>>

\* Fault: the stop signal drains but does not return.
WakeStopStays(w) ==
    /\ wpc[w] = "select" /\ stopCh[w]
    /\ wpc' = [wpc EXCEPT ![w] = "drain"]
    /\ UNCHANGED <<batch, stopping, producerVars, syncVars, ringVars, entryVars, sinkVars, via>>

\* The three cases of the select; Go takes any one that is ready.
WakeStop(w) ==
    /\ wpc[w] = "select" /\ stopCh[w]
    /\ stopping' = [stopping EXCEPT ![w] = TRUE]
    /\ wpc' = [wpc EXCEPT ![w] = "drain"]
    /\ UNCHANGED <<batch, producerVars, syncVars, ringVars, entryVars, sinkVars, via>>

WakeNotify(w) ==
    /\ wpc[w] = "select" /\ notify[w]
    /\ notify' = [notify EXCEPT ![w] = FALSE]
    /\ wpc' = [wpc EXCEPT ![w] = "drain"]
    /\ UNCHANGED <<batch, stopping, next, queue, producerVars, syncVars, entryVars, sinkVars, via>>

WakeTick(w) ==
    /\ wpc[w] = "select"
    /\ wpc' = [wpc EXCEPT ![w] = "drain"]
    /\ UNCHANGED <<batch, stopping, producerVars, syncVars, ringVars, entryVars, sinkVars, via>>

-----------------------------------------------------------------------------
(* Sync() *)

\* The first caller enters the body of syncOnce.Do.
SyncBegin(c) ==
    /\ spc[c] = "idle" /\ once = "fresh"
    /\ once' = "running"
    /\ spc' = [spc EXCEPT ![c] = "stop"]
    /\ before' = Returned
    /\ UNCHANGED <<stopCh, asyncEnabled, producerVars, workerVars, ringVars, entryVars, sinkVars, via>>

\* Another caller blocks in Do until the body has returned.
SyncAgain(c) ==
    /\ spc[c] = "idle" /\ once = "done"
    /\ spc' = [spc EXCEPT ![c] = "returned"]
    /\ UNCHANGED <<stopCh, once, asyncEnabled, before, producerVars, workerVars, ringVars, entryVars,
                   sinkVars, via>>

\* w.stop() for each worker in turn.
StopWorker(c, w) ==
    /\ spc[c] = "stop" /\ ~stopCh[w]
    /\ \A v \in Shards : v < w => stopCh[v]
    /\ stopCh' = [stopCh EXCEPT ![w] = TRUE]
    /\ UNCHANGED <<once, spc, asyncEnabled, before, producerVars, workerVars, ringVars, entryVars,
                   sinkVars, via>>

\* wg.Wait() returned; only now do later calls take the synchronous path.
DisableAsync(c) ==
    /\ spc[c] = "stop"
    /\ \A w \in Shards : stopCh[w] /\ wpc[w] = "done"
    /\ asyncEnabled' = FALSE
    /\ spc' = [spc EXCEPT ![c] = "close"]
    /\ UNCHANGED <<stopCh, once, before, producerVars, workerVars, ringVars, entryVars, sinkVars, via>>

\* Fault: Close does not flush.
CloseSinkUnflushed(c) ==
    /\ spc[c] = "close"
    /\ closed' = TRUE
    /\ once' = "done"
    /\ spc' = [spc EXCEPT ![c] = "returned"]
    /\ UNCHANGED <<stopCh, asyncEnabled, before, producerVars, workerVars, ringVars, entryVars, sink,
                   handles, via>>

\* batchWriter.Close flushes and closes; Do and Sync return.
CloseSink(c) ==
    /\ spc[c] = "close"
    /\ sink' = Flushed(sink)
    /\ closed' = TRUE
    /\ once' = "done"
    /\ spc' = [spc EXCEPT ![c] = "returned"]
    /\ UNCHANGED <<stopCh, asyncEnabled, before, producerVars, workerVars, ringVars, entryVars, handles,
                   via>>

-----------------------------------------------------------------------------
(* Specification *)

Producer(p) == \/ LogStart(p) \/ Direct(p)
               \/ Acquire(p) \/ Route(p) \/ Push(p) \/ Notify(p)
               \/ Fallback(p) \/ FallbackRelease(p)

Worker(w) == \/ PopSome(w) \/ PopNone(w)
             \/ Process(w) \/ ProcessRelease(w)
             \/ WakeStop(w) \/ WakeNotify(w) \/ WakeTick(w)

Syncer(c) == \/ SyncBegin(c) \/ SyncAgain(c)
             \/ \E w \in Shards : StopWorker(c, w)
             \/ DisableAsync(c) \/ CloseSink(c)

\* Everyone has finished; a system that stops anywhere else has deadlocked.
Finished ==
    /\ \A p \in Producers : pc[p] = "idle" /\ calls[p] = MaxLogs
    /\ \A w \in Shards : wpc[w] = "done"
    /\ \A c \in Syncers : spc[c] = "returned"
    /\ UNCHANGED vars

Next == \/ \E p \in Producers : Producer(p)
        \/ \E w \in Shards : Worker(w)
        \/ \E c \in Syncers : Syncer(c)
        \/ TimerFlush
        \/ Finished

Spec == Init /\ [][Next]_vars

\* A call of log() runs to its end; a worker is scheduled, takes a wake-up and
\* drains, but need not be saved by its ticker; a select that meets its closed
\* stopCh again and again picks it eventually (Go chooses at random); a caller
\* of Sync, once it has started, goes on.
Fairness ==
    /\ \A p \in Producers : WF_vars(pc[p] # "idle" /\ Producer(p))
    /\ \A w \in Shards : /\ WF_vars(PopSome(w) \/ PopNone(w) \/ Process(w) \/ ProcessRelease(w))
                         /\ WF_vars(WakeNotify(w))
                         /\ SF_vars(WakeStop(w))
    /\ \A c \in Syncers : WF_vars((spc[c] # "idle" \/ once # "fresh") /\ Syncer(c))

FairSpec == Spec /\ Fairness

-----------------------------------------------------------------------------
(* Properties *)

\* Every variable keeps its type.
TypeOK ==
    /\ asyncEnabled \in BOOLEAN
    /\ next \in Shards
    /\ queue \in [Shards -> Seq(Objs)]
    /\ \A s \in Shards : Len(queue[s]) <= Cap
    /\ notify \in [Shards -> BOOLEAN]
    /\ pool \subseteq Objs
    /\ msg \in [Objs -> Records \cup {NoRecord}]
    /\ pc \in [Producers -> {"idle", "direct", "acquire", "route", "push", "notify", "fallback",
                             "release"}]
    /\ calls \in [Producers -> 0 .. MaxLogs]
    /\ cur \in [Producers -> Objs \cup {NoEntry}]
    /\ route \in [Producers -> Shards]
    /\ wpc \in [Shards -> {"drain", "process", "release", "select", "done"}]
    /\ batch \in [Shards -> Seq(Objs)]
    /\ \A w \in Shards : Len(batch[w]) <= BatchCap
    /\ stopping \in [Shards -> BOOLEAN]
    /\ stopCh \in [Shards -> BOOLEAN]
    /\ once \in {"fresh", "running", "done"}
    /\ spc \in [Syncers -> {"idle", "stop", "close", "returned"}]
    /\ closed \in BOOLEAN
    /\ sink \in [Records \cup {NoRecord} -> {"none", "buffered", "written", "refused", "panicked"}]
    /\ handles \in [Records \cup {NoRecord} -> Nat]
    /\ via \in [Records -> Shards \cup {OffRing}]
    /\ before \subseteq Records

Injective(q) == \A i, j \in 1 .. Len(q) : q[i] = q[j] => i = j

HeldApart   == \A p, q \in Producers : p # q /\ cur[p] # NoEntry => cur[p] # cur[q]
HeldNotSent == \A p \in Producers, s \in Shards : cur[p] \notin Elems(queue[s]) \cup Elems(batch[s])
QueuesApart == \A s, t \in Shards : s # t => Elems(queue[s]) \cap Elems(queue[t]) = {}
BatchesApart == \A s, t \in Shards : s # t => Elems(batch[s]) \cap Elems(batch[t]) = {}
PoppedOnce  == \A s, t \in Shards : Elems(queue[s]) \cap Elems(batch[t]) = {}
NoRepeats   == \A s \in Shards : Injective(queue[s]) /\ Injective(batch[s])
PoolIdle    == \A o \in pool : o \notin Referenced /\ msg[o] = NoRecord

\* An entry has one owner: a producer, a slot of one shard, a place in one
\* batch, or the pool; what is in the pool was Reset.  So nobody fills an entry
\* that a worker has yet to write (logger.go:731-735, 1219-1223).
EntryOwnership ==
    /\ HeldApart /\ HeldNotSent
    /\ QueuesApart /\ BatchesApart /\ PoppedOnce /\ NoRepeats
    /\ PoolIdle

Begun == {r \in Records : r[2] <= calls[r[1]]}

\* r is on its way: its call has not got an entry yet, or an entry carries it.
InFlight(r) ==
    \/ pc[r[1]] \in {"acquire", "direct"} /\ r[2] = calls[r[1]]
    \/ \E o \in Referenced \cap Objs : msg[o] = r

\* Every record a call began is still on its way, or its handler chain ran
\* exactly once; no blank record is ever handled.  Pool, ring, fallback and
\* direct path neither lose nor repeat one.
HandledExactlyOnce ==
    /\ handles[NoRecord] = 0
    /\ \A r \in Records : /\ handles[r] <= 1
                          /\ r \in Begun /\ handles[r] = 0 => InFlight(r)
                          /\ r \notin Begun => handles[r] = 0

\* A worker that blocks in select over a shard that is not empty has a signal
\* in its mailbox, or the producer that filled the shard is about to send one:
\* the mailbox of one slot loses no wake-up (logger.go:288-293, 702-708).
NoLostWakeup ==
    \A w \in Shards : wpc[w] = "select" /\ queue[w] # <<>>
        => notify[w] \/ \E p \in Producers : pc[p] = "notify" /\ route[p] = w

\* When Sync has returned, every record whose call had returned before Sync
\* began is out: written, or reported as a panic of the handler chain; it was
\* never refused (logger.go:1629-1647, README "Sync").
SyncDeliversEarlierLogs ==
    once = "done" => \A r \in before : sink[r] \in {"written", "panicked"}

\* The sink closes under no worker: a record that a worker handles is never
\* refused as written after Close.
WorkersNeverRefused ==
    \A r \in Records : via[r] \in Shards => sink[r] # "refused"

\* Records one producer pushes to the same shard are handled in call order.
ShardOrder ==
    \A r, q \in Records :
        /\ r[1] = q[1] /\ r[2] < q[2]
        /\ via[r] \in Shards /\ via[q] = via[r]
        /\ handles[q] = 1
        => handles[r] = 1

\* Once Sync is done and no call is running, no entry is left in the ring.
\* The promise of README.md: Sync puts every queued record on disk.
NoStrandedEntry ==
    once = "done" /\ (\A p \in Producers : pc[p] = "idle")
        => \A s \in Shards : queue[s] = <<>>

Queued(r) == \E s \in Shards, o \in Objs : o \in Elems(queue[s]) /\ msg[o] = r

\* A queued record is handled by its worker, woken by the mailbox alone, unless
\* Sync begins meanwhile.
QueuedIsHandled ==
    \A r \in Records : Queued(r) ~> handles[r] = 1 \/ once # "fresh"

\* Every call of Sync returns, when the calls of log() are finite in number.
SyncReturns ==
    \A c \in Syncers : (spc[c] = "stop") ~> (spc[c] = "returned" /\ once = "done")

-----------------------------------------------------------------------------
(* Refinement *)

Service == INSTANCE LogService WITH
    called   <- Begun,
    returned <- Returned,
    handled  <- {r \in Records : handles[r] = 1},
    final    <- {r \in Records : sink[r] \in {"written", "panicked"}},
    sync     <- CASE once = "fresh" -> "open" [] once = "running" -> "syncing" [] OTHER -> "synced",
    promised <- before

\* The pipeline keeps every promise of LogService.
ImplementsService == Service!ServiceSpec

=============================================================================
