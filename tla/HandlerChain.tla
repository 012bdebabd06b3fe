---------------------------- MODULE HandlerChain ----------------------------
(***************************************************************************)
(* What happens to a record between processEntry and the outputs, and how  *)
(* Sync closes them: the handler chain of logger.go and extensibility.go   *)
(* (pipeline decorators, write errors, sampling, hooks, core decorators,   *)
(* serialisation), the io.MultiWriter over the outputs, the batchWriter in *)
(* front of it and the one of a console with a format of its own.          *)
(*                                                                         *)
(* Goroutines run the chain: workers, which Sync awaits, and producers, who*)
(* fall back to it when their shard is full or asyncEnabled is false.      *)
(* Without async.enabled all of them are callers of log().  A record is    *)
(* its goroutine and a number.  BatchWriter has the bytes in a buffer;     *)
(* here a buffer holds whole records.  The hooks of a logger are called one*)
(* after the other, each with a recover of its own; they are one here.     *)
(***************************************************************************)
EXTENDS Integers, Sequences, SequencesExt

CONSTANTS
    Workers, Producers,  \* goroutines that run the chain
    Nobody,              \* the owner of a free mutex
    Configs,             \* what the logger is built from
    Batch,               \* records that reach the flush threshold
    MaxRecords,          \* bound: records, for each goroutine
    MaxFaults            \* bound: errors and panics

Goroutines == Workers \cup Producers
Records    == UNION {{c} \X (1 .. MaxRecords[c]) : c \in Goroutines}
Outputs    == {"file", "network", "custom", "console"}

ASSUME GoroutineAssumption == Nobody \notin Goroutines
ASSUME ConfigAssumption    ==
    \A c \in Configs : /\ c.async \in BOOLEAN /\ c.console \in BOOLEAN /\ c.format \in {"json", "text"}
                       /\ c.members \in Seq(Outputs \ {"console"})
                       /\ c.members # <<>> /\ IsInjective(c.members)
ASSUME BoundAssumption     == Batch \in Nat \ {0} /\ MaxRecords \in [Goroutines -> Nat] /\ MaxFaults \in Nat

VARIABLES
    cfg,      \* async, format; members: the outputs behind io.MultiWriter, in its order;
              \* console: one of another format than log.format, with its own batchWriter
    pc, n, k, err,  \* goroutines: stage, number of the record, next member, error so far
    textMu,   \* the mutex of the main slog.TextHandler
    bw,       \* the two batchWriters: buf, err (sticky, in bufio), closed, locked (for ever: by a panic,
              \* or by an output that does not return)
    shut,     \* outputs that Sync has closed and that refuse a Write
    stalled,  \* goroutines in a Write of a member that does not return
    sync,     \* the call of Sync that does the work: stage, and its result so far
    alive,    \* the process has not crashed
    faults,
    taken,    \* history: the records each output took
    outcome   \* history: how the record ended; "ok" and "error" are what AfterWrite was told

chainVars == <<pc, n, k, err>>
vars == <<cfg, chainVars, textMu, bw, shut, stalled, sync, alive, faults, taken, outcome>>

Rec(c) == <<c, n[c]>>
Members  == cfg.members
Below(b) == IF b = "main" THEN Members ELSE <<"console">>

\* What there is to close in Sync, by the name of its stage.
InUse(s) ==
    /\ s = "main" => cfg.async
    /\ s = "console" => cfg.console
    /\ s \in {"file", "network"} => s \in ToSet(Members)

MayFail == faults < MaxFaults /\ faults' = faults + 1

\* Only an output of the caller's can panic; so can it fail to return, and the
\* network output, whose connection has no write deadline.
MayPanic == {"custom"}
MayHang  == {"custom", "network"}

Init ==
    /\ cfg \in Configs
    /\ pc = [c \in Goroutines |-> "idle"]
    /\ n = [c \in Goroutines |-> 0]
    /\ k = [c \in Goroutines |-> 1]
    /\ err = [c \in Goroutines |-> FALSE]
    /\ textMu = Nobody
    /\ bw = [b \in {"main", "console"} |-> [buf |-> <<>>, err |-> FALSE, closed |-> FALSE, locked |-> FALSE]]
    /\ shut = {}
    /\ stalled = {}
    /\ sync = [stage |-> "idle", result |-> "nil"]
    /\ alive = TRUE
    /\ faults = 0
    /\ taken = [o \in Outputs |-> <<>>]
    /\ outcome = [r \in Records |-> "none"]

Goto(c, stage) == pc' = [pc EXCEPT ![c] = stage] /\ k' = [k EXCEPT ![c] = 1]

Ends(c, how) == Goto(c, "idle") /\ outcome' = [outcome EXCEPT ![Rec(c)] = how]

-----------------------------------------------------------------------------
(* The outputs: one call of Write with the records of chunk *)

\* The members before the i-th take all of it, the i-th takes m records.
Spread(b, chunk, i, m) ==
    taken' = [o \in Outputs |->
        taken[o] \o IF o \in ToSet(SubSeq(Below(b), 1, i - 1)) THEN chunk
                    ELSE IF i <= Len(Below(b)) /\ o = Below(b)[i] THEN SubSeq(chunk, 1, m)
                    ELSE <<>>]

FlushOk(b, chunk, closes) ==
    /\ ToSet(Below(b)) \cap shut = {}
    /\ Spread(b, chunk, Len(Below(b)) + 1, 0)
    /\ bw' = [bw EXCEPT ![b].buf = <<>>, ![b].closed = closes]
    /\ UNCHANGED faults

\* Fault: the error is forgotten, and the next flush tries again.
FlushFailsOnce(b, chunk, closes) ==
    \E i \in 1 .. Len(Below(b)), m \in 0 .. Len(chunk) :
        /\ \A j \in 1 .. i - 1 : Below(b)[j] \notin shut
        /\ IF Below(b)[i] \in shut THEN m = 0 /\ UNCHANGED faults ELSE MayFail
        /\ Spread(b, chunk, i, m)
        /\ bw' = [bw EXCEPT ![b].buf = SubSeq(chunk, m + 1, Len(chunk)), ![b].closed = closes]

\* io.MultiWriter stops at the member that fails; bufio keeps the error, and
\* of the records what this member did not take: none, if it took them all
\* and reported an error nevertheless.
FlushFails(b, chunk, closes) ==
    \E i \in 1 .. Len(Below(b)), m \in 0 .. Len(chunk) :
        /\ \A j \in 1 .. i - 1 : Below(b)[j] \notin shut
        /\ IF Below(b)[i] \in shut THEN m = 0 /\ UNCHANGED faults ELSE MayFail
        /\ Spread(b, chunk, i, m)
        /\ bw' = [bw EXCEPT ![b].buf = SubSeq(chunk, m + 1, Len(chunk)), ![b].err = TRUE, ![b].closed = closes]

\* A Write of one of these outputs does not come back: bufio keeps the records,
\* though the output may have taken some of them.
FlushHalts(b, chunk, outputs, locked) ==
    \E i \in 1 .. Len(Below(b)), m \in 0 .. Len(chunk) :
        /\ \A j \in 1 .. i - 1 : Below(b)[j] \notin shut
        /\ Below(b)[i] \in outputs /\ MayFail
        /\ Spread(b, chunk, i, m)
        /\ bw' = [bw EXCEPT ![b].buf = chunk, ![b].locked = locked]

FlushPanics(b, chunk, locked) == FlushHalts(b, chunk, MayPanic, locked)

\* Whoever flushes waits for ever, and so does who wants the mutex: an output
\* that calls Sync, which closes this batchWriter (SyncBegin is its call, if it
\* is the first), or a send with no deadline.
FlushHangs(b, chunk) == FlushHalts(b, chunk, MayHang, TRUE)

-----------------------------------------------------------------------------
(* A record on its way *)

\* A worker takes no record once Sync has waited for it.
Begin(c) ==
    /\ pc[c] = "idle" /\ n[c] < MaxRecords[c]
    /\ cfg.async /\ c \in Workers => sync.stage \in {"idle", "workers"}
    /\ n' = [n EXCEPT ![c] = @ + 1]
    /\ err' = [err EXCEPT ![c] = FALSE]
    /\ Goto(c, "before")
    /\ UNCHANGED <<cfg, textMu, bw, shut, stalled, sync, alive, faults, taken, outcome>>

\* Before the hooks: sampling drops the record, or a pipeline decorator panics,
\* which processEntry recovers.
Stopped(c) ==
    /\ pc[c] = "before"
    /\ \/ Ends(c, "dropped") /\ UNCHANGED faults
       \/ Ends(c, "stopped") /\ MayFail
    /\ UNCHANGED <<cfg, n, err, textMu, bw, shut, stalled, sync, alive, taken>>

\* BeforeWrite of the hooks; callHookBefore recovers a panic.
Before(c) ==
    /\ pc[c] = "before"
    /\ Goto(c, "main")
    /\ UNCHANGED <<cfg, n, err, textMu, bw, shut, stalled, sync, alive, faults, taken, outcome>>

\* A hook (or writeErrorHandler) calls Sync: it does the work, or waits in
\* syncOnce for who does.
HookSyncs(c) ==
    /\ pc[c] \in {"before", "after"} /\ sync.stage # "done"
    /\ pc' = [pc EXCEPT ![c] = IF @ = "before" THEN "syncing" ELSE "resyncing"]
    /\ sync' = IF sync.stage = "idle" THEN [sync EXCEPT !.stage = "workers"] ELSE sync
    /\ UNCHANGED <<cfg, n, k, err, textMu, bw, shut, stalled, alive, faults, taken, outcome>>

HookSyncReturns(c) ==
    /\ pc[c] \in {"syncing", "resyncing"} /\ sync.stage = "done"
    /\ Goto(c, IF pc[c] = "syncing" THEN "main" ELSE "after")
    /\ UNCHANGED <<cfg, n, err, textMu, bw, shut, stalled, sync, alive, faults, taken, outcome>>

\* A core decorator, or a MarshalJSON in a FastHandler, panics: nothing below
\* the hooks recovers it.  The main handler has done nothing before it.
SerialisePanics(c) ==
    /\ \/ pc[c] = "before"
       \/ pc[c] = "syncing" /\ sync.stage = "done"
       \/ pc[c] = "console" /\ cfg.format = "text"
    /\ MayFail
    /\ Ends(c, "panic")
    /\ UNCHANGED <<cfg, n, err, textMu, bw, shut, stalled, sync, alive, taken>>

\* Fault: the handler that comes later decides.
WroteLast(c, failed) ==
    /\ err' = [err EXCEPT ![c] = failed]
    /\ IF pc[c] = "main" /\ cfg.console THEN Goto(c, "console") ELSE Goto(c, "after")
    /\ UNCHANGED outcome

\* A handler returns; slog.MultiHandler goes on with the console, whatever
\* the main handler returned, and joins the errors.
Wrote(c, failed) ==
    /\ err' = [err EXCEPT ![c] = @ \/ failed]
    /\ IF pc[c] = "main" /\ cfg.console THEN Goto(c, "console") ELSE Goto(c, "after")
    /\ UNCHANGED outcome

\* An output panics: FastHandler makes it an error, slog.TextHandler lets it pass.
WritePanics(c) ==
    IF cfg.format = "json" THEN Wrote(c, TRUE) ELSE Ends(c, "panic") /\ UNCHANGED err

\* batchWriter.Write; a panic leaves its mutex locked.
WriteBatch(c) ==
    \E b \in {"main", "console"} :
        LET filled == Append(bw[b].buf, Rec(c))
        IN  /\ pc[c] = b /\ InUse(b) /\ ~bw[b].locked
            /\ \/ /\ bw[b].closed \/ bw[b].err
                  /\ Wrote(c, TRUE)
                  /\ UNCHANGED <<bw, faults, taken>>
               \/ /\ ~bw[b].closed /\ ~bw[b].err /\ Len(filled) < Batch
                  /\ Wrote(c, FALSE)
                  /\ bw' = [bw EXCEPT ![b].buf = filled]
                  /\ UNCHANGED <<faults, taken>>
               \/ /\ ~bw[b].closed /\ ~bw[b].err /\ Len(filled) >= Batch
                  /\ \/ FlushOk(b, filled, FALSE) /\ Wrote(c, FALSE)
                     \/ FlushFails(b, filled, FALSE) /\ Wrote(c, TRUE)
                     \/ FlushPanics(b, filled, TRUE) /\ WritePanics(c)
                     \/ FlushHangs(b, filled) /\ Goto(c, "hung") /\ UNCHANGED <<err, outcome>>
            /\ UNCHANGED <<cfg, n, textMu, shut, stalled, sync, alive>>

\* Fault: a panic does not unlock the mutex.
TextMuKept(c) == IF cfg.format = "text" /\ pc'[c] \in {"main", "idle"} THEN c ELSE Nobody

\* slog.TextHandler holds its mutex from the first member to the last; a panic
\* unlocks it.
TextMuNext(c) == IF cfg.format = "text" /\ pc'[c] = "main" THEN c ELSE Nobody

MayWrite(c) ==
    /\ pc[c] = "main" /\ ~cfg.async
    /\ cfg.format = "text" => textMu = c \/ (k[c] = 1 /\ textMu = Nobody)

\* Without a batchWriter: Write of the next member, which may have taken the
\* record when it fails.  FastHandler has no mutex.
WriteMember(c) ==
    LET o      == Members[k[c]]
        writes == taken' = [taken EXCEPT ![o] = Append(@, Rec(c))]
    IN  /\ MayWrite(c)
        /\ \/ /\ o \notin shut
              /\ writes
              /\ IF k[c] < Len(Members) THEN k' = [k EXCEPT ![c] = @ + 1] /\ UNCHANGED <<pc, err, outcome>>
                 ELSE Wrote(c, FALSE)
              /\ UNCHANGED faults
           \/ o \in shut /\ Wrote(c, TRUE) /\ UNCHANGED <<faults, taken>>
           \/ o \notin shut /\ MayFail /\ Wrote(c, TRUE) /\ (writes \/ UNCHANGED taken)
           \/ o \in MayPanic /\ MayFail /\ WritePanics(c) /\ (writes \/ UNCHANGED taken)
        /\ textMu' = TextMuNext(c)
        /\ UNCHANGED <<cfg, n, bw, shut, stalled, sync, alive>>

\* The Write does not return: a send that the other side does not read.
MemberStalls(c) ==
    /\ MayWrite(c)
    /\ Members[k[c]] \in MayHang /\ MayFail
    /\ stalled' = stalled \cup {c}
    /\ textMu' = IF cfg.format = "text" THEN c ELSE Nobody
    /\ UNCHANGED <<cfg, chainVars, bw, shut, sync, alive, taken, outcome>>

\* AfterWrite of the hooks, whose panics callHookAfter recovers; then
\* writeErrorHandler reports the error, if there is one, and Handle returns.
After(c) ==
    /\ pc[c] = "after"
    /\ Ends(c, IF err[c] THEN "error" ELSE "ok")
    /\ UNCHANGED <<cfg, n, err, textMu, bw, shut, stalled, sync, alive, faults, taken>>

-----------------------------------------------------------------------------
(* The timers of the batchWriters *)

\* flush ignores the error; nothing recovers a panic.
TimerFlush(b) ==
    /\ InUse(b) /\ ~bw[b].locked /\ ~bw[b].closed /\ ~bw[b].err /\ bw[b].buf # <<>>
    /\ \/ (FlushOk(b, bw[b].buf, FALSE) \/ FlushFails(b, bw[b].buf, FALSE)) /\ UNCHANGED alive
       \/ FlushPanics(b, bw[b].buf, FALSE) /\ alive' = FALSE
       \/ FlushHangs(b, bw[b].buf) /\ UNCHANGED alive
    /\ UNCHANGED <<cfg, chainVars, textMu, shut, stalled, sync, outcome>>

-----------------------------------------------------------------------------
(* Sync *)

Stages == <<"idle", "workers", "main", "console", "file", "network", "done">>

\* On to the next stage with something to close.
SyncGoes(failed) ==
    \E i, j \in 1 .. Len(Stages) :
        /\ i < j /\ Stages[i] = sync.stage /\ InUse(Stages[j])
        /\ \A l \in i + 1 .. j - 1 : ~InUse(Stages[l])
        /\ sync' = [stage |-> Stages[j], result |-> IF failed THEN "error" ELSE sync.result]

\* A goroutine of the program's calls Sync, which stops the workers.
SyncBegin ==
    /\ sync.stage = "idle"
    /\ SyncGoes(FALSE)
    /\ UNCHANGED <<cfg, chainVars, textMu, bw, shut, stalled, alive, faults, taken, outcome>>

\* Fault: Sync does not wait for the workers.
SyncAtOnce ==
    /\ sync.stage = "workers"
    /\ SyncGoes(FALSE)
    /\ UNCHANGED <<cfg, chainVars, textMu, bw, shut, stalled, alive, faults, taken, outcome>>

\* wg.Wait, for workers there are with async.enabled only.
SyncWaited ==
    /\ sync.stage = "workers"
    /\ cfg.async => \A w \in Workers : pc[w] = "idle"
    /\ SyncGoes(FALSE)
    /\ UNCHANGED <<cfg, chainVars, textMu, bw, shut, stalled, alive, faults, taken, outcome>>

\* Fault: the error of an earlier flush is not returned.
CloseBatchSilently(b) ==
    /\ sync.stage = b /\ ~bw[b].locked
    /\ \/ /\ bw[b].buf = <<>> \/ bw[b].err
          /\ bw' = [bw EXCEPT ![b].closed = TRUE]
          /\ SyncGoes(FALSE)
          /\ UNCHANGED <<faults, taken>>
       \/ /\ bw[b].buf # <<>> /\ ~bw[b].err
          /\ \/ FlushOk(b, bw[b].buf, TRUE) /\ SyncGoes(FALSE)
             \/ FlushFails(b, bw[b].buf, TRUE) /\ SyncGoes(TRUE)
             \/ FlushPanics(b, bw[b].buf, FALSE) /\ sync' = [stage |-> "done", result |-> "panic"]
             \/ FlushHangs(b, bw[b].buf) /\ UNCHANGED sync
    /\ UNCHANGED <<cfg, chainVars, textMu, shut, stalled, alive, outcome>>

\* batchWriter.Close flushes and closes; a panic of an output leaves it open,
\* and Sync recovers it and returns nil.
CloseBatch(b) ==
    /\ sync.stage = b /\ ~bw[b].locked
    /\ \/ /\ bw[b].buf = <<>> \/ bw[b].err
          /\ bw' = [bw EXCEPT ![b].closed = TRUE]
          /\ SyncGoes(bw[b].buf # <<>>)
          /\ UNCHANGED <<faults, taken>>
       \/ /\ bw[b].buf # <<>> /\ ~bw[b].err
          /\ \/ FlushOk(b, bw[b].buf, TRUE) /\ SyncGoes(FALSE)
             \/ FlushFails(b, bw[b].buf, TRUE) /\ SyncGoes(TRUE)
             \/ FlushPanics(b, bw[b].buf, FALSE) /\ sync' = [stage |-> "done", result |-> "panic"]
             \/ FlushHangs(b, bw[b].buf) /\ UNCHANGED sync
    /\ UNCHANGED <<cfg, chainVars, textMu, shut, stalled, alive, outcome>>

\* FileWriter.Close, after which it refuses every Write.
CloseFile ==
    /\ sync.stage = "file"
    /\ shut' = {"file"}
    /\ \/ SyncGoes(FALSE) /\ UNCHANGED faults
       \/ SyncGoes(TRUE) /\ MayFail
    /\ UNCHANGED <<cfg, chainVars, textMu, bw, stalled, alive, taken, outcome>>

\* Close of the network output, which a later Write opens again: a send under
\* way fails, and Write goes on with its next attempt.
CloseNetwork ==
    /\ sync.stage = "network"
    /\ stalled' = {c \in stalled : Members[k[c]] # "network"}
    /\ \/ SyncGoes(FALSE) /\ UNCHANGED faults
       \/ SyncGoes(TRUE) /\ MayFail
    /\ UNCHANGED <<cfg, chainVars, textMu, bw, shut, alive, taken, outcome>>

-----------------------------------------------------------------------------
(* Specification *)

Chain(c) ==
    /\ c \notin stalled
    /\ \/ Begin(c) \/ Stopped(c)
       \/ Before(c) \/ HookSyncs(c) \/ HookSyncReturns(c)
       \/ SerialisePanics(c) \/ WriteBatch(c) \/ WriteMember(c) \/ MemberStalls(c)
       \/ After(c)

Sync == \/ SyncBegin \/ SyncWaited
        \/ CloseBatch("main") \/ CloseBatch("console")
        \/ CloseFile \/ CloseNetwork

\* A worker whose hook called Sync waits for itself.
AwaitsItself == cfg.async /\ \E w \in Workers : pc[w] \in {"syncing", "resyncing"} /\ sync.stage = "workers"

\* A goroutine in a Write that does not return, or waiting for slog.TextHandler's
\* mutex while such a one holds it.
Blocked(c) == c \in stalled \/ (pc[c] = "main" /\ textMu \in stalled)

\* What leaves goroutines where they are: a crash, the mutex of a batchWriter
\* locked for ever, or a worker that waits for itself.
Stuck == ~alive \/ AwaitsItself \/ \E b \in {"main", "console"} : bw[b].locked

Finished ==
    /\ Stuck \/ (sync.stage = "done" /\ \A c \in Goroutines : pc[c] = "idle" \/ Blocked(c))
    /\ UNCHANGED vars

Next == \/ alive /\ (\/ \E c \in Goroutines : Chain(c)
                     \/ TimerFlush("main") \/ TimerFlush("console")
                     \/ Sync)
        \/ Finished

Spec == Init /\ [][Next]_vars

\* The scheduler runs every goroutine in the chain, and the one in Sync.
Fairness ==
    /\ \A c \in Goroutines : SF_vars(alive /\ pc[c] # "idle" /\ Chain(c))
    /\ WF_vars(alive /\ sync.stage # "idle" /\ Sync)

FairSpec == Spec /\ Fairness

-----------------------------------------------------------------------------
(* Properties *)

\* Every variable keeps its type.
TypeOK ==
    /\ cfg \in Configs
    /\ pc \in [Goroutines -> {"idle", "before", "syncing", "main", "console", "hung", "after", "resyncing"}]
    /\ n \in [Goroutines -> Nat] /\ \A c \in Goroutines : n[c] <= MaxRecords[c]
    /\ k \in [Goroutines -> Nat \ {0}]
    /\ err \in [Goroutines -> BOOLEAN]
    /\ textMu \in Goroutines \cup {Nobody}
    /\ bw \in [{"main", "console"} ->
                [buf : Seq(Records), err : BOOLEAN, closed : BOOLEAN, locked : BOOLEAN]]
    /\ shut \subseteq {"file"}
    /\ stalled \subseteq Goroutines
    /\ sync \in [stage : {"idle", "workers", "main", "console", "file", "network", "done"},
                 result : {"nil", "error", "panic"}]
    /\ alive \in BOOLEAN
    /\ faults \in 0 .. MaxFaults
    /\ taken \in [Outputs -> Seq(Records)]
    /\ outcome \in [Records -> {"none", "dropped", "stopped", "ok", "error", "panic"}]

Took(o, r) == r \in ToSet(taken[o])
Reads(o)   == IF o = "console" THEN cfg.console ELSE o \in ToSet(Members)

\* The batchWriter before an output, if there is one.
Buffer(o) == IF o = "console" THEN {"console"} ELSE IF cfg.async THEN {"main"} ELSE {}

\* A record whose hooks were told of no error has reached every output, or is
\* in the buffer of a batchWriter, or that one has failed and refuses all that
\* follows (extensibility.go:86, logger.go:389).
NilMeansKept ==
    \A r \in Records, o \in Outputs :
        outcome[r] = "ok" /\ Reads(o) =>
            Took(o, r) \/ \E b \in Buffer(o) : r \in ToSet(bw[b].buf) \/ bw[b].err

\* An output before o, behind batchWriter b, has the record.
EarlierTook(b, o, r) ==
    \E i, j \in 1 .. Len(Below(b)) : i < j /\ Below(b)[j] = o /\ Took(Below(b)[i], r)

\* Sync that ends without a panic and returns nil has every record that was
\* told to be written on the first output and on the console, and on every
\* output as long as no flush failed: a failed flush of the timer, which nobody
\* is told of, does come out here, unless an output took all of it and reported
\* an error, which empties bufio, so that Close does not flush: then the outputs
\* after that one may lack it (logger.go:389, 403, 1642).
SyncNilMeansWritten ==
    sync = [stage |-> "done", result |-> "nil"] =>
        \A r \in Records, o \in Outputs :
            outcome[r] = "ok" /\ Reads(o) =>
                Took(o, r) \/ \E b \in Buffer(o) : bw[b].err /\ bw[b].buf = <<>> /\ EarlierTook(b, o, r)

Once(seq) == IsInjective(seq)

\* s is t without some of its elements, which t has once.
Thins(s, t) ==
    /\ Once(t) /\ ToSet(s) \subseteq ToSet(t)
    /\ \A i, j \in 1 .. Len(s), x, y \in 1 .. Len(t) : s[i] = t[x] /\ s[j] = t[y] => (i < j <=> x < y)

\* The outputs agree: a later one misses records of an earlier one, never the
\* other way round.  Where writes are serialised, by the batchWriter or by the
\* mutex of slog.TextHandler, it has the others once each and in the same
\* order, unless an output panicked in Sync, after which the batchWriter
\* flushes the same records again (logger.go:400, 907).
OutputsAgree ==
    \A i, j \in 1 .. Len(Members) :
        LET early == taken[Members[i]]
            late  == taken[Members[j]]
        IN  i < j => /\ ToSet(late) \subseteq ToSet(early)
                     /\ (cfg.async \/ cfg.format = "text") /\ sync.result # "panic" => Thins(late, early)

\* Nothing fails as long as no output does: Sync returns nil, and no record
\* ends with an error, but for those whose goroutine Sync did not wait for
\* (logger.go:1640).
NothingFailsByItself ==
    faults = 0 =>
        /\ sync.result = "nil"
        /\ \A r \in Records :
               outcome[r] = "error" => sync.stage # "idle" /\ ~(cfg.async /\ r[1] \in Workers)

\* Every record ends, unless a Write of an output does not return and it is in
\* that Write or waits for the mutex of slog.TextHandler, which that one holds;
\* and Sync returns, whatever Write does not, for it closes the connection.
\* Neither does so after a crash, once the mutex of a batchWriter is locked for
\* ever (by a panic, or by an output below it that does not return, logger.go:365,
\* 515), or when a worker awaits itself (logger.go:1626).
ChainReturns ==
    /\ \A c \in Goroutines : pc[c] # "idle" ~> pc[c] = "idle" \/ Stuck \/ Blocked(c)
    /\ sync.stage # "idle" ~> sync.stage = "done" \/ Stuck

-----------------------------------------------------------------------------
(* What does not hold *)

\* Sync that reports no error has written all that hooks were told is written.
SyncIsTruthful ==
    sync.stage = "done" /\ sync.result # "error" =>
        \A r \in Records, o \in Outputs : outcome[r] = "ok" /\ Reads(o) => Took(o, r)

\* AfterWrite is told of every record that is lost.
AfterWriteIsTold ==
    \A r \in Records, o \in Outputs :
        outcome[r] = "ok" /\ Reads(o) => Took(o, r) \/ \E b \in Buffer(o) : ~bw[b].err

\* No output takes a record twice.
NoRepeats == \A o \in Outputs : Once(taken[o])

\* A hook may call Sync.
NobodyAwaitsItself == ~AwaitsItself

=============================================================================
