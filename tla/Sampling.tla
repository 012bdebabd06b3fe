------------------------------ MODULE Sampling ------------------------------
(***************************************************************************)
(* SamplingHandler of logger.go: one counter, that of the records of one   *)
(* level whose messages share a bucket, and the goroutines that handle     *)
(* them.  The counter is two atomics; incCheckReset takes up to four steps *)
(* on them.  A record carries the time stamp it got when it was logged.    *)
(* With async.enabled a worker handles it at any later time, and records of*)
(* other shards and of callers that fall back before it, after it or at the*)
(* same time: the stamps come in any order.                                *)
(***************************************************************************)
EXTENDS Integers, Sequences, FiniteSets

CONSTANTS
    Goroutines,  \* callers, or workers, that run the handler chain
    Initial, Thereafter, Tick,  \* SamplingOptions
    MaxTime, MaxRecords         \* bounds: on the time stamps, on the records handled

ASSUME GoroutineAssumption == IsFiniteSet(Goroutines) /\ Goroutines # {}
ASSUME OptionAssumption == Initial \in Nat /\ Thereafter \in Int /\ Tick \in Nat \ {0}
ASSUME BoundAssumption  == MaxTime \in Nat \ {0} /\ MaxRecords \in Nat

VARIABLES
    resetAt, count,     \* the counter
    pc,                 \* next step of incCheckReset
    ts, resetAfter, got,   \* time stamp, window read, number drawn
    started,            \* records begun
    log,                \* history: decisions, in order; also sampled and dropped
    firsts,             \* history: for each window, the numbers up to Initial drawn in it
    overlap             \* history: two records have been in Handle at once

counter == <<resetAt, count>>
locals  == <<ts, resetAfter, got>>
vars    == <<counter, pc, locals, started, log, firsts, overlap>>

Windows == 0 .. MaxTime + Tick

Init ==
    /\ resetAt = 0
    /\ count = 0
    /\ pc = [g \in Goroutines |-> "idle"]
    /\ ts = [g \in Goroutines |-> 0]
    /\ resetAfter = [g \in Goroutines |-> 0]
    /\ got = [g \in Goroutines |-> 0]
    /\ started = 0
    /\ log = <<>>
    /\ firsts = [w \in Windows |-> 0]
    /\ overlap = FALSE

Goto(g, l) == pc' = [pc EXCEPT ![g] = l]

\* Goroutine g gets number n of the window that ends at w.
Draws(g, n, w) ==
    /\ got' = [got EXCEPT ![g] = n]
    /\ firsts' = IF n <= Initial THEN [firsts EXCEPT ![w] = @ + 1] ELSE firsts

-----------------------------------------------------------------------------
(* SamplingHandler.Handle *)

\* A record with its time stamp: the caller's own a moment ago, or one that a
\* producer set when it queued the record.
Begin(g) ==
    /\ pc[g] = "idle" /\ started < MaxRecords
    /\ started' = started + 1
    /\ \E t \in 1 .. MaxTime : ts' = [ts EXCEPT ![g] = t]
    /\ Goto(g, "load")
    /\ overlap' = (overlap \/ \E h \in Goroutines : pc[h] # "idle")
    /\ UNCHANGED <<counter, resetAfter, got, log, firsts>>

\* resetAt.Load: is the window of the counter still open for this record?
Load(g) ==
    /\ pc[g] = "load"
    /\ resetAfter' = [resetAfter EXCEPT ![g] = resetAt]
    /\ Goto(g, IF resetAt > ts[g] THEN "add" ELSE "store")
    /\ UNCHANGED <<counter, ts, got, started, log, firsts, overlap>>

\* count.Add(1), in the open window or after a lost CompareAndSwap.
Add(g) ==
    /\ pc[g] = "add"
    /\ count' = count + 1
    /\ Draws(g, count', resetAt)
    /\ Goto(g, "decide")
    /\ UNCHANGED <<resetAt, ts, resetAfter, started, log, overlap>>

\* Fault: the window starts with 0.
StoreZero(g) ==
    /\ pc[g] = "store"
    /\ count' = 0
    /\ Goto(g, "cas")
    /\ UNCHANGED <<resetAt, locals, started, log, firsts, overlap>>

\* count.Store(1).
Store(g) ==
    /\ pc[g] = "store"
    /\ count' = 1
    /\ Goto(g, "cas")
    /\ UNCHANGED <<resetAt, locals, started, log, firsts, overlap>>

\* Fault: resetAt is stored without a comparison.
OverwriteWindow(g) ==
    /\ pc[g] = "cas"
    /\ resetAt' = ts[g] + Tick
    /\ Draws(g, 1, resetAt')
    /\ Goto(g, "decide")
    /\ UNCHANGED <<count, ts, resetAfter, started, log, overlap>>

\* CompareAndSwap: the winner opens the window with its own time stamp.
CompareAndSwap(g) ==
    /\ pc[g] = "cas"
    /\ \/ /\ resetAt = resetAfter[g]
          /\ resetAt' = ts[g] + Tick
          /\ Draws(g, 1, resetAt')
          /\ Goto(g, "decide")
       \/ /\ resetAt # resetAfter[g]
          /\ Goto(g, "add")
          /\ UNCHANGED <<resetAt, got, firsts>>
    /\ UNCHANGED <<count, ts, resetAfter, started, log, overlap>>

\* Fault: the test lets one more through.
PassesInclusive(n) == n <= Initial + 1 \/ (Thereafter > 0 /\ n % Thereafter = 0)

\* The first Initial, then every Thereafter-th.
Passes(n) == n <= Initial \/ (Thereafter > 0 /\ n % Thereafter = 0)

\* Count the decision and pass the record on, or not.
Decide(g) ==
    /\ pc[g] = "decide"
    /\ log' = Append(log, [ts |-> ts[g], window |-> resetAt, number |-> got[g], kept |-> Passes(got[g])])
    /\ Goto(g, "idle")
    /\ UNCHANGED <<counter, locals, started, firsts, overlap>>

Finished ==
    /\ started = MaxRecords /\ \A g \in Goroutines : pc[g] = "idle"
    /\ UNCHANGED vars

Next == \/ \E g \in Goroutines : \/ Begin(g) \/ Load(g) \/ Add(g) \/ Store(g)
                                 \/ CompareAndSwap(g) \/ Decide(g)
        \/ Finished

Spec == Init /\ [][Next]_vars

-----------------------------------------------------------------------------
(* Properties *)

\* Every variable keeps its type.
TypeOK ==
    /\ resetAt \in Windows
    /\ count \in Nat
    /\ pc \in [Goroutines -> {"idle", "load", "add", "store", "cas", "decide"}]
    /\ ts \in [Goroutines -> 0 .. MaxTime]
    /\ resetAfter \in [Goroutines -> Nat]
    /\ got \in [Goroutines -> Nat]
    /\ started \in 0 .. MaxRecords
    /\ log \in Seq([ts : Nat, window : Nat, number : Nat, kept : BOOLEAN])
    /\ firsts \in [Windows -> Nat]
    /\ overlap \in BOOLEAN

\* The end of the window never moves back, though goroutines with older and
\* newer records race to open one (logger.go:1783).
WindowAdvances == [][resetAt' >= resetAt]_resetAt

\* How many records of one window pass for being among its first, though the
\* stamps come in any order: one opens the window, and the others share the
\* numbers from 2 to Initial that follow a reset of the count.  The window can
\* see a reset less than two for each goroutine: one for a window it read
\* before, which it does not open any more, and one for the next, which it may
\* not open for a long time (logger.go:1781, 1325).
OverAdmissionBounded ==
    Initial > 0 =>
        \A w \in Windows : firsts[w] <= 1 + (Initial - 1) * (2 * Cardinality(Goroutines) - 1)

\* A window by the book: its end and the records it has seen, after each record.
Book[i \in 0 .. MaxRecords] ==
    IF i = 0 THEN [end |-> 0, seen |-> 0]
    ELSE IF Book[i - 1].end > log[i].ts THEN [Book[i - 1] EXCEPT !.seen = @ + 1]
    ELSE [end |-> log[i].ts + Tick, seen |-> 1]

\* Records handled one after the other, with their stamps in any order, pass
\* exactly when their number in the window is at most Initial or a multiple of
\* Thereafter (logger.go:1824, 1877).  zap's sampler, to which logger.go:1758
\* and README.md:21 liken this one, counts every Thereafter-th from the end of
\* the first Initial instead: as often, but other records.
ExactWhenSequential ==
    ~overlap =>
        \A i \in 1 .. Len(log) :
            log[i].kept <=> \/ Book[i].seen <= Initial
                            \/ Thereafter > 0 /\ Book[i].seen % Thereafter = 0

OfWindow(w) == {i \in 1 .. Len(log) : log[i].ts \in w - Tick .. w - 1}

\* The first Initial records of a window are kept: once every record begun is
\* decided, one of a window is dropped only if Initial others of it are kept.
FirstOfWindowKept ==
    (\A g \in Goroutines : pc[g] = "idle") =>
        \A i \in 1 .. Len(log) : ~log[i].kept /\ i \in OfWindow(log[i].window) =>
            Cardinality({j \in OfWindow(log[i].window) : log[j].kept}) >= Initial

=============================================================================
