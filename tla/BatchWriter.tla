----------------------------- MODULE BatchWriter -----------------------------
(***************************************************************************)
(* batchWriter of logger.go: a bufio.Writer behind a mutex, flushed when   *)
(* it reaches a threshold, by a timer, and by Close.                       *)
(*                                                                         *)
(* The mutex is held from the start of Write to its end; each pass of      *)
(* bufio's loop is a step.  flush and Close are one step each.  A line of  *)
(* n bytes is the sequence n, n-1, .., 1 under its writer and call, so a   *)
(* byte tells how many of its line follow.                                 *)
(***************************************************************************)
EXTENDS Integers, Sequences, FiniteSets

CONSTANTS
    Writers,     \* goroutines that write
    Nobody,      \* the owner of a free mutex
    MaxWrites,   \* bound: lines each of them writes
    LineLens,    \* lengths of lines
    Size,        \* capacity of the bufio.Writer: max(batchSize*1024, 65536)
    Threshold,   \* batchSize*1024
    MaxFaults,   \* bound: times the underlying writer fails
    Faults       \* how it fails: a subset of {"error", "panic"}

ASSUME WriterAssumption    == Nobody \notin Writers
ASSUME LineAssumption      == LineLens \subseteq Nat \ {0}
ASSUME SizeAssumption      == Size \in Nat /\ Threshold \in 1 .. Size
ASSUME BoundAssumption     == MaxWrites \in Nat /\ MaxFaults \in Nat
ASSUME FaultAssumption     == Faults \subseteq {"error", "panic"}

Lines == Writers \X (1 .. MaxWrites)
Bytes == [line : Lines, left : Nat \ {0}]

VARIABLES
    mu,       \* owner of the mutex
    buf,      \* bytes in the bufio.Writer
    err,      \* bufio.Writer.err is set
    closed,
    timer,    \* "armed", "fired" when its goroutine waits to flush, "stopped"
    pc, calls, rest,  \* writers: rest is what Write has still to copy
    alive,    \* the process has not crashed
    closer,   \* the goroutine in Close: "idle" or how Close ended
    faults,   \* faults so far
    sent,     \* history: bytes the bufio.Writer is done with
    out,      \* history: bytes the underlying writer took
    cuts,     \* history: which of sent each call that succeeded took: <<from, to>>
    result    \* history: how the Write of each line ended

writerVars == <<pc, calls, rest>>
vars == <<mu, buf, err, closed, timer, writerVars, alive, closer, faults, sent, out, cuts, result>>

Line(w) == <<w, calls[w]>>
LineBytes(l, n) == [i \in 1 .. n |-> [line |-> l, left |-> n + 1 - i]]

\* Fault: the buffer counts as full one byte early.
RoomLessOne == Size - Len(buf) - 1

\* bufio.Writer.Available.
Room == Size - Len(buf)

Init ==
    /\ mu = Nobody
    /\ buf = <<>>
    /\ err = FALSE
    /\ closed = FALSE
    /\ timer = "armed"
    /\ pc = [w \in Writers |-> "idle"]
    /\ calls = [w \in Writers |-> 0]
    /\ rest = [w \in Writers |-> <<>>]
    /\ alive = TRUE
    /\ closer = "idle"
    /\ faults = 0
    /\ sent = <<>>
    /\ out = <<>>
    /\ cuts = {}
    /\ result = [l \in Lines |-> "none"]

-----------------------------------------------------------------------------
(* The underlying writer: one call with the bytes of chunk *)

Takes(chunk) ==
    /\ sent' = sent \o chunk
    /\ out' = out \o chunk

MayFail(kind) == kind \in Faults /\ faults < MaxFaults /\ faults' = faults + 1

\* The call took all the bytes it was given.
Cut == cuts' = cuts \cup {<<Len(sent), Len(sent')>>}

\* It takes everything; bufio is empty afterwards.
FlushOk(chunk) ==
    /\ Takes(chunk) /\ Cut
    /\ buf' = <<>>
    /\ UNCHANGED <<err, faults>>

\* Fault: bufio forgets what the underlying writer did not take.
FlushFailsAndForgets(chunk) ==
    /\ MayFail("error")
    /\ \E n \in 0 .. Len(chunk) : Takes(SubSeq(chunk, 1, n))
    /\ buf' = <<>>
    /\ err' = TRUE
    /\ UNCHANGED cuts

\* It takes n bytes, perhaps all, and reports an error, which bufio keeps for
\* ever.
FlushFails(chunk) ==
    /\ MayFail("error")
    /\ \E n \in 0 .. Len(chunk) :
          /\ Takes(SubSeq(chunk, 1, n))
          /\ buf' = SubSeq(chunk, n + 1, Len(chunk))
    /\ err' = TRUE
    /\ UNCHANGED cuts

\* It takes n bytes and panics: bufio does not learn of them, and its fields
\* stay.
FlushPanics(chunk) ==
    /\ MayFail("panic")
    /\ \E n \in 0 .. Len(chunk) : out' = out \o SubSeq(chunk, 1, n)
    /\ buf' = chunk
    /\ UNCHANGED <<err, sent, cuts>>

-----------------------------------------------------------------------------
(* Write *)

Unlock == mu' = Nobody

Returns(w, res) ==
    /\ result' = [result EXCEPT ![Line(w)] = res]
    /\ pc' = [pc EXCEPT ![w] = "idle"]
    /\ rest' = [rest EXCEPT ![w] = <<>>]

\* FastHandler recovers the panic; nobody unlocks the mutex.
PanicsOut(w) == Returns(w, "panic") /\ UNCHANGED mu

\* A Write that takes the mutex and ends at once, with nothing written.
WriteEndsAtOnce(w, res) ==
    /\ pc[w] = "idle" /\ mu = Nobody /\ calls[w] < MaxWrites
    /\ calls' = [calls EXCEPT ![w] = @ + 1]
    /\ result' = [result EXCEPT ![<<w, calls'[w]>>] = res]
    /\ UNCHANGED <<mu, buf, err, closed, timer, pc, rest, alive, closer, faults, sent, out, cuts>>

\* After Close: io.EOF.
WriteClosed(w) == closed /\ WriteEndsAtOnce(w, "eof")

\* bufio kept an earlier error: Write returns it without trying again.
WriteRefused(w) == ~closed /\ err /\ WriteEndsAtOnce(w, "refused")

\* Fault: Write does not test closed.
WriteBeginIgnoresClosed(w) ==
    /\ pc[w] = "idle" /\ mu = Nobody /\ calls[w] < MaxWrites
    /\ ~err
    /\ mu' = w
    /\ calls' = [calls EXCEPT ![w] = @ + 1]
    /\ pc' = [pc EXCEPT ![w] = "copy"]
    /\ \E n \in LineLens : rest' = [rest EXCEPT ![w] = LineBytes(<<w, calls'[w]>>, n)]
    /\ UNCHANGED <<buf, err, closed, timer, alive, closer, faults, sent, out, cuts, result>>

\* Fault: Write does not hold the mutex.
WriteBeginUnlocked(w) ==
    /\ pc[w] = "idle" /\ calls[w] < MaxWrites
    /\ ~closed /\ ~err
    /\ calls' = [calls EXCEPT ![w] = @ + 1]
    /\ pc' = [pc EXCEPT ![w] = "copy"]
    /\ \E n \in LineLens : rest' = [rest EXCEPT ![w] = LineBytes(<<w, calls'[w]>>, n)]
    /\ UNCHANGED <<mu, buf, err, closed, timer, alive, closer, faults, sent, out, cuts, result>>

WriteBegin(w) ==
    /\ pc[w] = "idle" /\ mu = Nobody /\ calls[w] < MaxWrites
    /\ ~closed /\ ~err
    /\ mu' = w
    /\ calls' = [calls EXCEPT ![w] = @ + 1]
    /\ pc' = [pc EXCEPT ![w] = "copy"]
    /\ \E n \in LineLens : rest' = [rest EXCEPT ![w] = LineBytes(<<w, calls'[w]>>, n)]
    /\ UNCHANGED <<buf, err, closed, timer, alive, closer, faults, sent, out, cuts, result>>

\* bufio: a line that does not fit an empty buffer goes straight through.
WriteThrough(w) ==
    /\ pc[w] = "copy" /\ ~err /\ Len(rest[w]) > Room /\ buf = <<>>
    /\ \/ /\ Takes(rest[w]) /\ Cut
          /\ rest' = [rest EXCEPT ![w] = <<>>]
          /\ UNCHANGED <<mu, err, faults, pc, result>>
       \/ /\ MayFail("error")
          /\ \E n \in 0 .. Len(rest[w]) :
                /\ Takes(SubSeq(rest[w], 1, n))
                /\ rest' = [rest EXCEPT ![w] = SubSeq(@, n + 1, Len(@))]
          /\ err' = TRUE
          /\ UNCHANGED <<mu, pc, cuts, result>>
       \/ /\ MayFail("panic")
          /\ \E n \in 0 .. Len(rest[w]) : Takes(SubSeq(rest[w], 1, n))
          /\ PanicsOut(w)
          /\ UNCHANGED <<err, cuts>>
    /\ UNCHANGED <<buf, closed, timer, calls, alive, closer>>

\* bufio: fill the buffer with a part of the line and flush it.
FillAndFlush(w) ==
    /\ pc[w] = "copy" /\ ~err /\ Len(rest[w]) > Room /\ buf # <<>>
    /\ LET full == buf \o SubSeq(rest[w], 1, Room)
           left == SubSeq(rest[w], Room + 1, Len(rest[w]))
       IN  \/ /\ FlushOk(full) \/ FlushFails(full)
              /\ rest' = [rest EXCEPT ![w] = left]
              /\ UNCHANGED <<mu, pc, result>>
           \/ FlushPanics(full) /\ PanicsOut(w)
    /\ UNCHANGED <<closed, timer, calls, alive, closer>>

\* bufio: the rest fits.
CopyRest(w) ==
    /\ pc[w] = "copy" /\ ~err /\ Len(rest[w]) <= Room
    /\ buf' = buf \o rest[w]
    /\ IF Len(buf') >= Threshold
       THEN /\ pc' = [pc EXCEPT ![w] = "threshold"]
            /\ rest' = [rest EXCEPT ![w] = <<>>]
            /\ UNCHANGED <<mu, result>>
       ELSE Returns(w, "ok") /\ Unlock
    /\ UNCHANGED <<err, closed, timer, calls, alive, closer, faults, sent, out, cuts>>

\* Fault: the error of the loop is not returned.
WriteFailsSilently(w) ==
    /\ pc[w] = "copy" /\ err
    /\ Returns(w, "ok") /\ Unlock
    /\ UNCHANGED <<buf, err, closed, timer, calls, alive, closer, faults, sent, out, cuts>>

\* The loop met an error.
WriteFails(w) ==
    /\ pc[w] = "copy" /\ err
    /\ Returns(w, "error") /\ Unlock
    /\ UNCHANGED <<buf, err, closed, timer, calls, alive, closer, faults, sent, out, cuts>>

ThresholdFlush(w) ==
    /\ pc[w] = "threshold"
    /\ \/ FlushOk(buf) /\ Returns(w, "ok") /\ Unlock
       \/ FlushFails(buf) /\ Returns(w, "error") /\ Unlock
       \/ FlushPanics(buf) /\ PanicsOut(w)
    /\ UNCHANGED <<closed, timer, calls, alive, closer>>

-----------------------------------------------------------------------------
(* The timer and Close *)

TimerFires ==
    /\ timer = "armed"
    /\ timer' = "fired"
    /\ UNCHANGED <<mu, buf, err, closed, writerVars, alive, closer, faults, sent, out, cuts, result>>

\* Fault: flush re-arms the timer only when it had something to write.
TimerFlushLazy ==
    /\ timer = "fired" /\ mu = Nobody
    /\ \/ /\ ~closed /\ ~err /\ buf # <<>>
          /\ FlushOk(buf) \/ FlushFails(buf)
          /\ timer' = "armed"
       \/ /\ closed \/ err \/ buf = <<>>
          /\ timer' = "stopped"
          /\ UNCHANGED <<buf, err, faults, sent, out, cuts>>
    /\ UNCHANGED <<mu, closed, writerVars, alive, closer, result>>

\* flush, in the goroutine of time.AfterFunc.  Its error is ignored; a panic
\* unlocks and ends the process, for nothing recovers it.
TimerFlush ==
    /\ timer = "fired" /\ mu = Nobody
    /\ \/ /\ closed
          /\ timer' = "stopped"
          /\ UNCHANGED <<buf, err, faults, sent, out, cuts, alive>>
       \/ /\ ~closed /\ (err \/ buf = <<>>)
          /\ timer' = "armed"
          /\ UNCHANGED <<buf, err, faults, sent, out, cuts, alive>>
       \/ /\ ~closed /\ ~err /\ buf # <<>>
          /\ FlushOk(buf) \/ FlushFails(buf)
          /\ timer' = "armed"
          /\ UNCHANGED alive
       \/ /\ ~closed /\ ~err /\ buf # <<>>
          /\ FlushPanics(buf)
          /\ alive' = FALSE
          /\ UNCHANGED timer
    /\ UNCHANGED <<mu, closed, writerVars, closer, result>>

\* Close, called once, by Sync, which recovers a panic.
Close ==
    /\ closer = "idle" /\ mu = Nobody
    /\ \/ /\ \/ buf # <<>> /\ ~err /\ FlushOk(buf) /\ closer' = "ok"
             \/ buf # <<>> /\ ~err /\ FlushFails(buf) /\ closer' = "error"
             \/ buf # <<>> /\ err /\ closer' = "error" /\ UNCHANGED <<buf, err, faults, sent, out, cuts>>
             \/ buf = <<>> /\ closer' = "ok" /\ UNCHANGED <<buf, err, faults, sent, out, cuts>>
          /\ closed' = TRUE
          /\ timer' = IF timer = "armed" THEN "stopped" ELSE timer
       \/ /\ buf # <<>> /\ ~err /\ FlushPanics(buf)
          /\ closer' = "panic"
          /\ UNCHANGED <<closed, timer>>
    /\ UNCHANGED <<mu, writerVars, alive, result>>

-----------------------------------------------------------------------------
(* Specification *)

Writer(w) == \/ WriteClosed(w) \/ WriteRefused(w) \/ WriteBegin(w)
             \/ WriteThrough(w) \/ FillAndFlush(w) \/ CopyRest(w)
             \/ WriteFails(w) \/ ThresholdFlush(w)

\* A panic has left the mutex to nobody.
Stuck == mu # Nobody /\ pc[mu] = "idle"

\* The writers are through and the sink is closed, or a panic has ended it all;
\* a system that stops anywhere else has deadlocked.
Finished ==
    /\ \/ ~alive
       \/ Stuck
       \/ /\ \A w \in Writers : pc[w] = "idle" /\ calls[w] = MaxWrites
          /\ closer # "idle"
    /\ UNCHANGED vars

Next == \/ alive /\ (\/ \E w \in Writers : Writer(w)
                     \/ TimerFires \/ TimerFlush
                     \/ Close)
        \/ Finished

Spec == Init /\ [][Next]_vars

\* A Write that holds the mutex goes on, the runtime fires the timer, and the
\* mutex does not starve the timer's goroutine.
Fairness ==
    /\ \A w \in Writers : WF_vars(alive /\ pc[w] # "idle" /\ Writer(w))
    /\ WF_vars(alive /\ TimerFires)
    /\ SF_vars(alive /\ TimerFlush)

FairSpec == Spec /\ Fairness

-----------------------------------------------------------------------------
(* Properties *)

\* Every variable keeps its type.
TypeOK ==
    /\ mu \in Writers \cup {Nobody}
    /\ buf \in Seq(Bytes)
    /\ Len(buf) <= Size
    /\ err \in BOOLEAN
    /\ closed \in BOOLEAN
    /\ timer \in {"armed", "fired", "stopped"}
    /\ pc \in [Writers -> {"idle", "copy", "threshold"}]
    /\ calls \in [Writers -> 0 .. MaxWrites]
    /\ rest \in [Writers -> Seq(Bytes)]
    /\ alive \in BOOLEAN
    /\ closer \in {"idle", "ok", "error", "panic"}
    /\ faults \in 0 .. MaxFaults
    /\ sent \in Seq(Bytes)
    /\ out \in Seq(Bytes)
    /\ cuts \subseteq Nat \X Nat
    /\ result \in [Lines -> {"none", "ok", "error", "refused", "eof", "panic"}]

Stream == sent \o buf    \* the bytes accepted so far

\* Lines do not mix: after a byte comes the next one of its line, or, when the
\* line is complete, the first one of a line not seen before.
Whole(s) ==
    \A i \in 1 .. Len(s) - 1 :
        IF s[i].left > 1 THEN s[i + 1] = [s[i] EXCEPT !.left = @ - 1]
        ELSE \A j \in 1 .. i : s[j].line # s[i + 1].line

\* The lines accepted do not mix, whoever writes and whatever fails; nor do
\* those the underlying writer has, unless it panicked in Close: there bufio
\* keeps bytes that may have been taken, and the timer goes on (logger.go:389,
\* 404).
WholeLines == Whole(Stream) /\ (closer # "panic" => Whole(out))

\* A Write that reported success has its line in the stream, to the last byte.
AckedInStream ==
    \A l \in Lines : result[l] = "ok"
        => \E i \in 1 .. Len(Stream) : Stream[i] = [line |-> l, left |-> 1]

\* When Close reports success, nothing accepted is left behind in the buffer,
\* and nothing gets into it later (logger.go:396-412).
CloseDelivers == closer = "ok" => buf = <<>>

\* Lines that fit between the threshold and the end of the buffer.
Roomy(l) == \A i \in 1 .. Len(Stream) : Stream[i].line = l => Stream[i].left <= Size - Threshold + 1

\* A call of the underlying writer that succeeds ends with the end of a line, so
\* that a datagram or a rotated file holds whole records.  The one exception: it
\* takes a full buffer, to a byte of a line that began in it and has no room
\* between the threshold and the end of the buffer; so no record is cut twice.
\* With a batch_size of 64 or more that is no room at all (logger.go:349, 375).
WholeRecordsPerWrite ==
    \A c \in cuts :
        LET last == sent[c[2]]
        IN  last.left > 1 =>
                /\ c[2] - c[1] = Size
                /\ c[1] > 0 => sent[c[1]].line # last.line
                /\ ~Roomy(last.line)

\* A record never ends up in two calls of the underlying writer, whatever its
\* length: one datagram holds whole records (logger.go:470-471).
EveryRecordWhole == \A c \in cuts : sent[c[2]].left = 1

\* A flush that failed is retried by the next Write: no Write is refused
\* without having asked the underlying writer (logger.go:389).
NextWriteRetries == \A l \in Lines : result[l] # "refused"

\* Whoever owns the mutex is running Write: a panic of the underlying writer
\* leaves no mutex behind that blocks every later log call.
MutexReleased == \A w \in Writers : mu = w => pc[w] # "idle"

\* No panic of the underlying writer ends the process.
Survives == alive

\* A byte in the buffer is written in the end, unless the underlying writer
\* fails first.
BufferedIsWritten ==
    \A l \in Lines : (\E i \in 1 .. Len(buf) : buf[i] = [line |-> l, left |-> 1])
        ~> faults > 0 \/ \E i \in 1 .. Len(out) : out[i] = [line |-> l, left |-> 1]

-----------------------------------------------------------------------------
(* Refinement *)

Service == INSTANCE ByteStream WITH stream <- Stream, acked <- Len(sent)

\* The buffer skips and reorders no byte, whatever the underlying writer takes
\* before it fails or panics; and it repeats only those of a call that panicked.
ImplementsStream == Service!StreamSpec

=============================================================================
