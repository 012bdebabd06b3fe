------------------------- MODULE AsyncLoggerProofs -------------------------
(***************************************************************************)
(* Proofs about AsyncLogger, for every number of goroutines, shards,       *)
(* slots, entries and calls: types, wake-ups, the ownership of entries,    *)
(* that every record is handled exactly once, what Sync delivers, and that *)
(* the pipeline implements LogService.                                     *)
(***************************************************************************)
EXTENDS AsyncLogger, TLAPS, SequenceTheorems

Holding == {"route", "push", "fallback", "release"}

\* What the types rest on: a producer has an entry exactly between getting it
\* and handing it on; a worker has a batch exactly while it processes one.
TypeInv ==
    /\ TypeOK
    /\ \A p \in Producers : cur[p] \in Objs <=> pc[p] \in Holding
    /\ \A p \in Producers : pc[p] # "idle" => calls[p] \in 1 .. MaxLogs
    /\ \A w \in Shards : batch[w] # <<>> <=> wpc[w] \in {"process", "release"}

USE ShardsAssumption, CapAssumption, BatchAssumption, LogsAssumption, PoolAssumption,
    PanicAssumption, NoEntryAssumption, NoRecordAssumption

\* Splitting a queue at n yields two sequences of its elements.
LEMMA SplitQueue ==
    ASSUME NEW q \in Seq(Objs), NEW n \in 1 .. Len(q)
    PROVE  /\ SubSeq(q, 1, n) \in Seq(Objs) /\ Len(SubSeq(q, 1, n)) = n
           /\ \A i \in 1 .. n : SubSeq(q, 1, n)[i] = q[i]
           /\ SubSeq(q, n + 1, Len(q)) \in Seq(Objs)
           /\ Len(SubSeq(q, n + 1, Len(q))) = Len(q) - n
           /\ \A i \in 1 .. Len(q) - n : SubSeq(q, n + 1, Len(q))[i] = q[n + i]
  OBVIOUS

LEMMA TypeInit == Init => TypeInv
<1> SUFFICES ASSUME Init PROVE TypeInv
  OBVIOUS
<1>1. next \in Shards
  BY DEF Init, Shards
<1>2. queue \in [Shards -> Seq(Objs)] /\ batch \in [Shards -> Seq(Objs)]
  BY DEF Init
<1>3. \A s \in Shards : Len(queue[s]) <= Cap /\ Len(batch[s]) <= BatchCap /\ batch[s] = <<>>
  BY DEF Init
<1>4. calls \in [Producers -> 0 .. MaxLogs] /\ route \in [Producers -> Shards]
  BY DEF Init, Shards
<1>5. QED
  BY <1>1, <1>2, <1>3, <1>4 DEF Init, TypeInv, TypeOK, Holding

SinkStates == {"none", "buffered", "written", "refused", "panicked"}

\* A flush keeps the type of the sink, and changes only buffered records.
LEMMA FlushedType ==
    ASSUME NEW S, NEW snk \in [S -> SinkStates]
    PROVE  /\ Flushed(snk) \in [S -> SinkStates]
           /\ \A r \in S : Flushed(snk)[r] = IF snk[r] = "buffered" THEN "written" ELSE snk[r]
  BY DEF Flushed, SinkStates

\* What the handler chain does to the sink, whichever flush happens.
LEMMA HandleType ==
    ASSUME TypeOK, NEW r \in Records \cup {NoRecord}, Handle(r)
    PROVE  /\ sink' \in [Records \cup {NoRecord} -> SinkStates]
           /\ handles' \in [Records \cup {NoRecord} -> Nat]
           /\ handles' = [handles EXCEPT ![r] = @ + 1]
           /\ closed' = closed
<1> DEFINE snk == [sink EXCEPT ![r] = Outcome(r)]
<1>1. snk \in [Records \cup {NoRecord} -> SinkStates]
  BY DEF TypeOK, Outcome, SinkStates
<1>2. sink' = snk \/ sink' = Flushed(snk)
  BY DEF Handle
<1>3. sink' \in [Records \cup {NoRecord} -> SinkStates]
  <2> HIDE DEF snk
  <2> QED BY <1>1, <1>2, FlushedType
<1>4. QED
  BY <1>3 DEF Handle, TypeOK

\* The record of a call that has begun, and what a producer or a worker holds.
LEMMA HeldType ==
    ASSUME TypeInv
    PROVE  /\ \A p \in Producers : pc[p] # "idle" => Rec(p) \in Records
           /\ \A p \in Producers : pc[p] \in Holding => cur[p] \in Objs
           /\ \A w \in Shards : wpc[w] \in {"process", "release"} =>
                 batch[w] \in Seq(Objs) /\ batch[w] # <<>> /\ Head(batch[w]) \in Objs
<1>1. \A p \in Producers : pc[p] # "idle" => Rec(p) \in Records
  BY DEF TypeInv, Rec, Records
<1>2. \A w \in Shards : wpc[w] \in {"process", "release"} =>
         batch[w] \in Seq(Objs) /\ batch[w] # <<>> /\ Head(batch[w]) \in Objs
  BY DEF TypeInv, TypeOK
<1>3. QED
  BY <1>1, <1>2 DEF TypeInv

LEMMA TypeStep == TypeInv /\ [Next]_vars => TypeInv'
<1> SUFFICES ASSUME TypeInv, [Next]_vars PROVE TypeInv'
  OBVIOUS
<1> USE DEF TypeInv, Holding, producerVars, workerVars, syncVars, ringVars, entryVars, sinkVars
<1>1. ASSUME NEW p \in Producers, LogStart(p) PROVE TypeInv'
  <2>1. calls' \in [Producers -> 0 .. MaxLogs] /\ calls'[p] \in 1 .. MaxLogs
    BY <1>1 DEF LogStart, TypeOK
  <2>2. pc'[p] \in {"acquire", "direct"}
    BY <1>1 DEF LogStart, TypeOK
  <2>3. QED
    BY <1>1, <2>1, <2>2 DEF LogStart, TypeOK
<1>2. ASSUME NEW p \in Producers, Direct(p) PROVE TypeInv'
  BY <1>2, HeldType, HandleType DEF Direct, TypeOK, SinkStates
<1>3. ASSUME NEW p \in Producers, Acquire(p) PROVE TypeInv'
  <2>1. PICK o \in Objs : /\ cur' = [cur EXCEPT ![p] = o]
                          /\ msg' = [msg EXCEPT ![o] = Rec(p)]
                          /\ pool' = pool \ {o}
    BY <1>3 DEF Acquire, TypeOK
  <2>2. Rec(p) \in Records
    BY <1>3, HeldType DEF Acquire
  <2>3. msg' \in [Objs -> Records \cup {NoRecord}] /\ pool' \subseteq Objs
    BY <2>1, <2>2 DEF TypeOK
  <2>4. QED
    BY <1>3, <2>1, <2>3 DEF Acquire, TypeOK
<1>4. ASSUME NEW p \in Producers, Route(p) PROVE TypeInv'
  <2>1. next' \in Shards
    BY <1>4 DEF Route, TypeOK, Shards
  <2>2. route' \in [Producers -> Shards]
    BY <1>4, <2>1 DEF Route, TypeOK
  <2>3. QED
    BY <1>4, <2>1, <2>2 DEF Route, TypeOK
<1>5. ASSUME NEW p \in Producers, Push(p) PROVE TypeInv'
  <2>1. cur[p] \in Objs /\ Rec(p) \in Records /\ route[p] \in Shards
    BY <1>5, HeldType DEF Push, TypeOK
  <2>2. CASE pc'[p] = "notify"
    <3>1. queue' = [queue EXCEPT ![route[p]] = Append(@, cur[p])] /\ Len(queue[route[p]]) < Cap
      BY <1>5, <2>2 DEF Push, TypeOK
    <3>2. queue' \in [Shards -> Seq(Objs)] /\ \A s \in Shards : Len(queue'[s]) <= Cap
      BY <2>1, <3>1 DEF TypeOK
    <3>3. /\ cur' = [cur EXCEPT ![p] = NoEntry]
          /\ pc' = [pc EXCEPT ![p] = "notify"]
          /\ via' = [via EXCEPT ![Rec(p)] = route[p]]
      BY <1>5, <2>2 DEF Push, TypeOK
    <3>4. /\ cur' \in [Producers -> Objs \cup {NoEntry}]
          /\ via' \in [Records -> Shards \cup {OffRing}]
          /\ \A q \in Producers : cur'[q] \in Objs <=> pc'[q] \in Holding
      BY <2>1, <3>3 DEF TypeOK
    <3>5. QED
      BY <1>5, <3>2, <3>3, <3>4 DEF Push, TypeOK
  <2>3. CASE pc'[p] # "notify"
    <3>1. pc' = [pc EXCEPT ![p] = "fallback"] /\ UNCHANGED <<queue, cur, via>>
      BY <1>5, <2>3 DEF Push, TypeOK
    <3>2. /\ pc[p] = "push"
          /\ UNCHANGED <<calls, route, next, notify, workerVars, syncVars, entryVars, sinkVars>>
      BY <1>5 DEF Push
    <3>3. /\ pc' \in [Producers -> {"idle", "direct", "acquire", "route", "push", "notify", "fallback", "release"}]
          /\ \A q \in Producers : /\ pc'[q] \in Holding <=> pc[q] \in Holding
                                  /\ pc'[q] = "idle" <=> pc[q] = "idle"
      BY <3>1, <3>2 DEF TypeOK
    <3> HIDE <1>5, <2>1, <2>3
    <3>4. QED
      BY <3>1, <3>2, <3>3 DEF TypeOK
  <2>4. QED
    BY <2>2, <2>3
<1>6. ASSUME NEW p \in Producers, Notify(p) PROVE TypeInv'
  BY <1>6 DEF Notify, TypeOK
<1>7. ASSUME NEW p \in Producers, Fallback(p) PROVE TypeInv'
  BY <1>7, HeldType, HandleType DEF Fallback, TypeOK, SinkStates
<1>8. ASSUME NEW p \in Producers, FallbackRelease(p) PROVE TypeInv'
  BY <1>8, HeldType DEF FallbackRelease, Release, TypeOK
<1>9. ASSUME NEW w \in Shards, PopSome(w) PROVE TypeInv'
  <2> DEFINE n == IF Len(queue[w]) < BatchCap THEN Len(queue[w]) ELSE BatchCap
  <2>1. queue[w] \in Seq(Objs) /\ n \in 1 .. Len(queue[w]) /\ n <= BatchCap
    BY <1>9 DEF PopSome, TypeOK
  <2>2. /\ batch' = [batch EXCEPT ![w] = SubSeq(queue[w], 1, n)]
        /\ queue' = [queue EXCEPT ![w] = SubSeq(queue[w], n + 1, Len(queue[w]))]
    BY <1>9 DEF PopSome
  <2> HIDE DEF n
  <2>3. batch' \in [Shards -> Seq(Objs)] /\ queue' \in [Shards -> Seq(Objs)]
    BY <2>1, <2>2, SplitQueue DEF TypeOK
  <2>4. Len(batch'[w]) = n /\ Len(queue'[w]) = Len(queue[w]) - n
    BY <2>1, <2>2, SplitQueue DEF TypeOK
  <2>5. batch'[w] # <<>> /\ \A v \in Shards : Len(queue'[v]) <= Cap /\ Len(batch'[v]) <= BatchCap
    <3>1. batch'[w] # <<>>
      BY <2>1, <2>4
    <3>2. ASSUME NEW v \in Shards, v # w
          PROVE  queue'[v] = queue[v] /\ batch'[v] = batch[v]
      BY <2>2, <3>2 DEF TypeOK
    <3>3. Len(queue'[w]) <= Cap /\ Len(batch'[w]) <= BatchCap
      BY <2>1, <2>4 DEF TypeOK
    <3>4. QED
      BY <3>1, <3>2, <3>3 DEF TypeOK
  <2>6. QED
    BY <1>9, <2>2, <2>3, <2>5, SMTT(20) DEF PopSome, TypeOK
<1>10. ASSUME NEW w \in Shards, PopNone(w) PROVE TypeInv'
  BY <1>10 DEF PopNone, TypeOK
<1>11. ASSUME NEW w \in Shards, Process(w) PROVE TypeInv'
  BY <1>11, HeldType, HandleType DEF Process, TypeOK, SinkStates
<1>12. ASSUME NEW w \in Shards, ProcessRelease(w) PROVE TypeInv'
  <2>1. batch[w] \in Seq(Objs) /\ batch[w] # <<>> /\ Head(batch[w]) \in Objs
    BY <1>12, HeldType DEF ProcessRelease
  <2>2. Tail(batch[w]) \in Seq(Objs) /\ Len(Tail(batch[w])) = Len(batch[w]) - 1
    BY <2>1
  <2>3. batch' \in [Shards -> Seq(Objs)] /\ \A v \in Shards : Len(batch'[v]) <= BatchCap
    BY <1>12, <2>2 DEF ProcessRelease, TypeOK
  <2>4. batch'[w] = <<>> <=> Len(batch[w]) = 1
    <3>1. batch'[w] = Tail(batch[w])
      BY <1>12 DEF ProcessRelease, TypeOK
    <3>2. Len(batch[w]) \in Nat
      BY <2>1
    <3>3. Tail(batch[w]) = <<>> <=> Len(Tail(batch[w])) = 0
      BY <2>2, EmptySeq
    <3>4. QED
      BY <2>2, <3>1, <3>2, <3>3
  <2>5. msg' \in [Objs -> Records \cup {NoRecord}] /\ pool' \subseteq Objs
    BY <1>12, <2>1 DEF ProcessRelease, Release, TypeOK
  <2>6. QED
    <3>1. /\ wpc' \in [Shards -> {"drain", "process", "release", "select", "done"}]
          /\ \A v \in Shards : batch'[v] # <<>> <=> wpc'[v] \in {"process", "release"}
      BY <1>12, <2>1, <2>4 DEF ProcessRelease, TypeOK
    <3>2. UNCHANGED <<stopping, producerVars, syncVars, ringVars, sinkVars, via>>
      BY <1>12 DEF ProcessRelease
    <3>3. QED
      BY <2>3, <2>5, <3>1, <3>2 DEF TypeOK
<1>13. ASSUME NEW w \in Shards, WakeStop(w) \/ WakeNotify(w) \/ WakeTick(w) PROVE TypeInv'
  <2>1. /\ wpc' \in [Shards -> {"drain", "process", "release", "select", "done"}]
        /\ \A v \in Shards : wpc'[v] \in {"process", "release"} <=> wpc[v] \in {"process", "release"}
    BY <1>13 DEF WakeStop, WakeNotify, WakeTick, TypeOK
  <2>2. stopping' \in [Shards -> BOOLEAN] /\ notify' \in [Shards -> BOOLEAN]
    BY <1>13 DEF WakeStop, WakeNotify, WakeTick, TypeOK
  <2>3. UNCHANGED <<batch, producerVars, syncVars, asyncEnabled, next, queue, entryVars, sinkVars, via>>
    BY <1>13 DEF WakeStop, WakeNotify, WakeTick
  <2>4. QED
    BY <2>1, <2>2, <2>3 DEF TypeOK
<1>14. ASSUME NEW c \in Syncers, Syncer(c) PROVE TypeInv'
  <2>1. CASE SyncBegin(c) \/ SyncAgain(c) \/ DisableAsync(c)
    <3>1. CASE SyncBegin(c)
      BY <3>1 DEF SyncBegin, TypeOK, Returned
    <3>2. CASE SyncAgain(c)
      BY <3>2 DEF SyncAgain, TypeOK
    <3>3. CASE DisableAsync(c)
      BY <3>3 DEF DisableAsync, TypeOK
    <3>4. QED
      BY <2>1, <3>1, <3>2, <3>3
  <2>2. ASSUME NEW w \in Shards, StopWorker(c, w) PROVE TypeInv'
    BY <2>2 DEF StopWorker, TypeOK
  <2>3. CASE CloseSink(c)
    BY <2>3, FlushedType DEF CloseSink, TypeOK, SinkStates
  <2>4. QED
    BY <1>14, <2>1, <2>2, <2>3 DEF Syncer
<1>15. CASE TimerFlush
  BY <1>15, FlushedType DEF TimerFlush, TypeOK, SinkStates
<1>16. CASE UNCHANGED vars
  BY <1>16 DEF TypeOK, vars
<1>17. QED
  BY <1>1, <1>2, <1>3, <1>4, <1>5, <1>6, <1>7, <1>8, <1>9, <1>10, <1>11, <1>12, <1>13, <1>14, <1>15, <1>16
     DEF Next, Producer, Worker, Finished

\* AsyncLogger keeps its types.
THEOREM TypeCorrect == Spec => []TypeOK
<1>1. Spec => []TypeInv
  BY TypeInit, TypeStep, PTL DEF Spec
<1>2. TypeInv => TypeOK
  BY DEF TypeInv
<1>3. QED
  BY <1>1, <1>2, PTL

\* The mailbox of one slot loses no wake-up.
THEOREM WakeupSafe == Spec => []NoLostWakeup
<1>1. Init => NoLostWakeup
  BY DEF Init, NoLostWakeup
<1>2. TypeInv /\ NoLostWakeup /\ [Next]_vars => NoLostWakeup'
  <2> SUFFICES ASSUME TypeInv, NoLostWakeup, [Next]_vars,
                      NEW w \in Shards, wpc'[w] = "select", queue'[w] # <<>>
               PROVE  notify'[w] \/ \E p \in Producers : pc'[p] = "notify" /\ route'[p] = w
    BY DEF NoLostWakeup
  <2> USE DEF TypeInv, TypeOK, producerVars, workerVars, syncVars, ringVars, entryVars, sinkVars
  <2>1. CASE \E p \in Producers : Push(p)
    <3> PICK p \in Producers : Push(p)
      BY <2>1
    <3>1. CASE pc'[p] = "notify" /\ route[p] = w
      BY <3>1 DEF Push
    <3>2. CASE ~(pc'[p] = "notify" /\ route[p] = w)
      <4>1. wpc[w] = "select" /\ queue[w] # <<>> /\ notify' = notify /\ route' = route
        BY <3>2 DEF Push
      <4>2. \A q \in Producers : pc[q] = "notify" => pc'[q] = "notify"
        BY DEF Push
      <4>3. QED
        BY <4>1, <4>2 DEF NoLostWakeup
    <3>3. QED
      BY <3>1, <3>2
  <2>2. CASE \E p \in Producers : Notify(p)
    BY <2>2 DEF Notify, NoLostWakeup
  <2>3. CASE \E p \in Producers : \/ LogStart(p) \/ Direct(p) \/ Acquire(p) \/ Route(p)
                                  \/ Fallback(p) \/ FallbackRelease(p)
    BY <2>3 DEF LogStart, Direct, Acquire, Route, Fallback, FallbackRelease, NoLostWakeup
  <2>4. CASE \E v \in Shards : PopSome(v) \/ PopNone(v)
    <3> PICK v \in Shards : PopSome(v) \/ PopNone(v)
      BY <2>4
    <3>1. v # w
      BY DEF PopSome, PopNone
    <3>2. wpc[w] = "select" /\ queue[w] # <<>> /\ notify' = notify /\ pc' = pc /\ route' = route
      BY <3>1 DEF PopSome, PopNone
    <3>3. QED
      BY <3>2 DEF NoLostWakeup
  <2>5. CASE \E v \in Shards : Worker(v) /\ ~PopSome(v) /\ ~PopNone(v)
    BY <2>5 DEF Worker, Process, ProcessRelease, WakeStop, WakeNotify, WakeTick, NoLostWakeup
  <2>6. CASE \E c \in Syncers : Syncer(c)
    BY <2>6 DEF Syncer, SyncBegin, SyncAgain, StopWorker, DisableAsync, CloseSink, NoLostWakeup
  <2>7. CASE TimerFlush \/ UNCHANGED vars
    BY <2>7 DEF TimerFlush, vars, NoLostWakeup
  <2>8. QED
    BY <2>1, <2>2, <2>3, <2>4, <2>5, <2>6, <2>7 DEF Next, Producer, Worker, Finished
<1>3. QED
  BY <1>1, <1>2, TypeInit, TypeStep, PTL DEF Spec

-----------------------------------------------------------------------------
(* Ownership of entries *)

LEMMA ElemsAppend ==
    ASSUME NEW q \in Seq(Objs), NEW o \in Objs
    PROVE  /\ Elems(Append(q, o)) = Elems(q) \cup {o}
           /\ Injective(q) /\ o \notin Elems(q) => Injective(Append(q, o))
  BY DEF Elems, Injective

LEMMA ElemsSplit ==
    ASSUME NEW q \in Seq(Objs), NEW n \in 1 .. Len(q), Injective(q)
    PROVE  LET front == SubSeq(q, 1, n)
               back  == SubSeq(q, n + 1, Len(q))
           IN  /\ Elems(front) \subseteq Elems(q) /\ Elems(back) \subseteq Elems(q)
               /\ Elems(q) \subseteq Elems(front) \cup Elems(back)
               /\ Elems(front) \cap Elems(back) = {}
               /\ Injective(front) /\ Injective(back)
<1> DEFINE front == SubSeq(q, 1, n)
           back  == SubSeq(q, n + 1, Len(q))
<1>1. /\ front \in Seq(Objs) /\ Len(front) = n /\ \A i \in 1 .. n : front[i] = q[i]
      /\ back \in Seq(Objs) /\ Len(back) = Len(q) - n
      /\ \A i \in 1 .. Len(q) - n : back[i] = q[n + i]
  BY SplitQueue
<1> HIDE DEF front, back
<1>2. Elems(front) \subseteq Elems(q) /\ Elems(back) \subseteq Elems(q)
  <2>1. \A i \in 1 .. Len(q) - n : n + i \in 1 .. Len(q)
    OBVIOUS
  <2>2. \A i \in 1 .. n : i \in 1 .. Len(q)
    OBVIOUS
  <2>3. Elems(front) \subseteq Elems(q)
    BY <1>1, <2>2 DEF Elems
  <2>4. Elems(back) \subseteq Elems(q)
    BY <1>1, <2>1 DEF Elems
  <2>5. QED
    BY <2>3, <2>4
<1>3. Elems(q) \subseteq Elems(front) \cup Elems(back)
  <2>0. SUFFICES ASSUME NEW i \in 1 .. Len(q) PROVE q[i] \in Elems(front) \cup Elems(back)
    <3> HIDE <1>1, <1>2
    <3> QED  BY DEF Elems
  <2>1. CASE i <= n
    BY <1>1, <2>1 DEF Elems
  <2>2. CASE i > n
    <3>1. i - n \in 1 .. Len(q) - n /\ n + (i - n) = i
      BY <2>2
    <3>2. q[i] = back[i - n]
      BY <1>1, <3>1
    <3>3. QED
      BY <1>1, <3>1, <3>2 DEF Elems
  <2>3. QED
    BY <2>1, <2>2
<1>4. Elems(front) \cap Elems(back) = {}
  BY <1>1 DEF Elems, Injective
<1>5. Injective(front) /\ Injective(back)
  <2>1. Injective(front)
    BY <1>1 DEF Injective
  <2>2. Injective(back)
    BY <1>1 DEF Injective
  <2>3. QED
    BY <2>1, <2>2
<1>6. QED
  BY <1>2, <1>3, <1>4, <1>5 DEF front, back

LEMMA ElemsTail ==
    ASSUME NEW q \in Seq(Objs), q # <<>>, Injective(q)
    PROVE  /\ Elems(Tail(q)) = Elems(q) \ {Head(q)}
           /\ Head(q) \in Elems(q)
           /\ Injective(Tail(q))
<1>1. Tail(q) \in Seq(Objs) /\ Len(Tail(q)) = Len(q) - 1 /\ Len(q) >= 1 /\ Head(q) = q[1]
  OBVIOUS
<1>2. \A i \in 1 .. Len(q) - 1 : Tail(q)[i] = q[i + 1]
  OBVIOUS
<1>3. Head(q) \in Elems(q)
  BY <1>1 DEF Elems
<1>4. ASSUME NEW o PROVE o \in Elems(Tail(q)) <=> o \in Elems(q) /\ o # Head(q)
  <2>1. ASSUME o \in Elems(Tail(q)) PROVE o \in Elems(q) /\ o # Head(q)
    BY <1>1, <1>2, <2>1 DEF Elems, Injective
  <2>2. ASSUME o \in Elems(q), o # Head(q) PROVE o \in Elems(Tail(q))
    <3>1. PICK i \in 1 .. Len(q) : q[i] = o
      BY <2>2 DEF Elems
    <3>2. i - 1 \in 1 .. Len(q) - 1 /\ (i - 1) + 1 = i
      BY <1>1, <2>2, <3>1
    <3>3. Tail(q)[i - 1] = o
      BY <1>2, <3>1, <3>2
    <3>4. QED
      BY <1>1, <3>2, <3>3 DEF Elems
  <2>3. QED
    BY <2>1, <2>2
<1>5. Injective(Tail(q))
  BY <1>1, <1>2 DEF Injective
<1>6. QED
  BY <1>3, <1>4, <1>5

\* What it takes to be in Referenced, place by place.
LEMMA InPlaces ==
    ASSUME NEW c, NEW q, NEW b, NEW o
    PROVE  o \in {c[p] : p \in Producers} \cup (UNION {Elems(q[s]) : s \in Shards})
                                          \cup (UNION {Elems(b[s]) : s \in Shards})
           <=> \/ \E p \in Producers : o = c[p]
               \/ \E s \in Shards : o \in Elems(q[s])
               \/ \E s \in Shards : o \in Elems(b[s])
<1>1. o \in UNION {Elems(q[s]) : s \in Shards} <=> \E s \in Shards : o \in Elems(q[s])
  OBVIOUS
<1>2. o \in UNION {Elems(b[s]) : s \in Shards} <=> \E s \in Shards : o \in Elems(b[s])
  OBVIOUS
<1>3. o \in {c[p] : p \in Producers} <=> \E p \in Producers : o = c[p]
  OBVIOUS
<1>4. QED
  BY <1>1, <1>2, <1>3, Zenon

LEMMA ReferencedIs ==
    \A o : o \in Referenced <=> \/ \E p \in Producers : o = cur[p]
                                \/ \E s \in Shards : o \in Elems(queue[s])
                                \/ \E s \in Shards : o \in Elems(batch[s])
  BY InPlaces, Zenon DEF Referenced

LEMMA ReferencedNext ==
    \A o : o \in Referenced' <=> \/ \E p \in Producers : o = cur'[p]
                                 \/ \E s \in Shards : o \in Elems(queue'[s])
                                 \/ \E s \in Shards : o \in Elems(batch'[s])
  BY InPlaces, Zenon DEF Referenced

\* Steps that leave entries where they are.
LEMMA OwnershipUnchanged ==
    ASSUME EntryOwnership, UNCHANGED <<cur, queue, batch, pool, msg>>
    PROVE  EntryOwnership'
<1>1. HeldApart' /\ HeldNotSent'
  BY DEF EntryOwnership, HeldApart, HeldNotSent, Elems
<1>2. QueuesApart' /\ BatchesApart'
  BY DEF EntryOwnership, QueuesApart, BatchesApart
<1>3. PoppedOnce'
  BY DEF EntryOwnership, PoppedOnce
<1>4. NoRepeats'
  BY DEF EntryOwnership, NoRepeats, Injective
<1>5. PoolIdle'
  BY DEF EntryOwnership, PoolIdle, Referenced, Elems
<1>6. QED
  BY <1>1, <1>2, <1>3, <1>4, <1>5 DEF EntryOwnership

LEMMA OwnershipAcquire ==
    ASSUME TypeInv, EntryOwnership, NEW p \in Producers, Acquire(p)
    PROVE  EntryOwnership'
<1>1. PICK o \in Objs : /\ o \notin Referenced
                        /\ cur' = [cur EXCEPT ![p] = o]
                        /\ msg' = [msg EXCEPT ![o] = Rec(p)]
                        /\ pool' = pool \ {o}
  BY DEF Acquire, TypeInv, TypeOK, EntryOwnership, PoolIdle
<1>2. queue' = queue /\ batch' = batch
  BY DEF Acquire, ringVars, workerVars
<1>3. \A q \in Producers : cur'[q] = IF q = p THEN o ELSE cur[q]
  BY <1>1 DEF TypeInv, TypeOK
<1>4. HeldApart'
  BY <1>1, <1>3, ReferencedIs DEF HeldApart, EntryOwnership
<1>5. HeldNotSent'
  BY <1>1, <1>2, <1>3, ReferencedIs DEF HeldNotSent, EntryOwnership, Elems
<1>6. QueuesApart' /\ BatchesApart' /\ PoppedOnce' /\ NoRepeats'
  <2>1. QueuesApart' /\ BatchesApart'
    BY <1>2 DEF EntryOwnership, QueuesApart, BatchesApart
  <2>2. PoppedOnce'
    BY <1>2 DEF EntryOwnership, PoppedOnce
  <2>3. NoRepeats'
    BY <1>2 DEF EntryOwnership, NoRepeats, Injective
  <2>4. QED
    BY <2>1, <2>2, <2>3
<1>7. PoolIdle'
  <2> SUFFICES ASSUME NEW x \in pool' PROVE x \notin Referenced' /\ msg'[x] = NoRecord
    BY DEF PoolIdle
  <2>1. x \in pool /\ x # o /\ x \in Objs
    BY <1>1 DEF TypeInv, TypeOK
  <2>2. x \notin Referenced /\ msg[x] = NoRecord
    BY <2>1 DEF EntryOwnership, PoolIdle
  <2>3. x \notin Referenced'
    BY <1>2, <1>3, <2>1, <2>2 DEF Referenced, Elems
  <2>4. QED
    BY <1>1, <2>1, <2>2, <2>3 DEF TypeInv, TypeOK
<1>8. QED
  BY <1>4, <1>5, <1>6, <1>7 DEF EntryOwnership

LEMMA OwnershipPush ==
    ASSUME TypeInv, EntryOwnership, NEW p \in Producers, Push(p)
    PROVE  EntryOwnership'
<1> DEFINE s == route[p]  o == cur[p]
<1>1. CASE UNCHANGED queue
  <2>1. UNCHANGED <<cur, queue, batch, pool, msg>>
    <3>1. cur' = cur
      <4>1. SUFFICES ASSUME Len(queue[s]) < Cap, queue' = [queue EXCEPT ![s] = Append(@, o)]
                     PROVE FALSE
        BY DEF Push
      <4>2. o \in Objs /\ s \in Shards /\ queue[s] \in Seq(Objs)
        BY HeldType DEF TypeInv, TypeOK, Push, Holding
      <4>3. Len(Append(queue[s], o)) = Len(queue[s]) + 1 /\ Len(queue[s]) \in Nat
        BY <4>2
      <4>4. queue'[s] = Append(queue[s], o)
        BY <4>1, <4>2 DEF TypeInv, TypeOK
      <4>5. QED
        BY <1>1, <4>3, <4>4
    <3>2. QED
      BY <1>1, <3>1 DEF Push, workerVars, entryVars
  <2>2. QED
    BY <2>1, OwnershipUnchanged
<1>2. CASE queue' # queue
  <2>1. /\ queue' = [queue EXCEPT ![s] = Append(@, o)]
        /\ cur' = [cur EXCEPT ![p] = NoEntry]
        /\ batch' = batch /\ pool' = pool /\ msg' = msg
    BY <1>2 DEF Push, workerVars, entryVars
  <2>2. o \in Objs /\ s \in Shards /\ queue[s] \in Seq(Objs) /\ o # NoEntry
    BY HeldType DEF TypeInv, TypeOK, Push, Holding
  <2>3. o \notin Elems(queue[s]) /\ \A t \in Shards : o \notin Elems(queue[t]) \cup Elems(batch[t])
    BY <2>2 DEF EntryOwnership, HeldNotSent
  <2> HIDE DEF s, o
  <2>4. /\ Elems(queue'[s]) = Elems(queue[s]) \cup {o}
        /\ Injective(queue'[s])
        /\ \A t \in Shards : t # s => queue'[t] = queue[t]
    <3>1. queue'[s] = Append(queue[s], o) /\ \A t \in Shards : t # s => queue'[t] = queue[t]
      BY <2>1, <2>2 DEF TypeInv, TypeOK
    <3>2. Injective(queue[s])
      BY <2>2 DEF EntryOwnership, NoRepeats
    <3>3. QED
      BY <2>2, <2>3, <3>1, <3>2, ElemsAppend
  <2>5. \A q \in Producers : cur'[q] = IF q = p THEN NoEntry ELSE cur[q]
    BY <2>1 DEF TypeInv, TypeOK
  <2>6. HeldApart'
    BY <2>5 DEF HeldApart, EntryOwnership
  <2>7. \A t \in Shards : NoEntry \notin Elems(queue'[t]) \cup Elems(batch'[t])
    <3>1. \A t \in Shards : NoEntry \notin Elems(queue[t]) \cup Elems(batch[t])
      BY DEF TypeInv, TypeOK, Elems
    <3>2. QED
      BY <2>1, <2>2, <2>4, <3>1
  <2>8. HeldNotSent'
    <3> SUFFICES ASSUME NEW q \in Producers, NEW t \in Shards
                 PROVE  cur'[q] \notin Elems(queue'[t]) \cup Elems(batch'[t])
      BY DEF HeldNotSent, Elems
    <3>1. CASE q = p
      BY <2>5, <2>7, <3>1
    <3>2. CASE q # p
      <4>1. cur'[q] = cur[q] /\ cur[q] \notin Elems(queue[t]) \cup Elems(batch[t])
        BY <2>5, <3>2 DEF EntryOwnership, HeldNotSent
      <4>2. cur[q] # o
        BY <2>2, <3>2 DEF EntryOwnership, HeldApart, o
      <4>3. QED
        BY <2>1, <2>4, <4>1, <4>2
    <3>3. QED
      BY <3>1, <3>2
  <2>9. QueuesApart'
    BY <2>2, <2>3, <2>4 DEF QueuesApart, EntryOwnership
  <2>10. PoppedOnce' /\ BatchesApart' /\ NoRepeats'
    <3>1. PoppedOnce'
      <4> SUFFICES ASSUME NEW t \in Shards, NEW u \in Shards PROVE Elems(queue'[t]) \cap Elems(batch'[u]) = {}
        BY DEF PoppedOnce, Elems
      <4>1. Elems(queue[t]) \cap Elems(batch[u]) = {} /\ o \notin Elems(batch[u]) /\ batch'[u] = batch[u]
        BY <2>1, <2>3 DEF PoppedOnce, EntryOwnership
      <4> QED  BY <2>4, <4>1
    <3>2. BatchesApart'
      BY <2>1 DEF BatchesApart, EntryOwnership
    <3>3. NoRepeats'
      <4> SUFFICES ASSUME NEW t \in Shards PROVE Injective(queue'[t]) /\ Injective(batch'[t])
        BY DEF NoRepeats, Injective
      <4>1. Injective(queue[t]) /\ Injective(batch[t]) /\ batch'[t] = batch[t]
        BY <2>1 DEF NoRepeats, EntryOwnership
      <4> QED  BY <2>4, <4>1
    <3> QED  BY <3>1, <3>2, <3>3
  <2>11. PoolIdle'
    <3> SUFFICES ASSUME NEW x \in pool PROVE x \notin Referenced'
      BY <2>1 DEF PoolIdle, EntryOwnership
    <3>1. x \notin Referenced /\ x \in Objs
      BY DEF EntryOwnership, PoolIdle, TypeInv, TypeOK
    <3>2. x # o
      BY <3>1, ReferencedIs DEF o
    <3>3. x # NoEntry
      BY <3>1
    <3>4. QED
      <4>1. \A q \in Producers : x # cur'[q]
        BY <2>5, <3>1, <3>3, ReferencedIs
      <4>2. \A t \in Shards : x \notin Elems(queue'[t]) /\ x \notin Elems(batch'[t])
        BY <2>1, <2>4, <3>1, <3>2, ReferencedIs
      <4>3. QED
        BY <4>1, <4>2, ReferencedNext
  <2>12. QED
    BY <2>6, <2>8, <2>9, <2>10, <2>11 DEF EntryOwnership
<1>3. QED
  BY <1>1, <1>2

LEMMA OwnershipFallbackRelease ==
    ASSUME TypeInv, EntryOwnership, NEW p \in Producers, FallbackRelease(p)
    PROVE  EntryOwnership'
<1> DEFINE o == cur[p]
<1>1. /\ cur' = [cur EXCEPT ![p] = NoEntry]
      /\ queue' = queue /\ batch' = batch
      /\ msg' = [msg EXCEPT ![o] = NoRecord]
      /\ pool' \subseteq pool \cup {o}
  BY DEF FallbackRelease, Release, workerVars, ringVars
<1>2. o \in Objs /\ o # NoEntry
  BY HeldType DEF FallbackRelease, Holding
<1> HIDE DEF o
<1>3. \A q \in Producers : cur'[q] = IF q = p THEN NoEntry ELSE cur[q]
  BY <1>1 DEF TypeInv, TypeOK
<1>4. \A t \in Shards : NoEntry \notin Elems(queue[t]) \cup Elems(batch[t])
  BY DEF TypeInv, TypeOK, Elems
<1>5. HeldApart'
  BY <1>3 DEF HeldApart, EntryOwnership
<1>6. HeldNotSent'
  BY <1>1, <1>3, <1>4 DEF HeldNotSent, EntryOwnership
<1>7. QueuesApart' /\ BatchesApart' /\ PoppedOnce' /\ NoRepeats'
  BY <1>1 DEF QueuesApart, BatchesApart, PoppedOnce, NoRepeats, EntryOwnership
<1>8. PoolIdle'
  <2> SUFFICES ASSUME NEW x \in pool' PROVE x \notin Referenced' /\ msg'[x] = NoRecord
    BY DEF PoolIdle
  <2>1. x \in Objs
    BY <1>1, <1>2 DEF TypeInv, TypeOK
  <2>2. CASE x = o
    <3>1. \A q \in Producers : x # cur'[q]
      BY <1>2, <1>3, <2>2 DEF EntryOwnership, HeldApart, o
    <3>2. \A t \in Shards : x \notin Elems(queue[t]) \cup Elems(batch[t])
      BY <2>2 DEF EntryOwnership, HeldNotSent, o
    <3>3. x \notin Referenced'
      BY <1>1, <3>1, <3>2, ReferencedNext
    <3>4. QED
      BY <1>1, <2>1, <2>2, <3>3 DEF TypeInv, TypeOK
  <2>3. CASE x # o
    <3>1. x \in pool
      BY <1>1, <2>3
    <3>2. x \notin Referenced /\ msg[x] = NoRecord
      BY <3>1 DEF EntryOwnership, PoolIdle
    <3>3. x \notin Referenced'
      BY <1>1, <1>3, <2>1, <3>2, ReferencedIs, ReferencedNext, NoEntryAssumption
    <3>4. QED
      BY <1>1, <2>1, <2>3, <3>2, <3>3 DEF TypeInv, TypeOK
  <2>4. QED
    BY <2>2, <2>3
<1>9. QED
  BY <1>5, <1>6, <1>7, <1>8 DEF EntryOwnership

LEMMA OwnershipPopSome ==
    ASSUME TypeInv, EntryOwnership, NEW w \in Shards, PopSome(w)
    PROVE  EntryOwnership'
<1> DEFINE n     == IF Len(queue[w]) < BatchCap THEN Len(queue[w]) ELSE BatchCap
           front == SubSeq(queue[w], 1, n)
           back  == SubSeq(queue[w], n + 1, Len(queue[w]))
<1>1. /\ batch' = [batch EXCEPT ![w] = front] /\ queue' = [queue EXCEPT ![w] = back]
      /\ cur' = cur /\ pool' = pool /\ msg' = msg
  BY DEF PopSome, producerVars, entryVars
<1>2. queue[w] \in Seq(Objs) /\ n \in 1 .. Len(queue[w]) /\ Injective(queue[w])
  BY DEF PopSome, TypeInv, TypeOK, EntryOwnership, NoRepeats
<1>3. /\ Elems(front) \subseteq Elems(queue[w]) /\ Elems(back) \subseteq Elems(queue[w])
      /\ Elems(front) \cap Elems(back) = {}
      /\ Injective(front) /\ Injective(back)
  <2> HIDE DEF n
  <2>1. QED
    BY <1>2, ElemsSplit
<1> HIDE DEF front, back
<1>4. \A t \in Shards : /\ queue'[t] = IF t = w THEN back ELSE queue[t]
                        /\ batch'[t] = IF t = w THEN front ELSE batch[t]
  BY <1>1 DEF TypeInv, TypeOK
<1>5. HeldApart'
  BY <1>1 DEF HeldApart, EntryOwnership
<1>6. HeldNotSent'
  BY <1>1, <1>3, <1>4 DEF HeldNotSent, EntryOwnership
<1>7. QueuesApart'
  BY <1>3, <1>4 DEF QueuesApart, EntryOwnership
<1>8. BatchesApart'
  BY <1>3, <1>4 DEF BatchesApart, PoppedOnce, EntryOwnership
<1>9. PoppedOnce'
  BY <1>3, <1>4 DEF QueuesApart, PoppedOnce, EntryOwnership
<1>10. NoRepeats'
  BY <1>3, <1>4 DEF NoRepeats, EntryOwnership
<1>11. PoolIdle'
  <2>1. \A o \in Referenced' : o \in Referenced
    BY <1>1, <1>3, <1>4, ReferencedIs, ReferencedNext
  <2>2. QED
    BY <1>1, <2>1 DEF PoolIdle, EntryOwnership
<1>12. QED
  BY <1>5, <1>6, <1>7, <1>8, <1>9, <1>10, <1>11 DEF EntryOwnership

LEMMA OwnershipProcessRelease ==
    ASSUME TypeInv, EntryOwnership, NEW w \in Shards, ProcessRelease(w)
    PROVE  EntryOwnership'
<1> DEFINE o == Head(batch[w])
<1>1. /\ batch' = [batch EXCEPT ![w] = Tail(@)]
      /\ queue' = queue /\ cur' = cur
      /\ msg' = [msg EXCEPT ![o] = NoRecord]
      /\ pool' \subseteq pool \cup {o}
  BY DEF ProcessRelease, Release, producerVars, ringVars
<1>2. batch[w] \in Seq(Objs) /\ batch[w] # <<>> /\ o \in Objs /\ Injective(batch[w])
  BY HeldType DEF ProcessRelease, EntryOwnership, NoRepeats
<1>3. /\ Elems(Tail(batch[w])) = Elems(batch[w]) \ {o}
      /\ o \in Elems(batch[w])
      /\ Injective(Tail(batch[w]))
  BY <1>2, ElemsTail
<1> HIDE DEF o
<1>4. \A t \in Shards : batch'[t] = IF t = w THEN Tail(batch[w]) ELSE batch[t]
  BY <1>1 DEF TypeInv, TypeOK
<1>5. HeldApart' /\ QueuesApart'
  BY <1>1 DEF HeldApart, QueuesApart, EntryOwnership
<1>6. HeldNotSent'
  BY <1>1, <1>3, <1>4 DEF HeldNotSent, EntryOwnership
<1>7. BatchesApart'
  BY <1>3, <1>4 DEF BatchesApart, EntryOwnership
<1>8. PoppedOnce'
  BY <1>1, <1>3, <1>4 DEF PoppedOnce, EntryOwnership
<1>9. NoRepeats'
  BY <1>1, <1>3, <1>4 DEF NoRepeats, EntryOwnership
<1>10. PoolIdle'
  <2> SUFFICES ASSUME NEW x \in pool' PROVE x \notin Referenced' /\ msg'[x] = NoRecord
    BY DEF PoolIdle
  <2>1. \A y \in Referenced' : y \in Referenced /\ y # o
    <3>1. \A y \in Referenced' : y \in Referenced
      BY <1>1, <1>3, <1>4, ReferencedIs, ReferencedNext
    <3>2. \A q \in Producers : o # cur'[q]
      BY <1>1, <1>3 DEF EntryOwnership, HeldNotSent
    <3>3. \A t \in Shards : o \notin Elems(queue'[t])
      BY <1>1, <1>3 DEF EntryOwnership, PoppedOnce
    <3>4. \A t \in Shards : o \notin Elems(batch'[t])
      BY <1>3, <1>4 DEF EntryOwnership, BatchesApart
    <3>5. QED
      BY <3>1, <3>2, <3>3, <3>4, ReferencedNext
  <2>2. x \in Objs /\ (x = o \/ x \in pool)
    BY <1>1, <1>2 DEF TypeInv, TypeOK
  <2>3. x \notin Referenced'
    BY <2>1, <2>2 DEF EntryOwnership, PoolIdle
  <2>4. msg'[x] = NoRecord
    BY <1>1, <1>2, <2>2 DEF EntryOwnership, PoolIdle, TypeInv, TypeOK
  <2>5. QED
    BY <2>3, <2>4
<1>11. QED
  BY <1>5, <1>6, <1>7, <1>8, <1>9, <1>10 DEF EntryOwnership

LEMMA OwnershipStep == TypeInv /\ EntryOwnership /\ [Next]_vars => EntryOwnership'
<1> SUFFICES ASSUME TypeInv, EntryOwnership, [Next]_vars PROVE EntryOwnership'
  OBVIOUS
<1> USE DEF producerVars, workerVars, ringVars, entryVars
<1>1. ASSUME NEW p \in Producers, Producer(p) PROVE EntryOwnership'
  <2>1. CASE LogStart(p) \/ Direct(p) \/ Route(p) \/ Notify(p) \/ Fallback(p)
    BY <2>1, OwnershipUnchanged DEF LogStart, Direct, Route, Notify, Fallback
  <2>2. QED
    BY <1>1, <2>1, OwnershipAcquire, OwnershipPush, OwnershipFallbackRelease DEF Producer
<1>2. ASSUME NEW w \in Shards, Worker(w) PROVE EntryOwnership'
  <2>1. CASE PopNone(w) \/ Process(w) \/ WakeStop(w) \/ WakeNotify(w) \/ WakeTick(w)
    BY <2>1, OwnershipUnchanged DEF PopNone, Process, WakeStop, WakeNotify, WakeTick
  <2>2. QED
    BY <1>2, <2>1, OwnershipPopSome, OwnershipProcessRelease DEF Worker
<1>3. ASSUME NEW c \in Syncers, Syncer(c) PROVE EntryOwnership'
  BY <1>3, OwnershipUnchanged DEF Syncer, SyncBegin, SyncAgain, StopWorker, DisableAsync, CloseSink
<1>4. CASE TimerFlush \/ UNCHANGED vars
  BY <1>4, OwnershipUnchanged DEF TimerFlush, vars
<1>5. QED
  BY <1>1, <1>2, <1>3, <1>4 DEF Next, Finished

LEMMA OwnershipInit == Init => EntryOwnership
<1> SUFFICES ASSUME Init PROVE EntryOwnership
  OBVIOUS
<1>1. \A s \in Shards : Elems(queue[s]) = {} /\ Elems(batch[s]) = {}
  BY DEF Init, Elems
<1>2. NoRepeats
  BY DEF Init, NoRepeats, Injective
<1>3. QED
  BY <1>1, <1>2 DEF Init, EntryOwnership, HeldApart, HeldNotSent, QueuesApart, BatchesApart,
                    PoppedOnce, PoolIdle

\* No entry is ever in two places: pooled entries, entries in the ring, in a
\* batch and in the hands of a producer are all different.
THEOREM OwnershipSafe == Spec => []EntryOwnership
  BY TypeInit, TypeStep, OwnershipInit, OwnershipStep, PTL DEF Spec

-----------------------------------------------------------------------------
(***************************************************************************)
(* Every record is handled exactly once.  What carries the proof is        *)
(* Carriers: a record whose chain has not run is with its caller or in     *)
(* exactly one entry, and an entry whose chain has run is about to be      *)
(* released.  Every step is of one of the kinds below, and each kind keeps *)
(* Carriers.                                                               *)
(***************************************************************************)

\* Entries that carry a record, and those of them whose chain has run.
Live == {o \in Objs : o \in Referenced}

Spent(o) == \/ \E p \in Producers : pc[p] = "release" /\ cur[p] = o
            \/ \E w \in Shards : wpc[w] = "release" /\ Head(batch[w]) = o

\* Producers whose record is in no entry yet.
Askers == {p \in Producers : pc[p] \in {"acquire", "direct"}}

Carried(r) == \/ \E p \in Askers : r = Rec(p)
              \/ \E o \in Live : msg[o] = r

HandledOnce  == /\ handles[NoRecord] = 0
                /\ \A r \in Records : handles[r] \in {0, 1} /\ (r \notin Begun => handles[r] = 0)
AskersWait   == \A p \in Askers : handles[Rec(p)] = 0
LiveBegun    == \A o \in Live : msg[o] \in Begun /\ \A p \in Askers : msg[o] # Rec(p)
OneCarrier   == \A o, q \in Live : msg[o] = msg[q] => o = q
SpentHandled == \A o \in Live : handles[msg[o]] = IF Spent(o) THEN 1 ELSE 0
NoneForgotten == \A r \in Begun : handles[r] = 0 => Carried(r)

Carriers == HandledOnce /\ AskersWait /\ LiveBegun /\ OneCarrier /\ SpentHandled /\ NoneForgotten

-----------------------------------------------------------------------------
(* The kinds of steps *)

\* The entries stay what and where they are, or nearly so.
SameEntries == /\ Live' = Live
               /\ \A o \in Live : msg'[o] = msg[o] /\ (Spent(o)' <=> Spent(o))

\* Nothing that matters here.
Still == SameEntries /\ Askers' = Askers /\ UNCHANGED <<calls, handles>>

\* A call begins.
Begins(p) ==
    /\ SameEntries /\ handles' = handles
    /\ p \notin Askers /\ Askers' = Askers \cup {p}
    /\ calls[p] < MaxLogs /\ calls' = [calls EXCEPT ![p] = @ + 1]

\* The caller runs the chain without an entry.
Runs(p) ==
    /\ SameEntries /\ calls' = calls
    /\ p \in Askers /\ Askers' = Askers \ {p}
    /\ handles' = [handles EXCEPT ![Rec(p)] = @ + 1]

\* The caller gets entry o.
Gets(p, o) ==
    /\ UNCHANGED <<calls, handles>>
    /\ p \in Askers /\ Askers' = Askers \ {p}
    /\ o \in Objs \ Live /\ Live' = Live \cup {o}
    /\ msg'[o] = Rec(p) /\ ~Spent(o)'
    /\ \A q \in Live : msg'[q] = msg[q] /\ (Spent(q)' <=> Spent(q))

\* The chain runs on entry o.
Spends(o) ==
    /\ UNCHANGED <<calls, msg>> /\ Live' = Live /\ Askers' = Askers
    /\ o \in Live /\ ~Spent(o) /\ Spent(o)'
    /\ \A q \in Live : q # o => (Spent(q)' <=> Spent(q))
    /\ handles' = [handles EXCEPT ![msg[o]] = @ + 1]

\* Entry o is released.
Drops(o) ==
    /\ UNCHANGED <<calls, handles>> /\ Askers' = Askers
    /\ o \in Live /\ Spent(o) /\ Live' = Live \ {o}
    /\ \A q \in Live : q # o => msg'[q] = msg[q] /\ (Spent(q)' <=> Spent(q))

-----------------------------------------------------------------------------
(* Each kind keeps Carriers *)

LEMMA StillKeeps == ASSUME Carriers, Still PROVE Carriers'
<1>1. Begun' = Begun /\ \A p : Rec(p)' = Rec(p)
  BY DEF Still, Begun, Rec
<1>2. HandledOnce' /\ AskersWait' /\ LiveBegun' /\ OneCarrier'
  BY <1>1 DEF Carriers, Still, SameEntries, HandledOnce, AskersWait, LiveBegun, OneCarrier
<1>3. SpentHandled'
  BY DEF Carriers, Still, SameEntries, SpentHandled
<1>4. NoneForgotten'
  BY <1>1 DEF Carriers, Still, SameEntries, NoneForgotten, Carried
<1> QED  BY <1>2, <1>3, <1>4 DEF Carriers

\* What a call that begins adds.
LEMMA NextCall ==
    ASSUME TypeInv, NEW p \in Producers, Begins(p)
    PROVE  /\ Rec(p)' \in Records /\ Rec(p)' \notin Begun /\ Begun' = Begun \cup {Rec(p)'}
           /\ \A q \in Producers : q # p => Rec(q)' = Rec(q)
<1>1. /\ calls' = [calls EXCEPT ![p] = calls[p] + 1] /\ calls[p] < MaxLogs
      /\ calls \in [Producers -> 0 .. MaxLogs] /\ MaxLogs \in Nat
  BY LogsAssumption DEF Begins, TypeInv, TypeOK
<1>2. calls'[p] = calls[p] + 1 /\ calls[p] \in Nat /\ calls[p] + 1 \in 1 .. MaxLogs
  BY <1>1
<1>3. Rec(p)' = <<p, calls[p] + 1>>
  BY <1>2 DEF Rec
<1>4. Rec(p)' \in Records /\ Rec(p)' \notin Begun
  BY <1>2, <1>3 DEF Records, Begun
<1>5. \A q \in Producers : q # p => Rec(q)' = Rec(q)
  BY <1>1 DEF Rec
<1>6. ASSUME NEW r \in Records PROVE r \in Begun' <=> r \in Begun \/ r = Rec(p)'
  <2>1. PICK q \in Producers, k \in 1 .. MaxLogs : r = <<q, k>>
    BY DEF Records
  <2>2. r \in Begun' <=> k <= calls'[q]
    BY <2>1 DEF Begun
  <2>3. r \in Begun <=> k <= calls[q]
    BY <2>1 DEF Begun
  <2>4. CASE q # p
    BY <1>1, <1>3, <2>1, <2>2, <2>3, <2>4
  <2>5. CASE q = p
    <3>1. k <= calls[p] + 1 <=> k <= calls[p] \/ k = calls[p] + 1
      BY <1>2
    <3> QED  BY <1>2, <1>3, <2>1, <2>2, <2>3, <2>5, <3>1
  <2> QED  BY <2>4, <2>5
<1>7. Begun' = Begun \cup {Rec(p)'}
  BY <1>4, <1>6 DEF Begun
<1> QED  BY <1>4, <1>5, <1>7

LEMMA BeginsKeeps == ASSUME TypeInv, Carriers, NEW p \in Producers, Begins(p) PROVE Carriers'
<1>1. /\ Rec(p)' \in Records /\ Rec(p)' \notin Begun /\ Begun' = Begun \cup {Rec(p)'}
      /\ \A q \in Producers : q # p => Rec(q)' = Rec(q)
  BY NextCall
<1>2. Askers' = Askers \cup {p} /\ p \notin Askers /\ handles' = handles /\ Askers \subseteq Producers
  BY DEF Begins, Askers
<1>3. HandledOnce' /\ AskersWait'
  BY <1>1, <1>2 DEF Carriers, HandledOnce, AskersWait
<1>4. LiveBegun' /\ OneCarrier'
  BY <1>1, <1>2 DEF Carriers, Begins, SameEntries, LiveBegun, OneCarrier
<1>5. SpentHandled'
  BY DEF Carriers, Begins, SameEntries, SpentHandled
<1>6. NoneForgotten'
  BY <1>1, <1>2 DEF Carriers, Begins, SameEntries, NoneForgotten, Carried
<1> QED  BY <1>3, <1>4, <1>5, <1>6 DEF Carriers

\* The record of a producer in a call is its own.
LEMMA AskersType ==
    ASSUME TypeInv
    PROVE  /\ \A p \in Askers : p \in Producers /\ Rec(p) \in Records /\ Rec(p) \in Begun
           /\ \A p, q \in Producers : p # q => Rec(p) # Rec(q)
           /\ handles \in [Records \cup {NoRecord} -> Nat]
           /\ NoRecord \notin Records /\ Begun \subseteq Records
<1>1. ASSUME NEW p \in Askers PROVE p \in Producers /\ Rec(p) \in Records /\ Rec(p) \in Begun
  <2>1. p \in Producers /\ pc[p] # "idle"
    BY DEF Askers
  <2>2. Rec(p) \in Records
    BY <2>1, HeldType
  <2>3. calls[p] <= calls[p]
    BY <2>1 DEF TypeInv, TypeOK
  <2> QED  BY <2>1, <2>2, <2>3 DEF Rec, Begun
<1>2. \A p, q \in Producers : p # q => Rec(p) # Rec(q)
  BY DEF Rec
<1> QED  BY <1>1, <1>2, NoRecordAssumption DEF TypeInv, TypeOK, Begun

LEMMA RunsKeeps == ASSUME TypeInv, Carriers, NEW p \in Producers, Runs(p) PROVE Carriers'
<1> DEFINE r == Rec(p)
<1>1. /\ p \in Askers /\ Askers' = Askers \ {p} /\ r \in Records /\ r \in Begun /\ r # NoRecord
      /\ \A q \in Askers : q # p => Rec(q) # r /\ Rec(q) \in Records
  BY AskersType DEF Runs
<1>2. Begun' = Begun /\ \A q : Rec(q)' = Rec(q)
  BY DEF Runs, Begun, Rec
<1>3. handles[r] = 0
  BY <1>1 DEF Carriers, AskersWait
<1>4. \A q \in Records \cup {NoRecord} : handles'[q] = IF q = r THEN 1 ELSE handles[q]
  BY <1>1, <1>3, AskersType DEF Runs
<1>5. \A o \in Live : msg[o] # r /\ msg[o] \in Records
  BY <1>1, AskersType DEF Carriers, LiveBegun
<1> HIDE DEF r
<1>6. HandledOnce' /\ AskersWait'
  BY <1>1, <1>2, <1>4 DEF Carriers, HandledOnce, AskersWait
<1>7. LiveBegun' /\ OneCarrier'
  BY <1>1, <1>2 DEF Carriers, Runs, SameEntries, LiveBegun, OneCarrier
<1>8. SpentHandled'
  BY <1>4, <1>5 DEF Carriers, Runs, SameEntries, SpentHandled
<1>9. NoneForgotten'
  <2> SUFFICES ASSUME NEW q \in Begun, handles'[q] = 0 PROVE Carried(q)'
    BY <1>2 DEF NoneForgotten
  <2>1. q # r /\ handles[q] = 0
    BY <1>4, AskersType
  <2>2. Carried(q)
    BY <2>1 DEF Carriers, NoneForgotten
  <2> QED  BY <1>1, <1>2, <2>1, <2>2 DEF Carried, Runs, SameEntries, r
<1> QED  BY <1>6, <1>7, <1>8, <1>9 DEF Carriers

LEMMA GetsKeeps ==
    ASSUME TypeInv, Carriers, NEW p \in Producers, NEW o, Gets(p, o) PROVE Carriers'
<1> DEFINE r == Rec(p)
<1>1. /\ p \in Askers /\ Askers' = Askers \ {p} /\ r \in Records /\ r \in Begun
      /\ \A q \in Askers : q # p => Rec(q) # r
  BY AskersType DEF Gets
<1>2. Begun' = Begun /\ handles' = handles /\ \A q : Rec(q)' = Rec(q)
  BY DEF Gets, Begun, Rec
<1>3. handles[r] = 0 /\ \A q \in Live : msg[q] # r
  BY <1>1 DEF Carriers, AskersWait, LiveBegun
<1>4. /\ Live' = Live \cup {o} /\ o \notin Live /\ msg'[o] = r /\ ~Spent(o)'
      /\ \A q \in Live : msg'[q] = msg[q] /\ (Spent(q)' <=> Spent(q))
  BY DEF Gets
<1>5. NoneForgotten'
  <2> SUFFICES ASSUME NEW q \in Begun, handles[q] = 0 PROVE Carried(q)'
    BY <1>2 DEF NoneForgotten
  <2>1. Carried(q)
    BY DEF Carriers, NoneForgotten
  <2> QED  BY <1>1, <1>2, <1>4, <2>1 DEF Carried
<1> HIDE DEF r
<1>6. HandledOnce' /\ AskersWait'
  BY <1>1, <1>2 DEF Carriers, HandledOnce, AskersWait
<1>7. LiveBegun'
  BY <1>1, <1>2, <1>4 DEF Carriers, LiveBegun
<1>8. OneCarrier'
  BY <1>3, <1>4 DEF Carriers, OneCarrier
<1>9. SpentHandled'
  BY <1>2, <1>3, <1>4 DEF Carriers, SpentHandled
<1> QED  BY <1>5, <1>6, <1>7, <1>8, <1>9 DEF Carriers

LEMMA SpendsKeeps == ASSUME TypeInv, Carriers, NEW o, Spends(o) PROVE Carriers'
<1> DEFINE r == msg[o]
<1>1. o \in Live /\ r \in Begun /\ r \in Records /\ r # NoRecord /\ (\A q \in Askers : Rec(q) # r /\ Rec(q) \in Records)
  BY AskersType DEF Spends, Carriers, LiveBegun
<1>2. Begun' = Begun /\ Askers' = Askers /\ Live' = Live /\ msg' = msg /\ \A q : Rec(q)' = Rec(q)
  BY DEF Spends, Begun, Rec
<1>3. handles[r] = 0 /\ Spent(o)' /\ \A q \in Live : q # o => msg[q] # r /\ (Spent(q)' <=> Spent(q))
  BY <1>1 DEF Spends, Carriers, SpentHandled, OneCarrier
<1>4. \A q \in Records \cup {NoRecord} : handles'[q] = IF q = r THEN 1 ELSE handles[q]
  BY <1>1, <1>3, AskersType DEF Spends
<1>5. \A q \in Live : msg[q] \in Records
  BY AskersType DEF Carriers, LiveBegun
<1>6. LiveBegun' /\ OneCarrier'
  BY <1>2 DEF Carriers, LiveBegun, OneCarrier
<1>7. SpentHandled'
  <2> SUFFICES ASSUME NEW q \in Live PROVE handles'[msg[q]] = IF Spent(q)' THEN 1 ELSE 0
    BY <1>2 DEF SpentHandled
  <2>1. CASE q = o
    BY <1>1, <1>3, <1>4, <2>1
  <2>2. CASE q # o
    <3>1. handles'[msg[q]] = handles[msg[q]]
      BY <1>3, <1>4, <1>5, <2>2
    <3> QED  BY <1>3, <2>2, <3>1 DEF Carriers, SpentHandled
  <2> QED  BY <2>1, <2>2
<1> HIDE DEF r
<1>8. HandledOnce' /\ AskersWait'
  BY <1>1, <1>2, <1>4 DEF Carriers, HandledOnce, AskersWait
<1>9. NoneForgotten'
  <2> SUFFICES ASSUME NEW q \in Begun, handles'[q] = 0 PROVE Carried(q)'
    BY <1>2 DEF NoneForgotten
  <2>1. q \in Records
    BY AskersType
  <2>2. handles[q] = 0
    BY <1>4, <2>1
  <2>3. Carried(q)
    BY <2>2 DEF Carriers, NoneForgotten
  <2> QED  BY <1>2, <2>3 DEF Carried
<1> QED  BY <1>6, <1>7, <1>8, <1>9 DEF Carriers

LEMMA DropsKeeps == ASSUME TypeInv, Carriers, NEW o, Drops(o) PROVE Carriers'
<1>1. Begun' = Begun /\ Askers' = Askers /\ handles' = handles /\ \A q : Rec(q)' = Rec(q)
  BY DEF Drops, Begun, Rec
<1>2. /\ Live' = Live \ {o} /\ handles[msg[o]] = 1
      /\ \A q \in Live' : q \in Live /\ msg'[q] = msg[q] /\ (Spent(q)' <=> Spent(q))
  BY DEF Drops, Carriers, SpentHandled
<1>3. HandledOnce' /\ AskersWait'
  BY <1>1 DEF Carriers, HandledOnce, AskersWait
<1>4. LiveBegun' /\ OneCarrier'
  BY <1>1, <1>2 DEF Carriers, LiveBegun, OneCarrier
<1>5. SpentHandled'
  BY <1>1, <1>2 DEF Carriers, SpentHandled
<1>6. NoneForgotten'
  BY <1>1, <1>2 DEF Carriers, NoneForgotten, Carried
<1> QED  BY <1>3, <1>4, <1>5, <1>6 DEF Carriers

-----------------------------------------------------------------------------
(* Each action is of one of the kinds *)

LEMMA SameIf ==
    ASSUME UNCHANGED <<cur, queue, batch, msg>>,
           \A p \in Producers : pc'[p] = "release" <=> pc[p] = "release",
           \A w \in Shards : wpc'[w] = "release" <=> wpc[w] = "release"
    PROVE  SameEntries
<1>1. Live' = Live
  BY DEF Live, Referenced, Elems
<1>2. \A o : Spent(o)' <=> Spent(o)
  BY DEF Spent
<1> QED  BY <1>1, <1>2 DEF SameEntries

\* Where an entry whose chain has run is.
LEMMA SpentPlace ==
    ASSUME TypeInv, EntryOwnership, NEW o \in Objs
    PROVE  /\ Spent(o) => o \in Live
           /\ \A p \in Producers : cur[p] = o => (Spent(o) <=> pc[p] = "release")
           /\ \A w \in Shards : batch[w] # <<>> /\ Head(batch[w]) = o => (Spent(o) <=> wpc[w] = "release")
<1>1. ASSUME NEW w \in Shards, wpc[w] = "release" \/ batch[w] # <<>> PROVE Head(batch[w]) \in Elems(batch[w])
  <2>1. batch[w] \in Seq(Objs) /\ batch[w] # <<>>
    BY <1>1 DEF TypeInv, TypeOK
  <2>2. Len(batch[w]) >= 1 /\ Head(batch[w]) = batch[w][1] /\ Len(batch[w]) \in Nat
    BY <2>1
  <2>3. 1 \in 1 .. Len(batch[w])
    BY <2>2
  <2> QED  BY <2>2, <2>3 DEF Elems
<1>2. Spent(o) => o \in Live
  BY <1>1, ReferencedIs DEF Spent, Live
<1>3. ASSUME NEW p \in Producers, cur[p] = o PROVE Spent(o) <=> pc[p] = "release"
  <2>1. \A q \in Producers : q # p => cur[q] # o
    BY <1>3, NoEntryAssumption DEF EntryOwnership, HeldApart
  <2>2. \A w \in Shards : o \notin Elems(batch[w])
    BY <1>3 DEF EntryOwnership, HeldNotSent
  <2> QED  BY <1>1, <1>3, <2>1, <2>2 DEF Spent
<1>4. ASSUME NEW w \in Shards, batch[w] # <<>>, Head(batch[w]) = o PROVE Spent(o) <=> wpc[w] = "release"
  <2>1. o \in Elems(batch[w])
    BY <1>1, <1>4
  <2>2. \A p \in Producers : cur[p] # o
    BY <2>1 DEF EntryOwnership, HeldNotSent
  <2>3. \A v \in Shards : v # w => o \notin Elems(batch[v])
    BY <2>1 DEF EntryOwnership, BatchesApart
  <2> QED  BY <1>1, <1>4, <2>2, <2>3 DEF Spent
<1> QED  BY <1>2, <1>3, <1>4

LEMMA LogStartKind == ASSUME TypeInv, NEW p \in Producers, LogStart(p) PROVE Begins(p)
<1>1. /\ pc \in [Producers -> {"idle", "direct", "acquire", "route", "push", "notify", "fallback", "release"}]
      /\ pc[p] = "idle" /\ \E c \in {"acquire", "direct"} : pc' = [pc EXCEPT ![p] = c]
      /\ UNCHANGED <<cur, queue, batch, msg, wpc, handles>>
  BY DEF LogStart, TypeInv, TypeOK, workerVars, ringVars, entryVars, sinkVars
<1>2. SameEntries
  BY <1>1, SameIf
<1>3. p \notin Askers /\ Askers' = Askers \cup {p}
  BY <1>1 DEF Askers
<1> QED  BY <1>1, <1>2, <1>3 DEF LogStart, Begins

LEMMA DirectKind == ASSUME TypeInv, NEW p \in Producers, Direct(p) PROVE Runs(p)
<1>1. /\ pc \in [Producers -> {"idle", "direct", "acquire", "route", "push", "notify", "fallback", "release"}]
      /\ pc[p] = "direct" /\ pc' = [pc EXCEPT ![p] = "idle"]
      /\ UNCHANGED <<cur, queue, batch, msg, wpc, calls>>
  BY DEF Direct, TypeInv, TypeOK, workerVars, ringVars, entryVars
<1>2. SameEntries
  BY <1>1, SameIf
<1>3. p \in Askers /\ Askers' = Askers \ {p}
  BY <1>1 DEF Askers
<1> QED  BY <1>1, <1>2, <1>3 DEF Direct, Handle, Runs

LEMMA AcquireKind ==
    ASSUME TypeInv, EntryOwnership, NEW p \in Producers, Acquire(p)
    PROVE  \E o : Gets(p, o)
<1>1. PICK o \in Objs : /\ o \notin Referenced
                        /\ cur' = [cur EXCEPT ![p] = o]
                        /\ msg' = [msg EXCEPT ![o] = Rec(p)]
  BY DEF Acquire, TypeInv, TypeOK, EntryOwnership, PoolIdle
<1>2. /\ UNCHANGED <<queue, batch, wpc, calls, handles>>
      /\ pc[p] = "acquire" /\ pc' = [pc EXCEPT ![p] = "route"]
      /\ pc \in [Producers -> {"idle", "direct", "acquire", "route", "push", "notify", "fallback", "release"}]
      /\ cur[p] \notin Objs /\ msg \in [Objs -> Records \cup {NoRecord}]
  BY DEF Acquire, ringVars, workerVars, sinkVars, TypeInv, TypeOK, Holding
<1>3. \A q \in Producers : cur'[q] = IF q = p THEN o ELSE cur[q]
  BY <1>1 DEF TypeInv, TypeOK
<1>4. Live' = Live \cup {o} /\ o \in Objs \ Live
  <2>1. \A x \in Objs : x \in Referenced' <=> x \in Referenced \/ x = o
    BY <1>1, <1>2, <1>3, ReferencedIs, ReferencedNext
  <2> QED  BY <1>1, <2>1 DEF Live
<1>5. \A x \in Objs : Spent(x)' <=> Spent(x)
  BY <1>2, <1>3 DEF Spent
<1>6. ~Spent(o)
  BY <1>4, SpentPlace
<1>7. p \in Askers /\ Askers' = Askers \ {p}
  BY <1>2 DEF Askers
<1>8. msg'[o] = Rec(p) /\ \A q \in Live : q \in Objs /\ msg'[q] = msg[q]
  BY <1>1, <1>2, <1>4 DEF Live
<1> QED  BY <1>2, <1>4, <1>5, <1>6, <1>7, <1>8 DEF Gets

LEMMA PushKind == ASSUME TypeInv, EntryOwnership, NEW p \in Producers, Push(p) PROVE Still
<1> DEFINE s == route[p]  o == cur[p]
<1>1. /\ pc[p] = "push" /\ UNCHANGED <<batch, wpc, msg, calls, handles>>
      /\ pc \in [Producers -> {"idle", "direct", "acquire", "route", "push", "notify", "fallback", "release"}]
      /\ cur \in [Producers -> Objs \cup {NoEntry}]
      /\ \E c \in {"notify", "fallback"} : pc' = [pc EXCEPT ![p] = c]
      /\ s \in Shards /\ queue[s] \in Seq(Objs) /\ queue \in [Shards -> Seq(Objs)]
  BY DEF Push, workerVars, entryVars, sinkVars, TypeInv, TypeOK
<1>2. Askers' = Askers
  BY <1>1 DEF Askers
<1>3. CASE UNCHANGED <<queue, cur>>
  <2>1. SameEntries
    BY <1>1, <1>3, SameIf
  <2> QED  BY <1>1, <1>2, <2>1 DEF Still
<1>4. CASE queue' = [queue EXCEPT ![s] = Append(@, o)] /\ cur' = [cur EXCEPT ![p] = NoEntry]
  <2>1. o \in Objs
    BY <1>1, HeldType DEF Holding
  <2> HIDE DEF s, o
  <2>2. \A t \in Shards : Elems(queue'[t]) = IF t = s THEN Elems(queue[t]) \cup {o} ELSE Elems(queue[t])
    BY <1>1, <1>4, <2>1, ElemsAppend
  <2>3. \A q \in Producers : cur'[q] = IF q = p THEN NoEntry ELSE cur[q]
    BY <1>1, <1>4
  <2>4. ASSUME NEW x \in Objs PROVE x \in Referenced' <=> x \in Referenced
    <3>1. x # NoEntry
      BY NoEntryAssumption
    <3>2. (\E q \in Producers : x = cur[q]) <=> (\E q \in Producers : x = cur'[q]) \/ x = o
      BY <2>3, <3>1 DEF o
    <3>3. (\E t \in Shards : x \in Elems(queue'[t])) <=> (\E t \in Shards : x \in Elems(queue[t])) \/ x = o
      BY <1>1, <2>2
    <3>4. (\E t \in Shards : x \in Elems(batch'[t])) <=> (\E t \in Shards : x \in Elems(batch[t]))
      BY <1>1
    <3> QED  BY <3>2, <3>3, <3>4, ReferencedIs, ReferencedNext, Zenon
  <2>5. Live' = Live
    BY <2>4 DEF Live
  <2>6. \A x \in Objs : Spent(x)' <=> Spent(x)
    BY <1>1, <2>3, NoEntryAssumption DEF Spent
  <2> QED  BY <1>1, <1>2, <2>5, <2>6 DEF Still, SameEntries, Live
<1> QED  BY <1>3, <1>4 DEF Push

LEMMA FallbackKind ==
    ASSUME TypeInv, EntryOwnership, NEW p \in Producers, Fallback(p) PROVE Spends(cur[p])
<1> DEFINE o == cur[p]
<1>1. /\ pc[p] = "fallback" /\ pc' = [pc EXCEPT ![p] = "release"]
      /\ pc \in [Producers -> {"idle", "direct", "acquire", "route", "push", "notify", "fallback", "release"}]
      /\ UNCHANGED <<cur, queue, batch, wpc, msg, calls>>
      /\ handles' = [handles EXCEPT ![msg[o]] = @ + 1]
  BY DEF Fallback, Handle, workerVars, ringVars, entryVars, TypeInv, TypeOK
<1>2. o \in Objs
  BY <1>1, HeldType DEF Holding
<1>3. o \in Live /\ ~Spent(o)
  BY <1>1, <1>2, SpentPlace, ReferencedIs DEF Live
<1>4. Live' = Live /\ Askers' = Askers
  BY <1>1 DEF Live, Referenced, Elems, Askers
<1>5. Spent(o)'
  BY <1>1 DEF Spent
<1>6. \A q \in Live : q # o => (Spent(q)' <=> Spent(q))
  BY <1>1 DEF Spent
<1> HIDE DEF o
<1>7. Spends(o)
  BY <1>1, <1>3, <1>4, <1>5, <1>6 DEF Spends
<1> QED  BY <1>7 DEF o

LEMMA FallbackReleaseKind ==
    ASSUME TypeInv, EntryOwnership, NEW p \in Producers, FallbackRelease(p) PROVE Drops(cur[p])
<1> DEFINE o == cur[p]
<1>1. /\ pc[p] = "release" /\ pc' = [pc EXCEPT ![p] = "idle"]
      /\ pc \in [Producers -> {"idle", "direct", "acquire", "route", "push", "notify", "fallback", "release"}]
      /\ cur \in [Producers -> Objs \cup {NoEntry}] /\ msg \in [Objs -> Records \cup {NoRecord}]
      /\ UNCHANGED <<queue, batch, wpc, calls, handles>>
      /\ cur' = [cur EXCEPT ![p] = NoEntry] /\ msg' = [msg EXCEPT ![o] = NoRecord]
  BY DEF FallbackRelease, Release, workerVars, ringVars, sinkVars, TypeInv, TypeOK
<1>2. o \in Objs
  BY <1>1, HeldType DEF Holding
<1>3. o \in Live /\ Spent(o)
  BY <1>1, <1>2, SpentPlace, ReferencedIs DEF Live
<1>4. Askers' = Askers
  BY <1>1 DEF Askers
<1>5. \A q \in Producers : cur'[q] = IF q = p THEN NoEntry ELSE cur[q]
  BY <1>1
<1>6. Live' = Live \ {o}
  <2>1. ASSUME NEW x \in Objs PROVE x \in Referenced' <=> x \in Referenced /\ x # o
    <3>1. x # NoEntry
      BY NoEntryAssumption
    <3>2. (\E q \in Producers : x = cur'[q]) <=> (\E q \in Producers : x = cur[q]) /\ x # o
      BY <1>2, <1>5, <3>1 DEF EntryOwnership, HeldApart
    <3>3. \A t \in Shards : o \notin Elems(queue[t]) /\ o \notin Elems(batch[t])
      BY DEF EntryOwnership, HeldNotSent
    <3> HIDE DEF o
    <3> QED  BY <1>1, <3>2, <3>3, ReferencedIs, ReferencedNext
  <2> QED  BY <1>2, <2>1 DEF Live
<1>7. \A q \in Live : q # o => q \in Objs /\ msg'[q] = msg[q]
  BY <1>1 DEF Live
<1>8. \A q \in Objs : q # o => (Spent(q)' <=> Spent(q))
  BY <1>1, <1>5, NoEntryAssumption DEF Spent
<1> HIDE DEF o
<1>9. Drops(o)
  BY <1>1, <1>3, <1>4, <1>6, <1>7, <1>8 DEF Drops
<1> QED  BY <1>9 DEF o

LEMMA PopSomeKind == ASSUME TypeInv, EntryOwnership, NEW w \in Shards, PopSome(w) PROVE Still
<1> DEFINE n     == IF Len(queue[w]) < BatchCap THEN Len(queue[w]) ELSE BatchCap
           front == SubSeq(queue[w], 1, n)
           back  == SubSeq(queue[w], n + 1, Len(queue[w]))
<1>1. /\ batch' = [batch EXCEPT ![w] = front] /\ queue' = [queue EXCEPT ![w] = back]
      /\ UNCHANGED <<cur, pc, msg, calls, handles>>
      /\ wpc[w] = "drain" /\ wpc' = [wpc EXCEPT ![w] = "process"]
  BY DEF PopSome, producerVars, entryVars, sinkVars
<1>2. queue[w] \in Seq(Objs) /\ n \in 1 .. Len(queue[w]) /\ Injective(queue[w])
  BY BatchAssumption DEF PopSome, TypeInv, TypeOK, EntryOwnership, NoRepeats
<1>3. \A x : x \in Elems(queue[w]) <=> x \in Elems(front) \/ x \in Elems(back)
  <2> HIDE DEF n
  <2> QED  BY <1>2, ElemsSplit
<1> HIDE DEF front, back
<1>4. /\ \A t \in Shards : queue'[t] = IF t = w THEN back ELSE queue[t]
      /\ \A t \in Shards : batch'[t] = IF t = w THEN front ELSE batch[t]
      /\ wpc \in [Shards -> {"drain", "process", "release", "select", "done"}]
  BY <1>1 DEF TypeInv, TypeOK
<1>5. batch[w] = <<>> /\ \A x : x \notin Elems(batch[w])
  <2>1. batch[w] = <<>>
    BY <1>1 DEF TypeInv
  <2> QED  BY <2>1 DEF Elems
<1>6. ASSUME NEW x PROVE x \in Referenced' <=> x \in Referenced
  <2>1. (\E t \in Shards : x \in Elems(queue[t])) <=> (\E t \in Shards : t # w /\ x \in Elems(queue[t])) \/ x \in Elems(front) \/ x \in Elems(back)
    BY <1>3
  <2>2. (\E t \in Shards : x \in Elems(queue'[t])) <=> (\E t \in Shards : t # w /\ x \in Elems(queue[t])) \/ x \in Elems(back)
    BY <1>4
  <2>3. (\E t \in Shards : x \in Elems(batch'[t])) <=> (\E t \in Shards : x \in Elems(batch[t])) \/ x \in Elems(front)
    BY <1>4, <1>5
  <2> QED  BY <1>1, <2>1, <2>2, <2>3, ReferencedIs, ReferencedNext
<1>7. Live' = Live
  BY <1>6 DEF Live
<1>8. \A x : Spent(x)' <=> Spent(x)
  BY <1>1, <1>4 DEF Spent
<1>9. Askers' = Askers
  BY <1>1 DEF Askers
<1> QED  BY <1>1, <1>7, <1>8, <1>9 DEF Still, SameEntries

LEMMA ProcessKind ==
    ASSUME TypeInv, EntryOwnership, NEW w \in Shards, Process(w) PROVE Spends(Head(batch[w]))
<1> DEFINE o == Head(batch[w])
<1>1. /\ wpc[w] = "process" /\ wpc' = [wpc EXCEPT ![w] = "release"]
      /\ wpc \in [Shards -> {"drain", "process", "release", "select", "done"}]
      /\ UNCHANGED <<cur, queue, batch, pc, msg, calls>>
      /\ handles' = [handles EXCEPT ![msg[o]] = @ + 1]
  BY DEF Process, Handle, producerVars, ringVars, entryVars, TypeInv, TypeOK
<1>2. batch[w] \in Seq(Objs) /\ batch[w] # <<>> /\ o \in Objs /\ o \in Elems(batch[w])
  <2>1. batch[w] \in Seq(Objs) /\ batch[w] # <<>> /\ o \in Objs
    BY <1>1, HeldType
  <2>2. Injective(batch[w])
    BY DEF EntryOwnership, NoRepeats
  <2> QED  BY <2>1, <2>2, ElemsTail
<1>3. o \in Live /\ ~Spent(o)
  BY <1>1, <1>2, SpentPlace, ReferencedIs DEF Live
<1>4. Live' = Live /\ Askers' = Askers
  BY <1>1 DEF Live, Referenced, Elems, Askers
<1>5. Spent(o)'
  BY <1>1 DEF Spent
<1>6. \A q \in Live : q # o => (Spent(q)' <=> Spent(q))
  BY <1>1 DEF Spent
<1> HIDE DEF o
<1>7. Spends(o)
  BY <1>1, <1>3, <1>4, <1>5, <1>6 DEF Spends
<1> QED  BY <1>7 DEF o

LEMMA ProcessReleaseKind ==
    ASSUME TypeInv, EntryOwnership, NEW w \in Shards, ProcessRelease(w) PROVE Drops(Head(batch[w]))
<1> DEFINE o == Head(batch[w])
<1>1. /\ batch' = [batch EXCEPT ![w] = Tail(@)] /\ msg' = [msg EXCEPT ![o] = NoRecord]
      /\ UNCHANGED <<queue, cur, pc, calls, handles>>
      /\ wpc[w] = "release" /\ \E c \in {"drain", "process"} : wpc' = [wpc EXCEPT ![w] = c]
      /\ wpc \in [Shards -> {"drain", "process", "release", "select", "done"}]
      /\ msg \in [Objs -> Records \cup {NoRecord}]
  BY DEF ProcessRelease, Release, producerVars, ringVars, sinkVars, TypeInv, TypeOK
<1>2. batch[w] \in Seq(Objs) /\ batch[w] # <<>> /\ o \in Objs /\ Injective(batch[w])
  BY HeldType DEF ProcessRelease, EntryOwnership, NoRepeats
<1>3. Elems(Tail(batch[w])) = Elems(batch[w]) \ {o} /\ o \in Elems(batch[w])
  BY <1>2, ElemsTail
<1>4. o \in Live /\ Spent(o)
  BY <1>1, <1>2, SpentPlace, ReferencedIs DEF Live
<1>5. Askers' = Askers
  BY <1>1 DEF Askers
<1> HIDE DEF o
<1>6. \A t \in Shards : batch'[t] = IF t = w THEN Tail(batch[w]) ELSE batch[t]
  BY <1>1 DEF TypeInv, TypeOK
<1>7. ASSUME NEW x \in Objs PROVE x \in Referenced' <=> x \in Referenced /\ x # o
  <2>1. \A q \in Producers : cur[q] # o
    BY <1>3 DEF EntryOwnership, HeldNotSent
  <2>2. \A t \in Shards : o \notin Elems(queue[t])
    BY <1>3 DEF EntryOwnership, PoppedOnce
  <2>3. (\E t \in Shards : x \in Elems(batch'[t])) <=> (\E t \in Shards : x \in Elems(batch[t])) /\ x # o
    BY <1>3, <1>6 DEF EntryOwnership, BatchesApart
  <2> QED  BY <1>1, <2>1, <2>2, <2>3, ReferencedIs, ReferencedNext
<1>8. Live' = Live \ {o}
  BY <1>7 DEF Live
<1>9. \A q \in Live : q # o => q \in Objs /\ msg'[q] = msg[q]
  BY <1>1 DEF Live
<1>10. ASSUME NEW q \in Live, q # o PROVE Spent(q)' <=> Spent(q)
  BY <1>1, <1>6, <1>10 DEF Spent, o
<1>11. Drops(o)
  BY <1>1, <1>4, <1>5, <1>8, <1>9, <1>10 DEF Drops
<1> QED  BY <1>11 DEF o

LEMMA CarriersStep == TypeInv /\ EntryOwnership /\ Carriers /\ [Next]_vars => Carriers'
<1> SUFFICES ASSUME TypeInv, EntryOwnership, Carriers, [Next]_vars PROVE Carriers'
  OBVIOUS
<1>1. ASSUME UNCHANGED <<cur, queue, batch, msg, calls, handles>>, Askers' = Askers,
             \A p \in Producers : pc'[p] = "release" <=> pc[p] = "release",
             \A w \in Shards : wpc'[w] = "release" <=> wpc[w] = "release"
      PROVE  Carriers'
  BY <1>1, SameIf, StillKeeps DEF Still
<1>2. ASSUME NEW p \in Producers, Producer(p) PROVE Carriers'
  <2>1. CASE LogStart(p)
    BY <2>1, LogStartKind, BeginsKeeps
  <2>2. CASE Direct(p)
    BY <2>2, DirectKind, RunsKeeps
  <2>3. CASE Acquire(p)
    BY <2>3, AcquireKind, GetsKeeps
  <2>4. CASE Route(p) \/ Notify(p)
    <3>1. UNCHANGED <<cur, queue, batch, msg, calls, handles, wpc>>
      BY <2>4 DEF Route, Notify, workerVars, entryVars, sinkVars
    <3>2. /\ Askers' = Askers
          /\ \A q \in Producers : pc'[q] = "release" <=> pc[q] = "release"
      BY <2>4 DEF Route, Notify, Askers, TypeInv, TypeOK
    <3> QED  BY <1>1, <3>1, <3>2
  <2>5. CASE Push(p)
    BY <2>5, PushKind, StillKeeps
  <2>6. CASE Fallback(p)
    BY <2>6, FallbackKind, SpendsKeeps
  <2>7. CASE FallbackRelease(p)
    BY <2>7, FallbackReleaseKind, DropsKeeps
  <2> QED  BY <1>2, <2>1, <2>2, <2>3, <2>4, <2>5, <2>6, <2>7 DEF Producer
<1>3. ASSUME NEW w \in Shards, Worker(w) PROVE Carriers'
  <2>1. CASE PopSome(w)
    BY <2>1, PopSomeKind, StillKeeps
  <2>2. CASE PopNone(w) \/ WakeStop(w) \/ WakeNotify(w) \/ WakeTick(w)
    <3>1. UNCHANGED <<cur, queue, batch, msg, calls, handles, pc>> /\ Askers' = Askers
      BY <2>2 DEF PopNone, WakeStop, WakeNotify, WakeTick, producerVars, ringVars, entryVars, sinkVars, Askers
    <3>2. \A v \in Shards : wpc'[v] = "release" <=> wpc[v] = "release"
      BY <2>2 DEF PopNone, WakeStop, WakeNotify, WakeTick, TypeInv, TypeOK
    <3> QED  BY <1>1, <3>1, <3>2
  <2>3. CASE Process(w)
    BY <2>3, ProcessKind, SpendsKeeps
  <2>4. CASE ProcessRelease(w)
    BY <2>4, ProcessReleaseKind, DropsKeeps
  <2> QED  BY <1>3, <2>1, <2>2, <2>3, <2>4 DEF Worker
<1>4. ASSUME (\E c \in Syncers : Syncer(c)) \/ TimerFlush \/ UNCHANGED vars PROVE Carriers'
  <2>1. UNCHANGED <<cur, queue, batch, msg, calls, handles, pc, wpc>>
    BY <1>4 DEF Syncer, SyncBegin, SyncAgain, StopWorker, DisableAsync, CloseSink, TimerFlush, vars,
                producerVars, workerVars, ringVars, entryVars, sinkVars
  <2> QED  BY <1>1, <2>1 DEF Askers
<1> QED  BY <1>2, <1>3, <1>4 DEF Next, Finished

LEMMA CarriersInit == Init => Carriers
<1> SUFFICES ASSUME Init PROVE Carriers
  OBVIOUS
<1>1. Live = {}
  BY NoEntryAssumption, ReferencedIs DEF Init, Live, Elems
<1>2. Askers = {} /\ Begun = {}
  BY DEF Init, Askers, Begun, Records
<1> QED
  BY <1>1, <1>2 DEF Init, Carriers, HandledOnce, AskersWait, LiveBegun, OneCarrier, SpentHandled,
                    NoneForgotten

LEMMA CarriersHold == Spec => [](TypeInv /\ EntryOwnership /\ Carriers)
  BY TypeInit, TypeStep, OwnershipInit, OwnershipStep, CarriersInit, CarriersStep, PTL DEF Spec

\* HandledExactlyOnce: pool, ring, fallback and direct path neither lose nor
\* repeat a record.
THEOREM HandledOnceSafe == Spec => []HandledExactlyOnce
<1>1. TypeInv /\ Carriers => HandledExactlyOnce
  <2> SUFFICES ASSUME TypeInv, Carriers PROVE HandledExactlyOnce
    OBVIOUS
  <2>1. ASSUME NEW r \in Records, r \in Begun, handles[r] = 0 PROVE InFlight(r)
    <3>1. Carried(r)
      BY <2>1 DEF Carriers, NoneForgotten
    <3>2. ASSUME NEW p \in Askers, r = Rec(p) PROVE InFlight(r)
      BY <3>2 DEF Askers, InFlight, Rec
    <3>3. ASSUME NEW o \in Live, msg[o] = r PROVE InFlight(r)
      BY <3>3 DEF Live, InFlight
    <3> QED  BY <3>1, <3>2, <3>3 DEF Carried
  <2>2. \A r \in Records : handles[r] <= 1
    BY DEF Carriers, HandledOnce
  <2> QED  BY <2>1, <2>2 DEF HandledExactlyOnce, Carriers, HandledOnce
<1> QED  BY <1>1, CarriersHold, PTL

-----------------------------------------------------------------------------
(* Sync *)

InCall == {"acquire", "direct", "route", "push", "fallback", "release"}

\* An entry in a producer's hands carries the record of its call, which has
\* been pushed nowhere.
OwnInv ==
    /\ \A p \in Producers : pc[p] \in Holding => msg[cur[p]] = Rec(p)
    /\ \A p \in Producers : pc[p] \in InCall => via[Rec(p)] = OffRing
    /\ \A r \in Records : r \notin Begun => via[r] = OffRing

\* A worker ends only when Sync has told it to.
StopInv ==
    \A w \in Shards : /\ wpc[w] = "done" => stopping[w]
                      /\ stopping[w] => stopCh[w]
                      /\ stopCh[w] => once # "fresh"

\* One goroutine at most is in the body of Do, and it closes the sink when all
\* workers have ended.
OnceInv ==
    /\ \A c \in Syncers : spc[c] \in {"stop", "close"} => once = "running"
    /\ \A c, d \in Syncers : spc[c] \in {"stop", "close"} /\ spc[d] \in {"stop", "close"} => c = d
    /\ \A c \in Syncers : spc[c] = "close" => \A w \in Shards : wpc[w] = "done"
    /\ once = "done" => \A w \in Shards : wpc[w] = "done"
    /\ closed <=> once = "done"

LEMMA OwnStep == TypeInv /\ EntryOwnership /\ OwnInv /\ [Next]_vars => OwnInv'
<1> SUFFICES ASSUME TypeInv, EntryOwnership, OwnInv, [Next]_vars PROVE OwnInv'
  OBVIOUS
<1>1. /\ pc \in [Producers -> {"idle", "direct", "acquire", "route", "push", "notify", "fallback", "release"}]
      /\ cur \in [Producers -> Objs \cup {NoEntry}] /\ msg \in [Objs -> Records \cup {NoRecord}]
      /\ via \in [Records -> Shards \cup {OffRing}]
      /\ \A p \in Producers : pc[p] \in Holding => cur[p] \in Objs
      /\ \A p, q \in Producers : p # q /\ pc[p] \in Holding => cur[p] # cur[q]
  BY HeldType, NoEntryAssumption DEF TypeInv, TypeOK, EntryOwnership, HeldApart
\* A step of p that keeps what the others hold.
<1>2. ASSUME NEW p \in Producers, UNCHANGED <<calls, via>>,
             \A q \in Producers : q # p => pc'[q] = pc[q] /\ cur'[q] = cur[q]
                                           /\ (pc[q] \in Holding => msg'[cur[q]] = msg[cur[q]]),
             pc'[p] \in Holding => msg'[cur'[p]] = Rec(p),
             pc'[p] \in InCall => pc[p] \in InCall
      PROVE  OwnInv'
  BY <1>2 DEF OwnInv, Rec, Begun
<1>3. ASSUME UNCHANGED <<calls, via, pc, cur>>, \A q \in Producers : pc[q] \in Holding => msg'[cur[q]] = msg[cur[q]]
      PROVE  OwnInv'
  BY <1>3 DEF OwnInv, Rec, Begun
<1>4. ASSUME NEW p \in Producers, LogStart(p) PROVE OwnInv'
  <2>1. Begins(p)
    BY <1>4, LogStartKind
  <2>2. /\ Rec(p)' \in Records /\ Rec(p)' \notin Begun /\ Begun' = Begun \cup {Rec(p)'}
        /\ \A q \in Producers : q # p => Rec(q)' = Rec(q)
    BY <2>1, NextCall
  <2>3. /\ \A q \in Producers : q # p => pc'[q] = pc[q]
        /\ pc'[p] \in {"acquire", "direct"}
        /\ UNCHANGED <<cur, msg, via>>
    BY <1>1, <1>4 DEF LogStart, entryVars
  <2> QED  BY <2>2, <2>3 DEF OwnInv, Holding
<1>5. ASSUME NEW p \in Producers, Acquire(p) PROVE OwnInv'
  <2>1. PICK o \in Objs : o \notin Referenced /\ cur' = [cur EXCEPT ![p] = o] /\ msg' = [msg EXCEPT ![o] = Rec(p)]
    BY <1>5 DEF Acquire, TypeInv, TypeOK, EntryOwnership, PoolIdle
  <2>2. \A q \in Producers : cur[q] # o
    BY <2>1, ReferencedIs
  <2>3. pc' = [pc EXCEPT ![p] = "route"] /\ pc[p] = "acquire" /\ UNCHANGED <<calls, via>>
    BY <1>5 DEF Acquire
  <2>4. cur'[p] = o /\ msg'[o] = Rec(p) /\ \A q \in Producers : q # p => cur'[q] = cur[q] /\ pc'[q] = pc[q]
    BY <1>1, <2>1, <2>3
  <2>5. \A q \in Producers : pc[q] \in Holding => msg'[cur[q]] = msg[cur[q]]
    BY <1>1, <2>1, <2>2
  <2>6. pc[p] \in InCall
    BY <2>3 DEF InCall
  <2> QED  BY <1>2, <2>3, <2>4, <2>5, <2>6
<1>6. ASSUME NEW p \in Producers, Direct(p) \/ Route(p) \/ Notify(p) \/ Fallback(p) PROVE OwnInv'
  <2>1. UNCHANGED <<calls, via, cur, msg>> /\ \A q \in Producers : q # p => pc'[q] = pc[q]
    BY <1>1, <1>6 DEF Direct, Route, Notify, Fallback, entryVars
  <2>2. /\ pc'[p] \in Holding => pc[p] \in Holding
        /\ pc'[p] \in InCall => pc[p] \in InCall
    BY <1>1, <1>6 DEF Direct, Route, Notify, Fallback, Holding, InCall
  <2>3. pc'[p] \in Holding => msg'[cur'[p]] = Rec(p)
    BY <2>1, <2>2 DEF OwnInv
  <2> QED  BY <1>2, <2>1, <2>2, <2>3
<1>7. ASSUME NEW p \in Producers, Push(p) PROVE OwnInv'
  <2>1. pc[p] = "push" /\ UNCHANGED <<calls, msg>> /\ \A q \in Producers : q # p => pc'[q] = pc[q]
    BY <1>1, <1>7 DEF Push, entryVars
  <2>2. CASE pc'[p] = "fallback" /\ UNCHANGED <<cur, via>>
    <3>1. pc[p] \in Holding /\ pc[p] \in InCall
      BY <2>1 DEF Holding, InCall
    <3>2. msg'[cur'[p]] = Rec(p)
      BY <2>1, <2>2, <3>1 DEF OwnInv
    <3> QED  BY <1>2, <2>1, <2>2, <3>1, <3>2
  <2>3. CASE pc'[p] = "notify" /\ cur' = [cur EXCEPT ![p] = NoEntry] /\ via' = [via EXCEPT ![Rec(p)] = route[p]]
    <3>1. Rec(p) \in Records /\ Rec(p) \in Begun /\ \A q \in Producers : q # p => Rec(q) # Rec(p)
      <4>1. Rec(p) \in Records
        BY <2>1, HeldType
      <4>2. calls[p] <= calls[p]
        BY DEF TypeInv, TypeOK
      <4> QED  BY <4>1, <4>2 DEF Rec, Begun
    <3>2. Begun' = Begun /\ \A q : Rec(q)' = Rec(q)
      BY <2>1 DEF Begun, Rec
    <3>3. \A r \in Records : r # Rec(p) => via'[r] = via[r]
      BY <1>1, <2>3
    <3>4. \A q \in Producers : q # p => cur'[q] = cur[q]
      BY <1>1, <2>3
    <3>5. \A q \in Producers : pc[q] \in InCall => Rec(q) \in Records
      BY HeldType DEF InCall
    <3> QED  BY <2>1, <2>3, <3>1, <3>2, <3>3, <3>4, <3>5 DEF OwnInv, Holding, InCall
  <2> QED  BY <1>1, <1>7, <2>2, <2>3 DEF Push
<1>8. ASSUME NEW p \in Producers, FallbackRelease(p) PROVE OwnInv'
  <2>1. /\ pc[p] = "release" /\ pc' = [pc EXCEPT ![p] = "idle"] /\ UNCHANGED <<calls, via>>
        /\ cur' = [cur EXCEPT ![p] = NoEntry] /\ msg' = [msg EXCEPT ![cur[p]] = NoRecord]
    BY <1>8 DEF FallbackRelease, Release
  <2>2. pc[p] \in Holding /\ pc'[p] = "idle" /\ \A q \in Producers : q # p => pc'[q] = pc[q] /\ cur'[q] = cur[q]
    BY <1>1, <2>1 DEF Holding
  <2>3. \A q \in Producers : q # p /\ pc[q] \in Holding => msg'[cur[q]] = msg[cur[q]]
    BY <1>1, <2>1
  <2> QED  BY <1>2, <2>1, <2>2, <2>3 DEF Holding, InCall
<1>9. ASSUME NEW w \in Shards, Worker(w) PROVE OwnInv'
  <2>1. CASE ProcessRelease(w)
    <3>1. UNCHANGED <<calls, via, pc, cur>> /\ msg' = [msg EXCEPT ![Head(batch[w])] = NoRecord]
      BY <2>1 DEF ProcessRelease, Release, producerVars
    <3>2. batch[w] \in Seq(Objs) /\ batch[w] # <<>> /\ Injective(batch[w])
      BY <2>1, HeldType DEF ProcessRelease, EntryOwnership, NoRepeats
    <3>3. Head(batch[w]) \in Elems(batch[w])
      BY <3>2, ElemsTail
    <3>4. \A q \in Producers : cur[q] # Head(batch[w])
      BY <3>3 DEF EntryOwnership, HeldNotSent
    <3>5. \A q \in Producers : pc[q] \in Holding => msg'[cur[q]] = msg[cur[q]]
      BY <1>1, <3>1, <3>4
    <3> QED  BY <1>3, <3>1, <3>5
  <2>2. CASE ~ProcessRelease(w)
    <3>1. UNCHANGED <<calls, via, pc, cur, msg>>
      BY <1>9, <2>2 DEF Worker, PopSome, PopNone, Process, WakeStop, WakeNotify, WakeTick, producerVars, entryVars
    <3> QED  BY <1>3, <3>1
  <2> QED  BY <2>1, <2>2
<1>10. ASSUME (\E c \in Syncers : Syncer(c)) \/ TimerFlush \/ UNCHANGED vars PROVE OwnInv'
  <2>1. UNCHANGED <<calls, via, pc, cur, msg>>
    BY <1>10 DEF Syncer, SyncBegin, SyncAgain, StopWorker, DisableAsync, CloseSink, TimerFlush, vars,
                 producerVars, entryVars
  <2> QED  BY <1>3, <2>1
<1> QED
  BY <1>4, <1>5, <1>6, <1>7, <1>8, <1>9, <1>10 DEF Next, Producer, Finished

LEMMA StopStep == TypeInv /\ StopInv /\ OnceInv /\ [Next]_vars => StopInv' /\ OnceInv'
<1> SUFFICES ASSUME TypeInv, StopInv, OnceInv, [Next]_vars PROVE StopInv' /\ OnceInv'
  OBVIOUS
<1>1. /\ wpc \in [Shards -> {"drain", "process", "release", "select", "done"}]
      /\ stopping \in [Shards -> BOOLEAN] /\ stopCh \in [Shards -> BOOLEAN]
      /\ spc \in [Syncers -> {"idle", "stop", "close", "returned"}]
  BY DEF TypeInv, TypeOK
<1>2. ASSUME UNCHANGED <<wpc, stopping, stopCh, once, spc, closed>> PROVE StopInv' /\ OnceInv'
  BY <1>2 DEF StopInv, OnceInv
<1>3. ASSUME NEW p \in Producers, Producer(p) PROVE StopInv' /\ OnceInv'
  BY <1>2, <1>3 DEF Producer, LogStart, Direct, Acquire, Route, Push, Notify, Fallback, FallbackRelease,
                    Handle, workerVars, syncVars, sinkVars
<1>4. ASSUME NEW w \in Shards, Worker(w) PROVE StopInv' /\ OnceInv'
  <2>1. UNCHANGED <<stopCh, once, spc, closed>> /\ wpc[w] # "done" /\ \A v \in Shards : v # w => wpc'[v] = wpc[v]
    BY <1>1, <1>4 DEF Worker, PopSome, PopNone, Process, ProcessRelease, WakeStop, WakeNotify, WakeTick,
                      Handle, syncVars, sinkVars
  <2>2. /\ \A v \in Shards : stopping'[v] => stopping[v] \/ stopCh[v]
        /\ \A v \in Shards : stopping[v] => stopping'[v]
        /\ wpc'[w] = "done" => stopping'[w]
    <3>1. CASE WakeStop(w)
      BY <1>1, <3>1 DEF WakeStop
    <3>2. CASE ~WakeStop(w)
      BY <1>1, <1>4, <3>2 DEF Worker, PopSome, PopNone, Process, ProcessRelease, WakeNotify, WakeTick
    <3> QED  BY <3>1, <3>2
  <2>3. StopInv'
    BY <2>1, <2>2 DEF StopInv
  <2>4. ~(\A v \in Shards : wpc[v] = "done")
    BY <2>1
  <2>5. OnceInv'
    BY <2>1, <2>4 DEF OnceInv
  <2> QED  BY <2>3, <2>5
<1>5. ASSUME NEW c \in Syncers, Syncer(c) PROVE StopInv' /\ OnceInv'
  <2>1. CASE SyncBegin(c)
    <3>1. /\ once = "fresh" /\ once' = "running" /\ spc' = [spc EXCEPT ![c] = "stop"]
          /\ UNCHANGED <<stopCh, wpc, stopping, closed>>
      BY <2>1 DEF SyncBegin, workerVars, sinkVars
    <3> QED  BY <1>1, <3>1 DEF StopInv, OnceInv
  <2>2. CASE SyncAgain(c)
    <3>1. spc' = [spc EXCEPT ![c] = "returned"] /\ UNCHANGED <<once, stopCh, wpc, stopping, closed>>
      BY <2>2 DEF SyncAgain, workerVars, sinkVars
    <3> QED  BY <1>1, <3>1 DEF StopInv, OnceInv
  <2>3. ASSUME NEW w \in Shards, StopWorker(c, w) PROVE StopInv' /\ OnceInv'
    <3>1. /\ spc[c] = "stop" /\ stopCh' = [stopCh EXCEPT ![w] = TRUE]
          /\ UNCHANGED <<once, spc, wpc, stopping, closed>>
      BY <2>3 DEF StopWorker, workerVars, sinkVars
    <3> QED  BY <1>1, <3>1 DEF StopInv, OnceInv
  <2>4. CASE DisableAsync(c)
    <3>1. /\ spc[c] = "stop" /\ spc' = [spc EXCEPT ![c] = "close"] /\ \A w \in Shards : wpc[w] = "done"
          /\ UNCHANGED <<once, stopCh, wpc, stopping, closed>>
      BY <2>4 DEF DisableAsync, workerVars, sinkVars
    <3> QED  BY <1>1, <3>1 DEF StopInv, OnceInv
  <2>5. CASE CloseSink(c)
    <3>1. /\ spc[c] = "close" /\ spc' = [spc EXCEPT ![c] = "returned"] /\ once' = "done" /\ closed' = TRUE
          /\ UNCHANGED <<stopCh, wpc, stopping>>
      BY <2>5 DEF CloseSink, workerVars
    <3> QED  BY <1>1, <3>1 DEF StopInv, OnceInv
  <2> QED  BY <1>5, <2>1, <2>2, <2>3, <2>4, <2>5 DEF Syncer
<1>6. ASSUME TimerFlush \/ UNCHANGED vars PROVE StopInv' /\ OnceInv'
  BY <1>2, <1>6 DEF TimerFlush, vars, workerVars, syncVars, sinkVars
<1> QED  BY <1>3, <1>4, <1>5, <1>6 DEF Next, Finished

-----------------------------------------------------------------------------
(* What was logged before Sync *)

\* r is in the shard or the batch of a worker that has not ended.
Waits(r) == \E w \in Shards : /\ wpc[w] # "done"
                              /\ \E o \in Elems(queue[w]) \cup Elems(batch[w]) : msg[o] = r

BeforeInv == /\ before \subseteq Returned
             /\ \A r \in before : handles[r] = 0 => Waits(r)

SinkInv ==
    /\ \A r \in Records : /\ sink[r] = "none" <=> handles[r] = 0
                          /\ sink[r] = "refused" => closed /\ via[r] = OffRing
                          /\ sink[r] = "buffered" => ~closed
    /\ \A r \in before : sink[r] # "refused"

ServiceInv == TypeInv /\ EntryOwnership /\ Carriers /\ OwnInv /\ StopInv /\ OnceInv

\* The steps that run the chain, each on a record it has not run on.
Chains(r) ==
    /\ Handle(r) /\ r \in Records /\ r \in Begun /\ handles[r] = 0
    /\ via[r] = OffRing \/ \E w \in Shards : wpc[w] # "done"

LEMMA ChainsRecord ==
    ASSUME ServiceInv
    PROVE  /\ \A p \in Producers : Direct(p) => Chains(Rec(p))
           /\ \A p \in Producers : Fallback(p) => Chains(Rec(p))
           /\ \A w \in Shards : Process(w) => Chains(msg[Head(batch[w])])
<1> USE DEF ServiceInv
<1>1. ASSUME NEW p \in Producers, Direct(p) PROVE Chains(Rec(p))
  <2>1. p \in Askers /\ pc[p] \in InCall /\ Handle(Rec(p))
    BY <1>1 DEF Direct, Askers, InCall
  <2>2. Rec(p) \in Records /\ Rec(p) \in Begun
    BY <2>1, AskersType
  <2> QED  BY <2>1, <2>2 DEF Chains, OwnInv, Carriers, AskersWait
<1>2. ASSUME NEW o, Spends(o) PROVE msg[o] \in Records /\ msg[o] \in Begun /\ handles[msg[o]] = 0
  <2>1. msg[o] \in Begun /\ handles[msg[o]] = 0
    BY <1>2 DEF Spends, Carriers, LiveBegun, SpentHandled
  <2> QED  BY <2>1, AskersType
<1>3. ASSUME NEW p \in Producers, Fallback(p) PROVE Chains(Rec(p))
  <2>1. pc[p] \in Holding /\ pc[p] \in InCall /\ Handle(msg[cur[p]])
    BY <1>3 DEF Fallback, Holding, InCall
  <2>2. msg[cur[p]] = Rec(p) /\ via[Rec(p)] = OffRing
    BY <2>1 DEF OwnInv
  <2>3. Spends(cur[p])
    BY <1>3, FallbackKind
  <2> QED  BY <1>2, <2>1, <2>2, <2>3 DEF Chains
<1>4. ASSUME NEW w \in Shards, Process(w) PROVE Chains(msg[Head(batch[w])])
  <2>1. Handle(msg[Head(batch[w])]) /\ wpc[w] # "done"
    BY <1>4 DEF Process
  <2>2. Spends(Head(batch[w]))
    BY <1>4, ProcessKind
  <2> QED  BY <1>2, <2>1, <2>2 DEF Chains
<1> QED  BY <1>1, <1>3, <1>4

\* What the chain does to the sink.
LEMMA ChainEffect ==
    ASSUME TypeInv, NEW r \in Records, Chains(r)
    PROVE  /\ handles'[r] = 1 /\ closed' = closed
           /\ sink'[r] \in IF closed THEN {"refused", "panicked"} ELSE {"buffered", "written", "panicked"}
           /\ \A q \in Records : q # r => /\ handles'[q] = handles[q]
                                          /\ sink'[q] = sink[q] \/ (sink[q] = "buffered" /\ sink'[q] = "written")
<1> DEFINE snk == [sink EXCEPT ![r] = Outcome(r)]
<1>1. /\ sink \in [Records \cup {NoRecord} -> SinkStates] /\ handles \in [Records \cup {NoRecord} -> Nat]
      /\ handles[r] = 0 /\ Handle(r)
  BY DEF TypeInv, TypeOK, SinkStates, Chains
<1>2. handles' = [handles EXCEPT ![r] = @ + 1] /\ closed' = closed /\ (sink' = snk \/ sink' = Flushed(snk))
  BY <1>1 DEF Handle
<1>3. Outcome(r) \in IF closed THEN {"refused", "panicked"} ELSE {"buffered", "panicked"}
  BY DEF Outcome
<1>4. /\ snk \in [Records \cup {NoRecord} -> SinkStates]
      /\ snk[r] = Outcome(r) /\ \A q \in Records : q # r => snk[q] = sink[q]
  BY <1>1, <1>3 DEF SinkStates
<1> HIDE DEF snk
<1>5. \A q \in Records : sink'[q] = snk[q] \/ (snk[q] = "buffered" /\ sink'[q] = "written")
  BY <1>2, <1>4, FlushedType
<1> QED  BY <1>1, <1>2, <1>3, <1>4, <1>5

\* The other steps flush at most; CloseSink closes as well.
LEMMA OtherSteps ==
    ASSUME ServiceInv, [Next]_vars
    PROVE  \/ \E r \in Records : Chains(r) /\ UNCHANGED <<calls, before>> /\ (via' = via)
           \/ /\ handles' = handles
              /\ \/ sink' = sink /\ closed' = closed
                 \/ sink' = Flushed(sink) /\ ~closed /\ closed' = closed
                 \/ sink' = Flushed(sink) /\ closed' = TRUE
<1> USE DEF ServiceInv
<1>1. ASSUME NEW p \in Producers, Producer(p) PROVE \/ \E r \in Records : Chains(r) /\ UNCHANGED <<calls, before>> /\ via' = via
                                                    \/ UNCHANGED <<handles, sink, closed>>
  <2>1. CASE Direct(p) \/ Fallback(p)
    <3>1. Chains(Rec(p)) /\ UNCHANGED <<calls, before>> /\ via' = via
      BY <2>1, ChainsRecord DEF Direct, Fallback, syncVars
    <3>2. Rec(p) \in Records
      BY <3>1 DEF Chains
    <3> QED  BY <3>1, <3>2
  <2>2. CASE ~Direct(p) /\ ~Fallback(p)
    BY <1>1, <2>2 DEF Producer, LogStart, Acquire, Route, Push, Notify, FallbackRelease, sinkVars
  <2> QED  BY <2>1, <2>2
<1>2. ASSUME NEW w \in Shards, Worker(w) PROVE \/ \E r \in Records : Chains(r) /\ UNCHANGED <<calls, before>> /\ via' = via
                                               \/ UNCHANGED <<handles, sink, closed>>
  <2>1. CASE Process(w)
    <3>1. Chains(msg[Head(batch[w])]) /\ UNCHANGED <<calls, before>> /\ via' = via
      BY <2>1, ChainsRecord DEF Process, producerVars, syncVars
    <3>2. msg[Head(batch[w])] \in Records
      BY <3>1 DEF Chains
    <3> QED  BY <3>1, <3>2
  <2>2. CASE ~Process(w)
    BY <1>2, <2>2 DEF Worker, PopSome, PopNone, ProcessRelease, WakeStop, WakeNotify, WakeTick, sinkVars
  <2> QED  BY <2>1, <2>2
<1>3. ASSUME NEW c \in Syncers, Syncer(c)
      PROVE  \/ UNCHANGED <<handles, sink, closed>>
             \/ handles' = handles /\ sink' = Flushed(sink) /\ closed' = TRUE
  BY <1>3 DEF Syncer, SyncBegin, SyncAgain, StopWorker, DisableAsync, CloseSink, sinkVars
<1>4. ASSUME TimerFlush PROVE handles' = handles /\ sink' = Flushed(sink) /\ ~closed /\ closed' = closed
  BY <1>4 DEF TimerFlush
<1>5. ASSUME UNCHANGED vars PROVE UNCHANGED <<handles, sink, closed>>
  BY <1>5 DEF vars, sinkVars
<1> QED  BY <1>1, <1>2, <1>3, <1>4, <1>5 DEF Next, Finished

\* The chain never runs a second time, nor is a run undone.
LEMMA HandlesGrow ==
    ASSUME ServiceInv, [Next]_vars
    PROVE  \A r \in Records : handles'[r] = handles[r] \/ (handles[r] = 0 /\ handles'[r] = 1)
<1>1. TypeInv
  BY DEF ServiceInv
<1>2. ASSUME NEW q \in Records, Chains(q) PROVE \A r \in Records : handles'[r] = handles[r] \/ (handles[r] = 0 /\ handles'[r] = 1)
  <2>1. handles'[q] = 1 /\ (\A r \in Records : r # q => handles'[r] = handles[r]) /\ handles[q] = 0
    BY <1>1, <1>2, ChainEffect DEF Chains
  <2> QED  BY <2>1
<1> QED  BY <1>2, OtherSteps

-----------------------------------------------------------------------------
(* Calls that return *)

LEMMA ReturnedSame ==
    ASSUME calls' = calls, \A p \in Producers : pc'[p] = "idle" <=> pc[p] = "idle"
    PROVE  Returned' = Returned
<1>1. \A r \in Records : r[1] \in Producers
  BY DEF Records
<1> QED  BY <1>1 DEF Returned

LEMMA ReturnedBegin ==
    ASSUME TypeInv, NEW p \in Producers, LogStart(p)
    PROVE  Returned' = Returned
<1>1. /\ calls' = [calls EXCEPT ![p] = calls[p] + 1] /\ pc[p] = "idle" /\ pc'[p] # "idle"
      /\ \A q \in Producers : q # p => pc'[q] = pc[q]
      /\ calls \in [Producers -> 0 .. MaxLogs]
  BY DEF LogStart, TypeInv, TypeOK
<1>2. calls'[p] = calls[p] + 1 /\ calls[p] \in Nat
  BY <1>1
<1>3. ASSUME NEW r \in Records PROVE r \in Returned' <=> r \in Returned
  <2>1. r[1] \in Producers /\ r[2] \in Nat
    BY LogsAssumption DEF Records
  <2>2. CASE r[1] = p
    <3>1. r \in Returned <=> r[2] <= calls[p]
      BY <1>1, <1>2, <2>1, <2>2 DEF Returned
    <3>2. r \in Returned' <=> r[2] < calls[p] + 1
      BY <1>1, <1>2, <2>1, <2>2 DEF Returned
    <3> QED  BY <1>2, <2>1, <3>1, <3>2
  <2>3. CASE r[1] # p
    BY <1>1, <2>1, <2>3 DEF Returned
  <2> QED  BY <2>2, <2>3
<1> QED  BY <1>3 DEF Returned

LEMMA ReturnedEnd ==
    ASSUME TypeInv, NEW p \in Producers, pc[p] # "idle", pc' = [pc EXCEPT ![p] = "idle"], calls' = calls
    PROVE  Returned' = Returned \cup {Rec(p)} /\ Rec(p) \notin Returned /\ Rec(p) \in Records
<1>1. Rec(p) \in Records /\ calls[p] \in Nat
  BY HeldType DEF TypeInv, TypeOK
<1>2. Rec(p) \notin Returned
  BY <1>1 DEF Returned, Rec
<1>3. pc'[p] = "idle" /\ \A q \in Producers : q # p => pc'[q] = pc[q]
  BY DEF TypeInv, TypeOK
<1>4. ASSUME NEW r \in Records PROVE r \in Returned' <=> r \in Returned \/ r = Rec(p)
  <2>1. PICK q \in Producers, k \in 1 .. MaxLogs : r = <<q, k>>
    BY DEF Records
  <2>2. r = Rec(p) <=> q = p /\ k = calls[p]
    BY <2>1 DEF Rec
  <2>3. r \in Returned <=> k < calls[q] \/ (k = calls[q] /\ pc[q] = "idle")
    BY <2>1 DEF Returned
  <2>4. r \in Returned' <=> k < calls[q] \/ (k = calls[q] /\ pc'[q] = "idle")
    BY <2>1 DEF Returned
  <2> QED  BY <1>3, <2>2, <2>3, <2>4
<1>5. Returned' = Returned \cup {Rec(p)}
  BY <1>1, <1>4 DEF Returned
<1> QED  BY <1>1, <1>2, <1>5

LEMMA ReturnedGrows == ASSUME TypeInv, [Next]_vars PROVE Returned \subseteq Returned'
<1>1. ASSUME NEW p \in Producers, Producer(p) PROVE Returned \subseteq Returned'
  <2>1. CASE LogStart(p)
    BY <2>1, ReturnedBegin
  <2>2. CASE Direct(p) \/ Notify(p) \/ FallbackRelease(p)
    <3>1. pc[p] # "idle" /\ pc' = [pc EXCEPT ![p] = "idle"] /\ calls' = calls
      BY <2>2 DEF Direct, Notify, FallbackRelease
    <3> QED  BY <3>1, ReturnedEnd
  <2>3. CASE Acquire(p) \/ Route(p) \/ Push(p) \/ Fallback(p)
    <3>1. calls' = calls /\ \A q \in Producers : pc'[q] = "idle" <=> pc[q] = "idle"
      BY <2>3 DEF Acquire, Route, Push, Fallback, TypeInv, TypeOK
    <3> QED  BY <3>1, ReturnedSame
  <2> QED  BY <1>1, <2>1, <2>2, <2>3 DEF Producer
<1>2. ASSUME ~\E p \in Producers : Producer(p) PROVE Returned \subseteq Returned'
  <2>1. calls' = calls /\ pc' = pc
    BY <1>2 DEF Next, Worker, PopSome, PopNone, Process, ProcessRelease, WakeStop, WakeNotify, WakeTick,
                Syncer, SyncBegin, SyncAgain, StopWorker, DisableAsync, CloseSink, TimerFlush, Finished,
                vars, producerVars
  <2> QED  BY <2>1, ReturnedSame
<1> QED  BY <1>1, <1>2

-----------------------------------------------------------------------------
(* Records that wait go on waiting until their chain runs *)

LEMMA WaitsKept ==
    ASSUME NEW r, Waits(r),
           \A w \in Shards : \A o \in Elems(queue[w]) \cup Elems(batch[w]) :
               wpc[w] # "done" /\ msg[o] = r
               => /\ wpc'[w] # "done" /\ msg'[o] = msg[o]
                  /\ o \in Elems(queue'[w]) \cup Elems(batch'[w])
    PROVE  Waits(r)'
<1>0. PICK w \in Shards : wpc[w] # "done" /\ \E o \in Elems(queue[w]) \cup Elems(batch[w]) : msg[o] = r
  BY DEF Waits
<1>1. PICK o \in Elems(queue[w]) \cup Elems(batch[w]) : msg[o] = r
  BY <1>0
<1>2. wpc'[w] # "done" /\ msg'[o] = r /\ o \in Elems(queue'[w]) \cup Elems(batch'[w])
  BY <1>0, <1>1
<1>3. o \in (Elems(queue[w]) \cup Elems(batch[w]))'
  BY <1>2 DEF Elems
<1> QED  BY <1>2, <1>3 DEF Waits

LEMMA WaitsStep ==
    ASSUME ServiceInv, [Next]_vars, NEW r \in Records, Waits(r), handles'[r] = 0
    PROVE  Waits(r)'
<1> USE DEF ServiceInv
<1>1. handles[r] = 0
  BY HandlesGrow
<1>2. /\ wpc \in [Shards -> {"drain", "process", "release", "select", "done"}]
      /\ msg \in [Objs -> Records \cup {NoRecord}]
      /\ queue \in [Shards -> Seq(Objs)] /\ batch \in [Shards -> Seq(Objs)]
      /\ \A w \in Shards : \A o \in Elems(queue[w]) \cup Elems(batch[w]) : o \in Objs
  BY DEF TypeInv, TypeOK, Elems
<1>3. ASSUME UNCHANGED <<queue, batch, msg>>, \A w \in Shards : wpc[w] # "done" => wpc'[w] # "done" PROVE Waits(r)'
  BY <1>3, WaitsKept
<1>4. ASSUME NEW p \in Producers, Producer(p) PROVE Waits(r)'
  <2>1. wpc' = wpc /\ batch' = batch
    BY <1>4 DEF Producer, LogStart, Direct, Acquire, Route, Push, Notify, Fallback, FallbackRelease, workerVars
  <2>2. CASE LogStart(p) \/ Direct(p) \/ Route(p) \/ Notify(p) \/ Fallback(p)
    BY <1>3, <2>1, <2>2 DEF LogStart, Direct, Route, Notify, Fallback, ringVars, entryVars
  <2>3. CASE Acquire(p)
    <3>1. PICK x \in Objs : x \notin Referenced /\ msg' = [msg EXCEPT ![x] = Rec(p)]
      BY <2>3 DEF Acquire, TypeInv, TypeOK, EntryOwnership, PoolIdle
    <3>2. queue' = queue
      BY <2>3 DEF Acquire, ringVars
    <3>3. \A w \in Shards : \A o \in Elems(queue[w]) \cup Elems(batch[w]) : msg'[o] = msg[o]
      BY <1>2, <3>1, ReferencedIs
    <3> QED  BY <2>1, <3>2, <3>3, WaitsKept
  <2>4. CASE Push(p)
    <3>1. msg' = msg
      BY <2>4 DEF Push, entryVars
    <3>2. CASE queue' = queue
      BY <1>3, <2>1, <3>1, <3>2
    <3>3. CASE queue' # queue
      <4>1. queue' = [queue EXCEPT ![route[p]] = Append(@, cur[p])] /\ cur[p] \in Objs /\ route[p] \in Shards
        BY <2>4, <3>3, HeldType DEF Push, Holding, TypeInv, TypeOK
      <4>2. \A w \in Shards : \A o \in Elems(queue[w]) : o \in Elems(queue'[w])
        BY <1>2, <4>1, ElemsAppend
      <4> QED  BY <2>1, <3>1, <4>2, WaitsKept
    <3> QED  BY <3>2, <3>3
  <2>5. CASE FallbackRelease(p)
    <3>1. msg' = [msg EXCEPT ![cur[p]] = NoRecord] /\ queue' = queue
      BY <2>5 DEF FallbackRelease, Release, ringVars
    <3>2. \A w \in Shards : \A o \in Elems(queue[w]) \cup Elems(batch[w]) : msg'[o] = msg[o]
      BY <1>2, <3>1 DEF EntryOwnership, HeldNotSent
    <3> QED  BY <2>1, <3>1, <3>2, WaitsKept
  <2> QED  BY <1>4, <2>2, <2>3, <2>4, <2>5 DEF Producer
<1>5. ASSUME NEW w \in Shards, Worker(w) PROVE Waits(r)'
  <2>1. \A v \in Shards : v # w => wpc'[v] = wpc[v] /\ queue'[v] = queue[v] /\ batch'[v] = batch[v]
    BY <1>2, <1>5 DEF Worker, PopSome, PopNone, Process, ProcessRelease, WakeStop, WakeNotify, WakeTick, ringVars
  <2>2. CASE PopSome(w)
    <3> DEFINE n     == IF Len(queue[w]) < BatchCap THEN Len(queue[w]) ELSE BatchCap
               front == SubSeq(queue[w], 1, n)
               back  == SubSeq(queue[w], n + 1, Len(queue[w]))
    <3>1. /\ batch' = [batch EXCEPT ![w] = front] /\ queue' = [queue EXCEPT ![w] = back]
          /\ msg' = msg /\ wpc[w] = "drain" /\ wpc' = [wpc EXCEPT ![w] = "process"]
      BY <2>2 DEF PopSome, entryVars
    <3>2. queue[w] \in Seq(Objs) /\ n \in 1 .. Len(queue[w]) /\ Injective(queue[w])
      BY <2>2, BatchAssumption DEF PopSome, TypeInv, TypeOK, EntryOwnership, NoRepeats
    <3>3. \A x : x \in Elems(queue[w]) => x \in Elems(front) \/ x \in Elems(back)
      <4> HIDE DEF n
      <4> QED  BY <3>2, ElemsSplit
    <3> HIDE DEF front, back
    <3>4. batch'[w] = front /\ queue'[w] = back /\ wpc'[w] = "process"
      BY <1>2, <3>1
    <3>5. \A x : x \notin Elems(batch[w])
      <4>1. batch[w] = <<>>
        BY <3>1 DEF TypeInv
      <4> QED  BY <4>1 DEF Elems
    <3> QED  BY <2>1, <3>1, <3>3, <3>4, <3>5, WaitsKept
  <2>3. CASE PopNone(w)
    <3>1. UNCHANGED <<queue, batch, msg>> /\ queue[w] = <<>> /\ batch[w] = <<>>
      BY <2>3 DEF PopNone, ringVars, entryVars, TypeInv
    <3>2. \A o : o \notin Elems(queue[w]) \cup Elems(batch[w])
      BY <3>1 DEF Elems
    <3> QED  BY <2>1, <3>1, <3>2, WaitsKept
  <2>4. CASE Process(w) \/ WakeStop(w) \/ WakeNotify(w) \/ WakeTick(w)
    <3>1. UNCHANGED <<queue, batch, msg>> /\ wpc'[w] # "done"
      BY <1>2, <2>4 DEF Process, WakeStop, WakeNotify, WakeTick, ringVars, entryVars
    <3> QED  BY <1>3, <2>1, <3>1
  <2>5. CASE ProcessRelease(w)
    <3> DEFINE x == Head(batch[w])
    <3>1. /\ batch' = [batch EXCEPT ![w] = Tail(@)] /\ msg' = [msg EXCEPT ![x] = NoRecord]
          /\ queue' = queue /\ wpc'[w] # "done"
      BY <1>2, <2>5 DEF ProcessRelease, Release, ringVars
    <3>2. batch[w] \in Seq(Objs) /\ batch[w] # <<>> /\ x \in Objs /\ Injective(batch[w])
      BY <2>5, HeldType DEF ProcessRelease, EntryOwnership, NoRepeats
    <3>3. Elems(Tail(batch[w])) = Elems(batch[w]) \ {x}
      BY <3>2, ElemsTail
    <3>4. Drops(x)
      BY <2>5, ProcessReleaseKind
    <3> HIDE DEF x
    <3>5. msg[x] # r
      BY <1>1, <3>4 DEF Drops, Carriers, SpentHandled
    <3>6. batch'[w] = Tail(batch[w])
      BY <1>2, <3>1
    <3>7. \A o \in Objs : msg[o] = r => msg'[o] = msg[o] /\ o # x
      BY <1>2, <3>1, <3>5
    <3> QED  BY <1>2, <2>1, <3>1, <3>3, <3>6, <3>7, WaitsKept
  <2> QED  BY <1>5, <2>2, <2>3, <2>4, <2>5 DEF Worker
<1>6. ASSUME (\E c \in Syncers : Syncer(c)) \/ TimerFlush \/ UNCHANGED vars PROVE Waits(r)'
  BY <1>3, <1>6 DEF Syncer, SyncBegin, SyncAgain, StopWorker, DisableAsync, CloseSink, TimerFlush, vars,
                    workerVars, ringVars, entryVars
<1> QED  BY <1>4, <1>5, <1>6 DEF Next, Finished

-----------------------------------------------------------------------------
(* What was logged before Sync waits until it is handled *)

\* A record whose call has returned is in the ring or has been handled.
LEMMA ReturnedWaits ==
    ASSUME ServiceInv, once = "fresh", NEW r \in Returned, handles[r] = 0
    PROVE  Waits(r)
<1> USE DEF ServiceInv
<1>1. r \in Records /\ r \in Begun
  <2>1. r \in Records /\ calls[r[1]] \in Nat /\ r[2] \in Nat
    BY DEF Returned, Records, TypeInv, TypeOK
  <2> QED  BY <2>1 DEF Returned, Begun
<1>2. ASSUME NEW p \in Producers, r = Rec(p) PROVE pc[p] = "idle"
  <2>1. calls[p] \in Nat /\ r[1] = p /\ r[2] = calls[p]
    BY <1>2 DEF Rec, TypeInv, TypeOK
  <2> QED  BY <2>1 DEF Returned
<1>3. Carried(r)
  BY <1>1 DEF Carriers, NoneForgotten
<1>4. ~\E p \in Askers : r = Rec(p)
  BY <1>2 DEF Askers
<1>5. PICK o \in Live : msg[o] = r
  BY <1>3, <1>4 DEF Carried
<1>6. \A p \in Producers : cur[p] # o
  <2> SUFFICES ASSUME NEW p \in Producers, cur[p] = o PROVE FALSE
    OBVIOUS
  <2>1. pc[p] \in Holding
    BY DEF Live, TypeInv
  <2>2. msg[o] = Rec(p)
    BY <2>1 DEF OwnInv
  <2> QED  BY <1>2, <1>5, <2>1, <2>2 DEF Holding
<1>7. PICK w \in Shards : o \in Elems(queue[w]) \cup Elems(batch[w])
  BY <1>6, ReferencedIs DEF Live
<1>8. wpc[w] # "done"
  BY DEF StopInv
<1> QED  BY <1>5, <1>7, <1>8 DEF Waits

LEMMA BeforeChanges ==
    ASSUME [Next]_vars PROVE before' = before \/ \E c \in Syncers : SyncBegin(c) /\ via' = via
  BY DEF Next, Producer, LogStart, Direct, Acquire, Route, Push, Notify, Fallback, FallbackRelease,
         Worker, PopSome, PopNone, Process, ProcessRelease, WakeStop, WakeNotify, WakeTick,
         Syncer, SyncBegin, SyncAgain, StopWorker, DisableAsync, CloseSink, TimerFlush, Finished, vars, syncVars

LEMMA BeforeStep == ASSUME ServiceInv, BeforeInv, [Next]_vars PROVE BeforeInv'
<1>1. before' = before \/ \E c \in Syncers : SyncBegin(c)
  BY BeforeChanges
<1>2. CASE before' = before
  <2>1. before \subseteq Returned'
    BY ReturnedGrows DEF ServiceInv, BeforeInv
  <2>2. ASSUME NEW r \in before, handles'[r] = 0 PROVE Waits(r)'
    <3>1. r \in Records
      BY DEF BeforeInv, Returned
    <3>2. handles[r] = 0
      BY <2>2, <3>1, HandlesGrow
    <3>3. Waits(r)
      BY <3>2 DEF BeforeInv
    <3> QED  BY <2>2, <3>1, <3>3, WaitsStep
  <2> QED  BY <1>2, <2>1, <2>2 DEF BeforeInv
<1>3. ASSUME NEW c \in Syncers, SyncBegin(c) PROVE BeforeInv'
  <2>1. once = "fresh" /\ before' = Returned /\ UNCHANGED <<calls, pc, wpc, queue, batch, msg, handles>>
    BY <1>3 DEF SyncBegin, producerVars, workerVars, ringVars, entryVars, sinkVars
  <2>2. Returned' = Returned
    BY <2>1, ReturnedSame
  <2>3. ASSUME NEW r \in Returned, handles[r] = 0 PROVE Waits(r)'
    <3>1. Waits(r)
      BY <2>1, <2>3, ReturnedWaits
    <3> QED  BY <2>1, <3>1 DEF Waits, Elems
  <2> QED  BY <2>1, <2>2, <2>3 DEF BeforeInv
<1> QED  BY <1>1, <1>2, <1>3

\* When the sink is closed, nothing that was logged before Sync is left.
LEMMA ClosedHandled ==
    ASSUME ServiceInv, BeforeInv, closed
    PROVE  /\ \A w \in Shards : wpc[w] = "done"
           /\ \A r \in before : r \in Records /\ handles[r] # 0
<1>1. \A w \in Shards : wpc[w] = "done"
  BY DEF ServiceInv, OnceInv
<1> QED  BY <1>1 DEF BeforeInv, Waits, Returned

-----------------------------------------------------------------------------
(* The outcome of a record *)

\* A record that a producer is about to push has not been handled.
LEMMA PushedUnhandled ==
    ASSUME ServiceInv, NEW p \in Producers, pc[p] = "push"
    PROVE  Rec(p) \in Records /\ handles[Rec(p)] = 0
<1> USE DEF ServiceInv
<1>1. cur[p] \in Objs /\ cur[p] \in Live /\ msg[cur[p]] = Rec(p) /\ Rec(p) \in Records
  BY HeldType, ReferencedIs DEF Holding, OwnInv, Live
<1>2. ~Spent(cur[p])
  BY <1>1, SpentPlace
<1> QED  BY <1>1, <1>2 DEF Carriers, SpentHandled

\* Of the history of the ring, a step changes what it pushes.
LEMMA ViaStep ==
    ASSUME ServiceInv, [Next]_vars
    PROVE  /\ \A r \in Records : via'[r] = via[r] \/ handles[r] = 0
           /\ via' = via \/ UNCHANGED sinkVars
<1>1. via' = via \/ \E p \in Producers : Push(p)
  BY DEF Next, Producer, LogStart, Direct, Acquire, Route, Notify, Fallback, FallbackRelease,
         Worker, PopSome, PopNone, Process, ProcessRelease, WakeStop, WakeNotify, WakeTick,
         Syncer, SyncBegin, SyncAgain, StopWorker, DisableAsync, CloseSink, TimerFlush, Finished, vars
<1>2. ASSUME NEW p \in Producers, Push(p) PROVE UNCHANGED sinkVars /\ \A r \in Records : via'[r] = via[r] \/ handles[r] = 0
  <2>1. pc[p] = "push" /\ UNCHANGED sinkVars /\ (via' = via \/ via' = [via EXCEPT ![Rec(p)] = route[p]])
    BY <1>2 DEF Push
  <2>2. Rec(p) \in Records /\ handles[Rec(p)] = 0
    BY <2>1, PushedUnhandled
  <2>3. via \in [Records -> Shards \cup {OffRing}]
    BY DEF ServiceInv, TypeInv, TypeOK
  <2> QED  BY <2>1, <2>2, <2>3
<1> QED  BY <1>1, <1>2

\* A flush, or nothing, and perhaps Close.
LEMMA FlushKeeps ==
    ASSUME ServiceInv, SinkInv, handles' = handles, via' = via,
           \/ sink' = sink /\ closed' = closed
           \/ sink' = Flushed(sink) /\ ~closed /\ closed' = closed
           \/ sink' = Flushed(sink) /\ closed' = TRUE
    PROVE  \A r \in Records : /\ sink'[r] = "none" <=> handles'[r] = 0
                              /\ sink'[r] = "refused" => sink[r] = "refused" /\ closed' /\ via'[r] = OffRing
                              /\ sink'[r] = "buffered" => ~closed'
<1>1. sink \in [Records \cup {NoRecord} -> SinkStates]
  BY DEF ServiceInv, TypeInv, TypeOK, SinkStates
<1>2. CASE sink' = sink /\ closed' = closed
  BY <1>2 DEF SinkInv
<1>3. CASE sink' = Flushed(sink) /\ (closed' = closed \/ closed' = TRUE)
  <2>1. \A r \in Records : sink'[r] = IF sink[r] = "buffered" THEN "written" ELSE sink[r]
    BY <1>1, <1>3, FlushedType
  <2>2. closed => closed'
    BY <1>3
  <2> QED  BY <2>1, <2>2 DEF SinkInv
<1> QED  BY <1>2, <1>3

LEMMA SinkStep == ASSUME ServiceInv, BeforeInv, SinkInv, [Next]_vars PROVE SinkInv'
<1> USE DEF ServiceInv
<1>1. ASSUME NEW q \in Records, Chains(q), UNCHANGED <<calls, before>>, via' = via PROVE SinkInv'
  <2>1. /\ handles'[q] = 1 /\ closed' = closed
        /\ sink'[q] \in IF closed THEN {"refused", "panicked"} ELSE {"buffered", "written", "panicked"}
        /\ \A r \in Records : r # q => /\ handles'[r] = handles[r]
                                       /\ sink'[r] = sink[r] \/ (sink[r] = "buffered" /\ sink'[r] = "written")
    BY <1>1, ChainEffect
  <2>2. closed => via[q] = OffRing /\ q \notin before
    BY <1>1, ClosedHandled DEF Chains
  <2>3. \A r \in Records : /\ sink'[r] = "none" <=> handles'[r] = 0
                           /\ sink'[r] = "refused" => closed' /\ via'[r] = OffRing
                           /\ sink'[r] = "buffered" => ~closed'
    BY <1>1, <2>1, <2>2 DEF SinkInv
  <2>4. \A r \in before : r \in Records
    BY DEF BeforeInv, Returned
  <2>5. \A r \in before' : sink'[r] # "refused"
    BY <1>1, <2>1, <2>2, <2>4 DEF SinkInv
  <2> QED  BY <2>3, <2>5 DEF SinkInv
<1>2. ASSUME handles' = handles,
             \/ sink' = sink /\ closed' = closed
             \/ sink' = Flushed(sink) /\ ~closed /\ closed' = closed
             \/ sink' = Flushed(sink) /\ closed' = TRUE
      PROVE SinkInv'
  <2>1. CASE via' = via
    <3>1. \A r \in Records : /\ sink'[r] = "none" <=> handles'[r] = 0
                             /\ sink'[r] = "refused" => sink[r] = "refused" /\ closed' /\ via'[r] = OffRing
                             /\ sink'[r] = "buffered" => ~closed'
      BY <1>2, <2>1, FlushKeeps
    <3>2. CASE before' = before
      <4>1. \A r \in before : r \in Records
        BY DEF BeforeInv, Returned
      <4> QED  BY <3>1, <3>2, <4>1 DEF SinkInv
    <3>3. CASE before' # before
      <4>1. PICK c \in Syncers : SyncBegin(c)
        BY <3>3, BeforeChanges
      <4>2. ~closed /\ sink' = sink /\ before' = Returned
        BY <4>1 DEF SyncBegin, sinkVars, OnceInv
      <4>3. \A r \in Returned : r \in Records
        BY DEF Returned
      <4> QED  BY <3>1, <4>2, <4>3 DEF SinkInv
    <3> QED  BY <3>2, <3>3
  <2>2. CASE via' # via
    <3>1. UNCHANGED sinkVars /\ \A r \in Records : via'[r] = via[r] \/ handles[r] = 0
      BY <2>2, ViaStep
    <3>2. before' = before
      BY <2>2, BeforeChanges DEF SyncBegin
    <3> QED  BY <3>1, <3>2 DEF SinkInv, sinkVars
  <2> QED  BY <2>1, <2>2
<1> QED  BY <1>1, <1>2, OtherSteps

-----------------------------------------------------------------------------
(* The theorems about Sync *)

ServiceIInv == ServiceInv /\ BeforeInv /\ SinkInv

LEMMA ServiceInit == Init => ServiceIInv
<1> SUFFICES ASSUME Init PROVE ServiceIInv
  OBVIOUS
<1>1. TypeInv /\ EntryOwnership /\ Carriers
  BY TypeInit, OwnershipInit, CarriersInit
<1>2. OwnInv /\ StopInv
  BY DEF Init, OwnInv, StopInv, Holding, InCall
<1>3. OnceInv
  BY DEF Init, OnceInv
<1>4. BeforeInv /\ SinkInv
  BY DEF Init, BeforeInv, SinkInv
<1> QED  BY <1>1, <1>2, <1>3, <1>4 DEF ServiceIInv, ServiceInv

LEMMA ServiceStep == ServiceIInv /\ [Next]_vars => ServiceIInv'
  BY TypeStep, OwnershipStep, CarriersStep, OwnStep, StopStep, BeforeStep, SinkStep
     DEF ServiceIInv, ServiceInv

LEMMA ServiceHolds == Spec => []ServiceIInv
  BY ServiceInit, ServiceStep, PTL DEF Spec

LEMMA DoneDelivers == ServiceIInv => SyncDeliversEarlierLogs
<1> SUFFICES ASSUME ServiceIInv, once = "done", NEW r \in before PROVE sink[r] \in {"written", "panicked"}
  BY DEF SyncDeliversEarlierLogs
<1>1. closed
  BY DEF ServiceIInv, ServiceInv, OnceInv
<1>2. r \in Records /\ handles[r] # 0
  BY <1>1, ClosedHandled DEF ServiceIInv
<1>3. sink[r] \in SinkStates
  BY <1>2 DEF ServiceIInv, ServiceInv, TypeInv, TypeOK, SinkStates
<1> QED  BY <1>1, <1>2, <1>3 DEF ServiceIInv, SinkInv, SinkStates

\* SyncDeliversEarlierLogs: when Sync has returned, what was logged before it
\* is written or was reported as a panic; it is not lost in the ring, in a
\* batch, in the buffer, nor refused by the closed writer.
THEOREM SyncDelivers == Spec => []SyncDeliversEarlierLogs
  BY DoneDelivers, ServiceHolds, PTL

\* WorkersNeverRefused: the writer closes under no worker.
THEOREM WorkersServed == Spec => []WorkersNeverRefused
<1>1. ServiceIInv => WorkersNeverRefused
  BY DEF ServiceIInv, SinkInv, WorkersNeverRefused, Shards, OffRing
<1> QED  BY <1>1, ServiceHolds, PTL

-----------------------------------------------------------------------------
(* The refinement *)

Handled == {r \in Records : handles[r] = 1}
Final   == {r \in Records : sink[r] \in {"written", "panicked"}}
Stage   == CASE once = "fresh" -> "open" [] once = "running" -> "syncing" [] OTHER -> "synced"

\* An outcome that is final stays so, and only a handled record has one.
LEMMA FinalGrows ==
    ASSUME ServiceIInv, [Next]_vars
    PROVE  Final \subseteq Final' /\ Final' \subseteq Handled' /\ Final \subseteq Handled
<1>1. ServiceIInv'
  BY ServiceStep
<1>2. Final \subseteq Handled
  BY DEF Final, Handled, ServiceIInv, ServiceInv, SinkInv, Carriers, HandledOnce
<1>3. Final' \subseteq Handled'
  BY <1>1 DEF Final, Handled, ServiceIInv, ServiceInv, SinkInv, Carriers, HandledOnce
<1>4. ASSUME NEW r \in Final PROVE r \in Final'
  <2>1. r \in Records /\ sink[r] \in {"written", "panicked"} /\ handles[r] # 0
    BY DEF Final, ServiceIInv, SinkInv
  <2>2. sink \in [Records \cup {NoRecord} -> SinkStates]
    BY DEF ServiceIInv, ServiceInv, TypeInv, TypeOK, SinkStates
  <2>3. ASSUME NEW q \in Records, Chains(q) PROVE sink'[r] = sink[r]
    <3>1. q # r
      BY <2>1, <2>3 DEF Chains
    <3> QED  BY <2>1, <2>3, <3>1, ChainEffect DEF ServiceIInv, ServiceInv
  <2>4. ASSUME sink' = sink \/ sink' = Flushed(sink) PROVE sink'[r] = sink[r]
    BY <2>1, <2>2, <2>4, FlushedType
  <2>5. sink'[r] = sink[r]
    BY <2>3, <2>4, OtherSteps DEF ServiceIInv
  <2> QED  BY <2>1, <2>5 DEF Final
<1> QED  BY <1>2, <1>3, <1>4

\* The steps of the service, in terms of what the pipeline's state maps to.
LEMMA MapsTo ==
    /\ UNCHANGED <<Begun, Returned, Handled, Final, Stage, before>> => UNCHANGED Service!lsVars
    /\ \A r \in Records :
         /\ r \notin Begun /\ Begun' = Begun \cup {r} /\ UNCHANGED <<Returned, Handled, Final, Stage, before>>
            => Service!Log(r)
         /\ r \in Begun \ Returned /\ Returned' = Returned \cup {r}
            /\ UNCHANGED <<Begun, Handled, Final, Stage, before>>
            => Service!Return(r)
         /\ r \in Begun \ Handled /\ Handled' = Handled \cup {r} /\ Returned' \in {Returned, Returned \cup {r}}
            /\ Final \subseteq Final' /\ Final' \subseteq Handled' /\ UNCHANGED <<Begun, Stage, before>>
            => Service!HandleRecord(r)
    /\ Final \subseteq Final' /\ Final' \subseteq Handled /\ UNCHANGED <<Begun, Returned, Handled, Stage, before>>
       => Service!Settle
    /\ Stage = "open" /\ Stage' = "syncing" /\ before' = Returned
       /\ UNCHANGED <<Begun, Returned, Handled, Final>>
       => Service!SyncBegins
    /\ Stage = "syncing" /\ Stage' = "synced" /\ Final \subseteq Final' /\ Final' \subseteq Handled
       /\ before \subseteq Final' /\ UNCHANGED <<Begun, Returned, Handled, before>>
       => Service!SyncEnds
  BY DEF Handled, Final, Stage, Service!lsVars, Service!Log, Service!Return, Service!HandleRecord,
         Service!Settle, Service!SyncBegins, Service!SyncEnds

LEMMA ServiceMapInit == Init => Service!ServiceInit
<1> SUFFICES ASSUME Init PROVE Service!ServiceInit
  OBVIOUS
<1>1. \A r \in Records : r[1] \in Producers /\ r[2] \in Nat /\ r[2] > 0
  BY DEF Records
<1>2. Begun = {} /\ Returned = {}
  BY <1>1 DEF Init, Begun, Returned
<1> QED  BY <1>2 DEF Init, Service!ServiceInit

Simulates == [Service!ServiceNext]_(Service!lsVars)

\* What none of the actions below changes maps to a stutter.
LEMMA StillStutters ==
    ASSUME UNCHANGED <<calls, sink, handles, once, before>>, Returned' = Returned
    PROVE  Simulates
<1>1. UNCHANGED <<Begun, Handled, Final, Stage>>
  BY DEF Begun, Handled, Final, Stage
<1> QED  BY <1>1, MapsTo DEF Simulates

\* The chain runs on r, in whichever goroutine.
LEMMA ChainSimulates ==
    ASSUME ServiceIInv, [Next]_vars, NEW r \in Records, Chains(r), UNCHANGED <<calls, once, before>>,
           Returned' \in {Returned, Returned \cup {r}}
    PROVE  Simulates
<1>1. handles'[r] = 1 /\ \A q \in Records : q # r => handles'[q] = handles[q]
  BY ChainEffect DEF ServiceIInv, ServiceInv
<1>2. Handled' = Handled \cup {r} /\ r \in Begun \ Handled /\ UNCHANGED <<Begun, Stage>>
  BY <1>1 DEF Handled, Begun, Stage, Chains
<1>3. Service!HandleRecord(r)
  BY <1>2, FinalGrows, MapsTo
<1> QED  BY <1>3 DEF Simulates, Service!ServiceNext

LEMMA ProducerSimulates ==
    ASSUME ServiceIInv, NEW p \in Producers, Producer(p) PROVE Simulates
<1> USE DEF ServiceIInv, ServiceInv
<1>1. CASE LogStart(p)
  <2>1. Rec(p)' \in Records /\ Rec(p)' \notin Begun /\ Begun' = Begun \cup {Rec(p)'}
    BY <1>1, LogStartKind, NextCall
  <2>2. UNCHANGED <<Handled, Final, Stage, before>>
    BY <1>1 DEF LogStart, sinkVars, syncVars, Handled, Final, Stage
  <2>3. Service!Log(Rec(p)')
    BY <1>1, <2>1, <2>2, ReturnedBegin, MapsTo
  <2> QED  BY <2>1, <2>3 DEF Simulates, Service!ServiceNext
<1>2. CASE Notify(p) \/ FallbackRelease(p)
  <2>1. pc[p] # "idle" /\ pc' = [pc EXCEPT ![p] = "idle"] /\ calls' = calls
    BY <1>2 DEF Notify, FallbackRelease
  <2>2. Returned' = Returned \cup {Rec(p)} /\ Rec(p) \notin Returned /\ Rec(p) \in Records
    BY <2>1, ReturnedEnd
  <2>3. Rec(p) \in Begun
    BY <2>2 DEF Rec, Begun, TypeInv, TypeOK
  <2>4. UNCHANGED <<Begun, Handled, Final, Stage, before>>
    BY <1>2, <2>1 DEF Notify, FallbackRelease, sinkVars, syncVars, Begun, Handled, Final, Stage
  <2>5. Service!Return(Rec(p))
    BY <2>2, <2>3, <2>4, MapsTo
  <2> QED  BY <2>2, <2>5 DEF Simulates, Service!ServiceNext
<1>3. CASE Direct(p) \/ Fallback(p)
  <2>1. Chains(Rec(p)) /\ Rec(p) \in Records /\ UNCHANGED <<calls, once, before>>
    BY <1>3, ChainsRecord DEF Chains, Direct, Fallback, syncVars
  <2>2. Returned' \in {Returned, Returned \cup {Rec(p)}}
    <3>1. CASE Direct(p)
      BY <3>1, ReturnedEnd DEF Direct
    <3>2. CASE Fallback(p)
      <4>1. \A q \in Producers : pc'[q] = "idle" <=> pc[q] = "idle"
        BY <3>2 DEF Fallback, TypeInv, TypeOK
      <4> QED  BY <2>1, <4>1, ReturnedSame
    <3> QED  BY <1>3, <3>1, <3>2
  <2> QED  BY <1>3, <2>1, <2>2, ChainSimulates DEF Next
<1>4. CASE Acquire(p) \/ Route(p) \/ Push(p)
  <2>1. UNCHANGED <<calls, sink, handles, once, before>> /\ \A q \in Producers : pc'[q] = "idle" <=> pc[q] = "idle"
    BY <1>4 DEF Acquire, Route, Push, sinkVars, syncVars, TypeInv, TypeOK
  <2> QED  BY <2>1, ReturnedSame, StillStutters
<1> QED  BY <1>1, <1>2, <1>3, <1>4 DEF Producer

LEMMA WorkerSimulates ==
    ASSUME ServiceIInv, NEW w \in Shards, Worker(w) PROVE Simulates
<1> USE DEF ServiceIInv, ServiceInv
<1>1. UNCHANGED <<calls, pc, once, before>>
  BY DEF Worker, PopSome, PopNone, Process, ProcessRelease, WakeStop, WakeNotify, WakeTick, producerVars, syncVars
<1>2. Returned' = Returned
  BY <1>1, ReturnedSame
<1>3. CASE Process(w)
  <2>1. Chains(msg[Head(batch[w])]) /\ msg[Head(batch[w])] \in Records
    BY <1>3, ChainsRecord DEF Chains
  <2> QED  BY <1>1, <1>2, <2>1, ChainSimulates DEF Next
<1>4. CASE ~Process(w)
  <2>1. UNCHANGED <<sink, handles>>
    BY <1>4 DEF Worker, PopSome, PopNone, ProcessRelease, WakeStop, WakeNotify, WakeTick, sinkVars
  <2> QED  BY <1>1, <1>2, <2>1, StillStutters
<1> QED  BY <1>3, <1>4

LEMMA SyncerSimulates ==
    ASSUME ServiceIInv, NEW c \in Syncers, Syncer(c) PROVE Simulates
<1> USE DEF ServiceIInv, ServiceInv
<1>1. UNCHANGED <<calls, pc, handles>> /\ Returned' = Returned
  <2>1. UNCHANGED <<calls, pc, handles>>
    BY DEF Syncer, SyncBegin, SyncAgain, StopWorker, DisableAsync, CloseSink, producerVars, sinkVars
  <2> QED  BY <2>1, ReturnedSame
<1>2. CASE SyncBegin(c)
  <2>1. Stage = "open" /\ Stage' = "syncing" /\ before' = Returned /\ UNCHANGED <<Begun, Returned, Handled, Final>>
    BY <1>1, <1>2 DEF SyncBegin, sinkVars, Stage, Begun, Handled, Final
  <2> QED  BY <2>1, MapsTo DEF Simulates, Service!ServiceNext
<1>3. CASE CloseSink(c)
  <2>1. [Next]_vars /\ once = "running" /\ once' = "done" /\ before' = before
    BY <1>3 DEF Next, Syncer, CloseSink, OnceInv
  <2>2. ServiceIInv'
    BY <2>1, ServiceStep
  <2>3. SyncDeliversEarlierLogs'
    BY <2>2, DoneDelivers, PTL
  <2>4. before \subseteq Final'
    BY <2>1, <2>3 DEF SyncDeliversEarlierLogs, Final, BeforeInv, Returned
  <2>5. Stage = "syncing" /\ Stage' = "synced" /\ UNCHANGED <<Begun, Handled>>
    BY <1>1, <2>1 DEF Stage, Begun, Handled
  <2>6. Service!SyncEnds
    BY <1>1, <2>1, <2>4, <2>5, FinalGrows, MapsTo
  <2> QED  BY <2>6 DEF Simulates, Service!ServiceNext
<1>4. CASE ~SyncBegin(c) /\ ~CloseSink(c)
  <2>1. UNCHANGED <<sink, once, before>>
    BY <1>4 DEF Syncer, SyncAgain, StopWorker, DisableAsync, sinkVars
  <2> QED  BY <1>1, <2>1, StillStutters
<1> QED  BY <1>2, <1>3, <1>4

LEMMA FlushSimulates == ASSUME ServiceIInv, TimerFlush PROVE Simulates
<1>1. UNCHANGED <<calls, pc, handles, once, before>>
  BY DEF TimerFlush, producerVars, syncVars
<1>2. UNCHANGED <<Begun, Returned, Handled, Stage>>
  BY <1>1 DEF Begun, Returned, Handled, Stage
<1>3. [Next]_vars
  BY DEF Next
<1> QED  BY <1>1, <1>2, <1>3, FinalGrows, MapsTo DEF Simulates, Service!ServiceNext

\* ImplementsService: whatever goroutines, shards, pool and buffers do, the
\* pipeline behaves as LogService.
THEOREM RefinesService == Spec => ImplementsService
<1>1. ServiceIInv /\ [Next]_vars => Simulates
  <2> SUFFICES ASSUME ServiceIInv, [Next]_vars PROVE Simulates
    OBVIOUS
  <2>1. CASE UNCHANGED vars
    <3>1. UNCHANGED <<calls, pc, sink, handles, once, before>>
      BY <2>1 DEF vars, producerVars, sinkVars, syncVars
    <3> QED  BY <3>1, ReturnedSame, StillStutters
  <2> QED  BY <2>1, ProducerSimulates, WorkerSimulates, SyncerSimulates, FlushSimulates DEF Next, Finished
<1> QED
  BY <1>1, ServiceHolds, ServiceMapInit, PTL DEF Spec, Simulates, ImplementsService, Service!ServiceSpec

-----------------------------------------------------------------------------
(***************************************************************************)
(* The order of a shard.  Of two records of one producer, the later one is *)
(* behind the earlier one in the queue and in the batch of their shard.    *)
(***************************************************************************)

Earlier(r, q) == r[1] = q[1] /\ r[2] < q[2]

\* No entry of s carries a record that is earlier than one before it.
Ordered(s, m) == \A i, j \in 1 .. Len(s) : i < j => ~Earlier(m[s[j]], m[s[i]])

ViaIs      == \A w \in Shards : \A o \in Elems(queue[w]) \cup Elems(batch[w]) : via[msg[o]] = w
InOrder    == \A w \in Shards : Ordered(queue[w], msg) /\ Ordered(batch[w], msg)
BatchFirst == \A w \in Shards : \A o \in Elems(batch[w]), q \in Elems(queue[w]) : ~Earlier(msg[q], msg[o])

OrderInv == ViaIs /\ InOrder /\ BatchFirst /\ ShardOrder

LEMMA OrderedKept ==
    ASSUME NEW s, NEW m, NEW k, Ordered(s, m), \A o \in Elems(s) : k[o] = m[o]
    PROVE  Ordered(s, k)
  BY DEF Ordered, Elems

LEMMA OrderedAppend ==
    ASSUME NEW s \in Seq(Objs), NEW o \in Objs, NEW m, Ordered(s, m), \A x \in Elems(s) : ~Earlier(m[o], m[x])
    PROVE  Ordered(Append(s, o), m)
<1> SUFFICES ASSUME NEW i \in 1 .. Len(Append(s, o)), NEW j \in 1 .. Len(Append(s, o)), i < j
             PROVE  ~Earlier(m[Append(s, o)[j]], m[Append(s, o)[i]])
  BY DEF Ordered
<1>1. /\ Len(s) \in Nat /\ Len(Append(s, o)) = Len(s) + 1 /\ Append(s, o)[Len(s) + 1] = o
      /\ \A k \in 1 .. Len(s) : Append(s, o)[k] = s[k]
  OBVIOUS
<1>2. i \in 1 .. Len(s) /\ Append(s, o)[i] = s[i] /\ s[i] \in Elems(s)
  BY <1>1 DEF Elems
<1>3. CASE j = Len(s) + 1
  BY <1>1, <1>2, <1>3
<1>4. CASE j # Len(s) + 1
  <2>1. j \in 1 .. Len(s)
    BY <1>1, <1>4
  <2> QED  BY <1>1, <1>2, <2>1 DEF Ordered
<1> QED  BY <1>3, <1>4

\* A sequence whose elements stand in s in the same order.
LEMMA OrderedPart ==
    ASSUME NEW s, NEW t, NEW m, NEW d \in Nat, Len(s) \in Nat, Len(t) \in Nat, Ordered(s, m),
           \A i \in 1 .. Len(t) : d + i \in 1 .. Len(s) /\ t[i] = s[d + i]
    PROVE  Ordered(t, m)
<1> SUFFICES ASSUME NEW i \in 1 .. Len(t), NEW j \in 1 .. Len(t), i < j PROVE ~Earlier(m[t[j]], m[t[i]])
  BY DEF Ordered
<1>1. d + i \in 1 .. Len(s) /\ d + j \in 1 .. Len(s) /\ d + i < d + j /\ t[i] = s[d + i] /\ t[j] = s[d + j]
  OBVIOUS
<1> QED  BY <1>1 DEF Ordered

LEMMA OrderedSplit ==
    ASSUME NEW s \in Seq(Objs), NEW n \in 1 .. Len(s), NEW m, Ordered(s, m)
    PROVE  LET front == SubSeq(s, 1, n)
               back  == SubSeq(s, n + 1, Len(s))
           IN  /\ Ordered(front, m) /\ Ordered(back, m)
               /\ Elems(front) \subseteq Elems(s) /\ Elems(back) \subseteq Elems(s)
               /\ \A o \in Elems(front), q \in Elems(back) : ~Earlier(m[q], m[o])
<1> DEFINE front == SubSeq(s, 1, n)
           back  == SubSeq(s, n + 1, Len(s))
<1>1. /\ Len(front) = n /\ \A i \in 1 .. n : front[i] = s[i]
      /\ Len(back) = Len(s) - n /\ \A i \in 1 .. Len(s) - n : back[i] = s[n + i]
      /\ Len(s) \in Nat /\ n \in Nat
  BY SplitQueue
<1> HIDE DEF front, back
<1>2. \A i \in 1 .. Len(front) : i \in 1 .. Len(s) /\ front[i] = s[i]
  <2> TAKE i \in 1 .. Len(front)
  <2> QED  BY <1>1
<1>3. \A i \in 1 .. Len(back) : n + i \in 1 .. Len(s) /\ back[i] = s[n + i]
  <2> TAKE i \in 1 .. Len(back)
  <2> QED  BY <1>1
<1>4. Ordered(front, m)
  BY <1>2 DEF Ordered
<1>5. Ordered(back, m)
  <2>1. n \in Nat /\ Len(s) \in Nat /\ Len(back) \in Nat
    BY <1>1
  <2> QED  BY <1>3, <2>1, OrderedPart
<1>6. ASSUME NEW o \in Elems(front), NEW q \in Elems(back) PROVE ~Earlier(m[q], m[o])
  <2>1. PICK i \in 1 .. Len(front) : o = front[i]
    BY DEF Elems
  <2>2. PICK j \in 1 .. Len(back) : q = back[j]
    BY DEF Elems
  <2>3. i \in 1 .. Len(s) /\ n + j \in 1 .. Len(s) /\ i < n + j /\ o = s[i] /\ q = s[n + j]
    BY <1>1, <2>1, <2>2
  <2> QED  BY <2>3 DEF Ordered
<1>7. Elems(front) \subseteq Elems(s)
  BY <1>2 DEF Elems
<1>8. Elems(back) \subseteq Elems(s)
  BY <1>3 DEF Elems
<1> QED  BY <1>4, <1>5, <1>6, <1>7, <1>8 DEF front, back

LEMMA OrderedTail ==
    ASSUME NEW s \in Seq(Objs), s # <<>>, NEW m, Ordered(s, m)
    PROVE  Ordered(Tail(s), m)
<1>1. Len(s) \in Nat /\ Len(Tail(s)) = Len(s) - 1 /\ Len(Tail(s)) \in Nat /\ \A i \in 1 .. Len(Tail(s)) : Tail(s)[i] = s[1 + i]
  OBVIOUS
<1>2. \A i \in 1 .. Len(Tail(s)) : 1 + i \in 1 .. Len(s)
  BY <1>1
<1> QED  BY <1>1, <1>2, OrderedPart

\* Steps that leave queues and batches, and what their entries carry.
LEMMA PlacesKept ==
    ASSUME ViaIs, InOrder, BatchFirst, UNCHANGED <<queue, batch, via>>,
           \A w \in Shards : \A o \in Elems(queue[w]) \cup Elems(batch[w]) : msg'[o] = msg[o]
    PROVE  (ViaIs /\ InOrder /\ BatchFirst)'
<1>1. ViaIs'
  BY DEF ViaIs
<1>2. BatchFirst'
  BY DEF BatchFirst
<1>3. InOrder'
  BY OrderedKept DEF InOrder
<1> QED  BY <1>1, <1>2, <1>3

\* A record that was pushed and not handled is in the queue or the batch of its shard.
LEMMA PushedWaits ==
    ASSUME ServiceInv, ViaIs, NEW r \in Records, NEW w \in Shards, via[r] = w, handles[r] = 0
    PROVE  \E o \in Elems(queue[w]) \cup Elems(batch[w]) : msg[o] = r
<1> USE DEF ServiceInv
<1>0. w # OffRing
  BY DEF Shards, OffRing
<1>1. Carried(r)
  BY <1>0 DEF OwnInv, Carriers, NoneForgotten
<1>2. ASSUME NEW p \in Askers, r = Rec(p) PROVE FALSE
  BY <1>0, <1>2 DEF OwnInv, Askers, InCall
<1>3. PICK o \in Live : msg[o] = r
  BY <1>1, <1>2 DEF Carried
<1>4. ASSUME NEW p \in Producers, o = cur[p] PROVE FALSE
  <2>1. pc[p] \in Holding
    BY <1>4 DEF TypeInv, Live
  <2>2. pc[p] \in InCall /\ msg[cur[p]] = Rec(p)
    BY <2>1 DEF OwnInv, Holding, InCall
  <2> QED  BY <1>0, <1>3, <1>4, <2>2 DEF OwnInv
<1>5. PICK s \in Shards : o \in Elems(queue[s]) \cup Elems(batch[s])
  BY <1>3, <1>4, ReferencedIs DEF Live
<1> QED  BY <1>3, <1>5 DEF ViaIs

LEMMA PlacesStep == ServiceInv /\ OrderInv /\ [Next]_vars => (ViaIs /\ InOrder /\ BatchFirst)'
<1> SUFFICES ASSUME ServiceInv, OrderInv, [Next]_vars PROVE (ViaIs /\ InOrder /\ BatchFirst)'
  OBVIOUS
<1> USE DEF ServiceInv, OrderInv
<1>0. /\ queue \in [Shards -> Seq(Objs)] /\ batch \in [Shards -> Seq(Objs)]
      /\ msg \in [Objs -> Records \cup {NoRecord}] /\ via \in [Records -> Shards \cup {OffRing}]
      /\ \A w \in Shards : Elems(queue[w]) \subseteq Objs /\ Elems(batch[w]) \subseteq Objs
  BY DEF TypeInv, TypeOK, Elems
<1>1. ASSUME NEW p \in Producers, Acquire(p) PROVE (ViaIs /\ InOrder /\ BatchFirst)'
  <2>1. PICK o \in Objs : o \notin Referenced /\ msg' = [msg EXCEPT ![o] = Rec(p)]
    BY <1>1 DEF Acquire, TypeInv, TypeOK, EntryOwnership, PoolIdle
  <2>2. \A w \in Shards : \A q \in Elems(queue[w]) \cup Elems(batch[w]) : q # o
    BY <2>1, ReferencedIs
  <2>3. UNCHANGED <<queue, batch, via>>
    BY <1>1 DEF Acquire, workerVars, ringVars
  <2> QED  BY <1>0, <2>1, <2>2, <2>3, PlacesKept
<1>2. ASSUME NEW p \in Producers, FallbackRelease(p) PROVE (ViaIs /\ InOrder /\ BatchFirst)'
  <2>1. msg' = [msg EXCEPT ![cur[p]] = NoRecord] /\ UNCHANGED <<queue, batch, via>>
    BY <1>2 DEF FallbackRelease, Release, workerVars, ringVars
  <2>2. \A w \in Shards : \A q \in Elems(queue[w]) \cup Elems(batch[w]) : q # cur[p]
    BY DEF EntryOwnership, HeldNotSent
  <2> QED  BY <1>0, <2>1, <2>2, PlacesKept
<1>3. ASSUME NEW p \in Producers, Push(p) PROVE (ViaIs /\ InOrder /\ BatchFirst)'
  <2>1. pc[p] = "push" /\ UNCHANGED <<batch, msg>>
    BY <1>3 DEF Push, workerVars, entryVars
  <2>2. CASE UNCHANGED <<queue, via>>
    BY <2>1, <2>2, PlacesKept
  <2>3. CASE queue' = [queue EXCEPT ![route[p]] = Append(@, cur[p])] /\ via' = [via EXCEPT ![Rec(p)] = route[p]]
    <3> DEFINE s == route[p]
               o == cur[p]
    <3>1. s \in Shards /\ o \in Objs /\ msg[o] = Rec(p) /\ Rec(p) \in Records /\ o \in Live /\ calls[p] \in Nat
      BY <2>1, HeldType, ReferencedIs DEF Holding, OwnInv, Live, TypeInv, TypeOK
    <3>2. /\ Elems(queue'[s]) = Elems(queue[s]) \cup {o} /\ queue'[s] = Append(queue[s], o)
          /\ \A t \in Shards : t # s => queue'[t] = queue[t]
      <4>1. queue'[s] = Append(queue[s], o) /\ \A t \in Shards : t # s => queue'[t] = queue[t]
        BY <1>0, <2>3, <3>1
      <4> QED  BY <1>0, <3>1, <4>1, ElemsAppend
    <3>3. ASSUME NEW w \in Shards, NEW q \in Elems(queue[w]) \cup Elems(batch[w])
          PROVE  msg[q] \in Records /\ msg[q] # Rec(p) /\ ~Earlier(Rec(p), msg[q])
      <4>1. q \in Live /\ q # o
        BY <1>0, ReferencedIs DEF Live, EntryOwnership, HeldNotSent
      <4>2. msg[q] \in Begun /\ msg[q] # Rec(p)
        BY <3>1, <4>1 DEF Carriers, LiveBegun, OneCarrier
      <4>3. msg[q] \in Records /\ msg[q][2] <= calls[msg[q][1]] /\ msg[q][2] \in Nat
        BY <4>2 DEF Begun, Records
      <4>4. ASSUME Earlier(Rec(p), msg[q]) PROVE FALSE
        BY <3>1, <4>3, <4>4 DEF Earlier, Rec
      <4> QED  BY <4>2, <4>3, <4>4
    <3>4. \A r \in Records : via'[r] = IF r = Rec(p) THEN s ELSE via[r]
      BY <1>0, <2>3
    <3> HIDE DEF s, o
    <3>5. ViaIs'
      <4> SUFFICES ASSUME NEW w \in Shards, NEW q \in Elems(queue'[w]) \cup Elems(batch'[w]) PROVE via'[msg'[q]] = w
        BY DEF ViaIs
      <4>1. CASE q \in Elems(queue[w]) \cup Elems(batch[w])
        <5>1. via[msg[q]] = w
          BY <4>1 DEF ViaIs
        <5> QED  BY <2>1, <3>3, <3>4, <4>1, <5>1
      <4>2. CASE q \notin Elems(queue[w]) \cup Elems(batch[w])
        <5>1. q = o /\ w = s
          BY <2>1, <3>2, <4>2
        <5> QED  BY <2>1, <3>1, <3>4, <5>1
      <4> QED  BY <4>1, <4>2
    <3>6. BatchFirst'
      <4> SUFFICES ASSUME NEW w \in Shards, NEW x \in Elems(batch'[w]), NEW q \in Elems(queue'[w])
                   PROVE  ~Earlier(msg'[q], msg'[x])
        BY DEF BatchFirst
      <4>1. x \in Elems(batch[w]) /\ (q \in Elems(queue[w]) \/ q = o)
        BY <2>1, <3>2
      <4> QED  BY <2>1, <3>1, <3>3, <4>1 DEF BatchFirst
    <3>7. InOrder'
      <4>1. Ordered(queue'[s], msg)
        <5>1. Ordered(queue[s], msg) /\ queue[s] \in Seq(Objs)
          BY <1>0, <3>1 DEF InOrder
        <5>2. \A x \in Elems(queue[s]) : ~Earlier(msg[o], msg[x])
          BY <3>1, <3>3
        <5> QED  BY <3>1, <3>2, <5>1, <5>2, OrderedAppend
      <4>2. \A w \in Shards : Ordered(queue'[w], msg) /\ Ordered(batch'[w], msg)
        BY <2>1, <3>2, <4>1 DEF InOrder
      <4> QED  BY <2>1, <4>2 DEF InOrder
    <3> QED  BY <3>5, <3>6, <3>7
  <2> QED  BY <1>3, <2>2, <2>3 DEF Push
<1>4. ASSUME NEW w \in Shards, PopSome(w) PROVE (ViaIs /\ InOrder /\ BatchFirst)'
  <2> DEFINE n == IF Len(queue[w]) < BatchCap THEN Len(queue[w]) ELSE BatchCap
             front == SubSeq(queue[w], 1, n)
             back  == SubSeq(queue[w], n + 1, Len(queue[w]))
  <2>1. /\ batch'[w] = front /\ queue'[w] = back /\ UNCHANGED <<msg, via>>
        /\ \A t \in Shards : t # w => queue'[t] = queue[t] /\ batch'[t] = batch[t]
    BY <1>0, <1>4 DEF PopSome, entryVars
  <2>2. queue[w] \in Seq(Objs) /\ n \in 1 .. Len(queue[w]) /\ Ordered(queue[w], msg)
    BY <1>0, <1>4, BatchAssumption DEF PopSome, InOrder
  <2> HIDE DEF n
  <2>3. /\ Ordered(front, msg) /\ Ordered(back, msg)
        /\ Elems(front) \subseteq Elems(queue[w]) /\ Elems(back) \subseteq Elems(queue[w])
        /\ \A o \in Elems(front), q \in Elems(back) : ~Earlier(msg[q], msg[o])
    BY <2>2, OrderedSplit
  <2> HIDE DEF front, back
  <2>4. ViaIs'
    BY <2>1, <2>3 DEF ViaIs
  <2>5. BatchFirst'
    BY <2>1, <2>3 DEF BatchFirst
  <2>6. InOrder'
    BY <2>1, <2>3 DEF InOrder
  <2> QED  BY <2>4, <2>5, <2>6
<1>5. ASSUME NEW w \in Shards, ProcessRelease(w) PROVE (ViaIs /\ InOrder /\ BatchFirst)'
  <2> DEFINE h == Head(batch[w])
  <2>1. /\ batch[w] \in Seq(Objs) /\ batch[w] # <<>> /\ h \in Objs
        /\ UNCHANGED <<queue, via>> /\ msg' = [msg EXCEPT ![h] = NoRecord]
        /\ batch'[w] = Tail(batch[w]) /\ \A t \in Shards : t # w => batch'[t] = batch[t]
    BY <1>0, <1>5, HeldType DEF ProcessRelease, Release, ringVars
  <2>2. Elems(batch'[w]) = Elems(batch[w]) \ {h} /\ h \in Elems(batch[w])
    BY <2>1, ElemsTail DEF EntryOwnership, NoRepeats
  <2>3. Ordered(batch'[w], msg)
    BY <2>1, OrderedTail DEF InOrder
  <2> HIDE DEF h
  <2>4. \A t \in Shards : /\ Elems(batch'[t]) \subseteq Elems(batch[t])
                          /\ Ordered(batch'[t], msg) /\ Ordered(queue'[t], msg)
                          /\ h \notin Elems(batch'[t]) /\ h \notin Elems(queue'[t])
    BY <2>1, <2>2, <2>3 DEF InOrder, EntryOwnership, BatchesApart, PoppedOnce
  <2>5. \A t \in Shards : \A o \in Elems(queue'[t]) \cup Elems(batch'[t]) : o \in Objs /\ msg'[o] = msg[o]
    BY <1>0, <2>1, <2>4
  <2>6. ViaIs'
    BY <2>1, <2>4, <2>5 DEF ViaIs
  <2>7. BatchFirst'
    BY <2>1, <2>4, <2>5 DEF BatchFirst
  <2>8. InOrder'
    BY <2>4, <2>5, OrderedKept DEF InOrder
  <2> QED  BY <2>6, <2>7, <2>8
<1>6. ASSUME UNCHANGED <<queue, batch, via, msg>> PROVE (ViaIs /\ InOrder /\ BatchFirst)'
  BY <1>6, PlacesKept
<1>7. \/ UNCHANGED <<queue, batch, via, msg>>
      \/ \E p \in Producers : Acquire(p) \/ FallbackRelease(p) \/ Push(p)
      \/ \E w \in Shards : PopSome(w) \/ ProcessRelease(w)
  BY DEF Next, Producer, LogStart, Direct, Route, Notify, Fallback, Worker, PopNone, Process, WakeStop, WakeNotify,
         WakeTick, Syncer, SyncBegin, SyncAgain, StopWorker, DisableAsync, CloseSink, TimerFlush, Finished, vars,
         workerVars, ringVars, entryVars
<1> QED  BY <1>1, <1>2, <1>3, <1>4, <1>5, <1>6, <1>7

\* A worker handles the first entry of its batch: every earlier record of that
\* producer in the shard is handled.
LEMMA ProcessFirst ==
    ASSUME ServiceInv, OrderInv, NEW w \in Shards, Process(w), NEW r \in Records,
           via[r] = w, Earlier(r, msg[Head(batch[w])])
    PROVE  handles[r] = 1
<1> DEFINE b == batch[w]
<1>1. b \in Seq(Objs) /\ b # <<>> /\ Head(b) = b[1] /\ 1 \in 1 .. Len(b) /\ Len(b) \in Nat /\ Head(b) \in Elems(b)
  <2>1. b \in Seq(Objs) /\ b # <<>>
    BY HeldType DEF ServiceInv, Process
  <2>2. Head(b) = b[1] /\ 1 \in 1 .. Len(b) /\ Len(b) \in Nat
    BY <2>1
  <2> QED  BY <2>1, <2>2 DEF Elems
<1>2. SUFFICES ASSUME handles[r] = 0 PROVE FALSE
  BY DEF ServiceInv, Carriers, HandledOnce
<1>3. PICK o \in Elems(queue[w]) \cup Elems(b) : msg[o] = r
  BY <1>2, PushedWaits DEF OrderInv
<1>4. CASE o \in Elems(queue[w])
  BY <1>1, <1>3, <1>4 DEF OrderInv, BatchFirst
<1>5. CASE o \in Elems(b)
  <2>1. PICK j \in 1 .. Len(b) : o = b[j]
    BY <1>5 DEF Elems
  <2>2. CASE j = 1
    <3>1. r = msg[Head(b)] /\ r[2] \in Nat
      BY <1>1, <1>3, <2>1, <2>2 DEF Records
    <3> QED  BY <3>1 DEF Earlier
  <2>3. CASE j # 1
    <3>1. 1 < j /\ ~Earlier(msg[b[j]], msg[b[1]])
      <4>1. 1 < j
        BY <2>3
      <4> QED  BY <1>1, <4>1 DEF OrderInv, InOrder, Ordered
    <3> QED  BY <1>1, <1>3, <2>1, <3>1
  <2> QED  BY <2>2, <2>3
<1> QED  BY <1>3, <1>4, <1>5

LEMMA ShardOrderStep == ServiceInv /\ OrderInv /\ [Next]_vars => ShardOrder'
<1> SUFFICES ASSUME ServiceInv, OrderInv, [Next]_vars,
                    NEW r \in Records, NEW q \in Records, Earlier(r, q),
                    via'[r] \in Shards, via'[q] = via'[r], handles'[q] = 1
             PROVE  handles'[r] = 1
  BY DEF ShardOrder, Earlier
<1>0. TypeInv /\ \A w \in Shards : w # OffRing
  BY DEF ServiceInv, Shards, OffRing
<1>1. handles[r] = 1 => handles'[r] = 1
  BY HandlesGrow
<1>2. CASE UNCHANGED <<via, handles>>
  BY <1>2 DEF OrderInv, ShardOrder, Earlier
<1>3. ASSUME NEW c \in Records, Chains(c), via' = via, c # q PROVE handles'[r] = 1
  <2>1. handles[q] = 1
    BY <1>0, <1>3, ChainEffect
  <2> QED  BY <1>1, <1>3, <2>1 DEF OrderInv, ShardOrder, Earlier
<1>4. ASSUME NEW p \in Producers, Direct(p) \/ Fallback(p) PROVE handles'[r] = 1
  <2>1. Chains(Rec(p)) /\ via' = via /\ via[Rec(p)] = OffRing
    BY <1>4, ChainsRecord DEF Direct, Fallback, ServiceInv, OwnInv, InCall
  <2>2. Rec(p) \in Records /\ Rec(p) # q
    BY <1>0, <2>1 DEF Chains
  <2> QED  BY <1>3, <2>1, <2>2
<1>5. ASSUME NEW w \in Shards, Process(w) PROVE handles'[r] = 1
  <2> DEFINE c == msg[Head(batch[w])]
  <2>1. Chains(c) /\ via' = via /\ c \in Records
    BY <1>5, ChainsRecord DEF Process, Chains
  <2>2. via[c] = w
    <3>1. batch[w] \in Seq(Objs) /\ batch[w] # <<>> /\ Injective(batch[w])
      BY <1>5, HeldType DEF Process, ServiceInv, EntryOwnership, NoRepeats
    <3>2. Head(batch[w]) \in Elems(batch[w])
      BY <3>1, ElemsTail
    <3> QED  BY <3>2 DEF OrderInv, ViaIs
  <2>3. CASE c = q
    BY <1>1, <1>5, <2>1, <2>2, <2>3, ProcessFirst
  <2>4. CASE c # q
    <3> HIDE DEF c
    <3> QED  BY <1>3, <2>1, <2>4
  <2> QED  BY <2>3, <2>4
<1>6. ASSUME NEW p \in Producers, Push(p) PROVE handles'[r] = 1
  <2>1. pc[p] = "push" /\ handles' = handles /\ (via' = via \/ via' = [via EXCEPT ![Rec(p)] = route[p]])
    BY <1>6 DEF Push, sinkVars
  <2>2. handles[Rec(p)] = 0 /\ Rec(p) \in Records
    BY <2>1, PushedUnhandled
  <2>3. handles[q] = 1 /\ q # Rec(p) /\ via'[q] = via[q]
    BY <2>1, <2>2 DEF ServiceInv, TypeInv, TypeOK
  <2>4. q \in Begun
    BY <2>3 DEF ServiceInv, Carriers, HandledOnce
  <2>5. ASSUME r = Rec(p) PROVE FALSE
    <3>1. q[1] = p /\ calls[p] < q[2]
      BY <2>5 DEF Earlier, Rec
    <3>2. q[2] <= calls[p] /\ q[2] \in Nat /\ calls[p] \in Nat
      BY <1>0, <2>4, <3>1 DEF Begun, Records, TypeInv, TypeOK
    <3> QED  BY <3>1, <3>2
  <2>6. via'[r] = via[r]
    BY <2>1, <2>2, <2>5 DEF ServiceInv, TypeInv, TypeOK
  <2> QED  BY <2>1, <2>3, <2>6 DEF OrderInv, ShardOrder, Earlier
<1>7. \/ UNCHANGED <<via, handles>>
      \/ \E p \in Producers : Direct(p) \/ Fallback(p) \/ Push(p)
      \/ \E w \in Shards : Process(w)
  BY DEF Next, Producer, LogStart, Acquire, Route, Notify, FallbackRelease, Worker, PopSome, PopNone, ProcessRelease,
         WakeStop, WakeNotify, WakeTick, Syncer, SyncBegin, SyncAgain, StopWorker, DisableAsync, CloseSink, TimerFlush,
         Finished, vars, sinkVars
<1> QED  BY <1>2, <1>4, <1>5, <1>6, <1>7

LEMMA OrderInit == Init => OrderInv
<1> SUFFICES ASSUME Init PROVE OrderInv
  OBVIOUS
<1>1. \A w \in Shards : Elems(queue[w]) = {} /\ Elems(batch[w]) = {} /\ Len(queue[w]) = 0 /\ Len(batch[w]) = 0
  BY DEF Init, Elems
<1>2. ShardOrder
  BY DEF Init, ShardOrder, Shards, OffRing
<1>3. InOrder
  <2> SUFFICES ASSUME NEW w \in Shards PROVE Ordered(queue[w], msg) /\ Ordered(batch[w], msg)
    BY DEF InOrder
  <2> QED  BY <1>1 DEF Ordered
<1>4. ViaIs /\ BatchFirst
  BY <1>1 DEF ViaIs, BatchFirst
<1> QED  BY <1>2, <1>3, <1>4 DEF OrderInv

\* ShardOrder: records that one producer pushes to one shard are handled in the
\* order of its calls.
THEOREM ShardsKeepOrder == Spec => []ShardOrder
<1>1. ServiceIInv => ServiceInv
  BY DEF ServiceIInv
<1>2. OrderInv => ShardOrder
  BY DEF OrderInv
<1>3. ServiceInv /\ OrderInv /\ [Next]_vars => OrderInv'
  BY PlacesStep, ShardOrderStep DEF OrderInv
<1> QED  BY <1>1, <1>2, <1>3, OrderInit, ServiceHolds, PTL DEF Spec

=============================================================================
