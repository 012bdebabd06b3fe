----------------------------- MODULE RingShard -----------------------------
(***************************************************************************)
(* One shard of the ring buffer of logger.go: a circular array with the    *)
(* counters head and tail.  Each action is a critical section of rbShard.mu*)
(* (push, PopBatch).  Cap is a power of two in the code, where the index   *)
(* tail & mask is tail % Cap.  The 64-bit counters do not wrap in the      *)
(* lifetime of a process: here they are naturals.                          *)
(***************************************************************************)
EXTENDS Integers, Sequences

CONSTANTS
    Entries,     \* *logEntry values
    Nil,         \* an empty slot
    Cap,         \* len(buf)
    BatchSizes,  \* lengths of the batch slices callers pass
    MaxTail      \* bound: entries pushed in a run, and refusals

ASSUME CapAssumption     == Cap \in Nat \ {0}
ASSUME NilAssumption     == Nil \notin Entries
ASSUME BatchAssumption   == BatchSizes \subseteq Nat
ASSUME MaxTailAssumption == MaxTail \in Nat

VARIABLES
    buf, head, tail,
    drop,        \* the counter behind Dropped()
    batch        \* what the last PopBatch stored in its caller's slice

vars == <<buf, head, tail, drop, batch>>

Slot(i) == i % Cap

Init ==
    /\ buf = [i \in 0 .. Cap - 1 |-> Nil]
    /\ head = 0 /\ tail = 0 /\ drop = 0
    /\ batch = <<>>

\* Fault: the test for a full shard is off by one.
PushOffByOne(e) ==
    /\ \/ tail - head > Cap /\ drop < MaxTail /\ drop' = drop + 1 /\ UNCHANGED <<buf, tail>>
       \/ /\ tail - head <= Cap /\ tail < MaxTail
          /\ buf' = [buf EXCEPT ![Slot(tail)] = e]
          /\ tail' = tail + 1
          /\ UNCHANGED drop
    /\ UNCHANGED <<head, batch>>

\* rbShard.push; the signal to the mailbox follows the unlock (AsyncLogger).
Push(e) ==
    /\ \/ tail - head >= Cap /\ drop < MaxTail /\ drop' = drop + 1 /\ UNCHANGED <<buf, tail>>
       \/ /\ tail - head < Cap /\ tail < MaxTail
          /\ buf' = [buf EXCEPT ![Slot(tail)] = e]
          /\ tail' = tail + 1
          /\ UNCHANGED drop
    /\ UNCHANGED <<head, batch>>

\* The number of rounds of PopBatch's loop for a slice of length k.
Popped(k) == IF k < tail - head THEN k ELSE tail - head

\* Fault: the slots keep their entries.
PopBatchKeepsSlots(k) ==
    /\ batch' = [i \in 1 .. Popped(k) |-> buf[Slot(head + i - 1)]]
    /\ head' = head + Popped(k)
    /\ UNCHANGED <<buf, tail, drop>>

\* ringBuffer.PopBatch: each round reads a slot, clears it and advances head.
PopBatch(k) ==
    LET read == {Slot(i) : i \in head .. head + Popped(k) - 1}
    IN  /\ batch' = [i \in 1 .. Popped(k) |-> buf[Slot(head + i - 1)]]
        /\ buf' = [i \in 0 .. Cap - 1 |-> IF i \in read THEN Nil ELSE buf[i]]
        /\ head' = head + Popped(k)
        /\ UNCHANGED <<tail, drop>>

Next == \/ \E e \in Entries : Push(e)
        \/ \E k \in BatchSizes : PopBatch(k)

Spec == Init /\ [][Next]_vars

-----------------------------------------------------------------------------
(* Properties *)

\* Types; head never overtakes tail, and at most Cap entries lie between them.
TypeOK ==
    /\ buf \in [0 .. Cap - 1 -> Entries \cup {Nil}]
    /\ head \in Nat /\ tail \in Nat /\ drop \in Nat
    /\ head <= tail /\ tail - head <= Cap
    /\ batch \in Seq(Entries)

\* A slot holds an entry exactly when its index lies in head .. tail - 1: the
\* array keeps no popped entry alive (logger.go:314), and no queued entry is
\* missing.
LiveSlots ==
    \A i \in 0 .. Cap - 1 :
        buf[i] # Nil <=> \E k \in head .. tail - 1 : Slot(k) = i

\* The shard is a bounded FIFO queue.
Queue == INSTANCE BoundedQueue WITH
    Bound   <- Cap,
    items   <- [i \in 1 .. tail - head |-> buf[Slot(head + i - 1)]],
    refused <- drop,
    taken   <- batch

ImplementsQueue == Queue!QueueSpec
=============================================================================
