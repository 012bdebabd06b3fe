----------------------------- MODULE RingSizing -----------------------------
(***************************************************************************)
(* How many slots the ring buffer of logger.go gets for a configuration.   *)
(* They are computed when a logger is made, and never change.  A negative  *)
(* log.async.buffer_size, which the code converts to a uint64, and sizes   *)
(* above 2^28 are left out.                                                *)
(***************************************************************************)
EXTENDS Integers

CONSTANTS
    BufferSizes,  \* log.async.buffer_size
    Cpus,         \* runtime.NumCPU()
    Multipliers   \* log.async.worker_multiplier

ASSUME SizeAssumption       == BufferSizes \subseteq 0 .. 2^28
ASSUME CpuAssumption        == Cpus \subseteq Nat \ {0}
ASSUME MultiplierAssumption == Multipliers \subseteq Int

VARIABLE ring    \* slots asked for, shards, slots of each shard

AtLeast(a, b) == IF a < b THEN b ELSE a
AtMost(a, b)  == IF a > b THEN b ELSE a

\* Go's | and & of unsigned numbers, from the lowest bit up.
Or[x \in Nat] ==
    [y \in Nat |-> IF x = 0 THEN y ELSE 2 * Or[x \div 2][y \div 2] + AtLeast(x % 2, y % 2)]
And[x \in Nat] ==
    [y \in Nat |-> IF x = 0 THEN 0 ELSE 2 * And[x \div 2][y \div 2] + AtMost(x % 2, y % 2)]

\* c |= c >> n.
Smear(c, n) == Or[c][c \div 2^n]

\* Every bit below the highest one is set by the shifts; then one is added.
RoundUp(c) ==
    IF And[c][c - 1] = 0 THEN c
    ELSE Smear(Smear(Smear(Smear(Smear(c - 1, 1), 2), 4), 8), 16) + 1

\* Fault: the share of a shard is not rounded again.
PerShardAsDivided(capacity, shards) ==
    AtLeast(RoundUp(AtLeast(capacity, 1024)) \div AtLeast(shards, 1), 256)

\* newShardedRingBuffer: the slots of each shard.
PerShard(capacity, shards) ==
    RoundUp(AtLeast(RoundUp(AtLeast(capacity, 1024)) \div AtLeast(shards, 1), 256))

\* What NewFromConfig asks of it.
Requested(size, prealloc) ==
    LET configured == IF size = 0 THEN 10000 ELSE size
    IN  IF prealloc THEN 2 * configured ELSE configured

Workers(cpus, multiplier, lockFree) ==
    LET n == AtMost(AtLeast(cpus * (IF multiplier <= 0 THEN 1 ELSE multiplier), 1), 32)
    IN  IF lockFree THEN AtLeast(n, 4) ELSE n

\* NewFromConfig.
SizingInit ==
    \E size \in BufferSizes, prealloc, lockFree \in BOOLEAN, cpus \in Cpus, multiplier \in Multipliers :
        LET asked  == Requested(size, prealloc)
            shards == Workers(cpus, multiplier, lockFree)
        IN  ring = [asked |-> asked, shards |-> shards, slots |-> PerShard(asked, shards)]

SizingSpec == SizingInit /\ [][UNCHANGED ring]_ring

-----------------------------------------------------------------------------
(* Properties *)

PowerOfTwo(c) == \E i \in 0 .. 30 : c = 2^i
Total         == ring.shards * ring.slots

\* For every configuration, the number of slots of a shard is a power of two,
\* as the mask of its index needs it; all shards together have what was asked
\* for, and less than four times that, unless the minimum of a shard decides
\* (logger.go:232).
CapacityFits ==
    /\ PowerOfTwo(ring.slots) /\ ring.slots >= 256
    /\ Total >= AtLeast(ring.asked, 1024)
    /\ Total < 4 * AtLeast(ring.asked, 1024) \/ ring.slots = 256

=============================================================================
