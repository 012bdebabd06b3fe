---------------------------- MODULE BoundedQueue ----------------------------
(* What a shard of the ring is for its users: a FIFO queue of bounded      *)
(* length that refuses an entry when it is full, and from which a batch is *)
(* taken at once, as long as it can be.                                    *)
EXTENDS Integers, Sequences

CONSTANTS Entries, Bound, BatchSizes

VARIABLES
    items,    \* the queue
    refused,  \* how many entries it refused
    taken     \* the batch taken last

bqVars == <<items, refused, taken>>

QueueInit == items = <<>> /\ refused = 0 /\ taken = <<>>

Put(e) ==
    /\ Len(items) < Bound
    /\ items' = Append(items, e)
    /\ UNCHANGED <<refused, taken>>

Refuse ==
    /\ Len(items) = Bound
    /\ refused' = refused + 1
    /\ UNCHANGED <<items, taken>>

Take(k) ==
    /\ LET n == IF k < Len(items) THEN k ELSE Len(items)
       IN  /\ taken' = SubSeq(items, 1, n)
           /\ items' = SubSeq(items, n + 1, Len(items))
    /\ UNCHANGED refused

QueueNext == \/ \E e \in Entries : Put(e)
             \/ Refuse
             \/ \E k \in BatchSizes : Take(k)

QueueSpec == QueueInit /\ [][QueueNext]_bqVars
=============================================================================
