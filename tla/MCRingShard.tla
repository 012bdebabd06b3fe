----------------------------- MODULE MCRingShard -----------------------------
(* A shard of the ring buffer, and the sizes of the ring for every            *)
(* configuration.  A shard works alike in all of them, so that it is explored *)
(* for one; the others stay as they are made.                                 *)
EXTENDS RingShard, RingSizing

\* The default, and both sides of every power of two up to 2^17.
EdgeSizes == {0, 1, 3, 10000} \cup UNION {{2^i - 1, 2^i, 2^i + 1} : i \in 8 .. 17}

Explored == ring = [asked |-> 10000, shards |-> 1, slots |-> 16384]

MCInit == Init /\ SizingInit

MCNext == \/ Explored /\ Next /\ UNCHANGED ring
          \/ ~Explored /\ UNCHANGED <<vars, ring>>

MCSpec == MCInit /\ [][MCNext]_<<vars, ring>>

=============================================================================
