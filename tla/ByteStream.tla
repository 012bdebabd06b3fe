----------------------------- MODULE ByteStream -----------------------------
(***************************************************************************)
(* What a buffering writer promises: the bytes it accepted form a stream   *)
(* that only grows at its end, and each call of the underlying writer is   *)
(* given those after the acknowledged ones.  The call takes some of them;  *)
(* they are acknowledged, unless it ended without an answer: then they may *)
(* be given again.  So no byte is skipped or moved, and one is repeated    *)
(* only after a call without an answer.                                    *)
(***************************************************************************)
EXTENDS Integers, Sequences, SequencesExt

VARIABLES stream,    \* bytes accepted, in order
          acked,     \* how many of them are not written again
          out        \* what the underlying writer took, in order

bsVars == <<stream, acked, out>>

StreamInit == stream = <<>> /\ acked = 0 /\ out = <<>>

\* A call takes the bytes up to the n-th.
Call(n) ==
    /\ out' = out \o SubSeq(stream', acked + 1, n)
    /\ acked' \in {acked, n}

Advance ==
    /\ IsPrefix(stream, stream')
    /\ UNCHANGED <<acked, out>> \/ \E n \in acked .. Len(stream') : Call(n)

StreamSpec == StreamInit /\ [][Advance]_bsVars

=============================================================================
