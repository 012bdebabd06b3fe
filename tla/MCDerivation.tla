---------------------------- MODULE MCDerivation ----------------------------
(* Argument lists for Derivation. *)
EXTENDS Derivation

CONSTANTS user, request, trace, one

TwoNames == <<request, trace>>

\* Keys that are strings, each with a value; one list without arguments.
PairedArgs == {<<>>, <<user, one>>, <<request, user>>}

\* A slog.Attr, and argument lists of odd length, one of them with it.
OneAttribute == {[key |-> user, value |-> one]}

OddArgs == {<<user>>, <<user, one>>} \cup {<<a>> : a \in OneAttribute}

=============================================================================
