--------------------------- MODULE MCHandlerChain ---------------------------
(* Outputs, configurations and bounds for HandlerChain. *)
EXTENDS HandlerChain

CONSTANTS worker, producer

\* With and without async.enabled, both formats, every kind of output, two
\* behind io.MultiWriter; and a console of the other format beside one output.
SixConfigs ==
    {[async |-> TRUE, format |-> "json", console |-> FALSE, members |-> <<"file", "custom">>],
     [async |-> TRUE, format |-> "text", console |-> FALSE, members |-> <<"network", "custom">>],
     [async |-> TRUE, format |-> "text", console |-> TRUE, members |-> <<"custom">>],
     [async |-> FALSE, format |-> "json", console |-> TRUE, members |-> <<"network">>],
     [async |-> FALSE, format |-> "json", console |-> FALSE, members |-> <<"file", "network">>],
     [async |-> FALSE, format |-> "text", console |-> FALSE, members |-> <<"file", "custom">>]}

TwoAndOne == [c \in {worker, producer} |-> IF c = worker THEN 2 ELSE 1]

=============================================================================
