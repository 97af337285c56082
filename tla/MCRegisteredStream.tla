------------------------- MODULE MCRegisteredStream -------------------------
(* Instances of RegisteredStream for TLC. *)
EXTENDS RegisteredStream

Text(kind, id) == [kind |-> kind, id |-> id, newlineFirst |-> kind = "banner"]

\* A stage with its progress, and a worker that prints in between
OneStage ==
    [t \in Threads |->
        IF t = "main" THEN <<Text("banner", 1), Text("progress", 1)>>
                      ELSE <<Text("worker", 1)>>]
=============================================================================
