--------------------------- MODULE MCWorkerSession ---------------------------
EXTENDS WorkerSession

CONSTANTS home, other

MCHomeOnly == (home :> "openai")

MCProxyKind == (home :> "openai") @@ (other :> "local")

(* A container that ends by itself is one of these that ends at once.       *)
MCOutcomes == {[rc |-> 124, log |-> "timed_out"]}
=============================================================================
