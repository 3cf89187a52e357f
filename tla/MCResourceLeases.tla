-------------------------- MODULE MCResourceLeases --------------------------
(* Instances of ResourceLeases for TLC.                                     *)
EXTENDS ResourceLeases, TLC

CONSTANTS gpu, api, j1, j2, p1, p2

MCResources == {gpu, api}
MCJobs == {j1, j2}
MCProcs == {p1, p2}
MCCapacity == gpu :> 1 @@ api :> 2

(* j1 needs both resources, so its lease is written in two steps; both jobs *)
(* compete for gpu.                                                         *)
MCNeeds == j1 :> {gpu, api} @@ j2 :> {gpu}
=============================================================================
