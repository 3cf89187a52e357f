----------------------------- MODULE LeaseTable -----------------------------
(***************************************************************************)
(* What the lease store promises, without files, processes and a lock: a   *)
(* job is granted everything it needs in one step and only where there is  *)
(* room for all of it; it is freed in one step; and a crash can tear only  *)
(* what was being granted or freed, and never past a capacity.             *)
(***************************************************************************)
EXTENDS Integers, FiniteSets

CONSTANTS Resources, Jobs, Capacity, Needs, MaxCrashes

VARIABLES
    table,   \* job -> the resources it has been granted
    crashes

tableVars == <<table, crashes>>

GrantedIn(t, r) == {j \in Jobs : r \in t[j]}

TableInit == table = [j \in Jobs |-> {}] /\ crashes = 0

Grant(j) ==
    /\ \A r \in Needs[j] : Cardinality(GrantedIn(table, r)) < Capacity[r]
    /\ table' = [table EXCEPT ![j] = Needs[j]]
    /\ UNCHANGED crashes

Free(S) ==
    /\ table' = [j \in Jobs |-> IF j \in S THEN {} ELSE table[j]]
    /\ UNCHANGED crashes

Within(t) ==
    /\ \A j \in Jobs : t[j] \subseteq Needs[j]
    /\ \A r \in Resources : Cardinality(GrantedIn(t, r)) <= Capacity[r]

Tear ==
    /\ table' \in [Jobs -> SUBSET Resources]
    /\ Within(table')
    /\ \A j \in Jobs : table'[j] # table[j] => table[j] \in {{}, Needs[j]}

Crashes ==
    /\ crashes < MaxCrashes
    /\ crashes' = crashes + 1
    /\ Tear \/ UNCHANGED table

TableNext ==
    \/ \E j \in Jobs : Grant(j)
    \/ \E S \in SUBSET Jobs : Free(S)
    \/ Crashes

TableSpec == TableInit /\ [][TableNext]_tableVars
=============================================================================
