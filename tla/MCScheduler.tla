---------------------------- MODULE MCScheduler ----------------------------
(* Instances of Scheduler for TLC.                                          *)
EXTENDS Scheduler, TLC

CONSTANTS p1, p2, t1, t2, d1, d2, c1, c2

Step(from, to) == [from |-> from, to |-> to, worker |-> TRUE, default |-> FALSE]

MCStates == {"todo", "review", "done", "dropped"}
MCOutcome == [st \in MCStates |-> CASE st = "done" -> "success"
                                    [] st = "dropped" -> "cancelled"
                                    [] OTHER -> "none"]

(* Implementation and review by workers; users may drop a task.             *)
MCReviewed == {Step("todo", "review"), Step("review", "done"),
               [Step("todo", "dropped") EXCEPT !.worker = FALSE]}

(* One step, with an alternative that is not the default.                   *)
MCDirect == {[Step("todo", "done") EXCEPT !.default = TRUE], Step("todo", "dropped")}

(* Commands that serve one project are interchangeable.                     *)
MCCommandSymmetry == Permutations(Commands)

MCBoard == [t \in Tasks |-> IF t = t1 THEN 1 ELSE 2]
MCOneProject == [t \in Tasks |-> p1]
MCTwoProjects == [t \in Tasks |-> IF t = t1 THEN p1 ELSE p2]
MCOneRepository == [p \in Projects |-> "repository"]
MCServesOne == [s \in Schedulers |-> p1]
MCServesTwo == [s \in Schedulers |-> IF s = d1 THEN p1 ELSE p2]
MCIndependent == [t \in Tasks |-> {}]
MCDependent == [t \in Tasks |-> IF t = t2 THEN {t1} ELSE {}]
=============================================================================
