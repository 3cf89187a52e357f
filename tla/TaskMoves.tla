------------------------------ MODULE TaskMoves ------------------------------
(***************************************************************************)
(* Who moves a task on the board, and how the moves meet.                  *)
(*                                                                         *)
(*   operator  `tulid transition`: TaskManager.request_transition, then a  *)
(*             transaction with the one effect move_task (cli/main.py)     *)
(*   daemon    a job that was scheduled by the state of its task and is    *)
(*             accepted later (completion.py); of its effects the last     *)
(*             one, move_task, is kept (AcceptanceTransaction has them all) *)
(*   recovery  recover_completion_transactions, which every command and    *)
(*             every cycle of the daemon runs when it loads a context      *)
(*   fixer     `tulid vault validate --fix`: repair_project                *)
(*                                                                         *)
(* Each of them loads the workflow file first and works by that definition *)
(* to its end; none holds a lock that another one takes.  The user edits    *)
(* the board and the workflow file whenever they like.                      *)
(***************************************************************************)
EXTENDS ObsidianBoard

CONSTANTS
    FirstDocument,  \* what the workflow file holds at first
    FirstState,     \* where the tasks start
    TypeOf,         \* task -> its type
    Links,          \* task -> the artifact types its note links
    MaxJournals,    \* bound on transactions
    MaxTroubles     \* bound on failing writes, deaths and edits by the user

ASSUME FirstAssumption ==
    /\ FirstDocument \in Usable
    /\ PlaceOf(Definitions[FirstDocument], FirstState) \in Columns
ASSUME BoundAssumption == MaxJournals \in Nat /\ MaxTroubles \in Nat

VARIABLES
    workflow,  \* the name of what the workflow file holds
    board,
    notes,     \* task -> the state in its note
    journals,  \* sequence of the transactions
    accepted,  \* <<task, transition, state>> of the accepted jobs
    agent,     \* agent -> what it is doing
    troubles   \* how many there were

vars == <<workflow, board, notes, journals, accepted, agent, troubles>>

Agents == {"operator", "daemon", "recovery"}

(* A mapping that is not checked may name a state that there is not.        *)
States ==
    UNION {LET d == Definitions[n] IN DOMAIN d.outcome \cup {m.state : m \in Range(d.mappings)} :
              n \in Usable}
TransitionIds == UNION {DOMAIN Definitions[n].transitions : n \in Usable}

NoBoard == [t \in Tasks |-> {}]

(* doc: the definition it works by; job: the task and the transition that   *)
(* the daemon has scheduled; j: the journal; read: the board as it read it; *)
(* back: whether it takes the move back.                                    *)
Idle == [pc |-> "idle", doc |-> FirstDocument, job |-> << >>, j |-> 0, read |-> NoBoard,
         back |-> FALSE]

Jobs == Tasks \X TransitionIds
Journals ==
    [by : {"operator", "daemon"}, doc : Usable, task : Tasks, transition : TransitionIds,
     from : States, to : States, status : {"prepared", "failed", "committed"}]
Doings ==
    [pc : {"idle", "working", "moving", "placing", "validating", "committing"},
     doc : Usable, job : Jobs \cup {<< >>}, j : 0..MaxJournals, read : Boards, back : BOOLEAN]

TypeOK ==
    /\ workflow \in Names
    /\ board \in Boards
    /\ notes \in [Tasks -> States]
    /\ journals \in Seq(Journals) /\ Len(journals) <= MaxJournals
    /\ accepted \subseteq Tasks \X TransitionIds \X States
    /\ agent \in [Agents -> Doings]
    /\ \A a \in Agents :
           agent[a].j \in (IF agent[a].pc \in {"idle", "working"} THEN {0} ELSE DOMAIN journals)
    /\ troubles \in 0..MaxTroubles

Init ==
    /\ workflow = FirstDocument
    /\ board = [t \in Tasks |-> {PlaceOf(Definitions[FirstDocument], FirstState)}]
    /\ notes = [t \in Tasks |-> FirstState]
    /\ journals = << >>
    /\ accepted = {}
    /\ agent = [a \in Agents |-> Idle]
    /\ troubles = 0

-----------------------------------------------------------------------------
On(a, pc) == agent[a].pc = pc
Goes(a, pc) == agent' = [agent EXCEPT ![a].pc = pc]
Stops(a) == agent' = [agent EXCEPT ![a] = Idle]
Def(a) == Definitions[agent[a].doc]
JournalOf(a) == journals[agent[a].j]
Target(a) == IF agent[a].back THEN JournalOf(a).from ELSE JournalOf(a).to
Trouble == troubles < MaxTroubles /\ troubles' = troubles + 1

(* Mutant: no bound on the transactions.                                    *)
PreparesUnbounded(a, by, n, t, id, transition) ==
    /\ journals' = Append(journals,
           [by |-> by, doc |-> n, task |-> t, transition |-> id,
            from |-> transition.from, to |-> transition.to, status |-> "prepared"])
    /\ agent' = [agent EXCEPT ![a] = [Idle EXCEPT !.pc = "moving", !.doc = n,
                                                 !.j = Len(journals) + 1]]

Prepares(a, by, n, t, id, transition) ==
    /\ Len(journals) < MaxJournals
    /\ journals' = Append(journals,
           [by |-> by, doc |-> n, task |-> t, transition |-> id,
            from |-> transition.from, to |-> transition.to, status |-> "prepared"])
    /\ agent' = [agent EXCEPT ![a] = [Idle EXCEPT !.pc = "moving", !.doc = n,
                                                 !.j = Len(journals) + 1]]

SetStatus(a, status) == journals' = [journals EXCEPT ![agent[a].j].status = status]

-----------------------------------------------------------------------------
(* _validate_task_state_requirements: the artifacts that the state asks for.*)
RequirementsMet(d, t, state) ==
    TypeOf[t] \in DOMAIN d.requires /\ state \in DOMAIN d.requires[TypeOf[t]] =>
        d.requires[TypeOf[t]][state].artifacts \subseteq Links[t]

(* task_uses_global_contract.                                               *)
UsesGlobalContract(d, t) ==
    /\ TypeOf[t] \in DOMAIN d.requires
    /\ \/ TypeOf[t] = "ImplementationTask"
       \/ \E id \in DOMAIN d.transitions :
              d.transitions[id].task_type = TypeOf[t] /\ d.transitions[id].review

(* _manual_implementation_acceptance_error: a success state asks for the    *)
(* committed acceptance of this task, by this transition, to this state.    *)
(* (The text of the task and the branch stay as they were accepted.)        *)
AcceptanceShown(d, t, id) ==
    LET transition == d.transitions[id]
    IN  /\ d.outcome[transition.to] = "success"
        /\ transition.worker # Absent \/ UsesGlobalContract(d, t)
        => <<t, id, transition.to>> \in accepted

(* `tulid transition`: what it refuses it leaves as it is.                  *)
Requests(t, id) ==
    /\ On("operator", "idle")
    /\ workflow \in Usable
    /\ LET d == Definitions[workflow]
       IN  /\ id \in DOMAIN d.transitions
           /\ d.transitions[id].task_type = TypeOf[t]
           /\ InState(d, board, t, d.transitions[id].from)
           /\ RequirementsMet(d, t, d.transitions[id].to)
           /\ AcceptanceShown(d, t, id)
           /\ Prepares("operator", "operator", workflow, t, id, d.transitions[id])
    /\ UNCHANGED <<workflow, board, notes, accepted, troubles>>

(* create_execution_job, and the acceptance of the job, by the definition   *)
(* and the state of the task at its creation.                               *)
Schedules(t, id) ==
    /\ On("daemon", "idle")
    /\ workflow \in Usable
    /\ LET d == Definitions[workflow]
       IN  /\ id \in DOMAIN d.transitions
           /\ d.transitions[id].task_type = TypeOf[t]
           /\ d.transitions[id].worker # Absent
           /\ InState(d, board, t, d.transitions[id].from)
    /\ agent' = [agent EXCEPT !["daemon"] =
           [Idle EXCEPT !.pc = "working", !.doc = workflow,
                        !.job = <<t, id>>]]
    /\ UNCHANGED <<workflow, board, notes, journals, accepted, troubles>>

Accepts ==
    LET t == agent["daemon"].job[1]  id == agent["daemon"].job[2]
    IN  /\ On("daemon", "working")
        /\ Prepares("daemon", "daemon", agent["daemon"].doc, t, id,
                    Def("daemon").transitions[id])
        /\ UNCHANGED <<workflow, board, notes, accepted, troubles>>

Rejects ==
    /\ On("daemon", "working")
    /\ Stops("daemon")
    /\ UNCHANGED <<workflow, board, notes, journals, accepted, troubles>>

-----------------------------------------------------------------------------
(* FileTransactionRuntime.apply after a failure.  The operator takes the    *)
(* move back if it was made; the acceptance leaves the card; recovery       *)
(* leaves the journal as it is.                                             *)
Fails(a, moved) ==
    /\ IF a = "recovery" THEN UNCHANGED journals ELSE SetStatus(a, "failed")
    /\ IF a = "operator" /\ moved
       THEN agent' = [agent EXCEPT ![a].pc = "moving", ![a].back = TRUE, ![a].read = NoBoard]
       ELSE Stops(a)

(* Nobody looks at how taking back ends.                                    *)
Moved(a) == IF agent[a].back THEN Stops(a) ELSE Goes(a, "validating")

(* move_task: the vault is read, the note is written, then the board.  What *)
(* a note says decides nothing, so it is written in the step that reads.  A *)
(* card that is in its column already stays on its line.                    *)
ReadsVault(a) ==
    LET t == JournalOf(a).task
    IN  /\ On(a, "moving")
        /\ MayMove(Def(a), board, t, Target(a))
        /\ notes' = [notes EXCEPT ![t] = Target(a)]
        /\ LET placed == Card(Def(a), board, t) = PlaceOf(Def(a), Target(a))
           IN  IF placed /\ agent[a].back
               THEN Stops(a)
               ELSE agent' = [agent EXCEPT ![a].read = board,
                                  ![a].pc = IF placed THEN "validating" ELSE "placing"]
        /\ UNCHANGED <<workflow, board, journals, accepted, troubles>>

Refused(a) ==
    /\ On(a, "moving")
    /\ ~ MayMove(Def(a), board, JournalOf(a).task, Target(a))
    /\ IF agent[a].back THEN Stops(a) /\ UNCHANGED journals ELSE Fails(a, FALSE)
    /\ UNCHANGED <<workflow, board, notes, accepted, troubles>>

WritesBoard(a) ==
    /\ On(a, "placing")
    /\ board' = Rewritten(Def(a), board, agent[a].read, JournalOf(a).task, Target(a))
    /\ Moved(a)
    /\ UNCHANGED <<workflow, notes, journals, accepted, troubles>>

(* _write_prepared restores the note when the board cannot be written.      *)
WriteFails(a) ==
    /\ On(a, "moving")
    /\ MayMove(Def(a), board, JournalOf(a).task, Target(a))
    /\ Trouble
    /\ IF agent[a].back THEN Stops(a) /\ UNCHANGED journals ELSE Fails(a, FALSE)
    /\ UNCHANGED <<workflow, board, notes, accepted>>

(* validate_final_state.                                                    *)
Validated(a) ==
    /\ On(a, "validating")
    /\ IF InState(Def(a), board, JournalOf(a).task, JournalOf(a).to)
       THEN /\ agent' = [agent EXCEPT ![a].pc = "committing", ![a].read = NoBoard]
            /\ UNCHANGED journals
       ELSE Fails(a, TRUE)
    /\ UNCHANGED <<workflow, board, notes, accepted, troubles>>

(* The job of a committed acceptance is accepted, by recovery too.          *)
Commits(a) ==
    /\ On(a, "committing")
    /\ SetStatus(a, "committed")
    /\ accepted' = accepted \cup
           (IF JournalOf(a).by = "daemon"
            THEN {<<JournalOf(a).task, JournalOf(a).transition, JournalOf(a).to>>} ELSE {})
    /\ Stops(a)
    /\ UNCHANGED <<workflow, board, notes, troubles>>

(* The events cannot be appended.                                           *)
AppendFails(a) ==
    /\ On(a, "committing")
    /\ Trouble
    /\ Fails(a, TRUE)
    /\ UNCHANGED <<workflow, board, notes, accepted>>

-----------------------------------------------------------------------------
(* _recovery_has_conflict: only the journal of an acceptance says where the *)
(* task was, so only there is another place a conflict.                     *)
Conflict(d, journal) ==
    /\ journal.by = "daemon"
    /\ \/ ~ VaultLoads(d, board)
       \/ StateOf(d, board, journal.task) \notin {journal.from, journal.to}

(* Prepared and failed journals are rolled forward, whoever they belong to  *)
(* and whether or not that process still lives.                             *)
TakesUp(i) ==
    LET d == Definitions[workflow]
    IN  /\ On("recovery", "idle")
        /\ workflow \in Usable
        /\ journals[i].status \in {"prepared", "failed"}
        /\ ~ Conflict(d, journals[i])
        /\ agent' = [agent EXCEPT !["recovery"] =
               [Idle EXCEPT !.doc = workflow, !.j = i, !.read = board,
                   !.pc = IF InState(d, board, journals[i].task, journals[i].to)
                          THEN "validating" ELSE "moving"]]
        /\ UNCHANGED <<workflow, board, notes, journals, accepted, troubles>>

(* `tulid vault validate --fix`.  What the notes say decides nothing in a  *)
(* vault that loads, so its reading and its writing are one step.           *)
FixerRepairs ==
    /\ workflow \in Usable
    /\ \E plan \in RepairPlans(Definitions[workflow], board, notes) :
           notes' = [t \in Tasks |-> IF plan[t] = Absent THEN notes[t] ELSE plan[t]]
    /\ notes' # notes
    /\ UNCHANGED <<workflow, board, journals, accepted, agent, troubles>>

-----------------------------------------------------------------------------
Dies(a) ==
    /\ ~ On(a, "idle")
    /\ Trouble
    /\ Stops(a)
    /\ UNCHANGED <<workflow, board, notes, journals, accepted>>

(* The user drags a card, or takes it off the board.                        *)
UserMoves(t, cards) ==
    /\ Trouble
    /\ cards # board[t]
    /\ board' = [board EXCEPT ![t] = cards]
    /\ UNCHANGED <<workflow, notes, journals, accepted, agent>>

UserRewrites(n) ==
    /\ Trouble
    /\ n # workflow
    /\ workflow' = n
    /\ UNCHANGED <<board, notes, journals, accepted, agent>>

Moves(a) ==
    \/ ReadsVault(a) \/ Refused(a) \/ WritesBoard(a) \/ WriteFails(a)
    \/ Validated(a) \/ Commits(a) \/ AppendFails(a)

Next ==
    \/ \E t \in Tasks, id \in TransitionIds : Requests(t, id) \/ Schedules(t, id)
    \/ Accepts \/ Rejects
    \/ \E a \in Agents : Moves(a)
    \/ \E i \in DOMAIN journals : TakesUp(i)
    \/ FixerRepairs
    \/ \E a \in Agents : Dies(a)
    \/ \E t \in Tasks, place \in Columns : UserMoves(t, {place}) \/ UserMoves(t, {})
    \/ \E n \in Names : UserRewrites(n)

Spec == Init /\ [][Next]_vars

-----------------------------------------------------------------------------
(* What the workflow file says, whatever the loader and the compiler make   *)
(* of it: this transition is worked on by someone, and ends in success.     *)
SaysImplementation(doc, id) ==
    \E s, u \in Range(doc.statements) :
        /\ s.kind = "transition" /\ s.id = id
        /\ "worker" \in DOMAIN s.node.types /\ s.node.types.worker # "null"
        /\ u.kind = "state" /\ u.id = s.to /\ u.outcome = "success"

(* The operator moves a task into a success state, by a transition that the *)
(* file gives to a worker, only when the acceptance of that very work was    *)
(* committed (task_manager.py _manual_implementation_acceptance_error;       *)
(* reliability-06-product-completion-plan.md:57).                           *)
VerifiedBeforeSuccess ==
    \A i \in DOMAIN journals :
        LET journal == journals[i]
        IN  journal.by = "operator"
            /\ SaysImplementation(Documents[journal.doc], journal.transition)
            => <<journal.task, journal.transition, journal.to>> \in accepted

(* While the board is what a move makes of the board it has read, the vault *)
(* loads and shows the task in the state it was moved to, whatever          *)
(* definition it was moved by; where the file names the columns by strings  *)
(* (obsidian.py move_task against _load; compiler.py _validate_storage_refs). *)
WrittenIsReadBack ==
    \A a \in Agents :
        /\ On(a, "validating")
        /\ \A m \in Range(Def(a).mappings) : TextMapping(m)
        /\ board = Rewritten(Def(a), agent[a].read, agent[a].read, JournalOf(a).task, Target(a))
        => InState(Def(a), board, JournalOf(a).task, Target(a))

(* Recovery does not move a card that is neither where the transaction      *)
(* found it nor where it was to go (completion.py:2134, "any intervening    *)
(* user change blocks the journal").  The code does not keep this: the      *)
(* journal of an operator does not say where the task was.                  *)
UserMovesKept ==
    [][\A i \in DOMAIN journals :
          LET d == Definitions[workflow]
          IN  TakesUp(i) /\ agent'["recovery"].pc = "moving"
              /\ workflow = journals[i].doc /\ VaultLoads(d, board)
              => StateOf(d, board, journals[i].task) \in {journals[i].from, journals[i].to}]_vars
==============================================================================
