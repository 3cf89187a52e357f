----------------------------- MODULE MCTaskMoves -----------------------------
(* A small workflow, and what an edit may make of its file.                 *)
EXTENDS TaskMoves

CONSTANTS t1, t2

Str(keys) == [k \in keys |-> "str"]
Node(row, types) == [row |-> row, types |-> types]
Statement(kind, id, types, inner) ==
    [kind |-> kind, id |-> id, inner |-> inner,
     node |-> Node(kind, Str({"kind", "id"}) @@ types)]

State(id, outcome) ==
    Statement("state", id,
              IF outcome = Absent THEN << >> ELSE [terminal_outcome |-> "str"], {})
    @@ [outcome |-> outcome]

NoRequirement == [artifacts |-> {}, validations |-> {}]
Report == [artifacts |-> {"report"}, validations |-> {}]
Path == [path |-> [list |-> FALSE, items |-> {[type |-> "str", name |-> "README"]}]]
FileExists == [artifacts |-> {}, validations |-> {[type |-> "file_exists", args |-> Path]}]

TaskType(id) ==
    Statement("task_type", id, [requirements |-> "map"],
              {Node("requirement_set", [artifacts |-> "strs"])})
    @@ [requirements |-> [done |-> Report], instructions |-> {}]

Arg(type) == [type |-> type, required |-> TRUE, many |-> FALSE]
Called(kind, id, args) ==
    Statement(kind, id, [args |-> "map"], {Node("arg_spec", [type |-> "str", required |-> "bool"])})
    @@ [args |-> args]

Worker == Statement("worker", "codex", [instructions |-> "strs"], {})
          @@ [type |-> "codex", instructions |-> {"coder"}]

Transition(id, from, to, worker, types, inner) ==
    Statement("transition", id, Str({"task_type", "from", "to"}) @@ types, inner)
    @@ [task_type |-> "Task", from |-> from, to |-> to, worker |-> worker,
        requires |-> NoRequirement, steps |-> {}, derives |-> {}, instructions |-> {},
        review |-> "absent", namedReview |-> FALSE]

Build ==
    [Transition("build", "todo", "done", "codex",
        [worker |-> "str", requires |-> "map", transaction |-> "map"],
        {Node("requirement_set", [validations |-> "list"]),
         Node("validation_call", [type |-> "str", args |-> "map"]),
         Node("transaction", [steps |-> "list"]),
         Node("operation_call", [op |-> "str", args |-> "map"])})
     EXCEPT !.requires = FileExists,
            !.steps = {[type |-> "move_task",
                        args |-> [state |-> [list |-> FALSE,
                                             items |-> {[type |-> "str", name |-> "done"]}]]]}]
Drop == Transition("drop", "todo", "dropped", Absent, << >>, {})

Head_ == <<State("todo", Absent), State("done", "success"), State("dropped", "cancelled"),
           TaskType("Task"), TaskType("Note"),
           Statement("artifact_type", "report", << >>, {}),
           Called("validation_type", "file_exists", [path |-> Arg("string")]),
           Called("operation_type", "move_task", [state |-> Arg("state_ref")]),
           Worker>>

Main(column) == <<"main", column>>
MappingAs(state, column, type) ==
    [types |-> [state |-> "str", board |-> "str", column |-> type],
     state |-> state, board |-> "main", column |-> column]
Mapping(state, column) == MappingAs(state, column, "str")

Document(statements, mappings) ==
    [parses |-> TRUE, version |-> 1, statements |-> statements,
     root |-> Node("root", [schema_version |-> "int", statements |-> "list", storage |-> "map"]),
     storage |-> [shape |-> "boards", boards |-> {"main"}, mappings |-> mappings]]

Columns3 == <<Mapping("todo", "To do"), Mapping("done", "Done"), Mapping("dropped", "Dropped")>>
Base == Document(Head_ \o <<Build, Drop>>, Columns3)

MCDocuments ==
    [base        |-> Base,
     \* accepted: the columns change places; a state loses its column; success is undeclared
     swapped     |-> Document(Base.statements,
                        <<Mapping("todo", "To do"), Mapping("done", "Dropped"),
                          Mapping("dropped", "Done")>>),
     unmapped    |-> Document([Base.statements EXCEPT ![2] = State("done", Absent)],
                              SubSeq(Columns3, 1, 2)),
     numbered    |-> Document(Base.statements,
                        <<Mapping("todo", "To do"), MappingAs("done", "Done", "int"),
                          MappingAs("dropped", "Done", "int")>>),
     \* refused: two states in one column; a worker that is no string; a second
     \* "build" without the worker; an outcome with a way out; an unknown state
     shared      |-> Document(Base.statements,
                        <<Mapping("todo", "To do"), Mapping("done", "Done"),
                          Mapping("dropped", "Done")>>),
     mistyped    |-> Document([Base.statements EXCEPT ![10] =
                        Transition("build", "todo", "done", Absent, [worker |-> "list"], {})],
                        Columns3),
     repeated    |-> Document(Head_ \o <<Transition("build", "todo", "done", Absent, << >>, {}),
                                         Build, Drop>>, Columns3),
     reopened    |-> Document(Append(Base.statements,
                        Transition("reopen", "done", "todo", Absent, << >>, {})), Columns3),
     dangling    |-> Document([Base.statements EXCEPT ![11].to = "gone"], Columns3)]

Spec_(id) == [id |-> id, implemented |-> TRUE, args |-> {}, cleanup |-> Absent]
MCRegistry ==
    [validation_type |-> <<Spec_("file_exists"), Spec_("tests_pass")>>,
     operation_type  |-> <<Spec_("move_task"), Spec_("append_event")>>,
     worker          |-> <<Spec_("codex"), Spec_("opencode")>>]
MCGuides == {"coder"}

MCTasks == {t1, t2}
MCColumns == {Main("To do"), Main("Done"), Main("Dropped")}
(* The transitions are those of a task; a note is moved by the user only.    *)
MCTypeOf == t1 :> "Task" @@ t2 :> "Note"
MCLinks == [t \in MCTasks |-> {"report"}]
==============================================================================
