------------------------- MODULE WorkflowDefinition -------------------------
(***************************************************************************)
(* From the workflow document to the definition that the runtime and the   *)
(* storage adapter work by: open_tulid.workflow (compiler, registry,       *)
(* runtime) and the adapter's configuration.                               *)
(***************************************************************************)
EXTENDS WorkflowDocument

CONSTANTS
    Documents,  \* name -> document, the contents the workflow file may have
    Registry,   \* the built-in validations, operations and workers, in order
    Guides      \* instruction references that name exactly one file of agents/

Names == DOMAIN Documents

-----------------------------------------------------------------------------
(* registry.py: a spec has an id, an implementation, arguments of known     *)
(* types, and a cleanup operation that is registered.                       *)
SpecHolds(spec) ==
    /\ spec.id # "" /\ spec.implemented
    /\ spec.args \subseteq ArgTypes \cup DOMAIN ReferenceTypes
    /\ spec.cleanup \in {Absent} \cup {s.id : s \in Range(Registry.operation_type)}

RegistriesBuild ==
    \A kind \in DOMAIN Registry :
        /\ \A i, j \in DOMAIN Registry[kind] :
               Registry[kind][i].id = Registry[kind][j].id => i = j
        /\ \A spec \in Range(Registry[kind]) : SpecHolds(spec)

(* get_builtin_registries raises when they do not.                          *)
ASSUME RegistryAssumption ==
    /\ DOMAIN Registry = {"validation_type", "operation_type", "worker"}
    /\ RegistriesBuild

(* A worker that the file gives as a string is that string.                 *)
ASSUME DocumentAssumption ==
    \A n \in Names : \A s \in OfKind(Documents[n], "transition") :
        "worker" \in DOMAIN s.node.types /\ s.node.types["worker"] = "str"
        => s.worker # Absent

(* The sentinel is no id, and mappings are a list.                          *)
ASSUME ListAssumption ==
    \A n \in Names :
        /\ \A s \in Range(Documents[n].statements) : s.id # Absent
        /\ Documents[n].storage.shape = "boards" =>
              /\ Len(Documents[n].storage.mappings) \in Nat
              /\ DOMAIN Documents[n].storage.mappings = 1..Len(Documents[n].storage.mappings)

Registered(kind) == {spec.id : spec \in Range(Registry[kind])}

-----------------------------------------------------------------------------
(* compile_workflow repeats the references that the visitor has resolved    *)
(* and adds one: the state a parent goes to when tasks are derived.         *)
RequirementRefs(doc, req) ==
    /\ req.artifacts \subseteq Symbols(doc).artifact_type
    /\ {call.type : call \in req.validations} \subseteq Symbols(doc).validation_type

CrossReferences(doc) ==
    /\ \A s \in OfKind(doc, "task_type") :
           /\ DOMAIN s.requirements \subseteq Symbols(doc).state
           /\ \A req \in Range(s.requirements) : RequirementRefs(doc, req)
    /\ \A s \in OfKind(doc, "transition") :
           /\ s.task_type \in Symbols(doc).task_type
           /\ {s.from, s.to} \subseteq Symbols(doc).state
           /\ s.worker \in Symbols(doc).worker \cup {Absent}
           /\ RequirementRefs(doc, s.requires)
           /\ {call.type : call \in s.steps} \subseteq Symbols(doc).operation_type
           /\ \A derives \in s.derives :
                  /\ DerivesResolves(doc, derives)
                  /\ derives.parent_to \in Symbols(doc).state \cup {Absent}

(* _normalized_storage_config takes the part under "obsidian" when nothing  *)
(* else is there; a mapping of a state is checked when its three values are *)
(* strings, and passed over otherwise.                                      *)
TextMapping(m) == m.types = [state |-> "str", board |-> "str", column |-> "str"]
At(m) == <<m.board, m.column>>

(* Mutant: two states may share a column.                                   *)
StatesUnique(doc) ==
    LET maps == doc.storage.mappings
    IN  \A i, j \in DOMAIN maps :
            TextMapping(maps[i]) /\ TextMapping(maps[j]) /\ maps[i].state = maps[j].state
            => i = j

StorageRefs(doc) ==
    LET maps == doc.storage.mappings
    IN  doc.storage.shape = "boards" =>
            /\ \A m \in Range(maps) :
                   TextMapping(m) => /\ m.state \in Symbols(doc).state
                                     /\ m.board \in doc.storage.boards
            /\ \A i, j \in DOMAIN maps :
                   /\ i # j /\ TextMapping(maps[i]) /\ TextMapping(maps[j])
                   => maps[i].state # maps[j].state /\ At(maps[i]) # At(maps[j])

(* A state with an outcome has no way out; a state with neither is a        *)
(* warning.                                                                 *)
TerminalSemantics(doc) ==
    \A s \in OfKind(doc, "state") :
        s.outcome # Absent => \A t \in OfKind(doc, "transition") : t.from # s.id

(* A worker's implementation is its type, its id where it has none.         *)
Implemented(doc) ==
    /\ Symbols(doc).validation_type \subseteq Registered("validation_type")
    /\ Symbols(doc).operation_type \subseteq Registered("operation_type")
    /\ {s.type : s \in OfKind(doc, "worker")} \subseteq Registered("worker")

Compiles(doc) ==
    /\ Implemented(doc)
    /\ CrossReferences(doc)
    /\ StorageRefs(doc)
    /\ TerminalSemantics(doc)

(* _instruction_diagnostics.                                                *)
InstructionsFound(doc) ==
    \A kind \in {"worker", "task_type", "transition"} :
        \A s \in OfKind(doc, kind) : s.instructions \subseteq Guides

(* load_workflow_definition, and WorkflowLoadResult.valid: the later checks *)
(* are made only of a document that has passed the earlier ones.  (Results  *)
(* are cached by the bytes of the file: while agents/ stays as it is, the   *)
(* cached result is the one below.)                                         *)
Loads(doc) ==
    IF ~ Builds(doc) THEN FALSE
    ELSE IF ~ Validates(doc) THEN FALSE
    ELSE Compiles(doc) /\ InstructionsFound(doc)

(* config_from_storage_definition raises without boards and mappings, and   *)
(* on a mapping that lacks a key; any value under it becomes a string.      *)
AdapterBuilds(doc) ==
    /\ doc.storage.shape = "boards"
    /\ \A m \in Range(doc.storage.mappings) :
           DOMAIN m.types = {"state", "board", "column"}

-----------------------------------------------------------------------------
(* Compiled once for each content.  The contexts of all commands need both. *)
Usable == {n \in Names : Loads(Documents[n]) /\ AdapterBuilds(Documents[n])}

StatementOf(doc, kind, id) == CHOOSE s \in OfKind(doc, kind) : s.id = id

(* A review is declared, or a worker's transition is one by its name.       *)
Review(s) == s.review = "true" \/ (s.review = "absent" /\ s.worker # Absent /\ s.namedReview)

TransitionDefinition(s) ==
    [task_type |-> s.task_type, from |-> s.from, to |-> s.to,
     worker |-> s.worker, review |-> Review(s)]

DefinitionOf(doc) ==
    [outcome |-> [id \in Symbols(doc).state |-> StatementOf(doc, "state", id).outcome],
     requires |-> [id \in Symbols(doc).task_type |->
                      StatementOf(doc, "task_type", id).requirements],
     transitions |-> [id \in Symbols(doc).transition |->
                         TransitionDefinition(StatementOf(doc, "transition", id))],
     boards |-> doc.storage.boards,
     mappings |-> doc.storage.mappings]

Definitions == [n \in Usable |-> DefinitionOf(Documents[n])]
=============================================================================
