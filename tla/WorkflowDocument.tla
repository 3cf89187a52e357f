-------------------------- MODULE WorkflowDocument --------------------------
(***************************************************************************)
(* The workflow document and its validation: the loader and the validation *)
(* visitor of workflow_engine.                                             *)
(*                                                                         *)
(* A document is a tree of YAML mappings.  A mapping is a node: the grammar *)
(* row it is read by, and the type of the value under each of its keys.     *)
(* Types are "str", "strs" (a list of strings), "list" (another list),      *)
(* "int", "bool", "null", "map", and "keyed" (a mapping with a key that is  *)
(* no string).  What ought to be a mapping and is not, is a node with a key *)
(* that no row allows.                                                      *)
(*                                                                         *)
(* A statement has its own node, the nodes inside it, and what the later    *)
(* checks read.  Every diagnostic of these modules is an error: one of them *)
(* and there is no document, so their order and wording are left out.       *)
(***************************************************************************)
EXTENDS Integers, Sequences, SequencesExt, Functions, TLC

Absent == "absent"

-----------------------------------------------------------------------------
(* langdef.py and loader.py: the keys of each row, with the types that the  *)
(* loader takes under them.                                                 *)
Text     == {"str"}
Lists    == {"strs", "list"}
Mappings == {"map", "keyed"}
OrNull(types) == types \cup {"null"}

Row(required, optional) == [required |-> required, optional |-> optional]
Identified == [kind |-> Text, id |-> Text]

(* _build_instruction_refs: one reference or a list of them.                *)
Instructions == {"str", "strs"}

RootRow == Row([schema_version |-> {"int"}, statements |-> Lists],
               [storage |-> OrNull(Mappings)])

StateRow == Row(Identified, [terminal_outcome |-> OrNull(Text)])
ArtifactTypeRow == Row(Identified, [template |-> OrNull(Text)])
WorkerRow == Row(Identified, [type |-> OrNull(Text), instructions |-> Instructions])

(* The requirements of a task type are keyed by the ids of states.          *)
TaskTypeRow ==
    Row(Identified, [requirements |-> OrNull({"map"}), instructions |-> Instructions])

ValidationTypeRow == Row(Identified, [args |-> OrNull(Mappings)])
OperationTypeRow == Row(Identified, [args |-> OrNull(Mappings)])
ArgSpecRow == Row([type |-> Text], [required |-> {"bool"}, many |-> {"bool"}])

TransitionRow ==
    Row([kind |-> Text, id |-> Text, task_type |-> Text, from |-> Text, to |-> Text],
        [worker |-> OrNull(Text), default_for_scheduler |-> {"bool"},
         review |-> OrNull({"bool"}), requires |-> OrNull(Mappings),
         transaction |-> OrNull(Mappings), derives |-> OrNull(Mappings),
         instructions |-> Instructions])

DerivesRow ==
    Row([task_type |-> Text, state |-> Text, artifact_type |-> Text],
        [required |-> {"bool"}, parent_to_if_derived |-> OrNull(Text)])

RequirementSetRow ==
    Row(<< >>, [artifacts |-> {"strs", "null"}, validations |-> OrNull(Lists),
                changed_files |-> OrNull(Mappings)])
ChangedFilesRow == Row(<< >>, [required |-> {"bool"}])

ValidationCallRow == Row([type |-> Text], [args |-> OrNull(Mappings)])
TransactionRow == Row([steps |-> Lists], << >>)
OperationCallRow == Row([op |-> Text], [args |-> OrNull(Mappings)])

StatementRows ==
    [state |-> StateRow, artifact_type |-> ArtifactTypeRow, worker |-> WorkerRow,
     task_type |-> TaskTypeRow, validation_type |-> ValidationTypeRow,
     operation_type |-> OperationTypeRow, transition |-> TransitionRow]

InnerRows ==
    [arg_spec |-> ArgSpecRow, derives |-> DerivesRow, requirement_set |-> RequirementSetRow,
     changed_files |-> ChangedFilesRow, validation_call |-> ValidationCallRow,
     transaction |-> TransactionRow, operation_call |-> OperationCallRow]

Kinds == DOMAIN StatementRows

TerminalOutcomes == {"success", "failure", "cancelled"}
ArgTypes == {"string", "integer", "boolean"}
ReferenceTypes ==
    [state_ref |-> "state", task_type_ref |-> "task_type", artifact_ref |-> "artifact_type",
     validation_ref |-> "validation_type", worker_ref |-> "worker",
     operation_ref |-> "operation_type"]

-----------------------------------------------------------------------------
(* Mutant: a value of any type is taken.                                    *)
FitsKeys(node, row) ==
    /\ DOMAIN row.required \subseteq DOMAIN node.types
    /\ DOMAIN node.types \subseteq DOMAIN row.required \cup DOMAIN row.optional

(* No key is missing, none is unknown, and each value has a type it may.    *)
Fits(node, row) ==
    /\ DOMAIN row.required \subseteq DOMAIN node.types
    /\ \A key \in DOMAIN node.types :
           \/ key \in DOMAIN row.required /\ node.types[key] \in row.required[key]
           \/ key \in DOMAIN row.optional /\ node.types[key] \in row.optional[key]

(* The two values that the loader looks at itself.                          *)
KnownOutcome(s) == s.kind = "state" => s.outcome \in TerminalOutcomes \cup {Absent}
KnownArgTypes(s) ==
    s.kind \in {"validation_type", "operation_type"} =>
        \A arg \in Range(s.args) : arg.type \in ArgTypes \cup DOMAIN ReferenceTypes

(* _build_statement.                                                        *)
StatementBuilds(s) ==
    /\ s.kind \in Kinds
    /\ Fits(s.node, StatementRows[s.kind])
    /\ \A inner \in s.inner : Fits(inner, InnerRows[inner.row])
    /\ KnownOutcome(s) /\ KnownArgTypes(s)

(* parse_yaml and build_ast: a text that is no YAML has no root node.       *)
Builds(doc) ==
    /\ doc.parses
    /\ Fits(doc.root, RootRow)
    /\ doc.version = 1
    /\ \A i \in DOMAIN doc.statements : StatementBuilds(doc.statements[i])

-----------------------------------------------------------------------------
(* build_symbol_table.                                                      *)
OfKind(doc, kind) == {s \in Range(doc.statements) : s.kind = kind}

Symbols(doc) == [kind \in Kinds |-> {s.id : s \in OfKind(doc, kind)}]

UniqueIds(doc) ==
    \A i, j \in DOMAIN doc.statements :
        LET s == doc.statements[i]  t == doc.statements[j]
        IN  s.kind = t.kind /\ s.id = t.id => i = j

(* _validate_single_value, _check_reference: a value is given by its type   *)
(* and, when it names a symbol, by the name.                                *)
ItemFits(item, type, symbols) ==
    IF type \in DOMAIN ReferenceTypes
    THEN item.type = "str" /\ item.name \in symbols[ReferenceTypes[type]]
    ELSE item.type = [string |-> "str", integer |-> "int", boolean |-> "bool"][type]

(* _validate_arg_value: a list where there may be many, and nowhere else.   *)
ValueFits(value, arg, symbols) ==
    /\ value.list = arg.many
    /\ \A item \in value.items : ItemFits(item, arg.type, symbols)

(* _validate_call_args, against the declaration of the called type.         *)
ArgsFit(args, declared, symbols) ==
    /\ \A name \in DOMAIN declared : declared[name].required => name \in DOMAIN args
    /\ DOMAIN args \subseteq DOMAIN declared
    /\ \A name \in DOMAIN args : ValueFits(args[name], declared[name], symbols)

(* visit_validation_call and visit_operation_call; of two declarations with *)
(* one id the table has the first, and the document is refused anyway.      *)
CallResolves(doc, call, kind) ==
    \E s \in OfKind(doc, kind) :
        s.id = call.type /\ ArgsFit(call.args, s.args, Symbols(doc))

RequirementResolves(doc, req) ==
    /\ req.artifacts \subseteq Symbols(doc).artifact_type
    /\ \A call \in req.validations : CallResolves(doc, call, "validation_type")

TaskTypeResolves(doc, s) ==
    \A state \in DOMAIN s.requirements :
        /\ state \in Symbols(doc).state
        /\ RequirementResolves(doc, s.requirements[state])

DerivesResolves(doc, derives) ==
    /\ derives.task_type \in Symbols(doc).task_type
    /\ derives.state \in Symbols(doc).state
    /\ derives.artifact_type \in Symbols(doc).artifact_type

TransitionResolves(doc, s) ==
    /\ s.task_type \in Symbols(doc).task_type
    /\ {s.from, s.to} \subseteq Symbols(doc).state
    /\ s.worker \in Symbols(doc).worker \cup {Absent}
    /\ RequirementResolves(doc, s.requires)
    /\ \A derives \in s.derives : DerivesResolves(doc, derives)
    /\ \A call \in s.steps : CallResolves(doc, call, "operation_type")

(* validate.                                                                *)
Validates(doc) ==
    /\ UniqueIds(doc)
    /\ \A s \in OfKind(doc, "task_type") : TaskTypeResolves(doc, s)
    /\ \A s \in OfKind(doc, "transition") : TransitionResolves(doc, s)
=============================================================================
