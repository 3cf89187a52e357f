---------------------------- MODULE ObsidianBoard ----------------------------
(***************************************************************************)
(* The vault as the Obsidian adapter reads and writes it                   *)
(* (adapters/obsidian.py), by a workflow definition.                       *)
(*                                                                         *)
(* A vault has a board and notes.  The board gives each task the places of  *)
(* its cards; a place is <<board file, column>>, and the lines within a     *)
(* column are left out.  A note keeps the state in its frontmatter.  Notes  *)
(* parse, and each card links one.                                          *)
(***************************************************************************)
EXTENDS WorkflowDefinition, FiniteSets

CONSTANTS
    Tasks,
    Columns  \* the headings of the board files

ASSUME ColumnsAssumption == IsFiniteSet(Columns) /\ <<Absent, Absent>> \notin Columns

Files == {place[1] : place \in Columns}
Boards == [Tasks -> SUBSET Columns]

(* _state_for_board_column and _mapping_for_state take the first mapping    *)
(* that matches.                                                            *)
First(indices) == CHOOSE i \in indices : \A j \in indices : i <= j

StateAt(d, place) ==
    LET here == {i \in DOMAIN d.mappings : At(d.mappings[i]) = place}
    IN  IF here = {} THEN Absent ELSE d.mappings[First(here)].state

PlaceOf(d, state) ==
    LET here == {i \in DOMAIN d.mappings : d.mappings[i].state = state}
    IN  IF here = {} THEN <<Absent, Absent>> ELSE At(d.mappings[First(here)])

(* _load: one card that is missing, doubled or in a column without a state, *)
(* or a board file that is not there, and the whole project does not load.  *)
(* Boards that the definition does not name are not read.                   *)
Cards(d, board, t) == {place \in board[t] : place[1] \in d.boards}

VaultLoads(d, board) ==
    /\ d.boards \subseteq Files
    /\ \A t \in Tasks :
           /\ Cardinality(Cards(d, board, t)) = 1
           /\ \A place \in Cards(d, board, t) : StateAt(d, place) # Absent

Card(d, board, t) == CHOOSE place \in Cards(d, board, t) : TRUE

(* _state_for_task_id: of a vault that loads the board tells the state, and *)
(* the note does not matter.                                                *)
StateOf(d, board, t) == StateAt(d, Card(d, board, t))

InState(d, board, t, state) == VaultLoads(d, board) /\ StateOf(d, board, t) = state

(* move_task up to its writes: the state has a place, on the board where    *)
(* the card is, under a heading that is there.                              *)
MayMove(d, board, t, state) ==
    /\ VaultLoads(d, board)
    /\ LET target == PlaceOf(d, state)
       IN  /\ target[1] = Card(d, board, t)[1]
           /\ target \in Columns

(* move_task: the lines of the board file as they were read, with one card  *)
(* elsewhere, replace those that are there now.                             *)
Rewritten(d, board, read, t, state) ==
    LET from == Card(d, read, t)
        file == from[1]
        line(u) == {place \in read[u] : place[1] = file}
        kept(u) == board[u] \ {place \in Columns : place[1] = file}
    IN  [u \in Tasks |-> kept(u) \cup
            (IF u = t THEN (line(u) \ {from}) \cup {PlaceOf(d, state)} ELSE line(u))]

(* repair_project: the states to write into the notes that disagree with    *)
(* their card.  A card in a column without a state is reported and its note *)
(* left alone; of two cards the later one counts.                           *)
RepairPlans(d, read, notes) ==
    LET found(t) == {StateAt(d, place) : place \in Cards(d, read, t)} \ {Absent}
        choices(t) == IF found(t) = {} THEN {Absent}
                      ELSE {IF state = notes[t] THEN Absent ELSE state : state \in found(t)}
    IN  {plan \in [Tasks -> UNION {choices(t) : t \in Tasks}] :
            \A t \in Tasks : plan[t] \in choices(t)}
==============================================================================
