--------------------------- MODULE TaskMovesProofs ---------------------------
(***************************************************************************)
(* Theorems about the moves of tasks, whatever the workflow files say, for *)
(* any tasks and any number of transactions, faults and edits: no task     *)
(* reaches success by hand before its work was accepted; what a move has    *)
(* written is read back as the state it was made to.                        *)
(***************************************************************************)
EXTENDS TaskMoves, SequenceTheorems, FiniteSetTheorems, WellFoundedInduction, TLAPS

(* What the loader and the compiler let through, they have read as it       *)
(* stands (loader.py, visitors.py, compiler.py): a transition that the file *)
(* gives to a worker has one in the definition, and the state that the file *)
(* declares a success is one.                                               *)
LEMMA ReadAsItStands ==
    ASSUME NEW n \in Usable, NEW id, SaysImplementation(Documents[n], id)
    PROVE  LET d == Definitions[n]
           IN  /\ d.transitions[id].worker # Absent
               /\ d.outcome[d.transitions[id].to] = "success"
<1> DEFINE doc == Documents[n]
<1>1. Builds(doc) /\ UniqueIds(doc) /\ n \in Names
  BY DEF Usable, Loads, Validates
<1>2. PICK s \in Range(doc.statements), u \in Range(doc.statements) :
          /\ s.kind = "transition" /\ s.id = id
          /\ "worker" \in DOMAIN s.node.types /\ s.node.types.worker # "null"
          /\ u.kind = "state" /\ u.id = s.to /\ u.outcome = "success"
  BY DEF SaysImplementation
<1>3. ASSUME NEW kind, NEW v \in OfKind(doc, kind)
      PROVE  StatementOf(doc, kind, v.id) = v
  <2>1. ASSUME NEW w \in OfKind(doc, kind), w.id = v.id
        PROVE  w = v
    <3>1. PICK i \in DOMAIN doc.statements, j \in DOMAIN doc.statements :
              v = doc.statements[i] /\ w = doc.statements[j]
      BY DEF OfKind, Range
    <3>2. v.kind = w.kind
      BY DEF OfKind
    <3> QED
      BY <1>1, <2>1, <3>1, <3>2 DEF UniqueIds
  <2> QED
    BY <2>1 DEF StatementOf
<1>4. s \in OfKind(doc, "transition") /\ u \in OfKind(doc, "state")
  BY <1>2 DEF OfKind
<1>5. StatementBuilds(s)
  BY <1>1, <1>2 DEF Builds, Range
<1>6. s.node.types["worker"] = "str"
  <2>1. Fits(s.node, TransitionRow)
    BY <1>2, <1>5 DEF StatementBuilds, StatementRows
  <2>2. TransitionRow.optional["worker"] = {"str", "null"}
    BY DEF TransitionRow, Row, OrNull, Text
  <2>3. "worker" \notin DOMAIN TransitionRow.required
    BY DEF TransitionRow, Row, Identified, Text
  <2> QED
    BY <1>2, <2>1, <2>2, <2>3 DEF Fits
<1>7. s.worker # Absent
  BY <1>1, <1>2, <1>4, <1>6, DocumentAssumption
<1>8. Definitions[n] = DefinitionOf(doc)
  BY DEF Definitions
<1>9. id \in Symbols(doc).transition /\ s.to \in Symbols(doc).state
  BY <1>2, <1>4 DEF Symbols, Kinds, StatementRows
<1>10. Definitions[n].transitions[id] = TransitionDefinition(s)
  BY <1>2, <1>3, <1>4, <1>8, <1>9 DEF DefinitionOf
<1>11. Definitions[n].outcome[s.to] = u.outcome
  BY <1>2, <1>3, <1>4, <1>8, <1>9 DEF DefinitionOf
<1> QED
  BY <1>2, <1>7, <1>10, <1>11 DEF TransitionDefinition

-----------------------------------------------------------------------------
(* Journals are a sequence of records; what is in their fields the argument *)
(* does not need.                                                           *)
Records(S) == [by : S, doc : S, task : S, transition : S, from : S, to : S, status : S]
Listed == \E S : journals \in Seq(Records(S))

IInv == Listed /\ VerifiedBeforeSuccess

(* What every step does that prepares nothing: it may change a status, and   *)
(* an acceptance may become known.                                          *)
Keeps ==
    /\ accepted \subseteq accepted'
    /\ \/ UNCHANGED journals
       \/ \E k, st : journals' = [journals EXCEPT ![k].status = st]

LEMMA WiderRecords ==
    ASSUME NEW S, NEW T, S \subseteq T, NEW q \in Seq(Records(S))
    PROVE  q \in Seq(Records(T))
<1>1. Records(S) \subseteq Records(T)
  BY DEF Records
<1> QED
  BY <1>1

LEMMA KeepsIInv ==
    ASSUME IInv, Keeps
    PROVE  IInv'
<1>1. CASE UNCHANGED journals
  BY <1>1 DEF IInv, Keeps, Listed, VerifiedBeforeSuccess
<1>2. ASSUME NEW k, NEW st, journals' = [journals EXCEPT ![k].status = st]
      PROVE  IInv'
  <2>1. PICK S : journals \in Seq(Records(S))
    BY DEF IInv, Listed
  <2> DEFINE T == S \cup {st}
  <2>2. journals \in Seq(Records(T))
    BY <2>1, WiderRecords
  <2>3. /\ journals' \in Seq(Records(T))
        /\ DOMAIN journals' = DOMAIN journals
        /\ \A i \in DOMAIN journals :
               /\ journals'[i].by = journals[i].by
               /\ journals'[i].doc = journals[i].doc
               /\ journals'[i].task = journals[i].task
               /\ journals'[i].transition = journals[i].transition
               /\ journals'[i].to = journals[i].to
    <3>1. journals \in [1..Len(journals) -> Records(T)] /\ Len(journals) \in Nat
      BY <2>2
    <3>2. ASSUME NEW i \in DOMAIN journals
          PROVE  /\ journals'[i] \in Records(T)
                 /\ journals'[i].by = journals[i].by
                 /\ journals'[i].doc = journals[i].doc
                 /\ journals'[i].task = journals[i].task
                 /\ journals'[i].transition = journals[i].transition
                 /\ journals'[i].to = journals[i].to
      <4>1. journals[i] \in Records(T)
        BY <3>1
      <4>2. journals'[i] = IF i = k THEN [journals[i] EXCEPT !.status = st] ELSE journals[i]
        BY <1>2, <3>1
      <4> QED
        BY <4>1, <4>2 DEF Records
    <3>3. journals' \in [1..Len(journals) -> Records(T)]
      BY <1>2, <3>1, <3>2
    <3>4. journals' \in Seq(Records(T))
      <4> HIDE DEF T
      <4> QED
        BY <3>1, <3>3
    <3>5. DOMAIN journals' = DOMAIN journals
      BY <1>2
    <3> QED
      BY <3>2, <3>4, <3>5
  <2> QED
    BY <2>3 DEF IInv, Keeps, Listed, VerifiedBeforeSuccess
<1> QED
  BY <1>1, <1>2 DEF Keeps

(* A transaction that is prepared keeps the invariant if it is no operator's *)
(* into success, or the work was accepted.                                  *)
LEMMA PreparesKeepsIInv ==
    ASSUME IInv, UNCHANGED accepted,
           NEW a, NEW by, NEW n, NEW t, NEW id, NEW transition,
           Prepares(a, by, n, t, id, transition),
           by = "operator" /\ SaysImplementation(Documents[n], id)
               => <<t, id, transition.to>> \in accepted
    PROVE  IInv'
<1> DEFINE new == [by |-> by, doc |-> n, task |-> t, transition |-> id,
                   from |-> transition.from, to |-> transition.to, status |-> "prepared"]
<1>1. journals' = Append(journals, new)
  BY DEF Prepares
<1>2. PICK S : journals \in Seq(Records(S))
  BY DEF IInv, Listed
<1> DEFINE T == S \cup {by, n, t, id, transition.from, transition.to, "prepared"}
<1>3. journals \in Seq(Records(T)) /\ new \in Records(T)
  <2>1. journals \in Seq(Records(T))
    BY <1>2, WiderRecords
  <2>2. new \in Records(T)
    BY DEF Records
  <2> QED
    BY <2>1, <2>2
<1> HIDE DEF new, T
<1>4. /\ journals' \in Seq(Records(T))
      /\ \A i \in DOMAIN journals' :
             \/ i \in DOMAIN journals /\ journals'[i] = journals[i]
             \/ journals'[i] = new
  BY <1>1, <1>3
<1>5. VerifiedBeforeSuccess'
  <2> SUFFICES ASSUME NEW i \in DOMAIN journals',
                      journals'[i].by = "operator",
                      SaysImplementation(Documents[journals'[i].doc], journals'[i].transition)
               PROVE  <<journals'[i].task, journals'[i].transition, journals'[i].to>> \in accepted
    BY DEF VerifiedBeforeSuccess
  <2>1. CASE i \in DOMAIN journals /\ journals'[i] = journals[i]
    BY <2>1 DEF IInv, VerifiedBeforeSuccess
  <2>2. CASE journals'[i] = new
    <3>1. /\ new.by = by /\ new.doc = n /\ new.task = t
          /\ new.transition = id /\ new.to = transition.to
      BY DEF new
    <3> QED
      BY <2>2, <3>1
  <2> QED
    BY <1>4, <2>1, <2>2
<1> QED
  BY <1>4, <1>5 DEF IInv, Listed

-----------------------------------------------------------------------------
LEMMA FailsKeeps == ASSUME NEW a, NEW moved, Fails(a, moved), UNCHANGED accepted
                    PROVE  Keeps
  BY DEF Fails, SetStatus, Keeps

LEMMA MovesKeep == ASSUME NEW a \in Agents, Moves(a) PROVE Keeps
<1>1. CASE ReadsVault(a)
  BY <1>1 DEF ReadsVault, Keeps
<1>2. CASE Refused(a)
  BY <1>2, FailsKeeps DEF Refused, Keeps
<1>3. CASE WritesBoard(a)
  BY <1>3 DEF WritesBoard, Keeps
<1>4. CASE WriteFails(a)
  BY <1>4, FailsKeeps DEF WriteFails, Keeps
<1>5. CASE Validated(a)
  BY <1>5, FailsKeeps DEF Validated, Keeps
<1>6. CASE Commits(a)
  BY <1>6 DEF Commits, SetStatus, Keeps
<1>7. CASE AppendFails(a)
  BY <1>7, FailsKeeps DEF AppendFails
<1> QED
  BY <1>1, <1>2, <1>3, <1>4, <1>5, <1>6, <1>7 DEF Moves

(* The one step that the check of the task manager guards.                   *)
LEMMA RequestsKeepsIInv ==
    ASSUME IInv, NEW t \in Tasks, NEW id \in TransitionIds, Requests(t, id)
    PROVE  IInv'
<1> DEFINE d == Definitions[workflow]
<1>1. /\ workflow \in Usable /\ AcceptanceShown(d, t, id)
      /\ Prepares("operator", "operator", workflow, t, id, d.transitions[id])
      /\ UNCHANGED accepted
  BY DEF Requests
<1>2. ASSUME SaysImplementation(Documents[workflow], id)
      PROVE  <<t, id, d.transitions[id].to>> \in accepted
  BY <1>1, <1>2, ReadAsItStands DEF AcceptanceShown
<1> QED
  BY <1>1, <1>2, PreparesKeepsIInv

LEMMA StepKeepsIInv == IInv /\ [Next]_vars => IInv'
<1> SUFFICES ASSUME IInv, [Next]_vars PROVE IInv'
  OBVIOUS
<1>1. ASSUME NEW t \in Tasks, NEW id \in TransitionIds, Requests(t, id)
      PROVE  IInv'
  BY <1>1, RequestsKeepsIInv
<1>2. ASSUME NEW t \in Tasks, NEW id \in TransitionIds, Schedules(t, id)
      PROVE  Keeps
  BY <1>2 DEF Schedules, Keeps
<1>3. CASE Accepts
  <2>1. PICK n, t, id, transition : Prepares("daemon", "daemon", n, t, id, transition)
    BY <1>3 DEF Accepts
  <2>2. UNCHANGED accepted
    BY <1>3 DEF Accepts
  <2> QED
    BY <2>1, <2>2, PreparesKeepsIInv
<1>4. ASSUME Rejects
      PROVE  Keeps
  BY <1>4 DEF Rejects, Keeps
<1>5. ASSUME NEW a \in Agents, Moves(a)
      PROVE  Keeps
  BY <1>5, MovesKeep
<1>6. ASSUME NEW i \in DOMAIN journals, TakesUp(i)
      PROVE  Keeps
  BY <1>6 DEF TakesUp, Keeps
<1>7. ASSUME FixerRepairs
      PROVE  Keeps
  BY <1>7 DEF FixerRepairs, Keeps
<1>8. ASSUME NEW a \in Agents, Dies(a)
      PROVE  Keeps
  BY <1>8 DEF Dies, Keeps
<1>9. ASSUME NEW t, NEW cards, UserMoves(t, cards)
      PROVE  Keeps
  BY <1>9 DEF UserMoves, Keeps
<1>10. ASSUME NEW n \in Names, UserRewrites(n)
       PROVE  Keeps
  BY <1>10 DEF UserRewrites, Keeps
<1>11. ASSUME UNCHANGED vars
       PROVE  Keeps
  BY <1>11 DEF vars, Keeps
<1> QED
  BY <1>1, <1>2, <1>3, <1>4, <1>5, <1>6, <1>7, <1>8, <1>9, <1>10, <1>11, KeepsIInv DEF Next

(* A task reaches success by hand, over a transition that the workflow file *)
(* gives to a worker, only after the acceptance of that work was committed   *)
(* (task_manager.py _manual_implementation_acceptance_error).                *)
THEOREM SuccessIsVerified == Spec => []VerifiedBeforeSuccess
<1>1. Init => IInv
  <2> SUFFICES ASSUME Init PROVE IInv
    OBVIOUS
  <2>1. journals = << >>
    BY DEF Init
  <2>2. journals \in Seq(Records({}))
    BY <2>1
  <2> QED
    BY <2>1, <2>2 DEF IInv, Listed, VerifiedBeforeSuccess
<1>2. IInv => VerifiedBeforeSuccess
  BY DEF IInv
<1> QED
  BY <1>1, <1>2, StepKeepsIInv, PTL DEF Spec

-----------------------------------------------------------------------------
(* What is on the board.                                                    *)

(* The least-number principle, for a set.                                   *)
LEMMA HasFirst ==
  ASSUME NEW S \in SUBSET Nat, S # {}
  PROVE  First(S) \in S /\ \A j \in S : First(S) <= j
<1> DEFINE R == OpToRel(<, Nat)
<1>1. IsWellFoundedOn(R, Nat)
  BY NatLessThanWellFounded
<1>2. R = {p \in Nat \X Nat : p[1] < p[2]}
  BY DEF OpToRel
<1> HIDE DEF R
<1>3. PICK i \in S : \A j \in S : ~(<<j, i>> \in R)
  BY <1>1, WFMin
<1>4. ASSUME NEW j \in S
      PROVE  i <= j
  <2>1. ~(<<j, i>> \in R) /\ <<j, i>> \in Nat \X Nat
    BY <1>3
  <2>2. ~(j < i)
    BY <1>2, <2>1
  <2> QED
    BY <2>2
<1> QED
  BY <1>4 DEF First

(* What a definition says of the board it takes from the document.          *)
LEMMA MappingFacts ==
  ASSUME NEW n \in Usable
  PROVE  LET d == Definitions[n]
         IN  /\ d.mappings = Documents[n].storage.mappings
             /\ d.boards = Documents[n].storage.boards
             /\ DOMAIN d.mappings \in SUBSET Nat
             /\ \A i \in DOMAIN d.mappings : d.mappings[i] \in Range(d.mappings)
             /\ StorageRefs(Documents[n]) /\ Documents[n].storage.shape = "boards"
             /\ n \in Names
<1>1. /\ n \in Names /\ StorageRefs(Documents[n]) /\ Documents[n].storage.shape = "boards"
      /\ Builds(Documents[n])
  BY DEF Usable, Loads, Compiles, AdapterBuilds
<1>2. /\ Definitions[n].mappings = Documents[n].storage.mappings
      /\ Definitions[n].boards = Documents[n].storage.boards
  BY DEF Definitions, DefinitionOf
<1>3. DOMAIN Documents[n].storage.mappings \in SUBSET Nat
  BY <1>1, ListAssumption
<1> QED
  BY <1>1, <1>2, <1>3 DEF Range

(* The state of a place, and the place of a state, are those of a mapping.  *)
LEMMA StateAtTyped ==
  ASSUME NEW n \in Usable, NEW place
  PROVE  StateAt(Definitions[n], place) \in States \cup {Absent}
<1> DEFINE d == Definitions[n]
           here == {i \in DOMAIN d.mappings : At(d.mappings[i]) = place}
<1>1. CASE here = {}
  BY <1>1 DEF StateAt
<1>2. CASE here # {}
  <2>1. First(here) \in DOMAIN d.mappings
    BY <1>2, MappingFacts, HasFirst
  <2>2. d.mappings[First(here)] \in Range(d.mappings)
    BY <2>1, MappingFacts
  <2>3. d.mappings[First(here)].state \in States
    <3>1. d.mappings[First(here)].state \in {m.state : m \in Range(d.mappings)}
      BY <2>2
    <3> QED  BY <3>1 DEF States
  <2> QED
    BY <1>2, <2>3 DEF StateAt
<1> QED
  BY <1>1, <1>2

(* In a document that gives places as strings, a state has one place and a  *)
(* place one state (compiler.py _validate_storage_refs).                    *)
LEMMA OnePlaceOneState ==
  ASSUME NEW n \in Usable,
         \A m \in Range(Definitions[n].mappings) : TextMapping(m),
         NEW i \in DOMAIN Definitions[n].mappings
  PROVE  LET d == Definitions[n]
             m == d.mappings[i]
         IN  /\ StateAt(d, At(m)) = m.state /\ PlaceOf(d, m.state) = At(m)
             /\ m.state # Absent /\ At(m)[1] \in d.boards
<1> DEFINE d == Definitions[n]
           m == d.mappings[i]
           here == {j \in DOMAIN d.mappings : At(d.mappings[j]) = At(m)}
           same == {j \in DOMAIN d.mappings : d.mappings[j].state = m.state}
<1>1. \A j \in DOMAIN d.mappings :
          /\ TextMapping(d.mappings[j])
          /\ j # i => d.mappings[j].state # m.state /\ At(d.mappings[j]) # At(m)
  BY MappingFacts DEF StorageRefs
<1>2. here = {i} /\ same = {i}
  BY <1>1
<1>3. First({i}) = i
  BY MappingFacts, HasFirst
<1>4. m.state \in Symbols(Documents[n]).state /\ m.board \in d.boards
  BY <1>1, MappingFacts DEF StorageRefs
<1>5. m.state # Absent
  <2>1. PICK s \in Range(Documents[n].statements) : s.id = m.state
    BY <1>4 DEF Symbols, OfKind, Kinds, StatementRows
  <2> QED
    BY <2>1, MappingFacts, ListAssumption
<1> QED
  BY <1>2, <1>3, <1>4, <1>5 DEF StateAt, PlaceOf, At

LEMMA StateHasPlace ==
  ASSUME NEW n \in Usable,
         \A m \in Range(Definitions[n].mappings) : TextMapping(m),
         NEW place, StateAt(Definitions[n], place) # Absent
  PROVE  PlaceOf(Definitions[n], StateAt(Definitions[n], place)) = place
<1> DEFINE d == Definitions[n]
           here == {i \in DOMAIN d.mappings : At(d.mappings[i]) = place}
<1>1. here # {}
  BY DEF StateAt
<1>2. PICK i \in DOMAIN d.mappings : At(d.mappings[i]) = place
  BY <1>1
<1> QED
  BY <1>2, OnePlaceOneState

LEMMA PlaceHasState ==
  ASSUME NEW n \in Usable,
         \A m \in Range(Definitions[n].mappings) : TextMapping(m),
         NEW state, PlaceOf(Definitions[n], state) \in Columns
  PROVE  LET d == Definitions[n]
         IN  /\ StateAt(d, PlaceOf(d, state)) = state /\ state # Absent
             /\ PlaceOf(d, state)[1] \in d.boards
<1> DEFINE d == Definitions[n]
           same == {i \in DOMAIN d.mappings : d.mappings[i].state = state}
<1>1. same # {}
  BY ColumnsAssumption DEF PlaceOf
<1>2. PICK i \in DOMAIN d.mappings : d.mappings[i].state = state
  BY <1>1
<1> QED
  BY <1>2, OnePlaceOneState

(* A vault that loads has one card of each task.                            *)
LEMMA OneCard ==
  ASSUME NEW d, NEW read \in Boards, VaultLoads(d, read), NEW u \in Tasks
  PROVE  /\ Cards(d, read, u) = {Card(d, read, u)}
         /\ Card(d, read, u) \in read[u] /\ Card(d, read, u) \in Columns
         /\ Card(d, read, u)[1] \in d.boards
         /\ StateAt(d, Card(d, read, u)) # Absent
<1>1. Cards(d, read, u) \in SUBSET Columns /\ Cards(d, read, u) \subseteq read[u]
  BY DEF Cards, Boards
<1>2. IsFiniteSet(Cards(d, read, u)) /\ Cardinality(Cards(d, read, u)) = 1
  BY <1>1, FS_Subset, ColumnsAssumption DEF VaultLoads
<1>3. PICK x : Cards(d, read, u) = {x}
  BY <1>2, FS_Singleton
<1>4. Card(d, read, u) = x
  BY <1>3 DEF Card
<1> QED
  BY <1>1, <1>3, <1>4 DEF VaultLoads, Cards

LEMMA RewrittenTyped ==
  ASSUME NEW d, NEW now \in Boards, NEW read \in Boards, NEW t \in Tasks, NEW state,
         PlaceOf(d, state) \in Columns
  PROVE  Rewritten(d, now, read, t, state) \in Boards
  BY DEF Rewritten, Boards

(* The board that a move makes of the one it has read loads, and has the    *)
(* task in the state it was moved to.                                       *)
LEMMA MoveIsReadBack ==
  ASSUME NEW n \in Usable,
         \A m \in Range(Definitions[n].mappings) : TextMapping(m),
         NEW read \in Boards, NEW t \in Tasks, NEW state,
         \/ MayMove(Definitions[n], read, t, state)
         \/ InState(Definitions[n], read, t, state)
  PROVE  InState(Definitions[n], Rewritten(Definitions[n], read, read, t, state), t, state)
<1> DEFINE d == Definitions[n]
           from == Card(d, read, t)
           to == PlaceOf(d, state)
           new == Rewritten(d, read, read, t, state)
<1>1. VaultLoads(d, read)
  BY DEF MayMove, InState
<1>2. to \in Columns /\ to[1] = from[1]
  <2>1. CASE MayMove(d, read, t, state)
    BY <2>1 DEF MayMove
  <2>2. CASE InState(d, read, t, state)
    <3>1. StateAt(d, from) = state
      BY <2>2 DEF InState, StateOf
    <3> QED
      BY <1>1, <3>1, OneCard, StateHasPlace
  <2> QED
    BY <2>1, <2>2
<1>3. StateAt(d, to) = state /\ state # Absent /\ to[1] \in d.boards
  BY <1>2, PlaceHasState
<1>4. ASSUME NEW u \in Tasks, u # t
      PROVE  new[u] = read[u]
  BY <1>4 DEF Rewritten, Boards
<1>5. ASSUME NEW u \in Tasks, u # t
      PROVE  Cards(d, new, u) = Cards(d, read, u)
  BY <1>4, <1>5 DEF Cards
<1>6. Cards(d, new, t) = {to}
  <2>1. new[t] = (read[t] \ {place \in Columns : place[1] = from[1]})
                 \cup ({place \in read[t] : place[1] = from[1]} \ {from}) \cup {to}
    BY DEF Rewritten
  <2>2. \A place \in read[t] : place[1] \in d.boards => place = from
    BY <1>1, OneCard DEF Cards
  <2>3. read[t] \subseteq Columns /\ from[1] \in d.boards
    BY <1>1, OneCard DEF Boards
  <2> QED
    BY <1>2, <1>3, <2>1, <2>2, <2>3 DEF Cards
<1>7. Card(d, new, t) = to
  BY <1>6 DEF Card
<1>8. VaultLoads(d, new)
  <2>1. ASSUME NEW u \in Tasks
        PROVE  /\ Cardinality(Cards(d, new, u)) = 1
               /\ \A place \in Cards(d, new, u) : StateAt(d, place) # Absent
    <3>1. CASE u = t
      BY <1>3, <1>6, <3>1, FS_Singleton
    <3>2. CASE u # t
      BY <1>1, <1>5, <3>2 DEF VaultLoads
    <3> QED
      BY <3>1, <3>2
  <2> QED
    BY <1>1, <2>1 DEF VaultLoads
<1> QED
  BY <1>3, <1>7, <1>8 DEF InState, StateOf

-----------------------------------------------------------------------------
(* The shape of the state.                                                  *)

(* The transition that the daemon works on is one of its definition.        *)
Scheduled ==
    On("daemon", "working") =>
        LET job == agent["daemon"].job
        IN  job \in Jobs /\ job[2] \in DOMAIN Def("daemon").transitions

(* Who is to write or has written a board may make that move on the board   *)
(* it has read, or has found it made.                                       *)
AsRead ==
    \A a \in Agents :
        LET t == JournalOf(a).task
        IN  /\ On(a, "placing") => MayMove(Def(a), agent[a].read, t, Target(a))
            /\ On(a, "validating") => \/ MayMove(Def(a), agent[a].read, t, Target(a))
                                      \/ InState(Def(a), agent[a].read, t, Target(a))

BoardTyped == board \in Boards /\ notes \in [Tasks -> States] /\ workflow \in Names
                /\ troubles \in 0..MaxTroubles
JournalsTyped == journals \in Seq(Journals) /\ Len(journals) <= MaxJournals
AcceptedTyped == accepted \subseteq Tasks \X TransitionIds \X States
TypeInv == TypeOK /\ Scheduled /\ AsRead

LEMMA TransitionTyped ==
  ASSUME NEW n \in Usable, NEW id \in DOMAIN Definitions[n].transitions
  PROVE  LET transition == Definitions[n].transitions[id]
         IN  transition.from \in States /\ transition.to \in States /\ id \in TransitionIds
<1> DEFINE doc == Documents[n]
           s == StatementOf(doc, "transition", id)
<1>1. CrossReferences(doc) /\ n \in Names
  BY DEF Usable, Loads, Compiles
<1>2. Definitions[n] = DefinitionOf(doc)
  BY DEF Definitions
<1>3. id \in Symbols(doc).transition
  BY <1>2 DEF DefinitionOf
<1>4. \E v \in OfKind(doc, "transition") : v.id = id
  BY <1>3 DEF Symbols, Kinds, StatementRows
<1>5. s \in OfKind(doc, "transition")
  BY <1>4 DEF StatementOf
<1>6. {s.from, s.to} \subseteq Symbols(doc).state
  BY <1>1, <1>5 DEF CrossReferences
<1>7. DOMAIN Definitions[n].outcome = Symbols(doc).state
  BY <1>2 DEF DefinitionOf
<1>8. Definitions[n].transitions[id] = TransitionDefinition(s)
  BY <1>2, <1>3 DEF DefinitionOf
<1>9. DOMAIN Definitions[n].outcome \subseteq States /\ id \in TransitionIds
  BY DEF States, TransitionIds
<1> QED
  BY <1>6, <1>7, <1>8, <1>9 DEF TransitionDefinition

LEMMA IdleTyped == Idle \in Doings
  BY FirstAssumption, BoundAssumption DEF Idle, Doings, NoBoard, Boards

(* What an agent that is at work works on.                                  *)
LEMMA AtWork ==
  ASSUME TypeOK, NEW a \in Agents, agent[a].pc \notin {"idle", "working"}
  PROVE  /\ agent[a].j \in DOMAIN journals /\ agent[a].j \in 1..Len(journals)
         /\ JournalOf(a) \in Journals
         /\ JournalOf(a).task \in Tasks /\ Target(a) \in States
         /\ agent[a].doc \in Usable /\ agent[a].read \in Boards /\ agent[a].back \in BOOLEAN
<1>1. agent[a].j \in DOMAIN journals /\ agent[a] \in Doings /\ journals \in Seq(Journals)
  BY DEF TypeOK
<1>2. journals[agent[a].j] \in Journals /\ agent[a].j \in 1..Len(journals)
  BY <1>1, ElementOfSeq, LenProperties
<1> QED
  BY <1>1, <1>2 DEF JournalOf, Target, Journals, Doings

(* Journals keep their place: what is changed is their status.              *)
SameJournals ==
    /\ Len(journals') = Len(journals) /\ journals' \in Seq(Journals)
    /\ DOMAIN journals' = DOMAIN journals
    /\ \A i \in DOMAIN journals :
           journals'[i].task = journals[i].task /\ journals'[i].from = journals[i].from
           /\ journals'[i].to = journals[i].to

LEMMA SetStatusTyped ==
  ASSUME TypeOK, NEW a \in Agents, agent[a].pc \notin {"idle", "working"},
         NEW status \in {"prepared", "failed", "committed"}, SetStatus(a, status)
  PROVE  SameJournals
<1>1. agent[a].j \in 1..Len(journals) /\ JournalOf(a) \in Journals
  BY AtWork
<1>2. journals \in Seq(Journals)
  BY DEF TypeOK
<1> DEFINE new == [journals[agent[a].j] EXCEPT !.status = status]
<1>3. new \in Journals /\ journals' = [journals EXCEPT ![agent[a].j] = new]
  BY <1>1, <1>2 DEF SetStatus, Journals, JournalOf
<1>4. journals' \in Seq(Journals) /\ Len(journals') = Len(journals)
  BY <1>1, <1>2, <1>3, ExceptSeq
<1>5. /\ new.task = journals[agent[a].j].task /\ new.from = journals[agent[a].j].from
      /\ new.to = journals[agent[a].j].to
  BY <1>1 DEF JournalOf, Journals
<1> HIDE DEF new
<1>6. DOMAIN journals' = DOMAIN journals
  BY <1>3
<1> QED
  BY <1>3, <1>4, <1>5, <1>6 DEF SameJournals

LEMMA SameByStuttering ==
  ASSUME TypeOK, UNCHANGED journals PROVE SameJournals
  BY DEF SameJournals, TypeOK

(* One agent goes to a new place; the others, and the journals, stay.       *)
LEMMA AgentMoves ==
  ASSUME TypeInv, SameJournals, NEW a \in Agents, NEW new \in Doings,
         agent' = [agent EXCEPT ![a] = new],
         new.pc # "working",
         IF new.pc = "idle" THEN new.j = 0 ELSE new.j \in DOMAIN journals,
         LET d == Definitions[new.doc]
             t == journals[new.j].task
             to == IF new.back THEN journals[new.j].from ELSE journals[new.j].to
         IN  /\ new.pc = "placing" => MayMove(d, new.read, t, to)
             /\ new.pc = "validating" => \/ MayMove(d, new.read, t, to)
                                         \/ InState(d, new.read, t, to),
         BoardTyped', AcceptedTyped'
  PROVE  TypeInv'
<1>1. agent' \in [Agents -> Doings] /\ agent'[a] = new
      /\ \A b \in Agents : b # a => agent'[b] = agent[b]
  BY DEF TypeInv, TypeOK
<1>2. ASSUME NEW b \in Agents
      PROVE  agent'[b].j \in (IF agent'[b].pc \in {"idle", "working"}
                              THEN {0} ELSE DOMAIN journals')
  BY <1>1, <1>2 DEF TypeInv, TypeOK, SameJournals
<1>3. TypeOK'
  BY <1>1, <1>2 DEF TypeInv, TypeOK, SameJournals, BoardTyped, AcceptedTyped
<1>4. Scheduled'
  BY <1>1 DEF TypeInv, Scheduled, On, Def
<1>5. ASSUME NEW b \in Agents, b # a, agent[b].pc \in {"placing", "validating"}
      PROVE  /\ JournalOf(b)'.task = JournalOf(b).task /\ Target(b)' = Target(b)
             /\ Def(b)' = Def(b)
  <2>1. agent[b].j \in DOMAIN journals
    BY <1>5, AtWork DEF TypeInv
  <2> QED
    BY <1>1, <1>5, <2>1 DEF SameJournals, JournalOf, Target, Def
<1>6. AsRead'
  <2> SUFFICES ASSUME NEW b \in Agents
               PROVE  LET t == JournalOf(b).task
                      IN  (/\ On(b, "placing") => MayMove(Def(b), agent[b].read, t, Target(b))
                           /\ On(b, "validating") =>
                                 \/ MayMove(Def(b), agent[b].read, t, Target(b))
                                 \/ InState(Def(b), agent[b].read, t, Target(b)))'
    BY DEF AsRead
  <2>1. CASE b = a
    <3>1. new.pc \in {"placing", "validating"} =>
              /\ JournalOf(a)'.task = journals[new.j].task /\ Def(a)' = Definitions[new.doc]
              /\ Target(a)' = IF new.back THEN journals[new.j].from ELSE journals[new.j].to
      BY <1>1 DEF SameJournals, JournalOf, Def, Target
    <3> QED
      BY <1>1, <2>1, <3>1 DEF On
  <2>2. CASE b # a
    BY <1>1, <1>5, <2>2 DEF TypeInv, AsRead, On
  <2> QED
    BY <2>1, <2>2
<1> QED
  BY <1>3, <1>4, <1>6 DEF TypeInv

(* A step of none of the agents.                                            *)
LEMMA OthersMove ==
  ASSUME TypeInv, UNCHANGED <<journals, agent, accepted>>, BoardTyped'
  PROVE  TypeInv'
<1>1. TypeOK'
  BY DEF TypeInv, TypeOK, BoardTyped
<1>2. Scheduled'
  BY DEF TypeInv, Scheduled, On, Def
<1>3. AsRead'
  BY DEF TypeInv, AsRead, On, Def, JournalOf, Target
<1> QED
  BY <1>1, <1>2, <1>3 DEF TypeInv

(* An agent that stops, and one that takes its move back.                   *)
LEMMA StopsTyped ==
  ASSUME TypeInv, SameJournals, NEW a \in Agents, Stops(a), BoardTyped', AcceptedTyped'
  PROVE  TypeInv'
<1>1. Idle.pc = "idle" /\ Idle.j = 0
  BY DEF Idle
<1> QED
  BY <1>1, AgentMoves, IdleTyped DEF Stops

LEMMA FailsTyped ==
  ASSUME TypeInv, NEW a \in Agents, agent[a].pc \notin {"idle", "working"},
         NEW moved \in BOOLEAN, Fails(a, moved), BoardTyped', UNCHANGED accepted
  PROVE  TypeInv'
<1>1. SameJournals
  BY SetStatusTyped, SameByStuttering DEF Fails, TypeInv
<1>2. AcceptedTyped'
  BY DEF TypeInv, TypeOK, AcceptedTyped
<1>3. CASE Stops(a)
  BY <1>1, <1>2, <1>3, StopsTyped
<1>4. CASE agent' = [agent EXCEPT ![a].pc = "moving", ![a].back = TRUE, ![a].read = NoBoard]
  <2> DEFINE new == [agent[a] EXCEPT !.pc = "moving", !.back = TRUE, !.read = NoBoard]
  <2>1. agent[a] \in Doings /\ agent[a].j \in DOMAIN journals
    BY DEF TypeInv, TypeOK
  <2>2. new \in Doings /\ new.pc = "moving" /\ new.j = agent[a].j
    BY <2>1 DEF Doings, NoBoard, Boards
  <2>3. agent' = [agent EXCEPT ![a] = new]
    BY <1>4 DEF TypeInv, TypeOK
  <2> HIDE DEF new
  <2> QED
    BY <1>1, <1>2, <2>1, <2>2, <2>3, AgentMoves
<1> QED
  BY <1>3, <1>4 DEF Fails

LEMMA PreparesTyped ==
  ASSUME TypeInv, NEW a \in Agents, NEW by \in {"operator", "daemon"}, NEW n \in Usable,
         NEW t \in Tasks, NEW id \in DOMAIN Definitions[n].transitions,
         Prepares(a, by, n, t, id, Definitions[n].transitions[id]),
         UNCHANGED <<workflow, board, notes, accepted, troubles>>
  PROVE  TypeInv'
<1> DEFINE transition == Definitions[n].transitions[id]
           journal == [by |-> by, doc |-> n, task |-> t, transition |-> id,
                       from |-> transition.from, to |-> transition.to, status |-> "prepared"]
           new == [Idle EXCEPT !.pc = "moving", !.doc = n, !.j = Len(journals) + 1]
<1>t. TypeOK /\ journals \in Seq(Journals) /\ Len(journals) \in Nat
  BY LenProperties DEF TypeInv, TypeOK
<1>1. journal \in Journals
  BY TransitionTyped DEF Journals
<1>2. journals' = Append(journals, journal) /\ Len(journals) < MaxJournals
  BY DEF Prepares
<1>3. agent' = [agent EXCEPT ![a] = new]
  BY DEF Prepares
<1>4. new \in Doings /\ new.pc = "moving" /\ new.j = Len(journals) + 1
  <2>1. Len(journals) + 1 \in 0..MaxJournals
    BY <1>t, <1>2, BoundAssumption
  <2> QED
    BY <2>1, IdleTyped DEF Doings, Idle
<1> HIDE DEF journal, new, transition
<1>5. /\ journals' \in Seq(Journals) /\ Len(journals') = Len(journals) + 1
      /\ \A i \in 1..Len(journals) : journals'[i] = journals[i]
      /\ DOMAIN journals' = 1..(Len(journals) + 1) /\ DOMAIN journals = 1..Len(journals)
  BY <1>t, <1>1, <1>2, AppendProperties, LenProperties
<1>6. agent' \in [Agents -> Doings] /\ agent'[a] = new
      /\ \A b \in Agents : b # a => agent'[b] = agent[b]
  BY <1>3, <1>4, <1>t DEF TypeOK
<1>7. DOMAIN journals \subseteq DOMAIN journals' /\ Len(journals) + 1 \in DOMAIN journals'
  BY <1>t, <1>5
<1>8. ASSUME NEW b \in Agents
      PROVE  agent'[b].j \in (IF agent'[b].pc \in {"idle", "working"}
                              THEN {0} ELSE DOMAIN journals')
  BY <1>t, <1>4, <1>6, <1>7 DEF TypeOK
<1>9. TypeOK'
  <2>1. Len(journals') <= MaxJournals
    BY <1>t, <1>2, <1>5, BoundAssumption
  <2> QED
    BY <1>t, <1>5, <1>6, <1>8, <2>1 DEF TypeOK
<1>10. Scheduled'
  BY <1>4, <1>6 DEF TypeInv, Scheduled, On, Def, Agents
<1>11. ASSUME NEW b \in Agents, b # a, agent[b].pc \in {"placing", "validating"}
       PROVE  JournalOf(b)' = JournalOf(b) /\ Target(b)' = Target(b) /\ Def(b)' = Def(b)
  <2>1. agent[b].j \in 1..Len(journals)
    BY <1>11, <1>t, AtWork
  <2> QED
    BY <1>5, <1>6, <1>11, <2>1 DEF JournalOf, Target, Def
<1>12. AsRead'
  BY <1>4, <1>6, <1>11 DEF TypeInv, AsRead, On
<1> QED
  BY <1>9, <1>10, <1>12 DEF TypeInv

-----------------------------------------------------------------------------
(* The steps.                                                               *)

LEMMA BoardStays ==
  ASSUME TypeInv, UNCHANGED <<workflow, board, notes>>, troubles' \in 0..MaxTroubles
  PROVE  BoardTyped'
  BY DEF TypeInv, TypeOK, BoardTyped

LEMMA AcceptedStays ==
  ASSUME TypeInv, UNCHANGED accepted PROVE AcceptedTyped'
  BY DEF TypeInv, TypeOK, AcceptedTyped

LEMMA RequestsTyped ==
  ASSUME TypeInv, NEW t \in Tasks, NEW id, Requests(t, id) PROVE TypeInv'
  BY PreparesTyped DEF Requests, Agents

LEMMA SchedulesTyped ==
  ASSUME TypeInv, NEW t \in Tasks, NEW id \in TransitionIds, Schedules(t, id) PROVE TypeInv'
<1> DEFINE new == [Idle EXCEPT !.pc = "working", !.doc = workflow, !.job = <<t, id>>]
<1>1. workflow \in Usable /\ id \in DOMAIN Definitions[workflow].transitions
      /\ agent' = [agent EXCEPT !["daemon"] = new]
      /\ UNCHANGED <<workflow, board, notes, journals, accepted, troubles>>
  BY DEF Schedules
<1>2. new \in Doings /\ new.pc = "working" /\ new.j = 0 /\ new.job = <<t, id>>
      /\ new.doc = workflow /\ <<t, id>> \in Jobs
  BY <1>1, IdleTyped DEF Doings, Idle, Jobs
<1> HIDE DEF new
<1>3. agent' \in [Agents -> Doings] /\ agent'["daemon"] = new
      /\ \A b \in Agents : b # "daemon" => agent'[b] = agent[b]
  BY <1>1, <1>2 DEF TypeInv, TypeOK, Agents
<1>4. TypeOK'
  BY <1>1, <1>2, <1>3 DEF TypeInv, TypeOK
<1>5. Scheduled'
  BY <1>1, <1>2, <1>3 DEF Scheduled, Def
<1>6. AsRead'
  BY <1>1, <1>2, <1>3 DEF TypeInv, AsRead, On, Def, JournalOf, Target
<1> QED
  BY <1>4, <1>5, <1>6 DEF TypeInv

LEMMA AcceptsTyped ==
  ASSUME TypeInv, Accepts PROVE TypeInv'
<1> DEFINE t == agent["daemon"].job[1]
           id == agent["daemon"].job[2]
<1>1. t \in Tasks /\ id \in DOMAIN Def("daemon").transitions
  BY DEF TypeInv, Scheduled, Accepts, Jobs
<1>2. agent["daemon"].doc \in Usable
  BY DEF TypeInv, TypeOK, Agents, Doings
<1> QED
  BY <1>1, <1>2, PreparesTyped DEF Accepts, Agents, Def

LEMMA RejectsTyped ==
  ASSUME TypeInv, Rejects PROVE TypeInv'
<1>1. SameJournals
  BY SameByStuttering DEF Rejects, TypeInv
<1>2. BoardTyped' /\ AcceptedTyped'
  BY BoardStays, AcceptedStays DEF Rejects, TypeInv, TypeOK
<1> QED
  BY <1>1, <1>2, StopsTyped DEF Rejects, Agents

LEMMA ReadsVaultTyped ==
  ASSUME TypeInv, NEW a \in Agents, ReadsVault(a) PROVE TypeInv'
<1>1. /\ agent[a].pc = "moving" /\ MayMove(Def(a), board, JournalOf(a).task, Target(a))
      /\ UNCHANGED <<workflow, board, journals, accepted, troubles>>
  BY DEF ReadsVault, On
<1>2. JournalOf(a).task \in Tasks /\ Target(a) \in States /\ agent[a].j \in DOMAIN journals
  BY <1>1, AtWork DEF TypeInv
<1>3. SameJournals /\ AcceptedTyped'
  BY <1>1, SameByStuttering, AcceptedStays DEF TypeInv
<1>4. BoardTyped'
  BY <1>1, <1>2 DEF ReadsVault, TypeInv, TypeOK, BoardTyped
<1>5. CASE Stops(a)
  BY <1>3, <1>4, <1>5, StopsTyped
<1>6. ASSUME NEW pc \in {"placing", "validating"},
             agent' = [agent EXCEPT ![a].read = board, ![a].pc = pc]
      PROVE  TypeInv'
  <2> DEFINE new == [agent[a] EXCEPT !.read = board, !.pc = pc]
  <2>1. agent[a] \in Doings /\ board \in Boards
    BY DEF TypeInv, TypeOK
  <2>2. new \in Doings /\ new.pc = pc /\ new.j = agent[a].j /\ new.read = board
        /\ new.doc = agent[a].doc /\ new.back = agent[a].back
    BY <2>1 DEF Doings
  <2>3. agent' = [agent EXCEPT ![a] = new]
    BY <1>6 DEF TypeInv, TypeOK
  <2> HIDE DEF new
  <2>4. MayMove(Definitions[new.doc], new.read, journals[new.j].task,
                IF new.back THEN journals[new.j].from ELSE journals[new.j].to)
    BY <1>1, <2>2 DEF Def, JournalOf, Target
  <2> QED
    BY <1>2, <1>3, <1>4, <2>2, <2>3, <2>4, AgentMoves
<1> QED
  BY <1>5, <1>6 DEF ReadsVault

LEMMA WritesBoardTyped ==
  ASSUME TypeInv, NEW a \in Agents, WritesBoard(a) PROVE TypeInv'
<1>1. /\ agent[a].pc = "placing" /\ Moved(a)
      /\ board' = Rewritten(Def(a), board, agent[a].read, JournalOf(a).task, Target(a))
      /\ UNCHANGED <<workflow, notes, journals, accepted, troubles>>
  BY DEF WritesBoard, On
<1>2. /\ JournalOf(a).task \in Tasks /\ agent[a].j \in DOMAIN journals
      /\ agent[a].read \in Boards /\ agent[a] \in Doings
  BY <1>1, AtWork DEF TypeInv, TypeOK
<1>3. MayMove(Def(a), agent[a].read, JournalOf(a).task, Target(a))
  BY <1>1 DEF TypeInv, AsRead, On
<1>4. board' \in Boards
  BY <1>1, <1>2, <1>3, RewrittenTyped DEF MayMove, TypeInv, TypeOK
<1>5. SameJournals /\ AcceptedTyped' /\ BoardTyped'
  BY <1>1, <1>4, SameByStuttering, AcceptedStays DEF TypeInv, TypeOK, BoardTyped
<1>6. CASE Stops(a)
  BY <1>5, <1>6, StopsTyped
<1>7. CASE Goes(a, "validating")
  <2> DEFINE new == [agent[a] EXCEPT !.pc = "validating"]
  <2>1. new \in Doings /\ new.pc = "validating" /\ new.j = agent[a].j
        /\ new.read = agent[a].read /\ new.doc = agent[a].doc /\ new.back = agent[a].back
    BY <1>2 DEF Doings
  <2>2. agent' = [agent EXCEPT ![a] = new]
    BY <1>7 DEF Goes, TypeInv, TypeOK
  <2> HIDE DEF new
  <2>3. MayMove(Definitions[new.doc], new.read, journals[new.j].task,
                IF new.back THEN journals[new.j].from ELSE journals[new.j].to)
    BY <1>3, <2>1 DEF Def, JournalOf, Target
  <2> QED
    BY <1>2, <1>5, <2>1, <2>2, <2>3, AgentMoves
<1> QED
  BY <1>1, <1>6, <1>7 DEF Moved

(* A move that is not made, because it may not be or because the write      *)
(* fails.                                                                   *)
LEMMA NotMovedTyped ==
  ASSUME TypeInv, NEW a \in Agents, agent[a].pc = "moving", troubles' \in 0..MaxTroubles,
         IF agent[a].back THEN Stops(a) /\ UNCHANGED journals ELSE Fails(a, FALSE),
         UNCHANGED <<workflow, board, notes, accepted>>
  PROVE  TypeInv'
<1>1. BoardTyped' /\ AcceptedTyped'
  BY BoardStays, AcceptedStays
<1>2. CASE agent[a].back
  BY <1>1, <1>2, SameByStuttering, StopsTyped DEF TypeInv
<1>3. CASE ~agent[a].back
  BY <1>1, <1>3, FailsTyped
<1> QED
  BY <1>2, <1>3

LEMMA TroubleTyped == TypeInv /\ Trouble => troubles' \in 0..MaxTroubles
  BY BoundAssumption DEF TypeInv, TypeOK, Trouble

LEMMA ValidatedTyped ==
  ASSUME TypeInv, NEW a \in Agents, Validated(a) PROVE TypeInv'
<1>1. /\ agent[a].pc = "validating" /\ UNCHANGED <<workflow, board, notes, accepted, troubles>>
  BY DEF Validated, On
<1>2. BoardTyped' /\ AcceptedTyped'
  BY <1>1, BoardStays, AcceptedStays DEF TypeInv, TypeOK
<1>3. CASE Fails(a, TRUE)
  BY <1>1, <1>2, <1>3, FailsTyped
<1>4. CASE /\ agent' = [agent EXCEPT ![a].pc = "committing", ![a].read = NoBoard]
           /\ UNCHANGED journals
  <2> DEFINE new == [agent[a] EXCEPT !.pc = "committing", !.read = NoBoard]
  <2>1. agent[a] \in Doings /\ agent[a].j \in DOMAIN journals
    BY <1>1 DEF TypeInv, TypeOK
  <2>2. new \in Doings /\ new.pc = "committing" /\ new.j = agent[a].j
    BY <2>1 DEF Doings, NoBoard, Boards
  <2>3. agent' = [agent EXCEPT ![a] = new]
    BY <1>4 DEF TypeInv, TypeOK
  <2>4. SameJournals
    BY <1>4, SameByStuttering DEF TypeInv
  <2> HIDE DEF new
  <2> QED
    BY <1>2, <2>1, <2>2, <2>3, <2>4, AgentMoves
<1> QED
  BY <1>3, <1>4 DEF Validated

LEMMA CommitsTyped ==
  ASSUME TypeInv, NEW a \in Agents, Commits(a) PROVE TypeInv'
<1>1. /\ agent[a].pc = "committing" /\ Stops(a) /\ SetStatus(a, "committed")
      /\ UNCHANGED <<workflow, board, notes, troubles>>
  BY DEF Commits, On
<1>2. SameJournals /\ JournalOf(a) \in Journals
  BY <1>1, SetStatusTyped, AtWork DEF TypeInv
<1>3. BoardTyped'
  BY <1>1, BoardStays DEF TypeInv, TypeOK
<1>4. AcceptedTyped'
  BY <1>2 DEF Commits, TypeInv, TypeOK, AcceptedTyped, Journals
<1> QED
  BY <1>1, <1>2, <1>3, <1>4, StopsTyped

LEMMA MovesTyped ==
  ASSUME TypeInv, NEW a \in Agents, Moves(a) PROVE TypeInv'
<1>1. CASE Refused(a)
  BY <1>1, NotMovedTyped DEF Refused, On, TypeInv, TypeOK
<1>2. CASE WriteFails(a)
  BY <1>2, NotMovedTyped, TroubleTyped DEF WriteFails, On
<1>3. CASE AppendFails(a)
  <2>1. BoardTyped'
    BY <1>3, BoardStays, TroubleTyped DEF AppendFails
  <2> QED
    BY <1>3, <2>1, FailsTyped DEF AppendFails, On
<1> QED
  BY <1>1, <1>2, <1>3, ReadsVaultTyped, WritesBoardTyped, ValidatedTyped, CommitsTyped DEF Moves

LEMMA TakesUpTyped ==
  ASSUME TypeInv, NEW i \in DOMAIN journals, TakesUp(i) PROVE TypeInv'
<1> DEFINE d == Definitions[workflow]
           new == [Idle EXCEPT !.doc = workflow, !.j = i, !.read = board,
                       !.pc = IF InState(d, board, journals[i].task, journals[i].to)
                              THEN "validating" ELSE "moving"]
<1>1. workflow \in Usable /\ agent' = [agent EXCEPT !["recovery"] = new]
      /\ UNCHANGED <<workflow, board, notes, journals, accepted, troubles>>
  BY DEF TakesUp
<1>2. i \in 1..Len(journals) /\ Len(journals) <= MaxJournals /\ Len(journals) \in Nat
  BY LenProperties DEF TypeInv, TypeOK
<1>3. i \in 0..MaxJournals
  BY <1>2, BoundAssumption
<1>4. /\ new \in Doings /\ new.j = i /\ new.read = board /\ new.doc = workflow
      /\ new.back = FALSE /\ new.pc \in {"validating", "moving"}
      /\ new.pc = "validating" => InState(d, board, journals[i].task, journals[i].to)
  BY <1>1, <1>3, IdleTyped DEF Doings, Idle, TypeInv, TypeOK
<1> HIDE DEF new
<1>5. SameJournals /\ BoardTyped' /\ AcceptedTyped'
  BY <1>1, SameByStuttering, BoardStays, AcceptedStays DEF TypeInv, TypeOK
<1>6. new.pc # "working" /\ new.pc # "idle" /\ new.pc # "placing" /\ new.j \in DOMAIN journals
  BY <1>4
<1>7. new.pc = "validating" => InState(Definitions[new.doc], new.read, journals[new.j].task,
                                       IF new.back THEN journals[new.j].from
                                                   ELSE journals[new.j].to)
  BY <1>4
<1> QED
  BY <1>1, <1>4, <1>5, <1>6, <1>7, AgentMoves DEF Agents

LEMMA FixerTyped ==
  ASSUME TypeInv, FixerRepairs PROVE TypeInv'
<1> DEFINE d == Definitions[workflow]
<1>1. PICK plan \in RepairPlans(d, board, notes) :
          notes' = [t \in Tasks |-> IF plan[t] = Absent THEN notes[t] ELSE plan[t]]
  BY DEF FixerRepairs
<1>2. workflow \in Usable /\ UNCHANGED <<workflow, board, journals, accepted, agent, troubles>>
  BY DEF FixerRepairs
<1>3. ASSUME NEW t \in Tasks, plan[t] # Absent
      PROVE  plan[t] \in States
  <2>1. PICK place : plan[t] = StateAt(d, place)
    BY <1>1, <1>3 DEF RepairPlans
  <2> QED
    BY <1>2, <1>3, <2>1, StateAtTyped
<1>4. notes' \in [Tasks -> States]
  BY <1>1, <1>3 DEF TypeInv, TypeOK
<1> QED
  BY <1>2, <1>4, OthersMove DEF TypeInv, TypeOK, BoardTyped

LEMMA InitTyped == Init => TypeInv
<1> SUFFICES ASSUME Init PROVE TypeInv
  OBVIOUS
<1> DEFINE d == Definitions[FirstDocument]
<1>1. FirstState \in States
  <2> DEFINE same == {i \in DOMAIN d.mappings : d.mappings[i].state = FirstState}
  <2>1. same # {}
    BY FirstAssumption, ColumnsAssumption DEF PlaceOf
  <2>2. PICK i \in DOMAIN d.mappings : d.mappings[i].state = FirstState
    BY <2>1
  <2> QED
    BY <2>2, FirstAssumption, MappingFacts DEF States
<1>2. board \in Boards /\ notes \in [Tasks -> States] /\ FirstDocument \in Names
  BY <1>1, FirstAssumption, MappingFacts DEF Init, Boards
<1>3. journals = << >> /\ journals \in Seq(Journals) /\ Len(journals) = 0
  BY DEF Init
<1>4. agent \in [Agents -> Doings] /\ \A a \in Agents : agent[a] = Idle
  BY IdleTyped DEF Init
<1>5. Idle.pc = "idle" /\ Idle.j = 0
  BY DEF Idle
<1>6. TypeOK
  BY <1>2, <1>3, <1>4, <1>5, BoundAssumption DEF Init, TypeOK
<1> QED
  BY <1>4, <1>5, <1>6 DEF TypeInv, Scheduled, AsRead, On, Agents

LEMMA NextTyped == TypeInv /\ [Next]_vars => TypeInv'
<1> SUFFICES ASSUME TypeInv, [Next]_vars PROVE TypeInv'
  OBVIOUS
<1>1. ASSUME NEW t \in Tasks, NEW id \in TransitionIds, Requests(t, id) \/ Schedules(t, id)
      PROVE  TypeInv'
  BY <1>1, RequestsTyped, SchedulesTyped
<1>2. ASSUME NEW a \in Agents, Dies(a)
      PROVE  TypeInv'
  <2>1. SameJournals /\ BoardTyped' /\ AcceptedTyped'
    BY <1>2, SameByStuttering, BoardStays, AcceptedStays, TroubleTyped DEF Dies, TypeInv
  <2> QED
    BY <1>2, <2>1, StopsTyped DEF Dies
<1>3. ASSUME NEW t \in Tasks, NEW cards \in SUBSET Columns, UserMoves(t, cards)
      PROVE  TypeInv'
  <2>1. board' \in Boards /\ BoardTyped'
    BY <1>3, TroubleTyped DEF UserMoves, TypeInv, TypeOK, Boards, BoardTyped
  <2> QED
    BY <1>3, <2>1, OthersMove DEF UserMoves
<1>4. ASSUME NEW n \in Names, UserRewrites(n)
      PROVE  TypeInv'
  <2>1. BoardTyped'
    BY <1>4, TroubleTyped DEF UserRewrites, TypeInv, TypeOK, BoardTyped
  <2> QED
    BY <1>4, <2>1, OthersMove DEF UserRewrites
<1>5. CASE UNCHANGED vars
  BY <1>5, OthersMove DEF vars, TypeInv, TypeOK, BoardTyped
<1>6. CASE Next
  BY <1>1, <1>2, <1>3, <1>4, <1>6, AcceptsTyped, RejectsTyped, MovesTyped, TakesUpTyped,
     FixerTyped DEF Next
<1> QED
  BY <1>5, <1>6

(* The journals, the board and what each program works on keep their shape, *)
(* whatever the workflow files say.                                         *)
THEOREM Typed == Spec => []TypeOK
<1>1. TypeInv => TypeOK
  BY DEF TypeInv
<1> QED
  BY <1>1, InitTyped, NextTyped, PTL DEF Spec

(* Whatever definition a task is moved by, the board that the move makes of *)
(* the one it has read is read back as the state it was moved to            *)
(* (obsidian.py move_task against _load; compiler.py _validate_storage_refs). *)
THEOREM ReadBack == Spec => []WrittenIsReadBack
<1>1. TypeInv => WrittenIsReadBack
  <2> SUFFICES ASSUME TypeInv, NEW a \in Agents, On(a, "validating"),
                      \A m \in Range(Def(a).mappings) : TextMapping(m),
                      board = Rewritten(Def(a), agent[a].read, agent[a].read,
                                        JournalOf(a).task, Target(a))
               PROVE  InState(Def(a), board, JournalOf(a).task, Target(a))
    BY DEF WrittenIsReadBack
  <2>1. /\ JournalOf(a).task \in Tasks /\ agent[a].doc \in Usable /\ agent[a].read \in Boards
    BY AtWork DEF On, TypeInv
  <2>2. \/ MayMove(Def(a), agent[a].read, JournalOf(a).task, Target(a))
        \/ InState(Def(a), agent[a].read, JournalOf(a).task, Target(a))
    BY DEF TypeInv, AsRead
  <2> QED
    BY <2>1, <2>2, MoveIsReadBack DEF Def
<1> QED
  BY <1>1, InitTyped, NextTyped, PTL DEF Spec
==============================================================================
