--------------------------- MODULE SourceSelection ---------------------------
(***************************************************************************)
(* Which files of a tree are source: the one rule of                       *)
(* runtime/repository_facts.py that the baseline, the workspace, the       *)
(* sealed candidate, the verification and the integration target apply.    *)
(*                                                                         *)
(* A tree gives each path a content; contents are compared and never       *)
(* looked into, so a content is the author and the number of a write, and  *)
(* a mode is part of it.  Paths in the reserved namespaces (.git and       *)
(* .open-tulid), which no tree below delivers, are not paths here.         *)
(***************************************************************************)
EXTENDS Integers, Sequences, SequencesExt

CONSTANTS
    Order,       \* the paths, in the order in which a walk visits them
    Caches,      \* paths under a declared cache directory
    Dropped,     \* paths under the names a verification copy leaves out
    IgnoreFile,  \* the .gitignore of the repository
    Ignorable,   \* what its first content ignores; a later one ignores nothing
    LockFiles,   \* files with the name of a dependency manifest or lock
    MaxWrites    \* bound on the writes of one author

Paths == ToSet(Order)

ASSUME PathsAssumption ==
    /\ Order \in Seq(Paths) /\ IsInjective(Order)
    /\ IgnoreFile \in Paths
    /\ Caches \subseteq Paths \ {IgnoreFile} /\ Dropped \subseteq Caches
    /\ Ignorable \subseteq Paths \ {IgnoreFile}
    /\ LockFiles \subseteq Paths
    /\ MaxWrites \in Nat

Absent == <<"none", 0>>
Original == <<"base", 0>>
Contents == {Absent, Original} \cup {"worker", "user", "check"} \X (1..MaxWrites)

Trees == [Paths -> Contents]
Empty == [p \in Paths |-> Absent]

Selections == [git : BOOLEAN, tracked : SUBSET Paths, ignored : SUBSET Paths]

(* _read_ignore_files and the matcher: what the tree's own .gitignore       *)
(* excludes.                                                                *)
Layer(tree) == IF tree[IgnoreFile] = Original THEN Ignorable ELSE {}

(* The rule of a tree without .git.                                         *)
NonGit == [git |-> FALSE, tracked |-> {}, ignored |-> {}]

(* discover_source_selection of a checkout with this index.                 *)
Discover(tree, tracked) == [git |-> TRUE, tracked |-> tracked, ignored |-> Layer(tree)]

(* git may fail, or need more than its ten seconds: a rev-parse without an  *)
(* answer makes the checkout a tree without .git, an ls-files without one   *)
(* leaves it without tracked paths.                                         *)
DiscoverSilent(tree) == {NonGit, Discover(tree, {})}

(* The frozen index travels; the ignore layers are those of the tree.       *)
Refresh(sel, tree) == IF sel.git THEN [sel EXCEPT !.ignored = Layer(tree)] ELSE sel

IgnoredByRule(sel) == Caches \cup sel.ignored

(* A tracked file is source under any name; another one unless it is in a   *)
(* declared cache or, in a checkout, ignored.                               *)
Selected(sel) == sel.tracked \cup (Paths \ IgnoredByRule(sel))

Deliverable(tree, sel) == {p \in Selected(sel) : tree[p] # Absent}

(* capture_deliverable_manifest; manifests are compared by the digest of    *)
(* their entries, paths and contents.                                       *)
Manifest(tree, sel) == [p \in Paths |-> IF p \in Selected(sel) THEN tree[p] ELSE Absent]

SamePaths(a, b) == {p \in Paths : a[p] # Absent} = {p \in Paths : b[p] # Absent}

SameManifest(a, b) == a = b

Tracked(head) == {p \in Paths : head[p] # Absent}

(* git status --porcelain --untracked-files=all                             *)
Dirty(tree, head) ==
    \E p \in Paths :
        IF p \in Tracked(head) THEN tree[p] # head[p]
        ELSE tree[p] # Absent /\ p \notin Layer(tree)

(* git check-ignore is silent about a tracked path.                         *)
Committable(tree, head, paths) == {p \in paths : p \in Tracked(head) \/ p \notin Layer(tree)}

(* The authoritative change set of a candidate.                             *)
Delta(before, after) ==
    [add    |-> {p \in Paths : before[p] = Absent /\ after[p] # Absent},
     delete |-> {p \in Paths : before[p] # Absent /\ after[p] = Absent},
     edit   |-> {p \in Paths : /\ before[p] # Absent /\ after[p] # Absent
                               /\ before[p] # after[p]}]

Changes == [add : SUBSET Paths, delete : SUBSET Paths, edit : SUBSET Paths]

(* The path of a set that a walk meets first.                               *)
IsFirst(p, S) ==
    \E i \in DOMAIN Order :
        /\ Order[i] = p /\ p \in S
        /\ \A k \in 1..(i - 1) : Order[k] \notin S

(* capture_lockfile_identity walks by the rule for trees without .git.      *)
Locks(tree) == [p \in LockFiles \cap Selected(NonGit) |-> tree[p]]
=============================================================================
