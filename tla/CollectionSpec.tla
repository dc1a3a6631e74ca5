--------------------------- MODULE CollectionSpec ---------------------------
(***************************************************************************)
(* What one run of the collection generator promises, as a single step:   *)
(* given an examples directory, a devkit and a role, it finishes having    *)
(* written nothing when no example file is matched to an action, and       *)
(* otherwise exactly one collection: a folder per action of the role, in   *)
(* sorted order, for the actions with at least one loadable example; in    *)
(* each folder the requests built from those examples in path order; the   *)
(* role's variables and the pre-request event.  Nothing in it depends on   *)
(* the order the file system lists entries in.                             *)
(***************************************************************************)
EXTENDS PostmanCollection

CONSTANTS
    Devkits,         \* the devkits a run may be given
    ExampleDirs(_)   \* ExampleDirs(structure): the directories of that layout

VARIABLES
    examples,   \* the examples directory of the run
    devkit,     \* --devkit
    role,       \* --role
    output,     \* the set of collections written: {} or one
    finished    \* generate_collection has returned

absVars == <<examples, devkit, role, output, finished>>

Structure == DevkitStructure[devkit]

\* the action a file is filed under, or None: in the folders layout the
\* action of its folder (a file directly under the root is skipped); in the
\* flat layout the action of its name, for files directly under the root
ActionOfFile(p) ==
    LET f == examples.files[p] IN
    IF Structure = "folders"
    THEN IF f.dir = Root THEN None
         ELSE AC!ExtractActionFromFolder(examples.folders[f.dir], role)
    ELSE IF f.dir = Root THEN AC!Classify(f.name, role, "flat") ELSE None

Matched ==
    IF examples.exists THEN {p \in DOMAIN examples.files : ActionOfFile(p) # None}
    ELSE {}

\* the loadable examples of action a, in path order
Examples(a) ==
    SetToSortSeq({p \in Matched : ActionOfFile(p) = a
                                  /\ LoadExampleJson(examples.files[p].content) # NoData},
                 <)

Request(p, a) ==
    CreatePostmanRequest(examples.files[p].content, a, a,
                         GetRequestName(examples.files[p].name), AdapterUrlVar(role))

FolderActions == SortedActions({a \in AC!ActionMapping(role) : Examples(a) # <<>>})

Collection ==
    [item     |-> [i \in 1..Len(FolderActions) |->
                     LET a == FolderActions[i] IN
                     [name |-> a,
                      item |-> [j \in 1..Len(Examples(a)) |-> Request(Examples(a)[j], a)]]],
     variable |-> GetCollectionVariables(devkit, role),
     event    |-> <<PreRequestEvent>>]

Init ==
    /\ devkit \in Devkits
    /\ role \in AC!Roles
    /\ examples \in ExampleDirs(Structure)
    /\ output = {}
    /\ finished = FALSE

Generate ==
    /\ ~finished
    /\ finished' = TRUE
    /\ output' = IF Matched = {} THEN {} ELSE {Collection}
    /\ UNCHANGED <<examples, devkit, role>>

Next == Generate
Spec == Init /\ [][Next]_absVars

=============================================================================
