------------------------- MODULE CollectionGenerator -------------------------
(***************************************************************************)
(* One run of scripts/generate_postman_collection.py, step by step:        *)
(* scan_examples_directory (the file system lists entries in any order),   *)
(* the folder loop of generate_collection over the sorted actions and the  *)
(* request loop over each action's sorted files, the write of the          *)
(* collection, and the schema validation main runs afterwards.             *)
(***************************************************************************)
EXTENDS PostmanCollection, FiniteSets

CONSTANTS
    Devkits,         \* the devkits a run may be given (--devkit)
    ExampleDirs(_)   \* ExampleDirs(structure): the directories of that layout

VARIABLES
    examples,     \* the examples directory (read only)
    devkit,       \* --devkit
    role,         \* --role
    phase,        \* "scan", "build", "validate" or "done"
    pending,      \* directory entries the scan has not reached yet
    actionsMap,   \* actions_map: action -> paths, in the order scanned
    todo,         \* all_actions not yet processed by the folder loop
    inAction,     \* the request loop of Head(todo) is running
    files,        \* the sorted files of Head(todo) not yet processed
    actionItems,  \* action_items: the requests built for Head(todo)
    items,        \* collection_items: the folders built so far
    output,       \* the collections written to output_path: {} or one
    validation    \* what main's validation step did

vars == <<examples, devkit, role, phase, pending, actionsMap, todo, inAction,
          files, actionItems, items, output, validation>>

Structure == DevkitStructure[devkit]

\* the entries examples_dir.iterdir() (folders layout) or
\* examples_dir.glob("*.json") (flat layout) yields
Entry(kind, id) == [kind |-> kind, id |-> id]
Entries(ex, structure) ==
    LET rootFiles == {Entry("file", p) : p \in {q \in DOMAIN ex.files : ex.files[q].dir = Root}}
    IN IF structure = "folders"
       THEN {Entry("dir", f) : f \in DOMAIN ex.folders} \cup rootFiles
       ELSE rootFiles

\* item.glob("*.json") of a folder
FilesIn(f) == {p \in DOMAIN examples.files : examples.files[p].dir = f}

\* mutant: the key is created before the loop over the folder's files
AddToActionsMapEagerKey(m, action, s) ==
    IF action \in DOMAIN m THEN [m EXCEPT ![action] = @ \o s]
    ELSE m @@ (action :> s)

\* append the paths s to actions_map[action], creating the key with the
\* first file: a folder without files adds no key
AddToActionsMap(m, action, s) ==
    IF s = <<>> THEN m
    ELSE IF action \in DOMAIN m THEN [m EXCEPT ![action] = @ \o s]
    ELSE m @@ (action :> s)

NoValidation == [outcome |-> "none", target |-> "none"]

Init ==
    /\ devkit \in Devkits
    /\ role \in AC!Roles
    /\ examples \in ExampleDirs(Structure)
    /\ phase = "scan"
    \* a missing examples_dir is reported and scanned as empty
    /\ pending = IF examples.exists THEN Entries(examples, Structure) ELSE {}
    /\ actionsMap = <<>>
    /\ todo = <<>>
    /\ inAction = FALSE
    /\ files = <<>>
    /\ actionItems = <<>>
    /\ items = <<>>
    /\ output = {}
    /\ validation = NoValidation

-----------------------------------------------------------------------------
(* scan_examples_directory                                                  *)

\* folders layout, one entry of iterdir(): a non-directory is skipped; a
\* folder whose name gives no action is skipped; otherwise its files, in
\* the order glob lists them, are appended under its action
ScanFolderEntry ==
    /\ phase = "scan" /\ Structure = "folders"
    /\ \E e \in pending :
         /\ pending' = pending \ {e}
         /\ LET action == IF e.kind = "dir"
                          THEN AC!ExtractActionFromFolder(examples.folders[e.id], role)
                          ELSE None
            IN IF action = None THEN UNCHANGED actionsMap
               ELSE \E order \in SetToSeqs(FilesIn(e.id)) :
                      actionsMap' = AddToActionsMap(actionsMap, action, order)
    /\ UNCHANGED <<examples, devkit, role, phase, todo, inAction, files,
                   actionItems, items, output, validation>>

\* flat layout, one file of glob("*.json"): kept when it passes the role
\* filter and its name gives an action
ScanFlatFile ==
    /\ phase = "scan" /\ Structure = "flat"
    /\ \E e \in pending :
         /\ pending' = pending \ {e}
         /\ LET action == AC!Classify(examples.files[e.id].name, role, "flat") IN
            actionsMap' = IF action = None THEN actionsMap
                          ELSE AddToActionsMap(actionsMap, action, <<e.id>>)
    /\ UNCHANGED <<examples, devkit, role, phase, todo, inAction, files,
                   actionItems, items, output, validation>>

\* `if not actions_map`: "No valid examples found. Exiting."; the function
\* returns None without writing
NoExamples ==
    /\ phase = "scan" /\ pending = {} /\ DOMAIN actionsMap = {}
    /\ phase' = "validate"
    /\ UNCHANGED <<examples, devkit, role, pending, actionsMap, todo, inAction,
                   files, actionItems, items, output, validation>>

\* all_actions: the scanned actions and the role's actions, sorted
EndScan ==
    /\ phase = "scan" /\ pending = {} /\ DOMAIN actionsMap # {}
    /\ phase' = "build"
    /\ todo' = SortedActions(DOMAIN actionsMap \cup AC!ActionMapping(role))
    /\ UNCHANGED <<examples, devkit, role, pending, actionsMap, inAction, files,
                   actionItems, items, output, validation>>

-----------------------------------------------------------------------------
(* The loops of generate_collection                                         *)

\* mutant: files_list taken in the order the scan appended it
SortedFilesAsScanned(s) == s

\* sorted(files_list): the (path, request_name) pairs of an action in
\* path order
SortedFiles(s) == SetToSortSeq(Range(s), <)

\* `for action in all_actions`: an action outside action_mapping is
\* skipped; otherwise its files, sorted, are taken up
StartAction ==
    /\ phase = "build" /\ ~inAction /\ todo # <<>>
    /\ LET action == Head(todo) IN
       IF action \in AC!ActionMapping(role)
       THEN /\ inAction' = TRUE
            /\ files' = IF action \in DOMAIN actionsMap
                        THEN SortedFiles(actionsMap[action])
                        ELSE <<>>
            /\ UNCHANGED todo
       ELSE /\ todo' = Tail(todo)
            /\ UNCHANGED <<inAction, files>>
    /\ UNCHANGED <<examples, devkit, role, phase, pending, actionsMap,
                   actionItems, items, output, validation>>

\* load_example_json returns None: the file is skipped
SkipUnloadable ==
    /\ inAction /\ files # <<>>
    /\ LoadExampleJson(examples.files[Head(files)].content) = NoData
    /\ files' = Tail(files)
    /\ UNCHANGED <<examples, devkit, role, phase, pending, actionsMap, todo,
                   inAction, actionItems, items, output, validation>>

\* the file loads: create_postman_request and append to action_items
BuildRequest ==
    /\ inAction /\ files # <<>>
    /\ LET f == examples.files[Head(files)]
           data == LoadExampleJson(f.content)
           action == Head(todo)
       IN /\ data # NoData
          /\ actionItems' = Append(actionItems,
                 CreatePostmanRequest(data, action, action, GetRequestName(f.name),
                                      AdapterUrlVar(role)))
    /\ files' = Tail(files)
    /\ UNCHANGED <<examples, devkit, role, phase, pending, actionsMap, todo,
                   inAction, items, output, validation>>

\* the folder is created only if it has requests
EndAction ==
    /\ inAction /\ files = <<>>
    /\ items' = IF actionItems # <<>>
                THEN Append(items, [name |-> Head(todo), item |-> actionItems])
                ELSE items
    /\ actionItems' = <<>>
    /\ inAction' = FALSE
    /\ todo' = Tail(todo)
    /\ UNCHANGED <<examples, devkit, role, phase, pending, actionsMap, files,
                   output, validation>>

\* build the collection and json.dump it to output_path
WriteCollection ==
    /\ phase = "build" /\ ~inAction /\ todo = <<>>
    /\ output' = {[item     |-> items,
                   variable |-> GetCollectionVariables(devkit, role),
                   event    |-> <<PreRequestEvent>>]}
    /\ phase' = "validate"
    /\ UNCHANGED <<examples, devkit, role, pending, actionsMap, todo, inAction,
                   files, actionItems, items, validation>>

-----------------------------------------------------------------------------
(* main, after generate_collection returns output_path (None when nothing  *)
(* was written).  Which branch runs depends on --validate/--no-validate    *)
(* and on whether validate_schema could be imported.                       *)

ValidationSkipped ==    \* --no-validate
    /\ phase = "validate"
    /\ phase' = "done"
    /\ validation' = [outcome |-> "skipped", target |-> "none"]
    /\ UNCHANGED <<examples, devkit, role, pending, actionsMap, todo, inAction,
                   files, actionItems, items, output>>

ValidatorUnavailable == \* get_schema_store is None: a warning
    /\ phase = "validate"
    /\ phase' = "done"
    /\ validation' = [outcome |-> "unavailable", target |-> "none"]
    /\ UNCHANGED <<examples, devkit, role, pending, actionsMap, todo, inAction,
                   files, actionItems, items, output>>

\* process_file(str(output_path)): passes, or raises and is reported as a
\* warning; output_path is None when generate_collection wrote nothing
RunValidation ==
    /\ phase = "validate"
    /\ phase' = "done"
    /\ \E outcome \in {"passed", "failed"} :
         validation' = [outcome |-> outcome,
                        target  |-> IF output = {} THEN "None" ELSE "collection"]
    /\ UNCHANGED <<examples, devkit, role, pending, actionsMap, todo, inAction,
                   files, actionItems, items, output>>

Next ==
    \/ ScanFolderEntry \/ ScanFlatFile \/ NoExamples \/ EndScan
    \/ StartAction \/ SkipUnloadable \/ BuildRequest \/ EndAction
    \/ WriteCollection
    \/ ValidationSkipped \/ ValidatorUnavailable \/ RunValidation

Spec == Init /\ [][Next]_vars

-----------------------------------------------------------------------------
(* Properties                                                               *)

TypeOK ==
    /\ phase \in {"scan", "build", "validate", "done"}
    /\ pending \subseteq {Entry(k, i) : k \in {"dir", "file"}, i \in DOMAIN examples.folders \cup DOMAIN examples.files}
    /\ \A a \in DOMAIN actionsMap : a \in Range(ActionOrder) /\ actionsMap[a] # <<>>
    /\ inAction \in BOOLEAN
    /\ Cardinality(output) <= 1
    /\ validation.outcome \in {"none", "skipped", "unavailable", "passed", "failed"}

\* the step by step run implements the one-step specification: the
\* collection written does not depend on the order of directory listings
CS == INSTANCE CollectionSpec WITH finished <- phase \in {"validate", "done"}
RefinesCollectionSpec == CS!Spec

\* how Postman resolves a "{{...}}" placeholder: a collection variable, or
\* the dynamic variable $guid
PlaceholderVariable ==
    ("{{version}}" :> "version") @@ ("{{domain}}" :> "domain") @@
    ("{{bap_id}}" :> "bap_id") @@ ("{{bap_uri}}" :> "bap_uri") @@
    ("{{bpp_id}}" :> "bpp_id") @@ ("{{bpp_uri}}" :> "bpp_uri") @@
    ("{{transaction_id}}" :> "transaction_id") @@ ("{{iso_date}}" :> "iso_date")
DynamicVariables == {"{{$guid}}"}

(* Every placeholder that replace_context_macros puts in a request body,
   and the adapter URL variable of every request's host, is a variable the
   collection declares (get_collection_variables) or a Postman dynamic
   variable: no request of a generated collection is sent with an
   unresolved "{{...}}".  It relates three pieces of code: the macro table,
   the role's adapter variable and the role's variable list.             *)
PlaceholdersDeclared ==
    \A c \in output :
      LET declared == Range(c.variable) IN
      \A i \in DOMAIN c.item : \A j \in DOMAIN c.item[i].item :
        LET r == c.item[i].item[j] IN
        /\ r.host \in declared
        /\ LET body == CM!Tree(r.body) IN
           \A p \in DOMAIN body :
             CM!IsPlaceholder(body[p]) =>
               \/ body[p].v \in DynamicVariables
               \/ PlaceholderVariable[body[p].v] \in declared


(* Spec 6: validation runs on the collection just written.  main validates
   whatever generate_collection returned, and if the validator raises
   it still prints that the collection "was still generated
   successfully".  When no example matched, generate_collection returns
   None and main validates the path "None"; a missing examples directory
   (spec 7: a fatal ConfigurationError) takes the same path.             *)
ValidationFollowsWrite ==
    validation.outcome \in {"passed", "failed"} => output # {}

=============================================================================
