-------------------------- MODULE PostmanCollection --------------------------
(***************************************************************************)
(* The request builder and the data of the collection assembler of        *)
(* scripts/generate_postman_collection.py: DEVKIT_CONFIGS (the layout of   *)
(* each devkit), load_example_json, get_request_name,                      *)
(* create_postman_request, the adapter variable of generate_collection,    *)
(* get_collection_variables and the pre-request event.                     *)
(*                                                                         *)
(* An examples directory is a record: exists, folders (folder id -> folder *)
(* name) and files (path -> [dir, name, content]); dir is a folder id or  *)
(* Root.  Paths are numbered in the order Python compares the Path        *)
(* objects, so sorted() of (path, name) tuples is sorting by number.       *)
(* Folder ids are numbers too.  A file's content is a parsed JSON value,   *)
(* or Unparsable.                                                          *)
(***************************************************************************)
EXTENDS Integers, Sequences, SequencesExt

CONSTANTS Words, Lower, DigitWords

AC == INSTANCE ActionClassifier WITH Names <- {}, name <- <<>>, result <- <<>>
CM == INSTANCE ContextMacros WITH Documents <- {}, doc <- <<>>, out <- <<>>

None == AC!None
Root == 0   \* the dir of a file directly under the examples root
Unparsable == [t |-> "unparsable"]

\* DEVKIT_CONFIGS[devkit]["structure"]
DevkitStructure ==
    [d \in {"ev-charging", "p2p-trading", "p2p-enrollment",
            "p2p-trading-interdiscom"} |->
       IF d = "ev-charging" THEN "folders" ELSE "flat"]

\* every action of every role, in the order of Python's sorted() on strings
ActionOrder ==
    << "cancel", "confirm", "discover", "init", "on_cancel", "on_confirm",
       "on_discover", "on_init", "on_rating", "on_select", "on_status",
       "on_support", "on_track", "on_update", "publish", "rating", "select",
       "status", "support", "track", "update" >>
SortedActions(S) == SelectSeq(ActionOrder, LAMBDA a : a \in S)

\* load_example_json: the parsed file if it is a dict with both a context
\* and a message; NoData (None) for unparsable JSON, a non-dict or a
\* missing key
NoData == [t |-> "none"]
LoadExampleJson(c) ==
    IF c.t = "obj" /\ {"context", "message"} \subseteq DOMAIN c.v THEN c ELSE NoData

\* get_request_name: the file name without ".json", which is the name itself
GetRequestName(n) == n

\* adapter_url_var of generate_collection
AdapterUrlVar(role) == IF role = "BAP" THEN "bap_adapter_url" ELSE "bpp_adapter_url"

(* create_postman_request: a POST of the transformed document to
   {{adapter_url_var}}/endpoint.  The body is kept as the JSON value that
   json.dumps encodes; the url host "{{v}}" is kept as the variable v.     *)
CreatePostmanRequest(data, action, endpoint, requestName, adapterVar) ==
    [name   |-> requestName,
     method |-> "POST",
     body   |-> CM!ReplaceContextMacros(data),
     host   |-> adapterVar,
     path   |-> endpoint]

\* mutant: UtilityBPP declares only the BAP adapter URL
GetCollectionVariablesUtilityBapOnly(devkit, role) ==
    << "domain", "version", "bap_id", "bap_uri", "bpp_id", "bpp_uri",
       "transaction_id", "iso_date" >> \o
    CASE role = "BAP"        -> <<"bap_adapter_url">>
      [] role = "BPP"        -> <<"bpp_adapter_url">>
      [] role = "UtilityBPP" -> <<"bap_adapter_url">>

\* get_collection_variables: the declared variable keys, in order
GetCollectionVariables(devkit, role) ==
    << "domain", "version", "bap_id", "bap_uri", "bpp_id", "bpp_uri",
       "transaction_id", "iso_date" >> \o
    CASE role = "BAP"        -> <<"bap_adapter_url">>
      [] role = "BPP"        -> <<"bpp_adapter_url">>
      [] role = "UtilityBPP" -> <<"bpp_adapter_url", "bap_adapter_url">>

\* the collection's one prerequest event: PRE_REQUEST_SCRIPT sets iso_date
PreRequestEvent == [listen |-> "prerequest", sets |-> {"iso_date"}]

=============================================================================
