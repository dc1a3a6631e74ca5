----------------------- MODULE MCCollectionGenerator -----------------------
(* The generator run on small example directories: for ev-charging (the  *)
(* folders layout) two numbered action folders and up to three files      *)
(* spread over them and the root; for p2p-trading (the flat layout) up to  *)
(* two files named after the naming rules.  A file holds a valid example  *)
(* or unparsable text.  A directory may also be missing.                  *)
EXTENDS CollectionGenerator

MCWords == {"01", "init", "on", "cascaded", "publish", "request", "response", "otp"}
MCLower == [w \in MCWords |-> w]
MCDigitWords == {"01"}

MCDevkits == {"ev-charging", "p2p-trading"}

\* an example with every context field the transformer rewrites, and ttl
ValidDoc ==
    CM!Obj(("context" :> CM!Obj([k \in DOMAIN CM!ContextMacro \cup {"ttl"} |-> CM!Str("x")]))
           @@ ("message" :> CM!Obj("order" :> CM!Str("y"))))
Contents == {ValidDoc, Unparsable}

FlatNames ==
    { <<"init", "-", "request">>, <<"init", "-", "request", "-", "otp">>,
      <<"on", "-", "init", "-", "response">>, <<"cascaded", "-", "init", "-", "request">>,
      <<"publish", "-", "otp">> }
FolderNames == { <<"01", "_", "init">>, <<"01", "_", "on", "_", "init">>, <<"01", "_", "otp">> }
FileName == <<"init", "-", "request">>

File(d, n, c) == [dir |-> d, name |-> n, content |-> c]

\* files numbered 1..n, each from the set F
FileSeqs(F, max) == UNION {[1..n -> F] : n \in 0..max}

Missing == [exists |-> FALSE, folders |-> <<>>, files |-> <<>>]

FolderDirs ==
    {[exists |-> TRUE, folders |-> fs, files |-> f] :
        fs \in [{10, 20} -> FolderNames],
        f \in FileSeqs({File(d, FileName, c) : d \in {Root, 10, 20}, c \in Contents}, 3)}

FlatDirs ==
    {[exists |-> TRUE, folders |-> <<>>, files |-> f] :
        f \in FileSeqs({File(Root, n, c) : n \in FlatNames, c \in Contents}, 2)}

MCExampleDirs(structure) ==
    {Missing} \cup IF structure = "folders" THEN FolderDirs ELSE FlatDirs
=============================================================================
