--------------------------- MODULE ContextMacros ---------------------------
(***************************************************************************)
(* The envelope transformer of scripts/generate_postman_collection.py:     *)
(* replace_context_macros, which rewrites the fields of a message's        *)
(* "context" object into Postman macros and copies everything else.      *)
(*                                                                         *)
(* A parsed JSON value is tagged: [t |-> "obj", v |-> function from keys], *)
(* [t |-> "arr", v |-> sequence] or [t |-> "str", v |-> string]; numbers,  *)
(* booleans and null behave as "str" does here (neither dict nor list).    *)
(* The component is a pure function; its state is one call.               *)
(***************************************************************************)
EXTENDS Sequences, SequencesExt, TLC

CONSTANT Documents   \* the parsed example files the transformer is given

VARIABLES doc, out
vars == <<doc, out>>

Str(s) == [t |-> "str", v |-> s]
Arr(s) == [t |-> "arr", v |-> s]
Obj(f) == [t |-> "obj", v |-> f]
IsContainer(x) == x.t \in {"obj", "arr"}   \* isinstance(x, (dict, list))

\* context keys replaced by a macro, and the macro; "domain" has two
\* branches in the code (wildcard or not) that give the same macro
\* mutant: no branch for "timestamp"
ContextMacroNoTimestamp ==
    ("version" :> "{{version}}") @@ ("domain" :> "{{domain}}") @@
    ("bap_id" :> "{{bap_id}}") @@ ("bap_uri" :> "{{bap_uri}}") @@
    ("bpp_id" :> "{{bpp_id}}") @@ ("bpp_uri" :> "{{bpp_uri}}") @@
    ("transaction_id" :> "{{transaction_id}}") @@ ("message_id" :> "{{$guid}}")

ContextMacro ==
    ("version" :> "{{version}}") @@ ("domain" :> "{{domain}}") @@
    ("bap_id" :> "{{bap_id}}") @@ ("bap_uri" :> "{{bap_uri}}") @@
    ("bpp_id" :> "{{bpp_id}}") @@ ("bpp_uri" :> "{{bpp_uri}}") @@
    ("transaction_id" :> "{{transaction_id}}") @@
    ("message_id" :> "{{$guid}}") @@ ("timestamp" :> "{{iso_date}}")

\* context keys copied as they are, even when they hold a dict or a list
KeptContextKeys == {"ttl", "schema_context", "action"}

RECURSIVE ReplaceContextMacros(_), NewContext(_)

\* Python's None, returned by a function that falls off its end
Null == [t |-> "null", v |-> "null"]

\* mutant: `return result` missing at the end of the dict branch
ReplaceContextMacrosNoReturn(d) == IF d.t # "obj" THEN d ELSE Null

(* replace_context_macros: anything but a dict is returned unchanged (a
   list too: it is not walked); a dict is copied key by key, the value of
   a "context" key that is a dict is rebuilt by NewContext, other dicts
   and lists are passed to replace_context_macros.                        *)
ReplaceContextMacros(d) ==
    IF d.t # "obj" THEN d
    ELSE Obj([k \in DOMAIN d.v |->
               IF k = "context" /\ d.v[k].t = "obj" THEN NewContext(d.v[k])
               ELSE IF IsContainer(d.v[k]) THEN ReplaceContextMacros(d.v[k])
               ELSE d.v[k]])

\* mutant: the ttl / schema_context / action branches assign nothing
NewContextDropKept(c) ==
    Obj([ck \in DOMAIN c.v \ KeptContextKeys |->
          IF ck \in DOMAIN ContextMacro THEN Str(ContextMacro[ck])
          ELSE IF IsContainer(c.v[ck]) THEN ReplaceContextMacros(c.v[ck])
          ELSE c.v[ck]])

\* the new_context loop over one context dict
NewContext(c) ==
    Obj([ck \in DOMAIN c.v |->
          IF ck \in DOMAIN ContextMacro THEN Str(ContextMacro[ck])
          ELSE IF ck \in KeptContextKeys THEN c.v[ck]
          ELSE IF IsContainer(c.v[ck]) THEN ReplaceContextMacros(c.v[ck])
          ELSE c.v[ck]])

-----------------------------------------------------------------------------
(* One call of the transformer on a document.                              *)
NotYet == Str("not transformed")

Init == doc \in Documents /\ out = NotYet

Transform ==
    /\ out = NotYet
    /\ out' = ReplaceContextMacros(doc)
    /\ UNCHANGED doc

Next == Transform
Spec == Init /\ [][Next]_vars

-----------------------------------------------------------------------------
(* Properties, stated over the positions of a JSON value.  A step of a     *)
(* path is a dict key or a list index.                                     *)
KeyStep(k) == [key |-> TRUE, name |-> k, index |-> 0]
IndexStep(i) == [key |-> FALSE, name |-> "", index |-> i]

\* every node of x with the path leading to it
RECURSIVE Nodes(_)
Nodes(x) ==
    {<<<<>>, x>>} \cup
    CASE x.t = "obj" -> UNION {{<<<<KeyStep(k)>> \o n[1], n[2]>> : n \in Nodes(x.v[k])}
                               : k \in DOMAIN x.v}
      [] x.t = "arr" -> UNION {{<<<<IndexStep(i)>> \o n[1], n[2]>> : n \in Nodes(x.v[i])}
                               : i \in DOMAIN x.v}
      [] OTHER -> {}

\* x as a function from paths to nodes
Tree(x) == LET N == Nodes(x) IN [p \in {n[1] : n \in N} |-> (CHOOSE n \in N : n[1] = p)[2]]

IsPlaceholder(x) == x.t = "str" /\ x.v \in Range(ContextMacro)

\* the path of a context field that gets a macro
IsMacroSlot(p) ==
    /\ Len(p) >= 2
    /\ p[Len(p) - 1] = KeyStep("context")
    /\ \E k \in DOMAIN ContextMacro : p[Len(p)] = KeyStep(k)

Transformed == out # NotYet

\* load_example_json admits dicts only; the transform returns a JSON value
TypeOK ==
    /\ doc.t = "obj"
    /\ out.t \in {"obj", "arr", "str"}

(* Specification 4.2: the payload is preserved.  Every position of the
   input that does not lie at or under a context field given a macro is
   still there, with the same kind of node and, for a scalar, the same
   value; the output has no position the input lacks.  This holds for the
   whole tree: inside lists, inside kept context fields such as ttl, and
   inside nested objects of the context.                                  *)
PayloadPreserved ==
    Transformed =>
      LET before == Tree(doc)
          after == Tree(out)
      IN /\ DOMAIN after \subseteq DOMAIN before
         /\ \A p \in DOMAIN before :
              (\A i \in 1..Len(p) : ~IsMacroSlot(SubSeq(p, 1, i))) =>
                /\ p \in DOMAIN after
                /\ after[p].t = before[p].t
                /\ before[p].t = "str" => after[p] = before[p]

\* the envelope fields the specification (4.2) says become placeholders
SpecTemplatedKeys ==
    {"version", "domain", "bap_id", "bap_uri", "bpp_id", "bpp_uri",
     "transaction_id", "message_id", "timestamp"}

\* p leads, through dict keys only, to a "context" key, with no "context"
\* key before it
IsContextPath(p, throughLists) ==
    /\ Len(p) >= 1
    /\ p[Len(p)] = KeyStep("context")
    /\ \A i \in 1..Len(p) - 1 :
         /\ throughLists \/ p[i].key
         /\ p[i] # KeyStep("context")

ContextsTemplated(throughLists) ==
    Transformed =>
      LET before == Tree(doc)
          after == Tree(out)
      IN \A p \in DOMAIN before :
           IsContextPath(p, throughLists) /\ before[p].t = "obj" =>
             \A k \in SpecTemplatedKeys \cap DOMAIN before[p].v :
               IsPlaceholder(after[p \o <<KeyStep(k)>>])

(* Specification 4.2: every envelope field that identifies a party, the
   transaction, the message or the time is a placeholder after the
   transform, in the top-level context and in any context object reached
   through dicts.                                                         *)
EnvelopeTemplated == ContextsTemplated(FALSE)

(* Specification 4.2: the walk "must not assume" there are no nested
   context keys, so a context object inside a list of the payload is
   templated as well.                                                     *)
NestedContextTemplated == ContextsTemplated(TRUE)

=============================================================================
