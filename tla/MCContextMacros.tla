-------------------------- MODULE MCContextMacros --------------------------
(* The transformer checked on every document {context: C, message: M}      *)
(* (load_example_json admits no other) where C is a context built from a  *)
(* two macro keys, a kept key and another key, and M is a JSON value of depth  *)
(* at most 3 over the keys "context", "version" and "x".                  *)
EXTENDS ContextMacros

Leaves == {Str("a"), Str("b")}
PayloadKeys == {"context", "version", "x"}

\* JSON values of depth at most d: dicts of at most one key, lists of at
\* most one element
RECURSIVE Json(_)
Json(d) ==
    IF d = 0 THEN Leaves
    ELSE Leaves \cup {Obj(<<>>), Arr(<<>>)}
         \cup {Obj(k :> x) : k \in PayloadKeys, x \in Json(d - 1)}
         \cup {Arr(<<x>>) : x \in Json(d - 1)}

\* a context field: absent, a scalar, or a dict
FieldValues == Leaves \cup {Obj("version" :> Str("a"))}
\* "location" may hold a dict that has a context of its own
LocationValues == FieldValues \cup {Obj("context" :> Obj("version" :> Str("a")))}

ContextFieldValues(k) == IF k = "location" THEN LocationValues ELSE FieldValues

\* a context dict over some of "version", "timestamp", "ttl", "location",
\* or a context that is not a dict at all
Contexts ==
    {Str("a")} \cup
    UNION {{Obj(f) : f \in {g \in [ks -> LocationValues] :
                               \A k \in ks : g[k] \in ContextFieldValues(k)}}
           : ks \in SUBSET {"version", "timestamp", "ttl", "location"}}

MCDocuments ==
    {Obj(("context" :> c) @@ ("message" :> m)) : c \in Contexts, m \in Json(3)}
=============================================================================
