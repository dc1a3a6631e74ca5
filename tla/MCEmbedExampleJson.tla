------------------------- MODULE MCEmbedExampleJson -------------------------
(***************************************************************************)
(* Markdown files of up to three pieces: prose, a code block, a fresh json *)
(* details block, one with hand-written content, one embedded earlier, a   *)
(* non-json details block, one with a nested details block, a complete     *)
(* usage example inside a code block, and blocks whose link leads outside *)
(* the repository or names a missing file; relative and root-relative     *)
(* links.  No json link is empty: DETAILS_PATTERN requires "json" in it.  *)
(***************************************************************************)
EXTENDS EmbedExampleJson

\* this repository's layout: the script in src/scripts, the markdown file
\* in docs, .git in the repository directory
MCParent == [d \in {"/", "repo", "src", "scripts", "docs"} |->
               CASE d = "scripts" -> "src"
                 [] d \in {"src", "docs"} -> "repo"
                 [] OTHER -> "/"]

Rel(up, name) == [abs |-> FALSE, up |-> up, name |-> name]

MCLinkPath ==
    ("a.json" :> Rel(0, "a.json")) @@
    ("/b.json" :> [abs |-> TRUE, up |-> 0, name |-> "b.json"]) @@
    ("../../x.json" :> Rel(2, "x.json")) @@
    ("gone.json" :> Rel(0, "gone.json")) @@
    ("path/to/example.json" :> Rel(0, "path/to/example.json"))

MCExisting == {<<"docs", "a.json">>, <<"repo", "b.json">>}

WellFormedPieces ==
    { <<Para>>,
      <<Fence, Para, Fence>>,
      <<Header("a.json"), End>>,
      <<Header("/b.json"), Para, End>>,
      <<Header("a.json"), Fence, Json("a.json", 1), Fence, End>>,
      <<Plain, Para, End>>,
      <<Header("/b.json"), Plain, Para, End, End>>,
      <<Fence, Header("a.json"), Para, End, Fence>>,
      <<Header("../../x.json"), End>>,
      <<Header("gone.json"), End>> }

\* a usage example in a code block that shows only the opening of a block
OpeningExamplePieces == WellFormedPieces \cup {<<Fence, Header("a.json"), Fence>>}

Docs(pieces) ==
    {FlattenSeq(s) : s \in UNION {[1..n -> pieces] : n \in 0..3}}

MCTexts == Docs(WellFormedPieces)

\* the embedder's own usage example, shown in a code block of the file
UsageExamplePieces == WellFormedPieces \cup {<<Fence, Header("path/to/example.json"), End, Fence>>}
MCUsageTexts == {FlattenSeq(s) : s \in UNION {[1..n -> UsageExamplePieces] : n \in 0..2}}
MCOpeningTexts == Docs(OpeningExamplePieces)

=============================================================================
