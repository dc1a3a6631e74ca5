-------------------------- MODULE EmbedExampleJson --------------------------
(***************************************************************************)
(* scripts/embed_example_json.py, run again and again on one markdown file *)
(* while the example JSON files it references are edited in between.       *)
(*                                                                         *)
(* The markdown text is a sequence of tokens, one per piece the two        *)
(* regexes can tell apart:                                                 *)
(*   Header(l) <details><summary><a href="l">..</a></summary> whose link   *)
(*             contains "json" (the header group of DETAILS_PATTERN);      *)
(*   Plain     a <details> header whose link does not contain "json";      *)
(*   End       </details>;   Fence  ``` (also the ``` of ```json);         *)
(*   Para      any other text;                                             *)
(*   Json(l,v) the text of JSON file l as it was at version v.             *)
(* Whitespace (the gap group) and wording are left out.  A link is the    *)
(* path it writes: a leading '/', a number of leading '../' and the rest;  *)
(* a file is <<directory, name>>.                                          *)
(***************************************************************************)
EXTENDS Integers, Sequences, SequencesExt, FiniteSets

CONSTANTS
    Texts,       \* the markdown texts the file may start with
    LinkPath,    \* LinkPath[l]: link l as [abs, up, name]; name "" for an empty link
    SourceDir,   \* markdown_path.parent
    ScriptDir,   \* the directory that holds the script
    Parent,      \* Parent[d]: the parent of directory d; the root is its own parent
    Existing,    \* the files that exist: <<dir, name>>
    MaxVersion,  \* bound on the edits of one JSON file
    MaxRuns,     \* bound on the runs of the script
    GitDir       \* the directory holding .git, where check_links.py's walk stops

Links == DOMAIN LinkPath

\* Path(__file__).resolve().parents[2]
RepoRoot == Parent[Parent[ScriptDir]]

\* the directory k levels above d: what resolve() makes of k leading '../'
RECURSIVE Up(_, _)
Up(d, k) == IF k = 0 THEN d ELSE Up(Parent[d], k - 1)

\* d is r or lies below it
RECURSIVE Under(_, _)
Under(d, r) == d = r \/ (d # Parent[d] /\ Under(Parent[d], r))

\* (repo_root / link.lstrip("/")).resolve(), or (source_dir / link).resolve()
JsonPath(l) ==
    <<Up(IF LinkPath[l].abs THEN RepoRoot ELSE SourceDir, LinkPath[l].up), LinkPath[l].name>>

\* what _replacement finds when it follows link l: an empty link, a path
\* relative_to(repo_root) rejects, a file read_text cannot find, or "ok".
\* The empty case is dead code: DETAILS_PATTERN's link group must contain
\* "json", so the instances give no link an empty name.
LinkKind(l) ==
    CASE LinkPath[l].name = "" -> "empty"
      [] ~Under(JsonPath(l)[1], RepoRoot) -> "outside"
      [] JsonPath(l) \notin Existing -> "missing"
      [] OTHER -> "ok"

Tok(k) == [k |-> k, link |-> "-", v |-> 0]
Header(l) == [k |-> "H", link |-> l, v |-> 0]
Json(l, v) == [k |-> "J", link |-> l, v |-> v]
Plain == Tok("h")
End == Tok("E")
Fence == Tok("F")
Para == Tok("P")

VARIABLES
    exists,       \* markdown_path.is_file()
    text,         \* the file's content
    version,      \* version[l]: the current content of JSON file l
    runs,         \* runs of the script so far
    outcome,      \* how the last run ended
    justWritten   \* the last run wrote the file and no JSON file changed since

vars == <<exists, text, version, runs, outcome, justWritten>>

-----------------------------------------------------------------------------
(* build_code_fence_lookup                                                 *)

\* CODE_FENCE_PATTERN.finditer: ```.*?``` pairs each ``` with the next one;
\* a last unpaired ``` starts no range.  A range is <<start, last>>.
FenceRanges(t) ==
    LET fs == SelectSeq([i \in 1..Len(t) |-> i], LAMBDA i : t[i] = Fence)
    IN [r \in 1..(Len(fs) \div 2) |-> <<fs[2 * r - 1], fs[2 * r]>>]

InsideNever(t, p) == FALSE

InsideThroughEnd(t, p) ==
    LET rs == FenceRanges(t)
        before == {r \in DOMAIN rs : rs[r][1] <= p}
    IN before # {} /\ p <= rs[Max(before)][2] + 1

\* _inside: the last range starting at or before the position
\* (bisect_right - 1), and the position before that range's end
Inside(t, p) ==
    LET rs == FenceRanges(t)
        before == {r \in DOMAIN rs : rs[r][1] <= p}
    IN before # {} /\ p <= rs[Max(before)][2]

-----------------------------------------------------------------------------
(* replace_blocks                                                          *)

\* DETAILS_PATTERN.finditer from position p: a json header, then the body
\* up to the first </details> after it (.*? with DOTALL); the search goes
\* on after that </details>.  A header with no </details> after it is
\* not a match.
RECURSIVE DetailsMatches(_, _)
DetailsMatches(t, p) ==
    LET ends(i) == {j \in i + 1..Len(t) : t[j] = End}
        heads == {i \in p..Len(t) : t[i].k = "H" /\ ends(i) # {}}
    IN IF heads = {} THEN <<>>
       ELSE LET i == Min(heads)
                j == Min(ends(i))
            IN <<<<i, j>>>> \o DetailsMatches(t, j + 1)

\* the matches _replacement rewrites: those not starting inside a fence
Live(t) == SelectSeq(DetailsMatches(t, 1), LAMBDA m : ~Inside(t, m[1]))

LinkOf(t, m) == t[m[1]].link

\* the SystemExit of the first live match whose link is empty, leads
\* outside the repository or names a missing file; "none" if there is none
FirstError(t) ==
    LET bad == SelectSeq(Live(t), LAMBDA m : LinkKind(LinkOf(t, m)) # "ok")
    IN IF bad = <<>> THEN "none" ELSE LinkKind(LinkOf(t, bad[1]))

\* touched_links, in match order
Touched(t) == [i \in 1..Len(Live(t)) |-> LinkOf(t, Live(t)[i])]

ReplacementKeepBody(t, m, ver) ==
    IF Inside(t, m[1]) THEN SubSeq(t, m[1], m[2])
    ELSE <<t[m[1]], Fence, Json(LinkOf(t, m), ver[LinkOf(t, m)]), Fence>> \o SubSeq(t, m[1] + 1, m[2])

ReplacementStale(t, m, ver) ==
    IF Inside(t, m[1]) THEN SubSeq(t, m[1], m[2])
    ELSE <<t[m[1]], Fence, Json(LinkOf(t, m), ver[LinkOf(t, m)] - 1), Fence, End>>

\* _replacement: a match inside a fence is kept; otherwise the header, then
\* a ```json fence holding the file's text, then </details>
Replacement(t, m, ver) ==
    IF Inside(t, m[1]) THEN SubSeq(t, m[1], m[2])
    ELSE <<t[m[1]], Fence, Json(LinkOf(t, m), ver[LinkOf(t, m)]), Fence, End>>

\* DETAILS_PATTERN.subn: the text from position p on, with the matches ms
\* (in order, all at or after p) replaced
RECURSIVE Subst(_, _, _, _)
Subst(t, p, ms, ver) ==
    IF ms = <<>> THEN SubSeq(t, p, Len(t))
    ELSE SubSeq(t, p, Head(ms)[1] - 1) \o Replacement(t, Head(ms), ver)
           \o Subst(t, Head(ms)[2] + 1, Tail(ms), ver)

ReplaceBlocks(t, ver) == Subst(t, 1, DetailsMatches(t, 1), ver)

-----------------------------------------------------------------------------
Init ==
    /\ exists \in BOOLEAN
    /\ text \in Texts
    /\ version = [l \in Links |-> 1]
    /\ runs = 0
    /\ outcome = "none"
    /\ justWritten = FALSE

\* each action below is one run of main, ending at one of its exits
StartRun == runs < MaxRuns /\ runs' = runs + 1

\* "Markdown file not found"
MarkdownMissing ==
    /\ StartRun /\ ~exists
    /\ outcome' = "markdown missing"
    /\ UNCHANGED <<exists, text, version, justWritten>>

\* a SystemExit raised inside subn: nothing is written
BlockError ==
    /\ StartRun /\ exists /\ FirstError(text) # "none"
    /\ outcome' = FirstError(text)
    /\ UNCHANGED <<exists, text, version, justWritten>>

\* "No matching <details> blocks found."
NoBlocks ==
    /\ StartRun /\ exists /\ FirstError(text) = "none" /\ Touched(text) = <<>>
    /\ outcome' = "no blocks"
    /\ UNCHANGED <<exists, text, version, justWritten>>

\* --dry-run: "Blocks to update:", nothing is written
DryRun ==
    /\ StartRun /\ exists /\ FirstError(text) = "none" /\ Touched(text) # <<>>
    /\ outcome' = "dry run"
    /\ UNCHANGED <<exists, text, version, justWritten>>

\* markdown_path.write_text(updated_text)
Write ==
    /\ StartRun /\ exists /\ FirstError(text) = "none" /\ Touched(text) # <<>>
    /\ text' = ReplaceBlocks(text, version)
    /\ outcome' = "written"
    /\ justWritten' = TRUE
    /\ UNCHANGED <<exists, version>>

\* someone edits the example JSON file l, one that exists, between runs
EditJson(l) ==
    /\ LinkKind(l) = "ok"
    /\ version[l] < MaxVersion
    /\ version' = [version EXCEPT ![l] = @ + 1]
    /\ justWritten' = FALSE
    /\ UNCHANGED <<exists, text, runs, outcome>>

Next ==
    \/ MarkdownMissing \/ BlockError \/ NoBlocks \/ DryRun \/ Write
    \/ \E l \in Links : EditJson(l)

Spec == Init /\ [][Next]_vars

-----------------------------------------------------------------------------
Tokens == {Plain, End, Fence, Para} \cup {Header(l) : l \in Links}
            \cup {Json(l, v) : l \in Links, v \in 1..MaxVersion}

TypeOK ==
    /\ exists \in BOOLEAN
    /\ \A i \in 1..Len(text) : text[i] \in Tokens
    /\ version \in [Links -> 1..MaxVersion]
    /\ runs \in 0..MaxRuns

\* How markdown reads the text: a ``` opens a code block that runs to the
\* next ``` or, if there is none, to the end of the document.
InCodeBlock(t, p) == Cardinality({i \in 1..p - 1 : t[i] = Fence}) % 2 = 1

\* A json <details> block that markdown shows outside code, and that has its
\* </details>.
ShownBlock(t, i) ==
    /\ t[i].k = "H" /\ ~InCodeBlock(t, i)
    /\ \E j \in i + 1..Len(t) : t[j] = End

\* The docstring: "Run this script to replace the content with the contents
\* of the referenced JSON files."  Right after a write, every json details
\* block shown outside code holds the current text of its JSON file.
Refreshed ==
    justWritten =>
       \A i \in 1..Len(text) :
          ShownBlock(text, i) =>
             /\ i + 3 <= Len(text)
             /\ SubSeq(text, i + 1, i + 3) =
                   <<Fence, Json(text[i].link, version[text[i].link]), Fence>>

\* The replace step leaves details blocks that sit inside ``` code alone
\* (build_code_fence_lookup): after a write, every embedded JSON text belongs
\* to the details header before it, and markdown shows that header outside
\* code.
EmbeddedOutsideCode ==
    justWritten =>
       \A i \in 1..Len(text) :
          text[i].k = "J" =>
             LET hs == {h \in 1..i - 1 : text[h].k = "H"}
             IN hs # {} /\ ~InCodeBlock(text, Max(hs))

\* check_links.py's view of a details header's href: a leading '/' from the
\* directory find_repo_root stops at, anything else from the file's
\* directory.  An empty href is no match of HTML_LINK_PATTERN.
CheckerTarget(l) ==
    <<Up(IF LinkPath[l].abs THEN GitDir ELSE SourceDir, LinkPath[l].up), LinkPath[l].name>>

\* A file the embedder has just written passes check_links.py for its
\* details headers: every json header link in it names an existing file.
\* check_links.py reads every <a href> of the file, in ``` code as well,
\* while the embedder leaves the blocks in code alone.
WrittenFilePassesLinkCheck ==
    justWritten =>
       \A i \in 1..Len(text) :
          text[i].k = "H" /\ LinkPath[text[i].link].name # "" =>
             CheckerTarget(text[i].link) \in Existing

\* Running the script again without editing any JSON file changes nothing:
\* the replacement inserts ``` marks, and the fences of the next run are
\* paired over the rewritten text.
Idempotent == [][justWritten => text' = text]_vars

=============================================================================
