--------------------------- MODULE MCLinkChecker ---------------------------
(***************************************************************************)
(* A small repository for check_links.py: two markdown files that share an *)
(* HTTP URL under two fragments, local links that exist, are missing, are  *)
(* root-relative or percent-encoded, links the checker skips, an           *)
(* unreadable file, and servers that answer ok, 404, 405 (then GET), time  *)
(* out or cannot be resolved.                                              *)
(***************************************************************************)
EXTENDS LinkChecker

Base(scheme, name) == [scheme |-> scheme, long |-> FALSE, root |-> FALSE, name |-> name]
Tok(k, base, frag) == [k |-> k, url |-> [base |-> base, frag |-> frag]]
Md(base) == Tok("md", base, "")
Html(base) == Tok("html", base, "")
Ref(base) == Tok("ref", base, "")

U1 == Base("http", "https://u1")     \* answers HEAD, or 404
U2 == Base("http", "https://u2")     \* answers HEAD 405, GET ok
U3 == Base("http", "https://u3")     \* 405 then GET fails, times out, or URL error
Here == Base("path", "ok.md")
Gone == Base("path", "gone%20x.md")
Missing == Base("path", "missing.md")
Readme == [Base("path", "README.md") EXCEPT !.root = TRUE]   \* /README.md
Mail == Base("other", "mailto:x")
Anchor == Base("path", "")
Blob == [Base("path", "data") EXCEPT !.long = TRUE]
Words == Tok("text", Anchor, "")

\* a.md: a reference definition after a blank line; b.md: one that does
\* not start its line; c.md cannot be read
MCDocs ==
    [f \in {"a.md", "b.md", "c.md"} |->
       CASE f = "a.md" ->
              [readable |-> TRUE, dir |-> "docs",
               lines |-> <<<<Tok("md", U1, "x"), Md(Here)>>, <<Md(Gone)>>,
                           <<Html(U2), Md(Mail)>>, <<>>, <<Ref(Missing)>>>>]
         [] f = "b.md" ->
              [readable |-> TRUE, dir |-> "repo",
               lines |-> <<<<Tok("md", U1, "y"), Tok("md", Anchor, "top")>>,
                           <<Html(Readme), Md(U3)>>, <<Md(Blob)>>, <<Words, Ref(U1)>>>>]
         [] f = "c.md" -> [readable |-> FALSE, dir |-> "docs", lines |-> <<>>]]

\* the argument lists: a glob with no match, named files (b.md alone has
\* only HTTP links that can fail), and a glob
MCPatternLists == {<<"none*.md">>, <<"a.md">>, <<"b.md">>, <<"a.md", "[ab].md">>, <<"[ab].md">>,
                   <<"b.md", "c.md", "a.md">>}

MCGlobs == [p \in {"none*.md", "[ab].md"} |-> IF p = "none*.md" THEN {} ELSE {"a.md", "b.md"}]

MCParent == [d \in {"docs", "repo", "/"} |-> IF d = "docs" THEN "repo" ELSE "/"]

MCEncoded == [n \in {"gone%20x.md"} |-> "gone x.md"]

MCExisting == {<<"docs", "ok.md">>, <<"repo", "README.md">>}

MCResponses ==
    [u \in {U1, U2, U3} |->
       CASE u = U1 -> {[head |-> "ok", get |-> "none"], [head |-> "404", get |-> "none"]}
         [] u = U2 -> {[head |-> "405", get |-> "ok"]}
         [] u = U3 -> {[head |-> "405", get |-> "fail"], [head |-> "timeout", get |-> "none"],
                       [head |-> "urlerror", get |-> "none"]}]

MCGitDirChoices == {{"repo"}, {}}

MCRootArgs == {NoRoot, "repo"}

=============================================================================
