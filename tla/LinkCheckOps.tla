--------------------------- MODULE LinkCheckOps ---------------------------
(***************************************************************************)
(* scripts/check_links.py: main checks every markdown file in turn, local  *)
(* links at once and HTTP links collected for later; then                  *)
(* check_http_links_parallel deduplicates the URLs, submits one            *)
(* check_http_link per URL to a ThreadPoolExecutor of MaxWorkers threads,  *)
(* and, in the order as_completed yields the futures, fans each failed     *)
(* URL's reason out to every place it occurs.  main exits 1 when anything  *)
(* is broken.                                                              *)
(*                                                                         *)
(* A markdown file is a record [readable, dir, lines], lines its content  *)
(* as tokens (see extract_links_with_lines below); a link's url is        *)
(* [base, frag], the parts before and after '#'.  A base is                *)
(* [scheme, long, root, name]: scheme "http" (http:// or https://),        *)
(* "other" (mailto:, data:, tel:, javascript:) or "path"; long says it has *)
(* more than 500 characters; root says it starts with '/'.  An HTTP server *)
(* is given by the responses it may give: a HEAD outcome and a GET outcome.*)
(***************************************************************************)
EXTENDS Integers, Sequences, SequencesExt, FiniteSets

CONSTANTS
    PatternLists,  \* the files arguments main may be given
    Globs,         \* Globs[p]: the paths Path('.').glob(p) yields, in no fixed order
    Docs,          \* Docs[f]: the markdown file (or directory) at path f
    Parent,        \* Parent[d]: the parent of directory d; the root is its own parent
    GitDirChoices, \* the sets of directories that may hold a .git entry
    RootArgs,      \* the --repo-root values: a directory, or NoRoot when not given
    Encoded,       \* Encoded[n]: urllib.parse.unquote of a percent-encoded name n
    Existing,      \* the resolved paths that exist: <<dir, name>>
    Responses,     \* Responses[u]: the [head, get] answers the server of URL u may give
    MaxWorkers     \* max_workers of check_http_links_parallel

OK == "ok"        \* check_http_link returned None
NoRoot == "none"  \* no repository root (yet)

BrokenLink(file, line, link, reason) ==
    [file |-> file, line |-> line, link |-> link, reason |-> reason]

\* str(md_file), the link of a file that cannot be read
FileLink(f) == [scheme |-> "file", long |-> FALSE, root |-> FALSE, name |-> f]

-----------------------------------------------------------------------------
(* main: the files and the repository root                                 *)

\* a pattern that names an existing path is taken as it is; any other is
\* globbed, in the order the file system lists the matches
PatternFiles(p) == IF p \in DOMAIN Docs THEN {<<p>>} ELSE SetToSeqs(Globs[p])

\* the md_files lists main's loop over the arguments may build
RECURSIVE CollectMdFiles(_)
CollectMdFiles(ps) ==
    IF ps = <<>> THEN {<<>>}
    ELSE {x \o y : x \in PatternFiles(Head(ps)), y \in CollectMdFiles(Tail(ps))}

\* find_repo_root's walk up from a file's directory to one holding .git; the
\* walk ends, without looking there, at the directory that is its own parent
RECURSIVE GitAncestor(_, _)
GitAncestor(d, git) ==
    IF d = Parent[d] THEN NoRoot
    ELSE IF d \in git THEN d ELSE GitAncestor(Parent[d], git)

\* find_repo_root(md_files[0]): the .git ancestor, else the file's directory
FindRepoRoot(f, git) ==
    IF GitAncestor(Docs[f].dir, git) = NoRoot THEN Docs[f].dir ELSE GitAncestor(Docs[f].dir, git)

\* --repo-root if given, else find_repo_root(md_files[0])
RepoRoot(files, git, arg) == IF arg # NoRoot THEN arg ELSE FindRepoRoot(files[1], git)

\* what main starts checking with: md_files and repo_root (NoRoot when
\* md_files is empty: main returns before it looks for the root)
Starts ==
    UNION {UNION {{[files |-> fs, root |-> IF fs = <<>> THEN NoRoot ELSE RepoRoot(fs, git, arg)] :
                     fs \in CollectMdFiles(args)} : git \in GitDirChoices, arg \in RootArgs} :
             args \in PatternLists}

-----------------------------------------------------------------------------
(* extract_links_with_lines                                                *)
(* A file's content is a sequence of lines, a line a sequence of tokens    *)
(* [k, url]: k is "md" for [text](url), "html" for <a href="url">, "ref"   *)
(* for [ref]: url, or "text"; url is [base, frag], split at '#'.  A blank  *)
(* line is <<>>.                                                           *)

\* the matches of MARKDOWN_LINK_PATTERN or HTML_LINK_PATTERN, in document
\* order, each at the line of its first character
KindMatches(lines, kind) ==
    FlattenSeq([n \in 1..Len(lines) |->
                  LET ts == SelectSeq(lines[n], LAMBDA t : t.k = kind)
                  IN [i \in 1..Len(ts) |-> [url |-> ts[i].url.base, line |-> n]]])

\* the line char_to_line gives a match of ^\s*\[ref\]: that defines a
\* reference on line n: ^ matches at the start of the first of the blank
\* lines right before it, and \s* runs over them
RefMatchLine(lines, n) ==
    LET blanks == {m \in 1..n - 1 : \A j \in m..n - 1 : lines[j] = <<>>}
    IN IF blanks = {} THEN n ELSE Min(blanks)

\* the matches of REFERENCE_LINK_DEF_PATTERN: a definition at a line's start
RefMatches(lines) ==
    FlattenSeq([n \in 1..Len(lines) |->
                  IF lines[n] # <<>> /\ lines[n][1].k = "ref"
                  THEN <<[url |-> lines[n][1].url.base, line |-> RefMatchLine(lines, n)]>>
                  ELSE <<>>])

ExtractLinksNoHtml(lines) ==
    SelectSeq(KindMatches(lines, "md") \o RefMatches(lines), LAMBDA l : l.url.name # "")

\* the three passes in turn, fragments cut off, pure anchors dropped
ExtractLinks(lines) ==
    SelectSeq(KindMatches(lines, "md") \o KindMatches(lines, "html") \o RefMatches(lines),
              LAMBDA l : l.url.name # "")

-----------------------------------------------------------------------------
(* check_links_in_file and check_local_link                                *)

\* urllib.parse.unquote
Unquote(n) == IF n \in DOMAIN Encoded THEN Encoded[n] ELSE n

\* the resolved target of a local link: from the repository root for a
\* root-relative link, else from the markdown file's directory
Target(f, b, root) == IF b.root THEN <<root, Unquote(b.name)>> ELSE <<Docs[f].dir, Unquote(b.name)>>

\* check_local_link returns an error when the target does not exist
LocalError(f, b, root) == Target(f, b, root) \notin Existing

\* the links the loop of check_links_in_file acts on: mailto: and the like
\* and links longer than 500 characters are skipped
Checked(f) == SelectSeq(ExtractLinks(Docs[f].lines),
                        LAMBDA l : l.url.scheme # "other" /\ ~l.url.long)

IsHttp(l) == l.url.scheme = "http"

\* one markdown file: a read failure is one broken link at line 0;
\* otherwise the broken local links in order, and the HTTP links collected
\* (or skipped under --skip-http)
FileBroken(f, root) ==
    IF ~Docs[f].readable THEN <<BrokenLink(f, 0, FileLink(f), "cannot read")>>
    ELSE LET missing == SelectSeq(Checked(f), LAMBDA l : ~IsHttp(l) /\ LocalError(f, l.url, root))
         IN [i \in 1..Len(missing) |->
               BrokenLink(f, missing[i].line, missing[i].url, "not found")]

FileHttpLinks(f, skip) ==
    IF ~Docs[f].readable \/ skip THEN <<>>
    ELSE LET h == SelectSeq(Checked(f), IsHttp)
         IN [i \in 1..Len(h) |-> [url |-> h[i].url, file |-> f, line |-> h[i].line]]

-----------------------------------------------------------------------------
(* check_http_link: HEAD, and GET when HEAD is answered 405               *)
CheckHttpLinkNoRetry(r) ==
    CASE r.head = "ok"       -> OK
      [] r.head = "405"      -> "HTTP 405"
      [] r.head = "404"      -> "HTTP 404"
      [] r.head = "urlerror" -> "URL Error"
      [] r.head = "timeout"  -> "timed out"

CheckHttpLink(r) ==
    CASE r.head = "ok"       -> OK
      [] r.head = "405"      -> IF r.get = "ok" THEN OK ELSE "get failed"
      [] r.head = "404"      -> "HTTP 404"
      [] r.head = "urlerror" -> "URL Error"
      [] r.head = "timeout"  -> "timed out"

-----------------------------------------------------------------------------
(* check_http_links_parallel                                               *)

\* url_to_occurrences: for each URL, its (file, line) pairs in order
Occurrences(links) ==
    [u \in {l.url : l \in ToSet(links)} |->
       LET mine == SelectSeq(links, LAMBDA l : l.url = u)
       IN [i \in 1..Len(mine) |-> [file |-> mine[i].file, line |-> mine[i].line]]]

UniqueUrlsAll(links) == [i \in 1..Len(links) |-> links[i].url]

\* unique_urls: the keys of url_to_occurrences in insertion order, that
\* is, in the order of first occurrence
UniqueUrls(links) ==
    LET firsts == SelectSeq([i \in 1..Len(links) |-> i],
                            LAMBDA i : \A j \in 1..i - 1 : links[j].url # links[i].url)
    IN [k \in 1..Len(firsts) |-> links[firsts[k]].url]

\* one BrokenLink per occurrence of a failed URL
FanOut(occ, u, reason) ==
    [i \in 1..Len(occ[u]) |-> BrokenLink(occ[u][i].file, occ[u][i].line, u, reason)]

=============================================================================
