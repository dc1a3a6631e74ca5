---------------------------- MODULE LinkChecker ----------------------------
(***************************************************************************)
(* scripts/check_links.py, step by step: main's loop over the markdown     *)
(* files, then check_http_links_parallel with a pool of MaxWorkers threads *)
(* that take the submitted checks in order and complete them in any order, *)
(* and the as_completed loop that fans failures out, then the report.      *)
(***************************************************************************)
EXTENDS LinkCheckOps, Bags

Workers == 1..MaxWorkers
Idle == <<>>            \* running[w] of a thread with no task; <<u>> otherwise
NoResult == "pending"   \* a future that has not completed

VARIABLES
    mdFiles,      \* md_files, collected from the arguments
    repoRoot,     \* repo_root: --repo-root or find_repo_root(md_files[0])
    skipHttp,     \* --skip-http
    phase,        \* "local", "http", "report" or "done"
    todoFiles,    \* md_files not yet checked
    allBroken,    \* all_broken: BrokenLink records, in the order appended
    httpLinks,    \* http_links_to_check: [url, file, line]
    occurrences,  \* url_to_occurrences: url -> <<[file, line], ...>>
    queue,        \* the executor's work queue: URLs submitted, not started
    running,      \* running[w]: <<u>> while thread w checks u, or Idle
    result,       \* result[u]: the outcome of u's future, or NoResult
    consumed,     \* the futures as_completed has yielded
    requests,     \* requests[u]: how many checks of u were started
    exitCode      \* main's return value, -1 while running

vars == <<mdFiles, repoRoot, skipHttp, phase, todoFiles, allBroken, httpLinks, occurrences,
          queue, running, result, consumed, requests, exitCode>>

-----------------------------------------------------------------------------
Init ==
    /\ \E s \in Starts : mdFiles = s.files /\ repoRoot = s.root
    /\ skipHttp \in BOOLEAN
    /\ phase = "local"
    /\ todoFiles = mdFiles
    /\ allBroken = <<>>
    /\ httpLinks = <<>>
    /\ occurrences = <<>>
    /\ queue = <<>>
    /\ running = [w \in Workers |-> Idle]
    /\ result = <<>>
    /\ consumed = {}
    /\ requests = <<>>
    /\ exitCode = -1

\* `if not md_files`: "No markdown files found.", return 1
NoFiles ==
    /\ phase = "local" /\ mdFiles = <<>>
    /\ phase' = "done"
    /\ exitCode' = 1
    /\ UNCHANGED <<mdFiles, repoRoot, skipHttp, todoFiles, allBroken, httpLinks, occurrences,
                   queue, running, result, consumed, requests>>

\* one iteration of main's loop: check_links_in_file of the next file
CheckFile ==
    /\ phase = "local" /\ todoFiles # <<>>
    /\ LET f == Head(todoFiles) IN
       /\ allBroken' = allBroken \o FileBroken(f, repoRoot)
       /\ httpLinks' = httpLinks \o FileHttpLinks(f, skipHttp)
    /\ todoFiles' = Tail(todoFiles)
    /\ UNCHANGED <<mdFiles, repoRoot, skipHttp, phase, occurrences, queue, running, result,
                   consumed, requests, exitCode>>

\* `if http_links_to_check` is false: straight to the report
NoHttpLinks ==
    /\ phase = "local" /\ mdFiles # <<>> /\ todoFiles = <<>> /\ httpLinks = <<>>
    /\ phase' = "report"
    /\ UNCHANGED <<mdFiles, repoRoot, skipHttp, todoFiles, allBroken, httpLinks, occurrences,
                   queue, running, result, consumed, requests, exitCode>>

\* deduplicate and submit one future per unique URL
SubmitAll ==
    /\ phase = "local" /\ todoFiles = <<>> /\ httpLinks # <<>>
    /\ LET urls == UniqueUrls(httpLinks) IN
       /\ occurrences' = Occurrences(httpLinks)
       /\ queue' = urls
       /\ result' = [u \in ToSet(urls) |-> NoResult]
       /\ requests' = [u \in ToSet(urls) |-> 0]
    /\ phase' = "http"
    /\ UNCHANGED <<mdFiles, repoRoot, skipHttp, todoFiles, allBroken, httpLinks, running,
                   consumed, exitCode>>

\* an idle pool thread takes the next submitted call
WorkerStart(w) ==
    /\ running[w] = Idle /\ queue # <<>>
    /\ running' = [running EXCEPT ![w] = <<Head(queue)>>]
    /\ requests' = [requests EXCEPT ![Head(queue)] = @ + 1]
    /\ queue' = Tail(queue)
    /\ UNCHANGED <<mdFiles, repoRoot, skipHttp, phase, todoFiles, allBroken, httpLinks,
                   occurrences, result, consumed, exitCode>>

\* the call returns (within HTTP_TIMEOUT per request) and its future completes
WorkerFinish(w) ==
    /\ running[w] # Idle
    /\ LET u == running[w][1] IN
       \E r \in Responses[u] : result' = [result EXCEPT ![u] = CheckHttpLink(r)]
    /\ running' = [running EXCEPT ![w] = Idle]
    /\ UNCHANGED <<mdFiles, repoRoot, skipHttp, phase, todoFiles, allBroken, httpLinks,
                   occurrences, queue, consumed, requests, exitCode>>

\* as_completed yields a completed future; an error is fanned out to every
\* occurrence of its URL
Collect ==
    /\ phase = "http"
    /\ \E u \in DOMAIN result :
         /\ result[u] # NoResult /\ u \notin consumed
         /\ consumed' = consumed \cup {u}
         /\ allBroken' = IF result[u] = OK THEN allBroken
                         ELSE allBroken \o FanOut(occurrences, u, result[u])
    /\ UNCHANGED <<mdFiles, repoRoot, skipHttp, phase, todoFiles, httpLinks, occurrences,
                   queue, running, result, requests, exitCode>>

\* every future has been yielded; the executor is shut down
EndHttp ==
    /\ phase = "http" /\ consumed = DOMAIN result
    /\ \A w \in Workers : running[w] = Idle
    /\ phase' = "report"
    /\ UNCHANGED <<mdFiles, repoRoot, skipHttp, todoFiles, allBroken, httpLinks, occurrences,
                   queue, running, result, consumed, requests, exitCode>>

ReportCount ==
    /\ phase = "report"
    /\ exitCode' = Len(allBroken)
    /\ phase' = "done"
    /\ UNCHANGED <<mdFiles, repoRoot, skipHttp, todoFiles, allBroken, httpLinks, occurrences,
                   queue, running, result, consumed, requests>>

ReportBeforeHttp ==
    /\ phase = "report"
    /\ exitCode' = IF SelectSeq(allBroken, LAMBDA b : b.link.scheme # "http") # <<>> THEN 1 ELSE 0
    /\ phase' = "done"
    /\ UNCHANGED <<mdFiles, repoRoot, skipHttp, todoFiles, allBroken, httpLinks, occurrences,
                   queue, running, result, consumed, requests>>

\* report the broken links; return 1 if there are any, else 0
Report ==
    /\ phase = "report"
    /\ exitCode' = IF allBroken # <<>> THEN 1 ELSE 0
    /\ phase' = "done"
    /\ UNCHANGED <<mdFiles, repoRoot, skipHttp, todoFiles, allBroken, httpLinks, occurrences,
                   queue, running, result, consumed, requests>>

Next ==
    \/ NoFiles \/ CheckFile \/ NoHttpLinks \/ SubmitAll
    \/ \E w \in Workers : WorkerStart(w) \/ WorkerFinish(w)
    \/ Collect \/ EndHttp \/ Report

Spec == Init /\ [][Next]_vars

-----------------------------------------------------------------------------
\* every URL a step may hold: what the files link to over HTTP
HttpUrls == {l.url : l \in UNION {ToSet(ExtractLinks(Docs[f].lines)) : f \in DOMAIN Docs}}

TypeOK ==
    /\ phase \in {"local", "http", "report", "done"}
    /\ skipHttp \in BOOLEAN
    /\ DOMAIN result = DOMAIN requests
    /\ DOMAIN result \subseteq HttpUrls
    /\ consumed \subseteq DOMAIN result
    /\ \A w \in Workers : running[w] = Idle \/ (Len(running[w]) = 1 /\ running[w][1] \in DOMAIN result)
    /\ exitCode \in {-1, 0, 1}
    /\ (exitCode = -1) <=> (phase # "done")

\* Spec 6: a URL that occurs many times, in one file or in several, is
\* requested once (the url_to_occurrences deduplication before submit).
CheckedOnce == \A u \in DOMAIN requests : requests[u] <= 1

\* check_http_links_parallel checks each URL once and fans its verdict out
\* to every place the URL occurs: when main returns, the HTTP entries of a
\* URL are none of its occurrences or all of them, one entry per place,
\* with one reason; and they are there only if the URL's server can fail
\* HEAD and, after a 405 (the GET retry of check_http_link), GET as well.
HttpVerdictPerUrl ==
    LET urls == {h.url : h \in ToSet(httpLinks)}
    IN phase = "done" =>
       /\ \A j \in DOMAIN allBroken : allBroken[j].link.scheme = "http" => allBroken[j].link \in urls
       /\ \A u \in urls :
            LET places == {i \in DOMAIN httpLinks : httpLinks[i].url = u}
                entries == {j \in DOMAIN allBroken : allBroken[j].link = u}
            IN entries # {} =>
                 /\ Cardinality(entries) = Cardinality(places)
                 /\ \A i \in places : \E j \in entries :
                       allBroken[j].file = httpLinks[i].file /\ allBroken[j].line = httpLinks[i].line
                 /\ \A j, k \in entries : allBroken[j].reason = allBroken[k].reason
                 /\ \E r \in Responses[u] : ~(r.head = "ok" \/ (r.head = "405" /\ r.get = "ok"))

\* A link as the document writes it: every [text](url) and <a href="url">,
\* and a [ref]: url definition that starts its line.
Written(ls, n, p) == ls[n][p].k \in {"md", "html"} \/ (ls[n][p].k = "ref" /\ p = 1)

\* Every local link of a readable file given to main whose target does not
\* exist, and that is not a mailto:-style or over-long link, is reported
\* for that file: the three regex passes of extract_links_with_lines
\* between them find every link.
EveryMissingTargetReported ==
    phase = "done" =>
       \A i \in 1..Len(mdFiles) :
          LET f == mdFiles[i]
              ls == Docs[f].lines
          IN Docs[f].readable =>
               \A n \in DOMAIN ls : \A p \in DOMAIN ls[n] :
                  LET b == ls[n][p].url.base IN
                  (/\ Written(ls, n, p) /\ b.scheme = "path" /\ b.name # "" /\ ~b.long
                   /\ LocalError(f, b, repoRoot))
                     => \E j \in 1..Len(allBroken) : allBroken[j].file = f /\ allBroken[j].link = b

\* extract_links_with_lines returns the links "with their line numbers":
\* every broken link reported at a line of a file is at a line of that file
\* that holds the link.
ReportedAtItsLine ==
    \A i \in 1..Len(allBroken) :
       LET e == allBroken[i]
           ls == Docs[e.file].lines
       IN e.line > 0 =>
            /\ e.line \in DOMAIN ls
            /\ \E p \in DOMAIN ls[e.line] : ls[e.line][p].url.base = e.link

\* The threaded run implements LinkCheckSpec: the multiset of broken links
\* main reports, and its exit status, are those of checking each distinct
\* URL once and fanning the outcome out to all its occurrences, whatever
\* the order in which the pool completes the checks and as_completed
\* yields them.
LCS == INSTANCE LinkCheckSpec
         WITH broken <- IF phase = "done" THEN ToBag(allBroken) ELSE EmptyBag

RefinesLinkCheckSpec == LCS!Spec

=============================================================================
