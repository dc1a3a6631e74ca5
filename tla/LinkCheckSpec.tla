--------------------------- MODULE LinkCheckSpec ---------------------------
(***************************************************************************)
(* What one run of scripts/check_links.py promises, as one atomic step:    *)
(* the broken local links of every readable file, a "cannot read" entry   *)
(* for every unreadable one, and for the HTTP links one outcome per        *)
(* distinct URL ("checked once"), given to every occurrence of that URL    *)
(* ("fanned back out").  broken is a bag: the concurrent checks carry no   *)
(* ordering guarantee, so only how often each entry occurs is promised.    *)
(***************************************************************************)
EXTENDS LinkCheckOps, Bags

VARIABLES mdFiles, repoRoot, skipHttp, broken, exitCode

vars == <<mdFiles, repoRoot, skipHttp, broken, exitCode>>

\* what main's loop over md_files collects, in order: the broken local links
\* and the HTTP links to check
LocalBroken == FlattenSeq([i \in 1..Len(mdFiles) |-> FileBroken(mdFiles[i], repoRoot)])
HttpLinksToCheck == FlattenSeq([i \in 1..Len(mdFiles) |-> FileHttpLinks(mdFiles[i], skipHttp)])

\* the outcomes each URL's server may produce, one per URL
Outcomes(links) ==
    LET urls == {l.url : l \in ToSet(links)}
        reasons == {CheckHttpLink(r) : r \in UNION {Responses[u] : u \in urls}}
    IN {res \in [urls -> reasons] :
          \A u \in urls : \E r \in Responses[u] : res[u] = CheckHttpLink(r)}

\* the HTTP occurrences whose URL failed, each with its URL's reason
HttpBroken(links, res) ==
    LET bad == SelectSeq(links, LAMBDA l : res[l.url] # OK)
    IN [i \in 1..Len(bad) |-> BrokenLink(bad[i].file, bad[i].line, bad[i].url, res[bad[i].url])]

Init ==
    /\ \E s \in Starts : mdFiles = s.files /\ repoRoot = s.root
    /\ skipHttp \in BOOLEAN
    /\ broken = EmptyBag
    /\ exitCode = -1

Check ==
    /\ exitCode = -1
    /\ IF mdFiles = <<>>
         THEN broken' = EmptyBag /\ exitCode' = 1
         ELSE \E res \in Outcomes(HttpLinksToCheck) :
                   /\ broken' = ToBag(LocalBroken \o HttpBroken(HttpLinksToCheck, res))
                   /\ exitCode' = IF broken' # EmptyBag THEN 1 ELSE 0
    /\ UNCHANGED <<mdFiles, repoRoot, skipHttp>>

Spec == Init /\ [][Check]_vars

=============================================================================
