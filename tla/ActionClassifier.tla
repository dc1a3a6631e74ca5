-------------------------- MODULE ActionClassifier --------------------------
(***************************************************************************)
(* The action classifier of scripts/generate_postman_collection.py:        *)
(* ROLE_FILTERS / matches_role_filter, extract_action_from_filename,       *)
(* extract_action_from_folder and the role -> action table of              *)
(* generate_collection.                                                    *)
(*                                                                         *)
(* A file name (with ".json" removed) or a folder name is a sequence of    *)
(* tokens: words, and the separators "-" and "_".  Words are atomic: every *)
(* regex piece of the code ([a-z]+, \d+, a literal such as "-request")     *)
(* either matches a whole word or none of it.  Lower[w] is w in lower case, *)
(* used wherever the code passes re.IGNORECASE; plain `in` and             *)
(* `startswith` tests compare words exactly, as Python does.               *)
(*                                                                         *)
(* The component is a pure function; its state is one call: the name      *)
(* given to it and what every role and layout makes of it.                 *)
(***************************************************************************)
EXTENDS Sequences, SequencesExt

CONSTANTS
    Words,       \* the words names are made of
    Lower,       \* Lower[w]: the lower-case form of word w
    DigitWords,  \* the words matching \d+ ; every other word matches [a-z]+
    Names        \* the candidate names the classifier is called with

VARIABLES name, result
vars == <<name, result>>

Seps == {"-", "_"}
None == "None"
Roles == {"BAP", "BPP", "UtilityBPP"}
Structures == {"folders", "flat"}

BAP_ACTIONS == {"discover", "select", "init", "confirm", "status",
                "update", "track", "rating", "support", "cancel"}
BPP_INITIATED_ACTIONS == {"publish"}
BPP_ACTIONS == {"on_" \o a : a \in BAP_ACTIONS}

\* action_mapping of generate_collection: the actions a role's collection has
ActionMapping(role) ==
    CASE role = "BAP"        -> BAP_ACTIONS
      [] role = "BPP"        -> BPP_ACTIONS \cup BPP_INITIATED_ACTIONS
      [] role = "UtilityBPP" -> BAP_ACTIONS

-----------------------------------------------------------------------------
(* Token-level reading of the regexes.                                     *)

\* token i of n, "" past its end
Tok(n, i) == IF i \in 1..Len(n) THEN n[i] ELSE ""
\* the token under re.IGNORECASE
L(t) == IF t \in Words THEN Lower[t] ELSE t
IsDigits(t) == t \in DigitWords
IsAlpha(t) == t \in Words \ DigitWords
\* `"-" + w in name`, case-sensitive
HasInfix(n, w) == \E i \in 2..Len(n) : n[i-1] = "-" /\ n[i] = w
\* re.search of "-" + w with re.IGNORECASE
HasInfixI(n, w) == \E i \in 2..Len(n) : n[i-1] = "-" /\ L(n[i]) = w
\* name.startswith(w + "-"), case-sensitive
StartsWith(n, w) == Tok(n, 1) = w /\ Tok(n, 2) = "-"
\* (?i)^w- : the same test ignoring case
StartsWithI(n, w) == L(Tok(n, 1)) = w /\ Tok(n, 2) = "-"
\* (?i)([a-z]+)-suffix with the [a-z]+ group at token i
GroupBefore(n, i, suffix) ==
    IsAlpha(Tok(n, i)) /\ Tok(n, i + 1) = "-" /\ L(Tok(n, i + 2)) = suffix
\* (?i)on[-_] at token i
OnAt(n, i) == L(Tok(n, i)) = "on" /\ Tok(n, i + 1) \in Seps
\* the string a token sequence spells
Join(n) == FoldLeft(LAMBDA acc, t : acc \o t, "", n)
\* the first alternative of a regex that matches, in the order re tries
\* them; the last one (with ok FALSE) when none does
FirstMatch(alts) ==
    LET ok == SelectSeq(alts, LAMBDA a : a.ok) IN
    IF ok = <<>> THEN Last(alts) ELSE Head(ok)

-----------------------------------------------------------------------------
(* ROLE_FILTERS, tried with re.match(pattern, filename, re.IGNORECASE).    *)
MatchesRoleFilter(n, role) ==
    CASE role = "BAP" ->
           \/ HasInfixI(n, "request")                          \* .*-request.*
           \/ /\ Len(n) = 3 /\ IsDigits(n[1]) /\ n[2] = "_"    \* ^\d+_(act)$
              /\ L(n[3]) \in BAP_ACTIONS
           \/ L(n[1]) \in BAP_ACTIONS                          \* ^(act).*
      [] role = "BPP" ->
           \/ ~StartsWithI(n, "cascaded") /\ HasInfixI(n, "response")
           \/ /\ IsDigits(n[1]) /\ Tok(n, 2) = "_" /\ OnAt(n, 3)  \* ^\d+_on_(act)
              /\ Tok(n, 4) = "_" /\ L(Tok(n, 5)) \in BAP_ACTIONS
           \/ OnAt(n, 1) /\ L(Tok(n, 3)) \in BAP_ACTIONS           \* ^on[-_](act)
           \/ StartsWithI(n, "publish")                            \* ^publish-
      [] role = "UtilityBPP" -> StartsWithI(n, "cascaded")         \* ^cascaded-

(* extract_action_from_filename *)
\* BAP: re.match(r'^(cascaded-)?([a-z]+)-request', name, re.I), group 2
BapGroup(n) ==
    FirstMatch(<< [ok |-> StartsWithI(n, "cascaded") /\ GroupBefore(n, 3, "request"),
                   act |-> Tok(n, 3)],
                  [ok |-> GroupBefore(n, 1, "request"), act |-> Tok(n, 1)] >>)
\* BPP: re.match(r'^(cascaded-)?(on[-_])?([a-z]+)-response', name, re.I)
BppGroups(n) ==
    FirstMatch(<< [ok |-> StartsWithI(n, "cascaded") /\ OnAt(n, 3)
                          /\ GroupBefore(n, 5, "response"),
                   on |-> TRUE, act |-> Tok(n, 5)],
                  [ok |-> StartsWithI(n, "cascaded") /\ GroupBefore(n, 3, "response"),
                   on |-> FALSE, act |-> Tok(n, 3)],
                  [ok |-> OnAt(n, 1) /\ GroupBefore(n, 3, "response"),
                   on |-> TRUE, act |-> Tok(n, 3)],
                  [ok |-> GroupBefore(n, 1, "response"),
                   on |-> FALSE, act |-> Tok(n, 1)] >>)

ExtractBap(n) ==
    LET g == BapGroup(n) IN
    IF /\ HasInfix(n, "request") /\ ~HasInfix(n, "response")
       /\ g.ok /\ g.act \in BAP_ACTIONS
    THEN g.act ELSE None

\* mutant: only on-prefixed responses give an action
ExtractBppOnOnly(n) ==
    LET g == BppGroups(n) IN
    IF StartsWith(n, "publish") THEN "publish"
    ELSE IF /\ HasInfix(n, "response") /\ ~HasInfix(n, "request") /\ g.ok
            /\ g.on /\ "on_" \o g.act \in BPP_ACTIONS
         THEN "on_" \o g.act
         ELSE None

ExtractBpp(n) ==
    LET g == BppGroups(n) IN
    IF StartsWith(n, "publish") THEN "publish"   \* (publish)- always matches here
    ELSE IF /\ HasInfix(n, "response") /\ ~HasInfix(n, "request") /\ g.ok
            /\ \/ g.on /\ "on_" \o g.act \in BPP_ACTIONS
               \/ ~g.on /\ g.act \in BAP_ACTIONS
         THEN "on_" \o g.act
         ELSE None

\* UtilityBPP: re.match(r'^cascaded-([a-z]+)-request', name, re.I), group 1
ExtractUtility(n) ==
    IF /\ StartsWith(n, "cascaded") /\ HasInfix(n, "request")
       /\ GroupBefore(n, 3, "request") /\ Tok(n, 3) \in BAP_ACTIONS
    THEN Tok(n, 3) ELSE None

ExtractActionFromFilename(n, role) ==
    CASE role = "BAP"        -> ExtractBap(n)
      [] role = "BPP"        -> ExtractBpp(n)
      [] role = "UtilityBPP" -> ExtractUtility(n)

\* mutant: the optional (?:_\d+) group left out of the pattern
FolderRestOneNumber(n) ==
    FirstMatch(<< [ok |-> IsDigits(Tok(n, 1)) /\ Tok(n, 2) = "_" /\ Len(n) >= 3,
                   rest |-> SubSeq(n, 3, Len(n))] >>)

(* extract_action_from_folder: re.match(r'^\d+(?:_\d+)?_(.+)$', folder) *)
FolderRest(n) ==
    FirstMatch(<< [ok |-> /\ IsDigits(Tok(n, 1)) /\ Tok(n, 2) = "_"
                          /\ IsDigits(Tok(n, 3)) /\ Tok(n, 4) = "_" /\ Len(n) >= 5,
                   rest |-> SubSeq(n, 5, Len(n))],
                  [ok |-> IsDigits(Tok(n, 1)) /\ Tok(n, 2) = "_" /\ Len(n) >= 3,
                   rest |-> SubSeq(n, 3, Len(n))] >>)

\* mutant: BPP folders accept the request actions as well
FolderVocabularyBppBoth(role) ==
    CASE role = "BAP"        -> BAP_ACTIONS
      [] role = "BPP"        -> BPP_ACTIONS \cup BAP_ACTIONS
      [] role = "UtilityBPP" -> BAP_ACTIONS

FolderVocabulary(role) ==
    CASE role = "BAP"        -> BAP_ACTIONS
      [] role = "BPP"        -> BPP_ACTIONS
      [] role = "UtilityBPP" -> BAP_ACTIONS

\* mutant: the `in valid_actions` check dropped
ExtractActionFromFolderAnyRest(n, role) ==
    LET m == FolderRest(n) IN IF m.ok THEN Join(m.rest) ELSE None

ExtractActionFromFolder(n, role) ==
    LET m == FolderRest(n) IN
    IF m.ok /\ Join(m.rest) \in FolderVocabulary(role)
    THEN Join(m.rest) ELSE None

\* what scan_examples_directory makes of a name: the folder rule for the
\* "folders" layout, the role filter then the file-name rule for "flat"
Classify(n, role, structure) ==
    IF structure = "folders" THEN ExtractActionFromFolder(n, role)
    ELSE IF MatchesRoleFilter(n, role) THEN ExtractActionFromFilename(n, role)
    ELSE None

-----------------------------------------------------------------------------
(* One call of the classifier on a name, for every role and layout.        *)
\* no call made yet
NotYet == <<>>

Init == name \in Names /\ result = NotYet

ClassifyName ==
    /\ result = NotYet
    /\ result' = [r \in Roles |-> [s \in Structures |-> Classify(name, r, s)]]
    /\ UNCHANGED name

Next == ClassifyName
Spec == Init /\ [][Next]_vars

-----------------------------------------------------------------------------
(* Properties.                                                             *)
Classified == result # NotYet
Outcome(r, s) == result[r][s]

TypeOK ==
    /\ name \in [1..Len(name) -> Words \cup Seps]
    /\ \/ result = NotYet
       \/ result \in [Roles -> [Structures ->
                       BAP_ACTIONS \cup BPP_ACTIONS \cup BPP_INITIATED_ACTIONS \cup {None}]]

\* n is a folder name <digits>_rest or <digits>_<digits>_rest
FolderPrefixed(n, rest) ==
    \E d1, d2 \in DigitWords : n = <<d1, "_">> \o rest \/ n = <<d1, "_", d2, "_">> \o rest

(* The naming examples of the specification (section 8), over every action:
   folder NN_X / NN_MM_X gives X to BAP and UtilityBPP and NN_on_X gives on_X
   to BPP; X-request gives X to BAP and nothing to BPP; X-response and
   on-X-response give on_X to BPP; cascaded-X-request gives X to UtilityBPP;
   publish-* gives publish to BPP.  Each needs the role filter and the
   extractor of scan_examples_directory to agree.                          *)
SpecNamingExamples ==
    Classified =>
      /\ \A x \in BAP_ACTIONS :
           /\ FolderPrefixed(name, <<x>>) =>
                 Outcome("BAP", "folders") = x /\ Outcome("UtilityBPP", "folders") = x
           /\ FolderPrefixed(name, <<"on", "_", x>>) =>
                 Outcome("BPP", "folders") = "on_" \o x
           /\ name = <<x, "-", "request">> =>
                 Outcome("BAP", "flat") = x /\ Outcome("BPP", "flat") = None
           /\ name \in {<<x, "-", "response">>, <<"on", "-", x, "-", "response">>} =>
                 Outcome("BPP", "flat") = "on_" \o x
           /\ name = <<"cascaded", "-", x, "-", "request">> =>
                 Outcome("UtilityBPP", "flat") = x
      /\ StartsWith(name, "publish") => Outcome("BPP", "flat") = "publish"

\* the name with every request word turned into a response word
ToResponse(n) == [i \in DOMAIN n |-> IF L(n[i]) = "request" THEN "response" ELSE n[i]]

(* A flat request example and its response counterpart pair up: when BAP
   takes a non-cascaded name as action X, the same name with "request"
   replaced by "response" is taken by BPP as on_X.  This ties the BAP and
   BPP rules of extract_action_from_filename and the BPP role filter.      *)
RequestResponsePairing ==
    Classified /\ Outcome("BAP", "flat") # None /\ ~StartsWithI(name, "cascaded")
      => Classify(ToResponse(name), "BPP", "flat") = "on_" \o Outcome("BAP", "flat")

(* Every action the classifier yields for a role is one of the actions
   generate_collection builds folders for; any other is "Found" by the scan
   and then silently dropped by the `action not in action_mapping` check.  *)
ClassifiedActionRoutable ==
    Classified =>
      \A r \in Roles, s \in Structures :
        Outcome(r, s) # None => Outcome(r, s) \in ActionMapping(r)

\* every word of the name in lower case
LowerName(n) == [i \in DOMAIN n |-> L(n[i])]

(* Specification 4.1: "Matching is case-insensitive throughout": a name
   and its lower-case form are classified alike by every role and layout. *)
CaseInsensitiveMatching ==
    Classified =>
      \A r \in Roles, s \in Structures : Outcome(r, s) = Classify(LowerName(name), r, s)

(* Specification 4.1, Responder rule 2: an optional leading "cascaded-" is
   stripped, so cascaded-X-response is taken by BPP as on_X.              *)
CascadedResponseAccepted ==
    Classified =>
      \A x \in BAP_ACTIONS :
        name = <<"cascaded", "-", x, "-", "response">> => Outcome("BPP", "flat") = "on_" \o x

=============================================================================
