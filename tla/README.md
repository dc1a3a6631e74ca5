# TLA+ models of the DEG scripts

This directory models the three scripts of this repository with TLA+ and
checks them with TLC:
- the Postman-collection generator, `src/scripts/generate_postman_collection.py`;
- the link checker, `check_links.py`, with its thread pool;
- the JSON embedder, `embed_example_json.py`.

## The system

`generate_postman_collection.py` turns a directory of example Beckn messages
into one Postman collection for one devkit and one role (BAP, BPP or
UtilityBPP). A run is a single thread and goes through these parts in order:

| Part | Code | State it changes |
|---|---|---|
| Example scanner | `scan_examples_directory` (459–519) | `actions_map`: action → list of (path, name), built in the order the file system lists entries |
| Action classifier | `ROLE_FILTERS`, `matches_role_filter`, `extract_action_from_filename`, `extract_action_from_folder` (132–308) | none (pure) |
| Example loader | `load_example_json` (323–344) | none (a file is a dict with `context` and `message`, or it is skipped) |
| Context transformer | `replace_context_macros` (347–406) | none (pure) |
| Request builder | `create_postman_request` (409–456) | none (pure) |
| Assembler and writer | `generate_collection` (549–676) | `collection_items`, `action_items`, the output file |
| Variables and pre-request script | `get_collection_variables` (522–546), `PRE_REQUEST_SCRIPT` (183–187) | none |
| Validation step | `main` (763–788) | none (it reports only) |

The parts interact as follows:
- The scanner classifies each folder (ev-charging, "folders" layout) or each file (other devkits, "flat" layout) and groups the files by action.
- The assembler takes the union of the found actions and the role's action table, in sorted order. For each action it builds one request per loadable file, in sorted path order, and emits a folder only if that folder has requests.
- The collection is written, and `main` may then hand the returned path to the external schema validator.

What is hard here:
- The output must not depend on the order of directory listings.
- The classifier's role filters and extractors must agree with each other and with the role's action table.
- The transformer must template every envelope field, and nothing else.
- The empty-result and load-failure paths decide whether a file is written and what `main` validates.

The other two scripts:
- `check_links.py` runs in these steps:
  - `main` builds `md_files` from its arguments: a name that exists is taken as it is, any other is globbed. Without `--repo-root` it takes the repository root from the first file, walking up to a `.git` directory (`find_repo_root`).
  - `main` checks every markdown file in turn. `check_links_in_file` reports missing local targets at once and collects the HTTP links.
  - `check_http_links_parallel` deduplicates the URLs and submits one `check_http_link` per URL to a `ThreadPoolExecutor` of 10 threads. That call sends HEAD, and GET after a 405.
  - In the order `as_completed` yields the futures, each failed URL's reason is fanned out to every occurrence of the URL.
  - `main` exits 1 if anything is broken.
  - This is the only concurrent code in the repository.
- `embed_example_json.py` handles the `<details>` blocks whose link contains `json`:
  - It finds them with a lazy regex, and the ``` fences with a second regex.
  - It rewrites every block whose start lies outside a fence, giving it a ```json fence that holds the referenced file. Any bad link aborts with `SystemExit`.
  - Unless this is a dry run or nothing matched, it writes the file back. People run it again whenever an example file changes.

The schema validator, `validate_schema`, is not in `src/`. The generator imports it only if it is present.

## Modules

| Module | Models | State / actions |
|---|---|---|
| `ActionClassifier` | the classifier | `name` (the input), `result` (what every role and layout makes of it); one action `ClassifyName` |
| `ContextMacros` | the context transformer | `doc`, `out`; one action `Transform` |
| `PostmanCollection` | DEVKIT_CONFIGS layouts, the loader, the request builder, the variables and the event | operators only; it instances the two modules above |
| `CollectionSpec` | what one run promises | `examples`, `devkit`, `role`, `output`, `finished`; one atomic step `Generate` |
| `CollectionGenerator` | one run, step by step | scan, build, validate and done phases; one action per loop body and per branch of the code (listed below) |
| `LinkCheckOps` | `check_links.py`'s pure parts | operators: `Starts` (`CollectMdFiles`, `RepoRoot`, `FindRepoRoot`), `ExtractLinks`, `FileBroken`, `FileHttpLinks` (`check_links_in_file` with `check_local_link`), `CheckHttpLink`, `Occurrences`, `UniqueUrls`, `FanOut` |
| `LinkCheckSpec` | what one link-check run promises | `mdFiles`, `repoRoot`, `skipHttp`, `broken` (a bag), `exitCode`; one atomic step `Check` that picks one outcome per distinct URL |
| `LinkChecker` | one link-check run with its pool | `mdFiles`, `repoRoot`, `phase`, `todoFiles`, `allBroken`, `httpLinks`, `occurrences`, `queue`, `running` (per thread), `result` (per future), `consumed`, `requests`, `exitCode`; actions `NoFiles`, `CheckFile`, `NoHttpLinks`, `SubmitAll`, `WorkerStart(w)`, `WorkerFinish(w)`, `Collect`, `EndHttp`, `Report` |
| `EmbedExampleJson` | the embedder, run repeatedly | `exists`, `text`, `version` (of each JSON file), `runs`, `outcome`, `justWritten`; one action per exit of `main` (`MarkdownMissing`, `BlockError`, `NoBlocks`, `DryRun`, `Write`), plus `EditJson(l)` for someone editing an example between runs |
| `MC*` | the TLC instances | constants and small universes |

How the pieces are represented:
- **Names.** A name is a sequence of tokens: words, `-` and `_`. Every regex piece of the code (`[a-z]+`, `\d+`, `-request`) matches a whole word or none of it. `Lower[w]` models `re.IGNORECASE`, and the plain `in` and `startswith` tests compare words exactly, as Python does. Regex alternatives are tried in the order `re` tries them (`FirstMatch`).
- **JSON values** are tagged records: `obj`, `arr` or `str`. Numbers, booleans and null act as `str` does, because the transformer treats them the same. `replace_context_macros` and its `new_context` loop are two mutually `RECURSIVE` operators.
- **Examples directory.** This is a record `[exists, folders, files]`:
  - `folders` maps folder ids to names.
  - `files` maps paths, numbered in the order Python compares `Path`s, to `[dir, name, content]`. `dir` is a folder id, or `Root` for a file directly under the examples root.
  - `content` is a parsed JSON value, or `Unparsable`.
- **Listing order.** `iterdir()` and `glob()` order is free. A scan step takes any pending entry, and a folder's files are appended in any order (`SetToSeqs`).

The actions of `CollectionGenerator` and the code each one stands for:
- `ScanFolderEntry` and `ScanFlatFile` are one iteration of the two loops of `scan_examples_directory`.
- `NoExamples` is the `if not actions_map` exit.
- `EndScan` computes `all_actions`.
- `StartAction` is the head of the folder loop, including its `not in action_mapping` skip and `sorted(files_list)`.
- `SkipUnloadable` and `BuildRequest` are the request loop body.
- `EndAction` is `if action_items`.
- `WriteCollection` builds and writes the collection.
- `ValidationSkipped`, `ValidatorUnavailable` and `RunValidation` are the three branches of `main` after the call.

How the link checker is represented:
- A markdown file is `[readable, dir, lines]`. Each line is a sequence of tokens: `md` for `[text](url)`, `html` for `<a href="url">`, `ref` for `[ref]: url`, or `text`. A blank line is `<<>>`, and a URL is split at `#`.
- `ExtractLinks` models `extract_links_with_lines`:
  - it makes three passes, the markdown links in document order, then the HTML links, then the definitions that start a line;
  - it drops pure anchors;
  - each match gets the line of its first character. For a definition that is the first of the blank lines right before it, because `^\s*` runs over them (`RefMatchLine`).
- `Starts` models what `main` starts from, the pair of `md_files` and `repo_root`:
  - `CollectMdFiles` expands the argument list, and a glob's matches come in any order;
  - `RepoRoot` is `--repo-root`, or else `FindRepoRoot` of the first file. The walk (`GitAncestor`) goes up through `Parent` and never looks at the file-system root itself.
- A URL's server is the set of `[head, get]` answers it may give.
- The pool is modelled as follows:
  - The executor's queue is FIFO.
  - An idle thread takes the head of the queue (`WorkerStart`), and the call completes with any answer of the server (`WorkerFinish`).
  - `Collect` yields any completed future that has not been consumed yet, which is what `as_completed` does.
  - `EndHttp` is the `with` block's shutdown, which waits for every thread.
- `LinkChecker` refines `LinkCheckSpec` under this mapping: `broken` is `ToBag(allBroken)` once `main` has returned, and empty before.

How the embedder is represented:
- The text is a sequence of tokens: a json details header `Header(l)`, a non-json details header, `</details>`, ```, prose, and `Json(l, v)`, which is version `v` of file `l`.
- `FenceRanges` and `Inside` are `CODE_FENCE_PATTERN` and `_inside`. `DetailsMatches` is `DETAILS_PATTERN.finditer`: from a json header, lazily to the next `</details>`, and the search resumes after it.
- `Subst` and `Replacement` are `subn` and `_replacement`.
- A link is `LinkPath[l]`: root-relative or not, a number of `..` steps, and a file name. The directories form a small tree given by `Parent`.
  - `RepoRoot` is `parents[2]` of the script's directory.
  - `JsonPath` resolves a link against `RepoRoot` or the markdown file's directory.
  - `Under` is `relative_to(repo_root)`.
  - `LinkKind` gives the first `SystemExit` the link meets: outside the repository, or missing. Its empty-link case translates lines 77–78, which cannot run: `DETAILS_PATTERN`'s link group must contain `json`, so no instance has an empty json link. `Existing` holds the files that exist.
- `CheckerTarget` is `check_local_link`'s target for the same link, resolved against the checker's git root.

`PROJECT.json` maps every definition to the lines it translates.

## Runs

| Run | Checks | Result |
|---|---|---|
| `classifier` | `TypeOK`; `SpecNamingExamples` (the spec's section 8 naming rules hold for every action); `RequestResponsePairing` (if BAP takes X-request as X, then BPP takes the response form as on_X); `ClassifiedActionRoutable` (no role is given an action its collection drops) | passes; 168,420 states |
| `classifier_case` | `CaseInsensitiveMatching` (spec 4.1) | violated by `Init-request`: BAP gives None, but `init-request` gives init |
| `classifier_cascaded_response` | `CascadedResponseAccepted` (spec responder rule 2) | violated by `cascaded-init-response`, which the BPP filter rejects |
| `transformer` | `TypeOK`; `PayloadPreserved` (every position outside a templated field is kept, with its value); `EnvelopeTemplated` (every identity, time and message field of every context reached through dicts becomes a placeholder) | passes; 136,104 states |
| `transformer_nested_context` | `NestedContextTemplated` (spec 4.2: nested contexts too) | violated by a context inside a list, because lists are not walked |
| `generator` | `TypeOK`; `PlaceholdersDeclared` (every `{{…}}` in a body, and every request host, is declared or is `$guid`); `RefinesCollectionSpec` (the step-by-step run implements `CollectionSpec`, so its output does not depend on listing order) | passes; 238,949 states |
| `generator_validation_without_output` | `ValidationFollowsWrite` | violated by NoExamples followed by RunValidation: `main` validates the path `None` |
| `link_checker` | `TypeOK`; `CheckedOnce` (spec 6: every URL is requested once, however often and wherever it occurs); `HttpVerdictPerUrl` (every reported HTTP link is a link of the documents; a failing URL is reported once at each of its places, all with one reason, and only if its server can fail HEAD and, after a 405, GET); `EveryMissingTargetReported` (every local link the document writes whose target is missing is reported for its file, against the root `main` chose); `RefinesLinkCheckSpec` (the multiset of reported links and the exit status are those of one outcome per URL fanned out to all its occurrences, whatever the completion order) | passes; 1,962 states |
| `link_checker_ref_line` | `ReportedAtItsLine` (the docstring: links are returned "with their line numbers") | violated: `[ref]: missing.md` on line 5, after a blank line 4, is reported at line 4 |
| `embedder` | `TypeOK`; `Refreshed` (after a write, every json details block that markdown shows outside code holds the current JSON); `EmbeddedOutsideCode` (no embedded JSON belongs to a header that markdown shows inside code); `Idempotent` (right after a write, no run changes the file) | passes; 48,076 states |
| `embedder_then_link_check` | `WrittenFilePassesLinkCheck` (a file the embedder writes passes `check_links`: every json details link in it resolves, for the checker, to an existing file) | violated: the file shows the usage example `path/to/example.json` in a code block; the embedder skips it and writes, `check_links` reports it (it would report it in the input too) |
| `embedder_opening_example` | `Refreshed` | violated by ```, `a.json` header, ```, `a.json` header, `</details>`, `a.json` header, `</details>`: the match starting at the header in the code block runs to the first `</details>`, so the real block inside it is never refreshed |

Every property of a passing run has a mutant in `PROJECT.json`: a plausible bug in the code, which TLC then reports. Examples are the optional `_\d+` group dropped from the folder regex, a missing `return result`, no `timestamp` branch, and files left unsorted. The new runs have mutants too:
- the deduplication dropped;
- no GET retry after 405;
- the exit status computed before the HTTP results are in;
- no fence lookup;
- `_inside` counting the position just after a fence;
- the old body kept beside the new one;
- the HTML-link pass of `extract_links_with_lines` dropped.

### Bounds
- **Classifier.** Every name of one to four words over 8 words, including mixed case, `cascaded`, `publish`, a digit word and an unknown word, with both separators. This covers every rule with and without each prefix and suffix.
- **Transformer.** Every document `{context: C, message: M}`:
  - C ranges over all contexts built from `version`, `timestamp`, `ttl` and `location`. The values are scalars or dicts, and `location` may hold a context of its own.
  - M ranges over all JSON values of depth ≤ 3, with one-key dicts and one-element lists, over the keys `context`, `version` and `x`.
  - This reaches contexts under dicts, under lists, and under kept fields.
- **Generator.**
  - ev-charging: two action folders named from `01_init`, `01_on_init` and `01_otp`, and up to three files spread over the folders and the root.
  - p2p-trading: up to two root files from five names.
  - Every file is valid or unparsable, and the directory may also be missing.
  - Together these give two files in one folder (ordering), files at the root that must be skipped, folders without files, unloadable files, and actions outside the role's table.

- **Link checker.**
  - Three markdown files, one of them unreadable, in two directories under a repository directory.
  - Six argument lists:
    - a glob with no match;
    - one name;
    - a name plus a glob that matches it again, so a file is checked twice;
    - the glob alone, whose two matches come in either order;
    - three names;
    - `b.md` alone, whose only failures are HTTP links, so the exit status depends on the pool's results.
  - Each runs with `.git` present or absent, and with `--repo-root` given or not. The repository root is then the `.git` directory, the first file's own directory, or the argument.
  - `--skip-http` is on or off.
  - The files hold one URL at three places, under two fragments and in both files, and two more URLs.
  - The local links are found, missing, root-relative (found or not depending on the root), percent-encoded, or an HTML link. There is also a mailto link, a pure anchor, an over-long link, a definition after a blank line, and a `[ref]: url` that does not start its line.
  - The servers answer ok, 404, 405 then GET ok, 405 then GET failing, timeout, or URL error.
  - Two threads take three URLs, so a call waits in the queue while both threads are busy, and completions and `as_completed` interleave in every order.
- **Embedder.**
  - Every text of up to three pieces from ten: prose, a code block, a fresh block, a hand-written block, a block embedded earlier, a non-json block, a block with a nested details block, a complete usage example inside a code block, and blocks with an outside (`../../x.json`) or missing link. `b.json` is root-relative.
  - Three runs, with each existing JSON file edited at most once between them.
  - The directory tree is this repository's layout: the script in `src/scripts`, the markdown file in `docs`, `.git` in the repository directory.
  - `embedder_opening_example` adds a code block that shows only the opening of a block.
  - `embedder_then_link_check` adds the usage example `path/to/example.json` in a code block, and takes texts of up to two pieces.

### Fairness
No run checks a liveness property, and the specifications carry no fairness. Every loop of the generator is a Python `for` over a finite list, and every model is finite and acyclic. So `<>(phase = "done")` would hold under weak fairness whatever the code did, and would say nothing about it. What could really keep `check_links` from returning is a check that never ends. That depends on the socket timeouts (`check_links.py:124`), which are outside the model; the hazard list records it. The runs have `CHECK_DEADLOCK FALSE` because each script really does stop.

## Findings
1. Matching is case-sensitive in the substring, `startswith` and membership tests. This contradicts spec 4.1 ("case-insensitive throughout").
2. `cascaded-X-response` is dropped by the BPP filter, although the spec's responder rule strips `cascaded-`.
3. A context object inside a list is not templated. Spec 4.2 says the walk must not assume there are none.
4. On the empty-result path `main` validates the path `str(None)`, reports whatever the validator makes of it, and on the exception path prints "Collection was still generated successfully" (code bug).
   A missing examples directory takes the same path. It is scanned as empty and ends with exit status 0, although spec 7 calls it a fatal ConfigurationError (`generate_postman_collection.py:472`). `generator_validation_without_output` reaches this case too.
5. The embedder and the link checker disagree about code blocks (a spec gap: neither the spec nor either script says which is meant). The embedder leaves a details block inside ``` alone and writes the file (`embed_example_json.py:73`). `check_links` checks links inside code blocks too (`check_links.py:84`), so a file the embedder accepted fails the link check when it shows a usage example with a link that does not exist. The link is already in the input, so the link check fails with or without the embedder.
6. `check_links.py` reports a reference definition that follows blank lines at the first of those blank lines, not at its own line (code bug, `check_links.py:105`). Python gives `[('./missing.md', 2)]` for `'Intro text\n\n[ref]: ./missing.md\n'`.
7. A details header inside a code block with no `</details>` of its own hides the next real block from the embedder. The regex match runs to that block's end, and only the match's start is tested against the fences (`embed_example_json.py:35`, `:73`).

Also seen while modelling, with no run: if every matched file fails to load, an empty collection is written, and the spec's empty-result rule covers only zero matched files (`generate_postman_collection.py:627`); the spec does not say which outcome is right, so no property states one. And the fence regex pairs only closed ``` marks. After an unclosed ```, which markdown renders as code up to the end, the embedder rewrites the details blocks there. `EmbeddedOutsideCode` finds this on a text with an unclosed ```.

## Not modelled
- **Collection text.** The name, description, uuid, the JSON indentation of the body and the description string are text, which no property is about. The body is kept as the JSON value that `json.dumps` encodes.
- **Command line.** `argparse` is left out. The link checker's arguments are modelled as the values `main` reads: file patterns, `--skip-http` and `--repo-root`.
- **Validator.** `validate_schema` is external and is reduced to its outcomes.
- **Link text below the token.** What the three regexes accept character by character is not modelled: a link is a token of its kind. Code fences are not tokens of the link checker; the checking of example links inside ``` blocks is shown by composing the embedder's text with `check_local_link` (`WrittenFilePassesLinkCheck`).
- **The link report's layout.** This is printing. The report's grouping and per-line sort only reorder what `allBroken` holds, and `LinkCheckSpec` promises a bag.
- **Dead branches of `check_http_link`.** The `response.status >= 400` branch cannot run, because `urlopen` raises `HTTPError` for such statuses. The `except Exception` around `future.result()` cannot run either, because `check_http_link` catches every `Exception` itself. Neither is modelled.
- **Embedder encodings.** `read_text` and `--encoding` are left out, and so is whitespace (the `gap` group). Symlinks are left out of `resolve`.
- **Percent-encoding.** `check_links` unquotes a link before resolving it, and the embedder does not. A link with `%20` that passes the link check makes the embedder stop with "not found". It is left out because it only ends in `SystemExit`, never in a wrong write.
- **Transformer idempotence** (spec section 8: `transform(transform(m)) = transform(m)`). Every plausible bug of `replace_context_macros` that we tried keeps it idempotent, because a templated field is replaced by a constant placeholder. A property that no mutant breaks says nothing about the code, so it is not checked.
- **The layout of the roots.** The embedder's root is `parents[2]` of the script, and the generator's is `parent.parent`. In this repository's `src/scripts` layout the first is the repository and the second is `src/`. The model fixes this layout; the hazard list notes what changes under another one.

## Plan for later work
- **Link checker faults.** A pool thread that raises outside `check_http_link`, and larger pools and URL sets.
- **Validator.** `validate_schema` is not in the repository and stays reduced to its outcomes.
