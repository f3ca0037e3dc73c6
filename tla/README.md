# Verification of devloop-v2

TLA+ models of the parts of devloop-v2 whose correctness depends on the order in which things
happen, the TLC configurations that check them on small instances, and TLAPS proofs of their
most important properties for every size. Paths below are relative to the repository.

- [The system](#the-system): components, state, interactions, what is hard.
- [What is modelled](#what-is-modelled): modules, state and actions against the code.
- [Runs](#runs): what TLC checks, bounds, fairness.
- [Proofs](#proofs): theorems, inductive invariants, assumptions.
- [Disagreements](#disagreements-between-code-and-documents) with documents and comments.
- [Limits](#what-is-only-checked-and-what-is-left-out) and [Plan](#plan).

## The system

devloop-v2 turns a project's Dooray tasks, wiki pages and git history into a knowledge graph
(Neo4j) and into *Experience Memory* (a searchable wiki on disk), and answers questions about
both. It is a TypeScript monorepo of about 12,200 lines of implementation.

| Component | State it keeps | Operations | Talks to |
| --- | --- | --- | --- |
| `packages/llm` app-server client | pending requests, registered turns, the cached handshake, request counter | `complete`, `close`, message and close handlers, two kinds of timer | codex app-server over one WebSocket; every worker of a process shares it |
| `packages/llm` process and assembly | child process, socket | `start`, `complete`, `close` | spawns `codex`, polls `/readyz`, owns the client |
| `packages/llm` Responses client | none across calls | `complete` | one HTTP stream per call |
| `claude -p` adapters (api, pipeline) | none across calls | `complete` | one child process per call |
| `apps/pipeline/src/memory` | `memory/<project>`: three directories of generations, four pointer files, a cache, a lock | `normalize`, `extract`, `build`, `search` | the commands meet only on disk; `extract` calls the LLM |
| `packages/registry` | Postgres tables `project`, `source`, `concept_decision` | register, read, upsert, replace | pipeline commands |
| `apps/pipeline/src/fetch` | `data/raw/<project>`: one file per document, lists | `fetch-dooray` | the `dooray` CLI |
| `apps/pipeline/src/parse`, `concepts`, `resolve` | `parsed.jsonl`, the concept dictionary | `parse-structure`, `seed-concepts`, `resolve-graph` | files, registry |
| `apps/pipeline/src/infer` | cache directory, three jsonl files | `infer-knowledge` | LLM, files |
| `apps/pipeline/src/neo4j` | the graph | `sync-neo4j`, `reset-neo4j`, `apply-schema` | Neo4j |
| `apps/api` | none (a driver) | search, neighbours, samples, query | Neo4j, LLM |
| `apps/web` | React state | ask, search, expand, undo, browse samples | the API |

The pipeline is a chain of short-lived commands. They share no memory; what one leaves on disk,
in Postgres or in Neo4j is all the next one sees, and nothing stops a user from running two of
them at once or from killing one. Inside a process the concurrency is that of Node: promises,
timers, one socket.

Hard behaviours, and where they are:

- **Concurrent calls on one socket** (app-server client): answers and notifications come in any
  order, a notification may precede the answer that introduces its turn, timers race answers, the
  socket dies at any point, `close()` comes at any point.
- **A child process** (app-server): it may say nothing, die while it is being polled, ignore SIGTERM, outlive its owner.
- **Concurrent and killed commands over one directory** (Memory pipeline): a reader between pointer and
  generation, two writers of one generation, a lock without an owner, two pointers that should agree.
- **Transactions that overlap** (registry): a decision computed from rows read before the transaction, a DELETE
  that does not see what commits while it waits.
- **Resumption** (fetch, infer, sync): what exists is taken as done; what was half done must not be.
- **Names** (concepts, resolve): one thing has many spellings; which of them counts must not depend on what was read first, and
  must obey what people decided.
- **Reads that do not share a transaction** (api): any of a dozen calls of one query may fail, and the graph may change between two.
- **Late answers** (web): an answer that arrives when the view it was asked for is gone.

What makes each component correct:

- *app-server client*: a call settles exactly once and always; a success carries its own text, all of it,
  and only when its turn completed; calls do not affect each other; nothing is left behind.
- *app-server process*: start and stop come to an end whatever codex does; neither leaves it running.
- *Memory pipeline*: a reader sees whole, immutable generations; what a search returns leads back to the
  evidence; a complete search covers the source; extractions agree with the cache; builds exclude each
  other and give their lock back.
- *registry*: a write is all or nothing; what was accepted is in force or was overruled by someone later; a source has one owner.
- *fetch*: success means everything was collected, over any number of runs; a failure costs one item and is reported;
  what was collected stays.
- *infer*: an answer is used for the document it was given for; a failure costs one document.
- *concepts, resolve*: an end point is found at the node it means, no relationship lacks an end, judgments hold, spellings that differ in
  punctuation meet.
- *sync*: what was resolved is in the graph, and nothing else.
- *api*: a limit cuts what matters least; evidence is connected; a failed read costs as little as the code says.
- *web*: a page shows what it was asked for last.

## What is modelled

Each module names in its comments the files it stands for; `PROJECT.json` maps every definition to its lines.

| Module | Extends | Code |
| --- | --- | --- |
| `LlmTransport` | | what `llm.types.ts` promises of a call |
| `AppServerClient` | | `app-server.client.ts` |
| `AppServerTransport` | `AppServerClient` | `llm.adapter.ts`, `app-server.process.ts` |
| `DirectCalls` | | `responses.client.ts`, `responses.credentials.ts`, `llm-cli.ts`, `cli-process.ts`, `claude-cli.adapter.ts` |
| `LlmAdapters` | `AppServerTransport`, instance of `DirectCalls` | the choice of a transport in api and pipeline |
| `GenerationStore` | | what each stage of the Memory pipeline promises the next |
| `MemoryPipeline` | | `apps/pipeline/src/memory` |
| `FetchDooray` | | `ingest.service.ts` |
| `LlmExtractor` | | `infer/` |
| `ConceptDictionary` | | `concept-seeder.ts`, `dictionary.ts`, `concept-alias.ts`, `normalize.ts` |
| `StructuralGraph` | | `structural-extractor.ts`, `task-reference.ts` |
| `ResolvedGraph` | both of these | `resolve.ts`, `node-merge.ts`, `endpoint.ts` |
| `GraphPipeline` | `ResolvedGraph` | the commands `seed-concepts`, `parse-structure`, `sync-neo4j`, `reset-neo4j` as processes |
| `CurationRegistry` | | `packages/registry`, `apps/pipeline/src/registry` |
| `QueryEvidence` | | the rankings and budgets of `query.service.ts` |
| `QueryService` | `QueryEvidence` | `POST /api/query` |
| `WebPages` | `QueryService` | the three pages of `apps/web` with the requests they make |

`MC...` modules give the constants their values for TLC; `..._proofs` modules hold theorems.

### `AppServerClient` and `LlmTransport`

`AppServerClient` is `packages/llm/src/app-server.client.ts` with the server and the socket around it.

| Model | Code |
| --- | --- |
| `pc[c]`, `awaits[c]` | how far call `c` of `complete()` is and the request it awaits |
| `pendingRequests` | the map of that name; an id in it stands for the entry *and* its running timer |
| `pendingTurns`, `threadId`, `turnId`, `chunks` | the set of `PendingTurn` and their fields |
| `completion[c]`, `timeout[c]`, `raced` | the two promises of a call, and whether `Promise.race` has attached handlers to them |
| `initializing` | the cached promise of `ensureInitialized`, named by its request |
| `closed`, `conn` | the client's flag and the socket |
| `inbox`, `serverTurn`, `said`, `handshakes` | the codex app-server: unanswered requests, its turns, what it wrote |

A step is one macrotask of the event loop together with the promise jobs it wakes. Awaiting a
resolved `initialize` may wake several calls; their continuations are the `StartThread` steps, and
`Drained` keeps every other macrotask back until they ran. `complete()` is cut at its awaits:
`Complete` (to the handshake), `StartThread`, `ThreadStartResult` (registers the turn, starts the timer,
sends `turn/start`), `TurnStartResult` (`EnterRace`: the race may be decided already, and the answer may have no `turn.id`),
`HandleCompleted` and `TurnTimeout`. Rejections go through `RejectRequest` (one request and the `finally`
of the call that awaits it) and `RejectPending` (all of them). `ProcessCrash` is Node's reaction to a
promise that is rejected while nobody has attached a handler, which is the state of `completion` and
`timeout` until `Promise.race` at line 125; the constant `ThrowOnUnhandled` is Node's mode.

`LlmTransport` is the promise of `llm.types.ts`: a call settles once, with the model's whole answer to
that call after its turn completed, or with an error. `AppServerClient` is shown to implement it
(`ImplementsTransport`) under the mapping `Status`, `Verdict`.

Abstracted: text (a piece is a pair of thread and position), ids of threads and turns (the server names
the thread of call `c` as `c`; they are unique there), the check for a model, durations. A timer fires
at any time after it was started; the one ordering that durations do give is a constant: while `turn/start`
is unanswered, the turn timer can fire only if it is the shorter one (`ShortTurnTimeout`).
`send()` does not throw with the WebSocket transport, so the branch for that is left out.

### `AppServerTransport`, `DirectCalls`, `LlmAdapters`

`AppServerTransport` puts the codex process and its start and stop around the client. `start` is where
`AppServerLlmTransport.start()` or `close()` is: the process is spawned (`Launch`), its address is read (`ReadAddress`),
`/readyz` is polled (`Probe`), the socket is opened (`Connect`); each of these waits ends by a deadline or an error in `GiveUp`,
which stops the process by `KillChild` (SIGTERM, then SIGKILL in `Grace`) and waits for its exit (`Reaped`) before `start()`
rejects. Codex prints its address, becomes ready and may exit at any time; that it exits while it is polled is not noticed before
the deadline. The client's steps happen only while the transport is up or closing (`Uses`); what the server had sent before it went may
still arrive. `Signalled` and `CannotListen` are ends of the application without `close()`.

`DirectCalls` is a call over the Responses endpoint and a call of `claude -p`: `Request`, `Accepted`, `Reads`, `StreamEnds` and their
errors; `Spawn`, `Reads`, `CliExits`, `CliCloses` and theirs; one `Timeout`. The pipeline's adapter and the API's differ:
the pipeline's timer leaves a process that has exited to its close event (`late`) and wants JSON; the API does not listen to
errors of stdin, so that a `claude` that ends without reading its prompt ends the API (`down`). A response that is cut short is returned as an
answer (`cut`). Both implement `LlmTransport`, too (`DirectCallsAnswer`).

`LlmAdapters` is the choice: an application makes all its calls over one transport.

Abstracted: HTTP, credentials (read for every call, or missing), JSON lines of codex before its address, the length of deadlines,
what codex does with its configuration.

### `MemoryPipeline` and `GenerationStore`

`MemoryPipeline` is the four commands of `apps/pipeline/src/memory/cli.ts` as processes over one directory.

| Model | Code |
| --- | --- |
| `sources`, `extractions`, `wikis` | `source-generations/`, `extraction-generations/`, `wiki-generations/` |
| `current` | `current-source.json`, `current-extraction.json`, `current-wiki.json`, `latest-extraction-run.json` |
| `cache` | the extraction cache, by packet |
| `lock` | `.current-wiki.lock` |
| `run[p]` | the process in slot `p`: command, program counter, local variables |

A step is one file-system call that others can see (`Lock`, `ReadPointer`, `LoadSource`, `ReadCache`, `LinkCache`,
`InstallSource`, `PointSource`, ...), one answer of the LLM (`Answer`), or one file of the process's own temporary directory
(`WriteFile`). `Fail` is any error outside the packet loop, with the `finally` blocks; `PacketFails` is any error inside it;
`Kill` is the end of the process without them, `UnlockFails` a removal of the lock that fails in `finally`. `LinkCache` is `link(2)`: it creates the entry or finds one, which
then must hold the same bytes, else the packet fails.

Hashes are modelled as the data they are taken of. The identity of a source generation is the Dooray content and
the git revisions, *not* the evidence cut from them, so two runs may cut different evidence under one identity
(`Readings`); `Installs` is then what keeps generations immutable. An extraction is named after its manifest and a wiki
after the extraction it is rendered from.

`GenerationStore` is what each stage promises the next: whole, immutable generations, and a pointer that names one
of them. `MemoryPipeline` implements it three times (`ImplementsStores`).

Abstracted: how evidence is cut, prompts, validation of answers, rendering, ranking; the order of packets and of
the files of a generation (left open, so every order is covered); temporary directories; power loss (a completed rename is
durable); a user who removes the lock by hand. A build that is killed, or cannot remove its lock, leaves
it, and later builds are refused (`LockedOut`); no document says otherwise, and `LockReturns` is about the other builds.

### `FetchDooray`

`FetchDooray` is `fetch-dooray`: `IngestService.ingest` of `apps/pipeline/src/fetch/ingest.service.ts` and the exit code that `main.ts`
makes of its result, run after run on one directory.

| Model | Code |
| --- | --- |
| `children` | not the program's: the pages of the wiki as `wiki pages --parent` lists them, the same for all runs |
| `lists`, `posts`, `members` | `posts.json`, `tags.json`, `members.json` and what they hold |
| `docs` | `posts/*.json`, `wiki/*.json` |
| `pc`, `subject`, `attempt` | where the run is, what its call of the CLI is about, how often the call has failed |
| `todo`; `queue`, `seen` | the loops over tasks and members; the traversal of the wiki |
| `mentioned`, `names`, `changed` | ids found in `memberSources`; the member map; `membersChanged` |
| `failures` | the items of the failure list |

A step is one call of the CLI with what the code does with the answer, or one look at the disk. `Retry` is a failed attempt that is
repeated; `GivesUp` one that is not, because no delay is left or because the error came after `executeJson` (a write, a member without a
name: `Handled`). `Abort` is an error nothing catches, `Kill` the end of the process. A file appears whole by `rename`, in the step
of the call that filled it. `Start` is the next run, with or without `--limit`; a limited run may leave out any tasks
and stop after any page, whatever the number is.

Abstracted: a document is the set of members it mentions; the order of tasks, pages and members is left open; the durations of delays;
the temporary file. The CLI answers a question the same way each time, except for the task list (`PostLists`), which may grow.
Two fetches of one project at the same time are not modelled (they would share temporary files; no document allows it).

### `LlmExtractor`

`LlmExtractor` is `infer-knowledge`: `extractLlm` of `apps/pipeline/src/infer/llm-extractor.ts` and `sanitizeLlmExtractions` of
`llm-relationship-sanitizer.ts`, with several processes at a time on one data root.

| Model | Code |
| --- | --- |
| `cache` | `cache/<model>@<effort>/<document>.json`; all projects share it |
| `output` | `inferred.jsonl`, `inference-failures.json`, `inference-dropped-relationships.json` of each project |
| `pc`, `project`, `identity`, `wanted` | a process, its project, model and prompt, and the documents it is to process |
| `todo`, `results` | `cursor` and `results` of `mapConcurrent` |
| `phase`, `doc`, `attempt`, `first`, `holds` | where a worker is in `extractOne`, the document, the calls of the question at hand and of the one before, the answer |
| `pending`, `opened`, `broken` | the three `writeFile` of the end |

A step is one file-system call or one answer of the LLM. `CallFails` is a failed call that is repeated and `GivesUp` one that is not; `NeedsRepair`
sends an answer that is no extraction of the document back once. A file is written in place: `OpenEntry` and `OpenReport` empty it, and
what another process wrote in between may be mixed with what is written now (`Written`). `Fail` is an error after the documents,
`Kill` the end of the process. An end point of a relationship is a key, an id that stands for a key, or unknown (`Index`).

Abstracted: prompts and texts, the concept dictionary, nodes (they are kept as they are), back-off; a file is written by one call once it is open.
The cache key has no project in it (`docs/flow.md:181` says so too), so in a data root with two projects an answer about another project's task of the
same number is used. The model keeps the project of an answer and lets this happen; `OwnAnswers` claims the document id, the model and the prompt.

### `ConceptDictionary`, `StructuralGraph`, `ResolvedGraph`, `GraphPipeline`

Three modules of pure operators, and the commands that use them.

`ConceptDictionary`: a spelling is a model value, and the constant `Spelling` says what the normalizations make of it (its text, its key, its
rank among code points, the name in a tag, the alias of a dotted name, the texts of its parts). A dictionary is a function from canonical names to sets
of aliases. `Seeded` is `seed-concepts` (`Generated`, `Winner`, `Unconflicted`), `Composed` puts the decisions of the registry over
it, `Loads` is whether `buildConceptAliasMap` accepts the result, `Canonicals` is what a name means by it.

`StructuralGraph`: `Parsed` is the graph that the rules of `structural-extractor.ts` make of a project's documents; a text is the mentions and places in code
that the extractor finds in it. `ResolvedGraph`: `Resolved` is `resolveGraph` of that graph and the inferred one: `Normalized` for nodes,
`Targets` and `Renamed` for relationships, and `Resolves` for what stops the command. `Index` is `endpointAliases`: for everything a node is called (`Aliases`)
its qualified key, as written and in lower case, and its unqualified one. An end point is always written with its label, so an unqualified key matters where
it is itself spelled like a qualified one; the constant `Reads` says which names of concepts are (`Task:2`, `concept:foo`), `Spelled` is what they add, and such an
end point may be found at two nodes, or at the wrong one.

`GraphPipeline`: the commands as processes. `Seed`, `OpenDictionary`, `WriteDictionary`; `Parse`, `WritePart`, `WriteParsed`: files are written in place, and another
command may read what is half written. `Sync` reads the graphs, `Resolve` reads dictionary, registry and documents and resolves,
`LoadBatch` is one statement, a transaction of its own: the nodes of a label, or the relationships of a type with given labels of their ends, in the
code's order (`Batches`). `Reset` deletes everything. `Stop` is an error or a signal anywhere. Around them, documents, inferences and
decisions change (`Fetch`, `Infer`, `Decide`).

Abstracted: properties of nodes, kinds of concepts, texts; relationships of a type that has an identifying property always carry it. A torn
`inferred.jsonl`, or a record of `parsed.jsonl` that is cut, only keeps a sync from starting. Counts (of a reset, at a sync's end) are reads.
`resolve-graph`, `audit` and `--dry-run` read only. `apply-schema` creates constraints the graph already meets by the keys of MERGE.

### `CurationRegistry`

`import-curation` and `register-project` as processes with statements of their own against one PostgreSQL at READ COMMITTED.

| Model | Code |
| --- | --- |
| `db` | committed rows of `project`, `source`, `concept_decision` |
| `writes[p]` | rows that the open transaction of `p` has written, and so locked |
| `pc`, `job`, `rows`, `next` | where a command is, its arguments, the places in its file of the decisions it applies, the place from which it has yet to insert |
| `doomed`, `removed` | rows its DELETE has yet to remove, and has removed |
| `late` (history) | rows others have committed since it read the table |

`Prepare` is `prepareInput` with `rejectDuplicate` (`Accepted`), `Compare` reads the table before the transaction of an upsert
and keeps what differs (`Changed`), `Delete`, `RemoveRow` and `Deleted` are the DELETE of a replace, `InsertRow` one row of `ON CONFLICT DO UPDATE`,
`InsertProject`, `InsertSource` and `ForeignSource` the two `ON CONFLICT DO NOTHING`. PostgreSQL is external: a row that another transaction has written
waits (`Held`), a DELETE sees the rows that were there when it began, and when it has waited for one that another replace has removed, what was
inserted in its place is not its own to remove. `Fails` is a lost connection, the victim of a deadlock or a kill; the answer to a commit may be lost.
Initially the tables hold anything that is consistent.

Abstracted: the values of rows; previews compute what an import would do and change nothing; `export-curation` reads only; migrations.

### `QueryEvidence`, `QueryService`, `WebPages`

`QueryEvidence` has the pure parts of `query.service.ts`: anchors by reciprocal rank and label quotas (`RankAnchorCandidates`), comments that
count for their tasks (`PromoteCommentAnchors`), the evidence within its budget (`RefineQueryEvidence`, `TakeWithinBudget`), the evidence in
the prompt (`BuildAnswerEvidencePayload`). A node is its id, its label, the rank of its name and the length it is serialized to.

`QueryService` is `POST /api/query`, stage by stage: terms, the searches all at once, promotion, counts, Cypher, its execution, one regeneration, the
evidence of an aggregation, comments, relationships, the answer, or the fallback to the anchors. Every call of the model and every read of Neo4j may
fail, with the consequence it has in the code; the graph may change between any two (`GraphChanges`). One query is enough, as two share only the graph.

`WebPages` puts the pages over it. The question page awaits the query; the connection may be lost while it runs (`QuestionBreaks`). Explorer and schema map await reads, whose answers are computed in the step in which
they arrive, or are lost; samples are counted in a step before (`SamplesCounted`), as the two statements are transactions of their own. `ExpandNode`, `ExpansionArrives`, `UndoExpansion`, `SelectSearchResult`, `SelectType`, `TurnPage`, ... are the
handlers. What the pages guard against is kept (`loading`, `expanding`, `sampleRequestId`), and what they do not (an answer for a view that is gone) happens.

Abstracted: texts of prompts and answers, citations, diagnostics, counts of decisions, focus and layout, samples of relationships, the mock API.

## Runs

| Run | Question | Instance |
| --- | --- | --- |
| `llm_calls` | Over any transport: does any order of answers, pieces, failures, timers, exits, `close()` and a lost socket mix texts, leave a call, a turn or a timer behind, spoil the handshake, or keep `start()` and `close()` from ending with codex gone? Do client and direct calls implement `LlmTransport`? | 2 calls, 3 transports, 1 piece per turn, 2 per direct answer, Node's default mode, short turn timer, fairness (520,954 states) |
| `client_crash` | *violated:* does the process survive a failing call? | 2 calls |
| `memory_race` | Do racing, failing and killed commands keep builds apart and extractions in agreement with the cache? | 2 slots, 2 packets, 2 answers per packet, 2 extracts, 2 builds (1.84 million states) |
| `memory_trace` | Are generations immutable and whole, wikis traceable, complete searches complete, while normalize cuts different evidence? Does a build that is not killed give its lock back? | 2 slots, 2 packets, 2 readings, 2 normalizes, kills, fairness (255,500 states) |
| `fetch_runs` | Is everything there when a run exits with 0, whatever happened to it and to the runs before, and is the end always reached? Is every failure and every broken entry reported? | 2 tasks, 2 pages in a circle, lists that may have an entry without a number or an id, 2 members, 1 retry, 3 runs, fairness (544,462 states) |
| `fetch_members` | *violated:* does exit code 0 mean that the members of the project are there? | 2 runs, a member nobody mentions |
| `infer_resume` | Is each document processed by one worker, are the calls counted, does the run end? Does a second run ask only the rest, and is every document and relationship accounted for? | 2 workers, 2 documents, 2 runs, all documents or one, fairness (79,158 states) |
| `infer_cache` | Is an answer from a shared cache for the prompt of the run? | 2 processes, 2 projects, 2 prompts, 2 attempts (276,320 states) |
| `graph_pipeline` | Is what is sent to Neo4j closed, is an end point tied to the node it means, do unknown spellings meet, do judgments and tags keep their meaning, and does a sync leave what it resolved and nothing else, whatever runs beside it or stops it? | 2 slots, 3 commands, 1 change, 4 collections, 2 sets of decisions, 32 spellings (315,984 states) |
| `registry_imports` | Is an import in force as a whole, or overruled by someone later, or not there at all? Is a registration? | 2 processes, 2 projects, 1 source, 2 keys, 2 values, 3 files, any earlier table (2.79 million states) |
| `web_pages` | Do limits cut what matters least, is evidence connected, do pages show what they were asked for last, does every request end? | 2 questions, 3 pages, 2 graphs, failures anywhere, 1 change, fairness (246,502 states) |
| `query_fallback` | *violated:* are the anchors what is answered from when the Cypher has failed twice? | 1 question |

Deleting a graph and syncing again is the repair that `docs/data-schema.md` names; `SyncIsExact` says that it leaves exactly what the files say.

**Bounds.** Two calls are enough for every interaction of the client: its shared state (handshake, sets of requests and turns,
socket) is touched by one call at a time, and each property relates one call to the shared state or two calls to each other.
Two pieces let order and loss show in the calls that share nothing; over the resident server one piece per turn and another call's piece do. `MaxDeltas`
bounds only what the server writes; request ids are not bounded, and the proofs carry no bound.
In the Memory pipeline, two process slots with several starts per command (`MaxRuns`) give every pairing of commands, also a command that
starts after another died; two packets are what a partial selection, a failed packet beside a successful one, and a second
evidence reading need. In `FetchDooray` a run may stop at every step, so two runs show what one leaves to the next, and the third whether that is kept
up; two pages that name each other are the smallest wiki in which a traversal can go round, and one
retry tells a first, a repeated and a last attempt apart. A page list with an entry without an id fails every run without `--limit`, so whether the wiki has one is chosen at the start
(`children`): the runs on a wiki without one may succeed. In `LlmExtractor` two workers and two documents are one race for the cursor, and two processes
one race for a file; the `infer_cache` instance looks at one of the reports only (`Reports`), since the other two do not touch the cache.

In the graph pipeline three commands in two slots are a sync beside another sync, a reset or a writer of its input, with one more before or after, and one change (`MaxChanges`) around them. Its
four collections exercise a few rules each (people and comments; a tag, a parent and mentions; a place in the code and pages below each other; a title), and the 32
spellings are those of nine names, a dotted one, a tag with a dimension and three that are spelled like end points among them, with their variants in case and punctuation. A half-written
`parsed.jsonl` is cut after its lists or after the relationships of a task (`Halves`; the proofs take any cut). Two imports or registrations at a time show every conflict of two transactions; two keys and files that agree, differ and repeat a spelling tell
upsert and replace apart. The query's limits are scaled, not dropped: 2 anchors of up to 3 hits a search (for 8), quotas of
0 to 1 tasks, exactly 1 page, 0 to 1 concepts, an evidence budget of 8 and a ceiling of 4 (for 60,000 and 80), a prompt of 11 with a reserve of 5, brackets and commas counted (`Serialized`), one comment per task (for 8); each limit cuts something off in some
state of the run.

**Deadlock** checking is off: the systems do stop, when every call has settled or every command was started.

**Symmetry** is used over calls, process slots, LLM answers and registry values, and only in runs without liveness.

**Fairness.** `AdaptersFairSpec` assumes that promise jobs run, that timers fire, that Node ends a process with an unhandled rejection,
that SIGKILL ends a child and that the output of an exited child comes to its end. Nothing is assumed of codex, the
network, a model or the application: calls, `start()` and `close()` must settle without them.
`MemoryPipeline!Fairness` is weak fairness of each process: an awaited file-system call or LLM call (which has its own
timeout) settles. `FetchDooray` assumes weak fairness of `Ingest`: a call of the CLI or of the file system returns. `LlmExtractor`
assumes it of each worker and of the end of each process, for the same reason: an LLM call has a timeout.
`WebPages!FairSpec` assumes that a query goes on (calls of the model have a timeout, the driver's reads settle) and that each
awaited request settles, with an answer or an error. The graph pipeline and the registry claim no liveness: what breaks a deadlock of two transactions is PostgreSQL.

**Mutants.** Definitions named `X_...` are `X` with a plausible mistake; each property is violated when one of them replaces `X`.

## Proofs

Eight modules hold the theorems: `AppServerClient_proofs`, `LlmAdapters_proofs`, `MemoryPipeline_proofs`, `FetchDooray_proofs`, `LlmExtractor_proofs`,
`GraphPipeline_proofs`, `CurationRegistry_proofs` and `WebPages_proofs`. Each theorem is about the specification that the runs check, for every value of the constants that meets
the named assumptions: any number of calls, processes, documents, names, rows, questions.

*Client.* `IInv` is the type invariant and, for each call, what each program counter implies about the request it awaits, the two promises, the registered turn and
the server's turn; and for each request in flight, whose it is and how it relates to its subject's state. The properties alone are not
inductive: that a text is complete when `turn/completed` arrives rests on the turn having been registered before the server knew of it and on nothing
but `HandleDelta` touching its pieces; that a late answer does no harm rests on ids being handed out once. From `IInv` follow `TypeCorrect`,
`AnswersAreOwnAndComplete`, `NobodyIsOrphaned`, `HandshakeRecovers`, `NothingSurvivesClose`, and these together as `NothingIsStuck`; `RacedTimeoutIsReported`
(for Node's default mode), `ConcurrentCallsAreIsolated` and `ClientImplementsTransport`. They speak of the client with an environment that may do
at any time what `AppServerTransport` lets it do at some.

*Adapters.* Every step of `AdaptersSpec` is a step of the client or leaves it alone, so the client's invariant, `NothingStuck` and the refinement carry over (`AdaptersLeaveNothingStuck`,
`AdaptersImplementTransport`). `LifeInv` adds to `ServerReaped` when there has been a process: none before it is launched, one ever after; every other value of `start` leaves
the rest to what codex does, which is why `Reaped` waits for the exit (`NoServerIsLeftBehind`). For direct calls, `PieceInv` says that a call has read a prefix of what was
written to it and returned all of it; with the mapping `Status`, `Verdict` each step of `DirectCalls` is one of `LlmTransport` (`DirectCallsImplementTransport`).

*Memory pipeline.* `IInv` says what a process may rely on at each point: a name it read is the name of a whole generation on disk, the packets it counts are in its source's
evidence, what it counts as done is cached, whoever is inside `withBuildLock` holds the only lock. It is preserved by other processes because steps only
add to the disk and to the cache (`Grows`). From it follow `TypeCorrect`, `BuildsExclude`, `WikisAreTraceable`, `SearchesAreComplete`,
`ExtractionsAgree` and `PipelineImplementsStores`.

*Fetch.* `IInv` says, for each point of a run, where everything is that was found: a task is to do, at hand, stored or in the failure list
(`PostsOf`); a page is in the queue, at hand, stored or in the failure list, and so are its children (`PagesOf`); a member is named, to do, at hand or
in the failure list, and the map in memory contains the one on disk (`MembersOf`). `SuccessIsComplete` speaks of the disk and the wiki only; the
step to it is that `seen` is closed under children when the queue is empty and nothing failed. From `IInv` follow `TypeCorrect`, `FailuresAreReported`,
`SuccessMeansComplete` and `CollectionGrows` (what was collected stays), for any wiki, any project and any number of runs.

*Infer.* `IInv` adds to the type invariant and `EachDocumentOnce` how the calls of a busy worker relate to the calls made about its document
(`WorkerPart`), that a result was the answer to its own question (`DocumentPart`), that a cache entry carries the identity of its
answer (`CachePart`), and that what an undisturbed process found in the cache is still there until it takes it (`FreshPart`): its own workers
write only entries of documents that were not in the cache. From it follow `TypeCorrect`, `DocumentsAreShared`, `AnswersAreOwn`, `CallsAreReported` and
`ResumeAsksTheRest`, for any number of processes, workers and documents. `DocumentsAreAccounted` adds what is on disk while a run writes its reports (`ReportPart`): a report that it has written and
that nobody else has opened is its own. It is stated for a run that writes all three reports (`Reports`), with marks for an absent and a torn file that are not reports themselves.

*Graph pipeline.* `FilesInv` is the type invariant with where the files come from: a `parsed.jsonl` is what `Parsed` makes of some documents, or cut off; a dictionary is a
dictionary; what a sync has resolved has its ends. The rest of `Closed`, `EndsKeepTheirNode` and `SpellingsMeet` are facts of the operators, for any spellings, dictionaries and graphs: an end
that `Renamed` keeps is found at a node of the index; two nodes that the dictionary or the merge gives one name are one node, since an entry that two canonical names share keeps the
dictionary from loading, so that only an unqualified name can add another one (`EndPointsAreFound`); and `Precedes` is a strict total order on spellings, so that
one of them represents all that have its key. `NamesKeepTheirMeaning` follows how `Seeded`, `Unconflicted` and `Composed` treat names that people judged. For `SyncsAddUp`,
`SyncInv` splits what a sync resolved into batches that are sent and batches that are not (`SentOK`), and says that it is due (`DueOK`); the invariant is preserved by other syncs
since they only add, and by a reset since it marks the syncs it disturbs.

*Registry.* `IInv` says, for each command, what its transaction has written, and so locked. A row has one writer (`Exclusive`). A registration has written only rows that are not there, and whatever it found
there stays (`RegistrationOf`). An import has written exactly the rows it removed and those of the decisions it has come to, each with its value (`ImportOf`); what an upsert skipped was in
the table when it read it and has stayed, or is among `late` (`SkippedOf`); what a replace is not going to remove came in after its DELETE had begun (`ReplacedOf`). Neither property is inductive alone: that a successful import is in force
rests on no other command being able to commit a row that this one has written. From it follow `RegistryTypeCorrect`, `ImportsStayWhole` and `RegistrationsStayWhole`, for any number of commands, files and rows.

*API and web.* First the operators: under a strict total order `Sorted` gives a sequence in that order (`LinearOn`, `InOrder`); what a budget takes of it is a prefix, the longest one that fits
(`Longest`), also when a larger pool is cut (`CutOfMore`); quotas take of each label what the label is sure of. These give `LimitsAreFair`, with `AnchorsOK`, which says where the anchors come from.
`QueryInv` follows one query: `ServiceOK` (types; all evidence is of graphs that were stored), `AnswerOK` (an answer is made of the evidence as it was then), and, as long as the graph has not changed, that the tasks of the
evidence have their comments and its nodes their relationships from the stage on that reads them (`CommentsRead`, `RelationshipsRead`). From it `EvidenceComesTogether`. `PagesInv` adds
`CanvasOK` (a canvas is a graph and contains its answer; so do the views to go back to, and so does the one that an awaited expansion will put there), `QuestionOK` and `SamplesOK` (only the
request with the latest number may fill the page, and it is for the selected type). From it `PagesTypeCorrect` and `PagesStayWhole`.

All rest on the named assumptions about the constants, which TLC evaluates in every run. Most only give a constant its type. Those that say more, and why the code justifies them:

| Assumption | Says | Because |
| --- | --- | --- |
| all | the mark for "nothing" is none of the things | `undefined`, `null` and an absent file are not values |
| `FetchAssumption` | tasks and pages have different ids | they are files of two directories |
| `NameAssumption` | normalizing twice changes nothing more; a tag's dimension adds to its key; a name's parts are shorter than names with the tag's key; ranks differ | what `normalize.ts` does to strings: digits of a dimension are kept in the key, and code-point order is total |
| `ReadsAssumption` | a name that is spelled like an end point is so in lower case, too | `normalizeText` of a text that is spelled so |
| `PipelineAssumption` (graph) | documents, inferences and decisions are well-formed and finitely many; two decisions have different keys | the schemas that the readers check, and the unique constraint of the registry |
| `EvidenceAssumption` | limits are positive, no quota's minimum exceeds its maximum, the reserve fits the prompt | the constants of `query.service.ts` and `query.const.ts` |
| `QueryAssumption` | a graph is finite and relationships have their ends in it; ids identify; nodes are told apart by their display rank; relationships are not serialized to nothing; a search has at most `MaxHits` hits; the minima of the quotas fit the anchor limit | Neo4j; `uniqueNodes`; ties of the displayed name are broken by id, so that the rank is of both; `LIMIT` of the full-text query; minima of 2 under a limit of 8 |
| `RegistryAssumption` | a file holds decisions of one project | the schema of the file |
| `ExtractorAssumption` | a worker belongs to one process; an extraction has at least one attempt | `mapConcurrent`, the loop of `extractOne` |

That a node keeps its text while the graph changes (`QueryAssumption` identifies a node by its id alone) is an abstraction: what may change is which nodes and relationships there are.

## Disagreements between code and documents

Checked, each by a run that TLC ends with a counterexample:

1. **A failing call can end the process** (`client_crash`). `completion` and `timeout` get their first handler at `Promise.race`
   (`app-server.client.ts:125`), after `turn/start` was answered. A lost connection, or a failed turn, before that answer rejects `completion`
   without a handler. `docs/flow.md:307` promises that one failure does not stop the whole run.
2. **A fetch can succeed without the project's members** (`fetch_members`). When `member list` fails, the members that documents mention are looked up
   one by one and written to `members.json` (`ingest.service.ts:186`); the next run takes that file as the whole list and exits with 0.
   `docs/flow.md:311` says that collection requires success as a whole; `parse-structure` makes a `Person` of every entry of the file.
3. **A query whose Cypher fails twice is answered from nothing** (`query_fallback`). `refineQueryEvidence` is given no evidence and takes an anchor only if a
   relationship of the evidence ties it to a node of the evidence (`query.service.ts:109`). `docs/flow.md:315` says that the anchors are what is answered from.

Met in the models, without a run of their own:

- A turn timer shorter than the request timer fires before the turn's id is known, and `interrupt()` (`app-server.client.ts:224`) sends
  nothing; the comment at line 102 says that this is what must not happen. `RacedTimeoutInterrupts` claims it for calls that race.
- A killed extract leaves its two pointers naming different runs; `docs/flow.md:71` says they never do.
- A name with the same text in two entries of the dictionary stops every sync, also when people blocked its key: only conflicts of keys look at
  blocks (`concept-alias.ts:22`), while the error (`:58`) recommends one.
- `app.listen()` rejecting after codex was started leaves codex behind (`apps/api/src/main.ts:11`): `CannotListen`.
- Two replaces at once may leave rows of both files (`curation.service.ts:56`): `ImportsAreWhole` excepts what was committed after the replace had begun.
- A read of the evidence that fails rejects a query whose rows are there (`query.service.ts:131`); two anchors that came in late may lack the relationship between them (`query.service.ts:354`). `EvidenceIsConnected` leaves those out.
- A concept that a model called `Task:2` makes every relationship of task 2 ambiguous, since the index of end points has qualified and unqualified keys in one Map (`endpoint.ts:24`),
  and a structural one stops the sync (`:46`); `docs/flow.md:314` and `:326` know of missing ends only. `EndsKeepTheirNode` leaves out end points that a concept is called like, and shows that there is no other way.
- The cache of `infer-knowledge` answers another project's document of the same number (`llm-extractor.ts:149`).
- A dictionary file may hold a document's tag as an alias of another name, left by a decision made once and since withdrawn (`Contested`);
  `seed-concepts` keeps or drops what it finds there (`concept-seeder.ts:71`), so the tag has no meaning of its own until it runs again.
  `TagsResolve` leaves such a tag out.
- A killed build leaves its lock (`wiki-builder.ts:287`), and so does one whose removal of the lock fails (`:291`); two extracts may end in the opposite order of their start, and the last one to end is the current one
  (`extraction-generation-publisher.ts:162`).

## What is only checked, and what is left out

Only model-checked: the liveness properties `AdaptersSettle`, `LockReturns`, `EveryRunEnds` (of two modules) and `EveryRequestEnds`, as fairness and ENABLED are out of the prover's reach; and the
violated claims. Every invariant and every action property of a run is proved.

Not modelled, because there is no state or order in it that could go wrong: schemas and configuration, prompts, rendering, layout, fixtures and the mock API, the
evaluation scripts, `apply-schema`, read-only commands (`resolve-graph`, `audit`, `export-curation`), NestJS modules and controllers.
Not modelled of a component that is: how evidence is cut from git (`git-source.ts`), lexical ranking, rendering of wiki pages; resolution of
tool paths; kinds and properties of concepts; the header of GitHub hook comments (it is cut from a stored text).

## Plan

Done, checked and proved: every module above, with all invariants and action properties of the runs.

What is left, in this order:

1. The actions of `QueryService` against a shorter abstract specification of a query (asked, answered from evidence of one graph, or rejected), shown by refinement.
2. Which writes a `Kill` between the two pointers of an extract leaves to the next one, as a theorem beside `SearchesAreComplete`.
3. `export-curation`, the order in which a replace and its readers see each other, and `git-source.ts`, for which a file is either taken whole or reported.
