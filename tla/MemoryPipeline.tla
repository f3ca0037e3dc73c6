---------------------------- MODULE MemoryPipeline ----------------------------
(***************************************************************************)
(* The Experience Memory pipeline of apps/pipeline/src/memory: the         *)
(* commands `normalize`, `extract`, `build` and `search` as processes over *)
(* one memory/<project> directory.  Nothing but the file system connects   *)
(* them, and nobody stops two of them from running at the same time.       *)
(*                                                                         *)
(* A step is one file-system call that others can observe, or one answer   *)
(* of the LLM; what a process does to its own temporary directory is a     *)
(* step per file.  A process may fail at any step (its `finally` blocks    *)
(* run) and may be killed at any step (they do not).  A directory or file  *)
(* that was renamed into place is durable: power loss is not modelled.     *)
(*                                                                         *)
(* Hashes are the data they are taken of.  An extraction generation is     *)
(* named after its manifest, which fixes its records, and a wiki after the *)
(* extraction it is rendered from, so both are named by their content; a   *)
(* source generation is named after the raw data and the git revisions,    *)
(* not after the evidence cut from them.                                   *)
(***************************************************************************)
EXTENDS Naturals

CONSTANTS
    Procs,        \* process slots: at most so many commands run at a time
    Sources,      \* source identities: Dooray content hash and git revisions
    Packets,      \* evidence packets; one packet has one contentHash
    Outputs,      \* validated outputs the LLM may give for a packet
    Readings,     \* per source: the evidence a normalize run may cut from it
    None,
    MaxRuns,      \* bound: per command, how often it is started
    Crashes       \* whether a process may be killed

Commands == {"normalize", "extract", "build", "search"}

ASSUME PipelineAssumption ==
    /\ None \notin Sources \cup Packets \cup Outputs
    /\ Readings \in [Sources -> SUBSET SUBSET Packets]
    /\ MaxRuns \in [Commands -> Nat]
    /\ Crashes \in BOOLEAN

VARIABLES
    sources,      \* source-generations/: [id, evidence, files]
    extractions,  \* extraction-generations/: [id, files]
    wikis,        \* wiki-generations/: [id, files]
    current,      \* the four pointer files
    cache,        \* per packet: the cached extraction output
    lock,         \* whether .current-wiki.lock exists
    run,          \* per slot: the process in it
    started       \* per command, how often it was started

disk == <<sources, extractions, wikis>>
vars == <<sources, extractions, wikis, current, cache, lock, run, started>>

-----------------------------------------------------------------------------
(* Data *)

Files == {"manifest", "body"}    \* what a generation directory consists of

\* The manifest of an extraction: `ok` holds a pair for every packet that
\* succeeded, `partial` tells whether a selector was given.
ExtractionIds ==
    [source : Sources, partial : BOOLEAN, ok : SUBSET (Packets \X Outputs),
     failed : SUBSET Packets, complete : BOOLEAN]

Ids == Sources \cup ExtractionIds

Stages == {"source", "extraction", "wiki", "run"}

\* "stuck" is a failed build that could not remove its lock.
Ended == {"idle", "done", "failed", "refused", "stuck", "killed"}

Live == {"collect", "lock", "read", "load", "packet", "call", "link", "write",
         "point", "report", "unlock", "unwind", "respond"}

\* A process; `flag` is --allow-incomplete for build and search, and for
\* extract one of the selectors --limit, --ids and --sample-per-source.
Processes ==
    [pc : Live \cup Ended, cmd : Commands \cup {None}, flag : BOOLEAN,
     at : Ids \cup {None}, evidence : SUBSET Packets, todo : SUBSET Packets,
     ok : SUBSET (Packets \X Outputs), failed : SUBSET Packets,
     packet : Packets \cup {None}, answer : Outputs \cup {None},
     files : SUBSET Files, name : Ids \cup {None}]

Blank ==
    [pc |-> "idle", cmd |-> None, flag |-> FALSE, at |-> None,
     evidence |-> {}, todo |-> {}, ok |-> {}, failed |-> {},
     packet |-> None, answer |-> None, files |-> {}, name |-> None]

Init ==
    /\ sources = {} /\ extractions = {} /\ wikis = {}
    /\ current = [k \in Stages |-> None]
    /\ cache = [k \in Packets |-> None]
    /\ lock = FALSE
    /\ run = [p \in Procs |-> Blank]
    /\ started = [c \in Commands |-> 0]

\* Process p becomes r; nobody else changes.
Becomes(p, r) == run' = [run EXCEPT ![p] = r]

\* Process p exits.
Exits(p, how) == Becomes(p, [Blank EXCEPT !.pc = how])

At(p, cmd, pc) == run[p].cmd = cmd /\ run[p].pc = pc

\* Inside the body of withBuildLock, its `finally` included.
Building(p) ==
    /\ run[p].cmd = "build"
    /\ run[p].pc \in Live \ {"lock"}

\* What the packets of an extraction or of a process were turned into.
Done(ok) == {pair[1] : pair \in ok}

-----------------------------------------------------------------------------
(* Starting, failing and being killed *)

Start(p, cmd, flag) ==
    /\ run[p].pc \in Ended
    /\ started[cmd] < MaxRuns[cmd]
    /\ flag => cmd # "normalize"
    /\ Becomes(p, [Blank EXCEPT
                     !.cmd = cmd,
                     !.flag = flag,
                     !.pc = CASE cmd = "normalize" -> "collect"
                              [] cmd = "build" -> "lock"
                              [] OTHER -> "read"])
    /\ started' = [started EXCEPT ![cmd] = @ + 1]
    /\ UNCHANGED <<disk, current, cache, lock>>

\* Mutant: withBuildLock without its `finally`.
Fail_KeepsLock(p) ==
    /\ run[p].pc \in {"collect", "lock", "read", "load", "write", "point",
                      "report", "respond"}
    /\ Exits(p, "failed")
    /\ UNCHANGED <<disk, current, cache, lock, started>>

\* An error outside the packet loop ends the command; a build that has the
\* lock removes it on its way out.
Fail(p) ==
    /\ run[p].pc \in {"collect", "lock", "read", "load", "write", "point",
                      "report", "respond"}
    /\ IF Building(p)
         THEN Becomes(p, [run[p] EXCEPT !.pc = "unwind"])
         ELSE Exits(p, "failed")
    /\ UNCHANGED <<disk, current, cache, lock, started>>

Kill(p) ==
    /\ Crashes
    /\ run[p].pc \in Live
    /\ Exits(p, "killed")
    /\ UNCHANGED <<disk, current, cache, lock, started>>

-----------------------------------------------------------------------------
(* Reading the stage before *)

\* Dooray and git are read to the end before anything is published.
Collect(p) ==
    /\ At(p, "normalize", "collect")
    /\ \E s \in Sources : \E evidence \in Readings[s] :
          Becomes(p, [run[p] EXCEPT !.pc = "write", !.name = s,
                                    !.evidence = evidence])
    /\ UNCHANGED <<disk, current, cache, lock, started>>

\* Mutant: mkdir(lockDirectory, { recursive: true }) finds the lock and goes on.
Lock_Recursive(p) ==
    /\ At(p, "build", "lock")
    /\ lock' = TRUE
    /\ Becomes(p, [run[p] EXCEPT !.pc = "read"])
    /\ UNCHANGED <<disk, current, cache, started>>

Lock(p) ==
    /\ At(p, "build", "lock")
    /\ ~lock
    /\ lock' = TRUE
    /\ Becomes(p, [run[p] EXCEPT !.pc = "read"])
    /\ UNCHANGED <<disk, current, cache, started>>

LockedOut(p) ==
    /\ At(p, "build", "lock")
    /\ lock
    /\ Exits(p, "refused")
    /\ UNCHANGED <<disk, current, cache, lock, started>>

InputOf(cmd) == CASE cmd = "extract" -> "source"
                  [] cmd = "build" -> "extraction"
                  [] OTHER -> "wiki"

\* Mutant: a missing pointer file is read as an empty one.
ReadPointer_Unchecked(p) ==
    /\ run[p].pc = "read"
    /\ Becomes(p, [run[p] EXCEPT !.pc = "load",
                                 !.at = current[InputOf(run[p].cmd)]])
    /\ UNCHANGED <<disk, current, cache, lock, started>>

\* The pointer file; without one the command can only fail.
ReadPointer(p) ==
    /\ run[p].pc = "read"
    /\ current[InputOf(run[p].cmd)] # None
    /\ Becomes(p, [run[p] EXCEPT !.pc = "load",
                                 !.at = current[InputOf(run[p].cmd)]])
    /\ UNCHANGED <<disk, current, cache, lock, started>>

\* readCurrentSource and selectPackets.
LoadSource(p) ==
    /\ At(p, "extract", "load")
    /\ \E g \in sources :
          /\ g.id = run[p].at /\ g.files = Files
          /\ \E todo \in SUBSET g.evidence :
                /\ ~run[p].flag => todo = g.evidence
                /\ Becomes(p, [run[p] EXCEPT !.pc = "packet", !.todo = todo,
                                             !.evidence = g.evidence])
    /\ UNCHANGED <<disk, current, cache, lock, started>>

\* buildMemoryWiki up to writeGeneration.
LoadExtraction(p) ==
    /\ At(p, "build", "load")
    /\ \E g \in extractions :
          /\ g.id = run[p].at /\ g.files = Files
          /\ g.id.complete \/ run[p].flag
          /\ Becomes(p, [run[p] EXCEPT !.pc = "write", !.name = g.id])
    /\ UNCHANGED <<disk, current, cache, lock, started>>

\* searchMemory: the index is read, and refused when it is incomplete.
LoadWiki(p) ==
    /\ At(p, "search", "load")
    /\ \E g \in wikis :
          /\ g.id = run[p].at /\ g.files = Files
          /\ g.id.complete \/ run[p].flag
          /\ Becomes(p, [run[p] EXCEPT !.pc = "respond"])
    /\ UNCHANGED <<disk, current, cache, lock, started>>

Respond(p) ==
    /\ At(p, "search", "respond")
    /\ Exits(p, "done")
    /\ UNCHANGED <<disk, current, cache, lock, started>>

-----------------------------------------------------------------------------
(* The packet loop of extract; the order of the packets is left open *)

PacketSucceeds(p, k, o) ==
    Becomes(p, [run[p] EXCEPT !.pc = "packet", !.packet = None,
                              !.answer = None, !.todo = @ \ {k},
                              !.ok = @ \cup {<<k, o>>}])

\* readExtractionCache: a hit needs no call.
ReadCache(p, k) ==
    /\ run[p].pc = "packet"
    /\ k \in run[p].todo
    /\ IF cache[k] # None
         THEN PacketSucceeds(p, k, cache[k])
         ELSE Becomes(p, [run[p] EXCEPT !.pc = "call", !.packet = k])
    /\ UNCHANGED <<disk, current, cache, lock, started>>

\* The LLM answered and the answer passed parseLlmOutput and resolveDrafts.
Answer(p, o) ==
    /\ run[p].pc = "call"
    /\ Becomes(p, [run[p] EXCEPT !.pc = "link", !.answer = o])
    /\ UNCHANGED <<disk, current, cache, lock, started>>

\* Mutant: rename() instead of link() replaces an entry that is there.
LinkCache_Overwrites(p) ==
    LET k == run[p].packet
        o == run[p].answer
    IN  /\ run[p].pc = "link"
        /\ cache' = [cache EXCEPT ![k] = o]
        /\ PacketSucceeds(p, k, o)
        /\ UNCHANGED <<disk, current, lock, started>>

\* writeExtractionCache: link() creates the entry or finds one, which then
\* must hold the same bytes.
LinkCache(p) ==
    LET k == run[p].packet
        o == run[p].answer
    IN  /\ run[p].pc = "link"
        /\ cache[k] \in {None, o}
        /\ cache' = [cache EXCEPT ![k] = o]
        /\ PacketSucceeds(p, k, o)
        /\ UNCHANGED <<disk, current, lock, started>>

\* Whatever goes wrong with a packet (cache, LLM, validation, a cache entry
\* with other bytes) is recorded, and the loop goes on.
PacketFails(p) ==
    /\ run[p].pc \in {"packet", "call", "link"}
    /\ \E k \in run[p].todo :
          /\ run[p].pc # "packet" => k = run[p].packet
          /\ Becomes(p, [run[p] EXCEPT !.pc = "packet", !.packet = None,
                                       !.answer = None, !.todo = @ \ {k},
                                       !.failed = @ \cup {k}])
    /\ UNCHANGED <<disk, current, cache, lock, started>>

\* Mutant: `complete` only asks whether a packet failed.
ManifestOf_AnySelection(r) ==
    [source |-> r.at, partial |-> r.flag, ok |-> r.ok, failed |-> r.failed,
     complete |-> r.failed = {}]

ManifestOf(r) ==
    [source |-> r.at, partial |-> r.flag, ok |-> r.ok, failed |-> r.failed,
     complete |-> ~r.flag /\ r.failed = {}]

\* The loop is over: the generation gets its name.
Extracted(p) ==
    /\ run[p].pc = "packet"
    /\ run[p].todo = {}
    /\ Becomes(p, [run[p] EXCEPT !.pc = "write", !.name = ManifestOf(run[p])])
    /\ UNCHANGED <<disk, current, cache, lock, started>>

-----------------------------------------------------------------------------
(* Publishing *)

\* One file of the temporary directory; the order of the files is left open.
WriteFile(p, f) ==
    /\ run[p].pc = "write"
    /\ f \notin run[p].files
    /\ Becomes(p, [run[p] EXCEPT !.files = @ \cup {f}])
    /\ UNCHANGED <<disk, current, cache, lock, started>>

\* Mutant: a directory of that name is replaced.
Installs_Replaces(d, here, there) ==
    there = {g \in here : g.id # d.id} \cup {d}

\* rename(temporary, directory): `there` after it, given `here` before it and
\* the directory `d`.  A directory of that name must have the same bytes.
Installs(d, here, there) ==
    IF \E g \in here : g.id = d.id
      THEN d \in here /\ there = here
      ELSE there = here \cup {d}

\* Mutant: only one of the files is awaited and validated.
Renames_FirstFile(p, cmd) ==
    /\ At(p, cmd, "write")
    /\ run[p].files # {}
    /\ Becomes(p, [run[p] EXCEPT !.pc = "point"])
    /\ UNCHANGED <<current, cache, lock, started>>

\* validateGeneration passed: every file was there.
Renames(p, cmd) ==
    /\ At(p, cmd, "write")
    /\ run[p].files = Files
    /\ Becomes(p, [run[p] EXCEPT !.pc = "point"])
    /\ UNCHANGED <<current, cache, lock, started>>

InstallSource(p) ==
    /\ Renames(p, "normalize")
    /\ Installs([id |-> run[p].name, evidence |-> run[p].evidence,
                 files |-> run[p].files], sources, sources')
    /\ UNCHANGED <<extractions, wikis>>

InstallExtraction(p) ==
    /\ Renames(p, "extract")
    /\ Installs([id |-> run[p].name, files |-> run[p].files],
                extractions, extractions')
    /\ UNCHANGED <<sources, wikis>>

InstallWiki(p) ==
    /\ Renames(p, "build")
    /\ Installs([id |-> run[p].name, files |-> run[p].files], wikis, wikis')
    /\ UNCHANGED <<sources, extractions>>

\* replacePointer: the pointer file is written aside and renamed.
Replaces(p, stage) ==
    /\ current' = [current EXCEPT ![stage] = run[p].name]
    /\ UNCHANGED <<disk, cache, lock, started>>

PointSource(p) ==
    /\ At(p, "normalize", "point")
    /\ Replaces(p, "source")
    /\ Exits(p, "done")

PointExtraction(p) ==
    /\ At(p, "extract", "point")
    /\ Replaces(p, "extraction")
    /\ Becomes(p, [run[p] EXCEPT !.pc = "report"])

PointWiki(p) ==
    /\ At(p, "build", "point")
    /\ Replaces(p, "wiki")
    /\ Becomes(p, [run[p] EXCEPT !.pc = "unlock"])

\* publishExtractionRun: a report under a name of its own, then its pointer.
\* A run is identified with the extraction its report names.
Report(p) ==
    /\ At(p, "extract", "report")
    /\ Replaces(p, "run")
    /\ Exits(p, "done")

\* The `finally` of withBuildLock.
Unlock(p) ==
    /\ run[p].pc \in {"unlock", "unwind"}
    /\ lock' = FALSE
    /\ Exits(p, IF run[p].pc = "unlock" THEN "done" ELSE "failed")
    /\ UNCHANGED <<disk, current, cache, started>>

\* rm() of the lock directory fails, and with it the command.
UnlockFails(p) ==
    /\ run[p].pc \in {"unlock", "unwind"}
    /\ Exits(p, "stuck")
    /\ UNCHANGED <<disk, current, cache, lock, started>>

-----------------------------------------------------------------------------

Publish(p) ==
    \/ \E f \in Files : WriteFile(p, f)
    \/ InstallSource(p) \/ InstallExtraction(p) \/ InstallWiki(p)
    \/ PointSource(p) \/ PointExtraction(p) \/ PointWiki(p) \/ Report(p)

Extract(p) ==
    \/ \E k \in Packets : ReadCache(p, k)
    \/ \E o \in Outputs : Answer(p, o)
    \/ LinkCache(p) \/ PacketFails(p) \/ Extracted(p)

Advance(p) ==
    \/ Collect(p) \/ Lock(p) \/ LockedOut(p) \/ Unlock(p) \/ UnlockFails(p)
    \/ ReadPointer(p) \/ LoadSource(p) \/ LoadExtraction(p)
    \/ LoadWiki(p) \/ Respond(p)
    \/ Extract(p) \/ Publish(p) \/ Fail(p)

Next ==
    \E p \in Procs :
       \/ \E cmd \in Commands, flag \in BOOLEAN : Start(p, cmd, flag)
       \/ Advance(p)
       \/ Kill(p)

\* Every awaited call settles, so a process that is not killed goes on.
Fairness == \A p \in Procs : WF_vars(Advance(p))

Spec == Init /\ [][Next]_vars /\ Fairness

-----------------------------------------------------------------------------
(* Properties *)

\* Every variable has its type, and a process that got past a step has what
\* the step was for: past readPointer a name, past the LLM's answer an answer.
TypeOK ==
    /\ sources \subseteq
         [id : Sources, evidence : SUBSET Packets, files : SUBSET Files]
    /\ extractions \subseteq [id : ExtractionIds, files : SUBSET Files]
    /\ wikis \subseteq [id : ExtractionIds, files : SUBSET Files]
    /\ current \in [Stages -> Ids \cup {None}]
    /\ cache \in [Packets -> Outputs \cup {None}]
    /\ lock \in BOOLEAN
    /\ run \in [Procs -> Processes]
    /\ started \in [Commands -> Nat]
    /\ \A p \in Procs : run[p].pc = "load" => run[p].at # None

\* Two builds are never between the lock and the unlock, however builds fail
\* or are killed, and such a build finds its lock in place: the wiki pointer
\* a build replaces is the one that was there when it read the extraction.
OneBuilder ==
    \A p, q \in Procs :
       Building(p) => lock /\ (Building(q) => p = q)

EvidenceOf(s) == UNION {g.evidence : g \in {h \in sources : h.id = s}}

\* Every wiki was rendered from an extraction that is on disk, and every
\* extraction is of a source generation that is on disk and still has all
\* the packets the extraction reports on: what a search returns can be
\* traced to the evidence whatever ran in between.
Provenance ==
    /\ \A w \in wikis : \E e \in extractions : e.id = w.id
    /\ \A e \in extractions :
          /\ \E g \in sources : g.id = e.id.source
          /\ Done(e.id.ok) \cup e.id.failed \subseteq EvidenceOf(e.id.source)

\* A search without --allow-incomplete answers from a wiki that has the
\* memories of every packet of the source generation it names.
SearchCoversSource ==
    \A p \in Procs :
       At(p, "search", "respond") /\ ~run[p].flag =>
          Done(run[p].at.ok) = EvidenceOf(run[p].at.source)

\* The output an extraction was published with is the cached one, for good.
\* So a packet that succeeded once never costs another call (docs/flow.md),
\* and no two extractions disagree on a packet, though the LLM does.
SuccessIsCached ==
    \A e \in extractions : \A pair \in e.id.ok : cache[pair[1]] = pair[2]

Whole(gs) == {g \in gs : g.files = Files}

SourceStore == INSTANCE GenerationStore WITH
    current <- current["source"],
    published <- {[id |-> g.id, content |-> g.evidence] : g \in Whole(sources)}

ExtractionStore == INSTANCE GenerationStore WITH
    current <- current["extraction"],
    published <- {[id |-> g.id, content |-> g.id] : g \in Whole(extractions)}

WikiStore == INSTANCE GenerationStore WITH
    current <- current["wiki"],
    published <- {[id |-> g.id, content |-> g.id] : g \in Whole(wikis)}

\* Each stage is a store of immutable, whole generations, and its pointer
\* names one of them at every moment, also while commands race and die.
ImplementsStores ==
    SourceStore!Spec /\ ExtractionStore!Spec /\ WikiStore!Spec

\* The lock of a build is removed, unless the build is killed or the removal
\* itself fails: also a build that fails half-way leaves the next one free to go.
LockReturns ==
    \A p \in Procs :
       Building(p) ~> (run[p].pc \in {"killed", "stuck"} \/ ~lock)
================================================================================
