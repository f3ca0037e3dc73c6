----------------------------- MODULE LlmExtractor -----------------------------
(***************************************************************************)
(* The command `infer-knowledge` (apps/pipeline/src/infer/                 *)
(* llm-extractor.ts, llm-relationship-sanitizer.ts): the workers of a      *)
(* process ask an LLM about each document of a project, through a cache    *)
(* that all projects share, and the process writes three files.            *)
(*                                                                         *)
(* Processes run in slots, several at a time, and may be killed.  A step   *)
(* is one file-system call, or one answer of the LLM with the code that    *)
(* runs until the next await.  Files are written in place: opening one     *)
(* empties it, and what two processes write at the same time may mix.      *)
(*                                                                         *)
(* An answer is known by the project, document, model and prompt it was    *)
(* given for, and by the end points of its relationships.  The cache knows *)
(* nothing of the project.  The order of the documents is left open.       *)
(***************************************************************************)
EXTENDS Naturals

CONSTANTS
    Slots,        \* where a process may run
    Workers,      \* all workers; LLM_CONCURRENCY is how many a slot has
    SlotOf,       \* the slot a worker belongs to
    Projects,
    DocIds,       \* source document ids; projects may have the same ones
    Documents,    \* by project: the ids of its documents
    Filters,      \* what --docs may name; the empty set is all
    Models,       \* model and effort: each pair has its cache directory
    Prompts,      \* versions of the prompt
    Endpoints,    \* what a relationship may name
    Index,        \* by project: the end point meant by each one, or None
    Answers,      \* the sets of relationships an answer may have
    MaxAttempts,  \* calls per question
    Reports,      \* the files that are written, or those an instance looks at
    None,         \* no file, an empty file; no value
    Torn,         \* a file that cannot be read back
    MaxRuns       \* bound: how often a process is started

Identity == [model : Models, prompt : Prompts]
Extraction == [project : Projects, doc : DocIds, identity : Identity, rels : Answers]
Entry == [identity : Identity, extraction : Extraction]
Result == [extraction : Extraction \cup {None}, calls : 0 .. 2 * MaxAttempts]

ASSUME ExtractorAssumption ==
    /\ SlotOf \in [Workers -> Slots]
    /\ Documents \in [Projects -> SUBSET DocIds]
    /\ Index \in [Projects -> [Endpoints -> Endpoints \cup {None}]]
    /\ Answers \subseteq SUBSET (Endpoints \X Endpoints)
    /\ None \notin Endpoints \cup Result
    /\ MaxAttempts \in Nat \ {0}
    /\ Reports \subseteq {"inferred", "failures", "dropped"}
    /\ MaxRuns \in Nat

VARIABLES
    cache,      \* by model and document id: the file in cache/<model>@<effort>/
    output,     \* by project and report: the file in graph/<project>/
    \* processes
    pc,
    project,
    identity,
    wanted,     \* the documents of the run
    todo,       \* those from `cursor` on
    results,    \* by document: what extractOne returned
    pending,    \* reports that are not written yet
    opened,     \* reports being written
    broken,     \* a report could not be written
    \* workers
    phase,
    doc,        \* the document at hand
    attempt,    \* calls made for the question at hand
    first,      \* calls made for the question before it
    holds,      \* the extraction to be cached
    \* history
    asked,      \* by process and document: calls of the LLM
    known,      \* documents that were in the cache when the process started
    alone,      \* no other process ran since the process started
    runs

disk == <<cache, output>>
process == <<pc, project, identity, wanted>>
report == <<pending, opened, broken>>
worker == <<phase, doc, attempt, first, holds>>
history == <<asked, known, alone, runs>>
vars == <<disk, process, todo, results, report, worker, history>>

Running == {"infer", "write"}
Busy == {"cache", "ask", "repair", "store", "writing"}
Of(r) == {w \in Workers : SlotOf[w] = r}

Init ==
    /\ cache = [m \in Models |-> [d \in DocIds |-> None]]
    /\ output = [p \in Projects |-> [f \in Reports |-> None]]
    /\ pc = [r \in Slots |-> "idle"]
    /\ project = [r \in Slots |-> None]
    /\ identity = [r \in Slots |-> None]
    /\ wanted = [r \in Slots |-> {}]
    /\ todo = [r \in Slots |-> {}]
    /\ results = [r \in Slots |-> [d \in DocIds |-> None]]
    /\ pending = [r \in Slots |-> {}]
    /\ opened = [r \in Slots |-> {}]
    /\ broken = [r \in Slots |-> FALSE]
    /\ phase = [w \in Workers |-> "free"]
    /\ doc = [w \in Workers |-> None]
    /\ attempt = [w \in Workers |-> 0]
    /\ first = [w \in Workers |-> 0]
    /\ holds = [w \in Workers |-> None]
    /\ asked = [r \in Slots |-> [d \in DocIds |-> 0]]
    /\ known = [r \in Slots |-> {}]
    /\ alone = [r \in Slots |-> FALSE]
    /\ runs = 0

-----------------------------------------------------------------------------
(* The cache *)

\* Mutant: what another prompt was answered will do.
Usable_AnyPrompt(i, d) ==
    LET file == cache[i.model][d]
    IN  /\ file \notin {None, Torn}
        /\ file.identity.model = i.model
        /\ file.extraction.doc = d

\* readCache and validateSourceDocId: the entry of d is there, whole, and
\* answers the same question.
Usable(i, d) ==
    LET file == cache[i.model][d]
    IN  /\ file \notin {None, Torn}
        /\ file.identity = i
        /\ file.extraction.doc = d

\* What a file may hold once `value` is written to it, in one call.  It was
\* emptied before: if it is not empty now, someone else has written to it since.
Written(file, value) == IF file = None THEN {value} ELSE {value, Torn}

-----------------------------------------------------------------------------
(* A process starts *)

Start(r, p, i, filter) ==
    /\ pc[r] \notin Running
    /\ runs < MaxRuns
    /\ runs' = runs + 1
    /\ pc' = [pc EXCEPT ![r] = "infer"]
    /\ project' = [project EXCEPT ![r] = p]
    /\ identity' = [identity EXCEPT ![r] = i]
    /\ wanted' = [wanted EXCEPT ![r] =
                     {d \in Documents[p] : filter = {} \/ d \in filter}]
    /\ todo' = [todo EXCEPT ![r] = wanted'[r]]
    /\ results' = [results EXCEPT ![r] = [d \in DocIds |-> None]]
    /\ asked' = [asked EXCEPT ![r] = [d \in DocIds |-> 0]]
    /\ known' = [known EXCEPT ![r] = {d \in wanted'[r] : Usable(i, d)}]
    /\ alone' = [q \in Slots |-> q = r /\ \A s \in Slots \ {r} : pc[s] \notin Running]
    /\ UNCHANGED <<disk, report, worker>>

-----------------------------------------------------------------------------
(* Workers: mapConcurrent and extractOne *)

\* Worker w, in the process of slot r, goes on to `next`.
Moves(w, r, from, next) ==
    /\ r = SlotOf[w]
    /\ phase[w] = from
    /\ phase' = [phase EXCEPT ![w] = next]

\* The worker's document has the result e, or has failed when e is None.
Returns(w, r, e, calls) ==
    /\ results' = [results EXCEPT ![r][doc[w]] = [extraction |-> e, calls |-> calls]]
    /\ doc' = [doc EXCEPT ![w] = None]
    /\ attempt' = [attempt EXCEPT ![w] = 0]
    /\ first' = [first EXCEPT ![w] = 0]
    /\ holds' = [holds EXCEPT ![w] = None]
    /\ UNCHANGED <<process, todo, report, output>>

\* The worker calls the LLM, for the n-th time about the question at hand.
Calls(w, r, n) ==
    /\ attempt' = [attempt EXCEPT ![w] = n]
    /\ asked' = [asked EXCEPT ![r][doc[w]] = @ + 1]
    /\ UNCHANGED <<disk, process, todo, results, report, doc, holds, known, alone, runs>>

\* Mutant: the cursor moves on when the document is done.
Take_Late(w, r, d) ==
    /\ Moves(w, r, "free", "cache")
    /\ pc[r] = "infer"
    /\ d \in todo[r] /\ results[r][d] = None
    /\ todo' = todo
    /\ doc' = [doc EXCEPT ![w] = d]
    /\ UNCHANGED <<disk, process, results, report, attempt, first, holds, history>>

Take(w, r, d) ==
    /\ Moves(w, r, "free", "cache")
    /\ pc[r] = "infer"
    /\ d \in todo[r]
    /\ todo' = [todo EXCEPT ![r] = @ \ {d}]
    /\ doc' = [doc EXCEPT ![w] = d]
    /\ UNCHANGED <<disk, process, results, report, attempt, first, holds, history>>

CacheHit(w, r) ==
    /\ Moves(w, r, "cache", "free")
    /\ Usable(identity[r], doc[w])
    /\ Returns(w, r, cache[identity[r].model][doc[w]].extraction, 0)
    /\ UNCHANGED <<cache, history>>

\* Mutant: the entry is not looked at.
CacheMiss_Always(w, r) ==
    /\ Moves(w, r, "cache", "ask")
    /\ UNCHANGED first
    /\ Calls(w, r, 1)

CacheMiss(w, r) ==
    /\ Moves(w, r, "cache", "ask")
    /\ ~Usable(identity[r], doc[w])
    /\ UNCHANGED first
    /\ Calls(w, r, 1)

Questions == {"ask", "repair"}

\* Mutant: one call too many.
CallFails_OneMore(w, r) ==
    /\ phase[w] \in Questions /\ r = SlotOf[w]
    /\ attempt[w] <= MaxAttempts
    /\ Calls(w, r, attempt[w] + 1)
    /\ UNCHANGED <<phase, first>>

CallFails(w, r) ==
    /\ phase[w] \in Questions /\ r = SlotOf[w]
    /\ attempt[w] < MaxAttempts
    /\ Calls(w, r, attempt[w] + 1)
    /\ UNCHANGED <<phase, first>>

\* Mutant: the error leaves the loop of the worker.
GivesUp_EndsWorker(w, r) ==
    /\ phase[w] \in Questions /\ Moves(w, r, phase[w], "over")
    /\ attempt[w] = MaxAttempts
    /\ Returns(w, r, None, first[w] + attempt[w])
    /\ UNCHANGED <<cache, history>>

GivesUp(w, r) ==
    /\ phase[w] \in Questions /\ Moves(w, r, phase[w], "free")
    /\ attempt[w] = MaxAttempts
    /\ Returns(w, r, None, first[w] + attempt[w])
    /\ UNCHANGED <<cache, history>>

\* The answer is no extraction of this document: it is sent back once.
NeedsRepair(w, r) ==
    /\ Moves(w, r, "ask", "repair")
    /\ first' = [first EXCEPT ![w] = attempt[w]]
    /\ Calls(w, r, 1)

\* Mutant: the calls of the first question are not counted.
RepairFails_Uncounted(w, r) ==
    /\ Moves(w, r, "repair", "free")
    /\ Returns(w, r, None, attempt[w])
    /\ UNCHANGED <<cache, history>>

RepairFails(w, r) ==
    /\ Moves(w, r, "repair", "free")
    /\ Returns(w, r, None, first[w] + attempt[w])
    /\ UNCHANGED <<cache, history>>

Answered(w, r, rels) ==
    /\ phase[w] \in Questions /\ Moves(w, r, phase[w], "store")
    /\ holds' = [holds EXCEPT ![w] =
           [project |-> project[r], doc |-> doc[w], identity |-> identity[r], rels |-> rels]]
    /\ first' = [first EXCEPT ![w] = @ + attempt[w]]
    /\ attempt' = [attempt EXCEPT ![w] = 0]
    /\ UNCHANGED <<disk, process, todo, results, report, doc, history>>

OpenEntry(w, r) ==
    /\ Moves(w, r, "store", "writing")
    /\ cache' = [cache EXCEPT ![identity[r].model][doc[w]] = None]
    /\ UNCHANGED <<output, process, todo, results, report, doc, attempt, first, holds,
                   history>>

Stored(w, r) ==
    /\ Moves(w, r, "writing", "free")
    /\ \E content \in Written(cache[identity[r].model][doc[w]],
                              [identity |-> identity[r], extraction |-> holds[w]]) :
          cache' = [cache EXCEPT ![identity[r].model][doc[w]] = content]
    /\ Returns(w, r, holds[w], first[w])
    /\ UNCHANGED history

\* The cache cannot be written: the document counts as failed.
StoreFails(w, r) ==
    /\ \/ Moves(w, r, "store", "free") /\ UNCHANGED cache
       \/ /\ Moves(w, r, "writing", "free")
          /\ \E content \in {cache[identity[r].model][doc[w]], Torn} :
                cache' = [cache EXCEPT ![identity[r].model][doc[w]] = content]
    /\ Returns(w, r, None, first[w])
    /\ UNCHANGED history

-----------------------------------------------------------------------------
(* The reports: sanitizeLlmExtractions and the end of extractLlm *)

Extracted(r) == {d \in wanted[r] : results[r][d] # None /\ results[r][d].extraction # None}

\* Mutant: only where a relationship starts is looked at.
Dangling_Start(p, x) == Index[p][x[1]] = None

\* normalizeEndpoint does not find an end of the relationship x.
Dangling(p, x) == Index[p][x[1]] = None \/ Index[p][x[2]] = None

\* What report f says of the results of process r.
Content(r, f) ==
    LET p == project[r]
        Rels(d) == results[r][d].extraction.rels
    IN  CASE f = "inferred" ->
               {[doc |-> d, rels |-> {<<Index[p][x[1]], Index[p][x[2]]>> :
                                         x \in {y \in Rels(d) : ~Dangling(p, y)}}] :
                    d \in Extracted(r)}
          [] f = "failures" -> wanted[r] \ Extracted(r)
          [] f = "dropped" -> UNION {{<<d, x>> : x \in {y \in Rels(d) : Dangling(p, y)}} :
                                         d \in Extracted(r)}

WorkersDone(r) ==
    /\ pc[r] = "infer"
    /\ todo[r] = {}
    /\ \A w \in Of(r) : phase[w] = "free"

Gather(r) ==
    /\ WorkersDone(r)
    /\ pc' = [pc EXCEPT ![r] = "write"]
    /\ pending' = [pending EXCEPT ![r] = Reports]
    /\ UNCHANGED <<disk, project, identity, wanted, todo, results, opened, broken, worker,
                   history>>

\* The process ends as `how`, and its memory is gone.
Ends(r, how) ==
    /\ pc' = [pc EXCEPT ![r] = how]
    /\ project' = [project EXCEPT ![r] = None]
    /\ identity' = [identity EXCEPT ![r] = None]
    /\ wanted' = [wanted EXCEPT ![r] = {}]
    /\ todo' = [todo EXCEPT ![r] = {}]
    /\ results' = [results EXCEPT ![r] = [d \in DocIds |-> None]]
    /\ pending' = [pending EXCEPT ![r] = {}]
    /\ opened' = [opened EXCEPT ![r] = {}]
    /\ broken' = [broken EXCEPT ![r] = FALSE]
    /\ asked' = [asked EXCEPT ![r] = [d \in DocIds |-> 0]]
    /\ known' = [known EXCEPT ![r] = {}]
    /\ alone' = [alone EXCEPT ![r] = FALSE]
    /\ UNCHANGED <<disk, runs>>

\* The raw documents cannot be read again, or the directory cannot be made.
Fail(r) == WorkersDone(r) /\ Ends(r, "failed") /\ UNCHANGED worker

OpenReport(r, f) ==
    /\ pc[r] = "write"
    /\ f \in pending[r] \ opened[r]
    /\ opened' = [opened EXCEPT ![r] = @ \cup {f}]
    /\ output' = [output EXCEPT ![project[r]][f] = None]
    /\ UNCHANGED <<cache, process, todo, results, pending, broken, worker, history>>

\* Report f is over.
Closes(r, f) ==
    /\ pending' = [pending EXCEPT ![r] = @ \ {f}]
    /\ opened' = [opened EXCEPT ![r] = @ \ {f}]
    /\ UNCHANGED <<cache, process, todo, results, worker, history>>

ReportWritten(r, f) ==
    /\ pc[r] = "write"
    /\ f \in opened[r]
    /\ \E content \in Written(output[project[r]][f], Content(r, f)) :
          output' = [output EXCEPT ![project[r]][f] = content]
    /\ Closes(r, f)
    /\ UNCHANGED broken

ReportFails(r, f) ==
    /\ pc[r] = "write"
    /\ f \in pending[r]
    /\ IF f \in opened[r]
       THEN \E content \in {output[project[r]][f], Torn} :
                output' = [output EXCEPT ![project[r]][f] = content]
       ELSE UNCHANGED output
    /\ broken' = [broken EXCEPT ![r] = TRUE]
    /\ Closes(r, f)

FinishWell(r) ==
    /\ pc[r] = "write"
    /\ pending[r] = {} /\ ~broken[r]
    /\ pc' = [pc EXCEPT ![r] = "done"]
    /\ UNCHANGED <<disk, project, identity, wanted, todo, results, report, worker, history>>

FinishBadly(r) ==
    /\ pc[r] = "write"
    /\ pending[r] = {} /\ broken[r]
    /\ Ends(r, "failed")
    /\ UNCHANGED worker

Kill(r) ==
    /\ pc[r] \in Running
    /\ Ends(r, "killed")
    /\ phase' = [w \in Workers |-> IF w \in Of(r) THEN "free" ELSE phase[w]]
    /\ doc' = [w \in Workers |-> IF w \in Of(r) THEN None ELSE doc[w]]
    /\ attempt' = [w \in Workers |-> IF w \in Of(r) THEN 0 ELSE attempt[w]]
    /\ first' = [w \in Workers |-> IF w \in Of(r) THEN 0 ELSE first[w]]
    /\ holds' = [w \in Workers |-> IF w \in Of(r) THEN None ELSE holds[w]]

-----------------------------------------------------------------------------

Work(w) ==
    LET r == SlotOf[w]
    IN  \/ \E d \in DocIds : Take(w, r, d)
        \/ CacheHit(w, r) \/ CacheMiss(w, r)
        \/ CallFails(w, r) \/ GivesUp(w, r)
        \/ NeedsRepair(w, r) \/ RepairFails(w, r)
        \/ \E rels \in Answers : Answered(w, r, rels)
        \/ OpenEntry(w, r) \/ Stored(w, r) \/ StoreFails(w, r)

Conclude(r) ==
    \/ Gather(r) \/ Fail(r)
    \/ \E f \in Reports : OpenReport(r, f) \/ ReportWritten(r, f) \/ ReportFails(r, f)
    \/ FinishWell(r) \/ FinishBadly(r)

Next ==
    \/ \E r \in Slots, p \in Projects, i \in Identity, filter \in Filters :
          Start(r, p, i, filter)
    \/ \E w \in Workers : Work(w)
    \/ \E r \in Slots : Conclude(r) \/ Kill(r)

\* Every file-system call returns, and every call of the LLM: it has a timeout.
Fairness ==
    /\ \A w \in Workers : WF_vars(Work(w))
    /\ \A r \in Slots : WF_vars(Conclude(r))

Spec == Init /\ [][Next]_vars /\ Fairness

-----------------------------------------------------------------------------
(* Properties *)

DiskTypes ==
    /\ cache \in [Models -> [DocIds -> Entry \cup {None, Torn}]]
    /\ DOMAIN output = Projects
    /\ \A p \in Projects : DOMAIN output[p] = Reports

ProcessTypes ==
    /\ pc \in [Slots -> Running \cup {"idle", "done", "failed", "killed"}]
    /\ project \in [Slots -> Projects \cup {None}]
    /\ identity \in [Slots -> Identity \cup {None}]
    /\ wanted \in [Slots -> SUBSET DocIds]
    /\ todo \in [Slots -> SUBSET DocIds]
    /\ results \in [Slots -> [DocIds -> Result \cup {None}]]
    /\ pending \in [Slots -> SUBSET Reports]
    /\ opened \in [Slots -> SUBSET Reports]
    /\ broken \in [Slots -> BOOLEAN]

WorkerTypes ==
    /\ phase \in [Workers -> Busy \cup {"free"}]
    /\ doc \in [Workers -> DocIds \cup {None}]
    /\ attempt \in [Workers -> 0 .. MaxAttempts]
    /\ first \in [Workers -> 0 .. 2 * MaxAttempts]
    /\ holds \in [Workers -> Extraction \cup {None}]

HistoryTypes ==
    /\ asked \in [Slots -> [DocIds -> 0 .. 2 * MaxAttempts]]
    /\ known \in [Slots -> SUBSET DocIds]
    /\ alone \in [Slots -> BOOLEAN]
    /\ runs \in Nat

\* Every variable has its type; a document costs two questions at most, and a
\* question MaxAttempts calls.
TypeOK == DiskTypes /\ ProcessTypes /\ WorkerTypes /\ HistoryTypes

\* The workers of process r that are busy with d.
At(r, d) == {w \in Of(r) : phase[w] # "free" /\ doc[w] = d}

\* mapConcurrent: the workers share the documents without loss or repetition.
\* Each one is to do, with one worker, or has its result.
EachDocumentOnce ==
    \A r \in Slots : pc[r] \in Running =>
        \A d \in wanted[r] :
            /\ \A v, w \in At(r, d) : v = w
            /\ d \in todo[r] => At(r, d) = {} /\ results[r][d] = None
            /\ At(r, d) # {} => results[r][d] = None
            /\ At(r, d) = {} /\ d \notin todo[r] => results[r][d] # None

\* extractOne: an extraction, also one from the cache, is the answer to a question
\* about a document of this id, put to the same model with the same prompt.
OwnAnswers ==
    \A r \in Slots, d \in DocIds :
        pc[r] \in Running /\ results[r][d] # None /\ results[r][d].extraction # None =>
            /\ results[r][d].extraction.doc = d
            /\ results[r][d].extraction.identity = identity[r]

\* extractOne, CompletionError: the calls reported for a document are those that
\* were made, also when some of them, the repair or the cache failed.
CallsAreCounted ==
    \A r \in Slots, d \in DocIds :
        pc[r] \in Running /\ results[r][d] # None => results[r][d].calls = asked[r][d]

\* readCache (docs/flow.md: a run after an interrupted one processes only what is
\* left): nothing is asked about a document that was in the cache.
OnlyTheRest ==
    \A r \in Slots : pc[r] \in Running /\ alone[r] =>
        \A d \in known[r] : asked[r][d] = 0

\* extractLlm: when a run that no other disturbed has ended well, each of its documents is
\* in one of the files, and each relationship was kept under the keys that its
\* ends stand for or, when one stands for nothing, is reported as dropped.
EveryDocumentAccounted ==
    \A r \in Slots : pc[r] = "done" /\ alone[r] =>
        LET out == output[project[r]]
            Meant(e) == Index[project[r]][e]
        IN  /\ \A f \in Reports : out[f] \notin {None, Torn}
            /\ \A d \in wanted[r] :
                 IF results[r][d].extraction = None
                 THEN d \in out["failures"] /\ \A x \in out["inferred"] : x.doc # d
                 ELSE /\ d \notin out["failures"]
                      /\ \E x \in out["inferred"] :
                            /\ x.doc = d
                            /\ \A y \in results[r][d].extraction.rels :
                                 IF None \in {Meant(y[1]), Meant(y[2])}
                                 THEN <<d, y>> \in out["dropped"]
                                 ELSE <<Meant(y[1]), Meant(y[2])>> \in x.rels

\* extractLlm: every process ends, whatever fails.
EveryRunEnds == \A r \in Slots : pc[r] \in Running ~> pc[r] \notin Running
==============================================================================
