--------------------------- MODULE CurationRegistry ---------------------------
(* The decisions people made on spellings of concepts, and the projects they    *)
(* belong to (packages/registry), written by import-curation and                *)
(* register-project (apps/pipeline/src/registry). Each is a process with        *)
(* statements of its own against one PostgreSQL at its default level, READ      *)
(* COMMITTED: a statement sees what was committed when it began and what its    *)
(* own transaction wrote; a row that another transaction has written waits.     *)
EXTENDS Naturals, Sequences

CONSTANTS
    Processes,      \* commands that may run at the same time
    Codes,          \* codes of projects
    Sources,        \* sources a project may own
    Keys,           \* normalized spellings
    Values,         \* what a row says: spelling, kind, canonical, reason, date
    Files,          \* inputs: [project, decisions], decisions a sequence of [key, value]
    None,
    MaxCommands     \* bound: commands that are started

ASSUME RegistryAssumption ==
    /\ MaxCommands \in Nat
    /\ None \notin Values \cup Codes \cup Sources \cup {"registered"}
    /\ Files \subseteq [project : Codes, decisions : Seq([key : Keys, value : Values])]

VARIABLES
    db,             \* the committed rows: what is in them, or None
    writes,         \* the rows an open transaction has written
    pc,             \* where a command is
    job,            \* what it was asked to do
    rows,           \* the decisions of the input it applies, by their place
    next,           \* the place from which it still has to insert
    doomed,         \* rows its DELETE has yet to remove
    removed,        \* rows its DELETE has removed
    late,           \* rows others have committed since it read them
    started         \* commands so far

registryVars == <<db, writes, pc, job, rows, next, doomed, removed, late, started>>

ProjectRow(c) == <<"project", c>>
SourceRow(s) == <<"source", s>>
DecisionRow(c, k) == <<"decision", c, k>>

DecisionsOf(c) == {DecisionRow(c, k) : k \in Keys}

Rows ==
    {ProjectRow(c) : c \in Codes} \cup {SourceRow(s) : s \in Sources}
        \cup UNION {DecisionsOf(c) : c \in Codes}

Imports == {"upsert", "replace", "preview-upsert", "preview-replace"}

Jobs ==
    [op : Imports, code : Codes, file : Files]
        \cup [op : {"register"}, code : Codes, source : Sources \cup {None}]

Ended == {"done", "failed", "refused", "invalid"}

NoJob == [op |-> "none"]

\* What earlier commands may have left.
Content(r) ==
    CASE r[1] = "project" -> {None, "registered"}
      [] r[1] = "source" -> {None} \cup Codes
      [] OTHER -> {None} \cup Values

Left(content) ==
    /\ \A r \in Rows : content[r] \in Content(r)
    /\ \A c \in Codes : content[ProjectRow(c)] = None =>
          /\ \A r \in DecisionsOf(c) : content[r] = None
          /\ \A s \in Sources : content[SourceRow(s)] # c

RegistryInit ==
    /\ db \in [Rows -> UNION {Content(r) : r \in Rows}]
    /\ Left(db)
    /\ writes = [p \in Processes |-> <<>>]
    /\ pc = [p \in Processes |-> "idle"]
    /\ job = [p \in Processes |-> NoJob]
    /\ rows = [p \in Processes |-> {}]
    /\ next = [p \in Processes |-> 1]
    /\ doomed = [p \in Processes |-> {}]
    /\ removed = [p \in Processes |-> {}]
    /\ late = [p \in Processes |-> {}]
    /\ started = 0

--------------------------------------------------------------------------------
(* PostgreSQL.                                                                  *)

Held(p, r) == \E q \in Processes \ {p} : r \in DOMAIN writes[q]

\* What is written over the rest.
Over(written, rest) ==
    [r \in (DOMAIN written) \cup (DOMAIN rest) |->
        IF r \in DOMAIN written THEN written[r] ELSE rest[r]]

Writes(p, r, v) == writes' = [writes EXCEPT ![p] = Over([x \in {r} |-> v], @)]

\* A DELETE that waited for a row finds it updated, or gone: what another replace
\* has inserted in its place is a row that it does not see.
Commits(p) ==
    /\ db' = Over(writes[p], db)
    /\ doomed' = [q \in Processes |-> doomed[q] \ removed[p]]
    /\ late' = [q \in Processes |->
                   IF q = p THEN late[q] ELSE late[q] \cup DOMAIN writes[p]]

Ends(p, how) ==
    /\ pc' = [pc EXCEPT ![p] = how]
    /\ writes' = [writes EXCEPT ![p] = <<>>]
    /\ removed' = [removed EXCEPT ![p] = {}]
    /\ UNCHANGED <<job, rows, next, started>>

RollsBack(p, how) ==
    /\ Ends(p, how)
    /\ doomed' = [doomed EXCEPT ![p] = {}]
    /\ UNCHANGED <<db, late>>

Goes(p, to) == pc' = [pc EXCEPT ![p] = to]

--------------------------------------------------------------------------------
Start(p) ==
    /\ pc[p] \in {"idle"} \cup Ended /\ started < MaxCommands
    /\ \E j \in Jobs :
          /\ job' = [job EXCEPT ![p] = j]
          /\ Goes(p, IF j.op = "register" THEN "project" ELSE "prepare")
    /\ rows' = [rows EXCEPT ![p] = {}]
    /\ next' = [next EXCEPT ![p] = 1]
    /\ late' = [late EXCEPT ![p] = {}]
    /\ started' = started + 1
    /\ UNCHANGED <<db, writes, doomed, removed>>

\* The connection is lost, a deadlock is broken, or the process is killed.
Fails(p) == pc[p] \notin {"idle"} \cup Ended /\ RollsBack(p, "failed")

\* The transaction commits, and its answer may be lost.
Commit(p) ==
    /\ \/ pc[p] = "commit"
       \/ pc[p] = "inserting" /\ \A n \in rows[p] : n < next[p]
    /\ Commits(p)
    /\ \E how \in {"done", "failed"} : Ends(p, how)

--------------------------------------------------------------------------------
(* import-curation.                                                             *)

Accepted_All(decisions) == DOMAIN decisions

\* rejectDuplicate(): the first decision on a spelling is the one that counts.
Accepted(decisions) ==
    {n \in DOMAIN decisions : \A m \in 1..n - 1 : decisions[m].key # decisions[n].key}

Decision(p, n) == job[p].file.decisions[n]

RowOf(p, n) == DecisionRow(job[p].code, Decision(p, n).key)

\* prepareInput(): a file of another project, or an unknown project, is refused.
Prepare(p) ==
    /\ pc[p] = "prepare"
    /\ LET j == job[p]
       IN  IF j.file.project # j.code \/ db[ProjectRow(j.code)] = None
           THEN Goes(p, "refused") /\ UNCHANGED rows
           ELSE /\ Goes(p, CASE j.op = "replace" -> "delete"
                             [] j.op = "preview-replace" -> "done"
                             [] OTHER -> "compare")
                /\ rows' = [rows EXCEPT ![p] = Accepted(j.file.decisions)]
    /\ UNCHANGED <<db, writes, job, next, doomed, removed, late, started>>

Changed_KeyOnly(p) == {n \in rows[p] : db[RowOf(p, n)] = None}

\* changedRows(): the rows that the table does not hold as they are.
Changed(p) == {n \in rows[p] : db[RowOf(p, n)] # Decision(p, n).value}

\* The table is read before the transaction begins.
Compare(p) ==
    /\ pc[p] = "compare"
    /\ Goes(p, IF job[p].op = "upsert" THEN "inserting" ELSE "done")
    /\ rows' = [rows EXCEPT ![p] = Changed(p)]
    /\ late' = [late EXCEPT ![p] = {}]
    /\ UNCHANGED <<db, writes, job, next, doomed, removed, started>>

Delete_OwnTransaction(p) ==
    /\ pc[p] = "delete"
    /\ Goes(p, "deleting")
    /\ \A r \in DecisionsOf(job[p].code) : ~Held(p, r)
    /\ db' = [r \in Rows |-> IF r \in DecisionsOf(job[p].code) THEN None ELSE db[r]]
    /\ late' = [late EXCEPT ![p] = {}]
    /\ UNCHANGED <<writes, job, rows, next, doomed, removed, started>>

Delete_OfFile(p) ==
    /\ pc[p] = "delete"
    /\ Goes(p, "deleting")
    /\ doomed' = [doomed EXCEPT ![p] =
                     {r \in DecisionsOf(job[p].code) :
                         db[r] # None /\ \E n \in rows[p] : r = RowOf(p, n)}]
    /\ late' = [late EXCEPT ![p] = {}]
    /\ UNCHANGED <<db, writes, job, rows, next, removed, started>>

\* deleteDecisionsByProject() sees the rows of this moment.
Delete(p) ==
    /\ pc[p] = "delete"
    /\ Goes(p, "deleting")
    /\ doomed' = [doomed EXCEPT ![p] = {r \in DecisionsOf(job[p].code) : db[r] # None}]
    /\ late' = [late EXCEPT ![p] = {}]
    /\ UNCHANGED <<db, writes, job, rows, next, removed, started>>

RemoveRow(p) ==
    /\ pc[p] = "deleting"
    /\ \E r \in doomed[p] :
          /\ ~Held(p, r)
          /\ Writes(p, r, None)
          /\ doomed' = [doomed EXCEPT ![p] = @ \ {r}]
          /\ removed' = [removed EXCEPT ![p] = @ \cup {r}]
    /\ UNCHANGED <<db, pc, job, rows, next, late, started>>

Deleted(p) ==
    /\ pc[p] = "deleting" /\ doomed[p] = {}
    /\ Goes(p, "inserting")
    /\ UNCHANGED <<db, writes, job, rows, next, doomed, removed, late, started>>

\* insertDecisions(): ON CONFLICT DO UPDATE, which refuses a row that the same
\* statement has written.
InsertRow(p) ==
    /\ pc[p] = "inserting"
    /\ \E n \in rows[p] :
          /\ next[p] <= n
          /\ \A m \in rows[p] : next[p] <= m => n <= m
          /\ IF \E m \in rows[p] : m < n /\ RowOf(p, m) = RowOf(p, n)
             THEN RollsBack(p, "invalid")
             ELSE /\ ~Held(p, RowOf(p, n))
                  /\ Writes(p, RowOf(p, n), Decision(p, n).value)
                  /\ next' = [next EXCEPT ![p] = n + 1]
                  /\ UNCHANGED <<db, pc, job, rows, doomed, removed, late, started>>

--------------------------------------------------------------------------------
(* register-project: ON CONFLICT DO NOTHING, twice.                             *)

InsertProject_OwnTransaction(p) ==
    /\ pc[p] = "project" /\ ~Held(p, ProjectRow(job[p].code))
    /\ Goes(p, IF job[p].source = None THEN "commit" ELSE "source")
    /\ db' = [db EXCEPT ![ProjectRow(job[p].code)] = "registered"]
    /\ UNCHANGED <<writes, job, rows, next, doomed, removed, late, started>>

InsertProject(p) ==
    /\ pc[p] = "project" /\ ~Held(p, ProjectRow(job[p].code))
    /\ Goes(p, IF job[p].source = None THEN "commit" ELSE "source")
    /\ IF db[ProjectRow(job[p].code)] = None
       THEN Writes(p, ProjectRow(job[p].code), "registered")
       ELSE UNCHANGED writes
    /\ UNCHANGED <<db, job, rows, next, doomed, removed, late, started>>

InsertSource_AnyOwner(p) ==
    /\ pc[p] = "source" /\ ~Held(p, SourceRow(job[p].source))
    /\ Goes(p, "commit")
    /\ IF db[SourceRow(job[p].source)] = None
       THEN Writes(p, SourceRow(job[p].source), job[p].code)
       ELSE UNCHANGED writes
    /\ UNCHANGED <<db, job, rows, next, doomed, removed, late, started>>

\* A source that is there must be the project's own.
InsertSource(p) ==
    /\ pc[p] = "source" /\ ~Held(p, SourceRow(job[p].source))
    /\ db[SourceRow(job[p].source)] \in {None, job[p].code}
    /\ Goes(p, "commit")
    /\ IF db[SourceRow(job[p].source)] = None
       THEN Writes(p, SourceRow(job[p].source), job[p].code)
       ELSE UNCHANGED writes
    /\ UNCHANGED <<db, job, rows, next, doomed, removed, late, started>>

ForeignSource(p) ==
    /\ pc[p] = "source" /\ ~Held(p, SourceRow(job[p].source))
    /\ db[SourceRow(job[p].source)] \notin {None, job[p].code}
    /\ RollsBack(p, "refused")

RegistryNext ==
    \E p \in Processes :
        \/ Start(p) \/ Fails(p) \/ Commit(p)
        \/ Prepare(p) \/ Compare(p) \/ Delete(p) \/ RemoveRow(p) \/ Deleted(p)
        \/ InsertRow(p)
        \/ InsertProject(p) \/ InsertSource(p) \/ ForeignSource(p)

RegistrySpec == RegistryInit /\ [][RegistryNext]_registryVars

--------------------------------------------------------------------------------
(* Properties.                                                                  *)

\* The first decision of a file on each of its spellings.
Heard(file) ==
    {file.decisions[i] : i \in
        {n \in DOMAIN file.decisions :
            \A m \in 1..n - 1 : file.decisions[m].key # file.decisions[n].key}}

NoConstraintBreaks == \A p \in Processes : pc'[p] # "invalid"

VanishesWithReplace ==
    \A c \in Codes : \A r \in DecisionsOf(c) :
        db[r] # None /\ db'[r] = None =>
            \E p \in Processes :
                /\ job[p].op = "replace" /\ job[p].code = c /\ pc'[p] \in Ended
                /\ \A d \in Heard(job[p].file) : db'[DecisionRow(c, d.key)] = d.value

\* A decision was overruled when another command has committed its row since.
InForce(p) ==
    LET c == job[p].code
        in == Heard(job[p].file)
    IN  /\ \A d \in in :
              db'[DecisionRow(c, d.key)] = d.value \/ DecisionRow(c, d.key) \in late[p]
        /\ job[p].op = "replace" =>
              \A k \in Keys \ {d.key : d \in in} :
                  db'[DecisionRow(c, k)] = None \/ DecisionRow(c, k) \in late[p]

SuccessIsInForce ==
    \A p \in Processes : pc[p] = "inserting" /\ pc'[p] = "done" => InForce(p)

\* upsertCuration, replaceCuration (tasks/plan003-registry-curation/phase-02.md: one
\* atomic unit), with others that write, fail or are killed at any moment: no
\* statement breaks a constraint; a decision disappears only in the step that puts
\* all of a replacing file in its place; when an import has succeeded, each decision
\* it accepted, the ones it skipped as unchanged too, is in force or was overruled
\* since the table was read; and what a replace leaves beside its file was
\* committed after it had begun.
ImportsAreWhole ==
    [][NoConstraintBreaks /\ VanishesWithReplace /\ SuccessIsInForce]_registryVars

ProjectsComeWhole ==
    \A c \in Codes :
        db[ProjectRow(c)] = None /\ db'[ProjectRow(c)] # None =>
            \E p \in Processes :
                /\ job[p].op = "register" /\ job[p].code = c /\ pc'[p] \in Ended
                /\ job[p].source # None => db'[SourceRow(job[p].source)] = c

SourcesStay ==
    \A s \in Sources : db[SourceRow(s)] # None => db'[SourceRow(s)] = db[SourceRow(s)]

RegistrationsEndWell ==
    \A p \in Processes :
        job[p].op = "register" /\ pc[p] # pc'[p] =>
            /\ pc'[p] = "done" =>
                  /\ db'[ProjectRow(job[p].code)] # None
                  /\ job[p].source # None =>
                        db'[SourceRow(job[p].source)] = job[p].code
            /\ pc'[p] = "refused" =>
                  db[SourceRow(job[p].source)] \notin {None, job[p].code}

\* registerProject, also when two register the same project or source at once: a
\* project appears with the source it was registered with or not at all, a source
\* stays with its project, success means that both are there, and only a source of
\* another project is refused; no decision or source is without its project.
RegistrationsAreWhole ==
    /\ []Left(db)
    /\ [][ProjectsComeWhole /\ SourcesStay /\ RegistrationsEndWell]_registryVars
================================================================================
