------------------------ MODULE CurationRegistry_proofs ------------------------
(******************************************************************************)
(* Proofs about CurationRegistry, for any number of commands, projects,       *)
(* sources, spellings and files.                                              *)
(******************************************************************************)
EXTENDS CurationRegistry, TLAPS

--------------------------------------------------------------------------------
(* The inductive invariant.                                                   *)

Points ==
    {"idle", "prepare", "compare", "delete", "deleting", "inserting",
     "project", "source", "commit", "invalid"} \cup Ended

AnyContent == UNION {Content(r) : r \in Rows}

TypeOK ==
    /\ db \in [Rows -> AnyContent]
    /\ DOMAIN writes = Processes
    /\ \A p \in Processes : DOMAIN writes[p] \subseteq Rows
    /\ pc \in [Processes -> Points]
    /\ job \in [Processes -> Jobs \cup {NoJob}]
    /\ rows \in [Processes -> SUBSET Nat]
    /\ next \in [Processes -> Nat]
    /\ doomed \in [Processes -> SUBSET Rows]
    /\ removed \in [Processes -> SUBSET Rows]
    /\ late \in [Processes -> SUBSET Rows]
    /\ started \in 0..MaxCommands

\* A row has one writer at a time.
Exclusive ==
    \A p, q \in Processes : p # q => DOMAIN writes[p] \cap DOMAIN writes[q] = {}

\* What a command is, where it is, and that it has written nothing before.
CommandOf(p) ==
    /\ pc[p] # "invalid"
    /\ pc[p] \in {"prepare", "compare", "delete", "deleting", "inserting"} =>
          job[p] \in Jobs /\ job[p].op \in Imports
    /\ pc[p] \in {"delete", "deleting"} => job[p].op = "replace"
    /\ pc[p] = "prepare" => next[p] = 1
    /\ pc[p] = "inserting" => job[p].op \in {"upsert", "replace"}
    /\ pc[p] \in {"project", "source", "commit"} =>
          job[p] \in Jobs /\ job[p].op = "register"
    /\ pc[p] = "source" => job[p].source # None
    /\ pc[p] \notin {"deleting", "inserting", "source", "commit"} => DOMAIN writes[p] = {}
    /\ pc[p] \notin {"deleting", "inserting"} => removed[p] = {}
    /\ pc[p] # "deleting" => doomed[p] = {}

\* A registration writes only rows that are not there, and what it found stays.
RegistrationOf(p) ==
    pc[p] \in {"source", "commit"} =>
        LET c == job[p].code
            s == job[p].source
        IN  /\ \A r \in DOMAIN writes[p] :
                  /\ db[r] = None
                  /\ \/ r = ProjectRow(c) /\ writes[p][r] = "registered"
                     \/ pc[p] = "commit" /\ s # None /\ r = SourceRow(s) /\ writes[p][r] = c
            /\ ProjectRow(c) \in DOMAIN writes[p] \/ db[ProjectRow(c)] # None
            /\ pc[p] = "commit" /\ s # None =>
                  SourceRow(s) \in DOMAIN writes[p] \/ db[SourceRow(s)] = c

\* The places that have been inserted.
Inserted(p) == {n \in rows[p] : n < next[p]}

\* An import has written the rows it removed and those it inserted, and nothing else.
ImportOf(p) ==
    pc[p] \in {"compare", "delete", "deleting", "inserting"} =>
        LET c == job[p].code
            accepted == Accepted(job[p].file.decisions)
        IN  /\ db[ProjectRow(c)] # None
            /\ rows[p] \subseteq accepted
            /\ pc[p] \in {"delete", "deleting", "compare"} => rows[p] = accepted /\ next[p] = 1
            /\ pc[p] = "inserting" /\ job[p].op = "replace" => rows[p] = accepted
            /\ DOMAIN writes[p] = removed[p] \cup {RowOf(p, n) : n \in Inserted(p)}
            /\ \A n \in Inserted(p) : writes[p][RowOf(p, n)] = Decision(p, n).value
            /\ \A r \in removed[p] \ {RowOf(p, n) : n \in Inserted(p)} : writes[p][r] = None
            /\ removed[p] \cup doomed[p] \subseteq DecisionsOf(c)
            /\ job[p].op = "upsert" => removed[p] = {}

\* What an upsert skips is in force, unless it was overruled since the table was read.
SkippedOf(p) ==
    pc[p] = "inserting" /\ job[p].op = "upsert" =>
        \A n \in Accepted(job[p].file.decisions) \ rows[p] :
            db[RowOf(p, n)] = Decision(p, n).value \/ RowOf(p, n) \in late[p]

\* A replace removes each row that was there when it began.
ReplacedOf(p) ==
    pc[p] \in {"deleting", "inserting"} /\ job[p].op = "replace" =>
        \A r \in DecisionsOf(job[p].code) :
            db[r] # None => r \in doomed[p] \cup removed[p] \cup late[p]

ProcessOf(p) ==
    CommandOf(p) /\ RegistrationOf(p) /\ ImportOf(p) /\ SkippedOf(p) /\ ReplacedOf(p)

IInv == TypeOK /\ Left(db) /\ Exclusive /\ \A p \in Processes : ProcessOf(p)

--------------------------------------------------------------------------------
(* Functions and rows.                                                        *)

LEMMA RowFacts ==
    /\ \A c, s : ProjectRow(c) # SourceRow(s)
    /\ \A c, d, k : ProjectRow(c) # DecisionRow(d, k) /\ SourceRow(c) # DecisionRow(d, k)
    /\ \A c, d : ProjectRow(c) = ProjectRow(d) => c = d
    /\ \A s, t : SourceRow(s) = SourceRow(t) => s = t
    /\ \A c, d, k, l : DecisionRow(c, k) = DecisionRow(d, l) => c = d /\ k = l
    /\ \A c \in Codes : ProjectRow(c) \in Rows
    /\ \A s \in Sources : SourceRow(s) \in Rows
    /\ \A c \in Codes, k \in Keys : DecisionRow(c, k) \in Rows /\ DecisionRow(c, k) \in DecisionsOf(c)
<1>1. /\ \A c, s : ProjectRow(c) # SourceRow(s)
      /\ \A c, d, k : ProjectRow(c) # DecisionRow(d, k) /\ SourceRow(c) # DecisionRow(d, k)
      /\ \A c, d : ProjectRow(c) = ProjectRow(d) => c = d
      /\ \A s, t : SourceRow(s) = SourceRow(t) => s = t
      /\ \A c, d, k, l : DecisionRow(c, k) = DecisionRow(d, l) => c = d /\ k = l
  BY DEF ProjectRow, SourceRow, DecisionRow
<1>2. /\ \A c \in Codes : ProjectRow(c) \in Rows
      /\ \A s \in Sources : SourceRow(s) \in Rows
      /\ \A c \in Codes, k \in Keys : DecisionRow(c, k) \in Rows /\ DecisionRow(c, k) \in DecisionsOf(c)
  BY DEF Rows, DecisionsOf
<1> QED
  BY <1>1, <1>2

LEMMA ContentFacts ==
    /\ \A c : Content(ProjectRow(c)) = {None, "registered"}
    /\ \A s : Content(SourceRow(s)) = {None} \cup Codes
    /\ \A c, k : Content(DecisionRow(c, k)) = {None} \cup Values
  BY DEF Content, ProjectRow, SourceRow, DecisionRow

LEMMA DecisionsAreRows ==
    ASSUME NEW c \in Codes
    PROVE  DecisionsOf(c) \subseteq Rows
  BY DEF Rows

LEMMA JobFacts ==
    ASSUME NEW j \in Jobs
    PROVE  /\ j.code \in Codes
           /\ j.op \in Imports => j.file \in Files
           /\ j.op = "register" => j.source \in Sources \cup {None}
  BY DEF Jobs, Imports

LEMMA ItemFacts ==
    ASSUME NEW S, NEW s \in Seq(S), NEW n \in DOMAIN s
    PROVE  n \in Nat \ {0} /\ s[n] \in S
  OBVIOUS

LEMMA FileFacts ==
    ASSUME NEW f \in Files, NEW n \in DOMAIN f.decisions
    PROVE  n \in Nat \ {0} /\ f.decisions[n].key \in Keys /\ f.decisions[n].value \in Values
<1> DEFINE S == [key : Keys, value : Values]
<1>1. f.decisions \in Seq(S)
  BY RegistryAssumption
<1>2. n \in Nat \ {0} /\ f.decisions[n] \in S
  <2> HIDE DEF S
  <2> QED
    BY <1>1, ItemFacts
<1> QED
  BY <1>2

\* The decisions that count are those a file is heard with, one for each spelling.
LEMMA AcceptedFacts ==
    ASSUME NEW f \in Files
    PROVE  /\ Accepted(f.decisions) \subseteq DOMAIN f.decisions
           /\ Heard(f) = {f.decisions[n] : n \in Accepted(f.decisions)}
           /\ \A m, n \in Accepted(f.decisions) : f.decisions[m].key = f.decisions[n].key => m = n
<1>1. /\ Accepted(f.decisions) \subseteq DOMAIN f.decisions
      /\ Heard(f) = {f.decisions[n] : n \in Accepted(f.decisions)}
  BY DEF Accepted, Heard
<1>2. ASSUME NEW m \in Accepted(f.decisions), NEW n \in Accepted(f.decisions),
             f.decisions[m].key = f.decisions[n].key
      PROVE  m = n
  <2>1. m \in Nat \ {0} /\ n \in Nat \ {0}
    BY <1>1, FileFacts
  <2>2. ~ (m < n) /\ ~ (n < m)
    BY <1>2, <2>1 DEF Accepted
  <2> QED
    BY <2>1, <2>2
<1> QED
  BY <1>1, <1>2

--------------------------------------------------------------------------------
(* The steps of one command, as the others see them.                          *)

\* Nothing of another command changes.
OthersStay(p) ==
    \A q \in Processes \ {p} :
        /\ writes'[q] = writes[q] /\ pc'[q] = pc[q] /\ job'[q] = job[q]
        /\ rows'[q] = rows[q] /\ next'[q] = next[q]
        /\ doomed'[q] = doomed[q] /\ removed'[q] = removed[q] /\ late'[q] = late[q]

\* The step of an open transaction: it writes rows that no other one has written.
Own(p) ==
    /\ db' = db
    /\ OthersStay(p)
    /\ \A r \in DOMAIN writes'[p] : r \in DOMAIN writes[p] \/ ~Held(p, r)

LEMMA ProcessStays ==
    ASSUME NEW q \in Processes, ProcessOf(q), db' = db,
           writes'[q] = writes[q], pc'[q] = pc[q], job'[q] = job[q],
           rows'[q] = rows[q], next'[q] = next[q],
           doomed'[q] = doomed[q], removed'[q] = removed[q], late'[q] = late[q]
    PROVE  ProcessOf(q)'
<1>1. CommandOf(q)'
  BY DEF ProcessOf, CommandOf
<1>2. RegistrationOf(q)'
  BY DEF ProcessOf, RegistrationOf
<1>3. Inserted(q)' = Inserted(q) /\ \A n : RowOf(q, n)' = RowOf(q, n) /\ Decision(q, n)' = Decision(q, n)
  BY DEF Inserted, RowOf, Decision
<1>4. ImportOf(q)'
  BY <1>3 DEF ProcessOf, ImportOf
<1>5. SkippedOf(q)'
  BY <1>3 DEF ProcessOf, SkippedOf
<1>6. ReplacedOf(q)'
  BY DEF ProcessOf, ReplacedOf
<1> QED
  BY <1>1, <1>2, <1>4, <1>5, <1>6 DEF ProcessOf

\* It is enough to look at the command that takes the step.
LEMMA OwnStep ==
    ASSUME IInv, NEW p \in Processes, Own(p), TypeOK', ProcessOf(p)'
    PROVE  IInv'
<1>1. Left(db)'
  BY DEF IInv, Own
<1>2. ASSUME NEW q \in Processes
      PROVE  ProcessOf(q)'
  <2>1. CASE q = p
    BY <2>1
  <2>2. CASE q # p
    BY <2>2, ProcessStays DEF IInv, Own, OthersStay
  <2> QED
    BY <2>1, <2>2
<1>3. ASSUME NEW a \in Processes, NEW b \in Processes, a # b
      PROVE  DOMAIN writes'[a] \cap DOMAIN writes'[b] = {}
  <2>1. CASE a # p /\ b # p
    BY <1>3, <2>1 DEF IInv, Exclusive, Own, OthersStay
  <2>2. CASE a = p
    BY <1>3, <2>2 DEF IInv, Exclusive, Own, OthersStay, Held
  <2>3. CASE b = p
    BY <1>3, <2>3 DEF IInv, Exclusive, Own, OthersStay, Held
  <2> QED
    BY <2>1, <2>2, <2>3
<1> QED
  BY <1>1, <1>2, <1>3 DEF IInv, Exclusive

\* A transaction that ends without a trace.
LEMMA RollsBackFacts ==
    ASSUME IInv, NEW p \in Processes, NEW how \in Ended \ {"invalid"}, RollsBack(p, how)
    PROVE  TypeOK' /\ Own(p) /\ ProcessOf(p)'
<1> USE DEF IInv, RollsBack, Ends
<1>1. /\ writes'[p] = <<>> /\ DOMAIN writes'[p] = {}
      /\ pc'[p] = how /\ removed'[p] = {} /\ doomed'[p] = {}
  BY DEF TypeOK
<1>2. TypeOK'
  <2>1. \A q \in Processes : writes'[q] = writes[q] \/ writes'[q] = <<>>
    BY DEF TypeOK
  <2>2. \A q \in Processes : DOMAIN writes'[q] \subseteq Rows
    BY <2>1 DEF TypeOK
  <2> QED
    BY <2>2 DEF TypeOK, Points
<1>3. Own(p)
  BY <1>1 DEF Own, OthersStay, TypeOK
<1>4. ProcessOf(p)'
  BY <1>1 DEF ProcessOf, CommandOf, RegistrationOf, ImportOf, SkippedOf, ReplacedOf, Ended
<1> QED
  BY <1>2, <1>3, <1>4

LEMMA StartFacts ==
    ASSUME IInv, NEW p \in Processes, Start(p)
    PROVE  TypeOK' /\ Own(p) /\ ProcessOf(p)'
<1> USE DEF IInv
<1>0. PICK j \in Jobs :
          /\ job' = [job EXCEPT ![p] = j]
          /\ pc' = [pc EXCEPT ![p] = IF j.op = "register" THEN "project" ELSE "prepare"]
  BY DEF Start, Goes
<1>1. /\ job'[p] = j /\ pc'[p] = IF j.op = "register" THEN "project" ELSE "prepare"
      /\ j.op \in Imports \cup {"register"}
  BY <1>0 DEF TypeOK, Jobs
<1>2. TypeOK'
  <2>1. pc' \in [Processes -> Points] /\ job' \in [Processes -> Jobs \cup {NoJob}]
    BY <1>0 DEF TypeOK, Points
  <2>2. started' \in 0..MaxCommands
    BY RegistryAssumption DEF TypeOK, Start
  <2> QED
    BY <2>1, <2>2 DEF TypeOK, Start
<1>3. Own(p)
  BY <1>0 DEF Own, OthersStay, TypeOK, Start
<1>4. DOMAIN writes'[p] = {} /\ removed'[p] = {} /\ doomed'[p] = {} /\ next'[p] = 1
  BY DEF Start, TypeOK, ProcessOf, CommandOf, Ended
<1>5. ProcessOf(p)'
  BY <1>1, <1>4 DEF ProcessOf, CommandOf, RegistrationOf, ImportOf, SkippedOf, ReplacedOf
<1> QED
  BY <1>2, <1>3, <1>5

--------------------------------------------------------------------------------
(* The steps of an import.                                                    *)

LEMMA PrepareFacts ==
    ASSUME IInv, NEW p \in Processes, Prepare(p)
    PROVE  TypeOK' /\ Own(p) /\ ProcessOf(p)'
<1> USE DEF IInv, Prepare, Goes
<1>1. /\ job[p] \in Jobs /\ job[p].op \in Imports /\ job[p].code \in Codes /\ job[p].file \in Files
      /\ DOMAIN writes[p] = {} /\ removed[p] = {} /\ doomed[p] = {}
  BY JobFacts DEF ProcessOf, CommandOf
<1>2. /\ job' = job /\ writes' = writes /\ next' = next /\ removed' = removed /\ doomed' = doomed
      /\ db' = db /\ late' = late /\ started' = started
  OBVIOUS
<1>3. CASE job[p].file.project # job[p].code \/ db[ProjectRow(job[p].code)] = None
  <2>1. pc' = [pc EXCEPT ![p] = "refused"] /\ rows' = rows
    BY <1>3
  <2>2. TypeOK'
    BY <1>2, <2>1 DEF TypeOK, Points, Ended
  <2>3. Own(p)
    BY <1>2, <2>1 DEF Own, OthersStay, TypeOK
  <2>4. ProcessOf(p)'
    BY <1>1, <1>2, <2>1 DEF TypeOK, ProcessOf, CommandOf, RegistrationOf, ImportOf, SkippedOf, ReplacedOf
  <2> QED
    BY <2>2, <2>3, <2>4
<1>4. CASE ~ (job[p].file.project # job[p].code \/ db[ProjectRow(job[p].code)] = None)
  <2> DEFINE to == CASE job[p].op = "replace" -> "delete"
                     [] job[p].op = "preview-replace" -> "done"
                     [] OTHER -> "compare"
             accepted == Accepted(job[p].file.decisions)
  <2>1. pc' = [pc EXCEPT ![p] = to] /\ rows' = [rows EXCEPT ![p] = accepted]
    BY <1>4
  <2>2. /\ to \in {"delete", "done", "compare"}
        /\ to = "delete" => job[p].op = "replace"
        /\ to = "compare" => job[p].op \notin {"replace"}
    OBVIOUS
  <2> HIDE DEF to
  <2>3. accepted \subseteq Nat
    BY <1>1, AcceptedFacts, FileFacts
  <2> HIDE DEF accepted
  <2>4. TypeOK'
    BY <1>2, <2>1, <2>2, <2>3 DEF TypeOK, Points, Ended
  <2>5. Own(p)
    BY <1>2, <2>1 DEF Own, OthersStay, TypeOK
  <2>6. pc'[p] = to /\ rows'[p] = accepted
    BY <2>1 DEF TypeOK
  <2>7. next[p] = 1
    BY DEF ProcessOf, CommandOf
  <2>8. CommandOf(p)' /\ RegistrationOf(p)' /\ SkippedOf(p)' /\ ReplacedOf(p)'
    BY <1>1, <1>2, <2>2, <2>6 DEF CommandOf, RegistrationOf, SkippedOf, ReplacedOf
  <2>9. Inserted(p)' = {}
    BY <1>2, <2>3, <2>6, <2>7, AcceptedFacts, FileFacts, <1>1 DEF Inserted, accepted
  <2>10. ImportOf(p)'
    BY <1>1, <1>2, <1>4, <2>2, <2>6, <2>7, <2>9 DEF ImportOf, accepted
  <2> QED
    BY <2>4, <2>5, <2>8, <2>10 DEF ProcessOf
<1> QED
  BY <1>3, <1>4

LEMMA CompareFacts ==
    ASSUME IInv, NEW p \in Processes, Compare(p)
    PROVE  TypeOK' /\ Own(p) /\ ProcessOf(p)'
<1> USE DEF IInv
<1> DEFINE to == IF job[p].op = "upsert" THEN "inserting" ELSE "done"
           accepted == Accepted(job[p].file.decisions)
<1>1. /\ pc[p] = "compare" /\ job[p] \in Jobs /\ job[p].op \in Imports
      /\ DOMAIN writes[p] = {} /\ removed[p] = {} /\ doomed[p] = {}
  BY DEF Compare, ProcessOf, CommandOf
<1>2. /\ job' = job /\ writes' = writes /\ next' = next /\ removed' = removed /\ doomed' = doomed
      /\ db' = db /\ started' = started
      /\ pc' = [pc EXCEPT ![p] = to]
      /\ rows' = [rows EXCEPT ![p] = Changed(p)]
      /\ late' = [late EXCEPT ![p] = {}]
  BY DEF Compare, Goes
<1>3. /\ db[ProjectRow(job[p].code)] # None /\ rows[p] = accepted /\ next[p] = 1
  BY <1>1 DEF ProcessOf, ImportOf
<1>4. Changed(p) \subseteq rows[p] /\ Changed(p) \subseteq Nat
  BY DEF Changed, TypeOK
<1>5. TypeOK'
  BY <1>2, <1>4 DEF TypeOK, Points, Ended
<1>6. Own(p)
  BY <1>2 DEF Own, OthersStay, TypeOK
<1>7. pc'[p] = to /\ rows'[p] = Changed(p)
  BY <1>2 DEF TypeOK
<1>8. CommandOf(p)' /\ RegistrationOf(p)' /\ ReplacedOf(p)'
  BY <1>1, <1>2, <1>7 DEF CommandOf, RegistrationOf, ReplacedOf
<1>9. Inserted(p)' = {}
  <2>1. \A n \in accepted : n \in Nat \ {0}
    BY <1>1, AcceptedFacts, FileFacts, JobFacts
  <2> QED
    BY <1>2, <1>3, <1>4, <1>7, <2>1 DEF Inserted
<1>10. ImportOf(p)'
  BY <1>1, <1>2, <1>3, <1>4, <1>7, <1>9 DEF ImportOf
<1>11. SkippedOf(p)'
  <2>1. \A n : RowOf(p, n)' = RowOf(p, n) /\ Decision(p, n)' = Decision(p, n)
    BY <1>2 DEF RowOf, Decision
  <2>2. \A n \in accepted \ Changed(p) : db[RowOf(p, n)] = Decision(p, n).value
    BY <1>3 DEF Changed
  <2> QED
    BY <1>2, <1>7, <2>1, <2>2 DEF SkippedOf
<1> QED
  BY <1>5, <1>6, <1>8, <1>10, <1>11 DEF ProcessOf

LEMMA DeleteFacts ==
    ASSUME IInv, NEW p \in Processes, Delete(p)
    PROVE  TypeOK' /\ Own(p) /\ ProcessOf(p)'
<1> USE DEF IInv
<1> DEFINE there == {r \in DecisionsOf(job[p].code) : db[r] # None}
<1>1. /\ pc[p] = "delete" /\ job[p] \in Jobs /\ job[p].op = "replace"
      /\ DOMAIN writes[p] = {} /\ removed[p] = {}
  BY DEF Delete, ProcessOf, CommandOf
<1>2. /\ job' = job /\ writes' = writes /\ next' = next /\ removed' = removed /\ rows' = rows
      /\ db' = db /\ started' = started
      /\ pc' = [pc EXCEPT ![p] = "deleting"]
      /\ doomed' = [doomed EXCEPT ![p] = there]
      /\ late' = [late EXCEPT ![p] = {}]
  BY DEF Delete, Goes
<1>3. there \subseteq Rows
  BY <1>1, JobFacts, DecisionsAreRows
<1>4. TypeOK'
  <2> HIDE DEF there
  <2> QED
    BY <1>2, <1>3 DEF TypeOK, Points, Ended
<1>5. Own(p)
  BY <1>2 DEF Own, OthersStay, TypeOK
<1>6. pc'[p] = "deleting" /\ doomed'[p] = there
  BY <1>2 DEF TypeOK
<1>7. CommandOf(p)' /\ RegistrationOf(p)' /\ SkippedOf(p)'
  BY <1>1, <1>2, <1>6 DEF CommandOf, RegistrationOf, SkippedOf, Imports
<1>8. Inserted(p)' = Inserted(p) /\ \A n : RowOf(p, n)' = RowOf(p, n) /\ Decision(p, n)' = Decision(p, n)
  BY <1>2 DEF Inserted, RowOf, Decision
<1>9. ImportOf(p)'
  BY <1>1, <1>2, <1>6, <1>8 DEF ImportOf, ProcessOf
<1>10. ReplacedOf(p)'
  BY <1>2, <1>6 DEF ReplacedOf
<1> QED
  BY <1>4, <1>5, <1>7, <1>9, <1>10 DEF ProcessOf

LEMMA RemoveRowFacts ==
    ASSUME IInv, NEW p \in Processes, RemoveRow(p)
    PROVE  TypeOK' /\ Own(p) /\ ProcessOf(p)'
<1> USE DEF IInv
<1>1. PICK r \in doomed[p] :
          /\ ~Held(p, r)
          /\ writes' = [writes EXCEPT ![p] = Over([x \in {r} |-> None], @)]
          /\ doomed' = [doomed EXCEPT ![p] = @ \ {r}]
          /\ removed' = [removed EXCEPT ![p] = @ \cup {r}]
  BY DEF RemoveRow, Writes
<1>2. UNCHANGED <<db, pc, job, rows, next, late, started>> /\ pc[p] = "deleting"
  BY DEF RemoveRow
<1>3. /\ writes'[p] = Over([x \in {r} |-> None], writes[p])
      /\ doomed'[p] = doomed[p] \ {r} /\ removed'[p] = removed[p] \cup {r}
      /\ \A q \in Processes \ {p} : writes'[q] = writes[q]
      /\ DOMAIN writes' = Processes
  BY <1>1 DEF TypeOK
<1>4. /\ DOMAIN writes'[p] = {r} \cup DOMAIN writes[p] /\ writes'[p][r] = None
      /\ \A y \in DOMAIN writes[p] : y # r => writes'[p][y] = writes[p][y]
  BY <1>3 DEF Over
<1>5. TypeOK'
  <2>1. r \in Rows
    BY DEF TypeOK
  <2>2. \A q \in Processes : DOMAIN writes'[q] \subseteq Rows
    BY <1>3, <1>4, <2>1 DEF TypeOK
  <2>3. doomed' \in [Processes -> SUBSET Rows] /\ removed' \in [Processes -> SUBSET Rows]
    BY <1>1, <2>1 DEF TypeOK
  <2> QED
    BY <1>2, <1>3, <2>2, <2>3 DEF TypeOK
<1>6. Own(p)
  <2>1. OthersStay(p)
    BY <1>1, <1>2 DEF OthersStay, TypeOK
  <2> QED
    BY <1>1, <1>2, <1>4, <2>1 DEF Own
<1>7. CommandOf(p)' /\ RegistrationOf(p)' /\ SkippedOf(p)'
  BY <1>2 DEF ProcessOf, CommandOf, RegistrationOf, SkippedOf
<1>8. job[p].op = "replace" /\ next[p] = 1 /\ job[p] \in Jobs /\ job[p].file \in Files
  BY <1>2, JobFacts DEF ProcessOf, CommandOf, ImportOf
<1>9. Inserted(p) = {} /\ Inserted(p)' = {}
  <2>1. \A n \in rows[p] : n \in Nat \ {0}
    BY <1>2, <1>8, AcceptedFacts, FileFacts DEF ProcessOf, ImportOf
  <2> QED
    BY <1>2, <1>8, <2>1 DEF Inserted
<1>10. ImportOf(p)'
  <2>1. {RowOf(p, n) : n \in Inserted(p)} = {} /\ {RowOf(p, n)' : n \in Inserted(p)'} = {}
    BY <1>9
  <2>2. /\ db[ProjectRow(job[p].code)] # None /\ rows[p] = Accepted(job[p].file.decisions)
        /\ DOMAIN writes[p] = removed[p] /\ \A y \in removed[p] : writes[p][y] = None
        /\ removed[p] \cup doomed[p] \subseteq DecisionsOf(job[p].code)
    BY <1>2, <1>9, <2>1 DEF ImportOf, ProcessOf
  <2>3. /\ DOMAIN writes'[p] = removed'[p] /\ \A y \in removed'[p] : writes'[p][y] = None
        /\ removed'[p] \cup doomed'[p] \subseteq DecisionsOf(job[p].code)
    BY <1>3, <1>4, <2>2
  <2> QED
    BY <1>2, <1>8, <1>9, <2>1, <2>2, <2>3 DEF ImportOf
<1>11. ReplacedOf(p)'
  BY <1>2, <1>3 DEF ReplacedOf, ProcessOf
<1> QED
  BY <1>5, <1>6, <1>7, <1>10, <1>11 DEF ProcessOf

LEMMA DeletedFacts ==
    ASSUME IInv, NEW p \in Processes, Deleted(p)
    PROVE  TypeOK' /\ Own(p) /\ ProcessOf(p)'
<1> USE DEF IInv
<1>1. /\ UNCHANGED <<db, writes, job, rows, next, doomed, removed, late, started>>
      /\ pc' = [pc EXCEPT ![p] = "inserting"] /\ pc[p] = "deleting" /\ doomed[p] = {}
  BY DEF Deleted, Goes
<1>2. job[p].op = "replace" /\ job[p] \in Jobs
  BY <1>1 DEF ProcessOf, CommandOf
<1>3. TypeOK'
  BY <1>1 DEF TypeOK, Points
<1>4. Own(p)
  BY <1>1 DEF Own, OthersStay, TypeOK
<1>5. pc'[p] = "inserting"
  BY <1>1 DEF TypeOK
<1>6. CommandOf(p)' /\ RegistrationOf(p)' /\ SkippedOf(p)' /\ ReplacedOf(p)'
  BY <1>1, <1>2, <1>5 DEF ProcessOf, CommandOf, RegistrationOf, SkippedOf, ReplacedOf, Imports
<1>7. Inserted(p)' = Inserted(p) /\ \A n : RowOf(p, n)' = RowOf(p, n) /\ Decision(p, n)' = Decision(p, n)
  BY <1>1 DEF Inserted, RowOf, Decision
<1>8. ImportOf(p)'
  BY <1>1, <1>2, <1>5, <1>7 DEF ProcessOf, ImportOf
<1> QED
  BY <1>3, <1>4, <1>6, <1>8 DEF ProcessOf

\* The decisions of an import are on different rows.
LEMMA DecisionsDiffer ==
    ASSUME IInv, NEW p \in Processes, pc[p] = "inserting"
    PROVE  /\ job[p] \in Jobs /\ job[p].op \in Imports /\ job[p].code \in Codes /\ job[p].file \in Files
           /\ \A n \in Accepted(job[p].file.decisions) :
                 /\ n \in Nat \ {0} /\ Decision(p, n).key \in Keys /\ Decision(p, n).value \in Values
                 /\ RowOf(p, n) \in DecisionsOf(job[p].code) /\ RowOf(p, n) \in Rows
           /\ \A m, n \in Accepted(job[p].file.decisions) : RowOf(p, m) = RowOf(p, n) => m = n
           /\ rows[p] \subseteq Accepted(job[p].file.decisions)
<1>1. job[p] \in Jobs /\ job[p].op \in Imports /\ job[p].code \in Codes /\ job[p].file \in Files
  BY JobFacts DEF IInv, ProcessOf, CommandOf
<1>2. ASSUME NEW n \in Accepted(job[p].file.decisions)
      PROVE  /\ n \in Nat \ {0} /\ Decision(p, n).key \in Keys /\ Decision(p, n).value \in Values
             /\ RowOf(p, n) \in DecisionsOf(job[p].code) /\ RowOf(p, n) \in Rows
  <2>1. n \in Nat \ {0} /\ Decision(p, n).key \in Keys /\ Decision(p, n).value \in Values
    BY <1>1, AcceptedFacts, FileFacts DEF Decision
  <2> QED
    BY <1>1, <2>1, RowFacts DEF RowOf
<1>3. ASSUME NEW m \in Accepted(job[p].file.decisions), NEW n \in Accepted(job[p].file.decisions),
             RowOf(p, m) = RowOf(p, n)
      PROVE  m = n
  <2>1. Decision(p, m).key = Decision(p, n).key
    BY <1>3, RowFacts DEF RowOf
  <2> QED
    BY <1>1, <2>1, AcceptedFacts DEF Decision
<1>4. rows[p] \subseteq Accepted(job[p].file.decisions)
  BY DEF IInv, ProcessOf, ImportOf
<1> QED
  BY <1>1, <1>2, <1>3, <1>4

LEMMA InsertRowFacts ==
    ASSUME IInv, NEW p \in Processes, InsertRow(p)
    PROVE  TypeOK' /\ Own(p) /\ ProcessOf(p)'
<1> USE DEF IInv
<1>1. pc[p] = "inserting"
  BY DEF InsertRow
<1>2. PICK n \in rows[p] :
          /\ next[p] <= n
          /\ \A m \in rows[p] : next[p] <= m => n <= m
          /\ IF \E m \in rows[p] : m < n /\ RowOf(p, m) = RowOf(p, n)
             THEN RollsBack(p, "invalid")
             ELSE /\ ~Held(p, RowOf(p, n))
                  /\ Writes(p, RowOf(p, n), Decision(p, n).value)
                  /\ next' = [next EXCEPT ![p] = n + 1]
                  /\ UNCHANGED <<db, pc, job, rows, doomed, removed, late, started>>
  BY DEF InsertRow
<1>3. /\ \A m \in rows[p] : m \in Nat /\ RowOf(p, m) \in Rows
      /\ \A m, k \in rows[p] : RowOf(p, m) = RowOf(p, k) => m = k
  BY <1>1, DecisionsDiffer
<1>4. /\ ~Held(p, RowOf(p, n))
      /\ writes' = [writes EXCEPT ![p] = Over([x \in {RowOf(p, n)} |-> Decision(p, n).value], @)]
      /\ next' = [next EXCEPT ![p] = n + 1]
      /\ UNCHANGED <<db, pc, job, rows, doomed, removed, late, started>>
  <2>1. ~ \E m \in rows[p] : m < n /\ RowOf(p, m) = RowOf(p, n)
    BY <1>3
  <2> QED
    BY <1>2, <2>1 DEF Writes
<1> DEFINE r == RowOf(p, n)
<1>5. /\ writes'[p] = Over([x \in {r} |-> Decision(p, n).value], writes[p])
      /\ \A q \in Processes \ {p} : writes'[q] = writes[q]
      /\ DOMAIN writes' = Processes
      /\ next'[p] = n + 1
  BY <1>4 DEF TypeOK
<1>6. r \in Rows
  BY <1>3
<1>7. /\ DOMAIN writes'[p] = {r} \cup DOMAIN writes[p] /\ writes'[p][r] = Decision(p, n).value
      /\ \A y \in DOMAIN writes[p] : y # r => writes'[p][y] = writes[p][y]
  <2> HIDE DEF r
  <2> QED
    BY <1>5 DEF Over
<1>8. TypeOK'
  <2>1. \A q \in Processes : DOMAIN writes'[q] \subseteq Rows
    BY <1>5, <1>6, <1>7 DEF TypeOK
  <2>2. next' \in [Processes -> Nat]
    BY <1>3, <1>4 DEF TypeOK
  <2> QED
    BY <1>4, <1>5, <2>1, <2>2 DEF TypeOK
<1>9. Own(p)
  <2>1. OthersStay(p)
    BY <1>4 DEF OthersStay, TypeOK
  <2> QED
    BY <1>4, <1>7, <2>1 DEF Own
<1>10. CommandOf(p)' /\ RegistrationOf(p)'
  BY <1>1, <1>4 DEF ProcessOf, CommandOf, RegistrationOf
<1>11. \A m : RowOf(p, m)' = RowOf(p, m) /\ Decision(p, m)' = Decision(p, m)
  BY <1>4 DEF RowOf, Decision
<1>12. SkippedOf(p)' /\ ReplacedOf(p)'
  BY <1>4, <1>11 DEF ProcessOf, SkippedOf, ReplacedOf
<1>13. Inserted(p)' = Inserted(p) \cup {n}
  <2>1. \A m \in rows[p] : m < n + 1 <=> (m < next[p] \/ m = n)
    BY <1>2, <1>3 DEF TypeOK
  <2> QED
    BY <1>4, <1>5, <2>1 DEF Inserted
<1>14. ImportOf(p)'
  <2> DEFINE done == {RowOf(p, m) : m \in Inserted(p)}
             done2 == {RowOf(p, m)' : m \in Inserted(p)'}
  <2>1. done2 = done \cup {r}
    BY <1>11, <1>13
  <2>2. /\ DOMAIN writes[p] = removed[p] \cup done
        /\ \A m \in Inserted(p) : writes[p][RowOf(p, m)] = Decision(p, m).value
        /\ \A y \in removed[p] \ done : writes[p][y] = None
    BY <1>1 DEF ProcessOf, ImportOf
  <2>3. DOMAIN writes'[p] = removed'[p] \cup done2
    <3> HIDE DEF done, done2, r
    <3> QED
      BY <1>4, <1>7, <2>1, <2>2
  <2>4. \A y \in removed'[p] \ done2 : writes'[p][y] = None
    <3> HIDE DEF done, done2, r
    <3> QED
      BY <1>4, <1>7, <2>1, <2>2
  <2>5. \A m \in Inserted(p)' : writes'[p][RowOf(p, m)'] = Decision(p, m)'.value
    <3> SUFFICES ASSUME NEW m \in Inserted(p)'
                 PROVE  writes'[p][RowOf(p, m)] = Decision(p, m).value
      BY <1>11
    <3>1. CASE m = n
      BY <1>7, <3>1
    <3>2. CASE m # n
      <4>1. m \in Inserted(p) /\ m \in rows[p]
        BY <1>13, <3>2 DEF Inserted
      <4>2. RowOf(p, m) # r /\ RowOf(p, m) \in DOMAIN writes[p]
        BY <1>3, <2>2, <3>2, <4>1
      <4> QED
        BY <1>7, <2>2, <4>1, <4>2
    <3> QED
      BY <3>1, <3>2
  <2>6. /\ db[ProjectRow(job[p].code)] # None
        /\ rows[p] \subseteq Accepted(job[p].file.decisions)
        /\ job[p].op = "replace" => rows[p] = Accepted(job[p].file.decisions)
        /\ removed[p] \cup doomed[p] \subseteq DecisionsOf(job[p].code)
        /\ job[p].op = "upsert" => removed[p] = {}
    BY <1>1 DEF ProcessOf, ImportOf
  <2> HIDE DEF done, r
  <2> QED
    BY <1>1, <1>4, <2>3, <2>4, <2>5, <2>6 DEF ImportOf
<1> QED
  BY <1>8, <1>9, <1>10, <1>12, <1>14 DEF ProcessOf

--------------------------------------------------------------------------------
(* The steps of a registration.                                               *)

LEMMA InsertProjectFacts ==
    ASSUME IInv, NEW p \in Processes, InsertProject(p)
    PROVE  TypeOK' /\ Own(p) /\ ProcessOf(p)'
<1> USE DEF IInv
<1> DEFINE r == ProjectRow(job[p].code)
           to == IF job[p].source = None THEN "commit" ELSE "source"
<1>1. /\ pc[p] = "project" /\ ~Held(p, r)
      /\ pc' = [pc EXCEPT ![p] = to]
      /\ UNCHANGED <<db, job, rows, next, doomed, removed, late, started>>
      /\ IF db[r] = None THEN Writes(p, r, "registered") ELSE UNCHANGED writes
  BY DEF InsertProject, Goes
<1>2. /\ job[p] \in Jobs /\ job[p].op = "register" /\ job[p].code \in Codes
      /\ DOMAIN writes[p] = {} /\ removed[p] = {} /\ doomed[p] = {}
  BY <1>1, JobFacts DEF ProcessOf, CommandOf
<1>3. r \in Rows
  BY <1>2, RowFacts
<1>4. /\ \A q \in Processes \ {p} : writes'[q] = writes[q]
      /\ DOMAIN writes' = Processes
      /\ db[r] = None => DOMAIN writes'[p] = {r} /\ writes'[p][r] = "registered"
      /\ db[r] # None => DOMAIN writes'[p] = {}
  <2> HIDE DEF r
  <2>1. CASE db[r] = None
    <3>1. /\ \A q \in Processes \ {p} : writes'[q] = writes[q]
          /\ DOMAIN writes' = Processes
          /\ writes'[p] = Over([x \in {r} |-> "registered"], writes[p])
      BY <1>1, <2>1 DEF Writes, TypeOK
    <3> QED
      BY <1>2, <2>1, <3>1 DEF Over
  <2>2. CASE db[r] # None
    BY <1>1, <1>2, <2>2 DEF TypeOK
  <2> QED
    BY <2>1, <2>2
<1>5. TypeOK'
  <2>1. \A q \in Processes : DOMAIN writes'[q] \subseteq Rows
    BY <1>3, <1>4 DEF TypeOK
  <2> QED
    BY <1>1, <1>4, <2>1 DEF TypeOK, Points
<1>6. Own(p)
  <2>1. OthersStay(p)
    BY <1>1, <1>4 DEF OthersStay, TypeOK
  <2>2. \A x \in DOMAIN writes'[p] : ~Held(p, x)
    BY <1>1, <1>4
  <2> QED
    BY <1>1, <2>1, <2>2 DEF Own
<1>7. pc'[p] = to /\ to \in {"commit", "source"}
  BY <1>1 DEF TypeOK
<1>8. CommandOf(p)' /\ ImportOf(p)' /\ SkippedOf(p)' /\ ReplacedOf(p)'
  BY <1>1, <1>2, <1>7 DEF CommandOf, ImportOf, SkippedOf, ReplacedOf
<1>9. RegistrationOf(p)'
  <2>1. to = "commit" => job[p].source = None
    OBVIOUS
  <2> HIDE DEF to
  <2> QED
    BY <1>1, <1>4, <1>7, <2>1 DEF RegistrationOf
<1> QED
  BY <1>5, <1>6, <1>8, <1>9 DEF ProcessOf

LEMMA InsertSourceFacts ==
    ASSUME IInv, NEW p \in Processes, InsertSource(p)
    PROVE  TypeOK' /\ Own(p) /\ ProcessOf(p)'
<1> USE DEF IInv
<1> DEFINE c == job[p].code
           r == SourceRow(job[p].source)
<1>1. /\ pc[p] = "source" /\ ~Held(p, r) /\ db[r] \in {None, c}
      /\ pc' = [pc EXCEPT ![p] = "commit"]
      /\ UNCHANGED <<db, job, rows, next, doomed, removed, late, started>>
      /\ IF db[r] = None THEN Writes(p, r, c) ELSE UNCHANGED writes
  BY DEF InsertSource, Goes
<1>2. /\ job[p] \in Jobs /\ job[p].op = "register" /\ c \in Codes /\ job[p].source \in Sources
      /\ removed[p] = {} /\ doomed[p] = {}
  BY <1>1, JobFacts DEF ProcessOf, CommandOf
<1>3. r \in Rows /\ r # ProjectRow(c)
  BY <1>2, RowFacts
<1>4. /\ \A y \in DOMAIN writes[p] :
             db[y] = None /\ y = ProjectRow(c) /\ writes[p][y] = "registered"
      /\ ProjectRow(c) \in DOMAIN writes[p] \/ db[ProjectRow(c)] # None
  BY <1>1 DEF ProcessOf, RegistrationOf
<1>5. /\ \A q \in Processes \ {p} : writes'[q] = writes[q]
      /\ DOMAIN writes' = Processes
      /\ db[r] = None => /\ DOMAIN writes'[p] = {r} \cup DOMAIN writes[p] /\ writes'[p][r] = c
                         /\ \A y \in DOMAIN writes[p] : y # r => writes'[p][y] = writes[p][y]
      /\ db[r] # None => writes'[p] = writes[p]
  <2> HIDE DEF r, c
  <2>1. CASE db[r] = None
    <3>1. /\ \A q \in Processes \ {p} : writes'[q] = writes[q]
          /\ DOMAIN writes' = Processes
          /\ writes'[p] = Over([x \in {r} |-> c], writes[p])
      BY <1>1, <2>1 DEF Writes, TypeOK
    <3> QED
      BY <2>1, <3>1 DEF Over
  <2>2. CASE db[r] # None
    BY <1>1, <2>2 DEF TypeOK
  <2> QED
    BY <2>1, <2>2
<1>6. TypeOK'
  <2>1. \A q \in Processes : DOMAIN writes'[q] \subseteq Rows
    BY <1>3, <1>5 DEF TypeOK
  <2> QED
    BY <1>1, <1>5, <2>1 DEF TypeOK, Points
<1>7. Own(p)
  <2>1. OthersStay(p)
    BY <1>1, <1>5 DEF OthersStay, TypeOK
  <2>2. \A x \in DOMAIN writes'[p] : x \in DOMAIN writes[p] \/ ~Held(p, x)
    BY <1>1, <1>5
  <2> QED
    BY <1>1, <2>1, <2>2 DEF Own
<1>8. pc'[p] = "commit"
  BY <1>1 DEF TypeOK
<1>9. CommandOf(p)' /\ ImportOf(p)' /\ SkippedOf(p)' /\ ReplacedOf(p)'
  BY <1>1, <1>2, <1>8 DEF CommandOf, ImportOf, SkippedOf, ReplacedOf
<1>10. RegistrationOf(p)'
  <2>1. job[p].source # None
    BY <1>1 DEF ProcessOf, CommandOf
  <2>2. \A y \in DOMAIN writes'[p] :
           /\ db[y] = None
           /\ \/ y = ProjectRow(c) /\ writes'[p][y] = "registered"
              \/ y = r /\ writes'[p][y] = c
    BY <1>1, <1>3, <1>4, <1>5
  <2>3. ProjectRow(c) \in DOMAIN writes'[p] \/ db[ProjectRow(c)] # None
    BY <1>4, <1>5
  <2>4. r \in DOMAIN writes'[p] \/ db[r] = c
    BY <1>1, <1>5
  <2> QED
    BY <1>1, <1>8, <2>1, <2>2, <2>3, <2>4 DEF RegistrationOf
<1> QED
  BY <1>6, <1>7, <1>9, <1>10 DEF ProcessOf

--------------------------------------------------------------------------------
(* Commits.                                                                   *)

\* What a commit puts into the tables: a registration rows that were not there, an
\* import decisions of its project.
LEMMA CommitWrites ==
    ASSUME IInv, NEW p \in Processes, Commit(p)
    PROVE  /\ job[p] \in Jobs /\ job[p].code \in Codes
           /\ DOMAIN writes[p] \subseteq Rows
           /\ DOMAIN db' = Rows
           /\ \A r \in DOMAIN writes[p] : db'[r] = writes[p][r]
           /\ \A r \in Rows : r \notin DOMAIN writes[p] => db'[r] = db[r]
           /\ pc[p] = "commit" =>
                 \A r \in DOMAIN writes[p] :
                    /\ db[r] = None
                    /\ \/ r = ProjectRow(job[p].code) /\ writes[p][r] = "registered"
                       \/ /\ job[p].source \in Sources /\ r = SourceRow(job[p].source)
                          /\ writes[p][r] = job[p].code
           /\ pc[p] = "inserting" =>
                 /\ db[ProjectRow(job[p].code)] # None
                 /\ \A r \in DOMAIN writes[p] :
                       r \in DecisionsOf(job[p].code) /\ writes[p][r] \in {None} \cup Values
<1> USE DEF IInv
<1>1. pc[p] \in {"commit", "inserting"}
  BY DEF Commit
<1>2. job[p] \in Jobs /\ job[p].code \in Codes
  BY <1>1, JobFacts DEF ProcessOf, CommandOf
<1>3. DOMAIN writes[p] \subseteq Rows /\ DOMAIN db = Rows
  BY DEF TypeOK
<1>4. /\ DOMAIN db' = Rows
      /\ \A r \in DOMAIN writes[p] : db'[r] = writes[p][r]
      /\ \A r \in Rows : r \notin DOMAIN writes[p] => db'[r] = db[r]
  <2>1. db' = Over(writes[p], db)
    BY DEF Commit, Commits
  <2> QED
    BY <1>3, <2>1 DEF Over
<1>5. ASSUME pc[p] = "commit", NEW r \in DOMAIN writes[p]
      PROVE  /\ db[r] = None
             /\ \/ r = ProjectRow(job[p].code) /\ writes[p][r] = "registered"
                \/ /\ job[p].source \in Sources /\ r = SourceRow(job[p].source)
                   /\ writes[p][r] = job[p].code
  <2>1. job[p].source \in Sources \cup {None}
    BY <1>5, JobFacts DEF ProcessOf, CommandOf
  <2> QED
    BY <1>5, <2>1 DEF ProcessOf, RegistrationOf
<1>6. ASSUME pc[p] = "inserting"
      PROVE  /\ db[ProjectRow(job[p].code)] # None
             /\ \A r \in DOMAIN writes[p] :
                   r \in DecisionsOf(job[p].code) /\ writes[p][r] \in {None} \cup Values
  <2> DEFINE done == {RowOf(p, n) : n \in Inserted(p)}
  <2>1. /\ db[ProjectRow(job[p].code)] # None
        /\ DOMAIN writes[p] = removed[p] \cup done
        /\ \A n \in Inserted(p) : writes[p][RowOf(p, n)] = Decision(p, n).value
        /\ \A r \in removed[p] \ done : writes[p][r] = None
        /\ removed[p] \subseteq DecisionsOf(job[p].code)
    BY <1>6 DEF ProcessOf, ImportOf
  <2>2. \A n \in Inserted(p) : RowOf(p, n) \in DecisionsOf(job[p].code) /\ Decision(p, n).value \in Values
    BY <1>6, DecisionsDiffer DEF Inserted
  <2>3. \A r \in done : r \in DecisionsOf(job[p].code) /\ writes[p][r] \in Values
    BY <2>1, <2>2
  <2> HIDE DEF done
  <2> QED
    BY <2>1, <2>3
<1> QED
  BY <1>2, <1>3, <1>4, <1>5, <1>6

\* Projects and sources that are there stay as they are.
LEMMA CommitKeeps ==
    ASSUME IInv, NEW p \in Processes, Commit(p)
    PROVE  /\ \A c \in Codes : db[ProjectRow(c)] # None => db'[ProjectRow(c)] = db[ProjectRow(c)]
           /\ \A s \in Sources : db[SourceRow(s)] # None => db'[SourceRow(s)] = db[SourceRow(s)]
<1>1. pc[p] \in {"commit", "inserting"}
  BY DEF Commit
<1>2. ASSUME NEW r \in Rows, db[r] # None, \A c, k : r # DecisionRow(c, k)
      PROVE  db'[r] = db[r]
  <2>1. r \notin DOMAIN writes[p]
    <3>1. CASE pc[p] = "commit"
      BY <1>2, <3>1, CommitWrites
    <3>2. CASE pc[p] = "inserting"
      BY <1>2, <3>2, CommitWrites DEF DecisionsOf
    <3> QED
      BY <1>1, <3>1, <3>2
  <2> QED
    BY <2>1, CommitWrites
<1> QED
  BY <1>2, RowFacts

\* Nothing is without its project.
LEMMA CommitLeft ==
    ASSUME IInv, NEW p \in Processes, Commit(p)
    PROVE  Left(db)' /\ db' \in [Rows -> AnyContent]
<1> DEFINE j == job[p]
<1>1. pc[p] \in {"commit", "inserting"}
  BY DEF Commit
<1>2. ASSUME NEW r \in Rows PROVE db'[r] \in Content(r)
  <2>1. CASE r \notin DOMAIN writes[p]
    BY <2>1, CommitWrites DEF IInv, Left
  <2>2. CASE r \in DOMAIN writes[p] /\ pc[p] = "commit"
    BY <2>2, CommitWrites, ContentFacts
  <2>3. CASE r \in DOMAIN writes[p] /\ pc[p] = "inserting"
    <3>1. db'[r] \in {None} \cup Values /\ r \in DecisionsOf(j.code)
      BY <2>3, CommitWrites
    <3> QED
      BY <3>1, ContentFacts DEF DecisionsOf
  <2> QED
    BY <1>1, <2>1, <2>2, <2>3
<1>3. ASSUME NEW c \in Codes, db'[ProjectRow(c)] = None
      PROVE  /\ \A r \in DecisionsOf(c) : db'[r] = None
             /\ \A s \in Sources : db'[SourceRow(s)] # c
  <2>1. db[ProjectRow(c)] = None
    BY <1>3, CommitKeeps
  <2>2. /\ \A r \in DecisionsOf(c) : db[r] = None
        /\ \A s \in Sources : db[SourceRow(s)] # c
    BY <2>1 DEF IInv, Left
  <2>3. ASSUME NEW r \in DecisionsOf(c) PROVE db'[r] = None
    <3>1. r \in Rows
      BY DecisionsAreRows
    <3>2. r \notin DOMAIN writes[p]
      <4>1. PICK k \in Keys : r = DecisionRow(c, k)
        BY DEF DecisionsOf
      <4>2. CASE pc[p] = "commit"
        BY <4>1, <4>2, CommitWrites, RowFacts
      <4>3. CASE pc[p] = "inserting"
        <5>1. SUFFICES ASSUME r \in DecisionsOf(j.code) PROVE FALSE
          BY <4>3, CommitWrites
        <5>2. c = j.code
          BY <4>1, <5>1, RowFacts DEF DecisionsOf
        <5> QED
          BY <2>1, <4>3, <5>2, CommitWrites
      <4> QED
        BY <1>1, <4>2, <4>3
    <3> QED
      BY <2>2, <3>1, <3>2, CommitWrites
  <2>4. ASSUME NEW s \in Sources, db'[SourceRow(s)] = c PROVE FALSE
    <3>1. SourceRow(s) \in Rows
      BY RowFacts
    <3>2. SourceRow(s) \in DOMAIN writes[p]
      BY <2>2, <2>4, <3>1, CommitWrites
    <3>3. pc[p] = "commit"
      BY <1>1, <3>2, CommitWrites, RowFacts DEF DecisionsOf
    <3>4. c = j.code
      <4>1. SourceRow(s) # ProjectRow(j.code)
        BY RowFacts
      <4> QED
        BY <2>4, <3>2, <3>3, <4>1, CommitWrites
    <3>5. ProjectRow(c) \in DOMAIN writes[p]
      BY <2>1, <3>3, <3>4 DEF IInv, ProcessOf, RegistrationOf
    <3>6. db'[ProjectRow(c)] = "registered"
      <4>1. \A t : ProjectRow(c) # SourceRow(t)
        BY RowFacts
      <4> QED
        BY <3>3, <3>5, <4>1, CommitWrites
    <3> QED
      BY <1>3, <3>6, RegistryAssumption
  <2> QED
    BY <2>3, <2>4
<1>4. db' \in [Rows -> AnyContent]
  <2>1. \A r \in Rows : db'[r] \in AnyContent
    BY <1>2 DEF AnyContent
  <2>2. db' = [r \in Rows |-> db'[r]]
    <3>1. db' = Over(writes[p], db)
      BY DEF Commit, Commits
    <3>2. db' = [r \in DOMAIN db' |-> db'[r]]
      BY <3>1 DEF Over
    <3> QED
      BY <3>2, CommitWrites
  <2> QED
    BY <2>1, <2>2
<1> QED
  BY <1>2, <1>3, <1>4 DEF Left

\* What another command sees of a commit: rows it has not written change, each of
\* them into its late ones, and rows it had yet to remove are gone.
LEMMA CommitSeen ==
    ASSUME IInv, NEW p \in Processes, Commit(p), NEW q \in Processes, q # p
    PROVE  /\ writes'[q] = writes[q] /\ pc'[q] = pc[q] /\ job'[q] = job[q]
           /\ rows'[q] = rows[q] /\ next'[q] = next[q] /\ removed'[q] = removed[q]
           /\ doomed'[q] = doomed[q] \ removed[p]
           /\ late'[q] = late[q] \cup DOMAIN writes[p]
           /\ removed[p] \subseteq DOMAIN writes[p]
           /\ \A r \in DOMAIN writes[q] : r \in Rows /\ r \notin DOMAIN writes[p]
<1>1. PICK how \in {"done", "failed"} : Ends(p, how)
  BY DEF Commit
<1>2. /\ writes'[q] = writes[q] /\ pc'[q] = pc[q] /\ job'[q] = job[q]
      /\ rows'[q] = rows[q] /\ next'[q] = next[q] /\ removed'[q] = removed[q]
  BY <1>1 DEF Ends, IInv, TypeOK
<1>3. /\ doomed'[q] = doomed[q] \ removed[p]
      /\ late'[q] = late[q] \cup DOMAIN writes[p]
  BY DEF Commit, Commits
<1>4. removed[p] \subseteq DOMAIN writes[p]
  <2>1. pc[p] \in {"commit", "inserting"}
    BY DEF Commit
  <2>2. pc[p] = "commit" => removed[p] = {}
    BY DEF IInv, ProcessOf, CommandOf
  <2>3. pc[p] = "inserting" => removed[p] \subseteq DOMAIN writes[p]
    BY DEF IInv, ProcessOf, ImportOf
  <2> QED
    BY <2>1, <2>2, <2>3
<1>5. \A r \in DOMAIN writes[q] : r \in Rows /\ r \notin DOMAIN writes[p]
  BY DEF IInv, Exclusive, TypeOK
<1> QED
  BY <1>2, <1>3, <1>4, <1>5

LEMMA CommitOthers ==
    ASSUME IInv, NEW p \in Processes, Commit(p), NEW q \in Processes, q # p
    PROVE  ProcessOf(q)'
<1>1. \A n : RowOf(q, n)' = RowOf(q, n) /\ Decision(q, n)' = Decision(q, n)
  BY CommitSeen DEF RowOf, Decision
<1>2. Inserted(q)' = Inserted(q)
  BY CommitSeen DEF Inserted
<1>3. CommandOf(q)'
  <2>1. CommandOf(q)
    BY DEF IInv, ProcessOf
  <2> QED
    BY <2>1, CommitSeen DEF CommandOf
<1>4. RegistrationOf(q)'
  <2>1. RegistrationOf(q)
    BY DEF IInv, ProcessOf
  <2> SUFFICES ASSUME pc[q] \in {"source", "commit"}
               PROVE  RegistrationOf(q)'
    BY CommitSeen DEF RegistrationOf
  <2> DEFINE c == job[q].code
             s == job[q].source
  <2>2. c \in Codes /\ s \in Sources \cup {None}
    BY JobFacts DEF IInv, ProcessOf, CommandOf
  <2>3. \A r \in DOMAIN writes[q] : db'[r] = db[r]
    BY CommitSeen, CommitWrites
  <2>4. db[ProjectRow(c)] # None => db'[ProjectRow(c)] # None
    BY <2>2, CommitKeeps
  <2>5. s # None /\ db[SourceRow(s)] = c => db'[SourceRow(s)] = c
    <3>1. c # None
      BY <2>2, RegistryAssumption
    <3> QED
      BY <2>2, <3>1, CommitKeeps
  <2> QED
    BY <2>1, <2>3, <2>4, <2>5, CommitSeen DEF RegistrationOf
<1>5. ImportOf(q)'
  <2>1. ImportOf(q)
    BY DEF IInv, ProcessOf
  <2> SUFFICES ASSUME pc[q] \in {"compare", "delete", "deleting", "inserting"}
               PROVE  ImportOf(q)'
    BY CommitSeen DEF ImportOf
  <2>2. job[q].code \in Codes
    BY JobFacts DEF IInv, ProcessOf, CommandOf
  <2>3. db'[ProjectRow(job[q].code)] # None
    BY <2>1, <2>2, CommitKeeps DEF ImportOf
  <2>4. {RowOf(q, n)' : n \in Inserted(q)'} = {RowOf(q, n) : n \in Inserted(q)}
    BY <1>1, <1>2
  <2> QED
    BY <1>1, <1>2, <2>1, <2>3, <2>4, CommitSeen DEF ImportOf
<1>6. SkippedOf(q)'
  <2> SUFFICES ASSUME pc[q] = "inserting", job[q].op = "upsert",
                      NEW n \in Accepted(job[q].file.decisions) \ rows[q]
               PROVE  db'[RowOf(q, n)] = Decision(q, n).value \/ RowOf(q, n) \in late'[q]
    BY <1>1, CommitSeen DEF SkippedOf
  <2>1. RowOf(q, n) \in Rows
    BY DecisionsDiffer
  <2>2. db[RowOf(q, n)] = Decision(q, n).value \/ RowOf(q, n) \in late[q]
    BY DEF IInv, ProcessOf, SkippedOf
  <2> QED
    BY <2>1, <2>2, CommitSeen, CommitWrites
<1>7. ReplacedOf(q)'
  <2> SUFFICES ASSUME pc[q] \in {"deleting", "inserting"}, job[q].op = "replace",
                      NEW r \in DecisionsOf(job[q].code), db'[r] # None
               PROVE  r \in doomed'[q] \cup removed'[q] \cup late'[q]
    BY CommitSeen DEF ReplacedOf
  <2>1. r \in Rows
    BY JobFacts, DecisionsAreRows DEF IInv, ProcessOf, CommandOf
  <2>2. CASE r \in DOMAIN writes[p]
    BY <2>2, CommitSeen
  <2>3. CASE r \notin DOMAIN writes[p]
    <3>1. db[r] # None
      BY <2>1, <2>3, CommitWrites
    <3>2. r \in doomed[q] \cup removed[q] \cup late[q]
      BY <3>1 DEF IInv, ProcessOf, ReplacedOf
    <3> QED
      BY <2>3, <3>2, CommitSeen
  <2> QED
    BY <2>2, <2>3
<1> QED
  BY <1>3, <1>4, <1>5, <1>6, <1>7 DEF ProcessOf

LEMMA CommitFacts ==
    ASSUME IInv, NEW p \in Processes, Commit(p)
    PROVE  IInv'
<1>1. PICK how \in {"done", "failed"} : Ends(p, how)
  BY DEF Commit
<1>2. /\ writes'[p] = <<>> /\ DOMAIN writes'[p] = {}
      /\ pc'[p] = how /\ removed'[p] = {} /\ job' = job
      /\ \A q \in Processes \ {p} : writes'[q] = writes[q]
      /\ DOMAIN writes' = Processes
  BY <1>1 DEF Ends, IInv, TypeOK
<1>3. TypeOK'
  <2>1. \A q \in Processes : DOMAIN writes'[q] \subseteq Rows
    BY <1>2 DEF IInv, TypeOK
  <2>2. /\ pc' \in [Processes -> Points] /\ removed' \in [Processes -> SUBSET Rows]
        /\ UNCHANGED <<job, rows, next, started>>
    BY <1>1 DEF Ends, IInv, TypeOK, Points, Ended
  <2>3. doomed' \in [Processes -> SUBSET Rows] /\ late' \in [Processes -> SUBSET Rows]
    BY DEF Commit, Commits, IInv, TypeOK
  <2>4. db' \in [Rows -> AnyContent]
    BY CommitLeft
  <2> QED
    BY <1>2, <2>1, <2>2, <2>3, <2>4 DEF IInv, TypeOK
<1>4. Exclusive'
  BY <1>2 DEF IInv, Exclusive
<1>5. ProcessOf(p)'
  <2>1. doomed'[p] = {}
    <3>1. pc[p] # "deleting"
      BY DEF Commit
    <3>2. doomed'[p] = doomed[p] \ removed[p]
      BY DEF Commit, Commits
    <3> QED
      BY <3>1, <3>2 DEF IInv, ProcessOf, CommandOf
  <2> QED
    BY <1>2, <2>1 DEF ProcessOf, CommandOf, RegistrationOf, ImportOf, SkippedOf, ReplacedOf
<1>6. \A q \in Processes : ProcessOf(q)'
  BY <1>5, CommitOthers
<1> QED
  BY <1>3, <1>4, <1>6, CommitLeft DEF IInv

--------------------------------------------------------------------------------
(* The invariant.                                                             *)

LEMMA IInvInit ==
    ASSUME RegistryInit
    PROVE  IInv
<1>1. TypeOK
  <2>1. \A p \in Processes : DOMAIN writes[p] = {}
    <3>1. DOMAIN <<>> = {}
      OBVIOUS
    <3> QED
      BY <3>1 DEF RegistryInit
  <2> QED
    BY <2>1, RegistryAssumption DEF RegistryInit, TypeOK, AnyContent, Points
<1>2. Exclusive
  BY DEF RegistryInit, Exclusive
<1>3. ASSUME NEW p \in Processes PROVE ProcessOf(p)
  <2>1. DOMAIN <<>> = {}
    OBVIOUS
  <2> QED
    BY <2>1 DEF RegistryInit, ProcessOf, CommandOf, RegistrationOf, ImportOf, SkippedOf, ReplacedOf
<1> QED
  BY <1>1, <1>2, <1>3 DEF RegistryInit, IInv

\* Any other step is one of an open transaction.
OwnStepOf(p) ==
    \/ Start(p) \/ Fails(p) \/ Prepare(p) \/ Compare(p) \/ Delete(p) \/ RemoveRow(p)
    \/ Deleted(p) \/ InsertRow(p) \/ InsertProject(p) \/ InsertSource(p) \/ ForeignSource(p)

LEMMA OwnSteps ==
    ASSUME IInv, NEW p \in Processes, OwnStepOf(p)
    PROVE  TypeOK' /\ Own(p) /\ ProcessOf(p)'
<1>1. CASE Start(p)
  BY <1>1, StartFacts
<1>2. CASE Fails(p)
  <2>1. RollsBack(p, "failed")
    BY <1>2 DEF Fails
  <2> QED
    BY <2>1, RollsBackFacts DEF Ended
<1>3. CASE Prepare(p)
  BY <1>3, PrepareFacts
<1>4. CASE Compare(p)
  BY <1>4, CompareFacts
<1>5. CASE Delete(p)
  BY <1>5, DeleteFacts
<1>6. CASE RemoveRow(p)
  BY <1>6, RemoveRowFacts
<1>7. CASE Deleted(p)
  BY <1>7, DeletedFacts
<1>8. CASE InsertRow(p)
  BY <1>8, InsertRowFacts
<1>9. CASE InsertProject(p)
  BY <1>9, InsertProjectFacts
<1>10. CASE InsertSource(p)
  BY <1>10, InsertSourceFacts
<1>11. CASE ForeignSource(p)
  <2>1. RollsBack(p, "refused")
    BY <1>11 DEF ForeignSource
  <2> QED
    BY <2>1, RollsBackFacts DEF Ended
<1> QED
  BY <1>1, <1>2, <1>3, <1>4, <1>5, <1>6, <1>7, <1>8, <1>9, <1>10, <1>11 DEF OwnStepOf

LEMMA IInvNext ==
    ASSUME IInv, [RegistryNext]_registryVars
    PROVE  IInv'
<1>1. ASSUME NEW p \in Processes, OwnStepOf(p)
      PROVE  IInv'
  BY <1>1, OwnSteps, OwnStep
<1>2. CASE UNCHANGED registryVars
  <2>1. \A q \in Processes : ProcessOf(q)'
    BY <1>2, ProcessStays DEF registryVars, IInv
  <2> QED
    BY <1>2, <2>1 DEF registryVars, IInv, TypeOK, Left, Exclusive
<1> QED
  BY <1>1, <1>2, CommitFacts DEF RegistryNext, OwnStepOf

--------------------------------------------------------------------------------
(* What a step may do.                                                        *)

\* A table changes only by a commit, and a command moves only by its own step.
LEMMA Changes ==
    ASSUME IInv, [RegistryNext]_registryVars
    PROVE  /\ db' # db => \E p \in Processes : Commit(p)
           /\ \A p \in Processes : pc'[p] # pc[p] => Commit(p) \/ (OwnStepOf(p) /\ db' = db)
<1>1. CASE UNCHANGED registryVars
  BY <1>1 DEF registryVars
<1>2. ASSUME NEW p \in Processes, OwnStepOf(p)
      PROVE  db' = db /\ \A q \in Processes : pc'[q] # pc[q] => q = p
  BY <1>2, OwnSteps DEF Own, OthersStay
<1>3. ASSUME NEW p \in Processes, Commit(p)
      PROVE  \A q \in Processes : pc'[q] # pc[q] => q = p
  BY <1>3, CommitSeen
<1>4. CASE RegistryNext
  <2>1. PICK p \in Processes : Commit(p) \/ OwnStepOf(p)
    BY <1>4 DEF RegistryNext, OwnStepOf
  <2> QED
    BY <1>2, <1>3, <2>1
<1> QED
  BY <1>1, <1>4

\* A commit ends its command.
LEMMA CommitEnds ==
    ASSUME IInv, NEW p \in Processes, Commit(p)
    PROVE  pc'[p] \in {"done", "failed"} /\ pc'[p] \in Ended /\ pc[p] \in {"commit", "inserting"}
<1>1. PICK how \in {"done", "failed"} : Ends(p, how)
  BY DEF Commit
<1> QED
  BY <1>1 DEF Commit, Ends, IInv, TypeOK, Ended

\* With an import, all decisions that it applies come into the table.
LEMMA CommittedImport ==
    ASSUME IInv, NEW p \in Processes, Commit(p), pc[p] = "inserting"
    PROVE  /\ \A n \in rows[p] : db'[RowOf(p, n)] = Decision(p, n).value
           /\ DOMAIN writes[p] = removed[p] \cup {RowOf(p, n) : n \in rows[p]}
           /\ \A r \in removed[p] \ {RowOf(p, n) : n \in rows[p]} : db'[r] = None
           /\ removed[p] \subseteq DecisionsOf(job[p].code)
           /\ job[p].op \in {"upsert", "replace"}
           /\ job[p].op = "upsert" => removed[p] = {}
           /\ job[p].op = "replace" => rows[p] = Accepted(job[p].file.decisions)
           /\ Heard(job[p].file) = {Decision(p, n) : n \in Accepted(job[p].file.decisions)}
<1>1. Inserted(p) = rows[p]
  BY DEF Commit, Inserted
<1>2. /\ DOMAIN writes[p] = removed[p] \cup {RowOf(p, n) : n \in rows[p]}
      /\ \A n \in rows[p] : writes[p][RowOf(p, n)] = Decision(p, n).value
      /\ \A r \in removed[p] \ {RowOf(p, n) : n \in rows[p]} : writes[p][r] = None
      /\ removed[p] \subseteq DecisionsOf(job[p].code)
      /\ job[p].op = "upsert" => removed[p] = {}
      /\ job[p].op = "replace" => rows[p] = Accepted(job[p].file.decisions)
  BY <1>1 DEF IInv, ProcessOf, ImportOf
<1>3. job[p].op \in {"upsert", "replace"}
  BY DEF IInv, ProcessOf, CommandOf
<1>4. Heard(job[p].file) = {Decision(p, n) : n \in Accepted(job[p].file.decisions)}
  BY DecisionsDiffer, AcceptedFacts DEF Decision
<1>5. \A n \in rows[p] : db'[RowOf(p, n)] = Decision(p, n).value
  BY <1>2, CommitWrites
<1>6. \A r \in removed[p] \ {RowOf(p, n) : n \in rows[p]} : db'[r] = None
  <2> DEFINE done == {RowOf(p, n) : n \in rows[p]}
  <2>1. \A r \in removed[p] : r \in DOMAIN writes[p]
    BY <1>2
  <2>2. \A r \in removed[p] \ done : writes[p][r] = None
    BY <1>2
  <2> HIDE DEF done
  <2>3. \A r \in removed[p] \ done : db'[r] = None
    BY <2>1, <2>2, CommitWrites
  <2> QED
    BY <2>3 DEF done
<1> QED
  BY <1>2, <1>3, <1>4, <1>5, <1>6

LEMMA NothingBreaks ==
    ASSUME IInv'
    PROVE  NoConstraintBreaks
  BY DEF IInv, ProcessOf, CommandOf, NoConstraintBreaks

LEMMA NothingVanishes ==
    ASSUME IInv, [RegistryNext]_registryVars
    PROVE  VanishesWithReplace
<1> SUFFICES ASSUME NEW c \in Codes, NEW r \in DecisionsOf(c), db[r] # None, db'[r] = None
             PROVE  \E p \in Processes :
                       /\ job[p].op = "replace" /\ job[p].code = c /\ pc'[p] \in Ended
                       /\ \A d \in Heard(job[p].file) : db'[DecisionRow(c, d.key)] = d.value
  BY DEF VanishesWithReplace
<1>1. PICK p \in Processes : Commit(p)
  BY Changes
<1>2. PICK k \in Keys : r = DecisionRow(c, k)
  BY DEF DecisionsOf
<1>3. r \in Rows
  BY DecisionsAreRows
<1>4. r \in DOMAIN writes[p] /\ writes[p][r] = None
  BY <1>1, <1>3, CommitWrites
<1>5. pc[p] = "inserting"
  <2>1. pc[p] # "commit"
    BY <1>1, <1>4, CommitWrites
  <2> QED
    BY <1>1, <2>1, CommitEnds
<1>6. job[p].code = c
  <2>1. r \in DecisionsOf(job[p].code)
    BY <1>1, <1>4, <1>5, CommitWrites
  <2> QED
    BY <1>2, <2>1, RowFacts DEF DecisionsOf
<1>7. r \in removed[p]
  <2>1. \A n \in rows[p] : Decision(p, n).value # None
    BY <1>5, DecisionsDiffer, RegistryAssumption
  <2>2. \A n \in rows[p] : r # RowOf(p, n)
    BY <1>1, <1>5, <2>1, CommittedImport
  <2> QED
    BY <1>1, <1>4, <1>5, <2>2, CommittedImport
<1>8. job[p].op = "replace" /\ rows[p] = Accepted(job[p].file.decisions)
  BY <1>1, <1>5, <1>7, CommittedImport
<1>9. \A d \in Heard(job[p].file) : db'[DecisionRow(c, d.key)] = d.value
  BY <1>1, <1>5, <1>6, <1>8, CommittedImport DEF RowOf
<1> QED
  BY <1>1, <1>6, <1>8, <1>9, CommitEnds

LEMMA SuccessHolds ==
    ASSUME IInv, [RegistryNext]_registryVars
    PROVE  SuccessIsInForce
<1> SUFFICES ASSUME NEW p \in Processes, pc[p] = "inserting", pc'[p] = "done"
             PROVE  InForce(p)
  BY DEF SuccessIsInForce
<1> DEFINE c == job[p].code
           in == Heard(job[p].file)
           accepted == Accepted(job[p].file.decisions)
<1>1. Commit(p)
  <2>1. ~ OwnStepOf(p)
    <3>1. ~ Fails(p)
      BY DEF Fails, RollsBack, Ends, IInv, TypeOK
    <3>2. ~ InsertRow(p)
      BY DEF InsertRow, RollsBack, Ends, IInv, TypeOK
    <3> QED
      BY <3>1, <3>2 DEF OwnStepOf, Start, Prepare, Compare, Delete, RemoveRow, Deleted,
                        InsertProject, InsertSource, ForeignSource, Ended
  <2> QED
    BY <2>1, Changes
<1>2. ASSUME NEW d \in in
      PROVE  db'[DecisionRow(c, d.key)] = d.value \/ DecisionRow(c, d.key) \in late[p]
  <2>1. PICK n \in accepted : d = Decision(p, n)
    BY <1>1, CommittedImport
  <2>2. DecisionRow(c, d.key) = RowOf(p, n)
    BY <2>1 DEF RowOf
  <2>3. CASE n \in rows[p]
    BY <1>1, <2>1, <2>2, <2>3, CommittedImport
  <2>4. CASE n \notin rows[p]
    <3>1. job[p].op = "upsert" /\ removed[p] = {}
      BY <1>1, <2>4, CommittedImport
    <3>2. \A m \in rows[p] : RowOf(p, m) # RowOf(p, n)
      BY <2>4, DecisionsDiffer
    <3>3. RowOf(p, n) \notin DOMAIN writes[p] /\ RowOf(p, n) \in Rows
      BY <1>1, <3>1, <3>2, CommittedImport, DecisionsDiffer
    <3>4. db'[RowOf(p, n)] = db[RowOf(p, n)]
      BY <1>1, <3>3, CommitWrites
    <3>5. db[RowOf(p, n)] = Decision(p, n).value \/ RowOf(p, n) \in late[p]
      BY <2>4, <3>1 DEF IInv, ProcessOf, SkippedOf
    <3> QED
      BY <2>1, <2>2, <3>4, <3>5
  <2> QED
    BY <2>3, <2>4
<1>3. ASSUME job[p].op = "replace", NEW k \in Keys \ {d.key : d \in in}
      PROVE  db'[DecisionRow(c, k)] = None \/ DecisionRow(c, k) \in late[p]
  <2> DEFINE r == DecisionRow(c, k)
             done == {RowOf(p, n) : n \in rows[p]}
  <2>1. c \in Codes /\ r \in Rows /\ r \in DecisionsOf(c)
    BY DecisionsDiffer, RowFacts
  <2>2. r \notin done
    <3> SUFFICES ASSUME NEW n \in rows[p], r = RowOf(p, n) PROVE FALSE
      OBVIOUS
    <3>1. k = Decision(p, n).key
      BY RowFacts DEF RowOf
    <3>2. Decision(p, n) \in in
      BY <1>1, <1>3, CommittedImport
    <3> QED
      BY <3>1, <3>2
  <2>3. CASE r \in removed[p]
    BY <1>1, <2>2, <2>3, CommittedImport
  <2>4. CASE r \notin removed[p]
    <3>1. r \notin DOMAIN writes[p]
      BY <1>1, <2>2, <2>4, CommittedImport
    <3>2. db'[r] = db[r]
      BY <1>1, <2>1, <3>1, CommitWrites
    <3>3. doomed[p] = {}
      BY DEF IInv, ProcessOf, CommandOf
    <3>4. db[r] # None => r \in doomed[p] \cup removed[p] \cup late[p]
      BY <1>3, <2>1 DEF IInv, ProcessOf, ReplacedOf
    <3> QED
      BY <2>4, <3>2, <3>3, <3>4
  <2> QED
    BY <2>3, <2>4
<1> QED
  BY <1>2, <1>3 DEF InForce

LEMMA ProjectsAreWhole ==
    ASSUME IInv, [RegistryNext]_registryVars
    PROVE  ProjectsComeWhole
<1> SUFFICES ASSUME NEW c \in Codes, db[ProjectRow(c)] = None, db'[ProjectRow(c)] # None
             PROVE  \E p \in Processes :
                       /\ job[p].op = "register" /\ job[p].code = c /\ pc'[p] \in Ended
                       /\ job[p].source # None => db'[SourceRow(job[p].source)] = c
  BY DEF ProjectsComeWhole
<1>1. PICK p \in Processes : Commit(p)
  BY Changes
<1>2. ProjectRow(c) \in DOMAIN writes[p]
  <2>1. ProjectRow(c) \in Rows
    BY RowFacts
  <2> QED
    BY <1>1, <2>1, CommitWrites
<1>3. pc[p] = "commit"
  <2>1. \A d : ProjectRow(c) \notin DecisionsOf(d)
    BY RowFacts DEF DecisionsOf
  <2> QED
    BY <1>1, <1>2, <2>1, CommitWrites, CommitEnds
<1>4. job[p].code = c
  BY <1>1, <1>2, <1>3, CommitWrites, RowFacts
<1>5. job[p] \in Jobs /\ job[p].op = "register"
  BY <1>3 DEF IInv, ProcessOf, CommandOf
<1>6. ASSUME job[p].source # None PROVE db'[SourceRow(job[p].source)] = c
  <2> DEFINE r == SourceRow(job[p].source)
  <2>1. job[p].source \in Sources /\ c # None
    BY <1>5, <1>6, JobFacts, RegistryAssumption
  <2>2. r \in DOMAIN writes[p] \/ db[r] = c
    BY <1>3, <1>4, <1>6 DEF IInv, ProcessOf, RegistrationOf
  <2>3. CASE r \in DOMAIN writes[p]
    <3>1. \A d : r # ProjectRow(d)
      BY RowFacts
    <3> QED
      BY <1>1, <1>3, <1>4, <2>3, <3>1, CommitWrites
  <2>4. CASE db[r] = c
    BY <1>1, <2>1, <2>4, CommitKeeps
  <2> QED
    BY <2>2, <2>3, <2>4
<1> QED
  BY <1>1, <1>4, <1>5, <1>6, CommitEnds

LEMMA SourcesDoStay ==
    ASSUME IInv, [RegistryNext]_registryVars
    PROVE  SourcesStay
  BY Changes, CommitKeeps DEF SourcesStay

LEMMA RegistrationsDoEndWell ==
    ASSUME IInv, [RegistryNext]_registryVars
    PROVE  RegistrationsEndWell
<1> SUFFICES ASSUME NEW p \in Processes, job[p].op = "register", pc[p] # pc'[p]
             PROVE  /\ pc'[p] = "done" =>
                          /\ db'[ProjectRow(job[p].code)] # None
                          /\ job[p].source # None => db'[SourceRow(job[p].source)] = job[p].code
                    /\ pc'[p] = "refused" => db[SourceRow(job[p].source)] \notin {None, job[p].code}
  BY DEF RegistrationsEndWell
<1> DEFINE c == job[p].code
           r == SourceRow(job[p].source)
<1>1. ASSUME pc'[p] = "done"
      PROVE  /\ db'[ProjectRow(c)] # None
             /\ job[p].source # None => db'[r] = c
  <2>1. Commit(p)
    <3>1. ~ OwnStepOf(p)
      <4>1. pc[p] \notin {"prepare", "compare"}
        BY DEF IInv, ProcessOf, CommandOf, Imports
      <4>2. pc' # [pc EXCEPT ![p] = "failed"] /\ pc' # [pc EXCEPT ![p] = "refused"]
            /\ pc' # [pc EXCEPT ![p] = "invalid"]
        BY <1>1 DEF IInv, TypeOK
      <4>3. ~ Fails(p) /\ ~ InsertRow(p) /\ ~ ForeignSource(p)
        BY <4>2 DEF Fails, InsertRow, ForeignSource, RollsBack, Ends
      <4>4. ~ Start(p) /\ ~ Delete(p) /\ ~ RemoveRow(p) /\ ~ Deleted(p) /\ ~ InsertProject(p) /\ ~ InsertSource(p)
        BY <1>1 DEF Start, Delete, RemoveRow, Deleted, InsertProject, InsertSource, Goes, IInv, TypeOK
      <4> QED
        BY <4>1, <4>3, <4>4 DEF OwnStepOf, Prepare, Compare
    <3> QED
      BY <3>1, Changes
  <2>2. pc[p] = "commit"
    <3>1. pc[p] # "inserting"
      BY DEF IInv, ProcessOf, CommandOf
    <3> QED
      BY <2>1, <3>1, CommitEnds
  <2>3. c \in Codes /\ c # None /\ job[p].source \in Sources \cup {None}
    BY <2>2, JobFacts, RegistryAssumption DEF IInv, ProcessOf, CommandOf
  <2>4. /\ ProjectRow(c) \in DOMAIN writes[p] \/ db[ProjectRow(c)] # None
        /\ job[p].source # None => r \in DOMAIN writes[p] \/ db[r] = c
    BY <2>2 DEF IInv, ProcessOf, RegistrationOf
  <2>5. db'[ProjectRow(c)] # None
    <3>1. CASE ProjectRow(c) \in DOMAIN writes[p]
      <4>1. \A s : ProjectRow(c) # SourceRow(s)
        BY RowFacts
      <4> QED
        BY <2>1, <2>2, <3>1, <4>1, CommitWrites, RegistryAssumption
    <3>2. CASE db[ProjectRow(c)] # None
      BY <2>1, <2>3, <3>2, CommitKeeps
    <3> QED
      BY <2>4, <3>1, <3>2
  <2>6. ASSUME job[p].source # None PROVE db'[r] = c
    <3>1. CASE r \in DOMAIN writes[p]
      <4>1. \A d : r # ProjectRow(d)
        BY RowFacts
      <4> QED
        BY <2>1, <2>2, <3>1, <4>1, CommitWrites
    <3>2. CASE db[r] = c
      BY <2>1, <2>3, <2>6, <3>2, CommitKeeps
    <3> QED
      BY <2>4, <2>6, <3>1, <3>2
  <2> QED
    BY <2>5, <2>6
<1>2. ASSUME pc'[p] = "refused" PROVE db[r] \notin {None, c}
  <2>1. OwnStepOf(p)
    BY <1>2, Changes, CommitEnds
  <2>2. pc[p] \notin {"prepare", "compare"}
    BY DEF IInv, ProcessOf, CommandOf, Imports
  <2>3. pc' # [pc EXCEPT ![p] = "failed"] /\ pc' # [pc EXCEPT ![p] = "invalid"]
    BY <1>2 DEF IInv, TypeOK
  <2>4. ~ Fails(p) /\ ~ InsertRow(p)
    BY <1>2, <2>3 DEF Fails, InsertRow, RollsBack, Ends
  <2>5. ~ Start(p) /\ ~ Delete(p) /\ ~ RemoveRow(p) /\ ~ Deleted(p) /\ ~ InsertProject(p) /\ ~ InsertSource(p)
    BY <1>2 DEF Start, Delete, RemoveRow, Deleted, InsertProject, InsertSource, Goes, IInv, TypeOK
  <2>6. ForeignSource(p)
    BY <2>1, <2>2, <2>4, <2>5 DEF OwnStepOf, Prepare, Compare
  <2> QED
    BY <2>6 DEF ForeignSource
<1> QED
  BY <1>1, <1>2

--------------------------------------------------------------------------------
(* The theorems.                                                              *)

\* The invariant of packages/registry and the commands that write it.
LEMMA RegistryInvariant == RegistrySpec => []IInv
<1>1. RegistryInit => IInv
  BY IInvInit
<1>2. IInv /\ [RegistryNext]_registryVars => IInv'
  BY IInvNext
<1> QED
  BY <1>1, <1>2, PTL DEF RegistrySpec

\* Tables and commands have the values they are meant to have.
THEOREM RegistryTypeCorrect == RegistrySpec => []TypeOK
<1>1. IInv => TypeOK
  BY DEF IInv
<1> QED
  BY <1>1, RegistryInvariant, PTL

\* upsertCuration and replaceCuration, beside any number of other commands: no
\* constraint breaks, decisions vanish only with the file that replaces them, and
\* what a successful import accepted is in force or was overruled since.
THEOREM ImportsStayWhole == RegistrySpec => ImportsAreWhole
<1>1. IInv /\ IInv' /\ [RegistryNext]_registryVars =>
          [NoConstraintBreaks /\ VanishesWithReplace /\ SuccessIsInForce]_registryVars
  BY NothingBreaks, NothingVanishes, SuccessHolds
<1> QED
  BY <1>1, RegistryInvariant, PTL DEF RegistrySpec, ImportsAreWhole

\* registerProject, beside any number of other commands: a project comes with its
\* source or not at all, a source stays, success means that both are there, and
\* nothing is in the tables without its project.
THEOREM RegistrationsStayWhole == RegistrySpec => RegistrationsAreWhole
<1>1. IInv => Left(db)
  BY DEF IInv
<1>2. IInv /\ [RegistryNext]_registryVars =>
          [ProjectsComeWhole /\ SourcesStay /\ RegistrationsEndWell]_registryVars
  BY ProjectsAreWhole, SourcesDoStay, RegistrationsDoEndWell
<1> QED
  BY <1>1, <1>2, RegistryInvariant, PTL DEF RegistrySpec, RegistrationsAreWhole
================================================================================
