------------------------ MODULE MemoryPipeline_proofs ------------------------
(***************************************************************************)
(* Proofs about MemoryPipeline, for any number of processes, sources,      *)
(* packets and outputs, with or without kills.                             *)
(*                                                                         *)
(* The inductive invariant rests on one fact, Grows: a step adds           *)
(* directories and cache entries and never changes one.  So whatever a     *)
(* process learned from the disk stays true while others run, and each     *)
(* action is only examined for the process that takes it.                  *)
(***************************************************************************)
EXTENDS MemoryPipeline, TLAPS

(* The inductive invariant *)

Names(gs) == {g.id : g \in gs}

Cached(ok) == \A pair \in ok : cache[pair[1]] = pair[2]

\* A manifest tells the truth about a source generation on disk.
Truthful(m) ==
    /\ \E g \in sources : /\ g.id = m.source
                          /\ Done(m.ok) \subseteq g.evidence
                          /\ m.failed \subseteq g.evidence
                          /\ m.complete => Done(m.ok) = g.evidence
    /\ Cached(m.ok)

SourcesInv ==
    /\ \A g \in sources : g.files = Files
    /\ \A g, h \in sources : g.id = h.id => g = h
    /\ current["source"] # None => current["source"] \in Names(sources)

ExtractionsInv ==
    /\ \A e \in extractions : e.files = Files /\ Truthful(e.id)
    /\ current["extraction"] # None =>
          current["extraction"] \in Names(extractions)

WikisInv ==
    /\ \A w \in wikis : w.files = Files /\ w.id \in Names(extractions)
    /\ current["wiki"] # None => current["wiki"] \in Names(wikis)

\* The program counters of each command.
PhaseOf(r) ==
    /\ r.pc = "collect" => r.cmd = "normalize"
    /\ r.pc \in {"lock", "unlock", "unwind"} => r.cmd = "build"
    /\ r.pc \in {"packet", "call", "link", "report"} => r.cmd = "extract"
    /\ r.pc \in {"read", "load"} => r.cmd \in {"extract", "build", "search"}
    /\ r.pc \in {"write", "point"} => r.cmd \in {"normalize", "extract", "build"}
    /\ r.pc = "respond" => r.cmd = "search"

\* What a reading process has in hand is on disk.
ReaderOf(r) ==
    /\ r.pc \in {"lock", "read", "load"} => r.ok = {} /\ r.failed = {}
    /\ r.pc = "load" =>
          /\ r.cmd = "extract" => r.at \in Names(sources)
          /\ r.cmd = "build" => r.at \in Names(extractions)
          /\ r.cmd = "search" => r.at \in Names(wikis)
    /\ r.pc = "respond" =>
          r.at \in Names(wikis) /\ (r.at.complete \/ r.flag)

\* The packet loop accounts for the packets of the source it read.
LoopOf(r) ==
    r.pc \in {"packet", "call", "link"} =>
       /\ \E g \in sources : g.id = r.at /\ g.evidence = r.evidence
       /\ r.todo \cup r.failed \cup Done(r.ok) \subseteq r.evidence
       /\ ~r.flag => r.todo \cup r.failed \cup Done(r.ok) = r.evidence
       /\ r.pc # "packet" => r.packet \in r.todo
       /\ r.pc = "link" => r.answer \in Outputs
       /\ Cached(r.ok)

\* What a process is about to publish may be published, and what it is about
\* to point to is on disk.
WriterOf(r) ==
    /\ r.pc \in {"write", "point"} =>
          /\ r.cmd = "normalize" => r.name \in Sources
          /\ r.cmd = "extract" => r.name \in ExtractionIds /\ Truthful(r.name)
          /\ r.cmd = "build" => r.name \in Names(extractions)
    /\ r.pc = "point" =>
          /\ r.cmd = "normalize" => r.name \in Names(sources)
          /\ r.cmd = "extract" => r.name \in Names(extractions)
          /\ r.cmd = "build" => r.name \in Names(wikis)

ProcessOf(r) == PhaseOf(r) /\ ReaderOf(r) /\ LoopOf(r) /\ WriterOf(r)

IInv ==
    /\ TypeOK
    /\ SourcesInv /\ ExtractionsInv /\ WikisInv
    /\ \A p \in Procs : ProcessOf(run[p])
    /\ OneBuilder

-----------------------------------------------------------------------------
(* What a step never takes back *)

Grows ==
    /\ sources \subseteq sources'
    /\ extractions \subseteq extractions'
    /\ wikis \subseteq wikis'
    /\ \A k \in Packets : cache[k] # None => cache'[k] = cache[k]

\* rename() into the generations directory adds a directory or changes
\* nothing.
LEMMA InstallsGrows ==
    ASSUME NEW d, NEW here, NEW there, Installs(d, here, there)
    PROVE  here \subseteq there /\ there \subseteq here \cup {d} /\ d \in there
  BY DEF Installs

\* link() adds a cache entry or finds one with the same bytes.
LEMMA LinkGrows ==
    ASSUME TypeOK, NEW p \in Procs, LinkCache(p)
    PROVE  Grows
  <1>1. cache \in [Packets -> Outputs \cup {None}]  BY DEF TypeOK
  <1>2. \A k \in Packets : cache[k] # None => cache'[k] = cache[k]
    BY <1>1 DEF LinkCache
  <1> QED  BY <1>2 DEF LinkCache, Grows, disk

\* No step takes a directory or a cache entry back.
LEMMA StepGrows ==
    ASSUME TypeOK, [Next]_vars
    PROVE  Grows
  <1>1. CASE UNCHANGED vars  BY <1>1 DEF vars, disk, Grows
  <1>2. ASSUME NEW p \in Procs, InstallSource(p)  PROVE Grows
    BY <1>2, InstallsGrows DEF InstallSource, Renames, Grows
  <1>3. ASSUME NEW p \in Procs, InstallExtraction(p)  PROVE Grows
    BY <1>3, InstallsGrows DEF InstallExtraction, Renames, Grows
  <1>4. ASSUME NEW p \in Procs, InstallWiki(p)  PROVE Grows
    BY <1>4, InstallsGrows DEF InstallWiki, Renames, Grows
  <1>5. ASSUME UNCHANGED disk, UNCHANGED cache  PROVE Grows
    BY <1>5 DEF disk, Grows
  <1>6. ASSUME NEW p \in Procs, NEW cmd \in Commands, NEW flag \in BOOLEAN,
               Start(p, cmd, flag)
        PROVE  Grows
    BY <1>6, <1>5 DEF Start
  <1>7. ASSUME NEW p \in Procs, Kill(p)  PROVE Grows
    BY <1>7, <1>5 DEF Kill
  <1>8. ASSUME NEW p \in Procs, Advance(p)  PROVE Grows
    <2>1. CASE Extract(p)
      <3>1. CASE \E k \in Packets : ReadCache(p, k)
        BY <3>1, <1>5 DEF ReadCache
      <3>2. CASE \E o \in Outputs : Answer(p, o)
        BY <3>2, <1>5 DEF Answer
      <3>3. CASE PacketFails(p)  BY <3>3, <1>5 DEF PacketFails
      <3>4. CASE Extracted(p)  BY <3>4, <1>5 DEF Extracted
      <3> QED  BY <2>1, <3>1, <3>2, <3>3, <3>4, LinkGrows DEF Extract
    <2>2. CASE Publish(p)
      <3>1. CASE \E f \in Files : WriteFile(p, f)
        BY <3>1, <1>5 DEF WriteFile
      <3>2. CASE PointSource(p) \/ PointExtraction(p) \/ PointWiki(p) \/ Report(p)
        BY <3>2, <1>5
        DEF PointSource, PointExtraction, PointWiki, Report, Replaces
      <3> QED  BY <2>2, <3>1, <3>2, <1>2, <1>3, <1>4 DEF Publish
    <2>3. CASE \/ Collect(p) \/ Lock(p) \/ LockedOut(p) \/ Unlock(p)
               \/ UnlockFails(p) \/ Fail(p)
      BY <2>3, <1>5 DEF Collect, Lock, LockedOut, Unlock, UnlockFails, Fail
    <2>4. CASE \/ ReadPointer(p) \/ LoadSource(p) \/ LoadExtraction(p)
               \/ LoadWiki(p) \/ Respond(p)
      BY <2>4, <1>5
      DEF ReadPointer, LoadSource, LoadExtraction, LoadWiki, Respond
    <2> QED  BY <1>8, <2>1, <2>2, <2>3, <2>4 DEF Advance
  <1> QED  BY <1>1, <1>6, <1>7, <1>8 DEF Next

-----------------------------------------------------------------------------
(* What a process learned stays true *)

\* Outputs that are cached stay cached.
LEMMA CachedStays ==
    ASSUME TypeOK, Grows, NEW ok \in SUBSET (Packets \X Outputs), Cached(ok)
    PROVE  Cached(ok)'
  <1> SUFFICES ASSUME NEW pair \in ok  PROVE cache'[pair[1]] = pair[2]
    BY DEF Cached
  <1>1. pair[1] \in Packets /\ pair[2] \in Outputs  OBVIOUS
  <1>2. cache[pair[1]] = pair[2]  BY DEF Cached
  <1>3. pair[2] # None  BY <1>1, PipelineAssumption
  <1> QED  BY <1>1, <1>2, <1>3 DEF Grows

\* A manifest that is true of its source and of the cache stays true.
LEMMA TruthfulStays ==
    ASSUME TypeOK, Grows, NEW m \in ExtractionIds, Truthful(m)
    PROVE  Truthful(m)'
  <1>1. m.ok \in SUBSET (Packets \X Outputs)  BY DEF ExtractionIds
  <1>2. Cached(m.ok)'  BY <1>1, CachedStays DEF Truthful
  <1>3. PICK g \in sources : /\ g.id = m.source
                             /\ Done(m.ok) \subseteq g.evidence
                             /\ m.failed \subseteq g.evidence
                             /\ m.complete => Done(m.ok) = g.evidence
    BY DEF Truthful
  <1>4. g \in sources'  BY DEF Grows
  <1> QED  BY <1>2, <1>3, <1>4 DEF Truthful, Done

\* The name of a directory stays the name of a directory.
LEMMA NamesStay ==
    ASSUME Grows
    PROVE  /\ Names(sources) \subseteq Names(sources')
           /\ Names(extractions) \subseteq Names(extractions')
           /\ Names(wikis) \subseteq Names(wikis')
  BY DEF Grows, Names

\* A process that does not move keeps its invariant while the disk grows.
LEMMA ProcessStays ==
    ASSUME TypeOK, Grows, NEW p \in Procs, ProcessOf(run[p]),
           run'[p] = run[p]
    PROVE  ProcessOf(run[p])'
  <1> DEFINE r == run[p]
  <1>0. r \in Processes  BY DEF TypeOK
  <1>1. PhaseOf(run[p])'  BY DEF ProcessOf, PhaseOf
  <1>2. ReaderOf(run[p])'  BY NamesStay DEF ProcessOf, ReaderOf
  <1>3. LoopOf(run[p])'
    <2> SUFFICES ASSUME r.pc \in {"packet", "call", "link"}
                 PROVE  LoopOf(run[p])'
      BY DEF LoopOf
    <2>1. r.ok \in SUBSET (Packets \X Outputs)  BY <1>0 DEF Processes
    <2>2. Cached(r.ok)  BY DEF ProcessOf, LoopOf
    <2>3. \A pair \in r.ok : cache'[pair[1]] = pair[2]
      BY <2>1, <2>2, CachedStays DEF Cached
    <2>4. \E g \in sources' : g.id = r.at /\ g.evidence = r.evidence
      BY DEF ProcessOf, LoopOf, Grows
    <2> QED  BY <2>3, <2>4 DEF ProcessOf, LoopOf, Cached, Done
  <1>4. WriterOf(run[p])'
    <2>1. ASSUME r.pc \in {"write", "point"}, r.cmd = "extract"
          PROVE  Truthful(run[p].name)'
      <3>1. r.name \in ExtractionIds /\ Truthful(r.name)
        BY <2>1 DEF ProcessOf, WriterOf
      <3> DEFINE m == r.name
      <3>2. PICK g \in sources' : /\ g.id = m.source
                                  /\ Done(m.ok) \subseteq g.evidence
                                  /\ m.failed \subseteq g.evidence
                                  /\ m.complete => Done(m.ok) = g.evidence
        BY <3>1, TruthfulStays DEF Truthful, Done
      <3>3. \A pair \in m.ok : cache'[pair[1]] = pair[2]
        BY <3>1, TruthfulStays DEF Truthful, Cached
      <3> QED  BY <3>2, <3>3 DEF Truthful, Cached, Done
    <2> QED  BY <2>1, NamesStay DEF ProcessOf, WriterOf
  <1> QED  BY <1>1, <1>2, <1>3, <1>4 DEF ProcessOf

-----------------------------------------------------------------------------
(* The process that takes the step *)

\* Process p is well-formed after the step, and no other process moved.
Fits(p) ==
    /\ run'[p] \in Processes
    /\ run'[p].pc = "load" => run'[p].at # None
    /\ ProcessOf(run[p])'

\* Every action changes one process.
LEMMA OneMoves ==
    ASSUME TypeOK, NEW p \in Procs, NEW r, Becomes(p, r)
    PROVE  /\ run'[p] = r
           /\ \A q \in Procs : q # p => run'[q] = run[q]
           /\ r \in Processes => run' \in [Procs -> Processes]
  BY DEF Becomes, TypeOK

\* Setting one field of a process, to a value of the field, leaves a process:
\* the same fact for each field.
LEMMA SetPc ==
    ASSUME NEW r \in Processes, NEW x \in Live \cup Ended
    PROVE  [r EXCEPT !.pc = x] \in Processes
  BY DEF Processes

\* The field `at`.
LEMMA SetAt ==
    ASSUME NEW r \in Processes, NEW x \in Ids \cup {None}
    PROVE  [r EXCEPT !.at = x] \in Processes
  BY DEF Processes

\* The field `name`.
LEMMA SetName ==
    ASSUME NEW r \in Processes, NEW x \in Ids \cup {None}
    PROVE  [r EXCEPT !.name = x] \in Processes
  BY DEF Processes

\* The field `evidence`.
LEMMA SetEvidence ==
    ASSUME NEW r \in Processes, NEW x \in SUBSET Packets
    PROVE  [r EXCEPT !.evidence = x] \in Processes
  BY DEF Processes

\* The field `todo`.
LEMMA SetTodo ==
    ASSUME NEW r \in Processes, NEW x \in SUBSET Packets
    PROVE  [r EXCEPT !.todo = x] \in Processes
  BY DEF Processes

\* The field `failed`.
LEMMA SetFailed ==
    ASSUME NEW r \in Processes, NEW x \in SUBSET Packets
    PROVE  [r EXCEPT !.failed = x] \in Processes
  BY DEF Processes

\* The field `ok`.
LEMMA SetOk ==
    ASSUME NEW r \in Processes, NEW x \in SUBSET (Packets \X Outputs)
    PROVE  [r EXCEPT !.ok = x] \in Processes
  BY DEF Processes

\* The field `packet`.
LEMMA SetPacket ==
    ASSUME NEW r \in Processes, NEW x \in Packets \cup {None}
    PROVE  [r EXCEPT !.packet = x] \in Processes
  BY DEF Processes

\* The field `answer`.
LEMMA SetAnswer ==
    ASSUME NEW r \in Processes, NEW x \in Outputs \cup {None}
    PROVE  [r EXCEPT !.answer = x] \in Processes
  BY DEF Processes

\* The field `files`.
LEMMA SetFiles ==
    ASSUME NEW r \in Processes, NEW x \in SUBSET Files
    PROVE  [r EXCEPT !.files = x] \in Processes
  BY DEF Processes

\* The command and its flag.
LEMMA SetCommand ==
    ASSUME NEW r \in Processes, NEW x \in Commands, NEW y \in BOOLEAN
    PROVE  [r EXCEPT !.cmd = x, !.flag = y] \in Processes
  BY DEF Processes

\* An empty slot is a process.
LEMMA BlankIsProcess == Blank \in Processes
  BY DEF Blank, Processes, Ended

\* Success of a packet moves it from the packets to do to those done.
LEMMA DoneAdds ==
    ASSUME NEW ok, NEW k, NEW o
    PROVE  Done(ok \cup {<<k, o>>}) = Done(ok) \cup {k}
  <1>1. Done(ok \cup {<<k, o>>}) \subseteq Done(ok) \cup {k}  BY DEF Done
  <1>2. Done(ok) \subseteq Done(ok \cup {<<k, o>>})  BY DEF Done
  <1>3. k \in Done(ok \cup {<<k, o>>})
    <2>1. <<k, o>>[1] = k  OBVIOUS
    <2>2. <<k, o>> \in ok \cup {<<k, o>>}  OBVIOUS
    <2> QED  BY <2>1, <2>2, Zenon DEF Done
  <1> QED  BY <1>1, <1>2, <1>3

\* A process that exits owes nothing.
LEMMA ExitFits ==
    ASSUME TypeOK, NEW p \in Procs, NEW how \in Ended, Exits(p, how)
    PROVE  Fits(p)
  <1>1. run'[p] = [Blank EXCEPT !.pc = how]  BY OneMoves DEF Exits
  <1>2. run'[p] \in Processes  BY <1>1, SetPc, BlankIsProcess
  <1>3. run'[p].pc = how  BY <1>1 DEF Blank
  <1>4. how \notin Live  BY DEF Ended, Live
  <1>5. how # "load"  BY <1>4 DEF Live
  <1>6. ProcessOf(run[p])'
    BY <1>3, <1>4 DEF ProcessOf, PhaseOf, ReaderOf, LoopOf, WriterOf, Live
  <1> QED  BY <1>2, <1>3, <1>5, <1>6 DEF Fits

\* A command starts with nothing in hand.
LEMMA StartFits ==
    ASSUME TypeOK, NEW p \in Procs, NEW cmd \in Commands, NEW flag \in BOOLEAN,
           Start(p, cmd, flag)
    PROVE  Fits(p)
  <1> DEFINE pc == CASE cmd = "normalize" -> "collect"
                     [] cmd = "build" -> "lock"
                     [] OTHER -> "read"
  <1>1. run'[p] = [Blank EXCEPT !.cmd = cmd, !.flag = flag, !.pc = pc]
    BY OneMoves DEF Start
  <1>2. pc \in {"collect", "lock", "read"}  OBVIOUS
  <1>3. run'[p] \in Processes
    <2>1. pc \in Live \cup Ended  BY <1>2 DEF Live
    <2> HIDE DEF pc
    <2>2. [Blank EXCEPT !.cmd = cmd, !.flag = flag] \in Processes
      BY BlankIsProcess, SetCommand
    <2> QED  BY <1>1, <2>1, <2>2, SetPc
  <1>4. /\ run'[p].pc = pc /\ run'[p].cmd = cmd
        /\ run'[p].ok = {} /\ run'[p].failed = {}
    BY <1>1 DEF Blank
  <1>5. PhaseOf(run[p])'
    BY <1>4 DEF PhaseOf, Commands
  <1>6. ReaderOf(run[p])' /\ LoopOf(run[p])' /\ WriterOf(run[p])'
    BY <1>2, <1>4 DEF ReaderOf, LoopOf, WriterOf
  <1> QED  BY <1>2, <1>3, <1>4, <1>5, <1>6 DEF Fits, ProcessOf

\* A process that fails exits, or unwinds to the removal of its lock.
LEMMA FailFits ==
    ASSUME TypeOK, NEW p \in Procs, Fail(p)
    PROVE  Fits(p)
  <1>1. CASE Building(p)
    <2>1. run'[p] = [run[p] EXCEPT !.pc = "unwind"]
      BY <1>1, OneMoves DEF Fail
    <2>2. run'[p] \in Processes  BY <2>1, SetPc DEF Live, TypeOK
    <2>3. run'[p].pc = "unwind" /\ run'[p].cmd = "build"
      BY <1>1, <2>1 DEF Building, TypeOK, Processes
    <2> QED
      BY <2>2, <2>3
      DEF Fits, ProcessOf, PhaseOf, ReaderOf, LoopOf, WriterOf
  <1>2. CASE ~Building(p)
    BY <1>2, ExitFits DEF Fail, Ended
  <1> QED  BY <1>1, <1>2

\* normalize has a source and evidence in hand.
LEMMA CollectFits ==
    ASSUME TypeOK, NEW p \in Procs, Collect(p)
    PROVE  Fits(p)
  <1>1. PICK s \in Sources, evidence \in SUBSET Packets :
           run'[p] = [run[p] EXCEPT !.pc = "write", !.name = s,
                                    !.evidence = evidence]
    BY OneMoves, PipelineAssumption DEF Collect
  <1>2. run'[p] \in Processes
    <2>1. [run[p] EXCEPT !.pc = "write"] \in Processes
      BY SetPc DEF TypeOK, Live
    <2>2. [run[p] EXCEPT !.pc = "write", !.name = s] \in Processes
      BY <2>1, SetName DEF Ids
    <2> QED  BY <1>1, <2>2, SetEvidence
  <1>3. run'[p].pc = "write" /\ run'[p].cmd = "normalize" /\ run'[p].name = s
    BY <1>1 DEF Collect, At, TypeOK, Processes
  <1> QED
    BY <1>2, <1>3 DEF Fits, ProcessOf, PhaseOf, ReaderOf, LoopOf, WriterOf

\* A build that took the lock has read nothing yet.
LEMMA LockFits ==
    ASSUME IInv, NEW p \in Procs, Lock(p)
    PROVE  Fits(p)
  <1>0. TypeOK  BY DEF IInv
  <1>1. run'[p] = [run[p] EXCEPT !.pc = "read"]  BY <1>0, OneMoves DEF Lock
  <1>a. run[p] \in Processes  BY <1>0 DEF TypeOK
  <1>2. run'[p] \in Processes  BY <1>a, <1>1, SetPc DEF Live
  <1>3. run[p].ok = {} /\ run[p].failed = {}
    BY DEF Lock, At, IInv, ProcessOf, ReaderOf
  <1>4. /\ run'[p].pc = "read" /\ run'[p].cmd = "build"
        /\ run'[p].ok = {} /\ run'[p].failed = {}
    BY <1>0, <1>1, <1>3 DEF Lock, At, TypeOK, Processes
  <1> QED
    BY <1>2, <1>4 DEF Fits, ProcessOf, PhaseOf, ReaderOf, LoopOf, WriterOf

\* What a pointer file named is on disk: the pointers only name generations
\* that are.
LEMMA ReadPointerFits ==
    ASSUME IInv, NEW p \in Procs, ReadPointer(p)
    PROVE  Fits(p)
  <1> DEFINE stage == InputOf(run[p].cmd)
  <1>0. TypeOK  BY DEF IInv
  <1>1. run'[p] = [run[p] EXCEPT !.pc = "load", !.at = current[stage]]
    BY <1>0, OneMoves DEF ReadPointer
  <1>2. run[p].cmd \in {"extract", "build", "search"}
    BY DEF IInv, ProcessOf, PhaseOf, ReadPointer
  <1>3. stage \in Stages  BY DEF InputOf, Stages
  <1>4. current[stage] \in Ids \cup {None}  BY <1>0, <1>3 DEF TypeOK
  <1>5. current[stage] # None  BY DEF ReadPointer
  <1>6. /\ run[p].cmd = "extract" => current[stage] \in Names(sources)
        /\ run[p].cmd = "build" => current[stage] \in Names(extractions)
        /\ run[p].cmd = "search" => current[stage] \in Names(wikis)
    BY <1>5 DEF InputOf, IInv, SourcesInv, ExtractionsInv, WikisInv
  <1> HIDE DEF stage
  <1>7. run'[p] \in Processes
    <2>1. [run[p] EXCEPT !.pc = "load"] \in Processes
      BY <1>0, SetPc DEF TypeOK, Live
    <2> QED  BY <1>1, <1>4, <2>1, SetAt
  <1>8. /\ run'[p].pc = "load" /\ run'[p].cmd = run[p].cmd
        /\ run'[p].at = current[stage]
        /\ run'[p].ok = run[p].ok /\ run'[p].failed = run[p].failed
    BY <1>0, <1>1 DEF TypeOK, Processes
  <1>9. UNCHANGED disk  BY DEF ReadPointer
  <1>10. run[p].ok = {} /\ run[p].failed = {}
    BY DEF ReadPointer, IInv, ProcessOf, ReaderOf
  <1>11. ReaderOf(run[p])'
    BY <1>6, <1>8, <1>9, <1>10 DEF ReaderOf, Names, disk
  <1> QED
    BY <1>2, <1>5, <1>7, <1>8, <1>11
    DEF Fits, ProcessOf, PhaseOf, LoopOf, WriterOf

\* extract starts its loop with the packets of the source it read, all of them
\* unless there is a selector.
LEMMA LoadSourceFits ==
    ASSUME IInv, NEW p \in Procs, LoadSource(p)
    PROVE  Fits(p)
  <1>0. TypeOK  BY DEF IInv
  <1>a. PICK g \in sources :
           /\ g.id = run[p].at
           /\ \E todo \in SUBSET g.evidence :
                 /\ ~run[p].flag => todo = g.evidence
                 /\ Becomes(p, [run[p] EXCEPT !.pc = "packet", !.todo = todo,
                                              !.evidence = g.evidence])
    BY DEF LoadSource
  <1>b. PICK todo \in SUBSET g.evidence :
           /\ ~run[p].flag => todo = g.evidence
           /\ Becomes(p, [run[p] EXCEPT !.pc = "packet", !.todo = todo,
                                        !.evidence = g.evidence])
    BY <1>a
  <1>1. run'[p] = [run[p] EXCEPT !.pc = "packet", !.todo = todo,
                                 !.evidence = g.evidence]
    BY <1>0, <1>b, OneMoves
  <1>2. g.evidence \in SUBSET Packets  BY <1>0 DEF TypeOK
  <1>3. run'[p] \in Processes
    <2>1. [run[p] EXCEPT !.pc = "packet"] \in Processes
      BY <1>0, SetPc DEF TypeOK, Live
    <2>2. [run[p] EXCEPT !.pc = "packet", !.todo = todo] \in Processes
      BY <1>2, <2>1, SetTodo
    <2> QED  BY <1>1, <1>2, <2>2, SetEvidence
  <1>c. run[p] \in Processes /\ run[p].cmd = "extract"
    BY <1>0 DEF LoadSource, At, TypeOK
  <1>4. /\ run'[p].pc = "packet" /\ run'[p].cmd = "extract"
        /\ run'[p].at = g.id /\ run'[p].evidence = g.evidence
        /\ run'[p].todo = todo /\ run'[p].flag = run[p].flag
        /\ run'[p].ok = run[p].ok /\ run'[p].failed = run[p].failed
    BY <1>a, <1>c, <1>1 DEF Processes
  <1>5. run[p].ok = {} /\ run[p].failed = {}
    BY DEF LoadSource, At, IInv, ProcessOf, ReaderOf
  <1>6. UNCHANGED sources /\ UNCHANGED cache  BY DEF LoadSource, disk
  <1>7. LoopOf(run[p])'
    BY <1>a, <1>b, <1>4, <1>5, <1>6 DEF LoopOf, Cached, Done
  <1> QED
    BY <1>3, <1>4, <1>7
    DEF Fits, ProcessOf, PhaseOf, ReaderOf, WriterOf

\* build is about to render an extraction that is on disk.
LEMMA LoadExtractionFits ==
    ASSUME IInv, NEW p \in Procs, LoadExtraction(p)
    PROVE  Fits(p)
  <1>0. TypeOK /\ run[p] \in Processes  BY DEF IInv, TypeOK
  <1>a. PICK g \in extractions :
           Becomes(p, [run[p] EXCEPT !.pc = "write", !.name = g.id])
    BY DEF LoadExtraction
  <1>1. run'[p] = [run[p] EXCEPT !.pc = "write", !.name = g.id]
    BY <1>0, <1>a, OneMoves
  <1>2. g.id \in ExtractionIds  BY <1>0 DEF TypeOK
  <1>3. run'[p] \in Processes
    <2>1. [run[p] EXCEPT !.pc = "write"] \in Processes
      BY <1>0, SetPc DEF Live
    <2>2. g.id \in Ids \cup {None}  BY <1>2 DEF Ids
    <2> QED  BY <1>1, <2>1, <2>2, SetName
  <1>4. run[p].cmd = "build"  BY DEF LoadExtraction, At
  <1>5. run'[p].pc = "write" /\ run'[p].cmd = "build" /\ run'[p].name = g.id
    BY <1>0, <1>1, <1>4 DEF Processes
  <1>6. g.id \in Names(extractions)'  BY DEF LoadExtraction, Names, disk
  <1>7. WriterOf(run[p])'  BY <1>5, <1>6 DEF WriterOf, Names
  <1> QED
    BY <1>3, <1>5, <1>7 DEF Fits, ProcessOf, PhaseOf, ReaderOf, LoopOf

\* search answers from a wiki on disk, complete unless incomplete was allowed.
LEMMA LoadWikiFits ==
    ASSUME IInv, NEW p \in Procs, LoadWiki(p)
    PROVE  Fits(p)
  <1>0. TypeOK /\ run[p] \in Processes  BY DEF IInv, TypeOK
  <1>a. PICK g \in wikis :
           /\ g.id = run[p].at
           /\ g.id.complete \/ run[p].flag
           /\ Becomes(p, [run[p] EXCEPT !.pc = "respond"])
    BY DEF LoadWiki
  <1>1. run'[p] = [run[p] EXCEPT !.pc = "respond"]  BY <1>0, <1>a, OneMoves
  <1>2. run'[p] \in Processes  BY <1>0, <1>1, SetPc DEF Live
  <1>3. run[p].cmd = "search"  BY DEF LoadWiki, At
  <1>4. /\ run'[p].pc = "respond" /\ run'[p].cmd = "search"
        /\ run'[p].at = g.id /\ run'[p].flag = run[p].flag
    BY <1>0, <1>a, <1>1, <1>3 DEF Processes
  <1>5. g.id \in Names(wikis)'  BY DEF LoadWiki, Names, disk
  <1>6. ReaderOf(run[p])'  BY <1>a, <1>4, <1>5 DEF ReaderOf, Names
  <1> QED
    BY <1>2, <1>4, <1>6 DEF Fits, ProcessOf, PhaseOf, LoopOf, WriterOf

\* A packet that succeeds with the output in the cache.
LEMMA SucceedsFits ==
    ASSUME IInv, NEW p \in Procs, NEW k \in run[p].todo, NEW o \in Outputs,
           run[p].pc \in {"packet", "link"},
           PacketSucceeds(p, k, o), Grows, cache'[k] = o
    PROVE  Fits(p)
  <1> DEFINE r == run[p]
  <1>0. TypeOK /\ r \in Processes  BY DEF IInv, TypeOK
  <1>1. r.todo \in SUBSET Packets /\ r.ok \in SUBSET (Packets \X Outputs)
    BY <1>0 DEF Processes
  <1>2. r.cmd = "extract" /\ LoopOf(r)
    BY DEF IInv, ProcessOf, PhaseOf
  <1>3. run'[p] = [r EXCEPT !.pc = "packet", !.packet = None, !.answer = None,
                            !.todo = r.todo \ {k},
                            !.ok = r.ok \cup {<<k, o>>}]
    BY <1>0, OneMoves DEF PacketSucceeds
  <1> HIDE DEF r
  <1>4. run'[p] \in Processes
    <2>1. [r EXCEPT !.pc = "packet"] \in Processes  BY <1>0, SetPc DEF Live
    <2>2. [r EXCEPT !.pc = "packet", !.packet = None] \in Processes
      BY <2>1, SetPacket
    <2>3. [r EXCEPT !.pc = "packet", !.packet = None, !.answer = None]
             \in Processes
      BY <2>2, SetAnswer
    <2>4. r.todo \ {k} \in SUBSET Packets  BY <1>1
    <2>5. [r EXCEPT !.pc = "packet", !.packet = None, !.answer = None,
                    !.todo = r.todo \ {k}] \in Processes
      BY <2>3, <2>4, SetTodo
    <2>6. r.ok \cup {<<k, o>>} \in SUBSET (Packets \X Outputs)
      <3>1. k \in Packets  BY <1>1 DEF r
      <3> QED  BY <1>1, <3>1
    <2> DEFINE x == r.ok \cup {<<k, o>>}
               y == [r EXCEPT !.pc = "packet", !.packet = None,
                              !.answer = None, !.todo = r.todo \ {k}]
    <2>7. run'[p] = [y EXCEPT !.ok = x]  BY <1>3
    <2>8. y \in Processes /\ x \in SUBSET (Packets \X Outputs)  BY <2>5, <2>6
    <2> HIDE DEF x, y
    <2> QED  BY <2>7, <2>8, SetOk
  <1>5. /\ run'[p].pc = "packet" /\ run'[p].cmd = "extract"
        /\ run'[p].at = r.at /\ run'[p].evidence = r.evidence
        /\ run'[p].flag = r.flag /\ run'[p].failed = r.failed
    BY <1>0, <1>2, <1>3 DEF Processes
  <1>6. run'[p].todo = r.todo \ {k} /\ run'[p].ok = r.ok \cup {<<k, o>>}
    BY <1>0, <1>3 DEF Processes
  <1>7. LoopOf(run[p])'
    <2>a. Done(r.ok \cup {<<k, o>>}) = Done(r.ok) \cup {k}  BY DoneAdds
    <2>1. Done(run'[p].ok) = Done(r.ok) \cup {k}  BY <1>6, <2>a
    <2>2. r.pc \in {"packet", "call", "link"}  BY DEF r
    <2>3. \E g \in sources' : g.id = r.at /\ g.evidence = r.evidence
      BY <1>2, <2>2 DEF LoopOf, Grows
    <2>4. \A pair \in r.ok : cache'[pair[1]] = pair[2]
      BY <1>0, <1>1, <1>2, <2>2, CachedStays DEF LoopOf, Cached
    <2>5. \A pair \in run'[p].ok : cache'[pair[1]] = pair[2]
      <3> SUFFICES ASSUME NEW pair \in run'[p].ok
                   PROVE  cache'[pair[1]] = pair[2]
        OBVIOUS
      <3>1. CASE pair \in r.ok  BY <2>4, <3>1
      <3>2. CASE pair = <<k, o>>  BY <3>2
      <3> QED  BY <1>6, <3>1, <3>2
    <2>6. k \in r.todo  BY DEF r
    <2>7. r.todo \cup r.failed \cup Done(r.ok) \subseteq r.evidence
      BY <1>2, <2>2 DEF LoopOf
    <2>8. ~r.flag => r.todo \cup r.failed \cup Done(r.ok) = r.evidence
      BY <1>2, <2>2 DEF LoopOf
    <2>9. run'[p].todo \cup run'[p].failed \cup Done(run'[p].ok)
             = r.todo \cup r.failed \cup Done(r.ok)
      BY <1>5, <1>6, <2>1, <2>6
    <2> QED
      BY <1>5, <2>3, <2>5, <2>7, <2>8, <2>9 DEF LoopOf, Cached, Done
  <1> QED
    BY <1>4, <1>5, <1>7 DEF Fits, ProcessOf, PhaseOf, ReaderOf, WriterOf

\* A cache hit is an output of the packet; a miss leads to a call for it.
LEMMA ReadCacheFits ==
    ASSUME IInv, NEW p \in Procs, NEW k \in Packets, ReadCache(p, k), Grows
    PROVE  Fits(p)
  <1> DEFINE r == run[p]
  <1>0. TypeOK /\ r \in Processes  BY DEF IInv, TypeOK
  <1>1. r.pc = "packet" /\ k \in r.todo  BY DEF ReadCache
  <1>2. CASE cache[k] # None
    <2>1. cache[k] \in Outputs  BY <1>0, <1>2 DEF TypeOK
    <2>2. cache'[k] = cache[k]  BY DEF ReadCache
    <2>3. PacketSucceeds(p, k, cache[k])  BY <1>2 DEF ReadCache
    <2> QED  BY <1>1, <2>1, <2>2, <2>3, SucceedsFits
  <1>3. CASE cache[k] = None
    <2>1. run'[p] = [r EXCEPT !.pc = "call", !.packet = k]
      BY <1>0, <1>3, OneMoves DEF ReadCache
    <2>2. r.cmd = "extract" /\ LoopOf(r)
      BY <1>1 DEF IInv, ProcessOf, PhaseOf
    <2> HIDE DEF r
    <2>3. run'[p] \in Processes
      <3>1. [r EXCEPT !.pc = "call"] \in Processes  BY <1>0, SetPc DEF Live
      <3> QED  BY <2>1, <3>1, SetPacket
    <2>4. /\ run'[p].pc = "call" /\ run'[p].cmd = "extract"
          /\ run'[p].at = r.at /\ run'[p].evidence = r.evidence
          /\ run'[p].flag = r.flag /\ run'[p].failed = r.failed
          /\ run'[p].todo = r.todo /\ run'[p].ok = r.ok
          /\ run'[p].packet = k
      BY <1>0, <2>1, <2>2 DEF Processes
    <2>5. UNCHANGED sources /\ UNCHANGED cache  BY DEF ReadCache, disk
    <2>6. LoopOf(run[p])'
      BY <1>1, <2>2, <2>4, <2>5 DEF LoopOf, Cached, Done
    <2> QED
      BY <2>3, <2>4, <2>6 DEF Fits, ProcessOf, PhaseOf, ReaderOf, WriterOf
  <1> QED  BY <1>2, <1>3

\* The answer in hand is an output.
LEMMA AnswerFits ==
    ASSUME IInv, NEW p \in Procs, NEW o \in Outputs, Answer(p, o)
    PROVE  Fits(p)
  <1> DEFINE r == run[p]
  <1>0. TypeOK /\ r \in Processes  BY DEF IInv, TypeOK
  <1>1. r.pc = "call"  BY DEF Answer
  <1>2. run'[p] = [r EXCEPT !.pc = "link", !.answer = o]
    BY <1>0, OneMoves DEF Answer
  <1>3. r.cmd = "extract" /\ LoopOf(r)  BY <1>1 DEF IInv, ProcessOf, PhaseOf
  <1> HIDE DEF r
  <1>4. run'[p] \in Processes
    <2>1. [r EXCEPT !.pc = "link"] \in Processes  BY <1>0, SetPc DEF Live
    <2> QED  BY <1>2, <2>1, SetAnswer
  <1>5. /\ run'[p].pc = "link" /\ run'[p].cmd = "extract"
        /\ run'[p].at = r.at /\ run'[p].evidence = r.evidence
        /\ run'[p].flag = r.flag /\ run'[p].failed = r.failed
        /\ run'[p].todo = r.todo /\ run'[p].ok = r.ok
        /\ run'[p].packet = r.packet /\ run'[p].answer = o
    BY <1>0, <1>2, <1>3 DEF Processes
  <1>6. UNCHANGED sources /\ UNCHANGED cache  BY DEF Answer, disk
  <1>7. LoopOf(run[p])'  BY <1>1, <1>3, <1>5, <1>6 DEF LoopOf, Cached, Done
  <1> QED
    BY <1>4, <1>5, <1>7 DEF Fits, ProcessOf, PhaseOf, ReaderOf, WriterOf

\* The output an extract goes on with is the one in the cache.
LEMMA LinkCacheFits ==
    ASSUME IInv, NEW p \in Procs, LinkCache(p), Grows
    PROVE  Fits(p)
  <1> DEFINE k == run[p].packet
             o == run[p].answer
  <1>0. TypeOK /\ run[p] \in Processes  BY DEF IInv, TypeOK
  <1>1. run[p].pc = "link"  BY DEF LinkCache
  <1>2. k \in run[p].todo /\ o \in Outputs
    BY <1>1 DEF IInv, ProcessOf, LoopOf
  <1>3. k \in Packets  BY <1>0, <1>2 DEF Processes
  <1>4. cache'[k] = o  BY <1>0, <1>3 DEF LinkCache, TypeOK
  <1>5. PacketSucceeds(p, k, o)  BY DEF LinkCache
  <1> HIDE DEF k, o
  <1> QED  BY <1>1, <1>2, <1>4, <1>5, SucceedsFits

\* A packet that failed is accounted for among the failed ones.
LEMMA PacketFailsFits ==
    ASSUME IInv, NEW p \in Procs, PacketFails(p)
    PROVE  Fits(p)
  <1> DEFINE r == run[p]
  <1>0. TypeOK /\ r \in Processes  BY DEF IInv, TypeOK
  <1>1. r.pc \in {"packet", "call", "link"}  BY DEF PacketFails
  <1>2. PICK k \in r.todo :
           Becomes(p, [r EXCEPT !.pc = "packet", !.packet = None,
                                !.answer = None, !.todo = r.todo \ {k},
                                !.failed = r.failed \cup {k}])
    BY DEF PacketFails
  <1>3. run'[p] = [r EXCEPT !.pc = "packet", !.packet = None,
                            !.answer = None, !.todo = r.todo \ {k},
                            !.failed = r.failed \cup {k}]
    BY <1>0, <1>2, OneMoves
  <1>4. r.cmd = "extract" /\ LoopOf(r)  BY <1>1 DEF IInv, ProcessOf, PhaseOf
  <1> HIDE DEF r
  <1>5. r.todo \in SUBSET Packets /\ r.failed \in SUBSET Packets
    BY <1>0 DEF Processes
  <1>6. run'[p] \in Processes
    <2> DEFINE x == r.failed \cup {k}
               y == [r EXCEPT !.pc = "packet", !.packet = None,
                              !.answer = None, !.todo = r.todo \ {k}]
    <2>1. [r EXCEPT !.pc = "packet"] \in Processes  BY <1>0, SetPc DEF Live
    <2>2. [r EXCEPT !.pc = "packet", !.packet = None] \in Processes
      BY <2>1, SetPacket
    <2>3. [r EXCEPT !.pc = "packet", !.packet = None, !.answer = None]
             \in Processes
      BY <2>2, SetAnswer
    <2>4. r.todo \ {k} \in SUBSET Packets  BY <1>5
    <2>5. y \in Processes  BY <2>3, <2>4, SetTodo
    <2>6. x \in SUBSET Packets  BY <1>5
    <2>7. run'[p] = [y EXCEPT !.failed = x]  BY <1>3
    <2> HIDE DEF x, y
    <2> QED  BY <2>5, <2>6, <2>7, SetFailed
  <1>7. /\ run'[p].pc = "packet" /\ run'[p].cmd = "extract"
        /\ run'[p].at = r.at /\ run'[p].evidence = r.evidence
        /\ run'[p].flag = r.flag /\ run'[p].ok = r.ok
    BY <1>0, <1>3, <1>4 DEF Processes
  <1>8. /\ run'[p].todo = r.todo \ {k}
        /\ run'[p].failed = r.failed \cup {k}
    BY <1>0, <1>3 DEF Processes
  <1>9. run'[p].todo \cup run'[p].failed \cup Done(run'[p].ok)
           = r.todo \cup r.failed \cup Done(r.ok)
    BY <1>7, <1>8
  <1>10. UNCHANGED sources /\ UNCHANGED cache  BY DEF PacketFails, disk
  <1>11. LoopOf(run[p])'
    BY <1>1, <1>4, <1>7, <1>9, <1>10 DEF LoopOf, Cached, Done
  <1> QED
    BY <1>6, <1>7, <1>11 DEF Fits, ProcessOf, PhaseOf, ReaderOf, WriterOf

\* The manifest written after the loop tells the truth.
LEMMA ExtractedFits ==
    ASSUME IInv, NEW p \in Procs, Extracted(p)
    PROVE  Fits(p)
  <1> DEFINE r == run[p]
             m == ManifestOf(r)
  <1>0. TypeOK /\ r \in Processes  BY DEF IInv, TypeOK
  <1>1. r.pc = "packet" /\ r.todo = {}  BY DEF Extracted
  <1>2. r.cmd = "extract" /\ LoopOf(r)  BY <1>1 DEF IInv, ProcessOf, PhaseOf
  <1>3. run'[p] = [r EXCEPT !.pc = "write", !.name = m]
    BY <1>0, OneMoves DEF Extracted
  <1> HIDE DEF r
  <1>4. /\ m.source = r.at /\ m.ok = r.ok /\ m.failed = r.failed
        /\ m.complete = (~r.flag /\ r.failed = {})
    BY DEF ManifestOf
  <1>5. PICK g \in sources : g.id = r.at /\ g.evidence = r.evidence
    BY <1>1, <1>2 DEF LoopOf
  <1>6. m \in ExtractionIds
    <2>1. r.at \in Sources  BY <1>0, <1>5 DEF TypeOK
    <2>2. (~r.flag /\ r.failed = {}) \in BOOLEAN  OBVIOUS
    <2> QED  BY <1>0, <2>1, <2>2 DEF ManifestOf, ExtractionIds, Processes
  <1>7. Truthful(m)
    <2>1. r.failed \cup Done(r.ok) \subseteq r.evidence
      BY <1>1, <1>2 DEF LoopOf
    <2>2. ~r.flag => r.failed \cup Done(r.ok) = r.evidence
      BY <1>1, <1>2 DEF LoopOf
    <2>3. Cached(m.ok)  BY <1>1, <1>2, <1>4 DEF LoopOf
    <2>4. Done(m.ok) \subseteq g.evidence /\ m.failed \subseteq g.evidence
      BY <1>4, <1>5, <2>1
    <2>5. m.complete => Done(m.ok) = g.evidence
      BY <1>4, <1>5, <2>2
    <2> QED  BY <1>4, <1>5, <2>3, <2>4, <2>5 DEF Truthful
  <1> HIDE DEF m
  <1>8. run'[p] \in Processes
    <2>1. [r EXCEPT !.pc = "write"] \in Processes  BY <1>0, SetPc DEF Live
    <2>2. m \in Ids \cup {None}  BY <1>6 DEF Ids
    <2> QED  BY <1>3, <2>1, <2>2, SetName
  <1>9. run'[p].pc = "write" /\ run'[p].cmd = "extract" /\ run'[p].name = m
    BY <1>0, <1>2, <1>3 DEF Processes
  <1>10. UNCHANGED sources /\ UNCHANGED cache  BY DEF Extracted, disk
  <1>11. PICK h \in sources' : /\ h.id = m.source
                               /\ Done(m.ok) \subseteq h.evidence
                               /\ m.failed \subseteq h.evidence
                               /\ m.complete => Done(m.ok) = h.evidence
    BY <1>7, <1>10 DEF Truthful
  <1>12. \A pair \in m.ok : cache'[pair[1]] = pair[2]
    BY <1>7, <1>10 DEF Truthful, Cached
  <1>13. WriterOf(run[p])'
    <2>b. /\ h.id = run'[p].name.source
          /\ Done(run'[p].name.ok) \subseteq h.evidence
          /\ run'[p].name.failed \subseteq h.evidence
          /\ run'[p].name.complete => Done(run'[p].name.ok) = h.evidence
      BY <1>9, <1>11
    <2>c. \A pair \in run'[p].name.ok : cache'[pair[1]] = pair[2]
      BY <1>9, <1>12
    <2>1. Truthful(run[p].name)'
      BY <2>b, <2>c DEF Truthful, Cached, Done
    <2> QED  BY <1>6, <1>9, <2>1 DEF WriterOf
  <1> QED
    BY <1>8, <1>9, <1>13 DEF Fits, ProcessOf, PhaseOf, ReaderOf, LoopOf

\* While the disk grows, what may be published still may.
LEMMA WriterStays ==
    ASSUME IInv, Grows, NEW p \in Procs, run[p].pc \in {"write", "point"},
           run'[p].cmd = run[p].cmd, run'[p].name = run[p].name,
           run'[p].pc = "write"
    PROVE  WriterOf(run[p])'
  <1> DEFINE m == run[p].name
  <1>0. TypeOK /\ WriterOf(run[p])  BY DEF IInv, ProcessOf
  <1>1. ASSUME run[p].cmd = "extract"
        PROVE  m \in ExtractionIds /\ Truthful(run[p].name)'
    <2>1. m \in ExtractionIds /\ Truthful(m)  BY <1>0, <1>1 DEF WriterOf
    <2>2. PICK h \in sources' : /\ h.id = m.source
                                /\ Done(m.ok) \subseteq h.evidence
                                /\ m.failed \subseteq h.evidence
                                /\ m.complete => Done(m.ok) = h.evidence
      BY <1>0, <2>1, TruthfulStays DEF Truthful, Done
    <2>3. \A pair \in m.ok : cache'[pair[1]] = pair[2]
      BY <1>0, <2>1, TruthfulStays DEF Truthful, Cached
    <2> QED  BY <2>1, <2>2, <2>3 DEF Truthful, Cached, Done
  <1>2. Names(extractions) \subseteq Names(extractions')  BY NamesStay
  <1> QED  BY <1>0, <1>1, <1>2 DEF WriterOf

\* Writing a file of the temporary directory changes nothing else.
LEMMA WriteFileFits ==
    ASSUME IInv, NEW p \in Procs, NEW f \in Files, WriteFile(p, f), Grows
    PROVE  Fits(p)
  <1> DEFINE r == run[p]
  <1>0. TypeOK /\ r \in Processes  BY DEF IInv, TypeOK
  <1>1. r.pc = "write"  BY DEF WriteFile
  <1>2. run'[p] = [r EXCEPT !.files = r.files \cup {f}]
    BY <1>0, OneMoves DEF WriteFile
  <1>3. r.cmd \in {"normalize", "extract", "build"}
    BY <1>1 DEF IInv, ProcessOf, PhaseOf
  <1>4. run'[p] \in Processes
    <2>1. r.files \cup {f} \in SUBSET Files  BY <1>0 DEF Processes
    <2> QED  BY <1>0, <1>2, <2>1, SetFiles
  <1>5. run'[p].pc = "write" /\ run'[p].cmd = r.cmd /\ run'[p].name = r.name
    BY <1>0, <1>1, <1>2 DEF Processes
  <1>6. WriterOf(run[p])'  BY <1>1, <1>5, WriterStays
  <1> QED
    BY <1>3, <1>4, <1>5, <1>6 DEF Fits, ProcessOf, PhaseOf, ReaderOf, LoopOf

\* What an install leaves of the process, whatever was installed.
LEMMA RenamesMoves ==
    ASSUME TypeOK, NEW p \in Procs, NEW cmd, Renames(p, cmd)
    PROVE  /\ run'[p] \in Processes
           /\ run'[p].pc = "point" /\ run'[p].cmd = cmd
           /\ run'[p].name = run[p].name
           /\ run[p].pc = "write" /\ run[p].cmd = cmd
  <1> DEFINE r == run[p]
  <1>0. r \in Processes  BY DEF TypeOK
  <1>1. run'[p] = [r EXCEPT !.pc = "point"]  BY OneMoves DEF Renames
  <1>2. run'[p] \in Processes  BY <1>0, <1>1, SetPc DEF Live
  <1>3. r.pc = "write" /\ r.cmd = cmd  BY DEF Renames, At
  <1> QED  BY <1>0, <1>1, <1>2, <1>3 DEF Processes

\* After its rename the source generation is on disk under its name.
LEMMA InstallSourceFits ==
    ASSUME IInv, NEW p \in Procs, InstallSource(p)
    PROVE  Fits(p)
  <1> DEFINE d == [id |-> run[p].name, evidence |-> run[p].evidence,
                   files |-> run[p].files]
  <1>0. TypeOK /\ WriterOf(run[p])  BY DEF IInv, ProcessOf
  <1>1. Renames(p, "normalize")  BY DEF InstallSource
  <1>2. d \in sources'  BY InstallsGrows DEF InstallSource
  <1>3. run[p].name \in Names(sources')  BY <1>2 DEF Names
  <1>4. run[p].name \in Sources  BY <1>0, <1>1 DEF WriterOf, Renames, At
  <1>5. /\ run'[p] \in Processes /\ run'[p].pc = "point"
        /\ run'[p].cmd = "normalize" /\ run'[p].name = run[p].name
    BY <1>0, <1>1, RenamesMoves
  <1> QED
    BY <1>3, <1>4, <1>5
    DEF Fits, ProcessOf, PhaseOf, ReaderOf, LoopOf, WriterOf, Names

\* After its rename the extraction is on disk under its name.
LEMMA InstallExtractionFits ==
    ASSUME IInv, NEW p \in Procs, InstallExtraction(p), Grows
    PROVE  Fits(p)
  <1> DEFINE m == run[p].name
             d == [id |-> m, files |-> run[p].files]
  <1>0. TypeOK /\ WriterOf(run[p])  BY DEF IInv, ProcessOf
  <1>1. Renames(p, "extract")  BY DEF InstallExtraction
  <1>2. d \in extractions'  BY InstallsGrows DEF InstallExtraction
  <1>3. m \in Names(extractions')  BY <1>2 DEF Names
  <1>4. /\ run'[p] \in Processes /\ run'[p].pc = "point"
        /\ run'[p].cmd = "extract" /\ run'[p].name = m
    BY <1>0, <1>1, RenamesMoves
  <1>5. m \in ExtractionIds /\ Truthful(m)
    BY <1>0, <1>1 DEF WriterOf, Renames, At
  <1>6. UNCHANGED sources /\ UNCHANGED cache
    BY DEF InstallExtraction, Renames
  <1>7. PICK h \in sources' : /\ h.id = m.source
                              /\ Done(m.ok) \subseteq h.evidence
                              /\ m.failed \subseteq h.evidence
                              /\ m.complete => Done(m.ok) = h.evidence
    BY <1>5, <1>6 DEF Truthful
  <1>8. \A pair \in m.ok : cache'[pair[1]] = pair[2]
    BY <1>5, <1>6 DEF Truthful, Cached
  <1>9. Truthful(run[p].name)'
    BY <1>4, <1>7, <1>8 DEF Truthful, Cached, Done
  <1>10. WriterOf(run[p])'  BY <1>3, <1>4, <1>5, <1>9 DEF WriterOf, Names
  <1> QED
    BY <1>4, <1>10 DEF Fits, ProcessOf, PhaseOf, ReaderOf, LoopOf

\* After its rename the wiki is on disk under its name.
LEMMA InstallWikiFits ==
    ASSUME IInv, NEW p \in Procs, InstallWiki(p)
    PROVE  Fits(p)
  <1> DEFINE m == run[p].name
             d == [id |-> m, files |-> run[p].files]
  <1>0. TypeOK /\ WriterOf(run[p])  BY DEF IInv, ProcessOf
  <1>1. Renames(p, "build")  BY DEF InstallWiki
  <1>2. d \in wikis'  BY InstallsGrows DEF InstallWiki
  <1>3. m \in Names(wikis')  BY <1>2 DEF Names
  <1>4. /\ run'[p] \in Processes /\ run'[p].pc = "point"
        /\ run'[p].cmd = "build" /\ run'[p].name = m
    BY <1>0, <1>1, RenamesMoves
  <1>5. m \in Names(extractions)
    BY <1>0, <1>1 DEF WriterOf, Renames, At
  <1>6. UNCHANGED extractions  BY DEF InstallWiki
  <1> QED
    BY <1>3, <1>4, <1>5, <1>6
    DEF Fits, ProcessOf, PhaseOf, ReaderOf, LoopOf, WriterOf, Names

\* extract goes on from its first pointer to its report.
LEMMA PointExtractionFits ==
    ASSUME TypeOK, NEW p \in Procs, PointExtraction(p)
    PROVE  Fits(p)
  <1> DEFINE r == run[p]
  <1>0. r \in Processes /\ r.cmd = "extract"
    BY DEF TypeOK, PointExtraction, At
  <1>1. run'[p] = [r EXCEPT !.pc = "report"]  BY OneMoves DEF PointExtraction
  <1>2. run'[p] \in Processes  BY <1>0, <1>1, SetPc DEF Live
  <1>3. run'[p].pc = "report" /\ run'[p].cmd = "extract"
    BY <1>0, <1>1 DEF Processes
  <1> QED
    BY <1>2, <1>3 DEF Fits, ProcessOf, PhaseOf, ReaderOf, LoopOf, WriterOf

\* build goes on from its pointer to the removal of its lock.
LEMMA PointWikiFits ==
    ASSUME TypeOK, NEW p \in Procs, PointWiki(p)
    PROVE  Fits(p)
  <1> DEFINE r == run[p]
  <1>0. r \in Processes /\ r.cmd = "build"
    BY DEF TypeOK, PointWiki, At
  <1>1. run'[p] = [r EXCEPT !.pc = "unlock"]  BY OneMoves DEF PointWiki
  <1>2. run'[p] \in Processes  BY <1>0, <1>1, SetPc DEF Live
  <1>3. run'[p].pc = "unlock" /\ run'[p].cmd = "build"
    BY <1>0, <1>1 DEF Processes
  <1> QED
    BY <1>2, <1>3 DEF Fits, ProcessOf, PhaseOf, ReaderOf, LoopOf, WriterOf

-----------------------------------------------------------------------------
(* One process moves, and it fits *)

Moves(p) ==
    \/ \E cmd \in Commands, flag \in BOOLEAN : Start(p, cmd, flag)
    \/ Advance(p)
    \/ Kill(p)

\* Everything but the steps on the shared files is between a process and
\* itself.
LEMMA StepKinds ==
    ASSUME NEW p \in Procs, Moves(p)
    PROVE  \/ UNCHANGED <<disk, current, cache>>
           \/ LinkCache(p)
           \/ InstallSource(p) \/ InstallExtraction(p) \/ InstallWiki(p)
           \/ PointSource(p) \/ PointExtraction(p) \/ PointWiki(p) \/ Report(p)
  <1> DEFINE Quiet == UNCHANGED <<disk, current, cache>>
  <1>1. CASE \E cmd \in Commands, flag \in BOOLEAN : Start(p, cmd, flag)
    BY <1>1 DEF Start
  <1>2. CASE Kill(p)  BY <1>2 DEF Kill
  <1>3. ASSUME \/ Collect(p) \/ Lock(p) \/ LockedOut(p) \/ Unlock(p) \/ UnlockFails(p)
               \/ ReadPointer(p) \/ LoadSource(p) \/ LoadExtraction(p)
               \/ LoadWiki(p) \/ Respond(p) \/ Fail(p)
        PROVE  Quiet
    BY <1>3
    DEF Collect, Lock, LockedOut, Unlock, UnlockFails, ReadPointer, LoadSource,
        LoadExtraction, LoadWiki, Respond, Fail
  <1>4. CASE Extract(p)
    <2>1. ASSUME \/ \E k \in Packets : ReadCache(p, k)
                 \/ \E o \in Outputs : Answer(p, o)
                 \/ PacketFails(p) \/ Extracted(p)
          PROVE  Quiet
      BY <2>1 DEF ReadCache, Answer, PacketFails, Extracted
    <2> QED  BY <1>4, <2>1 DEF Extract
  <1>5. CASE Publish(p)
    <2>1. ASSUME \E f \in Files : WriteFile(p, f)  PROVE Quiet
      BY <2>1 DEF WriteFile
    <2> QED  BY <1>5, <2>1 DEF Publish
  <1> QED  BY <1>1, <1>2, <1>3, <1>4, <1>5 DEF Moves, Advance

\* Whatever a process does, it is well-formed afterwards.
LEMMA MoverFits ==
    ASSUME IInv, NEW p \in Procs, Moves(p), Grows
    PROVE  Fits(p)
  <1>0. TypeOK  BY DEF IInv
  <1>1. CASE \E cmd \in Commands, flag \in BOOLEAN : Start(p, cmd, flag)
    BY <1>0, <1>1, StartFits
  <1>2. CASE Kill(p)  BY <1>0, <1>2, ExitFits DEF Kill, Ended
  <1>3. CASE Collect(p) \/ Lock(p) \/ Fail(p)
    BY <1>0, <1>3, CollectFits, LockFits, FailFits
  <1>4. CASE LockedOut(p) \/ Respond(p) \/ Unlock(p) \/ UnlockFails(p)
    <2>1. {"refused", "done", "failed", "stuck"} \subseteq Ended
      BY DEF Ended
    <2> QED  BY <1>0, <1>4, <2>1, ExitFits
         DEF LockedOut, Respond, Unlock, UnlockFails
  <1>5. CASE \/ ReadPointer(p) \/ LoadSource(p) \/ LoadExtraction(p)
             \/ LoadWiki(p)
    BY <1>5, ReadPointerFits, LoadSourceFits, LoadExtractionFits, LoadWikiFits
  <1>6. CASE Extract(p)
    BY <1>6, ReadCacheFits, AnswerFits, LinkCacheFits, PacketFailsFits,
       ExtractedFits
    DEF Extract
  <1>7. CASE Publish(p)
    <2>1. CASE PointSource(p) \/ Report(p)
      <3>1. "done" \in Ended  BY DEF Ended
      <3> QED  BY <1>0, <2>1, <3>1, ExitFits DEF PointSource, Report
    <2> QED
      BY <1>0, <1>7, <2>1, WriteFileFits, InstallSourceFits,
         InstallExtractionFits, InstallWikiFits, PointExtractionFits,
         PointWikiFits
      DEF Publish
  <1> QED
    BY <1>1, <1>2, <1>3, <1>4, <1>5, <1>6, <1>7 DEF Moves, Advance

\* A step of one process moves no other.
LEMMA OnlyOneMoves ==
    ASSUME IInv, NEW p \in Procs, Moves(p)
    PROVE  \E r : Becomes(p, r)
  <1>1. CASE \E cmd \in Commands, flag \in BOOLEAN : Start(p, cmd, flag)
    BY <1>1 DEF Start
  <1>2. CASE Kill(p)  BY <1>2 DEF Kill, Exits
  <1>3. CASE Collect(p) \/ Lock(p) \/ Fail(p)
    BY <1>3 DEF Collect, Lock, Fail, Exits
  <1>4. CASE LockedOut(p) \/ Respond(p) \/ Unlock(p) \/ UnlockFails(p)
    BY <1>4 DEF LockedOut, Respond, Unlock, UnlockFails, Exits
  <1>5. CASE \/ ReadPointer(p) \/ LoadSource(p) \/ LoadExtraction(p)
             \/ LoadWiki(p)
    BY <1>5 DEF ReadPointer, LoadSource, LoadExtraction, LoadWiki
  <1>6. CASE Extract(p)
    BY <1>6
    DEF Extract, ReadCache, Answer, LinkCache, PacketFails, Extracted,
        PacketSucceeds
  <1>7. CASE Publish(p)
    BY <1>7
    DEF Publish, WriteFile, InstallSource, InstallExtraction, InstallWiki,
        Renames, PointSource, PointExtraction, PointWiki, Report, Exits
  <1> QED
    BY <1>1, <1>2, <1>3, <1>4, <1>5, <1>6, <1>7 DEF Moves, Advance

\* All processes keep their invariant.
LEMMA ProcessesFit ==
    ASSUME IInv, NEW p \in Procs, Moves(p), Grows
    PROVE  /\ run' \in [Procs -> Processes]
           /\ \A q \in Procs : run'[q].pc = "load" => run'[q].at # None
           /\ \A q \in Procs : ProcessOf(run[q])'
           /\ \A q \in Procs : q # p => run'[q] = run[q]
  <1>0. TypeOK  BY DEF IInv
  <1>1. PICK r : Becomes(p, r)  BY OnlyOneMoves
  <1>2. Fits(p)  BY MoverFits
  <1>3. \A q \in Procs : q # p => run'[q] = run[q]  BY <1>0, <1>1, OneMoves
  <1>4. run' \in [Procs -> Processes]
    BY <1>0, <1>1, <1>2, OneMoves DEF Fits
  <1>5. ASSUME NEW q \in Procs
        PROVE  /\ run'[q].pc = "load" => run'[q].at # None
               /\ ProcessOf(run[q])'
    <2>1. CASE q = p
      <3>1. /\ run'[p].pc = "load" => run'[p].at # None
            /\ ProcessOf(run[p])'
        BY <1>2 DEF Fits
      <3> QED  BY <2>1, <3>1
    <2>2. CASE q # p
      <3>1. run'[q] = run[q]  BY <1>3, <2>2
      <3>2. ProcessOf(run[q])  BY DEF IInv
      <3>3. ProcessOf(run[q])'  BY <1>0, <3>1, <3>2, ProcessStays
      <3> QED  BY <1>0, <3>1, <3>3 DEF TypeOK
    <2> QED  BY <2>1, <2>2
  <1> QED  BY <1>3, <1>4, <1>5

-----------------------------------------------------------------------------
(* The shared files *)

DiskTypes ==
    /\ sources \subseteq
         [id : Sources, evidence : SUBSET Packets, files : SUBSET Files]
    /\ extractions \subseteq [id : ExtractionIds, files : SUBSET Files]
    /\ wikis \subseteq [id : ExtractionIds, files : SUBSET Files]
    /\ current \in [Stages -> Ids \cup {None}]
    /\ cache \in [Packets -> Outputs \cup {None}]

\* The variables other than `run` keep their types.
LEMMA DiskTypesStep ==
    ASSUME IInv, NEW p \in Procs, Moves(p)
    PROVE  DiskTypes'
  <1> DEFINE r == run[p]
  <1>0. /\ TypeOK /\ DiskTypes /\ r \in Processes
        /\ WriterOf(r) /\ LoopOf(r)
    BY DEF IInv, TypeOK, DiskTypes, ProcessOf
  <1>1. CASE UNCHANGED <<disk, current, cache>>
    BY <1>0, <1>1 DEF DiskTypes, disk
  <1>2. CASE LinkCache(p)
    <2>1. r.answer \in Outputs  BY <1>0, <1>2 DEF LinkCache, LoopOf
    <2> QED  BY <1>0, <1>2, <2>1 DEF LinkCache, DiskTypes, disk
  <1>3. r.files \in SUBSET Files /\ r.evidence \in SUBSET Packets
    BY <1>0 DEF Processes
  <1>4. CASE InstallSource(p)
    <2> DEFINE d == [id |-> r.name, evidence |-> r.evidence,
                     files |-> r.files]
    <2>1. r.name \in Sources
      BY <1>0, <1>4 DEF InstallSource, Renames, At, WriterOf
    <2>2. d \in [id : Sources, evidence : SUBSET Packets, files : SUBSET Files]
      BY <1>3, <2>1
    <2>3. sources' \subseteq sources \cup {d}
      BY <1>4, InstallsGrows DEF InstallSource
    <2> HIDE DEF d
    <2> QED
      BY <1>0, <1>4, <2>2, <2>3 DEF InstallSource, Renames, DiskTypes
  <1>5. CASE InstallExtraction(p)
    <2> DEFINE d == [id |-> r.name, files |-> r.files]
    <2>1. r.name \in ExtractionIds
      BY <1>0, <1>5 DEF InstallExtraction, Renames, At, WriterOf
    <2>2. d \in [id : ExtractionIds, files : SUBSET Files]  BY <1>3, <2>1
    <2>3. extractions' \subseteq extractions \cup {d}
      BY <1>5, InstallsGrows DEF InstallExtraction
    <2> HIDE DEF d
    <2> QED
      BY <1>0, <1>5, <2>2, <2>3 DEF InstallExtraction, Renames, DiskTypes
  <1>6. CASE InstallWiki(p)
    <2> DEFINE d == [id |-> r.name, files |-> r.files]
    <2>1. r.name \in Names(extractions)
      BY <1>0, <1>6 DEF InstallWiki, Renames, At, WriterOf
    <2>2. r.name \in ExtractionIds  BY <1>0, <2>1 DEF Names, DiskTypes
    <2>3. d \in [id : ExtractionIds, files : SUBSET Files]  BY <1>3, <2>2
    <2>4. wikis' \subseteq wikis \cup {d}
      BY <1>6, InstallsGrows DEF InstallWiki
    <2> HIDE DEF d
    <2> QED
      BY <1>0, <1>6, <2>3, <2>4 DEF InstallWiki, Renames, DiskTypes
  <1>7. r.name \in Ids \cup {None}  BY <1>0 DEF Processes
  <1>8. ASSUME NEW stage \in Stages, Replaces(p, stage)  PROVE DiskTypes'
    BY <1>0, <1>7, <1>8 DEF Replaces, DiskTypes, disk
  <1>9. CASE PointSource(p) \/ PointExtraction(p) \/ PointWiki(p) \/ Report(p)
    BY <1>8, <1>9
    DEF PointSource, PointExtraction, PointWiki, Report, Stages
  <1> QED  BY <1>1, <1>2, <1>4, <1>5, <1>6, <1>9, StepKinds

\* Who may move a pointer: the writer of its stage.
LEMMA OtherPointersStay ==
    ASSUME TypeOK, NEW p \in Procs, NEW stage \in Stages, NEW other \in Stages,
           Replaces(p, stage), other # stage
    PROVE  current'[other] = current[other]
  BY DEF TypeOK, Replaces

\* Source generations stay whole and unique, and the pointer names one.
LEMMA SourcesStep ==
    ASSUME IInv, NEW p \in Procs, Moves(p)
    PROVE  SourcesInv'
  <1>0. TypeOK /\ SourcesInv /\ WriterOf(run[p])  BY DEF IInv, ProcessOf
  <1>1. ASSUME UNCHANGED sources, current'["source"] = current["source"]
        PROVE  SourcesInv'
    BY <1>0, <1>1 DEF SourcesInv, Names
  <1>2. CASE UNCHANGED <<disk, current, cache>>  BY <1>1, <1>2 DEF disk
  <1>3. CASE LinkCache(p)  BY <1>1, <1>3 DEF LinkCache, disk
  <1>4. CASE InstallExtraction(p) \/ InstallWiki(p)
    BY <1>1, <1>4 DEF InstallExtraction, InstallWiki, Renames
  <1>5. CASE PointExtraction(p) \/ PointWiki(p) \/ Report(p)
    <2>1. current'["source"] = current["source"]
      BY <1>0, <1>5, OtherPointersStay
      DEF PointExtraction, PointWiki, Report, Stages
    <2> QED
      BY <1>1, <1>5, <2>1
      DEF PointExtraction, PointWiki, Report, Replaces, disk
  <1>6. CASE InstallSource(p)
    <2> DEFINE d == [id |-> run[p].name, evidence |-> run[p].evidence,
                     files |-> run[p].files]
    <2>1. Installs(d, sources, sources')  BY <1>6 DEF InstallSource
    <2>2. d.files = Files  BY <1>6 DEF InstallSource, Renames
    <2>3. UNCHANGED current  BY <1>6 DEF InstallSource, Renames
    <2> HIDE DEF d
    <2>4. \A g \in sources' : g.files = Files
      BY <1>0, <2>1, <2>2, InstallsGrows DEF SourcesInv
    <2>5. \A g, h \in sources' : g.id = h.id => g = h
      BY <1>0, <2>1 DEF SourcesInv, Installs
    <2>6. Names(sources) \subseteq Names(sources')
      BY <2>1, InstallsGrows DEF Names
    <2> QED  BY <1>0, <2>3, <2>4, <2>5, <2>6 DEF SourcesInv, Names
  <1>7. CASE PointSource(p)
    <2>1. run[p].name \in Names(sources)
      BY <1>0, <1>7 DEF PointSource, At, WriterOf
    <2>2. current'["source"] = run[p].name
      BY <1>0, <1>7 DEF PointSource, Replaces, TypeOK, Stages
    <2>3. UNCHANGED sources  BY <1>7 DEF PointSource, Replaces, disk
    <2> QED  BY <1>0, <2>1, <2>2, <2>3 DEF SourcesInv, Names
  <1> QED
    BY <1>2, <1>3, <1>4, <1>5, <1>6, <1>7, StepKinds

\* Extractions stay whole and true, and the pointer names one.
LEMMA ExtractionsStep ==
    ASSUME IInv, NEW p \in Procs, Moves(p), Grows
    PROVE  ExtractionsInv'
  <1>0. TypeOK /\ ExtractionsInv /\ WriterOf(run[p])  BY DEF IInv, ProcessOf
  <1>a. \A e \in extractions : e.files = Files /\ Truthful(e.id)'
    <2> SUFFICES ASSUME NEW e \in extractions
                 PROVE  e.files = Files /\ Truthful(e.id)'
      OBVIOUS
    <2>1. e.id \in ExtractionIds  BY <1>0 DEF TypeOK
    <2> QED  BY <1>0, <2>1, TruthfulStays DEF ExtractionsInv
  <1>1. ASSUME UNCHANGED extractions,
               current'["extraction"] = current["extraction"]
        PROVE  ExtractionsInv'
    BY <1>0, <1>a, <1>1 DEF ExtractionsInv, Names
  <1>2. CASE UNCHANGED <<disk, current, cache>>  BY <1>1, <1>2 DEF disk
  <1>3. CASE LinkCache(p)  BY <1>1, <1>3 DEF LinkCache, disk
  <1>4. CASE InstallSource(p) \/ InstallWiki(p)
    BY <1>1, <1>4 DEF InstallSource, InstallWiki, Renames
  <1>5. CASE PointSource(p) \/ PointWiki(p) \/ Report(p)
    <2>1. current'["extraction"] = current["extraction"]
      BY <1>0, <1>5, OtherPointersStay DEF PointSource, PointWiki, Report, Stages
    <2> QED
      BY <1>1, <1>5, <2>1 DEF PointSource, PointWiki, Report, Replaces, disk
  <1>6. CASE InstallExtraction(p)
    <2> DEFINE m == run[p].name
               d == [id |-> m, files |-> run[p].files]
    <2>1. Installs(d, extractions, extractions')
      BY <1>6 DEF InstallExtraction
    <2>2. d.files = Files  BY <1>6 DEF InstallExtraction, Renames
    <2>3. UNCHANGED current  BY <1>6 DEF InstallExtraction, Renames
    <2>4. m \in ExtractionIds /\ Truthful(m)
      BY <1>0, <1>6 DEF InstallExtraction, Renames, At, WriterOf
    <2>5. d.id = m  OBVIOUS
    <2> HIDE DEF m, d
    <2>6. ASSUME NEW x \in ExtractionIds, x = m  PROVE Truthful(x)'
      BY <1>0, <2>4, <2>6, TruthfulStays
    <2>7. \A e \in extractions' : e.files = Files /\ Truthful(e.id)'
      <3> SUFFICES ASSUME NEW e \in extractions'
                   PROVE  e.files = Files /\ Truthful(e.id)'
        OBVIOUS
      <3>1. CASE e \in extractions  BY <1>a, <3>1
      <3>2. CASE e = d  BY <2>2, <2>4, <2>5, <2>6, <3>2
      <3> QED  BY <2>1, <3>1, <3>2, InstallsGrows
    <2>8. Names(extractions) \subseteq Names(extractions')
      BY <2>1, InstallsGrows DEF Names
    <2> QED  BY <1>0, <2>3, <2>7, <2>8 DEF ExtractionsInv, Names
  <1>7. CASE PointExtraction(p)
    <2>1. run[p].name \in Names(extractions)
      BY <1>0, <1>7 DEF PointExtraction, At, WriterOf
    <2>2. current'["extraction"] = run[p].name
      BY <1>0, <1>7 DEF PointExtraction, Replaces, TypeOK, Stages
    <2>3. UNCHANGED extractions
      BY <1>7 DEF PointExtraction, Replaces, disk
    <2> QED  BY <1>0, <1>a, <2>1, <2>2, <2>3 DEF ExtractionsInv, Names
  <1> QED
    BY <1>2, <1>3, <1>4, <1>5, <1>6, <1>7, StepKinds

\* Wikis stay whole and rendered from an extraction, and the pointer names
\* one.
LEMMA WikisStep ==
    ASSUME IInv, NEW p \in Procs, Moves(p), Grows
    PROVE  WikisInv'
  <1>0. TypeOK /\ WikisInv /\ WriterOf(run[p])  BY DEF IInv, ProcessOf
  <1>a. Names(extractions) \subseteq Names(extractions')  BY NamesStay
  <1>1. ASSUME UNCHANGED wikis, current'["wiki"] = current["wiki"]
        PROVE  WikisInv'
    BY <1>0, <1>a, <1>1 DEF WikisInv, Names
  <1>2. CASE UNCHANGED <<disk, current, cache>>  BY <1>1, <1>2 DEF disk
  <1>3. CASE LinkCache(p)  BY <1>1, <1>3 DEF LinkCache, disk
  <1>4. CASE InstallSource(p) \/ InstallExtraction(p)
    BY <1>1, <1>4 DEF InstallSource, InstallExtraction, Renames
  <1>5. CASE PointSource(p) \/ PointExtraction(p) \/ Report(p)
    <2>1. current'["wiki"] = current["wiki"]
      BY <1>0, <1>5, OtherPointersStay
      DEF PointSource, PointExtraction, Report, Stages
    <2> QED
      BY <1>1, <1>5, <2>1
      DEF PointSource, PointExtraction, Report, Replaces, disk
  <1>6. CASE InstallWiki(p)
    <2> DEFINE m == run[p].name
               d == [id |-> m, files |-> run[p].files]
    <2>1. Installs(d, wikis, wikis')  BY <1>6 DEF InstallWiki
    <2>2. d.files = Files  BY <1>6 DEF InstallWiki, Renames
    <2>3. UNCHANGED current  BY <1>6 DEF InstallWiki, Renames
    <2>4. d.id \in Names(extractions)
      BY <1>0, <1>6 DEF InstallWiki, Renames, At, WriterOf
    <2> HIDE DEF d
    <2>5. \A w \in wikis' : w.files = Files /\ w.id \in Names(extractions')
      BY <1>0, <1>a, <2>1, <2>2, <2>4, InstallsGrows DEF WikisInv
    <2>6. Names(wikis) \subseteq Names(wikis')
      BY <2>1, InstallsGrows DEF Names
    <2> QED  BY <1>0, <2>3, <2>5, <2>6 DEF WikisInv, Names
  <1>7. CASE PointWiki(p)
    <2>1. run[p].name \in Names(wikis)
      BY <1>0, <1>7 DEF PointWiki, At, WriterOf
    <2>2. current'["wiki"] = run[p].name
      BY <1>0, <1>7 DEF PointWiki, Replaces, TypeOK, Stages
    <2>3. UNCHANGED <<wikis, extractions>>
      BY <1>7 DEF PointWiki, Replaces, disk
    <2> QED  BY <1>0, <2>1, <2>2, <2>3 DEF WikisInv, Names
  <1> QED
    BY <1>2, <1>3, <1>4, <1>5, <1>6, <1>7, StepKinds

-----------------------------------------------------------------------------
(* The lock *)

\* A process that exits is not building, and one that goes on with its
\* command was already inside unless it takes the lock.
LEMMA BuildersStay ==
    ASSUME TypeOK, NEW p \in Procs, Moves(p), ~Lock(p)
    PROVE  Building(p)' => Building(p)
  <1> DEFINE r == run[p]
  <1>0. r \in Processes  BY DEF TypeOK
  <1>1. ASSUME NEW how \in Ended, Exits(p, how)  PROVE ~Building(p)'
    <2>1. run'[p] = [Blank EXCEPT !.pc = how]  BY <1>1, OneMoves DEF Exits
    <2>2. run'[p].pc = how  BY <2>1 DEF Blank
    <2> QED  BY <2>2 DEF Building, Ended, Live
  <1>2. ASSUME run'[p].cmd = r.cmd, r.pc \in Live \ {"lock"}
        PROVE  Building(p)' => Building(p)
    BY <1>2 DEF Building
  <1>3. ASSUME NEW cmd \in Commands, NEW flag \in BOOLEAN, Start(p, cmd, flag)
        PROVE  ~Building(p)'
    <2> DEFINE pc == CASE cmd = "normalize" -> "collect"
                       [] cmd = "build" -> "lock"
                       [] OTHER -> "read"
    <2>1. run'[p] = [Blank EXCEPT !.cmd = cmd, !.flag = flag, !.pc = pc]
      BY <1>3, OneMoves DEF Start
    <2>2. run'[p].pc = pc /\ run'[p].cmd = cmd  BY <2>1 DEF Blank
    <2> QED  BY <2>2 DEF Building
  <1>4. CASE \/ LockedOut(p) \/ Respond(p) \/ Unlock(p) \/ UnlockFails(p) \/ Kill(p)
             \/ PointSource(p) \/ Report(p)
    <2>1. {"refused", "done", "failed", "stuck", "killed"} \subseteq Ended
      BY DEF Ended
    <2> QED
      BY <1>1, <1>4, <2>1
      DEF LockedOut, Respond, Unlock, UnlockFails, Kill, PointSource, Report
  <1>5. CASE Fail(p)
    <2>1. "failed" \in Ended  BY DEF Ended
    <2> QED  BY <1>1, <1>5, <2>1 DEF Fail
  <1>6. CASE Collect(p)
    <2>1. run'[p].cmd = r.cmd
      BY <1>0, <1>6 DEF Collect, Becomes, TypeOK, Processes
    <2> QED  BY <1>2, <1>6, <2>1 DEF Collect, At, Live
  <1>7. CASE ReadPointer(p)
    <2>1. run'[p].cmd = r.cmd
      BY <1>0, <1>7 DEF ReadPointer, Becomes, TypeOK, Processes
    <2> QED  BY <1>2, <1>7, <2>1 DEF ReadPointer, Live
  <1>8. CASE LoadSource(p) \/ LoadExtraction(p) \/ LoadWiki(p)
    <2>1. run'[p].cmd = r.cmd
      BY <1>0, <1>8
      DEF LoadSource, LoadExtraction, LoadWiki, Becomes, TypeOK, Processes
    <2> QED
      BY <1>2, <1>8, <2>1 DEF LoadSource, LoadExtraction, LoadWiki, At, Live
  <1>9. CASE Extract(p)
    <2>a. ASSUME NEW k, NEW o, PacketSucceeds(p, k, o)
          PROVE  run'[p].cmd = r.cmd
      BY <1>0, <2>a DEF PacketSucceeds, Becomes, TypeOK, Processes
    <2>b. ASSUME NEW k \in Packets, ReadCache(p, k)
          PROVE  run'[p].cmd = r.cmd
      <3>1. CASE cache[k] # None  BY <2>a, <2>b, <3>1 DEF ReadCache
      <3>2. CASE cache[k] = None
        BY <1>0, <2>b, <3>2 DEF ReadCache, Becomes, TypeOK, Processes
      <3> QED  BY <3>1, <3>2
    <2>c. ASSUME NEW o \in Outputs, Answer(p, o)  PROVE run'[p].cmd = r.cmd
      BY <1>0, <2>c DEF Answer, Becomes, TypeOK, Processes
    <2>d. ASSUME LinkCache(p)  PROVE run'[p].cmd = r.cmd
      BY <2>a, <2>d DEF LinkCache
    <2>e. ASSUME PacketFails(p)  PROVE run'[p].cmd = r.cmd
      BY <1>0, <2>e DEF PacketFails, Becomes, TypeOK, Processes
    <2>f. ASSUME Extracted(p)  PROVE run'[p].cmd = r.cmd
      BY <1>0, <2>f DEF Extracted, Becomes, TypeOK, Processes
    <2>1. run'[p].cmd = r.cmd
      BY <1>9, <2>b, <2>c, <2>d, <2>e, <2>f DEF Extract
    <2>2. r.pc \in {"packet", "call", "link"}
      BY <1>9
      DEF Extract, ReadCache, Answer, LinkCache, PacketFails, Extracted
    <2> QED  BY <1>2, <2>1, <2>2 DEF Live
  <1>10. CASE \/ \E f \in Files : WriteFile(p, f)
              \/ InstallSource(p) \/ InstallExtraction(p) \/ InstallWiki(p)
    <2>1. run'[p].cmd = r.cmd
      BY <1>0, <1>10
      DEF WriteFile, InstallSource, InstallExtraction, InstallWiki, Renames,
          Becomes, TypeOK, Processes
    <2>2. r.pc = "write"
      BY <1>10
      DEF WriteFile, InstallSource, InstallExtraction, InstallWiki, Renames, At
    <2> QED  BY <1>2, <2>1, <2>2 DEF Live
  <1>11. CASE PointExtraction(p) \/ PointWiki(p)
    <2>1. run'[p].cmd = r.cmd
      BY <1>0, <1>11
      DEF PointExtraction, PointWiki, Becomes, TypeOK, Processes
    <2> QED  BY <1>2, <1>11, <2>1 DEF PointExtraction, PointWiki, At, Live
  <1> QED
    BY <1>3, <1>4, <1>5, <1>6, <1>7, <1>8, <1>9, <1>10, <1>11
    DEF Moves, Advance, Publish

\* Only a build that starts or ends touches the lock.
LEMMA LockMoves ==
    ASSUME NEW p \in Procs, Moves(p)
    PROVE  Lock(p) \/ Unlock(p) \/ UNCHANGED lock
  BY DEF Moves, Start, Kill, Advance, Collect, LockedOut, UnlockFails, ReadPointer,
     LoadSource, LoadExtraction, LoadWiki, Respond, Fail, Extract, ReadCache,
     Answer, LinkCache, PacketFails, Extracted, Publish, WriteFile,
     InstallSource, InstallExtraction, InstallWiki, Renames, PointSource,
     PointExtraction, PointWiki, Report, Replaces

\* mkdir lets one build in, and only that build removes the lock.
LEMMA OneBuilderStep ==
    ASSUME IInv, NEW p \in Procs, Moves(p),
           \A q \in Procs : q # p => run'[q] = run[q]
    PROVE  OneBuilder' /\ lock' \in BOOLEAN
  <1>0. TypeOK /\ OneBuilder  BY DEF IInv
  <1>1. \A q \in Procs : q # p => (Building(q)' <=> Building(q))
    BY DEF Building
  <1>2. CASE Lock(p)
    <2>1. \A q \in Procs : ~Building(q)
      BY <1>0, <1>2 DEF OneBuilder, Lock
    <2>2. \A q \in Procs : Building(q)' => q = p  BY <1>1, <2>1
    <2> QED  BY <1>2, <2>2 DEF OneBuilder, Lock
  <1>3. CASE Unlock(p)
    <2>1. Building(p)
      BY <1>3 DEF Unlock, Building, IInv, ProcessOf, PhaseOf, Live
    <2>2. ~Lock(p)  BY <1>3 DEF Unlock, Lock, At
    <2>3. ~Building(p)'
      <3>1. run'[p].pc \in {"done", "failed"}
        BY <1>0, <1>3, OneMoves DEF Unlock, Exits, Blank
      <3> QED  BY <3>1 DEF Building, Live
    <2>4. \A q \in Procs : ~Building(q)'
      BY <1>0, <1>1, <2>1, <2>3 DEF OneBuilder
    <2> QED  BY <1>3, <2>4 DEF OneBuilder, Unlock
  <1>4. CASE ~Lock(p) /\ UNCHANGED lock
    <2>1. \A q \in Procs : Building(q)' => Building(q)
      BY <1>0, <1>1, <1>4, BuildersStay
    <2> QED  BY <1>0, <1>4, <2>1 DEF OneBuilder, TypeOK
  <1> QED  BY <1>2, <1>3, <1>4, LockMoves

-----------------------------------------------------------------------------
(* Invariance *)

\* The invariant holds of an empty project directory.
LEMMA InitIInv == Init => IInv
  <1> SUFFICES ASSUME Init  PROVE IInv  OBVIOUS
  <1>1. TypeOK
    BY BlankIsProcess DEF Init, TypeOK, Blank
  <1>2. SourcesInv /\ ExtractionsInv /\ WikisInv
    BY DEF Init, SourcesInv, ExtractionsInv, WikisInv, Stages
  <1>3. \A p \in Procs : ProcessOf(run[p])
    BY DEF Init, Blank, ProcessOf, PhaseOf, ReaderOf, LoopOf, WriterOf
  <1>4. \A p \in Procs : ~Building(p)
    BY DEF Init, Building, Blank, Live
  <1>5. OneBuilder  BY <1>4 DEF OneBuilder
  <1> QED  BY <1>1, <1>2, <1>3, <1>5 DEF IInv

\* The counters of starts stay natural numbers.
LEMMA StartedStep ==
    ASSUME TypeOK, NEW p \in Procs, Moves(p)
    PROVE  started' \in [Commands -> Nat]
  <1>0. started \in [Commands -> Nat]  BY DEF TypeOK
  <1>1. CASE \E cmd \in Commands, flag \in BOOLEAN : Start(p, cmd, flag)
    BY <1>0, <1>1 DEF Start
  <1>2. CASE Kill(p)  BY <1>0, <1>2 DEF Kill
  <1>3. CASE Advance(p)
    <2>1. UNCHANGED started
      BY <1>3
      DEF Advance, Collect, Lock, LockedOut, Unlock, UnlockFails, ReadPointer, LoadSource,
          LoadExtraction, LoadWiki, Respond, Fail, Extract, ReadCache, Answer,
          LinkCache, PacketFails, Extracted, Publish, WriteFile, InstallSource,
          InstallExtraction, InstallWiki, Renames, PointSource,
          PointExtraction, PointWiki, Report, Replaces
    <2> QED  BY <1>0, <2>1
  <1> QED  BY <1>1, <1>2, <1>3 DEF Moves

\* Every step preserves the invariant.
LEMMA StepIInv == IInv /\ [Next]_vars => IInv'
  <1> SUFFICES ASSUME IInv, [Next]_vars  PROVE IInv'  OBVIOUS
  <1>0. TypeOK /\ Grows  BY StepGrows DEF IInv
  <1>1. CASE UNCHANGED vars
    <2>1. UNCHANGED <<sources, extractions, wikis, current, cache, lock, run,
                      started>>
      BY <1>1 DEF vars
    <2>2. TypeOK'  BY <1>0, <2>1 DEF TypeOK
    <2>3. SourcesInv' /\ WikisInv'
      BY <2>1 DEF IInv, SourcesInv, WikisInv, Names
    <2>4. ExtractionsInv'
      BY <2>1 DEF IInv, ExtractionsInv, Names, Truthful, Cached, Done
    <2>5. OneBuilder'  BY <2>1 DEF IInv, OneBuilder, Building
    <2>6. \A p \in Procs : ProcessOf(run[p])'
      <3> SUFFICES ASSUME NEW p \in Procs  PROVE ProcessOf(run[p])'
        OBVIOUS
      <3> QED  BY <1>0, <2>1, ProcessStays DEF IInv
    <2> QED  BY <2>2, <2>3, <2>4, <2>5, <2>6 DEF IInv
  <1>2. CASE Next
    <2>1. PICK p \in Procs : Moves(p)  BY <1>2 DEF Next, Moves
    <2>2. /\ run' \in [Procs -> Processes]
          /\ \A q \in Procs : run'[q].pc = "load" => run'[q].at # None
          /\ \A q \in Procs : ProcessOf(run[q])'
          /\ \A q \in Procs : q # p => run'[q] = run[q]
      BY <1>0, <2>1, ProcessesFit
    <2>3. DiskTypes'  BY <2>1, DiskTypesStep
    <2>4. OneBuilder' /\ lock' \in BOOLEAN  BY <2>1, <2>2, OneBuilderStep
    <2>5. started' \in [Commands -> Nat]  BY <1>0, <2>1, StartedStep
    <2>6. TypeOK'  BY <2>2, <2>3, <2>4, <2>5 DEF TypeOK, DiskTypes
    <2>7. SourcesInv' /\ ExtractionsInv' /\ WikisInv'
      BY <1>0, <2>1, SourcesStep, ExtractionsStep, WikisStep
    <2> QED  BY <2>2, <2>4, <2>6, <2>7 DEF IInv
  <1> QED  BY <1>1, <1>2

\* The strengthened invariant holds in every reachable state.
THEOREM Invariance == Spec => []IInv
  BY InitIInv, StepIInv, PTL DEF Spec

\* Types, and pointers read before they are followed.
THEOREM TypeCorrect == Spec => []TypeOK
  <1>1. IInv => TypeOK  BY DEF IInv
  <1> QED  BY <1>1, Invariance, PTL

\* Builds exclude each other, whichever of them fail or are killed.
THEOREM BuildsExclude == Spec => []OneBuilder
  <1>1. IInv => OneBuilder  BY DEF IInv
  <1> QED  BY <1>1, Invariance, PTL

\* The evidence of a source that is on disk is that of its one generation.
LEMMA EvidenceIs ==
    ASSUME SourcesInv, NEW g \in sources
    PROVE  EvidenceOf(g.id) = g.evidence
  <1>1. {h \in sources : h.id = g.id} = {g}  BY DEF SourcesInv
  <1> QED  BY <1>1 DEF EvidenceOf

\* Every wiki goes back to an extraction, and every extraction to the packets
\* of a source generation.
THEOREM WikisAreTraceable == Spec => []Provenance
  <1>1. IInv => Provenance
    <2> SUFFICES ASSUME IInv  PROVE Provenance  OBVIOUS
    <2>1. \A w \in wikis : \E e \in extractions : e.id = w.id
      BY DEF IInv, WikisInv, Names
    <2>2. ASSUME NEW e \in extractions
          PROVE  /\ \E g \in sources : g.id = e.id.source
                 /\ Done(e.id.ok) \cup e.id.failed \subseteq
                       EvidenceOf(e.id.source)
      <3>1. PICK g \in sources : /\ g.id = e.id.source
                                 /\ Done(e.id.ok) \subseteq g.evidence
                                 /\ e.id.failed \subseteq g.evidence
        BY DEF IInv, ExtractionsInv, Truthful
      <3>2. EvidenceOf(g.id) = g.evidence  BY EvidenceIs DEF IInv
      <3> QED  BY <3>1, <3>2
    <2> QED  BY <2>1, <2>2 DEF Provenance
  <1> QED  BY <1>1, Invariance, PTL

\* A search that was not told to accept less covers the whole source.
THEOREM SearchesAreComplete == Spec => []SearchCoversSource
  <1>1. IInv => SearchCoversSource
    <2> SUFFICES ASSUME IInv, NEW p \in Procs,
                        At(p, "search", "respond"), ~run[p].flag
                 PROVE  Done(run[p].at.ok) = EvidenceOf(run[p].at.source)
      BY DEF SearchCoversSource
    <2> DEFINE m == run[p].at
    <2>1. m \in Names(wikis) /\ m.complete
      BY DEF IInv, ProcessOf, ReaderOf, At
    <2>2. m \in Names(extractions)  BY <2>1 DEF IInv, WikisInv, Names
    <2>3. Truthful(m)  BY <2>2 DEF IInv, ExtractionsInv, Names
    <2>4. PICK g \in sources : g.id = m.source /\ Done(m.ok) = g.evidence
      BY <2>1, <2>3 DEF Truthful
    <2>5. EvidenceOf(g.id) = g.evidence  BY EvidenceIs DEF IInv
    <2> QED  BY <2>4, <2>5
  <1> QED  BY <1>1, Invariance, PTL

\* A published output is the cached one: extractions agree on every packet,
\* and a packet that succeeded is never sent to the LLM again.
THEOREM ExtractionsAgree == Spec => []SuccessIsCached
  <1>1. IInv => SuccessIsCached
    BY DEF IInv, ExtractionsInv, Truthful, Cached, SuccessIsCached
  <1> QED  BY <1>1, Invariance, PTL

-----------------------------------------------------------------------------
(* The three stages implement GenerationStore *)

SourcesOut == {[id |-> g.id, content |-> g.evidence] : g \in Whole(sources)}
ExtractionsOut == {[id |-> g.id, content |-> g.id] : g \in Whole(extractions)}
WikisOut == {[id |-> g.id, content |-> g.id] : g \in Whole(wikis)}

\* There is no directory that is not whole.
LEMMA AllWhole ==
    ASSUME IInv
    PROVE  /\ Whole(sources) = sources
           /\ Whole(extractions) = extractions
           /\ Whole(wikis) = wikis
  BY DEF IInv, SourcesInv, ExtractionsInv, WikisInv, Whole

\* What the set of published records says about the directories: each name
\* once, and a directory more is a record more.
LEMMA OutOfSources ==
    ASSUME NEW S
    PROVE  /\ \A i : (\E x \in {[id |-> g.id, content |-> g.evidence] : g \in S} :
                         x.id = i) <=> i \in Names(S)
           /\ \A d : {[id |-> g.id, content |-> g.evidence] : g \in S \cup {d}}
                     = {[id |-> g.id, content |-> g.evidence] : g \in S}
                          \cup {[id |-> d.id, content |-> d.evidence]}
  <1>1. ASSUME NEW i, i \in Names(S)
        PROVE  \E x \in {[id |-> g.id, content |-> g.evidence] : g \in S} :
                  x.id = i
    <2>1. PICK g \in S : g.id = i  BY <1>1 DEF Names
    <2>2. [id |-> g.id, content |-> g.evidence].id = i  BY <2>1
    <2>3. [id |-> g.id, content |-> g.evidence]
             \in {[id |-> h.id, content |-> h.evidence] : h \in S}
      BY <2>1
    <2> QED  BY <2>2, <2>3
  <1>2. ASSUME NEW i,
               NEW x \in {[id |-> g.id, content |-> g.evidence] : g \in S},
               x.id = i
        PROVE  i \in Names(S)
    <2>1. PICK g \in S : x = [id |-> g.id, content |-> g.evidence]  OBVIOUS
    <2>2. g.id = i  BY <1>2, <2>1
    <2> QED  BY <2>1, <2>2 DEF Names
  <1>3. ASSUME NEW d
        PROVE  {[id |-> g.id, content |-> g.evidence] : g \in S \cup {d}}
                 = {[id |-> g.id, content |-> g.evidence] : g \in S}
                      \cup {[id |-> d.id, content |-> d.evidence]}
    OBVIOUS
  <1> QED  BY <1>1, <1>2, <1>3

\* The same for directories that are named by their content.
LEMMA OutOfNamed ==
    ASSUME NEW S
    PROVE  /\ \A i : (\E x \in {[id |-> g.id, content |-> g.id] : g \in S} :
                         x.id = i) <=> i \in Names(S)
           /\ \A d : {[id |-> g.id, content |-> g.id] : g \in S \cup {d}}
                     = {[id |-> g.id, content |-> g.id] : g \in S}
                          \cup {[id |-> d.id, content |-> d.id]}
  <1>1. ASSUME NEW i, i \in Names(S)
        PROVE  \E x \in {[id |-> g.id, content |-> g.id] : g \in S} : x.id = i
    <2>1. PICK g \in S : g.id = i  BY <1>1 DEF Names
    <2>2. [id |-> g.id, content |-> g.id].id = i  BY <2>1
    <2>3. [id |-> g.id, content |-> g.id]
             \in {[id |-> h.id, content |-> h.id] : h \in S}
      BY <2>1
    <2> QED  BY <2>2, <2>3
  <1>2. ASSUME NEW i, NEW x \in {[id |-> g.id, content |-> g.id] : g \in S},
               x.id = i
        PROVE  i \in Names(S)
    <2>1. PICK g \in S : x = [id |-> g.id, content |-> g.id]  OBVIOUS
    <2>2. g.id = i  BY <1>2, <2>1
    <2> QED  BY <2>1, <2>2 DEF Names
  <1>3. ASSUME NEW d
        PROVE  {[id |-> g.id, content |-> g.id] : g \in S \cup {d}}
                 = {[id |-> g.id, content |-> g.id] : g \in S}
                      \cup {[id |-> d.id, content |-> d.id]}
    OBVIOUS
  <1> QED  BY <1>1, <1>2, <1>3

\* A reader finds a generation under exactly the names on disk.
LEMMA WhatReadersFind ==
    ASSUME IInv
    PROVE  /\ \A i : SourceStore!IsPublished(i) <=> i \in Names(sources)
           /\ \A i : ExtractionStore!IsPublished(i) <=> i \in Names(extractions)
           /\ \A i : WikiStore!IsPublished(i) <=> i \in Names(wikis)
  <1>1. \A i : SourceStore!IsPublished(i) <=> i \in Names(sources)
    BY AllWhole, OutOfSources DEF SourceStore!IsPublished
  <1>2. \A i : ExtractionStore!IsPublished(i) <=> i \in Names(extractions)
    BY AllWhole, OutOfNamed DEF ExtractionStore!IsPublished
  <1>3. \A i : WikiStore!IsPublished(i) <=> i \in Names(wikis)
    BY AllWhole, OutOfNamed DEF WikiStore!IsPublished
  <1> QED  BY <1>1, <1>2, <1>3

\* Initially every store is empty.
LEMMA StoresInit ==
    Init => SourceStore!Init /\ ExtractionStore!Init /\ WikiStore!Init
  BY DEF Init, Whole, Stages, SourceStore!Init, ExtractionStore!Init,
     WikiStore!Init

\* A step is a step of the store of source generations, or leaves it alone.
LEMMA SourceStoreStep ==
    ASSUME IInv, IInv', NEW p \in Procs, Moves(p)
    PROVE  [SourceStore!Next]_<<SourcesOut, current["source"]>>
  <1> DEFINE v == <<SourcesOut, current["source"]>>
  <1>0. TypeOK /\ WriterOf(run[p])  BY DEF IInv, ProcessOf
  <1>1. ASSUME UNCHANGED sources, current'["source"] = current["source"]
        PROVE  UNCHANGED v
    BY <1>1 DEF SourcesOut, Whole
  <1>2. CASE UNCHANGED <<disk, current, cache>>  BY <1>1, <1>2 DEF disk
  <1>3. CASE LinkCache(p)  BY <1>1, <1>3 DEF LinkCache, disk
  <1>4. CASE InstallExtraction(p) \/ InstallWiki(p)
    BY <1>1, <1>4 DEF InstallExtraction, InstallWiki, Renames
  <1>5. CASE PointExtraction(p) \/ PointWiki(p) \/ Report(p)
    <2>1. current'["source"] = current["source"]
      BY <1>0, <1>5, OtherPointersStay
      DEF PointExtraction, PointWiki, Report, Stages
    <2> QED
      BY <1>1, <1>5, <2>1
      DEF PointExtraction, PointWiki, Report, Replaces, disk
  <1>6. CASE InstallSource(p)
    <2> DEFINE d == [id |-> run[p].name, evidence |-> run[p].evidence,
                     files |-> run[p].files]
               o == [id |-> run[p].name, content |-> run[p].evidence]
    <2>1. Installs(d, sources, sources')  BY <1>6 DEF InstallSource
    <2>2. current'["source"] = current["source"]
      BY <1>6 DEF InstallSource, Renames
    <2>3. CASE sources' = sources  BY <1>1, <2>2, <2>3
    <2>4. CASE sources' # sources
      <3>1. sources' = sources \cup {d}  BY <2>1, <2>4 DEF Installs
      <3>2. run[p].name \notin Names(sources)
        BY <2>1, <2>4 DEF Installs, Names
      <3>3. ~SourceStore!IsPublished(o.id)  BY <3>2, WhatReadersFind
      <3>4. Whole(sources) = sources /\ Whole(sources)' = sources'
        <4>1. Whole(sources) = sources  BY AllWhole
        <4>2. Whole(sources)' = sources'  BY DEF IInv, SourcesInv, Whole
        <4> QED  BY <4>1, <4>2
      <3>5. SourcesOut' = SourcesOut \cup {o}
        <4>1. SourcesOut' =
                 {[id |-> g.id, content |-> g.evidence] : g \in sources \cup {d}}
          BY <3>1, <3>4 DEF SourcesOut
        <4>2. d.id = run[p].name /\ d.evidence = run[p].evidence  OBVIOUS
        <4> HIDE DEF d
        <4> QED  BY <3>4, <4>1, <4>2, OutOfSources DEF SourcesOut
      <3>6. SourceStore!Install
        BY <2>2, <3>3, <3>5 DEF SourceStore!Install, SourcesOut
      <3> QED  BY <3>6 DEF SourceStore!Next
    <2> QED  BY <2>3, <2>4
  <1>7. CASE PointSource(p)
    <2>1. run[p].name \in Names(sources)
      BY <1>0, <1>7 DEF PointSource, At, WriterOf
    <2>2. current'["source"] = run[p].name
      BY <1>0, <1>7 DEF PointSource, Replaces, TypeOK, Stages
    <2>3. UNCHANGED sources  BY <1>7 DEF PointSource, Replaces, disk
    <2>4. SourceStore!IsPublished(current'["source"])
      BY <2>1, <2>2, WhatReadersFind
    <2>5. SourceStore!Point
      BY <2>3, <2>4 DEF SourceStore!Point, Whole
    <2> QED  BY <2>5 DEF SourceStore!Next
  <1> QED
    BY <1>2, <1>3, <1>4, <1>5, <1>6, <1>7, StepKinds

\* A step is a step of the store of extraction generations, or leaves it alone.
LEMMA ExtractionStoreStep ==
    ASSUME IInv, IInv', NEW p \in Procs, Moves(p)
    PROVE  [ExtractionStore!Next]_<<ExtractionsOut, current["extraction"]>>
  <1> DEFINE v == <<ExtractionsOut, current["extraction"]>>
  <1>0. TypeOK /\ WriterOf(run[p])  BY DEF IInv, ProcessOf
  <1>1. ASSUME UNCHANGED extractions, current'["extraction"] = current["extraction"]
        PROVE  UNCHANGED v
    BY <1>1 DEF ExtractionsOut, Whole
  <1>2. CASE UNCHANGED <<disk, current, cache>>  BY <1>1, <1>2 DEF disk
  <1>3. CASE LinkCache(p)  BY <1>1, <1>3 DEF LinkCache, disk
  <1>4. CASE InstallSource(p) \/ InstallWiki(p)
    BY <1>1, <1>4 DEF InstallSource, InstallWiki, Renames
  <1>5. CASE PointSource(p) \/ PointWiki(p) \/ Report(p)
    <2>1. current'["extraction"] = current["extraction"]
      BY <1>0, <1>5, OtherPointersStay
      DEF PointSource, PointWiki, Report, Stages
    <2> QED
      BY <1>1, <1>5, <2>1
      DEF PointSource, PointWiki, Report, Replaces, disk
  <1>6. CASE InstallExtraction(p)
    <2> DEFINE d == [id |-> run[p].name, files |-> run[p].files]
               o == [id |-> run[p].name, content |-> run[p].name]
    <2>1. Installs(d, extractions, extractions')  BY <1>6 DEF InstallExtraction
    <2>2. current'["extraction"] = current["extraction"]
      BY <1>6 DEF InstallExtraction, Renames
    <2>3. CASE extractions' = extractions  BY <1>1, <2>2, <2>3
    <2>4. CASE extractions' # extractions
      <3>1. extractions' = extractions \cup {d}  BY <2>1, <2>4 DEF Installs
      <3>2. run[p].name \notin Names(extractions)
        BY <2>1, <2>4 DEF Installs, Names
      <3>3. ~ExtractionStore!IsPublished(o.id)  BY <3>2, WhatReadersFind
      <3>4. Whole(extractions) = extractions /\ Whole(extractions)' = extractions'
        <4>1. Whole(extractions) = extractions  BY AllWhole
        <4>2. Whole(extractions)' = extractions'  BY DEF IInv, ExtractionsInv, Whole
        <4> QED  BY <4>1, <4>2
      <3>5. ExtractionsOut' = ExtractionsOut \cup {o}
        <4>1. ExtractionsOut' =
                 {[id |-> g.id, content |-> g.id] : g \in extractions \cup {d}}
          BY <3>1, <3>4 DEF ExtractionsOut
        <4>2. d.id = run[p].name  OBVIOUS
        <4> HIDE DEF d
        <4> QED  BY <3>4, <4>1, <4>2, OutOfNamed DEF ExtractionsOut
      <3>6. ExtractionStore!Install
        BY <2>2, <3>3, <3>5 DEF ExtractionStore!Install, ExtractionsOut
      <3> QED  BY <3>6 DEF ExtractionStore!Next
    <2> QED  BY <2>3, <2>4
  <1>7. CASE PointExtraction(p)
    <2>1. run[p].name \in Names(extractions)
      BY <1>0, <1>7 DEF PointExtraction, At, WriterOf
    <2>2. current'["extraction"] = run[p].name
      BY <1>0, <1>7 DEF PointExtraction, Replaces, TypeOK, Stages
    <2>3. UNCHANGED extractions  BY <1>7 DEF PointExtraction, Replaces, disk
    <2>4. ExtractionStore!IsPublished(current'["extraction"])
      BY <2>1, <2>2, WhatReadersFind
    <2>5. ExtractionStore!Point
      BY <2>3, <2>4 DEF ExtractionStore!Point, Whole
    <2> QED  BY <2>5 DEF ExtractionStore!Next
  <1> QED
    BY <1>2, <1>3, <1>4, <1>5, <1>6, <1>7, StepKinds

\* A step is a step of the store of wiki generations, or leaves it alone.
LEMMA WikiStoreStep ==
    ASSUME IInv, IInv', NEW p \in Procs, Moves(p)
    PROVE  [WikiStore!Next]_<<WikisOut, current["wiki"]>>
  <1> DEFINE v == <<WikisOut, current["wiki"]>>
  <1>0. TypeOK /\ WriterOf(run[p])  BY DEF IInv, ProcessOf
  <1>1. ASSUME UNCHANGED wikis, current'["wiki"] = current["wiki"]
        PROVE  UNCHANGED v
    BY <1>1 DEF WikisOut, Whole
  <1>2. CASE UNCHANGED <<disk, current, cache>>  BY <1>1, <1>2 DEF disk
  <1>3. CASE LinkCache(p)  BY <1>1, <1>3 DEF LinkCache, disk
  <1>4. CASE InstallSource(p) \/ InstallExtraction(p)
    BY <1>1, <1>4 DEF InstallSource, InstallExtraction, Renames
  <1>5. CASE PointSource(p) \/ PointExtraction(p) \/ Report(p)
    <2>1. current'["wiki"] = current["wiki"]
      BY <1>0, <1>5, OtherPointersStay
      DEF PointSource, PointExtraction, Report, Stages
    <2> QED
      BY <1>1, <1>5, <2>1
      DEF PointSource, PointExtraction, Report, Replaces, disk
  <1>6. CASE InstallWiki(p)
    <2> DEFINE d == [id |-> run[p].name, files |-> run[p].files]
               o == [id |-> run[p].name, content |-> run[p].name]
    <2>1. Installs(d, wikis, wikis')  BY <1>6 DEF InstallWiki
    <2>2. current'["wiki"] = current["wiki"]
      BY <1>6 DEF InstallWiki, Renames
    <2>3. CASE wikis' = wikis  BY <1>1, <2>2, <2>3
    <2>4. CASE wikis' # wikis
      <3>1. wikis' = wikis \cup {d}  BY <2>1, <2>4 DEF Installs
      <3>2. run[p].name \notin Names(wikis)
        BY <2>1, <2>4 DEF Installs, Names
      <3>3. ~WikiStore!IsPublished(o.id)  BY <3>2, WhatReadersFind
      <3>4. Whole(wikis) = wikis /\ Whole(wikis)' = wikis'
        <4>1. Whole(wikis) = wikis  BY AllWhole
        <4>2. Whole(wikis)' = wikis'  BY DEF IInv, WikisInv, Whole
        <4> QED  BY <4>1, <4>2
      <3>5. WikisOut' = WikisOut \cup {o}
        <4>1. WikisOut' =
                 {[id |-> g.id, content |-> g.id] : g \in wikis \cup {d}}
          BY <3>1, <3>4 DEF WikisOut
        <4>2. d.id = run[p].name  OBVIOUS
        <4> HIDE DEF d
        <4> QED  BY <3>4, <4>1, <4>2, OutOfNamed DEF WikisOut
      <3>6. WikiStore!Install
        BY <2>2, <3>3, <3>5 DEF WikiStore!Install, WikisOut
      <3> QED  BY <3>6 DEF WikiStore!Next
    <2> QED  BY <2>3, <2>4
  <1>7. CASE PointWiki(p)
    <2>1. run[p].name \in Names(wikis)
      BY <1>0, <1>7 DEF PointWiki, At, WriterOf
    <2>2. current'["wiki"] = run[p].name
      BY <1>0, <1>7 DEF PointWiki, Replaces, TypeOK, Stages
    <2>3. UNCHANGED wikis  BY <1>7 DEF PointWiki, Replaces, disk
    <2>4. WikiStore!IsPublished(current'["wiki"])
      BY <2>1, <2>2, WhatReadersFind
    <2>5. WikiStore!Point
      BY <2>3, <2>4 DEF WikiStore!Point, Whole
    <2> QED  BY <2>5 DEF WikiStore!Next
  <1> QED
    BY <1>2, <1>3, <1>4, <1>5, <1>6, <1>7, StepKinds

\* Each stage of the pipeline is a store of immutable, whole generations, and
\* its pointer names one of them at every moment, however the commands race,
\* fail or are killed.
THEOREM PipelineImplementsStores == Spec => ImplementsStores
  <1> DEFINE S == <<SourcesOut, current["source"]>>
             E == <<ExtractionsOut, current["extraction"]>>
             W == <<WikisOut, current["wiki"]>>
  <1>1. ASSUME IInv, IInv', [Next]_vars
        PROVE  [SourceStore!Next]_S /\ [ExtractionStore!Next]_E
                                    /\ [WikiStore!Next]_W
    <2>1. CASE UNCHANGED vars
      BY <2>1 DEF vars, SourcesOut, ExtractionsOut, WikisOut, Whole
    <2>2. CASE Next
      <3>1. PICK p \in Procs : Moves(p)  BY <2>2 DEF Next, Moves
      <3> QED
        BY <1>1, <3>1, SourceStoreStep, ExtractionStoreStep, WikiStoreStep
    <2> QED  BY <1>1, <2>1, <2>2
  <1>2. IInv /\ IInv' /\ [Next]_vars =>
           [SourceStore!Next]_(SourceStore!vars)
              /\ [ExtractionStore!Next]_(ExtractionStore!vars)
              /\ [WikiStore!Next]_(WikiStore!vars)
    BY <1>1 DEF SourceStore!vars, ExtractionStore!vars, WikiStore!vars,
       SourcesOut, ExtractionsOut, WikisOut
  <1> QED
    BY <1>2, Invariance, StoresInit, PTL
    DEF Spec, ImplementsStores, SourceStore!Spec, ExtractionStore!Spec,
        WikiStore!Spec
==============================================================================
