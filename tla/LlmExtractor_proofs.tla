------------------------- MODULE LlmExtractor_proofs -------------------------
(***************************************************************************)
(* Proofs about LlmExtractor, for any number of processes, workers,        *)
(* documents, projects and attempts.                                       *)
(***************************************************************************)
EXTENDS LlmExtractor, TLAPS

-----------------------------------------------------------------------------
(* The inductive invariant *)

\* e answers the question that the process of slot r asks about d.
Own(r, d, e) ==
    /\ e \in Extraction
    /\ e.doc = d
    /\ e.identity = identity[r]

\* A worker that is busy works for a process that infers, on a document of it,
\* and the calls made about this document are those of its two questions.
WorkerPart ==
    \A w \in Workers :
        /\ phase[w] = "free" => first[w] = 0
        /\ phase[w] # "free" =>
             /\ pc[SlotOf[w]] = "infer"
             /\ doc[w] \in wanted[SlotOf[w]]
             /\ asked[SlotOf[w]][doc[w]] = first[w] + attempt[w]
        /\ phase[w] \in {"cache", "ask"} => first[w] = 0
        /\ phase[w] \notin Questions => attempt[w] = 0
        /\ phase[w] = "repair" => first[w] \in 0 .. MaxAttempts
        /\ phase[w] \in {"store", "writing"} => Own(SlotOf[w], doc[w], holds[w])

\* A document that is to do was not asked about; a result is an answer about
\* its document, and says how often the LLM was called.
DocumentPart ==
    \A r \in Slots : pc[r] \in Running =>
        \A d \in DocIds :
            /\ d \in todo[r] => asked[r][d] = 0
            /\ results[r][d] # None =>
                 /\ \/ results[r][d].extraction = None
                    \/ Own(r, d, results[r][d].extraction)
                 /\ results[r][d].calls = asked[r][d]

SlotPart ==
    \A r \in Slots : pc[r] \in Running =>
        /\ project[r] \in Projects
        /\ identity[r] \in Identity
        /\ todo[r] \subseteq wanted[r]
        /\ known[r] \subseteq wanted[r]

CachePart ==
    \A m \in Models, d \in DocIds :
        cache[m][d] \notin {None, Torn} =>
            cache[m][d].extraction.identity = cache[m][d].identity

\* What a process found in the cache is still there until it takes it, unless
\* another process runs.
FreshPart ==
    \A r \in Slots : pc[r] \in Running /\ alone[r] =>
        /\ \A s \in Slots \ {r} : pc[s] \notin Running
        /\ \A d \in known[r] :
             /\ asked[r][d] = 0
             /\ \A w \in At(r, d) : phase[w] = "cache"
             /\ results[r][d] = None => Usable(identity[r], d)

IInv ==
    /\ TypeOK
    /\ EachDocumentOnce
    /\ WorkerPart
    /\ DocumentPart
    /\ SlotPart
    /\ CachePart
    /\ FreshPart

-----------------------------------------------------------------------------
(* What a worker does to the cache, and that it keeps what is known of it *)

CacheStep(w, r) ==
    \/ cache' = cache
    \/ /\ phase[w] \in {"store", "writing"}
       /\ \E content \in Entry \cup {None, Torn} :
            /\ content \notin {None, Torn} =>
                 content.extraction.identity = content.identity
            /\ cache' = [cache EXCEPT ![identity[r].model][doc[w]] = content]

LEMMA Apart == None \notin Result
  BY ExtractorAssumption

LEMMA Attempts == MaxAttempts \in Nat /\ MaxAttempts > 0
  BY ExtractorAssumption

LEMMA Slot == \A w \in Workers : SlotOf[w] \in Slots
  BY ExtractorAssumption

\* The worker, its document, and the process it works for.
LEMMA BusyWorker ==
  ASSUME IInv, NEW w \in Workers, NEW r \in Slots, r = SlotOf[w], phase[w] # "free"
  PROVE  /\ pc[r] = "infer"
         /\ doc[w] \in wanted[r] /\ doc[w] \in DocIds
         /\ w \in At(r, doc[w])
         /\ \A v \in Workers : v # w /\ SlotOf[v] = r /\ phase[v] # "free" => doc[v] # doc[w]
         /\ doc[w] \notin todo[r]
         /\ results[r][doc[w]] = None
         /\ identity[r] \in Identity /\ identity[r].model \in Models
  <1>1. pc[r] = "infer" /\ doc[w] \in wanted[r] /\ doc[w] \in DocIds
    BY DEF IInv, WorkerPart, TypeOK, ProcessTypes
  <1>2. w \in At(r, doc[w])
    BY DEF At, Of
  <1>3. \A v \in Workers : v # w /\ SlotOf[v] = r /\ phase[v] # "free" => doc[v] # doc[w]
    BY <1>1, <1>2 DEF IInv, EachDocumentOnce, Running, At, Of
  <1>4. doc[w] \notin todo[r] /\ results[r][doc[w]] = None
    BY <1>1, <1>2 DEF IInv, EachDocumentOnce, Running
  <1>5. identity[r] \in Identity /\ identity[r].model \in Models
    BY <1>1 DEF IInv, SlotPart, Running, Identity
  <1>6. QED BY <1>1, <1>2, <1>3, <1>4, <1>5

LEMMA CacheKept ==
  ASSUME IInv, NEW w \in Workers, NEW r \in Slots, r = SlotOf[w], phase[w] # "free",
         CacheStep(w, r)
  PROVE  /\ cache' \in [Models -> [DocIds -> Entry \cup {None, Torn}]]
         /\ CachePart'
         /\ \A s \in Slots, d \in DocIds :
              /\ pc[s] \in Running /\ alone[s] /\ d \in known[s]
              /\ Usable(identity[s], d)
              => Usable(identity[s], d)'  \/ identity'[s] # identity[s]
  <1> USE BusyWorker
  <1>1. CASE cache' = cache
    BY <1>1 DEF IInv, TypeOK, DiskTypes, CachePart, Usable
  <1>2. CASE cache' # cache
    <2>1. phase[w] \in {"store", "writing"}
      BY <1>2 DEF CacheStep
    <2>2. PICK content \in Entry \cup {None, Torn} :
            /\ content \notin {None, Torn} =>
                 content.extraction.identity = content.identity
            /\ cache' = [cache EXCEPT ![identity[r].model][doc[w]] = content]
      BY <1>2 DEF CacheStep
    <2>3. cache' \in [Models -> [DocIds -> Entry \cup {None, Torn}]]
      BY <2>2 DEF IInv, TypeOK, DiskTypes
    <2>4. CachePart'
      BY <2>2 DEF IInv, TypeOK, DiskTypes, CachePart
    <2>5. ASSUME NEW s \in Slots, NEW d \in DocIds, pc[s] \in Running, alone[s], d \in known[s]
          PROVE  d # doc[w]
      <3>1. s = r
        BY <2>5 DEF IInv, FreshPart, Running
      <3>2. phase[w] = "cache" \/ d # doc[w]
        BY <2>5, <3>1 DEF IInv, FreshPart, At, Of
      <3>3. QED BY <2>1, <3>2
    <2>6. ASSUME NEW s \in Slots, NEW d \in DocIds, pc[s] \in Running, alone[s],
                 d \in known[s], Usable(identity[s], d), identity'[s] = identity[s]
          PROVE  Usable(identity[s], d)'
      <3>1. identity[s].model \in Models
        BY <2>6 DEF IInv, SlotPart, Identity
      <3>2. cache'[identity[s].model][d] = cache[identity[s].model][d]
        BY <2>2, <2>5, <2>6, <3>1 DEF IInv, TypeOK, DiskTypes
      <3>3. QED BY <2>6, <3>2 DEF Usable
    <2>7. QED BY <2>3, <2>4, <2>6
  <1>3. QED BY <1>1, <1>2

-----------------------------------------------------------------------------
(* A document is done *)

LEMMA ReturnKeeps ==
  ASSUME IInv, NEW w \in Workers, NEW r \in Slots, NEW from, from # "free",
         NEW d, d = doc[w], NEW e, NEW calls, Moves(w, r, from, "free"), Returns(w, r, e, calls),
         CacheStep(w, r), UNCHANGED history,
         calls = first[w] + attempt[w],
         e = None \/ Own(r, d, e)
  PROVE  IInv'
  <1>1. r = SlotOf[w] /\ phase[w] # "free" /\ phase' = [phase EXCEPT ![w] = "free"]
    BY DEF Moves
  <1>2. /\ pc[r] = "infer" /\ d \in wanted[r] /\ d \in DocIds
        /\ \A v \in Workers : v # w /\ SlotOf[v] = r /\ phase[v] # "free" => doc[v] # d
        /\ d \notin todo[r] /\ results[r][d] = None
    BY <1>1, BusyWorker
  <1>3. asked[r][d] = calls /\ asked[r][d] \in 0 .. 2 * MaxAttempts
    BY <1>1, <1>2 DEF IInv, WorkerPart, TypeOK, HistoryTypes
  <1> DEFINE x == [extraction |-> e, calls |-> calls]
  <1>4. x \in Result /\ x # None /\ x.extraction = e /\ x.calls = calls
    BY <1>3, Apart DEF Result, Own
  <1>5. results' = [results EXCEPT ![r][d] = x]
    BY DEF Returns
  <1>6. /\ results' \in [Slots -> [DocIds -> Result \cup {None}]]
        /\ results'[r][d] = x
        /\ \A s \in Slots, c \in DocIds : s # r \/ c # d => results'[s][c] = results[s][c]
    BY <1>2, <1>4, <1>5 DEF IInv, TypeOK, ProcessTypes
  <1>7. /\ doc' = [doc EXCEPT ![w] = None] /\ attempt' = [attempt EXCEPT ![w] = 0]
        /\ first' = [first EXCEPT ![w] = 0] /\ holds' = [holds EXCEPT ![w] = None]
        /\ UNCHANGED <<process, todo, report, output, history>>
    BY DEF Returns
  <1>8. cache' \in [Models -> [DocIds -> Entry \cup {None, Torn}]] /\ CachePart'
    BY <1>1, CacheKept
  <1> HIDE DEF x
  <1>9. TypeOK'
    BY <1>1, <1>6, <1>7, <1>8, Attempts DEF IInv, TypeOK, DiskTypes, ProcessTypes,
         WorkerTypes, HistoryTypes, process, report, history, Busy
  <1>10. \A s \in Slots, c \in DocIds : s # r \/ c # d => At(s, c)' = At(s, c)
    <2> SUFFICES ASSUME NEW s \in Slots, NEW c \in DocIds, s # r \/ c # d, NEW v \in Workers
                 PROVE  v \in At(s, c)' <=> v \in At(s, c)
      BY DEF At, Of
    <2>1. CASE v = w
      BY <2>1, <1>1 DEF At, Of, IInv, TypeOK, WorkerTypes
    <2>2. CASE v # w
      BY <2>2, <1>1, <1>7 DEF At, Of, IInv, TypeOK, WorkerTypes
    <2>3. QED BY <2>1, <2>2
  <1>11. At(r, d)' = {}
    BY <1>1, <1>2, <1>7 DEF At, Of, IInv, TypeOK, WorkerTypes
  <1>12. EachDocumentOnce'
    <2> SUFFICES ASSUME NEW s \in Slots, pc'[s] \in Running, NEW c \in wanted'[s]
                 PROVE  /\ \A u, v \in At(s, c)' : u = v
                        /\ c \in todo'[s] => At(s, c)' = {} /\ results'[s][c] = None
                        /\ At(s, c)' # {} => results'[s][c] = None
                        /\ At(s, c)' = {} /\ c \notin todo'[s] => results'[s][c] # None
      BY DEF EachDocumentOnce
    <2>1. c \in DocIds /\ pc[s] \in Running /\ c \in wanted[s] /\ todo'[s] = todo[s]
      BY <1>7 DEF process, IInv, TypeOK, ProcessTypes
    <2>2. CASE s = r /\ c = d
      BY <2>2, <1>2, <1>4, <1>6, <1>7, <1>11 DEF At, Of
    <2>3. CASE s # r \/ c # d
      BY <2>1, <2>3, <1>6, <1>7, <1>10 DEF IInv, EachDocumentOnce, process
    <2>4. QED BY <2>2, <2>3
  <1>13. WorkerPart'
    BY <1>1, <1>7 DEF IInv, WorkerPart, TypeOK, WorkerTypes, process, history, Own, Questions
  <1>14. DocumentPart'
    <2> SUFFICES ASSUME NEW s \in Slots, pc'[s] \in Running, NEW c \in DocIds
                 PROVE  /\ c \in todo'[s] => asked'[s][c] = 0
                        /\ results'[s][c] # None =>
                             /\ \/ results'[s][c].extraction = None
                                \/ Own(s, c, results[s][c].extraction)'
                             /\ results'[s][c].calls = asked'[s][c]
      BY DEF DocumentPart, Own
    <2>1. /\ pc[s] \in Running /\ todo'[s] = todo[s] /\ asked'[s][c] = asked[s][c]
          /\ identity'[s] = identity[s]
      BY <1>7 DEF process, history
    <2>2. CASE s = r /\ c = d
      BY <2>1, <2>2, <1>2, <1>3, <1>4, <1>6 DEF Own
    <2>3. CASE s # r \/ c # d
      BY <2>1, <2>3, <1>6 DEF IInv, DocumentPart, Own
    <2>4. QED BY <2>2, <2>3
  <1>15. SlotPart'
    BY <1>7 DEF IInv, SlotPart, process, history
  <1>16. FreshPart'
    <2> SUFFICES ASSUME NEW s \in Slots, pc[s] \in Running, alone[s]
                 PROVE  /\ \A t \in Slots \ {s} : pc[t] \notin Running
                        /\ \A c \in known[s] :
                             /\ asked[s][c] = 0
                             /\ \A v \in At(s, c)' : phase'[v] = "cache"
                             /\ results'[s][c] = None => Usable(identity[s], c)'
      BY <1>7 DEF FreshPart, process, history, Usable
    <2>1. \A t \in Slots \ {s} : pc[t] \notin Running
      BY DEF IInv, FreshPart
    <2>2. ASSUME NEW c \in known[s]
          PROVE  /\ asked[s][c] = 0
                 /\ \A v \in At(s, c)' : phase'[v] = "cache"
                 /\ results'[s][c] = None => Usable(identity[s], c)'
      <3>1. c \in DocIds
        BY DEF IInv, TypeOK, HistoryTypes
      <3>2. CASE s = r /\ c = d
        BY <3>2, <1>4, <1>6, <1>11 DEF IInv, FreshPart, At, Of
      <3>3. CASE s # r \/ c # d
        <4>1. At(s, c)' = At(s, c) /\ results'[s][c] = results[s][c]
          BY <3>1, <3>3, <1>6, <1>10
        <4>2. \A v \in At(s, c)' : phase'[v] = "cache"
          BY <4>1, <1>1 DEF IInv, FreshPart, At, TypeOK, WorkerTypes
        <4>3. identity'[s] = identity[s]
          BY <1>7 DEF process
        <4>4. results[s][c] = None => Usable(identity[s], c)'
          BY <3>1, <4>3, <1>1, CacheKept DEF IInv, FreshPart, Usable
        <4>5. QED BY <4>1, <4>2, <4>4 DEF IInv, FreshPart
      <3>4. QED BY <3>2, <3>3
    <2>3. QED BY <2>1, <2>2
  <1>17. QED BY <1>8, <1>9, <1>12, <1>13, <1>14, <1>15, <1>16 DEF IInv

-----------------------------------------------------------------------------
(* A worker is busy with a document, and stays so *)

LEMMA CallKeeps ==
  ASSUME IInv, NEW w \in Workers, NEW r \in Slots, r = SlotOf[w],
         NEW d, d = doc[w], NEW next \in Questions, NEW n \in 1 .. MaxAttempts,
         NEW f \in 0 .. MaxAttempts, f + n = first[w] + attempt[w] + 1,
         next = "ask" => f = 0,
         phase[w] # "free", phase' = [phase EXCEPT ![w] = next],
         phase[w] = "cache" => ~Usable(identity[r], d),
         first' = [first EXCEPT ![w] = f], Calls(w, r, n)
  PROVE  IInv'
  <1>1. /\ pc[r] = "infer" /\ d \in wanted[r] /\ d \in DocIds
        /\ \A v \in Workers : v # w /\ SlotOf[v] = r /\ phase[v] # "free" => doc[v] # d
        /\ d \notin todo[r] /\ results[r][d] = None /\ w \in At(r, d)
    BY BusyWorker
  <1>2. /\ attempt' = [attempt EXCEPT ![w] = n]
        /\ UNCHANGED <<cache, output, process, todo, results, report, doc, holds,
                       known, alone, runs>>
    BY DEF Calls, disk
  <1>3. /\ asked' \in [Slots -> [DocIds -> 0 .. 2 * MaxAttempts]]
        /\ asked'[r][d] = f + n
        /\ \A s \in Slots, c \in DocIds : s # r \/ c # d => asked'[s][c] = asked[s][c]
    <2>1. asked[r][d] = first[w] + attempt[w] /\ asked[r][d] \in 0 .. 2 * MaxAttempts
      BY <1>1 DEF IInv, WorkerPart, TypeOK, HistoryTypes
    <2>2. asked[r][d] + 1 = f + n /\ asked[r][d] + 1 \in 0 .. 2 * MaxAttempts
      <3>1. first[w] \in Nat /\ attempt[w] \in Nat
        BY Attempts DEF IInv, TypeOK, WorkerTypes
      <3>2. QED BY <2>1, <3>1, Attempts
    <2>3. asked' = [asked EXCEPT ![r][d] = @ + 1]
      BY DEF Calls
    <2>4. QED BY <1>1, <2>2, <2>3 DEF IInv, TypeOK, HistoryTypes
  <1>4. \A s \in Slots, c \in DocIds : At(s, c)' = At(s, c)
    BY <1>2 DEF At, Of, IInv, TypeOK, WorkerTypes, Questions
  <1>5. TypeOK'
    BY <1>2, <1>3, Attempts DEF IInv, TypeOK, DiskTypes, ProcessTypes, WorkerTypes,
         HistoryTypes, process, report, Busy, Questions
  <1>6. EachDocumentOnce'
    BY <1>2, <1>4 DEF IInv, EachDocumentOnce, process, TypeOK, ProcessTypes
  <1>7. WorkerPart'
    <2> SUFFICES ASSUME NEW v \in Workers
                 PROVE  /\ phase'[v] = "free" => first'[v] = 0
                        /\ phase'[v] # "free" =>
                             /\ pc[SlotOf[v]] = "infer"
                             /\ doc[v] \in wanted[SlotOf[v]]
                             /\ asked'[SlotOf[v]][doc[v]] = first'[v] + attempt'[v]
                        /\ phase'[v] \in {"cache", "ask"} => first'[v] = 0
                        /\ phase'[v] \notin Questions => attempt'[v] = 0
                        /\ phase'[v] = "repair" => first'[v] \in 0 .. MaxAttempts
                        /\ phase'[v] \in {"store", "writing"} => Own(SlotOf[v], doc[v], holds[v])
      BY <1>2 DEF WorkerPart, process, Own
    <2>1. CASE v = w
      BY <2>1, <1>1, <1>2, <1>3 DEF IInv, TypeOK, WorkerTypes, Questions
    <2>2. CASE v # w
      <3>1. phase'[v] = phase[v] /\ first'[v] = first[v] /\ attempt'[v] = attempt[v]
        BY <2>2, <1>2 DEF IInv, TypeOK, WorkerTypes
      <3>2. phase[v] # "free" => asked'[SlotOf[v]][doc[v]] = asked[SlotOf[v]][doc[v]]
        BY <2>2, <1>1, <1>3, BusyWorker, Slot
      <3>3. QED BY <3>1, <3>2 DEF IInv, WorkerPart
    <2>3. QED BY <2>1, <2>2
  <1>8. DocumentPart'
    <2> SUFFICES ASSUME NEW s \in Slots, pc[s] \in Running, NEW c \in DocIds
                 PROVE  /\ c \in todo[s] => asked'[s][c] = 0
                        /\ results[s][c] # None =>
                             /\ \/ results[s][c].extraction = None
                                \/ Own(s, c, results[s][c].extraction)
                             /\ results[s][c].calls = asked'[s][c]
      BY <1>2 DEF DocumentPart, Own, process
    <2>1. QED BY <1>1, <1>3 DEF IInv, DocumentPart
  <1>9. SlotPart' /\ CachePart'
    BY <1>2 DEF IInv, SlotPart, CachePart, process
  <1>10. FreshPart'
    <2> SUFFICES ASSUME NEW s \in Slots, pc[s] \in Running, alone[s]
                 PROVE  /\ \A t \in Slots \ {s} : pc[t] \notin Running
                        /\ \A c \in known[s] :
                             /\ asked'[s][c] = 0
                             /\ \A v \in At(s, c) : phase'[v] = "cache"
                             /\ results[s][c] = None => Usable(identity[s], c)
      <3>1. \A s \in Slots, c \in DocIds : Usable(identity[s], c)' <=> Usable(identity[s], c)
        BY <1>2 DEF Usable, process
      <3>2. \A s \in Slots : known[s] \subseteq DocIds
        BY DEF IInv, TypeOK, HistoryTypes
      <3>3. QED BY <1>2, <1>4, <3>1, <3>2 DEF FreshPart, process
    <2>1. \A t \in Slots \ {s} : pc[t] \notin Running
      BY DEF IInv, FreshPart
    <2>2. ASSUME NEW c \in known[s]
          PROVE  asked'[s][c] = 0 /\ \A v \in At(s, c) : phase'[v] = "cache"
      <3>1. c \in DocIds
        BY DEF IInv, TypeOK, HistoryTypes
      <3>2. s # r \/ c # d
        BY <1>1 DEF IInv, FreshPart
      <3>3. w \notin At(s, c)
        BY <3>2 DEF At, Of
      <3>4. \A v \in At(s, c) : phase'[v] = phase[v]
        BY <3>3 DEF At, Of, IInv, TypeOK, WorkerTypes
      <3>5. QED BY <1>3, <3>1, <3>2, <3>4 DEF IInv, FreshPart
    <2>3. QED BY <2>1, <2>2 DEF IInv, FreshPart
  <1>11. QED BY <1>5, <1>6, <1>7, <1>8, <1>9, <1>10 DEF IInv

LEMMA StoreKeeps ==
  ASSUME IInv, NEW w \in Workers, NEW r \in Slots, r = SlotOf[w],
         NEW d, d = doc[w], NEW next \in {"store", "writing"}, NEW e, Own(r, d, e),
         phase[w] \notin {"free", "cache"}, phase' = [phase EXCEPT ![w] = next],
         attempt' = [attempt EXCEPT ![w] = 0],
         first' = [first EXCEPT ![w] = first[w] + attempt[w]],
         holds' = [holds EXCEPT ![w] = e],
         UNCHANGED <<output, process, todo, results, report, doc, history>>,
         CacheStep(w, r)
  PROVE  IInv'
  <1>1. /\ pc[r] = "infer" /\ d \in wanted[r] /\ d \in DocIds /\ w \in At(r, d)
    BY BusyWorker
  <1>2. cache' \in [Models -> [DocIds -> Entry \cup {None, Torn}]] /\ CachePart'
    BY CacheKept
  <1>3. \A s \in Slots, c \in DocIds : At(s, c)' = At(s, c)
    BY DEF At, Of, IInv, TypeOK, WorkerTypes
  <1>4. first[w] + attempt[w] \in 0 .. 2 * MaxAttempts
    BY <1>1 DEF IInv, WorkerPart, TypeOK, HistoryTypes
  <1>5. TypeOK'
    BY <1>2, <1>4, Attempts DEF IInv, TypeOK, DiskTypes, ProcessTypes, WorkerTypes,
         HistoryTypes, process, report, history, Busy, Own
  <1>6. EachDocumentOnce'
    BY <1>3 DEF IInv, EachDocumentOnce, process, TypeOK, ProcessTypes
  <1>7. WorkerPart'
    <2>1. first[w] + attempt[w] + 0 = first[w] + attempt[w]
      BY <1>4
    <2>2. QED BY <1>1, <2>1 DEF IInv, WorkerPart, TypeOK, WorkerTypes, process, history,
                 Own, Questions
  <1>8. DocumentPart' /\ SlotPart'
    BY DEF IInv, DocumentPart, SlotPart, Own, process, history
  <1>9. FreshPart'
    <2> SUFFICES ASSUME NEW s \in Slots, pc[s] \in Running, alone[s]
                 PROVE  /\ \A t \in Slots \ {s} : pc[t] \notin Running
                        /\ \A c \in known[s] :
                             /\ asked[s][c] = 0
                             /\ \A v \in At(s, c)' : phase'[v] = "cache"
                             /\ results[s][c] = None => Usable(identity[s], c)'
      BY DEF FreshPart, process, history, Usable
    <2>1. \A t \in Slots \ {s} : pc[t] \notin Running
      BY DEF IInv, FreshPart
    <2>2. ASSUME NEW c \in known[s]
          PROVE  /\ asked[s][c] = 0
                 /\ \A v \in At(s, c)' : phase'[v] = "cache"
                 /\ results[s][c] = None => Usable(identity[s], c)'
      <3>1. c \in DocIds
        BY DEF IInv, TypeOK, HistoryTypes
      <3>2. w \notin At(s, c)
        BY DEF IInv, FreshPart
      <3>3. \A v \in At(s, c) : phase'[v] = phase[v]
        BY <3>2 DEF At, Of, IInv, TypeOK, WorkerTypes
      <3>4. identity'[s] = identity[s]
        BY DEF process
      <3>5. results[s][c] = None => Usable(identity[s], c)'
        BY <3>1, <3>4, CacheKept DEF IInv, FreshPart
      <3>6. QED BY <1>3, <3>1, <3>3, <3>5 DEF IInv, FreshPart
    <2>3. QED BY <2>1, <2>2
  <1>10. QED BY <1>2, <1>5, <1>6, <1>7, <1>8, <1>9 DEF IInv

LEMMA TakeKeeps ==
  ASSUME IInv, NEW w \in Workers, NEW r \in Slots, r = SlotOf[w],
         NEW d \in DocIds, Take(w, r, d)
  PROVE  IInv'
  <1>1. /\ phase[w] = "free" /\ pc[r] = "infer" /\ d \in todo[r]
        /\ phase' = [phase EXCEPT ![w] = "cache"]
        /\ todo' = [todo EXCEPT ![r] = @ \ {d}]
        /\ doc' = [doc EXCEPT ![w] = d]
        /\ UNCHANGED <<disk, process, results, report, attempt, first, holds, history>>
    BY DEF Take, Moves
  <1>2. /\ d \in wanted[r] /\ At(r, d) = {} /\ results[r][d] = None /\ asked[r][d] = 0
    BY <1>1 DEF IInv, SlotPart, EachDocumentOnce, DocumentPart, Running
  <1>3. \A s \in Slots, c \in DocIds :
           At(s, c)' = IF s = r /\ c = d THEN {w} ELSE At(s, c)
    <2> SUFFICES ASSUME NEW s \in Slots, NEW c \in DocIds, NEW v \in Workers
                 PROVE  v \in At(s, c)' <=>
                          v \in IF s = r /\ c = d THEN {w} ELSE At(s, c)
      BY DEF At, Of
    <2>1. CASE v = w
      BY <2>1, <1>1 DEF At, Of, IInv, TypeOK, WorkerTypes
    <2>2. CASE v # w
      BY <2>2, <1>1, <1>2 DEF At, Of, IInv, TypeOK, WorkerTypes
    <2>3. QED BY <2>1, <2>2
  <1>4. /\ todo' \in [Slots -> SUBSET DocIds]
        /\ \A s \in Slots, c \in DocIds :
             c \in todo'[s] <=> c \in todo[s] /\ ~(s = r /\ c = d)
    BY <1>1 DEF IInv, TypeOK, ProcessTypes
  <1>5. TypeOK'
    BY <1>1, <1>4 DEF IInv, TypeOK, DiskTypes, ProcessTypes, WorkerTypes, HistoryTypes,
         disk, process, report, history, Busy
  <1>6. EachDocumentOnce'
    <2> SUFFICES ASSUME NEW s \in Slots, pc[s] \in Running, NEW c \in wanted[s]
                 PROVE  /\ \A u, v \in At(s, c)' : u = v
                        /\ c \in todo'[s] => At(s, c)' = {} /\ results[s][c] = None
                        /\ At(s, c)' # {} => results[s][c] = None
                        /\ At(s, c)' = {} /\ c \notin todo'[s] => results[s][c] # None
      BY <1>1 DEF EachDocumentOnce, process
    <2>1. c \in DocIds
      BY DEF IInv, TypeOK, ProcessTypes
    <2>2. CASE s = r /\ c = d
      BY <2>1, <2>2, <1>2, <1>3, <1>4
    <2>3. CASE ~(s = r /\ c = d)
      BY <2>1, <2>3, <1>3, <1>4 DEF IInv, EachDocumentOnce
    <2>4. QED BY <2>2, <2>3
  <1>7. WorkerPart'
    BY <1>1, <1>2 DEF IInv, WorkerPart, TypeOK, WorkerTypes, process, history, Own, Questions
  <1>8. DocumentPart' /\ SlotPart' /\ CachePart'
    BY <1>1, <1>4 DEF IInv, DocumentPart, SlotPart, CachePart, Own, process, history, disk
  <1>9. FreshPart'
    <2>1. \A s \in Slots, c \in DocIds : Usable(identity[s], c)' <=> Usable(identity[s], c)
      BY <1>1 DEF Usable, disk, process
    <2>2. ASSUME NEW s \in Slots, pc[s] \in Running, alone[s], NEW c \in known[s]
          PROVE  \A v \in At(s, c)' : phase'[v] = "cache"
      <3>1. c \in DocIds
        BY DEF IInv, TypeOK, HistoryTypes
      <3>2. \A v \in At(s, c) : phase[v] = "cache"
        BY <2>2 DEF IInv, FreshPart
      <3>3. QED BY <3>1, <3>2, <1>1, <1>3 DEF At, Of, IInv, TypeOK, WorkerTypes
    <2>3. \A s \in Slots : known[s] \subseteq DocIds
      BY DEF IInv, TypeOK, HistoryTypes
    <2>4. QED BY <1>1, <2>1, <2>2, <2>3 DEF IInv, FreshPart, process, history
  <1>10. QED BY <1>5, <1>6, <1>7, <1>8, <1>9 DEF IInv

LEMMA WorkKeeps == ASSUME IInv, NEW w \in Workers, Work(w) PROVE IInv'
  <1> DEFINE r == SlotOf[w]
             d == doc[w]
  <1>1. r \in Slots
    BY Slot
  <1>2. ASSUME NEW c \in DocIds, Take(w, r, c) PROVE IInv'
    BY <1>1, <1>2, TakeKeeps
  <1>3. phase[w] \in Questions =>
          /\ first[w] \in 0 .. MaxAttempts /\ attempt[w] \in 0 .. MaxAttempts
          /\ phase[w] = "ask" => first[w] = 0
          /\ phase[w] \notin {"free", "cache"} /\ phase[w] \in {"ask", "repair"}
    BY Attempts DEF Questions, IInv, WorkerPart, TypeOK, WorkerTypes
  <1>4. \A n \in 0 .. MaxAttempts : n + 0 = n /\ 0 + n = n
    BY Attempts
  <1>5. CASE CacheHit(w, r)
    <2>1. /\ phase[w] = "cache" /\ first[w] = 0 /\ attempt[w] = 0
      BY <1>5 DEF CacheHit, Moves, IInv, WorkerPart, Questions
    <2>2. identity[r].model \in Models /\ d \in DocIds
      BY <1>1, <2>1, BusyWorker
    <2>3. Own(r, d, cache[identity[r].model][d].extraction)
      BY <1>1, <1>5, <2>2 DEF CacheHit, Usable, Own, IInv, CachePart, TypeOK, DiskTypes, Entry
    <2>4. CacheStep(w, r) /\ UNCHANGED history
      BY <1>5 DEF CacheHit, CacheStep
    <2>5. QED BY <1>1, <1>5, <2>1, <2>3, <2>4, ReturnKeeps DEF CacheHit
  <1>6. CASE CacheMiss(w, r)
    <2>1. /\ phase[w] = "cache" /\ first[w] = 0 /\ attempt[w] = 0
          /\ phase' = [phase EXCEPT ![w] = "ask"]
          /\ ~Usable(identity[r], d) /\ Calls(w, r, 1) /\ first' = first
      BY <1>6 DEF CacheMiss, Moves, IInv, WorkerPart, Questions
    <2>2. first' = [first EXCEPT ![w] = 0]
      BY <2>1 DEF IInv, TypeOK, WorkerTypes
    <2>3. 0 \in 0 .. MaxAttempts /\ 1 \in 1 .. MaxAttempts /\ 0 + 1 = first[w] + attempt[w] + 1
      BY <2>1, Attempts
    <2>4. "ask" \in Questions
      BY DEF Questions
    <2>5. QED BY <1>1, <2>1, <2>2, <2>3, <2>4, CallKeeps
  <1>7. CASE CallFails(w, r)
    <2>1. /\ phase[w] \in Questions /\ attempt[w] < MaxAttempts
          /\ Calls(w, r, attempt[w] + 1) /\ phase' = phase /\ first' = first
      BY <1>7 DEF CallFails
    <2>2. /\ phase' = [phase EXCEPT ![w] = phase[w]]
          /\ first' = [first EXCEPT ![w] = first[w]]
      BY <2>1 DEF IInv, TypeOK, WorkerTypes
    <2>3. /\ attempt[w] + 1 \in 1 .. MaxAttempts
          /\ first[w] + (attempt[w] + 1) = first[w] + attempt[w] + 1
      BY <2>1, <1>3, Attempts
    <2>4. QED BY <1>1, <1>3, <2>1, <2>2, <2>3, CallKeeps
  <1>8. CASE GivesUp(w, r)
    BY <1>1, <1>3, <1>8, ReturnKeeps DEF GivesUp, CacheStep
  <1>9. CASE NeedsRepair(w, r)
    <2>1. /\ phase[w] = "ask" /\ phase' = [phase EXCEPT ![w] = "repair"]
          /\ Calls(w, r, 1) /\ first' = [first EXCEPT ![w] = attempt[w]]
      BY <1>9 DEF NeedsRepair, Moves
    <2>2. first[w] = 0 /\ attempt[w] \in 0 .. MaxAttempts /\ attempt[w] + 1 = 0 + attempt[w] + 1
      BY <2>1, <1>3, Attempts DEF Questions
    <2>3. "repair" \in Questions /\ 1 \in 1 .. MaxAttempts
      BY Attempts DEF Questions
    <2>4. QED BY <1>1, <2>1, <2>2, <2>3, CallKeeps
  <1>10. CASE RepairFails(w, r)
    BY <1>1, <1>10, ReturnKeeps DEF RepairFails, CacheStep
  <1>11. ASSUME NEW rels \in Answers, Answered(w, r, rels) PROVE IInv'
    <2>1. /\ phase[w] \in Questions /\ phase' = [phase EXCEPT ![w] = "store"]
      BY <1>11 DEF Answered, Moves
    <2> DEFINE e == [project |-> project[r], doc |-> d, identity |-> identity[r],
                     rels |-> rels]
    <2>2. project[r] \in Projects /\ identity[r] \in Identity /\ d \in DocIds
      BY <1>1, <1>3, <2>1, BusyWorker DEF IInv, SlotPart, Running
    <2>3. Own(r, d, e)
      BY <2>2 DEF Own, Extraction
    <2>4. /\ holds' = [holds EXCEPT ![w] = e]
          /\ first' = [first EXCEPT ![w] = first[w] + attempt[w]]
          /\ attempt' = [attempt EXCEPT ![w] = 0]
          /\ UNCHANGED <<disk, process, todo, results, report, doc, history>>
      BY <1>11 DEF Answered
    <2> HIDE DEF e
    <2>5. CacheStep(w, r) /\ UNCHANGED output
      BY <2>4 DEF CacheStep, disk
    <2>6. QED BY <1>1, <1>3, <2>1, <2>3, <2>4, <2>5, StoreKeeps
  <1>12. CASE OpenEntry(w, r)
    <2>1. /\ phase[w] = "store" /\ phase' = [phase EXCEPT ![w] = "writing"]
          /\ cache' = [cache EXCEPT ![identity[r].model][d] = None]
          /\ UNCHANGED <<output, process, todo, results, report, doc, attempt, first,
                         holds, history>>
      BY <1>12 DEF OpenEntry, Moves
    <2>2. Own(r, d, holds[w]) /\ attempt[w] = 0
      BY <2>1 DEF IInv, WorkerPart, Questions
    <2>3. /\ attempt' = [attempt EXCEPT ![w] = 0]
          /\ first' = [first EXCEPT ![w] = first[w] + attempt[w]]
          /\ holds' = [holds EXCEPT ![w] = holds[w]]
      <3>1. first[w] + 0 = first[w]
        BY Attempts DEF IInv, TypeOK, WorkerTypes
      <3>2. QED BY <3>1, <2>1, <2>2 DEF IInv, TypeOK, WorkerTypes
    <2>4. CacheStep(w, r)
      BY <2>1 DEF CacheStep
    <2>5. QED BY <1>1, <2>1, <2>2, <2>3, <2>4, StoreKeeps
  <1>13. CASE Stored(w, r)
    <2>1. /\ phase[w] = "writing" /\ Moves(w, r, "writing", "free")
          /\ Returns(w, r, holds[w], first[w]) /\ UNCHANGED history
      BY <1>13 DEF Stored, Moves
    <2>2. Own(r, d, holds[w]) /\ attempt[w] = 0 /\ first[w] = first[w] + attempt[w]
      BY <2>1, Attempts DEF IInv, WorkerPart, Questions, TypeOK, WorkerTypes
    <2>3. identity[r] \in Identity
      BY <1>1, <2>1, BusyWorker
    <2>4. CacheStep(w, r)
      <3> DEFINE entry == [identity |-> identity[r], extraction |-> holds[w]]
      <3>1. entry \in Entry /\ entry.extraction.identity = entry.identity
        BY <2>2, <2>3 DEF Entry, Own
      <3>2. PICK content \in {entry, Torn} :
               cache' = [cache EXCEPT ![identity[r].model][d] = content]
        BY <1>13 DEF Stored, Written
      <3>3. QED BY <2>1, <3>1, <3>2 DEF CacheStep
    <2>5. QED BY <1>1, <2>1, <2>2, <2>4, ReturnKeeps
  <1>14. CASE StoreFails(w, r)
    <2>1. PICK from \in {"store", "writing"} : phase[w] = from /\ Moves(w, r, from, "free")
      BY <1>14 DEF StoreFails, Moves
    <2>2. attempt[w] = 0 /\ first[w] = first[w] + attempt[w]
      BY <2>1, Attempts DEF IInv, WorkerPart, Questions, TypeOK, WorkerTypes
    <2>3. identity[r].model \in Models /\ d \in DocIds
      BY <1>1, <2>1, BusyWorker
    <2>4. CacheStep(w, r)
      <3> DEFINE old == cache[identity[r].model][d]
      <3>1. CASE cache' = cache
        BY <3>1 DEF CacheStep
      <3>2. CASE \E content \in {old, Torn} :
                    cache' = [cache EXCEPT ![identity[r].model][d] = content]
        <4>1. /\ old \in Entry \cup {None, Torn}
              /\ old \notin {None, Torn} => old.extraction.identity = old.identity
          BY <2>3 DEF IInv, CachePart, TypeOK, DiskTypes
        <4>2. QED BY <2>1, <3>2, <4>1 DEF CacheStep
      <3>3. QED BY <1>14, <3>1, <3>2 DEF StoreFails
    <2>5. QED BY <1>1, <1>14, <2>1, <2>2, <2>4, ReturnKeeps DEF StoreFails
  <1>15. QED BY <1>2, <1>5, <1>6, <1>7, <1>8, <1>9, <1>10, <1>11, <1>12, <1>13, <1>14
             DEF Work

-----------------------------------------------------------------------------
(* A process starts, reports and ends *)

LEMMA StartKeeps ==
  ASSUME IInv, NEW r \in Slots, NEW p \in Projects, NEW i \in Identity,
         NEW filter \in Filters, Start(r, p, i, filter)
  PROVE  IInv'
  <1>1. /\ pc[r] \notin Running /\ runs' = runs + 1
        /\ pc' = [pc EXCEPT ![r] = "infer"]
        /\ project' = [project EXCEPT ![r] = p]
        /\ identity' = [identity EXCEPT ![r] = i]
        /\ wanted' = [wanted EXCEPT ![r] = {d \in Documents[p] : filter = {} \/ d \in filter}]
        /\ todo' = [todo EXCEPT ![r] = wanted'[r]]
        /\ results' = [results EXCEPT ![r] = [d \in DocIds |-> None]]
        /\ asked' = [asked EXCEPT ![r] = [d \in DocIds |-> 0]]
        /\ known' = [known EXCEPT ![r] = {d \in wanted'[r] : Usable(i, d)}]
        /\ alone' = [q \in Slots |-> q = r /\ \A s \in Slots \ {r} : pc[s] \notin Running]
        /\ UNCHANGED <<disk, report, worker>>
    BY DEF Start
  <1>2. /\ wanted' \in [Slots -> SUBSET DocIds]
        /\ todo' \in [Slots -> SUBSET DocIds] /\ todo'[r] = wanted'[r]
        /\ known' \in [Slots -> SUBSET DocIds] /\ known'[r] \subseteq wanted'[r]
        /\ \A d \in known'[r] : Usable(i, d)
    BY <1>1, ExtractorAssumption DEF IInv, TypeOK, ProcessTypes, HistoryTypes
  <1>3. \A d \in DocIds : results'[r][d] = None /\ asked'[r][d] = 0
    BY <1>1 DEF IInv, TypeOK, ProcessTypes, HistoryTypes
  <1>4. /\ pc'[r] = "infer" /\ project'[r] = p /\ identity'[r] = i
        /\ \A s \in Slots \ {r} :
             /\ pc'[s] = pc[s] /\ project'[s] = project[s] /\ identity'[s] = identity[s]
             /\ wanted'[s] = wanted[s] /\ todo'[s] = todo[s] /\ results'[s] = results[s]
             /\ asked'[s] = asked[s] /\ known'[s] = known[s] /\ ~alone'[s]
    BY <1>1 DEF IInv, TypeOK, ProcessTypes, HistoryTypes
  <1>5. /\ \A w \in Workers : SlotOf[w] = r => phase[w] = "free"
        /\ \A s \in Slots, d \in DocIds : At(s, d)' = At(s, d)
        /\ \A d \in DocIds : At(r, d)' = {}
    BY <1>1 DEF IInv, WorkerPart, Running, At, Of, worker
  <1>6. TypeOK'
    <2>1. 0 \in 0 .. 2 * MaxAttempts
      BY Attempts
    <2>2. /\ results' \in [Slots -> [DocIds -> Result \cup {None}]]
          /\ asked' \in [Slots -> [DocIds -> 0 .. 2 * MaxAttempts]]
      BY <1>1, <2>1 DEF IInv, TypeOK, ProcessTypes, HistoryTypes
    <2>3. alone' \in [Slots -> BOOLEAN]
      BY <1>1
    <2>4. /\ pc' \in [Slots -> Running \cup {"idle", "done", "failed", "killed"}]
          /\ project' \in [Slots -> Projects \cup {None}]
          /\ identity' \in [Slots -> Identity \cup {None}] /\ runs' \in Nat
      BY <1>1 DEF IInv, TypeOK, ProcessTypes, HistoryTypes, Running
    <2>5. QED BY <1>1, <1>2, <2>2, <2>3, <2>4 DEF IInv, TypeOK, DiskTypes, ProcessTypes,
                 WorkerTypes, HistoryTypes, disk, report, worker
  <1>7. EachDocumentOnce'
    <2> SUFFICES ASSUME NEW s \in Slots, pc'[s] \in Running, NEW c \in wanted'[s]
                 PROVE  /\ \A u, v \in At(s, c)' : u = v
                        /\ c \in todo'[s] => At(s, c)' = {} /\ results'[s][c] = None
                        /\ At(s, c)' # {} => results'[s][c] = None
                        /\ At(s, c)' = {} /\ c \notin todo'[s] => results'[s][c] # None
      BY DEF EachDocumentOnce
    <2>1. c \in DocIds
      BY <1>2
    <2>2. CASE s = r
      <3>1. At(s, c)' = {} /\ c \in todo'[s] /\ results'[s][c] = None
        BY <2>1, <2>2, <1>2, <1>3, <1>5 DEF At, Of
      <3>2. QED BY <3>1
    <2>3. CASE s # r
      BY <2>1, <2>3, <1>4, <1>5 DEF IInv, EachDocumentOnce
    <2>4. QED BY <2>2, <2>3
  <1>8. WorkerPart'
    <2>1. \A w \in Workers : phase[w] # "free" => SlotOf[w] \in Slots \ {r}
      BY <1>5, Slot
    <2>2. QED BY <1>1, <1>4, <2>1 DEF IInv, WorkerPart, worker, Own
  <1>9. DocumentPart' /\ SlotPart' /\ CachePart'
    BY <1>1, <1>2, <1>3, <1>4 DEF IInv, DocumentPart, SlotPart, CachePart, Own, disk
  <1>10. FreshPart'
    <2> SUFFICES ASSUME alone'[r]
                 PROVE  /\ \A t \in Slots \ {r} : pc'[t] \notin Running
                        /\ \A c \in known'[r] :
                             /\ asked'[r][c] = 0
                             /\ \A v \in At(r, c)' : phase'[v] = "cache"
                             /\ results'[r][c] = None => Usable(identity[r], c)'
      BY <1>4 DEF FreshPart, At, Of, Usable
    <2>1. \A t \in Slots \ {r} : pc'[t] \notin Running
      BY <1>1, <1>4
    <2>2. \A c \in known'[r] : Usable(identity[r], c)'
      BY <1>1, <1>2, <1>4 DEF Usable, disk
    <2>3. QED BY <2>1, <2>2, <1>2, <1>3, <1>5
  <1>11. QED BY <1>6, <1>7, <1>8, <1>9, <1>10 DEF IInv

\* The process goes on with its reports, or ends well.
LEMMA ReportKeeps ==
  ASSUME IInv, NEW r \in Slots, pc[r] \in Running,
         \A w \in Workers : SlotOf[w] = r => phase[w] = "free",
         NEW next \in {"write", "done"}, pc' = [pc EXCEPT ![r] = next],
         DOMAIN output' = Projects, \A p \in Projects : DOMAIN output'[p] = Reports,
         pending' \in [Slots -> SUBSET Reports], opened' \in [Slots -> SUBSET Reports],
         broken' \in [Slots -> BOOLEAN],
         UNCHANGED <<cache, project, identity, wanted, todo, results, worker, history>>
  PROVE  IInv'
  <1>1. /\ pc' \in [Slots -> Running \cup {"idle", "done", "failed", "killed"}]
        /\ \A s \in Slots : pc'[s] \in Running => pc[s] \in Running
        /\ \A w \in Workers : phase[w] # "free" => pc'[SlotOf[w]] = pc[SlotOf[w]]
    BY Slot DEF IInv, TypeOK, ProcessTypes, Running
  <1>2. \A s, d : (At(s, d)' = At(s, d)) /\ (Usable(identity[s], d)' <=> Usable(identity[s], d))
    BY DEF At, Of, worker, Usable
  <1>3. TypeOK'
    BY <1>1 DEF IInv, TypeOK, DiskTypes, ProcessTypes, WorkerTypes, HistoryTypes, worker,
         history
  <1>4. EachDocumentOnce'
    BY <1>1, <1>2 DEF IInv, EachDocumentOnce
  <1>5. WorkerPart' /\ DocumentPart' /\ SlotPart' /\ CachePart'
    BY <1>1 DEF IInv, WorkerPart, DocumentPart, SlotPart, CachePart, Own, worker, history
  <1>6. FreshPart'
    BY <1>1, <1>2 DEF IInv, FreshPart, worker, history
  <1>7. QED BY <1>3, <1>4, <1>5, <1>6 DEF IInv

\* The process ends badly, and its workers with it.
LEMMA EndKeeps ==
  ASSUME IInv, NEW r \in Slots, NEW how \in {"failed", "killed"}, Ends(r, how),
         WorkerTypes',
         \A w \in Workers :
            IF SlotOf[w] = r
            THEN phase'[w] = "free" /\ attempt'[w] = 0 /\ first'[w] = 0
            ELSE /\ phase'[w] = phase[w] /\ doc'[w] = doc[w] /\ attempt'[w] = attempt[w]
                 /\ first'[w] = first[w] /\ holds'[w] = holds[w]
  PROVE  IInv'
  <1>1. /\ pc' = [pc EXCEPT ![r] = how]
        /\ project' = [project EXCEPT ![r] = None]
        /\ identity' = [identity EXCEPT ![r] = None]
        /\ wanted' = [wanted EXCEPT ![r] = {}]
        /\ todo' = [todo EXCEPT ![r] = {}]
        /\ results' = [results EXCEPT ![r] = [d \in DocIds |-> None]]
        /\ asked' = [asked EXCEPT ![r] = [d \in DocIds |-> 0]]
        /\ known' = [known EXCEPT ![r] = {}]
        /\ alone' = [alone EXCEPT ![r] = FALSE]
        /\ UNCHANGED <<disk, runs>>
    BY DEF Ends
  <1>2. /\ pc'[r] \notin Running /\ ~alone'[r]
        /\ \A s \in Slots \ {r} :
             /\ pc'[s] = pc[s] /\ project'[s] = project[s] /\ identity'[s] = identity[s]
             /\ wanted'[s] = wanted[s] /\ todo'[s] = todo[s] /\ results'[s] = results[s]
             /\ asked'[s] = asked[s] /\ known'[s] = known[s] /\ alone'[s] = alone[s]
    BY <1>1 DEF IInv, TypeOK, ProcessTypes, HistoryTypes, Running
  <1>3. \A s \in Slots \ {r}, d \in DocIds : At(s, d)' = At(s, d)
    BY DEF At, Of
  <1>4. TypeOK'
    <2>1. 0 \in 0 .. 2 * MaxAttempts
      BY Attempts
    <2>2. ProcessTypes'
      BY <1>1 DEF Ends, IInv, TypeOK, ProcessTypes, Running
    <2>3. HistoryTypes' /\ DiskTypes'
      BY <1>1, <2>1 DEF IInv, TypeOK, HistoryTypes, DiskTypes, disk
    <2>4. QED BY <2>2, <2>3 DEF TypeOK
  <1>5. EachDocumentOnce'
    <2>1. \A s \in Slots : pc'[s] \in Running => s \in Slots \ {r} /\ wanted'[s] \subseteq DocIds
      BY <1>2, <1>4 DEF TypeOK, ProcessTypes
    <2>2. QED BY <1>2, <1>3, <2>1 DEF IInv, EachDocumentOnce
  <1>6. WorkerPart'
    BY <1>2, Slot DEF IInv, WorkerPart, Own, Questions
  <1>7. DocumentPart' /\ SlotPart' /\ CachePart'
    BY <1>1, <1>2 DEF IInv, DocumentPart, SlotPart, CachePart, Own, disk
  <1>8. FreshPart'
    <2> SUFFICES ASSUME NEW s \in Slots \ {r}, pc[s] \in Running, alone[s]
                 PROVE  /\ \A t \in Slots \ {s} : pc'[t] \notin Running
                        /\ \A c \in known[s] :
                             /\ asked[s][c] = 0
                             /\ \A v \in At(s, c)' : phase'[v] = "cache"
                             /\ results[s][c] = None => Usable(identity[s], c)'
      BY <1>2 DEF FreshPart, Usable
    <2>1. \A t \in Slots \ {s} : pc'[t] \notin Running
      BY <1>2 DEF IInv, FreshPart
    <2>2. \A c \in known[s] : \A v \in At(s, c)' : phase'[v] = "cache"
      <3>1. known[s] \subseteq DocIds
        BY DEF IInv, TypeOK, HistoryTypes
      <3>2. \A c \in known[s] : \A v \in At(s, c) : phase'[v] = phase[v]
        BY DEF At, Of
      <3>3. QED BY <1>3, <3>1, <3>2 DEF IInv, FreshPart
    <2>3. \A c : Usable(identity[s], c)' <=> Usable(identity[s], c)
      BY <1>1, <1>2 DEF Usable, disk
    <2>4. QED BY <2>1, <2>2, <2>3 DEF IInv, FreshPart
  <1>9. QED BY <1>4, <1>5, <1>6, <1>7, <1>8 DEF IInv

LEMMA ConcludeKeeps == ASSUME IInv, NEW r \in Slots, Conclude(r) PROVE IInv'
  <1>1. /\ DOMAIN output = Projects /\ \A p \in Projects : DOMAIN output[p] = Reports
        /\ pending \in [Slots -> SUBSET Reports] /\ opened \in [Slots -> SUBSET Reports]
        /\ broken \in [Slots -> BOOLEAN] /\ WorkerTypes
        /\ pc \in [Slots -> Running \cup {"idle", "done", "failed", "killed"}]
    BY DEF IInv, TypeOK, DiskTypes, ProcessTypes
  <1>2. pc[r] = "write" =>
          /\ pc[r] \in Running /\ pc = [pc EXCEPT ![r] = "write"]
          /\ \A w \in Workers : SlotOf[w] = r => phase[w] = "free"
    BY <1>1 DEF IInv, WorkerPart, Running
  <1>3. WorkersDone(r) =>
          /\ pc[r] \in Running
          /\ \A w \in Workers : SlotOf[w] = r => phase[w] = "free"
    BY DEF WorkersDone, Of, Running
  <1>4. CASE Gather(r)
    BY <1>1, <1>3, <1>4, ReportKeeps DEF Gather, disk
  <1>5. ASSUME UNCHANGED worker, Ends(r, "failed"),
               \A w \in Workers : SlotOf[w] = r => phase[w] = "free"
        PROVE  IInv'
    <2>1. WorkerTypes'
      BY <1>1, <1>5 DEF WorkerTypes, worker
    <2>2. \A w \in Workers : phase[w] = "free" => attempt[w] = 0 /\ first[w] = 0
      BY DEF IInv, WorkerPart, Questions
    <2>3. QED BY <1>5, <2>1, <2>2, EndKeeps DEF worker
  <1>6. CASE Fail(r)
    BY <1>3, <1>5, <1>6 DEF Fail
  <1>7. ASSUME NEW f \in Reports, OpenReport(r, f) \/ ReportWritten(r, f) \/ ReportFails(r, f)
        PROVE  IInv'
    <2>1. /\ pc[r] = "write" /\ pc' = pc
          /\ UNCHANGED <<cache, project, identity, wanted, todo, results, worker, history>>
      BY <1>7 DEF OpenReport, ReportWritten, ReportFails, Closes, process
    <2>2. /\ pending' \in [Slots -> SUBSET Reports] /\ opened' \in [Slots -> SUBSET Reports]
          /\ broken' \in [Slots -> BOOLEAN]
      <3>1. CASE OpenReport(r, f)
        BY <1>1, <3>1 DEF OpenReport
      <3>2. CASE ReportWritten(r, f)
        BY <1>1, <3>2 DEF ReportWritten, Closes
      <3>3. CASE ReportFails(r, f)
        BY <1>1, <3>3 DEF ReportFails, Closes
      <3>4. QED BY <1>7, <3>1, <3>2, <3>3
    <2>3. DOMAIN output' = Projects /\ \A p \in Projects : DOMAIN output'[p] = Reports
      BY <1>1, <1>7 DEF OpenReport, ReportWritten, ReportFails
    <2>4. QED BY <1>2, <2>1, <2>2, <2>3, ReportKeeps
  <1>8. CASE FinishWell(r)
    BY <1>1, <1>2, <1>8, ReportKeeps DEF FinishWell, disk, report
  <1>9. CASE FinishBadly(r)
    BY <1>2, <1>5, <1>9 DEF FinishBadly
  <1>10. QED BY <1>4, <1>6, <1>7, <1>8, <1>9 DEF Conclude

LEMMA KillKeeps == ASSUME IInv, NEW r \in Slots, Kill(r) PROVE IInv'
  <1>1. WorkerTypes'
    BY Attempts DEF Kill, IInv, TypeOK, WorkerTypes
  <1>2. QED BY <1>1, EndKeeps DEF Kill, Of

-----------------------------------------------------------------------------
(* Theorems *)

LEMMA InitHolds == Init => IInv
  <1> SUFFICES ASSUME Init PROVE IInv
    OBVIOUS
  <1>1. TypeOK
    <2>1. 0 \in 0 .. MaxAttempts /\ 0 \in 0 .. 2 * MaxAttempts
      BY Attempts
    <2>2. QED BY <2>1 DEF Init, TypeOK, DiskTypes, ProcessTypes, WorkerTypes, HistoryTypes
  <1>2. EachDocumentOnce /\ DocumentPart /\ SlotPart /\ FreshPart
    BY DEF Init, EachDocumentOnce, DocumentPart, SlotPart, FreshPart, Running
  <1>3. WorkerPart /\ CachePart
    BY DEF Init, WorkerPart, CachePart
  <1>4. QED BY <1>1, <1>2, <1>3 DEF IInv

LEMMA NextKeeps == IInv /\ [Next]_vars => IInv'
  <1> SUFFICES ASSUME IInv, [Next]_vars PROVE IInv'
    OBVIOUS
  <1>1. CASE Next
    BY <1>1, StartKeeps, WorkKeeps, ConcludeKeeps, KillKeeps DEF Next
  <1>2. CASE UNCHANGED vars
    <2>1. UNCHANGED <<cache, output, process, todo, results, report, worker, history>>
      BY <1>2 DEF vars, disk
    <2>2. \A s, d : At(s, d)' = At(s, d) /\ (Usable(identity[s], d)' <=> Usable(identity[s], d))
      BY <2>1 DEF At, Of, worker, Usable, process
    <2>3. TypeOK'
      BY <2>1 DEF IInv, TypeOK, DiskTypes, ProcessTypes, WorkerTypes, HistoryTypes,
           process, report, worker, history
    <2>4. EachDocumentOnce'
      BY <2>1, <2>2 DEF IInv, EachDocumentOnce, process
    <2>5. FreshPart'
      BY <2>1, <2>2 DEF IInv, FreshPart, process, worker, history
    <2>6. WorkerPart' /\ DocumentPart' /\ SlotPart' /\ CachePart'
      BY <2>1 DEF IInv, WorkerPart, DocumentPart, SlotPart, CachePart, Own, process,
           worker, history
    <2>7. QED BY <2>3, <2>4, <2>5, <2>6 DEF IInv
  <1>3. QED BY <1>1, <1>2

LEMMA Invariant == Spec => []IInv
  BY InitHolds, NextKeeps, PTL DEF Spec

\* Types: above all, no question costs more than MaxAttempts calls, and no
\* document more than two questions.
THEOREM TypeCorrect == Spec => []TypeOK
  <1>1. IInv => TypeOK
    BY DEF IInv
  <1>2. QED BY <1>1, Invariant, PTL

\* mapConcurrent gives each document to one worker, and loses none.
THEOREM DocumentsAreShared == Spec => []EachDocumentOnce
  <1>1. IInv => EachDocumentOnce
    BY DEF IInv
  <1>2. QED BY <1>1, Invariant, PTL

\* What extractOne takes from the cache or from the LLM answers the question
\* that was asked: about this document, with this model and prompt.
THEOREM AnswersAreOwn == Spec => []OwnAnswers
  <1>1. IInv => OwnAnswers
    BY DEF IInv, DocumentPart, OwnAnswers, Own
  <1>2. QED BY <1>1, Invariant, PTL

\* The number of calls a run reports is the number it made.
THEOREM CallsAreReported == Spec => []CallsAreCounted
  <1>1. IInv => CallsAreCounted
    BY DEF IInv, DocumentPart, CallsAreCounted
  <1>2. QED BY <1>1, Invariant, PTL

\* A run that no other disturbs asks nothing that an earlier run has cached.
THEOREM ResumeAsksTheRest == Spec => []OnlyTheRest
  <1>1. IInv => OnlyTheRest
    BY DEF IInv, FreshPart, OnlyTheRest
  <1>2. QED BY <1>1, Invariant, PTL

-----------------------------------------------------------------------------
(* The reports *)

Writing == {"write", "done"}

\* From the moment its workers are done, a process has a result for each document, and
\* writes them where no other process can interfere if it is alone: an opened report is
\* empty, and one that is over holds what it should.
ReportsOf(r) ==
    /\ opened[r] \subseteq pending[r]
    /\ pc[r] # "write" => pending[r] = {} /\ opened[r] = {} /\ ~broken[r]
    /\ pc[r] \in Writing =>
         /\ project[r] \in Projects
         /\ todo[r] = {} /\ \A d \in wanted[r] : results[r][d] # None
    /\ pc[r] \in Writing /\ alone[r] =>
         /\ \A s \in Slots \ {r} : pc[s] \notin Running
         /\ \A f \in Reports :
              /\ f \in opened[r] => output[project[r]][f] = None
              /\ f \notin pending[r] /\ ~broken[r] => output[project[r]][f] = Content(r, f)

ReportPart == \A r \in Slots : ReportsOf(r)

\* A process that a step does not concern: it is as before, and its files are, or
\* another one is with it.
LEMMA ReportFrame ==
  ASSUME ReportPart, NEW q \in Slots,
         pc'[q] = pc[q], project'[q] = project[q], wanted'[q] = wanted[q], todo'[q] = todo[q],
         results'[q] = results[q], pending'[q] = pending[q], opened'[q] = opened[q],
         broken'[q] = broken[q],
         pc[q] \in Writing /\ alone'[q] =>
            /\ alone[q] /\ output'[project[q]] = output[project[q]]
            /\ \A s \in Slots \ {q} : pc'[s] \in Running => pc[s] \in Running
  PROVE  ReportsOf(q)'
  <1>1. \A f \in Reports : Content(q, f)' = Content(q, f)
    BY DEF Content, Extracted, Dangling
  <1>2. ReportsOf(q)
    BY DEF ReportPart
  <1>3. QED BY <1>1, <1>2 DEF ReportsOf

\* A worker leaves the files of reports alone, and its process is not writing yet.
LEMMA WorkReports == ASSUME IInv, ReportPart, NEW w \in Workers, Work(w) PROVE ReportPart'
  <1> DEFINE r == SlotOf[w]
  <1>1. r \in Slots /\ pc[r] = "infer"
    <2>1. pc[r] = "infer" \/ phase[w] # "free"
      BY DEF Work, Take, CacheHit, CacheMiss, CallFails, GivesUp, NeedsRepair, RepairFails,
             Answered, OpenEntry, Stored, StoreFails, Moves, Questions
    <2>2. QED BY <2>1, Slot DEF IInv, WorkerPart
  <1>2. UNCHANGED <<process, report, output, alone>>
    BY DEF Work, Take, CacheHit, CacheMiss, CallFails, GivesUp, NeedsRepair, RepairFails, Answered,
           OpenEntry, Stored, StoreFails, Returns, Calls, disk, history
  <1>3. \A q \in Slots \ {r} : results'[q] = results[q] /\ todo'[q] = todo[q]
    <2>1. UNCHANGED results \/ \E x : results' = [results EXCEPT ![r][doc[w]] = x]
      BY DEF Work, Take, CacheHit, CacheMiss, CallFails, GivesUp, NeedsRepair, RepairFails,
             Answered, OpenEntry, Stored, StoreFails, Returns, Calls
    <2>2. UNCHANGED todo \/ \E d \in DocIds : todo' = [todo EXCEPT ![r] = @ \ {d}]
      BY DEF Work, Take, CacheHit, CacheMiss, CallFails, GivesUp, NeedsRepair, RepairFails,
             Answered, OpenEntry, Stored, StoreFails, Returns, Calls
    <2>3. QED BY <2>1, <2>2 DEF IInv, TypeOK, ProcessTypes
  <1> SUFFICES ASSUME NEW q \in Slots PROVE ReportsOf(q)'
    BY DEF ReportPart
  <1>4. CASE q = r
    BY <1>1, <1>2, <1>4 DEF ReportPart, ReportsOf, Writing, process, report
  <1>5. CASE q # r
    BY <1>2, <1>3, <1>5, ReportFrame DEF process, report
  <1>6. QED BY <1>4, <1>5

\* A process that starts is not alone with the files of another, and one that ends has
\* nothing left to write.
LEMMA StartReports ==
  ASSUME IInv, ReportPart, NEW r \in Slots, NEW p \in Projects, NEW i \in Identity, NEW filter,
         Start(r, p, i, filter)
  PROVE  ReportPart'
  <1> SUFFICES ASSUME NEW q \in Slots PROVE ReportsOf(q)'
    BY DEF ReportPart
  <1>1. CASE q = r
    BY <1>1 DEF Start, report, ReportPart, ReportsOf, Running, Writing, IInv, TypeOK, ProcessTypes
  <1>2. CASE q # r
    <2>1. ~alone'[q]
      BY <1>2 DEF Start
    <2>2. /\ pc'[q] = pc[q] /\ project'[q] = project[q] /\ wanted'[q] = wanted[q]
          /\ todo'[q] = todo[q] /\ results'[q] = results[q] /\ UNCHANGED report
      BY <1>2 DEF Start, IInv, TypeOK, ProcessTypes
    <2>3. QED BY <2>1, <2>2, ReportFrame DEF report
  <1>3. QED BY <1>1, <1>2

LEMMA EndReports ==
  ASSUME IInv, ReportPart, NEW r \in Slots, NEW how \in {"failed", "killed"}, Ends(r, how)
  PROVE  ReportPart'
  <1> SUFFICES ASSUME NEW q \in Slots PROVE ReportsOf(q)'
    BY DEF ReportPart
  <1> USE DEF IInv, TypeOK, ProcessTypes, HistoryTypes
  <1>1. CASE q = r
    BY <1>1 DEF Ends, ReportsOf, Writing
  <1>2. CASE q # r
    <2>1. /\ pc'[q] = pc[q] /\ project'[q] = project[q] /\ wanted'[q] = wanted[q]
          /\ todo'[q] = todo[q] /\ results'[q] = results[q] /\ pending'[q] = pending[q]
          /\ opened'[q] = opened[q] /\ broken'[q] = broken[q] /\ alone'[q] = alone[q]
      BY <1>2 DEF Ends
    <2>2. UNCHANGED output /\ \A s \in Slots : pc'[s] \in Running => pc[s] \in Running
      BY DEF Ends, disk, Running
    <2>3. QED BY <2>1, <2>2, ReportFrame
  <1>3. QED BY <1>1, <1>2

\* The workers are done: there is a result for each document, and nothing is written.
LEMMA GatherReports == ASSUME IInv, ReportPart, NEW r \in Slots, Gather(r) PROVE ReportPart'
  <1> SUFFICES ASSUME NEW q \in Slots PROVE ReportsOf(q)'
    BY DEF ReportPart
  <1> USE DEF IInv, TypeOK, ProcessTypes
  <1>1. pc[r] \in Running /\ todo[r] = {} /\ \A d \in DocIds : At(r, d) = {}
    BY DEF Gather, WorkersDone, Running, At, Of
  <1>2. CASE q = r
    <2>1. /\ pc'[r] = "write" /\ pending'[r] = Reports /\ UNCHANGED <<opened, broken, output, alone>>
          /\ UNCHANGED <<project, wanted, todo, results>>
      BY DEF Gather, disk, history
    <2>2. opened[r] = {} /\ ~broken[r]
      BY DEF Gather, WorkersDone, ReportPart, ReportsOf
    <2>3. project[r] \in Projects /\ \A d \in wanted[r] : results[r][d] # None
      BY <1>1 DEF SlotPart, EachDocumentOnce
    <2>4. alone[r] => \A s \in Slots \ {r} : pc'[s] \notin Running
      BY <1>1 DEF FreshPart, Gather
    <2>5. QED BY <1>1, <1>2, <2>1, <2>2, <2>3, <2>4 DEF ReportsOf
  <1>3. CASE q # r
    <2>1. pc'[q] = pc[q] /\ pending'[q] = pending[q]
          /\ \A s \in Slots : pc'[s] \in Running => pc[s] \in Running
      BY <1>1, <1>3 DEF Gather
    <2>2. UNCHANGED <<project, wanted, todo, results, opened, broken, output, alone>>
      BY DEF Gather, disk, history
    <2>3. QED BY <2>1, <2>2, ReportFrame
  <1>4. QED BY <1>2, <1>3

\* Where nobody else writes, what is written to an empty file is there afterwards.
LEMMA WriteReports ==
  ASSUME IInv, ReportPart, NEW r \in Slots, NEW f \in Reports,
         OpenReport(r, f) \/ ReportWritten(r, f) \/ ReportFails(r, f)
  PROVE  ReportPart'
  <1> SUFFICES ASSUME NEW q \in Slots PROVE ReportsOf(q)'
    BY DEF ReportPart
  <1> USE DEF IInv, TypeOK, ProcessTypes, DiskTypes
  <1>1. pc[r] = "write" /\ UNCHANGED <<pc, project, wanted, todo, results, alone>>
    BY DEF OpenReport, ReportWritten, ReportFails, Closes, process, history
  <1>2. CASE q # r
    <2>1. pending'[q] = pending[q] /\ opened'[q] = opened[q] /\ broken'[q] = broken[q]
      BY <1>2 DEF OpenReport, ReportWritten, ReportFails, Closes
    <2>2. pc[q] \in Writing => ~alone[q]
      BY <1>1, <1>2 DEF ReportPart, ReportsOf, Running
    <2>3. QED BY <1>1, <2>1, <2>2, ReportFrame
  <1>3. CASE q = r
    <2>1. /\ project[r] \in Projects /\ opened[r] \subseteq pending[r]
          /\ todo[r] = {} /\ \A d \in wanted[r] : results[r][d] # None
          /\ alone[r] => \A s \in Slots \ {r} : pc[s] \notin Running
      BY <1>1 DEF ReportPart, ReportsOf, Writing
    <2>2. ASSUME alone[r], NEW g \in Reports
          PROVE  /\ g \in opened[r] => output[project[r]][g] = None
                 /\ g \notin pending[r] /\ ~broken[r] => output[project[r]][g] = Content(r, g)
      BY <1>1, <2>2 DEF ReportPart, ReportsOf, Writing
    <2>3. \A g \in Reports : Content(r, g)' = Content(r, g)
      BY <1>1 DEF Content, Extracted, Dangling
    <2>4. opened'[r] \subseteq pending'[r]
      BY <2>1 DEF OpenReport, ReportWritten, ReportFails, Closes
    <2>5. ASSUME alone[r], NEW g \in Reports
          PROVE  /\ g \in opened'[r] => output'[project[r]][g] = None
                 /\ g \notin pending'[r] /\ ~broken'[r] => output'[project[r]][g] = Content(r, g)
      <3>1. CASE OpenReport(r, f)
        BY <2>1, <2>2, <2>5, <3>1 DEF OpenReport
      <3>2. CASE ReportWritten(r, f)
        <4>1. output' = [output EXCEPT ![project[r]][f] = Content(r, f)]
          BY <2>2, <2>5, <3>2 DEF ReportWritten, Written
        <4>2. QED BY <2>1, <2>2, <2>5, <3>2, <4>1 DEF ReportWritten, Closes
      <3>3. CASE ReportFails(r, f)
        <4>1. broken'[r] /\ opened'[r] = opened[r] \ {f}
          BY <3>3 DEF ReportFails, Closes
        <4>2. \A h \in Reports \ {f} : output'[project[r]][h] = output[project[r]][h]
          BY <2>1, <3>3 DEF ReportFails
        <4>3. QED BY <2>2, <2>5, <4>1, <4>2
      <3>4. QED BY <3>1, <3>2, <3>3
    <2>6. QED BY <1>1, <1>3, <2>1, <2>3, <2>4, <2>5 DEF ReportsOf
  <1>4. QED BY <1>2, <1>3

LEMMA FinishReports == ASSUME IInv, ReportPart, NEW r \in Slots, FinishWell(r) PROVE ReportPart'
  <1> SUFFICES ASSUME NEW q \in Slots PROVE ReportsOf(q)'
    BY DEF ReportPart
  <1> USE DEF IInv, TypeOK, ProcessTypes
  <1>1. UNCHANGED <<project, wanted, todo, results, pending, opened, broken, output, alone>>
    BY DEF FinishWell, disk, report, history
  <1>2. \A s \in Slots : pc'[s] \in Running => pc[s] \in Running
    BY DEF FinishWell, Running
  <1>3. CASE q = r
    <2>1. pc[r] = "write" /\ pc'[r] = "done" /\ pending[r] = {} /\ ~broken[r] /\ ReportsOf(r)
      BY DEF FinishWell, ReportPart
    <2>2. \A f \in Reports : Content(r, f)' = Content(r, f)
      BY <1>1 DEF Content, Extracted, Dangling
    <2>3. QED BY <1>1, <1>2, <1>3, <2>1, <2>2 DEF ReportsOf, Writing
  <1>4. CASE q # r
    <2>1. pc'[q] = pc[q]
      BY <1>4 DEF FinishWell
    <2>2. QED BY <1>1, <1>2, <2>1, ReportFrame
  <1>5. QED BY <1>3, <1>4

LEMMA ReportsInvariant == Spec => []ReportPart
  <1>1. Init => ReportPart
    BY DEF Init, ReportPart, ReportsOf, Writing
  <1>2. IInv /\ ReportPart /\ [Next]_vars => ReportPart'
    <2> SUFFICES ASSUME IInv, ReportPart, [Next]_vars PROVE ReportPart'
      OBVIOUS
    <2>1. ASSUME NEW r \in Slots, Conclude(r) \/ Kill(r) PROVE ReportPart'
      BY <2>1, GatherReports, WriteReports, FinishReports, EndReports
         DEF Conclude, Fail, FinishBadly, Kill
    <2>2. CASE UNCHANGED vars
      BY <2>2, ReportFrame DEF ReportPart, vars, disk, process, report, history
    <2>3. QED BY <2>1, <2>2, WorkReports, StartReports DEF Next
  <1>3. QED BY <1>1, <1>2, Invariant, PTL DEF Spec

\* What a report may hold.
Contents ==
    UNION {SUBSET [doc : DocIds, rels : SUBSET (Endpoints \X Endpoints)],
           SUBSET DocIds,
           SUBSET (DocIds \X (Endpoints \X Endpoints))}

\* extractLlm: a run that ended well and that no other disturbed has written all three
\* files, and between them they account for every document and every relationship, for
\* any number of documents, workers and earlier runs that failed or were killed. (An
\* empty file and a torn one are no reports.)
THEOREM DocumentsAreAccounted ==
  ASSUME Reports = {"inferred", "failures", "dropped"}, None \notin Contents, Torn \notin Contents
  PROVE  Spec => []EveryDocumentAccounted
  <1>1. ASSUME IInv, ReportPart, NEW r \in Slots, pc[r] = "done", alone[r],
               NEW out, out = output[project[r]], NEW meant, meant = Index[project[r]]
        PROVE  /\ \A f \in Reports : out[f] \notin {None, Torn}
               /\ \A d \in wanted[r] :
                    IF results[r][d].extraction = None
                    THEN d \in out["failures"] /\ \A x \in out["inferred"] : x.doc # d
                    ELSE /\ d \notin out["failures"]
                         /\ \E x \in out["inferred"] :
                              /\ x.doc = d
                              /\ \A y \in results[r][d].extraction.rels :
                                   IF None \in {meant[y[1]], meant[y[2]]}
                                   THEN <<d, y>> \in out["dropped"]
                                   ELSE <<meant[y[1]], meant[y[2]]>> \in x.rels
    <2>1. /\ project[r] \in Projects /\ \A d \in wanted[r] : results[r][d] # None
          /\ out["inferred"] = Content(r, "inferred")
          /\ out["failures"] = Content(r, "failures")
          /\ out["dropped"] = Content(r, "dropped")
      BY <1>1 DEF ReportPart, ReportsOf, Writing
    <2>2. wanted[r] \subseteq DocIds
      BY <1>1 DEF IInv, TypeOK, ProcessTypes
    <2>3. ASSUME NEW d \in Extracted(r) PROVE results[r][d].extraction.rels \subseteq Endpoints \X Endpoints
      <3>1. results[r][d] \in Result /\ results[r][d].extraction # None
        BY <1>1, <2>2, <2>3 DEF Extracted, IInv, TypeOK, ProcessTypes
      <3>2. results[r][d].extraction \in Extraction
        BY <3>1 DEF Result
      <3>3. QED BY <3>2, ExtractorAssumption DEF Extraction
    <2> DEFINE Rels(d) == results[r][d].extraction.rels
               Kept(d) == [doc |-> d, rels |-> {<<meant[x[1]], meant[x[2]]>> :
                                                   x \in {y \in Rels(d) : ~Dangling(project[r], y)}}]
    <2>4. out["inferred"] = {Kept(d) : d \in Extracted(r)}
      BY <1>1, <2>1 DEF Content
    <2>5. out["failures"] = wanted[r] \ Extracted(r)
      BY <2>1 DEF Content
    <2>6. out["dropped"] =
            UNION {{<<d, x>> : x \in {y \in Rels(d) : Dangling(project[r], y)}} : d \in Extracted(r)}
      BY <2>1 DEF Content
    <2>7. out["inferred"] \in Contents
      <3>1. ASSUME NEW d \in Extracted(r), NEW x \in Rels(d), ~Dangling(project[r], x)
            PROVE  <<meant[x[1]], meant[x[2]]>> \in Endpoints \X Endpoints
        <4>1. x[1] \in Endpoints /\ x[2] \in Endpoints
          BY <2>3, <3>1
        <4>2. meant \in [Endpoints -> Endpoints \cup {None}]
          BY <1>1, <2>1, ExtractorAssumption
        <4>3. meant[x[1]] # None /\ meant[x[2]] # None
          BY <1>1, <3>1 DEF Dangling
        <4>4. QED BY <4>1, <4>2, <4>3
      <3>2. ASSUME NEW d \in Extracted(r)
            PROVE  Kept(d) \in [doc : DocIds, rels : SUBSET (Endpoints \X Endpoints)]
        <4>1. {<<meant[x[1]], meant[x[2]]>> : x \in {y \in Rels(d) : ~Dangling(project[r], y)}}
                  \in SUBSET (Endpoints \X Endpoints)
          BY <3>1, <3>2
        <4>2. d \in DocIds
          BY <2>2, <3>2 DEF Extracted
        <4>3. QED BY <4>1, <4>2
      <3>3. QED BY <2>4, <3>2 DEF Contents
    <2>8. out["failures"] \in Contents
      BY <2>2, <2>5 DEF Contents
    <2>9. out["dropped"] \in Contents
      <3>1. out["dropped"] \subseteq DocIds \X (Endpoints \X Endpoints)
        BY <2>2, <2>3, <2>6 DEF Extracted
      <3>2. QED BY <3>1 DEF Contents
    <2>10. \A f \in Reports : out[f] \notin {None, Torn}
      BY <2>7, <2>8, <2>9
    <2>11. ASSUME NEW d \in wanted[r], results[r][d].extraction = None
           PROVE  d \in out["failures"] /\ \A x \in out["inferred"] : x.doc # d
      <3>1. d \notin Extracted(r)
        BY <2>11 DEF Extracted
      <3>2. QED BY <2>4, <2>5, <2>11, <3>1
    <2>12. ASSUME NEW d \in wanted[r], results[r][d].extraction # None
           PROVE  /\ d \notin out["failures"]
                  /\ \E x \in out["inferred"] :
                        /\ x.doc = d
                        /\ \A y \in Rels(d) :
                             IF None \in {meant[y[1]], meant[y[2]]}
                             THEN <<d, y>> \in out["dropped"]
                             ELSE <<meant[y[1]], meant[y[2]]>> \in x.rels
      <3>1. d \in Extracted(r)
        BY <2>1, <2>12 DEF Extracted
      <3>2. ASSUME NEW y \in Rels(d)
            PROVE  IF None \in {meant[y[1]], meant[y[2]]}
                   THEN <<d, y>> \in out["dropped"]
                   ELSE <<meant[y[1]], meant[y[2]]>> \in Kept(d).rels
        <4>1. CASE Dangling(project[r], y)
          BY <1>1, <2>6, <3>1, <3>2, <4>1 DEF Dangling
        <4>2. CASE ~Dangling(project[r], y)
          BY <1>1, <3>2, <4>2 DEF Dangling
        <4>3. QED BY <4>1, <4>2
      <3>3. Kept(d) \in out["inferred"] /\ Kept(d).doc = d
        BY <2>4, <3>1
      <3> HIDE DEF Kept, Rels
      <3>4. QED BY <2>5, <3>1, <3>2, <3>3
    <2>13. QED BY <2>10, <2>11, <2>12
  <1>2. IInv /\ ReportPart => EveryDocumentAccounted
    BY <1>1 DEF EveryDocumentAccounted
  <1>3. QED BY <1>2, Invariant, ReportsInvariant, PTL

=============================================================================
