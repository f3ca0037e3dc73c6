-------------------------- MODULE LlmAdapters_proofs --------------------------
(***************************************************************************)
(* Proofs about LlmAdapters: an application with any number of calls over  *)
(* any of its transports.                                                  *)
(*                                                                         *)
(* An execution of the application is one of the client of AppServerClient *)
(* whose peer keeps to its role (ClientPart), so what is proved there of   *)
(* every environment holds here.  LifeInv relates where start() or close() *)
(* is to the codex process; PieceInv relates what was written for a call   *)
(* to what it read, returned and was told.                                 *)
(***************************************************************************)
EXTENDS LlmAdapters, AppServerClient_proofs

-----------------------------------------------------------------------------
(* The client inside the application.                                       *)

\* What a step of the application does to the client is a step of the client:
\* the adapter calls it or leaves it alone.
LEMMA ClientPart == AdaptersSpec => Spec
<1>1. AdaptersInit => Init
  BY DEF AdaptersInit
<1>2. [AdaptersNext]_adapterVars => [Next]_vars
  <2>1. ClientStep => Next
    BY DEF ClientStep, Next
  <2>2. LifeNext => Next \/ UNCHANGED vars
    BY <2>1 DEF LifeNext, Grows, Exits, Launch, CannotLaunch, ReadAddress, Probe, Connect, GiveUp,
                Grace, Reaped, Goes, Uses, CloseTransport, Signalled, CannotListen, Dies, Next
  <2> QED
    BY <2>2 DEF AdaptersNext, Resident, PerCall, adapterVars
<1> QED  BY <1>1, <1>2, PTL DEF AdaptersSpec, Spec

\* A resident transport leaves nothing in the client that waits for what cannot
\* come, whatever codex does and whenever it is closed (complete(), close()).
THEOREM AdaptersLeaveNothingStuck == AdaptersSpec => []NothingStuck
<1> QED  BY ClientPart, NothingIsStuck, PTL

\* The calls over a resident transport are calls of LlmTransport, from the first
\* start() to the end of the process, and do not fail or finish one another.
THEOREM AdaptersImplementTransport == AdaptersSpec => ImplementsTransport /\ CallsAreIsolated
<1> QED  BY ClientPart, ClientImplementsTransport, ConcurrentCallsAreIsolated, PTL

-----------------------------------------------------------------------------
(* The steps of a call of its own.                                          *)

\* What a step of a call of its own does to it.
Begins(c) == Direct!Request(c) \/ Direct!Accepted(c) \/ Direct!Refused(c) \/ Direct!Spawn(c)

GivesUp(c) == stage[c] \in Direct!Running \cup {"idle"} /\ Direct!Fails(c)

Finishes(c) ==
    /\ stage[c] \in {"stream", "child"} /\ ending[c] \in {"completed", "cut"}
    /\ Direct!Drained(c) /\ Direct!Returns(c)

Lingers(c) ==
    /\ stage[c] = "child" /\ Direct!Moves(c, "late")
    /\ UNCHANGED <<got, answer, ending>>

Ends(c) ==
    /\ ending[c] = "running"
    /\ \E v \in {"completed", "cut", "failed"} : ending' = [ending EXCEPT ![c] = v]
    /\ UNCHANGED <<app, transport, stage, got, answer, written>>
    /\ down \in BOOLEAN => down' \in BOOLEAN

CallEffect(c) ==
    \/ Begins(c) \/ GivesUp(c) \/ Finishes(c) \/ Lingers(c)
    \/ Direct!Reads(c) \/ Direct!Speaks(c) \/ Ends(c)

\* Whatever its transport, the step of a call has one of seven effects.
LEMMA CallEffects == ASSUME Direct!DirectNext PROVE \E c \in Calls : CallEffect(c)
<1> USE DEF CallEffect
<1>1. ASSUME NEW c \in Calls,
             Direct!NoCredentials(c) \/ Direct!Unauthorized(c) \/ Direct!ErrorSummary(c)
               \/ Direct!StreamBreaks(c) \/ Direct!CannotSpawn(c)
      PROVE  GivesUp(c)
  BY <1>1 DEF GivesUp, Direct!NoCredentials, Direct!Unauthorized, Direct!ErrorSummary,
              Direct!StreamBreaks, Direct!CannotSpawn, Direct!Running
<1>2. ASSUME NEW c \in Calls, Direct!Closes(c) PROVE GivesUp(c) \/ Finishes(c)
  BY <1>2 DEF GivesUp, Finishes, Direct!Closes, Direct!StreamEnds, Direct!CliCloses, Direct!Running
<1>3. ASSUME NEW c \in Calls, Direct!Timeout(c) PROVE GivesUp(c) \/ Lingers(c)
  BY <1>3 DEF GivesUp, Lingers, Direct!Timeout, Direct!Running
<1>4. ASSUME NEW c \in Calls, NEW v \in {"completed", "cut", "failed"}, Direct!Concludes(c, v)
      PROVE  Ends(c)
  BY <1>4 DEF Ends, Direct!Concludes
<1>5. ASSUME NEW c \in Calls, NEW v \in {"completed", "failed"}, NEW read \in BOOLEAN,
             Direct!CliExits(c, v, read)
      PROVE  Ends(c)
  BY <1>5 DEF Ends, Direct!CliExits
<1> QED  BY <1>1, <1>2, <1>3, <1>4, <1>5 DEF Direct!DirectNext, Begins

\* The calls of their own do not touch which application and transport it is.
LEMMA CallFrame ==
    ASSUME Direct!DirectNext PROVE UNCHANGED <<app, transport>> /\ (down \in BOOLEAN => down' \in BOOLEAN)
<1>1. PICK c \in Calls : CallEffect(c)
  BY CallEffects
<1> QED
  BY <1>1 DEF CallEffect, Begins, GivesUp, Finishes, Lingers, Ends, Direct!Request, Direct!Accepted,
              Direct!Refused, Direct!Spawn, Direct!Reads, Direct!Speaks, Direct!Fails,
              Direct!Returns, Direct!Moves

-----------------------------------------------------------------------------
(* The codex process.                                                       *)

\* A transport of its own has no process to stop. A resident one has had its process
\* from the moment it was launched, and gave up on it only when it was gone.
LifeInv ==
    /\ LifeTypeOK
    /\ transport # "app-server" => start = "up" /\ child = "none"
    /\ start = "spawn" => child = "none"
    /\ transport = "app-server" /\ start \notin {"spawn", "failed"} => child # "none"
    /\ ServerReaped

\* Every step of start(), of close() and of the process keeps to that.
LEMMA LifeStep == ASSUME LifeInv, [AdaptersNext]_adapterVars PROVE LifeInv'
<1> USE DEF LifeInv, LifeTypeOK, ServerReaped, Existing
<1>1. CASE PerCall
  BY <1>1, CallFrame DEF PerCall
<1>2. CASE Resident
  <2>1. UNCHANGED transport /\ transport = "app-server" /\ LifeNext
    BY <1>2 DEF Resident
  <2>2. CASE Grows \/ Exits \/ Launch \/ CannotLaunch \/ ReadAddress \/ Probe \/ Connect
    BY <2>1, <2>2 DEF Grows, Exits, Launch, CannotLaunch, ReadAddress, Probe, Connect, Goes
  <2>3. CASE GiveUp \/ Grace \/ Reaped \/ CloseTransport
    BY <2>1, <2>3 DEF GiveUp, Grace, Reaped, CloseTransport, KillChild, Goes
  <2>4. CASE Uses \/ Signalled \/ CannotListen
    BY <2>1, <2>4 DEF Uses, Signalled, CannotListen, Dies, lifeVars
  <2> QED  BY <2>1, <2>2, <2>3, <2>4 DEF LifeNext
<1>3. CASE UNCHANGED adapterVars
  BY <1>3 DEF adapterVars, lifeVars
<1> QED  BY <1>1, <1>2, <1>3 DEF AdaptersNext

\* start() does not reject and close() does not resolve before codex is gone, for
\* every order in which codex announces itself, answers, hangs and exits
\* (llm.adapter.ts:107).
THEOREM NoServerIsLeftBehind == AdaptersSpec => []ServerReaped
<1>1. AdaptersInit => LifeInv
  BY DEF AdaptersInit, LifeInv, LifeTypeOK, ServerReaped, Existing
<1>2. LifeInv => ServerReaped
  BY DEF LifeInv
<1> QED  BY <1>1, <1>2, LifeStep, PTL DEF AdaptersSpec

-----------------------------------------------------------------------------
(* The pieces of an answer.                                                 *)

PieceTypes ==
    /\ app \in {"api", "pipeline"}
    /\ stage \in [Calls -> Direct!Running \cup {"idle", "ok", "failed"}]
    /\ ending \in [Calls -> {"absent", "running", "completed", "cut", "failed"}]
    /\ written \in [Calls -> 0..MaxPieces]
    /\ got \in [Calls -> Seq(Calls \X Nat)]
    /\ answer \in [Calls -> Seq(Calls \X Nat)]

\* The first n pieces of the answer to a call.
Prefix(c, n) == [k \in 1..n |-> <<c, k>>]

\* A call has read a prefix of what was written to it, and what it returned is all of
\* that; nobody writes before there is a connection or a process.
PieceOf(c) ==
    /\ got[c] = Prefix(c, Len(got[c])) /\ Len(got[c]) <= written[c]
    /\ ending[c] = "absent" => written[c] = 0
    /\ stage[c] \in {"idle", "request", "body"} => ending[c] = "absent"
    /\ stage[c] \in {"stream", "child", "late"} => ending[c] # "absent"
    /\ stage[c] = "ok" =>
          ending[c] \in {"completed", "cut"} /\ answer[c] = Prefix(c, written[c])

PieceInv == PieceTypes /\ \A c \in Calls : PieceOf(c)

\* A piece that is read is the next one.
LEMMA NextPiece ==
    ASSUME NEW c \in Calls, NEW s \in Seq(Calls \X Nat), s = Prefix(c, Len(s))
    PROVE  /\ Append(s, <<c, Len(s) + 1>>) \in Seq(Calls \X Nat)
           /\ Append(s, <<c, Len(s) + 1>>) = Prefix(c, Len(s) + 1)
           /\ Len(Append(s, <<c, Len(s) + 1>>)) = Len(s) + 1
<1>1. Len(s) \in Nat
  OBVIOUS
<1> QED  BY <1>1 DEF Prefix

\* The types of the calls.
LEMMA PieceTypeStep == ASSUME PieceInv, Direct!DirectNext PROVE PieceTypes'
<1> USE AdaptersAssumption DEF PieceTypes
<1>1. PICK c \in Calls : CallEffect(c)
  BY CallEffects
<1>2. CASE Begins(c)
  BY <1>2 DEF PieceInv, Begins, Direct!Request, Direct!Accepted, Direct!Refused, Direct!Spawn,
              Direct!Moves, Direct!Running
<1>3. CASE GivesUp(c) \/ Lingers(c)
  BY <1>3 DEF PieceInv, GivesUp, Lingers, Direct!Fails, Direct!Moves, Direct!Running
<1>4. CASE Finishes(c)
  BY <1>4 DEF PieceInv, Finishes, Direct!Returns, Direct!Moves
<1>5. CASE Direct!Reads(c)
  <2>1. Append(got[c], <<c, Len(got[c]) + 1>>) \in Seq(Calls \X Nat)
    BY NextPiece DEF PieceInv, PieceOf
  <2> QED  BY <1>5, <2>1 DEF PieceInv, Direct!Reads, Direct!Moves
<1>6. CASE Direct!Speaks(c)
  BY <1>6 DEF PieceInv, Direct!Speaks
<1>7. CASE Ends(c)
  BY <1>7 DEF PieceInv, Ends
<1> QED  BY <1>1, <1>2, <1>3, <1>4, <1>5, <1>6, <1>7 DEF CallEffect

\* Every step of a call of its own keeps its pieces in order and whole.
LEMMA PieceStep == ASSUME PieceInv, [AdaptersNext]_adapterVars PROVE PieceInv'
<1>1. CASE UNCHANGED <<app, stage, got, answer, written, ending>>
  BY <1>1 DEF PieceInv, PieceTypes, PieceOf
<1>2. CASE Resident
  <2>1. UNCHANGED app
    BY <1>2 DEF Resident, LifeNext, Grows, Exits, Launch, CannotLaunch, ReadAddress, Probe, Connect,
                GiveUp, Grace, Reaped, Goes, Uses, lifeVars, CloseTransport, Signalled,
                CannotListen, Dies
  <2> QED  BY <1>1, <1>2, <2>1 DEF Resident
<1>3. CASE Direct!DirectNext
  <2>1. PICK c \in Calls : CallEffect(c)
    BY <1>3, CallEffects
  <2>2. PieceTypes'
    BY <1>3, PieceTypeStep
  <2> SUFFICES ASSUME NEW d \in Calls PROVE PieceOf(d)'
    BY <2>2 DEF PieceInv
  <2> USE AdaptersAssumption DEF PieceInv, PieceTypes, PieceOf
  <2>3. CASE Begins(c)
    BY <2>3 DEF Begins, Direct!Request, Direct!Accepted, Direct!Refused, Direct!Spawn, Direct!Moves
  <2>4. CASE GivesUp(c) \/ Lingers(c)
    BY <2>4 DEF GivesUp, Lingers, Direct!Fails, Direct!Moves
  <2>5. CASE Finishes(c)
    BY <2>5 DEF Finishes, Direct!Returns, Direct!Moves, Direct!Drained
  <2>6. CASE Direct!Reads(c)
    <3>1. /\ UNCHANGED <<answer, written, ending>>
          /\ stage' = [stage EXCEPT ![c] = stage[c]]
          /\ stage[c] \in {"stream", "child", "late"} /\ Len(got[c]) # written[c]
          /\ got' = [got EXCEPT ![c] = Append(got[c], <<c, Len(got[c]) + 1>>)]
      BY <2>6 DEF Direct!Reads, Direct!Moves, Direct!Drained
    <3>2. CASE d # c
      BY <3>1, <3>2
    <3>3. CASE d = c
      <4>1. got'[c] = Prefix(c, Len(got'[c])) /\ Len(got'[c]) = Len(got[c]) + 1
        BY <3>1, NextPiece
      <4>2. Len(got[c]) \in Nat /\ written[c] \in Nat
        OBVIOUS
      <4>3. Len(got[c]) + 1 <= written[c]
        BY <3>1, <4>2
      <4>4. /\ stage'[c] = stage[c] /\ ending'[c] = ending[c]
            /\ written'[c] = written[c] /\ answer'[c] = answer[c]
        BY <3>1
      <4> QED  BY <3>1, <3>3, <4>1, <4>3, <4>4
    <3> QED  BY <3>2, <3>3
  <2>7. CASE Direct!Speaks(c)
    <3>1. Len(got[d]) \in Nat
      OBVIOUS
    <3> QED  BY <2>7, <3>1 DEF Direct!Speaks
  <2>8. CASE Ends(c)
    BY <2>8 DEF Ends
  <2> QED  BY <2>1, <2>3, <2>4, <2>5, <2>6, <2>7, <2>8 DEF CallEffect
<1> QED  BY <1>1, <1>2, <1>3 DEF AdaptersNext, PerCall, adapterVars, lifeVars

\* The pieces are in order and whole in every state.
THEOREM PiecesInvariance == AdaptersSpec => []PieceInv
<1>1. AdaptersInit => PieceInv
  BY AdaptersAssumption DEF AdaptersInit, Direct!Begin, PieceInv, PieceTypes, PieceOf, Prefix
<1> QED  BY <1>1, PieceStep, PTL DEF AdaptersSpec

\* The states of the lifecycle and of the calls, for any number of calls, and no call
\* reads a piece twice or one that was not written (Reads, Speaks).
THEOREM AdaptersTypeCorrect == AdaptersSpec => []AdaptersTypeOK
<1>1. AdaptersInit => LifeInv
  BY DEF AdaptersInit, LifeInv, LifeTypeOK, ServerReaped, Existing
<1>2. LifeInv /\ PieceInv => AdaptersTypeOK
  BY AdaptersAssumption DEF LifeInv, PieceInv, PieceTypes, PieceOf, AdaptersTypeOK,
                            Direct!DirectTypeOK
<1> QED  BY <1>1, <1>2, LifeStep, PiecesInvariance, PTL DEF AdaptersSpec

-----------------------------------------------------------------------------
(* The calls of their own as calls of LlmTransport.                         *)

\* Every step of such a call is a step of LlmTransport, or changes nothing that its
\* caller can see.
LEMMA DirectSimulates ==
    ASSUME PieceInv, [AdaptersNext]_adapterVars
    PROVE  [Direct!Calling!Next]_(Direct!Calling!callVars)
<1> USE DEF Direct!Calling!callVars, Direct!Running
<1>1. CASE UNCHANGED <<stage, answer, written, ending>>
  BY <1>1 DEF Direct!Status, Direct!Verdict
<1>2. CASE Direct!DirectNext
  <2>1. PICK c \in Calls : CallEffect(c)
    BY <1>2, CallEffects
  <2>2. PieceOf(c) /\ PieceTypes
    BY DEF PieceInv
  <2> USE DEF PieceTypes
  <2>3. CASE Begins(c)
    <3>1. /\ UNCHANGED <<answer, written>>
          /\ \/ stage[c] = "idle" /\ \E to \in Direct!Running : stage' = [stage EXCEPT ![c] = to]
             \/ stage[c] = "request"
                /\ \E to \in {"body", "stream"} : stage' = [stage EXCEPT ![c] = to]
          /\ UNCHANGED ending \/ (ending[c] = "absent" /\ ending' = [ending EXCEPT ![c] = "running"])
      BY <2>2, <2>3 DEF PieceOf, Begins, Direct!Request, Direct!Accepted, Direct!Refused,
                        Direct!Spawn, Direct!Moves
    <3>2. UNCHANGED Direct!Verdict
      BY <2>2, <3>1 DEF Direct!Verdict
    <3>3. CASE stage[c] = "idle"
      <4>1. Direct!Status[c] = "idle" /\ Direct!Status' = [Direct!Status EXCEPT ![c] = "running"]
        BY <2>2, <3>1, <3>3 DEF Direct!Status
      <4> QED  BY <3>1, <3>2, <4>1 DEF Direct!Calling!Next, Direct!Calling!Start
    <3>4. CASE stage[c] = "request"
      <4>1. UNCHANGED Direct!Status
        BY <2>2, <3>1, <3>4 DEF Direct!Status
      <4> QED  BY <3>1, <3>2, <4>1
    <3> QED  BY <3>1, <3>3, <3>4
  <2>4. CASE GivesUp(c)
    <3>1. UNCHANGED <<answer, written, Direct!Verdict>> /\ stage' = [stage EXCEPT ![c] = "failed"]
      BY <2>4 DEF GivesUp, Direct!Fails, Direct!Moves, Direct!Verdict
    <3>2. CASE stage[c] = "idle"
      <4>1. Direct!Status[c] = "idle" /\ Direct!Status' = [Direct!Status EXCEPT ![c] = "failed"]
        BY <2>2, <3>1, <3>2 DEF Direct!Status
      <4> QED  BY <3>1, <4>1 DEF Direct!Calling!Next, Direct!Calling!Refuse
    <3>3. CASE stage[c] # "idle"
      <4>1. /\ Direct!Status[c] = "running"
            /\ Direct!Status' = [d \in Calls |-> IF d \in {c} THEN "failed" ELSE Direct!Status[d]]
        BY <2>2, <2>4, <3>1, <3>3 DEF GivesUp, Direct!Status
      <4>2. Direct!Calling!Fail({c})
        BY <3>1, <4>1 DEF Direct!Calling!Fail
      <4> QED  BY <3>1, <4>2 DEF Direct!Calling!Next
    <3> QED  BY <3>2, <3>3
  <2>5. CASE Finishes(c)
    <3>1. /\ Direct!Verdict[c] = "completed" /\ UNCHANGED <<written, Direct!Verdict>>
          /\ Direct!Status[c] = "running"
          /\ Direct!Status' = [Direct!Status EXCEPT ![c] = "ok"]
      BY <2>2, <2>5 DEF Finishes, Direct!Returns, Direct!Moves, Direct!Verdict, Direct!Status
    <3>2. answer' = [answer EXCEPT ![c] = Direct!Calling!Answer(c)]
      BY <2>2, <2>5 DEF PieceOf, Prefix, Finishes, Direct!Returns, Direct!Drained,
                        Direct!Calling!Answer
    <3> QED  BY <3>1, <3>2 DEF Direct!Calling!Next, Direct!Calling!Succeed
  <2>6. CASE Lingers(c) \/ Direct!Reads(c)
    <3>1. UNCHANGED <<answer, written, Direct!Verdict>>
      BY <2>6 DEF Lingers, Direct!Reads, Direct!Moves, Direct!Verdict
    <3>2. UNCHANGED Direct!Status
      BY <2>2, <2>6 DEF Lingers, Direct!Reads, Direct!Moves, Direct!Status
    <3> QED  BY <3>1, <3>2
  <2>7. CASE Direct!Speaks(c)
    <3>1. UNCHANGED <<answer, Direct!Verdict, Direct!Status>>
      BY <2>7 DEF Direct!Speaks, Direct!Verdict, Direct!Status
    <3>2. Direct!Status[c] \in {"running", "failed"} /\ Direct!Verdict[c] = "none"
      BY <2>2, <2>7 DEF PieceOf, Direct!Speaks, Direct!Verdict, Direct!Status
    <3> QED  BY <2>7, <3>1, <3>2 DEF Direct!Speaks, Direct!Calling!Next, Direct!Calling!Speak
  <2>8. CASE Ends(c)
    <3>1. PICK v \in {"completed", "cut", "failed"} : ending' = [ending EXCEPT ![c] = v]
      BY <2>8 DEF Ends
    <3> DEFINE w == IF v = "cut" THEN "completed" ELSE v
    <3>2. UNCHANGED <<answer, written, Direct!Status>>
      BY <2>8 DEF Ends, Direct!Status
    <3>3. Direct!Verdict[c] = "none" /\ Direct!Verdict' = [Direct!Verdict EXCEPT ![c] = w]
      BY <2>2, <2>8, <3>1 DEF Ends, Direct!Verdict
    <3>4. Direct!Status[c] \in {"running", "failed"}
      BY <2>2, <2>8 DEF PieceOf, Ends, Direct!Status
    <3>5. Direct!Calling!Judge(c, w)
      BY <3>2, <3>3, <3>4 DEF Direct!Calling!Judge
    <3>6. Direct!Calling!Fail({})
      BY <3>2 DEF Direct!Calling!Fail, Direct!Status
    <3>7. w \in {"completed", "failed"}
      OBVIOUS
    <3> HIDE DEF w
    <3> QED  BY <3>5, <3>6, <3>7 DEF Direct!Calling!Next
  <2> QED  BY <2>1, <2>3, <2>4, <2>5, <2>6, <2>7, <2>8 DEF CallEffect
<1> QED  BY <1>1, <1>2 DEF AdaptersNext, Resident, PerCall, adapterVars

\* A call over the Responses endpoint or `claude -p` settles once, and returns all that
\* was written to it, in order, and only after its end (responses.client.ts,
\* llm-cli.ts), with any number of calls at the same time.
THEOREM DirectCallsImplementTransport == AdaptersSpec => DirectCallsAnswer
<1>1. AdaptersInit => Direct!Calling!Init
  BY DEF AdaptersInit, Direct!Begin, Direct!Calling!Init, Direct!Status, Direct!Verdict,
         Direct!Running
<1> QED
  BY <1>1, DirectSimulates, PiecesInvariance, PTL
     DEF AdaptersSpec, DirectCallsAnswer, Direct!Calling!Spec
===============================================================================
