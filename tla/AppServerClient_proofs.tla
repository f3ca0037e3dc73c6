----------------------- MODULE AppServerClient_proofs -----------------------
(***************************************************************************)
(* Proofs about AppServerClient, for any set of calls, any bound on the    *)
(* text and both modes of Node (unless a theorem says otherwise).          *)
(*                                                                         *)
(* IInv is the inductive invariant.  Its parts speak of one call or of one *)
(* request in flight: who awaits which request (AwaitInv), what is         *)
(* registered for a call (TurnInv), whom a request in flight will wake     *)
(* (InboxInv), the server's turn against the collected text (ServerInv),   *)
(* what close() left (QuietInv) and what a raced call owes (RacedInv).     *)
(* One lemma per part shows that every step preserves it; TransportStep    *)
(* shows that every step is a step of LlmTransport.                        *)
(***************************************************************************)
EXTENDS AppServerClient, TLAPS

Early == {"idle", "initialize", "startThread", "thread"}
Turned == {"turn", "race"} \cup Settled

MethodAt(where) == CASE where = "initialize" -> "initialize"
                     [] where = "thread" -> "thread/start"
                     [] OTHER -> "turn/start"

\* Who awaits what: one call per request, except for the shared handshake.
AwaitInv ==
    /\ \A c \in Calls : pc[c] \in Waiting => awaits[c] \in pendingRequests
    /\ \A c \in Calls : pc[c] \notin Waiting => awaits[c] = 0
    /\ \A c, d \in Calls :
          awaits[c] # 0 /\ awaits[c] = awaits[d] =>
              c = d \/ (pc[c] = "initialize" /\ pc[d] = "initialize")
    /\ \A c \in Calls :
          awaits[c] # 0 /\ awaits[c] = initializing => pc[c] = "initialize"

\* A registered turn is unsettled, and its call is in the middle of it.
TurnOf(c) ==
    /\ c \in pendingTurns =>
          pc[c] \in {"turn", "race"} /\ completion[c] = "pending" /\ threadId[c] = c
    /\ pc[c] = "race" => c \in pendingTurns /\ timeout[c] = "pending" /\ turnId[c] \in {c, None}
    /\ pc[c] = "turn" =>
          /\ completion[c] = "pending" => c \in pendingTurns
          /\ completion[c] # "none"
          /\ timeout[c] # "none"
          /\ turnId[c] = None
          /\ threadId[c] = c
    /\ pc[c] \in Early => chunks[c] = <<>> /\ turnId[c] = None /\ completion[c] = "none"

TurnInv == \A c \in Calls : TurnOf(c)

\* A request in flight belongs to the call that awaits its answer.
Addressed(r) ==
    /\ \A c \in Calls : awaits[c] = r.id =>
          /\ r.method = MethodAt(pc[c])
          /\ pc[c] # "initialize" => c = r.subject
    /\ r.method = "turn/start" => pc[r.subject] \in Turned
    /\ r.method = "turn/interrupt" => pc[r.subject] = "failed"
    /\ r.method # "initialize" => r.id # initializing

InboxInv == \A r \in inbox : Addressed(r)

\* The server's turn of a call against the text collected for it.
ServedTurn(c) ==
    /\ serverTurn[c] # "absent" => pc[c] \in Turned
    /\ serverTurn[c] = "absent" => said[c] = 0
    /\ c \in pendingTurns =>
          serverTurn[c] \in {"absent", "running"} /\ chunks[c] = Written(c)
    /\ completion[c] = "resolved" =>
          serverTurn[c] = "completed" /\ chunks[c] = Written(c)
    /\ pc[c] = "ok" =>
          serverTurn[c] = "completed" /\ text[c] = Written(c)

ServerInv == \A c \in Calls : ServedTurn(c)

QuietInv ==
    closed => /\ conn # "open" /\ pendingRequests = {} /\ pendingTurns = {}
              /\ \A c \in Calls : pc[c] # "startThread"

\* A call that raced has a turn on the server.  Where unhandled rejections end
\* the process, its timer can only have fired during the race.
RacedCall(c) ==
    /\ pc[c] = "race" => c \in raced
    /\ c \in raced => pc[c] \in {"race"} \cup Settled /\ serverTurn[c] # "absent"
    /\ ThrowOnUnhandled /\ c \in raced /\ timeout[c] = "rejected" /\ conn = "open" =>
          \/ serverTurn[c] # "running" \/ turnId[c] = None
          \/ \E r \in inbox : r.method = "turn/interrupt" /\ r.subject = c

RacedInv == \A c \in Calls : RacedCall(c)

IInv ==
    TypeOK /\ AwaitInv /\ TurnInv /\ InboxInv /\ ServerInv /\ QuietInv /\ RacedInv
    /\ HandshakeNotStuck

-----------------------------------------------------------------------------
(* Types.                                                                  *)

\* The fields of the calls keep their types.
LEMMA CallTypeStep == ASSUME TypeOK, [Next]_vars PROVE CallTypes'
<1> USE DEF TypeOK, CallTypes, Waiting, Settled, callVars, turnVars, serverVars
<1>1. ASSUME NEW c \in Calls, Complete(c) PROVE CallTypes'
  <2>1. initializing \in Nat /\ nextRequestId \in Nat
    BY DEF RequestTypes
  <2> QED
    BY <1>1, <2>1 DEF Complete, RefuseCall, BeginHandshake, JoinHandshake, FindHandshake
<1>2. ASSUME NEW c \in Calls, StartThread(c) PROVE CallTypes'
  BY <1>2 DEF StartThread, RequestTypes
<1>3. ASSUME NEW r \in inbox, InitializeResult(r) PROVE CallTypes'
  BY <1>3 DEF InitializeResult
<1>4. ASSUME NEW r \in inbox, ThreadStartResult(r) PROVE CallTypes'
  BY <1>4 DEF ThreadStartResult, RegisterTurn, RequestTypes, Awaiting
<1>5. ASSUME NEW r \in inbox, TurnStartResult(r) PROVE CallTypes'
  BY <1>5 DEF TurnStartResult, EnterRace, RaceOutcome, TurnTypes, Awaiting
<1>6. ASSUME NEW r \in inbox, ErrorResponse(r) PROVE CallTypes'
  BY <1>6 DEF ErrorResponse, RejectRequest, Settle
<1>7. ASSUME NEW r \in inbox, LateResponse(r) PROVE CallTypes'
  BY <1>7 DEF LateResponse
<1>8. ASSUME NEW r \in inbox, InterruptResponse(r) PROVE CallTypes'
  BY <1>8 DEF InterruptResponse
<1>9. ASSUME NEW r \in inbox, ServerStartsTurn(r) PROVE CallTypes'
  BY <1>9 DEF ServerStartsTurn
<1>10. ASSUME NEW c \in Calls, HandleDelta(c) PROVE CallTypes'
  BY <1>10 DEF HandleDelta
<1>11. ASSUME NEW c \in Calls, NEW s \in {"completed", "failed"}, HandleCompleted(c, s)
       PROVE  CallTypes'
  BY <1>11 DEF HandleCompleted, Outcome, TurnTypes
<1>12. ASSUME NEW id \in pendingRequests, RequestTimeout(id) PROVE CallTypes'
  BY <1>12 DEF RequestTimeout, RejectRequest, Settle
<1>13. ASSUME NEW c \in Calls, TurnTimeout(c) PROVE CallTypes'
  BY <1>13 DEF TurnTimeout
<1>14. ASSUME Close \/ HandleTransportClosed PROVE CallTypes'
  BY <1>14 DEF Close, HandleTransportClosed, RejectPending, Settle
<1>15. ASSUME ProcessCrash \/ UNCHANGED vars PROVE CallTypes'
  BY <1>15 DEF ProcessCrash, vars
<1> QED
  BY <1>1, <1>2, <1>3, <1>4, <1>5, <1>6, <1>7, <1>8, <1>9, <1>10, <1>11, <1>12, <1>13,
     <1>14, <1>15 DEF Next, Respond, Notify, RequestTimer

\* The registered turns keep their types.
LEMMA TurnTypeStep == ASSUME TypeOK, [Next]_vars PROVE TurnTypes'
<1> USE DEF TypeOK, TurnTypes, turnVars
<1>1. ASSUME UNCHANGED <<pendingTurns, turnVars>> PROVE TurnTypes'
  BY <1>1
<1>4. ASSUME NEW r \in inbox, ThreadStartResult(r) PROVE TurnTypes'
  BY <1>4 DEF ThreadStartResult, RegisterTurn, RequestTypes, Awaiting
<1>5. ASSUME NEW r \in inbox, TurnStartResult(r) PROVE TurnTypes'
  BY <1>5 DEF TurnStartResult, EnterRace, RequestTypes, Awaiting
<1>6. ASSUME NEW id \in pendingRequests, RejectRequest(id), UNCHANGED turnVars
      PROVE  TurnTypes'
  BY <1>6 DEF RejectRequest
<1>10. ASSUME NEW c \in Calls, HandleDelta(c) PROVE TurnTypes'
  <2>1. <<c, said[c] + 1>> \in Calls \X Nat
    BY DEF ServerTypes
  <2> QED  BY <1>10, <2>1 DEF HandleDelta
<1>11. ASSUME NEW c \in Calls, NEW s \in {"completed", "failed"}, HandleCompleted(c, s)
       PROVE  TurnTypes'
  BY <1>11 DEF HandleCompleted
<1>13. ASSUME NEW c \in Calls, TurnTimeout(c) PROVE TurnTypes'
  BY <1>13 DEF TurnTimeout
<1>14. ASSUME Close \/ HandleTransportClosed PROVE TurnTypes'
  BY <1>14 DEF Close, HandleTransportClosed, RejectPending
<1> QED
  BY <1>1, <1>4, <1>5, <1>6, <1>10, <1>11, <1>13, <1>14
     DEF Next, Respond, Notify, RequestTimer, Complete, StartThread, InitializeResult,
         ErrorResponse, LateResponse, InterruptResponse, ServerStartsTurn, RequestTimeout,
         ProcessCrash, vars, callVars

\* What request() does: a new id, registered, and at most one new request in
\* flight, which carries that id.
LEMMA IssueFacts ==
    ASSUME RequestTypes, NEW waiting \in SUBSET pendingRequests, NEW box \in SUBSET inbox,
           NEW method \in Methods, NEW subject \in Calls,
           Issue(waiting, box, method, subject)
    PROVE  /\ nextRequestId' = nextRequestId + 1
           /\ nextRequestId' \in Nat \ {0}
           /\ pendingRequests' = waiting \cup {nextRequestId}
           /\ pendingRequests' \subseteq 1 .. nextRequestId' - 1
           /\ inbox' \subseteq [id : 1 .. nextRequestId' - 1, method : Methods, subject : Calls]
           /\ \A r \in inbox' :
                r \in box \/ (r.id = nextRequestId /\ r.method = method /\ r.subject = subject)
<1> DEFINE n == nextRequestId
           new == Request(n, method, subject)
           Below(k) == [id : 1 .. k - 1, method : Methods, subject : Calls]
<1>1. n \in Nat \ {0} /\ waiting \subseteq 1 .. n - 1 /\ box \subseteq Below(n)
  BY DEF RequestTypes
<1>2. /\ nextRequestId' = n + 1 /\ pendingRequests' = waiting \cup {n}
      /\ inbox' \subseteq box \cup {new}
  BY DEF Issue, Transmit
<1>3. new \in Below(n + 1) /\ new.id = n /\ new.method = method /\ new.subject = subject
  BY <1>1 DEF Request
<1>4. \A r \in Below(n) : r \in Below(n + 1)
  BY <1>1
<1>5. inbox' \subseteq Below(n + 1)
  BY <1>1, <1>2, <1>3, <1>4
<1> QED  BY <1>1, <1>2, <1>3, <1>5

\* request() keeps the types of the requests.
LEMMA IssueTypes ==
    ASSUME RequestTypes, NEW waiting \in SUBSET pendingRequests, NEW box \in SUBSET inbox,
           NEW method \in Methods, NEW subject \in Calls,
           Issue(waiting, box, method, subject),
           initializing' \in {initializing, nextRequestId}, handshakes' = handshakes
    PROVE  RequestTypes'
<1>1. /\ nextRequestId \in Nat \ {0} /\ nextRequestId' = nextRequestId + 1
      /\ initializing \in 0 .. nextRequestId - 1 /\ handshakes \subseteq 1 .. nextRequestId - 1
  BY IssueFacts DEF RequestTypes
<1>2. initializing' \in 0 .. nextRequestId' - 1 /\ handshakes' \subseteq 1 .. nextRequestId' - 1
  BY <1>1
<1> QED  BY <1>1, <1>2, IssueFacts DEF RequestTypes

\* Request ids in use stay below nextRequestId.
LEMMA RequestTypeStep == ASSUME TypeOK, TurnInv, [Next]_vars PROVE RequestTypes'
<1> DEFINE R == /\ nextRequestId \in Nat \ {0} /\ handshakes \subseteq 1 .. nextRequestId - 1
                /\ initializing \in 0 .. nextRequestId - 1
<1>0. RequestTypes /\ R
  BY DEF TypeOK, RequestTypes
<1>1. ASSUME nextRequestId' = nextRequestId, pendingRequests' \subseteq pendingRequests,
             inbox' \subseteq inbox, handshakes' = handshakes, initializing' \in {0, initializing}
      PROVE  RequestTypes'
  BY <1>1 DEF TypeOK, RequestTypes
<1>2. ASSUME NEW c \in Calls, Complete(c) PROVE RequestTypes'
  <2>1. CASE BeginHandshake(c)
    <3>1. Issue(pendingRequests, inbox, "initialize", c) /\ initializing' = nextRequestId
          /\ handshakes' = handshakes
      BY <1>2, <2>1 DEF BeginHandshake, Complete, serverVars
    <3> QED  BY <1>0, <3>1, IssueTypes DEF Methods
  <2> QED
    BY <1>1, <1>2, <2>1 DEF Complete, RefuseCall, JoinHandshake, FindHandshake, serverVars
<1>3. ASSUME NEW c \in Calls, StartThread(c) PROVE RequestTypes'
  <2>1. Issue(pendingRequests, inbox, "thread/start", c) /\ UNCHANGED <<initializing, handshakes>>
    BY <1>3 DEF StartThread, serverVars
  <2> QED  BY <1>0, <2>1, IssueTypes DEF Methods
<1>4. ASSUME NEW r \in inbox, ThreadStartResult(r) PROVE RequestTypes'
  <2>1. /\ Issue(pendingRequests \ {r.id}, inbox \ {r}, "turn/start", r.subject)
        /\ UNCHANGED <<initializing, handshakes>> /\ r.subject \in Calls
    BY <1>0, <1>4 DEF ThreadStartResult, serverVars, RequestTypes
  <2> QED  BY <1>0, <2>1, IssueTypes DEF Methods
<1>5. ASSUME NEW c \in Calls, TurnTimeout(c) PROVE RequestTypes'
  <2>1. UNCHANGED <<initializing, handshakes>>
    BY <1>5 DEF TurnTimeout, serverVars
  <2>2. CASE turnId[c] # None
    <3>1. Issue(pendingRequests, inbox, "turn/interrupt", threadId[c]) /\ threadId[c] \in Calls
      BY <1>5, <2>2 DEF TurnTimeout, Interrupt, TurnInv, TurnOf
    <3> QED  BY <1>0, <2>1, <3>1, IssueTypes DEF Methods
  <2>3. CASE turnId[c] = None
    BY <1>1, <1>5, <2>1, <2>3 DEF TurnTimeout, Interrupt
  <2> QED  BY <2>2, <2>3
<1>6. ASSUME NEW r \in inbox, InitializeResult(r) PROVE RequestTypes'
  BY <1>0, <1>6 DEF InitializeResult, RequestTypes
<1> QED
  BY <1>1, <1>2, <1>3, <1>4, <1>5, <1>6
     DEF Next, Respond, Notify, RequestTimer, TurnStartResult, ErrorResponse, LateResponse,
         InterruptResponse, ServerStartsTurn, HandleDelta, HandleCompleted, RequestTimeout,
         RejectRequest, Settle, CacheWithout, Close, HandleTransportClosed, RejectPending,
         ProcessCrash, vars, serverVars

\* The connection and the server keep their types.
LEMMA ServerTypeStep == ASSUME TypeOK, [Next]_vars PROVE ServerTypes'
<1> USE DEF TypeOK, ServerTypes
<1>1. ASSUME NEW r \in inbox, InterruptResponse(r) PROVE ServerTypes'
  BY <1>1 DEF InterruptResponse
<1>2. ASSUME NEW r \in inbox, ServerStartsTurn(r) PROVE ServerTypes'
  BY <1>2 DEF ServerStartsTurn
<1>3. ASSUME NEW c \in Calls, HandleDelta(c) PROVE ServerTypes'
  BY <1>3 DEF HandleDelta
<1>4. ASSUME NEW c \in Calls, NEW s \in {"completed", "failed"}, HandleCompleted(c, s)
      PROVE  ServerTypes'
  BY <1>4 DEF HandleCompleted
<1> QED
  BY <1>1, <1>2, <1>3, <1>4
     DEF Next, Respond, Notify, RequestTimer, Complete, StartThread, InitializeResult,
         ThreadStartResult, TurnStartResult, ErrorResponse, LateResponse, RequestTimeout,
         TurnTimeout, Close, HandleTransportClosed, ProcessCrash, vars, serverVars

\* Ids in use are older than nextRequestId.

-----------------------------------------------------------------------------
(* The parts of the inductive invariant.                                   *)

\* Ids in use are older than nextRequestId, and 0 is not an id.
LEMMA FreshId ==
    ASSUME TypeOK, AwaitInv
    PROVE  /\ nextRequestId \notin pendingRequests /\ nextRequestId # 0
           /\ nextRequestId # initializing
           /\ \A c \in Calls : awaits[c] # nextRequestId
           /\ \A r \in inbox : r.id # nextRequestId /\ r.id # 0
<1>1. /\ nextRequestId \in Nat \ {0} /\ pendingRequests \subseteq 1 .. nextRequestId - 1
      /\ initializing \in 0 .. nextRequestId - 1
      /\ \A r \in inbox : r.id \in 1 .. nextRequestId - 1
  BY DEF TypeOK, RequestTypes
<1>2. \A c \in Calls : awaits[c] \in pendingRequests \cup {0}
  BY DEF AwaitInv, TypeOK, CallTypes
<1> QED  BY <1>1, <1>2

\* Settling requests leaves nobody awaiting them.
LEMMA SettleAwait ==
    ASSUME TypeOK, AwaitInv, NEW ids, NEW losers, Settle(ids, losers),
           Awaiting(ids) \subseteq losers,
           \A c \in losers : c \in Awaiting(ids) \/ pc[c] = "race",
           initializing' \in {0, initializing}
    PROVE  AwaitInv'
<1> DEFINE woken == Awaiting(ids)
<1>1. /\ \A c \in Calls : awaits'[c] = IF c \in woken THEN 0 ELSE awaits[c]
      /\ \A c \in Calls : pc'[c] = IF c \in losers THEN "failed" ELSE pc[c]
      /\ pendingRequests' = pendingRequests \ ids
  BY DEF Settle
<1>2. \A c \in Calls \ woken : awaits[c] # 0 => awaits[c] \notin ids
  BY DEF Awaiting
<1>3. /\ \A c \in Calls : pc[c] \in Waiting => awaits[c] \in pendingRequests
      /\ \A c \in Calls : pc[c] \notin Waiting => awaits[c] = 0
      /\ 0 \notin pendingRequests
  BY DEF AwaitInv, TypeOK, RequestTypes
<1>4. \A c \in Calls : pc'[c] \in Waiting => awaits'[c] \in pendingRequests'
  BY <1>1, <1>2, <1>3 DEF Waiting
<1>5. \A c \in Calls : pc'[c] \notin Waiting => awaits'[c] = 0
  BY <1>1, <1>3 DEF Waiting
<1>6. \A c \in Calls : awaits'[c] # 0 =>
          awaits'[c] = awaits[c] /\ (pc[c] = "initialize" => pc'[c] = "initialize")
  BY <1>1, <1>3, <1>5 DEF Waiting, Awaiting
<1> QED  BY <1>4, <1>5, <1>6 DEF AwaitInv

\* Every step keeps AwaitInv.
LEMMA AwaitStep == ASSUME TypeOK, AwaitInv, TurnInv, InboxInv, [Next]_vars PROVE AwaitInv'
<1> USE DEF Waiting
<1>1. ASSUME UNCHANGED <<pc, awaits, pendingRequests, initializing>> PROVE AwaitInv'
  BY <1>1 DEF AwaitInv
<1>2. ASSUME NEW c \in Calls, Complete(c) PROVE AwaitInv'
  <2>1. CASE RefuseCall(c)
    BY <1>2, <2>1 DEF Complete, RefuseCall, AwaitInv, TypeOK, CallTypes
  <2>2. CASE BeginHandshake(c)
    <3>1. pendingRequests' = pendingRequests \cup {nextRequestId}
      BY <2>2 DEF BeginHandshake, Issue
    <3> QED
      BY <1>2, <2>2, <3>1, FreshId DEF Complete, BeginHandshake, AwaitInv, TypeOK, CallTypes
  <2>3. CASE JoinHandshake(c)
    BY <1>2, <2>3 DEF Complete, JoinHandshake, AwaitInv, TypeOK, CallTypes
  <2>4. CASE FindHandshake(c)
    BY <1>2, <2>4 DEF Complete, FindHandshake, AwaitInv, TypeOK, CallTypes
  <2> QED  BY <1>2, <2>1, <2>2, <2>3, <2>4 DEF Complete
<1>3. ASSUME NEW c \in Calls, StartThread(c) PROVE AwaitInv'
  <2>1. pendingRequests' = pendingRequests \cup {nextRequestId}
    BY <1>3 DEF StartThread, Issue
  <2> QED  BY <1>3, <2>1, FreshId DEF StartThread, AwaitInv, TypeOK, CallTypes
<1>4. ASSUME NEW r \in inbox, InitializeResult(r) PROVE AwaitInv'
  <2> DEFINE woken == Awaiting({r.id})
  <2>1. /\ \A d \in Calls : pc'[d] = IF d \in woken THEN "startThread" ELSE pc[d]
        /\ \A d \in Calls : awaits'[d] = IF d \in woken THEN 0 ELSE awaits[d]
        /\ pendingRequests' = pendingRequests \ {r.id} /\ UNCHANGED initializing
    <3>1. r.id \in pendingRequests \/ woken = {}
      BY FreshId DEF Awaiting, AwaitInv
    <3> QED  BY <1>4, <3>1 DEF InitializeResult
  <2>2. \A d \in Calls \ woken : awaits[d] # r.id
    BY FreshId DEF Awaiting
  <2> QED  BY <2>1, <2>2 DEF AwaitInv
<1>5. ASSUME NEW r \in inbox, ThreadStartResult(r) PROVE AwaitInv'
  <2>1. pendingRequests' = (pendingRequests \ {r.id}) \cup {nextRequestId}
    BY <1>5 DEF ThreadStartResult, Issue
  <2>2. PICK c \in Awaiting({r.id}) : /\ awaits' = [awaits EXCEPT ![c] = nextRequestId]
                                     /\ pc' = [pc EXCEPT ![c] = "turn"]
    BY <1>5 DEF ThreadStartResult
  <2>3. c \in Calls /\ awaits[c] = r.id /\ pc[c] # "initialize" /\ UNCHANGED initializing
    BY <1>5, <2>2 DEF Awaiting, InboxInv, Addressed, MethodAt, ThreadStartResult
  <2>4. \A d \in Calls \ {c} : awaits[d] # r.id
    BY <2>3, FreshId DEF AwaitInv
  <2> QED  BY <2>1, <2>2, <2>3, <2>4, FreshId DEF AwaitInv, TypeOK, CallTypes
<1>6. ASSUME NEW r \in inbox, TurnStartResult(r) PROVE AwaitInv'
  <2>1. pendingRequests' = pendingRequests \ {r.id} /\ UNCHANGED initializing
    BY <1>6 DEF TurnStartResult
  <2>2. PICK c \in Awaiting({r.id}) : /\ awaits' = [awaits EXCEPT ![c] = 0]
                                     /\ pc' = [pc EXCEPT ![c] = RaceOutcome(c)]
    BY <1>6 DEF TurnStartResult, EnterRace
  <2>3. c \in Calls /\ awaits[c] = r.id /\ pc[c] # "initialize" /\ RaceOutcome(c) \notin Waiting
    BY <1>6, <2>2 DEF Awaiting, InboxInv, Addressed, MethodAt, TurnStartResult, RaceOutcome
  <2>4. \A d \in Calls \ {c} : awaits[d] # r.id
    BY <2>3, FreshId DEF AwaitInv
  <2> QED  BY <2>1, <2>2, <2>3, <2>4 DEF AwaitInv, TypeOK, CallTypes
<1>7. ASSUME NEW id, RejectRequest(id) PROVE AwaitInv'
  BY <1>7, SettleAwait DEF RejectRequest, CacheWithout
<1>8. ASSUME NEW r \in inbox, InterruptResponse(r) PROVE AwaitInv'
  <2>1. \A c \in Calls : awaits[c] # r.id
    BY <1>8 DEF InterruptResponse, InboxInv, Addressed, MethodAt
  <2> QED  BY <1>8, <2>1 DEF InterruptResponse, callVars, AwaitInv
<1>9. ASSUME NEW c \in Calls, NEW s \in {"completed", "failed"}, HandleCompleted(c, s)
      PROVE  AwaitInv'
  BY <1>9 DEF HandleCompleted, AwaitInv, TypeOK, CallTypes
<1>10. ASSUME NEW c \in Calls, TurnTimeout(c) PROVE AwaitInv'
  <2>1. pendingRequests \subseteq pendingRequests' /\ UNCHANGED <<awaits, initializing>>
    BY <1>10 DEF TurnTimeout, Interrupt, Issue
  <2> QED  BY <1>10, <2>1 DEF TurnTimeout, AwaitInv, TypeOK, CallTypes
<1>11. ASSUME Close \/ HandleTransportClosed PROVE AwaitInv'
  BY <1>11, SettleAwait DEF Close, HandleTransportClosed, RejectPending, CacheWithout
<1> QED
  BY <1>1, <1>2, <1>3, <1>4, <1>5, <1>6, <1>7, <1>8, <1>9, <1>10, <1>11
     DEF Next, Respond, Notify, RequestTimer, ErrorResponse, LateResponse, ServerStartsTurn,
         HandleDelta, RequestTimeout, ProcessCrash, vars, callVars

\* Every step keeps TurnInv.
LEMMA TurnStep == ASSUME TypeOK, AwaitInv, TurnInv, InboxInv, [Next]_vars PROVE TurnInv'
<1> SUFFICES ASSUME NEW d \in Calls PROVE TurnOf(d)'
  BY DEF TurnInv
<1> USE ClientAssumption DEF Waiting, Settled, Early, turnVars
<1>0. TurnOf(d)
  BY DEF TurnInv
<1>1. ASSUME UNCHANGED <<pendingTurns, completion, timeout, turnVars>>,
             pc'[d] = pc[d] \/ (pc[d] \in Early /\ pc'[d] \in Early \cup {"failed"})
      PROVE  TurnOf(d)'
  BY <1>0, <1>1 DEF TurnOf
<1>2. ASSUME NEW c \in Calls, Complete(c) PROVE TurnOf(d)'
  BY <1>1, <1>2 DEF Complete, RefuseCall, BeginHandshake, JoinHandshake, FindHandshake,
                    TypeOK, CallTypes
<1>3. ASSUME NEW c \in Calls, StartThread(c) PROVE TurnOf(d)'
  BY <1>1, <1>3 DEF StartThread, TypeOK, CallTypes
<1>4. ASSUME NEW r \in inbox, InitializeResult(r) PROVE TurnOf(d)'
  <2>1. \A c \in Calls : pc'[c] = pc[c] \/ (awaits[c] = r.id /\ pc'[c] = "startThread")
    BY <1>4 DEF InitializeResult, Awaiting
  <2>2. \A c \in Calls : awaits[c] = r.id => pc[c] = "initialize"
    BY <1>4, FreshId DEF InitializeResult, InboxInv, Addressed, MethodAt, AwaitInv
  <2> QED  BY <1>1, <1>4, <2>1, <2>2 DEF InitializeResult
<1>5. ASSUME NEW r \in inbox, ThreadStartResult(r) PROVE TurnOf(d)'
  <2>1. PICK c \in Awaiting({r.id}) :
          RegisterTurn(c, r.subject) /\ pc' = [pc EXCEPT ![c] = "turn"]
    BY <1>5 DEF ThreadStartResult
  <2>2. c \in Calls /\ r.subject = c /\ pc[c] = "thread"
    BY <1>5, <2>1, FreshId DEF Awaiting, ThreadStartResult, InboxInv, Addressed, MethodAt, AwaitInv
  <2> QED  BY <1>0, <2>1, <2>2 DEF RegisterTurn, TurnOf, TypeOK, CallTypes, TurnTypes
<1>6. ASSUME NEW r \in inbox, TurnStartResult(r) PROVE TurnOf(d)'
  <2>1. PICK c \in Awaiting({r.id}), turn \in {r.subject, None} : EnterRace(c, turn)
    BY <1>6 DEF TurnStartResult
  <2>2. c \in Calls /\ r.subject = c /\ pc[c] = "turn"
    BY <1>6, <2>1, FreshId DEF Awaiting, TurnStartResult, InboxInv, Addressed, MethodAt, AwaitInv
  <2>3. RaceOutcome(c) \in {"ok", "failed", "race"}
        /\ (RaceOutcome(c) = "race" <=> completion[c] = "pending" /\ timeout[c] = "pending")
    BY <2>2 DEF RaceOutcome, TurnInv, TurnOf, TypeOK, CallTypes
  <2> QED  BY <1>0, <2>1, <2>2, <2>3 DEF EnterRace, TurnOf, TypeOK, CallTypes, TurnTypes
<1>7. ASSUME NEW id, RejectRequest(id), UNCHANGED <<completion, timeout, turnVars>>
      PROVE  TurnOf(d)'
  <2>1. \A c \in Calls : pc'[c] = IF c \in Awaiting({id}) THEN "failed" ELSE pc[c]
    BY <1>7 DEF RejectRequest, Settle
  <2> QED  BY <1>0, <1>7, <2>1 DEF RejectRequest, TurnOf
<1>8. ASSUME NEW c \in Calls, HandleDelta(c) PROVE TurnOf(d)'
  <2>1. pc[d] \in Early => chunks'[d] = chunks[d]
    BY <1>0, <1>8 DEF HandleDelta, FindTurn, TurnOf
  <2> QED  BY <1>0, <1>8, <2>1 DEF HandleDelta, callVars, TurnOf
<1>9. ASSUME NEW c \in Calls, NEW s \in {"completed", "failed"}, HandleCompleted(c, s)
      PROVE  TurnOf(d)'
  <2> DEFINE found == FindTurn(c, c)
  <2>1. /\ pendingTurns' = pendingTurns \ found /\ found \subseteq pendingTurns
        /\ completion'[d] = IF d \in found THEN Outcome(s) ELSE completion[d]
        /\ pc'[d] = pc[d] \/ (d \in found /\ pc'[d] \in Settled)
        /\ d \in found /\ pc[d] = "race" => pc'[d] \in Settled
        /\ UNCHANGED <<timeout, turnVars>>
    BY <1>9 DEF HandleCompleted, FindTurn, TypeOK, TurnTypes
  <2>2. Outcome(s) \notin {"none", "pending"}
    BY DEF Outcome
  <2> QED  BY <1>0, <2>1, <2>2 DEF TurnOf
<1>10. ASSUME NEW c \in Calls, TurnTimeout(c) PROVE TurnOf(d)'
  BY <1>0, <1>10 DEF TurnTimeout, TurnOf, TypeOK, CallTypes
<1>11. ASSUME Close \/ HandleTransportClosed PROVE TurnOf(d)'
  <2> DEFINE losers == Awaiting(pendingRequests) \cup {c \in pendingTurns : pc[c] = "race"}
  <2>1. /\ pc'[d] = IF d \in losers THEN "failed" ELSE pc[d]
        /\ d \notin pendingTurns => completion'[d] = completion[d]
        /\ pendingTurns' = {} /\ UNCHANGED turnVars
    BY <1>11 DEF Close, HandleTransportClosed, RejectPending, Settle
  <2>2. pc[d] \in {"turn", "race"} => d \in losers
    BY <1>0 DEF AwaitInv, TurnOf, Awaiting, TypeOK, RequestTypes
  <2> QED  BY <1>0, <2>1, <2>2 DEF TurnOf
<1> QED
  BY <1>1, <1>2, <1>3, <1>4, <1>5, <1>6, <1>7, <1>8, <1>9, <1>10, <1>11
     DEF Next, Respond, Notify, RequestTimer, ErrorResponse, LateResponse, InterruptResponse,
         ServerStartsTurn, RequestTimeout, ProcessCrash, vars, callVars

\* Every step keeps InboxInv.
LEMMA InboxStep == ASSUME TypeOK, AwaitInv, TurnInv, InboxInv, [Next]_vars PROVE InboxInv'
<1> USE DEF Waiting, Settled, Early, Turned
<1>1. ASSUME inbox' \subseteq inbox, initializing' \in {0, initializing},
             \A c \in Calls :
                /\ awaits'[c] # 0 => awaits'[c] = awaits[c] /\ pc'[c] = pc[c]
                /\ pc[c] \in Turned => pc'[c] \in Turned
                /\ pc[c] = "failed" => pc'[c] = "failed"
      PROVE  InboxInv'
  <2> SUFFICES ASSUME NEW r \in inbox PROVE Addressed(r)'
    BY <1>1 DEF InboxInv
  <2>1. r.id # 0 /\ r.subject \in Calls /\ Addressed(r)
    BY FreshId DEF InboxInv, TypeOK, RequestTypes
  <2> QED  BY <1>1, <2>1 DEF Addressed
<1>2. ASSUME NEW box \in SUBSET inbox, NEW waiting \in SUBSET pendingRequests,
             NEW method \in Methods, NEW c \in Calls, Issue(waiting, box, method, c),
             \A d \in Calls \ {c} :
                pc'[d] = pc[d] /\ awaits'[d] = awaits[d],
             initializing' = initializing \/ (method = "initialize" /\ initializing' = nextRequestId),
             \/ awaits'[c] = nextRequestId /\ method = MethodAt(pc'[c])
             \/ awaits'[c] = awaits[c] /\ awaits[c] = 0,
             method = "turn/start" => pc'[c] \in Turned,
             method = "turn/interrupt" => pc'[c] = "failed",
             pc[c] \in Turned => pc'[c] \in Turned,
             pc[c] # "failed"
      PROVE  InboxInv'
  <2> SUFFICES ASSUME NEW r \in inbox' PROVE Addressed(r)'
    BY DEF InboxInv
  <2>1. CASE r \in box
    <3>1. /\ r.id # 0 /\ r.subject \in Calls /\ Addressed(r) /\ r.id # nextRequestId
      BY <2>1, FreshId DEF InboxInv, TypeOK, RequestTypes
    <3> QED  BY <1>2, <3>1 DEF Addressed
  <2>2. CASE r.id = nextRequestId /\ r.method = method /\ r.subject = c
    BY <1>2, <2>2, FreshId DEF Addressed
  <2>3. r \in box \/ (r.id = nextRequestId /\ r.method = method /\ r.subject = c)
    BY <1>2 DEF Issue, Transmit, Request
  <2> QED  BY <2>1, <2>2, <2>3
<1>3. ASSUME NEW c \in Calls, Complete(c) PROVE InboxInv'
  <2>1. CASE RefuseCall(c)
    BY <1>1, <1>3, <2>1 DEF Complete, RefuseCall, TypeOK, CallTypes, AwaitInv
  <2>2. CASE BeginHandshake(c)
    BY <1>2, <1>3, <2>2 DEF Complete, BeginHandshake, TypeOK, CallTypes, MethodAt, Methods
  <2>3. CASE JoinHandshake(c)
    <3> SUFFICES ASSUME NEW r \in inbox PROVE Addressed(r)'
      BY <2>3 DEF JoinHandshake, InboxInv
    <3>1. r.id # 0 /\ r.subject \in Calls /\ Addressed(r)
      BY FreshId DEF InboxInv, TypeOK, RequestTypes
    <3> QED
      BY <1>3, <2>3, <3>1 DEF Complete, JoinHandshake, Addressed, MethodAt, TypeOK, CallTypes
  <2>4. CASE FindHandshake(c)
    BY <1>1, <1>3, <2>4 DEF Complete, FindHandshake, TypeOK, CallTypes, AwaitInv
  <2> QED  BY <1>3, <2>1, <2>2, <2>3, <2>4 DEF Complete
<1>4. ASSUME NEW c \in Calls, StartThread(c) PROVE InboxInv'
  BY <1>2, <1>4 DEF StartThread, TypeOK, CallTypes, MethodAt, Methods
<1>5. ASSUME NEW r \in inbox, InitializeResult(r) PROVE InboxInv'
  <2>1. \A c \in Calls : \/ awaits'[c] = 0 /\ pc'[c] = "startThread" /\ awaits[c] = r.id
                         \/ awaits'[c] = awaits[c] /\ pc'[c] = pc[c]
    BY <1>5 DEF InitializeResult, Awaiting
  <2>2. \A c \in Calls : awaits[c] = r.id => pc[c] = "initialize"
    BY <1>5, FreshId DEF InitializeResult, InboxInv, Addressed, MethodAt, AwaitInv
  <2> QED  BY <1>1, <1>5, <2>1, <2>2 DEF InitializeResult
<1>6. ASSUME NEW r \in inbox, ThreadStartResult(r) PROVE InboxInv'
  <2>1. PICK c \in Awaiting({r.id}) :
          /\ Issue(pendingRequests \ {r.id}, inbox \ {r}, "turn/start", r.subject)
          /\ awaits' = [awaits EXCEPT ![c] = nextRequestId]
          /\ pc' = [pc EXCEPT ![c] = "turn"]
    BY <1>6 DEF ThreadStartResult
  <2>2. c \in Calls /\ r.subject = c /\ pc[c] = "thread"
    BY <1>6, <2>1, FreshId DEF Awaiting, ThreadStartResult, InboxInv, Addressed, MethodAt, AwaitInv
  <2> QED
    BY <1>2, <1>6, <2>1, <2>2 DEF ThreadStartResult, TypeOK, CallTypes, MethodAt, Methods
<1>7. ASSUME NEW r \in inbox, TurnStartResult(r) PROVE InboxInv'
  <2>1. PICK c \in Awaiting({r.id}), turn \in {r.subject, None} :
          EnterRace(c, turn) /\ awaits' = [awaits EXCEPT ![c] = 0]
    BY <1>7 DEF TurnStartResult
  <2>2. c \in Calls /\ pc[c] = "turn" /\ RaceOutcome(c) \in Turned
    BY <1>7, <2>1, FreshId DEF Awaiting, TurnStartResult, InboxInv, Addressed, MethodAt, AwaitInv,
                               RaceOutcome
  <2> QED  BY <1>1, <1>7, <2>1, <2>2 DEF TurnStartResult, EnterRace, TypeOK, CallTypes
<1>8. ASSUME NEW ids, NEW losers, Settle(ids, losers), inbox' \subseteq inbox,
             Awaiting(ids) \subseteq losers, initializing' \in {0, initializing},
             \A c \in losers : c \in Awaiting(ids) \/ pc[c] = "race"
      PROVE  InboxInv'
  <2>1. \A c \in Calls : \/ pc'[c] = pc[c] /\ awaits'[c] = awaits[c]
                         \/ pc'[c] = "failed" /\ awaits'[c] = 0
    BY <1>8 DEF Settle, AwaitInv
  <2> QED  BY <1>1, <1>8, <2>1
<1>9. ASSUME NEW c \in Calls, NEW s \in {"completed", "failed"}, HandleCompleted(c, s)
      PROVE  InboxInv'
  <2>1. \A d \in Calls : pc'[d] = pc[d] \/ (pc[d] = "race" /\ pc'[d] \in Settled)
    BY <1>9 DEF HandleCompleted
  <2> QED  BY <1>1, <1>9, <2>1 DEF HandleCompleted, AwaitInv
<1>10. ASSUME NEW c \in Calls, TurnTimeout(c) PROVE InboxInv'
  <2>1. CASE turnId[c] = None
    <3>1. inbox' = inbox /\ UNCHANGED <<awaits, initializing>>
      BY <1>10, <2>1 DEF TurnTimeout, Interrupt
    <3>2. \A d \in Calls :
            pc'[d] = pc[d] \/ (pc[d] = "race" /\ pc'[d] = "failed" /\ awaits[d] = 0)
      BY <1>10 DEF TurnTimeout, AwaitInv, TypeOK, CallTypes
    <3> QED  BY <1>1, <3>1, <3>2
  <2>2. CASE turnId[c] # None
    <3>1. pc[c] = "race" /\ threadId[c] = c /\ awaits[c] = 0
      BY <1>10, <2>2 DEF TurnTimeout, TurnInv, TurnOf, AwaitInv
    <3> QED
      BY <1>2, <1>10, <2>2, <3>1 DEF TurnTimeout, Interrupt, TypeOK, CallTypes, Methods
  <2> QED  BY <2>1, <2>2
<1>11. ASSUME Close \/ HandleTransportClosed PROVE InboxInv'
  BY <1>8, <1>11 DEF Close, HandleTransportClosed, RejectPending, CacheWithout
<1>12. ASSUME NEW id, RejectRequest(id), inbox' \subseteq inbox PROVE InboxInv'
  BY <1>8, <1>12 DEF RejectRequest, CacheWithout
<1>13. ASSUME UNCHANGED <<pc, awaits, initializing>>, inbox' \subseteq inbox PROVE InboxInv'
  BY <1>1, <1>13
<1> QED
  BY <1>3, <1>4, <1>5, <1>6, <1>7, <1>9, <1>10, <1>11, <1>12, <1>13
     DEF Next, Respond, Notify, RequestTimer, ErrorResponse, LateResponse, InterruptResponse,
         ServerStartsTurn, HandleDelta, RequestTimeout, ProcessCrash, vars, callVars

\* The next piece of a text extends the text.
LEMMA AppendPiece ==
    ASSUME NEW c \in Calls, NEW n \in Nat
    PROVE  Append([k \in 1..n |-> <<c, k>>], <<c, n + 1>>) = [k \in 1..(n + 1) |-> <<c, k>>]
OBVIOUS

\* Every step keeps ServerInv: a piece is appended to the text of the call whose
\* thread it names, and turn/completed settles the call of its thread.
LEMMA ServerStep ==
    ASSUME TypeOK, AwaitInv, TurnInv, InboxInv, ServerInv, [Next]_vars
    PROVE  ServerInv'
<1> SUFFICES ASSUME NEW d \in Calls PROVE ServedTurn(d)'
  BY DEF ServerInv
<1> USE DEF Waiting, Settled, Early, Turned, turnVars, serverVars, callVars
<1>0. ServedTurn(d) /\ TurnOf(d)
  BY DEF ServerInv, TurnInv
<1>1. ASSUME said' = said PROVE Written(d)' = Written(d)
  BY <1>1 DEF Written
<1>2. ASSUME UNCHANGED <<serverTurn, said, chunks>>, pendingTurns' \subseteq pendingTurns,
             completion'[d] \in {completion[d], "rejected"},
             pc[d] \in Turned => pc'[d] \in Turned,
             \/ pc'[d] # "ok"
             \/ pc'[d] = pc[d] /\ UNCHANGED text
      PROVE  ServedTurn(d)'
  BY <1>0, <1>1, <1>2 DEF ServedTurn
<1>3. ASSUME NEW c \in Calls, Complete(c) PROVE ServedTurn(d)'
  BY <1>2, <1>3 DEF Complete, RefuseCall, BeginHandshake, JoinHandshake, FindHandshake,
                    TypeOK, CallTypes
<1>4. ASSUME NEW c \in Calls, StartThread(c) PROVE ServedTurn(d)'
  BY <1>2, <1>4 DEF StartThread, TypeOK, CallTypes
<1>5. ASSUME NEW r \in inbox, InitializeResult(r) PROVE ServedTurn(d)'
  <2>1. \/ pc'[d] = "startThread" /\ awaits[d] = r.id
        \/ pc'[d] = pc[d]
    BY <1>5 DEF InitializeResult, Awaiting
  <2>2. awaits[d] = r.id => pc[d] = "initialize"
    BY <1>5, FreshId DEF InitializeResult, InboxInv, Addressed, MethodAt, AwaitInv
  <2> QED  BY <1>2, <1>5, <2>1, <2>2 DEF InitializeResult
<1>6. ASSUME NEW r \in inbox, ThreadStartResult(r) PROVE ServedTurn(d)'
  <2>1. PICK c \in Awaiting({r.id}) :
          RegisterTurn(c, r.subject) /\ pc' = [pc EXCEPT ![c] = "turn"]
    BY <1>6 DEF ThreadStartResult
  <2>2. c \in Calls /\ r.subject = c /\ pc[c] = "thread" /\ UNCHANGED <<text, serverVars>>
    BY <1>6, <2>1, FreshId DEF Awaiting, ThreadStartResult, InboxInv, Addressed, MethodAt, AwaitInv
  <2>3. CASE d # c
    BY <1>0, <1>1, <2>1, <2>2, <2>3 DEF RegisterTurn, ServedTurn, TypeOK, CallTypes
  <2>4. CASE d = c
    <3>1. serverTurn[d] = "absent" /\ said[d] = 0 /\ chunks[d] = <<>> /\ Written(d) = <<>>
      BY <1>0, <2>2, <2>4 DEF ServedTurn, TurnOf, Written
    <3> QED
      BY <1>1, <2>1, <2>2, <2>4, <3>1 DEF RegisterTurn, ServedTurn, TypeOK, CallTypes
  <2> QED  BY <2>3, <2>4
<1>7. ASSUME NEW r \in inbox, TurnStartResult(r) PROVE ServedTurn(d)'
  <2>1. PICK c \in Awaiting({r.id}), turn \in {r.subject, None} : EnterRace(c, turn)
    BY <1>7 DEF TurnStartResult
  <2>2. c \in Calls /\ RaceOutcome(c) \in Turned /\ UNCHANGED serverVars
        /\ (RaceOutcome(c) = "ok" => completion[c] = "resolved")
    BY <1>7, <2>1 DEF Awaiting, TurnStartResult, RaceOutcome
  <2> QED
    BY <1>0, <1>1, <2>1, <2>2 DEF EnterRace, ServedTurn, TypeOK, CallTypes
<1>8. ASSUME NEW ids, NEW losers, Settle(ids, losers), pendingTurns' \subseteq pendingTurns,
             UNCHANGED <<text, turnVars, serverVars>>, completion'[d] \in {completion[d], "rejected"}
      PROVE  ServedTurn(d)'
  BY <1>2, <1>8 DEF Settle
<1>9. ASSUME NEW r \in inbox, InterruptResponse(r) PROVE ServedTurn(d)'
  <2>1. pc[r.subject] = "failed" /\ r.subject \in Calls
    BY <1>9 DEF InterruptResponse, InboxInv, Addressed, TypeOK, RequestTypes
  <2> QED
    BY <1>0, <1>1, <1>9, <2>1 DEF InterruptResponse, ServedTurn, TurnOf, TypeOK, ServerTypes
<1>10. ASSUME NEW r \in inbox, ServerStartsTurn(r) PROVE ServedTurn(d)'
  <2>1. pc[r.subject] \in Turned /\ r.subject \in Calls
    BY <1>10 DEF ServerStartsTurn, InboxInv, Addressed, TypeOK, RequestTypes
  <2> QED
    BY <1>0, <1>1, <1>10, <2>1 DEF ServerStartsTurn, ServedTurn, TypeOK, ServerTypes
<1>11. ASSUME NEW c \in Calls, HandleDelta(c) PROVE ServedTurn(d)'
  <2>1. CASE d # c
    <3>1. Written(d)' = Written(d)
      BY <1>11, <2>1 DEF HandleDelta, Written, TypeOK, ServerTypes
    <3>2. chunks'[d] = chunks[d]
      BY <1>0, <1>11, <2>1 DEF HandleDelta, FindTurn, TurnOf
    <3> QED  BY <1>0, <1>11, <2>1, <3>1, <3>2 DEF HandleDelta, ServedTurn, TypeOK, ServerTypes
  <2>2. CASE d = c
    <3>1. said[d] \in Nat /\ said'[d] = said[d] + 1
      BY <1>11, <2>2 DEF HandleDelta, TypeOK, ServerTypes
    <3>2. Append(Written(d), <<d, said[d] + 1>>) = Written(d)'
      BY <3>1, AppendPiece DEF Written
    <3>3. d \in pendingTurns => chunks'[d] = Append(chunks[d], <<d, said[d] + 1>>)
      BY <1>0, <1>11, <2>2, ClientAssumption DEF HandleDelta, FindTurn, TurnOf
    <3> QED  BY <1>0, <1>11, <2>2, <3>1, <3>2, <3>3 DEF HandleDelta, ServedTurn
  <2> QED  BY <2>1, <2>2
<1>12. ASSUME NEW c \in Calls, NEW s \in {"completed", "failed"}, HandleCompleted(c, s)
       PROVE  ServedTurn(d)'
  <2>1. CASE d # c
    <3>1. d \notin FindTurn(c, c)
      BY <1>0, <2>1 DEF FindTurn, TurnOf
    <3> QED
      BY <1>0, <1>1, <1>12, <2>1, <3>1 DEF HandleCompleted, ServedTurn, TypeOK, ServerTypes
  <2>2. CASE d = c
    <3>1. d \in FindTurn(c, c) <=> d \in pendingTurns
      BY <1>0, <2>2 DEF FindTurn, TurnOf
    <3> QED
      BY <1>0, <1>1, <1>12, <2>2, <3>1 DEF HandleCompleted, Outcome, ServedTurn, TurnOf,
                                          TypeOK, ServerTypes
  <2> QED  BY <2>1, <2>2
<1>13. ASSUME NEW c \in Calls, TurnTimeout(c) PROVE ServedTurn(d)'
  BY <1>0, <1>2, <1>13 DEF TurnTimeout, TypeOK, CallTypes
<1>14. ASSUME UNCHANGED <<callVars, pendingTurns, turnVars, serverVars>> PROVE ServedTurn(d)'
  BY <1>2, <1>14
<1>15. ASSUME Close \/ HandleTransportClosed PROVE ServedTurn(d)'
  BY <1>8, <1>15 DEF Close, HandleTransportClosed, RejectPending
<1>16. ASSUME NEW id, RejectRequest(id), UNCHANGED <<text, completion, turnVars, serverVars>>
       PROVE  ServedTurn(d)'
  BY <1>8, <1>16 DEF RejectRequest
<1> QED
  BY <1>3, <1>4, <1>5, <1>6, <1>7, <1>9, <1>10, <1>11, <1>12, <1>13, <1>14, <1>15, <1>16
     DEF Next, Respond, Notify, RequestTimer, ErrorResponse, LateResponse, RequestTimeout,
         ProcessCrash, vars

\* Nothing new starts after close().
LEMMA QuietStep == ASSUME TypeOK, AwaitInv, TurnInv, QuietInv, [Next]_vars PROVE QuietInv'
<1>1. ASSUME UNCHANGED <<closed, conn, pendingTurns>>, pendingRequests' \subseteq pendingRequests,
             \A c \in Calls : pc'[c] = "startThread" => pc[c] = "startThread"
      PROVE  QuietInv'
  BY <1>1 DEF QuietInv
<1>2. ASSUME conn = "open", UNCHANGED closed PROVE QuietInv'
  BY <1>2 DEF QuietInv
<1>3. ASSUME NEW c \in Calls, Complete(c) PROVE QuietInv'
  <2>1. CASE closed
    BY <1>1, <1>3, <2>1 DEF Complete, RefuseCall, TypeOK, CallTypes
  <2>2. CASE ~closed
    BY <1>3, <2>2 DEF Complete, QuietInv
  <2> QED  BY <2>1, <2>2
<1>4. ASSUME NEW c \in Calls, StartThread(c) PROVE QuietInv'
  BY <1>4 DEF StartThread, QuietInv
<1>5. ASSUME NEW c \in Calls, TurnTimeout(c) PROVE QuietInv'
  <2>1. ~closed
    BY <1>5, FreshId DEF TurnTimeout, QuietInv, TurnInv, TurnOf, AwaitInv, Waiting
  <2> QED  BY <1>5, <2>1 DEF TurnTimeout, QuietInv
<1>6. ASSUME NEW id \in pendingRequests, RequestTimeout(id) PROVE QuietInv'
  BY <1>6 DEF RequestTimeout, QuietInv
<1>7. ASSUME Close PROVE QuietInv'
  <2>1. \A c \in Calls : pc'[c] # "startThread"
    BY <1>7 DEF Close, RejectPending, Settle, Macrotask, Drained
  <2>2. pendingRequests' = {} /\ pendingTurns' = {} /\ conn' # "open"
    BY <1>7 DEF Close, RejectPending, Settle
  <2> QED  BY <2>1, <2>2 DEF QuietInv
<1>8. ASSUME HandleTransportClosed PROVE QuietInv'
  <2>1. \A c \in Calls : pc'[c] = "startThread" => pc[c] = "startThread"
    BY <1>8 DEF HandleTransportClosed, RejectPending, Settle
  <2>2. pendingRequests' = {} /\ pendingTurns' = {} /\ conn' # "open" /\ UNCHANGED closed
    BY <1>8 DEF HandleTransportClosed, RejectPending, Settle
  <2> QED  BY <2>1, <2>2 DEF QuietInv
<1>9. ASSUME ProcessCrash \/ UNCHANGED vars PROVE QuietInv'
  BY <1>1, <1>9 DEF ProcessCrash, vars, callVars
<1> QED
  BY <1>2, <1>3, <1>4, <1>5, <1>6, <1>7, <1>8, <1>9
     DEF Next, Respond, Notify, RequestTimer, Answering, InitializeResult, ThreadStartResult,
         TurnStartResult, ErrorResponse, LateResponse, InterruptResponse, ServerStartsTurn,
         HandleDelta, HandleCompleted

\* A handshake leaves the cache with its failure.
LEMMA HandshakeStep ==
    ASSUME TypeOK, AwaitInv, TurnInv, InboxInv, HandshakeNotStuck, [Next]_vars
    PROVE  HandshakeNotStuck'
<1> USE DEF HandshakeNotStuck, serverVars
<1>1. ASSUME initializing' \in {0, initializing}, handshakes \subseteq handshakes',
             initializing \in pendingRequests =>
                initializing' = 0 \/ initializing \in pendingRequests' \cup handshakes'
      PROVE  HandshakeNotStuck'
  BY <1>1
<1>2. ASSUME NEW c \in Calls, Complete(c) PROVE HandshakeNotStuck'
  BY <1>2 DEF Complete, RefuseCall, BeginHandshake, JoinHandshake, FindHandshake, Issue
<1>3. ASSUME NEW c \in Calls, StartThread(c) PROVE HandshakeNotStuck'
  BY <1>3 DEF StartThread, Issue
<1>4. ASSUME NEW r \in inbox, r.method # "initialize",
             pendingRequests \ {r.id} \subseteq pendingRequests', UNCHANGED <<initializing, handshakes>>
      PROVE  HandshakeNotStuck'
  BY <1>4 DEF InboxInv, Addressed
<1>5. ASSUME NEW c \in Calls, TurnTimeout(c) PROVE HandshakeNotStuck'
  BY <1>5 DEF TurnTimeout, Interrupt, Issue
<1>6. ASSUME NEW id, RejectRequest(id), UNCHANGED handshakes PROVE HandshakeNotStuck'
  BY <1>6 DEF RejectRequest, Settle, CacheWithout
<1>7. ASSUME Close \/ HandleTransportClosed PROVE HandshakeNotStuck'
  BY <1>7 DEF Close, HandleTransportClosed, RejectPending, Settle, CacheWithout
<1>8. ASSUME NEW r \in inbox, InitializeResult(r) PROVE HandshakeNotStuck'
  BY <1>8 DEF InitializeResult
<1>9. ASSUME NEW r \in inbox, ThreadStartResult(r) PROVE HandshakeNotStuck'
  BY <1>4, <1>9 DEF ThreadStartResult, Issue
<1> QED
  BY <1>1, <1>2, <1>3, <1>4, <1>5, <1>6, <1>7, <1>8, <1>9
     DEF Next, Respond, Notify, RequestTimer, TurnStartResult, ErrorResponse, LateResponse,
         InterruptResponse, ServerStartsTurn, HandleDelta, HandleCompleted, RequestTimeout,
         ProcessCrash, vars

\* A call that gives up the race sends its interrupt, which stays on its way
\* until the server stops the turn.
LEMMA RacedStep ==
    ASSUME TypeOK, AwaitInv, TurnInv, InboxInv, RacedInv, [Next]_vars
    PROVE  RacedInv'
<1> SUFFICES ASSUME NEW d \in Calls PROVE RacedCall(d)'
  BY DEF RacedInv
<1> USE DEF Settled, serverVars, callVars, turnVars
<1>0. RacedCall(d)
  BY DEF RacedInv
<1>1. ASSUME raced' = raced, timeout'[d] = timeout[d], turnId'[d] = turnId[d], conn' = "open" => conn = "open",
             pc'[d] = "race" => pc[d] = "race",
             pc[d] \in {"race"} \cup Settled => pc'[d] \in {"race"} \cup Settled,
             serverTurn[d] # "absent" => serverTurn'[d] # "absent",
             serverTurn'[d] = "running" => serverTurn[d] \in {"absent", "running"},
             conn' = "open" /\ serverTurn'[d] = "running" =>
                \A r \in inbox : r.method = "turn/interrupt" /\ r.subject = d => r \in inbox'
      PROVE  RacedCall(d)'
  BY <1>0, <1>1 DEF RacedCall
<1>2. ASSUME NEW c \in Calls, Complete(c) PROVE RacedCall(d)'
  <2>1. inbox \subseteq inbox'
    BY <1>2 DEF Complete, RefuseCall, BeginHandshake, JoinHandshake, FindHandshake, Issue, Transmit
  <2> QED
    BY <1>1, <1>2, <2>1 DEF Complete, RefuseCall, BeginHandshake, JoinHandshake, FindHandshake,
                            TypeOK, CallTypes
<1>3. ASSUME NEW c \in Calls, StartThread(c) PROVE RacedCall(d)'
  <2>1. inbox \subseteq inbox'
    BY <1>3 DEF StartThread, Issue, Transmit
  <2> QED  BY <1>1, <1>3, <2>1 DEF StartThread, TypeOK, CallTypes
<1>4. ASSUME NEW r \in inbox, InitializeResult(r) PROVE RacedCall(d)'
  <2>1. pc'[d] = pc[d] \/ (pc'[d] = "startThread" /\ awaits[d] = r.id)
    BY <1>4 DEF InitializeResult, Awaiting
  <2>2. awaits[d] = r.id => pc[d] \in Waiting
    BY FreshId DEF AwaitInv
  <2> QED  BY <1>1, <1>4, <2>1, <2>2 DEF InitializeResult, Waiting
<1>5. ASSUME NEW r \in inbox, ThreadStartResult(r) PROVE RacedCall(d)'
  <2>1. PICK c \in Awaiting({r.id}) :
          RegisterTurn(c, r.subject) /\ pc' = [pc EXCEPT ![c] = "turn"]
    BY <1>5 DEF ThreadStartResult
  <2>2. c \in Calls /\ pc[c] = "thread"
    BY <1>5, <2>1, FreshId DEF Awaiting, ThreadStartResult, InboxInv, Addressed, MethodAt,
                               AwaitInv, Waiting
  <2>3. inbox \ {r} \subseteq inbox' /\ r.method # "turn/interrupt"
        /\ UNCHANGED <<raced, serverTurn, conn>>
    BY <1>5 DEF ThreadStartResult, Issue, Transmit
  <2>4. pc[d] # "thread" => pc'[d] = pc[d] /\ timeout'[d] = timeout[d] /\ turnId' = turnId
    BY <2>1, <2>2 DEF RegisterTurn, TypeOK, CallTypes
  <2>5. pc[d] = "thread" => d \notin raced /\ pc'[d] # "race"
    BY <1>0, <2>1, <2>2 DEF RacedCall, TypeOK, CallTypes
  <2> QED  BY <1>0, <2>3, <2>4, <2>5 DEF RacedCall
<1>6. ASSUME NEW r \in inbox, TurnStartResult(r) PROVE RacedCall(d)'
  <2>1. PICK c \in Awaiting({r.id}), turn \in {r.subject, None} : EnterRace(c, turn)
    BY <1>6 DEF TurnStartResult
  <2>2. c \in Calls /\ r.subject = c /\ pc[c] = "turn" /\ serverTurn[c] # "absent"
    BY <1>6, <2>1, FreshId DEF Awaiting, TurnStartResult, InboxInv, Addressed, MethodAt,
                               AwaitInv, Waiting
  <2>3. inbox' = inbox \ {r} /\ r.method # "turn/interrupt"
        /\ UNCHANGED <<timeout, serverTurn, conn>>
    BY <1>6, <2>1 DEF TurnStartResult, EnterRace
  <2>4. CASE d # c
    BY <1>0, <2>1, <2>2, <2>3, <2>4 DEF EnterRace, RacedCall, TypeOK, CallTypes, TurnTypes
  <2>5. CASE d = c
    <3>1. d \notin raced
      BY <1>0, <2>2, <2>5 DEF RacedCall
    <3>2. ThrowOnUnhandled => timeout[d] # "rejected"
      BY <1>6, <3>1 DEF TurnStartResult, Answering, Macrotask, Unhandled
    <3>3. pc'[d] \in {"race"} \cup Settled /\ d \in raced'
      BY <2>1, <2>2, <2>5 DEF EnterRace, RaceOutcome, TypeOK, CallTypes
    <3> QED  BY <2>2, <2>3, <2>5, <3>2, <3>3 DEF RacedCall
  <2> QED  BY <2>4, <2>5
<1>7. ASSUME NEW id, RejectRequest(id), UNCHANGED <<raced, timeout, turnVars, conn, serverVars>>,
             \A r \in inbox : r.method = "turn/interrupt" => r \in inbox'
      PROVE  RacedCall(d)'
  <2>1. pc'[d] \in {pc[d], "failed"}
    BY <1>7 DEF RejectRequest, Settle
  <2> QED  BY <1>1, <1>7, <2>1
<1>8. ASSUME NEW r \in inbox, InterruptResponse(r) PROVE RacedCall(d)'
  <2>1. serverTurn'[d] = IF d = r.subject /\ serverTurn[d] = "running" THEN "interrupted"
                         ELSE serverTurn[d]
    BY <1>8 DEF InterruptResponse, TypeOK, ServerTypes
  <2> QED  BY <1>1, <1>8, <2>1 DEF InterruptResponse
<1>9. ASSUME NEW r \in inbox, ServerStartsTurn(r) PROVE RacedCall(d)'
  BY <1>1, <1>9 DEF ServerStartsTurn, TypeOK, ServerTypes
<1>10. ASSUME NEW r \in inbox, LateResponse(r) PROVE RacedCall(d)'
  BY <1>1, <1>10 DEF LateResponse
<1>11. ASSUME NEW c \in Calls, HandleDelta(c) PROVE RacedCall(d)'
  BY <1>1, <1>11 DEF HandleDelta
<1>12. ASSUME NEW c \in Calls, NEW s \in {"completed", "failed"}, HandleCompleted(c, s)
       PROVE  RacedCall(d)'
  BY <1>1, <1>12 DEF HandleCompleted, TypeOK, ServerTypes
<1>13. ASSUME NEW c \in Calls, TurnTimeout(c) PROVE RacedCall(d)'
  <2>1. inbox \subseteq inbox' /\ UNCHANGED <<raced, serverTurn, conn>>
    BY <1>13 DEF TurnTimeout, Interrupt, Issue, Transmit
  <2>2. CASE d # c
    BY <1>1, <1>13, <2>1, <2>2 DEF TurnTimeout, TypeOK, CallTypes
  <2>3. CASE d = c /\ pc[d] = "turn"
    BY <1>0, <1>13, <2>1, <2>3 DEF TurnTimeout, RacedCall
  <2>4. CASE d = c /\ pc[d] = "race"
    <3>1. threadId[c] = c /\ turnId'[c] = turnId[c]
      BY <1>13, <2>4 DEF TurnTimeout, TurnInv, TurnOf
    <3>2. turnId[c] # None /\ conn = "open" =>
            Request(nextRequestId, "turn/interrupt", c) \in inbox'
      BY <1>13, <3>1 DEF TurnTimeout, Interrupt, Issue, Transmit
    <3>3. turnId[c] # None /\ conn = "open" =>
            \E r \in inbox' : r.method = "turn/interrupt" /\ r.subject = c
      BY <3>2 DEF Request
    <3> QED
      BY <1>0, <1>13, <2>1, <2>4, <3>1, <3>3 DEF TurnTimeout, RacedCall, TypeOK, CallTypes
  <2> QED  BY <1>13, <2>2, <2>3, <2>4 DEF TurnTimeout
<1>14. ASSUME Close \/ HandleTransportClosed PROVE RacedCall(d)'
  <2>1. conn' # "open" /\ UNCHANGED <<raced, timeout, turnVars, serverVars>>
    BY <1>14 DEF Close, HandleTransportClosed
  <2>2. pc'[d] \in {pc[d], "failed"}
    BY <1>14 DEF Close, HandleTransportClosed, RejectPending, Settle
  <2> QED  BY <1>1, <2>1, <2>2
<1>15. ASSUME NEW r \in inbox, ErrorResponse(r) PROVE RacedCall(d)'
  BY <1>7, <1>15 DEF ErrorResponse
<1>16. ASSUME NEW id, RequestTimeout(id) PROVE RacedCall(d)'
  BY <1>7, <1>16 DEF RequestTimeout
<1>17. ASSUME ProcessCrash \/ UNCHANGED vars PROVE RacedCall(d)'
  BY <1>1, <1>17 DEF ProcessCrash, vars
<1> QED
  BY <1>2, <1>3, <1>4, <1>5, <1>6, <1>8, <1>9, <1>10, <1>11, <1>12, <1>13, <1>14, <1>15, <1>16,
     <1>17 DEF Next, Respond, Notify, RequestTimer

-----------------------------------------------------------------------------
(* The theorems.                                                           *)

\* The initial state satisfies the inductive invariant.
LEMMA InitInv == Init => IInv
<1> SUFFICES ASSUME Init PROVE IInv
  OBVIOUS
<1> USE ClientAssumption DEF Init, Waiting, Settled, Early
<1>1. TypeOK
  <2>1. CallTypes
    BY DEF CallTypes
  <2>2. RequestTypes
    BY DEF RequestTypes
  <2>3. TurnTypes
    BY DEF TurnTypes
  <2>4. ServerTypes
    BY DEF ServerTypes
  <2> QED  BY <2>1, <2>2, <2>3, <2>4 DEF TypeOK
<1>2. AwaitInv /\ TurnInv /\ InboxInv /\ QuietInv /\ HandshakeNotStuck
  BY DEF AwaitInv, TurnInv, TurnOf, InboxInv, QuietInv, HandshakeNotStuck
<1>3. ServerInv /\ RacedInv
  BY DEF ServerInv, ServedTurn, RacedInv, RacedCall
<1> QED  BY <1>1, <1>2, <1>3 DEF IInv

\* The inductive invariant holds: the states of the calls, the requests in
\* flight and the turns on the server never contradict each other.
THEOREM Invariance == Spec => []IInv
<1>1. ASSUME IInv, [Next]_vars PROVE IInv'
  <2>1. TypeOK'
    BY <1>1, CallTypeStep, TurnTypeStep, RequestTypeStep, ServerTypeStep DEF IInv, TypeOK
  <2> QED
    BY <1>1, <2>1, AwaitStep, TurnStep, InboxStep, ServerStep, QuietStep, RacedStep, HandshakeStep
       DEF IInv
<1> QED  BY <1>1, InitInv, PTL DEF Spec

\* Types and id ranges hold for any number of calls (request() hands out every
\* id once).
THEOREM TypeCorrect == Spec => []TypeOK
<1>1. IInv => TypeOK
  BY DEF IInv
<1> QED  BY <1>1, Invariance, PTL

\* For any number of concurrent calls a success carries the whole text of the
\* call's own thread, and only after the server reported that turn completed
\* (handleDelta, handleCompleted, findTurn).
THEOREM AnswersAreOwnAndComplete == Spec => [](OwnText /\ SuccessIsCompleted)
<1>1. IInv => OwnText /\ SuccessIsCompleted
  BY DEF IInv, ServerInv, ServedTurn, OwnText, SuccessIsCompleted
<1> QED  BY <1>1, Invariance, PTL

\* No call ever awaits something that can no longer wake it, and a settled call
\* leaves no registration behind (request(), the `finally` of complete(),
\* rejectPending()).
THEOREM NobodyIsOrphaned == Spec => [](NoOrphanWaiter /\ SettledLeavesNothing)
<1>1. IInv => NoOrphanWaiter /\ SettledLeavesNothing
  BY DEF IInv, AwaitInv, TurnInv, TurnOf, NoOrphanWaiter, SettledLeavesNothing, Settled, Waiting
<1> QED  BY <1>1, Invariance, PTL

\* A failed `initialize` never stays cached (ensureInitialized()).
THEOREM HandshakeRecovers == Spec => []HandshakeNotStuck
<1>1. IInv => HandshakeNotStuck
  BY DEF IInv
<1> QED  BY <1>1, Invariance, PTL

\* close() leaves no pending request, turn or unfinished call, whatever arrives
\* afterwards.
THEOREM NothingSurvivesClose == Spec => []ClosedIsQuiet
<1>1. IInv => ClosedIsQuiet
  <2> SUFFICES ASSUME IInv, closed, NEW c \in Calls PROVE pc[c] \in {"idle"} \cup Settled
    BY DEF ClosedIsQuiet, IInv, QuietInv
  <2>1. pc[c] \notin Waiting \cup {"race", "startThread"}
    BY DEF IInv, AwaitInv, TurnInv, TurnOf, QuietInv
  <2> QED  BY <2>1 DEF IInv, TypeOK, CallTypes
<1> QED  BY <1>1, Invariance, PTL

\* NothingStuck, the four of them: for any number of calls, nothing is left in the
\* client that waits for what cannot come or that nobody waits for.
THEOREM NothingIsStuck == Spec => []NothingStuck
<1> QED
  BY NobodyIsOrphaned, HandshakeRecovers, NothingSurvivesClose, PTL DEF NothingStuck

\* In Node's default mode a call whose timer fires while it waits for
\* turn/completed has its interrupt on the way as long as the turn runs
\* (interrupt() in the timer of complete()).
THEOREM RacedTimeoutIsReported ==
    ASSUME ThrowOnUnhandled PROVE Spec => []RacedTimeoutInterrupts
<1>1. IInv => RacedTimeoutInterrupts
  BY DEF IInv, RacedInv, RacedCall, RacedTimeoutInterrupts, TypeOK, CallTypes
<1> QED  BY <1>1, Invariance, PTL

-----------------------------------------------------------------------------
(* The refinement of LlmTransport, and isolation.                          *)

\* Every step of the client is a step of LlmTransport under the mapping of
\* AppServerClient (a stutter is Fail({})).
LEMMA TransportStep ==
    ASSUME IInv, [Next]_vars PROVE Transport!Next
<1> USE DEF Settled, serverVars, callVars
<1>0. /\ \A d \in Calls : Status[d] = IF pc[d] \in {"idle"} \cup Settled THEN pc[d] ELSE "running"
      /\ \A d \in Calls : Status'[d] = IF pc'[d] \in {"idle"} \cup Settled THEN pc'[d] ELSE "running"
      /\ Status = [d \in Calls |-> Status[d]] /\ Status' = [d \in Calls |-> Status'[d]]
  BY DEF Status
<1>1. ASSUME UNCHANGED <<text, said, Verdict>>,
             \A d \in Calls :
                pc'[d] # pc[d] => pc[d] \notin {"idle"} \cup Settled /\ pc'[d] \notin {"idle", "ok"}
      PROVE  Transport!Next
  <2> DEFINE S == {d \in Calls : Status[d] = "running" /\ Status'[d] = "failed"}
  <2>1. Status' = [d \in Calls |-> IF d \in S THEN "failed" ELSE Status[d]]
    BY <1>0, <1>1
  <2>2. Transport!Fail(S)
    BY <1>1, <2>1 DEF Transport!Fail
  <2> QED  BY <1>1, <2>2 DEF Transport!Next
<1>2. ASSUME NEW c \in Calls, Complete(c) PROVE Transport!Next
  <2>1. /\ pc[c] = "idle" /\ UNCHANGED <<text, said, Verdict>>
        /\ \/ pc' = [pc EXCEPT ![c] = "failed"]
           \/ pc' = [pc EXCEPT ![c] = "initialize"]
           \/ pc' = [pc EXCEPT ![c] = "startThread"]
    BY <1>2 DEF Complete, RefuseCall, BeginHandshake, JoinHandshake, FindHandshake, Verdict
  <2>2. Status[c] = "idle" /\ (Status' = [Status EXCEPT ![c] = "failed"] \/
                               Status' = [Status EXCEPT ![c] = "running"])
    BY <2>1 DEF Status, IInv, TypeOK, CallTypes
  <2>3. Transport!Start(c) \/ Transport!Refuse(c)
    BY <2>1, <2>2 DEF Transport!Start, Transport!Refuse
  <2> QED  BY <2>3 DEF Transport!Next
<1>3. ASSUME NEW c \in Calls, StartThread(c) PROVE Transport!Next
  BY <1>1, <1>3 DEF StartThread, Verdict, IInv, TypeOK, CallTypes
<1>4. ASSUME NEW r \in inbox, InitializeResult(r) PROVE Transport!Next
  <2>1. \A d \in Calls : pc'[d] = pc[d] \/ (pc[d] = "initialize" /\ pc'[d] = "startThread")
    BY <1>4, FreshId DEF InitializeResult, Awaiting, IInv, InboxInv, Addressed, MethodAt,
                         AwaitInv, Waiting
  <2> QED  BY <1>1, <1>4, <2>1 DEF InitializeResult, Verdict
<1>5. ASSUME NEW r \in inbox, ThreadStartResult(r) PROVE Transport!Next
  <2>1. PICK c \in Awaiting({r.id}) : pc' = [pc EXCEPT ![c] = "turn"]
    BY <1>5 DEF ThreadStartResult
  <2>2. c \in Calls /\ pc[c] \in Waiting
    BY <2>1 DEF Awaiting, IInv, AwaitInv
  <2> QED
    BY <1>1, <1>5, <2>1, <2>2 DEF ThreadStartResult, Verdict, IInv, TypeOK, CallTypes, Waiting
<1>6. ASSUME NEW r \in inbox, TurnStartResult(r) PROVE Transport!Next
  <2>1. PICK c \in Awaiting({r.id}), turn \in {r.subject, None} : EnterRace(c, turn)
    BY <1>6 DEF TurnStartResult
  <2>2. c \in Calls /\ pc[c] \in Waiting /\ UNCHANGED <<said, Verdict>>
    BY <1>6, <2>1 DEF Awaiting, IInv, AwaitInv, TurnStartResult, Verdict
  <2>3. CASE RaceOutcome(c) = "ok"
    <3>1. completion[c] = "resolved"
      BY <2>3 DEF RaceOutcome
    <3>2. serverTurn[c] = "completed" /\ chunks[c] = Written(c)
      BY <2>2, <3>1 DEF IInv, ServerInv, ServedTurn
    <3>3. /\ Status[c] = "running" /\ Status' = [Status EXCEPT ![c] = "ok"]
          /\ Verdict[c] = "completed" /\ text' = [text EXCEPT ![c] = Transport!Answer(c)]
      BY <2>1, <2>2, <2>3, <3>2 DEF EnterRace, Status, Verdict, Waiting, Written,
                                    Transport!Answer, IInv, TypeOK, CallTypes
    <3>4. Transport!Succeed(c)
      BY <3>3 DEF Transport!Succeed
    <3> QED  BY <2>2, <3>3, <3>4 DEF Transport!Next
  <2>4. CASE RaceOutcome(c) # "ok"
    <3>1. pc' = [pc EXCEPT ![c] = RaceOutcome(c)] /\ RaceOutcome(c) \in {"failed", "race"}
      BY <2>1, <2>4 DEF EnterRace, RaceOutcome
    <3>2. UNCHANGED text
      BY <2>1, <2>4 DEF EnterRace, IInv, TypeOK, CallTypes
    <3> QED
      BY <1>1, <2>2, <3>1, <3>2 DEF IInv, TypeOK, CallTypes, Waiting
  <2> QED  BY <2>3, <2>4
<1>7. ASSUME NEW ids, NEW losers, Settle(ids, losers), UNCHANGED <<text, said, Verdict>>,
             \A d \in losers : d \in Awaiting(ids) \/ pc[d] = "race"
      PROVE  Transport!Next
  <2>1. \A d \in losers \cap Calls : pc[d] \in {"race"} \cup Waiting
    BY <1>7 DEF Awaiting, IInv, AwaitInv
  <2> QED  BY <1>1, <1>7, <2>1 DEF Settle, Waiting
<1>8. ASSUME NEW id, RejectRequest(id), UNCHANGED <<text, said, Verdict>>
      PROVE  Transport!Next
  BY <1>7, <1>8 DEF RejectRequest
<1>9. ASSUME Close \/ HandleTransportClosed PROVE Transport!Next
  <2>1. UNCHANGED <<text, said, Verdict>>
    BY <1>9 DEF Close, HandleTransportClosed, Verdict
  <2> QED  BY <1>7, <1>9, <2>1 DEF Close, HandleTransportClosed, RejectPending
<1>10. ASSUME NEW r \in inbox, InterruptResponse(r)
       PROVE  Transport!Next
  <2> DEFINE c == r.subject
  <2>1. /\ c \in Calls /\ pc[c] = "failed"
        /\ UNCHANGED <<pc, text, said>>
        /\ serverTurn' = [serverTurn EXCEPT ![c] = IF @ = "running" THEN "interrupted" ELSE @]
    BY <1>10 DEF InterruptResponse, IInv, InboxInv, Addressed, TypeOK, RequestTypes
  <2>2. UNCHANGED Status
    BY <2>1 DEF Status
  <2>3. CASE serverTurn[c] # "running"
    <3>1. UNCHANGED serverTurn
      BY <2>1, <2>3 DEF IInv, TypeOK, ServerTypes
    <3>2. UNCHANGED Verdict
      BY <3>1 DEF Verdict
    <3> QED  BY <1>1, <2>1, <3>2
  <2>4. CASE serverTurn[c] = "running"
    <3>1. Verdict[c] = "none" /\ Verdict' = [Verdict EXCEPT ![c] = "failed"] /\ Status[c] = "failed"
      BY <2>1, <2>4 DEF Verdict, Status, IInv, TypeOK, ServerTypes
    <3>2. Transport!Judge(c, "failed")
      BY <2>1, <3>1 DEF Transport!Judge
    <3>3. Transport!Fail({})
      BY <1>0, <2>1, <2>2 DEF Transport!Fail
    <3> QED  BY <2>1, <3>2, <3>3 DEF Transport!Next
  <2> QED  BY <2>3, <2>4
<1>11. ASSUME NEW r \in inbox, ServerStartsTurn(r)
       PROVE  Transport!Next
  <2>1. UNCHANGED Verdict
    BY <1>11 DEF ServerStartsTurn, Verdict, IInv, TypeOK, ServerTypes
  <2> QED  BY <1>1, <1>11, <2>1 DEF ServerStartsTurn
<1>12. ASSUME NEW c \in Calls, HandleDelta(c) PROVE Transport!Next
  <2>1. pc[c] \in Turned \ {"ok"}
    BY <1>12 DEF HandleDelta, IInv, ServerInv, ServedTurn
  <2>2. Status[c] \in {"running", "failed"} /\ Verdict[c] = "none" /\ UNCHANGED <<Status, Verdict>>
    BY <1>12, <2>1 DEF HandleDelta, Status, Verdict, Turned
  <2>3. Transport!Speak(c)
    BY <1>12, <2>2 DEF HandleDelta, Transport!Speak
  <2> QED  BY <2>3 DEF Transport!Next
<1>13. ASSUME NEW c \in Calls, NEW s \in {"completed", "failed"}, HandleCompleted(c, s)
       PROVE  Transport!Next
  <2> DEFINE racing == pc[c] = "race"
  <2>1. pc[c] \in Turned \ {"ok"}
    BY <1>13 DEF HandleCompleted, IInv, ServerInv, ServedTurn
  <2>2. \A d \in FindTurn(c, c) : d = c
    BY DEF FindTurn, IInv, TurnInv, TurnOf, TypeOK, TurnTypes
  <2>3. racing => c \in FindTurn(c, c) /\ chunks[c] = Written(c)
    BY DEF FindTurn, IInv, TurnInv, TurnOf, ServerInv, ServedTurn
  <2>4. Verdict[c] = "none" /\ Verdict' = [Verdict EXCEPT ![c] = s]
    BY <1>13 DEF HandleCompleted, Verdict, IInv, TypeOK, ServerTypes
  <2>5. Status[c] \in {"running", "failed"} /\ (racing => Status[c] = "running")
    BY <2>1 DEF Status, Turned
  <2>6. Transport!Judge(c, s) /\ UNCHANGED said
    BY <1>13, <2>4, <2>5 DEF HandleCompleted, Transport!Judge
  <2>7. CASE ~racing
    <3>1. UNCHANGED <<pc, text>>
      BY <1>13, <2>2, <2>7 DEF HandleCompleted, IInv, TypeOK, CallTypes
    <3>2. Transport!Fail({})
      BY <1>0, <3>1 DEF Transport!Fail, Status
    <3> QED  BY <2>6, <3>2 DEF Transport!Next
  <2>8. CASE racing /\ s = "completed"
    <3>1. /\ pc' = [pc EXCEPT ![c] = "ok"]
          /\ text' = [text EXCEPT ![c] = chunks[c]]
      BY <1>13, <2>2, <2>3, <2>8 DEF HandleCompleted, Outcome, IInv, TypeOK, CallTypes
    <3>2. Transport!Succeed(c)
      BY <2>3, <2>5, <2>8, <3>1 DEF Transport!Succeed, Transport!Answer, Written, Status,
                                    IInv, TypeOK, CallTypes
    <3> QED  BY <2>6, <2>8, <3>2 DEF Transport!Next
  <2>9. CASE racing /\ s = "failed"
    <3>1. pc' = [pc EXCEPT ![c] = "failed"] /\ UNCHANGED text
      BY <1>13, <2>2, <2>3, <2>9 DEF HandleCompleted, Outcome, IInv, TypeOK, CallTypes
    <3>2. Transport!Fail({c})
      BY <2>5, <2>9, <3>1 DEF Transport!Fail, Status, IInv, TypeOK, CallTypes
    <3> QED  BY <2>6, <2>9, <3>2 DEF Transport!Next
  <2> QED  BY <2>7, <2>8, <2>9
<1>14. ASSUME NEW c \in Calls, TurnTimeout(c) PROVE Transport!Next
  BY <1>1, <1>14 DEF TurnTimeout, Verdict, IInv, TypeOK, CallTypes
<1>15. ASSUME UNCHANGED <<pc, text, said, serverTurn>> PROVE Transport!Next
  BY <1>1, <1>15 DEF Verdict
<1>16. ASSUME NEW id, RequestTimeout(id) \/ \E r \in inbox : ErrorResponse(r) /\ id = r.id
       PROVE  Transport!Next
  BY <1>8, <1>16 DEF RequestTimeout, ErrorResponse, Verdict
<1> QED
  BY <1>2, <1>3, <1>4, <1>5, <1>6, <1>9, <1>10, <1>11, <1>12, <1>13, <1>14, <1>15, <1>16
     DEF Next, Respond, Notify, RequestTimer, LateResponse, ProcessCrash, vars

\* The client implements LlmTransport: each call settles once, a success carries
\* exactly the answer to that call after its turn completed, and everything else
\* is an error.
THEOREM ClientImplementsTransport == Spec => ImplementsTransport
<1>1. Init => Transport!Init
  BY DEF Init, Transport!Init, Status, Verdict, Settled
<1>2. IInv /\ [Next]_vars => [Transport!Next]_(Transport!callVars)
  BY TransportStep
<1> QED
  BY <1>1, <1>2, Invariance, PTL DEF Spec, ImplementsTransport, Transport!Spec

\* A step that settles two calls with a thread concerns the whole connection.
LEMMA IsolatedStep ==
    ASSUME IInv, [Next]_vars, conn' = conn, closed' = closed,
           NEW c \in Calls, pc[c] \in {"thread", "turn", "race"}, pc'[c] \in Settled,
           NEW d \in Calls, pc[d] \in {"thread", "turn", "race"}, pc'[d] \in Settled
    PROVE  c = d
<1> USE DEF Settled, callVars
<1>1. ASSUME NEW e, \A f \in Calls \ {e} : pc'[f] = pc[f] PROVE c = d
  BY <1>1
<1>2. ASSUME NEW e \in Calls, Complete(e) \/ StartThread(e) \/ TurnTimeout(e) PROVE c = d
  <2>1. pc' = pc \/ \E w : pc' = [pc EXCEPT ![e] = w]
    BY <1>2 DEF Complete, RefuseCall, BeginHandshake, JoinHandshake, FindHandshake, StartThread,
               TurnTimeout
  <2> QED  BY <1>1, <2>1 DEF IInv, TypeOK, CallTypes
<1>3. ASSUME NEW r \in inbox, InitializeResult(r) PROVE c = d
  <2>1. pc'[c] \in {pc[c], "startThread"}
    BY <1>3 DEF InitializeResult
  <2> QED  BY <2>1
<1>4. ASSUME NEW r \in inbox, ThreadStartResult(r) \/ TurnStartResult(r) PROVE c = d
  <2>1. PICK e \in Awaiting({r.id}) : \E w : pc' = [pc EXCEPT ![e] = w]
    BY <1>4 DEF ThreadStartResult, TurnStartResult, EnterRace
  <2> QED  BY <1>1, <2>1 DEF IInv, TypeOK, CallTypes
<1>5. ASSUME NEW id, RejectRequest(id) PROVE c = d
  <2>1. c \in Awaiting({id}) /\ d \in Awaiting({id})
    BY <1>5 DEF RejectRequest, Settle
  <2> QED  BY <2>1 DEF Awaiting, IInv, AwaitInv
<1>6. ASSUME NEW e \in Calls, NEW s \in {"completed", "failed"}, HandleCompleted(e, s)
      PROVE  c = d
  <2>1. c \in FindTurn(e, e) /\ d \in FindTurn(e, e)
    BY <1>6 DEF HandleCompleted
  <2> QED  BY <2>1 DEF FindTurn, IInv, TurnInv, TurnOf
<1>7. ~Close /\ ~HandleTransportClosed
  BY DEF Close, HandleTransportClosed, IInv, TypeOK, ServerTypes
<1>8. CASE UNCHANGED pc
  BY <1>8
<1> QED
  BY <1>2, <1>3, <1>4, <1>5, <1>6, <1>7, <1>8
     DEF Next, Respond, Notify, RequestTimer, ErrorResponse, LateResponse, InterruptResponse,
         ServerStartsTurn, HandleDelta, RequestTimeout, ProcessCrash, vars

\* As long as the connection and close() are not concerned, no step settles two
\* calls that already have a thread: one call cannot fail or finish another.
THEOREM ConcurrentCallsAreIsolated == Spec => CallsAreIsolated
<1>1. IInv /\ [Next]_vars =>
        [conn' = conn /\ closed' = closed =>
           \A c, d \in Calls :
              /\ pc[c] \in {"thread", "turn", "race"} /\ pc'[c] \in Settled
              /\ pc[d] \in {"thread", "turn", "race"} /\ pc'[d] \in Settled
              => c = d]_vars
  BY IsolatedStep
<1> QED  BY <1>1, Invariance, PTL DEF Spec, CallsAreIsolated
=============================================================================
