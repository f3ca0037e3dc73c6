-------------------------- MODULE AppServerClient --------------------------
(***************************************************************************)
(* The JSON-RPC client of the resident `codex app-server`                  *)
(* (packages/llm/src/app-server.client.ts) shared by every concurrent LLM  *)
(* call of a process, together with the server and the socket it talks to. *)
(*                                                                         *)
(* A step is one macrotask of the Node event loop (a received message, a   *)
(* timer, a socket event, a call from outside) with the promise jobs it    *)
(* wakes.  Only a resolved `initialize` wakes several calls: their         *)
(* continuations are the StartThread steps, and no macrotask runs before   *)
(* they have (Drained).                                                    *)
(*                                                                         *)
(* Names of threads and turns are abstract: the server names the thread of *)
(* call c, and the turn in it, c.  A received message and its handling are *)
(* one step; a request travels through `inbox`, where it may wait longer   *)
(* than the client does.                                                   *)
(***************************************************************************)
EXTENDS Naturals, Sequences

CONSTANTS
    Calls,              \* the calls of complete()
    None,               \* `undefined`
    MaxDeltas,          \* bound: pieces of text the server writes in a turn
    ShortTurnTimeout,   \* timeoutMs < requestTimeoutMs (LLM_TIMEOUT_MS is free)
    ThrowOnUnhandled    \* node --unhandled-rejections=throw, the default

ASSUME ClientAssumption ==
    /\ None \notin Calls
    /\ MaxDeltas \in Nat
    /\ ShortTurnTimeout \in BOOLEAN
    /\ ThrowOnUnhandled \in BOOLEAN

VARIABLES
    \* the calls of complete()
    pc,                 \* where the call is
    awaits,             \* the request it awaits, 0 for none
    text,               \* what it returned
    raced,              \* calls that reached Promise.race([completion, timeout])
    completion,         \* per call: the promise settled by turn/completed
    timeout,            \* per call: the promise rejected by the turn timer
    \* the client
    closed,             \* close() was called
    initializing,       \* the cached `initialize` attempt, 0 for undefined
    nextRequestId,
    pendingRequests,    \* ids; each has its own running timer
    pendingTurns,       \* the calls whose PendingTurn is registered
    threadId, turnId, chunks,   \* the fields of a call's PendingTurn
    crashed,            \* Node ended the process on an unhandled rejection
    \* the socket and the server
    conn,               \* "open", "closing" (close() called) or "closed"
    inbox,              \* requests the server has not answered
    handshakes,         \* initialize requests the server answered with a result
    serverTurn,         \* per thread: its turn on the server
    said                \* per thread: pieces of text written so far

callVars == <<pc, awaits, text, raced, completion, timeout>>
turnVars == <<threadId, turnId, chunks>>
serverVars == <<handshakes, serverTurn, said>>
vars == <<callVars, closed, initializing, nextRequestId, pendingRequests,
          pendingTurns, turnVars, crashed, conn, inbox, serverVars>>

Methods == {"initialize", "thread/start", "turn/start", "turn/interrupt"}

Request(id, method, subject) == [id |-> id, method |-> method, subject |-> subject]

Init ==
    /\ pc = [c \in Calls |-> "idle"]
    /\ awaits = [c \in Calls |-> 0]
    /\ text = [c \in Calls |-> <<>>]
    /\ raced = {}
    /\ completion = [c \in Calls |-> "none"]
    /\ timeout = [c \in Calls |-> "none"]
    /\ closed = FALSE
    /\ initializing = 0
    /\ nextRequestId = 1
    /\ pendingRequests = {}
    /\ pendingTurns = {}
    /\ threadId = [c \in Calls |-> None]
    /\ turnId = [c \in Calls |-> None]
    /\ chunks = [c \in Calls |-> <<>>]
    /\ crashed = FALSE
    /\ conn = "open"
    /\ inbox = {}
    /\ handshakes = {}
    /\ serverTurn = [c \in Calls |-> "absent"]
    /\ said = [c \in Calls |-> 0]

-----------------------------------------------------------------------------
(* The event loop.                                                         *)

Drained == \A c \in Calls : pc[c] # "startThread"

\* Rejected promises nobody has attached a handler to: `completion` and
\* `timeout` get theirs only when complete() reaches Promise.race.
Unhandled ==
    {c \in Calls \ raced : completion[c] = "rejected" \/ timeout[c] = "rejected"}

Macrotask ==
    /\ ~crashed
    /\ Drained
    /\ ThrowOnUnhandled => Unhandled = {}

ProcessCrash ==
    /\ ~crashed
    /\ Drained
    /\ ThrowOnUnhandled
    /\ Unhandled # {}
    /\ crashed' = TRUE
    /\ UNCHANGED <<callVars, closed, initializing, nextRequestId, pendingRequests,
                   pendingTurns, turnVars, conn, inbox, serverVars>>

-----------------------------------------------------------------------------
(* Requests.                                                               *)

\* A message sent on a socket that is not open is dropped without an error.
Transmit(box, r) == IF conn = "open" THEN box \cup {r} ELSE box

\* Mutant: the id is not consumed.
Issue_KeepsId(waiting, box, method, subject) ==
    /\ nextRequestId' = nextRequestId
    /\ pendingRequests' = waiting \cup {nextRequestId}
    /\ inbox' = Transmit(box, Request(nextRequestId, method, subject))

\* request(), when `waiting` and `box` are what the step leaves of the two
\* sets.  The timer of a request runs as long as its id is in pendingRequests.
Issue(waiting, box, method, subject) ==
    /\ nextRequestId' = nextRequestId + 1
    /\ pendingRequests' = waiting \cup {nextRequestId}
    /\ inbox' = Transmit(box, Request(nextRequestId, method, subject))

Awaiting(ids) == {c \in Calls : awaits[c] # 0 /\ awaits[c] \in ids}

\* Mutant: a failed handshake stays cached.
CacheWithout_Keeps(ids) == initializing

\* The handlers of a rejected handshake run before anyone starts another.
CacheWithout(ids) == IF initializing \in ids THEN 0 ELSE initializing

\* Mutant: the entries are dropped and their promises forgotten.
Settle_Forgets(ids, losers) ==
    /\ pendingRequests' = pendingRequests \ ids
    /\ UNCHANGED <<awaits, pc>>

\* Nobody awaits the requests `ids` any more, and the calls `losers` fail.
Settle(ids, losers) ==
    /\ pendingRequests' = pendingRequests \ ids
    /\ awaits' = [c \in Calls |-> IF c \in Awaiting(ids) THEN 0 ELSE awaits[c]]
    /\ pc' = [c \in Calls |-> IF c \in losers THEN "failed" ELSE pc[c]]

\* Mutant: no `finally`, the turn stays registered.
RejectRequest_KeepsTurn(id) ==
    /\ Settle({id}, Awaiting({id}))
    /\ initializing' = CacheWithout({id})
    /\ UNCHANGED pendingTurns

\* Mutant: a request that fails is taken for a lost connection.
RejectRequest_DropsAll(id) ==
    /\ Settle(pendingRequests, Awaiting(pendingRequests))
    /\ pendingTurns' = pendingTurns \ Awaiting(pendingRequests)
    /\ initializing' = CacheWithout(pendingRequests)

\* A request is rejected: the calls that await it fail, their `finally`
\* unregisters the turn, and a failed handshake leaves the cache.
RejectRequest(id) ==
    /\ Settle({id}, Awaiting({id}))
    /\ pendingTurns' = pendingTurns \ Awaiting({id})
    /\ initializing' = CacheWithout({id})

\* Mutant: the registered turns are not woken.
RejectPending_RequestsOnly ==
    /\ Settle(pendingRequests, Awaiting(pendingRequests))
    /\ UNCHANGED <<completion, pendingTurns>>

\* rejectPending(): every request, then every registered turn.
RejectPending ==
    /\ Settle(pendingRequests,
              Awaiting(pendingRequests) \cup {c \in pendingTurns : pc[c] = "race"})
    /\ completion' = [c \in Calls |->
                         IF c \in pendingTurns THEN "rejected" ELSE completion[c]]
    /\ pendingTurns' = {}

-----------------------------------------------------------------------------
(* complete(): up to the handshake, then one step per awaited answer.      *)

\* ensureInitialized(): start a handshake, join the one under way or find it done.
BeginHandshake(c) ==
    /\ initializing = 0
    /\ Issue(pendingRequests, inbox, "initialize", c)
    /\ initializing' = nextRequestId
    /\ awaits' = [awaits EXCEPT ![c] = nextRequestId]
    /\ pc' = [pc EXCEPT ![c] = "initialize"]

JoinHandshake(c) ==
    /\ initializing \in pendingRequests
    /\ awaits' = [awaits EXCEPT ![c] = initializing]
    /\ pc' = [pc EXCEPT ![c] = "initialize"]
    /\ UNCHANGED <<initializing, nextRequestId, pendingRequests, inbox>>

FindHandshake(c) ==
    /\ initializing \notin {0} \cup pendingRequests
    /\ pc' = [pc EXCEPT ![c] = "startThread"]
    /\ UNCHANGED <<awaits, initializing, nextRequestId, pendingRequests, inbox>>

RefuseCall(c) ==
    /\ pc' = [pc EXCEPT ![c] = "failed"]
    /\ UNCHANGED <<awaits, initializing, nextRequestId, pendingRequests, inbox>>

\* complete() up to its first await.
Complete(c) ==
    /\ Macrotask
    /\ pc[c] = "idle"
    /\ IF closed THEN RefuseCall(c)
       ELSE BeginHandshake(c) \/ JoinHandshake(c) \/ FindHandshake(c)
    /\ UNCHANGED <<text, raced, completion, timeout, closed, pendingTurns, turnVars,
                   crashed, conn, serverVars>>

\* The continuation after `await this.ensureInitialized()`.
StartThread(c) ==
    /\ ~crashed
    /\ pc[c] = "startThread"
    /\ Issue(pendingRequests, inbox, "thread/start", c)
    /\ awaits' = [awaits EXCEPT ![c] = nextRequestId]
    /\ pc' = [pc EXCEPT ![c] = "thread"]
    /\ UNCHANGED <<text, raced, completion, timeout, closed, initializing,
                   pendingTurns, turnVars, crashed, conn, serverVars>>

\* The continuation after thread/start: the turn is registered and its timer
\* started before turn/start is sent, since a notification may come first.
RegisterTurn(c, thread) ==
    /\ threadId' = [threadId EXCEPT ![c] = thread]
    /\ pendingTurns' = pendingTurns \cup {c}
    /\ completion' = [completion EXCEPT ![c] = "pending"]
    /\ timeout' = [timeout EXCEPT ![c] = "pending"]
    /\ UNCHANGED <<turnId, chunks>>

\* Mutant: turn/start's answer counts as the end of the turn.
RaceOutcome_AnswerIsTheEnd(c) ==
    IF completion[c] = "rejected" THEN "failed" ELSE "ok"

\* Promise.race takes the first of the two promises that is settled already,
\* `completion` before `timeout`, and waits if neither is.
RaceOutcome(c) ==
    CASE completion[c] = "resolved" -> "ok"
      [] completion[c] = "rejected" -> "failed"
      [] completion[c] = "pending" /\ timeout[c] = "rejected" -> "failed"
      [] OTHER -> "race"

\* The continuation after turn/start; an answer without turn.id leaves the id
\* unknown.
EnterRace(c, turn) ==
    /\ turnId' = [turnId EXCEPT ![c] = turn]
    /\ raced' = raced \cup {c}
    /\ pc' = [pc EXCEPT ![c] = RaceOutcome(c)]
    /\ text' = [text EXCEPT ![c] = IF RaceOutcome(c) = "ok" THEN chunks[c] ELSE @]
    /\ pendingTurns' = IF RaceOutcome(c) = "race" THEN pendingTurns ELSE pendingTurns \ {c}
    /\ UNCHANGED <<threadId, chunks, completion, timeout>>

-----------------------------------------------------------------------------
(* handleMessage: responses.  The server answers its requests in any order *)
(* and as late as it likes; an answer nobody waits for is ignored.         *)

Answering(r) == Macrotask /\ conn = "open" /\ r \in inbox

InitializeResult(r) ==
    /\ Answering(r)
    /\ r.method = "initialize"
    /\ handshakes' = handshakes \cup {r.id}
    /\ inbox' = inbox \ {r}
    /\ pendingRequests' = pendingRequests \ {r.id}
    /\ LET woken == IF r.id \in pendingRequests THEN Awaiting({r.id}) ELSE {}
       IN  /\ pc' = [c \in Calls |-> IF c \in woken THEN "startThread" ELSE pc[c]]
           /\ awaits' = [c \in Calls |-> IF c \in woken THEN 0 ELSE awaits[c]]
    /\ UNCHANGED <<text, raced, completion, timeout, closed, initializing, nextRequestId,
                   pendingTurns, turnVars, crashed, conn, serverTurn, said>>

ThreadStartResult(r) ==
    /\ Answering(r)
    /\ r.method = "thread/start"
    /\ r.id \in pendingRequests
    /\ \E c \in Awaiting({r.id}) :
         /\ RegisterTurn(c, r.subject)
         /\ Issue(pendingRequests \ {r.id}, inbox \ {r}, "turn/start", r.subject)
         /\ awaits' = [awaits EXCEPT ![c] = nextRequestId]
         /\ pc' = [pc EXCEPT ![c] = "turn"]
    /\ UNCHANGED <<text, raced, closed, initializing, crashed, conn, serverVars>>

TurnStartResult(r) ==
    /\ Answering(r)
    /\ r.method = "turn/start"
    /\ serverTurn[r.subject] # "absent"
    /\ r.id \in pendingRequests
    /\ \E c \in Awaiting({r.id}) :
         /\ \E turn \in {r.subject, None} : EnterRace(c, turn)
         /\ awaits' = [awaits EXCEPT ![c] = 0]
    /\ pendingRequests' = pendingRequests \ {r.id}
    /\ inbox' = inbox \ {r}
    /\ UNCHANGED <<closed, initializing, nextRequestId, crashed, conn, serverVars>>

\* A JSON-RPC error, or a thread/start result without thread.id.
ErrorResponse(r) ==
    /\ Answering(r)
    /\ r.method # "turn/interrupt"
    /\ r.method = "turn/start" => serverTurn[r.subject] = "absent"
    /\ r.id \in pendingRequests
    /\ RejectRequest(r.id)
    /\ inbox' = inbox \ {r}
    /\ UNCHANGED <<text, raced, completion, timeout, closed, nextRequestId, turnVars,
                   crashed, conn, serverVars>>

\* The answer to a request that timed out in the meantime, whichever it is.
LateResponse(r) ==
    /\ Answering(r)
    /\ r.method # "turn/interrupt"
    /\ r.id \notin pendingRequests
    /\ inbox' = inbox \ {r}
    /\ UNCHANGED <<callVars, closed, initializing, nextRequestId, pendingRequests,
                   pendingTurns, turnVars, crashed, conn, serverVars>>

\* The server stops the turn; its notification finds no registered turn,
\* because complete() unregistered it when it sent the interrupt.
InterruptResponse(r) ==
    /\ Answering(r)
    /\ r.method = "turn/interrupt"
    /\ serverTurn' = [serverTurn EXCEPT ![r.subject] =
                         IF @ = "running" THEN "interrupted" ELSE @]
    /\ pendingRequests' = pendingRequests \ {r.id}
    /\ inbox' = inbox \ {r}
    /\ UNCHANGED <<callVars, closed, initializing, nextRequestId, pendingTurns, turnVars,
                   crashed, conn, handshakes, said>>

\* The server starts the turn; its answer and its notifications follow in
\* any order.
ServerStartsTurn(r) ==
    /\ ~crashed /\ conn = "open" /\ r \in inbox
    /\ r.method = "turn/start"
    /\ serverTurn[r.subject] = "absent"
    /\ serverTurn' = [serverTurn EXCEPT ![r.subject] = "running"]
    /\ UNCHANGED <<callVars, closed, initializing, nextRequestId, pendingRequests,
                   pendingTurns, turnVars, crashed, conn, inbox, handshakes, said>>

-----------------------------------------------------------------------------
(* handleMessage: notifications.                                           *)

\* Mutant: notifications are not told apart by thread.
FindTurn_AnyThread(thread, turn) ==
    {c \in pendingTurns : turnId[c] # None /\ turn # None => turnId[c] = turn}

\* Threads are unique, so at most one registered turn matches.
FindTurn(thread, turn) ==
    {c \in pendingTurns : /\ threadId[c] = thread
                          /\ turnId[c] # None /\ turn # None => turnId[c] = turn}

\* Mutant: whatever ended is a success.
Outcome_AnyStatus(status) == "resolved"

\* Failure is told by turn.status alone.
Outcome(status) == IF status = "completed" THEN "resolved" ELSE "rejected"

HandleDelta(thread) ==
    /\ Macrotask /\ conn = "open"
    /\ serverTurn[thread] = "running"
    /\ said[thread] < MaxDeltas
    /\ said' = [said EXCEPT ![thread] = @ + 1]
    /\ chunks' = [c \in Calls |->
                     IF c \in FindTurn(thread, thread)
                     THEN Append(chunks[c], <<thread, said[thread] + 1>>)
                     ELSE chunks[c]]
    /\ UNCHANGED <<callVars, closed, initializing, nextRequestId, pendingRequests,
                   pendingTurns, threadId, turnId, crashed, conn, inbox, handshakes,
                   serverTurn>>

\* turn/completed: the turn leaves pendingTurns, its promise settles by the
\* status, and a call that is already racing settles with it.
HandleCompleted(thread, status) ==
    /\ Macrotask /\ conn = "open"
    /\ serverTurn[thread] = "running"
    /\ serverTurn' = [serverTurn EXCEPT ![thread] = status]
    /\ LET found == FindTurn(thread, thread)
           racing == {c \in found : pc[c] = "race"}
           good == Outcome(status) = "resolved"
       IN  /\ pendingTurns' = pendingTurns \ found
           /\ completion' = [c \in Calls |->
                 IF c \in found THEN Outcome(status) ELSE completion[c]]
           /\ pc' = [c \in Calls |->
                 IF c \notin racing THEN pc[c] ELSE IF good THEN "ok" ELSE "failed"]
           /\ text' = [c \in Calls |->
                 IF c \in racing /\ good THEN chunks[c] ELSE text[c]]
    /\ UNCHANGED <<awaits, raced, timeout, closed, initializing, nextRequestId,
                   pendingRequests, turnVars, crashed, conn, inbox, handshakes, said>>

-----------------------------------------------------------------------------
(* Timers, close() and the loss of the socket.                             *)

RequestTimeout(id) ==
    /\ Macrotask
    /\ id \in pendingRequests
    /\ RejectRequest(id)
    /\ UNCHANGED <<text, raced, completion, timeout, closed, nextRequestId, turnVars,
                   crashed, conn, inbox, serverVars>>

\* Mutant: the turn is abandoned.
Interrupt_Never(c) == UNCHANGED <<nextRequestId, pendingRequests, inbox>>

\* interrupt(): nothing is sent while the turn's id is unknown.
Interrupt(c) ==
    \/ /\ turnId[c] # None
       /\ Issue(pendingRequests, inbox, "turn/interrupt", threadId[c])
    \/ /\ turnId[c] = None
       /\ UNCHANGED <<nextRequestId, pendingRequests, inbox>>

\* The timer of complete(), cleared by its `finally`.  While turn/start is
\* pending it fires only if it is shorter than the request timer.
TurnTimeout(c) ==
    /\ Macrotask
    /\ timeout[c] = "pending"
    /\ pc[c] = "race" \/ (pc[c] = "turn" /\ ShortTurnTimeout)
    /\ timeout' = [timeout EXCEPT ![c] = "rejected"]
    /\ Interrupt(c)
    /\ IF pc[c] = "race"
       THEN /\ pc' = [pc EXCEPT ![c] = "failed"]
            /\ pendingTurns' = pendingTurns \ {c}
       ELSE UNCHANGED <<pc, pendingTurns>>
    /\ UNCHANGED <<awaits, text, raced, completion, closed, initializing, turnVars,
                   crashed, conn, serverVars>>

Close ==
    /\ Macrotask
    /\ ~closed
    /\ closed' = TRUE
    /\ RejectPending
    /\ initializing' = CacheWithout(pendingRequests)
    /\ conn' = IF conn = "open" THEN "closing" ELSE conn
    /\ UNCHANGED <<text, raced, timeout, nextRequestId, turnVars, crashed, inbox,
                   serverVars>>

\* The socket's close event, by loss of the connection or after close().
\* The cached handshake is forgotten even when it had succeeded.
HandleTransportClosed ==
    /\ Macrotask
    /\ conn # "closed"
    /\ conn' = "closed"
    /\ initializing' = 0
    /\ RejectPending
    /\ inbox' = {}
    /\ UNCHANGED <<text, raced, timeout, closed, nextRequestId, turnVars, crashed,
                   serverVars>>

-----------------------------------------------------------------------------
Respond ==
    \E r \in inbox :
        \/ InitializeResult(r)
        \/ ThreadStartResult(r)
        \/ TurnStartResult(r)
        \/ ErrorResponse(r)
        \/ LateResponse(r)
        \/ InterruptResponse(r)

Notify ==
    \E c \in Calls :
        \/ HandleDelta(c)
        \/ \E status \in {"completed", "failed"} : HandleCompleted(c, status)

RequestTimer == \E id \in pendingRequests : RequestTimeout(id)

Next ==
    \/ \E c \in Calls : Complete(c) \/ StartThread(c) \/ TurnTimeout(c)
    \/ Respond
    \/ \E r \in inbox : ServerStartsTurn(r)
    \/ Notify
    \/ RequestTimer
    \/ Close
    \/ HandleTransportClosed
    \/ ProcessCrash

Spec == Init /\ [][Next]_vars

-----------------------------------------------------------------------------
(* Properties.                                                             *)

Settled == {"ok", "failed"}
Waiting == {"initialize", "thread", "turn"}

CallTypes ==
    /\ pc \in [Calls -> {"idle", "startThread", "race"} \cup Waiting \cup Settled]
    /\ awaits \in [Calls -> Nat]
    /\ text \in [Calls -> Seq(Calls \X Nat)]
    /\ raced \subseteq Calls
    /\ completion \in [Calls -> {"none", "pending", "resolved", "rejected"}]
    /\ timeout \in [Calls -> {"none", "pending", "rejected"}]

\* Request ids in use were handed out before.
RequestTypes ==
    /\ nextRequestId \in Nat \ {0}
    /\ initializing \in 0 .. nextRequestId - 1
    /\ pendingRequests \subseteq 1 .. nextRequestId - 1
    /\ handshakes \subseteq 1 .. nextRequestId - 1
    /\ inbox \subseteq [id : 1 .. nextRequestId - 1, method : Methods, subject : Calls]

TurnTypes ==
    /\ pendingTurns \subseteq Calls
    /\ threadId \in [Calls -> Calls \cup {None}]
    /\ turnId \in [Calls -> Calls \cup {None}]
    /\ chunks \in [Calls -> Seq(Calls \X Nat)]

ServerTypes ==
    /\ closed \in BOOLEAN
    /\ crashed \in BOOLEAN
    /\ conn \in {"open", "closing", "closed"}
    /\ serverTurn \in [Calls -> {"absent", "running", "completed", "failed", "interrupted"}]
    /\ said \in [Calls -> Nat]

\* The types of all variables, and the range of the request ids: an id is used
\* once, so an answer can only ever reach the request it belongs to.
TypeOK == CallTypes /\ RequestTypes /\ TurnTypes /\ ServerTypes

Written(c) == [k \in 1..said[c] |-> <<c, k>>]

\* A successful call returns every piece the server wrote in its own thread, in
\* order and nothing else, whatever other calls stream on the same socket and
\* whichever of turn/start's answer and the notifications comes first
\* (app-server.client.ts: registration before turn/start, handleDelta).
OwnText == \A c \in Calls : pc[c] = "ok" => text[c] = Written(c)

\* A call succeeds only when the server reported turn.status "completed" for
\* its own turn: neither turn/start's answer nor another status is success.
SuccessIsCompleted == \A c \in Calls : pc[c] = "ok" => serverTurn[c] = "completed"

\* Whatever a call awaits can still wake it: the request it awaits is
\* registered with a running timer, the turn it races for is registered with a
\* running timer.  RETRO-0017 is the story of calls that hung without this.
NoOrphanWaiter ==
    \A c \in Calls :
        /\ pc[c] \in Waiting => awaits[c] \in pendingRequests
        /\ pc[c] = "race" => c \in pendingTurns /\ timeout[c] = "pending"

\* A settled call has left nothing in the client: no registered turn that a
\* late notification could still write to, and no awaited request.
SettledLeavesNothing ==
    \A c \in Calls : pc[c] \in Settled => c \notin pendingTurns /\ awaits[c] = 0

\* The handshake cache never holds a failed attempt: what is cached is under
\* way or was answered by the server, so one failure does not fail later calls.
HandshakeNotStuck ==
    initializing # 0 => initializing \in pendingRequests \cup handshakes

\* After close() nothing is pending and no call is left half way, so the
\* process has no timer or promise that keeps it from ending.
ClosedIsQuiet ==
    closed =>
        /\ pendingRequests = {} /\ pendingTurns = {}
        /\ \A c \in Calls : pc[c] \in {"idle"} \cup Settled

\* However calls, answers, timers, a lost socket and close() interleave, nothing is
\* left in the client that waits for what cannot come or that nobody waits for.
NothingStuck ==
    NoOrphanWaiter /\ SettledLeavesNothing /\ HandshakeNotStuck /\ ClosedIsQuiet

\* A call that gave up waiting for turn/completed and knows the id of its turn
\* has told the server: as long as the turn runs there, an interrupt is on its way (interrupt() in the
\* timer of complete()).
RacedTimeoutInterrupts ==
    \A c \in raced :
        /\ turnId[c] # None
        /\ timeout[c] = "rejected"
        /\ conn = "open"
        /\ serverTurn[c] = "running"
        => \E r \in inbox : r.method = "turn/interrupt" /\ r.subject = c

\* A step that does not concern the connection settles at most one of the calls
\* that have a thread: concurrent calls do not fail or finish each other.
CallsAreIsolated ==
    [][conn' = conn /\ closed' = closed =>
         \A c, d \in Calls :
            /\ pc[c] \in {"thread", "turn", "race"} /\ pc'[c] \in Settled
            /\ pc[d] \in {"thread", "turn", "race"} /\ pc'[d] \in Settled
            => c = d]_vars

\* The client implements LlmTransport.
Status ==
    [c \in Calls |-> IF pc[c] \in {"idle"} \cup Settled THEN pc[c] ELSE "running"]
Verdict ==
    [c \in Calls |-> CASE serverTurn[c] \in {"absent", "running"} -> "none"
                       [] serverTurn[c] = "completed" -> "completed"
                       [] OTHER -> "failed"]
Transport == INSTANCE LlmTransport WITH status <- Status, verdict <- Verdict

\* Seen from its callers the client is LlmTransport: each call settles once, a
\* success carries the whole answer to that call, and failures are errors.
ImplementsTransport == Transport!Spec

\* What flow.md says of failed turns and documents: the call fails, the process
\* goes on (before close(), which only runs when the process ends anyway).
ProcessSurvives == crashed => closed
=============================================================================
