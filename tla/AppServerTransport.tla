-------------------------- MODULE AppServerTransport --------------------------
(* AppServerLlmTransport (packages/llm/src/llm.adapter.ts): a `codex app-server` *)
(* that an application starts as its child, waits for, connects to and stops     *)
(* (app-server.process.ts), around the client of AppServerClient.                *)
EXTENDS AppServerClient

VARIABLES
    app,            \* "api" or "pipeline"
    start,          \* where AppServerLlmTransport.start() or close() is
    child,          \* the codex process
    told,           \* the signal it was sent: "none", "TERM" or "KILL"
    down            \* the process of the application has ended

lifeVars == <<app, start, child, told, down>>

Alive == ~down /\ ~crashed

Existing == {"launched", "announced", "ready"}

--------------------------------------------------------------------------------
(* The codex process: it prints its address, then answers readyz with 200, and  *)
(* may exit at any time. What it had sent may still arrive.                     *)

Grows ==
    /\ \/ child = "launched" /\ child' = "announced"
       \/ child = "announced" /\ child' = "ready"
    /\ UNCHANGED <<vars, app, start, told, down>>

Exits ==
    /\ child \in Existing
    /\ child' = "gone"
    /\ UNCHANGED <<vars, app, start, told, down>>

--------------------------------------------------------------------------------
(* start().                                                                     *)

Goes(to) == Alive /\ start' = to /\ UNCHANGED <<vars, app, down>>

Launch ==
    /\ start = "spawn"
    /\ Goes("address")
    /\ child' = "launched"
    /\ UNCHANGED told

\* close() of a process that never was resolves at once.
CannotLaunch == start = "spawn" /\ Goes("failed") /\ UNCHANGED <<child, told>>

ReadAddress ==
    /\ start = "address" /\ child \in {"announced", "ready"}
    /\ Goes("probe") /\ UNCHANGED <<child, told>>

\* readyz is asked again and again; a process that exits meanwhile is not noticed.
Probe ==
    /\ start = "probe" /\ child = "ready"
    /\ Goes("connect") /\ UNCHANGED <<child, told>>

Connect ==
    /\ start = "connect" /\ child = "ready"
    /\ Goes("up") /\ UNCHANGED <<child, told>>

\* killChild(): SIGTERM to a process that has not exited.
KillChild == told' = IF child = "gone" THEN told ELSE "TERM"

GiveUp_KeepsUnconnected ==
    /\ start \in {"address", "probe", "connect"}
    /\ Goes(IF child = "gone" \/ start = "connect" THEN "failed" ELSE "failing")
    /\ IF start = "connect" THEN UNCHANGED told ELSE KillChild
    /\ UNCHANGED child

\* The exit event or a deadline of start(), or the connection that fails or is not
\* there in time: the process is stopped before start() rejects.
GiveUp ==
    /\ start \in {"address", "probe", "connect"}
    /\ Goes(IF child = "gone" THEN "failed" ELSE "failing")
    /\ KillChild
    /\ UNCHANGED child

Grace_NoKill ==
    /\ start \in {"failing", "closing"} /\ told = "TERM" /\ child # "gone"
    /\ Goes(start)
    /\ UNCHANGED <<child, told>>

\* The grace period of killChild() is over.
Grace ==
    /\ start \in {"failing", "closing"} /\ told = "TERM" /\ child # "gone"
    /\ Goes(start)
    /\ told' = "KILL"
    /\ UNCHANGED child

\* The exit event that killChild() waits for.
Reaped ==
    /\ start \in {"failing", "closing"} /\ child = "gone"
    /\ Goes(IF start = "failing" THEN "failed" ELSE "closed")
    /\ UNCHANGED <<child, told>>

--------------------------------------------------------------------------------
(* The adapter in use.                                                          *)

ClientStep ==
    \/ \E c \in Calls : Complete(c) \/ StartThread(c) \/ TurnTimeout(c)
    \/ Respond
    \/ \E r \in inbox : child = "ready" /\ ServerStartsTurn(r)
    \/ Notify
    \/ RequestTimer
    \/ HandleTransportClosed
    \/ ProcessCrash

Uses ==
    /\ ~down /\ start \in {"up", "closing", "closed"}
    /\ ClientStep
    /\ UNCHANGED lifeVars

\* close(), which the hooks of NestJS and the `finally` of the pipeline call.
CloseTransport ==
    /\ ~down /\ start = "up"
    /\ Close
    /\ start' = IF child = "gone" THEN "closed" ELSE "closing"
    /\ KillChild
    /\ UNCHANGED <<app, child, down>>

--------------------------------------------------------------------------------
(* The end of the application, without close().                                 *)

Dies ==
    /\ Alive
    /\ down' = TRUE
    /\ UNCHANGED <<vars, app, start, child, told>>

\* The API installs its hooks when everything is up; the pipeline never does.
Signalled ==
    /\ app = "pipeline" \/ start \notin {"up", "closing", "closed"}
    /\ Dies

\* app.listen() rejects after NestFactory.create() has started the server.
CannotListen ==
    /\ app = "api" /\ start = "up" /\ \A c \in Calls : pc[c] = "idle"
    /\ Dies

LifeNext ==
    \/ Grows \/ Exits
    \/ Launch \/ CannotLaunch \/ ReadAddress \/ Probe \/ Connect
    \/ GiveUp \/ Grace \/ Reaped
    \/ Uses \/ CloseTransport
    \/ Signalled \/ CannotListen

\* Timers fire, promise jobs run, a lost connection is noticed, and SIGKILL ends a
\* process; codex owes nothing.
LifeFairness ==
    /\ \A c \in Calls :
          WF_vars(~down /\ StartThread(c)) /\ WF_vars(~down /\ TurnTimeout(c))
    /\ WF_vars(~down /\ RequestTimer)
    /\ WF_vars(~down /\ ProcessCrash)
    /\ WF_lifeVars(Launch) /\ WF_lifeVars(GiveUp)
    /\ WF_lifeVars(Grace) /\ WF_lifeVars(Reaped)
    /\ WF_lifeVars(told = "KILL" /\ Exits)

--------------------------------------------------------------------------------
(* Properties.                                                                  *)

LifeTypeOK ==
    /\ start \in {"spawn", "address", "probe", "connect", "up", "failing", "failed",
                  "closing", "closed"}
    /\ child \in Existing \cup {"none", "gone"}
    /\ told \in {"none", "TERM", "KILL"}
    /\ down \in BOOLEAN

\* start() does not reject, and close() does not resolve, before codex is gone, in
\* whatever order it announces itself, answers, hangs or exits (llm.adapter.ts:107).
ServerReaped == start \in {"failed", "closed"} => child \notin Existing

\* start() and close() come to an end with a codex that does nothing: it never
\* prints, never answers, exits unnoticed or ignores SIGTERM.
LifecycleSettles ==
    start \in {"spawn", "address", "probe", "connect", "failing", "closing"}
        ~> start \in {"up", "failed", "closed"} \/ ~Alive
================================================================================
