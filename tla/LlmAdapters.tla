------------------------------ MODULE LlmAdapters ------------------------------
(* createLlmCli and llmAdapter: an application makes its LLM calls over the one  *)
(* transport its configuration names (apps/api/src/llm/llm-cli.ts,              *)
(* apps/pipeline/src/main.ts).                                                  *)
EXTENDS AppServerTransport

CONSTANTS
    Transports,     \* what a configuration may name
    MaxPieces       \* bound: pieces of an answer of a call of its own

ASSUME AdaptersAssumption ==
    /\ Transports \subseteq {"responses", "app-server", "claude"}
    /\ MaxPieces \in Nat

VARIABLES transport, stage, got, answer, written, ending

Direct ==
    INSTANCE DirectCalls WITH
        text <- answer, said <- written, verdict <- ending

adapterVars == <<vars, lifeVars, transport, stage, got, answer, written, ending>>

\* Only the resident transport starts something.
AdaptersInit ==
    /\ Init
    /\ Direct!Begin
    /\ app \in {"api", "pipeline"}
    /\ transport \in Transports
    /\ start = IF transport = "app-server" THEN "spawn" ELSE "up"
    /\ child = "none" /\ told = "none"
    /\ down = FALSE

Resident ==
    /\ transport = "app-server"
    /\ LifeNext
    /\ UNCHANGED <<transport, stage, got, answer, written, ending>>

\* close() of these adapters does nothing, or is not there.
PerCall ==
    /\ transport # "app-server"
    /\ Direct!DirectNext
    /\ UNCHANGED <<vars, start, child, told>>

AdaptersNext == Resident \/ PerCall

AdaptersSpec == AdaptersInit /\ [][AdaptersNext]_adapterVars

AdaptersFairSpec == AdaptersSpec /\ LifeFairness /\ Direct!DirectFairness

--------------------------------------------------------------------------------
(* Properties.                                                                  *)

\* Seen from its callers, a call over the Responses endpoint or `claude -p` is a
\* call of LlmTransport too: it settles once, and what it returns is all that was
\* written to it, in order, and never after a failure was reported. (An answer that
\* was cut short counts as one, responses.client.ts:158.)
DirectCallsAnswer == Direct!Calling!Spec

\* The transport comes up or fails, and closes, and a call over any transport settles,
\* without help from a server, a network or a model, unless the process ends.
AdaptersSettle ==
    /\ LifecycleSettles
    /\ \A c \in Calls :
          pc[c] # "idle" \/ stage[c] # "idle" ~>
              pc[c] \in Settled \/ stage[c] \in Settled \/ ~Alive

\* The states of the lifecycle and of the calls, and no piece read twice.
AdaptersTypeOK == LifeTypeOK /\ Direct!DirectTypeOK
================================================================================
