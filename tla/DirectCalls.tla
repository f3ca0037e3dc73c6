----------------------------- MODULE DirectCalls -----------------------------
(* The calls that share nothing: the Responses endpoint, one HTTP stream per    *)
(* call (packages/llm/src/responses.client.ts), and `claude -p`, one child      *)
(* process per call (apps/api/src/llm/llm-cli.ts; apps/pipeline/src/llm).       *)
(*                                                                              *)
(* Who answers writes pieces of text and ends; the pieces arrive in order, and  *)
(* later. "cut" is an end without a word of failure: an incomplete response, or *)
(* a stream that closes early.                                                  *)
EXTENDS Naturals, Sequences

CONSTANTS
    Calls,          \* the calls of complete()
    MaxPieces       \* bound: pieces of an answer

VARIABLES
    app,            \* "api" or "pipeline"
    transport,      \* "responses" or "claude"
    stage,          \* where the call is
    got,            \* pieces it has read
    text,           \* what it returned
    said,           \* pieces written to it
    verdict,        \* how the writing ended
    down            \* the process of the application has ended

directVars == <<app, transport, stage, got, text, said, verdict, down>>

Begin ==
    /\ stage = [c \in Calls |-> "idle"]
    /\ got = [c \in Calls |-> <<>>]
    /\ text = [c \in Calls |-> <<>>]
    /\ said = [c \in Calls |-> 0]
    /\ verdict = [c \in Calls |-> "absent"]

Running == {"request", "body", "stream", "child", "late"}

Moves(c, to) ==
    /\ ~down
    /\ stage' = [stage EXCEPT ![c] = to]
    /\ UNCHANGED <<app, transport, said, down>>

Fails(c) == Moves(c, "failed") /\ UNCHANGED <<got, text, verdict>>

Returns(c) ==
    /\ Moves(c, "ok")
    /\ text' = [text EXCEPT ![c] = got[c]]
    /\ UNCHANGED <<got, verdict>>

\* Everything that was written has been read.
Drained(c) == Len(got[c]) = said[c]

Reads_Again(c) ==
    /\ stage[c] \in {"stream", "child", "late"}
    /\ said[c] > 0 /\ Len(got[c]) <= said[c]
    /\ Moves(c, stage[c])
    /\ got' = [got EXCEPT ![c] = Append(@, <<c, Len(@) + 1>>)]
    /\ UNCHANGED <<text, verdict>>

Reads(c) ==
    /\ stage[c] \in {"stream", "child", "late"}
    /\ ~Drained(c)
    /\ Moves(c, stage[c])
    /\ got' = [got EXCEPT ![c] = Append(@, <<c, Len(@) + 1>>)]
    /\ UNCHANGED <<text, verdict>>

--------------------------------------------------------------------------------
(* Responses.                                                                   *)

\* The credentials are read for every call, before its timer starts.
Request(c) ==
    /\ transport = "responses" /\ stage[c] = "idle"
    /\ Moves(c, "request") /\ UNCHANGED <<got, text, verdict>>

NoCredentials(c) == transport = "responses" /\ stage[c] = "idle" /\ Fails(c)

Accepted(c) ==
    /\ stage[c] = "request"
    /\ Moves(c, "stream")
    /\ verdict' = [verdict EXCEPT ![c] = "running"]
    /\ UNCHANGED <<got, text>>

\* 401, no body, or no connection.
Unauthorized(c) == stage[c] = "request" /\ Fails(c)

\* Another status: a bounded part of the body is read for the message.
Refused(c) ==
    /\ stage[c] = "request"
    /\ Moves(c, "body") /\ UNCHANGED <<got, text, verdict>>

ErrorSummary(c) == stage[c] = "body" /\ Fails(c)

\* An error event, an event that is no JSON, or a read that fails.
StreamBreaks(c) == stage[c] = "stream" /\ Fails(c)

StreamEnds_AnyEnd(c) ==
    /\ stage[c] = "stream" /\ verdict[c] # "running" /\ Drained(c)
    /\ IF got[c] = <<>> THEN Fails(c) ELSE Returns(c)

\* readOutputText() returned: no terminal event is asked for, an empty text fails.
StreamEnds(c) ==
    /\ stage[c] = "stream" /\ verdict[c] \in {"completed", "cut"} /\ Drained(c)
    /\ IF got[c] = <<>> THEN Fails(c) ELSE Returns(c)

--------------------------------------------------------------------------------
(* claude -p.                                                                   *)

Spawn(c) ==
    /\ transport = "claude" /\ stage[c] = "idle"
    /\ Moves(c, "child")
    /\ verdict' = [verdict EXCEPT ![c] = "running"]
    /\ UNCHANGED <<got, text>>

CannotSpawn(c) == transport = "claude" /\ stage[c] = "idle" /\ Fails(c)

CliCloses_BeforeOutput(c) ==
    /\ stage[c] \in {"child", "late"} /\ verdict[c] # "running"
    /\ \/ stage[c] = "child" /\ verdict[c] = "completed" /\ Returns(c)
       \/ /\ stage[c] = "late" \/ verdict[c] = "failed" \/ app = "pipeline"
          /\ Fails(c)

\* The close event: the process has exited and its output was read to the end. The
\* pipeline also wants JSON with a text.
CliCloses(c) ==
    /\ stage[c] \in {"child", "late"} /\ verdict[c] # "running" /\ Drained(c)
    /\ \/ stage[c] = "child" /\ verdict[c] = "completed" /\ Returns(c)
       \/ /\ stage[c] = "late" \/ verdict[c] = "failed" \/ app = "pipeline"
          /\ Fails(c)

\* The process exits, by itself or by SIGTERM. If it had not read the prompt, its
\* stdin reports an error, to which only the pipeline listens.
CliExits(c, v, read) ==
    /\ transport = "claude" /\ verdict[c] = "running"
    /\ verdict' = [verdict EXCEPT ![c] = v]
    /\ down' = (down \/ (app = "api" /\ ~read))
    /\ UNCHANGED <<app, transport, stage, got, text, said>>

--------------------------------------------------------------------------------
Timeout_AfterTheAnswer(c) ==
    /\ stage[c] \in {"body", "stream", "child"}
    /\ IF stage[c] = "child" /\ app = "pipeline" /\ verdict[c] # "running"
       THEN Moves(c, "late") /\ UNCHANGED <<got, text, verdict>>
       ELSE Fails(c)

\* The timer: aborts the request, or sends SIGTERM to the process, which may ignore
\* it. The pipeline hears of the abort only if the process was still there, and
\* waits for the close event otherwise.
Timeout(c) ==
    /\ stage[c] \in {"request", "body", "stream", "child"}
    /\ IF stage[c] = "child" /\ app = "pipeline" /\ verdict[c] # "running"
       THEN Moves(c, "late") /\ UNCHANGED <<got, text, verdict>>
       ELSE Fails(c)

\* Who answers writes on, also for a call that has given up.
Speaks(c) ==
    /\ verdict[c] = "running" /\ said[c] < MaxPieces
    /\ said' = [said EXCEPT ![c] = @ + 1]
    /\ UNCHANGED <<app, transport, stage, got, text, verdict, down>>

Concludes(c, v) ==
    /\ transport = "responses" /\ verdict[c] = "running"
    /\ verdict' = [verdict EXCEPT ![c] = v]
    /\ UNCHANGED <<app, transport, stage, got, text, said, down>>

Closes(c) == StreamEnds(c) \/ CliCloses(c)

DirectNext ==
    \E c \in Calls :
        \/ Request(c) \/ NoCredentials(c) \/ Accepted(c) \/ Unauthorized(c)
        \/ Refused(c) \/ ErrorSummary(c) \/ StreamBreaks(c)
        \/ Spawn(c) \/ CannotSpawn(c)
        \/ Reads(c) \/ Closes(c) \/ Timeout(c) \/ Speaks(c)
        \/ \E v \in {"completed", "cut", "failed"} : Concludes(c, v)
        \/ \E v \in {"completed", "failed"}, read \in BOOLEAN : CliExits(c, v, read)

\* Timers fire, and the output of a process that has exited comes to its end.
DirectFairness ==
    \A c \in Calls :
        WF_directVars(Timeout(c)) /\ WF_directVars(Reads(c)) /\ WF_directVars(CliCloses(c))

--------------------------------------------------------------------------------
DirectTypeOK ==
    /\ app \in {"api", "pipeline"}
    /\ stage \in [Calls -> Running \cup {"idle", "ok", "failed"}]
    /\ verdict \in [Calls -> {"absent", "running", "completed", "cut", "failed"}]
    /\ \A c \in Calls : Len(got[c]) <= said[c] /\ said[c] <= MaxPieces

Status == [c \in Calls |-> IF stage[c] \in Running THEN "running" ELSE stage[c]]

\* An answer that was cut counts as one: nothing in the code tells them apart.
Verdict ==
    [c \in Calls |-> CASE verdict[c] \in {"absent", "running"} -> "none"
                       [] verdict[c] = "cut" -> "completed"
                       [] OTHER -> verdict[c]]

Calling == INSTANCE LlmTransport WITH status <- Status, verdict <- Verdict
================================================================================
