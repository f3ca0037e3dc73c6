---------------------------- MODULE LlmTransport ----------------------------
(***************************************************************************)
(* What packages/llm promises its callers (LlmTransport in llm.types.ts):  *)
(* a call of complete() settles once, either with exactly the text the     *)
(* model wrote for that call and only after the model's turn completed, or *)
(* with an error.  Several calls run at the same time.                     *)
(*                                                                         *)
(* The text is a sequence of pieces <<call, k>>: piece k of the answer to  *)
(* that call.                                                              *)
(***************************************************************************)
EXTENDS Naturals, Sequences

CONSTANT Calls            \* the calls of complete() made by the application

VARIABLES status,         \* per call: "idle", "running", "ok" or "failed"
          text,           \* per call: the text it returned, <<>> before
          said,           \* per call: how many pieces the model has written
          verdict         \* per call: how the model's turn ended, if it did

callVars == <<status, text, said, verdict>>

Answer(c) == [k \in 1..said[c] |-> <<c, k>>]

Init ==
    /\ status = [c \in Calls |-> "idle"]
    /\ text = [c \in Calls |-> <<>>]
    /\ said = [c \in Calls |-> 0]
    /\ verdict = [c \in Calls |-> "none"]

Start(c) ==
    /\ status[c] = "idle"
    /\ status' = [status EXCEPT ![c] = "running"]
    /\ UNCHANGED <<text, said, verdict>>

\* A call that was refused before it did anything.
Refuse(c) ==
    /\ status[c] = "idle"
    /\ status' = [status EXCEPT ![c] = "failed"]
    /\ UNCHANGED <<text, said, verdict>>

\* The model writes on, also for a call that has already given up.
Speak(c) ==
    /\ status[c] \in {"running", "failed"}
    /\ verdict[c] = "none"
    /\ said' = [said EXCEPT ![c] = @ + 1]
    /\ UNCHANGED <<status, text, verdict>>

Judge(c, v) ==
    /\ status[c] \in {"running", "failed"}
    /\ verdict[c] = "none"
    /\ verdict' = [verdict EXCEPT ![c] = v]
    /\ UNCHANGED said

\* The call learns that its turn completed, at once or later.
Succeed(c) ==
    /\ status[c] = "running"
    /\ status' = [status EXCEPT ![c] = "ok"]
    /\ text' = [text EXCEPT ![c] = Answer(c)]

\* Any number of running calls may fail together: the connection is shared.
Fail(S) ==
    /\ \A c \in S : status[c] = "running"
    /\ status' = [c \in Calls |-> IF c \in S THEN "failed" ELSE status[c]]
    /\ UNCHANGED text

Next ==
    \/ \E c \in Calls : Start(c) \/ Refuse(c) \/ Speak(c)
    \/ \E c \in Calls : Judge(c, "completed") /\ (Succeed(c) \/ Fail({}))
    \/ \E c \in Calls, S \in SUBSET Calls :
          Judge(c, "failed") /\ S \subseteq {c} /\ Fail(S)
    \/ \E c \in Calls :
          verdict[c] = "completed" /\ Succeed(c) /\ UNCHANGED <<said, verdict>>
    \/ \E S \in SUBSET Calls : Fail(S) /\ UNCHANGED <<said, verdict>>

Spec == Init /\ [][Next]_callVars
=============================================================================
