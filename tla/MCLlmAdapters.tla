---------------------------- MODULE MCLlmAdapters ----------------------------
(* Instances of LlmAdapters for TLC: two concurrent calls.                    *)
EXTENDS LlmAdapters
==============================================================================
