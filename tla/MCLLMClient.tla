------------------------------ MODULE MCLLMClient ------------------------------
(* LLMClient on a small instance, for TLC. *)
EXTENDS LLMClient

=============================================================================
