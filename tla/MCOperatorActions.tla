--------------------------- MODULE MCOperatorActions ---------------------------
(***************************************************************************)
(* OperatorActions on a small instance, for TLC.                           *)
(***************************************************************************)
EXTENDS OperatorActions

=============================================================================
