-------------------------- MODULE MCTransferHealth --------------------------
(***************************************************************************)
(* A small instance of TransferHealth, with the stack file's number of     *)
(* retries.                                                                *)
(***************************************************************************)
EXTENDS TransferHealth
=============================================================================
