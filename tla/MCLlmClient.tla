---------------------------- MODULE MCLlmClient ----------------------------
(***************************************************************************)
(* Five attempts, three more than the code makes, for either kind of call. *)
(***************************************************************************)
EXTENDS LlmClient
=============================================================================
