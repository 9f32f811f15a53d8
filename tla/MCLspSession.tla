---------------------------- MODULE MCLspSession ----------------------------
(***************************************************************************)
(* A session of at most MaxSent client messages: enough for a shutdown and *)
(* its exit inside any of the windows, behind a query or a second reload,  *)
(* with the answers to the creates that those messages race.               *)
(***************************************************************************)
EXTENDS LspSession
=============================================================================
