---------------------------- MODULE MCWatchLoop ----------------------------
(***************************************************************************)
(* Two sources, two edits and at most two events of noise waiting: one     *)
(* edit can land in a run and the other in the rerun it causes.            *)
(***************************************************************************)
EXTENDS WatchLoop
=============================================================================
