--------------------------- MODULE MCLoveArchive ---------------------------
(***************************************************************************)
(* Builds of one entry in each mode, with src/conf.lua and one asset the   *)
(* user adds and removes, where the PATH has zip.                          *)
(***************************************************************************)
EXTENDS BuildOutputs

CONSTANTS main, conf, picture

MCEntries == <<main>>
MCNameOf  == [e \in {main} |-> e]
=============================================================================
