----------------------------- MODULE MCCommand -----------------------------
(***************************************************************************)
(* Command with the whole table of route.go.                               *)
(***************************************************************************)
EXTENDS Command, CommandTable
=============================================================================
