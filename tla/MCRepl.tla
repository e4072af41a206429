------------------------------- MODULE MCRepl -------------------------------
(***************************************************************************)
(* The whole program, from the command line to the exit status, on the     *)
(* compiled scripts of MCVM.                                               *)
(***************************************************************************)
EXTENDS MCVM, Repl
=============================================================================
