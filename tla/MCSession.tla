------------------------------ MODULE MCSession ------------------------------
(* Two files on the command line, and every sequence of up to three options.   *)
EXTENDS Session
=============================================================================
