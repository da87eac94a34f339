----------------------------- MODULE OrderedLog -----------------------------
(***************************************************************************)
(* What the compression back end promises its caller: blocks handed over   *)
(* one after the other are stored in exactly the order they were handed    *)
(* over, each once, and never before they were handed over.  Blocks are    *)
(* named by the order in which they are accepted: 1, 2, 3, ...             *)
(***************************************************************************)
EXTENDS Integers, Sequences

VARIABLES
  accepted,   \* number of blocks handed over so far
  log         \* the blocks stored so far, in file order

vars == <<accepted, log>>

Init ==
  /\ accepted = 0
  /\ log = << >>

(* The caller hands over one more block. *)
Accept ==
  /\ accepted' = accepted + 1
  /\ UNCHANGED log

(* The oldest block that is not stored yet is stored. *)
Store ==
  /\ Len(log) < accepted
  /\ log' = Append(log, Len(log) + 1)
  /\ UNCHANGED accepted

Next == Accept \/ Store

Spec == Init /\ [][Next]_vars
=============================================================================
