----------------------------- MODULE MCLzFindMt -----------------------------
(* Inputs for the multithreaded match finder: short ones that lie in memory;   *)
(* one that is longer than the counter of available bytes can say, and so long *)
(* that the sum for a block of matches would pass it too; and two that are     *)
(* read in pieces and are long enough for the window to move.                  *)
EXTENDS LzFindMt

InMemory(len, streams, entries, failAt) ==
  [direct |-> TRUE, len |-> len, piece |-> 0, streams |-> streams, entries |-> entries,
   failAt |-> failAt]

FromStream(len, piece, entries) ==
  [direct |-> FALSE, len |-> len, piece |-> piece, streams |-> 1, entries |-> entries,
   failAt |-> -1]

MCConfs ==
  {InMemory(n, 2, e, -1) : n \in {0, 1, 4}, e \in {<<1>>, <<3>>}}
  \cup {InMemory(11, 1, <<1, 5>>, f) : f \in {-1, 0, 5}}
  \cup {InMemory(98, 1, <<1, 5>>, -1)}
  \cup {FromStream(60, 100, <<1>>), FromStream(60, 7, <<3, 5, 1>>)}
=============================================================================
