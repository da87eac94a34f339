------------------------------ MODULE MCLzFind ------------------------------
(* All finders on all inputs of eight bits that lie in memory, and on a few    *)
(* longer ones, which are also read in pieces into a window that moves.        *)
EXTENDS LzFind

MCFinders == {<<"bt", 2>>, <<"bt", 3>>, <<"bt", 4>>, <<"bt", 5>>, <<"hc", 4>>, <<"hc", 5>>,
              <<"mt", 2>>, <<"mt", 3>>, <<"mt", 4>>, <<"mt", 5>>}

Finder(f, data, direct, piece, cut) ==
  [tree |-> f[1], n |-> f[2], data |-> data, direct |-> direct, piece |-> piece, cut |-> cut]

MCLong ==
  {<<0,0,0,1,0,0,1,1,0,1,0,1,1,1,1,0,0,0,0,1,1,0,1,0,0,1,0,0>>,
   <<1,1,0,1,1,0,1,1,0,1,1,0,0,1,0,0,1,0,1,1,1,1,1,1,1,1,0,1>>}

MCConfs ==
  {Finder(f, d, TRUE, 0, c) : f \in MCFinders, d \in [1..8 -> {0, 1}], c \in {1, 9}}
  \cup {Finder(f, d, direct, p, c) : f \in MCFinders, d \in MCLong, direct \in BOOLEAN,
                                     p \in {2, 50}, c \in {2, 9}}
=============================================================================
