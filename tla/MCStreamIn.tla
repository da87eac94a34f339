----------------------------- MODULE MCStreamIn -----------------------------
(* Chunks of up to five operations of the rzip stage, with more blocks in   *)
(* stream 1 than it has threads, read with two threads and with one.        *)
EXTENDS StreamIn

Ops(n) == UNION {[1 .. k -> {"lit", "match"}] : k \in 1 .. n}
Literals(n) == {[i \in 1 .. k |-> "lit"] : k \in 1 .. n}

Archive(ops, room0, room1, stored) ==
  [ops |-> ops, room |-> [j \in {0, 1} |-> IF j = 0 THEN room0 ELSE room1],
   stored |-> stored]

Mixed(n) == {o \in Ops(n) : o[1] = "lit"}

(* Compressible chunks with several blocks in both streams. *)
Compressible == {Archive(o, 2, 1, FALSE) : o \in Mixed(4)}

(* Compressible chunks whose stream 0 is one block. *)
ShortStream0 == {Archive(o, 8, r, FALSE) : o \in Mixed(5), r \in {1, 2}}

(* Chunks of literals that the back end cannot compress. *)
Incompressible == {Archive(o, 8, 2, TRUE) : o \in Literals(4)}

Mode(h, e, f, x, r) ==
  [hash |-> h, encrypt |-> e, filter |-> f, fails |-> x, maxram |-> r]

(* Memory runs out but no filter is used, or the other way round; with room *)
(* for reading ahead, and without.                                          *)
Sound == {Mode(h, e, f, ~f, r) : h \in BOOLEAN, e \in BOOLEAN,
                                 f \in BOOLEAN, r \in {40, 1000}}

(* All kinds of chunks. *)
All == Compressible \cup ShortStream0 \cup Incompressible

(* An archive with a hash and nothing else; memory runs out with a filter.  *)
Plain == {Mode(TRUE, FALSE, FALSE, FALSE, 1000)}
FilterFails == {Mode(TRUE, FALSE, TRUE, TRUE, 1000)}
=============================================================================
