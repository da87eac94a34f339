---------------------------- MODULE MCRzipSearch ----------------------------
(* All chunks of up to nine letters of an alphabet of two, which are full  *)
(* of matches that overlap each other and themselves.                       *)
EXTENDS RzipSearch

Letters == {"a", "b"}
MaxLen == 9
Words == UNION {[1 .. n -> Letters] : n \in 0 .. MaxLen}

(* The letters may be swapped, so those that begin with one will do. *)
ShortChunks == {w \in Words : w = << >> \/ w[1] = "a"}
=============================================================================
