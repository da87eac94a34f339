----------------------------- MODULE LzmaState -----------------------------
(***************************************************************************)
(* The state of an LZMA stream between two symbols, as the encoder keeps it *)
(* (lzma/C/LzmaEnc.c): one of twelve states that say which kinds of symbol  *)
(* came last, and the last four distances.  A symbol is a record with the   *)
(* fields kind, len and dist; kind is literal, short, rep or match, and for *)
(* rep "dist" is the index of the distance repeated.                        *)
(***************************************************************************)
EXTENDS Integers, Sequences

kLiteralNextStates  == <<0, 0, 0, 0, 1, 2, 3, 4, 5, 6, 4, 5>>
IsLitState(s)       == s < 7
LiteralNext(s)      == kLiteralNextStates[s + 1]
MatchNext(s) == IF IsLitState(s) THEN 7 ELSE 10
RepNext(s)          == IF IsLitState(s) THEN 8 ELSE 11
ShortRepNext(s)     == IF IsLitState(s) THEN 9 ELSE 11

\* The last four distances after a match of distance d, or after rep i.
Reps(reps, sym) ==
    CASE sym.kind = "match" -> <<sym.dist + 1, reps[1], reps[2], reps[3]>>
      [] sym.kind = "rep" /\ sym.dist = 1 -> <<reps[2], reps[1], reps[3], reps[4]>>
      [] sym.kind = "rep" /\ sym.dist = 2 -> <<reps[3], reps[1], reps[2], reps[4]>>
      [] sym.kind = "rep" /\ sym.dist = 3 -> <<reps[4], reps[1], reps[2], reps[3]>>
      [] OTHER -> reps
=============================================================================
