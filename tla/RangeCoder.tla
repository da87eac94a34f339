----------------------------- MODULE RangeCoder -----------------------------
(***************************************************************************)
(* The adaptive binary range coder of the LZMA SDK (lzma/C/LzmaEnc.c and    *)
(* lzma/C/LzmaDec.c).  The widths are parameters: the code has bytes of 8   *)
(* bits, a range of four bytes, probabilities of 11 bits that move by 1/32. *)
(* A probability is named by its context, a tuple, and is kept in the       *)
(* function "probs" from the moment it first differs from the initial one.  *)
(***************************************************************************)
EXTENDS Integers, Sequences, SequencesExt, TLC

CONSTANTS Byte,             \* the number of values of a byte (256)
          kBitModelTotal,   \* 2^11: a probability of one
          MoveDiv           \* 2^kNumMoveBits: 32

kRange    == Byte * Byte * Byte * Byte        \* one more than the largest range
kTopValue == Byte * Byte * Byte
kProbInitValue == kBitModelTotal \div 2
kMinProb  == MoveDiv - 1                      \* no probability falls below it

\* One byte at a time is enough to bring the range back over kTopValue.
ASSUME RangeAssumption ==
    /\ Byte \in Nat /\ kBitModelTotal \in Nat /\ MoveDiv \in Nat
    /\ kTopValue % kBitModelTotal = 0
    /\ kMinProb * Byte >= kBitModelTotal
    /\ kProbInitValue >= kMinProb

ProbOf(probs, c) == IF c \in DOMAIN probs THEN probs[c] ELSE kProbInitValue

\* UPDATE_0 and UPDATE_1 of a probability.
Moved(t, bit) == IF bit = 0 THEN t + ((kBitModelTotal - t) \div MoveDiv)
                            ELSE t - (t \div MoveDiv)
SetProb(probs, c, bit) == (c :> Moved(ProbOf(probs, c), bit)) @@ probs
-----------------------------------------------------------------------------
(* The encoder: low is one bit wider than the range, so a carry shows; the  *)
(* byte it may still reach is in the cache, followed by cacheSize bytes of  *)
(* all ones.                                                                *)

RangeEnc_Init == [low |-> 0, range |-> kRange - 1, cache |-> 0, cacheSize |-> 0,
                  probs |-> << >>, out |-> << >>]

RangeEnc_ShiftLow(e) ==
    LET low == e.low % kRange
        high == e.low \div kRange
    IN  IF low < (Byte - 1) * kTopValue \/ high # 0
        THEN [e EXCEPT !.low = (low * Byte) % kRange,
                       !.cache = low \div kTopValue, !.cacheSize = 0,
                       !.out = @ \o <<(e.cache + high) % Byte>>
                                 \o [k \in 1..e.cacheSize |-> (high + Byte - 1) % Byte]]
        ELSE [e EXCEPT !.low = (low * Byte) % kRange, !.cacheSize = @ + 1]

RC_NORM(e) == IF e.range < kTopValue
              THEN RangeEnc_ShiftLow([e EXCEPT !.range = @ * Byte]) ELSE e

\* A bit <<context, bit>>, or a direct one of probability one half.
Direct == <<"direct">>

RC_BIT(e, cb) ==
    LET newBound == IF cb[1] = Direct THEN e.range \div 2
                    ELSE (e.range \div kBitModelTotal) * ProbOf(e.probs, cb[1])
        rest == IF cb[1] = Direct THEN newBound ELSE e.range - newBound
    IN  RC_NORM([e EXCEPT !.range = IF cb[2] = 0 THEN newBound ELSE rest,
                          !.low = IF cb[2] = 0 THEN @ ELSE @ + newBound,
                          !.probs = IF cb[1] = Direct THEN @ ELSE SetProb(@, cb[1], cb[2])])

EncodeBits(e, cbs) == FoldLeft(RC_BIT, e, cbs)

RangeEnc_FlushData(e) == FoldLeft(LAMBDA f, k : RangeEnc_ShiftLow(f), e, <<1, 2, 3, 4, 5>>)
-----------------------------------------------------------------------------
(* The decoder reads d.in from d.buf on.  "eof" says that it wanted a byte  *)
(* that is not there: DUMMY_INPUT_EOF in LzmaDec_TryDummy, a read past the  *)
(* buffer in LZMA_DECODE_REAL.  TryDummy leaves the probabilities alone.    *)

NORMALIZE(d) ==
    CASE d.eof \/ d.range >= kTopValue -> d
      [] d.buf = Len(d.in) -> [d EXCEPT !.eof = TRUE]
      [] OTHER -> [d EXCEPT !.range = @ * Byte, !.buf = @ + 1,
                            !.code = (@ * Byte + d.in[d.buf + 1]) % kRange]

\* IF_BIT_0 with UPDATE_0 and UPDATE_1: the bit decoded is left in d.bit.
Bound(d, c) == (d.range \div kBitModelTotal) * ProbOf(d.probs, c)

Update(d, c, bit) == IF d.dummy THEN d.probs ELSE SetProb(d.probs, c, bit)

IF_BIT_0(d, c) ==
    CASE d.eof -> [d EXCEPT !.bit = 0]
      [] ~d.eof /\ d.code < Bound(d, c) ->
           [d EXCEPT !.bit = 0, !.range = Bound(d, c), !.probs = Update(d, c, 0)]
      [] OTHER -> [d EXCEPT !.bit = 1, !.range = @ - Bound(d, c), !.code = @ - Bound(d, c),
                            !.probs = Update(d, c, 1)]

GET_BIT(d, c) == IF_BIT_0(NORMALIZE(d), c)

Halve(d) ==
    LET half == d.range \div 2 IN
    CASE d.eof -> [d EXCEPT !.bit = 0]
      [] ~d.eof /\ d.code < half -> [d EXCEPT !.bit = 0, !.range = half]
      [] OTHER -> [d EXCEPT !.bit = 1, !.range = half, !.code = @ - half]

GET_DIRECT(d) == Halve(NORMALIZE(d))

\* The loops over the bits of a number, which is put together in d.sym: from
\* the highest bit in a tree at element "off" of an array, from the lowest bit
\* in a tree whose root is element i, and from the highest without a tree.
Upto(n) == [k \in 1..n |-> k]

ShiftIn(g) == [g EXCEPT !.sym = 2 * @ + g.bit]

TREE_DECODE(d, c, off, n) ==
    [FoldLeft(LAMBDA g, k : ShiftIn(GET_BIT(g, Append(c, off + g.sym))), [d EXCEPT !.sym = 1], Upto(n))
        EXCEPT !.sym = @ - 2^n]

REV_BIT(g, m) == [g EXCEPT !.sym = @ + m + m * g.bit]

RevBits(d, c, i, n) ==
    [FoldLeft(LAMBDA g, k : REV_BIT(GET_BIT(g, Append(c, g.sym)), 2^(k - 1)), [d EXCEPT !.sym = i], Upto(n))
        EXCEPT !.sym = @ - 2^n]

DirectBits(d, v, n) == FoldLeft(LAMBDA g, k : ShiftIn(GET_DIRECT(g)), [d EXCEPT !.sym = v], Upto(n))
=============================================================================
