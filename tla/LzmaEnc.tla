------------------------------ MODULE LzmaEnc ------------------------------
(***************************************************************************)
(* What the LZMA encoder writes (lzma/C/LzmaEnc.c): the bits of a literal, *)
(* a match, a repeated match and the end marker, each with the context it  *)
(* is coded in, and the change of state and of the last four distances.    *)
(* The widths of the trees are parameters.                                 *)
(***************************************************************************)
EXTENDS RangeCoder, LzmaState

CONSTANTS LitBits,              \* bits of a byte of data (8)
          kLenNumLowBits,       \* 3
          kLenNumHighBits,      \* 8
          kNumPosSlotBits,      \* 6
          kEndPosModelIndex,    \* 14
          kNumAlignBits         \* 4

LitSize             == 2^LitBits
kLenNumLowSymbols   == 2^kLenNumLowBits
kLenNumHighSymbols  == 2^kLenNumHighBits
kStartPosModelIndex == 4
kNumFullDistances   == 2^(kEndPosModelIndex \div 2)
kAlignMask          == 2^kNumAlignBits - 1
kNumLenToPosStates  == 4
LZMA_MATCH_LEN_MIN  == 2
EndSlot             == 2^kNumPosSlotBits - 1
EndDirect           == (EndSlot \div 2) - 1 - kNumAlignBits    \* 30 - kNumAlignBits
EndDist             == (3 * 2^((EndSlot \div 2) - 1)) + 2^((EndSlot \div 2) - 1) - 1

Bit(v, k) == (v \div 2^k) % 2

\* The bits of v, the highest first: a tree of n levels in the array c.
TreePairs(c, v, n) ==
    [k \in 1..n |-> <<Append(c, (2^n + v) \div 2^(n - k + 1)), Bit(v, n - k)>>]

\* LitEnc_Encode and LitEnc_EncodeMatched: as long as the bits written are
\* those of the byte at distance rep0 that one chooses the tree.
LitEnc_Encode(c, v) == TreePairs(c, v, LitBits)

Agreed(v, match, k) == \A j \in (LitBits - k + 1)..(LitBits - 1) : Bit(v, j) = Bit(match, j)

LitEnc_EncodeMatched(c, v, match) ==
    [k \in 1..LitBits |->
        LET tree == IF Agreed(v, match, k) THEN LitSize + LitSize * Bit(match, LitBits - k) ELSE 0
        IN  <<Append(c, tree + ((LitSize + v) \div 2^(LitBits - k + 1))), Bit(v, LitBits - k)>>]

\* The lowest bit first, from c's element base on.
RECURSIVE RevPairs(_, _, _, _, _)
RevPairs(c, base, v, m, n) ==
    IF n = 0 THEN << >>
    ELSE <<<<Append(c, base + m), v % 2>>>> \o RevPairs(c, base, v \div 2, 2 * m + (v % 2), n - 1)

RcTree_ReverseEncode(c, base, v, n) == RevPairs(c, base, v, 1, n)

LenEnc_Encode(c, sym, posState) ==
    LET low == Append(c, "low")
        at(k) == Append(low, k)
        first == posState * 2 * kLenNumLowSymbols
        tree(base, v) == [k \in 1..kLenNumLowBits |->
            LET t == TreePairs(low, v, kLenNumLowBits)[k] IN <<at(base + t[1][Len(t[1])]), t[2]>>]
    IN  CASE sym < kLenNumLowSymbols -> <<<<at(0), 0>>>> \o tree(first, sym)
          [] sym >= kLenNumLowSymbols /\ sym < 2 * kLenNumLowSymbols ->
               <<<<at(0), 1>>, <<at(kLenNumLowSymbols), 0>>>>
                 \o tree(first + kLenNumLowSymbols, sym - kLenNumLowSymbols)
          [] OTHER -> <<<<at(0), 1>>, <<at(kLenNumLowSymbols), 1>>>>
                 \o TreePairs(Append(c, "high"), sym - 2 * kLenNumLowSymbols, kLenNumHighBits)

\* GetPosSlot: the two highest bits of the distance and how many follow.
GetPosSlot(dist) ==
    IF dist < 4 THEN dist
    ELSE LET zz == CHOOSE z \in 1..30 : (dist \div 2^z) \in 2..3 IN 2 * zz + (dist \div 2^zz)

GetLenToPosState(len) ==
    IF len < kNumLenToPosStates + 1 THEN len - 2 ELSE kNumLenToPosStates - 1

DistPairs(dist, len) ==
    LET slot == GetPosSlot(dist)
        footerBits == (slot \div 2) - 1
    IN  TreePairs(<<"posSlot", GetLenToPosState(len)>>, slot, kNumPosSlotBits)
        \o CASE dist < kStartPosModelIndex -> << >>
             [] dist >= kStartPosModelIndex /\ dist < kNumFullDistances ->
                  RcTree_ReverseEncode(<<"posEncoders">>, (2 + (slot % 2)) * 2^footerBits,
                                       dist, footerBits)
             [] OTHER ->
                  [k \in 1..(footerBits - kNumAlignBits) |-> <<Direct, Bit(dist, footerBits - k)>>]
                    \o RcTree_ReverseEncode(<<"posAlign">>, 0, dist, kNumAlignBits)

\* LIT_PROBS: the low bits of the position and the high ones of the last byte.
LIT_PROBS(conf, pos, prevByte) ==
    <<"lit", ((pos * LitSize + prevByte) % (LitSize * 2^conf.lp)) \div (LitSize \div 2^conf.lc)>>
-----------------------------------------------------------------------------
(* The bits of a whole symbol.                                              *)

RepPairs(s, sym, posState) ==
    LET g0 == <<"isRepG0", s>>
        g1 == <<"isRepG1", s>>
    IN  <<<<<<"isMatch", s, posState>>, 1>>, <<<<"isRep", s>>, 1>>>>
        \o (CASE sym.kind = "short" -> <<<<g0, 0>>, <<<<"isRep0Long", s, posState>>, 0>>>>
             [] sym.kind = "rep" /\ sym.dist = 0 -> <<<<g0, 0>>, <<<<"isRep0Long", s, posState>>, 1>>>>
             [] sym.kind = "rep" /\ sym.dist = 1 -> <<<<g0, 1>>, <<g1, 0>>>>
             [] OTHER -> <<<<g0, 1>>, <<g1, 1>>, <<<<"isRepG2", s>>, sym.dist - 2>>>>)
        \o IF sym.kind = "short" THEN << >>
           ELSE LenEnc_Encode(<<"repLen">>, sym.len - LZMA_MATCH_LEN_MIN, posState)

\* The body of the loop of LzmaEnc_CodeOneBlock, for the symbol the parser
\* chose at position e.nowPos; data is what has been coded before it.
CodeSymbol(e, conf, data, sym) ==
    LET s == e.state
        posState == e.nowPos % 2^conf.pb
        probs == LIT_PROBS(conf, e.nowPos, data[Len(data)])
        is(k) == sym.kind = k
        pairs ==
          CASE is("literal") ->
                 <<<<<<"isMatch", s, posState>>, 0>>>>
                 \o IF IsLitState(s) THEN LitEnc_Encode(probs, sym.byte)
                    ELSE LitEnc_EncodeMatched(probs, sym.byte, data[Len(data) + 1 - e.reps[1]])
            [] is("match") ->
                 <<<<<<"isMatch", s, posState>>, 1>>, <<<<"isRep", s>>, 0>>>>
                 \o LenEnc_Encode(<<"len">>, sym.len - LZMA_MATCH_LEN_MIN, posState)
                 \o DistPairs(sym.dist, sym.len)
            [] OTHER -> RepPairs(s, sym, posState)
    IN  [e EXCEPT !.rc = EncodeBits(@, pairs),
                  !.state = CASE is("literal") -> LiteralNext(s)
                              [] is("match") -> MatchNext(s)
                              [] is("rep") -> RepNext(s)
                              [] OTHER -> ShortRepNext(s),
                  !.reps = Reps(@, sym),
                  !.nowPos = @ + sym.len]

\* The first byte is written without asking the parser and leaves the state.
CodeFirst(e, byte) ==
    [e EXCEPT !.rc = EncodeBits(@, <<<<<<"isMatch", 0, 0>>, 0>>>> \o LitEnc_Encode(<<"lit", 0>>, byte)),
              !.nowPos = 1]

WriteEndMarker(e, conf) ==
    LET s == e.state
        posState == e.nowPos % 2^conf.pb
    IN  [e EXCEPT !.state = MatchNext(s),
                  !.rc = EncodeBits(@,
           <<<<<<"isMatch", s, posState>>, 1>>, <<<<"isRep", s>>, 0>>>>
           \o LenEnc_Encode(<<"len">>, 0, posState)
           \o TreePairs(<<"posSlot", 0>>, EndSlot, kNumPosSlotBits)
           \o [k \in 1..EndDirect |-> <<Direct, 1>>]
           \o RcTree_ReverseEncode(<<"posAlign">>, 0, kAlignMask, kNumAlignBits))]

LzmaEnc_Init == [rc |-> RangeEnc_Init, state |-> 0, reps |-> <<1, 1, 1, 1>>, nowPos |-> 0]

\* The mutant does not tell that the output did not fit.
FlushQuiet(e, conf) ==
    LET f == RangeEnc_FlushData((IF conf.mark THEN WriteEndMarker(e, conf) ELSE e).rc)
    IN  [dest |-> SubSeq(f.out, 1, IF Len(f.out) < conf.cap THEN Len(f.out) ELSE conf.cap),
         overflow |-> FALSE]

\* Flush, with the output stream of LzmaEnc_MemEncode: what does not fit is
\* dropped and reported.
Flush(e, conf) ==
    LET f == RangeEnc_FlushData((IF conf.mark THEN WriteEndMarker(e, conf) ELSE e).rc)
    IN  [dest |-> SubSeq(f.out, 1, IF Len(f.out) < conf.cap THEN Len(f.out) ELSE conf.cap),
         overflow |-> Len(f.out) > conf.cap]

=============================================================================
