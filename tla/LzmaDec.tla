------------------------------ MODULE LzmaDec ------------------------------
(***************************************************************************)
(* The LZMA decoder (lzma/C/LzmaDec.c): one symbol of LZMA_DECODE_REAL, the *)
(* look-ahead LzmaDec_TryDummy, and LzmaDec_DecodeToDic, which takes its    *)
(* input and gives its output in pieces of any size.  The decoder is the    *)
(* record d; its working fields in, buf, eof, dummy, bit, sym and len are   *)
(* the local variables of the functions.                                    *)
(***************************************************************************)
EXTENDS LzmaEnc

CONSTANTS LZMA_REQUIRED_INPUT_MAX,  \* bytes that any symbol can be decoded from (20)
          LZMA_DIC_MIN              \* the smallest dictionary (4096)

RC_INIT_SIZE       == 5
kMatchMinLen       == 2
kMatchSpecLenStart == kMatchMinLen + 2 * kLenNumLowSymbols + kLenNumHighSymbols
NeedInitState      == kMatchSpecLenStart + 2
ErrorFail          == kMatchSpecLenStart + 3
ErrorData          == kMatchSpecLenStart + 4

\* At the start of a stream a match can only be the end marker: a code that
\* would begin with a repeated match is refused.
kBound0     == ((kRange - 1) \div kBitModelTotal) * (kBitModelTotal \div 2)
kBadRepCode == kBound0 + (((kRange - 1 - kBound0) \div kBitModelTotal) * (kBitModelTotal \div 2))

\* LzmaProps_Decode, from the bytes that LzmaEnc_WriteProperties wrote.
LzmaProps_Decode(props) ==
    LET d == props.d IN
    [lc |-> d % 9, lp |-> (d \div 9) % 5, pb |-> (d \div 9) \div 5,
     dicSize |-> IF props.dicSize < LZMA_DIC_MIN THEN LZMA_DIC_MIN ELSE props.dicSize]

\* LzmaDec_Init: dic is the caller's buffer or the decoder's own.
LzmaDec_Init(prop, dicBufSize) ==
    [prop |-> prop, dic |-> [k \in 0..(dicBufSize - 1) |-> 0], dicBufSize |-> dicBufSize,
     dicPos |-> 0, processedPos |-> 0, checkDicSize |-> 0, remainLen |-> NeedInitState,
     tempBuf |-> << >>, range |-> 0, code |-> 0, probs |-> << >>, state |-> 0,
     reps |-> <<1, 1, 1, 1>>, in |-> << >>, buf |-> 0, eof |-> FALSE, dummy |-> FALSE,
     bit |-> 0, sym |-> 0, len |-> 0, stop |-> FALSE]

\* The mutant is one byte off where the dictionary wraps.
BackShort(d, dist) == d.dic[(d.dicPos - dist) + IF d.dicPos < dist THEN d.dicBufSize - 1 ELSE 0]

Back(d, dist) == d.dic[(d.dicPos - dist) + IF d.dicPos < dist THEN d.dicBufSize ELSE 0]
LastByte(d)   == d.dic[(IF d.dicPos = 0 THEN d.dicBufSize ELSE d.dicPos) - 1]
posStateOf(d) == d.processedPos % 2^d.prop.pb
Put(d, byte)  == [d EXCEPT !.dic[d.dicPos] = byte, !.dicPos = @ + 1, !.processedPos = @ + 1]
-----------------------------------------------------------------------------
(* One symbol.                                                              *)

\* MATCHED_LITER_DEC: offs stays set while the bits agree with matchByte, that
\* is while the number put together is the beginning of it.
MatchedTree(i, match, k) ==
    IF i = (LitSize + match) \div 2^(LitBits - k + 1)
    THEN LitSize + LitSize * Bit(match, LitBits - k) ELSE 0

MatchedBits(d, c, match) ==
    [FoldLeft(LAMBDA g, k : ShiftIn(GET_BIT(g, Append(c, MatchedTree(g.sym, match, k) + g.sym))),
              [d EXCEPT !.sym = 1], Upto(LitBits)) EXCEPT !.sym = @ - LitSize]

LitState(s) == IF s < 4 THEN 0 ELSE IF s < 10 THEN s - 3 ELSE s - 6

\* Both functions find the tree of a literal, each in its own way.
LitProbs(d) ==
    <<"Literal", IF d.processedPos # 0 \/ d.checkDicSize # 0
        THEN ((d.processedPos * LitSize + LastByte(d)) % (LitSize * 2^d.prop.lp))
             \div (LitSize \div 2^d.prop.lc)
        ELSE 0>>

DummyLitProbs(d) ==
    <<"Literal", IF d.checkDicSize # 0 \/ d.processedPos # 0
        THEN (d.processedPos % 2^d.prop.lp) * 2^d.prop.lc
             + (LastByte(d) \div 2^(LitBits - d.prop.lc))
        ELSE 0>>

LiteralBits(d, probs) ==
    IF d.state < 7 THEN TREE_DECODE(d, probs, 0, LitBits)
    ELSE MatchedBits(d, probs, Back(d, d.reps[1]))

PutLiteral(g) == Put([g EXCEPT !.state = LitState(@)], g.sym)

DecodeLiteral(d) == PutLiteral(LiteralBits(d, LitProbs(d)))

\* A length, left in d.len: one of two short trees or a long one.
LenIs(g, offset) == [g EXCEPT !.len = g.sym + offset]

LenLow(g, c, posState, offset) ==
    LenIs(TREE_DECODE(g, Append(c, "low"), posState * 2 * kLenNumLowSymbols + offset, kLenNumLowBits),
          offset)

LenChoice2(g, c, posState) ==
    IF g.bit = 0 THEN LenLow(g, c, posState, kLenNumLowSymbols)
    ELSE LenIs(TREE_DECODE(g, Append(c, "high"), 0, kLenNumHighBits), 2 * kLenNumLowSymbols)

LenChoice(g, c, posState) ==
    IF g.bit = 0 THEN LenLow(g, c, posState, 0)
    ELSE LenChoice2(GET_BIT(g, c \o <<"low", kLenNumLowSymbols>>), c, posState)

DecodeLen(d, c, posState) == LenChoice(GET_BIT(d, c \o <<"low", 0>>), c, posState)

\* The distance of a match whose length is in d.len, left in d.sym.
DistAlign(g) ==
    [RevBits(g, <<"Align">>, 1, kNumAlignBits) EXCEPT !.sym = @ + g.sym * 2^kNumAlignBits]

DistFooter(g, high, numDirectBits) ==
    CASE g.sym < kStartPosModelIndex -> g
      [] g.sym >= kStartPosModelIndex /\ g.sym < kEndPosModelIndex ->
           RevBits(g, <<"SpecPos">>, high * 2^numDirectBits + 1, numDirectBits)
      [] OTHER -> DistAlign(DirectBits(g, high, numDirectBits - kNumAlignBits))

DistSlot(g) == DistFooter(g, 2 + (g.sym % 2), (g.sym \div 2) - 1)

DecodeDist(d) ==
    LET lps == IF d.len < kNumLenToPosStates THEN d.len ELSE kNumLenToPosStates - 1
    IN  DistSlot(TREE_DECODE(d, <<"PosSlot", lps>>, 0, kNumPosSlotBits))

\* A repeated match asks which of the last four distances it repeats; -1 is
\* the most recent one for a single byte.
RepG2(g) == [g EXCEPT !.sym = 2 + g.bit]

RepG1(g) == IF g.bit = 0 THEN [g EXCEPT !.sym = 1] ELSE RepG2(GET_BIT(g, <<"IsRepG2", g.state>>))

Rep0Long(g) == [g EXCEPT !.sym = g.bit - 1]

RepG0(g, posState) ==
    IF g.bit = 0 THEN Rep0Long(GET_BIT(g, <<"IsRep0Long", posState, g.state>>))
    ELSE RepG1(GET_BIT(g, <<"IsRepG1", g.state>>))

DecodeRep(d, posState) == RepG0(GET_BIT(d, <<"IsRepG0", d.state>>), posState)

DecReps(reps, i) == <<reps[i + 1]>> \o RemoveAt(reps, i + 1)

\* The bytes of a match; what does not fit before the limit stays in d.len.
RECURSIVE Copy(_, _)
Copy(d, n) == IF n = 0 THEN d ELSE Copy(Put(d, Back(d, d.reps[1])), n - 1)

CopyMatch(d, limit) ==
    LET rem == limit - d.dicPos
        curLen == IF rem < d.len THEN rem ELSE d.len
    IN  IF rem = 0 THEN [d EXCEPT !.stop = TRUE]
        ELSE [Copy(d, curLen) EXCEPT !.len = d.len - curLen]

\* One turn of the loop of LZMA_DECODE_REAL: what follows each bit.
After(g, lit, other) == IF g.state < 7 THEN lit ELSE other

CopyLen(g, limit) == CopyMatch([g EXCEPT !.len = @ + kMatchMinLen], limit)

TooFar(g, dist) == dist >= IF g.checkDicSize = 0 THEN g.processedPos ELSE g.checkDicSize

CheckDist(g, dist, limit) ==
    IF TooFar(g, dist) THEN [g EXCEPT !.len = ErrorData, !.stop = TRUE] ELSE CopyLen(g, limit)

NewMatch(g, limit) ==
    IF g.sym = EndDist THEN [g EXCEPT !.len = kMatchSpecLenStart, !.stop = TRUE]
    ELSE CheckDist([g EXCEPT !.reps = <<g.sym + 1>> \o SubSeq(@, 1, 3), !.state = After(g, 7, 10)],
                   g.sym, limit)

OldMatch(g, ps, limit) ==
    IF g.sym = -1 THEN Put([g EXCEPT !.state = After(g, 9, 11)], Back(g, g.reps[1]))
    ELSE CopyLen(DecodeLen([g EXCEPT !.state = After(g, 8, 11), !.reps = DecReps(@, g.sym)],
                           <<"RepLenCoder">>, ps), limit)

AfterIsRep(g, ps, limit) ==
    IF g.bit = 0 THEN NewMatch(DecodeDist(DecodeLen(g, <<"LenCoder">>, ps)), limit)
    ELSE OldMatch(DecodeRep(g, ps), ps, limit)

AfterIsMatch(g, ps, limit) ==
    IF g.bit = 0 THEN DecodeLiteral(g)
    ELSE AfterIsRep(GET_BIT(g, <<"IsRep", g.state>>), ps, limit)

DecodeSymbol(d, limit) ==
    AfterIsMatch(GET_BIT(d, <<"IsMatch", posStateOf(d), d.state>>), posStateOf(d), limit)

DecodeEnd(g) == [NORMALIZE(g) EXCEPT !.remainLen = g.len, !.stop = FALSE]

RECURSIVE DecodeLoop(_, _, _)
DecodeOn(g, limit, bufLimit) ==
    IF g.stop \/ g.eof \/ g.dicPos >= limit \/ g.buf >= bufLimit THEN DecodeEnd(g)
    ELSE DecodeLoop(g, limit, bufLimit)

DecodeLoop(d, limit, bufLimit) == DecodeOn(DecodeSymbol(d, limit), limit, bufLimit)

\* LzmaDec_DecodeReal2 stops where the dictionary is full for the first time.
CheckDic(g) == IF g.checkDicSize = 0 /\ g.processedPos >= g.prop.dicSize
               THEN [g EXCEPT !.checkDicSize = g.prop.dicSize] ELSE g

LzmaDec_DecodeReal2(d, dicLimit, bufLimit) ==
    LET rem == d.prop.dicSize - d.processedPos
        limit == IF d.checkDicSize = 0 /\ dicLimit - d.dicPos > rem THEN d.dicPos + rem ELSE dicLimit
    IN  CheckDic(DecodeLoop([d EXCEPT !.len = 0], limit, bufLimit))
-----------------------------------------------------------------------------
(* LzmaDec_TryDummy goes through the bits of the next symbol without        *)
(* changing anything: what it is, and how many bytes it takes.              *)

DummyIs(g, res) == [res |-> IF g.eof THEN "DUMMY_INPUT_EOF" ELSE res, processed |-> g.buf]

DummyEnd(g, res) == DummyIs(NORMALIZE(g), res)

DummyRep(g, ps) ==
    DummyEnd(IF g.sym = -1 THEN g ELSE DecodeLen(g, <<"RepLenCoder">>, ps), "DUMMY_REP")

DummyIsRep(g, ps) ==
    IF g.bit = 1 THEN DummyRep(DecodeRep(g, ps), ps)
    ELSE DummyEnd(DecodeDist(DecodeLen(g, <<"LenCoder">>, ps)), "DUMMY_MATCH")

DummyIsMatch(g, ps) ==
    IF g.bit = 0 THEN DummyEnd(LiteralBits(g, DummyLitProbs(g)), "DUMMY_LIT")
    ELSE DummyIsRep(GET_BIT(g, <<"IsRep", g.state>>), ps)

LzmaDec_TryDummy(d, in) ==
    DummyIsMatch(GET_BIT([d EXCEPT !.dummy = TRUE, !.in = in, !.buf = 0],
                         <<"IsMatch", posStateOf(d), d.state>>), posStateOf(d))
-----------------------------------------------------------------------------
(* LzmaDec_DecodeToDic: "r" is [d, src, used, res, status].                 *)

LzmaDec_WriteRem(d, limit) ==
    LET rem == limit - d.dicPos
        len == IF rem < d.remainLen THEN rem ELSE d.remainLen
    IN  IF len = 0 THEN d
        ELSE Copy([d EXCEPT !.remainLen = @ - len,
                            !.checkDicSize = IF @ = 0 /\ d.prop.dicSize - d.processedPos <= len
                                             THEN d.prop.dicSize ELSE @], len)

Return(r, res, status) == [r EXCEPT !.res = res, !.status = status]
Fail(r) == Return([r EXCEPT !.d.remainLen = ErrorFail], "SZ_ERROR_FAIL", "NOT_SPECIFIED")
Consume(r, n) == [r EXCEPT !.used = @ + n, !.src = SubSeq(@, n + 1, Len(@))]
Checked(r) == IF r.d.remainLen >= ErrorData THEN Return(r, "SZ_ERROR_DATA", "NOT_SPECIFIED") ELSE r

\* The first five bytes are the range coder's; the first of them is zero.
InitRc(r) ==
    LET d == r.d
        need == RC_INIT_SIZE - Len(d.tempBuf)
        n == IF Len(r.src) < need THEN Len(r.src) ELSE need
        temp == d.tempBuf \o SubSeq(r.src, 1, n)
        q == Consume([r EXCEPT !.d.tempBuf = temp], n)
        code == FoldLeft(LAMBDA c, b : c * Byte + b, 0, Tail(temp))
        fresh == d.remainLen = NeedInitState
    IN  CASE temp # << >> /\ temp[1] # 0 -> Return(q, "SZ_ERROR_DATA", "NOT_SPECIFIED")
          [] (temp = << >> \/ temp[1] = 0) /\ Len(temp) < RC_INIT_SIZE ->
               Return(q, "SZ_OK", "NEEDS_MORE_INPUT")
          [] OTHER ->
               IF d.checkDicSize = 0 /\ d.processedPos = 0 /\ code >= kBadRepCode
               THEN Return(q, "SZ_ERROR_DATA", "NOT_SPECIFIED")
               ELSE [q EXCEPT !.d = [d EXCEPT !.range = kRange - 1, !.code = code, !.tempBuf = << >>,
                         !.probs = IF fresh THEN << >> ELSE @,
                         !.reps = IF fresh THEN <<1, 1, 1, 1>> ELSE @,
                         !.state = IF fresh THEN 0 ELSE @, !.remainLen = 0]]

\* One symbol, or as many as the input surely holds, straight from src; when
\* TryDummy went before, it must have found as many bytes.
Real(r, in, dicLimit, bufLimit) ==
    LzmaDec_DecodeReal2([r.d EXCEPT !.in = in, !.buf = 0], dicLimit, bufLimit)

SrcDone(r, g, sizes) ==
    IF g.eof \/ g.buf \notin sizes THEN Fail(r) ELSE Checked(Consume([r EXCEPT !.d = g], g.buf))

Stash(r, n) == Consume([r EXCEPT !.d.tempBuf = SubSeq(r.src, 1, n)], n)

SrcTry(r, t, dicLimit, checkEnd) ==
    CASE t.res = "DUMMY_INPUT_EOF" ->
           IF Len(r.src) >= LZMA_REQUIRED_INPUT_MAX THEN Fail(r)
           ELSE Return(Stash(r, Len(r.src)), "SZ_OK", "NEEDS_MORE_INPUT")
      [] t.res # "DUMMY_INPUT_EOF" /\ t.processed > LZMA_REQUIRED_INPUT_MAX -> Fail(r)
      [] t.res \in {"DUMMY_LIT", "DUMMY_REP"} /\ checkEnd /\ t.processed <= LZMA_REQUIRED_INPUT_MAX ->
           Return(Stash(r, t.processed), "SZ_ERROR_DATA", "NOT_FINISHED")
      [] OTHER -> SrcDone(r, Real(r, r.src, dicLimit, 0), {t.processed})

FromSrc(r, dicLimit, checkEnd) ==
    IF Len(r.src) < LZMA_REQUIRED_INPUT_MAX \/ checkEnd
    THEN SrcTry(r, LzmaDec_TryDummy(r.d, r.src), dicLimit, checkEnd)
    ELSE SrcDone(r, Real(r, r.src, dicLimit, Len(r.src) - LZMA_REQUIRED_INPUT_MAX), Nat)

\* One symbol from tempBuf, completed with the first bytes of src to temp.
TempDone(r, had, g, sizes) ==
    IF g.eof \/ g.buf < had \/ g.buf \notin sizes THEN Fail(r)
    ELSE Checked(Consume([r EXCEPT !.d = [g EXCEPT !.tempBuf = << >>]], g.buf - had))

TempTry(r, temp, t, dicLimit, checkEnd) ==
    LET had == Len(r.d.tempBuf) IN
    CASE t.res = "DUMMY_INPUT_EOF" ->
           IF Len(temp) >= LZMA_REQUIRED_INPUT_MAX THEN Fail(r)
           ELSE Return(Consume([r EXCEPT !.d.tempBuf = temp], Len(temp) - had),
                       "SZ_OK", "NEEDS_MORE_INPUT")
      [] t.res # "DUMMY_INPUT_EOF" /\ t.processed < had -> Fail(r)
      [] t.res \in {"DUMMY_LIT", "DUMMY_REP"} /\ checkEnd /\ t.processed >= had ->
           Return(Consume([r EXCEPT !.d.tempBuf = SubSeq(temp, 1, t.processed)], t.processed - had),
                  "SZ_ERROR_DATA", "NOT_FINISHED")
      [] OTHER -> TempDone(r, had, Real(r, temp, dicLimit, 0), {t.processed})

FromTemp(r, dicLimit, checkEnd) ==
    LET had == Len(r.d.tempBuf)
        want == LZMA_REQUIRED_INPUT_MAX - had
        temp == r.d.tempBuf \o SubSeq(r.src, 1, IF want < Len(r.src) THEN want ELSE Len(r.src))
    IN  IF Len(temp) < LZMA_REQUIRED_INPUT_MAX \/ checkEnd
        THEN TempTry(r, temp, LzmaDec_TryDummy(r.d, temp), dicLimit, checkEnd)
        ELSE TempDone(r, had, Real(r, temp, dicLimit, 0), Nat)

RECURSIVE ToDicLoop(_, _, _)
ToDicOn(q, dicLimit, finish) == IF q.res = "none" THEN ToDicLoop(q, dicLimit, finish) ELSE q

ToDicTurn(r, dicLimit, finish) ==
    LET full == r.d.dicPos >= dicLimit
        clean == r.d.remainLen = 0 /\ r.d.code = 0
    IN  CASE full /\ clean -> Return(r, "SZ_OK", "MAYBE_FINISHED_WITHOUT_MARK")
          [] full /\ ~clean /\ (finish = "ANY" \/ r.d.remainLen # 0) ->
               Return(r, IF finish = "ANY" THEN "SZ_OK" ELSE "SZ_ERROR_DATA", "NOT_FINISHED")
          [] OTHER -> ToDicOn(IF r.d.tempBuf = << >> THEN FromSrc(r, dicLimit, full)
                              ELSE FromTemp(r, dicLimit, full), dicLimit, finish)

ToDicLoop(r, dicLimit, finish) ==
    IF r.d.remainLen # kMatchSpecLenStart
    THEN ToDicTurn([r EXCEPT !.d = LzmaDec_WriteRem(@, dicLimit)], dicLimit, finish)
    ELSE IF r.d.code # 0 THEN Return(r, "SZ_ERROR_DATA", "NOT_SPECIFIED")
    ELSE Return(r, "SZ_OK", "FINISHED_WITH_MARK")

ToDicStart(r, dicLimit, finish) == IF r.res # "none" THEN r ELSE ToDicLoop(r, dicLimit, finish)

LzmaDec_DecodeToDic(d, dicLimit, src, finish) ==
    LET r == [d |-> d, src |-> src, used |-> 0, res |-> "none", status |-> "NOT_SPECIFIED"]
    IN  IF d.remainLen >= ErrorFail
        THEN Return(r, IF d.remainLen = ErrorFail THEN "SZ_ERROR_FAIL" ELSE "SZ_ERROR_DATA",
                    "NOT_SPECIFIED")
        ELSE ToDicStart(IF d.remainLen > kMatchSpecLenStart THEN InitRc(r) ELSE r, dicLimit, finish)

\* The dictionary of LzmaDec_DecodeToBuf is a ring that is emptied into dest.
RECURSIVE ToBufLoop(_, _, _, _, _)
ToBufOn(r, dest, n, outSize, finish) ==
    IF r.res # "SZ_OK" \/ n = 0 \/ n = outSize THEN r @@ [dest |-> dest]
    ELSE ToBufLoop(r.d, dest, outSize - n, r, finish)

ToBufTaken(r, from, used, dest, outSize, finish) ==
    ToBufOn([r EXCEPT !.used = @ + used], dest \o [k \in 1..(r.d.dicPos - from) |-> r.d.dic[from + k - 1]],
            r.d.dicPos - from, outSize, finish)

ToBufLoop(d0, dest, outSize, r0, finish) ==
    LET d == IF d0.dicPos = d0.dicBufSize THEN [d0 EXCEPT !.dicPos = 0] ELSE d0
        wraps == outSize > d.dicBufSize - d.dicPos
    IN  ToBufTaken(LzmaDec_DecodeToDic(d, IF wraps THEN d.dicBufSize ELSE d.dicPos + outSize, r0.src,
                                       IF wraps THEN "ANY" ELSE finish),
                   d.dicPos, r0.used, dest, outSize, finish)

LzmaDec_DecodeToBuf(d, outSize, src, finish) ==
    ToBufLoop(d, << >>, outSize, [src |-> src, used |-> 0], finish)
=============================================================================
