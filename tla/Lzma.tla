------------------------------- MODULE Lzma -------------------------------
(***************************************************************************)
(* An LZMA stream from end to end: LzmaEncode (through LzmaCompress of      *)
(* lzma/C/LzmaLib.c, called by lzma_compress_buf of stream.c) writes it into *)
(* a buffer of limited size, and it is read back with LzmaDecode (through   *)
(* LzmaUncompress, called by lzma_decompress_buf), or in pieces with         *)
(* LzmaDec_DecodeToDic or LzmaDec_DecodeToBuf.                              *)
(*                                                                         *)
(* Which symbol comes next is the parser's choice (module LzmaOpt): here it *)
(* is any symbol that the format can express, and the data is what the      *)
(* symbols stand for.                                                       *)
(***************************************************************************)
EXTENDS LzmaDec

CONSTANTS Confs,          \* settings and ways of decoding
          Bytes,          \* the bytes of data that occur
          Lens,           \* the match lengths that occur
          MaxSyms,        \* bound: symbols of a stream
          MaxData,        \* bound: bytes of data
          kDictBig,       \* dictionaries from here on (2^21) ...
          kDictAlign      \* ... are rounded up to this (2^20)

VARIABLES conf,     \* the settings of this stream
          phase,    \* "encode", "decode", "done" or "overflow"
          data,     \* the data encoded so far
          syms,     \* how many symbols that took
          enc,      \* the encoder
          stream,   \* what it delivered
          dec,      \* the decoder
          got       \* what it made of the stream

vars == <<conf, phase, data, syms, enc, stream, dec, got>>

NoDec == [remainLen |-> 0]
Nothing == [dest |-> << >>, used |-> 0, res |-> "none", status |-> "none"]

Least(a, b) == IF a < b THEN a ELSE b
-----------------------------------------------------------------------------
Init ==
    /\ conf \in Confs
    /\ phase = "encode" /\ data = << >> /\ syms = 0
    /\ enc = LzmaEnc_Init /\ stream = << >> /\ dec = NoDec /\ got = Nothing

\* A match of a given length at a given distance, byte by byte.
Expand(ds, dist, len) ==
    FoldLeft(LAMBDA s, k : Append(s, s[Len(s) + 1 - dist]), ds, [k \in 1..len |-> k])

Symbols ==
    [kind : {"literal"}, byte : Bytes, len : {1}, dist : {0}]
      \cup [kind : {"short"}, byte : {0}, len : {1}, dist : {0}]
      \cup [kind : {"rep"}, byte : {0}, len : Lens, dist : 0..3]
      \cup [kind : {"match"}, byte : {0}, len : Lens,
            dist : 0..(Least(Len(data), conf.dict) - 1)]

Meaning(sym) ==
    CASE sym.kind = "literal" -> Append(data, sym.byte)
      [] sym.kind = "match" -> Expand(data, sym.dist + 1, sym.len)
      [] OTHER -> Expand(data, enc.reps[sym.dist + 1], sym.len)

\* LzmaEnc_CodeOneBlock, the first byte.
EncodeFirst ==
    /\ phase = "encode" /\ enc.nowPos = 0
    /\ \E b \in Bytes : data' = <<b>> /\ enc' = CodeFirst(enc, b)
    /\ syms' = 1
    /\ UNCHANGED <<conf, phase, stream, dec, got>>

\* LzmaEnc_CodeOneBlock, one turn of its loop.
EncodeSymbol ==
    /\ phase = "encode" /\ enc.nowPos > 0 /\ syms < MaxSyms
    /\ \E sym \in Symbols :
         /\ Len(data) + sym.len <= MaxData
         /\ data' = Meaning(sym)
         /\ enc' = CodeSymbol(enc, conf, data, sym)
    /\ syms' = syms + 1
    /\ UNCHANGED <<conf, phase, stream, dec, got>>

\* LzmaEnc_WriteProperties: the dictionary is rounded up to a size of the form
\* 2^n or 3 * 2^n, a large one to a multiple.
LzmaEnc_WriteProperties ==
    LET v(i) == (2 + (i % 2)) * 2^(i \div 2)
        first == CHOOSE i \in 0..60 : v(i) = LZMA_DIC_MIN
        i == CHOOSE j \in first..60 : v(j) >= conf.dict /\ \A k \in first..(j - 1) : v(k) < conf.dict
    IN  [d |-> (conf.pb * 5 + conf.lp) * 9 + conf.lc,
         dicSize |-> IF conf.dict >= kDictBig
                     THEN ((conf.dict + kDictAlign - 1) \div kDictAlign) * kDictAlign
                     ELSE v(i)]

\* LzmaDec_Allocate: the decoder's own dictionary is a few bytes larger.
DicBufSize(dicSize) == ((dicSize + LZMA_DIC_MIN - 1) \div LZMA_DIC_MIN) * LZMA_DIC_MIN

\* The end of the data: Flush and LzmaEnc_MemEncode; then the reader starts.
EncodeEnd ==
    /\ phase = "encode"
    /\ LET f == Flush(enc, conf)
           prop == LzmaProps_Decode(LzmaEnc_WriteProperties)
       IN  /\ stream' = f.dest
           /\ phase' = IF f.overflow THEN "overflow" ELSE "decode"
           /\ dec' = IF f.overflow THEN dec
                     ELSE LzmaDec_Init(prop, IF conf.call = "buf" THEN DicBufSize(prop.dicSize)
                                             ELSE Len(data))
    /\ UNCHANGED <<conf, data, syms, enc, got>>
-----------------------------------------------------------------------------
\* LzmaDecode: everything at once, straight into the caller's buffer.
DecodeAll ==
    /\ phase = "decode" /\ conf.call = "lib"
    /\ \E r \in {LzmaDec_DecodeToDic(dec, dec.dicBufSize, stream, "ANY")} :
       IF Len(stream) < RC_INIT_SIZE
       THEN got' = [got EXCEPT !.res = "SZ_ERROR_INPUT_EOF"] /\ UNCHANGED dec
       ELSE /\ dec' = r.d
            /\ got' = [dest |-> [k \in 1..r.d.dicPos |-> r.d.dic[k - 1]], used |-> r.used,
                       status |-> r.status,
                       res |-> IF r.res = "SZ_OK" /\ r.status = "NEEDS_MORE_INPUT"
                               THEN "SZ_ERROR_INPUT_EOF" ELSE r.res]
    /\ phase' = "done"
    /\ UNCHANGED <<conf, data, syms, enc, stream>>

\* A caller that feeds conf.chunk bytes at a time and takes conf.olim, until
\* the decoder says that it has finished or that something is wrong.
Chunk == SubSeq(stream, got.used + 1, Least(Len(stream), got.used + conf.chunk))
Ask   == Least(conf.olim, Len(data) - Len(got.dest))
Mode  == IF Len(got.dest) + Ask = Len(data) THEN "END" ELSE "ANY"

DecodePiece ==
    /\ phase = "decode" /\ conf.call # "lib"
    /\ \E r \in {IF conf.call = "buf" THEN LzmaDec_DecodeToBuf(dec, Ask, Chunk, Mode)
                 ELSE LzmaDec_DecodeToDic(dec, dec.dicPos + Ask, Chunk, Mode)} :
         LET dest == IF conf.call = "buf" THEN got.dest \o r.dest
                     ELSE [k \in 1..r.d.dicPos |-> r.d.dic[k - 1]]
             ends == \/ r.res # "SZ_OK"
                     \/ r.status = "FINISHED_WITH_MARK"
                     \/ r.status = "MAYBE_FINISHED_WITHOUT_MARK" /\ Len(dest) = Len(data)
                     \/ Chunk = << >> /\ r.status = "NEEDS_MORE_INPUT"
         IN  /\ dec' = r.d
             /\ got' = [dest |-> dest, used |-> got.used + r.used, res |-> r.res, status |-> r.status]
             /\ phase' = IF ends THEN "done" ELSE "decode"
    /\ UNCHANGED <<conf, data, syms, enc, stream>>

Next == EncodeFirst \/ EncodeSymbol \/ EncodeEnd \/ DecodeAll \/ DecodePiece

Spec == Init /\ [][Next]_vars
-----------------------------------------------------------------------------
Results == {"none", "SZ_OK", "SZ_ERROR_DATA", "SZ_ERROR_FAIL", "SZ_ERROR_INPUT_EOF"}

\* The type of the state: bytes are bytes, the state of the encoder is one of
\* the twelve, its range is normalized, its run of ones is counted, the decoder
\* never stashes more than one symbol can need.
LzmaTypeOK ==
    /\ conf \in Confs /\ phase \in {"encode", "decode", "done", "overflow"}
    /\ data \in Seq(Bytes) /\ syms \in 0..MaxSyms
    /\ enc.state \in 0..11 /\ enc.reps \in [1..4 -> 1..MaxData] /\ enc.nowPos = Len(data)
    /\ enc.rc.range \in kTopValue..(kRange - 1) /\ enc.rc.low \in 0..(2 * kRange - 1)
    /\ enc.rc.cache \in 0..(Byte - 1) /\ enc.rc.cacheSize \in Nat
    /\ \A c \in DOMAIN enc.rc.probs : enc.rc.probs[c] \in kMinProb..(kBitModelTotal - kMinProb)
    /\ stream \in Seq(0..(Byte - 1))
    /\ got.res \in Results /\ got.used \in 0..Len(stream)
    /\ phase \in {"decode", "done"} => Len(dec.tempBuf) <= LZMA_REQUIRED_INPUT_MAX

\* The decoder never delivers a byte that is not the one the encoder was given,
\* at whatever point the input was cut, the output was taken or the dictionary
\* wrapped (LZMA_DECODE_REAL, LzmaDec_WriteRem, LzmaDec_DecodeToBuf).
DecodedIsPrefix == IsPrefix(got.dest, data)

\* A stream that LzmaEnc_MemEncode delivered without SZ_ERROR_OUTPUT_EOF is
\* decoded to the last byte with SZ_OK: the look-ahead of LzmaDec_TryDummy and
\* the real decoding never disagree (SZ_ERROR_FAIL), no distance is out of the
\* dictionary the properties give (SZ_ERROR_DATA), no byte is missing.
StreamAccepted ==
    phase = "done" => got.res = "SZ_OK" /\ got.dest = data

\* The decoder has read every byte of the stream when it has finished, no more
\* and no less, and says so: the code is zero because the five bytes that
\* RangeEnc_FlushData writes are exactly the ones the decoder is ahead.
StreamConsumed ==
    (phase = "done" /\ ~(conf.mark /\ conf.call = "lib")) =>
        /\ got.used = Len(stream) /\ dec.code = 0
        /\ got.status = IF conf.mark THEN "FINISHED_WITH_MARK" ELSE "MAYBE_FINISHED_WITHOUT_MARK"

\* At the end both sides have gone through the same states and remember the same
\* four distances, so they would code the next symbol in the same contexts.
SameState ==
    (phase = "done" /\ got.res = "SZ_OK") =>
        /\ enc.reps = dec.reps
        /\ ~conf.mark => enc.state = dec.state
        /\ dec.processedPos = enc.nowPos

\* Between two calls the decoder's range coder is normalized and its code is
\* below its range, as LZMA_DECODE_REAL expects ("RangeCoder is normalized").
CoderNormalized ==
    (phase \in {"decode", "done"} /\ dec.remainLen <= kMatchSpecLenStart) =>
        dec.range \in kTopValue..(kRange - 1) /\ dec.code < dec.range

\* Encoder and decoder agree, byte for byte and, at the end, state for state.
CodersAgree == LzmaTypeOK /\ CoderNormalized /\ DecodedIsPrefix /\ SameState

\* A whole stream is accepted, and consumed to its last byte.
StreamWhole == StreamAccepted /\ StreamConsumed
=============================================================================
