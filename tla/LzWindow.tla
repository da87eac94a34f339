------------------------------ MODULE LzWindow ------------------------------
(* The input window of the LZMA match finders (LzFind.c): a buffer that holds  *)
(* the history before the current position and what was read after it.  Either *)
(* it lies over the caller's data (directInput) or data is read into it and    *)
(* moved down when the end comes near.  The single threaded and the            *)
(* multithreaded match finder both use it.                                     *)
EXTENDS Integers, FiniteSetsExt

CONSTANTS
  kBlockMoveAlign,   \* MoveBlock moves by multiples of this
  kReserve,          \* what GetBlockSize adds, at least
  MaxAvail           \* 0xFFFFFFFF, the largest number of bytes ahead

ASSUME WindowAssumption ==
  /\ kBlockMoveAlign \in Nat \ {0} /\ MaxAvail \in Nat \ {0}
  /\ kReserve \in Nat /\ kReserve >= kBlockMoveAlign

(* GetBlockSize, with the reserve reduced to the scale of the model. *)
GetBlockSize(before, after) == before + after + kReserve

(* A window over a stream of len bytes.  Offsets are into the buffer, whose    *)
(* first byte is byte origin of the stream; bytes up to read were fetched.     *)
MatchFinder_Create(history, addBefore, matchMaxLen, addAfter, numHashBytes, direct, len) ==
  LET before == history + addBefore + 1
      after  == Max({addAfter + matchMaxLen, numHashBytes})
  IN [direct |-> direct, len |-> len, keepBefore |-> before, keepAfter |-> after,
      blockSize |-> IF direct THEN 0 ELSE GetBlockSize(before, after),
      origin |-> 0, buffer |-> 0, read |-> 0, ended |-> FALSE]

(* The byte of the stream at the current position, and GET_AVAIL_BYTES. *)
At(w) == w.origin + w.buffer

Avail(w) == w.read - At(w)

(* One round of the loop in MatchFinder_ReadBlock that reads at most piece     *)
(* bytes at a time, until more than keepSizeAfter is ahead, the buffer is full *)
(* or the stream ends; f goes on with the next round.                          *)
ReadRound(w, piece, f, v) ==
  LET space == w.origin + w.blockSize - v.read
      n     == Min({space, piece, w.len - v.read})
  IN CASE space = 0 -> v
       [] space # 0 /\ n = 0 -> [v EXCEPT !.ended = TRUE]
       [] OTHER -> IF v.read + n - At(w) > w.keepAfter
                   THEN [v EXCEPT !.read = @ + n]
                   ELSE f[[v EXCEPT !.read = @ + n]]

ReadLoop(w, piece) ==
  LET Reads[v \in [read : w.read..w.len, ended : BOOLEAN]] ==
        ReadRound(w, piece, Reads, v)
  IN Reads[[read |-> w.read, ended |-> FALSE]]

(* MatchFinder_ReadBlock: the caller's data is taken at once, as far as the    *)
(* counter goes; a stream is read in a loop.                                   *)
MatchFinder_ReadBlock(w, piece) ==
  IF w.ended THEN w
  ELSE IF w.direct THEN
    LET n == Min({MaxAvail - Avail(w), w.len - w.read})
    IN [w EXCEPT !.read = @ + n, !.ended = (w.read + n = w.len)]
  ELSE [w EXCEPT !.read = ReadLoop(w, piece).read, !.ended = ReadLoop(w, piece).ended]

MatchFinder_ReadIfRequired(w, piece) ==
  IF w.keepAfter >= Avail(w) THEN MatchFinder_ReadBlock(w, piece) ELSE w

MatchFinder_NeedMove(w) ==
  /\ ~w.direct /\ ~w.ended
  /\ w.blockSize - w.buffer <= w.keepAfter

(* MatchFinder_MoveBlock: keepSizeBefore bytes, rounded up, stay before the    *)
(* current position. *)
MatchFinder_MoveBlock(w) ==
  LET offset == w.buffer - w.keepBefore
      keep   == (offset % kBlockMoveAlign) + w.keepBefore
  IN [w EXCEPT !.buffer = keep, !.origin = @ + (offset - (offset % kBlockMoveAlign))]
=============================================================================
