------------------------------- MODULE Sizing -------------------------------
(* How many threads compress, with what dictionary or block size and into     *)
(* buffers of what size: setup_ram and setup_overhead (util.c) and the part   *)
(* of open_stream_out (stream.c) that trades threads and block size for       *)
(* memory.  Sizes are in kilobytes.                                           *)
EXTENDS Integers, FiniteSetsExt

MB == 1024

page_size == 4

STREAM_BUFSIZE == 10 * MB

kMinLimit == 100000000 \div 1024    \* below it a malloc that fails is the end

round_up_page(n) == n + ((-n) % page_size)

(* Sizes from the one byte codes of dictionary and bzip3 block.  open_stream_out *)
(* may count the code of a bzip3 block below 0, where the shift is undefined;  *)
(* this is the result on x86.                                                  *)
LZMA2_DIC_SIZE_FROM_PROP(p) == IF p = 40 THEN 2^22 - 1 ELSE (2 + (p % 2)) * 2^(p \div 2 + 1)

BZIP3_BLOCK_SIZE_FROM_PROP(p) == IF p = 8 THEN 511 * MB ELSE (2 + (p % 2)) * 2^(p \div 2 + 14)

(* As both loops of lrzip_private.h count: the first code that is enough, and  *)
(* one more than the last when none is.                                        *)
lzma2_prop_from_dic(d) == Min({41} \cup {i \in 0..40 : d <= LZMA2_DIC_SIZE_FROM_PROP(i)})

bzip3_prop_from_block_size(b) == Min({9} \cup {i \in 0..8 : b <= BZIP3_BLOCK_SIZE_FROM_PROP(i)})

zpaq_level(level) == (10 * level + 9) \div 18

(* The block size code a level asks for. *)
DefaultBs(method, level) ==
  CASE method = "lzma" -> lzma2_prop_from_dic(
         CASE level <= 3 -> 2^(2 * level + 6) [] level \in 4..6 -> 2^(level + 9)
           [] level = 7 -> 2^15 [] level = 8 -> 2^16 [] level = 9 -> 2^17)
    [] method = "zpaq" -> (CASE level <= 3 -> 4 [] level \in {4, 5} -> 5 [] OTHER -> level)
    [] method = "bzip3" -> level - 1
    [] OTHER -> 0

Block(method, bs) ==
  CASE method = "lzma" -> LZMA2_DIC_SIZE_FROM_PROP(bs)
    [] method = "zpaq" -> 2^bs * MB
    [] method = "bzip3" -> BZIP3_BLOCK_SIZE_FROM_PROP(bs)
    [] OTHER -> 0

overhead(method, level, block) ==
  LET z == zpaq_level(level)
  IN CASE method = "lzma" -> (block * 23) \div 2 + 6 * MB + 16
       [] method = "zpaq" -> block
            + (CASE z = 1 -> 128 [] z \in {2, 3} -> 450 [] z = 4 -> 550 [] OTHER -> 850) * MB
       [] method = "bzip3" -> 6 * block
       [] OTHER -> 0

(* setup_ram *)
usable_ram(c) == c.ram \div (IF c.stdout THEN 6 ELSE 3)

testbufs(c) == IF c.method = "none" THEN 1 ELSE 2

(* The state of open_stream_out: bs, block and over are the control's, the     *)
(* rest are its locals and statics.                                            *)
SizeStart(c) ==
  LET bs == IF c.forced = {} THEN DefaultBs(c.method, c.level) ELSE Min(c.forced)
  IN [at |-> IF c.method \in {"lzma", "zpaq", "bzip3"} THEN "try" ELSE "buffer",
      bs |-> bs, orig |-> bs, block |-> Block(c.method, bs), over |-> overhead(c.method, c.level, Block(c.method, bs)),
      saved |-> c.threads, threads |-> c.threads,
      low |-> IF c.threads >= c.processors \div 2 THEN c.threads \div 2 ELSE c.threads,
      limit |-> usable_ram(c) \div testbufs(c), bufsize |-> 0]

Fits(c, z, t) == z.limit >= IF c.method = "zpaq" THEN z.over * t ELSE (z.over * t) \div 2

Smallest(method) == CASE method = "lzma" -> 2^14 [] method = "zpaq" -> 2^4 * MB [] method = "bzip3" -> 2^15

(* With --dictsize, --zpaqbs or --bzip3bs only threads are given up. *)
TryForced(c, z) ==
  [z EXCEPT !.at = "buffer",
            !.threads = Max({1} \cup {t \in 2..z.saved : z.limit >= (z.over * t) \div testbufs(c)})]

(* The thread loop, the block size loop round it and the retry round both.     *)
(* A retry restores the block size but not what was computed from it.          *)
TryThreads(c, z) ==
  LET fit == {t \in z.low..z.saved : Fits(c, z, t)}
      bs == z.bs - 1
      smaller == [z EXCEPT !.threads = z.low - 1, !.bs = bs, !.block = Block(c.method, bs),
                           !.over = overhead(c.method, c.level, Block(c.method, bs))]
  IN IF fit # {} THEN [z EXCEPT !.threads = Max(fit), !.at = "buffer"]
     ELSE IF smaller.block > Smallest(c.method) THEN smaller
     ELSE IF z.low > 1
     THEN [smaller EXCEPT !.low = @ - 1, !.bs = z.orig,
                          !.block = IF c.method = "bzip3" THEN @ ELSE Block(c.method, z.orig)]
     ELSE [smaller EXCEPT !.at = "buffer"]

Limited(c, z) ==
  IF c.st_size > 0 /\ c.st_size < z.limit THEN Max({c.st_size, STREAM_BUFSIZE})
  ELSE Min({z.limit, Max({c.chunk_limit, page_size})})

(* Mutant of BufSize: the block size of bzip3 does not bound the buffer. *)
BufSizeUnbounded(c, z, limit) ==
  LET part == limit \div z.threads
  IN round_up_page(
       IF c.method = "zpaq" /\ part > z.block THEN z.block - 4
       ELSE IF c.method = "lzma" /\ part > STREAM_BUFSIZE
       THEN Max({limit, z.over - z.block}) \div z.threads
       ELSE Min({limit, Max({part, STREAM_BUFSIZE})}))

BufSize(c, z, limit) ==
  LET part == limit \div z.threads
  IN round_up_page(
       IF c.method \in {"zpaq", "bzip3"} /\ part > z.block THEN z.block - 4
       ELSE IF c.method = "lzma" /\ part > STREAM_BUFSIZE
       THEN Max({limit, z.over - z.block}) \div z.threads
       ELSE Min({limit, Max({part, STREAM_BUFSIZE})}))

(* The malloc that tests the limit; without a thread the division that follows *)
(* it is by zero.                                                              *)
TestMalloc(c, z, limit) ==
  LET fewer == (limit \div 10) * 9
  IN {IF z.threads = 0 THEN [z EXCEPT !.at = "crash"]
      ELSE [z EXCEPT !.at = "sized", !.limit = limit, !.bufsize = BufSize(c, z, limit), !.saved = z.threads]}
     \cup {IF fewer < kMinLimit THEN [z EXCEPT !.at = "refused"] ELSE [z EXCEPT !.at = "malloc", !.limit = fewer]}

(* The next file of the command line: the control is a fresh copy, the statics *)
(* (threads and buffer size) stay.                                             *)
NextFile(c, z) ==
  [SizeStart(c) EXCEPT !.at = "sized", !.saved = z.saved, !.threads = z.saved, !.bufsize = z.bufsize]
=============================================================================
