-------------------------------- MODULE Magic --------------------------------
(* The magic header: what write_magic stores of the settings and what         *)
(* read_magic makes of it (lrzip.c), for an archive of this version, and how  *)
(* long the header of each version is.  The eight bytes that hold the size or *)
(* the salt are one entry.                                                    *)
EXTENDS Sizing, Sequences

Versions == 6..14

MAXHASH == 13

MAXENC == 2

FilterCode == [x86 |-> 1, arm |-> 2, armt |-> 3, ppc |-> 4, sparc |-> 5, ia64 |-> 6,
               arm64 |-> 7, riscv |-> 8, delta |-> 128, none |-> 0]

(* What --delta=n sets, n from 1 to 31. *)
DeltaOffset(n) == IF n <= 16 THEN n ELSE (n - 15) * 16

DeltaByte(delta) == 128 + (IF delta <= 16 THEN delta ELSE delta \div 16 + 15)

write_magic(s, z) ==
  [version |-> 14,
   at6 |-> IF s.enc # 0 THEN s.salt ELSE IF s.eof THEN s.size ELSE 0,
   at14 |-> s.hash,
   at15 |-> s.enc,
   at16 |-> IF s.filter = "delta" THEN DeltaByte(s.delta) ELSE FilterCode[s.filter],
   at17 |-> CASE s.method = "lzma" -> 1 [] s.method = "zpaq" -> 2 [] s.method = "bzip3" -> 3
              [] s.method = "zstd" -> s.strategy * 16 + 4 [] OTHER -> 0,
   at18 |-> CASE s.method = "lzma" -> lzma2_prop_from_dic(z.block)
              [] s.method = "zpaq" -> zpaq_level(s.level) * 16 + z.bs
              [] s.method = "bzip3" -> bzip3_prop_from_block_size(z.block)
              [] s.method = "zstd" -> s.zlevel [] OTHER -> 0,
   at19 |-> s.rlevel * 16 + s.level,
   comment |-> s.comment]

(* get_encryption, get_expected_size, get_filter, get_hash_from_magic and      *)
(* get_magic_v11, on a control without options.                                *)
NamedFilter(b) ==
  [filter |-> IF \E f \in DOMAIN FilterCode : FilterCode[f] = b
              THEN CHOOSE f \in DOMAIN FilterCode : FilterCode[f] = b ELSE "unknown", delta |-> 0]

get_filter(v, b) ==
  LET i == b \div 8
  IN CASE v < 12 /\ b % 8 # 7 -> NamedFilter(b % 8)
       [] v < 12 /\ b % 8 = 7 -> [filter |-> "delta", delta |-> IF i <= 16 THEN i + 1 ELSE (i - 15) * 16]
       [] v = 12 /\ i = 0 -> NamedFilter(b)
       [] v = 12 /\ i # 0 -> [filter |-> "delta", delta |-> DeltaOffset(i)]
       [] v > 12 /\ b <= 128 -> NamedFilter(b)
       [] v > 12 /\ b > 128 -> [filter |-> "delta", delta |-> DeltaOffset(b - 128)]

get_magic_v11(h) ==
  LET enc == h.at15 > 0 /\ h.at15 <= MAXENC
  IN [enc |-> IF enc THEN h.at15 ELSE 0,
      salt |-> IF enc THEN h.at6 ELSE 0,
      size |-> IF enc THEN 0 ELSE h.at6,
      filter |-> get_filter(h.version, h.at16).filter, delta |-> get_filter(h.version, h.at16).delta,
      method |-> CASE h.at17 = 1 -> "lzma" [] h.at17 = 2 -> "zpaq" [] h.at17 = 3 -> "bzip3"
                   [] h.at17 \notin 1..3 /\ h.at17 % 16 = 4 -> "zstd" [] OTHER -> "other",
      block |-> CASE h.at17 = 1 -> LZMA2_DIC_SIZE_FROM_PROP(h.at18)
                  [] h.at17 = 2 -> 2^(h.at18 % 16) * MB
                  [] h.at17 = 3 -> BZIP3_BLOCK_SIZE_FROM_PROP(h.at18 % 16) [] OTHER -> 0,
      zlevel |-> IF h.at17 = 2 THEN h.at18 \div 16 ELSE IF h.at17 % 16 = 4 THEN h.at18 ELSE 0,
      strategy |-> IF h.at17 % 16 = 4 THEN h.at17 \div 16 ELSE 0,
      hash |-> IF h.at14 > 0 /\ h.at14 <= MAXHASH THEN h.at14 ELSE 0,
      level |-> h.at19 % 16, rlevel |-> h.at19 \div 16,
      comment |-> h.comment]

(* How much read_magic reads (read_tmpinmagic has the same table), and where   *)
(* get_fileinfo takes the first chunk to start; from version 9 on a comment    *)
(* may follow.                                                                 *)
MagicLen(v) == CASE v \in {6, 7} -> 24 [] v = 8 -> 18 [] v \in {9, 10} -> 20 [] v \in 11..14 -> 21

CommentLen(v, comment) == IF v >= 9 THEN Len(comment) ELSE 0

(* Mutant of InfoOffset: the comment is forgotten. *)
InfoOffsetBare(v, comment) ==
  CASE v \in {6, 7} -> 24 [] v = 8 -> 18 [] v \in {9, 10} -> 20 [] v \in 11..14 -> 21

InfoOffset(v, comment) ==
  CASE v \in {6, 7} -> 24 [] v = 8 -> 18
    [] v \in {9, 10} -> 20 + Len(comment) [] v \in 11..14 -> 21 + Len(comment)
=============================================================================
