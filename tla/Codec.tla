-------------------------------- MODULE Codec --------------------------------
(* One command line as far as settings go: buffers, threads and block size    *)
(* are fitted to the memory, literals are filtered, the magic header is       *)
(* written; then the archive is read: settings from the header, filter undone, *)
(* and the chain of block headers walked as for -i (get_fileinfo).  What      *)
(* back ends and streams do in between is in other modules.                   *)
EXTENDS Filters, Magic

CONSTANT Confs     \* sets of configurations

VARIABLES
  conf,    \* settings, input and memory
  file,    \* which file of the command line
  phase,   \* what is done
  z,       \* sizes, see Sizing
  walk,    \* the filter's walk over the literals, see Filters
  header,  \* the magic header
  got,     \* the control after the header is read
  info     \* the locals of get_fileinfo

vars == <<conf, file, phase, z, walk, header, got, info>>

HASH_LEN == 16

SALT_LEN == 8

CBC_LEN == 16

Encrypted == conf.enc # 0

(* The sums of the first numbers of f. *)
Sums(f) ==
  LET Upto[n \in 0..Len(f)] == IF n = 0 THEN 0 ELSE Upto[n - 1] + f[n]
  IN Upto

(* An archive as the compression side leaves it: close_stream_out flushes both *)
(* streams of a chunk, stream 1 last.  What get_fileinfo makes of an encrypted *)
(* chunk behind one whose last block was padded is left out: README, section 6.*)
SoundArchive(c) ==
  /\ c.version \in Versions /\ c.comment \in Seq(Nat) /\ c.chunks # <<>>
  /\ c.chunks \in Seq([cb : 1..8, blocks : Seq([s : {0, 1}, c : Nat])])
  /\ \A k \in DOMAIN c.chunks :
       LET bs == c.chunks[k].blocks
       IN /\ bs # <<>> /\ bs[Len(bs)].s = 1 /\ \E i \in DOMAIN bs : bs[i].s = 0
          /\ c.enc # 0 /\ k < Len(c.chunks) => bs[Len(bs)].c >= CBC_LEN

ASSUME CodecAssumption == \A cs \in Confs : \A c \in cs : SoundArchive(c)

(* The archive as compthread lays it out: two stream headers, then the blocks  *)
(* in the order they were written, each behind its header.                     *)
HeadLen(cb) == IF Encrypted THEN 25 + SALT_LEN ELSE 1 + 3 * cb

BlockLen(cb, b) ==
  HeadLen(cb) + (IF Encrypted THEN SALT_LEN + Max({b.c, CBC_LEN}) ELSE b.c)

Body(ch, n) ==
  2 * HeadLen(ch.cb) + Sums([j \in 1..Len(ch.blocks) |-> BlockLen(ch.cb, ch.blocks[j])])[n]

Prefix(ch) == 2 + (IF Encrypted THEN 0 ELSE ch.cb)

MagicEnd == MagicLen(conf.version) + CommentLen(conf.version, conf.comment)

ChunkLen(ch) == Prefix(ch) + Body(ch, Len(ch.blocks))

ChunkStart(k) ==
  MagicEnd + Sums([j \in 1..Len(conf.chunks) |-> ChunkLen(conf.chunks[j])])[k - 1]

HeadsAt(k) == ChunkStart(k) + Prefix(conf.chunks[k])

ArchiveLen == ChunkStart(Len(conf.chunks) + 1) + HASH_LEN

NextBlock(ch, s, i) ==
  LET later == {j \in DOMAIN ch.blocks : j > i /\ ch.blocks[j].s = s}
  IN IF later = {} THEN 0 ELSE Body(ch, Min(later) - 1)

(* What is found where a header is expected: its lengths and the offset of the *)
(* next, or nothing that can be told.                                          *)
HeaderAt(o) ==
  LET streams == {x \in (DOMAIN conf.chunks) \X {0, 1} :
                    o = HeadsAt(x[1]) + x[2] * HeadLen(conf.chunks[x[1]].cb)}
      blocks == {x \in (DOMAIN conf.chunks) \X UNION {DOMAIN ch.blocks : ch \in Range(conf.chunks)} :
                   /\ x[2] \in DOMAIN conf.chunks[x[1]].blocks
                   /\ o = HeadsAt(x[1]) + Body(conf.chunks[x[1]], x[2] - 1)}
      ks == CHOOSE x \in streams : TRUE
      ki == CHOOSE x \in blocks : TRUE
      b == conf.chunks[ki[1]].blocks[ki[2]]
  IN CASE streams # {} -> [c |-> 0, next |-> NextBlock(conf.chunks[ks[1]], ks[2], 0)]
       [] streams = {} /\ blocks # {} -> [c |-> b.c, next |-> NextBlock(conf.chunks[ki[1]], b.s, ki[2])]
       [] OTHER -> [c |-> -1, next |-> 0]

-----------------------------------------------------------------------------

Init ==
  /\ \E cs \in Confs : conf \in cs
  /\ file = 1 /\ phase = "size"
  /\ z = SizeStart(conf)
  /\ walk = FilterStart(conf.filter, conf.data, TRUE)
  /\ header = <<>> /\ got = <<>> /\ info = <<>>

Size ==
  /\ phase = "size" /\ z.at \in {"try", "buffer"}
  /\ z' = IF z.at = "try" THEN (IF conf.forced = {} THEN TryThreads(conf, z) ELSE TryForced(conf, z))
          ELSE [z EXCEPT !.at = "malloc", !.limit = Limited(conf, z)]
  /\ UNCHANGED <<conf, file, phase, walk, header, got, info>>

SizeMalloc ==
  /\ phase = "size" /\ z.at = "malloc"
  /\ z' \in TestMalloc(conf, z, z.limit)
  /\ phase' = IF z'.at = "sized" THEN "filter" ELSE phase
  /\ UNCHANGED <<conf, file, walk, header, got, info>>

Filter ==
  /\ phase = "filter" /\ conf.filter # "none"
  /\ ~FilterEnd(conf.filter, walk, TRUE)
  /\ walk' = FilterStep(conf.filter, conf.delta, walk, TRUE)
  /\ UNCHANGED <<conf, file, phase, z, header, got, info>>

(* An archive of this version is written; one of an older version is given. *)
WriteMagic ==
  /\ phase = "filter"
  /\ conf.filter = "none" \/ FilterEnd(conf.filter, walk, TRUE)
  /\ header' = [write_magic(conf, z) EXCEPT !.version = conf.version,
                                            !.at16 = IF conf.version = 14 THEN @ ELSE conf.raw]
  /\ phase' = "written"
  /\ UNCHANGED <<conf, file, z, walk, got, info>>

ReadMagic ==
  /\ phase = "written"
  /\ got' = get_magic_v11(header)
  /\ walk' = FilterStart(conf.filter, walk.d, FALSE)
  /\ phase' = "unfilter"
  /\ UNCHANGED <<conf, file, z, header, info>>

(* ucompthread undoes the filter the header names. *)
Unfilter ==
  /\ phase = "unfilter" /\ conf.version = 14 /\ got.filter # "none"
  /\ ~FilterEnd(got.filter, walk, FALSE)
  /\ walk' = FilterStep(got.filter, got.delta, walk, FALSE)
  /\ UNCHANGED <<conf, file, phase, z, header, got, info>>

(* get_fileinfo, up to the first chunk. *)
InfoStart ==
  /\ phase = "unfilter"
  /\ conf.version < 14 \/ got.filter = "none" \/ FilterEnd(got.filter, walk, FALSE)
  /\ phase' = IF Encrypted /\ conf.version < 8 THEN "refused" ELSE "info"
  /\ LET cb == conf.chunks[1].cb
     IN info' = [ofs |-> InfoOffset(conf.version, conf.comment) + 2 + (IF Encrypted THEN 0 ELSE cb),
                 cb |-> IF Encrypted THEN 8 ELSE cb, hl |-> HeadLen(cb),
                 stream |-> 0, inBlocks |-> FALSE, last |-> 0, second |-> 0, pos |-> 0, total |-> 0, n |-> 0]
  /\ UNCHANGED <<conf, file, z, walk, header, got>>

InfoStream ==
  /\ phase = "info" /\ ~info.inBlocks /\ info.stream < 2
  /\ LET o == info.ofs + info.stream * info.hl
         b == HeaderAt(o)
     IN /\ phase' = IF b.c < 0 THEN "corrupt" ELSE phase
        /\ info' = [info EXCEPT !.inBlocks = TRUE, !.last = b.next, !.second = 0]
  /\ UNCHANGED <<conf, file, z, walk, header, got>>

InfoBlock ==
  /\ phase = "info" /\ info.inBlocks
  /\ LET o == info.ofs + info.last
         b == HeaderAt(o)
         bad == \/ info.last # 0 /\ info.last <= info.second
                \/ o + (IF Encrypted THEN info.hl ELSE 0) > ArchiveLen
                \/ b.c < 0
     IN /\ phase' = IF bad THEN "corrupt" ELSE phase
        /\ info' = [info EXCEPT !.second = info.last, !.last = b.next, !.inBlocks = b.next # 0,
                                !.stream = IF b.next = 0 THEN @ + 1 ELSE @,
                                !.total = @ + b.c, !.n = @ + 1, !.pos = o + info.hl + b.c]
  /\ UNCHANGED <<conf, file, z, walk, header, got>>

(* The chunk after the last block of the last stream, or the hash. *)
InfoEnd(o) == o >= ArchiveLen - HASH_LEN \/ (Encrypted /\ o + info.hl + HASH_LEN > ArchiveLen)

InfoChunk ==
  /\ phase = "info" /\ ~info.inBlocks /\ info.stream = 2
  /\ IF InfoEnd(info.pos) THEN phase' = "listed" /\ UNCHANGED info
     ELSE \E k \in DOMAIN conf.chunks \cup {0} :
            /\ k # 0 <=> \E j \in DOMAIN conf.chunks : ChunkStart(j) = info.pos + (IF Encrypted THEN SALT_LEN ELSE 0)
            /\ k # 0 => ChunkStart(k) = info.pos + (IF Encrypted THEN SALT_LEN ELSE 0)
            /\ phase' = IF k = 0 THEN "corrupt" ELSE phase
            /\ LET cb == IF k = 0 \/ Encrypted THEN info.cb ELSE conf.chunks[k].cb
               IN info' = [info EXCEPT !.ofs = info.pos + (IF Encrypted THEN SALT_LEN + 2 ELSE 2 + cb),
                                       !.cb = cb, !.hl = HeadLen(cb), !.stream = 0]
  /\ UNCHANGED <<conf, file, z, walk, header, got>>

(* The next file of the command line, compressed with the same settings. *)
NextOnLine ==
  /\ phase = "listed" /\ file < conf.files
  /\ file' = file + 1 /\ phase' = "filter"
  /\ z' = NextFile(conf, z)
  /\ walk' = FilterStart(conf.filter, conf.data, TRUE)
  /\ UNCHANGED <<conf, header, got, info>>

Next == Size \/ SizeMalloc \/ Filter \/ WriteMagic \/ ReadMagic \/ Unfilter
        \/ InfoStart \/ InfoStream \/ InfoBlock \/ InfoChunk \/ NextOnLine

Spec == Init /\ [][Next]_vars

-----------------------------------------------------------------------------

(* Types: the sizes, the filtered bytes and the place in the archive. *)
CodecTypeOK ==
  /\ phase \in {"size", "filter", "written", "unfilter", "info", "listed", "refused", "corrupt"}
  /\ z.at \in {"try", "buffer", "malloc", "sized", "refused", "crash"}
  /\ z.threads \in 0..conf.threads /\ z.saved \in 0..conf.threads /\ z.bufsize \in Nat
  /\ Len(walk.d) = Len(conf.data) /\ walk.d \in Seq(0..255)
  /\ walk.p \in Nat /\ walk.mask \in 0..7

Read == phase \in {"unfilter", "info", "listed"}

(* What the reader takes from the header is what the writer used: encryption,  *)
(* size, method and its parameters, filter and delta offset, hash, levels and  *)
(* comment (write_magic against get_magic_v11).                                *)
SettingsRead ==
  Read /\ conf.version = 14 =>
    /\ got.enc = conf.enc /\ got.hash = conf.hash /\ got.comment = conf.comment
    /\ got.filter = conf.filter /\ got.delta = (IF conf.filter = "delta" THEN conf.delta ELSE 0)
    /\ got.level = conf.level /\ got.rlevel = conf.rlevel
    /\ got.method = IF conf.method \in {"lzma", "zpaq", "bzip3", "zstd"} THEN conf.method ELSE "other"
    /\ conf.method = "zstd" => got.zlevel = conf.zlevel /\ got.strategy = conf.strategy
    /\ conf.method = "zpaq" => got.zlevel = zpaq_level(conf.level)
    /\ got.size = IF conf.enc = 0 /\ conf.eof THEN conf.size ELSE 0

(* The dictionary or block size the decoder takes from the header is enough    *)
(* for what was compressed: distances within the dictionary LZMA was given,    *)
(* and no buffer larger than a bzip3 or zpaq block (open_stream_out, the codes *)
(* of lrzip_private.h), for each file of a command line.                       *)
DecoderFits ==
  Read /\ conf.version = 14 =>
    /\ conf.method = "lzma" => got.block >= z.block
    /\ conf.method \in {"bzip3", "zpaq"} => got.block >= z.bufsize /\ z.block >= z.bufsize

(* A header of any version yields an offset for the delta filter exactly when  *)
(* that is the filter: ucompthread undoes it whenever there is an offset.      *)
DeltaConsistent == Read => (got.delta # 0 <=> got.filter = "delta")

(* The literals come back as they were (Bra.c, Bra86.c, Delta.c). *)
Restored ==
  phase \in {"info", "listed"} /\ conf.version = 14 => walk.d = conf.data

(* How many blocks each chunk has, and how much data is in them. *)
BlockCounts == [k \in 1..Len(conf.chunks) |-> Len(conf.chunks[k].blocks)]

DataSizes ==
  [k \in 1..Len(conf.chunks) |->
     LET bs == conf.chunks[k].blocks IN Sums([i \in 1..Len(bs) |-> bs[i].c])[Len(bs)]]

(* get_fileinfo comes to every block of every chunk and ends at the hash. *)
InfoWalksAll ==
  /\ phase # "corrupt"
  /\ phase = "listed" =>
       /\ info.n = Sums(BlockCounts)[Len(conf.chunks)]
       /\ info.total = Sums(DataSizes)[Len(conf.chunks)]

(* There is always a thread to compress with: "Must have at least one thread". *)
(* The code does not keep this: README, Deviations.                            *)
ThreadsLeft == z.at # "crash"

(* What the threads will allocate fits the limit they were fitted to: with the *)
(* overhead of the block size that is used (setup_overhead), for every file of *)
(* the command line, the test of open_stream_out still holds.                  *)
(* The code does not keep this: README, Deviations.                            *)
SizedToFit ==
  phase = "filter" /\ conf.forced = {} /\ z.threads > 1 =>
    Fits(conf, [z EXCEPT !.over = overhead(conf.method, conf.level, z.block),
                         !.limit = usable_ram(conf) \div testbufs(conf)], z.threads)

(* A decoder that knows only the header does what the writer did, with a       *)
(* dictionary and blocks that are large enough.                                *)
HeaderTells == CodecTypeOK /\ SettingsRead /\ DeltaConsistent /\ DecoderFits
=============================================================================
