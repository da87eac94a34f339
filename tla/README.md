# A TLA+ model of lrzip-next

lrzip-next compresses a file in two stages. The *rzip* stage cuts the input
into chunks and, over a very long history, replaces repetitions by matches; what
it finds goes to two *streams*, one of match headers and one of literals. Each
full stream buffer is then handed to a thread, which filters it, compresses it
with a back end (LZMA, ZPAQ, bzip3, zstd, ...) and writes it to the archive.
Decompression goes the other way, with threads that decompress ahead of the
reader.

The modules here model the program from its command line down to the LZMA coder
it carries along. TLC checks them on small instances. TLAPS proves, for all inputs
and all numbers and sizes of threads, buffers and blocks, the safety of the whole way
of the data but for what the back ends do to a block: the rzip stage with its hash
table and its checksums, the compression threads and the archive they leave, the
decompression threads, the decoding into temporary buffers and files, what happens
to the files on disk, the listing of an archive, and the threads of LZMA's match finder.
Line numbers are those of `src/src/*.c` and `src/src/lzma/C/*.c`.

## 1. Inventory

### Components

| component | source | state | operations | model |
|---|---|---|---|---|
| compression thread ring | stream.c 1090-1136, 1550-1875, 2253-2282 | `cthreads[]` with a semaphore each, `output_thread`, `output_lock`, `output_cond`, the static `current_thread` | `clear_buffer`, `compthread`, the waiting loops of `close_stream_out` and `close_streamout_threads` | CompRing, OrderedLog, ArchiveProofs |
| output streams, chunk loop, archive | rzip.c 800-1226, stream.c 1146-2282, lrzip.c 131-208, 1464-1591 | `stream_info` of each chunk, file offset, `control->eof`, `st_size`, `tmp_outbuf` | `rzip_fd`, `open_stream_out`, `flush_buffer`, `close_stream_out`, the writing part of `compthread`, `write_magic` | StreamOut, ArchiveProofs |
| input streams, decompression threads | stream.c 1352-1506, 1883-2319 | `struct stream` of both streams, `ucthreads[]`, `total_read`, `ram_alloced`, `output_thread` | `read_stream`, `fill_buffer`, `ucompthread`, `close_stream_in` | StreamIn, StreamInProofs |
| rzip hash table | rzip.c 267-383 | `hash_table`, `hash_count`, the two masks, `tag_clean_ptr`, the static `victim_round` | `insert_hash`, `clean_one_from_hash` | RzipHash, RzipHashProofs |
| rzip search and checksum thread | rzip.c 184-265, 385-534, 563-762 | position, rolling tag, best match, `last_match`; `control->checksum`, `cksumsem`, digest handles | `hash_search`, `put_literal`, `put_match`, `cksumthread` | RzipSearch, RzipSearchProofs |
| match and literal decoding | runzip.c | output and history file, digests, hash | `runzip_fd`, `runzip_chunk`, `unzip_literal`, `unzip_match` | Runzip, RunzipProofs |
| temporary buffers | stream.c 819-941, lrzip.c 647-880 | `tmp_inbuf`, `tmp_outbuf`, their offsets, lengths and limits | `put_fdout`, `read_fdin`, `read_1g`, `dump_stdin`, `flush_tmpoutbuf`, the seeks | TmpFiles, used by Runzip; RunzipProofs |
| sizing | util.c, stream.c 1166-1330 | threads, overhead, dictionary or block size, buffer size | `setup_ram`, `setup_overhead`, the loops of `open_stream_out` | Sizing |
| magic header | lrzip.c 131-400 | - | `write_magic`, `read_magic` and the readers of its fields | Magic |
| filters | lzma/C/Bra.c, Bra86.c, Delta.c | position, the mask of x86 | nine filters, each with its inverse | Filters |
| archive information | lrzip.c, `get_fileinfo` | offsets into the archive | the walk over chunks, streams and blocks | Codec, which composes the three above; CodecProofs |
| command line, configuration, files | main.c, lrzip.c, util.c | `base_control`, `local_control`, `outfile`, the files on disk | options, `read_config`, `compress_file`, `decompress_file`, `fatal_exit`, the signal handler | Session, SessionProofs |
| LZMA coder | LzmaEnc.c, LzmaDec.c, LzmaLib.c | range, `low`, cache, probabilities, `state`, four distances; dictionary, `tempBuf`, `remainLen` | coding of each symbol, `Flush`, `LzmaDec_DecodeToDic`, `LzmaDec_TryDummy` | RangeCoder, LzmaState, LzmaEnc, LzmaDec, Lzma |
| LZMA parser | LzmaEnc.c | the table `opt`, `additionalOffset`, the answers still to be given | `GetOptimum`, `Backward`, `GetOptimumFast`, `LzmaEnc_CodeOneBlock` | LzmaOpt |
| LZMA match finder | LzFind.c, LzFindOpt.c | window, `hash`, `son`, cyclic position, limits | `GetMatches`, `Skip`, `CheckLimits`, reducing positions, moving and reading | LzWindow, LzFind |
| its threads | LzFindMt.c, Threads.c | two `CMtSync`, blocks of heads and of matches | the hash thread, the bt thread, the encoder as client, stop and destruction | LzWindow, LzFindMt, LzFindMtProofs |
| back ends | stream.c 167-813 | - | `*_compress_buf`, `*_decompress_buf`, `lz4_compresses` | by outcome in CompRing and StreamIn |
| encryption | util.c, stream.c 1513-1546 | keys, salt | `rewrite_encrypted`, `lrz_crypt` | which header when: StreamOut; which lengths: Codec |
| sliding mmap, libzpaq, library demo | rzip.c 84-181, lib/libzpaq/, libdemo | - | - | not modelled, see section 7 |

### How they interact

    main ── options, lrzip.conf ──> for each file: compress_file | decompress_file | get_fileinfo

    rzip_fd ── hash_search ──> write_stream ──> clear_buffer ──> compthread ──> archive
       |            |             (2 buffers)      (ring of slots,    | (one after
       |        cksumthread                         one semaphore     |  the other)
       |                                            each)             └─ filter, LZMA:
       └─ control->eof, st_size, read by compthread                      finder threads, parser, coder

    archive ──> fill_buffer ──> ucompthread ──> read_stream ──> runzip_chunk ──> tmp_outbuf | file
    (tmp_inbuf) (reads ahead)   (joined in order)               unzip_literal, unzip_match

There is one main thread. It calls down to `clear_buffer`, which starts threads,
and is called back by nothing; threads and main share `stream_info`, the file
offset and `control` without a lock. What keeps them apart is the *turn*
(`output_thread`), the slots' semaphores, and in decompression `pthread_join`.
The match finder of LZMA has two threads of its own, which are driven with
semaphores and two critical sections each.

### What is hard

* Compression threads finish in any order, may fail for want of memory and try
  again when it is their turn, and must write in the order of handing over; main
  walks round the ring with an unlocked copy of `output_thread`.
* Threads read `control->eof` and `st_size` long after main has moved on.
* A second attempt at filtering and (de)compression starts from what the first
  one left in the buffer.
* Reading ahead is bounded by threads and memory, and the place of the next chunk
  is computed from how far it went.
* Insertions move entries of the hash table about while a sweep removes others.
* The checksum thread and the search write to the same digests.
* Matches are extended backwards, overlap themselves, are written late, and
  set the search position back.
* The output moves from memory to a file in the middle of a match; an archive on
  STDIN is sought in although a part of it has not been read.
* A signal or an error comes between the registration of an output's name and
  its creation, or its completion and the deletion of the input.
* One file of a command line leaves settings behind for the next.
* The hash thread moves the window of the match finder while two others read it;
  positions are reduced before they overflow; threads are stopped half-way.
* The LZMA decoder is cut off between any two bytes of input or of output, and
  looks ahead without changing its state.
* The LZMA parser follows entries of a table that older searches have filled.
* A filter must know from converted bytes which instructions it has converted.

`PROJECT.json` lists these hazards, with the line each one bites at and the
properties that would catch it. Where the code already goes wrong at that line, the
property names the case and shows that it happens in no other; a note says so, and
section 6 has the statement without the exception.

### What makes each component correct

* Ring: one writer at a time; blocks in the order of handing over; nothing lost;
  nobody waits for ever; after a waiting loop no thread is left.
* Archive: header chains lead through each stream in order; each header is
  encrypted once and each block filtered once; the reader stops at the right
  chunk; what was sent to STDOUT is final.
* Reading: the units of each stream arrive in order, threads are started and
  joined in pairs, everything is accounted for, a chunk is read to its end.
* Hash table: exact count, no full table, nothing unreachable, clean sweeps.
* Search: what is written decodes to what was read; each byte is checksummed
  once, in order; the search ends.
* Decoding: the output is the data whatever the sizes of the buffers; a good
  archive is accepted.
* Settings: the reader knows from the header what the writer did, and its
  dictionary and blocks are large enough; filters are undone exactly.
* Files: which unfinished output may be left, when input and output of a file may go
  missing together, when a file that was there may be lost.
* LZMA: coder and decoder stay in step; the symbols the parser chooses are true;
  the finder reports true matches and misses none; its threads hand on each
  position once, touch no stale pointer, and end.

## 2. Modules

`CompRing` **— the ring.** Variables are named for what they are in the code:
`cksem[i]`, `current_thread`, `output_thread`, `waited`, `ret`. `tpc[i]` is where
the thread of slot `i` is in `compthread`, `mpc` where main is. `ClearBuffer`
waits for the slot's semaphore, starts a thread and moves `current_thread`;
`CompressOk/Fail/Fatal` are the outcomes of a back end; `Sleep`, `TakeTurn` and
`Advance` are the loop around `pthread_cond_wait` and the broadcast; four writing
steps follow, then `Post`. `StartDrain ... EndDrain` and `StartClose ... EndClose`
are the two waiting loops. `Fatal` is `fatal_exit`, at any time. `log` records the
blocks in the file.

`OrderedLog` **— the promise.** Blocks are accepted, and stored in order.

`StreamOut` **— compression of a file.** It extends CompRing: each action conjoins
a ring action with what it does to the streams and the file. The file is a
sequence of records (magic, chunk header, stream heads, blocks, hash). `MapFile`,
`MmapStdin` and `AddStdinSize` start a pass; `OpenStreamOut`, `FlushBuffer`,
`CloseStreamOut`, `DrainThreads`, `EncryptLastHeads` and `EndPass` make it up;
`CloseThreads`, `WriteHash` and `WriteFinalMagic` end the archive. `PutMagic`,
`PutHeader`, `Patch` and `PutBlock` are the thread's writing steps, `Compress` and
`GetTurn` put the filter on and take it off. `mode` is how the program was called.
`mmap_stdin` sets `eof` and `st_size` in two steps because threads read both.

`StreamIn` **— decompression of a chunk.** `Layout` lays a chunk out as the
compression side does, from what the rzip stage wrote; it is the input, not the
system; it is a fold over the sequence of these writes. `ReadUnit` and `EnterFill` are `read_stream`; `FillRefuse`, `FillEmpty`,
`FillBlock`, `PassTurn` and `Join` are `fill_buffer` (the label `fill_another` is
the loop through `mpc = "fill"`); `Decompress`, `DecompressFail`,
`DecompressFatal`, `Sleep` and `TakeTurn` are `ucompthread`. `content` says whether
a thread's buffer holds the compressed block, the data, or garbage. Bytes are
scaled: a header is 1, a unit of literals 32, a match stands for 64.

`RzipHash` **— the hash table.** Tags and masks are numbers, as in the code
(`(t & mask) == mask` is `t % (mask + 1) = mask`). `HashSearch(t)` is the call of
`insert_hash` for a position with tag `t`; `InsertDisplace`, `InsertPlace` and
`InsertReturn` are that function, its recursion kept as a stack `frames`;
`CleanOne` and `SweepEnd` are `clean_one_from_hash`; `NextChunk` empties the table.

`RzipSearch` **— the search, its output and its checksum.** `Skip` and `Search`
are a pass of the loop of `hash_search`. The table is left open: a search may come
upon any earlier position or none. That covers every table RzipHash can be in,
every `hash_index` and every collision. `StartCksum`, `CksumCrc`, `CksumHash`,
`CksumPost` and `FinalCksum` are the checksum; `Decode` is `runzip_chunk`. A tag is
the parity of each letter in the window, which is what an exclusive or of
`hash_index` entries depends on.

`TmpFiles` **— the buffers that stand in for files.** `tmp_outbuf` and `tmp_inbuf`
are records with the offsets, lengths and limits of the code; `put_fdout`,
`read_fdin`, `read_seekto` and the others are operators that return the new record.
Each byte is different, so that one read from the wrong place shows.

`Runzip` **— decompression of whole archives.** `OpenChunk` and `OpenHeads` read the
header of a chunk and of its streams, `FillHead` and `FillData` a block,
`unzip_literal` and `unzip_match` are tokens carried out, `EndChunk` compares the
checksum, `CheckHash` the hash, with `-c` by reading the output again. The actions
`PutMagic` to `FinalFlush` are what compression to STDOUT does with the same buffer.
Threads are in StreamIn; here blocks come in the order in which `fill_buffer` asks.
`Sense` and `Whole` are the reference: what chunks of tokens mean without any buffer.
`SoundChunks` says which chunks the rzip stage can have written.

`Sizing`, `Magic`, `Filters` **— pure functions.** Sizes in kilobytes, header fields
as numbers, filters bit by bit. The loops of `open_stream_out` are the steps
`TryForced`, `TryThreads`, `Limited`, `BufSize`, `TestMalloc` on a record of the
variables they change. A filter is a walk of `FilterStep`; `Base` bytes without
instructions come before the buffer, which puts it at an address where the carries
of the converted targets occur.

`Codec` **— the composition of these three.** `Size`, `SizeMalloc`, `Filter` and
`WriteMagic` are the writer, `ReadMagic` and `Unfilter` the reader; `InfoStart`,
`InfoStream`, `InfoBlock` and `InfoChunk` walk an archive laid out as `compthread`
does, as `get_fileinfo`. `NextOnLine` goes on to the next file with the settings the
last one left behind.

`Session` **— one run of the program.** Its variables are the two control blocks,
the names on the command line, what is at each path and what went to STDOUT. A file
is an input, an old file, a partial or a complete output. `Opt*` are the cases of
the option switch, `ReadConfig` is `lrzip.conf`, `StartFile` copies the control and
derives the mode. `Compress*` and `Decompress*` are the two functions, cut wherever
the disk or the registered `outfile` changes; each may fail, in `fatal_exit`, and
`Signal` comes between any two steps.

`RangeCoder`, `LzmaState`, `LzmaEnc`, `LzmaDec`, `Lzma` **— the LZMA coder.** The
range coder with its carry and cache; the contexts of each bit; the twelve states
and four distances; the decoder with its look-ahead, its stash of input and its
dictionary. Widths are constants. In `Lzma` any symbol the format can express may
come next (`EncodeFirst`, `EncodeSymbol`, `EncodeEnd`); then the stream is decoded
at once (`DecodeAll`, the library call of `lzma_decompress_buf`) or in pieces
(`DecodePiece`).

`LzmaOpt` **— the LZMA parser.** `GetOptimumAtOnce`, `GetOptimumStart`, `SearchOn`,
`SearchEnds` and `TakeNext` are `GetOptimum`, `GetOptimumFast` is the other parser,
`Code` the switch of `LzmaEnc_CodeOneBlock`. Each comparison of prices may go either
way, except that an infinite price loses: what is shown holds for all prices.

`LzWindow`, `LzFind` **— the match finder.** `LzWindow` has the buffer that is read
into and moved, with the functions' names. `GetMatches` and `Skip` of `LzFind` are
those of all `bt` and `hc` finders, which reduce all positions at once (`Normalize`).
`MtGetMatches` and `MtSkip` are what the threaded finder computes; its three threads
reduce their positions separately (`HashReduce`, `BtReduce`, `LzReduce`), each before a
block of its own, so that they hand on distances and no positions. `son` starts with junk, as the code does not clear it. Bytes are
0 and 1 and hash functions accordingly narrow, so collisions are frequent.

`LzFindMt` **— its threads.** `NextStart ... Locked` are
`MtSync_GetNextBlock` step by step, `StopSend ... StopNothing` are
`MtSync_StopWriting`, `Hash*` and `Bt*` the two threads, `Lz*` the encoder, which may
give up at any position. A block is the range of positions it is about.

`MC*` modules only define constants. Definitions whose comment calls them a
*mutant* or a *plausible bug* are changed forms of a definition, for testing the
properties; no specification uses them.

## 3. Runs

| run | instance | shows |
|---|---|---|
| `ring` | 3 slots, 5 buffers, failing back ends, fatal errors | `WriterExclusion`, `QuiescentWhenDrained`, refinement of OrderedLog (`KeepsPromise`), and under fairness `RingLive`: every buffer is written, both waiting loops end |
| `out` | 2 threads, input up to 3 units, chunks of up to 2, one full buffer; file or STDIN to a file, plain or encrypted, and file to STDOUT, with filters | `ArchiveSound` (chains, layout, the end flag of encrypted archives), `HeadersEncryptedOnce`, `FilterOnce`, `RunzipReadsAll`, `FlushedImmutable`, and `Terminates` under fairness |
| `in` | `Threads = 2` (three threads for stream 1), chunks of up to 5 operations, several blocks in both streams, with and without memory to read ahead, hash, encryption, filter, failing back ends | `BuffersInOrder`, `DataIntact`, `ChunkWhole` (threads in pairs, chains accounted for, compressible chunks accepted), `ChunkRead` under fairness |
| `hash` | 8 buckets, 4-bit tags with 1 to 4 low bits set, 6 insertions a chunk, any number of chunks | `SweepSound` (exact count, clean sweeps), `EntriesFindable` (findable, stored once), `CallsEnd` under fairness |
| `search` | all chunks of up to 9 letters of 2 (up to swapping them), minimum match 2, great match 4, runs of up to 3, pages of 2 | `SearchSound` (the chunk comes back, rolling tags are right), `ChecksumWhole`, `SearchEnds` under fairness |
| `session` | up to 2 files, up to 3 options, `lrzip.conf`, errors and signals | `LeftoversKnown` (an unfinished output stays only with `-K` or when `runzip_fd` returns early), `DataLostOnly` (input and finished output go missing together only in the ways it names), `ExistingLostOnlyEarly` |
| `runzip` | the archive of an empty file, 1 or 2 chunks of up to 5 bytes, 8 orders of blocks, `tmp_outbuf` of 1 to 20 bytes, `tmp_inbuf` of 3 to 20 | `OutputWhole`, `GoodAccepted`, `StdinFaithful`, `CompressedExact` |
| `codec` | every filter on short buffers of critical bytes; all methods, levels, filters, hashes, versions; archives of one and two chunks; machines of 12 and 64 GB | `HeaderTells`, `Restored`, `InfoWalksAll` |
| `lzma` | up to 3 symbols of 3 bytes, streams of up to 14 bytes of data, dictionary of 4 to 16, with and without end marker, whole and in pieces | `CodersAgree`, `StreamWhole` |
| `opt` | all words of 9 bits, 3 of them already coded, three sets of last distances, both parsers | `ParseTrue`, `TableSound` |
| `find` | ten finders on all words of 8 bits in memory, and on two of 28 bits in memory or read in pieces; search cut short or not | `MatchesSound`, `NothingMissed` |
| `mt` | two hash and two bt blocks; one or two streams of up to 11 bytes and one of 98 in memory, two of 60 bytes read in pieces, an encoder that gives up, threads that cannot be created | `BlocksHandedOn`, `WindowStable`, `SafeToDestruct`, `MtFinishes` under fairness |

Type invariants are conjuncts of the properties named for the whole module
(`ArchiveSound`, `LeftoversKnown`, ...); the one of the ring is proved (`RingTyped`).
Deadlock is an error except in `codec`, `lzma`, `find` and `mt`, where the system
stops when its input is used up; that nothing stops early is there what
`InfoWalksAll`, `StreamWhole`, `NothingMissed` and `MtFinishes` say.

### Why the bounds are enough

* `ring`: with more buffers than slots every slot is used again, so that the wrap
  of both counters and a second thread in the same slot occur, and a waiting loop
  may start at any slot. Theorems (section 5) remove the bounds.
* `out`: three units in chunks of up to two give one and two chunks (up to four
  from STDIN, where memory may be short), inputs that end within a chunk and at its
  end, and empty input. Two threads and up to three buffers a chunk make threads
  of two chunks overlap. `MaxJobs` is never reached (`JobsAssumption`), `MaxFlush`
  bounds the full buffers of a chunk.
* `in`: stream 1 has more blocks than threads, so that its ring wraps and reading
  ahead stops for each of its reasons: no more blocks, a busy thread, no memory.
* `hash`: the table holds at most four entries between calls, so the fifth
  insertion starts a sweep; the tags share buckets, and one tag can displace
  another. All actions occur, also the end of a sweep and the start of the next.
* `search`: nine letters of two are enough for a match that overlaps itself, one
  extended backwards to the last match, one that is split, one replaced by a
  better one and one written late, and for three pieces of the checksum.
* `session`: a second file meets whatever the first one left in the shared
  control. No property depends on more than three options, since each adds or
  removes flags; one setting of `lrzip.conf` at a time comes before them.
* `runzip`: the buffer sizes are those at which a header, a literal, a match or a
  chunk just does or does not fit; two chunks show what is carried over. The orders
  of blocks have every way to go back for a block and to skip one afterwards within
  four blocks. Theorems remove the bounds.
* `codec`: the bytes are the opcodes and immediates at which the filters decide
  or carry; sizes are those of the code, not scaled. With 12 GB both threads
  and block sizes are given up, with 64 GB at most threads. For the listing theorems
  remove the bounds.
* `lzma`: with eight-valued bytes the range is renormalised at nearly every bit,
  carries run through several cached bytes, and a symbol may need more input than
  the stash holds. Three symbols include every kind after every other; the
  dictionary of 4 wraps. The assumption of `RangeCoder` is what the widths
  of the code have as well.
* `opt`: seven entries with three in reserve make the search stop for want of
  room, for a long match and at the end of its table; `numFastBytes` is 3, so all
  lengths up to 5 occur on both sides of it.
* `find`: positions are reduced every 13, the array of 7 sons wraps, and the
  window is moved several times in 28 bytes. The three threads of `mt` reduce each
  its own positions, up to `MtBlock` = 3 positions early, so that they count
  differently from then on.
* `mt`: two blocks are the fewest with which one is filled while the other is
  used, and there are more blocks than that in the longer inputs.
  `MaxAvail` is less than one of the inputs, and the sum of what is ahead for a
  block of matches exceeds it.

### Fairness

Weak fairness of the main thread and of each thread's next step. Both are POSIX
threads that the system schedules; a step that waits (for a semaphore, a condition
variable or `pthread_join`) is not enabled until what it waits for has happened,
and the condition variable is broadcast. No fairness is assumed of the choice
between outcomes (a back end need not succeed) nor of `Fatal`, of `Signal`, of more
input, or of the start of a waiting loop in the ring. In RzipHash, RzipSearch,
Session and Runzip weak fairness only says that the single thread goes on. In
LzFindMt each of the three threads has its own. Its critical sections need no strong
fairness: while the hash thread waits for one, its holder soon runs out of blocks and
gives it back.

## 4. Plan

Done: all components of section 1 but those at its end. To come:

1. Proofs about LzFind: that `MatchesSound` follows from the shape of the trees.
2. `SlidingMmap`: the two windows; a byte is only read through one that covers it.
3. Back ends: the retry loop of `lzma_compress_buf`, blocks that do not shrink.
4. Several chunks with their threads, as a composition of StreamIn with Runzip.

Abstract specifications worth stating: a reader of StreamIn sees two ordered
sequences (in the manner of OrderedLog); LzFindMt implements LzFind.

## 5. Proofs

The first part of `ArchiveProofs` is about the ring, for every `NThreads` in
Nat \ {0} and every `MaxJobs` in Nat (the only assumptions):

* `RingInvariant`: `RingInv` is an invariant. None of the properties of the ring is
  inductive alone: that only the slot named by `output_thread` writes does not say
  that the next slot to write holds the next buffer. `RingInv` adds that every
  buffer handed over whose turn has not passed is held by exactly one slot
  (`HeldOnce`, `AllHeld`), that these slots follow each other round the ring from
  `output_thread` to `current_thread` (`InRingOrder`), that a semaphore is up only
  if its slot has no thread (`SemIdle`), that a writer knows it has had its turn
  (`WritersWaited`), and that the slots a waiting loop has passed are idle
  (`LoopPassed`, stated with the distance round the ring so that it does not matter
  where the loop started).
* `RingTyped`, `RingWriterExclusion`, `RingQuiescent`: consequences of it.
* `RingKeepsPromise`: the ring implements OrderedLog. A block is appended to `log`
  only by the slot at `output_thread`, which by `RingInv` holds the buffer after
  the last one stored.

Its second part is about the composition of the ring with the streams and the file.
Every step of StreamOut is a ring step or leaves the ring alone
(`StreamOutRefinesRing`), which carries exclusion, quiescence and the order of the
blocks over to the whole of compression (`StreamOutExclusion`,
`StreamOutKeepsPromise`).

Its third part goes on to what the threads write, for every input, chunk
size, set of modes and bound that the assumptions of StreamOut allow. `ArchiveInv`
adds to `RingInv` five parts, one for each level of the program:

* `PassInv`: what `rzip_fd` has taken in is what the chunks opened so far hold, only
  the last of them can be empty, and `eof` and `st_size` are right whenever the loop
  is at its top. On STDIN `eof` is ahead of `st_size` between two statements.
* `JobsInv`: the buffers are handed over chunk by chunk, no chunk is left out, and
  each stream of a chunk that was closed has handed over at least one; `ChunkDrained`
  says that with encryption main has waited for all of them.
* `AppliedInv`: how often the filter is on the data of a slot, by where its thread is.
* `FileInv`: where everything is. Buffer k of chunk c is at offset k + 3c, as each
  chunk brings three records with it, and the chunk starts after the last buffer of the
  one before (`Places`, `InOrder`). Writing is done by several threads and in several
  steps, so `SinfoSound` ties `initial_pos`, `cur_pos` and `last_head` to how far the
  one whose turn it is has come (`Phase`). `Linked` says that a header of a stream leads
  to the next one with none between them, and that `last_head` leads to the last,
  which is not there yet while a thread is between its patch and its block.
  `EncAt` counts how often a header was encrypted, `FlagsSound` and `OffsetSound`
  say what flags, magic, file offset and `flushed` are.

The step of each action is a lemma of its own (`FilePutBlock`, `FilePatch`,
`FileOpen`, ...). What a reader finds follows from it: `KindFacts` lists the
offsets of each kind of record, from which `ArchiveIsSound` counts and follows them;
`ArchiveEncryptedOnce`, `ArchiveFilteredOnce` and `ArchiveFlushedStays` are
consequences. For `ArchiveReadsAll` the sizes in the chunk headers are added up; that
the recursive function `DataUpTo` is defined and agrees with what was taken in is
shown with a minimal counterexample. `ArchiveFilteredOnce` has the hypothesis that no
mode uses the RISC-V filter: section 6 shows what happens in one that does.

The first part of `StreamInProofs` is about the operators that lay a chunk out, for every sequence of
operations of the rzip stage and every room in the buffers. `Layout` is a fold over
the writes; its invariant (`Grown`) says of each stream that the headers from its
head on lead through distinct places to the last one, that the units of the blocks
they lead through are those written so far without what is still in the buffer, in
order, and that every header of a compressible chunk has the sizes that
`fill_buffer` asks for. A step either grows a buffer or flushes it into a new block
at the end of the chain, which changes one link of one stream. `ChunksSound` is what
is left when both buffers have been flushed.

Its second part builds on that. `InInv` says which threads of each stream's ring are
busy (those from `unext_thread` to `uthread_no`, `RingShape`), that they hold
consecutive blocks of the chain, from the unit to be read next to the one where
`last_head` will go on (`Chain`, `HeadSound`), and that `ram_alloced` is the memory
of these blocks (`RamSound`). It follows that units come in order and each once, with threads started and
joined in pairs (`BuffersAlwaysInOrder`), that no compressible chunk is refused
(`CompressibleAlwaysAccepted`, with `ChunksSound`), and that a back end is given the
compressed block and nothing else (`DataAlwaysIntact`). The last has the hypothesis
that no mode combines a filter with a failing decompression: section 6 shows what
happens in one that does. For `ChainsAlwaysAccounted` the layout is shown to fill the
chunk without a gap (`LayoutLaid`: the bytes of the blocks of both chains and of the
heads add up to its length), and `ReadSound` says that `total_read` is the sum of what
was passed in the two chains, however the reading ahead has mixed them.
`ChunksReadWhole` puts the two halves of `ChunkWhole` together.

`RzipHashProofs` is about the hash table, for every size of the table, every set of
tags and every chain limit. `HashInv` says:

* `PathInv`: from the primary bucket of a tag to an entry that the sweep under way keeps
  there is no gap and no entry with fewer low bits set. The sweep itself may empty
  buckets that only entries to be swept are behind, which is why the path is required
  for kept entries alone.
* `FramesInv`: `insert_hash` displaces an entry and inserts it again by recursion before
  it takes the bucket. Each caller waits at a bucket that still holds what it displaces,
  its own entry has that bucket in its path, and the entries of the frames get strictly
  worse inwards, so that no call can take the bucket another is going to take.
* `OnceInv`: while calls return an entry may be in the table twice, once in the bucket
  the caller is about to take.
* `CountInv`, `MaskInv`: an entry is counted when `insert_hash` is called for it; during
  a sweep only tags that satisfy the better mask come in.

`lesser_bitness` is shown to be a strict order from facts about `pow2`, which
are proved by a minimal counterexample. `SweepsAreSound` and `EntriesAreFindable`
follow.

`RzipSearchProofs` is about one chunk, for every chunk, every answer of the table and
every schedule of `cksumthread`. `SearchInv` says that the best match so far begins behind
`last_match` and refers to equal letters before it (`MatchInv`), that the streams decode
to the chunk up to `last_match` (`StreamsInv`), that the rolling tag is that of the
window, and that what is in each digest and what `cksumthread` has still to write make up
the chunk up to `cksum_limit` (`SumInv`). The decoder is the recursive function `Decoding`:
it is shown to be defined, to depend only on the part of the streams it has reached, and
to be extended by a piece of a literal or of a match as the encoder extended the
streams, also when a match overlaps itself. `SearchIsSound` and `ChecksumIsWhole` follow.

`SessionProofs` is about the files, for any number of names and options and any error or
signal. `SessionInv` ties the place in `compress_file` or `decompress_file` to the name
that is registered for deletion (`OutfileKnown`) and to what is on the disk under it
(`OutputKnown`): a name is registered exactly while there is an output in progress, and
only that output can be partial. `SessionLeftovers` follows. `InputKnown`, proved on top
of it, says that the input of this file is there until `UnlinkInput`, and those of later
files longer; with both, the action properties `SessionDataKept` and
`SessionExistingKept` look at each step that changes the disk.

`RunzipProofs` is about decompression and the temporary buffers, for all archives of
sound chunks, all orders of blocks and all sizes of the buffers (`RunzipAssumption`: the
chunks are such as rzip writes, every chunk has a block of stream 0, buffers have at
least one byte). The parts of `RunzipInv`:

* `DataInv`: what was decoded of this chunk is in `tmp_outbuf` or, once that was
  too small, at the end of the file; what was decoded before is in the file or went out;
  the digest is over just these bytes. `unzip_match` reads from the one or the other and
  writes its history again and again; `PiecesIs` and `PutAllKeeps` show that this is
  what the match means.
* `WriteInv`: the same for compression to STDOUT, where heads that were written are
  patched in the buffer.
* `OrderInv`, `InInv`: which blocks were read, and what of STDIN is in `tmp_inbuf`. As
  long as the reader has not gone back and skipped a block, each byte of the chunk is
  where it belongs (`Good`). After that a block that is still to be read is not
  (`Lost`), and stays so until the reader comes to it. When the buffer is too small
  the rest goes to a file that begins at some byte of the archive (`Suffix`), and what was
  lost before is lost there (`LostInFile`).
* `EndInv`: the properties themselves.

`OutputAlwaysWhole`, `GoodAlwaysAccepted`, `StdinAlwaysFaithful` and
`CompressedAlwaysExact` follow. The proof corrected two statements that were true only
of the small instance TLC had: reading from STDIN also goes wrong with the blocks in the
order 1, 0, 0, 1, and `in_len` can then exceed the limit of the buffer. `SkipsBack` now
says exactly which orders do it, and the instance has them.

`LzFindMtProofs` is about the match finder's threads, for any
sizes and numbers of blocks and any set of inputs. It assumes what the code's
constants have (`MtAssumption`: a block of matches has room for the matches of a
position, the longest match has at least the bytes that are hashed, and the counter
of bytes ahead can hold as many and the size of a block of matches), and of an input that it is read in pieces of at
least one byte and has entries that fit into a block (`ConfsAssumption`). The
argument has four layers:

* `ProtocolInv`: for each of the two worker threads, blocks free, filled, being
  filled and being read add up to the ring (the semaphores are counters of
  blocks, and what each thread holds follows from where it is); each critical section
  is held by whom its record says, and a thread that was stopped has given back
  what it held. From it follow `DestructedSafely` and `NoReleaseRefused`. A stop at
  any point is what makes this hard: the client counts a block it has not
  yet read as its own, and `StopRelease` gives it back.
* `BlocksInv`: the filled blocks follow one another. The blocks of heads that are
  filled are a chain that begins where the bt thread will go on (`BlocksAreHandedOn`),
  each with the positions its length says; the cursor of the bt thread lies in the
  block it holds; each block of matches holds what is counted for
  consecutive positions, and the one the encoder holds continues what it has read.
* Pointers: as long as a position is in use, pointer plus origin of the window is
  that position, over all moves of the window (`PointersStable` is proved as
  `PointersAreStable`, and that the encoder is told no more bytes than there are as
  `AvailIsHonest`).
* `HistoryInv`: the bt thread and the encoder are behind the hash thread by
  no more than the blocks between them hold: number of blocks times what fits into
  one, plus what is in hand. `MatchFinder_Create` is told to keep that much in addition
  to the history, so a move of the window leaves everything they may still look
  at. `WindowIsStable` puts it together.

`CodecProofs` is about the listing of an archive, for archives of any number of chunks
and blocks of any lengths, of every version, plain and encrypted. It assumes of an
archive what `close_stream_out` leaves (`SoundArchive`): both streams of a chunk have a
block and stream 1 has the last one; in an encrypted archive only the last chunk may end
in a padded block (see section 6). `WalkInv` says that `get_fileinfo` is always in front
of a header that exists or behind the last block of a chunk, and that its tallies are
those of the blocks it has passed: all of the earlier chunks, and of this one the
blocks of stream 0 before those of stream 1, wherever they are in the file
(`CountAt`, `DataAt`). Offsets are sums of lengths, and sums grow
(`SumsGrow`), so that an offset is that of one header only (`StreamsAre`, `BlocksAre`).
`EndTells` shows how the end of the last chunk is told from that of another although the
padding of an encrypted block is not in its header. `InfoAlwaysWalksAll` follows.

Some of the arguments are inductions in disguise, which the provers cannot take
from the library: a loop that reads pieces, a fold, a sum. They are done by a minimal
counterexample: were there a bad index there would be a least one (`LeastNat` and
`LeastOf`, from the well-foundedness of `<`).

Only model-checked:

* all liveness properties, which need fairness;
* Codec (`HeaderTells`, `Restored`): the sizing loops and the filters
  are pure functions on numbers of the code's own widths, with shifts and masks. The
  provers have no theory of bits, and that a filter is undone on a buffer of any length
  is an induction over the buffer.
* LzFind (`MatchesSound`, `NothingMissed`): that a search of the binary tree comes to
  the longest match is a statement about trees kept in an array that wraps, by induction
  over their depth.
* Lzma (`CodersAgree`, `StreamWhole`) and LzmaOpt (`ParseTrue`, `TableSound`): what the
  range coder makes of data of any length is an induction over the symbols, and both
  modules use recursive operators, which the provers cannot expand.

## 6. Deviations

Where the code does something else than its comments, messages or manual say, the
statement is in the module as a property, marked as one that the code does not keep.
To see the behaviour, give TLC that property alone, with the constants named here and
the others as in the run's cfg.

Output side (`MCStreamOut`):

* `EofFlagMarksLastChunk`, `Modes <- FileToStdout`, `NThreads = 3` (stream.c 1745):
  the flag "whether this is the last chunk" is read from `control->eof` when the
  first thread of the chunk has its turn, by when main may have set it for a later
  chunk. With encryption main waits, and the flag is right (`EncryptedEofFlags`).
* `MagicSizeIsWhole`, `Modes <- StdinToStdout` (lrzip.c 142): the size in the magic
  may lack the last chunk, because `mmap_stdin` sets `eof` before it adds to `st_size`.
* `FilterOnce`, `Modes <- RiscvToFile` (stream.c 1703): after a failed attempt the
  RISC-V filter is not taken off before it is applied again.

Input side (`MCStreamIn`):

* `ChunkAccepted`, `Archives <- Incompressible` (stream.c 2105): an offset in the
  compressed chunk is compared with the uncompressed size; incompressible data that
  fills its buffers is refused.
* `NextChunkFound`, `Archives <- ShortStream0`, `Modes <- Plain`, `Threads = 1`
  (stream.c 2307): with one thread the empty block at the end of stream 1 is not
  accounted for, and the next chunk is looked for too early.
* `DataIntact`, `Modes <- FilterFails` (stream.c 1926): after a failed decompression
  the filter is taken off the compressed data, which spoils the second attempt.

Whole archives (`MCRunzip`):

* `StdinLikeFile`, also with `InMax = {20}` (stream.c 880): an archive on STDIN is
  read from the wrong place when the reader goes back for a block it passed and then
  skips forward again, since `read_fdin` stores at `in_ofs` what belongs at `in_len`
  (for instance with the blocks of the two streams in the order 1, 0, 0, 1), after which
  `in_len` may pass the limit of the buffer; or when a chunk does not fit into `tmp_inbuf`. `StdinFaithful` says that it happens
  in no other case.
* `NoFileNoSuccess` (stream.c 829): when `tmp_outbuf` is too small in compression to
  STDOUT, `fd_out` is 0 rather than -1; the output is written to descriptor 0 and the
  program reports success.
* `GoodAccepted` names the three kinds of good archives that are refused, or would
  be: several chunks without a hash, because `crc_handle` is not reset between them
  (runzip.c 352); `-c` together with `-t`; `-t` of an archive on STDIN that did not
  fit into memory.

Files (`MCSession`):

* `ExistingKept`: the manual says that without `-f` no existing file is overwritten,
  and a comment in `decompress_file` (lrzip.c 1674) that it must not be deleted. The
  name of the output is registered before the archive is opened; if that fails,
  `fatal_exit` deletes the file that was there. `ExistingLostOnlyEarly` bounds the
  window.
* `BrokenDeleted`: the manual says that an output interrupted by user or error is
  normally deleted (man/lrzip-next.1 304). When `runzip_fd` returns -1 because the
  archive ends too early (runzip.c 394), `decompress_file` returns false (lrzip.c 1762)
  and `main` returns -1: `fatal_exit` is not called, and the partial output stays
  without `-K`. `LeftoversKnown` says that this is the only way.
* `DataLostOnly` names three ways to lose a file altogether: `-t` followed by `-D`;
  `-o` with the input's own name in compression; and a signal after the input has been
  unlinked and before `outfile` is released (lrzip.c 1575-1580, 1800-1807), when
  `fatal_exit` deletes the finished output too.

Sizing (`MCCodec`, `Confs <- MCSmall`, `Base = 0`):

* `ThreadsLeft`: the loop may end with no thread, and stream.c 1311 divides by their
  number; main.c 570 says "Must have at least one thread".
* `SizedToFit`: a retry restores dictionary or block size without the overhead that
  goes with it (stream.c 1209-1214, 1235-1239), so that more is allocated than was
  fitted.

Met while reading, without a property: `decompress_file` follows a null `hash_len`
for `-d` of an archive without a hash (lrzip.c 1738); `get_fileinfo` misreads the next
chunk of an encrypted archive when the last block of stream 1 was padded; the shift
of a bzip3 block size code below 0 is undefined.

## 7. What is not modelled

* libzpaq: a bundled third-party compressor with tables of reals, a virtual machine
  and a just-in-time compiler; its state is far beyond what TLC can enumerate, and
  the program uses it through two calls that succeed or fail.
* The libraries (bzip2, gzip, lzo, lz4, zstd, bzip3), ciphers and digests. A back end
  succeeds, or fails and leaves its input alone; a digest is the sequence of what was
  written to it.
* Sliding mmap: RzipSearch reads the chunk itself; see section 4.
* Price tables of LZMA, its assembly and vector variants, `Lzma2` and the other parts
  of the SDK that the program does not call. Price comparisons are free choices.
* What `-i` prints, log messages, progress, names of files beyond whether two are
  the same, permissions and times.
* Release of memory. `Fatal` stands for every failed allocation and write.
* The library demo, which the program is not built from.
