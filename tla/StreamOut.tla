------------------------------ MODULE StreamOut ------------------------------
(***************************************************************************)
(* Compression of one file: the chunk loop of rzip_fd (src/rzip.c), the    *)
(* output streams it fills (open_stream_out, flush_buffer, clear_buffer,   *)
(* close_stream_out of src/stream.c), the ring of compthreads that write   *)
(* them, and the archive that results.                                     *)
(*                                                                         *)
(* The threads are those of CompRing: each of its actions is conjoined     *)
(* here with its effect on the streams and on the file.  The file is a     *)
(* sequence of records, and a file offset counts records from 0.  Data is  *)
(* counted in units: a chunk holds at most ChunkUnits of them.             *)
(***************************************************************************)
EXTENDS CompRing, FiniteSets

CONSTANTS
  MaxInput,    \* bound on the size of the input, in units
  ChunkUnits,  \* control->max_chunk, in units
  MaxFlush,    \* bound on the full buffers in a chunk
  Modes        \* the ways of calling lrzip-next that are looked at

(* The filters of lrzip-next. *)
BranchFilters == {"x86", "arm", "armt", "arm64", "ppc", "sparc", "ia64",
                  "riscv"}
FilterFlags == BranchFilters \cup {"none", "delta"}

(* STDIN, STDOUT, ENCRYPT and control->filter_flag.  main() refuses to      *)
(* encrypt to STDOUT.                                                       *)
AllModes == [stdin: BOOLEAN, stdout: BOOLEAN, encrypt: BOOLEAN,
             filter: FilterFlags]

ASSUME InputAssumption == MaxInput \in Nat /\ ChunkUnits \in Nat \ {0}
ASSUME FlushAssumption == MaxFlush \in Nat

(* The bound on buffers never keeps clear_buffer from going on. *)
ASSUME JobsAssumption == MaxJobs >= 2 * (MaxInput + 1) + MaxInput * MaxFlush
ASSUME ModesAssumption == /\ Modes \subseteq AllModes
                          /\ \A m \in Modes : ~(m.stdout /\ m.encrypt)

Streams == {0, 1}     \* 0: match headers, 1: literals
MaxChunks == MaxInput + 1
Chunks == 1 .. MaxChunks

VARIABLES
  mode, input,     \* how the program is called and the size of its input
  rpc,             \* where the main thread is in rzip_fd
  chunk,           \* pass: number of the chunk being worked on
  len, inleft,     \* what is left of a file, and of standard input
  chunk_size, st_size, eof, stdin_eof,
  flushes,         \* full buffers of this chunk so far
  job,             \* the chunk and stream of each buffer handed over
  applied,         \* how often the filter is on the data of each slot
  sinfo,           \* the stream_info of each chunk
  file, fpos,      \* the archive and the offset in it
  flushed,         \* out_relofs: records already sent to STDOUT
  magic_written

rzipVars == <<rpc, chunk, len, inleft, chunk_size, st_size, eof, stdin_eof,
              flushes>>
fileVars == <<sinfo, file, fpos, flushed, magic_written>>
vars == <<ringVars, mode, input, rzipVars, job, applied, fileVars>>

(* calloc(sizeof(struct stream_info)) *)
NewSinfo == [size |-> 0, chunks |-> 0, initial_pos |-> 0, cur_pos |-> 0,
             last_head |-> [j \in Streams |-> 0],
             last_headofs |-> [j \in Streams |-> 0]]

MIN(a, b) == IF a < b THEN a ELSE b

(* Write record r at offset p. *)
PutAt(f, p, r) == IF p < Len(f) THEN [f EXCEPT ![p + 1] = r]
                                ELSE Append(f, r)

Blank == [kind |-> "blank"]

(* write_magic: the size is known once control->eof is set, and it is not   *)
(* stored in an encrypted archive.                                          *)
Magic == [kind |-> "magic",
          size |-> IF ~mode.encrypt /\ eof = 1 THEN st_size ELSE 0]

(* compress_file and rzip_fd up to the loop: room is left for the magic.    *)
Init ==
  /\ RingInit
  /\ mode \in Modes
  /\ input \in 0 .. MaxInput
  /\ rpc = "top"
  /\ chunk = 0
  /\ len = IF mode.stdin THEN 0 ELSE input
  /\ inleft = IF mode.stdin THEN input ELSE 0
  /\ chunk_size = 0
  /\ st_size = len
  /\ eof = 0
  /\ stdin_eof = 0
  /\ flushes = 0
  /\ job = << >>
  /\ applied = [i \in Slots |-> 0]
  /\ sinfo = [c \in Chunks |-> NewSinfo]
  /\ file = <<Blank>>
  /\ fpos = 1
  /\ flushed = 0
  /\ magic_written = 0

-----------------------------------------------------------------------------
(* The main thread: rzip_fd and the calls it makes. *)

MorePasses == chunk = 0 \/ len > 0 \/ (mode.stdin /\ stdin_eof = 0)

(* A pass over a file maps the next chunk. *)
MapFile ==
  /\ mpc = "run" /\ rpc = "top" /\ MorePasses
  /\ ~mode.stdin
  /\ chunk_size' = MIN(ChunkUnits, len)
  /\ rpc' = "open"
  /\ UNCHANGED <<ringVars, mode, input, chunk, len, inleft, st_size, eof,
                 stdin_eof, flushes, job, applied, fileVars>>

(* Mutant of MmapStdin: only st->stdin_eof is set. *)
MmapStdinNoEof ==
  /\ mpc = "run" /\ rpc = "top" /\ MorePasses
  /\ mode.stdin
  /\ \E room \in 1 .. ChunkUnits :
       /\ chunk_size' = MIN(room, inleft)
       /\ IF inleft < room
            THEN stdin_eof' = 1 /\ UNCHANGED eof
            ELSE UNCHANGED <<eof, stdin_eof>>
  /\ inleft' = inleft - chunk_size'
  /\ rpc' = "stdin"
  /\ UNCHANGED <<ringVars, mode, input, chunk, len, st_size, flushes, job,
                 applied, fileVars>>

(* A pass over STDIN reads the next chunk into what memory mmap could get.  *)
(* Only a read that returns nothing tells that the input has ended.         *)
MmapStdin ==
  /\ mpc = "run" /\ rpc = "top" /\ MorePasses
  /\ mode.stdin
  /\ \E room \in 1 .. ChunkUnits :
       /\ chunk_size' = MIN(room, inleft)
       /\ IF inleft < room
            THEN eof' = 1 /\ stdin_eof' = 1
            ELSE UNCHANGED <<eof, stdin_eof>>
  /\ inleft' = inleft - chunk_size'
  /\ rpc' = "stdin"
  /\ UNCHANGED <<ringVars, mode, input, chunk, len, st_size, flushes, job,
                 applied, fileVars>>

(* control->st_size += total, the last statement of mmap_stdin. *)
AddStdinSize ==
  /\ mpc = "run" /\ rpc = "stdin"
  /\ st_size' = st_size + chunk_size
  /\ rpc' = "open"
  /\ UNCHANGED <<ringVars, mode, input, chunk, len, inleft, chunk_size, eof,
                 stdin_eof, flushes, job, applied, fileVars>>

(* The test for the last chunk, then rzip_chunk and open_stream_out. *)
OpenStreamOut ==
  /\ mpc = "run" /\ rpc = "open"
  /\ eof' = IF chunk_size = len THEN 1 ELSE eof
  /\ chunk' = chunk + 1
  /\ sinfo' = [sinfo EXCEPT ![chunk + 1].size = chunk_size]
  /\ flushes' = 0
  /\ rpc' = "search"
  /\ UNCHANGED <<ringVars, mode, input, len, inleft, chunk_size, st_size,
                 stdin_eof, job, applied, file, fpos, flushed, magic_written>>

(* clear_buffer hands the buffer of stream j to the next slot. *)
HandOver(j) ==
  /\ ClearBuffer
  /\ job' = Append(job, [chunk |-> chunk, stream |-> j])
  /\ applied' = [applied EXCEPT ![current_thread] = 0]

(* write_stream fills a buffer of a chunk that holds data: flush_buffer. *)
FlushBuffer(j) ==
  /\ rpc = "search"
  /\ chunk_size > 0 /\ flushes < MaxFlush
  /\ flushes' = flushes + 1
  /\ HandOver(j)
  /\ UNCHANGED <<mode, input, rpc, chunk, len, inleft, chunk_size, st_size,
                 eof, stdin_eof, fileVars>>

(* close_stream_out hands over what is left in both buffers. *)
CloseStreamOut(j) ==
  /\ rpc = IF j = 0 THEN "search" ELSE "close"
  /\ rpc' = IF j = 0 THEN "close" ELSE IF mode.encrypt THEN "drain" ELSE "next"
  /\ HandOver(j)
  /\ UNCHANGED <<mode, input, chunk, len, inleft, chunk_size, st_size, eof,
                 stdin_eof, flushes, fileVars>>

(* With ENCRYPT it waits for the threads ...                                *)
DrainThreads ==
  /\ rpc = "drain"
  /\ StartDrain \/ DrainWait \/ EndDrain
  /\ UNCHANGED <<mode, input, rzipVars, job, applied, fileVars>>

(* rewrite_encrypted: the header at offset p is encrypted in its place. *)
Encrypted(f, p) == [f EXCEPT ![p + 1].enc = @ + 1]

(* Mutant of EncryptLastHeads: the loop leaves the last stream out. *)
EncryptLastHead ==
  /\ Resume
  /\ LET at(j) == sinfo[chunk].initial_pos + sinfo[chunk].last_headofs[j]
     IN file' = Encrypted(file, at(0))
  /\ rpc' = "next"
  /\ UNCHANGED <<mode, input, chunk, len, inleft, chunk_size, st_size, eof,
                 stdin_eof, flushes, job, applied, sinfo, fpos, flushed,
                 magic_written>>

(* ... and encrypts the header of the last block of each stream, which no   *)
(* thread has come back to.                                                 *)
EncryptLastHeads ==
  /\ Resume
  /\ LET at(j) == sinfo[chunk].initial_pos + sinfo[chunk].last_headofs[j]
     IN file' = Encrypted(Encrypted(file, at(0)), at(1))
  /\ rpc' = "next"
  /\ UNCHANGED <<mode, input, chunk, len, inleft, chunk_size, st_size, eof,
                 stdin_eof, flushes, job, applied, sinfo, fpos, flushed,
                 magic_written>>

(* The end of a pass. *)
EndPass ==
  /\ mpc = "run" /\ rpc = "next"
  /\ len' = len - chunk_size
  /\ mpc' = IF len' > 0 /\ eof = 1 THEN "fatal" ELSE mpc
  /\ rpc' = "top"
  /\ UNCHANGED <<jobs, current_thread, output_thread, cksem, tpc, slot,
                 waited, ret, loop, close_thread, log, mode, input, chunk,
                 inleft, chunk_size, st_size, eof, stdin_eof, flushes, job,
                 applied, fileVars>>

(* After the loop: close_streamout_threads. *)
CloseThreads ==
  /\ rpc = "top" /\ ~MorePasses
  /\ StartClose \/ CloseWait \/ EndClose
  /\ UNCHANGED <<mode, input, rzipVars, job, applied, fileVars>>

(* The hash of the whole input is written where the file offset stands, and *)
(* what is buffered for STDOUT is sent.                                     *)
WriteHash ==
  /\ mpc = "done" /\ rpc = "top"
  /\ file' = PutAt(file, fpos, [kind |-> "hash"])
  /\ fpos' = fpos + 1
  /\ flushed' = IF mode.stdout THEN Len(file') ELSE flushed
  /\ rpc' = IF mode.stdout THEN "finished" ELSE "magic"
  /\ UNCHANGED <<ringVars, mode, input, chunk, len, inleft, chunk_size,
                 st_size, eof, stdin_eof, flushes, job, applied, sinfo,
                 magic_written>>

(* compress_file: "need to write magic after compression for expected size" *)
WriteFinalMagic ==
  /\ rpc = "magic"
  /\ file' = PutAt(file, 0, Magic)
  /\ fpos' = 1
  /\ magic_written' = 1
  /\ rpc' = "finished"
  /\ UNCHANGED <<ringVars, mode, input, chunk, len, inleft, chunk_size,
                 st_size, eof, stdin_eof, flushes, job, applied, sinfo,
                 flushed>>

RzipFd ==
  \/ MapFile \/ MmapStdin \/ AddStdinSize \/ OpenStreamOut
  \/ \E j \in Streams : FlushBuffer(j) \/ CloseStreamOut(j)
  \/ DrainThreads \/ EncryptLastHeads \/ EndPass
  \/ CloseThreads \/ WriteHash \/ WriteFinalMagic

-----------------------------------------------------------------------------
(* The compthread in slot i, working for stream Stream(i) of chunk Of(i). *)

Of(i) == job[slot[i]].chunk
Stream(i) == job[slot[i]].stream
Filtering(i) == mode.filter # "none" /\ Stream(i) = 1

(* The filter goes on the data before each attempt to compress it. *)
Compress(i) ==
  /\ CompressOk(i) \/ CompressFail(i)
  /\ applied' = [applied EXCEPT ![i] = IF Filtering(i) THEN @ + 1 ELSE @]
  /\ UNCHANGED <<mode, input, rzipVars, job, fileVars>>

(* The filters that the second chain of tests in compthread takes off. *)
Reverted == (BranchFilters \ {"riscv"}) \cup {"delta"}

(* Mutant of GetTurn: the filter is left on. *)
GetTurnNoUndo(i) ==
  /\ TakeTurn(i)
  /\ UNCHANGED <<mode, input, rzipVars, job, applied, fileVars>>

(* Once it has its turn, a thread whose attempt failed takes the filter off *)
(* again and goes back for another attempt.                                 *)
GetTurn(i) ==
  /\ TakeTurn(i)
  /\ applied' = [applied EXCEPT ![i] =
                   IF ret[i] # 0 /\ Filtering(i) /\ mode.filter \in Reverted
                     THEN @ - 1 ELSE @]
  /\ UNCHANGED <<mode, input, rzipVars, job, fileVars>>

(* Steps that concern the ring only. *)
RingStep(i) ==
  /\ CompressFatal(i) \/ Sleep(i) \/ Advance(i) \/ Post(i)
  /\ UNCHANGED <<mode, input, rzipVars, job, applied, fileVars>>

(* The first thread of a chunk to have its turn finds chunks = 0. *)
FirstOfChunk(i) == sinfo[Of(i)].chunks = 0

(* To STDOUT, the very first thread writes the magic, with what main has    *)
(* found out about the size of the input by now.                            *)
PutMagic(i) ==
  /\ WriteMagic(i)
  /\ IF FirstOfChunk(i) /\ mode.stdout /\ magic_written = 0
       THEN /\ file' = PutAt(file, 0, Magic)
            /\ fpos' = 1
            /\ magic_written' = 1
       ELSE UNCHANGED <<file, fpos, magic_written>>
  /\ UNCHANGED <<mode, input, rzipVars, job, applied, sinfo, flushed>>

ChunkHeader(c) ==
  [kind |-> "chunk", chunk |-> c, eof |-> eof, size |-> sinfo[c].size]
StreamHead(c, j) ==
  [kind |-> "head", chunk |-> c, stream |-> j, next |-> 0, enc |-> 0]

(* Mutant of PutHeader: every thread flushes, not just the first. *)
PutHeaderFlushes(i) ==
  /\ WriteHeader(i)
  /\ LET c == Of(i)
         at == IF mode.stdout THEN Len(file) ELSE fpos
     IN IF FirstOfChunk(i)
          THEN /\ file' = PutAt(PutAt(PutAt(file, at, ChunkHeader(c)),
                                at + 1, StreamHead(c, 0)),
                                at + 2, StreamHead(c, 1))
               /\ fpos' = at + 3
               /\ flushed' = IF mode.stdout THEN at ELSE flushed
               /\ sinfo' = [sinfo EXCEPT
                    ![c].chunks = 1,
                    ![c].initial_pos = at + 1,
                    ![c].cur_pos = 2,
                    ![c].last_head = [j \in Streams |-> j]]
          ELSE /\ sinfo' = [sinfo EXCEPT ![c].chunks = @ + 1]
               /\ flushed' = IF mode.stdout THEN Len(file) ELSE flushed
               /\ UNCHANGED <<file, fpos>>
  /\ UNCHANGED <<mode, input, rzipVars, job, applied, magic_written>>

(* if (!ctis->chunks++): flush what is buffered for STDOUT, write the chunk *)
(* header with the end-of-file flag as it is now, and an empty header for   *)
(* each stream.                                                             *)
PutHeader(i) ==
  /\ WriteHeader(i)
  /\ LET c == Of(i)
         at == IF mode.stdout THEN Len(file) ELSE fpos
     IN IF FirstOfChunk(i)
          THEN /\ file' = PutAt(PutAt(PutAt(file, at, ChunkHeader(c)),
                                at + 1, StreamHead(c, 0)),
                                at + 2, StreamHead(c, 1))
               /\ fpos' = at + 3
               /\ flushed' = IF mode.stdout THEN at ELSE flushed
               /\ sinfo' = [sinfo EXCEPT
                    ![c].chunks = 1,
                    ![c].initial_pos = at + 1,
                    ![c].cur_pos = 2,
                    ![c].last_head = [j \in Streams |-> j]]
          ELSE /\ sinfo' = [sinfo EXCEPT ![c].chunks = @ + 1]
               /\ UNCHANGED <<file, fpos, flushed>>
  /\ UNCHANGED <<mode, input, rzipVars, job, applied, magic_written>>

(* Mutant of Patch: last_head is not moved on to the new block. *)
PatchKeepsHead(i) ==
  /\ PatchLastHead(i)
  /\ LET c == Of(i)
         p == sinfo[c].initial_pos + sinfo[c].last_head[Stream(i)]
         f == [file EXCEPT ![p + 1].next = sinfo[c].cur_pos]
     IN /\ file' = IF mode.encrypt THEN Encrypted(f, p) ELSE f
        /\ fpos' = p + 1
  /\ UNCHANGED <<mode, input, rzipVars, job, applied, sinfo, flushed,
                 magic_written>>

(* The previous header of the stream gets the offset of this block, and is  *)
(* encrypted now that it is complete.                                       *)
Patch(i) ==
  /\ PatchLastHead(i)
  /\ LET c == Of(i)
         p == sinfo[c].initial_pos + sinfo[c].last_head[Stream(i)]
         f == [file EXCEPT ![p + 1].next = sinfo[c].cur_pos]
     IN /\ file' = IF mode.encrypt THEN Encrypted(f, p) ELSE f
        /\ fpos' = p + 1
        /\ sinfo' = [sinfo EXCEPT ![c].last_head[Stream(i)] = sinfo[c].cur_pos]
  /\ UNCHANGED <<mode, input, rzipVars, job, applied, flushed, magic_written>>

(* The header and the data of the block are written at cur_pos. *)
Block(i) ==
  [kind |-> "block", job |-> slot[i], chunk |-> Of(i), stream |-> Stream(i),
   next |-> 0, enc |-> 0, filtered |-> applied[i]]

PutBlock(i) ==
  /\ WriteBlock(i)
  /\ LET c == Of(i)
         at == sinfo[c].initial_pos + sinfo[c].cur_pos
     IN /\ file' = PutAt(file, at, Block(i))
        /\ fpos' = at + 1
        /\ sinfo' = [sinfo EXCEPT
             ![c].cur_pos = @ + 1,
             ![c].last_headofs[Stream(i)] =
                IF mode.encrypt THEN sinfo[c].cur_pos ELSE @]
  /\ UNCHANGED <<mode, input, rzipVars, job, applied, flushed, magic_written>>

CompThread(i) ==
  \/ Compress(i) \/ GetTurn(i) \/ RingStep(i)
  \/ PutMagic(i) \/ PutHeader(i) \/ Patch(i) \/ PutBlock(i)

Die ==
  /\ Fatal
  /\ UNCHANGED <<mode, input, rzipVars, job, applied, fileVars>>

Finished ==
  /\ rpc = "finished" \/ mpc = "fatal"
  /\ UNCHANGED vars

Next ==
  \/ RzipFd
  \/ \E i \in Slots : CompThread(i)
  \/ Die
  \/ Finished

Spec == Init /\ [][Next]_vars

(* The system schedules the main thread and every compthread. *)
FairSpec ==
  /\ Spec
  /\ WF_vars(RzipFd)
  /\ \A i \in Slots : WF_vars(CompThread(i))

-----------------------------------------------------------------------------
(* What a reader finds in the archive. *)

Offsets == 0 .. Len(file) - 1
At(p) == file[p + 1]
OfKind(k) == {p \in Offsets : At(p).kind = k}
Headers == OfKind("head") \cup OfKind("block")
Least(S) == CHOOSE p \in S : \A q \in S : p <= q

(* Where the header of chunk c is, and where its streams start. *)
ChunkAt(c) == CHOOSE p \in OfKind("chunk") : At(p).chunk = c
StreamsAt(c) == ChunkAt(c) + 1

(* The blocks of the same stream as the header at p, after it. *)
BlocksAfter(p) ==
  {q \in OfKind("block") : /\ q > p
                           /\ At(q).chunk = At(p).chunk
                           /\ At(q).stream = At(p).stream}

(* The data in the first k chunks. *)
DataUpTo[k \in 0 .. MaxChunks] ==
  IF k = 0 THEN 0 ELSE DataUpTo[k - 1] + At(ChunkAt(k)).size

(* runzip_fd goes on after chunk k. *)
RunzipGoesOn(k) ==
  LET expected_size == At(0).size
  IN \/ DataUpTo[k] < expected_size
     \/ expected_size = 0 /\ At(ChunkAt(k)).eof = 0

-----------------------------------------------------------------------------
(* Properties. *)

(* Every variable keeps its type: a filter is never on a buffer more than    *)
(* twice, and the offsets stay within the archive.                          *)
StreamTypeOK ==
  /\ TypeOK
  /\ mode \in Modes
  /\ rpc \in {"top", "stdin", "open", "search", "close", "drain", "next",
              "magic", "finished"}
  /\ chunk \in 0 .. MaxChunks
  /\ st_size \in 0 .. MaxInput
  /\ eof \in {0, 1} /\ stdin_eof \in {0, 1} /\ magic_written \in {0, 1}
  /\ Len(job) = jobs
  /\ applied \in [Slots -> 0 .. 2]
  /\ fpos \in 0 .. Len(file)
  /\ flushed \in 0 .. Len(file)

(* However the threads interleave, each header of a stream points to the    *)
(* next block of that stream, the last one to nothing, and the blocks of a  *)
(* stream are in the order in which the rzip stage produced them: this is   *)
(* what fill_buffer relies on when it follows last_head.  Between the patch *)
(* of a header and the write of the block the pointer leads to a place that *)
(* is not written yet.                                                      *)
ChainsConsistent ==
  (\A i \in Slots : tpc[i] # "block") =>
    \A p \in Headers :
      /\ At(p).next = IF BlocksAfter(p) = {} THEN 0
                      ELSE Least(BlocksAfter(p)) - StreamsAt(At(p).chunk)
      /\ At(p).kind = "block" =>
           \A q \in BlocksAfter(p) : At(p).job < At(q).job

(* With ENCRYPT every header is encrypted exactly once: by the thread that  *)
(* comes back to it with the offset of the next block or, for the last one  *)
(* of each stream, by close_stream_out.  A header encrypted twice or never  *)
(* could not be read back.                                                  *)
HeadersEncryptedOnce ==
  /\ \A p \in Headers : At(p).enc <= (IF mode.encrypt THEN 1 ELSE 0)
  /\ mode.encrypt /\ rpc \in {"next", "top", "magic", "finished"} =>
       \A p \in Headers : At(p).enc = 1

(* A block of literals is stored with the filter applied once, and a block  *)
(* of match headers without, also when the first attempt to compress it     *)
(* failed ("we have to undo filtering here").                               *)
FilterOnce ==
  \A p \in OfKind("block") :
    At(p).filtered = IF mode.filter # "none" /\ At(p).stream = 1 THEN 1 ELSE 0

(* The archive is the magic, the chunks one after the other, each with its  *)
(* own records only, and the hash: nothing that is written over another     *)
(* record's place and nothing after the hash, which runzip_fd looks for at  *)
(* the end of the file.                                                     *)
ArchiveLayout ==
  /\ \A p \in Headers : At(p).chunk = Cardinality({q \in OfKind("chunk") : q < p})
  /\ \A p \in OfKind("chunk") :
       At(p).chunk = Cardinality({q \in OfKind("chunk") : q <= p})
  /\ rpc = "finished" =>
       /\ OfKind("magic") = {0}
       /\ OfKind("hash") = {Len(file) - 1}
       /\ Cardinality(OfKind("chunk")) = chunk
       /\ Cardinality(OfKind("block")) = jobs

(* The end-of-file flag in a chunk's header says "whether this is the last  *)
(* chunk".                                                                  *)
(* The code does not keep this: README, Deviations.                         *)
EofFlagMarksLastChunk ==
  rpc = "finished" =>
    \A p \in OfKind("chunk") : At(p).eof = 1 <=> At(p).chunk = chunk

(* With ENCRYPT the flag is right: close_stream_out "must wait till the     *)
(* threads return", and so keeps main from the next chunk until the header  *)
(* of this one is written.                                                  *)
EncryptedEofFlags == mode.encrypt => EofFlagMarksLastChunk

(* runzip_fd, which goes by the size in the magic and, without it, by the   *)
(* end-of-file flags, reads all of the input back from an archive that was  *)
(* written to a file: it does not stop before the last chunk with data, and *)
(* finds no empty chunk before that.                                        *)
RunzipReadsAll ==
  rpc = "finished" /\ ~mode.stdout =>
    \E k \in 1 .. chunk :
      /\ ~RunzipGoesOn(k) /\ DataUpTo[k] = input
      /\ \A i \in 1 .. k - 1 : RunzipGoesOn(i) /\ At(ChunkAt(i)).size > 0

(* If the magic holds a size, it is that of the whole input: "we know file  *)
(* size even when piped".                                                   *)
(* The code does not keep this: README, Deviations.                         *)
MagicSizeIsWhole ==
  rpc = "finished" => At(0).size \in {0, input}

(* What has been sent to STDOUT is never sought back to: all headers that   *)
(* are still to be patched are in the buffer.                               *)
FlushedImmutable ==
  [][\A p \in 0 .. flushed - 1 : file'[p + 1] = file[p + 1]]_vars

(* Compression comes to an end, unless the program dies: neither main, at a *)
(* semaphore, nor a thread, at output_cond, waits for ever.                 *)
Terminates == <>(rpc = "finished" \/ mpc = "fatal")

(* The archive at every moment: each record where its reader will look for it, *)
(* the chains of headers closed over what is written, and in an encrypted      *)
(* archive the right flag on every chunk, however the threads that wrote them  *)
(* were interleaved (compthread 1722-1822).                                    *)
ArchiveSound == StreamTypeOK /\ ArchiveLayout /\ ChainsConsistent /\ EncryptedEofFlags
=============================================================================
