------------------------------ MODULE StreamIn ------------------------------
(***************************************************************************)
(* Decompression of one chunk: runzip_chunk (src/runzip.c) reads the two   *)
(* streams through read_stream and fill_buffer (src/stream.c), which       *)
(* follow the chain of block headers of a stream, hand each block to a     *)
(* ucompthread, read ahead while there are threads and memory, and join    *)
(* the threads in order.                                                   *)
(*                                                                         *)
(* The chunk that is read is one that close_stream_out would have left:    *)
(* it is laid out by Layout from the list of what the rzip stage wrote.    *)
(* What is written and read is counted in units: a unit of stream 0 is one *)
(* header of the rzip stage, a unit of stream 1 the literals of one        *)
(* header.  Offsets count bytes, scaled so that headers are short and      *)
(* literals long: the literals of one header are at least a page, which is *)
(* also the least size that open_stream_out records for a chunk.           *)
(***************************************************************************)
EXTENDS Integers, Sequences, FiniteSets

CONSTANTS
  Threads,   \* control->threads
  Archives,  \* chunks that are read, see ArchiveOK
  Modes      \* ways of calling lrzip-next, see ModeOK

(* An archive: ops is what the rzip stage found, literals ("lit") and       *)
(* matches ("match"); room[j] is the size of a buffer of stream j in units; *)
(* stored tells that the back end could not compress anything, so that all  *)
(* blocks are of type CTYPE_NONE.  A chunk has data, and starts with        *)
(* literals: the hash table knows nothing of the chunks before.             *)
ArchiveOK(a) ==
  /\ a.ops \in Seq({"lit", "match"}) /\ a.ops # << >> /\ a.ops[1] = "lit"
  /\ a.room[0] \in Nat \ {0} /\ a.room[1] \in Nat \ {0}
  /\ a.stored \in BOOLEAN

(* HAS_HASH, ENCRYPT, FILTER_USED; whether memory may run out in a back     *)
(* end, and control->maxram.                                                *)
ModeOK(m) ==
  /\ m.hash \in BOOLEAN /\ m.encrypt \in BOOLEAN /\ m.filter \in BOOLEAN
  /\ m.fails \in BOOLEAN /\ m.maxram \in Nat

ASSUME ThreadsAssumption == Threads \in Nat \ {0}
ASSUME ArchivesAssumption == \A a \in Archives : ArchiveOK(a)
ASSUME InModesAssumption == \A m \in Modes : ModeOK(m)

Streams == {0, 1}
TotalThreads == IF Threads > 1 THEN Threads + 2 ELSE Threads + 1
Slots == 0 .. TotalThreads - 1
base_thread(j) == j
total_threads(j) == IF j = 0 THEN 1 ELSE TotalThreads - 1

MAX(a, b) == IF a > b THEN a ELSE b

-----------------------------------------------------------------------------
(* The chunk as the compression side writes it. *)

HeadLen == 1                                   \* bytes of a block header
UnitLen(j) == IF j = 0 THEN 1 ELSE 32          \* bytes of a unit
MatchLen == 64                                 \* bytes a match stands for
PadLen == 1                                    \* control->enc_keylen

(* The streams written to, unit by unit: put_literal writes its header to   *)
(* stream 0 and its data to stream 1, put_match only to stream 0, and at    *)
(* the end come an empty literal and the checksum.                          *)
Writes(a) ==
  LET w[n \in 0 .. Len(a.ops)] ==
        IF n = 0 THEN << >>
        ELSE w[n - 1] \o (IF a.ops[n] = "lit" THEN <<0, 1>> ELSE <<0>>)
  IN w[Len(a.ops)] \o <<0, 0>>

Count(w, k, j) == Cardinality({i \in 1 .. k : w[i] = j})

(* A chunk as it is written: its blocks, where the first block of each      *)
(* stream starts, the last block of each stream so far (0: none), where the *)
(* next block will start, and what is in the buffers.  open_stream_out      *)
(* leaves room for the heads of the two streams.                            *)
Opened == [block |-> << >>,
           head |-> [j \in Streams |-> 0], last |-> [j \in Streams |-> 0],
           pos |-> 2 * HeadLen,
           buf |-> [j \in Streams |-> 0]]

(* flush_buffer and the compthread it starts: the buffer of stream j is     *)
(* written as a block, and the header before it in its stream is made to    *)
(* point to it.  An encrypted block is padded to the length of a cipher     *)
(* block.                                                                   *)
Flushed(a, m, c, j) ==
  LET u_len == c.buf[j] * UnitLen(j)
      c_len == IF a.stored \/ u_len = 0 THEN u_len ELSE 1
      padded == IF m.encrypt THEN MAX(c_len, PadLen) ELSE c_len
      linked == IF c.last[j] = 0 THEN c.block
                ELSE [c.block EXCEPT ![c.last[j]].last_head = c.pos]
  IN [block |-> Append(linked, [stream |-> j, units |-> c.buf[j],
                                off |-> c.pos, u_len |-> u_len,
                                c_len |-> c_len, last_head |-> 0]),
      head |-> IF c.last[j] = 0 THEN [c.head EXCEPT ![j] = c.pos] ELSE c.head,
      last |-> [c.last EXCEPT ![j] = Len(c.block) + 1],
      pos |-> c.pos + HeadLen + padded,
      buf |-> [c.buf EXCEPT ![j] = 0]]

(* write_stream: a buffer is flushed when it is full. *)
Written(a, m, c, j) ==
  LET d == [c EXCEPT !.buf[j] = @ + 1]
  IN IF d.buf[j] = a.room[j] THEN Flushed(a, m, d, j) ELSE d

(* The chunk, and the size of the data it stands for.  close_stream_out     *)
(* flushes both buffers, whatever they hold.                                *)
Layout(a, m) ==
  LET w == Writes(a)
      c[n \in 0 .. Len(w)] ==
        IF n = 0 THEN Opened ELSE Written(a, m, c[n - 1], w[n])
      closed == Flushed(a, m, Flushed(a, m, c[Len(w)], 0), 1)
  IN [block |-> closed.block, head |-> closed.head, end |-> closed.pos,
      size |-> Cardinality({i \in 1 .. Len(a.ops) : a.ops[i] = "lit"})
                 * UnitLen(1)
               + Cardinality({i \in 1 .. Len(a.ops) : a.ops[i] = "match"})
                 * MatchLen]

(* What runzip_chunk reads: all that was written, in the order in which it  *)
(* was written, but for the checksum if there is a hash.                    *)
Reads(a, m) == LET w == Writes(a)
               IN IF m.hash THEN SubSeq(w, 1, Len(w) - 1) ELSE w

-----------------------------------------------------------------------------
VARIABLES
  mode, archive,   \* chosen once
  layout, reads,   \* what follows from them, see Layout and Reads
  mpc,             \* where the main thread is
  fatal,           \* the fatal error that ended the program
  rp,              \* position in reads
  s,               \* struct stream of the two streams
  total_read,      \* bytes of the chunk accounted for
  ram_alloced,
  pos,             \* where close_stream_in leaves the file offset
  output_thread,
  busy, tpc, waited,
  block,           \* the block each ucompthread was last given
  content          \* its s_buf: "packed", "plain" or "garbled"

vars == <<mode, archive, layout, reads, mpc, fatal, rp, s, total_read,
          ram_alloced, pos, output_thread, busy, tpc, waited, block, content>>

fixed == <<mode, archive, layout, reads>>

(* open_stream_in.  output_thread is 0 from the start or the last chunk.    *)
Init ==
  /\ mode \in Modes
  /\ archive \in Archives
  /\ layout = Layout(archive, mode)
  /\ reads = Reads(archive, mode)
  /\ mpc = "run"
  /\ fatal = "no"
  /\ rp = 1
  /\ s = [j \in Streams |->
           [last_head |-> layout.head[j], buf |-> 0, buflen |-> 0, bufp |-> 0,
            eos |-> FALSE, uthread_no |-> base_thread(j),
            unext_thread |-> base_thread(j)]]
  /\ total_read = 2 * HeadLen
  /\ ram_alloced = 0
  /\ pos = 0
  /\ output_thread = 0
  /\ busy = [i \in Slots |-> FALSE]
  /\ tpc = [i \in Slots |-> "none"]
  /\ waited = [i \in Slots |-> FALSE]
  /\ block = [i \in Slots |-> 0]
  /\ content = [i \in Slots |-> "plain"]

-----------------------------------------------------------------------------
(* The main thread. *)

Current == reads[rp]      \* the stream read_stream is called for
At(p) == CHOOSE k \in 1 .. Len(layout.block) : layout.block[k].off = p

(* if (++x == s->base_thread + s->total_threads) x = s->base_thread *)
NextThread(x, j) ==
  IF x + 1 = base_thread(j) + total_threads(j) THEN base_thread(j) ELSE x + 1

(* read_stream has data in the buffer. *)
ReadUnit ==
  /\ mpc = "run" /\ rp <= Len(reads)
  /\ s[Current].bufp < s[Current].buflen
  /\ s' = [s EXCEPT ![Current].bufp = @ + 1]
  /\ rp' = rp + 1
  /\ UNCHANGED <<fixed, mpc, fatal, total_read, ram_alloced, pos,
                 output_thread, busy, tpc, waited, block, content>>

(* read_stream has read all of the buffer: fill_buffer frees it.  At the    *)
(* end of the stream it only waits for the next thread.                     *)
EnterFill ==
  /\ mpc = "run" /\ rp <= Len(reads)
  /\ s[Current].bufp = s[Current].buflen
  /\ s' = [s EXCEPT ![Current].buf = 0]
  /\ mpc' = IF s[Current].eos THEN "out" ELSE "fill"
  /\ UNCHANGED <<fixed, fatal, rp, total_read, ram_alloced, pos,
                 output_thread, busy, tpc, waited, block, content>>

Fatally(why) ==
  /\ mpc' = "fatal"
  /\ fatal' = why

(* The header that is read next, and what fill_buffer makes of it. *)
Header(j) == layout.block[At(s[j].last_head)]
Empty(j) == /\ Header(j).c_len = 0 /\ Header(j).u_len = 0
            /\ j = 1 /\ Header(j).last_head = 0

Invalid(j) ==
  LET h == Header(j)
  IN \/ h.c_len < 1 \/ h.u_len < 1
     \/ ~mode.encrypt /\ h.last_head > layout.size
     \/ h.last_head # 0 /\ h.last_head <= s[j].last_head

(* Why fill_buffer refuses to go on: "Trying to start a busy thread, this   *)
(* shouldn't happen!", or "Invalid data".                                   *)
Refusal(j) ==
  IF busy[s[j].uthread_no] THEN "busy"
  ELSE IF ~Empty(j) /\ Invalid(j) THEN "invalid"
  ELSE "no"

FillRefuse ==
  /\ mpc = "fill"
  /\ Refusal(Current) # "no"
  /\ Fatally(Refusal(Current))
  /\ total_read' = total_read + (IF fatal' = "busy" THEN 0 ELSE HeadLen)
  /\ UNCHANGED <<fixed, rp, s, ram_alloced, pos, output_thread, busy, tpc,
                 waited, block, content>>

(* Mutant: the header of the empty block is not accounted for. *)
FillEmptyUncounted ==
  /\ mpc = "fill"
  /\ Refusal(Current) = "no" /\ Empty(Current)
  /\ total_read' = total_read
  /\ s' = [s EXCEPT ![Current].eos = TRUE]
  /\ mpc' = "out"
  /\ UNCHANGED <<fixed, fatal, rp, ram_alloced, pos, output_thread, busy,
                 tpc, waited, block, content>>

(* "Skipping empty match block": the header is accounted for, the padding   *)
(* that an encrypted block has is not.                                      *)
FillEmpty ==
  /\ mpc = "fill"
  /\ Refusal(Current) = "no" /\ Empty(Current)
  /\ total_read' = total_read + HeadLen
  /\ s' = [s EXCEPT ![Current].eos = TRUE]
  /\ mpc' = "out"
  /\ UNCHANGED <<fixed, fatal, rp, ram_alloced, pos, output_thread, busy,
                 tpc, waited, block, content>>

(* A block is read and given to the thread uthread_no.  If the stream goes  *)
(* on, the next thread is free and there is memory, fill_another.           *)
FillBlock ==
  /\ mpc = "fill"
  /\ Refusal(Current) = "no" /\ ~Empty(Current)
  /\ LET j == Current
         h == Header(j)
         i == s[j].uthread_no
         next == NextThread(i, j)
         padded_len == MAX(h.c_len, IF mode.encrypt THEN PadLen ELSE 0)
     IN /\ total_read' = total_read + HeadLen + padded_len
        /\ ram_alloced' = ram_alloced + h.u_len
        /\ busy' = [busy EXCEPT ![i] = TRUE]
        /\ tpc' = [tpc EXCEPT ![i] = "work"]
        /\ waited' = [waited EXCEPT ![i] = FALSE]
        /\ block' = [block EXCEPT ![i] = At(s[j].last_head)]
        /\ content' = [content EXCEPT ![i] = "packed"]
        /\ s' = [s EXCEPT ![j].last_head = h.last_head,
                          ![j].uthread_no = next,
                          ![j].eos = (h.last_head = 0)]
        /\ mpc' = IF /\ h.last_head # 0
                     /\ next # s[j].unext_thread
                     /\ ~busy'[next]
                     /\ ram_alloced' < mode.maxram
                  THEN "fill" ELSE "out"
  /\ UNCHANGED <<fixed, fatal, rp, pos, output_thread>>

(* The thread whose data is needed gets its turn, if it waits for it. *)
PassTurn ==
  /\ mpc = "out"
  /\ output_thread' = s[Current].unext_thread
  /\ tpc' = [i \in Slots |-> IF tpc[i] = "asleep" THEN "turn" ELSE tpc[i]]
  /\ mpc' = "join"
  /\ UNCHANGED <<fixed, fatal, rp, s, total_read, ram_alloced, pos, busy,
                 waited, block, content>>

(* Mutant: the thread that was started last is joined. *)
JoinNewest ==
  /\ mpc = "join"
  /\ LET j == Current
         i == CHOOSE k \in Slots : busy[k] /\ NextThread(k, j) = s[j].uthread_no
         b == layout.block[block[i]]
     IN /\ tpc[i] = "exit"
        /\ tpc' = [tpc EXCEPT ![i] = "none"]
        /\ busy' = [busy EXCEPT ![i] = FALSE]
        /\ ram_alloced' = ram_alloced - b.u_len
        /\ s' = [s EXCEPT ![j].buf = block[i], ![j].buflen = b.units,
                          ![j].bufp = 0,
                          ![j].unext_thread = NextThread(i, j)]
  /\ mpc' = "run"
  /\ UNCHANGED <<fixed, fatal, rp, total_read, pos, output_thread, waited,
                 block, content>>

(* join_pthread, and the data becomes the buffer of the stream. *)
Join ==
  /\ mpc = "join"
  /\ LET j == Current
         i == s[j].unext_thread
         b == layout.block[block[i]]
     IN /\ tpc[i] = "exit"
        /\ tpc' = [tpc EXCEPT ![i] = "none"]
        /\ busy' = [busy EXCEPT ![i] = FALSE]
        /\ ram_alloced' = ram_alloced - b.u_len
        /\ s' = [s EXCEPT ![j].buf = block[i], ![j].buflen = b.units,
                          ![j].bufp = 0,
                          ![j].unext_thread = NextThread(i, j)]
  /\ mpc' = "run"
  /\ UNCHANGED <<fixed, fatal, rp, total_read, pos, output_thread, waited,
                 block, content>>

(* close_stream_in. *)
CloseStreamIn ==
  /\ mpc = "run" /\ rp > Len(reads)
  /\ pos' = total_read
  /\ output_thread' = 0
  /\ mpc' = "closed"
  /\ UNCHANGED <<fixed, fatal, rp, s, total_read, ram_alloced, busy, tpc,
                 waited, block, content>>

RunzipChunk ==
  \/ ReadUnit \/ EnterFill
  \/ FillRefuse \/ FillEmpty \/ FillBlock
  \/ PassTurn \/ Join \/ CloseStreamIn

-----------------------------------------------------------------------------
(* The ucompthread in slot i. *)

Alive == mpc # "fatal"
Unfilters(i) == mode.filter /\ layout.block[block[i]].stream = 1

(* The block is stored, or the back end succeeds.  What it makes of data    *)
(* that is not what was written is not what was compressed either.          *)
Decompress(i) ==
  /\ Alive
  /\ tpc[i] = "work"
  /\ content' = [content EXCEPT ![i] = IF @ = "packed" THEN "plain" ELSE @]
  /\ tpc' = [tpc EXCEPT ![i] = "exit"]
  /\ UNCHANGED <<fixed, mpc, fatal, rp, s, total_read, ram_alloced, pos,
                 output_thread, busy, waited, block>>

(* Mutant: the failed attempt has overwritten the compressed data. *)
DecompressFailSpoils(i) ==
  /\ Alive
  /\ tpc[i] = "work"
  /\ mode.fails /\ ~archive.stored /\ ~waited[i]
  /\ content' = [content EXCEPT ![i] = "garbled"]
  /\ tpc' = [tpc EXCEPT ![i] = "turn"]
  /\ UNCHANGED <<fixed, mpc, fatal, rp, s, total_read, ram_alloced, pos,
                 output_thread, busy, waited, block>>

(* The back end fails for want of memory and leaves the compressed data in  *)
(* s_buf.  The filter is taken off s_buf all the same.                      *)
DecompressFail(i) ==
  /\ Alive
  /\ tpc[i] = "work"
  /\ mode.fails /\ ~archive.stored /\ ~waited[i]
  /\ content' = [content EXCEPT ![i] = IF Unfilters(i) THEN "garbled" ELSE @]
  /\ tpc' = [tpc EXCEPT ![i] = "turn"]
  /\ UNCHANGED <<fixed, mpc, fatal, rp, s, total_read, ram_alloced, pos,
                 output_thread, busy, waited, block>>

(* "Failed to decompress in ucompthread" *)
DecompressFatal(i) ==
  /\ Alive
  /\ tpc[i] = "work"
  /\ waited[i]
  /\ Fatally("memory")
  /\ UNCHANGED <<fixed, rp, s, total_read, ram_alloced, pos, output_thread,
                 busy, tpc, waited, block, content>>

(* while (output_thread != current_thread) cond_wait(...) *)
Sleep(i) ==
  /\ Alive
  /\ tpc[i] = "turn"
  /\ output_thread # i
  /\ tpc' = [tpc EXCEPT ![i] = "asleep"]
  /\ UNCHANGED <<fixed, mpc, fatal, rp, s, total_read, ram_alloced, pos,
                 output_thread, busy, waited, block, content>>

(* Mutant: waited is not set. *)
TakeTurnUnmarked(i) ==
  /\ Alive
  /\ tpc[i] = "turn"
  /\ output_thread = i
  /\ UNCHANGED waited
  /\ tpc' = [tpc EXCEPT ![i] = "work"]
  /\ UNCHANGED <<fixed, mpc, fatal, rp, s, total_read, ram_alloced, pos,
                 output_thread, busy, block, content>>

TakeTurn(i) ==
  /\ Alive
  /\ tpc[i] = "turn"
  /\ output_thread = i
  /\ waited' = [waited EXCEPT ![i] = TRUE]
  /\ tpc' = [tpc EXCEPT ![i] = "work"]
  /\ UNCHANGED <<fixed, mpc, fatal, rp, s, total_read, ram_alloced, pos,
                 output_thread, busy, block, content>>

Ucompthread(i) ==
  \/ Decompress(i) \/ DecompressFail(i) \/ DecompressFatal(i)
  \/ Sleep(i) \/ TakeTurn(i)

Stopped ==
  /\ mpc \in {"closed", "fatal"}
  /\ UNCHANGED vars

Next ==
  \/ RunzipChunk
  \/ \E i \in Slots : Ucompthread(i)
  \/ Stopped

Spec == Init /\ [][Next]_vars

(* The system schedules the main thread and every ucompthread. *)
FairSpec ==
  /\ Spec
  /\ WF_vars(RunzipChunk)
  /\ \A i \in Slots : WF_vars(Ucompthread(i))

-----------------------------------------------------------------------------
(* Properties. *)

(* Every variable keeps its type; each stream stays with its own threads.   *)
InTypeOK ==
  /\ mpc \in {"run", "fill", "out", "join", "closed", "fatal"}
  /\ fatal \in {"no", "busy", "invalid", "memory"}
  /\ rp \in 1 .. Len(reads) + 1
  /\ \A j \in Streams :
       LET mine == base_thread(j) .. base_thread(j) + total_threads(j) - 1
       IN /\ s[j].uthread_no \in mine /\ s[j].unext_thread \in mine
          /\ s[j].bufp \in 0 .. s[j].buflen
  /\ ram_alloced \in Nat
  /\ output_thread \in Slots
  /\ busy \in [Slots -> BOOLEAN]
  /\ tpc \in [Slots -> {"none", "work", "turn", "asleep", "exit"}]
  /\ content \in [Slots -> {"packed", "plain", "garbled"}]

(* Units of its stream before block k of a chunk l of archive a: all earlier *)
(* blocks are full.                                                         *)
UnitsBefore(a, l, k) ==
  LET j == l.block[k].stream
  IN a.room[j] * Cardinality({i \in 1 .. k - 1 : l.block[i].stream = j})

(* Whatever the order in which the threads finish, runzip_chunk gets the    *)
(* units of each stream in the order in which the rzip stage wrote them,    *)
(* each once: the buffer in use is of the block that holds the next one.    *)
ReadsInOrder ==
  \A j \in Streams : s[j].buf # 0 =>
    /\ layout.block[s[j].buf].stream = j
    /\ UnitsBefore(archive, layout, s[j].buf) + s[j].bufp = Count(reads, rp - 1, j)

(* What a back end of ucompthread is given, at first and when it is "used   *)
(* when decompression fails due to inadequate memory to try again           *)
(* serialised", is the compressed block; what it leaves is what was         *)
(* compressed.                                                              *)
DataIntact ==
  \A i \in Slots : /\ tpc[i] = "work" => content[i] = "packed"
                   /\ tpc[i] = "exit" => content[i] = "plain"

(* fill_buffer starts no thread that has not been joined, joins no thread   *)
(* that it has not started ("this shouldn't happen!"), accounts for the     *)
(* memory of just the threads between the two, and leaves none behind when  *)
(* the chunk is closed.                                                     *)
ThreadsPaired ==
  /\ fatal # "busy"
  /\ mpc = "join" => busy[s[Current].unext_thread]
  /\ \A i \in Slots : busy[i] <=> tpc[i] # "none"
  /\ mpc = "closed" => (\A i \in Slots : ~busy[i]) /\ ram_alloced = 0

(* No chunk that was written as close_stream_out writes it is refused as    *)
(* invalid, even with the "empty match block at the end of incompressible   *)
(* data" that fill_buffer allows for.                                       *)
(* The code does not keep this: README, Deviations.                         *)
ChunkAccepted == fatal # "invalid"

(* A chunk that the back end could compress is never refused: the block     *)
(* offsets stay below the size of the data, and the empty blocks at the end *)
(* of the streams are either skipped or not reached.                        *)
CompressibleAccepted == ~archive.stored => ChunkAccepted

(* close_stream_in leaves the file at the end of the chunk, where           *)
(* runzip_chunk will "read in the stored chunk byte width" of the next one. *)
(* The code does not keep this: README, Deviations.                         *)
NextChunkFound == mpc = "closed" => pos = layout.end

(* It does so at least when both chains were followed to their ends and     *)
(* nothing is padded: total_read, summed up block by block in the order of  *)
(* reading ahead, leaves out no block and counts none twice.                *)
ChainsAccounted ==
  mpc = "closed" /\ s[0].eos /\ s[1].eos /\ ~mode.encrypt => pos = layout.end

(* The chunk is read to its end unless the program dies: the main thread    *)
(* never waits for a thread that waits for its turn.                        *)
ChunkRead == <>(mpc \in {"closed", "fatal"})

(* fill_buffer and the threads it starts ahead: however they finish, the       *)
(* buffers come in the order of their stream, each from a thread that was      *)
(* started once and joined once.                                               *)
BuffersInOrder == InTypeOK /\ ThreadsPaired /\ ReadsInOrder

(* A chunk that the back ends could compress is read whole, and when both its  *)
(* chains were followed to the end, close_stream_in leaves the file behind it. *)
ChunkWhole == CompressibleAccepted /\ ChainsAccounted
=============================================================================
