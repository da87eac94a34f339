------------------------------- MODULE Runzip -------------------------------
(* runzip_fd: the chunks of an archive are read block by block, the tokens of  *)
(* each are carried out, and the result goes to a file, to standard output or, *)
(* for a test, nowhere; then the hash is compared.  The archive is a file or   *)
(* standard input.  The same output buffer is also used to compress to         *)
(* standard output; that is mode "compress".                                   *)
(*                                                                             *)
(* The archive is good: what is checked is that it is read and decoded whole,  *)
(* whatever the sizes of the two buffers.                                      *)
EXTENDS TmpFiles

CONSTANTS
  Programs,     \* sequences of chunks of tokens, for decompression
  Writes,       \* the same for compression
  Layouts,      \* orders of the blocks in a chunk, by the stream they belong to
  OutMax,       \* sizes of tmp_outbuf
  InMax         \* sizes of tmp_inbuf

VARIABLES
  conf,       \* the options, the archive and what its tokens stand for
  chunk, tok, \* the chunk and the token that are next
  phase,      \* where runzip_fd is
  blk,        \* the block whose header was read
  need,       \* positions in the layout of the blocks that are still to be read
  start,      \* initial_pos of the chunk
  inp, out,   \* the input and the output
  crc, hash,  \* what went through crc_handle and hash_handle
  total,      \* bytes decoded
  fate        \* "run", "ok", or how it failed

vars == <<conf, chunk, tok, phase, blk, need, start, inp, out, crc, hash, total, fate>>

lit(n) == [kind |-> "literal", len |-> n, ofs |-> 0]

mat(ofs, n) == [kind |-> "match", len |-> n, ofs |-> ofs]

app(n) == [kind |-> "append", len |-> n, ofs |-> 0]

pat(ofs) == [kind |-> "patch", len |-> 1, ofs |-> ofs]

(* The bytes a token brings with it. *)
Fresh(c, t, n) == [k \in 1..n |-> <<c, t, k>>]

(* What a token makes of the bytes s of its chunk, when it brings new ones. *)
Carried(s, k, new) ==
  CASE k.kind \in {"literal", "append"} -> s \o new
    [] k.kind = "match" ->
         s \o [j \in 1..k.len |-> s[Len(s) - k.ofs + 1 + ((j - 1) % k.ofs)]]
    [] k.kind = "patch" -> WriteAt(s, k.ofs, new)

(* What a chunk means, without buffers, after each token: the reference. *)
Sense(c, tokens) ==
  LET After[t \in 0..Len(tokens)] ==
        IF t = 0 THEN <<>>
        ELSE Carried(After[t - 1], tokens[t], Fresh(c, t, tokens[t].len))
  IN After

Meant(c, tokens) == Sense(c, tokens)[Len(tokens)]

(* The sequences up to each of them, one behind the other. *)
Joined(seqs) ==
  LET Upto[k \in 0..Len(seqs)] == IF k = 0 THEN <<>> ELSE Upto[k - 1] \o seqs[k]
  IN Upto

Senses(chunks) == [c \in DOMAIN chunks |-> Meant(c, chunks[c])]

Whole(chunks) == Joined(Senses(chunks))[Len(chunks)]

(* Chunks as rzip writes them: a match goes back to what is there already, and *)
(* a head that is patched was written before.  Only the one chunk of an empty  *)
(* file is empty.                                                              *)
Sound(c, tokens) ==
  \A t \in 1..Len(tokens) :
    LET k == tokens[t]
        n == Len(Sense(c, tokens)[t - 1])
    IN /\ k.kind = "match" => k.ofs \in 1..n
       /\ k.kind = "patch" => k.len = 1 /\ k.ofs < n

SoundChunks(chunks, kinds) ==
  /\ chunks \in Seq(Seq([kind : kinds, len : Nat \ {0}, ofs : Nat]))
  /\ chunks # <<>> /\ (Len(chunks) > 1 => \A c \in DOMAIN chunks : chunks[c] # <<>>)
  /\ \A c \in DOMAIN chunks : Sound(c, chunks[c])

ASSUME RunzipAssumption ==
  /\ \A p \in Programs : SoundChunks(p, {"literal", "match"})
  /\ \A p \in Writes : SoundChunks(p, {"append", "patch"})
  /\ \A l \in Layouts : l \in Seq({0, 1}) /\ \E b \in DOMAIN l : l[b] = 0
  /\ OutMax \subseteq Nat \ {0} /\ InMax \subseteq Nat \ {0} /\ InMax # {}

(* An archive: per chunk one byte for its header, one for the first head of    *)
(* each stream, and two for each block, its header and its data; then the hash.*)
HeadLen == 3

ChunkLen(layout) == HeadLen + 2 * Len(layout)

ArchiveBytes(chunks, layout) ==
  [k \in 1..(Len(chunks) * ChunkLen(layout) + 1) |-> k]

Init ==
  /\ chunk = 1 /\ tok = 1 /\ blk = 0 /\ need = {} /\ start = 0 /\ total = 0
  /\ crc = <<>> /\ hash = <<>> /\ fate = "run"
  /\ \/ \E p \in Programs, l \in Layouts, m \in {"file", "stdout", "test"},
           stdin, hashed, check, known \in BOOLEAN, om \in OutMax, im \in InMax :
          /\ check => m # "stdout" /\ hashed
          \* hash_len is NULL when -d meets an archive without a hash, and only
          \* then: decompress_file reads it, so that run is not an initial state.
          /\ ~hashed => m = "test"
          /\ ~stdin => im = CHOOSE x \in InMax : TRUE
          /\ conf = [chunks |-> p, layout |-> l, mode |-> m, stdin |-> stdin,
                     hashed |-> hashed, check |-> check, meant |-> Whole(p),
                     expected |-> IF known THEN Len(Whole(p)) ELSE 0]
          /\ inp = LET all == ArchiveBytes(p, l)
                   IN IF stdin THEN open_tmpinbuf(im, all) ELSE OpenArchive(all)
          /\ out = open_tmpoutbuf(om, "file", <<>>)
          /\ phase = "open"
     \/ \E p \in Writes, om \in OutMax :
          /\ conf = [chunks |-> p, layout |-> <<>>, mode |-> "compress", stdin |-> FALSE,
                     hashed |-> TRUE, check |-> FALSE, meant |-> <<"magic">> \o Whole(p),
                     expected |-> 0]
          /\ inp = OpenArchive(<<>>)
          /\ out = open_tmpoutbuf(om, "stdin", <<0>>)
          /\ phase = "magic"

Running == fate = "run"

(* The bytes that belong where the reader now is, and whether it gets them. *)
ChunkStart == (chunk - 1) * ChunkLen(conf.layout)

Wanted(from, k) == [j \in 1..k |-> ChunkStart + from + j]

(* A byte that is not the right one is a header or data the decoder cannot     *)
(* make sense of: what it does then is not modelled.                           *)
Take(n, from, k, next) ==
  /\ inp' = read_1g(n, k)
  /\ fate' = IF read_1g(n, k).eof \/ BytesRead(n, k) # Wanted(from, k) THEN "garbage" ELSE "run"
  /\ phase' = next

(* runzip_chunk and open_stream_in: the header of the chunk, then the heads. *)
OpenChunk ==
  /\ Running /\ phase = "open"
  /\ Take(inp, 0, 1, "heads")
  /\ start' = get_readseek(read_1g(inp, 1))
  /\ UNCHANGED <<conf, chunk, tok, blk, need, out, crc, hash, total>>

OpenHeads ==
  /\ Running /\ phase = "heads"
  /\ Take(inp, 1, 2, "blocks")
  /\ need' = 1..Len(conf.layout)
  /\ UNCHANGED <<conf, chunk, tok, blk, start, out, crc, hash, total>>

(* The blocks of a stream are read in order, the first of stream 0 before all  *)
(* others.  A further block of stream 0 is wanted when what was written before *)
(* its predecessor was full is used up; stream 1 is also read ahead.           *)
FirstLeft(s, b) == b \in need /\ conf.layout[b] = s /\ \A a \in need : conf.layout[a] = s => b <= a

Due(b) ==
  /\ FirstLeft(conf.layout[b], b)
  /\ need = DOMAIN conf.layout => conf.layout[b] = 0
  /\ conf.layout[b] = 0 =>
       \A p \in 1..(b - 1) :
         conf.layout[p] = 0 => \A a \in need : a < p => conf.layout[a] = 0

(* fill_buffer: seek to the head of the next block, read it and then its data. *)
FillHead ==
  /\ Running /\ phase = "blocks"
  /\ \E b \in need :
       /\ Due(b)
       /\ LET ofs == HeadLen + 2 * (b - 1)
          IN Take(read_seekto(inp, start + ofs - 1), ofs, 1, "data")
       /\ blk' = b /\ need' = need \ {b}
  /\ UNCHANGED <<conf, chunk, tok, start, out, crc, hash, total>>

FillData ==
  /\ Running /\ phase = "data"
  /\ Take(inp, HeadLen + 2 * (blk - 1) + 1, 1, IF need = {} THEN "tokens" ELSE "blocks")
  /\ UNCHANGED <<conf, chunk, tok, blk, need, start, out, crc, hash, total>>

-----------------------------------------------------------------------------
Tokens == conf.chunks[chunk]

Digest(d) ==
  /\ hash' = IF conf.hashed THEN hash \o d ELSE hash
  /\ crc' = IF conf.hashed THEN crc ELSE crc \o d

unzip_literal ==
  /\ Running /\ phase = "tokens" /\ tok <= Len(Tokens) /\ Tokens[tok].kind = "literal"
  /\ LET d == Fresh(chunk, tok, Tokens[tok].len)
     IN out' = put_fdout(out, d) /\ Digest(d) /\ total' = total + Len(d)
  /\ tok' = tok + 1
  /\ UNCHANGED <<conf, chunk, phase, blk, need, start, inp, fate>>

(* The pieces that unzip_match writes: as much as there is history, again and  *)
(* again. *)
Pieces(h, len) ==
  [j \in 1..((len + Len(h) - 1) \div Len(h)) |->
     SubSeq(h, 1, Least(Len(h), len - (j - 1) * Len(h)))]

PutAll(o, ps) ==
  LET Put[j \in 0..Len(ps)] == IF j = 0 THEN o ELSE put_fdout(Put[j - 1], ps[j])
  IN Put

unzip_match ==
  /\ Running /\ phase = "tokens" /\ tok <= Len(Tokens) /\ Tokens[tok].kind = "match"
  /\ LET t  == Tokens[tok]
         h  == read_fdhist(out, get_seek(out) - t.ofs, Least(t.len, t.ofs))
         ps == Pieces(h, t.len)
     IN /\ out' = PutAll(out, ps)[Len(ps)]
        /\ Digest(Joined(ps)[Len(ps)]) /\ total' = total + t.len
  /\ tok' = tok + 1
  /\ UNCHANGED <<conf, chunk, phase, blk, need, start, inp, fate>>

(* The chunk's own CRC.  crc_handle is never reset, and gcry_md_read finished  *)
(* it for the first chunk.                                                     *)
GoodCrc == chunk = 1 /\ crc = Meant(1, conf.chunks[1])

(* The head of a chunk's last token is empty: the CRC, close_stream_in with    *)
(* its seek behind the last block, the output so far, the input buffer, and    *)
(* whether there is more.                                                      *)
EndChunk ==
  /\ Running /\ phase = "tokens" /\ tok > Len(Tokens)
  /\ out' = IF out.on THEN flush_tmpoutbuf(out, conf.mode)
            ELSE IF conf.mode = "stdout" THEN dump_tmpoutfile(out, conf.mode) ELSE out
  /\ LET n == read_seekto(inp, start + ChunkLen(conf.layout) - 1)
     IN inp' = IF n.on THEN clear_tmpinbuf(n)
               ELSE IF conf.stdin /\ conf.mode = "test" THEN clear_tmpinfile(n) ELSE n
  /\ LET more == total < conf.expected \/ (conf.expected = 0 /\ chunk < Len(conf.chunks))
     IN phase' = IF more THEN "open" ELSE "hash"
  /\ fate' = IF ~conf.hashed /\ ~GoodCrc THEN "refused" ELSE fate
  /\ chunk' = chunk + 1 /\ tok' = 1
  /\ UNCHANGED <<conf, blk, need, start, crc, hash, total>>

(* The stored hash is the last byte of the archive.  With -c the file that was *)
(* written is read again. *)
HashAgain(o) == o.file

CheckHash ==
  /\ Running /\ phase = "hash"
  /\ LET n      == SeekHash(inp, 1)
         stored == n.pos >= 0 /\ BytesRead(n, 1) = <<Len(inp.all)>>
         good   == conf.hashed =>
                     stored /\ hash = conf.meant /\ (conf.check => HashAgain(out) = conf.meant)
     IN fate' = IF good THEN "ok" ELSE "refused"
  /\ phase' = "end"
  /\ out' = IF conf.mode = "stdout" /\ ~out.on THEN dump_tmpoutfile(out, conf.mode) ELSE out
  /\ UNCHANGED <<conf, chunk, tok, blk, need, start, inp, crc, hash, total>>

-----------------------------------------------------------------------------
(* Compression to standard output.  compthread writes the magic into the       *)
(* buffer before the first chunk, and flushes the buffer before each chunk.    *)
PutMagic ==
  /\ Running /\ phase = "magic"
  /\ out' = put_fdout(seekto(out, 0), <<"magic">>)
  /\ phase' = "chunk"
  /\ UNCHANGED <<conf, chunk, tok, blk, need, start, inp, crc, hash, total, fate>>

StartChunk ==
  /\ Running /\ phase = "chunk"
  /\ LET o == IF out.on THEN flush_tmpoutbuf(out, conf.mode) ELSE out
     IN out' = o /\ start' = get_seek(o)
  /\ phase' = "write"
  /\ UNCHANGED <<conf, chunk, tok, blk, need, inp, crc, hash, total, fate>>

(* seekto and a write, at the end or back at a head.  A failed seek or write   *)
(* is fatal; whether fd 0 can be written to is up to the caller.               *)
WriteStream ==
  /\ Running /\ phase = "write" /\ tok <= Len(Tokens)
  /\ LET t == Tokens[tok]
         s == seekto(out, start + (IF t.kind = "patch" THEN t.ofs ELSE total))
         o == put_fdout(s, Fresh(chunk, tok, t.len))
     IN /\ out' = o
        /\ \/ fate' = IF s.failed THEN "fatal" ELSE "run"
           \/ o.lost /\ fate' = "fatal"
        /\ total' = IF t.kind = "patch" THEN total ELSE total + t.len
  /\ tok' = tok + 1
  /\ UNCHANGED <<conf, chunk, phase, blk, need, start, inp, crc, hash>>

EndWrite ==
  /\ Running /\ phase = "write" /\ tok > Len(Tokens)
  /\ chunk' = chunk + 1 /\ tok' = 1 /\ total' = 0
  /\ phase' = IF chunk = Len(conf.chunks) THEN "flush" ELSE "chunk"
  /\ UNCHANGED <<conf, blk, need, start, inp, out, crc, hash, fate>>

FinalFlush ==
  /\ Running /\ phase = "flush"
  /\ out' = IF out.on THEN flush_tmpoutbuf(out, conf.mode) ELSE out
  /\ fate' = "ok" /\ phase' = "end"
  /\ UNCHANGED <<conf, chunk, tok, blk, need, start, inp, crc, hash, total>>

Stopped == ~Running /\ UNCHANGED vars

Next ==
  \/ OpenChunk \/ OpenHeads \/ FillHead \/ FillData
  \/ unzip_literal \/ unzip_match \/ EndChunk \/ CheckHash
  \/ PutMagic \/ StartChunk \/ WriteStream \/ EndWrite \/ FinalFlush \/ Stopped

Spec == Init /\ [][Next]_vars /\ WF_vars(Next)

-----------------------------------------------------------------------------
(* fill_buffer has read block p after block q, which is behind it, and then    *)
(* has to skip block m to get to block r. *)
SkipsBack(layout) ==
  \E p, q, m, r \in DOMAIN layout :
    /\ p < q /\ q < m /\ m < r
    /\ layout[p] # layout[q] /\ layout[m] # layout[r]

(* The places and lengths that the buffers keep stay in the buffers: out_ofs   *)
(* and in_len never pass the data there is, nor their limits.  in_len does     *)
(* when read_fdin stores at in_ofs what belongs behind in_len.                 *)
RunzipTypeOK ==
  /\ fate \in {"run", "ok", "refused", "garbage", "fatal"}
  /\ need \subseteq DOMAIN conf.layout /\ tok \in Nat \ {0}
  /\ out.on => out.ofs \in 0..Len(out.buf) /\ Len(out.buf) <= out.max
  /\ inp.on /\ Running /\ phase # "end" =>
       inp.len <= Len(inp.mem) /\ (inp.len <= inp.max \/ SkipsBack(conf.layout))

(* put_fdout, flush_tmpoutbuf and dump_tmpoutfile: wherever in the middle of a *)
(* chunk or of a match the buffer turns out too small, and whatever went out   *)
(* before, the output is the data, once and in order.                          *)
OutputExact ==
  fate = "ok" /\ conf.mode # "compress" =>
    CASE conf.mode = "file" -> out.file = conf.meant
      [] conf.mode = "stdout" -> out.out = conf.meant
      [] OTHER -> hash \o crc = conf.meant

(* runzip_fd refuses no good archive, but for three cases: more than one chunk *)
(* without a hash; -c with a test, where nothing is written that could be read *)
(* again; a test from standard input that did not fit in memory, whose         *)
(* temporary file is emptied after the first chunk.                            *)
GoodAccepted ==
  fate = "refused" =>
    \/ ~conf.hashed /\ Len(conf.chunks) > 1
    \/ conf.check /\ conf.mode = "test"
    \/ conf.stdin /\ conf.mode = "test" /\ ~inp.on

(* read_fdin and read_1g: an archive that comes in on standard input is read   *)
(* faithfully when each chunk fits in tmp_inbuf and the reader never has to go *)
(* back for a block it passed and then skip another one.                       *)
StdinFaithful ==
  fate = "garbage" =>
    conf.stdin /\ (inp.max < ChunkLen(conf.layout) \/ SkipsBack(conf.layout))

(* Compression to standard output that ends well has written everything, as    *)
(* long as the buffer takes a chunk. *)
CompressedExact ==
  fate = "ok" /\ conf.mode = "compress" /\ ~out.lost => out.out = conf.meant

(* lrzip.c 735 on the temporary file: "Used if we're unable to read STDIN into *)
(* the temporary buffer, shunts data to temporary file".  So an archive on     *)
(* standard input is read like one in a file.                                  *)
(* The code does not keep this: README, Deviations.                            *)
StdinLikeFile == fate # "garbage"

(* put_fdout's message "Was unable to decompress entirely in ram and no        *)
(* temporary file creation was possible": without a file to fall back on, the  *)
(* program stops and never reports success.                                    *)
(* The code does not keep this: README, Deviations.                            *)
NoFileNoSuccess == fate = "ok" => ~out.lost

(* The temporary buffers stay within their bounds, and what comes out of them  *)
(* is the data.                                                                *)
OutputWhole == RunzipTypeOK /\ OutputExact
=============================================================================
