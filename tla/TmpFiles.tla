------------------------------ MODULE TmpFiles ------------------------------
(* The two buffers in memory that stand in for files: tmp_outbuf, which takes  *)
(* the output until it is full and the program falls back on a file, and       *)
(* tmp_inbuf, which keeps what was read of an archive on standard input so     *)
(* that fill_buffer can seek in it.  Both are records here, and the functions  *)
(* of stream.c, lrzip.c and runzip.c operators that return the new record.     *)
(* A byte is whatever identifies it; 0 is a byte nobody wrote.                 *)
EXTENDS Integers, Sequences

Least(a, b) == IF a < b THEN a ELSE b

(* The part of s from a to b that there is. *)
Slice(s, a, b) == SubSeq(s, a, Least(b, Len(s)))

(* d written at offset at of s; a gap before it is filled with zeroes. *)
WriteAt(s, at, d) ==
  LET gap == [k \in 1..(IF at > Len(s) THEN at - Len(s) ELSE 0) |-> 0]
  IN Slice(s, 1, at) \o gap \o d \o Slice(s, at + Len(d) + 1, Len(s))

-----------------------------------------------------------------------------
(* Output.  fd is what control->fd_out stands for: the output file, or the     *)
(* temporary file of standard output, is "file"; 0, the value memset leaves    *)
(* when compress_file writes to standard output, is "stdin".                   *)
open_tmpoutbuf(maxlen, fd, magic) ==
  [on |-> TRUE, max |-> maxlen, buf |-> magic, ofs |-> Len(magic), relofs |-> 0,
   fd |-> fd, file |-> <<>>, pos |-> 0, out |-> <<>>, lost |-> FALSE, failed |-> FALSE]

(* write to fd_out, at its own position. *)
write_fdout(o, d) ==
  IF o.fd = "file"
  THEN [o EXCEPT !.file = WriteAt(@, o.pos, d), !.pos = @ + Len(d)]
  ELSE [o EXCEPT !.lost = TRUE]

close_tmpoutbuf(o) == [o EXCEPT !.on = FALSE, !.buf = <<>>]

(* Plausible bug: only what did not fit goes to the file. *)
put_fdout_forgets(o, d) ==
  IF ~o.on THEN write_fdout(o, d)
  ELSE IF o.ofs + Len(d) > o.max
  THEN write_fdout(close_tmpoutbuf(o), d)
  ELSE [o EXCEPT !.buf = WriteAt(@, o.ofs, d), !.ofs = @ + Len(d)]

(* Plausible bug: what is written goes to the end, wherever out_ofs is. *)
put_fdout_appends(o, d) ==
  IF ~o.on THEN write_fdout(o, d)
  ELSE IF Len(o.buf) + Len(d) > o.max
  THEN write_fdout(close_tmpoutbuf(write_fdout(o, o.buf)), d)
  ELSE [o EXCEPT !.buf = @ \o d, !.ofs = Len(o.buf) + Len(d)]

(* The buffer goes to the file before the first data that does not fit. *)
put_fdout(o, d) ==
  IF ~o.on THEN write_fdout(o, d)
  ELSE IF o.ofs + Len(d) > o.max
  THEN write_fdout(close_tmpoutbuf(write_fdout(o, o.buf)), d)
  ELSE [o EXCEPT !.buf = WriteAt(@, o.ofs, d), !.ofs = @ + Len(d)]

(* The streams' seek.  When standard output has no file behind it, sinfo->fd   *)
(* is -1 and the seek fails. *)
seekto(o, pos) ==
  IF o.on
  THEN [o EXCEPT !.ofs = pos - o.relofs,
                 !.failed = @ \/ pos - o.relofs \notin 0..Len(o.buf)]
  ELSE [o EXCEPT !.failed = TRUE]

get_seek(o) == IF o.on THEN o.relofs + o.ofs ELSE o.pos

(* Data that was written before, from the buffer or through fd_hist. *)
read_fdhist(o, pos, n) ==
  IF o.on THEN Slice(o.buf, pos - o.relofs + 1, pos - o.relofs + n)
          ELSE Slice(o.file, pos + 1, pos + n)

(* At the end of a chunk. *)
flush_tmpoutbuf(o, mode) ==
  LET w == CASE mode = "test" -> o
             [] mode \in {"stdout", "compress"} -> [o EXCEPT !.out = @ \o o.buf]
             [] OTHER -> write_fdout(o, o.buf)
  IN [w EXCEPT !.relofs = @ + Len(o.buf), !.ofs = 0, !.buf = <<>>]

dump_tmpoutfile(o, mode) ==
  [o EXCEPT !.out = IF mode = "test" THEN @ ELSE @ \o o.file, !.file = <<>>, !.pos = 0]

-----------------------------------------------------------------------------
(* Input.  src is the number of bytes taken from standard input, all the bytes *)
(* of which are all; mem is the memory of the buffer, of which len bytes count.*)
open_tmpinbuf(maxlen, all) ==
  [on |-> TRUE, all |-> all, src |-> 0, mem |-> <<>>, len |-> 0, ofs |-> 0,
   max |-> maxlen, file |-> <<>>, pos |-> 0, eof |-> FALSE]

(* The archive is a file. *)
OpenArchive(all) == [open_tmpinbuf(0, all) EXCEPT !.on = FALSE, !.file = all]

(* len more bytes of standard input.  They are stored at in_ofs, and in_len is *)
(* counted from there too. *)
read_fdin(n, len) ==
  [n EXCEPT !.mem = WriteAt(@, n.ofs, Slice(n.all, n.src + 1, n.src + len)),
            !.len = n.ofs + len, !.src = @ + len,
            !.eof = @ \/ n.src + len > Len(n.all)]

(* What is in the buffer and the rest of standard input go to a file, which    *)
(* ends up rewound. *)
dump_stdin(n) ==
  [n EXCEPT !.on = FALSE, !.pos = 0, !.src = Len(n.all),
            !.file = Slice(n.mem, 1, n.len) \o Slice(n.all, n.src + 1, Len(n.all))]

(* read_1g in two parts: the state after a read of k bytes, and the bytes. *)
Fetched(n, k) ==
  IF ~n.on THEN n
  ELSE IF n.ofs + k > n.max THEN dump_stdin(n)
  ELSE IF n.ofs + k > n.len THEN read_fdin(n, n.ofs + k - n.len) ELSE n

read_1g(n, k) ==
  LET f == Fetched(n, k)
  IN IF f.on THEN [f EXCEPT !.ofs = @ + k]
             ELSE [f EXCEPT !.pos = @ + k, !.eof = @ \/ f.pos + k > Len(f.file)]

BytesRead(n, k) ==
  LET f == Fetched(n, k)
  IN IF f.on THEN Slice(f.mem, f.ofs + 1, f.ofs + k) ELSE Slice(f.file, f.pos + 1, f.pos + k)

(* Plausible bug: in_ofs stays where it was when the buffer had to be filled. *)
read_seekto_short(n, spos) ==
  IF n.on
  THEN IF spos > n.len THEN read_fdin(n, spos - n.len) ELSE [n EXCEPT !.ofs = spos]
  ELSE [n EXCEPT !.pos = spos]

read_seekto(n, spos) ==
  IF n.on
  THEN IF spos > n.len
       THEN IF n.ofs + spos - n.len > n.max
            THEN [dump_stdin(n) EXCEPT !.pos = spos]
            ELSE [read_fdin(n, spos - n.len) EXCEPT !.ofs = spos]
       ELSE [n EXCEPT !.ofs = spos]
  ELSE [n EXCEPT !.pos = spos]

get_readseek(n) == IF n.on THEN n.ofs ELSE n.pos

clear_tmpinbuf(n) == [n EXCEPT !.len = 0, !.ofs = 0]

clear_tmpinfile(n) == [n EXCEPT !.file = <<>>, !.pos = 0]

(* Plausible bug: the length of the hash is not taken off. *)
SeekHashEnd(n, size) ==
  IF n.on THEN [n EXCEPT !.ofs = Len(n.all)] ELSE [n EXCEPT !.pos = Len(n.file)]

(* To the end of the input, and size bytes back from there. *)
SeekHash(n, size) ==
  IF n.on
  THEN LET rest == Slice(n.all, n.src + 1, Len(n.all))
       IN [n EXCEPT !.mem = WriteAt(@, n.len, rest), !.src = Len(n.all),
                    !.len = @ + Len(rest), !.ofs = n.len + Len(rest) - size]
  ELSE [n EXCEPT !.pos = Len(n.file) - size]
=============================================================================
