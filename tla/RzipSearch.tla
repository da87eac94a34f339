----------------------------- MODULE RzipSearch -----------------------------
(***************************************************************************)
(* The rzip stage on one chunk (src/rzip.c): hash_search walks through the *)
(* chunk, keeps the best match found so far, and writes literals and       *)
(* matches to the two streams, while a thread of its own (cksumthread)     *)
(* checksums the chunk piece by piece.  The other side, runzip_chunk with  *)
(* unzip_literal and unzip_match (src/runzip.c), is the operator Decode.   *)
(*                                                                         *)
(* The hash table is that of RzipHash.  Here it is left open what it       *)
(* holds: a search may come upon any earlier position, or none, and the    *)
(* mask may exclude any position, so that what is shown holds for every    *)
(* choice of hash_index and every level.                                   *)
(***************************************************************************)
EXTENDS Integers, Sequences, FiniteSets

CONSTANTS
  Alphabet,
  Inputs,        \* the chunks that are looked at
  MINIMUM_MATCH, GREAT_MATCH,
  MaxRun,        \* 0xFFFF, the longest length a header can hold
  PageSize       \* control->page_size

ASSUME InputsAssumption == \A b \in Inputs : b \in Seq(Alphabet)
ASSUME MatchAssumption ==
  /\ MINIMUM_MATCH \in Nat \ {0} /\ GREAT_MATCH \in Nat
  /\ MaxRun \in Nat \ {0} /\ PageSize \in Nat \ {0}

VARIABLES
  buf,             \* the chunk
  pc,              \* where hash_search is
  p, t,            \* the position in the chunk and its tag
  last_match,      \* the chunk is in the streams up to here
  current,         \* the best match since then
  s0, s1,          \* the streams: headers and literals
  cksum_limit,     \* the chunk has been given to cksumthread up to here
  cksumsem, checksum, tpc,
  crc, hash,       \* what was written to the two gcrypt handles
  cksum            \* the checksum stored

outVars == <<s0, s1>>
sumVars == <<cksum_limit, cksumsem, checksum, tpc, crc, hash, cksum>>
vars == <<buf, pc, p, t, last_match, current, outVars, sumVars>>

chunk_size == Len(buf)
end == chunk_size - MINIMUM_MATCH
B(i) == buf[i + 1]
Bytes(from, n) == SubSeq(buf, from + 1, from + n)

MIN(a, b) == IF a < b THEN a ELSE b
Largest(S) == CHOOSE m \in S : \A k \in S : k <= m

-----------------------------------------------------------------------------
(* Tags.  A tag is the exclusive or of the hash_index of the letters in the *)
(* window: which letters occur an odd number of times is all it depends on. *)

Xor(tag, c) == [tag EXCEPT ![c] = 1 - @]

full_tag(q) ==
  [c \in Alphabet |-> Cardinality({i \in q .. q + MINIMUM_MATCH - 1 : B(i) = c}) % 2]

next_tag(q, tag) == Xor(Xor(tag, B(q - 1)), B(q + MINIMUM_MATCH - 1))

-----------------------------------------------------------------------------
(* match_len and find_best_match. *)

Forward(p0, op) ==
  Largest({k \in 0 .. end - p0 : \A i \in 0 .. k - 1 : B(p0 + i) = B(op + i)})

(* Mutant of Backward: it goes back into what has been written. *)
BackwardTooFar(p0, op) ==
  Largest({k \in 0 .. MIN(p0, op) :
             \A i \in 1 .. k : B(p0 - i) = B(op - i)})

(* Going back, a match ends at last_match and at the start of the chunk. *)
Backward(p0, op) ==
  Largest({k \in 0 .. MIN(p0 - last_match, op) :
             \A i \in 1 .. k : B(p0 - i) = B(op - i)})

match_len(p0, op) ==
  LET len == Forward(p0, op) + Backward(p0, op)
  IN IF op >= p0 \/ len < MINIMUM_MATCH THEN 0 ELSE len

(* The better of current and the match at p0 with op, an offset that was    *)
(* inserted; 0 never is, and stands for a search without success.           *)
Better(p0, op) ==
  LET mlen == IF op = 0 THEN 0 ELSE match_len(p0, op)
  IN IF mlen > current.len
       THEN [p |-> p0 - Backward(p0, op), ofs |-> op - Backward(p0, op),
             len |-> mlen]
       ELSE current

-----------------------------------------------------------------------------
(* put_literal and put_match: lengths beyond MaxRun go to several headers.  *)

Pieces(len) ==
  LET n == IF len = 0 THEN 1 ELSE (len + MaxRun - 1) \div MaxRun
  IN [i \in 1 .. n |-> IF i < n THEN MaxRun ELSE len - (n - 1) * MaxRun]

Literal(len) == [i \in DOMAIN Pieces(len) |->
                   [head |-> 0, len |-> Pieces(len)[i], ofs |-> 0]]
Match(len, ofs) == [i \in DOMAIN Pieces(len) |->
                      [head |-> 1, len |-> Pieces(len)[i], ofs |-> ofs]]

(* if (st->last_match < to) put_literal(..., st->last_match, to) *)
LiteralsUpTo(to) == IF last_match < to THEN Literal(to - last_match) ELSE << >>

-----------------------------------------------------------------------------
Init ==
  /\ buf \in Inputs
  /\ pc = "loop"
  /\ p = 0
  /\ t = IF end > 0 THEN full_tag(0) ELSE [c \in Alphabet |-> 0]
  /\ last_match = 0
  /\ current = [p |-> 0, ofs |-> 0, len |-> 0]
  /\ s0 = << >> /\ s1 = << >>
  /\ cksum_limit = 0
  /\ cksumsem = 1
  /\ checksum = << >>
  /\ tpc = "none"
  /\ crc = << >> /\ hash = << >> /\ cksum = << >>

(* The tag of the next position lacks bits that are set in all tags of the  *)
(* table: continue.                                                         *)
Skip ==
  /\ pc = "loop" /\ p < end
  /\ p' = p + 1
  /\ t' = next_tag(p', t)
  /\ UNCHANGED <<buf, pc, last_match, current, outVars, sumVars>>

(* After a search it is time to write the best match m: it is very long, or *)
(* there will be no other that begins in it.                                *)
Ripe(q, m) == /\ m.len >= GREAT_MATCH \/ q >= m.p + MINIMUM_MATCH
              /\ m.len >= MINIMUM_MATCH

(* The table is searched at the next position and has op for its tag.  If   *)
(* the best match is written the search goes on behind it.                  *)
Search(op) ==
  /\ pc = "loop" /\ p < end
  /\ op < p + 1
  /\ LET q == p + 1
         m == Better(q, op)
     IN IF Ripe(q, m)
          THEN /\ s0' = s0 \o LiteralsUpTo(m.p) \o Match(m.len, m.p - m.ofs)
               /\ s1' = s1 \o Bytes(last_match, m.p - last_match)
               /\ last_match' = m.p + m.len
               /\ p' = last_match'
               /\ current' = [m EXCEPT !.p = p', !.len = 0]
               /\ t' = full_tag(p')
          ELSE /\ p' = q
               /\ current' = m
               /\ t' = next_tag(q, t)
               /\ UNCHANGED <<last_match, outVars>>
  /\ pc' = IF p' > cksum_limit THEN "cksum" ELSE "loop"
  /\ UNCHANGED <<buf, sumVars>>

(* The next piece goes to a new cksumthread, once the last one is through.  *)
StartCksum ==
  /\ pc = "cksum"
  /\ cksumsem > 0
  /\ cksumsem' = cksumsem - 1
  /\ checksum' = Bytes(cksum_limit, MIN(chunk_size - p, PageSize))
  /\ cksum_limit' = cksum_limit + Len(checksum')
  /\ tpc' = "crc"
  /\ pc' = "loop"
  /\ UNCHANGED <<buf, p, t, last_match, current, outVars, crc, hash, cksum>>

(* What is behind the last match is a literal. *)
LastLiteral ==
  /\ pc = "loop" /\ p >= end
  /\ s0' = s0 \o LiteralsUpTo(chunk_size)
  /\ s1' = s1 \o Bytes(last_match, chunk_size - last_match)
  /\ pc' = "final"
  /\ UNCHANGED <<buf, p, t, last_match, current, sumVars>>

(* The rest of the chunk, in pieces of the size n that could be allocated. *)
Rest(n) ==
  LET len == chunk_size - cksum_limit
      pieces[k \in 0 .. len \div n] ==
        IF k = 0 THEN << >> ELSE pieces[k - 1] \o Bytes(cksum_limit + (k - 1) * n, n)
  IN pieces[len \div n] \o Bytes(cksum_limit + (len \div n) * n, len % n)

(* Mutant of FinalCksum: cksumthread may still be at work. *)
FinalCksumNoWait ==
  /\ pc = "final"
  /\ \E n \in 1 .. chunk_size + PageSize :
       /\ n % PageSize = 0
       /\ crc' = crc \o Rest(n)
       /\ hash' = hash \o Rest(n)
  /\ pc' = "finish"
  /\ UNCHANGED <<buf, p, t, last_match, current, outVars, cksum_limit,
                 cksumsem, checksum, tpc, cksum>>

(* When cksumthread is through, hash_search does the rest of the checksum   *)
(* itself, with cksumsem held.                                              *)
FinalCksum ==
  /\ pc = "final"
  /\ cksumsem > 0
  /\ \E n \in 1 .. chunk_size + PageSize :
       /\ n % PageSize = 0
       /\ crc' = crc \o Rest(n)
       /\ hash' = hash \o Rest(n)
  /\ pc' = "finish"
  /\ UNCHANGED <<buf, p, t, last_match, current, outVars, cksum_limit,
                 cksumsem, checksum, tpc, cksum>>

(* The checksum is read, an empty literal ends the chunk, the checksum is   *)
(* written, and its handle is reset; the hash goes on.                      *)
Finish ==
  /\ pc = "finish"
  /\ cksum' = crc
  /\ crc' = << >>
  /\ s0' = s0 \o Literal(0)
  /\ pc' = "done"
  /\ UNCHANGED <<buf, p, t, last_match, current, s1, cksum_limit, cksumsem,
                 checksum, tpc, hash>>

Main ==
  \/ Skip \/ (\E op \in 0 .. chunk_size : Search(op))
  \/ StartCksum \/ LastLiteral \/ FinalCksum \/ Finish

-----------------------------------------------------------------------------
(* cksumthread. *)

CksumCrc ==
  /\ pc # "fatal" /\ tpc = "crc"
  /\ crc' = crc \o checksum
  /\ tpc' = "hash"
  /\ UNCHANGED <<buf, pc, p, t, last_match, current, outVars, cksum_limit,
                 cksumsem, checksum, hash, cksum>>

CksumHash ==
  /\ pc # "fatal" /\ tpc = "hash"
  /\ hash' = hash \o checksum
  /\ tpc' = "post"
  /\ UNCHANGED <<buf, pc, p, t, last_match, current, outVars, cksum_limit,
                 cksumsem, checksum, crc, cksum>>

(* Mutant of CksumPost: the semaphore is forgotten. *)
CksumPostForgotten ==
  /\ pc # "fatal" /\ tpc = "post"
  /\ checksum' = << >>
  /\ tpc' = "none"
  /\ UNCHANGED <<buf, pc, p, t, last_match, current, outVars, cksum_limit,
                 cksumsem, crc, hash, cksum>>

CksumPost ==
  /\ pc # "fatal" /\ tpc = "post"
  /\ checksum' = << >>
  /\ cksumsem' = cksumsem + 1
  /\ tpc' = "none"
  /\ UNCHANGED <<buf, pc, p, t, last_match, current, outVars, cksum_limit,
                 crc, hash, cksum>>

Cksumthread == CksumCrc \/ CksumHash \/ CksumPost

(* fatal() here or in a compthread ends the process. *)
Fatal ==
  /\ pc \notin {"done", "fatal"}
  /\ pc' = "fatal"
  /\ UNCHANGED <<buf, p, t, last_match, current, outVars, sumVars>>

Stopped ==
  /\ pc \in {"done", "fatal"}
  /\ UNCHANGED vars

Next == Main \/ Cksumthread \/ Fatal \/ Stopped

(* hash_search and cksumthread are scheduled by the system. *)
Spec == Init /\ [][Next]_vars /\ WF_vars(Main) /\ WF_vars(Cksumthread)

-----------------------------------------------------------------------------
(* The other side. *)

(* What unzip_match adds to the output so far: it reads MIN(len, ofs) bytes *)
(* of it and writes them again and again.                                   *)
unzip_match(out, len, ofs) ==
  LET n == MIN(len, ofs)
      copy == SubSeq(out, Len(out) - ofs + 1, Len(out) - ofs + n)
  IN out \o [i \in 1 .. len |-> copy[1 + ((i - 1) % n)]]

(* One pass of the loop of runzip_chunk.  The header of an empty literal    *)
(* ends it.                                                                 *)
Decoded(d, h, literals) ==
  IF d.ended \/ (h.head = 0 /\ h.len = 0) THEN [d EXCEPT !.ended = TRUE]
  ELSE IF h.head = 0
    THEN [d EXCEPT !.out = @ \o SubSeq(literals, d.used + 1, d.used + h.len),
                   !.used = @ + h.len]
    ELSE [d EXCEPT !.out = unzip_match(@, h.len, h.ofs)]

(* The output after each header. *)
Decoding(heads, literals) ==
  LET after[k \in 0 .. Len(heads)] ==
        IF k = 0 THEN [out |-> << >>, used |-> 0, ended |-> FALSE]
        ELSE Decoded(after[k - 1], heads[k], literals)
  IN after

Decode == Decoding(s0, s1)[Len(s0)]

-----------------------------------------------------------------------------
(* Properties. *)

(* Every variable keeps its type; cksumsem is binary. *)
SearchTypeOK ==
  /\ pc \in {"loop", "cksum", "final", "finish", "done", "fatal"}
  /\ p \in 0 .. chunk_size
  /\ t \in [Alphabet -> {0, 1}]
  /\ last_match \in 0 .. chunk_size
  /\ current \in [p: 0 .. chunk_size, ofs: 0 .. chunk_size,
                  len: 0 .. chunk_size]
  /\ \A i \in DOMAIN s0 : /\ s0[i].head \in {0, 1}
                          /\ s0[i].len \in 0 .. MaxRun
                          /\ s0[i].ofs \in 0 .. chunk_size
  /\ s1 \in Seq(Alphabet)
  /\ cksum_limit \in 0 .. chunk_size
  /\ cksumsem \in {0, 1}
  /\ tpc \in {"none", "crc", "hash", "post"}

(* Whatever the search comes upon and whichever match it prefers, at any    *)
(* time the streams decode to the chunk up to last_match, and in the end to *)
(* the whole chunk: no byte is left out or doubled where a match is         *)
(* extended backwards, overlaps itself, or is split, and no empty literal   *)
(* ends the chunk early.                                                    *)
RoundTrip ==
  /\ pc \in {"loop", "cksum"} =>
       Decode = [out |-> Bytes(0, last_match), used |-> Len(s1),
                 ended |-> FALSE]
  /\ pc \in {"final", "finish", "done"} =>
       Decode = [out |-> buf, used |-> Len(s1), ended |-> pc = "done"]

(* cksumthread and hash_search write to the same handles and hand the data  *)
(* over in control->checksum: each byte of the chunk is in the checksum and *)
(* in the hash once, and in order.                                          *)
ChecksumWhole == pc = "done" => cksum = buf /\ hash = buf

(* The rolling tag is the tag of the window at p, also after the search has *)
(* jumped behind a match, or back to its end.                               *)
RollingTag == end > 0 /\ pc \in {"loop", "cksum"} => t = full_tag(p)

(* The search comes to an end, although p may be set back when a match is   *)
(* written late, and although it waits for cksumthread.                     *)
SearchEnds == <>(pc \in {"done", "fatal"})

(* hash_search writes what it has read: the literals and matches decode to the *)
(* part of the chunk behind them, and the tag it looks matches up by is that   *)
(* of the bytes it stands at.                                                  *)
SearchSound == SearchTypeOK /\ RollingTag /\ RoundTrip
=============================================================================
