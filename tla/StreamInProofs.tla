--------------------------- MODULE StreamInProofs ---------------------------

(***************************************************************************)
(* Proofs about a chunk and about reading it.  The first part is about the *)
(* operators that lay a chunk out: for every list of what the rzip stage   *)
(* writes, each header points to the next block of its stream, blocks      *)
(* follow one another without a gap in what they hold, and all that was    *)
(* written is in them.                                                     *)
(*                                                                         *)
(* The second part is about the specification, for every number of threads *)
(* and every chunk.  The inductive invariant says what the ucompthreads of *)
(* a stream hold between them: consecutive blocks of the stream, from the  *)
(* one that holds the unit runzip_chunk needs next up to the one           *)
(* fill_buffer will read next.                                             *)
(***************************************************************************)
EXTENDS StreamIn, FiniteSetTheorems, WellFoundedInduction, SequenceTheorems,
        TLAPS

(* What follows is said of an archive a, its chunk l and the units r that   *)
(* are read of it.                                                          *)
BlockNos(l) == 1 .. Len(l.block)
AtIn(l, p) == CHOOSE k \in BlockNos(l) : l.block[k].off = p

(* The units that the rzip stage wrote to stream j. *)
Total(a, j) == Count(Writes(a), Len(Writes(a)), j)

(* Where block k ends, in units of its stream. *)
UnitsTo(a, l, k) == UnitsBefore(a, l, k) + l.block[k].units

(* Block k and what its header says: it ends where the next block of its    *)
(* stream starts, to which its header points, or it is the last one.        *)
BlockSound(a, l, k) ==
  LET b == l.block[k]
  IN /\ b.stream \in Streams /\ b.units \in Nat /\ b.off \in Nat \ {0}
     /\ b.u_len = b.units * UnitLen(b.stream)
     /\ b.c_len \in Nat /\ (b.c_len = 0 <=> b.units = 0)
     /\ UnitsBefore(a, l, k) \in Nat
     /\ UnitsTo(a, l, k) <= Total(a, b.stream)
     /\ b.last_head = 0 => UnitsTo(a, l, k) = Total(a, b.stream)
     /\ b.last_head # 0 =>
          /\ b.units > 0
          /\ \E h \in BlockNos(l) :
               /\ b.last_head = l.block[h].off /\ b.last_head > b.off
               /\ l.block[h].stream = b.stream
               /\ UnitsBefore(a, l, h) = UnitsTo(a, l, k)
          /\ ~a.stored => b.last_head <= l.size

(* The chunk is one that close_stream_out would leave. *)
ChunkSound(a, l, r) ==
  /\ r \in Seq(Streams)
  /\ \A j \in Streams : /\ Total(a, j) \in Nat
                        /\ Count(r, Len(r), j) <= Total(a, j)
  /\ Count(r, Len(r), 1) = Total(a, 1)
  /\ Len(l.block) \in Nat /\ l.size \in Nat
  /\ \A k \in BlockNos(l) : BlockSound(a, l, k)
  /\ \A k, h \in BlockNos(l) : l.block[k].off = l.block[h].off => k = h
  /\ \A j \in Streams :
       \E k \in BlockNos(l) : /\ l.block[k].off = l.head[j]
                              /\ l.block[k].stream = j
                              /\ UnitsBefore(a, l, k) = 0

-----------------------------------------------------------------------------

(* Counting what is j among the first k elements of a sequence. *)
LEMMA CountAny ==
  ASSUME NEW S, NEW q \in Seq(S), NEW k \in 0 .. Len(q), NEW j
  PROVE  /\ Count(q, k, j) \in Nat
         /\ Count(q, 0, j) = 0
         /\ Count(q, k, j) <= Count(q, Len(q), j)
         /\ k > 0 => Count(q, k, j) = Count(q, k - 1, j)
                                      + (IF q[k] = j THEN 1 ELSE 0)
<1>. DEFINE C(m) == {i \in 1 .. m : q[i] = j}
<1>1. ASSUME NEW m \in 0 .. Len(q) PROVE IsFiniteSet(C(m))
  <2>1. IsFiniteSet(1 .. m)
    BY FS_Interval
  <2>2. C(m) \in SUBSET (1 .. m)
    OBVIOUS
  <2>. HIDE DEF C
  <2>. QED  BY <2>1, <2>2, FS_Subset
<1>2. ASSUME NEW m \in 0 .. Len(q)
      PROVE  Count(q, m, j) \in Nat /\ Count(q, m, j) = Cardinality(C(m))
  BY <1>1, FS_CardinalityType DEF Count
<1>3. Count(q, 0, j) = 0
  <2>1. C(0) = {}
    OBVIOUS
  <2>. QED  BY <1>2, <2>1, FS_EmptySet
<1>4. Count(q, k, j) <= Count(q, Len(q), j)
  <2>1. C(k) \in SUBSET C(Len(q))
    OBVIOUS
  <2>2. Cardinality(C(k)) <= Cardinality(C(Len(q)))
    <3>. HIDE DEF C
    <3>. QED  BY <1>1, <2>1, FS_Subset
  <2>. QED  BY <1>2, <2>2
<1>5. ASSUME k > 0
      PROVE  Count(q, k, j) = Count(q, k - 1, j) + (IF q[k] = j THEN 1 ELSE 0)
  <2>1. k - 1 \in 0 .. Len(q) /\ k \notin C(k - 1)
    BY <1>5
  <2>2. CASE q[k] = j
    <3>1. C(k) = C(k - 1) \cup {k}
      BY <1>5, <2>2
    <3>2. Cardinality(C(k - 1) \cup {k}) = Cardinality(C(k - 1)) + 1
      <4>. HIDE DEF C
      <4>. QED  BY <1>1, <2>1, FS_AddElement
    <3>. QED  BY <1>2, <2>1, <2>2, <3>1, <3>2
  <2>3. CASE q[k] # j
    <3>1. C(k) = C(k - 1)
      BY <1>5, <2>3
    <3>2. Count(q, k, j) = Count(q, k - 1, j)
      BY <1>2, <2>1, <3>1
    <3>3. Count(q, k - 1, j) \in Nat
      BY <1>2, <2>1
    <3>. QED  BY <2>3, <3>2, <3>3
  <2>. QED  BY <2>2, <2>3
<1>. QED  BY <1>2, <1>3, <1>4, <1>5

(* Counting the units that were read. *)
LEMMA CountFacts ==
  ASSUME NEW q \in Seq(Streams), NEW k \in 0 .. Len(q), NEW j \in Streams
  PROVE  /\ Count(q, k, j) \in Nat
         /\ Count(q, 0, j) = 0
         /\ Count(q, k, j) <= Count(q, Len(q), j)
         /\ k > 0 => Count(q, k, j) = Count(q, k - 1, j)
                                      + (IF q[k] = j THEN 1 ELSE 0)
  BY CountAny, Zenon

-----------------------------------------------------------------------------

(* Induction over the naturals. *)

(* A set of numbers that is not empty has a least one. *)
LEMMA LeastNat ==
  ASSUME NEW T \in SUBSET Nat, T # {}
  PROVE  \E n \in T : \A k \in T : n <= k
<1>. DEFINE R == OpToRel(<, Nat)
<1>1. IsWellFoundedOn(R, Nat)
  BY NatLessThanWellFounded
<1>2. \A x, y \in Nat : x < y => <<x, y>> \in R
  BY DEF OpToRel
<1>. HIDE DEF R
<1>3. PICK n \in T : \A k \in T : ~(<<k, n>> \in R)
  BY <1>1, WFMin
<1>4. ASSUME NEW k \in T PROVE n <= k
  <2>1. k \in Nat /\ n \in Nat /\ ~(k < n)
    BY <1>2, <1>3
  <2>. QED  BY <2>1
<1>. QED  BY <1>4

(* A set with 0 and the successor of each of its numbers has them all.      *)
LEMMA SetInduction ==
  ASSUME NEW S, 0 \in S, \A n \in Nat : n \in S => n + 1 \in S
  PROVE  Nat \subseteq S
<1>. SUFFICES ASSUME Nat \ S # {} PROVE FALSE
  OBVIOUS
<1>1. PICK n \in Nat \ S : \A k \in Nat \ S : n <= k
  BY LeastNat
<1>2. n # 0 /\ n - 1 \in Nat /\ n - 1 \notin Nat \ S
  BY <1>1
<1>3. (n - 1) + 1 \in S
  BY <1>2
<1>. QED  BY <1>1, <1>3

-----------------------------------------------------------------------------

(* The chunk as it grows. *)

BlockRec == [stream: Streams, units: Nat, off: Nat, u_len: Nat, c_len: Nat,
             last_head: Nat]

(* The blocks of stream j among the first k. *)
Of(c, k, j) == Cardinality({i \in 1 .. k : c.block[i].stream = j})

(* Block k of a chunk c, when given[j] units of stream j have been flushed.  *)
Placed(a, c, given, k) ==
  LET b == c.block[k]
  IN /\ b.off > 0 /\ b.off < c.pos
     /\ b.u_len = b.units * UnitLen(b.stream)
     /\ b.c_len = 0 <=> b.units = 0
     /\ UnitsTo(a, c, k) <= given[b.stream]
     /\ b.last_head = 0 => k = c.last[b.stream]
     /\ b.last_head # 0 =>
          /\ b.units > 0
          /\ \E h \in BlockNos(c) :
               /\ b.last_head = c.block[h].off /\ b.last_head > b.off
               /\ c.block[h].stream = b.stream
               /\ UnitsBefore(a, c, h) = UnitsTo(a, c, k)
     /\ ~a.stored => b.off <= 2 * k

Grown(a, c, given) ==
  /\ c.block \in Seq(BlockRec)
  /\ c.head \in [Streams -> Nat] /\ c.last \in [Streams -> Nat]
  /\ c.buf \in [Streams -> Nat] /\ c.pos \in Nat \ {0}
  /\ given \in [Streams -> Nat]
  /\ \A k \in BlockNos(c) : Placed(a, c, given, k)
  /\ \A k, h \in BlockNos(c) : k < h => c.block[k].off < c.block[h].off
  /\ \A j \in Streams :
       IF c.last[j] = 0 THEN Of(c, Len(c.block), j) = 0
       ELSE /\ c.last[j] \in BlockNos(c) /\ c.block[c.last[j]].stream = j
            /\ UnitsTo(a, c, c.last[j]) = given[j]
            /\ \E k \in BlockNos(c) : /\ c.block[k].off = c.head[j]
                                      /\ c.block[k].stream = j
                                      /\ UnitsBefore(a, c, k) = 0
  /\ ~a.stored => c.pos <= 2 * Len(c.block) + 2

(* As long as it is written to, all blocks of a stream are full. *)
Full(a, c, given, j) ==
  /\ a.room[j] * Of(c, Len(c.block), j) = given[j]
  /\ \A k \in BlockNos(c) : c.block[k].stream = j => c.block[k].units > 0

(* Counting the blocks of a stream. *)
LEMMA OfFacts ==
  ASSUME NEW c, c.block \in Seq(BlockRec), NEW k \in 0 .. Len(c.block),
         NEW j \in Streams
  PROVE  /\ Of(c, k, j) \in Nat
         /\ Of(c, 0, j) = 0
         /\ k > 0 => Of(c, k, j) = Of(c, k - 1, j)
                                   + (IF c.block[k].stream = j THEN 1 ELSE 0)
<1>. DEFINE n == Len(c.block)
            q == [i \in 1 .. n |-> c.block[i].stream]
<1>1. n \in Nat /\ \A i \in 1 .. n : c.block[i] \in BlockRec
  OBVIOUS
<1>2. \A i \in 1 .. n : c.block[i].stream \in Streams
  BY <1>1 DEF BlockRec
<1>3. q \in Seq(Streams) /\ Len(q) = n
  BY <1>1, <1>2
<1>4. ASSUME NEW m \in 0 .. n PROVE Of(c, m, j) = Count(q, m, j)
  <2>1. {i \in 1 .. m : c.block[i].stream = j} = {i \in 1 .. m : q[i] = j}
    BY <1>1
  <2>. QED  BY <2>1 DEF Of, Count
<1>5. k > 0 => q[k] = c.block[k].stream
  OBVIOUS
<1>6. 0 \in 0 .. n /\ (k > 0 => k - 1 \in 0 .. n)
  BY <1>1
<1>7. Count(q, k, j) \in Nat /\ Count(q, 0, j) = 0
      /\ (k > 0 => Count(q, k, j) = Count(q, k - 1, j) + (IF q[k] = j THEN 1 ELSE 0))
  <2>. HIDE DEF q
  <2>. QED  BY <1>3, CountFacts
<1>. HIDE DEF q, n
<1>. QED  BY <1>4, <1>5, <1>6, <1>7 DEF n

(* What flush_buffer does to the chunk c of n blocks, stream j's buffer. *)
FlushedTo(a, c, j, d, n) ==
  /\ n \in Nat /\ Len(d.block) = n + 1 /\ d.block \in Seq(BlockRec)
  /\ \A k \in 1 .. n :
       /\ d.block[k].stream = c.block[k].stream
       /\ d.block[k].units = c.block[k].units
       /\ d.block[k].off = c.block[k].off
       /\ d.block[k].u_len = c.block[k].u_len
       /\ d.block[k].c_len = c.block[k].c_len
       /\ d.block[k].last_head = IF k = c.last[j] THEN c.pos
                                 ELSE c.block[k].last_head
  /\ d.block[n + 1].stream = j
  /\ d.block[n + 1].units = c.buf[j]
  /\ d.block[n + 1].off = c.pos
  /\ d.block[n + 1].u_len = c.buf[j] * UnitLen(j)
  /\ d.block[n + 1].c_len = 0 <=> c.buf[j] = 0
  /\ d.block[n + 1].last_head = 0
  /\ d.head = IF c.last[j] = 0 THEN [c.head EXCEPT ![j] = c.pos] ELSE c.head
  /\ d.last = [c.last EXCEPT ![j] = n + 1]
  /\ d.buf = [c.buf EXCEPT ![j] = 0]
  /\ d.pos \in Nat /\ d.pos > c.pos
  /\ ~a.stored => d.pos <= c.pos + 2

(* Flushed is that. *)
LEMMA FlushedParts ==
  ASSUME NEW a, NEW m \in Modes, NEW c, NEW given, NEW j \in Streams,
         a.stored \in BOOLEAN, Grown(a, c, given),
         NEW d, d = Flushed(a, m, c, j), NEW n, n = Len(c.block)
  PROVE  /\ FlushedTo(a, c, j, d, n)
         /\ ~m.encrypt => d.pos = c.pos + HeadLen + d.block[n + 1].c_len
<1>. DEFINE u_len == c.buf[j] * UnitLen(j)
            c_len == IF a.stored \/ u_len = 0 THEN u_len ELSE 1
            padded == IF m.encrypt THEN MAX(c_len, PadLen) ELSE c_len
            linked == IF c.last[j] = 0 THEN c.block
                      ELSE [c.block EXCEPT ![c.last[j]].last_head = c.pos]
            new == [stream |-> j, units |-> c.buf[j], off |-> c.pos,
                    u_len |-> u_len, c_len |-> c_len, last_head |-> 0]
<1>1. /\ d.block = Append(linked, new)
      /\ d.head = IF c.last[j] = 0 THEN [c.head EXCEPT ![j] = c.pos] ELSE c.head
      /\ d.last = [c.last EXCEPT ![j] = n + 1]
      /\ d.buf = [c.buf EXCEPT ![j] = 0]
      /\ d.pos = c.pos + HeadLen + padded
  BY DEF Flushed
<1>2. /\ c.block \in Seq(BlockRec) /\ n \in Nat /\ c.pos \in Nat
      /\ c.buf[j] \in Nat
      /\ c.last[j] # 0 => c.last[j] \in 1 .. n
      /\ \A k \in 1 .. n : c.block[k] \in BlockRec
  BY DEF Grown, BlockNos
<1>3. u_len \in Nat /\ (u_len = 0 <=> c.buf[j] = 0)
  BY <1>2 DEF UnitLen
<1>4. c_len \in Nat /\ (c_len = 0 <=> c.buf[j] = 0) /\ (~a.stored => c_len <= 1)
  <2>. HIDE DEF u_len
  <2>. QED  BY <1>3
<1>5. padded \in Nat /\ (~a.stored => padded <= 1)
  <2>. HIDE DEF c_len
  <2>. QED  BY <1>4 DEF MAX, PadLen
<1>6. new \in BlockRec
  <2>. HIDE DEF c_len, u_len
  <2>. QED  BY <1>2, <1>3, <1>4 DEF BlockRec
<1>7. /\ linked \in Seq(BlockRec) /\ Len(linked) = n
      /\ \A k \in 1 .. n :
           linked[k] = IF k = c.last[j] THEN [c.block[k] EXCEPT !.last_head = c.pos]
                       ELSE c.block[k]
  <2>1. CASE c.last[j] = 0
    BY <1>2, <2>1
  <2>2. CASE c.last[j] # 0
    <3>1. [c.block[c.last[j]] EXCEPT !.last_head = c.pos] \in BlockRec
      BY <1>2, <2>2 DEF BlockRec
    <3>2. linked = [c.block EXCEPT ![c.last[j]]
                      = [c.block[c.last[j]] EXCEPT !.last_head = c.pos]]
      BY <2>2
    <3>3. c.last[j] \in 1 .. n
      BY <1>2, <2>2
    <3>4. PICK r \in BlockRec : r = [c.block[c.last[j]] EXCEPT !.last_head = c.pos]
      BY <3>1
    <3>5. linked = [c.block EXCEPT ![c.last[j]] = r]
      BY <3>2, <3>4
    <3>6. linked \in Seq(BlockRec) /\ Len(linked) = n
      <4>. HIDE DEF linked
      <4>. QED  BY <1>2, <3>3, <3>5
    <3>7. \A k \in 1 .. n : linked[k] = IF k = c.last[j] THEN r ELSE c.block[k]
      <4>. HIDE DEF linked
      <4>. QED  BY <1>2, <3>3, <3>5
    <3>. HIDE DEF linked
    <3>. QED  BY <3>4, <3>6, <3>7
  <2>. QED  BY <2>1, <2>2
<1>8. /\ Len(d.block) = n + 1 /\ d.block \in Seq(BlockRec)
      /\ d.block[n + 1] = new /\ \A k \in 1 .. n : d.block[k] = linked[k]
  <2>. HIDE DEF new, linked
  <2>. QED  BY <1>1, <1>2, <1>6, <1>7
<1>9. ASSUME NEW k \in 1 .. n
      PROVE  /\ d.block[k].stream = c.block[k].stream
             /\ d.block[k].units = c.block[k].units
             /\ d.block[k].off = c.block[k].off
             /\ d.block[k].u_len = c.block[k].u_len
             /\ d.block[k].c_len = c.block[k].c_len
             /\ d.block[k].last_head = IF k = c.last[j] THEN c.pos
                                       ELSE c.block[k].last_head
  <2>1. d.block[k] = IF k = c.last[j] THEN [c.block[k] EXCEPT !.last_head = c.pos]
                     ELSE c.block[k]
    BY <1>7, <1>8
  <2>. QED  BY <1>2, <2>1 DEF BlockRec
<1>10. ~m.encrypt => padded = c_len
  <2>. HIDE DEF c_len
  <2>. QED  OBVIOUS
<1>11. ~m.encrypt => d.pos = c.pos + HeadLen + d.block[n + 1].c_len
  <2>. HIDE DEF linked, padded, c_len
  <2>. QED  BY <1>1, <1>8, <1>10
<1>. HIDE DEF linked, padded, c_len
<1>12. FlushedTo(a, c, j, d, n)
  BY <1>1, <1>2, <1>4, <1>5, <1>8, <1>9, SMTT(30) DEF HeadLen, FlushedTo
<1>. QED  BY <1>11, <1>12

(* Where blocks start is a number of units. *)
LEMMA UnitsTyped ==
  ASSUME NEW a, \A j \in Streams : a.room[j] \in Nat \ {0},
         NEW c, c.block \in Seq(BlockRec), NEW k \in BlockNos(c)
  PROVE  /\ c.block[k].stream \in Streams /\ c.block[k].units \in Nat
         /\ c.block[k].off \in Nat /\ c.block[k].u_len \in Nat
         /\ c.block[k].c_len \in Nat /\ c.block[k].last_head \in Nat
         /\ Of(c, k - 1, c.block[k].stream) \in Nat
         /\ UnitsBefore(a, c, k)
              = a.room[c.block[k].stream] * Of(c, k - 1, c.block[k].stream)
         /\ UnitsBefore(a, c, k) \in Nat /\ UnitsTo(a, c, k) \in Nat
<1>1. c.block[k] \in BlockRec /\ Len(c.block) \in Nat
  BY DEF BlockNos
<1>2. /\ c.block[k].stream \in Streams /\ c.block[k].units \in Nat
      /\ c.block[k].off \in Nat /\ c.block[k].u_len \in Nat
      /\ c.block[k].c_len \in Nat /\ c.block[k].last_head \in Nat
  BY <1>1 DEF BlockRec
<1>. DEFINE j == c.block[k].stream
<1>3. Of(c, k - 1, j) \in Nat
  <2>1. k - 1 \in 0 .. Len(c.block)
    BY <1>1 DEF BlockNos
  <2>. QED  BY <1>2, <2>1, OfFacts
<1>4. UnitsBefore(a, c, k) = a.room[j] * Of(c, k - 1, j)
  BY DEF UnitsBefore, Of
<1>5. UnitsBefore(a, c, k) \in Nat
  <2>1. a.room[j] \in Nat
    BY <1>2
  <2>. HIDE DEF j
  <2>. QED  BY <1>3, <1>4, <2>1
<1>. QED  BY <1>2, <1>3, <1>4, <1>5 DEF UnitsTo

(* The chunk d is sound after the buffer of stream j of c has been flushed,  *)
(* and its streams are full but for the last block of j.                    *)
StillGrown(a, c, given, j, d, gave) ==
  /\ Grown(a, d, gave)
  /\ d.buf = [c.buf EXCEPT ![j] = 0]
  /\ d.last[j] # 0 /\ \A i \in Streams : c.last[i] # 0 => d.last[i] # 0
  /\ Len(d.block) = Len(c.block) + 1
  /\ \A i \in Streams : i # j /\ Full(a, c, given, i) => Full(a, d, gave, i)
  /\ c.buf[j] = a.room[j] => Full(a, d, gave, j)

(* So it is after flush_buffer. *)
LEMMA FlushedGrown ==
  ASSUME NEW a, NEW m \in Modes, NEW c, NEW given, NEW j \in Streams,
         a.stored \in BOOLEAN, \A i \in Streams : a.room[i] \in Nat \ {0},
         Grown(a, c, given), Full(a, c, given, j),
         NEW d, d = Flushed(a, m, c, j),
         NEW gave, gave = [given EXCEPT ![j] = @ + c.buf[j]]
  PROVE  StillGrown(a, c, given, j, d, gave)
<1>0. PICK n : n = Len(c.block)
  OBVIOUS
<1>1. /\ n \in Nat /\ Len(d.block) = n + 1 /\ d.block \in Seq(BlockRec)
      /\ \A k \in 1 .. n :
           /\ d.block[k].stream = c.block[k].stream
           /\ d.block[k].units = c.block[k].units
           /\ d.block[k].off = c.block[k].off
           /\ d.block[k].u_len = c.block[k].u_len
           /\ d.block[k].c_len = c.block[k].c_len
           /\ d.block[k].last_head = IF k = c.last[j] THEN c.pos
                                     ELSE c.block[k].last_head
      /\ d.block[n + 1].stream = j
      /\ d.block[n + 1].units = c.buf[j]
      /\ d.block[n + 1].off = c.pos
      /\ d.block[n + 1].u_len = c.buf[j] * UnitLen(j)
      /\ d.block[n + 1].c_len = 0 <=> c.buf[j] = 0
      /\ d.block[n + 1].last_head = 0
      /\ d.head = IF c.last[j] = 0 THEN [c.head EXCEPT ![j] = c.pos] ELSE c.head
      /\ d.last = [c.last EXCEPT ![j] = n + 1]
      /\ d.buf = [c.buf EXCEPT ![j] = 0]
      /\ d.pos \in Nat /\ d.pos > c.pos
      /\ ~a.stored => d.pos <= c.pos + 2
  <2>1. FlushedTo(a, c, j, d, n)
    BY <1>0, FlushedParts, Zenon
  <2>. QED  BY <2>1 DEF FlushedTo
<1>2. /\ c.block \in Seq(BlockRec)
      /\ c.head \in [Streams -> Nat] /\ c.last \in [Streams -> Nat]
      /\ c.buf \in [Streams -> Nat] /\ c.pos \in Nat \ {0}
      /\ given \in [Streams -> Nat]
  BY DEF Grown
<1>3. /\ gave \in [Streams -> Nat] /\ gave[j] = given[j] + c.buf[j]
      /\ \A i \in Streams : given[i] \in Nat /\ given[i] <= gave[i]
      /\ \A i \in Streams : i # j => gave[i] = given[i]
  <2>1. given[j] + c.buf[j] \in Nat
    BY <1>2
  <2>. QED  BY <1>2, <2>1
<1>4. /\ BlockNos(c) = 1 .. n /\ BlockNos(d) = 1 .. n + 1 /\ n + 1 \in BlockNos(d)
      /\ \A k \in BlockNos(d) : (k \in BlockNos(c) \/ k = n + 1)
      /\ \A k \in BlockNos(c) : k \in BlockNos(d) /\ k # n + 1 /\ k <= n /\ k \in Nat
  BY <1>1, <1>0 DEF BlockNos
<1>5. ASSUME NEW k \in 0 .. n, NEW i \in Streams
      PROVE  Of(d, k, i) = Of(c, k, i)
  <2>1. {x \in 1 .. k : d.block[x].stream = i} = {x \in 1 .. k : c.block[x].stream = i}
    <3>1. \A x \in 1 .. k : x \in 1 .. n
      BY <1>1
    <3>. QED  BY <1>1, <3>1
  <2>. QED  BY <2>1 DEF Of
<1>6. ASSUME NEW i \in Streams
      PROVE  /\ Of(c, n, i) \in Nat
             /\ Of(d, n + 1, i) = Of(c, n, i) + (IF i = j THEN 1 ELSE 0)
  <2>1. n + 1 \in 0 .. Len(d.block) /\ n + 1 > 0 /\ n \in 0 .. n /\ n \in 0 .. Len(c.block)
        /\ (n + 1) - 1 = n
    BY <1>1, <1>0
  <2>2. Of(d, n + 1, i) = Of(d, n, i) + (IF d.block[n + 1].stream = i THEN 1 ELSE 0)
    <3>1. d.block \in Seq(BlockRec) /\ n + 1 \in 0 .. Len(d.block) /\ n + 1 > 0
          /\ (n + 1) - 1 = n
      BY <1>1, <2>1
    <3>2. Of(d, n + 1, i)
            = Of(d, (n + 1) - 1, i) + (IF d.block[n + 1].stream = i THEN 1 ELSE 0)
      BY <3>1, OfFacts, Zenon
    <3>. QED  BY <3>1, <3>2
  <2>3. Of(d, n, i) = Of(c, n, i)
    BY <1>5, <2>1
  <2>4. Of(c, n, i) \in Nat
    BY <1>2, <2>1, OfFacts
  <2>. QED  BY <1>1, <2>2, <2>3, <2>4
<1>7. ASSUME NEW k \in BlockNos(c)
      PROVE  /\ UnitsBefore(a, d, k) = UnitsBefore(a, c, k)
             /\ UnitsTo(a, d, k) = UnitsTo(a, c, k)
             /\ UnitsBefore(a, c, k) \in Nat /\ UnitsTo(a, c, k) \in Nat
             /\ c.block[k].stream \in Streams /\ c.block[k].units \in Nat
             /\ c.block[k].off \in Nat /\ c.block[k].last_head \in Nat
  <2>1. /\ c.block[k].stream \in Streams
        /\ UnitsBefore(a, c, k)
             = a.room[c.block[k].stream] * Of(c, k - 1, c.block[k].stream)
        /\ UnitsBefore(a, c, k) \in Nat /\ UnitsTo(a, c, k) \in Nat
        /\ c.block[k].units \in Nat
        /\ c.block[k].off \in Nat /\ c.block[k].last_head \in Nat
    BY <1>2, UnitsTyped
  <2>2. UnitsBefore(a, d, k)
          = a.room[d.block[k].stream] * Of(d, k - 1, d.block[k].stream)
    <3>1. d.block \in Seq(BlockRec) /\ k \in BlockNos(d)
      BY <1>1, <1>4
    <3>. QED  BY <3>1, UnitsTyped
  <2>3. k - 1 \in 0 .. n /\ d.block[k].stream = c.block[k].stream
        /\ d.block[k].units = c.block[k].units
    BY <1>1, <1>4
  <2>. QED  BY <1>5, <2>1, <2>2, <2>3 DEF UnitsTo
<1>8. /\ UnitsBefore(a, d, n + 1) = given[j]
      /\ UnitsTo(a, d, n + 1) = gave[j]
  <2>1. UnitsBefore(a, d, n + 1) = a.room[j] * Of(d, (n + 1) - 1, j)
    <3>1. d.block \in Seq(BlockRec) /\ n + 1 \in BlockNos(d)
          /\ d.block[n + 1].stream = j
      BY <1>1, <1>4
    <3>2. PICK x \in BlockNos(d) : x = n + 1
      BY <3>1
    <3>3. UnitsBefore(a, d, x)
            = a.room[d.block[x].stream] * Of(d, x - 1, d.block[x].stream)
      BY <3>1, UnitsTyped
    <3>. QED  BY <3>1, <3>2, <3>3
  <2>2. (n + 1) - 1 = n /\ n \in 0 .. n
    BY <1>1
  <2>3. Of(d, (n + 1) - 1, j) = Of(c, n, j)
    BY <1>5, <2>2
  <2>4. a.room[j] * Of(c, n, j) = given[j]
    BY <1>0 DEF Full
  <2>. QED  BY <1>1, <1>3, <2>1, <2>3, <2>4 DEF UnitsTo
<1>9. ASSUME NEW k \in BlockNos(c) PROVE Placed(a, d, gave, k)
  <2>. DEFINE b == c.block[k]
              i == c.block[k].stream
  <2>1. Placed(a, c, given, k)
    BY DEF Grown
  <2>2. /\ d.block[k].stream = i /\ d.block[k].units = b.units
        /\ d.block[k].off = b.off /\ d.block[k].u_len = b.u_len
        /\ d.block[k].c_len = b.c_len
        /\ d.block[k].last_head = IF k = c.last[j] THEN c.pos ELSE b.last_head
    BY <1>1, <1>4
  <2>3. i \in Streams /\ UnitsTo(a, d, k) = UnitsTo(a, c, k)
        /\ UnitsTo(a, c, k) \in Nat /\ b.off \in Nat
    BY <1>7
  <2>4. b.off > 0 /\ b.off < d.pos
    BY <1>1, <1>2, <2>1, <2>3, SMTT(30) DEF Placed
  <2>5. UnitsTo(a, d, k) <= gave[i]
    <3>1. UnitsTo(a, c, k) <= given[i]
      BY <2>1 DEF Placed
    <3>2. given[i] <= gave[i] /\ given[i] \in Nat /\ gave[i] \in Nat
      BY <1>3, <2>3
    <3>. HIDE DEF i
    <3>. QED  BY <2>3, <3>1, <3>2
  <2>6. ASSUME d.block[k].last_head = 0 PROVE k = d.last[i]
    <3>1. k # c.last[j] /\ b.last_head = 0
      BY <1>2, <2>2, <2>6
    <3>2. k = c.last[i]
      BY <2>1, <3>1 DEF Placed
    <3>. QED  BY <1>1, <1>2, <2>3, <3>1, <3>2
  <2>7. ASSUME d.block[k].last_head # 0
        PROVE  /\ b.units > 0
               /\ \E h \in BlockNos(d) :
                    /\ d.block[k].last_head = d.block[h].off
                    /\ d.block[k].last_head > b.off
                    /\ d.block[h].stream = i
                    /\ UnitsBefore(a, d, h) = UnitsTo(a, d, k)
    <3>1. CASE k = c.last[j]
      <4>1. c.last[j] # 0
        BY <1>4, <3>1
      <4>2. i = j /\ UnitsTo(a, c, k) = given[j]
        BY <3>1, <4>1 DEF Grown
      <4>3. d.block[k].last_head = c.pos
        BY <2>2, <3>1
      <4>4. b.units > 0
        BY <4>2 DEF Full
      <4>5. c.pos > b.off
        BY <1>2, <2>1, <2>3 DEF Placed
      <4>. QED  BY <1>1, <1>4, <1>8, <2>3, <4>2, <4>3, <4>4, <4>5
    <3>2. CASE k # c.last[j]
      <4>1. d.block[k].last_head = b.last_head /\ b.last_head # 0
        BY <2>2, <2>7, <3>2
      <4>2. b.units > 0
        BY <2>1, <4>1 DEF Placed
      <4>3. PICK h \in BlockNos(c) :
              /\ b.last_head = c.block[h].off /\ b.last_head > b.off
              /\ c.block[h].stream = i
              /\ UnitsBefore(a, c, h) = UnitsTo(a, c, k)
        BY <2>1, <4>1 DEF Placed
      <4>4. /\ h \in BlockNos(d) /\ d.block[h].off = c.block[h].off
            /\ d.block[h].stream = i /\ UnitsBefore(a, d, h) = UnitsBefore(a, c, h)
        BY <1>1, <1>4, <1>7, <4>3
      <4>. QED  BY <2>3, <4>1, <4>2, <4>3, <4>4
    <3>. QED  BY <3>1, <3>2
  <2>8. /\ b.u_len = b.units * UnitLen(i)
        /\ b.c_len = 0 <=> b.units = 0
        /\ ~a.stored => b.off <= 2 * k
    BY <2>1 DEF Placed
  <2>. HIDE DEF b, i
  <2>. QED  BY <2>2, <2>4, <2>5, <2>6, <2>7, <2>8 DEF Placed
<1>10. Placed(a, d, gave, n + 1)
  <2>1. d.last[j] = n + 1
    BY <1>1, <1>2
  <2>2. c.pos > 0 /\ c.pos < d.pos
    BY <1>1, <1>2
  <2>3. ~a.stored => c.pos <= 2 * (n + 1)
    BY <1>1, <1>2, <1>0 DEF Grown
  <2>4. gave[j] <= gave[j]
    <3>1. gave[j] \in Nat
      BY <1>3
    <3>. QED  BY <3>1
  <2>. QED  BY <1>1, <1>8, <2>1, <2>2, <2>3, <2>4 DEF Placed
<1>11. ASSUME NEW k \in BlockNos(d), NEW h \in BlockNos(d), k < h
       PROVE  d.block[k].off < d.block[h].off
  <2>1. k \in BlockNos(c)
    BY <1>1, <1>4, <1>11
  <2>2. CASE h \in BlockNos(c)
    <3>1. c.block[k].off < c.block[h].off
      BY <1>11, <2>1, <2>2 DEF Grown
    <3>. QED  BY <1>1, <1>4, <2>1, <2>2, <3>1
  <2>3. CASE h = n + 1
    <3>1. c.block[k].off < c.pos
      BY <2>1 DEF Grown, Placed
    <3>. QED  BY <1>1, <1>4, <2>1, <2>3, <3>1
  <2>. QED  BY <1>4, <2>2, <2>3
<1>12. ASSUME NEW i \in Streams
       PROVE  IF d.last[i] = 0 THEN Of(d, Len(d.block), i) = 0
              ELSE /\ d.last[i] \in BlockNos(d) /\ d.block[d.last[i]].stream = i
                   /\ UnitsTo(a, d, d.last[i]) = gave[i]
                   /\ \E k \in BlockNos(d) : /\ d.block[k].off = d.head[i]
                                             /\ d.block[k].stream = i
                                             /\ UnitsBefore(a, d, k) = 0
  <2>0. IF c.last[i] = 0 THEN Of(c, n, i) = 0
        ELSE /\ c.last[i] \in BlockNos(c) /\ c.block[c.last[i]].stream = i
             /\ UnitsTo(a, c, c.last[i]) = given[i]
             /\ \E k \in BlockNos(c) : /\ c.block[k].off = c.head[i]
                                       /\ c.block[k].stream = i
                                       /\ UnitsBefore(a, c, k) = 0
    BY <1>0 DEF Grown
  <2>1. ASSUME c.last[i] # 0, d.head[i] = c.head[i]
        PROVE  \E k \in BlockNos(d) : /\ d.block[k].off = d.head[i]
                                      /\ d.block[k].stream = i
                                      /\ UnitsBefore(a, d, k) = 0
    <3>1. PICK k \in BlockNos(c) : /\ c.block[k].off = c.head[i]
                                   /\ c.block[k].stream = i
                                   /\ UnitsBefore(a, c, k) = 0
      BY <2>0, <2>1
    <3>. QED  BY <1>1, <1>4, <1>7, <2>1, <3>1, SMTT(30)
  <2>2. CASE i = j
    <3>1. d.last[i] = n + 1 /\ n + 1 # 0
      BY <1>1, <1>2, <2>2
    <3>2. CASE c.last[j] # 0
      <4>1. d.head[i] = c.head[i]
        BY <1>1, <3>2
      <4>. QED  BY <1>1, <1>4, <1>8, <2>1, <2>2, <3>1, <3>2, <4>1
    <3>3. CASE c.last[j] = 0
      <4>1. d.head[i] = c.pos
        BY <1>1, <1>2, <2>2, <3>3
      <4>2. given[j] = 0
        <5>1. Of(c, n, j) = 0
          BY <2>0, <2>2, <3>3
        <5>2. a.room[j] * Of(c, n, j) = given[j] /\ a.room[j] \in Nat
          BY <1>0 DEF Full
        <5>. QED  BY <5>1, <5>2
      <4>. QED  BY <1>1, <1>4, <1>8, <2>2, <3>1, <4>1, <4>2
    <3>. QED  BY <3>2, <3>3
  <2>3. CASE i # j
    <3>1. d.last[i] = c.last[i] /\ d.head[i] = c.head[i] /\ gave[i] = given[i]
      BY <1>1, <1>2, <1>3, <2>3
    <3>2. CASE c.last[i] = 0
      <4>1. Of(d, n + 1, i) = 0
        BY <1>6, <2>0, <2>3, <3>2
      <4>. QED  BY <1>1, <3>1, <3>2, <4>1
    <3>3. CASE c.last[i] # 0
      <4>1. PICK k : k = c.last[i]
        OBVIOUS
      <4>2. /\ k \in BlockNos(c) /\ c.block[k].stream = i
            /\ UnitsTo(a, c, k) = given[i]
        BY <2>0, <3>3, <4>1
      <4>3. k \in BlockNos(d) /\ d.block[k].stream = i
        BY <1>1, <1>4, <4>2
      <4>4. UnitsTo(a, d, k) = gave[i]
        BY <1>7, <3>1, <4>2
      <4>. QED  BY <2>1, <3>1, <3>3, <4>1, <4>3, <4>4
    <3>. QED  BY <3>2, <3>3
  <2>. QED  BY <2>2, <2>3
<1>13. Grown(a, d, gave)
  <2>1. d.head \in [Streams -> Nat] /\ d.last \in [Streams -> Nat]
        /\ d.buf \in [Streams -> Nat] /\ d.pos \in Nat \ {0}
    BY <1>1, <1>2
  <2>2. ~a.stored => d.pos <= 2 * Len(d.block) + 2
    <3>. SUFFICES ASSUME ~a.stored PROVE d.pos <= 2 * Len(d.block) + 2
      OBVIOUS
    <3>1. c.pos <= 2 * n + 2
      BY <1>0 DEF Grown
    <3>. QED  BY <1>1, <1>2, <3>1
  <2>3. \A k \in BlockNos(d) : Placed(a, d, gave, k)
    BY <1>4, <1>9, <1>10
  <2>. QED  BY <1>1, <1>3, <1>11, <1>12, <2>1, <2>2, <2>3 DEF Grown
<1>14. ASSUME NEW i \in Streams, i # j, Full(a, c, given, i)
       PROVE  Full(a, d, gave, i)
  <2>1. Of(d, n + 1, i) = Of(c, n, i)
    BY <1>6, <1>14
  <2>2. a.room[i] * Of(d, Len(d.block), i) = gave[i]
    BY <1>1, <1>3, <1>14, <2>1, <1>0 DEF Full
  <2>3. \A k \in BlockNos(d) : d.block[k].stream = i => d.block[k].units > 0
    BY <1>1, <1>4, <1>14 DEF Full
  <2>. QED  BY <2>2, <2>3 DEF Full
<1>15. ASSUME c.buf[j] = a.room[j] PROVE Full(a, d, gave, j)
  <2>1. a.room[j] \in Nat \ {0} /\ Of(c, n, j) \in Nat
        /\ a.room[j] * Of(c, n, j) = given[j]
    BY <1>6, <1>0 DEF Full
  <2>2. a.room[j] * (Of(c, n, j) + 1) = a.room[j] * Of(c, n, j) + a.room[j]
    BY <2>1
  <2>3. a.room[j] * Of(d, Len(d.block), j) = gave[j]
    BY <1>1, <1>3, <1>6, <1>15, <2>1, <2>2
  <2>4. \A k \in BlockNos(d) : d.block[k].stream = j => d.block[k].units > 0
    <3>1. ASSUME NEW k \in BlockNos(c), d.block[k].stream = j
          PROVE  d.block[k].units > 0
      <4>1. k \in 1 .. n
        BY <1>4
      <4>2. d.block[k].units = c.block[k].units /\ c.block[k].stream = j
        BY <1>1, <3>1, <4>1
      <4>. QED  BY <4>2 DEF Full
    <3>2. d.block[n + 1].units > 0
      BY <1>1, <1>15, <2>1
    <3>. QED  BY <1>4, <3>1, <3>2
  <2>. QED  BY <2>3, <2>4 DEF Full
<1>16. d.last[j] # 0 /\ \A i \in Streams : c.last[i] # 0 => d.last[i] # 0
  BY <1>1, <1>2
<1>. QED  BY <1>0, <1>1, <1>13, <1>14, <1>15, <1>16 DEF StillGrown
-----------------------------------------------------------------------------

(* What the rzip stage writes. *)

(* The units that operation n of the rzip stage writes. *)
Put(a, n) == IF a.ops[n] = "lit" THEN <<0, 1>> ELSE <<0>>

(* The recursion in Writes has a solution. *)
LEMMA WritesDefined ==
  ASSUME NEW a, NEW N \in Nat
  PROVE  \E f : f = [n \in 0 .. N |-> IF n = 0 THEN << >>
                                      ELSE f[n - 1] \o Put(a, n)]
<1>. DEFINE D(m) == \E f : f = [n \in 0 .. m |-> IF n = 0 THEN << >>
                                                  ELSE f[n - 1] \o Put(a, n)]
            G == {m \in Nat : D(m)}
<1>1. D(0)
  <2>. DEFINE f == [n \in 0 .. 0 |-> << >>]
  <2>1. f = [n \in 0 .. 0 |-> IF n = 0 THEN << >> ELSE f[n - 1] \o Put(a, n)]
    OBVIOUS
  <2>. QED  BY <2>1
<1>2. ASSUME NEW m \in Nat, D(m) PROVE D(m + 1)
  <2>1. PICK f : f = [n \in 0 .. m |-> IF n = 0 THEN << >>
                                       ELSE f[n - 1] \o Put(a, n)]
    BY <1>2
  <2>. DEFINE g == [n \in 0 .. m + 1 |-> IF n = m + 1 THEN f[m] \o Put(a, m + 1)
                                         ELSE f[n]]
  <2>2. ASSUME NEW n \in 0 .. m + 1
        PROVE  g[n] = IF n = 0 THEN << >> ELSE g[n - 1] \o Put(a, n)
    <3>1. CASE n = m + 1
      <4>1. n # 0 /\ n - 1 = m /\ m \in 0 .. m + 1 /\ m # m + 1
        BY <3>1
      <4>. QED  BY <3>1, <4>1
    <3>2. CASE n # m + 1
      <4>1. n \in 0 .. m /\ g[n] = f[n]
        BY <3>2
      <4>2. n # 0 => n - 1 \in 0 .. m + 1 /\ n - 1 # m + 1 /\ g[n - 1] = f[n - 1]
        BY <3>2
      <4>3. f[n] = IF n = 0 THEN << >> ELSE f[n - 1] \o Put(a, n)
        BY <2>1, <4>1
      <4>. HIDE DEF g
      <4>. QED  BY <4>1, <4>2, <4>3
    <3>. QED  BY <3>1, <3>2
  <2>3. g = [n \in 0 .. m + 1 |-> IF n = 0 THEN << >> ELSE g[n - 1] \o Put(a, n)]
    BY <2>2
  <2>. HIDE DEF g
  <2>. QED  BY <2>3
<1>3. Nat \subseteq G
  <2>1. 0 \in G /\ \A m \in Nat : m \in G => m + 1 \in G
    <3>. HIDE DEF D
    <3>. QED  BY <1>1, <1>2
  <2>. HIDE DEF G
  <2>. QED  BY <2>1, SetInduction
<1>4. D(N)
  <2>. HIDE DEF D
  <2>. QED  BY <1>3
<1>. QED  BY <1>4

(* A chunk has at least one unit in each stream, and its last unit, the     *)
(* checksum, is in stream 0.  A literal writes two units, a match one.      *)
LEMMA WritesFacts ==
  ASSUME NEW a, ArchiveOK(a)
  PROVE  /\ Writes(a) \in Seq(Streams)
         /\ Len(Writes(a)) \in Nat \ {0} /\ Writes(a)[Len(Writes(a))] = 0
         /\ Len(Writes(a)) <= 2 * Count(a.ops, Len(a.ops), "lit")
                              + Count(a.ops, Len(a.ops), "match") + 2
         /\ Count(a.ops, Len(a.ops), "lit") \in Nat \ {0}
         /\ Count(a.ops, Len(a.ops), "match") \in Nat
<1>0. PICK N : N = Len(a.ops)
  OBVIOUS
<1>. DEFINE W == CHOOSE f : f = [n \in 0 .. N |-> IF n = 0 THEN << >>
                                                  ELSE f[n - 1] \o Put(a, n)]
<1>1. a.ops \in Seq({"lit", "match"}) /\ N \in Nat /\ N > 0 /\ a.ops[1] = "lit"
  BY <1>0 DEF ArchiveOK
<1>2. Writes(a) = W[N] \o <<0, 0>>
  BY <1>0 DEF Writes, Put
<1>3. W = [n \in 0 .. N |-> IF n = 0 THEN << >> ELSE W[n - 1] \o Put(a, n)]
  <2>1. \E f : f = [n \in 0 .. N |-> IF n = 0 THEN << >> ELSE f[n - 1] \o Put(a, n)]
    BY <1>1, WritesDefined
  <2>. QED  BY <2>1
<1>. HIDE DEF W
<1>4. /\ W[0] = << >>
      /\ \A n \in Nat : n < N => W[n + 1] = W[n] \o Put(a, n + 1)
  <2>1. 0 \in 0 .. N
    BY <1>1
  <2>2. ASSUME NEW n \in Nat, n < N PROVE W[n + 1] = W[n] \o Put(a, n + 1)
    <3>1. n + 1 \in 0 .. N /\ n + 1 # 0 /\ (n + 1) - 1 = n
      BY <1>1, <2>2
    <3>2. W[n + 1] = W[(n + 1) - 1] \o Put(a, n + 1)
      BY <1>3, <3>1
    <3>. QED  BY <3>1, <3>2
  <2>. QED  BY <1>3, <2>1, <2>2
<1>5. ASSUME NEW n \in 0 .. N, NEW x \in {"lit", "match"}
      PROVE  /\ Count(a.ops, n, x) \in Nat /\ Count(a.ops, 0, x) = 0
             /\ Count(a.ops, n, x) <= Count(a.ops, N, x)
             /\ n > 0 => Count(a.ops, n, x) = Count(a.ops, n - 1, x)
                                              + (IF a.ops[n] = x THEN 1 ELSE 0)
  <2>1. a.ops \in Seq({"lit", "match"}) /\ n \in 0 .. Len(a.ops)
    BY <1>0, <1>1
  <2>. QED  BY <1>0, <2>1, CountAny, Zenon
<1>. DEFINE Lim(n) == 2 * Count(a.ops, n, "lit") + Count(a.ops, n, "match")
<1>. DEFINE G == {n \in Nat :
                    n <= N => W[n] \in Seq(Streams) /\ Len(W[n]) <= Lim(n)}
<1>6. 0 \in G
  <2>1. 0 \in 0 .. N
    BY <1>1
  <2>2. Count(a.ops, 0, "lit") = 0 /\ Count(a.ops, 0, "match") = 0
    BY <1>5, <2>1
  <2>3. Lim(0) = 0
    BY <2>2
  <2>4. W[0] \in Seq(Streams) /\ Len(W[0]) <= 0
    BY <1>4
  <2>. QED  BY <2>3, <2>4
<1>7. ASSUME NEW n \in Nat, n \in G PROVE n + 1 \in G
  <2>. SUFFICES ASSUME n + 1 <= N
                PROVE  W[n + 1] \in Seq(Streams) /\ Len(W[n + 1]) <= Lim(n + 1)
    OBVIOUS
  <2>0. n <= N /\ n < N
    BY <1>1
  <2>1. /\ W[n] \in Seq(Streams) /\ Len(W[n]) <= Lim(n)
        /\ W[n + 1] = W[n] \o Put(a, n + 1)
    <3>1. W[n] \in Seq(Streams) /\ Len(W[n]) <= Lim(n)
      BY <1>7, <2>0
    <3>. QED  BY <1>4, <2>0, <3>1
  <2>2. n + 1 \in 0 .. N /\ n \in 0 .. N /\ n + 1 > 0 /\ (n + 1) - 1 = n
        /\ n + 1 \in 1 .. N
    BY <1>1
  <2>3. a.ops[n + 1] \in {"lit", "match"}
    BY <1>0, <1>1, <2>2
  <2>4. \A x \in {"lit", "match"} :
          /\ Count(a.ops, n, x) \in Nat
          /\ Count(a.ops, n + 1, x)
               = Count(a.ops, n, x) + (IF a.ops[n + 1] = x THEN 1 ELSE 0)
    <3>. TAKE x \in {"lit", "match"}
    <3>1. Count(a.ops, n, x) \in Nat
      BY <1>5, <2>2
    <3>2. Count(a.ops, n + 1, x) = Count(a.ops, (n + 1) - 1, x)
                                   + (IF a.ops[n + 1] = x THEN 1 ELSE 0)
      BY <1>5, <2>2, Zenon
    <3>. QED  BY <2>2, <3>1, <3>2
  <2>5. CASE a.ops[n + 1] = "lit"
    <3>1. W[n + 1] = W[n] \o <<0, 1>>
      BY <2>1, <2>5 DEF Put
    <3>2. W[n + 1] \in Seq(Streams) /\ Len(W[n + 1]) = Len(W[n]) + 2
      <4>1. PICK q \in Seq(Streams) : q = W[n]
        BY <2>1
      <4>2. q \o <<0, 1>> \in Seq(Streams) /\ Len(q \o <<0, 1>>) = Len(q) + 2
        BY DEF Streams
      <4>. QED  BY <3>1, <4>1, <4>2
    <3>3. /\ Count(a.ops, n + 1, "lit") = Count(a.ops, n, "lit") + 1
          /\ Count(a.ops, n + 1, "match") = Count(a.ops, n, "match")
      BY <2>4, <2>5
    <3>4. Count(a.ops, n, "lit") \in Nat /\ Count(a.ops, n, "match") \in Nat
          /\ Len(W[n]) \in Nat
      BY <2>1, <2>4
    <3>5. Lim(n + 1) = Lim(n) + 2 /\ Lim(n) \in Nat
      BY <3>3, <3>4
    <3>6. PICK x, y, z, u : x = Lim(n) /\ y = Len(W[n])
                            /\ z = Lim(n + 1) /\ u = Len(W[n + 1])
      OBVIOUS
    <3>7. u <= z
      <4>1. x \in Nat /\ y \in Nat /\ y <= x /\ z = x + 2 /\ u = y + 2
        BY <2>1, <3>2, <3>4, <3>5, <3>6
      <4>. QED  BY <4>1
    <3>. HIDE DEF Lim
    <3>. QED  BY <3>2, <3>6, <3>7
  <2>6. CASE a.ops[n + 1] = "match"
    <3>1. W[n + 1] = W[n] \o <<0>>
      BY <2>1, <2>6 DEF Put
    <3>2. W[n + 1] \in Seq(Streams) /\ Len(W[n + 1]) = Len(W[n]) + 1
      <4>1. PICK q \in Seq(Streams) : q = W[n]
        BY <2>1
      <4>2. q \o <<0>> \in Seq(Streams) /\ Len(q \o <<0>>) = Len(q) + 1
        BY DEF Streams
      <4>. QED  BY <3>1, <4>1, <4>2
    <3>3. /\ Count(a.ops, n + 1, "lit") = Count(a.ops, n, "lit")
          /\ Count(a.ops, n + 1, "match") = Count(a.ops, n, "match") + 1
      BY <2>4, <2>6
    <3>4. Count(a.ops, n, "lit") \in Nat /\ Count(a.ops, n, "match") \in Nat
          /\ Len(W[n]) \in Nat
      BY <2>1, <2>4
    <3>5. Lim(n + 1) = Lim(n) + 1 /\ Lim(n) \in Nat
      BY <3>3, <3>4
    <3>6. PICK x, y, z, u : x = Lim(n) /\ y = Len(W[n])
                            /\ z = Lim(n + 1) /\ u = Len(W[n + 1])
      OBVIOUS
    <3>7. u <= z
      <4>1. x \in Nat /\ y \in Nat /\ y <= x /\ z = x + 1 /\ u = y + 1
        BY <2>1, <3>2, <3>4, <3>5, <3>6
      <4>. QED  BY <4>1
    <3>. HIDE DEF Lim
    <3>. QED  BY <3>2, <3>6, <3>7
  <2>. QED  BY <2>3, <2>5, <2>6
<1>8. Nat \subseteq G
  <2>. HIDE DEF G
  <2>. QED  BY <1>6, <1>7, SetInduction
<1>9. /\ W[N] \in Seq(Streams)
      /\ Len(W[N]) <= Lim(N)
  <2>1. N \in G /\ N <= N
    BY <1>1, <1>8
  <2>. QED  BY <2>1
<1>. HIDE DEF G
<1>10. Count(a.ops, N, "lit") \in Nat \ {0} /\ Count(a.ops, N, "match") \in Nat
  <2>1. 1 \in 0 .. N /\ N \in 0 .. N /\ 1 - 1 = 0 /\ 1 > 0
    BY <1>1
  <2>2. Count(a.ops, 1, "lit") = Count(a.ops, 1 - 1, "lit") + 1
    BY <1>1, <1>5, <2>1
  <2>3. Count(a.ops, 1, "lit") = 1
    BY <1>5, <2>1, <2>2
  <2>4. Count(a.ops, 1, "lit") <= Count(a.ops, N, "lit")
        /\ Count(a.ops, N, "lit") \in Nat /\ Count(a.ops, N, "match") \in Nat
    BY <1>5, <2>1
  <2>. QED  BY <2>3, <2>4
<1>11. /\ Writes(a) \in Seq(Streams) /\ Len(Writes(a)) = Len(W[N]) + 2
       /\ Writes(a)[Len(W[N]) + 2] = 0 /\ Len(W[N]) \in Nat
  BY <1>2, <1>9 DEF Streams
<1>. QED  BY <1>0, <1>9, <1>10, <1>11
-----------------------------------------------------------------------------

(* The chunk that write_stream and close_stream_out leave. *)

ChunkRec == [block: Seq(BlockRec), head: [Streams -> Nat], last: [Streams -> Nat],
             pos: Nat, buf: [Streams -> Nat]]

(* The chunk when n of the units w have been written to it. *)
ChunkAt(a, w, c, n) ==
  /\ c \in ChunkRec /\ Len(c.block) <= n
  /\ \E given \in [Streams -> Nat] :
       /\ Grown(a, c, given)
       /\ \A j \in Streams : /\ Full(a, c, given, j)
                             /\ c.buf[j] < a.room[j]
                             /\ given[j] + c.buf[j] = Count(w, n, j)

(* flush_buffer leaves a chunk. *)
LEMMA FlushedTyped ==
  ASSUME NEW a, NEW m, NEW c, NEW j, NEW given,
         Grown(a, Flushed(a, m, c, j), given)
  PROVE  Flushed(a, m, c, j) \in ChunkRec
<1>. DEFINE d == Flushed(a, m, c, j)
<1>1. \E b, h, l, p, q : d = [block |-> b, head |-> h, last |-> l, pos |-> p, buf |-> q]
  BY Zenon DEF Flushed
<1>. HIDE DEF d
<1>2. /\ d.block \in Seq(BlockRec) /\ d.head \in [Streams -> Nat]
      /\ d.last \in [Streams -> Nat] /\ d.buf \in [Streams -> Nat] /\ d.pos \in Nat
  BY DEF Grown, d
<1>. QED  BY <1>1, <1>2 DEF ChunkRec, d

(* e is c with one unit more in the buffer of stream j. *)
Buffered(a, c, given, j, e) ==
  /\ e \in ChunkRec /\ Grown(a, e, given)
  /\ e.buf = [c.buf EXCEPT ![j] = @ + 1] /\ e.block = c.block
  /\ \A i \in Streams : Full(a, c, given, i) => Full(a, e, given, i)

(* Only what is in a buffer has changed. *)
LEMMA BufGrown ==
  ASSUME NEW a, NEW c \in ChunkRec, NEW given, Grown(a, c, given),
         NEW j \in Streams, NEW e, e = [c EXCEPT !.buf[j] = @ + 1]
  PROVE  Buffered(a, c, given, j, e)
<1>1. /\ e.buf = [c.buf EXCEPT ![j] = @ + 1] /\ e.block = c.block
      /\ e.head = c.head /\ e.last = c.last /\ e.pos = c.pos
      /\ e.buf \in [Streams -> Nat]
  BY DEF ChunkRec
<1>2. e \in ChunkRec
  BY <1>1 DEF ChunkRec
<1>3. \A k \in BlockNos(c) : UnitsBefore(a, e, k) = UnitsBefore(a, c, k)
                             /\ UnitsTo(a, e, k) = UnitsTo(a, c, k)
  BY <1>1 DEF UnitsBefore, UnitsTo
<1>4. BlockNos(e) = BlockNos(c) /\ \A k, i : Of(e, k, i) = Of(c, k, i)
  BY <1>1 DEF BlockNos, Of
<1>5. ASSUME NEW k \in BlockNos(c) PROVE Placed(a, e, given, k)
  <2>1. Placed(a, c, given, k)
    BY DEF Grown
  <2>. QED  BY <1>1, <1>3, <1>4, <2>1 DEF Placed
<1>6. Grown(a, e, given)
  <2>1. /\ e.block \in Seq(BlockRec) /\ e.head \in [Streams -> Nat]
        /\ e.last \in [Streams -> Nat] /\ e.buf \in [Streams -> Nat]
        /\ e.pos \in Nat \ {0} /\ given \in [Streams -> Nat]
        /\ ~a.stored => e.pos <= 2 * Len(e.block) + 2
    BY <1>1 DEF Grown
  <2>2. \A k, h \in BlockNos(e) : k < h => e.block[k].off < e.block[h].off
    BY <1>1, <1>4 DEF Grown
  <2>3. ASSUME NEW i \in Streams
        PROVE  IF e.last[i] = 0 THEN Of(e, Len(e.block), i) = 0
               ELSE /\ e.last[i] \in BlockNos(e) /\ e.block[e.last[i]].stream = i
                    /\ UnitsTo(a, e, e.last[i]) = given[i]
                    /\ \E k \in BlockNos(e) : /\ e.block[k].off = e.head[i]
                                              /\ e.block[k].stream = i
                                              /\ UnitsBefore(a, e, k) = 0
    <3>1. IF c.last[i] = 0 THEN Of(c, Len(c.block), i) = 0
          ELSE /\ c.last[i] \in BlockNos(c) /\ c.block[c.last[i]].stream = i
               /\ UnitsTo(a, c, c.last[i]) = given[i]
               /\ \E k \in BlockNos(c) : /\ c.block[k].off = c.head[i]
                                         /\ c.block[k].stream = i
                                         /\ UnitsBefore(a, c, k) = 0
      BY DEF Grown
    <3>. QED  BY <1>1, <1>3, <1>4, <3>1
  <2>. QED  BY <1>4, <1>5, <2>1, <2>2, <2>3 DEF Grown
<1>7. \A i \in Streams : Full(a, c, given, i) => Full(a, e, given, i)
  BY <1>1, <1>4 DEF Full
<1>. QED  BY <1>1, <1>2, <1>6, <1>7 DEF Buffered

(* write_stream keeps the chunk sound. *)
LEMMA WrittenChunk ==
  ASSUME NEW a, NEW m \in Modes, NEW w \in Seq(Streams), NEW n \in 1 .. Len(w),
         a.stored \in BOOLEAN, \A i \in Streams : a.room[i] \in Nat \ {0},
         NEW c, ChunkAt(a, w, c, n - 1)
  PROVE  ChunkAt(a, w, Written(a, m, c, w[n]), n)
<1>1. PICK j \in Streams : j = w[n]
  OBVIOUS
<1>2. PICK given \in [Streams -> Nat] :
        /\ Grown(a, c, given)
        /\ \A i \in Streams : /\ Full(a, c, given, i)
                              /\ c.buf[i] < a.room[i]
                              /\ given[i] + c.buf[i] = Count(w, n - 1, i)
  BY DEF ChunkAt
<1>3. c \in ChunkRec /\ Len(c.block) <= n - 1 /\ c.buf \in [Streams -> Nat]
      /\ Len(c.block) \in Nat
  <2>1. c \in ChunkRec /\ Len(c.block) <= n - 1
    BY DEF ChunkAt
  <2>2. c.buf \in [Streams -> Nat] /\ c.block \in Seq(BlockRec)
    BY <2>1 DEF ChunkRec
  <2>. QED  BY <2>1, <2>2
<1>4. ASSUME NEW i \in Streams
      PROVE  /\ Count(w, n, i) = Count(w, n - 1, i) + (IF i = j THEN 1 ELSE 0)
             /\ Count(w, n, i) \in Nat /\ Count(w, n - 1, i) \in Nat
  <2>1. n \in 0 .. Len(w) /\ n > 0 /\ n - 1 \in 0 .. Len(w)
    OBVIOUS
  <2>2. Count(w, n, i) = Count(w, n - 1, i) + (IF w[n] = i THEN 1 ELSE 0)
    BY <2>1, CountFacts, Zenon
  <2>3. Count(w, n, i) \in Nat /\ Count(w, n - 1, i) \in Nat
    BY <2>1, CountFacts, Zenon
  <2>. QED  BY <1>1, <2>2, <2>3
<1>5. PICK e : e = [c EXCEPT !.buf[j] = @ + 1]
  OBVIOUS
<1>6. /\ e \in ChunkRec /\ Grown(a, e, given)
      /\ e.buf = [c.buf EXCEPT ![j] = @ + 1] /\ e.block = c.block
      /\ \A i \in Streams : Full(a, e, given, i)
  <2>1. /\ e \in ChunkRec /\ Grown(a, e, given)
        /\ e.buf = [c.buf EXCEPT ![j] = @ + 1] /\ e.block = c.block
        /\ \A i \in Streams : Full(a, c, given, i) => Full(a, e, given, i)
    <3>1. c \in ChunkRec /\ Grown(a, c, given)
      BY <1>2, <1>3
    <3>2. Buffered(a, c, given, j, e)
      BY <1>5, <3>1, BufGrown, Zenon
    <3>. QED  BY <3>2 DEF Buffered
  <2>. QED  BY <1>2, <2>1, Zenon
<1>7. \A i \in Streams : given[i] + e.buf[i] = Count(w, n, i)
                         /\ e.buf[i] \in Nat /\ given[i] \in Nat
  <2>. TAKE i \in Streams
  <2>1. e.buf[i] = c.buf[i] + (IF i = j THEN 1 ELSE 0)
    BY <1>3, <1>6
  <2>2. given[i] \in Nat /\ c.buf[i] \in Nat
    BY <1>3
  <2>3. given[i] + c.buf[i] = Count(w, n - 1, i)
    BY <1>2
  <2>4. Count(w, n, i) = Count(w, n - 1, i) + (IF i = j THEN 1 ELSE 0)
    BY <1>4
  <2>. QED  BY <2>1, <2>2, <2>3, <2>4
<1>8. CASE e.buf[j] = a.room[j]
  <2>1. Written(a, m, c, w[n]) = Flushed(a, m, e, j)
    BY <1>1, <1>5, <1>8 DEF Written
  <2>2. PICK d, gave : d = Flushed(a, m, e, j)
                       /\ gave = [given EXCEPT ![j] = @ + e.buf[j]]
    OBVIOUS
  <2>3. /\ Grown(a, d, gave) /\ d.buf = [e.buf EXCEPT ![j] = 0]
        /\ Len(d.block) = Len(e.block) + 1
        /\ \A i \in Streams : i # j => Full(a, d, gave, i)
        /\ Full(a, d, gave, j)
    <3>1. Full(a, e, given, j)
      BY <1>6
    <3>2. /\ Grown(a, d, gave) /\ d.buf = [e.buf EXCEPT ![j] = 0]
          /\ Len(d.block) = Len(e.block) + 1
          /\ \A i \in Streams : i # j /\ Full(a, e, given, i) => Full(a, d, gave, i)
          /\ e.buf[j] = a.room[j] => Full(a, d, gave, j)
      <4>1. Grown(a, e, given) /\ d = Flushed(a, m, e, j)
            /\ gave = [given EXCEPT ![j] = @ + e.buf[j]]
        BY <1>6, <2>2
      <4>2. StillGrown(a, e, given, j, d, gave)
        BY <3>1, <4>1, FlushedGrown, Zenon
      <4>. QED  BY <4>2 DEF StillGrown
    <3>. QED  BY <1>6, <1>8, <3>2, Zenon
  <2>4. d \in ChunkRec
    BY <2>2, <2>3, FlushedTyped
  <2>5. gave \in [Streams -> Nat] /\ e.buf \in [Streams -> Nat]
    <3>1. e.buf \in [Streams -> Nat]
      BY <1>6 DEF ChunkRec
    <3>2. given[j] + e.buf[j] \in Nat
      BY <1>7
    <3>. QED  BY <2>2, <3>1, <3>2
  <2>6. \A i \in Streams : /\ Full(a, d, gave, i)
                           /\ d.buf[i] < a.room[i]
                           /\ gave[i] + d.buf[i] = Count(w, n, i)
    <3>. TAKE i \in Streams
    <3>1. CASE i = j
      <4>1. d.buf[i] = 0 /\ gave[i] = given[i] + e.buf[i]
        BY <2>2, <2>3, <2>5, <3>1
      <4>2. Count(w, n, i) \in Nat
        BY <1>4
      <4>. QED  BY <1>7, <2>3, <3>1, <4>1, <4>2
    <3>2. CASE i # j
      <4>1. d.buf[i] = e.buf[i] /\ gave[i] = given[i] /\ e.buf[i] = c.buf[i]
        BY <1>3, <1>6, <2>2, <2>3, <2>5, <3>2
      <4>. QED  BY <1>2, <1>7, <2>3, <3>2, <4>1
    <3>. QED  BY <3>1, <3>2
  <2>7. Len(d.block) <= n
    BY <1>3, <1>6, <2>3
  <2>. QED  BY <2>1, <2>2, <2>3, <2>4, <2>5, <2>6, <2>7 DEF ChunkAt
<1>9. CASE e.buf[j] # a.room[j]
  <2>1. Written(a, m, c, w[n]) = e
    BY <1>1, <1>5, <1>9 DEF Written
  <2>2. \A i \in Streams : e.buf[i] < a.room[i]
    <3>. TAKE i \in Streams
    <3>1. e.buf[i] = c.buf[i] + (IF i = j THEN 1 ELSE 0)
      BY <1>3, <1>6
    <3>2. a.room[i] \in Nat /\ c.buf[i] \in Nat /\ c.buf[i] < a.room[i]
      BY <1>2, <1>3
    <3>. QED  BY <1>9, <3>1, <3>2
  <2>3. Len(e.block) <= n
    BY <1>3, <1>6
  <2>. QED  BY <1>6, <1>7, <2>1, <2>2, <2>3 DEF ChunkAt
<1>. QED  BY <1>8, <1>9

(* The recursion in Layout. *)
IsChunk(a, m, w, N, f) ==
  f = [n \in 0 .. N |-> IF n = 0 THEN Opened ELSE Written(a, m, f[n - 1], w[n])]

(* It has a solution. *)
LEMMA LayoutDefined ==
  ASSUME NEW a, NEW m, NEW w, NEW N \in Nat
  PROVE  \E f : IsChunk(a, m, w, N, f)
<1>. DEFINE D(x) == \E f : f = [n \in 0 .. x |-> IF n = 0 THEN Opened
                                                 ELSE Written(a, m, f[n - 1], w[n])]
            G == {x \in Nat : D(x)}
<1>1. D(0)
  <2>. DEFINE f == [n \in 0 .. 0 |-> Opened]
  <2>1. f = [n \in 0 .. 0 |-> IF n = 0 THEN Opened ELSE Written(a, m, f[n - 1], w[n])]
    OBVIOUS
  <2>. QED  BY <2>1
<1>2. ASSUME NEW x \in Nat, D(x) PROVE D(x + 1)
  <2>1. PICK f : f = [n \in 0 .. x |-> IF n = 0 THEN Opened
                                       ELSE Written(a, m, f[n - 1], w[n])]
    BY <1>2
  <2>. DEFINE g == [n \in 0 .. x + 1 |->
                      IF n = x + 1 THEN Written(a, m, f[x], w[x + 1]) ELSE f[n]]
  <2>2. ASSUME NEW n \in 0 .. x + 1
        PROVE  g[n] = IF n = 0 THEN Opened ELSE Written(a, m, g[n - 1], w[n])
    <3>1. CASE n = x + 1
      <4>1. n # 0 /\ n - 1 = x /\ x \in 0 .. x + 1 /\ x # x + 1
        BY <3>1
      <4>. QED  BY <3>1, <4>1
    <3>2. CASE n # x + 1
      <4>1. n \in 0 .. x /\ g[n] = f[n]
        BY <3>2
      <4>2. n # 0 => n - 1 \in 0 .. x + 1 /\ n - 1 # x + 1 /\ g[n - 1] = f[n - 1]
        BY <3>2
      <4>3. f[n] = IF n = 0 THEN Opened ELSE Written(a, m, f[n - 1], w[n])
        BY <2>1, <4>1
      <4>. HIDE DEF g
      <4>. QED  BY <4>1, <4>2, <4>3
    <3>. QED  BY <3>1, <3>2
  <2>3. g = [n \in 0 .. x + 1 |-> IF n = 0 THEN Opened
                                  ELSE Written(a, m, g[n - 1], w[n])]
    BY <2>2
  <2>. HIDE DEF g
  <2>. QED  BY <2>3
<1>3. Nat \subseteq G
  <2>1. 0 \in G /\ \A x \in Nat : x \in G => x + 1 \in G
    <3>. HIDE DEF D
    <3>. QED  BY <1>1, <1>2
  <2>. HIDE DEF G
  <2>. QED  BY <2>1, SetInduction
<1>4. D(N)
  <2>. HIDE DEF D
  <2>. QED  BY <1>3
<1>. QED  BY <1>4 DEF IsChunk

(* open_stream_out leaves a chunk without blocks. *)
LEMMA OpenedChunk ==
  ASSUME NEW a, \A i \in Streams : a.room[i] \in Nat \ {0},
         NEW w \in Seq(Streams)
  PROVE  ChunkAt(a, w, Opened, 0)
<1>. DEFINE none == [j \in Streams |-> 0]
<1>1. /\ Opened.block = << >> /\ Opened.head = none /\ Opened.last = none
      /\ Opened.pos = 2 /\ Opened.buf = none
      /\ Opened = [block |-> << >>, head |-> none, last |-> none, pos |-> 2,
                   buf |-> none]
  BY DEF Opened, HeadLen
<1>2. none \in [Streams -> Nat] /\ \A j \in Streams : none[j] = 0
  OBVIOUS
<1>. HIDE DEF none
<1>3. << >> \in Seq(BlockRec) /\ Len(<< >>) = 0 /\ BlockNos(Opened) = {}
  BY <1>1 DEF BlockNos
<1>4. Opened \in ChunkRec
  BY <1>1, <1>2, <1>3 DEF ChunkRec
<1>5. \A j \in Streams : Of(Opened, 0, j) = 0 /\ Count(w, 0, j) = 0
  <2>. TAKE j \in Streams
  <2>1. Opened.block \in Seq(BlockRec) /\ 0 \in 0 .. Len(Opened.block)
        /\ 0 \in 0 .. Len(w)
    BY <1>1, <1>3
  <2>. QED  BY <2>1, OfFacts, CountFacts, Zenon
<1>6. Grown(a, Opened, none)
  BY <1>1, <1>2, <1>3, <1>5 DEF Grown
<1>7. \A j \in Streams : /\ Full(a, Opened, none, j)
                         /\ Opened.buf[j] < a.room[j]
                         /\ none[j] + Opened.buf[j] = Count(w, 0, j)
  <2>. TAKE j \in Streams
  <2>1. a.room[j] \in Nat /\ a.room[j] > 0 /\ a.room[j] * 0 = 0
    OBVIOUS
  <2>2. Full(a, Opened, none, j)
    BY <1>1, <1>2, <1>3, <1>5, <2>1 DEF Full
  <2>. QED  BY <1>1, <1>2, <1>5, <2>1, <2>2
<1>8. Len(Opened.block) <= 0
  BY <1>1, <1>3
<1>. QED  BY <1>2, <1>4, <1>6, <1>7, <1>8 DEF ChunkAt

(* All N writes are in blocks of both streams. *)
Whole(a, w, N, d) ==
  \E given \in [Streams -> Nat] :
    /\ Grown(a, d, given) /\ Len(d.block) <= N + 2
    /\ \A j \in Streams : d.last[j] # 0 /\ given[j] = Count(w, N, j)

(* When both buffers have been flushed, all that was written is in blocks.  *)
LEMMA ClosedChunk ==
  ASSUME NEW a, NEW m \in Modes, NEW w \in Seq(Streams), NEW N, N = Len(w),
         a.stored \in BOOLEAN, \A i \in Streams : a.room[i] \in Nat \ {0},
         NEW c, ChunkAt(a, w, c, N),
         NEW d, d = Flushed(a, m, Flushed(a, m, c, 0), 1)
  PROVE  Whole(a, w, N, d)
<1>1. PICK given \in [Streams -> Nat] :
        /\ Grown(a, c, given)
        /\ \A j \in Streams : /\ Full(a, c, given, j)
                              /\ c.buf[j] < a.room[j]
                              /\ given[j] + c.buf[j] = Count(w, N, j)
  BY DEF ChunkAt
<1>2. PICK b, gave : /\ b = Flushed(a, m, c, 0)
                     /\ gave = [given EXCEPT ![0] = @ + c.buf[0]]
  OBVIOUS
<1>3. StillGrown(a, c, given, 0, b, gave)
  <2>1. Grown(a, c, given) /\ Full(a, c, given, 0) /\ 0 \in Streams
    BY <1>1 DEF Streams
  <2>. QED  BY <1>2, <2>1, FlushedGrown, Zenon
<1>4. PICK last : last = [gave EXCEPT ![1] = @ + b.buf[1]]
  OBVIOUS
<1>5. StillGrown(a, b, gave, 1, d, last)
  <2>1. Grown(a, b, gave) /\ Full(a, b, gave, 1) /\ 1 \in Streams
    BY <1>1, <1>3 DEF Streams, StillGrown
  <2>2. d = Flushed(a, m, b, 1)
    BY <1>2
  <2>. QED  BY <1>4, <2>1, <2>2, FlushedGrown, Zenon
<1>6. /\ c.buf \in [Streams -> Nat] /\ b.buf = [c.buf EXCEPT ![0] = 0]
      /\ gave \in [Streams -> Nat] /\ last \in [Streams -> Nat]
      /\ b.last[0] # 0 /\ d.last[1] # 0 /\ d.last[0] # 0
      /\ Len(d.block) = Len(b.block) + 1 /\ Len(b.block) = Len(c.block) + 1
      /\ Grown(a, d, last)
  <2>1. c.buf \in [Streams -> Nat]
    BY <1>1 DEF Grown
  <2>2. gave \in [Streams -> Nat] /\ last \in [Streams -> Nat]
    BY <1>3, <1>5 DEF StillGrown, Grown
  <2>. QED  BY <1>3, <1>5, <2>1, <2>2 DEF StillGrown, Streams
<1>7. last[0] = Count(w, N, 0) /\ last[1] = Count(w, N, 1)
  <2>1. last[0] = given[0] + c.buf[0] /\ last[1] = given[1] + c.buf[1]
    BY <1>2, <1>4, <1>6 DEF Streams
  <2>. QED  BY <1>1, <2>1 DEF Streams
<1>8. Len(d.block) <= N + 2
  <2>1. Len(c.block) <= N /\ c.block \in Seq(BlockRec)
    BY <1>1 DEF ChunkAt, Grown
  <2>2. Len(c.block) \in Nat /\ N \in Nat
    BY <2>1
  <2>. QED  BY <1>6, <2>1, <2>2
<1>. QED  BY <1>6, <1>7, <1>8 DEF Streams, Whole

(* The blocks of such a chunk, as those of a layout. *)
LEMMA BlocksSound ==
  ASSUME NEW a, a.stored \in BOOLEAN, \A i \in Streams : a.room[i] \in Nat \ {0},
         NEW w, w = Writes(a), NEW N \in Nat, N = Len(w),
         NEW d, NEW given \in [Streams -> Nat],
         Grown(a, d, given), Len(d.block) <= N + 2,
         \A j \in Streams : d.last[j] # 0 /\ given[j] = Count(w, N, j),
         NEW l, l.block = d.block, l.head = d.head, l.size \in Nat,
         2 * (N + 2) <= l.size
  PROVE  /\ Len(l.block) \in Nat
         /\ \A k \in BlockNos(l) : BlockSound(a, l, k)
         /\ \A k, h \in BlockNos(l) : l.block[k].off = l.block[h].off => k = h
         /\ \A j \in Streams :
              \E k \in BlockNos(l) : /\ l.block[k].off = l.head[j]
                                     /\ l.block[k].stream = j
                                     /\ UnitsBefore(a, l, k) = 0
<1>1. d.block \in Seq(BlockRec) /\ Len(l.block) \in Nat /\ BlockNos(l) = BlockNos(d)
  BY DEF Grown, BlockNos
<1>2. \A k \in BlockNos(d) : UnitsBefore(a, l, k) = UnitsBefore(a, d, k)
                             /\ UnitsTo(a, l, k) = UnitsTo(a, d, k)
  BY DEF UnitsBefore, UnitsTo
<1>3. \A k \in BlockNos(d) :
        /\ d.block[k].stream \in Streams /\ d.block[k].units \in Nat
        /\ d.block[k].off \in Nat /\ d.block[k].u_len \in Nat
        /\ d.block[k].c_len \in Nat /\ d.block[k].last_head \in Nat
        /\ UnitsBefore(a, d, k) \in Nat /\ UnitsTo(a, d, k) \in Nat
  BY <1>1, UnitsTyped
<1>4. \A j \in Streams : Total(a, j) = given[j]
  BY DEF Total
<1>5. ASSUME NEW k \in BlockNos(d) PROVE BlockSound(a, l, k)
  <2>. DEFINE b == d.block[k]
              j == d.block[k].stream
  <2>1. Placed(a, d, given, k)
    BY DEF Grown
  <2>2. j \in Streams
    BY <1>3
  <2>3. ASSUME b.last_head = 0 PROVE UnitsTo(a, l, k) = Total(a, j)
    <3>1. k = d.last[j]
      BY <2>1, <2>3 DEF Placed
    <3>2. UnitsTo(a, d, d.last[j]) = given[j]
      BY <2>2 DEF Grown
    <3>. QED  BY <1>2, <1>4, <2>2, <3>1, <3>2
  <2>4. ASSUME b.last_head # 0
        PROVE  /\ b.units > 0
               /\ \E h \in BlockNos(l) :
                    /\ b.last_head = l.block[h].off /\ b.last_head > b.off
                    /\ l.block[h].stream = j
                    /\ UnitsBefore(a, l, h) = UnitsTo(a, l, k)
               /\ ~a.stored => b.last_head <= l.size
    <3>1. PICK h \in BlockNos(d) :
            /\ b.last_head = d.block[h].off /\ b.last_head > b.off
            /\ d.block[h].stream = j
            /\ UnitsBefore(a, d, h) = UnitsTo(a, d, k)
      BY <2>1, <2>4 DEF Placed
    <3>2. b.units > 0
      BY <2>1, <2>4 DEF Placed
    <3>3. ASSUME ~a.stored PROVE b.last_head <= l.size
      <4>1. Placed(a, d, given, h)
        BY DEF Grown
      <4>2. d.block[h].off <= 2 * h
        BY <3>3, <4>1 DEF Placed
      <4>3. h \in Nat /\ h <= N + 2
        BY <1>1 DEF BlockNos
      <4>4. d.block[h].off \in Nat
        BY <1>3
      <4>. HIDE DEF b
      <4>. QED  BY <3>1, <4>2, <4>3, <4>4
    <3>. QED  BY <1>1, <1>2, <3>1, <3>2, <3>3
  <2>5. /\ b.off > 0 /\ b.u_len = b.units * UnitLen(j)
        /\ b.c_len = 0 <=> b.units = 0
        /\ UnitsTo(a, d, k) <= given[j]
    BY <2>1 DEF Placed
  <2>6. /\ j \in Streams /\ b.units \in Nat /\ b.off \in Nat /\ b.c_len \in Nat
        /\ UnitsBefore(a, d, k) \in Nat
    BY <1>3
  <2>7. b.off # 0
    BY <2>5, <2>6
  <2>8. l.block[k] = b
    OBVIOUS
  <2>9. UnitsTo(a, l, k) <= Total(a, j) /\ UnitsBefore(a, l, k) \in Nat
    BY <1>2, <1>4, <2>5, <2>6
  <2>. HIDE DEF b
  <2>. QED  BY <2>3, <2>4, <2>5, <2>6, <2>7, <2>8, <2>9 DEF BlockSound, b
<1>6. ASSUME NEW k \in BlockNos(d), NEW h \in BlockNos(d),
             d.block[k].off = d.block[h].off
      PROVE  k = h
  <2>1. k \in Nat /\ h \in Nat
    BY <1>1 DEF BlockNos
  <2>2. k < h => d.block[k].off < d.block[h].off
    BY DEF Grown
  <2>3. h < k => d.block[h].off < d.block[k].off
    BY DEF Grown
  <2>. QED  BY <1>3, <1>6, <2>1, <2>2, <2>3
<1>7. ASSUME NEW j \in Streams
      PROVE  \E k \in BlockNos(l) : /\ l.block[k].off = l.head[j]
                                    /\ l.block[k].stream = j
                                    /\ UnitsBefore(a, l, k) = 0
  <2>1. PICK k \in BlockNos(d) : /\ d.block[k].off = d.head[j]
                                 /\ d.block[k].stream = j
                                 /\ UnitsBefore(a, d, k) = 0
    BY DEF Grown
  <2>. QED  BY <1>1, <1>2, <2>1
<1>. QED  BY <1>1, <1>5, <1>6, <1>7

(* What runzip_chunk reads is what was written, but for the checksum. *)
LEMMA ReadsFacts ==
  ASSUME NEW a, NEW m, m.hash \in BOOLEAN,
         NEW w \in Seq(Streams), w = Writes(a), Len(w) > 0, w[Len(w)] = 0,
         NEW r, r = Reads(a, m)
  PROVE  /\ r \in Seq(Streams)
         /\ \A j \in Streams : Count(r, Len(r), j) <= Count(w, Len(w), j)
         /\ Count(r, Len(r), 1) = Count(w, Len(w), 1)
<1>. DEFINE N == Len(w)
<1>1. N \in Nat /\ N > 0 /\ N - 1 \in 0 .. N /\ N \in 0 .. N
  OBVIOUS
<1>2. CASE m.hash
  <2>1. r = SubSeq(w, 1, N - 1)
    BY <1>2 DEF Reads
  <2>2. r \in Seq(Streams) /\ Len(r) = N - 1 /\ \A i \in 1 .. N - 1 : r[i] = w[i]
    <3>1. 1 \in 1 .. Len(w) + 1 /\ N - 1 \in 1 - 1 .. Len(w)
      BY <1>1
    <3>2. /\ SubSeq(w, 1, N - 1) \in Seq(Streams)
          /\ Len(SubSeq(w, 1, N - 1)) = N - 1
          /\ \A i \in 1 .. N - 1 : SubSeq(w, 1, N - 1)[i] = w[i]
      <4>. HIDE DEF N
      <4>1. \A i \in 1 .. N - 1 : w[i] \in Streams
        BY <1>1 DEF N
      <4>2. PICK z \in Int : z = N - 1
        BY <1>1
      <4>3. /\ SubSeq(w, 1, z) \in Seq(Streams)
            /\ Len(SubSeq(w, 1, z)) = IF 1 <= z THEN z - 1 + 1 ELSE 0
            /\ \A i \in 1 .. z - 1 + 1 : SubSeq(w, 1, z)[i] = w[1 + i - 1]
        BY <4>1, <4>2, SubSeqProperties
      <4>. QED  BY <1>1, <4>2, <4>3
    <3>. QED  BY <2>1, <3>2
  <2>3. \A j \in Streams : Count(r, N - 1, j) = Count(w, N - 1, j)
    <3>. TAKE j \in Streams
    <3>1. {i \in 1 .. N - 1 : r[i] = j} = {i \in 1 .. N - 1 : w[i] = j}
      BY <2>2
    <3>. QED  BY <3>1 DEF Count
  <2>4. \A j \in Streams :
          /\ Count(w, N, j) = Count(w, N - 1, j) + (IF w[N] = j THEN 1 ELSE 0)
          /\ Count(w, N - 1, j) \in Nat
    <3>. TAKE j \in Streams
    <3>. HIDE DEF N
    <3>1. N - 1 \in 0 .. Len(w) /\ N \in 0 .. Len(w) /\ N > 0
      BY <1>1 DEF N
    <3>. QED  BY <3>1, CountFacts, ZenonT(30)
  <2>5. w[N] = 0
    OBVIOUS
  <2>. HIDE DEF N
  <2>. QED  BY <2>2, <2>3, <2>4, <2>5 DEF N, Streams
<1>3. CASE ~m.hash
  <2>1. r = w
    BY <1>3 DEF Reads
  <2>2. \A j \in Streams : Count(w, N, j) \in Nat
    <3>. TAKE j \in Streams
    <3>. HIDE DEF N
    <3>1. N \in 0 .. Len(w)
      BY <1>1 DEF N
    <3>. QED  BY <3>1, CountFacts, Zenon
  <2>. QED  BY <2>1, <2>2
<1>. QED  BY <1>2, <1>3

(* What close_stream_out leaves. *)
LayoutSound ==
  \A a \in Archives, m \in Modes : ChunkSound(a, Layout(a, m), Reads(a, m))

(* Every chunk that is written is sound: in both streams each header points *)
(* to the block that continues its stream, up to the last unit that was     *)
(* written, and a chunk that could be compressed has no header that         *)
(* fill_buffer would take for invalid.                                      *)
THEOREM ChunksSound == LayoutSound
<1>. SUFFICES ASSUME NEW a \in Archives, NEW m \in Modes
              PROVE  ChunkSound(a, Layout(a, m), Reads(a, m))
  BY DEF LayoutSound
<1>0. /\ ArchiveOK(a) /\ a.stored \in BOOLEAN /\ m.hash \in BOOLEAN
      /\ \A i \in Streams : a.room[i] \in Nat \ {0}
  BY ArchivesAssumption, InModesAssumption DEF ArchiveOK, ModeOK, Streams
<1>1. PICK w, L, M : /\ w = Writes(a)
                     /\ L = Count(a.ops, Len(a.ops), "lit")
                     /\ M = Count(a.ops, Len(a.ops), "match")
  OBVIOUS
<1>2. /\ w \in Seq(Streams) /\ Len(w) > 0 /\ w[Len(w)] = 0
      /\ Len(w) <= 2 * L + M + 2 /\ L \in Nat \ {0} /\ M \in Nat
  <2>1. /\ w \in Seq(Streams) /\ Len(w) \in Nat \ {0} /\ w[Len(w)] = 0
        /\ Len(w) <= 2 * L + M + 2 /\ L \in Nat \ {0} /\ M \in Nat
    BY <1>0, <1>1, WritesFacts
  <2>. QED  BY <2>1
<1>3. PICK N \in Nat : N = Len(w)
  BY <1>2
<1>. DEFINE f == CHOOSE f : f = [n \in 0 .. N |-> IF n = 0 THEN Opened
                                                  ELSE Written(a, m, f[n - 1], w[n])]
<1>4. f = [n \in 0 .. N |-> IF n = 0 THEN Opened ELSE Written(a, m, f[n - 1], w[n])]
  <2>1. \E g : g = [n \in 0 .. N |-> IF n = 0 THEN Opened
                                     ELSE Written(a, m, g[n - 1], w[n])]
    <3>1. \E g : IsChunk(a, m, w, N, g)
      BY LayoutDefined
    <3>. QED  BY <3>1 DEF IsChunk
  <2>. QED  BY <2>1
<1>5. PICK d, l : d = Flushed(a, m, Flushed(a, m, f[N], 0), 1) /\ l = Layout(a, m)
  OBVIOUS
<1>6. l.block = d.block /\ l.head = d.head /\ l.size = L * UnitLen(1) + M * MatchLen
  BY <1>1, <1>3, <1>5 DEF Layout, Count
<1>. HIDE DEF f
<1>7. ChunkAt(a, w, f[N], N)
  <2>. DEFINE G == {n \in Nat : n <= N => ChunkAt(a, w, f[n], n)}
  <2>1. 0 \in G
    <3>1. f[0] = Opened
      BY <1>4
    <3>2. ChunkAt(a, w, Opened, 0)
      BY <1>0, <1>2, OpenedChunk, Zenon
    <3>. QED  BY <3>1, <3>2
  <2>2. ASSUME NEW n \in Nat, n \in G PROVE n + 1 \in G
    <3>. SUFFICES ASSUME n + 1 <= N PROVE ChunkAt(a, w, f[n + 1], n + 1)
      OBVIOUS
    <3>1. n <= N /\ n + 1 \in 0 .. N /\ n + 1 # 0 /\ (n + 1) - 1 = n
          /\ n + 1 \in 1 .. Len(w)
      BY <1>3
    <3>2. f[n + 1] = Written(a, m, f[(n + 1) - 1], w[n + 1])
      BY <1>4, <3>1
    <3>3. ChunkAt(a, w, f[n], (n + 1) - 1)
      BY <2>2, <3>1
    <3>4. ChunkAt(a, w, Written(a, m, f[n], w[n + 1]), n + 1)
      BY <1>0, <1>2, <3>1, <3>3, WrittenChunk, Zenon
    <3>. QED  BY <3>1, <3>2, <3>4
  <2>3. Nat \subseteq G
    <3>. HIDE DEF G
    <3>. QED  BY <2>1, <2>2, SetInduction
  <2>4. N \in G /\ N <= N
    BY <2>3
  <2>. QED  BY <2>4
<1>8. PICK given \in [Streams -> Nat] :
        /\ Grown(a, d, given) /\ Len(d.block) <= N + 2
        /\ \A j \in Streams : d.last[j] # 0 /\ given[j] = Count(w, N, j)
  <2>1. PICK c : c = f[N] /\ ChunkAt(a, w, c, N)
    BY <1>7
  <2>2. d = Flushed(a, m, Flushed(a, m, c, 0), 1)
    BY <1>5, <2>1
  <2>3. Whole(a, w, N, d)
    BY <1>0, <1>2, <1>3, <2>1, <2>2, ClosedChunk, Zenon
  <2>. QED  BY <2>3 DEF Whole
<1>9. l.size \in Nat /\ 2 * (N + 2) <= l.size
  <2>1. l.size = 32 * L + 64 * M
    BY <1>2, <1>6 DEF UnitLen, MatchLen
  <2>. QED  BY <1>2, <1>3, <2>1
<1>10. /\ Len(l.block) \in Nat
       /\ \A k \in BlockNos(l) : BlockSound(a, l, k)
       /\ \A k, h \in BlockNos(l) : l.block[k].off = l.block[h].off => k = h
       /\ \A j \in Streams :
            \E k \in BlockNos(l) : /\ l.block[k].off = l.head[j]
                                   /\ l.block[k].stream = j
                                   /\ UnitsBefore(a, l, k) = 0
  BY <1>0, <1>1, <1>3, <1>6, <1>8, <1>9, BlocksSound, SMTT(30)
<1>11. PICK r : r = Reads(a, m)
  OBVIOUS
<1>12. /\ r \in Seq(Streams)
       /\ \A j \in Streams : Count(r, Len(r), j) <= Count(w, Len(w), j)
       /\ Count(r, Len(r), 1) = Count(w, Len(w), 1)
  BY <1>0, <1>1, <1>2, <1>11, ReadsFacts
<1>13. \A j \in Streams : Total(a, j) = Count(w, Len(w), j) /\ Total(a, j) \in Nat
  BY <1>1, <1>3, <1>8 DEF Total
<1>. QED  BY <1>5, <1>9, <1>10, <1>11, <1>12, <1>13 DEF ChunkSound, Streams
-----------------------------------------------------------------------------
(* Where the blocks of a chunk are that is not encrypted. *)

(* Block h is the next one of the stream of block k.                        *)
NextOf(c, k, h) ==
  /\ h \in BlockNos(c) /\ h > k /\ c.block[h].stream = c.block[k].stream
  /\ \A i \in k + 1 .. h - 1 : c.block[i].stream # c.block[k].stream

(* Block k is the first one of stream j. *)
FirstOf(c, j, k) ==
  /\ k \in BlockNos(c) /\ c.block[k].stream = j
  /\ \A i \in 1 .. k - 1 : c.block[i].stream # j

(* The blocks lie one behind the other, up to p. *)
Tiled(c, p) ==
  /\ IF Len(c.block) = 0 THEN p = 2 * HeadLen ELSE c.block[1].off = 2 * HeadLen
  /\ \A k \in BlockNos(c) :
       c.block[k].off + HeadLen + c.block[k].c_len
         = IF k = Len(c.block) THEN p ELSE c.block[k + 1].off

(* Each header points to the next block of its stream. *)
NextLinked(c) ==
  \A k \in BlockNos(c) :
    c.block[k].last_head # 0 => \E h : NextOf(c, k, h) /\ c.block[h].off = c.block[k].last_head

(* As it grows. *)
Laid(c) ==
  /\ Tiled(c, c.pos) /\ NextLinked(c)
  /\ \A k \in BlockNos(c) : k <= c.last[c.block[k].stream]
  /\ \A j \in Streams :
       c.last[j] # 0 => \E k : FirstOf(c, j, k) /\ c.block[k].off = c.head[j]

(* When it is closed. *)
ChainsSound(l) ==
  /\ l.block \in Seq(BlockRec) /\ Tiled(l, l.end) /\ NextLinked(l)
  /\ \A k \in BlockNos(l) :
       l.block[k].last_head = 0 =>
         \A i \in k + 1 .. Len(l.block) : l.block[i].stream # l.block[k].stream
  /\ \A j \in Streams : \E k : FirstOf(l, j, k) /\ l.block[k].off = l.head[j]

(* flush_buffer puts a block behind the others and makes the last header of *)
(* its stream point to it.                                                  *)
LEMMA FlushedLaid ==
  ASSUME NEW a, NEW m \in Modes, NEW c, NEW given, NEW j \in Streams,
         a.stored \in BOOLEAN, ~m.encrypt, Grown(a, c, given), Laid(c),
         NEW d, d = Flushed(a, m, c, j)
  PROVE  Laid(d)
<1>1. PICK n : n = Len(c.block)
  OBVIOUS
<1>2. FlushedTo(a, c, j, d, n) /\ d.pos = c.pos + HeadLen + d.block[n + 1].c_len
  <2>1. FlushedTo(a, c, j, d, n)
    BY <1>1, FlushedParts, Zenon
  <2>2. d.pos = c.pos + HeadLen + d.block[n + 1].c_len
    BY <1>1, FlushedParts, SMTT(15)
  <2>. QED  BY <2>1, <2>2
<1>3. /\ n \in Nat /\ Len(d.block) = n + 1 /\ BlockNos(c) = 1 .. n
      /\ BlockNos(d) = 1 .. n + 1
  BY <1>1, <1>2 DEF FlushedTo, BlockNos
<1>4. \A k \in 1 .. n :
        /\ d.block[k].stream = c.block[k].stream
        /\ d.block[k].off = c.block[k].off /\ d.block[k].c_len = c.block[k].c_len
        /\ d.block[k].last_head = IF k = c.last[j] THEN c.pos ELSE c.block[k].last_head
  BY <1>2 DEF FlushedTo
<1>5. /\ d.block[n + 1].stream = j /\ d.block[n + 1].off = c.pos
      /\ d.block[n + 1].last_head = 0
      /\ d.head = IF c.last[j] = 0 THEN [c.head EXCEPT ![j] = c.pos] ELSE c.head
      /\ d.last = [c.last EXCEPT ![j] = n + 1]
  BY <1>2 DEF FlushedTo
<1>6. /\ c.head \in [Streams -> Nat] /\ c.last \in [Streams -> Nat]
      /\ \A i \in Streams : c.last[i] # 0 =>
           c.last[i] \in 1 .. n /\ c.block[c.last[i]].stream = i
      /\ \A k \in 1 .. n : c.block[k].stream \in Streams
      /\ \A k \in 1 .. n : c.block[k].last_head = 0 => k = c.last[c.block[k].stream]
  <2>1. c.head \in [Streams -> Nat] /\ c.last \in [Streams -> Nat]
    BY DEF Grown
  <2>2. \A i \in Streams : c.last[i] # 0 =>
           c.last[i] \in 1 .. n /\ c.block[c.last[i]].stream = i
    BY <1>3 DEF Grown
  <2>3. \A k \in 1 .. n : c.block[k].stream \in Streams
    <3>1. \A k \in 1 .. n : c.block[k] \in BlockRec
      BY <1>1 DEF Grown
    <3>. QED  BY <3>1 DEF BlockRec
  <2>4. \A k \in 1 .. n : c.block[k].last_head = 0 => k = c.last[c.block[k].stream]
    BY <1>3 DEF Grown, Placed
  <2>. QED  BY <2>1, <2>2, <2>3, <2>4
<1>7. \A k \in 1 .. n : k <= c.last[c.block[k].stream]
  BY <1>3 DEF Laid
<1>8. Tiled(d, d.pos)
  <2>1. d.block[1].off = 2 * HeadLen
    <3>1. CASE n = 0
      BY <1>1, <1>5, <3>1 DEF Laid, Tiled
    <3>2. CASE n # 0
      <4>1. 1 \in 1 .. n
        BY <1>3, <3>2
      <4>2. c.block[1].off = 2 * HeadLen
        BY <1>1, <3>2 DEF Laid, Tiled
      <4>. QED  BY <1>4, <4>1, <4>2
    <3>. QED  BY <3>1, <3>2
  <2>2. ASSUME NEW k \in 1 .. n
        PROVE  d.block[k].off + HeadLen + d.block[k].c_len = d.block[k + 1].off
    <3>1. c.block[k].off + HeadLen + c.block[k].c_len
            = IF k = n THEN c.pos ELSE c.block[k + 1].off
      BY <1>1, <1>3 DEF Laid, Tiled
    <3>2. d.block[k + 1].off = IF k = n THEN c.pos ELSE c.block[k + 1].off
      <4>1. CASE k = n
        BY <1>5, <4>1
      <4>2. CASE k # n
        <5>1. k + 1 \in 1 .. n
          BY <1>3, <4>2
        <5>. QED  BY <1>4, <4>2, <5>1
      <4>. QED  BY <4>1, <4>2
    <3>. QED  BY <1>4, <3>1, <3>2
  <2>3. ASSUME NEW k \in 1 .. n + 1
        PROVE  d.block[k].off + HeadLen + d.block[k].c_len
                 = IF k = n + 1 THEN d.pos ELSE d.block[k + 1].off
    <3>1. CASE k = n + 1
      BY <1>2, <1>5, <3>1
    <3>2. CASE k # n + 1
      <4>1. k \in 1 .. n
        BY <1>3, <3>2
      <4>. QED  BY <2>2, <3>2, <4>1
    <3>. QED  BY <3>1, <3>2
  <2>4. n + 1 # 0
    BY <1>3
  <2>. QED  BY <1>3, <2>1, <2>3, <2>4 DEF Tiled
<1>9. \A k \in 1 .. n + 1 : k <= d.last[d.block[k].stream]
  <2>. TAKE k \in 1 .. n + 1
  <2>1. CASE k = n + 1
    BY <1>3, <1>5, <1>6, <2>1
  <2>2. CASE k # n + 1
    <3>1. k \in 1 .. n
      BY <1>3, <2>2
    <3>2. d.last[d.block[k].stream] = IF c.block[k].stream = j THEN n + 1
                                      ELSE c.last[c.block[k].stream]
      BY <1>4, <1>5, <1>6, <3>1
    <3>3. k <= c.last[c.block[k].stream] /\ k <= n + 1
      BY <1>3, <1>7, <3>1
    <3>. QED  BY <3>2, <3>3
  <2>. QED  BY <2>1, <2>2
<1>10. NextLinked(d)
  <2>. SUFFICES ASSUME NEW k \in 1 .. n + 1, d.block[k].last_head # 0
                PROVE  \E h : NextOf(d, k, h) /\ d.block[h].off = d.block[k].last_head
    BY <1>3 DEF NextLinked
  <2>1. k \in 1 .. n
    BY <1>3, <1>5
  <2>2. CASE k = c.last[j]
    <3>1. c.block[k].stream = j
      BY <1>6, <2>1, <2>2
    <3>2. ASSUME NEW i \in k + 1 .. n PROVE d.block[i].stream # j
      <4>1. i \in 1 .. n /\ ~(i <= k)
        BY <1>3, <2>1
      <4>. QED  BY <1>4, <1>7, <2>2, <4>1
    <3>3. NextOf(d, k, n + 1)
      <4>1. (n + 1) - 1 = n /\ n + 1 \in 1 .. n + 1 /\ n + 1 > k
        BY <1>3, <2>1
      <4>. QED  BY <1>3, <1>4, <1>5, <2>1, <3>1, <3>2, <4>1 DEF NextOf
    <3>. QED  BY <1>4, <1>5, <2>1, <2>2, <3>3
  <2>3. CASE k # c.last[j]
    <3>1. c.block[k].last_head = d.block[k].last_head
      BY <1>4, <2>1, <2>3
    <3>2. PICK h : NextOf(c, k, h) /\ c.block[h].off = c.block[k].last_head
      BY <1>3, <2>1, <3>1 DEF Laid, NextLinked
    <3>3. h \in 1 .. n /\ h > k /\ h \in 1 .. n + 1
      BY <1>3, <3>2 DEF NextOf
    <3>4. ASSUME NEW i \in k + 1 .. h - 1 PROVE d.block[i].stream # d.block[k].stream
      <4>1. i \in 1 .. n
        BY <1>3, <2>1, <3>3
      <4>2. c.block[i].stream # c.block[k].stream
        BY <3>2 DEF NextOf
      <4>. QED  BY <1>4, <2>1, <4>1, <4>2
    <3>5. NextOf(d, k, h)
      <4>1. c.block[h].stream = c.block[k].stream
        BY <3>2 DEF NextOf
      <4>. QED  BY <1>3, <1>4, <2>1, <3>3, <3>4, <4>1 DEF NextOf
    <3>. QED  BY <1>4, <3>1, <3>2, <3>3, <3>5
  <2>. QED  BY <2>2, <2>3
<1>11. ASSUME NEW i \in Streams, d.last[i] # 0
       PROVE  \E k : FirstOf(d, i, k) /\ d.block[k].off = d.head[i]
  <2>1. CASE c.last[i] = 0
    <3>1. i = j
      BY <1>5, <1>6, <1>11, <2>1
    <3>2. ASSUME NEW k \in 1 .. n PROVE d.block[k].stream # j
      <4>1. k <= c.last[c.block[k].stream] /\ ~(k <= 0)
        BY <1>3, <1>7
      <4>. QED  BY <1>4, <2>1, <3>1, <4>1
    <3>3. FirstOf(d, j, n + 1)
      <4>1. (n + 1) - 1 = n /\ n + 1 \in 1 .. n + 1
        BY <1>3
      <4>. QED  BY <1>3, <1>5, <3>2, <4>1 DEF FirstOf
    <3>4. d.head[j] = c.pos
      BY <1>5, <1>6, <2>1, <3>1
    <3>. QED  BY <1>5, <3>1, <3>3, <3>4
  <2>2. CASE c.last[i] # 0
    <3>1. PICK k : FirstOf(c, i, k) /\ c.block[k].off = c.head[i]
      BY <2>2 DEF Laid
    <3>2. k \in 1 .. n /\ k \in 1 .. n + 1 /\ c.block[k].stream = i
      BY <1>3, <3>1 DEF FirstOf
    <3>3. ASSUME NEW x \in 1 .. k - 1 PROVE d.block[x].stream # i
      <4>1. x \in 1 .. n
        BY <1>3, <3>2
      <4>2. c.block[x].stream # i
        BY <3>1 DEF FirstOf
      <4>. QED  BY <1>4, <4>1, <4>2
    <3>4. FirstOf(d, i, k)
      BY <1>3, <1>4, <3>2, <3>3 DEF FirstOf
    <3>5. d.head[i] = c.head[i]
      <4>1. CASE c.last[j] = 0
        BY <1>5, <1>6, <2>2, <4>1
      <4>2. CASE c.last[j] # 0
        BY <1>5, <4>2
      <4>. QED  BY <4>1, <4>2
    <3>. QED  BY <1>4, <3>1, <3>2, <3>4, <3>5
  <2>. QED  BY <2>1, <2>2
<1>. QED  BY <1>3, <1>8, <1>9, <1>10, <1>11 DEF Laid
(* write_stream leaves the blocks so. *)
LEMMA WrittenLaid ==
  ASSUME NEW a, NEW m \in Modes, NEW c \in ChunkRec, NEW given, NEW j \in Streams,
         a.stored \in BOOLEAN, ~m.encrypt, Grown(a, c, given), Laid(c)
  PROVE  Laid(Written(a, m, c, j))
<1>1. PICK e : e = [c EXCEPT !.buf[j] = @ + 1]
  OBVIOUS
<1>2. Grown(a, e, given)
  BY <1>1, BufGrown DEF Buffered
<1>3. Laid(e)
  <2>1. e.block = c.block /\ e.head = c.head /\ e.last = c.last /\ e.pos = c.pos
    BY <1>1 DEF ChunkRec
  <2>2. Tiled(e, e.pos) /\ NextLinked(e)
    <3>1. Tiled(c, c.pos) /\ NextLinked(c)
      BY DEF Laid
    <3>. QED  BY <2>1, <3>1 DEF Tiled, NextLinked, NextOf, BlockNos
  <2>3. \A k \in BlockNos(e) : k <= e.last[e.block[k].stream]
    BY <2>1 DEF Laid, BlockNos
  <2>4. \A i \in Streams :
          e.last[i] # 0 => \E k : FirstOf(e, i, k) /\ e.block[k].off = e.head[i]
    BY <2>1 DEF Laid, FirstOf, BlockNos
  <2>. QED  BY <2>2, <2>3, <2>4 DEF Laid
<1>4. Laid(Flushed(a, m, e, j))
  BY <1>2, <1>3, FlushedLaid
<1>5. Written(a, m, c, j) = IF e.buf[j] = a.room[j] THEN Flushed(a, m, e, j) ELSE e
  BY <1>1 DEF Written
<1>. QED  BY <1>3, <1>4, <1>5

LEMMA OpenedLaid == Laid(Opened)
<1>1. /\ Opened.block = << >> /\ Opened.pos = 2 * HeadLen
      /\ Opened.last = [j \in Streams |-> 0]
  BY DEF Opened
<1>2. Len(<< >>) = 0 /\ BlockNos(Opened) = {}
  BY <1>1 DEF BlockNos
<1>. QED  BY <1>1, <1>2 DEF Laid, Tiled, NextLinked

(* Whatever close_stream_out leaves unencrypted is so: from the head of a    *)
(* stream, the headers lead through all its blocks to the last one, and the  *)
(* blocks of both streams fill the chunk.                                    *)
LEMMA LayoutLaid ==
  ASSUME NEW a \in Archives, NEW m \in Modes, ~m.encrypt
  PROVE  ChainsSound(Layout(a, m))
<1>0. ArchiveOK(a) /\ a.stored \in BOOLEAN /\ \A i \in Streams : a.room[i] \in Nat \ {0}
  BY ArchivesAssumption DEF ArchiveOK, Streams
<1>1. PICK w : w = Writes(a)
  OBVIOUS
<1>2. w \in Seq(Streams)
  BY <1>0, <1>1, WritesFacts
<1>3. PICK N \in Nat : N = Len(w)
  BY <1>2
<1>. DEFINE f == CHOOSE f : f = [n \in 0 .. N |-> IF n = 0 THEN Opened
                                                  ELSE Written(a, m, f[n - 1], w[n])]
<1>4. f = [n \in 0 .. N |-> IF n = 0 THEN Opened ELSE Written(a, m, f[n - 1], w[n])]
  <2>1. \E g : g = [n \in 0 .. N |-> IF n = 0 THEN Opened
                                     ELSE Written(a, m, g[n - 1], w[n])]
    <3>1. \E g : IsChunk(a, m, w, N, g)
      BY LayoutDefined
    <3>. QED  BY <3>1 DEF IsChunk
  <2>. QED  BY <2>1
<1>5. PICK b, d, l :
        b = Flushed(a, m, f[N], 0) /\ d = Flushed(a, m, b, 1) /\ l = Layout(a, m)
  OBVIOUS
<1>6. l.block = d.block /\ l.head = d.head /\ l.end = d.pos
  BY <1>1, <1>3, <1>5 DEF Layout
<1>. HIDE DEF f
<1>7. ChunkAt(a, w, f[N], N) /\ Laid(f[N])
  <2>. DEFINE G == {n \in Nat : n <= N => ChunkAt(a, w, f[n], n) /\ Laid(f[n])}
  <2>1. 0 \in G
    <3>1. f[0] = Opened
      BY <1>4
    <3>2. ChunkAt(a, w, Opened, 0)
      BY <1>0, <1>2, OpenedChunk, Zenon
    <3>. QED  BY <3>1, <3>2, OpenedLaid
  <2>2. ASSUME NEW n \in Nat, n \in G PROVE n + 1 \in G
    <3>. SUFFICES ASSUME n + 1 <= N
                  PROVE  ChunkAt(a, w, f[n + 1], n + 1) /\ Laid(f[n + 1])
      OBVIOUS
    <3>1. n <= N /\ n + 1 \in 0 .. N /\ n + 1 # 0 /\ (n + 1) - 1 = n
          /\ n + 1 \in 1 .. Len(w)
      BY <1>3
    <3>2. f[n + 1] = Written(a, m, f[(n + 1) - 1], w[n + 1])
      BY <1>4, <3>1
    <3>3. PICK c : c = f[n] /\ ChunkAt(a, w, c, (n + 1) - 1) /\ Laid(c)
      BY <2>2, <3>1
    <3>4. ChunkAt(a, w, Written(a, m, c, w[n + 1]), n + 1)
      BY <1>0, <1>2, <3>1, <3>3, WrittenChunk, Zenon
    <3>5. PICK j \in Streams : j = w[n + 1]
      BY <1>2, <3>1
    <3>6. Laid(Written(a, m, c, j))
      <4>1. PICK given : Grown(a, c, given)
        BY <3>3 DEF ChunkAt
      <4>2. c \in ChunkRec
        BY <3>3 DEF ChunkAt
      <4>. QED  BY <1>0, <3>3, <4>1, <4>2, WrittenLaid, Zenon
    <3>. QED  BY <3>1, <3>2, <3>3, <3>4, <3>5, <3>6
  <2>3. Nat \subseteq G
    <3>. HIDE DEF G
    <3>. QED  BY <2>1, <2>2, SetInduction
  <2>4. N \in G /\ N <= N
    BY <2>3
  <2>. QED  BY <2>4
<1>8. PICK c, given : /\ c = f[N] /\ given \in [Streams -> Nat] /\ Grown(a, c, given)
                      /\ \A j \in Streams : Full(a, c, given, j)
  BY <1>7 DEF ChunkAt
<1>9. 0 \in Streams /\ 1 \in Streams
  BY DEF Streams
<1>10. PICK gave : Grown(a, b, gave) /\ Laid(b)
  <2>1. PICK gave : gave = [given EXCEPT ![0] = @ + c.buf[0]]
    OBVIOUS
  <2>2. b = Flushed(a, m, c, 0) /\ Laid(c)
    BY <1>5, <1>7, <1>8
  <2>3. StillGrown(a, c, given, 0, b, gave)
    BY <1>0, <1>8, <1>9, <2>1, <2>2, FlushedGrown, Zenon
  <2>4. Laid(b)
    BY <1>0, <1>8, <1>9, <2>2, FlushedLaid, Zenon
  <2>. QED  BY <2>3, <2>4 DEF StillGrown
<1>11. Laid(d)
  BY <1>0, <1>5, <1>9, <1>10, FlushedLaid, Zenon
<1>12. Whole(a, w, N, d)
  <2>1. d = Flushed(a, m, Flushed(a, m, c, 0), 1) /\ ChunkAt(a, w, c, N)
    BY <1>5, <1>7, <1>8
  <2>. QED  BY <1>0, <1>2, <1>3, <2>1, ClosedChunk, Zenon
<1>13. PICK last : Grown(a, d, last) /\ \A j \in Streams : d.last[j] # 0
  BY <1>12 DEF Whole
<1>14. d.block \in Seq(BlockRec) /\ Len(d.block) \in Nat
  BY <1>13 DEF Grown
<1>15. l.block \in Seq(BlockRec) /\ Tiled(l, l.end) /\ NextLinked(l)
  <2>1. Tiled(d, d.pos) /\ NextLinked(d)
    BY <1>11 DEF Laid
  <2>. QED  BY <1>6, <1>14, <2>1 DEF Tiled, NextLinked, NextOf, BlockNos
<1>16. ASSUME NEW k \in BlockNos(l), l.block[k].last_head = 0,
              NEW i \in k + 1 .. Len(l.block)
       PROVE  l.block[i].stream # l.block[k].stream
  <2>1. k \in 1 .. Len(d.block) /\ i \in 1 .. Len(d.block) /\ ~(i <= k)
    BY <1>6, <1>14 DEF BlockNos
  <2>2. k = d.last[d.block[k].stream]
    BY <1>6, <1>13, <1>16, <2>1 DEF Grown, Placed, BlockNos
  <2>3. i <= d.last[d.block[i].stream]
    BY <1>11, <2>1 DEF Laid, BlockNos
  <2>. QED  BY <1>6, <2>1, <2>2, <2>3
<1>17. \A j \in Streams : \E k : FirstOf(l, j, k) /\ l.block[k].off = l.head[j]
  BY <1>6, <1>11, <1>13 DEF Laid, FirstOf, BlockNos
<1>. QED  BY <1>5, <1>15, <1>16, <1>17 DEF ChainsSound

-----------------------------------------------------------------------------

(* Reading the chunk. *)

Ring(j) == base_thread(j) .. base_thread(j) + total_threads(j) - 1

(* Steps around the ring of stream j from a to b. *)
Dist(j, a, b) == IF b >= a THEN b - a ELSE b - a + total_threads(j)

(* The unit of stream j behind those that were read or are in the buffer,   *)
(* and the first one that fill_buffer has not read from the archive.        *)
NextUnit(j) == Count(reads, rp - 1, j) + s[j].buflen - s[j].bufp
EndUnit(j) ==
  IF s[j].eos THEN Total(archive, j)
  ELSE UnitsBefore(archive, layout, AtIn(layout, s[j].last_head))

(* The threads with a block are those from unext_thread to uthread_no; that *)
(* is all of them only until fill_buffer has joined one.                    *)
Shape(j, n, u, bz) ==
  IF u = n THEN \A i \in Ring(j) : ~bz[i]
  ELSE \A i \in Ring(j) : bz[i] <=> Dist(j, n, i) < Dist(j, n, u)

RingShape(j) ==
  \/ Shape(j, s[j].unext_thread, s[j].uthread_no, busy)
  \/ /\ s[j].uthread_no = s[j].unext_thread
     /\ \A i \in Ring(j) : busy[i]
     /\ mpc \in {"out", "join", "fatal"} /\ Current = j

(* They hold consecutive blocks. *)
Holds(j, i) ==
  /\ block[i] \in BlockNos(layout)
  /\ layout.block[block[i]].stream = j /\ layout.block[block[i]].units > 0
  /\ UnitsTo(archive, layout, block[i]) <= EndUnit(j)
  /\ i = s[j].unext_thread =>
       UnitsBefore(archive, layout, block[i]) = NextUnit(j)
  /\ IF NextThread(i, j) = s[j].uthread_no
       THEN UnitsTo(archive, layout, block[i]) = EndUnit(j)
       ELSE UnitsTo(archive, layout, block[i])
              = UnitsBefore(archive, layout, block[NextThread(i, j)])

Chain(j) ==
  /\ \A i \in Ring(j) : busy[i] => Holds(j, i)
  /\ (\A i \in Ring(j) : ~busy[i]) => EndUnit(j) = NextUnit(j)
  /\ NextUnit(j) <= EndUnit(j)

(* The chain of headers is followed block by block. *)
HeadSound(j) ==
  ~s[j].eos => \E k \in BlockNos(layout) :
                 /\ layout.block[k].off = s[j].last_head
                 /\ layout.block[k].stream = j

(* The types that InTypeOK leaves open. *)
StreamRec == [last_head: Nat, buf: Nat, buflen: Nat, bufp: Nat, eos: BOOLEAN,
              uthread_no: Nat, unext_thread: Nat]

MoreTypes ==
  /\ s \in [Streams -> StreamRec]
  /\ \A j \in Streams : s[j].buf # 0 => s[j].buf \in BlockNos(layout)
  /\ waited \in [Slots -> BOOLEAN]
  /\ block \in [Slots -> Nat]

(* What the main thread may rely on where it is in fill_buffer. *)
MainSound ==
  /\ mpc \in {"fill", "out", "join"} =>
       /\ rp <= Len(reads)
       /\ s[Current].bufp = s[Current].buflen /\ s[Current].buf = 0
  /\ mpc = "fill" => ~s[Current].eos
  /\ mpc \in {"out", "join"} => busy[s[Current].unext_thread]
  /\ mpc = "closed" => rp > Len(reads)

(* The memory accounted for is that of the blocks that are held. *)
RamSound ==
  ram_alloced = UnitLen(0) * (EndUnit(0) - NextUnit(0))
                + UnitLen(1) * (EndUnit(1) - NextUnit(1))

InInv ==
  /\ ChunkSound(archive, layout, reads) /\ InTypeOK /\ MoreTypes
  /\ \A j \in Streams : RingShape(j) /\ Chain(j) /\ HeadSound(j)
  /\ \A i \in Slots : busy[i] <=> tpc[i] # "none"
  /\ ReadsInOrder /\ MainSound /\ RamSound
  /\ fatal # "busy"

-----------------------------------------------------------------------------

(* The rings of the two streams share no slot. *)
LEMMA RingFacts ==
  /\ \A j \in Streams : \A x \in Ring(j) : NextThread(x, j) \in Ring(j)
  /\ \A j \in Streams : Ring(j) \subseteq Slots
  /\ \A i \in Slots : \E j \in Streams : i \in Ring(j)
  /\ \A i \in Slots, j, k \in Streams : i \in Ring(j) /\ i \in Ring(k) => j = k
  /\ Slots \subseteq Nat
  BY ThreadsAssumption
     DEF Ring, NextThread, base_thread, total_threads, TotalThreads, Slots, Streams

(* A step around the ring, seen from a. *)
LEMMA DistFacts ==
  ASSUME NEW j \in Streams, NEW a \in Ring(j), NEW b \in Ring(j)
  PROVE  /\ Dist(j, a, b) \in 0 .. total_threads(j) - 1
         /\ Dist(j, a, b) = 0 <=> a = b
         /\ NextThread(b, j) # a =>
              Dist(j, a, NextThread(b, j)) = Dist(j, a, b) + 1
         /\ NextThread(b, j) = a => Dist(j, a, b) = total_threads(j) - 1
         /\ a # b => Dist(j, NextThread(a, j), b) = Dist(j, a, b) - 1
         /\ \A c \in Ring(j) : NextThread(c, j) = NextThread(b, j) => c = b
         /\ \A c \in Ring(j) : Dist(j, a, b) = Dist(j, a, c) => b = c
  BY ThreadsAssumption
     DEF Dist, Ring, NextThread, base_thread, total_threads, TotalThreads, Streams

-----------------------------------------------------------------------------

(* What the soundness of the chunk says of a block that a stream's chain    *)
(* leads to.                                                                *)
LEMMA AtFacts ==
  ASSUME NEW a, NEW l, NEW r, ChunkSound(a, l, r),
         NEW k \in BlockNos(l)
  PROVE  AtIn(l, l.block[k].off) = k
<1>1. AtIn(l, l.block[k].off) \in BlockNos(l)
      /\ l.block[AtIn(l, l.block[k].off)].off = l.block[k].off
  BY DEF AtIn
<1>. QED  BY <1>1 DEF ChunkSound

(* The types of what the invariant speaks of. *)
LEMMA InvTypes ==
  ASSUME InInv
  PROVE  /\ reads \in Seq(Streams) /\ rp \in 1 .. Len(reads) + 1
         /\ Len(layout.block) \in Nat
         /\ \A j \in Streams :
              /\ s[j].uthread_no \in Ring(j) /\ s[j].unext_thread \in Ring(j)
              /\ s[j].buflen \in Nat /\ s[j].bufp \in 0 .. s[j].buflen
              /\ s[j].eos \in BOOLEAN /\ s[j].last_head \in Nat
              /\ Count(reads, rp - 1, j) \in Nat
              /\ Total(archive, j) \in Nat
              /\ NextUnit(j) \in Nat /\ EndUnit(j) \in Nat
              /\ EndUnit(j) <= Total(archive, j)
<1>1. reads \in Seq(Streams) /\ rp \in 1 .. Len(reads) + 1 /\ Len(layout.block) \in Nat
  BY DEF InInv, ChunkSound, InTypeOK
<1>2. ASSUME NEW j \in Streams
      PROVE  /\ s[j].uthread_no \in Ring(j) /\ s[j].unext_thread \in Ring(j)
             /\ s[j].buflen \in Nat /\ s[j].bufp \in 0 .. s[j].buflen
             /\ s[j].eos \in BOOLEAN /\ s[j].last_head \in Nat
             /\ Total(archive, j) \in Nat
  BY DEF InInv, InTypeOK, MoreTypes, StreamRec, ChunkSound, Ring
<1>3. ASSUME NEW j \in Streams PROVE Count(reads, rp - 1, j) \in Nat
  <2>1. rp - 1 \in 0 .. Len(reads)
    BY <1>1
  <2>. QED  BY <1>1, <2>1, CountFacts
<1>4. ASSUME NEW j \in Streams PROVE NextUnit(j) \in Nat
  BY <1>2, <1>3 DEF NextUnit
<1>5. ASSUME NEW j \in Streams
      PROVE  EndUnit(j) \in Nat /\ EndUnit(j) <= Total(archive, j)
  <2>1. CASE s[j].eos
    BY <1>2, <2>1 DEF EndUnit
  <2>2. CASE ~s[j].eos
    <3>1. PICK k \in BlockNos(layout) : /\ layout.block[k].off = s[j].last_head
                                        /\ layout.block[k].stream = j
      BY <2>2 DEF InInv, HeadSound
    <3>2. AtIn(layout, s[j].last_head) = k
      BY <3>1, AtFacts DEF InInv
    <3>3. BlockSound(archive, layout, k)
      BY DEF InInv, ChunkSound
    <3>. QED  BY <1>2, <2>2, <3>1, <3>2, <3>3 DEF EndUnit, BlockSound, UnitsTo
  <2>. QED  BY <1>2, <2>1, <2>2
<1>. QED  BY <1>1, <1>2, <1>3, <1>4, <1>5

(* A step that leaves stream j, its threads and what was read of it alone. *)
LEMMA OtherStream ==
  ASSUME InInv, UNCHANGED fixed, NEW j \in Streams, s'[j] = s[j],
         \A i \in Ring(j) : busy'[i] = busy[i] /\ block'[i] = block[i],
         Count(reads, rp' - 1, j) = Count(reads, rp - 1, j)
  PROVE  /\ Chain(j)' /\ HeadSound(j)'
         /\ NextUnit(j)' = NextUnit(j) /\ EndUnit(j)' = EndUnit(j)
<1>1. NextUnit(j)' = NextUnit(j)
  BY DEF NextUnit, fixed
<1>2. EndUnit(j)' = EndUnit(j)
  BY DEF EndUnit, fixed
<1>3. HeadSound(j)'
  BY DEF InInv, HeadSound, fixed
<1>4. ASSUME NEW i \in Ring(j), busy'[i] PROVE Holds(j, i)'
  <2>1. Holds(j, i)
    BY <1>4 DEF InInv, Chain
  <2>2. NextThread(i, j) \in Ring(j)
    BY RingFacts
  <2>. QED  BY <1>1, <1>2, <2>1, <2>2 DEF Holds, fixed
<1>5. Chain(j)
  BY DEF InInv
<1>. QED  BY <1>1, <1>2, <1>3, <1>4, <1>5 DEF Chain

(* Steps that change none of the buffers, blocks and threads that a stream   *)
(* has: those of a ucompthread, and of the main thread on its way.          *)
LEMMA QuietStep ==
  ASSUME InInv, UNCHANGED <<fixed, rp, s, ram_alloced, busy, block>>,
         \/ mpc' = mpc \/ mpc' = "fatal"
         \/ mpc = "out" /\ mpc' = "join"
         \/ mpc = "run" /\ mpc' = "closed" /\ rp > Len(reads),
         fatal' \in {"no", "invalid", "memory"}, output_thread' \in Slots,
         tpc' \in [Slots -> {"none", "work", "turn", "asleep", "exit"}],
         \A i \in Slots : tpc'[i] = "none" <=> tpc[i] = "none",
         waited' \in [Slots -> BOOLEAN],
         content' \in [Slots -> {"packed", "plain", "garbled"}]
  PROVE  InInv'
<1>1. ASSUME NEW j \in Streams
      PROVE  /\ Chain(j)' /\ HeadSound(j)' /\ RingShape(j)'
             /\ NextUnit(j)' = NextUnit(j) /\ EndUnit(j)' = EndUnit(j)
  <2>1. RingShape(j)'
    <3>1. RingShape(j) /\ InTypeOK
      BY DEF InInv
    <3>. QED  BY <3>1 DEF RingShape, Shape, Current, fixed
  <2>. QED  BY <2>1, OtherStream
<1>2. ChunkSound(archive, layout, reads)'
  BY DEF InInv, fixed
<1>3. InTypeOK' /\ MoreTypes'
  BY DEF InInv, InTypeOK, MoreTypes, fixed
<1>4. ReadsInOrder' /\ RamSound' /\ fatal' # "busy"
  BY <1>1 DEF InInv, ReadsInOrder, RamSound, fixed, Streams
<1>5. MainSound'
  BY DEF InInv, MainSound, Current, fixed
<1>6. \A i \in Slots : busy'[i] <=> tpc'[i] # "none"
  BY DEF InInv
<1>. QED  BY <1>1, <1>2, <1>3, <1>4, <1>5, <1>6 DEF InInv

(* The steps of the ucompthread in slot i. *)
LEMMA UcompthreadInv ==
  ASSUME InInv, NEW i \in Slots, Ucompthread(i)
  PROVE  InInv'
<1>. /\ tpc \in [Slots -> {"none", "work", "turn", "asleep", "exit"}]
     /\ content \in [Slots -> {"packed", "plain", "garbled"}]
     /\ waited \in [Slots -> BOOLEAN]
     /\ fatal \in {"no", "invalid", "memory"} /\ output_thread \in Slots
  BY DEF InInv, InTypeOK, MoreTypes
<1>1. CASE Decompress(i)
  BY <1>1, QuietStep DEF Decompress, fixed
<1>2. CASE DecompressFail(i)
  BY <1>2, QuietStep DEF DecompressFail
<1>3. CASE DecompressFatal(i)
  BY <1>3, QuietStep DEF DecompressFatal, Fatally
<1>4. CASE Sleep(i)
  BY <1>4, QuietStep DEF Sleep
<1>5. CASE TakeTurn(i)
  BY <1>5, QuietStep DEF TakeTurn
<1>. QED  BY <1>1, <1>2, <1>3, <1>4, <1>5 DEF Ucompthread
-----------------------------------------------------------------------------

(* Before it reads a block, fill_buffer finds the thread free. *)
LEMMA FillFree ==
  ASSUME InInv, mpc = "fill"
  PROVE  Current \in Streams /\ ~busy[s[Current].uthread_no]
<1>1. Current \in Streams
  BY InvTypes DEF InInv, MainSound, Current
<1>2. RingShape(Current) /\ s[Current].uthread_no \in Ring(Current)
      /\ s[Current].unext_thread \in Ring(Current)
  BY <1>1, InvTypes DEF InInv
<1>. QED  BY <1>1, <1>2, DistFacts DEF RingShape, Shape

(* As long as there is more to read of a stream, its next unit is held. *)
LEMMA NextHeld ==
  ASSUME InInv, rp <= Len(reads), mpc \in {"run", "fill"},
         Current \in Streams, s[Current].bufp = s[Current].buflen,
         EndUnit(Current) = Total(archive, Current)
  PROVE  busy[s[Current].unext_thread]
<1>. DEFINE j == Current
<1>1. Count(reads, rp - 1, j) + 1 = Count(reads, rp, j)
      /\ Count(reads, rp, j) <= Count(reads, Len(reads), j)
  <2>1. reads \in Seq(Streams) /\ rp \in 0 .. Len(reads) /\ rp > 0 /\ reads[rp] = j
    BY InvTypes, SMTT(30) DEF Current
  <2>. QED  BY <2>1, CountFacts
<1>2. Count(reads, Len(reads), j) <= Total(archive, j)
  BY DEF InInv, ChunkSound
<1>3. /\ Count(reads, rp - 1, j) \in Nat /\ Count(reads, Len(reads), j) \in Nat
      /\ Count(reads, rp, j) \in Nat /\ Total(archive, j) \in Nat
  <2>1. reads \in Seq(Streams) /\ rp - 1 \in 0 .. Len(reads) /\ rp \in 0 .. Len(reads)
        /\ Len(reads) \in 0 .. Len(reads)
    <3>1. reads \in Seq(Streams) /\ rp \in 1 .. Len(reads) + 1
      BY InvTypes
    <3>. QED  BY <3>1
  <2>. QED  BY <2>1, CountFacts, InvTypes
<1>4. NextUnit(j) = Count(reads, rp - 1, j)
  <2>1. s[j].buflen \in Nat
    BY InvTypes
  <2>. QED  BY <1>3, <2>1 DEF NextUnit
<1>5. NextUnit(j) # EndUnit(j)
  BY <1>1, <1>2, <1>3, <1>4
<1>6. ~(\A i \in Ring(j) : ~busy[i])
  BY <1>5 DEF InInv, Chain
<1>7. RingShape(j) /\ s[j].uthread_no \in Ring(j) /\ s[j].unext_thread \in Ring(j)
  BY InvTypes DEF InInv
<1>. QED  BY <1>6, <1>7, DistFacts DEF RingShape, Shape

(* The fields of a struct stream. *)
LEMMA StreamFields ==
  ASSUME NEW r \in StreamRec
  PROVE  /\ r.last_head \in Nat /\ r.buf \in Nat /\ r.buflen \in Nat
         /\ r.bufp \in Nat /\ r.eos \in BOOLEAN
         /\ r.uthread_no \in Nat /\ r.unext_thread \in Nat
  BY DEF StreamRec

(* Only the position in the buffer moves. *)
LEMMA BufpMoves ==
  ASSUME NEW r \in StreamRec, NEW q, q = [r EXCEPT !.bufp = @ + 1]
  PROVE  /\ q \in StreamRec
         /\ q.last_head = r.last_head /\ q.buf = r.buf /\ q.buflen = r.buflen
         /\ q.bufp = r.bufp + 1 /\ q.eos = r.eos
         /\ q.uthread_no = r.uthread_no /\ q.unext_thread = r.unext_thread
  BY DEF StreamRec

(* read_stream takes a unit from the buffer. *)
LEMMA ReadUnitInv ==
  ASSUME InInv, ReadUnit
  PROVE  InInv'
<1>1. PICK j \in Streams : j = Current
  BY InvTypes, SMTT(30) DEF ReadUnit, Current
<1>2. /\ mpc = "run" /\ mpc' = "run" /\ rp <= Len(reads) /\ rp' = rp + 1
      /\ s[j].bufp < s[j].buflen /\ s' = [s EXCEPT ![j].bufp = @ + 1]
      /\ UNCHANGED <<fixed, fatal, ram_alloced, busy, tpc, waited, block, content,
                     output_thread>>
  BY <1>1 DEF ReadUnit
<1>. /\ reads \in Seq(Streams) /\ rp \in 1 .. Len(reads) + 1
     /\ s[j].buflen \in Nat /\ s[j].bufp \in Nat
     /\ Count(reads, rp - 1, j) \in Nat
  BY InvTypes
<1>3. s \in [Streams -> StreamRec]
  BY DEF InInv, MoreTypes
<1>4. /\ s'[j] = [s[j] EXCEPT !.bufp = @ + 1]
      /\ \A k \in Streams : k # j => s'[k] = s[k]
      /\ s' \in [Streams -> StreamRec]
      /\ s'[j].bufp = s[j].bufp + 1 /\ s'[j].buflen = s[j].buflen
      /\ \A k \in Streams :
           /\ s'[k].last_head = s[k].last_head /\ s'[k].buf = s[k].buf
           /\ s'[k].eos = s[k].eos /\ s'[k].uthread_no = s[k].uthread_no
           /\ s'[k].unext_thread = s[k].unext_thread
  <2>1. [s[j] EXCEPT !.bufp = @ + 1] \in StreamRec
    BY <1>3, BufpMoves
  <2>2. /\ s'[j] = [s[j] EXCEPT !.bufp = @ + 1]
        /\ \A k \in Streams : k # j => s'[k] = s[k]
        /\ s' \in [Streams -> StreamRec]
    BY <1>2, <1>3, <2>1
  <2>. QED  BY <1>3, <2>2, BufpMoves
<1>5. \A k \in Streams :
        Count(reads, rp' - 1, k)
          = Count(reads, rp - 1, k) + (IF k = j THEN 1 ELSE 0)
  <2>1. reads \in Seq(Streams) /\ rp \in 0 .. Len(reads) /\ rp > 0 /\ reads[rp] = j
        /\ rp' - 1 = rp
    BY <1>1, <1>2 DEF Current
  <2>. QED  BY <2>1, CountFacts
<1>6. NextUnit(j)' = NextUnit(j) /\ EndUnit(j)' = EndUnit(j)
  <2>1. s[j].buflen \in Nat /\ s[j].bufp \in Nat /\ Count(reads, rp - 1, j) \in Nat
        /\ reads' = reads
    BY <1>2 DEF fixed
  <2>2. s'[j].buflen = s[j].buflen /\ s'[j].bufp = s[j].bufp + 1
        /\ s'[j].eos = s[j].eos /\ s'[j].last_head = s[j].last_head
    BY <1>4
  <2>. QED  BY <1>2, <1>5, <2>1, <2>2, SMTT(30) DEF NextUnit, EndUnit, fixed
<1>7. ASSUME NEW k \in Streams
      PROVE  /\ Chain(k)' /\ HeadSound(k)' /\ RingShape(k)'
             /\ NextUnit(k)' = NextUnit(k) /\ EndUnit(k)' = EndUnit(k)
  <2>1. RingShape(k) /\ Chain(k) /\ HeadSound(k)
    BY DEF InInv
  <2>2. s'[k].uthread_no = s[k].uthread_no /\ s'[k].unext_thread = s[k].unext_thread
        /\ s'[k].eos = s[k].eos /\ s'[k].last_head = s[k].last_head
    BY <1>4
  <2>3. RingShape(k)'
    BY <1>2, <2>1, <2>2 DEF RingShape, Shape
  <2>4. CASE k # j
    <3>1. Count(reads, rp' - 1, k) = Count(reads, rp - 1, k)
      BY <1>5, <2>4, InvTypes
    <3>. QED  BY <1>2, <1>4, <2>3, <2>4, <3>1, OtherStream
  <2>5. CASE k = j
    <3>1. HeadSound(k)'
      BY <1>2, <2>1, <2>2 DEF HeadSound, fixed
    <3>2. Chain(k)'
      BY <1>2, <1>6, <2>1, <2>2, <2>5 DEF Chain, Holds, fixed
    <3>. QED  BY <1>6, <2>3, <2>5, <3>1, <3>2
  <2>. QED  BY <2>4, <2>5
<1>8. InTypeOK' /\ MoreTypes'
  <2>1. rp' \in 1 .. Len(reads') + 1
    BY <1>2 DEF fixed
  <2>2. \A k \in Streams :
          /\ s'[k].uthread_no = s[k].uthread_no /\ s'[k].unext_thread = s[k].unext_thread
          /\ s'[k].bufp \in 0 .. s'[k].buflen /\ s'[k].buf = s[k].buf
    <3>1. \A k \in Streams : s[k].buflen \in Nat /\ s[k].bufp \in 0 .. s[k].buflen
      BY InvTypes
    <3>. QED  BY <1>2, <1>4, <3>1
  <2>. QED  BY <1>2, <1>4, <2>1, <2>2 DEF InInv, InTypeOK, MoreTypes, fixed
<1>9. ReadsInOrder'
  <2>. SUFFICES ASSUME NEW k \in Streams, s'[k].buf # 0
                PROVE  /\ layout.block[s[k].buf].stream = k
                       /\ UnitsBefore(archive, layout, s[k].buf) + s'[k].bufp
                            = Count(reads, rp' - 1, k)
                       /\ s'[k].buf = s[k].buf
    BY <1>2 DEF ReadsInOrder, fixed
  <2>1. s'[k].buf = s[k].buf /\ s'[k].bufp = s[k].bufp + (IF k = j THEN 1 ELSE 0)
        /\ s[k].bufp \in Nat
    <3>1. s[k].bufp \in Nat
      BY <1>3, StreamFields
    <3>2. k # j => s'[k].bufp = s[k].bufp
      BY <1>4
    <3>3. k = j => s'[k].bufp = s[k].bufp + 1
      BY <1>4
    <3>. QED  BY <1>4, <3>1, <3>2, <3>3
  <2>2. /\ layout.block[s[k].buf].stream = k
        /\ UnitsBefore(archive, layout, s[k].buf) + s[k].bufp = Count(reads, rp - 1, k)
    BY <2>1 DEF InInv, ReadsInOrder
  <2>3. s[k].buf \in BlockNos(layout)
    BY <2>1 DEF InInv, MoreTypes
  <2>4. UnitsBefore(archive, layout, s[k].buf) \in Nat
    BY <2>3 DEF InInv, ChunkSound, BlockSound
  <2>. QED  BY <1>5, <2>1, <2>2, <2>4
<1>10. MainSound' /\ RamSound'
  BY <1>2, <1>7 DEF InInv, MainSound, RamSound, Streams
<1>11. ChunkSound(archive, layout, reads)'
  BY <1>2 DEF InInv, fixed
<1>. QED  BY <1>2, <1>7, <1>8, <1>9, <1>10, <1>11 DEF InInv

(* The buffer is given back. *)
LEMMA BufFreed ==
  ASSUME NEW r \in StreamRec, NEW q, q = [r EXCEPT !.buf = 0]
  PROVE  /\ q \in StreamRec
         /\ q.last_head = r.last_head /\ q.buf = 0 /\ q.buflen = r.buflen
         /\ q.bufp = r.bufp /\ q.eos = r.eos
         /\ q.uthread_no = r.uthread_no /\ q.unext_thread = r.unext_thread
  BY DEF StreamRec

(* fill_buffer is entered when the buffer is used up. *)
LEMMA EnterFillInv ==
  ASSUME InInv, EnterFill
  PROVE  InInv'
<1>1. PICK j \in Streams : j = Current
  <2>1. reads \in Seq(Streams) /\ rp \in 1 .. Len(reads) + 1
    BY InvTypes
  <2>2. rp \in 1 .. Len(reads)
    BY <2>1 DEF EnterFill
  <2>3. Current \in Streams
    BY <2>1, <2>2 DEF Current
  <2>. QED  BY <2>3
<1>2. /\ mpc = "run" /\ mpc' = IF s[j].eos THEN "out" ELSE "fill"
      /\ rp <= Len(reads) /\ rp' = rp
      /\ s[j].bufp = s[j].buflen /\ s' = [s EXCEPT ![j].buf = 0]
      /\ UNCHANGED <<fixed, fatal, ram_alloced, busy, tpc, waited, block, content,
                     output_thread>>
  BY <1>1 DEF EnterFill
<1>3. s \in [Streams -> StreamRec]
  BY DEF InInv, MoreTypes
<1>4. /\ s' \in [Streams -> StreamRec]
      /\ s'[j].buf = 0
      /\ \A k \in Streams :
           /\ s'[k].last_head = s[k].last_head /\ s'[k].buflen = s[k].buflen
           /\ s'[k].bufp = s[k].bufp
           /\ s'[k].eos = s[k].eos /\ s'[k].uthread_no = s[k].uthread_no
           /\ s'[k].unext_thread = s[k].unext_thread
           /\ s'[k].buf # 0 => s'[k].buf = s[k].buf
  <2>1. [s[j] EXCEPT !.buf = 0] \in StreamRec
    BY <1>3, BufFreed
  <2>2. /\ s'[j] = [s[j] EXCEPT !.buf = 0]
        /\ \A k \in Streams : k # j => s'[k] = s[k]
        /\ s' \in [Streams -> StreamRec]
    BY <1>2, <1>3, <2>1
  <2>. QED  BY <1>3, <2>2, BufFreed
<1>5. ASSUME NEW k \in Streams
      PROVE  NextUnit(k)' = NextUnit(k) /\ EndUnit(k)' = EndUnit(k)
  BY <1>2, <1>4 DEF NextUnit, EndUnit, fixed
<1>6. ASSUME NEW k \in Streams
      PROVE  Chain(k)' /\ HeadSound(k)' /\ RingShape(k)'
  <2>1. RingShape(k) /\ Chain(k) /\ HeadSound(k)
    BY DEF InInv
  <2>2. RingShape(k)'
    BY <1>2, <1>4, <2>1 DEF RingShape, Shape
  <2>3. HeadSound(k)'
    BY <1>2, <1>4, <2>1 DEF HeadSound, fixed
  <2>4. Chain(k)'
    BY <1>2, <1>4, <1>5, <2>1 DEF Chain, Holds, fixed
  <2>. QED  BY <2>2, <2>3, <2>4
<1>7. InTypeOK' /\ MoreTypes'
  BY <1>2, <1>4 DEF InInv, InTypeOK, MoreTypes, fixed
<1>8. ReadsInOrder'
  BY <1>2, <1>4 DEF InInv, ReadsInOrder, fixed
<1>9. MainSound'
  <2>1. s[j].eos => busy[s[j].unext_thread]
    <3>. SUFFICES ASSUME s[j].eos PROVE busy[s[j].unext_thread]
      OBVIOUS
    <3>1. EndUnit(j) = Total(archive, j)
      BY DEF EndUnit
    <3>. QED  BY <1>1, <1>2, <3>1, NextHeld
  <2>2. Current' = j
    BY <1>1, <1>2 DEF Current, fixed
  <2>. QED  BY <1>2, <1>4, <2>1, <2>2 DEF MainSound, fixed
<1>10. RamSound'
  BY <1>2, <1>5 DEF InInv, RamSound, Streams
<1>11. ChunkSound(archive, layout, reads)'
  BY <1>2 DEF InInv, fixed
<1>. QED  BY <1>2, <1>6, <1>7, <1>8, <1>9, <1>10, <1>11 DEF InInv

(* The steps of the main thread that change no stream. *)
LEMMA PassTurnInv ==
  ASSUME InInv, PassTurn \/ FillRefuse \/ CloseStreamIn
  PROVE  InInv'
<1>. /\ tpc \in [Slots -> {"none", "work", "turn", "asleep", "exit"}]
     /\ content \in [Slots -> {"packed", "plain", "garbled"}]
     /\ waited \in [Slots -> BOOLEAN]
     /\ fatal \in {"no", "invalid", "memory"} /\ output_thread \in Slots
     /\ 0 \in Slots
  BY ThreadsAssumption DEF InInv, InTypeOK, MoreTypes, Slots, TotalThreads
<1>1. CASE PassTurn
  <2>1. mpc = "out" /\ Current \in Streams
    BY <1>1, InvTypes DEF PassTurn, InInv, MainSound, Current
  <2>2. s[Current].unext_thread \in Slots
    BY <2>1, InvTypes, RingFacts
  <2>. QED  BY <1>1, <2>1, <2>2, QuietStep DEF PassTurn
<1>2. CASE FillRefuse
  <2>1. fatal' = "invalid"
    BY <1>2, FillFree DEF FillRefuse, Refusal, Fatally
  <2>. QED  BY <1>2, <2>1, QuietStep DEF FillRefuse, Fatally
<1>3. CASE CloseStreamIn
  BY <1>3, QuietStep DEF CloseStreamIn
<1>. QED  BY <1>1, <1>2, <1>3

(* The stream has ended. *)
LEMMA StreamEnds ==
  ASSUME NEW r \in StreamRec, NEW q, q = [r EXCEPT !.eos = TRUE]
  PROVE  /\ q \in StreamRec
         /\ q.last_head = r.last_head /\ q.buf = r.buf /\ q.buflen = r.buflen
         /\ q.bufp = r.bufp /\ q.eos = TRUE
         /\ q.uthread_no = r.uthread_no /\ q.unext_thread = r.unext_thread
  BY DEF StreamRec

(* A thread is started at the end of the row. *)
LEMMA ShapeFill ==
  ASSUME NEW j \in Streams, NEW n \in Ring(j), NEW u \in Ring(j),
         NEW bz \in [Slots -> BOOLEAN], NEW bw \in [Slots -> BOOLEAN],
         Shape(j, n, u, bz), bw = [bz EXCEPT ![u] = TRUE]
  PROVE  /\ NextThread(u, j) # n => Shape(j, n, NextThread(u, j), bw)
         /\ NextThread(u, j) = n => \A i \in Ring(j) : bw[i]
         /\ bw[n]
<1>1. Ring(j) \subseteq Slots /\ NextThread(u, j) \in Ring(j)
  BY RingFacts
<1>2. \A i \in Ring(j) : bw[i] <=> i = u \/ bz[i]
  BY <1>1
<1>3. \A i \in Ring(j) : bz[i] <=> Dist(j, n, i) < Dist(j, n, u)
  BY DistFacts DEF Shape
<1>4. \A i \in Ring(j) : Dist(j, n, i) \in Nat
                         /\ (Dist(j, n, i) = Dist(j, n, u) => i = u)
                         /\ Dist(j, n, i) <= total_threads(j) - 1
  BY DistFacts
<1>5. total_threads(j) \in Nat
  BY ThreadsAssumption DEF total_threads, TotalThreads
<1>6. ASSUME NextThread(u, j) # n PROVE Shape(j, n, NextThread(u, j), bw)
  <2>1. Dist(j, n, NextThread(u, j)) = Dist(j, n, u) + 1
    BY <1>6, DistFacts
  <2>. QED  BY <1>2, <1>3, <1>4, <1>6, <2>1 DEF Shape
<1>7. ASSUME NextThread(u, j) = n PROVE \A i \in Ring(j) : bw[i]
  <2>1. Dist(j, n, u) = total_threads(j) - 1
    BY <1>7, DistFacts
  <2>. QED  BY <1>2, <1>3, <1>4, <1>5, <2>1
<1>8. bw[n]
  <2>1. Dist(j, n, n) = 0
    BY DistFacts
  <2>. QED  BY <1>2, <1>3, <1>4, <2>1
<1>. QED  BY <1>6, <1>7, <1>8

(* A thread is joined at the beginning of the row. *)
LEMMA ShapeJoin ==
  ASSUME NEW j \in Streams, NEW n \in Ring(j), NEW u \in Ring(j),
         NEW bz \in [Slots -> BOOLEAN], NEW bw \in [Slots -> BOOLEAN],
         \/ Shape(j, n, u, bz) /\ bz[n]
         \/ u = n /\ (\A i \in Ring(j) : bz[i]),
         bw = [bz EXCEPT ![n] = FALSE]
  PROVE  /\ Shape(j, NextThread(n, j), u, bw)
         /\ (\A i \in Ring(j) : ~bw[i]) => NextThread(n, j) = u
         /\ bw[NextThread(n, j)] => NextThread(n, j) # u
<1>. DEFINE v == NextThread(n, j)
<1>1. Ring(j) \subseteq Slots /\ v \in Ring(j)
  BY RingFacts
<1>2. \A i \in Ring(j) : bw[i] <=> i # n /\ bz[i]
  BY <1>1
<1>3. /\ Dist(j, n, n) = 0 /\ Dist(j, v, v) = 0
      /\ Dist(j, v, n) = total_threads(j) - 1
      /\ total_threads(j) \in Nat
      /\ v # n => Dist(j, n, v) = 1
      /\ \A i \in Ring(j) :
           /\ i # n => Dist(j, v, i) = Dist(j, n, i) - 1
           /\ Dist(j, n, i) \in Nat /\ Dist(j, v, i) \in Nat
           /\ Dist(j, v, i) <= total_threads(j) - 1
           /\ Dist(j, v, i) = Dist(j, v, n) => i = n
           /\ Dist(j, n, i) = Dist(j, n, u) => i = u
           /\ Dist(j, n, i) = 0 => i = n
  BY <1>1, DistFacts, ThreadsAssumption DEF total_threads, TotalThreads
<1>4. CASE u = n
  <2>1. \A i \in Ring(j) : bz[i]
    BY <1>4 DEF Shape
  <2>2. v = u => \A i \in Ring(j) : i = n
    BY <1>3, <1>4
  <2>. HIDE DEF v
  <2>. QED  BY <1>1, <1>2, <1>3, <1>4, <2>1, <2>2 DEF v, Shape
<1>5. CASE u # n
  <2>1. \A i \in Ring(j) : bz[i] <=> Dist(j, n, i) < Dist(j, n, u)
    BY <1>5 DEF Shape
  <2>2. v # n
    BY <1>3, <1>5
  <2>3. CASE v = u
    <3>1. \A i \in Ring(j) : ~bw[i]
      BY <1>2, <1>3, <2>1, <2>2, <2>3
    <3>. QED  BY <1>1, <2>3, <3>1 DEF Shape
  <2>4. CASE v # u
    <3>1. bw[v]
      BY <1>1, <1>2, <1>3, <2>1, <2>2, <2>4
    <3>2. Shape(j, v, u, bw)
      BY <1>1, <1>2, <1>3, <1>5, <2>1, <2>4 DEF Shape
    <3>. QED  BY <1>1, <2>4, <3>1, <3>2
  <2>. QED  BY <2>3, <2>4
<1>. QED  BY <1>4, <1>5
-----------------------------------------------------------------------------

(* The header that fill_buffer reads is that of the next block. *)
LEMMA HeaderFacts ==
  ASSUME InInv, NEW j \in Streams, ~s[j].eos
  PROVE  /\ At(s[j].last_head) \in BlockNos(layout)
         /\ Header(j).off = s[j].last_head
         /\ Header(j).stream = j
         /\ BlockSound(archive, layout, At(s[j].last_head))
         /\ EndUnit(j) = UnitsBefore(archive, layout, At(s[j].last_head))
<1>1. PICK k \in BlockNos(layout) : /\ layout.block[k].off = s[j].last_head
                                    /\ layout.block[k].stream = j
  BY DEF InInv, HeadSound
<1>2. AtIn(layout, s[j].last_head) = k
  BY <1>1, AtFacts DEF InInv
<1>3. At(s[j].last_head) = k
  BY <1>2 DEF At, AtIn, BlockNos
<1>4. BlockSound(archive, layout, k)
  BY DEF InInv, ChunkSound
<1>. QED  BY <1>1, <1>2, <1>3, <1>4 DEF Header, EndUnit

(* The empty block at the end of stream 1 is skipped. *)
LEMMA FillEmptyInv ==
  ASSUME InInv, FillEmpty
  PROVE  InInv'
<1>1. PICK j \in Streams : j = Current
  BY InvTypes, SMTT(30) DEF FillEmpty, Current, InInv, MainSound
<1>2. /\ mpc = "fill" /\ mpc' = "out" /\ rp' = rp /\ Empty(j)
      /\ s' = [s EXCEPT ![j].eos = TRUE]
      /\ UNCHANGED <<fixed, fatal, ram_alloced, busy, tpc, waited, block, content,
                     output_thread>>
  BY <1>1 DEF FillEmpty
<1>3. rp <= Len(reads) /\ s[j].bufp = s[j].buflen /\ s[j].buf = 0 /\ ~s[j].eos
  BY <1>1, <1>2 DEF InInv, MainSound
<1>4. EndUnit(j) = Total(archive, j)
  <2>1. Header(j).c_len = 0 /\ Header(j).last_head = 0
    BY <1>2 DEF Empty
  <2>2. /\ Header(j).units = 0 /\ Header(j).stream = j
        /\ UnitsTo(archive, layout, At(s[j].last_head)) = Total(archive, j)
        /\ EndUnit(j) = UnitsBefore(archive, layout, At(s[j].last_head))
        /\ UnitsBefore(archive, layout, At(s[j].last_head)) \in Nat
    BY <1>3, <2>1, HeaderFacts DEF BlockSound, Header
  <2>. QED  BY <2>2 DEF UnitsTo, Header
<1>5. s \in [Streams -> StreamRec]
  BY DEF InInv, MoreTypes
<1>6. /\ s' \in [Streams -> StreamRec]
      /\ s'[j].eos = TRUE
      /\ \A k \in Streams :
           /\ s'[k].last_head = s[k].last_head /\ s'[k].buflen = s[k].buflen
           /\ s'[k].bufp = s[k].bufp /\ s'[k].buf = s[k].buf
           /\ s'[k].uthread_no = s[k].uthread_no
           /\ s'[k].unext_thread = s[k].unext_thread
           /\ k # j => s'[k].eos = s[k].eos
  <2>1. [s[j] EXCEPT !.eos = TRUE] \in StreamRec
    BY <1>5, StreamEnds
  <2>2. /\ s'[j] = [s[j] EXCEPT !.eos = TRUE]
        /\ \A k \in Streams : k # j => s'[k] = s[k]
        /\ s' \in [Streams -> StreamRec]
    BY <1>2, <1>5, <2>1
  <2>3. s[j] \in StreamRec
    BY <1>5
  <2>4. /\ s'[j].last_head = s[j].last_head /\ s'[j].buf = s[j].buf
        /\ s'[j].buflen = s[j].buflen /\ s'[j].bufp = s[j].bufp /\ s'[j].eos = TRUE
        /\ s'[j].uthread_no = s[j].uthread_no /\ s'[j].unext_thread = s[j].unext_thread
    BY <2>2, <2>3, StreamEnds
  <2>5. s'[j].eos = TRUE
    BY <2>4
  <2>. QED  BY <2>2, <2>4, <2>5, Zenon
<1>7. ASSUME NEW k \in Streams
      PROVE  NextUnit(k)' = NextUnit(k) /\ EndUnit(k)' = EndUnit(k)
  <2>1. NextUnit(k)' = NextUnit(k)
    BY <1>2, <1>6 DEF NextUnit, fixed
  <2>2. CASE k = j
    BY <1>2, <1>4, <1>6, <2>1, <2>2 DEF EndUnit, fixed
  <2>3. CASE k # j
    BY <1>2, <1>6, <2>1, <2>3 DEF EndUnit, fixed
  <2>. QED  BY <2>2, <2>3, <2>1
<1>8. ASSUME NEW k \in Streams
      PROVE  Chain(k)' /\ HeadSound(k)' /\ RingShape(k)'
  <2>1. RingShape(k) /\ Chain(k) /\ HeadSound(k)
    BY DEF InInv
  <2>2. RingShape(k)'
    BY <1>2, <1>6, <2>1 DEF RingShape, Shape
  <2>3. HeadSound(k)'
    BY <1>2, <1>6, <2>1 DEF HeadSound, fixed
  <2>4. Chain(k)'
    BY <1>2, <1>6, <1>7, <2>1 DEF Chain, Holds, fixed
  <2>. QED  BY <2>2, <2>3, <2>4
<1>9. InTypeOK' /\ MoreTypes'
  BY <1>2, <1>6 DEF InInv, InTypeOK, MoreTypes, fixed
<1>10. ReadsInOrder'
  BY <1>2, <1>6 DEF InInv, ReadsInOrder, fixed
<1>11. MainSound'
  <2>1. busy[s[j].unext_thread]
    BY <1>1, <1>2, <1>3, <1>4, NextHeld
  <2>2. Current' = j
    BY <1>1, <1>2 DEF Current, fixed
  <2>. QED  BY <1>2, <1>3, <1>6, <2>1, <2>2 DEF MainSound, fixed
<1>12. RamSound'
  BY <1>2, <1>7 DEF InInv, RamSound, Streams
<1>13. ChunkSound(archive, layout, reads)'
  BY <1>2 DEF InInv, fixed
<1>. QED  BY <1>2, <1>8, <1>9, <1>10, <1>11, <1>12, <1>13 DEF InInv

(* What FillBlock does to the streams and the threads, part by part. *)
LEMMA FillBlockParts ==
  ASSUME InInv, FillBlock, NEW j \in Streams, j = Current,
         NEW i, i = s[j].uthread_no, NEW k, k = At(s[j].last_head)
  PROVE  /\ mpc = "fill" /\ rp' = rp /\ ~s[j].eos /\ rp <= Len(reads)
         /\ s[j].bufp = s[j].buflen /\ s[j].buf = 0
         /\ UNCHANGED <<fixed, fatal, pos, output_thread>>
         /\ k \in BlockNos(layout) /\ BlockSound(archive, layout, k)
         /\ layout.block[k].stream = j /\ layout.block[k].units \in Nat \ {0}
         /\ i \in Ring(j) /\ i \in Slots /\ NextThread(i, j) \in Ring(j) /\ ~busy[i]
         /\ Shape(j, s[j].unext_thread, i, busy)
         /\ EndUnit(j) = UnitsBefore(archive, layout, k)
         /\ s' \in [Streams -> StreamRec]
         /\ \A m \in Streams \ {j} : s'[m] = s[m]
         /\ s'[j].last_head = layout.block[k].last_head
         /\ s'[j].buf = s[j].buf /\ s'[j].buflen = s[j].buflen
         /\ s'[j].bufp = s[j].bufp
         /\ s'[j].eos = (layout.block[k].last_head = 0)
         /\ s'[j].uthread_no = NextThread(i, j)
         /\ s'[j].unext_thread = s[j].unext_thread
         /\ busy' = [busy EXCEPT ![i] = TRUE] /\ busy' \in [Slots -> BOOLEAN]
         /\ block' = [block EXCEPT ![i] = k] /\ block' \in [Slots -> Nat]
         /\ tpc' = [tpc EXCEPT ![i] = "work"]
         /\ waited' \in [Slots -> BOOLEAN]
         /\ content' \in [Slots -> {"packed", "plain", "garbled"}]
         /\ ram_alloced' = ram_alloced + layout.block[k].u_len
         /\ mpc' \in {"fill", "out"}
         /\ mpc' = "fill" => layout.block[k].last_head # 0
                             /\ NextThread(i, j) # s[j].unext_thread
<1>. DEFINE h == layout.block[k]
<1>1. mpc = "fill" /\ Current = j
  BY DEF FillBlock
<1>2. ~s[j].eos /\ rp <= Len(reads) /\ s[j].bufp = s[j].buflen /\ s[j].buf = 0
  BY <1>1 DEF InInv, MainSound
<1>3. /\ k \in BlockNos(layout) /\ BlockSound(archive, layout, k)
      /\ h.stream = j /\ Header(j) = h
      /\ EndUnit(j) = UnitsBefore(archive, layout, k)
  BY <1>2, HeaderFacts DEF Header
<1>4. h.units \in Nat \ {0}
  <2>1. ~Invalid(j)
    BY <1>1 DEF FillBlock, Refusal
  <2>2. ~(h.c_len < 1)
    BY <1>3, <2>1 DEF Invalid
  <2>3. h.units \in Nat /\ h.c_len \in Nat /\ (h.c_len = 0 <=> h.units = 0)
    BY <1>3 DEF BlockSound
  <2>. QED  BY <2>2, <2>3
<1>5. i \in Ring(j) /\ i \in Slots /\ NextThread(i, j) \in Ring(j) /\ ~busy[i]
      /\ NextThread(i, j) \in Nat
  BY <1>1, InvTypes, RingFacts, FillFree
<1>6. Shape(j, s[j].unext_thread, i, busy)
  BY <1>1, <1>5 DEF InInv, RingShape
<1>7. s \in [Streams -> StreamRec] /\ s[j] \in StreamRec
  BY DEF InInv, MoreTypes
<1>8. h.last_head \in Nat /\ h.off \in Nat /\ k \in Nat
  <2>1. h.last_head # 0 => \E g \in BlockNos(layout) : h.last_head = layout.block[g].off
    BY <1>3 DEF BlockSound
  <2>2. \A g \in BlockNos(layout) : layout.block[g].off \in Nat
    BY DEF InInv, ChunkSound, BlockSound
  <2>. QED  BY <1>3, <2>1, <2>2 DEF BlockNos
<1>9. s' = [s EXCEPT ![j].last_head = h.last_head,
                     ![j].uthread_no = NextThread(i, j),
                     ![j].eos = (h.last_head = 0)]
  BY <1>1, <1>3 DEF FillBlock
<1>10. PICK p \in Nat, u \in Nat, e \in BOOLEAN :
         p = h.last_head /\ u = NextThread(i, j) /\ e = (h.last_head = 0)
  BY <1>5, <1>8
<1>. DEFINE q == [s[j] EXCEPT !.last_head = p, !.uthread_no = u, !.eos = e]
<1>11. /\ q \in StreamRec
       /\ q.last_head = p /\ q.buf = s[j].buf /\ q.buflen = s[j].buflen
       /\ q.bufp = s[j].bufp /\ q.eos = e
       /\ q.uthread_no = u /\ q.unext_thread = s[j].unext_thread
  <2>1. PICK r \in StreamRec : r = s[j]
    BY <1>7
  <2>2. PICK z : z = [r EXCEPT !.last_head = p, !.uthread_no = u, !.eos = e]
    OBVIOUS
  <2>3. /\ z \in StreamRec
        /\ z.last_head = p /\ z.buf = r.buf /\ z.buflen = r.buflen
        /\ z.bufp = r.bufp /\ z.eos = e
        /\ z.uthread_no = u /\ z.unext_thread = r.unext_thread
    BY <2>2 DEF StreamRec
  <2>4. z = q
    BY <2>1, <2>2
  <2>. QED  BY <2>1, <2>3, <2>4, Zenon
<1>12. /\ s' \in [Streams -> StreamRec] /\ s'[j] = q
       /\ \A m \in Streams \ {j} : s'[m] = s[m]
  BY <1>7, <1>9, <1>10, <1>11
<1>13. /\ busy' = [busy EXCEPT ![i] = TRUE]
       /\ block' = [block EXCEPT ![i] = k]
       /\ tpc' = [tpc EXCEPT ![i] = "work"]
       /\ waited' = [waited EXCEPT ![i] = FALSE]
       /\ content' = [content EXCEPT ![i] = "packed"]
       /\ ram_alloced' = ram_alloced + h.u_len
       /\ UNCHANGED <<fixed, fatal, rp, pos, output_thread>>
  BY <1>1, <1>3 DEF FillBlock
<1>14. /\ busy' \in [Slots -> BOOLEAN] /\ block' \in [Slots -> Nat]
       /\ waited' \in [Slots -> BOOLEAN]
       /\ content' \in [Slots -> {"packed", "plain", "garbled"}]
  BY <1>8, <1>13 DEF InInv, InTypeOK, MoreTypes
<1>15. /\ mpc' \in {"fill", "out"}
       /\ mpc' = "fill" => h.last_head # 0 /\ NextThread(i, j) # s[j].unext_thread
  BY <1>1, <1>3 DEF FillBlock
<1>. QED  BY <1>1, <1>2, <1>3, <1>4, <1>5, <1>6, <1>10, <1>11, <1>12, <1>13, <1>14, <1>15

(* A block is read and its thread started. *)
LEMMA FillBlockInv ==
  ASSUME InInv, FillBlock
  PROVE  InInv'
<1>1. PICK j \in Streams : j = Current
  BY InvTypes, SMTT(30) DEF FillBlock, Current, InInv, MainSound
<1>. DEFINE i == s[j].uthread_no
            k == At(s[j].last_head)
            n == s[j].unext_thread
            next == NextThread(i, j)
<1>2. /\ mpc = "fill" /\ rp' = rp /\ ~s[j].eos /\ rp <= Len(reads)
      /\ s[j].bufp = s[j].buflen /\ s[j].buf = 0
      /\ UNCHANGED <<fixed, fatal, pos, output_thread>>
      /\ k \in BlockNos(layout) /\ BlockSound(archive, layout, k)
      /\ layout.block[k].stream = j /\ layout.block[k].units \in Nat \ {0}
      /\ i \in Ring(j) /\ i \in Slots /\ next \in Ring(j) /\ ~busy[i]
      /\ Shape(j, n, i, busy)
      /\ EndUnit(j) = UnitsBefore(archive, layout, k)
  BY <1>1, FillBlockParts
<1>3. /\ s' \in [Streams -> StreamRec]
      /\ \A m \in Streams \ {j} : s'[m] = s[m]
      /\ s'[j].last_head = layout.block[k].last_head
      /\ s'[j].buf = s[j].buf /\ s'[j].buflen = s[j].buflen
      /\ s'[j].bufp = s[j].bufp
      /\ s'[j].eos = (layout.block[k].last_head = 0)
      /\ s'[j].uthread_no = next
      /\ s'[j].unext_thread = n
  BY <1>1, FillBlockParts
<1>4. /\ busy' = [busy EXCEPT ![i] = TRUE] /\ busy' \in [Slots -> BOOLEAN]
      /\ block' = [block EXCEPT ![i] = k] /\ block' \in [Slots -> Nat]
      /\ tpc' = [tpc EXCEPT ![i] = "work"]
      /\ waited' \in [Slots -> BOOLEAN]
      /\ content' \in [Slots -> {"packed", "plain", "garbled"}]
      /\ ram_alloced' = ram_alloced + layout.block[k].u_len
      /\ mpc' \in {"fill", "out"}
      /\ mpc' = "fill" => layout.block[k].last_head # 0 /\ next # n
  BY <1>1, FillBlockParts
<1>. /\ n \in Ring(j) /\ n \in Nat /\ EndUnit(j) \in Nat /\ NextUnit(j) \in Nat
     /\ busy \in [Slots -> BOOLEAN] /\ block \in [Slots -> Nat]
     /\ Ring(j) \subseteq Slots
     /\ \A m \in Streams : EndUnit(m) \in Nat /\ NextUnit(m) \in Nat
  BY InvTypes, RingFacts DEF InInv, InTypeOK, MoreTypes
<1>. HIDE DEF i, k, n, next
<1>5. NextUnit(j)' = NextUnit(j)
  BY <1>2, <1>3 DEF NextUnit, fixed
<1>6. EndUnit(j)' = UnitsTo(archive, layout, k) /\ HeadSound(j)'
  <2>1. CASE layout.block[k].last_head = 0
    BY <1>2, <1>3, <2>1 DEF EndUnit, HeadSound, BlockSound, fixed
  <2>2. CASE layout.block[k].last_head # 0
    <3>1. PICK g \in BlockNos(layout) :
            /\ layout.block[k].last_head = layout.block[g].off
            /\ layout.block[g].stream = j
            /\ UnitsBefore(archive, layout, g) = UnitsTo(archive, layout, k)
      BY <1>2, <2>2 DEF BlockSound
    <3>2. AtIn(layout, layout.block[g].off) = g
      BY AtFacts DEF InInv
    <3>. QED  BY <1>2, <1>3, <2>2, <3>1, <3>2 DEF EndUnit, HeadSound, fixed
  <2>. QED  BY <2>1, <2>2
<1>7. UnitsTo(archive, layout, k) = EndUnit(j) + layout.block[k].units
  BY <1>2 DEF UnitsTo
<1>8. ASSUME NEW x \in Ring(j), busy'[x] PROVE Holds(j, x)'
  <2>1. CASE x = i
    <3>1. block'[x] = k
      BY <1>2, <1>4, <2>1
    <3>2. n = i => UnitsBefore(archive, layout, k) = NextUnit(j)
      BY <1>2 DEF InInv, Chain, Shape
    <3>. QED  BY <1>2, <1>3, <1>5, <1>6, <1>7, <2>1, <3>1, <3>2
              DEF Holds, fixed, next, BlockNos
  <2>2. CASE x # i
    <3>1. busy[x] /\ block'[x] = block[x]
      BY <1>4, <1>8, <2>2
    <3>2. Holds(j, x)
      BY <3>1 DEF InInv, Chain
    <3>3. NextThread(x, j) # next /\ NextThread(x, j) \in Ring(j)
      BY <1>2, <2>2, DistFacts, RingFacts DEF next
    <3>4. UnitsTo(archive, layout, block[x]) <= EndUnit(j)
      BY <3>2 DEF Holds
    <3>5. UnitsTo(archive, layout, block[x]) \in Nat
      BY <3>2, SMTT(30) DEF Holds, InInv, ChunkSound, BlockSound, UnitsTo
    <3>6. UnitsTo(archive, layout, block[x]) <= UnitsTo(archive, layout, k)
      BY <1>2, <1>7, <3>4, <3>5
    <3>7. UnitsTo(archive, layout, block[x])
            = UnitsBefore(archive, layout, block'[NextThread(x, j)])
      <4>1. CASE NextThread(x, j) = i
        BY <1>2, <1>4, <3>2, <4>1 DEF Holds, i
      <4>2. CASE NextThread(x, j) # i
        BY <1>4, <3>2, <3>3, <4>2 DEF Holds, i
      <4>. QED  BY <4>1, <4>2
    <3>. QED  BY <1>2, <1>3, <1>5, <1>6, <3>1, <3>2, <3>3, <3>6, <3>7
              DEF Holds, fixed, n
  <2>. QED  BY <2>1, <2>2
<1>9. Chain(j)'
  <2>1. busy'[i]
    BY <1>2, <1>4
  <2>2. NextUnit(j) <= EndUnit(j)
    BY DEF InInv, Chain
  <2>3. NextUnit(j) <= UnitsTo(archive, layout, k)
    BY <1>2, <1>7, <2>2
  <2>. QED  BY <1>2, <1>5, <1>6, <1>8, <2>1, <2>3 DEF Chain
<1>10. /\ busy'[n]
       /\ next # n => Shape(j, n, next, busy')
       /\ next = n => \A x \in Ring(j) : busy'[x]
  <2>1. /\ n \in Ring(j) /\ i \in Ring(j) /\ Shape(j, n, i, busy)
        /\ busy \in [Slots -> BOOLEAN] /\ busy' \in [Slots -> BOOLEAN]
        /\ busy' = [busy EXCEPT ![i] = TRUE] /\ next = NextThread(i, j)
    BY <1>2, <1>4 DEF next
  <2>. QED  BY <2>1, ShapeFill, Zenon
<1>11. Current' = j
  BY <1>1, <1>2 DEF Current, fixed
<1>12. RingShape(j)'
  BY <1>3, <1>4, <1>10, <1>11 DEF RingShape
<1>13. ASSUME NEW m \in Streams, m # j
       PROVE  /\ Chain(m)' /\ HeadSound(m)' /\ RingShape(m)'
              /\ NextUnit(m)' = NextUnit(m) /\ EndUnit(m)' = EndUnit(m)
  <2>1. \A x \in Ring(m) : busy'[x] = busy[x] /\ block'[x] = block[x]
    <3>1. \A x \in Ring(m) : x \in Slots /\ x # i
      BY <1>2, <1>13, RingFacts
    <3>. QED  BY <1>2, <1>4, <3>1
  <2>2. s'[m] = s[m] /\ rp' = rp /\ UNCHANGED fixed
    BY <1>2, <1>3, <1>13
  <2>3. Shape(m, s[m].unext_thread, s[m].uthread_no, busy)
    BY <1>2 DEF InInv, RingShape, i
  <2>4. RingShape(m)'
    BY <2>1, <2>2, <2>3 DEF RingShape, Shape
  <2>. QED  BY <2>1, <2>2, <2>4, OtherStream
<1>14. ram_alloced' = ram_alloced + UnitLen(j) * layout.block[k].units
       /\ UnitLen(j) * layout.block[k].units \in Nat
  BY <1>2, <1>4, SMTT(30) DEF BlockSound, UnitLen
<1>15. RamSound'
  <2>1. RamSound /\ ram_alloced \in Nat
    BY DEF InInv, InTypeOK
  <2>2. CASE j = 0
    <3>1. EndUnit(1)' = EndUnit(1) /\ NextUnit(1)' = NextUnit(1)
      BY <1>13, <2>2 DEF Streams
    <3>2. layout.block[k].units \in Nat
      BY <1>2
    <3>. QED  BY <1>5, <1>6, <1>7, <1>14, <2>1, <2>2, <3>1, <3>2
              DEF RamSound, UnitLen, Streams
  <2>3. CASE j = 1
    <3>1. EndUnit(0)' = EndUnit(0) /\ NextUnit(0)' = NextUnit(0)
      BY <1>13, <2>3 DEF Streams
    <3>2. layout.block[k].units \in Nat
      BY <1>2
    <3>. QED  BY <1>5, <1>6, <1>7, <1>14, <2>1, <2>3, <3>1, <3>2
              DEF RamSound, UnitLen, Streams
  <2>. QED  BY <2>2, <2>3 DEF Streams
<1>16. InTypeOK' /\ MoreTypes'
  <2>1. ram_alloced' \in Nat
    BY <1>14, SMTT(30) DEF InInv, InTypeOK
  <2>2. tpc' \in [Slots -> {"none", "work", "turn", "asleep", "exit"}]
    BY <1>4 DEF InInv, InTypeOK
  <2>3. ASSUME NEW m \in Streams
        PROVE  /\ s'[m].uthread_no \in Ring(m) /\ s'[m].unext_thread \in Ring(m)
               /\ s'[m].bufp \in 0 .. s'[m].buflen
               /\ s'[m].buf = s[m].buf
    <3>1. /\ s[m].uthread_no \in Ring(m) /\ s[m].unext_thread \in Ring(m)
          /\ s[m].bufp \in 0 .. s[m].buflen
      BY InvTypes
    <3>2. CASE m = j
      BY <1>2, <1>3, <3>1, <3>2
    <3>3. CASE m # j
      BY <1>3, <3>1, <3>3
    <3>. QED  BY <3>2, <3>3
  <2>4. InTypeOK'
    BY <1>2, <1>4, <2>1, <2>2, <2>3 DEF InInv, InTypeOK, fixed, Ring
  <2>5. MoreTypes'
    BY <1>2, <1>3, <1>4, <2>3 DEF InInv, MoreTypes, fixed
  <2>. QED  BY <2>4, <2>5
<1>17. ReadsInOrder'
  <2>1. \A m \in Streams : s'[m].buf # 0 => s'[m].buf = s[m].buf /\ s'[m].bufp = s[m].bufp
    BY <1>3
  <2>. QED  BY <1>2, <2>1 DEF InInv, ReadsInOrder, fixed
<1>18. MainSound'
  BY <1>2, <1>3, <1>4, <1>10, <1>11 DEF MainSound, fixed, n
<1>19. ChunkSound(archive, layout, reads)'
  BY <1>2 DEF InInv, fixed
<1>20. \A x \in Slots : busy'[x] <=> tpc'[x] # "none"
  BY <1>2, <1>4 DEF InInv, InTypeOK
<1>. QED  BY <1>2, <1>6, <1>9, <1>12, <1>13, <1>15, <1>16, <1>17, <1>18, <1>19, <1>20
          DEF InInv

(* What Join does to the streams and the threads, part by part. *)
LEMMA JoinParts ==
  ASSUME InInv, Join, NEW j \in Streams, j = Current,
         NEW n, n = s[j].unext_thread
  PROVE  /\ mpc = "join" /\ mpc' = "run" /\ rp' = rp /\ rp <= Len(reads)
         /\ UNCHANGED <<fixed, fatal, output_thread, waited, block, content>>
         /\ n \in Ring(j) /\ n \in Slots /\ NextThread(n, j) \in Ring(j) /\ busy[n]
         /\ Holds(j, n)
         /\ NextUnit(j) = Count(reads, rp - 1, j)
         /\ s' \in [Streams -> StreamRec]
         /\ \A m \in Streams \ {j} : s'[m] = s[m]
         /\ s'[j].last_head = s[j].last_head
         /\ s'[j].buf = block[n] /\ s'[j].buflen = layout.block[block[n]].units
         /\ s'[j].bufp = 0
         /\ s'[j].eos = s[j].eos
         /\ s'[j].uthread_no = s[j].uthread_no
         /\ s'[j].unext_thread = NextThread(n, j)
         /\ busy' = [busy EXCEPT ![n] = FALSE] /\ busy' \in [Slots -> BOOLEAN]
         /\ tpc' = [tpc EXCEPT ![n] = "none"]
         /\ ram_alloced' = ram_alloced - layout.block[block[n]].u_len
<1>. DEFINE b == layout.block[block[n]]
<1>1. mpc = "join" /\ mpc' = "run" /\ rp' = rp
      /\ UNCHANGED <<fixed, fatal, output_thread, waited, block, content>>
  BY DEF Join
<1>2. rp <= Len(reads) /\ s[j].bufp = s[j].buflen /\ busy[n]
  BY <1>1 DEF InInv, MainSound
<1>3. n \in Ring(j) /\ n \in Slots /\ NextThread(n, j) \in Ring(j)
      /\ NextThread(n, j) \in Nat
  BY InvTypes, RingFacts
<1>4. Holds(j, n)
  BY <1>2, <1>3 DEF InInv, Chain
<1>5. NextUnit(j) = Count(reads, rp - 1, j)
  <2>1. s[j].buflen \in Nat /\ Count(reads, rp - 1, j) \in Nat
    BY InvTypes
  <2>. QED  BY <1>2, <2>1 DEF NextUnit
<1>6. block[n] \in Nat /\ b.units \in Nat
  BY <1>3, <1>4 DEF Holds, InInv, MoreTypes, ChunkSound, BlockSound
<1>7. s \in [Streams -> StreamRec] /\ s[j] \in StreamRec
  BY DEF InInv, MoreTypes
<1>8. /\ s' = [s EXCEPT ![j].buf = block[n], ![j].buflen = b.units, ![j].bufp = 0,
                        ![j].unext_thread = NextThread(n, j)]
      /\ busy' = [busy EXCEPT ![n] = FALSE]
      /\ tpc' = [tpc EXCEPT ![n] = "none"]
      /\ ram_alloced' = ram_alloced - b.u_len
  BY DEF Join
<1>9. busy' \in [Slots -> BOOLEAN]
  BY <1>8 DEF InInv, InTypeOK
<1>. DEFINE q == [s[j] EXCEPT !.buf = block[n], !.buflen = b.units, !.bufp = 0,
                              !.unext_thread = NextThread(n, j)]
<1>10. /\ q \in StreamRec
       /\ q.last_head = s[j].last_head /\ q.buf = block[n] /\ q.buflen = b.units
       /\ q.bufp = 0 /\ q.eos = s[j].eos
       /\ q.uthread_no = s[j].uthread_no /\ q.unext_thread = NextThread(n, j)
  <2>1. PICK r \in StreamRec, x \in Nat, len \in Nat, w \in Nat :
          r = s[j] /\ x = block[n] /\ len = b.units /\ w = NextThread(n, j)
    BY <1>3, <1>6, <1>7
  <2>2. PICK z : z = [r EXCEPT !.buf = x, !.buflen = len, !.bufp = 0,
                               !.unext_thread = w]
    OBVIOUS
  <2>3. /\ z \in StreamRec
        /\ z.last_head = r.last_head /\ z.buf = x /\ z.buflen = len
        /\ z.bufp = 0 /\ z.eos = r.eos
        /\ z.uthread_no = r.uthread_no /\ z.unext_thread = w
    BY <2>2 DEF StreamRec
  <2>4. z = q
    BY <2>1, <2>2
  <2>. QED  BY <2>1, <2>3, <2>4, Zenon
<1>11. /\ s' \in [Streams -> StreamRec] /\ s'[j] = q
       /\ \A m \in Streams \ {j} : s'[m] = s[m]
  <2>. HIDE DEF b
  <2>. QED  BY <1>7, <1>8, <1>10
<1>. HIDE DEF q
<1>. QED  BY <1>1, <1>2, <1>3, <1>4, <1>5, <1>8, <1>9, <1>10, <1>11

(* The main thread joins the next thread. *)
LEMMA JoinInv ==
  ASSUME InInv, Join
  PROVE  InInv'
<1>1. PICK j \in Streams : j = Current
  <2>1. rp <= Len(reads)
    BY DEF Join, InInv, MainSound
  <2>2. Current \in Streams
    BY <2>1, InvTypes DEF Current
  <2>. QED  BY <2>2
<1>. DEFINE n == s[j].unext_thread
            v == NextThread(n, j)
            u == s[j].uthread_no
            b == block[n]
<1>2. /\ mpc = "join" /\ mpc' = "run" /\ rp' = rp /\ rp <= Len(reads)
      /\ UNCHANGED <<fixed, fatal, output_thread, waited, block, content>>
      /\ n \in Ring(j) /\ n \in Slots /\ v \in Ring(j) /\ busy[n]
      /\ Holds(j, n)
      /\ NextUnit(j) = Count(reads, rp - 1, j)
  BY <1>1, JoinParts
<1>3. /\ s' \in [Streams -> StreamRec]
      /\ \A m \in Streams \ {j} : s'[m] = s[m]
      /\ s'[j].last_head = s[j].last_head
      /\ s'[j].buf = b /\ s'[j].buflen = layout.block[b].units
      /\ s'[j].bufp = 0
      /\ s'[j].eos = s[j].eos
      /\ s'[j].uthread_no = u
      /\ s'[j].unext_thread = v
  BY <1>1, JoinParts
<1>4. /\ busy' = [busy EXCEPT ![n] = FALSE] /\ busy' \in [Slots -> BOOLEAN]
      /\ tpc' = [tpc EXCEPT ![n] = "none"]
      /\ ram_alloced' = ram_alloced - layout.block[b].u_len
  BY <1>1, JoinParts
<1>. /\ u \in Ring(j)
     /\ busy \in [Slots -> BOOLEAN] /\ block \in [Slots -> Nat]
     /\ Ring(j) \subseteq Slots
     /\ \A m \in Streams : EndUnit(m) \in Nat /\ NextUnit(m) \in Nat
  BY InvTypes, RingFacts DEF InInv, InTypeOK, MoreTypes
<1>5. /\ b \in BlockNos(layout) /\ layout.block[b].stream = j
      /\ layout.block[b].units \in Nat \ {0}
      /\ UnitsBefore(archive, layout, b) = NextUnit(j)
      /\ UnitsTo(archive, layout, b) = NextUnit(j) + layout.block[b].units
      /\ UnitsTo(archive, layout, b) <= EndUnit(j)
      /\ UnitsTo(archive, layout, b) \in Nat
      /\ BlockSound(archive, layout, b)
  <2>1. /\ b \in BlockNos(layout) /\ layout.block[b].stream = j
        /\ layout.block[b].units > 0
        /\ UnitsBefore(archive, layout, b) = NextUnit(j)
        /\ UnitsTo(archive, layout, b) <= EndUnit(j)
    BY <1>2 DEF Holds
  <2>2. BlockSound(archive, layout, b)
    BY <2>1 DEF InInv, ChunkSound
  <2>3. layout.block[b].units \in Nat
    BY <2>2 DEF BlockSound
  <2>. QED  BY <2>1, <2>2, <2>3 DEF UnitsTo
<1>6. /\ Shape(j, v, u, busy')
      /\ (\A x \in Ring(j) : ~busy'[x]) => v = u
      /\ busy'[v] => v # u
  <2>1. \/ Shape(j, n, u, busy) /\ busy[n]
        \/ u = n /\ (\A x \in Ring(j) : busy[x])
    BY <1>2 DEF InInv, RingShape
  <2>2. /\ n \in Ring(j) /\ u \in Ring(j)
        /\ busy \in [Slots -> BOOLEAN] /\ busy' \in [Slots -> BOOLEAN]
        /\ busy' = [busy EXCEPT ![n] = FALSE]
    BY <1>2, <1>4
  <2>. HIDE DEF n, u
  <2>. QED  BY <2>1, <2>2, ShapeJoin, Zenon DEF v
<1>7. v = u => UnitsTo(archive, layout, b) = EndUnit(j)
  BY <1>2 DEF Holds
<1>8. v # u => UnitsTo(archive, layout, b) = UnitsBefore(archive, layout, block[v])
  BY <1>2 DEF Holds
<1>9. NextUnit(j)' = UnitsTo(archive, layout, b)
  <2>1. reads' = reads /\ rp' = rp /\ s'[j].buflen = layout.block[b].units
        /\ s'[j].bufp = 0
    BY <1>2, <1>3 DEF fixed
  <2>. HIDE DEF b
  <2>. QED  BY <1>2, <1>5, <2>1 DEF NextUnit
<1>10. EndUnit(j)' = EndUnit(j) /\ HeadSound(j)'
  <2>1. HeadSound(j)
    BY DEF InInv
  <2>. QED  BY <1>2, <1>3, <2>1 DEF EndUnit, HeadSound, fixed
<1>11. ASSUME NEW x \in Ring(j), busy'[x] PROVE Holds(j, x)'
  <2>1. x # n /\ busy[x]
    BY <1>2, <1>4, <1>11
  <2>2. Holds(j, x)
    BY <2>1 DEF InInv, Chain
  <2>3. x = v => UnitsBefore(archive, layout, block[x]) = UnitsTo(archive, layout, b)
    BY <1>6, <1>8, <1>11
  <2>. HIDE DEF v, b
  <2>. QED  BY <1>2, <1>3, <1>9, <1>10, <2>2, <2>3 DEF Holds, fixed
<1>12. Chain(j)'
  <2>1. (\A x \in Ring(j) : ~busy'[x]) => EndUnit(j) = UnitsTo(archive, layout, b)
    BY <1>6, <1>7
  <2>. HIDE DEF b
  <2>. QED  BY <1>5, <1>9, <1>10, <1>11, <2>1 DEF Chain
<1>13. RingShape(j)'
  BY <1>3, <1>6 DEF RingShape
<1>14. ASSUME NEW m \in Streams, m # j
       PROVE  /\ Chain(m)' /\ HeadSound(m)' /\ RingShape(m)'
              /\ NextUnit(m)' = NextUnit(m) /\ EndUnit(m)' = EndUnit(m)
  <2>1. \A x \in Ring(m) : busy'[x] = busy[x] /\ block'[x] = block[x]
    <3>. HIDE DEF n
    <3>1. \A x \in Ring(m) : x \in Slots /\ x # n
      BY <1>2, <1>14, RingFacts
    <3>. QED  BY <1>2, <1>4, <3>1
  <2>2. s'[m] = s[m] /\ rp' = rp /\ UNCHANGED fixed
    BY <1>2, <1>3, <1>14
  <2>3. Shape(m, s[m].unext_thread, s[m].uthread_no, busy)
    BY <1>1, <1>14 DEF InInv, RingShape
  <2>4. RingShape(m)'
    BY <2>1, <2>2, <2>3 DEF RingShape, Shape
  <2>. QED  BY <2>1, <2>2, <2>4, OtherStream
<1>15. ram_alloced' = ram_alloced - UnitLen(j) * layout.block[b].units
  <2>. HIDE DEF b
  <2>1. layout.block[b].u_len = layout.block[b].units * UnitLen(j)
    BY <1>5 DEF BlockSound
  <2>2. UnitLen(j) \in Nat /\ layout.block[b].units \in Nat
    BY <1>5 DEF UnitLen
  <2>. QED  BY <1>4, <2>1, <2>2
<1>16. RamSound' /\ ram_alloced' \in Nat
  <2>1. RamSound /\ ram_alloced \in Nat
    BY DEF InInv, InTypeOK
  <2>2. layout.block[b].units \in Nat /\ NextUnit(j)' \in Nat
        /\ NextUnit(j)' <= EndUnit(j)
    BY <1>5, <1>9
  <2>3. \A m \in Streams : NextUnit(m) <= EndUnit(m)
    BY DEF InInv, Chain
  <2>. HIDE DEF b
  <2>4. CASE j = 0
    <3>1. EndUnit(1)' = EndUnit(1) /\ NextUnit(1)' = NextUnit(1)
      BY <1>14, <2>4 DEF Streams
    <3>. QED  BY <1>5, <1>9, <1>10, <1>15, <2>1, <2>2, <2>3, <2>4, <3>1
              DEF RamSound, UnitLen, Streams
  <2>5. CASE j = 1
    <3>1. EndUnit(0)' = EndUnit(0) /\ NextUnit(0)' = NextUnit(0)
      BY <1>14, <2>5 DEF Streams
    <3>. QED  BY <1>5, <1>9, <1>10, <1>15, <2>1, <2>2, <2>3, <2>5, <3>1
              DEF RamSound, UnitLen, Streams
  <2>. QED  BY <2>4, <2>5 DEF Streams
<1>17. InTypeOK' /\ MoreTypes'
  <2>1. tpc' \in [Slots -> {"none", "work", "turn", "asleep", "exit"}]
    BY <1>4 DEF InInv, InTypeOK
  <2>2. ASSUME NEW m \in Streams
        PROVE  /\ s'[m].uthread_no \in Ring(m) /\ s'[m].unext_thread \in Ring(m)
               /\ s'[m].bufp \in 0 .. s'[m].buflen
               /\ s'[m].buf # 0 => s'[m].buf \in BlockNos(layout)
    <3>1. /\ s[m].uthread_no \in Ring(m) /\ s[m].unext_thread \in Ring(m)
          /\ s[m].bufp \in 0 .. s[m].buflen
          /\ s[m].buf # 0 => s[m].buf \in BlockNos(layout)
      BY InvTypes DEF InInv, MoreTypes
    <3>2. CASE m = j
      BY <1>2, <1>3, <1>5, <3>1, <3>2
    <3>3. CASE m # j
      BY <1>3, <3>1, <3>3
    <3>. QED  BY <3>2, <3>3
  <2>3. InTypeOK'
    BY <1>2, <1>4, <1>16, <2>1, <2>2 DEF InInv, InTypeOK, fixed, Ring
  <2>4. MoreTypes'
    BY <1>2, <1>3, <2>2 DEF InInv, MoreTypes, fixed
  <2>. QED  BY <2>3, <2>4
<1>18. ReadsInOrder'
  <2>. SUFFICES ASSUME NEW m \in Streams, s'[m].buf # 0
                PROVE  /\ layout.block[s'[m].buf].stream = m
                       /\ UnitsBefore(archive, layout, s'[m].buf) + s'[m].bufp
                            = Count(reads, rp - 1, m)
    BY <1>2 DEF ReadsInOrder, fixed
  <2>1. CASE m = j
    <3>1. UnitsBefore(archive, layout, b) \in Nat
      BY <1>5
    <3>. HIDE DEF b
    <3>. QED  BY <1>2, <1>3, <1>5, <2>1, <3>1
  <2>2. CASE m # j
    BY <1>3, <2>2 DEF InInv, ReadsInOrder
  <2>. QED  BY <2>1, <2>2
<1>19. MainSound'
  BY <1>2 DEF MainSound
<1>20. ChunkSound(archive, layout, reads)'
  BY <1>2 DEF InInv, fixed
<1>21. \A x \in Slots : busy'[x] <=> tpc'[x] # "none"
  BY <1>2, <1>4 DEF InInv, InTypeOK
<1>. QED  BY <1>2, <1>10, <1>12, <1>13, <1>14, <1>16, <1>17, <1>18, <1>19, <1>20, <1>21
          DEF InInv
-----------------------------------------------------------------------------

(* Every step of the main thread and of the ucompthreads keeps it. *)
LEMMA InInvNext ==
  ASSUME InInv, [Next]_vars
  PROVE  InInv'
<1>1. CASE UNCHANGED vars
  <2>1. UNCHANGED <<fixed, rp, s, ram_alloced, busy, block, mpc, fatal,
                    output_thread, tpc, waited, content>>
    BY <1>1 DEF vars, fixed
  <2>. /\ tpc \in [Slots -> {"none", "work", "turn", "asleep", "exit"}]
       /\ content \in [Slots -> {"packed", "plain", "garbled"}]
       /\ waited \in [Slots -> BOOLEAN]
       /\ fatal \in {"no", "invalid", "memory"} /\ output_thread \in Slots
    BY DEF InInv, InTypeOK, MoreTypes
  <2>. QED  BY <2>1, QuietStep
<1>2. CASE RunzipChunk
  BY <1>2, ReadUnitInv, EnterFillInv, FillEmptyInv, FillBlockInv, PassTurnInv,
     JoinInv DEF RunzipChunk
<1>3. CASE \E i \in Slots : Ucompthread(i)
  BY <1>3, UcompthreadInv
<1>. QED  BY <1>1, <1>2, <1>3 DEF Next, Stopped

(* open_stream_in finds the chains at their heads. *)
LEMMA InInvInit ==
  ASSUME LayoutSound, Init
  PROVE  InInv
<1>1. ChunkSound(archive, layout, reads)
  BY DEF LayoutSound, Init
<1>2. /\ mpc = "run" /\ fatal = "no" /\ rp = 1 /\ ram_alloced = 0
      /\ output_thread = 0
      /\ busy = [i \in Slots |-> FALSE] /\ tpc = [i \in Slots |-> "none"]
      /\ waited = [i \in Slots |-> FALSE] /\ block = [i \in Slots |-> 0]
      /\ content = [i \in Slots |-> "plain"]
      /\ s = [j \in Streams |->
                [last_head |-> layout.head[j], buf |-> 0, buflen |-> 0,
                 bufp |-> 0, eos |-> FALSE, uthread_no |-> base_thread(j),
                 unext_thread |-> base_thread(j)]]
  BY DEF Init
<1>3. ASSUME NEW j \in Streams
      PROVE  /\ s[j].last_head = layout.head[j] /\ s[j].buf = 0
             /\ s[j].buflen = 0 /\ s[j].bufp = 0 /\ s[j].eos = FALSE
             /\ s[j].uthread_no = base_thread(j)
             /\ s[j].unext_thread = base_thread(j)
             /\ base_thread(j) \in Ring(j) /\ base_thread(j) \in Nat
             /\ Ring(j) \subseteq Slots
  BY <1>2, ThreadsAssumption, RingFacts
     DEF base_thread, Ring, total_threads, TotalThreads, Streams
<1>4. ASSUME NEW j \in Streams
      PROVE  /\ HeadSound(j) /\ EndUnit(j) = 0 /\ s[j].last_head \in Nat
  <2>1. PICK k \in BlockNos(layout) :
          /\ layout.block[k].off = layout.head[j]
          /\ layout.block[k].stream = j
          /\ UnitsBefore(archive, layout, k) = 0
    BY <1>1 DEF ChunkSound
  <2>2. AtIn(layout, layout.head[j]) = k
    BY <1>1, <2>1, AtFacts
  <2>3. layout.block[k].off \in Nat
    BY <1>1 DEF ChunkSound, BlockSound
  <2>. QED  BY <1>3, <2>1, <2>2, <2>3 DEF HeadSound, EndUnit
<1>5. ASSUME NEW j \in Streams PROVE NextUnit(j) = 0 /\ Count(reads, rp - 1, j) = 0
  <2>1. reads \in Seq(Streams) /\ 0 \in 0 .. Len(reads)
    BY <1>1 DEF ChunkSound
  <2>2. Count(reads, 0, j) = 0
    BY <2>1, CountFacts
  <2>. QED  BY <1>2, <1>3, <2>2 DEF NextUnit
<1>6. ASSUME NEW j \in Streams PROVE RingShape(j) /\ Chain(j)
  <2>1. \A i \in Ring(j) : ~busy[i]
    BY <1>2, <1>3
  <2>2. RingShape(j)
    BY <1>3, <2>1 DEF RingShape, Shape
  <2>3. EndUnit(j) = 0 /\ NextUnit(j) = 0
    BY <1>4, <1>5
  <2>. QED  BY <2>1, <2>2, <2>3 DEF Chain
<1>7. s \in [Streams -> StreamRec]
  BY <1>2, <1>3, <1>4 DEF StreamRec
<1>8. InTypeOK /\ MoreTypes
  <2>1. rp \in 1 .. Len(reads) + 1
    BY <1>1, <1>2 DEF ChunkSound
  <2>2. 0 \in Slots
    BY ThreadsAssumption DEF Slots, TotalThreads
  <2>3. \A j \in Streams :
          /\ s[j].uthread_no \in Ring(j) /\ s[j].unext_thread \in Ring(j)
          /\ s[j].bufp \in 0 .. s[j].buflen /\ s[j].buf = 0
    <3>. TAKE j \in Streams
    <3>1. s[j].uthread_no = base_thread(j) /\ s[j].unext_thread = base_thread(j)
          /\ base_thread(j) \in Ring(j)
          /\ s[j].buflen = 0 /\ s[j].bufp = 0 /\ s[j].buf = 0
      BY <1>3
    <3>2. 0 \in 0 .. 0
      OBVIOUS
    <3>. QED  BY <3>1, <3>2, Zenon
  <2>4. InTypeOK
    BY <1>2, <2>1, <2>2, <2>3 DEF InTypeOK, Ring
  <2>5. MoreTypes
    BY <1>2, <1>7, <2>3 DEF MoreTypes
  <2>. QED  BY <2>4, <2>5
<1>9. ReadsInOrder /\ MainSound /\ RamSound
  BY <1>2, <1>3, <1>4, <1>5 DEF ReadsInOrder, MainSound, RamSound, Streams, UnitLen
<1>10. \A i \in Slots : busy[i] <=> tpc[i] # "none"
  BY <1>2
<1>. QED  BY <1>1, <1>2, <1>4, <1>6, <1>8, <1>9, <1>10 DEF InInv

(* No thread is left when the chunk is closed. *)
LEMMA ClosedPaired ==
  ASSUME InInv, mpc = "closed"
  PROVE  (\A i \in Slots : ~busy[i]) /\ ram_alloced = 0
<1>. /\ \A j \in Streams :
          /\ s[j].uthread_no \in Ring(j) /\ s[j].unext_thread \in Ring(j)
          /\ NextUnit(j) \in Nat /\ EndUnit(j) \in Nat /\ Total(archive, j) \in Nat
          /\ EndUnit(j) <= Total(archive, j) /\ NextUnit(j) <= EndUnit(j)
          /\ Count(reads, rp - 1, j) \in Nat
          /\ s[j].buflen \in Nat /\ s[j].bufp \in 0 .. s[j].buflen
  BY InvTypes DEF InInv, Chain
<1>1. ASSUME NEW j \in Streams
      PROVE  /\ Shape(j, s[j].unext_thread, s[j].uthread_no, busy)
             /\ (\E i \in Ring(j) : busy[i]) => busy[s[j].unext_thread]
  <2>1. Shape(j, s[j].unext_thread, s[j].uthread_no, busy)
    BY DEF InInv, RingShape
  <2>. QED  BY <2>1, DistFacts DEF Shape
<1>2. \A i \in Ring(1) : ~busy[i]
  <2>. SUFFICES ASSUME busy[s[1].unext_thread] PROVE FALSE
    BY <1>1 DEF Streams
  <2>. DEFINE b == block[s[1].unext_thread]
  <2>1. /\ b \in BlockNos(layout) /\ layout.block[b].units > 0
        /\ layout.block[b].stream = 1
        /\ UnitsBefore(archive, layout, b) = NextUnit(1)
        /\ UnitsTo(archive, layout, b) <= EndUnit(1)
    BY DEF InInv, Chain, Holds, Streams
  <2>2. layout.block[b].units \in Nat
    BY <2>1 DEF InInv, ChunkSound, BlockSound
  <2>3. Count(reads, rp - 1, 1) = Total(archive, 1)
    <3>1. rp > Len(reads) /\ rp \in 1 .. Len(reads) + 1 /\ Len(reads) \in Nat
      BY InvTypes DEF InInv, MainSound
    <3>2. rp - 1 = Len(reads)
      BY <3>1
    <3>. QED  BY <3>2 DEF InInv, ChunkSound
  <2>4. NextUnit(1) >= Count(reads, rp - 1, 1)
    BY DEF NextUnit, Streams
  <2>. HIDE DEF b
  <2>. QED  BY <2>1, <2>2, <2>3, <2>4 DEF UnitsTo, Streams
<1>3. \A i \in Ring(0) : ~busy[i]
  <2>1. s[0].uthread_no = s[0].unext_thread
    BY DEF Ring, base_thread, total_threads, Streams
  <2>. QED  BY <1>1, <2>1 DEF Shape, Streams
<1>4. \A j \in Streams : EndUnit(j) = NextUnit(j)
  BY <1>2, <1>3 DEF InInv, Chain, Streams
<1>5. ram_alloced = 0
  BY <1>4 DEF InInv, RamSound, Streams, UnitLen
<1>. QED  BY <1>2, <1>3, <1>5, RingFacts DEF Streams

(* The inductive invariant holds of every chunk that was written whole. *)
THEOREM StreamInInvariant == Spec => []InInv
<1>1. Init => InInv
  BY ChunksSound, InInvInit
<1>2. InInv /\ [Next]_vars => InInv'
  BY InInvNext
<1>. QED  BY <1>1, <1>2, PTL DEF Spec

(* However the ucompthreads are scheduled, runzip_chunk gets the units of   *)
(* each stream in order and each once, and every thread that fill_buffer    *)
(* starts is joined once before the chunk is closed.                        *)
THEOREM BuffersAlwaysInOrder == Spec => []BuffersInOrder
<1>1. InInv => BuffersInOrder
  <2>. SUFFICES ASSUME InInv PROVE BuffersInOrder
    OBVIOUS
  <2>1. InTypeOK /\ ReadsInOrder
    BY DEF InInv
  <2>2. ThreadsPaired
    BY ClosedPaired DEF InInv, ThreadsPaired, MainSound
  <2>. QED  BY <2>1, <2>2 DEF BuffersInOrder
<1>. QED  BY <1>1, StreamInInvariant, PTL

(* A refused header is that of a chunk that the back end could not          *)
(* compress.                                                                *)
LEMMA RefusedStored ==
  ASSUME InInv, FillRefuse
  PROVE  archive.stored
<1>. DEFINE j == Current
            k == At(s[j].last_head)
            h == layout.block[k]
<1>1. mpc = "fill" /\ j \in Streams /\ ~busy[s[j].uthread_no]
  BY FillFree DEF FillRefuse
<1>2. ~Empty(j) /\ Invalid(j)
  BY <1>1 DEF FillRefuse, Refusal
<1>3. rp <= Len(reads) /\ s[j].bufp = s[j].buflen /\ ~s[j].eos
  BY <1>1 DEF InInv, MainSound
<1>4. /\ Header(j) = h /\ h.off = s[j].last_head /\ h.stream = j
      /\ k \in BlockNos(layout) /\ BlockSound(archive, layout, k)
      /\ EndUnit(j) = UnitsBefore(archive, layout, k)
  BY <1>1, <1>3, HeaderFacts DEF Header
<1>5. /\ h.units \in Nat /\ h.c_len \in Nat /\ h.off \in Nat /\ layout.size \in Nat
      /\ h.u_len = h.units * UnitLen(j) /\ (h.c_len = 0 <=> h.units = 0)
      /\ UnitsBefore(archive, layout, k) \in Nat
  BY <1>4 DEF BlockSound, InInv, ChunkSound
<1>6. CASE h.units = 0
  <2>1. h.last_head = 0
    BY <1>4, <1>6 DEF BlockSound
  <2>2. h.c_len = 0 /\ h.u_len = 0
    BY <1>1, <1>5, <1>6 DEF UnitLen
  <2>3. j = 0
    BY <1>1, <1>2, <1>4, <2>1, <2>2 DEF Empty, Streams
  <2>4. EndUnit(j) = Total(archive, j)
    BY <1>4, <1>5, <1>6, <2>1 DEF BlockSound, UnitsTo
  <2>5. busy[s[j].unext_thread]
    BY <1>1, <1>3, <2>4, NextHeld
  <2>6. s[j].unext_thread = s[j].uthread_no
    BY <1>1, <2>3, InvTypes DEF Ring, base_thread, total_threads
  <2>. QED  BY <1>1, <2>5, <2>6
<1>7. CASE h.units # 0
  <2>1. ~(h.c_len < 1) /\ ~(h.u_len < 1)
    <3>1. h.c_len # 0 /\ h.units \in Nat \ {0}
      BY <1>5, <1>7
    <3>2. UnitLen(j) \in Nat \ {0}
      BY DEF UnitLen
    <3>3. h.u_len \in Nat \ {0}
      <4>. HIDE DEF h, j
      <4>. QED  BY <1>5, <3>1, <3>2
    <3>. QED  BY <1>5, <3>1, <3>3
  <2>2. ~(h.last_head # 0 /\ h.last_head <= s[j].last_head)
    <3>. SUFFICES ASSUME h.last_head # 0 PROVE ~(h.last_head <= s[j].last_head)
      OBVIOUS
    <3>1. PICK g \in BlockNos(layout) :
            h.last_head = layout.block[g].off /\ h.last_head > h.off
      BY <1>4 DEF BlockSound
    <3>2. h.last_head \in Nat
      BY <3>1 DEF InInv, ChunkSound, BlockSound
    <3>. QED  BY <1>4, <1>5, <3>1, <3>2
  <2>3. h.last_head > layout.size
    BY <1>2, <1>4, <2>1, <2>2 DEF Invalid
  <2>4. h.last_head # 0
    BY <1>5, <2>3
  <2>5. h.last_head \in Nat
    BY <1>4, <2>4 DEF BlockSound, InInv, ChunkSound
  <2>. QED  BY <1>4, <1>5, <2>3, <2>4, <2>5 DEF BlockSound
<1>. QED  BY <1>6, <1>7

(* A chunk that the back end could compress is never refused as invalid.    *)
THEOREM CompressibleAlwaysAccepted == Spec => []CompressibleAccepted
<1>1. Init => CompressibleAccepted
  BY DEF Init, CompressibleAccepted, ChunkAccepted
<1>2. InInv /\ CompressibleAccepted /\ [Next]_vars => CompressibleAccepted'
  <2>. SUFFICES ASSUME InInv, CompressibleAccepted, [Next]_vars
                PROVE  CompressibleAccepted'
    OBVIOUS
  <2>1. archive' = archive
    BY DEF vars, fixed, Next, Stopped, RunzipChunk, ReadUnit, EnterFill, FillRefuse,
           FillEmpty, FillBlock, PassTurn, Join, CloseStreamIn, Ucompthread,
           Decompress, DecompressFail, DecompressFatal, Sleep, TakeTurn
  <2>2. CASE FillRefuse
    BY <2>1, <2>2, RefusedStored DEF CompressibleAccepted
  <2>3. CASE ~FillRefuse
    <3>1. fatal' = fatal \/ fatal' = "memory"
      BY <2>3 DEF vars, Next, Stopped, RunzipChunk, ReadUnit, EnterFill,
           FillEmpty, FillBlock, PassTurn, Join, CloseStreamIn, Ucompthread,
           Decompress, DecompressFail, DecompressFatal, Sleep, TakeTurn, Fatally
    <3>. QED  BY <2>1, <3>1 DEF CompressibleAccepted, ChunkAccepted
  <2>. QED  BY <2>2, <2>3
<1>. QED  BY <1>1, <1>2, StreamInInvariant, PTL DEF Spec

-----------------------------------------------------------------------------

(* What is in s_buf of a ucompthread.  A thread that failed to decompress   *)
(* still has the compressed data if no filter is taken off.                 *)
ContentSound ==
  /\ mode \in Modes
  /\ tpc \in [Slots -> {"none", "work", "turn", "asleep", "exit"}]
  /\ content \in [Slots -> {"packed", "plain", "garbled"}]
  /\ \A i \in Slots :
       /\ tpc[i] \in {"work", "turn", "asleep"} => content[i] = "packed"
       /\ tpc[i] = "exit" => content[i] = "plain"

(* Each step keeps it where no filter meets a back end that fails. *)
LEMMA ContentSoundNext ==
  ASSUME \A m \in Modes : ~(m.fails /\ m.filter), ContentSound, [Next]_vars
  PROVE  ContentSound'
<1>1. CASE UNCHANGED vars
  BY <1>1 DEF ContentSound, vars
<1>2. CASE ReadUnit \/ EnterFill \/ FillRefuse \/ FillEmpty \/ CloseStreamIn
  BY <1>2 DEF ContentSound, ReadUnit, EnterFill, FillRefuse, FillEmpty,
              CloseStreamIn, fixed
<1>3. CASE FillBlock
  BY <1>3 DEF ContentSound, FillBlock, fixed
<1>4. CASE PassTurn
  BY <1>4 DEF ContentSound, PassTurn, fixed
<1>5. CASE Join
  BY <1>5 DEF ContentSound, Join, fixed
<1>6. ASSUME NEW i \in Slots, Ucompthread(i) PROVE ContentSound'
  <2>1. CASE Decompress(i)
    BY <2>1 DEF ContentSound, Decompress, fixed
  <2>2. CASE DecompressFail(i)
    <3>1. ~Unfilters(i)
      BY <2>2 DEF ContentSound, DecompressFail, Unfilters
    <3>. QED  BY <2>2, <3>1 DEF ContentSound, DecompressFail, fixed
  <2>3. CASE DecompressFatal(i) \/ Sleep(i) \/ TakeTurn(i)
    BY <2>3 DEF ContentSound, DecompressFatal, Sleep, TakeTurn, fixed
  <2>. QED  BY <1>6, <2>1, <2>2, <2>3 DEF Ucompthread
<1>. QED  BY <1>1, <1>2, <1>3, <1>4, <1>5, <1>6 DEF Next, Stopped, RunzipChunk

(* What a back end is given, at first and when it is tried again in turn,   *)
(* is the compressed block, and what a thread leaves is what was            *)
(* compressed, whenever no filter is taken off a block whose decompression  *)
(* failed.                                                                  *)
THEOREM DataAlwaysIntact ==
  ASSUME \A m \in Modes : ~(m.fails /\ m.filter)
  PROVE  Spec => []DataIntact
<1>1. Init => ContentSound
  BY DEF Init, ContentSound
<1>2. ContentSound /\ [Next]_vars => ContentSound'
  BY ContentSoundNext
<1>3. ContentSound => DataIntact
  BY DEF ContentSound, DataIntact
<1>. QED  BY <1>1, <1>2, <1>3, PTL DEF Spec
-----------------------------------------------------------------------------
(* The bytes of the chunk that are accounted for. *)

(* What the blocks of stream j take up to each block, with their headers.   *)
Sums(l, j, N, f) ==
  f = [k \in 0 .. N |->
         IF k = 0 THEN 0
         ELSE f[k - 1] + (IF l.block[k].stream = j THEN HeadLen + l.block[k].c_len ELSE 0)]
BytesOf(l, j) == CHOOSE f : Sums(l, j, Len(l.block), f)

(* Those of the blocks that fill_buffer has read.                           *)
Passed(j) ==
  IF s[j].eos THEN BytesOf(layout, j)[Len(layout.block)]
  ELSE BytesOf(layout, j)[AtIn(layout, s[j].last_head) - 1]

ReadSound ==
  /\ mode \in Modes /\ archive \in Archives /\ layout = Layout(archive, mode)
  /\ mpc = "closed" => pos = total_read
  /\ mpc # "fatal" /\ ~mode.encrypt => total_read = 2 * HeadLen + Passed(0) + Passed(1)

LEMMA SumsDefined ==
  ASSUME NEW l, NEW j, NEW N \in Nat
  PROVE  \E f : Sums(l, j, N, f)
<1>. DEFINE D(x) == \E f : Sums(l, j, x, f)
            G == {x \in Nat : D(x)}
            W(k) == IF l.block[k].stream = j THEN HeadLen + l.block[k].c_len ELSE 0
<1>1. D(0)
  <2>. DEFINE f == [k \in 0 .. 0 |-> 0]
  <2>1. f = [k \in 0 .. 0 |-> IF k = 0 THEN 0 ELSE f[k - 1] + W(k)]
    OBVIOUS
  <2>. QED  BY <2>1 DEF Sums
<1>2. ASSUME NEW x \in Nat, D(x) PROVE D(x + 1)
  <2>1. PICK f : f = [k \in 0 .. x |-> IF k = 0 THEN 0 ELSE f[k - 1] + W(k)]
    BY <1>2 DEF Sums
  <2>. HIDE DEF W
  <2>. DEFINE g == [k \in 0 .. x + 1 |-> IF k = x + 1 THEN f[x] + W(x + 1) ELSE f[k]]
  <2>2. ASSUME NEW k \in 0 .. x + 1
        PROVE  g[k] = IF k = 0 THEN 0 ELSE g[k - 1] + W(k)
    <3>1. CASE k = x + 1
      <4>1. k # 0 /\ k - 1 = x /\ x \in 0 .. x + 1 /\ x # x + 1
        BY <3>1
      <4>. QED  BY <3>1, <4>1
    <3>2. CASE k # x + 1
      <4>1. k \in 0 .. x /\ g[k] = f[k]
        BY <3>2
      <4>2. k # 0 => k - 1 \in 0 .. x + 1 /\ k - 1 # x + 1 /\ g[k - 1] = f[k - 1]
        BY <3>2
      <4>3. f[k] = IF k = 0 THEN 0 ELSE f[k - 1] + W(k)
        BY <2>1, <4>1
      <4>. HIDE DEF g
      <4>. QED  BY <4>1, <4>2, <4>3
    <3>. QED  BY <3>1, <3>2
  <2>3. g = [k \in 0 .. x + 1 |-> IF k = 0 THEN 0 ELSE g[k - 1] + W(k)]
    BY <2>2
  <2>. HIDE DEF g
  <2>. QED  BY <2>3 DEF Sums, W
<1>3. Nat \subseteq G
  <2>1. 0 \in G /\ \A x \in Nat : x \in G => x + 1 \in G
    <3>. HIDE DEF D
    <3>. QED  BY <1>1, <1>2
  <2>. HIDE DEF G
  <2>. QED  BY <2>1, SetInduction
<1>. HIDE DEF D
<1>4. D(N)
  BY <1>3
<1>. QED  BY <1>4 DEF D

(* The sums go up by a block of the stream, and by no other.                *)
LEMMA BytesOfFacts ==
  ASSUME NEW l, l.block \in Seq(BlockRec), NEW j \in Streams
  PROVE  /\ BytesOf(l, j)[0] = 0
         /\ \A k \in BlockNos(l) :
              BytesOf(l, j)[k] = BytesOf(l, j)[k - 1]
                + (IF l.block[k].stream = j THEN HeadLen + l.block[k].c_len ELSE 0)
         /\ \A k \in 0 .. Len(l.block) : BytesOf(l, j)[k] \in Nat
<1>1. PICK N \in Nat : N = Len(l.block)
  OBVIOUS
<1>2. PICK f : f = BytesOf(l, j) /\ Sums(l, j, N, f)
  <2>1. \E f : Sums(l, j, N, f)
    BY SumsDefined
  <2>. QED  BY <1>1, <2>1 DEF BytesOf
<1>3. f[0] = 0
  BY <1>2 DEF Sums
<1>4. ASSUME NEW k \in 1 .. N
      PROVE  f[k] = f[k - 1]
                    + (IF l.block[k].stream = j THEN HeadLen + l.block[k].c_len ELSE 0)
  <2>1. k \in 0 .. N /\ k # 0
    OBVIOUS
  <2>. QED  BY <1>2, <2>1 DEF Sums
<1>5. \A k \in 1 .. N : HeadLen + l.block[k].c_len \in Nat
  <2>. SUFFICES ASSUME NEW k \in 1 .. N PROVE HeadLen + l.block[k].c_len \in Nat
    OBVIOUS
  <2>1. l.block[k] \in BlockRec
    BY <1>1
  <2>2. l.block[k].c_len \in Nat
    BY <2>1 DEF BlockRec
  <2>. QED  BY <2>2 DEF HeadLen
<1>6. \A k \in 0 .. N : f[k] \in Nat
  <2>. DEFINE G == {k \in Nat : k <= N => f[k] \in Nat}
  <2>1. ASSUME NEW k \in Nat, k \in G PROVE k + 1 \in G
    <3>. SUFFICES ASSUME k + 1 <= N PROVE f[k + 1] \in Nat
      OBVIOUS
    <3>1. k + 1 \in 1 .. N /\ (k + 1) - 1 = k /\ k <= N
      OBVIOUS
    <3>2. f[k] \in Nat
      BY <2>1, <3>1
    <3>. QED  BY <1>4, <1>5, <3>1, <3>2
  <2>2. 0 \in G
    BY <1>3
  <2>3. Nat \subseteq G
    <3>. HIDE DEF G
    <3>. QED  BY <2>1, <2>2, SetInduction
  <2>. QED  BY <2>3
<1>. QED  BY <1>1, <1>2, <1>3, <1>4, <1>6 DEF BlockNos

(* They stay as they are where there is no block of the stream.             *)
LEMMA BytesOfStay ==
  ASSUME NEW l, l.block \in Seq(BlockRec), NEW j \in Streams,
         NEW k \in BlockNos(l), NEW h \in BlockNos(l), k <= h,
         \A i \in k + 1 .. h : l.block[i].stream # j
  PROVE  BytesOf(l, j)[h] = BytesOf(l, j)[k]
<1>1. PICK N \in Nat : N = Len(l.block) /\ BlockNos(l) = 1 .. N
  BY DEF BlockNos
<1>2. PICK f : f = BytesOf(l, j)
  OBVIOUS
<1>3. /\ \A i \in 1 .. N : f[i] = f[i - 1]
           + (IF l.block[i].stream = j THEN HeadLen + l.block[i].c_len ELSE 0)
      /\ \A i \in 0 .. N : f[i] \in Nat
  BY <1>1, <1>2, BytesOfFacts
<1>. DEFINE G == {d \in Nat : k + d <= h => f[k + d] = f[k]}
<1>4. 0 \in G
  BY <1>1
<1>5. ASSUME NEW d \in Nat, d \in G PROVE d + 1 \in G
  <2>. SUFFICES ASSUME k + (d + 1) <= h PROVE f[k + (d + 1)] = f[k]
    OBVIOUS
  <2>1. PICK i \in Nat : i = k + (d + 1) /\ i \in 1 .. N /\ i - 1 = k + d /\ i \in k + 1 .. h
                         /\ i - 1 \in 0 .. N
    BY <1>1
  <2>2. f[i - 1] = f[k]
    BY <1>1, <1>5, <2>1
  <2>3. f[i] = f[i - 1] + 0
    BY <1>3, <2>1
  <2>. QED  BY <1>3, <2>1, <2>2, <2>3
<1>6. Nat \subseteq G
  <2>. HIDE DEF G
  <2>. QED  BY <1>4, <1>5, SetInduction
<1>7. h - k \in Nat /\ k + (h - k) = h
  BY <1>1
<1>. QED  BY <1>1, <1>2, <1>6, <1>7

(* Both streams together fill the chunk. *)
LEMMA BytesOfAll ==
  ASSUME NEW l, ChainsSound(l)
  PROVE  l.end = 2 * HeadLen + BytesOf(l, 0)[Len(l.block)] + BytesOf(l, 1)[Len(l.block)]
<1>1. l.block \in Seq(BlockRec) /\ Tiled(l, l.end)
  BY DEF ChainsSound
<1>2. PICK N \in Nat : N = Len(l.block) /\ BlockNos(l) = 1 .. N
  BY <1>1 DEF BlockNos
<1>3. PICK f, g : f = BytesOf(l, 0) /\ g = BytesOf(l, 1)
  OBVIOUS
<1>4. /\ f[0] = 0 /\ g[0] = 0
      /\ \A i \in 0 .. N : f[i] \in Nat /\ g[i] \in Nat
      /\ \A i \in 1 .. N :
           /\ f[i] = f[i - 1] + (IF l.block[i].stream = 0 THEN HeadLen + l.block[i].c_len ELSE 0)
           /\ g[i] = g[i - 1] + (IF l.block[i].stream = 1 THEN HeadLen + l.block[i].c_len ELSE 0)
  <2>1. 0 \in Streams /\ 1 \in Streams
    BY DEF Streams
  <2>. QED  BY <1>1, <1>2, <1>3, <2>1, BytesOfFacts
<1>5. \A i \in 1 .. N : l.block[i].stream \in {0, 1} /\ l.block[i].c_len \in Nat
                        /\ l.block[i].off \in Nat
  <2>1. \A i \in 1 .. N : l.block[i] \in BlockRec
    BY <1>1, <1>2
  <2>. QED  BY <2>1 DEF BlockRec, Streams
<1>6. CASE N = 0
  BY <1>1, <1>2, <1>3, <1>4, <1>6 DEF Tiled, HeadLen
<1>7. CASE N # 0
  <2>. DEFINE G == {k \in Nat : k + 1 <= N =>
                      l.block[k + 1].off = 2 * HeadLen + f[k] + g[k]}
  <2>1. 0 \in G
    BY <1>1, <1>2, <1>4, <1>7 DEF Tiled, HeadLen
  <2>2. \A i \in 1 .. N : l.block[i].off + HeadLen + l.block[i].c_len
                            = IF i = N THEN l.end ELSE l.block[i + 1].off
    BY <1>1, <1>2 DEF Tiled
  <2>3. \A i \in 1 .. N : f[i] + g[i] = f[i - 1] + g[i - 1] + HeadLen + l.block[i].c_len
    <3>. TAKE i \in 1 .. N
    <3>1. /\ f[i] = f[i - 1] + (IF l.block[i].stream = 0 THEN HeadLen + l.block[i].c_len ELSE 0)
          /\ g[i] = g[i - 1] + (IF l.block[i].stream = 1 THEN HeadLen + l.block[i].c_len ELSE 0)
      BY <1>4
    <3>2. f[i - 1] \in Nat /\ g[i - 1] \in Nat
      BY <1>4
    <3>. QED  BY <1>5, <3>1, <3>2 DEF HeadLen
  <2>4. ASSUME NEW k \in Nat, k \in G PROVE k + 1 \in G
    <3>. SUFFICES ASSUME (k + 1) + 1 <= N
                  PROVE  l.block[(k + 1) + 1].off = 2 * HeadLen + f[k + 1] + g[k + 1]
      OBVIOUS
    <3>1. PICK i \in 1 .. N : i = k + 1 /\ i - 1 = k /\ i # N /\ i - 1 \in 0 .. N
      OBVIOUS
    <3>2. l.block[i].off = 2 * HeadLen + f[i - 1] + g[i - 1]
      BY <2>4, <3>1
    <3>3. l.block[i + 1].off = l.block[i].off + HeadLen + l.block[i].c_len
      BY <2>2, <3>1
    <3>4. f[i] + g[i] = f[i - 1] + g[i - 1] + HeadLen + l.block[i].c_len
      BY <2>3
    <3>5. f[i] \in Nat /\ g[i] \in Nat /\ f[i - 1] \in Nat /\ g[i - 1] \in Nat
          /\ l.block[i].c_len \in Nat
      BY <1>4, <1>5, <3>1
    <3>6. l.block[i + 1].off = 2 * HeadLen + f[i] + g[i]
      BY <3>2, <3>3, <3>4, <3>5 DEF HeadLen
    <3>. QED  BY <3>1, <3>6
  <2>5. Nat \subseteq G
    <3>. HIDE DEF G
    <3>. QED  BY <2>1, <2>4, SetInduction
  <2>6. PICK k \in Nat : k = N - 1 /\ k + 1 = N
    BY <1>7
  <2>7. l.block[N].off = 2 * HeadLen + f[k] + g[k]
    BY <2>5, <2>6
  <2>8. N \in 1 .. N /\ N - 1 = k /\ k \in 0 .. N /\ N \in 0 .. N
    BY <2>6
  <2>9. l.block[N].off + HeadLen + l.block[N].c_len = l.end
    BY <2>2, <2>8
  <2>10. f[N] + g[N] = f[k] + g[k] + HeadLen + l.block[N].c_len
    BY <2>3, <2>8
  <2>11. f[N] \in Nat /\ g[N] \in Nat /\ f[k] \in Nat /\ g[k] \in Nat
         /\ l.block[N].c_len \in Nat
    BY <1>4, <1>5, <2>8
  <2>12. l.end = 2 * HeadLen + f[N] + g[N]
    BY <2>7, <2>9, <2>10, <2>11 DEF HeadLen
  <2>. QED  BY <1>2, <1>3, <2>12
<1>. QED  BY <1>6, <1>7

(* Behind a block is the next one of its stream, or the stream ends.        *)
LEMMA BytesOfNext ==
  ASSUME NEW a, NEW r, NEW l, ChunkSound(a, l, r), ChainsSound(l),
         NEW j \in Streams, NEW k \in BlockNos(l), l.block[k].stream = j
  PROVE  /\ BytesOf(l, j)[k] = BytesOf(l, j)[k - 1] + HeadLen + l.block[k].c_len
         /\ BytesOf(l, j)[k - 1] \in Nat /\ l.block[k].c_len \in Nat
         /\ l.block[k].last_head = 0 => BytesOf(l, j)[Len(l.block)] = BytesOf(l, j)[k]
         /\ l.block[k].last_head # 0 =>
              BytesOf(l, j)[AtIn(l, l.block[k].last_head) - 1] = BytesOf(l, j)[k]
<1>1. l.block \in Seq(BlockRec)
  BY DEF ChainsSound
<1>2. PICK N \in Nat : N = Len(l.block) /\ BlockNos(l) = 1 .. N
  BY <1>1 DEF BlockNos
<1>3. PICK f : f = BytesOf(l, j)
  OBVIOUS
<1>4. /\ f[k] = f[k - 1] + (HeadLen + l.block[k].c_len)
      /\ f[k - 1] \in Nat /\ l.block[k].c_len \in Nat
  <2>1. k - 1 \in 0 .. N /\ l.block[k] \in BlockRec
    BY <1>1, <1>2
  <2>2. l.block[k].c_len \in Nat
    BY <2>1 DEF BlockRec
  <2>3. f[k] = f[k - 1] + (HeadLen + l.block[k].c_len)
    BY <1>1, <1>3, BytesOfFacts
  <2>4. f[k - 1] \in Nat
    BY <1>1, <1>2, <1>3, <2>1, BytesOfFacts
  <2>. QED  BY <2>2, <2>3, <2>4
<1>5. ASSUME l.block[k].last_head = 0 PROVE f[N] = f[k]
  <2>1. \A i \in k + 1 .. N : l.block[i].stream # j
    BY <1>2, <1>5 DEF ChainsSound
  <2>2. N \in BlockNos(l) /\ k <= N
    BY <1>2
  <2>. QED  BY <1>1, <1>3, <2>1, <2>2, BytesOfStay
<1>6. ASSUME l.block[k].last_head # 0
      PROVE  f[AtIn(l, l.block[k].last_head) - 1] = f[k]
  <2>1. PICK h : NextOf(l, k, h) /\ l.block[h].off = l.block[k].last_head
    BY <1>6 DEF ChainsSound, NextLinked
  <2>2. h \in 1 .. N /\ h > k /\ \A i \in k + 1 .. h - 1 : l.block[i].stream # j
    BY <1>2, <2>1 DEF NextOf
  <2>3. AtIn(l, l.block[k].last_head) = h
    BY <1>2, <2>1, <2>2, AtFacts
  <2>4. PICK g \in BlockNos(l) : g = h - 1 /\ k <= g
    BY <1>2, <2>2
  <2>5. \A i \in k + 1 .. g : l.block[i].stream # j
    BY <2>2, <2>4
  <2>6. f[g] = f[k]
    BY <1>1, <1>3, <2>4, <2>5, BytesOfStay
  <2>. QED  BY <2>3, <2>4, <2>6
<1>7. f[k] = f[k - 1] + HeadLen + l.block[k].c_len
  BY <1>4 DEF HeadLen
<1>. QED  BY <1>2, <1>3, <1>4, <1>5, <1>6, <1>7
(* A step that reads no header leaves it. *)
LEMMA ReadSoundQuiet ==
  ASSUME ReadSound, UNCHANGED fixed, total_read' = total_read,
         \A j \in Streams : s'[j].last_head = s[j].last_head /\ s'[j].eos = s[j].eos,
         mpc = "fatal" => mpc' = "fatal",
         mpc' = "closed" => pos' = total_read
  PROVE  ReadSound'
<1>1. \A j \in Streams : Passed(j)' = Passed(j)
  BY DEF Passed, fixed
<1>2. Passed(0)' = Passed(0) /\ Passed(1)' = Passed(1)
  BY <1>1 DEF Streams
<1>. QED  BY <1>2 DEF ReadSound, fixed

LEMMA PassedNumber ==
  ASSUME InInv, ChainsSound(layout), NEW i \in Streams
  PROVE  Passed(i) \in Nat
<1>1. layout.block \in Seq(BlockRec) /\ Len(layout.block) \in Nat
  BY DEF ChainsSound
<1>2. \A n \in 0 .. Len(layout.block) : BytesOf(layout, i)[n] \in Nat
  BY <1>1, BytesOfFacts
<1>3. CASE s[i].eos
  BY <1>1, <1>2, <1>3 DEF Passed
<1>4. CASE ~s[i].eos
  <2>1. PICK g \in BlockNos(layout) : layout.block[g].off = s[i].last_head
    BY <1>4 DEF InInv, HeadSound
  <2>2. AtIn(layout, s[i].last_head) = g
    BY <2>1, AtFacts DEF InInv
  <2>3. g - 1 \in 0 .. Len(layout.block)
    BY <1>1 DEF BlockNos
  <2>. QED  BY <1>2, <1>4, <2>2, <2>3 DEF Passed
<1>. QED  BY <1>3, <1>4

(* fill_buffer reads the header of a block k of stream j, and what is       *)
(* behind it.                                                               *)
LEMMA ReadSoundFill ==
  ASSUME InInv, ReadSound, UNCHANGED fixed, mpc = "fill", mpc' # "closed",
         NEW j \in Streams, ~s[j].eos, NEW k, k = AtIn(layout, s[j].last_head),
         \A i \in Streams \ {j} : s'[i].last_head = s[i].last_head /\ s'[i].eos = s[i].eos,
         s'[j].eos = (layout.block[k].last_head = 0),
         ~s'[j].eos => s'[j].last_head = layout.block[k].last_head,
         ~mode.encrypt => total_read' = total_read + HeadLen + layout.block[k].c_len
  PROVE  ReadSound'
<1>. SUFFICES ASSUME ~mode.encrypt
              PROVE  total_read' = 2 * HeadLen + Passed(0)' + Passed(1)'
  BY DEF ReadSound, fixed
<1>1. ChunkSound(archive, layout, reads) /\ ChainsSound(layout)
  BY LayoutLaid DEF InInv, ReadSound
<1>2. k \in BlockNos(layout) /\ layout.block[k].stream = j
  <2>1. At(s[j].last_head) = k
    BY DEF At, AtIn, BlockNos
  <2>. QED  BY <2>1, HeaderFacts DEF Header
<1>3. PICK f : f = BytesOf(layout, j)
  OBVIOUS
<1>4. /\ f[k] = f[k - 1] + HeadLen + layout.block[k].c_len
      /\ f[k - 1] \in Nat /\ layout.block[k].c_len \in Nat
      /\ layout.block[k].last_head = 0 => f[Len(layout.block)] = f[k]
      /\ layout.block[k].last_head # 0 => f[AtIn(layout, layout.block[k].last_head) - 1] = f[k]
  BY <1>1, <1>2, <1>3, BytesOfNext
<1>5. Passed(j) = f[k - 1]
  BY <1>3 DEF Passed
<1>6. Passed(j)' = f[k]
  <2>1. CASE layout.block[k].last_head = 0
    BY <1>3, <1>4, <2>1 DEF Passed, fixed
  <2>2. CASE layout.block[k].last_head # 0
    BY <1>3, <1>4, <2>2 DEF Passed, fixed
  <2>. QED  BY <2>1, <2>2
<1>7. PICK i \in Streams : i # j /\ {i, j} = {0, 1}
  BY DEF Streams
<1>8. Passed(i)' = Passed(i) /\ Passed(i) \in Nat
  <2>1. Passed(i)' = Passed(i)
    BY <1>7 DEF Passed, fixed
  <2>. QED  BY <1>1, <2>1, PassedNumber DEF InInv
<1>9. total_read = 2 * HeadLen + Passed(0) + Passed(1)
  BY DEF ReadSound
<1>10. total_read' = total_read + HeadLen + layout.block[k].c_len
  OBVIOUS
<1>11. CASE j = 0 /\ i = 1
  BY <1>4, <1>5, <1>6, <1>8, <1>9, <1>10, <1>11 DEF HeadLen
<1>12. CASE j = 1 /\ i = 0
  BY <1>4, <1>5, <1>6, <1>8, <1>9, <1>10, <1>12 DEF HeadLen
<1>. QED  BY <1>7, <1>11, <1>12 DEF Streams

LEMMA ReadSoundNext ==
  ASSUME InInv, ReadSound, [Next]_vars
  PROVE  ReadSound'
<1>0. s \in [Streams -> StreamRec]
  BY DEF InInv, MoreTypes
<1>1. CASE UNCHANGED vars
  BY <1>1, ReadSoundQuiet DEF vars, fixed, ReadSound
<1>2. CASE ReadUnit
  <2>1. /\ mpc = "run" /\ mpc' = mpc /\ UNCHANGED fixed /\ total_read' = total_read
        /\ s' = [s EXCEPT ![Current].bufp = @ + 1]
    BY <1>2 DEF ReadUnit
  <2>2. \A j \in Streams : s'[j].last_head = s[j].last_head /\ s'[j].eos = s[j].eos
    BY <1>0, <2>1 DEF StreamRec
  <2>. QED  BY <2>1, <2>2, ReadSoundQuiet
<1>3. CASE EnterFill
  <2>1. /\ mpc = "run" /\ mpc' \in {"out", "fill"} /\ UNCHANGED fixed
        /\ total_read' = total_read /\ s' = [s EXCEPT ![Current].buf = 0]
    BY <1>3 DEF EnterFill
  <2>2. \A j \in Streams : s'[j].last_head = s[j].last_head /\ s'[j].eos = s[j].eos
    BY <1>0, <2>1 DEF StreamRec
  <2>. QED  BY <2>1, <2>2, ReadSoundQuiet
<1>4. CASE FillRefuse
  <2>1. mpc' = "fatal" /\ UNCHANGED fixed
    BY <1>4 DEF FillRefuse, Fatally
  <2>. QED  BY <2>1 DEF ReadSound, fixed
<1>5. CASE FillEmpty
  <2>1. PICK j \in Streams : j = Current
    BY <1>5, FillFree DEF FillEmpty
  <2>2. /\ mpc = "fill" /\ mpc' = "out" /\ UNCHANGED fixed
        /\ total_read' = total_read + HeadLen /\ Empty(j)
        /\ s' = [s EXCEPT ![j].eos = TRUE]
    BY <1>5, <2>1 DEF FillEmpty
  <2>3. ~s[j].eos
    BY <2>1, <2>2 DEF InInv, MainSound
  <2>4. PICK k : k = AtIn(layout, s[j].last_head)
    OBVIOUS
  <2>5. layout.block[k].c_len = 0 /\ layout.block[k].last_head = 0
    BY <2>2, <2>4 DEF Empty, Header, At, AtIn, BlockNos
  <2>6. /\ s'[j].eos = TRUE
        /\ \A i \in Streams \ {j} : s'[i] = s[i]
    BY <1>0, <2>2 DEF StreamRec
  <2>7. ~mode.encrypt => total_read' = total_read + HeadLen + layout.block[k].c_len
    <3>. SUFFICES ASSUME ~mode.encrypt
                  PROVE  total_read' = total_read + HeadLen + layout.block[k].c_len
      OBVIOUS
    <3>1. total_read \in Nat
      <4>1. ChainsSound(layout)
        BY LayoutLaid DEF ReadSound
      <4>2. Passed(0) \in Nat /\ Passed(1) \in Nat
        BY <4>1, PassedNumber DEF Streams
      <4>3. total_read = 2 * HeadLen + Passed(0) + Passed(1)
        BY <2>2 DEF ReadSound
      <4>. QED  BY <4>2, <4>3 DEF HeadLen
    <3>. QED  BY <2>2, <2>5, <3>1 DEF HeadLen
  <2>8. s'[j].eos = (layout.block[k].last_head = 0)
    BY <2>5, <2>6
  <2>9. j \in Streams /\ mpc = "fill" /\ mpc' # "closed" /\ UNCHANGED fixed
    BY <2>1, <2>2
  <2>10. \A i \in Streams \ {j} : s'[i].last_head = s[i].last_head /\ s'[i].eos = s[i].eos
    BY <2>6
  <2>11. ~s'[j].eos => s'[j].last_head = layout.block[k].last_head
    BY <2>6
  <2>. QED  BY <2>3, <2>4, <2>7, <2>8, <2>9, <2>10, <2>11, ReadSoundFill
<1>6. CASE FillBlock
  <2>1. PICK j \in Streams : j = Current
    BY <1>6, FillFree DEF FillBlock
  <2>2. PICK k : k = AtIn(layout, s[j].last_head) /\ k = At(s[j].last_head)
    BY DEF At, AtIn, BlockNos
  <2>3. /\ mpc = "fill" /\ ~s[j].eos /\ UNCHANGED fixed
        /\ k \in BlockNos(layout) /\ BlockSound(archive, layout, k)
        /\ \A i \in Streams \ {j} : s'[i] = s[i]
        /\ s'[j].last_head = layout.block[k].last_head
        /\ s'[j].eos = (layout.block[k].last_head = 0)
        /\ mpc' \in {"fill", "out"}
    BY <1>6, <2>1, <2>2, FillBlockParts
  <2>4. ~mode.encrypt => total_read' = total_read + HeadLen + layout.block[k].c_len
    <3>. SUFFICES ASSUME ~mode.encrypt
                  PROVE  total_read' = total_read + HeadLen + layout.block[k].c_len
      OBVIOUS
    <3>1. Header(j) = layout.block[k]
      BY <2>2 DEF Header
    <3>2. total_read' = total_read + HeadLen + MAX(layout.block[k].c_len, 0)
      BY <1>6, <2>1, <3>1 DEF FillBlock
    <3>3. layout.block[k].c_len \in Nat
      BY <2>3 DEF BlockSound
    <3>4. MAX(layout.block[k].c_len, 0) = layout.block[k].c_len
      BY <3>3 DEF MAX
    <3>. QED  BY <3>2, <3>4
  <2>. QED  BY <2>2, <2>3, <2>4, ReadSoundFill
<1>7. CASE PassTurn
  <2>1. mpc = "out" /\ mpc' = "join" /\ UNCHANGED fixed /\ total_read' = total_read /\ s' = s
    BY <1>7 DEF PassTurn
  <2>. QED  BY <2>1, ReadSoundQuiet
<1>8. CASE Join
  <2>1. PICK j \in Streams : j = Current
    <3>1. reads \in Seq(Streams) /\ rp \in 1 .. Len(reads) /\ mpc = "join"
      BY <1>8, InvTypes DEF Join, InInv, MainSound
    <3>. QED  BY <3>1 DEF Current
  <2>2. /\ mpc = "join" /\ mpc' = "run" /\ UNCHANGED fixed
        /\ s'[j].last_head = s[j].last_head /\ s'[j].eos = s[j].eos
        /\ \A i \in Streams \ {j} : s'[i] = s[i]
    BY <1>8, <2>1, JoinParts
  <2>3. total_read' = total_read
    BY <1>8 DEF Join
  <2>4. \A i \in Streams : s'[i].last_head = s[i].last_head /\ s'[i].eos = s[i].eos
    BY <2>2
  <2>. QED  BY <2>2, <2>3, <2>4, ReadSoundQuiet
<1>9. CASE CloseStreamIn
  <2>1. mpc = "run" /\ pos' = total_read /\ UNCHANGED fixed /\ total_read' = total_read /\ s' = s
    BY <1>9 DEF CloseStreamIn
  <2>. QED  BY <2>1, ReadSoundQuiet
<1>10. ASSUME NEW i \in Slots, Ucompthread(i) PROVE ReadSound'
  <2>1. /\ mpc # "fatal" /\ mpc' \in {mpc, "fatal"} /\ UNCHANGED fixed
        /\ total_read' = total_read /\ s' = s /\ pos' = pos
    BY <1>10 DEF Ucompthread, Decompress, DecompressFail, DecompressFatal, Sleep, TakeTurn,
                 Alive, Fatally
  <2>2. mpc' = "closed" => pos' = total_read
    BY <2>1 DEF ReadSound
  <2>. QED  BY <2>1, <2>2, ReadSoundQuiet
<1>. QED  BY <1>1, <1>2, <1>3, <1>4, <1>5, <1>6, <1>7, <1>8, <1>9, <1>10
          DEF Next, RunzipChunk, Stopped

LEMMA ReadSoundInit ==
  ASSUME InInv, Init
  PROVE  ReadSound
<1>1. /\ mode \in Modes /\ archive \in Archives /\ layout = Layout(archive, mode)
      /\ mpc = "run" /\ total_read = 2 * HeadLen
      /\ \A j \in Streams : s[j].last_head = layout.head[j] /\ s[j].eos = FALSE
  BY DEF Init
<1>2. ASSUME ~mode.encrypt, NEW j \in Streams PROVE Passed(j) = 0
  <2>1. ChainsSound(layout)
    BY <1>1, <1>2, LayoutLaid
  <2>2. layout.block \in Seq(BlockRec)
    BY <2>1 DEF ChainsSound
  <2>3. PICK k : FirstOf(layout, j, k) /\ layout.block[k].off = s[j].last_head
    BY <1>1, <2>1 DEF ChainsSound
  <2>4. k \in BlockNos(layout) /\ k \in Nat /\ k > 0
    BY <2>3 DEF FirstOf, BlockNos
  <2>5. AtIn(layout, s[j].last_head) = k
    BY <2>3, <2>4, AtFacts DEF InInv
  <2>6. Passed(j) = BytesOf(layout, j)[k - 1]
    BY <1>1, <2>5 DEF Passed
  <2>7. BytesOf(layout, j)[0] = 0
    BY <2>2, BytesOfFacts
  <2>8. CASE k = 1
    BY <2>6, <2>7, <2>8
  <2>9. CASE k # 1
    <3>1. PICK g \in BlockNos(layout) : g = k - 1 /\ 1 <= g /\ 1 \in BlockNos(layout)
      BY <2>2, <2>4, <2>9 DEF BlockNos
    <3>2. \A i \in 1 .. g : layout.block[i].stream # j
      BY <2>3, <3>1 DEF FirstOf
    <3>3. \A i \in 1 + 1 .. g : layout.block[i].stream # j
      BY <3>2
    <3>4. BytesOf(layout, j)[g] = BytesOf(layout, j)[1]
      BY <2>2, <3>1, <3>3, BytesOfStay
    <3>5. BytesOf(layout, j)[1] = BytesOf(layout, j)[1 - 1] + 0
      <4>1. layout.block[1].stream # j
        BY <3>1, <3>2
      <4>. QED  BY <2>2, <3>1, <4>1, BytesOfFacts
    <3>. QED  BY <2>6, <2>7, <3>1, <3>4, <3>5
  <2>. QED  BY <2>8, <2>9
<1>3. ~mode.encrypt => total_read = 2 * HeadLen + Passed(0) + Passed(1)
  <2>. SUFFICES ASSUME ~mode.encrypt PROVE total_read = 2 * HeadLen + Passed(0) + Passed(1)
    OBVIOUS
  <2>1. Passed(0) = 0 /\ Passed(1) = 0
    BY <1>2 DEF Streams
  <2>. QED  BY <1>1, <2>1 DEF HeadLen
<1>. QED  BY <1>1, <1>3 DEF ReadSound

(* When both chains were followed to their ends, close_stream_in leaves the  *)
(* file at the end of the chunk: total_read leaves out no block and counts   *)
(* none twice, in whatever order the two streams were read ahead.            *)
THEOREM ChainsAlwaysAccounted == Spec => []ChainsAccounted
<1>1. Init => ReadSound
  BY ChunksSound, InInvInit, ReadSoundInit
<1>2. InInv /\ ReadSound /\ [Next]_vars => ReadSound'
  BY ReadSoundNext
<1>3. ReadSound => ChainsAccounted
  <2>. SUFFICES ASSUME ReadSound, mpc = "closed", s[0].eos, s[1].eos, ~mode.encrypt
                PROVE  pos = layout.end
    BY DEF ChainsAccounted
  <2>1. ChainsSound(layout)
    BY LayoutLaid DEF ReadSound
  <2>2. pos = 2 * HeadLen + BytesOf(layout, 0)[Len(layout.block)]
                          + BytesOf(layout, 1)[Len(layout.block)]
    BY DEF ReadSound, Passed
  <2>. QED  BY <2>1, <2>2, BytesOfAll
<1>. QED  BY <1>1, <1>2, <1>3, StreamInInvariant, PTL DEF Spec

(* So a chunk that the back ends could compress is never refused, and the   *)
(* next chunk is found behind one that was read whole.                      *)
THEOREM ChunksReadWhole == Spec => []ChunkWhole
<1>1. CompressibleAccepted /\ ChainsAccounted => ChunkWhole
  BY DEF ChunkWhole
<1>. QED  BY <1>1, CompressibleAlwaysAccepted, ChainsAlwaysAccounted, PTL
=============================================================================
