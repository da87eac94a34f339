---------------------------- MODULE RunzipProofs ----------------------------

(***************************************************************************)
(* Proofs about runzip_fd and the temporary buffers, for every archive,    *)
(* every order of its blocks and all sizes of the buffers.                 *)
(*                                                                         *)
(* The invariant of the output says where the bytes of the chunks before   *)
(* are and where those of this chunk, while the buffer holds them and      *)
(* after it went to a file.  The invariant of the input says that what     *)
(* read_fdin took from standard input is where fill_buffer will look for   *)
(* it; or else a block that is still to be read is lost, which cannot      *)
(* happen unless SkipsBack.                                                *)
(***************************************************************************)
EXTENDS Runzip, WellFoundedInduction, SequenceTheorems, TLAPS

-----------------------------------------------------------------------------
(* The options, and the place in the archive. *)

Modes == {"file", "stdout", "test"}

Reading == {"open", "heads", "blocks", "data", "tokens"}

Writing == {"magic", "chunk", "write", "flush"}

Read == conf.mode \in Modes

ReadConf(f) ==
  /\ f.mode \in Modes /\ f.chunks \in Programs /\ f.layout \in Layouts
  /\ f.stdin \in BOOLEAN /\ f.hashed \in BOOLEAN /\ f.check \in BOOLEAN
  /\ f.check => f.mode # "stdout" /\ f.hashed
  /\ f.meant = Whole(f.chunks) /\ f.expected \in {0, Len(Whole(f.chunks))}

WriteConf(f) ==
  /\ f.mode = "compress" /\ f.chunks \in Writes /\ f.layout = <<>> /\ f.hashed
  /\ f.meant = <<"magic">> \o Whole(f.chunks)

ConfInv == ReadConf(conf) \/ WriteConf(conf)

AtToken == chunk \in DOMAIN conf.chunks /\ tok \in 1 .. Len(Tokens) + 1

PlaceInv ==
  /\ tok \in Nat \ {0} /\ need \subseteq DOMAIN conf.layout
  /\ fate \in {"run", "ok", "refused", "garbage", "fatal"}
  /\ Running /\ Read =>
       /\ phase \in Reading \cup {"hash"}
       /\ phase \in Reading => AtToken
       /\ phase \in Reading \ {"tokens"} => tok = 1
       /\ phase = "hash" => chunk = Len(conf.chunks) + 1
  /\ Running /\ ~Read =>
       /\ phase \in Writing
       /\ phase \in {"magic", "chunk", "write"} => AtToken
       /\ phase \in {"magic", "chunk"} => tok = 1

-----------------------------------------------------------------------------
(* The output. *)

Datum == {0, "magic"} \cup (Nat \X Nat \X Nat)

OutRec == [on : BOOLEAN, max : Nat \ {0}, buf : Seq(Datum), ofs : Int, relofs : Nat,
           fd : {"file", "stdin"}, file : Seq(Datum), pos : Nat, out : Seq(Datum),
           lost : BOOLEAN, failed : BOOLEAN]

(* The bytes of the chunks before chunk c, and those of chunk c so far. *)
Prior(f, c) == Joined(Senses(f.chunks))[c - 1]

Sofar(f, c, t) == Sense(c, f.chunks[c])[t - 1]

(* What is in the file in front of this chunk's bytes. *)
Front(mode, prev, x) ==
  /\ mode = "file" => x = prev
  /\ mode = "stdout" => x = <<>>

OutSound(o, mode, prev, done) ==
  /\ o \in OutRec /\ o.fd = "file" /\ o.pos = Len(o.file)
  /\ mode = "stdout" => o.out = prev
  /\ IF o.on
     THEN o.buf = done /\ o.ofs = Len(done) /\ Len(done) <= o.max /\ Front(mode, prev, o.file)
     ELSE \E x \in Seq(Datum) : Front(mode, prev, x) /\ o.file = x \o done

(* Which of the two sums is taken. *)
SumSound(d) ==
  /\ conf.hashed => hash = d /\ crc = <<>>
  /\ ~conf.hashed => crc = d /\ hash = <<>>
  /\ total = Len(d)

DataInv ==
  Running /\ Read =>
    /\ phase \in Reading =>
         /\ OutSound(out, conf.mode, Prior(conf, chunk), Sofar(conf, chunk, tok))
         /\ SumSound(Prior(conf, chunk) \o Sofar(conf, chunk, tok))
    /\ phase = "hash" => OutSound(out, conf.mode, conf.meant, <<>>) /\ SumSound(conf.meant)

(* The bounds of the buffer, whatever became of the run. *)
Bounded(o) == o.on => o.ofs \in 0 .. Len(o.buf) /\ Len(o.buf) <= o.max

(* Compression: what went out, and what is in the buffer. *)
Magic == <<"magic">>

WriteSound(o, f, ph, c, t) ==
  CASE ph = "magic" -> o.out = <<>> /\ o.buf = <<0>> /\ o.relofs = 0 /\ c = 1 /\ total = 0
    [] ph = "chunk" -> o.out \o o.buf = Magic \o Prior(f, c) /\ total = 0
    [] ph = "write" -> /\ o.out = Magic \o Prior(f, c) /\ o.buf = Sofar(f, c, t)
                       /\ start = o.relofs /\ total = Len(Sofar(f, c, t))
    [] OTHER -> o.out \o o.buf = f.meant

WriteRec(o) == o \in OutRec /\ o.fd = "stdin" /\ o.on = ~o.lost

WriteInv ==
  ~Read =>
    /\ WriteRec(out)
    /\ inp.on = FALSE
    /\ Running /\ ~out.lost => WriteSound(out, conf, phase, chunk, tok)

(* What the run comes to. *)
EndInv ==
  /\ Bounded(out)
  /\ phase = "end" => ~Running
  /\ OutputExact /\ CompressedExact /\ GoodAccepted /\ StdinFaithful

-----------------------------------------------------------------------------
(* The input. *)

InRec == [on : BOOLEAN, all : Seq(Nat), src : Nat, mem : Seq(Nat), len : Nat, ofs : Nat,
          max : Nat, file : Seq(Nat), pos : Nat, eof : BOOLEAN]

(* Where the header of block b is in its chunk, and the blocks that were read. *)
HeadAt(b) == HeadLen + 2 * (b - 1)

Done == DOMAIN conf.layout \ need

Tight(n) == n.max < ChunkLen(conf.layout) \/ SkipsBack(conf.layout)

(* The blocks of a stream are read in order; those behind the last one read    *)
(* are of the other stream.                                                    *)
OrderInv ==
  Running /\ phase \in {"blocks", "data"} =>
    /\ \A y \in Done, x \in need : conf.layout[x] = conf.layout[y] => y < x
    /\ Done # {} => blk \in Done
    /\ phase = "data" => Done # {}
    /\ \A y \in Done : y > blk => conf.layout[y] # conf.layout[blk]

(* How much was taken of standard input, of a chunk that begins behind base:   *)
(* what is in the buffer is older than what is still to come.                  *)
Taken(n, base) ==
  /\ n.src = base + n.len /\ n.ofs <= n.len /\ n.len <= Len(n.mem) /\ n.src <= Len(n.all)
  /\ \A j \in 1 .. Len(n.mem) : n.mem[j] <= n.src

Begun(n, base) == n.ofs >= 1 /\ n.mem[1] = base + 1

(* All of it is where it belongs. *)
Filled(n, base) == n.len <= n.max /\ \A j \in 1 .. n.len : n.mem[j] = base + j

(* The byte at p, which was taken, is not where it belongs. *)
Spoilt(n, base, p) == p < n.len /\ n.mem[p + 1] # base + p + 1

(* How far the chunk is in memory, and where the reader is in it, in phase ph, *)
(* when the blocks in done were read, b the last one read of them, and last    *)
(* the one furthest back.                                                      *)
Reach(n, last, ph, b) ==
  CASE ph = "heads" -> n.len = 1 /\ n.ofs = 1
    [] ph = "data" -> n.len = IF last = b THEN n.ofs ELSE HeadLen + 2 * last
    [] OTHER -> /\ n.len = HeadLen + 2 * last
                /\ n.ofs = IF last = 0 THEN HeadLen ELSE HeadAt(b) + 2

LastRead(last, done) == (\A y \in done : y <= last) /\ (last = 0 \/ last \in done)

GoodAt(n, base, nl, ph, done, b) ==
  /\ Filled(n, base)
  /\ \E last \in 0 .. nl : (ph # "heads" => LastRead(last, done)) /\ Reach(n, last, ph, b)

Good(n, base) == GoodAt(n, base, Len(conf.layout), phase, Done, blk)

Lost(n, base) ==
  /\ phase \in {"blocks", "data"} /\ SkipsBack(conf.layout)
  /\ \E x \in need : Spoilt(n, base, HeadAt(x))

OnSound(n, base) ==
  /\ Taken(n, base)
  /\ IF phase = "open" THEN n.len = 0
     ELSE /\ start = 1 /\ Begun(n, base) /\ (Good(n, base) \/ Lost(n, base))
          /\ phase = "data" => n.ofs = HeadAt(blk) + 1

(* The file from position o of the archive on. *)
Suffix(n, o) ==
  Len(n.file) = Len(n.all) - o /\ \A j \in 1 .. Len(n.file) : n.file[j] = o + j

(* The byte at p of the file is not the one that belongs there. *)
Missing(n, o, p) == ~(p + 1 \in 1 .. Len(n.file) /\ n.file[p + 1] = o + p + 1)

LostInFile(n, base, o) ==
  /\ phase \in {"blocks", "data"} /\ conf.stdin /\ SkipsBack(conf.layout)
  /\ \E x \in need : Missing(n, o, base - o + HeadAt(x))

PosOff ==
  CASE phase = "open" -> 0
    [] phase = "heads" -> 1
    [] OTHER -> HeadAt(blk) + 1

Emptied(n) == conf.stdin /\ conf.mode = "test" /\ n.file = <<>>

OffSound(n, base) ==
  /\ conf.stdin => Tight(n)
  /\ \/ phase = "open" /\ Emptied(n)
     \/ \E o \in 0 .. base :
          /\ ~conf.stdin => o = 0
          /\ phase # "open" => start = base - o + 1
          /\ phase \in {"open", "heads", "data"} => n.pos = base - o + PosOff
          /\ Suffix(n, o) \/ LostInFile(n, base, o)

(* When the last chunk was read. *)
LeftSound(n) ==
  IF n.on THEN n.src = Len(n.all) - 1 /\ n.len = 0
          ELSE Emptied(n) \/ \E o \in 0 .. Len(n.all) - 1 : Suffix(n, o)

InInv ==
  Running /\ Read =>
    /\ inp \in InRec /\ ~inp.eof /\ inp.all = ArchiveBytes(conf.chunks, conf.layout)
    /\ conf.stdin => inp.max \in InMax
    /\ inp.on => conf.stdin
    /\ phase = "tokens" => need = {}
    /\ phase \in Reading =>
         IF inp.on THEN OnSound(inp, ChunkStart) ELSE OffSound(inp, ChunkStart)
    /\ phase = "hash" => LeftSound(inp)

RunzipInv == ConfInv /\ PlaceInv /\ DataInv /\ WriteInv /\ EndInv /\ OrderInv /\ InInv
-----------------------------------------------------------------------------
(* Numbers. *)

(* A set of numbers that is not empty has a least one.                      *)
LEMMA LeastOf ==
  ASSUME NEW T \in SUBSET Nat, T # {}
  PROVE  \E n \in T : \A k \in T : n <= k
<1>. DEFINE R == OpToRel(<, Nat)
<1>1. IsWellFoundedOn(R, Nat)
  BY NatLessThanWellFounded, Zenon
<1>2. \A x, y \in Nat : x < y => <<x, y>> \in R
  BY DEF OpToRel
<1>. HIDE DEF R
<1>3. PICK n \in T : \A k \in T : ~(<<k, n>> \in R)
  BY <1>1, WFMin
<1>4. \A k \in T : k \in Nat /\ n \in Nat /\ ~(k < n)
  BY <1>2, <1>3
<1>. QED  BY <1>4

(* A set with 0 and the successor of each of its numbers has them all.      *)
LEMMA AllNumbers ==
  ASSUME NEW G, 0 \in G, \A x \in Nat : x \in G => x + 1 \in G
  PROVE  Nat \subseteq G
<1>. SUFFICES ASSUME Nat \ G # {} PROVE FALSE
  OBVIOUS
<1>1. PICK n \in Nat \ G : \A k \in Nat \ G : n <= k
  BY LeastOf
<1>2. n # 0 /\ n - 1 \in Nat /\ n - 1 \notin Nat \ G
  BY <1>1
<1>. QED  BY <1>1, <1>2

(* Division with remainder. *)
LEMMA DivUnique ==
  \A a, n, q, r \in Nat : r < n /\ a = q * n + r => a % n = r /\ a \div n = q
  OBVIOUS

LEMMA DivFacts ==
  \A a, n \in Nat : n > 0 =>
    a = (a \div n) * n + (a % n) /\ a \div n \in Nat /\ a % n \in 0 .. n - 1
  OBVIOUS

-----------------------------------------------------------------------------
(* Sequences. *)

HasZero(S) == 0 \in S

LEMMA LeastIs == \A a, b \in Nat : Least(a, b) \in Nat /\ Least(a, b) <= a /\ Least(a, b) <= b
  BY DEF Least

LEMMA SliceIs ==
  ASSUME NEW S, NEW s \in Seq(S), NEW a \in Nat \ {0}, NEW b \in Nat
  PROVE  /\ Slice(s, a, b) \in Seq(S)
         /\ b <= Len(s) => Len(Slice(s, a, b)) = IF a <= b THEN b - a + 1 ELSE 0
         /\ b >= Len(s) => Len(Slice(s, a, b)) = IF a <= Len(s) THEN Len(s) - a + 1 ELSE 0
         /\ \A j \in 1 .. Len(Slice(s, a, b)) :
              Slice(s, a, b)[j] = s[a + j - 1] /\ a + j - 1 \in 1 .. Len(s)
<1>1. PICK n \in Nat : n = Len(s)
  OBVIOUS
<1>2. PICK m \in Nat : m = Least(b, n) /\ m <= b /\ m <= n
  BY LeastIs
<1>3. (b <= n => m = b) /\ (b >= n => m = n)
  BY <1>2 DEF Least
<1>4. \A i \in a .. m : s[i] \in S
  BY <1>1, <1>2
<1>5. /\ SubSeq(s, a, m) \in Seq(S)
      /\ Len(SubSeq(s, a, m)) = IF a <= m THEN m - a + 1 ELSE 0
      /\ \A i \in 1 .. m - a + 1 : SubSeq(s, a, m)[i] = s[a + i - 1]
  BY <1>4, SubSeqProperties
<1>6. Slice(s, a, b) = SubSeq(s, a, m)
  BY <1>1, <1>2 DEF Slice
<1>7. \A j \in 1 .. Len(SubSeq(s, a, m)) : j \in 1 .. m - a + 1 /\ a + j - 1 \in 1 .. n
  BY <1>2, <1>5
<1>. QED  BY <1>1, <1>3, <1>5, <1>6, <1>7

(* ConcatProperties, with the lengths and the result by name. *)
LEMMA ConcatIs ==
  ASSUME NEW S, NEW s \in Seq(S), NEW t \in Seq(S), NEW u, u = s \o t,
         NEW a, NEW b, Len(s) = a, Len(t) = b
  PROVE  /\ u \in Seq(S) /\ Len(u) = a + b /\ a \in Nat /\ b \in Nat
         /\ \A i \in 1 .. a + b : u[i] = IF i <= a THEN s[i] ELSE t[i - a]
<1>1. Len(s) \in Nat /\ Len(t) \in Nat
  BY LenProperties
<1>2. /\ s \o t \in Seq(S)
      /\ Len(s \o t) = Len(s) + Len(t)
      /\ \A i \in 1 .. Len(s) + Len(t) : (s \o t)[i] = IF i <= Len(s) THEN s[i] ELSE t[i - Len(s)]
  BY ConcatProperties
<1>. QED  BY <1>1, <1>2

(* What WriteAt leaves. *)
LEMMA WriteAtIs ==
  ASSUME NEW S, HasZero(S), NEW s \in Seq(S), NEW at \in Nat, NEW d \in Seq(S)
  PROVE  /\ WriteAt(s, at, d) \in Seq(S)
         /\ Len(WriteAt(s, at, d)) = IF at + Len(d) > Len(s) THEN at + Len(d) ELSE Len(s)
         /\ \A j \in 1 .. Len(WriteAt(s, at, d)) :
              WriteAt(s, at, d)[j] = IF j > at /\ j <= at + Len(d) THEN d[j - at]
                                     ELSE IF j <= Len(s) THEN s[j] ELSE 0
<1>1. PICK n \in Nat, k \in Nat : n = Len(s) /\ k = Len(d)
  OBVIOUS
<1>2. PICK g \in Nat : g = IF at > n THEN at - n ELSE 0
  <2>1. CASE at > n
    BY <2>1
  <2>2. CASE ~(at > n)
    BY <2>2
  <2>. QED  BY <2>1, <2>2
<1>. DEFINE gap == [j \in 1 .. g |-> 0]
<1>3. gap \in Seq(S) /\ Len(gap) = g /\ \A j \in 1 .. g : gap[j] = 0
  BY DEF HasZero
<1>4. PICK x : x = Slice(s, 1, at)
  OBVIOUS
<1>5. PICK z : z = Slice(s, at + k + 1, n)
  OBVIOUS
<1>6. /\ x \in Seq(S) /\ Len(x) = (IF at <= n THEN at ELSE n)
      /\ \A j \in 1 .. Len(x) : x[j] = s[j]
  <2>1. 1 \in Nat \ {0}
    OBVIOUS
  <2>2. /\ Slice(s, 1, at) \in Seq(S)
        /\ at <= Len(s) => Len(Slice(s, 1, at)) = IF 1 <= at THEN at - 1 + 1 ELSE 0
        /\ at >= Len(s) => Len(Slice(s, 1, at)) = IF 1 <= Len(s) THEN Len(s) - 1 + 1 ELSE 0
        /\ \A j \in 1 .. Len(Slice(s, 1, at)) :
             Slice(s, 1, at)[j] = s[1 + j - 1] /\ 1 + j - 1 \in 1 .. Len(s)
    BY <2>1, SliceIs
  <2>3. /\ x \in Seq(S)
        /\ at <= n => Len(x) = IF 1 <= at THEN at - 1 + 1 ELSE 0
        /\ at >= n => Len(x) = IF 1 <= n THEN n - 1 + 1 ELSE 0
        /\ \A j \in 1 .. Len(x) : x[j] = s[1 + j - 1]
    BY <2>2, <1>1, <1>4
  <2>4. \A j \in 1 .. Len(x) : 1 + j - 1 = j
    BY <2>3
  <2>5. Len(x) = IF at <= n THEN at ELSE n
    BY <2>3
  <2>. QED  BY <2>3, <2>4, <2>5
<1>7. /\ z \in Seq(S) /\ Len(z) = (IF at + k < n THEN n - at - k ELSE 0)
      /\ \A j \in 1 .. Len(z) : z[j] = s[at + k + j]
  <2>1. at + k + 1 \in Nat \ {0} /\ n <= n
    OBVIOUS
  <2>2. /\ z \in Seq(S)
        /\ Len(z) = IF at + k + 1 <= n THEN n - (at + k + 1) + 1 ELSE 0
        /\ \A j \in 1 .. Len(z) : z[j] = s[at + k + 1 + j - 1]
    BY <1>1, <1>5, <2>1, SliceIs, SMTT(30)
  <2>3. \A j \in 1 .. Len(z) : at + k + 1 + j - 1 = at + k + j
    BY <2>2
  <2>. QED  BY <2>2, <2>3
<1>8. WriteAt(s, at, d) = x \o gap \o d \o z
  BY <1>1, <1>2, <1>4, <1>5 DEF WriteAt
<1>. HIDE DEF gap
<1>9. PICK l \in Nat, m \in Nat : l = Len(x) /\ m = Len(z)
  <2>1. Len(x) \in Nat /\ Len(z) \in Nat
    BY <1>6, <1>7, LenProperties
  <2>. QED  BY <2>1
<1>10. PICK u : u = x \o gap
  OBVIOUS
<1>11. /\ u \in Seq(S) /\ Len(u) = l + g
       /\ \A j \in 1 .. l + g : u[j] = IF j <= l THEN x[j] ELSE gap[j - l]
  <2>1. x \in Seq(S) /\ gap \in Seq(S) /\ Len(x) = l /\ Len(gap) = g
    BY <1>3, <1>6, <1>9
  <2>2. /\ x \o gap \in Seq(S) /\ Len(x \o gap) = Len(x) + Len(gap)
        /\ \A j \in 1 .. Len(x) + Len(gap) :
             (x \o gap)[j] = IF j <= Len(x) THEN x[j] ELSE gap[j - Len(x)]
    BY <2>1, ConcatProperties
  <2>. QED  BY <2>1, <2>2, <1>10
<1>12. PICK v : v = u \o d
  OBVIOUS
<1>13. /\ v \in Seq(S) /\ Len(v) = (l + g) + k
       /\ \A j \in 1 .. (l + g) + k : v[j] = IF j <= l + g THEN u[j] ELSE d[j - (l + g)]
  BY <1>1, <1>11, <1>12, ConcatIs, SMTT(30)
<1>14. PICK w : w = v \o z
  OBVIOUS
<1>15. l + g = at
  BY <1>2, <1>6, <1>9
<1>16. /\ v \in Seq(S) /\ Len(v) = at + k
       /\ \A j \in 1 .. at + k : v[j] = IF j <= at THEN u[j] ELSE d[j - at]
  BY <1>13, <1>15
<1>17. /\ w \in Seq(S) /\ Len(w) = at + k + m
       /\ \A j \in 1 .. at + k + m : w[j] = IF j <= at + k THEN v[j] ELSE z[j - (at + k)]
  <2>1. v \in Seq(S) /\ z \in Seq(S) /\ Len(v) = at + k /\ Len(z) = m
    BY <1>7, <1>9, <1>16
  <2>2. /\ v \o z \in Seq(S) /\ Len(v \o z) = Len(v) + Len(z)
        /\ \A j \in 1 .. Len(v) + Len(z) :
             (v \o z)[j] = IF j <= Len(v) THEN v[j] ELSE z[j - Len(v)]
    BY <2>1, ConcatProperties
  <2>. QED  BY <2>1, <2>2, <1>14
<1>18. Len(w) = IF at + k > n THEN at + k ELSE n
  BY <1>7, <1>9, <1>17
<1>19. ASSUME NEW j \in 1 .. Len(w)
       PROVE  w[j] = IF j > at /\ j <= at + k THEN d[j - at] ELSE IF j <= n THEN s[j] ELSE 0
  <2>1. j \in Nat /\ j >= 1 /\ j <= at + k + m
    BY <1>17
  <2>2. CASE j > at /\ j <= at + k
    <3>1. w[j] = v[j] /\ v[j] = d[j - at]
      BY <2>1, <2>2, <1>16, <1>17
    <3>. QED  BY <2>2, <3>1
  <2>3. CASE j > at + k
    <3>0. j \in 1 .. at + k + m /\ ~(j <= at + k)
      BY <2>1, <2>3
    <3>1. w[j] = z[j - (at + k)] /\ j - (at + k) \in 1 .. Len(z)
      <4>1. w[j] = z[j - (at + k)]
        BY <3>0, <1>17
      <4>2. j - (at + k) \in 1 .. m
        BY <3>0
      <4>. QED  BY <4>1, <4>2, <1>9
    <3>2. at + k + (j - (at + k)) = j /\ j <= n
      BY <2>1, <3>1, <1>7, <1>9
    <3>3. z[j - (at + k)] = s[at + k + (j - (at + k))]
      BY <3>1, <1>7
    <3>. QED  BY <2>1, <2>3, <3>1, <3>2, <3>3
  <2>4. CASE j <= at
    <3>1. w[j] = v[j] /\ v[j] = u[j] /\ j \in 1 .. l + g
      BY <2>1, <2>4, <1>15, <1>16, <1>17
    <3>2. CASE j <= l
      <4>1. u[j] = x[j] /\ x[j] = s[j]
        BY <2>1, <3>1, <3>2, <1>6, <1>9, <1>11
      <4>2. j <= n
        BY <2>1, <3>2, <1>6, <1>9
      <4>. QED  BY <2>1, <2>4, <3>1, <4>1, <4>2
    <3>3. CASE j > l
      <4>1. u[j] = gap[j - l] /\ j - l \in 1 .. g
        BY <2>1, <3>1, <3>3, <1>11
      <4>2. gap[j - l] = 0
        BY <4>1, <1>3
      <4>3. j > n
        BY <2>1, <3>3, <2>4, <1>6, <1>9
      <4>. QED  BY <2>1, <2>4, <3>1, <4>1, <4>2, <4>3
    <3>. QED  BY <2>1, <3>2, <3>3, <1>9
  <2>. QED  BY <2>1, <2>2, <2>3, <2>4
<1>20. WriteAt(s, at, d) = w
  BY <1>8, <1>10, <1>12, <1>14
<1>. QED  BY <1>1, <1>17, <1>18, <1>19, <1>20

LEMMA WriteAtEnd ==
  ASSUME NEW S, HasZero(S), NEW s \in Seq(S), NEW d \in Seq(S)
  PROVE  WriteAt(s, Len(s), d) = s \o d
<1>1. PICK n \in Nat, k \in Nat : n = Len(s) /\ k = Len(d)
  OBVIOUS
<1>2. /\ WriteAt(s, n, d) \in Seq(S)
      /\ Len(WriteAt(s, n, d)) = IF n + Len(d) > Len(s) THEN n + Len(d) ELSE Len(s)
      /\ \A j \in 1 .. Len(WriteAt(s, n, d)) :
           WriteAt(s, n, d)[j] = IF j > n /\ j <= n + Len(d) THEN d[j - n]
                                 ELSE IF j <= Len(s) THEN s[j] ELSE 0
  BY WriteAtIs
<1>3. PICK w : w = WriteAt(s, n, d)
  OBVIOUS
<1>4. /\ w \in Seq(S) /\ Len(w) = n + k
      /\ \A j \in 1 .. n + k : w[j] = IF j <= n THEN s[j] ELSE d[j - n]
  BY <1>1, <1>2, <1>3
<1>5. PICK v : v = s \o d
  OBVIOUS
<1>6. /\ v \in Seq(S) /\ Len(v) = n + k
      /\ \A j \in 1 .. n + k : v[j] = IF j <= n THEN s[j] ELSE d[j - n]
  BY <1>1, <1>5, ConcatIs
<1>7. \A j \in 1 .. Len(w) : w[j] = v[j]
  BY <1>4, <1>6
<1>8. w = v
  BY <1>4, <1>6, <1>7, SeqEqual
<1>. QED  BY <1>1, <1>3, <1>5, <1>8
-----------------------------------------------------------------------------
(* Recursive functions on sequences: each is defined up to its last number.  *)

(* Joined. *)
JoinedOf(q, n, f) ==
  f = [k \in 0 .. n |-> IF k = 0 THEN << >> ELSE f[k - 1] \o q[k]]

LEMMA JoinedExists ==
  ASSUME NEW q, NEW n \in Nat
  PROVE  \E f : JoinedOf(q, n, f)
<1>. DEFINE D(x) == \E f : JoinedOf(q, x, f)
            G == {x \in Nat : D(x)}
<1>1. D(0)
  <2>. DEFINE f == [k \in 0 .. 0 |-> << >>]
  <2>1. f = [k \in 0 .. 0 |-> IF k = 0 THEN << >> ELSE f[k - 1] \o q[k]]
    OBVIOUS
  <2>. QED  BY <2>1 DEF JoinedOf
<1>2. ASSUME NEW x \in Nat, D(x) PROVE D(x + 1)
  <2>1. PICK f : f = [k \in 0 .. x |-> IF k = 0 THEN << >> ELSE f[k - 1] \o q[k]]
    BY <1>2 DEF JoinedOf
  <2>. DEFINE next(s, k) == s \o q[k]
              g == [k \in 0 .. x + 1 |-> IF k = x + 1 THEN next(f[x], x + 1) ELSE f[k]]
  <2>. HIDE DEF next
  <2>2. ASSUME NEW k \in 0 .. x + 1
        PROVE  g[k] = IF k = 0 THEN << >> ELSE next(g[k - 1], k)
    <3>1. CASE k = x + 1
      <4>1. k # 0 /\ k - 1 = x /\ x \in 0 .. x + 1 /\ x # x + 1
        BY <3>1
      <4>. QED  BY <3>1, <4>1
    <3>2. CASE k # x + 1
      <4>1. k \in 0 .. x /\ g[k] = f[k]
        BY <3>2
      <4>2. k # 0 => k - 1 \in 0 .. x + 1 /\ k - 1 # x + 1 /\ g[k - 1] = f[k - 1]
        BY <3>2
      <4>3. f[k] = IF k = 0 THEN << >> ELSE next(f[k - 1], k)
        BY <2>1, <4>1 DEF next
      <4>. HIDE DEF g
      <4>. QED  BY <4>1, <4>2, <4>3
    <3>. QED  BY <3>1, <3>2
  <2>3. g = [k \in 0 .. x + 1 |-> IF k = 0 THEN << >> ELSE next(g[k - 1], k)]
    BY <2>2
  <2>. HIDE DEF g
  <2>. QED  BY <2>3 DEF JoinedOf, next
<1>3. Nat \subseteq G
  <2>1. 0 \in G /\ \A x \in Nat : x \in G => x + 1 \in G
    <3>. HIDE DEF D
    <3>. QED  BY <1>1, <1>2
  <2>. HIDE DEF G
  <2>. QED  BY <2>1, AllNumbers
<1>. QED  BY <1>3

LEMMA JoinedIs ==
  ASSUME NEW S, NEW q \in Seq(Seq(S))
  PROVE  /\ Joined(q)[0] = << >>
         /\ \A k \in 1 .. Len(q) : Joined(q)[k] = Joined(q)[k - 1] \o q[k]
         /\ \A k \in 0 .. Len(q) : Joined(q)[k] \in Seq(S)
<1>1. PICK n \in Nat : n = Len(q)
  OBVIOUS
<1>2. PICK g : JoinedOf(q, n, g)
  BY JoinedExists
<1>. DEFINE f == CHOOSE f : f = [k \in 0 .. n |-> IF k = 0 THEN << >> ELSE f[k - 1] \o q[k]]
<1>3. Joined(q) = f
  BY <1>1, Zenon DEF Joined
<1>4. JoinedOf(q, n, f)
  BY <1>2, Zenon DEF JoinedOf
<1>. HIDE DEF f
<1>5. \A k \in 0 .. n : f[k] = IF k = 0 THEN << >> ELSE f[k - 1] \o q[k]
  BY <1>4 DEF JoinedOf
<1>6. f[0] = << >>
  <2>1. 0 \in 0 .. n
    OBVIOUS
  <2>. QED  BY <2>1, <1>5
<1>7. ASSUME NEW k \in 1 .. n PROVE f[k] = f[k - 1] \o q[k]
  <2>1. k \in 0 .. n /\ k # 0
    OBVIOUS
  <2>. QED  BY <2>1, <1>5
<1>. DEFINE G == {x \in Nat : x <= n => f[x] \in Seq(S)}
<1>8. 0 \in G
  BY <1>6, EmptySeq
<1>9. ASSUME NEW x \in Nat, x \in G PROVE x + 1 \in G
  <2>. SUFFICES ASSUME x + 1 <= n PROVE f[x + 1] \in Seq(S)
    OBVIOUS
  <2>1. x + 1 \in 1 .. n /\ (x + 1) - 1 = x /\ f[x] \in Seq(S)
    BY <1>9
  <2>2. q[x + 1] \in Seq(S)
    BY <1>1, <2>1
  <2>3. f[x + 1] = f[x] \o q[x + 1]
    BY <1>7, <2>1
  <2>. QED  BY <2>1, <2>2, <2>3, ConcatProperties
<1>10. Nat \subseteq G
  <2>. HIDE DEF G
  <2>. QED  BY <1>8, <1>9, AllNumbers
<1>11. \A k \in 0 .. n : f[k] \in Seq(S)
  BY <1>10
<1>. QED  BY <1>1, <1>3, <1>6, <1>7, <1>11

(* PutAll. *)
PutAllOf(o, ps, n, f) ==
  f = [k \in 0 .. n |-> IF k = 0 THEN o ELSE put_fdout(f[k - 1], ps[k])]

LEMMA PutAllExists ==
  ASSUME NEW o, NEW ps, NEW n \in Nat
  PROVE  \E f : PutAllOf(o, ps, n, f)
<1>. DEFINE D(x) == \E f : PutAllOf(o, ps, x, f)
            G == {x \in Nat : D(x)}
<1>1. D(0)
  <2>. DEFINE f == [k \in 0 .. 0 |-> o]
  <2>1. f = [k \in 0 .. 0 |-> IF k = 0 THEN o ELSE put_fdout(f[k - 1], ps[k])]
    OBVIOUS
  <2>. QED  BY <2>1 DEF PutAllOf
<1>2. ASSUME NEW x \in Nat, D(x) PROVE D(x + 1)
  <2>1. PICK f : f = [k \in 0 .. x |-> IF k = 0 THEN o ELSE put_fdout(f[k - 1], ps[k])]
    BY <1>2 DEF PutAllOf
  <2>. DEFINE next(s, k) == put_fdout(s, ps[k])
              g == [k \in 0 .. x + 1 |-> IF k = x + 1 THEN next(f[x], x + 1) ELSE f[k]]
  <2>. HIDE DEF next
  <2>2. ASSUME NEW k \in 0 .. x + 1
        PROVE  g[k] = IF k = 0 THEN o ELSE next(g[k - 1], k)
    <3>1. CASE k = x + 1
      <4>1. k # 0 /\ k - 1 = x /\ x \in 0 .. x + 1 /\ x # x + 1
        BY <3>1
      <4>. QED  BY <3>1, <4>1
    <3>2. CASE k # x + 1
      <4>1. k \in 0 .. x /\ g[k] = f[k]
        BY <3>2
      <4>2. k # 0 => k - 1 \in 0 .. x + 1 /\ k - 1 # x + 1 /\ g[k - 1] = f[k - 1]
        BY <3>2
      <4>3. f[k] = IF k = 0 THEN o ELSE next(f[k - 1], k)
        BY <2>1, <4>1 DEF next
      <4>. HIDE DEF g
      <4>. QED  BY <4>1, <4>2, <4>3
    <3>. QED  BY <3>1, <3>2
  <2>3. g = [k \in 0 .. x + 1 |-> IF k = 0 THEN o ELSE next(g[k - 1], k)]
    BY <2>2
  <2>. HIDE DEF g
  <2>. QED  BY <2>3 DEF PutAllOf, next
<1>3. Nat \subseteq G
  <2>1. 0 \in G /\ \A x \in Nat : x \in G => x + 1 \in G
    <3>. HIDE DEF D
    <3>. QED  BY <1>1, <1>2
  <2>. HIDE DEF G
  <2>. QED  BY <2>1, AllNumbers
<1>. QED  BY <1>3

LEMMA PutAllIs ==
  ASSUME NEW o, NEW S, NEW ps \in Seq(S)
  PROVE  /\ PutAll(o, ps)[0] = o
         /\ \A k \in 1 .. Len(ps) : PutAll(o, ps)[k] = put_fdout(PutAll(o, ps)[k - 1], ps[k])
<1>1. PICK n \in Nat : n = Len(ps)
  OBVIOUS
<1>2. PICK g : PutAllOf(o, ps, n, g)
  BY PutAllExists
<1>. DEFINE f == CHOOSE f : f = [k \in 0 .. n |-> IF k = 0 THEN o ELSE put_fdout(f[k - 1], ps[k])]
<1>3. PutAll(o, ps) = f
  BY <1>1, Zenon DEF PutAll
<1>4. PutAllOf(o, ps, n, f)
  BY <1>2, Zenon DEF PutAllOf
<1>. HIDE DEF f
<1>5. \A k \in 0 .. n : f[k] = IF k = 0 THEN o ELSE put_fdout(f[k - 1], ps[k])
  BY <1>4 DEF PutAllOf
<1>6. f[0] = o
  BY <1>5
<1>7. \A k \in 1 .. n : f[k] = put_fdout(f[k - 1], ps[k])
  BY <1>5
<1>. QED  BY <1>1, <1>3, <1>6, <1>7

(* Sense. *)
SenseOf(c, q, n, f) ==
  f = [k \in 0 .. n |-> IF k = 0 THEN << >> ELSE Carried(f[k - 1], q[k], Fresh(c, k, q[k].len))]

LEMMA SenseExists ==
  ASSUME NEW c, NEW q, NEW n \in Nat
  PROVE  \E f : SenseOf(c, q, n, f)
<1>. DEFINE D(x) == \E f : SenseOf(c, q, x, f)
            G == {x \in Nat : D(x)}
<1>1. D(0)
  <2>. DEFINE f == [k \in 0 .. 0 |-> << >>]
  <2>1. f = [k \in 0 .. 0 |-> IF k = 0 THEN << >> ELSE Carried(f[k - 1], q[k], Fresh(c, k, q[k].len))]
    OBVIOUS
  <2>. QED  BY <2>1 DEF SenseOf
<1>2. ASSUME NEW x \in Nat, D(x) PROVE D(x + 1)
  <2>1. PICK f : f = [k \in 0 .. x |-> IF k = 0 THEN << >> ELSE Carried(f[k - 1], q[k], Fresh(c, k, q[k].len))]
    BY <1>2 DEF SenseOf
  <2>. DEFINE next(s, k) == Carried(s, q[k], Fresh(c, k, q[k].len))
              g == [k \in 0 .. x + 1 |-> IF k = x + 1 THEN next(f[x], x + 1) ELSE f[k]]
  <2>. HIDE DEF next
  <2>2. ASSUME NEW k \in 0 .. x + 1
        PROVE  g[k] = IF k = 0 THEN << >> ELSE next(g[k - 1], k)
    <3>1. CASE k = x + 1
      <4>1. k # 0 /\ k - 1 = x /\ x \in 0 .. x + 1 /\ x # x + 1
        BY <3>1
      <4>. QED  BY <3>1, <4>1
    <3>2. CASE k # x + 1
      <4>1. k \in 0 .. x /\ g[k] = f[k]
        BY <3>2
      <4>2. k # 0 => k - 1 \in 0 .. x + 1 /\ k - 1 # x + 1 /\ g[k - 1] = f[k - 1]
        BY <3>2
      <4>3. f[k] = IF k = 0 THEN << >> ELSE next(f[k - 1], k)
        BY <2>1, <4>1 DEF next
      <4>. HIDE DEF g
      <4>. QED  BY <4>1, <4>2, <4>3
    <3>. QED  BY <3>1, <3>2
  <2>3. g = [k \in 0 .. x + 1 |-> IF k = 0 THEN << >> ELSE next(g[k - 1], k)]
    BY <2>2
  <2>. HIDE DEF g
  <2>. QED  BY <2>3 DEF SenseOf, next
<1>3. Nat \subseteq G
  <2>1. 0 \in G /\ \A x \in Nat : x \in G => x + 1 \in G
    <3>. HIDE DEF D
    <3>. QED  BY <1>1, <1>2
  <2>. HIDE DEF G
  <2>. QED  BY <2>1, AllNumbers
<1>. QED  BY <1>3

LEMMA SenseIs ==
  ASSUME NEW c, NEW S, NEW q \in Seq(S)
  PROVE  /\ Sense(c, q)[0] = << >>
         /\ \A k \in 1 .. Len(q) :
              Sense(c, q)[k] = Carried(Sense(c, q)[k - 1], q[k], Fresh(c, k, q[k].len))
<1>1. PICK n \in Nat : n = Len(q)
  OBVIOUS
<1>2. PICK g : SenseOf(c, q, n, g)
  BY SenseExists
<1>. DEFINE f == CHOOSE f : f = [k \in 0 .. n |-> IF k = 0 THEN << >>
                                  ELSE Carried(f[k - 1], q[k], Fresh(c, k, q[k].len))]
<1>3. Sense(c, q) = f
  BY <1>1, Zenon DEF Sense
<1>4. SenseOf(c, q, n, f)
  BY <1>2, Zenon DEF SenseOf
<1>. HIDE DEF f
<1>5. \A k \in 0 .. n : f[k] = IF k = 0 THEN << >>
                               ELSE Carried(f[k - 1], q[k], Fresh(c, k, q[k].len))
  BY <1>4 DEF SenseOf
<1>6. f[0] = << >>
  <2>1. 0 \in 0 .. n
    OBVIOUS
  <2>. QED  BY <2>1, <1>5
<1>7. \A k \in 1 .. n : f[k] = Carried(f[k - 1], q[k], Fresh(c, k, q[k].len))
  BY <1>5
<1>. QED  BY <1>1, <1>3, <1>6, <1>7
-----------------------------------------------------------------------------
(* What tokens and chunks mean. *)

Kinds == {"literal", "match", "append", "patch"}

Token == [kind : Kinds, len : Nat \ {0}, ofs : Nat]

LEMMA DatumFacts ==
  /\ HasZero(Datum) /\ "magic" \in Datum
  /\ \A c, t, k \in Nat : <<c, t, k>> \in Datum
  BY DEF HasZero, Datum

LEMMA FreshIs ==
  ASSUME NEW c \in Nat, NEW t \in Nat, NEW n \in Nat
  PROVE  Fresh(c, t, n) \in Seq(Datum) /\ Len(Fresh(c, t, n)) = n
<1>1. \A k \in 1 .. n : <<c, t, k>> \in Datum
  BY DatumFacts
<1>2. Fresh(c, t, n) = [k \in 1 .. n |-> <<c, t, k>>]
  BY Zenon DEF Fresh
<1>3. Fresh(c, t, n) \in [1 .. n -> Datum]
  BY <1>1, <1>2
<1>. QED  BY <1>3

(* The bytes that a match adds. *)
Repeat(s, k) == [j \in 1 .. k.len |-> s[Len(s) - k.ofs + 1 + ((j - 1) % k.ofs)]]

LEMMA RepeatIs ==
  ASSUME NEW s \in Seq(Datum), NEW k \in Token, k.ofs \in 1 .. Len(s)
  PROVE  /\ Repeat(s, k) \in Seq(Datum) /\ Len(Repeat(s, k)) = k.len
         /\ \A j \in 1 .. k.len :
              Repeat(s, k)[j] = s[Len(s) - k.ofs + 1 + ((j - 1) % k.ofs)]
<1>1. PICK n \in Nat, o \in Nat, l \in Nat : n = Len(s) /\ o = k.ofs /\ l = k.len
  BY DEF Token
<1>2. o > 0 /\ o <= n
  BY <1>1
<1>3. ASSUME NEW j \in 1 .. l PROVE s[n - o + 1 + ((j - 1) % o)] \in Datum
  <2>1. j - 1 \in Nat
    OBVIOUS
  <2>2. (j - 1) % o \in 0 .. o - 1
    BY <1>2, <2>1, DivFacts
  <2>3. n - o + 1 + ((j - 1) % o) \in 1 .. n
    BY <1>2, <2>2
  <2>. QED  BY <1>1, <2>3, ElementOfSeq
<1>4. Repeat(s, k) = [j \in 1 .. l |-> s[n - o + 1 + ((j - 1) % o)]]
  BY <1>1, Zenon DEF Repeat
<1>5. Repeat(s, k) \in [1 .. l -> Datum]
  BY <1>3, <1>4
<1>6. \A j \in 1 .. l : Repeat(s, k)[j] = s[n - o + 1 + ((j - 1) % o)]
  BY <1>4
<1>7. PICK r : r = Repeat(s, k)
  OBVIOUS
<1>8. r \in Seq(Datum) /\ Len(r) = l
  BY <1>5, <1>7
<1>9. \A j \in 1 .. k.len : Repeat(s, k)[j] = s[Len(s) - k.ofs + 1 + ((j - 1) % k.ofs)]
  BY <1>1, <1>6, Zenon
<1>. QED  BY <1>1, <1>7, <1>8, <1>9

(* A token that may come after the bytes s. *)
Fits(s, k) ==
  /\ k.kind = "match" => k.ofs \in 1 .. Len(s)
  /\ k.kind = "patch" => k.len = 1 /\ k.ofs < Len(s)

(* A patch of data at a place. *)
Patched(s, at, d) ==
  /\ WriteAt(s, at, d) \in Seq(Datum)
  /\ Len(WriteAt(s, at, d)) = IF at + Len(d) > Len(s) THEN at + Len(d) ELSE Len(s)

LEMMA PatchedIs ==
  ASSUME NEW s \in Seq(Datum), NEW at \in Nat, NEW d \in Seq(Datum)
  PROVE  Patched(s, at, d)
  BY WriteAtIs, DatumFacts DEF Patched

LEMMA CarriedIs ==
  ASSUME NEW s \in Seq(Datum), NEW k \in Token, Fits(s, k),
         NEW c \in Nat, NEW t \in Nat
  PROVE  LET r == Carried(s, k, Fresh(c, t, k.len))
         IN /\ r \in Seq(Datum)
            /\ k.kind \in {"literal", "append"} =>
                 r = s \o Fresh(c, t, k.len) /\ Len(r) = Len(s) + k.len
            /\ k.kind = "match" => r = s \o Repeat(s, k) /\ Len(r) = Len(s) + k.len
            /\ k.kind = "patch" => r = WriteAt(s, k.ofs, Fresh(c, t, 1)) /\ Len(r) = Len(s)
<1>1. PICK n \in Nat, o \in Nat, l \in Nat : n = Len(s) /\ o = k.ofs /\ l = k.len
  BY DEF Token
<1>2. PICK new : new = Fresh(c, t, k.len)
  OBVIOUS
<1>3. new \in Seq(Datum) /\ Len(new) = l
  BY <1>1, <1>2, FreshIs
<1>4. PICK r : r = Carried(s, k, new)
  OBVIOUS
<1>5. CASE k.kind \in {"literal", "append"}
  <2>1. r = s \o new
    BY <1>4, <1>5 DEF Carried
  <2>2. s \o new \in Seq(Datum) /\ Len(s \o new) = Len(s) + Len(new)
    BY <1>3, ConcatProperties
  <2>. QED  BY <1>1, <1>2, <1>3, <1>4, <1>5, <2>1, <2>2
<1>6. CASE k.kind = "match"
  <2>1. r = s \o Repeat(s, k)
    BY <1>4, <1>6, Zenon DEF Carried, Repeat
  <2>2. k.ofs \in 1 .. Len(s)
    BY <1>6 DEF Fits
  <2>3. Repeat(s, k) \in Seq(Datum) /\ Len(Repeat(s, k)) = k.len
    BY <2>2, RepeatIs
  <2>4. s \o Repeat(s, k) \in Seq(Datum) /\ Len(s \o Repeat(s, k)) = Len(s) + Len(Repeat(s, k))
    BY <2>3, ConcatProperties
  <2>. QED  BY <1>1, <1>2, <1>4, <1>6, <2>1, <2>3, <2>4
<1>7. CASE k.kind = "patch"
  <2>1. l = 1 /\ o < n
    BY <1>1, <1>7 DEF Fits
  <2>2. r = WriteAt(s, o, new)
    BY <1>1, <1>4, <1>7 DEF Carried
  <2>3. /\ WriteAt(s, o, new) \in Seq(Datum)
        /\ Len(WriteAt(s, o, new)) = IF o + Len(new) > Len(s) THEN o + Len(new) ELSE Len(s)
    <3>1. Patched(s, o, new)
      BY <1>1, <1>3, PatchedIs, Zenon
    <3>. QED  BY <3>1, Zenon DEF Patched
  <2>4. Len(r) = n
    <3>1. Len(r) = IF o + 1 > n THEN o + 1 ELSE n
      BY <1>1, <1>3, <2>1, <2>2, <2>3
    <3>. QED  BY <2>1, <3>1
  <2>. QED  BY <1>1, <1>2, <1>4, <1>7, <2>1, <2>2, <2>3, <2>4
<1>. QED  BY <1>5, <1>6, <1>7 DEF Token, Kinds

(* The tokens of a chunk are carried out one after the other. *)
Tokenised(c, q) == q \in Seq(Token) /\ Sound(c, q)

LEMMA SenseStep ==
  ASSUME NEW c \in Nat, NEW q, Tokenised(c, q), NEW k \in 1 .. Len(q), Sense(c, q)[k - 1] \in Seq(Datum)
  PROVE  /\ Fits(Sense(c, q)[k - 1], q[k]) /\ q[k] \in Token
         /\ Sense(c, q)[k] = Carried(Sense(c, q)[k - 1], q[k], Fresh(c, k, q[k].len))
         /\ Sense(c, q)[k] \in Seq(Datum)
<1>1. q \in Seq(Token)
  BY DEF Tokenised
<1>2. q[k] \in Token
  BY <1>1, ElementOfSeq
<1>3. Fits(Sense(c, q)[k - 1], q[k])
  BY DEF Tokenised, Sound, Fits
<1>4. Sense(c, q)[k] = Carried(Sense(c, q)[k - 1], q[k], Fresh(c, k, q[k].len))
  BY <1>1, SenseIs
<1>5. k \in Nat
  BY <1>1
<1>6. Carried(Sense(c, q)[k - 1], q[k], Fresh(c, k, q[k].len)) \in Seq(Datum)
  BY <1>2, <1>3, <1>5, CarriedIs
<1>. QED  BY <1>2, <1>3, <1>4, <1>6

LEMMA SenseFacts ==
  ASSUME NEW c \in Nat, NEW q, Tokenised(c, q)
  PROVE  /\ Sense(c, q)[0] = << >>
         /\ \A k \in 0 .. Len(q) : Sense(c, q)[k] \in Seq(Datum)
         /\ \A k \in 1 .. Len(q) :
              /\ Fits(Sense(c, q)[k - 1], q[k]) /\ q[k] \in Token
              /\ Sense(c, q)[k] = Carried(Sense(c, q)[k - 1], q[k], Fresh(c, k, q[k].len))
<1>1. PICK n \in Nat : n = Len(q)
  BY DEF Tokenised
<1>. DEFINE G == {x \in Nat : x <= n => Sense(c, q)[x] \in Seq(Datum)}
<1>2. Sense(c, q)[0] = << >>
  BY SenseIs DEF Tokenised
<1>3. 0 \in G
  BY <1>2, EmptySeq
<1>4. ASSUME NEW x \in Nat, x \in G PROVE x + 1 \in G
  <2>. SUFFICES ASSUME x + 1 <= n PROVE Sense(c, q)[x + 1] \in Seq(Datum)
    OBVIOUS
  <2>1. x + 1 \in 1 .. n /\ (x + 1) - 1 = x /\ Sense(c, q)[x] \in Seq(Datum)
    BY <1>4
  <2>2. PICK k \in 1 .. n : k = x + 1 /\ k - 1 = x
    BY <2>1
  <2>3. Sense(c, q)[k] \in Seq(Datum)
    BY <1>1, <2>1, <2>2, SenseStep
  <2>. QED  BY <2>2, <2>3
<1>5. Nat \subseteq G
  <2>. HIDE DEF G
  <2>. QED  BY <1>3, <1>4, AllNumbers
<1>6. \A k \in 0 .. n : Sense(c, q)[k] \in Seq(Datum)
  BY <1>5
<1>7. ASSUME NEW k \in 1 .. n
      PROVE  /\ Fits(Sense(c, q)[k - 1], q[k]) /\ q[k] \in Token
             /\ Sense(c, q)[k] = Carried(Sense(c, q)[k - 1], q[k], Fresh(c, k, q[k].len))
  <2>1. k - 1 \in 0 .. n
    OBVIOUS
  <2>2. Sense(c, q)[k - 1] \in Seq(Datum)
    BY <2>1, <1>6
  <2>. QED  BY <1>1, <2>2, SenseStep
<1>. QED  BY <1>1, <1>2, <1>6, <1>7
(* Chunks as rzip writes them, see SoundChunks. *)
SoundConf(f) ==
  /\ f.chunks \in Seq(Seq(Token)) /\ f.chunks # << >>
  /\ \A c \in 1 .. Len(f.chunks) : Tokenised(c, f.chunks[c])
  /\ Len(f.chunks) > 1 => \A c \in 1 .. Len(f.chunks) : f.chunks[c] # << >>

KindsAre(f, kinds) ==
  \A c \in 1 .. Len(f.chunks) : \A t \in 1 .. Len(f.chunks[c]) : f.chunks[c][t].kind \in kinds

LEMMA SoundAre ==
  ASSUME NEW p, NEW kinds \in SUBSET Kinds, SoundChunks(p, kinds), NEW f, f.chunks = p
  PROVE  SoundConf(f) /\ KindsAre(f, kinds)
<1>. DEFINE T == [kind : kinds, len : Nat \ {0}, ofs : Nat]
<1>1. /\ p \in Seq(Seq(T)) /\ p # << >>
      /\ Len(p) > 1 => \A c \in DOMAIN p : p[c] # << >>
      /\ \A c \in DOMAIN p : Sound(c, p[c])
  BY Zenon DEF SoundChunks
<1>2. T \subseteq Token
  BY DEF Token
<1>3. \A t \in T : t.kind \in kinds
  OBVIOUS
<1>. HIDE DEF T
<1>4. Seq(T) \subseteq Seq(Token)
  BY <1>2, SeqMonotonic
<1>5. p \in Seq(Seq(Token))
  BY <1>1, <1>4, SeqMonotonic
<1>6. DOMAIN p = 1 .. Len(p)
  BY <1>1, LenProperties
<1>7. \A c \in 1 .. Len(p) : p[c] \in Seq(T)
  BY <1>1, ElementOfSeq
<1>8. \A c \in 1 .. Len(p) : Tokenised(c, p[c])
  BY <1>1, <1>4, <1>6, <1>7 DEF Tokenised
<1>9. \A c \in 1 .. Len(p) : \A t \in 1 .. Len(p[c]) : p[c][t] \in T
  BY <1>7, ElementOfSeq
<1>10. KindsAre(f, kinds)
  BY <1>3, <1>9 DEF KindsAre
<1>11. Len(p) > 1 => \A c \in 1 .. Len(p) : p[c] # << >>
  BY <1>1, <1>6
<1>. QED  BY <1>1, <1>5, <1>8, <1>10, <1>11 DEF SoundConf

LEMMA ConfFacts ==
  ASSUME NEW f, ReadConf(f) \/ WriteConf(f)
  PROVE  /\ SoundConf(f)
         /\ ReadConf(f) => KindsAre(f, {"literal", "match"})
         /\ WriteConf(f) => KindsAre(f, {"append", "patch"})
<1>1. {"literal", "match"} \in SUBSET Kinds /\ {"append", "patch"} \in SUBSET Kinds
  BY DEF Kinds
<1>2. ReadConf(f) => SoundConf(f) /\ KindsAre(f, {"literal", "match"})
  <2>1. ReadConf(f) => SoundChunks(f.chunks, {"literal", "match"})
    BY RunzipAssumption DEF ReadConf
  <2>. QED  BY <1>1, <2>1, SoundAre
<1>3. WriteConf(f) => SoundConf(f) /\ KindsAre(f, {"append", "patch"})
  <2>1. WriteConf(f) => SoundChunks(f.chunks, {"append", "patch"})
    BY RunzipAssumption DEF WriteConf
  <2>. QED  BY <1>1, <2>1, SoundAre
<1>. QED  BY <1>2, <1>3

(* The bytes of a chunk so far. *)
LEMMA SofarIs ==
  ASSUME NEW f, SoundConf(f), NEW c \in 1 .. Len(f.chunks)
  PROVE  /\ Len(f.chunks[c]) \in Nat
         /\ Sofar(f, c, 1) = << >>
         /\ \A t \in 1 .. Len(f.chunks[c]) + 1 : Sofar(f, c, t) \in Seq(Datum)
         /\ \A t \in 1 .. Len(f.chunks[c]) :
              /\ Fits(Sofar(f, c, t), f.chunks[c][t]) /\ f.chunks[c][t] \in Token
              /\ Sofar(f, c, t + 1)
                   = Carried(Sofar(f, c, t), f.chunks[c][t], Fresh(c, t, f.chunks[c][t].len))
         /\ Sofar(f, c, Len(f.chunks[c]) + 1) = Meant(c, f.chunks[c])
<1>1. PICK q : q = f.chunks[c]
  OBVIOUS
<1>2. c \in Nat /\ Tokenised(c, q)
  BY <1>1 DEF SoundConf
<1>3. PICK n \in Nat : n = Len(q)
  BY <1>2 DEF Tokenised
<1>4. /\ Sense(c, q)[0] = << >>
      /\ \A k \in 0 .. n : Sense(c, q)[k] \in Seq(Datum)
      /\ \A k \in 1 .. n :
           /\ Fits(Sense(c, q)[k - 1], q[k]) /\ q[k] \in Token
           /\ Sense(c, q)[k] = Carried(Sense(c, q)[k - 1], q[k], Fresh(c, k, q[k].len))
  BY <1>2, <1>3, SenseFacts
<1>5. \A t : Sofar(f, c, t) = Sense(c, q)[t - 1]
  BY <1>1 DEF Sofar
<1>6. Sofar(f, c, 1) = << >>
  <2>1. 1 - 1 = 0
    OBVIOUS
  <2>. QED  BY <1>4, <1>5, <2>1
<1>7. ASSUME NEW t \in 1 .. n + 1 PROVE Sofar(f, c, t) \in Seq(Datum)
  <2>1. t - 1 \in 0 .. n
    OBVIOUS
  <2>. QED  BY <1>4, <1>5, <2>1
<1>8. ASSUME NEW t \in 1 .. n
      PROVE  /\ Fits(Sofar(f, c, t), q[t]) /\ q[t] \in Token
             /\ Sofar(f, c, t + 1) = Carried(Sofar(f, c, t), q[t], Fresh(c, t, q[t].len))
  <2>1. (t + 1) - 1 = t
    OBVIOUS
  <2>2. Sofar(f, c, t + 1) = Sense(c, q)[t] /\ Sofar(f, c, t) = Sense(c, q)[t - 1]
    BY <1>5, <2>1
  <2>. QED  BY <1>4, <2>2
<1>9. Sofar(f, c, n + 1) = Meant(c, q)
  <2>1. (n + 1) - 1 = n
    OBVIOUS
  <2>. QED  BY <1>3, <1>5, <2>1 DEF Meant
<1>. QED  BY <1>1, <1>3, <1>6, <1>7, <1>8, <1>9

(* The bytes of the chunks before. *)
LEMMA PriorIs ==
  ASSUME NEW f, SoundConf(f)
  PROVE  /\ Len(f.chunks) \in Nat \ {0}
         /\ Prior(f, 1) = << >>
         /\ \A c \in 1 .. Len(f.chunks) + 1 : Prior(f, c) \in Seq(Datum)
         /\ \A c \in 1 .. Len(f.chunks) :
              /\ Meant(c, f.chunks[c]) \in Seq(Datum)
              /\ Prior(f, c + 1) = Prior(f, c) \o Meant(c, f.chunks[c])
         /\ Prior(f, Len(f.chunks) + 1) = Whole(f.chunks)
<1>1. PICK n \in Nat \ {0} : n = Len(f.chunks)
  BY EmptySeq DEF SoundConf
<1>2. DOMAIN f.chunks = 1 .. n
  BY <1>1, LenProperties DEF SoundConf
<1>3. PICK q : q = Senses(f.chunks)
  OBVIOUS
<1>4. q = [c \in 1 .. n |-> Meant(c, f.chunks[c])]
  BY <1>2, <1>3, Zenon DEF Senses
<1>5. ASSUME NEW c \in 1 .. n PROVE Meant(c, f.chunks[c]) \in Seq(Datum)
  <2>1. /\ Len(f.chunks[c]) \in Nat
        /\ \A t \in 1 .. Len(f.chunks[c]) + 1 : Sofar(f, c, t) \in Seq(Datum)
        /\ Sofar(f, c, Len(f.chunks[c]) + 1) = Meant(c, f.chunks[c])
    BY <1>1, SofarIs
  <2>. QED  BY <2>1
<1>6. q \in [1 .. n -> Seq(Datum)]
  BY <1>4, <1>5
<1>7. q \in Seq(Seq(Datum)) /\ Len(q) = n
  BY <1>6
<1>8. /\ Joined(q)[0] = << >>
      /\ \A k \in 1 .. n : Joined(q)[k] = Joined(q)[k - 1] \o q[k]
      /\ \A k \in 0 .. n : Joined(q)[k] \in Seq(Datum)
  BY <1>7, JoinedIs
<1>9. \A c : Prior(f, c) = Joined(q)[c - 1]
  BY <1>3 DEF Prior
<1>10. Prior(f, 1) = << >>
  <2>1. 1 - 1 = 0
    OBVIOUS
  <2>. QED  BY <1>8, <1>9, <2>1
<1>11. ASSUME NEW c \in 1 .. n + 1 PROVE Prior(f, c) \in Seq(Datum)
  <2>1. c - 1 \in 0 .. n
    OBVIOUS
  <2>. QED  BY <1>8, <1>9, <2>1
<1>12. ASSUME NEW c \in 1 .. n
       PROVE  Prior(f, c + 1) = Prior(f, c) \o Meant(c, f.chunks[c])
  <2>1. (c + 1) - 1 = c
    OBVIOUS
  <2>2. Prior(f, c + 1) = Joined(q)[c]
    BY <1>9, <2>1
  <2>3. q[c] = Meant(c, f.chunks[c])
    BY <1>4
  <2>. QED  BY <1>8, <1>9, <2>2, <2>3
<1>13. Prior(f, n + 1) = Whole(f.chunks)
  <2>1. (n + 1) - 1 = n
    OBVIOUS
  <2>. QED  BY <1>1, <1>3, <1>9, <2>1 DEF Whole
<1>. QED  BY <1>1, <1>5, <1>10, <1>11, <1>12, <1>13

(* Each token of a chunk that is read brings at least a byte, so that the   *)
(* length tells when there are more chunks.                                 *)
LEMMA SofarGrows ==
  ASSUME NEW f, SoundConf(f), KindsAre(f, {"literal", "match"}),
         NEW c \in 1 .. Len(f.chunks), f.chunks[c] # << >>
  PROVE  Len(Meant(c, f.chunks[c])) \in Nat \ {0}
<1>1. PICK n \in Nat : n = Len(f.chunks[c])
  BY SofarIs
<1>2. /\ Sofar(f, c, 1) = << >>
      /\ \A t \in 1 .. n + 1 : Sofar(f, c, t) \in Seq(Datum)
      /\ \A t \in 1 .. n :
           /\ Fits(Sofar(f, c, t), f.chunks[c][t]) /\ f.chunks[c][t] \in Token
           /\ Sofar(f, c, t + 1)
                = Carried(Sofar(f, c, t), f.chunks[c][t], Fresh(c, t, f.chunks[c][t].len))
      /\ Sofar(f, c, n + 1) = Meant(c, f.chunks[c])
  BY <1>1, SofarIs
<1>3. n # 0
  <2>1. f.chunks[c] \in Seq(Token)
    BY DEF SoundConf, Tokenised
  <2>. QED  BY <1>1, <2>1, EmptySeq
<1>4. n \in 1 .. n /\ n \in 1 .. n + 1 /\ c \in Nat
  BY <1>3
<1>5. PICK s, k : s = Sofar(f, c, n) /\ k = f.chunks[c][n]
  OBVIOUS
<1>6. s \in Seq(Datum) /\ k \in Token /\ Fits(s, k) /\ k.kind \in {"literal", "match"}
  BY <1>1, <1>2, <1>4, <1>5 DEF KindsAre
<1>7. Len(Carried(s, k, Fresh(c, n, k.len))) = Len(s) + k.len
  BY <1>4, <1>6, CarriedIs
<1>8. Meant(c, f.chunks[c]) = Carried(s, k, Fresh(c, n, k.len))
  BY <1>2, <1>4, <1>5
<1>9. Len(s) \in Nat /\ k.len \in Nat \ {0}
  BY <1>6, LenProperties DEF Token
<1>. QED  BY <1>7, <1>8, <1>9

LEMMA MoreToCome ==
  ASSUME NEW f, SoundConf(f), KindsAre(f, {"literal", "match"}),
         NEW c \in 1 .. Len(f.chunks), c # Len(f.chunks)
  PROVE  /\ Len(Prior(f, c + 1)) \in Nat /\ Len(Whole(f.chunks)) \in Nat
         /\ Len(Prior(f, c + 1)) < Len(Whole(f.chunks))
<1>1. PICK n \in Nat : n = Len(f.chunks)
  BY PriorIs
<1>2. /\ \A a \in 1 .. n + 1 : Prior(f, a) \in Seq(Datum)
      /\ \A a \in 1 .. n : /\ Meant(a, f.chunks[a]) \in Seq(Datum)
                           /\ Prior(f, a + 1) = Prior(f, a) \o Meant(a, f.chunks[a])
      /\ Prior(f, n + 1) = Whole(f.chunks)
  BY <1>1, PriorIs
<1>3. c \in Nat /\ c < n /\ n > 1
  BY <1>1
<1>4. \A a \in 1 .. n : f.chunks[a] # << >>
  BY <1>1, <1>3 DEF SoundConf
<1>5. \A a \in 1 .. n + 1 : Len(Prior(f, a)) \in Nat
  BY <1>2, LenProperties
<1>6. ASSUME NEW a \in 1 .. n PROVE Len(Prior(f, a)) < Len(Prior(f, a + 1))
  <2>1. Len(Meant(a, f.chunks[a])) \in Nat \ {0}
    BY <1>1, <1>4, SofarGrows
  <2>2. a \in 1 .. n + 1
    OBVIOUS
  <2>3. Len(Prior(f, a) \o Meant(a, f.chunks[a]))
          = Len(Prior(f, a)) + Len(Meant(a, f.chunks[a]))
    BY <1>2, <2>2, ConcatProperties
  <2>4. Len(Prior(f, a)) \in Nat
    BY <1>5, <2>2
  <2>. QED  BY <1>2, <2>1, <2>3, <2>4
<1>. DEFINE G == {x \in Nat : c + 2 + x <= n + 1 =>
                     Len(Prior(f, c + 1)) < Len(Prior(f, c + 2 + x))}
<1>7. 0 \in G
  <2>1. c + 1 \in 1 .. n /\ (c + 1) + 1 = c + 2 + 0
    BY <1>3
  <2>. QED  BY <1>6, <2>1
<1>8. ASSUME NEW x \in Nat, x \in G PROVE x + 1 \in G
  <2>. SUFFICES ASSUME c + 2 + (x + 1) <= n + 1
                PROVE  Len(Prior(f, c + 1)) < Len(Prior(f, c + 2 + (x + 1)))
    OBVIOUS
  <2>1. PICK a \in 1 .. n : a = c + 2 + x /\ a + 1 = c + 2 + (x + 1) /\ a \in 1 .. n + 1
    BY <1>3
  <2>2. Len(Prior(f, c + 1)) < Len(Prior(f, a))
    BY <1>8, <2>1
  <2>3. Len(Prior(f, a)) < Len(Prior(f, a + 1))
    BY <1>6
  <2>4. c + 1 \in 1 .. n + 1 /\ a + 1 \in 1 .. n + 1
    BY <1>3, <2>1
  <2>5. /\ Len(Prior(f, c + 1)) \in Nat /\ Len(Prior(f, a)) \in Nat
        /\ Len(Prior(f, a + 1)) \in Nat
    BY <1>5, <2>1, <2>4
  <2>6. Len(Prior(f, c + 1)) < Len(Prior(f, a + 1))
    BY <2>2, <2>3, <2>5
  <2>. QED  BY <2>1, <2>6
<1>9. Nat \subseteq G
  <2>. HIDE DEF G
  <2>. QED  BY <1>7, <1>8, AllNumbers
<1>10. PICK x \in Nat : c + 2 + x = n + 1
  <2>1. n - 1 - c \in Nat /\ c + 2 + (n - 1 - c) = n + 1
    BY <1>3
  <2>. QED  BY <2>1
<1>11. Len(Prior(f, c + 1)) < Len(Prior(f, n + 1))
  <2>1. c + 2 + x <= n + 1 => Len(Prior(f, c + 1)) < Len(Prior(f, c + 2 + x))
    BY <1>9
  <2>2. c + 2 + x <= n + 1
    BY <1>10
  <2>. QED  BY <2>1, <2>2, <1>10
<1>12. c + 1 \in 1 .. n + 1 /\ n + 1 \in 1 .. n + 1
  BY <1>3
<1>. QED  BY <1>2, <1>5, <1>11, <1>12
-----------------------------------------------------------------------------
(* What comes out. *)

LEMMA Assoc == \A s, t, u \in Seq(Datum) : s \o (t \o u) = (s \o t) \o u
<1>. SUFFICES ASSUME NEW s \in Seq(Datum), NEW t \in Seq(Datum), NEW u \in Seq(Datum)
              PROVE  s \o (t \o u) = (s \o t) \o u
  OBVIOUS
<1>. QED  BY ConcatAssociative

LEMMA WriteFdout ==
  ASSUME NEW o \in OutRec, o.fd = "file", o.pos = Len(o.file), NEW d \in Seq(Datum)
  PROVE  LET r == write_fdout(o, d)
         IN /\ r \in OutRec /\ r.fd = "file" /\ r.file = o.file \o d /\ r.pos = Len(r.file)
            /\ r.on = o.on /\ r.buf = o.buf /\ r.ofs = o.ofs /\ r.max = o.max
            /\ r.out = o.out /\ r.relofs = o.relofs
<1>1. o.file \in Seq(Datum)
  BY DEF OutRec
<1>2. WriteAt(o.file, o.pos, d) = o.file \o d
  BY <1>1, WriteAtEnd, DatumFacts
<1>3. o.file \o d \in Seq(Datum) /\ Len(o.file \o d) = Len(o.file) + Len(d)
  BY <1>1, ConcatProperties
<1>4. PICK f : f = o.file \o d
  OBVIOUS
<1>5. PICK p \in Nat : p = o.pos + Len(d)
  BY LenProperties DEF OutRec
<1>6. write_fdout(o, d) = [o EXCEPT !.file = f, !.pos = p]
  BY <1>2, <1>4, <1>5 DEF write_fdout
<1>7. PICK r : r = [o EXCEPT !.file = f, !.pos = p]
  OBVIOUS
<1>8. /\ r \in OutRec /\ r.fd = "file" /\ r.file = f /\ r.pos = p
      /\ r.on = o.on /\ r.buf = o.buf /\ r.ofs = o.ofs /\ r.max = o.max
      /\ r.out = o.out /\ r.relofs = o.relofs
  BY <1>3, <1>4, <1>7 DEF OutRec
<1>9. p = Len(f)
  BY <1>3, <1>4, <1>5
<1>. QED  BY <1>4, <1>6, <1>7, <1>8, <1>9

LEMMA PutKeeps ==
  ASSUME NEW o, NEW mode, NEW prev \in Seq(Datum), NEW done \in Seq(Datum),
         OutSound(o, mode, prev, done), NEW d \in Seq(Datum)
  PROVE  OutSound(put_fdout(o, d), mode, prev, done \o d)
<1>1. o \in OutRec /\ o.fd = "file" /\ o.pos = Len(o.file) /\ (mode = "stdout" => o.out = prev)
  BY DEF OutSound
<1>2. PICK r : r = put_fdout(o, d)
  OBVIOUS
<1>3. CASE ~o.on
  <2>1. PICK x \in Seq(Datum) : Front(mode, prev, x) /\ o.file = x \o done
    BY <1>3 DEF OutSound
  <2>2. r = write_fdout(o, d)
    BY <1>2, <1>3 DEF put_fdout
  <2>3. /\ r \in OutRec /\ r.fd = "file" /\ r.file = o.file \o d /\ r.pos = Len(r.file)
        /\ r.on = o.on /\ r.out = o.out
    BY <1>1, <2>2, WriteFdout
  <2>4. r.file = x \o (done \o d)
    <3>1. x \o (done \o d) = (x \o done) \o d
      BY <2>1, Assoc
    <3>. QED  BY <2>1, <2>3, <3>1
  <2>. QED  BY <1>1, <1>2, <1>3, <2>1, <2>3, <2>4 DEF OutSound
<1>4. CASE o.on /\ o.ofs + Len(d) > o.max
  <2>1. o.buf = done /\ Front(mode, prev, o.file)
    BY <1>4 DEF OutSound
  <2>2. PICK u : u = write_fdout(o, o.buf)
    OBVIOUS
  <2>3. /\ u \in OutRec /\ u.fd = "file" /\ u.file = o.file \o done /\ u.pos = Len(u.file)
        /\ u.out = o.out
    BY <1>1, <2>1, <2>2, WriteFdout
  <2>4. PICK v : v = close_tmpoutbuf(u)
    OBVIOUS
  <2>5. << >> \in Seq(Datum)
    BY EmptySeq
  <2>6. v = [u EXCEPT !.on = FALSE, !.buf = << >>]
    BY <2>4 DEF close_tmpoutbuf
  <2>7. /\ v \in OutRec /\ v.fd = "file" /\ v.file = o.file \o done /\ v.pos = Len(v.file)
        /\ v.out = o.out /\ v.on = FALSE
    BY <2>3, <2>5, <2>6 DEF OutRec
  <2>8. r = write_fdout(v, d)
    BY <1>2, <1>4, <2>2, <2>4 DEF put_fdout
  <2>9. /\ r \in OutRec /\ r.fd = "file" /\ r.file = v.file \o d /\ r.pos = Len(r.file)
        /\ r.on = FALSE /\ r.out = o.out
    BY <2>7, <2>8, WriteFdout
  <2>10. o.file \in Seq(Datum)
    BY <1>1 DEF OutRec
  <2>11. r.file = o.file \o (done \o d)
    <3>1. o.file \o (done \o d) = (o.file \o done) \o d
      BY <2>10, Assoc
    <3>. QED  BY <2>7, <2>9, <3>1
  <2>. QED  BY <1>1, <1>2, <2>1, <2>9, <2>10, <2>11 DEF OutSound
<1>5. CASE o.on /\ ~(o.ofs + Len(d) > o.max)
  <2>1. /\ o.buf = done /\ o.ofs = Len(done) /\ Len(done) <= o.max
        /\ Front(mode, prev, o.file)
    BY <1>5 DEF OutSound
  <2>2. WriteAt(o.buf, o.ofs, d) = done \o d
    BY <2>1, WriteAtEnd, DatumFacts
  <2>3. PICK b : b = done \o d
    OBVIOUS
  <2>4. b \in Seq(Datum) /\ Len(b) = Len(done) + Len(d)
    BY <2>3, ConcatProperties
  <2>5. PICK k \in Nat : k = Len(done) + Len(d) /\ k <= o.max
    <3>1. PICK m \in Nat : m = o.max
      BY <1>1 DEF OutRec
    <3>2. Len(done) \in Nat /\ Len(d) \in Nat
      BY LenProperties
    <3>. QED  BY <1>5, <2>1, <3>1, <3>2
  <2>6. r = [o EXCEPT !.buf = b, !.ofs = k]
    BY <1>2, <1>5, <2>1, <2>2, <2>3, <2>5 DEF put_fdout
  <2>7. /\ r \in OutRec /\ r.fd = "file" /\ r.file = o.file /\ r.pos = o.pos
        /\ r.on /\ r.out = o.out /\ r.buf = b /\ r.ofs = k /\ r.max = o.max
    <3>1. o.on = TRUE /\ k \in Int
      BY <1>1, <1>5 DEF OutRec
    <3>2. b \in Seq(Datum)
      BY <2>4
    <3>. QED  BY <1>1, <2>6, <3>1, <3>2 DEF OutRec
  <2>. QED  BY <1>1, <1>2, <2>1, <2>3, <2>4, <2>5, <2>7 DEF OutSound
<1>. QED  BY <1>3, <1>4, <1>5

LEMMA PutAllKeeps ==
  ASSUME NEW o, NEW mode, NEW prev \in Seq(Datum), NEW done \in Seq(Datum),
         OutSound(o, mode, prev, done), NEW ps \in Seq(Seq(Datum))
  PROVE  OutSound(PutAll(o, ps)[Len(ps)], mode, prev, done \o Joined(ps)[Len(ps)])
<1>1. PICK n \in Nat : n = Len(ps)
  OBVIOUS
<1>2. /\ Joined(ps)[0] = << >>
      /\ \A k \in 1 .. n : Joined(ps)[k] = Joined(ps)[k - 1] \o ps[k]
      /\ \A k \in 0 .. n : Joined(ps)[k] \in Seq(Datum)
  BY <1>1, JoinedIs
<1>3. /\ PutAll(o, ps)[0] = o
      /\ \A k \in 1 .. n : PutAll(o, ps)[k] = put_fdout(PutAll(o, ps)[k - 1], ps[k])
  BY <1>1, PutAllIs
<1>. DEFINE S(x) == OutSound(PutAll(o, ps)[x], mode, prev, done \o Joined(ps)[x])
            G == {x \in Nat : x <= n => S(x)}
<1>4. S(0)
  <2>1. done \o << >> = done
    BY ConcatEmptySeq
  <2>. QED  BY <1>2, <1>3, <2>1
<1>5. ASSUME NEW x \in Nat, x + 1 <= n, S(x) PROVE S(x + 1)
  <2>1. x + 1 \in 1 .. n /\ (x + 1) - 1 = x /\ x \in 0 .. n
    BY <1>5
  <2>2. ps[x + 1] \in Seq(Datum) /\ Joined(ps)[x] \in Seq(Datum)
    BY <1>1, <1>2, <2>1
  <2>3. PICK u, e, a : u = PutAll(o, ps)[x] /\ e = Joined(ps)[x] /\ a = ps[x + 1]
    OBVIOUS
  <2>4. done \o e \in Seq(Datum)
    BY <2>2, <2>3, ConcatProperties
  <2>5. OutSound(put_fdout(u, a), mode, prev, (done \o e) \o a)
    BY <1>5, <2>2, <2>3, <2>4, PutKeeps
  <2>6. (done \o e) \o a = done \o (e \o a)
    <3>1. done \o (e \o a) = (done \o e) \o a
      BY <2>2, <2>3, Assoc
    <3>. QED  BY <3>1
  <2>7. PutAll(o, ps)[x + 1] = put_fdout(u, a) /\ Joined(ps)[x + 1] = e \o a
    BY <1>2, <1>3, <2>1, <2>3
  <2>. QED  BY <2>5, <2>6, <2>7
<1>6. \A x \in Nat : x \in G => x + 1 \in G
  <2>. HIDE DEF S
  <2>1. ASSUME NEW x \in Nat, x \in G, x + 1 <= n PROVE S(x + 1)
    <3>1. S(x)
      BY <2>1
    <3>. QED  BY <1>5, <2>1, <3>1
  <2>. QED  BY <2>1
<1>7. 0 \in G
  <2>. HIDE DEF S
  <2>. QED  BY <1>4
<1>8. Nat \subseteq G
  <2>. HIDE DEF G
  <2>. QED  BY <1>6, <1>7, AllNumbers
<1>9. S(n)
  <2>. HIDE DEF S
  <2>. QED  BY <1>8
<1>. QED  BY <1>1, <1>9

(* The history that unzip_match reads. *)
LEMMA HistoryIs ==
  ASSUME NEW o, NEW mode, NEW prev, NEW done \in Seq(Datum), OutSound(o, mode, prev, done),
         NEW ofs \in 1 .. Len(done), NEW n \in 1 .. ofs,
         NEW h, h = read_fdhist(o, get_seek(o) - ofs, n)
  PROVE  /\ h \in Seq(Datum) /\ Len(h) = n
         /\ \A j \in 1 .. n : h[j] = done[Len(done) - ofs + j]
<1>1. PICK l \in Nat : l = Len(done)
  OBVIOUS
<1>2. o \in OutRec /\ o.pos = Len(o.file)
  BY DEF OutSound
<1>3. ofs \in Nat /\ n \in Nat /\ n >= 1 /\ n <= ofs /\ ofs <= l
  BY <1>1
<1>4. ASSUME NEW s \in Seq(Datum), NEW a \in Nat, a + n <= Len(s), h = Slice(s, a + 1, a + n)
      PROVE  h \in Seq(Datum) /\ Len(h) = n /\ \A j \in 1 .. n : h[j] = s[a + j]
  <2>1. a + 1 \in Nat \ {0} /\ a + n \in Nat
    BY <1>3
  <2>2. /\ Slice(s, a + 1, a + n) \in Seq(Datum)
        /\ a + n <= Len(s) => Len(Slice(s, a + 1, a + n))
                                = IF a + 1 <= a + n THEN (a + n) - (a + 1) + 1 ELSE 0
        /\ \A j \in 1 .. Len(Slice(s, a + 1, a + n)) :
             Slice(s, a + 1, a + n)[j] = s[(a + 1) + j - 1]
    BY <2>1, SliceIs
  <2>3. Len(h) = n
    BY <1>3, <1>4, <2>2
  <2>4. \A j \in 1 .. n : (a + 1) + j - 1 = a + j
    BY <1>3
  <2>. QED  BY <1>4, <2>2, <2>3, <2>4
<1>5. CASE o.on
  <2>1. o.buf = done /\ o.ofs = l
    BY <1>1, <1>5 DEF OutSound
  <2>2. PICK r \in Nat : r = o.relofs
    BY <1>2 DEF OutRec
  <2>3. get_seek(o) = r + l
    BY <1>5, <2>1, <2>2 DEF get_seek
  <2>4. PICK a \in Nat : a = l - ofs
    BY <1>3
  <2>5. (r + l - ofs) - r + 1 = a + 1 /\ (r + l - ofs) - r + n = a + n
    BY <1>3, <2>4
  <2>6. h = Slice(done, a + 1, a + n)
    BY <1>5, <2>1, <2>2, <2>3, <2>5 DEF read_fdhist
  <2>7. a + n <= l
    BY <1>3, <2>4
  <2>. QED  BY <1>1, <1>4, <2>4, <2>6, <2>7
<1>6. CASE ~o.on
  <2>1. PICK x \in Seq(Datum) : o.file = x \o done
    BY <1>6 DEF OutSound
  <2>2. PICK m \in Nat : m = Len(x)
    OBVIOUS
  <2>3. /\ o.file \in Seq(Datum) /\ Len(o.file) = m + l
        /\ \A i \in 1 .. m + l : o.file[i] = IF i <= m THEN x[i] ELSE done[i - m]
    BY <1>1, <2>1, <2>2, ConcatProperties
  <2>4. get_seek(o) = m + l
    BY <1>2, <1>6, <2>3 DEF get_seek
  <2>5. PICK a \in Nat : a = m + l - ofs
    BY <1>3
  <2>6. h = Slice(o.file, a + 1, a + n)
    BY <1>6, <2>4, <2>5 DEF read_fdhist
  <2>7. a + n <= m + l
    BY <1>3, <2>5
  <2>8. h \in Seq(Datum) /\ Len(h) = n /\ \A j \in 1 .. n : h[j] = o.file[a + j]
    BY <1>4, <2>3, <2>6, <2>7
  <2>9. ASSUME NEW j \in 1 .. n PROVE h[j] = done[l - ofs + j]
    <3>1. a + j \in 1 .. m + l /\ ~(a + j <= m) /\ (a + j) - m = l - ofs + j
      BY <1>3, <2>5
    <3>. QED  BY <2>3, <2>8, <3>1
  <2>. QED  BY <1>1, <2>8, <2>9
<1>. QED  BY <1>5, <1>6
(* The pieces of unzip_match, one behind the other.                         *)
LEMMA MulUp == \A a, b, n \in Nat : a <= b => a * n <= b * n /\ a * n \in Nat /\ b * n \in Nat
  OBVIOUS

LEMMA PiecesCount ==
  ASSUME NEW n \in Nat \ {0}, NEW l \in Nat \ {0}
  PROVE  /\ (l + n - 1) \div n \in Nat \ {0}
         /\ \A x \in Nat : x < (l + n - 1) \div n => x * n < l
         /\ l <= ((l + n - 1) \div n) * n
<1>1. PICK a \in Nat : a = l + n - 1
  OBVIOUS
<1>2. PICK m \in Nat, r \in 0 .. n - 1 : m = a \div n /\ a = m * n + r
  BY DivFacts
<1>3. PICK mn \in Nat : mn = m * n
  OBVIOUS
<1>4. l <= mn /\ mn - n < l
  BY <1>1, <1>2, <1>3
<1>5. m # 0
  <2>1. m = 0 => mn = 0
    BY <1>3
  <2>. QED  BY <1>4, <2>1
<1>6. ASSUME NEW x \in Nat, x < m PROVE x * n < l
  <2>1. PICK y \in Nat : y = m - 1 /\ m = y + 1 /\ x <= y
    BY <1>6
  <2>2. (y + 1) * n = y * n + n
    OBVIOUS
  <2>3. PICK xn \in Nat, yn \in Nat : xn = x * n /\ yn = y * n /\ xn <= yn
    BY <2>1, MulUp
  <2>4. mn = yn + n
    BY <1>3, <2>1, <2>2, <2>3
  <2>. QED  BY <1>4, <2>3, <2>4
<1>. QED  BY <1>1, <1>2, <1>3, <1>4, <1>5, <1>6

(* e is as much of h, again and again, as it is long. *)
Around(e, h, n) ==
  e \in Seq(Datum) /\ \A i \in 1 .. Len(e) : e[i] = h[1 + ((i - 1) % n)]

LEMMA AroundMore ==
  ASSUME NEW n \in Nat \ {0}, NEW h \in Seq(Datum), Len(h) = n, NEW e, Around(e, h, n),
         NEW x \in Nat, Len(e) = x * n, NEW b \in 0 .. n
  PROVE  /\ Around(e \o SubSeq(h, 1, b), h, n)
         /\ Len(e \o SubSeq(h, 1, b)) = x * n + b
<1>1. PICK xn \in Nat : xn = x * n
  OBVIOUS
<1>2. PICK p : p = SubSeq(h, 1, b)
  OBVIOUS
<1>3. p \in Seq(Datum) /\ Len(p) = b /\ \A i \in 1 .. b : p[i] = h[i]
  <2>1. \A i \in 1 .. b : h[i] \in Datum
    OBVIOUS
  <2>2. /\ SubSeq(h, 1, b) \in Seq(Datum)
        /\ Len(SubSeq(h, 1, b)) = IF 1 <= b THEN b - 1 + 1 ELSE 0
        /\ \A i \in 1 .. b - 1 + 1 : SubSeq(h, 1, b)[i] = h[1 + i - 1]
    BY <2>1, SubSeqProperties
  <2>3. b \in Nat
    OBVIOUS
  <2>4. Len(p) = b
    BY <1>2, <2>2, <2>3
  <2>5. ASSUME NEW i \in 1 .. b PROVE p[i] = h[i]
    <3>1. i \in 1 .. b - 1 + 1 /\ 1 + i - 1 = i
      BY <2>3
    <3>. QED  BY <1>2, <2>2, <3>1
  <2>. QED  BY <1>2, <2>2, <2>4, <2>5
<1>4. PICK v : v = e \o p
  OBVIOUS
<1>5. e \in Seq(Datum) /\ Len(e) = xn
  BY <1>1 DEF Around
<1>6. /\ v \in Seq(Datum) /\ Len(v) = xn + b
      /\ \A i \in 1 .. xn + b : v[i] = IF i <= xn THEN e[i] ELSE p[i - xn]
  <2>1. /\ e \o p \in Seq(Datum) /\ Len(e \o p) = Len(e) + Len(p)
        /\ \A i \in 1 .. Len(e) + Len(p) : (e \o p)[i] = IF i <= Len(e) THEN e[i] ELSE p[i - Len(e)]
    BY <1>3, <1>5, ConcatProperties
  <2>. QED  BY <1>3, <1>4, <1>5, <2>1
<1>7. ASSUME NEW i \in 1 .. xn + b PROVE v[i] = h[1 + ((i - 1) % n)]
  <2>1. CASE i <= xn
    <3>1. i \in 1 .. xn
      BY <2>1
    <3>. QED  BY <1>5, <1>6, <2>1, <3>1 DEF Around
  <2>2. CASE ~(i <= xn)
    <3>1. PICK r \in Nat : r = i - xn - 1 /\ r < n /\ i - xn = 1 + r /\ 1 + r \in 1 .. b
      BY <2>2
    <3>2. PICK a \in Nat : a = i - 1 /\ a = x * n + r
      BY <1>1, <2>2, <3>1
    <3>3. a % n = r
      <4>1. n \in Nat
        OBVIOUS
      <4>2. r < n /\ a = x * n + r => a % n = r /\ a \div n = x
        BY <4>1, DivUnique, Zenon
      <4>. QED  BY <3>1, <3>2, <4>2, Zenon
    <3>4. v[i] = h[1 + r]
      BY <1>3, <1>6, <2>2, <3>1
    <3>. QED  BY <3>2, <3>3, <3>4
  <2>. QED  BY <2>1, <2>2
<1>. QED  BY <1>1, <1>2, <1>4, <1>6, <1>7 DEF Around

LEMMA PiecesIs ==
  ASSUME NEW n \in Nat \ {0}, NEW h \in Seq(Datum), Len(h) = n, NEW l \in Nat \ {0}
  PROVE  LET ps == Pieces(h, l)
         IN /\ ps \in Seq(Seq(Datum))
            /\ Around(Joined(ps)[Len(ps)], h, n) /\ Len(Joined(ps)[Len(ps)]) = l
<1>1. PICK m \in Nat \ {0} : /\ m = (l + n - 1) \div n
                             /\ \A x \in Nat : x < m => x * n < l
                             /\ l <= m * n
  BY PiecesCount
<1>2. PICK ps : ps = Pieces(h, l)
  OBVIOUS
<1>. DEFINE B(x) == IF x + 1 = m THEN l - x * n ELSE n
<1>3. ASSUME NEW x \in Nat, x < m
      PROVE  /\ Least(n, l - x * n) = B(x) /\ B(x) \in 0 .. n
             /\ x * n + B(x) = IF x + 1 = m THEN l ELSE (x + 1) * n
  <2>1. (x + 1) * n = x * n + n
    OBVIOUS
  <2>2. PICK xn \in Nat : xn = x * n
    OBVIOUS
  <2>3. xn < l
    BY <1>1, <1>3, <2>2
  <2>4. CASE x + 1 = m
    <3>1. l <= xn + n
      BY <1>1, <2>1, <2>2, <2>4
    <3>2. Least(n, l - xn) = l - xn /\ l - xn \in 0 .. n
      BY <2>3, <3>1 DEF Least
    <3>. QED  BY <2>2, <2>4, <3>2
  <2>5. CASE x + 1 # m
    <3>1. x + 1 \in Nat /\ x + 1 < m
      BY <1>3, <2>5
    <3>2. xn + n < l
      BY <1>1, <2>1, <2>2, <3>1
    <3>3. Least(n, l - xn) = n
      BY <3>2 DEF Least
    <3>. QED  BY <2>1, <2>2, <2>5, <3>3
  <2>. QED  BY <2>4, <2>5
<1>4. ps = [j \in 1 .. m |-> SubSeq(h, 1, Least(n, l - (j - 1) * n))]
  BY <1>1, <1>2, Zenon DEF Pieces
<1>5. ASSUME NEW x \in Nat, x < m PROVE ps[x + 1] = SubSeq(h, 1, B(x))
  <2>1. x + 1 \in 1 .. m /\ (x + 1) - 1 = x
    BY <1>5
  <2>2. ps[x + 1] = SubSeq(h, 1, Least(n, l - ((x + 1) - 1) * n))
    BY <1>4, <2>1
  <2>. HIDE DEF B
  <2>. QED  BY <1>3, <1>5, <2>1, <2>2
<1>. HIDE DEF B
<1>6. ps \in [1 .. m -> Seq(Datum)]
  <2>1. ASSUME NEW j \in 1 .. m PROVE ps[j] \in Seq(Datum)
    <3>1. PICK x \in Nat : x = j - 1 /\ x < m /\ x + 1 = j
      OBVIOUS
    <3>2. ps[j] = SubSeq(h, 1, B(x)) /\ B(x) \in 0 .. n
      BY <1>3, <1>5, <3>1
    <3>3. \A i \in 1 .. B(x) : h[i] \in Datum
      BY <3>2
    <3>4. SubSeq(h, 1, B(x)) \in Seq(Datum)
      BY <3>2, <3>3, SubSeqProperties
    <3>. QED  BY <3>2, <3>4
  <2>2. DOMAIN ps = 1 .. m /\ ps = [j \in 1 .. m |-> ps[j]]
    BY <1>4
  <2>. QED  BY <2>1, <2>2
<1>7. ps \in Seq(Seq(Datum)) /\ Len(ps) = m
  BY <1>6
<1>8. /\ Joined(ps)[0] = << >>
      /\ \A k \in 1 .. m : Joined(ps)[k] = Joined(ps)[k - 1] \o ps[k]
  BY <1>7, JoinedIs
<1>. DEFINE S(x) == Around(Joined(ps)[x], h, n)
                    /\ Len(Joined(ps)[x]) = IF x = m THEN l ELSE x * n
            G == {x \in Nat : x <= m => S(x)}
<1>9. S(0)
  <2>1. Around(<< >>, h, n) /\ Len(<< >>) = 0 /\ 0 * n = 0
    BY EmptySeq DEF Around
  <2>. QED  BY <1>1, <1>8, <2>1
<1>10. ASSUME NEW x \in Nat, x + 1 <= m, S(x) PROVE S(x + 1)
  <2>1. x < m /\ x # m /\ x + 1 \in 1 .. m /\ (x + 1) - 1 = x
    BY <1>10
  <2>2. PICK e : e = Joined(ps)[x]
    OBVIOUS
  <2>3. Around(e, h, n) /\ Len(e) = x * n
    BY <1>10, <2>1, <2>2
  <2>4. B(x) \in 0 .. n
    BY <1>3, <2>1
  <2>5. /\ Around(e \o SubSeq(h, 1, B(x)), h, n)
        /\ Len(e \o SubSeq(h, 1, B(x))) = x * n + B(x)
    BY <2>3, <2>4, AroundMore
  <2>6. Joined(ps)[x + 1] = e \o SubSeq(h, 1, B(x))
    BY <1>5, <1>8, <2>1, <2>2
  <2>. QED  BY <1>3, <2>1, <2>5, <2>6
<1>11. 0 \in G /\ \A x \in Nat : x \in G => x + 1 \in G
  <2>. HIDE DEF S
  <2>1. ASSUME NEW x \in Nat, x \in G, x + 1 <= m PROVE S(x + 1)
    <3>1. S(x)
      BY <2>1
    <3>. QED  BY <1>10, <2>1, <3>1
  <2>. QED  BY <1>9, <2>1
<1>12. Nat \subseteq G
  <2>. HIDE DEF G
  <2>. QED  BY <1>11, AllNumbers
<1>13. S(m)
  <2>. HIDE DEF S
  <2>. QED  BY <1>12
<1>. QED  BY <1>2, <1>7, <1>13
(* What unzip_match writes is what the match means.                         *)
LEMMA MatchPuts ==
  ASSUME NEW o, NEW mode, NEW prev \in Seq(Datum), NEW done \in Seq(Datum),
         OutSound(o, mode, prev, done), NEW k \in Token, k.ofs \in 1 .. Len(done),
         NEW h, h = read_fdhist(o, get_seek(o) - k.ofs, Least(k.len, k.ofs)),
         NEW ps, ps = Pieces(h, k.len)
  PROVE  /\ OutSound(PutAll(o, ps)[Len(ps)], mode, prev, done \o Repeat(done, k))
         /\ Joined(ps)[Len(ps)] = Repeat(done, k)
<1>1. PICK f \in Nat \ {0}, l \in Nat \ {0} : f = k.ofs /\ l = k.len
  BY DEF Token
<1>2. PICK n \in Nat \ {0} : n = Least(l, f) /\ n <= f /\ (n = f \/ n = l)
  BY DEF Least
<1>3. f \in 1 .. Len(done) /\ n \in 1 .. f
  BY <1>1, <1>2
<1>4. h = read_fdhist(o, get_seek(o) - f, n)
  BY <1>1, <1>2
<1>5. /\ h \in Seq(Datum) /\ Len(h) = n
      /\ \A j \in 1 .. n : h[j] = done[Len(done) - f + j]
  BY <1>3, <1>4, HistoryIs
<1>6. ps = Pieces(h, l)
  BY <1>1
<1>7. PICK e : e = Joined(ps)[Len(ps)]
  OBVIOUS
<1>8. ps \in Seq(Seq(Datum)) /\ Around(e, h, n) /\ Len(e) = l
  BY <1>5, <1>6, <1>7, PiecesIs
<1>9. PICK r : r = Repeat(done, k)
  OBVIOUS
<1>10. /\ r \in Seq(Datum) /\ Len(r) = l
       /\ \A i \in 1 .. l : r[i] = done[Len(done) - f + 1 + ((i - 1) % f)]
  <2>1. /\ Repeat(done, k) \in Seq(Datum) /\ Len(Repeat(done, k)) = k.len
        /\ \A j \in 1 .. k.len :
             Repeat(done, k)[j] = done[Len(done) - k.ofs + 1 + ((j - 1) % k.ofs)]
    BY RepeatIs
  <2>. QED  BY <1>1, <1>9, <2>1, Zenon
<1>11. ASSUME NEW i \in 1 .. l PROVE e[i] = r[i]
  <2>1. PICK a \in Nat : a = i - 1 /\ a < l
    OBVIOUS
  <2>2. a % n = a % f /\ a % n \in 0 .. n - 1
    <3>1. n \in Nat /\ f \in Nat /\ n > 0
      OBVIOUS
    <3>2. a % n \in 0 .. n - 1
      BY <3>1, DivFacts
    <3>3. CASE n = f
      BY <3>2, <3>3
    <3>4. CASE n = l
      <4>1. a < n /\ a < f
        BY <1>2, <2>1, <3>4
      <4>2. a = 0 * n + a /\ a = 0 * f + a /\ 0 \in Nat
        OBVIOUS
      <4>3. a % n = a /\ a % f = a
        BY <3>1, <4>1, <4>2, DivUnique
      <4>. QED  BY <3>2, <4>3
    <3>. QED  BY <1>2, <3>3, <3>4
  <2>3. PICK b \in 0 .. n - 1 : b = a % n /\ b = a % f
    BY <2>2
  <2>4. e[i] = h[1 + b]
    BY <1>8, <2>1, <2>3 DEF Around
  <2>5. 1 + b \in 1 .. n
    OBVIOUS
  <2>6. h[1 + b] = done[Len(done) - f + (1 + b)]
    BY <1>5, <2>5
  <2>7. r[i] = done[Len(done) - f + 1 + b]
    BY <1>10, <2>1, <2>3
  <2>8. Len(done) - f + (1 + b) = Len(done) - f + 1 + b
    <3>1. Len(done) \in Nat
      OBVIOUS
    <3>. QED  BY <3>1
  <2>. QED  BY <2>4, <2>6, <2>7, <2>8
<1>12. e = r
  <2>1. \A i \in 1 .. Len(e) : e[i] = r[i]
    BY <1>8, <1>11
  <2>. QED  BY <1>8, <1>10, <2>1, SeqEqual DEF Around
<1>13. OutSound(PutAll(o, ps)[Len(ps)], mode, prev, done \o e)
  BY <1>7, <1>8, PutAllKeeps
<1>. QED  BY <1>7, <1>9, <1>12, <1>13

(* The end of a chunk. *)
LEMMA FlushKeeps ==
  ASSUME NEW o, NEW mode \in Modes, NEW prev \in Seq(Datum), NEW done \in Seq(Datum),
         OutSound(o, mode, prev, done)
  PROVE  OutSound(IF o.on THEN flush_tmpoutbuf(o, mode)
                  ELSE IF mode = "stdout" THEN dump_tmpoutfile(o, mode) ELSE o,
                  mode, prev \o done, << >>)
<1>1. o \in OutRec /\ o.fd = "file" /\ o.pos = Len(o.file) /\ (mode = "stdout" => o.out = prev)
  BY DEF OutSound
<1>2. PICK e : e = prev \o done /\ e \in Seq(Datum)
  BY ConcatProperties
<1>3. << >> \in Seq(Datum) /\ Len(<< >>) = 0
  BY EmptySeq
<1>4. CASE o.on
  <2>1. o.buf = done /\ Front(mode, prev, o.file)
    BY <1>4 DEF OutSound
  <2>2. PICK q \in Nat : q = o.relofs + Len(done)
    <3>1. o.relofs \in Nat /\ Len(done) \in Nat
      BY <1>1, LenProperties DEF OutRec
    <3>. QED  BY <3>1
  <2>3. PICK w : /\ w \in OutRec /\ w.on /\ w.fd = "file" /\ w.pos = Len(w.file) /\ w.max = o.max
                 /\ w.relofs = o.relofs /\ w.buf = done /\ Front(mode, e, w.file)
                 /\ (mode = "stdout" => w.out = e)
                 /\ w = CASE mode = "test" -> o
                          [] mode \in {"stdout", "compress"} -> [o EXCEPT !.out = @ \o o.buf]
                          [] OTHER -> write_fdout(o, o.buf)
    <3>1. CASE mode = "test"
      BY <1>1, <1>4, <2>1, <3>1 DEF Front
    <3>2. CASE mode = "stdout"
      <4>1. PICK w : w = [o EXCEPT !.out = e]
        OBVIOUS
      <4>2. w = [o EXCEPT !.out = @ \o o.buf]
        BY <1>1, <1>2, <2>1, <3>2, <4>1
      <4>3. /\ w \in OutRec /\ w.on /\ w.fd = "file" /\ w.file = o.file /\ w.pos = o.pos
            /\ w.max = o.max /\ w.relofs = o.relofs /\ w.buf = o.buf /\ w.out = e
        BY <1>1, <1>2, <1>4, <4>1 DEF OutRec
      <4>. QED  BY <1>1, <2>1, <3>2, <4>2, <4>3 DEF Front
    <3>3. CASE mode = "file"
      <4>1. PICK w : w = write_fdout(o, done)
        OBVIOUS
      <4>2. /\ w \in OutRec /\ w.fd = "file" /\ w.file = o.file \o done /\ w.pos = Len(w.file)
            /\ w.on = o.on /\ w.buf = o.buf /\ w.max = o.max /\ w.relofs = o.relofs
        BY <1>1, <4>1, WriteFdout
      <4>. QED  BY <1>2, <1>4, <2>1, <3>3, <4>1, <4>2 DEF Front
    <3>. QED  BY <3>1, <3>2, <3>3 DEF Modes
  <2>4. flush_tmpoutbuf(o, mode) = [w EXCEPT !.relofs = @ + Len(o.buf), !.ofs = 0, !.buf = << >>]
    BY <2>3, Zenon DEF flush_tmpoutbuf
  <2>5. PICK r : r = [w EXCEPT !.relofs = q, !.ofs = 0, !.buf = << >>]
    OBVIOUS
  <2>6. r = flush_tmpoutbuf(o, mode)
    BY <2>1, <2>2, <2>3, <2>4, <2>5
  <2>7. /\ r \in OutRec /\ r.on /\ r.fd = "file" /\ r.file = w.file /\ r.pos = w.pos
        /\ r.max = w.max /\ r.buf = << >> /\ r.ofs = 0 /\ r.out = w.out
    <3>1. w \in OutRec /\ w.on = TRUE /\ w.fd = "file"
      BY <2>3 DEF OutRec
    <3>2. << >> \in Seq(Datum) /\ 0 \in Int
      BY <1>3
    <3>. QED  BY <2>5, <3>1, <3>2 DEF OutRec
  <2>8. 0 <= r.max
    BY <2>7 DEF OutRec
  <2>9. OutSound(r, mode, e, << >>)
    BY <1>3, <2>3, <2>7, <2>8 DEF OutSound
  <2>. QED  BY <1>2, <1>4, <2>6, <2>9
<1>5. CASE ~o.on
  <2>1. PICK x \in Seq(Datum) : Front(mode, prev, x) /\ o.file = x \o done
    BY <1>5 DEF OutSound
  <2>2. CASE mode = "stdout"
    <3>1. PICK r : r = dump_tmpoutfile(o, mode)
      OBVIOUS
    <3>2. << >> \o done = done
      BY ConcatEmptySeq
    <3>3. o.out \o o.file = e
      BY <1>1, <1>2, <2>1, <2>2, <3>2 DEF Front
    <3>4. r = [o EXCEPT !.out = e, !.file = << >>, !.pos = 0]
      BY <2>2, <3>1, <3>3 DEF dump_tmpoutfile
    <3>5. /\ r \in OutRec /\ r.on = o.on /\ r.fd = "file" /\ r.file = << >> /\ r.pos = 0
          /\ r.out = e
      BY <1>1, <1>2, <1>3, <3>4 DEF OutRec
    <3>6. << >> \o << >> = << >>
      BY <1>3, ConcatEmptySeq
    <3>7. Front(mode, e, << >>)
      BY <2>2 DEF Front
    <3>8. OutSound(r, mode, e, << >>)
      BY <1>3, <1>5, <3>5, <3>6, <3>7 DEF OutSound
    <3>. QED  BY <1>2, <1>5, <2>2, <3>1, <3>8
  <2>3. CASE mode # "stdout"
    <3>1. o.file \in Seq(Datum)
      BY <1>1 DEF OutRec
    <3>2. o.file \o << >> = o.file
      BY <3>1, ConcatEmptySeq
    <3>3. Front(mode, e, o.file)
      BY <1>2, <2>1, <2>3 DEF Front
    <3>4. OutSound(o, mode, e, << >>)
      BY <1>1, <1>5, <2>3, <3>1, <3>2, <3>3 DEF OutSound
    <3>. QED  BY <1>2, <1>5, <2>3, <3>4
  <2>. QED  BY <2>2, <2>3
<1>. QED  BY <1>4, <1>5
-----------------------------------------------------------------------------
(* Decompression, step by step: what is decoded, and the sums.              *)

LEMMA ReadState ==
  ASSUME ConfInv, PlaceInv, DataInv, Running, Read, phase \in Reading
  PROVE  /\ ReadConf(conf) /\ SoundConf(conf) /\ KindsAre(conf, {"literal", "match"})
         /\ chunk \in 1 .. Len(conf.chunks) /\ tok \in 1 .. Len(Tokens) + 1
         /\ Tokens = conf.chunks[chunk]
         /\ Prior(conf, chunk) \in Seq(Datum) /\ Sofar(conf, chunk, tok) \in Seq(Datum)
         /\ OutSound(out, conf.mode, Prior(conf, chunk), Sofar(conf, chunk, tok))
         /\ SumSound(Prior(conf, chunk) \o Sofar(conf, chunk, tok))
<1>1. ReadConf(conf)
  BY DEF ConfInv, Read, WriteConf, Modes
<1>2. SoundConf(conf) /\ KindsAre(conf, {"literal", "match"})
  BY <1>1, ConfFacts
<1>3. DOMAIN conf.chunks = 1 .. Len(conf.chunks)
  BY <1>2, LenProperties DEF SoundConf
<1>4. chunk \in 1 .. Len(conf.chunks) /\ tok \in 1 .. Len(Tokens) + 1
  BY <1>3 DEF PlaceInv, AtToken
<1>5. Sofar(conf, chunk, tok) \in Seq(Datum)
  <2>1. \A t \in 1 .. Len(conf.chunks[chunk]) + 1 : Sofar(conf, chunk, t) \in Seq(Datum)
    BY <1>2, <1>4, SofarIs
  <2>. QED  BY <1>4, <2>1 DEF Tokens
<1>6. Prior(conf, chunk) \in Seq(Datum)
  <2>1. PICK n \in Nat : n = Len(conf.chunks)
    BY <1>2, PriorIs
  <2>2. chunk \in 1 .. n + 1
    BY <1>4, <2>1
  <2>3. \A c \in 1 .. n + 1 : Prior(conf, c) \in Seq(Datum)
    BY <1>2, <2>1, PriorIs
  <2>. QED  BY <2>2, <2>3
<1>7. /\ OutSound(out, conf.mode, Prior(conf, chunk), Sofar(conf, chunk, tok))
      /\ SumSound(Prior(conf, chunk) \o Sofar(conf, chunk, tok))
  BY DEF DataInv
<1>. QED  BY <1>1, <1>2, <1>4, <1>5, <1>6, <1>7 DEF Tokens

(* The bytes of a token, in both sums and behind all others.                *)
LEMMA SumGrows ==
  ASSUME NEW a \in Seq(Datum), SumSound(a), NEW d \in Seq(Datum), Digest(d),
         total' = total + Len(d), conf' = conf
  PROVE  SumSound(a \o d)'
<1>1. Len(a \o d) = Len(a) + Len(d) /\ << >> \o d = d
  BY ConcatProperties, ConcatEmptySeq
<1>2. total' = Len(a \o d)
  BY <1>1 DEF SumSound
<1>3. CASE conf.hashed
  BY <1>2, <1>3 DEF SumSound, Digest
<1>4. CASE ~conf.hashed
  BY <1>2, <1>4 DEF SumSound, Digest
<1>. QED  BY <1>3, <1>4

LEMMA BoundedOut ==
  ASSUME NEW o, NEW mode, NEW prev, NEW done \in Seq(Datum), OutSound(o, mode, prev, done)
  PROVE  Bounded(o)
<1>1. Len(done) \in Nat
  BY LenProperties
<1>. QED  BY <1>1 DEF OutSound, Bounded

(* One more token. *)
LEMMA TokenData ==
  ASSUME ConfInv, PlaceInv, DataInv, Running, Read, phase = "tokens", tok <= Len(Tokens),
         NEW d \in Seq(Datum), Sofar(conf, chunk, tok + 1) = Sofar(conf, chunk, tok) \o d,
         OutSound(out', conf.mode, Prior(conf, chunk), Sofar(conf, chunk, tok) \o d),
         Digest(d), total' = total + Len(d), tok' = tok + 1,
         UNCHANGED <<conf, chunk, phase>>
  PROVE  DataInv' /\ Bounded(out)'
<1>1. PICK prev \in Seq(Datum), done \in Seq(Datum) :
        /\ prev = Prior(conf, chunk) /\ done = Sofar(conf, chunk, tok)
        /\ SumSound(prev \o done)
  BY ReadState DEF Reading
<1>2. prev \o done \in Seq(Datum) /\ done \o d \in Seq(Datum)
  BY ConcatProperties
<1>3. SumSound((prev \o done) \o d)'
  BY <1>2, <1>1, SumGrows
<1>4. (prev \o done) \o d = prev \o (done \o d)
  BY Assoc
<1>5. SumSound(prev \o (done \o d))'
  BY <1>3, <1>4 DEF SumSound
<1>6. Prior(conf, chunk)' = prev /\ Sofar(conf, chunk, tok)' = done \o d
  BY <1>1 DEF Prior, Sofar
<1>7. OutSound(out', conf.mode, prev, done \o d)
  BY <1>1
<1>8. Bounded(out)'
  BY <1>2, <1>7, BoundedOut DEF Bounded
<1>9. OutSound(out, conf.mode, Prior(conf, chunk), Sofar(conf, chunk, tok))'
  BY <1>6, <1>7 DEF OutSound, Front
<1>10. SumSound(Prior(conf, chunk) \o Sofar(conf, chunk, tok))'
  BY <1>5, <1>6 DEF SumSound
<1>. QED  BY <1>8, <1>9, <1>10 DEF DataInv, Reading

LEMMA LiteralData ==
  ASSUME ConfInv, PlaceInv, DataInv, Read, unzip_literal
  PROVE  DataInv' /\ Bounded(out)'
<1>1. Running /\ phase = "tokens" /\ tok <= Len(Tokens) /\ Tokens[tok].kind = "literal"
  BY DEF unzip_literal
<1>2. PICK c \in Nat, t \in Nat : c = chunk /\ t = tok /\ c \in 1 .. Len(conf.chunks)
                                  /\ t \in 1 .. Len(conf.chunks[c])
  BY <1>1, ReadState DEF Reading
<1>3. PICK done \in Seq(Datum), prev \in Seq(Datum) :
        /\ done = Sofar(conf, chunk, tok) /\ prev = Prior(conf, chunk)
        /\ OutSound(out, conf.mode, prev, done)
  BY <1>1, ReadState DEF Reading
<1>4. SoundConf(conf)
  BY <1>1, ReadState DEF Reading
<1>5. PICK k : k = Tokens[tok] /\ k = conf.chunks[c][t]
  BY <1>2 DEF Tokens
<1>6. /\ Fits(done, k) /\ k \in Token
      /\ Sofar(conf, c, t + 1) = Carried(done, k, Fresh(c, t, k.len))
  BY <1>2, <1>3, <1>4, <1>5, SofarIs
<1>7. PICK d : d = Fresh(c, t, k.len)
  OBVIOUS
<1>8. d \in Seq(Datum)
  <2>1. k.len \in Nat
    BY <1>6 DEF Token
  <2>. QED  BY <1>7, <2>1, FreshIs
<1>9. Sofar(conf, chunk, tok + 1) = done \o d
  <2>1. k.kind = "literal"
    BY <1>1, <1>5
  <2>2. Carried(done, k, d) = done \o d
    BY <2>1 DEF Carried
  <2>. QED  BY <1>2, <1>6, <1>7, <2>2
<1>10. /\ out' = put_fdout(out, d) /\ Digest(d) /\ total' = total + Len(d) /\ tok' = tok + 1
       /\ UNCHANGED <<conf, chunk, phase>>
  BY <1>2, <1>5, <1>7 DEF unzip_literal
<1>11. OutSound(out', conf.mode, prev, done \o d)
  <2>1. OutSound(put_fdout(out, d), conf.mode, prev, done \o d)
    BY <1>3, <1>8, PutKeeps
  <2>. QED  BY <1>10, <2>1
<1>. QED  BY <1>1, <1>3, <1>8, <1>9, <1>10, <1>11, TokenData

LEMMA MatchData ==
  ASSUME ConfInv, PlaceInv, DataInv, Read, unzip_match
  PROVE  DataInv' /\ Bounded(out)'
<1>1. Running /\ phase = "tokens" /\ tok <= Len(Tokens) /\ Tokens[tok].kind = "match"
  BY DEF unzip_match
<1>2. PICK c \in Nat, t \in Nat : c = chunk /\ t = tok /\ c \in 1 .. Len(conf.chunks)
                                  /\ t \in 1 .. Len(conf.chunks[c])
  BY <1>1, ReadState DEF Reading
<1>3. PICK done \in Seq(Datum), prev \in Seq(Datum) :
        /\ done = Sofar(conf, chunk, tok) /\ prev = Prior(conf, chunk)
        /\ OutSound(out, conf.mode, prev, done)
  BY <1>1, ReadState DEF Reading
<1>4. SoundConf(conf)
  BY <1>1, ReadState DEF Reading
<1>5. PICK k : k = Tokens[tok] /\ k = conf.chunks[c][t]
  BY <1>2 DEF Tokens
<1>6. /\ Fits(done, k) /\ k \in Token
      /\ Sofar(conf, c, t + 1) = Carried(done, k, Fresh(c, t, k.len))
  BY <1>2, <1>3, <1>4, <1>5, SofarIs
<1>7. k.kind = "match" /\ k.ofs \in 1 .. Len(done)
  BY <1>1, <1>5, <1>6 DEF Fits
<1>8. PICK d : d = Repeat(done, k)
  OBVIOUS
<1>9. d \in Seq(Datum) /\ Len(d) = k.len
  BY <1>6, <1>7, <1>8, RepeatIs
<1>10. Sofar(conf, chunk, tok + 1) = done \o d
  <2>1. Carried(done, k, Fresh(c, t, k.len)) = done \o Repeat(done, k)
    BY <1>6, <1>7, CarriedIs
  <2>. QED  BY <1>2, <1>6, <1>8, <2>1
<1>11. PICK h : h = read_fdhist(out, get_seek(out) - k.ofs, Least(k.len, k.ofs))
  OBVIOUS
<1>12. PICK ps : ps = Pieces(h, k.len)
  OBVIOUS
<1>13. /\ out' = PutAll(out, ps)[Len(ps)] /\ Digest(Joined(ps)[Len(ps)])
       /\ total' = total + k.len /\ tok' = tok + 1 /\ UNCHANGED <<conf, chunk, phase>>
  BY <1>5, <1>11, <1>12 DEF unzip_match
<1>14. /\ OutSound(PutAll(out, ps)[Len(ps)], conf.mode, prev, done \o d)
       /\ Joined(ps)[Len(ps)] = d
  BY <1>3, <1>6, <1>7, <1>8, <1>11, <1>12, MatchPuts
<1>15. OutSound(out', conf.mode, prev, done \o d) /\ Digest(d) /\ total' = total + Len(d)
  BY <1>9, <1>13, <1>14
<1>. QED  BY <1>1, <1>3, <1>9, <1>10, <1>13, <1>15, TokenData
(* The chunk that ends, and whether there is another one. *)
LEMMA EndOfChunk ==
  ASSUME ConfInv, PlaceInv, DataInv, Read, EndChunk
  PROVE  /\ Sofar(conf, chunk, tok) = Meant(chunk, conf.chunks[chunk])
         /\ Prior(conf, chunk + 1) = Prior(conf, chunk) \o Sofar(conf, chunk, tok)
         /\ Prior(conf, chunk + 1) \in Seq(Datum)
         /\ Prior(conf, Len(conf.chunks) + 1) = conf.meant
         /\ phase' = IF chunk = Len(conf.chunks) THEN "hash" ELSE "open"
         /\ fate' = "refused" => ~conf.hashed /\ Len(conf.chunks) > 1
         /\ fate' \in {"run", "refused"}
<1>1. Running /\ phase = "tokens" /\ tok > Len(Tokens)
  BY DEF EndChunk
<1>2. ReadConf(conf) /\ SoundConf(conf) /\ KindsAre(conf, {"literal", "match"})
  BY <1>1, ReadState DEF Reading
<1>3. PICK m \in Nat : m = Len(conf.chunks) /\ m # 0
  BY <1>2, PriorIs
<1>4. PICK c \in Nat : c = chunk /\ c \in 1 .. m
  BY <1>1, <1>3, ReadState DEF Reading
<1>5. PICK n \in Nat : n = Len(conf.chunks[c])
  BY <1>2, <1>3, <1>4, SofarIs
<1>6. tok = n + 1
  <2>1. tok \in 1 .. n + 1 /\ tok > n
    BY <1>1, <1>4, <1>5, ReadState DEF Reading, Tokens
  <2>. QED  BY <2>1
<1>7. Sofar(conf, c, n + 1) = Meant(c, conf.chunks[c])
  BY <1>2, <1>3, <1>4, <1>5, SofarIs
<1>8. /\ \A a \in 1 .. m + 1 : Prior(conf, a) \in Seq(Datum)
      /\ \A a \in 1 .. m :
           /\ Meant(a, conf.chunks[a]) \in Seq(Datum)
           /\ Prior(conf, a + 1) = Prior(conf, a) \o Meant(a, conf.chunks[a])
      /\ Prior(conf, m + 1) = Whole(conf.chunks)
  BY <1>2, <1>3, PriorIs
<1>9. c + 1 \in 1 .. m + 1
  BY <1>4
<1>10. PICK p : p = Prior(conf, c + 1) /\ p \in Seq(Datum)
  BY <1>8, <1>9
<1>11. Prior(conf, c + 1) = Prior(conf, c) \o Sofar(conf, c, n + 1)
  BY <1>4, <1>7, <1>8
<1>12. SumSound(p)
  BY <1>1, <1>4, <1>6, <1>10, <1>11, ReadState DEF Reading
<1>13. phase' = IF c = m THEN "hash" ELSE "open"
  <2>1. PICK w \in Nat : w = Len(Whole(conf.chunks))
    <3>1. m + 1 \in 1 .. m + 1
      OBVIOUS
    <3>. QED  BY <1>8, <3>1, LenProperties
  <2>2. conf.expected = 0 \/ conf.expected = w
    BY <1>2, <2>1 DEF ReadConf
  <2>3. total = Len(p)
    BY <1>12 DEF SumSound
  <2>4. phase' = IF total < conf.expected \/ (conf.expected = 0 /\ c < m) THEN "open" ELSE "hash"
    BY <1>3, <1>4 DEF EndChunk
  <2>5. CASE c = m
    <3>1. total = w
      BY <1>8, <1>10, <2>1, <2>3, <2>5
    <3>. QED  BY <2>2, <2>4, <2>5, <3>1
  <2>6. CASE c # m
    <3>1. total \in Nat /\ total < w
      <4>1. Len(Prior(conf, c + 1)) \in Nat /\ Len(Prior(conf, c + 1)) < Len(Whole(conf.chunks))
        BY <1>2, <1>3, <1>4, <2>6, MoreToCome
      <4>. QED  BY <1>10, <2>1, <2>3, <4>1
    <3>2. c < m
      BY <1>4, <2>6
    <3>. QED  BY <2>2, <2>4, <2>6, <3>1, <3>2
  <2>. QED  BY <2>5, <2>6
<1>14. fate' = IF ~conf.hashed /\ ~GoodCrc THEN "refused" ELSE "run"
  BY <1>1 DEF EndChunk, Running
<1>15. ASSUME ~conf.hashed, ~GoodCrc PROVE m > 1
  <2>. SUFFICES ASSUME c = 1 PROVE GoodCrc
    BY <1>4, <1>15
  <2>1. p = Meant(1, conf.chunks[1])
    <3>1. Prior(conf, 1) = << >> /\ Meant(1, conf.chunks[1]) \in Seq(Datum)
      BY <1>2, <1>4, <1>8, PriorIs
    <3>2. << >> \o Meant(1, conf.chunks[1]) = Meant(1, conf.chunks[1])
      BY <3>1, ConcatEmptySeq
    <3>. QED  BY <1>4, <1>8, <1>10, <3>1, <3>2
  <2>. QED  BY <1>4, <1>12, <1>15, <2>1 DEF SumSound, GoodCrc
<1>16. Whole(conf.chunks) = conf.meant
  BY <1>2 DEF ReadConf
<1>. QED  BY <1>3, <1>4, <1>6, <1>7, <1>8, <1>10, <1>11, <1>13, <1>14, <1>15, <1>16

LEMMA EndChunkData ==
  ASSUME ConfInv, PlaceInv, DataInv, Read, EndChunk
  PROVE  DataInv' /\ Bounded(out)'
<1>1. Running /\ phase = "tokens"
  BY DEF EndChunk
<1>2. PICK done \in Seq(Datum), prev \in Seq(Datum), c \in Nat, m \in Nat :
        /\ done = Sofar(conf, chunk, tok) /\ prev = Prior(conf, chunk)
        /\ OutSound(out, conf.mode, prev, done) /\ SumSound(prev \o done)
        /\ c = chunk /\ m = Len(conf.chunks) /\ c \in 1 .. m /\ SoundConf(conf)
  <2>1. SoundConf(conf)
    BY <1>1, ReadState DEF Reading
  <2>2. Len(conf.chunks) \in Nat
    BY <2>1, PriorIs
  <2>. QED  BY <1>1, <2>1, <2>2, ReadState DEF Reading
<1>3. PICK p \in Seq(Datum) : p = prev \o done /\ p = Prior(conf, c + 1)
  BY <1>2, EndOfChunk
<1>4. OutSound(out', conf.mode, p, << >>)
  <2>1. out' = IF out.on THEN flush_tmpoutbuf(out, conf.mode)
               ELSE IF conf.mode = "stdout" THEN dump_tmpoutfile(out, conf.mode) ELSE out
    BY DEF EndChunk
  <2>2. conf.mode \in Modes
    BY DEF Read
  <2>3. OutSound(IF out.on THEN flush_tmpoutbuf(out, conf.mode)
                 ELSE IF conf.mode = "stdout" THEN dump_tmpoutfile(out, conf.mode) ELSE out,
                 conf.mode, prev \o done, << >>)
    BY <1>2, <2>2, FlushKeeps
  <2>. QED  BY <1>3, <2>1, <2>3
<1>5. << >> \in Seq(Datum) /\ p \o << >> = p
  BY EmptySeq, ConcatEmptySeq
<1>6. Bounded(out)'
  BY <1>4, <1>5, BoundedOut DEF Bounded
<1>7. conf' = conf /\ chunk' = c + 1 /\ tok' = 1 /\ UNCHANGED <<crc, hash, total>>
  BY <1>2 DEF EndChunk
<1>8. SumSound(p)'
  BY <1>2, <1>3, <1>7 DEF SumSound
<1>9. CASE c = m
  <2>1. phase' = "hash" /\ p = conf.meant
    BY <1>2, <1>3, <1>9, EndOfChunk
  <2>2. OutSound(out, conf.mode, conf.meant, << >>)'
    BY <1>4, <1>7, <2>1 DEF OutSound, Front
  <2>3. SumSound(conf.meant)'
    BY <1>7, <1>8, <2>1 DEF SumSound
  <2>. QED  BY <1>6, <2>1, <2>2, <2>3 DEF DataInv, Reading
<1>10. CASE c # m
  <2>1. phase' = "open"
    BY <1>2, <1>10, EndOfChunk
  <2>2. Prior(conf, chunk)' = p
    BY <1>3, <1>7 DEF Prior
  <2>3. Sofar(conf, chunk, tok)' = << >>
    <3>1. c + 1 \in 1 .. m
      BY <1>2, <1>10
    <3>2. Sofar(conf, c + 1, 1) = << >>
      BY <1>2, <3>1, SofarIs
    <3>. QED  BY <1>7, <3>2 DEF Sofar
  <2>4. OutSound(out, conf.mode, Prior(conf, chunk), Sofar(conf, chunk, tok))'
    BY <1>4, <1>7, <2>2, <2>3 DEF OutSound, Front
  <2>5. SumSound(Prior(conf, chunk) \o Sofar(conf, chunk, tok))'
    BY <1>5, <1>8, <2>2, <2>3 DEF SumSound
  <2>. QED  BY <1>6, <2>1, <2>4, <2>5 DEF DataInv
<1>. QED  BY <1>9, <1>10

(* Nothing is decoded while a chunk is opened and its blocks are read.      *)
LEMMA ReadData ==
  ASSUME DataInv, Running, Read, phase \in Reading, phase' \in Reading, Bounded(out),
         UNCHANGED <<conf, chunk, tok, out, crc, hash, total>>
  PROVE  DataInv' /\ Bounded(out)'
<1>1. OutSound(out, conf.mode, Prior(conf, chunk), Sofar(conf, chunk, tok))
  BY DEF DataInv
<1>2. SumSound(Prior(conf, chunk) \o Sofar(conf, chunk, tok))
  BY DEF DataInv
<1>3. Prior(conf, chunk)' = Prior(conf, chunk) /\ Sofar(conf, chunk, tok)' = Sofar(conf, chunk, tok)
  BY DEF Prior, Sofar
<1>4. OutSound(out, conf.mode, Prior(conf, chunk), Sofar(conf, chunk, tok))'
  BY <1>1, <1>3 DEF OutSound, Front
<1>5. SumSound(Prior(conf, chunk) \o Sofar(conf, chunk, tok))'
  BY <1>2, <1>3 DEF SumSound
<1>6. phase' # "hash"
  BY DEF Reading
<1>. QED  BY <1>4, <1>5, <1>6 DEF DataInv, Bounded

(* The end: the output, when the hash is right. *)
LEMMA LastOutput ==
  ASSUME ConfInv, DataInv, Read, CheckHash
  PROVE  OutputExact' /\ Bounded(out)'
<1>1. Running /\ phase = "hash" /\ conf' = conf /\ UNCHANGED <<hash, crc>>
      /\ out' = IF conf.mode = "stdout" /\ ~out.on THEN dump_tmpoutfile(out, conf.mode) ELSE out
  BY DEF CheckHash
<1>2. OutSound(out, conf.mode, conf.meant, << >>) /\ SumSound(conf.meant)
  BY <1>1 DEF DataInv
<1>3. conf.meant \in Seq(Datum)
  <2>1. ReadConf(conf)
    BY DEF ConfInv, Read, WriteConf, Modes
  <2>2. SoundConf(conf)
    BY <2>1, ConfFacts
  <2>3. PICK m \in Nat : m = Len(conf.chunks)
    BY <2>2, PriorIs
  <2>4. m + 1 \in 1 .. m + 1
    BY <2>3
  <2>5. Prior(conf, m + 1) \in Seq(Datum) /\ Prior(conf, m + 1) = Whole(conf.chunks)
    BY <2>2, <2>3, <2>4, PriorIs
  <2>. QED  BY <2>1, <2>5 DEF ReadConf
<1>4. PICK e \in Seq(Datum) : e = conf.meant
  BY <1>3
<1>5. << >> \in Seq(Datum) /\ e \o << >> = e /\ << >> \o e = e /\ Len(<< >>) = 0
  BY EmptySeq, ConcatEmptySeq
<1>6. << >> \o << >> = << >>
  BY <1>5, ConcatEmptySeq
<1>7. Bounded(out)
  BY <1>2, <1>5, BoundedOut
<1>8. conf.mode \in Modes
  BY DEF Read
<1>9. CASE conf.mode = "file"
  <2>1. out' = out
    BY <1>1, <1>9
  <2>2. out.file = e
    <3>1. CASE out.on
      BY <1>2, <1>4, <1>9, <3>1 DEF OutSound, Front
    <3>2. CASE ~out.on
      <4>1. PICK x : x = e /\ out.file = x \o << >>
        BY <1>2, <1>4, <1>9, <3>2 DEF OutSound, Front
      <4>. QED  BY <1>5, <4>1
    <3>. QED  BY <3>1, <3>2
  <2>. QED  BY <1>1, <1>4, <1>7, <1>9, <2>1, <2>2 DEF OutputExact, Bounded
<1>10. CASE conf.mode = "stdout"
  <2>1. out.out = e
    BY <1>2, <1>4, <1>10 DEF OutSound
  <2>2. CASE out.on
    <3>1. out' = out
      BY <1>1, <2>2
    <3>. QED  BY <1>1, <1>4, <1>7, <1>10, <2>1, <3>1 DEF OutputExact, Bounded
  <2>3. CASE ~out.on
    <3>1. out.file = << >>
      BY <1>2, <1>6, <1>10, <2>3 DEF OutSound, Front
    <3>2. out.out \o out.file = e
      BY <1>5, <2>1, <3>1
    <3>3. out \in OutRec
      BY <1>2 DEF OutSound
    <3>4. out' = [out EXCEPT !.out = e, !.file = << >>, !.pos = 0]
      BY <1>1, <1>10, <2>3, <3>2 DEF dump_tmpoutfile
    <3>5. out'.out = e /\ out'.on = out.on
      BY <3>3, <3>4 DEF OutRec
    <3>. QED  BY <1>1, <1>4, <1>10, <2>3, <3>5 DEF OutputExact, Bounded
  <2>. QED  BY <2>2, <2>3
<1>11. CASE conf.mode = "test"
  <2>1. out' = out
    BY <1>1, <1>11
  <2>2. hash \o crc = e
    BY <1>2, <1>4, <1>5 DEF SumSound
  <2>. QED  BY <1>1, <1>4, <1>7, <1>11, <2>1, <2>2 DEF OutputExact, Bounded
<1>. QED  BY <1>8, <1>9, <1>10, <1>11 DEF Modes
-----------------------------------------------------------------------------
(* Compression to standard output, step by step.                            *)

LEMMA LostPut ==
  ASSUME NEW o, WriteRec(o), o.lost, NEW p, NEW d \in Seq(Datum)
  PROVE  LET r == put_fdout(seekto(o, p), d)
         IN WriteRec(r) /\ r.lost /\ Bounded(r)
<1>1. o \in OutRec /\ o.on = FALSE /\ o.fd = "stdin"
  BY DEF WriteRec, OutRec
<1>2. PICK s : s = [o EXCEPT !.failed = TRUE]
  OBVIOUS
<1>3. s = seekto(o, p)
  BY <1>1, <1>2 DEF seekto
<1>4. s \in OutRec /\ s.on = FALSE /\ s.fd = "stdin"
  BY <1>1, <1>2 DEF OutRec
<1>5. PICK r : r = [s EXCEPT !.lost = TRUE]
  OBVIOUS
<1>6. r = put_fdout(s, d)
  BY <1>4, <1>5 DEF put_fdout, write_fdout
<1>7. r \in OutRec /\ r.on = FALSE /\ r.fd = "stdin" /\ r.lost = TRUE
  BY <1>4, <1>5 DEF OutRec
<1>. QED  BY <1>3, <1>6, <1>7 DEF WriteRec, Bounded

LEMMA KeptPut ==
  ASSUME NEW o, WriteRec(o), ~o.lost, NEW p \in Nat, p <= Len(o.buf), NEW d \in Seq(Datum),
         Len(o.buf) <= o.max
  PROVE  LET r == put_fdout(seekto(o, o.relofs + p), d)
         IN /\ WriteRec(r) /\ Bounded(r)
            /\ ~r.lost => r.buf = WriteAt(o.buf, p, d) /\ r.out = o.out /\ r.relofs = o.relofs
<1>1. o \in OutRec /\ o.on = TRUE /\ o.fd = "stdin" /\ o.lost = FALSE
  BY DEF WriteRec, OutRec
<1>2. PICK q \in Nat, b \in Seq(Datum), m \in Nat \ {0} :
        q = o.relofs /\ b = o.buf /\ m = o.max
  BY <1>1 DEF OutRec
<1>3. (q + p) - q = p
  OBVIOUS
<1>4. PICK f \in BOOLEAN : f = (o.failed \/ p \notin 0 .. Len(o.buf))
  OBVIOUS
<1>5. PICK s : s = [o EXCEPT !.ofs = p, !.failed = f]
  OBVIOUS
<1>6. s = seekto(o, o.relofs + p)
  <2>1. seekto(o, q + p) = [o EXCEPT !.ofs = (q + p) - q,
                                     !.failed = @ \/ (q + p) - q \notin 0..Len(o.buf)]
    BY <1>1, <1>2, Zenon DEF seekto
  <2>2. o.failed \in BOOLEAN
    BY <1>1 DEF OutRec
  <2>3. seekto(o, q + p) = [o EXCEPT !.ofs = p, !.failed = @ \/ p \notin 0..Len(o.buf)]
    BY <1>3, <2>1
  <2>. QED  BY <1>2, <1>4, <1>5, <2>3
<1>7. /\ s \in OutRec /\ s.on = TRUE /\ s.fd = "stdin" /\ s.lost = FALSE
      /\ s.ofs = p /\ s.buf = b /\ s.max = m /\ s.out = o.out /\ s.relofs = o.relofs
  <2>1. p \in Int
    OBVIOUS
  <2>. QED  BY <1>1, <1>2, <1>4, <1>5, <2>1 DEF OutRec
<1>8. CASE p + Len(d) > m
  <2>1. write_fdout(s, s.buf) = [s EXCEPT !.lost = TRUE]
    BY <1>7 DEF write_fdout
  <2>2. PICK u : u = [s EXCEPT !.lost = TRUE]
    OBVIOUS
  <2>3. u \in OutRec /\ u.fd = "stdin" /\ u.lost = TRUE
    BY <1>7, <2>2 DEF OutRec
  <2>4. << >> \in Seq(Datum)
    BY EmptySeq
  <2>5. PICK v : v = [u EXCEPT !.on = FALSE, !.buf = << >>]
    OBVIOUS
  <2>6. v \in OutRec /\ v.fd = "stdin" /\ v.lost = TRUE /\ v.on = FALSE
    BY <2>3, <2>4, <2>5 DEF OutRec
  <2>7. PICK r : r = [v EXCEPT !.lost = TRUE]
    OBVIOUS
  <2>8. r \in OutRec /\ r.fd = "stdin" /\ r.lost = TRUE /\ r.on = FALSE
    BY <2>6, <2>7 DEF OutRec
  <2>9. r = put_fdout(s, d)
    <3>1. put_fdout(s, d) = write_fdout(close_tmpoutbuf(write_fdout(s, s.buf)), d)
      BY <1>7, <1>8 DEF put_fdout
    <3>2. close_tmpoutbuf(u) = v
      BY <2>5 DEF close_tmpoutbuf
    <3>3. write_fdout(v, d) = r
      BY <2>6, <2>7 DEF write_fdout
    <3>. QED  BY <2>1, <2>2, <3>1, <3>2, <3>3
  <2>. QED  BY <1>6, <2>8, <2>9 DEF WriteRec, Bounded
<1>9. CASE ~(p + Len(d) > m)
  <2>1. PICK w : w = WriteAt(b, p, d)
    OBVIOUS
  <2>2. PICK l \in Nat, n \in Nat : l = Len(d) /\ n = Len(b)
    OBVIOUS
  <2>3. w \in Seq(Datum) /\ Len(w) = IF p + l > n THEN p + l ELSE n
    BY <2>1, <2>2, WriteAtIs, DatumFacts
  <2>4. PICK r : r = [s EXCEPT !.buf = w, !.ofs = p + l]
    OBVIOUS
  <2>5. r = put_fdout(s, d)
    BY <1>7, <1>9, <2>1, <2>2, <2>4 DEF put_fdout
  <2>6. /\ r \in OutRec /\ r.on = TRUE /\ r.fd = "stdin" /\ r.lost = FALSE
        /\ r.ofs = p + l /\ r.buf = w /\ r.max = m /\ r.out = o.out /\ r.relofs = o.relofs
    <3>1. p + l \in Int /\ w \in Seq(Datum)
      BY <2>3
    <3>. QED  BY <1>7, <2>4, <3>1 DEF OutRec
  <2>7. p + l \in 0 .. Len(w) /\ Len(w) <= m
    <3>1. p + l \in Nat /\ p + l <= m /\ n <= m
      BY <1>2, <1>9, <2>2
    <3>. QED  BY <2>3, <3>1
  <2>. QED  BY <1>2, <1>6, <2>1, <2>5, <2>6, <2>7 DEF WriteRec, Bounded
<1>. QED  BY <1>8, <1>9

LEMMA FlushKept ==
  ASSUME NEW o, WriteRec(o), ~o.lost
  PROVE  LET r == flush_tmpoutbuf(o, "compress")
         IN /\ WriteRec(r) /\ ~r.lost /\ Bounded(r) /\ r.on
            /\ r.out = o.out \o o.buf /\ r.buf = << >> /\ r.ofs = 0 /\ r.relofs \in Nat
<1>1. o \in OutRec /\ o.on = TRUE /\ o.fd = "stdin" /\ o.lost = FALSE
  BY DEF WriteRec, OutRec
<1>2. PICK b \in Seq(Datum), x \in Seq(Datum), q \in Nat :
        b = o.buf /\ x = o.out /\ q = o.relofs + Len(o.buf)
  <2>1. o.buf \in Seq(Datum) /\ o.out \in Seq(Datum) /\ o.relofs \in Nat
    BY <1>1 DEF OutRec
  <2>2. Len(o.buf) \in Nat
    BY <2>1, LenProperties
  <2>. QED  BY <2>1, <2>2
<1>3. PICK e : e = x \o b /\ e \in Seq(Datum)
  BY <1>2, ConcatProperties
<1>4. PICK w : w = [o EXCEPT !.out = e]
  OBVIOUS
<1>5. /\ w \in OutRec /\ w.on = TRUE /\ w.fd = "stdin" /\ w.lost = FALSE
      /\ w.relofs = o.relofs /\ w.out = e /\ w.buf = b
  BY <1>1, <1>2, <1>3, <1>4 DEF OutRec
<1>6. << >> \in Seq(Datum) /\ 0 \in Int /\ Len(<< >>) = 0
  BY EmptySeq
<1>7. PICK r : r = [w EXCEPT !.relofs = q, !.ofs = 0, !.buf = << >>]
  OBVIOUS
<1>8. r = flush_tmpoutbuf(o, "compress")
  <2>1. flush_tmpoutbuf(o, "compress")
          = [[o EXCEPT !.out = @ \o o.buf] EXCEPT !.relofs = @ + Len(o.buf), !.ofs = 0, !.buf = << >>]
    BY Zenon DEF flush_tmpoutbuf
  <2>2. [o EXCEPT !.out = @ \o o.buf] = w
    BY <1>2, <1>3, <1>4
  <2>. QED  BY <1>2, <1>5, <1>7, <2>1, <2>2
<1>9. /\ r \in OutRec /\ r.on = TRUE /\ r.fd = "stdin" /\ r.lost = FALSE
      /\ r.relofs = q /\ r.out = e /\ r.buf = << >> /\ r.ofs = 0
  BY <1>5, <1>6, <1>7 DEF OutRec
<1>10. 0 <= r.max
  BY <1>9 DEF OutRec
<1>11. WriteRec(r)
  BY <1>9 DEF WriteRec
<1>12. Bounded(r)
  BY <1>6, <1>9, <1>10 DEF Bounded
<1>. QED  BY <1>2, <1>3, <1>8, <1>9, <1>11, <1>12
LEMMA WriteState ==
  ASSUME ConfInv, PlaceInv, Running, ~Read
  PROVE  /\ WriteConf(conf) /\ SoundConf(conf) /\ KindsAre(conf, {"append", "patch"})
         /\ conf.mode = "compress"
         /\ phase \in {"magic", "chunk", "write"} =>
              /\ chunk \in 1 .. Len(conf.chunks) /\ tok \in 1 .. Len(conf.chunks[chunk]) + 1
              /\ Prior(conf, chunk) \in Seq(Datum) /\ Sofar(conf, chunk, tok) \in Seq(Datum)
              /\ Sofar(conf, chunk, 1) = << >>
              /\ Prior(conf, chunk + 1) = Prior(conf, chunk) \o Meant(chunk, conf.chunks[chunk])
              /\ Sofar(conf, chunk, Len(conf.chunks[chunk]) + 1) = Meant(chunk, conf.chunks[chunk])
         /\ Prior(conf, 1) = << >>
         /\ Magic \o Prior(conf, Len(conf.chunks) + 1) = conf.meant
<1>1. WriteConf(conf)
  BY DEF ConfInv, Read, ReadConf
<1>2. SoundConf(conf) /\ KindsAre(conf, {"append", "patch"})
  BY <1>1, ConfFacts
<1>3. PICK m \in Nat : m = Len(conf.chunks)
  BY <1>2, PriorIs
<1>4. /\ Prior(conf, 1) = << >>
      /\ \A c \in 1 .. m + 1 : Prior(conf, c) \in Seq(Datum)
      /\ \A c \in 1 .. m : Prior(conf, c + 1) = Prior(conf, c) \o Meant(c, conf.chunks[c])
      /\ Prior(conf, m + 1) = Whole(conf.chunks)
  BY <1>2, <1>3, PriorIs
<1>5. ASSUME phase \in {"magic", "chunk", "write"}
      PROVE  /\ chunk \in 1 .. m /\ tok \in 1 .. Len(conf.chunks[chunk]) + 1
             /\ Prior(conf, chunk) \in Seq(Datum) /\ Sofar(conf, chunk, tok) \in Seq(Datum)
             /\ Sofar(conf, chunk, 1) = << >>
             /\ Prior(conf, chunk + 1) = Prior(conf, chunk) \o Meant(chunk, conf.chunks[chunk])
             /\ Sofar(conf, chunk, Len(conf.chunks[chunk]) + 1) = Meant(chunk, conf.chunks[chunk])
  <2>1. DOMAIN conf.chunks = 1 .. m
    BY <1>2, <1>3, LenProperties DEF SoundConf
  <2>2. chunk \in 1 .. m /\ tok \in 1 .. Len(conf.chunks[chunk]) + 1
    BY <1>5, <2>1 DEF PlaceInv, AtToken, Tokens
  <2>3. /\ Sofar(conf, chunk, 1) = << >>
        /\ \A t \in 1 .. Len(conf.chunks[chunk]) + 1 : Sofar(conf, chunk, t) \in Seq(Datum)
        /\ Sofar(conf, chunk, Len(conf.chunks[chunk]) + 1) = Meant(chunk, conf.chunks[chunk])
    BY <1>2, <1>3, <2>2, SofarIs
  <2>4. chunk \in 1 .. m + 1
    BY <2>2
  <2>. QED  BY <1>4, <2>2, <2>3, <2>4
<1>. QED  BY <1>1, <1>2, <1>3, <1>4, <1>5 DEF WriteConf, Magic

LEMMA MagicIs == Magic \in Seq(Datum) /\ Len(Magic) = 1 /\ Magic \o << >> = Magic
<1>1. Magic \in Seq(Datum) /\ Len(Magic) = 1
  BY DatumFacts DEF Magic
<1>. QED  BY <1>1, ConcatEmptySeq

LEMMA PutMagicWrites ==
  ASSUME ConfInv, PlaceInv, WriteInv, Bounded(out), ~Read, PutMagic
  PROVE  WriteInv' /\ Bounded(out)'
<1>1. /\ Running /\ phase = "magic" /\ phase' = "chunk"
      /\ UNCHANGED <<conf, chunk, tok, inp, total, start, fate>>
      /\ out' = put_fdout(seekto(out, 0), Magic)
  BY DEF PutMagic, Magic
<1>2. WriteRec(out) /\ inp.on = FALSE
  BY DEF WriteInv
<1>3. PICK r : r = out'
  OBVIOUS
<1>4. CASE out.lost
  <2>1. WriteRec(r) /\ r.lost /\ Bounded(r)
    BY <1>1, <1>2, <1>3, <1>4, LostPut, MagicIs
  <2>. QED  BY <1>1, <1>2, <1>3, <2>1 DEF WriteInv, WriteRec, Bounded
<1>5. CASE ~out.lost
  <2>1. out.out = << >> /\ out.buf = <<0>> /\ out.relofs = 0
    BY <1>1, <1>5 DEF WriteInv, WriteSound
  <2>2. <<0>> \in Seq(Datum) /\ Len(<<0>>) = 1
    BY DatumFacts DEF HasZero
  <2>3. out \in OutRec /\ out.on
    BY <1>2, <1>5 DEF WriteRec
  <2>4. Len(out.buf) <= out.max /\ 0 <= Len(out.buf)
    BY <2>1, <2>2, <2>3 DEF Bounded
  <2>5. 0 \in Nat /\ out.relofs + 0 = 0
    BY <2>1
  <2>6. /\ WriteRec(r) /\ Bounded(r)
        /\ ~r.lost => r.buf = WriteAt(<<0>>, 0, Magic) /\ r.out = << >>
    <3>1. PICK x : x = put_fdout(seekto(out, out.relofs + 0), Magic)
      OBVIOUS
    <3>2. x = r
      BY <1>1, <1>3, <2>5, <3>1
    <3>3. 0 <= Len(out.buf) /\ Len(out.buf) <= out.max /\ Magic \in Seq(Datum)
      BY <2>4, MagicIs
    <3>4. /\ WriteRec(x) /\ Bounded(x)
          /\ ~x.lost => x.buf = WriteAt(out.buf, 0, Magic) /\ x.out = out.out
      BY <1>2, <1>5, <2>5, <3>1, <3>3, KeptPut
    <3>. QED  BY <2>1, <3>2, <3>4
  <2>7. WriteAt(<<0>>, 0, Magic) = Magic
    <3>1. PICK z : z = <<0>>
      OBVIOUS
    <3>2. z \in Seq(Datum) /\ Len(z) = 1
      BY <2>2, <3>1
    <3>3. PICK w : w = WriteAt(z, 0, Magic)
      OBVIOUS
    <3>4. /\ w \in Seq(Datum) /\ Len(w) = 1
          /\ \A j \in 1 .. 1 : w[j] = Magic[j - 0]
      <4>1. /\ WriteAt(z, 0, Magic) \in Seq(Datum)
            /\ Len(WriteAt(z, 0, Magic)) = IF 0 + Len(Magic) > Len(z) THEN 0 + Len(Magic) ELSE Len(z)
            /\ \A j \in 1 .. Len(WriteAt(z, 0, Magic)) :
                 WriteAt(z, 0, Magic)[j] = IF j > 0 /\ j <= 0 + Len(Magic) THEN Magic[j - 0]
                                           ELSE IF j <= Len(z) THEN z[j] ELSE 0
        BY <2>5, <3>2, WriteAtIs, DatumFacts, MagicIs
      <4>. QED  BY <3>2, <3>3, <4>1, MagicIs
    <3>5. \A j \in 1 .. Len(w) : w[j] = Magic[j]
      BY <3>4
    <3>6. w = Magic
      BY <3>4, <3>5, MagicIs, SeqEqual
    <3>. QED  BY <3>1, <3>3, <3>6
  <2>8. ~r.lost => WriteSound(r, conf, phase, chunk, tok)'
    <3>1. << >> \o Magic = Magic
      BY MagicIs, ConcatEmptySeq
    <3>2. Prior(conf, 1) = << >> /\ chunk = 1 /\ total = 0
      BY <1>1, <1>5, WriteState DEF WriteInv, WriteSound
    <3>3. Prior(conf', chunk') = << >>
      BY <1>1, <3>2 DEF Prior
    <3>. QED  BY <1>1, <1>3, <2>6, <2>7, <3>1, <3>2, <3>3, MagicIs DEF WriteSound
  <2>. QED  BY <1>1, <1>2, <1>3, <2>6, <2>8 DEF WriteInv, WriteRec, Bounded
<1>. QED  BY <1>4, <1>5
LEMMA StartChunkWrites ==
  ASSUME ConfInv, PlaceInv, WriteInv, Bounded(out), ~Read, StartChunk
  PROVE  WriteInv' /\ Bounded(out)'
<1>1. /\ Running /\ phase = "chunk" /\ phase' = "write"
      /\ UNCHANGED <<conf, chunk, tok, inp, total, fate>>
      /\ out' = (IF out.on THEN flush_tmpoutbuf(out, conf.mode) ELSE out)
      /\ start' = get_seek(out')
  BY DEF StartChunk
<1>2. WriteRec(out) /\ inp.on = FALSE
  BY DEF WriteInv
<1>3. conf.mode = "compress"
  BY <1>1, WriteState
<1>4. PICK r : r = out'
  OBVIOUS
<1>5. CASE out.lost
  <2>1. r = out
    BY <1>1, <1>2, <1>4, <1>5 DEF WriteRec
  <2>. QED  BY <1>1, <1>2, <1>4, <1>5, <2>1 DEF WriteInv, WriteRec, Bounded
<1>6. CASE ~out.lost
  <2>1. r = flush_tmpoutbuf(out, "compress")
    BY <1>1, <1>2, <1>3, <1>4, <1>6 DEF WriteRec
  <2>2. /\ WriteRec(r) /\ ~r.lost /\ Bounded(r) /\ r.on
        /\ r.out = out.out \o out.buf /\ r.buf = << >> /\ r.ofs = 0 /\ r.relofs \in Nat
    BY <1>2, <1>6, <2>1, FlushKept
  <2>3. out.out \o out.buf = Magic \o Prior(conf, chunk) /\ total = 0
    BY <1>1, <1>6 DEF WriteInv, WriteSound
  <2>4. start' = r.relofs
    BY <1>1, <1>4, <2>2 DEF get_seek
  <2>5. Sofar(conf, chunk, tok) = << >>
    BY <1>1, WriteState DEF PlaceInv
  <2>6. Prior(conf', chunk') = Prior(conf, chunk) /\ Sofar(conf', chunk', tok') = << >>
    BY <1>1, <2>5 DEF Prior, Sofar
  <2>7. Len(<< >>) = 0
    BY EmptySeq
  <2>8. WriteSound(r, conf, phase, chunk, tok)'
    BY <1>1, <1>4, <2>2, <2>3, <2>4, <2>6, <2>7 DEF WriteSound
  <2>. QED  BY <1>1, <1>2, <1>4, <2>2, <2>8 DEF WriteInv, WriteRec, Bounded
<1>. QED  BY <1>5, <1>6

LEMMA StreamWrites ==
  ASSUME ConfInv, PlaceInv, WriteInv, Bounded(out), ~Read, WriteStream
  PROVE  WriteInv' /\ Bounded(out)'
<1>1. Running /\ phase = "write" /\ tok <= Len(Tokens)
  BY DEF WriteStream
<1>2. /\ SoundConf(conf) /\ KindsAre(conf, {"append", "patch"})
      /\ chunk \in 1 .. Len(conf.chunks) /\ tok \in 1 .. Len(conf.chunks[chunk]) + 1
      /\ Sofar(conf, chunk, tok) \in Seq(Datum)
  BY <1>1, WriteState
<1>3. PICK c \in Nat, t \in Nat : c = chunk /\ t = tok /\ c \in 1 .. Len(conf.chunks)
                                  /\ t \in 1 .. Len(conf.chunks[c])
  BY <1>1, <1>2 DEF Tokens
<1>4. PICK s \in Seq(Datum) : s = Sofar(conf, c, t)
  BY <1>2, <1>3
<1>5. PICK k : k = Tokens[tok] /\ k = conf.chunks[c][t]
  BY <1>3 DEF Tokens
<1>6. /\ Fits(s, k) /\ k \in Token
      /\ Sofar(conf, c, t + 1) = Carried(s, k, Fresh(c, t, k.len))
  BY <1>2, <1>3, <1>4, <1>5, SofarIs
<1>7. k.kind \in {"append", "patch"}
  BY <1>2, <1>3, <1>5 DEF KindsAre
<1>8. PICK l \in Nat, d \in Seq(Datum) : l = k.len /\ d = Fresh(c, t, k.len) /\ Len(d) = l
  <2>1. k.len \in Nat
    BY <1>6 DEF Token
  <2>. QED  BY <2>1, FreshIs
<1>9. PICK p : p = IF k.kind = "patch" THEN k.ofs ELSE total
  OBVIOUS
<1>10. PICK r : r = out'
  OBVIOUS
<1>11. /\ UNCHANGED <<conf, chunk, phase, start, inp>> /\ tok' = t + 1
       /\ out' = put_fdout(seekto(out, start + p), d)
       /\ total' = IF k.kind = "patch" THEN total ELSE total + l
  BY <1>3, <1>5, <1>8, <1>9 DEF WriteStream
<1>12. WriteRec(out) /\ inp.on = FALSE
  BY DEF WriteInv
<1>13. CASE out.lost
  <2>1. WriteRec(r) /\ r.lost /\ Bounded(r)
    BY <1>10, <1>11, <1>12, <1>13, LostPut
  <2>. QED  BY <1>10, <1>11, <1>12, <2>1 DEF WriteInv, WriteRec, Bounded
<1>14. CASE ~out.lost
  <2>1. /\ out.out = Magic \o Prior(conf, c) /\ out.buf = s
        /\ start = out.relofs /\ total = Len(s)
    BY <1>1, <1>3, <1>4, <1>14 DEF WriteInv, WriteSound
  <2>2. PICK n \in Nat : n = Len(s)
    OBVIOUS
  <2>3. p \in Nat /\ p <= n
    <3>1. k.ofs \in Nat
      BY <1>6 DEF Token
    <3>2. k.kind = "patch" => k.ofs < n
      BY <1>6, <2>2 DEF Fits
    <3>. QED  BY <1>9, <2>1, <2>2, <3>1, <3>2
  <2>4. PICK x : x = put_fdout(seekto(out, out.relofs + p), d)
    OBVIOUS
  <2>5. x = r
    BY <1>10, <1>11, <2>1, <2>4
  <2>6. p <= Len(out.buf) /\ Len(out.buf) <= out.max
    BY <1>12, <1>14, <2>1, <2>2, <2>3 DEF Bounded, WriteRec
  <2>7. /\ WriteRec(x) /\ Bounded(x)
        /\ ~x.lost => x.buf = WriteAt(out.buf, p, d) /\ x.out = out.out /\ x.relofs = out.relofs
    BY <1>12, <1>14, <2>3, <2>4, <2>6, KeptPut
  <2>8. WriteAt(s, p, d) = Sofar(conf, c, t + 1) /\ total' = Len(Sofar(conf, c, t + 1))
    <3>1. CASE k.kind = "append"
      <4>1. p = Len(s) /\ total' = n + l
        BY <1>9, <1>11, <2>1, <2>2, <3>1
      <4>2. WriteAt(s, Len(s), d) = s \o d
        BY WriteAtEnd, DatumFacts
      <4>3. Carried(s, k, Fresh(c, t, k.len)) = s \o d
        BY <1>8, <3>1 DEF Carried
      <4>4. Len(s \o d) = Len(s) + Len(d)
        BY ConcatProperties
      <4>. QED  BY <1>6, <1>8, <2>2, <4>1, <4>2, <4>3, <4>4
    <3>2. CASE k.kind = "patch"
      <4>1. p = k.ofs /\ total' = n /\ k.len = 1
        BY <1>6, <1>9, <1>11, <2>1, <2>2, <3>2 DEF Fits
      <4>2. /\ Carried(s, k, Fresh(c, t, k.len)) = WriteAt(s, k.ofs, Fresh(c, t, 1))
            /\ Len(Carried(s, k, Fresh(c, t, k.len))) = Len(s)
        BY <1>6, <3>2, CarriedIs, ZenonT(40)
      <4>. QED  BY <1>6, <1>8, <2>2, <4>1, <4>2
    <3>. QED  BY <1>7, <3>1, <3>2
  <2>9. Prior(conf', chunk') = Prior(conf, c) /\ Sofar(conf', chunk', tok') = Sofar(conf, c, t + 1)
    BY <1>3, <1>11 DEF Prior, Sofar
  <2>10. ~r.lost => WriteSound(r, conf, phase, chunk, tok)'
    BY <1>1, <1>10, <1>11, <2>1, <2>5, <2>7, <2>8, <2>9 DEF WriteSound
  <2>. QED  BY <1>10, <1>11, <1>12, <2>5, <2>7, <2>10 DEF WriteInv, WriteRec, Bounded
<1>. QED  BY <1>13, <1>14

LEMMA EndWrites ==
  ASSUME ConfInv, PlaceInv, WriteInv, Bounded(out), ~Read, EndWrite
  PROVE  WriteInv' /\ Bounded(out)'
<1>1. /\ Running /\ phase = "write" /\ tok > Len(Tokens)
      /\ UNCHANGED <<conf, inp, out, start>> /\ chunk' = chunk + 1 /\ total' = 0
      /\ phase' = IF chunk = Len(conf.chunks) THEN "flush" ELSE "chunk"
  BY DEF EndWrite
<1>2. WriteRec(out) /\ inp.on = FALSE
  BY DEF WriteInv
<1>3. ASSUME ~out.lost PROVE WriteSound(out, conf, phase, chunk, tok)'
  <2>1. /\ SoundConf(conf) /\ chunk \in 1 .. Len(conf.chunks)
        /\ tok \in 1 .. Len(conf.chunks[chunk]) + 1
        /\ Prior(conf, chunk) \in Seq(Datum) /\ Sofar(conf, chunk, tok) \in Seq(Datum)
        /\ Prior(conf, chunk + 1) = Prior(conf, chunk) \o Meant(chunk, conf.chunks[chunk])
        /\ Sofar(conf, chunk, Len(conf.chunks[chunk]) + 1) = Meant(chunk, conf.chunks[chunk])
        /\ Magic \o Prior(conf, Len(conf.chunks) + 1) = conf.meant
    BY <1>1, WriteState
  <2>2. PICK n \in Nat : n = Len(conf.chunks[chunk])
    BY <2>1, SofarIs
  <2>3. tok = n + 1
    <3>1. tok \in 1 .. n + 1 /\ tok > n
      BY <1>1, <2>1, <2>2 DEF Tokens
    <3>. QED  BY <3>1
  <2>4. PICK a \in Seq(Datum), b \in Seq(Datum) :
          a = Prior(conf, chunk) /\ b = Sofar(conf, chunk, tok) /\ a \o b = Prior(conf, chunk + 1)
    BY <2>1, <2>2, <2>3
  <2>5. out.out = Magic \o a /\ out.buf = b
    BY <1>1, <1>3, <2>4 DEF WriteInv, WriteSound
  <2>6. out.out \o out.buf = Magic \o Prior(conf, chunk + 1)
    <3>1. Magic \o (a \o b) = (Magic \o a) \o b
      BY Assoc, MagicIs
    <3>. QED  BY <2>4, <2>5, <3>1
  <2>7. Prior(conf', chunk') = Prior(conf, chunk + 1) /\ conf' = conf /\ out' = out
    BY <1>1 DEF Prior
  <2>8. CASE chunk = Len(conf.chunks)
    <3>1. phase' = "flush"
      BY <1>1, <2>8
    <3>. QED  BY <2>1, <2>6, <2>7, <2>8, <3>1 DEF WriteSound
  <2>9. CASE chunk # Len(conf.chunks)
    <3>1. phase' = "chunk"
      BY <1>1, <2>9
    <3>. QED  BY <1>1, <2>6, <2>7, <3>1 DEF WriteSound
  <2>. QED  BY <2>8, <2>9
<1>. QED  BY <1>1, <1>2, <1>3 DEF WriteInv, WriteRec, Bounded

LEMMA FinalFlushWrites ==
  ASSUME ConfInv, PlaceInv, WriteInv, Bounded(out), ~Read, FinalFlush
  PROVE  WriteInv' /\ Bounded(out)' /\ CompressedExact'
<1>1. /\ Running /\ phase = "flush" /\ fate' = "ok" /\ UNCHANGED <<conf, inp>>
      /\ out' = (IF out.on THEN flush_tmpoutbuf(out, conf.mode) ELSE out)
  BY DEF FinalFlush
<1>2. WriteRec(out) /\ inp.on = FALSE
  BY DEF WriteInv
<1>3. conf.mode = "compress"
  BY <1>1, WriteState
<1>4. PICK r : r = out'
  OBVIOUS
<1>5. CASE out.lost
  <2>1. r = out
    BY <1>1, <1>2, <1>4, <1>5 DEF WriteRec
  <2>. QED  BY <1>1, <1>2, <1>4, <1>5, <2>1 DEF WriteInv, WriteRec, Bounded, CompressedExact, Running
<1>6. CASE ~out.lost
  <2>1. r = flush_tmpoutbuf(out, "compress")
    BY <1>1, <1>2, <1>3, <1>4, <1>6 DEF WriteRec
  <2>2. WriteRec(r) /\ Bounded(r) /\ r.out = out.out \o out.buf
    BY <1>2, <1>6, <2>1, FlushKept
  <2>3. out.out \o out.buf = conf.meant
    BY <1>1, <1>6 DEF WriteInv, WriteSound
  <2>. QED  BY <1>1, <1>2, <1>4, <2>2, <2>3 DEF WriteInv, WriteRec, Bounded, CompressedExact, Running
<1>. QED  BY <1>5, <1>6
-----------------------------------------------------------------------------
(* What the input buffer does, whatever the archive: reading and seeking.   *)

(* The bytes of an archive are known by their place. *)
Numbered(s) == s \in Seq(Nat) /\ \A j \in 1 .. Len(s) : s[j] = j

Fits1g(n) == n \in InRec /\ Numbered(n.all)

LEMMA NatHasZero == HasZero(Nat)
  BY DEF HasZero

(* What a read leaves alone. *)
Same(r, n) == r.all = n.all /\ r.max = n.max

(* l bytes more of standard input are in the buffer. *)
PutIn(w, m, o, s, l) ==
  /\ Len(w) = IF o + l > Len(m) THEN o + l ELSE Len(m)
  /\ \A j \in 1 .. Len(w) :
       w[j] = IF j > o /\ j <= o + l THEN s + (j - o) ELSE IF j <= Len(m) THEN m[j] ELSE 0

Added(r, n, l) == PutIn(r.mem, n.mem, n.ofs, n.src, l)

FromStdin(r, n, l) ==
  /\ Fits1g(r) /\ Same(r, n) /\ r.on = n.on
  /\ r.len = n.ofs + l /\ r.src = n.src + l
  /\ r.eof <=> n.src + l > Len(n.all)
  /\ ~r.eof => Added(r, n, l)

LEMMA FdinIs ==
  ASSUME NEW n, Fits1g(n), ~n.eof, NEW l \in Nat, NEW r, r = read_fdin(n, l)
  PROVE  FromStdin(r, n, l) /\ r.ofs = n.ofs
<1>1. n \in InRec /\ Numbered(n.all)
  BY DEF Fits1g
<1>2. PICK all \in Seq(Nat), m \in Seq(Nat), o \in Nat, s \in Nat :
        all = n.all /\ m = n.mem /\ o = n.ofs /\ s = n.src /\ \A j \in 1 .. Len(all) : all[j] = j
  BY <1>1 DEF InRec, Numbered
<1>3. PICK a \in Nat, b \in Nat : a = Len(all) /\ b = Len(m)
  OBVIOUS
<1>4. PICK d : d = Slice(all, s + 1, s + l)
  OBVIOUS
<1>5. s + 1 \in Nat \ {0} /\ s + l \in Nat /\ o + l \in Nat
  OBVIOUS
<1>6. PICK p \in Nat \ {0}, q \in Nat : p = s + 1 /\ q = s + l
  BY <1>5
<1>7. /\ d \in Seq(Nat)
      /\ q <= a => Len(d) = IF p <= q THEN q - p + 1 ELSE 0
      /\ \A j \in 1 .. Len(d) : d[j] = all[p + j - 1]
  <2>1. d = Slice(all, p, q)
    BY <1>4, <1>6
  <2>2. /\ Slice(all, p, q) \in Seq(Nat)
        /\ q <= Len(all) => Len(Slice(all, p, q)) = IF p <= q THEN q - p + 1 ELSE 0
        /\ \A j \in 1 .. Len(Slice(all, p, q)) : Slice(all, p, q)[j] = all[p + j - 1]
    BY SliceIs
  <2>. QED  BY <1>3, <2>1, <2>2
<1>8. s + l <= a => Len(d) = l /\ \A j \in 1 .. l : d[j] = s + j
  <2>. SUFFICES ASSUME s + l <= a PROVE Len(d) = l /\ \A j \in 1 .. l : d[j] = s + j
    OBVIOUS
  <2>1. Len(d) = l
    BY <1>6, <1>7
  <2>2. ASSUME NEW j \in 1 .. l PROVE d[j] = s + j
    <3>1. p + j - 1 = s + j /\ s + j \in 1 .. a
      BY <1>6
    <3>2. d[j] = all[s + j]
      BY <1>7, <2>1, <3>1
    <3>. QED  BY <1>2, <1>3, <3>1, <3>2
  <2>. QED  BY <2>1, <2>2
<1>9. PICK w : w = WriteAt(m, o, d)
  OBVIOUS
<1>10. /\ WriteAt(m, o, d) \in Seq(Nat)
       /\ Len(WriteAt(m, o, d)) = IF o + Len(d) > Len(m) THEN o + Len(d) ELSE Len(m)
       /\ \A j \in 1 .. Len(WriteAt(m, o, d)) :
            WriteAt(m, o, d)[j] = IF j > o /\ j <= o + Len(d) THEN d[j - o]
                                  ELSE IF j <= Len(m) THEN m[j] ELSE 0
  BY <1>7, WriteAtIs, NatHasZero
<1>11. w \in Seq(Nat)
  BY <1>9, <1>10
<1>12. PICK e \in BOOLEAN : e = (s + l > a)
  <2>1. (s + l > a) \in BOOLEAN
    OBVIOUS
  <2>. QED  BY <2>1, Zenon
<1>13. r = [n EXCEPT !.mem = w, !.len = o + l, !.src = s + l, !.eof = e]
  <2>1. r = [n EXCEPT !.mem = WriteAt(@, n.ofs, Slice(n.all, n.src + 1, n.src + l)),
                      !.len = n.ofs + l, !.src = @ + l, !.eof = @ \/ n.src + l > Len(n.all)]
    BY Zenon DEF read_fdin
  <2>2. n.eof = FALSE
    BY <1>1 DEF InRec
  <2>. QED  BY <1>1, <1>2, <1>3, <1>4, <1>9, <1>12, <2>1, <2>2 DEF InRec
<1>14. /\ r \in InRec /\ r.all = all /\ r.max = n.max /\ r.on = n.on /\ r.ofs = o
       /\ r.len = o + l /\ r.src = s + l /\ r.mem = w /\ r.eof = e
  BY <1>1, <1>2, <1>5, <1>11, <1>13 DEF InRec
<1>15. ASSUME ~r.eof
       PROVE  /\ Len(w) = IF o + l > b THEN o + l ELSE b
              /\ \A j \in 1 .. Len(w) :
                   w[j] = IF j > o /\ j <= o + l THEN s + (j - o)
                          ELSE IF j <= b THEN m[j] ELSE 0
  <2>1. Len(d) = l /\ \A j \in 1 .. l : d[j] = s + j
    <3>1. e = FALSE
      BY <1>14, <1>15, Zenon
    <3>2. ~(s + l > a)
      BY <1>12, <3>1, Zenon
    <3>3. s + l <= a
      BY <3>2
    <3>. QED  BY <1>8, <3>3
  <2>2. Len(w) = IF o + l > b THEN o + l ELSE b
    BY <1>3, <1>9, <1>10, <2>1
  <2>3. ASSUME NEW j \in 1 .. Len(w)
        PROVE  w[j] = IF j > o /\ j <= o + l THEN s + (j - o)
                      ELSE IF j <= b THEN m[j] ELSE 0
    <3>1. w[j] = IF j > o /\ j <= o + l THEN d[j - o] ELSE IF j <= b THEN m[j] ELSE 0
      BY <1>3, <1>9, <1>10, <2>1
    <3>2. j > o /\ j <= o + l => j - o \in 1 .. l
      OBVIOUS
    <3>. QED  BY <2>1, <3>1, <3>2
  <2>. QED  BY <2>2, <2>3
<1>16. r.eof <=> s + l > a
  BY <1>12, <1>14, Zenon
<1>17. ~r.eof => Added(r, n, l)
  BY <1>2, <1>3, <1>14, <1>15 DEF Added, PutIn
<1>. QED  BY <1>1, <1>2, <1>3, <1>14, <1>16, <1>17 DEF Fits1g, Same, FromStdin

LEMMA SetOfs ==
  ASSUME NEW n \in InRec, NEW x \in Nat, NEW r, r = [n EXCEPT !.ofs = x]
  PROVE  /\ r \in InRec /\ r.ofs = x /\ r.all = n.all /\ r.max = n.max /\ r.on = n.on
         /\ r.eof = n.eof /\ r.mem = n.mem /\ r.len = n.len /\ r.src = n.src
         /\ r.file = n.file
  BY DEF InRec

LEMMA DumpIs ==
  ASSUME NEW n, Fits1g(n), n.src <= Len(n.all), n.len <= Len(n.mem), NEW r, r = dump_stdin(n)
  PROVE  /\ Fits1g(r) /\ Same(r, n) /\ ~r.on /\ r.pos = 0 /\ r.eof = n.eof
         /\ Len(r.file) = n.len + (Len(n.all) - n.src)
         /\ \A j \in 1 .. Len(r.file) :
              r.file[j] = IF j <= n.len THEN n.mem[j] ELSE n.src + (j - n.len)
<1>1. n \in InRec /\ Numbered(n.all)
  BY DEF Fits1g
<1>2. PICK all \in Seq(Nat), m \in Seq(Nat), k \in Nat, s \in Nat :
        all = n.all /\ m = n.mem /\ k = n.len /\ s = n.src /\ \A j \in 1 .. Len(all) : all[j] = j
  BY <1>1 DEF InRec, Numbered
<1>3. PICK a \in Nat : a = Len(all) /\ s <= a
  BY <1>2
<1>4. PICK x : x = Slice(m, 1, k)
  OBVIOUS
<1>5. x \in Seq(Nat) /\ Len(x) = k /\ \A j \in 1 .. k : x[j] = m[j]
  <2>1. 1 \in Nat \ {0}
    OBVIOUS
  <2>2. /\ Slice(m, 1, k) \in Seq(Nat)
        /\ k <= Len(m) => Len(Slice(m, 1, k)) = IF 1 <= k THEN k - 1 + 1 ELSE 0
        /\ \A j \in 1 .. Len(Slice(m, 1, k)) : Slice(m, 1, k)[j] = m[1 + j - 1]
    BY <2>1, SliceIs
  <2>3. Len(x) = k
    BY <1>2, <1>4, <2>2
  <2>4. \A j \in 1 .. k : 1 + j - 1 = j
    OBVIOUS
  <2>. QED  BY <1>4, <2>2, <2>3, <2>4
<1>6. PICK y : y = Slice(all, s + 1, a)
  OBVIOUS
<1>7. y \in Seq(Nat) /\ Len(y) = a - s /\ \A j \in 1 .. a - s : y[j] = s + j
  <2>1. s + 1 \in Nat \ {0}
    OBVIOUS
  <2>2. /\ Slice(all, s + 1, a) \in Seq(Nat)
        /\ a <= Len(all) => Len(Slice(all, s + 1, a)) = IF s + 1 <= a THEN a - (s + 1) + 1 ELSE 0
        /\ \A j \in 1 .. Len(Slice(all, s + 1, a)) :
             Slice(all, s + 1, a)[j] = all[s + 1 + j - 1]
    BY <2>1, SliceIs
  <2>3. Len(y) = a - s
    BY <1>3, <1>6, <2>2, SMTT(30)
  <2>4. ASSUME NEW j \in 1 .. a - s PROVE y[j] = s + j
    <3>1. s + 1 + j - 1 = s + j /\ s + j \in 1 .. a
      BY <1>3
    <3>. QED  BY <1>2, <1>3, <1>6, <2>2, <2>3, <3>1
  <2>. QED  BY <1>6, <2>2, <2>3, <2>4
<1>8. PICK f : f = x \o y
  OBVIOUS
<1>9. /\ f \in Seq(Nat) /\ Len(f) = k + (a - s)
      /\ \A j \in 1 .. k + (a - s) : f[j] = IF j <= k THEN x[j] ELSE y[j - k]
  <2>1. PICK h \in Nat : h = a - s
    <3>1. a - s \in Nat
      BY <1>3
    <3>. QED  BY <3>1, Zenon
  <2>2. x \in Seq(Nat) /\ y \in Seq(Nat) /\ Len(x) = k /\ Len(y) = h
    BY <1>5, <1>7, <2>1
  <2>3. /\ f \in Seq(Nat) /\ Len(f) = k + h
        /\ \A j \in 1 .. k + h : f[j] = IF j <= k THEN x[j] ELSE y[j - k]
    <3>1. /\ x \o y \in Seq(Nat) /\ Len(x \o y) = Len(x) + Len(y)
          /\ \A j \in 1 .. Len(x) + Len(y) : (x \o y)[j] = IF j <= Len(x) THEN x[j] ELSE y[j - Len(x)]
      BY <2>2, ConcatProperties
    <3>. QED  BY <1>8, <2>2, <3>1
  <2>. QED  BY <2>1, <2>3
<1>10. r = [n EXCEPT !.on = FALSE, !.pos = 0, !.src = a, !.file = f]
  BY <1>2, <1>3, <1>4, <1>6, <1>8 DEF dump_stdin
<1>11. /\ r \in InRec /\ r.all = all /\ r.max = n.max /\ r.on = FALSE /\ r.pos = 0
       /\ r.eof = n.eof /\ r.file = f
  <2>1. f \in Seq(Nat) /\ a \in Nat /\ 0 \in Nat /\ FALSE \in BOOLEAN
    BY <1>9
  <2>2. n \in InRec /\ n.all = all
    BY <1>1, <1>2
  <2>. QED  BY <1>10, <2>1, <2>2 DEF InRec
<1>12. ASSUME NEW j \in 1 .. k + (a - s)
       PROVE  f[j] = IF j <= k THEN m[j] ELSE s + (j - k)
  <2>1. j <= k => j \in 1 .. k
    OBVIOUS
  <2>2. ~(j <= k) => j - k \in 1 .. a - s
    BY <1>3
  <2>. QED  BY <1>5, <1>7, <1>9, <2>1, <2>2
<1>. QED  BY <1>1, <1>2, <1>3, <1>9, <1>11, <1>12 DEF Fits1g, Same
(* k bytes of s behind p that count up from v. *)
Right(s, p, k, v) == p + k <= Len(s) /\ \A j \in 1 .. k : s[p + j] = v + j

(* A read of k bytes that finds them. *)
Gets(n, k, v) == ~read_1g(n, k).eof /\ BytesRead(n, k) = [j \in 1 .. k |-> v + j]

LEMMA SliceRight ==
  ASSUME NEW s \in Seq(Nat), NEW p \in Nat, NEW k \in Nat \ {0}, NEW v \in Nat
  PROVE  Slice(s, p + 1, p + k) = [j \in 1 .. k |-> v + j] <=> Right(s, p, k, v)
<1>1. PICK a \in Nat \ {0}, b \in Nat, l \in Nat : a = p + 1 /\ b = p + k /\ l = Len(s)
  <2>1. p + 1 \in Nat \ {0} /\ p + k \in Nat /\ Len(s) \in Nat
    OBVIOUS
  <2>. QED  BY <2>1, Zenon
<1>2. PICK d, w : d = Slice(s, a, b) /\ w = [j \in 1 .. k |-> v + j]
  OBVIOUS
<1>3. /\ d \in Seq(Nat)
      /\ b <= l => Len(d) = IF a <= b THEN b - a + 1 ELSE 0
      /\ b >= l => Len(d) = IF a <= l THEN l - a + 1 ELSE 0
      /\ \A j \in 1 .. Len(d) : d[j] = s[a + j - 1]
  <2>1. /\ Slice(s, a, b) \in Seq(Nat)
        /\ b <= Len(s) => Len(Slice(s, a, b)) = IF a <= b THEN b - a + 1 ELSE 0
        /\ b >= Len(s) => Len(Slice(s, a, b)) = IF a <= Len(s) THEN Len(s) - a + 1 ELSE 0
        /\ \A j \in 1 .. Len(Slice(s, a, b)) : Slice(s, a, b)[j] = s[a + j - 1]
    BY SliceIs
  <2>. QED  BY <1>1, <1>2, <2>1
<1>4. w \in Seq(Nat) /\ Len(w) = k /\ \A j \in 1 .. k : w[j] = v + j
  <2>1. w \in [1 .. k -> Nat]
    BY <1>2
  <2>. QED  BY <1>2, <2>1
<1>5. \A j \in 1 .. k : a + j - 1 = p + j
  BY <1>1
<1>6. ASSUME d = w PROVE b <= l /\ \A j \in 1 .. k : s[p + j] = v + j
  <2>1. Len(d) = k
    BY <1>4, <1>6
  <2>2. b <= l
    BY <1>1, <1>3, <2>1
  <2>. QED  BY <1>3, <1>4, <1>5, <1>6, <2>1, <2>2
<1>7. ASSUME b <= l, \A j \in 1 .. k : s[p + j] = v + j PROVE d = w
  <2>1. Len(d) = k
    BY <1>1, <1>3, <1>7
  <2>2. \A j \in 1 .. Len(d) : d[j] = w[j]
    BY <1>3, <1>4, <1>5, <1>7, <2>1
  <2>. QED  BY <1>3, <1>4, <2>1, <2>2, SeqEqual
<1>. QED  BY <1>1, <1>2, <1>6, <1>7 DEF Right

LEMMA ReadHeld ==
  ASSUME NEW n, Fits1g(n), n.on, ~n.eof, NEW k \in Nat \ {0}, NEW v \in Nat,
         ~(n.ofs + k > n.max), ~(n.ofs + k > n.len), NEW r, r = read_1g(n, k)
  PROVE  /\ Fits1g(r) /\ Same(r, n) /\ r.on /\ ~r.eof /\ r.ofs = n.ofs + k
         /\ r.mem = n.mem /\ r.len = n.len /\ r.src = n.src
         /\ Gets(n, k, v) <=> Right(n.mem, n.ofs, k, v)
<1>1. n \in InRec /\ Numbered(n.all)
  BY DEF Fits1g
<1>2. PICK o \in Nat, m \in Seq(Nat) : o = n.ofs /\ m = n.mem
  BY <1>1 DEF InRec
<1>3. Fetched(n, k) = n
  BY DEF Fetched
<1>4. r = [n EXCEPT !.ofs = o + k]
  BY <1>2, <1>3 DEF read_1g
<1>5. /\ r \in InRec /\ r.all = n.all /\ r.max = n.max /\ r.on /\ ~r.eof /\ r.ofs = o + k
      /\ r.mem = n.mem /\ r.len = n.len /\ r.src = n.src
  <2>1. o + k \in Nat
    OBVIOUS
  <2>. QED  BY <1>1, <1>4, <2>1, SetOfs
<1>6. BytesRead(n, k) = Slice(m, o + 1, o + k)
  BY <1>2, <1>3 DEF BytesRead
<1>7. Slice(m, o + 1, o + k) = [j \in 1 .. k |-> v + j] <=> Right(m, o, k, v)
  BY SliceRight
<1>. QED  BY <1>1, <1>2, <1>5, <1>6, <1>7 DEF Fits1g, Same, Gets

(* l bytes are not there yet. *)
Short(n, k, l) == ~(n.ofs + k > n.max) /\ n.ofs + k > n.len /\ n.ofs + k - n.len = l

LEMMA ReadMore ==
  ASSUME NEW n, Fits1g(n), n.on, ~n.eof, NEW k \in Nat \ {0}, NEW v \in Nat, NEW l \in Nat,
         Short(n, k, l), NEW r, r = read_1g(n, k)
  PROVE  /\ FromStdin(r, n, l) /\ r.ofs = n.ofs + k
         /\ Gets(n, k, v) <=> ~r.eof /\ Right(r.mem, n.ofs, k, v)
<1>1. n \in InRec
  BY DEF Fits1g
<1>2. PICK o \in Nat : o = n.ofs
  BY <1>1 DEF InRec
<1>3. PICK f : f = read_fdin(n, l)
  OBVIOUS
<1>4. FromStdin(f, n, l) /\ f.ofs = n.ofs
  BY <1>3, FdinIs
<1>5. Fetched(n, k) = f
  BY <1>3 DEF Fetched, Short
<1>6. f \in InRec /\ f.on
  BY <1>4 DEF FromStdin, Fits1g
<1>7. PICK m \in Seq(Nat) : m = f.mem
  BY <1>6 DEF InRec
<1>8. r = [f EXCEPT !.ofs = o + k]
  BY <1>2, <1>4, <1>5, <1>6 DEF read_1g
<1>9. /\ r \in InRec /\ r.ofs = o + k /\ r.all = f.all /\ r.max = f.max /\ r.on = f.on
      /\ r.eof = f.eof /\ r.mem = f.mem /\ r.len = f.len /\ r.src = f.src
  <2>1. o + k \in Nat
    OBVIOUS
  <2>2. PICK q \in Nat : q = o + k
    BY <2>1
  <2>3. f \in InRec /\ r = [f EXCEPT !.ofs = q]
    BY <1>6, <1>8, <2>2
  <2>4. /\ r \in InRec /\ r.ofs = q /\ r.all = f.all /\ r.max = f.max /\ r.on = f.on
        /\ r.eof = f.eof /\ r.mem = f.mem /\ r.len = f.len /\ r.src = f.src
    BY <2>3, SetOfs
  <2>. QED  BY <2>2, <2>4
<1>10. BytesRead(n, k) = Slice(m, o + 1, o + k)
  BY <1>2, <1>4, <1>5, <1>6, <1>7 DEF BytesRead
<1>11. Slice(m, o + 1, o + k) = [j \in 1 .. k |-> v + j] <=> Right(m, o, k, v)
  BY SliceRight
<1>12. Gets(n, k, v) <=> ~r.eof /\ Right(r.mem, n.ofs, k, v)
  BY <1>2, <1>7, <1>9, <1>10, <1>11 DEF Gets
<1>13. FromStdin(r, n, l)
  BY <1>4, <1>9 DEF FromStdin, Fits1g, Same, Added
<1>. QED  BY <1>2, <1>9, <1>12, <1>13

LEMMA ReadOff ==
  ASSUME NEW n, Fits1g(n), ~n.on, ~n.eof, NEW k \in Nat \ {0}, NEW v \in Nat,
         NEW r, r = read_1g(n, k)
  PROVE  /\ Fits1g(r) /\ Same(r, n) /\ ~r.on /\ r.pos = n.pos + k /\ r.file = n.file
         /\ r.eof <=> n.pos + k > Len(n.file)
         /\ Gets(n, k, v) <=> Right(n.file, n.pos, k, v)
<1>1. n \in InRec /\ Numbered(n.all) /\ n.eof = FALSE /\ n.on = FALSE
  BY DEF Fits1g, InRec
<1>2. PICK p \in Nat, f \in Seq(Nat) : p = n.pos /\ f = n.file
  BY <1>1 DEF InRec
<1>3. Fetched(n, k) = n
  BY DEF Fetched
<1>4. PICK e \in BOOLEAN : e = (p + k > Len(f))
  <2>1. (p + k > Len(f)) \in BOOLEAN
    OBVIOUS
  <2>. QED  BY <2>1, Zenon
<1>5. r = [n EXCEPT !.pos = p + k, !.eof = e]
  BY <1>1, <1>2, <1>3, <1>4 DEF read_1g
<1>6. p + k \in Nat
  OBVIOUS
<1>7. /\ r \in InRec /\ r.all = n.all /\ r.max = n.max /\ r.on = FALSE /\ r.pos = p + k
      /\ r.file = f /\ r.eof = e
  BY <1>1, <1>2, <1>5, <1>6 DEF InRec
<1>8. BytesRead(n, k) = Slice(f, p + 1, p + k)
  BY <1>2, <1>3 DEF BytesRead
<1>9. Slice(f, p + 1, p + k) = [j \in 1 .. k |-> v + j] <=> Right(f, p, k, v)
  BY SliceRight
<1>10. r.eof <=> p + k > Len(f)
  BY <1>4, <1>7
<1>11. Right(f, p, k, v) => ~(p + k > Len(f))
  <2>1. Len(f) \in Nat
    OBVIOUS
  <2>. QED  BY <1>6, <2>1 DEF Right
<1>12. Gets(n, k, v) <=> Right(f, p, k, v)
  BY <1>8, <1>9, <1>10, <1>11 DEF Gets
<1>13. Fits1g(r) /\ Same(r, n)
  BY <1>1, <1>7 DEF Fits1g, Same
<1>. QED  BY <1>2, <1>7, <1>10, <1>12, <1>13

OffRead(n, k, v, r) ==
  /\ Fits1g(r) /\ Same(r, n) /\ ~r.on /\ r.pos = n.pos + k /\ r.file = n.file
  /\ r.eof <=> n.pos + k > Len(n.file)
  /\ Gets(n, k, v) <=> Right(n.file, n.pos, k, v)

LEMMA ReadOffIs ==
  ASSUME NEW n, Fits1g(n), ~n.on, ~n.eof, NEW k \in Nat \ {0}, NEW v \in Nat,
         NEW r, r = read_1g(n, k)
  PROVE  OffRead(n, k, v, r)
  BY ReadOff DEF OffRead

(* Something of this chunk is in the buffer, and can go to a file.          *)
Dumpable(n, base) ==
  n.src <= Len(n.all) /\ n.len <= Len(n.mem) /\ n.len >= 1 /\ n.mem[1] = base + 1

Beyond(n, k) == n.ofs + k > n.max

LEMMA ReadDump ==
  ASSUME NEW n, Fits1g(n), n.on, ~n.eof, NEW base \in Nat, Dumpable(n, base),
         NEW k \in Nat \ {0}, NEW v \in Nat, Beyond(n, k), v # base
  PROVE  ~Gets(n, k, v) /\ Same(read_1g(n, k), n)
<1>1. n.src <= Len(n.all) /\ n.len <= Len(n.mem)
  BY DEF Dumpable
<1>2. PICK d : d = dump_stdin(n)
  OBVIOUS
<1>3. /\ Fits1g(d) /\ Same(d, n) /\ ~d.on /\ d.pos = 0 /\ d.eof = n.eof
      /\ Len(d.file) = n.len + (Len(n.all) - n.src)
      /\ \A j \in 1 .. Len(d.file) :
           d.file[j] = IF j <= n.len THEN n.mem[j] ELSE n.src + (j - n.len)
  BY <1>1, <1>2, DumpIs
<1>4. Fetched(n, k) = d /\ Fetched(d, k) = d
  BY <1>2, <1>3 DEF Fetched, Beyond
<1>5. read_1g(n, k) = read_1g(d, k) /\ BytesRead(n, k) = BytesRead(d, k)
  BY <1>4 DEF read_1g, BytesRead
<1>6. Gets(n, k, v) <=> Gets(d, k, v)
  BY <1>5 DEF Gets
<1>7. Gets(d, k, v) <=> Right(d.file, d.pos, k, v)
  BY <1>3, ReadOff
<1>8. Same(read_1g(d, k), d)
  BY <1>3, ReadOff
<1>9. ~Right(d.file, 0, k, v)
  <2>. SUFFICES ASSUME Right(d.file, 0, k, v) PROVE FALSE
    OBVIOUS
  <2>1. 1 \in 1 .. k /\ 0 + 1 = 1
    OBVIOUS
  <2>2. d.file[1] = v + 1 /\ 0 + k <= Len(d.file)
    BY <2>1 DEF Right
  <2>3. 1 \in 1 .. Len(d.file)
    <3>1. d.file \in Seq(Nat)
      BY <1>3 DEF Fits1g, InRec
    <3>. QED  BY <2>2, <3>1
  <2>4. 1 <= n.len
    <3>1. n.len \in Nat /\ n.len >= 1
      BY DEF Fits1g, InRec, Dumpable
    <3>. QED  BY <3>1
  <2>5. d.file[1] = base + 1
    BY <1>3, <2>3, <2>4 DEF Dumpable
  <2>. QED  BY <2>2, <2>5
<1>. QED  BY <1>3, <1>5, <1>6, <1>7, <1>8, <1>9 DEF Same
(* What stays, whatever is read: what was spoilt is spoilt.                 *)
Kept(r, n, base) ==
  /\ Taken(r, base) /\ Begun(r, base)
  /\ \A p \in Nat : Spoilt(n, base, p) => Spoilt(r, base, p)

AllUpTo(m, s) == \A j \in 1 .. Len(m) : m[j] <= s

(* What l bytes of standard input, put at o, make of the buffer.            *)
PutFacts(w, m, o, s, l) ==
  /\ Len(m) <= Len(w) /\ o + l <= Len(w) /\ AllUpTo(w, s + l)
  /\ \A j \in 1 .. l : w[o + j] = s + j
  /\ \A j \in 1 .. Len(m) : j <= o => w[j] = m[j]
  /\ \A j \in 1 .. Len(w) : \/ j > o /\ w[j] = s + (j - o)
                            \/ j \in 1 .. Len(m) /\ w[j] = m[j]
                            \/ w[j] = 0

LEMMA PutInIs ==
  ASSUME NEW w \in Seq(Nat), NEW m \in Seq(Nat), NEW o \in Nat, NEW s \in Nat, NEW l \in Nat,
         PutIn(w, m, o, s, l), AllUpTo(m, s)
  PROVE  PutFacts(w, m, o, s, l)
<1>1. PICK a \in Nat, b \in Nat, e \in Nat : a = Len(w) /\ b = Len(m) /\ e = o + l
  <2>1. Len(w) \in Nat /\ Len(m) \in Nat /\ o + l \in Nat
    OBVIOUS
  <2>. QED  BY <2>1, Zenon
<1>2. /\ a = IF e > b THEN e ELSE b
      /\ \A j \in 1 .. a : w[j] = IF j > o /\ j <= e THEN s + (j - o)
                                  ELSE IF j <= b THEN m[j] ELSE 0
  BY <1>1 DEF PutIn
<1>3. \A j \in 1 .. b : m[j] \in Nat /\ m[j] <= s
  BY <1>1 DEF AllUpTo
<1>4. b <= a /\ e <= a
  BY <1>2
<1>5. ASSUME NEW j \in 1 .. a
      PROVE  /\ w[j] <= s + l
             /\ \/ j > o /\ w[j] = s + (j - o)
                \/ j \in 1 .. b /\ w[j] = m[j]
                \/ w[j] = 0
  <2>1. CASE j > o /\ j <= e
    BY <1>1, <1>2, <2>1
  <2>2. CASE ~(j > o /\ j <= e) /\ j <= b
    <3>1. w[j] = m[j] /\ m[j] \in Nat /\ m[j] <= s /\ j \in 1 .. b
      BY <1>2, <1>3, <2>2
    <3>. QED  BY <3>1
  <2>3. CASE ~(j > o /\ j <= e) /\ ~(j <= b)
    BY <1>2, <2>3
  <2>. QED  BY <2>1, <2>2, <2>3
<1>6. AllUpTo(w, s + l)
  BY <1>1, <1>5 DEF AllUpTo
<1>7. ASSUME NEW j \in 1 .. l PROVE w[o + j] = s + j
  <2>1. o + j \in 1 .. a /\ o + j > o /\ o + j <= e /\ s + ((o + j) - o) = s + j
    BY <1>1, <1>4
  <2>. QED  BY <1>2, <2>1
<1>8. ASSUME NEW j \in 1 .. b, j <= o PROVE w[j] = m[j]
  BY <1>2, <1>4, <1>8
<1>. QED  BY <1>1, <1>4, <1>5, <1>6, <1>7, <1>8 DEF PutFacts

(* The numbers in a buffer. *)
LEMMA TakenAre ==
  ASSUME NEW n, Fits1g(n), NEW base \in Nat, Taken(n, base)
  PROVE  \E o, b, x \in Nat, m \in Seq(Nat), all \in Seq(Nat) :
           /\ o = n.ofs /\ b = n.len /\ x = n.max /\ m = n.mem /\ all = n.all
           /\ n.src = base + b /\ o <= b /\ b <= Len(m) /\ base + b <= Len(all)
           /\ AllUpTo(m, base + b)
<1>1. n \in InRec
  BY DEF Fits1g
<1>2. /\ n.ofs \in Nat /\ n.len \in Nat /\ n.src \in Nat /\ n.max \in Nat
      /\ n.mem \in Seq(Nat) /\ n.all \in Seq(Nat)
  BY <1>1 DEF InRec
<1>3. /\ n.src = base + n.len /\ n.ofs <= n.len /\ n.len <= Len(n.mem)
      /\ base + n.len <= Len(n.all)
  BY DEF Taken
<1>4. AllUpTo(n.mem, base + n.len)
  BY DEF Taken, AllUpTo
<1>. QED  BY <1>2, <1>3, <1>4, Zenon

(* What is known of a buffer makes it one that was taken so far.            *)
LEMMA IsTaken ==
  ASSUME NEW r, NEW base \in Nat, NEW o \in Nat, NEW b \in Nat, NEW m \in Seq(Nat),
         NEW all \in Seq(Nat), NEW s \in Nat, o = r.ofs, b = r.len, m = r.mem, all = r.all,
         s = r.src, s = base + b, o <= b, b <= Len(m), s <= Len(all), AllUpTo(m, s)
  PROVE  Taken(r, base)
  BY DEF Taken, AllUpTo

AtEnd(n) == n.ofs = n.len

Fetches(r, n, l) == FromStdin(r, n, l) /\ ~r.eof

LEMMA NumberFacts ==
  /\ \A a, b \in Nat : a + b \in Nat
  /\ \A a, b \in Nat : ~(a > b) => a <= b
  OBVIOUS

(* Reading on at the end of what is there. *)
LEMMA GrowsAtEnd ==
  ASSUME NEW n, Fits1g(n), NEW base \in Nat, Taken(n, base), AtEnd(n), NEW l \in Nat,
         NEW r, Fetches(r, n, l), AtEnd(r)
  PROVE  /\ Taken(r, base) /\ r.len = n.len + l
         /\ Begun(n, base) => Kept(r, n, base)
         /\ n.len + l <= n.max => (Filled(n, base) => Filled(r, base))
         /\ Right(r.mem, n.len, l, base + n.len)
<1>1. PICK o, x \in Nat, m \in Seq(Nat), all \in Seq(Nat) :
        /\ o = n.ofs /\ o = n.len /\ x = n.max /\ m = n.mem /\ all = n.all
        /\ n.src = base + o /\ o <= Len(m) /\ base + o <= Len(all) /\ AllUpTo(m, base + o)
  BY TakenAre DEF AtEnd
<1>2. PICK s \in Nat : s = base + o /\ s = n.src
  <2>1. base + o \in Nat
    OBVIOUS
  <2>. QED  BY <1>1, <2>1, Zenon
<1>3. PICK w \in Seq(Nat), q, e \in Nat :
           /\ w = r.mem /\ e = r.len /\ q = r.src /\ q = s + l /\ e = o + l /\ q <= Len(all)
           /\ r.all = all /\ r.max = x /\ PutIn(w, m, o, s, l)
  <2>1. s + l \in Nat /\ o + l \in Nat /\ Len(all) \in Nat
    BY NumberFacts, LenProperties, Zenon
  <2>2. /\ r.all = all /\ r.max = x /\ r.len = o + l /\ r.src = s + l
        /\ ~(s + l > Len(all)) /\ Added(r, n, l) /\ r \in InRec
    BY <1>1, <1>2 DEF Fetches, FromStdin, Same, Fits1g
  <2>3. PutIn(r.mem, m, o, s, l)
    BY <1>1, <1>2, <2>2 DEF Added
  <2>4. r.mem \in Seq(Nat)
    BY <2>2 DEF InRec
  <2>5. s + l <= Len(all)
    BY <2>1, <2>2, NumberFacts, Zenon
  <2>. QED  BY <2>1, <2>2, <2>3, <2>4, <2>5, Zenon
<1>4. /\ Len(m) <= Len(w) /\ o + l <= Len(w) /\ AllUpTo(w, s + l)
      /\ \A j \in 1 .. l : w[o + j] = s + j
      /\ \A j \in 1 .. Len(m) : j <= o => w[j] = m[j]
  <2>1. AllUpTo(m, s)
    BY <1>1, <1>2
  <2>2. PutIn(w, m, o, s, l)
    BY <1>3
  <2>3. PutFacts(w, m, o, s, l)
    BY <2>1, <2>2, PutInIs, Zenon
  <2>. QED  BY <2>3, Zenon DEF PutFacts
<1>5. r.ofs = e
  BY <1>3 DEF AtEnd
<1>6. q = base + e /\ e <= Len(w) /\ AllUpTo(w, q)
  BY <1>2, <1>3, <1>4
<1>7. Taken(r, base)
  <2>1. e <= e
    OBVIOUS
  <2>. QED  BY <1>3, <1>5, <1>6, <2>1, IsTaken
<1>8. \A j \in 1 .. o : j \in 1 .. Len(m) /\ w[j] = m[j]
  <2>1. o <= Len(m) /\ Len(m) \in Nat
    BY <1>1, LenProperties, Zenon
  <2>2. ASSUME NEW j \in 1 .. o PROVE j \in 1 .. Len(m) /\ j <= o
    BY <2>1
  <2>. QED  BY <1>4, <2>2, Zenon
<1>9. Right(w, o, l, base + o)
  BY <1>2, <1>4 DEF Right
<1>10. ASSUME Begun(n, base) PROVE Kept(r, n, base)
  <2>1. o >= 1 /\ m[1] = base + 1
    BY <1>1, <1>10 DEF Begun
  <2>2. e >= 1 /\ w[1] = base + 1
    BY <1>3, <1>8, <2>1
  <2>3. Begun(r, base)
    BY <1>3, <1>5, <2>2 DEF Begun
  <2>4. ASSUME NEW p \in Nat, Spoilt(n, base, p) PROVE Spoilt(r, base, p)
    <3>1. p < o /\ m[p + 1] # base + p + 1
      BY <1>1, <2>4 DEF Spoilt
    <3>2. p + 1 \in 1 .. o /\ p < e
      BY <1>3, <3>1
    <3>3. w[p + 1] # base + p + 1
      BY <1>8, <3>1, <3>2
    <3>. QED  BY <1>3, <3>2, <3>3 DEF Spoilt
  <2>. QED  BY <1>7, <2>3, <2>4 DEF Kept
<1>11. ASSUME e <= x, Filled(n, base) PROVE Filled(r, base)
  <2>1. \A j \in 1 .. o : m[j] = base + j
    BY <1>1, <1>11 DEF Filled
  <2>2. ASSUME NEW j \in 1 .. e PROVE w[j] = base + j
    <3>1. CASE j \in 1 .. o
      BY <1>8, <2>1, <3>1
    <3>2. CASE j \notin 1 .. o
      <4>1. j - o \in 1 .. l /\ j = o + (j - o) /\ base + j = (base + o) + (j - o)
        BY <1>3, <3>2
      <4>2. PICK i \in 1 .. l : j = o + i /\ base + j = (base + o) + i
        BY <4>1
      <4>. QED  BY <1>2, <1>4, <4>2
    <3>. QED  BY <3>1, <3>2
  <2>. QED  BY <1>3, <1>11, <2>2 DEF Filled
<1>. QED  BY <1>1, <1>3, <1>7, <1>9, <1>10, <1>11
(* Two such reads, the second of them from behind what the first one took:  *)
(* what belongs at b is not there.                                          *)
SpoilFacts(w, m, base, b, pos, k) ==
  /\ pos + k <= Len(w) /\ AllUpTo(w, base + pos + k)
  /\ \A j \in 1 .. b : m[j] # base + j => w[j] # base + j
  /\ w[1] = m[1] /\ w[b + 1] # base + b + 1

LEMMA PutTwice ==
  ASSUME NEW m \in Seq(Nat), NEW u \in Seq(Nat), NEW w \in Seq(Nat), NEW base \in Nat,
         NEW b \in Nat, NEW o \in Nat, NEW s \in Nat, NEW l \in Nat, NEW pos \in Nat,
         NEW t \in Nat, NEW k \in Nat, PutIn(u, m, o, s, l), PutIn(w, u, pos, t, k),
         AllUpTo(m, s), b <= Len(m), o < b, o >= 1, b < pos, pos = b + l, s = base + b,
         t = base + pos
  PROVE  SpoilFacts(w, m, base, b, pos, k)
<1>1. PutFacts(u, m, o, s, l)
  BY PutInIs, Zenon
<1>2. s + l = t
  OBVIOUS
<1>3. AllUpTo(u, t)
  BY <1>1, <1>2 DEF PutFacts
<1>4. PutFacts(w, u, pos, t, k)
  BY <1>3, PutInIs, Zenon
<1>5. PICK lm \in Nat, lu \in Nat, lw \in Nat : lm = Len(m) /\ lu = Len(u) /\ lw = Len(w)
  <2>1. Len(m) \in Nat /\ Len(u) \in Nat /\ Len(w) \in Nat
    BY LenProperties
  <2>. QED  BY <2>1, Zenon
<1>6. /\ lm <= lu
      /\ \A j \in 1 .. lm : j <= o => u[j] = m[j]
      /\ \A j \in 1 .. lu : \/ j > o /\ u[j] = s + (j - o)
                            \/ j \in 1 .. lm /\ u[j] = m[j]
                            \/ u[j] = 0
  BY <1>1, <1>5, Zenon DEF PutFacts
<1>7. /\ lu <= lw /\ pos + k <= lw
      /\ \A j \in 1 .. lu : j <= pos => w[j] = u[j]
      /\ \A j \in 1 .. lw : \/ j > pos /\ w[j] = t + (j - pos)
                            \/ j \in 1 .. lu /\ w[j] = u[j]
                            \/ w[j] = 0
  BY <1>4, <1>5, Zenon DEF PutFacts
<1>8. \A j \in 1 .. lm : m[j] \in Nat /\ m[j] <= s
  <2>1. \A j \in 1 .. lm : m[j] <= s
    BY <1>5, Zenon DEF AllUpTo
  <2>2. \A j \in 1 .. lm : m[j] \in Nat
    BY <1>5, ElementOfSeq, Zenon
  <2>. QED  BY <2>1, <2>2, Zenon
<1>9. b <= lm /\ lm <= lu
  BY <1>5, <1>6, Zenon
<1>10. ASSUME NEW j \in 1 .. b
       PROVE  j \in 1 .. lm /\ j \in 1 .. lu /\ w[j] = u[j]
  <2>1. j \in 1 .. lm /\ j \in 1 .. lu /\ j <= pos
    BY <1>9
  <2>. QED  BY <1>7, <2>1
<1>11. ASSUME NEW j \in 1 .. b, m[j] # base + j PROVE w[j] # base + j
  <2>1. w[j] = u[j] /\ j \in 1 .. lu /\ j \in 1 .. lm
    BY <1>10
  <2>2. CASE j > o /\ u[j] = s + (j - o)
    BY <2>1, <2>2
  <2>3. CASE u[j] = m[j]
    BY <1>11, <2>1, <2>3
  <2>4. CASE u[j] = 0
    <3>1. base + j # 0
      OBVIOUS
    <3>. QED  BY <2>1, <2>4, <3>1
  <2>. QED  BY <1>6, <2>1, <2>2, <2>3, <2>4
<1>12. w[1] = m[1]
  <2>1. 1 \in 1 .. b /\ 1 <= o
    OBVIOUS
  <2>. QED  BY <1>6, <1>10, <2>1
<1>13. w[b + 1] # base + b + 1
  <2>1. b + 1 \in 1 .. lw /\ ~(b + 1 > pos)
    BY <1>7
  <2>2. PICK j \in 1 .. lw : j = b + 1 /\ ~(j > pos)
    BY <2>1
  <2>3. CASE w[j] = 0
    <3>1. base + j # 0
      OBVIOUS
    <3>. QED  BY <2>2, <2>3, <3>1
  <2>4. CASE j \in 1 .. lu /\ w[j] = u[j]
    <3>1. CASE j > o /\ u[j] = s + (j - o)
      BY <2>2, <2>4, <3>1
    <3>2. CASE j \in 1 .. lm /\ u[j] = m[j]
      <4>1. m[j] \in Nat /\ m[j] <= s
        BY <1>8, <3>2
      <4>. QED  BY <2>2, <2>4, <3>2, <4>1
    <3>3. CASE u[j] = 0
      BY <2>2, <2>4, <3>3
    <3>. QED  BY <1>6, <2>4, <3>1, <3>2, <3>3
  <2>. QED  BY <1>7, <2>2, <2>3, <2>4
<1>14. AllUpTo(w, base + pos + k)
  BY <1>4 DEF PutFacts
<1>. QED  BY <1>5, <1>7, <1>11, <1>12, <1>13, <1>14 DEF SpoilFacts

Ahead(n, pos) == n.ofs < n.len /\ n.len < pos

(* A seek to pos, and a byte read there. *)
Moved(g, f, pos) ==
  Fits1g(g) /\ Same(g, f) /\ g.mem = f.mem /\ g.len = f.len /\ g.src = f.src /\ g.ofs = pos

Jump(n, pos, l, g, k, r) == pos = n.len + l /\ pos + 1 = g.len + k /\ r.ofs = pos + 1

(* A seek ahead from before the end of what is there: what was not taken    *)
(* yet is not where it belongs, whatever is read then.                      *)
LEMMA GrowsBadly ==
  ASSUME NEW n, Fits1g(n), NEW base \in Nat, Taken(n, base), Begun(n, base), NEW pos \in Nat,
         Ahead(n, pos), NEW l \in Nat, NEW f, Fetches(f, n, l), NEW g, Moved(g, f, pos),
         NEW k \in Nat, NEW r, Fetches(r, g, k), Jump(n, pos, l, g, k, r)
  PROVE  Kept(r, n, base) /\ Spoilt(r, base, n.len)
<1>1. PICK o, b, x \in Nat, m \in Seq(Nat), all \in Seq(Nat) :
        /\ o = n.ofs /\ b = n.len /\ x = n.max /\ m = n.mem /\ all = n.all
        /\ n.src = base + b /\ o <= b /\ b <= Len(m) /\ base + b <= Len(all)
        /\ AllUpTo(m, base + b)
  BY TakenAre
<1>2. PICK s \in Nat, t \in Nat : s = base + b /\ s = n.src /\ t = base + pos
  <2>1. base + b \in Nat /\ base + pos \in Nat
    BY NumberFacts, Zenon
  <2>. QED  BY <1>1, <2>1, Zenon
<1>3. o < b /\ b < pos /\ pos = b + l
  BY <1>1 DEF Ahead, Jump
<1>4. o >= 1 /\ m[1] = base + 1
  BY <1>1 DEF Begun
<1>5. PICK u \in Seq(Nat) :
        /\ u = f.mem /\ f.len = o + l /\ f.src = s + l /\ f.all = all /\ PutIn(u, m, o, s, l)
  <2>1. /\ f.all = all /\ f.len = o + l /\ f.src = s + l /\ Added(f, n, l) /\ f \in InRec
    BY <1>1, <1>2 DEF Fetches, FromStdin, Same, Fits1g
  <2>2. PutIn(f.mem, m, o, s, l)
    BY <1>1, <1>2, <2>1 DEF Added
  <2>3. f.mem \in Seq(Nat)
    BY <2>1 DEF InRec
  <2>. QED  BY <2>1, <2>2, <2>3, Zenon
<1>6. s + l = t /\ pos + 1 = (o + l) + k => k >= 2
  BY <1>2, <1>3
<1>7. /\ g.mem = u /\ g.len = o + l /\ g.src = t /\ g.all = all /\ g.ofs = pos
  <2>1. s + l = t
    BY <1>2, <1>3
  <2>. QED  BY <1>5, <2>1 DEF Moved, Same
<1>8. pos + 1 = (o + l) + k /\ r.ofs = pos + 1
  BY <1>7 DEF Jump
<1>9. k >= 2
  BY <1>3, <1>8
<1>10. PICK w \in Seq(Nat) :
         /\ w = r.mem /\ r.len = pos + k /\ r.src = t + k /\ r.all = all
         /\ PutIn(w, u, pos, t, k) /\ ~(t + k > Len(all))
  <2>1. /\ r.all = all /\ r.len = pos + k /\ r.src = t + k /\ Added(r, g, k) /\ r \in InRec
        /\ ~(t + k > Len(all))
    BY <1>7 DEF Fetches, FromStdin, Same, Fits1g
  <2>2. PutIn(r.mem, u, pos, t, k)
    BY <1>7, <2>1 DEF Added
  <2>3. r.mem \in Seq(Nat)
    BY <2>1 DEF InRec
  <2>. QED  BY <2>1, <2>2, <2>3, Zenon
<1>11. SpoilFacts(w, m, base, b, pos, k)
  <2>1. AllUpTo(m, s) /\ b <= Len(m) /\ PutIn(u, m, o, s, l) /\ PutIn(w, u, pos, t, k)
    BY <1>1, <1>2, <1>5, <1>10
  <2>2. o < b /\ o >= 1 /\ b < pos /\ pos = b + l /\ s = base + b /\ t = base + pos
    BY <1>2, <1>3, <1>4
  <2>. QED  BY <2>1, <2>2, PutTwice, Zenon
<1>12. PICK h \in Nat, q \in Nat, e \in Nat :
         h = pos + k /\ q = t + k /\ e = pos + 1 /\ e <= h /\ q = base + h /\ q = base + pos + k
  <2>1. pos + k \in Nat /\ t + k \in Nat /\ pos + 1 \in Nat
    BY NumberFacts, Zenon
  <2>2. pos + 1 <= pos + k /\ t + k = base + (pos + k) /\ t + k = base + pos + k
    BY <1>2, <1>9
  <2>. QED  BY <2>1, <2>2, Zenon
<1>13. Taken(r, base)
  <2>1. e = r.ofs /\ h = r.len /\ w = r.mem /\ all = r.all /\ q = r.src
    BY <1>8, <1>10, <1>12
  <2>2. h <= Len(w) /\ AllUpTo(w, q)
    BY <1>11, <1>12, Zenon DEF SpoilFacts
  <2>3. q <= Len(all)
    <3>1. Len(all) \in Nat /\ ~(q > Len(all))
      BY <1>10, <1>12, LenProperties, Zenon
    <3>. QED  BY <3>1, NumberFacts, Zenon
  <2>. QED  BY <1>12, <2>1, <2>2, <2>3, IsTaken
<1>14. Begun(r, base)
  <2>1. w[1] = base + 1
    BY <1>4, <1>11 DEF SpoilFacts
  <2>2. e >= 1
    BY <1>12
  <2>. QED  BY <1>8, <1>10, <1>12, <2>1, <2>2 DEF Begun
<1>15. b < h
  BY <1>3, <1>12
<1>16. ASSUME NEW p \in Nat, Spoilt(n, base, p) PROVE Spoilt(r, base, p)
  <2>1. p < b /\ m[p + 1] # base + p + 1
    BY <1>1, <1>16 DEF Spoilt
  <2>2. p + 1 \in 1 .. b /\ p < h
    BY <1>15, <2>1
  <2>3. base + (p + 1) = base + p + 1
    OBVIOUS
  <2>4. w[p + 1] # base + p + 1
    BY <1>11, <2>1, <2>2, <2>3 DEF SpoilFacts
  <2>. QED  BY <1>10, <1>12, <2>2, <2>4 DEF Spoilt
<1>17. Spoilt(r, base, b)
  <2>1. w[b + 1] # base + b + 1
    BY <1>11 DEF SpoilFacts
  <2>. QED  BY <1>10, <1>12, <1>15, <2>1 DEF Spoilt
<1>. QED  BY <1>1, <1>13, <1>14, <1>16, <1>17 DEF Kept
Added1(r, n, base) == r.len = n.len /\ r.mem = n.mem /\ r.src = n.src /\ r.all = n.all

(* Another place in what was taken. *)
LEMMA TakenAt ==
  ASSUME NEW n, Fits1g(n), NEW base \in Nat, Taken(n, base), NEW r, Added1(r, n, base),
         NEW x \in Nat, r.ofs = x, x <= r.len, r.max = n.max
  PROVE  /\ Taken(r, base)
         /\ Filled(n, base) => Filled(r, base)
         /\ Begun(n, base) /\ x >= 1 => Kept(r, n, base) /\ Begun(r, base)
<1>1. Taken(r, base)
  BY DEF Taken, Added1
<1>2. Filled(n, base) => Filled(r, base)
  BY DEF Filled, Added1
<1>3. ASSUME Begun(n, base), x >= 1 PROVE Begun(r, base)
  BY <1>3 DEF Begun, Added1
<1>4. ASSUME NEW p \in Nat PROVE Spoilt(n, base, p) => Spoilt(r, base, p)
  BY DEF Spoilt, Added1
<1>. QED  BY <1>1, <1>2, <1>3, <1>4 DEF Kept

(* What a read of one byte at pos of the chunk, from a buffer that is there. *)
ReadFacts(r, n, base, pos) ==
  /\ r.on /\ Kept(r, n, base) /\ r.ofs = pos + 1 /\ ~Spoilt(n, base, pos)
  /\ Filled(n, base) => Filled(r, base)
  /\ r.len = IF pos < n.len THEN n.len ELSE pos + 1

At(n, pos) == n.ofs = pos

(* Position pos of the chunk is one of the archive. *)
InArchive(n, base, pos) == base + pos + 1 <= Len(n.all)

LEMMA ReadAt ==
  ASSUME NEW n, Fits1g(n), n.on, ~n.eof, NEW base \in Nat, Taken(n, base), Begun(n, base),
         NEW pos \in Nat, At(n, pos), InArchive(n, base, pos), NEW r, r = read_1g(n, 1)
  PROVE  /\ Same(r, n)
         /\ Gets(n, 1, base + pos) => Fits1g(r) /\ ~r.eof /\ ReadFacts(r, n, base, pos)
         /\ ~Gets(n, 1, base + pos) => pos + 1 > n.max \/ ~Filled(n, base)
<1>1. PICK o, b, x \in Nat, m \in Seq(Nat), all \in Seq(Nat) :
        /\ o = n.ofs /\ b = n.len /\ x = n.max /\ m = n.mem /\ all = n.all
        /\ n.src = base + b /\ o <= b /\ b <= Len(m) /\ base + b <= Len(all)
        /\ AllUpTo(m, base + b)
  BY TakenAre
<1>2. o = pos /\ pos <= b /\ pos >= 1 /\ m[1] = base + 1
  BY <1>1 DEF At, Begun
<1>3. PICK v \in Nat, e \in Nat : v = base + pos /\ e = pos + 1 /\ v # base
  <2>1. base + pos \in Nat /\ pos + 1 \in Nat /\ base + pos # base
    BY <1>2
  <2>. QED  BY <2>1, Zenon
<1>4. 1 \in Nat \ {0} /\ 1 \in Nat
  OBVIOUS
<1>8. n.ofs = pos /\ n.len = b /\ n.max = x /\ n.mem = m
  BY <1>1, <1>2, Zenon
<1>9. b <= Len(m) /\ Len(m) \in Nat
  BY <1>1, LenProperties, Zenon
<1>5. CASE e > x
  <2>1. Dumpable(n, base) /\ Beyond(n, 1)
    <3>1. b >= 1
      BY <1>2
    <3>. QED  BY <1>1, <1>2, <1>3, <1>5, <3>1 DEF Dumpable, Beyond
  <2>2. ~Gets(n, 1, v) /\ Same(r, n)
    BY <1>3, <1>4, <2>1, ReadDump
  <2>. QED  BY <1>1, <1>3, <1>5, <2>2
<1>6. CASE ~(e > x) /\ e <= b
  <2>1. ~(n.ofs + 1 > n.max) /\ ~(n.ofs + 1 > n.len)
    <3>1. ~(pos + 1 > x) /\ ~(pos + 1 > b)
      BY <1>3, <1>6
    <3>. QED  BY <1>8, <3>1, Zenon
  <2>2. /\ Fits1g(r) /\ Same(r, n) /\ r.on /\ ~r.eof /\ r.ofs = n.ofs + 1
        /\ r.mem = n.mem /\ r.len = n.len /\ r.src = n.src
        /\ Gets(n, 1, v) <=> Right(n.mem, n.ofs, 1, v)
    BY <1>3, <1>4, <2>1, ReadHeld
  <2>3. Added1(r, n, base) /\ r.ofs = e /\ e <= r.len /\ r.max = n.max /\ e >= 1
    BY <1>1, <1>2, <1>3, <1>6, <2>2 DEF Added1, Same
  <2>4. Kept(r, n, base) /\ (Filled(n, base) => Filled(r, base))
    BY <2>3, TakenAt
  <2>5. Right(m, pos, 1, v) <=> m[e] = v + 1
    <3>1. pos + 1 <= Len(m) /\ 1 \in 1 .. 1
      BY <1>3, <1>6, <1>9
    <3>2. \A j \in 1 .. 1 : j = 1
      OBVIOUS
    <3>. QED  BY <1>3, <3>1, <3>2 DEF Right
  <2>6. Gets(n, 1, v) <=> m[e] = v + 1
    BY <1>1, <1>2, <2>2, <2>5
  <2>7. Spoilt(n, base, pos) <=> m[e] # v + 1
    <3>1. pos < b
      BY <1>2, <1>3, <1>6
    <3>. QED  BY <1>1, <1>3, <3>1 DEF Spoilt
  <2>8. Filled(n, base) => m[e] = v + 1
    <3>1. e \in 1 .. b /\ base + e = v + 1
      BY <1>2, <1>3, <1>6
    <3>. QED  BY <1>1, <3>1 DEF Filled
  <2>9. ReadFacts(r, n, base, pos) <=> ~Spoilt(n, base, pos)
    <3>1. r.len = IF pos < n.len THEN n.len ELSE pos + 1
      <4>1. pos < b
        BY <1>3, <1>6
      <4>. QED  BY <1>8, <2>2, <4>1, Zenon
    <3>. QED  BY <1>3, <2>2, <2>3, <2>4, <3>1 DEF ReadFacts
  <2>. QED  BY <1>3, <2>2, <2>6, <2>7, <2>8, <2>9
<1>7. CASE ~(e > x) /\ ~(e <= b)
  <2>1. b = pos /\ e = b + 1
    BY <1>2, <1>3, <1>7
  <2>2. AtEnd(n)
    BY <1>1, <1>2, <2>1 DEF AtEnd
  <2>3. Short(n, 1, 1)
    BY <1>1, <1>2, <1>3, <1>7, <2>1 DEF Short
  <2>4. /\ FromStdin(r, n, 1) /\ r.ofs = n.ofs + 1
        /\ Gets(n, 1, v) <=> ~r.eof /\ Right(r.mem, n.ofs, 1, v)
    BY <1>3, <1>4, <2>3, ReadMore
  <2>5. ~r.eof
    <3>1. ~(n.src + 1 > Len(n.all))
      BY <1>1, <1>3, <2>1 DEF InArchive
    <3>. QED  BY <2>4, <3>1 DEF FromStdin
  <2>6. Fetches(r, n, 1) /\ AtEnd(r)
    <3>1. r.len = n.ofs + 1
      BY <2>4 DEF FromStdin
    <3>. QED  BY <2>4, <2>5, <3>1 DEF Fetches, AtEnd
  <2>7. /\ Taken(r, base) /\ r.len = n.len + 1 /\ Kept(r, n, base)
        /\ n.len + 1 <= n.max => (Filled(n, base) => Filled(r, base))
        /\ Right(r.mem, n.len, 1, base + n.len)
    BY <1>4, <2>2, <2>6, GrowsAtEnd
  <2>8. Gets(n, 1, v)
    BY <1>1, <1>2, <1>3, <2>1, <2>4, <2>5, <2>7
  <2>9. Filled(n, base) => Filled(r, base)
    <3>1. n.len + 1 <= n.max
      <4>1. b + 1 <= x
        BY <1>7, <2>1
      <4>. QED  BY <1>8, <4>1, Zenon
    <3>. QED  BY <2>7, <3>1
  <2>10. ~Spoilt(n, base, pos)
    BY <1>1, <2>1 DEF Spoilt
  <2>11. Fits1g(r) /\ Same(r, n) /\ r.on
    BY <2>4 DEF FromStdin
  <2>12. r.ofs = pos + 1 /\ r.len = IF pos < n.len THEN n.len ELSE pos + 1
    BY <1>1, <1>2, <2>1, <2>4, <2>7
  <2>13. ReadFacts(r, n, base, pos)
    BY <2>7, <2>9, <2>10, <2>11, <2>12 DEF ReadFacts
  <2>. QED  BY <1>3, <2>5, <2>8, <2>11, <2>13
<1>. QED  BY <1>5, <1>6, <1>7
LEMMA SetPos ==
  ASSUME NEW n \in InRec, NEW x \in Nat, NEW r, r = [n EXCEPT !.pos = x]
  PROVE  /\ r \in InRec /\ r.pos = x /\ r.all = n.all /\ r.max = n.max /\ r.on = n.on
         /\ r.eof = n.eof /\ r.mem = n.mem /\ r.len = n.len /\ r.src = n.src
         /\ r.file = n.file
  BY DEF InRec

(* The buffer and the rest of standard input went to a file. *)
Shunted(r, n, base, pos) ==
  /\ ~r.on /\ r.pos = pos + 1
  /\ Filled(n, base) => Suffix(r, base)
  /\ \A p \in Nat : Spoilt(n, base, p) => Missing(r, base, p)

NotBefore(n, pos) == n.len <= pos

DumpedAt(s, n, pos) == s = [dump_stdin(n) EXCEPT !.pos = pos]

LEMMA SeekDump ==
  ASSUME NEW n, Fits1g(n), n.on, ~n.eof, NEW base \in Nat, Taken(n, base), NEW pos \in Nat,
         NotBefore(n, pos), InArchive(n, base, pos), NEW s, DumpedAt(s, n, pos),
         NEW r, r = read_1g(s, 1)
  PROVE  Same(r, n) /\ Gets(s, 1, base + pos) /\ Fits1g(r) /\ ~r.eof /\ Shunted(r, n, base, pos)
<1>1. PICK o, b, x \in Nat, m \in Seq(Nat), all \in Seq(Nat) :
        /\ o = n.ofs /\ b = n.len /\ x = n.max /\ m = n.mem /\ all = n.all
        /\ n.src = base + b /\ o <= b /\ b <= Len(m) /\ base + b <= Len(all)
        /\ AllUpTo(m, base + b)
  BY TakenAre
<1>2. PICK d : d = dump_stdin(n)
  OBVIOUS
<1>3. n.src <= Len(n.all) /\ n.len <= Len(n.mem)
  BY <1>1
<1>4. /\ Fits1g(d) /\ Same(d, n) /\ ~d.on /\ d.pos = 0 /\ d.eof = n.eof
      /\ Len(d.file) = n.len + (Len(n.all) - n.src)
      /\ \A j \in 1 .. Len(d.file) :
           d.file[j] = IF j <= n.len THEN n.mem[j] ELSE n.src + (j - n.len)
  BY <1>2, <1>3, DumpIs
<1>5. /\ Fits1g(s) /\ Same(s, n) /\ ~s.on /\ ~s.eof /\ s.pos = pos /\ s.file = d.file
  <2>1. d \in InRec /\ s = [d EXCEPT !.pos = pos]
    BY <1>2, <1>4 DEF Fits1g, DumpedAt
  <2>2. /\ s \in InRec /\ s.pos = pos /\ s.all = d.all /\ s.max = d.max /\ s.on = d.on
        /\ s.eof = d.eof /\ s.file = d.file
    BY <2>1, SetPos
  <2>. QED  BY <1>4, <2>2 DEF Fits1g, Same
<1>6. PICK la \in Nat, f \in Seq(Nat), lf \in Nat :
        la = Len(all) /\ f = d.file /\ lf = Len(f) /\ lf = la - base /\ base + b <= la
  <2>1. d.file \in Seq(Nat) /\ Len(all) \in Nat
    BY <1>4, LenProperties DEF Fits1g, InRec
  <2>2. Len(d.file) \in Nat /\ base + b <= Len(all)
    BY <1>1, <2>1, LenProperties, Zenon
  <2>3. Len(d.file) = b + (Len(all) - (base + b))
    BY <1>1, <1>4
  <2>4. Len(d.file) = Len(all) - base
    BY <2>1, <2>2, <2>3
  <2>. QED  BY <2>1, <2>2, <2>4, Zenon
<1>7. ASSUME NEW j \in 1 .. lf PROVE f[j] = IF j <= b THEN m[j] ELSE base + j
  <2>1. f[j] = IF j <= b THEN m[j] ELSE (base + b) + (j - b)
    BY <1>1, <1>4, <1>6
  <2>2. (base + b) + (j - b) = base + j
    OBVIOUS
  <2>. QED  BY <2>1, <2>2, Zenon
<1>8. pos + 1 <= lf /\ pos + 1 > b /\ pos + 1 \in 1 .. lf
  <2>1. base + pos + 1 <= la
    BY <1>1, <1>6 DEF InArchive
  <2>2. b <= pos
    BY <1>1 DEF NotBefore
  <2>. QED  BY <1>6, <2>1, <2>2
<1>9. PICK v \in Nat : v = base + pos
  <2>1. base + pos \in Nat
    OBVIOUS
  <2>. QED  BY <2>1, Zenon
<1>10. f[pos + 1] = v + 1
  <2>1. f[pos + 1] = base + (pos + 1)
    BY <1>7, <1>8
  <2>. QED  BY <1>9, <2>1
<1>11. Right(f, pos, 1, v)
  <2>1. \A j \in 1 .. 1 : j = 1
    OBVIOUS
  <2>. QED  BY <1>6, <1>8, <1>10, <2>1 DEF Right
<1>12. /\ Fits1g(r) /\ Same(r, s) /\ ~r.on /\ r.pos = s.pos + 1 /\ r.file = s.file
       /\ r.eof <=> s.pos + 1 > Len(s.file)
       /\ Gets(s, 1, v) <=> Right(s.file, s.pos, 1, v)
  <2>1. 1 \in Nat \ {0}
    OBVIOUS
  <2>2. OffRead(s, 1, v, r)
    BY <1>5, <2>1, ReadOffIs, Zenon
  <2>. QED  BY <2>2, Zenon DEF OffRead
<1>13. r.file = f /\ ~r.eof /\ r.pos = pos + 1 /\ Gets(s, 1, v)
  <2>1. ~(pos + 1 > lf)
    BY <1>8
  <2>. QED  BY <1>5, <1>6, <1>11, <1>12, <2>1
<1>14. r.all = all
  BY <1>1, <1>5, <1>12 DEF Same
<1>15. ASSUME Filled(n, base) PROVE Suffix(r, base)
  <2>1. \A j \in 1 .. b : m[j] = base + j
    BY <1>1, <1>15 DEF Filled
  <2>2. ASSUME NEW j \in 1 .. lf PROVE f[j] = base + j
    <3>1. j <= b => j \in 1 .. b
      OBVIOUS
    <3>. QED  BY <1>7, <2>1, <3>1
  <2>. QED  BY <1>6, <1>13, <1>14, <2>2 DEF Suffix
<1>16. ASSUME NEW p \in Nat, Spoilt(n, base, p) PROVE Missing(r, base, p)
  <2>1. p < b /\ m[p + 1] # base + p + 1
    BY <1>1, <1>16 DEF Spoilt
  <2>2. p + 1 \in 1 .. lf => f[p + 1] = m[p + 1]
    <3>1. p + 1 <= b
      BY <2>1
    <3>. QED  BY <1>7, <3>1
  <2>. QED  BY <1>6, <1>13, <2>1, <2>2 DEF Missing
<1>. QED  BY <1>5, <1>9, <1>12, <1>13, <1>15, <1>16 DEF Same, Shunted
(* A seek ahead from before the end of what is there, and a byte read.      *)
Worse(r, n, base, pos) ==
  /\ r.on /\ Kept(r, n, base) /\ r.ofs = pos + 1 /\ Ahead(n, pos) /\ Spoilt(r, base, n.len)

Further(n, pos, l) == pos = n.len + l

LEMMA SeekAhead ==
  ASSUME NEW n, Fits1g(n), n.on, ~n.eof, NEW base \in Nat, Taken(n, base), Begun(n, base),
         NEW pos \in Nat, Ahead(n, pos), NEW l \in Nat, NEW f, Fetches(f, n, l),
         NEW g, Moved(g, f, pos), g.on, ~g.eof, Further(n, pos, l), NEW r, r = read_1g(g, 1)
  PROVE  /\ Same(r, n)
         /\ Gets(g, 1, base + pos) => Fits1g(r) /\ ~r.eof /\ Worse(r, n, base, pos)
<1>1. PICK o, b, x \in Nat, m \in Seq(Nat), all \in Seq(Nat) :
        /\ o = n.ofs /\ b = n.len /\ x = n.max /\ m = n.mem /\ all = n.all
        /\ n.src = base + b /\ o <= b /\ b <= Len(m) /\ base + b <= Len(all)
        /\ AllUpTo(m, base + b)
  BY TakenAre
<1>2. o >= 1 /\ m[1] = base + 1 /\ o < b /\ b < pos
  BY <1>1 DEF Begun, Ahead
<1>3. Fits1g(f) /\ Same(f, n) /\ f.len = o + l /\ Added(f, n, l) /\ ~f.eof
      /\ f.src = n.src + l /\ ~(n.src + l > Len(n.all))
  BY <1>1 DEF Fetches, FromStdin
<1>4. Fits1g(g) /\ Same(g, n) /\ g.len = o + l /\ g.mem = f.mem /\ g.src = f.src /\ g.ofs = pos
  BY <1>3 DEF Moved, Same
<1>5. PICK u \in Seq(Nat), s \in Nat : u = f.mem /\ s = n.src
  BY <1>3 DEF Fits1g, InRec
<1>6. PutFacts(u, m, o, s, l)
  <2>1. PutIn(u, m, o, s, l) /\ AllUpTo(m, s)
    BY <1>1, <1>3, <1>5 DEF Added
  <2>. QED  BY <2>1, PutInIs, Zenon
<1>7. u[1] = base + 1 /\ o + l <= Len(u)
  <2>1. 1 \in 1 .. Len(m) /\ 1 <= o
    <3>1. Len(m) \in Nat /\ b <= Len(m)
      BY <1>1, LenProperties, Zenon
    <3>. QED  BY <1>2, <3>1
  <2>2. u[1] = m[1] /\ o + l <= Len(u)
    BY <1>6, <2>1 DEF PutFacts
  <2>. QED  BY <1>2, <2>2
<1>8. PICK v \in Nat, e \in Nat, q \in Nat : v = base + pos /\ e = pos + 1 /\ v # base /\ q = o + l
  <2>1. base + pos \in Nat /\ pos + 1 \in Nat /\ o + l \in Nat
    BY NumberFacts, Zenon
  <2>2. base + pos # base
    BY <1>2
  <2>. QED  BY <2>1, <2>2, Zenon
<1>9. 1 \in Nat \ {0} /\ 1 \in Nat
  OBVIOUS
<1>10. CASE e > x
  <2>1. Dumpable(g, base)
    <3>1. q >= 1
      BY <1>2, <1>8
    <3>2. g.src <= Len(g.all)
      <4>1. s + l \in Nat /\ Len(all) \in Nat
        BY NumberFacts, LenProperties, Zenon
      <4>2. ~(s + l > Len(all))
        BY <1>1, <1>3, <1>5
      <4>3. s + l <= Len(all)
        BY <4>1, <4>2, NumberFacts, Zenon
      <4>4. g.src = s + l /\ g.all = all
        BY <1>1, <1>3, <1>4, <1>5 DEF Same
      <4>. QED  BY <4>3, <4>4
    <3>3. g.len = q /\ g.mem = u
      BY <1>4, <1>5, <1>8
    <3>. QED  BY <1>7, <1>8, <3>1, <3>2, <3>3 DEF Dumpable
  <2>2. Beyond(g, 1)
    <3>1. g.ofs = pos /\ g.max = x
      BY <1>1, <1>4 DEF Same
    <3>. QED  BY <1>8, <1>10, <3>1 DEF Beyond
  <2>3. ~Gets(g, 1, v) /\ Same(r, g)
    BY <1>4, <1>8, <1>9, <2>1, <2>2, ReadDump
  <2>. QED  BY <1>4, <1>8, <2>3 DEF Same
<1>11. CASE ~(e > x)
  <2>1. q < pos
    <3>1. pos = b + l
      BY <1>1 DEF Further
    <3>. QED  BY <1>2, <1>8, <3>1
  <2>2. PICK k \in Nat : k = e - q /\ e = q + k
    <3>1. e - q \in Nat /\ e = q + (e - q)
      BY <1>8, <2>1
    <3>. QED  BY <3>1
  <2>3. g.ofs = pos /\ g.max = x /\ g.len = q
    BY <1>1, <1>4, <1>8 DEF Same
  <2>4. Short(g, 1, k)
    <3>1. ~(pos + 1 > x) /\ pos + 1 > q /\ pos + 1 - q = k
      BY <1>8, <1>11, <2>1, <2>2
    <3>. QED  BY <2>3, <3>1, Zenon DEF Short
  <2>5. /\ FromStdin(r, g, k) /\ r.ofs = g.ofs + 1
        /\ Gets(g, 1, v) <=> ~r.eof /\ Right(r.mem, g.ofs, 1, v)
    BY <1>4, <1>8, <1>9, <2>4, ReadMore
  <2>6. Fits1g(r) /\ Same(r, g)
    BY <2>5 DEF FromStdin
  <2>7. ASSUME ~r.eof PROVE Worse(r, n, base, pos)
    <3>1. Fetches(r, g, k)
      BY <2>5, <2>7 DEF Fetches
    <3>2. pos + 1 = g.len + k /\ r.ofs = pos + 1
      BY <1>8, <2>2, <2>3, <2>5
    <3>3. Jump(n, pos, l, g, k, r)
      BY <3>2 DEF Jump, Further
    <3>4. Kept(r, n, base) /\ Spoilt(r, base, n.len)
      BY <3>1, <3>3, GrowsBadly
    <3>5. r.on
      BY <2>5 DEF FromStdin
    <3>. QED  BY <3>2, <3>4, <3>5 DEF Worse
  <2>. QED  BY <1>4, <1>8, <2>5, <2>6, <2>7 DEF Same
<1>. QED  BY <1>10, <1>11
(* The byte that was read is the right one, and all of what was taken that  *)
(* was good is.                                                             *)
Grown(r, n, base, pos) ==
  /\ r.on /\ Kept(r, n, base) /\ r.ofs = pos + 1 /\ ~Spoilt(n, base, pos)
  /\ Filled(n, base) => Filled(r, base)
  /\ \/ pos < n.len /\ r.len = n.len
     \/ n.len <= pos /\ ~Ahead(n, pos) /\ r.len = pos + 1

LEMMA SeekHeld ==
  ASSUME NEW n, Fits1g(n), n.on, ~n.eof, NEW base \in Nat, Taken(n, base), Begun(n, base),
         NEW pos \in Nat \ {0}, InArchive(n, base, pos), ~NotBefore(n, pos) \/ n.len = pos,
         NEW s, s = read_seekto(n, pos), NEW r, r = read_1g(s, 1)
  PROVE  /\ Same(r, n)
         /\ Gets(s, 1, base + pos) => Fits1g(r) /\ ~r.eof /\ Grown(r, n, base, pos)
         /\ ~Gets(s, 1, base + pos) => pos + 1 > n.max \/ ~Filled(n, base)
<1>1. PICK b \in Nat : b = n.len /\ n \in InRec
  BY DEF Fits1g, InRec
<1>2. pos <= b
  BY <1>1 DEF NotBefore
<1>3. s = [n EXCEPT !.ofs = pos]
  <2>1. ~(pos > b)
    BY <1>2
  <2>. QED  BY <1>1, <2>1 DEF read_seekto
<1>4. /\ s \in InRec /\ s.ofs = pos /\ s.all = n.all /\ s.max = n.max /\ s.on = n.on
      /\ s.eof = n.eof /\ s.mem = n.mem /\ s.len = n.len /\ s.src = n.src
      /\ s.file = n.file
  <2>1. n \in InRec /\ pos \in Nat
    BY <1>1
  <2>. QED  BY <1>3, <2>1 DEF InRec
<1>5. Added1(s, n, base) /\ pos <= s.len /\ pos >= 1
  BY <1>1, <1>2, <1>4 DEF Added1
<1>6. Taken(s, base) /\ (Filled(n, base) => Filled(s, base)) /\ Kept(s, n, base)
  BY <1>4, <1>5, TakenAt
<1>7. Fits1g(s) /\ At(s, pos) /\ InArchive(s, base, pos) /\ Begun(s, base)
  BY <1>4, <1>6 DEF Fits1g, At, InArchive, Kept
<1>8. /\ Same(r, s)
      /\ Gets(s, 1, base + pos) => Fits1g(r) /\ ~r.eof /\ ReadFacts(r, s, base, pos)
      /\ ~Gets(s, 1, base + pos) => pos + 1 > s.max \/ ~Filled(s, base)
  BY <1>4, <1>6, <1>7, ReadAt
<1>9. ASSUME ReadFacts(r, s, base, pos) PROVE Grown(r, n, base, pos)
  <2>1. /\ r.on /\ Kept(r, s, base) /\ r.ofs = pos + 1 /\ ~Spoilt(s, base, pos)
        /\ Filled(s, base) => Filled(r, base)
        /\ r.len = IF pos < s.len THEN s.len ELSE pos + 1
    BY <1>9 DEF ReadFacts
  <2>2. Kept(r, n, base) /\ ~Spoilt(n, base, pos)
    BY <1>6, <2>1 DEF Kept
  <2>3. \/ pos < n.len /\ r.len = n.len
        \/ n.len <= pos /\ ~Ahead(n, pos) /\ r.len = pos + 1
    <3>1. CASE pos < b
      BY <1>1, <1>4, <2>1, <3>1
    <3>2. CASE ~(pos < b)
      <4>1. ~(b < pos) /\ b <= pos
        BY <1>2, <3>2
      <4>2. ~Ahead(n, pos)
        BY <1>1, <4>1 DEF Ahead
      <4>. QED  BY <1>1, <1>4, <2>1, <3>2, <4>1, <4>2
    <3>. QED  BY <3>1, <3>2
  <2>. QED  BY <1>6, <2>1, <2>2, <2>3 DEF Grown
<1>. QED  BY <1>4, <1>6, <1>8, <1>9 DEF Same

(* fill_buffer's seek and the read that follows, by where they lead.        *)
LEMMA HeadRead ==
  ASSUME NEW n, Fits1g(n), n.on, ~n.eof, NEW base \in Nat, Taken(n, base), Begun(n, base),
         NEW pos \in Nat \ {0}, InArchive(n, base, pos),
         NEW s, s = read_seekto(n, pos), NEW r, r = read_1g(s, 1)
  PROVE  /\ Same(r, n)
         /\ Gets(s, 1, base + pos) =>
              /\ Fits1g(r) /\ ~r.eof
              /\ \/ Grown(r, n, base, pos) \/ Worse(r, n, base, pos)
                 \/ Shunted(r, n, base, pos) /\ NotBefore(n, pos) /\ n.max < pos
         /\ ~Gets(s, 1, base + pos) =>
              pos + 1 > n.max \/ Ahead(n, pos) \/ ~Filled(n, base)
<1>1. PICK o, b, x \in Nat, all \in Seq(Nat) :
        /\ o = n.ofs /\ b = n.len /\ x = n.max /\ all = n.all
        /\ n.src = base + b /\ o <= b
  BY TakenAre, ZenonT(40)
<1>2. CASE pos <= b
  <2>1. ~NotBefore(n, pos) \/ n.len = pos
    BY <1>1, <1>2 DEF NotBefore
  <2>2. /\ Same(r, n)
        /\ Gets(s, 1, base + pos) => Fits1g(r) /\ ~r.eof /\ Grown(r, n, base, pos)
        /\ ~Gets(s, 1, base + pos) => pos + 1 > n.max \/ ~Filled(n, base)
    BY <2>1, SeekHeld
  <2>. QED  BY <2>2
<1>3. CASE ~(pos <= b)
  <2>1. PICK l \in Nat : l = pos - b /\ pos = b + l
    <3>1. pos - b \in Nat /\ pos = b + (pos - b)
      BY <1>3
    <3>. QED  BY <3>1, Zenon
  <2>2. b <= pos /\ b < pos /\ pos > b /\ pos \in Nat
    BY <1>3
  <2>3. CASE o + pos - b > x
    <3>1. s = [dump_stdin(n) EXCEPT !.pos = pos]
      BY <1>1, <2>2, <2>3 DEF read_seekto
    <3>2. DumpedAt(s, n, pos) /\ NotBefore(n, pos)
      BY <1>1, <2>2, <3>1 DEF DumpedAt, NotBefore
    <3>3. /\ Same(r, n) /\ Gets(s, 1, base + pos) /\ Fits1g(r) /\ ~r.eof
          /\ Shunted(r, n, base, pos)
      BY <2>2, <3>2, SeekDump
    <3>4. x < pos
      <4>1. o <= b
        BY <1>1, Zenon
      <4>. QED  BY <2>2, <2>3, <4>1
    <3>. QED  BY <1>1, <3>2, <3>3, <3>4
  <2>4. CASE ~(o + pos - b > x)
    <3>1. PICK f : f = read_fdin(n, l)
      OBVIOUS
    <3>2. FromStdin(f, n, l) /\ f.ofs = n.ofs
      BY <3>1, FdinIs
    <3>3. ~f.eof
      <4>1. base + pos + 1 <= Len(all) /\ Len(all) \in Nat
        BY <1>1, LenProperties DEF InArchive
      <4>2. ~((base + b) + l > Len(all))
        BY <2>1, <4>1
      <4>. QED  BY <1>1, <3>2, <4>2 DEF FromStdin
    <3>4. s = [f EXCEPT !.ofs = pos]
      BY <1>1, <2>1, <2>2, <2>4, <3>1 DEF read_seekto
    <3>5. f \in InRec /\ f.on /\ Fits1g(f) /\ Same(f, n)
      BY <3>2 DEF FromStdin, Fits1g
    <3>6. /\ s \in InRec /\ s.ofs = pos /\ s.all = f.all /\ s.max = f.max /\ s.on = f.on
          /\ s.eof = f.eof /\ s.mem = f.mem /\ s.len = f.len /\ s.src = f.src
          /\ s.file = f.file
      <4>1. f \in InRec /\ pos \in Nat
        BY <2>2, <3>5
      <4>. QED  BY <3>4, <4>1 DEF InRec
    <3>7. Fits1g(s) /\ Same(s, f) /\ Same(s, n) /\ s.on /\ ~s.eof
      BY <3>3, <3>5, <3>6 DEF Fits1g, Same
    <3>8. CASE o = b
      <4>1. Fetches(s, n, l)
        BY <3>2, <3>3, <3>6, <3>7 DEF Fetches, FromStdin, Added
      <4>2. AtEnd(n) /\ AtEnd(s) /\ s.len = pos
        <5>1. f.len = o + l
          BY <1>1, <3>2 DEF FromStdin
        <5>. QED  BY <1>1, <2>1, <3>6, <3>8, <5>1 DEF AtEnd
      <4>3. /\ Taken(s, base) /\ Kept(s, n, base)
            /\ n.len + l <= n.max => (Filled(n, base) => Filled(s, base))
        BY <4>1, <4>2, GrowsAtEnd
      <4>4. At(s, pos) /\ InArchive(s, base, pos) /\ Begun(s, base)
        BY <3>5, <3>6, <4>3 DEF At, InArchive, Kept, Same
      <4>5. /\ Same(r, s)
            /\ Gets(s, 1, base + pos) => Fits1g(r) /\ ~r.eof /\ ReadFacts(r, s, base, pos)
            /\ ~Gets(s, 1, base + pos) => pos + 1 > s.max \/ ~Filled(s, base)
        BY <2>2, <3>7, <4>3, <4>4, ReadAt
      <4>6. Filled(n, base) => Filled(s, base)
        <5>1. b + l <= x
          BY <2>1, <2>4, <3>8
        <5>2. n.len + l <= n.max
          BY <1>1, <5>1, Zenon
        <5>. QED  BY <4>3, <5>2
      <4>7. ASSUME ReadFacts(r, s, base, pos) PROVE Grown(r, n, base, pos)
        <5>1. /\ r.on /\ Kept(r, s, base) /\ r.ofs = pos + 1
              /\ Filled(s, base) => Filled(r, base)
              /\ r.len = IF pos < s.len THEN s.len ELSE pos + 1
          BY <4>7 DEF ReadFacts
        <5>2. Kept(r, n, base)
          BY <4>3, <5>1 DEF Kept
        <5>3. n.len <= pos /\ ~Spoilt(n, base, pos)
          BY <1>1, <2>2 DEF Spoilt
        <5>4. ~Ahead(n, pos)
          BY <1>1, <3>8 DEF Ahead
        <5>5. r.len = pos + 1
          <6>1. ~(pos < pos)
            OBVIOUS
          <6>. QED  BY <4>2, <5>1, <6>1
        <5>. QED  BY <4>6, <5>1, <5>2, <5>3, <5>4, <5>5 DEF Grown
      <4>. QED  BY <3>7, <4>5, <4>6, <4>7 DEF Same
    <3>9. CASE ~(o = b)
      <4>1. Ahead(n, pos)
        <5>1. o < b
          BY <1>1, <3>9
        <5>. QED  BY <1>1, <2>2, <5>1 DEF Ahead
      <4>2. Moved(s, f, pos) /\ Further(n, pos, l) /\ Fetches(f, n, l)
        BY <1>1, <2>1, <3>2, <3>3, <3>6, <3>7 DEF Moved, Further, Fetches
      <4>3. /\ Same(r, n)
            /\ Gets(s, 1, base + pos) => Fits1g(r) /\ ~r.eof /\ Worse(r, n, base, pos)
        BY <2>2, <3>7, <4>1, <4>2, SeekAhead
      <4>. QED  BY <4>1, <4>3
    <3>. QED  BY <3>8, <3>9
  <2>. QED  BY <2>3, <2>4
<1>. QED  BY <1>2, <1>3
-----------------------------------------------------------------------------
(* What was read of a chunk, as its blocks are read in their order.         *)

LEMMA HeadAtIs ==
  ASSUME NEW b \in Nat \ {0}
  PROVE  HeadAt(b) = 1 + 2 * b /\ HeadAt(b) \in Nat \ {0}
<1>1. HeadAt(b) = 1 + 2 * b
  BY DEF HeadAt, HeadLen
<1>. QED  BY <1>1

LEMMA OpenGood ==
  ASSUME NEW r, NEW base, NEW nl \in Nat, NEW done, NEW b, Filled(r, base), r.len = 1, r.ofs = 1
  PROVE  GoodAt(r, base, nl, "heads", done, b)
<1>1. 0 \in 0 .. nl
  OBVIOUS
<1>2. Reach(r, 0, "heads", b)
  BY DEF Reach
<1>. QED  BY <1>1, <1>2 DEF GoodAt

LEMMA HeadsGood ==
  ASSUME NEW r, NEW base, NEW nl \in Nat, NEW b, Filled(r, base), r.len = 3, r.ofs = 3
  PROVE  GoodAt(r, base, nl, "blocks", {}, b)
<1>1. 0 \in 0 .. nl
  OBVIOUS
<1>2. Reach(r, 0, "blocks", b)
  BY DEF Reach, HeadLen
<1>3. LastRead(0, {})
  BY DEF LastRead
<1>. QED  BY <1>1, <1>2, <1>3 DEF GoodAt

(* The head of block b, which is still to be read. *)
LEMMA HeadGood ==
  ASSUME NEW n, NEW base \in Nat, NEW nl \in Nat, NEW done \in SUBSET (1 .. nl), NEW b0,
         NEW b \in 1 .. nl, b \notin done, GoodAt(n, base, nl, "blocks", done, b0),
         NEW r, Grown(r, n, base, HeadAt(b))
  PROVE  GoodAt(r, base, nl, "data", done \cup {b}, b)
<1>1. PICK last \in 0 .. nl : LastRead(last, done) /\ Reach(n, last, "blocks", b0)
  BY DEF GoodAt
<1>2. PICK h \in Nat : h = HeadAt(b) /\ h = 1 + 2 * b
  BY HeadAtIs
<1>3. n.len = 3 + 2 * last
  BY <1>1 DEF Reach, HeadLen
<1>4. /\ Filled(r, base) /\ r.ofs = h + 1
      /\ \/ h < n.len /\ r.len = n.len
         \/ n.len <= h /\ r.len = h + 1
  BY <1>2 DEF Grown, GoodAt
<1>5. (\A y \in done : y <= last) /\ (last = 0 \/ last \in done) /\ last # b
  BY <1>1 DEF LastRead
<1>6. CASE h < 3 + 2 * last
  <2>1. b < last
    BY <1>2, <1>5, <1>6
  <2>2. LastRead(last, done \cup {b})
    BY <1>5, <2>1 DEF LastRead
  <2>3. r.len = 3 + 2 * last
    BY <1>2, <1>3, <1>4, <1>6
  <2>4. Reach(r, last, "data", b)
    BY <1>5, <2>3 DEF Reach, HeadLen
  <2>. QED  BY <1>4, <2>2, <2>4 DEF GoodAt
<1>7. CASE ~(h < 3 + 2 * last)
  <2>1. last < b
    BY <1>2, <1>7
  <2>2. LastRead(b, done \cup {b})
    BY <1>5, <2>1 DEF LastRead
  <2>3. r.len = h + 1
    BY <1>2, <1>3, <1>4, <1>7
  <2>4. Reach(r, b, "data", b)
    BY <1>4, <2>3 DEF Reach
  <2>5. b \in 0 .. nl
    OBVIOUS
  <2>. QED  BY <1>4, <2>2, <2>4, <2>5 DEF GoodAt
<1>. QED  BY <1>6, <1>7

(* A head that can only be reached by a seek ahead: a block before it was   *)
(* not read, and the reader is not behind the last one that was.            *)
Passes(n, nl, done, b0, b) ==
  \E q \in done, x \in 1 .. nl :
    b0 < q /\ q < x /\ x < b /\ x \notin done /\ n.len = HeadAt(x)

LEMMA HeadSkips ==
  ASSUME NEW n, NEW base \in Nat, NEW nl \in Nat, NEW done \in SUBSET (1 .. nl), NEW b0 \in done,
         NEW b \in 1 .. nl, GoodAt(n, base, nl, "blocks", done, b0), Ahead(n, HeadAt(b))
  PROVE  Passes(n, nl, done, b0, b)
<1>1. PICK last \in 0 .. nl : LastRead(last, done) /\ Reach(n, last, "blocks", b0)
  BY DEF GoodAt
<1>2. PICK h \in Nat, k \in Nat : h = HeadAt(b) /\ h = 1 + 2 * b /\ k = HeadAt(b0) /\ k = 1 + 2 * b0
  BY HeadAtIs
<1>3. (\A y \in done : y <= last) /\ (last = 0 \/ last \in done)
  BY <1>1 DEF LastRead
<1>4. last # 0 /\ last \in done /\ b0 <= last
  BY <1>3
<1>5. n.len = 3 + 2 * last /\ n.ofs = k + 2
  BY <1>1, <1>2, <1>4 DEF Reach, HeadLen
<1>6. k + 2 < 3 + 2 * last /\ 3 + 2 * last < h
  BY <1>2, <1>5 DEF Ahead
<1>7. b0 < last /\ last + 1 < b
  BY <1>2, <1>6
<1>8. last + 1 \in 1 .. nl
  BY <1>7
<1>9. last + 1 \notin done
  BY <1>3
<1>10. HeadAt(last + 1) = 3 + 2 * last
  <2>1. HeadAt(last + 1) = 1 + 2 * (last + 1)
    BY <1>8, HeadAtIs
  <2>. QED  BY <2>1
<1>. QED  BY <1>4, <1>5, <1>7, <1>8, <1>9, <1>10 DEF Passes

(* The data of block b, whose head was read. *)
LEMMA DataGood ==
  ASSUME NEW n, NEW base \in Nat, NEW nl \in Nat, NEW done \in SUBSET (1 .. nl), NEW b \in done,
         GoodAt(n, base, nl, "data", done, b), At(n, HeadAt(b) + 1),
         NEW r, ReadFacts(r, n, base, HeadAt(b) + 1), NEW ph \in {"blocks", "tokens"}
  PROVE  GoodAt(r, base, nl, ph, done, b)
<1>1. PICK last \in 0 .. nl : LastRead(last, done) /\ Reach(n, last, "data", b)
  BY DEF GoodAt
<1>2. PICK h \in Nat : h = HeadAt(b) /\ h = 1 + 2 * b
  BY HeadAtIs
<1>3. b <= last /\ last # 0
  BY <1>1 DEF LastRead
<1>4. n.len = IF last = b THEN h + 1 ELSE 3 + 2 * last
  BY <1>1, <1>2 DEF Reach, HeadLen, At
<1>5. /\ Filled(r, base) /\ r.ofs = (h + 1) + 1
      /\ r.len = IF h + 1 < n.len THEN n.len ELSE (h + 1) + 1
  BY <1>2 DEF ReadFacts, GoodAt
<1>6. r.len = 3 + 2 * last
  <2>1. CASE last = b
    <3>1. ~(h + 1 < h + 1)
      OBVIOUS
    <3>. QED  BY <1>2, <1>4, <1>5, <2>1, <3>1
  <2>2. CASE last # b
    <3>1. h + 1 < 3 + 2 * last
      BY <1>2, <1>3, <2>2
    <3>. QED  BY <1>4, <1>5, <2>2, <3>1
  <2>. QED  BY <2>1, <2>2
<1>7. r.ofs = h + 2
  BY <1>5
<1>8. Reach(r, last, ph, b)
  <2>1. ph # "heads" /\ ph # "data"
    OBVIOUS
  <2>. QED  BY <1>2, <1>3, <1>6, <1>7, <2>1 DEF Reach, HeadLen
<1>. QED  BY <1>1, <1>5, <1>8 DEF GoodAt

(* All of the chunk. *)
LEMMA AllGood ==
  ASSUME NEW n, NEW base, NEW nl \in Nat \ {0}, NEW b, GoodAt(n, base, nl, "tokens", 1 .. nl, b)
  PROVE  n.len = 3 + 2 * nl
<1>1. PICK last \in 0 .. nl : LastRead(last, 1 .. nl) /\ Reach(n, last, "tokens", b)
  BY DEF GoodAt
<1>2. nl \in 1 .. nl
  OBVIOUS
<1>3. last = nl
  BY <1>1, <1>2 DEF LastRead
<1>. QED  BY <1>1, <1>3 DEF Reach, HeadLen
-----------------------------------------------------------------------------
(* Decompression, step by step: what is read.                               *)

ArchiveFacts(all, m, cl) == Numbered(all) /\ Len(all) = m * cl + 1

LEMMA ArchiveIs ==
  ASSUME NEW chunks, NEW layout, Len(chunks) \in Nat, ChunkLen(layout) \in Nat
  PROVE  ArchiveFacts(ArchiveBytes(chunks, layout), Len(chunks), ChunkLen(layout))
<1>. PICK m \in Nat, cl \in Nat : m = Len(chunks) /\ cl = ChunkLen(layout)
  OBVIOUS
<1>. PICK all : all = ArchiveBytes(chunks, layout)
  OBVIOUS
<1>1. PICK z \in Nat : z = m * cl + 1
  <2>1. m * cl \in Nat
    OBVIOUS
  <2>2. m * cl + 1 \in Nat
    BY <2>1
  <2>. QED  BY <2>2, Zenon
<1>2. all = [k \in 1 .. z |-> k]
  BY <1>1 DEF ArchiveBytes
<1>3. all \in [1 .. z -> Nat] /\ \A j \in 1 .. z : all[j] = j
  BY <1>2
<1>4. all \in Seq(Nat) /\ Len(all) = z
  BY <1>2, <1>3
<1>. QED  BY <1>1, <1>3, <1>4 DEF Numbered, ArchiveFacts

LEMMA MulDown == \A a, b \in Nat : a >= 1 => (a - 1) * b \in Nat /\ a * b = (a - 1) * b + b
  OBVIOUS

LEMMA MulGrows == \A a, b, n \in Nat : a <= b => a * n <= b * n
  OBVIOUS

(* Where a chunk begins in the archive, and where the next one does.        *)
LEMMA BaseIs ==
  ASSUME NEW m \in Nat, NEW cl \in Nat, NEW c \in 1 .. m
  PROVE  \E base, z \in Nat :
           /\ base = (c - 1) * cl /\ c * cl = base + cl /\ z = m * cl + 1
           /\ base + cl + 1 <= z /\ (c = m => z = base + cl + 1)
<1>1. c \in Nat /\ c >= 1 /\ c <= m
  OBVIOUS
<1>2. (c - 1) * cl \in Nat /\ c * cl = (c - 1) * cl + cl
  BY <1>1, MulDown
<1>3. PICK base \in Nat : base = (c - 1) * cl /\ c * cl = base + cl
  BY <1>2, Zenon
<1>4. m * cl \in Nat
  OBVIOUS
<1>5. PICK y \in Nat : y = m * cl
  BY <1>4, Zenon
<1>6. base + cl <= y
  <2>1. c * cl <= m * cl
    BY <1>1, MulGrows
  <2>. QED  BY <1>3, <1>5, <2>1
<1>7. c = m => y = base + cl
  BY <1>3, <1>5, Zenon
<1>8. y + 1 \in Nat /\ base + cl + 1 <= y + 1 /\ (c = m => y + 1 = base + cl + 1)
  BY <1>6, <1>7
<1>. QED  BY <1>3, <1>5, <1>8, Zenon

(* The place in an archive that is being read. *)
InPlace(base, cl, nl, m, c, z) ==
  /\ base = ChunkStart /\ cl = ChunkLen(conf.layout) /\ nl = Len(conf.layout)
  /\ cl = 3 + 2 * nl /\ nl # 0 /\ DOMAIN conf.layout = 1 .. nl
  /\ m = Len(conf.chunks) /\ c = chunk /\ c \in 1 .. m
  /\ z = Len(inp.all) /\ base + cl + 1 <= z /\ (c = m => z = base + cl + 1)
  /\ c * cl = base + cl

LEMMA ReadLayout ==
  ASSUME ReadConf(conf)
  PROVE  \E cl, nl, m \in Nat :
           /\ cl = ChunkLen(conf.layout) /\ nl = Len(conf.layout) /\ cl = 3 + 2 * nl /\ nl # 0
           /\ DOMAIN conf.layout = 1 .. nl /\ m = Len(conf.chunks) /\ m # 0
<1>1. conf.layout \in Seq({0, 1}) /\ \E b \in DOMAIN conf.layout : conf.layout[b] = 0
  BY RunzipAssumption DEF ReadConf
<1>2. PICK nl \in Nat : nl = Len(conf.layout) /\ DOMAIN conf.layout = 1 .. nl
  BY <1>1, LenProperties
<1>3. nl # 0
  BY <1>1, <1>2
<1>4. ChunkLen(conf.layout) = 3 + 2 * nl
  BY <1>2 DEF ChunkLen, HeadLen
<1>5. 3 + 2 * nl \in Nat
  OBVIOUS
<1>6. Len(conf.chunks) \in Nat \ {0}
  BY ConfFacts, PriorIs
<1>. QED  BY <1>2, <1>3, <1>4, <1>5, <1>6, Zenon

LEMMA InState ==
  ASSUME ConfInv, PlaceInv, InInv, Running, Read, phase \in Reading
  PROVE  /\ ReadConf(conf) /\ Fits1g(inp) /\ ~inp.eof
         /\ inp.on => conf.stdin /\ OnSound(inp, ChunkStart)
         /\ ~inp.on => OffSound(inp, ChunkStart)
         /\ conf.stdin => inp.max \in Nat \ {0}
         /\ phase = "tokens" => need = {}
         /\ \E base, cl, nl, m, c, z \in Nat : InPlace(base, cl, nl, m, c, z)
<1>1. ReadConf(conf)
  BY DEF ConfInv, Read, WriteConf, Modes
<1>2. /\ inp \in InRec /\ ~inp.eof /\ inp.all = ArchiveBytes(conf.chunks, conf.layout)
      /\ conf.stdin => inp.max \in InMax
      /\ inp.on => conf.stdin
      /\ phase = "tokens" => need = {}
      /\ IF inp.on THEN OnSound(inp, ChunkStart) ELSE OffSound(inp, ChunkStart)
  BY DEF InInv
<1>3. PICK cl, nl, m \in Nat :
           /\ cl = ChunkLen(conf.layout) /\ nl = Len(conf.layout) /\ cl = 3 + 2 * nl /\ nl # 0
           /\ DOMAIN conf.layout = 1 .. nl /\ m = Len(conf.chunks) /\ m # 0
  BY <1>1, ReadLayout
<1>4. Numbered(inp.all) /\ Len(inp.all) = m * cl + 1
  <2>1. ArchiveFacts(ArchiveBytes(conf.chunks, conf.layout), Len(conf.chunks), ChunkLen(conf.layout))
    BY <1>3, ArchiveIs
  <2>2. ArchiveFacts(inp.all, m, cl)
    BY <1>2, <1>3, <2>1, Zenon
  <2>. QED  BY <2>2, Zenon DEF ArchiveFacts
<1>5. chunk \in 1 .. m
  <2>1. conf.chunks \in Seq(Seq(Token))
    BY <1>1, ConfFacts DEF SoundConf
  <2>2. chunk \in DOMAIN conf.chunks
    BY DEF PlaceInv, AtToken
  <2>. QED  BY <1>3, <2>1, <2>2, LenProperties
<1>6. PICK c \in Nat : c = chunk /\ c \in 1 .. m
  <2>1. chunk \in Nat
    BY <1>5
  <2>. QED  BY <1>5, <2>1, Zenon
<1>7. PICK base, z \in Nat :
           /\ base = (c - 1) * cl /\ c * cl = base + cl /\ z = m * cl + 1
           /\ base + cl + 1 <= z /\ (c = m => z = base + cl + 1)
  BY <1>6, BaseIs
<1>8. base = ChunkStart
  BY <1>3, <1>6, <1>7, Zenon DEF ChunkStart
<1>9. InPlace(base, cl, nl, m, c, z)
  BY <1>3, <1>4, <1>6, <1>7, <1>8, Zenon DEF InPlace
<1>10. InMax \subseteq Nat \ {0}
  BY RunzipAssumption
<1>. QED  BY <1>1, <1>2, <1>4, <1>9, <1>10 DEF Fits1g

(* What a read comes to. *)
LEMMA TakeIs ==
  ASSUME NEW n, NEW from, NEW k, NEW next, Take(n, from, k, next)
  PROVE  /\ inp' = read_1g(n, k) /\ phase' = next
         /\ Gets(n, k, ChunkStart + from) => fate' = "run"
         /\ ~Gets(n, k, ChunkStart + from) => fate' = "garbage"
<1>1. Wanted(from, k) = [j \in 1 .. k |-> ChunkStart + from + j]
  BY DEF Wanted
<1>. QED  BY <1>1 DEF Take, Gets
LEMMA InNext ==
  ASSUME InInv, Read, Running, conf' = conf, Fits1g(inp'), Same(inp', inp), ~inp'.eof,
         inp'.on => conf.stdin, phase' \in Reading, phase' = "tokens" => need' = {},
         inp'.on => OnSound(inp, ChunkStart)', ~inp'.on => OffSound(inp, ChunkStart)'
  PROVE  InInv'
<1>1. phase' # "hash"
  BY DEF Reading
<1>2. inp' \in InRec /\ inp'.all = inp.all /\ inp'.max = inp.max
  BY DEF Fits1g, Same
<1>3. /\ inp.all = ArchiveBytes(conf.chunks, conf.layout)
      /\ conf.stdin => inp.max \in InMax
  BY DEF InInv
<1>. QED  BY <1>1, <1>2, <1>3 DEF InInv

(* When a run that read the wrong byte has stopped, nothing is claimed of   *)
(* the input any more, but of the archive and its order.                    *)
LEMMA InStopped ==
  ASSUME fate' = "garbage", conf' = conf, Same(inp', inp), conf.stdin, Tight(inp)
  PROVE  InInv' /\ StdinFaithful'
<1>1. InInv'
  BY DEF InInv, Running
<1>2. StdinFaithful'
  BY DEF StdinFaithful, Tight, Same
<1>. QED  BY <1>1, <1>2

LEMMA OpenChunkIn ==
  ASSUME ConfInv, PlaceInv, InInv, Read, OpenChunk
  PROVE  InInv' /\ StdinFaithful'
<1>1. /\ Running /\ phase = "open" /\ phase \in Reading /\ Take(inp, 0, 1, "heads")
      /\ start' = get_readseek(read_1g(inp, 1)) /\ conf' = conf /\ chunk' = chunk
  BY DEF OpenChunk, Reading
<1>2. /\ Fits1g(inp) /\ ~inp.eof
      /\ inp.on => conf.stdin /\ OnSound(inp, ChunkStart)
      /\ ~inp.on => OffSound(inp, ChunkStart)
      /\ conf.stdin => inp.max \in Nat \ {0}
  BY <1>1, InState
<1>3. PICK base, cl, nl, m, c, z \in Nat : InPlace(base, cl, nl, m, c, z)
  BY <1>1, InState
<1>4. /\ base = ChunkStart /\ cl = ChunkLen(conf.layout) /\ nl = Len(conf.layout)
      /\ z = Len(inp.all)
  BY <1>3, Zenon DEF InPlace
<1>5. base + 1 <= z
  <2>1. base + cl + 1 <= z
    BY <1>3, Zenon DEF InPlace
  <2>. QED  BY <2>1
<1>6. ChunkStart' = base
  BY <1>1, <1>4 DEF ChunkStart
<1>7. PICK r : r = read_1g(inp, 1)
  OBVIOUS
<1>8. /\ inp' = r /\ phase' = "heads"
      /\ Gets(inp, 1, base) => fate' = "run"
      /\ ~Gets(inp, 1, base) => fate' = "garbage"
  <2>1. ChunkStart + 0 = base
    BY <1>4
  <2>2. /\ inp' = read_1g(inp, 1) /\ phase' = "heads"
        /\ Gets(inp, 1, ChunkStart + 0) => fate' = "run"
        /\ ~Gets(inp, 1, ChunkStart + 0) => fate' = "garbage"
    BY <1>1, TakeIs, Zenon
  <2>. QED  BY <1>7, <2>1, <2>2, Zenon
<1>9. 1 \in Nat \ {0} /\ 1 \in Nat /\ phase' \in Reading /\ phase' # "tokens"
  BY <1>8 DEF Reading
<1>10. CASE inp.on
  <2>1. Taken(inp, base) /\ inp.len = 0
    BY <1>1, <1>2, <1>4, <1>10 DEF OnSound
  <2>2. inp.ofs = 0
    <3>1. PICK o, b \in Nat : o = inp.ofs /\ b = inp.len /\ o <= b
      BY <1>2, <2>1, TakenAre, Zenon
    <3>. QED  BY <2>1, <3>1
  <2>3. Short(inp, 1, 1)
    <3>1. PICK x \in Nat \ {0} : x = inp.max
      BY <1>2, <1>10
    <3>2. ~(0 + 1 > x) /\ 0 + 1 > 0 /\ 0 + 1 - 0 = 1
      OBVIOUS
    <3>. QED  BY <2>1, <2>2, <3>1, <3>2, Zenon DEF Short
  <2>4. /\ FromStdin(r, inp, 1) /\ r.ofs = inp.ofs + 1
        /\ Gets(inp, 1, base) <=> ~r.eof /\ Right(r.mem, inp.ofs, 1, base)
    BY <1>2, <1>7, <1>9, <1>10, <2>3, ReadMore
  <2>5. ~r.eof
    <3>1. inp.src = base
      BY <2>1 DEF Taken
    <3>2. ~(base + 1 > z)
      BY <1>5
    <3>. QED  BY <1>4, <2>4, <3>1, <3>2 DEF FromStdin
  <2>6. r.len = 1 /\ r.ofs = 1 /\ r.on
    <3>1. r.len = 0 + 1 /\ r.ofs = 0 + 1 /\ r.on
      BY <1>10, <2>2, <2>4 DEF FromStdin
    <3>. QED  BY <3>1
  <2>7. Fetches(r, inp, 1) /\ AtEnd(r) /\ AtEnd(inp)
    BY <2>1, <2>2, <2>4, <2>5, <2>6 DEF Fetches, AtEnd
  <2>8. /\ Taken(r, base)
        /\ inp.len + 1 <= inp.max => (Filled(inp, base) => Filled(r, base))
        /\ Right(r.mem, inp.len, 1, base + inp.len)
    BY <1>2, <1>9, <2>1, <2>7, GrowsAtEnd
  <2>9. Right(r.mem, 0, 1, base)
    <3>1. base + 0 = base
      OBVIOUS
    <3>. QED  BY <2>1, <2>8, <3>1
  <2>10. Gets(inp, 1, base)
    BY <2>2, <2>4, <2>5, <2>9
  <2>11. Filled(r, base)
    <3>1. PICK x \in Nat \ {0} : x = inp.max
      BY <1>2, <1>10
    <3>2. 0 + 1 <= x /\ 0 <= x /\ \A j \in 1 .. 0 : FALSE
      OBVIOUS
    <3>3. Filled(inp, base)
      BY <2>1, <3>1, <3>2 DEF Filled
    <3>4. inp.len + 1 <= inp.max
      BY <2>1, <3>1, <3>2, Zenon
    <3>. QED  BY <2>8, <3>3, <3>4
  <2>12. Begun(r, base)
    <3>1. 1 \in 1 .. 1 /\ 0 + 1 = 1 /\ 1 >= 1
      OBVIOUS
    <3>2. r.mem[0 + 1] = base + 1
      BY <2>9, <3>1 DEF Right
    <3>. QED  BY <2>6, <3>1, <3>2 DEF Begun
  <2>13. start' = 1
    BY <1>1, <1>7, <2>6 DEF get_readseek
  <2>14. GoodAt(r, base, nl, "heads", Done', blk')
    BY <2>6, <2>11, OpenGood
  <2>15. Good(inp, ChunkStart)'
    BY <1>1, <1>4, <1>6, <1>8, <2>14 DEF Good
  <2>16. OnSound(inp, ChunkStart)'
    BY <1>6, <1>8, <2>8, <2>12, <2>13, <2>15 DEF OnSound
  <2>17. Fits1g(inp') /\ Same(inp', inp) /\ inp'.on /\ ~inp'.eof
    BY <1>8, <2>4, <2>5, <2>6 DEF FromStdin
  <2>18. InInv'
    BY <1>1, <1>2, <1>9, <1>10, <2>16, <2>17, InNext
  <2>19. StdinFaithful'
    BY <1>8, <2>10 DEF StdinFaithful
  <2>. QED  BY <2>18, <2>19
<1>11. CASE ~inp.on
  <2>1. /\ Fits1g(r) /\ Same(r, inp) /\ ~r.on /\ r.pos = inp.pos + 1 /\ r.file = inp.file
        /\ r.eof <=> inp.pos + 1 > Len(inp.file)
        /\ Gets(inp, 1, base) <=> Right(inp.file, inp.pos, 1, base)
    BY <1>2, <1>7, <1>9, <1>11, ReadOff
  <2>2. inp.pos \in Nat /\ inp.file \in Seq(Nat)
    BY <1>2 DEF Fits1g, InRec
  <2>3. OffSound(inp, base)
    BY <1>2, <1>4, <1>11
  <2>4. CASE Emptied(inp)
    <3>1. conf.stdin /\ inp.file = << >>
      BY <2>4 DEF Emptied
    <3>2. ~Right(inp.file, inp.pos, 1, base)
      <4>1. ~(inp.pos + 1 <= 0) /\ Len(<< >>) = 0
        BY <2>2
      <4>. QED  BY <3>1, <4>1 DEF Right
    <3>3. Tight(inp)
      BY <2>3, <3>1 DEF OffSound
    <3>4. fate' = "garbage"
      BY <1>8, <2>1, <3>2
    <3>. QED  BY <1>1, <1>8, <2>1, <3>1, <3>3, <3>4, InStopped
  <2>5. CASE ~Emptied(inp)
    <3>1. PICK o \in 0 .. base :
            /\ ~conf.stdin => o = 0
            /\ inp.pos = base - o /\ Suffix(inp, o)
      <4>1. PICK o \in 0 .. base :
              /\ ~conf.stdin => o = 0
              /\ inp.pos = base - o + PosOff
              /\ Suffix(inp, o) \/ LostInFile(inp, base, o)
        BY <1>1, <2>3, <2>5 DEF OffSound
      <4>2. PosOff = 0 /\ ~LostInFile(inp, base, o)
        BY <1>1 DEF PosOff, LostInFile
      <4>3. base - o + 0 = base - o
        OBVIOUS
      <4>. QED  BY <4>1, <4>2, <4>3
    <3>2. PICK p \in Nat, f \in Seq(Nat) : p = inp.pos /\ f = inp.file /\ p = base - o
      BY <2>2, <3>1
    <3>3. Len(f) = z - o /\ \A j \in 1 .. Len(f) : f[j] = o + j
      BY <1>4, <3>1, <3>2 DEF Suffix
    <3>4. p + 1 <= Len(f) /\ p + 1 \in 1 .. Len(f) /\ o + (p + 1) = base + 1
      BY <1>5, <3>2, <3>3
    <3>5. Right(f, p, 1, base)
      <4>1. f[p + 1] = base + 1 /\ \A j \in 1 .. 1 : j = 1
        BY <3>3, <3>4
      <4>. QED  BY <3>4, <4>1 DEF Right
    <3>6. Gets(inp, 1, base) /\ ~r.eof
      <4>1. ~(p + 1 > Len(f))
        BY <3>4
      <4>. QED  BY <2>1, <3>2, <3>5, <4>1
    <3>7. start' = base - o + 1 /\ inp'.pos = base - o + 1
      BY <1>1, <1>7, <1>8, <2>1, <3>2 DEF get_readseek
    <3>8. OffSound(inp, ChunkStart)'
      <4>1. conf.stdin => Tight(inp)
        BY <2>3 DEF OffSound
      <4>2. (conf.stdin => Tight(inp))'
        BY <1>1, <1>8, <2>1, <4>1 DEF Tight, Same
      <4>3. Suffix(inp', o)
        BY <1>8, <2>1, <3>1 DEF Suffix, Same
      <4>4. PosOff' = 1
        BY <1>8 DEF PosOff
      <4>5. phase' # "open" /\ (~conf.stdin => o = 0)' /\ o \in 0 .. base
        BY <1>1, <1>8, <3>1
      <4>. QED  BY <1>6, <3>7, <4>2, <4>3, <4>4, <4>5, Zenon DEF OffSound
    <3>9. Fits1g(inp') /\ Same(inp', inp) /\ ~inp'.on /\ ~inp'.eof
      BY <1>8, <2>1, <3>6
    <3>10. InInv'
      BY <1>1, <1>9, <3>8, <3>9, InNext
    <3>11. StdinFaithful'
      BY <1>8, <3>6 DEF StdinFaithful
    <3>. QED  BY <3>10, <3>11
  <2>. QED  BY <2>4, <2>5
<1>. QED  BY <1>10, <1>11

(* A read from the file, where all of the rest of the archive is.           *)
Within(n, o, p, k) == p = n.pos /\ o + p + k <= Len(n.all)

LEMMA SuffixGets ==
  ASSUME NEW n, Fits1g(n), ~n.on, ~n.eof, NEW o \in Nat, Suffix(n, o), NEW p \in Nat,
         NEW k \in Nat \ {0}, Within(n, o, p, k)
  PROVE  Gets(n, k, o + p)
<1>1. PICK f \in Seq(Nat) : f = n.file
  BY DEF Fits1g, InRec
<1>2. PICK h \in Nat : h = Len(f)
  BY <1>1, LenProperties
<1>3. PICK z \in Nat : z = Len(n.all) /\ h = z - o
  <2>1. Len(n.all) \in Nat
    BY LenProperties DEF Fits1g, InRec
  <2>. QED  BY <1>1, <1>2, <2>1 DEF Suffix
<1>4. \A j \in 1 .. h : f[j] = o + j
  BY <1>1, <1>2 DEF Suffix
<1>5. o + p + k <= z /\ n.pos = p
  BY <1>3, Zenon DEF Within
<1>6. p + k <= h
  BY <1>3, <1>5
<1>7. ASSUME NEW j \in 1 .. k PROVE f[p + j] = o + p + j
  <2>1. p + j \in 1 .. h /\ o + (p + j) = o + p + j
    BY <1>6
  <2>. QED  BY <1>4, <2>1
<1>8. Right(f, p, k, o + p)
  BY <1>2, <1>6, <1>7 DEF Right
<1>9. PICK v \in Nat : v = o + p
  <2>1. o + p \in Nat
    OBVIOUS
  <2>. QED  BY <2>1, Zenon
<1>10. Gets(n, k, v) <=> Right(n.file, n.pos, k, v)
  BY ReadOff
<1>. QED  BY <1>1, <1>5, <1>8, <1>9, <1>10, Zenon

LEMMA OpenHeadsIn ==
  ASSUME ConfInv, PlaceInv, InInv, Read, OpenHeads
  PROVE  InInv' /\ StdinFaithful'
<1>1. /\ Running /\ phase = "heads" /\ phase \in Reading /\ Take(inp, 1, 2, "blocks")
      /\ need' = 1 .. Len(conf.layout)
      /\ start' = start /\ conf' = conf /\ chunk' = chunk /\ blk' = blk
  BY DEF OpenHeads, Reading
<1>2. /\ Fits1g(inp) /\ ~inp.eof
      /\ inp.on => conf.stdin /\ OnSound(inp, ChunkStart)
      /\ ~inp.on => OffSound(inp, ChunkStart)
      /\ conf.stdin => inp.max \in Nat \ {0}
  BY <1>1, InState
<1>3. PICK base, cl, nl, m, c, z \in Nat : InPlace(base, cl, nl, m, c, z)
  BY <1>1, InState
<1>4. /\ base = ChunkStart /\ cl = ChunkLen(conf.layout) /\ nl = Len(conf.layout)
      /\ z = Len(inp.all) /\ DOMAIN conf.layout = 1 .. nl
  BY <1>3, Zenon DEF InPlace
<1>5. base + 5 <= z /\ 5 <= cl
  <2>1. base + cl + 1 <= z /\ cl = 3 + 2 * nl /\ nl # 0
    BY <1>3, Zenon DEF InPlace
  <2>. QED  BY <2>1
<1>6. ChunkStart' = base /\ Done' = {}
  BY <1>1, <1>4 DEF ChunkStart, Done
<1>7. PICK r : r = read_1g(inp, 2)
  OBVIOUS
<1>8. /\ inp' = r /\ phase' = "blocks"
      /\ Gets(inp, 2, base + 1) => fate' = "run"
      /\ ~Gets(inp, 2, base + 1) => fate' = "garbage"
  <2>1. /\ inp' = read_1g(inp, 2) /\ phase' = "blocks"
        /\ Gets(inp, 2, ChunkStart + 1) => fate' = "run"
        /\ ~Gets(inp, 2, ChunkStart + 1) => fate' = "garbage"
    BY <1>1, TakeIs, Zenon
  <2>. QED  BY <1>4, <1>7, <2>1, Zenon
<1>9. 2 \in Nat \ {0} /\ 2 \in Nat /\ phase' \in Reading /\ phase' # "tokens"
  BY <1>8 DEF Reading
<1>10. CASE inp.on
  <2>1. Taken(inp, base) /\ start = 1 /\ Begun(inp, base) /\ Good(inp, base)
    <3>1. ~Lost(inp, base)
      BY <1>1 DEF Lost
    <3>. QED  BY <1>1, <1>2, <1>4, <1>10, <3>1 DEF OnSound
  <2>2. Filled(inp, base) /\ inp.len = 1 /\ inp.ofs = 1
    BY <1>1, <2>1 DEF Good, GoodAt, Reach
  <2>3. PICK x \in Nat, v \in Nat : x = inp.max /\ v = base + 1 /\ v # base
    <3>1. base + 1 \in Nat /\ base + 1 # base
      OBVIOUS
    <3>2. inp.max \in Nat
      BY <1>2, <1>10
    <3>. QED  BY <3>1, <3>2, Zenon
  <2>4. CASE 1 + 2 > x
    <3>1. Beyond(inp, 2)
      BY <2>2, <2>3, <2>4, Zenon DEF Beyond
    <3>2. Dumpable(inp, base)
      <4>1. inp.src <= Len(inp.all) /\ inp.len <= Len(inp.mem)
        BY <2>1 DEF Taken
      <4>2. 1 >= 1
        OBVIOUS
      <4>. QED  BY <2>1, <2>2, <4>1, <4>2 DEF Dumpable, Begun
    <3>3. ~Gets(inp, 2, v) /\ Same(r, inp)
      BY <1>2, <1>7, <1>9, <1>10, <2>3, <3>1, <3>2, ReadDump
    <3>4. Tight(inp)
      <4>1. x < cl
        BY <1>5, <2>4
      <4>. QED  BY <1>4, <2>3, <4>1 DEF Tight
    <3>. QED  BY <1>1, <1>2, <1>8, <1>10, <2>3, <3>3, <3>4, InStopped
  <2>5. CASE ~(1 + 2 > x)
    <3>1. Short(inp, 2, 2)
      <4>1. 1 + 2 > 1 /\ 1 + 2 - 1 = 2
        OBVIOUS
      <4>. QED  BY <2>2, <2>3, <2>5, <4>1, Zenon DEF Short
    <3>2. /\ FromStdin(r, inp, 2) /\ r.ofs = inp.ofs + 2
          /\ Gets(inp, 2, v) <=> ~r.eof /\ Right(r.mem, inp.ofs, 2, v)
      BY <1>2, <1>7, <1>9, <1>10, <2>3, <3>1, ReadMore
    <3>3. ~r.eof
      <4>1. inp.src = base + 1
        BY <2>1, <2>2 DEF Taken
      <4>2. ~((base + 1) + 2 > z)
        BY <1>5
      <4>. QED  BY <1>4, <3>2, <4>1, <4>2 DEF FromStdin
    <3>4. r.len = 3 /\ r.ofs = 3 /\ r.on
      <4>1. r.len = 1 + 2 /\ r.ofs = 1 + 2 /\ r.on
        BY <1>10, <2>2, <3>2 DEF FromStdin
      <4>. QED  BY <4>1
    <3>5. Fetches(r, inp, 2) /\ AtEnd(r) /\ AtEnd(inp)
      BY <2>2, <3>2, <3>3, <3>4 DEF Fetches, AtEnd
    <3>6. inp.len + 2 <= inp.max
      <4>1. 1 + 2 <= x
        BY <2>5
      <4>. QED  BY <2>2, <2>3, <4>1, Zenon
    <3>7. /\ Kept(r, inp, base) /\ Filled(r, base)
          /\ Right(r.mem, inp.len, 2, base + inp.len)
      BY <1>2, <1>9, <2>1, <2>2, <3>5, <3>6, GrowsAtEnd
    <3>8. Gets(inp, 2, v)
      BY <2>2, <2>3, <3>2, <3>3, <3>7
    <3>9. GoodAt(r, base, nl, "blocks", {}, blk)
      BY <3>4, <3>7, HeadsGood
    <3>10. Good(inp, ChunkStart)'
      BY <1>1, <1>4, <1>6, <1>8, <3>9 DEF Good
    <3>11. OnSound(inp, ChunkStart)'
      BY <1>1, <1>6, <1>8, <2>1, <3>7, <3>10 DEF OnSound, Kept
    <3>12. Fits1g(inp') /\ Same(inp', inp) /\ inp'.on /\ ~inp'.eof
      BY <1>8, <3>2, <3>3, <3>4 DEF FromStdin
    <3>13. InInv'
      BY <1>1, <1>2, <1>9, <1>10, <3>11, <3>12, InNext
    <3>14. StdinFaithful'
      BY <1>8, <2>3, <3>8 DEF StdinFaithful
    <3>. QED  BY <3>13, <3>14
  <2>. QED  BY <2>4, <2>5
<1>11. CASE ~inp.on
  <2>1. OffSound(inp, base)
    BY <1>2, <1>4, <1>11
  <2>2. PICK o \in 0 .. base :
          /\ ~conf.stdin => o = 0
          /\ start = base - o + 1
          /\ inp.pos = base - o + PosOff
          /\ Suffix(inp, o) \/ LostInFile(inp, base, o)
    BY <1>1, <2>1 DEF OffSound
  <2>3. Suffix(inp, o) /\ PosOff = 1
    BY <1>1, <2>2 DEF PosOff, LostInFile
  <2>4. PICK p \in Nat : p = inp.pos /\ p = base - o + 1
    <3>1. base - o + 1 \in Nat
      OBVIOUS
    <3>. QED  BY <2>2, <2>3, <3>1, Zenon
  <2>5. o + p = base + 1 /\ o + p + 2 <= z /\ o \in Nat
    BY <1>5, <2>4
  <2>6. Gets(inp, 2, base + 1)
    <3>1. Within(inp, o, p, 2)
      BY <1>4, <2>4, <2>5, Zenon DEF Within
    <3>2. Gets(inp, 2, o + p)
      BY <1>2, <1>9, <1>11, <2>3, <2>5, <3>1, SuffixGets
    <3>. QED  BY <2>5, <3>2
  <2>7. /\ Fits1g(r) /\ Same(r, inp) /\ ~r.on /\ r.file = inp.file
    <3>1. base + 1 \in Nat
      OBVIOUS
    <3>. QED  BY <1>2, <1>7, <1>9, <1>11, <3>1, ReadOff
  <2>8. ~r.eof
    BY <1>7, <2>6 DEF Gets
  <2>9. OffSound(inp, ChunkStart)'
    <3>1. conf.stdin => Tight(inp)
      BY <2>1 DEF OffSound
    <3>2. (conf.stdin => Tight(inp))'
      BY <1>1, <1>8, <2>7, <3>1 DEF Tight, Same
    <3>3. Suffix(inp', o)
      BY <1>8, <2>3, <2>7 DEF Suffix, Same
    <3>4. phase' \notin {"open", "heads", "data"}
      BY <1>8
    <3>5. start' = base - o + 1 /\ (~conf.stdin => o = 0)' /\ o \in 0 .. base
      BY <1>1, <2>2
    <3>. QED  BY <1>6, <3>2, <3>3, <3>4, <3>5, Zenon DEF OffSound
  <2>10. Fits1g(inp') /\ Same(inp', inp) /\ ~inp'.on /\ ~inp'.eof
    BY <1>8, <2>7, <2>8
  <2>11. InInv'
    BY <1>1, <1>9, <2>9, <2>10, InNext
  <2>12. StdinFaithful'
    BY <1>8, <2>6 DEF StdinFaithful
  <2>. QED  BY <2>11, <2>12
<1>. QED  BY <1>10, <1>11
(* Block b was due, and blocks before it are behind others of their stream  *)
(* or were passed by.                                                       *)
LEMMA SkippedBack ==
  ASSUME OrderInv, Running, phase = "blocks", NEW nl \in Nat, DOMAIN conf.layout = 1 .. nl,
         need \subseteq 1 .. nl, NEW b \in need, Due(b), blk \in Done,
         NEW q \in Done, NEW x \in need, blk < q, q < x, x < b
  PROVE  SkipsBack(conf.layout)
<1>1. conf.layout[blk] # conf.layout[q]
  BY DEF OrderInv
<1>2. x \in Nat /\ b \in Nat /\ ~(b <= x)
  OBVIOUS
<1>3. conf.layout[x] # conf.layout[b]
  BY <1>2, Zenon DEF Due, FirstLeft
<1>4. blk \in DOMAIN conf.layout /\ q \in DOMAIN conf.layout
      /\ x \in DOMAIN conf.layout /\ b \in DOMAIN conf.layout
  BY DEF Done
<1>5. SUFFICES \E k, l, y, r \in DOMAIN conf.layout :
                 /\ k < l /\ l < y /\ y < r
                 /\ conf.layout[k] # conf.layout[l] /\ conf.layout[y] # conf.layout[r]
  BY Zenon DEF SkipsBack
<1>. USE <1>4
<1>. WITNESS blk \in DOMAIN conf.layout, q \in DOMAIN conf.layout,
             x \in DOMAIN conf.layout, b \in DOMAIN conf.layout
<1>. QED  BY <1>1, <1>3

(* A seek ahead: some block is still to be read that was passed by, and its *)
(* place is where the next bytes of standard input will go.                 *)
LEMMA AheadSkips ==
  ASSUME OrderInv, Running, phase = "blocks", NEW base \in Nat, NEW nl \in Nat,
         DOMAIN conf.layout = 1 .. nl, need \subseteq 1 .. nl, NEW b \in need, Due(b),
         NEW n, GoodAt(n, base, nl, "blocks", Done, blk), Ahead(n, HeadAt(b))
  PROVE  SkipsBack(conf.layout) /\ \E x \in need \ {b} : n.len = HeadAt(x)
<1>1. Done # {}
  <2>1. SUFFICES ASSUME Done = {} PROVE FALSE
    OBVIOUS
  <2>2. PICK last \in 0 .. nl : LastRead(last, {}) /\ Reach(n, last, "blocks", blk)
    BY <2>1 DEF GoodAt
  <2>3. last = 0
    BY <2>2 DEF LastRead
  <2>4. n.len = 3 /\ n.ofs = 3
    BY <2>2, <2>3 DEF Reach, HeadLen
  <2>. QED  BY <2>4 DEF Ahead
<1>2. blk \in Done /\ Done \in SUBSET (1 .. nl) /\ b \in 1 .. nl
  BY <1>1 DEF OrderInv, Done
<1>3. PICK q \in Done, x \in 1 .. nl :
           blk < q /\ q < x /\ x < b /\ x \notin Done /\ n.len = HeadAt(x)
  <2>1. Passes(n, nl, Done, blk, b)
    BY <1>2, HeadSkips
  <2>. QED  BY <2>1, Zenon DEF Passes
<1>4. x \in need
  BY <1>3 DEF Done
<1>5. SkipsBack(conf.layout)
  BY <1>2, <1>3, <1>4, SkippedBack
<1>6. x # b
  BY <1>3
<1>. QED  BY <1>3, <1>4, <1>5, <1>6

(* The head of block b is read, after a seek that makes s of the input.     *)
HeadStep(b, s) ==
  /\ b \in need /\ Due(b) /\ s = read_seekto(inp, start + HeadAt(b) - 1)
  /\ inp' = read_1g(s, 1)
  /\ Gets(s, 1, ChunkStart + HeadAt(b)) => fate' = "run"
  /\ ~Gets(s, 1, ChunkStart + HeadAt(b)) => fate' = "garbage"
  /\ blk' = b /\ need' = need \ {b}

LEMMA HeadSteps ==
  ASSUME FillHead
  PROVE  /\ Running /\ phase = "blocks" /\ phase \in Reading /\ phase' = "data"
         /\ start' = start /\ conf' = conf /\ chunk' = chunk
         /\ \E b, s : HeadStep(b, s)
<1>1. /\ Running /\ phase = "blocks"
      /\ start' = start /\ conf' = conf /\ chunk' = chunk
  BY DEF FillHead
<1>2. PICK b \in need : /\ Due(b)
                        /\ Take(read_seekto(inp, start + HeadAt(b) - 1), HeadAt(b), 1, "data")
                        /\ blk' = b /\ need' = need \ {b}
  BY Zenon DEF FillHead, HeadAt
<1>3. PICK s : s = read_seekto(inp, start + HeadAt(b) - 1)
  OBVIOUS
<1>4. /\ inp' = read_1g(s, 1) /\ phase' = "data"
      /\ Gets(s, 1, ChunkStart + HeadAt(b)) => fate' = "run"
      /\ ~Gets(s, 1, ChunkStart + HeadAt(b)) => fate' = "garbage"
  BY <1>2, <1>3, TakeIs, Zenon
<1>5. HeadStep(b, s)
  BY <1>2, <1>3, <1>4, Zenon DEF HeadStep
<1>6. phase \in Reading
  BY <1>1 DEF Reading
<1>. QED  BY <1>1, <1>4, <1>5, <1>6, Zenon

(* Where the head of a block is. *)
HeadFits(b, base, cl, nl, z, pos) ==
  /\ pos = HeadAt(b) /\ pos = 1 + 2 * b /\ b \in 1 .. nl
  /\ pos + 2 <= cl /\ base + pos + 2 <= z

LEMMA HeadPlace ==
  ASSUME NEW base \in Nat, NEW cl \in Nat, NEW nl \in Nat, NEW m \in Nat, NEW c \in Nat,
         NEW z \in Nat, InPlace(base, cl, nl, m, c, z), NEW b \in 1 .. nl
  PROVE  \E pos \in Nat \ {0} : HeadFits(b, base, cl, nl, z, pos)
<1>1. base + cl + 1 <= z /\ cl = 3 + 2 * nl
  BY Zenon DEF InPlace
<1>2. HeadAt(b) = 1 + 2 * b /\ HeadAt(b) \in Nat \ {0}
  BY HeadAtIs
<1>3. PICK pos \in Nat \ {0} : pos = HeadAt(b) /\ pos = 1 + 2 * b
  BY <1>2, Zenon
<1>4. pos + 2 <= cl /\ base + pos + 2 <= z
  BY <1>1, <1>3
<1>. QED  BY <1>3, <1>4, Zenon DEF HeadFits

LEMMA FillHeadOn ==
  ASSUME ConfInv, PlaceInv, OrderInv, InInv, Read, FillHead, inp.on
  PROVE  InInv' /\ StdinFaithful'
<1>1. /\ Running /\ phase = "blocks" /\ phase \in Reading /\ phase' = "data"
      /\ start' = start /\ conf' = conf /\ chunk' = chunk
  BY HeadSteps
<1>2. PICK b, s : HeadStep(b, s)
  BY HeadSteps
<1>3. /\ Fits1g(inp) /\ ~inp.eof /\ conf.stdin /\ OnSound(inp, ChunkStart)
      /\ inp.max \in Nat \ {0}
  BY <1>1, InState
<1>4. PICK base, cl, nl, m, c, z \in Nat : InPlace(base, cl, nl, m, c, z)
  BY <1>1, InState
<1>5. /\ base = ChunkStart /\ cl = ChunkLen(conf.layout) /\ nl = Len(conf.layout)
      /\ z = Len(inp.all) /\ DOMAIN conf.layout = 1 .. nl
  BY <1>4, Zenon DEF InPlace
<1>6. need \subseteq 1 .. nl /\ b \in need /\ b \in 1 .. nl /\ Due(b)
  BY <1>2, <1>5 DEF PlaceInv, HeadStep
<1>7. PICK pos \in Nat \ {0} : HeadFits(b, base, cl, nl, z, pos)
  BY <1>4, <1>6, HeadPlace
<1>8. ChunkStart' = base
  BY <1>1, <1>5 DEF ChunkStart
<1>9. Taken(inp, base) /\ start = 1 /\ Begun(inp, base) /\ (Good(inp, base) \/ Lost(inp, base))
  BY <1>1, <1>3, <1>5 DEF OnSound
<1>10. pos = HeadAt(b) /\ InArchive(inp, base, pos)
  <2>1. base + pos + 2 <= z
    BY <1>7, Zenon DEF HeadFits
  <2>2. base + pos + 1 <= z
    BY <2>1
  <2>. QED  BY <1>5, <1>7, <2>2, Zenon DEF HeadFits, InArchive
<1>11. s = read_seekto(inp, pos) /\ inp' = read_1g(s, 1)
  <2>1. 1 + pos - 1 = pos
    OBVIOUS
  <2>2. s = read_seekto(inp, start + HeadAt(b) - 1) /\ inp' = read_1g(s, 1)
    BY <1>2 DEF HeadStep
  <2>. QED  BY <1>9, <1>10, <2>1, <2>2, Zenon
<1>12. /\ Gets(s, 1, base + pos) => fate' = "run"
       /\ ~Gets(s, 1, base + pos) => fate' = "garbage"
  BY <1>2, <1>5, <1>10, Zenon DEF HeadStep
<1>13. /\ Same(inp', inp)
       /\ Gets(s, 1, base + pos) =>
            /\ Fits1g(inp') /\ ~inp'.eof
            /\ \/ Grown(inp', inp, base, pos) \/ Worse(inp', inp, base, pos)
               \/ Shunted(inp', inp, base, pos) /\ NotBefore(inp, pos) /\ inp.max < pos
       /\ ~Gets(s, 1, base + pos) =>
            pos + 1 > inp.max \/ Ahead(inp, pos) \/ ~Filled(inp, base)
  <2>1. PICK r : r = read_1g(s, 1)
    OBVIOUS
  <2>2. /\ Same(r, inp)
        /\ Gets(s, 1, base + pos) =>
             /\ Fits1g(r) /\ ~r.eof
             /\ \/ Grown(r, inp, base, pos) \/ Worse(r, inp, base, pos)
                \/ Shunted(r, inp, base, pos) /\ NotBefore(inp, pos) /\ inp.max < pos
        /\ ~Gets(s, 1, base + pos) =>
             pos + 1 > inp.max \/ Ahead(inp, pos) \/ ~Filled(inp, base)
    BY <1>3, <1>9, <1>10, <1>11, <2>1, HeadRead
  <2>. QED  BY <1>11, <2>1, <2>2, Zenon
<1>14. Good(inp, base) => GoodAt(inp, base, nl, "blocks", Done, blk) /\ Filled(inp, base)
  BY <1>1, <1>5 DEF Good, GoodAt
<1>15. Good(inp, base) /\ Ahead(inp, pos) =>
         SkipsBack(conf.layout) /\ \E x \in need \ {b} : inp.len = HeadAt(x)
  BY <1>1, <1>5, <1>6, <1>10, <1>14, AheadSkips
<1>16. Lost(inp, base) => SkipsBack(conf.layout) /\ \E x \in need : Spoilt(inp, base, HeadAt(x))
  BY DEF Lost
<1>17. PICK x \in Nat : x = inp.max
  BY <1>3
<1>18. \A y \in need : HeadAt(y) \in Nat
  BY <1>6, HeadAtIs
<1>19. Done \cup {b} = Done' /\ Done \in SUBSET (1 .. nl) /\ b \notin Done
  <2>1. need' = need \ {b}
    BY <1>2 DEF HeadStep
  <2>. QED  BY <1>1, <1>5, <1>6, <2>1 DEF Done
<1>20. CASE ~Gets(s, 1, base + pos)
  <2>1. Tight(inp)
    <3>1. CASE pos + 1 > inp.max
      <4>1. x < cl
        <5>1. pos + 2 <= cl
          BY <1>7, Zenon DEF HeadFits
        <5>. QED  BY <1>17, <3>1, <5>1
      <4>. QED  BY <1>5, <1>17, <4>1 DEF Tight
    <3>2. CASE Ahead(inp, pos) \/ ~Filled(inp, base)
      BY <1>9, <1>14, <1>15, <1>16, <3>2 DEF Tight
    <3>. QED  BY <1>13, <1>20, <3>1, <3>2
  <2>. QED  BY <1>1, <1>3, <1>12, <1>13, <1>20, <2>1, InStopped
<1>21. CASE Gets(s, 1, base + pos)
  <2>1. /\ Fits1g(inp') /\ ~inp'.eof
        /\ \/ Grown(inp', inp, base, pos) \/ Worse(inp', inp, base, pos)
           \/ Shunted(inp', inp, base, pos) /\ NotBefore(inp, pos) /\ inp.max < pos
    BY <1>13, <1>21
  <2>2. StdinFaithful'
    BY <1>12, <1>21 DEF StdinFaithful
  <2>3. blk' = b /\ need' = need \ {b}
    BY <1>2 DEF HeadStep
  <2>4. phase' \in Reading /\ phase' # "tokens" /\ (inp'.on => conf.stdin)
    BY <1>1, <1>3 DEF Reading
  <2>5. ASSUME inp'.on, Kept(inp', inp, base), inp'.ofs = pos + 1,
               \/ GoodAt(inp', base, nl, "data", Done', b)
               \/ SkipsBack(conf.layout) /\ \E y \in need \ {b} : Spoilt(inp', base, HeadAt(y))
        PROVE  OnSound(inp, ChunkStart)'
    <3>1. Taken(inp', base) /\ Begun(inp', base) /\ start' = 1
      BY <1>1, <1>9, <2>5 DEF Kept
    <3>2. inp'.ofs = HeadAt(blk') + 1
      BY <1>10, <2>3, <2>5
    <3>3. CASE GoodAt(inp', base, nl, "data", Done', b)
      <4>1. Good(inp, ChunkStart)'
        BY <1>1, <1>5, <1>8, <2>3, <3>3 DEF Good
      <4>. QED  BY <1>1, <1>8, <3>1, <3>2, <4>1 DEF OnSound
    <3>4. CASE SkipsBack(conf.layout) /\ \E y \in need \ {b} : Spoilt(inp', base, HeadAt(y))
      <4>1. Lost(inp, ChunkStart)'
        BY <1>1, <1>8, <2>3, <3>4 DEF Lost
      <4>. QED  BY <1>1, <1>8, <3>1, <3>2, <4>1 DEF OnSound
    <3>. QED  BY <2>5, <3>3, <3>4
  <2>6. CASE Grown(inp', inp, base, pos)
    <3>1. inp'.on /\ Kept(inp', inp, base) /\ inp'.ofs = pos + 1 /\ ~Spoilt(inp, base, pos)
      BY <2>6, Zenon DEF Grown
    <3>2. Good(inp, base) => GoodAt(inp', base, nl, "data", Done', b)
      BY <1>6, <1>10, <1>14, <1>19, <2>6, HeadGood
    <3>3. ASSUME Lost(inp, base)
          PROVE  SkipsBack(conf.layout) /\ \E y \in need \ {b} : Spoilt(inp', base, HeadAt(y))
      <4>1. PICK y \in need : Spoilt(inp, base, HeadAt(y))
        BY <1>16, <3>3
      <4>2. y # b
        BY <1>10, <3>1, <4>1
      <4>3. Spoilt(inp', base, HeadAt(y))
        BY <1>18, <3>1, <4>1 DEF Kept
      <4>. QED  BY <1>16, <3>3, <4>2, <4>3
    <3>4. OnSound(inp, ChunkStart)'
      BY <1>9, <2>5, <3>1, <3>2, <3>3
    <3>5. InInv'
      BY <1>1, <1>13, <2>1, <2>4, <3>1, <3>4, InNext
    <3>. QED  BY <2>2, <3>5
  <2>7. CASE Worse(inp', inp, base, pos)
    <3>1. /\ inp'.on /\ Kept(inp', inp, base) /\ inp'.ofs = pos + 1 /\ Ahead(inp, pos)
          /\ Spoilt(inp', base, inp.len)
      BY <2>7, Zenon DEF Worse
    <3>2. SkipsBack(conf.layout) /\ \E y \in need \ {b} : Spoilt(inp', base, HeadAt(y))
      <4>1. CASE Good(inp, base)
        BY <1>15, <3>1, <4>1
      <4>2. CASE Lost(inp, base)
        <5>1. PICK y \in need : Spoilt(inp, base, HeadAt(y))
          BY <1>16, <4>2
        <5>2. HeadAt(y) < inp.len /\ inp.len < pos
          BY <3>1, <5>1 DEF Spoilt, Ahead
        <5>3. y # b
          <6>1. inp.len \in Nat
            BY <1>3 DEF Fits1g, InRec
          <6>. QED  BY <1>10, <5>2, <6>1
        <5>4. Spoilt(inp', base, HeadAt(y))
          BY <1>18, <3>1, <5>1 DEF Kept
        <5>. QED  BY <1>16, <4>2, <5>3, <5>4
      <4>. QED  BY <1>9, <4>1, <4>2
    <3>3. OnSound(inp, ChunkStart)'
      BY <2>5, <3>1, <3>2
    <3>4. InInv'
      BY <1>1, <1>13, <2>1, <2>4, <3>1, <3>3, InNext
    <3>. QED  BY <2>2, <3>4
  <2>8. CASE Shunted(inp', inp, base, pos) /\ NotBefore(inp, pos) /\ inp.max < pos
    <3>1. /\ ~inp'.on /\ inp'.pos = pos + 1
          /\ Filled(inp, base) => Suffix(inp', base)
          /\ \A p \in Nat : Spoilt(inp, base, p) => Missing(inp', base, p)
      BY <2>8, Zenon DEF Shunted
    <3>2. Tight(inp)'
      <4>1. pos + 2 <= cl
        BY <1>7, Zenon DEF HeadFits
      <4>2. x < cl
        BY <1>17, <2>8, <4>1
      <4>3. inp'.max < ChunkLen(conf.layout)
        BY <1>5, <1>13, <1>17, <4>2 DEF Same
      <4>. QED  BY <1>1, <4>3 DEF Tight
    <3>3. base - base = 0 /\ 0 + 1 = 1 /\ base \in 0 .. base
      OBVIOUS
    <3>4. start' = base - base + 1
      BY <1>1, <1>9, <3>3
    <3>5. inp'.pos = base - base + PosOff'
      <4>1. PosOff' = pos + 1
        BY <1>1, <1>10, <2>3 DEF PosOff
      <4>2. 0 + (pos + 1) = pos + 1
        OBVIOUS
      <4>. QED  BY <3>1, <3>3, <4>1, <4>2
    <3>6. Suffix(inp', base) \/ LostInFile(inp, base, base)'
      <4>1. CASE Good(inp, base)
        BY <1>14, <3>1, <4>1
      <4>2. CASE Lost(inp, base)
        <5>1. PICK y \in need : Spoilt(inp, base, HeadAt(y))
          BY <1>16, <4>2
        <5>2. HeadAt(y) < inp.len /\ inp.len <= pos
          BY <2>8, <5>1 DEF Spoilt, NotBefore
        <5>3. y # b
          <6>1. inp.len \in Nat
            BY <1>3 DEF Fits1g, InRec
          <6>. QED  BY <1>10, <5>2, <6>1
        <5>4. HeadAt(y) \in Nat /\ 0 + HeadAt(y) = HeadAt(y)
          BY <1>18
        <5>5. Missing(inp', base, base - base + HeadAt(y))
          BY <3>1, <3>3, <5>1, <5>4
        <5>6. y \in need'
          BY <2>3, <5>3
        <5>. QED  BY <1>1, <1>3, <1>16, <4>2, <5>5, <5>6, Zenon DEF LostInFile
      <4>. QED  BY <1>9, <4>1, <4>2
    <3>7. OffSound(inp, ChunkStart)'
      BY <1>1, <1>3, <1>8, <3>2, <3>3, <3>4, <3>5, <3>6, Zenon DEF OffSound
    <3>8. InInv'
      BY <1>1, <1>13, <2>1, <2>4, <3>1, <3>7, InNext
    <3>. QED  BY <2>2, <3>8
  <2>. QED  BY <2>1, <2>6, <2>7, <2>8
<1>. QED  BY <1>20, <1>21
(* A read of one byte from the file.                                        *)
LEMMA FileByte ==
  ASSUME NEW n, Fits1g(n), ~n.on, ~n.eof, NEW p \in Nat, n.pos = p, NEW v \in Nat,
         NEW r, r = read_1g(n, 1)
  PROVE  /\ Fits1g(r) /\ Same(r, n) /\ ~r.on /\ r.pos = p + 1 /\ r.file = n.file
         /\ Gets(n, 1, v) => ~r.eof /\ p + 1 \in 1 .. Len(n.file) /\ n.file[p + 1] = v + 1
<1>1. 1 \in Nat \ {0}
  OBVIOUS
<1>2. /\ Fits1g(r) /\ Same(r, n) /\ ~r.on /\ r.pos = n.pos + 1 /\ r.file = n.file
      /\ Gets(n, 1, v) <=> Right(n.file, n.pos, 1, v)
  BY <1>1, ReadOff
<1>3. ASSUME Right(n.file, p, 1, v) PROVE p + 1 \in 1 .. Len(n.file) /\ n.file[p + 1] = v + 1
  <2>1. Len(n.file) \in Nat
    BY LenProperties DEF Fits1g, InRec
  <2>2. 1 \in 1 .. 1
    OBVIOUS
  <2>. QED  BY <1>3, <2>1, <2>2 DEF Right
<1>. QED  BY <1>2, <1>3 DEF Gets

(* What is behind in a file, or not, is so at the byte that was read.       *)
Behind(p, base, o, pos) == p = base - o + pos

LEMMA FileGoesOn ==
  ASSUME NEW n, Fits1g(n), ~n.on, ~n.eof, NEW base \in Nat, NEW o \in 0 .. base, NEW pos \in Nat,
         NEW p \in Nat, n.pos = p, Behind(p, base, o, pos), InArchive(n, base, pos),
         NEW r, r = read_1g(n, 1)
  PROVE  /\ Fits1g(r) /\ Same(r, n) /\ ~r.on /\ r.pos = p + 1 /\ r.file = n.file
         /\ Gets(n, 1, base + pos) => ~r.eof /\ ~Missing(n, o, p)
         /\ Suffix(n, o) => Gets(n, 1, base + pos)
<1>1. PICK v \in Nat : v = base + pos
  OBVIOUS
<1>2. p = base - o + pos
  BY Zenon DEF Behind
<1>3. o + p = v /\ o \in Nat /\ o + p + 1 = v + 1
  BY <1>1, <1>2
<1>4. /\ Fits1g(r) /\ Same(r, n) /\ ~r.on /\ r.pos = p + 1 /\ r.file = n.file
      /\ Gets(n, 1, v) => ~r.eof /\ p + 1 \in 1 .. Len(n.file) /\ n.file[p + 1] = v + 1
  BY FileByte
<1>5. Gets(n, 1, v) => ~r.eof /\ ~Missing(n, o, p)
  <2>1. SUFFICES ASSUME Gets(n, 1, v) PROVE ~r.eof /\ ~Missing(n, o, p)
    OBVIOUS
  <2>2. ~r.eof /\ p + 1 \in 1 .. Len(n.file) /\ n.file[p + 1] = o + p + 1
    BY <1>3, <1>4, <2>1
  <2>. QED  BY <2>2, Zenon DEF Missing
<1>6. Suffix(n, o) => Gets(n, 1, v)
  <2>1. SUFFICES ASSUME Suffix(n, o) PROVE Gets(n, 1, v)
    OBVIOUS
  <2>2. v + 1 <= Len(n.all)
    BY <1>1, Zenon DEF InArchive
  <2>3. Within(n, o, p, 1)
    BY <1>3, <2>2, Zenon DEF Within
  <2>4. 1 \in Nat \ {0}
    OBVIOUS
  <2>5. Gets(n, 1, o + p)
    BY <1>3, <2>1, <2>3, <2>4, SuffixGets
  <2>. QED  BY <1>3, <2>5, Zenon
<1>. QED  BY <1>1, <1>4, <1>5, <1>6, Zenon

LEMMA FillHeadOff ==
  ASSUME ConfInv, PlaceInv, OrderInv, InInv, Read, FillHead, ~inp.on
  PROVE  InInv' /\ StdinFaithful'
<1>1. /\ Running /\ phase = "blocks" /\ phase \in Reading /\ phase' = "data"
      /\ start' = start /\ conf' = conf /\ chunk' = chunk
  BY HeadSteps
<1>2. PICK b, s : HeadStep(b, s)
  BY HeadSteps
<1>3. Fits1g(inp) /\ ~inp.eof /\ OffSound(inp, ChunkStart)
  BY <1>1, InState
<1>4. PICK base, cl, nl, m, c, z \in Nat : InPlace(base, cl, nl, m, c, z)
  BY <1>1, InState
<1>5. /\ base = ChunkStart /\ cl = ChunkLen(conf.layout) /\ nl = Len(conf.layout)
      /\ z = Len(inp.all) /\ DOMAIN conf.layout = 1 .. nl
  BY <1>4, Zenon DEF InPlace
<1>6. need \subseteq 1 .. nl /\ b \in need /\ b \in 1 .. nl /\ blk' = b /\ need' = need \ {b}
  BY <1>2, <1>5 DEF PlaceInv, HeadStep
<1>7. PICK pos \in Nat \ {0} : HeadFits(b, base, cl, nl, z, pos)
  BY <1>4, <1>6, HeadPlace
<1>8. ChunkStart' = base
  BY <1>1, <1>5 DEF ChunkStart
<1>9. PICK o \in 0 .. base :
        /\ ~conf.stdin => o = 0
        /\ start = base - o + 1
        /\ Suffix(inp, o) \/ LostInFile(inp, base, o)
  BY <1>1, <1>3, <1>5 DEF OffSound
<1>10. pos = HeadAt(b) /\ base + pos + 1 <= Len(inp.all)
  <2>1. base + pos + 2 <= z
    BY <1>7, Zenon DEF HeadFits
  <2>2. base + pos + 1 <= z
    BY <2>1
  <2>. QED  BY <1>5, <1>7, <2>2, Zenon DEF HeadFits
<1>11. PICK p \in Nat : Behind(p, base, o, pos) /\ p = start + HeadAt(b) - 1
  <2>1. base - o + pos \in Nat /\ base - o + pos = base - o + 1 + pos - 1
    OBVIOUS
  <2>. QED  BY <1>9, <1>10, <2>1, Zenon DEF Behind
<1>12. s = [inp EXCEPT !.pos = p] /\ inp' = read_1g(s, 1)
  BY <1>2, <1>11 DEF HeadStep, read_seekto
<1>13. /\ s \in InRec /\ s.pos = p /\ s.all = inp.all /\ s.max = inp.max /\ s.on = inp.on
       /\ s.eof = inp.eof /\ s.file = inp.file
  <2>1. inp \in InRec
    BY <1>3 DEF Fits1g
  <2>. QED  BY <1>12, <2>1, SetPos
<1>14. Fits1g(s) /\ ~s.on /\ ~s.eof /\ InArchive(s, base, pos) /\ (Suffix(inp, o) => Suffix(s, o))
  BY <1>3, <1>10, <1>13 DEF Fits1g, InArchive, Suffix
<1>15. PICK r : r = read_1g(s, 1)
  OBVIOUS
<1>16. /\ Fits1g(r) /\ Same(r, s) /\ ~r.on /\ r.pos = p + 1 /\ r.file = s.file
       /\ Gets(s, 1, base + pos) => ~r.eof /\ ~Missing(s, o, p)
       /\ Suffix(s, o) => Gets(s, 1, base + pos)
  BY <1>11, <1>13, <1>14, <1>15, FileGoesOn
<1>17. /\ Gets(s, 1, base + pos) => fate' = "run"
       /\ ~Gets(s, 1, base + pos) => fate' = "garbage"
  BY <1>2, <1>5, <1>10, Zenon DEF HeadStep
<1>18. /\ Fits1g(inp') /\ Same(inp', inp) /\ ~inp'.on /\ inp'.pos = p + 1
       /\ inp'.file = inp.file
  BY <1>12, <1>13, <1>15, <1>16 DEF Same
<1>19. conf.stdin => Tight(inp)
  BY <1>3 DEF OffSound
<1>20. CASE ~Gets(s, 1, base + pos)
  <2>1. conf.stdin
    BY <1>9, <1>14, <1>16, <1>20 DEF LostInFile
  <2>. QED  BY <1>1, <1>17, <1>18, <1>19, <1>20, <2>1, InStopped
<1>21. CASE Gets(s, 1, base + pos)
  <2>1. ~inp'.eof /\ ~Missing(inp, o, p)
    BY <1>12, <1>13, <1>15, <1>16, <1>21 DEF Missing
  <2>2. StdinFaithful'
    BY <1>17, <1>21 DEF StdinFaithful
  <2>3. phase' \in Reading /\ phase' # "tokens"
    BY <1>1 DEF Reading
  <2>4. Suffix(inp', o) \/ LostInFile(inp, base, o)'
    <3>1. CASE Suffix(inp, o)
      BY <1>18, <3>1 DEF Suffix, Same
    <3>2. CASE LostInFile(inp, base, o)
      <4>1. PICK x \in need : Missing(inp, o, base - o + HeadAt(x))
        BY <3>2 DEF LostInFile
      <4>2. x # b
        BY <1>10, <1>11, <2>1, <4>1, Zenon DEF Behind
      <4>3. Missing(inp', o, base - o + HeadAt(x)) /\ x \in need'
        BY <1>6, <1>18, <4>1, <4>2 DEF Missing
      <4>4. conf.stdin /\ SkipsBack(conf.layout)
        BY <3>2 DEF LostInFile
      <4>. QED  BY <1>1, <4>3, <4>4, Zenon DEF LostInFile
    <3>. QED  BY <1>9, <3>1, <3>2
  <2>5. inp'.pos = base - o + PosOff'
    <3>1. PosOff' = pos + 1
      BY <1>1, <1>6, <1>10 DEF PosOff
    <3>2. p = base - o + pos
      BY <1>11, Zenon DEF Behind
    <3>3. p + 1 = base - o + (pos + 1)
      BY <3>2
    <3>. QED  BY <1>18, <3>1, <3>3
  <2>6. (conf.stdin => Tight(inp))'
    BY <1>1, <1>18, <1>19 DEF Tight, Same
  <2>7. start' = base - o + 1 /\ (~conf.stdin => o = 0)'
    BY <1>1, <1>9
  <2>8. OffSound(inp, ChunkStart)'
    BY <1>1, <1>8, <2>4, <2>5, <2>6, <2>7, Zenon DEF OffSound
  <2>9. InInv'
    BY <1>1, <1>18, <2>1, <2>3, <2>8, InNext
  <2>. QED  BY <2>2, <2>9
<1>. QED  BY <1>20, <1>21
(* The data of the block whose head was read, at the byte behind the head.  *)
DataFits(base, cl, z, pos) == pos = HeadAt(blk) + 1 /\ pos + 1 <= cl /\ base + pos + 1 <= z

LEMMA DataSteps ==
  ASSUME PlaceInv, OrderInv, FillData, NEW base \in Nat, NEW cl \in Nat, NEW nl \in Nat,
         NEW m \in Nat, NEW c \in Nat, NEW z \in Nat, InPlace(base, cl, nl, m, c, z)
  PROVE  /\ blk \in Done /\ Done \in SUBSET (1 .. nl) /\ Done' = Done
         /\ phase' = IF need = {} THEN "tokens" ELSE "blocks"
         /\ start' = start /\ conf' = conf /\ blk' = blk /\ need' = need /\ ChunkStart' = base
         /\ \E pos \in Nat \ {0} :
              /\ DataFits(base, cl, z, pos)
              /\ inp' = read_1g(inp, 1)
              /\ Gets(inp, 1, base + pos) => fate' = "run"
              /\ ~Gets(inp, 1, base + pos) => fate' = "garbage"
<1>1. /\ Running /\ phase = "data" /\ conf' = conf /\ chunk' = chunk /\ blk' = blk
      /\ need' = need /\ start' = start
      /\ Take(inp, HeadAt(blk) + 1, 1, IF need = {} THEN "tokens" ELSE "blocks")
  BY Zenon DEF FillData, HeadAt
<1>2. base = ChunkStart /\ DOMAIN conf.layout = 1 .. nl
  BY Zenon DEF InPlace
<1>3. blk \in Done /\ Done \in SUBSET (1 .. nl) /\ Done' = Done
  BY <1>1, <1>2 DEF OrderInv, Done
<1>4. blk \in 1 .. nl
  BY <1>3
<1>5. PICK h \in Nat \ {0} : HeadFits(blk, base, cl, nl, z, h)
  BY <1>4, HeadPlace
<1>6. PICK pos \in Nat \ {0} : pos = h + 1 /\ pos = HeadAt(blk) + 1
  <2>1. h + 1 \in Nat \ {0} /\ h = HeadAt(blk)
    BY <1>5 DEF HeadFits
  <2>. QED  BY <2>1, Zenon
<1>7. DataFits(base, cl, z, pos)
  <2>1. h + 2 <= cl /\ base + h + 2 <= z
    BY <1>5, Zenon DEF HeadFits
  <2>2. pos + 1 <= cl /\ base + pos + 1 <= z
    BY <1>6, <2>1
  <2>. QED  BY <1>6, <2>2, Zenon DEF DataFits
<1>8. /\ inp' = read_1g(inp, 1)
      /\ phase' = IF need = {} THEN "tokens" ELSE "blocks"
      /\ Gets(inp, 1, base + pos) => fate' = "run"
      /\ ~Gets(inp, 1, base + pos) => fate' = "garbage"
  <2>1. PICK next : next = IF need = {} THEN "tokens" ELSE "blocks"
    OBVIOUS
  <2>2. Take(inp, pos, 1, next)
    BY <1>1, <1>6, <2>1
  <2>3. /\ inp' = read_1g(inp, 1) /\ phase' = next
        /\ Gets(inp, 1, ChunkStart + pos) => fate' = "run"
        /\ ~Gets(inp, 1, ChunkStart + pos) => fate' = "garbage"
    BY <2>2, TakeIs, Zenon
  <2>. QED  BY <1>2, <2>1, <2>3
<1>9. ChunkStart' = base
  BY <1>1, <1>2 DEF ChunkStart
<1>. QED  BY <1>1, <1>3, <1>7, <1>8, <1>9, Zenon

LEMMA FillDataIn ==
  ASSUME ConfInv, PlaceInv, OrderInv, InInv, Read, FillData
  PROVE  InInv' /\ StdinFaithful'
<1>1. Running /\ phase = "data" /\ phase \in Reading
  BY DEF FillData, Reading
<1>2. /\ Fits1g(inp) /\ ~inp.eof
      /\ inp.on => conf.stdin /\ OnSound(inp, ChunkStart)
      /\ ~inp.on => OffSound(inp, ChunkStart)
      /\ conf.stdin => inp.max \in Nat \ {0}
  BY <1>1, InState
<1>3. PICK base, cl, nl, m, c, z \in Nat : InPlace(base, cl, nl, m, c, z)
  BY <1>1, InState
<1>4. /\ base = ChunkStart /\ cl = ChunkLen(conf.layout) /\ nl = Len(conf.layout)
      /\ z = Len(inp.all)
  BY <1>3, Zenon DEF InPlace
<1>5. /\ blk \in Done /\ Done \in SUBSET (1 .. nl) /\ Done' = Done
      /\ phase' = IF need = {} THEN "tokens" ELSE "blocks"
      /\ start' = start /\ conf' = conf /\ blk' = blk /\ need' = need /\ ChunkStart' = base
  BY <1>3, DataSteps
<1>6. PICK pos \in Nat \ {0} :
        /\ DataFits(base, cl, z, pos)
        /\ inp' = read_1g(inp, 1)
        /\ Gets(inp, 1, base + pos) => fate' = "run"
        /\ ~Gets(inp, 1, base + pos) => fate' = "garbage"
  BY <1>3, DataSteps
<1>7. pos = HeadAt(blk) + 1 /\ InArchive(inp, base, pos)
  BY <1>4, <1>6, Zenon DEF DataFits, InArchive
<1>8. PICK r : r = read_1g(inp, 1)
  OBVIOUS
<1>9. inp' = r
  BY <1>6, <1>8
<1>10. /\ phase' \in Reading /\ phase' \in {"blocks", "tokens"}
       /\ phase' = "tokens" <=> need = {}
  BY <1>5 DEF Reading
<1>11. Gets(inp, 1, base + pos) => StdinFaithful'
  BY <1>6 DEF StdinFaithful
<1>12. CASE inp.on
  <2>1. /\ Taken(inp, base) /\ start = 1 /\ Begun(inp, base)
        /\ Good(inp, base) \/ Lost(inp, base)
        /\ At(inp, pos) /\ conf.stdin
    BY <1>1, <1>2, <1>4, <1>7, <1>12 DEF OnSound, At
  <2>2. /\ Same(r, inp)
        /\ Gets(inp, 1, base + pos) => Fits1g(r) /\ ~r.eof /\ ReadFacts(r, inp, base, pos)
        /\ ~Gets(inp, 1, base + pos) => pos + 1 > inp.max \/ ~Filled(inp, base)
    BY <1>2, <1>7, <1>8, <1>12, <2>1, ReadAt
  <2>3. Good(inp, base) => GoodAt(inp, base, nl, "data", Done, blk) /\ Filled(inp, base)
    BY <1>1, <1>4 DEF Good, GoodAt
  <2>4. CASE ~Gets(inp, 1, base + pos)
    <3>1. Tight(inp)
      <4>1. CASE pos + 1 > inp.max
        <5>1. PICK x \in Nat : x = inp.max
          BY <1>2, <2>1
        <5>2. pos + 1 <= cl
          BY <1>6, Zenon DEF DataFits
        <5>3. x < cl
          BY <4>1, <5>1, <5>2
        <5>. QED  BY <1>4, <5>1, <5>3 DEF Tight
      <4>2. CASE ~Filled(inp, base)
        BY <2>1, <2>3, <4>2 DEF Tight, Lost
      <4>. QED  BY <2>2, <2>4, <4>1, <4>2
    <3>. QED  BY <1>5, <1>6, <1>9, <2>1, <2>2, <2>4, <3>1, InStopped
  <2>5. CASE Gets(inp, 1, base + pos)
    <3>1. Fits1g(inp') /\ Same(inp', inp) /\ ~inp'.eof /\ ReadFacts(inp', inp, base, pos)
      BY <1>9, <2>2, <2>5
    <3>2. inp'.on /\ Kept(inp', inp, base)
      BY <3>1, Zenon DEF ReadFacts
    <3>3. Good(inp, base) => Good(inp, ChunkStart)'
      <4>1. SUFFICES ASSUME Good(inp, base) PROVE Good(inp, ChunkStart)'
        OBVIOUS
      <4>2. GoodAt(inp', base, nl, phase', Done, blk)
        BY <1>5, <1>7, <1>10, <2>1, <2>3, <3>1, <4>1, DataGood
      <4>. QED  BY <1>4, <1>5, <4>2, Zenon DEF Good
    <3>4. Lost(inp, base) => Lost(inp, ChunkStart)'
      <4>1. SUFFICES ASSUME Lost(inp, base) PROVE Lost(inp, ChunkStart)'
        OBVIOUS
      <4>2. PICK x \in need : Spoilt(inp, base, HeadAt(x))
        BY <4>1 DEF Lost
      <4>3. HeadAt(x) \in Nat
        <5>1. x \in 1 .. nl
          BY <1>3 DEF PlaceInv, InPlace
        <5>. QED  BY <5>1, HeadAtIs
      <4>4. Spoilt(inp', base, HeadAt(x)) /\ x \in need'
        BY <1>5, <3>2, <4>2, <4>3 DEF Kept
      <4>5. phase' = "blocks" /\ SkipsBack(conf.layout)
        BY <1>10, <4>1, <4>2 DEF Lost
      <4>. QED  BY <1>5, <4>4, <4>5, Zenon DEF Lost
    <3>5. OnSound(inp, ChunkStart)'
      <4>1. Taken(inp', base) /\ Begun(inp', base)
        BY <3>2 DEF Kept
      <4>2. phase' # "open" /\ phase' # "data"
        BY <1>10
      <4>. QED  BY <1>5, <2>1, <3>3, <3>4, <4>1, <4>2 DEF OnSound
    <3>6. InInv'
      BY <1>1, <1>5, <1>10, <2>1, <3>1, <3>2, <3>5, InNext
    <3>. QED  BY <1>11, <2>5, <3>6
  <2>. QED  BY <2>4, <2>5
<1>13. CASE ~inp.on
  <2>1. PICK o \in 0 .. base :
          /\ ~conf.stdin => o = 0
          /\ start = base - o + 1
          /\ inp.pos = base - o + PosOff
          /\ Suffix(inp, o) \/ LostInFile(inp, base, o)
    BY <1>1, <1>2, <1>4, <1>13 DEF OffSound
  <2>2. PICK p \in Nat : Behind(p, base, o, pos) /\ p = inp.pos
    <3>1. PosOff = pos
      BY <1>1, <1>7 DEF PosOff
    <3>2. base - o + pos \in Nat
      OBVIOUS
    <3>. QED  BY <2>1, <3>1, <3>2, Zenon DEF Behind
  <2>3. /\ Fits1g(r) /\ Same(r, inp) /\ ~r.on /\ r.file = inp.file
        /\ Gets(inp, 1, base + pos) => ~r.eof
        /\ Suffix(inp, o) => Gets(inp, 1, base + pos)
    BY <1>2, <1>7, <1>8, <1>13, <2>2, FileGoesOn
  <2>4. conf.stdin => Tight(inp)
    BY <1>2, <1>13 DEF OffSound
  <2>5. CASE ~Gets(inp, 1, base + pos)
    <3>1. conf.stdin
      BY <2>1, <2>3, <2>5 DEF LostInFile
    <3>. QED  BY <1>5, <1>6, <1>9, <2>3, <2>4, <2>5, <3>1, InStopped
  <2>6. CASE Gets(inp, 1, base + pos)
    <3>1. Suffix(inp', o) \/ LostInFile(inp, base, o)'
      <4>1. CASE Suffix(inp, o)
        BY <1>9, <2>3, <4>1 DEF Suffix, Same
      <4>2. CASE LostInFile(inp, base, o)
        <5>1. PICK x \in need : Missing(inp, o, base - o + HeadAt(x))
          BY <4>2 DEF LostInFile
        <5>2. Missing(inp', o, base - o + HeadAt(x)) /\ x \in need'
          BY <1>5, <1>9, <2>3, <5>1 DEF Missing
        <5>3. conf.stdin /\ SkipsBack(conf.layout) /\ phase' = "blocks"
          BY <1>10, <4>2, <5>1 DEF LostInFile
        <5>. QED  BY <1>5, <5>2, <5>3, Zenon DEF LostInFile
      <4>. QED  BY <2>1, <4>1, <4>2
    <3>2. (conf.stdin => Tight(inp))'
      BY <1>5, <1>9, <2>3, <2>4 DEF Tight, Same
    <3>3. /\ start' = base - o + 1 /\ (~conf.stdin => o = 0)'
          /\ phase' \notin {"open", "heads", "data"}
      BY <1>5, <1>10, <2>1
    <3>4. OffSound(inp, ChunkStart)'
      BY <1>5, <3>1, <3>2, <3>3, Zenon DEF OffSound
    <3>5. InInv'
      BY <1>1, <1>5, <1>9, <1>10, <2>3, <2>6, <3>4, InNext
    <3>. QED  BY <1>11, <2>6, <3>5
  <2>. QED  BY <2>5, <2>6
<1>. QED  BY <1>12, <1>13
(* What is left of the buffers behind a chunk.                              *)
LEMMA ClearIs ==
  ASSUME NEW n \in InRec, NEW r, r = clear_tmpinbuf(n)
  PROVE  /\ r \in InRec /\ r.len = 0 /\ r.ofs = 0 /\ r.all = n.all /\ r.max = n.max
         /\ r.on = n.on /\ r.eof = n.eof /\ r.mem = n.mem /\ r.src = n.src
  BY DEF clear_tmpinbuf, InRec

LEMMA ClearFileIs ==
  ASSUME NEW n \in InRec, NEW r, r = clear_tmpinfile(n)
  PROVE  /\ r \in InRec /\ r.file = << >> /\ r.all = n.all /\ r.max = n.max
         /\ r.on = n.on /\ r.eof = n.eof
<1>1. << >> \in Seq(Nat) /\ 0 \in Nat
  OBVIOUS
<1>. QED  BY <1>1 DEF clear_tmpinfile, InRec

(* The seek to the end of the chunk, and what becomes of the buffer there.  *)
AfterChunk(n) ==
  IF n.on THEN clear_tmpinbuf(n)
  ELSE IF conf.stdin /\ conf.mode = "test" THEN clear_tmpinfile(n) ELSE n

Between(n, base) == Taken(n, base) /\ n.len = 0

LEMMA EndInput ==
  ASSUME NEW n, Fits1g(n), n.on, ~n.eof, NEW base \in Nat, NEW cl \in Nat, Taken(n, base),
         n.len = cl, NEW next \in Nat, next = base + cl,
         NEW r, r = AfterChunk(read_seekto(n, cl))
  PROVE  Fits1g(r) /\ Same(r, n) /\ r.on /\ ~r.eof /\ Between(r, next)
<1>1. n \in InRec
  BY DEF Fits1g
<1>2. PICK s : s = read_seekto(n, cl)
  OBVIOUS
<1>3. s = [n EXCEPT !.ofs = cl]
  <2>1. ~(cl > cl)
    OBVIOUS
  <2>. QED  BY <1>2, <2>1 DEF read_seekto
<1>4. /\ s \in InRec /\ s.all = n.all /\ s.max = n.max /\ s.on = n.on
      /\ s.eof = n.eof /\ s.mem = n.mem /\ s.src = n.src
  BY <1>1, <1>3 DEF InRec
<1>5. r = clear_tmpinbuf(s)
  BY <1>2, <1>4 DEF AfterChunk
<1>6. /\ r \in InRec /\ r.len = 0 /\ r.ofs = 0 /\ r.all = n.all /\ r.max = n.max
      /\ r.on = n.on /\ r.eof = n.eof /\ r.mem = n.mem /\ r.src = n.src
  BY <1>4, <1>5, ClearIs
<1>7. PICK b \in Nat, m \in Seq(Nat), all \in Seq(Nat) :
        /\ b = n.len /\ m = n.mem /\ all = n.all
        /\ n.src = base + b /\ b <= Len(m) /\ base + b <= Len(all)
        /\ AllUpTo(m, base + b)
  BY TakenAre, Zenon
<1>8. b = cl /\ next = base + b
  BY <1>7
<1>9. next + 0 = next /\ 0 <= 0 /\ 0 <= Len(m) /\ next <= Len(all) /\ next = r.src
  BY <1>6, <1>7, <1>8, LenProperties
<1>10. AllUpTo(m, next) /\ 0 \in Nat
  BY <1>7, <1>8, Zenon
<1>11. Taken(r, next)
  BY <1>6, <1>7, <1>9, <1>10, IsTaken
<1>12. Fits1g(r) /\ Same(r, n)
  BY <1>6 DEF Fits1g, Same
<1>. QED  BY <1>6, <1>11, <1>12 DEF Between

LEMMA EndFile ==
  ASSUME NEW n, Fits1g(n), ~n.on, ~n.eof, NEW p \in Nat,
         NEW r, r = AfterChunk(read_seekto(n, p))
  PROVE  /\ Fits1g(r) /\ Same(r, n) /\ ~r.on /\ ~r.eof
         /\ Emptied(r) \/ (r.file = n.file /\ r.pos = p)
<1>1. n \in InRec
  BY DEF Fits1g
<1>2. PICK s : s = read_seekto(n, p)
  OBVIOUS
<1>3. s = [n EXCEPT !.pos = p]
  BY <1>2 DEF read_seekto
<1>4. /\ s \in InRec /\ s.all = n.all /\ s.max = n.max /\ s.on = n.on
      /\ s.eof = n.eof /\ s.file = n.file /\ s.pos = p
  BY <1>1, <1>3, SetPos
<1>5. CASE conf.stdin /\ conf.mode = "test"
  <2>1. r = clear_tmpinfile(s)
    BY <1>2, <1>4, <1>5 DEF AfterChunk
  <2>2. /\ r \in InRec /\ r.file = << >> /\ r.all = s.all /\ r.max = s.max
        /\ r.on = s.on /\ r.eof = s.eof
    BY <1>4, <2>1, ClearFileIs
  <2>. QED  BY <1>4, <1>5, <2>2 DEF Fits1g, Same, Emptied
<1>6. CASE ~(conf.stdin /\ conf.mode = "test")
  <2>1. r = s
    BY <1>2, <1>4, <1>6 DEF AfterChunk
  <2>. QED  BY <1>4, <2>1 DEF Fits1g, Same
<1>. QED  BY <1>5, <1>6

LEMMA EndChunkIn ==
  ASSUME ConfInv, PlaceInv, DataInv, InInv, Read, EndChunk
  PROVE  InInv' /\ StdinFaithful'
<1>1. /\ Running /\ phase = "tokens" /\ phase \in Reading /\ conf' = conf /\ chunk' = chunk + 1
      /\ start' = start /\ need' = need /\ blk' = blk
      /\ inp' = AfterChunk(read_seekto(inp, start + ChunkLen(conf.layout) - 1))
  BY DEF EndChunk, Reading, AfterChunk
<1>2. /\ phase' = IF chunk = Len(conf.chunks) THEN "hash" ELSE "open"
      /\ fate' \in {"run", "refused"}
  BY EndOfChunk
<1>3. StdinFaithful'
  BY <1>2 DEF StdinFaithful
<1>4. /\ Fits1g(inp) /\ ~inp.eof
      /\ inp.on => conf.stdin /\ OnSound(inp, ChunkStart)
      /\ ~inp.on => OffSound(inp, ChunkStart)
      /\ conf.stdin => inp.max \in Nat \ {0}
      /\ need = {}
  BY <1>1, InState
<1>5. PICK base, cl, nl, m, c, z \in Nat : InPlace(base, cl, nl, m, c, z)
  BY <1>1, InState
<1>6. /\ base = ChunkStart /\ cl = ChunkLen(conf.layout) /\ nl = Len(conf.layout)
      /\ z = Len(inp.all) /\ DOMAIN conf.layout = 1 .. nl /\ c = chunk /\ m = Len(conf.chunks)
      /\ c * cl = base + cl /\ cl = 3 + 2 * nl /\ nl # 0
      /\ base + cl + 1 <= z /\ (c = m => z = base + cl + 1)
  BY <1>5, Zenon DEF InPlace
<1>7. PICK next \in Nat : next = base + cl /\ next = c * cl
  <2>1. base + cl \in Nat
    OBVIOUS
  <2>. QED  BY <1>6, <2>1, Zenon
<1>8. ChunkStart' = next
  <2>1. chunk' = c + 1 /\ ChunkLen(conf'.layout) = cl
    BY <1>1, <1>6, Zenon
  <2>2. ChunkStart' = (chunk' - 1) * ChunkLen(conf'.layout)
    BY Zenon DEF ChunkStart
  <2>3. chunk' - 1 = c
    BY <2>1
  <2>4. ChunkStart' = c * cl
    BY <2>1, <2>2, <2>3, Zenon
  <2>. QED  BY <1>7, <2>4, Zenon
<1>9. /\ \/ phase' = "open"
         \/ phase' = "hash" /\ z = next + 1
      /\ next + 1 <= z
  <2>1. c = m => z = next + 1
    BY <1>6, <1>7
  <2>2. base + cl + 1 <= z
    BY <1>6
  <2>3. next + 1 <= z
    BY <1>7, <2>2
  <2>4. phase' = IF c = m THEN "hash" ELSE "open"
    BY <1>2, <1>6, Zenon
  <2>. QED  BY <2>1, <2>3, <2>4
<1>10. ASSUME Fits1g(inp'), Same(inp', inp), ~inp'.eof, inp'.on => conf.stdin,
              inp'.on => Between(inp', next),
              ~inp'.on => /\ conf.stdin => Tight(inp')
                          /\ \/ Emptied(inp')
                             \/ \E o \in 0 .. base : /\ ~conf.stdin => o = 0
                                                     /\ inp'.pos = next - o /\ Suffix(inp', o)
       PROVE  InInv'
  <2>1. CASE phase' = "open"
    <3>1. inp'.on => OnSound(inp, ChunkStart)'
      BY <1>8, <1>10, <2>1 DEF OnSound, Between
    <3>2. ~inp'.on => OffSound(inp, ChunkStart)'
      <4>1. SUFFICES ASSUME ~inp'.on PROVE OffSound(inp, ChunkStart)'
        OBVIOUS
      <4>2. (conf.stdin => Tight(inp))'
        BY <1>1, <1>10, <4>1 DEF Tight
      <4>3. CASE Emptied(inp')
        <5>1. Emptied(inp)'
          BY <1>1, <4>3 DEF Emptied
        <5>. QED  BY <2>1, <4>2, <5>1 DEF OffSound
      <4>4. CASE ~Emptied(inp')
        <5>1. PICK o \in 0 .. base : /\ ~conf.stdin => o = 0
                                     /\ inp'.pos = next - o /\ Suffix(inp', o)
          BY <1>10, <4>1, <4>4
        <5>2. o \in 0 .. next /\ next - o + 0 = next - o
          BY <1>7
        <5>3. PosOff' = 0
          BY <2>1 DEF PosOff
        <5>4. inp'.pos = next - o + PosOff' /\ (~conf.stdin => o = 0)'
          BY <1>1, <5>1, <5>2, <5>3
        <5>. QED  BY <1>8, <2>1, <4>2, <5>1, <5>2, <5>4, Zenon DEF OffSound
      <4>. QED  BY <4>3, <4>4
    <3>3. phase' \in Reading /\ phase' # "tokens"
      BY <2>1 DEF Reading
    <3>. QED  BY <1>1, <1>10, <3>1, <3>2, <3>3, InNext
  <2>2. CASE phase' = "hash" /\ z = next + 1
    <3>1. inp'.all = inp.all /\ inp'.max = inp.max /\ inp' \in InRec
      BY <1>10 DEF Same, Fits1g
    <3>2. /\ inp.all = ArchiveBytes(conf.chunks, conf.layout)
          /\ conf.stdin => inp.max \in InMax
      BY <1>1 DEF InInv
    <3>3. next = z - 1 /\ Len(inp'.all) = z
      <4>1. Len(inp'.all) = z
        BY <1>6, <3>1, Zenon
      <4>. QED  BY <2>2, <4>1
    <3>4. LeftSound(inp)'
      <4>1. CASE inp'.on
        <5>1. inp'.len = 0 /\ inp'.src = next
          BY <1>10, <4>1 DEF Between, Taken
        <5>. QED  BY <3>3, <4>1, <5>1 DEF LeftSound
      <4>2. CASE ~inp'.on /\ Emptied(inp')
        <5>1. Emptied(inp)'
          BY <1>1, <4>2 DEF Emptied
        <5>. QED  BY <4>2, <5>1 DEF LeftSound
      <4>3. CASE ~inp'.on /\ ~Emptied(inp')
        <5>1. PICK o \in 0 .. base : Suffix(inp', o)
          BY <1>10, <4>3
        <5>2. o \in 0 .. z - 1
          BY <1>7, <3>3
        <5>. QED  BY <3>3, <4>3, <5>1, <5>2 DEF LeftSound
      <4>. QED  BY <4>1, <4>2, <4>3
    <3>5. phase' \notin Reading /\ phase' # "tokens"
      BY <2>2 DEF Reading
    <3>. QED  BY <1>1, <1>10, <3>1, <3>2, <3>4, <3>5 DEF InInv
  <2>. QED  BY <1>9, <2>1, <2>2
<1>11. CASE inp.on
  <2>1. /\ Taken(inp, base) /\ start = 1 /\ conf.stdin
        /\ GoodAt(inp, base, nl, "tokens", 1 .. nl, blk)
    <3>1. ~Lost(inp, base)
      BY <1>1 DEF Lost
    <3>2. Taken(inp, base) /\ start = 1 /\ conf.stdin /\ Good(inp, base)
      BY <1>1, <1>4, <1>6, <1>11, <3>1 DEF OnSound
    <3>3. Done = 1 .. nl
      BY <1>4, <1>6 DEF Done
    <3>. QED  BY <1>1, <1>6, <3>2, <3>3, Zenon DEF Good
  <2>2. inp.len = cl
    <3>1. inp.len = 3 + 2 * nl
      BY <1>6, <2>1, AllGood
    <3>. QED  BY <1>6, <3>1, Zenon
  <2>3. inp' = AfterChunk(read_seekto(inp, cl))
    <3>1. 1 + cl - 1 = cl
      OBVIOUS
    <3>. QED  BY <1>1, <1>6, <2>1, <3>1, Zenon
  <2>4. PICK r : r = AfterChunk(read_seekto(inp, cl))
    OBVIOUS
  <2>5. Fits1g(r) /\ Same(r, inp) /\ r.on /\ ~r.eof /\ Between(r, next)
    BY <1>4, <1>7, <1>11, <2>1, <2>2, <2>4, EndInput
  <2>6. InInv'
    BY <1>10, <2>1, <2>3, <2>4, <2>5
  <2>. QED  BY <1>3, <2>6
<1>12. CASE ~inp.on
  <2>1. PICK o \in 0 .. base :
          /\ ~conf.stdin => o = 0
          /\ start = base - o + 1
          /\ Suffix(inp, o)
    BY <1>1, <1>4, <1>6, <1>12 DEF OffSound, LostInFile
  <2>2. PICK p \in Nat : p = next - o /\ p = start + cl - 1
    <3>1. next - o \in Nat /\ next - o = base - o + 1 + cl - 1
      BY <1>7
    <3>. QED  BY <2>1, <3>1, Zenon
  <2>3. PICK r : r = AfterChunk(read_seekto(inp, p))
    OBVIOUS
  <2>4. inp' = r
    BY <1>1, <1>6, <2>2, <2>3, Zenon
  <2>5. /\ Fits1g(r) /\ Same(r, inp) /\ ~r.on /\ ~r.eof
        /\ Emptied(r) \/ (r.file = inp.file /\ r.pos = p)
    BY <1>4, <1>12, <2>3, EndFile
  <2>6. conf.stdin => Tight(r)
    BY <1>4, <1>12, <2>5 DEF OffSound, Tight, Same
  <2>7. r.file = inp.file => Suffix(r, o)
    BY <2>1, <2>5 DEF Suffix, Same
  <2>8. \/ Emptied(r)
        \/ \E v \in 0 .. base : /\ ~conf.stdin => v = 0
                                /\ r.pos = next - v /\ Suffix(r, v)
    BY <2>1, <2>2, <2>5, <2>7
  <2>9. InInv'
    BY <1>10, <2>4, <2>5, <2>6, <2>8
  <2>. QED  BY <1>3, <2>9
<1>. QED  BY <1>11, <1>12
-----------------------------------------------------------------------------
(* The stored hash. *)

LEMMA OneByte ==
  ASSUME NEW s \in Seq(Nat), NEW a \in 1 .. Len(s)
  PROVE  Slice(s, a, a) = <<s[a]>>
<1>1. PICK d : d = Slice(s, a, a)
  OBVIOUS
<1>2. a \in Nat \ {0} /\ a \in Nat /\ a <= Len(s) /\ a <= a /\ s[a] \in Nat
  BY LenProperties, ElementOfSeq
<1>3. /\ Slice(s, a, a) \in Seq(Nat)
      /\ a <= Len(s) => Len(Slice(s, a, a)) = IF a <= a THEN a - a + 1 ELSE 0
      /\ \A j \in 1 .. Len(Slice(s, a, a)) : Slice(s, a, a)[j] = s[a + j - 1]
  BY <1>2, SliceIs
<1>4. a - a + 1 = 1 /\ a + 1 - 1 = a /\ 1 \in 1 .. 1 /\ \A j \in 1 .. 1 : j = 1
  BY <1>2
<1>5. d \in Seq(Nat) /\ Len(d) = 1
  BY <1>1, <1>2, <1>3, <1>4
<1>6. d[1] = s[a]
  <2>1. d[1] = s[a + 1 - 1]
    BY <1>1, <1>3, <1>4, <1>5
  <2>. QED  BY <1>4, <2>1
<1>7. <<s[a]>> \in Seq(Nat) /\ Len(<<s[a]>>) = 1 /\ <<s[a]>>[1] = s[a]
  BY <1>2
<1>8. d = <<s[a]>>
  BY <1>4, <1>5, <1>6, <1>7, SeqEqual
<1>. QED  BY <1>1, <1>8

LEMMA PutFirst ==
  ASSUME NEW w \in Seq(Nat), NEW z \in Nat, NEW u, u = WriteAt(w, 0, <<z>>)
  PROVE  u \in Seq(Nat) /\ 1 \in 1 .. Len(u) /\ u[1] = z
<1>1. PICK d \in Seq(Nat) : d = <<z>>
  <2>1. <<z>> \in Seq(Nat)
    OBVIOUS
  <2>. QED  BY <2>1, Zenon
<1>2. PICK ld \in Nat : ld = 1 /\ ld = Len(d) /\ d[1] = z
  BY <1>1
<1>3. PICK lw \in Nat : lw = Len(w)
  BY LenProperties
<1>4. PICK v : v = WriteAt(w, 0, d)
  OBVIOUS
<1>5. 0 \in Nat /\ HasZero(Nat)
  BY NatHasZero
<1>6. /\ WriteAt(w, 0, d) \in Seq(Nat)
      /\ Len(WriteAt(w, 0, d)) = IF 0 + Len(d) > Len(w) THEN 0 + Len(d) ELSE Len(w)
      /\ \A j \in 1 .. Len(WriteAt(w, 0, d)) :
           WriteAt(w, 0, d)[j] = IF j > 0 /\ j <= 0 + Len(d) THEN d[j - 0]
                                 ELSE IF j <= Len(w) THEN w[j] ELSE 0
  BY <1>5, WriteAtIs
<1>7. /\ v \in Seq(Nat)
      /\ Len(v) = IF 0 + ld > lw THEN 0 + ld ELSE lw
      /\ \A j \in 1 .. Len(v) : v[j] = IF j > 0 /\ j <= 0 + ld THEN d[j - 0]
                                      ELSE IF j <= lw THEN w[j] ELSE 0
  BY <1>2, <1>3, <1>4, <1>6, Zenon
<1>8. 1 \in 1 .. Len(v)
  <2>1. PICK lv \in Nat : lv = Len(v) /\ lv = IF 0 + ld > lw THEN 0 + ld ELSE lw
    BY <1>7, LenProperties, Zenon
  <2>2. ld = 1
    BY <1>2, Zenon
  <2>3. 1 \in 1 .. lv
    BY <2>1, <2>2
  <2>. QED  BY <2>1, <2>3, Zenon
<1>9. 1 > 0 /\ 1 <= 0 + ld /\ 1 - 0 = 1
  BY <1>2
<1>10. v[1] = d[1]
  BY <1>7, <1>8, <1>9
<1>. QED  BY <1>1, <1>2, <1>4, <1>7, <1>8, <1>10

LEMMA ArchiveFits ==
  ASSUME ConfInv, InInv, Running, Read
  PROVE  Fits1g(inp) /\ Len(inp.all) \in Nat \ {0}
<1>1. ReadConf(conf)
  BY DEF ConfInv, Read, WriteConf, Modes
<1>2. inp \in InRec /\ inp.all = ArchiveBytes(conf.chunks, conf.layout)
  BY DEF InInv
<1>3. PICK cl, nl, m \in Nat : cl = ChunkLen(conf.layout) /\ m = Len(conf.chunks)
  BY <1>1, ReadLayout, Zenon
<1>4. ArchiveFacts(inp.all, m, cl)
  <2>1. ArchiveFacts(ArchiveBytes(conf.chunks, conf.layout), Len(conf.chunks), ChunkLen(conf.layout))
    BY <1>3, ArchiveIs
  <2>. QED  BY <1>2, <1>3, <2>1, Zenon
<1>5. m * cl \in Nat
  OBVIOUS
<1>6. m * cl + 1 \in Nat \ {0}
  BY <1>5
<1>. QED  BY <1>2, <1>4, <1>6, Zenon DEF Fits1g, ArchiveFacts

(* What SeekHash leaves in front of the reader.                             *)
Stored(n) == n.pos >= 0 /\ BytesRead(n, 1) = <<Len(n.all)>>

LEMMA StoredOff ==
  ASSUME NEW n, Fits1g(n), ~n.on, Len(n.all) \in Nat \ {0},
         NEW o \in 0 .. Len(n.all) - 1, Suffix(n, o)
  PROVE  Stored(SeekHash(n, 1))
<1>1. PICK z \in Nat \ {0} : z = Len(n.all)
  OBVIOUS
<1>2. PICK f \in Seq(Nat) : f = n.file
  BY DEF Fits1g, InRec
<1>3. PICK h \in Nat : h = Len(f)
  BY LenProperties
<1>4. h = z - o /\ \A j \in 1 .. h : f[j] = o + j
  BY <1>1, <1>2, <1>3 DEF Suffix
<1>5. PICK p \in Nat : p = h - 1 /\ p + 1 = h /\ p + 1 \in 1 .. h
  <2>1. h - 1 \in Nat /\ h - 1 + 1 = h /\ h - 1 + 1 \in 1 .. h
    BY <1>1, <1>4
  <2>. QED  BY <2>1, Zenon
<1>6. f[h] = z /\ h \in 1 .. h
  BY <1>1, <1>4, <1>5
<1>7. Slice(f, p + 1, p + 1) = <<z>>
  <2>1. Slice(f, h, h) = <<f[h]>>
    BY <1>3, <1>6, OneByte
  <2>. QED  BY <1>5, <1>6, <2>1
<1>8. PICK r : r = SeekHash(n, 1)
  OBVIOUS
<1>9. r = [n EXCEPT !.pos = p]
  BY <1>2, <1>3, <1>5, <1>8 DEF SeekHash
<1>10. r.pos = p /\ r.all = n.all /\ ~r.on /\ r.file = f
  BY <1>2, <1>9 DEF Fits1g, InRec
<1>11. BytesRead(r, 1) = Slice(f, p + 1, p + 1) /\ r.pos >= 0
  BY <1>10 DEF BytesRead, Fetched
<1>. QED  BY <1>1, <1>7, <1>8, <1>10, <1>11 DEF Stored

JustLeft(n) == n.src = Len(n.all) - 1 /\ n.len = 0 /\ n.max \in Nat \ {0}

LEMMA StoredOn ==
  ASSUME NEW n, Fits1g(n), n.on, Len(n.all) \in Nat \ {0}, JustLeft(n)
  PROVE  Stored(SeekHash(n, 1))
<1>1. PICK z \in Nat \ {0} : z = Len(n.all)
  OBVIOUS
<1>2. PICK all \in Seq(Nat), w \in Seq(Nat) : all = n.all /\ w = n.mem
  BY DEF Fits1g, InRec
<1>3. Len(all) = z /\ z \in 1 .. z
  BY <1>1, <1>2
<1>4. all[z] = z
  BY <1>2, <1>3 DEF Fits1g, Numbered
<1>5. Slice(all, z, z) = <<z>>
  <2>1. Slice(all, z, z) = <<all[z]>>
    BY <1>3, OneByte
  <2>. QED  BY <1>4, <2>1
<1>6. PICK u : u = WriteAt(w, 0, <<z>>)
  OBVIOUS
<1>7. u \in Seq(Nat) /\ 1 \in 1 .. Len(u) /\ u[1] = z
  BY <1>6, PutFirst
<1>8. Slice(u, 1, 1) = <<z>>
  <2>1. Slice(u, 1, 1) = <<u[1]>>
    BY <1>7, OneByte
  <2>. QED  BY <1>7, <2>1
<1>9. PICK r : r = SeekHash(n, 1)
  OBVIOUS
<1>10. r = [n EXCEPT !.mem = u, !.src = z, !.len = 1, !.ofs = 0]
  <2>1. n.src + 1 = z /\ n.len = 0
    BY <1>1 DEF JustLeft
  <2>2. Slice(n.all, n.src + 1, Len(n.all)) = <<z>>
    BY <1>1, <1>2, <1>5, <2>1
  <2>3. Len(<<z>>) = 1 /\ 0 + 1 = 1 /\ 0 + 1 - 1 = 0
    OBVIOUS
  <2>4. r = [n EXCEPT !.mem = WriteAt(n.mem, n.len, <<z>>), !.src = Len(n.all),
                      !.len = n.len + Len(<<z>>), !.ofs = n.len + Len(<<z>>) - 1]
    BY <1>9, <2>2 DEF SeekHash
  <2>. QED  BY <1>1, <1>2, <1>6, <2>1, <2>3, <2>4
<1>11. /\ r.mem = u /\ r.len = 1 /\ r.ofs = 0 /\ r.on /\ r.max = n.max /\ r.all = n.all
       /\ r.pos \in Nat
  BY <1>10 DEF Fits1g, InRec
<1>12. Fetched(r, 1) = r
  <2>1. PICK x \in Nat \ {0} : x = r.max
    BY <1>11 DEF JustLeft
  <2>2. ~(0 + 1 > x) /\ ~(0 + 1 > 1)
    OBVIOUS
  <2>. QED  BY <1>11, <2>1, <2>2, Zenon DEF Fetched
<1>13. BytesRead(r, 1) = Slice(u, 1, 1)
  <2>1. 0 + 1 = 1
    OBVIOUS
  <2>. QED  BY <1>11, <1>12, <2>1, Zenon DEF BytesRead
<1>14. r.pos >= 0
  BY <1>11
<1>. QED  BY <1>1, <1>8, <1>9, <1>11, <1>13, <1>14 DEF Stored

(* The file that was written. *)
LEMMA FileIsMeant ==
  ASSUME ConfInv, DataInv, Running, Read, phase = "hash", conf.mode = "file"
  PROVE  out.file = conf.meant
<1>1. OutSound(out, conf.mode, conf.meant, << >>)
  BY DEF DataInv
<1>2. CASE out.on
  BY <1>1, <1>2 DEF OutSound, Front
<1>3. CASE ~out.on
  <2>1. PICK x \in Seq(Datum) : x = conf.meant /\ out.file = x \o << >>
    BY <1>1, <1>3 DEF OutSound, Front
  <2>. QED  BY <2>1, ConcatEmptySeq
<1>. QED  BY <1>2, <1>3

LEMMA HashAccepts ==
  ASSUME ConfInv, DataInv, InInv, Read, CheckHash
  PROVE  GoodAccepted' /\ fate' \in {"ok", "refused"}
<1>1. /\ Running /\ phase = "hash" /\ conf' = conf /\ inp' = inp
      /\ fate' = IF conf.hashed => /\ SeekHash(inp, 1).pos >= 0
                                   /\ BytesRead(SeekHash(inp, 1), 1) = <<Len(inp.all)>>
                                   /\ hash = conf.meant
                                   /\ conf.check => out.file = conf.meant
                 THEN "ok" ELSE "refused"
  BY DEF CheckHash, HashAgain
<1>2. SUFFICES ASSUME conf.hashed, ~(conf.check /\ conf.mode = "test"),
                      ~(conf.stdin /\ conf.mode = "test" /\ ~inp.on)
               PROVE  fate' = "ok"
  BY <1>1 DEF GoodAccepted
<1>3. hash = conf.meant
  BY <1>1, <1>2 DEF DataInv, SumSound
<1>4. conf.check => out.file = conf.meant
  <2>1. ReadConf(conf)
    BY DEF ConfInv, Read, WriteConf, Modes
  <2>2. conf.check => conf.mode = "file"
    BY <1>2, <2>1 DEF ReadConf, Modes
  <2>. QED  BY <1>1, <2>2, FileIsMeant
<1>5. Fits1g(inp) /\ Len(inp.all) \in Nat \ {0}
  BY <1>1, ArchiveFits
<1>6. LeftSound(inp) /\ (inp.on => inp.max \in Nat \ {0})
  BY <1>1, RunzipAssumption DEF InInv
<1>7. Stored(SeekHash(inp, 1))
  <2>1. CASE inp.on
    <3>1. JustLeft(inp)
      BY <1>6, <2>1 DEF LeftSound, JustLeft
    <3>. QED  BY <1>5, <2>1, <3>1, StoredOn
  <2>2. CASE ~inp.on
    <3>1. ~Emptied(inp)
      BY <1>2, <2>2 DEF Emptied
    <3>2. PICK o \in 0 .. Len(inp.all) - 1 : Suffix(inp, o)
      BY <1>6, <2>2, <3>1 DEF LeftSound
    <3>. QED  BY <1>5, <2>2, <3>2, StoredOff
  <2>. QED  BY <2>1, <2>2
<1>8. SeekHash(inp, 1).all = inp.all
  <2>1. inp \in InRec
    BY <1>5 DEF Fits1g
  <2>. QED  BY <2>1 DEF SeekHash, InRec
<1>9. SeekHash(inp, 1).pos >= 0 /\ BytesRead(SeekHash(inp, 1), 1) = <<Len(inp.all)>>
  BY <1>7, <1>8, Zenon DEF Stored
<1>. QED  BY <1>1, <1>3, <1>4, <1>9
-----------------------------------------------------------------------------
(* The order of the blocks. *)

LEMMA HeadOrder ==
  ASSUME ConfInv, PlaceInv, OrderInv, Read, FillHead
  PROVE  OrderInv'
<1>1. Running /\ phase = "blocks" /\ phase' = "data" /\ conf' = conf
  BY HeadSteps
<1>2. PICK b, s : HeadStep(b, s)
  BY HeadSteps
<1>3. b \in need /\ Due(b) /\ blk' = b /\ need' = need \ {b}
  BY <1>2 DEF HeadStep
<1>4. PICK l, d : l = conf.layout /\ d = Done
  OBVIOUS
<1>5. PICK nl \in Nat : DOMAIN l = 1 .. nl
  <2>1. ReadConf(conf)
    BY DEF ConfInv, Read, WriteConf, Modes
  <2>2. \E nl \in Nat : DOMAIN conf.layout = 1 .. nl
    BY <2>1, ReadLayout, Zenon
  <2>. QED  BY <1>4, <2>2, Zenon
<1>6. need \subseteq 1 .. nl /\ d \subseteq 1 .. nl
  BY <1>4, <1>5 DEF PlaceInv, Done
<1>7. Done' = d \cup {b}
  BY <1>1, <1>3, <1>4, <1>5, <1>6 DEF Done
<1>8. \A y \in d, x \in need : l[x] = l[y] => y < x
  BY <1>1, <1>4 DEF OrderInv
<1>9. \A x \in need : l[x] = l[b] => b <= x
  BY <1>3, <1>4 DEF Due, FirstLeft
<1>10. \A y \in d \cup {b}, x \in need \ {b} : l[x] = l[y] => y < x
  <2>1. \A x \in need \ {b} : b <= x => b < x
    BY <1>3, <1>6
  <2>. QED  BY <1>8, <1>9, <2>1
<1>11. \A y \in d \cup {b} : y > b => l[y] # l[b]
  <2>1. \A y \in d : y < b => ~(y > b)
    BY <1>3, <1>6
  <2>2. ~(b > b)
    BY <1>3, <1>6
  <2>. QED  BY <1>3, <1>8, <2>1, <2>2
<1>12. l = conf'.layout
  BY <1>1, <1>4
<1>. QED  BY <1>3, <1>7, <1>10, <1>11, <1>12, Zenon DEF OrderInv

-----------------------------------------------------------------------------
(* Every step keeps the invariant: decompression.                           *)

(* What follows for a run that goes on, or has met the wrong byte.          *)
LEMMA ReadGoesOn ==
  ASSUME ConfInv, Read, conf' = conf, Bounded(out)', fate' \in {"run", "garbage"},
         phase' # "end", StdinFaithful'
  PROVE  ConfInv' /\ WriteInv' /\ EndInv'
<1>1. ConfInv'
  BY DEF ConfInv
<1>2. WriteInv'
  BY DEF WriteInv, Read
<1>3. EndInv'
  BY DEF EndInv, OutputExact, CompressedExact, GoodAccepted
<1>. QED  BY <1>1, <1>2, <1>3

(* The reader goes on within a chunk.                                       *)
LEMMA PlaceGoesOn ==
  ASSUME PlaceInv, Running, Read, phase \in Reading, phase # "tokens",
         UNCHANGED <<conf, chunk, tok>>, fate' \in {"run", "garbage"},
         phase' \in Reading, need' \subseteq DOMAIN conf.layout
  PROVE  PlaceInv'
<1>1. AtToken /\ tok = 1 /\ tok \in Nat \ {0}
  BY DEF PlaceInv
<1>2. AtToken'
  BY <1>1 DEF AtToken, Tokens
<1>3. phase' # "hash"
  BY DEF Reading
<1>4. Read'
  BY DEF Read
<1>. QED  BY <1>1, <1>2, <1>3, <1>4 DEF PlaceInv

LEMMA TakeFate ==
  ASSUME NEW n, NEW from, NEW k, NEW next, Take(n, from, k, next)
  PROVE  fate' \in {"run", "garbage"} /\ phase' = next
  BY DEF Take

LEMMA OpenChunkKeeps ==
  ASSUME RunzipInv, Read, OpenChunk
  PROVE  RunzipInv'
<1>. USE DEF RunzipInv
<1>1. /\ Running /\ phase = "open" /\ phase \in Reading /\ Take(inp, 0, 1, "heads")
      /\ UNCHANGED <<conf, chunk, tok, blk, need, out, crc, hash, total>>
  BY DEF OpenChunk, Reading
<1>2. fate' \in {"run", "garbage"} /\ phase' = "heads"
  BY <1>1, TakeFate
<1>3. phase' \in Reading /\ phase' # "end" /\ phase # "tokens"
  BY <1>1, <1>2 DEF Reading
<1>4. InInv' /\ StdinFaithful'
  BY OpenChunkIn
<1>5. DataInv' /\ Bounded(out)'
  BY <1>1, <1>3, ReadData DEF EndInv
<1>6. ConfInv' /\ WriteInv' /\ EndInv'
  BY <1>1, <1>2, <1>3, <1>4, <1>5, ReadGoesOn
<1>7. PlaceInv'
  <2>1. need' \subseteq DOMAIN conf.layout
    BY <1>1 DEF PlaceInv
  <2>. QED  BY <1>1, <1>2, <1>3, <2>1, PlaceGoesOn
<1>8. OrderInv'
  BY <1>2 DEF OrderInv
<1>. QED  BY <1>4, <1>5, <1>6, <1>7, <1>8

LEMMA OpenHeadsKeeps ==
  ASSUME RunzipInv, Read, OpenHeads
  PROVE  RunzipInv'
<1>. USE DEF RunzipInv
<1>1. /\ Running /\ phase = "heads" /\ phase \in Reading /\ Take(inp, 1, 2, "blocks")
      /\ need' = 1 .. Len(conf.layout)
      /\ UNCHANGED <<conf, chunk, tok, blk, start, out, crc, hash, total>>
  BY DEF OpenHeads, Reading
<1>2. fate' \in {"run", "garbage"} /\ phase' = "blocks"
  BY <1>1, TakeFate
<1>3. phase' \in Reading /\ phase' # "end" /\ phase # "tokens"
  BY <1>1, <1>2 DEF Reading
<1>4. InInv' /\ StdinFaithful'
  BY OpenHeadsIn
<1>5. DataInv' /\ Bounded(out)'
  BY <1>1, <1>3, ReadData DEF EndInv
<1>6. ConfInv' /\ WriteInv' /\ EndInv'
  BY <1>1, <1>2, <1>3, <1>4, <1>5, ReadGoesOn
<1>7. need' = DOMAIN conf.layout
  <2>1. ReadConf(conf)
    BY DEF ConfInv, Read, WriteConf, Modes
  <2>2. DOMAIN conf.layout = 1 .. Len(conf.layout)
    BY <2>1, ReadLayout, Zenon
  <2>. QED  BY <1>1, <2>2
<1>8. PlaceInv'
  BY <1>1, <1>2, <1>3, <1>7, PlaceGoesOn
<1>9. OrderInv'
  <2>1. Done' = {}
    BY <1>1, <1>7 DEF Done
  <2>. QED  BY <1>2, <2>1 DEF OrderInv
<1>. QED  BY <1>4, <1>5, <1>6, <1>8, <1>9

LEMMA FillHeadKeeps ==
  ASSUME RunzipInv, Read, FillHead
  PROVE  RunzipInv'
<1>. USE DEF RunzipInv
<1>1. /\ Running /\ phase = "blocks"
      /\ UNCHANGED <<conf, chunk, tok, start, out, crc, hash, total>>
  BY DEF FillHead
<1>2. PICK b, s : HeadStep(b, s)
  BY HeadSteps
<1>3. phase \in Reading /\ phase' = "data" /\ need' = need \ {b} /\ fate' \in {"run", "garbage"}
  BY <1>2, HeadSteps DEF HeadStep
<1>4. phase' \in Reading /\ phase' # "end" /\ phase # "tokens"
  BY <1>1, <1>3 DEF Reading
<1>5. InInv' /\ StdinFaithful'
  BY FillHeadOn, FillHeadOff
<1>6. DataInv' /\ Bounded(out)'
  BY <1>1, <1>3, <1>4, ReadData DEF EndInv
<1>7. ConfInv' /\ WriteInv' /\ EndInv'
  BY <1>1, <1>3, <1>4, <1>5, <1>6, ReadGoesOn
<1>8. PlaceInv'
  <2>1. need' \subseteq DOMAIN conf.layout
    BY <1>3 DEF PlaceInv
  <2>. QED  BY <1>1, <1>3, <1>4, <2>1, PlaceGoesOn
<1>9. OrderInv'
  BY HeadOrder
<1>. QED  BY <1>5, <1>6, <1>7, <1>8, <1>9

LEMMA FillDataKeeps ==
  ASSUME RunzipInv, Read, FillData
  PROVE  RunzipInv'
<1>. USE DEF RunzipInv
<1>1. /\ Running /\ phase = "data" /\ phase \in Reading
      /\ Take(inp, HeadLen + 2 * (blk - 1) + 1, 1, IF need = {} THEN "tokens" ELSE "blocks")
      /\ UNCHANGED <<conf, chunk, tok, blk, need, start, out, crc, hash, total>>
  BY DEF FillData, Reading
<1>2. fate' \in {"run", "garbage"} /\ phase' = IF need = {} THEN "tokens" ELSE "blocks"
  BY <1>1 DEF Take
<1>3. /\ phase' \in Reading /\ phase' # "end" /\ phase # "tokens" /\ phase' # "data"
  BY <1>1, <1>2 DEF Reading
<1>4. InInv' /\ StdinFaithful'
  BY FillDataIn
<1>5. DataInv' /\ Bounded(out)'
  BY <1>1, <1>3, ReadData DEF EndInv
<1>6. ConfInv' /\ WriteInv' /\ EndInv'
  BY <1>1, <1>2, <1>3, <1>4, <1>5, ReadGoesOn
<1>7. PlaceInv'
  <2>1. need' \subseteq DOMAIN conf.layout
    BY <1>1 DEF PlaceInv
  <2>. QED  BY <1>1, <1>2, <1>3, <2>1, PlaceGoesOn
<1>8. OrderInv'
  <2>1. /\ \A y \in Done, x \in need : conf.layout[x] = conf.layout[y] => y < x
        /\ Done # {} => blk \in Done
        /\ \A y \in Done : y > blk => conf.layout[y] # conf.layout[blk]
    BY <1>1 DEF OrderInv
  <2>2. Done' = Done /\ conf'.layout = conf.layout /\ blk' = blk /\ need' = need
    BY <1>1 DEF Done
  <2>. QED  BY <1>3, <2>1, <2>2, Zenon DEF OrderInv
<1>. QED  BY <1>4, <1>5, <1>6, <1>7, <1>8

(* A token. *)
LEMMA TokenKeeps ==
  ASSUME RunzipInv, Read, unzip_literal \/ unzip_match
  PROVE  RunzipInv'
<1>. USE DEF RunzipInv
<1>1. /\ Running /\ phase = "tokens" /\ phase \in Reading /\ tok <= Len(Tokens) /\ tok' = tok + 1
      /\ UNCHANGED <<conf, chunk, phase, blk, need, start, inp, fate>>
  BY DEF unzip_literal, unzip_match, Reading
<1>2. DataInv' /\ Bounded(out)'
  BY LiteralData, MatchData
<1>3. fate' \in {"run", "garbage"} /\ phase' # "end" /\ StdinFaithful'
  BY <1>1 DEF Running, StdinFaithful
<1>4. ConfInv' /\ WriteInv' /\ EndInv'
  BY <1>1, <1>2, <1>3, ReadGoesOn
<1>5. PlaceInv'
  <2>1. PICK k, n : k = tok /\ n = Len(Tokens) /\ k \in 1 .. n + 1 /\ k \in Nat
    BY <1>1 DEF PlaceInv, AtToken
  <2>2. n \in Nat
    BY <1>1, <2>1, ReadState, SofarIs
  <2>3. k + 1 \in 1 .. n + 1 /\ k + 1 \in Nat \ {0}
    BY <1>1, <2>1, <2>2
  <2>4. chunk \in DOMAIN conf.chunks /\ need \subseteq DOMAIN conf.layout
    BY <1>1 DEF PlaceInv, AtToken
  <2>5. AtToken'
    BY <1>1, <2>1, <2>3, <2>4 DEF AtToken, Tokens
  <2>6. Read' /\ phase' \in Reading /\ phase' = "tokens"
    BY <1>1 DEF Read
  <2>. QED  BY <1>1, <1>3, <2>1, <2>3, <2>4, <2>5, <2>6 DEF PlaceInv
<1>6. OrderInv'
  BY <1>1 DEF OrderInv
<1>7. InInv'
  <2>1. ChunkStart' = ChunkStart
    BY <1>1 DEF ChunkStart
  <2>2. OnSound(inp, ChunkStart) => OnSound(inp, ChunkStart)'
    BY <1>1, <2>1 DEF OnSound, Good, Lost, Done
  <2>3. OffSound(inp, ChunkStart) => OffSound(inp, ChunkStart)'
    BY <1>1, <2>1 DEF OffSound, Tight, Emptied, LostInFile, PosOff
  <2>. QED  BY <1>1, <2>2, <2>3 DEF InInv, Running, Read
<1>. QED  BY <1>2, <1>4, <1>5, <1>6, <1>7
LEMMA EndChunkKeeps ==
  ASSUME RunzipInv, Read, EndChunk
  PROVE  RunzipInv'
<1>. USE DEF RunzipInv
<1>1. /\ Running /\ phase = "tokens" /\ phase \in Reading /\ chunk' = chunk + 1 /\ tok' = 1
      /\ UNCHANGED <<conf, blk, need, start, crc, hash, total>>
  BY DEF EndChunk, Reading
<1>2. /\ phase' = IF chunk = Len(conf.chunks) THEN "hash" ELSE "open"
      /\ fate' = "refused" => ~conf.hashed /\ Len(conf.chunks) > 1
      /\ fate' \in {"run", "refused"}
  BY EndOfChunk
<1>3. InInv' /\ StdinFaithful'
  BY EndChunkIn
<1>4. DataInv' /\ Bounded(out)'
  BY EndChunkData
<1>5. ConfInv' /\ WriteInv'
  BY <1>1 DEF ConfInv, WriteInv, Read
<1>6. EndInv'
  <2>1. GoodAccepted'
    BY <1>1, <1>2 DEF GoodAccepted
  <2>2. phase' # "end" /\ fate' # "ok"
    BY <1>2
  <2>. QED  BY <1>3, <1>4, <2>1, <2>2 DEF EndInv, OutputExact, CompressedExact
<1>7. PlaceInv'
  <2>1. ReadConf(conf) /\ SoundConf(conf)
    BY <1>1, ReadState
  <2>2. PICK m \in Nat, c \in Nat : m = Len(conf.chunks) /\ c = chunk /\ c \in 1 .. m
    BY <1>1, <2>1, PriorIs, ReadState
  <2>3. DOMAIN conf.chunks = 1 .. m
    BY <2>1, <2>2, LenProperties DEF SoundConf
  <2>4. c # m => c + 1 \in 1 .. m
    BY <2>2
  <2>5. c # m => Len(conf.chunks[c + 1]) \in Nat
    BY <2>1, <2>2, <2>4, SofarIs
  <2>6. c # m => AtToken'
    <3>1. SUFFICES ASSUME c # m PROVE AtToken'
      OBVIOUS
    <3>2. chunk' = c + 1 /\ Tokens' = conf.chunks[c + 1] /\ conf'.chunks = conf.chunks
      BY <1>1, <2>2 DEF Tokens
    <3>3. PICK k \in Nat : k = Len(conf.chunks[c + 1])
      BY <2>5, <3>1
    <3>4. 1 \in 1 .. k + 1
      OBVIOUS
    <3>. QED  BY <1>1, <2>3, <2>4, <3>1, <3>2, <3>3, <3>4 DEF AtToken
  <2>7. Read' /\ need' \subseteq DOMAIN conf'.layout /\ tok' = 1 /\ 1 \in Nat \ {0}
    BY <1>1 DEF Read, PlaceInv
  <2>8. /\ c = m => phase' = "hash" /\ chunk' = Len(conf'.chunks) + 1 /\ phase' \notin Reading
        /\ c # m => phase' = "open" /\ phase' \in Reading
    BY <1>1, <1>2, <2>2 DEF Reading
  <2>. QED  BY <1>2, <2>6, <2>7, <2>8 DEF PlaceInv
<1>8. OrderInv'
  BY <1>2 DEF OrderInv
<1>. QED  BY <1>3, <1>4, <1>5, <1>6, <1>7, <1>8

LEMMA CheckHashKeeps ==
  ASSUME RunzipInv, Read, CheckHash
  PROVE  RunzipInv'
<1>. USE DEF RunzipInv
<1>1. /\ Running /\ phase = "hash" /\ phase' = "end"
      /\ UNCHANGED <<conf, chunk, tok, blk, need, start, inp, crc, hash, total>>
  BY DEF CheckHash
<1>2. GoodAccepted' /\ fate' \in {"ok", "refused"}
  BY HashAccepts
<1>3. OutputExact' /\ Bounded(out)'
  BY LastOutput
<1>4. ~Running' /\ StdinFaithful' /\ CompressedExact'
  <2>1. conf'.mode # "compress"
    BY <1>1 DEF Read, Modes
  <2>. QED  BY <1>2, <2>1 DEF Running, StdinFaithful, CompressedExact
<1>5. EndInv'
  BY <1>2, <1>3, <1>4 DEF EndInv
<1>6. ConfInv' /\ WriteInv' /\ DataInv' /\ OrderInv' /\ InInv'
  BY <1>1, <1>4 DEF ConfInv, WriteInv, DataInv, OrderInv, InInv, Read
<1>7. PlaceInv'
  BY <1>1, <1>2, <1>4 DEF PlaceInv
<1>. QED  BY <1>5, <1>6, <1>7

-----------------------------------------------------------------------------
(* Every step keeps the invariant: compression.                             *)

LEMMA WriteGoesOn ==
  ASSUME ConfInv, ~Read, conf' = conf, phase' \in Writing, WriteInv', Bounded(out)', PlaceInv',
         fate' \in {"run", "fatal"}
  PROVE  RunzipInv'
<1>1. ~Read' /\ ConfInv'
  BY DEF Read, ConfInv
<1>2. phase' \notin {"blocks", "data", "end"}
  BY DEF Writing
<1>3. DataInv' /\ InInv' /\ OrderInv'
  BY <1>1, <1>2 DEF DataInv, InInv, OrderInv
<1>4. EndInv'
  BY <1>2 DEF EndInv, OutputExact, CompressedExact, GoodAccepted, StdinFaithful
<1>. QED  BY <1>1, <1>3, <1>4 DEF RunzipInv

LEMMA PutMagicKeeps ==
  ASSUME RunzipInv, ~Read, PutMagic
  PROVE  RunzipInv'
<1>. USE DEF RunzipInv
<1>1. /\ Running /\ phase = "magic" /\ phase' = "chunk"
      /\ UNCHANGED <<conf, chunk, tok, blk, need, start, inp, crc, hash, total, fate>>
  BY DEF PutMagic
<1>2. WriteInv' /\ Bounded(out)'
  BY PutMagicWrites DEF EndInv
<1>3. phase' \in Writing /\ fate' \in {"run", "fatal"}
  BY <1>1 DEF Writing, Running
<1>4. PlaceInv'
  <2>1. AtToken /\ tok = 1 /\ AtToken'
    BY <1>1 DEF PlaceInv, AtToken, Tokens
  <2>2. ~Read'
    BY <1>1 DEF Read
  <2>. QED  BY <1>1, <1>3, <2>1, <2>2 DEF PlaceInv
<1>. QED  BY <1>1, <1>2, <1>3, <1>4, WriteGoesOn

LEMMA StartChunkKeeps ==
  ASSUME RunzipInv, ~Read, StartChunk
  PROVE  RunzipInv'
<1>. USE DEF RunzipInv
<1>1. /\ Running /\ phase = "chunk" /\ phase' = "write"
      /\ UNCHANGED <<conf, chunk, tok, blk, need, inp, crc, hash, total, fate>>
  BY DEF StartChunk
<1>2. WriteInv' /\ Bounded(out)'
  BY StartChunkWrites DEF EndInv
<1>3. phase' \in Writing /\ fate' \in {"run", "fatal"}
  BY <1>1 DEF Writing, Running
<1>4. PlaceInv'
  <2>1. AtToken /\ tok = 1 /\ AtToken'
    BY <1>1 DEF PlaceInv, AtToken, Tokens
  <2>2. ~Read'
    BY <1>1 DEF Read
  <2>. QED  BY <1>1, <1>3, <2>1, <2>2 DEF PlaceInv
<1>. QED  BY <1>1, <1>2, <1>3, <1>4, WriteGoesOn

LEMMA WriteStreamKeeps ==
  ASSUME RunzipInv, ~Read, WriteStream
  PROVE  RunzipInv'
<1>. USE DEF RunzipInv
<1>1. /\ Running /\ phase = "write" /\ tok <= Len(Tokens) /\ tok' = tok + 1
      /\ UNCHANGED <<conf, chunk, phase, blk, need, start, inp, crc, hash>>
  BY DEF WriteStream
<1>2. WriteInv' /\ Bounded(out)'
  BY StreamWrites DEF EndInv
<1>3. phase' \in Writing /\ fate' \in {"run", "fatal"}
  <2>1. fate' \in {"run", "fatal"}
    BY DEF WriteStream
  <2>. QED  BY <1>1, <2>1 DEF Writing
<1>4. PlaceInv'
  <2>1. PICK k, n : k = tok /\ n = Len(Tokens) /\ k \in 1 .. n + 1 /\ k \in Nat
    BY <1>1 DEF PlaceInv, AtToken
  <2>2. n \in Nat
    BY <1>1, <2>1, WriteState, SofarIs DEF Tokens
  <2>3. k + 1 \in 1 .. n + 1 /\ k + 1 \in Nat \ {0}
    BY <1>1, <2>1, <2>2
  <2>4. chunk \in DOMAIN conf.chunks /\ need \subseteq DOMAIN conf.layout
    BY <1>1 DEF PlaceInv, AtToken
  <2>5. AtToken'
    BY <1>1, <2>1, <2>3, <2>4 DEF AtToken, Tokens
  <2>6. ~Read' /\ phase' = "write"
    BY <1>1 DEF Read
  <2>. QED  BY <1>1, <1>3, <2>1, <2>3, <2>4, <2>5, <2>6 DEF PlaceInv
<1>. QED  BY <1>1, <1>2, <1>3, <1>4, WriteGoesOn

LEMMA EndWriteKeeps ==
  ASSUME RunzipInv, ~Read, EndWrite
  PROVE  RunzipInv'
<1>. USE DEF RunzipInv
<1>1. /\ Running /\ phase = "write" /\ chunk' = chunk + 1 /\ tok' = 1
      /\ phase' = IF chunk = Len(conf.chunks) THEN "flush" ELSE "chunk"
      /\ UNCHANGED <<conf, blk, need, start, inp, out, crc, hash, fate>>
  BY DEF EndWrite
<1>2. WriteInv' /\ Bounded(out)'
  BY EndWrites DEF EndInv
<1>3. phase' \in Writing /\ fate' \in {"run", "fatal"}
  BY <1>1 DEF Writing, Running
<1>4. PlaceInv'
  <2>1. SoundConf(conf)
    BY <1>1, WriteState
  <2>2. PICK m \in Nat, c \in Nat : m = Len(conf.chunks) /\ c = chunk /\ c \in 1 .. m
    BY <1>1, <2>1, PriorIs, WriteState
  <2>3. DOMAIN conf.chunks = 1 .. m
    BY <2>1, <2>2, LenProperties DEF SoundConf
  <2>4. c # m => c + 1 \in 1 .. m
    BY <2>2
  <2>5. c # m => Len(conf.chunks[c + 1]) \in Nat
    BY <2>1, <2>2, <2>4, SofarIs
  <2>6. c # m => AtToken'
    <3>1. SUFFICES ASSUME c # m PROVE AtToken'
      OBVIOUS
    <3>2. chunk' = c + 1 /\ Tokens' = conf.chunks[c + 1] /\ conf'.chunks = conf.chunks
      BY <1>1, <2>2 DEF Tokens
    <3>3. PICK k \in Nat : k = Len(conf.chunks[c + 1])
      BY <2>5, <3>1
    <3>4. 1 \in 1 .. k + 1
      OBVIOUS
    <3>. QED  BY <1>1, <2>3, <2>4, <3>1, <3>2, <3>3, <3>4 DEF AtToken
  <2>7. ~Read' /\ need' \subseteq DOMAIN conf'.layout /\ tok' = 1 /\ 1 \in Nat \ {0}
    BY <1>1 DEF Read, PlaceInv
  <2>8. /\ c = m => phase' = "flush"
        /\ c # m => phase' = "chunk"
    BY <1>1, <2>2
  <2>. QED  BY <1>3, <2>6, <2>7, <2>8 DEF PlaceInv
<1>. QED  BY <1>1, <1>2, <1>3, <1>4, WriteGoesOn

LEMMA FinalFlushKeeps ==
  ASSUME RunzipInv, ~Read, FinalFlush
  PROVE  RunzipInv'
<1>. USE DEF RunzipInv
<1>1. /\ fate' = "ok" /\ phase' = "end"
      /\ UNCHANGED <<conf, chunk, tok, blk, need, start, inp, crc, hash, total>>
  BY DEF FinalFlush
<1>2. Running /\ phase = "flush"
  BY DEF FinalFlush
<1>3. WriteInv' /\ Bounded(out)' /\ CompressedExact'
  BY FinalFlushWrites DEF EndInv
<1>4. ~Running' /\ ~Read' /\ ConfInv'
  BY <1>1 DEF Running, Read, ConfInv
<1>5. DataInv' /\ InInv' /\ OrderInv'
  BY <1>4 DEF DataInv, InInv, OrderInv
<1>6. conf'.mode = "compress"
  BY <1>1, <1>2, WriteState
<1>7. EndInv'
  BY <1>1, <1>3, <1>4, <1>6 DEF EndInv, OutputExact, GoodAccepted, StdinFaithful
<1>8. PlaceInv'
  BY <1>1, <1>4 DEF PlaceInv
<1>. QED  BY <1>3, <1>4, <1>5, <1>7, <1>8
-----------------------------------------------------------------------------
(* The start. *)

OpenedAs(o, om, fd, magic) ==
  /\ o \in OutRec /\ o.on /\ o.max = om /\ o.buf = magic /\ o.ofs = Len(magic)
  /\ o.relofs = 0 /\ o.fd = fd /\ o.file = << >> /\ o.pos = 0 /\ o.out = << >> /\ ~o.lost
  /\ om \in Nat \ {0} /\ Len(magic) \in Nat

LEMMA OpenedOut ==
  ASSUME NEW om \in OutMax, NEW fd \in {"file", "stdin"}, NEW magic \in Seq(Datum),
         NEW o, o = open_tmpoutbuf(om, fd, magic)
  PROVE  OpenedAs(o, om, fd, magic)
<1>1. om \in Nat \ {0}
  BY RunzipAssumption
<1>2. << >> \in Seq(Datum) /\ Len(magic) \in Int /\ Len(magic) \in Nat /\ 0 \in Nat
  BY LenProperties
<1>. QED  BY <1>1, <1>2 DEF open_tmpoutbuf, OutRec, OpenedAs

LEMMA OpenedIn ==
  ASSUME NEW all \in Seq(Nat), NEW x \in Nat, NEW n, n = open_tmpinbuf(x, all)
  PROVE  /\ n \in InRec /\ n.on /\ n.all = all /\ n.src = 0 /\ n.mem = << >> /\ n.len = 0
         /\ n.ofs = 0 /\ n.max = x /\ ~n.eof
<1>1. << >> \in Seq(Nat) /\ 0 \in Nat
  OBVIOUS
<1>. QED  BY <1>1 DEF open_tmpinbuf, InRec

LEMMA OpenedFile ==
  ASSUME NEW all \in Seq(Nat), NEW n, n = OpenArchive(all)
  PROVE  n \in InRec /\ ~n.on /\ n.all = all /\ n.file = all /\ n.pos = 0 /\ ~n.eof
<1>1. PICK b : b = open_tmpinbuf(0, all)
  OBVIOUS
<1>2. << >> \in Seq(Nat) /\ 0 \in Nat
  OBVIOUS
<1>3. b \in InRec /\ b.all = all /\ b.pos = 0 /\ ~b.eof
  BY <1>1, <1>2 DEF open_tmpinbuf, InRec
<1>4. n = [b EXCEPT !.on = FALSE, !.file = all]
  BY <1>1 DEF OpenArchive
<1>. QED  BY <1>3, <1>4 DEF InRec

(* The first chunk of an archive, and its first token.                      *)
LEMMA FirstPlace ==
  ASSUME SoundConf(conf), chunk = 1, tok = 1
  PROVE  /\ AtToken /\ tok \in Nat \ {0}
         /\ Prior(conf, chunk) = << >> /\ Sofar(conf, chunk, tok) = << >>
<1>1. PICK m \in Nat \ {0} : m = Len(conf.chunks)
  BY PriorIs
<1>2. 1 \in 1 .. m
  OBVIOUS
<1>3. DOMAIN conf.chunks = 1 .. m
  BY <1>1, LenProperties DEF SoundConf
<1>4. PICK k \in Nat : k = Len(conf.chunks[1])
  BY <1>1, <1>2, SofarIs
<1>5. 1 \in 1 .. k + 1
  OBVIOUS
<1>6. AtToken
  BY <1>2, <1>3, <1>4, <1>5 DEF AtToken, Tokens
<1>7. Prior(conf, 1) = << >> /\ Sofar(conf, 1, 1) = << >>
  BY <1>1, <1>2, PriorIs, SofarIs
<1>. QED  BY <1>6, <1>7

LEMMA FirstIn ==
  ASSUME ReadConf(conf), chunk = 1, phase = "open", NEW im \in InMax,
         inp = LET all == ArchiveBytes(conf.chunks, conf.layout)
               IN IF conf.stdin THEN open_tmpinbuf(im, all) ELSE OpenArchive(all)
  PROVE  InInv
<1>1. PICK all : all = ArchiveBytes(conf.chunks, conf.layout)
  OBVIOUS
<1>2. PICK cl, nl, m \in Nat : cl = ChunkLen(conf.layout) /\ m = Len(conf.chunks)
  BY ReadLayout, Zenon
<1>3. Numbered(all) /\ all \in Seq(Nat)
  <2>1. ArchiveFacts(ArchiveBytes(conf.chunks, conf.layout), Len(conf.chunks), ChunkLen(conf.layout))
    BY <1>2, ArchiveIs
  <2>. QED  BY <1>1, <2>1, Zenon DEF ArchiveFacts, Numbered
<1>4. ChunkStart = 0
  <2>1. (1 - 1) * cl = 0
    OBVIOUS
  <2>. QED  BY <1>2, <2>1 DEF ChunkStart
<1>5. Len(all) \in Nat
  BY <1>3, LenProperties
<1>6. phase \in Reading
  BY DEF Reading
<1>7. CASE conf.stdin
  <2>1. inp = open_tmpinbuf(im, all) /\ im \in Nat
    BY <1>1, <1>7, RunzipAssumption
  <2>2. /\ inp \in InRec /\ inp.on /\ inp.all = all /\ inp.src = 0 /\ inp.mem = << >>
        /\ inp.len = 0 /\ inp.ofs = 0 /\ inp.max = im /\ ~inp.eof
    BY <1>3, <2>1, OpenedIn
  <2>3. Taken(inp, 0)
    <3>1. Len(<< >>) = 0 /\ 0 = 0 + 0 /\ 0 <= 0 /\ 0 <= Len(all) /\ \A j \in 1 .. 0 : FALSE
      BY <1>5
    <3>. QED  BY <2>2, <3>1 DEF Taken
  <2>4. OnSound(inp, ChunkStart)
    BY <1>4, <2>2, <2>3 DEF OnSound
  <2>. QED  BY <1>1, <1>6, <1>7, <2>2, <2>4 DEF InInv
<1>8. CASE ~conf.stdin
  <2>1. inp = OpenArchive(all)
    BY <1>1, <1>8
  <2>2. inp \in InRec /\ ~inp.on /\ inp.all = all /\ inp.file = all /\ inp.pos = 0 /\ ~inp.eof
    BY <1>3, <2>1, OpenedFile
  <2>3. Suffix(inp, 0)
    <3>1. Len(all) = Len(all) - 0 /\ \A j \in 1 .. Len(all) : all[j] = 0 + j
      BY <1>3, <1>5 DEF Numbered
    <3>. QED  BY <2>2, <3>1 DEF Suffix
  <2>4. OffSound(inp, 0)
    <3>1. 0 \in 0 .. 0 /\ 0 - 0 + 0 = 0
      OBVIOUS
    <3>2. PosOff = 0
      BY DEF PosOff
    <3>. QED  BY <1>8, <2>2, <2>3, <3>1, <3>2 DEF OffSound
  <2>. QED  BY <1>1, <1>4, <1>6, <1>8, <2>2, <2>4 DEF InInv
<1>. QED  BY <1>7, <1>8

(* The two starts: runzip_fd with an archive, rzip_fd with a file.          *)
ReadStart(om, im) ==
  /\ ReadConf(conf) /\ phase = "open" /\ out = open_tmpoutbuf(om, "file", << >>)
  /\ inp = LET all == ArchiveBytes(conf.chunks, conf.layout)
           IN IF conf.stdin THEN open_tmpinbuf(im, all) ELSE OpenArchive(all)

WriteStart(om) ==
  /\ WriteConf(conf) /\ phase = "magic" /\ out = open_tmpoutbuf(om, "stdin", <<0>>)
  /\ inp = OpenArchive(<< >>)

AtOutset ==
  /\ chunk = 1 /\ tok = 1 /\ blk = 0 /\ need = {} /\ start = 0 /\ total = 0
  /\ crc = << >> /\ hash = << >> /\ fate = "run"

LEMMA InitCases ==
  ASSUME Init
  PROVE  /\ AtOutset
         /\ \/ \E om \in OutMax, im \in InMax : ReadStart(om, im)
            \/ \E om \in OutMax : WriteStart(om)
<1>1. AtOutset
  BY DEF Init, AtOutset
<1>2. CASE \E p \in Programs, l \in Layouts, m \in {"file", "stdout", "test"},
              stdin, hashed, check, known \in BOOLEAN, om \in OutMax, im \in InMax :
             /\ check => m # "stdout" /\ hashed
             /\ ~hashed => m = "test"
             /\ ~stdin => im = CHOOSE x \in InMax : TRUE
             /\ conf = [chunks |-> p, layout |-> l, mode |-> m, stdin |-> stdin,
                        hashed |-> hashed, check |-> check, meant |-> Whole(p),
                        expected |-> IF known THEN Len(Whole(p)) ELSE 0]
             /\ inp = LET all == ArchiveBytes(p, l)
                      IN IF stdin THEN open_tmpinbuf(im, all) ELSE OpenArchive(all)
             /\ out = open_tmpoutbuf(om, "file", << >>)
             /\ phase = "open"
  <2>1. PICK p \in Programs, l \in Layouts, m \in {"file", "stdout", "test"},
             stdin \in BOOLEAN, hashed \in BOOLEAN, check \in BOOLEAN, known \in BOOLEAN,
             om \in OutMax, im \in InMax :
             /\ check => m # "stdout" /\ hashed
             /\ ~hashed => m = "test"
             /\ ~stdin => im = CHOOSE x \in InMax : TRUE
             /\ conf = [chunks |-> p, layout |-> l, mode |-> m, stdin |-> stdin,
                        hashed |-> hashed, check |-> check, meant |-> Whole(p),
                        expected |-> IF known THEN Len(Whole(p)) ELSE 0]
             /\ inp = LET all == ArchiveBytes(p, l)
                      IN IF stdin THEN open_tmpinbuf(im, all) ELSE OpenArchive(all)
             /\ out = open_tmpoutbuf(om, "file", << >>)
             /\ phase = "open"
    BY <1>2, Zenon
  <2>2. /\ conf.chunks = p /\ conf.layout = l /\ conf.mode = m /\ conf.stdin = stdin
        /\ conf.hashed = hashed /\ conf.check = check /\ conf.meant = Whole(p)
        /\ conf.expected \in {0, Len(Whole(p))}
    BY <2>1
  <2>3. ReadConf(conf)
    BY <2>1, <2>2 DEF ReadConf, Modes
  <2>4. ReadStart(om, im)
    BY <2>1, <2>2, <2>3, Zenon DEF ReadStart
  <2>. QED  BY <1>1, <2>4, Zenon
<1>3. CASE \E p \in Writes, om \in OutMax :
             /\ conf = [chunks |-> p, layout |-> << >>, mode |-> "compress", stdin |-> FALSE,
                        hashed |-> TRUE, check |-> FALSE, meant |-> <<"magic">> \o Whole(p),
                        expected |-> 0]
             /\ inp = OpenArchive(<< >>)
             /\ out = open_tmpoutbuf(om, "stdin", <<0>>)
             /\ phase = "magic"
  <2>1. PICK p \in Writes, om \in OutMax :
             /\ conf = [chunks |-> p, layout |-> << >>, mode |-> "compress", stdin |-> FALSE,
                        hashed |-> TRUE, check |-> FALSE, meant |-> <<"magic">> \o Whole(p),
                        expected |-> 0]
             /\ inp = OpenArchive(<< >>)
             /\ out = open_tmpoutbuf(om, "stdin", <<0>>)
             /\ phase = "magic"
    BY <1>3, Zenon
  <2>2. /\ conf.chunks = p /\ conf.layout = << >> /\ conf.mode = "compress" /\ conf.hashed
        /\ conf.meant = <<"magic">> \o Whole(p)
    BY <2>1
  <2>3. WriteConf(conf)
    BY <2>1, <2>2, Zenon DEF WriteConf
  <2>4. WriteStart(om)
    BY <2>1, <2>3, Zenon DEF WriteStart
  <2>. QED  BY <1>1, <2>4, Zenon
<1>. QED  BY <1>2, <1>3, Zenon DEF Init

LEMMA ReadStarts ==
  ASSUME AtOutset, NEW om \in OutMax, NEW im \in InMax, ReadStart(om, im)
  PROVE  RunzipInv
<1>1. /\ chunk = 1 /\ tok = 1 /\ blk = 0 /\ need = {} /\ start = 0 /\ total = 0
      /\ crc = << >> /\ hash = << >> /\ fate = "run" /\ Running
  BY DEF AtOutset, Running
<1>2. << >> \in Seq(Datum) /\ << >> \o << >> = << >> /\ Len(<< >>) = 0
  <2>1. << >> \in Seq(Datum)
    OBVIOUS
  <2>. QED  BY <2>1, ConcatEmptySeq
<1>3. ReadConf(conf) /\ phase = "open"
  BY DEF ReadStart
<1>4. Read
  BY <1>3 DEF ReadConf, Read, Modes
<1>5. SoundConf(conf)
  BY <1>3, ConfFacts
<1>6. /\ AtToken /\ tok \in Nat \ {0}
      /\ Prior(conf, chunk) = << >> /\ Sofar(conf, chunk, tok) = << >>
  BY <1>1, <1>5, FirstPlace
<1>7. phase \in Reading /\ phase \notin {"hash", "blocks", "data", "end"}
  BY <1>3 DEF Reading
<1>8. ConfInv /\ WriteInv /\ OrderInv
  BY <1>3, <1>4, <1>7 DEF ConfInv, WriteInv, OrderInv
<1>9. PlaceInv
  BY <1>1, <1>4, <1>6, <1>7 DEF PlaceInv
<1>10. OutSound(out, conf.mode, << >>, << >>)
  <2>1. PICK fd \in {"file", "stdin"}, none \in Seq(Datum) :
          fd = "file" /\ none = << >> /\ out = open_tmpoutbuf(om, fd, none)
    BY <1>2, Zenon DEF ReadStart
  <2>2. /\ out \in OutRec /\ out.on /\ out.max = om /\ out.buf = none /\ out.ofs = Len(none)
        /\ out.fd = fd /\ out.file = << >> /\ out.pos = 0 /\ out.out = << >>
        /\ om \in Nat \ {0}
    <3>1. OpenedAs(out, om, fd, none)
      BY <2>1, OpenedOut
    <3>. QED  BY <3>1, Zenon DEF OpenedAs
  <2>3. 0 <= om
    BY <2>2
  <2>. QED  BY <1>2, <2>1, <2>2, <2>3 DEF OutSound, Front
<1>11. SumSound(<< >> \o << >>)
  BY <1>1, <1>2 DEF SumSound
<1>12. DataInv
  BY <1>6, <1>7, <1>10, <1>11 DEF DataInv
<1>13. EndInv
  <2>1. Bounded(out)
    BY <1>2, <1>10, BoundedOut
  <2>. QED  BY <1>1, <1>7, <2>1 DEF EndInv, OutputExact, CompressedExact, GoodAccepted,
                                    StdinFaithful
<1>14. InInv
  BY <1>1, <1>3, FirstIn DEF ReadStart
<1>. QED  BY <1>8, <1>9, <1>12, <1>13, <1>14 DEF RunzipInv

LEMMA WriteStarts ==
  ASSUME AtOutset, NEW om \in OutMax, WriteStart(om)
  PROVE  RunzipInv
<1>1. /\ chunk = 1 /\ tok = 1 /\ blk = 0 /\ need = {} /\ start = 0 /\ total = 0
      /\ crc = << >> /\ hash = << >> /\ fate = "run" /\ Running
  BY DEF AtOutset, Running
<1>2. WriteConf(conf) /\ phase = "magic"
  BY DEF WriteStart
<1>3. ~Read
  BY <1>2 DEF WriteConf, Read, Modes
<1>4. SoundConf(conf)
  BY <1>2, ConfFacts
<1>5. AtToken /\ tok \in Nat \ {0}
  BY <1>1, <1>4, FirstPlace
<1>6. phase \in Writing /\ phase \notin {"blocks", "data", "end"}
  BY <1>2 DEF Writing
<1>7. ConfInv /\ DataInv /\ OrderInv /\ InInv
  BY <1>2, <1>3, <1>6 DEF ConfInv, DataInv, OrderInv, InInv
<1>8. PlaceInv
  BY <1>1, <1>2, <1>3, <1>5, <1>6 DEF PlaceInv
<1>9. <<0>> \in Seq(Datum) /\ Len(<<0>>) = 1
  <2>1. 0 \in Datum
    BY DEF Datum
  <2>. QED  BY <2>1
<1>10. PICK fd \in {"file", "stdin"}, first \in Seq(Datum) :
         fd = "stdin" /\ first = <<0>> /\ out = open_tmpoutbuf(om, fd, first)
  BY <1>9, Zenon DEF WriteStart
<1>11. /\ out \in OutRec /\ out.on /\ out.max = om /\ out.buf = first /\ out.ofs = Len(first)
       /\ out.relofs = 0 /\ out.fd = fd /\ out.out = << >> /\ ~out.lost
       /\ om \in Nat \ {0}
  <2>1. OpenedAs(out, om, fd, first)
    BY <1>10, OpenedOut
  <2>. QED  BY <2>1, Zenon DEF OpenedAs
<1>12. Bounded(out)
  <2>1. 1 \in 0 .. 1 /\ 1 <= om
    BY <1>11
  <2>. QED  BY <1>9, <1>10, <1>11, <2>1 DEF Bounded
<1>13. inp.on = FALSE
  BY DEF WriteStart, OpenArchive, open_tmpinbuf
<1>14. WriteInv
  <2>1. WriteRec(out)
    BY <1>10, <1>11 DEF WriteRec, OutRec
  <2>2. WriteSound(out, conf, phase, chunk, tok)
    BY <1>1, <1>2, <1>10, <1>11 DEF WriteSound
  <2>. QED  BY <1>13, <2>1, <2>2 DEF WriteInv
<1>15. EndInv
  BY <1>1, <1>6, <1>12 DEF EndInv, OutputExact, CompressedExact, GoodAccepted, StdinFaithful
<1>. QED  BY <1>7, <1>8, <1>14, <1>15 DEF RunzipInv

LEMMA InitKeeps ==
  ASSUME Init
  PROVE  RunzipInv
  BY InitCases, ReadStarts, WriteStarts, Zenon

-----------------------------------------------------------------------------
(* The theorems. *)

LEMMA StepKeeps ==
  ASSUME RunzipInv, [Next]_vars
  PROVE  RunzipInv'
<1>1. CASE UNCHANGED vars
  <2>1. /\ ConfInv' /\ PlaceInv' /\ OrderInv'
    BY <1>1 DEF vars, RunzipInv, ConfInv, PlaceInv, OrderInv, Running, Read, AtToken, Tokens, Done
  <2>2. DataInv' /\ WriteInv'
    BY <1>1 DEF vars, RunzipInv, DataInv, WriteInv, Running, Read, SumSound, WriteSound
  <2>3. EndInv'
    BY <1>1 DEF vars, RunzipInv, EndInv, Running, OutputExact, CompressedExact, GoodAccepted,
                StdinFaithful
  <2>4. InInv'
    BY <1>1 DEF vars, RunzipInv, InInv, Running, Read, OnSound, OffSound, LeftSound, ChunkStart,
                Good, Lost, Done, LostInFile, PosOff, Emptied, Tight
  <2>. QED  BY <2>1, <2>2, <2>3, <2>4 DEF RunzipInv
<1>2. CASE Next /\ Read
  <2>1. Running => phase \in Reading \cup {"hash"}
    BY <1>2 DEF RunzipInv, PlaceInv
  <2>2. ~PutMagic /\ ~StartChunk /\ ~WriteStream /\ ~EndWrite /\ ~FinalFlush
    BY <2>1 DEF PutMagic, StartChunk, WriteStream, EndWrite, FinalFlush, Reading
  <2>3. CASE Stopped
    BY <1>1, <2>3 DEF Stopped
  <2>. QED  BY <1>2, <2>2, <2>3, OpenChunkKeeps, OpenHeadsKeeps, FillHeadKeeps, FillDataKeeps,
               TokenKeeps, EndChunkKeeps, CheckHashKeeps DEF Next
<1>3. CASE Next /\ ~Read
  <2>1. Running => phase \in Writing
    BY <1>3 DEF RunzipInv, PlaceInv
  <2>2. /\ ~OpenChunk /\ ~OpenHeads /\ ~FillHead /\ ~FillData
        /\ ~unzip_literal /\ ~unzip_match /\ ~EndChunk /\ ~CheckHash
    BY <2>1 DEF OpenChunk, OpenHeads, FillHead, FillData, unzip_literal, unzip_match, EndChunk,
                CheckHash, Writing
  <2>3. CASE Stopped
    BY <1>1, <2>3 DEF Stopped
  <2>. QED  BY <1>3, <2>2, <2>3, PutMagicKeeps, StartChunkKeeps, WriteStreamKeeps,
               EndWriteKeeps, FinalFlushKeeps DEF Next
<1>. QED  BY <1>1, <1>2, <1>3

(* runzip_fd and the temporary buffers keep the invariant: the bytes that   *)
(* were decoded or compressed so far are in the buffer, in the file or out, *)
(* and what is in front of the reader is the archive, whatever the sizes of *)
(* the buffers and the order of the blocks.                                 *)
THEOREM RunzipInvariant == Spec => []RunzipInv
<1>1. Init => RunzipInv
  BY InitKeeps
<1>2. RunzipInv /\ [Next]_vars => RunzipInv'
  BY StepKeeps
<1>. QED  BY <1>1, <1>2, PTL DEF Spec

(* in_len and out_ofs, in a state of the invariant.                         *)
LEMMA BoundsKept ==
  ASSUME RunzipInv
  PROVE  OutputWhole
<1>. USE DEF RunzipInv
<1>1. ASSUME inp.on, Running, phase # "end"
      PROVE  inp.len <= Len(inp.mem) /\ (inp.len <= inp.max \/ SkipsBack(conf.layout))
  <2>1. Read
    BY <1>1 DEF WriteInv
  <2>2. /\ inp \in InRec
        /\ phase \in Reading => OnSound(inp, ChunkStart)
        /\ phase = "hash" => LeftSound(inp)
    BY <1>1, <2>1 DEF InInv
  <2>3. inp.len \in Nat /\ inp.max \in Nat /\ inp.mem \in Seq(Nat) /\ Len(inp.mem) \in Nat
    BY <2>2, LenProperties DEF InRec
  <2>4. inp.len = 0 => inp.len <= Len(inp.mem) /\ inp.len <= inp.max
    BY <2>3
  <2>5. CASE phase \in Reading
    <3>1. inp.len <= Len(inp.mem)
      BY <2>2, <2>5 DEF OnSound, Taken
    <3>2. \/ inp.len = 0 \/ Good(inp, ChunkStart) \/ Lost(inp, ChunkStart)
      BY <2>2, <2>5 DEF OnSound
    <3>3. Good(inp, ChunkStart) => inp.len <= inp.max
      BY DEF Good, GoodAt, Filled
    <3>4. Lost(inp, ChunkStart) => SkipsBack(conf.layout)
      BY DEF Lost
    <3>. QED  BY <2>4, <3>1, <3>2, <3>3, <3>4
  <2>6. CASE phase = "hash"
    BY <1>1, <2>2, <2>4, <2>6 DEF LeftSound
  <2>7. phase \in Reading \cup {"hash"}
    BY <1>1, <2>1 DEF PlaceInv
  <2>. QED  BY <2>5, <2>6, <2>7
<1>2. /\ fate \in {"run", "ok", "refused", "garbage", "fatal"}
      /\ need \subseteq DOMAIN conf.layout /\ tok \in Nat \ {0}
  BY DEF PlaceInv
<1>3. Bounded(out) /\ OutputExact
  BY DEF EndInv
<1>4. RunzipTypeOK
  BY <1>1, <1>2, <1>3 DEF RunzipTypeOK, Bounded
<1>. QED  BY <1>3, <1>4 DEF OutputWhole

(* put_fdout, flush_tmpoutbuf and dump_tmpoutfile: what comes out is the    *)
(* data, once and in order, and the places in the buffers stay in them.     *)
THEOREM OutputAlwaysWhole == Spec => []OutputWhole
  BY RunzipInvariant, BoundsKept, PTL

(* runzip_fd refuses no good archive but in the three cases that            *)
(* GoodAccepted names.                                                      *)
THEOREM GoodAlwaysAccepted == Spec => []GoodAccepted
<1>1. RunzipInv => GoodAccepted
  BY DEF RunzipInv, EndInv
<1>. QED  BY <1>1, RunzipInvariant, PTL

(* read_fdin and read_1g give the decoder the bytes of the archive, from a  *)
(* file always, and from standard input as long as the chunks fit in memory *)
(* and the reader does not go back and then skip a block.                   *)
THEOREM StdinAlwaysFaithful == Spec => []StdinFaithful
<1>1. RunzipInv => StdinFaithful
  BY DEF RunzipInv, EndInv
<1>. QED  BY <1>1, RunzipInvariant, PTL

(* Compression to standard output through tmp_outbuf writes everything,     *)
(* unless a chunk did not fit in the buffer.                                *)
THEOREM CompressedAlwaysExact == Spec => []CompressedExact
<1>1. RunzipInv => CompressedExact
  BY DEF RunzipInv, EndInv
<1>. QED  BY <1>1, RunzipInvariant, PTL
=============================================================================
