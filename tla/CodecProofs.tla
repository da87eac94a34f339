----------------------------- MODULE CodecProofs -----------------------------
(***************************************************************************)
(* Proofs about the listing of an archive, for archives of any number of   *)
(* chunks and blocks of any lengths, plain and encrypted.  The inductive   *)
(* invariant WalkInv says where get_fileinfo stands, between which headers,*)
(* and that its tallies are those of the blocks it has passed.  What the   *)
(* offsets are is in sums of lengths, so lemmas about sums come first.     *)
(***************************************************************************)
EXTENDS Codec, WellFoundedInduction, SequenceTheorems, TLAPS

-----------------------------------------------------------------------------
(* Numbers and sums. *)

(* A set of numbers that is not empty has a least one.                      *)
LEMMA LeastOf ==
  ASSUME NEW T \in SUBSET Nat, T # {}
  PROVE  \E n \in T : \A k \in T : n <= k
<1>. DEFINE R == OpToRel(<, Nat)
<1>1. IsWellFoundedOn(R, Nat)
  BY NatLessThanWellFounded, Zenon
<1>2. \A x, y \in Nat : x < y => <<x, y>> \in R
  BY DEF OpToRel
<1>. HIDE DEF R
<1>3. PICK n \in T : \A k \in T : ~(<<k, n>> \in R)
  BY <1>1, WFMin
<1>4. \A k \in T : k \in Nat /\ n \in Nat /\ ~(k < n)
  BY <1>2, <1>3
<1>. QED  BY <1>4

(* A set with 0 and the successor of each of its numbers has them all.      *)
LEMMA AllNumbers ==
  ASSUME NEW G, 0 \in G, \A x \in Nat : x \in G => x + 1 \in G
  PROVE  Nat \subseteq G
<1>. SUFFICES ASSUME Nat \ G # {} PROVE FALSE
  OBVIOUS
<1>1. PICK n \in Nat \ G : \A k \in Nat \ G : n <= k
  BY LeastOf
<1>2. n # 0 /\ n - 1 \in Nat /\ n - 1 \notin Nat \ G
  BY <1>1
<1>. QED  BY <1>1, <1>2

LEMMA EntriesIn ==
  ASSUME NEW f \in Seq(Nat)
  PROVE  Len(f) \in Nat /\ \A k \in 1 .. Len(f) : f[k] \in Nat
OBVIOUS

(* The running sums are what their definition says: there is such a function.*)
SumsUpTo(f, n, g) ==
  g = [k \in 0 .. n |-> IF k = 0 THEN 0 ELSE g[k - 1] + f[k]]

LEMMA SumsExist ==
  ASSUME NEW f, NEW n \in Nat
  PROVE  \E g : SumsUpTo(f, n, g)
<1>. DEFINE D(x) == \E g : SumsUpTo(f, x, g)
            G == {x \in Nat : D(x)}
<1>1. D(0)
  <2>. DEFINE g == [k \in 0 .. 0 |-> 0]
  <2>1. g = [k \in 0 .. 0 |-> IF k = 0 THEN 0 ELSE g[k - 1] + f[k]]
    OBVIOUS
  <2>. QED  BY <2>1 DEF SumsUpTo
<1>2. ASSUME NEW x \in Nat, D(x) PROVE D(x + 1)
  <2>1. PICK g : g = [k \in 0 .. x |-> IF k = 0 THEN 0 ELSE g[k - 1] + f[k]]
    BY <1>2 DEF SumsUpTo
  <2>. DEFINE next(s, k) == s + f[k]
              h == [k \in 0 .. x + 1 |-> IF k = x + 1 THEN next(g[x], x + 1) ELSE g[k]]
  <2>. HIDE DEF next
  <2>2. ASSUME NEW k \in 0 .. x + 1
        PROVE  h[k] = IF k = 0 THEN 0 ELSE next(h[k - 1], k)
    <3>1. CASE k = x + 1
      <4>1. k # 0 /\ k - 1 = x /\ x \in 0 .. x + 1 /\ x # x + 1
        BY <3>1
      <4>. QED  BY <3>1, <4>1
    <3>2. CASE k # x + 1
      <4>1. k \in 0 .. x /\ h[k] = g[k]
        BY <3>2
      <4>2. k # 0 => k - 1 \in 0 .. x + 1 /\ k - 1 # x + 1 /\ h[k - 1] = g[k - 1]
        BY <3>2
      <4>3. g[k] = IF k = 0 THEN 0 ELSE next(g[k - 1], k)
        BY <2>1, <4>1 DEF next
      <4>. HIDE DEF h
      <4>. QED  BY <4>1, <4>2, <4>3
    <3>. QED  BY <3>1, <3>2
  <2>3. h = [k \in 0 .. x + 1 |-> IF k = 0 THEN 0 ELSE next(h[k - 1], k)]
    BY <2>2
  <2>. HIDE DEF h
  <2>. QED  BY <2>3 DEF SumsUpTo, next
<1>3. Nat \subseteq G
  <2>1. 0 \in G /\ \A x \in Nat : x \in G => x + 1 \in G
    <3>. HIDE DEF D
    <3>. QED  BY <1>1, <1>2
  <2>. HIDE DEF G
  <2>. QED  BY <2>1, AllNumbers
<1>. QED  BY <1>3

LEMMA SumsAre ==
  ASSUME NEW f \in Seq(Nat)
  PROVE  /\ Sums(f)[0] = 0
         /\ \A k \in 1 .. Len(f) : Sums(f)[k] = Sums(f)[k - 1] + f[k]
         /\ \A k \in 0 .. Len(f) : Sums(f)[k] \in Nat
<1>1. PICK n \in Nat : n = Len(f)
  OBVIOUS
<1>2. PICK h : SumsUpTo(f, n, h)
  BY SumsExist
<1>. DEFINE g == CHOOSE g : g = [k \in 0 .. n |-> IF k = 0 THEN 0 ELSE g[k - 1] + f[k]]
<1>3. Sums(f) = g
  BY <1>1, Zenon DEF Sums
<1>4. SumsUpTo(f, n, g)
  BY <1>2, Zenon DEF SumsUpTo
<1>. HIDE DEF g
<1>5. \A k \in 0 .. n : g[k] = IF k = 0 THEN 0 ELSE g[k - 1] + f[k]
  BY <1>4 DEF SumsUpTo
<1>6. g[0] = 0
  <2>1. 0 \in 0 .. n
    OBVIOUS
  <2>. QED  BY <2>1, <1>5
<1>7. ASSUME NEW k \in 1 .. n PROVE g[k] = g[k - 1] + f[k]
  <2>1. k \in 0 .. n /\ k # 0
    OBVIOUS
  <2>. QED  BY <2>1, <1>5
<1>. DEFINE G == {x \in Nat : x <= n => g[x] \in Nat}
<1>8. 0 \in G
  BY <1>6
<1>9. ASSUME NEW x \in Nat, x \in G PROVE x + 1 \in G
  <2>. SUFFICES ASSUME x + 1 <= n PROVE g[x + 1] \in Nat
    OBVIOUS
  <2>1. x + 1 \in 1 .. n /\ (x + 1) - 1 = x /\ g[x] \in Nat
    BY <1>9
  <2>2. f[x + 1] \in Nat
    BY <1>1, <2>1
  <2>3. g[x + 1] = g[x] + f[x + 1]
    BY <1>7, <2>1
  <2>. QED  BY <2>1, <2>2, <2>3
<1>10. Nat \subseteq G
  <2>. HIDE DEF G
  <2>. QED  BY <1>8, <1>9, AllNumbers
<1>. QED  BY <1>1, <1>3, <1>6, <1>7, <1>10

(* A sum up to a later place has at least one more entry.                   *)
LEMMA SumsGrow ==
  ASSUME NEW f \in Seq(Nat), NEW i \in Nat, NEW j \in Nat, i < j, j <= Len(f)
  PROVE  Sums(f)[i] + f[i + 1] <= Sums(f)[j]
<1>. DEFINE s(k) == Sums(f)[k]
            G == {x \in Nat : i < x /\ x <= Len(f) => s(i) + f[i + 1] <= s(x)}
<1>1. PICK n \in Nat : n = Len(f)
  OBVIOUS
<1>2. /\ \A k \in 1 .. n : s(k) = s(k - 1) + f[k] /\ f[k] \in Nat
      /\ \A k \in 0 .. n : s(k) \in Nat
  <2>1. \A k \in 1 .. n : f[k] \in Nat
    BY <1>1, EntriesIn
  <2>. QED  BY <1>1, <2>1, SumsAre
<1>. HIDE DEF s
<1>3. 0 \in G
  OBVIOUS
<1>4. ASSUME NEW x \in Nat, x \in G PROVE x + 1 \in G
  <2>. SUFFICES ASSUME i < x + 1, x + 1 <= n PROVE s(i) + f[i + 1] <= s(x + 1)
    BY <1>1
  <2>1. s(x + 1) = s(x) + f[x + 1] /\ f[x + 1] \in Nat /\ s(x) \in Nat
    BY <1>2
  <2>2. CASE i = x
    BY <2>1, <2>2
  <2>3. CASE i # x
    <3>1. s(i) + f[i + 1] <= s(x)
      BY <1>1, <1>4, <2>3
    <3>2. s(i) \in Nat /\ f[i + 1] \in Nat
      BY <1>2
    <3>3. \A a, b, c, d \in Nat : a + b <= c => a + b <= c + d
      OBVIOUS
    <3>. QED  BY <2>1, <3>1, <3>2, <3>3
  <2>. QED  BY <2>2, <2>3
<1>5. Nat \subseteq G
  <2>. HIDE DEF G
  <2>. QED  BY <1>3, <1>4, AllNumbers
<1>. QED  BY <1>5 DEF s

(* Entries that are 0 add nothing. *)
LEMMA SumsSkip ==
  ASSUME NEW f \in Seq(Nat), NEW i \in Nat, NEW j \in Nat, i <= j, j <= Len(f),
         \A k \in i + 1 .. j : f[k] = 0
  PROVE  Sums(f)[j] = Sums(f)[i]
<1>. DEFINE s(k) == Sums(f)[k]
            G == {x \in Nat : i <= x /\ x <= j => s(x) = s(i)}
<1>1. PICK n \in Nat : n = Len(f)
  OBVIOUS
<1>2. /\ \A k \in 1 .. n : s(k) = s(k - 1) + f[k]
      /\ \A k \in 0 .. n : s(k) \in Nat
  BY <1>1, SumsAre
<1>. HIDE DEF s
<1>3. 0 \in G
  OBVIOUS
<1>4. ASSUME NEW x \in Nat, x \in G PROVE x + 1 \in G
  <2>. SUFFICES ASSUME i <= x + 1, x + 1 <= j PROVE s(x + 1) = s(i)
    OBVIOUS
  <2>1. CASE i = x + 1
    BY <2>1
  <2>2. CASE i # x + 1
    <3>1. s(x) = s(i) /\ s(x) \in Nat
      BY <1>1, <1>2, <1>4, <2>2
    <3>2. x + 1 \in 1 .. n /\ (x + 1) - 1 = x /\ f[x + 1] = 0
      BY <1>1, <2>2
    <3>3. s(x + 1) = s(x) + 0
      BY <1>2, <3>2
    <3>. QED  BY <3>1, <3>3
  <2>. QED  BY <2>1, <2>2
<1>5. Nat \subseteq G
  <2>. HIDE DEF G
  <2>. QED  BY <1>3, <1>4, AllNumbers
<1>. QED  BY <1>5 DEF s

(* The sums of what two sequences add up to. *)
LEMMA SumsAdd ==
  ASSUME NEW f \in Seq(Nat), NEW g \in Seq(Nat), NEW h \in Seq(Nat),
         Len(f) = Len(g), Len(f) = Len(h),
         \A k \in 1 .. Len(f) : h[k] = f[k] + g[k]
  PROVE  Sums(h)[Len(f)] = Sums(f)[Len(f)] + Sums(g)[Len(f)]
<1>. DEFINE a(k) == Sums(f)[k]
            b(k) == Sums(g)[k]
            c(k) == Sums(h)[k]
            G == {x \in Nat : x <= Len(f) => c(x) = a(x) + b(x)}
<1>1. PICK n \in Nat : n = Len(f) /\ n = Len(g) /\ n = Len(h)
  OBVIOUS
<1>2. /\ \A k \in 1 .. n : a(k) = a(k - 1) + f[k] /\ f[k] \in Nat
      /\ \A k \in 0 .. n : a(k) \in Nat
      /\ a(0) = 0
  <2>1. \A k \in 1 .. n : f[k] \in Nat
    BY <1>1, EntriesIn
  <2>. QED  BY <1>1, <2>1, SumsAre
<1>3. /\ \A k \in 1 .. n : b(k) = b(k - 1) + g[k] /\ g[k] \in Nat
      /\ \A k \in 0 .. n : b(k) \in Nat
      /\ b(0) = 0
  <2>1. \A k \in 1 .. n : g[k] \in Nat
    BY <1>1, EntriesIn
  <2>. QED  BY <1>1, <2>1, SumsAre
<1>4. /\ \A k \in 1 .. n : c(k) = c(k - 1) + h[k]
      /\ c(0) = 0
  BY <1>1, SumsAre
<1>. HIDE DEF a, b, c
<1>5. 0 \in G
  BY <1>2, <1>3, <1>4
<1>6. ASSUME NEW x \in Nat, x \in G PROVE x + 1 \in G
  <2>. SUFFICES ASSUME x + 1 <= n PROVE c(x + 1) = a(x + 1) + b(x + 1)
    BY <1>1
  <2>1. x + 1 \in 1 .. n /\ (x + 1) - 1 = x /\ x \in 0 .. n
    OBVIOUS
  <2>2. c(x) = a(x) + b(x)
    BY <1>1, <1>6, <2>1
  <2>3. h[x + 1] = f[x + 1] + g[x + 1]
    BY <1>1, <2>1
  <2>4. a(x + 1) = a(x) + f[x + 1] /\ f[x + 1] \in Nat /\ a(x) \in Nat
    BY <1>2, <2>1
  <2>5. b(x + 1) = b(x) + g[x + 1] /\ g[x + 1] \in Nat /\ b(x) \in Nat
    BY <1>3, <2>1
  <2>6. c(x + 1) = c(x) + h[x + 1]
    BY <1>4, <2>1
  <2>. QED  BY <2>2, <2>3, <2>4, <2>5, <2>6
<1>7. Nat \subseteq G
  <2>. HIDE DEF G
  <2>. QED  BY <1>5, <1>6, AllNumbers
<1>. QED  BY <1>1, <1>7 DEF a, b, c
-----------------------------------------------------------------------------
(* The layout: chunk k starts at ChunkStart(k), its heads are at HeadsAt(k), *)
(* and its block i is BodyAt(k, i - 1) behind them.                          *)

Sound == SoundArchive(conf)

Chunks == Len(conf.chunks)

Blocks(k) == Len(conf.chunks[k].blocks)

BlockOf(k, i) == conf.chunks[k].blocks[i]

HeadOf(k) == HeadLen(conf.chunks[k].cb)

BodyAt(k, i) == Body(conf.chunks[k], i)

LenOf(k, i) == BlockLen(conf.chunks[k].cb, BlockOf(k, i))

LEMMA MaxIs ==
  ASSUME NEW a \in Nat
  PROVE  Max({a, CBC_LEN}) = IF a >= 16 THEN a ELSE 16
<1>. DEFINE m == IF a >= 16 THEN a ELSE 16
<1>1. m \in {a, 16} /\ \A y \in {a, 16} : m >= y
  OBVIOUS
<1>2. \A x \in {a, 16} : (\A y \in {a, 16} : x >= y) => x = m
  OBVIOUS
<1>. HIDE DEF m
<1>3. (CHOOSE x \in {a, 16} : \A y \in {a, 16} : x >= y) = m
  BY <1>1, <1>2
<1>4. Max({a, CBC_LEN}) = m
  BY <1>3, Zenon DEF Max, CBC_LEN
<1>. QED  BY <1>4 DEF m

(* How large the parts are. *)
LEMMA SoundParts ==
  ASSUME Sound
  PROVE  /\ Chunks \in Nat /\ Chunks >= 1
         /\ \A k \in 1 .. Chunks :
              /\ Blocks(k) \in Nat /\ Blocks(k) >= 1
              /\ conf.chunks[k].cb \in 1 .. 8
              /\ \A i \in 1 .. Blocks(k) : BlockOf(k, i).s \in {0, 1} /\ BlockOf(k, i).c \in Nat
              /\ BlockOf(k, Blocks(k)).s = 1
              /\ \E i \in 1 .. Blocks(k) : BlockOf(k, i).s = 0
              /\ Encrypted /\ k < Chunks => BlockOf(k, Blocks(k)).c >= 16
<1>. PICK chs : chs = conf.chunks
  OBVIOUS
<1>1. /\ chs # << >>
      /\ chs \in Seq([cb : 1..8, blocks : Seq([s : {0, 1}, c : Nat])])
      /\ \A k \in DOMAIN chs :
           LET bs == chs[k].blocks
           IN /\ bs # << >> /\ bs[Len(bs)].s = 1 /\ \E i \in DOMAIN bs : bs[i].s = 0
              /\ Encrypted /\ k < Len(chs) => bs[Len(bs)].c >= 16
  BY DEF Sound, SoundArchive, CBC_LEN, Encrypted
<1>2. Len(chs) \in Nat /\ Len(chs) >= 1 /\ DOMAIN chs = 1 .. Len(chs)
  BY <1>1
<1>3. ASSUME NEW k \in 1 .. Len(chs)
      PROVE  LET bs == chs[k].blocks
             IN /\ Len(bs) \in Nat /\ Len(bs) >= 1 /\ chs[k].cb \in 1 .. 8
                /\ \A i \in 1 .. Len(bs) : bs[i].s \in {0, 1} /\ bs[i].c \in Nat
                /\ bs[Len(bs)].s = 1
                /\ \E i \in 1 .. Len(bs) : bs[i].s = 0
                /\ Encrypted /\ k < Len(chs) => bs[Len(bs)].c >= 16
  <2>. PICK bs : bs = chs[k].blocks
    OBVIOUS
  <2>. DEFINE B == [s : {0, 1}, c : Nat]
              C == [cb : 1 .. 8, blocks : Seq(B)]
  <2>1. bs \in Seq(B) /\ chs[k].cb \in 1 .. 8
    <3>1. chs \in Seq(C) /\ k \in 1 .. Len(chs)
      BY <1>1
    <3>2. chs[k] \in C
      <4>. HIDE DEF C
      <4>. QED  BY <3>1, ElementOfSeq
    <3>. HIDE DEF B
    <3>. QED  BY <3>2
  <2>2. /\ bs # << >> /\ bs[Len(bs)].s = 1 /\ \E i \in DOMAIN bs : bs[i].s = 0
        /\ Encrypted /\ k < Len(chs) => bs[Len(bs)].c >= 16
    BY <1>1, <1>2
  <2>3. Len(bs) \in Nat /\ Len(bs) >= 1 /\ DOMAIN bs = 1 .. Len(bs)
    <3>. HIDE DEF B
    <3>. QED  BY <2>1, <2>2
  <2>4. \A i \in 1 .. Len(bs) : bs[i].s \in {0, 1} /\ bs[i].c \in Nat
    <3>1. ASSUME NEW i \in 1 .. Len(bs) PROVE bs[i] \in B
      <4>. HIDE DEF B
      <4>. QED  BY <2>1, ElementOfSeq
    <3>. QED  BY <3>1
  <2>. HIDE DEF B, C
  <2>. QED  BY <2>1, <2>2, <2>3, <2>4
<1>. QED  BY <1>2, <1>3 DEF Chunks, Blocks, BlockOf
LEMMA HeadIs ==
  ASSUME Sound, NEW k \in 1 .. Chunks
  PROVE  HeadOf(k) \in Nat /\ HeadOf(k) >= 4 /\ (Encrypted => HeadOf(k) = 33)
<1>1. PICK cb \in 1 .. 8 : cb = conf.chunks[k].cb
  BY SoundParts
<1>2. HeadOf(k) = IF Encrypted THEN 33 ELSE 1 + 3 * cb
  BY <1>1 DEF HeadOf, HeadLen, SALT_LEN
<1>. QED  BY <1>2

LEMMA LenIs ==
  ASSUME Sound, NEW k \in 1 .. Chunks, NEW i \in 1 .. Blocks(k)
  PROVE  /\ LenOf(k, i) = HeadOf(k) + (IF Encrypted
                                       THEN 8 + (IF BlockOf(k, i).c >= 16 THEN BlockOf(k, i).c ELSE 16)
                                       ELSE BlockOf(k, i).c)
         /\ LenOf(k, i) \in Nat /\ LenOf(k, i) >= HeadOf(k) + BlockOf(k, i).c
<1>1. PICK c \in Nat : c = BlockOf(k, i).c
  BY SoundParts
<1>2. PICK h \in Nat : h = HeadOf(k)
  BY HeadIs
<1>3. LenOf(k, i) = h + (IF Encrypted THEN SALT_LEN + Max({c, CBC_LEN}) ELSE c)
  BY <1>1, <1>2 DEF LenOf, BlockLen, HeadOf
<1>4. Max({c, CBC_LEN}) = IF c >= 16 THEN c ELSE 16
  BY MaxIs
<1>5. LenOf(k, i) = h + (IF Encrypted THEN 8 + (IF c >= 16 THEN c ELSE 16) ELSE c)
  BY <1>3, <1>4 DEF SALT_LEN
<1>6. LenOf(k, i) \in Nat /\ LenOf(k, i) >= h + c
  BY <1>5
<1>. QED  BY <1>1, <1>2, <1>5, <1>6

LEMMA BodyIs ==
  ASSUME Sound, NEW k \in 1 .. Chunks
  PROVE  /\ BodyAt(k, 0) = 2 * HeadOf(k)
         /\ \A i \in 0 .. Blocks(k) : BodyAt(k, i) \in Nat
         /\ \A i, j \in 0 .. Blocks(k) : i < j => BodyAt(k, i) + LenOf(k, i + 1) <= BodyAt(k, j)
         /\ \A i \in 1 .. Blocks(k) : BodyAt(k, i) = BodyAt(k, i - 1) + LenOf(k, i)
<1>1. PICK n \in Nat : n = Blocks(k)
  BY SoundParts
<1>. DEFINE f == [j \in 1 .. n |-> LenOf(k, j)]
<1>2. \A j \in 1 .. n : LenOf(k, j) \in Nat
  BY <1>1, LenIs
<1>3. f \in Seq(Nat) /\ Len(f) = n /\ \A j \in 1 .. n : f[j] = LenOf(k, j)
  BY <1>2
<1>4. f = [j \in 1 .. Len(conf.chunks[k].blocks) |->
             BlockLen(conf.chunks[k].cb, conf.chunks[k].blocks[j])]
  BY <1>1 DEF Blocks, LenOf, BlockOf
<1>5. \A i : BodyAt(k, i) = 2 * HeadOf(k) + Sums(f)[i]
  BY <1>4 DEF BodyAt, Body, HeadOf
<1>. HIDE DEF f
<1>6. PICK h \in Nat : h = HeadOf(k)
  BY HeadIs
<1>. DEFINE s(i) == Sums(f)[i]
<1>7. /\ s(0) = 0
      /\ \A i \in 1 .. n : s(i) = s(i - 1) + LenOf(k, i)
      /\ \A i \in 0 .. n : s(i) \in Nat
  BY <1>3, SumsAre
<1>8. ASSUME NEW i \in 0 .. n, NEW j \in 0 .. n, i < j
      PROVE  s(i) + LenOf(k, i + 1) <= s(j)
  <2>1. i \in Nat /\ j \in Nat /\ j <= Len(f) /\ i + 1 \in 1 .. n
    BY <1>3, <1>8
  <2>2. s(i) + f[i + 1] <= s(j)
    BY <1>3, <1>8, <2>1, SumsGrow
  <2>. QED  BY <1>3, <2>1, <2>2
<1>9. \A i : BodyAt(k, i) = 2 * h + s(i)
  BY <1>5, <1>6
<1>. HIDE DEF s
<1>10. BodyAt(k, 0) = 2 * h
  BY <1>7, <1>9
<1>11. ASSUME NEW i \in 0 .. n PROVE BodyAt(k, i) \in Nat
  BY <1>7, <1>9
<1>12. ASSUME NEW i \in 0 .. n, NEW j \in 0 .. n, i < j
       PROVE  BodyAt(k, i) + LenOf(k, i + 1) <= BodyAt(k, j)
  <2>1. i + 1 \in 1 .. n /\ LenOf(k, i + 1) \in Nat /\ s(i) \in Nat /\ s(j) \in Nat
    BY <1>2, <1>7, <1>12
  <2>2. s(i) + LenOf(k, i + 1) <= s(j)
    BY <1>8, <1>12
  <2>. QED  BY <1>9, <2>1, <2>2
<1>13. ASSUME NEW i \in 1 .. n PROVE BodyAt(k, i) = BodyAt(k, i - 1) + LenOf(k, i)
  <2>1. i - 1 \in 0 .. n
    OBVIOUS
  <2>2. s(i) = s(i - 1) + LenOf(k, i) /\ s(i - 1) \in Nat /\ LenOf(k, i) \in Nat
    BY <1>2, <1>7, <2>1
  <2>. QED  BY <1>9, <2>2
<1>. QED  BY <1>1, <1>6, <1>10, <1>11, <1>12, <1>13

LEMMA StartIs ==
  ASSUME Sound
  PROVE  /\ ChunkStart(1) = MagicEnd /\ MagicEnd \in Nat
         /\ \A k \in 1 .. Chunks + 1 : ChunkStart(k) \in Nat
         /\ \A i, j \in 1 .. Chunks + 1 : i < j => ChunkStart(i + 1) <= ChunkStart(j)
         /\ \A k \in 1 .. Chunks :
              /\ HeadsAt(k) = ChunkStart(k) + (IF Encrypted THEN 2 ELSE 2 + conf.chunks[k].cb)
              /\ HeadsAt(k) \in Nat /\ HeadsAt(k) >= ChunkStart(k) + 2
              /\ ChunkStart(k + 1) = HeadsAt(k) + BodyAt(k, Blocks(k))
<1>1. PICK n \in Nat : n = Chunks
  BY SoundParts
<1>. DEFINE p(k) == Prefix(conf.chunks[k])
            l(k) == ChunkLen(conf.chunks[k])
            f == [j \in 1 .. n |-> l(j)]
            s(i) == Sums(f)[i]
<1>2. ASSUME NEW k \in 1 .. n
      PROVE  /\ p(k) = IF Encrypted THEN 2 ELSE 2 + conf.chunks[k].cb
             /\ p(k) \in Nat /\ p(k) >= 2
             /\ l(k) = p(k) + BodyAt(k, Blocks(k)) /\ l(k) \in Nat
  <2>1. PICK cb \in 1 .. 8 : cb = conf.chunks[k].cb
    BY <1>1, SoundParts
  <2>2. p(k) = IF Encrypted THEN 2 ELSE 2 + cb
    BY <2>1 DEF Prefix
  <2>3. l(k) = p(k) + BodyAt(k, Blocks(k))
    BY DEF ChunkLen, BodyAt, Blocks
  <2>4. Blocks(k) \in 0 .. Blocks(k)
    BY <1>1, SoundParts
  <2>5. BodyAt(k, Blocks(k)) \in Nat
    BY <1>1, <2>4, BodyIs
  <2>. HIDE DEF p, l
  <2>6. p(k) \in Nat /\ p(k) >= 2
    BY <2>2
  <2>. QED  BY <2>1, <2>2, <2>3, <2>5, <2>6
<1>3. \A k : ChunkStart(k) = MagicEnd + s(k - 1)
  BY <1>1 DEF ChunkStart, Chunks
<1>4. \A k : HeadsAt(k) = ChunkStart(k) + p(k)
  BY DEF HeadsAt
<1>5. MagicEnd \in Nat
  <2>1. conf.version \in 6 .. 14 /\ Len(conf.comment) \in Nat
    BY DEF Sound, SoundArchive, Versions
  <2>2. PICK v \in 6 .. 14, c \in Nat : v = conf.version /\ c = Len(conf.comment)
    BY <2>1
  <2>3. MagicLen(v) \in Nat
    BY DEF MagicLen
  <2>4. CommentLen(conf.version, conf.comment) = IF v >= 9 THEN c ELSE 0
    BY <2>2 DEF CommentLen
  <2>. QED  BY <2>2, <2>3, <2>4 DEF MagicEnd
<1>. HIDE DEF p, l
<1>6. f \in Seq(Nat) /\ Len(f) = n /\ \A j \in 1 .. n : f[j] = l(j)
  BY <1>2
<1>. HIDE DEF f
<1>7. /\ s(0) = 0
      /\ \A i \in 1 .. n : s(i) = s(i - 1) + l(i)
      /\ \A i \in 0 .. n : s(i) \in Nat
  BY <1>6, SumsAre
<1>8. ASSUME NEW i \in 0 .. n, NEW j \in 0 .. n, i < j
      PROVE  s(i) + l(i + 1) <= s(j)
  <2>1. i \in Nat /\ j \in Nat /\ j <= Len(f) /\ i + 1 \in 1 .. n
    BY <1>6, <1>8
  <2>2. s(i) + f[i + 1] <= s(j)
    BY <1>6, <1>8, <2>1, SumsGrow
  <2>. QED  BY <1>6, <2>1, <2>2
<1>. HIDE DEF s
<1>9. PICK m \in Nat : m = MagicEnd
  BY <1>5
<1>10. ChunkStart(1) = m
  BY <1>3, <1>7, <1>9
<1>11. ASSUME NEW k \in 1 .. n + 1 PROVE ChunkStart(k) \in Nat
  <2>1. k - 1 \in 0 .. n
    OBVIOUS
  <2>. QED  BY <1>3, <1>7, <1>9, <2>1
<1>12. ASSUME NEW i \in 1 .. n + 1, NEW j \in 1 .. n + 1, i < j
       PROVE  ChunkStart(i + 1) <= ChunkStart(j)
  <2>1. i \in 1 .. n /\ i - 1 \in 0 .. n /\ j - 1 \in 0 .. n /\ i - 1 < j - 1 /\ (i - 1) + 1 = i /\ (i + 1) - 1 = i
    BY <1>12
  <2>2. s(i - 1) + l(i) <= s(j - 1) /\ s(i) = s(i - 1) + l(i)
    BY <1>7, <1>8, <2>1
  <2>3. s(i) \in Nat /\ s(j - 1) \in Nat /\ s(i) <= s(j - 1)
    BY <1>7, <2>1, <2>2
  <2>4. ChunkStart(i + 1) = m + s(i) /\ ChunkStart(j) = m + s(j - 1)
    BY <1>3, <1>9, <2>1
  <2>. QED  BY <2>3, <2>4
<1>13. ASSUME NEW k \in 1 .. n
       PROVE  /\ HeadsAt(k) = ChunkStart(k) + (IF Encrypted THEN 2 ELSE 2 + conf.chunks[k].cb)
              /\ HeadsAt(k) \in Nat /\ HeadsAt(k) >= ChunkStart(k) + 2
              /\ ChunkStart(k + 1) = HeadsAt(k) + BodyAt(k, Blocks(k))
  <2>1. Blocks(k) \in 0 .. Blocks(k) /\ k \in 1 .. n + 1 /\ k - 1 \in 0 .. n /\ (k + 1) - 1 = k
    BY <1>1, SoundParts
  <2>2. PICK b \in Nat : b = BodyAt(k, Blocks(k))
    BY <1>1, <2>1, BodyIs
  <2>3. PICK c \in Nat : c = ChunkStart(k)
    BY <1>11, <2>1
  <2>4. HeadsAt(k) = c + p(k) /\ p(k) \in Nat /\ p(k) >= 2
    BY <1>2, <1>4, <2>3
  <2>5. l(k) = p(k) + b
    BY <1>2, <2>2
  <2>6. ChunkStart(k + 1) = m + s(k) /\ c = m + s(k - 1) /\ s(k) = s(k - 1) + l(k) /\ s(k - 1) \in Nat
    BY <1>3, <1>7, <1>9, <2>1, <2>3
  <2>7. ChunkStart(k + 1) = HeadsAt(k) + b
    BY <2>4, <2>5, <2>6
  <2>8. HeadsAt(k) \in Nat /\ HeadsAt(k) >= c + 2
    BY <2>4
  <2>9. HeadsAt(k) = ChunkStart(k) + (IF Encrypted THEN 2 ELSE 2 + conf.chunks[k].cb)
    BY <1>2, <1>4
  <2>. QED  BY <2>2, <2>3, <2>7, <2>8, <2>9
<1>. QED  BY <1>1, <1>9, <1>10, <1>11, <1>12, <1>13
-----------------------------------------------------------------------------
(* What get_header_info finds: each offset of a header is that of one header. *)

StreamsAt(o) ==
  {x \in (DOMAIN conf.chunks) \X {0, 1} :
     o = HeadsAt(x[1]) + x[2] * HeadLen(conf.chunks[x[1]].cb)}

BlocksAt(o) ==
  {x \in (DOMAIN conf.chunks) \X UNION {DOMAIN ch.blocks : ch \in Range(conf.chunks)} :
     /\ x[2] \in DOMAIN conf.chunks[x[1]].blocks
     /\ o = HeadsAt(x[1]) + Body(conf.chunks[x[1]], x[2] - 1)}

In(k, o) == HeadsAt(k) <= o /\ o < ChunkStart(k + 1)

LEMMA InOne ==
  ASSUME Sound, NEW k \in 1 .. Chunks, NEW l \in 1 .. Chunks, NEW o \in Nat, In(k, o), In(l, o)
  PROVE  k = l
<1>1. ASSUME NEW i \in 1 .. Chunks, NEW j \in 1 .. Chunks, i < j, In(i, o), In(j, o)
      PROVE  FALSE
  <2>1. i \in 1 .. Chunks + 1 /\ j \in 1 .. Chunks + 1 /\ i + 1 \in 1 .. Chunks + 1
    BY SoundParts
  <2>2. PICK a \in Nat, b \in Nat, h \in Nat : a = ChunkStart(i + 1) /\ b = ChunkStart(j) /\ h = HeadsAt(j)
    BY <2>1, StartIs
  <2>3. a <= b /\ h >= b + 2
    BY <1>1, <2>1, <2>2, StartIs
  <2>4. o < a /\ h <= o
    BY <1>1, <2>2 DEF In
  <2>. QED  BY <2>3, <2>4
<1>2. k < l \/ k = l \/ l < k
  BY SoundParts
<1>. QED  BY <1>1, <1>2

(* A head of a chunk is in it, in front of the first block. *)
LEMMA HeadIn ==
  ASSUME Sound, NEW k \in 1 .. Chunks, NEW s \in {0, 1}
  PROVE  LET o == HeadsAt(k) + s * HeadOf(k)
         IN In(k, o) /\ o \in Nat /\ o < HeadsAt(k) + BodyAt(k, 0)
<1>1. PICK h \in Nat, n \in Nat, a \in Nat : h = HeadOf(k) /\ n = Blocks(k) /\ a = HeadsAt(k)
  BY HeadIs, SoundParts, StartIs
<1>2. h >= 4 /\ n >= 1
  BY <1>1, HeadIs, SoundParts
<1>3. 0 \in 0 .. n /\ n \in 0 .. n /\ 0 < n /\ 0 + 1 = 1 /\ 1 \in 1 .. n
  BY <1>2
<1>4. PICK l \in Nat, b \in Nat : l = LenOf(k, 1) /\ b = BodyAt(k, n)
  BY <1>1, <1>3, LenIs, BodyIs
<1>5. BodyAt(k, 0) = 2 * h /\ 2 * h + l <= b
  <2>1. BodyAt(k, 0) = 2 * h
    BY <1>1, BodyIs
  <2>2. BodyAt(k, 0) + LenOf(k, 0 + 1) <= BodyAt(k, n)
    BY <1>1, <1>3, BodyIs
  <2>. QED  BY <1>4, <2>1, <2>2
<1>6. ChunkStart(k + 1) = a + b
  BY <1>1, <1>4, StartIs
<1>. QED  BY <1>1, <1>2, <1>5, <1>6 DEF In

(* A block of a chunk is in it, behind the heads. *)
LEMMA BlockIn ==
  ASSUME Sound, NEW k \in 1 .. Chunks, NEW i \in 1 .. Blocks(k)
  PROVE  LET o == HeadsAt(k) + BodyAt(k, i - 1)
         IN /\ In(k, o) /\ o \in Nat /\ o >= HeadsAt(k) + BodyAt(k, 0)
            /\ o + LenOf(k, i) <= ChunkStart(k + 1)
<1>1. PICK h \in Nat, n \in Nat, a \in Nat : h = HeadOf(k) /\ n = Blocks(k) /\ a = HeadsAt(k)
  BY HeadIs, SoundParts, StartIs
<1>2. h >= 4 /\ i \in 1 .. n
  BY <1>1, HeadIs
<1>3. 0 \in 0 .. n /\ n \in 0 .. n /\ i \in 0 .. n /\ i - 1 \in 0 .. n /\ 1 \in 1 .. n
  BY <1>2
<1>4. PICK l \in Nat, b \in Nat, c \in Nat, d \in Nat, e \in Nat :
        l = LenOf(k, i) /\ b = BodyAt(k, n) /\ c = BodyAt(k, i - 1) /\ d = BodyAt(k, i) /\ e = BodyAt(k, 0)
  BY <1>1, <1>2, <1>3, LenIs, BodyIs
<1>5. l >= 4
  <2>1. PICK x \in Nat : x = BlockOf(k, i).c
    BY <1>1, <1>2, SoundParts
  <2>2. l >= h + x
    BY <1>1, <1>2, <1>4, <2>1, LenIs
  <2>. QED  BY <1>2, <2>2
<1>6. d = c + l
  BY <1>1, <1>2, <1>4, BodyIs
<1>7. d <= b
  <2>1. CASE i = n
    BY <1>4, <2>1
  <2>2. CASE i # n
    <3>1. i < n /\ i + 1 \in 1 .. n
      BY <1>2, <2>2
    <3>2. d + LenOf(k, i + 1) <= b /\ LenOf(k, i + 1) \in Nat
      BY <1>1, <1>3, <1>4, <3>1, BodyIs, LenIs
    <3>. QED  BY <3>2
  <2>. QED  BY <2>1, <2>2
<1>8. e <= c
  <2>1. CASE i = 1
    BY <1>4, <2>1
  <2>2. CASE i # 1
    <3>1. 0 < i - 1
      BY <1>2, <2>2
    <3>2. e + LenOf(k, 0 + 1) <= c /\ LenOf(k, 0 + 1) \in Nat
      BY <1>1, <1>3, <1>4, <3>1, BodyIs, LenIs
    <3>. QED  BY <3>2
  <2>. QED  BY <2>1, <2>2
<1>9. ChunkStart(k + 1) = a + b
  BY <1>1, <1>4, StartIs
<1>10. a + c >= a + e /\ a + c + l <= a + b /\ a + c < a + b /\ a <= a + c /\ a + c \in Nat
  BY <1>5, <1>6, <1>7, <1>8
<1>. QED  BY <1>1, <1>4, <1>9, <1>10 DEF In

LEMMA BlockOnly ==
  ASSUME Sound, NEW k \in 1 .. Chunks, NEW i \in 1 .. Blocks(k), NEW j \in 1 .. Blocks(k),
         BodyAt(k, i - 1) = BodyAt(k, j - 1)
  PROVE  i = j
<1>1. PICK n \in Nat : n = Blocks(k)
  BY SoundParts
<1>2. ASSUME NEW x \in 1 .. n, NEW y \in 1 .. n, x < y PROVE BodyAt(k, x - 1) # BodyAt(k, y - 1)
  <2>1. x - 1 \in 0 .. n /\ y - 1 \in 0 .. n /\ x - 1 < y - 1 /\ (x - 1) + 1 = x
    BY <1>2
  <2>2. PICK a \in Nat, b \in Nat, l \in Nat, h \in Nat, c \in Nat :
           a = BodyAt(k, x - 1) /\ b = BodyAt(k, y - 1) /\ l = LenOf(k, x) /\ h = HeadOf(k)
           /\ c = BlockOf(k, x).c
    BY <1>1, <2>1, BodyIs, LenIs, HeadIs, SoundParts
  <2>3. a + l <= b
    BY <1>1, <2>1, <2>2, BodyIs
  <2>4. l >= h + c /\ h >= 4
    BY <1>1, <2>2, LenIs, HeadIs
  <2>. QED  BY <2>2, <2>3, <2>4
<1>3. i < j \/ i = j \/ j < i
  BY <1>1
<1>. QED  BY <1>1, <1>2, <1>3
LEMMA DomainsAre ==
  ASSUME Sound
  PROVE  /\ DOMAIN conf.chunks = 1 .. Chunks
         /\ \A k \in 1 .. Chunks : DOMAIN conf.chunks[k].blocks = 1 .. Blocks(k)
<1>1. DOMAIN conf.chunks = 1 .. Chunks
  BY DEF Sound, SoundArchive, Chunks
<1>2. ASSUME NEW k \in 1 .. Chunks PROVE DOMAIN conf.chunks[k].blocks = 1 .. Blocks(k)
  <2>. PICK chs : chs = conf.chunks
    OBVIOUS
  <2>. DEFINE B == [s : {0, 1}, c : Nat]
              C == [cb : 1 .. 8, blocks : Seq(B)]
  <2>1. chs \in Seq(C) /\ k \in 1 .. Len(chs)
    BY DEF Sound, SoundArchive, Chunks
  <2>2. chs[k] \in C
    <3>. HIDE DEF C
    <3>. QED  BY <2>1, ElementOfSeq
  <2>3. chs[k].blocks \in Seq(B)
    <3>. HIDE DEF B
    <3>. QED  BY <2>2
  <2>. HIDE DEF B, C
  <2>. QED  BY <2>3 DEF Blocks
<1>. QED  BY <1>1, <1>2

LEMMA StreamsAre ==
  ASSUME Sound, NEW k \in 1 .. Chunks, NEW s \in {0, 1}
  PROVE  StreamsAt(HeadsAt(k) + s * HeadOf(k)) = {<<k, s>>}
<1>1. PICK o \in Nat : o = HeadsAt(k) + s * HeadOf(k)
  BY HeadIn
<1>2. In(k, o)
  BY <1>1, HeadIn
<1>3. DOMAIN conf.chunks = 1 .. Chunks
  BY DEF Sound, SoundArchive, Chunks
<1>4. ASSUME NEW l \in 1 .. Chunks, NEW r \in {0, 1}, o = HeadsAt(l) + r * HeadOf(l)
      PROVE  l = k /\ r = s
  <2>1. In(l, o)
    BY <1>4, HeadIn
  <2>2. l = k
    BY <1>2, <2>1, InOne
  <2>3. PICK h \in Nat, a \in Nat : h = HeadOf(k) /\ a = HeadsAt(k) /\ h >= 4
    BY HeadIs, StartIs
  <2>4. a + r * h = a + s * h
    BY <1>1, <1>4, <2>2, <2>3
  <2>5. r = s
    BY <2>3, <2>4
  <2>. QED  BY <2>2, <2>5
<1>5. <<k, s>> \in StreamsAt(o)
  BY <1>1, <1>3 DEF StreamsAt, HeadOf
<1>6. ASSUME NEW x \in StreamsAt(o) PROVE x = <<k, s>>
  <2>1. x \in (1 .. Chunks) \X {0, 1} /\ o = HeadsAt(x[1]) + x[2] * HeadOf(x[1])
    BY <1>3 DEF StreamsAt, HeadOf
  <2>2. PICK l \in 1 .. Chunks, r \in {0, 1} : x = <<l, r>>
    BY <2>1
  <2>3. o = HeadsAt(l) + r * HeadOf(l)
    BY <2>1, <2>2
  <2>. QED  BY <1>4, <2>2, <2>3
<1>. QED  BY <1>1, <1>5, <1>6

LEMMA NoStreamsAt ==
  ASSUME Sound, NEW k \in 1 .. Chunks, NEW i \in 1 .. Blocks(k)
  PROVE  StreamsAt(HeadsAt(k) + BodyAt(k, i - 1)) = {}
<1>1. PICK o \in Nat : o = HeadsAt(k) + BodyAt(k, i - 1)
  BY BlockIn
<1>2. In(k, o) /\ o >= HeadsAt(k) + BodyAt(k, 0)
  BY <1>1, BlockIn
<1>3. DOMAIN conf.chunks = 1 .. Chunks
  BY DEF Sound, SoundArchive, Chunks
<1>4. ASSUME NEW l \in 1 .. Chunks, NEW r \in {0, 1}, o = HeadsAt(l) + r * HeadOf(l)
      PROVE  FALSE
  <2>1. In(l, o) /\ o < HeadsAt(l) + BodyAt(l, 0)
    BY <1>4, HeadIn
  <2>2. l = k
    BY <1>2, <2>1, InOne
  <2>3. 0 \in 0 .. Blocks(k)
    BY SoundParts
  <2>4. PICK b \in Nat, a \in Nat : b = BodyAt(k, 0) /\ a = HeadsAt(k)
    BY <2>3, BodyIs, StartIs
  <2>5. o < a + b /\ o >= a + b
    BY <1>2, <2>1, <2>2, <2>4
  <2>. QED  BY <2>5
<1>5. ASSUME NEW x \in StreamsAt(o) PROVE FALSE
  <2>1. x \in (1 .. Chunks) \X {0, 1} /\ o = HeadsAt(x[1]) + x[2] * HeadOf(x[1])
    BY <1>3 DEF StreamsAt, HeadOf
  <2>2. PICK l \in 1 .. Chunks, r \in {0, 1} : x = <<l, r>>
    BY <2>1
  <2>3. o = HeadsAt(l) + r * HeadOf(l)
    BY <2>1, <2>2
  <2>. QED  BY <1>4, <2>3
<1>. QED  BY <1>1, <1>5

LEMMA BlocksAre ==
  ASSUME Sound, NEW k \in 1 .. Chunks, NEW i \in 1 .. Blocks(k)
  PROVE  BlocksAt(HeadsAt(k) + BodyAt(k, i - 1)) = {<<k, i>>}
<1>1. PICK o \in Nat : o = HeadsAt(k) + BodyAt(k, i - 1)
  BY BlockIn
<1>2. In(k, o)
  BY <1>1, BlockIn
<1>3. DOMAIN conf.chunks = 1 .. Chunks
  BY DEF Sound, SoundArchive, Chunks
<1>4. ASSUME NEW l \in 1 .. Chunks PROVE DOMAIN conf.chunks[l].blocks = 1 .. Blocks(l)
  BY DomainsAre
<1>5. ASSUME NEW l \in 1 .. Chunks, NEW j \in 1 .. Blocks(l), o = HeadsAt(l) + BodyAt(l, j - 1)
      PROVE  l = k /\ j = i
  <2>1. In(l, o)
    BY <1>5, BlockIn
  <2>2. l = k
    BY <1>2, <2>1, InOne
  <2>3. j \in 1 .. Blocks(k) /\ i - 1 \in 0 .. Blocks(k) /\ j - 1 \in 0 .. Blocks(k)
    BY <2>2, SoundParts
  <2>4. PICK a \in Nat, b \in Nat, c \in Nat :
           a = HeadsAt(k) /\ b = BodyAt(k, i - 1) /\ c = BodyAt(k, j - 1)
    BY <2>3, StartIs, BodyIs
  <2>5. a + b = a + c
    BY <1>1, <1>5, <2>2, <2>4
  <2>6. BodyAt(k, i - 1) = BodyAt(k, j - 1)
    BY <2>4, <2>5
  <2>. QED  BY <2>2, <2>3, <2>6, BlockOnly
<1>6. <<k, i>> \in BlocksAt(o)
  <2>1. i \in DOMAIN conf.chunks[k].blocks /\ k \in DOMAIN conf.chunks
    BY <1>3, <1>4
  <2>2. conf.chunks[k] \in Range(conf.chunks)
    BY <2>1 DEF Range
  <2>3. i \in UNION {DOMAIN ch.blocks : ch \in Range(conf.chunks)}
    BY <2>1, <2>2
  <2>4. o = HeadsAt(k) + Body(conf.chunks[k], i - 1)
    BY <1>1 DEF BodyAt
  <2>. QED  BY <2>1, <2>3, <2>4 DEF BlocksAt
<1>7. ASSUME NEW x \in BlocksAt(o) PROVE x = <<k, i>>
  <2>1. PICK l, j : l \in 1 .. Chunks /\ x = <<l, j>>
    BY <1>3 DEF BlocksAt
  <2>2. j \in DOMAIN conf.chunks[l].blocks /\ o = HeadsAt(l) + Body(conf.chunks[l], j - 1)
    BY <2>1 DEF BlocksAt
  <2>3. j \in 1 .. Blocks(l) /\ o = HeadsAt(l) + BodyAt(l, j - 1)
    BY <1>4, <2>1, <2>2 DEF BodyAt
  <2>. QED  BY <1>5, <2>1, <2>3
<1>. QED  BY <1>1, <1>6, <1>7

(* The header a stream starts with, and the header of a block. *)
LEMMA HeaderOfStream ==
  ASSUME Sound, NEW k \in 1 .. Chunks, NEW s \in {0, 1}
  PROVE  HeaderAt(HeadsAt(k) + s * HeadOf(k)) = [c |-> 0, next |-> NextBlock(conf.chunks[k], s, 0)]
<1>. DEFINE o == HeadsAt(k) + s * HeadOf(k)
            ks == CHOOSE x \in StreamsAt(o) : TRUE
<1>1. StreamsAt(o) = {<<k, s>>}
  BY StreamsAre
<1>. HIDE DEF o
<1>2. ks = <<k, s>>
  BY <1>1
<1>3. StreamsAt(o) # {} =>
        HeaderAt(o) = [c |-> 0, next |-> NextBlock(conf.chunks[ks[1]], ks[2], 0)]
  BY Zenon DEF HeaderAt, StreamsAt
<1>. HIDE DEF ks
<1>4. ks[1] = k /\ ks[2] = s
  BY <1>2
<1>5. HeaderAt(o) = [c |-> 0, next |-> NextBlock(conf.chunks[k], s, 0)]
  BY <1>1, <1>3, <1>4
<1>. QED  BY <1>5 DEF o

LEMMA HeaderOfBlock ==
  ASSUME Sound, NEW k \in 1 .. Chunks, NEW i \in 1 .. Blocks(k)
  PROVE  HeaderAt(HeadsAt(k) + BodyAt(k, i - 1)) =
           [c |-> BlockOf(k, i).c, next |-> NextBlock(conf.chunks[k], BlockOf(k, i).s, i)]
<1>. DEFINE o == HeadsAt(k) + BodyAt(k, i - 1)
            ki == CHOOSE x \in BlocksAt(o) : TRUE
            b == conf.chunks[ki[1]].blocks[ki[2]]
<1>1. BlocksAt(o) = {<<k, i>>} /\ StreamsAt(o) = {}
  BY BlocksAre, NoStreamsAt
<1>. HIDE DEF o
<1>2. ki = <<k, i>>
  BY <1>1
<1>3. StreamsAt(o) = {} /\ BlocksAt(o) # {} =>
        HeaderAt(o) = [c |-> b.c, next |-> NextBlock(conf.chunks[ki[1]], b.s, ki[2])]
  BY Zenon DEF HeaderAt, StreamsAt, BlocksAt
<1>. HIDE DEF ki
<1>4. ki[1] = k /\ ki[2] = i
  BY <1>2
<1>5. HeaderAt(o) = [c |-> BlockOf(k, i).c, next |-> NextBlock(conf.chunks[k], BlockOf(k, i).s, i)]
  BY <1>1, <1>3, <1>4 DEF BlockOf
<1>. QED  BY <1>5 DEF o

(* The next block of a stream, if there is one. *)
LEMMA NextIs ==
  ASSUME Sound, NEW k \in 1 .. Chunks, NEW s \in {0, 1}, NEW i \in 0 .. Blocks(k)
  PROVE  \/ /\ NextBlock(conf.chunks[k], s, i) = 0
            /\ \A j \in i + 1 .. Blocks(k) : BlockOf(k, j).s # s
         \/ \E j \in i + 1 .. Blocks(k) :
              /\ BlockOf(k, j).s = s /\ NextBlock(conf.chunks[k], s, i) = BodyAt(k, j - 1)
              /\ \A m \in i + 1 .. j - 1 : BlockOf(k, m).s # s
<1>. DEFINE ls == {j \in DOMAIN conf.chunks[k].blocks : j > i /\ conf.chunks[k].blocks[j].s = s}
            later == {j \in i + 1 .. Blocks(k) : BlockOf(k, j).s = s}
<1>1. PICK n \in Nat : n = Blocks(k)
  BY SoundParts
<1>2. DOMAIN conf.chunks[k].blocks = 1 .. n
  BY <1>1, DomainsAre
<1>3. ls = later
  BY <1>1, <1>2 DEF BlockOf
<1>4. NextBlock(conf.chunks[k], s, i) = IF later = {} THEN 0 ELSE BodyAt(k, Min(later) - 1)
  BY <1>3 DEF NextBlock, BodyAt
<1>. HIDE DEF ls
<1>5. CASE later = {}
  <2>1. NextBlock(conf.chunks[k], s, i) = 0
    <3>. HIDE DEF later
    <3>. QED  BY <1>4, <1>5
  <2>2. \A j \in i + 1 .. Blocks(k) : BlockOf(k, j).s # s
    BY <1>5
  <2>. QED  BY <2>1, <2>2
<1>6. CASE later # {}
  <2>1. later \in SUBSET Nat
    BY <1>1
  <2>2. PICK j \in later : \A m \in later : j <= m
    <3>. HIDE DEF later
    <3>. QED  BY <1>6, <2>1, LeastOf
  <2>3. Min(later) = j
    <3>1. \A x \in later : (\A y \in later : x <= y) => x = j
      <4>. HIDE DEF later
      <4>. QED  BY <2>1, <2>2
    <3>. HIDE DEF later
    <3>. QED  BY <2>2, <3>1 DEF Min
  <2>4. NextBlock(conf.chunks[k], s, i) = BodyAt(k, j - 1)
    <3>. HIDE DEF later
    <3>. QED  BY <1>4, <1>6, <2>3
  <2>5. j \in i + 1 .. Blocks(k) /\ BlockOf(k, j).s = s
    BY <2>2
  <2>6. ASSUME NEW m \in i + 1 .. j - 1 PROVE BlockOf(k, m).s # s
    <3>1. m \in i + 1 .. n /\ ~(j <= m)
      BY <1>1, <2>5
    <3>. QED  BY <1>1, <2>2, <3>1
  <2>. QED  BY <2>4, <2>5, <2>6
<1>. QED  BY <1>5, <1>6
-----------------------------------------------------------------------------
(* The tallies: every block has a weight, 1 or how much data is in it, and    *)
(* get_fileinfo adds up the weights of one stream of a chunk after the other. *)

Of(w, bs, s) == [j \in 1 .. Len(bs) |-> IF bs[j].s = s THEN w[j] ELSE 0]

(* What has been added in a chunk before block i + 1 of stream s. *)
Part(w, bs, s, i) ==
  (IF s = 1 THEN Sums(Of(w, bs, 0))[Len(bs)] ELSE 0) + Sums(Of(w, bs, s))[i]

Weights(w, bs) ==
  /\ bs \in Seq([s : {0, 1}, c : Nat]) /\ w \in Seq(Nat) /\ Len(w) = Len(bs)

LEMMA OfIs ==
  ASSUME NEW w, NEW bs, Weights(w, bs), NEW s \in {0, 1}
  PROVE  /\ Len(bs) \in Nat
         /\ Of(w, bs, s) \in Seq(Nat) /\ Len(Of(w, bs, s)) = Len(bs)
         /\ \A i \in 1 .. Len(bs) : Of(w, bs, s)[i] = IF bs[i].s = s THEN w[i] ELSE 0
         /\ \A i \in 1 .. Len(bs) : bs[i].s \in {0, 1} /\ w[i] \in Nat
<1>. DEFINE B == [s : {0, 1}, c : Nat]
            f == Of(w, bs, s)
<1>1. bs \in Seq(B) /\ w \in Seq(Nat) /\ Len(w) = Len(bs)
  BY DEF Weights
<1>2. \A i \in 1 .. Len(bs) : bs[i] \in B
  <2>. HIDE DEF B
  <2>. QED  BY <1>1, ElementOfSeq
<1>3. \A i \in 1 .. Len(bs) : bs[i].s \in {0, 1} /\ w[i] \in Nat
  <2>1. \A i \in 1 .. Len(bs) : bs[i].s \in {0, 1}
    BY <1>2
  <2>. HIDE DEF B
  <2>. QED  BY <1>1, <2>1, EntriesIn
<1>. HIDE DEF B
<1>4. PICK n \in Nat : n = Len(bs)
  BY <1>1
<1>5. f = [j \in 1 .. n |-> IF bs[j].s = s THEN w[j] ELSE 0]
  BY <1>4 DEF Of
<1>. HIDE DEF f
<1>6. \A i \in 1 .. n : f[i] = (IF bs[i].s = s THEN w[i] ELSE 0) /\ f[i] \in Nat
  BY <1>3, <1>4, <1>5
<1>7. f \in [1 .. n -> Nat]
  BY <1>5, <1>6
<1>8. f \in Seq(Nat) /\ Len(f) = n
  BY <1>7
<1>. QED  BY <1>3, <1>4, <1>6, <1>8 DEF f

LEMMA OfSums ==
  ASSUME NEW w, NEW bs, Weights(w, bs), NEW s \in {0, 1}
  PROVE  /\ Sums(Of(w, bs, s))[0] = 0
         /\ \A i \in 0 .. Len(bs) : Sums(Of(w, bs, s))[i] \in Nat
         /\ \A i \in 1 .. Len(bs) : bs[i].s = s =>
              Sums(Of(w, bs, s))[i] = Sums(Of(w, bs, s))[i - 1] + w[i]
<1>. PICK f : f = Of(w, bs, s)
  OBVIOUS
<1>1. f \in Seq(Nat) /\ Len(f) = Len(bs) /\ \A i \in 1 .. Len(bs) : bs[i].s = s => f[i] = w[i]
  BY OfIs
<1>2. /\ Sums(f)[0] = 0
      /\ \A k \in 1 .. Len(f) : Sums(f)[k] = Sums(f)[k - 1] + f[k]
      /\ \A k \in 0 .. Len(f) : Sums(f)[k] \in Nat
  BY <1>1, SumsAre
<1>3. ASSUME NEW i \in 1 .. Len(bs), bs[i].s = s PROVE Sums(f)[i] = Sums(f)[i - 1] + w[i]
  <2>1. Sums(f)[i] = Sums(f)[i - 1] + f[i]
    BY <1>1, <1>2
  <2>2. f[i] = w[i]
    BY <1>1, <1>3
  <2>. QED  BY <2>1, <2>2, Zenon
<1>. QED  BY <1>1, <1>2, <1>3

LEMMA PartIn ==
  ASSUME NEW w, NEW bs, Weights(w, bs), NEW s \in {0, 1}, NEW i \in 0 .. Len(bs)
  PROVE  Part(w, bs, s, i) \in Nat
<1>1. Len(bs) \in 0 .. Len(bs)
  BY OfIs
<1>2. PICK a \in Nat, b \in Nat : a = Sums(Of(w, bs, 0))[Len(bs)] /\ b = Sums(Of(w, bs, s))[i]
  BY <1>1, OfSums
<1>. QED  BY <1>2 DEF Part

LEMMA PartStarts ==
  ASSUME NEW w, NEW bs, Weights(w, bs)
  PROVE  Part(w, bs, 0, 0) = 0
<1>1. Sums(Of(w, bs, 0))[0] = 0
  BY OfSums
<1>. QED  BY <1>1 DEF Part

(* A block of the stream adds its weight. *)
LEMMA PartStep ==
  ASSUME NEW w, NEW bs, Weights(w, bs), NEW i \in 1 .. Len(bs), NEW s \in {0, 1}, bs[i].s = s
  PROVE  Part(w, bs, s, i) = Part(w, bs, s, i - 1) + w[i]
<1>1. Len(bs) \in 0 .. Len(bs) /\ i - 1 \in 0 .. Len(bs)
  BY OfIs
<1>2. PICK a \in Nat : a = Sums(Of(w, bs, 0))[Len(bs)]
  BY <1>1, OfSums
<1>3. PICK b \in Nat : b = Sums(Of(w, bs, s))[i - 1]
  BY <1>1, OfSums
<1>4. PICK c \in Nat : c = w[i]
  BY OfIs
<1>5. Sums(Of(w, bs, s))[i] = Sums(Of(w, bs, s))[i - 1] + w[i]
  BY OfSums
<1>6. Part(w, bs, s, i) = (IF s = 1 THEN a ELSE 0) + (b + c)
  BY <1>2, <1>3, <1>4, <1>5, Zenon DEF Part
<1>7. Part(w, bs, s, i - 1) = (IF s = 1 THEN a ELSE 0) + b
  BY <1>2, <1>3, Zenon DEF Part
<1>8. (IF s = 1 THEN a ELSE 0) + (b + c) = ((IF s = 1 THEN a ELSE 0) + b) + c
  OBVIOUS
<1>. QED  BY <1>4, <1>6, <1>7, <1>8, Zenon

(* Blocks of the other stream add nothing. *)
LEMMA PartSkip ==
  ASSUME NEW w, NEW bs, Weights(w, bs), NEW s \in {0, 1},
         NEW i \in 0 .. Len(bs), NEW j \in 0 .. Len(bs), i <= j,
         \A k \in i + 1 .. j : bs[k].s # s
  PROVE  Part(w, bs, s, j) = Part(w, bs, s, i)
<1>1. ASSUME NEW k \in i + 1 .. j PROVE Of(w, bs, s)[k] = 0
  <2>1. k \in 1 .. Len(bs) /\ bs[k].s # s
    BY OfIs
  <2>. QED  BY <2>1, OfIs
<1>2. i \in Nat /\ j \in Nat /\ j <= Len(Of(w, bs, s)) /\ Of(w, bs, s) \in Seq(Nat)
  BY OfIs
<1>3. Sums(Of(w, bs, s))[j] = Sums(Of(w, bs, s))[i]
  BY <1>1, <1>2, SumsSkip
<1>. QED  BY <1>3 DEF Part

(* Stream 1 goes on from where stream 0 ended. *)
LEMMA PartNext ==
  ASSUME NEW w, NEW bs, Weights(w, bs)
  PROVE  Part(w, bs, 0, Len(bs)) = Part(w, bs, 1, 0)
<1>1. Len(bs) \in 0 .. Len(bs) /\ Len(Of(w, bs, 0)) = Len(bs)
  BY OfIs
<1>2. PICK a \in Nat : a = Sums(Of(w, bs, 0))[Len(bs)]
  BY <1>1, OfIs, SumsAre
<1>3. Sums(Of(w, bs, 1))[0] = 0
  BY OfIs, SumsAre
<1>. QED  BY <1>2, <1>3 DEF Part

(* The two streams have all the blocks. *)
LEMMA PartAll ==
  ASSUME NEW w, NEW bs, Weights(w, bs)
  PROVE  Part(w, bs, 1, Len(bs)) = Sums(w)[Len(bs)]
<1>. DEFINE f == Of(w, bs, 0)
            g == Of(w, bs, 1)
<1>1. f \in Seq(Nat) /\ g \in Seq(Nat) /\ Len(f) = Len(bs) /\ Len(g) = Len(bs)
  BY OfIs
<1>2. w \in Seq(Nat) /\ Len(w) = Len(bs)
  BY DEF Weights
<1>3. ASSUME NEW k \in 1 .. Len(f) PROVE w[k] = f[k] + g[k]
  <2>1. /\ f[k] = IF bs[k].s = 0 THEN w[k] ELSE 0
        /\ g[k] = IF bs[k].s = 1 THEN w[k] ELSE 0
        /\ bs[k].s \in {0, 1} /\ w[k] \in Nat
    BY <1>1, OfIs
  <2>2. PICK x \in Nat, y \in {0, 1} : x = w[k] /\ y = bs[k].s
    BY <2>1
  <2>3. f[k] = (IF y = 0 THEN x ELSE 0) /\ g[k] = IF y = 1 THEN x ELSE 0
    BY <2>1, <2>2
  <2>. HIDE DEF f, g
  <2>. QED  BY <2>2, <2>3
<1>. HIDE DEF f, g
<1>4. Sums(w)[Len(f)] = Sums(f)[Len(f)] + Sums(g)[Len(f)]
  BY <1>1, <1>2, <1>3, SumsAdd
<1>. QED  BY <1>1, <1>4 DEF Part, f, g

(* As many as there are. *)
LEMMA SumsOfOnes ==
  ASSUME NEW f \in Seq(Nat), \A k \in 1 .. Len(f) : f[k] = 1
  PROVE  Sums(f)[Len(f)] = Len(f)
<1>. DEFINE s(k) == Sums(f)[k]
            G == {x \in Nat : x <= Len(f) => s(x) = x}
<1>1. PICK n \in Nat : n = Len(f)
  OBVIOUS
<1>2. s(0) = 0 /\ \A k \in 1 .. n : s(k) = s(k - 1) + f[k]
  BY <1>1, SumsAre
<1>. HIDE DEF s
<1>3. 0 \in G
  BY <1>2
<1>4. ASSUME NEW x \in Nat, x \in G PROVE x + 1 \in G
  <2>. SUFFICES ASSUME x + 1 <= n PROVE s(x + 1) = x + 1
    BY <1>1
  <2>1. x + 1 \in 1 .. n /\ (x + 1) - 1 = x /\ s(x) = x
    BY <1>1, <1>4
  <2>. QED  BY <1>1, <1>2, <2>1
<1>5. Nat \subseteq G
  <2>. HIDE DEF G
  <2>. QED  BY <1>3, <1>4, AllNumbers
<1>. QED  BY <1>1, <1>5 DEF s
Ones(k) == [i \in 1 .. Blocks(k) |-> 1]

Datas(k) == [i \in 1 .. Blocks(k) |-> BlockOf(k, i).c]

(* What has been added before block i + 1 of stream s of chunk k.           *)
CountAt(k, s, i) == Sums(BlockCounts)[k - 1] + Part(Ones(k), conf.chunks[k].blocks, s, i)

DataAt(k, s, i) == Sums(DataSizes)[k - 1] + Part(Datas(k), conf.chunks[k].blocks, s, i)

-----------------------------------------------------------------------------
(* Where the walk is.                                                       *)

Fields == {"ofs", "cb", "hl", "stream", "inBlocks", "last", "second", "pos", "total", "n"}

Tallied(x, k, s, i) == x.n = CountAt(k, s, i) /\ x.total = DataAt(k, s, i)

(* In front of the first header of a stream. *)
AtStream(x, k) ==
  /\ ~x.inBlocks /\ x.stream \in {0, 1}
  /\ Tallied(x, k, x.stream, 0)

(* In front of a block of the stream. *)
AtBlock(x, k) ==
  /\ x.inBlocks /\ x.stream \in {0, 1}
  /\ \E i \in 1 .. Blocks(k) :
       /\ BlockOf(k, i).s = x.stream /\ x.last = BodyAt(k, i - 1)
       /\ x.second \in Nat /\ x.second < x.last
       /\ Tallied(x, k, x.stream, i - 1)

(* Behind the last block of a chunk, without its padding. *)
EndOf(k) ==
  HeadsAt(k) + BodyAt(k, Blocks(k) - 1) + HeadOf(k) + BlockOf(k, Blocks(k)).c

AtEnd(x, k) ==
  /\ ~x.inBlocks /\ x.stream = 2
  /\ x.pos = EndOf(k)
  /\ Tallied(x, k, 1, Blocks(k))

WalkAt(x) ==
  /\ DOMAIN x = Fields
  /\ \E k \in 1 .. Chunks :
       /\ x.ofs = HeadsAt(k) /\ x.hl = HeadOf(k)
       /\ AtStream(x, k) \/ AtBlock(x, k) \/ AtEnd(x, k)

Listed(x) == x.n = Sums(BlockCounts)[Chunks] /\ x.total = Sums(DataSizes)[Chunks]

WalkInv ==
  /\ Sound /\ phase # "corrupt"
  /\ phase = "info" => WalkAt(info)
  /\ phase = "listed" => Listed(info)

(* What does not change as long as the archive does not. *)
LEMMA Kept ==
  ASSUME conf' = conf
  PROVE  /\ Sound' = Sound /\ Encrypted' = Encrypted /\ Chunks' = Chunks
         /\ \A k : Blocks(k)' = Blocks(k) /\ HeadOf(k)' = HeadOf(k) /\ HeadsAt(k)' = HeadsAt(k)
         /\ \A k, i : BlockOf(k, i)' = BlockOf(k, i) /\ BodyAt(k, i)' = BodyAt(k, i)
         /\ \A k, s, i : CountAt(k, s, i)' = CountAt(k, s, i) /\ DataAt(k, s, i)' = DataAt(k, s, i)
         /\ BlockCounts' = BlockCounts /\ DataSizes' = DataSizes
<1>1. Encrypted' = Encrypted
  BY DEF Encrypted
<1>2. \A cb : HeadLen(cb)' = HeadLen(cb)
  BY <1>1 DEF HeadLen
<1>3. \A cb, b : BlockLen(cb, b)' = BlockLen(cb, b)
  BY <1>1, <1>2 DEF BlockLen
<1>4. \A ch, n : Body(ch, n)' = Body(ch, n)
  BY <1>2, <1>3 DEF Body
<1>5. \A ch : Prefix(ch)' = Prefix(ch)
  BY <1>1 DEF Prefix
<1>6. \A ch : ChunkLen(ch)' = ChunkLen(ch)
  BY <1>4, <1>5 DEF ChunkLen
<1>7. MagicEnd' = MagicEnd
  BY DEF MagicEnd
<1>8. \A k : ChunkStart(k)' = ChunkStart(k)
  BY <1>6, <1>7 DEF ChunkStart
<1>9. \A k : HeadsAt(k)' = HeadsAt(k)
  BY <1>5, <1>8 DEF HeadsAt
<1>10. \A k, i : BodyAt(k, i)' = BodyAt(k, i)
  BY <1>4 DEF BodyAt
<1>11. BlockCounts' = BlockCounts /\ DataSizes' = DataSizes
  BY DEF BlockCounts, DataSizes
<1>12. \A k : Blocks(k)' = Blocks(k) /\ HeadOf(k)' = HeadOf(k)
  BY <1>2 DEF Blocks, HeadOf
<1>13. \A k, i : BlockOf(k, i)' = BlockOf(k, i)
  BY DEF BlockOf
<1>14. \A k : Ones(k)' = Ones(k) /\ Datas(k)' = Datas(k)
  BY <1>12, <1>13 DEF Ones, Datas
<1>15. \A k, s, i : CountAt(k, s, i)' = CountAt(k, s, i) /\ DataAt(k, s, i)' = DataAt(k, s, i)
  BY <1>11, <1>14 DEF CountAt, DataAt
<1>16. Sound' = Sound
  BY DEF Sound
<1>17. Chunks' = Chunks
  BY DEF Chunks
<1>. QED  BY <1>1, <1>9, <1>10, <1>11, <1>12, <1>13, <1>15, <1>16, <1>17
-----------------------------------------------------------------------------
(* How the tallies of the archive grow. *)

LEMMA WeightsAre ==
  ASSUME Sound, NEW k \in 1 .. Chunks
  PROVE  /\ Weights(Ones(k), conf.chunks[k].blocks) /\ Weights(Datas(k), conf.chunks[k].blocks)
         /\ \A i \in 1 .. Blocks(k) : Ones(k)[i] = 1 /\ Datas(k)[i] = BlockOf(k, i).c
<1>. PICK bs : bs = conf.chunks[k].blocks
  OBVIOUS
<1>1. bs \in Seq([s : {0, 1}, c : Nat])
  <2>. PICK chs : chs = conf.chunks
    OBVIOUS
  <2>. DEFINE B == [s : {0, 1}, c : Nat]
              C == [cb : 1 .. 8, blocks : Seq(B)]
  <2>1. chs \in Seq(C) /\ k \in 1 .. Len(chs)
    BY DEF Sound, SoundArchive, Chunks
  <2>2. chs[k] \in C
    <3>. HIDE DEF C
    <3>. QED  BY <2>1, ElementOfSeq
  <2>3. chs[k].blocks \in Seq(B)
    <3>. HIDE DEF B
    <3>. QED  BY <2>2
  <2>. QED  BY <2>3
<1>2. PICK n \in Nat : n = Blocks(k) /\ n = Len(bs)
  BY SoundParts DEF Blocks
<1>3. \A i \in 1 .. n : BlockOf(k, i).c \in Nat
  BY <1>2, SoundParts
<1>4. Ones(k) \in Seq(Nat) /\ Len(Ones(k)) = n /\ \A i \in 1 .. n : Ones(k)[i] = 1
  BY <1>2 DEF Ones
<1>5. Datas(k) = [i \in 1 .. n |-> BlockOf(k, i).c]
  BY <1>2 DEF Datas
<1>6. Datas(k) \in [1 .. n -> Nat]
  BY <1>3, <1>5
<1>7. Datas(k) \in Seq(Nat) /\ Len(Datas(k)) = n /\ \A i \in 1 .. n : Datas(k)[i] = BlockOf(k, i).c
  BY <1>5, <1>6
<1>. QED  BY <1>1, <1>2, <1>4, <1>7 DEF Weights

(* What a chunk adds is what its two streams add. *)
LEMMA BeforeIs ==
  ASSUME Sound
  PROVE  /\ Sums(BlockCounts)[0] = 0 /\ Sums(DataSizes)[0] = 0
         /\ \A k \in 0 .. Chunks : Sums(BlockCounts)[k] \in Nat /\ Sums(DataSizes)[k] \in Nat
         /\ \A k \in 1 .. Chunks :
              /\ Sums(BlockCounts)[k] = CountAt(k, 1, Blocks(k))
              /\ Sums(DataSizes)[k] = DataAt(k, 1, Blocks(k))
<1>1. PICK n \in Nat : n = Chunks
  BY SoundParts
<1>2. BlockCounts = [k \in 1 .. n |-> Blocks(k)]
  BY <1>1 DEF BlockCounts, Blocks, Chunks
<1>3. DataSizes = [k \in 1 .. n |-> Sums(Datas(k))[Blocks(k)]]
  BY <1>1 DEF DataSizes, Datas, Blocks, BlockOf, Chunks
<1>4. ASSUME NEW k \in 1 .. n
      PROVE  /\ Blocks(k) \in Nat /\ Sums(Datas(k))[Blocks(k)] \in Nat
             /\ Part(Ones(k), conf.chunks[k].blocks, 1, Blocks(k)) = Blocks(k)
             /\ Part(Datas(k), conf.chunks[k].blocks, 1, Blocks(k)) = Sums(Datas(k))[Blocks(k)]
  <2>. PICK bs : bs = conf.chunks[k].blocks
    OBVIOUS
  <2>1. Weights(Ones(k), bs) /\ Weights(Datas(k), bs) /\ \A i \in 1 .. Blocks(k) : Ones(k)[i] = 1
    BY <1>1, WeightsAre
  <2>2. Blocks(k) = Len(bs) /\ Blocks(k) \in Nat
    BY <1>1, SoundParts DEF Blocks
  <2>3. Ones(k) \in Seq(Nat) /\ Datas(k) \in Seq(Nat) /\ Len(Ones(k)) = Len(bs) /\ Len(Datas(k)) = Len(bs)
    BY <2>1 DEF Weights
  <2>4. Blocks(k) \in 0 .. Len(Datas(k))
    BY <2>2, <2>3
  <2>5. Sums(Datas(k))[Blocks(k)] \in Nat
    BY <2>3, <2>4, SumsAre
  <2>6. Sums(Ones(k))[Len(Ones(k))] = Len(Ones(k))
    BY <2>1, <2>2, <2>3, SumsOfOnes
  <2>7. Part(Ones(k), bs, 1, Len(bs)) = Sums(Ones(k))[Len(bs)]
        /\ Part(Datas(k), bs, 1, Len(bs)) = Sums(Datas(k))[Len(bs)]
    BY <2>1, PartAll
  <2>. QED  BY <2>2, <2>3, <2>5, <2>6, <2>7
<1>5. BlockCounts \in [1 .. n -> Nat] /\ DataSizes \in [1 .. n -> Nat]
  BY <1>2, <1>3, <1>4
<1>6. BlockCounts \in Seq(Nat) /\ DataSizes \in Seq(Nat) /\ Len(BlockCounts) = n /\ Len(DataSizes) = n
  BY <1>5
<1>7. ASSUME NEW k \in 1 .. n
      PROVE  /\ Sums(BlockCounts)[k] = CountAt(k, 1, Blocks(k))
             /\ Sums(DataSizes)[k] = DataAt(k, 1, Blocks(k))
  <2>1. Sums(BlockCounts)[k] = Sums(BlockCounts)[k - 1] + BlockCounts[k]
        /\ Sums(DataSizes)[k] = Sums(DataSizes)[k - 1] + DataSizes[k]
    BY <1>6, SumsAre
  <2>2. BlockCounts[k] = Part(Ones(k), conf.chunks[k].blocks, 1, Blocks(k))
        /\ DataSizes[k] = Part(Datas(k), conf.chunks[k].blocks, 1, Blocks(k))
    BY <1>2, <1>3, <1>4
  <2>. QED  BY <2>1, <2>2, Zenon DEF CountAt, DataAt
<1>8. /\ Sums(BlockCounts)[0] = 0 /\ Sums(DataSizes)[0] = 0
      /\ \A k \in 0 .. n : Sums(BlockCounts)[k] \in Nat /\ Sums(DataSizes)[k] \in Nat
  BY <1>6, SumsAre
<1>. QED  BY <1>1, <1>7, <1>8

LEMMA TalliesStart ==
  ASSUME Sound, NEW k \in 1 .. Chunks
  PROVE  /\ CountAt(1, 0, 0) = 0 /\ DataAt(1, 0, 0) = 0
         /\ k < Chunks => /\ CountAt(k + 1, 0, 0) = CountAt(k, 1, Blocks(k))
                          /\ DataAt(k + 1, 0, 0) = DataAt(k, 1, Blocks(k))
<1>1. ASSUME NEW l \in 1 .. Chunks
      PROVE  CountAt(l, 0, 0) = Sums(BlockCounts)[l - 1] /\ DataAt(l, 0, 0) = Sums(DataSizes)[l - 1]
  <2>1. Part(Ones(l), conf.chunks[l].blocks, 0, 0) = 0 /\ Part(Datas(l), conf.chunks[l].blocks, 0, 0) = 0
    BY WeightsAre, PartStarts
  <2>2. l - 1 \in 0 .. Chunks
    BY SoundParts
  <2>3. PICK a \in Nat, b \in Nat : a = Sums(BlockCounts)[l - 1] /\ b = Sums(DataSizes)[l - 1]
    BY <2>2, BeforeIs
  <2>. QED  BY <2>1, <2>3 DEF CountAt, DataAt
<1>2. 1 \in 1 .. Chunks /\ 1 - 1 = 0 /\ (k + 1) - 1 = k /\ (k < Chunks => k + 1 \in 1 .. Chunks)
  BY SoundParts
<1>3. CountAt(1, 0, 0) = 0 /\ DataAt(1, 0, 0) = 0
  BY <1>1, <1>2, BeforeIs
<1>4. ASSUME k < Chunks
      PROVE  CountAt(k + 1, 0, 0) = CountAt(k, 1, Blocks(k)) /\ DataAt(k + 1, 0, 0) = DataAt(k, 1, Blocks(k))
  <2>1. CountAt(k + 1, 0, 0) = Sums(BlockCounts)[k] /\ DataAt(k + 1, 0, 0) = Sums(DataSizes)[k]
    BY <1>1, <1>2, <1>4
  <2>. QED  BY <2>1, BeforeIs
<1>. QED  BY <1>3, <1>4

LEMMA TalliesStep ==
  ASSUME Sound, NEW k \in 1 .. Chunks, NEW i \in 1 .. Blocks(k), NEW s \in {0, 1}, BlockOf(k, i).s = s
  PROVE  /\ CountAt(k, s, i) = CountAt(k, s, i - 1) + 1
         /\ DataAt(k, s, i) = DataAt(k, s, i - 1) + BlockOf(k, i).c
<1>. PICK bs : bs = conf.chunks[k].blocks
  OBVIOUS
<1>1. Weights(Ones(k), bs) /\ Weights(Datas(k), bs) /\ Ones(k)[i] = 1 /\ Datas(k)[i] = BlockOf(k, i).c
  BY WeightsAre
<1>2. Blocks(k) = Len(bs) /\ Len(bs) \in Nat /\ bs[i].s = s
  BY SoundParts DEF Blocks, BlockOf
<1>3. k - 1 \in 0 .. Chunks /\ i - 1 \in 0 .. Len(bs) /\ i \in 1 .. Len(bs)
  BY <1>2, SoundParts
<1>4. PICK a \in Nat, b \in Nat : a = Sums(BlockCounts)[k - 1] /\ b = Sums(DataSizes)[k - 1]
  BY <1>3, BeforeIs
<1>5. PICK p \in Nat, q \in Nat : p = Part(Ones(k), bs, s, i - 1) /\ q = Part(Datas(k), bs, s, i - 1)
  BY <1>1, <1>3, PartIn
<1>6. PICK c \in Nat : c = BlockOf(k, i).c
  BY SoundParts
<1>7. Part(Ones(k), bs, s, i) = p + 1 /\ Part(Datas(k), bs, s, i) = q + c
  <2>1. ASSUME NEW w, Weights(w, bs) PROVE Part(w, bs, s, i) = Part(w, bs, s, i - 1) + w[i]
    BY <1>2, <1>3, <2>1, PartStep, Zenon
  <2>. QED  BY <1>1, <1>5, <1>6, <2>1, Zenon
<1>8. CountAt(k, s, i) = a + (p + 1) /\ CountAt(k, s, i - 1) = a + p
  BY <1>4, <1>5, <1>7, Zenon DEF CountAt
<1>9. DataAt(k, s, i) = b + (q + c) /\ DataAt(k, s, i - 1) = b + q
  BY <1>4, <1>5, <1>7, Zenon DEF DataAt
<1>10. a + (p + 1) = (a + p) + 1 /\ b + (q + c) = (b + q) + c
  OBVIOUS
<1>. QED  BY <1>6, <1>8, <1>9, <1>10, Zenon

LEMMA TalliesSkip ==
  ASSUME Sound, NEW k \in 1 .. Chunks, NEW s \in {0, 1},
         NEW i \in 0 .. Blocks(k), NEW j \in 0 .. Blocks(k), i <= j,
         \A m \in i + 1 .. j : BlockOf(k, m).s # s
  PROVE  CountAt(k, s, j) = CountAt(k, s, i) /\ DataAt(k, s, j) = DataAt(k, s, i)
<1>. PICK bs : bs = conf.chunks[k].blocks
  OBVIOUS
<1>1. Weights(Ones(k), bs) /\ Weights(Datas(k), bs)
  BY WeightsAre
<1>2. Blocks(k) = Len(bs) /\ \A m \in i + 1 .. j : bs[m].s # s
  BY DEF Blocks, BlockOf
<1>3. Part(Ones(k), bs, s, j) = Part(Ones(k), bs, s, i) /\ Part(Datas(k), bs, s, j) = Part(Datas(k), bs, s, i)
  <2>1. i \in 0 .. Len(bs) /\ j \in 0 .. Len(bs) /\ \A m \in i + 1 .. j : bs[m].s # s
    BY <1>2, Zenon
  <2>2. ASSUME NEW w, Weights(w, bs) PROVE Part(w, bs, s, j) = Part(w, bs, s, i)
    BY <2>1, <2>2, PartSkip, Zenon
  <2>. QED  BY <1>1, <2>2, Zenon
<1>. QED  BY <1>3, Zenon DEF CountAt, DataAt

LEMMA TalliesNext ==
  ASSUME Sound, NEW k \in 1 .. Chunks
  PROVE  CountAt(k, 0, Blocks(k)) = CountAt(k, 1, 0) /\ DataAt(k, 0, Blocks(k)) = DataAt(k, 1, 0)
<1>. PICK bs : bs = conf.chunks[k].blocks
  OBVIOUS
<1>1. Weights(Ones(k), bs) /\ Weights(Datas(k), bs)
  BY WeightsAre
<1>2. Blocks(k) = Len(bs)
  BY DEF Blocks
<1>3. Part(Ones(k), bs, 0, Len(bs)) = Part(Ones(k), bs, 1, 0)
      /\ Part(Datas(k), bs, 0, Len(bs)) = Part(Datas(k), bs, 1, 0)
  BY <1>1, PartNext
<1>. QED  BY <1>2, <1>3, Zenon DEF CountAt, DataAt
-----------------------------------------------------------------------------
(* Each step of get_fileinfo goes from one such place to the next.           *)

(* The invariant says the same of the walk of the next state. *)
LEMMA WalkPrimed ==
  ASSUME conf' = conf, NEW x, WalkAt(x), info' = x
  PROVE  WalkAt(info)'
<1>1. PICK k \in 1 .. Chunks :
        /\ x.ofs = HeadsAt(k) /\ x.hl = HeadOf(k)
        /\ AtStream(x, k) \/ AtBlock(x, k) \/ AtEnd(x, k)
  BY DEF WalkAt
<1>2. DOMAIN info' = Fields
  BY DEF WalkAt
<1>3. AtStream(x, k) => AtStream(info, k)'
  BY Kept DEF AtStream, Tallied
<1>4. AtBlock(x, k) => AtBlock(info, k)'
  BY Kept DEF AtBlock, Tallied
<1>5. AtEnd(x, k) => AtEnd(info, k)'
  BY Kept DEF AtEnd, Tallied, EndOf
<1>6. k \in 1 .. Chunks' /\ info'.ofs = HeadsAt(k)' /\ info'.hl = HeadOf(k)'
  BY <1>1, Kept
<1>. QED  BY <1>1, <1>2, <1>3, <1>4, <1>5, <1>6 DEF WalkAt

(* In front of the first chunk. *)
LEMMA WalkStarts ==
  ASSUME Sound, NEW x,
         x = [ofs |-> InfoOffset(conf.version, conf.comment) + 2 + (IF Encrypted THEN 0 ELSE conf.chunks[1].cb),
              cb |-> IF Encrypted THEN 8 ELSE conf.chunks[1].cb, hl |-> HeadLen(conf.chunks[1].cb),
              stream |-> 0, inBlocks |-> FALSE, last |-> 0, second |-> 0, pos |-> 0, total |-> 0, n |-> 0]
  PROVE  WalkAt(x)
<1>1. 1 \in 1 .. Chunks /\ conf.chunks[1].cb \in 1 .. 8
  BY SoundParts
<1>2. InfoOffset(conf.version, conf.comment) = MagicEnd
  <2>1. conf.version \in 6 .. 14 /\ Len(conf.comment) \in Nat
    BY DEF Sound, SoundArchive, Versions
  <2>. PICK v, c : v = conf.version /\ c = conf.comment
    OBVIOUS
  <2>2. v \in 6 .. 14 /\ Len(c) \in Nat
    BY <2>1
  <2>3. InfoOffset(v, c) = MagicLen(v) + CommentLen(v, c)
    BY <2>2 DEF InfoOffset, MagicLen, CommentLen
  <2>. QED  BY <2>3 DEF MagicEnd
<1>3. PICK m \in Nat, cb \in 1 .. 8 : m = MagicEnd /\ cb = conf.chunks[1].cb
  BY <1>1, StartIs
<1>4. x.ofs = m + 2 + (IF Encrypted THEN 0 ELSE cb)
  BY <1>2, <1>3
<1>5. HeadsAt(1) = m + (IF Encrypted THEN 2 ELSE 2 + cb)
  BY <1>1, <1>3, StartIs
<1>6. x.ofs = HeadsAt(1)
  BY <1>4, <1>5
<1>7. DOMAIN x = Fields /\ x.hl = HeadOf(1) /\ x.stream = 0 /\ x.inBlocks = FALSE /\ x.total = 0 /\ x.n = 0
  BY DEF Fields, HeadOf
<1>8. AtStream(x, 1)
  BY <1>1, <1>7, TalliesStart DEF AtStream, Tallied
<1>. QED  BY <1>1, <1>6, <1>7, <1>8 DEF WalkAt

(* The first header of a stream leads to the stream's first block. *)
LEMMA StreamMoves ==
  ASSUME Sound, NEW x, WalkAt(x), ~x.inBlocks, x.stream < 2,
         NEW y, y = [x EXCEPT !.inBlocks = TRUE, !.last = HeaderAt(x.ofs + x.stream * x.hl).next, !.second = 0]
  PROVE  ~(HeaderAt(x.ofs + x.stream * x.hl).c < 0) /\ WalkAt(y)
<1>1. PICK k \in 1 .. Chunks :
        /\ x.ofs = HeadsAt(k) /\ x.hl = HeadOf(k)
        /\ AtStream(x, k) \/ AtBlock(x, k) \/ AtEnd(x, k)
  BY DEF WalkAt
<1>2. AtStream(x, k)
  BY <1>1 DEF AtBlock, AtEnd
<1>3. PICK s \in {0, 1} : s = x.stream
  BY <1>2 DEF AtStream
<1>4. HeaderAt(x.ofs + x.stream * x.hl) = [c |-> 0, next |-> NextBlock(conf.chunks[k], s, 0)]
  BY <1>1, <1>3, HeaderOfStream
<1>5. PICK n \in Nat : n = Blocks(k)
  BY SoundParts
<1>6. PICK j \in 1 .. n :
        /\ BlockOf(k, j).s = s /\ NextBlock(conf.chunks[k], s, 0) = BodyAt(k, j - 1)
        /\ \A m \in 1 .. j - 1 : BlockOf(k, m).s # s
  <2>1. 0 \in 0 .. Blocks(k) /\ 0 + 1 = 1
    BY <1>5
  <2>2. \E j \in 1 .. Blocks(k) : BlockOf(k, j).s = s
    <3>1. n >= 1 /\ BlockOf(k, n).s = 1 /\ \E i \in 1 .. n : BlockOf(k, i).s = 0
      BY <1>5, SoundParts
    <3>2. n \in 1 .. n
      BY <3>1
    <3>. QED  BY <1>3, <1>5, <3>1, <3>2
  <2>. QED  BY <1>5, <2>1, <2>2, NextIs
<1>7. DOMAIN x = Fields
  BY DEF WalkAt
<1>8. /\ DOMAIN y = Fields /\ y.ofs = x.ofs /\ y.hl = x.hl /\ y.stream = x.stream
      /\ y.n = x.n /\ y.total = x.total /\ y.inBlocks = TRUE /\ y.second = 0
      /\ y.last = NextBlock(conf.chunks[k], s, 0)
  BY <1>4, <1>7 DEF Fields
<1>9. CountAt(k, s, j - 1) = CountAt(k, s, 0) /\ DataAt(k, s, j - 1) = DataAt(k, s, 0)
  <2>1. 0 \in 0 .. Blocks(k) /\ j - 1 \in 0 .. Blocks(k) /\ 0 <= j - 1 /\ 0 + 1 = 1
    BY <1>5
  <2>2. \A m \in 0 + 1 .. j - 1 : BlockOf(k, m).s # s
    BY <1>6, <2>1
  <2>. QED  BY <2>1, <2>2, TalliesSkip
<1>10. BodyAt(k, j - 1) > 0
  <2>1. PICK a \in Nat, h \in Nat, c \in Nat : a = HeadsAt(k) /\ h = HeadOf(k) /\ c = BodyAt(k, j - 1) /\ h >= 4
    <3>1. j - 1 \in 0 .. Blocks(k)
      BY <1>5
    <3>. QED  BY <3>1, StartIs, HeadIs, BodyIs
  <2>2. BodyAt(k, 0) = 2 * h
    BY <2>1, BodyIs
  <2>3. a + c >= a + 2 * h
    BY <1>5, <2>1, <2>2, BlockIn
  <2>. QED  BY <2>1, <2>3
<1>11. AtBlock(y, k)
  <2>1. y.inBlocks /\ y.stream \in {0, 1} /\ y.stream = s
    BY <1>3, <1>8
  <2>2. Tallied(y, k, s, j - 1)
    BY <1>2, <1>3, <1>8, <1>9 DEF AtStream, Tallied
  <2>3. BlockOf(k, j).s = y.stream /\ y.last = BodyAt(k, j - 1) /\ y.second \in Nat /\ y.second < y.last
    BY <1>6, <1>8, <1>10, <2>1
  <2>4. j \in 1 .. Blocks(k)
    BY <1>5
  <2>. QED  BY <2>1, <2>2, <2>3, <2>4 DEF AtBlock
<1>12. ~(HeaderAt(x.ofs + x.stream * x.hl).c < 0)
  BY <1>4
<1>. QED  BY <1>1, <1>8, <1>11, <1>12 DEF WalkAt
(* A block leads to the next one of its stream, from the last one of stream   *)
(* 0 to stream 1, and from the last one of stream 1 to the end of the chunk.  *)
BlockOffset(x) == x.ofs + x.last

BlockBad(x) ==
  \/ x.last # 0 /\ x.last <= x.second
  \/ BlockOffset(x) + (IF Encrypted THEN x.hl ELSE 0) > ArchiveLen
  \/ HeaderAt(BlockOffset(x)).c < 0

BlockRead(x, y) ==
  LET b == HeaderAt(BlockOffset(x))
  IN y = [x EXCEPT !.second = x.last, !.last = b.next, !.inBlocks = b.next # 0,
                   !.stream = IF b.next = 0 THEN @ + 1 ELSE @,
                   !.total = @ + b.c, !.n = @ + 1, !.pos = BlockOffset(x) + x.hl + b.c]

LEMMA BlockMoves ==
  ASSUME Sound, NEW x, WalkAt(x), x.inBlocks, NEW y, BlockRead(x, y)
  PROVE  ~BlockBad(x) /\ WalkAt(y)
<1>1. PICK k \in 1 .. Chunks :
        /\ x.ofs = HeadsAt(k) /\ x.hl = HeadOf(k)
        /\ AtStream(x, k) \/ AtBlock(x, k) \/ AtEnd(x, k)
  BY DEF WalkAt
<1>2. AtBlock(x, k)
  BY <1>1 DEF AtStream, AtEnd
<1>3. PICK s \in {0, 1} : s = x.stream
  BY <1>2 DEF AtBlock
<1>4. PICK i \in 1 .. Blocks(k) :
        /\ BlockOf(k, i).s = s /\ x.last = BodyAt(k, i - 1)
        /\ x.second \in Nat /\ x.second < x.last
        /\ x.n = CountAt(k, s, i - 1) /\ x.total = DataAt(k, s, i - 1)
  BY <1>2, <1>3 DEF AtBlock, Tallied
<1>5. PICK n \in Nat, a \in Nat, h \in Nat, c \in Nat, l \in Nat, p \in Nat, e \in Nat :
        /\ n = Blocks(k) /\ a = HeadsAt(k) /\ h = HeadOf(k) /\ c = BlockOf(k, i).c
        /\ l = LenOf(k, i) /\ p = BodyAt(k, i - 1) /\ e = ChunkStart(k + 1)
  <2>1. i - 1 \in 0 .. Blocks(k) /\ k + 1 \in 1 .. Chunks + 1
    BY SoundParts
  <2>. QED  BY <2>1, SoundParts, StartIs, HeadIs, LenIs, BodyIs
<1>6. h >= 4 /\ l >= h + c /\ a + p + l <= e
  BY <1>5, HeadIs, LenIs, BlockIn
<1>7. BlockOffset(x) = a + p
  BY <1>1, <1>4, <1>5 DEF BlockOffset
<1>. DEFINE nx == NextBlock(conf.chunks[k], s, i)
<1>8. HeaderAt(BlockOffset(x)) = [c |-> c, next |-> nx]
  BY <1>4, <1>5, <1>7, HeaderOfBlock
<1>9. ~BlockBad(x)
  <2>1. ArchiveLen \in Nat /\ ArchiveLen >= e + 16
    <3>1. PICK f \in Nat : f = ChunkStart(Chunks + 1)
      <4>1. Chunks + 1 \in 1 .. Chunks + 1
        BY SoundParts
      <4>. QED  BY <4>1, StartIs
    <3>2. f >= e
      <4>1. k = Chunks \/ (k < Chunks + 1 /\ k \in 1 .. Chunks + 1 /\ Chunks + 1 \in 1 .. Chunks + 1)
        BY SoundParts
      <4>. QED  BY <1>5, <3>1, <4>1, StartIs
    <3>3. ArchiveLen = f + 16
      BY <3>1 DEF ArchiveLen, HASH_LEN, Chunks
    <3>. QED  BY <3>2, <3>3
  <2>2. ~(BlockOffset(x) + (IF Encrypted THEN x.hl ELSE 0) > ArchiveLen)
    <3>1. BlockOffset(x) + (IF Encrypted THEN x.hl ELSE 0) = a + p + (IF Encrypted THEN h ELSE 0)
      BY <1>1, <1>5, <1>7
    <3>2. PICK t \in Nat : t = ArchiveLen /\ t >= e + 16
      BY <2>1
    <3>3. a + p + (IF Encrypted THEN h ELSE 0) <= t
      BY <1>6, <3>2
    <3>4. ~(a + p + (IF Encrypted THEN h ELSE 0) > t)
      BY <3>3
    <3>. QED  BY <3>1, <3>2, <3>4
  <2>3. ~(x.last <= x.second)
    BY <1>4, <1>5
  <2>4. ~(HeaderAt(BlockOffset(x)).c < 0)
    BY <1>8
  <2>. QED  BY <2>2, <2>3, <2>4, Zenon DEF BlockBad
<1>. HIDE DEF nx
<1>10. DOMAIN x = Fields
  BY DEF WalkAt
<1>11. /\ DOMAIN y = Fields /\ y.ofs = x.ofs /\ y.hl = x.hl
       /\ y.second = x.last /\ y.last = nx /\ y.inBlocks = (nx # 0)
       /\ y.stream = (IF nx = 0 THEN x.stream + 1 ELSE x.stream)
       /\ y.total = x.total + c /\ y.n = x.n + 1 /\ y.pos = BlockOffset(x) + x.hl + c
  <2>1. y = [x EXCEPT !.second = x.last, !.last = nx, !.inBlocks = nx # 0,
                      !.stream = IF nx = 0 THEN @ + 1 ELSE @,
                      !.total = @ + c, !.n = @ + 1, !.pos = BlockOffset(x) + x.hl + c]
    BY <1>8 DEF BlockRead
  <2>. QED  BY <1>10, <2>1 DEF Fields
<1>12. y.n = CountAt(k, s, i) /\ y.total = DataAt(k, s, i)
  <2>1. CountAt(k, s, i) = CountAt(k, s, i - 1) + 1 /\ DataAt(k, s, i) = DataAt(k, s, i - 1) + c
    BY <1>4, <1>5, TalliesStep
  <2>. QED  BY <1>4, <1>11, <2>1
<1>13. i \in 0 .. Blocks(k)
  BY <1>5
<1>14. CASE nx = 0 /\ \A j \in i + 1 .. Blocks(k) : BlockOf(k, j).s # s
  <2>1. n \in 0 .. Blocks(k) /\ i <= n
    BY <1>5
  <2>2. CountAt(k, s, n) = CountAt(k, s, i) /\ DataAt(k, s, n) = DataAt(k, s, i)
    BY <1>5, <1>13, <1>14, <2>1, TalliesSkip
  <2>3. ~y.inBlocks /\ y.stream = s + 1
    BY <1>3, <1>11, <1>14
  <2>4. CASE s = 0
    <3>1. y.n = CountAt(k, 1, 0) /\ y.total = DataAt(k, 1, 0)
      BY <1>5, <1>12, <2>2, <2>4, TalliesNext
    <3>2. AtStream(y, k)
      BY <2>3, <2>4, <3>1 DEF AtStream, Tallied
    <3>. QED  BY <1>1, <1>9, <1>11, <3>2 DEF WalkAt
  <2>5. CASE s = 1
    <3>1. i = n
      <4>1. BlockOf(k, n).s = 1 /\ n >= 1
        BY <1>5, SoundParts
      <4>2. n \notin i + 1 .. n
        BY <1>5, <1>14, <2>5, <4>1
      <4>. QED  BY <1>5, <4>2
    <3>2. y.pos = EndOf(k)
      BY <1>1, <1>5, <1>7, <1>11, <3>1 DEF EndOf
    <3>3. AtEnd(y, k)
      BY <1>5, <1>12, <2>3, <2>5, <3>1, <3>2 DEF AtEnd, Tallied
    <3>. QED  BY <1>1, <1>9, <1>11, <3>3 DEF WalkAt
  <2>. QED  BY <2>4, <2>5
<1>15. CASE \E j \in i + 1 .. Blocks(k) :
              /\ BlockOf(k, j).s = s /\ nx = BodyAt(k, j - 1)
              /\ \A m \in i + 1 .. j - 1 : BlockOf(k, m).s # s
  <2>1. PICK j \in i + 1 .. Blocks(k) :
              /\ BlockOf(k, j).s = s /\ nx = BodyAt(k, j - 1)
              /\ \A m \in i + 1 .. j - 1 : BlockOf(k, m).s # s
    BY <1>15
  <2>2. j \in 1 .. Blocks(k) /\ j - 1 \in 0 .. Blocks(k) /\ i - 1 \in 0 .. Blocks(k) /\ i <= j - 1
        /\ i - 1 < j - 1 /\ (i - 1) + 1 = i
    BY <1>5
  <2>3. CountAt(k, s, j - 1) = CountAt(k, s, i) /\ DataAt(k, s, j - 1) = DataAt(k, s, i)
    BY <1>13, <2>1, <2>2, TalliesSkip
  <2>4. nx \in Nat /\ p < nx
    <3>1. PICK q \in Nat : q = BodyAt(k, j - 1)
      BY <2>2, BodyIs
    <3>2. p + l <= q
      BY <1>5, <2>2, <3>1, BodyIs
    <3>. QED  BY <1>6, <2>1, <3>1, <3>2
  <2>5. nx # 0
    BY <2>4
  <2>6. y.inBlocks /\ y.stream = s
    BY <1>3, <1>11, <2>5
  <2>7. y.second \in Nat /\ y.second < y.last
    BY <1>4, <1>5, <1>11, <2>4
  <2>8. AtBlock(y, k)
    BY <1>11, <1>12, <2>1, <2>2, <2>3, <2>6, <2>7 DEF AtBlock, Tallied
  <2>. QED  BY <1>1, <1>9, <1>11, <2>8 DEF WalkAt
<1>. QED  BY <1>13, <1>14, <1>15, NextIs DEF nx
(* The end of the last chunk is told from that of another, plain by the hash  *)
(* and encrypted by the room a chunk would need.                              *)
EndAt(x) ==
  \/ x.pos >= ArchiveLen - HASH_LEN
  \/ Encrypted /\ x.pos + x.hl + HASH_LEN > ArchiveLen

LEMMA EndTells ==
  ASSUME Sound, NEW k \in 1 .. Chunks, NEW x, AtEnd(x, k), x.hl = HeadOf(k)
  PROVE  /\ k = Chunks => EndAt(x)
         /\ k < Chunks => /\ ~EndAt(x)
                          /\ x.pos + (IF Encrypted THEN SALT_LEN ELSE 0) = ChunkStart(k + 1)
<1>1. PICK n \in Nat, a \in Nat, h \in Nat, c \in Nat, p \in Nat, e \in Nat, f \in Nat :
        /\ n = Blocks(k) /\ a = HeadsAt(k) /\ h = HeadOf(k) /\ c = BlockOf(k, n).c
        /\ p = BodyAt(k, n - 1) /\ e = ChunkStart(k + 1) /\ f = ChunkStart(Chunks + 1) /\ n >= 1
  <2>1. /\ Blocks(k) \in 1 .. Blocks(k) /\ Blocks(k) - 1 \in 0 .. Blocks(k)
        /\ k + 1 \in 1 .. Chunks + 1 /\ Chunks + 1 \in 1 .. Chunks + 1 /\ Blocks(k) \in Nat
    BY SoundParts
  <2>2. BlockOf(k, Blocks(k)).c \in Nat
    BY <2>1, SoundParts
  <2>3. HeadsAt(k) \in Nat /\ ChunkStart(k + 1) \in Nat /\ ChunkStart(Chunks + 1) \in Nat
    BY <2>1, StartIs
  <2>4. HeadOf(k) \in Nat /\ BodyAt(k, Blocks(k) - 1) \in Nat
    BY <2>1, HeadIs, BodyIs
  <2>5. PICK n \in Nat : n = Blocks(k) /\ n >= 1
    BY <2>1, SoundParts
  <2>. QED  BY <2>2, <2>3, <2>4, <2>5
<1>. DEFINE tail == IF Encrypted THEN 8 + (IF c >= 16 THEN c ELSE 16) ELSE c
<1>2. x.pos = a + p + h + c /\ x.hl = h
  BY <1>1 DEF AtEnd, EndOf
<1>3. e = a + p + h + tail
  <2>1. n \in 1 .. n /\ n \in 1 .. Blocks(k)
    BY <1>1
  <2>2. LenOf(k, n) = h + tail
    BY <1>1, <2>1, LenIs
  <2>3. BodyAt(k, n) = p + (h + tail)
    BY <1>1, <2>1, <2>2, BodyIs
  <2>4. e = a + (p + (h + tail))
    BY <1>1, <2>3, StartIs
  <2>. QED  BY <2>4
<1>4. ArchiveLen = f + 16
  BY <1>1 DEF ArchiveLen, HASH_LEN, Chunks
<1>5. Encrypted => h = 33
  BY <1>1, HeadIs
<1>6. ASSUME k = Chunks PROVE EndAt(x)
  <2>1. e = f
    BY <1>1, <1>6
  <2>2. CASE Encrypted
    <3>1. (a + p + h + c) + h + 16 > f + 16
      BY <1>3, <1>5, <2>1, <2>2
    <3>. QED  BY <1>2, <1>4, <2>2, <3>1 DEF EndAt, HASH_LEN
  <2>3. CASE ~Encrypted
    <3>1. a + p + h + c >= (f + 16) - 16
      BY <1>3, <2>1, <2>3
    <3>. QED  BY <1>2, <1>4, <3>1 DEF EndAt, HASH_LEN
  <2>. QED  BY <2>2, <2>3
<1>7. ASSUME k < Chunks
      PROVE  ~EndAt(x) /\ x.pos + (IF Encrypted THEN SALT_LEN ELSE 0) = ChunkStart(k + 1)
  <2>1. k + 1 \in 1 .. Chunks /\ k + 1 \in 1 .. Chunks + 1 /\ k + 2 \in 1 .. Chunks + 1
        /\ Chunks + 1 \in 1 .. Chunks + 1 /\ k + 1 < Chunks + 1
    BY <1>7, SoundParts
  <2>2. Encrypted => c >= 16
    BY <1>1, <1>7, SoundParts
  <2>3. f >= e + 2 + 66 \/ (~Encrypted /\ f > e)
    <3>1. PICK b \in Nat, g \in Nat, r \in Nat, w \in Nat :
            /\ b = HeadsAt(k + 1) /\ g = BodyAt(k + 1, 0) /\ r = HeadOf(k + 1)
            /\ w = ChunkStart((k + 1) + 1)
      <4>1. 0 \in 0 .. Blocks(k + 1) /\ (k + 1) + 1 \in 1 .. Chunks + 1
        BY <2>1, SoundParts
      <4>. QED  BY <2>1, <4>1, StartIs, HeadIs, BodyIs
    <3>2. b >= e + 2
      BY <1>1, <2>1, <3>1, StartIs
    <3>3. w >= b + g
      <4>1. PICK l \in Nat : l = LenOf(k + 1, 1)
        <5>1. 1 \in 1 .. Blocks(k + 1)
          BY <2>1, SoundParts
        <5>. QED  BY <2>1, <5>1, LenIs
      <4>2. 1 \in 1 .. Blocks(k + 1)
        BY <2>1, SoundParts
      <4>3. b + BodyAt(k + 1, 1 - 1) + l <= w
        BY <2>1, <3>1, <4>1, <4>2, BlockIn
      <4>4. 1 - 1 = 0
        OBVIOUS
      <4>. QED  BY <3>1, <4>1, <4>3, <4>4
    <3>4. g = 2 * r /\ (Encrypted => r = 33)
      BY <2>1, <3>1, BodyIs, HeadIs
    <3>5. w <= f
      BY <1>1, <2>1, <3>1, StartIs
    <3>. QED  BY <3>2, <3>3, <3>4, <3>5
  <2>4. CASE Encrypted
    <3>1. a + p + h + c + 8 = e
      BY <1>3, <2>2, <2>4
    <3>2. f >= e + 68
      BY <2>3, <2>4
    <3>3. ~(a + p + h + c >= (f + 16) - 16) /\ ~((a + p + h + c) + h + 16 > f + 16)
      BY <1>5, <2>4, <3>1, <3>2
    <3>4. ~EndAt(x)
      BY <1>2, <1>4, <3>3 DEF EndAt, HASH_LEN
    <3>. QED  BY <1>1, <1>2, <2>4, <3>1, <3>4 DEF SALT_LEN
  <2>5. CASE ~Encrypted
    <3>1. a + p + h + c = e
      BY <1>3, <2>5
    <3>2. ~(a + p + h + c >= (f + 16) - 16)
      BY <2>3, <3>1
    <3>3. ~EndAt(x)
      BY <1>2, <1>4, <2>5, <3>2 DEF EndAt, HASH_LEN
    <3>. QED  BY <1>1, <1>2, <2>5, <3>1, <3>3
  <2>. QED  BY <2>4, <2>5
<1>. QED  BY <1>6, <1>7

LEMMA LastOrNot ==
  ASSUME Sound, NEW k \in 1 .. Chunks
  PROVE  k = Chunks \/ k < Chunks
<1>1. PICK n \in Nat : n = Chunks
  BY SoundParts, Zenon
<1>. QED  BY <1>1

(* Behind a chunk that is not the last one is the next.                       *)
NextAt(x, j) == ChunkStart(j) = x.pos + (IF Encrypted THEN SALT_LEN ELSE 0)

ChunkRead(x, j, y) ==
  LET cb == IF j = 0 \/ Encrypted THEN x.cb ELSE conf.chunks[j].cb
  IN y = [x EXCEPT !.ofs = x.pos + (IF Encrypted THEN SALT_LEN + 2 ELSE 2 + cb),
                   !.cb = cb, !.hl = HeadLen(cb), !.stream = 0]

LEMMA ChunkEnds ==
  ASSUME Sound, NEW x, WalkAt(x), ~x.inBlocks, x.stream = 2, EndAt(x)
  PROVE  Listed(x)
<1>1. PICK k \in 1 .. Chunks :
        /\ x.ofs = HeadsAt(k) /\ x.hl = HeadOf(k)
        /\ AtStream(x, k) \/ AtBlock(x, k) \/ AtEnd(x, k)
  BY DEF WalkAt
<1>2. AtEnd(x, k)
  BY <1>1 DEF AtStream, AtBlock
<1>3. k = Chunks
  <2>1. k = Chunks \/ k < Chunks
    BY LastOrNot, Zenon
  <2>. QED  BY <1>1, <1>2, <2>1, EndTells
<1>4. x.n = CountAt(k, 1, Blocks(k)) /\ x.total = DataAt(k, 1, Blocks(k))
  BY <1>2 DEF AtEnd, Tallied
<1>. QED  BY <1>3, <1>4, BeforeIs DEF Listed

LEMMA ChunkMoves ==
  ASSUME Sound, NEW x, WalkAt(x), ~x.inBlocks, x.stream = 2, ~EndAt(x),
         NEW j \in 0 .. Chunks, j # 0 <=> \E m \in 1 .. Chunks : NextAt(x, m), j # 0 => NextAt(x, j),
         NEW y, ChunkRead(x, j, y)
  PROVE  j # 0 /\ WalkAt(y)
<1>1. PICK k \in 1 .. Chunks :
        /\ x.ofs = HeadsAt(k) /\ x.hl = HeadOf(k)
        /\ AtStream(x, k) \/ AtBlock(x, k) \/ AtEnd(x, k)
  BY DEF WalkAt
<1>2. AtEnd(x, k)
  BY <1>1 DEF AtStream, AtBlock
<1>3. k < Chunks
  <2>1. k = Chunks \/ k < Chunks
    BY LastOrNot, Zenon
  <2>. QED  BY <1>1, <1>2, <2>1, EndTells
<1>4. k + 1 \in 1 .. Chunks /\ k + 1 \in 1 .. Chunks + 1
  BY <1>3, SoundParts
<1>5. NextAt(x, k + 1)
  BY <1>1, <1>2, <1>3, EndTells DEF NextAt
<1>6. j # 0
  BY <1>4, <1>5
<1>7. j = k + 1
  <2>1. ChunkStart(j) = ChunkStart(k + 1)
    BY <1>5, <1>6 DEF NextAt
  <2>2. ASSUME NEW l \in 1 .. Chunks, NEW m \in 1 .. Chunks, l < m PROVE ChunkStart(l) # ChunkStart(m)
    <3>1. l \in 1 .. Chunks + 1 /\ m \in 1 .. Chunks + 1 /\ l + 1 \in 1 .. Chunks + 1
      BY SoundParts
    <3>2. PICK a \in Nat, b \in Nat, c \in Nat, d \in Nat, e \in Nat :
            /\ a = ChunkStart(l) /\ b = ChunkStart(m) /\ c = ChunkStart(l + 1) /\ d = HeadsAt(l)
            /\ e = BodyAt(l, Blocks(l))
      <4>1. Blocks(l) \in 0 .. Blocks(l)
        BY SoundParts
      <4>. QED  BY <3>1, <4>1, StartIs, BodyIs
    <3>3. d >= a + 2 /\ c = d + e /\ c <= b
      BY <2>2, <3>1, <3>2, StartIs
    <3>. QED  BY <3>2, <3>3
  <2>3. j \in 1 .. Chunks /\ (j < k + 1 \/ j = k + 1 \/ k + 1 < j)
    BY <1>4, <1>6, SoundParts
  <2>. QED  BY <1>4, <2>1, <2>2, <2>3
<1>8. DOMAIN x = Fields
  BY DEF WalkAt
<1>. DEFINE cb == IF Encrypted THEN x.cb ELSE conf.chunks[k + 1].cb
<1>9. /\ DOMAIN y = Fields /\ y.ofs = x.pos + (IF Encrypted THEN SALT_LEN + 2 ELSE 2 + cb)
      /\ y.hl = HeadLen(cb) /\ y.stream = 0 /\ y.inBlocks = x.inBlocks /\ y.n = x.n /\ y.total = x.total
  <2>1. y = [x EXCEPT !.ofs = x.pos + (IF Encrypted THEN SALT_LEN + 2 ELSE 2 + cb),
                      !.cb = cb, !.hl = HeadLen(cb), !.stream = 0]
    BY <1>6, <1>7 DEF ChunkRead
  <2>. HIDE DEF cb
  <2>. QED  BY <1>8, <2>1 DEF Fields
<1>10. y.hl = HeadOf(k + 1)
  <2>1. CASE Encrypted
    BY <1>9, <2>1 DEF HeadOf, HeadLen
  <2>2. CASE ~Encrypted
    BY <1>9, <2>2 DEF HeadOf
  <2>. QED  BY <2>1, <2>2
<1>11. y.ofs = HeadsAt(k + 1)
  <2>1. PICK c \in Nat, b \in 1 .. 8 : c = ChunkStart(k + 1) /\ b = conf.chunks[k + 1].cb
    BY <1>4, StartIs, SoundParts
  <2>2. HeadsAt(k + 1) = c + (IF Encrypted THEN 2 ELSE 2 + b)
    BY <1>4, <2>1, StartIs
  <2>3. x.pos + (IF Encrypted THEN 8 ELSE 0) = c
    BY <1>5, <2>1 DEF NextAt, SALT_LEN
  <2>4. PICK p \in Nat : p = x.pos
    <3>1. x.pos = EndOf(k)
      BY <1>2 DEF AtEnd
    <3>2. /\ HeadsAt(k) \in Nat /\ BodyAt(k, Blocks(k) - 1) \in Nat /\ HeadOf(k) \in Nat
          /\ BlockOf(k, Blocks(k)).c \in Nat
      <4>1. Blocks(k) \in 1 .. Blocks(k) /\ Blocks(k) - 1 \in 0 .. Blocks(k)
        BY SoundParts
      <4>. QED  BY <4>1, SoundParts, StartIs, HeadIs, BodyIs
    <3>3. EndOf(k) \in Nat
      BY <3>2 DEF EndOf
    <3>. QED  BY <3>1, <3>3
  <2>5. y.ofs = p + (IF Encrypted THEN 8 + 2 ELSE 2 + b)
    BY <1>9, <2>1, <2>4 DEF SALT_LEN
  <2>. QED  BY <2>2, <2>3, <2>4, <2>5
<1>12. AtStream(y, k + 1)
  <2>1. x.n = CountAt(k, 1, Blocks(k)) /\ x.total = DataAt(k, 1, Blocks(k))
    BY <1>2 DEF AtEnd, Tallied
  <2>2. y.n = CountAt(k + 1, 0, 0) /\ y.total = DataAt(k + 1, 0, 0)
    BY <1>3, <1>9, <2>1, TalliesStart
  <2>. QED  BY <1>9, <2>2 DEF AtStream, Tallied
<1>. QED  BY <1>4, <1>6, <1>9, <1>10, <1>11, <1>12 DEF WalkAt

-----------------------------------------------------------------------------
(* The theorems. *)

LEMMA WalkInvInit == Init => WalkInv
<1>. SUFFICES ASSUME Init PROVE WalkInv
  OBVIOUS
<1>1. Sound
  BY CodecAssumption DEF Init, Sound
<1>. QED  BY <1>1 DEF Init, WalkInv

LEMMA WalkInvNext == WalkInv /\ [Next]_vars => WalkInv'
<1>. SUFFICES ASSUME WalkInv, [Next]_vars PROVE WalkInv'
  OBVIOUS
<1>1. Sound /\ phase # "corrupt"
  BY DEF WalkInv
<1>2. conf' = conf
  BY DEF Next, vars, Size, SizeMalloc, Filter, WriteMagic, ReadMagic, Unfilter, InfoStart,
         InfoStream, InfoBlock, InfoChunk, NextOnLine
<1>3. Sound' /\ Chunks' = Chunks /\ BlockCounts' = BlockCounts /\ DataSizes' = DataSizes
  BY <1>1, <1>2, Kept
<1>4. CASE UNCHANGED vars
  <2>1. info' = info /\ phase' = phase
    BY <1>4 DEF vars
  <2>2. ASSUME phase = "info" PROVE WalkAt(info)'
    <3>. PICK x : x = info
      OBVIOUS
    <3>1. WalkAt(x) /\ info' = x
      BY <2>1, <2>2 DEF WalkInv
    <3>. QED  BY <1>2, <3>1, WalkPrimed
  <2>3. phase = "listed" => Listed(info)'
    BY <1>3, <2>1 DEF WalkInv, Listed
  <2>. QED  BY <1>1, <1>3, <2>1, <2>2, <2>3 DEF WalkInv
<1>5. CASE Size \/ SizeMalloc \/ Filter \/ WriteMagic \/ ReadMagic \/ Unfilter \/ NextOnLine
  <2>1. phase' \in {"size", "filter", "written", "unfilter"}
    BY <1>5 DEF Size, SizeMalloc, Filter, WriteMagic, ReadMagic, Unfilter, NextOnLine
  <2>. QED  BY <1>3, <2>1 DEF WalkInv
<1>6. CASE InfoStart
  <2>. PICK x : x = info'
    OBVIOUS
  <2>1. /\ phase' \in {"refused", "info"}
        /\ x = [ofs |-> InfoOffset(conf.version, conf.comment) + 2 + (IF Encrypted THEN 0 ELSE conf.chunks[1].cb),
                cb |-> IF Encrypted THEN 8 ELSE conf.chunks[1].cb, hl |-> HeadLen(conf.chunks[1].cb),
                stream |-> 0, inBlocks |-> FALSE, last |-> 0, second |-> 0, pos |-> 0, total |-> 0, n |-> 0]
    BY <1>6 DEF InfoStart
  <2>2. WalkAt(x)
    BY <1>1, <2>1, WalkStarts
  <2>3. WalkAt(info)'
    BY <1>2, <2>2, WalkPrimed
  <2>. QED  BY <1>3, <2>1, <2>3 DEF WalkInv
<1>7. CASE InfoStream
  <2>. PICK x, y : x = info /\ y = info'
    OBVIOUS
  <2>1. /\ phase = "info" /\ ~x.inBlocks /\ x.stream < 2
        /\ phase' = IF HeaderAt(x.ofs + x.stream * x.hl).c < 0 THEN "corrupt" ELSE phase
        /\ y = [x EXCEPT !.inBlocks = TRUE, !.last = HeaderAt(x.ofs + x.stream * x.hl).next, !.second = 0]
    BY <1>7 DEF InfoStream
  <2>2. WalkAt(x)
    BY <2>1 DEF WalkInv
  <2>3. ~(HeaderAt(x.ofs + x.stream * x.hl).c < 0) /\ WalkAt(y)
    BY <1>1, <2>1, <2>2, StreamMoves
  <2>4. WalkAt(info)'
    BY <1>2, <2>3, WalkPrimed
  <2>. QED  BY <1>3, <2>1, <2>3, <2>4 DEF WalkInv
<1>8. CASE InfoBlock
  <2>. PICK x, y : x = info /\ y = info'
    OBVIOUS
  <2>1. /\ phase = "info" /\ x.inBlocks
        /\ phase' = IF BlockBad(x) THEN "corrupt" ELSE phase
        /\ BlockRead(x, y)
    BY <1>8 DEF InfoBlock, BlockBad, BlockRead, BlockOffset
  <2>2. WalkAt(x)
    BY <2>1 DEF WalkInv
  <2>3. ~BlockBad(x) /\ WalkAt(y)
    BY <1>1, <2>1, <2>2, BlockMoves
  <2>4. WalkAt(info)'
    BY <1>2, <2>3, WalkPrimed
  <2>. QED  BY <1>3, <2>1, <2>3, <2>4 DEF WalkInv
<1>9. CASE InfoChunk
  <2>. PICK x, y : x = info /\ y = info'
    OBVIOUS
  <2>1. phase = "info" /\ ~x.inBlocks /\ x.stream = 2
    BY <1>9 DEF InfoChunk
  <2>2. WalkAt(x)
    BY <2>1 DEF WalkInv
  <2>3. InfoEnd(info.pos) <=> EndAt(x)
    BY DEF InfoEnd, EndAt
  <2>4. CASE EndAt(x)
    <3>1. phase' = "listed" /\ y = x
      BY <1>9, <2>3, <2>4 DEF InfoChunk
    <3>2. Listed(x)
      BY <1>1, <2>1, <2>2, <2>4, ChunkEnds
    <3>3. Listed(info)'
      BY <1>3, <3>1, <3>2 DEF Listed
    <3>. QED  BY <1>3, <3>1, <3>3 DEF WalkInv
  <2>5. CASE ~EndAt(x)
    <3>1. PICK j \in DOMAIN conf.chunks \cup {0} :
            /\ j # 0 <=> \E m \in DOMAIN conf.chunks : NextAt(x, m)
            /\ j # 0 => NextAt(x, j)
            /\ phase' = IF j = 0 THEN "corrupt" ELSE phase
            /\ ChunkRead(x, j, y)
      BY <1>9, <2>3, <2>5 DEF InfoChunk, NextAt, ChunkRead
    <3>2. DOMAIN conf.chunks = 1 .. Chunks /\ j \in 0 .. Chunks
      BY <1>1, DomainsAre, SoundParts
    <3>3. j # 0 /\ WalkAt(y)
      BY <1>1, <2>1, <2>2, <2>5, <3>1, <3>2, ChunkMoves
    <3>4. WalkAt(info)'
      BY <1>2, <3>3, WalkPrimed
    <3>. QED  BY <1>3, <2>1, <3>1, <3>3, <3>4 DEF WalkInv
  <2>. QED  BY <2>4, <2>5
<1>. QED  BY <1>4, <1>5, <1>6, <1>7, <1>8, <1>9 DEF Next

(* Wherever get_fileinfo is, it is in front of a header or behind a chunk, and *)
(* has counted what is before that.                                           *)
THEOREM WalkInvariant == Spec => []WalkInv
BY WalkInvInit, WalkInvNext, PTL DEF Spec

(* get_fileinfo never finds an archive corrupt that is not, and when it comes  *)
(* to the hash it has counted every block of every chunk and all their data.  *)
THEOREM InfoAlwaysWalksAll == Spec => []InfoWalksAll
<1>1. WalkInv => InfoWalksAll
  BY DEF WalkInv, InfoWalksAll, Listed, Chunks
<1>. QED  BY <1>1, WalkInvariant, PTL
=============================================================================
