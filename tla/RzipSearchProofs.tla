--------------------------- MODULE RzipSearchProofs ---------------------------
(***************************************************************************)
(* Proofs about the rzip stage on one chunk, for every chunk, whatever the *)
(* hash table offers and however cksumthread is scheduled: the streams     *)
(* decode to the chunk, the rolling tag is right, and each byte goes into  *)
(* the checksum once.                                                      *)
(***************************************************************************)
EXTENDS RzipSearch, FiniteSetTheorems, SequenceTheorems, WellFoundedInduction, TLAPS

Heads == [head: {0, 1}, len: 0 .. MaxRun, ofs: 0 .. chunk_size]

PlaceInv ==
  /\ buf \in Seq(Alphabet)
  /\ pc \in {"loop", "cksum", "final", "finish", "done", "fatal"}
  /\ p \in Nat /\ (p = 0 \/ p <= end)
  /\ last_match \in 0 .. p
  /\ t \in [Alphabet -> {0, 1}]

(* The best match so far begins behind last_match, refers to what is before *)
(* it, and ends in front of end.                                            *)
MatchInv ==
  /\ current \in [p: 0 .. chunk_size, ofs: 0 .. chunk_size, len: 0 .. chunk_size]
  /\ current.len > 0 =>
       /\ last_match <= current.p /\ current.ofs < current.p
       /\ current.p + current.len <= end
       /\ \A i \in 0 .. current.len - 1 : B(current.p + i) = B(current.ofs + i)

(* Up to each header the other side has used literals that are there.       *)
StreamsInv ==
  /\ s0 \in Seq(Heads) /\ s1 \in Seq(Alphabet)
  /\ \A k \in 0 .. Len(s0) : Decoding(s0, s1)[k].used \in 0 .. Len(s1)
  /\ RoundTrip

(* What cksumthread has still to write, and what is written.                *)
SumInv ==
  /\ cksum_limit \in 0 .. chunk_size
  /\ tpc \in {"none", "crc", "hash", "post"}
  /\ cksumsem = IF tpc = "none" THEN 1 ELSE 0
  /\ checksum \in Seq(Alphabet)
  /\ pc \in {"loop", "cksum", "final"} =>
       /\ Bytes(0, cksum_limit) = IF tpc = "crc" THEN crc \o checksum ELSE crc
       /\ Bytes(0, cksum_limit) =
            IF tpc \in {"crc", "hash"} THEN hash \o checksum ELSE hash
       /\ crc \in Seq(Alphabet) /\ hash \in Seq(Alphabet)
  /\ pc \in {"finish", "done"} => tpc = "none" /\ hash = buf
  /\ pc = "finish" => crc = buf
  /\ pc = "done" => cksum = buf
  /\ pc = "cksum" => cksum_limit < p

SearchInv == PlaceInv /\ MatchInv /\ StreamsInv /\ SumInv /\ RollingTag
-----------------------------------------------------------------------------
(* Numbers. *)

(* A set of numbers that is not empty has a least one.                      *)
LEMMA LeastOf ==
  ASSUME NEW T \in SUBSET Nat, T # {}
  PROVE  \E n \in T : \A k \in T : n <= k
<1>. DEFINE R == OpToRel(<, Nat)
<1>1. IsWellFoundedOn(R, Nat)
  BY NatLessThanWellFounded, Zenon
<1>2. \A x, y \in Nat : x < y => <<x, y>> \in R
  BY DEF OpToRel
<1>. HIDE DEF R
<1>3. PICK n \in T : \A k \in T : ~(<<k, n>> \in R)
  BY <1>1, WFMin
<1>4. \A k \in T : k \in Nat /\ n \in Nat /\ ~(k < n)
  BY <1>2, <1>3
<1>. QED  BY <1>4

(* A set with 0 and the successor of each of its numbers has them all.      *)
LEMMA AllNumbers ==
  ASSUME NEW G, 0 \in G, \A x \in Nat : x \in G => x + 1 \in G
  PROVE  Nat \subseteq G
<1>. SUFFICES ASSUME Nat \ G # {} PROVE FALSE
  OBVIOUS
<1>1. PICK n \in Nat \ G : \A k \in Nat \ G : n <= k
  BY LeastOf
<1>2. n # 0 /\ n - 1 \in Nat /\ n - 1 \notin Nat \ G
  BY <1>1
<1>. QED  BY <1>1, <1>2

(* Division with remainder is unique. *)
LEMMA DivUnique ==
  \A a, n, q, r \in Nat : r < n /\ a = q * n + r => a % n = r /\ a \div n = q
  OBVIOUS

LEMMA DivFacts ==
  \A a, n \in Nat : n > 0 =>
    a = (a \div n) * n + (a % n) /\ a \div n \in Nat /\ a % n \in 0 .. n - 1
  OBVIOUS

LEMMA ModLess == \A a, n \in Nat : a < n => a % n = a
<1>1. \A a, n \in Nat : a < n => a = 0 * n + a
  OBVIOUS
<1>. QED  BY <1>1, DivUnique

LEMMA ModMinus ==
  ASSUME NEW a \in Nat, NEW n \in Nat, 0 < n, n <= a
  PROVE  (a - n) % n = a % n
<1>1. PICK q \in Nat, r \in Nat : q = (a - n) \div n /\ r = (a - n) % n
  BY DivFacts
<1>2. a - n = q * n + r /\ r < n
  BY <1>1, DivFacts
<1>3. (q + 1) * n = q * n + n /\ q * n \in Nat
  OBVIOUS
<1>4. a = (q + 1) * n + r
  BY <1>2, <1>3
<1>5. a % n = r
  BY <1>2, <1>4, DivUnique
<1>. QED  BY <1>1, <1>5

-----------------------------------------------------------------------------
(* Parts of the chunk. *)

LEMMA BytesAre ==
  ASSUME buf \in Seq(Alphabet), NEW a \in Nat, NEW n \in Nat, a + n <= Len(buf)
  PROVE  /\ Bytes(a, n) \in Seq(Alphabet) /\ Len(Bytes(a, n)) = n
         /\ \A i \in 1 .. n : Bytes(a, n)[i] = buf[a + i]
<1>1. Len(buf) \in Nat /\ \A i \in 1 .. Len(buf) : buf[i] \in Alphabet
  OBVIOUS
<1>2. \A i \in a + 1 .. a + n : buf[i] \in Alphabet
  BY <1>1
<1>3. a + 1 \in Int /\ a + n \in Int /\ (a + n) - (a + 1) + 1 = n
  OBVIOUS
<1>4. /\ Bytes(a, n) \in Seq(Alphabet)
      /\ Len(Bytes(a, n)) = IF a + 1 <= a + n THEN (a + n) - (a + 1) + 1 ELSE 0
      /\ \A i \in 1 .. (a + n) - (a + 1) + 1 : Bytes(a, n)[i] = buf[(a + 1) + i - 1]
  BY <1>2, <1>3, SubSeqProperties DEF Bytes
<1>5. \A i \in 1 .. n : (a + 1) + i - 1 = a + i
  OBVIOUS
<1>. QED  BY <1>3, <1>4, <1>5

LEMMA BytesJoin ==
  ASSUME buf \in Seq(Alphabet), NEW a \in Nat, NEW n \in Nat, NEW m \in Nat,
         a + n + m <= Len(buf)
  PROVE  Bytes(a, n) \o Bytes(a + n, m) = Bytes(a, n + m)
<1>1. Len(buf) \in Nat
  OBVIOUS
<1>2. /\ a + 1 \in 1 .. Len(buf) + 1 /\ a + n \in (a + 1) - 1 .. Len(buf)
      /\ a + n + m \in a + n .. Len(buf)
  BY <1>1
<1>3. SubSeq(buf, a + 1, a + n) \o SubSeq(buf, (a + n) + 1, a + n + m)
        = SubSeq(buf, a + 1, a + n + m)
  BY <1>2, ConcatAdjacentSubSeq
<1>4. a + (n + m) = a + n + m
  OBVIOUS
<1>. QED  BY <1>3, <1>4 DEF Bytes

LEMMA BytesNone ==
  ASSUME NEW a \in Nat
  PROVE  Bytes(a, 0) = << >>
<1>1. a + 1 \in Int /\ a + 0 \in Int /\ a + 0 < a + 1
  OBVIOUS
<1>. QED  BY <1>1, SubSeqEmpty DEF Bytes

LEMMA BytesAll ==
  ASSUME buf \in Seq(Alphabet)
  PROVE  Bytes(0, chunk_size) = buf
<1>1. 0 + 1 = 1 /\ 0 + Len(buf) = Len(buf)
  OBVIOUS
<1>. QED  BY <1>1, SubSeqFull DEF Bytes, chunk_size

(* What hash_search sums up at the end is the rest of the chunk, whatever   *)
(* the size of the pieces.                                                  *)
PiecesOf(a, n, N, f) ==
  f = [k \in 0 .. N |-> IF k = 0 THEN << >> ELSE f[k - 1] \o Bytes(a + (k - 1) * n, n)]

LEMMA PiecesDefined ==
  ASSUME NEW a, NEW n, NEW N \in Nat
  PROVE  \E f : PiecesOf(a, n, N, f)
<1>. DEFINE D(x) == \E f : PiecesOf(a, n, x, f)
            G == {x \in Nat : D(x)}
<1>1. D(0)
  <2>. DEFINE f == [k \in 0 .. 0 |-> << >>]
  <2>1. f = [k \in 0 .. 0 |-> IF k = 0 THEN << >>
                              ELSE f[k - 1] \o Bytes(a + (k - 1) * n, n)]
    OBVIOUS
  <2>. QED  BY <2>1 DEF PiecesOf
<1>2. ASSUME NEW x \in Nat, D(x) PROVE D(x + 1)
  <2>1. PICK f : f = [k \in 0 .. x |-> IF k = 0 THEN << >>
                                       ELSE f[k - 1] \o Bytes(a + (k - 1) * n, n)]
    BY <1>2 DEF PiecesOf
  <2>. DEFINE piece(k) == Bytes(a + (k - 1) * n, n)
              g == [k \in 0 .. x + 1 |-> IF k = x + 1 THEN f[x] \o piece(x + 1) ELSE f[k]]
  <2>. HIDE DEF piece
  <2>2. ASSUME NEW k \in 0 .. x + 1
        PROVE  g[k] = IF k = 0 THEN << >> ELSE g[k - 1] \o piece(k)
    <3>1. CASE k = x + 1
      <4>1. k # 0 /\ k - 1 = x /\ x \in 0 .. x + 1 /\ x # x + 1
        BY <3>1
      <4>. QED  BY <3>1, <4>1
    <3>2. CASE k # x + 1
      <4>1. k \in 0 .. x /\ g[k] = f[k]
        BY <3>2
      <4>2. k # 0 => k - 1 \in 0 .. x + 1 /\ k - 1 # x + 1 /\ g[k - 1] = f[k - 1]
        BY <3>2
      <4>3. f[k] = IF k = 0 THEN << >> ELSE f[k - 1] \o piece(k)
        BY <2>1, <4>1 DEF piece
      <4>. HIDE DEF g
      <4>. QED  BY <4>1, <4>2, <4>3
    <3>. QED  BY <3>1, <3>2
  <2>3. g = [k \in 0 .. x + 1 |-> IF k = 0 THEN << >> ELSE g[k - 1] \o piece(k)]
    BY <2>2
  <2>. HIDE DEF g
  <2>. QED  BY <2>3 DEF PiecesOf, piece
<1>3. Nat \subseteq G
  <2>1. 0 \in G /\ \A x \in Nat : x \in G => x + 1 \in G
    <3>. HIDE DEF D
    <3>. QED  BY <1>1, <1>2
  <2>. HIDE DEF G
  <2>. QED  BY <2>1, AllNumbers
<1>. QED  BY <1>3
LEMMA PiecesAre ==
  ASSUME buf \in Seq(Alphabet), NEW a \in Nat, NEW n \in Nat, NEW N \in Nat,
         a + N * n <= Len(buf), NEW f, PiecesOf(a, n, N, f)
  PROVE  f[N] = Bytes(a, N * n)
<1>. DEFINE G == {x \in Nat : x <= N => f[x] = Bytes(a, x * n)}
<1>1. \A k \in 0 .. N : f[k] = IF k = 0 THEN << >> ELSE f[k - 1] \o Bytes(a + (k - 1) * n, n)
  BY DEF PiecesOf
<1>2. 0 \in G
  <2>1. 0 * n = 0 /\ 0 \in 0 .. N
    OBVIOUS
  <2>2. f[0] = << >>
    BY <1>1, <2>1
  <2>3. Bytes(a, 0) = << >>
    BY BytesNone
  <2>. QED  BY <2>1, <2>2, <2>3
<1>3. ASSUME NEW x \in Nat, x \in G PROVE x + 1 \in G
  <2>. SUFFICES ASSUME x + 1 <= N PROVE f[x + 1] = Bytes(a, (x + 1) * n)
    OBVIOUS
  <2>1. f[x] = Bytes(a, x * n)
    BY <1>3
  <2>2. x + 1 \in 0 .. N /\ x + 1 # 0 /\ (x + 1) - 1 = x
    OBVIOUS
  <2>3. f[x + 1] = f[x] \o Bytes(a + x * n, n)
    BY <1>1, <2>2
  <2>4. (x + 1) * n = x * n + n /\ x * n \in Nat
    OBVIOUS
  <2>5. x * n + n <= N * n
    OBVIOUS
  <2>6. PICK m \in Nat, M \in Nat : m = x * n /\ M = N * n
    BY <2>4
  <2>7. a + m + n <= Len(buf)
    BY <2>5, <2>6
  <2>8. Bytes(a, m) \o Bytes(a + m, n) = Bytes(a, m + n)
    BY <2>7, BytesJoin
  <2>. QED  BY <2>1, <2>3, <2>4, <2>6, <2>8
<1>4. N \in G
  <2>. HIDE DEF G
  <2>. QED  BY <1>2, <1>3, AllNumbers
<1>. QED  BY <1>4

LEMMA RestIs ==
  ASSUME buf \in Seq(Alphabet), cksum_limit \in 0 .. chunk_size,
         NEW n \in Nat \ {0}
  PROVE  Rest(n) = Bytes(cksum_limit, chunk_size - cksum_limit)
<1>0. /\ cksum_limit \in Nat /\ chunk_size - cksum_limit \in Nat /\ chunk_size = Len(buf)
      /\ cksum_limit + (chunk_size - cksum_limit) = Len(buf)
  <2>1. Len(buf) \in Nat
    OBVIOUS
  <2>2. PICK c \in Nat : c = chunk_size /\ c = Len(buf)
    BY <2>1 DEF chunk_size
  <2>3. cksum_limit \in 0 .. c
    BY <2>2
  <2>. QED  BY <2>2, <2>3
<1>1. PICK a \in Nat, l \in Nat : a = cksum_limit /\ l = chunk_size - a /\ a + l = Len(buf)
  BY <1>0
<1>2. PICK N \in Nat, r \in Nat : N = l \div n /\ r = l % n /\ l = N * n + r
  <2>1. n \in Nat /\ n > 0
    OBVIOUS
  <2>2. l = (l \div n) * n + (l % n) /\ l \div n \in Nat /\ l % n \in 0 .. n - 1
    BY <2>1, DivFacts
  <2>3. l % n \in Nat
    BY <2>1, <2>2
  <2>4. PICK N, r : N = l \div n /\ r = l % n
    OBVIOUS
  <2>. QED  BY <2>2, <2>3, <2>4
<1>3. l = N * n + r
  BY <1>2
<1>4. PICK g : PiecesOf(a, n, N, g)
  BY PiecesDefined
<1>. DEFINE pieces == CHOOSE f : f = [k \in 0 .. N |->
              IF k = 0 THEN << >> ELSE f[k - 1] \o Bytes(a + (k - 1) * n, n)]
<1>5. Rest(n) = pieces[N] \o Bytes(a + N * n, r)
  BY <1>1, <1>2, Zenon DEF Rest
<1>6. PiecesOf(a, n, N, pieces)
  BY <1>4, Zenon DEF PiecesOf
<1>. HIDE DEF pieces
<1>7. PICK m \in Nat : m = N * n
  OBVIOUS
<1>8. a + m + r <= Len(buf) /\ a + m <= Len(buf) /\ m + r = l
  BY <1>1, <1>3, <1>7
<1>9. pieces[N] = Bytes(a, m)
  BY <1>6, <1>7, <1>8, PiecesAre
<1>10. Bytes(a, m) \o Bytes(a + m, r) = Bytes(a, m + r)
  BY <1>8, BytesJoin
<1>. QED  BY <1>1, <1>5, <1>7, <1>8, <1>9, <1>10
-----------------------------------------------------------------------------
(* Tags. *)

Window(q, c) == {i \in q .. q + MINIMUM_MATCH - 1 : B(i) = c}

LEMMA WindowFinite ==
  ASSUME NEW q \in Nat, NEW c
  PROVE  IsFiniteSet(Window(q, c)) /\ Cardinality(Window(q, c)) \in Nat
<1>1. MINIMUM_MATCH \in Nat \ {0} /\ q + MINIMUM_MATCH - 1 \in Int /\ q \in Int
  BY MatchAssumption
<1>2. IsFiniteSet(q .. q + MINIMUM_MATCH - 1)
  BY <1>1, FS_Interval
<1>3. IsFiniteSet(Window(q, c))
  BY <1>2, FS_Subset DEF Window
<1>. QED  BY <1>3, FS_CardinalityType

LEMMA TagIs ==
  ASSUME NEW q \in Nat
  PROVE  /\ full_tag(q) \in [Alphabet -> {0, 1}]
         /\ \A c \in Alphabet : full_tag(q)[c] = Cardinality(Window(q, c)) % 2
<1>1. full_tag(q) = [c \in Alphabet |-> Cardinality(Window(q, c)) % 2]
  BY Zenon DEF full_tag, Window
<1>2. \A n \in Nat : n % 2 \in {0, 1}
  OBVIOUS
<1>3. \A c \in Alphabet : Cardinality(Window(q, c)) % 2 \in {0, 1}
  BY <1>2, WindowFinite
<1>. QED  BY <1>1, <1>3

(* When the window moves on, the letter it leaves and the letter it reaches *)
(* change sides.                                                            *)
LEMMA WindowMoves ==
  ASSUME NEW q \in Nat, NEW c
  PROVE  LET w == Cardinality(Window(q, c))
             v == Cardinality(Window(q + 1, c))
         IN w + (IF B(q + MINIMUM_MATCH) = c THEN 1 ELSE 0)
              = v + (IF B(q) = c THEN 1 ELSE 0)
<1>1. PICK m \in Nat : m = MINIMUM_MATCH /\ m > 0
  BY MatchAssumption
<1>. DEFINE W == Window(q, c)
            V == Window(q + 1, c)
            U == {i \in q .. q + m : B(i) = c}
<1>2. \A i : i \in W <=> i \in q .. q + m - 1 /\ B(i) = c
  BY <1>1 DEF Window
<1>3. \A i : i \in V <=> i \in q + 1 .. q + m /\ B(i) = c
  <2>1. q + 1 + m - 1 = q + m
    OBVIOUS
  <2>. QED  BY <1>1, <2>1 DEF Window
<1>4. IsFiniteSet(W) /\ IsFiniteSet(V) /\ Cardinality(W) \in Nat /\ Cardinality(V) \in Nat
  BY WindowFinite
<1>5. \A i : i \in q .. q + m <=> i \in q .. q + m - 1 \/ i = q + m
  BY <1>1
<1>6. \A i : i \in q .. q + m <=> i \in q + 1 .. q + m \/ i = q
  BY <1>1
<1>7. q + m \notin q .. q + m - 1 /\ q \notin q + 1 .. q + m
  OBVIOUS
<1>. HIDE DEF W, V
<1>8. Cardinality(U) = Cardinality(W) + (IF B(q + m) = c THEN 1 ELSE 0)
  <2>1. CASE B(q + m) = c
    <3>1. U = W \cup {q + m} /\ q + m \notin W
      BY <1>2, <1>5, <1>7, <2>1
    <3>. QED  BY <1>4, <2>1, <3>1, FS_AddElement
  <2>2. CASE B(q + m) # c
    <3>1. U = W
      BY <1>2, <1>5, <2>2
    <3>. QED  BY <1>4, <2>2, <3>1
  <2>. QED  BY <2>1, <2>2
<1>9. Cardinality(U) = Cardinality(V) + (IF B(q) = c THEN 1 ELSE 0)
  <2>1. CASE B(q) = c
    <3>1. U = V \cup {q} /\ q \notin V
      BY <1>3, <1>6, <1>7, <2>1
    <3>. QED  BY <1>4, <2>1, <3>1, FS_AddElement
  <2>2. CASE B(q) # c
    <3>1. U = V
      BY <1>3, <1>6, <2>2
    <3>. QED  BY <1>4, <2>2, <3>1
  <2>. QED  BY <2>1, <2>2
<1>. QED  BY <1>1, <1>8, <1>9 DEF W, V

(* next_tag makes the tag of the next window out of that of the last.       *)
LEMMA TagMoves ==
  ASSUME buf \in Seq(Alphabet), NEW q \in Nat, q + 1 <= end
  PROVE  next_tag(q + 1, full_tag(q)) = full_tag(q + 1)
<1>1. PICK m \in Nat : m = MINIMUM_MATCH /\ m > 0
  BY MatchAssumption
<1>2. Len(buf) \in Nat /\ q + 1 + m <= Len(buf) /\ \A i \in 1 .. Len(buf) : buf[i] \in Alphabet
  BY <1>1 DEF end, chunk_size
<1>3. PICK x \in Alphabet, y \in Alphabet : x = B(q) /\ y = B(q + m)
  <2>1. q + 1 \in 1 .. Len(buf) /\ q + m + 1 \in 1 .. Len(buf)
    BY <1>2
  <2>. QED  BY <1>2, <2>1 DEF B
<1>4. (q + 1) - 1 = q /\ (q + 1) + m - 1 = q + m
  OBVIOUS
<1>5. PICK f \in [Alphabet -> {0, 1}] : f = full_tag(q)
  BY TagIs
<1>6. PICK g \in [Alphabet -> {0, 1}] : g = full_tag(q + 1)
  BY TagIs
<1>7. next_tag(q + 1, f) = Xor(Xor(f, x), y)
  BY <1>1, <1>3, <1>4 DEF next_tag
<1>8. Xor(Xor(f, x), y) \in [Alphabet -> {0, 1}]
  <2>1. Xor(f, x) \in [Alphabet -> {0, 1}]
    BY DEF Xor
  <2>. QED  BY <2>1 DEF Xor
<1>9. ASSUME NEW c \in Alphabet PROVE Xor(Xor(f, x), y)[c] = g[c]
  <2>1. PICK w \in Nat, v \in Nat : w = Cardinality(Window(q, c)) /\ v = Cardinality(Window(q + 1, c))
    BY WindowFinite
  <2>2. w + (IF y = c THEN 1 ELSE 0) = v + (IF x = c THEN 1 ELSE 0)
    BY <1>1, <1>3, <2>1, WindowMoves
  <2>3. f[c] = w % 2 /\ g[c] = v % 2
    BY <1>5, <1>6, <2>1, TagIs
  <2>4. \A n \in Nat : (n + 1) % 2 = 1 - (n % 2) /\ n % 2 \in {0, 1}
    OBVIOUS
  <2>5. Xor(f, x)[c] = (IF x = c THEN 1 - f[c] ELSE f[c]) /\ Xor(f, x) \in [Alphabet -> {0, 1}]
    BY DEF Xor
  <2>6. Xor(Xor(f, x), y)[c] = IF y = c THEN 1 - Xor(f, x)[c] ELSE Xor(f, x)[c]
    <3>1. \A h \in [Alphabet -> {0, 1}] : Xor(h, y)[c] = IF y = c THEN 1 - h[c] ELSE h[c]
      BY DEF Xor
    <3>. QED  BY <2>5, <3>1
  <2>7. CASE x = c /\ y = c
    BY <2>2, <2>3, <2>4, <2>5, <2>6, <2>7
  <2>8. CASE x = c /\ y # c
    <3>1. w = v + 1
      BY <2>2, <2>8
    <3>. QED  BY <2>3, <2>4, <2>5, <2>6, <2>8, <3>1
  <2>9. CASE x # c /\ y = c
    <3>1. v = w + 1
      BY <2>2, <2>9
    <3>. QED  BY <2>3, <2>4, <2>5, <2>6, <2>9, <3>1
  <2>10. CASE x # c /\ y # c
    BY <2>2, <2>3, <2>5, <2>6, <2>10
  <2>. QED  BY <2>7, <2>8, <2>9, <2>10
<1>10. Xor(Xor(f, x), y) = g
  BY <1>8, <1>9
<1>. QED  BY <1>5, <1>6, <1>7, <1>10

-----------------------------------------------------------------------------
(* Matches. *)

LEMMA LargestIs ==
  ASSUME NEW N \in Nat, NEW T \in SUBSET (0 .. N), T # {}
  PROVE  Largest(T) \in T
<1>. DEFINE R == {N - k : k \in T}
<1>1. R \in SUBSET Nat /\ R # {}
  <2>1. \A k \in T : k \in 0 .. N /\ N - k \in Nat
    OBVIOUS
  <2>. QED  BY <2>1
<1>2. PICK n \in R : \A k \in R : n <= k
  BY <1>1, LeastOf
<1>3. PICK m \in T : n = N - m
  BY <1>2
<1>4. ASSUME NEW k \in T PROVE k <= m
  <2>1. N - k \in R /\ k \in 0 .. N /\ m \in 0 .. N
    OBVIOUS
  <2>2. N - m <= N - k
    BY <1>2, <1>3, <2>1
  <2>. QED  BY <2>1, <2>2
<1>. QED  BY <1>4, Zenon DEF Largest
LEMMA ForwardIs ==
  ASSUME NEW q \in Nat, NEW op \in Nat, buf \in Seq(Alphabet), q <= end
  PROVE  /\ Forward(q, op) \in 0 .. end - q
         /\ \A i \in 0 .. Forward(q, op) - 1 : B(q + i) = B(op + i)
<1>. DEFINE T == {k \in 0 .. end - q : \A i \in 0 .. k - 1 : B(q + i) = B(op + i)}
<1>1. end - q \in Nat
  BY MatchAssumption DEF end, chunk_size
<1>2. 0 \in T
  BY <1>1
<1>3. T \in SUBSET (0 .. end - q) /\ T # {}
  BY <1>2
<1>4. Largest(T) \in T
  <2>. HIDE DEF T
  <2>. QED  BY <1>1, <1>3, LargestIs
<1>5. Forward(q, op) = Largest(T)
  BY Zenon DEF Forward
<1>. QED  BY <1>4, <1>5

LEMMA BackwardIs ==
  ASSUME NEW q \in Nat, NEW op \in Nat, last_match \in 0 .. q
  PROVE  /\ Backward(q, op) \in 0 .. MIN(q - last_match, op)
         /\ \A i \in 1 .. Backward(q, op) : B(q - i) = B(op - i)
<1>. DEFINE T == {k \in 0 .. MIN(q - last_match, op) :
                    \A i \in 1 .. k : B(q - i) = B(op - i)}
<1>1. MIN(q - last_match, op) \in Nat
  BY DEF MIN
<1>2. 0 \in T
  BY <1>1
<1>3. T \in SUBSET (0 .. MIN(q - last_match, op)) /\ T # {}
  BY <1>2
<1>4. Largest(T) \in T
  <2>. HIDE DEF T
  <2>. QED  BY <1>1, <1>3, LargestIs
<1>5. Backward(q, op) = Largest(T)
  BY Zenon DEF Backward
<1>. QED  BY <1>4, <1>5

(* A match, as MatchInv has it. *)
IsMatch(m) ==
  /\ m \in [p: 0 .. chunk_size, ofs: 0 .. chunk_size, len: 0 .. chunk_size]
  /\ m.len > 0 =>
       /\ last_match <= m.p /\ m.ofs < m.p
       /\ m.p + m.len <= end
       /\ \A i \in 0 .. m.len - 1 : B(m.p + i) = B(m.ofs + i)

(* What find_best_match finds is a match.                                   *)
LEMMA BetterIsMatch ==
  ASSUME NEW q \in Nat, NEW op \in Nat, buf \in Seq(Alphabet),
         q <= end, last_match \in 0 .. q, IsMatch(current)
  PROVE  IsMatch(Better(q, op))
<1>. DEFINE mlen == IF op = 0 THEN 0 ELSE match_len(q, op)
<1>1. CASE ~(mlen > current.len)
  <2>1. Better(q, op) = current
    BY <1>1, Zenon DEF Better
  <2>. QED  BY <2>1
<1>2. CASE mlen > current.len
  <2>1. PICK F \in 0 .. end - q : /\ F = Forward(q, op)
                                  /\ \A i \in 0 .. F - 1 : B(q + i) = B(op + i)
    BY ForwardIs
  <2>2. PICK G \in 0 .. MIN(q - last_match, op) :
               /\ G = Backward(q, op)
               /\ \A i \in 1 .. G : B(q - i) = B(op - i)
    BY BackwardIs
  <2>3. current.len \in Nat /\ mlen # 0
    BY <1>2 DEF IsMatch, match_len
  <2>4. op < q /\ mlen = F + G
    BY <2>1, <2>2, <2>3 DEF match_len
  <2>5. Better(q, op) = [p |-> q - G, ofs |-> op - G, len |-> F + G]
    BY <1>2, <2>2, <2>4, Zenon DEF Better
  <2>6. G \in Nat /\ G <= op /\ G <= q - last_match
    BY <2>2 DEF MIN
  <2>7. chunk_size \in Nat /\ end <= chunk_size
    BY MatchAssumption DEF end, chunk_size
  <2>8. F \in Nat /\ q + F <= end /\ end \in Int
    BY <2>1, <2>7, MatchAssumption DEF end
  <2>9. [p |-> q - G, ofs |-> op - G, len |-> F + G]
          \in [p: 0 .. chunk_size, ofs: 0 .. chunk_size, len: 0 .. chunk_size]
    BY <2>4, <2>6, <2>7, <2>8
  <2>10. last_match <= q - G /\ op - G < q - G /\ (q - G) + (F + G) <= end
    BY <2>4, <2>6, <2>8
  <2>11. ASSUME NEW i \in 0 .. (F + G) - 1
         PROVE  B((q - G) + i) = B((op - G) + i)
    <3>1. CASE i < G
      <4>1. G - i \in 1 .. G /\ (q - G) + i = q - (G - i) /\ (op - G) + i = op - (G - i)
        BY <2>6, <3>1
      <4>. QED  BY <2>2, <4>1
    <3>2. CASE i >= G
      <4>1. i - G \in 0 .. F - 1 /\ (q - G) + i = q + (i - G) /\ (op - G) + i = op + (i - G)
        BY <2>6, <2>8, <3>2
      <4>. QED  BY <2>1, <4>1
    <3>. QED  BY <2>6, <3>1, <3>2
  <2>. HIDE DEF mlen
  <2>. QED  BY <2>5, <2>9, <2>10, <2>11 DEF IsMatch
<1>. QED  BY <1>1, <1>2
-----------------------------------------------------------------------------
(* Pieces of a length. *)

(* The lengths in the headers add up to the length, and none of them is 0.  *)
LEMMA PiecesCut ==
  ASSUME NEW len \in Nat, len > 0
  PROVE  \E n \in Nat : \E c :
           /\ n > 0 /\ DOMAIN Pieces(len) = 1 .. n
           /\ c[0] = 0 /\ c[n] = len /\ \A i \in Nat : c[i] \in Nat /\ c[i] <= len
           /\ \A i \in 1 .. n : /\ Pieces(len)[i] \in 1 .. MaxRun
                                /\ c[i] = c[i - 1] + Pieces(len)[i]
<1>1. PICK R \in Nat : R = MaxRun /\ R > 0
  BY MatchAssumption
<1>2. PICK n \in Nat, r \in 0 .. R - 1 : n = (len + R - 1) \div R /\ len + R - 1 = n * R + r
  <2>1. len + R - 1 \in Nat
    BY <1>1
  <2>2. PICK a \in Nat : a = len + R - 1
    BY <2>1
  <2>. QED  BY <1>1, <2>2, DivFacts
<1>3. n > 0
  <2>1. 0 * R = 0
    OBVIOUS
  <2>. QED  BY <1>1, <1>2, <2>1
<1>4. PICK k \in Nat, m \in Nat : k = n - 1 /\ m = k * R
  BY <1>3
<1>5. n * R = m + R
  BY <1>4
<1>6. m < len /\ len <= m + R
  BY <1>1, <1>2, <1>5
<1>7. Pieces(len) = [i \in 1 .. n |-> IF i < n THEN R ELSE len - m]
  BY <1>1, <1>2, <1>4 DEF Pieces
<1>. DEFINE c == [i \in Nat |-> IF i * R < len THEN i * R ELSE len]
<1>8. \A i \in Nat : c[i] \in Nat /\ c[i] <= len
  <2>1. \A i \in Nat : i * R \in Nat
    BY <1>1
  <2>. QED  BY <2>1
<1>9. c[0] = 0
  <2>1. 0 * R = 0
    OBVIOUS
  <2>. QED  BY <2>1
<1>10. c[n] = len
  BY <1>5, <1>6
<1>11. ASSUME NEW i \in 1 .. n
       PROVE  Pieces(len)[i] \in 1 .. R /\ c[i] = c[i - 1] + Pieces(len)[i]
  <2>1. PICK j \in Nat, x \in Nat : j = i - 1 /\ x = j * R
    OBVIOUS
  <2>2. i * R = x + R
    BY <2>1
  <2>3. CASE i < n
    <3>1. j + 1 <= k
      BY <1>4, <2>1, <2>3
    <3>2. x + R <= m
      BY <1>4, <2>1, <3>1
    <3>3. c[i] = x + R /\ c[j] = x
      BY <1>6, <2>1, <2>2, <3>2
    <3>. QED  BY <1>1, <1>7, <2>1, <2>3, <3>3
  <2>4. CASE i = n
    <3>1. j = k /\ x = m
      BY <1>4, <2>1, <2>4
    <3>2. c[j] = m /\ c[i] = len
      BY <1>6, <1>10, <2>1, <2>4, <3>1
    <3>. HIDE DEF c
    <3>. QED  BY <1>1, <1>6, <1>7, <2>1, <2>4, <3>2
  <2>. QED  BY <2>3, <2>4
<1>. HIDE DEF c
<1>12. n > 0 /\ DOMAIN Pieces(len) = 1 .. n
  BY <1>3, <1>7
<1>13. \A i \in 1 .. n : Pieces(len)[i] \in 1 .. MaxRun /\ c[i] = c[i - 1] + Pieces(len)[i]
  BY <1>1, <1>11
<1>. QED  BY <1>8, <1>9, <1>10, <1>12, <1>13, Zenon

-----------------------------------------------------------------------------
(* The other side. *)

Start == [out |-> << >>, used |-> 0, ended |-> FALSE]

DecodingOf(heads, literals, N, f) ==
  f = [k \in 0 .. N |-> IF k = 0 THEN Start ELSE Decoded(f[k - 1], heads[k], literals)]

LEMMA DecodingDefined ==
  ASSUME NEW heads, NEW literals, NEW N \in Nat
  PROVE  \E f : DecodingOf(heads, literals, N, f)
<1>. DEFINE D(x) == \E f : DecodingOf(heads, literals, x, f)
            G == {x \in Nat : D(x)}
<1>1. D(0)
  <2>. DEFINE f == [k \in 0 .. 0 |-> Start]
  <2>1. f = [k \in 0 .. 0 |-> IF k = 0 THEN Start
                              ELSE Decoded(f[k - 1], heads[k], literals)]
    OBVIOUS
  <2>. QED  BY <2>1 DEF DecodingOf
<1>2. ASSUME NEW x \in Nat, D(x) PROVE D(x + 1)
  <2>1. PICK f : f = [k \in 0 .. x |->
                       IF k = 0 THEN Start ELSE Decoded(f[k - 1], heads[k], literals)]
    BY <1>2 DEF DecodingOf
  <2>. DEFINE g == [k \in 0 .. x + 1 |->
                      IF k = x + 1 THEN Decoded(f[x], heads[x + 1], literals) ELSE f[k]]
  <2>2. ASSUME NEW k \in 0 .. x + 1
        PROVE  g[k] = IF k = 0 THEN Start ELSE Decoded(g[k - 1], heads[k], literals)
    <3>1. CASE k = x + 1
      <4>1. k # 0 /\ k - 1 = x /\ x \in 0 .. x + 1 /\ x # x + 1
        BY <3>1
      <4>. QED  BY <3>1, <4>1
    <3>2. CASE k # x + 1
      <4>1. k \in 0 .. x /\ g[k] = f[k]
        BY <3>2
      <4>2. k # 0 => k - 1 \in 0 .. x + 1 /\ k - 1 # x + 1 /\ g[k - 1] = f[k - 1]
        BY <3>2
      <4>3. f[k] = IF k = 0 THEN Start ELSE Decoded(f[k - 1], heads[k], literals)
        BY <2>1, <4>1
      <4>. HIDE DEF g
      <4>. QED  BY <4>1, <4>2, <4>3
    <3>. QED  BY <3>1, <3>2
  <2>3. g = [k \in 0 .. x + 1 |->
               IF k = 0 THEN Start ELSE Decoded(g[k - 1], heads[k], literals)]
    BY <2>2
  <2>. HIDE DEF g
  <2>. QED  BY <2>3 DEF DecodingOf
<1>3. Nat \subseteq G
  <2>1. 0 \in G /\ \A x \in Nat : x \in G => x + 1 \in G
    <3>. HIDE DEF D
    <3>. QED  BY <1>1, <1>2
  <2>. HIDE DEF G
  <2>. QED  BY <2>1, AllNumbers
<1>. QED  BY <1>3

LEMMA DecodingIs ==
  ASSUME NEW heads, NEW literals, Len(heads) \in Nat
  PROVE  /\ Decoding(heads, literals)[0] = Start
         /\ \A k \in 1 .. Len(heads) :
              Decoding(heads, literals)[k]
                = Decoded(Decoding(heads, literals)[k - 1], heads[k], literals)
<1>0. PICK N \in Nat : N = Len(heads)
  OBVIOUS
<1>1. PICK f : DecodingOf(heads, literals, N, f)
  BY DecodingDefined
<1>2. Decoding(heads, literals) = [k \in 0 .. Len(heads) |->
        IF k = 0 THEN Start
        ELSE Decoded(Decoding(heads, literals)[k - 1], heads[k], literals)]
  BY <1>0, <1>1, Zenon DEF Decoding, Start, DecodingOf
<1>3. 0 \in 0 .. Len(heads) /\ \A k \in 1 .. Len(heads) : k \in 0 .. Len(heads) /\ k # 0
  OBVIOUS
<1>. QED  BY <1>2, <1>3

(* A part of the literals stays where it is when others come behind them.   *)
LEMMA PartOfMore ==
  ASSUME NEW u \in Seq(Alphabet), NEW v \in Seq(Alphabet),
         NEW a \in Nat, NEW n \in Nat, a + n <= Len(u)
  PROVE  SubSeq(u \o v, a + 1, a + n) = SubSeq(u, a + 1, a + n)
<1>1. /\ Len(u) \in Nat /\ Len(v) \in Nat /\ u \o v \in Seq(Alphabet)
      /\ Len(u \o v) = Len(u) + Len(v)
      /\ \A i \in 1 .. Len(u) : (u \o v)[i] = u[i] /\ u[i] \in Alphabet
  BY ConcatProperties
<1>2. \A i \in a + 1 .. a + n : i \in 1 .. Len(u)
  BY <1>1
<1>3. a + 1 \in Int /\ a + n \in Int
  OBVIOUS
<1>4. \A i \in a + 1 .. a + n : u[i] \in Alphabet /\ (u \o v)[i] \in Alphabet
  BY <1>1, <1>2
<1>5. /\ SubSeq(u, a + 1, a + n) \in Seq(Alphabet)
      /\ Len(SubSeq(u, a + 1, a + n)) = IF a + 1 <= a + n THEN (a + n) - (a + 1) + 1 ELSE 0
      /\ \A i \in 1 .. (a + n) - (a + 1) + 1 : SubSeq(u, a + 1, a + n)[i] = u[(a + 1) + i - 1]
  BY <1>3, <1>4, SubSeqProperties
<1>6. /\ SubSeq(u \o v, a + 1, a + n) \in Seq(Alphabet)
      /\ Len(SubSeq(u \o v, a + 1, a + n)) = IF a + 1 <= a + n THEN (a + n) - (a + 1) + 1 ELSE 0
      /\ \A i \in 1 .. (a + n) - (a + 1) + 1 :
           SubSeq(u \o v, a + 1, a + n)[i] = (u \o v)[(a + 1) + i - 1]
  BY <1>3, <1>4, SubSeqProperties
<1>7. Len(SubSeq(u, a + 1, a + n)) = n /\ (a + n) - (a + 1) + 1 = n
  BY <1>5
<1>8. \A i \in 1 .. n : (a + 1) + i - 1 \in 1 .. Len(u)
  BY <1>1
<1>9. \A i \in 1 .. n : SubSeq(u \o v, a + 1, a + n)[i] = SubSeq(u, a + 1, a + n)[i]
  BY <1>1, <1>5, <1>6, <1>7, <1>8
<1>. QED  BY <1>5, <1>6, <1>7, <1>9, SeqEqual

(* The state of the other side is a record of its three parts.              *)
HasParts(d) == d = [out |-> d.out, used |-> d.used, ended |-> d.ended]

LEMMA DecodedParts ==
  ASSUME NEW d, HasParts(d), NEW h, NEW literals
  PROVE  HasParts(Decoded(d, h, literals))
<1>1. PICK o, n, e : d = [out |-> o, used |-> n, ended |-> e]
  BY DEF HasParts
<1>2. CASE d.ended \/ (h.head = 0 /\ h.len = 0)
  <2>1. Decoded(d, h, literals) = [d EXCEPT !.ended = TRUE]
    BY <1>2 DEF Decoded
  <2>2. Decoded(d, h, literals) = [out |-> o, used |-> n, ended |-> TRUE]
    BY <1>1, <2>1
  <2>. QED  BY <2>2 DEF HasParts
<1>3. CASE ~(d.ended \/ (h.head = 0 /\ h.len = 0)) /\ h.head = 0
  <2>1. PICK x, y : Decoded(d, h, literals) = [d EXCEPT !.out = x, !.used = y]
    BY <1>3, Zenon DEF Decoded
  <2>2. Decoded(d, h, literals) = [out |-> x, used |-> y, ended |-> e]
    BY <1>1, <2>1
  <2>. QED  BY <2>2 DEF HasParts
<1>4. CASE ~(d.ended \/ (h.head = 0 /\ h.len = 0)) /\ h.head # 0
  <2>1. PICK x : Decoded(d, h, literals) = [d EXCEPT !.out = x]
    BY <1>4, Zenon DEF Decoded
  <2>2. Decoded(d, h, literals) = [out |-> x, used |-> n, ended |-> e]
    BY <1>1, <2>1
  <2>. QED  BY <2>2 DEF HasParts
<1>. QED  BY <1>2, <1>3, <1>4

LEMMA DecodingParts ==
  ASSUME NEW heads, NEW literals, Len(heads) \in Nat
  PROVE  \A k \in 0 .. Len(heads) : HasParts(Decoding(heads, literals)[k])
<1>. DEFINE G == {x \in Nat : x <= Len(heads) => HasParts(Decoding(heads, literals)[x])}
<1>1. 0 \in G
  BY DecodingIs DEF HasParts, Start
<1>2. ASSUME NEW x \in Nat, x \in G PROVE x + 1 \in G
  <2>. SUFFICES ASSUME x + 1 <= Len(heads) PROVE HasParts(Decoding(heads, literals)[x + 1])
    OBVIOUS
  <2>1. x + 1 \in 1 .. Len(heads) /\ (x + 1) - 1 = x /\ HasParts(Decoding(heads, literals)[x])
    BY <1>2
  <2>2. Decoding(heads, literals)[x + 1]
          = Decoded(Decoding(heads, literals)[x], heads[x + 1], literals)
    BY <2>1, DecodingIs
  <2>. QED  BY <2>1, <2>2, DecodedParts
<1>3. Nat \subseteq G
  <2>. HIDE DEF G
  <2>. QED  BY <1>1, <1>2, AllNumbers
<1>. QED  BY <1>3

(* When headers and literals are added, the other side comes to them as     *)
(* before.                                                                  *)
LEMMA DecodingGoesOn ==
  ASSUME NEW heads \in Seq(Heads), NEW more \in Seq(Heads),
         NEW u \in Seq(Alphabet), NEW v \in Seq(Alphabet),
         \A k \in 0 .. Len(heads) : Decoding(heads, u)[k].used \in 0 .. Len(u)
  PROVE  \A k \in 0 .. Len(heads) :
           Decoding(heads \o more, u \o v)[k] = Decoding(heads, u)[k]
<1>1. /\ Len(heads) \in Nat /\ Len(more) \in Nat
      /\ Len(heads \o more) = Len(heads) + Len(more)
      /\ \A i \in 1 .. Len(heads) : (heads \o more)[i] = heads[i] /\ heads[i] \in Heads
  BY ConcatProperties
<1>. DEFINE G == {x \in Nat : x <= Len(heads) =>
                     Decoding(heads \o more, u \o v)[x] = Decoding(heads, u)[x]}
<1>2. 0 \in G
  <2>1. Decoding(heads \o more, u \o v)[0] = Start /\ Decoding(heads, u)[0] = Start
    BY <1>1, DecodingIs
  <2>. QED  BY <2>1
<1>3. ASSUME NEW x \in Nat, x \in G PROVE x + 1 \in G
  <2>. SUFFICES ASSUME x + 1 <= Len(heads)
                PROVE  Decoding(heads \o more, u \o v)[x + 1] = Decoding(heads, u)[x + 1]
    OBVIOUS
  <2>1. x + 1 \in 1 .. Len(heads) /\ x + 1 \in 1 .. Len(heads) + Len(more) /\ (x + 1) - 1 = x
    BY <1>1
  <2>2. PICK d : d = Decoding(heads, u)[x]
    OBVIOUS
  <2>3. PICK h \in Heads : h = heads[x + 1] /\ h = (heads \o more)[x + 1]
    BY <1>1, <2>1
  <2>4. Decoding(heads \o more, u \o v)[x] = d
    BY <1>1, <1>3, <2>1, <2>2
  <2>5. Decoding(heads \o more, u \o v)[x + 1] = Decoded(d, h, u \o v)
    <3>1. PICK all, lits : all = heads \o more /\ lits = u \o v
      OBVIOUS
    <3>2. Decoding(all, lits)[x + 1] = Decoded(Decoding(all, lits)[x], all[x + 1], lits)
      <4>1. Len(all) \in Nat /\ x + 1 \in 1 .. Len(all)
        BY <1>1, <2>1, <3>1
      <4>. QED  BY <2>1, <4>1, DecodingIs
    <3>. QED  BY <2>3, <2>4, <3>1, <3>2
  <2>6. Decoding(heads, u)[x + 1] = Decoded(d, h, u)
    BY <1>1, <2>1, <2>2, <2>3, DecodingIs
  <2>7. Decoded(d, h, u \o v) = Decoded(d, h, u)
    <3>1. CASE d.ended \/ (h.head = 0 /\ h.len = 0) \/ h.head # 0
      BY <3>1 DEF Decoded
    <3>2. CASE ~(d.ended \/ (h.head = 0 /\ h.len = 0)) /\ h.head = 0
      <4>1. /\ Decoded(d, h, u) = [d EXCEPT !.out = @ \o SubSeq(u, d.used + 1, d.used + h.len),
                                            !.used = @ + h.len]
            /\ Decoded(d, h, u \o v) =
                 [d EXCEPT !.out = @ \o SubSeq(u \o v, d.used + 1, d.used + h.len),
                           !.used = @ + h.len]
        BY <3>2 DEF Decoded
      <4>2. HasParts(d)
        BY <1>1, <2>1, <2>2, DecodingParts
      <4>3. Decoded(d, h, u).used = d.used + h.len
        <5>1. PICK o, n, e : d = [out |-> o, used |-> n, ended |-> e]
          BY <4>2 DEF HasParts
        <5>. QED  BY <4>1, <5>1
      <4>4. d.used \in Nat /\ h.len \in Nat /\ Len(u) \in Nat
        <5>1. x \in 0 .. Len(heads)
          BY <2>1
        <5>. QED  BY <2>2, <5>1, MatchAssumption DEF Heads
      <4>5. d.used + h.len <= Len(u)
        <5>1. x + 1 \in 0 .. Len(heads)
          BY <2>1
        <5>. QED  BY <2>6, <4>3, <4>4, <5>1
      <4>6. SubSeq(u \o v, d.used + 1, d.used + h.len) = SubSeq(u, d.used + 1, d.used + h.len)
        BY <4>4, <4>5, PartOfMore
      <4>. QED  BY <4>1, <4>6
    <3>. QED  BY <3>1, <3>2
  <2>. QED  BY <2>5, <2>6, <2>7
<1>4. Nat \subseteq G
  <2>. HIDE DEF G
  <2>. QED  BY <1>2, <1>3, AllNumbers
<1>. QED  BY <1>1, <1>4
(* The streams hold the chunk up to x.                                      *)
StreamsHold(heads, literals, x) ==
  /\ heads \in Seq(Heads) /\ literals \in Seq(Alphabet)
  /\ \A k \in 0 .. Len(heads) : Decoding(heads, literals)[k].used \in 0 .. Len(literals)
  /\ Decoding(heads, literals)[Len(heads)]
       = [out |-> Bytes(0, x), used |-> Len(literals), ended |-> FALSE]

(* With the header h the other side comes from x + a to x + b in the chunk, *)
(* and from v + i to v + j in the literals.                                 *)
Adds(x, v, h, literals, a, b, i, j) ==
  Decoded([out |-> Bytes(0, x + a), used |-> v + i, ended |-> FALSE], h, literals)
    = [out |-> Bytes(0, x + b), used |-> v + j, ended |-> FALSE]

RunAdds(x, v, more, literals, c, u) ==
  \A i \in 1 .. Len(more) : Adds(x, v, more[i], literals, c[i - 1], c[i], u[i - 1], u[i])

(* The numbers u[0], u[1] .. u[n] = total.                                  *)
Counts(u, n, total) ==
  u[0] = 0 /\ u[n] = total /\ \A i \in Nat : u[i] \in Nat /\ u[i] <= total

(* They go on holding it when each header that is added adds the next part  *)
(* of the chunk.                                                            *)
LEMMA RunHolds ==
  ASSUME NEW heads, NEW literals, NEW x \in Nat, StreamsHold(heads, literals, x),
         NEW more \in Seq(Heads), NEW add \in Seq(Alphabet), NEW c, NEW u,
         NEW len, Counts(c, Len(more), len), Counts(u, Len(more), Len(add)),
         RunAdds(x, Len(literals), more, literals \o add, c, u)
  PROVE  StreamsHold(heads \o more, literals \o add, x + len)
<1>1. /\ heads \in Seq(Heads) /\ literals \in Seq(Alphabet)
      /\ Len(heads) \in Nat /\ Len(more) \in Nat
      /\ Len(literals) \in Nat /\ Len(add) \in Nat
      /\ \A k \in 0 .. Len(heads) : Decoding(heads, literals)[k].used \in 0 .. Len(literals)
      /\ Decoding(heads, literals)[Len(heads)]
           = [out |-> Bytes(0, x), used |-> Len(literals), ended |-> FALSE]
  BY DEF StreamsHold
<1>2. PICK all, lits : all = heads \o more /\ lits = literals \o add
  OBVIOUS
<1>3. /\ all \in Seq(Heads) /\ Len(all) = Len(heads) + Len(more)
      /\ \A i \in 1 .. Len(heads) + Len(more) :
           all[i] = IF i <= Len(heads) THEN heads[i] ELSE more[i - Len(heads)]
  BY <1>1, <1>2, ConcatProperties
<1>4. lits \in Seq(Alphabet) /\ Len(lits) = Len(literals) + Len(add)
  BY <1>1, <1>2, ConcatProperties
<1>5. \A k \in 0 .. Len(heads) : Decoding(all, lits)[k] = Decoding(heads, literals)[k]
  BY <1>1, <1>2, DecodingGoesOn
<1>. DEFINE State(i) == [out |-> Bytes(0, x + c[i]), used |-> Len(literals) + u[i],
                         ended |-> FALSE]
            G == {i \in Nat : i <= Len(more) => Decoding(all, lits)[Len(heads) + i] = State(i)}
<1>6. 0 \in G
  <2>1. Len(heads) \in 0 .. Len(heads) /\ Len(heads) + 0 = Len(heads) /\ x + 0 = x
        /\ Len(literals) + 0 = Len(literals)
    BY <1>1
  <2>2. State(0) = [out |-> Bytes(0, x), used |-> Len(literals), ended |-> FALSE]
    BY <2>1 DEF Counts
  <2>. QED  BY <1>1, <1>5, <2>1, <2>2
<1>7. ASSUME NEW i \in Nat, i \in G PROVE i + 1 \in G
  <2>. SUFFICES ASSUME i + 1 <= Len(more)
                PROVE  Decoding(all, lits)[Len(heads) + (i + 1)] = State(i + 1)
    OBVIOUS
  <2>1. PICK n \in Nat : n = Len(heads) + i /\ n + 1 = Len(heads) + (i + 1)
    BY <1>1
  <2>2. /\ n + 1 \in 1 .. Len(all) /\ (n + 1) - 1 = n /\ i + 1 \in 1 .. Len(more)
        /\ (i + 1) - 1 = i /\ n + 1 > Len(heads) /\ (n + 1) - Len(heads) = i + 1
    BY <1>1, <1>3, <2>1
  <2>3. all[n + 1] = more[i + 1]
    BY <1>1, <1>3, <2>2
  <2>4. Decoding(all, lits)[n] = State(i)
    BY <1>7, <2>1, <2>2
  <2>. HIDE DEF State
  <2>5. Decoding(all, lits)[n + 1] = Decoded(State(i), more[i + 1], lits)
    <3>1. Len(all) \in Nat
      BY <1>1, <1>3
    <3>2. Decoding(all, lits)[n + 1] = Decoded(Decoding(all, lits)[n], all[n + 1], lits)
      BY <2>2, <3>1, DecodingIs
    <3>. QED  BY <2>3, <2>4, <3>2
  <2>6. Decoded(State(i), more[i + 1], lits) = State(i + 1)
    BY <1>2, <2>2, Zenon DEF State, RunAdds, Adds
  <2>. QED  BY <2>1, <2>5, <2>6
<1>8. Nat \subseteq G
  <2>. HIDE DEF G
  <2>. QED  BY <1>6, <1>7, AllNumbers
<1>9. \A i \in 0 .. Len(more) : Decoding(all, lits)[Len(heads) + i] = State(i)
  BY <1>1, <1>8
<1>. HIDE DEF G
<1>10. ASSUME NEW k \in 0 .. Len(all) PROVE Decoding(all, lits)[k].used \in 0 .. Len(lits)
  <2>1. CASE k <= Len(heads)
    <3>1. k \in 0 .. Len(heads)
      BY <1>1, <2>1
    <3>2. Decoding(all, lits)[k].used \in 0 .. Len(literals)
      BY <1>1, <1>5, <3>1, Zenon
    <3>3. PICK v \in Nat, w \in Nat : v = Len(literals) /\ Len(lits) = v + w
      BY <1>1, <1>4
    <3>. QED  BY <3>2, <3>3
  <2>2. CASE k > Len(heads)
    <3>1. PICK i \in 0 .. Len(more) : k = Len(heads) + i
      BY <1>1, <1>3, <2>2
    <3>2. Decoding(all, lits)[k].used = Len(literals) + u[i]
      <4>1. Decoding(all, lits)[k] = State(i)
        BY <1>9, <3>1, Zenon
      <4>. QED  BY <4>1
    <3>3. i \in Nat
      BY <1>1, <3>1
    <3>4. PICK y \in Nat, v \in Nat, w \in Nat :
            y = u[i] /\ v = Len(literals) /\ w = Len(add) /\ y <= w
      BY <1>1, <3>3 DEF Counts
    <3>. QED  BY <1>4, <3>2, <3>4
  <2>. QED  BY <1>1, <2>1, <2>2
<1>11. Decoding(all, lits)[Len(all)]
         = [out |-> Bytes(0, x + len), used |-> Len(lits), ended |-> FALSE]
  <2>1. Len(more) \in 0 .. Len(more)
    BY <1>1
  <2>2. State(Len(more)) = [out |-> Bytes(0, x + len), used |-> Len(lits), ended |-> FALSE]
    BY <1>4 DEF Counts
  <2>3. Decoding(all, lits)[Len(heads) + Len(more)] = State(Len(more))
    BY <1>9, <2>1, Zenon
  <2>. QED  BY <1>3, <2>2, <2>3
<1>. QED  BY <1>2, <1>3, <1>4, <1>10, <1>11 DEF StreamsHold

Part(a, n) == a \in Nat /\ n \in Nat /\ buf \in Seq(Alphabet) /\ a + n <= Len(buf)

LEMMA PartIs ==
  ASSUME NEW a, NEW n, Part(a, n)
  PROVE  /\ Bytes(a, n) \in Seq(Alphabet) /\ Len(Bytes(a, n)) = n
         /\ \A i \in 1 .. n : Bytes(a, n)[i] = buf[a + i]
  BY BytesAre DEF Part

LEMMA PartsJoin ==
  ASSUME NEW a, NEW n, Part(a, n)
  PROVE  Bytes(0, a) \o Bytes(a, n) = Bytes(0, a + n)
<1>1. a \in Nat /\ n \in Nat /\ buf \in Seq(Alphabet) /\ a + n <= Len(buf) /\ Len(buf) \in Nat
  BY DEF Part
<1>2. 0 + a + n <= Len(buf) /\ 0 + a = a /\ 0 \in Nat
  BY <1>1
<1>3. Bytes(0, a) \o Bytes(0 + a, n) = Bytes(0, a + n)
  BY <1>1, <1>2, BytesJoin, Zenon
<1>. QED  BY <1>2, <1>3, Zenon

LiteralHead(h, l) == h.head = 0 /\ h.len = l

(* One header of a literal.                                                 *)
LEMMA LiteralPiece ==
  ASSUME NEW x \in Nat, NEW a \in Nat, NEW l \in Nat, NEW len \in Nat,
         l > 0, a + l <= len, Part(x, len),
         NEW literals, literals \in Seq(Alphabet), NEW h, LiteralHead(h, l),
         NEW b \in Nat, b = a + l
  PROVE  Adds(x, Len(literals), h, literals \o Bytes(x, len), a, b, a, b)
<1>1. PICK y \in Nat : y = x + a
  OBVIOUS
<1>2. Part(y, l)
  <2>1. Len(buf) \in Nat /\ x + len <= Len(buf) /\ buf \in Seq(Alphabet)
    BY DEF Part
  <2>2. y + l <= Len(buf)
    BY <1>1, <2>1
  <2>. QED  BY <2>1, <2>2 DEF Part
<1>3. PICK add : /\ add = Bytes(x, len) /\ add \in Seq(Alphabet) /\ Len(add) = len
                 /\ \A j \in 1 .. len : add[j] = buf[x + j]
  BY PartIs
<1>4. PICK L \in Nat : L = Len(literals)
  OBVIOUS
<1>5. PICK m \in Nat : m = L + a
  OBVIOUS
<1>6. PICK all : all = literals \o add
  OBVIOUS
<1>7. /\ all \in Seq(Alphabet) /\ Len(all) = L + len
      /\ \A i \in 1 .. L + len : all[i] = IF i <= L THEN literals[i] ELSE add[i - L]
  <2>1. /\ literals \o add \in Seq(Alphabet) /\ Len(literals \o add) = Len(literals) + Len(add)
        /\ \A i \in 1 .. Len(literals) + Len(add) : (literals \o add)[i]
             = IF i <= Len(literals) THEN literals[i] ELSE add[i - Len(literals)]
    BY <1>3, ConcatProperties, Zenon
  <2>. QED  BY <1>3, <1>4, <1>6, <2>1, Zenon
<1>8. \A i \in 1 .. L + len : all[i] \in Alphabet
  BY <1>7, ElementOfSeq
<1>9. PICK f \in Int, g \in Int : f = m + 1 /\ g = m + l
  OBVIOUS
<1>. DEFINE part == SubSeq(all, f, g)
<1>10. /\ part \in Seq(Alphabet) /\ Len(part) = l
       /\ \A j \in 1 .. l : part[j] = all[(m + 1) + j - 1]
  <2>1. /\ \A j \in f .. g : j \in 1 .. L + len
        /\ g - f + 1 = l /\ f <= g
    BY <1>5, <1>9
  <2>2. \A j \in f .. g : all[j] \in Alphabet
    BY <1>8, <2>1
  <2>3. /\ part \in Seq(Alphabet)
        /\ Len(part) = IF f <= g THEN g - f + 1 ELSE 0
        /\ \A j \in 1 .. g - f + 1 : part[j] = all[f + j - 1]
    BY <2>2, SubSeqProperties
  <2>. HIDE DEF part
  <2>. QED  BY <1>9, <2>1, <2>3, Zenon
<1>11. /\ Bytes(y, l) \in Seq(Alphabet) /\ Len(Bytes(y, l)) = l
       /\ \A j \in 1 .. l : Bytes(y, l)[j] = buf[y + j]
  BY <1>2, PartIs
<1>12. ASSUME NEW j \in 1 .. l PROVE part[j] = Bytes(y, l)[j]
  <2>1. /\ (m + 1) + j - 1 = L + (a + j) /\ a + j \in 1 .. len
        /\ L + (a + j) \in 1 .. L + len
        /\ ~(L + (a + j) <= L) /\ (L + (a + j)) - L = a + j
        /\ x + (a + j) = y + j
    BY <1>1, <1>5
  <2>2. part[j] = all[L + (a + j)]
    BY <1>10, <2>1
  <2>3. all[L + (a + j)] = add[a + j]
    BY <1>7, <2>1
  <2>. QED  BY <1>3, <1>11, <2>1, <2>2, <2>3
<1>13. part = Bytes(y, l)
  <2>. HIDE DEF part
  <2>. QED  BY <1>10, <1>11, <1>12, SeqEqual
<1>14. Bytes(0, y) \o Bytes(y, l) = Bytes(0, y + l)
  BY <1>2, PartsJoin
<1>15. PICK d : d = [out |-> Bytes(0, y), used |-> m, ended |-> FALSE]
  OBVIOUS
<1>16. Decoded(d, h, all) = [d EXCEPT !.out = @ \o part, !.used = @ + l]
  BY <1>9, <1>15 DEF Decoded, LiteralHead
<1>. HIDE DEF part
<1>17. Decoded(d, h, all) = [out |-> Bytes(0, y) \o part, used |-> m + l, ended |-> FALSE]
  BY <1>15, <1>16
<1>18. x + b = y + l /\ Len(literals) + a = m /\ Len(literals) + b = m + l /\ x + a = y
  BY <1>1, <1>4, <1>5
<1>. QED  BY <1>3, <1>6, <1>13, <1>14, <1>15, <1>17, <1>18 DEF Adds

(* A literal.                                                               *)
LEMMA LiteralHolds ==
  ASSUME NEW heads, NEW literals, NEW x \in Nat, NEW len \in Nat,
         len > 0, Part(x, len), StreamsHold(heads, literals, x)
  PROVE  StreamsHold(heads \o Literal(len), literals \o Bytes(x, len), x + len)
<1>1. PICK n \in Nat : \E f :
        /\ n > 0 /\ DOMAIN Pieces(len) = 1 .. n
        /\ f[0] = 0 /\ f[n] = len /\ \A i \in Nat : f[i] \in Nat /\ f[i] <= len
        /\ \A i \in 1 .. n : /\ Pieces(len)[i] \in 1 .. MaxRun
                             /\ f[i] = f[i - 1] + Pieces(len)[i]
  BY PiecesCut
<1>2. PICK c :
        /\ n > 0 /\ DOMAIN Pieces(len) = 1 .. n
        /\ c[0] = 0 /\ c[n] = len /\ \A i \in Nat : c[i] \in Nat /\ c[i] <= len
        /\ \A i \in 1 .. n : /\ Pieces(len)[i] \in 1 .. MaxRun
                             /\ c[i] = c[i - 1] + Pieces(len)[i]
  BY <1>1
<1>3. PICK more : more = Literal(len)
  OBVIOUS
<1>4. /\ more \in Seq(Heads) /\ Len(more) = n
      /\ \A i \in 1 .. n : more[i].head = 0 /\ more[i].len = Pieces(len)[i]
  <2>1. more = [i \in 1 .. n |-> [head |-> 0, len |-> Pieces(len)[i], ofs |-> 0]]
    BY <1>2, <1>3 DEF Literal
  <2>2. ASSUME NEW i \in 1 .. n
        PROVE  [head |-> 0, len |-> Pieces(len)[i], ofs |-> 0] \in Heads
    <3>1. 0 \in 0 .. chunk_size
      BY DEF chunk_size, Part
    <3>2. Pieces(len)[i] \in 0 .. MaxRun
      BY <1>2, MatchAssumption
    <3>. QED  BY <3>1, <3>2 DEF Heads
  <2>. QED  BY <2>1, <2>2
<1>5. literals \in Seq(Alphabet)
  BY DEF StreamsHold
<1>6. PICK add : add = Bytes(x, len) /\ add \in Seq(Alphabet) /\ Len(add) = len
  BY PartIs
<1>7. RunAdds(x, Len(literals), more, literals \o add, c, c)
  <2>1. ASSUME NEW i \in 1 .. n
        PROVE  Adds(x, Len(literals), more[i], literals \o add, c[i - 1], c[i], c[i - 1], c[i])
    <3>1. i - 1 \in Nat /\ i \in Nat
      OBVIOUS
    <3>2. PICK a \in Nat : a = c[i - 1]
      BY <1>2, <3>1
    <3>3. PICK b \in Nat : b = c[i] /\ b <= len
      BY <1>2, <3>1
    <3>4. PICK l \in Nat : l = Pieces(len)[i] /\ l > 0
      BY <1>2, MatchAssumption
    <3>5. b = a + l
      BY <1>2, <3>2, <3>3, <3>4
    <3>6. more[i].head = 0 /\ more[i].len = l
      BY <1>4, <3>4
    <3>7. PICK h : h = more[i] /\ LiteralHead(h, l)
      BY <3>6 DEF LiteralHead
    <3>8. a + l <= len
      BY <3>3, <3>5
    <3>9. Adds(x, Len(literals), h, literals \o Bytes(x, len), a, b, a, b)
      BY <1>5, <3>4, <3>5, <3>7, <3>8, LiteralPiece
    <3>. QED  BY <1>6, <3>2, <3>3, <3>7, <3>9, Zenon
  <2>. QED  BY <1>4, <2>1, Zenon DEF RunAdds
<1>8. StreamsHold(heads \o more, literals \o add, x + len)
  <2>1. Counts(c, Len(more), Len(add)) /\ Counts(c, Len(more), len)
    BY <1>2, <1>4, <1>6 DEF Counts
  <2>. QED  BY <1>2, <1>4, <1>6, <1>7, <2>1, RunHolds
<1>. QED  BY <1>2, <1>3, <1>4, <1>6, <1>8
(* A match with what is dist letters back.                                  *)
Repeats(y, l, dist) == \A i \in 1 .. l : buf[y + i] = buf[(y - dist) + i]

(* When the match is longer than dist it goes on with what it has copied    *)
(* itself.                                                                  *)
LEMMA RepeatsOverlapping ==
  ASSUME NEW y \in Nat, NEW l \in Nat, NEW dist \in Nat, 0 < dist, dist <= y, 0 < l,
         Repeats(y, l, dist), NEW n \in Nat, n = MIN(l, dist)
  PROVE  \A i \in 1 .. l : buf[(y - dist) + (1 + ((i - 1) % n))] = buf[y + i]
<1>. DEFINE Good(i) == buf[(y - dist) + (1 + ((i - 1) % n))] = buf[y + i]
            T == {i \in 1 .. l : ~Good(i)}
<1>1. n > 0 /\ n <= dist
  BY DEF MIN
<1>2. ASSUME NEW i \in 1 .. l, i <= n PROVE Good(i)
  <2>1. PICK j \in Nat : j = i - 1 /\ j < n /\ 1 + j = i
    BY <1>2
  <2>2. j % n = j
    BY <2>1, ModLess
  <2>. QED  BY <2>1, <2>2 DEF Repeats
<1>3. ASSUME NEW i \in 1 .. l, i > n, Good(i - n) PROVE Good(i)
  <2>1. n = dist
    BY <1>3 DEF MIN
  <2>2. PICK k \in Nat : k = i - 1 /\ n <= k /\ (i - n) - 1 = k - n
    BY <1>1, <1>3
  <2>3. (k - n) % n = k % n
    BY <1>1, <2>2, ModMinus
  <2>4. buf[(y - dist) + (1 + (k % n))] = buf[y + (i - n)]
    BY <1>3, <2>2, <2>3
  <2>5. y + (i - n) = (y - dist) + i
    BY <2>1
  <2>6. buf[y + i] = buf[(y - dist) + i]
    BY DEF Repeats
  <2>. QED  BY <2>2, <2>4, <2>5, <2>6
<1>4. SUFFICES ASSUME T # {} PROVE FALSE
  OBVIOUS
<1>. HIDE DEF Good
<1>5. PICK m \in T : \A k \in T : m <= k
  <2>1. T \in SUBSET Nat
    OBVIOUS
  <2>. HIDE DEF T
  <2>. QED  BY <1>4, <2>1, LeastOf
<1>6. m \in 1 .. l /\ m > n
  BY <1>2, <1>5
<1>7. m - n \in 1 .. l /\ ~(m <= m - n)
  BY <1>1, <1>6
<1>8. Good(m - n)
  BY <1>5, <1>7
<1>. QED  BY <1>3, <1>5, <1>6, <1>8

(* So unzip_match adds the part of the chunk behind y.                      *)
LEMMA CopyAdds ==
  ASSUME NEW y, NEW l, Part(y, l), 0 < l,
         NEW dist \in Nat, 0 < dist, dist <= y, Repeats(y, l, dist)
  PROVE  unzip_match(Bytes(0, y), l, dist) = Bytes(0, y + l)
<1>1. y \in Nat /\ l \in Nat /\ Len(buf) \in Nat /\ buf \in Seq(Alphabet) /\ y + l <= Len(buf)
  BY DEF Part
<1>2. PICK n \in Nat : n = MIN(l, dist) /\ n > 0 /\ n <= dist /\ n <= l
  BY <1>1 DEF MIN
<1>3. Part(0, y)
  BY <1>1 DEF Part
<1>4. PICK out : /\ out = Bytes(0, y) /\ out \in Seq(Alphabet) /\ Len(out) = y
                 /\ \A i \in 1 .. y : out[i] = buf[0 + i]
  BY <1>3, PartIs
<1>5. \A i \in 1 .. y : out[i] = buf[i] /\ out[i] \in Alphabet
  BY <1>1, <1>4, ElementOfSeq
<1>6. PICK f \in Int, g \in Int : f = y - dist + 1 /\ g = y - dist + n
  BY <1>1
<1>. DEFINE copy == SubSeq(out, f, g)
<1>7. \A j \in 1 .. n : copy[j] = buf[(y - dist) + j]
  <2>1. g - f + 1 = n /\ \A j \in f .. g : j \in 1 .. y
    BY <1>1, <1>2, <1>6
  <2>2. \A j \in f .. g : out[j] \in Alphabet
    BY <1>5, <2>1
  <2>3. \A j \in 1 .. g - f + 1 : copy[j] = out[f + j - 1]
    BY <2>2, SubSeqProperties
  <2>4. \A j \in 1 .. n : f + j - 1 = (y - dist) + j /\ (y - dist) + j \in 1 .. y
    BY <1>1, <1>2, <1>6
  <2>. HIDE DEF copy
  <2>. QED  BY <1>5, <2>1, <2>3, <2>4
<1>. HIDE DEF copy
<1>. DEFINE add == [i \in 1 .. l |-> copy[1 + ((i - 1) % n)]]
<1>8. unzip_match(out, l, dist) = out \o add
  BY <1>2, <1>4, <1>6, Zenon DEF unzip_match, copy
<1>9. /\ Bytes(y, l) \in Seq(Alphabet) /\ Len(Bytes(y, l)) = l
      /\ \A j \in 1 .. l : Bytes(y, l)[j] = buf[y + j]
  BY PartIs
<1>10. ASSUME NEW i \in 1 .. l PROVE add[i] = Bytes(y, l)[i]
  <2>1. PICK k \in Nat : k = i - 1
    OBVIOUS
  <2>2. k % n \in 0 .. n - 1
    BY <1>2, DivFacts
  <2>3. 1 + (k % n) \in 1 .. n
    BY <1>2, <2>2
  <2>4. add[i] = buf[(y - dist) + (1 + (k % n))]
    BY <1>7, <2>1, <2>3
  <2>5. buf[(y - dist) + (1 + (k % n))] = buf[y + i]
    BY <1>1, <1>2, <2>1, RepeatsOverlapping
  <2>. QED  BY <1>9, <2>4, <2>5
<1>11. add = Bytes(y, l)
  <2>1. Bytes(y, l) = [i \in 1 .. l |-> Bytes(y, l)[i]]
    BY <1>9, LenProperties
  <2>2. \A i \in 1 .. l : add[i] = Bytes(y, l)[i]
    BY <1>10
  <2>3. add = [i \in 1 .. l |-> add[i]]
    OBVIOUS
  <2>. HIDE DEF add
  <2>. QED  BY <2>1, <2>2, <2>3
<1>12. Bytes(0, y) \o Bytes(y, l) = Bytes(0, y + l)
  BY PartsJoin
<1>. HIDE DEF add
<1>. QED  BY <1>4, <1>8, <1>11, <1>12
MatchHead(h, l, dist) == h.head = 1 /\ h.len = l /\ h.ofs = dist

(* One header of a match.                                                   *)
LEMMA MatchPiece ==
  ASSUME NEW x \in Nat, NEW a \in Nat, NEW l \in Nat, NEW len \in Nat,
         l > 0, a + l <= len, Part(x, len),
         NEW dist \in Nat, 0 < dist, dist <= x, Repeats(x, len, dist),
         NEW v \in Nat, NEW literals, NEW h, MatchHead(h, l, dist),
         NEW b \in Nat, b = a + l
  PROVE  Adds(x, v, h, literals, a, b, 0, 0)
<1>1. PICK y \in Nat : y = x + a /\ dist <= y
  OBVIOUS
<1>2. Part(y, l)
  <2>1. Len(buf) \in Nat /\ x + len <= Len(buf) /\ buf \in Seq(Alphabet)
    BY DEF Part
  <2>2. y + l <= Len(buf)
    BY <1>1, <2>1
  <2>. QED  BY <2>1, <2>2 DEF Part
<1>3. Repeats(y, l, dist)
  <2>1. ASSUME NEW i \in 1 .. l PROVE buf[y + i] = buf[(y - dist) + i]
    <3>1. a + i \in 1 .. len /\ x + (a + i) = y + i /\ (x - dist) + (a + i) = (y - dist) + i
      BY <1>1
    <3>2. buf[x + (a + i)] = buf[(x - dist) + (a + i)]
      BY <3>1 DEF Repeats
    <3>. QED  BY <3>1, <3>2
  <2>. QED  BY <2>1 DEF Repeats
<1>4. unzip_match(Bytes(0, y), l, dist) = Bytes(0, y + l)
  BY <1>1, <1>2, <1>3, CopyAdds
<1>5. PICK d : d = [out |-> Bytes(0, y), used |-> v, ended |-> FALSE]
  OBVIOUS
<1>6. Decoded(d, h, literals) = [d EXCEPT !.out = unzip_match(@, l, dist)]
  BY <1>5 DEF Decoded, MatchHead
<1>7. Decoded(d, h, literals) = [out |-> Bytes(0, y + l), used |-> v, ended |-> FALSE]
  BY <1>4, <1>5, <1>6
<1>8. x + b = y + l /\ x + a = y /\ v + 0 = v
  BY <1>1
<1>. QED  BY <1>5, <1>7, <1>8 DEF Adds

(* A match.                                                                 *)
LEMMA MatchHolds ==
  ASSUME NEW heads, NEW literals, NEW x \in Nat, NEW len \in Nat,
         len > 0, Part(x, len), StreamsHold(heads, literals, x),
         NEW dist \in Nat, 0 < dist, dist <= x, Repeats(x, len, dist)
  PROVE  StreamsHold(heads \o Match(len, dist), literals, x + len)
<1>1. PICK n \in Nat : \E f :
        /\ n > 0 /\ DOMAIN Pieces(len) = 1 .. n
        /\ f[0] = 0 /\ f[n] = len /\ \A i \in Nat : f[i] \in Nat /\ f[i] <= len
        /\ \A i \in 1 .. n : /\ Pieces(len)[i] \in 1 .. MaxRun
                             /\ f[i] = f[i - 1] + Pieces(len)[i]
  BY PiecesCut
<1>2. PICK c :
        /\ n > 0 /\ DOMAIN Pieces(len) = 1 .. n
        /\ c[0] = 0 /\ c[n] = len /\ \A i \in Nat : c[i] \in Nat /\ c[i] <= len
        /\ \A i \in 1 .. n : /\ Pieces(len)[i] \in 1 .. MaxRun
                             /\ c[i] = c[i - 1] + Pieces(len)[i]
  BY <1>1
<1>3. PICK more : more = Match(len, dist)
  OBVIOUS
<1>4. /\ more \in Seq(Heads) /\ Len(more) = n
      /\ \A i \in 1 .. n : more[i].head = 1 /\ more[i].len = Pieces(len)[i] /\ more[i].ofs = dist
  <2>1. more = [i \in 1 .. n |-> [head |-> 1, len |-> Pieces(len)[i], ofs |-> dist]]
    BY <1>2, <1>3 DEF Match
  <2>2. ASSUME NEW i \in 1 .. n
        PROVE  [head |-> 1, len |-> Pieces(len)[i], ofs |-> dist] \in Heads
    <3>1. dist \in 0 .. chunk_size
      BY DEF chunk_size, Part
    <3>2. Pieces(len)[i] \in 0 .. MaxRun
      BY <1>2, MatchAssumption
    <3>. QED  BY <3>1, <3>2 DEF Heads
  <2>. QED  BY <2>1, <2>2
<1>5. literals \in Seq(Alphabet)
  BY DEF StreamsHold
<1>6. PICK v \in Nat : v = Len(literals)
  BY <1>5
<1>7. literals \o << >> = literals /\ << >> \in Seq(Alphabet) /\ Len(<< >>) = 0
  BY <1>5, ConcatEmptySeq, EmptySeq
<1>8. PICK u : \A i \in Nat : u[i] = 0
  <2>1. \A i \in Nat : [j \in Nat |-> 0][i] = 0
    OBVIOUS
  <2>. QED  BY <2>1
<1>9. RunAdds(x, v, more, literals, c, u)
  <2>1. ASSUME NEW i \in 1 .. n
        PROVE  Adds(x, v, more[i], literals, c[i - 1], c[i], u[i - 1], u[i])
    <3>1. i - 1 \in Nat /\ i \in Nat
      OBVIOUS
    <3>2. PICK a \in Nat : a = c[i - 1]
      BY <1>2, <3>1
    <3>3. PICK b \in Nat : b = c[i] /\ b <= len
      BY <1>2, <3>1
    <3>4. PICK l \in Nat : l = Pieces(len)[i] /\ l > 0
      BY <1>2, MatchAssumption
    <3>5. b = a + l
      BY <1>2, <3>2, <3>3, <3>4
    <3>6. PICK h : h = more[i] /\ MatchHead(h, l, dist)
      BY <1>4, <3>4 DEF MatchHead
    <3>7. a + l <= len
      BY <3>3, <3>5
    <3>8. Adds(x, v, h, literals, a, b, 0, 0)
      BY <3>4, <3>5, <3>6, <3>7, MatchPiece
    <3>9. u[i - 1] = 0 /\ u[i] = 0
      BY <1>8, <3>1
    <3>. QED  BY <3>2, <3>3, <3>6, <3>8, <3>9, Zenon
  <2>. QED  BY <1>4, <2>1, Zenon DEF RunAdds
<1>10. StreamsHold(heads \o more, literals \o << >>, x + len)
  <2>1. Counts(c, Len(more), len)
    BY <1>2, <1>4 DEF Counts
  <2>2. Counts(u, Len(more), Len(<< >>))
    BY <1>4, <1>7, <1>8 DEF Counts
  <2>3. RunAdds(x, Len(literals), more, literals \o << >>, c, u)
    BY <1>6, <1>7, <1>9, Zenon
  <2>. QED  BY <1>4, <1>7, <2>1, <2>2, <2>3, RunHolds
<1>. QED  BY <1>3, <1>7, <1>10
(* The header of an empty literal ends the chunk.                           *)
LEMMA EndHolds ==
  ASSUME NEW heads, NEW literals, NEW x \in Nat, Part(0, x), StreamsHold(heads, literals, x)
  PROVE  /\ heads \o Literal(0) \in Seq(Heads) /\ literals \in Seq(Alphabet)
         /\ \A k \in 0 .. Len(heads \o Literal(0)) :
              Decoding(heads \o Literal(0), literals)[k].used \in 0 .. Len(literals)
         /\ Decoding(heads \o Literal(0), literals)[Len(heads \o Literal(0))]
              = [out |-> Bytes(0, x), used |-> Len(literals), ended |-> TRUE]
<1>1. PICK h : h = [head |-> 0, len |-> 0, ofs |-> 0]
  OBVIOUS
<1>2. Literal(0) = << h >>
  <2>1. PICK R \in Nat : R = MaxRun
    BY MatchAssumption
  <2>2. 0 * R = 0
    OBVIOUS
  <2>3. Pieces(0) = [i \in 1 .. 1 |-> IF i < 1 THEN R ELSE 0 - (1 - 1) * R]
    BY <2>1, Zenon DEF Pieces
  <2>4. DOMAIN Pieces(0) = {1} /\ Pieces(0)[1] = 0
    BY <2>2, <2>3
  <2>. QED  BY <1>1, <2>4 DEF Literal
<1>3. h \in Heads
  <2>1. 0 \in 0 .. MaxRun /\ 0 \in 0 .. chunk_size
    BY MatchAssumption DEF Part, chunk_size
  <2>. QED  BY <1>1, <2>1 DEF Heads
<1>4. /\ heads \in Seq(Heads) /\ literals \in Seq(Alphabet) /\ Len(heads) \in Nat
      /\ Len(literals) \in Nat
      /\ \A k \in 0 .. Len(heads) : Decoding(heads, literals)[k].used \in 0 .. Len(literals)
      /\ Decoding(heads, literals)[Len(heads)]
           = [out |-> Bytes(0, x), used |-> Len(literals), ended |-> FALSE]
  BY DEF StreamsHold
<1>5. << h >> \in Seq(Heads) /\ Len(<< h >>) = 1 /\ << h >>[1] = h
  BY <1>3
<1>6. literals \o << >> = literals /\ << >> \in Seq(Alphabet)
  BY <1>4, ConcatEmptySeq, EmptySeq
<1>7. PICK all : all = heads \o << h >>
  OBVIOUS
<1>8. PICK N \in Nat : N = Len(heads)
  BY <1>4
<1>9. all \in Seq(Heads) /\ Len(all) = N + 1 /\ all[N + 1] = h
  BY <1>4, <1>5, <1>7, <1>8, ConcatProperties
<1>10. \A k \in 0 .. N : Decoding(all, literals)[k] = Decoding(heads, literals)[k]
  <2>1. \A k \in 0 .. Len(heads) :
          Decoding(heads \o << h >>, literals \o << >>)[k] = Decoding(heads, literals)[k]
    BY <1>4, <1>5, <1>6, DecodingGoesOn
  <2>. QED  BY <1>6, <1>7, <1>8, <2>1, Zenon
<1>11. PICK d : d = [out |-> Bytes(0, x), used |-> Len(literals), ended |-> FALSE]
  OBVIOUS
<1>12. Decoding(all, literals)[N + 1] = Decoded(d, h, literals)
  <2>1. N + 1 \in 1 .. N + 1 /\ (N + 1) - 1 = N /\ N + 1 \in Nat /\ N \in 0 .. N
    OBVIOUS
  <2>2. Decoding(all, literals)[N + 1] = Decoded(Decoding(all, literals)[N], all[N + 1], literals)
    <3>1. \A k \in 1 .. Len(all) :
            Decoding(all, literals)[k] = Decoded(Decoding(all, literals)[k - 1], all[k], literals)
      BY <1>9, <2>1, DecodingIs
    <3>. QED  BY <1>9, <2>1, <3>1
  <2>3. Decoding(all, literals)[N] = d
    BY <1>4, <1>8, <1>10, <1>11, <2>1
  <2>. QED  BY <1>9, <2>2, <2>3
<1>13. Decoded(d, h, literals) = [out |-> Bytes(0, x), used |-> Len(literals), ended |-> TRUE]
  <2>1. Decoded(d, h, literals) = [d EXCEPT !.ended = TRUE]
    BY <1>1 DEF Decoded
  <2>. QED  BY <1>11, <2>1
<1>14. ASSUME NEW k \in 0 .. Len(all)
       PROVE  Decoding(all, literals)[k].used \in 0 .. Len(literals)
  <2>1. CASE k \in 0 .. N
    BY <1>4, <1>8, <1>10, <2>1
  <2>2. CASE k = N + 1
    BY <1>4, <1>12, <1>13, <2>2
  <2>. QED  BY <1>9, <2>1, <2>2
<1>. QED  BY <1>2, <1>4, <1>7, <1>9, <1>12, <1>13, <1>14

-----------------------------------------------------------------------------
(* The invariant holds at first. *)

LEMMA SizeFacts ==
  ASSUME buf \in Seq(Alphabet)
  PROVE  /\ chunk_size \in Nat /\ chunk_size = Len(buf) /\ end \in Int
         /\ end < chunk_size /\ MINIMUM_MATCH \in Nat /\ MINIMUM_MATCH > 0
         /\ end = chunk_size - MINIMUM_MATCH
<1>1. Len(buf) \in Nat
  OBVIOUS
<1>. QED  BY <1>1, MatchAssumption DEF chunk_size, end

LEMMA InitHolds ==
  ASSUME Init
  PROVE  SearchInv
<1>1. buf \in Seq(Alphabet)
  BY InputsAssumption DEF Init
<1>2. chunk_size \in Nat /\ end \in Int
  BY <1>1, SizeFacts
<1>3. PlaceInv
  <2>1. [c \in Alphabet |-> 0] \in [Alphabet -> {0, 1}]
    OBVIOUS
  <2>2. t \in [Alphabet -> {0, 1}]
    BY <2>1, TagIs DEF Init
  <2>. QED  BY <1>1, <1>2, <2>2 DEF Init, PlaceInv
<1>4. MatchInv
  BY <1>2 DEF Init, MatchInv
<1>5. Bytes(0, 0) = << >> /\ Len(<< >>) = 0 /\ << >> \in Seq(Alphabet) /\ << >> \in Seq(Heads)
  BY BytesNone, EmptySeq
<1>6. StreamsInv
  <2>1. Decoding(<< >>, << >>)[0] = Start
    BY <1>5, DecodingIs
  <2>2. s0 = << >> /\ s1 = << >> /\ last_match = 0 /\ pc = "loop"
    BY DEF Init
  <2>3. RoundTrip
    BY <1>5, <2>1, <2>2 DEF RoundTrip, Decode, Start
  <2>4. \A k \in 0 .. 0 : Decoding(<< >>, << >>)[k].used \in 0 .. 0
    BY <2>1 DEF Start
  <2>. QED  BY <1>5, <2>2, <2>3, <2>4 DEF StreamsInv
<1>7. SumInv
  BY <1>2, <1>5 DEF Init, SumInv
<1>8. RollingTag
  BY DEF Init, RollingTag
<1>. QED  BY <1>3, <1>4, <1>6, <1>7, <1>8 DEF SearchInv
-----------------------------------------------------------------------------
(* Each step keeps it. *)

(* The chunk does not change, and what is said of it does not.              *)
LEMMA ChunkStays ==
  ASSUME buf' = buf
  PROVE  /\ chunk_size' = chunk_size /\ end' = end /\ Heads' = Heads
         /\ \A i : B(i)' = B(i)
         /\ \A i, n : Bytes(i, n)' = Bytes(i, n)
         /\ \A q : full_tag(q)' = full_tag(q)
<1>1. chunk_size' = chunk_size /\ end' = end
  BY DEF chunk_size, end
<1>2. Heads' = Heads
  BY <1>1 DEF Heads
<1>3. \A i : B(i)' = B(i)
  BY DEF B
<1>4. \A i, n : Bytes(i, n)' = Bytes(i, n)
  BY DEF Bytes
<1>5. \A q : full_tag(q)' = full_tag(q)
  BY Zenon DEF full_tag, B
<1>. QED  BY <1>1, <1>2, <1>3, <1>4, <1>5

LEMMA StreamsMeet ==
  ASSUME StreamsInv
  PROVE  /\ pc \in {"loop", "cksum"} => StreamsHold(s0, s1, last_match)
         /\ pc \in {"final", "finish"} /\ buf \in Seq(Alphabet)
              => StreamsHold(s0, s1, chunk_size)
<1>1. CASE pc \in {"loop", "cksum"}
  BY <1>1 DEF StreamsInv, RoundTrip, Decode, StreamsHold
<1>2. CASE pc \in {"final", "finish"} /\ buf \in Seq(Alphabet)
  <2>1. Bytes(0, chunk_size) = buf /\ (pc = "done") = FALSE
    BY <1>2, BytesAll
  <2>. QED  BY <1>2, <2>1 DEF StreamsInv, RoundTrip, Decode, StreamsHold
<1>. QED  BY <1>1, <1>2

LEMMA StreamsNext ==
  ASSUME buf' = buf, buf \in Seq(Alphabet),
         \/ pc' \in {"loop", "cksum"} /\ StreamsHold(s0', s1', last_match')
         \/ pc' \in {"final", "finish"} /\ StreamsHold(s0', s1', chunk_size)
  PROVE  StreamsInv'
<1>1. Heads' = Heads /\ \A n : Bytes(0, n)' = Bytes(0, n)
  BY ChunkStays
<1>2. CASE pc' \in {"loop", "cksum"} /\ StreamsHold(s0', s1', last_match')
  BY <1>1, <1>2 DEF StreamsInv, RoundTrip, Decode, StreamsHold
<1>3. CASE pc' \in {"final", "finish"} /\ StreamsHold(s0', s1', chunk_size)
  <2>1. Bytes(0, chunk_size) = buf /\ (pc' = "done") = FALSE
    BY <1>3, BytesAll
  <2>. QED  BY <1>1, <1>3, <2>1 DEF StreamsInv, RoundTrip, Decode, StreamsHold
<1>. QED  BY <1>2, <1>3

LEMMA SkipKeeps ==
  ASSUME SearchInv, Skip
  PROVE  SearchInv'
<1>1. /\ buf' = buf /\ pc = "loop" /\ pc' = pc /\ p < end /\ p' = p + 1
      /\ t' = next_tag(p', t) /\ last_match' = last_match /\ current' = current
      /\ s0' = s0 /\ s1' = s1
      /\ UNCHANGED sumVars
  BY DEF Skip, outVars
<1>2. /\ PlaceInv /\ MatchInv /\ StreamsInv /\ SumInv /\ RollingTag
      /\ buf \in Seq(Alphabet) /\ p \in Nat /\ last_match \in 0 .. p
  BY DEF SearchInv, PlaceInv
<1>3. chunk_size' = chunk_size /\ end' = end
  BY <1>1, ChunkStays
<1>4. end \in Int /\ end > 0 /\ p + 1 <= end
  BY <1>1, <1>2, SizeFacts
<1>5. t' = full_tag(p + 1)
  <2>1. t = full_tag(p)
    BY <1>1, <1>2, <1>4 DEF RollingTag
  <2>. QED  BY <1>1, <1>2, <1>4, <2>1, TagMoves
<1>6. PlaceInv'
  <2>1. t' \in [Alphabet -> {0, 1}]
    BY <1>2, <1>5, TagIs
  <2>. QED  BY <1>1, <1>2, <1>3, <1>4, <2>1 DEF PlaceInv
<1>7. MatchInv'
  BY <1>1, <1>2, <1>3 DEF MatchInv, B
<1>8. StreamsInv'
  BY <1>1, <1>2, StreamsMeet, StreamsNext
<1>9. SumInv'
  BY <1>1, <1>2, <1>3 DEF SumInv, sumVars, Bytes
<1>10. RollingTag'
  <2>1. full_tag(p)' = full_tag(p + 1)
    BY <1>1, Zenon DEF full_tag, B
  <2>. QED  BY <1>1, <1>5, <2>1 DEF RollingTag
<1>. QED  BY <1>6, <1>7, <1>8, <1>9, <1>10 DEF SearchInv
(* A match of the l letters at x with those at o.                           *)
MatchAt(x, o, l) ==
  /\ last_match <= x /\ o < x /\ x + l <= end
  /\ \A i \in 0 .. l - 1 : B(x + i) = B(o + i)

LEMMA MatchNumbers ==
  ASSUME buf \in Seq(Alphabet), NEW m, IsMatch(m), m.len # 0
  PROVE  \E x \in Nat, o \in Nat, l \in Nat :
           x = m.p /\ o = m.ofs /\ l = m.len /\ l > 0 /\ MatchAt(x, o, l)
<1>1. chunk_size \in Nat
  BY SizeFacts
<1>2. m.p \in Nat /\ m.ofs \in Nat /\ m.len \in Nat
  BY <1>1 DEF IsMatch
<1>3. m.len > 0
  BY <1>2
<1>4. MatchAt(m.p, m.ofs, m.len)
  BY <1>3, Zenon DEF IsMatch, MatchAt
<1>. QED  BY <1>2, <1>3, <1>4

(* What is written up to x, where there is anything to write.               *)
LEMMA WritesLiterals ==
  ASSUME NEW z \in Nat, NEW k \in Nat, NEW x \in Nat, z = last_match, z + k = x,
         Part(z, k), StreamsHold(s0, s1, last_match)
  PROVE  StreamsHold(s0 \o LiteralsUpTo(x), s1 \o Bytes(z, k), x)
<1>1. CASE z < x
  <2>1. x - last_match = k
    OBVIOUS
  <2>2. LiteralsUpTo(x) = Literal(k)
    BY <1>1, <2>1 DEF LiteralsUpTo
  <2>3. StreamsHold(s0 \o Literal(k), s1 \o Bytes(z, k), z + k)
    <3>1. k > 0
      BY <1>1
    <3>2. StreamsHold(s0, s1, z)
      OBVIOUS
    <3>. QED  BY <3>1, <3>2, LiteralHolds
  <2>. QED  BY <2>2, <2>3
<1>2. CASE z = x
  <2>1. LiteralsUpTo(x) = << >> /\ k = 0
    BY <1>2 DEF LiteralsUpTo
  <2>2. Bytes(z, 0) = << >>
    BY BytesNone
  <2>3. s0 \in Seq(Heads) /\ s1 \in Seq(Alphabet)
    BY DEF StreamsHold
  <2>4. s0 \o << >> = s0 /\ s1 \o << >> = s1
    BY <2>3, ConcatEmptySeq
  <2>. QED  BY <1>2, <2>1, <2>2, <2>4
<1>. QED  BY <1>1, <1>2

(* What is written for the best match.                                      *)
LEMMA WritesMatch ==
  ASSUME buf \in Seq(Alphabet), NEW x \in Nat, NEW o \in Nat, NEW l \in Nat, l > 0,
         MatchAt(x, o, l), last_match \in Nat, StreamsHold(s0, s1, last_match)
  PROVE  /\ x + l \in Nat /\ x + l <= end
         /\ StreamsHold(s0 \o LiteralsUpTo(x) \o Match(l, x - o),
                        s1 \o Bytes(last_match, x - last_match), x + l)
<1>1. last_match <= x /\ o < x /\ x + l <= end
  BY DEF MatchAt
<1>2. \A i \in 0 .. l - 1 : B(x + i) = B(o + i)
  BY DEF MatchAt
<1>3. Len(buf) \in Nat /\ end < Len(buf) /\ end \in Int
  BY SizeFacts
<1>4. PICK z \in Nat, k \in Nat, dist \in Nat :
        z = last_match /\ k = x - z /\ z + k = x /\ dist = x - o /\ dist > 0 /\ dist <= x
        /\ x - dist = o
  BY <1>1
<1>5. Part(z, k) /\ Part(x, l)
  BY <1>1, <1>3, <1>4 DEF Part
<1>6. StreamsHold(s0 \o LiteralsUpTo(x), s1 \o Bytes(z, k), x)
  BY <1>4, <1>5, WritesLiterals
<1>7. Repeats(x, l, dist)
  <2>1. ASSUME NEW i \in 1 .. l PROVE buf[x + i] = buf[(x - dist) + i]
    <3>1. i - 1 \in 0 .. l - 1 /\ (x + (i - 1)) + 1 = x + i /\ (o + (i - 1)) + 1 = (x - dist) + i
      BY <1>4
    <3>2. B(x + (i - 1)) = B(o + (i - 1))
      BY <1>2, <3>1
    <3>3. buf[(x + (i - 1)) + 1] = buf[(o + (i - 1)) + 1]
      BY <3>2 DEF B
    <3>. QED  BY <3>1, <3>3
  <2>. QED  BY <2>1 DEF Repeats
<1>8. StreamsHold((s0 \o LiteralsUpTo(x)) \o Match(l, dist), s1 \o Bytes(z, k), x + l)
  <2>1. PICK heads, lits : heads = s0 \o LiteralsUpTo(x) /\ lits = s1 \o Bytes(z, k)
    OBVIOUS
  <2>2. StreamsHold(heads, lits, x)
    BY <1>6, <2>1
  <2>3. StreamsHold(heads \o Match(l, dist), lits, x + l)
    BY <1>1, <1>4, <1>5, <1>7, <2>2, MatchHolds
  <2>. QED  BY <2>1, <2>3
<1>. QED  BY <1>1, <1>4, <1>8

LEMMA SearchKeeps ==
  ASSUME SearchInv, NEW op \in 0 .. chunk_size, Search(op)
  PROVE  SearchInv'
<1>1. /\ PlaceInv /\ MatchInv /\ StreamsInv /\ SumInv /\ RollingTag
      /\ buf \in Seq(Alphabet) /\ p \in Nat /\ last_match \in 0 .. p
  BY DEF SearchInv, PlaceInv
<1>2. /\ chunk_size \in Nat /\ end \in Int /\ end < chunk_size
      /\ MINIMUM_MATCH \in Nat /\ MINIMUM_MATCH > 0
  BY <1>1, SizeFacts
<1>3. /\ buf' = buf /\ pc = "loop" /\ p < end /\ UNCHANGED sumVars
      /\ pc' = IF p' > cksum_limit THEN "cksum" ELSE "loop"
  BY DEF Search
<1>4. chunk_size' = chunk_size /\ end' = end
  BY <1>3, ChunkStays
<1>5. StreamsHold(s0, s1, last_match)
  BY <1>1, <1>3, StreamsMeet
<1>6. PICK q \in Nat : q = p + 1 /\ q <= end /\ last_match \in 0 .. q
  BY <1>1, <1>2, <1>3
<1>7. IsMatch(current)
  BY <1>1 DEF MatchInv, IsMatch
<1>8. PICK m : m = Better(q, op) /\ IsMatch(m)
  <2>1. op \in Nat
    BY <1>2
  <2>. QED  BY <1>1, <1>6, <1>7, <2>1, BetterIsMatch
<1>9. SumInv'
  <2>1. pc' \in {"loop", "cksum"} /\ (pc' = "cksum" => cksum_limit < p')
    <3>1. pc' = "cksum" => p' > cksum_limit
      BY <1>3
    <3>2. cksum_limit \in Nat
      BY <1>1, <1>2 DEF SumInv
    <3>3. p' \in Nat
      <4>1. CASE Ripe(q, m)
        <5>1. m.len # 0
          BY <1>2, <1>8, <4>1 DEF Ripe, IsMatch
        <5>2. m.p \in Nat /\ m.len \in Nat
          BY <1>1, <1>8, <5>1, MatchNumbers
        <5>. QED  BY <1>6, <1>8, <4>1, <5>2 DEF Search
      <4>2. CASE ~Ripe(q, m)
        BY <1>6, <1>8, <4>2 DEF Search
      <4>. QED  BY <4>1, <4>2
    <3>. QED  BY <1>3, <3>1, <3>2, <3>3
  <2>. QED  BY <1>1, <1>3, <1>4, <2>1 DEF SumInv, sumVars, Bytes
<1>10. CASE Ripe(q, m)
  <2>1. /\ s0' = s0 \o LiteralsUpTo(m.p) \o Match(m.len, m.p - m.ofs)
        /\ s1' = s1 \o Bytes(last_match, m.p - last_match)
        /\ last_match' = m.p + m.len /\ p' = last_match'
        /\ current' = [m EXCEPT !.p = p', !.len = 0]
        /\ t' = full_tag(p')
    BY <1>6, <1>8, <1>10, Zenon DEF Search
  <2>2. m.len # 0
    BY <1>2, <1>8, <1>10 DEF Ripe, IsMatch
  <2>3. /\ p' \in Nat /\ p' <= end
        /\ StreamsHold(s0', s1', last_match')
    <3>1. last_match \in Nat
      BY <1>6
    <3>2. PICK x \in Nat, o \in Nat, l \in Nat :
            x = m.p /\ o = m.ofs /\ l = m.len /\ l > 0 /\ MatchAt(x, o, l)
      BY <1>1, <1>8, <2>2, MatchNumbers
    <3>3. /\ x + l \in Nat /\ x + l <= end
          /\ StreamsHold(s0 \o LiteralsUpTo(x) \o Match(l, x - o),
                         s1 \o Bytes(last_match, x - last_match), x + l)
      BY <1>1, <1>5, <3>1, <3>2, WritesMatch
    <3>. QED  BY <2>1, <3>2, <3>3, Zenon
  <2>4. PlaceInv'
    <3>1. t' \in [Alphabet -> {0, 1}]
      BY <2>1, <2>3, TagIs
    <3>. QED  BY <1>1, <1>3, <1>4, <2>1, <2>3, <3>1 DEF PlaceInv
  <2>5. MatchInv'
    <3>1. /\ current' \in [p: 0 .. chunk_size, ofs: 0 .. chunk_size, len: 0 .. chunk_size]
          /\ current'.len = 0
      <4>1. p' \in 0 .. chunk_size
        BY <1>2, <2>3
      <4>2. PICK x : x = p' /\ x \in 0 .. chunk_size
        BY <4>1
      <4>3. 0 \in 0 .. chunk_size
        BY <1>2
      <4>4. m \in [p: 0 .. chunk_size, ofs: 0 .. chunk_size, len: 0 .. chunk_size]
        BY <1>8 DEF IsMatch
      <4>5. current' = [m EXCEPT !.p = x, !.len = 0]
        BY <2>1, <4>2
      <4>. QED  BY <4>2, <4>3, <4>4, <4>5
    <3>. QED  BY <1>4, <3>1 DEF MatchInv
  <2>6. StreamsInv'
    BY <1>1, <1>3, <2>3, StreamsNext
  <2>7. RollingTag'
    <3>1. full_tag(p)' = full_tag(p')
      BY <1>3, Zenon DEF full_tag, B
    <3>. QED  BY <2>1, <3>1 DEF RollingTag
  <2>. QED  BY <1>9, <2>4, <2>5, <2>6, <2>7 DEF SearchInv
<1>11. CASE ~Ripe(q, m)
  <2>1. /\ p' = q /\ current' = m /\ t' = next_tag(q, t) /\ last_match' = last_match
        /\ s0' = s0 /\ s1' = s1
    BY <1>6, <1>8, <1>11 DEF Search, outVars
  <2>2. t' = full_tag(q)
    <3>1. end > 0
      BY <1>1, <1>2, <1>3
    <3>2. t = full_tag(p)
      BY <1>1, <1>3, <3>1 DEF RollingTag
    <3>. QED  BY <1>1, <1>6, <2>1, <3>2, TagMoves
  <2>3. PlaceInv'
    <3>1. t' \in [Alphabet -> {0, 1}]
      BY <2>2, TagIs
    <3>. QED  BY <1>1, <1>3, <1>4, <1>6, <2>1, <3>1 DEF PlaceInv
  <2>4. MatchInv'
    BY <1>3, <1>4, <1>8, <2>1 DEF MatchInv, IsMatch, B
  <2>5. StreamsInv'
    BY <1>1, <1>3, <1>5, <2>1, StreamsNext
  <2>6. RollingTag'
    <3>1. full_tag(p)' = full_tag(q)
      BY <1>3, <2>1, Zenon DEF full_tag, B
    <3>. QED  BY <2>2, <3>1 DEF RollingTag
  <2>. QED  BY <1>9, <2>3, <2>4, <2>5, <2>6 DEF SearchInv
<1>. QED  BY <1>10, <1>11
(* What the streams and the match are said to be does not depend on the     *)
(* checksum, nor on where hash_search is once it is past the loop.          *)
LEMMA OthersStay ==
  ASSUME PlaceInv, MatchInv, RollingTag, UNCHANGED <<buf, p, t, last_match, current>>,
         pc' \in {"loop", "cksum", "final", "finish", "done", "fatal"},
         pc' \in {"loop", "cksum"} => pc \in {"loop", "cksum"}
  PROVE  PlaceInv' /\ MatchInv' /\ RollingTag'
<1>1. buf' = buf /\ p' = p /\ t' = t /\ last_match' = last_match /\ current' = current
  OBVIOUS
<1>2. chunk_size' = chunk_size /\ end' = end
  BY <1>1, ChunkStays
<1>3. PlaceInv'
  BY <1>1, <1>2 DEF PlaceInv
<1>4. MatchInv'
  BY <1>1, <1>2 DEF MatchInv, B
<1>5. RollingTag'
  <2>1. full_tag(p)' = full_tag(p)
    BY <1>1, Zenon DEF full_tag, B
  <2>. QED  BY <1>1, <1>2, <2>1 DEF RollingTag
<1>. QED  BY <1>3, <1>4, <1>5

(* Neither do the streams, as long as nothing is written.                   *)
LEMMA StreamsStay ==
  ASSUME StreamsInv, UNCHANGED <<buf, s0, s1, last_match>>,
         pc' = pc \/ pc' = "fatal" \/ (pc = "cksum" /\ pc' = "loop")
  PROVE  StreamsInv'
<1>1. buf' = buf /\ s0' = s0 /\ s1' = s1 /\ last_match' = last_match
  OBVIOUS
<1>2. Heads' = Heads
  BY <1>1, ChunkStays
<1>3. RoundTrip'
  BY <1>1 DEF StreamsInv, RoundTrip, Decode, Bytes
<1>. QED  BY <1>1, <1>2, <1>3 DEF StreamsInv

LEMMA StartCksumKeeps ==
  ASSUME SearchInv, StartCksum
  PROVE  SearchInv'
<1>1. /\ pc = "cksum" /\ cksumsem > 0 /\ cksumsem' = cksumsem - 1
      /\ checksum' = Bytes(cksum_limit, MIN(chunk_size - p, PageSize))
      /\ cksum_limit' = cksum_limit + Len(checksum')
      /\ tpc' = "crc" /\ pc' = "loop"
      /\ UNCHANGED <<buf, p, t, last_match, current>>
      /\ s0' = s0 /\ s1' = s1 /\ crc' = crc /\ hash' = hash
  BY DEF StartCksum, outVars
<1>2. /\ PlaceInv /\ MatchInv /\ StreamsInv /\ SumInv /\ RollingTag
      /\ buf \in Seq(Alphabet)
  BY DEF SearchInv, PlaceInv
<1>3. PlaceInv' /\ MatchInv' /\ RollingTag'
  BY <1>1, <1>2, OthersStay
<1>4. StreamsInv'
  BY <1>1, <1>2, StreamsStay
<1>5. chunk_size' = chunk_size /\ \A n : Bytes(0, n)' = Bytes(0, n)
  BY <1>1, ChunkStays
<1>6. PICK x \in Nat, n \in Nat :
        x = cksum_limit /\ n = MIN(chunk_size - p, PageSize) /\ x + n <= chunk_size
  <2>1. chunk_size \in Nat /\ end < chunk_size /\ end \in Int
    BY <1>2, SizeFacts
  <2>2. cksum_limit \in Nat /\ cksum_limit < p
    BY <1>1, <1>2, <2>1 DEF SumInv
  <2>3. p \in Nat /\ p <= chunk_size
    BY <1>2, <2>1 DEF PlaceInv
  <2>4. PageSize \in Nat
    BY MatchAssumption
  <2>5. MIN(chunk_size - p, PageSize) \in Nat /\ MIN(chunk_size - p, PageSize) <= chunk_size - p
    BY <2>1, <2>3, <2>4 DEF MIN
  <2>. QED  BY <2>1, <2>2, <2>3, <2>5
<1>7. Part(x, n)
  BY <1>2, <1>6 DEF Part, chunk_size
<1>8. checksum' \in Seq(Alphabet) /\ Len(checksum') = n /\ checksum' = Bytes(x, n)
  BY <1>1, <1>6, <1>7, PartIs
<1>9. cksum_limit' = x + n
  BY <1>1, <1>6, <1>8
<1>10. Bytes(0, x) \o checksum' = Bytes(0, x + n)
  BY <1>7, <1>8, PartsJoin
<1>11. tpc = "none" /\ cksumsem' = 0
  BY <1>1, <1>2 DEF SumInv
<1>12. crc = Bytes(0, x) /\ hash = Bytes(0, x) /\ crc \in Seq(Alphabet) /\ hash \in Seq(Alphabet)
  BY <1>1, <1>2, <1>6, <1>11 DEF SumInv
<1>13. SumInv'
  <2>1. Bytes(0, cksum_limit)' = Bytes(0, x + n)
    BY <1>1, <1>9 DEF Bytes
  <2>2. Bytes(0, x + n) = crc' \o checksum' /\ Bytes(0, x + n) = hash' \o checksum'
    BY <1>1, <1>10, <1>12
  <2>3. cksum_limit' \in 0 .. chunk_size
    BY <1>6, <1>9
  <2>. QED  BY <1>1, <1>5, <1>8, <1>11, <1>12, <2>1, <2>2, <2>3 DEF SumInv
<1>. QED  BY <1>3, <1>4, <1>13 DEF SearchInv

LEMMA LastLiteralKeeps ==
  ASSUME SearchInv, LastLiteral
  PROVE  SearchInv'
<1>1. /\ pc = "loop" /\ pc' = "final"
      /\ s0' = s0 \o LiteralsUpTo(chunk_size)
      /\ s1' = s1 \o Bytes(last_match, chunk_size - last_match)
      /\ UNCHANGED <<buf, p, t, last_match, current>> /\ UNCHANGED sumVars
  BY DEF LastLiteral
<1>2. /\ PlaceInv /\ MatchInv /\ StreamsInv /\ SumInv /\ RollingTag
      /\ buf \in Seq(Alphabet)
  BY DEF SearchInv, PlaceInv
<1>3. PlaceInv' /\ MatchInv' /\ RollingTag'
  BY <1>1, <1>2, OthersStay
<1>4. StreamsInv'
  <2>1. PICK z \in Nat, k \in Nat, x \in Nat :
          z = last_match /\ k = x - z /\ x = chunk_size /\ z + k = x
    <3>1. chunk_size \in Nat /\ end < chunk_size /\ end \in Int
      BY <1>2, SizeFacts
    <3>2. last_match \in Nat /\ last_match <= chunk_size
      BY <1>2, <3>1 DEF PlaceInv
    <3>. QED  BY <3>1, <3>2
  <2>2. Part(z, k)
    BY <1>2, <2>1 DEF Part, chunk_size
  <2>3. StreamsHold(s0, s1, last_match)
    BY <1>1, <1>2, StreamsMeet
  <2>4. StreamsHold(s0 \o LiteralsUpTo(x), s1 \o Bytes(z, k), x)
    BY <2>1, <2>2, <2>3, WritesLiterals
  <2>5. StreamsHold(s0', s1', chunk_size)
    BY <1>1, <2>1, <2>4
  <2>. QED  BY <1>1, <1>2, <2>5, StreamsNext
<1>5. SumInv'
  <2>1. chunk_size' = chunk_size
    BY <1>1, ChunkStays
  <2>. QED  BY <1>1, <1>2, <2>1 DEF SumInv, sumVars, Bytes
<1>. QED  BY <1>3, <1>4, <1>5 DEF SearchInv

LEMMA FinalCksumKeeps ==
  ASSUME SearchInv, FinalCksum
  PROVE  SearchInv'
<1>1. PICK n \in 1 .. chunk_size + PageSize : crc' = crc \o Rest(n) /\ hash' = hash \o Rest(n)
  BY DEF FinalCksum
<1>2. /\ pc = "final" /\ cksumsem > 0 /\ pc' = "finish"
      /\ UNCHANGED <<buf, p, t, last_match, current>>
      /\ s0' = s0 /\ s1' = s1 /\ cksum_limit' = cksum_limit /\ cksumsem' = cksumsem
      /\ checksum' = checksum /\ tpc' = tpc
  BY DEF FinalCksum, outVars
<1>3. /\ PlaceInv /\ MatchInv /\ StreamsInv /\ SumInv /\ RollingTag
      /\ buf \in Seq(Alphabet)
  BY DEF SearchInv, PlaceInv
<1>4. PlaceInv' /\ MatchInv' /\ RollingTag'
  BY <1>2, <1>3, OthersStay
<1>5. StreamsInv'
  <2>1. StreamsHold(s0', s1', chunk_size)
    BY <1>2, <1>3, StreamsMeet
  <2>. QED  BY <1>2, <1>3, <2>1, StreamsNext
<1>6. PICK x \in Nat, k \in Nat : x = cksum_limit /\ k = chunk_size - x /\ x + k = chunk_size
  <2>1. chunk_size \in Nat
    BY <1>3, SizeFacts
  <2>. QED  BY <1>3, <2>1 DEF SumInv
<1>7. Rest(n) = Bytes(x, k)
  <2>1. n \in Nat \ {0}
    <3>1. chunk_size \in Nat /\ PageSize \in Nat
      BY <1>3, SizeFacts, MatchAssumption
    <3>. QED  BY <3>1
  <2>2. cksum_limit \in 0 .. chunk_size
    BY <1>3 DEF SumInv
  <2>3. Rest(n) = Bytes(cksum_limit, chunk_size - cksum_limit)
    BY <1>3, <2>1, <2>2, RestIs
  <2>. QED  BY <1>6, <2>3
<1>8. Bytes(0, x) \o Bytes(x, k) = buf
  <2>1. Part(x, k)
    BY <1>3, <1>6 DEF Part, chunk_size
  <2>2. Bytes(0, x) \o Bytes(x, k) = Bytes(0, x + k)
    BY <2>1, PartsJoin
  <2>. QED  BY <1>3, <1>6, <2>2, BytesAll
<1>9. tpc = "none"
  BY <1>2, <1>3 DEF SumInv
<1>10. crc = Bytes(0, x) /\ hash = Bytes(0, x)
  BY <1>2, <1>3, <1>6, <1>9 DEF SumInv
<1>11. crc' = buf /\ hash' = buf
  BY <1>1, <1>7, <1>8, <1>10
<1>12. SumInv'
  <2>1. chunk_size' = chunk_size
    BY <1>2, ChunkStays
  <2>. QED  BY <1>2, <1>3, <1>9, <1>11, <2>1 DEF SumInv
<1>. QED  BY <1>4, <1>5, <1>12 DEF SearchInv

LEMMA FinishKeeps ==
  ASSUME SearchInv, Finish
  PROVE  SearchInv'
<1>1. /\ pc = "finish" /\ pc' = "done" /\ cksum' = crc /\ s0' = s0 \o Literal(0)
      /\ UNCHANGED <<buf, p, t, last_match, current>>
      /\ s1' = s1 /\ cksum_limit' = cksum_limit /\ cksumsem' = cksumsem
      /\ checksum' = checksum /\ tpc' = tpc /\ hash' = hash
  BY DEF Finish
<1>2. /\ PlaceInv /\ MatchInv /\ StreamsInv /\ SumInv /\ RollingTag
      /\ buf \in Seq(Alphabet)
  BY DEF SearchInv, PlaceInv
<1>3. PlaceInv' /\ MatchInv' /\ RollingTag'
  BY <1>1, <1>2, OthersStay
<1>4. chunk_size' = chunk_size /\ Heads' = Heads
  BY <1>1, ChunkStays
<1>5. StreamsInv'
  <2>1. PICK x \in Nat : x = chunk_size /\ Part(0, x)
    <3>1. chunk_size \in Nat /\ chunk_size = Len(buf)
      BY <1>2, SizeFacts
    <3>2. Part(0, chunk_size)
      BY <1>2, <3>1 DEF Part
    <3>. QED  BY <3>1, <3>2
  <2>2. StreamsHold(s0, s1, x)
    BY <1>1, <1>2, <2>1, StreamsMeet
  <2>3. /\ s0' \in Seq(Heads) /\ s1' \in Seq(Alphabet)
        /\ \A k \in 0 .. Len(s0') : Decoding(s0', s1')[k].used \in 0 .. Len(s1')
        /\ Decoding(s0', s1')[Len(s0')]
             = [out |-> Bytes(0, x), used |-> Len(s1'), ended |-> TRUE]
    BY <1>1, <2>1, <2>2, EndHolds
  <2>4. Bytes(0, x) = buf
    BY <1>2, <2>1, BytesAll
  <2>5. RoundTrip'
    <3>1. pc' = "done" /\ (pc' = "done") = TRUE
      BY <1>1
    <3>. QED  BY <1>1, <2>3, <2>4, <3>1 DEF RoundTrip, Decode
  <2>. QED  BY <1>4, <2>3, <2>5 DEF StreamsInv
<1>6. SumInv'
  BY <1>1, <1>2, <1>4 DEF SumInv
<1>. QED  BY <1>3, <1>5, <1>6 DEF SearchInv

(* The steps of cksumthread, and those that change nothing but pc.          *)
LEMMA CksumthreadKeeps ==
  ASSUME SearchInv, Cksumthread
  PROVE  SearchInv'
<1>1. /\ pc' = pc /\ UNCHANGED <<buf, p, t, last_match, current>>
      /\ UNCHANGED <<buf, s0, s1, last_match>> /\ cksum_limit' = cksum_limit /\ cksum' = cksum
      /\ buf' = buf /\ tpc # "none" /\ pc # "fatal"
  BY DEF Cksumthread, CksumCrc, CksumHash, CksumPost, outVars
<1>2. /\ PlaceInv /\ MatchInv /\ StreamsInv /\ SumInv /\ RollingTag
      /\ buf \in Seq(Alphabet) /\ pc \in {"loop", "cksum", "final", "finish", "done", "fatal"}
  BY DEF SearchInv, PlaceInv
<1>3. PlaceInv' /\ MatchInv' /\ RollingTag'
  BY <1>1, <1>2, OthersStay
<1>4. StreamsInv'
  BY <1>1, <1>2, StreamsStay
<1>5. pc \in {"loop", "cksum", "final"}
  BY <1>1, <1>2 DEF SumInv
<1>6. chunk_size' = chunk_size /\ p' = p /\ Bytes(0, cksum_limit)' = Bytes(0, cksum_limit)
  BY <1>1 DEF chunk_size, Bytes
<1>7. PICK all, a, h, c :
        all = Bytes(0, cksum_limit) /\ a = crc /\ h = hash /\ c = checksum
  OBVIOUS
<1>8. /\ all = IF tpc = "crc" THEN a \o c ELSE a
      /\ all = IF tpc \in {"crc", "hash"} THEN h \o c ELSE h
      /\ a \in Seq(Alphabet) /\ h \in Seq(Alphabet) /\ c \in Seq(Alphabet)
  BY <1>2, <1>5, <1>7 DEF SumInv
<1>9. a \o c \in Seq(Alphabet) /\ h \o c \in Seq(Alphabet) /\ << >> \in Seq(Alphabet)
  BY <1>8, ConcatProperties, EmptySeq
<1>10. cksumsem = 0
  BY <1>1, <1>2 DEF SumInv
<1>11. SumInv'
  <2>1. CASE CksumCrc
    <3>1. crc' = a \o c /\ tpc = "crc" /\ tpc' = "hash" /\ cksumsem' = 0 /\ hash' = h /\ checksum' = c
      BY <1>7, <1>10, <2>1 DEF CksumCrc
    <3>. QED  BY <1>1, <1>2, <1>5, <1>6, <1>7, <1>8, <1>9, <3>1 DEF SumInv
  <2>2. CASE CksumHash
    <3>1. hash' = h \o c /\ tpc = "hash" /\ tpc' = "post" /\ cksumsem' = 0 /\ crc' = a /\ checksum' = c
      BY <1>7, <1>10, <2>2 DEF CksumHash
    <3>. QED  BY <1>1, <1>2, <1>5, <1>6, <1>7, <1>8, <1>9, <3>1 DEF SumInv
  <2>3. CASE CksumPost
    <3>1. hash' = h /\ tpc = "post" /\ tpc' = "none" /\ cksumsem' = 1 /\ crc' = a /\ checksum' = << >>
      BY <1>7, <1>10, <2>3 DEF CksumPost
    <3>. QED  BY <1>1, <1>2, <1>5, <1>6, <1>7, <1>8, <1>9, <3>1 DEF SumInv
  <2>. QED  BY <2>1, <2>2, <2>3 DEF Cksumthread
<1>. QED  BY <1>3, <1>4, <1>11 DEF SearchInv

LEMMA RestKeeps ==
  ASSUME SearchInv, Fatal \/ UNCHANGED vars
  PROVE  SearchInv'
<1>1. /\ (pc' = pc \/ pc' = "fatal") /\ UNCHANGED <<buf, p, t, last_match, current>>
      /\ UNCHANGED <<buf, s0, s1, last_match>> /\ UNCHANGED sumVars /\ buf' = buf /\ p' = p
  BY DEF Fatal, vars, outVars
<1>2. /\ PlaceInv /\ MatchInv /\ StreamsInv /\ SumInv /\ RollingTag
      /\ pc \in {"loop", "cksum", "final", "finish", "done", "fatal"}
  BY DEF SearchInv, PlaceInv
<1>3. PlaceInv' /\ MatchInv' /\ RollingTag'
  BY <1>1, <1>2, OthersStay
<1>4. StreamsInv'
  BY <1>1, <1>2, StreamsStay
<1>5. SumInv'
  BY <1>1, <1>2 DEF SumInv, sumVars, Bytes, chunk_size
<1>. QED  BY <1>3, <1>4, <1>5 DEF SearchInv

LEMMA NextKeeps ==
  ASSUME SearchInv, [Next]_vars
  PROVE  SearchInv'
<1>1. CASE Skip
  BY <1>1, SkipKeeps
<1>2. ASSUME NEW op \in 0 .. chunk_size, Search(op) PROVE SearchInv'
  BY <1>2, SearchKeeps
<1>3. CASE StartCksum
  BY <1>3, StartCksumKeeps
<1>4. CASE LastLiteral
  BY <1>4, LastLiteralKeeps
<1>5. CASE FinalCksum
  BY <1>5, FinalCksumKeeps
<1>6. CASE Finish
  BY <1>6, FinishKeeps
<1>7. CASE Cksumthread
  BY <1>7, CksumthreadKeeps
<1>8. CASE Fatal \/ UNCHANGED vars
  BY <1>8, RestKeeps
<1>. QED  BY <1>1, <1>2, <1>3, <1>4, <1>5, <1>6, <1>7, <1>8 DEF Next, Main, Stopped

-----------------------------------------------------------------------------
(* For every chunk, whatever is found in the table and however the two      *)
(* threads are scheduled: hash_search's best match begins behind            *)
(* last_match and refers to equal letters before it, and what cksumthread   *)
(* has been given and what it has still to write make up the chunk up to    *)
(* cksum_limit.                                                             *)
THEOREM SearchInvariant == Spec => []SearchInv
<1>1. Init => SearchInv
  BY InitHolds
<1>2. SearchInv /\ [Next]_vars => SearchInv'
  BY NextKeeps
<1>. QED  BY <1>1, <1>2, PTL DEF Spec

(* So the literals and matches decode to the chunk up to last_match, and in *)
(* the end to the whole chunk, and the rolling tag is that of the bytes     *)
(* hash_search stands at.                                                   *)
THEOREM SearchIsSound == Spec => []SearchSound
<1>1. SearchInv => SearchSound
  <2>. SUFFICES ASSUME SearchInv PROVE SearchSound
    OBVIOUS
  <2>1. /\ PlaceInv /\ MatchInv /\ StreamsInv /\ SumInv /\ RollingTag
        /\ buf \in Seq(Alphabet)
    BY DEF SearchInv, PlaceInv
  <2>2. chunk_size \in Nat /\ end < chunk_size /\ end \in Int
    BY <2>1, SizeFacts
  <2>3. p \in 0 .. chunk_size /\ last_match \in 0 .. chunk_size
    BY <2>1, <2>2 DEF PlaceInv
  <2>4. \A i \in DOMAIN s0 : /\ s0[i].head \in {0, 1}
                             /\ s0[i].len \in 0 .. MaxRun
                             /\ s0[i].ofs \in 0 .. chunk_size
    <3>1. s0 \in Seq(Heads)
      BY <2>1 DEF StreamsInv
    <3>2. \A i \in DOMAIN s0 : s0[i] \in Heads
      BY <3>1
    <3>. QED  BY <3>2 DEF Heads
  <2>5. SearchTypeOK
    <3>1. cksumsem \in {0, 1} /\ tpc \in {"none", "crc", "hash", "post"}
          /\ cksum_limit \in 0 .. chunk_size
      BY <2>1 DEF SumInv
    <3>. QED  BY <2>1, <2>3, <2>4, <3>1 DEF SearchTypeOK, PlaceInv, MatchInv, StreamsInv
  <2>. QED  BY <2>1, <2>5 DEF SearchSound, StreamsInv
<1>. QED  BY <1>1, SearchInvariant, PTL

(* When the chunk is done, its checksum and the hash are of all its bytes,  *)
(* each once and in order, although two threads write to the same handles.  *)
THEOREM ChecksumIsWhole == Spec => []ChecksumWhole
<1>1. SearchInv => ChecksumWhole
  BY DEF SearchInv, SumInv, ChecksumWhole
<1>. QED  BY <1>1, SearchInvariant, PTL
=============================================================================
