---------------------------- MODULE RzipHashProofs ----------------------------
(***************************************************************************)
(* Proofs about the hash table of the rzip stage, for every size of the    *)
(* table, every set of tags and every chunk: hash_count is exact, a sweep  *)
(* leaves nothing behind it that should have gone, and find_best_match     *)
(* comes to every entry that the sweep keeps.                              *)
(***************************************************************************)
EXTENDS RzipHash, FiniteSetTheorems, WellFoundedInduction, TLAPS

(* What the sweep under way keeps. *)
Kept(t) == ~minimum_bitness(t)

(* From the bucket where the search for t begins. *)
Bucket(t, i) == (primary_hash(t) + i) % Size
Steps(t, h) == (h - primary_hash(t) + Size) % Size

(* Going to bucket h for tag t one meets no gap, and nothing that goes      *)
(* before an entry with this tag.                                           *)
Reached(t, h) ==
  \A i \in 0 .. Steps(t, h) - 1 :
    /\ Bucket(t, i) \in Used
    /\ ~lesser_bitness(hash_table[Bucket(t, i)].t, t)

Calling == pc \in {"insert", "return"}
Last == Len(frames)

TypeInv ==
  /\ pc \in {"loop", "insert", "return", "clean"} /\ p \in 0 .. MaxOffset
  /\ hash_table \in [Buckets -> Entries]
  /\ tag_clean_ptr \in Buckets
  /\ victim_round \in 0 .. MaxChain - 1
  /\ now \in Entries
  /\ frames \in Seq([entry: Entries, h: Buckets])
  /\ \A h \in Used : hash_table[h].offset \in 1 .. p

(* In a sweep only tags come in that satisfy the better mask. *)
MaskInv ==
  \E k \in 1 .. TagBits :
    /\ minimum_tag_mask = pow2[k] - 1
    /\ \/ tag_mask = increase_mask(minimum_tag_mask)
       \/ tag_clean_ptr = 0 /\ (pc = "clean" \/ tag_mask = minimum_tag_mask)
    /\ tag_mask \in {pow2[j] - 1 : j \in 0 .. TagBits + 1}

(* The entry to be inserted is counted at once. *)
CountInv ==
  /\ hash_count = Cardinality(Used) + (IF pc = "insert" THEN 1 ELSE 0)
  /\ hash_count <= hash_limit + (IF pc = "loop" THEN 0 ELSE 1)
  /\ pc = "clean" => hash_count > hash_limit

PathInv == \A h \in Used : Kept(hash_table[h].t) => Reached(hash_table[h].t, h)

(* Each caller goes to a bucket that its entry may have; there is still what *)
(* it displaces, which is worse, and the entry of the next call.             *)
FramesInv ==
  /\ ~Calling => frames = << >>
  /\ \A k \in 1 .. Last :
       /\ Kept(frames[k].entry.t) /\ Reached(frames[k].entry.t, frames[k].h)
       /\ frames[k].entry.offset \in 1 .. p
       /\ frames[k].h \in Used
       /\ lesser_bitness(hash_table[frames[k].h].t, frames[k].entry.t)
       /\ k < Last => hash_table[frames[k].h] = frames[k + 1].entry
       /\ \A j \in 1 .. k - 1 : lesser_bitness(frames[k].entry.t, frames[j].entry.t)

NowInv ==
  pc = "insert" =>
    /\ now.offset \in 1 .. p
    /\ tag_clean_ptr = 0 \/ Kept(now.t)
    /\ frames # << >> => Kept(now.t) /\ hash_table[frames[Last].h] = now
    /\ \A k \in 1 .. Last : lesser_bitness(now.t, frames[k].entry.t)

(* While a call returns the bucket that its caller is going to take may hold *)
(* an entry that is already elsewhere.                                       *)
OnceInv ==
  /\ \A g, h \in Used :
       hash_table[g] = hash_table[h] =>
         g = h \/ (pc = "return" /\ frames # << >> /\ frames[Last].h \in {g, h})
  /\ pc = "insert" \/ frames # << >> =>
       /\ IF frames = << >> THEN now.offset = p ELSE frames[1].entry.offset = p
       /\ \A h \in Used : hash_table[h].offset # p
  /\ pc = "clean" \/ (pc = "return" /\ frames = << >>) =>
       \E h \in Used : hash_table[h].offset = p

HashInv ==
  TypeInv /\ MaskInv /\ CountInv /\ SweepClean /\ PathInv /\ FramesInv /\ NowInv /\ OnceInv
-----------------------------------------------------------------------------
(* Numbers. *)

(* A set of numbers that is not empty has a least one.                      *)
LEMMA LeastOf ==
  ASSUME NEW T \in SUBSET Nat, T # {}
  PROVE  \E n \in T : \A k \in T : n <= k
<1>. DEFINE R == OpToRel(<, Nat)
<1>1. IsWellFoundedOn(R, Nat)
  BY NatLessThanWellFounded, Zenon
<1>2. \A x, y \in Nat : x < y => <<x, y>> \in R
  BY DEF OpToRel
<1>. HIDE DEF R
<1>3. PICK n \in T : \A k \in T : ~(<<k, n>> \in R)
  BY <1>1, WFMin
<1>4. \A k \in T : k \in Nat /\ n \in Nat /\ ~(k < n)
  BY <1>2, <1>3
<1>. QED  BY <1>4

(* A set with 0 and the successor of each of its numbers has them all.      *)
LEMMA AllNumbers ==
  ASSUME NEW G, 0 \in G, \A x \in Nat : x \in G => x + 1 \in G
  PROVE  Nat \subseteq G
<1>. SUFFICES ASSUME Nat \ G # {} PROVE FALSE
  OBVIOUS
<1>1. PICK n \in Nat \ G : \A k \in Nat \ G : n <= k
  BY LeastOf
<1>2. n # 0 /\ n - 1 \in Nat /\ n - 1 \notin Nat \ G
  BY <1>1
<1>. QED  BY <1>1, <1>2

(* Division with remainder is unique. *)
LEMMA DivUnique ==
  \A a, n, q, r \in Nat : r < n /\ a = q * n + r => a % n = r /\ a \div n = q
  OBVIOUS

LEMMA DivFacts ==
  \A a, n \in Nat : n > 0 =>
    a = (a \div n) * n + (a % n) /\ a \div n \in Nat /\ a % n \in 0 .. n - 1
  OBVIOUS

LEMMA SmallMod ==
  ASSUME NEW a \in Nat, NEW n \in Nat \ {0}, a < n + n
  PROVE  a % n = IF a < n THEN a ELSE a - n
<1>1. CASE a < n
  <2>1. a = 0 * n + a
    OBVIOUS
  <2>. QED  BY <1>1, <2>1, DivUnique
<1>2. CASE ~(a < n)
  <2>1. a - n \in Nat /\ a - n < n /\ a = 1 * n + (a - n)
    BY <1>2
  <2>. QED  BY <1>2, <2>1, DivUnique
<1>. QED  BY <1>1, <1>2

-----------------------------------------------------------------------------
(* Powers of two. *)

PowersTo(n, f) == f = [k \in 0 .. n |-> IF k = 0 THEN 1 ELSE 2 * f[k - 1]]

LEMMA PowersExist ==
  ASSUME NEW n \in Nat
  PROVE  \E f : PowersTo(n, f)
<1>. DEFINE D(x) == \E f : PowersTo(x, f)
            G == {x \in Nat : D(x)}
<1>1. D(0)
  <2>. DEFINE f == [k \in 0 .. 0 |-> 1]
  <2>1. f = [k \in 0 .. 0 |-> IF k = 0 THEN 1 ELSE 2 * f[k - 1]]
    OBVIOUS
  <2>. QED  BY <2>1 DEF PowersTo
<1>2. ASSUME NEW x \in Nat, D(x) PROVE D(x + 1)
  <2>1. PICK f : f = [k \in 0 .. x |-> IF k = 0 THEN 1 ELSE 2 * f[k - 1]]
    BY <1>2 DEF PowersTo
  <2>. DEFINE g == [k \in 0 .. x + 1 |-> IF k = x + 1 THEN 2 * f[x] ELSE f[k]]
  <2>2. ASSUME NEW k \in 0 .. x + 1
        PROVE  g[k] = IF k = 0 THEN 1 ELSE 2 * g[k - 1]
    <3>1. CASE k = x + 1
      <4>1. k # 0 /\ k - 1 = x /\ x \in 0 .. x + 1 /\ x # x + 1
        BY <3>1
      <4>. QED  BY <3>1, <4>1
    <3>2. CASE k # x + 1
      <4>1. k \in 0 .. x /\ g[k] = f[k]
        BY <3>2
      <4>2. k # 0 => k - 1 \in 0 .. x + 1 /\ k - 1 # x + 1 /\ g[k - 1] = f[k - 1]
        BY <3>2
      <4>3. f[k] = IF k = 0 THEN 1 ELSE 2 * f[k - 1]
        BY <2>1, <4>1
      <4>. HIDE DEF g
      <4>. QED  BY <4>1, <4>2, <4>3
    <3>. QED  BY <3>1, <3>2
  <2>3. g = [k \in 0 .. x + 1 |-> IF k = 0 THEN 1 ELSE 2 * g[k - 1]]
    BY <2>2
  <2>. HIDE DEF g
  <2>. QED  BY <2>3 DEF PowersTo
<1>3. Nat \subseteq G
  <2>1. 0 \in G /\ \A x \in Nat : x \in G => x + 1 \in G
    <3>. HIDE DEF D
    <3>. QED  BY <1>1, <1>2
  <2>. HIDE DEF G
  <2>. QED  BY <2>1, AllNumbers
<1>. QED  BY <1>3

LEMMA PowersAgree ==
  ASSUME NEW n \in Nat, NEW m \in Nat, NEW f, PowersTo(n, f), NEW g, PowersTo(m, g)
  PROVE  \A k \in Nat : k <= n /\ k <= m => f[k] = g[k]
<1>. DEFINE G == {x \in Nat : x <= n /\ x <= m => f[x] = g[x]}
<1>1. /\ \A k \in 0 .. n : f[k] = IF k = 0 THEN 1 ELSE 2 * f[k - 1]
      /\ \A k \in 0 .. m : g[k] = IF k = 0 THEN 1 ELSE 2 * g[k - 1]
  BY DEF PowersTo
<1>2. 0 \in G
  BY <1>1
<1>3. ASSUME NEW x \in Nat, x \in G PROVE x + 1 \in G
  <2>. SUFFICES ASSUME x + 1 <= n, x + 1 <= m PROVE f[x + 1] = g[x + 1]
    OBVIOUS
  <2>1. f[x] = g[x]
    BY <1>3
  <2>2. x + 1 \in 0 .. n /\ x + 1 \in 0 .. m /\ x + 1 # 0 /\ (x + 1) - 1 = x
    OBVIOUS
  <2>. QED  BY <1>1, <2>1, <2>2
<1>4. Nat \subseteq G
  <2>. HIDE DEF G
  <2>. QED  BY <1>2, <1>3, AllNumbers
<1>. QED  BY <1>4

LEMMA Pow2Defined ==
  \A k \in Nat : pow2[k] = IF k = 0 THEN 1 ELSE 2 * pow2[k - 1]
<1>. DEFINE F(n) == CHOOSE f : PowersTo(n, f)
            P == [n \in Nat |-> F(n)[n]]
<1>1. \A n \in Nat : PowersTo(n, F(n))
  BY PowersExist
<1>. HIDE DEF F
<1>2. ASSUME NEW n \in Nat
      PROVE  P[n] = IF n = 0 THEN 1 ELSE 2 * P[n - 1]
  <2>1. F(n) = [k \in 0 .. n |-> IF k = 0 THEN 1 ELSE 2 * F(n)[k - 1]]
    BY <1>1 DEF PowersTo
  <2>2. F(n)[n] = IF n = 0 THEN 1 ELSE 2 * F(n)[n - 1]
    BY <2>1
  <2>3. n # 0 => F(n)[n - 1] = F(n - 1)[n - 1]
    <3>. SUFFICES ASSUME n # 0 PROVE F(n)[n - 1] = F(n - 1)[n - 1]
      OBVIOUS
    <3>1. n - 1 \in Nat /\ n - 1 <= n /\ n - 1 <= n - 1
      OBVIOUS
    <3>2. PowersTo(n, F(n)) /\ PowersTo(n - 1, F(n - 1))
      BY <1>1, <3>1
    <3>. QED  BY <3>1, <3>2, PowersAgree
  <2>4. n # 0 => n - 1 \in Nat
    OBVIOUS
  <2>. QED  BY <2>2, <2>3, <2>4
<1>3. P = [k \in Nat |-> IF k = 0 THEN 1 ELSE 2 * P[k - 1]]
  BY <1>2
<1>. HIDE DEF P
<1>4. pow2 = [k \in Nat |-> IF k = 0 THEN 1 ELSE 2 * pow2[k - 1]]
  BY <1>3, Zenon DEF pow2
<1>. QED  BY <1>4

LEMMA Pow2Facts ==
  /\ \A k \in Nat : pow2[k] \in Nat \ {0}
  /\ \A k \in Nat : pow2[k + 1] = 2 * pow2[k]
<1>. DEFINE G == {x \in Nat : pow2[x] \in Nat \ {0}}
<1>1. 0 \in G
  BY Pow2Defined
<1>2. \A k \in Nat : pow2[k + 1] = 2 * pow2[k]
  <2>1. \A k \in Nat : k + 1 \in Nat /\ k + 1 # 0 /\ (k + 1) - 1 = k
    OBVIOUS
  <2>. QED  BY <2>1, Pow2Defined
<1>3. \A x \in Nat : x \in G => x + 1 \in G
  BY <1>2
<1>4. Nat \subseteq G
  <2>. HIDE DEF G
  <2>. QED  BY <1>1, <1>3, AllNumbers
<1>. QED  BY <1>2, <1>4
-----------------------------------------------------------------------------
(* How many low bits are set. *)

Low(t, k) == Has(t, pow2[k] - 1)

TagNumbers == 0 .. pow2[TagBits] - 1

LEMMA LowIs ==
  ASSUME NEW t \in Nat, NEW k \in Nat
  PROVE  Low(t, k) <=> t % pow2[k] = pow2[k] - 1
<1>1. pow2[k] \in Nat /\ (pow2[k] - 1) + 1 = pow2[k]
  BY Pow2Facts
<1>. QED  BY <1>1 DEF Low, Has

LEMMA LowOneLess ==
  ASSUME NEW t \in Nat, NEW k \in Nat, Low(t, k + 1)
  PROVE  Low(t, k)
<1>1. PICK d \in Nat \ {0} : d = pow2[k] /\ 2 * d = pow2[k + 1]
  BY Pow2Facts
<1>2. t % (2 * d) = 2 * d - 1
  BY <1>1, LowIs
<1>3. PICK q \in Nat : t = q * (2 * d) + (2 * d - 1)
  <2>1. 2 * d \in Nat /\ 2 * d > 0
    OBVIOUS
  <2>2. t = (t \div (2 * d)) * (2 * d) + (t % (2 * d)) /\ t \div (2 * d) \in Nat
    BY <2>1, DivFacts
  <2>. QED  BY <1>2, <2>2
<1>4. (2 * q + 1) * d = q * (2 * d) + d /\ q * (2 * d) \in Nat
  OBVIOUS
<1>5. t = (2 * q + 1) * d + (d - 1) /\ d - 1 \in Nat /\ d - 1 < d /\ 2 * q + 1 \in Nat
  BY <1>3, <1>4
<1>6. t % d = d - 1
  BY <1>5, DivUnique
<1>. QED  BY <1>1, <1>6, LowIs

LEMMA LowLess ==
  ASSUME NEW t \in Nat, NEW j \in Nat, NEW k \in Nat, j <= k, Low(t, k)
  PROVE  Low(t, j)
<1>. DEFINE D(x) == Low(t, j + x) => Low(t, j)
            G == {x \in Nat : D(x)}
<1>1. 0 \in G
  OBVIOUS
<1>2. ASSUME NEW x \in Nat, D(x) PROVE D(x + 1)
  <2>1. j + x \in Nat /\ j + (x + 1) = (j + x) + 1
    OBVIOUS
  <2>2. Low(t, (j + x) + 1) => Low(t, j + x)
    BY <2>1, LowOneLess
  <2>. QED  BY <1>2, <2>1, <2>2
<1>3. Nat \subseteq G
  <2>1. \A x \in Nat : x \in G => x + 1 \in G
    <3>. HIDE DEF D
    <3>. QED  BY <1>2
  <2>. HIDE DEF G
  <2>. QED  BY <1>1, <2>1, AllNumbers
<1>4. k - j \in Nat /\ j + (k - j) = k
  OBVIOUS
<1>5. D(k - j)
  <2>. HIDE DEF D
  <2>. QED  BY <1>3, <1>4
<1>. QED  BY <1>4, <1>5

(* A tag has no more low bits than it has bits.                             *)
LEMMA LowBound ==
  ASSUME NEW t \in TagNumbers, NEW k \in Nat, Low(t, k)
  PROVE  k <= TagBits
<1>. SUFFICES ASSUME ~(k <= TagBits) PROVE FALSE
  OBVIOUS
<1>1. TagBits \in Nat
  BY HashAssumption
<1>2. PICK d \in Nat \ {0} : d = pow2[TagBits] /\ 2 * d = pow2[TagBits + 1]
  BY <1>1, Pow2Facts
<1>3. t \in Nat /\ t < d
  BY <1>2 DEF TagNumbers
<1>4. Low(t, TagBits + 1)
  BY <1>1, <1>3, LowLess
<1>5. t % (2 * d) = 2 * d - 1
  BY <1>1, <1>2, <1>3, <1>4, LowIs
<1>6. 2 * d \in Nat \ {0} /\ t < 2 * d /\ t < 2 * d + 2 * d
  BY <1>3
<1>7. t % (2 * d) = t
  BY <1>3, <1>6, SmallMod
<1>. QED  BY <1>3, <1>5, <1>7

LEMMA LesserIs ==
  \A a, b : lesser_bitness(a, b) <=> \E k \in 1 .. TagBits : Low(b, k) /\ ~Low(a, k)
  BY DEF lesser_bitness, Low

(* What has the k-th bit or not is in the order of lesser_bitness.          *)
LEMMA LesserOrder ==
  ASSUME NEW a \in Nat, NEW b \in Nat, NEW c \in Nat
  PROVE  /\ ~lesser_bitness(a, a)
         /\ lesser_bitness(a, b) => ~lesser_bitness(b, a)
         /\ lesser_bitness(a, b) /\ lesser_bitness(b, c) => lesser_bitness(a, c)
         /\ lesser_bitness(a, b) /\ ~lesser_bitness(a, c) => ~lesser_bitness(b, c)
         /\ ~lesser_bitness(a, b) /\ ~lesser_bitness(c, a) => ~lesser_bitness(c, b)
<1>0. TagBits \in Nat
  BY HashAssumption
<1>1. \A t \in {a, b, c} : \A j, k \in 1 .. TagBits : j <= k /\ Low(t, k) => Low(t, j)
  <2>. SUFFICES ASSUME NEW t \in {a, b, c}, NEW j \in 1 .. TagBits, NEW k \in 1 .. TagBits,
                       j <= k, Low(t, k)
                PROVE  Low(t, j)
    OBVIOUS
  <2>1. t \in Nat /\ j \in Nat /\ k \in Nat
    BY <1>0
  <2>. QED  BY <2>1, LowLess
<1>2. ~lesser_bitness(a, a)
  BY LesserIs
<1>3. ASSUME lesser_bitness(a, b) PROVE ~lesser_bitness(b, a)
  <2>1. PICK k \in 1 .. TagBits : Low(b, k) /\ ~Low(a, k)
    BY <1>3, LesserIs
  <2>2. \A j \in 1 .. TagBits : Low(a, j) => j <= k
    BY <1>0, <1>1, <2>1
  <2>. QED  BY <1>1, <2>1, <2>2, LesserIs
<1>4. ASSUME lesser_bitness(a, b), lesser_bitness(b, c) PROVE lesser_bitness(a, c)
  <2>1. PICK k \in 1 .. TagBits : Low(b, k) /\ ~Low(a, k)
    BY <1>4, LesserIs
  <2>2. PICK l \in 1 .. TagBits : Low(c, l) /\ ~Low(b, l)
    BY <1>4, LesserIs
  <2>3. k <= l
    BY <1>0, <1>1, <2>1, <2>2
  <2>4. Low(c, k)
    BY <1>1, <2>2, <2>3
  <2>. QED  BY <2>1, <2>4, LesserIs
<1>5. ASSUME lesser_bitness(a, b), ~lesser_bitness(a, c) PROVE ~lesser_bitness(b, c)
  <2>1. PICK k \in 1 .. TagBits : Low(b, k) /\ ~Low(a, k)
    BY <1>5, LesserIs
  <2>2. \A j \in 1 .. TagBits : Low(c, j) => Low(a, j)
    BY <1>5, LesserIs
  <2>3. \A j \in 1 .. TagBits : Low(a, j) => j <= k
    BY <1>0, <1>1, <2>1
  <2>4. \A j \in 1 .. TagBits : Low(c, j) => Low(b, j)
    BY <1>1, <2>1, <2>2, <2>3
  <2>. QED  BY <2>4, LesserIs
<1>6. ASSUME ~lesser_bitness(a, b), ~lesser_bitness(c, a) PROVE ~lesser_bitness(c, b)
  BY <1>6, LesserIs
<1>. QED  BY <1>2, <1>3, <1>4, <1>5, <1>6

(* What the sweep keeps, in terms of bits. *)
LEMMA KeptIs ==
  ASSUME NEW k \in Nat, minimum_tag_mask = pow2[k] - 1
  PROVE  /\ increase_mask(minimum_tag_mask) = pow2[k + 1] - 1
         /\ \A t : Kept(t) <=> Low(t, k + 1)
<1>1. increase_mask(minimum_tag_mask) = pow2[k + 1] - 1
  BY Pow2Facts DEF increase_mask
<1>. QED  BY <1>1 DEF Kept, minimum_bitness, Low

(* What is better than a kept one is kept, and so is what is not worse.     *)
LEMMA KeptOrder ==
  ASSUME MaskInv, NEW a \in TagNumbers, NEW b \in TagNumbers, Kept(a)
  PROVE  /\ lesser_bitness(a, b) => Kept(b)
         /\ ~lesser_bitness(b, a) => Kept(b)
<1>0. TagBits \in Nat /\ a \in Nat /\ b \in Nat
  BY HashAssumption, Pow2Facts DEF TagNumbers
<1>1. PICK k \in 1 .. TagBits : minimum_tag_mask = pow2[k] - 1
  BY DEF MaskInv
<1>2. k \in Nat /\ k + 1 \in Nat
  BY <1>0
<1>3. \A t : Kept(t) <=> Low(t, k + 1)
  BY <1>1, <1>2, KeptIs
<1>4. k + 1 \in 1 .. TagBits
  BY <1>0, <1>2, <1>3, LowBound
<1>5. ~lesser_bitness(b, a) => Kept(b)
  BY <1>3, <1>4, LesserIs
<1>6. lesser_bitness(a, b) => ~lesser_bitness(b, a)
  BY <1>0, LesserOrder
<1>. QED  BY <1>5, <1>6
-----------------------------------------------------------------------------
(* Buckets. *)

LEMMA SizeFacts == Size \in Nat \ {0} /\ Buckets = 0 .. Size - 1
  BY HashAssumption, Pow2Facts DEF Size, Buckets

LEMMA EntryFacts ==
  /\ Tags \cup {0} \subseteq TagNumbers /\ TagNumbers \subseteq Nat
  /\ \A e \in Entries : /\ e.t \in Tags \cup {0} /\ e.t \in TagNumbers /\ e.t \in Nat
                        /\ e.offset \in 0 .. MaxOffset
                        /\ e.offset # 0 => ~empty_hash(e)
<1>1. pow2[TagBits] \in Nat \ {0}
  BY HashAssumption, Pow2Facts
<1>2. Tags \cup {0} \subseteq TagNumbers /\ TagNumbers \subseteq Nat
  BY <1>1, HashAssumption DEF TagNumbers
<1>3. ASSUME NEW e \in Entries
      PROVE  /\ e.t \in Tags \cup {0} /\ e.offset \in 0 .. MaxOffset
             /\ e.offset # 0 => ~empty_hash(e)
  <2>1. e.t \in Tags \cup {0} /\ e.offset \in 0 .. MaxOffset
    BY DEF Entries
  <2>2. empty_hash(e) => e.offset = 0
    BY DEF empty_hash, Empty
  <2>. QED  BY <2>1, <2>2
<1>. QED  BY <1>2, <1>3

LEMMA BucketFacts ==
  ASSUME NEW t \in Nat
  PROVE  /\ \A i \in Buckets : Bucket(t, i) \in Buckets /\ Steps(t, Bucket(t, i)) = i
         /\ \A h \in Buckets : Steps(t, h) \in Buckets /\ Bucket(t, Steps(t, h)) = h
<1>1. PICK n \in Nat \ {0} : n = Size /\ Buckets = 0 .. n - 1
  BY SizeFacts
<1>2. PICK d \in 0 .. n - 1 : d = primary_hash(t)
  <2>1. t % n \in 0 .. n - 1
    BY DivFacts
  <2>. QED  BY <1>1, <2>1 DEF primary_hash
<1>3. \A i \in 0 .. n - 1 : (d + i) % n = IF d + i < n THEN d + i ELSE d + i - n
  <2>. SUFFICES ASSUME NEW i \in 0 .. n - 1
                PROVE  (d + i) % n = IF d + i < n THEN d + i ELSE d + i - n
    OBVIOUS
  <2>1. PICK x \in Nat : x = d + i /\ x < n + n
    OBVIOUS
  <2>2. x % n = IF x < n THEN x ELSE x - n
    BY <2>1, SmallMod
  <2>. QED  BY <2>1, <2>2
<1>4. \A h \in 0 .. n - 1 : (h - d + n) % n = IF h - d + n < n THEN h - d + n ELSE h - d
  <2>. SUFFICES ASSUME NEW h \in 0 .. n - 1
                PROVE  (h - d + n) % n = IF h - d + n < n THEN h - d + n ELSE h - d
    OBVIOUS
  <2>1. PICK x \in Nat : x = h - d + n /\ x < n + n /\ x - n = h - d
    OBVIOUS
  <2>2. x % n = IF x < n THEN x ELSE x - n
    BY <2>1, SmallMod
  <2>. QED  BY <2>1, <2>2
<1>5. \A i \in 0 .. n - 1 : Bucket(t, i) = IF d + i < n THEN d + i ELSE d + i - n
  BY <1>1, <1>2, <1>3 DEF Bucket
<1>6. \A h \in 0 .. n - 1 : Steps(t, h) = IF h - d + n < n THEN h - d + n ELSE h - d
  BY <1>1, <1>2, <1>4 DEF Steps
<1>7. \A i \in 0 .. n - 1 : Bucket(t, i) \in 0 .. n - 1 /\ Steps(t, Bucket(t, i)) = i
  BY <1>5, <1>6
<1>8. \A h \in 0 .. n - 1 : Steps(t, h) \in 0 .. n - 1 /\ Bucket(t, Steps(t, h)) = h
  BY <1>5, <1>6
<1>. QED  BY <1>1, <1>7, <1>8

(* insert_hash looks at the buckets from the primary one on.                *)
LEMMA ProbeFacts ==
  ASSUME TypeInv, NEW i \in Buckets
  PROVE  /\ Probe(i) = Bucket(now.t, i) /\ Probe(i) \in Buckets
         /\ Steps(now.t, Probe(i)) = i
         /\ Occupant(i) \in Entries
         /\ Occupant(i) = hash_table[Probe(i)]
         /\ Probe(i) \in Used <=> ~empty_hash(Occupant(i))
<1>1. now.t \in Nat
  BY EntryFacts DEF TypeInv
<1>2. Probe(i) = Bucket(now.t, i)
  BY DEF Probe, Bucket
<1>3. Probe(i) \in Buckets /\ Steps(now.t, Probe(i)) = i
  BY <1>1, <1>2, BucketFacts
<1>. QED  BY <1>2, <1>3 DEF Occupant, TypeInv, Used

LEMMA UsedFacts ==
  ASSUME TypeInv
  PROVE  /\ Used \subseteq Buckets
         /\ \A h \in Used : /\ hash_table[h] \in Entries /\ ~empty_hash(hash_table[h])
                            /\ hash_table[h].t \in Tags \cup {0}
                            /\ hash_table[h].t \in TagNumbers /\ hash_table[h].t \in Nat
                            /\ hash_table[h].offset \in 1 .. p
<1>1. Used \subseteq Buckets
  BY DEF Used
<1>. QED  BY <1>1, EntryFacts DEF TypeInv, Used

(* An entry is put into a bucket. *)
Stored(at, e) ==
  /\ at \in Buckets /\ e \in Entries /\ ~empty_hash(e)
  /\ hash_table' = [hash_table EXCEPT ![at] = e]

LEMMA StoredFacts ==
  ASSUME TypeInv, NEW at, NEW e, Stored(at, e)
  PROVE  /\ hash_table' \in [Buckets -> Entries]
         /\ Used' = Used \cup {at}
         /\ hash_table'[at] = e
         /\ \A h \in Buckets : h # at => hash_table'[h] = hash_table[h]
<1>1. /\ hash_table' \in [Buckets -> Entries] /\ hash_table'[at] = e
      /\ \A h \in Buckets : h # at => hash_table'[h] = hash_table[h]
  BY DEF Stored, TypeInv
<1>2. Used' = {h \in Buckets : ~empty_hash(hash_table'[h])}
  BY DEF Used, empty_hash
<1>. QED  BY <1>1, <1>2 DEF Stored, Used

(* When nothing that is kept is replaced by something worse, what could be  *)
(* reached still can.                                                       *)
LEMMA ReachedStays ==
  ASSUME TypeInv, MaskInv, NEW at, NEW e, Stored(at, e),
         at \in Used /\ Kept(hash_table[at].t) => ~lesser_bitness(e.t, hash_table[at].t),
         NEW t \in TagNumbers, NEW h \in Buckets, Kept(t), Reached(t, h)
  PROVE  Reached(t, h)'
<1>1. t \in Nat /\ e.t \in Nat
  BY EntryFacts DEF Stored
<1>2. Size \in Nat /\ Steps(t, h) \in Buckets /\ Buckets = 0 .. Size - 1
  BY <1>1, SizeFacts, BucketFacts
<1>. SUFFICES ASSUME NEW i \in 0 .. Steps(t, h) - 1
              PROVE  /\ Bucket(t, i) \in Used'
                     /\ ~lesser_bitness(hash_table'[Bucket(t, i)].t, t)
  BY DEF Reached, Steps, Bucket, primary_hash, lesser_bitness, Has
<1>3. PICK g : g = Bucket(t, i)
  OBVIOUS
<1>4. g \in Used /\ ~lesser_bitness(hash_table[g].t, t)
  BY <1>3 DEF Reached
<1>5. g \in Buckets /\ hash_table[g].t \in TagNumbers /\ hash_table[g].t \in Nat
  BY <1>4, UsedFacts
<1>6. CASE g = at
  <2>1. Kept(hash_table[g].t)
    BY <1>4, <1>5, KeptOrder
  <2>2. ~lesser_bitness(e.t, hash_table[g].t)
    BY <1>4, <1>6, <2>1
  <2>3. ~lesser_bitness(e.t, t)
    BY <1>1, <1>4, <1>5, <2>2, LesserOrder
  <2>. QED  BY <1>3, <1>6, <2>3, StoredFacts
<1>7. CASE g # at
  BY <1>3, <1>4, <1>5, <1>7, StoredFacts
<1>. QED  BY <1>6, <1>7
-----------------------------------------------------------------------------
(* insert_hash. *)

(* A set of numbers has for each rank an element. *)
LEMMA RankExists ==
  ASSUME NEW S \in SUBSET Nat, IsFiniteSet(S), NEW r \in Nat, r < Cardinality(S)
  PROVE  \E j \in S : Cardinality({k \in S : k < j}) = r
<1>. DEFINE D(x) == x < Cardinality(S) => \E j \in S : Cardinality({k \in S : k < j}) = x
            G == {x \in Nat : D(x)}
<1>0. Cardinality(S) \in Nat /\ \A k \in S : k \in Nat
  BY FS_CardinalityType
<1>1. D(0)
  <2>1. S # {}
    BY FS_EmptySet
  <2>2. PICK j \in S : \A k \in S : j <= k
    BY <2>1, LeastOf
  <2>3. {k \in S : k < j} = {}
    <3>1. \A k \in S : ~(k < j)
      BY <1>0, <2>2
    <3>. QED  BY <3>1
  <2>4. Cardinality({k \in S : k < j}) = 0
    BY <2>3, FS_EmptySet
  <2>. QED  BY <2>4
<1>2. ASSUME NEW x \in Nat, D(x) PROVE D(x + 1)
  <2>. SUFFICES ASSUME x + 1 < Cardinality(S)
                PROVE  \E j \in S : Cardinality({k \in S : k < j}) = x + 1
    OBVIOUS
  <2>1. PICK j \in S : Cardinality({k \in S : k < j}) = x
    BY <1>0, <1>2
  <2>. DEFINE L == {k \in S : k < j}
              U == {k \in S : k > j}
  <2>2. IsFiniteSet(L) /\ j \notin L
    BY <1>0, FS_Subset
  <2>3. Cardinality(L \cup {j}) = x + 1
    BY <2>1, <2>2, FS_AddElement
  <2>4. S = (L \cup {j}) \cup U
    <3>1. \A k \in S : k < j \/ k = j \/ k > j
      BY <1>0
    <3>. QED  BY <3>1
  <2>5. U # {}
    <3>1. SUFFICES ASSUME U = {} PROVE FALSE
      OBVIOUS
    <3>2. S = L \cup {j}
      BY <2>4, <3>1
    <3>3. Cardinality(S) = x + 1
      BY <2>3, <3>2
    <3>. QED  BY <1>0, <3>3
  <2>6. PICK l \in U : \A k \in U : l <= k
    <3>1. U \in SUBSET Nat
      OBVIOUS
    <3>. HIDE DEF U
    <3>. QED  BY <2>5, <3>1, LeastOf
  <2>7. {k \in S : k < l} = L \cup {j}
    <3>1. l \in Nat /\ j \in Nat /\ l > j
      BY <1>0, <2>6
    <3>2. \A k \in S : k \in Nat /\ (k > j => l <= k)
      BY <1>0, <2>6
    <3>3. \A k \in S : k < l <=> k < j \/ k = j
      BY <3>1, <3>2
    <3>. QED  BY <3>3
  <2>. QED  BY <2>3, <2>6, <2>7
<1>3. Nat \subseteq G
  <2>1. 0 \in G /\ \A x \in Nat : x \in G => x + 1 \in G
    <3>. HIDE DEF D
    <3>. QED  BY <1>1, <1>2
  <2>. HIDE DEF G
  <2>. QED  BY <2>1, AllNumbers
<1>. QED  BY <1>3

LEMMA VictimFacts ==
  ASSUME TypeInv, NEW i \in Buckets, Cardinality(Alike(i)) = MaxChain
  PROVE  Victim(i) \in 0 .. i /\ Occupant(Victim(i)).t = now.t
<1>1. i \in Nat /\ Alike(i) \in SUBSET Nat /\ Alike(i) \subseteq 0 .. i
  BY SizeFacts DEF Alike
<1>2. IsFiniteSet(Alike(i))
  <2>1. 0 \in Int /\ i \in Int
    BY <1>1
  <2>2. IsFiniteSet(0 .. i)
    BY <2>1, FS_Interval
  <2>. QED  BY <1>1, <2>2, FS_Subset
<1>3. victim_round \in Nat /\ victim_round < Cardinality(Alike(i))
  BY HashAssumption DEF TypeInv
<1>4. \E j \in Alike(i) : Cardinality({k \in Alike(i) : k < j}) = victim_round
  BY <1>1, <1>2, <1>3, RankExists
<1>5. Victim(i) \in Alike(i)
  BY <1>4, Zenon DEF Victim
<1>. QED  BY <1>5 DEF Alike

(* The loop has gone over buckets that are taken by tags that are kept and  *)
(* not worse, up to the one where it stops.                                 *)
LEMMA LoopFacts ==
  ASSUME TypeInv, NEW i \in Buckets, LeavesAt(i)
  PROVE  /\ \A j \in 0 .. i : j \in Buckets /\ Reached(now.t, Probe(j))
         /\ \A j \in 0 .. i - 1 : Probe(j) \in Used
<1>1. i \in Nat /\ \A j \in 0 .. i : j \in Buckets
  BY SizeFacts
<1>2. ASSUME NEW j \in 0 .. i - 1
      PROVE  Probe(j) \in Used /\ ~lesser_bitness(hash_table[Probe(j)].t, now.t)
  <2>1. j \in Buckets /\ ~Stops(j)
    BY <1>1 DEF LeavesAt
  <2>2. ~empty_hash(Occupant(j)) /\ ~lesser_bitness(Occupant(j).t, now.t)
    BY <2>1 DEF Stops
  <2>. QED  BY <2>1, <2>2, ProbeFacts
<1>3. ASSUME NEW j \in 0 .. i
      PROVE  Reached(now.t, Probe(j))
  <2>1. j \in Buckets /\ Steps(now.t, Probe(j)) = j
    BY <1>1, ProbeFacts
  <2>2. \A k \in 0 .. j - 1 : k \in 0 .. i - 1 /\ k \in Buckets
    BY <1>1
  <2>3. \A k \in 0 .. j - 1 : Bucket(now.t, k) = Probe(k)
    BY <2>2, ProbeFacts
  <2>. QED  BY <1>2, <2>1, <2>2, <2>3 DEF Reached
<1>. QED  BY <1>1, <1>2, <1>3

(* Where InsertPlace puts the entry. *)
PlacedAt(at) ==
  /\ Stored(at, now) /\ Reached(now.t, at)
  /\ at \in Used /\ Kept(hash_table[at].t) => hash_table[at].t = now.t
  /\ hash_count' = IF at \in Used THEN hash_count - 1 ELSE hash_count
  /\ victim_round' \in 0 .. MaxChain - 1

LEMMA PlaceFacts ==
  ASSUME TypeInv, NowInv, InsertPlace
  PROVE  \E at : PlacedAt(at)
<1>1. PICK i \in Buckets :
        /\ LeavesAt(i) /\ ~Displaces(i)
        /\ LET due == ~empty_hash(Occupant(i)) /\ minimum_bitness(Occupant(i).t)
               full == ~empty_hash(Occupant(i)) /\ ~due
               at == IF full THEN Probe(Victim(i)) ELSE Probe(i)
           IN /\ hash_table' = [hash_table EXCEPT ![at] = now]
              /\ hash_count' = IF due \/ full THEN hash_count - 1 ELSE hash_count
              /\ victim_round' = IF full THEN next_victim ELSE victim_round
  BY DEF InsertPlace
<1>2. /\ now \in Entries /\ ~empty_hash(now) /\ now.t \in Nat
  <2>1. now \in Entries /\ now.offset \in 1 .. p /\ p \in Nat
    BY HashAssumption DEF TypeInv, NowInv, InsertPlace
  <2>. QED  BY <2>1, EntryFacts
<1>3. i \in 0 .. i
  BY SizeFacts
<1>4. next_victim \in 0 .. MaxChain - 1 /\ victim_round \in 0 .. MaxChain - 1
  <2>1. MaxChain \in Nat /\ MaxChain > 0 /\ victim_round + 1 \in Nat
    BY HashAssumption DEF TypeInv
  <2>2. (victim_round + 1) % MaxChain \in 0 .. MaxChain - 1
    BY <2>1, DivFacts
  <2>. QED  BY <2>2 DEF next_victim, TypeInv
<1>5. Reached(now.t, Probe(i)) /\ Probe(i) \in Buckets
  BY <1>1, <1>3, LoopFacts, ProbeFacts
<1>6. CASE empty_hash(Occupant(i))
  <2>1. Probe(i) \notin Used
    BY <1>6, ProbeFacts
  <2>2. /\ hash_table' = [hash_table EXCEPT ![Probe(i)] = now]
        /\ hash_count' = hash_count /\ victim_round' = victim_round
    BY <1>1, <1>6
  <2>. QED  BY <1>2, <1>4, <1>5, <2>1, <2>2 DEF PlacedAt, Stored
<1>7. CASE ~empty_hash(Occupant(i)) /\ minimum_bitness(Occupant(i).t)
  <2>1. Probe(i) \in Used /\ ~Kept(hash_table[Probe(i)].t)
    BY <1>7, ProbeFacts DEF Kept
  <2>2. /\ hash_table' = [hash_table EXCEPT ![Probe(i)] = now]
        /\ hash_count' = hash_count - 1 /\ victim_round' = victim_round
    BY <1>1, <1>7
  <2>. QED  BY <1>2, <1>4, <1>5, <2>1, <2>2 DEF PlacedAt, Stored
<1>8. CASE ~empty_hash(Occupant(i)) /\ ~minimum_bitness(Occupant(i).t)
  <2>1. PICK v : v = Victim(i)
    OBVIOUS
  <2>2. ChainFull(i)
    BY <1>1, <1>8 DEF LeavesAt, Stops, Displaces
  <2>3. v \in 0 .. i /\ Occupant(v).t = now.t
    BY <2>1, <2>2, VictimFacts DEF ChainFull
  <2>4. v \in Buckets /\ Reached(now.t, Probe(v)) /\ Probe(v) \in Used
    <3>1. v \in Buckets /\ Reached(now.t, Probe(v))
      BY <1>1, <2>3, LoopFacts
    <3>2. CASE v = i
      BY <1>8, <3>1, <3>2, ProbeFacts
    <3>3. CASE v # i
      <4>1. v \in 0 .. i - 1
        BY <2>3, <3>3, SizeFacts
      <4>. QED  BY <1>1, <3>1, <4>1, LoopFacts
    <3>. QED  BY <3>1, <3>2, <3>3
  <2>5. hash_table[Probe(v)].t = now.t /\ Probe(v) \in Buckets
    BY <2>3, <2>4, ProbeFacts
  <2>6. /\ hash_table' = [hash_table EXCEPT ![Probe(v)] = now]
        /\ hash_count' = hash_count - 1 /\ victim_round' = next_victim
    BY <1>1, <1>8, <2>1
  <2>. QED  BY <1>2, <1>4, <2>4, <2>5, <2>6 DEF PlacedAt, Stored
<1>. QED  BY <1>6, <1>7, <1>8

(* Whom InsertDisplace displaces. *)
DisplacedAt(h) ==
  /\ h \in Used /\ Kept(hash_table[h].t) /\ lesser_bitness(hash_table[h].t, now.t)
  /\ Reached(now.t, h)
  /\ frames' = Append(frames, [entry |-> now, h |-> h])
  /\ now' = hash_table[h]

LEMMA DisplaceFacts ==
  ASSUME TypeInv, InsertDisplace
  PROVE  \E h : DisplacedAt(h)
<1>1. PICK i \in Buckets :
        /\ LeavesAt(i) /\ Displaces(i)
        /\ frames' = Append(frames, [entry |-> now, h |-> Probe(i)])
        /\ now' = Occupant(i)
  BY DEF InsertDisplace
<1>2. /\ Probe(i) \in Used /\ Kept(hash_table[Probe(i)].t)
      /\ lesser_bitness(hash_table[Probe(i)].t, now.t)
      /\ now' = hash_table[Probe(i)]
  BY <1>1, ProbeFacts DEF Displaces, Kept
<1>3. i \in 0 .. i
  BY SizeFacts
<1>4. Reached(now.t, Probe(i))
  BY <1>1, <1>3, LoopFacts
<1>. QED  BY <1>1, <1>2, <1>4 DEF DisplacedAt
-----------------------------------------------------------------------------
(* The steps. *)

LEMMA SameFacts ==
  ASSUME hash_table' = hash_table, minimum_tag_mask' = minimum_tag_mask
  PROVE  /\ Used' = Used
         /\ \A t : Kept(t)' <=> Kept(t)
         /\ \A t, h : Reached(t, h)' <=> Reached(t, h)
<1>1. Used' = Used
  BY DEF Used, empty_hash
<1>2. \A t : Kept(t)' <=> Kept(t)
  BY DEF Kept, minimum_bitness, Has, increase_mask
<1>3. \A t, h : Reached(t, h)' <=> Reached(t, h)
  BY <1>1 DEF Reached, Steps, Bucket, primary_hash, lesser_bitness, Has
<1>. QED  BY <1>1, <1>2, <1>3

LEMMA CountFacts ==
  ASSUME TypeInv
  PROVE  IsFiniteSet(Used) /\ Cardinality(Used) \in Nat /\ hash_limit \in Nat
<1>1. PICK n \in Nat \ {0} : n = Size /\ Buckets = 0 .. n - 1
  BY SizeFacts
<1>2. IsFiniteSet(0 .. n - 1)
  <2>1. 0 \in Int /\ n - 1 \in Int
    OBVIOUS
  <2>. QED  BY <2>1, FS_Interval
<1>3. IsFiniteSet(Used)
  BY <1>1, <1>2, UsedFacts, FS_Subset
<1>4. n \div 3 \in Nat
  BY DivFacts
<1>. QED  BY <1>1, <1>3, <1>4, FS_CardinalityType DEF hash_limit

LEMMA InitHolds ==
  ASSUME Init
  PROVE  HashInv
<1>1. Used = {}
  BY DEF Init, Used, Cleared, empty_hash
<1>2. Empty \in Entries /\ 0 \in Buckets /\ MaxChain \in Nat \ {0} /\ MaxOffset \in Nat
  BY HashAssumption, SizeFacts DEF Entries, Empty
<1>3. TypeInv
  BY <1>1, <1>2 DEF Init, TypeInv, Cleared
<1>4. MaskInv
  <2>1. TagBits \in Nat /\ InitialFreq \in 1 .. TagBits /\ InitialFreq \in 0 .. TagBits + 1
    BY HashAssumption
  <2>2. minimum_tag_mask = pow2[InitialFreq] - 1 /\ tag_mask = minimum_tag_mask /\ tag_clean_ptr = 0
    BY DEF Init, InitialMask
  <2>. QED  BY <2>1, <2>2 DEF MaskInv
<1>5. CountInv
  <2>1. Cardinality(Used) = 0 /\ hash_limit \in Nat
    BY <1>1, <1>3, CountFacts, FS_EmptySet
  <2>. QED  BY <2>1 DEF Init, CountInv
<1>6. SweepClean /\ PathInv /\ NowInv /\ OnceInv
  BY <1>1 DEF Init, SweepClean, PathInv, NowInv, OnceInv
<1>7. FramesInv
  BY DEF Init, FramesInv, Last
<1>. QED  BY <1>3, <1>4, <1>5, <1>6, <1>7 DEF HashInv

LEMMA NextChunkKeeps ==
  ASSUME HashInv, NextChunk
  PROVE  HashInv'
<1>1. Used' = {}
  BY DEF NextChunk, Used, Cleared, empty_hash
<1>2. Empty \in Entries /\ 0 \in Buckets /\ MaxOffset \in Nat
  BY HashAssumption, SizeFacts DEF Entries, Empty
<1>3. TypeInv'
  <2>1. hash_table' \in [Buckets -> Entries]
    BY <1>2 DEF NextChunk, Cleared
  <2>. QED  BY <1>1, <1>2, <2>1 DEF HashInv, NextChunk, TypeInv
<1>4. MaskInv'
  <2>1. TagBits \in Nat /\ InitialFreq \in 1 .. TagBits /\ InitialFreq \in 0 .. TagBits + 1
    BY HashAssumption
  <2>2. minimum_tag_mask' = pow2[InitialFreq] - 1 /\ tag_mask' = minimum_tag_mask' /\ tag_clean_ptr' = 0
    BY DEF NextChunk, InitialMask
  <2>. QED  BY <2>1, <2>2 DEF MaskInv
<1>5. CountInv'
  <2>1. Cardinality(Used') = 0 /\ hash_limit \in Nat
    BY <1>1, CountFacts, FS_EmptySet DEF HashInv
  <2>. QED  BY <2>1 DEF NextChunk, CountInv, hash_limit
<1>6. SweepClean' /\ PathInv' /\ NowInv' /\ OnceInv'
  <2>1. pc' = "loop" /\ frames = << >> /\ frames' = << >>
    BY DEF HashInv, FramesInv, Calling, NextChunk
  <2>. QED  BY <1>1, <2>1 DEF SweepClean, PathInv, NowInv, OnceInv
<1>7. FramesInv'
  BY DEF HashInv, NextChunk, FramesInv, Last, Calling
<1>. QED  BY <1>3, <1>4, <1>5, <1>6, <1>7 DEF HashInv

LEMMA HashSearchKeeps ==
  ASSUME HashInv, NEW t \in Tags, HashSearch(t)
  PROVE  HashInv'
<1>1. /\ pc = "loop" /\ pc' = "insert" /\ p \in 0 .. MaxOffset /\ p < MaxOffset /\ p' = p + 1
      /\ now' = [offset |-> p + 1, t |-> t] /\ hash_count' = hash_count + 1
      /\ frames = << >> /\ frames' = << >>
      /\ UNCHANGED <<hash_table, minimum_tag_mask, tag_mask, tag_clean_ptr, victim_round>>
  BY DEF HashInv, TypeInv, FramesInv, Calling, HashSearch
<1>2. /\ Used' = Used /\ \A x : Kept(x)' <=> Kept(x)
      /\ \A x, h : Reached(x, h)' <=> Reached(x, h)
  BY <1>1, SameFacts
<1>3. MaxOffset \in Nat
  BY HashAssumption
<1>4. \A h \in Used : hash_table[h].offset \in 1 .. p
  BY DEF HashInv, TypeInv
<1>5. TypeInv'
  <2>1. now' \in Entries
    BY <1>1, <1>3 DEF Entries
  <2>2. \A h \in Used : hash_table[h].offset \in 1 .. p + 1
    BY <1>1, <1>3, <1>4
  <2>3. p + 1 \in 0 .. MaxOffset
    BY <1>1, <1>3
  <2>. QED  BY <1>1, <1>2, <2>1, <2>2, <2>3 DEF HashInv, TypeInv
<1>6. MaskInv'
  BY <1>1 DEF HashInv, MaskInv, increase_mask
<1>7. CountInv'
  <2>1. Cardinality(Used) \in Nat /\ hash_limit \in Nat
    BY CountFacts DEF HashInv
  <2>2. hash_limit' = hash_limit
    BY DEF hash_limit
  <2>. QED  BY <1>1, <1>2, <2>1, <2>2 DEF HashInv, CountInv
<1>8. SweepClean' /\ PathInv'
  <2>1. \A x : minimum_bitness(x)' <=> minimum_bitness(x)
    BY <1>2 DEF Kept
  <2>2. SweepClean'
    BY <1>1, <1>2, <2>1 DEF HashInv, SweepClean
  <2>3. PathInv'
    BY <1>1, <1>2 DEF HashInv, PathInv
  <2>. QED  BY <2>2, <2>3
<1>9. FramesInv'
  BY <1>1 DEF FramesInv, Last, Calling
<1>10. NowInv'
  <2>1. p + 1 \in 1 .. p + 1
    BY <1>1
  <2>2. tag_clean_ptr = 0 \/ Kept(t)
    BY DEF HashInv, MaskInv, HashSearch, Kept, minimum_bitness
  <2>. QED  BY <1>1, <1>2, <2>1, <2>2 DEF NowInv, Last
<1>11. OnceInv'
  <2>1. \A h \in Used : hash_table[h].offset # p + 1
    BY <1>1, <1>4
  <2>. QED  BY <1>1, <1>2, <2>1 DEF HashInv, OnceInv
<1>. QED  BY <1>5, <1>6, <1>7, <1>8, <1>9, <1>10, <1>11 DEF HashInv
(* What the frames are made of. *)
LEMMA FrameFacts ==
  ASSUME HashInv
  PROVE  /\ Last \in Nat /\ DOMAIN frames = 1 .. Last /\ (frames = << >> <=> Last = 0)
         /\ \A k \in 1 .. Last :
              /\ frames[k] \in [entry: Entries, h: Buckets]
              /\ frames[k].entry \in Entries /\ frames[k].h \in Buckets
              /\ frames[k].entry.t \in TagNumbers /\ frames[k].entry.t \in Nat
              /\ ~empty_hash(frames[k].entry)
              /\ hash_table[frames[k].h].t \in Nat
<1>1. frames \in Seq([entry: Entries, h: Buckets])
  BY DEF HashInv, TypeInv
<1>2. Last \in Nat /\ DOMAIN frames = 1 .. Last /\ (frames = << >> <=> Last = 0)
  BY <1>1 DEF Last
<1>3. ASSUME NEW k \in 1 .. Last
      PROVE  /\ frames[k] \in [entry: Entries, h: Buckets]
             /\ frames[k].entry \in Entries /\ frames[k].h \in Buckets
             /\ frames[k].entry.t \in TagNumbers /\ frames[k].entry.t \in Nat
             /\ ~empty_hash(frames[k].entry)
             /\ hash_table[frames[k].h].t \in Nat
  <2>1. frames[k] \in [entry: Entries, h: Buckets]
    <3>1. PICK R : R = [entry: Entries, h: Buckets]
      OBVIOUS
    <3>2. frames \in Seq(R) /\ k \in 1 .. Len(frames)
      BY <1>1, <3>1 DEF Last
    <3>3. frames[k] \in R
      BY <3>2
    <3>. QED  BY <3>1, <3>3
  <2>2. PICK e, h : e = frames[k].entry /\ h = frames[k].h /\ e \in Entries /\ h \in Buckets
    BY <2>1
  <2>3. e.offset \in 1 .. p /\ h \in Used /\ p \in Nat
    BY <2>2, HashAssumption DEF HashInv, FramesInv, TypeInv
  <2>4. e.offset # 0
    BY <2>3
  <2>. QED  BY <2>1, <2>2, <2>3, <2>4, EntryFacts, UsedFacts DEF HashInv
<1>. QED  BY <1>2, <1>3

LEMMA DisplaceKeeps ==
  ASSUME HashInv, InsertDisplace
  PROVE  HashInv'
<1>1. PICK h : DisplacedAt(h)
  BY DisplaceFacts DEF HashInv
<1>2. /\ pc = "insert" /\ pc' = pc /\ p' = p /\ hash_count' = hash_count
      /\ UNCHANGED <<hash_table, minimum_tag_mask, tag_mask, tag_clean_ptr, victim_round>>
  BY DEF InsertDisplace
<1>3. /\ Used' = Used /\ \A x : Kept(x)' <=> Kept(x)
      /\ \A x, g : Reached(x, g)' <=> Reached(x, g)
  BY <1>2, SameFacts
<1>4. PICK n \in Nat : n = Last /\ DOMAIN frames = 1 .. n /\ (frames = << >> <=> n = 0)
  BY FrameFacts
<1>5. PICK top : top = [entry |-> now, h |-> h]
  OBVIOUS
<1>6. /\ h \in Used /\ h \in Buckets /\ hash_table[h] \in Entries
      /\ hash_table[h].t \in TagNumbers /\ hash_table[h].t \in Nat
      /\ hash_table[h].offset \in 1 .. p
  BY <1>1, UsedFacts DEF DisplacedAt, HashInv
<1>7. /\ now \in Entries /\ now.t \in TagNumbers /\ now.t \in Nat /\ now.offset \in 1 .. p
      /\ tag_clean_ptr = 0 \/ Kept(now.t)
      /\ n # 0 => hash_table[frames[n].h] = now
      /\ \A k \in 1 .. n : lesser_bitness(now.t, frames[k].entry.t)
  <2>1. now \in Entries
    BY DEF HashInv, TypeInv
  <2>. QED  BY <1>2, <1>4, <2>1, EntryFacts DEF HashInv, NowInv
<1>8. /\ Kept(hash_table[h].t) /\ lesser_bitness(hash_table[h].t, now.t)
      /\ Reached(now.t, h) /\ now' = hash_table[h]
  BY <1>1 DEF DisplacedAt
<1>9. Kept(now.t)
  BY <1>6, <1>7, <1>8, KeptOrder DEF HashInv
<1>10. top.entry = now /\ top.h = h /\ top \in [entry: Entries, h: Buckets]
  BY <1>5, <1>6, <1>7
<1>11. /\ frames' \in Seq([entry: Entries, h: Buckets])
       /\ Last' = n + 1 /\ frames'[n + 1] = top /\ frames' # << >>
       /\ \A k \in 1 .. n : frames'[k] = frames[k]
  <2>1. frames \in Seq([entry: Entries, h: Buckets]) /\ frames' = Append(frames, top)
    BY <1>1, <1>5 DEF DisplacedAt, HashInv, TypeInv
  <2>. QED  BY <1>4, <1>10, <2>1 DEF Last
<1>12. TypeInv'
  BY <1>2, <1>3, <1>6, <1>8, <1>11 DEF HashInv, TypeInv
<1>13. MaskInv' /\ CountInv'
  BY <1>2, <1>3 DEF HashInv, MaskInv, increase_mask, CountInv, hash_limit
<1>14. SweepClean' /\ PathInv'
  <2>1. \A x : minimum_bitness(x)' <=> minimum_bitness(x)
    BY <1>3 DEF Kept
  <2>2. SweepClean'
    BY <1>2, <1>3, <2>1 DEF HashInv, SweepClean
  <2>3. PathInv'
    BY <1>2, <1>3 DEF HashInv, PathInv
  <2>. QED  BY <2>2, <2>3
<1>15. FramesInv'
  <2>1. ASSUME NEW k \in 1 .. n + 1
        PROVE  /\ Kept(frames'[k].entry.t) /\ Reached(frames'[k].entry.t, frames'[k].h)
               /\ frames'[k].entry.offset \in 1 .. p
               /\ frames'[k].h \in Used
               /\ lesser_bitness(hash_table[frames'[k].h].t, frames'[k].entry.t)
               /\ k < n + 1 => hash_table[frames'[k].h] = frames'[k + 1].entry
               /\ \A j \in 1 .. k - 1 : lesser_bitness(frames'[k].entry.t, frames'[j].entry.t)
    <3>1. CASE k = n + 1
      <4>1. \A j \in 1 .. k - 1 : j \in 1 .. n
        BY <3>1
      <4>. QED  BY <1>6, <1>7, <1>8, <1>9, <1>10, <1>11, <3>1, <4>1
    <3>2. CASE k # n + 1
      <4>1. k \in 1 .. n /\ frames'[k] = frames[k] /\ \A j \in 1 .. k - 1 : j \in 1 .. n
        BY <1>11, <3>2
      <4>2. hash_table[frames[k].h] = frames'[k + 1].entry
        <5>1. CASE k = n
          BY <1>7, <1>10, <1>11, <5>1
        <5>2. CASE k # n
          <6>1. k < n /\ k + 1 \in 1 .. n
            BY <4>1, <5>2
          <6>. QED  BY <1>4, <1>11, <4>1, <6>1 DEF HashInv, FramesInv
        <5>. QED  BY <5>1, <5>2
      <4>3. \A j \in 1 .. k - 1 : lesser_bitness(frames[k].entry.t, frames'[j].entry.t)
        BY <1>4, <1>11, <4>1 DEF HashInv, FramesInv
      <4>. QED  BY <1>4, <4>1, <4>2, <4>3 DEF HashInv, FramesInv
    <3>. QED  BY <3>1, <3>2
  <2>2. \A x, y : lesser_bitness(x, y)' <=> lesser_bitness(x, y)
    BY DEF lesser_bitness, Has
  <2>. QED  BY <1>2, <1>3, <1>11, <2>1, <2>2 DEF FramesInv, Calling
<1>16. NowInv'
  <2>1. ASSUME NEW k \in 1 .. n + 1
        PROVE  lesser_bitness(hash_table[h].t, frames'[k].entry.t)
    <3>1. CASE k = n + 1
      BY <1>8, <1>10, <1>11, <3>1
    <3>2. CASE k # n + 1
      <4>1. k \in 1 .. n /\ frames'[k] = frames[k] /\ frames[k].entry.t \in Nat
        BY <1>4, <1>11, <3>2, FrameFacts
      <4>. QED  BY <1>6, <1>7, <1>8, <4>1, LesserOrder
    <3>. QED  BY <3>1, <3>2
  <2>2. \A x, y : lesser_bitness(x, y)' <=> lesser_bitness(x, y)
    BY DEF lesser_bitness, Has
  <2>3. hash_table[frames'[n + 1].h] = now'
    BY <1>8, <1>10, <1>11
  <2>. QED  BY <1>2, <1>3, <1>6, <1>8, <1>11, <2>1, <2>2, <2>3 DEF NowInv
<1>17. OnceInv'
  <2>1. frames'[1].entry.offset = p
    <3>1. CASE n = 0
      BY <1>2, <1>4, <1>10, <1>11, <3>1 DEF HashInv, OnceInv
    <3>2. CASE n # 0
      <4>1. 1 \in 1 .. n
        BY <3>2
      <4>. QED  BY <1>2, <1>4, <1>11, <3>2, <4>1 DEF HashInv, OnceInv
    <3>. QED  BY <3>1, <3>2
  <2>. QED  BY <1>2, <1>3, <1>11, <2>1 DEF HashInv, OnceInv
<1>. QED  BY <1>12, <1>13, <1>14, <1>15, <1>16, <1>17 DEF HashInv
(* In a state that a step leaves, entries can be reached as before.         *)
LEMMA PathsStay ==
  ASSUME HashInv, NEW at, NEW e, Stored(at, e), Reached(e.t, at),
         UNCHANGED minimum_tag_mask,
         at \in Used /\ Kept(hash_table[at].t) => ~lesser_bitness(e.t, hash_table[at].t)
  PROVE  /\ \A t \in TagNumbers, h \in Buckets : Kept(t) /\ Reached(t, h) => Reached(t, h)'
         /\ \A t : Kept(t)' <=> Kept(t)
         /\ PathInv'
<1>1. ASSUME NEW t \in TagNumbers, NEW h \in Buckets, Kept(t), Reached(t, h)
      PROVE  Reached(t, h)'
  BY <1>1, ReachedStays DEF HashInv
<1>2. \A t : Kept(t)' <=> Kept(t)
  BY DEF Kept, minimum_bitness, Has, increase_mask
<1>3. /\ Used' = Used \cup {at} /\ hash_table'[at] = e
      /\ \A h \in Buckets : h # at => hash_table'[h] = hash_table[h]
  BY StoredFacts DEF HashInv
<1>4. e.t \in TagNumbers /\ at \in Buckets
  BY EntryFacts DEF Stored
<1>5. ASSUME NEW h \in Used', NEW t, t = hash_table'[h].t, Kept(t)
      PROVE  Reached(t, h)'
  <2>1. CASE h = at
    BY <1>1, <1>3, <1>4, <1>5, <2>1
  <2>2. CASE h # at
    <3>1. h \in Used /\ h \in Buckets /\ t = hash_table[h].t /\ t \in TagNumbers
      BY <1>3, <1>5, <2>2, UsedFacts DEF HashInv
    <3>2. Reached(t, h)
      BY <1>5, <3>1 DEF HashInv, PathInv
    <3>. QED  BY <1>1, <1>5, <3>1, <3>2
  <2>. QED  BY <2>1, <2>2
<1>6. PathInv'
  <2>. SUFFICES ASSUME NEW h \in Used', Kept(hash_table[h].t)'
                PROVE  Reached(hash_table[h].t, h)'
    BY DEF PathInv
  <2>1. PICK t : t = hash_table'[h].t
    OBVIOUS
  <2>2. Kept(t)' /\ Kept(t)
    BY <1>2, <2>1
  <2>3. Reached(t, h)'
    BY <1>5, <2>1, <2>2
  <2>. QED  BY <2>1, <2>3
<1>. QED  BY <1>1, <1>2, <1>6

LEMMA PlaceKeeps ==
  ASSUME HashInv, InsertPlace
  PROVE  HashInv'
<1>1. PICK at : PlacedAt(at)
  BY PlaceFacts DEF HashInv
<1>2. /\ pc = "insert" /\ pc' = "return" /\ p' = p /\ now' = now /\ frames' = frames
      /\ UNCHANGED <<minimum_tag_mask, tag_mask, tag_clean_ptr>>
  BY DEF InsertPlace
<1>3. /\ Stored(at, now) /\ Reached(now.t, at) /\ at \in Buckets
      /\ at \in Used /\ Kept(hash_table[at].t) => hash_table[at].t = now.t
  BY <1>1 DEF PlacedAt, Stored
<1>4. /\ Used' = Used \cup {at} /\ hash_table'[at] = now
      /\ \A h \in Buckets : h # at => hash_table'[h] = hash_table[h]
      /\ hash_table' \in [Buckets -> Entries]
  BY <1>3, StoredFacts DEF HashInv
<1>5. PICK n \in Nat : n = Last /\ DOMAIN frames = 1 .. n /\ (frames = << >> <=> n = 0)
  BY FrameFacts
<1>6. /\ now.t \in TagNumbers /\ now.t \in Nat /\ now.offset \in 1 .. p
      /\ tag_clean_ptr = 0 \/ Kept(now.t)
      /\ n # 0 => hash_table[frames[n].h] = now
      /\ \A k \in 1 .. n : lesser_bitness(now.t, frames[k].entry.t)
  <2>1. now \in Entries
    BY DEF HashInv, TypeInv
  <2>. QED  BY <1>2, <1>5, <2>1, EntryFacts DEF HashInv, NowInv
<1>7. ~lesser_bitness(now.t, now.t)
  BY <1>6, LesserOrder
<1>8. at \in Used /\ Kept(hash_table[at].t) => ~lesser_bitness(now.t, hash_table[at].t)
  BY <1>3, <1>7
<1>9. /\ \A t \in TagNumbers, h \in Buckets : Kept(t) /\ Reached(t, h) => Reached(t, h)'
      /\ \A t : Kept(t)' <=> Kept(t)
      /\ PathInv'
  BY <1>2, <1>3, <1>8, PathsStay
<1>10. \A h \in Used' : h = at \/ (h \in Used /\ h # at /\ hash_table'[h] = hash_table[h])
  BY <1>4, UsedFacts DEF HashInv
<1>11. TypeInv'
  <2>1. \A h \in Used' : hash_table'[h].offset \in 1 .. p
    BY <1>4, <1>6, <1>10, UsedFacts DEF HashInv
  <2>2. victim_round' \in 0 .. MaxChain - 1
    BY <1>1 DEF PlacedAt
  <2>. QED  BY <1>2, <1>4, <2>1, <2>2 DEF HashInv, TypeInv
<1>12. MaskInv'
  BY <1>2 DEF HashInv, MaskInv, increase_mask
<1>13. CountInv'
  <2>1. IsFiniteSet(Used) /\ Cardinality(Used) \in Nat /\ hash_limit \in Nat
    BY CountFacts DEF HashInv
  <2>2. Cardinality(Used') = IF at \in Used THEN Cardinality(Used) ELSE Cardinality(Used) + 1
    <3>1. CASE at \in Used
      <4>1. Used' = Used
        BY <1>4, <3>1
      <4>. QED  BY <3>1, <4>1
    <3>2. CASE at \notin Used
      BY <1>4, <2>1, <3>2, FS_AddElement
    <3>. QED  BY <3>1, <3>2
  <2>3. hash_count' = IF at \in Used THEN hash_count - 1 ELSE hash_count
    BY <1>1 DEF PlacedAt
  <2>4. hash_count = Cardinality(Used) + 1 /\ hash_count <= hash_limit + 1
    BY <1>2 DEF HashInv, CountInv
  <2>5. hash_limit' = hash_limit
    BY DEF hash_limit
  <2>. QED  BY <1>2, <2>1, <2>2, <2>3, <2>4, <2>5 DEF CountInv
<1>14. SweepClean'
  <2>1. ASSUME NEW h \in Used', h < tag_clean_ptr
        PROVE  Kept(hash_table'[h].t)
    <3>1. CASE h = at
      <4>1. h \in Nat /\ tag_clean_ptr # 0
        BY <1>3, <2>1, <3>1, SizeFacts
      <4>. QED  BY <1>4, <1>6, <3>1, <4>1
    <3>2. CASE h # at
      BY <1>10, <2>1, <3>2 DEF HashInv, SweepClean, Kept
    <3>. QED  BY <3>1, <3>2
  <2>2. \A t : minimum_bitness(t)' <=> ~Kept(t)
    BY <1>9 DEF Kept
  <2>. QED  BY <1>2, <2>1, <2>2 DEF SweepClean
<1>15. FramesInv'
  <2>1. ASSUME NEW k \in 1 .. n
        PROVE  /\ Kept(frames[k].entry.t) /\ Reached(frames[k].entry.t, frames[k].h)'
               /\ frames[k].entry.offset \in 1 .. p
               /\ frames[k].h \in Used'
               /\ lesser_bitness(hash_table'[frames[k].h].t, frames[k].entry.t)
               /\ k < n => hash_table'[frames[k].h] = frames[k + 1].entry
               /\ \A j \in 1 .. k - 1 : lesser_bitness(frames[k].entry.t, frames[j].entry.t)
    <3>1. /\ Kept(frames[k].entry.t) /\ Reached(frames[k].entry.t, frames[k].h)
          /\ frames[k].entry.offset \in 1 .. p
          /\ frames[k].h \in Used
          /\ lesser_bitness(hash_table[frames[k].h].t, frames[k].entry.t)
          /\ k < n => hash_table[frames[k].h] = frames[k + 1].entry
          /\ \A j \in 1 .. k - 1 : lesser_bitness(frames[k].entry.t, frames[j].entry.t)
      BY <1>5 DEF HashInv, FramesInv
    <3>2. frames[k].entry.t \in TagNumbers /\ frames[k].h \in Buckets
      BY <1>5, FrameFacts
    <3>3. Reached(frames[k].entry.t, frames[k].h)'
      <4>1. PICK t \in TagNumbers, h \in Buckets : t = frames[k].entry.t /\ h = frames[k].h
        BY <3>2
      <4>2. frames'[k].entry.t = t /\ frames'[k].h = h
        BY <1>2, <4>1
      <4>3. Reached(t, h)'
        BY <1>9, <3>1, <4>1
      <4>. QED  BY <1>2, <4>1, <4>2, <4>3
    <3>4. lesser_bitness(hash_table'[frames[k].h].t, frames[k].entry.t)
      BY <1>4, <1>6, <3>1, <3>2
    <3>5. k < n => hash_table'[frames[k].h] = frames[k + 1].entry
      <4>. SUFFICES ASSUME k < n PROVE hash_table'[frames[k].h] = frames[k + 1].entry
        OBVIOUS
      <4>1. k + 1 \in 1 .. n
        OBVIOUS
      <4>2. /\ hash_table[frames[k].h] = frames[k + 1].entry
            /\ Kept(frames[k + 1].entry.t)
            /\ lesser_bitness(now.t, frames[k + 1].entry.t)
        BY <1>5, <1>6, <3>1, <4>1 DEF HashInv, FramesInv
      <4>3. frames[k].h # at
        BY <1>3, <1>7, <3>1, <4>2
      <4>. QED  BY <1>4, <3>2, <4>2, <4>3
    <3>. QED  BY <1>4, <3>1, <3>3, <3>4, <3>5
  <2>2. \A x, y : lesser_bitness(x, y)' <=> lesser_bitness(x, y)
    BY DEF lesser_bitness, Has
  <2>3. Last' = n
    BY <1>2, <1>5 DEF Last
  <2>. QED  BY <1>2, <1>5, <1>9, <2>1, <2>2, <2>3 DEF FramesInv, Calling
<1>16. NowInv'
  BY <1>2 DEF NowInv
<1>17. OnceInv'
  <2>1. /\ \A g, h \in Used : hash_table[g] = hash_table[h] => g = h
        /\ IF n = 0 THEN now.offset = p ELSE frames[1].entry.offset = p
        /\ \A h \in Used : hash_table[h].offset # p
    BY <1>2, <1>5 DEF HashInv, OnceInv
  <2>2. n # 0 => frames[n].h \in Used /\ hash_table[frames[n].h] = now
    BY <1>5, <1>6 DEF HashInv, FramesInv
  <2>3. ASSUME NEW h \in Used, hash_table[h] = now
        PROVE  n # 0 /\ frames[n].h = h
    BY <2>1, <2>2, <2>3
  <2>4. ASSUME NEW g \in Used', NEW h \in Used', hash_table'[g] = hash_table'[h]
        PROVE  g = h \/ (n # 0 /\ frames[n].h \in {g, h})
    BY <1>4, <1>10, <2>1, <2>3, <2>4
  <2>5. n # 0 => \A h \in Used' : hash_table'[h].offset # p
    BY <1>4, <1>10, <2>1, <2>2
  <2>6. n = 0 => at \in Used' /\ hash_table'[at].offset = p
    BY <1>4, <2>1
  <2>7. Last' = n
    BY <1>2, <1>5 DEF Last
  <2>. QED  BY <1>2, <1>5, <2>1, <2>4, <2>5, <2>6, <2>7 DEF OnceInv
<1>. QED  BY <1>9, <1>11, <1>12, <1>13, <1>14, <1>15, <1>16, <1>17 DEF HashInv
(* A call returns to the one before it, which takes its bucket. *)
LEMMA ReturnToCaller ==
  ASSUME HashInv, InsertReturn, frames # << >>
  PROVE  HashInv'
<1>1. PICK n \in Nat : n = Last /\ DOMAIN frames = 1 .. n /\ n # 0 /\ n \in 1 .. n
  BY FrameFacts
<1>2. PICK at, e : at = frames[n].h /\ e = frames[n].entry
  OBVIOUS
<1>3. /\ pc = "return" /\ pc' = pc /\ p' = p /\ now' = now
      /\ hash_table' = [hash_table EXCEPT ![at] = e]
      /\ frames' = SubSeq(frames, 1, n - 1)
      /\ UNCHANGED <<hash_count, minimum_tag_mask, tag_mask, tag_clean_ptr, victim_round>>
  BY <1>1, <1>2 DEF InsertReturn, Last
<1>4. \A k \in 1 .. n :
        /\ Kept(frames[k].entry.t) /\ Reached(frames[k].entry.t, frames[k].h)
        /\ frames[k].entry.offset \in 1 .. p
        /\ frames[k].h \in Used
        /\ lesser_bitness(hash_table[frames[k].h].t, frames[k].entry.t)
        /\ k < n => hash_table[frames[k].h] = frames[k + 1].entry
        /\ \A j \in 1 .. k - 1 : lesser_bitness(frames[k].entry.t, frames[j].entry.t)
  BY <1>1 DEF HashInv, FramesInv
<1>5. /\ Kept(e.t) /\ Reached(e.t, at) /\ e.offset \in 1 .. p /\ at \in Used
      /\ lesser_bitness(hash_table[at].t, e.t)
  BY <1>1, <1>2, <1>4
<1>6. /\ e \in Entries /\ at \in Buckets /\ e.t \in Nat /\ e.t \in TagNumbers
      /\ ~empty_hash(e) /\ hash_table[at].t \in Nat
  BY <1>1, <1>2, FrameFacts
<1>7. Stored(at, e)
  BY <1>3, <1>6 DEF Stored
<1>8. /\ Used' = Used /\ hash_table'[at] = e
      /\ \A h \in Buckets : h # at => hash_table'[h] = hash_table[h]
      /\ hash_table' \in [Buckets -> Entries]
  BY <1>5, <1>7, StoredFacts DEF HashInv
<1>9. ~lesser_bitness(e.t, hash_table[at].t)
  BY <1>5, <1>6, LesserOrder
<1>10. /\ \A t \in TagNumbers, h \in Buckets : Kept(t) /\ Reached(t, h) => Reached(t, h)'
       /\ \A t : Kept(t)' <=> Kept(t)
       /\ PathInv'
  BY <1>3, <1>5, <1>7, <1>9, PathsStay
<1>11. /\ frames' \in Seq([entry: Entries, h: Buckets]) /\ Last' = n - 1
       /\ (frames' = << >> <=> n = 1)
       /\ \A k \in 1 .. n - 1 : frames'[k] = frames[k]
  <2>1. PICK R : R = [entry: Entries, h: Buckets]
    OBVIOUS
  <2>2. frames \in Seq(R) /\ Len(frames) = n
    BY <1>1, <2>1 DEF HashInv, TypeInv, Last
  <2>3. n - 1 \in Nat /\ n - 1 \in 0 .. n
    BY <1>1
  <2>4. /\ frames' \in Seq(R) /\ Len(frames') = n - 1
        /\ \A k \in 1 .. n - 1 : frames'[k] = frames[k]
    BY <1>3, <2>2, <2>3
  <2>. QED  BY <2>1, <2>3, <2>4 DEF Last
<1>12. \A h \in Used : h = at \/ (h # at /\ hash_table'[h] = hash_table[h])
  BY <1>8, UsedFacts DEF HashInv
<1>13. TypeInv'
  <2>1. \A h \in Used : hash_table'[h].offset \in 1 .. p
    BY <1>5, <1>8, <1>12, UsedFacts DEF HashInv
  <2>. QED  BY <1>3, <1>8, <1>11, <2>1 DEF HashInv, TypeInv
<1>14. MaskInv' /\ CountInv'
  BY <1>3, <1>8 DEF HashInv, MaskInv, increase_mask, CountInv, hash_limit
<1>15. SweepClean'
  <2>1. ASSUME NEW h \in Used, h < tag_clean_ptr
        PROVE  Kept(hash_table'[h].t)
    BY <1>5, <1>8, <1>12, <2>1 DEF HashInv, SweepClean, Kept
  <2>2. \A t : minimum_bitness(t)' <=> ~Kept(t)
    BY <1>10 DEF Kept
  <2>. QED  BY <1>3, <1>8, <2>1, <2>2 DEF SweepClean
<1>16. \A k \in 1 .. n - 1 : frames[k].h # at
  <2>. SUFFICES ASSUME NEW k \in 1 .. n - 1, frames[k].h = at PROVE FALSE
    OBVIOUS
  <2>1. k \in 1 .. n /\ k < n /\ k + 1 \in 1 .. n /\ k \in 1 .. (k + 1) - 1
    OBVIOUS
  <2>2. hash_table[at] = frames[k + 1].entry
    BY <1>4, <2>1
  <2>3. CASE k + 1 = n
    <3>1. hash_table[at] = e
      BY <1>2, <2>2, <2>3
    <3>. QED  BY <1>5, <1>6, <3>1, LesserOrder
  <2>4. CASE k + 1 # n
    <3>1. k + 1 \in 1 .. n - 1
      BY <2>1, <2>4
    <3>2. lesser_bitness(e.t, frames[k + 1].entry.t)
      BY <1>1, <1>2, <1>4, <3>1
    <3>. QED  BY <1>9, <2>2, <3>2
  <2>. QED  BY <2>3, <2>4
<1>17. FramesInv'
  <2>1. ASSUME NEW k \in 1 .. n - 1, NEW t, NEW h, t = frames[k].entry.t, h = frames[k].h
        PROVE  Reached(t, h)'
    <3>1. k \in 1 .. n
      OBVIOUS
    <3>2. t \in TagNumbers /\ h \in Buckets
      BY <1>1, <2>1, <3>1, FrameFacts
    <3>. QED  BY <1>4, <1>10, <2>1, <3>1, <3>2
  <2>2. ASSUME NEW k \in 1 .. n - 1
        PROVE  /\ Kept(frames[k].entry.t)
               /\ frames[k].entry.offset \in 1 .. p
               /\ frames[k].h \in Used
               /\ lesser_bitness(hash_table'[frames[k].h].t, frames[k].entry.t)
               /\ k < n - 1 => hash_table'[frames[k].h] = frames'[k + 1].entry
               /\ \A j \in 1 .. k - 1 : lesser_bitness(frames[k].entry.t, frames'[j].entry.t)
    <3>1. k \in 1 .. n /\ k < n /\ \A j \in 1 .. k - 1 : j \in 1 .. n - 1
      OBVIOUS
    <3>2. frames[k].h \in Buckets /\ frames[k].h # at
      BY <1>1, <1>16, <3>1, FrameFacts
    <3>3. hash_table'[frames[k].h] = hash_table[frames[k].h]
      BY <1>8, <3>2
    <3>4. k < n - 1 => k + 1 \in 1 .. n - 1
      OBVIOUS
    <3>. QED  BY <1>4, <1>11, <3>1, <3>3, <3>4
  <2>3. ASSUME NEW k \in 1 .. n - 1
        PROVE  Reached(frames[k].entry.t, frames[k].h)'
    <3>1. PICK t, h : t = frames[k].entry.t /\ h = frames[k].h
      OBVIOUS
    <3>2. frames'[k].entry.t = t /\ frames'[k].h = h
      BY <1>11, <3>1
    <3>3. Reached(t, h)'
      BY <2>1, <3>1
    <3>. QED  BY <3>2, <3>3
  <2>4. \A x, y : lesser_bitness(x, y)' <=> lesser_bitness(x, y)
    BY DEF lesser_bitness, Has
  <2>. QED  BY <1>3, <1>8, <1>10, <1>11, <2>2, <2>3, <2>4 DEF FramesInv, Calling
<1>18. NowInv'
  BY <1>3 DEF NowInv
<1>19. OnceInv'
  <2>1. /\ \A g, h \in Used : hash_table[g] = hash_table[h] => g = h \/ at \in {g, h}
        /\ frames[1].entry.offset = p
        /\ \A h \in Used : hash_table[h].offset # p
    BY <1>1, <1>2, <1>3 DEF HashInv, OnceInv
  <2>2. CASE n = 1
    <3>1. e.offset = p /\ frames' = << >>
      BY <1>2, <1>11, <2>1, <2>2
    <3>2. ASSUME NEW g \in Used, NEW h \in Used, hash_table'[g] = hash_table'[h]
          PROVE  g = h
      BY <1>8, <1>12, <2>1, <3>1, <3>2
    <3>. QED  BY <1>3, <1>5, <1>8, <3>1, <3>2 DEF OnceInv
  <2>3. CASE n # 1
    <3>1. PICK m \in 1 .. n - 1 : m = n - 1 /\ m + 1 = n /\ m \in 1 .. n /\ m < n
      BY <1>1, <2>3
    <3>2. /\ frames[m].h \in Used /\ hash_table[frames[m].h] = e /\ frames[m].h # at
      BY <1>2, <1>4, <1>16, <3>1
    <3>3. ASSUME NEW g \in Used, NEW h \in Used, hash_table'[g] = hash_table'[h]
          PROVE  g = h \/ frames[m].h \in {g, h}
      <4>1. ASSUME NEW x \in Used, x # at, hash_table[x] = e
            PROVE  x = frames[m].h
        BY <2>1, <3>2, <4>1
      <4>. QED  BY <1>8, <1>12, <2>1, <3>3, <4>1
    <3>4. frames' # << >> /\ frames'[1] = frames[1] /\ frames'[m] = frames[m] /\ Last' = m
      BY <1>11, <2>3, <3>1
    <3>5. \A h \in Used : hash_table'[h].offset # p
      BY <1>8, <1>12, <2>1, <3>2
    <3>. QED  BY <1>3, <1>8, <2>1, <3>3, <3>4, <3>5 DEF OnceInv
  <2>. QED  BY <2>2, <2>3
<1>. QED  BY <1>10, <1>13, <1>14, <1>15, <1>17, <1>18, <1>19 DEF HashInv
(* The first call returns to hash_search. *)
LEMMA ReturnToSearch ==
  ASSUME HashInv, InsertReturn, frames = << >>
  PROVE  HashInv'
<1>1. /\ pc = "return" /\ pc' = IF hash_count > hash_limit THEN "clean" ELSE "loop"
      /\ now' = Empty /\ frames' = << >> /\ p' = p
      /\ UNCHANGED <<hash_table, hash_count, minimum_tag_mask, tag_mask, tag_clean_ptr,
                     victim_round>>
  BY DEF InsertReturn
<1>2. /\ Used' = Used /\ \A x : Kept(x)' <=> Kept(x)
      /\ \A x, g : Reached(x, g)' <=> Reached(x, g)
  BY <1>1, SameFacts
<1>3. Last' = 0
  BY <1>1 DEF Last
<1>4. TypeInv'
  <2>1. Empty \in Entries
    BY HashAssumption DEF Empty, Entries
  <2>. QED  BY <1>1, <1>2, <2>1 DEF HashInv, TypeInv
<1>5. MaskInv'
  BY <1>1 DEF HashInv, MaskInv, increase_mask
<1>6. CountInv'
  <2>1. Cardinality(Used) \in Nat /\ hash_limit \in Nat /\ hash_limit' = hash_limit
    BY CountFacts DEF HashInv, hash_limit
  <2>2. hash_count = Cardinality(Used) /\ hash_count <= hash_limit + 1
    BY <1>1, <2>1 DEF HashInv, CountInv
  <2>. QED  BY <1>1, <1>2, <2>1, <2>2 DEF CountInv
<1>7. SweepClean' /\ PathInv'
  <2>1. \A x : minimum_bitness(x)' <=> minimum_bitness(x)
    BY <1>2 DEF Kept
  <2>. QED  BY <1>1, <1>2, <2>1 DEF HashInv, SweepClean, PathInv
<1>8. FramesInv' /\ NowInv'
  BY <1>1, <1>3 DEF FramesInv, NowInv
<1>9. OnceInv'
  BY <1>1, <1>2 DEF HashInv, OnceInv
<1>. QED  BY <1>4, <1>5, <1>6, <1>7, <1>8, <1>9 DEF HashInv

LEMMA CleanKeeps ==
  ASSUME HashInv, CleanOne
  PROVE  HashInv'
<1>1. PICK d \in Due : /\ \A g \in Due : d <= g
                       /\ hash_table' = [hash_table EXCEPT ![d] = Empty]
                       /\ tag_clean_ptr' = d
  BY DEF CleanOne
<1>2. /\ pc = "clean" /\ pc' = "loop" /\ hash_count' = hash_count - 1
      /\ tag_mask' = increase_mask(minimum_tag_mask)
      /\ UNCHANGED <<p, minimum_tag_mask, victim_round, now, frames>>
      /\ frames = << >>
  BY DEF CleanOne, HashInv, FramesInv, Calling
<1>3. d \in Buckets /\ d \in Used /\ d \in Nat /\ tag_clean_ptr \in Nat /\ ~Kept(hash_table[d].t)
  BY <1>1, SizeFacts DEF Due, Used, Kept, HashInv, TypeInv
<1>4. \A t : Kept(t)' <=> Kept(t)
  BY <1>2 DEF Kept, minimum_bitness, Has, increase_mask
<1>5. /\ hash_table' \in [Buckets -> Entries] /\ hash_table'[d] = Empty
      /\ \A h \in Buckets : h # d => hash_table'[h] = hash_table[h]
  <2>1. Empty \in Entries
    BY HashAssumption DEF Empty, Entries
  <2>. QED  BY <1>1, <1>3, <2>1 DEF HashInv, TypeInv
<1>6. Used' = Used \ {d}
  <2>1. Used' = {h \in Buckets : ~empty_hash(hash_table'[h])}
    BY DEF Used, empty_hash
  <2>2. empty_hash(Empty)
    BY DEF empty_hash
  <2>. QED  BY <1>3, <1>5, <2>1, <2>2 DEF Used
<1>7. \A h \in Used' : h \in Used /\ h \in Buckets /\ h # d /\ hash_table'[h] = hash_table[h]
  BY <1>5, <1>6, UsedFacts DEF HashInv
<1>8. TypeInv'
  BY <1>1, <1>2, <1>3, <1>5, <1>7 DEF HashInv, TypeInv
<1>9. MaskInv'
  <2>1. TagBits \in Nat
    BY HashAssumption
  <2>2. PICK k \in 1 .. TagBits : minimum_tag_mask = pow2[k] - 1
    BY DEF HashInv, MaskInv
  <2>3. k \in Nat /\ k + 1 \in 0 .. TagBits + 1
    BY <2>1
  <2>4. tag_mask' = pow2[k + 1] - 1 /\ minimum_tag_mask' = pow2[k] - 1
    BY <1>2, <2>2, <2>3, KeptIs
  <2>5. tag_mask' = increase_mask(minimum_tag_mask)'
    BY <1>2 DEF increase_mask
  <2>. QED  BY <2>3, <2>4, <2>5 DEF MaskInv
<1>10. CountInv'
  <2>1. /\ IsFiniteSet(Used) /\ Cardinality(Used) \in Nat /\ hash_limit \in Nat
        /\ hash_limit' = hash_limit
    BY CountFacts DEF HashInv, hash_limit
  <2>2. Cardinality(Used') = Cardinality(Used) - 1
    BY <1>3, <1>6, <2>1, FS_RemoveElement
  <2>3. hash_count = Cardinality(Used) /\ hash_count <= hash_limit + 1
    BY <1>2, <2>1 DEF HashInv, CountInv
  <2>. QED  BY <1>2, <2>1, <2>2, <2>3 DEF CountInv
<1>11. SweepClean'
  <2>1. ASSUME NEW h \in Used', h < d
        PROVE  Kept(hash_table[h].t)
    <3>. SUFFICES ASSUME ~Kept(hash_table[h].t) PROVE FALSE
      OBVIOUS
    <3>1. h \in Used /\ h \in Nat /\ h \in Buckets
      BY <1>7, SizeFacts
    <3>2. ~(h < tag_clean_ptr)
      BY <3>1 DEF HashInv, SweepClean, Kept
    <3>3. h >= tag_clean_ptr
      BY <1>3, <3>1, <3>2
    <3>4. h \in Due
      BY <3>1, <3>3 DEF Due, Used, Kept
    <3>. QED  BY <1>1, <1>3, <2>1, <3>1, <3>4
  <2>2. \A t : minimum_bitness(t)' <=> ~Kept(t)
    BY <1>4 DEF Kept
  <2>. QED  BY <1>1, <1>7, <2>1, <2>2 DEF SweepClean
<1>12. PathInv'
  <2>1. ASSUME NEW h \in Used', NEW t, t = hash_table[h].t, Kept(t)
        PROVE  Reached(t, h)'
    <3>1. Reached(t, h) /\ t \in TagNumbers
      BY <1>7, <2>1, UsedFacts DEF HashInv, PathInv
    <3>2. ASSUME NEW i \in 0 .. Steps(t, h) - 1
          PROVE  /\ Bucket(t, i) \in Used'
                 /\ ~lesser_bitness(hash_table'[Bucket(t, i)].t, t)
      <4>1. PICK g : g = Bucket(t, i)
        OBVIOUS
      <4>2. g \in Used /\ ~lesser_bitness(hash_table[g].t, t)
        BY <3>1, <4>1 DEF Reached
      <4>3. hash_table[g].t \in TagNumbers
        BY <4>2, UsedFacts DEF HashInv
      <4>4. Kept(hash_table[g].t)
        BY <2>1, <3>1, <4>2, <4>3, KeptOrder DEF HashInv
      <4>5. g \in Used'
        BY <1>3, <1>6, <4>2, <4>4
      <4>. QED  BY <1>7, <4>1, <4>2, <4>5
    <3>. QED  BY <3>2 DEF Reached, Steps, Bucket, primary_hash, lesser_bitness, Has
  <2>. SUFFICES ASSUME NEW h \in Used', Kept(hash_table[h].t)'
                PROVE  Reached(hash_table[h].t, h)'
    BY DEF PathInv
  <2>2. PICK t : t = hash_table'[h].t /\ t = hash_table[h].t
    BY <1>7
  <2>3. Kept(t)' /\ Kept(t)
    BY <1>4, <2>2
  <2>4. Reached(t, h)'
    BY <2>1, <2>2, <2>3
  <2>. QED  BY <2>2, <2>4
<1>13. FramesInv' /\ NowInv'
  <2>1. Last' = 0
    BY <1>2 DEF Last
  <2>. QED  BY <1>2, <2>1 DEF FramesInv, NowInv
<1>14. OnceInv'
  BY <1>2, <1>7 DEF HashInv, OnceInv
<1>. QED  BY <1>8, <1>9, <1>10, <1>11, <1>12, <1>13, <1>14 DEF HashInv

LEMMA SweepEndKeeps ==
  ASSUME HashInv, SweepEnd
  PROVE  HashInv'
<1>1. /\ pc = "clean" /\ Due = {} /\ tag_clean_ptr' = 0
      /\ minimum_tag_mask' = increase_mask(minimum_tag_mask)
      /\ UNCHANGED <<pc, p, hash_table, hash_count, tag_mask, victim_round, now, frames>>
      /\ frames = << >> /\ frames' = << >>
  BY DEF SweepEnd, HashInv, FramesInv, Calling
<1>2. Used' = Used
  BY <1>1 DEF Used, empty_hash
<1>3. \A h \in Used : Kept(hash_table[h].t)
  <2>. SUFFICES ASSUME NEW h \in Used, ~Kept(hash_table[h].t) PROVE FALSE
    OBVIOUS
  <2>1. h \in Buckets /\ h \in Nat /\ tag_clean_ptr \in Nat
    BY SizeFacts, UsedFacts DEF HashInv, TypeInv
  <2>2. ~(h < tag_clean_ptr)
    BY DEF HashInv, SweepClean, Kept
  <2>3. h >= tag_clean_ptr
    BY <2>1, <2>2
  <2>4. h \in Due
    BY <2>1, <2>3 DEF Due, Used, Kept
  <2>. QED  BY <1>1, <2>4
<1>4. Used # {}
  <2>1. hash_limit \in Nat /\ Cardinality(Used) \in Nat
    BY CountFacts DEF HashInv
  <2>2. hash_count > hash_limit /\ hash_count = Cardinality(Used)
    BY <1>1, <2>1 DEF HashInv, CountInv
  <2>. QED  BY <2>1, <2>2, FS_EmptySet
<1>5. PICK k \in 1 .. TagBits : /\ minimum_tag_mask = pow2[k] - 1
                                /\ tag_mask \in {pow2[j] - 1 : j \in 0 .. TagBits + 1}
  BY DEF HashInv, MaskInv
<1>6. k \in Nat /\ k + 1 \in Nat /\ TagBits \in Nat
  BY HashAssumption
<1>7. /\ minimum_tag_mask' = pow2[k + 1] - 1
      /\ \A t : Kept(t) <=> Low(t, k + 1)
  BY <1>1, <1>5, <1>6, KeptIs
<1>8. k + 1 \in 1 .. TagBits
  <2>1. PICK h \in Used : Low(hash_table[h].t, k + 1)
    BY <1>3, <1>4, <1>7
  <2>2. hash_table[h].t \in TagNumbers
    BY UsedFacts DEF HashInv
  <2>3. k + 1 <= TagBits
    BY <1>6, <2>1, <2>2, LowBound
  <2>. QED  BY <1>6, <2>3
<1>9. \A t \in Nat : Kept(t)' => Kept(t)
  <2>. SUFFICES ASSUME NEW t \in Nat, Kept(t)' PROVE Kept(t)
    OBVIOUS
  <2>1. pow2[(k + 1) + 1] = 2 * pow2[k + 1] /\ pow2[k + 1] \in Nat
    BY <1>6, Pow2Facts
  <2>2. increase_mask(minimum_tag_mask)' = pow2[(k + 1) + 1] - 1
    BY <1>7, <2>1 DEF increase_mask
  <2>3. Low(t, (k + 1) + 1)
    BY <2>2 DEF Kept, minimum_bitness, Has, Low
  <2>4. Low(t, k + 1)
    BY <1>6, <2>3, LowOneLess
  <2>. QED  BY <1>7, <2>4
<1>10. TypeInv'
  <2>1. 0 \in Buckets
    BY SizeFacts
  <2>. QED  BY <1>1, <1>2, <2>1 DEF HashInv, TypeInv
<1>11. MaskInv'
  BY <1>1, <1>5, <1>7, <1>8 DEF MaskInv
<1>12. CountInv'
  BY <1>1, <1>2 DEF HashInv, CountInv, hash_limit
<1>13. SweepClean'
  <2>1. \A h \in Used : ~(h < 0)
    BY SizeFacts, UsedFacts DEF HashInv
  <2>. QED  BY <1>1, <1>2, <2>1 DEF SweepClean
<1>14. PathInv'
  <2>. SUFFICES ASSUME NEW h \in Used, Kept(hash_table[h].t)'
                PROVE  Reached(hash_table[h].t, h)'
    BY <1>2 DEF PathInv
  <2>1. PICK t : t = hash_table[h].t /\ t = hash_table'[h].t /\ t \in Nat
    BY <1>1, UsedFacts DEF HashInv
  <2>2. Kept(t)
    BY <1>9, <2>1
  <2>3. Reached(t, h)
    BY <2>1, <2>2 DEF HashInv, PathInv
  <2>4. Reached(t, h)'
    BY <1>1, <1>2, <2>3 DEF Reached, Steps, Bucket, primary_hash, lesser_bitness, Has
  <2>. QED  BY <1>1, <2>1, <2>4
<1>15. FramesInv' /\ NowInv'
  <2>1. Last' = 0
    BY <1>1 DEF Last
  <2>. QED  BY <1>1, <2>1 DEF FramesInv, NowInv
<1>16. OnceInv'
  BY <1>1, <1>2 DEF HashInv, OnceInv
<1>. QED  BY <1>10, <1>11, <1>12, <1>13, <1>14, <1>15, <1>16 DEF HashInv

LEMMA NextKeeps ==
  ASSUME HashInv, [Next]_vars
  PROVE  HashInv'
<1>1. CASE UNCHANGED vars
  <2>1. Used' = Used /\ hash_limit' = hash_limit /\ Last' = Last
    BY <1>1 DEF vars, Used, empty_hash, hash_limit, Last
  <2>2. /\ \A x : Kept(x)' <=> Kept(x)
        /\ \A x, g : Reached(x, g)' <=> Reached(x, g)
    BY <1>1, SameFacts DEF vars
  <2>3. \A x : minimum_bitness(x)' <=> minimum_bitness(x)
    BY <2>2 DEF Kept
  <2>4. \A x, y : lesser_bitness(x, y)' <=> lesser_bitness(x, y)
    BY DEF lesser_bitness, Has
  <2>5. TypeInv' /\ MaskInv' /\ CountInv'
    BY <1>1, <2>1 DEF vars, HashInv, TypeInv, MaskInv, increase_mask, CountInv
  <2>6. SweepClean' /\ PathInv'
    BY <1>1, <2>1, <2>2, <2>3 DEF vars, HashInv, SweepClean, PathInv
  <2>7. FramesInv'
    BY <1>1, <2>1, <2>2, <2>4 DEF vars, HashInv, FramesInv, Calling
  <2>8. NowInv' /\ OnceInv'
    BY <1>1, <2>1, <2>2, <2>4 DEF vars, HashInv, NowInv, OnceInv
  <2>. QED  BY <2>5, <2>6, <2>7, <2>8 DEF HashInv
<1>2. CASE NextChunk
  BY <1>2, NextChunkKeeps
<1>3. CASE \E t \in Tags : HashSearch(t)
  BY <1>3, HashSearchKeeps
<1>4. CASE Calls
  <2>1. CASE InsertReturn
    <3>1. CASE frames = << >>
      BY <2>1, <3>1, ReturnToSearch
    <3>2. CASE frames # << >>
      BY <2>1, <3>2, ReturnToCaller
    <3>. QED  BY <3>1, <3>2
  <2>. QED  BY <1>4, <2>1, DisplaceKeeps, PlaceKeeps, CleanKeeps, SweepEndKeeps DEF Calls
<1>. QED  BY <1>1, <1>2, <1>3, <1>4 DEF Next

-----------------------------------------------------------------------------
(* For every table, all tags and all chunks, in the middle of insert_hash   *)
(* and of its recursion too: entries that the sweep keeps are behind no gap *)
(* and nothing worse, the callers' buckets hold what they displaced, and    *)
(* hash_count is right.                                                     *)
THEOREM HashInvariant == Spec => []HashInv
<1>1. Init => HashInv
  BY InitHolds
<1>2. HashInv /\ [Next]_vars => HashInv'
  BY NextKeeps
<1>. QED  BY <1>1, <1>2, PTL DEF Spec

(* So hash_count, by which hash_search decides to clean, is the number of   *)
(* entries, the table is never more than two thirds full between calls, and *)
(* clean_one_from_hash leaves nothing behind tag_clean_ptr that does not    *)
(* satisfy the better mask, whatever is inserted during a sweep.            *)
THEOREM SweepsAreSound == Spec => []SweepSound
<1>1. HashInv => SweepSound
  <2>. SUFFICES ASSUME HashInv PROVE SweepSound
    OBVIOUS
  <2>1. Cardinality(Used) \in Nat /\ hash_limit \in Nat
    BY CountFacts DEF HashInv
  <2>2. /\ hash_count = Cardinality(Used) + (IF pc = "insert" THEN 1 ELSE 0)
        /\ hash_count <= hash_limit + (IF pc = "loop" THEN 0 ELSE 1)
    BY DEF HashInv, CountInv
  <2>3. hash_count \in 0 .. hash_limit + 1
    BY <2>1, <2>2
  <2>4. HashCountExact
    BY <2>1, <2>2 DEF HashCountExact
  <2>5. {minimum_tag_mask, tag_mask} \subseteq {pow2[k] - 1 : k \in 0 .. TagBits + 1}
    <3>1. TagBits \in Nat
      BY HashAssumption
    <3>2. PICK k \in 1 .. TagBits : /\ minimum_tag_mask = pow2[k] - 1
                                    /\ tag_mask \in {pow2[j] - 1 : j \in 0 .. TagBits + 1}
      BY DEF HashInv, MaskInv
    <3>3. k \in 0 .. TagBits + 1
      BY <3>1
    <3>. QED  BY <3>2, <3>3
  <2>6. HashTypeOK
    BY <2>3, <2>5 DEF HashInv, TypeInv, HashTypeOK
  <2>. QED  BY <2>4, <2>6 DEF HashInv, SweepSound
<1>. QED  BY <1>1, HashInvariant, PTL

(* And find_best_match, which stops at the first empty bucket, comes to     *)
(* every entry that the sweep keeps; what insert_hash was given is in the   *)
(* table, and nothing is in it twice.                                       *)
THEOREM EntriesAreFindable == Spec => []EntriesFindable
<1>1. HashInv => EntriesFindable
  <2>. SUFFICES ASSUME HashInv PROVE EntriesFindable
    OBVIOUS
  <2>1. StoredOnce
    BY DEF HashInv, OnceInv, StoredOnce
  <2>2. Findable
    <3>. SUFFICES ASSUME NEW h \in Used, Kept(hash_table[h].t),
                         NEW i \in 0 .. Steps(hash_table[h].t, h)
                  PROVE  Bucket(hash_table[h].t, i) \in Used
      BY DEF Findable, Kept, Steps, Bucket
    <3>1. PICK t \in Nat : t = hash_table[h].t
      BY UsedFacts DEF HashInv
    <3>2. h \in Buckets
      BY UsedFacts DEF HashInv
    <3>3. Steps(t, h) \in Nat /\ Bucket(t, Steps(t, h)) = h
      <4>1. Steps(t, h) \in Buckets /\ Bucket(t, Steps(t, h)) = h
        BY <3>2, BucketFacts, Zenon
      <4>. QED  BY <4>1, SizeFacts
    <3>4. Reached(t, h)
      BY <3>1 DEF HashInv, PathInv
    <3>5. CASE i = Steps(t, h)
      BY <3>1, <3>3, <3>5
    <3>6. CASE i # Steps(t, h)
      <4>1. i \in 0 .. Steps(t, h) - 1
        BY <3>1, <3>3, <3>6
      <4>. QED  BY <3>1, <3>4, <4>1 DEF Reached
    <3>. QED  BY <3>5, <3>6
  <2>. QED  BY <2>1, <2>2 DEF EntriesFindable
<1>. QED  BY <1>1, HashInvariant, PTL
=============================================================================
