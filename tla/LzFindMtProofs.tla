---------------------------- MODULE LzFindMtProofs ----------------------------
(* Proofs about the threads of the match finder, for every number and size of  *)
(* the blocks and for all inputs: the protocol of the two CMtSync never loses  *)
(* a message and never deletes what is in use, the blocks are handed on in     *)
(* order, and the window stays where the threads that read it expect it.       *)
EXTENDS LzFindMt, WellFoundedInduction, TLAPS

(*--------------------------- recursive functions ---------------------------*)

(* A set of naturals that is not empty has a least one. *)
LEMMA LeastNat ==
  ASSUME NEW T \in SUBSET Nat, T # {}
  PROVE  \E n \in T : \A k \in T : n <= k
<1>. DEFINE R == OpToRel(<, Nat)
<1>1. IsWellFoundedOn(R, Nat)
  BY NatLessThanWellFounded
<1>2. \A x, y \in Nat : x < y => <<x, y>> \in R
  BY DEF OpToRel
<1>. HIDE DEF R
<1>3. PICK n \in T : \A k \in T : ~(<<k, n>> \in R)
  BY <1>1, WFMin
<1>4. ASSUME NEW k \in T PROVE n <= k
  <2>1. k \in Nat /\ n \in Nat /\ ~(k < n)
    BY <1>2, <1>3
  <2>. QED  BY <2>1
<1>. QED  BY <1>4

(* A set with 0 and the successor of each of its numbers has them all. *)
LEMMA SetInduction ==
  ASSUME NEW S, 0 \in S, \A n \in Nat : n \in S => n + 1 \in S
  PROVE  Nat \subseteq S
<1>. SUFFICES ASSUME Nat \ S # {} PROVE FALSE
  OBVIOUS
<1>1. PICK n \in Nat \ S : \A k \in Nat \ S : n <= k
  BY LeastNat
<1>2. n # 0 /\ n - 1 \in Nat /\ n - 1 \notin Nat \ S
  BY <1>1
<1>3. (n - 1) + 1 \in S
  BY <1>2
<1>. QED  BY <1>1, <1>3

(* f goes from v to next[v] until it comes to a v in stop. *)
Follows(D, stop, val, next, f) ==
  f = [v \in D |-> IF v \in stop THEN val[v] ELSE f[next[v]]]

(* There is such an f if every step comes nearer to an end. *)
LEMMA RecursionDefined ==
  ASSUME NEW D, NEW mu \in [D -> Nat], NEW stop, NEW val, NEW next,
         NEW n \in Nat, \A v \in D : mu[v] < n,
         \A v \in D : v \notin stop => next[v] \in D /\ mu[next[v]] < mu[v]
  PROVE  \E f : Follows(D, stop, val, next, f)
<1>. DEFINE Near(k) == {v \in D : mu[v] < k}
            Good(k) == \E f : Follows(Near(k), stop, val, next, f)
            G == {k \in Nat : Good(k)}
<1>1. Good(0)
  <2>1. Near(0) = {}
    OBVIOUS
  <2>. DEFINE f == [v \in {} |-> v]
  <2>2. f = [v \in {} |-> IF v \in stop THEN val[v] ELSE f[next[v]]]
    OBVIOUS
  <2>. HIDE DEF f
  <2>. QED  BY <2>1, <2>2 DEF Follows
<1>2. ASSUME NEW k \in Nat, Good(k) PROVE Good(k + 1)
  <2>1. PICK f : Follows(Near(k), stop, val, next, f)
    BY <1>2
  <2>. DEFINE g == [v \in Near(k + 1) |-> IF v \in stop THEN val[v] ELSE f[next[v]]]
  <2>2. ASSUME NEW v \in Near(k + 1), v \notin stop
        PROVE  next[v] \in Near(k) /\ next[v] \in Near(k + 1)
    <3>1. PICK x \in Nat, y \in Nat : x = mu[v] /\ y = mu[next[v]]
      BY <2>2
    <3>. QED  BY <2>2, <3>1
  <2>3. ASSUME NEW v \in Near(k), v \in Near(k + 1) PROVE g[v] = f[v]
    BY <2>1, <2>3 DEF Follows
  <2>. HIDE DEF Near
  <2>4. g = [v \in Near(k + 1) |-> IF v \in stop THEN val[v] ELSE g[next[v]]]
    BY <2>2, <2>3
  <2>. HIDE DEF g
  <2>. QED  BY <2>4 DEF Follows
<1>3. Nat \subseteq G
  <2>1. 0 \in G /\ \A k \in Nat : k \in G => k + 1 \in G
    <3>. HIDE DEF Good
    <3>. QED  BY <1>1, <1>2
  <2>. HIDE DEF G
  <2>. QED  BY <2>1, SetInduction
<1>4. Near(n) = D
  OBVIOUS
<1>. HIDE DEF Near
<1>5. n \in G
  BY <1>3
<1>. QED  BY <1>4, <1>5

(* What holds where f stops, and before a step if it holds after it, holds of  *)
(* what f finds. *)
LEMMA RecursionSound ==
  ASSUME NEW D, NEW mu \in [D -> Nat], NEW stop, NEW val, NEW next,
         \A v \in D : v \notin stop => next[v] \in D /\ mu[next[v]] < mu[v],
         NEW f, Follows(D, stop, val, next, f),
         NEW R,
         \A v \in D : v \in stop => <<v, val[v]>> \in R,
         \A v \in D : \A r : v \notin stop /\ <<next[v], r>> \in R => <<v, r>> \in R
  PROVE  \A v \in D : <<v, f[v]>> \in R
<1>. DEFINE G == {k \in Nat : \A v \in D : mu[v] < k => <<v, f[v]>> \in R}
<1>1. 0 \in G
  OBVIOUS
<1>2. ASSUME NEW k \in Nat, k \in G PROVE k + 1 \in G
  <2>. SUFFICES ASSUME NEW v \in D, mu[v] < k + 1 PROVE <<v, f[v]>> \in R
    OBVIOUS
  <2>1. CASE v \in stop
    <3>1. f[v] = val[v]
      BY <2>1 DEF Follows
    <3>. QED  BY <2>1, <3>1
  <2>2. CASE v \notin stop
    <3>1. f[v] = f[next[v]] /\ next[v] \in D
      BY <2>2 DEF Follows
    <3>2. mu[next[v]] < k
      <4>1. PICK x \in Nat, y \in Nat : x = mu[v] /\ y = mu[next[v]]
        BY <3>1
      <4>. QED  BY <2>2, <4>1
    <3>3. <<next[v], f[next[v]]>> \in R
      BY <1>2, <3>1, <3>2
    <3>. QED  BY <2>2, <3>1, <3>3
  <2>. QED  BY <2>1, <2>2
<1>3. Nat \subseteq G
  <2>. HIDE DEF G
  <2>. QED  BY <1>1, <1>2, SetInduction
<1>4. ASSUME NEW v \in D PROVE <<v, f[v]>> \in R
  <2>1. mu[v] + 1 \in G /\ mu[v] < mu[v] + 1
    BY <1>3
  <2>. QED  BY <2>1
<1>. QED  BY <1>4
(*-------------------------------- the window --------------------------------*)

(* Min and Max of two or three numbers. *)
LEMMA MinFacts ==
  ASSUME NEW S \in SUBSET Int, NEW x \in S, \A y \in S : x <= y
  PROVE  Min(S) = x
<1>1. Min(S) \in S /\ \A y \in S : Min(S) <= y
  BY DEF Min
<1>. HIDE DEF Min
<1>2. Min(S) <= x /\ x <= Min(S) /\ Min(S) \in Int
  BY <1>1
<1>. QED  BY <1>2

LEMMA MinTwo ==
  ASSUME NEW a \in Int, NEW b \in Int
  PROVE  Min({a, b}) = IF a <= b THEN a ELSE b
<1>1. CASE a <= b
  BY <1>1, MinFacts
<1>2. CASE ~(a <= b)
  BY <1>2, MinFacts
<1>. QED  BY <1>1, <1>2

(* The sum of the bytes available for a block is true or stops at the limit.   *)
LEMMA AvailSumIs ==
  ASSUME NEW x \in Nat, NEW y \in Nat
  PROVE  /\ AvailSum(x, y) \in Nat /\ AvailSum(x, y) <= x + y
         /\ AvailSum(x, y) = x + y \/ AvailSum(x, y) = MaxAvail
         /\ x + y <= MaxAvail => AvailSum(x, y) = x + y
<1>1. x + y \in Int /\ MaxAvail \in Int /\ MaxAvail >= 0
  BY WindowAssumption
<1>2. AvailSum(x, y) = IF x + y <= MaxAvail THEN x + y ELSE MaxAvail
  BY <1>1, MinTwo DEF AvailSum
<1>. QED  BY <1>1, <1>2

LEMMA MinThree ==
  ASSUME NEW a \in Int, NEW b \in Int, NEW c \in Int
  PROVE  /\ Min({a, b, c}) \in {a, b, c}
         /\ Min({a, b, c}) <= a /\ Min({a, b, c}) <= b /\ Min({a, b, c}) <= c
<1>1. PICK x \in {a, b, c} : x <= a /\ x <= b /\ x <= c
  OBVIOUS
<1>2. Min({a, b, c}) = x
  BY <1>1, MinFacts
<1>. QED  BY <1>1, <1>2

LEMMA MaxTwo ==
  ASSUME NEW a \in Int, NEW b \in Int
  PROVE  Max({a, b}) = IF a >= b THEN a ELSE b
<1>. DEFINE S == {a, b}
<1>1. \E x \in S : \A y \in S : x >= y
  OBVIOUS
<1>2. Max(S) \in S /\ \A y \in S : Max(S) >= y
  BY <1>1 DEF Max
<1>. HIDE DEF Max
<1>. QED  BY <1>2

WindowRec ==
  [direct : BOOLEAN, len : Nat, keepBefore : Nat, keepAfter : Nat, blockSize : Nat,
   origin : Nat, buffer : Nat, read : Nat, ended : BOOLEAN]

(* The current position is inside of what was read, which fits in the buffer.  *)
WindowSound(w) ==
  /\ w \in WindowRec
  /\ At(w) <= w.read /\ w.read <= w.len
  /\ w.direct = TRUE => Avail(w) <= MaxAvail
  /\ w.direct = FALSE => w.read <= w.origin + w.blockSize
  /\ w.ended = TRUE => w.read = w.len

(* What MatchFinder_ReadBlock leaves of v, when the buffer ends at cap and so  *)
(* many bytes are wanted that enough is reached. *)
ReadTo(len, cap, enough, v, r) ==
  /\ r.read \in Nat /\ r.ended \in BOOLEAN
  /\ v.read <= r.read /\ r.read <= len /\ r.read <= cap
  /\ r.ended = TRUE => r.read = len
  /\ r.ended = TRUE \/ r.read > enough \/ r.read = cap

IsLoop(w, piece, f) ==
  f = [v \in [read : w.read..w.len, ended : BOOLEAN] |-> ReadRound(w, piece, f, v)]

(* The loop ends, with as much as was wanted, the buffer full or the stream at *)
(* its end. *)
LEMMA ReadLoopFacts ==
  ASSUME NEW w, NEW from \in Nat, NEW len \in Nat, NEW cap \in Nat, NEW at \in Nat,
         NEW keep \in Nat, NEW piece \in Nat \ {0}, from <= len, from <= cap,
         w.read = from, w.len = len, w.keepAfter = keep, At(w) = at,
         w.origin \in Nat, w.blockSize \in Nat, w.origin + w.blockSize = cap
  PROVE  ReadTo(len, cap, at + keep, [read |-> from, ended |-> FALSE],
                ReadLoop(w, piece))
<1>. DEFINE D == [read : from..len, ended : BOOLEAN]
            n(v) == Min({cap - v.read, piece, len - v.read})
            more(v) == [v EXCEPT !.read = @ + n(v)]
            stop == {v \in D : cap - v.read = 0 \/ n(v) = 0 \/ v.read + n(v) - at > keep}
            val == [v \in D |-> IF cap - v.read = 0 THEN v
                                ELSE IF n(v) = 0 THEN [v EXCEPT !.ended = TRUE]
                                ELSE more(v)]
            next == [v \in D |-> more(v)]
            mu == [v \in D |-> IF v.read <= cap THEN cap - v.read ELSE 1]
<1>1. ASSUME NEW v \in D
      PROVE  /\ v.read \in from .. len /\ v.read \in Nat
             /\ n(v) \in Int /\ n(v) <= cap - v.read /\ n(v) <= piece /\ n(v) <= len - v.read
             /\ n(v) = cap - v.read \/ n(v) = piece \/ n(v) = len - v.read
             /\ mu[v] \in Nat /\ mu[v] < cap + 2
  <2>1. v.read \in from .. len /\ v.read \in Nat
    OBVIOUS
  <2>2. cap - v.read \in Int /\ len - v.read \in Int /\ piece \in Int
    BY <2>1
  <2>3. /\ n(v) \in {cap - v.read, piece, len - v.read}
        /\ n(v) <= cap - v.read /\ n(v) <= piece /\ n(v) <= len - v.read
    BY <2>2, MinThree
  <2>. HIDE DEF n
  <2>. QED  BY <2>1, <2>2, <2>3
<1>. HIDE DEF n
<1>2. ASSUME NEW v \in D, v \notin stop
      PROVE  next[v] \in D /\ mu[next[v]] < mu[v]
  <2>1. next[v] = [v EXCEPT !.read = v.read + n(v)] /\ n(v) # 0 /\ cap - v.read # 0
    BY <1>2
  <2>2. v.read + n(v) \in from .. len
    BY <1>1, <2>1
  <2>3. next[v] \in D /\ next[v].read = v.read + n(v)
    BY <2>1, <2>2
  <2>. HIDE DEF D
  <2>. QED  BY <1>1, <2>1, <2>2, <2>3
<1>3. ASSUME NEW f, NEW v \in D
      PROVE  ReadRound(w, piece, f, v)
               = IF v \in stop THEN val[v] ELSE f[next[v]]
  <2>. DEFINE m == Min({cap - v.read, piece, len - v.read})
  <2>1. n(v) = m
    BY DEF n
  <2>2. v \in stop <=> cap - v.read = 0 \/ m = 0 \/ v.read + m - at > keep
    BY <2>1
  <2>3. /\ next[v] = [v EXCEPT !.read = @ + m]
        /\ val[v] = IF cap - v.read = 0 THEN v
                    ELSE IF m = 0 THEN [v EXCEPT !.ended = TRUE]
                    ELSE [v EXCEPT !.read = @ + m]
    BY <2>1
  <2>4. Min({w.origin + w.blockSize - v.read, piece, w.len - v.read}) = m
    <3>1. w.origin + w.blockSize - v.read = cap - v.read /\ w.len - v.read = len - v.read
      OBVIOUS
    <3>. QED  BY <3>1, Zenon
  <2>. HIDE DEF m, stop, val, next, D
  <2>5. CASE cap - v.read = 0
    BY <1>1, <2>4, <2>2, <2>3, <2>5 DEF ReadRound
  <2>6. CASE cap - v.read # 0 /\ m = 0
    BY <1>1, <2>4, <2>2, <2>3, <2>6 DEF ReadRound
  <2>7. CASE cap - v.read # 0 /\ m # 0
    BY <1>1, <2>4, <2>2, <2>3, <2>7 DEF ReadRound
  <2>. QED  BY <2>5, <2>6, <2>7
<1>4. \A f : IsLoop(w, piece, f) <=> Follows(D, stop, val, next, f)
  <2>. TAKE f
  <2>1. \A v \in D : ReadRound(w, piece, f, v)
                       = IF v \in stop THEN val[v] ELSE f[next[v]]
    BY <1>3
  <2>2. D = [read : w.read..w.len, ended : BOOLEAN]
    OBVIOUS
  <2>. HIDE DEF D, stop, val, next
  <2>. QED  BY <2>1, <2>2 DEF Follows, IsLoop
<1>5. \E f : Follows(D, stop, val, next, f)
  <2>1. mu \in [D -> Nat] /\ cap + 2 \in Nat /\ \A v \in D : mu[v] < cap + 2
    BY <1>1
  <2>. HIDE DEF D, mu, stop, val, next
  <2>. QED  BY <1>2, <2>1, RecursionDefined
<1>. DEFINE Fit == {v \in D : v.read <= cap /\ v.ended = FALSE}
            R == {x \in D \X D : x[1] \in Fit => ReadTo(len, cap, at + keep, x[1], x[2])}
<1>6. ASSUME NEW v \in D, v \in stop PROVE <<v, val[v]>> \in R
  <2>1. CASE cap - v.read = 0
    <3>1. val[v] = v
      BY <2>1
    <3>. HIDE DEF stop, val
    <3>. QED  BY <1>1, <2>1, <3>1 DEF ReadTo
  <2>2. CASE cap - v.read # 0 /\ n(v) = 0
    <3>1. val[v] = [v EXCEPT !.ended = TRUE]
      BY <2>2
    <3>2. val[v] \in D /\ val[v].read = v.read /\ val[v].ended = TRUE
      BY <3>1
    <3>3. v \in Fit => v.read = len
      BY <1>1, <2>2
    <3>. HIDE DEF stop, val
    <3>. QED  BY <1>1, <3>2, <3>3 DEF ReadTo
  <2>3. CASE cap - v.read # 0 /\ n(v) # 0
    <3>1. val[v] = [v EXCEPT !.read = v.read + n(v)] /\ v.read + n(v) - at > keep
      BY <1>6, <2>3
    <3>2. v.read + n(v) \in Int /\ v.read + n(v) <= len /\ v.read + n(v) <= cap
          /\ v.read + n(v) > at + keep
      BY <1>1, <3>1
    <3>3. v \in Fit => n(v) >= 0
      BY <1>1
    <3>4. v.read + n(v) \in from .. len
      BY <1>1, <3>2, <2>3
    <3>5. v \in Fit => v.read + n(v) >= v.read
      BY <1>1, <3>3
    <3>6. /\ val[v] \in D /\ val[v].read = v.read + n(v) /\ val[v].ended = v.ended
      BY <3>1, <3>4
    <3>. HIDE DEF stop, val
    <3>. QED  BY <1>1, <3>2, <3>5, <3>6 DEF ReadTo
  <2>. QED  BY <2>1, <2>2, <2>3
<1>7. ASSUME NEW v \in D, NEW r, v \notin stop, <<next[v], r>> \in R
      PROVE  <<v, r>> \in R
  <2>1. next[v] = [v EXCEPT !.read = v.read + n(v)] /\ n(v) # 0 /\ cap - v.read # 0
    BY <1>7
  <2>2. v.read + n(v) \in from .. len
    BY <1>1, <2>1
  <2>3. next[v] \in D /\ next[v].read = v.read + n(v) /\ next[v].ended = v.ended
    BY <2>1, <2>2
  <2>4. v \in Fit => next[v] \in Fit /\ v.read <= next[v].read
    BY <1>1, <2>1, <2>3
  <2>5. r \in D /\ (next[v] \in Fit => ReadTo(len, cap, at + keep, next[v], r))
    BY <1>7
  <2>6. r.read \in Nat /\ v.read \in Nat /\ next[v].read \in Nat
    BY <1>1, <2>3, <2>5
  <2>. HIDE DEF D, Fit, next
  <2>. QED  BY <2>4, <2>5, <2>6 DEF ReadTo
<1>8. ASSUME NEW f, IsLoop(w, piece, f)
      PROVE  ReadTo(len, cap, at + keep, [read |-> from, ended |-> FALSE],
                    f[[read |-> from, ended |-> FALSE]])
  <2>1. Follows(D, stop, val, next, f)
    BY <1>4, <1>8
  <2>2. mu \in [D -> Nat]
    BY <1>1
  <2>3. \A v \in D : <<v, f[v]>> \in R
    <3>. HIDE DEF D, mu, stop, val, next, R
    <3>. QED  BY <1>2, <1>6, <1>7, <2>1, <2>2, RecursionSound
  <2>4. [read |-> from, ended |-> FALSE] \in Fit
    OBVIOUS
  <2>. QED  BY <2>3, <2>4
<1>9. \E f : IsLoop(w, piece, f)
  <2>. HIDE DEF D, stop, val, next
  <2>. QED  BY <1>4, <1>5
<1>10. PICK f : IsLoop(w, piece, f) /\ ReadLoop(w, piece) = f[[read |-> from, ended |-> FALSE]]
  <2>. HIDE DEF D, stop, val, next
  <2>. DEFINE f == CHOOSE f : f = [v \in [read : w.read..w.len, ended : BOOLEAN] |->
                                     ReadRound(w, piece, f, v)]
  <2>1. \E g : g = [v \in [read : w.read..w.len, ended : BOOLEAN] |->
                     ReadRound(w, piece, g, v)]
    BY <1>9 DEF IsLoop
  <2>2. f = [v \in [read : w.read..w.len, ended : BOOLEAN] |-> ReadRound(w, piece, f, v)]
    BY <2>1
  <2>3. ReadLoop(w, piece) = f[[read |-> w.read, ended |-> FALSE]]
    BY DEF ReadLoop
  <2>. HIDE DEF f
  <2>. QED  BY <2>2, <2>3 DEF IsLoop
<1>. QED  BY <1>8, <1>10

(* What MatchFinder_ReadIfRequired makes of w. *)
ReadKeeps(w, x) ==
  /\ WindowSound(x) /\ x.read >= w.read
  /\ x.direct = w.direct /\ x.len = w.len /\ x.keepBefore = w.keepBefore
  /\ x.keepAfter = w.keepAfter /\ x.blockSize = w.blockSize
  /\ x.origin = w.origin /\ x.buffer = w.buffer
  /\ w.ended = TRUE => x = w
  /\ \/ x.ended = TRUE \/ Avail(x) > x.keepAfter
     \/ x.direct = TRUE /\ Avail(x) = MaxAvail

(* MatchFinder_ReadIfRequired: more is read into a sound window, or all of it. *)
LEMMA ReadFacts ==
  ASSUME NEW w, WindowSound(w), NEW piece \in Nat, w.direct = TRUE \/ piece > 0,
         w.blockSize - w.buffer > w.keepAfter \/ w.direct = TRUE \/ w.ended = TRUE,
         NEW x, x = MatchFinder_ReadIfRequired(w, piece)
  PROVE  ReadKeeps(w, x)
<1>. DEFINE at == w.origin + w.buffer
<1>. USE DEF ReadKeeps
<1>1. /\ w \in WindowRec /\ at \in Nat /\ At(w) = at /\ at <= w.read /\ w.read <= w.len
      /\ w.read \in Nat /\ w.len \in Nat /\ w.keepAfter \in Nat /\ Avail(w) = w.read - at
      /\ w.ended \in BOOLEAN /\ w.direct \in BOOLEAN /\ w.blockSize \in Nat
      /\ w.origin \in Nat /\ w.buffer \in Nat /\ MaxAvail \in Nat
  BY WindowAssumption DEF WindowSound, WindowRec, At, Avail
<1>2. CASE w.ended = TRUE \/ ~(w.keepAfter >= Avail(w))
  <2>1. x = w
    BY <1>2 DEF MatchFinder_ReadIfRequired, MatchFinder_ReadBlock
  <2>. QED  BY <1>1, <1>2, <2>1
<1>3. CASE w.ended = FALSE /\ w.keepAfter >= Avail(w) /\ w.direct = TRUE
  <2>. DEFINE n == Min({MaxAvail - Avail(w), w.len - w.read})
  <2>1. /\ n = MaxAvail - Avail(w) \/ n = w.len - w.read
        /\ n \in Nat /\ n <= MaxAvail - Avail(w) /\ n <= w.len - w.read
    <3>1. /\ MaxAvail - Avail(w) \in Nat /\ w.len - w.read \in Nat
      BY <1>1, <1>3 DEF WindowSound
    <3>. QED  BY <3>1, MinTwo
  <2>2. x = [w EXCEPT !.read = w.read + n, !.ended = (w.read + n = w.len)]
    BY <1>3 DEF MatchFinder_ReadIfRequired, MatchFinder_ReadBlock
  <2>. HIDE DEF n
  <2>3. PICK e \in BOOLEAN : e = (w.read + n = w.len)
    OBVIOUS
  <2>4. w.read + n = w.len <=> e = TRUE
    BY <2>3
  <2>5. x = [w EXCEPT !.read = w.read + n, !.ended = e]
    BY <2>3, <2>2
  <2>6. w.read + n \in Nat /\ w.read + n <= w.len /\ w.read + n - at <= MaxAvail
    BY <1>1, <2>1
  <2>7. /\ x \in WindowRec /\ x.read = w.read + n /\ At(x) = at
        /\ e = TRUE => x.read = w.len
    BY <1>1, <2>4, <2>5, <2>6 DEF WindowRec, At
  <2>8. e = TRUE \/ x.read - at = MaxAvail
    <3>1. n = w.len - w.read => w.read + n = w.len
      BY <1>1, <2>1
    <3>2. n = MaxAvail - Avail(w) => w.read + n - at = MaxAvail
      BY <1>1, <2>1
    <3>3. x.read - at = w.read + n - at
      BY <1>1, <2>1, <2>7
    <3>4. CASE n = MaxAvail - Avail(w)
      BY <3>2, <3>3, <3>4
    <3>5. CASE n = w.len - w.read
      BY <2>4, <3>1, <3>5
    <3>. QED  BY <2>1, <3>4, <3>5
  <2>. QED  BY <1>1, <1>3, <2>1, <2>5, <2>6, <2>7, <2>8 DEF WindowSound, WindowRec, At, Avail
<1>4. CASE w.ended = FALSE /\ w.keepAfter >= Avail(w) /\ w.direct = FALSE
  <2>. DEFINE cap == w.origin + w.blockSize
  <2>1. PICK e : e = ReadLoop(w, piece)
    OBVIOUS
  <2>2. x = [w EXCEPT !.read = e.read, !.ended = e.ended]
    BY <1>4, <2>1 DEF MatchFinder_ReadIfRequired, MatchFinder_ReadBlock
  <2>3. cap \in Nat /\ w.read <= cap /\ piece \in Nat \ {0}
    BY <1>1, <1>4 DEF WindowSound
  <2>4. ReadTo(w.len, cap, at + w.keepAfter, [read |-> w.read, ended |-> FALSE], e)
    BY <1>1, <2>1, <2>3, ReadLoopFacts
  <2>5. /\ e.read \in Nat /\ e.ended \in BOOLEAN /\ w.read <= e.read /\ e.read <= w.len
        /\ e.read <= cap /\ (e.ended = TRUE => e.read = w.len)
        /\ e.ended = TRUE \/ e.read > at + w.keepAfter \/ e.read = cap
    BY <2>4 DEF ReadTo
  <2>6. e.read = cap => e.read - at > w.keepAfter
    BY <1>1, <1>4
  <2>. HIDE DEF cap
  <2>7. x \in WindowRec /\ x.read = e.read /\ x.ended = e.ended /\ At(x) = at
    BY <1>1, <2>2, <2>5 DEF WindowRec, At
  <2>8. WindowSound(x)
    BY <1>1, <1>4, <2>2, <2>5, <2>7 DEF WindowSound, WindowRec, At, cap
  <2>9. x.ended = TRUE \/ Avail(x) > x.keepAfter
    BY <1>1, <1>4, <2>2, <2>5, <2>6, <2>7 DEF Avail, WindowRec
  <2>. QED  BY <1>1, <1>4, <2>2, <2>5, <2>7, <2>8, <2>9 DEF WindowRec
<1>. QED  BY <1>1, <1>2, <1>3, <1>4
(* What MatchFinder_MoveBlock makes of w. *)
MoveKeeps(w, x) ==
  /\ WindowSound(x)
  /\ x.direct = w.direct /\ x.len = w.len /\ x.keepBefore = w.keepBefore
  /\ x.keepAfter = w.keepAfter /\ x.blockSize = w.blockSize
  /\ x.read = w.read /\ x.ended = w.ended
  /\ x.origin + x.buffer = w.origin + w.buffer
  /\ w.origin <= x.origin /\ x.origin <= At(w) - w.keepBefore

(* MatchFinder_MoveBlock: the bytes move down, and with them the position. *)
LEMMA MoveFacts ==
  ASSUME NEW w, WindowSound(w), MatchFinder_NeedMove(w),
         w.blockSize = GetBlockSize(w.keepBefore, w.keepAfter),
         NEW x, x = MatchFinder_MoveBlock(w)
  PROVE  MoveKeeps(w, x)
<1>. USE DEF MoveKeeps
<1>1. /\ w.direct \in BOOLEAN /\ w.direct = FALSE /\ w.ended \in BOOLEAN
      /\ w.blockSize - w.buffer <= w.keepAfter
      /\ w \in WindowRec /\ w.blockSize \in Nat /\ w.buffer \in Nat /\ w.keepAfter \in Nat
      /\ w.keepBefore \in Nat /\ w.origin \in Nat /\ w.read \in Nat /\ w.len \in Nat
      /\ w.blockSize = w.keepBefore + w.keepAfter + kReserve
      /\ w.origin + w.buffer <= w.read /\ w.read <= w.len
      /\ w.read <= w.origin + w.blockSize /\ (w.ended = TRUE => w.read = w.len)
      /\ kReserve \in Nat /\ kBlockMoveAlign \in Nat \ {0}
  BY WindowAssumption DEF WindowSound, WindowRec, MatchFinder_NeedMove, GetBlockSize, At
<1>2. PICK offset \in Nat : offset = w.buffer - w.keepBefore
  BY <1>1
<1>3. PICK rest \in Nat : rest = offset % kBlockMoveAlign /\ rest <= offset
  <2>1. PICK a \in Nat \ {0} : a = kBlockMoveAlign
    BY <1>1
  <2>2. offset % a \in Nat /\ offset % a <= offset
    OBVIOUS
  <2>. QED  BY <2>1, <2>2
<1>4. x = [w EXCEPT !.buffer = rest + w.keepBefore, !.origin = w.origin + (offset - rest)]
  BY <1>2, <1>3 DEF MatchFinder_MoveBlock
<1>5. /\ rest + w.keepBefore \in Nat /\ w.origin + (offset - rest) \in Nat
      /\ w.origin + (offset - rest) + (rest + w.keepBefore) = w.origin + w.buffer
      /\ w.origin <= w.origin + (offset - rest)
      /\ w.origin + (offset - rest) <= w.origin + w.buffer - w.keepBefore
  BY <1>1, <1>2, <1>3
<1>6. /\ x \in WindowRec /\ x.buffer = rest + w.keepBefore
      /\ x.origin = w.origin + (offset - rest)
      /\ x.direct = w.direct /\ x.len = w.len /\ x.keepBefore = w.keepBefore
      /\ x.keepAfter = w.keepAfter /\ x.blockSize = w.blockSize
      /\ x.read = w.read /\ x.ended = w.ended
  BY <1>1, <1>4, <1>5 DEF WindowRec
<1>7. /\ x.origin + x.buffer = w.origin + w.buffer /\ w.origin <= x.origin
      /\ x.origin <= w.origin + w.buffer - w.keepBefore
      /\ x.origin \in Nat /\ x.buffer \in Nat
  BY <1>5, <1>6
<1>8. x.read <= x.origin + x.blockSize
  BY <1>1, <1>6, <1>7
<1>. QED  BY <1>1, <1>6, <1>7, <1>8 DEF WindowSound, At, Avail

(* What the window keeps as long as a stream is encoded. *)
Before == HistorySize + (kNumOpts + kMtHashBlockSize * kMtHashNumBlocks
                                  + kMtBtBlockSize * kMtBtNumBlocks) + 1

WindowFor(w, c) ==
  /\ WindowSound(w)
  /\ w.len = c.len /\ w.direct = c.direct /\ w.keepBefore = Before
  /\ w.keepAfter >= NumHashBytes
  /\ w.direct = FALSE => w.blockSize = GetBlockSize(w.keepBefore, w.keepAfter)

(* The numbers of the configuration. *)
LEMMA Numbers ==
  /\ HistorySize \in Nat /\ MatchMaxLen \in Nat /\ NumHashBytes \in Nat /\ kNumOpts \in Nat
  /\ kMtHashBlockSize \in Nat /\ kMtBtBlockSize \in Nat
  /\ kMtHashNumBlocks \in Nat \ {0} /\ kMtBtNumBlocks \in Nat \ {0}
  /\ Before \in Nat
<1>1. /\ HistorySize \in Nat /\ MatchMaxLen \in Nat /\ NumHashBytes \in Nat /\ kNumOpts \in Nat
      /\ kMtHashBlockSize \in Nat /\ kMtBtBlockSize \in Nat
      /\ kMtHashNumBlocks \in Nat \ {0} /\ kMtBtNumBlocks \in Nat \ {0}
  BY MtAssumption
<1>2. kMtHashBlockSize * kMtHashNumBlocks \in Nat /\ kMtBtBlockSize * kMtBtNumBlocks \in Nat
  BY <1>1
<1>. QED  BY <1>1, <1>2 DEF Before

(* MatchFinder_Create leaves such a window, at the beginning of the stream. *)
LEMMA NewWindowFacts ==
  ASSUME NEW c \in Confs, NEW w, w = NewWindow(c)
  PROVE  WindowFor(w, c) /\ w.origin = 0 /\ w.buffer = 0 /\ w.read = 0 /\ w.ended = FALSE
<1>1. /\ c.direct \in BOOLEAN /\ c.len \in Nat
  BY ConfsAssumption
<1>2. PICK after \in Nat : /\ after = Max({kMtHashBlockSize + MatchMaxLen, NumHashBytes})
                           /\ after >= NumHashBytes
  BY Numbers, MaxTwo
<1>3. w = [direct |-> c.direct, len |-> c.len, keepBefore |-> Before, keepAfter |-> after,
           blockSize |-> IF c.direct THEN 0 ELSE GetBlockSize(Before, after),
           origin |-> 0, buffer |-> 0, read |-> 0, ended |-> FALSE]
  BY <1>2 DEF NewWindow, MatchFinder_Create, Before
<1>4. GetBlockSize(Before, after) \in Nat
  BY Numbers, WindowAssumption DEF GetBlockSize
<1>. HIDE DEF Before
<1>. QED  BY <1>1, <1>2, <1>3, <1>4, Numbers, WindowAssumption
          DEF WindowFor, WindowSound, WindowRec, At, Avail

(*------------------------- the invariant of the threads ---------------------*)

(* Where a thread is in MtSync_GetNextBlock or MtSync_StopWriting, and where   *)
(* each of them may be. *)
Calls == {"next", "release", "wait0", "wait", "lock0", "lock",
          "stop", "stop2", "stop3", "stopped"}

LzPlaces == Calls \cup {"create", "create2", "init", "run", "have",
                        "destruct", "join", "destruct2", "join2", "done"}

BtPlaces == Calls \cup {"none", "start", "dead", "loop", "fill", "get", "match",
                        "unlock", "post"}

HashPlaces == {"none", "start", "dead", "loop", "cs", "move", "fill", "post", "set"}

Threads == {"lz", "bt", "hash"}

SyncRec ==
  [created : BOOLEAN, needStart : BOOLEAN, canStart : BOOLEAN, wasStopped : BOOLEAN,
   free : Nat, filled : Nat, cs : {"none", "lz", "bt", "hash"}, entered : BOOLEAN,
   stopWriting : BOOLEAN, exit : BOOLEAN, num : Nat, refused : BOOLEAN]

HashSlots == 0 .. kMtHashNumBlocks - 1
BtSlots == 0 .. kMtBtNumBlocks - 1

BtRec ==
  [bi : Nat, pos : Nat, ptr : Int, cur : Int, slot : HashSlots, hpos : Int, hlim : Int,
   hnum : Int, from : Nat, used : Nat, done : Nat, avail : Int, failed : BOOLEAN]

LzRec ==
  [slot : BtSlots, k : Nat, lim : Int, avail : Int, pos : Nat, ptr : Int, data : Int,
   item : Int, failed : BOOLEAN, result : {"none", "ok", "error"}]

SyncTypes ==
  /\ sync \in [Objects -> SyncRec]
  /\ pc \in [Threads -> LzPlaces \cup BtPlaces \cup HashPlaces]
  /\ pc["lz"] \in LzPlaces /\ pc["bt"] \in BtPlaces /\ pc["hash"] \in HashPlaces

DataTypes ==
  /\ conf \in Confs /\ left \in Int
  /\ H \in Nat /\ B \in BtRec /\ L \in LzRec
  /\ hashBuf \in [HashSlots -> [from : Nat, n : Nat, avail : Nat]]
  /\ btBuf \in [BtSlots -> [from : Nat, n : Int, avail : Int]]

(* The hash thread moves the window only where it has to. *)
WindowInv ==
  /\ WindowFor(mf, conf)
  /\ pc["hash"] \in {"cs", "move"} => MatchFinder_NeedMove(mf)
  /\ pc["hash"] = "fill" => ~MatchFinder_NeedMove(mf)

(* The worker has been told to start and not yet been seen to stop. *)
Running(s) == s.created = TRUE /\ s.needStart = FALSE

(* From here on MatchFinderMt_Destruct has told the worker to exit. *)
Ending(o) == IF o = "bt" THEN {"join", "destruct2", "join2", "done"} ELSE {"join2", "done"}

(* The blocks that the worker has taken and not posted, when it is at w, and   *)
(* those the client has been given and not given back, when it is at c.        *)
Taken(s, w) == IF w \in {"loop", "cs", "move"} \/ s.canStart = TRUE THEN 0 ELSE 1
Given(c) == IF c \in {"wait0", "wait", "stop3"} THEN 0 ELSE 1

(* While the worker runs all blocks are accounted for, the one that            *)
(* MtSync_StopWriting frees being the one its client had; it stops only when   *)
(* it was told to and its client waits for that.                               *)
RunSound(s, N, w, c) ==
  /\ s.exit = FALSE
  /\ w # "none" /\ w # "dead"
  /\ s.canStart = TRUE => w = "start" /\ c = "wait0" /\ s.filled = 0
  /\ w = "start" /\ s.canStart = FALSE <=> s.wasStopped = TRUE
  /\ w \in {"set", "stop", "stop2", "stop3", "stopped"} \/ s.wasStopped = TRUE
       => s.stopWriting = TRUE
  /\ s.stopWriting = TRUE <=> c \in {"stop2", "stop3"}
  /\ s.free + s.filled + Taken(s, w) + Given(c) = N

(* In any case no release is refused; a worker that does not run waits to be   *)
(* started, and exits only at the end, when l is where the encoder is.         *)
IdleSound(s, N, w, l, end) ==
  /\ s.refused = FALSE
  /\ s.free + s.filled <= N
  /\ w = "none" => s.created = FALSE /\ s.needStart = FALSE /\ s.wasStopped = FALSE
  /\ s.needStart = TRUE => (w = "start" \/ w = "dead") /\ s.wasStopped = FALSE
  /\ s.needStart = TRUE /\ (w = "dead" \/ s.canStart = TRUE) => l \in end
  /\ s.created = FALSE => (w = "none" \/ w = "dead") /\ s.canStart = FALSE
  /\ w = "dead" => s.needStart = TRUE /\ s.canStart = FALSE
  /\ l \in end /\ w = "start" => s.exit = TRUE /\ s.canStart = TRUE

ObjectSound(o) ==
  /\ Running(sync[o]) => RunSound(sync[o], NumBlocks(o), pc[o], pc[Client(o)])
  /\ IdleSound(sync[o], NumBlocks(o), pc[o], pc["lz"], Ending(o))

(* Who is in which critical section. *)
SectionsSound ==
  /\ \A o \in Objects : sync[o].entered = TRUE <=> sync[o].cs = Client(o)
  /\ \A o \in Objects : sync[o].cs \in {"none", "hash", Client(o)}
  /\ sync["bt"].cs = "hash" <=> pc["hash"] \in {"cs", "move"}
  /\ sync["hash"].cs = "hash" <=> pc["hash"] = "move"
  /\ sync["bt"].entered = TRUE <=>
       Running(sync["bt"]) /\ pc["lz"] \in {"run", "have", "next", "stop"}
  /\ sync["hash"].entered = TRUE <=>
       Running(sync["hash"]) /\ pc["bt"] \in {"get", "match", "unlock", "next"}

(* Which of the threads exist and run, by where their clients are. *)
LivesSound ==
  /\ pc["lz"] \in {"create", "create2", "init", "stopped", "destruct", "join", "destruct2",
                   "join2", "done"} => ~Running(sync["bt"])
  /\ pc["bt"] \in {"none", "start", "dead", "stopped"} => ~Running(sync["hash"])
  /\ pc["lz"] = "create" => pc["hash"] = "none" /\ pc["bt"] = "none"
  /\ pc["lz"] = "create2" => pc["bt"] = "none"
  /\ pc["lz"] \in {"create2", "init", "run", "have", "next", "release", "wait0", "wait",
                   "lock0", "lock", "stop2", "stop3"} \/ L.result = "ok"
       => pc["lz"] \in Ending("hash") \/ sync["hash"].created = TRUE
  /\ pc["lz"] \in {"init", "run", "have", "next", "release", "wait0", "wait",
                   "lock0", "lock", "stop2", "stop3"} \/ L.result = "ok"
       => pc["lz"] \in Ending("bt") \/ sync["bt"].created = TRUE
  /\ pc["bt"] \notin {"none", "start", "dead"} => sync["hash"].created = TRUE
  /\ pc["bt"] = "none" \/ sync["hash"].created = TRUE \/ pc["lz"] = "done"
  /\ pc["lz"] \in {"release", "wait", "lock", "stop2", "stop3", "wait0", "lock0"}
       => Running(sync["bt"])
  /\ pc["bt"] \in {"release", "wait", "lock", "stop2", "stop3", "wait0", "lock0"}
       => Running(sync["hash"])

(* A client that may start its worker finds all blocks free. *)
Fresh(o) == sync[o].free = NumBlocks(o) /\ sync[o].filled = 0

FreshSound ==
  /\ sync["bt"].needStart = TRUE /\ pc["lz"] \in {"run", "have", "next"} => Fresh("bt")
  /\ /\ sync["hash"].needStart = TRUE
     /\ \/ pc["lz"] \in {"run", "have", "next", "release", "wait0", "wait", "lock0", "lock"}
        \/ pc["bt"] \in {"loop", "fill", "get", "match", "unlock", "post", "next"}
     => Fresh("hash")

ThreadsInv ==
  /\ SyncTypes
  /\ ObjectSound("hash") /\ ObjectSound("bt")
  /\ SectionsSound /\ LivesSound /\ FreshSound

(* What the constants are, for steps about both objects. *)
LEMMA ObjectFacts ==
  /\ Objects = {"hash", "bt"} /\ Client("hash") = "bt" /\ Client("bt") = "lz"
  /\ NumBlocks("hash") = kMtHashNumBlocks /\ NumBlocks("bt") = kMtBtNumBlocks
  BY DEF Objects, Client, NumBlocks

(* What the steps do to a CMtSync, field by field. *)
LEMMA SyncUpdates ==
  ASSUME NEW s \in SyncRec, NEW n \in Nat, NEW t \in {"none", "lz", "bt", "hash"}
  PROVE  /\ [s EXCEPT !.created = TRUE, !.needStart = TRUE, !.exit = TRUE] \in SyncRec
         /\ [s EXCEPT !.created = FALSE] \in SyncRec
         /\ [s EXCEPT !.exit = TRUE, !.canStart = TRUE] \in SyncRec
         /\ [s EXCEPT !.free = n, !.filled = 0] \in SyncRec
         /\ [s EXCEPT !.num = 1, !.needStart = FALSE, !.stopWriting = FALSE, !.exit = FALSE,
                      !.wasStopped = FALSE, !.canStart = TRUE] \in SyncRec
         /\ [UNLOCK_BUFFER(s) EXCEPT !.num = @ + 1] \in SyncRec
         /\ [(IF s.entered THEN UNLOCK_BUFFER(s) ELSE s) EXCEPT !.stopWriting = TRUE] \in SyncRec
         /\ UNLOCK_BUFFER(s) \in SyncRec /\ LOCK_BUFFER(s, t) \in SyncRec
         /\ [s EXCEPT !.wasStopped = FALSE, !.needStart = TRUE] \in SyncRec
         /\ [s EXCEPT !.wasStopped = TRUE] \in SyncRec
         /\ [s EXCEPT !.canStart = FALSE] \in SyncRec
         /\ [s EXCEPT !.cs = t] \in SyncRec
         /\ [s EXCEPT !.free = n] \in SyncRec
         /\ [s EXCEPT !.filled = n] \in SyncRec
         /\ [s EXCEPT !.refused = TRUE] \in SyncRec
<1>1. 0 \in Nat /\ 1 \in Nat
  OBVIOUS
<1>2. /\ [s EXCEPT !.created = TRUE, !.needStart = TRUE, !.exit = TRUE] \in SyncRec
      /\ [s EXCEPT !.created = FALSE] \in SyncRec
      /\ [s EXCEPT !.exit = TRUE, !.canStart = TRUE] \in SyncRec
      /\ [s EXCEPT !.wasStopped = FALSE, !.needStart = TRUE] \in SyncRec
  BY Zenon DEF SyncRec
<1>3. /\ [s EXCEPT !.wasStopped = TRUE] \in SyncRec
         /\ [s EXCEPT !.canStart = FALSE] \in SyncRec
         /\ [s EXCEPT !.cs = t] \in SyncRec
         /\ [s EXCEPT !.free = n] \in SyncRec
         /\ [s EXCEPT !.filled = n] \in SyncRec
         /\ [s EXCEPT !.refused = TRUE] \in SyncRec
         /\ [s EXCEPT !.free = n, !.filled = 0] \in SyncRec
  BY <1>1, Zenon DEF SyncRec
<1>4. [s EXCEPT !.num = 1, !.needStart = FALSE, !.stopWriting = FALSE, !.exit = FALSE,
                      !.wasStopped = FALSE, !.canStart = TRUE] \in SyncRec
  BY <1>1, Zenon DEF SyncRec
<1>5. UNLOCK_BUFFER(s) \in SyncRec /\ LOCK_BUFFER(s, t) \in SyncRec
  BY Zenon DEF SyncRec, UNLOCK_BUFFER, LOCK_BUFFER
<1>6. ASSUME NEW u \in SyncRec PROVE [u EXCEPT !.num = @ + 1] \in SyncRec
  <2>1. u.num + 1 \in Nat
    BY DEF SyncRec
  <2>2. PICK m \in Nat : m = u.num + 1
    BY <2>1
  <2>3. [u EXCEPT !.num = m] \in SyncRec
    BY Zenon DEF SyncRec
  <2>. QED  BY <2>2, <2>3
<1>7. \A u \in SyncRec : [u EXCEPT !.stopWriting = TRUE] \in SyncRec
  BY Zenon DEF SyncRec
<1>8. [(IF s.entered THEN UNLOCK_BUFFER(s) ELSE s) EXCEPT !.stopWriting = TRUE] \in SyncRec
  BY <1>5, <1>7
<1>. QED  BY <1>2, <1>3, <1>4, <1>5, <1>6, <1>8, Zenon

(* Every step leaves the CMtSync and the places typed. *)
LEMMA SyncTyped ==
  ASSUME SyncTypes, Next
  PROVE  sync' \in [Objects -> SyncRec]
<1>1. /\ sync \in [Objects -> SyncRec] /\ \A o \in Objects : sync[o] \in SyncRec
      /\ \A o \in Objects : NumBlocks(o) \in Nat /\ Client(o) \in {"none", "lz", "bt", "hash"}
      /\ Objects = {"hash", "bt"}
  BY Numbers DEF SyncTypes, Objects, NumBlocks, Client
<1>2. ASSUME NEW o \in Objects, NEW x \in SyncRec, sync' = [sync EXCEPT ![o] = x]
      PROVE  sync' \in [Objects -> SyncRec]
  BY <1>1, <1>2
<1>3. \A o \in Objects : sync[o].free \in Nat /\ sync[o].filled \in Nat /\ sync[o].num \in Nat
  BY <1>1 DEF SyncRec
<1>4. ASSUME NEW o \in Objects, NEW f \in {"free", "filled"}, NEW n,
             sync' = [sync EXCEPT ![o] = Release1(@, f, n)]
      PROVE  sync' \in [Objects -> SyncRec]
  <2>1. Release1(sync[o], "free", n) \in SyncRec /\ Release1(sync[o], "filled", n) \in SyncRec
    <3>1. sync[o].free + 1 \in Nat /\ sync[o].filled + 1 \in Nat
      BY <1>3
    <3>2. /\ [sync[o] EXCEPT !.free = sync[o].free + 1] \in SyncRec
          /\ [sync[o] EXCEPT !.filled = sync[o].filled + 1] \in SyncRec
          /\ [sync[o] EXCEPT !.refused = TRUE] \in SyncRec
      BY <1>1, <3>1, SyncUpdates
    <3>. QED  BY <3>2 DEF Release1
  <2>. QED  BY <1>2, <1>4, <2>1
<1>5. ASSUME NEW o \in Objects, SyncStep(o) PROVE sync' \in [Objects -> SyncRec]
  <2>1. CASE NextStart(o)
    BY <1>1, <1>2, <2>1, SyncUpdates DEF NextStart
  <2>2. CASE NextUnlock(o)
    <3>1. PICK x \in SyncRec : x = [UNLOCK_BUFFER(sync[o]) EXCEPT !.num = @ + 1]
      BY <1>1, SyncUpdates
    <3>2. sync' = [sync EXCEPT ![o] = x]
      BY <2>2, <3>1 DEF NextUnlock
    <3>. QED  BY <1>2, <3>2
  <2>3. CASE NextRelease(o)
    BY <1>1, <1>4, <2>3 DEF NextRelease
  <2>4. CASE NextWait(o)
    <3>1. sync[o].filled - 1 \in Nat
      BY <1>3, <2>4 DEF NextWait
    <3>. QED  BY <1>1, <1>2, <2>4, <3>1, SyncUpdates DEF NextWait
  <2>5. CASE StopSend(o)
    BY <1>1, <1>2, <2>5, SyncUpdates DEF StopSend
  <2>6. CASE StopRelease(o)
    BY <1>1, <1>4, <2>6 DEF StopRelease
  <2>7. CASE StopWait(o)
    BY <1>1, <1>2, <2>7, SyncUpdates DEF StopWait
  <2>8. CASE StopNothing(o)
    BY <1>1, <2>8 DEF StopNothing
  <2>. QED  BY <1>5, <2>1, <2>2, <2>3, <2>4, <2>5, <2>6, <2>7, <2>8 DEF SyncStep
<1>6. ASSUME NEW o \in Objects, Locked(o) PROVE sync' \in [Objects -> SyncRec]
  BY <1>1, <1>2, <1>6, SyncUpdates DEF Locked
<1>7. CASE HashStep
  <2>1. CASE HashStart
    BY <1>1, <1>2, <2>1, SyncUpdates DEF HashStart
  <2>2. CASE HashEnter1 \/ HashEnter2
    BY <1>1, <1>2, <2>2, SyncUpdates DEF HashEnter1, HashEnter2
  <2>3. CASE HashMove
    BY <1>1, <2>3, SyncUpdates DEF HashMove
  <2>4. CASE HashTake
    <3>1. sync["hash"].free - 1 \in Nat
      BY <1>1, <1>3, <2>4 DEF HashTake
    <3>. QED  BY <1>1, <1>2, <2>4, <3>1, SyncUpdates DEF HashTake
  <2>5. CASE HashPost
    BY <1>1, <1>4, <2>5 DEF HashPost
  <2>6. CASE HashStopped
    BY <1>1, <1>2, <2>6, SyncUpdates DEF HashStopped
  <2>. QED  BY <1>1, <1>7, <2>1, <2>2, <2>3, <2>4, <2>5, <2>6 DEF HashStep, HashFill
<1>8. CASE BtStep
  <2>1. CASE BtStart
    BY <1>1, <1>2, <2>1, SyncUpdates DEF BtStart
  <2>2. CASE BtTake
    <3>1. sync["bt"].free - 1 \in Nat
      BY <1>1, <1>3, <2>2 DEF BtTake
    <3>. QED  BY <1>1, <1>2, <2>2, <3>1, SyncUpdates DEF BtTake
  <2>3. CASE BtFill
    BY <1>1, <1>2, <2>3, SyncUpdates DEF BtFill
  <2>4. CASE BtUnlock
    BY <1>1, <1>2, <2>4, SyncUpdates DEF BtUnlock
  <2>5. CASE BtPost
    BY <1>1, <1>4, <2>5 DEF BtPost
  <2>6. CASE BtStopped
    BY <1>1, <1>2, <2>6, SyncUpdates DEF BtStopped
  <2>7. CASE BtGot
    BY <1>1, <1>6, <2>7 DEF BtGot
  <2>. QED  BY <1>1, <1>5, <1>8, <2>1, <2>2, <2>3, <2>4, <2>5, <2>6, <2>7
            DEF BtStep, BtFull, BtNext, BtLoad, BtMatch
<1>9. CASE LzStep
  <2>1. ASSUME NEW o \in Objects, MtSync_Create(o) PROVE sync' \in [Objects -> SyncRec]
    <3>1. \/ sync' = sync
          \/ sync' = [sync EXCEPT ![o] =
                         [@ EXCEPT !.created = TRUE, !.needStart = TRUE, !.exit = TRUE]]
      BY <1>1, <2>1 DEF MtSync_Create
    <3>. QED  BY <1>1, <1>2, <3>1, SyncUpdates
  <2>2. ASSUME NEW o \in Objects, MtSync_Destruct(o) PROVE sync' \in [Objects -> SyncRec]
    BY <1>1, <1>2, <2>2, SyncUpdates DEF MtSync_Destruct
  <2>3. ASSUME NEW o \in Objects, Thread_Wait_Close(o) PROVE sync' \in [Objects -> SyncRec]
    BY <1>1, <1>2, <2>3, SyncUpdates DEF Thread_Wait_Close
  <2>4. CASE MtSync_Init
    <3>1. \A o \in Objects : [sync[o] EXCEPT !.free = NumBlocks(o), !.filled = 0] \in SyncRec
      BY <1>1, SyncUpdates
    <3>2. \/ sync' = sync
          \/ sync' = [o \in Objects |-> [sync[o] EXCEPT !.free = NumBlocks(o), !.filled = 0]]
      BY <2>4 DEF MtSync_Init
    <3>. QED  BY <1>1, <3>1, <3>2
  <2>5. CASE LzGot
    BY <1>1, <1>6, <2>5 DEF LzGot
  <2>. QED  BY <1>1, <1>5, <1>9, <2>1, <2>2, <2>3, <2>4, <2>5
            DEF LzStep, LzNext, LzConsume, LzEnd, LzAbort, LzStopped
<1>. QED  BY <1>7, <1>8, <1>9 DEF Next

(* The steps of the hash thread keep the protocol. *)
LEMMA HashThreads ==
  ASSUME ThreadsInv, L \in LzRec, HashStep
  PROVE  ThreadsInv'
<1>1. sync' \in [Objects -> SyncRec]
  BY SyncTyped DEF ThreadsInv, Next
<1>2. /\ sync["hash"] \in SyncRec /\ sync["bt"] \in SyncRec
      /\ sync'["hash"] \in SyncRec /\ sync'["bt"] \in SyncRec
  BY <1>1, ObjectFacts DEF ThreadsInv, SyncTypes
<1>3. kMtHashNumBlocks > 0 /\ kMtBtNumBlocks > 0
  BY Numbers
<1>. USE <1>2, <1>3, ObjectFacts, Numbers DEF ThreadsInv, SyncTypes, ObjectSound, Running,
         RunSound, IdleSound, Taken, Given, Ending, SectionsSound, LivesSound, FreshSound, Fresh,
         SyncRec, Threads, LzRec, Calls, LzPlaces, BtPlaces, HashPlaces, Goto
<1>4. CASE HashStart
  BY <1>4 DEF HashStart
<1>5. CASE HashEnter1
  BY <1>5 DEF HashEnter1
<1>6. CASE HashEnter2
  BY <1>6 DEF HashEnter2
<1>7. CASE HashMove
  BY <1>7 DEF HashMove
<1>8. CASE HashTake
  BY <1>8 DEF HashTake
<1>9. CASE HashFill
  BY <1>9 DEF HashFill
<1>10. CASE HashPost
  BY <1>10 DEF HashPost, Release1
<1>11. CASE HashStopped
  BY <1>11 DEF HashStopped
<1>. QED  BY <1>4, <1>5, <1>6, <1>7, <1>8, <1>9, <1>10, <1>11 DEF HashStep

(* So do those of the bt thread. *)
LEMMA BtThreads ==
  ASSUME ThreadsInv, L \in LzRec, BtStep
  PROVE  ThreadsInv'
<1>1. sync' \in [Objects -> SyncRec]
  BY SyncTyped DEF ThreadsInv, Next
<1>2. /\ sync["hash"] \in SyncRec /\ sync["bt"] \in SyncRec
      /\ sync'["hash"] \in SyncRec /\ sync'["bt"] \in SyncRec
  BY <1>1, ObjectFacts DEF ThreadsInv, SyncTypes
<1>3. kMtHashNumBlocks > 0 /\ kMtBtNumBlocks > 0
  BY Numbers
<1>. USE <1>2, <1>3, ObjectFacts, Numbers DEF ThreadsInv, SyncTypes, ObjectSound, Running,
         RunSound, IdleSound, Taken, Given, Ending, SectionsSound, LivesSound, FreshSound, Fresh,
         SyncRec, Threads, LzRec, Calls, LzPlaces, BtPlaces, HashPlaces, Goto
<1>4. CASE BtStart
  BY <1>4 DEF BtStart
<1>5. CASE BtTake
  BY <1>5 DEF BtTake
<1>6. CASE BtFill
  <2>1. pc' = [pc EXCEPT !["bt"] = "get"] \/ pc' = [pc EXCEPT !["bt"] = "unlock"]
    BY <1>6 DEF BtFill
  <2>2. CASE sync["hash"].needStart = TRUE /\ sync' = sync
    BY <1>6, <2>1, <2>2 DEF BtFill
  <2>3. CASE /\ sync["hash"].needStart = FALSE /\ sync["hash"].cs = "none"
             /\ sync' = [sync EXCEPT !["hash"].cs = "bt", !["hash"].entered = TRUE]
    BY <1>6, <2>1, <2>3 DEF BtFill
  <2>. QED  BY <1>6, <2>2, <2>3, ZenonT(30) DEF BtFill, LOCK_BUFFER
<1>7. CASE BtFull
  BY <1>7 DEF BtFull
<1>8. CASE BtNext
  BY <1>8 DEF BtNext
<1>9. CASE BtGot
  BY <1>9 DEF BtGot, Locked, LOCK_BUFFER
<1>10. CASE BtLoad
  BY <1>10 DEF BtLoad
<1>11. CASE BtMatch
  BY <1>11 DEF BtMatch
<1>12. CASE BtUnlock
  BY <1>12 DEF BtUnlock, UNLOCK_BUFFER
<1>13. CASE BtPost
  BY <1>13 DEF BtPost, Release1
<1>14. CASE BtStopped
  BY <1>14 DEF BtStopped
<1>15. CASE NextStart("hash")
  BY <1>15 DEF NextStart
<1>16. CASE NextUnlock("hash")
  BY <1>16 DEF NextUnlock, UNLOCK_BUFFER
<1>17. CASE NextRelease("hash")
  BY <1>17 DEF NextRelease, Release1
<1>18. CASE NextWait("hash")
  BY <1>18 DEF NextWait
<1>19. CASE StopSend("hash")
  BY <1>19 DEF StopSend, UNLOCK_BUFFER
<1>20. CASE StopRelease("hash")
  BY <1>20 DEF StopRelease, Release1
<1>21. CASE StopWait("hash")
  BY <1>21 DEF StopWait
<1>22. CASE StopNothing("hash")
  BY <1>22 DEF StopNothing
<1>. QED  BY <1>4, <1>5, <1>6, <1>7, <1>8, <1>9, <1>10, <1>11, <1>12, <1>13, <1>14, <1>15, <1>16,
             <1>17, <1>18, <1>19, <1>20, <1>21, <1>22 DEF BtStep, SyncStep

(* And those of the encoder. *)
LEMMA LzThreads ==
  ASSUME ThreadsInv, L \in LzRec, LzStep
  PROVE  ThreadsInv'
<1>1. sync' \in [Objects -> SyncRec]
  BY SyncTyped DEF ThreadsInv, Next
<1>2. /\ sync["hash"] \in SyncRec /\ sync["bt"] \in SyncRec
      /\ sync'["hash"] \in SyncRec /\ sync'["bt"] \in SyncRec
  BY <1>1, ObjectFacts DEF ThreadsInv, SyncTypes
<1>3. kMtHashNumBlocks > 0 /\ kMtBtNumBlocks > 0
  BY Numbers
<1>. USE <1>2, <1>3, ObjectFacts, Numbers DEF ThreadsInv, SyncTypes, ObjectSound, Running,
         RunSound, IdleSound, Taken, Given, Ending, SectionsSound, LivesSound, FreshSound, Fresh,
         SyncRec, Threads, LzRec, Calls, LzPlaces, BtPlaces, HashPlaces, Goto
<1>4. CASE NextStart("bt")
  BY <1>4 DEF NextStart
<1>5. CASE NextUnlock("bt")
  BY <1>5 DEF NextUnlock, UNLOCK_BUFFER
<1>6. CASE NextRelease("bt")
  BY <1>6 DEF NextRelease, Release1
<1>7. CASE NextWait("bt")
  BY <1>7 DEF NextWait
<1>8. CASE StopSend("bt")
  BY <1>8 DEF StopSend, UNLOCK_BUFFER
<1>9. CASE StopRelease("bt")
  BY <1>9 DEF StopRelease, Release1
<1>10. CASE StopWait("bt")
  BY <1>10 DEF StopWait
<1>11. CASE StopNothing("bt")
  BY <1>11 DEF StopNothing
<1>12. CASE MtSync_Init
  <2>1. CASE /\ sync' = sync /\ pc' = [pc EXCEPT !["lz"] = "stop"]
             /\ L' = [L EXCEPT !.result = "fail"]
    BY <1>12, <2>1 DEF MtSync_Init
  <2>2. CASE /\ sync' = [o \in Objects |-> [sync[o] EXCEPT !.free = NumBlocks(o), !.filled = 0]]
             /\ pc' = [pc EXCEPT !["lz"] = "run"] /\ L' = InitL
    <3>1. /\ sync'["hash"] = [sync["hash"] EXCEPT !.free = kMtHashNumBlocks, !.filled = 0]
          /\ sync'["bt"] = [sync["bt"] EXCEPT !.free = kMtBtNumBlocks, !.filled = 0]
      BY <2>2
    <3>2. L'.result = "none"
      BY <2>2 DEF InitL
    <3>3. pc["lz"] = "init"
      BY <1>12 DEF MtSync_Init
    <3>4. ~Running(sync["bt"]) /\ ~Running(sync["hash"])
      BY <3>3
    <3>5. /\ sync'["hash"].created = sync["hash"].created /\ sync'["hash"].needStart = sync["hash"].needStart
          /\ sync'["hash"].canStart = sync["hash"].canStart /\ sync'["hash"].wasStopped = sync["hash"].wasStopped
          /\ sync'["hash"].exit = sync["hash"].exit /\ sync'["hash"].refused = sync["hash"].refused
          /\ sync'["hash"].cs = sync["hash"].cs /\ sync'["hash"].entered = sync["hash"].entered
          /\ sync'["hash"].free = kMtHashNumBlocks /\ sync'["hash"].filled = 0
      BY <3>1
    <3>6. /\ sync'["bt"].created = sync["bt"].created /\ sync'["bt"].needStart = sync["bt"].needStart
          /\ sync'["bt"].canStart = sync["bt"].canStart /\ sync'["bt"].wasStopped = sync["bt"].wasStopped
          /\ sync'["bt"].exit = sync["bt"].exit /\ sync'["bt"].refused = sync["bt"].refused
          /\ sync'["bt"].cs = sync["bt"].cs /\ sync'["bt"].entered = sync["bt"].entered
          /\ sync'["bt"].free = kMtBtNumBlocks /\ sync'["bt"].filled = 0
      BY <3>1
    <3>7. pc'["hash"] = pc["hash"] /\ pc'["bt"] = pc["bt"] /\ pc'["lz"] = "run" /\ pc["lz"] = "init"
      BY <2>2, <3>3
    <3>8. SyncTypes'
      BY <2>2, <3>1, <3>2, <3>3
    <3>9. ObjectSound("hash")'
      BY <3>4, <3>5, <3>7, <3>6
    <3>10. ObjectSound("bt")'
      BY <3>4, <3>5, <3>7, <3>6
    <3>11. SectionsSound'
      BY <3>2, <3>4, <3>5, <3>6, <3>7
    <3>12. LivesSound'
      BY <3>2, <3>4, <3>5, <3>6, <3>7
    <3>13. FreshSound'
      BY <3>2, <3>4, <3>5, <3>6, <3>7
    <3>. QED  BY <3>8, <3>9, <3>10, <3>11, <3>12, <3>13
  <2>. QED  BY <1>12, <2>1, <2>2 DEF MtSync_Init
<1>13. CASE LzNext
  BY <1>13 DEF LzNext
<1>14. CASE LzGot
  BY <1>14 DEF LzGot, Locked, LOCK_BUFFER
<1>15. CASE LzConsume
  BY <1>15 DEF LzConsume
<1>16. CASE LzEnd
  BY <1>16 DEF LzEnd
<1>17. CASE LzAbort
  BY <1>17 DEF LzAbort
<1>18. CASE LzStopped
  BY <1>18 DEF LzStopped
<1>19. CASE MtSync_Create("hash")
  <2>1. CASE /\ pc' = [pc EXCEPT !["lz"] = "stop"] /\ sync' = sync
             /\ L' = [L EXCEPT !.result = "error"]
    BY <1>19, <2>1 DEF MtSync_Create
  <2>2. CASE /\ pc' = [pc EXCEPT !["hash"] = "start", !["lz"] = "create2"]
             /\ sync' = [sync EXCEPT !["hash"] =
                           [@ EXCEPT !.created = TRUE, !.needStart = TRUE, !.exit = TRUE]]
             /\ L' = L
    <3>1. /\ pc["lz"] = "create" /\ pc'["lz"] = "create2" /\ pc'["hash"] = "start"
          /\ pc'["bt"] = pc["bt"] /\ pc' \in [Threads -> LzPlaces \cup BtPlaces \cup HashPlaces]
      BY <1>19, <2>2 DEF MtSync_Create
    <3>2. sync'["bt"] = sync["bt"] /\ L'.result = L.result
      BY <2>2
    <3>3. /\ sync'["hash"].created = TRUE /\ sync'["hash"].needStart = TRUE
          /\ sync'["hash"].exit = TRUE /\ sync'["hash"].canStart = sync["hash"].canStart
          /\ sync'["hash"].wasStopped = sync["hash"].wasStopped
          /\ sync'["hash"].free = sync["hash"].free /\ sync'["hash"].filled = sync["hash"].filled
          /\ sync'["hash"].cs = sync["hash"].cs /\ sync'["hash"].entered = sync["hash"].entered
          /\ sync'["hash"].refused = sync["hash"].refused
          /\ sync'["hash"].stopWriting = sync["hash"].stopWriting
      BY <2>2
    <3>4. SyncTypes'
      BY <1>1, <3>1
    <3>5. pc["hash"] = "none" /\ pc["bt"] = "none" /\ sync["hash"].created = FALSE
      BY <3>1
    <3>6. ObjectSound("hash")'
      BY <3>1, <3>2, <3>3, <3>5
    <3>7. ObjectSound("bt")'
      BY <3>1, <3>2, <3>3, <3>5
    <3>8. SectionsSound'
      BY <3>1, <3>2, <3>3, <3>5
    <3>9. LivesSound'
      BY <3>1, <3>2, <3>3, <3>5
    <3>10. FreshSound'
      BY <3>1, <3>2, <3>3, <3>5
    <3>. QED  BY <3>4, <3>6, <3>7, <3>8, <3>9, <3>10
  <2>. QED  BY <1>19, <2>1, <2>2, ZenonT(30) DEF MtSync_Create
<1>20. CASE MtSync_Destruct("hash")
  BY <1>20 DEF MtSync_Destruct
<1>21. CASE Thread_Wait_Close("hash")
  BY <1>21 DEF Thread_Wait_Close
<1>22. CASE MtSync_Create("bt")
  <2>1. CASE /\ pc' = [pc EXCEPT !["lz"] = "stop"] /\ sync' = sync
             /\ L' = [L EXCEPT !.result = "error"]
    BY <1>22, <2>1 DEF MtSync_Create
  <2>2. CASE /\ pc' = [pc EXCEPT !["bt"] = "start", !["lz"] = "init"]
             /\ sync' = [sync EXCEPT !["bt"] =
                           [@ EXCEPT !.created = TRUE, !.needStart = TRUE, !.exit = TRUE]]
             /\ L' = L
    <3>1. /\ pc["lz"] = "create2" /\ pc'["lz"] = "init" /\ pc'["bt"] = "start"
          /\ pc'["hash"] = pc["hash"] /\ pc' \in [Threads -> LzPlaces \cup BtPlaces \cup HashPlaces]
      BY <1>22, <2>2, ZenonT(30) DEF MtSync_Create
    <3>2. sync'["hash"] = sync["hash"] /\ L'.result = L.result
      BY <2>2
    <3>3. /\ sync'["bt"].created = TRUE /\ sync'["bt"].needStart = TRUE
          /\ sync'["bt"].exit = TRUE /\ sync'["bt"].canStart = sync["bt"].canStart
          /\ sync'["bt"].wasStopped = sync["bt"].wasStopped
          /\ sync'["bt"].free = sync["bt"].free /\ sync'["bt"].filled = sync["bt"].filled
          /\ sync'["bt"].cs = sync["bt"].cs /\ sync'["bt"].entered = sync["bt"].entered
          /\ sync'["bt"].refused = sync["bt"].refused
          /\ sync'["bt"].stopWriting = sync["bt"].stopWriting
      BY <2>2
    <3>4. SyncTypes'
      BY <1>1, <3>1
    <3>5. pc["bt"] = "none" /\ pc["bt"] = "none" /\ sync["bt"].created = FALSE
      BY <3>1
    <3>6. ObjectSound("hash")'
      BY <3>1, <3>2, <3>3, <3>5
    <3>7. ObjectSound("bt")'
      BY <3>1, <3>2, <3>3, <3>5
    <3>8. SectionsSound'
      BY <3>1, <3>2, <3>3, <3>5
    <3>9. LivesSound'
      BY <3>1, <3>2, <3>3, <3>5
    <3>10. FreshSound'
      BY <3>1, <3>2, <3>3, <3>5
    <3>. QED  BY <3>4, <3>6, <3>7, <3>8, <3>9, <3>10
  <2>. QED  BY <1>22, <2>1, <2>2 DEF MtSync_Create
<1>23. CASE MtSync_Destruct("bt")
  BY <1>23 DEF MtSync_Destruct
<1>24. CASE Thread_Wait_Close("bt")
  BY <1>24 DEF Thread_Wait_Close
<1>. QED  BY <1>4, <1>5, <1>6, <1>7, <1>8, <1>9, <1>10, <1>11, <1>12, <1>13, <1>14, <1>15, <1>16,
             <1>17, <1>18, <1>19, <1>20, <1>21, <1>22, <1>23, <1>24, ZenonT(60) DEF LzStep,
             SyncStep

(*------------------------------ the types of the data -----------------------*)

(* How far the window is moved past a block of n heads with a bytes available. *)
Span(a, n) == IF a >= NumHashBytes THEN n ELSE a

(* How many heads a block has: none at the end of the stream, where all bytes  *)
(* are stepped over, else at least one and as many as there are bytes for.     *)
HeadsFor(at, a, n) ==
  /\ n <= kMtHashBlockSize - 2 /\ at + a <= conf.len
  /\ a >= NumHashBytes => n > 0 /\ n < a
  /\ a < NumHashBytes => n = 0 /\ at + a = conf.len

(* What HashFill puts into a block, and where it leaves the window. *)
LEMMA FillFacts ==
  ASSUME DataTypes, WindowInv, HashFill
  PROVE  \E a, n \in Nat :
           /\ hashBuf' = [hashBuf EXCEPT ![H % kMtHashNumBlocks] =
                            [from |-> At(mf), n |-> n, avail |-> a]]
           /\ HeadsFor(At(mf), a, n)
           /\ WindowFor(mf', conf)
           /\ mf'.origin = mf.origin /\ At(mf') = At(mf) + Span(a, n)
           /\ mf'.ended = FALSE => mf.ended = FALSE /\ a >= NumHashBytes
<1>1. /\ WindowSound(mf) /\ mf.direct \in BOOLEAN /\ mf.ended \in BOOLEAN
      /\ mf.blockSize \in Nat /\ mf.buffer \in Nat /\ mf.keepAfter \in Nat
      /\ mf.len = conf.len /\ mf.direct = conf.direct
  BY DEF WindowInv, WindowFor, WindowSound, WindowRec
<1>2. conf.piece \in Nat /\ (mf.direct = TRUE \/ conf.piece > 0)
  BY <1>1, ConfsAssumption DEF DataTypes
<1>3. mf.blockSize - mf.buffer > mf.keepAfter \/ mf.direct = TRUE \/ mf.ended = TRUE
  BY <1>1 DEF HashFill, WindowInv, MatchFinder_NeedMove
<1>4. PICK w : w = MatchFinder_ReadIfRequired(mf, conf.piece)
  OBVIOUS
<1>5. /\ WindowSound(w)
      /\ w.direct = mf.direct /\ w.len = mf.len /\ w.keepBefore = mf.keepBefore
      /\ w.keepAfter = mf.keepAfter /\ w.blockSize = mf.blockSize
      /\ w.origin = mf.origin /\ w.buffer = mf.buffer
      /\ mf.ended = TRUE => w = mf
      /\ \/ w.ended = TRUE \/ Avail(w) > w.keepAfter
         \/ w.direct = TRUE /\ Avail(w) = MaxAvail
  <2>1. /\ WindowSound(mf) /\ conf.piece \in Nat /\ (mf.direct = TRUE \/ conf.piece > 0)
        /\ mf.blockSize - mf.buffer > mf.keepAfter \/ mf.direct = TRUE \/ mf.ended = TRUE
    BY <1>1, <1>2, <1>3
  <2>2. ReadKeeps(mf, w)
    BY <1>4, <2>1, ReadFacts, Zenon
  <2>. QED  BY <2>2 DEF ReadKeeps
<1>6. /\ w \in WindowRec /\ At(w) = At(mf) /\ At(w) \in Nat /\ w.read \in Nat /\ w.len \in Nat
      /\ At(w) <= w.read /\ w.read <= w.len /\ (w.ended = TRUE => w.read = w.len)
      /\ w.buffer \in Nat /\ w.keepAfter >= NumHashBytes /\ w.keepAfter \in Nat
      /\ w.origin \in Nat
  BY <1>5 DEF WindowSound, WindowRec, At, WindowInv, WindowFor
<1>7. PICK a \in Nat : a = Avail(w) /\ At(mf) + a = w.read
  BY <1>6 DEF Avail
<1>8. a >= NumHashBytes \/ w.read = w.len
  BY <1>5, <1>6, <1>7, MtAssumption, Numbers
<1>9. PICK n \in Nat :
        /\ n = IF a >= NumHashBytes
               THEN Min({a - NumHashBytes + 1, kMtHashBlockSize - 2}) ELSE 0
        /\ n <= kMtHashBlockSize - 2
        /\ a >= NumHashBytes => n > 0 /\ n < a
  <2>1. CASE a >= NumHashBytes
    <3>1. /\ a - NumHashBytes + 1 \in Nat /\ a - NumHashBytes + 1 > 0
          /\ a - NumHashBytes + 1 < a
          /\ kMtHashBlockSize - 2 \in Nat /\ kMtHashBlockSize - 2 > 0
      BY <1>7, <2>1, MtAssumption, Numbers
    <3>. QED  BY <2>1, <3>1, MinTwo
  <2>2. CASE ~(a >= NumHashBytes)
    BY <2>2, MtAssumption
  <2>. QED  BY <2>1, <2>2
<1>10. /\ hashBuf' = [hashBuf EXCEPT ![H % kMtHashNumBlocks] =
                            [from |-> At(mf), n |-> n, avail |-> a]]
       /\ mf' = [w EXCEPT !.buffer = w.buffer + Span(a, n)]
  BY <1>4, <1>6, <1>7, <1>9 DEF HashFill, Span
<1>11. HeadsFor(At(mf), a, n)
  BY <1>1, <1>5, <1>6, <1>7, <1>8, <1>9, Numbers DEF HeadsFor
<1>12. Span(a, n) \in Nat /\ Span(a, n) <= a
  BY <1>7, <1>9, Numbers DEF Span
<1>13. PICK z \in Nat : z = w.buffer + Span(a, n)
  BY <1>6, <1>12
<1>14. mf' = [w EXCEPT !.buffer = z]
  BY <1>10, <1>13
<1>15. /\ mf' \in WindowRec /\ mf'.origin = w.origin /\ mf'.buffer = z /\ mf'.read = w.read
       /\ mf'.len = w.len /\ mf'.direct = w.direct /\ mf'.keepBefore = w.keepBefore
       /\ mf'.keepAfter = w.keepAfter /\ mf'.blockSize = w.blockSize /\ mf'.ended = w.ended
  BY <1>6, <1>13, <1>14 DEF WindowRec
<1>16. At(mf') = At(mf) + Span(a, n) /\ At(mf') <= w.read /\ Avail(mf') <= Avail(w)
  BY <1>6, <1>7, <1>12, <1>13, <1>15 DEF At, Avail
<1>17. WindowSound(mf')
  BY <1>5, <1>6, <1>7, <1>15, <1>16, WindowAssumption DEF WindowSound, WindowRec, Avail, At
<1>18. WindowFor(mf', conf)
  BY <1>5, <1>15, <1>17 DEF WindowFor, WindowInv
<1>19. mf'.ended = FALSE => mf.ended = FALSE /\ a >= NumHashBytes
  <2>. SUFFICES ASSUME w.ended = FALSE PROVE mf.ended = FALSE /\ a >= NumHashBytes
    BY <1>15
  <2>1. mf.ended = FALSE
    BY <1>1, <1>5
  <2>2. Avail(w) > w.keepAfter \/ Avail(w) = MaxAvail
    BY <1>5
  <2>. QED  BY <1>6, <1>7, <2>1, <2>2, MtAssumption, Numbers, WindowAssumption
<1>. QED  BY <1>5, <1>10, <1>11, <1>15, <1>16, <1>18, <1>19

(* Where a block goes and comes from is one of the slots. *)
LEMMA Slots ==
  /\ \A n \in Int : n % kMtHashNumBlocks \in HashSlots
  /\ \A n \in Int : n % kMtBtNumBlocks \in BtSlots
  /\ SyncTypes => BlockIndex("hash") \in HashSlots /\ BlockIndex("bt") \in BtSlots
<1>1. PICK a \in Nat \ {0} : a = kMtHashNumBlocks
  BY Numbers
<1>2. PICK b \in Nat \ {0} : b = kMtBtNumBlocks
  BY Numbers
<1>3. \A n \in Int : n % a \in 0 .. a - 1 /\ n % b \in 0 .. b - 1
  OBVIOUS
<1>4. /\ \A n \in Int : n % kMtHashNumBlocks \in HashSlots
      /\ \A n \in Int : n % kMtBtNumBlocks \in BtSlots
  BY <1>1, <1>2, <1>3 DEF HashSlots, BtSlots
<1>5. ASSUME SyncTypes
      PROVE  BlockIndex("hash") \in HashSlots /\ BlockIndex("bt") \in BtSlots
  <2>1. \A o \in Objects : sync[o].num - 1 \in Int
    BY <1>5 DEF SyncTypes, SyncRec
  <2>2. \A o \in Objects : (IF pc[Client(o)] = "lock0" THEN 0 ELSE sync[o].num - 1) \in Int
    BY <2>1
  <2>. QED  BY <1>4, <2>2, ObjectFacts DEF BlockIndex
<1>. QED  BY <1>4, <1>5

(* When the threads are all stopped MtSync_Init finds them so. *)
LEMMA InitReady ==
  ASSUME ThreadsInv, pc["lz"] = "init"
  PROVE  /\ \A o \in Objects : sync[o].needStart /\ ~sync[o].entered
         /\ pc["hash"] = "start" /\ pc["bt"] = "start"
<1>1. ~Running(sync["bt"]) /\ sync["bt"].created = TRUE /\ sync["hash"].created = TRUE
  BY DEF ThreadsInv, LivesSound, Ending
<1>2. /\ sync["bt"] \in SyncRec /\ sync["hash"] \in SyncRec
  BY ObjectFacts DEF ThreadsInv, SyncTypes
<1>3. sync["bt"].needStart = TRUE /\ pc["bt"] = "start"
  BY <1>1, <1>2, ObjectFacts DEF Running, ThreadsInv, ObjectSound, IdleSound, SyncRec, Ending
<1>4. ~Running(sync["hash"])
  BY <1>3 DEF ThreadsInv, LivesSound
<1>5. sync["hash"].needStart = TRUE /\ pc["hash"] = "start"
  BY <1>1, <1>2, <1>4, ObjectFacts
     DEF Running, ThreadsInv, ObjectSound, IdleSound, SyncRec, Ending
<1>6. sync["bt"].entered = FALSE /\ sync["hash"].entered = FALSE
  BY <1>1, <1>2, <1>4 DEF ThreadsInv, SectionsSound, SyncRec
<1>. QED  BY <1>3, <1>5, <1>6, ObjectFacts
(* The numbers stored for a position: at least their count, and no more than   *)
(* a length and a distance for every length. *)
LEMMA EntriesTyped ==
  ASSUME conf \in Confs, NEW p \in Nat
  PROVE  conf.entries[(p % Len(conf.entries)) + 1] \in 1 .. 2 * MatchMaxLen
<1>1. /\ conf.entries \in Seq(1 .. 2 * MatchMaxLen) /\ Len(conf.entries) > 0
  BY ConfsAssumption
<1>2. PICK n \in Nat \ {0} : n = Len(conf.entries)
  BY <1>1
<1>3. PICK q \in 0 .. n - 1 : q = p % n
  OBVIOUS
<1>4. q + 1 \in 1 .. n
  BY <1>3
<1>5. PICK S : S = 1 .. 2 * MatchMaxLen
  OBVIOUS
<1>6. \A s \in Seq(S) : \A i \in 1 .. Len(s) : s[i] \in S
  OBVIOUS
<1>7. conf.entries[q + 1] \in 1 .. 2 * MatchMaxLen
  BY <1>1, <1>2, <1>4, <1>5, <1>6
<1>. QED  BY <1>2, <1>3, <1>7

(* What the steps do to the data of the bt thread and of the encoder. *)
LEMMA BtUpdates ==
  ASSUME NEW b \in BtRec
  PROVE  /\ \A m \in Nat : [b EXCEPT !.bi = m] \in BtRec
         /\ \A i \in Int : [b EXCEPT !.ptr = i] \in BtRec
         /\ \A i \in Int : [b EXCEPT !.cur = i] \in BtRec
         /\ \A i \in Int : [b EXCEPT !.failed = TRUE, !.cur = i] \in BtRec
         /\ \A m, n, o \in Nat, i \in Int :
              [b EXCEPT !.from = m, !.used = n, !.done = o, !.avail = i] \in BtRec
         /\ \A s \in HashSlots, i, j, k, l \in Int, m \in Nat :
              [b EXCEPT !.slot = s, !.hpos = i, !.hlim = j, !.avail = k, !.hnum = l,
                        !.used = m] \in BtRec
         /\ \A m, n, o \in Nat, i, j, k, l \in Int :
              [b EXCEPT !.used = m, !.done = n, !.hpos = i, !.hnum = j, !.pos = o, !.ptr = k,
                        !.cur = l] \in BtRec
<1>1. /\ \A m \in Nat : [b EXCEPT !.bi = m] \in BtRec
      /\ \A i \in Int : [b EXCEPT !.ptr = i] \in BtRec
      /\ \A i \in Int : [b EXCEPT !.cur = i] \in BtRec
      /\ \A i \in Int : [b EXCEPT !.failed = TRUE, !.cur = i] \in BtRec
  BY Zenon DEF BtRec
<1>2. \A m, n, o \in Nat, i \in Int :
        [b EXCEPT !.from = m, !.used = n, !.done = o, !.avail = i] \in BtRec
  BY Zenon DEF BtRec
<1>3. \A s \in HashSlots, i, j, k, l \in Int, m \in Nat :
        [b EXCEPT !.slot = s, !.hpos = i, !.hlim = j, !.avail = k, !.hnum = l,
                  !.used = m] \in BtRec
  BY Zenon DEF BtRec
<1>4. \A m, n, o \in Nat, i, j, k, l \in Int :
        [b EXCEPT !.used = m, !.done = n, !.hpos = i, !.hnum = j, !.pos = o, !.ptr = k,
                  !.cur = l] \in BtRec
  BY ZenonT(60) DEF BtRec
<1>. QED  BY <1>1, <1>2, <1>3, <1>4, Zenon

(* Likewise for the encoder. *)
LEMMA LzUpdates ==
  ASSUME NEW z \in LzRec
  PROVE  /\ \A r \in {"none", "ok", "error"} : [z EXCEPT !.result = r] \in LzRec
         /\ \A r \in {"none", "ok", "error"}, i \in Int :
              [z EXCEPT !.result = r, !.data = i] \in LzRec
         /\ \A m \in Nat, i \in Int : [z EXCEPT !.k = m, !.lim = i] \in LzRec
         /\ \A i \in Int : [z EXCEPT !.data = i] \in LzRec
         /\ \A s \in BtSlots, m \in Nat, i, j \in Int, f \in BOOLEAN :
              [z EXCEPT !.slot = s, !.k = m, !.lim = i, !.avail = j, !.failed = f] \in LzRec
         /\ \A m, n \in Nat, i, j, k, l \in Int :
              [z EXCEPT !.k = m, !.avail = i, !.pos = n, !.ptr = j, !.data = k,
                        !.item = l] \in LzRec
<1>1. /\ \A r \in {"none", "ok", "error"} : [z EXCEPT !.result = r] \in LzRec
      /\ \A r \in {"none", "ok", "error"}, i \in Int :
           [z EXCEPT !.result = r, !.data = i] \in LzRec
      /\ \A m \in Nat, i \in Int : [z EXCEPT !.k = m, !.lim = i] \in LzRec
      /\ \A i \in Int : [z EXCEPT !.data = i] \in LzRec
  BY Zenon DEF LzRec
<1>2. \A s \in BtSlots, m \in Nat, i, j \in Int, f \in BOOLEAN :
        [z EXCEPT !.slot = s, !.k = m, !.lim = i, !.avail = j, !.failed = f] \in LzRec
  BY Zenon DEF LzRec
<1>3. \A m, n \in Nat, i, j, k, l \in Int :
        [z EXCEPT !.k = m, !.avail = i, !.pos = n, !.ptr = j, !.data = k, !.item = l] \in LzRec
  BY Zenon DEF LzRec
<1>. QED  BY <1>1, <1>2, <1>3, Zenon

(* Every step leaves the data of the threads typed ... *)
LEMMA DataKept ==
  ASSUME DataTypes, WindowInv, ThreadsInv, Next
  PROVE  DataTypes'
<1>1. /\ conf \in Confs /\ left \in Int /\ H \in Nat /\ B \in BtRec /\ L \in LzRec
      /\ hashBuf \in [HashSlots -> [from : Nat, n : Nat, avail : Nat]]
      /\ btBuf \in [BtSlots -> [from : Nat, n : Int, avail : Int]]
  BY DEF DataTypes
<1>2. SyncTypes
  BY DEF ThreadsInv
<1>3. ASSUME UNCHANGED <<conf, left, H, B, L, hashBuf, btBuf>> PROVE DataTypes'
  BY <1>1, <1>3 DEF DataTypes
<1>4. CASE HashStep
  <2>1. CASE HashStart
    BY <1>1, <2>1 DEF HashStart, DataTypes
  <2>2. CASE HashMove
    <3>1. mf.buffer - mf'.buffer \in Int
      <4>1. mf.buffer \in Nat /\ WindowSound(mf) /\ MatchFinder_NeedMove(mf)
            /\ mf.blockSize = GetBlockSize(mf.keepBefore, mf.keepAfter)
        BY <2>2 DEF WindowInv, WindowFor, HashMove, WindowSound, WindowRec, MatchFinder_NeedMove
      <4>2. MoveKeeps(mf, mf')
        BY <2>2, <4>1, MoveFacts, Zenon DEF HashMove
      <4>. QED  BY <4>1, <4>2 DEF MoveKeeps, WindowSound, WindowRec
    <3>2. PICK d \in Int : d = mf.buffer - mf'.buffer
      BY <3>1
    <3>3. L' = [L EXCEPT !.ptr = L.ptr - d] /\ B' = [B EXCEPT !.ptr = B.ptr - d]
      BY <2>2, <3>2 DEF HashMove
    <3>4. L' \in LzRec /\ B' \in BtRec
      BY <1>1, <3>3 DEF LzRec, BtRec
    <3>. QED  BY <1>1, <2>2, <3>4 DEF HashMove, DataTypes
  <2>3. CASE HashFill
    <3>1. At(mf) \in Nat
      BY DEF WindowInv, WindowFor, WindowSound, WindowRec, At
    <3>2. PICK a, n \in Nat :
            hashBuf' = [hashBuf EXCEPT ![H % kMtHashNumBlocks] =
                          [from |-> At(mf), n |-> n, avail |-> a]]
      BY <2>3, FillFacts
    <3>3. hashBuf' \in [HashSlots -> [from : Nat, n : Nat, avail : Nat]]
      BY <1>1, <3>1, <3>2
    <3>. QED  BY <1>1, <2>3, <3>3 DEF HashFill, DataTypes
  <2>. QED  BY <1>3, <1>4, <2>1, <2>2, <2>3
            DEF HashStep, HashEnter1, HashEnter2, HashTake, HashPost, HashStopped
<1>5. ASSUME NEW o \in Objects, SyncStep(o) PROVE DataTypes'
  BY <1>3, <1>5 DEF SyncStep, NextStart, NextUnlock, NextRelease, NextWait, StopSend,
                    StopRelease, StopWait, StopNothing
<1>6. ASSUME NEW s \in BtSlots, NEW b \in [from : Nat, n : Int, avail : Int],
             btBuf' = [btBuf EXCEPT ![s] = b]
      PROVE  btBuf' \in [BtSlots -> [from : Nat, n : Int, avail : Int]]
  BY <1>1, <1>6
<1>7. B.bi \in Nat /\ B.bi % kMtBtNumBlocks \in BtSlots
  BY <1>1, Slots DEF BtRec
<1>8. ASSUME NEW n \in Int, NEW a \in Int, BtBlock(n, a)
      PROVE  btBuf' \in [BtSlots -> [from : Nat, n : Int, avail : Int]]
  <2>1. [from |-> B.from, n |-> n, avail |-> a] \in [from : Nat, n : Int, avail : Int]
    BY <1>1 DEF BtRec
  <2>. QED  BY <1>6, <1>7, <1>8, <2>1 DEF BtBlock
<1>9. CASE BtStep
  <2>1. CASE BtStart
    BY <1>1, <2>1 DEF BtStart, DataTypes, BtRec
  <2>2. CASE BtFill
    <3>1. B' \in BtRec
      BY <1>1, <2>2 DEF BtFill, BtRec
    <3>2. [from |-> B.pos, n |-> none, avail |-> B.hnum] \in [from : Nat, n : Int, avail : Int]
      BY <1>1 DEF BtRec, none
    <3>3. btBuf' \in [BtSlots -> [from : Nat, n : Int, avail : Int]]
      BY <1>1, <1>6, <1>7, <2>2, <3>2 DEF BtFill
    <3>. QED  BY <1>1, <2>2, <3>1, <3>3 DEF BtFill, DataTypes
  <2>3. CASE BtFull
    <3>1. btBuf' \in [BtSlots -> [from : Nat, n : Int, avail : Int]]
      BY <1>1, <1>8, <2>3 DEF BtFull, BtRec
    <3>. QED  BY <1>1, <2>3, <3>1 DEF BtFull, DataTypes
  <2>4. CASE BtGot
    <3>1. PICK h \in [from : Nat, n : Nat, avail : Nat] : h = hashBuf[BlockIndex("hash")]
      BY <1>1, <1>2, Slots
    <3>2. PICK s \in HashSlots : s = BlockIndex("hash")
      BY <1>2, Slots
    <3>3. /\ h.n \in Int /\ h.avail \in Nat /\ B.done + h.avail \in Nat /\ B.used \in Nat
          /\ B.used + h.avail \in Nat /\ AvailSum(B.done, h.avail) \in Nat
      <4>1. /\ h.n \in Int /\ h.avail \in Nat /\ B.done \in Nat /\ B.used \in Nat
            /\ B.done + h.avail \in Nat /\ B.used + h.avail \in Nat
        BY <1>1, <3>1 DEF BtRec
      <4>2. AvailSum(B.done, h.avail) \in Nat
        BY <4>1, AvailSumIs
      <4>. QED  BY <4>1, <4>2
    <3>4. PICK u \in Nat, m \in Nat :
            B' = [B EXCEPT !.slot = s, !.hpos = 0, !.hlim = h.n,
                           !.avail = AvailSum(B.done, h.avail), !.hnum = m, !.used = u]
      <4>1. CASE h.avail >= NumHashBytes
        <5>1. B' = [B EXCEPT !.slot = s, !.hpos = 0, !.hlim = h.n,
                             !.avail = AvailSum(B.done, h.avail),
                             !.hnum = h.avail, !.used = B.used]
          BY <2>4, <3>1, <3>2, <4>1 DEF BtGot
        <5>2. h.avail \in Nat /\ B.used \in Nat
          BY <3>3
        <5>. QED  BY <5>1, <5>2, Zenon
      <4>2. CASE ~(h.avail >= NumHashBytes)
        <5>1. B' = [B EXCEPT !.slot = s, !.hpos = 0, !.hlim = h.n,
                             !.avail = AvailSum(B.done, h.avail),
                             !.hnum = 0, !.used = B.used + h.avail]
          BY <2>4, <3>1, <3>2, <4>2 DEF BtGot
        <5>2. 0 \in Nat /\ B.used + h.avail \in Nat
          BY <3>3
        <5>. QED  BY <5>1, <5>2, Zenon
      <4>. QED  BY <4>1, <4>2
    <3>5. B' \in BtRec
      <4>1. 0 \in Int /\ h.n \in Int /\ AvailSum(B.done, h.avail) \in Int /\ m \in Int
        BY <3>3
      <4>. QED  BY <1>1, <3>4, <4>1, BtUpdates, Zenon
    <3>6. btBuf' \in [BtSlots -> [from : Nat, n : Int, avail : Int]]
      BY <1>1, <1>8, <2>4, <3>1, <3>3 DEF BtGot
    <3>. QED  BY <1>1, <2>4, <3>5, <3>6 DEF BtGot, DataTypes
  <2>5. CASE BtLoad
    BY <1>1, <2>5 DEF BtLoad, DataTypes, BtRec
  <2>6. CASE BtMatch
    <3>1. PICK e \in Nat : e = conf.entries[(B.pos % Len(conf.entries)) + 1]
      <4>1. B.pos \in Nat
        BY <1>1 DEF BtRec
      <4>2. PICK e \in 1 .. 2 * MatchMaxLen : e = conf.entries[(B.pos % Len(conf.entries)) + 1]
        BY <1>1, <4>1, EntriesTyped
      <4>3. e \in Nat
        BY <4>2, Numbers
      <4>. QED  BY <4>2, <4>3
    <3>2. B' \in BtRec
      <4>1. CASE B.pos = conf.failAt
        <5>1. B' = [B EXCEPT !.failed = TRUE, !.cur = none]
          BY <2>6, <4>1 DEF BtMatch
        <5>2. none \in Int
          BY DEF none
        <5>. QED  BY <1>1, <5>1, <5>2, BtUpdates, Zenon
      <4>2. CASE B.pos # conf.failAt
        <5>1. B' = [B EXCEPT !.used = B.used + e, !.done = B.done + 1, !.hpos = B.hpos + 1,
                             !.hnum = B.hnum - 1, !.pos = B.pos + 1, !.ptr = B.cur + 1,
                             !.cur = none]
          BY <2>6, <3>1, <4>2 DEF BtMatch
        <5>2. /\ B.used + e \in Nat /\ B.done + 1 \in Nat /\ B.hpos + 1 \in Int
              /\ B.hnum - 1 \in Int /\ B.pos + 1 \in Nat /\ B.cur + 1 \in Int /\ none \in Int
          <6>1. /\ B.used \in Nat /\ B.done \in Nat /\ B.hpos \in Int /\ B.hnum \in Int
                /\ B.pos \in Nat /\ B.cur \in Int
            BY <1>1 DEF BtRec
          <6>. QED  BY <6>1 DEF none
        <5>. QED  BY <1>1, <5>1, <5>2, BtUpdates, Zenon
      <4>. QED  BY <4>1, <4>2
    <3>3. btBuf' \in [BtSlots -> [from : Nat, n : Int, avail : Int]]
      <4>1. none \in Int /\ B.avail \in Int
        BY <1>1 DEF BtRec, none
      <4>. QED  BY <1>1, <1>8, <2>6, <4>1 DEF BtMatch
    <3>. QED  BY <1>1, <2>6, <3>2, <3>3 DEF BtMatch, DataTypes
  <2>7. CASE BtPost
    BY <1>1, <2>7 DEF BtPost, DataTypes, BtRec
  <2>. QED  BY <1>3, <1>5, <1>9, <2>1, <2>2, <2>3, <2>4, <2>5, <2>6, <2>7, ObjectFacts
            DEF BtStep, BtTake, BtNext, BtUnlock, BtStopped
<1>10. CASE LzStep
  <2>1. ASSUME NEW o \in Objects, MtSync_Create(o) PROVE DataTypes'
    <3>1. L' = L \/ L' = [L EXCEPT !.result = "error"]
      BY <2>1, Zenon DEF MtSync_Create
    <3>2. L' \in LzRec
      BY <1>1, <3>1, LzUpdates, Zenon
    <3>3. UNCHANGED <<conf, left, hashBuf, btBuf, H, B>>
      BY <2>1, Zenon DEF MtSync_Create
    <3>. QED  BY <1>1, <3>2, <3>3 DEF DataTypes
  <2>2. CASE MtSync_Init
    <3>1. B' = InitB /\ L' = InitL
      <4>1. \A o \in Objects : sync[o].needStart /\ ~sync[o].entered
        BY <2>2, InitReady DEF MtSync_Init
      <4>. QED  BY <2>2, <4>1, Zenon DEF MtSync_Init
    <3>2. 0 \in HashSlots /\ 0 \in BtSlots
      BY Numbers DEF HashSlots, BtSlots
    <3>3. B' \in BtRec /\ L' \in LzRec
      <4>1. InitB \in BtRec
        BY <3>2 DEF InitB, BtRec, none
      <4>2. InitL \in LzRec
        BY <3>2 DEF InitL, LzRec, none
      <4>. QED  BY <3>1, <4>1, <4>2
    <3>. QED  BY <1>1, <2>2, <3>3 DEF MtSync_Init, DataTypes
  <2>3. CASE LzNext
    <3>1. L' = [L EXCEPT !.k = 0, !.lim = 1] \/ L' = [L EXCEPT !.data = none]
      BY <2>3 DEF LzNext
    <3>2. L' \in LzRec
      <4>1. none \in Int /\ 0 \in Nat /\ 1 \in Int
        BY DEF none
      <4>2. CASE L' = [L EXCEPT !.k = 0, !.lim = 1]
        BY <1>1, <4>1, <4>2, LzUpdates, Zenon
      <4>3. CASE L' = [L EXCEPT !.data = none]
        BY <1>1, <4>1, <4>3, LzUpdates, Zenon
      <4>. QED  BY <3>1, <4>2, <4>3
    <3>. QED  BY <1>1, <2>3, <3>2 DEF LzNext, DataTypes
  <2>4. CASE LzGot
    <3>1. PICK s \in BtSlots : s = BlockIndex("bt")
      BY <1>2, Slots
    <3>2. PICK b \in [from : Nat, n : Int, avail : Int] : b = btBuf[s]
      BY <1>1
    <3>3. PICK m \in Int, f \in BOOLEAN :
            L' = [L EXCEPT !.slot = s, !.k = 0, !.lim = m, !.avail = b.avail, !.failed = f]
      <4>1. PICK m \in Int : m = IF b.n = none THEN 1 ELSE b.n
        BY <3>2
      <4>2. PICK f \in BOOLEAN : f = (b.n = none)
        OBVIOUS
      <4>. QED  BY <2>4, <3>1, <3>2, <4>1, <4>2, Zenon DEF LzGot
    <3>4. L' \in LzRec
      <4>1. b.avail \in Int /\ 0 \in Nat
        BY <3>2
      <4>. QED  BY <1>1, <3>3, <4>1, LzUpdates, Zenon
    <3>. QED  BY <1>1, <2>4, <3>4 DEF LzGot, DataTypes
  <2>5. CASE LzConsume
    <3>1. PICK i \in Int :
            L' = [L EXCEPT !.k = L.k + 1, !.avail = L.avail - 1, !.pos = L.pos + 1,
                           !.ptr = L.ptr + 1, !.data = L.ptr, !.item = i]
      <4>1. PICK i \in Int : i = IF L.failed THEN none ELSE btBuf[L.slot].from + L.k
        BY <1>1 DEF LzRec, none
      <4>. QED  BY <2>5, <4>1, Zenon DEF LzConsume
    <3>2. L' \in LzRec
      <4>1. /\ L.k + 1 \in Nat /\ L.avail - 1 \in Int /\ L.pos + 1 \in Nat
            /\ L.ptr + 1 \in Int /\ L.ptr \in Int
        BY <1>1 DEF LzRec
      <4>. QED  BY <1>1, <3>1, <4>1, LzUpdates, Zenon
    <3>. QED  BY <1>1, <2>5, <3>2 DEF LzConsume, DataTypes
  <2>6. CASE LzEnd
    <3>1. PICK r \in {"none", "ok", "error"} : L' = [L EXCEPT !.result = r, !.data = none]
      BY <2>6 DEF LzEnd
    <3>2. L' \in LzRec
      <4>1. none \in Int /\ 0 \in Nat /\ 1 \in Int
        BY DEF none
      <4>. QED  BY <1>1, <3>1, <4>1, LzUpdates, Zenon
    <3>. QED  BY <1>1, <2>6, <3>2 DEF LzEnd, DataTypes
  <2>7. CASE LzAbort
    <3>1. PICK r \in {"none", "ok", "error"} : L' = [L EXCEPT !.result = r, !.data = none]
      BY <2>7 DEF LzAbort
    <3>2. L' \in LzRec
      <4>1. none \in Int /\ 0 \in Nat /\ 1 \in Int
        BY DEF none
      <4>. QED  BY <1>1, <3>1, <4>1, LzUpdates, Zenon
    <3>. QED  BY <1>1, <2>7, <3>2 DEF LzAbort, DataTypes
  <2>8. CASE LzStopped
    BY <1>1, <2>8 DEF LzStopped, DataTypes
  <2>. QED  BY <1>3, <1>5, <1>10, <2>1, <2>2, <2>3, <2>4, <2>5, <2>6, <2>7, <2>8, ObjectFacts
            DEF LzStep, MtSync_Destruct, Thread_Wait_Close
<1>. QED  BY <1>4, <1>9, <1>10 DEF Next
(* ... and the window sound, moved only where it has to be. *)
LEMMA WindowKept ==
  ASSUME DataTypes, WindowInv, ThreadsInv, Next
  PROVE  WindowInv'
<1>1. SyncTypes /\ pc["hash"] \in HashPlaces /\ pc \in [Threads -> LzPlaces \cup BtPlaces \cup HashPlaces]
  BY DEF ThreadsInv, SyncTypes
<1>2. ASSUME UNCHANGED <<conf, mf>>,
             pc'["hash"] \in {"cs", "move", "fill"} => pc'["hash"] = pc["hash"]
      PROVE  WindowInv'
  BY <1>2 DEF WindowInv
<1>3. ASSUME NEW t \in {"bt", "lz"}, NEW l, Goto(t, l) PROVE pc'["hash"] = pc["hash"]
  BY <1>1, <1>3 DEF Goto, Threads
<1>4. CASE HashStep
  <2>1. CASE HashStart
    BY <1>1, <1>2, <2>1 DEF HashStart, Goto, Threads
  <2>2. CASE HashEnter1
    BY <1>1, <2>2 DEF HashEnter1, Goto, Threads, WindowInv
  <2>3. CASE HashEnter2
    BY <1>1, <2>3 DEF HashEnter2, Goto, Threads, WindowInv
  <2>4. CASE HashMove
    <3>1. /\ WindowSound(mf) /\ MatchFinder_NeedMove(mf) /\ mf.direct \in BOOLEAN
          /\ mf.direct = FALSE /\ mf.blockSize = GetBlockSize(mf.keepBefore, mf.keepAfter)
      BY <2>4 DEF WindowInv, WindowFor, HashMove, WindowSound, WindowRec, MatchFinder_NeedMove
    <3>2. MoveKeeps(mf, mf')
      BY <2>4, <3>1, MoveFacts, Zenon DEF HashMove
    <3>3. conf' = conf /\ pc'["hash"] = "loop"
      BY <1>1, <2>4 DEF HashMove, Goto, Threads
    <3>4. WindowFor(mf', conf)
      BY <3>2 DEF MoveKeeps, WindowFor, WindowInv
    <3>. QED  BY <3>3, <3>4 DEF WindowInv
  <2>5. CASE HashTake
    BY <1>1, <2>5 DEF HashTake, Goto, Threads, WindowInv
  <2>6. CASE HashFill
    <3>1. WindowFor(mf', conf)
      BY <2>6, FillFacts
    <3>2. conf' = conf /\ pc'["hash"] = "post"
      BY <1>1, <2>6 DEF HashFill, Goto, Threads
    <3>. QED  BY <3>1, <3>2 DEF WindowInv
  <2>7. CASE HashPost
    BY <1>1, <1>2, <2>7 DEF HashPost, Goto, Threads
  <2>8. CASE HashStopped
    BY <1>1, <1>2, <2>8 DEF HashStopped, Goto, Threads
  <2>. QED  BY <1>4, <2>1, <2>2, <2>3, <2>4, <2>5, <2>6, <2>7, <2>8 DEF HashStep
<1>5. ASSUME NEW o \in Objects, SyncStep(o) PROVE WindowInv'
  <2>1. Client(o) \in {"bt", "lz"}
    BY DEF Client
  <2>. QED  BY <1>2, <1>3, <1>5, <2>1, Zenon
            DEF SyncStep, NextStart, NextUnlock, NextRelease, NextWait, StopSend,
                StopRelease, StopWait, StopNothing
<1>6. CASE BtStep
  BY <1>2, <1>3, <1>5, <1>6, ObjectFacts
     DEF BtStep, BtStart, BtTake, BtFill, BtFull, BtNext, BtGot, BtLoad, BtMatch, BtUnlock,
         BtPost, BtStopped
<1>7. CASE LzStep
  <2>1. ASSUME NEW o \in Objects, MtSync_Create(o) PROVE WindowInv'
    <3>1. pc'["hash"] = pc["hash"] \/ pc'["hash"] = "start"
      BY <1>1, <2>1, ObjectFacts DEF MtSync_Create, Goto, Threads
    <3>2. UNCHANGED <<conf, mf>>
      BY <2>1, Zenon DEF MtSync_Create
    <3>. QED  BY <1>2, <3>1, <3>2
  <2>2. CASE MtSync_Init
    <3>1. pc["hash"] = "start" /\ mf' = NewWindow(conf) /\ conf' = conf
      <4>1. \A o \in Objects : sync[o].needStart /\ ~sync[o].entered
        BY <2>2, InitReady DEF MtSync_Init
      <4>2. pc["hash"] = "start"
        BY <2>2, InitReady DEF MtSync_Init
      <4>. QED  BY <2>2, <4>1, <4>2, Zenon DEF MtSync_Init
    <3>2. pc'["hash"] = pc["hash"]
      BY <1>3, <2>2 DEF MtSync_Init
    <3>3. WindowFor(mf', conf)
      BY <3>1, NewWindowFacts DEF DataTypes
    <3>. QED  BY <3>1, <3>2, <3>3 DEF WindowInv
  <2>. QED  BY <1>2, <1>3, <1>5, <1>7, <2>1, <2>2, ObjectFacts
            DEF LzStep, MtSync_Destruct, Thread_Wait_Close, LzNext, LzGot, LzConsume, LzEnd,
                LzAbort, LzStopped
<1>. QED  BY <1>4, <1>6, <1>7 DEF Next
(*---------------------------- the protocol's theorems -----------------------*)

ProtocolInv == DataTypes /\ WindowInv /\ ThreadsInv

(* The invariant of the protocol holds before MatchFinderMt_Create ... *)
LEMMA ProtocolInit == Init => ProtocolInv
<1>. SUFFICES ASSUME Init PROVE ProtocolInv
  OBVIOUS
<1>1. conf \in Confs /\ conf.streams \in Nat /\ left \in Int
  <2>1. conf \in Confs /\ conf.streams \in Nat \ {0} /\ left = conf.streams - 1
    BY ConfsAssumption DEF Init
  <2>. QED  BY <2>1
<1>2. 0 \in HashSlots /\ 0 \in BtSlots /\ 0 \in Nat
  BY Numbers DEF HashSlots, BtSlots
<1>3. B \in BtRec /\ L \in LzRec
  BY <1>2 DEF Init, InitB, InitL, BtRec, LzRec, none
<1>4. DataTypes
  BY <1>1, <1>2, <1>3 DEF DataTypes, Init, EmptyBlock, HashSlots, BtSlots
<1>5. pc = [lz |-> "create", bt |-> "none", hash |-> "none"]
  BY DEF Init
<1>6. WindowInv
  <2>1. WindowFor(mf, conf)
    BY NewWindowFacts DEF Init
  <2>. QED  BY <1>5, <2>1 DEF WindowInv
<1>7. sync = [o \in Objects |-> MtSync_Construct] /\ MtSync_Construct \in SyncRec
  BY DEF Init, MtSync_Construct, SyncRec
<1>8. SyncTypes
  <2>1. DOMAIN pc = Threads
    BY <1>5 DEF Threads
  <2>. QED  BY <1>5, <1>7, <2>1
            DEF SyncTypes, Threads, LzPlaces, BtPlaces, HashPlaces, Calls
<1>9. \A o \in Objects :
        /\ sync[o].created = FALSE /\ sync[o].needStart = FALSE /\ sync[o].canStart = FALSE
        /\ sync[o].wasStopped = FALSE /\ sync[o].free = 0 /\ sync[o].filled = 0
        /\ sync[o].cs = "none" /\ sync[o].entered = FALSE /\ sync[o].stopWriting = FALSE
        /\ sync[o].exit = FALSE /\ sync[o].refused = FALSE
  BY <1>7 DEF MtSync_Construct
<1>10. /\ pc["lz"] = "create" /\ pc["bt"] = "none" /\ pc["hash"] = "none"
       /\ L.result = "none"
  BY <1>5 DEF Init, InitL
<1>11. ThreadsInv
  BY <1>8, <1>9, <1>10, ObjectFacts, Numbers
     DEF ThreadsInv, ObjectSound, Running, IdleSound, SectionsSound, LivesSound, FreshSound,
         Fresh, Ending
<1>. QED  BY <1>4, <1>6, <1>11 DEF ProtocolInv

(* ... and every step of the three threads keeps it. *)
LEMMA ProtocolNext == ProtocolInv /\ [Next]_vars => ProtocolInv'
<1>. SUFFICES ASSUME ProtocolInv, [Next]_vars PROVE ProtocolInv'
  OBVIOUS
<1>1. CASE Next
  <2>1. DataTypes' /\ WindowInv'
    BY <1>1, DataKept, WindowKept DEF ProtocolInv
  <2>2. ThreadsInv'
    BY <1>1, HashThreads, BtThreads, LzThreads DEF ProtocolInv, DataTypes, Next
  <2>. QED  BY <2>1, <2>2 DEF ProtocolInv
<1>2. CASE UNCHANGED vars
  BY <1>2 DEF vars, ProtocolInv, DataTypes, WindowInv, WindowFor, ThreadsInv, SyncTypes,
     ObjectSound,
              SectionsSound, LivesSound, FreshSound, Fresh, HeadsFor
<1>. QED  BY <1>1, <1>2

(* The events, the semaphores and the critical sections of the two CMtSync     *)
(* (MtSync_GetNextBlock, MtSync_StopWriting): every block is either free,      *)
(* filled or in the hands of one of the two threads, a worker stops only when  *)
(* it was told to, and the window is sound.                                    *)
THEOREM ProtocolInvariant == Spec => []ProtocolInv
<1>. QED  BY ProtocolInit, ProtocolNext, PTL DEF Spec

(* MatchFinderMt_Destruct and a new stream: when the encoder begins either,    *)
(* the workers are stopped and nobody is inside a critical section.            *)
THEOREM DestructedSafely == Spec => []SafeToDestruct
<1>1. ProtocolInv => SafeToDestruct
  <2>. SUFFICES ASSUME ThreadsInv, pc["lz"] \in {"init", "destruct"},
                       NEW o \in Objects, sync[o].created
                PROVE  sync[o].needStart /\ sync[o].cs = "none" /\ pc[o] = "start"
    BY DEF ProtocolInv, SafeToDestruct
  <2>1. /\ sync["bt"] \in SyncRec /\ sync["hash"] \in SyncRec
        /\ pc["bt"] \in BtPlaces /\ pc["hash"] \in HashPlaces
    BY ObjectFacts DEF ThreadsInv, SyncTypes
  <2>2. ~Running(sync["bt"])
    BY DEF ThreadsInv, LivesSound
  <2>3. /\ sync["bt"].created = TRUE => sync["bt"].needStart = TRUE /\ pc["bt"] = "start"
        /\ pc["bt"] \in {"none", "start", "dead"}
    BY <2>1, <2>2, ObjectFacts
       DEF Running, ThreadsInv, ObjectSound, IdleSound, SyncRec, Ending
  <2>4. ~Running(sync["hash"])
    BY <2>3 DEF ThreadsInv, LivesSound
  <2>5. sync["hash"].created = TRUE => sync["hash"].needStart = TRUE /\ pc["hash"] = "start"
    BY <2>1, <2>4, ObjectFacts
       DEF Running, ThreadsInv, ObjectSound, IdleSound, SyncRec, Ending
  <2>6. sync["bt"].entered = FALSE /\ sync["hash"].entered = FALSE
    BY <2>1, <2>2, <2>4 DEF ThreadsInv, SectionsSound, SyncRec
  <2>7. pc["hash"] \notin {"cs", "move"}
    BY <2>1, <2>4, ObjectFacts
       DEF Running, ThreadsInv, ObjectSound, IdleSound, SyncRec, Ending
  <2>8. sync["bt"].cs = "none" /\ sync["hash"].cs = "none"
    BY <2>6, <2>7, ObjectFacts DEF ThreadsInv, SectionsSound
  <2>. QED  BY <2>1, <2>3, <2>5, <2>8, ObjectFacts DEF SyncRec
<1>. QED  BY <1>1, ProtocolInvariant, PTL

(* "check semaphore count !!!" in MtSync_StopWriting: no release is refused.   *)
THEOREM NoReleaseRefused == Spec => []ReleasesCounted
<1>1. ProtocolInv => ReleasesCounted
  BY ObjectFacts DEF ProtocolInv, ThreadsInv, ObjectSound, IdleSound, ReleasesCounted
<1>. QED  BY <1>1, ProtocolInvariant, PTL

-------------------------------------------------------------------------------
(* What the threads hand to each other: the blocks arrive in order and fit,    *)
(* the bytes that are said to be available are, and the window is moved only   *)
(* while nobody reads through a pointer into it.                               *)

(*------------------------- the invariant of the blocks ----------------------*)

(* Places at which a client is about to get a block. *)
Asking == {"release", "wait0", "wait", "lock0", "lock"}

(* While the encoder is at one of these places a stream is encoded, and while  *)
(* the bt thread is at one of these it works for it.                           *)
Streaming == pc["lz"] \in Asking \cup {"run", "have", "next"}

Working == Asking \cup {"loop", "fill", "get", "match", "unlock", "post", "next"}

BtLive == Streaming \/ pc["bt"] \in Working

(* The bt thread is inside BtFillBlock. *)
Filling == pc["bt"] \in Asking \cup {"get", "match", "next"}

(* How many blocks a client has been given, how many of them it has looked at, *)
(* the oldest one that it has not given back, and how many there are.          *)
Got(o) == IF pc[Client(o)] \in {"release", "wait0", "wait"}
          THEN sync[o].num - 1 ELSE sync[o].num

Known(o) == IF pc[Client(o)] \in Asking THEN sync[o].num - 1 ELSE sync[o].num

Oldest(o) == Got(o) - Given(pc[Client(o)])

HashMade == Got("hash") + sync["hash"].filled + (IF pc["hash"] = "post" THEN 1 ELSE 0)

BtMade == Got("bt") + sync["bt"].filled + (IF pc["bt"] \in {"unlock", "post"} THEN 1 ELSE 0)

(* The counts of MtSync_GetNextBlock, and those of the workers. *)
CountSound(s, c) ==
  /\ s.num >= 1
  /\ c \in {"release", "wait", "lock"} => s.num >= 2
  /\ c \in {"wait0", "lock0"} => s.num = 1

HashCounted ==
  /\ CountSound(sync["hash"], pc["bt"])
  /\ sync["hash"].canStart = FALSE => H = HashMade

BtCounted ==
  /\ CountSound(sync["bt"], pc["lz"])
  /\ sync["bt"].canStart = FALSE => B.bi = Got("bt") + sync["bt"].filled

CountsSound ==
  /\ Running(sync["hash"]) => HashCounted
  /\ Running(sync["bt"]) => BtCounted

(* Blocks of heads follow each other without a gap, up to where the window is. *)
HashBlock(k) == hashBuf[k % kMtHashNumBlocks]

HashAt(k) == IF k < HashMade THEN HashBlock(k).from ELSE At(mf)

HashChain ==
  Running(sync["hash"]) =>
    \A k \in Oldest("hash") .. HashMade - 1 :
      /\ HeadsFor(HashBlock(k).from, HashBlock(k).avail, HashBlock(k).n)
      /\ HashAt(k + 1) = HashBlock(k).from + Span(HashBlock(k).avail, HashBlock(k).n)

(* The position of the first head that the bt thread has not looked at. *)
HashNext == IF Running(sync["hash"]) THEN HashAt(Known("hash")) ELSE At(mf)

(* What the bt thread knows of the block it looks at. *)
HashHeld ==
  Running(sync["hash"]) /\ pc["bt"] \in Working \ Asking =>
    LET h == HashBlock(sync["hash"].num - 1)
    IN /\ B.slot = (sync["hash"].num - 1) % kMtHashNumBlocks
       /\ B.hlim = h.n
       /\ h.avail >= NumHashBytes => B.pos = h.from + B.hpos /\ B.hnum = h.avail - B.hpos

(* Where it is in the stream: before the heads it knows, or at the end, where  *)
(* no more heads come. *)
CursorSound ==
  /\ 0 <= B.hnum /\ B.pos + B.hnum <= conf.len
  /\ \/ B.pos + (B.hlim - B.hpos) = HashNext
     \/ HashNext = conf.len /\ B.hlim = B.hpos
  /\ HashNext = conf.len => B.hlim = B.hpos /\ B.hnum = 0
  /\ pc["bt"] \in Asking \cup {"next"} => B.hpos = B.hlim
  /\ pc["bt"] = "match" => B.hpos # B.hlim

(* What BtFillBlock has put into the block so far. *)
FillingSound ==
  /\ B.failed = FALSE
  /\ B.from + B.done = B.pos /\ B.avail <= B.done + B.hnum
  /\ B.avail = B.done + B.hnum \/ B.avail >= MaxAvail
  /\ B.done + 2 <= B.used /\ (B.done = 0 => B.used = 2)
  /\ HashNext = conf.len \/ ~Running(sync["hash"]) => B.done = 0
  /\ pc["bt"] # "get" => B.used < BtLimit

BtCursor ==
  /\ BtLive => CursorSound
  /\ Filling => FillingSound

(* The position that a block of matches begins with: without any bytes it is   *)
(* the end.  The same of the block that the bt thread fills or will fill.      *)
BtPos(b) == IF b.n = 0 /\ b.avail = 0 THEN conf.len ELSE b.from

Begin == IF HashNext = conf.len THEN conf.len ELSE IF Filling THEN B.from ELSE B.pos

BtBlockAt(k) == btBuf[k % kMtBtNumBlocks]

BtAt(k) == IF k < BtMade THEN BtPos(BtBlockAt(k)) ELSE Begin

(* A block of matches is of a failure, or has less positions than there are    *)
(* bytes, or is the last one.                                                  *)
BtBlockSound(b) ==
  /\ 0 <= b.avail /\ BtPos(b) + b.avail <= conf.len
  /\ \/ b.n = none
     \/ 0 < b.n /\ b.n < b.avail
     \/ b.n = b.avail /\ BtPos(b) + b.n = conf.len

BtChain ==
  Streaming /\ Running(sync["bt"]) =>
    \A k \in Oldest("bt") .. BtMade - 1 :
      /\ BtBlockSound(BtBlockAt(k))
      /\ BtBlockAt(k).n # none => BtAt(k + 1) = BtPos(BtBlockAt(k)) + BtBlockAt(k).n

(* After a failure the last block is one of a failure, and the encoder has     *)
(* that still before it or goes no further. *)
FailSound ==
  Streaming /\ B.failed = TRUE =>
    /\ Running(sync["bt"]) /\ BtBlockAt(BtMade - 1).n = none
    /\ L.failed = TRUE \/ Known("bt") < BtMade

(* What the encoder knows of the block b that it looks at. *)
BtKnown(b) ==
  /\ L.slot = (sync["bt"].num - 1) % kMtBtNumBlocks
  /\ L.failed = TRUE <=> b.n = none
  /\ L.failed = FALSE => L.lim = b.n /\ L.pos = BtPos(b) + L.k /\ L.avail = b.avail - L.k
  /\ L.failed = TRUE => L.lim = 1 /\ L.pos >= BtPos(b) /\ L.pos + L.avail <= conf.len

BtHeld ==
  Streaming =>
    /\ L.result = "none"
    /\ Running(sync["bt"]) /\ pc["lz"] \in {"run", "have"}
         => BtKnown(BtBlockAt(sync["bt"].num - 1))
    /\ pc["lz"] = "have" => L.k = 0 /\ Running(sync["bt"])
    /\ ~Running(sync["bt"]) => L.failed = FALSE /\ L.pos = Begin /\ L.k = L.lim /\ L.avail = 0
    /\ pc["lz"] \in Asking \cup {"next"} =>
         /\ L.failed = FALSE /\ L.k = L.lim
         /\ Running(sync["bt"]) => L.pos = BtAt(Known("bt"))

(* The counters stay in their ranges whether or not a stream is encoded. *)
BtRanges == 0 <= B.hpos /\ B.hpos <= B.hlim /\ B.used <= kMtBtBlockSize

LzRanges ==
  /\ 0 <= L.k /\ L.k <= L.lim /\ 0 <= L.avail
  /\ L.result = "ok" => L.pos = conf.len

(* What the encoder got last was for the position before the current one. *)
ItemSound == L.item # none => L.item = L.pos - 1

(* A client looks only at what it got from a worker that it has started. *)
StartedSound ==
  /\ pc["lz"] = "have" => Running(sync["bt"])
  /\ pc["lz"] = "run" /\ ~Running(sync["bt"]) => L.k = L.lim /\ L.failed = FALSE
  /\ BtLive /\ ~Running(sync["hash"]) => B.hpos = B.hlim
  /\ pc["bt"] = "match" => Running(sync["hash"])

(* The pointers into the window, and what is read through them. *)
PointersSound ==
  /\ mf.origin + B.ptr = B.pos /\ mf.origin + L.ptr = L.pos
  /\ pc["bt"] = "match" => B.cur = B.ptr
  /\ L.data # none => /\ L.data = L.ptr - 1 /\ Running(sync["bt"])
                      /\ pc["lz"] \in {"run", "have"}
(*--------------------------- who looks at what it got -----------------------*)

(* Where the threads are after one of them has gone on to l. *)
LEMMA Places ==
  ASSUME SyncTypes
  PROVE  /\ \A l : Goto("lz", l) => pc'["lz"] = l /\ pc'["bt"] = pc["bt"] /\ pc'["hash"] = pc["hash"]
         /\ \A l : Goto("bt", l) => pc'["bt"] = l /\ pc'["lz"] = pc["lz"] /\ pc'["hash"] = pc["hash"]
         /\ \A l : Goto("hash", l) => pc'["hash"] = l /\ pc'["lz"] = pc["lz"] /\ pc'["bt"] = pc["bt"]
<1>1. pc \in [Threads -> LzPlaces \cup BtPlaces \cup HashPlaces]
  BY DEF SyncTypes
<1>. QED  BY <1>1 DEF Goto, Threads

(* A step of MtSync_GetNextBlock or MtSync_StopWriting: what it leaves alone,  *)
(* and that a worker is started and stopped only by its client. *)
LEMMA CallFrame ==
  ASSUME ThreadsInv, NEW o \in Objects, SyncStep(o)
  PROVE  /\ UNCHANGED <<conf, left, mf, hashBuf, btBuf, H, B, L>>
         /\ \E l \in Calls : Goto(Client(o), l)
         /\ pc[Client(o)] \in Calls
         /\ \A q \in Objects : q # o => sync'[q] = sync[q]
<1>1. sync \in [Objects -> SyncRec]
  BY DEF ThreadsInv, SyncTypes
<1>2. UNCHANGED <<conf, left, mf, hashBuf, btBuf, H, B, L>>
  BY DEF SyncStep, NextStart, NextUnlock, NextRelease, NextWait, StopSend, StopRelease,
         StopWait, StopNothing
<1>3. \E l \in Calls : Goto(Client(o), l)
  BY DEF SyncStep, NextStart, NextUnlock, NextRelease, NextWait, StopSend, StopRelease,
         StopWait, StopNothing, Calls
<1>4. pc[Client(o)] \in Calls
  BY DEF SyncStep, NextStart, NextUnlock, NextRelease, NextWait, StopSend, StopRelease,
         StopWait, StopNothing, Calls
<1>5. ASSUME NEW q \in Objects, q # o PROVE sync'[q] = sync[q]
  BY <1>1, <1>5 DEF SyncStep, NextStart, NextUnlock, NextRelease, NextWait, StopSend,
         StopRelease, StopWait, StopNothing
<1>. QED  BY <1>2, <1>3, <1>4, <1>5, Zenon

(* A bt thread that stops was told to, and so the encoder waits for it. *)
LEMMA StoppingFacts ==
  ASSUME ThreadsInv
  PROVE  /\ pc["bt"] \in {"stop", "stop2", "stop3", "stopped"}
              => Running(sync["bt"]) /\ pc["lz"] \in {"stop2", "stop3"}
         /\ pc["bt"] \notin {"none", "start", "dead"} => Running(sync["bt"])
         /\ pc["hash"] \notin {"none", "start", "dead"} => Running(sync["hash"])
         /\ pc["hash"] = "set" => pc["bt"] \in {"stop2", "stop3"}
<1>1. /\ sync["bt"] \in SyncRec /\ sync["hash"] \in SyncRec
      /\ pc["bt"] \in BtPlaces /\ pc["hash"] \in HashPlaces
  BY ObjectFacts DEF ThreadsInv, SyncTypes
<1>2. pc["bt"] \notin {"none", "start", "dead"} => Running(sync["bt"])
  BY <1>1 DEF ThreadsInv, ObjectSound, IdleSound, Running, SyncRec
<1>3. pc["hash"] \notin {"none", "start", "dead"} => Running(sync["hash"])
  BY <1>1 DEF ThreadsInv, ObjectSound, IdleSound, Running, SyncRec
<1>4. /\ Running(sync["bt"]) => RunSound(sync["bt"], NumBlocks("bt"), pc["bt"], pc["lz"])
      /\ Running(sync["hash"])
           => RunSound(sync["hash"], NumBlocks("hash"), pc["hash"], pc["bt"])
  BY ObjectFacts DEF ThreadsInv, ObjectSound
<1>. QED  BY <1>1, <1>2, <1>3, <1>4 DEF RunSound

(* A worker is started and stopped by its client only. *)
LEMMA RunningKept ==
  ASSUME ThreadsInv, Next, NEW o \in Objects
  PROVE  /\ HashStep \/ (BtStep /\ ~SyncStep("hash")) \/ (LzStep /\ ~SyncStep("bt"))
            => (Running(sync'[o]) <=> Running(sync[o]))
         /\ \/ Running(sync'[o]) <=> Running(sync[o])
            \/ NextStart(o)
            \/ StopWait(o)
<1>. DEFINE Same == Running(sync'[o]) <=> Running(sync[o])
<1>1. /\ SyncTypes /\ sync \in [Objects -> SyncRec] /\ sync[o] \in SyncRec
      /\ sync["bt"] \in SyncRec /\ sync["hash"] \in SyncRec
  BY ObjectFacts DEF ThreadsInv, SyncTypes
<1>2. ASSUME NEW q \in Objects, NEW x, sync' = [sync EXCEPT ![q] = x],
             x.created = sync[q].created, x.needStart = sync[q].needStart
      PROVE  Same
  BY <1>1, <1>2 DEF Running
<1>3. ASSUME sync' = sync PROVE Same
  BY <1>3
<1>4. ASSUME NEW s \in SyncRec, NEW f \in {"free", "filled"}, NEW n
      PROVE  /\ Release1(s, f, n).created = s.created
             /\ Release1(s, f, n).needStart = s.needStart
  BY <1>4 DEF Release1, SyncRec
<1>5. ASSUME NEW s \in SyncRec, NEW t
      PROVE  /\ UNLOCK_BUFFER(s) \in SyncRec
             /\ LOCK_BUFFER(s, t).created = s.created /\ LOCK_BUFFER(s, t).needStart = s.needStart
             /\ UNLOCK_BUFFER(s).created = s.created /\ UNLOCK_BUFFER(s).needStart = s.needStart
  BY <1>5 DEF LOCK_BUFFER, UNLOCK_BUFFER, SyncRec
<1>6. ASSUME NEW q \in Objects, Locked(q) PROVE Same
  <2>1. sync' = [sync EXCEPT ![q] = LOCK_BUFFER(sync[q], Client(q))] /\ sync[q] \in SyncRec
    BY <1>1, <1>6 DEF Locked
  <2>. QED  BY <1>2, <1>5, <2>1
<1>7. ASSUME NEW q \in Objects, SyncStep(q) PROVE Same \/ NextStart(o) \/ StopWait(o)
  <2>1. sync[q] \in SyncRec
    BY <1>1
  <2>2. CASE NextUnlock(q)
    <3>1. sync' = [sync EXCEPT ![q] = [UNLOCK_BUFFER(sync[q]) EXCEPT !.num = @ + 1]]
      BY <2>2 DEF NextUnlock
    <3>2. ASSUME NEW u \in SyncRec
          PROVE  /\ [u EXCEPT !.num = @ + 1].created = u.created
                 /\ [u EXCEPT !.num = @ + 1].needStart = u.needStart
      BY <3>2 DEF SyncRec
    <3>. QED  BY <1>2, <1>5, <2>1, <3>1, <3>2, Zenon
  <2>3. CASE NextRelease(q) \/ StopRelease(q)
    BY <1>2, <1>4, <2>1, <2>3 DEF NextRelease, StopRelease
  <2>4. CASE NextWait(q)
    BY <1>1, <1>2, <2>1, <2>4 DEF NextWait, SyncRec
  <2>5. CASE StopSend(q)
    <3>1. PICK u \in SyncRec :
            /\ u.created = sync[q].created /\ u.needStart = sync[q].needStart
            /\ sync' = [sync EXCEPT ![q] = [u EXCEPT !.stopWriting = TRUE]]
      BY <1>5, <2>1, <2>5 DEF StopSend
    <3>2. /\ [u EXCEPT !.stopWriting = TRUE].created = u.created
          /\ [u EXCEPT !.stopWriting = TRUE].needStart = u.needStart
      BY DEF SyncRec
    <3>. QED  BY <1>2, <3>1, <3>2, Zenon
  <2>6. CASE StopNothing(q)
    BY <1>3, <2>6 DEF StopNothing
  <2>7. CASE q # o
    BY <1>7, <2>7, CallFrame
  <2>. QED  BY <1>7, <2>2, <2>3, <2>4, <2>5, <2>6, <2>7 DEF SyncStep
<1>8. CASE HashStep
  <2>1. CASE HashMove
    BY <1>1, <2>1, ObjectFacts DEF HashMove, Running, SyncRec
  <2>2. CASE HashPost
    BY <1>1, <1>2, <1>4, <2>2, ObjectFacts DEF HashPost
  <2>3. CASE HashFill
    BY <1>3, <2>3 DEF HashFill
  <2>. QED  BY <1>1, <1>2, <1>8, <2>1, <2>2, <2>3, ObjectFacts
            DEF HashStep, HashStart, HashEnter1, HashEnter2, HashTake, HashStopped, SyncRec
<1>9. ASSUME BtStep, ~SyncStep("hash") PROVE Same
  <2>1. CASE BtStart \/ BtTake \/ BtStopped
    BY <1>1, <1>2, <2>1, ObjectFacts DEF BtStart, BtTake, BtStopped, SyncRec
  <2>2. CASE BtFill
    BY <1>1, <1>2, <1>3, <1>5, <2>2, ObjectFacts DEF BtFill
  <2>3. CASE BtGot
    BY <1>6, <2>3, ObjectFacts DEF BtGot
  <2>4. CASE BtUnlock
    BY <1>1, <1>2, <1>5, <2>4, ObjectFacts DEF BtUnlock
  <2>5. CASE BtPost
    BY <1>1, <1>2, <1>4, <2>5, ObjectFacts DEF BtPost
  <2>. QED  BY <1>3, <1>9, <2>1, <2>2, <2>3, <2>4, <2>5
            DEF BtStep, BtFull, BtNext, BtLoad, BtMatch
<1>10. ASSUME NEW q \in Objects, MtSync_Create(q) PROVE Same
  <2>1. CASE sync' = [sync EXCEPT ![q].created = TRUE, ![q].needStart = TRUE, ![q].exit = TRUE]
    <3>1. ~Running(sync[q])
      BY <1>1, <1>10, ObjectFacts, StoppingFacts DEF MtSync_Create, ThreadsInv, LivesSound
    <3>2. ~Running(sync'[q]) /\ (q # o => sync'[o] = sync[o])
      BY <1>1, <2>1 DEF Running, SyncRec
    <3>. QED  BY <3>1, <3>2
  <2>2. CASE sync' = sync
    BY <1>3, <2>2
  <2>. QED  BY <1>10, <2>1, <2>2, Zenon DEF MtSync_Create
<1>11. ASSUME NEW q \in Objects, MtSync_Destruct(q) PROVE Same
  <2>1. CASE sync' = [sync EXCEPT ![q].exit = TRUE, ![q].canStart = TRUE]
    BY <1>1, <2>1 DEF Running, SyncRec
  <2>2. CASE sync' = sync
    BY <1>3, <2>2
  <2>. QED  BY <1>11, <2>1, <2>2, Zenon DEF MtSync_Destruct
<1>12. ASSUME NEW q \in Objects, Thread_Wait_Close(q) PROVE Same
  <2>1. ~Running(sync[q])
    BY <1>1, <1>12, ObjectFacts
       DEF Thread_Wait_Close, Running, SyncRec, ThreadsInv, ObjectSound, IdleSound
  <2>2. sync' = [sync EXCEPT ![q].created = FALSE]
    BY <1>12 DEF Thread_Wait_Close
  <2>. QED  BY <1>1, <2>1, <2>2 DEF Running, SyncRec
<1>13. CASE MtSync_Init
  <2>1. CASE sync' = [q \in Objects |-> [sync[q] EXCEPT !.free = NumBlocks(q), !.filled = 0]]
    <3>1. sync'[o] = [sync[o] EXCEPT !.free = NumBlocks(o), !.filled = 0]
      BY <2>1
    <3>. QED  BY <1>1, <3>1 DEF Running, SyncRec
  <2>2. CASE sync' = sync
    BY <1>3, <2>2
  <2>. QED  BY <1>13, <2>1, <2>2, Zenon DEF MtSync_Init
<1>14. ASSUME LzNext \/ LzConsume \/ LzEnd \/ LzAbort \/ LzStopped PROVE Same
  BY <1>3, <1>14 DEF LzNext, LzConsume, LzEnd, LzAbort, LzStopped
<1>15. CASE LzGot
  BY <1>6, <1>15, ObjectFacts DEF LzGot
<1>. QED  BY <1>7, <1>8, <1>9, <1>10, <1>11, <1>12, <1>13, <1>14, <1>15, ObjectFacts
          DEF Next, BtStep, LzStep

(* Until its worker runs a client has nothing to look at. *)
LEMMA StartedKept ==
  ASSUME DataTypes, ThreadsInv, StartedSound, Next
  PROVE  StartedSound'
<1>. USE DEF StartedSound
<1>1. /\ SyncTypes /\ pc["lz"] \in LzPlaces /\ pc["bt"] \in BtPlaces
      /\ pc["hash"] \in HashPlaces /\ B \in BtRec /\ L \in LzRec
  BY DEF ThreadsInv, SyncTypes, DataTypes
<1>2. ASSUME Running(sync'["bt"]) <=> Running(sync["bt"]),
             Running(sync'["hash"]) <=> Running(sync["hash"]),
             pc'["lz"] = pc["lz"], L'.k = L.k, L'.lim = L.lim, L'.failed = L.failed,
             BtLive' => BtLive, B'.hpos = B.hpos, B'.hlim = B.hlim,
             pc'["bt"] = "match" => pc["bt"] = "match"
      PROVE  StartedSound'
  BY <1>2
<1>3. ASSUME NEW o \in Objects, pc[Client(o)] \notin {"next", "stop3"}
      PROVE  Running(sync'[o]) <=> Running(sync[o])
  BY <1>3, RunningKept DEF NextStart, StopWait
<1>4. ASSUME NEW o \in Objects, SyncStep(o)
      PROVE  \A q \in Objects : q # o => Running(sync'[q]) <=> Running(sync[q])
  BY <1>4, CallFrame
<1>5. ASSUME HashStep \/ (LzStep /\ ~SyncStep("bt")) \/ (BtStep /\ ~SyncStep("hash"))
      PROVE  /\ Running(sync'["hash"]) <=> Running(sync["hash"])
             /\ Running(sync'["bt"]) <=> Running(sync["bt"])
  BY <1>5, RunningKept, ObjectFacts
<1>6. CASE HashStep
  <2>1. pc'["lz"] = pc["lz"] /\ pc'["bt"] = pc["bt"] /\ BtLive' = BtLive
    BY <1>1, <1>6, Places
       DEF HashStep, HashStart, HashEnter1, HashEnter2, HashMove, HashTake, HashFill, HashPost,
           HashStopped, BtLive, Streaming
  <2>2. /\ L'.k = L.k /\ L'.lim = L.lim /\ L'.failed = L.failed
        /\ B'.hpos = B.hpos /\ B'.hlim = B.hlim
    <3>1. CASE HashMove
      <4>1. PICK d : L' = [L EXCEPT !.ptr = L.ptr - d] /\ B' = [B EXCEPT !.ptr = B.ptr - d]
        BY <3>1 DEF HashMove
      <4>. QED  BY <1>1, <4>1 DEF BtRec, LzRec
    <3>2. CASE L' = L /\ B' = B
      BY <3>2
    <3>. QED  BY <1>6, <3>1, <3>2
              DEF HashStep, HashStart, HashEnter1, HashEnter2, HashTake, HashFill, HashPost,
                  HashStopped
  <2>. QED  BY <1>2, <1>5, <1>6, <2>1, <2>2
<1>7. CASE SyncStep("hash")
  <2>1. /\ L' = L /\ B' = B /\ sync'["bt"] = sync["bt"] /\ pc'["lz"] = pc["lz"]
        /\ pc["bt"] \in Calls /\ pc'["bt"] \in Calls
    BY <1>1, <1>7, CallFrame, ObjectFacts, Places
  <2>2. BtLive' => BtLive
    <3>1. CASE pc'["bt"] \in Working
      BY <1>1, <1>7, <2>1, <3>1, StoppingFacts, ObjectFacts, Places
         DEF SyncStep, NextStart, NextUnlock, NextRelease, NextWait, StopSend, StopRelease,
             StopWait, StopNothing, BtLive, Working, Asking
    <3>. QED  BY <2>1, <3>1 DEF BtLive, Streaming
  <2>3. CASE NextStart("hash")
    <3>1. ~Running(sync["hash"])
      BY <2>3, ObjectFacts DEF NextStart, Running, ThreadsInv, SyncTypes, SyncRec
    <3>. QED  BY <2>1, <2>2, <3>1 DEF Calls
  <2>4. CASE StopWait("hash")
    <3>1. pc["lz"] \in {"stop2", "stop3"} /\ pc'["bt"] = "stopped"
      BY <1>1, <2>4, Places, StoppingFacts, ObjectFacts DEF StopWait
    <3>. QED  BY <2>1, <3>1 DEF BtLive, Streaming, Working, Asking
  <2>5. CASE Running(sync'["hash"]) <=> Running(sync["hash"])
    BY <1>2, <2>1, <2>2, <2>5 DEF Calls
  <2>. QED  BY <2>3, <2>4, <2>5, RunningKept, ObjectFacts
<1>8. CASE SyncStep("bt")
  <2>1. /\ L' = L /\ B' = B /\ sync'["hash"] = sync["hash"] /\ pc'["bt"] = pc["bt"]
        /\ pc["lz"] \in Calls /\ pc'["lz"] \in Calls
    BY <1>1, <1>8, CallFrame, ObjectFacts, Places
  <2>2. Streaming' => Streaming
    BY <1>1, <1>8, <2>1, ObjectFacts, Places
       DEF SyncStep, NextStart, NextUnlock, NextRelease, NextWait, StopSend, StopRelease,
           StopWait, StopNothing, Streaming, Asking
  <2>. QED  BY <2>1, <2>2 DEF BtLive, Calls
<1>9. ASSUME BtStep, ~SyncStep("hash") PROVE StartedSound'
  <2>1. /\ pc'["lz"] = pc["lz"] /\ L' = L
        /\ pc["bt"] \in Working \/ BtStart \/ BtStopped
    BY <1>1, <1>9, Places
       DEF BtStep, BtStart, BtTake, BtFill, BtFull, BtNext, BtGot, BtLoad, BtMatch, BtUnlock,
           BtPost, BtStopped, Locked, Working, Asking, Client
  <2>2. BtLive' => BtLive
    <3>1. CASE BtStart
      <4>1. ~Running(sync["bt"]) => pc'["bt"] = "dead"
        BY <1>1, <3>1, Places, ObjectFacts
           DEF BtStart, Running, ThreadsInv, ObjectSound, IdleSound, SyncTypes, SyncRec
      <4>2. Running(sync["bt"]) => pc["lz"] = "wait0"
        BY <1>1, <3>1, ObjectFacts
           DEF BtStart, ThreadsInv, ObjectSound, RunSound, SyncTypes, SyncRec
      <4>. QED  BY <2>1, <4>1, <4>2 DEF BtLive, Streaming, Asking, Working
    <3>2. CASE BtStopped
      BY <1>1, <2>1, <3>2, Places DEF BtStopped, BtLive, Streaming, Asking, Working
    <3>. QED  BY <2>1, <3>1, <3>2 DEF BtLive
  <2>3. CASE BtGot
    BY <1>1, <1>5, <1>9, <2>1, <2>3, Places, ObjectFacts DEF BtGot, Locked, ThreadsInv, LivesSound
  <2>4. CASE BtMatch
    BY <1>1, <1>5, <1>9, <2>1, <2>4, Places DEF BtMatch
  <2>5. CASE BtLoad
    BY <1>1, <1>5, <1>9, <2>1, <2>2, <2>5, Places DEF BtLoad, BtLive, Working, BtRec
  <2>6. ASSUME ~BtGot, ~BtMatch, ~BtLoad
        PROVE  B'.hpos = B.hpos /\ B'.hlim = B.hlim /\ pc'["bt"] # "match"
    <3>1. pc'["bt"] # "match"
      BY <1>1, <1>9, <2>6, Places
         DEF BtStep, BtStart, BtTake, BtFill, BtFull, BtNext, BtUnlock, BtPost, BtStopped
    <3>2. CASE BtFill
      BY <1>1, <3>1, <3>2 DEF BtFill, BtRec
    <3>. QED  BY <1>1, <1>9, <2>6, <3>1, <3>2
              DEF BtStep, BtStart, BtTake, BtFull, BtNext, BtUnlock, BtPost, BtStopped, BtRec
  <2>. QED  BY <1>2, <1>5, <1>9, <2>1, <2>2, <2>3, <2>4, <2>5, <2>6
<1>10. ASSUME NEW o \in Objects, LzStep,
              MtSync_Create(o) \/ MtSync_Destruct(o) \/ Thread_Wait_Close(o)
       PROVE  StartedSound'
  <2>1. /\ pc'["lz"] \notin {"have", "run"} /\ ~Streaming' /\ B' = B
        /\ pc["lz"] \in {"create", "create2", "destruct", "destruct2", "join", "join2"}
    BY <1>1, <1>10, ObjectFacts, Places
       DEF MtSync_Create, MtSync_Destruct, Thread_Wait_Close, Streaming, Asking, Goto, Threads,
           SyncTypes
  <2>2. pc'["bt"] = pc["bt"] \/ pc'["bt"] = "start"
    BY <1>1, <1>10, ObjectFacts
       DEF MtSync_Create, MtSync_Destruct, Thread_Wait_Close, Goto, Threads, SyncTypes
  <2>3. Running(sync'["hash"]) <=> Running(sync["hash"])
    <3>1. ~SyncStep("bt")
      BY <2>1, CallFrame, ObjectFacts DEF Calls
    <3>. QED  BY <1>5, <1>10, <3>1
  <2>. QED  BY <2>1, <2>2, <2>3 DEF BtLive, Working, Asking
<1>11. ASSUME LzEnd \/ LzAbort \/ LzStopped PROVE StartedSound'
  <2>1. /\ pc'["lz"] \in {"stop", "init", "destruct"} /\ pc'["bt"] = pc["bt"]
        /\ sync' = sync /\ B' = B
    BY <1>1, <1>11, Places DEF LzEnd, LzAbort, LzStopped
  <2>. QED  BY <2>1 DEF BtLive, Streaming, Asking
<1>12. CASE MtSync_Init
  <2>1. /\ B' = InitB /\ L' = InitL /\ pc["bt"] = "start" /\ pc'["lz"] = "run"
        /\ pc'["bt"] = pc["bt"]
    BY <1>1, <1>12, InitReady, Places DEF MtSync_Init
  <2>. QED  BY <2>1 DEF InitB, InitL
<1>13. ASSUME LzNext \/ LzGot \/ LzConsume PROVE StartedSound'
  <2>1. /\ pc'["bt"] = pc["bt"] /\ B' = B /\ Streaming
    BY <1>1, <1>13, Places, ObjectFacts
       DEF LzNext, LzGot, Locked, LzConsume, Streaming, Asking
  <2>2. /\ Running(sync'["bt"]) <=> Running(sync["bt"])
        /\ Running(sync'["hash"]) <=> Running(sync["hash"])
    <3>1. pc["lz"] \notin {"next", "stop3"}
      BY <1>13, ObjectFacts DEF LzNext, LzGot, Locked, LzConsume
    <3>2. sync'["hash"] = sync["hash"]
      BY <1>13, ObjectFacts DEF LzNext, LzGot, Locked, LzConsume, ThreadsInv, SyncTypes
    <3>. QED  BY <1>3, <3>1, <3>2, ObjectFacts
  <2>3. CASE LzNext
    BY <1>1, <2>1, <2>2, <2>3, Places DEF LzNext, LzRec, BtLive
  <2>4. CASE LzGot
    BY <1>1, <2>1, <2>2, <2>4, Places, ObjectFacts
       DEF LzGot, Locked, BtLive, ThreadsInv, LivesSound
  <2>5. CASE LzConsume
    BY <1>1, <2>1, <2>2, <2>5, Places DEF LzConsume, BtLive
  <2>. QED  BY <1>13, <2>3, <2>4, <2>5
<1>. QED  BY <1>6, <1>7, <1>8, <1>9, <1>10, <1>11, <1>12, <1>13 DEF Next, LzStep, BtStep
(* The pointers move with the window, and only then. *)
LEMMA PointersKept ==
  ASSUME ProtocolInv, StartedSound, PointersSound, Next
  PROVE  PointersSound'
<1>. USE DEF PointersSound
<1>1. /\ SyncTypes /\ pc["lz"] \in LzPlaces /\ pc["bt"] \in BtPlaces
      /\ pc["hash"] \in HashPlaces /\ B \in BtRec /\ L \in LzRec /\ ThreadsInv /\ DataTypes
  BY DEF ProtocolInv, ThreadsInv, SyncTypes, DataTypes
<1>2. /\ mf.origin \in Int /\ mf.buffer \in Int /\ none \in Int
      /\ B.ptr \in Int /\ B.pos \in Int /\ B.cur \in Int
      /\ L.ptr \in Int /\ L.pos \in Int /\ L.data \in Int
  BY <1>1 DEF ProtocolInv, WindowInv, WindowFor, WindowSound, WindowRec, BtRec, LzRec, none
<1>3. ASSUME mf'.origin = mf.origin, B' = B, L' = L,
             pc'["bt"] = "match" => pc["bt"] = "match",
             L.data # none => pc'["lz"] = pc["lz"],
             L.data # none => (Running(sync'["bt"]) <=> Running(sync["bt"]))
      PROVE  PointersSound'
  BY <1>3
<1>4. ASSUME L.data # none, Running(sync["bt"]) PROVE Running(sync'["bt"])
  <2>1. pc["lz"] \in {"run", "have"}
    BY <1>4
  <2>. QED  BY <1>1, <1>4, <2>1, RunningKept, ObjectFacts DEF NextStart, StopWait
<1>5. CASE HashStep
  <2>1. pc'["lz"] = pc["lz"] /\ pc'["bt"] = pc["bt"]
    BY <1>1, <1>5, Places
       DEF HashStep, HashStart, HashEnter1, HashEnter2, HashMove, HashTake, HashFill, HashPost,
           HashStopped
  <2>2. CASE HashMove
    <3>1. mf'.origin + mf'.buffer = mf.origin + mf.buffer /\ mf'.origin \in Int /\ mf'.buffer \in Int
      <4>1. /\ WindowSound(mf) /\ MatchFinder_NeedMove(mf)
            /\ mf.blockSize = GetBlockSize(mf.keepBefore, mf.keepAfter)
        BY <2>2 DEF ProtocolInv, WindowInv, WindowFor, HashMove, WindowSound, WindowRec,
           MatchFinder_NeedMove
      <4>2. MoveKeeps(mf, mf')
        BY <2>2, <4>1, MoveFacts, Zenon DEF HashMove
      <4>. QED  BY <1>2, <4>2 DEF MoveKeeps, WindowSound, WindowRec
    <3>2. PICK d \in Int : d = mf.buffer - mf'.buffer
      BY <1>2, <3>1
    <3>3. L' = [L EXCEPT !.ptr = L.ptr - d] /\ B' = [B EXCEPT !.ptr = B.ptr - d]
      BY <2>2, <3>2 DEF HashMove
    <3>4. /\ L'.ptr = L.ptr - d /\ L'.pos = L.pos /\ L'.data = L.data
          /\ B'.ptr = B.ptr - d /\ B'.pos = B.pos
      BY <1>1, <3>3 DEF LzRec, BtRec
    <3>5. sync["bt"].cs = "hash" /\ sync["hash"].cs = "hash"
      BY <1>1, <2>2 DEF HashMove, ThreadsInv, SectionsSound
    <3>6. pc["bt"] # "match"
      BY <1>1, <3>5, ObjectFacts DEF ThreadsInv, SectionsSound, StartedSound
    <3>7. L.data = none
      BY <1>1, <3>5, ObjectFacts DEF ThreadsInv, SectionsSound
    <3>. QED  BY <1>2, <2>1, <3>1, <3>2, <3>4, <3>6, <3>7
  <2>3. CASE HashFill
    <3>1. mf'.origin = mf.origin
      BY <1>1, <2>3, FillFacts DEF ProtocolInv
    <3>. QED  BY <1>3, <2>1, <2>3, <3>1 DEF HashFill
  <2>4. ASSUME ~HashMove, ~HashFill PROVE PointersSound'
    <3>1. mf' = mf /\ B' = B /\ L' = L
      BY <1>5, <2>4
         DEF HashStep, HashStart, HashEnter1, HashEnter2, HashTake, HashPost, HashStopped
    <3>. QED  BY <1>3, <1>4, <2>1, <3>1
  <2>. QED  BY <2>2, <2>3, <2>4
<1>6. CASE SyncStep("hash")
  <2>1. /\ mf' = mf /\ B' = B /\ L' = L /\ pc'["lz"] = pc["lz"] /\ pc'["bt"] # "match"
        /\ sync'["bt"] = sync["bt"]
    BY <1>1, <1>6, CallFrame, ObjectFacts, Places DEF Calls
  <2>. QED  BY <1>3, <2>1
<1>7. CASE SyncStep("bt")
  <2>1. /\ mf' = mf /\ B' = B /\ L' = L /\ pc'["bt"] = pc["bt"] /\ pc["lz"] \in Calls
    BY <1>1, <1>7, CallFrame, ObjectFacts, Places
  <2>. QED  BY <1>3, <2>1 DEF Calls
<1>8. ASSUME BtStep, ~SyncStep("hash") PROVE PointersSound'
  <2>1. mf' = mf /\ L' = L /\ pc'["lz"] = pc["lz"]
    BY <1>1, <1>8, Places
       DEF BtStep, BtStart, BtTake, BtFill, BtFull, BtNext, BtGot, BtLoad, BtMatch, BtUnlock,
           BtPost, BtStopped, Locked, Client
  <2>2. CASE BtLoad
    <3>1. B'.ptr = B.ptr /\ B'.pos = B.pos /\ B'.cur = B.ptr
      BY <1>1, <2>2 DEF BtLoad, BtRec
    <3>. QED  BY <1>4, <2>1, <3>1
  <2>3. CASE BtMatch
    <3>1. pc'["bt"] # "match" /\ pc["bt"] = "match"
      BY <1>1, <2>3, Places DEF BtMatch
    <3>2. \/ B'.ptr = B.ptr /\ B'.pos = B.pos
          \/ B'.ptr = B.cur + 1 /\ B'.pos = B.pos + 1
      BY <1>1, <2>3 DEF BtMatch, BtRec
    <3>. QED  BY <1>2, <1>4, <2>1, <3>1, <3>2
  <2>4. ASSUME ~BtLoad, ~BtMatch PROVE PointersSound'
    <3>1. pc'["bt"] # "match"
      BY <1>1, <1>8, <2>4, Places, ObjectFacts
         DEF BtStep, BtStart, BtTake, BtFill, BtFull, BtNext, BtGot, Locked, BtUnlock, BtPost,
             BtStopped
    <3>2. CASE BtGot
      <4>1. B'.ptr = B.ptr /\ B'.pos = B.pos
        BY <1>1, <3>2 DEF BtGot, BtRec
      <4>. QED  BY <1>4, <2>1, <3>1, <4>1
    <3>3. CASE BtFill
      <4>1. B'.ptr = B.ptr /\ B'.pos = B.pos
        BY <1>1, <3>3 DEF BtFill, BtRec
      <4>. QED  BY <1>4, <2>1, <3>1, <4>1
    <3>4. ASSUME ~BtGot, ~BtFill PROVE B'.ptr = B.ptr /\ B'.pos = B.pos
      BY <1>1, <1>8, <2>4, <3>4
         DEF BtStep, BtStart, BtTake, BtFull, BtNext, BtUnlock, BtPost, BtStopped, BtRec
    <3>. QED  BY <1>4, <2>1, <3>1, <3>2, <3>3, <3>4
  <2>. QED  BY <2>2, <2>3, <2>4
<1>9. ASSUME LzStep, ~SyncStep("bt") PROVE PointersSound'
  <2>1. CASE MtSync_Init
    <3>1. /\ mf' = NewWindow(conf) /\ B' = InitB /\ L' = InitL /\ pc["bt"] = "start"
          /\ pc'["bt"] = pc["bt"]
      BY <1>1, <2>1, InitReady, Places DEF MtSync_Init
    <3>2. mf'.origin = 0
      BY <1>1, <3>1, NewWindowFacts DEF DataTypes
    <3>. QED  BY <3>1, <3>2 DEF InitB, InitL
  <2>2. CASE LzConsume
    <3>1. /\ pc'["lz"] = "run" /\ pc'["bt"] = pc["bt"] /\ mf' = mf /\ B' = B
          /\ sync' = sync
      BY <1>1, <2>2, Places DEF LzConsume
    <3>2. L'.ptr = L.ptr + 1 /\ L'.pos = L.pos + 1 /\ L'.data = L.ptr
      BY <1>1, <2>2 DEF LzConsume, LzRec
    <3>3. Running(sync["bt"])
      BY <2>2 DEF LzConsume, StartedSound
    <3>. QED  BY <1>2, <3>1, <3>2, <3>3
  <2>3. CASE LzGot
    <3>1. pc["lz"] \in {"lock", "lock0"} /\ mf' = mf /\ B' = B /\ pc'["bt"] = pc["bt"]
      BY <1>1, <2>3, Places, ObjectFacts DEF LzGot, Locked
    <3>2. L.data = none
      BY <3>1
    <3>3. L'.ptr = L.ptr /\ L'.pos = L.pos /\ L'.data = L.data
      <4>1. PICK s, n, a, m, u : L' = [L EXCEPT !.slot = s, !.k = m, !.lim = n, !.avail = a,
                                                !.failed = u]
        BY <2>3 DEF LzGot
      <4>. QED  BY <1>1, <4>1 DEF LzRec
    <3>. QED  BY <3>1, <3>2, <3>3
  <2>4. CASE LzNext
    <3>1. /\ mf' = mf /\ B' = B /\ pc'["bt"] = pc["bt"] /\ sync' = sync
          /\ pc'["lz"] = IF L.failed THEN "have" ELSE "next"
      BY <1>1, <2>4, Places DEF LzNext
    <3>2. L'.ptr = L.ptr /\ L'.pos = L.pos /\ L'.data = IF L.failed THEN L.data ELSE none
      BY <1>1, <2>4 DEF LzNext, LzRec
    <3>. QED  BY <3>1, <3>2
  <2>5. CASE LzEnd \/ LzAbort
    <3>1. /\ mf' = mf /\ B' = B /\ pc'["bt"] = pc["bt"] /\ sync' = sync
      BY <1>1, <2>5, Places DEF LzEnd, LzAbort
    <3>2. L'.ptr = L.ptr /\ L'.pos = L.pos /\ L'.data = none
      BY <1>1, <2>5 DEF LzEnd, LzAbort, LzRec
    <3>. QED  BY <3>1, <3>2
  <2>6. CASE LzStopped
    BY <1>1, <1>3, <2>6, Places DEF LzStopped
  <2>7. ASSUME NEW o \in Objects, MtSync_Create(o) \/ MtSync_Destruct(o) \/ Thread_Wait_Close(o)
        PROVE  PointersSound'
    <3>1. /\ pc["lz"] \in {"create", "create2", "destruct", "destruct2", "join", "join2"}
          /\ mf' = mf /\ B' = B /\ L'.ptr = L.ptr /\ L'.pos = L.pos /\ L'.data = L.data
      <4>1. L' = L \/ L' = [L EXCEPT !.result = "error"]
        BY <2>7, Zenon DEF MtSync_Create, MtSync_Destruct, Thread_Wait_Close
      <4>2. L'.ptr = L.ptr /\ L'.pos = L.pos /\ L'.data = L.data
        BY <1>1, <4>1 DEF LzRec
      <4>. QED  BY <2>7, <4>2 DEF MtSync_Create, MtSync_Destruct, Thread_Wait_Close
    <3>2. L.data = none
      BY <3>1
    <3>3. pc'["bt"] = pc["bt"] \/ pc'["bt"] = "start"
      BY <1>1, <2>7, ObjectFacts
         DEF MtSync_Create, MtSync_Destruct, Thread_Wait_Close, Goto, Threads, SyncTypes
    <3>. QED  BY <3>1, <3>2, <3>3
  <2>. QED  BY <1>9, <2>1, <2>2, <2>3, <2>4, <2>5, <2>6, <2>7 DEF LzStep
<1>. QED  BY <1>5, <1>6, <1>7, <1>8, <1>9 DEF Next, BtStep, LzStep
(*------------------------------ counts of blocks ----------------------------*)

(* How many blocks the worker has posted, given to the client or not. *)
Posted(o) == Got(o) + sync[o].filled

(* MtSync_GetNextBlock and MtSync_StopWriting keep the count: what the client  *)
(* gets was posted, and what it gives back is the oldest block it has. *)
LEMMA CallCounts ==
  ASSUME ThreadsInv, NEW o \in Objects, SyncStep(o),
         Running(sync[o]), CountSound(sync[o], pc[Client(o)]), Running(sync'[o])
  PROVE  /\ CountSound(sync'[o], pc'[Client(o)])
         /\ Posted(o)' = Posted(o) /\ Known(o)' = Known(o)
         /\ Oldest(o)' = Oldest(o) \/ Oldest(o)' = Oldest(o) + 1
         /\ sync'[o].canStart = sync[o].canStart
<1>1. /\ sync \in [Objects -> SyncRec] /\ sync[o] \in SyncRec /\ SyncTypes
      /\ sync[o].num \in Nat /\ sync[o].filled \in Nat
  BY DEF ThreadsInv, SyncTypes, SyncRec
<1>. DEFINE c == pc[Client(o)]
            s == sync[o]
<1>2. ASSUME NEW l, Goto(Client(o), l) PROVE pc'[Client(o)] = l
  BY <1>1, <1>2 DEF Goto, SyncTypes, Threads, Client
<1>3. ~NextStart(o) /\ ~StopWait(o)
  BY <1>1 DEF NextStart, StopWait, Running, SyncRec
<1>4. CASE NextUnlock(o)
  <2>1. sync'[o] = [UNLOCK_BUFFER(s) EXCEPT !.num = @ + 1] /\ c = "next"
    BY <1>1, <1>4 DEF NextUnlock
  <2>2. PICK u \in SyncRec : /\ u = UNLOCK_BUFFER(s) /\ u.num = s.num /\ u.filled = s.filled
                             /\ u.canStart = s.canStart
    <3>1. UNLOCK_BUFFER(s) \in SyncRec
      BY <1>1, Zenon DEF UNLOCK_BUFFER, SyncRec
    <3>2. /\ UNLOCK_BUFFER(s).num = s.num /\ UNLOCK_BUFFER(s).filled = s.filled
          /\ UNLOCK_BUFFER(s).canStart = s.canStart
      BY <1>1 DEF UNLOCK_BUFFER, SyncRec
    <3>. QED  BY <3>1, <3>2
  <2>3. [u EXCEPT !.num = @ + 1].num = u.num + 1 /\ [u EXCEPT !.num = @ + 1].filled = u.filled
        /\ [u EXCEPT !.num = @ + 1].canStart = u.canStart
    BY DEF SyncRec
  <2>4. /\ sync'[o].num = s.num + 1 /\ sync'[o].filled = s.filled
        /\ sync'[o].canStart = s.canStart /\ pc'[Client(o)] = "release"
    BY <1>2, <1>4, <2>1, <2>2, <2>3 DEF NextUnlock
  <2>. QED  BY <1>1, <2>1, <2>4 DEF CountSound, Posted, Known, Oldest, Got, Given, Asking
<1>5. CASE NextRelease(o) \/ StopRelease(o)
  <2>1. sync'[o] = Release1(s, "free", NumBlocks(o))
    BY <1>1, <1>5 DEF NextRelease, StopRelease
  <2>2. /\ sync'[o].num = s.num /\ sync'[o].filled = s.filled
        /\ sync'[o].canStart = s.canStart
    BY <1>1, <2>1 DEF Release1, SyncRec
  <2>3. \/ c = "release" /\ pc'[Client(o)] = "wait"
        \/ c = "stop2" /\ pc'[Client(o)] = "stop3"
    BY <1>2, <1>5 DEF NextRelease, StopRelease
  <2>. QED  BY <1>1, <2>2, <2>3 DEF CountSound, Posted, Known, Oldest, Got, Given, Asking
<1>6. CASE NextWait(o)
  <2>1. /\ sync'[o].num = s.num /\ sync'[o].filled = s.filled - 1 /\ s.filled > 0
        /\ sync'[o].canStart = s.canStart
    BY <1>1, <1>6 DEF NextWait, SyncRec
  <2>2. \/ c = "wait0" /\ pc'[Client(o)] = "lock0"
        \/ c = "wait" /\ pc'[Client(o)] = "lock"
    BY <1>2, <1>6 DEF NextWait
  <2>. QED  BY <1>1, <2>1, <2>2 DEF CountSound, Posted, Known, Oldest, Got, Given, Asking
<1>7. CASE StopSend(o)
  <2>1. PICK u \in SyncRec :
            /\ u.num = s.num /\ u.filled = s.filled /\ u.canStart = s.canStart
            /\ sync'[o] = [u EXCEPT !.stopWriting = TRUE]
    BY <1>1, <1>7 DEF StopSend, UNLOCK_BUFFER, SyncRec
  <2>2. /\ [u EXCEPT !.stopWriting = TRUE].num = u.num
        /\ [u EXCEPT !.stopWriting = TRUE].filled = u.filled
        /\ [u EXCEPT !.stopWriting = TRUE].canStart = u.canStart
    BY DEF SyncRec
  <2>3. c = "stop" /\ pc'[Client(o)] = "stop2"
    BY <1>2, <1>7 DEF StopSend
  <2>. QED  BY <1>1, <2>1, <2>2, <2>3 DEF CountSound, Posted, Known, Oldest, Got, Given, Asking
<1>8. CASE StopNothing(o)
  BY <1>1, <1>8 DEF StopNothing, Running, SyncRec
<1>. QED  BY <1>3, <1>4, <1>5, <1>6, <1>7, <1>8 DEF SyncStep
(* What does not change when a worker posts a block or a buffer is locked. *)
LEMMA CountUpdates ==
  ASSUME NEW s \in SyncRec, NEW t, NEW n \in Nat
  PROVE  /\ LOCK_BUFFER(s, t).num = s.num /\ LOCK_BUFFER(s, t).filled = s.filled
         /\ LOCK_BUFFER(s, t).canStart = s.canStart
         /\ UNLOCK_BUFFER(s).num = s.num /\ UNLOCK_BUFFER(s).filled = s.filled
         /\ UNLOCK_BUFFER(s).canStart = s.canStart
         /\ Release1(s, "filled", n).num = s.num
         /\ Release1(s, "filled", n).canStart = s.canStart
         /\ s.filled + 1 <= n => Release1(s, "filled", n).filled = s.filled + 1
<1>1. /\ LOCK_BUFFER(s, t).num = s.num /\ LOCK_BUFFER(s, t).filled = s.filled
      /\ LOCK_BUFFER(s, t).canStart = s.canStart
  BY DEF LOCK_BUFFER, SyncRec
<1>2. /\ UNLOCK_BUFFER(s).num = s.num /\ UNLOCK_BUFFER(s).filled = s.filled
      /\ UNLOCK_BUFFER(s).canStart = s.canStart
  BY DEF UNLOCK_BUFFER, SyncRec
<1>3. /\ Release1(s, "filled", n).num = s.num
      /\ Release1(s, "filled", n).canStart = s.canStart
  BY DEF Release1, SyncRec
<1>4. ASSUME s.filled + 1 <= n PROVE Release1(s, "filled", n).filled = s.filled + 1
  <2>1. s["filled"] = s.filled /\ s.filled \in Nat
    BY DEF SyncRec
  <2>2. ~(s["filled"] + 1 > n)
    BY <1>4, <2>1
  <2>3. Release1(s, "filled", n) = [s EXCEPT !["filled"] = s.filled + 1]
    BY <2>1, <2>2 DEF Release1
  <2>. QED  BY <2>3 DEF SyncRec
<1>. QED  BY <1>1, <1>2, <1>3, <1>4

(* What becomes of the blocks of heads in a step: one is filled, one is taken  *)
(* up by the bt thread, or they stay as they are and perhaps the oldest one is *)
(* given back. *)
HashStays ==
  /\ HashMade' = HashMade /\ Known("hash")' = Known("hash")
  /\ Oldest("hash")' = Oldest("hash") \/ Oldest("hash")' = Oldest("hash") + 1
  /\ hashBuf' = hashBuf /\ At(mf') = At(mf)

HashGrows ==
  /\ HashFill
  /\ HashMade' = HashMade + 1 /\ Known("hash")' = Known("hash")
  /\ Oldest("hash")' = Oldest("hash")

HashTaken ==
  /\ BtGot
  /\ HashMade' = HashMade /\ Known("hash")' = Known("hash") + 1
  /\ Oldest("hash")' = Oldest("hash")
  /\ hashBuf' = hashBuf /\ At(mf') = At(mf)

(* The hash thread counts its blocks as the bt thread does. *)
LEMMA HashCounts ==
  ASSUME ProtocolInv, ProtocolInv', Next, Running(sync["hash"]), Running(sync'["hash"]),
         HashCounted
  PROVE  /\ HashCounted'
         /\ HashStays \/ HashGrows \/ HashTaken
<1>1. /\ SyncTypes /\ SyncTypes' /\ pc["lz"] \in LzPlaces /\ pc["bt"] \in BtPlaces
      /\ pc["hash"] \in HashPlaces /\ ThreadsInv /\ ThreadsInv' /\ DataTypes /\ H \in Nat
      /\ sync["hash"] \in SyncRec /\ sync["hash"].num \in Nat /\ sync["hash"].filled \in Nat
      /\ sync \in [Objects -> SyncRec]
  BY ObjectFacts DEF ProtocolInv, ThreadsInv, SyncTypes, SyncRec, DataTypes
<1>2. /\ RunSound(sync["hash"], NumBlocks("hash"), pc["hash"], pc["bt"])
      /\ RunSound(sync["hash"], NumBlocks("hash"), pc["hash"], pc["bt"])'
      /\ kMtHashNumBlocks \in Nat /\ kMtHashNumBlocks > 0
  BY <1>1, ObjectFacts, Numbers DEF ThreadsInv, ObjectSound
<1>. DEFINE s == sync["hash"]
            t == sync'["hash"]
<1>3. ASSUME t.num = s.num, t.filled = s.filled, t.canStart = s.canStart, H' = H,
             pc'["hash"] = "post" <=> pc["hash"] = "post", pc'["bt"] = pc["bt"],
             hashBuf' = hashBuf, At(mf') = At(mf)
      PROVE  HashCounted' /\ HashStays
  BY <1>3, ObjectFacts DEF HashCounted, HashStays, CountSound, HashMade, Known, Oldest, Got
<1>4. CASE HashStep
  <2>1. pc'["lz"] = pc["lz"] /\ pc'["bt"] = pc["bt"]
    BY <1>1, <1>4, Places
       DEF HashStep, HashStart, HashEnter1, HashEnter2, HashMove, HashTake, HashFill, HashPost,
           HashStopped
  <2>2. CASE HashStart
    <3>1. /\ t.num = s.num /\ t.filled = s.filled /\ s.canStart = TRUE
          /\ pc["hash"] = "start" /\ pc'["hash"] # "post" /\ H' = 0
          /\ hashBuf' = hashBuf /\ mf' = mf
      BY <1>1, <2>2, Places, ObjectFacts DEF HashStart, SyncRec
    <3>2. pc["bt"] = "wait0" /\ s.filled = 0
      BY <1>2, <3>1 DEF RunSound
    <3>. QED  BY <1>1, <2>1, <3>1, <3>2, ObjectFacts
              DEF HashCounted, HashStays, CountSound, HashMade, Known, Oldest, Got
  <2>3. CASE HashEnter1 \/ HashEnter2 \/ HashTake \/ HashStopped
    <3>1. /\ t.num = s.num /\ t.filled = s.filled /\ t.canStart = s.canStart
      BY <1>1, <2>3, ObjectFacts DEF HashEnter1, HashEnter2, HashTake, HashStopped, SyncRec
    <3>2. /\ pc["hash"] # "post" /\ pc'["hash"] # "post" /\ H' = H
          /\ hashBuf' = hashBuf /\ mf' = mf
      BY <1>1, <2>3, Places DEF HashEnter1, HashEnter2, HashTake, HashStopped
    <3>. QED  BY <1>3, <2>1, <3>1, <3>2
  <2>4. CASE HashMove
    <3>1. /\ t.num = s.num /\ t.filled = s.filled /\ t.canStart = s.canStart
      BY <1>1, <2>4, ObjectFacts DEF HashMove, SyncRec
    <3>2. /\ pc["hash"] # "post" /\ pc'["hash"] # "post" /\ H' = H
          /\ hashBuf' = hashBuf
      BY <1>1, <2>4, Places DEF HashMove
    <3>3. At(mf') = At(mf)
      <4>1. /\ WindowSound(mf) /\ MatchFinder_NeedMove(mf)
            /\ mf.blockSize = GetBlockSize(mf.keepBefore, mf.keepAfter)
        BY <2>4 DEF ProtocolInv, WindowInv, WindowFor, HashMove, WindowSound, WindowRec,
           MatchFinder_NeedMove
      <4>2. MoveKeeps(mf, mf')
        BY <2>4, <4>1, MoveFacts, Zenon DEF HashMove
      <4>. QED  BY <4>2 DEF MoveKeeps, At
    <3>. QED  BY <1>3, <2>1, <3>1, <3>2, <3>3
  <2>5. CASE HashFill
    <3>1. t = s /\ pc["hash"] = "fill" /\ pc'["hash"] = "post" /\ H' = H + 1
      BY <1>1, <2>5, Places DEF HashFill
    <3>2. s.canStart = FALSE
      BY <1>2, <1>1, <3>1 DEF RunSound, SyncRec
    <3>3. HashMade' = HashMade + 1
      BY <1>1, <2>1, <3>1, ObjectFacts DEF HashMade, Got
    <3>. QED  BY <1>1, <2>1, <2>5, <3>1, <3>2, <3>3, ObjectFacts
              DEF HashCounted, HashGrows, CountSound, Known, Oldest, Got
  <2>6. CASE HashPost
    <3>1. /\ pc["hash"] = "post" /\ pc'["hash"] = "loop" /\ H' = H
          /\ hashBuf' = hashBuf /\ mf' = mf /\ t = Release1(s, "filled", kMtHashNumBlocks)
      BY <1>1, <2>6, Places, ObjectFacts DEF HashPost
    <3>2. s.filled + 1 <= kMtHashNumBlocks /\ s.canStart = FALSE
      <4>1. s.canStart = FALSE /\ s.free \in Nat
        BY <1>2, <1>1, <3>1 DEF RunSound, SyncRec
      <4>2. s.free + s.filled + 1 <= kMtHashNumBlocks
        BY <1>1, <1>2, <3>1, <4>1, ObjectFacts DEF RunSound, Taken, Given
      <4>. QED  BY <1>1, <1>2, <4>1, <4>2
    <3>3. t.num = s.num /\ t.filled = s.filled + 1 /\ t.canStart = s.canStart
      BY <1>1, <1>2, <3>1, <3>2, CountUpdates
    <3>. QED  BY <1>1, <2>1, <3>1, <3>2, <3>3, ObjectFacts
              DEF HashCounted, HashStays, CountSound, HashMade, Known, Oldest, Got
  <2>. QED  BY <1>4, <2>2, <2>3, <2>4, <2>5, <2>6 DEF HashStep
<1>5. CASE SyncStep("hash")
  <2>1. /\ CountSound(t, pc'["bt"]) /\ Posted("hash")' = Posted("hash")
        /\ Known("hash")' = Known("hash")
        /\ Oldest("hash")' = Oldest("hash") \/ Oldest("hash")' = Oldest("hash") + 1
        /\ t.canStart = s.canStart
    BY <1>1, <1>5, CallCounts, ObjectFacts DEF HashCounted
  <2>2. /\ pc'["hash"] = pc["hash"] /\ H' = H /\ hashBuf' = hashBuf /\ mf' = mf
    BY <1>1, <1>5, CallFrame, Places, ObjectFacts
  <2>3. HashMade' = HashMade
    BY <2>1, <2>2 DEF HashMade, Posted
  <2>. QED  BY <2>1, <2>2, <2>3 DEF HashCounted, HashStays
<1>6. CASE SyncStep("bt")
  <2>1. /\ t = s /\ pc'["hash"] = pc["hash"] /\ pc'["bt"] = pc["bt"] /\ H' = H
        /\ hashBuf' = hashBuf /\ mf' = mf
    BY <1>1, <1>6, CallFrame, Places, ObjectFacts
  <2>. QED  BY <1>3, <2>1
<1>7. ASSUME BtStep, ~SyncStep("hash") PROVE HashCounted' /\ (HashStays \/ HashTaken)
  <2>1. /\ pc'["hash"] = pc["hash"] /\ H' = H /\ hashBuf' = hashBuf /\ mf' = mf
    BY <1>1, <1>7, Places
       DEF BtStep, BtStart, BtTake, BtFill, BtFull, BtNext, BtGot, BtLoad, BtMatch, BtUnlock,
           BtPost, BtStopped, Locked, Client
  <2>2. t.num = s.num /\ t.filled = s.filled /\ t.canStart = s.canStart
    <3>1. \/ t = s
          \/ t = LOCK_BUFFER(s, "bt")
          \/ t = UNLOCK_BUFFER(s)
      BY <1>1, <1>7, ObjectFacts
         DEF BtStep, BtStart, BtTake, BtFill, BtFull, BtNext, BtGot, BtLoad, BtMatch, BtUnlock,
             BtPost, BtStopped, Locked
    <3>. QED  BY <1>1, <3>1, CountUpdates, Numbers
  <2>3. pc["bt"] \notin {"none", "start", "dead", "stopped"}
    BY <1>1 DEF ThreadsInv, LivesSound
  <2>4. CASE BtGot
    <3>1. pc["bt"] \in {"lock", "lock0"} /\ pc'["bt"] \in {"get", "unlock"}
      BY <1>1, <2>4, Places, ObjectFacts DEF BtGot, Locked
    <3>2. HashCounted'
      BY <1>1, <2>1, <2>2, <3>1, ObjectFacts DEF HashCounted, CountSound, HashMade, Got
    <3>3. HashMade' = HashMade
      BY <1>1, <2>1, <2>2, <3>1, ObjectFacts DEF HashMade, Got
    <3>4. Known("hash")' = Known("hash") + 1
      BY <1>1, <2>2, <3>1, ObjectFacts DEF Known, Asking
    <3>5. Oldest("hash")' = Oldest("hash")
      BY <1>1, <2>2, <3>1, ObjectFacts DEF Oldest, Got, Given
    <3>. QED  BY <2>1, <2>4, <3>2, <3>3, <3>4, <3>5 DEF HashTaken
  <2>5. ASSUME ~BtGot PROVE HashCounted' /\ HashStays
    <3>1. /\ pc["bt"] \notin Asking \cup {"stop3"} /\ pc'["bt"] \notin Asking \cup {"stop3"}
      BY <1>1, <1>7, <2>3, <2>5, Places
         DEF BtStep, BtStart, BtTake, BtFill, BtFull, BtNext, BtLoad, BtMatch, BtUnlock,
             BtPost, BtStopped, Asking
    <3>2. /\ HashMade' = HashMade /\ Known("hash")' = Known("hash")
          /\ Oldest("hash")' = Oldest("hash")
      BY <1>1, <2>1, <2>2, <3>1, ObjectFacts DEF HashMade, Known, Oldest, Got, Given, Asking
    <3>3. HashCounted'
      BY <2>1, <2>2, <3>1, <3>2 DEF HashCounted, CountSound, Asking
    <3>. QED  BY <2>1, <3>2, <3>3 DEF HashStays
  <2>. QED  BY <2>4, <2>5
<1>8. ASSUME LzStep, ~SyncStep("bt") PROVE HashCounted' /\ HashStays
  <2>1. pc["lz"] \notin {"create", "create2", "init"}
    <3>1. pc["bt"] \notin {"none", "start", "dead", "stopped"}
      BY <1>1 DEF ThreadsInv, LivesSound
    <3>2. pc["lz"] = "init" => pc["bt"] = "start"
      BY <1>1, InitReady
    <3>. QED  BY <1>1, <3>1, <3>2 DEF ThreadsInv, LivesSound
  <2>2. pc'["hash"] = pc["hash"] /\ pc'["bt"] = pc["bt"] /\ H' = H /\ hashBuf' = hashBuf /\ mf' = mf
    BY <1>1, <1>8, <2>1, Places, ObjectFacts
       DEF LzStep, MtSync_Create, MtSync_Destruct, Thread_Wait_Close, MtSync_Init, LzNext,
           LzGot, Locked, LzConsume, LzEnd, LzAbort, LzStopped
  <2>3. t.num = s.num /\ t.filled = s.filled /\ t.canStart = s.canStart
    <3>1. ASSUME NEW o \in Objects, MtSync_Destruct(o) PROVE t = s
      BY <1>1, <3>1, ObjectFacts DEF MtSync_Destruct, Running, SyncRec
    <3>2. ASSUME NEW o \in Objects, Thread_Wait_Close(o)
          PROVE  t.num = s.num /\ t.filled = s.filled /\ t.canStart = s.canStart
      BY <1>1, <3>2, ObjectFacts DEF Thread_Wait_Close, SyncRec
    <3>3. CASE LzGot
      BY <1>1, <3>3, ObjectFacts DEF LzGot, Locked
    <3>. QED  BY <1>8, <2>1, <3>1, <3>2, <3>3, ObjectFacts
              DEF LzStep, MtSync_Create, MtSync_Init, LzNext, LzConsume, LzEnd, LzAbort,
                  LzStopped
  <2>. QED  BY <1>3, <2>2, <2>3
<1>. QED  BY <1>4, <1>5, <1>6, <1>7, <1>8 DEF Next, BtStep, LzStep
(* A worker begins with its first block, and with all of them free. *)
LEMMA HashBegins ==
  ASSUME ProtocolInv, ProtocolInv', Next, ~Running(sync["hash"]), Running(sync'["hash"])
  PROVE  /\ HashCounted' /\ HashMade' = 0 /\ Known("hash")' = 0 /\ Oldest("hash")' = 0
         /\ pc["bt"] = "next" /\ pc'["bt"] = "wait0" /\ pc'["lz"] = pc["lz"]
         /\ UNCHANGED <<conf, mf, B>>
<1>1. /\ SyncTypes /\ ThreadsInv /\ ThreadsInv' /\ sync["hash"] \in SyncRec
      /\ sync \in [Objects -> SyncRec]
  BY ObjectFacts DEF ProtocolInv, ThreadsInv, SyncTypes, DataTypes
<1>2. RunSound(sync["hash"], NumBlocks("hash"), pc["hash"], pc["bt"])'
  BY <1>1, ObjectFacts DEF ThreadsInv, ObjectSound
<1>3. NextStart("hash")
  <2>1. NextStart("hash") \/ StopWait("hash")
    BY <1>1, RunningKept, ObjectFacts
  <2>2. StopWait("hash") => sync'["hash"].needStart = TRUE
    BY <1>1, ObjectFacts DEF StopWait, SyncRec
  <2>. QED  BY <2>1, <2>2 DEF Running
<1>4. /\ sync'["hash"].num = 1 /\ sync'["hash"].canStart = TRUE
      /\ pc["bt"] = "next" /\ pc'["bt"] = "wait0" /\ pc'["lz"] = pc["lz"]
      /\ UNCHANGED <<conf, mf, B>>
  BY <1>1, <1>3, Places, ObjectFacts DEF NextStart, SyncRec
<1>5. sync'["hash"].filled = 0 /\ pc'["hash"] = "start"
  BY <1>2, <1>4 DEF RunSound
<1>. QED  BY <1>4, <1>5, ObjectFacts
          DEF HashCounted, CountSound, HashMade, Known, Oldest, Got, Given, Asking

(* Between the oldest block that is not given back and the next one to be made *)
(* there are never more than there is room for. *)
LEMMA HashRange ==
  ASSUME ProtocolInv, Running(sync["hash"]), HashCounted
  PROVE  /\ HashMade \in Nat /\ Known("hash") \in Nat /\ Oldest("hash") \in Int
         /\ Oldest("hash") <= Known("hash") /\ Known("hash") <= HashMade
         /\ HashMade - Oldest("hash") <= kMtHashNumBlocks
         /\ pc["hash"] = "fill" => HashMade - Oldest("hash") < kMtHashNumBlocks
         /\ pc["bt"] \in {"lock", "lock0"} =>
              /\ Known("hash") = sync["hash"].num - 1 /\ Known("hash") < HashMade
              /\ BlockIndex("hash") = (sync["hash"].num - 1) % kMtHashNumBlocks
         /\ pc["bt"] \in Working \ Asking =>
              /\ Oldest("hash") = sync["hash"].num - 1 /\ Oldest("hash") < HashMade
<1>1. /\ SyncTypes /\ ThreadsInv /\ sync["hash"].num \in Nat /\ sync["hash"].filled \in Nat
      /\ sync["hash"].free \in Nat /\ sync["hash"].canStart \in BOOLEAN
  BY ObjectFacts DEF ProtocolInv, ThreadsInv, SyncTypes, DataTypes, SyncRec
<1>2. RunSound(sync["hash"], kMtHashNumBlocks, pc["hash"], pc["bt"]) /\ kMtHashNumBlocks \in Nat
  BY <1>1, ObjectFacts, Numbers DEF ThreadsInv, ObjectSound
<1>3. CountSound(sync["hash"], pc["bt"])
  BY DEF HashCounted
<1>4. /\ HashMade \in Nat /\ Known("hash") \in Nat /\ Oldest("hash") \in Int
      /\ Oldest("hash") <= Known("hash") /\ Known("hash") <= HashMade
  <2>1. PICK n \in Nat, f \in Nat :
          n = sync["hash"].num /\ f = sync["hash"].filled /\ n >= 1
    BY <1>1, <1>3 DEF CountSound
  <2>2. HashMade \in Nat /\ HashMade >= Got("hash")
    BY <2>1, ObjectFacts DEF HashMade, Got
  <2>3. Known("hash") \in Nat /\ Oldest("hash") \in Int
    BY <2>1, ObjectFacts DEF Known, Oldest, Got, Given
  <2>4. Oldest("hash") <= Known("hash") /\ Known("hash") <= Got("hash")
    BY <2>1, ObjectFacts DEF Known, Oldest, Got, Given, Asking
  <2>5. Got("hash") \in Int
    BY <2>1 DEF Got
  <2>. QED  BY <2>2, <2>3, <2>4, <2>5
<1>5. /\ HashMade - Oldest("hash") <= kMtHashNumBlocks
      /\ pc["hash"] = "fill" => HashMade - Oldest("hash") < kMtHashNumBlocks
  <2>1. pc["hash"] \in {"post", "fill"} => sync["hash"].canStart = FALSE
    BY <1>1, <1>2 DEF RunSound
  <2>. QED  BY <1>1, <1>2, <2>1, ObjectFacts DEF RunSound, HashMade, Oldest, Got, Taken, Given
<1>6. pc["bt"] \in {"lock", "lock0"} =>
         /\ Known("hash") = sync["hash"].num - 1 /\ Known("hash") < HashMade
         /\ BlockIndex("hash") = (sync["hash"].num - 1) % kMtHashNumBlocks
  BY <1>1, <1>3, ObjectFacts DEF HashMade, Known, Got, Asking, CountSound, BlockIndex
<1>7. pc["bt"] \in Working \ Asking =>
        /\ Oldest("hash") = sync["hash"].num - 1 /\ Oldest("hash") < HashMade
  BY <1>1, ObjectFacts DEF HashMade, Oldest, Got, Given, Asking, Working
<1>. QED  BY <1>4, <1>5, <1>6, <1>7

(* Two blocks that are less than n apart go to different ones of n slots. *)
LEMMA SlotsDiffer ==
  ASSUME NEW n \in Nat \ {0}, NEW j \in Int, NEW k \in Int, k < j, j - k < n
  PROVE  j % n # k % n
<1>1. /\ j = n * (j \div n) + (j % n) /\ k = n * (k \div n) + (k % n)
      /\ j \div n \in Int /\ k \div n \in Int /\ j % n \in Int /\ k % n \in Int
  OBVIOUS
<1>2. PICK p \in Int, q \in Int, x \in Int, y \in Int :
        /\ p = j \div n /\ q = k \div n /\ x = j % n /\ y = k % n
        /\ j = n * p + x /\ k = n * q + y
  BY <1>1
<1>. SUFFICES ASSUME x = y PROVE FALSE
  BY <1>2
<1>3. j - k = n * (p - q)
  BY <1>2
<1>4. CASE p <= q
  BY <1>3, <1>4
<1>5. CASE p - q >= 1
  BY <1>3, <1>5
<1>. QED  BY <1>2, <1>4, <1>5

(* A stream is taken up in MatchFinderMt_Init only. *)
LEMMA LiveKept ==
  ASSUME ThreadsInv, Next, ~MtSync_Init
  PROVE  /\ Streaming' => Streaming
         /\ BtLive' => BtLive /\ pc["bt"] # "stop3"
<1>1. /\ SyncTypes /\ pc["lz"] \in LzPlaces /\ pc["bt"] \in BtPlaces /\ pc["hash"] \in HashPlaces
  BY DEF ThreadsInv, SyncTypes
<1>2. CASE HashStep
  <2>1. pc'["lz"] = pc["lz"] /\ pc'["bt"] = pc["bt"]
    BY <1>1, <1>2, Places
       DEF HashStep, HashStart, HashEnter1, HashEnter2, HashMove, HashTake, HashFill, HashPost,
           HashStopped
  <2>. QED  BY <2>1, StoppingFacts DEF Streaming, BtLive, Working, Asking
<1>3. CASE SyncStep("hash")
  <2>1. pc'["lz"] = pc["lz"]
    BY <1>1, <1>3, CallFrame, ObjectFacts, Places
  <2>2. CASE pc'["bt"] \in Working
    BY <1>1, <1>3, <2>1, <2>2, StoppingFacts, ObjectFacts, Places
       DEF SyncStep, NextStart, NextUnlock, NextRelease, NextWait, StopSend, StopRelease,
           StopWait, StopNothing, BtLive, Streaming, Working, Asking
  <2>. QED  BY <2>1, <2>2, StoppingFacts DEF BtLive, Streaming, Asking
<1>4. CASE SyncStep("bt")
  <2>1. pc'["bt"] = pc["bt"]
    BY <1>1, <1>4, CallFrame, ObjectFacts, Places
  <2>2. Streaming' => Streaming
    BY <1>1, <1>4, ObjectFacts, Places
       DEF SyncStep, NextStart, NextUnlock, NextRelease, NextWait, StopSend, StopRelease,
           StopWait, StopNothing, Streaming, Asking
  <2>. QED  BY <2>1, <2>2, StoppingFacts DEF BtLive, Streaming, Working, Asking
<1>5. ASSUME BtStep, ~SyncStep("hash")
      PROVE  (Streaming' => Streaming) /\ (BtLive' => BtLive /\ pc["bt"] # "stop3")
  <2>1. /\ pc'["lz"] = pc["lz"]
        /\ pc["bt"] \in Working \/ BtStart \/ BtStopped
    BY <1>1, <1>5, Places
       DEF BtStep, BtStart, BtTake, BtFill, BtFull, BtNext, BtGot, BtLoad, BtMatch, BtUnlock,
           BtPost, BtStopped, Locked, Working, Asking, Client
  <2>2. CASE BtStart
    <3>1. ~Running(sync["bt"]) => pc'["bt"] = "dead"
      BY <1>1, <2>2, Places, ObjectFacts
         DEF BtStart, Running, ThreadsInv, ObjectSound, IdleSound, SyncTypes, SyncRec
    <3>2. Running(sync["bt"]) => pc["lz"] = "wait0"
      BY <1>1, <2>2, ObjectFacts
         DEF BtStart, ThreadsInv, ObjectSound, RunSound, SyncTypes, SyncRec
    <3>. QED  BY <2>1, <2>2, <3>1, <3>2 DEF BtStart, BtLive, Streaming, Asking, Working
  <2>3. CASE BtStopped
    BY <1>1, <2>1, <2>3, Places DEF BtStopped, BtLive, Streaming, Asking, Working
  <2>. QED  BY <2>1, <2>2, <2>3 DEF BtLive, Streaming, Working, Asking
<1>6. ASSUME LzStep, ~SyncStep("bt")
      PROVE  (Streaming' => Streaming) /\ (BtLive' => BtLive /\ pc["bt"] # "stop3")
  <2>1. CASE LzNext \/ LzGot \/ LzConsume
    BY <1>1, <2>1, Places, ObjectFacts, StoppingFacts
       DEF LzNext, LzGot, Locked, LzConsume, Streaming, BtLive, Asking, Working
  <2>2. CASE LzEnd \/ LzAbort \/ LzStopped
    BY <1>1, <2>2, Places, StoppingFacts
       DEF LzEnd, LzAbort, LzStopped, Streaming, BtLive, Asking, Working
  <2>3. ASSUME NEW o \in Objects, MtSync_Create(o) \/ MtSync_Destruct(o) \/ Thread_Wait_Close(o)
        PROVE  ~Streaming' /\ (pc'["bt"] = pc["bt"] \/ pc'["bt"] = "start")
    <3>1. ~Streaming'
      BY <1>1, <2>3, ObjectFacts, Places
         DEF MtSync_Create, MtSync_Destruct, Thread_Wait_Close, Streaming, Asking, Goto, Threads,
             SyncTypes
    <3>2. pc'["bt"] = pc["bt"] \/ pc'["bt"] = "start"
      BY <1>1, <2>3, ObjectFacts
         DEF MtSync_Create, MtSync_Destruct, Thread_Wait_Close, Goto, Threads, SyncTypes
    <3>. QED  BY <3>1, <3>2
  <2>4. ASSUME NEW o \in Objects, MtSync_Create(o) \/ MtSync_Destruct(o) \/ Thread_Wait_Close(o)
        PROVE  (Streaming' => Streaming) /\ (BtLive' => BtLive /\ pc["bt"] # "stop3")
    BY <2>3, <2>4 DEF BtLive, Working, Asking
  <2>. QED  BY <1>6, <2>1, <2>2, <2>4 DEF LzStep
<1>. QED  BY <1>2, <1>3, <1>4, <1>5, <1>6 DEF Next, BtStep, LzStep
(*------------------------------ blocks of heads -----------------------------*)

(* Everything but HashMove, HashFill and MatchFinderMt_Init leaves the window  *)
(* alone, and nothing changes the input. *)
LEMMA WindowFrame ==
  ASSUME Next
  PROVE  conf' = conf /\ (mf' = mf \/ HashMove \/ HashFill \/ MtSync_Init)
<1>1. HashStep => conf' = conf /\ (mf' = mf \/ HashMove \/ HashFill)
  BY DEF HashStep, HashStart, HashEnter1, HashEnter2, HashMove, HashTake, HashFill, HashPost,
         HashStopped
<1>2. \A o \in Objects : SyncStep(o) => conf' = conf /\ mf' = mf
  BY DEF SyncStep, NextStart, NextUnlock, NextRelease, NextWait, StopSend, StopRelease,
         StopWait, StopNothing
<1>3. BtStep => conf' = conf /\ mf' = mf
  BY <1>2, ObjectFacts
     DEF BtStep, BtStart, BtTake, BtFill, BtFull, BtNext, BtGot, BtLoad, BtMatch, BtUnlock,
         BtPost, BtStopped
<1>4. LzStep => conf' = conf /\ (mf' = mf \/ MtSync_Init)
  BY <1>2, ObjectFacts
     DEF LzStep, MtSync_Create, MtSync_Destruct, Thread_Wait_Close, MtSync_Init, LzNext, LzGot,
         LzConsume, LzEnd, LzAbort, LzStopped
<1>. QED  BY <1>1, <1>3, <1>4 DEF Next

(* The blocks of heads stay chained: one is added at the end, in a slot that   *)
(* nobody has use for, or the oldest one is given back. *)
LEMMA ChainKept ==
  ASSUME ProtocolInv, ProtocolInv', Next, CountsSound, HashChain
  PROVE  HashChain'
<1>. SUFFICES ASSUME Running(sync'["hash"]),
                     NEW k \in Oldest("hash")' .. HashMade' - 1
              PROVE  /\ HeadsFor(HashBlock(k).from, HashBlock(k).avail, HashBlock(k).n)'
                     /\ HashAt(k + 1)' = (HashBlock(k).from + Span(HashBlock(k).avail, HashBlock(k).n))'
  BY DEF HashChain
<1>1. Running(sync["hash"])
  BY HashBegins
<1>2. HashCounted /\ HashCounted' /\ (HashStays \/ HashGrows \/ HashTaken)
  BY <1>1, HashCounts DEF CountsSound
<1>3. /\ HashMade \in Nat /\ Oldest("hash") \in Int
      /\ pc["hash"] = "fill" => HashMade - Oldest("hash") < kMtHashNumBlocks
  BY <1>1, <1>2, HashRange
<1>4. conf' = conf
  BY WindowFrame
<1>5. CASE HashStays \/ HashTaken
  <2>1. /\ HashMade' = HashMade /\ hashBuf' = hashBuf /\ At(mf') = At(mf)
        /\ k \in Oldest("hash") .. HashMade - 1
    BY <1>3, <1>5 DEF HashStays, HashTaken
  <2>2. HashBlock(k)' = HashBlock(k) /\ HashBlock(k + 1)' = HashBlock(k + 1)
    BY <2>1 DEF HashBlock
  <2>3. HashAt(k + 1)' = HashAt(k + 1)
    BY <2>1, <2>2 DEF HashAt
  <2>4. /\ HeadsFor(HashBlock(k).from, HashBlock(k).avail, HashBlock(k).n)
        /\ HashAt(k + 1) = HashBlock(k).from + Span(HashBlock(k).avail, HashBlock(k).n)
    BY <1>1, <2>1 DEF HashChain
  <2>. QED  BY <1>4, <2>2, <2>3, <2>4 DEF HeadsFor
<1>6. CASE HashGrows
  <2>1. PICK a, n \in Nat :
           /\ hashBuf' = [hashBuf EXCEPT ![H % kMtHashNumBlocks] =
                            [from |-> At(mf), n |-> n, avail |-> a]]
           /\ HeadsFor(At(mf), a, n) /\ At(mf') = At(mf) + Span(a, n)
    BY <1>6, FillFacts DEF HashGrows, ProtocolInv
  <2>2. /\ HashMade' = HashMade + 1 /\ Oldest("hash")' = Oldest("hash") /\ pc["hash"] = "fill"
    BY <1>6 DEF HashGrows, HashFill
  <2>3. H = HashMade
    <3>1. sync["hash"] \in SyncRec
      BY ObjectFacts DEF ProtocolInv, ThreadsInv, SyncTypes
    <3>2. RunSound(sync["hash"], NumBlocks("hash"), pc["hash"], pc["bt"])
      BY <1>1, ObjectFacts DEF ProtocolInv, ThreadsInv, ObjectSound
    <3>3. sync["hash"].canStart = FALSE
      BY <2>2, <3>1, <3>2 DEF RunSound, SyncRec
    <3>. QED  BY <1>2, <3>3 DEF HashCounted
  <2>4. hashBuf \in [HashSlots -> [from : Nat, n : Nat, avail : Nat]]
    BY DEF ProtocolInv, DataTypes
  <2>5. ASSUME NEW j \in Int, Oldest("hash") <= j, j < HashMade
        PROVE  HashBlock(j)' = HashBlock(j)
    <3>1. H % kMtHashNumBlocks # j % kMtHashNumBlocks
      <4>1. kMtHashNumBlocks \in Nat \ {0} /\ H \in Int /\ j < H /\ H - j < kMtHashNumBlocks
        BY <1>3, <2>2, <2>3, <2>5, Numbers
      <4>. QED  BY <4>1, SlotsDiffer
    <3>2. j % kMtHashNumBlocks \in HashSlots
      BY Slots
    <3>. QED  BY <2>1, <2>4, <3>1, <3>2 DEF HashBlock
  <2>6. ASSUME NEW j, j = HashMade
        PROVE  HashBlock(j)' = [from |-> At(mf), n |-> n, avail |-> a]
    <3>1. H % kMtHashNumBlocks \in HashSlots
      BY <1>3, <2>3, Slots
    <3>. QED  BY <2>1, <2>3, <2>4, <2>6, <3>1 DEF HashBlock
  <2>7. CASE k = HashMade
    <3>1. HashAt(k + 1)' = At(mf')
      BY <1>3, <2>2, <2>7 DEF HashAt
    <3>. QED  BY <1>4, <2>1, <2>6, <2>7, <3>1 DEF HeadsFor
  <2>8. CASE k # HashMade
    <3>1. k \in Oldest("hash") .. HashMade - 1
      BY <1>3, <2>2, <2>8
    <3>2. HashBlock(k)' = HashBlock(k)
      BY <1>3, <2>5, <3>1
    <3>3. /\ HeadsFor(HashBlock(k).from, HashBlock(k).avail, HashBlock(k).n)
          /\ HashAt(k + 1) = HashBlock(k).from + Span(HashBlock(k).avail, HashBlock(k).n)
      BY <1>1, <3>1 DEF HashChain
    <3>4. HashAt(k + 1)' = HashAt(k + 1)
      <4>1. CASE k + 1 = HashMade
        BY <1>3, <2>2, <2>6, <4>1 DEF HashAt
      <4>2. CASE k + 1 < HashMade
        <5>1. HashBlock(k + 1)' = HashBlock(k + 1)
          BY <1>3, <2>5, <3>1, <4>2
        <5>. QED  BY <1>3, <2>2, <3>1, <4>2, <5>1 DEF HashAt
      <4>. QED  BY <1>3, <3>1, <4>1, <4>2
    <3>. QED  BY <1>4, <3>2, <3>3, <3>4 DEF HeadsFor
  <2>. QED  BY <2>7, <2>8
<1>. QED  BY <1>2, <1>5, <1>6
(* The bt thread gets a block only of a hash thread that runs. *)
LEMMA GotFacts ==
  ASSUME ThreadsInv, BtGot
  PROVE  /\ Running(sync["hash"]) /\ pc["bt"] \in {"lock", "lock0"}
         /\ pc'["bt"] \in {"get", "unlock"}
         /\ Known("hash") \in Int /\ Known("hash")' = Known("hash") + 1
<1>1. /\ SyncTypes /\ sync["hash"] \in SyncRec /\ sync["hash"].num \in Nat
      /\ sync \in [Objects -> SyncRec]
  BY ObjectFacts DEF ThreadsInv, SyncTypes, SyncRec
<1>2. pc["bt"] \in {"lock", "lock0"} /\ pc'["bt"] \in {"get", "unlock"}
  BY <1>1, Places, ObjectFacts DEF BtGot, Locked
<1>3. sync'["hash"].num = sync["hash"].num
  BY <1>1, ObjectFacts, CountUpdates, Numbers DEF BtGot, Locked
<1>. QED  BY <1>1, <1>2, <1>3, ObjectFacts DEF ThreadsInv, LivesSound, Known, Asking

(* The first head that the bt thread has not looked at stays where it is until *)
(* the bt thread takes up its block. *)
LEMMA HeadKept ==
  ASSUME ProtocolInv, ProtocolInv', Next, ~MtSync_Init, CountsSound, HashChain, BtLive'
  PROVE  \/ ~BtGot /\ HashNext' = HashNext
         \/ LET h == HashBlock(sync["hash"].num - 1)
            IN /\ BtGot /\ Running(sync["hash"]) /\ Running(sync'["hash"])
               /\ HashNext = h.from /\ HashNext' = h.from + Span(h.avail, h.n)
<1>1. conf' = conf /\ (mf' = mf \/ HashMove \/ HashFill)
  BY WindowFrame
<1>2. ThreadsInv /\ sync["hash"] \in SyncRec /\ sync'["hash"] \in SyncRec
  BY ObjectFacts DEF ProtocolInv, ThreadsInv, SyncTypes
<1>3. CASE ~Running(sync["hash"]) /\ ~Running(sync'["hash"])
  <2>1. ~HashMove /\ ~HashFill
    BY <1>2, <1>3, StoppingFacts DEF HashMove, HashFill
  <2>. QED  BY <1>1, <1>2, <1>3, <2>1, GotFacts DEF HashNext
<1>4. CASE ~Running(sync["hash"]) /\ Running(sync'["hash"])
  <2>1. HashMade' = 0 /\ Known("hash")' = 0 /\ mf' = mf
    BY <1>4, HashBegins
  <2>2. HashAt(Known("hash"))' = At(mf')
    BY <2>1 DEF HashAt
  <2>. QED  BY <1>2, <1>4, <2>1, <2>2, GotFacts DEF HashNext
<1>5. CASE Running(sync["hash"]) /\ ~Running(sync'["hash"])
  <2>1. pc["bt"] # "stop3" /\ ~NextStart("hash")
    BY <1>2, <1>5, LiveKept, ObjectFacts DEF NextStart, Running, SyncRec
  <2>. QED  BY <1>2, <1>5, <2>1, RunningKept, ObjectFacts DEF StopWait
<1>6. CASE Running(sync["hash"]) /\ Running(sync'["hash"])
  <2>1. HashCounted /\ (HashStays \/ HashGrows \/ HashTaken)
    BY <1>6, HashCounts DEF CountsSound
  <2>2. PICK known \in Nat, made \in Nat, oldest \in Int :
          /\ known = Known("hash") /\ made = HashMade /\ oldest = Oldest("hash")
          /\ oldest <= known /\ known <= made
    BY <1>6, <2>1, HashRange
  <2>3. /\ HashNext = HashAt(known) /\ HashNext' = HashAt(Known("hash"))'
        /\ HashAt(known) = IF known < made THEN HashBlock(known).from ELSE At(mf)
    BY <1>6, <2>2 DEF HashNext, HashAt
  <2>4. CASE HashStays
    <3>1. Known("hash")' = known /\ HashMade' = made /\ hashBuf' = hashBuf /\ At(mf') = At(mf)
      BY <2>2, <2>4 DEF HashStays
    <3>2. HashNext' = IF known < made THEN HashBlock(known)'.from ELSE At(mf')
      BY <1>6, <3>1 DEF HashNext, HashAt
    <3>3. HashBlock(known)' = HashBlock(known)
      BY <3>1 DEF HashBlock
    <3>. QED  BY <1>2, <2>2, <2>3, <3>1, <3>2, <3>3, GotFacts
  <2>5. CASE HashTaken
    <3>1. /\ Known("hash")' = known + 1 /\ HashMade' = made /\ hashBuf' = hashBuf
          /\ At(mf') = At(mf) /\ BtGot
      BY <2>2, <2>5 DEF HashTaken
    <3>2. /\ known = sync["hash"].num - 1 /\ known < made
      <4>1. pc["bt"] \in {"lock", "lock0"}
        BY <3>1, ObjectFacts DEF BtGot, Locked
      <4>. QED  BY <1>6, <2>1, <2>2, <4>1, HashRange
    <3>3. HashNext' = IF known + 1 < made THEN HashBlock(known + 1)'.from ELSE At(mf')
      BY <1>6, <3>1 DEF HashNext, HashAt
    <3>4. HashBlock(known + 1)' = HashBlock(known + 1)
      BY <3>1 DEF HashBlock
    <3>5. HashNext' = HashAt(known + 1)
      BY <2>2, <3>1, <3>3, <3>4 DEF HashAt
    <3>6. HashAt(known + 1) = HashBlock(known).from + Span(HashBlock(known).avail, HashBlock(known).n)
      <4>1. known \in Oldest("hash") .. HashMade - 1
        BY <2>2, <3>2
      <4>. QED  BY <1>6, <4>1 DEF HashChain
    <3>. QED  BY <1>6, <2>3, <3>1, <3>2, <3>5, <3>6
  <2>6. CASE HashGrows
    <3>1. Known("hash")' = known /\ HashMade' = made + 1 /\ HashFill
      BY <2>2, <2>6 DEF HashGrows
    <3>2. HashNext' = HashBlock(known)'.from
      BY <1>6, <2>2, <3>1 DEF HashNext, HashAt
    <3>3. PICK a, n \in Nat :
             /\ hashBuf' = [hashBuf EXCEPT ![H % kMtHashNumBlocks] =
                              [from |-> At(mf), n |-> n, avail |-> a]]
      BY <3>1, FillFacts DEF ProtocolInv
    <3>4. H = made /\ pc["hash"] = "fill"
      <4>1. RunSound(sync["hash"], NumBlocks("hash"), pc["hash"], pc["bt"]) /\ pc["hash"] = "fill"
        BY <1>2, <1>6, <3>1, ObjectFacts DEF ThreadsInv, ObjectSound, HashFill
      <4>2. sync["hash"].canStart = FALSE
        BY <1>2, <4>1 DEF RunSound, SyncRec
      <4>. QED  BY <2>1, <2>2, <4>1, <4>2 DEF HashCounted
    <3>5. /\ hashBuf \in [HashSlots -> [from : Nat, n : Nat, avail : Nat]]
          /\ H % kMtHashNumBlocks \in HashSlots /\ known % kMtHashNumBlocks \in HashSlots
      BY <2>2, <3>4, Slots DEF ProtocolInv, DataTypes
    <3>6. ASSUME known = made PROVE HashNext' = HashNext
      BY <2>3, <3>2, <3>3, <3>4, <3>5, <3>6 DEF HashBlock
    <3>7. ASSUME known < made PROVE HashNext' = HashNext
      <4>1. H % kMtHashNumBlocks # known % kMtHashNumBlocks
        <5>1. made - oldest < kMtHashNumBlocks
          BY <1>6, <2>1, <2>2, <3>4, HashRange
        <5>2. kMtHashNumBlocks \in Nat \ {0} /\ H - known < kMtHashNumBlocks
          BY <2>2, <3>4, <5>1, Numbers
        <5>. QED  BY <2>2, <3>4, <3>7, <5>2, SlotsDiffer
      <4>2. HashBlock(known)' = HashBlock(known)
        BY <3>3, <3>5, <4>1 DEF HashBlock
      <4>. QED  BY <2>3, <3>2, <3>7, <4>2
    <3>8. ~BtGot
      BY <1>2, <2>2, <3>1, GotFacts
    <3>. QED  BY <2>2, <3>6, <3>7, <3>8
  <2>. QED  BY <2>1, <2>4, <2>5, <2>6
<1>. QED  BY <1>3, <1>4, <1>5, <1>6
(* What BtFill, BtGot and BtMatch are about, and what all other steps leave. *)
HeadSame ==
  /\ B'.pos = B.pos /\ B'.hpos = B.hpos /\ B'.hlim = B.hlim /\ B'.hnum = B.hnum
  /\ B'.slot = B.slot

FillSame ==
  /\ B'.from = B.from /\ B'.used = B.used /\ B'.done = B.done /\ B'.avail = B.avail
  /\ B'.failed = B.failed

BtMoves ==
  \/ pc'["bt"] = pc["bt"]
  \/ pc["bt"] \in Asking \cup {"next"} /\ pc'["bt"] \in Asking
  \/ pc["bt"] = "get" /\ pc'["bt"] = "next" /\ B.used < BtLimit /\ B.hpos = B.hlim
  \/ pc["bt"] = "get" /\ pc'["bt"] = "match" /\ B.used < BtLimit /\ B.hpos # B.hlim
  \/ /\ pc["bt"] \notin Asking /\ pc'["bt"] \notin Asking \cup {"get", "match", "next"}
     /\ pc["bt"] \in {"stop", "stop2", "stop3"} => pc'["bt"] \in Calls
     /\ pc["bt"] \in {"get", "match", "next"} => BtFull

(* The steps of the bt thread, by what they do to its data. *)
LEMMA BtData ==
  ASSUME ProtocolInv, Next
  PROVE  \/ MtSync_Init \/ BtFill \/ BtGot \/ BtMatch
         \/ HeadSame /\ FillSame /\ BtMoves
<1>1. /\ SyncTypes /\ pc["lz"] \in LzPlaces /\ pc["bt"] \in BtPlaces
      /\ pc["hash"] \in HashPlaces /\ B \in BtRec /\ ThreadsInv
      /\ pc \in [Threads -> LzPlaces \cup BtPlaces \cup HashPlaces]
  BY DEF ProtocolInv, ThreadsInv, SyncTypes, DataTypes
<1>2. ASSUME B' = B, BtMoves PROVE HeadSame /\ FillSame /\ BtMoves
  BY <1>2 DEF HeadSame, FillSame
<1>3. CASE HashStep
  <2>1. pc'["bt"] = pc["bt"]
    BY <1>1, <1>3, Places
       DEF HashStep, HashStart, HashEnter1, HashEnter2, HashMove, HashTake, HashFill, HashPost,
           HashStopped
  <2>2. CASE HashMove
    <3>1. PICK d : B' = [B EXCEPT !.ptr = B.ptr - d]
      BY <2>2 DEF HashMove
    <3>. QED  BY <1>1, <2>1, <3>1 DEF BtRec, HeadSame, FillSame, BtMoves
  <2>3. CASE B' = B
    BY <1>2, <2>1, <2>3 DEF BtMoves
  <2>. QED  BY <1>3, <2>2, <2>3
            DEF HashStep, HashStart, HashEnter1, HashEnter2, HashTake, HashFill, HashPost,
                HashStopped
<1>4. CASE SyncStep("hash")
  <2>1. B' = B
    BY <1>1, <1>4, CallFrame, ObjectFacts
  <2>2. BtMoves
    BY <1>1, <1>4, Places, ObjectFacts
       DEF SyncStep, NextStart, NextUnlock, NextRelease, NextWait, StopSend, StopRelease,
           StopWait, StopNothing, BtMoves, Asking, Calls
  <2>. QED  BY <1>2, <2>1, <2>2
<1>5. CASE SyncStep("bt")
  <2>1. B' = B /\ pc'["bt"] = pc["bt"]
    BY <1>1, <1>5, CallFrame, ObjectFacts, Places
  <2>. QED  BY <1>2, <2>1 DEF BtMoves
<1>6. ASSUME BtStep, ~SyncStep("hash"), ~BtFill, ~BtGot, ~BtMatch
      PROVE  HeadSame /\ FillSame /\ BtMoves
  <2>1. BtMoves
    BY <1>1, <1>6, Places
       DEF BtStep, BtStart, BtTake, BtFull, BtNext, BtLoad, BtUnlock, BtPost, BtStopped,
           BtMoves, Asking
  <2>2. CASE BtStart
    BY <1>1, <2>1, <2>2 DEF BtStart, BtRec, HeadSame, FillSame
  <2>3. CASE BtLoad
    BY <1>1, <2>1, <2>3 DEF BtLoad, BtRec, HeadSame, FillSame
  <2>4. CASE BtPost
    BY <1>1, <2>1, <2>4 DEF BtPost, BtRec, HeadSame, FillSame
  <2>. QED  BY <1>2, <1>6, <2>1, <2>2, <2>3, <2>4
            DEF BtStep, BtTake, BtFull, BtNext, BtUnlock, BtStopped
<1>7. ASSUME LzStep, ~SyncStep("bt"), ~MtSync_Init PROVE HeadSame /\ FillSame /\ BtMoves
  <2>1. B' = B
    BY <1>7
       DEF LzStep, MtSync_Create, MtSync_Destruct, Thread_Wait_Close, LzNext, LzGot, LzConsume,
           LzEnd, LzAbort, LzStopped
  <2>2. ASSUME NEW o \in Objects, MtSync_Create(o) PROVE BtMoves
    <3>1. pc'["bt"] = pc["bt"] \/ (pc'["bt"] = "start" /\ pc["bt"] = "none")
      <4>1. pc["lz"] = "create2" => pc["bt"] = "none"
        BY <1>1 DEF ThreadsInv, LivesSound
      <4>. QED  BY <1>1, <2>2, <4>1, ObjectFacts DEF MtSync_Create, Goto, Threads
    <3>. QED  BY <3>1 DEF BtMoves, Asking
  <2>3. ASSUME NEW o \in Objects, MtSync_Destruct(o) \/ Thread_Wait_Close(o) PROVE BtMoves
    BY <1>1, <2>3, Places DEF MtSync_Destruct, Thread_Wait_Close, BtMoves
  <2>4. ASSUME LzNext \/ LzGot \/ LzConsume \/ LzEnd \/ LzAbort \/ LzStopped PROVE BtMoves
    BY <1>1, <2>4, Places DEF LzNext, LzGot, LzConsume, LzEnd, LzAbort, LzStopped, BtMoves
  <2>. QED  BY <1>2, <1>7, <2>1, <2>2, <2>3, <2>4 DEF LzStep
<1>. QED  BY <1>3, <1>4, <1>5, <1>6, <1>7 DEF Next, BtStep, LzStep
(* BtFill, BtGot and BtMatch, field by field: a block is begun. *)
LEMMA FillData ==
  ASSUME ProtocolInv, BtFill
  PROVE  /\ HeadSame /\ B'.failed = B.failed
         /\ B'.from = B.pos /\ B'.used = 2 /\ B'.done = 0 /\ B'.avail = B.hnum
         /\ pc["bt"] = "fill" /\ pc'["bt"] = IF B.failed THEN "unlock" ELSE "get"
<1>1. SyncTypes /\ B \in BtRec
  BY DEF ProtocolInv, ThreadsInv, DataTypes
<1>. QED  BY <1>1, Places DEF BtFill, BtRec, HeadSame

(* The bt thread goes on with what the block of heads says. *)
LEMMA GotData ==
  ASSUME ProtocolInv, BtGot, CountsSound
  PROVE  LET h == HashBlock(sync["hash"].num - 1)
         IN /\ B'.slot = (sync["hash"].num - 1) % kMtHashNumBlocks
            /\ B'.hpos = 0 /\ B'.hlim = h.n /\ B'.avail = AvailSum(B.done, h.avail)
            /\ B'.pos = B.pos /\ B'.from = B.from /\ B'.done = B.done /\ B'.failed = B.failed
            /\ h.avail >= NumHashBytes =>
                 B'.hnum = h.avail /\ B'.used = B.used /\ pc'["bt"] = "get"
            /\ ~(h.avail >= NumHashBytes) =>
                 B'.hnum = 0 /\ B'.used = B.used + h.avail /\ pc'["bt"] = "unlock"
            /\ sync'["hash"].num = sync["hash"].num
            /\ hashBuf' = hashBuf /\ HashMade' = HashMade
<1>1. /\ SyncTypes /\ B \in BtRec /\ ThreadsInv /\ sync["hash"] \in SyncRec
      /\ sync \in [Objects -> SyncRec]
  BY ObjectFacts DEF ProtocolInv, ThreadsInv, SyncTypes, DataTypes
<1>2. PICK h : h = hashBuf[BlockIndex("hash")] /\ h = HashBlock(sync["hash"].num - 1)
  <2>1. BlockIndex("hash") = (sync["hash"].num - 1) % kMtHashNumBlocks
    BY <1>1, GotFacts, HashRange DEF CountsSound
  <2>. QED  BY <2>1 DEF HashBlock
<1>3. BlockIndex("hash") = (sync["hash"].num - 1) % kMtHashNumBlocks
  BY <1>1, GotFacts, HashRange DEF CountsSound
<1>4. /\ B' = [B EXCEPT !.slot = BlockIndex("hash"), !.hpos = 0, !.hlim = h.n,
                        !.avail = AvailSum(B.done, h.avail),
                        !.hnum = IF h.avail >= NumHashBytes THEN h.avail ELSE 0,
                        !.used = IF h.avail >= NumHashBytes THEN B.used ELSE B.used + h.avail]
      /\ hashBuf' = hashBuf
  BY <1>2 DEF BtGot
<1>5. pc'["bt"] = IF h.avail >= NumHashBytes THEN "get" ELSE "unlock"
  BY <1>1, <1>2, Places DEF BtGot
<1>6. /\ sync'["hash"].num = sync["hash"].num /\ sync'["hash"].filled = sync["hash"].filled
      /\ pc'["hash"] = pc["hash"]
  BY <1>1, Places, ObjectFacts, CountUpdates, Numbers DEF BtGot, Locked
<1>7. HashMade' = HashMade
  BY <1>1, <1>6, GotFacts, ObjectFacts DEF HashMade, Got
<1>8. /\ B'.slot = (sync["hash"].num - 1) % kMtHashNumBlocks
      /\ B'.hpos = 0 /\ B'.hlim = h.n /\ B'.avail = AvailSum(B.done, h.avail)
      /\ B'.pos = B.pos /\ B'.from = B.from /\ B'.done = B.done /\ B'.failed = B.failed
  BY <1>1, <1>3, <1>4 DEF BtRec
<1>9. /\ B'.hnum = IF h.avail >= NumHashBytes THEN h.avail ELSE 0
      /\ B'.used = IF h.avail >= NumHashBytes THEN B.used ELSE B.used + h.avail
  BY <1>1, <1>4 DEF BtRec
<1>. QED  BY <1>2, <1>4, <1>5, <1>6, <1>7, <1>8, <1>9

(* One more position, or the failure. *)
LEMMA MatchData ==
  ASSUME ProtocolInv, BtMatch
  PROVE  /\ pc["bt"] = "match"
         /\ B'.slot = B.slot /\ B'.hlim = B.hlim /\ B'.from = B.from /\ B'.avail = B.avail
         /\ \/ /\ pc'["bt"] = "unlock" /\ B'.failed = TRUE /\ B'.pos = B.pos /\ B'.hpos = B.hpos
               /\ B'.hnum = B.hnum /\ B'.done = B.done /\ B'.used = B.used
            \/ /\ pc'["bt"] = "get" /\ B'.failed = B.failed
               /\ B'.pos = B.pos + 1 /\ B'.hpos = B.hpos + 1 /\ B'.hnum = B.hnum - 1
               /\ B'.done = B.done + 1
               /\ \E e \in 1 .. 2 * MatchMaxLen : B'.used = B.used + e
<1>1. SyncTypes /\ B \in BtRec /\ conf \in Confs /\ B.pos \in Nat
  BY DEF ProtocolInv, ThreadsInv, DataTypes, BtRec
<1>2. PICK e \in 1 .. 2 * MatchMaxLen : e = conf.entries[(B.pos % Len(conf.entries)) + 1]
  BY <1>1, EntriesTyped
<1>3. pc["bt"] = "match"
  BY DEF BtMatch
<1>4. CASE B.pos = conf.failAt
  <2>1. B' = [B EXCEPT !.failed = TRUE, !.cur = none] /\ pc'["bt"] = "unlock"
    BY <1>1, <1>4, Places DEF BtMatch
  <2>. QED  BY <1>1, <1>3, <2>1 DEF BtRec
<1>5. CASE B.pos # conf.failAt
  <2>1. /\ B' = [B EXCEPT !.used = B.used + e, !.done = B.done + 1, !.hpos = B.hpos + 1,
                          !.hnum = B.hnum - 1, !.pos = B.pos + 1, !.ptr = B.cur + 1,
                          !.cur = none]
        /\ pc'["bt"] = "get"
    BY <1>1, <1>2, <1>5, Places DEF BtMatch
  <2>2. /\ B'.slot = B.slot /\ B'.hlim = B.hlim /\ B'.from = B.from /\ B'.avail = B.avail
        /\ B'.failed = B.failed
    BY <1>1, <2>1 DEF BtRec
  <2>3. /\ B'.pos = B.pos + 1 /\ B'.hpos = B.hpos + 1 /\ B'.hnum = B.hnum - 1
        /\ B'.done = B.done + 1 /\ B'.used = B.used + e
    BY <1>1, <2>1 DEF BtRec
  <2>. QED  BY <1>3, <2>1, <2>2, <2>3
<1>. QED  BY <1>4, <1>5
(* A block of heads that is not given back is not overwritten. *)
LEMMA HashBlockKept ==
  ASSUME ProtocolInv, ProtocolInv', Next, Running(sync["hash"]), Running(sync'["hash"]),
         HashCounted, NEW j \in Int, Oldest("hash") <= j, j < HashMade
  PROVE  HashBlock(j)' = HashBlock(j)
<1>1. CASE hashBuf' = hashBuf
  BY <1>1 DEF HashBlock
<1>2. CASE HashGrows
  <2>1. PICK a, n \in Nat :
           hashBuf' = [hashBuf EXCEPT ![H % kMtHashNumBlocks] =
                         [from |-> At(mf), n |-> n, avail |-> a]]
    BY <1>2, FillFacts DEF HashGrows, ProtocolInv
  <2>2. pc["hash"] = "fill"
    BY <1>2 DEF HashGrows, HashFill
  <2>3. H = HashMade
    <3>1. sync["hash"] \in SyncRec
      BY ObjectFacts DEF ProtocolInv, ThreadsInv, SyncTypes
    <3>2. RunSound(sync["hash"], NumBlocks("hash"), pc["hash"], pc["bt"])
      BY ObjectFacts DEF ProtocolInv, ThreadsInv, ObjectSound
    <3>3. sync["hash"].canStart = FALSE
      BY <2>2, <3>1, <3>2 DEF RunSound, SyncRec
    <3>. QED  BY <3>3 DEF HashCounted
  <2>4. hashBuf \in [HashSlots -> [from : Nat, n : Nat, avail : Nat]]
    BY DEF ProtocolInv, DataTypes
  <2>5. H % kMtHashNumBlocks # j % kMtHashNumBlocks
    <3>1. HashMade \in Nat /\ Oldest("hash") \in Int /\ HashMade - Oldest("hash") < kMtHashNumBlocks
      BY <2>2, HashRange
    <3>2. kMtHashNumBlocks \in Nat \ {0} /\ H \in Int /\ j < H /\ H - j < kMtHashNumBlocks
      BY <2>3, <3>1, Numbers
    <3>. QED  BY <3>2, SlotsDiffer
  <2>6. j % kMtHashNumBlocks \in HashSlots
    BY Slots
  <2>. QED  BY <2>1, <2>4, <2>5, <2>6 DEF HashBlock
<1>. QED  BY <1>1, <1>2, HashCounts DEF HashStays, HashTaken

(* What the bt thread knows of its block of heads stays true. *)
LEMMA HashHeldKept ==
  ASSUME ProtocolInv, ProtocolInv', Next, CountsSound, HashChain, BtCursor, HashHeld
  PROVE  HashHeld'
<1>. SUFFICES ASSUME Running(sync'["hash"]), pc'["bt"] \in Working \ Asking
              PROVE  LET h == HashBlock(sync["hash"].num - 1)'
                     IN /\ B'.slot = (sync'["hash"].num - 1) % kMtHashNumBlocks
                        /\ B'.hlim = h.n
                        /\ h.avail >= NumHashBytes
                             => B'.pos = h.from + B'.hpos /\ B'.hnum = h.avail - B'.hpos
  BY DEF HashHeld
<1>1. /\ SyncTypes /\ pc["bt"] \in BtPlaces /\ B \in BtRec /\ ThreadsInv
      /\ sync["hash"] \in SyncRec /\ sync["hash"].num \in Nat /\ sync'["hash"].num \in Nat
      /\ hashBuf \in [HashSlots -> [from : Nat, n : Nat, avail : Nat]]
  BY ObjectFacts DEF ProtocolInv, ThreadsInv, SyncTypes, DataTypes, SyncRec
<1>2. Running(sync["hash"]) /\ HashCounted /\ ~MtSync_Init
  <2>1. Running(sync["hash"])
    BY HashBegins DEF Asking
  <2>2. MtSync_Init => pc["bt"] = "start"
    BY <1>1, InitReady DEF MtSync_Init
  <2>. QED  BY <1>1, <2>1, <2>2 DEF CountsSound, ThreadsInv, LivesSound
<1>3. HashStays \/ HashGrows \/ HashTaken
  BY <1>2, HashCounts
<1>4. CASE BtGot
  <2>1. PICK h : h = HashBlock(sync["hash"].num - 1)
    OBVIOUS
  <2>2. /\ B'.slot = (sync["hash"].num - 1) % kMtHashNumBlocks
        /\ B'.hpos = 0 /\ B'.hlim = h.n /\ B'.pos = B.pos
        /\ h.avail >= NumHashBytes => B'.hnum = h.avail
        /\ sync'["hash"].num = sync["hash"].num /\ hashBuf' = hashBuf
    BY <1>4, <2>1, GotData
  <2>3. HashBlock(sync["hash"].num - 1)' = h
    BY <2>1, <2>2 DEF HashBlock
  <2>4. h \in [from : Nat, n : Nat, avail : Nat]
    BY <1>1, <2>1, Slots DEF HashBlock
  <2>5. h.avail >= NumHashBytes => B.pos = h.from
    <3>1. pc["bt"] \in {"lock", "lock0"}
      BY <1>1, <1>4, GotFacts
    <3>2. BtLive /\ BtLive'
      BY <3>1 DEF BtLive, Working, Asking
    <3>3. HashNext = h.from
      BY <1>2, <1>4, <2>1, <3>2, HeadKept
    <3>4. HeadsFor(h.from, h.avail, h.n)
      <4>1. /\ Oldest("hash") <= Known("hash") /\ Known("hash") < HashMade
            /\ Known("hash") = sync["hash"].num - 1 /\ HashMade \in Nat /\ Oldest("hash") \in Int
        BY <1>2, <3>1, HashRange
      <4>2. sync["hash"].num - 1 \in Oldest("hash") .. HashMade - 1
        BY <1>1, <4>1
      <4>. QED  BY <1>2, <2>1, <4>2 DEF HashChain
    <3>5. /\ B.hpos = B.hlim
          /\ \/ B.pos + (B.hlim - B.hpos) = HashNext
             \/ HashNext = conf.len
      BY <3>1, <3>2 DEF BtCursor, CursorSound, Asking
    <3>6. B.hpos \in Int /\ B.hlim \in Int /\ B.pos \in Int /\ NumHashBytes >= 2 /\ NumHashBytes \in Nat
      BY <1>1, MtAssumption DEF BtRec
    <3>7. conf.len \in Nat
      BY ConfsAssumption DEF ProtocolInv, DataTypes
    <3>. QED  BY <2>4, <3>3, <3>4, <3>5, <3>6, <3>7 DEF HeadsFor
  <2>. QED  BY <2>2, <2>3, <2>4, <2>5
<1>5. ASSUME ~BtGot
      PROVE  /\ pc["bt"] \in Working \ Asking
             /\ \/ HeadSame
                \/ BtMatch
  <2>1. CASE BtFill
    BY <2>1, FillData DEF Working, Asking
  <2>2. CASE BtMatch
    BY <2>2, MatchData DEF Working, Asking
  <2>3. CASE HeadSame /\ FillSame /\ BtMoves
    <3>1. pc["bt"] \notin {"none", "start", "dead", "stopped"}
      BY <1>1, <1>2 DEF ThreadsInv, LivesSound
    <3>. QED  BY <1>1, <2>3, <3>1 DEF BtMoves, Working, Asking, BtPlaces, Calls
  <2>. QED  BY <1>2, <1>5, <2>1, <2>2, <2>3, BtData
<1>6. ASSUME ~BtGot PROVE HashHeld'
  <2>1. PICK n \in Nat : n = sync["hash"].num
    BY <1>1
  <2>2. Oldest("hash") = n - 1 /\ n - 1 < HashMade /\ HashMade \in Nat
    BY <1>2, <1>5, <1>6, <2>1, HashRange
  <2>3. sync'["hash"].num = n
    <3>1. Known("hash")' = Known("hash")
      BY <1>3, <1>6 DEF HashStays, HashGrows, HashTaken
    <3>. QED  BY <1>5, <1>6, <2>1, <3>1, ObjectFacts DEF Known
  <2>4. HashBlock(n - 1)' = HashBlock(n - 1)
    BY <1>2, <2>1, <2>2, HashBlockKept
  <2>5. PICK h : h = HashBlock(n - 1) /\ h = HashBlock(sync["hash"].num - 1)'
    BY <2>3, <2>4 DEF HashBlock
  <2>6. /\ B.slot = (n - 1) % kMtHashNumBlocks /\ B.hlim = h.n
        /\ h.avail >= NumHashBytes => B.pos = h.from + B.hpos /\ B.hnum = h.avail - B.hpos
    BY <1>2, <1>5, <1>6, <2>1, <2>5 DEF HashHeld
  <2>7. /\ h.from \in Int /\ h.n \in Int /\ h.avail \in Int /\ NumHashBytes \in Int
        /\ B.pos \in Int /\ B.hpos \in Int /\ B.hnum \in Int
    <3>1. (n - 1) % kMtHashNumBlocks \in HashSlots
      BY <2>1, Slots
    <3>2. h \in [from : Nat, n : Nat, avail : Nat]
      BY <1>1, <2>5, <3>1 DEF HashBlock
    <3>. QED  BY <1>1, <3>2, Numbers DEF BtRec
  <2>8. CASE HeadSame
    BY <2>3, <2>5, <2>6, <2>8 DEF HashHeld, HeadSame
  <2>9. CASE BtMatch
    <3>1. /\ B'.slot = B.slot /\ B'.hlim = B.hlim
          /\ \/ B'.pos = B.pos /\ B'.hpos = B.hpos /\ B'.hnum = B.hnum
             \/ B'.pos = B.pos + 1 /\ B'.hpos = B.hpos + 1 /\ B'.hnum = B.hnum - 1
      BY <2>9, MatchData
    <3>2. h.avail >= NumHashBytes => B'.pos = h.from + B'.hpos /\ B'.hnum = h.avail - B'.hpos
      BY <2>6, <2>7, <3>1
    <3>. QED  BY <2>3, <2>5, <2>6, <3>1, <3>2 DEF HashHeld
  <2>. QED  BY <1>5, <1>6, <2>8, <2>9
<1>7. CASE ~BtGot
  BY <1>6, <1>7 DEF HashHeld
<1>. QED  BY <1>4, <1>7
(* The position after the heads that the bt thread knows is a number. *)
LEMMA HashNextTyped ==
  ASSUME ProtocolInv, CountsSound
  PROVE  HashNext \in Int
<1>1. /\ hashBuf \in [HashSlots -> [from : Nat, n : Nat, avail : Nat]] /\ At(mf) \in Int
  BY DEF ProtocolInv, DataTypes, WindowInv, WindowFor, WindowSound, WindowRec, At
<1>2. CASE Running(sync["hash"])
  <2>1. Known("hash") \in Int
    BY <1>2, HashRange DEF CountsSound
  <2>2. HashBlock(Known("hash")).from \in Int
    BY <1>1, <2>1, Slots DEF HashBlock
  <2>. QED  BY <1>1, <1>2, <2>2 DEF HashNext, HashAt
<1>. QED  BY <1>1, <1>2 DEF HashNext

(* Until the end of the stream there are more bytes than heads. *)
LEMMA HeldFacts ==
  ASSUME ProtocolInv, CountsSound, HashChain, HashHeld, BtRanges, Running(sync["hash"]),
         pc["bt"] \in Working \ Asking, HashNext # conf.len
  PROVE  B.hnum >= 1
<1>1. /\ B \in BtRec /\ sync["hash"].num \in Nat
      /\ hashBuf \in [HashSlots -> [from : Nat, n : Nat, avail : Nat]]
  BY ObjectFacts DEF ProtocolInv, ThreadsInv, SyncTypes, DataTypes, SyncRec
<1>2. PICK h \in [from : Nat, n : Nat, avail : Nat] : h = HashBlock(sync["hash"].num - 1)
  <2>1. (sync["hash"].num - 1) % kMtHashNumBlocks \in HashSlots
    BY <1>1, Slots
  <2>. QED  BY <1>1, <2>1 DEF HashBlock
<1>3. HeadsFor(h.from, h.avail, h.n) /\ HashNext = h.from + Span(h.avail, h.n)
  <2>1. /\ Oldest("hash") = sync["hash"].num - 1 /\ Oldest("hash") < HashMade
        /\ HashMade \in Nat /\ Oldest("hash") \in Int
    BY HashRange DEF CountsSound
  <2>2. sync["hash"].num - 1 \in Oldest("hash") .. HashMade - 1
    BY <2>1
  <2>3. (sync["hash"].num - 1) + 1 = Known("hash")
    BY <1>1, ObjectFacts DEF Known
  <2>. QED  BY <1>2, <2>2, <2>3 DEF HashChain, HashNext
<1>4. B.hlim = h.n /\ (h.avail >= NumHashBytes => B.hnum = h.avail - B.hpos)
  BY <1>2 DEF HashHeld
<1>5. B.hpos \in Int /\ B.hlim \in Int /\ NumHashBytes \in Int /\ B.hpos <= B.hlim
  BY <1>1, Numbers DEF BtRec, BtRanges
<1>. QED  BY <1>2, <1>3, <1>4, <1>5 DEF HeadsFor, Span

(* The bt thread's place in the stream and in the heads stay in step. *)
LEMMA CursorKept ==
  ASSUME ProtocolInv, ProtocolInv', Next, CountsSound, CountsSound', HashChain, HashHeld,
         StartedSound, BtRanges, BtCursor
  PROVE  BtCursor'
<1>1. /\ SyncTypes /\ ThreadsInv /\ pc["bt"] \in BtPlaces /\ B \in BtRec
      /\ B.pos \in Int /\ B.hpos \in Int /\ B.hlim \in Int /\ B.hnum \in Int
      /\ B.from \in Int /\ B.used \in Int /\ B.done \in Nat /\ B.avail \in Int
      /\ B.failed \in BOOLEAN /\ HashNext \in Int /\ conf.len \in Nat /\ conf' = conf
      /\ BtLimit \in Int
  <2>1. BtLimit \in Int
    BY Numbers DEF BtLimit
  <2>2. conf.len \in Nat
    BY ConfsAssumption DEF ProtocolInv, DataTypes
  <2>. QED  BY <2>1, <2>2, HashNextTyped, WindowFrame
            DEF ProtocolInv, ThreadsInv, SyncTypes, DataTypes, BtRec
<1>2. CASE MtSync_Init
  <2>1. /\ mf' = NewWindow(conf) /\ B' = InitB /\ pc["bt"] = "start" /\ pc'["bt"] = "start"
    BY <1>1, <1>2, InitReady, Places DEF MtSync_Init
  <2>2. ~Running(sync'["hash"])
    BY <2>1, ObjectFacts DEF ProtocolInv, ThreadsInv, LivesSound
  <2>3. HashNext' = 0
    <3>1. mf'.origin = 0 /\ mf'.buffer = 0
      BY <2>1, NewWindowFacts DEF ProtocolInv, DataTypes
    <3>. QED  BY <2>2, <3>1 DEF HashNext, At
  <2>4. CursorSound' /\ ~Filling'
    BY <1>1, <2>1, <2>3 DEF CursorSound, Filling, Asking, InitB
  <2>. QED  BY <2>4 DEF BtCursor
<1>3. ASSUME ~MtSync_Init, BtLive' PROVE BtLive /\ (BtGot \/ HashNext' = HashNext)
  BY <1>1, <1>3, LiveKept, HeadKept
<1>4. Filling => BtLive
  BY DEF Filling, BtLive, Working, Asking
<1>5. Filling' => BtLive'
  BY DEF Filling, BtLive, Working, Asking
<1>6. CASE BtFill
  <2>1. /\ HeadSame /\ B'.failed = B.failed
        /\ B'.from = B.pos /\ B'.used = 2 /\ B'.done = 0 /\ B'.avail = B.hnum
        /\ pc["bt"] = "fill" /\ pc'["bt"] = IF B.failed THEN "unlock" ELSE "get"
    BY <1>6, FillData
  <2>2. ~MtSync_Init /\ ~BtGot
    BY <1>1, <2>1, InitReady, GotFacts DEF MtSync_Init
  <2>3. BtLive /\ BtLive'
    BY <2>1 DEF BtLive, Working
  <2>4. HashNext' = HashNext /\ CursorSound
    BY <1>3, <2>2, <2>3 DEF BtCursor
  <2>5. CursorSound'
    BY <1>1, <2>1, <2>4 DEF CursorSound, HeadSame, Asking
  <2>6. Filling' => FillingSound'
    BY <1>1, <2>1 DEF Filling, FillingSound, HeadSame, Asking
  <2>. QED  BY <2>5, <2>6 DEF BtCursor
<1>7. CASE BtMatch
  <2>1. /\ pc["bt"] = "match" /\ B'.hlim = B.hlim /\ B'.from = B.from /\ B'.avail = B.avail
        /\ \/ /\ pc'["bt"] = "unlock" /\ B'.pos = B.pos /\ B'.hpos = B.hpos
              /\ B'.hnum = B.hnum
           \/ /\ pc'["bt"] = "get" /\ B'.failed = B.failed
              /\ B'.pos = B.pos + 1 /\ B'.hpos = B.hpos + 1 /\ B'.hnum = B.hnum - 1
              /\ B'.done = B.done + 1
              /\ \E e \in 1 .. 2 * MatchMaxLen : B'.used = B.used + e
    BY <1>7, MatchData
  <2>2. ~MtSync_Init /\ ~BtGot
    BY <1>1, <2>1, InitReady, GotFacts DEF MtSync_Init
  <2>3. BtLive /\ BtLive' /\ Filling
    BY <2>1 DEF BtLive, Working, Filling
  <2>4. HashNext' = HashNext /\ CursorSound /\ FillingSound
    BY <1>3, <2>2, <2>3 DEF BtCursor
  <2>5. B.hpos # B.hlim /\ B.hnum >= 1
    BY <2>1, <2>4, HeldFacts DEF CursorSound, StartedSound, Working, Asking
  <2>6. CASE pc'["bt"] = "unlock"
    <3>1. CursorSound' /\ ~Filling'
      BY <1>1, <2>1, <2>4, <2>6 DEF CursorSound, Filling, Asking
    <3>. QED  BY <3>1 DEF BtCursor
  <2>7. CASE pc'["bt"] = "get"
    <3>1. PICK e \in Nat : e >= 1 /\ B'.used = B.used + e
      BY <2>1, <2>7, Numbers
    <3>2. CursorSound'
      BY <1>1, <2>1, <2>4, <2>5, <2>7 DEF CursorSound, Asking
    <3>3. Running(sync'["hash"])
      BY <1>7, <2>1 DEF StartedSound, BtMatch
    <3>4. FillingSound'
      BY <1>1, <2>1, <2>4, <2>5, <2>7, <3>1, <3>3 DEF FillingSound, CursorSound
    <3>. QED  BY <3>2, <3>4 DEF BtCursor
  <2>. QED  BY <2>1, <2>6, <2>7
<1>8. CASE BtGot
  <2>1. PICK h : h = HashBlock(sync["hash"].num - 1)
    OBVIOUS
  <2>2. /\ B'.hpos = 0 /\ B'.hlim = h.n /\ B'.avail = AvailSum(B.done, h.avail)
        /\ B'.pos = B.pos /\ B'.from = B.from /\ B'.done = B.done /\ B'.failed = B.failed
        /\ h.avail >= NumHashBytes =>
             B'.hnum = h.avail /\ B'.used = B.used /\ pc'["bt"] = "get"
        /\ ~(h.avail >= NumHashBytes) => B'.hnum = 0 /\ pc'["bt"] = "unlock"
    BY <1>8, <2>1, GotData
  <2>3. /\ pc["bt"] \in {"lock", "lock0"} /\ pc'["bt"] \in {"get", "unlock"}
        /\ Running(sync["hash"])
    BY <1>1, <1>8, GotFacts
  <2>4. BtLive /\ BtLive' /\ Filling /\ ~MtSync_Init
    BY <1>1, <2>3, InitReady DEF BtLive, Working, Asking, Filling, MtSync_Init
  <2>5. HashNext = h.from /\ HashNext' = h.from + Span(h.avail, h.n)
    BY <1>8, <2>1, <2>4, HeadKept
  <2>6. HeadsFor(h.from, h.avail, h.n) /\ h \in [from : Nat, n : Nat, avail : Nat]
    <3>1. /\ Oldest("hash") <= Known("hash") /\ Known("hash") < HashMade
          /\ Known("hash") = sync["hash"].num - 1 /\ HashMade \in Nat /\ Oldest("hash") \in Int
          /\ Known("hash") \in Int
      BY <2>3, HashRange DEF CountsSound
    <3>2. sync["hash"].num - 1 \in Oldest("hash") .. HashMade - 1
      BY <3>1
    <3>3. (sync["hash"].num - 1) % kMtHashNumBlocks \in HashSlots
      BY <3>1, Slots
    <3>. QED  BY <2>1, <2>3, <3>2, <3>3 DEF HashChain, HashBlock, ProtocolInv, DataTypes
  <2>7. /\ CursorSound /\ FillingSound /\ B.hpos = B.hlim
    BY <2>3, <2>4 DEF BtCursor, CursorSound, Asking
  <2>8. NumHashBytes \in Nat /\ NumHashBytes >= 2
    BY MtAssumption
  <2>9. CASE h.avail >= NumHashBytes
    <3>1. HashNext' = h.from + h.n /\ h.n < h.avail /\ h.from + h.avail <= conf.len
      BY <2>5, <2>6, <2>9 DEF Span, HeadsFor
    <3>2. B.pos = h.from /\ HashNext' < conf.len
      BY <1>1, <2>5, <2>6, <2>7, <2>8, <2>9, <3>1 DEF CursorSound
    <3>3. CursorSound'
      BY <1>1, <2>2, <2>6, <2>9, <3>1, <3>2 DEF CursorSound, Asking
    <3>4. Running(sync'["hash"])
      BY <1>8, <2>4, HeadKept
    <3>5. /\ B'.avail <= B'.done + B'.hnum
          /\ B'.avail = B'.done + B'.hnum \/ B'.avail >= MaxAvail
      <4>1. h.avail \in Nat /\ B.done \in Nat /\ MaxAvail \in Int
        BY <1>1, <2>6, WindowAssumption
      <4>2. PICK a : a = AvailSum(B.done, h.avail)
        OBVIOUS
      <4>3. /\ a \in Nat /\ a <= B.done + h.avail
            /\ a = B.done + h.avail \/ a = MaxAvail
        BY <4>1, <4>2, AvailSumIs
      <4>4. B'.avail = a /\ B'.done = B.done /\ B'.hnum = h.avail
        BY <2>2, <2>9, <4>2
      <4>. QED  BY <4>1, <4>3, <4>4
    <3>6. FillingSound'
      BY <1>1, <2>2, <2>6, <2>7, <2>9, <3>2, <3>4, <3>5 DEF FillingSound
    <3>. QED  BY <3>3, <3>6 DEF BtCursor
  <2>10. CASE ~(h.avail >= NumHashBytes)
    <3>1. HashNext' = conf.len /\ h.n = 0
      BY <2>5, <2>6, <2>8, <2>10 DEF Span, HeadsFor
    <3>2. CursorSound'
      BY <1>1, <2>2, <2>7, <2>10, <3>1 DEF CursorSound, Asking
    <3>3. ~Filling'
      BY <2>2, <2>10 DEF Filling, Asking
    <3>. QED  BY <3>2, <3>3 DEF BtCursor
  <2>. QED  BY <2>9, <2>10
<1>9. ASSUME ~MtSync_Init, ~BtGot, HeadSame, FillSame, BtMoves PROVE BtCursor'
  <2>1. ASSUME BtLive' PROVE CursorSound'
    <3>1. CursorSound /\ HashNext' = HashNext
      BY <1>3, <1>9, <2>1 DEF BtCursor
    <3>2. pc'["bt"] \in Asking \cup {"next"} => B.hpos = B.hlim
      BY <1>9, <3>1 DEF CursorSound, BtMoves, Asking
    <3>3. pc'["bt"] = "match" => B.hpos # B.hlim
      BY <1>9, <3>1 DEF CursorSound, BtMoves, Asking
    <3>. QED  BY <1>1, <1>9, <3>1, <3>2, <3>3 DEF CursorSound, HeadSame
  <2>2. ASSUME Filling' PROVE FillingSound'
    <3>1. Filling
      BY <1>9, <2>2 DEF Filling, BtMoves, Asking
    <3>2. FillingSound /\ HashNext' = HashNext
      BY <1>3, <1>5, <1>9, <2>2, <3>1 DEF BtCursor
    <3>3. pc'["bt"] # "get" => B.used < BtLimit
      BY <1>9, <2>2, <3>2 DEF FillingSound, BtMoves, Asking, Filling
    <3>4. Running(sync["hash"]) => Running(sync'["hash"])
      <4>1. ~Running(sync'["hash"]) /\ Running(sync["hash"]) => StopWait("hash")
        BY <1>1, RunningKept, ObjectFacts DEF NextStart, Running, SyncTypes, SyncRec
      <4>2. StopWait("hash") => pc["bt"] = "stop3"
        BY ObjectFacts DEF StopWait
      <4>. QED  BY <3>1, <4>1, <4>2 DEF Filling, Asking
    <3>. QED  BY <1>1, <1>9, <3>2, <3>3, <3>4 DEF FillingSound, FillSame, HeadSame, BtLimit
  <2>. QED  BY <2>1, <2>2 DEF BtCursor
<1>. QED  BY <1>2, <1>6, <1>7, <1>8, <1>9, BtData
(* A block of matches is left before it could outgrow its size. *)
LEMMA BtRangesKept ==
  ASSUME ProtocolInv, Next, CountsSound, BtCursor, BtRanges
  PROVE  BtRanges'
<1>1. /\ SyncTypes /\ ThreadsInv /\ B \in BtRec
      /\ B.hpos \in Int /\ B.hlim \in Int /\ B.used \in Int /\ pc["bt"] \in BtPlaces
      /\ kMtBtBlockSize \in Nat /\ MatchMaxLen \in Nat /\ NumHashBytes \in Nat
      /\ kMtBtBlockSize > 4 * MatchMaxLen /\ MatchMaxLen >= NumHashBytes /\ NumHashBytes >= 2
      /\ BtLimit = kMtBtBlockSize - 2 * MatchMaxLen
  BY MtAssumption, Numbers
     DEF ProtocolInv, ThreadsInv, SyncTypes, DataTypes, BtRec, BtLimit
<1>2. CASE MtSync_Init
  <2>1. B' = InitB
    BY <1>1, <1>2, InitReady DEF MtSync_Init
  <2>. QED  BY <1>1, <2>1 DEF InitB, BtRanges
<1>3. CASE BtFill
  <2>1. HeadSame /\ B'.used = 2
    BY <1>3, FillData
  <2>. QED  BY <1>1, <2>1 DEF HeadSame, BtRanges
<1>4. CASE BtMatch
  <2>1. pc["bt"] = "match"
    BY <1>4, MatchData
  <2>2. B.used < BtLimit /\ B.hpos # B.hlim
    BY <2>1 DEF BtCursor, FillingSound, CursorSound, Filling, BtLive, Working
  <2>3. CASE B'.hlim = B.hlim /\ B'.hpos = B.hpos /\ B'.used = B.used
    BY <2>3 DEF BtRanges
  <2>4. ASSUME NEW e \in 1 .. 2 * MatchMaxLen, B'.hlim = B.hlim, B'.hpos = B.hpos + 1,
               B'.used = B.used + e
        PROVE  BtRanges'
    BY <1>1, <2>2, <2>4 DEF BtRanges
  <2>. QED  BY <1>4, <2>3, <2>4, MatchData
<1>5. CASE BtGot
  <2>1. PICK h : h = HashBlock(sync["hash"].num - 1)
    OBVIOUS
  <2>2. /\ B'.hpos = 0 /\ B'.hlim = h.n
        /\ h.avail >= NumHashBytes => B'.used = B.used
        /\ ~(h.avail >= NumHashBytes) => B'.used = B.used + h.avail
    BY <1>5, <2>1, GotData
  <2>3. h \in [from : Nat, n : Nat, avail : Nat]
    <3>1. sync["hash"].num - 1 \in Int
      BY <1>1, ObjectFacts DEF SyncTypes, SyncRec
    <3>2. (sync["hash"].num - 1) % kMtHashNumBlocks \in HashSlots
      BY <3>1, Slots
    <3>. QED  BY <2>1, <3>2 DEF HashBlock, ProtocolInv, DataTypes
  <2>4. B.used < BtLimit
    <3>1. pc["bt"] \in {"lock", "lock0"}
      BY <1>1, <1>5, GotFacts
    <3>. QED  BY <3>1 DEF BtCursor, FillingSound, Filling, Asking
  <2>. QED  BY <1>1, <2>2, <2>3, <2>4 DEF BtRanges
<1>6. CASE HeadSame /\ FillSame
  BY <1>1, <1>6 DEF HeadSame, FillSame, BtRanges
<1>. QED  BY <1>2, <1>3, <1>4, <1>5, <1>6, BtData
(*---------------------------- blocks of matches -----------------------------*)

(* The bt thread is done with a block of matches. *)
Done == pc["bt"] # "unlock" /\ pc'["bt"] = "unlock"

(* Only these four write a block. *)
LEMMA BtFrame ==
  ASSUME ProtocolInv, Next, ~BtFill, ~BtFull, ~BtGot, ~BtMatch
  PROVE  btBuf' = btBuf /\ ~Done
<1>1. /\ SyncTypes /\ ThreadsInv /\ pc["bt"] \in BtPlaces /\ pc["lz"] \in LzPlaces
      /\ pc["hash"] \in HashPlaces
  BY DEF ProtocolInv, ThreadsInv, SyncTypes
<1>2. CASE HashStep
  BY <1>1, <1>2, Places
     DEF HashStep, HashStart, HashEnter1, HashEnter2, HashMove, HashTake, HashFill, HashPost,
         HashStopped, Done
<1>3. CASE SyncStep("hash")
  BY <1>1, <1>3, CallFrame, ObjectFacts, Places DEF Calls, Done
<1>4. CASE SyncStep("bt")
  BY <1>1, <1>4, CallFrame, ObjectFacts, Places DEF Calls, Done
<1>5. ASSUME BtStep, ~SyncStep("hash") PROVE btBuf' = btBuf /\ ~Done
  BY <1>1, <1>5, Places
     DEF BtStep, BtStart, BtTake, BtNext, BtLoad, BtUnlock, BtPost, BtStopped, Done
<1>6. ASSUME NEW o \in Objects, MtSync_Create(o) \/ MtSync_Destruct(o) \/ Thread_Wait_Close(o)
      PROVE  btBuf' = btBuf /\ ~Done
  BY <1>1, <1>6, ObjectFacts
     DEF MtSync_Create, MtSync_Destruct, Thread_Wait_Close, Goto, Threads, SyncTypes, Done
<1>7. ASSUME MtSync_Init \/ LzNext \/ LzGot \/ LzConsume \/ LzEnd \/ LzAbort \/ LzStopped
      PROVE  btBuf' = btBuf /\ ~Done
  BY <1>1, <1>7, Places
     DEF MtSync_Init, LzNext, LzGot, LzConsume, LzEnd, LzAbort, LzStopped, Done
<1>. QED  BY <1>2, <1>3, <1>4, <1>5, <1>6, <1>7 DEF Next, BtStep, LzStep

(* What a block of matches says when it is done.  It begins where the last one *)
(* ended, and the next one begins where it ends. *)
BlockDone(b) ==
  /\ b \in [from : Nat, n : Int, avail : Int]
  /\ btBuf' = [btBuf EXCEPT ![B.bi % kMtBtNumBlocks] = b]
  /\ BtBlockSound(b)
  /\ b.n # none => Begin' = BtPos(b) + b.n /\ B'.failed = FALSE
  /\ BtPos(b) = Begin \/ B.failed = TRUE
(* The blocks of matches follow each other as the bt thread goes through the   *)
(* stream. *)
LEMMA BlocksDone ==
  ASSUME ProtocolInv, ProtocolInv', Next, ~MtSync_Init, CountsSound, HashChain, HashHeld,
         StartedSound, BtRanges, BtCursor, BtLive'
  PROVE  \/ ~Done /\ btBuf' = btBuf /\ Begin' = Begin /\ B'.failed = B.failed
         \/ Done /\ \E b : BlockDone(b)
<1>1. /\ SyncTypes /\ ThreadsInv /\ pc["bt"] \in BtPlaces /\ B \in BtRec
      /\ B.pos \in Nat /\ B.hpos \in Int /\ B.hlim \in Int /\ B.hnum \in Int
      /\ B.from \in Nat /\ B.used \in Int /\ B.done \in Nat /\ B.avail \in Int
      /\ B.failed \in BOOLEAN /\ HashNext \in Int /\ conf.len \in Nat /\ conf' = conf
      /\ BtLimit \in Int /\ BtLimit > 2 /\ none \in Int /\ none < 0
  <2>1. BtLimit \in Int /\ BtLimit > 2
    BY MtAssumption, Numbers DEF BtLimit
  <2>2. conf.len \in Nat
    BY ConfsAssumption DEF ProtocolInv, DataTypes
  <2>. QED  BY <2>1, <2>2, HashNextTyped, WindowFrame
            DEF ProtocolInv, ThreadsInv, SyncTypes, DataTypes, BtRec, none
<1>2. BtLive /\ CursorSound /\ (BtGot \/ HashNext' = HashNext)
  BY <1>1, LiveKept, HeadKept DEF BtCursor
<1>3. CASE BtFill
  <2>1. /\ HeadSame /\ B'.failed = B.failed /\ B'.from = B.pos
        /\ pc["bt"] = "fill" /\ pc'["bt"] = IF B.failed THEN "unlock" ELSE "get"
    BY <1>3, FillData
  <2>2. HashNext' = HashNext
    BY <1>1, <1>2, <2>1, GotFacts
  <2>3. CASE B.failed = TRUE
    <3>. DEFINE b == [from |-> B.pos, n |-> none, avail |-> B.hnum]
    <3>1. btBuf' = [btBuf EXCEPT ![B.bi % kMtBtNumBlocks] = b] /\ Done
      BY <1>3, <2>1, <2>3 DEF BtFill, Done
    <3>2. BtBlockSound(b)
      BY <1>1, <1>2 DEF BtBlockSound, BtPos, CursorSound
    <3>. QED  BY <1>1, <2>3, <3>1, <3>2 DEF BlockDone
  <2>4. CASE B.failed = FALSE
    <3>1. btBuf' = btBuf /\ ~Done
      BY <1>3, <2>1, <2>4 DEF BtFill, Done
    <3>2. Begin' = Begin
      BY <1>1, <2>1, <2>2, <2>4 DEF Begin, Filling, Asking
    <3>. QED  BY <2>1, <3>1, <3>2
  <2>. QED  BY <1>1, <2>3, <2>4
<1>4. CASE BtMatch
  <2>1. /\ pc["bt"] = "match" /\ B'.from = B.from
        /\ pc'["bt"] = "unlock" \/ (pc'["bt"] = "get" /\ B'.failed = B.failed)
    BY <1>4, MatchData
  <2>2. HashNext' = HashNext /\ FillingSound /\ Filling
    BY <1>1, <1>2, <2>1, GotFacts DEF BtCursor, Filling
  <2>3. HashNext # conf.len
    BY <1>2, <2>1 DEF CursorSound
  <2>4. CASE B.pos = conf.failAt
    <3>. DEFINE b == [from |-> B.from, n |-> none, avail |-> B.avail]
    <3>1. btBuf' = [btBuf EXCEPT ![B.bi % kMtBtNumBlocks] = b] /\ Done
      BY <1>1, <1>4, <2>1, <2>4, Places DEF BtMatch, BtBlock, Done
    <3>2. BtBlockSound(b) /\ BtPos(b) = Begin
      BY <1>1, <1>2, <2>2, <2>3, WindowAssumption
         DEF BtBlockSound, BtPos, CursorSound, FillingSound, Begin
    <3>. QED  BY <1>1, <3>1, <3>2 DEF BlockDone
  <2>5. CASE B.pos # conf.failAt
    <3>1. btBuf' = btBuf /\ ~Done /\ pc'["bt"] = "get"
      BY <1>1, <1>4, <2>1, <2>5, Places DEF BtMatch, Done
    <3>2. Begin' = Begin
      BY <1>1, <2>1, <2>2, <3>1 DEF Begin, Filling
    <3>. QED  BY <2>1, <3>1, <3>2
  <2>. QED  BY <2>4, <2>5
<1>5. CASE BtGot
  <2>1. PICK h : h = HashBlock(sync["hash"].num - 1)
    OBVIOUS
  <2>2. /\ B'.from = B.from /\ B'.failed = B.failed
        /\ h.avail >= NumHashBytes => pc'["bt"] = "get"
        /\ ~(h.avail >= NumHashBytes) => pc'["bt"] = "unlock"
    BY <1>5, <2>1, GotData
  <2>3. /\ pc["bt"] \in {"lock", "lock0"} /\ Running(sync["hash"])
    BY <1>1, <1>5, GotFacts
  <2>4. Filling /\ FillingSound /\ B.hpos = B.hlim
    BY <1>2, <2>3 DEF BtCursor, CursorSound, Filling, Asking
  <2>5. HashNext = h.from /\ HashNext' = h.from + Span(h.avail, h.n)
    BY <1>5, <2>1, HeadKept
  <2>6. /\ HeadsFor(h.from, h.avail, h.n) /\ h \in [from : Nat, n : Nat, avail : Nat]
        /\ BlockIndex("hash") = (sync["hash"].num - 1) % kMtHashNumBlocks
    <3>1. /\ Oldest("hash") <= Known("hash") /\ Known("hash") < HashMade
          /\ Known("hash") = sync["hash"].num - 1 /\ HashMade \in Nat /\ Oldest("hash") \in Int
          /\ Known("hash") \in Int
          /\ BlockIndex("hash") = (sync["hash"].num - 1) % kMtHashNumBlocks
      BY <2>3, HashRange DEF CountsSound
    <3>2. sync["hash"].num - 1 \in Oldest("hash") .. HashMade - 1
      BY <3>1
    <3>3. (sync["hash"].num - 1) % kMtHashNumBlocks \in HashSlots
      BY <3>1, Slots
    <3>. QED  BY <2>1, <2>3, <3>1, <3>2, <3>3 DEF HashChain, HashBlock, ProtocolInv, DataTypes
  <2>7. NumHashBytes \in Nat /\ NumHashBytes >= 2
    BY MtAssumption
  <2>8. CASE h.avail >= NumHashBytes
    <3>1. HashNext # conf.len /\ HashNext' # conf.len
      BY <1>1, <2>5, <2>6, <2>7, <2>8 DEF HeadsFor, Span
    <3>2. btBuf' = btBuf
      BY <1>5, <2>1, <2>6, <2>8 DEF BtGot, HashBlock
    <3>. QED  BY <1>1, <2>2, <2>4, <2>8, <3>1, <3>2 DEF Begin, Filling, Done
  <2>9. CASE ~(h.avail >= NumHashBytes)
    <3>. DEFINE b == [from |-> B.from, n |-> B.done + h.avail,
                          avail |-> AvailSum(B.done, h.avail)]
    <3>1. btBuf' = [btBuf EXCEPT ![B.bi % kMtBtNumBlocks] = b] /\ Done
      BY <1>5, <2>1, <2>2, <2>3, <2>6, <2>9 DEF BtGot, BtBlock, HashBlock, Done
    <3>2. HashNext' = conf.len /\ h.from + h.avail = conf.len
      BY <2>5, <2>6, <2>7, <2>9 DEF HeadsFor, Span
    <3>3. Begin' = conf.len
      BY <1>1, <3>2 DEF Begin
    <3>6. AvailSum(B.done, h.avail) = B.done + h.avail
      <4>1. /\ B.done + 2 <= B.used /\ B.used < BtLimit /\ h.avail < NumHashBytes
            /\ B.done \in Nat /\ h.avail \in Nat
        BY <1>1, <2>3, <2>4, <2>6, <2>7, <2>9 DEF FillingSound
      <4>2. /\ BtLimit = kMtBtBlockSize - 2 * MatchMaxLen /\ MatchMaxLen >= NumHashBytes
            /\ {kMtBtBlockSize, MatchMaxLen, NumHashBytes} \subseteq Nat
            /\ MaxAvail >= kMtBtBlockSize /\ MaxAvail \in Nat
        BY MtAssumption, WindowAssumption DEF BtLimit
      <4>3. B.done + h.avail <= MaxAvail
        BY <1>1, <4>1, <4>2
      <4>. QED  BY <4>1, <4>3, AvailSumIs
    <3>4. CASE HashNext = conf.len
      <4>1. h.avail = 0 /\ B.done = 0
        BY <1>1, <2>4, <2>5, <2>6, <3>2, <3>4 DEF FillingSound
      <4>2. b.n = 0 /\ b.avail = 0 /\ BtPos(b) = conf.len /\ Begin = conf.len
        BY <3>4, <3>6, <4>1 DEF BtPos, Begin
      <4>3. BtBlockSound(b)
        BY <1>1, <4>2 DEF BtBlockSound
      <4>4. b \in [from : Nat, n : Int, avail : Int]
        BY <1>1, <2>6, <3>6
      <4>5. B'.failed = FALSE /\ Begin' = BtPos(b) + b.n /\ BtPos(b) = Begin
        BY <1>1, <2>2, <2>4, <3>3, <4>2 DEF FillingSound
      <4>. HIDE DEF b
      <4>. QED  BY <3>1, <4>3, <4>4, <4>5 DEF BlockDone
    <3>5. CASE HashNext # conf.len
      <4>1. h.avail > 0 /\ B.pos = h.from /\ B.from + B.done = B.pos
        BY <1>1, <1>2, <2>4, <2>5, <2>6, <3>2, <3>5 DEF FillingSound, CursorSound
      <4>2. b.n > 0 /\ BtPos(b) = B.from /\ Begin = B.from /\ b.avail = b.n
            /\ BtPos(b) + b.n = conf.len /\ b.n \in Nat
        BY <1>1, <2>4, <2>6, <3>2, <3>5, <3>6, <4>1 DEF BtPos, Begin
      <4>3. BtBlockSound(b)
        BY <1>1, <4>2 DEF BtBlockSound
      <4>4. b \in [from : Nat, n : Int, avail : Int]
        BY <1>1, <2>6, <3>6
      <4>5. B'.failed = FALSE /\ Begin' = BtPos(b) + b.n /\ BtPos(b) = Begin
        BY <1>1, <2>2, <2>4, <3>3, <4>2 DEF FillingSound
      <4>. HIDE DEF b
      <4>. QED  BY <3>1, <4>3, <4>4, <4>5 DEF BlockDone
    <3>. QED  BY <3>4, <3>5
  <2>. QED  BY <2>8, <2>9
<1>6. CASE HeadSame /\ FillSame /\ BtMoves /\ ~BtFill /\ ~BtGot /\ ~BtMatch /\ ~BtFull
  <2>1. btBuf' = btBuf /\ ~Done
    BY <1>6, BtFrame
  <2>2. Filling' <=> Filling
    BY <1>6 DEF Filling, BtMoves, Asking
  <2>. QED  BY <1>1, <1>2, <1>6, <2>1, <2>2 DEF HeadSame, FillSame, Begin
<1>7. CASE BtFull /\ HeadSame /\ FillSame
  <2>. DEFINE b == [from |-> B.from, n |-> B.done, avail |-> B.avail]
  <2>1. /\ btBuf' = [btBuf EXCEPT ![B.bi % kMtBtNumBlocks] = b]
        /\ Done /\ B.used >= BtLimit /\ pc["bt"] = "get" /\ pc'["bt"] = "unlock"
    BY <1>1, <1>7, Places DEF BtFull, BtBlock, Done
  <2>2. FillingSound /\ Filling /\ HashNext' = HashNext /\ ~Filling'
    BY <1>1, <1>2, <2>1, GotFacts DEF BtCursor, Filling, Asking
  <2>3. B.done > 0 /\ HashNext # conf.len /\ Running(sync["hash"])
    BY <1>1, <2>1, <2>2 DEF FillingSound
  <2>4. B.hnum >= 1
    BY <2>1, <2>3, HeldFacts DEF Working, Asking
  <2>9. B.avail <= B.done + B.hnum /\ B.done < B.avail
    <3>1. B.done + 2 <= B.used /\ B.used <= kMtBtBlockSize
      BY <2>2 DEF FillingSound, BtRanges
    <3>2. kMtBtBlockSize \in Nat /\ MaxAvail >= kMtBtBlockSize /\ MaxAvail \in Nat
      BY MtAssumption, WindowAssumption
    <3>. QED  BY <1>1, <2>2, <2>4, <3>1, <3>2 DEF FillingSound
  <2>5. /\ b.n = B.done /\ b.avail = B.avail /\ BtPos(b) = B.from /\ Begin = B.from
        /\ Begin' = B.pos
    BY <1>1, <1>7, <2>2, <2>3 DEF BtPos, Begin, FillingSound, HeadSame
  <2>6. BtBlockSound(b)
    BY <1>1, <1>2, <2>2, <2>3, <2>4, <2>5, <2>9 DEF BtBlockSound, CursorSound, FillingSound
  <2>7. b \in [from : Nat, n : Int, avail : Int]
    BY <1>1
  <2>8. B'.failed = FALSE /\ Begin' = BtPos(b) + b.n /\ BtPos(b) = Begin
    BY <1>1, <1>7, <2>2, <2>5 DEF FillingSound, FillSame
  <2>. HIDE DEF b
  <2>. QED  BY <2>1, <2>6, <2>7, <2>8 DEF BlockDone
<1>. QED  BY <1>3, <1>4, <1>5, <1>6, <1>7, BtData
(* What becomes of the blocks of matches in a step: the bt thread is done with *)
(* one, one is taken up by the encoder, or they stay as they are and perhaps   *)
(* the oldest one is given back. *)
BtStays ==
  /\ ~Done /\ ~LzGot
  /\ BtMade' = BtMade /\ Known("bt")' = Known("bt")
  /\ Oldest("bt")' = Oldest("bt") \/ Oldest("bt")' = Oldest("bt") + 1

BtGrows ==
  /\ Done /\ ~LzGot
  /\ BtMade' = BtMade + 1 /\ Known("bt")' = Known("bt")
  /\ Oldest("bt")' = Oldest("bt")

BtTaken ==
  /\ ~Done /\ LzGot
  /\ BtMade' = BtMade /\ Known("bt")' = Known("bt") + 1
  /\ Oldest("bt")' = Oldest("bt")

(* The bt thread counts its blocks as the encoder does. *)
LEMMA BtCounts ==
  ASSUME ProtocolInv, Next, Running(sync["bt"]), Running(sync'["bt"]), BtCounted
  PROVE  /\ BtCounted'
         /\ BtStays \/ BtGrows \/ BtTaken
<1>1. /\ SyncTypes /\ pc["lz"] \in LzPlaces /\ pc["bt"] \in BtPlaces
      /\ pc["hash"] \in HashPlaces /\ ThreadsInv
      /\ sync["bt"] \in SyncRec /\ sync["bt"].num \in Nat /\ sync["bt"].filled \in Nat
      /\ sync \in [Objects -> SyncRec] /\ B \in BtRec /\ B.bi \in Nat
      /\ pc \in [Threads -> LzPlaces \cup BtPlaces \cup HashPlaces]
  BY ObjectFacts DEF ProtocolInv, ThreadsInv, SyncTypes, SyncRec, DataTypes, BtRec
<1>2. /\ RunSound(sync["bt"], NumBlocks("bt"), pc["bt"], pc["lz"])
      /\ kMtBtNumBlocks \in Nat /\ kMtBtNumBlocks > 0
  BY <1>1, ObjectFacts, Numbers DEF ThreadsInv, ObjectSound
<1>. DEFINE s == sync["bt"]
            t == sync'["bt"]
            Out == {"unlock", "post"}
<1>3. ASSUME t.num = s.num, t.filled = s.filled, t.canStart = s.canStart, B'.bi = B.bi,
             pc'["bt"] \in Out <=> pc["bt"] \in Out, pc'["lz"] = pc["lz"],
             ~Done, ~LzGot
      PROVE  BtCounted' /\ BtStays
  BY <1>3, ObjectFacts DEF BtCounted, BtStays, CountSound, BtMade, Known, Oldest, Got
<1>4. CASE HashStep
  <2>1. /\ pc'["lz"] = pc["lz"] /\ pc'["bt"] = pc["bt"] /\ ~Done
    BY <1>1, <1>4, Places
       DEF HashStep, HashStart, HashEnter1, HashEnter2, HashMove, HashTake, HashFill, HashPost,
           HashStopped, Done
  <2>2. ~LzGot
    BY <1>1, <2>1, Places, ObjectFacts DEF LzGot, Locked
  <2>3. B'.bi = B.bi
    <3>1. CASE HashMove
      <4>1. PICK d : B' = [B EXCEPT !.ptr = B.ptr - d]
        BY <3>1 DEF HashMove
      <4>. QED  BY <1>1, <4>1 DEF BtRec
    <3>. QED  BY <1>4, <3>1
              DEF HashStep, HashStart, HashEnter1, HashEnter2, HashTake, HashFill, HashPost,
                  HashStopped
  <2>4. t.num = s.num /\ t.filled = s.filled /\ t.canStart = s.canStart
    <3>1. CASE HashEnter1 \/ HashMove
      BY <1>1, <3>1, ObjectFacts DEF HashEnter1, HashMove, SyncRec
    <3>2. ASSUME ~HashEnter1, ~HashMove PROVE t = s
      BY <1>1, <1>4, <3>2, ObjectFacts
         DEF HashStep, HashStart, HashEnter2, HashTake, HashFill, HashPost, HashStopped
    <3>. QED  BY <3>1, <3>2
  <2>. QED  BY <1>3, <2>1, <2>2, <2>3, <2>4
<1>5. CASE SyncStep("hash")
  <2>1. /\ t = s /\ B' = B /\ pc'["lz"] = pc["lz"] /\ pc'["bt"] \notin Out /\ pc["bt"] \notin Out
        /\ L' = L
    BY <1>1, <1>5, CallFrame, Places, ObjectFacts DEF Calls
  <2>2. ~Done /\ ~LzGot
    BY <1>1, <2>1, Places, ObjectFacts DEF Done, LzGot, Locked
  <2>. QED  BY <1>3, <2>1, <2>2
<1>6. CASE SyncStep("bt")
  <2>1. /\ CountSound(t, pc'["lz"]) /\ Posted("bt")' = Posted("bt")
        /\ Known("bt")' = Known("bt")
        /\ Oldest("bt")' = Oldest("bt") \/ Oldest("bt")' = Oldest("bt") + 1
        /\ t.canStart = s.canStart
    BY <1>1, <1>6, CallCounts, ObjectFacts DEF BtCounted
  <2>2. /\ pc'["bt"] = pc["bt"] /\ B' = B /\ pc'["lz"] \in Calls
    BY <1>1, <1>6, CallFrame, Places, ObjectFacts
  <2>3. BtMade' = BtMade
    BY <2>1, <2>2 DEF BtMade, Posted
  <2>4. ~Done /\ ~LzGot
    BY <1>1, <2>2, Places, ObjectFacts DEF Done, LzGot, Locked, Calls
  <2>. QED  BY <2>1, <2>2, <2>3, <2>4 DEF BtCounted, BtStays, Posted
<1>7. ASSUME BtStep, ~SyncStep("hash") PROVE BtCounted' /\ (BtStays \/ BtGrows)
  <2>1. pc'["lz"] = pc["lz"] /\ pc'["hash"] = pc["hash"]
    BY <1>1, <1>7, Places
       DEF BtStep, BtStart, BtTake, BtFill, BtFull, BtNext, BtGot, BtLoad, BtMatch, BtUnlock,
           BtPost, BtStopped, Locked, Client
  <2>2. ~LzGot
    BY <1>1, <2>1, Places, ObjectFacts DEF LzGot, Locked
  <2>3. CASE BtStart
    <3>1. /\ t.num = s.num /\ t.filled = s.filled /\ s.canStart = TRUE /\ B'.bi = 0
          /\ pc["bt"] = "start" /\ pc'["bt"] \notin Out
      BY <1>1, <2>3, Places, ObjectFacts DEF BtStart, SyncRec, BtRec
    <3>2. pc["lz"] = "wait0" /\ s.filled = 0
      BY <1>2, <3>1 DEF RunSound
    <3>. QED  BY <1>1, <2>1, <2>2, <3>1, <3>2, ObjectFacts
              DEF BtCounted, BtStays, CountSound, BtMade, Known, Oldest, Got, Done
  <2>4. CASE BtPost
    <3>1. /\ pc["bt"] = "post" /\ pc'["bt"] = "loop" /\ B'.bi = B.bi + 1
          /\ t = Release1(s, "filled", kMtBtNumBlocks)
      BY <1>1, <2>4, Places, ObjectFacts DEF BtPost, BtRec
    <3>2. s.filled + 1 <= kMtBtNumBlocks /\ s.canStart = FALSE
      <4>1. s.canStart = FALSE /\ s.free \in Nat
        BY <1>2, <1>1, <3>1 DEF RunSound, SyncRec
      <4>2. s.free + s.filled + 1 <= kMtBtNumBlocks
        BY <1>1, <1>2, <3>1, <4>1, ObjectFacts DEF RunSound, Taken, Given
      <4>. QED  BY <1>1, <1>2, <4>1, <4>2
    <3>3. t.num = s.num /\ t.filled = s.filled + 1 /\ t.canStart = s.canStart
      BY <1>1, <1>2, <3>1, <3>2, CountUpdates
    <3>. QED  BY <1>1, <2>1, <2>2, <3>1, <3>2, <3>3, ObjectFacts
              DEF BtCounted, BtStays, CountSound, BtMade, Known, Oldest, Got, Done
  <2>5. ASSUME ~BtStart, ~BtPost
        PROVE  /\ t.num = s.num /\ t.filled = s.filled /\ t.canStart = s.canStart
               /\ B'.bi = B.bi
    <3>1. CASE BtTake \/ BtStopped
      BY <1>1, <3>1, ObjectFacts DEF BtTake, BtStopped, SyncRec
    <3>2. ASSUME ~BtTake, ~BtStopped PROVE t = s
      BY <1>1, <1>7, <2>5, <3>2, ObjectFacts
         DEF BtStep, BtFill, BtFull, BtNext, BtGot, BtLoad, BtMatch, BtUnlock, Locked
    <3>3. B'.bi = B.bi
      <4>1. CASE BtFill
        BY <1>1, <4>1 DEF BtFill, BtRec
      <4>2. CASE BtGot
        BY <1>1, <4>2 DEF BtGot, BtRec
      <4>3. CASE BtMatch
        BY <1>1, <4>3 DEF BtMatch, BtRec
      <4>4. CASE BtLoad
        BY <1>1, <4>4 DEF BtLoad, BtRec
      <4>. QED  BY <1>7, <2>5, <4>1, <4>2, <4>3, <4>4
                DEF BtStep, BtTake, BtFull, BtNext, BtUnlock, BtStopped
    <3>. QED  BY <3>1, <3>2, <3>3
  <2>6. CASE Done
    <3>1. ~BtStart /\ ~BtPost /\ pc["bt"] \notin Out
      <4>1. ~BtStart /\ ~BtPost
        BY <1>1, <2>6, Places DEF BtStart, BtPost, Done
      <4>2. pc["bt"] = "post" => BtPost
        BY <1>7, ObjectFacts
           DEF BtStep, BtStart, BtTake, BtFill, BtFull, BtNext, BtGot, BtLoad, BtMatch,
               BtUnlock, BtStopped, Locked
      <4>. QED  BY <2>6, <4>1, <4>2 DEF Done
    <3>2. /\ BtMade' = BtMade + 1 /\ Known("bt")' = Known("bt") /\ Oldest("bt")' = Oldest("bt")
      BY <1>1, <2>1, <2>5, <2>6, <3>1, ObjectFacts DEF BtMade, Known, Oldest, Got, Done
    <3>3. BtCounted'
      BY <2>1, <2>5, <3>1, ObjectFacts DEF BtCounted, CountSound, Got
    <3>. QED  BY <2>2, <2>6, <3>2, <3>3 DEF BtGrows
  <2>7. ASSUME ~Done, ~BtStart, ~BtPost PROVE BtCounted' /\ BtStays
    <3>1. pc'["bt"] \in Out <=> pc["bt"] \in Out
      BY <1>1, <1>7, <2>7, Places, ObjectFacts
         DEF BtStep, BtTake, BtFill, BtFull, BtNext, BtGot, BtLoad, BtMatch, BtUnlock,
             BtStopped, Locked, Done
    <3>. QED  BY <1>3, <2>1, <2>2, <2>5, <2>7, <3>1
  <2>. QED  BY <2>3, <2>4, <2>6, <2>7
<1>8. ASSUME LzStep, ~SyncStep("bt") PROVE BtCounted' /\ (BtStays \/ BtTaken)
  <2>1. pc["lz"] \notin {"create", "create2", "init", "stopped", "destruct", "join",
                         "destruct2", "join2", "done"}
    BY <1>1 DEF ThreadsInv, LivesSound
  <2>2. LzNext \/ LzGot \/ LzConsume \/ LzEnd \/ LzAbort
    BY <1>8, <2>1, ObjectFacts
       DEF LzStep, MtSync_Create, MtSync_Destruct, Thread_Wait_Close, MtSync_Init, LzStopped
  <2>3. B' = B /\ pc'["bt"] = pc["bt"] /\ ~Done
    BY <1>1, <2>2, Places DEF LzNext, LzGot, LzConsume, LzEnd, LzAbort, Done
  <2>4. t.num = s.num /\ t.filled = s.filled /\ t.canStart = s.canStart
    <3>1. t = s \/ t = LOCK_BUFFER(s, "lz")
      BY <1>1, <2>2, ObjectFacts DEF LzNext, LzGot, Locked, LzConsume, LzEnd, LzAbort
    <3>. QED  BY <1>1, <3>1, CountUpdates, Numbers
  <2>5. CASE LzGot
    <3>1. pc["lz"] \in {"lock", "lock0"} /\ pc'["lz"] = "have"
      BY <1>1, <2>5, Places, ObjectFacts DEF LzGot, Locked
    <3>2. BtCounted'
      BY <1>1, <2>3, <2>4, <3>1, ObjectFacts DEF BtCounted, CountSound, Got
    <3>3. BtMade' = BtMade
      BY <1>1, <2>3, <2>4, <3>1, ObjectFacts DEF BtMade, Got
    <3>4. Known("bt")' = Known("bt") + 1
      BY <1>1, <2>4, <3>1, ObjectFacts DEF Known, Asking
    <3>5. Oldest("bt")' = Oldest("bt")
      BY <1>1, <2>4, <3>1, ObjectFacts DEF Oldest, Got, Given
    <3>. QED  BY <2>3, <2>5, <3>2, <3>3, <3>4, <3>5 DEF BtTaken
  <2>6. ASSUME ~LzGot PROVE BtCounted' /\ BtStays
    <3>1. /\ pc["lz"] \in {"run", "have"} /\ pc'["lz"] \in {"run", "have", "next", "stop"}
      BY <1>1, <2>2, <2>6, Places DEF LzNext, LzConsume, LzEnd, LzAbort
    <3>2. /\ BtMade' = BtMade /\ Known("bt")' = Known("bt") /\ Oldest("bt")' = Oldest("bt")
      BY <2>3, <2>4, <3>1, ObjectFacts DEF BtMade, Known, Oldest, Got, Given, Asking
    <3>3. BtCounted'
      BY <2>3, <2>4, <3>1, ObjectFacts DEF BtCounted, CountSound, Got
    <3>. QED  BY <2>3, <2>6, <3>2, <3>3 DEF BtStays
  <2>. QED  BY <2>5, <2>6
<1>. QED  BY <1>4, <1>5, <1>6, <1>7, <1>8 DEF Next, BtStep, LzStep
(* The bt thread, too, begins with its first block, and with all of them free. *)
LEMMA BtBegins ==
  ASSUME ProtocolInv, ProtocolInv', Next, ~Running(sync["bt"]), Running(sync'["bt"])
  PROVE  /\ BtCounted' /\ BtMade' = 0 /\ Known("bt")' = 0 /\ Oldest("bt")' = 0
         /\ pc["lz"] = "next" /\ pc'["lz"] = "wait0" /\ pc'["bt"] = pc["bt"]
         /\ UNCHANGED <<conf, mf, B, L, btBuf>>
<1>1. /\ SyncTypes /\ ThreadsInv /\ ThreadsInv' /\ sync["bt"] \in SyncRec
      /\ sync \in [Objects -> SyncRec]
  BY ObjectFacts DEF ProtocolInv, ThreadsInv, SyncTypes, DataTypes
<1>2. RunSound(sync["bt"], NumBlocks("bt"), pc["bt"], pc["lz"])'
  BY <1>1, ObjectFacts DEF ThreadsInv, ObjectSound
<1>3. NextStart("bt")
  <2>1. NextStart("bt") \/ StopWait("bt")
    BY <1>1, RunningKept, ObjectFacts
  <2>2. StopWait("bt") => sync'["bt"].needStart = TRUE
    BY <1>1, ObjectFacts DEF StopWait, SyncRec
  <2>. QED  BY <2>1, <2>2 DEF Running
<1>4. /\ sync'["bt"].num = 1 /\ sync'["bt"].canStart = TRUE
      /\ pc["lz"] = "next" /\ pc'["lz"] = "wait0" /\ pc'["bt"] = pc["bt"]
      /\ UNCHANGED <<conf, mf, B, L, btBuf>>
  BY <1>1, <1>3, Places, ObjectFacts DEF NextStart, SyncRec
<1>5. sync'["bt"].filled = 0 /\ pc'["bt"] = "start"
  BY <1>2, <1>4 DEF RunSound
<1>. QED  BY <1>4, <1>5, ObjectFacts
          DEF BtCounted, CountSound, BtMade, Known, Oldest, Got, Given, Asking

(* Of the blocks of matches, too, there are never more than there is room for. *)
LEMMA BtRange ==
  ASSUME ProtocolInv, Running(sync["bt"]), BtCounted
  PROVE  /\ BtMade \in Nat /\ Known("bt") \in Nat /\ Oldest("bt") \in Int
         /\ Oldest("bt") <= Known("bt") /\ Known("bt") <= BtMade
         /\ BtMade - Oldest("bt") <= kMtBtNumBlocks
         /\ pc["bt"] \notin {"start", "loop", "unlock", "post"} =>
              BtMade - Oldest("bt") < kMtBtNumBlocks /\ B.bi = BtMade
         /\ pc["lz"] \in {"lock", "lock0"} =>
              /\ Known("bt") = sync["bt"].num - 1 /\ Known("bt") < BtMade
              /\ BlockIndex("bt") = (sync["bt"].num - 1) % kMtBtNumBlocks
         /\ pc["lz"] \in {"run", "have", "next"} =>
              /\ Oldest("bt") = sync["bt"].num - 1 /\ Oldest("bt") < BtMade
              /\ Known("bt") = sync["bt"].num
<1>1. /\ SyncTypes /\ ThreadsInv /\ sync["bt"].num \in Nat /\ sync["bt"].filled \in Nat
      /\ sync["bt"].free \in Nat /\ sync["bt"].canStart \in BOOLEAN
      /\ pc["bt"] \in BtPlaces
  BY ObjectFacts DEF ProtocolInv, ThreadsInv, SyncTypes, DataTypes, SyncRec
<1>2. RunSound(sync["bt"], kMtBtNumBlocks, pc["bt"], pc["lz"]) /\ kMtBtNumBlocks \in Nat
  BY <1>1, ObjectFacts, Numbers DEF ThreadsInv, ObjectSound
<1>3. CountSound(sync["bt"], pc["lz"])
  BY DEF BtCounted
<1>4. /\ BtMade \in Nat /\ Known("bt") \in Nat /\ Oldest("bt") \in Int
      /\ Oldest("bt") <= Known("bt") /\ Known("bt") <= BtMade
  <2>1. PICK n \in Nat, f \in Nat :
          n = sync["bt"].num /\ f = sync["bt"].filled /\ n >= 1
    BY <1>1, <1>3 DEF CountSound
  <2>2. BtMade \in Nat /\ BtMade >= Got("bt")
    BY <2>1, ObjectFacts DEF BtMade, Got
  <2>3. Known("bt") \in Nat /\ Oldest("bt") \in Int
    BY <2>1, ObjectFacts DEF Known, Oldest, Got, Given
  <2>4. Oldest("bt") <= Known("bt") /\ Known("bt") <= Got("bt")
    BY <2>1, ObjectFacts DEF Known, Oldest, Got, Given, Asking
  <2>5. Got("bt") \in Int
    BY <2>1 DEF Got
  <2>. QED  BY <2>2, <2>3, <2>4, <2>5
<1>5. BtMade - Oldest("bt") <= kMtBtNumBlocks
  <2>1. pc["bt"] \in {"unlock", "post"} => sync["bt"].canStart = FALSE
    BY <1>1, <1>2 DEF RunSound
  <2>. QED  BY <1>1, <1>2, <2>1, ObjectFacts DEF RunSound, BtMade, Oldest, Got, Taken, Given
<1>6. pc["bt"] \notin {"start", "loop", "unlock", "post"} =>
         BtMade - Oldest("bt") < kMtBtNumBlocks /\ B.bi = BtMade
  <2>. SUFFICES ASSUME pc["bt"] \notin {"start", "loop", "unlock", "post"}
                PROVE  BtMade - Oldest("bt") < kMtBtNumBlocks /\ B.bi = BtMade
    OBVIOUS
  <2>1. sync["bt"].canStart = FALSE
    BY <1>1, <1>2 DEF RunSound
  <2>2. B.bi = BtMade
    BY <1>1, <2>1, ObjectFacts DEF BtCounted, BtMade, Got
  <2>3. pc["bt"] \notin {"loop", "cs", "move"}
    BY <1>1 DEF BtPlaces, Calls
  <2>4. Taken(sync["bt"], pc["bt"]) = 1
    BY <2>1, <2>3 DEF Taken
  <2>. QED  BY <1>1, <1>2, <2>2, <2>4, ObjectFacts DEF RunSound, BtMade, Oldest, Got, Given
<1>7. pc["lz"] \in {"lock", "lock0"} =>
         /\ Known("bt") = sync["bt"].num - 1 /\ Known("bt") < BtMade
         /\ BlockIndex("bt") = (sync["bt"].num - 1) % kMtBtNumBlocks
  BY <1>1, <1>3, ObjectFacts DEF BtMade, Known, Got, Asking, CountSound, BlockIndex
<1>8. pc["lz"] \in {"run", "have", "next"} =>
        /\ Oldest("bt") = sync["bt"].num - 1 /\ Oldest("bt") < BtMade
        /\ Known("bt") = sync["bt"].num
  BY <1>1, ObjectFacts DEF BtMade, Oldest, Known, Got, Given, Asking
<1>. QED  BY <1>4, <1>5, <1>6, <1>7, <1>8

(* Each of the two counts is kept, or begins. *)
LEMMA CountsKept ==
  ASSUME ProtocolInv, ProtocolInv', Next, CountsSound
  PROVE  CountsSound'
<1>1. Running(sync'["hash"]) => HashCounted'
  BY HashBegins, HashCounts DEF CountsSound
<1>2. Running(sync'["bt"]) => BtCounted'
  BY BtBegins, BtCounts DEF CountsSound
<1>. QED  BY <1>1, <1>2 DEF CountsSound

(* A block of matches is done in the slot after the last one, which nobody has *)
(* use for. *)
LEMMA BtBlockKept ==
  ASSUME ProtocolInv, Next, Running(sync["bt"]), BtCounted, Done, NEW b, BlockDone(b)
  PROVE  /\ \A j \in Int : j = BtMade => BtBlockAt(j)' = b
         /\ \A j \in Int : Oldest("bt") <= j /\ j < BtMade => BtBlockAt(j)' = BtBlockAt(j)
<1>1. btBuf \in [BtSlots -> [from : Nat, n : Int, avail : Int]] /\ ThreadsInv
  BY DEF ProtocolInv, DataTypes
<1>2. pc["bt"] \notin {"start", "loop", "unlock", "post"}
  <2>1. BtFill \/ BtFull \/ BtGot \/ BtMatch
    BY BtFrame
  <2>. QED  BY <1>1, <2>1, GotFacts DEF BtFill, BtFull, BtMatch
<1>3. /\ BtMade \in Nat /\ Oldest("bt") \in Int /\ B.bi = BtMade
      /\ BtMade - Oldest("bt") < kMtBtNumBlocks
  BY <1>2, BtRange
<1>4. btBuf' = [btBuf EXCEPT ![BtMade % kMtBtNumBlocks] = b]
  BY <1>3 DEF BlockDone
<1>5. BtMade % kMtBtNumBlocks \in BtSlots
  BY <1>3, Slots
<1>6. ASSUME NEW j, j = BtMade PROVE BtBlockAt(j)' = b
  BY <1>1, <1>4, <1>5, <1>6 DEF BtBlockAt
<1>7. ASSUME NEW j \in Int, Oldest("bt") <= j, j < BtMade
      PROVE  BtBlockAt(j)' = BtBlockAt(j)
  <2>1. BtMade % kMtBtNumBlocks # j % kMtBtNumBlocks
    <3>1. kMtBtNumBlocks \in Nat \ {0} /\ BtMade \in Int /\ BtMade - j < kMtBtNumBlocks
      BY <1>3, <1>7, Numbers
    <3>. QED  BY <1>7, <3>1, SlotsDiffer
  <2>2. j % kMtBtNumBlocks \in BtSlots
    BY <1>7, Slots
  <2>3. PICK m, q \in BtSlots :
          m = BtMade % kMtBtNumBlocks /\ q = j % kMtBtNumBlocks /\ m # q
    BY <1>5, <2>1, <2>2
  <2>4. btBuf'[q] = btBuf[q]
    BY <1>1, <1>4, <2>3
  <2>. QED  BY <2>3, <2>4 DEF BtBlockAt
<1>. QED  BY <1>6, <1>7
(* A stream is encoded from the start of the worker on: MtSync_Init comes      *)
(* before, and every other step finds the bt thread where it was.              *)
LEMMA StreamSteps ==
  ASSUME ProtocolInv, Next, Streaming', Running(sync'["bt"]) \/ ~MtSync_Init
  PROVE  ~MtSync_Init /\ Streaming /\ BtLive' /\ BtLive /\ conf' = conf
<1>1. ~MtSync_Init
  <2>. SUFFICES ASSUME MtSync_Init PROVE ~Running(sync'["bt"])
    OBVIOUS
  <2>1. pc["lz"] = "init" /\ ThreadsInv
    BY DEF MtSync_Init, ProtocolInv
  <2>2. ~Running(sync["bt"])
    BY <2>1 DEF ThreadsInv, LivesSound
  <2>3. ~SyncStep("bt")
    BY <2>1, CallFrame, ObjectFacts DEF Calls
  <2>. QED  BY <2>1, <2>2, <2>3, RunningKept, ObjectFacts DEF LzStep
<1>. QED  BY <1>1, LiveKept, WindowFrame DEF ProtocolInv, BtLive

(* Blocks of matches that are already there, and how the chain goes on from    *)
(* the new one. *)
LEMMA BtChainKept ==
  ASSUME ProtocolInv, ProtocolInv', Next, CountsSound, CountsSound', HashChain, HashHeld,
         StartedSound, BtRanges, BtCursor, BtChain, FailSound
  PROVE  BtChain'
<1>. SUFFICES ASSUME Streaming', Running(sync'["bt"]),
                     NEW k \in (Oldest("bt") .. BtMade - 1)'
              PROVE  /\ BtBlockSound(BtBlockAt(k))'
                     /\ BtBlockAt(k)'.n # none =>
                          BtAt(k + 1)' = BtPos(BtBlockAt(k))' + BtBlockAt(k)'.n
  BY DEF BtChain
<1>1. ~MtSync_Init /\ Streaming /\ BtLive' /\ conf' = conf
  BY StreamSteps
<1>2. Running(sync["bt"])
  <2>. SUFFICES ASSUME ~Running(sync["bt"]) PROVE FALSE
    OBVIOUS
  <2>1. BtMade' = 0 /\ Oldest("bt")' = 0
    BY BtBegins
  <2>. QED  BY <2>1
<1>3. /\ BtCounted /\ BtMade \in Nat /\ Oldest("bt") \in Int
      /\ BtStays \/ BtGrows \/ BtTaken
  BY <1>2, BtCounts, BtRange DEF CountsSound
<1>4. ASSUME NEW c PROVE BtPos(c)' = BtPos(c) /\ (BtBlockSound(c)' <=> BtBlockSound(c))
  BY <1>1 DEF BtPos, BtBlockSound
<1>5. ASSUME NEW j \in Oldest("bt") .. BtMade - 1
      PROVE  /\ BtBlockSound(BtBlockAt(j))
             /\ BtBlockAt(j).n # none => BtAt(j + 1) = BtPos(BtBlockAt(j)) + BtBlockAt(j).n
  BY <1>1, <1>2 DEF BtChain
<1>6. CASE ~Done
  <2>1. btBuf' = btBuf /\ Begin' = Begin
    BY <1>1, <1>6, BlocksDone
  <2>2. /\ BtMade' = BtMade
        /\ Oldest("bt")' = Oldest("bt") \/ Oldest("bt")' = Oldest("bt") + 1
    BY <1>3, <1>6 DEF BtStays, BtGrows, BtTaken
  <2>3. k \in Oldest("bt") .. BtMade - 1
    BY <1>3, <2>2
  <2>4. \A j : BtBlockAt(j)' = BtBlockAt(j)
    BY <2>1 DEF BtBlockAt
  <2>5. BtPos(BtBlockAt(k))' = BtPos(BtBlockAt(k)) /\
        BtPos(BtBlockAt(k + 1))' = BtPos(BtBlockAt(k + 1))
    BY <1>1, <2>4 DEF BtPos
  <2>6. BtBlockSound(BtBlockAt(k))' <=> BtBlockSound(BtBlockAt(k))
    BY <1>1, <2>4, <2>5 DEF BtBlockSound
  <2>7. BtAt(k + 1)' = BtAt(k + 1)
    BY <2>1, <2>2, <2>5 DEF BtAt
  <2>. QED  BY <1>5, <2>3, <2>4, <2>5, <2>6, <2>7
<1>7. CASE Done
  <2>1. PICK b : BlockDone(b)
    BY <1>1, <1>7, BlocksDone
  <2>2. BtMade' = BtMade + 1 /\ Oldest("bt")' = Oldest("bt")
    BY <1>3, <1>7 DEF BtStays, BtGrows, BtTaken
  <2>3. /\ \A j \in Int : j = BtMade => BtBlockAt(j)' = b
        /\ \A j \in Int : Oldest("bt") <= j /\ j < BtMade => BtBlockAt(j)' = BtBlockAt(j)
    BY <1>2, <1>3, <1>7, <2>1, BtBlockKept
  <2>4. k \in Int /\ Oldest("bt") <= k /\ k <= BtMade
    BY <1>3, <2>2
  <2>5. CASE k = BtMade
    <3>1. BtBlockAt(k)' = b
      BY <2>3, <2>4, <2>5
    <3>2. BtAt(k + 1)' = Begin'
      BY <1>3, <2>2, <2>5 DEF BtAt
    <3>3. BtBlockSound(BtBlockAt(k))' /\ BtPos(BtBlockAt(k))' = BtPos(b)
      BY <1>1, <2>1, <3>1 DEF BlockDone, BtBlockSound, BtPos
    <3>. QED  BY <2>1, <3>1, <3>2, <3>3 DEF BlockDone
  <2>6. CASE k # BtMade
    <3>1. k < BtMade /\ BtBlockAt(k)' = BtBlockAt(k) /\ k \in Oldest("bt") .. BtMade - 1
      BY <1>3, <2>3, <2>4, <2>6
    <3>2. BtPos(BtBlockAt(k))' = BtPos(BtBlockAt(k))
      BY <1>1, <3>1 DEF BtPos
    <3>3. BtBlockSound(BtBlockAt(k))'
      BY <1>1, <1>5, <3>1, <3>2 DEF BtBlockSound
    <3>4. CASE k + 1 < BtMade
      <4>1. k + 1 \in Int /\ Oldest("bt") <= k + 1
        BY <1>3, <2>4
      <4>2. BtBlockAt(k + 1)' = BtBlockAt(k + 1)
        BY <2>3, <3>4, <4>1
      <4>3. BtPos(BtBlockAt(k + 1))' = BtPos(BtBlockAt(k + 1))
        BY <1>1, <4>2 DEF BtPos
      <4>4. BtAt(k + 1)' = BtAt(k + 1)
        BY <1>3, <2>2, <2>4, <3>4, <4>3 DEF BtAt
      <4>. QED  BY <1>5, <3>1, <3>2, <3>3, <4>4
    <3>5. CASE k + 1 = BtMade /\ BtPos(b) = Begin
      <4>1. BtBlockAt(k + 1)' = b
        BY <2>3, <2>4, <3>5
      <4>2. BtPos(BtBlockAt(k + 1))' = BtPos(b)
        BY <1>1, <4>1 DEF BtPos
      <4>3. BtAt(k + 1)' = BtPos(BtBlockAt(k + 1))' /\ BtAt(k + 1) = Begin
        BY <1>3, <2>2, <3>5 DEF BtAt
      <4>. QED  BY <1>5, <3>1, <3>2, <3>3, <3>5, <4>2, <4>3
    <3>6. CASE k + 1 = BtMade /\ B.failed = TRUE
      <4>1. BtBlockAt(BtMade - 1).n = none /\ k = BtMade - 1
        BY <1>1, <1>3, <2>4, <3>6 DEF FailSound
      <4>. QED  BY <3>1, <3>3, <4>1
    <3>7. BtPos(b) = Begin \/ B.failed = TRUE
      BY <2>1 DEF BlockDone
    <3>8. k + 1 < BtMade \/ k + 1 = BtMade
      BY <1>3, <2>4, <3>1
    <3>. QED  BY <3>4, <3>5, <3>6, <3>7, <3>8
  <2>. QED  BY <2>5, <2>6
<1>. QED  BY <1>6, <1>7
(*---------------------------- what the encoder has --------------------------*)

(* A step of another thread, or of the protocol, is not about the encoder's    *)
(* block. *)
LzSame ==
  /\ L'.slot = L.slot /\ L'.k = L.k /\ L'.lim = L.lim /\ L'.avail = L.avail
  /\ L'.pos = L.pos /\ L'.item = L.item /\ L'.failed = L.failed
  /\ L'.result = L.result \/ L'.result = "error"

LzMoves ==
  \/ pc'["lz"] = pc["lz"] /\ L'.result = L.result
  \/ SyncStep("bt") /\ L'.result = L.result
  \/ ~Streaming'

(* Six steps touch it. *)
LEMMA LzData ==
  ASSUME ProtocolInv, Next
  PROVE  \/ MtSync_Init \/ LzNext \/ LzGot \/ LzConsume \/ LzEnd \/ LzAbort
         \/ LzSame /\ LzMoves
<1>1. /\ SyncTypes /\ ThreadsInv /\ pc["lz"] \in LzPlaces /\ pc["bt"] \in BtPlaces
      /\ L \in LzRec
  BY DEF ProtocolInv, ThreadsInv, SyncTypes, DataTypes
<1>2. ASSUME L' = L PROVE LzSame
  BY <1>2 DEF LzSame
<1>3. CASE HashStep
  <2>1. pc'["lz"] = pc["lz"]
    BY <1>1, <1>3, Places
       DEF HashStep, HashStart, HashEnter1, HashEnter2, HashMove, HashTake, HashFill, HashPost,
           HashStopped
  <2>2. LzSame /\ L'.result = L.result
    <3>1. CASE HashMove
      <4>1. PICK d : L' = [L EXCEPT !.ptr = L.ptr - d]
        BY <3>1 DEF HashMove
      <4>. QED  BY <1>1, <4>1 DEF LzRec, LzSame
    <3>2. CASE L' = L
      BY <1>2, <3>2
    <3>. QED  BY <1>3, <3>1, <3>2
              DEF HashStep, HashStart, HashEnter1, HashEnter2, HashTake, HashFill, HashPost,
                  HashStopped
  <2>. QED  BY <2>1, <2>2 DEF LzMoves
<1>4. CASE SyncStep("hash")
  <2>1. L' = L /\ pc'["lz"] = pc["lz"]
    BY <1>1, <1>4, CallFrame, ObjectFacts, Places
  <2>. QED  BY <1>2, <2>1 DEF LzMoves
<1>5. CASE SyncStep("bt")
  <2>1. L' = L
    BY <1>1, <1>5, CallFrame, ObjectFacts
  <2>. QED  BY <1>2, <1>5, <2>1 DEF LzMoves
<1>6. ASSUME BtStep, ~SyncStep("hash") PROVE LzSame /\ LzMoves
  <2>1. L' = L /\ pc'["lz"] = pc["lz"]
    BY <1>1, <1>6, Places
       DEF BtStep, BtStart, BtTake, BtFill, BtFull, BtNext, BtGot, BtLoad, BtMatch, BtUnlock,
           BtPost, BtStopped
  <2>. QED  BY <1>2, <2>1 DEF LzMoves
<1>7. ASSUME NEW o \in Objects, MtSync_Create(o) PROVE LzSame /\ LzMoves
  <2>1. ~Streaming'
    BY <1>1, <1>7, ObjectFacts DEF MtSync_Create, Goto, SyncTypes, Threads, Streaming, Asking
  <2>2. L' = L \/ L' = [L EXCEPT !.result = "error"]
    BY <1>7 DEF MtSync_Create
  <2>. QED  BY <1>1, <2>1, <2>2 DEF LzRec, LzSame, LzMoves
<1>8. ASSUME NEW o \in Objects, MtSync_Destruct(o) \/ Thread_Wait_Close(o)
      PROVE  LzSame /\ LzMoves
  <2>1. ~Streaming' /\ L' = L
    BY <1>1, <1>8, Places DEF MtSync_Destruct, Thread_Wait_Close, Streaming, Asking
  <2>. QED  BY <1>2, <2>1 DEF LzMoves
<1>9. CASE LzStopped
  <2>1. ~Streaming' /\ L' = L
    BY <1>1, <1>9, Places DEF LzStopped, Streaming, Asking
  <2>. QED  BY <1>2, <2>1 DEF LzMoves
<1>. QED  BY <1>3, <1>4, <1>5, <1>6, <1>7, <1>8, <1>9 DEF Next, BtStep, LzStep

(* The six, field by field: the block is used up, ... *)
LEMMA NextData ==
  ASSUME ProtocolInv, LzNext
  PROVE  /\ pc["lz"] = "run" /\ L.k = L.lim
         /\ L'.slot = L.slot /\ L'.avail = L.avail /\ L'.pos = L.pos /\ L'.item = L.item
         /\ L'.failed = L.failed /\ L'.result = L.result
         /\ L.failed = TRUE => L'.k = 0 /\ L'.lim = 1 /\ pc'["lz"] = "have"
         /\ L.failed = FALSE => L'.k = L.k /\ L'.lim = L.lim /\ pc'["lz"] = "next"
         /\ sync' = sync /\ pc'["bt"] = pc["bt"]
<1>1. SyncTypes /\ L \in LzRec
  BY DEF ProtocolInv, ThreadsInv, DataTypes
<1>2. L.failed \in BOOLEAN
  BY <1>1 DEF LzRec
<1>3. L' = IF L.failed THEN [L EXCEPT !.k = 0, !.lim = 1] ELSE [L EXCEPT !.data = none]
  BY DEF LzNext
<1>4. /\ L'.slot = L.slot /\ L'.avail = L.avail /\ L'.pos = L.pos /\ L'.item = L.item
      /\ L'.failed = L.failed /\ L'.result = L.result
      /\ L.failed = TRUE => L'.k = 0 /\ L'.lim = 1
      /\ L.failed = FALSE => L'.k = L.k /\ L'.lim = L.lim
  BY <1>1, <1>2, <1>3 DEF LzRec
<1>. QED  BY <1>1, <1>2, <1>4, Places DEF LzNext

(* ... another one is taken up, ... *)
LEMMA TakenData ==
  ASSUME ProtocolInv, LzGot, CountsSound
  PROVE  /\ Running(sync["bt"]) /\ pc["lz"] \in {"lock", "lock0"} /\ pc'["lz"] = "have"
         /\ L'.slot = (sync["bt"].num - 1) % kMtBtNumBlocks
         /\ L'.k = 0 /\ L'.avail = BtBlockAt(sync["bt"].num - 1).avail
         /\ L'.lim = IF BtBlockAt(sync["bt"].num - 1).n = none THEN 1
                     ELSE BtBlockAt(sync["bt"].num - 1).n
         /\ L'.failed = (BtBlockAt(sync["bt"].num - 1).n = none)
         /\ L'.pos = L.pos /\ L'.item = L.item /\ L'.result = L.result
         /\ sync'["bt"].num = sync["bt"].num /\ btBuf' = btBuf /\ pc'["bt"] = pc["bt"]
<1>1. /\ SyncTypes /\ L \in LzRec /\ ThreadsInv /\ sync["bt"] \in SyncRec
      /\ sync \in [Objects -> SyncRec]
  BY ObjectFacts DEF ProtocolInv, ThreadsInv, SyncTypes, DataTypes
<1>2. pc["lz"] \in {"lock", "lock0"} /\ pc'["lz"] = "have" /\ pc'["bt"] = pc["bt"]
  BY <1>1, ObjectFacts, Places DEF LzGot, Locked
<1>3. Running(sync["bt"])
  BY <1>1, <1>2 DEF ThreadsInv, LivesSound
<1>4. BlockIndex("bt") = (sync["bt"].num - 1) % kMtBtNumBlocks
  BY <1>2, <1>3, BtRange DEF CountsSound
<1>5. PICK b : b = btBuf[BlockIndex("bt")] /\ b = BtBlockAt(sync["bt"].num - 1)
  BY <1>4 DEF BtBlockAt
<1>6. /\ L' = [L EXCEPT !.slot = BlockIndex("bt"), !.k = 0,
                        !.lim = IF b.n = none THEN 1 ELSE b.n,
                        !.avail = b.avail, !.failed = (b.n = none)]
      /\ btBuf' = btBuf
  BY <1>5 DEF LzGot
<1>7. /\ L'.slot = BlockIndex("bt") /\ L'.k = 0 /\ L'.avail = b.avail
      /\ L'.lim = (IF b.n = none THEN 1 ELSE b.n) /\ L'.failed = (b.n = none)
      /\ L'.pos = L.pos /\ L'.item = L.item /\ L'.result = L.result
  BY <1>1, <1>6 DEF LzRec
<1>8. sync'["bt"].num = sync["bt"].num
  BY <1>1, ObjectFacts, CountUpdates, Numbers DEF LzGot, Locked
<1>. QED  BY <1>2, <1>3, <1>4, <1>5, <1>6, <1>7, <1>8, Zenon

(* ... one more position is read from it, ... *)
LEMMA ConsumeData ==
  ASSUME ProtocolInv, LzConsume
  PROVE  /\ pc["lz"] = "have" \/ (pc["lz"] = "run" /\ L.k # L.lim)
         /\ pc'["lz"] = "run" /\ L.avail > 0
         /\ L'.slot = L.slot /\ L'.lim = L.lim /\ L'.failed = L.failed /\ L'.result = L.result
         /\ L'.k = L.k + 1 /\ L'.avail = L.avail - 1 /\ L'.pos = L.pos + 1
         /\ L'.item = IF L.failed THEN none ELSE btBuf[L.slot].from + L.k
         /\ sync' = sync /\ btBuf' = btBuf /\ pc'["bt"] = pc["bt"]
<1>1. SyncTypes /\ L \in LzRec
  BY DEF ProtocolInv, ThreadsInv, DataTypes
<1>2. PICK x : x = IF L.failed THEN none ELSE btBuf[L.slot].from + L.k
  OBVIOUS
<1>3. L' = [L EXCEPT !.k = L.k + 1, !.avail = L.avail - 1, !.pos = L.pos + 1,
                     !.ptr = L.ptr + 1, !.data = L.ptr, !.item = x]
  BY <1>2 DEF LzConsume
<1>4. /\ L'.slot = L.slot /\ L'.lim = L.lim /\ L'.failed = L.failed /\ L'.result = L.result
      /\ L'.k = L.k + 1 /\ L'.avail = L.avail - 1 /\ L'.pos = L.pos + 1 /\ L'.item = x
  BY <1>1, <1>3 DEF LzRec
<1>. QED  BY <1>1, <1>2, <1>4, Places DEF LzConsume

(* ... or the encoder ends. *)
LEMMA EndData ==
  ASSUME ProtocolInv, LzEnd \/ LzAbort
  PROVE  /\ ~Streaming'
         /\ L'.k = L.k /\ L'.lim = L.lim /\ L'.avail = L.avail /\ L'.pos = L.pos
         /\ L'.item = L.item
         /\ L'.result = "error" \/
            (/\ L'.result = "ok" /\ L.failed = FALSE /\ L.avail = 0
             /\ pc["lz"] = "have" \/ (pc["lz"] = "run" /\ L.k # L.lim))
<1>1. SyncTypes /\ L \in LzRec
  BY DEF ProtocolInv, ThreadsInv, DataTypes
<1>2. ~Streaming'
  BY <1>1, Places DEF LzEnd, LzAbort, Streaming, Asking
<1>3. L.failed \in BOOLEAN
  BY <1>1 DEF LzRec
<1>4. PICK r : /\ L' = [L EXCEPT !.result = r, !.data = none]
               /\ r = "error" \/
                  (/\ r = "ok" /\ L.failed = FALSE /\ L.avail = 0
                   /\ pc["lz"] = "have" \/ (pc["lz"] = "run" /\ L.k # L.lim))
  BY <1>3 DEF LzEnd, LzAbort
<1>5. /\ L'.k = L.k /\ L'.lim = L.lim /\ L'.avail = L.avail /\ L'.pos = L.pos
      /\ L'.item = L.item /\ L'.result = r
  BY <1>1, <1>4 DEF LzRec
<1>. QED  BY <1>2, <1>4, <1>5
(* Before the bt thread is started it is done with nothing. *)
LEMMA IdleDone ==
  ASSUME ProtocolInv', ~Running(sync'["bt"])
  PROVE  ~Done
<1>1. sync'["bt"] \in SyncRec /\ pc'["bt"] \in BtPlaces /\ ObjectSound("bt")'
  BY ObjectFacts DEF ProtocolInv, ThreadsInv, SyncTypes
<1>2. pc'["bt"] \in {"none", "start", "dead"}
  BY <1>1, ObjectFacts DEF ObjectSound, IdleSound, Running, SyncRec
<1>. QED  BY <1>2 DEF Done

(* After a failure only blocks of a failure follow, until the encoder gets     *)
(* one. *)
LEMMA FailKept ==
  ASSUME ProtocolInv, ProtocolInv', Next, CountsSound, CountsSound', HashChain, HashHeld,
         StartedSound, BtRanges, BtCursor, FailSound
  PROVE  FailSound'
<1>. SUFFICES ASSUME Streaming', B'.failed = TRUE
              PROVE  /\ Running(sync'["bt"]) /\ BtBlockAt(BtMade - 1)'.n = none
                     /\ L'.failed = TRUE \/ Known("bt")' < BtMade'
  BY DEF FailSound
<1>1. ~MtSync_Init
  <2>. SUFFICES ASSUME MtSync_Init PROVE FALSE
    OBVIOUS
  <2>1. B' = InitB
    BY InitReady DEF MtSync_Init, ProtocolInv
  <2>. QED  BY <2>1 DEF InitB
<1>2. Streaming /\ BtLive' /\ BtLive /\ conf' = conf
  BY <1>1, StreamSteps
<1>3. CASE ~Running(sync'["bt"])
  <2>1. ~Done
    BY <1>3, IdleDone
  <2>2. B.failed = TRUE
    BY <1>1, <1>2, <2>1, BlocksDone
  <2>3. Running(sync["bt"])
    BY <1>2, <2>2 DEF FailSound
  <2>4. StopWait("bt")
    BY <1>3, <2>3, RunningKept, ObjectFacts DEF NextStart, Running, ProtocolInv, ThreadsInv,
       SyncTypes, SyncRec
  <2>5. ~Streaming'
    BY <2>4, Places, ObjectFacts DEF StopWait, Streaming, Asking, ProtocolInv, ThreadsInv
  <2>. QED  BY <2>5
<1>4. CASE Running(sync'["bt"]) /\ ~Running(sync["bt"])
  <2>1. B' = B
    BY <1>4, BtBegins
  <2>. QED  BY <1>2, <1>4, <2>1 DEF FailSound
<1>5. CASE Running(sync'["bt"]) /\ Running(sync["bt"])
  <2>1. /\ BtCounted /\ BtMade \in Nat /\ Known("bt") \in Nat /\ Known("bt") <= BtMade
        /\ BtStays \/ BtGrows \/ BtTaken
    BY <1>5, BtCounts, BtRange DEF CountsSound
  <2>2. CASE Done
    <3>1. PICK b : BlockDone(b)
      BY <1>1, <1>2, <2>2, BlocksDone
    <3>2. BtMade' = BtMade + 1 /\ Known("bt")' = Known("bt")
      BY <2>1, <2>2 DEF BtStays, BtGrows, BtTaken
    <3>3. \A j \in Int : j = BtMade => BtBlockAt(j)' = b
      BY <1>5, <2>1, <2>2, <3>1, BtBlockKept
    <3>4. b.n = none
      BY <3>1 DEF BlockDone
    <3>5. PICK m \in Nat : m = BtMade /\ BtMade' = m + 1
      BY <2>1, <3>2
    <3>6. BtBlockAt(m)' = b
      BY <3>3, <3>5
    <3>7. BtBlockAt(BtMade - 1)' = b
      <4>1. (BtMade - 1)' = m
        BY <3>5
      <4>. QED  BY <3>6, <4>1 DEF BtBlockAt
    <3>. QED  BY <1>5, <2>1, <3>2, <3>4, <3>7
  <2>3. CASE ~Done
    <3>1. btBuf' = btBuf /\ B.failed = TRUE /\ BtMade' = BtMade
      BY <1>1, <1>2, <2>1, <2>3, BlocksDone DEF BtStays, BtGrows, BtTaken
    <3>2. /\ BtBlockAt(BtMade - 1).n = none
          /\ L.failed = TRUE \/ Known("bt") < BtMade
      BY <1>2, <3>1 DEF FailSound
    <3>3. BtBlockAt(BtMade - 1)' = BtBlockAt(BtMade - 1)
      BY <3>1 DEF BtBlockAt
    <3>4. CASE LzGot
      <4>1. Known("bt")' = Known("bt") + 1 /\ Known("bt") < BtMade
            /\ Known("bt") = sync["bt"].num - 1
        BY <1>5, <2>1, <3>4, TakenData, BtRange DEF BtStays, BtGrows, BtTaken
      <4>2. CASE Known("bt") = BtMade - 1
        <5>1. BtBlockAt(sync["bt"].num - 1).n = none
          BY <3>2, <4>1, <4>2
        <5>2. L'.failed = TRUE
          BY <3>4, <5>1, TakenData
        <5>. QED  BY <1>5, <3>2, <3>3, <5>2
      <4>3. CASE Known("bt") # BtMade - 1
        <5>1. Known("bt")' < BtMade'
          BY <2>1, <3>1, <4>1, <4>3
        <5>. QED  BY <1>5, <3>2, <3>3, <5>1
      <4>. QED  BY <4>2, <4>3
    <3>5. CASE ~LzGot
      <4>1. Known("bt")' = Known("bt")
        BY <2>1, <2>3, <3>5 DEF BtStays, BtGrows, BtTaken
      <4>2. ~LzEnd /\ ~LzAbort
        BY EndData
      <4>3. L'.failed = L.failed
        BY <1>1, <3>5, <4>2, LzData, NextData, ConsumeData DEF LzSame
      <4>. QED  BY <1>5, <3>1, <3>2, <3>3, <4>1, <4>3
    <3>. QED  BY <3>4, <3>5
  <2>. QED  BY <2>2, <2>3
<1>. QED  BY <1>3, <1>4, <1>5
(* Where a block begins does not change any more. *)
LEMMA BtAtKept ==
  ASSUME ProtocolInv, ProtocolInv', Next, CountsSound, CountsSound', HashChain, HashHeld,
         StartedSound, BtRanges, BtCursor, Streaming', Running(sync["bt"]),
         Running(sync'["bt"]), NEW j \in Int, Oldest("bt") <= j, j <= BtMade,
         j < BtMade \/ B.failed = FALSE
  PROVE  /\ BtAt(j)' = BtAt(j)
         /\ j < BtMade => BtBlockAt(j)' = BtBlockAt(j)
<1>1. ~MtSync_Init /\ Streaming /\ BtLive' /\ conf' = conf
  BY StreamSteps
<1>2. /\ BtCounted /\ BtMade \in Nat /\ Oldest("bt") \in Int
      /\ BtStays \/ BtGrows \/ BtTaken
  BY BtCounts, BtRange DEF CountsSound
<1>3. CASE ~Done
  <2>1. btBuf' = btBuf /\ Begin' = Begin /\ BtMade' = BtMade
    BY <1>1, <1>2, <1>3, BlocksDone DEF BtStays, BtGrows, BtTaken
  <2>2. BtBlockAt(j)' = BtBlockAt(j)
    BY <2>1 DEF BtBlockAt
  <2>3. BtPos(BtBlockAt(j))' = BtPos(BtBlockAt(j))
    BY <1>1, <2>2 DEF BtPos
  <2>. QED  BY <2>1, <2>2, <2>3 DEF BtAt
<1>4. CASE Done
  <2>1. PICK b : BlockDone(b)
    BY <1>1, <1>4, BlocksDone
  <2>2. BtMade' = BtMade + 1
    BY <1>2, <1>4 DEF BtStays, BtGrows, BtTaken
  <2>3. /\ j = BtMade => BtBlockAt(j)' = b
        /\ j < BtMade => BtBlockAt(j)' = BtBlockAt(j)
    BY <1>2, <1>4, <2>1, BtBlockKept
  <2>4. CASE j < BtMade
    <3>1. BtPos(BtBlockAt(j))' = BtPos(BtBlockAt(j))
      BY <1>1, <2>3, <2>4 DEF BtPos
    <3>. QED  BY <1>2, <2>2, <2>3, <2>4, <3>1 DEF BtAt
  <2>5. CASE j = BtMade
    <3>1. BtPos(BtBlockAt(j))' = BtPos(b)
      BY <1>1, <2>3, <2>5 DEF BtPos
    <3>2. BtPos(b) = Begin
      BY <2>1, <2>5 DEF BlockDone
    <3>3. BtAt(j)' = BtPos(BtBlockAt(j))' /\ BtAt(j) = Begin
      BY <1>2, <2>2, <2>5 DEF BtAt
    <3>. QED  BY <1>2, <2>5, <3>1, <3>2, <3>3
  <2>. QED  BY <1>2, <2>4, <2>5
<1>. QED  BY <1>3, <1>4

(* A new stream begins at its first byte. *)
LEMMA StreamBegins ==
  ASSUME ProtocolInv, ProtocolInv', MtSync_Init, Next
  PROVE  L' = InitL /\ B' = InitB /\ Begin' = 0 /\ ~Running(sync'["bt"])
         /\ pc'["lz"] = "run" /\ conf' = conf
<1>1. /\ B' = InitB /\ L' = InitL /\ mf' = NewWindow(conf) /\ pc["bt"] = "start"
      /\ pc["lz"] = "init"
  BY InitReady DEF MtSync_Init, ProtocolInv
<1>2. pc'["lz"] = "run" /\ pc'["bt"] = "start"
  BY <1>1, InitReady, Places DEF MtSync_Init, ProtocolInv, ThreadsInv
<1>3. ~Running(sync'["bt"]) /\ conf' = conf
  BY <1>2, StreamSteps, WindowFrame DEF Streaming
<1>4. ~Running(sync'["hash"])
  BY <1>2 DEF ProtocolInv, ThreadsInv, LivesSound
<1>5. At(mf') = 0
  BY <1>1 DEF NewWindow, MatchFinder_Create, At
<1>6. HashNext' = 0
  BY <1>4, <1>5 DEF HashNext
<1>7. B'.pos = 0 /\ ~Filling'
  BY <1>1, <1>2 DEF InitB, Filling, Asking
<1>8. Begin' = 0
  BY <1>3, <1>6, <1>7 DEF Begin
<1>. QED  BY <1>1, <1>2, <1>3, <1>8

(* The block that the encoder looks at, in a step that is not the encoder's,   *)
(* stays. *)
LEMMA HeldStays ==
  ASSUME ProtocolInv, ProtocolInv', Next, CountsSound, CountsSound', HashChain, HashHeld,
         StartedSound, BtRanges, BtCursor, Streaming', Running(sync["bt"]),
         pc["lz"] \in {"run", "have", "next"}, pc'["lz"] \in {"run", "have", "next"}
  PROVE  /\ Running(sync'["bt"])
         /\ sync'["bt"].num = sync["bt"].num
         /\ BtBlockAt(sync["bt"].num - 1)' = BtBlockAt(sync["bt"].num - 1)
         /\ BtPos(BtBlockAt(sync["bt"].num - 1))' = BtPos(BtBlockAt(sync["bt"].num - 1))
<1>1. /\ SyncTypes /\ ThreadsInv /\ sync["bt"] \in SyncRec /\ sync'["bt"] \in SyncRec
  BY ObjectFacts DEF ProtocolInv, ThreadsInv, SyncTypes
<1>2. ~NextStart("bt") /\ ~StopWait("bt")
  BY <1>1, Places, ObjectFacts DEF NextStart, StopWait
<1>3. Running(sync'["bt"])
  BY <1>1, <1>2, RunningKept, ObjectFacts
<1>4. /\ BtStays \/ BtGrows \/ BtTaken
      /\ Oldest("bt") = sync["bt"].num - 1 /\ Oldest("bt") < BtMade
      /\ Known("bt") = sync["bt"].num
  BY <1>3, BtCounts, BtRange DEF CountsSound
<1>5. Known("bt")' = sync'["bt"].num
  BY ObjectFacts DEF Known, Asking
<1>6. ~LzGot
  BY ObjectFacts DEF LzGot, Locked
<1>7. sync'["bt"].num = sync["bt"].num
  BY <1>4, <1>5, <1>6 DEF BtStays, BtGrows, BtTaken
<1>8. PICK j \in Int : j = sync["bt"].num - 1 /\ j = (sync["bt"].num - 1)'
  BY <1>1, <1>7 DEF SyncRec
<1>9. BtBlockAt(j)' = BtBlockAt(j)
  <2>1. BtMade \in Nat
    BY BtRange DEF CountsSound
  <2>2. Oldest("bt") <= j /\ j < BtMade /\ j <= BtMade
    BY <1>4, <1>8, <2>1
  <2>. QED  BY <1>3, <1>8, <2>2, BtAtKept
<1>10. BtBlockAt(sync["bt"].num - 1)' = BtBlockAt(sync["bt"].num - 1)
  BY <1>8, <1>9 DEF BtBlockAt
<1>11. conf' = conf
  BY WindowFrame
<1>. QED  BY <1>3, <1>7, <1>10, <1>11 DEF BtPos
(* All that the threads keep true of the blocks. *)
BlocksInv ==
  /\ ProtocolInv /\ CountsSound /\ HashChain /\ HashHeld /\ StartedSound
  /\ BtRanges /\ BtCursor /\ BtChain /\ FailSound
  /\ BtHeld /\ LzRanges /\ ItemSound /\ PointersSound

(* The types of what the encoder looks at. *)
LEMMA HeldTyped ==
  ASSUME ProtocolInv
  PROVE  /\ L.k \in Nat /\ L.lim \in Int /\ L.avail \in Int /\ L.pos \in Nat
         /\ L.failed \in BOOLEAN /\ conf.len \in Nat /\ sync["bt"].num \in Nat
         /\ BtBlockAt(sync["bt"].num - 1) \in [from : Nat, n : Int, avail : Int]
         /\ BtPos(BtBlockAt(sync["bt"].num - 1)) \in Nat
         /\ none \in Int /\ none < 0
<1>1. L.k \in Nat /\ L.lim \in Int /\ L.avail \in Int /\ L.pos \in Nat /\ L.failed \in BOOLEAN
  BY DEF ProtocolInv, DataTypes, LzRec
<1>2. conf.len \in Nat
  BY ConfsAssumption DEF ProtocolInv, DataTypes
<1>3. sync["bt"].num \in Nat
  BY ObjectFacts DEF ProtocolInv, ThreadsInv, SyncTypes, SyncRec
<1>4. BtBlockAt(sync["bt"].num - 1) \in [from : Nat, n : Int, avail : Int]
  <2>1. (sync["bt"].num - 1) % kMtBtNumBlocks \in BtSlots
    BY <1>3, Slots
  <2>. QED  BY <2>1 DEF BtBlockAt, ProtocolInv, DataTypes
<1>5. BtPos(BtBlockAt(sync["bt"].num - 1)) \in Nat
  BY <1>2, <1>4 DEF BtPos
<1>. QED  BY <1>1, <1>2, <1>3, <1>4, <1>5 DEF none

(* The block that the encoder has is one of the chain. *)
LEMMA HeldBlock ==
  ASSUME BlocksInv, Streaming, Running(sync["bt"]),
         pc["lz"] \in {"run", "have", "next", "lock", "lock0"}
  PROVE  /\ BtBlockSound(BtBlockAt(sync["bt"].num - 1))
         /\ BtBlockAt(sync["bt"].num - 1).n # none =>
              BtAt(sync["bt"].num) =
                BtPos(BtBlockAt(sync["bt"].num - 1)) + BtBlockAt(sync["bt"].num - 1).n
<1>1. sync["bt"].num \in Nat
  BY HeldTyped DEF BlocksInv
<1>2. sync["bt"].num - 1 \in Oldest("bt") .. BtMade - 1
  <2>1. /\ BtMade \in Nat /\ Known("bt") \in Nat /\ Oldest("bt") \in Int
        /\ Oldest("bt") <= Known("bt")
    BY BtRange DEF BlocksInv, CountsSound
  <2>2. /\ pc["lz"] \in {"run", "have", "next"} =>
             Oldest("bt") = sync["bt"].num - 1 /\ Oldest("bt") < BtMade
        /\ pc["lz"] \in {"lock", "lock0"} =>
             Known("bt") = sync["bt"].num - 1 /\ Known("bt") < BtMade
    BY BtRange DEF BlocksInv, CountsSound
  <2>. QED  BY <1>1, <2>1, <2>2
<1>3. PICK j \in Oldest("bt") .. BtMade - 1 : j = sync["bt"].num - 1 /\ j + 1 = sync["bt"].num
  BY <1>1, <1>2
<1>4. /\ BtBlockSound(BtBlockAt(j))
      /\ BtBlockAt(j).n # none => BtAt(j + 1) = BtPos(BtBlockAt(j)) + BtBlockAt(j).n
  BY DEF BlocksInv, BtChain
<1>. QED  BY <1>3, <1>4

(* Where the block begins that the encoder takes up next. *)
LEMMA AtNow ==
  ASSUME NEW n, n = Known("bt")'
  PROVE  BtAt(Known("bt"))' = BtAt(n)'
BY DEF BtAt, BtPos, BtBlockAt

(* The encoder has used up its block ... *)
LEMMA HeldAfterNext ==
  ASSUME BlocksInv, ProtocolInv', CountsSound', Next, LzNext
  PROVE  BtHeld'
<1>1. /\ pc["lz"] = "run" /\ pc'["lz"] \in {"have", "next"} /\ Streaming /\ Streaming'
      /\ L.failed \in BOOLEAN /\ sync' = sync
  BY NextData, HeldTyped DEF BlocksInv, Streaming
<1>2. ~MtSync_Init /\ BtLive' /\ conf' = conf
  <2>1. ~MtSync_Init
    BY <1>1 DEF MtSync_Init
  <2>. QED  BY <1>1, <2>1, StreamSteps DEF BlocksInv
<1>3. PICK n : n = sync["bt"].num
  OBVIOUS
<1>4. /\ L.k \in Nat /\ L.lim \in Int /\ L.avail \in Int /\ L.pos \in Nat
      /\ BtBlockAt(n - 1) \in [from : Nat, n : Int, avail : Int]
      /\ BtPos(BtBlockAt(n - 1)) \in Nat
  BY <1>3, HeldTyped DEF BlocksInv
<1>5. CASE ~Running(sync["bt"])
  <2>1. /\ L.failed = FALSE /\ L.pos = Begin /\ L.k = L.lim /\ L.avail = 0
        /\ L.result = "none"
    BY <1>1, <1>5 DEF BlocksInv, BtHeld
  <2>2. ~Running(sync'["bt"])
    BY <1>1, <1>5
  <2>3. Begin' = Begin
    BY <1>2, <2>2, IdleDone, BlocksDone DEF BlocksInv
  <2>4. /\ L'.failed = FALSE /\ L'.pos = L.pos /\ L'.k = L'.lim /\ L'.avail = 0
        /\ L'.result = "none" /\ pc'["lz"] = "next"
    BY <2>1, NextData DEF BlocksInv
  <2>. QED  BY <2>1, <2>2, <2>3, <2>4 DEF BtHeld
<1>6. CASE Running(sync["bt"])
  <2>1. /\ BtKnown(BtBlockAt(n - 1)) /\ L.result = "none"
    BY <1>1, <1>3, <1>6 DEF BlocksInv, BtHeld
  <2>2. /\ Running(sync'["bt"]) /\ sync'["bt"].num = n
        /\ BtBlockAt(sync["bt"].num - 1)' = BtBlockAt(n - 1)
        /\ BtPos(BtBlockAt(sync["bt"].num - 1))' = BtPos(BtBlockAt(n - 1))
    BY <1>1, <1>3, <1>6, HeldStays DEF BlocksInv
  <2>3. CASE L.failed = TRUE
    <3>1. /\ L'.slot = L.slot /\ L'.avail = L.avail /\ L'.pos = L.pos /\ L'.failed = TRUE
          /\ L'.k = 0 /\ L'.lim = 1 /\ pc'["lz"] = "have" /\ L'.result = "none"
      BY <2>1, <2>3, NextData DEF BlocksInv
    <3>2. BtKnown(BtBlockAt(sync["bt"].num - 1))'
      BY <1>2, <1>3, <2>1, <2>2, <2>3, <3>1 DEF BtKnown
    <3>. QED  BY <2>2, <3>1, <3>2 DEF BtHeld, Asking
  <2>4. CASE L.failed = FALSE
    <3>1. /\ L'.pos = L.pos /\ L'.failed = FALSE /\ L'.k = L.k /\ L'.lim = L.lim
          /\ pc'["lz"] = "next" /\ L'.result = "none" /\ L.k = L.lim
      BY <2>1, <2>4, NextData DEF BlocksInv
    <3>2. L.pos = BtAt(n)
      <4>1. /\ BtBlockAt(n - 1).n # none /\ L.lim = BtBlockAt(n - 1).n
            /\ L.pos = BtPos(BtBlockAt(n - 1)) + L.k
        BY <2>1, <2>4 DEF BtKnown
      <4>2. BtAt(n) = BtPos(BtBlockAt(n - 1)) + BtBlockAt(n - 1).n
        BY <1>1, <1>3, <1>6, <4>1, HeldBlock
      <4>. QED  BY <3>1, <4>1, <4>2
    <3>3. BtAt(n)' = BtAt(n)
      <4>1. /\ n \in Int /\ Oldest("bt") = n - 1 /\ Oldest("bt") < BtMade /\ Known("bt") = n
            /\ BtMade \in Nat
        BY <1>1, <1>3, <1>6, HeldTyped, BtRange DEF BlocksInv, CountsSound
      <4>2. n < BtMade \/ B.failed = FALSE
        BY <1>1, <2>4, <4>1 DEF BlocksInv, FailSound, ProtocolInv, DataTypes, BtRec
      <4>3. Oldest("bt") <= n /\ n <= BtMade
        BY <4>1
      <4>. QED  BY <1>1, <1>6, <2>2, <4>1, <4>2, <4>3, BtAtKept DEF BlocksInv
    <3>4. L'.pos = BtAt(Known("bt"))'
      <4>1. n = Known("bt")'
        BY <2>2, <3>1, ObjectFacts DEF Known, Asking
      <4>. QED  BY <3>1, <3>2, <3>3, <4>1, AtNow
    <3>. QED  BY <2>2, <3>1, <3>4 DEF BtHeld
  <2>. QED  BY <1>1, <2>3, <2>4
<1>. QED  BY <1>5, <1>6
(* ... takes up the next one ... *)
LEMMA HeldAfterGot ==
  ASSUME BlocksInv, ProtocolInv', CountsSound', Next, LzGot
  PROVE  BtHeld'
<1>1. /\ Running(sync["bt"]) /\ pc["lz"] \in {"lock", "lock0"} /\ pc'["lz"] = "have"
      /\ Streaming /\ Streaming' /\ ~SyncStep("bt") /\ LzStep
  <2>1. pc["lz"] \in {"lock", "lock0"} /\ pc'["lz"] = "have" /\ Running(sync["bt"])
    BY TakenData DEF BlocksInv
  <2>2. ~SyncStep("bt")
    BY <2>1, CallFrame, ObjectFacts, Places DEF BlocksInv, ProtocolInv, ThreadsInv, Calls
  <2>. QED  BY <2>1, <2>2 DEF Streaming, Asking, LzStep
<1>2. Running(sync'["bt"])
  BY <1>1, RunningKept, ObjectFacts DEF BlocksInv, ProtocolInv
<1>3. PICK n, b : n = sync["bt"].num /\ b = BtBlockAt(n - 1)
  OBVIOUS
<1>4. /\ sync'["bt"].num = n /\ btBuf' = btBuf
      /\ L'.slot = (n - 1) % kMtBtNumBlocks /\ L'.k = 0 /\ L'.avail = b.avail
      /\ L'.lim = (IF b.n = none THEN 1 ELSE b.n)
      /\ L'.failed = (b.n = none) /\ L'.pos = L.pos /\ L'.result = L.result
  BY <1>3, TakenData DEF BlocksInv
<1>5. conf' = conf
  BY WindowFrame
<1>6. BtBlockAt(sync["bt"].num - 1)' = b /\ BtPos(BtBlockAt(sync["bt"].num - 1))' = BtPos(b)
  BY <1>3, <1>4, <1>5 DEF BtBlockAt, BtPos
<1>7. /\ b \in [from : Nat, n : Int, avail : Int] /\ BtPos(b) \in Nat /\ conf.len \in Nat
      /\ L.pos \in Nat /\ n \in Nat
  BY <1>3, HeldTyped DEF BlocksInv
<1>8. L.pos = BtPos(b) /\ L.result = "none"
  <2>1. L.pos = BtAt(Known("bt")) /\ L.result = "none"
    BY <1>1 DEF BlocksInv, BtHeld, Asking
  <2>2. Known("bt") = n - 1 /\ Known("bt") < BtMade
    BY <1>1, <1>3, BtRange DEF BlocksInv, CountsSound
  <2>. QED  BY <1>3, <2>1, <2>2 DEF BtAt
<1>9. BtBlockSound(b)
  BY <1>1, <1>3, HeldBlock
<1>10. BtKnown(BtBlockAt(sync["bt"].num - 1))'
  <2>1. BtPos(b) + b.avail <= conf.len
    BY <1>9 DEF BtBlockSound
  <2>2. CASE b.n = none
    <3>1. L'.failed = TRUE /\ L'.lim = 1
      BY <1>4, <2>2
    <3>. QED  BY <1>4, <1>5, <1>6, <1>7, <1>8, <2>1, <2>2, <3>1 DEF BtKnown
  <2>3. CASE b.n # none
    <3>1. L'.failed = FALSE /\ L'.lim = b.n
      BY <1>4, <2>3
    <3>. QED  BY <1>4, <1>5, <1>6, <1>7, <1>8, <2>3, <3>1 DEF BtKnown
  <2>. QED  BY <2>2, <2>3
<1>. QED  BY <1>1, <1>2, <1>4, <1>8, <1>10 DEF BtHeld, Asking

(* ... or reads one more position. *)
LEMMA HeldAfterConsume ==
  ASSUME BlocksInv, ProtocolInv', CountsSound', Next, LzConsume
  PROVE  BtHeld' /\ ItemSound' /\ L'.k <= L'.lim
<1>1. /\ pc["lz"] \in {"run", "have"} /\ pc'["lz"] = "run" /\ L.avail > 0
      /\ Streaming /\ Streaming'
  BY ConsumeData DEF BlocksInv, Streaming
<1>2. Running(sync["bt"]) /\ L.result = "none"
  BY <1>1, ConsumeData DEF BlocksInv, BtHeld
<1>3. PICK n, b : n = sync["bt"].num /\ b = BtBlockAt(n - 1)
  OBVIOUS
<1>4. /\ b \in [from : Nat, n : Int, avail : Int] /\ BtPos(b) \in Nat /\ conf.len \in Nat
      /\ L.pos \in Nat /\ n \in Nat /\ L.k \in Nat /\ L.lim \in Int /\ L.avail \in Int
      /\ L.failed \in BOOLEAN /\ none \in Int
  BY <1>3, HeldTyped DEF BlocksInv
<1>5. BtKnown(b) /\ BtBlockSound(b)
  BY <1>1, <1>2, <1>3, HeldBlock DEF BlocksInv, BtHeld
<1>6. /\ Running(sync'["bt"]) /\ sync'["bt"].num = n
      /\ BtBlockAt(sync["bt"].num - 1)' = b
      /\ BtPos(BtBlockAt(sync["bt"].num - 1))' = BtPos(b)
  BY <1>1, <1>2, <1>3, HeldStays DEF BlocksInv
<1>7. /\ L'.slot = L.slot /\ L'.lim = L.lim /\ L'.failed = L.failed /\ L'.result = L.result
      /\ L'.k = L.k + 1 /\ L'.avail = L.avail - 1 /\ L'.pos = L.pos + 1
      /\ L'.item = IF L.failed THEN none ELSE btBuf[L.slot].from + L.k
  BY ConsumeData DEF BlocksInv
<1>8. conf' = conf
  BY WindowFrame
<1>9. BtKnown(BtBlockAt(sync["bt"].num - 1))'
  <2>1. CASE L.failed = TRUE
    BY <1>3, <1>4, <1>5, <1>6, <1>7, <1>8, <2>1 DEF BtKnown
  <2>2. CASE L.failed = FALSE
    BY <1>3, <1>4, <1>5, <1>6, <1>7, <1>8, <2>2 DEF BtKnown
  <2>. QED  BY <1>4, <2>1, <2>2
<1>10. BtHeld'
  BY <1>1, <1>2, <1>6, <1>7, <1>9 DEF BtHeld, Asking
<1>11. ItemSound'
  <2>1. CASE L.failed = TRUE
    BY <1>7, <2>1 DEF ItemSound
  <2>2. CASE L.failed = FALSE
    <3>1. btBuf[L.slot] = b
      BY <1>3, <1>5 DEF BtKnown, BtBlockAt
    <3>2. BtPos(b) = b.from
      BY <1>1, <1>4, <1>5, <2>2 DEF BtKnown, BtPos
    <3>. QED  BY <1>4, <1>5, <1>7, <2>2, <3>1, <3>2 DEF ItemSound, BtKnown
  <2>. QED  BY <1>4, <2>1, <2>2
<1>12. L'.k <= L'.lim
  <2>1. CASE pc["lz"] = "run"
    <3>1. L.k # L.lim /\ L.k <= L.lim
      BY <2>1, ConsumeData DEF BlocksInv, LzRanges
    <3>. QED  BY <1>4, <1>7, <3>1
  <2>2. CASE pc["lz"] = "have"
    <3>1. L.k = 0
      BY <1>1, <2>2 DEF BlocksInv, BtHeld
    <3>2. L.lim >= 1
      <4>1. CASE L.failed = TRUE
        BY <1>5, <4>1 DEF BtKnown
      <4>2. CASE L.failed = FALSE
        <5>1. L.lim = b.n /\ b.n # none /\ b.avail > 0
          BY <1>1, <1>4, <1>5, <3>1, <4>2 DEF BtKnown
        <5>. QED  BY <1>4, <1>5, <5>1 DEF BtBlockSound
      <4>. QED  BY <1>4, <4>1, <4>2
    <3>. QED  BY <1>4, <1>7, <3>1, <3>2
  <2>. QED  BY <1>1, <2>1, <2>2
<1>. QED  BY <1>10, <1>11, <1>12

(* Any other step leaves what the encoder has. *)
LEMMA HeldElse ==
  ASSUME BlocksInv, ProtocolInv', CountsSound', Next, ~MtSync_Init, ~LzGot,
         LzSame, LzMoves
  PROVE  BtHeld'
<1>. SUFFICES ASSUME Streaming' PROVE BtHeld'
  BY DEF BtHeld
<1>1. Streaming /\ BtLive' /\ conf' = conf
  BY StreamSteps DEF BlocksInv
<1>2. /\ L'.slot = L.slot /\ L'.k = L.k /\ L'.lim = L.lim /\ L'.avail = L.avail
      /\ L'.pos = L.pos /\ L'.failed = L.failed /\ L'.result = L.result
  BY DEF LzSame, LzMoves
<1>3. L'.result = "none"
  BY <1>1, <1>2 DEF BlocksInv, BtHeld
<1>4. /\ SyncTypes /\ ThreadsInv /\ sync["bt"] \in SyncRec /\ sync'["bt"] \in SyncRec
      /\ pc["lz"] \in LzPlaces
  BY ObjectFacts DEF BlocksInv, ProtocolInv, ThreadsInv, SyncTypes
<1>5. SyncStep("bt") =>
        pc["lz"] \in Asking \cup {"next"} /\ pc'["lz"] \in Asking \cup {"next"}
  <2>. SUFFICES ASSUME SyncStep("bt")
                PROVE  pc["lz"] \in Asking \cup {"next"} /\ pc'["lz"] \in Asking \cup {"next"}
    OBVIOUS
  <2>1. pc["lz"] \in Calls /\ pc'["lz"] \in Calls
    BY <1>4, CallFrame, ObjectFacts, Places
  <2>. QED  BY <1>1, <2>1 DEF Streaming, Calls, Asking
<1>6. CASE ~Running(sync'["bt"])
  <2>1. Begin' = Begin
    BY <1>1, <1>6, IdleDone, BlocksDone DEF BlocksInv
  <2>2. ~Running(sync["bt"])
    <3>1. ~StopWait("bt")
      BY <1>4, Places, ObjectFacts DEF StopWait, Streaming, Asking
    <3>2. ~NextStart("bt") \/ ~Running(sync["bt"])
      BY <1>4, ObjectFacts DEF NextStart, Running, SyncRec
    <3>. QED  BY <1>4, <1>6, <3>1, <3>2, RunningKept, ObjectFacts
  <2>3. /\ L.failed = FALSE /\ L.pos = Begin /\ L.k = L.lim /\ L.avail = 0
        /\ pc["lz"] # "have"
    BY <1>1, <2>2 DEF BlocksInv, BtHeld
  <2>4. pc'["lz"] # "have"
    BY <1>5, <2>3 DEF LzMoves, Asking
  <2>. QED  BY <1>2, <1>3, <1>6, <2>1, <2>3, <2>4 DEF BtHeld
<1>7. CASE Running(sync'["bt"]) /\ ~Running(sync["bt"])
  <2>1. /\ Known("bt")' = 0 /\ BtMade' = 0 /\ pc'["lz"] = "wait0" /\ pc'["bt"] = pc["bt"]
    BY <1>7, BtBegins DEF BlocksInv
  <2>2. Begin' = Begin
    <3>1. ~Done
      BY <2>1 DEF Done
    <3>. QED  BY <1>1, <3>1, BlocksDone DEF BlocksInv
  <2>3. L.failed = FALSE /\ L.pos = Begin /\ L.k = L.lim
    BY <1>1, <1>7 DEF BlocksInv, BtHeld
  <2>4. BtAt(Known("bt"))' = Begin
    <3>1. PICK z : z = Known("bt")' /\ z = 0
      BY <2>1
    <3>2. BtAt(z)' = Begin'
      BY <2>1, <3>1 DEF BtAt
    <3>. QED  BY <2>2, <3>1, <3>2, AtNow
  <2>. QED  BY <1>2, <1>3, <1>7, <2>1, <2>3, <2>4 DEF BtHeld
<1>8. CASE Running(sync'["bt"]) /\ Running(sync["bt"])
  <2>1. CASE pc'["lz"] \in {"run", "have"}
    <3>1. pc'["lz"] = pc["lz"]
      BY <1>5, <2>1 DEF LzMoves, Asking
    <3>2. PICK n, b : n = sync["bt"].num /\ b = BtBlockAt(n - 1)
      OBVIOUS
    <3>3. BtKnown(b) /\ (pc["lz"] = "have" => L.k = 0)
      BY <1>1, <1>8, <2>1, <3>1, <3>2 DEF BlocksInv, BtHeld
    <3>4. /\ sync'["bt"].num = n
          /\ BtBlockAt(sync["bt"].num - 1)' = b
          /\ BtPos(BtBlockAt(sync["bt"].num - 1))' = BtPos(b)
      BY <1>8, <2>1, <3>1, <3>2, HeldStays DEF BlocksInv
    <3>5. BtKnown(BtBlockAt(sync["bt"].num - 1))'
      BY <1>1, <1>2, <3>2, <3>3, <3>4 DEF BtKnown
    <3>. QED  BY <1>2, <1>3, <1>8, <2>1, <3>1, <3>3, <3>5 DEF BtHeld, Asking
  <2>2. CASE pc'["lz"] \in Asking \cup {"next"}
    <3>1. pc["lz"] \in Asking \cup {"next"}
      BY <1>5, <2>2 DEF LzMoves
    <3>2. L.failed = FALSE /\ L.k = L.lim /\ L.pos = BtAt(Known("bt"))
      BY <1>1, <1>8, <3>1 DEF BlocksInv, BtHeld
    <3>3. /\ BtMade \in Nat /\ Known("bt") \in Nat /\ Oldest("bt") \in Int
          /\ Oldest("bt") <= Known("bt") /\ Known("bt") <= BtMade
      BY <1>8, BtRange DEF BlocksInv, CountsSound
    <3>4. Known("bt")' = Known("bt")
      <4>1. BtStays \/ BtGrows
        BY <1>8, BtCounts DEF BlocksInv, CountsSound, BtTaken
      <4>. QED  BY <4>1 DEF BtStays, BtGrows
    <3>5. Known("bt") < BtMade \/ B.failed = FALSE
      BY <1>1, <3>2 DEF BlocksInv, FailSound, ProtocolInv, DataTypes, BtRec
    <3>6. PICK n \in Nat : n = Known("bt") /\ n = Known("bt")'
      BY <3>3, <3>4
    <3>7. BtAt(n)' = BtAt(n)
      <4>1. /\ n \in Int /\ Oldest("bt") <= n /\ n <= BtMade
            /\ n < BtMade \/ B.failed = FALSE
        BY <3>3, <3>5, <3>6
      <4>. QED  BY <1>8, <4>1, BtAtKept DEF BlocksInv
    <3>8. L'.pos = BtAt(Known("bt"))'
      BY <1>2, <3>2, <3>6, <3>7, AtNow
    <3>. QED  BY <1>2, <1>3, <1>8, <2>2, <3>2, <3>8 DEF BtHeld, Asking
  <2>. QED  BY <2>1, <2>2 DEF Streaming
<1>. QED  BY <1>6, <1>7, <1>8
(* The encoder gets the blocks in order, and each of their positions. *)
LEMMA EncoderKept ==
  ASSUME BlocksInv, ProtocolInv', CountsSound', Next
  PROVE  BtHeld' /\ ItemSound' /\ LzRanges'
<1>1. /\ L.k \in Nat /\ L.lim \in Int /\ L.avail \in Int /\ L.pos \in Nat
      /\ L.failed \in BOOLEAN /\ conf.len \in Nat /\ conf' = conf
  BY HeldTyped, WindowFrame DEF BlocksInv
<1>2. ItemSound /\ 0 <= L.k /\ L.k <= L.lim /\ 0 <= L.avail
      /\ (L.result = "ok" => L.pos = conf.len)
  BY DEF BlocksInv, LzRanges
<1>3. CASE MtSync_Init
  <2>1. L' = InitL /\ Begin' = 0 /\ ~Running(sync'["bt"]) /\ pc'["lz"] = "run"
    BY <1>3, StreamBegins DEF BlocksInv
  <2>2. /\ L'.failed = FALSE /\ L'.pos = 0 /\ L'.k = 0 /\ L'.lim = 0 /\ L'.avail = 0
        /\ L'.result = "none" /\ L'.item = none
    BY <2>1 DEF InitL
  <2>. QED  BY <2>1, <2>2 DEF BtHeld, ItemSound, LzRanges, Asking
<1>4. CASE LzNext
  <2>1. BtHeld'
    BY <1>4, HeldAfterNext
  <2>2. /\ L'.avail = L.avail /\ L'.pos = L.pos /\ L'.item = L.item /\ L'.result = L.result
        /\ L.failed = TRUE => L'.k = 0 /\ L'.lim = 1
        /\ L.failed = FALSE => L'.k = L.k /\ L'.lim = L.lim
    BY <1>4, NextData DEF BlocksInv
  <2>. QED  BY <1>1, <1>2, <2>1, <2>2 DEF ItemSound, LzRanges
<1>5. CASE LzGot
  <2>1. BtHeld'
    BY <1>5, HeldAfterGot
  <2>2. PICK b : b = BtBlockAt(sync["bt"].num - 1)
    OBVIOUS
  <2>3. /\ Running(sync["bt"]) /\ pc["lz"] \in {"lock", "lock0"}
        /\ L'.k = 0 /\ L'.avail = b.avail
        /\ L'.lim = (IF b.n = none THEN 1 ELSE b.n)
        /\ L'.pos = L.pos /\ L'.item = L.item /\ L'.result = L.result
    BY <1>5, <2>2, TakenData DEF BlocksInv
  <2>4. BtBlockSound(b)
    BY <2>2, <2>3, HeldBlock DEF Streaming, Asking
  <2>5. b \in [from : Nat, n : Int, avail : Int]
    BY <2>2, HeldTyped DEF BlocksInv
  <2>6. 0 <= L'.avail /\ 0 <= L'.lim
    BY <2>3, <2>4, <2>5 DEF BtBlockSound
  <2>. QED  BY <1>1, <1>2, <2>1, <2>3, <2>6 DEF ItemSound, LzRanges
<1>6. CASE LzConsume
  <2>1. BtHeld' /\ ItemSound' /\ L'.k <= L'.lim
    BY <1>6, HeldAfterConsume
  <2>2. /\ L'.k = L.k + 1 /\ L'.avail = L.avail - 1 /\ L.avail > 0
        /\ L'.result = L.result /\ Streaming
    BY <1>6, ConsumeData DEF BlocksInv, Streaming
  <2>3. L.result = "none"
    BY <2>2 DEF BlocksInv, BtHeld
  <2>. QED  BY <1>1, <1>2, <2>1, <2>2, <2>3 DEF LzRanges
<1>7. CASE LzEnd \/ LzAbort
  <2>1. /\ ~Streaming'
        /\ L'.k = L.k /\ L'.lim = L.lim /\ L'.avail = L.avail /\ L'.pos = L.pos
        /\ L'.item = L.item
    BY <1>7, EndData DEF BlocksInv
  <2>2. BtHeld' /\ ItemSound'
    BY <1>2, <2>1 DEF BtHeld, ItemSound
  <2>3. ASSUME L'.result = "ok" PROVE L.pos = conf.len
    <3>1. /\ L.failed = FALSE /\ L.avail = 0
          /\ pc["lz"] = "have" \/ (pc["lz"] = "run" /\ L.k # L.lim)
      BY <1>7, <2>3, EndData DEF BlocksInv
    <3>2. Streaming /\ Running(sync["bt"])
      BY <3>1 DEF BlocksInv, BtHeld, Streaming
    <3>3. PICK b : b = BtBlockAt(sync["bt"].num - 1)
      OBVIOUS
    <3>4. BtKnown(b) /\ BtBlockSound(b)
      BY <3>1, <3>2, <3>3, HeldBlock DEF BlocksInv, BtHeld
    <3>5. b \in [from : Nat, n : Int, avail : Int] /\ BtPos(b) \in Nat /\ none < 0 /\ none \in Int
      BY <3>3, HeldTyped DEF BlocksInv
    <3>6. b.n # none /\ L.lim = b.n /\ L.pos = BtPos(b) + L.k /\ b.avail = L.k
      BY <1>1, <3>1, <3>4, <3>5 DEF BtKnown
    <3>7. b.n = b.avail /\ BtPos(b) + b.n = conf.len
      BY <1>1, <1>2, <3>4, <3>5, <3>6 DEF BtBlockSound
    <3>. QED  BY <3>6, <3>7
  <2>. QED  BY <1>1, <1>2, <2>1, <2>2, <2>3 DEF LzRanges
<1>8. CASE LzSame /\ LzMoves /\ ~MtSync_Init /\ ~LzGot
  <2>1. BtHeld'
    BY <1>8, HeldElse
  <2>. QED  BY <1>1, <1>2, <1>8, <2>1 DEF LzSame, ItemSound, LzRanges
<1>. QED  BY <1>3, <1>4, <1>5, <1>6, <1>7, <1>8, LzData DEF BlocksInv

(*------------------------------- the invariant ------------------------------*)

(* Nothing is handed on before the threads are created ... *)
LEMMA BlocksInit == Init => BlocksInv
<1>. SUFFICES ASSUME Init PROVE BlocksInv
  OBVIOUS
<1>1. ProtocolInv
  BY ProtocolInit
<1>2. /\ pc["lz"] = "create" /\ pc["bt"] = "none" /\ B = InitB /\ L = InitL
      /\ mf = NewWindow(conf) /\ mf.origin = 0
  BY DEF Init, NewWindow, MatchFinder_Create
<1>3. ~Running(sync["hash"]) /\ ~Running(sync["bt"])
  BY ObjectFacts DEF Init, MtSync_Construct, Running
<1>4. ~Streaming /\ ~BtLive /\ ~Filling
  BY <1>2 DEF Streaming, BtLive, Filling, Working, Asking
<1>5. CountsSound /\ HashChain /\ HashHeld /\ BtChain
  BY <1>3 DEF CountsSound, HashChain, HashHeld, BtChain
<1>6. BtCursor /\ FailSound /\ BtHeld
  BY <1>4 DEF BtCursor, FailSound, BtHeld
<1>7. StartedSound /\ BtRanges
  BY <1>2, <1>4, Numbers, MtAssumption DEF StartedSound, BtRanges, InitB
<1>8. LzRanges /\ ItemSound /\ PointersSound
  BY <1>2 DEF LzRanges, ItemSound, PointersSound, InitB, InitL, none
<1>. QED  BY <1>1, <1>5, <1>6, <1>7, <1>8 DEF BlocksInv

(* ... and every step of the three threads keeps what was handed on in order. *)
LEMMA BlocksNext == BlocksInv /\ [Next]_vars => BlocksInv'
<1>. SUFFICES ASSUME BlocksInv, [Next]_vars PROVE BlocksInv'
  OBVIOUS
<1>1. ProtocolInv'
  BY ProtocolNext DEF BlocksInv
<1>2. CASE Next
  <2>1. CountsSound'
    BY <1>1, <1>2, CountsKept DEF BlocksInv
  <2>2. HashChain' /\ HashHeld'
    BY <1>1, <1>2, ChainKept, HashHeldKept DEF BlocksInv
  <2>3. StartedSound' /\ PointersSound'
    BY <1>2, StartedKept, PointersKept DEF BlocksInv, ProtocolInv
  <2>4. BtRanges' /\ BtCursor'
    BY <1>1, <1>2, <2>1, BtRangesKept, CursorKept DEF BlocksInv
  <2>5. BtChain' /\ FailSound'
    BY <1>1, <1>2, <2>1, BtChainKept, FailKept DEF BlocksInv
  <2>6. BtHeld' /\ ItemSound' /\ LzRanges'
    BY <1>1, <1>2, <2>1, EncoderKept
  <2>. QED  BY <1>1, <2>1, <2>2, <2>3, <2>4, <2>5, <2>6 DEF BlocksInv
<1>3. CASE UNCHANGED vars
  <2>1. CountsSound' /\ HashChain' /\ HashHeld'
    <3>1. CountsSound'
      BY <1>3 DEF vars, BlocksInv, CountsSound, HashCounted, BtCounted, HashMade, Got
    <3>2. HashMade' = HashMade /\ Oldest("hash")' = Oldest("hash")
      BY <1>3 DEF vars, HashMade, Oldest, Got
    <3>3. ASSUME NEW j PROVE HashBlock(j)' = HashBlock(j)
      BY <1>3 DEF vars, HashBlock
    <3>4. ASSUME NEW j PROVE HashAt(j)' = HashAt(j)
      BY <1>3, <3>2, <3>3 DEF vars, HashAt
    <3>5. HashChain'
      <4>. SUFFICES ASSUME Running(sync'["hash"]), NEW k \in (Oldest("hash") .. HashMade - 1)'
                    PROVE  /\ HeadsFor(HashBlock(k).from, HashBlock(k).avail, HashBlock(k).n)'
                           /\ HashAt(k + 1)' = (HashBlock(k).from
                                                + Span(HashBlock(k).avail, HashBlock(k).n))'
        BY DEF HashChain
      <4>1. k \in Oldest("hash") .. HashMade - 1 /\ sync' = sync /\ HashChain
        BY <1>3, <3>2 DEF vars, BlocksInv
      <4>2. /\ HeadsFor(HashBlock(k).from, HashBlock(k).avail, HashBlock(k).n)
            /\ HashAt(k + 1) = HashBlock(k).from + Span(HashBlock(k).avail, HashBlock(k).n)
        BY <4>1 DEF HashChain
      <4>. QED  BY <1>3, <3>3, <3>4, <4>2 DEF vars, HeadsFor, Span
    <3>6. HashHeld'
      <4>1. HashBlock(sync["hash"].num - 1)' = HashBlock(sync["hash"].num - 1)
        BY <1>3 DEF vars, HashBlock
      <4>2. HashHeld /\ sync' = sync /\ pc' = pc /\ B' = B
        BY <1>3 DEF vars, BlocksInv
      <4>3. PICK h : h = HashBlock(sync["hash"].num - 1)
        OBVIOUS
      <4>. QED  BY <4>1, <4>2, <4>3, Zenon DEF HashHeld, Running
    <3>. QED  BY <3>1, <3>5, <3>6
  <2>2. HashNext' = HashNext /\ BtLive' = BtLive /\ Filling' = Filling /\ Streaming' = Streaming
    BY <1>3 DEF vars, HashNext, HashAt, HashBlock, HashMade, Known, Got, BtLive, Streaming, Filling
  <2>3. StartedSound' /\ PointersSound' /\ BtRanges'
    BY <1>3, <2>2 DEF vars, BlocksInv, StartedSound, PointersSound, BtRanges
  <2>4. BtCursor'
    BY <1>3, <2>2 DEF vars, BlocksInv, BtCursor, CursorSound, FillingSound
  <2>5. Begin' = Begin /\ BtMade' = BtMade /\ Oldest("bt")' = Oldest("bt")
        /\ Known("bt")' = Known("bt")
    BY <1>3, <2>2 DEF vars, Begin, BtMade, Oldest, Known, Got
  <2>6. ASSUME NEW j PROVE BtBlockAt(j)' = BtBlockAt(j)
                           /\ BtPos(BtBlockAt(j))' = BtPos(BtBlockAt(j))
    BY <1>3 DEF vars, BtBlockAt, BtPos
  <2>7. ASSUME NEW j PROVE BtAt(j)' = BtAt(j) /\ BtBlockSound(BtBlockAt(j))' =
                             BtBlockSound(BtBlockAt(j))
    BY <1>3, <2>5, <2>6 DEF vars, BtAt, BtBlockSound
  <2>8. BtChain'
    BY <1>3, <2>2, <2>5, <2>6, <2>7 DEF vars, BlocksInv, BtChain
  <2>9. FailSound'
    BY <1>3, <2>2, <2>5, <2>6 DEF vars, BlocksInv, FailSound
  <2>10. BtHeld' /\ ItemSound' /\ LzRanges'
    <3>1. BtKnown(BtBlockAt(sync["bt"].num - 1))' = BtKnown(BtBlockAt(sync["bt"].num - 1))
      BY <1>3, <2>6 DEF vars, BtKnown
    <3>2. BtAt(Known("bt"))' = BtAt(Known("bt"))
      BY <2>5, <2>7, AtNow
    <3>. QED  BY <1>3, <2>2, <2>5, <3>1, <3>2 DEF vars, BlocksInv, BtHeld, ItemSound, LzRanges
  <2>. QED  BY <1>1, <2>1, <2>3, <2>4, <2>8, <2>9, <2>10 DEF BlocksInv
<1>. QED  BY <1>2, <1>3
(* BtFillBlock, MtSync_GetNextBlock and the encoder's calls: the blocks of the *)
(* two rings follow each other through the whole stream, none is written while *)
(* somebody still has it, and each of the three threads is where its block     *)
(* says.                                                                       *)
THEOREM BlocksInvariant == Spec => []BlocksInv
<1>. QED  BY BlocksInit, BlocksNext, PTL DEF Spec

(* The matches are looked for at the head's own position (GetMatchesSpecN_2).  *)
LEMMA HeadsInOrder ==
  ASSUME BlocksInv, pc["bt"] = "match"
  PROVE  hashBuf[B.slot].from + B.hpos = B.pos
<1>1. Running(sync["hash"])
  BY DEF BlocksInv, StartedSound
<1>2. PICK k, h :
        /\ k = sync["hash"].num - 1 /\ k \in Int /\ h = HashBlock(k)
        /\ B.slot = k % kMtHashNumBlocks /\ B.hlim = h.n
        /\ h.avail >= NumHashBytes => B.pos = h.from + B.hpos
  <2>1. sync["hash"].num - 1 \in Int
    BY ObjectFacts DEF BlocksInv, ProtocolInv, ThreadsInv, SyncTypes, SyncRec
  <2>. QED  BY <1>1, <2>1 DEF BlocksInv, HashHeld, Working, Asking
<1>3. /\ Oldest("hash") = k /\ k < HashMade /\ HashMade \in Nat
  BY <1>1, <1>2, HashRange DEF BlocksInv, CountsSound, Working, Asking
<1>4. h \in [from : Nat, n : Nat, avail : Nat]
  <2>1. k % kMtHashNumBlocks \in HashSlots
    <3>1. k \in Int
      BY <1>2
    <3>. QED  BY <3>1, Slots
  <2>. QED  BY <1>2, <2>1 DEF HashBlock, BlocksInv, ProtocolInv, DataTypes
<1>5. HeadsFor(h.from, h.avail, h.n)
  <2>1. k \in Oldest("hash") .. HashMade - 1
    BY <1>2, <1>3
  <2>. QED  BY <1>1, <1>2, <2>1 DEF BlocksInv, HashChain
<1>6. B.hpos # B.hlim /\ 0 <= B.hpos /\ B.hpos <= B.hlim /\ B.hpos \in Int
  BY DEF BlocksInv, BtCursor, CursorSound, BtLive, Working, BtRanges, ProtocolInv, DataTypes,
         BtRec
<1>7. h.avail >= NumHashBytes
  <2>1. h.n # 0
    BY <1>2, <1>4, <1>6
  <2>. QED  BY <1>4, <1>5, <2>1, MtAssumption DEF HeadsFor
<1>8. h = hashBuf[B.slot]
  BY <1>2 DEF HashBlock
<1>. QED  BY <1>2, <1>7, <1>8

(* The two rings of blocks (MtSync_GetNextBlock): every block is handed on     *)
(* once, in order and within its size, and no message through a semaphore is   *)
(* lost.                                                                       *)
THEOREM BlocksAreHandedOn == Spec => []BlocksHandedOn
<1>1. BlocksInv => BlocksHandedOn
  <2>. SUFFICES ASSUME BlocksInv PROVE BlocksHandedOn
    OBVIOUS
  <2>1. BlocksInOrder
    BY HeadsInOrder DEF BlocksInOrder, BlocksInv, ItemSound
  <2>2. BlockFits
    BY DEF BlockFits, BlocksInv, BtRanges
  <2>3. ReleasesCounted
    BY ObjectFacts
       DEF BlocksInv, ProtocolInv, ThreadsInv, ObjectSound, IdleSound, ReleasesCounted
  <2>4. ASSUME NEW o \in Objects
        PROVE  /\ sync[o].free \in 0..NumBlocks(o) /\ sync[o].filled \in 0..NumBlocks(o)
               /\ sync[o].cs \in {"none", "hash", Client(o)}
    <3>1. /\ sync[o].free \in Nat /\ sync[o].filled \in Nat /\ NumBlocks(o) \in Nat
      BY Numbers, ObjectFacts DEF BlocksInv, ProtocolInv, ThreadsInv, SyncTypes, SyncRec
    <3>2. sync[o].free + sync[o].filled <= NumBlocks(o)
      BY ObjectFacts DEF BlocksInv, ProtocolInv, ThreadsInv, ObjectSound, IdleSound
    <3>3. sync[o].cs \in {"none", "hash", Client(o)}
      BY DEF BlocksInv, ProtocolInv, ThreadsInv, SectionsSound
    <3>. QED  BY <3>1, <3>2, <3>3
  <2>5. L.k \in 0..L.lim /\ L.avail >= 0 /\ L.result \in {"none", "ok", "error"}
    BY HeldTyped DEF BlocksInv, LzRanges, ProtocolInv, DataTypes, LzRec
  <2>6. B.hpos \in 0..B.hlim
    BY DEF BlocksInv, BtRanges, ProtocolInv, DataTypes, BtRec
  <2>7. mf.buffer >= 0
    BY DEF BlocksInv, ProtocolInv, WindowInv, WindowFor, WindowSound, WindowRec
  <2>8. MtTypeOK
    BY <2>4, <2>5, <2>6, <2>7 DEF MtTypeOK
  <2>. QED  BY <2>1, <2>2, <2>3, <2>8 DEF BlocksHandedOn
<1>. QED  BY <1>1, BlocksInvariant, PTL

(* MatchFinder_MoveBlock under both critical sections: the pointers into the   *)
(* window that the two other threads read through are good.                    *)
THEOREM PointersAreStable == Spec => []PointersStable
<1>1. BlocksInv => PointersStable
  <2>. SUFFICES ASSUME BlocksInv PROVE PointersStable
    OBVIOUS
  <2>1. /\ mf.origin \in Int /\ L.ptr \in Int /\ L.pos \in Int
    BY DEF BlocksInv, ProtocolInv, DataTypes, LzRec, WindowInv, WindowFor, WindowSound, WindowRec
  <2>. QED  BY <2>1 DEF BlocksInv, PointersSound, PointersStable
<1>. QED  BY <1>1, BlocksInvariant, PTL

(* MatchFinderMt_GetNumAvailableBytes: the bytes that the encoder is told of   *)
(* are in the stream and in its block, and it is told of none only at the end. *)
THEOREM AvailIsHonest == Spec => []AvailHonest
<1>1. BlocksInv => AvailHonest
  <2>. SUFFICES ASSUME BlocksInv PROVE AvailHonest
    OBVIOUS
  <2>1. /\ L.k \in Nat /\ L.lim \in Int /\ L.avail \in Int /\ L.pos \in Nat
        /\ L.failed \in BOOLEAN /\ conf.len \in Nat /\ none < 0 /\ none \in Int
    BY HeldTyped DEF BlocksInv
  <2>2. PICK b : b = BtBlockAt(sync["bt"].num - 1)
    OBVIOUS
  <2>3. b \in [from : Nat, n : Int, avail : Int] /\ BtPos(b) \in Nat
    BY <2>2, HeldTyped DEF BlocksInv
  <2>4. ASSUME pc["lz"] \in {"have", "run"}
        PROVE  /\ L.avail <= conf.len - L.pos
               /\ pc["lz"] = "have" /\ L.avail > 0 => L.k < L.lim
    <3>1. Streaming
      BY <2>4 DEF Streaming
    <3>2. CASE Running(sync["bt"])
      <4>1. BtKnown(b) /\ BtBlockSound(b) /\ (pc["lz"] = "have" => L.k = 0)
        BY <2>2, <2>4, <3>1, <3>2, HeldBlock DEF BlocksInv, BtHeld
      <4>2. CASE L.failed = TRUE
        BY <2>1, <4>1, <4>2 DEF BtKnown
      <4>3. CASE L.failed = FALSE
        <5>1. /\ b.n # none /\ L.lim = b.n /\ L.pos = BtPos(b) + L.k
              /\ L.avail = b.avail - L.k
          BY <4>1, <4>3 DEF BtKnown
        <5>2. L.avail <= conf.len - L.pos
          BY <2>1, <2>3, <4>1, <5>1 DEF BtBlockSound
        <5>3. pc["lz"] = "have" /\ L.avail > 0 => L.k < L.lim
          BY <2>1, <2>3, <4>1, <5>1 DEF BtBlockSound
        <5>. QED  BY <5>2, <5>3
      <4>. QED  BY <2>1, <4>2, <4>3
    <3>3. CASE ~Running(sync["bt"])
      <4>1. L.pos = Begin /\ L.avail = 0 /\ pc["lz"] # "have"
        BY <3>1, <3>3 DEF BlocksInv, BtHeld
      <4>2. B.pos \in Nat /\ B.hnum \in Int /\ B.pos + B.hnum <= conf.len /\ 0 <= B.hnum
        BY <3>1 DEF BlocksInv, BtCursor, CursorSound, BtLive, ProtocolInv, DataTypes, BtRec
      <4>3. ~Filling
        BY <3>3, StoppingFacts DEF Filling, Asking, BlocksInv, ProtocolInv
      <4>4. Begin = conf.len \/ Begin = B.pos
        BY <4>3 DEF Begin
      <4>. QED  BY <2>1, <4>1, <4>2, <4>4
    <3>. QED  BY <3>2, <3>3
  <2>. QED  BY <2>4 DEF AvailHonest, BlocksInv, LzRanges
<1>. QED  BY <1>1, BlocksInvariant, PTL
(*---------------------------- what is kept behind ---------------------------*)

(* How far the window is past each block of heads that is not given back, as   *)
(* long as it may still be moved: no more than the blocks since then hold.     *)
HashLag ==
  Running(sync["hash"]) /\ mf.ended = FALSE =>
    /\ \A k \in Oldest("hash") .. HashMade - 1 : HashBlock(k).avail >= NumHashBytes
    /\ \A k \in Oldest("hash") .. HashMade :
         At(mf) - HashAt(k) <= (HashMade - k) * kMtHashBlockSize

(* The bt thread has seen all heads up to the ones it waits for. *)
BtBehind ==
  BtLive /\ mf.ended = FALSE => B.pos + (B.hlim - B.hpos) >= HashNext

(* The same for the bt thread and the blocks of matches. *)
Start == IF Filling THEN B.from ELSE B.pos

StartAt(k) == IF k < BtMade THEN BtBlockAt(k).from ELSE Start

BtLag ==
  Streaming /\ Running(sync["bt"]) =>
    \A k \in Oldest("bt") .. BtMade :
      /\ StartAt(k) <= Start
      /\ Start - StartAt(k) <= (BtMade - k) * kMtBtBlockSize

(* The history of both is still in the window. *)
BtHistory == BtLive => mf.origin = 0 \/ mf.origin + HistorySize <= B.pos

LzHistory == Streaming => mf.origin = 0 \/ mf.origin + HistorySize + kNumOpts <= L.pos

(* What so many blocks hold. *)
LEMMA Blocks ==
  ASSUME NEW m \in Nat, NEW n \in Nat, NEW size \in Nat
  PROVE  /\ (m + 1) * size = m * size + size /\ 0 * size = 0
         /\ m * size \in Nat
         /\ m <= n => m * size <= n * size
<1>1. (m + 1) * size = m * size + size /\ 0 * size = 0 /\ m * size \in Nat
  OBVIOUS
<1>2. ASSUME m <= n PROVE m * size <= n * size
  <2>1. PICK d \in Nat : n = m + d
    <3>1. n - m \in Nat /\ n = m + (n - m)
      BY <1>2
    <3>. QED  BY <3>1
  <2>2. n * size = m * size + d * size /\ d * size \in Nat /\ m * size \in Nat
    BY <2>1
  <2>. QED  BY <2>2
<1>. QED  BY <1>1, <1>2

(* Within a stream the end is seen once and for all, and the window moves only *)
(* before that. *)
LEMMA WindowSteps ==
  ASSUME ProtocolInv, ProtocolInv', Next, ~MtSync_Init
  PROVE  /\ mf'.ended = FALSE => mf.ended = FALSE
         /\ mf'.origin = mf.origin \/
              (/\ HashMove /\ mf.ended = FALSE
               /\ mf'.origin <= At(mf) - Before /\ mf'.origin \in Nat)
         /\ At(mf') = At(mf) \/ HashFill
<1>1. WindowSound(mf) /\ mf.ended \in BOOLEAN /\ mf.keepBefore = Before
  BY DEF ProtocolInv, WindowInv, WindowFor, WindowSound, WindowRec
<1>2. CASE HashMove
  <2>1. MoveKeeps(mf, mf') /\ mf.ended = FALSE
    <3>1. /\ MatchFinder_NeedMove(mf) /\ mf' = MatchFinder_MoveBlock(mf)
      BY <1>2 DEF HashMove, ProtocolInv, WindowInv
    <3>2. mf.direct = FALSE /\ mf.ended = FALSE
      BY <1>1, <3>1 DEF MatchFinder_NeedMove, WindowSound, WindowRec
    <3>3. mf.blockSize = GetBlockSize(mf.keepBefore, mf.keepAfter)
      BY <3>2 DEF ProtocolInv, WindowInv, WindowFor
    <3>. QED  BY <1>1, <3>1, <3>2, <3>3, MoveFacts
  <2>2. mf'.origin <= At(mf) - Before /\ mf'.origin \in Nat /\ At(mf') = At(mf)
    BY <1>1, <2>1 DEF MoveKeeps, At, WindowSound, WindowRec
  <2>. QED  BY <1>2, <2>1, <2>2 DEF MoveKeeps
<1>3. CASE HashFill
  BY <1>3, FillFacts DEF ProtocolInv
<1>. QED  BY <1>2, <1>3, WindowFrame

(* A block of heads is made for the positions before the window's. *)
LEMMA HashLagKept ==
  ASSUME ProtocolInv, ProtocolInv', Next, CountsSound, HashLag
  PROVE  HashLag'
<1>. SUFFICES ASSUME Running(sync'["hash"]), mf'.ended = FALSE
              PROVE  /\ \A k \in (Oldest("hash") .. HashMade - 1)' :
                          HashBlock(k)'.avail >= NumHashBytes
                     /\ \A k \in (Oldest("hash") .. HashMade)' :
                          At(mf') - HashAt(k)' <= (HashMade' - k) * kMtHashBlockSize
  BY DEF HashLag
<1>1. kMtHashBlockSize \in Nat /\ At(mf) \in Int /\ At(mf') \in Int
  BY Numbers DEF ProtocolInv, WindowInv, WindowFor, WindowSound, WindowRec, At
<1>2. CASE ~Running(sync["hash"])
  <2>1. HashMade' = 0 /\ Oldest("hash")' = 0
    BY <1>2, HashBegins
  <2>2. ASSUME NEW k, k = 0 PROVE HashAt(k)' = At(mf')
    BY <2>1, <2>2 DEF HashAt
  <2>. QED  BY <1>1, <2>1, <2>2
<1>3. CASE Running(sync["hash"])
  <2>1. HashCounted /\ (HashStays \/ HashGrows \/ HashTaken)
    BY <1>3, HashCounts DEF CountsSound
  <2>2. /\ HashMade \in Nat /\ Oldest("hash") \in Int
    BY <1>3, <2>1, HashRange
  <2>3. ~MtSync_Init
    BY <1>3, InitReady, StoppingFacts, ObjectFacts
       DEF MtSync_Init, ProtocolInv, Running, ThreadsInv, LivesSound
  <2>4. mf.ended = FALSE
    BY <2>3, WindowSteps
  <2>5. ASSUME NEW j \in Int, Oldest("hash") <= j, j < HashMade
        PROVE  HashBlock(j)' = HashBlock(j)
    BY <1>3, <2>1, <2>5, HashBlockKept
  <2>6. /\ \A k \in Oldest("hash") .. HashMade - 1 : HashBlock(k).avail >= NumHashBytes
        /\ \A k \in Oldest("hash") .. HashMade :
             At(mf) - HashAt(k) <= (HashMade - k) * kMtHashBlockSize
    BY <1>3, <2>4 DEF HashLag
  <2>7. CASE HashStays \/ HashTaken
    <3>1. /\ HashMade' = HashMade /\ At(mf') = At(mf)
          /\ Oldest("hash")' = Oldest("hash") \/ Oldest("hash")' = Oldest("hash") + 1
      BY <2>2, <2>7 DEF HashStays, HashTaken
    <3>2. ASSUME NEW k \in (Oldest("hash") .. HashMade)' PROVE HashAt(k)' = HashAt(k)
      BY <2>2, <2>5, <3>1 DEF HashAt
    <3>. QED  BY <2>2, <2>5, <2>6, <3>1, <3>2
  <2>8. CASE HashGrows
    <3>1. PICK a, n \in Nat :
             /\ hashBuf' = [hashBuf EXCEPT ![H % kMtHashNumBlocks] =
                              [from |-> At(mf), n |-> n, avail |-> a]]
             /\ HeadsFor(At(mf), a, n) /\ At(mf') = At(mf) + Span(a, n)
             /\ a >= NumHashBytes
      BY <2>8, FillFacts DEF HashGrows, ProtocolInv
    <3>2. /\ HashMade' = HashMade + 1 /\ Oldest("hash")' = Oldest("hash")
          /\ pc["hash"] = "fill"
      BY <2>8 DEF HashGrows, HashFill
    <3>3. H = HashMade
      <4>1. sync["hash"] \in SyncRec
        BY ObjectFacts DEF ProtocolInv, ThreadsInv, SyncTypes
      <4>2. RunSound(sync["hash"], NumBlocks("hash"), pc["hash"], pc["bt"])
        BY <1>3, ObjectFacts DEF ProtocolInv, ThreadsInv, ObjectSound
      <4>3. sync["hash"].canStart = FALSE
        BY <3>2, <4>1, <4>2 DEF RunSound, SyncRec
      <4>. QED  BY <2>1, <4>3 DEF HashCounted
    <3>4. hashBuf \in [HashSlots -> [from : Nat, n : Nat, avail : Nat]]
      BY DEF ProtocolInv, DataTypes
    <3>5. ASSUME NEW j, j = HashMade
          PROVE  HashBlock(j)' = [from |-> At(mf), n |-> n, avail |-> a]
      <4>1. H % kMtHashNumBlocks \in HashSlots
        BY <2>2, <3>3, Slots
      <4>. QED  BY <3>1, <3>3, <3>4, <3>5, <4>1 DEF HashBlock
    <3>6. Span(a, n) \in Nat /\ Span(a, n) <= kMtHashBlockSize
      BY <1>1, <3>1 DEF Span, HeadsFor
    <3>7. ASSUME NEW k \in (Oldest("hash") .. HashMade - 1)'
          PROVE  HashBlock(k)'.avail >= NumHashBytes
      <4>1. CASE k = HashMade
        BY <3>1, <3>5, <4>1
      <4>2. CASE k # HashMade
        <5>1. k \in Oldest("hash") .. HashMade - 1
          BY <2>2, <3>2, <4>2
        <5>. QED  BY <2>2, <2>5, <2>6, <5>1
      <4>. QED  BY <4>1, <4>2
    <3>8. ASSUME NEW k \in (Oldest("hash") .. HashMade)'
          PROVE  At(mf') - HashAt(k)' <= (HashMade' - k) * kMtHashBlockSize
      <4>1. k \in Int /\ Oldest("hash") <= k /\ k <= HashMade + 1
        BY <2>2, <3>2
      <4>2. CASE k = HashMade + 1
        <5>1. HashAt(k)' = At(mf')
          BY <2>2, <3>2, <4>2 DEF HashAt
        <5>. QED  BY <1>1, <2>2, <3>2, <4>2, <5>1
      <4>3. CASE k <= HashMade
        <5>1. HashAt(k)' = HashAt(k)
          BY <2>2, <2>5, <3>2, <3>5, <4>1, <4>3 DEF HashAt
        <5>2. PICK m \in Nat : m = HashMade - k
          BY <2>2, <4>1, <4>3
        <5>3. At(mf) - HashAt(k) <= m * kMtHashBlockSize
          BY <2>2, <2>6, <4>1, <4>3, <5>2
        <5>4. HashAt(k) \in Int
          <6>1. k % kMtHashNumBlocks \in HashSlots
            BY <4>1, Slots
          <6>. QED  BY <1>1, <3>4, <6>1 DEF HashAt, HashBlock
        <5>5. (m + 1) * kMtHashBlockSize = m * kMtHashBlockSize + kMtHashBlockSize
              /\ m * kMtHashBlockSize \in Nat
          BY <1>1, <5>2, Blocks
        <5>6. HashMade' - k = m + 1
          BY <2>2, <3>2, <4>1, <5>2
        <5>. QED  BY <1>1, <3>1, <3>6, <5>1, <5>3, <5>4, <5>5, <5>6
      <4>. QED  BY <2>2, <4>1, <4>2, <4>3
    <3>. QED  BY <3>7, <3>8
  <2>. QED  BY <2>1, <2>7, <2>8
<1>. QED  BY <1>2, <1>3
(* Until the window has seen the end of the stream the bt thread waits for no  *)
(* heads before those it was given. *)
LEMMA BtBehindKept ==
  ASSUME ProtocolInv, ProtocolInv', Next, CountsSound, HashChain, HashLag, BtCursor, BtBehind
  PROVE  BtBehind'
<1>. SUFFICES ASSUME BtLive', mf'.ended = FALSE
              PROVE  B'.pos + (B'.hlim - B'.hpos) >= HashNext'
  BY DEF BtBehind
<1>1. /\ SyncTypes /\ ThreadsInv /\ B \in BtRec
      /\ B.pos \in Int /\ B.hpos \in Int /\ B.hlim \in Int /\ HashNext \in Int
  BY HashNextTyped DEF ProtocolInv, ThreadsInv, DataTypes, BtRec
<1>2. CASE MtSync_Init
  <2>1. B' = InitB /\ mf' = NewWindow(conf) /\ pc["bt"] = "start" /\ pc'["bt"] = "start"
    BY <1>1, <1>2, InitReady, Places DEF MtSync_Init, ProtocolInv
  <2>2. ~Running(sync'["hash"])
    BY <2>1, ObjectFacts DEF ProtocolInv, ThreadsInv, LivesSound
  <2>3. At(mf') = 0
    BY <2>1 DEF NewWindow, MatchFinder_Create, At
  <2>. QED  BY <2>1, <2>2, <2>3 DEF HashNext, InitB
<1>3. CASE ~MtSync_Init
  <2>1. BtLive /\ mf.ended = FALSE
    BY <1>3, LiveKept, WindowSteps DEF ProtocolInv
  <2>2. B.pos + (B.hlim - B.hpos) >= HashNext
    BY <2>1 DEF BtBehind
  <2>3. BtGot \/ HashNext' = HashNext
    BY <1>3, HeadKept
  <2>4. CASE BtFill
    <3>1. HeadSame /\ pc["bt"] = "fill"
      BY <2>4, FillData
    <3>2. ~BtGot
      BY <1>1, <3>1, GotFacts
    <3>. QED  BY <2>2, <2>3, <3>1, <3>2 DEF HeadSame
  <2>5. CASE BtMatch
    <3>1. /\ pc["bt"] = "match" /\ B'.hlim = B.hlim
          /\ \/ B'.pos = B.pos /\ B'.hpos = B.hpos
             \/ B'.pos = B.pos + 1 /\ B'.hpos = B.hpos + 1
      BY <2>5, MatchData
    <3>2. ~BtGot
      BY <1>1, <3>1, GotFacts
    <3>. QED  BY <1>1, <2>2, <2>3, <3>1, <3>2
  <2>6. CASE BtGot
    <3>1. PICK h : h = HashBlock(sync["hash"].num - 1)
      OBVIOUS
    <3>2. B'.pos = B.pos /\ B'.hpos = 0 /\ B'.hlim = h.n
      BY <2>6, <3>1, GotData
    <3>3. pc["bt"] \in {"lock", "lock0"} /\ Running(sync["hash"])
      BY <1>1, <2>6, GotFacts
    <3>4. HashNext = h.from /\ HashNext' = h.from + Span(h.avail, h.n)
      BY <1>3, <2>6, <3>1, HeadKept
    <3>5. B.hpos = B.hlim
      BY <2>1, <3>3 DEF BtCursor, CursorSound, Asking
    <3>6. /\ h.avail >= NumHashBytes /\ h \in [from : Nat, n : Nat, avail : Nat]
      <4>1. /\ Oldest("hash") <= Known("hash") /\ Known("hash") < HashMade
            /\ Known("hash") = sync["hash"].num - 1 /\ HashMade \in Nat /\ Oldest("hash") \in Int
            /\ Known("hash") \in Int
        BY <3>3, HashRange DEF CountsSound
      <4>2. sync["hash"].num - 1 \in Oldest("hash") .. HashMade - 1
        BY <4>1
      <4>3. (sync["hash"].num - 1) % kMtHashNumBlocks \in HashSlots
        BY <4>1, Slots
      <4>. QED  BY <2>1, <3>1, <3>3, <4>2, <4>3
                DEF HashLag, HashBlock, ProtocolInv, DataTypes
    <3>7. HashNext' = h.from + h.n
      BY <3>4, <3>6 DEF Span
    <3>. QED  BY <1>1, <2>2, <3>2, <3>4, <3>5, <3>6, <3>7
  <2>7. CASE HeadSame /\ ~BtGot
    BY <2>2, <2>3, <2>7 DEF HeadSame
  <2>. QED  BY <1>3, <2>4, <2>5, <2>6, <2>7, BtData
<1>. QED  BY <1>2, <1>3

(* A block of matches begins where the bt thread began to fill it, and has no  *)
(* more positions than numbers fit. *)
LEMMA StartKept ==
  ASSUME ProtocolInv, ProtocolInv', Next, ~MtSync_Init, CountsSound, HashChain, HashHeld,
         StartedSound, BtRanges, BtCursor, BtLive'
  PROVE  \/ ~Done /\ btBuf' = btBuf /\ Start' = Start
         \/ /\ Done /\ Start <= Start' /\ Start' <= Start + kMtBtBlockSize
            /\ \E b : BlockDone(b) /\ b.from = Start
<1>1. /\ SyncTypes /\ ThreadsInv /\ pc["bt"] \in BtPlaces /\ B \in BtRec
      /\ B.pos \in Nat /\ B.from \in Nat /\ B.used \in Int /\ B.done \in Nat
      /\ B.failed \in BOOLEAN /\ B.bi \in Nat /\ kMtBtBlockSize \in Nat
      /\ btBuf \in [BtSlots -> [from : Nat, n : Int, avail : Int]]
  BY Numbers DEF ProtocolInv, ThreadsInv, SyncTypes, DataTypes, BtRec
<1>2. ASSUME NEW n, NEW avail, NEW from, Done, from = Start,
             btBuf' = [btBuf EXCEPT ![B.bi % kMtBtNumBlocks] =
                         [from |-> from, n |-> n, avail |-> avail]]
      PROVE  \E b : BlockDone(b) /\ b.from = Start
  <2>1. PICK b : BlockDone(b)
    BY <1>2, BlocksDone
  <2>2. B.bi % kMtBtNumBlocks \in BtSlots
    BY <1>1, Slots
  <2>3. btBuf'[B.bi % kMtBtNumBlocks] = b
    BY <1>1, <2>1, <2>2 DEF BlockDone
  <2>4. btBuf'[B.bi % kMtBtNumBlocks] = [from |-> from, n |-> n, avail |-> avail]
    BY <1>1, <1>2, <2>2
  <2>. QED  BY <1>2, <2>1, <2>3, <2>4
<1>3. ASSUME Filling PROVE B.from <= B.pos /\ B.pos <= B.from + kMtBtBlockSize
  BY <1>1, <1>3 DEF BtCursor, FillingSound, BtRanges
<1>4. CASE BtFill
  <2>1. /\ HeadSame /\ B'.from = B.pos
        /\ pc["bt"] = "fill" /\ pc'["bt"] = IF B.failed THEN "unlock" ELSE "get"
    BY <1>4, FillData
  <2>2. ~Filling /\ Start = B.pos /\ Start' = B.pos
    BY <2>1 DEF Filling, Asking, Start, HeadSame
  <2>3. CASE B.failed = TRUE
    <3>1. /\ btBuf' = [btBuf EXCEPT ![B.bi % kMtBtNumBlocks] =
                         [from |-> B.pos, n |-> none, avail |-> B.hnum]]
          /\ Done
      BY <1>4, <2>1, <2>3 DEF BtFill, Done
    <3>2. \E b : BlockDone(b) /\ b.from = Start
      BY <1>2, <2>2, <3>1
    <3>3. Start <= Start' /\ Start' <= Start + kMtBtBlockSize
      BY <1>1, <2>2
    <3>. QED  BY <3>1, <3>2, <3>3
  <2>4. CASE B.failed = FALSE
    BY <1>4, <2>1, <2>2, <2>4 DEF BtFill, Done
  <2>. QED  BY <1>1, <2>3, <2>4
<1>5. CASE BtMatch
  <2>1. /\ pc["bt"] = "match" /\ B'.from = B.from
        /\ pc'["bt"] \in {"unlock", "get"}
    BY <1>5, MatchData
  <2>2. Filling /\ Start = B.from
    BY <2>1 DEF Filling, Start
  <2>3. CASE B.pos = conf.failAt
    <3>1. /\ btBuf' = [btBuf EXCEPT ![B.bi % kMtBtNumBlocks] =
                         [from |-> B.from, n |-> none, avail |-> B.avail]]
          /\ Done /\ B'.pos = B.pos /\ pc'["bt"] = "unlock"
      BY <1>1, <1>5, <2>1, <2>3, Places DEF BtMatch, BtBlock, Done, BtRec
    <3>2. Start' = B.pos
      BY <3>1 DEF Start, Filling, Asking
    <3>. QED  BY <1>2, <1>3, <2>2, <3>1, <3>2
  <2>4. CASE B.pos # conf.failAt
    <3>1. btBuf' = btBuf /\ ~Done /\ pc'["bt"] = "get"
      BY <1>1, <1>5, <2>1, <2>4, Places DEF BtMatch, Done
    <3>. QED  BY <2>1, <2>2, <3>1 DEF Start, Filling
  <2>. QED  BY <2>3, <2>4
<1>6. CASE BtGot
  <2>1. PICK h : h = HashBlock(sync["hash"].num - 1)
    OBVIOUS
  <2>2. /\ B'.from = B.from /\ B'.pos = B.pos
        /\ h.avail >= NumHashBytes => pc'["bt"] = "get"
        /\ ~(h.avail >= NumHashBytes) => pc'["bt"] = "unlock"
    BY <1>6, <2>1, GotData
  <2>3. pc["bt"] \in {"lock", "lock0"} /\ Filling /\ Start = B.from
    BY <1>1, <1>6, GotFacts DEF Filling, Asking, Start
  <2>4. h = hashBuf[BlockIndex("hash")]
    <3>1. BlockIndex("hash") = (sync["hash"].num - 1) % kMtHashNumBlocks
      BY <1>1, <1>6, GotFacts, HashRange DEF CountsSound
    <3>. QED  BY <2>1, <3>1 DEF HashBlock
  <2>5. CASE h.avail >= NumHashBytes
    BY <1>6, <2>2, <2>3, <2>4, <2>5 DEF BtGot, Start, Filling, Done
  <2>6. CASE ~(h.avail >= NumHashBytes)
    <3>1. /\ btBuf' = [btBuf EXCEPT ![B.bi % kMtBtNumBlocks] =
                         [from |-> B.from, n |-> B.done + h.avail,
                          avail |-> AvailSum(B.done, h.avail)]]
          /\ Done
      BY <1>6, <2>2, <2>3, <2>4, <2>6 DEF BtGot, BtBlock, Done
    <3>2. Start' = B.pos
      BY <2>2, <2>6 DEF Start, Filling, Asking
    <3>. QED  BY <1>2, <1>3, <2>3, <3>1, <3>2
  <2>. QED  BY <2>5, <2>6
<1>7. CASE HeadSame /\ FillSame /\ BtMoves /\ ~BtFill /\ ~BtGot /\ ~BtMatch /\ ~BtFull
  <2>1. btBuf' = btBuf /\ ~Done
    BY <1>7, BtFrame
  <2>2. Filling' <=> Filling
    BY <1>7 DEF Filling, BtMoves, Asking
  <2>. QED  BY <1>7, <2>1, <2>2 DEF HeadSame, FillSame, Start
<1>8. CASE BtFull /\ HeadSame /\ FillSame
  <2>1. /\ btBuf' = [btBuf EXCEPT ![B.bi % kMtBtNumBlocks] =
                       [from |-> B.from, n |-> B.done, avail |-> B.avail]]
        /\ Done /\ pc["bt"] = "get" /\ pc'["bt"] = "unlock"
    BY <1>1, <1>8, Places DEF BtFull, BtBlock, Done
  <2>2. Filling /\ Start = B.from /\ Start' = B.pos
    BY <1>8, <2>1 DEF Start, Filling, Asking, HeadSame
  <2>. QED  BY <1>2, <1>3, <2>1, <2>2
<1>. QED  BY <1>4, <1>5, <1>6, <1>7, <1>8, BtData
(* The bt thread is past a block of matches by no more than the blocks since   *)
(* then hold. *)
LEMMA BtLagKept ==
  ASSUME ProtocolInv, ProtocolInv', Next, CountsSound, HashChain, HashHeld, StartedSound,
         BtRanges, BtCursor, BtLag
  PROVE  BtLag'
<1>. SUFFICES ASSUME Streaming', Running(sync'["bt"]), NEW k \in (Oldest("bt") .. BtMade)'
              PROVE  /\ StartAt(k)' <= Start'
                     /\ Start' - StartAt(k)' <= (BtMade' - k) * kMtBtBlockSize
  BY DEF BtLag
<1>1. kMtBtBlockSize \in Nat /\ Start \in Int /\ Start' \in Int
  BY Numbers DEF ProtocolInv, DataTypes, BtRec, Start
<1>2. CASE ~Running(sync["bt"])
  <2>1. BtMade' = 0 /\ Oldest("bt")' = 0
    BY <1>2, BtBegins
  <2>2. k = 0 /\ StartAt(k)' = Start'
    BY <2>1 DEF StartAt
  <2>. QED  BY <1>1, <2>1, <2>2
<1>3. CASE Running(sync["bt"])
  <2>1. ~MtSync_Init /\ Streaming /\ BtLive'
    BY StreamSteps
  <2>2. /\ BtCounted /\ BtMade \in Nat /\ Oldest("bt") \in Int
        /\ BtStays \/ BtGrows \/ BtTaken
    BY <1>3, BtCounts, BtRange DEF CountsSound
  <2>3. ASSUME NEW j \in Int, Oldest("bt") <= j, j <= BtMade
        PROVE  /\ StartAt(j) <= Start /\ StartAt(j) \in Int
               /\ Start - StartAt(j) <= (BtMade - j) * kMtBtBlockSize
    <3>1. j \in Oldest("bt") .. BtMade
      BY <2>2, <2>3
    <3>2. j % kMtBtNumBlocks \in BtSlots
      BY <2>3, Slots
    <3>3. BtBlockAt(j).from \in Int
      BY <3>2 DEF BtBlockAt, ProtocolInv, DataTypes
    <3>4. StartAt(j) \in Int
      BY <1>1, <3>3 DEF StartAt
    <3>. QED  BY <1>3, <2>1, <3>1, <3>4 DEF BtLag
  <2>4. CASE ~Done
    <3>1. btBuf' = btBuf /\ Start' = Start
      BY <2>1, <2>4, StartKept
    <3>2. /\ BtMade' = BtMade
          /\ Oldest("bt")' = Oldest("bt") \/ Oldest("bt")' = Oldest("bt") + 1
      BY <2>2, <2>4 DEF BtStays, BtGrows, BtTaken
    <3>3. StartAt(k)' = StartAt(k)
      BY <3>1, <3>2 DEF StartAt, BtBlockAt
    <3>4. k \in Int /\ Oldest("bt") <= k /\ k <= BtMade
      BY <2>2, <3>2
    <3>. QED  BY <2>3, <3>1, <3>2, <3>3, <3>4
  <2>5. CASE Done
    <3>1. Start <= Start' /\ Start' <= Start + kMtBtBlockSize
      BY <2>1, <2>5, StartKept
    <3>2. PICK b : BlockDone(b) /\ b.from = Start
      BY <2>1, <2>5, StartKept
    <3>3. BtMade' = BtMade + 1 /\ Oldest("bt")' = Oldest("bt")
      BY <2>2, <2>5 DEF BtStays, BtGrows, BtTaken
    <3>4. k \in Int /\ Oldest("bt") <= k /\ k <= BtMade + 1
      BY <2>2, <3>3
    <3>5. /\ k = BtMade => BtBlockAt(k)' = b
          /\ k < BtMade => BtBlockAt(k)' = BtBlockAt(k)
      BY <1>3, <2>2, <2>5, <3>2, <3>4, BtBlockKept
    <3>6. CASE k = BtMade + 1
      <4>1. StartAt(k)' = Start'
        BY <2>2, <3>3, <3>6 DEF StartAt
      <4>. QED  BY <1>1, <2>2, <3>3, <3>6, <4>1
    <3>7. CASE k <= BtMade
      <4>1. StartAt(k)' = StartAt(k)
        BY <2>2, <3>2, <3>3, <3>4, <3>5, <3>7 DEF StartAt
      <4>2. /\ StartAt(k) <= Start /\ StartAt(k) \in Int
            /\ Start - StartAt(k) <= (BtMade - k) * kMtBtBlockSize
        BY <2>3, <3>4, <3>7
      <4>3. PICK m \in Nat : m = BtMade - k /\ BtMade' - k = m + 1
        BY <2>2, <3>3, <3>4, <3>7
      <4>4. (m + 1) * kMtBtBlockSize = m * kMtBtBlockSize + kMtBtBlockSize
            /\ m * kMtBtBlockSize \in Nat
        BY <1>1, <4>3, Blocks
      <4>. QED  BY <1>1, <3>1, <4>1, <4>2, <4>3, <4>4
    <3>. QED  BY <2>2, <3>4, <3>6, <3>7
  <2>. QED  BY <2>4, <2>5
<1>. QED  BY <1>2, <1>3

(* When the window is moved, all three threads are at work for a stream. *)
LEMMA MovedWhileLive ==
  ASSUME BlocksInv, HashMove
  PROVE  /\ Running(sync["hash"])
         /\ Streaming => Running(sync["bt"])
         /\ BtLive => pc["bt"] \in Working
<1>1. /\ ThreadsInv /\ pc["hash"] = "move" /\ pc["bt"] \in BtPlaces
  BY DEF BlocksInv, ProtocolInv, ThreadsInv, SyncTypes, HashMove
<1>2. Running(sync["hash"])
  BY <1>1, StoppingFacts
<1>3. pc["bt"] \notin {"none", "start", "dead", "stopped"}
  BY <1>1, <1>2 DEF ThreadsInv, LivesSound
<1>4. Running(sync["bt"])
  BY <1>1, <1>3, StoppingFacts
<1>5. BtLive => pc["bt"] \in Working
  <2>1. pc["bt"] \in {"stop", "stop2", "stop3"} => ~Streaming
    BY <1>1, StoppingFacts DEF Streaming, Asking
  <2>2. pc["bt"] \in Working \cup {"stop", "stop2", "stop3"}
    BY <1>1, <1>3 DEF BtPlaces, Calls, Working, Asking
  <2>. QED  BY <2>1, <2>2 DEF BtLive, Working, Asking
<1>. QED  BY <1>2, <1>4, <1>5

(* The hash thread is then ahead of the bt thread by no more than its blocks   *)
(* hold ... *)
LEMMA BtNear ==
  ASSUME BlocksInv, HashLag, BtBehind, HashMove, mf.ended = FALSE, BtLive
  PROVE  At(mf) <= B.pos + kMtHashBlockSize * kMtHashNumBlocks
<1>1. /\ B.pos \in Nat /\ B.hpos \in Int /\ B.hlim \in Int /\ B.hpos >= 0
      /\ At(mf) \in Int /\ kMtHashBlockSize \in Nat /\ kMtHashNumBlocks \in Nat
  BY Numbers
     DEF BlocksInv, BtRanges, ProtocolInv, DataTypes, BtRec, WindowInv, WindowFor, WindowSound,
         WindowRec, At
<1>2. Running(sync["hash"]) /\ pc["bt"] \in Working
  BY MovedWhileLive
<1>3. /\ HashMade \in Nat /\ Known("hash") \in Nat /\ Oldest("hash") \in Int
      /\ Oldest("hash") <= Known("hash") /\ Known("hash") <= HashMade
      /\ HashMade - Oldest("hash") <= kMtHashNumBlocks
  BY <1>2, HashRange DEF BlocksInv, CountsSound
<1>4. ASSUME NEW k \in Int, Oldest("hash") <= k, k <= HashMade
      PROVE  HashAt(k) \in Int /\ At(mf) <= HashAt(k) + kMtHashBlockSize * kMtHashNumBlocks
  <2>1. HashAt(k) \in Int
    <3>1. k % kMtHashNumBlocks \in HashSlots
      BY <1>4, Slots
    <3>. QED  BY <1>1, <3>1 DEF HashAt, HashBlock, BlocksInv, ProtocolInv, DataTypes
  <2>2. At(mf) - HashAt(k) <= (HashMade - k) * kMtHashBlockSize
    <3>1. k \in Oldest("hash") .. HashMade
      BY <1>3, <1>4
    <3>. QED  BY <1>2, <3>1 DEF HashLag
  <2>3. PICK m \in Nat : m = HashMade - k /\ m <= kMtHashNumBlocks
    BY <1>1, <1>3, <1>4
  <2>4. /\ m * kMtHashBlockSize <= kMtHashNumBlocks * kMtHashBlockSize
        /\ m * kMtHashBlockSize \in Nat
    BY <1>1, <2>3, Blocks
  <2>5. kMtHashNumBlocks * kMtHashBlockSize = kMtHashBlockSize * kMtHashNumBlocks
        /\ kMtHashBlockSize * kMtHashNumBlocks \in Nat
    BY <1>1
  <2>. QED  BY <1>1, <2>1, <2>2, <2>3, <2>4, <2>5
<1>5. kMtHashBlockSize * kMtHashNumBlocks \in Nat
  BY <1>1
<1>6. CASE pc["bt"] \in Asking
  <2>1. B.hpos = B.hlim
    BY <1>6 DEF BlocksInv, BtCursor, CursorSound
  <2>2. B.pos >= HashNext
    BY <1>1, <2>1 DEF BtBehind
  <2>3. HashNext = HashAt(Known("hash"))
    BY <1>2 DEF HashNext
  <2>4. /\ HashAt(Known("hash")) \in Int
        /\ At(mf) <= HashAt(Known("hash")) + kMtHashBlockSize * kMtHashNumBlocks
    BY <1>3, <1>4
  <2>. QED  BY <1>1, <1>5, <2>2, <2>3, <2>4
<1>7. CASE pc["bt"] \notin Asking
  <2>1. Oldest("hash") = sync["hash"].num - 1 /\ Oldest("hash") < HashMade
    BY <1>2, <1>7, HashRange DEF BlocksInv, CountsSound
  <2>2. PICK k \in Int : k = Oldest("hash")
    BY <1>3
  <2>3. HashBlock(k).avail >= NumHashBytes
    <3>1. k \in Oldest("hash") .. HashMade - 1
      BY <1>3, <2>1, <2>2
    <3>. QED  BY <1>2, <3>1 DEF HashLag
  <2>4. B.pos = HashBlock(k).from + B.hpos
    BY <1>2, <1>7, <2>1, <2>2, <2>3 DEF BlocksInv, HashHeld
  <2>5. HashAt(k) = HashBlock(k).from
    BY <2>1, <2>2 DEF HashAt
  <2>6. HashAt(k) \in Int /\ At(mf) <= HashAt(k) + kMtHashBlockSize * kMtHashNumBlocks
    BY <1>3, <1>4, <2>1, <2>2
  <2>. QED  BY <1>1, <1>5, <2>4, <2>5, <2>6
<1>. QED  BY <1>6, <1>7
(* ... and the bt thread is ahead of the encoder by no more than its own do.   *)
LEMMA LzNear ==
  ASSUME BlocksInv, BtLag, HashMove, Streaming
  PROVE  B.pos <= L.pos + kMtBtBlockSize * kMtBtNumBlocks
<1>1. /\ B.pos \in Nat /\ B.from \in Nat /\ B.used \in Int /\ B.done \in Nat
      /\ L.pos \in Nat /\ L.k \in Nat /\ conf.len \in Nat /\ B.hnum \in Int
      /\ kMtBtBlockSize \in Nat /\ kMtBtNumBlocks \in Nat
      /\ kMtBtBlockSize * kMtBtNumBlocks \in Nat
      /\ kMtBtNumBlocks * kMtBtBlockSize = kMtBtBlockSize * kMtBtNumBlocks
  <2>1. kMtBtBlockSize \in Nat /\ kMtBtNumBlocks \in Nat
    BY Numbers
  <2>2. /\ kMtBtBlockSize * kMtBtNumBlocks \in Nat
        /\ kMtBtNumBlocks * kMtBtBlockSize = kMtBtBlockSize * kMtBtNumBlocks
    BY <2>1
  <2>3. L.pos \in Nat /\ L.k \in Nat /\ conf.len \in Nat
    BY HeldTyped DEF BlocksInv
  <2>. QED  BY <2>1, <2>2, <2>3 DEF BlocksInv, ProtocolInv, DataTypes, BtRec
<1>2. Running(sync["bt"]) /\ BtLive /\ pc["bt"] \in Working
  BY MovedWhileLive DEF BtLive
<1>3. /\ BtMade \in Nat /\ Known("bt") \in Nat /\ Oldest("bt") \in Int
      /\ Oldest("bt") <= Known("bt") /\ Known("bt") <= BtMade
      /\ BtMade - Oldest("bt") <= kMtBtNumBlocks
  BY <1>2, BtRange DEF BlocksInv, CountsSound
<1>4. /\ Filling => /\ B.from <= B.pos /\ B.pos <= B.from + kMtBtBlockSize
                    /\ BtMade - Oldest("bt") < kMtBtNumBlocks
      /\ B.pos <= conf.len
  <2>1. B.pos <= conf.len
    BY <1>1, <1>2 DEF BlocksInv, BtCursor, CursorSound
  <2>2. ASSUME Filling PROVE B.from <= B.pos /\ B.pos <= B.from + kMtBtBlockSize
    BY <1>1, <2>2 DEF BlocksInv, BtCursor, FillingSound, BtRanges
  <2>3. ASSUME Filling PROVE BtMade - Oldest("bt") < kMtBtNumBlocks
    <3>1. pc["bt"] \notin {"start", "loop", "unlock", "post"}
      BY <2>3 DEF Filling, Asking
    <3>. QED  BY <1>2, <3>1, BtRange DEF BlocksInv, CountsSound
  <2>. QED  BY <2>1, <2>2, <2>3
<1>5. Start \in Nat /\ Start <= B.pos /\ Start <= Begin /\ Begin \in Nat
  BY <1>1, <1>4 DEF Start, Begin
<1>6. ASSUME NEW j \in Int, Oldest("bt") <= j, j <= BtMade
      PROVE  B.pos <= BtAt(j) + kMtBtBlockSize * kMtBtNumBlocks /\ BtAt(j) \in Int
  <2>1. /\ StartAt(j) <= Start
        /\ Start - StartAt(j) <= (BtMade - j) * kMtBtBlockSize
    <3>1. j \in Oldest("bt") .. BtMade
      BY <1>3, <1>6
    <3>. QED  BY <1>2, <3>1 DEF BtLag
  <2>2. StartAt(j) \in Int /\ BtBlockAt(j).from \in Int
    <3>1. j % kMtBtNumBlocks \in BtSlots
      BY <1>6, Slots
    <3>2. BtBlockAt(j).from \in Int
      BY <3>1 DEF BtBlockAt, BlocksInv, ProtocolInv, DataTypes
    <3>. QED  BY <1>5, <3>2 DEF StartAt
  <2>3. StartAt(j) <= BtAt(j) /\ BtAt(j) \in Int
    BY <1>1, <1>4, <1>5, <2>1, <2>2 DEF StartAt, BtAt, BtPos
  <2>4. PICK m \in Nat : m = BtMade - j /\ m <= kMtBtNumBlocks
    BY <1>1, <1>3, <1>6
  <2>5. /\ m * kMtBtBlockSize \in Nat
        /\ (m + 1) * kMtBtBlockSize = m * kMtBtBlockSize + kMtBtBlockSize
        /\ m * kMtBtBlockSize <= kMtBtNumBlocks * kMtBtBlockSize
        /\ m + 1 <= kMtBtNumBlocks =>
             (m + 1) * kMtBtBlockSize <= kMtBtNumBlocks * kMtBtBlockSize
    <3>1. /\ m * kMtBtBlockSize \in Nat
          /\ (m + 1) * kMtBtBlockSize = m * kMtBtBlockSize + kMtBtBlockSize
          /\ m * kMtBtBlockSize <= kMtBtNumBlocks * kMtBtBlockSize
      BY <1>1, <2>4, Blocks
    <3>2. m + 1 <= kMtBtNumBlocks =>
             (m + 1) * kMtBtBlockSize <= kMtBtNumBlocks * kMtBtBlockSize
      <4>1. m + 1 \in Nat
        BY <2>4
      <4>. QED  BY <1>1, <4>1, Blocks
    <3>. QED  BY <3>1, <3>2
  <2>6. B.pos - StartAt(j) <= kMtBtBlockSize * kMtBtNumBlocks
    <3>1. CASE Filling
      <4>1. m + 1 <= kMtBtNumBlocks
        BY <1>1, <1>3, <1>4, <1>6, <2>4, <3>1
      <4>2. B.pos <= Start + kMtBtBlockSize
        BY <1>4, <3>1 DEF Start
      <4>. QED  BY <1>1, <1>5, <2>1, <2>2, <2>4, <2>5, <4>1, <4>2
    <3>2. CASE ~Filling
      <4>1. Start = B.pos
        BY <3>2 DEF Start
      <4>. QED  BY <1>1, <1>5, <2>1, <2>2, <2>4, <2>5, <4>1
    <3>. QED  BY <3>1, <3>2
  <2>. QED  BY <1>1, <2>2, <2>3, <2>6
<1>7. CASE pc["lz"] \in Asking \cup {"next"}
  <2>1. PICK j \in Int : j = Known("bt")
    BY <1>3
  <2>2. L.pos = BtAt(j)
    BY <1>2, <1>7, <2>1 DEF BlocksInv, BtHeld
  <2>. QED  BY <1>3, <1>6, <2>1, <2>2
<1>8. CASE pc["lz"] \in {"run", "have"}
  <2>1. PICK j \in Int : j = sync["bt"].num - 1 /\ j = Oldest("bt") /\ j < BtMade
    BY <1>2, <1>3, <1>8, BtRange DEF BlocksInv, CountsSound
  <2>2. BtKnown(BtBlockAt(sync["bt"].num - 1))
    BY <1>2, <1>8 DEF BlocksInv, BtHeld
  <2>3. L.pos >= BtPos(BtBlockAt(sync["bt"].num - 1))
    <3>1. L.failed \in BOOLEAN /\ BtPos(BtBlockAt(sync["bt"].num - 1)) \in Nat
      BY HeldTyped DEF BlocksInv
    <3>. QED  BY <1>1, <2>2, <3>1 DEF BtKnown
  <2>4. BtAt(j) = BtPos(BtBlockAt(sync["bt"].num - 1))
    BY <2>1 DEF BtAt
  <2>5. B.pos <= BtAt(j) + kMtBtBlockSize * kMtBtNumBlocks /\ BtAt(j) \in Int
    BY <1>3, <1>6, <2>1
  <2>. QED  BY <1>1, <2>3, <2>4, <2>5
<1>. QED  BY <1>7, <1>8 DEF Streaming
(* Neither of them ever goes back within a stream. *)
LEMMA Forward ==
  ASSUME BlocksInv, Next, ~MtSync_Init
  PROVE  B'.pos >= B.pos /\ L'.pos >= L.pos
<1>1. B.pos \in Int /\ L.pos \in Int /\ ProtocolInv /\ CountsSound
  BY DEF BlocksInv, ProtocolInv, DataTypes, BtRec, LzRec
<1>2. B'.pos >= B.pos
  <2>1. CASE BtFill
    <3>1. B'.pos = B.pos
      BY <1>1, <2>1, FillData DEF HeadSame
    <3>. QED  BY <1>1, <3>1
  <2>2. CASE BtGot
    <3>1. B'.pos = B.pos
      BY <1>1, <2>2, GotData
    <3>. QED  BY <1>1, <3>1
  <2>3. CASE BtMatch
    <3>1. B'.pos = B.pos \/ B'.pos = B.pos + 1
      BY <1>1, <2>3, MatchData
    <3>. QED  BY <1>1, <3>1
  <2>4. CASE HeadSame
    BY <1>1, <2>4 DEF HeadSame
  <2>. QED  BY <1>1, <2>1, <2>2, <2>3, <2>4, BtData
<1>3. L'.pos >= L.pos
  <2>1. CASE LzNext
    BY <1>1, <2>1, NextData
  <2>2. CASE LzGot
    BY <1>1, <2>2, TakenData
  <2>3. CASE LzConsume
    BY <1>1, <2>3, ConsumeData
  <2>4. CASE LzEnd \/ LzAbort
    <3>1. L'.pos = L.pos
      BY <1>1, <2>4, EndData
    <3>. QED  BY <1>1, <3>1
  <2>5. CASE LzSame
    BY <1>1, <2>5 DEF LzSame
  <2>. QED  BY <1>1, <2>1, <2>2, <2>3, <2>4, <2>5, LzData
<1>. QED  BY <1>2, <1>3

(* So what MatchFinderMt_Create keeps is enough for both. *)
LEMMA HistoriesKept ==
  ASSUME BlocksInv, BlocksInv', Next, HashLag, BtBehind, BtLag, BtHistory, LzHistory
  PROVE  BtHistory' /\ LzHistory'
<1>1. /\ B.pos \in Int /\ L.pos \in Int /\ B'.pos \in Int /\ L'.pos \in Int
      /\ mf.origin \in Int /\ mf'.origin \in Int /\ At(mf) \in Int
      /\ HistorySize \in Nat /\ kNumOpts \in Nat
      /\ kMtHashBlockSize * kMtHashNumBlocks \in Nat
      /\ kMtBtBlockSize * kMtBtNumBlocks \in Nat
      /\ Before = HistorySize + (kNumOpts + kMtHashBlockSize * kMtHashNumBlocks
                                           + kMtBtBlockSize * kMtBtNumBlocks) + 1
  <2>1. /\ kMtHashBlockSize * kMtHashNumBlocks \in Nat
        /\ kMtBtBlockSize * kMtBtNumBlocks \in Nat
    BY Numbers
  <2>. QED  BY <2>1, Numbers
            DEF BlocksInv, ProtocolInv, DataTypes, BtRec, LzRec, WindowInv, WindowFor,
                WindowSound, WindowRec, At, Before
<1>2. CASE MtSync_Init
  <2>1. mf'.origin = 0
    <3>1. mf' = NewWindow(conf) /\ conf \in Confs
      BY <1>2, InitReady DEF MtSync_Init, BlocksInv, ProtocolInv, DataTypes
    <3>. QED  BY <3>1, NewWindowFacts
  <2>. QED  BY <2>1 DEF BtHistory, LzHistory
<1>3. CASE ~MtSync_Init
  <2>1. /\ BtLive' => BtLive
        /\ Streaming' => Streaming
    BY <1>3, LiveKept DEF BlocksInv, ProtocolInv
  <2>2. B'.pos >= B.pos /\ L'.pos >= L.pos
    BY <1>3, Forward
  <2>3. CASE mf'.origin = mf.origin
    BY <1>1, <2>1, <2>2, <2>3 DEF BtHistory, LzHistory
  <2>4. CASE HashMove /\ mf.ended = FALSE /\ mf'.origin <= At(mf) - Before
    <3>1. ASSUME BtLive'
          PROVE  /\ At(mf) <= B.pos + kMtHashBlockSize * kMtHashNumBlocks
                 /\ mf'.origin + HistorySize <= B'.pos
      <4>1. At(mf) <= B.pos + kMtHashBlockSize * kMtHashNumBlocks
        BY <2>1, <2>4, <3>1, BtNear
      <4>. QED  BY <1>1, <2>2, <2>4, <4>1
    <3>2. ASSUME Streaming' PROVE mf'.origin + HistorySize + kNumOpts <= L'.pos
      <4>1. At(mf) <= B.pos + kMtHashBlockSize * kMtHashNumBlocks
        BY <2>1, <2>4, <3>2, BtNear DEF BtLive
      <4>2. B.pos <= L.pos + kMtBtBlockSize * kMtBtNumBlocks
        BY <2>1, <2>4, <3>2, LzNear
      <4>. QED  BY <1>1, <2>2, <2>4, <4>1, <4>2
    <3>. QED  BY <3>1, <3>2 DEF BtHistory, LzHistory
  <2>. QED  BY <1>3, <2>3, <2>4, WindowSteps DEF BlocksInv
<1>. QED  BY <1>2, <1>3

(* The history that the two threads behind the window still need. *)
HistoryInv == BlocksInv /\ HashLag /\ BtBehind /\ BtLag /\ BtHistory /\ LzHistory

LEMMA HistoryInit == Init => HistoryInv
<1>. SUFFICES ASSUME Init PROVE HistoryInv
  OBVIOUS
<1>1. BlocksInv
  BY BlocksInit
<1>2. ~Running(sync["hash"]) /\ ~Running(sync["bt"])
  BY ObjectFacts DEF Init, MtSync_Construct, Running
<1>3. ~Streaming /\ ~BtLive
  BY DEF Init, Streaming, BtLive, Working, Asking
<1>. QED  BY <1>1, <1>2, <1>3 DEF HistoryInv, HashLag, BtBehind, BtLag, BtHistory, LzHistory

LEMMA HistoryNext == HistoryInv /\ [Next]_vars => HistoryInv'
<1>. SUFFICES ASSUME HistoryInv, [Next]_vars PROVE HistoryInv'
  OBVIOUS
<1>1. BlocksInv /\ BlocksInv'
  BY BlocksNext DEF HistoryInv
<1>2. CASE Next
  <2>1. HashLag'
    BY <1>1, <1>2, HashLagKept DEF HistoryInv, BlocksInv
  <2>2. BtBehind'
    BY <1>1, <1>2, BtBehindKept DEF HistoryInv, BlocksInv
  <2>3. BtLag'
    BY <1>1, <1>2, BtLagKept DEF HistoryInv, BlocksInv
  <2>4. BtHistory' /\ LzHistory'
    BY <1>1, <1>2, HistoriesKept DEF HistoryInv
  <2>. QED  BY <1>1, <2>1, <2>2, <2>3, <2>4 DEF HistoryInv
<1>3. CASE UNCHANGED vars
  <2>1. /\ HashMade' = HashMade /\ Oldest("hash")' = Oldest("hash")
        /\ BtMade' = BtMade /\ Oldest("bt")' = Oldest("bt") /\ Start' = Start
        /\ HashNext' = HashNext /\ BtLive' = BtLive /\ Streaming' = Streaming
    BY <1>3 DEF vars, HashMade, BtMade, Oldest, Got, Start, Filling, HashNext, HashAt, HashBlock,
                Known, BtLive, Streaming
  <2>2. ASSUME NEW j PROVE HashBlock(j)' = HashBlock(j) /\ HashAt(j)' = HashAt(j)
    BY <1>3, <2>1 DEF vars, HashBlock, HashAt
  <2>3. ASSUME NEW j PROVE StartAt(j)' = StartAt(j)
    BY <1>3, <2>1 DEF vars, StartAt, BtBlockAt
  <2>4. HashLag'
    BY <1>3, <2>1, <2>2 DEF vars, HistoryInv, HashLag
  <2>5. BtLag'
    BY <1>3, <2>1, <2>3 DEF vars, HistoryInv, BtLag
  <2>6. BtBehind' /\ BtHistory' /\ LzHistory'
    BY <1>3, <2>1 DEF vars, HistoryInv, BtBehind, BtHistory, LzHistory
  <2>. QED  BY <1>1, <2>4, <2>5, <2>6 DEF HistoryInv
<1>. QED  BY <1>2, <1>3

(* HashThreadFunc 464-480, MatchFinderMt_Create's keepAddBufferBefore: the     *)
(* window is moved only while nobody reads through a pointer into it, and      *)
(* however far the hash thread is ahead, the history that the bt thread and    *)
(* the encoder need is still there, and so are the bytes they were told of.    *)
THEOREM WindowIsStable == Spec => []WindowStable
<1>1. Spec => []HistoryInv
  BY HistoryInit, HistoryNext, PTL DEF Spec
<1>2. HistoryInv => HistoryKept
  <2>. SUFFICES ASSUME HistoryInv PROVE HistoryKept
    OBVIOUS
  <2>1. /\ mf.origin \in Nat /\ B.pos \in Int /\ L.pos \in Int
        /\ HistorySize \in Int /\ kNumOpts \in Int
    BY Numbers
       DEF HistoryInv, BlocksInv, ProtocolInv, DataTypes, BtRec, LzRec, WindowInv, WindowFor,
           WindowSound, WindowRec
  <2>2. ASSUME NEW n \in Int, mf.origin = 0 \/ mf.origin <= n
        PROVE  mf.origin <= Max({0, n})
    <3>1. Max({0, n}) = IF 0 >= n THEN 0 ELSE n
      BY MaxTwo
    <3>. QED  BY <2>1, <2>2, <3>1
  <2>3. ASSUME pc["lz"] \in {"run", "have"}
        PROVE  mf.origin <= Max({0, L.pos - HistorySize - kNumOpts})
    <3>1. mf.origin = 0 \/ mf.origin + HistorySize + kNumOpts <= L.pos
      BY <2>3 DEF HistoryInv, LzHistory, Streaming
    <3>. QED  BY <2>1, <2>2, <3>1
  <2>4. ASSUME pc["bt"] = "match" PROVE mf.origin <= Max({0, B.pos - HistorySize})
    <3>1. mf.origin = 0 \/ mf.origin + HistorySize <= B.pos
      BY <2>4 DEF HistoryInv, BtHistory, BtLive, Working
    <3>. QED  BY <2>1, <2>2, <3>1
  <2>. QED  BY <2>3, <2>4 DEF HistoryKept
<1>. QED  BY <1>1, <1>2, PointersAreStable, AvailIsHonest, PTL DEF WindowStable
=============================================================================
