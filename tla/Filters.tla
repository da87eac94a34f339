------------------------------ MODULE Filters ------------------------------
(* The filters that make literals easier to compress (Bra.c, Bra86.c,        *)
(* Delta.c): they turn the relative targets of branch instructions into      *)
(* absolute ones, or bytes into differences, and back.  A filter is a walk   *)
(* over the buffer; a state of the walk is [d, p, mask]: the bytes, the      *)
(* position and, for x86, what lies just behind it.                          *)
(*                                                                           *)
(* The buffer is the end of a larger one: Base bytes in which no instruction *)
(* is converted come before it.                                              *)
EXTENDS Integers, SequencesExt

CONSTANT Base
ASSUME BaseAssumption == Base \in Nat /\ Base % 16 = 0

At(d, i) == d[i + 1]

Put(d, i, b) == [d EXCEPT ![i + 1] = b]

(* n bits of the buffer from bit number at on, lowest first: what the GetUi32, *)
(* shifts and masks of the code take out of a little endian word.              *)
Bit(v, i) == (v \div 2^i) % 2

Field(d, at, n) == MapThenSumSet(LAMBDA i: 2^i * Bit(At(d, (at + i) \div 8), (at + i) % 8), 0..(n - 1))

PutField(d, at, n, v) ==
  LET a == at \div 8
      b == (at + n - 1) \div 8
      byte(k) == MapThenSumSet(LAMBDA j: LET i == 8 * k + j
                                         IN 2^j * (IF at <= i /\ i < at + n THEN Bit(v, i - at) ELSE Bit(At(d, k), j)),
                               0..7)
  IN SubSeq(d, 1, a) \o [k \in 1..(b - a + 1) |-> byte(a + k - 1)] \o SubSeq(d, b + 2, Len(d))

(* Words of PPC and SPARC are big endian. *)
Swap(d, p) == SubSeq(d, 1, p) \o Reverse(SubSeq(d, p + 1, p + 4)) \o SubSeq(d, p + 5, Len(d))

(* BR_CONVERT_VAL in a field of n bits. *)
Conv(v, c, n, enc) == (IF enc THEN v + c ELSE v - c) % 2^n

(* The instruction at p, converted when it is a branch to a target that fits. *)
ConvARM(d, p, enc) ==
  IF At(d, p + 3) = 235
  THEN PutField(d, 8 * p, 24, Conv(Field(d, 8 * p, 24), (Base + p + 8) \div 4, 24, enc))
  ELSE d

ConvPPC(d, p, enc) ==
  LET w == Swap(d, p)
      at == 8 * p
  IN IF Field(w, at + 26, 6) = 18 /\ Field(w, at, 2) = 1
     THEN Swap(PutField(w, at, 26, Conv(Field(w, at, 26), Base + p, 26, enc)), p)
     ELSE d

ConvSPARC(d, p, enc) ==
  LET w == Swap(d, p)
      at == 8 * p
      v == Conv(Field(w, at, 23), (Base + p) \div 4, 23, enc)
      sign == 255 * Bit(v, 22)
  IN IF Field(w, at + 30, 2) = 1 /\ (Field(w, at + 22, 8) = 0 \/ Field(w, at + 22, 8) = 255)
     THEN Swap(PutField(PutField(w, at, 23, v), at + 22, 8, sign), p)
     ELSE d

ConvARM64(d, p, enc) ==
  LET at == 8 * p
      z == Conv(8 * Field(d, at + 29, 2) + 32 * ((Field(d, at + 5, 19) + 2^15) % 2^16),
                8 * ((Base + p) \div 4096), 21, enc)
  IN CASE Field(d, at + 26, 6) = 37                                    \* BL
            -> PutField(d, at, 26, Conv(Field(d, at, 26), (Base + p) \div 4, 26, enc))
       [] /\ Field(d, at + 24, 5) = 16 /\ Field(d, at + 31, 1) = 1     \* ADRP
          /\ Field(d, at + 20, 4) \in {0, 15}
            -> PutField(PutField(d, at + 29, 2, z \div 8), at + 5, 19, (z \div 32 - 2^15) % 2^19)
       [] OTHER -> d

(* A pair of halfwords; a match is skipped as a whole. *)
StepARMT(s, enc) ==
  LET at == 8 * s.p
      v == Conv(2^11 * Field(s.d, at, 11) + Field(s.d, at + 16, 11), (Base + s.p + 4) \div 2, 22, enc)
  IN IF At(s.d, s.p + 1) \div 8 = 30 /\ At(s.d, s.p + 3) \div 8 = 31
     THEN [s EXCEPT !.d = PutField(PutField(@, at, 11, v \div 2^11), at + 16, 11, v % 2^11), !.p = @ + 4]
     ELSE [s EXCEPT !.p = @ + 2]

(* A bundle: the template tells which of its three slots may hold a branch. *)
FirstSlot(template) ==
  LET t == (template \div 2) % 16
  IN CASE t \in {8, 12, 14} -> 3 [] t = 9 -> 2 [] t = 11 -> 1 [] OTHER -> 4

ConvSlot(d, p, k, enc) ==
  LET z == 8 * (p + 5 * k - 3) + k
      v == Conv(Field(d, z, 21) + 2^21 * Field(d, z + 24, 1), 2 * ((Base + p) \div 16), 22, enc)
  IN IF Field(d, z - 3, 3) = 0 /\ Field(d, z + 25, 4) = 5
     THEN PutField(PutField(d, z, 21, v % 2^21), z + 24, 1, v \div 2^21)
     ELSE d

ConvIA64(d, p, enc) ==
  LET slots == FirstSlot(At(d, p))..3
      c(x, k) == IF k \in slots THEN ConvSlot(x, p, k, enc) ELSE x
  IN c(c(c(d, 1), 2), 3)

(* x86: a call or jump is converted when its target is within 2^24; mask keeps *)
(* where the opcodes of the last three bytes were, so that the decoder does    *)
(* not take part of a converted target for an opcode the encoder passed over.  *)
MsByte(b) == b \in {0, 255}

(* Mutant of MaskStops: the byte that the decoder would see as the top of the  *)
(* target is not looked at.                                                    *)
MaskStopsLess(d, q, k) == k # 0 /\ (k > 4 \/ k = 3)

MaskStops(d, q, k) == k # 0 /\ (k > 4 \/ k = 3 \/ MsByte(At(d, q + k \div 2)))

StepX86(s, enc) ==
  LET ops == {n \in 0..3 : At(s.d, s.p + n) \div 2 = 116}
      n == Min(ops)
      q == s.p + n + 1
      k == IF n = 3 THEN 0 ELSE s.mask \div 2^n
      c == Base + q + 4
      v == Conv(Field(s.d, 8 * q, 24) + (IF At(s.d, q + 3) = 0 THEN 2^24 ELSE 0), c, 25, enc)
      low == 2^(8 * (k \div 2) + 8)
      w == IF k # 0 /\ MsByte((v \div (low \div 256)) % 256)
           THEN Conv((v - (v % low)) + (low - 1 - (v % low)), c, 25, enc) ELSE v
  IN CASE ops = {} -> [s EXCEPT !.p = @ + 4, !.mask = 0]
       [] ops # {} /\ q > Len(s.d) - 4 -> [s EXCEPT !.p = Len(s.d)]
       [] ops # {} /\ q <= Len(s.d) - 4 /\ (MaskStops(s.d, q, k) \/ ~MsByte(At(s.d, q + 3)))
            -> [s EXCEPT !.p = q, !.mask = ((k \div 2) % 4) + 4]
       [] OTHER -> [d |-> Put(PutField(s.d, 8 * q, 24, w % 2^24), q + 3, IF w >= 2^24 THEN 0 ELSE 255),
                    p |-> q + 4, mask |-> 0]

(* RISC-V: JAL with x1 or x5, and AUIPC with the instruction after it.  The    *)
(* pair becomes AUIPC x2 with the absolute target behind it; a pair that looks *)
(* like that already is changed into one that the decoder will change back.    *)
Jal(d, p) == At(d, p) = 239 /\ At(d, p + 1) % 16 \in {0, 2}

Auipc(d, p) == At(d, p) \in {23, 151}

StepJal(s, enc) ==
  LET f(i, n) == Field(s.d, 8 * s.p + i, n)
      plain == 2^20 * f(31, 1) + 2 * f(21, 10) + 2^11 * f(20, 1) + 2^12 * f(12, 8)
      coded == 2^17 * f(12, 4) + 2^9 * f(16, 8) + 2 * f(24, 8)
      v == Conv(IF enc THEN plain ELSE coded, Base + s.p, 21, enc)
      g(d, i, n, x) == PutField(d, 8 * s.p + i, n, x)
  IN [s EXCEPT !.p = @ + 4,
        !.d = IF enc THEN g(g(g(@, 12, 4, v \div 2^17), 16, 8, v \div 2^9), 24, 8, v \div 2)
              ELSE g(g(g(g(@, 31, 1, v \div 2^20), 21, 10, v \div 2), 20, 1, v \div 2^11), 12, 8, v \div 2^12)]

(* The pair and the pair of words it is exchanged with: hi and lo are the      *)
(* upper 20 and lower 12 bits of the absolute target, big endian in the code.  *)
PutTarget(d, p, hi, lo) ==
  Put(Put(Put(Put(d, p, hi \div 2^12), p + 1, (hi \div 16) % 256),
          p + 2, 16 * (hi % 16) + lo \div 256), p + 3, lo % 256)

GetTarget(d, p) ==
  <<2^12 * At(d, p) + 16 * At(d, p + 1) + At(d, p + 2) \div 16,
    256 * (At(d, p + 2) % 16) + At(d, p + 3)>>

(* The lower half of the target is signed. *)
Carry(lo) == lo \div 2^11

StepAuipc(s, enc) ==
  LET f(i, n) == Field(s.d, 8 * s.p + i, n)
      rd == f(7, 5)
      pc == Base + s.p
      pair == rd \notin {0, 2} /\ f(32, 2) = 3 /\ f(47, 5) = rd
      fake == f(0, 14) = 12567 /\ f(27, 5) \notin {0, 2}
      sum == f(52, 12) + (pc % 2^12)
      coded == PutTarget(PutField(PutField(s.d, 8 * s.p, 12, 279), 8 * s.p + 12, 20, f(32, 20)), s.p + 4,
                         (f(12, 20) + pc \div 2^12 + sum \div 2^12 - Carry(f(52, 12))) % 2^20, sum % 2^12)
      t == GetTarget(s.d, s.p + 4)
      lo == (t[2] - pc) % 2^12
      hi == (t[1] - pc \div 2^12 - (IF t[2] < pc % 2^12 THEN 1 ELSE 0)) % 2^20
      back(up, low) == \* AUIPC of register r with upper part up; the other word moves to the second
        LET d == PutField(PutField(s.d, 8 * s.p, 12, 128 * f(27, 5) + 23), 8 * s.p + 12, 20, up)
        IN PutField(PutField(d, 8 * s.p + 32, 20, f(12, 20)), 8 * s.p + 52, 12, low)
      swapped == PutField(PutField(PutField(PutField(s.d, 8 * s.p, 12, 279), 8 * s.p + 12, 20, f(32, 20)),
                                   8 * s.p + 32, 12, f(52, 12)), 8 * s.p + 44, 20, f(12, 20))
  IN CASE rd \notin {0, 2} /\ ~pair -> [s EXCEPT !.p = @ + 6]
       [] rd \in {0, 2} /\ ~fake -> [s EXCEPT !.p = @ + 4]
       [] pair -> [s EXCEPT !.p = @ + 8, !.d = IF enc THEN coded ELSE swapped]
       [] OTHER -> [s EXCEPT !.p = @ + 8,
                      !.d = IF enc THEN back(f(44, 20), f(32, 12)) ELSE back((hi + Carry(lo)) % 2^20, lo)]

StepRISCV(s, enc) ==
  IF Jal(s.d, s.p) THEN StepJal(s, enc)
  ELSE IF Auipc(s.d, s.p) THEN StepAuipc(s, enc)
  ELSE [s EXCEPT !.p = @ + 2]

(* Delta works in place, the encoder from the end and the decoder from the     *)
(* start; the state begins as zeroes.                                          *)
StepDelta(s, delta, enc) ==
  LET i == IF enc THEN s.p - 1 ELSE s.p
      before == IF i >= delta THEN At(s.d, i - delta) ELSE 0
  IN [s EXCEPT !.d = Put(@, i, Conv(At(@, i), before, 8, enc)), !.p = IF enc THEN @ - 1 ELSE @ + 1]

FilterStart(f, d, enc) == [d |-> d, p |-> IF f = "delta" /\ enc THEN Len(d) ELSE 0, mask |-> 0]

(* Where the walk is over: what is left is too short for an instruction. *)
FilterEnd(f, s, enc) ==
  LET left == Len(s.d) - s.p
      even == Len(s.d) - (Len(s.d) % 2)
  IN CASE f = "delta" -> IF enc THEN s.p = 0 ELSE left = 0
       [] f = "ia64" -> left < 16
       [] f = "armt" -> s.p >= even - 2
       [] f = "riscv" -> s.p >= even - 6
       [] f = "x86" -> left < 5
       [] OTHER -> left < 4

FilterStep(f, delta, s, enc) ==
  CASE f = "x86" -> StepX86(s, enc)
    [] f = "armt" -> StepARMT(s, enc)
    [] f = "riscv" -> StepRISCV(s, enc)
    [] f = "delta" -> StepDelta(s, delta, enc)
    [] f = "arm" -> [s EXCEPT !.d = ConvARM(@, s.p, enc), !.p = @ + 4]
    [] f = "arm64" -> [s EXCEPT !.d = ConvARM64(@, s.p, enc), !.p = @ + 4]
    [] f = "ppc" -> [s EXCEPT !.d = ConvPPC(@, s.p, enc), !.p = @ + 4]
    [] f = "sparc" -> [s EXCEPT !.d = ConvSPARC(@, s.p, enc), !.p = @ + 4]
    [] f = "ia64" -> [s EXCEPT !.d = ConvIA64(@, s.p, enc), !.p = @ + 16]
=============================================================================
