------------------------------- MODULE LzFind -------------------------------
(* The match finders of LZMA (LzFind.c, LzFindOpt.c and the part of LzFindMt.c *)
(* that merges hash matches with those of the tree): for each position of the  *)
(* input, earlier places where the same bytes are found, each longer than the  *)
(* one before.  A finder keeps for each hash value the last position that had  *)
(* it and, in the cyclic array son, a binary tree (bt, mt) or a chain (hc) of  *)
(* the older positions with the same hash of numHashBytes bytes.               *)
(*                                                                             *)
(* Bytes are 0 and 1.  "mt" is what the three threads of LzFindMt compute; how *)
(* they pass it on is in that module.                                          *)
EXTENDS LzWindow, Sequences

CONSTANTS
  Confs,              \* finders and their input, see Init
  HistorySize, MatchMaxLen, KeepAddBefore, KeepAddAfter,
  kMaxValForNormalize, \* the position at which all positions are reduced
  MtBlock             \* positions of a block that LzFindMt's threads work on

VARIABLES
  conf,    \* [tree, n (numHashBytes), data, direct, piece, cut]
  m,       \* the finder: the window w, pos, cyc, posLimit, lenLimit, h2, h3, hv, son;
           \* with mt, pos is lzPos, and the threads that keep hv and son count in
           \* hpos and bpos
  found,   \* the matches of the position before the current one
  limit    \* the lenLimit they were looked for with, 0 after a Skip

vars == <<conf, m, found, limit>>

kEmptyHashValue == 0

cyclicBufferSize == HistorySize + 1

(* What son holds before it is written: malloc does not clear it. *)
Junk == 1000000

Byte(i) == conf.data[i + 1]

Cur == At(m.w)

(* HASH2_CALC to HASH5_CALC, for bytes of one bit: when the first bytes and    *)
(* h2 are the same so are the second ones, and with h3 the third ones; the     *)
(* hash that selects the tree may collide.                                     *)
H2(i) == (Byte(i) + Byte(i + 1)) % 2

H3(i) == <<H2(i), (Byte(i) + Byte(i + 2)) % 2>>

HV(i) ==
  CASE conf.n = 2 -> <<Byte(i), Byte(i + 1)>>
    [] conf.n = 3 -> H3(i)
    [] conf.n = 4 -> <<(H2(i) + Byte(i + 3)) % 2, 0>>
    [] conf.n = 5 -> <<(H2(i) + Byte(i + 2) + Byte(i + 3) + Byte(i + 4)) % 2, 0>>

(* MatchFinder_SetLimits: how far to go before the limits are looked at again, *)
(* and how long a match may be until then.                                     *)
SetLimits(f) ==
  LET untilNormal == kMaxValForNormalize - f.pos
      avail == Avail(f.w)
      ahead == CASE avail > f.w.keepAfter -> avail - f.w.keepAfter
                 [] avail <= f.w.keepAfter /\ avail >= MatchMaxLen -> avail - MatchMaxLen + 1
                 [] OTHER -> Min({avail, 1})
      n == Min({cyclicBufferSize - f.cyc, ahead}
               \cup (IF untilNormal > 0 THEN {untilNormal} ELSE {}))
  IN [f EXCEPT !.posLimit = f.pos + n, !.lenLimit = Min({avail, MatchMaxLen})]

Start(c) ==
  LET w == MatchFinder_Create(HistorySize, KeepAddBefore, MatchMaxLen, KeepAddAfter, c.n,
                              c.direct, Len(c.data))
  IN SetLimits([w |-> MatchFinder_ReadBlock(w, c.piece), pos |-> 1, hpos |-> 1, bpos |-> 1,
                cyc |-> 1,
                posLimit |-> 0, lenLimit |-> 0,
                h2 |-> [x \in {0, 1} |-> kEmptyHashValue],
                h3 |-> [x \in {0, 1} \X {0, 1} |-> kEmptyHashValue],
                hv |-> [x \in {0, 1} \X {0, 1} |-> kEmptyHashValue],
                son |-> [k \in 0..(2 * cyclicBufferSize - 1) |-> Junk]])

Init == conf \in Confs /\ m = Start(conf) /\ found = <<>> /\ limit = 0

(* MatchFinder_Normalize3: positions that fall out of reach become empty. *)
Saturate(t, sub) ==
  [x \in DOMAIN t |-> IF t[x] = Junk THEN Junk
                      ELSE IF t[x] < sub THEN kEmptyHashValue ELSE t[x] - sub]

Normalize(f) ==
  LET sub == f.pos - HistorySize - 1
  IN [f EXCEPT !.pos = @ - sub, !.posLimit = @ - sub, !.h2 = Saturate(@, sub),
               !.h3 = Saturate(@, sub), !.hv = Saturate(@, sub), !.son = Saturate(@, sub)]

(* MatchFinder_CheckLimits: move and read when exactly keepSizeAfter is ahead, *)
(* normalize (mt: see MtMove), wrap the cyclic position. *)
CheckLimits(f) ==
  LET g == IF f.w.keepAfter = Avail(f.w)
           THEN [f EXCEPT !.w = MatchFinder_ReadBlock(
                   IF MatchFinder_NeedMove(f.w) THEN MatchFinder_MoveBlock(f.w) ELSE f.w,
                   conf.piece)]
           ELSE f
      h == IF conf.tree # "mt" /\ g.pos = kMaxValForNormalize /\ Avail(g.w) >= conf.n
           THEN Normalize(g) ELSE g
  IN SetLimits([h EXCEPT !.cyc = IF @ = cyclicBufferSize THEN 0 ELSE @])

(* MOVE_POS *)
MovePos(f) ==
  LET g == [f EXCEPT !.cyc = @ + 1, !.w.buffer = @ + 1, !.pos = @ + 1]
  IN IF g.pos = g.posLimit THEN CheckLimits(g) ELSE g

(* How many bytes agree at the current position and delta before it, when the  *)
(* first len do. *)
Agree(delta, len, lenLimit) ==
  Min({l \in len..lenLimit : l = lenLimit \/ Byte(Cur - delta + l) # Byte(Cur + l)})

Slot(delta) == m.cyc - delta + (IF delta > m.cyc THEN cyclicBufferSize ELSE 0)

(* Iterates at most cut times, until s.done. *)
Repeat(Step(_), s0) ==
  LET After[k \in 0..conf.cut] ==
        IF k = 0 THEN s0
        ELSE LET s == After[k - 1] IN IF s.done THEN s ELSE Step(s)
  IN After[conf.cut]

Longer(s, len, delta) ==
  IF s.max < len THEN Append(s.d, <<len, delta - 1>>) ELSE s.d

(* GetMatchesSpec1, SkipMatchesSpec and GetMatchesSpecN_2: go down the tree    *)
(* from the newest position, splitting it into what is smaller and what is     *)
(* greater than the new one, which becomes the root.  The bytes that agree on  *)
(* both sides are not compared again.  A node that agrees in lenLimit bytes is *)
(* replaced.                                                                   *)
Descend(pos, cm, maxLen) ==
  LET cmCheck == IF pos <= cyclicBufferSize THEN 0 ELSE pos - cyclicBufferSize
      Node(s) ==
        LET delta == pos - s.cm
            pair  == 2 * Slot(delta)
            len   == Agree(delta, Min({s.len0, s.len1}), m.lenLimit)
            t     == [s EXCEPT !.d = Longer(s, len, delta), !.max = Max({@, len})]
        IN IF len = m.lenLimit THEN
             [t EXCEPT !.son[s.p1] = s.son[pair], !.son[s.p0] = s.son[pair + 1], !.done = TRUE]
           ELSE IF Byte(Cur - delta + len) < Byte(Cur + len) THEN
             [t EXCEPT !.son[s.p1] = s.cm, !.cm = s.son[pair + 1], !.p1 = pair + 1, !.len1 = len]
           ELSE
             [t EXCEPT !.son[s.p0] = s.cm, !.cm = s.son[pair], !.p0 = pair, !.len0 = len]
      Step(s) == IF s.cm > cmCheck THEN Node(s) ELSE s
      end == Repeat(Step, [cm |-> cm, p0 |-> 2 * m.cyc + 1, p1 |-> 2 * m.cyc, len0 |-> 0,
                           len1 |-> 0, son |-> m.son, d |-> <<>>, max |-> maxLen, done |-> FALSE])
  IN [d |-> end.d, son |-> IF end.done THEN end.son
                           ELSE [end.son EXCEPT ![end.p0] = kEmptyHashValue, ![end.p1] = kEmptyHashValue]]

(* Hc_GetMatchesSpec: follow the chain; the byte that would make the match     *)
(* longer is compared first. *)
FollowChain(cm, maxLen) ==
  LET Step(s) ==
        LET delta == m.pos - s.cm
            next  == s.son[Slot(delta)]
            len   == Agree(delta, 0, m.lenLimit)
        IN IF s.cm = kEmptyHashValue \/ delta >= cyclicBufferSize THEN [s EXCEPT !.done = TRUE]
           ELSE IF Byte(Cur + s.max) # Byte(Cur - delta + s.max) THEN [s EXCEPT !.cm = next]
           ELSE [s EXCEPT !.cm = next, !.d = Longer(s, len, delta), !.max = Max({@, len}),
                          !.done = (len = m.lenLimit)]
      end == Repeat(Step, [cm |-> cm, son |-> [m.son EXCEPT ![m.cyc] = cm], d |-> <<>>,
                           max |-> maxLen, done |-> FALSE])
  IN [d |-> end.d, son |-> end.son]

Search(cm, maxLen) == IF conf.tree = "hc" THEN FollowChain(cm, maxLen) ELSE Descend(m.pos, cm, maxLen)

Linked(cm) == IF conf.tree = "hc" THEN [m.son EXCEPT ![m.cyc] = cm] ELSE Descend(m.pos, cm, 0).son

(* Mutant of Usable: the first byte is not compared. *)
UsableAny(delta) == delta < Min({cyclicBufferSize, m.pos})

(* The position of a candidate from the small tables, if it is near enough and *)
(* its first byte agrees: the hash vouches for the others.                     *)
Usable(delta) ==
  delta < Min({cyclicBufferSize, m.pos}) /\ Byte(Cur - delta) = Byte(Cur)

(* The small tables of Bt3 to Bt5, Hc4 and Hc5: first what is found with two,  *)
(* then with three bytes; a match of numHashBytes - 1 or more is followed to   *)
(* its end. *)
SmallMatches(d2, d3) ==
  LET Full(delta) == Agree(delta, conf.n - 1, m.lenLimit)
      Third(delta) == IF conf.n < 5 THEN <<Full(delta), delta - 1>>
                      ELSE IF Byte(Cur - delta + 3) # Byte(Cur + 3) THEN <<3, delta - 1>>
                      ELSE <<Full(delta), delta - 1>>
      two == Usable(d2)
  IN CASE conf.n = 2 -> <<>>
       [] conf.n = 3 -> IF two THEN <<<<Agree(d2, 2, m.lenLimit), d2 - 1>>>> ELSE <<>>
       [] OTHER ->
            IF two /\ Byte(Cur - d2 + 2) = Byte(Cur + 2) THEN <<Third(d2)>>
            ELSE (IF two THEN <<<<2, d2 - 1>>>> ELSE <<>>)
                 \o (IF Usable(d3) THEN <<Third(d3)>> ELSE <<>>)

(* MixMatches2, MixMatches3 and MixMatches4: the same for the tables that the  *)
(* encoder's thread keeps.  Only candidates not before minPos count, and no    *)
(* match is followed beyond numHashBytes - 1.                                  *)
MixMatches(minPos) ==
  LET c2 == m.h2[H2(Cur)]
      c3 == m.h3[H3(Cur)]
      Ok(c) == c >= minPos /\ Byte(Cur - (m.pos - c)) = Byte(Cur)
      Same(c, k) == Byte(Cur - (m.pos - c) + k) = Byte(Cur + k)
      Third(c) == <<IF conf.n = 5 /\ Same(c, 3) THEN 4 ELSE 3, m.pos - c - 1>>
      two == Ok(c2)
  IN IF conf.n = 3 THEN (IF two THEN <<<<2, m.pos - c2 - 1>>>> ELSE <<>>)
     ELSE IF two /\ Same(c2, 2) THEN <<Third(c2)>>
     ELSE (IF two THEN <<<<2, m.pos - c2 - 1>>>> ELSE <<>>)
          \o (IF Ok(c3) THEN <<Third(c3)>> ELSE <<>>)

(* The current position goes into the small tables that this finder has. *)
Record2(f) == IF conf.n > 2 THEN [f EXCEPT !.h2[H2(Cur)] = m.pos] ELSE f

Record3(f) == IF conf.n > 3 THEN [f EXCEPT !.h3[H3(Cur)] = m.pos] ELSE f

Record(f) == Record3(Record2([f EXCEPT !.hv[HV(Cur)] = m.pos]))

(* GetMatches of the single threaded finders.  Fewer bytes than the hash needs *)
(* are left only at the end: nothing is recorded any more.                     *)
GetMatches ==
  /\ conf.tree # "mt" /\ Avail(m.w) > 0
  /\ IF m.lenLimit < conf.n
     THEN m' = MovePos(m) /\ found' = <<>> /\ limit' = 0
     ELSE LET cm    == m.hv[HV(Cur)]
              small == SmallMatches(m.pos - m.h2[H2(Cur)],
                                    IF conf.n < 4 THEN m.pos ELSE m.pos - m.h3[H3(Cur)])
              max   == Max({conf.n - 1} \cup {s[1] : s \in {small[k] : k \in DOMAIN small}})
              rest  == IF max = m.lenLimit THEN [d |-> <<>>, son |-> Linked(cm)]
                       ELSE Search(cm, max)
          IN /\ found' = small \o rest.d /\ limit' = m.lenLimit
             /\ m' = MovePos(Record([m EXCEPT !.son = rest.son]))
  /\ UNCHANGED conf

(* Mutant of Skip: the position is linked, but does not become the newest one. *)
SkipForgets ==
  /\ conf.tree # "mt" /\ Avail(m.w) > 0
  /\ m' = IF m.lenLimit < conf.n THEN MovePos(m)
          ELSE MovePos([m EXCEPT !.son = Linked(m.hv[HV(Cur)])])
  /\ found' = <<>> /\ limit' = 0
  /\ UNCHANGED conf

(* Skip of one position: it is recorded like any other. *)
Skip ==
  /\ conf.tree # "mt" /\ Avail(m.w) > 0
  /\ m' = IF m.lenLimit < conf.n THEN MovePos(m)
          ELSE MovePos(Record([m EXCEPT !.son = Linked(m.hv[HV(Cur)])]))
  /\ found' = <<>> /\ limit' = 0
  /\ UNCHANGED conf

(* The multithreaded finder: the tree is searched for every position, also for *)
(* one that is skipped; there is no record for the last ones.  The hash thread *)
(* hands on how far back the candidate is, since the tree's thread counts from *)
(* elsewhere.                                                                  *)
MtTree ==
  IF m.lenLimit < conf.n THEN [d |-> <<>>, m |-> m]
  ELSE LET head == m.hpos - m.hv[HV(Cur)]
           t    == Descend(m.bpos, m.bpos - head, conf.n - 1)
       IN [d |-> t.d,
           m |-> [m EXCEPT !.son = t.son, !.hv[HV(Cur)] = m.hpos,
                           !.hpos = @ + 1, !.bpos = @ + 1]]

(* Each thread reduces its positions, and those it has stored, before a block  *)
(* that would take it beyond last: it may do so up to MtBlock positions early, *)
(* wherever its block begins.  This is the set of what it may take away.       *)
Reduction(pos, last) ==
  (IF pos < last THEN {0} ELSE {})
  \cup (IF pos > last - MtBlock THEN {pos - cyclicBufferSize} ELSE {})

(* HashThreadFunc, BtGetMatches and MatchFinderMt_GetNextBlock_Bt.             *)
HashReduce(f, sub) == [f EXCEPT !.hpos = @ - sub, !.hv = Saturate(@, sub)]

BtReduce(f, sub) == [f EXCEPT !.bpos = @ - sub, !.son = Saturate(@, sub)]

LzReduce(f, sub) ==
  [f EXCEPT !.pos = @ - sub, !.posLimit = @ - sub, !.h2 = Saturate(@, sub), !.h3 = Saturate(@, sub)]

(* On to the next position.  The threads reduce at times of their own, the     *)
(* first two only as long as there is something to search.                     *)
MtMove(f) ==
  LET g      == MovePos(f)
      Of(pos) == IF g.lenLimit < conf.n THEN {0} ELSE Reduction(pos, kMaxValForNormalize)
  IN \E hash \in Of(g.hpos), bt \in Of(g.bpos), lz \in Reduction(g.pos, kMaxValForNormalize - 1) :
       m' = LzReduce(BtReduce(HashReduce(g, hash), bt), lz)

(* Only nearer candidates than the first match of the tree, or any within the  *)
(* history. *)
MtMinPos(t) ==
  IF t # <<>> THEN m.pos - t[1][2]
  ELSE IF m.pos > HistorySize THEN m.pos - HistorySize ELSE 1

(* MatchFinderMt_GetMatches and MatchFinderMt2_GetMatches. *)
MtGetMatches ==
  /\ conf.tree = "mt" /\ Avail(m.w) > 0
  /\ LET t   == MtTree
         mix == conf.n > 2 /\ (t.d # <<>> \/ Avail(m.w) - 1 >= 3)
     IN /\ found' = (IF mix THEN MixMatches(MtMinPos(t.d)) ELSE <<>>) \o t.d
        /\ MtMove(IF mix THEN Record3(Record2(t.m)) ELSE t.m)
  /\ limit' = m.lenLimit
  /\ UNCHANGED conf

(* MatchFinderMt0_Skip, MatchFinderMt2_Skip and MatchFinderMt3_Skip. *)
MtSkip ==
  /\ conf.tree = "mt" /\ Avail(m.w) > 0
  /\ LET t   == MtTree
         mix == conf.n > 2 /\ Avail(m.w) >= Min({3, conf.n - 1})
     IN MtMove(IF mix THEN Record3(Record2(t.m)) ELSE t.m)
  /\ found' = <<>> /\ limit' = 0
  /\ UNCHANGED conf

Next == GetMatches \/ Skip \/ MtGetMatches \/ MtSkip

Spec == Init /\ [][Next]_vars

(*-------------------------------- properties --------------------------------*)

(* The position the matches were looked for at. *)
Was == At(m.w) - 1

Real(len, dist) ==
  /\ dist + 1 <= HistorySize /\ dist < Was
  /\ \A k \in 0..(len - 1) : Byte(Was - dist - 1 + k) = Byte(Was + k)

Lengths(dist) == {l \in 0..limit : Real(l, dist)}

Dists == {d \in 0..(HistorySize - 1) : d + 1 <= Was}

(* Where the finder is; the sons are indexes into the cyclic array. *)
FindTypeOK ==
  /\ m.cyc \in 0..(cyclicBufferSize - 1)
  /\ m.pos \in 1..(kMaxValForNormalize + conf.n)
  /\ {m.hpos, m.bpos} \subseteq 1..kMaxValForNormalize
  /\ At(m.w) + m.lenLimit <= Len(conf.data)

(* Every match that is reported is one: the bytes agree although the finder    *)
(* compares only some of them, and it is within the history.                   *)
MatchesReal ==
  \A k \in DOMAIN found : found[k][1] <= limit /\ Real(found[k][1], found[k][2])

(* The encoder relies on the order: each match is longer, and farther away,    *)
(* than the one before. *)
MatchesIncreasing ==
  \A k \in 1..(Len(found) - 1) : found[k][1] < found[k + 1][1] /\ found[k][2] < found[k + 1][2]

(* When the search is not cut short, the longest match of numHashBytes or more *)
(* is found, and at its nearest place: the tree survives splitting, the        *)
(* replacement of equal nodes, the wrap of the cyclic array, the moves of the  *)
(* window and the reduction of the positions.                                  *)
LongestFound ==
  limit >= conf.n /\ conf.cut > HistorySize =>
    LET best == Max({0} \cup UNION {Lengths(d) : d \in Dists})
    IN best >= conf.n =>
         /\ found # <<>>
         /\ found[Len(found)] = <<best, Min({d \in Dists : best \in Lengths(d)})>>

(* MatchFinder_MoveBlock and MatchFinder_ReadBlock: the whole history stays in *)
(* the window, and until the end of the input at least keepSizeAfter bytes are *)
(* ahead. *)
WindowHolds ==
  /\ m.w.origin <= Max({0, At(m.w) - HistorySize})
  /\ ~m.w.direct => m.w.read - m.w.origin <= m.w.blockSize
  /\ Avail(m.w) < m.w.keepAfter => m.w.read = m.w.len

(* What GetMatches returns is a list of true matches in the order the encoder  *)
(* relies on.                                                                  *)
MatchesSound == FindTypeOK /\ MatchesReal /\ MatchesIncreasing

(* Nothing is missed: the history is in the window, and the longest match in   *)
(* it is found.                                                                *)
NothingMissed == WindowHolds /\ LongestFound
=============================================================================
