------------------------------ MODULE LzmaOpt ------------------------------
(***************************************************************************)
(* The parsers of the LZMA encoder (lzma/C/LzmaEnc.c): GetOptimum, which    *)
(* searches the cheapest way through the next bytes with a table of partial *)
(* solutions, and GetOptimumFast, which looks one byte ahead; with the loop *)
(* of LzmaEnc_CodeOneBlock that asks them and follows their answer.         *)
(*                                                                         *)
(* Prices come from the probabilities of the moment.  A comparison of two   *)
(* prices is a free choice here, except that kInfinityPrice always loses;   *)
(* so what is shown holds for all prices.  The match finder (module LzFind) *)
(* gives true matches, longer ones farther away; where its cut value stops  *)
(* it is a free choice.                                                     *)
(***************************************************************************)
EXTENDS LzmaState, FiniteSets, SequencesExt

CONSTANTS Inputs,       \* [data, coded, reps, fast]: data, how much is coded
          numFastBytes, \* 5 or more
          MatchLenMax,  \* LZMA_MATCH_LEN_MAX, 273
          kNumOpts,     \* entries of the table (2048)
          kOptReserve,  \* how many of them GetOptimum keeps free (64)
          kPairDiv,     \* ChangePair: a distance so many times larger costs a byte (128)
          kFar2, kFar9, kFar15   \* distances a length of 2, 3, 4 is worth (2^7, 2^9, 2^15)

ASSUME OptAssumption ==
    /\ numFastBytes \in Nat /\ numFastBytes >= 2 /\ MatchLenMax >= numFastBytes
    /\ kOptReserve \in 1..(kNumOpts - 1) /\ kNumOpts > MatchLenMax

VARIABLES in,        \* the input
          pos,       \* bytes coded: nowPos32
          mf,        \* bytes the match finder has passed
          additionalOffset,
          st,        \* [state, reps]: where the encoder stands
          opt,       \* the table, 0..kNumOpts - 1
          optCur, optEnd,   \* the part of it that Backward filled
          saved,     \* [len, pairs, avail]: longestMatchLen, matches, numAvail
          cur, last, \* the search of GetOptimum
          ans,       \* its answer: [len, back], backRes
          pc         \* "ask", "search", "code" or "done"

vars == <<in, pos, mf, additionalOffset, st, opt, optCur, optEnd, saved, cur, last, ans, pc>>

MARK_LIT == -1
NumReps  == 4
N        == Len(in.data)
Small(a, b) == IF a < b THEN a ELSE b
Large(a, b) == IF a < b THEN b ELSE a

\* The bytes at p and at p - d agree for this long, up to lim.
RECURSIVE Same(_, _, _, _)
Same(p, d, len, lim) ==
    IF len >= lim \/ in.data[p + len + 1] # in.data[p + len + 1 - d] THEN len
    ELSE Same(p, d, len + 1, lim)

\* A match is looked at only if its first two bytes agree.
Two(p, d, lim) == LET n == Same(p, d, 0, lim) IN IF n < 2 THEN 0 ELSE n

MatchByte(p, d) == in.data[p + 1] = in.data[p + 1 - d]

\* What the match finder could say at p: from near to far, ever longer.
Found(p) ==
    LET lim == Small(numFastBytes, N - p)
        more(list, d) ==
            LET n == Same(p, d, 0, lim) IN
            IF n >= 2 /\ (list = << >> \/ n > list[Len(list)].len)
            THEN Append(list, [len |-> n, dist |-> d - 1]) ELSE list
    IN  FoldLeft(more, << >>, [d \in 1..p |-> d])

\* ReadMatchDistances at p with the first k of these matches: the last is
\* followed beyond numFastBytes.
Read(p, k) ==
    LET pairs == SubSeq(Found(p), 1, k)
        n == pairs[k].len
    IN  [pairs |-> pairs, avail |-> N - p,
         len |-> IF k = 0 THEN 0
                 ELSE IF n # numFastBytes THEN n
                 ELSE Same(p, pairs[k].dist + 1, n, Small(N - p, MatchLenMax))]

Cuts(p) == 0..Len(Found(p))
-----------------------------------------------------------------------------
NoEntry == [fin |-> FALSE, len |-> 0, dist |-> 0, extra |-> 0, state |-> 0, reps |-> <<1, 1, 1, 1>>]

\* LzmaEnc_Init, or the middle of a stream.
Init ==
    /\ in \in Inputs
    /\ pos = in.coded /\ mf = in.coded /\ additionalOffset = 0
    /\ st = [state |-> 0, reps |-> in.reps]
    /\ opt = [i \in 0..(kNumOpts - 1) |-> NoEntry]
    /\ optCur = 0 /\ optEnd = 0
    /\ saved = [len |-> 0, pairs |-> << >>, avail |-> 0]
    /\ cur = 0 /\ last = 0 /\ ans = [len |-> 0, back |-> MARK_LIT]
    /\ pc = IF in.coded = N THEN "done" ELSE "ask"

\* The answer [len, back], with the match finder "moved" bytes further on.
Answer(len, back, moved, read) ==
    /\ ans' = [len |-> len, back |-> back]
    /\ mf' = mf + moved /\ additionalOffset' = additionalOffset + moved
    /\ saved' = read
    /\ pc' = "code"

\* What is known about the byte at pos: read now, or when looking ahead.
Known == IF additionalOffset = 0 THEN {Read(pos, k) : k \in Cuts(pos)} ELSE {saved}

Fresh == IF additionalOffset = 0 THEN 1 ELSE 0

RepLens(p, reps, lim) == [i \in 1..4 |-> Two(p, reps[i], lim)]
Longest(lens) == CHOOSE i \in 1..4 : /\ \A j \in 1..4 : lens[j] <= lens[i]
                                     /\ \A j \in 1..(i - 1) : lens[j] < lens[i]
-----------------------------------------------------------------------------
(* The table.  A candidate [at, len, dist, extra] may take the place of the *)
(* entry there if it is cheaper.                                            *)

Cand(at, len, dist, extra) == [at |-> at, len |-> len, dist |-> dist, extra |-> extra]

Write(entry, c) == [entry EXCEPT !.fin = TRUE, !.len = c.len, !.dist = c.dist, !.extra = c.extra]

\* Every table that some prices can lead to.
Relaxed(table, cands) ==
    LET at(i) == {c \in cands : c.at = i}
        ways(t, i) == {Write(t[i], c) : c \in at(i)} \cup (IF t[i].fin THEN {t[i]} ELSE {})
        grow(ts, i) == UNION {{[t EXCEPT ![i] = w] : w \in ways(t, i)} : t \in ts}
    IN  FoldLeft(grow, {table}, SetToSeq({c.at : c \in cands}))

\* The pairs from length "from" on: the distance for each length.
DistFor(pairs, len) == pairs[CHOOSE k \in 1..Len(pairs) :
                          pairs[k].len >= len /\ \A j \in 1..(k - 1) : pairs[j].len < len].dist

\* GetOptimum, up to the loop: an answer at once, or the first entries.
AtOnce(r) ==
    LET avail == Small(r.avail, MatchLenMax)
        lens == RepLens(pos, st.reps, avail)
        best == Longest(lens)
        short == MatchByte(pos, st.reps[1])
    IN  CASE r.avail < 2 -> <<1, MARK_LIT>>
          [] r.avail >= 2 /\ lens[best] >= numFastBytes -> <<lens[best], best - 1>>
          [] r.avail >= 2 /\ lens[best] < numFastBytes /\ r.len >= numFastBytes ->
               <<r.len, r.pairs[Len(r.pairs)].dist + NumReps>>
          [] OTHER -> IF Large(lens[best], r.len) < 2 /\ ~short THEN <<1, MARK_LIT>> ELSE << >>

GetOptimumAtOnce ==
    /\ pc = "ask" /\ ~in.fast /\ optCur = optEnd
    /\ \E r \in Known : LET a == AtOnce(r) IN
         /\ a # << >>
         /\ Answer(a[1], a[2], Fresh + a[1] - 1, r)
    /\ optCur' = 0 /\ optEnd' = 0
    /\ UNCHANGED <<in, pos, st, opt, cur, last>>

FirstCands(lens, r) ==
    {Cand(n, n, i - 1, 0) : <<i, n>> \in {x \in (1..4) \X (2..MatchLenMax) : x[2] <= lens[x[1]]}}
      \cup {Cand(n, n, DistFor(r.pairs, n) + NumReps, 0) : n \in Large(2, lens[1] + 1)..r.len}

GetOptimumStart ==
    /\ pc = "ask" /\ ~in.fast /\ optCur = optEnd
    /\ \E r \in Known :
         LET lens == RepLens(pos, st.reps, Small(r.avail, MatchLenMax))
             most == Large(lens[Longest(lens)], r.len)
             short == MatchByte(pos, st.reps[1]) /\ lens[1] = 0
             first(d) == [opt EXCEPT ![0].state = st.state, ![0].reps = st.reps,
                                     ![1] = Write(@, Cand(1, 1, d, 0))]
         IN  /\ AtOnce(r) = << >>
             /\ \E d \in {MARK_LIT} \cup (IF short THEN {0} ELSE {}) :
                  IF most < 2
                  THEN /\ opt' = [opt EXCEPT ![0].state = st.state,
                                             ![1].fin = TRUE, ![1].dist = d, ![1].extra = 0]
                       /\ Answer(1, d, Fresh, r)
                       /\ UNCHANGED <<cur, last>>
                  ELSE /\ opt' \in Relaxed(first(d), FirstCands(lens, r))
                       /\ cur' = 0 /\ last' = most
                       /\ mf' = mf + Fresh /\ additionalOffset' = additionalOffset + Fresh
                       /\ saved' = r /\ pc' = "search"
                       /\ UNCHANGED ans
    /\ optCur' = 0 /\ optEnd' = 0
    /\ UNCHANGED <<in, pos, st>>
-----------------------------------------------------------------------------
(* The loop of GetOptimum: one turn for each entry of the table.            *)

\* State and distances at entry i, from the entry it was reached from.
StateAt(i) ==
    LET o == opt[i]
        s == opt[i - o.len].state
    IN  CASE o.len = 1 -> IF o.dist = 0 THEN ShortRepNext(s) ELSE LiteralNext(s)
          [] o.len # 1 /\ o.extra > 1 -> 8
          [] o.len # 1 /\ o.extra = 1 -> IF o.dist < NumReps THEN 8 ELSE 7
          [] OTHER -> IF o.dist < NumReps THEN RepNext(s) ELSE MatchNext(s)

\* The mutant takes the repeated distance out of its place and leaves the rest.
RepsAtSwap(i) ==
    LET o == opt[i]
        r == opt[i - o.len - o.extra].reps
    IN  CASE o.len = 1 \/ o.dist = 0 -> r
          [] o.len # 1 /\ o.dist \in 1..3 -> [r EXCEPT ![1] = r[o.dist + 1], ![o.dist + 1] = r[1]]
          [] OTHER -> <<o.dist - NumReps + 1, r[1], r[2], r[3]>>

RepsAt(i) ==
    LET o == opt[i]
        r == opt[i - o.len - o.extra].reps
    IN  CASE o.len = 1 \/ o.dist = 0 -> r
          [] o.len # 1 /\ o.dist = 1 -> <<r[2], r[1], r[3], r[4]>>
          [] o.len # 1 /\ o.dist \in 2..3 -> <<r[o.dist + 1], r[1], r[2], r[IF o.dist = 2 THEN 4 ELSE 3]>>
          [] OTHER -> <<o.dist - NumReps + 1, r[1], r[2], r[3]>>

\* After a match of length len: a literal and a match at the same distance.
ThenLitRep0(p, d, i, len, dist, full) ==
    LET limit == Small(len + 1 + numFastBytes, full)
        n == len + 1 + Same(p + len + 1, d, 0, limit - len - 1)
    IN  IF len + 3 <= limit /\ n >= len + 3
        THEN {Cand(i + n, n - len - 1, dist, len + 1)} ELSE {}

RepCands(p, i, reps, avail, full) ==
    UNION {LET n == Two(p, reps[k], avail) IN
           {Cand(i + m, m, k - 1, 0) : m \in 2..n}
             \cup (IF n < 2 THEN {} ELSE ThenLitRep0(p, reps[k], i, n, k - 1, full)) : k \in 1..4}

\* The matches, cut to what fits, from one longer than the first repeated one.
MatchCands(p, i, r, reps, avail, full) ==
    LET newLen == Small(r.len, avail)
        n == Two(p, reps[1], avail)
        startLen == IF n < 2 THEN 2 ELSE n + 1
        ends == {Small(r.pairs[k].len, newLen) : k \in 1..Len(r.pairs)}
    IN  UNION {LET dist == DistFor(r.pairs, m) IN
               {Cand(i + m, m, dist + NumReps, 0)}
                 \cup (IF m \in ends THEN ThenLitRep0(p, dist + 1, i, m, dist + NumReps, full) ELSE {})
               : m \in startLen..newLen}

\* The next entry, by a literal or a short repeat, and whether "literal and
\* repeated match" is still worth looking at.
NextEntry(t, i, s, same) ==
    LET e == t[i + 1]
        lit == Write(e, Cand(i + 1, 1, MARK_LIT, 0))
        base == (IF e.fin THEN {<<e, FALSE>>} ELSE {})                  \* litPrice = 0
                  \cup (IF e.fin /\ ~same THEN {<<e, TRUE>>} ELSE {})    \* too expensive
                  \cup (IF e.fin /\ same THEN {} ELSE {<<lit, FALSE>>})
        may(x) == IsLitState(s) /\ same /\ (x[1].len < 2 \/ x[1].dist # 0)
        short(x) == <<Write(x[1], Cand(i + 1, 1, 0, 0)), x[2]>>
    IN  base \cup {short(x) : x \in {y \in base : may(y)}}

\* Literal, then a match at the last distance.
LitRep0(p, d, i, full) ==
    LET n == 1 + Same(p + 1, d, 0, Small(numFastBytes + 1, full) - 1)
    IN  IF full > 2 /\ ~MatchByte(p, d) /\ n >= 3 THEN {Cand(i + n, n - 1, 0, 1)} ELSE {}

\* Backward: the way to entry i is written down from the end of the table on.
RECURSIVE Backward(_, _, _)
Backward(t, i, wr) ==
    LET o == t[i]
        from == i - o.len - o.extra
        put(tt, w, len, dist) == [tt EXCEPT ![w].len = len, ![w].dist = dist]
        t1 == IF o.extra = 0 THEN t
              ELSE IF o.extra = 1 THEN put(t, wr - 1, o.len, o.dist)
              ELSE put(put(t, wr - 1, o.len, 0), wr - 2, 1, MARK_LIT)
        w1 == IF o.extra = 0 THEN wr ELSE IF o.extra = 1 THEN wr - 1 ELSE wr - 2
        len == IF o.extra = 0 THEN o.len ELSE IF o.extra = 1 THEN 1 ELSE o.extra - 1
        dist == IF o.extra = 1 THEN MARK_LIT ELSE o.dist
    IN  IF from = 0 THEN [t |-> t1, wr |-> w1, len |-> len, back |-> dist]
        ELSE Backward(put(t1, w1 - 1, len, dist), from, w1 - 1)

\* The mutant wipes only up to the entry the search has reached.
WipeUsed(t, till) ==
    [k \in DOMAIN t |-> IF k \in 1..(cur + 1) THEN [t[k] EXCEPT !.fin = FALSE] ELSE t[k]]

\* The end of GetOptimum: the table is wiped, the way to entry i is the answer.
\* "till" is the last entry that was used.
Wipe(t, till) == [k \in DOMAIN t |-> IF k \in 1..till THEN [t[k] EXCEPT !.fin = FALSE] ELSE t[k]]

Conclude(i) ==
    LET b == Backward(Wipe(opt, last), i, i + 1) IN
    /\ opt' = b.t /\ optEnd' = i + 1 /\ optCur' = b.wr
    /\ ans' = [len |-> b.len, back |-> b.back]
    /\ pc' = "code"

SearchEnds ==
    /\ pc = "search"
    /\ LET i == cur + 1 IN
       \/ /\ i = last
          /\ Conclude(i)
          /\ UNCHANGED <<mf, additionalOffset, saved>>
       \/ /\ i # last /\ i >= kNumOpts - kOptReserve
          /\ \E best \in {j \in i..last : opt[j].fin} :
               /\ Conclude(best)
               /\ mf' = mf + best - i /\ additionalOffset' = additionalOffset + best - i
          /\ UNCHANGED saved
       \/ /\ i # last /\ i < kNumOpts - kOptReserve
          /\ \E k \in Cuts(mf) : LET r == Read(mf, k) IN
               r.len >= numFastBytes /\ saved' = r
          /\ Conclude(i)
          /\ mf' = mf + 1 /\ additionalOffset' = additionalOffset + 1
    /\ UNCHANGED <<in, pos, st, cur, last>>

SearchOn ==
    /\ pc = "search"
    /\ LET i == cur + 1
           p == mf
           s == StateAt(i)
           reps == RepsAt(i)
           t == [opt EXCEPT ![i].state = s, ![i].reps = reps]
       IN  /\ i # last /\ i < kNumOpts - kOptReserve
           /\ \E k \in Cuts(p), x \in NextEntry(t, i, s, MatchByte(p, reps[1])) :
                LET r == Read(p, k)
                    full == Small(r.avail, kNumOpts - 1 - i)
                    avail == Small(full, numFastBytes)
                    cands == IF full < 2 THEN {}
                             ELSE (IF x[2] THEN LitRep0(p, reps[1], i, full) ELSE {})
                                    \cup RepCands(p, i, reps, avail, full)
                                    \cup MatchCands(p, i, r, reps, avail, full)
                IN  /\ r.len < numFastBytes
                    /\ opt' \in Relaxed([t EXCEPT ![i + 1] = x[1]], cands)
                    /\ last' = CHOOSE m \in {last} \cup {c.at : c \in cands} :
                                  \A c \in cands : m >= last /\ m >= c.at
                    /\ saved' = r
           /\ cur' = i
    /\ mf' = mf + 1 /\ additionalOffset' = additionalOffset + 1
    /\ UNCHANGED <<in, pos, st, optCur, optEnd, ans, pc>>

\* The next part of the answer that Backward left in the table.
TakeNext ==
    /\ pc = "ask" /\ optCur # optEnd
    /\ ans' = [len |-> opt[optCur].len, back |-> opt[optCur].dist]
    /\ optCur' = optCur + 1 /\ pc' = "code"
    /\ UNCHANGED <<in, pos, mf, additionalOffset, st, opt, optEnd, saved, cur, last>>
-----------------------------------------------------------------------------
(* GetOptimumFast.                                                          *)

ChangePair(smallDist, bigDist) == (bigDist \div kPairDiv) > smallDist

\* A longest match that is only a byte longer than a much nearer one is given
\* up for it.
RECURSIVE Nearer(_, _, _)
Nearer(pairs, len, dist) ==
    LET n == Len(pairs) IN
    IF n >= 2 /\ len = pairs[n - 1].len + 1 /\ ChangePair(pairs[n - 1].dist, dist)
    THEN Nearer(SubSeq(pairs, 1, n - 1), len - 1, pairs[n - 1].dist)
    ELSE [len |-> IF len = 2 /\ dist >= kFar2 THEN 1 ELSE len, dist |-> dist]

FirstRep(lens) ==
    IF \E i \in 1..4 : lens[i] >= numFastBytes
    THEN CHOOSE i \in 1..4 : lens[i] >= numFastBytes /\ \A j \in 1..(i - 1) : lens[j] < numFastBytes
    ELSE Longest(lens)

\* The answer from what is known about this byte, or << >>: look at the next.
FastAnswer(r) ==
    LET lens == RepLens(pos, st.reps, Small(r.avail, MatchLenMax))
        i == FirstRep(lens)
        n == lens[i]
        m == IF r.len < 2 THEN [len |-> r.len, dist |-> 0]
             ELSE Nearer(r.pairs, r.len, r.pairs[Len(r.pairs)].dist)
        repWins == \/ n + 1 >= m.len
                   \/ n + 2 >= m.len /\ m.dist >= kFar9
                   \/ n + 3 >= m.len /\ m.dist >= kFar15
    IN  CASE r.avail < 2 -> [len |-> 1, back |-> MARK_LIT, main |-> m]
          [] r.avail >= 2 /\ n >= numFastBytes -> [len |-> n, back |-> i - 1, main |-> m]
          [] r.avail >= 2 /\ n < numFastBytes /\ r.len >= numFastBytes ->
               [len |-> r.len, back |-> r.pairs[Len(r.pairs)].dist + NumReps, main |-> m]
          [] OTHER ->
               CASE n >= 2 /\ repWins -> [len |-> n, back |-> i - 1, main |-> m]
                 [] ~(n >= 2 /\ repWins) /\ (m.len < 2 \/ r.avail <= 2) ->
                      [len |-> 1, back |-> MARK_LIT, main |-> m]
                 [] OTHER -> [len |-> 0, back |-> MARK_LIT, main |-> m]

\* The next byte has a better match, or goes on with a repeated one.
NextIsBetter(main, r) ==
    LET newDist == r.pairs[Len(r.pairs)].dist
        limit == main.len - 1
    IN  \/ /\ r.len >= 2
           /\ \/ r.len >= main.len /\ newDist < main.dist
              \/ r.len = main.len + 1 /\ ~ChangePair(main.dist, newDist)
              \/ r.len > main.len + 1
              \/ r.len + 1 >= main.len /\ main.len >= 3 /\ ChangePair(newDist, main.dist)
        \/ \E i \in 1..4 : /\ Same(pos + 1, st.reps[i], 0, 2) = 2
                           /\ (limit <= 2 \/ Same(pos + 1, st.reps[i], 0, limit) >= limit)

GetOptimumFast ==
    /\ pc = "ask" /\ in.fast
    /\ \E r \in Known :
         LET a == FastAnswer(r) IN
         IF a.len > 0 THEN Answer(a.len, a.back, Fresh + a.len - 1, r)
         ELSE \E k \in Cuts(pos + 1) :
                LET ahead == Read(pos + 1, k) IN
                IF NextIsBetter(a.main, ahead) THEN Answer(1, MARK_LIT, Fresh + 1, ahead)
                ELSE Answer(a.main.len, a.main.dist + NumReps, Fresh + a.main.len - 1, ahead)
    /\ UNCHANGED <<in, pos, st, opt, optCur, optEnd, cur, last>>
-----------------------------------------------------------------------------
(* LzmaEnc_CodeOneBlock follows the answer.                                 *)

Symbol == CASE ans.back = MARK_LIT -> [kind |-> "literal", len |-> ans.len, dist |-> 0]
            [] ans.back = 0 /\ ans.len = 1 -> [kind |-> "short", len |-> 1, dist |-> 0]
            [] ans.back \in 0..3 /\ ~(ans.back = 0 /\ ans.len = 1) ->
                 [kind |-> "rep", len |-> ans.len, dist |-> ans.back]
            [] OTHER -> [kind |-> "match", len |-> ans.len, dist |-> ans.back - NumReps]

Code ==
    /\ pc = "code"
    /\ st' = [state |-> CASE Symbol.kind = "literal" -> LiteralNext(st.state)
                          [] Symbol.kind = "match" -> MatchNext(st.state)
                          [] Symbol.kind = "rep" -> RepNext(st.state)
                          [] OTHER -> ShortRepNext(st.state),
              reps |-> Reps(st.reps, Symbol)]
    /\ pos' = pos + ans.len
    /\ additionalOffset' = additionalOffset - ans.len
    /\ pc' = IF additionalOffset = ans.len /\ mf = N THEN "done" ELSE "ask"
    /\ UNCHANGED <<in, mf, opt, optCur, optEnd, saved, cur, last, ans>>

Done == pc = "done" /\ UNCHANGED vars

Next == GetOptimumAtOnce \/ GetOptimumStart \/ SearchEnds \/ SearchOn \/ TakeNext
          \/ GetOptimumFast \/ Code \/ Done

Spec == Init /\ [][Next]_vars
-----------------------------------------------------------------------------
\* The type of the state; every index of the table stays below kNumOpts, and the
\* match finder is never behind the encoder (additionalOffset is unsigned).
OptTypeOK ==
    /\ pc \in {"ask", "search", "code", "done"}
    /\ pos \in 0..N /\ mf \in pos..N /\ additionalOffset \in 0..N
    /\ st.state \in 0..11 /\ st.reps \in [1..4 -> 1..N]
    /\ DOMAIN opt = 0..(kNumOpts - 1)
    /\ optCur \in 0..kNumOpts /\ optEnd \in optCur..kNumOpts
    /\ cur \in 0..(kNumOpts - 1) /\ last \in 0..(kNumOpts - 1)

\* A match of length len at distance d that begins at p is in the data.
True_(p, d, len) == p + len <= N /\ d <= p /\ \A k \in 1..len : in.data[p + k] = in.data[p + k - d]

\* Whatever the prices are, the symbol that is coded next stands for the bytes
\* that come next: the decoder, which only has the symbols, gets the data back.
\* The parsers promise it through an index into the last four distances as they
\* will be when the symbol is coded, several symbols after it was chosen.
SymbolTrue ==
    pc = "code" =>
        CASE Symbol.kind = "literal" -> ans.len = 1 /\ pos < N
          [] Symbol.kind = "match" -> ans.len \in 2..MatchLenMax /\ True_(pos, Symbol.dist + 1, ans.len)
          [] OTHER -> ans.len <= MatchLenMax /\ True_(pos, st.reps[Symbol.dist + 1], ans.len)

\* Every entry of the table that has a price can be reached, and the next entry
\* always has one (GetOptimum: "if skip_items in p->opt are possible").
NoSkippedEntry ==
    pc = "search" =>
        /\ cur + 1 <= last /\ opt[cur + 1].fin
        /\ opt[last].fin
        /\ \A i \in 1..last : opt[i].fin =>
              opt[i].len + opt[i].extra <= i /\ (i > 1 => i - opt[i].len - opt[i].extra <= cur)

\* Between two searches no entry but the first has a price: a price left over
\* would win against a true one and lead into the last search.
TableClean ==
    (pc = "ask" /\ optCur = optEnd) => \A i \in 2..(kNumOpts - 1) : ~opt[i].fin

\* additionalOffset is the distance from the encoder to the match finder, and
\* when a parser is asked again at most one byte has been looked at, whose
\* matches are the ones kept.
LookAheadExact ==
    /\ pc # "search" => additionalOffset = mf - pos
    /\ (pc = "ask" /\ optCur = optEnd) =>
          /\ additionalOffset <= 1
          /\ additionalOffset = 1 =>
                /\ saved.avail = N - pos
                /\ \A k \in 1..Len(saved.pairs) : True_(pos, saved.pairs[k].dist + 1, saved.pairs[k].len)

\* Each symbol of the parse is true of the data, wherever the match finder has
\* got to meanwhile.
ParseTrue == OptTypeOK /\ SymbolTrue /\ LookAheadExact

\* The price table leads only where the current search has been.
TableSound == NoSkippedEntry /\ TableClean
=============================================================================
