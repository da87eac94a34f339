------------------------------ MODULE RzipHash ------------------------------
(***************************************************************************)
(* The hash table of the rzip stage (src/rzip.c): hash_search throws the   *)
(* tag of every position at it (insert_hash), and once it is two thirds    *)
(* full each insertion is followed by the removal of one entry with few    *)
(* low bits set (clean_one_from_hash), sweep after sweep with a stricter   *)
(* mask.                                                                   *)
(*                                                                         *)
(* Tags are numbers: of the data only the tag of each position counts, and *)
(* any tag may come next.  A mask is a number 2^k - 1, as in the code.     *)
(* Positions of which no tag is inserted leave the table alone and are not *)
(* counted: an offset is named by the number of its insertion.  The        *)
(* recursion of insert_hash is a stack of frames.                          *)
(***************************************************************************)
EXTENDS Integers, Sequences, FiniteSets

CONSTANTS
  HashBits,    \* st->hash_bits
  TagBits,     \* bits of a tag
  Tags,        \* the tags that occur in the input
  InitialFreq, \* st->level->initial_freq
  MaxChain,    \* st->level->max_chain_len
  MaxOffset    \* bound on the insertions in a chunk

(* 1 << k *)
pow2[k \in Nat] == IF k = 0 THEN 1 ELSE 2 * pow2[k - 1]

ASSUME HashAssumption ==
  /\ HashBits \in Nat \ {0, 1} /\ TagBits \in Nat \ {0}
  /\ Tags \subseteq 0 .. pow2[TagBits] - 1
  /\ InitialFreq \in 1 .. TagBits
  /\ MaxChain \in Nat \ {0} /\ MaxOffset \in Nat

Size == pow2[HashBits]
Buckets == 0 .. Size - 1
Entries == [offset: 0 .. MaxOffset, t: Tags \cup {0}]

(* "66% full at max." *)
hash_limit == (Size \div 3) * 2

VARIABLES
  pc,                \* where hash_search is: "loop", "insert", "clean"
  p,                 \* the position that was inserted last
  hash_table, hash_count,
  minimum_tag_mask, tag_mask, tag_clean_ptr,
  victim_round,      \* static in insert_hash
  now,               \* the arguments t and offset of insert_hash
  frames             \* its callers, with the bucket each is going to take

vars == <<pc, p, hash_table, hash_count, minimum_tag_mask, tag_mask,
          tag_clean_ptr, victim_round, now, frames>>

Empty == [offset |-> 0, t |-> 0]

(* !(he->offset | he->t) *)
empty_hash(he) == he = Empty

primary_hash(t) == t % Size

increase_mask(m) == 2 * m + 1

(* (t & mask) == mask *)
Has(t, m) == t % (m + 1) = m

minimum_bitness(t) == ~Has(t, increase_mask(minimum_tag_mask))

(* Does a have fewer low bits set than b? *)
lesser_bitness(a, b) ==
  \E k \in 1 .. TagBits : Has(b, pow2[k] - 1) /\ ~Has(a, pow2[k] - 1)

InitialMask == pow2[InitialFreq] - 1
Cleared == [h \in Buckets |-> Empty]

(* hash_search of the first chunk allocates the table. *)
Init ==
  /\ pc = "loop"
  /\ p = 0
  /\ hash_table = Cleared
  /\ hash_count = 0
  /\ minimum_tag_mask = InitialMask
  /\ tag_mask = InitialMask
  /\ tag_clean_ptr = 0
  /\ victim_round = 0
  /\ now = Empty
  /\ frames = << >>

(* Mutant of NextChunk: the sweep is not started anew. *)
NextChunkMidSweep ==
  /\ pc = "loop" /\ p > 0
  /\ p' = 0
  /\ hash_table' = Cleared
  /\ hash_count' = 0
  /\ minimum_tag_mask' = InitialMask
  /\ tag_mask' = InitialMask
  /\ UNCHANGED <<pc, tag_clean_ptr, victim_round, now, frames>>

(* hash_search of the next chunk starts on the same table, emptied.         *)
(* victim_round is static and stays as it is.                               *)
NextChunk ==
  /\ pc = "loop" /\ p > 0
  /\ p' = 0
  /\ hash_table' = Cleared
  /\ hash_count' = 0
  /\ minimum_tag_mask' = InitialMask
  /\ tag_mask' = InitialMask
  /\ tag_clean_ptr' = 0
  /\ UNCHANGED <<pc, victim_round, now, frames>>

(* The loop of hash_search has come to a position with tag t that may be in *)
(* the table and is to be inserted.                                         *)
HashSearch(t) ==
  /\ pc = "loop" /\ p < MaxOffset
  /\ Has(t, minimum_tag_mask) /\ Has(t, tag_mask)
  /\ p' = p + 1
  /\ hash_count' = hash_count + 1
  /\ now' = [offset |-> p', t |-> t]
  /\ pc' = "insert"
  /\ UNCHANGED <<hash_table, minimum_tag_mask, tag_mask, tag_clean_ptr,
                 victim_round, frames>>

-----------------------------------------------------------------------------
(* insert_hash(now.t, now.offset). *)

(* The buckets it looks at, one after the other. *)
Probe(i) == (primary_hash(now.t) + i) % Size
Occupant(i) == hash_table[Probe(i)]

(* The buckets among the first ones that hold the same tag: round of them.  *)
Alike(i) == {j \in 0 .. i : Occupant(j).t = now.t}

ChainFull(i) == Occupant(i).t = now.t /\ Cardinality(Alike(i)) = MaxChain

Stops(i) ==
  \/ empty_hash(Occupant(i))
  \/ minimum_bitness(Occupant(i).t)
  \/ lesser_bitness(Occupant(i).t, now.t)
  \/ ChainFull(i)

(* The while loop is left at the i-th bucket. *)
LeavesAt(i) == Stops(i) /\ \A j \in 0 .. i - 1 : ~Stops(j)

Displaces(i) ==
  /\ ~empty_hash(Occupant(i)) /\ ~minimum_bitness(Occupant(i).t)
  /\ lesser_bitness(Occupant(i).t, now.t)

(* A better tag cannot jump over a worse one: that one is inserted anew,    *)
(* then its bucket is taken.                                                *)
InsertDisplace ==
  /\ pc = "insert"
  /\ \E i \in Buckets :
       /\ LeavesAt(i) /\ Displaces(i)
       /\ frames' = Append(frames, [entry |-> now, h |-> Probe(i)])
       /\ now' = Occupant(i)
  /\ UNCHANGED <<pc, p, hash_table, hash_count, minimum_tag_mask, tag_mask,
                 tag_clean_ptr, victim_round>>

(* victim_h: of the equal tags the one whose turn it is. *)
Victim(i) ==
  CHOOSE j \in Alike(i) : Cardinality({k \in Alike(i) : k < j}) = victim_round

(* if (victim_round == max_chain_len) victim_round = 0 *)
next_victim == (victim_round + 1) % MaxChain

(* The entry goes to an empty bucket, replaces one that is due for cleaning *)
(* anyway, or the victim of a chain of equal tags.                          *)
InsertPlace ==
  /\ pc = "insert"
  /\ \E i \in Buckets :
       /\ LeavesAt(i) /\ ~Displaces(i)
       /\ LET due == ~empty_hash(Occupant(i)) /\ minimum_bitness(Occupant(i).t)
              full == ~empty_hash(Occupant(i)) /\ ~due
              at == IF full THEN Probe(Victim(i)) ELSE Probe(i)
          IN /\ hash_table' = [hash_table EXCEPT ![at] = now]
             /\ hash_count' = IF due \/ full THEN hash_count - 1
                                             ELSE hash_count
             /\ victim_round' = IF full THEN next_victim ELSE victim_round
  /\ pc' = "return"
  /\ UNCHANGED <<p, minimum_tag_mask, tag_mask, tag_clean_ptr, now, frames>>

(* A call returns: its caller takes the bucket, or hash_search goes on.     *)
InsertReturn ==
  /\ pc = "return"
  /\ IF frames # << >>
       THEN LET top == frames[Len(frames)]
            IN /\ hash_table' = [hash_table EXCEPT ![top.h] = top.entry]
               /\ frames' = SubSeq(frames, 1, Len(frames) - 1)
               /\ UNCHANGED <<pc, now>>
       ELSE /\ pc' = IF hash_count > hash_limit THEN "clean" ELSE "loop"
            /\ now' = Empty
            /\ UNCHANGED <<hash_table, frames>>
  /\ UNCHANGED <<p, hash_count, minimum_tag_mask, tag_mask, tag_clean_ptr,
                 victim_round>>

-----------------------------------------------------------------------------
(* clean_one_from_hash. *)

(* Mutant of Due: whatever comes first in the sweep is removed. *)
DueAny == {h \in Buckets : /\ h >= tag_clean_ptr
                           /\ ~empty_hash(hash_table[h])}

(* What the sweep has still before it that is to go. *)
Due == {h \in Buckets : /\ h >= tag_clean_ptr
                        /\ ~empty_hash(hash_table[h])
                        /\ minimum_bitness(hash_table[h].t)}

(* The first of them is removed; new entries have to be better. *)
CleanOne ==
  /\ pc = "clean"
  /\ \E h \in Due :
       /\ \A g \in Due : h <= g
       /\ hash_table' = [hash_table EXCEPT ![h] = Empty]
       /\ tag_clean_ptr' = h
  /\ hash_count' = hash_count - 1
  /\ tag_mask' = increase_mask(minimum_tag_mask)
  /\ pc' = "loop"
  /\ UNCHANGED <<p, minimum_tag_mask, victim_round, now, frames>>

(* Mutant of SweepEnd: the mask is left as it is. *)
SweepEndSameMask ==
  /\ pc = "clean"
  /\ Due = {}
  /\ tag_clean_ptr' = 0
  /\ UNCHANGED <<pc, p, hash_table, hash_count, minimum_tag_mask, tag_mask,
                 victim_round, now, frames>>

(* "We hit the end: everthing in hash satisfies the better mask." *)
SweepEnd ==
  /\ pc = "clean"
  /\ Due = {}
  /\ minimum_tag_mask' = increase_mask(minimum_tag_mask)
  /\ tag_clean_ptr' = 0
  /\ UNCHANGED <<pc, p, hash_table, hash_count, tag_mask, victim_round, now,
                 frames>>

Calls == InsertDisplace \/ InsertPlace \/ InsertReturn \/ CleanOne \/ SweepEnd

Next == NextChunk \/ (\E t \in Tags : HashSearch(t)) \/ Calls

(* One thread runs hash_search; nothing it calls here waits. *)
Spec == Init /\ [][Next]_vars /\ WF_vars(Calls)

-----------------------------------------------------------------------------
(* Properties. *)

(* Every variable keeps its type. *)
HashTypeOK ==
  /\ pc \in {"loop", "insert", "return", "clean"}
  /\ p \in 0 .. MaxOffset
  /\ hash_table \in [Buckets -> Entries]
  /\ hash_count \in 0 .. hash_limit + 1
  /\ {minimum_tag_mask, tag_mask} \subseteq {pow2[k] - 1 : k \in 0 .. TagBits + 1}
  /\ tag_clean_ptr \in Buckets
  /\ victim_round \in 0 .. MaxChain - 1
  /\ now \in Entries
  /\ frames \in Seq([entry: Entries, h: Buckets])

Used == {h \in Buckets : ~empty_hash(hash_table[h])}

(* hash_count, which alone decides when the table is cleaned, is the number *)
(* of entries, whatever insert_hash replaced, displaced or discarded on its *)
(* way, and between calls the table is at most two thirds full.             *)
HashCountExact ==
  pc = "loop" => hash_count = Cardinality(Used) /\ hash_count <= hash_limit

(* "If we are better than current occupant, we can't jump over it: it will  *)
(* be cleaned before us, and noone would then find us": an entry that the   *)
(* sweep under way will keep is reached by find_best_match, which goes from *)
(* its primary bucket to the first empty one.                               *)
Findable ==
  pc = "loop" =>
    \A h \in Used :
      LET t == hash_table[h].t
          home == primary_hash(t)
      IN ~minimum_bitness(t) =>
           \A i \in 0 .. (h - home + Size) % Size : (home + i) % Size \in Used

(* "rehashing might move it behind tag_clean_ptr": whatever is inserted and *)
(* moved about during a sweep, behind tag_clean_ptr there is nothing left   *)
(* that should have gone, so that at the end of the sweep everything in the *)
(* table satisfies the better mask.                                         *)
SweepClean ==
  \A h \in Used : h < tag_clean_ptr => ~minimum_bitness(hash_table[h].t)

(* insert_hash leaves the new position in the table, and rehashing leaves   *)
(* no position in it twice.                                                 *)
StoredOnce ==
  /\ \A g, h \in Used : pc = "loop" /\ hash_table[g] = hash_table[h] => g = h
  /\ pc = "clean" => \E h \in Used : hash_table[h].offset = p

(* insert_hash finds a bucket and clean_one_from_hash an entry to remove:   *)
(* neither loop of these functions runs for ever.                           *)
CallsEnd == pc # "loop" ~> pc = "loop"

(* The count and the sweeps that depend on it: insertions in the middle of a   *)
(* sweep neither make hash_count wrong nor leave behind what should have gone. *)
SweepSound == HashTypeOK /\ HashCountExact /\ SweepClean

(* What insert_hash stored it stored once, and find_best_match will come to it *)
(* in spite of all displacements and removals since.                           *)
EntriesFindable == StoredOnce /\ Findable
=============================================================================
