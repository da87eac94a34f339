---------------------------- MODULE ArchiveProofs ----------------------------
(***************************************************************************)
(* Proofs about the ring of compression threads, and about the archive     *)
(* that StreamOut leaves with it, for every number of threads, every input *)
(* and every mode.  RingInv says which buffers the slots hold: those       *)
(* handed over whose turn has not passed, each held once, by slots that    *)
(* follow each other around the ring from output_thread to current_thread. *)
(* On top of it ArchiveInv says how far the chunk loop has come (PassInv), *)
(* which buffers it has handed over (JobsInv), how often the filter is on  *)
(* each of them (AppliedInv), and where each record of the file is and     *)
(* what its headers say (FileInv).                                         *)
(***************************************************************************)
EXTENDS StreamOut, FiniteSetTheorems, WellFoundedInduction, TLAPS

-----------------------------------------------------------------------------
(* The ring. *)

(* A slot that holds a buffer whose turn has not passed. *)
Live(i) == tpc[i] \notin {"idle", "post"}

(* How many turns have passed. *)
Base == IF tpc[output_thread] = "advance" THEN Len(log) - 1 ELSE Len(log)

(* A live slot holds one of the buffers whose turn has not passed, and no  *)
(* other live slot holds it.                                               *)
HeldOnce ==
  /\ \A i \in Slots : Live(i) => slot[i] > Base /\ slot[i] <= jobs
  /\ \A i, j \in Slots : Live(i) /\ Live(j) /\ slot[i] = slot[j] => i = j

(* Every buffer whose turn has not passed is held. *)
AllHeld ==
  /\ Base <= jobs
  /\ \A k \in Nat : k > Base /\ k <= jobs =>
       \E i \in Slots : Live(i) /\ slot[i] = k

(* The live slots follow each other around the ring. *)
InRingOrder ==
  /\ \A i, j \in Slots :
       Live(i) /\ Live(j) /\ slot[j] = slot[i] + 1 => j = NextSlot(i)
  /\ \A i \in Slots :
       Live(i) /\ slot[i] = jobs => current_thread = NextSlot(i)
  /\ jobs = Base => current_thread = output_thread
  /\ jobs > Base => Live(output_thread) /\ slot[output_thread] = Base + 1

(* A semaphore that is up belongs to a slot without a thread. *)
SemIdle == \A i \in Slots : cksem[i] = 1 => tpc[i] = "idle"

(* A thread that has had its turn knows it. *)
WritersWaited == \A i \in Slots : tpc[i] \in Writing => waited[i] = 1

(* Steps around the ring from a to b. *)
Dist(a, b) == IF b >= a THEN b - a ELSE b - a + NThreads

(* The slots a waiting loop has passed have no thread. *)
LoopPassed ==
  /\ mpc \in {"drain", "closing"} =>
       \A i \in Slots : Dist(close_thread, i) >= NThreads - loop
                          => tpc[i] = "idle"
  /\ mpc \in {"drained", "done"} => \A i \in Slots : tpc[i] = "idle"

RingInv ==
  /\ TypeOK
  /\ HeldOnce
  /\ AllHeld
  /\ InRingOrder
  /\ WriterExclusion
  /\ SemIdle
  /\ WritersWaited
  /\ LoopPassed

(* The parts of the invariant that say which buffers the slots hold. *)
Holding == HeldOnce /\ AllHeld /\ InRingOrder

-----------------------------------------------------------------------------
(* Passing the turn, as compthread and clear_buffer do it, never leaves the *)
(* array cthreads.                                                          *)
LEMMA NextSlotType ==
  ASSUME NEW x \in Slots
  PROVE  NextSlot(x) \in Slots
  BY NThreadsAssumption DEF NextSlot, Slots

(* One step around the ring brings every slot but the first one nearer, as  *)
(* the waiting loops of close_stream_out and close_streamout_threads need.  *)
LEMMA DistStep ==
  ASSUME NEW a \in Slots, NEW b \in Slots
  PROVE  /\ Dist(a, b) \in 0 .. NThreads - 1
         /\ a # b => Dist(NextSlot(a), b) = Dist(a, b) - 1
  BY NThreadsAssumption DEF Dist, NextSlot, Slots

(* A step of a compthread between receiving its buffer and writing the      *)
(* block changes nothing about which buffers the slots hold.                *)
LEMMA QuietStep ==
  ASSUME TypeOK, Holding, NEW i \in Slots, NEW s \in Steps,
         Live(i), tpc[i] # "advance",
         s \notin {"idle", "post", "advance"},
         tpc' = [tpc EXCEPT ![i] = s],
         UNCHANGED <<jobs, slot, output_thread, current_thread, log>>
  PROVE  Holding'
<1>1. \A j \in Slots : Live(j)' <=> Live(j)
  BY DEF TypeOK, Live
<1>2. Base' = Base
  BY DEF TypeOK, Base
<1>3. HeldOnce'
  BY <1>1, <1>2 DEF Holding, HeldOnce
<1>4. AllHeld'
  BY <1>1, <1>2 DEF Holding, AllHeld
<1>5. InRingOrder'
  BY <1>1, <1>2 DEF Holding, InRingOrder, TypeOK
<1>. QED  BY <1>3, <1>4, <1>5 DEF Holding

(* A step that leaves the threads alone keeps what the slots hold. *)
LEMMA HoldingStutter ==
  ASSUME Holding, UNCHANGED <<jobs, slot, output_thread, current_thread,
                              log, tpc>>
  PROVE  Holding'
  BY DEF Holding, HeldOnce, AllHeld, InRingOrder, Live, Base

-----------------------------------------------------------------------------
(* The initial state satisfies the invariant. *)
LEMMA RingInvInit == RingInit => RingInv
<1>. SUFFICES ASSUME RingInit PROVE RingInv
  OBVIOUS
<1>1. TypeOK
  BY NThreadsAssumption, MaxJobsAssumption
     DEF RingInit, TypeOK, Phases, Steps, Slots
<1>2. HeldOnce /\ AllHeld /\ InRingOrder
  BY DEF RingInit, HeldOnce, AllHeld, InRingOrder, Live, Base
<1>3. WriterExclusion /\ SemIdle /\ WritersWaited /\ LoopPassed
  BY DEF RingInit, WriterExclusion, SemIdle, WritersWaited, LoopPassed,
         Writing
<1>. QED  BY <1>1, <1>2, <1>3 DEF RingInv

(* clear_buffer hands buffer jobs + 1 to a slot that has no thread. *)
LEMMA ClearBufferInv == RingInv /\ ClearBuffer => RingInv'
<1>. SUFFICES ASSUME RingInv, ClearBuffer PROVE RingInv'
  OBVIOUS
<1>. DEFINE c == current_thread
<1>0. TypeOK /\ c \in Slots /\ tpc[c] = "idle"
  BY DEF RingInv, TypeOK, SemIdle, ClearBuffer
<1>1. TypeOK'
  BY <1>0, NextSlotType, MaxJobsAssumption
     DEF TypeOK, ClearBuffer, Steps, Phases
<1>2. /\ \A j \in Slots : Live(j)' <=> (j = c \/ Live(j))
      /\ \A j \in Slots : slot'[j] = IF j = c THEN jobs + 1 ELSE slot[j]
  BY <1>0 DEF TypeOK, Live, ClearBuffer
<1>3. Base' = Base
  BY <1>0 DEF TypeOK, Base, ClearBuffer
<1>4. Base \in Int /\ jobs \in Int /\ Base <= jobs /\ jobs' = jobs + 1
      /\ slot \in [Slots -> Int] /\ ~Live(c)
  BY <1>0 DEF RingInv, TypeOK, AllHeld, Base, ClearBuffer, Live
<1>5. HeldOnce'
  BY <1>2, <1>3, <1>4 DEF RingInv, HeldOnce
<1>6. AllHeld'
  BY <1>0, <1>2, <1>3, <1>4 DEF RingInv, AllHeld
<1>7. InRingOrder'
  <2>1. \A i, j \in Slots :
          Live(i)' /\ Live(j)' /\ slot'[j] = slot'[i] + 1 => j = NextSlot(i)
    BY <1>2, <1>4 DEF RingInv, InRingOrder, HeldOnce
  <2>2. \A i \in Slots :
          Live(i)' /\ slot'[i] = jobs' => current_thread' = NextSlot(i)
    BY <1>2, <1>4 DEF RingInv, HeldOnce, ClearBuffer
  <2>3. jobs' # Base'
    BY <1>3, <1>4
  <2>4. Live(output_thread)' /\ slot'[output_thread] = Base + 1
    BY <1>0, <1>2, <1>4 DEF RingInv, InRingOrder, TypeOK, ClearBuffer, Live
  <2>5. output_thread' = output_thread
    BY DEF ClearBuffer
  <2>. QED  BY <2>1, <2>2, <2>3, <2>4, <2>5, <1>3 DEF InRingOrder, NextSlot
<1>8. WriterExclusion' /\ WritersWaited' /\ SemIdle' /\ LoopPassed'
  BY <1>0 DEF RingInv, WriterExclusion, WritersWaited, SemIdle, LoopPassed,
              ClearBuffer, TypeOK, Writing
<1>. QED  BY <1>1, <1>5, <1>6, <1>7, <1>8 DEF RingInv

(* The other steps of the main thread leave the threads alone; the waiting  *)
(* loops pass a slot only when its semaphore is up.                         *)
LEMMA WaitingLoopsInv ==
  ASSUME RingInv,
         \/ StartDrain \/ DrainWait \/ EndDrain \/ Resume
         \/ StartClose \/ CloseWait \/ EndClose
         \/ Fatal \/ Stopped
  PROVE  RingInv'
<1>0. TypeOK /\ Holding
  BY DEF RingInv, Holding
<1>1. UNCHANGED <<jobs, slot, output_thread, current_thread, log, tpc,
                  waited, ret>>
  BY DEF StartDrain, DrainWait, EndDrain, Resume, StartClose, CloseWait,
         EndClose, Fatal, Stopped, ringVars
<1>2. TypeOK'
  <2>1. mpc' \in Phases
    BY <1>0 DEF TypeOK, StartDrain, DrainWait, EndDrain, Resume, StartClose,
                CloseWait, EndClose, Fatal, Stopped, ringVars, Phases
  <2>2. cksem' \in [Slots -> {0, 1}]
    BY <1>0 DEF TypeOK, StartDrain, DrainWait, EndDrain, Resume, StartClose,
                CloseWait, EndClose, Fatal, Stopped, ringVars
  <2>3. loop' \in 0 .. NThreads
    BY <1>0, NThreadsAssumption
       DEF TypeOK, StartDrain, DrainWait, EndDrain, Resume, StartClose,
           CloseWait, EndClose, Fatal, Stopped, ringVars
  <2>4. close_thread' \in Slots
    BY <1>0, NextSlotType
       DEF TypeOK, StartDrain, DrainWait, EndDrain, Resume, StartClose,
           CloseWait, EndClose, Fatal, Stopped, ringVars
  <2>. QED  BY <1>0, <1>1, <2>1, <2>2, <2>3, <2>4 DEF TypeOK
<1>3. Holding'
  BY <1>0, <1>1, HoldingStutter
<1>4. WriterExclusion' /\ WritersWaited'
  BY <1>1 DEF RingInv, WriterExclusion, WritersWaited
<1>5. SemIdle'
  BY <1>0, <1>1
     DEF RingInv, SemIdle, TypeOK, StartDrain, DrainWait, EndDrain, Resume,
         StartClose, CloseWait, EndClose, Fatal, Stopped, ringVars
<1>6. LoopPassed'
  <2>1. CASE StartDrain \/ StartClose
    <3>1. close_thread' \in Slots /\ loop' = 0
          /\ mpc' \in {"drain", "closing"}
      BY <2>1, <1>0 DEF StartDrain, StartClose, TypeOK
    <3>2. \A i \in Slots : ~(Dist(close_thread', i) >= NThreads - loop')
      BY <3>1, DistStep, NThreadsAssumption
    <3>. QED  BY <3>1, <3>2 DEF LoopPassed, Dist
  <2>2. CASE DrainWait \/ CloseWait
    <3>1. /\ close_thread \in Slots /\ tpc[close_thread] = "idle"
          /\ close_thread' = NextSlot(close_thread)
          /\ loop' = loop + 1 /\ loop \in Int
          /\ mpc' = mpc /\ mpc \in {"drain", "closing"}
      BY <2>2, <1>0 DEF DrainWait, CloseWait, TypeOK, RingInv, SemIdle
    <3>2. ASSUME NEW i \in Slots,
                 Dist(close_thread', i) >= NThreads - loop'
          PROVE  tpc'[i] = "idle"
      <4>1. CASE i = close_thread
        BY <4>1, <3>1, <1>1
      <4>2. CASE i # close_thread
        <5>1. Dist(close_thread, i) >= NThreads - loop
          BY <4>2, <3>1, <3>2, DistStep, NThreadsAssumption
        <5>. QED  BY <5>1, <3>1, <1>1 DEF RingInv, LoopPassed
      <4>. QED  BY <4>1, <4>2
    <3>. QED  BY <3>1, <3>2 DEF LoopPassed, Dist
  <2>3. CASE EndDrain \/ EndClose
    <3>1. /\ loop = NThreads /\ close_thread \in Slots
          /\ mpc \in {"drain", "closing"} /\ mpc' \in {"drained", "done"}
      BY <2>3, <1>0 DEF EndDrain, EndClose, TypeOK
    <3>2. \A i \in Slots : Dist(close_thread, i) >= NThreads - loop
      BY <3>1, DistStep, NThreadsAssumption
    <3>. QED  BY <3>1, <3>2, <1>1 DEF RingInv, LoopPassed
  <2>4. CASE Resume \/ Fatal
    BY <2>4 DEF Resume, Fatal, LoopPassed
  <2>5. CASE Stopped
    BY <2>5 DEF Stopped, ringVars, RingInv, LoopPassed, Dist
  <2>. QED  BY <2>1, <2>2, <2>3, <2>4, <2>5
<1>. QED  BY <1>2, <1>3, <1>4, <1>5, <1>6 DEF RingInv, Holding

-----------------------------------------------------------------------------
(* The steps of a compthread up to its turn and the first two writing steps *)
(* move it from one live step to another.                                   *)
LEMMA ComputeInv ==
  ASSUME RingInv, NEW i \in Slots,
         \/ CompressOk(i) \/ CompressFail(i) \/ Sleep(i) \/ TakeTurn(i)
         \/ WriteMagic(i) \/ WriteHeader(i) \/ PatchLastHead(i)
  PROVE  RingInv'
<1>0. TypeOK /\ Holding
  BY DEF RingInv, Holding
<1>1. /\ UNCHANGED <<mpc, jobs, current_thread, output_thread, cksem, slot,
                     loop, close_thread, log>>
      /\ tpc[i] \in {"work", "turn", "magic", "header", "patch"}
  BY DEF CompressOk, CompressFail, Sleep, TakeTurn, WriteMagic, WriteHeader,
         PatchLastHead
<1>2. PICK s \in {"work", "turn", "asleep", "magic", "header", "patch",
                 "block"} :
        tpc' = [tpc EXCEPT ![i] = s]
  BY DEF CompressOk, CompressFail, Sleep, TakeTurn, WriteMagic, WriteHeader,
         PatchLastHead
<1>3. TypeOK'
  <2>1. waited' \in [Slots -> {0, 1}] /\ ret' \in [Slots -> {0, -1}]
    BY <1>0 DEF TypeOK, CompressOk, CompressFail, Sleep, TakeTurn,
                WriteMagic, WriteHeader, PatchLastHead
  <2>2. tpc' \in [Slots -> Steps]
    BY <1>0, <1>2 DEF TypeOK, Steps
  <2>. QED  BY <1>0, <1>1, <2>1, <2>2 DEF TypeOK
<1>4. Holding'
  BY <1>0, <1>1, <1>2, QuietStep DEF Live, Steps
<1>5. WriterExclusion' /\ WritersWaited'
  BY <1>0 DEF RingInv, WriterExclusion, WritersWaited, TypeOK, Writing,
              CompressOk, CompressFail, Sleep, TakeTurn, WriteMagic, WriteHeader,
              PatchLastHead
<1>6. SemIdle'
  BY <1>0, <1>1, <1>2 DEF RingInv, SemIdle, TypeOK
<1>7. LoopPassed'
  BY <1>0, <1>1, <1>2 DEF RingInv, LoopPassed, TypeOK, Dist
<1>. QED  BY <1>3, <1>4, <1>5, <1>6, <1>7 DEF RingInv, Holding

(* The block that compthread writes is the oldest one not in the file. *)
LEMMA WriteBlockOldest ==
  ASSUME RingInv, NEW i \in Slots, tpc[i] = "block"
  PROVE  /\ i = output_thread
         /\ slot[i] = Len(log) + 1
         /\ Len(log) < jobs
<1>1. i = output_thread /\ Live(i) /\ Base = Len(log)
  BY DEF RingInv, WriterExclusion, Writing, Live, Base
<1>2. jobs > Base
  BY <1>1 DEF RingInv, HeldOnce, TypeOK, Base
<1>. QED  BY <1>1, <1>2 DEF RingInv, InRingOrder

(* Writing the block does not pass the turn on yet. *)
LEMMA WriteBlockInv ==
  ASSUME RingInv, NEW i \in Slots, WriteBlock(i)
  PROVE  RingInv'
<1>0. TypeOK /\ i = output_thread /\ tpc[i] = "block"
  BY WriteBlockOldest DEF RingInv, WriteBlock
<1>1. TypeOK'
  BY <1>0 DEF TypeOK, WriteBlock, Steps
<1>2. \A j \in Slots : Live(j)' <=> Live(j)
  BY <1>0 DEF WriteBlock, TypeOK, Live
<1>3. Base' = Base
  BY <1>0 DEF WriteBlock, TypeOK, Base
<1>4. UNCHANGED <<jobs, slot, output_thread, current_thread>>
  BY DEF WriteBlock
<1>5. HeldOnce'
  BY <1>2, <1>3, <1>4 DEF RingInv, HeldOnce
<1>6. AllHeld'
  BY <1>2, <1>3, <1>4 DEF RingInv, AllHeld
<1>7. InRingOrder'
  BY <1>0, <1>2, <1>3, <1>4 DEF RingInv, InRingOrder
<1>8. WriterExclusion' /\ WritersWaited'
  BY <1>0 DEF RingInv, WriterExclusion, WritersWaited, TypeOK, WriteBlock,
              Writing
<1>9. SemIdle' /\ LoopPassed'
  BY <1>0 DEF RingInv, SemIdle, LoopPassed, TypeOK, WriteBlock, Dist
<1>. QED  BY <1>1, <1>5, <1>6, <1>7, <1>8, <1>9 DEF RingInv

(* Passing the turn on: the slot that gets it holds the next buffer, or is  *)
(* the one the next buffer will be handed to.                               *)
LEMMA AdvanceInv ==
  ASSUME RingInv, NEW i \in Slots, Advance(i)
  PROVE  RingInv'
<1>0. TypeOK /\ i = output_thread /\ tpc[i] = "advance" /\ Live(i)
  BY DEF RingInv, Advance, WriterExclusion, Writing, Live
<1>1. TypeOK'
  BY <1>0, NextSlotType DEF TypeOK, Advance, Steps
<1>2. \A j \in Slots : Live(j)' <=> (j # i /\ Live(j))
  BY <1>0 DEF Advance, TypeOK, Live
<1>3. \A j \in Slots : j # i => tpc[j] \notin Writing
  BY <1>0 DEF RingInv, WriterExclusion
<1>4. Base' = Base + 1 /\ Base \in Int
  <2>1. tpc'[output_thread'] # "advance"
    BY <1>0, <1>1, <1>3 DEF Advance, TypeOK, Writing
  <2>2. log' = log /\ Len(log) \in Int
    BY <1>0 DEF Advance, TypeOK
  <2>. QED  BY <1>0, <2>1, <2>2 DEF Base
<1>5. /\ UNCHANGED <<jobs, slot, current_thread>>
      /\ jobs \in Nat /\ slot \in [Slots -> Nat]
      /\ output_thread' = NextSlot(i) /\ slot[i] = Base + 1 /\ jobs > Base
  <2>1. UNCHANGED <<jobs, slot, current_thread>> /\ jobs \in Nat
        /\ slot \in [Slots -> Nat] /\ output_thread' = NextSlot(i)
    BY <1>0 DEF Advance, TypeOK
  <2>2. slot[i] > Base /\ slot[i] <= jobs
    BY <1>0 DEF RingInv, HeldOnce
  <2>3. jobs > Base
    BY <1>4, <2>1, <2>2
  <2>. QED  BY <1>0, <2>1, <2>3 DEF RingInv, InRingOrder
<1>6. HeldOnce'
  <2>1. \A j \in Slots : Live(j) /\ j # i => slot[j] # slot[i]
    BY <1>0 DEF RingInv, HeldOnce
  <2>. QED  BY <1>2, <1>4, <1>5, <2>1 DEF RingInv, HeldOnce
<1>7. AllHeld'
  <2>1. ASSUME NEW k \in Nat, k > Base + 1, k <= jobs
        PROVE  \E j \in Slots : Live(j)' /\ slot[j] = k
    <3>1. PICK j \in Slots : Live(j) /\ slot[j] = k
      BY <1>4, <1>5, <2>1 DEF RingInv, AllHeld
    <3>. QED  BY <3>1, <1>2, <1>4, <1>5, <2>1
  <2>. QED  BY <1>4, <1>5, <2>1 DEF AllHeld
<1>8. InRingOrder'
  <2>1. \A j, k \in Slots :
          Live(j)' /\ Live(k)' /\ slot[k] = slot[j] + 1 => k = NextSlot(j)
    BY <1>2 DEF RingInv, InRingOrder
  <2>2. \A j \in Slots :
          Live(j)' /\ slot[j] = jobs => current_thread = NextSlot(j)
    BY <1>2 DEF RingInv, InRingOrder
  <2>3. jobs = Base + 1 => current_thread = NextSlot(i)
    BY <1>0, <1>5 DEF RingInv, InRingOrder
  <2>4. ASSUME jobs > Base + 1
        PROVE  Live(output_thread)' /\ slot[NextSlot(i)] = Base + 2
    <3>1. PICK j \in Slots : Live(j) /\ slot[j] = Base + 2
      BY <1>4, <1>5, <2>4 DEF RingInv, AllHeld
    <3>2. j = NextSlot(i) /\ j # i
      BY <1>0, <1>4, <1>5, <3>1 DEF RingInv, InRingOrder
    <3>. QED  BY <1>2, <1>5, <3>1, <3>2 DEF Live
  <2>. QED  BY <1>4, <1>5, <2>1, <2>2, <2>3, <2>4 DEF InRingOrder, NextSlot
<1>9. WriterExclusion'
  <2>1. \A j \in Slots : j # i => ~(tpc[j] = "work" /\ waited[j] = 1)
    BY <1>0 DEF RingInv, WriterExclusion
  <2>. QED  BY <1>0, <1>3, <2>1 DEF WriterExclusion, Advance, TypeOK, Writing
<1>10. WritersWaited' /\ SemIdle' /\ LoopPassed'
  BY <1>0 DEF RingInv, WritersWaited, SemIdle, LoopPassed, TypeOK, Advance,
              Writing, Dist
<1>. QED  BY <1>1, <1>6, <1>7, <1>8, <1>9, <1>10 DEF RingInv

(* The thread gives its slot back when the turn has already passed. *)
LEMMA PostInv ==
  ASSUME RingInv, NEW i \in Slots, Post(i)
  PROVE  RingInv'
<1>0. TypeOK /\ tpc[i] = "post" /\ cksem[i] = 0
  BY DEF RingInv, Post, TypeOK, SemIdle
<1>1. TypeOK'
  BY <1>0 DEF TypeOK, Post, Steps
<1>2. /\ \A j \in Slots : Live(j)' <=> Live(j)
      /\ Base' = Base
      /\ UNCHANGED <<jobs, slot, output_thread, current_thread>>
  BY <1>0 DEF Post, TypeOK, Live, Base
<1>3. HeldOnce' /\ AllHeld'
  BY <1>2 DEF RingInv, HeldOnce, AllHeld
<1>4. InRingOrder'
  BY <1>0, <1>2 DEF RingInv, InRingOrder, TypeOK
<1>5. WriterExclusion' /\ WritersWaited' /\ SemIdle' /\ LoopPassed'
  BY <1>0 DEF RingInv, WriterExclusion, WritersWaited, SemIdle, LoopPassed,
              TypeOK, Post, Writing, Dist
<1>. QED  BY <1>1, <1>3, <1>4, <1>5 DEF RingInv

-----------------------------------------------------------------------------
(* Every step keeps the invariant. *)
LEMMA RingInvNext == RingInv /\ [RingNext]_ringVars => RingInv'
<1>. SUFFICES ASSUME RingInv, [RingNext]_ringVars PROVE RingInv'
  OBVIOUS
<1>1. CASE Main
  BY <1>1, ClearBufferInv, WaitingLoopsInv DEF Main
<1>2. ASSUME NEW i \in Slots, Compthread(i) PROVE RingInv'
  <2>1. CASE CompressFatal(i)
    <3>1. UNCHANGED <<jobs, current_thread, output_thread, cksem, tpc, slot,
                      waited, ret, loop, close_thread, log>>
          /\ mpc' = "fatal"
      BY <2>1 DEF CompressFatal
    <3>2. TypeOK'
      BY <3>1 DEF RingInv, TypeOK, Phases
    <3>3. Holding'
      BY <3>1, HoldingStutter DEF RingInv, Holding
    <3>4. WriterExclusion' /\ WritersWaited' /\ SemIdle' /\ LoopPassed'
      BY <3>1 DEF RingInv, WriterExclusion, WritersWaited, SemIdle,
                  LoopPassed
    <3>. QED  BY <3>2, <3>3, <3>4 DEF RingInv, Holding
  <2>. QED
    BY <1>2, <2>1, ComputeInv, WriteBlockInv, AdvanceInv, PostInv
       DEF Compthread
<1>3. CASE Fatal \/ Stopped
  BY <1>3, WaitingLoopsInv
<1>4. CASE UNCHANGED ringVars
  BY <1>4 DEF ringVars, RingInv, TypeOK, HeldOnce, AllHeld, InRingOrder,
              WriterExclusion, SemIdle, WritersWaited, LoopPassed, Live,
              Base, Dist
<1>. QED  BY <1>1, <1>2, <1>3, <1>4 DEF RingNext

(* The invariant holds in every reachable state of the ring. *)
THEOREM RingInvariant == RingSpec => []RingInv
<1>1. RingInit => RingInv
  BY RingInvInit
<1>2. RingInv /\ [RingNext]_ringVars => RingInv'
  BY RingInvNext
<1>. QED  BY <1>1, <1>2, PTL DEF RingSpec

(* Types: no slot index leaves cthreads, and no semaphore is posted twice   *)
(* (clear_buffer, compthread, close_stream_out).                            *)
THEOREM RingTyped == RingSpec => []TypeOK
<1>1. RingInv => TypeOK
  BY DEF RingInv
<1>. QED  BY <1>1, RingInvariant, PTL

(* Mutual exclusion of the writers: compthread's seeks and writes, done     *)
(* without a lock, never overlap, for any number of threads.                *)
THEOREM RingWriterExclusion == RingSpec => []WriterExclusion
<1>1. RingInv => WriterExclusion
  BY DEF RingInv
<1>. QED  BY <1>1, RingInvariant, PTL

(* When the waiting loop of close_stream_out or close_streamout_threads is  *)
(* through, no compthread is left and every buffer is in the file.          *)
THEOREM RingQuiescent == RingSpec => []QuiescentWhenDrained
<1>1. ASSUME RingInv PROVE QuiescentWhenDrained
  <2>1. SUFFICES ASSUME mpc \in {"drained", "done"}
        PROVE  (\A i \in Slots : tpc[i] = "idle") /\ Len(log) = jobs
    BY DEF QuiescentWhenDrained
  <2>2. \A i \in Slots : tpc[i] = "idle"
    BY <1>1, <2>1 DEF RingInv, LoopPassed
  <2>3. output_thread \in Slots /\ ~Live(output_thread) /\ Base = Len(log)
    BY <1>1, <2>2 DEF RingInv, TypeOK, Live, Base
  <2>4. Base \in Int /\ jobs \in Int /\ Base <= jobs /\ ~(jobs > Base)
    BY <1>1, <2>3 DEF RingInv, TypeOK, AllHeld, InRingOrder
  <2>. QED  BY <2>2, <2>3, <2>4
<1>. QED  BY <1>1, RingInvariant, PTL

(* The ring implements OrderedLog: blocks are written in the order in which *)
(* clear_buffer handed the buffers over.                                    *)
THEOREM RingKeepsPromise == RingSpec => KeepsPromise
<1>1. RingInit => Promise!Init
  BY DEF RingInit, Promise!Init
<1>2. ASSUME RingInv, [RingNext]_ringVars
      PROVE  [Promise!Next]_(Promise!vars)
  <2>1. CASE ClearBuffer
    BY <2>1 DEF ClearBuffer, Promise!Next, Promise!Accept
  <2>2. ASSUME NEW i \in Slots, WriteBlock(i)
        PROVE  Promise!Store
    BY <1>2, <2>2, WriteBlockOldest DEF WriteBlock, Promise!Store
  <2>3. CASE ~ClearBuffer /\ ~(\E i \in Slots : WriteBlock(i))
    <3>1. UNCHANGED <<jobs, log>>
      BY <1>2, <2>3
         DEF RingNext, Main, Compthread, StartDrain, DrainWait, EndDrain,
             Resume, StartClose, CloseWait, EndClose, CompressOk,
             CompressFail, CompressFatal, Sleep, TakeTurn, WriteMagic, WriteHeader,
             PatchLastHead, Advance, Post, Fatal, Stopped, ringVars
    <3>. QED  BY <3>1 DEF Promise!vars
  <2>. QED  BY <2>1, <2>2, <2>3 DEF Promise!Next
<1>. QED
  BY <1>1, <1>2, RingInvariant, PTL DEF RingSpec, KeepsPromise, Promise!Spec

-----------------------------------------------------------------------------
(* StreamOut adds the streams and the file to the ring of CompRing without  *)
(* adding to what the ring may do: every behaviour of StreamOut is one of   *)
(* the ring, so that what is proved of that holds of it as well.            *)

(* A step of rzip_fd is a step of the ring's main thread, or changes        *)
(* nothing about the ring.                                                  *)
LEMMA RzipFdRefines == RzipFd => [RingNext]_ringVars
<1>. SUFFICES ASSUME RzipFd PROVE [RingNext]_ringVars
  OBVIOUS
<1>1. CASE MapFile \/ MmapStdin \/ AddStdinSize \/ OpenStreamOut
           \/ WriteHash \/ WriteFinalMagic
  BY <1>1 DEF MapFile, MmapStdin, AddStdinSize, OpenStreamOut, WriteHash,
              WriteFinalMagic
<1>2. CASE \E j \in Streams : FlushBuffer(j) \/ CloseStreamOut(j)
  BY <1>2 DEF FlushBuffer, CloseStreamOut, HandOver, RingNext, Main
<1>3. CASE DrainThreads \/ EncryptLastHeads \/ CloseThreads
  BY <1>3 DEF DrainThreads, EncryptLastHeads, CloseThreads, RingNext, Main
<1>4. CASE EndPass
  <2>1. CASE mpc' = mpc
    BY <1>4, <2>1 DEF EndPass, ringVars
  <2>2. CASE mpc' = "fatal"
    BY <1>4, <2>2 DEF EndPass, RingNext, Fatal, Alive
  <2>. QED  BY <1>4, <2>1, <2>2 DEF EndPass
<1>. QED  BY <1>1, <1>2, <1>3, <1>4 DEF RzipFd

(* Every step of StreamOut is a step of the ring or leaves it alone. *)
LEMMA NextRefines == [Next]_vars => [RingNext]_ringVars
<1>. SUFFICES ASSUME [Next]_vars PROVE [RingNext]_ringVars
  OBVIOUS
<1>1. CASE RzipFd
  BY <1>1, RzipFdRefines
<1>2. ASSUME NEW i \in Slots, CompThread(i) PROVE Compthread(i)
  BY <1>2 DEF CompThread, Compress, GetTurn, RingStep, PutMagic, PutHeader,
              Patch, PutBlock, Compthread
<1>3. CASE Die
  BY <1>3 DEF Die, RingNext
<1>4. CASE Finished \/ UNCHANGED vars
  BY <1>4 DEF Finished, vars
<1>. QED  BY <1>1, <1>2, <1>3, <1>4 DEF Next, RingNext

(* Compressing a file, with the streams and the archive in view, behaves as *)
(* the ring of compthreads does.                                            *)
THEOREM StreamOutRefinesRing == Spec => RingSpec
<1>1. Init => RingInit
  BY DEF Init
<1>. QED  BY <1>1, NextRefines, PTL DEF Spec, RingSpec

(* No two threads ever seek and write in the archive at the same time, and  *)
(* close_stream_out encrypts the last headers only when none is left.       *)
THEOREM StreamOutExclusion ==
  Spec => [](WriterExclusion /\ QuiescentWhenDrained)
  BY StreamOutRefinesRing, RingWriterExclusion, RingQuiescent, PTL

(* The blocks of all streams get into the archive in the order in which the *)
(* rzip stage handed their buffers over.                                    *)
THEOREM StreamOutKeepsPromise == Spec => KeepsPromise
  BY StreamOutRefinesRing, RingKeepsPromise, PTL

-----------------------------------------------------------------------------
(* The chunk loop of rzip_fd. *)

(* The passes of the loop between open_stream_out and the end.              *)
InPass == {"search", "close", "drain", "next"}

(* The input that the chunks opened so far hold.                            *)
Taken ==
  IF mode.stdin
    THEN input - (inleft + (IF rpc \in {"stdin", "open"} THEN chunk_size ELSE 0))
    ELSE input - len + (IF rpc \in InPass THEN chunk_size ELSE 0)

PassTypes ==
  /\ mode \in Modes /\ input \in 0 .. MaxInput
  /\ rpc \in {"top", "stdin", "open", "magic", "finished"} \cup InPass
  /\ chunk \in Nat /\ chunk_size \in Nat /\ inleft \in Nat /\ len \in Int
  /\ st_size \in Nat /\ flushes \in Nat
  /\ eof \in {0, 1} /\ stdin_eof \in {0, 1}

(* Where the two levels of the main thread are together.                    *)
MainPlaces ==
  /\ mpc \in {"drain", "drained"} => rpc = "drain"
  /\ rpc = "drain" => mode.encrypt
  /\ mpc \in {"closing", "done"} => rpc \in {"top", "magic", "finished"} /\ ~MorePasses
  /\ rpc \in {"magic", "finished"} => mpc = "done"
  /\ rpc \in InPass => chunk > 0
  /\ rpc = "stdin" => mode.stdin

(* A file is mapped chunk by chunk; eof is set with the last of them.       *)
FilePass ==
  ~mode.stdin =>
    /\ inleft = 0 /\ len >= 0 /\ st_size = input
    /\ rpc = "open" => eof = 0 /\ chunk_size = MIN(ChunkUnits, len)
                       /\ (chunk = 0 \/ len > 0)
    /\ rpc \in InPass => chunk_size <= len /\ (eof = 1 <=> chunk_size = len)
    /\ rpc \in {"top", "magic", "finished"} => (eof = 1 <=> chunk > 0 /\ len = 0)

(* STDIN is read until a read returns less than was asked for.              *)
StdinPass ==
  mode.stdin =>
    /\ eof = stdin_eof /\ len <= 0
    /\ eof = 1 => inleft = 0
    /\ rpc = "top" /\ chunk = 0 => eof = 0
    /\ rpc \in {"stdin", "open"} /\ chunk_size = 0 => eof = 1
    /\ input = st_size + inleft + (IF rpc = "stdin" THEN chunk_size ELSE 0)

(* Every chunk but the last one holds data, and together they hold what was *)
(* taken.                                                                   *)
SizesAddUp ==
  /\ Taken \in 0 .. input
  /\ chunk <= Taken + (IF eof = 1 /\ rpc \notin {"stdin", "open"} THEN 1 ELSE 0)
  /\ \A c \in 1 .. chunk :
       sinfo[c].size = 0 => c = chunk /\ eof = 1 /\ rpc \notin {"stdin", "open"}
  /\ \E upTo \in [0 .. chunk -> 0 .. Taken] :
       /\ upTo[0] = 0 /\ upTo[chunk] = Taken
       /\ \A c \in 1 .. chunk : upTo[c] = upTo[c - 1] + sinfo[c].size

SinfoRec == [size: Nat, chunks: Nat, initial_pos: Nat, cur_pos: Nat,
             last_head: [Streams -> Nat], last_headofs: [Streams -> Nat]]

SinfoTypes == sinfo \in [Chunks -> SinfoRec]

PassInv == PassTypes /\ SinfoTypes /\ MainPlaces /\ FilePass /\ StdinPass /\ SizesAddUp

-----------------------------------------------------------------------------
(* The buffers handed over. *)

(* The chunk of the last buffer handed over. *)
Filled == IF jobs = 0 THEN 0 ELSE job[jobs].chunk

(* The last buffer of stream j of chunk c has been handed over. *)
HandedOver(c, j) == \/ c < chunk \/ rpc \notin {"search", "close"}
                    \/ rpc = "close" /\ j = 0

JobRec == [chunk: Nat \ {0}, stream: Streams]

JobsInv ==
  /\ job \in Seq(JobRec) /\ Len(job) = jobs
  /\ \A k \in 1 .. jobs : job[k].chunk <= chunk
  /\ \A k \in 1 .. jobs : \A l \in 1 .. jobs :
       k <= l => job[k].chunk <= job[l].chunk
  /\ \A k \in 1 .. jobs :
       job[k].chunk <= (IF k = 1 THEN 0 ELSE job[k - 1].chunk) + 1
  /\ Filled \in {chunk - 1, chunk}
  /\ rpc # "search" => Filled = chunk
  /\ \A c \in 1 .. chunk : \A j \in Streams :
       HandedOver(c, j) =>
         \E k \in 1 .. jobs : job[k].chunk = c /\ job[k].stream = j
  /\ \A i \in Slots : tpc[i] # "idle" => slot[i] \in 1 .. jobs

(* With ENCRYPT main waits for the threads before it goes on to the next    *)
(* chunk.                                                                   *)
ChunkDrained ==
  mode.encrypt =>
    \A k \in 1 .. jobs :
      k > Len(log) => job[k].chunk = chunk /\ rpc \in {"search", "close", "drain"}

-----------------------------------------------------------------------------
(* The filter. *)

(* How often the filter is to be on a block of stream j. *)
Once(j) == IF mode.filter # "none" /\ j = 1 THEN 1 ELSE 0

AppliedTypes ==
  /\ applied \in [Slots -> 0 .. 2]
  /\ \A i \in Slots :
       /\ tpc[i] = "work" /\ waited[i] = 0 => applied[i] = 0
       /\ tpc[i] \in {"work", "turn", "asleep"} => applied[i] <= 1

(* A filter other than RISC-V is on the data once when they are compressed  *)
(* and not at all before another attempt.                                   *)
AppliedOnce ==
  \A i \in Slots :
    /\ tpc[i] = "work" => applied[i] = 0
    /\ tpc[i] \in {"turn", "asleep", "magic", "header", "patch", "block"} =>
         applied[i] = Once(Stream(i))

AppliedInv == AppliedTypes /\ (mode.filter # "riscv" => AppliedOnce)

-----------------------------------------------------------------------------
(* The file. *)

(* How far the thread whose turn it is has come with its block. *)
Phase == IF tpc[output_thread] \in {"header", "patch", "block"}
           THEN tpc[output_thread] ELSE "none"

(* The chunk whose header was the last to be written. *)
Opened ==
  IF Phase \in {"patch", "block"} THEN job[Len(log) + 1].chunk
  ELSE IF Len(log) = 0 THEN 0 ELSE job[Len(log)].chunk

(* The hash has been written. *)
Hashed == rpc \in {"magic", "finished"}

(* Where the block of buffer k is, and where chunk c starts. *)
Pos(k) == k + 3 * job[k].chunk
Start(c) == sinfo[c].initial_pos

HeadRec == [kind: {"head"}, chunk: Nat, stream: Streams, next: Nat, enc: Nat]
BlockRec == [kind: {"block"}, job: Nat, chunk: Nat, stream: Streams, next: Nat,
             enc: Nat, filtered: 0 .. 2]
Records == {Blank} \cup [kind: {"magic"}, size: Nat] \cup [kind: {"hash"}]
           \cup [kind: {"chunk"}, chunk: Nat, eof: {0, 1}, size: Nat]
           \cup HeadRec \cup BlockRec

BlockAt(p, k) ==
  /\ At(p) \in BlockRec
  /\ At(p).job = k /\ At(p).chunk = job[k].chunk /\ At(p).stream = job[k].stream
  /\ mode.filter # "riscv" => At(p).filtered = Once(job[k].stream)

ChunkStart(p, c) == At(p).kind = "chunk" /\ At(p).chunk = c /\ At(p).size = sinfo[c].size

HeadAt(p, c, j) == At(p) \in HeadRec /\ At(p).chunk = c /\ At(p).stream = j

(* Each record is where the numbers of chunks and buffers put it, and there *)
(* are no others.                                                           *)
Places ==
  /\ file \in Seq(Records)
  /\ Len(file) = 1 + Len(log) + 3 * Opened + (IF Hashed THEN 1 ELSE 0)
  /\ At(0).kind = IF magic_written = 1 THEN "magic" ELSE "blank"
  /\ \A k \in 1 .. Len(log) : BlockAt(Pos(k), k)
  /\ \A c \in 1 .. Opened :
       /\ ChunkStart(Start(c) - 1, c)
       /\ \A j \in Streams : HeadAt(Start(c) + j, c, j)
  /\ Hashed => At(Len(file) - 1).kind = "hash"
  /\ \A p \in Offsets :
       \/ p = 0 \/ (Hashed /\ p = Len(file) - 1)
       \/ \E c \in 1 .. Opened : p \in {Start(c) - 1, Start(c), Start(c) + 1}
       \/ \E k \in 1 .. Len(log) : p = Pos(k)

(* The chunks follow one another, each with its blocks. *)
InOrder ==
  /\ \A c \in 1 .. Opened : Start(c) >= 2 /\ Start(c) + 1 < Len(file)
  /\ \A c \in 1 .. Opened : \A d \in 1 .. Opened : c < d => Start(c) + 2 < Start(d)
  /\ \A c \in 1 .. Opened : \A k \in 1 .. Len(log) :
       IF job[k].chunk < c THEN Pos(k) + 1 < Start(c) ELSE Start(c) + 1 < Pos(k)

(* What compthread knows of the chunk it is writing. *)
SinfoSound ==
  /\ \A c \in Chunks : sinfo[c].chunks = 0 <=> c > Opened
  /\ Opened > 0 /\ ~Hashed => Start(Opened) + sinfo[Opened].cur_pos = Len(file)
  /\ Phase = "block" =>
       sinfo[Opened].last_head[job[Len(log) + 1].stream] = sinfo[Opened].cur_pos

(* The blocks of which a header knows: those in the file, and the one that  *)
(* will be there next once last_head points to it.                          *)
Known == IF Phase = "block" THEN Len(log) + 1 ELSE Len(log)

(* A header of stream j of chunk c is at p. *)
IsHead(p, c, j) ==
  \/ p = Start(c) + j
  \/ \E k \in 1 .. Known : job[k].chunk = c /\ job[k].stream = j /\ p = Pos(k)

Last(c, j) == Start(c) + sinfo[c].last_head[j]

(* The headers of stream j of chunk c are linked in the order in which they *)
(* are in the file, and last_head leads to the last one.                    *)
Linked(c, j) ==
  /\ IsHead(Last(c, j), c, j)
  /\ Last(c, j) < Len(file) => At(Last(c, j)).next = 0
  /\ \A p \in Offsets :
       IsHead(p, c, j) /\ p # Last(c, j) =>
         LET q == Start(c) + At(p).next
         IN /\ p < q /\ q <= Last(c, j) /\ IsHead(q, c, j)
            /\ \A r \in Offsets : IsHead(r, c, j) => r <= p \/ r >= q

Chains == \A c \in 1 .. Opened : \A j \in Streams : Linked(c, j)

(* Chunk c is through with close_stream_out. *)
Closed(c) == c < chunk \/ rpc \notin {"search", "close", "drain"}

(* A header is encrypted when it is left behind, or the chunk is. *)
EncAt(c, j) ==
  \A p \in Offsets :
    IsHead(p, c, j) =>
      At(p).enc = IF mode.encrypt /\ (p # Last(c, j) \/ Closed(c)) THEN 1 ELSE 0

EncSound == \A c \in 1 .. Opened : \A j \in Streams : EncAt(c, j)

(* last_headofs follows last_head, unless there is no block yet. *)
LastOfsSound ==
  mode.encrypt =>
    \A c \in 1 .. Opened : \A j \in Streams :
      \/ sinfo[c].last_headofs[j] = sinfo[c].last_head[j]
      \/ sinfo[c].last_head[j] = j
      \/ Phase = "block" /\ job[Len(log) + 1].chunk = c /\ job[Len(log) + 1].stream = j

(* The flag of a chunk in an encrypted archive, and of empty input. *)
FlagsSound ==
  /\ mode.encrypt =>
       \A c \in 1 .. Opened :
         At(Start(c) - 1).eof = 1 <=> c = chunk /\ eof = 1 /\ rpc \notin {"stdin", "open"}
  /\ input = 0 => \A c \in 1 .. Opened : At(Start(c) - 1).eof = 1

(* Where the file offset is, what was sent to STDOUT, and when the magic is *)
(* there.                                                                   *)
OffsetSound ==
  /\ fpos \in 0 .. Len(file)
  /\ rpc # "finished" /\ Phase # "block" => fpos = Len(file)
  /\ flushed = IF ~mode.stdout \/ (Opened = 0 /\ ~Hashed) THEN 0
               ELSE IF Hashed THEN Len(file) ELSE Start(Opened) - 1
  /\ magic_written \in {0, 1}
  /\ ~mode.stdout => (magic_written = 1 <=> rpc = "finished")
  /\ mode.stdout => rpc # "magic"
  /\ mode.stdout /\ (Opened > 0 \/ Phase = "header") => magic_written = 1
  /\ rpc = "finished" /\ ~mode.stdout =>
       At(0).size = IF mode.encrypt THEN 0 ELSE input

FileInv == /\ Places /\ InOrder /\ SinfoSound /\ Chains /\ EncSound /\ LastOfsSound
           /\ FlagsSound /\ OffsetSound

ArchiveInv == RingInv /\ PassInv /\ JobsInv /\ ChunkDrained /\ AppliedInv /\ FileInv
-----------------------------------------------------------------------------
(* What the threads leave to the main thread, and the main thread to them.  *)

(* A compthread changes nothing that the chunk loop works with. *)
LEMMA ThreadKeeps ==
  ASSUME RingInv, NEW i \in Slots, CompThread(i)
  PROVE  /\ UNCHANGED <<mode, input, rzipVars, job, jobs, slot, current_thread>>
         /\ mpc' \in {mpc, "fatal"} /\ mpc # "done"
         /\ tpc[i] # "idle"
<1>1. UNCHANGED <<mode, input, rzipVars, job>> /\ Compthread(i)
  BY DEF CompThread, Compress, GetTurn, RingStep, PutMagic, PutHeader, Patch, PutBlock,
         Compthread
<1>2. tpc[i] # "idle" /\ mpc' \in {mpc, "fatal"} /\ UNCHANGED <<jobs, slot, current_thread>>
  BY <1>1 DEF Compthread, CompressOk, CompressFail, CompressFatal, Sleep, TakeTurn,
              WriteMagic, WriteHeader, PatchLastHead, WriteBlock, Advance, Post
<1>3. mpc # "done"
  BY <1>2 DEF RingInv, LoopPassed
<1>. QED  BY <1>1, <1>2, <1>3

(* The chunk that a buffer belongs to has its stream_info. *)
LEMMA ChunkFits ==
  ASSUME PassInv
  PROVE  /\ chunk \in 0 .. MaxChunks /\ 0 .. chunk \subseteq Nat
         /\ 1 .. chunk \subseteq Chunks
         /\ rpc = "open" => chunk + 1 \in Chunks
<1>1. chunk \in Nat /\ input \in 0 .. MaxInput /\ Taken \in 0 .. input
  BY DEF PassInv, PassTypes, SizesAddUp
<1>2. chunk <= Taken + 1 /\ (rpc = "open" => chunk <= Taken)
  BY <1>1 DEF PassInv, SizesAddUp
<1>3. MaxInput \in Nat
  BY InputAssumption
<1>. QED  BY <1>1, <1>2, <1>3 DEF MaxChunks, Chunks

(* rzip_fd starts before its first pass, with nothing taken in.             *)
LEMMA PassInit == Init => PassInv
<1>. SUFFICES ASSUME Init PROVE PassInv
  OBVIOUS
<1>1. MaxInput \in Nat /\ input \in 0 .. MaxInput /\ mode \in Modes
      /\ chunk = 0 /\ rpc = "top" /\ mpc = "run" /\ eof = 0 /\ stdin_eof = 0
      /\ len = (IF mode.stdin THEN 0 ELSE input) /\ st_size = len
      /\ inleft = (IF mode.stdin THEN input ELSE 0) /\ chunk_size = 0 /\ flushes = 0
  BY InputAssumption DEF Init, RingInit
<1>2. PassTypes /\ MainPlaces /\ FilePass /\ StdinPass
  BY <1>1 DEF PassTypes, MainPlaces, FilePass, StdinPass, InPass
<1>3. SinfoTypes
  BY DEF Init, SinfoTypes, SinfoRec, NewSinfo, Streams
<1>4. Taken = 0
  BY <1>1 DEF Taken, InPass
<1>5. SizesAddUp
  <2>. DEFINE none == [c \in 0 .. 0 |-> 0]
  <2>1. none \in [0 .. 0 -> 0 .. 0] /\ none[0] = 0
    OBVIOUS
  <2>2. none \in [0 .. chunk -> 0 .. Taken] /\ none[0] = 0 /\ none[chunk] = Taken
    BY <1>1, <1>4, <2>1
  <2>3. 1 .. chunk = {} /\ chunk <= Taken /\ Taken \in 0 .. input
    BY <1>1, <1>4
  <2>. HIDE DEF none
  <2>. QED  BY <1>1, <2>2, <2>3 DEF SizesAddUp
<1>. QED  BY <1>2, <1>3, <1>5 DEF PassInv

(* The sums stay as long as chunks and sizes do. *)
LEMMA SumsStay ==
  ASSUME SizesAddUp, chunk' = chunk, input' = input, Taken' = Taken,
         \A c \in 1 .. chunk : sinfo'[c].size = sinfo[c].size,
         chunk \in Nat, input \in Nat,
         eof = 1 /\ rpc \notin {"stdin", "open"} =>
           eof' = 1 /\ rpc' \notin {"stdin", "open"}
  PROVE  SizesAddUp'
<1>1. PICK upTo \in [0 .. chunk -> 0 .. Taken] :
        /\ upTo[0] = 0 /\ upTo[chunk] = Taken
        /\ \A c \in 1 .. chunk : upTo[c] = upTo[c - 1] + sinfo[c].size
  BY DEF SizesAddUp
<1>2. /\ upTo \in [0 .. chunk' -> 0 .. Taken'] /\ upTo[0] = 0 /\ upTo[chunk'] = Taken'
      /\ \A c \in 1 .. chunk' : upTo[c] = upTo[c - 1] + sinfo'[c].size
  <2>1. upTo \in [0 .. chunk' -> 0 .. Taken']
    BY <1>1, Zenon
  <2>2. \A c \in 1 .. chunk' : upTo[c] = upTo[c - 1] + sinfo'[c].size
    <3>. SUFFICES ASSUME NEW c \in 1 .. chunk
                  PROVE  upTo[c] = upTo[c - 1] + sinfo'[c].size
      BY Zenon
    <3>. QED  BY <1>1, Zenon
  <2>. QED  BY <1>1, <2>1, <2>2, Zenon
<1>3. Taken' \in 0 .. input'
  BY DEF SizesAddUp
<1>4. chunk' <= Taken' + (IF eof' = 1 /\ rpc' \notin {"stdin", "open"} THEN 1 ELSE 0)
  BY <1>3 DEF SizesAddUp
<1>5. \A c \in 1 .. chunk' :
        sinfo'[c].size = 0 => c = chunk' /\ eof' = 1 /\ rpc' \notin {"stdin", "open"}
  BY DEF SizesAddUp
<1>. QED  BY <1>2, <1>3, <1>4, <1>5 DEF SizesAddUp

(* Steps of the loop that take nothing in.                                  *)
LEMMA PassMain ==
  ASSUME PassInv, RingInv,
         \/ MapFile \/ MmapStdin \/ AddStdinSize
         \/ \E j \in Streams : FlushBuffer(j) \/ CloseStreamOut(j)
         \/ DrainThreads \/ EncryptLastHeads \/ EndPass
         \/ CloseThreads \/ WriteHash \/ WriteFinalMagic
  PROVE  PassInv'
<1>1. /\ mode \in Modes /\ input \in 0 .. MaxInput /\ MaxInput \in Nat
      /\ ChunkUnits \in Nat \ {0}
      /\ chunk \in Nat /\ chunk_size \in Nat /\ inleft \in Nat /\ len \in Int
      /\ st_size \in Nat /\ flushes \in Nat /\ eof \in {0, 1} /\ stdin_eof \in {0, 1}
      /\ sinfo' = sinfo /\ mode' = mode /\ input' = input /\ chunk' = chunk
  BY InputAssumption
     DEF PassInv, PassTypes, MapFile, MmapStdin, AddStdinSize, FlushBuffer, CloseStreamOut,
         DrainThreads, EncryptLastHeads, EndPass, CloseThreads, WriteHash, WriteFinalMagic,
         fileVars, rzipVars
<1>2. SinfoTypes'
  BY <1>1 DEF PassInv, SinfoTypes
<1>3. CASE MapFile
  <2>1. PassTypes'
    BY <1>1, <1>3 DEF MapFile, PassInv, PassTypes, FilePass, MIN, InPass
  <2>2. MainPlaces'
    BY <1>1, <1>3 DEF MapFile, PassInv, MainPlaces, ringVars, InPass
  <2>3. FilePass' /\ StdinPass'
    BY <1>1, <1>3 DEF MapFile, PassInv, FilePass, StdinPass, MorePasses, InPass
  <2>4. Taken' = Taken
    BY <1>1, <1>3 DEF MapFile, Taken, InPass
  <2>5. ~(eof = 1 /\ rpc \notin {"stdin", "open"})
    BY <1>1, <1>3 DEF MapFile, PassInv, FilePass, MorePasses
  <2>. QED  BY <1>1, <1>2, <2>1, <2>2, <2>3, <2>4, <2>5, SumsStay DEF PassInv
<1>4. CASE MmapStdin
  <2>1. PICK room \in 1 .. ChunkUnits :
          /\ chunk_size' = MIN(room, inleft)
          /\ IF inleft < room THEN eof' = 1 /\ stdin_eof' = 1
                              ELSE UNCHANGED <<eof, stdin_eof>>
    BY <1>4 DEF MmapStdin
  <2>2. /\ room \in Nat /\ room > 0 /\ chunk_size' \in Nat /\ inleft - chunk_size' = inleft'
        /\ inleft' \in Nat /\ (chunk_size' = 0 => eof' = 1) /\ (inleft < room => inleft' = 0)
        /\ mode.stdin /\ rpc = "top" /\ rpc' = "stdin" /\ mpc = "run" /\ mpc' = "run"
        /\ UNCHANGED <<len, st_size, flushes>>
    BY <1>1, <1>4, <2>1 DEF MmapStdin, MIN, ringVars
  <2>3. eof = 0 /\ stdin_eof = 0
    BY <1>1, <1>4 DEF MmapStdin, MorePasses, PassInv, StdinPass
  <2>4. PassTypes'
    BY <1>1, <2>1, <2>2 DEF PassTypes
  <2>5. MainPlaces'
    BY <1>1, <2>2 DEF MainPlaces, InPass
  <2>6. FilePass' /\ StdinPass'
    BY <1>1, <2>1, <2>2, <2>3 DEF PassInv, FilePass, StdinPass
  <2>7. Taken' = Taken
    <3>1. inleft' + chunk_size' = inleft
      <4>1. inleft \in Int /\ chunk_size' \in Int
        BY <1>1, <2>2
      <4>2. inleft - chunk_size' = inleft'
        BY <2>2
      <4>. QED  BY <4>1, <4>2
    <3>2. Taken = input - inleft
      BY <1>1, <2>2 DEF Taken
    <3>3. Taken' = input' - (inleft' + chunk_size')
      BY <1>1, <2>2 DEF Taken
    <3>. QED  BY <1>1, <3>1, <3>2, <3>3
  <2>. QED  BY <1>1, <1>2, <2>3, <2>4, <2>5, <2>6, <2>7, SumsStay DEF PassInv
<1>5. CASE AddStdinSize
  <2>1. mode.stdin /\ mpc' = "run"
    BY <1>5 DEF AddStdinSize, PassInv, MainPlaces, ringVars
  <2>2. PassTypes'
    BY <1>1, <1>5 DEF AddStdinSize, PassTypes
  <2>3. MainPlaces'
    BY <1>1, <1>5, <2>1 DEF AddStdinSize, MainPlaces, InPass
  <2>4. FilePass' /\ StdinPass'
    BY <1>1, <1>5, <2>1 DEF AddStdinSize, PassInv, FilePass, StdinPass
  <2>5. Taken' = Taken
    BY <1>1, <1>5, <2>1 DEF AddStdinSize, Taken
  <2>6. ~(eof = 1 /\ rpc \notin {"stdin", "open"})
    BY <1>5 DEF AddStdinSize
  <2>. QED  BY <1>1, <1>2, <2>2, <2>3, <2>4, <2>5, <2>6, SumsStay DEF PassInv
<1>6. CASE \E j \in Streams : FlushBuffer(j) \/ CloseStreamOut(j)
  <2>1. /\ UNCHANGED <<len, inleft, chunk_size, st_size, eof, stdin_eof>>
        /\ rpc \in {"search", "close"} /\ rpc' \in InPass
        /\ rpc' = "drain" => mode.encrypt
        /\ mpc = "run" /\ mpc' = "run" /\ flushes' \in Nat
    BY <1>1, <1>6 DEF FlushBuffer, CloseStreamOut, HandOver, ClearBuffer, InPass
  <2>2. PassTypes'
    BY <1>1, <2>1 DEF PassTypes
  <2>3. MainPlaces'
    BY <1>1, <2>1 DEF PassInv, MainPlaces, InPass
  <2>4. FilePass' /\ StdinPass'
    BY <1>1, <2>1 DEF PassInv, FilePass, StdinPass, InPass
  <2>5. Taken' = Taken
    BY <1>1, <2>1 DEF Taken, InPass
  <2>. QED  BY <1>1, <1>2, <2>1, <2>2, <2>3, <2>4, <2>5, SumsStay DEF PassInv, InPass
<1>7. CASE DrainThreads \/ EncryptLastHeads
  <2>1. /\ UNCHANGED <<len, inleft, chunk_size, st_size, eof, stdin_eof, flushes>>
        /\ rpc = "drain" /\ (rpc' = "drain" \/ rpc' = "next")
        /\ mpc' \in {"drain", "drained", "run"} /\ (mpc' # "run" => rpc' = "drain")
    BY <1>1, <1>7
       DEF DrainThreads, EncryptLastHeads, PassInv, MainPlaces, StartDrain, DrainWait, EndDrain,
           Resume, rzipVars
  <2>2. PassTypes'
    BY <1>1, <2>1 DEF PassTypes, InPass
  <2>3. MainPlaces'
    BY <1>1, <2>1 DEF PassInv, MainPlaces, InPass
  <2>4. FilePass' /\ StdinPass'
    BY <1>1, <2>1 DEF PassInv, FilePass, StdinPass, InPass
  <2>5. Taken' = Taken
    BY <1>1, <2>1 DEF Taken, InPass
  <2>. QED  BY <1>1, <1>2, <2>1, <2>2, <2>3, <2>4, <2>5, SumsStay DEF PassInv
<1>8. CASE EndPass
  <2>1. /\ UNCHANGED <<inleft, chunk_size, st_size, eof, stdin_eof, flushes>>
        /\ rpc = "next" /\ rpc' = "top" /\ len' = len - chunk_size
        /\ mpc' \in {"run", "fatal"} /\ chunk > 0
    BY <1>1, <1>8 DEF EndPass, PassInv, MainPlaces, InPass
  <2>2. PassTypes'
    BY <1>1, <2>1 DEF PassTypes
  <2>3. MainPlaces'
    BY <1>1, <2>1 DEF PassInv, MainPlaces, InPass
  <2>4. FilePass' /\ StdinPass'
    <3>1. len' \in Int
      BY <1>1, <2>1
    <3>. QED  BY <1>1, <2>1, <3>1 DEF PassInv, FilePass, StdinPass, InPass
  <2>5. Taken' = Taken
    BY <1>1, <2>1 DEF Taken, InPass
  <2>. QED  BY <1>1, <1>2, <2>1, <2>2, <2>3, <2>4, <2>5, SumsStay DEF PassInv
<1>9. CASE CloseThreads \/ WriteHash \/ WriteFinalMagic
  <2>1. /\ UNCHANGED <<len, inleft, chunk_size, st_size, eof, stdin_eof, flushes>>
        /\ rpc \in {"top", "magic"} /\ rpc' \in {"top", "magic", "finished"}
        /\ MorePasses' = MorePasses /\ ~MorePasses
        /\ mpc' \in {"closing", "done"} /\ (rpc' # "top" => mpc' = "done")
    BY <1>1, <1>9
       DEF CloseThreads, WriteHash, WriteFinalMagic, PassInv, MainPlaces, StartClose, CloseWait,
           EndClose, rzipVars, ringVars, MorePasses
  <2>2. PassTypes'
    BY <1>1, <2>1 DEF PassTypes
  <2>3. MainPlaces'
    BY <1>1, <2>1 DEF PassInv, MainPlaces, InPass
  <2>4. FilePass' /\ StdinPass'
    <3>1. FilePass'
      BY <1>1, <2>1 DEF PassInv, FilePass, InPass, MorePasses
    <3>2. StdinPass'
      BY <1>1, <2>1 DEF PassInv, StdinPass, MorePasses
    <3>. QED  BY <3>1, <3>2
  <2>5. Taken' = Taken
    BY <1>1, <2>1 DEF Taken, InPass
  <2>. QED  BY <1>1, <1>2, <2>1, <2>2, <2>3, <2>4, <2>5, SumsStay DEF PassInv
<1>. QED  BY <1>3, <1>4, <1>5, <1>6, <1>7, <1>8, <1>9

(* open_stream_out takes the chunk in. *)
LEMMA PassOpen ==
  ASSUME PassInv, OpenStreamOut
  PROVE  PassInv'
<1>1. /\ mode \in Modes /\ input \in Nat /\ chunk \in Nat /\ chunk_size \in Nat
      /\ inleft \in Nat /\ len \in Int /\ st_size \in Nat /\ eof \in {0, 1}
      /\ Taken \in 0 .. input /\ chunk <= Taken
  BY DEF PassInv, PassTypes, SizesAddUp, OpenStreamOut
<1>2. /\ rpc = "open" /\ rpc' = "search" /\ mpc = "run" /\ mpc' = "run"
      /\ eof' = (IF chunk_size = len THEN 1 ELSE eof) /\ chunk' = chunk + 1
      /\ sinfo' = [sinfo EXCEPT ![chunk + 1].size = chunk_size]
      /\ flushes' = 0
      /\ UNCHANGED <<mode, input, len, inleft, chunk_size, st_size, stdin_eof>>
  BY DEF OpenStreamOut, ringVars
<1>3. chunk + 1 \in Chunks /\ 1 .. chunk \subseteq Chunks
  BY <1>2, ChunkFits
<1>4. SinfoTypes'
  BY <1>1, <1>2, <1>3 DEF PassInv, SinfoTypes, SinfoRec
<1>5. sinfo'[chunk + 1].size = chunk_size
      /\ \A c \in 1 .. chunk : sinfo'[c].size = sinfo[c].size
  BY <1>1, <1>2, <1>3 DEF PassInv, SinfoTypes, SinfoRec
<1>6. PassTypes' /\ MainPlaces'
  BY <1>1, <1>2 DEF PassInv, PassTypes, MainPlaces, InPass
<1>7. chunk_size = 0 => eof' = 1
  BY <1>1, <1>2, InputAssumption DEF PassInv, FilePass, StdinPass, MIN
<1>8. FilePass'
  BY <1>1, <1>2, InputAssumption DEF PassInv, FilePass, MIN, InPass
<1>9. StdinPass'
  <2>1. mode.stdin => eof' = stdin_eof'
    BY <1>1, <1>2, <1>7 DEF PassInv, StdinPass
  <2>2. mode.stdin => input' = st_size' + inleft' + 0
    BY <1>1, <1>2 DEF PassInv, StdinPass
  <2>3. mode.stdin => len' <= 0 /\ (eof' = 1 => inleft' = 0)
    BY <1>1, <1>2, <1>7 DEF PassInv, StdinPass
  <2>. QED  BY <1>2, <2>1, <2>2, <2>3 DEF StdinPass
<1>10. Taken' = Taken + chunk_size /\ Taken' \in 0 .. input
  <2>1. CASE mode.stdin
    <3>1. Taken = input - (inleft + chunk_size) /\ Taken' = input - (inleft + 0)
      BY <1>1, <1>2, <2>1 DEF Taken
    <3>. QED  BY <1>1, <3>1
  <2>2. CASE ~mode.stdin
    <3>1. Taken = input - len + 0 /\ Taken' = input - len + chunk_size /\ chunk_size <= len
      BY <1>1, <1>2, <1>8, <2>2 DEF Taken, InPass, FilePass
    <3>. QED  BY <1>1, <3>1
  <2>. QED  BY <2>1, <2>2
<1>11. SizesAddUp'
  <2>1. PICK upTo \in [0 .. chunk -> 0 .. Taken] :
          /\ upTo[0] = 0 /\ upTo[chunk] = Taken
          /\ \A c \in 1 .. chunk : upTo[c] = upTo[c - 1] + sinfo[c].size
    BY DEF PassInv, SizesAddUp
  <2>. DEFINE more == [c \in 0 .. chunk + 1 |-> IF c = chunk + 1 THEN Taken + chunk_size
                                                ELSE upTo[c]]
  <2>2. more \in [0 .. chunk + 1 -> 0 .. Taken + chunk_size]
    BY <1>1, <2>1
  <2>3. more[0] = 0 /\ more[chunk + 1] = Taken + chunk_size
    BY <1>1, <2>1
  <2>4. ASSUME NEW c \in 1 .. chunk + 1
        PROVE  more[c] = more[c - 1] + sinfo'[c].size
    <3>1. CASE c = chunk + 1
      <4>1. more[c] = Taken + chunk_size /\ more[c - 1] = Taken
        BY <1>1, <2>1, <3>1
      <4>. QED  BY <1>5, <3>1, <4>1
    <3>2. CASE c \in 1 .. chunk
      <4>1. more[c] = upTo[c] /\ more[c - 1] = upTo[c - 1]
        BY <1>1, <3>2
      <4>. QED  BY <1>5, <2>1, <3>2, <4>1
    <3>. QED  BY <1>1, <3>1, <3>2
  <2>. HIDE DEF more
  <2>5. /\ more \in [0 .. chunk' -> 0 .. Taken'] /\ more[0] = 0 /\ more[chunk'] = Taken'
        /\ \A c \in 1 .. chunk' : more[c] = more[c - 1] + sinfo'[c].size
    BY <1>2, <1>10, <2>2, <2>3, <2>4, Zenon
  <2>6. chunk' <= Taken' + (IF eof' = 1 /\ rpc' \notin {"stdin", "open"} THEN 1 ELSE 0)
    BY <1>1, <1>2, <1>7, <1>10
  <2>7. \A c \in 1 .. chunk' :
          sinfo'[c].size = 0 => c = chunk' /\ eof' = 1 /\ rpc' \notin {"stdin", "open"}
    BY <1>1, <1>2, <1>5, <1>7 DEF PassInv, SizesAddUp
  <2>8. Taken' \in 0 .. input'
    BY <1>2, <1>10
  <2>. QED  BY <2>5, <2>6, <2>7, <2>8 DEF SizesAddUp
<1>. QED  BY <1>4, <1>6, <1>8, <1>9, <1>11 DEF PassInv

(* What does not concern the chunk loop. *)
LEMMA PassStays ==
  ASSUME PassInv, SinfoTypes', \A c \in 1 .. chunk : sinfo'[c].size = sinfo[c].size,
         UNCHANGED <<mode, input, rzipVars>>, mpc' = mpc \/ (mpc' = "fatal" /\ mpc # "done")
  PROVE  PassInv'
<1>1. /\ UNCHANGED <<mode, input, rpc, chunk, len, inleft, chunk_size, st_size, eof,
                     stdin_eof, flushes>>
      /\ chunk \in Nat /\ input \in Nat
  BY DEF rzipVars, PassInv, PassTypes
<1>2. PassTypes'
  BY <1>1 DEF PassInv, PassTypes
<1>3. MainPlaces'
  BY <1>1 DEF PassInv, MainPlaces, MorePasses, InPass
<1>4. FilePass' /\ StdinPass'
  BY <1>1 DEF PassInv, FilePass, StdinPass, InPass
<1>5. Taken' = Taken
  BY <1>1 DEF Taken
<1>6. SizesAddUp'
  BY <1>1, <1>5, SumsStay DEF PassInv
<1>. QED  BY <1>2, <1>3, <1>4, <1>6 DEF PassInv

-----------------------------------------------------------------------------
(* The buffers that are handed over. *)

(* Nothing has been handed over when it starts.                             *)
LEMMA JobsInit == Init => JobsInv /\ ChunkDrained /\ AppliedInv
<1>. SUFFICES ASSUME Init PROVE JobsInv /\ ChunkDrained /\ AppliedInv
  OBVIOUS
<1>1. job = << >> /\ jobs = 0 /\ chunk = 0 /\ log = << >> /\ rpc = "top"
      /\ applied = [i \in Slots |-> 0] /\ tpc = [i \in Slots |-> "idle"]
  BY DEF Init, RingInit
<1>2. JobsInv
  BY <1>1 DEF JobsInv, Filled, HandedOver
<1>3. ChunkDrained
  BY <1>1 DEF ChunkDrained
<1>4. AppliedInv
  BY <1>1 DEF AppliedInv, AppliedTypes, AppliedOnce
<1>. QED  BY <1>2, <1>3, <1>4

(* Types of what was handed over. *)
LEMMA JobFacts ==
  ASSUME JobsInv
  PROVE  /\ jobs \in Nat /\ Len(job) = jobs /\ job \in Seq(JobRec)
         /\ \A k \in 1 .. jobs : /\ job[k].chunk \in Nat \ {0} /\ job[k].chunk <= chunk
                                 /\ job[k].stream \in Streams
         /\ Filled \in Nat
<1>1. job \in Seq(JobRec) /\ Len(job) = jobs
  BY DEF JobsInv
<1>2. jobs \in Nat
  BY <1>1
<1>3. \A k \in 1 .. jobs : job[k] \in JobRec
  BY <1>1
<1>4. \A k \in 1 .. jobs : job[k].chunk \in Nat \ {0} /\ job[k].chunk <= chunk
                           /\ job[k].stream \in Streams
  BY <1>3 DEF JobsInv, JobRec
<1>5. jobs # 0 => jobs \in 1 .. jobs
  BY <1>2
<1>. QED  BY <1>1, <1>2, <1>4, <1>5 DEF Filled

(* Steps that hand nothing over and do not go on to the next chunk. *)
LEMMA JobsStay ==
  ASSUME JobsInv, UNCHANGED <<job, jobs, chunk, slot>>,
         \A i \in Slots : tpc'[i] # "idle" => tpc[i] # "idle",
         rpc' = rpc \/ (rpc # "search" /\ rpc # "close" /\ rpc' # "search")
  PROVE  JobsInv'
<1>1. Filled' = Filled /\ (rpc' # "search" => rpc # "search" \/ rpc' = rpc)
  BY DEF Filled
<1>2. \A c \in 1 .. chunk : \A j \in Streams : HandedOver(c, j)' => HandedOver(c, j)
  BY DEF HandedOver
<1>. QED  BY <1>1, <1>2 DEF JobsInv

(* The next chunk starts when both streams of the last one are closed. *)
LEMMA JobsOpen ==
  ASSUME JobsInv, PassInv, OpenStreamOut
  PROVE  JobsInv'
<1>1. UNCHANGED <<job, jobs, tpc, slot>>
      /\ chunk' = chunk + 1 /\ rpc = "open" /\ rpc' = "search"
      /\ chunk \in Nat
  BY DEF OpenStreamOut, ringVars, PassInv, PassTypes
<1>2. Filled' = Filled /\ Filled = chunk
  BY <1>1 DEF JobsInv, Filled
<1>3. ASSUME NEW c \in 1 .. chunk', NEW j \in Streams, HandedOver(c, j)'
      PROVE  \E k \in 1 .. jobs' : job'[k].chunk = c /\ job'[k].stream = j
  <2>1. c \in 1 .. chunk /\ HandedOver(c, j)
    BY <1>1, <1>3 DEF HandedOver
  <2>. QED  BY <1>1, <2>1 DEF JobsInv
<1>4. \A k \in 1 .. jobs' : job'[k].chunk <= chunk'
  BY <1>1, JobFacts
<1>. QED  BY <1>1, <1>2, <1>3, <1>4 DEF JobsInv

(* clear_buffer hands the next buffer to a slot without a thread. *)
LEMMA HandOverFacts ==
  ASSUME RingInv, JobsInv, NEW j \in Streams, HandOver(j), chunk \in Nat \ {0}
  PROVE  /\ jobs + 1 = jobs' /\ jobs \in Nat
         /\ job' \in Seq(JobRec) /\ Len(job') = jobs'
         /\ \A k \in 1 .. jobs : job'[k] = job[k]
         /\ job'[jobs + 1].chunk = chunk /\ job'[jobs + 1].stream = j
         /\ current_thread \in Slots /\ tpc[current_thread] = "idle"
         /\ tpc' = [tpc EXCEPT ![current_thread] = "work"]
         /\ waited' = [waited EXCEPT ![current_thread] = 0]
         /\ slot' = [slot EXCEPT ![current_thread] = jobs + 1]
         /\ applied' = [applied EXCEPT ![current_thread] = 0]
         /\ UNCHANGED <<log, output_thread>>
<1>. DEFINE r == [chunk |-> chunk, stream |-> j]
<1>1. job \in Seq(JobRec) /\ Len(job) = jobs /\ jobs \in Nat
  BY JobFacts
<1>2. r \in JobRec /\ r.chunk = chunk /\ r.stream = j
  BY DEF JobRec
<1>. HIDE DEF r
<1>3. /\ jobs + 1 = jobs'
      /\ current_thread \in Slots /\ tpc[current_thread] = "idle"
      /\ tpc' = [tpc EXCEPT ![current_thread] = "work"]
      /\ waited' = [waited EXCEPT ![current_thread] = 0]
      /\ slot' = [slot EXCEPT ![current_thread] = jobs + 1]
      /\ applied' = [applied EXCEPT ![current_thread] = 0]
      /\ UNCHANGED <<log, output_thread>>
  BY DEF HandOver, ClearBuffer, RingInv, TypeOK, SemIdle
<1>4. /\ Append(job, r) \in Seq(JobRec) /\ Len(Append(job, r)) = jobs + 1
      /\ \A k \in 1 .. jobs : Append(job, r)[k] = job[k]
      /\ Append(job, r)[jobs + 1] = r
  BY <1>1, <1>2
<1>5. Append(job, r) = job'
  BY DEF HandOver, r
<1>6. /\ job' \in Seq(JobRec) /\ Len(job') = jobs + 1
      /\ \A k \in 1 .. jobs : job'[k] = job[k]
      /\ job'[jobs + 1] = r
  BY <1>4, <1>5, Zenon
<1>. QED  BY <1>1, <1>2, <1>3, <1>6

(* A buffer handed over is the next one of the chunk being worked on.       *)
LEMMA JobsHandOver ==
  ASSUME RingInv, PassInv, JobsInv, NEW j \in Streams, FlushBuffer(j) \/ CloseStreamOut(j)
  PROVE  JobsInv'
<1>1. HandOver(j) /\ chunk' = chunk /\ rpc \in InPass /\ chunk \in Nat /\ chunk > 0
  BY DEF FlushBuffer, CloseStreamOut, PassInv, PassTypes, MainPlaces, InPass
<1>2. /\ jobs + 1 = jobs' /\ jobs \in Nat
      /\ \A k \in 1 .. jobs : job'[k] = job[k]
      /\ job'[jobs + 1].chunk = chunk /\ job'[jobs + 1].stream = j
  BY <1>1, HandOverFacts
<1>3. job' \in Seq(JobRec) /\ Len(job') = jobs'
  BY <1>1, HandOverFacts
<1>4. \A k \in 1 .. jobs : /\ job[k].chunk \in Nat \ {0} /\ job[k].chunk <= chunk
                           /\ job[k].stream \in Streams
  BY JobFacts
<1>5. 1 .. jobs' = 1 .. jobs + 1 /\ jobs' # 0 /\ jobs' - 1 = jobs
  BY <1>2
<1>6. \A k \in 1 .. jobs + 1 : job'[k].chunk <= chunk
  BY <1>1, <1>2, <1>4
<1>7. ASSUME NEW k \in 1 .. jobs + 1, NEW l \in 1 .. jobs + 1, k <= l
      PROVE  job'[k].chunk <= job'[l].chunk
  <2>1. CASE l = jobs + 1
    BY <1>2, <1>6, <2>1
  <2>2. CASE l # jobs + 1
    <3>1. k \in 1 .. jobs /\ l \in 1 .. jobs
      BY <1>2, <1>7, <2>2
    <3>2. job[k].chunk <= job[l].chunk
      BY <1>7, <3>1 DEF JobsInv
    <3>. QED  BY <1>2, <3>1, <3>2
  <2>. QED  BY <2>1, <2>2
<1>8. ASSUME NEW k \in 1 .. jobs + 1
      PROVE  job'[k].chunk <= (IF k = 1 THEN 0 ELSE job'[k - 1].chunk) + 1
  <2>1. CASE k \in 1 .. jobs
    <3>1. k # 1 => k - 1 \in 1 .. jobs
      BY <1>2, <2>1
    <3>. QED  BY <1>2, <2>1, <3>1 DEF JobsInv
  <2>2. CASE k = jobs + 1
    <3>1. (IF k = 1 THEN 0 ELSE job'[k - 1].chunk) = Filled
      <4>1. CASE jobs = 0
        BY <2>2, <4>1 DEF Filled
      <4>2. CASE jobs # 0
        <5>1. k # 1 /\ k - 1 = jobs /\ jobs \in 1 .. jobs
          BY <1>2, <2>2, <4>2
        <5>. QED  BY <1>2, <4>2, <5>1 DEF Filled
      <4>. QED  BY <4>1, <4>2
    <3>2. Filled \in {chunk - 1, chunk}
      BY DEF JobsInv
    <3>. QED  BY <1>1, <1>2, <2>2, <3>1, <3>2
  <2>. QED  BY <1>2, <2>1, <2>2
<1>10. Filled' = chunk
  BY <1>2, <1>5 DEF Filled
<1>9. ASSUME NEW c \in 1 .. chunk, NEW m \in Streams, HandedOver(c, m)'
      PROVE  \E k \in 1 .. jobs + 1 : job'[k].chunk = c /\ job'[k].stream = m
  <2>1. CASE HandedOver(c, m)
    <3>1. PICK k \in 1 .. jobs : job[k].chunk = c /\ job[k].stream = m
      BY <2>1 DEF JobsInv
    <3>. QED  BY <1>2, <3>1
  <2>2. CASE ~HandedOver(c, m)
    <3>1. c = chunk /\ m = j
      BY <1>1, <1>9, <2>2 DEF HandedOver, FlushBuffer, CloseStreamOut, Streams
    <3>. QED  BY <1>2, <3>1
  <2>. QED  BY <2>1, <2>2
<1>11. ASSUME NEW i \in Slots, tpc'[i] # "idle"
       PROVE  slot'[i] \in 1 .. jobs + 1
  <2>1. /\ tpc' = [tpc EXCEPT ![current_thread] = "work"]
        /\ slot' = [slot EXCEPT ![current_thread] = jobs + 1]
        /\ tpc \in [Slots -> Steps] /\ slot \in [Slots -> 0 .. MaxJobs]
    BY <1>1, HandOverFacts DEF RingInv, TypeOK
  <2>. QED  BY <1>2, <1>11, <2>1 DEF JobsInv
<1>. QED  BY <1>1, <1>3, <1>5, <1>6, <1>7, <1>8, <1>9, <1>10, <1>11 DEF JobsInv
-----------------------------------------------------------------------------
(* The filter is on each buffer as often as it should be. *)

(* The filter is not on a buffer that has just been handed over.            *)
LEMMA AppliedHandOver ==
  ASSUME RingInv, PassInv, JobsInv, AppliedInv, NEW j \in Streams,
         FlushBuffer(j) \/ CloseStreamOut(j)
  PROVE  AppliedInv'
<1>1. HandOver(j) /\ mode' = mode /\ chunk \in Nat \ {0}
  BY DEF FlushBuffer, CloseStreamOut, PassInv, PassTypes, MainPlaces, InPass
<1>. DEFINE c == current_thread
<1>2. /\ \A k \in 1 .. jobs : job'[k] = job[k]
      /\ c \in Slots /\ tpc' = [tpc EXCEPT ![c] = "work"]
      /\ waited' = [waited EXCEPT ![c] = 0] /\ slot' = [slot EXCEPT ![c] = jobs + 1]
      /\ applied' = [applied EXCEPT ![c] = 0]
  BY <1>1, HandOverFacts
<1>3. /\ applied \in [Slots -> 0 .. 2] /\ tpc \in [Slots -> Steps]
      /\ waited \in [Slots -> {0, 1}] /\ slot \in [Slots -> 0 .. MaxJobs]
  BY DEF AppliedInv, AppliedTypes, RingInv, TypeOK
<1>4. tpc'[c] = "work" /\ applied'[c] = 0 /\ applied' \in [Slots -> 0 .. 2]
  BY <1>2, <1>3
<1>5. \A i \in Slots : i # c => /\ tpc'[i] = tpc[i] /\ applied'[i] = applied[i]
                                /\ waited'[i] = waited[i] /\ slot'[i] = slot[i]
  BY <1>2, <1>3
<1>6. AppliedTypes'
  BY <1>3, <1>4, <1>5 DEF AppliedInv, AppliedTypes
<1>7. ASSUME AppliedOnce PROVE AppliedOnce'
  <2>1. ASSUME NEW i \in Slots, i # c, Live(i) PROVE Stream(i)' = Stream(i)
    <3>1. slot[i] \in 1 .. jobs /\ slot'[i] = slot[i]
      BY <1>3, <1>5, <2>1 DEF JobsInv, Live
    <3>. QED  BY <1>2, <3>1 DEF Stream
  <2>2. \A i \in Slots : i # c => (Once(Stream(i)))' = Once(Stream(i)) \/ ~Live(i)
    BY <1>1, <2>1 DEF Once
  <2>. QED  BY <1>4, <1>5, <1>7, <2>2 DEF AppliedOnce, Live
<1>. QED  BY <1>1, <1>6, <1>7 DEF AppliedInv

(* Steps of the threads. *)
LEMMA AppliedThread ==
  ASSUME RingInv, PassInv, JobsInv, AppliedInv, NEW i \in Slots, CompThread(i)
  PROVE  AppliedInv'
<1>1. /\ applied \in [Slots -> 0 .. 2] /\ tpc \in [Slots -> Steps]
      /\ waited \in [Slots -> {0, 1}] /\ ret \in [Slots -> {0, -1}]
      /\ UNCHANGED <<mode, job, slot>>
  BY ThreadKeeps DEF AppliedInv, AppliedTypes, RingInv, TypeOK
<1>2. \A k \in Slots : Stream(k)' = Stream(k) /\ (Once(Stream(k)))' = Once(Stream(k))
  BY <1>1 DEF Stream, Once
<1>3. /\ Filtering(i) => Once(Stream(i)) = 1
      /\ ~Filtering(i) => Once(Stream(i)) = 0
  BY DEF Filtering, Once
<1>4. mode.filter # "riscv" /\ Filtering(i) => mode.filter \in Reverted
  BY ModesAssumption
     DEF PassInv, PassTypes, AllModes, FilterFlags, Reverted, BranchFilters, Filtering
<1>5. CASE Compress(i)
  <2>1. /\ tpc[i] = "work" /\ tpc'[i] \in {"turn", "magic"}
        /\ tpc'[i] = (IF waited[i] = 0 THEN "turn" ELSE "magic")
        /\ \A k \in Slots : k # i => tpc'[k] = tpc[k] /\ applied'[k] = applied[k]
        /\ waited' = waited
        /\ applied'[i] = (IF Filtering(i) THEN applied[i] + 1 ELSE applied[i])
        /\ applied[i] <= 1 /\ (waited[i] = 0 => applied[i] = 0)
    BY <1>1, <1>5 DEF Compress, CompressOk, CompressFail, AppliedInv, AppliedTypes
  <2>2. applied'[i] \in 0 .. 2 /\ (waited[i] = 0 => applied'[i] <= 1)
    BY <1>1, <2>1
  <2>3. applied' \in [Slots -> 0 .. 2]
    BY <1>1, <1>5, <2>2 DEF Compress
  <2>4. AppliedTypes'
    BY <1>1, <2>1, <2>2, <2>3 DEF AppliedInv, AppliedTypes, CompressOk, CompressFail
  <2>5. ASSUME AppliedOnce PROVE AppliedOnce'
    <3>1. applied'[i] = Once(Stream(i))
      BY <1>3, <2>1, <2>5 DEF AppliedOnce
    <3>. QED  BY <1>2, <2>1, <2>5, <3>1 DEF AppliedOnce
  <2>. QED  BY <1>1, <2>4, <2>5 DEF AppliedInv
<1>6. CASE GetTurn(i)
  <2>1. /\ tpc[i] = "turn" /\ tpc'[i] = (IF ret[i] = 0 THEN "magic" ELSE "work")
        /\ \A k \in Slots : k # i => /\ tpc'[k] = tpc[k] /\ applied'[k] = applied[k]
                                     /\ waited'[k] = waited[k]
        /\ waited'[i] = 1
        /\ applied'[i] = (IF ret[i] # 0 /\ Filtering(i) /\ mode.filter \in Reverted
                            THEN applied[i] - 1 ELSE applied[i])
        /\ applied[i] \in {0, 1}
    BY <1>1, <1>6 DEF GetTurn, TakeTurn, AppliedInv, AppliedTypes
  <2>2. mode.filter # "riscv" => applied[i] = Once(Stream(i))
    BY <2>1 DEF AppliedInv, AppliedOnce
  <2>3. mode.filter \in Reverted => mode.filter # "riscv"
    BY DEF Reverted, BranchFilters
  <2>4. applied'[i] \in {0, 1}
    BY <1>3, <2>1, <2>2, <2>3
  <2>5. applied' \in [Slots -> 0 .. 2]
    <3>1. \A k \in Slots : applied'[k] \in 0 .. 2
      BY <1>1, <2>1, <2>4
    <3>2. PICK e : applied' = [applied EXCEPT ![i] = e]
      BY <1>6 DEF GetTurn
    <3>. QED  BY <1>1, <3>1, <3>2
  <2>6. AppliedTypes'
    BY <1>1, <2>1, <2>4, <2>5 DEF AppliedInv, AppliedTypes
  <2>7. ASSUME mode.filter # "riscv" PROVE AppliedOnce'
    <3>1. CASE ret[i] = 0
      BY <1>2, <2>1, <2>2, <2>7, <3>1 DEF AppliedInv, AppliedOnce
    <3>2. CASE ret[i] # 0
      <4>1. tpc'[i] = "work" /\ applied'[i] = 0
        BY <1>3, <1>4, <2>1, <2>2, <2>7, <3>2
      <4>. QED  BY <1>2, <2>1, <2>7, <4>1 DEF AppliedInv, AppliedOnce
    <3>. QED  BY <3>1, <3>2
  <2>. QED  BY <1>1, <2>6, <2>7 DEF AppliedInv
<1>7. CASE RingStep(i) \/ PutMagic(i) \/ PutHeader(i) \/ Patch(i) \/ PutBlock(i)
  <2>1. UNCHANGED <<applied, waited>>
    BY <1>7 DEF RingStep, PutMagic, PutHeader, Patch, PutBlock, CompressFatal, Sleep, Advance,
                Post, WriteMagic, WriteHeader, PatchLastHead, WriteBlock
  <2>2. \A k \in Slots :
          \/ tpc'[k] = tpc[k] \/ tpc'[k] \in {"idle", "post", "advance"}
          \/ tpc[k] = "turn" /\ tpc'[k] = "asleep"
          \/ tpc[k] = "asleep" /\ tpc'[k] = "turn"
          \/ /\ tpc[k] \in {"magic", "header", "patch"}
             /\ tpc'[k] \in {"header", "patch", "block"}
    BY <1>1, <1>7 DEF RingStep, PutMagic, PutHeader, Patch, PutBlock, CompressFatal, Sleep,
                      Advance, Post, WriteMagic, WriteHeader, PatchLastHead, WriteBlock
  <2>3. AppliedTypes'
    BY <2>1, <2>2 DEF AppliedInv, AppliedTypes
  <2>4. ASSUME AppliedOnce PROVE AppliedOnce'
    <3>. SUFFICES ASSUME NEW k \in Slots
                  PROVE  /\ tpc'[k] = "work" => applied'[k] = 0
                         /\ tpc'[k] \in {"turn", "asleep", "magic", "header", "patch", "block"}
                              => applied'[k] = (Once(Stream(k)))'
      BY DEF AppliedOnce
    <3>. QED  BY <1>2, <2>1, <2>2, <2>4 DEF AppliedOnce
  <2>. QED  BY <1>1, <2>3, <2>4 DEF AppliedInv
<1>. QED  BY <1>5, <1>6, <1>7 DEF CompThread

(* What leaves the threads, their buffers and the filter alone. *)
LEMMA AppliedStays ==
  ASSUME AppliedInv, UNCHANGED <<mode, job, slot, tpc, waited, applied>>
  PROVE  AppliedInv'
<1>1. \A k \in Slots : (Once(Stream(k)))' = Once(Stream(k))
  BY DEF Stream, Once
<1>. QED  BY <1>1 DEF AppliedInv, AppliedTypes, AppliedOnce

-----------------------------------------------------------------------------
(* With ENCRYPT the threads are through before the chunk is. *)

(* After a waiting loop no thread is left, and no buffer is. *)
LEMMA NoneLeft ==
  ASSUME RingInv, mpc \in {"drained", "done"}
  PROVE  (\A i \in Slots : tpc[i] = "idle") /\ Len(log) = jobs
<1>1. \A i \in Slots : tpc[i] = "idle"
  BY DEF RingInv, LoopPassed
<1>2. Base = Len(log) /\ Base <= jobs /\ Len(log) \in Nat /\ jobs \in Nat
  BY <1>1 DEF Base, RingInv, TypeOK, AllHeld
<1>3. ~(jobs > Base)
  BY <1>1 DEF RingInv, TypeOK, InRingOrder, Live
<1>. QED  BY <1>1, <1>2, <1>3

(* The thread that is writing has the oldest buffer that is not in the file.*)
LEMMA WriterOldest ==
  ASSUME RingInv, JobsInv, NEW i \in Slots, tpc[i] \in {"magic", "header", "patch", "block"}
  PROVE  /\ i = output_thread /\ slot[i] = Len(log) + 1 /\ Len(log) + 1 \in 1 .. jobs
         /\ Len(log) \in Nat /\ jobs \in Nat
         /\ Of(i) = job[Len(log) + 1].chunk /\ Stream(i) = job[Len(log) + 1].stream
         /\ Of(i) \in Nat \ {0} /\ Of(i) <= chunk /\ Stream(i) \in Streams
<1>1. i = output_thread /\ Live(i) /\ Base = Len(log)
  BY DEF RingInv, WriterExclusion, Writing, Live, Base
<1>2. jobs \in Nat /\ Len(log) \in Nat /\ slot[i] > Base /\ slot[i] \in 1 .. jobs
  BY <1>1 DEF RingInv, TypeOK, HeldOnce, JobsInv, Live
<1>3. jobs > Base
  BY <1>1, <1>2
<1>4. slot[i] = Len(log) + 1
  BY <1>1, <1>3 DEF RingInv, InRingOrder
<1>. QED  BY <1>1, <1>2, <1>4, JobFacts DEF Of, Stream

(* A step that hands nothing over leaves it so, until the chunk is closed.  *)
LEMMA DrainedStays ==
  ASSUME ChunkDrained, UNCHANGED <<mode, job, jobs>>, Len(log') >= Len(log),
         Len(log) \in Nat, Len(log') \in Nat, jobs \in Nat,
         (rpc' = rpc /\ chunk' = chunk) \/ rpc \notin {"search", "close", "drain"}
  PROVE  ChunkDrained'
  BY DEF ChunkDrained

(* Only buffers of the chunk being worked on are added to what is left.     *)
LEMMA DrainedHandOver ==
  ASSUME RingInv, PassInv, JobsInv, ChunkDrained, NEW j \in Streams,
         FlushBuffer(j) \/ CloseStreamOut(j)
  PROVE  ChunkDrained'
<1>1. /\ HandOver(j) /\ mode' = mode /\ chunk' = chunk /\ chunk \in Nat \ {0}
      /\ rpc \in {"search", "close"}
      /\ mode.encrypt => rpc' \in {"search", "close", "drain"}
  BY DEF FlushBuffer, CloseStreamOut, PassInv, PassTypes, MainPlaces, InPass
<1>2. /\ jobs + 1 = jobs' /\ jobs \in Nat /\ log' = log
      /\ \A k \in 1 .. jobs : job'[k] = job[k]
      /\ job'[jobs + 1].chunk = chunk
  BY <1>1, HandOverFacts
<1>3. 1 .. jobs' = 1 .. jobs + 1
  BY <1>2
<1>4. \A k \in 1 .. jobs + 1 : k \in 1 .. jobs \/ k = jobs + 1
  BY <1>2
<1>. QED  BY <1>1, <1>2, <1>3, <1>4 DEF ChunkDrained
-----------------------------------------------------------------------------
(* All but the file. *)

LoopInv == RingInv /\ PassInv /\ JobsInv /\ ChunkDrained /\ AppliedInv

(* The assignments compthread makes to the fields of a stream_info. *)
Headed(S, c, a, h) ==
  [S EXCEPT ![c].chunks = 1, ![c].initial_pos = a, ![c].cur_pos = 2, ![c].last_head = h]
Counted(S, c) == [S EXCEPT ![c].chunks = @ + 1]
Moved(S, c, j, a) == [S EXCEPT ![c].last_head[j] = a]
Blocked(S, c, j, a) ==
  [S EXCEPT ![c].cur_pos = @ + 1, ![c].last_headofs[j] = a]

(* compthread starts the stream_info of a chunk with its header. *)
LEMMA SinfoHeader ==
  ASSUME NEW S \in [Chunks -> SinfoRec], NEW c \in Chunks, NEW a \in Nat,
         NEW h \in [Streams -> Nat], NEW T,
         T = Headed(S, c, a, h)
  PROVE  /\ T \in [Chunks -> SinfoRec]
         /\ \A d \in Chunks : d # c => T[d] = S[d]
         /\ T[c].size = S[c].size /\ T[c].chunks = 1 /\ T[c].initial_pos = a
         /\ T[c].cur_pos = 2 /\ T[c].last_head = h /\ T[c].last_headofs = S[c].last_headofs
<1>. DEFINE r1 == [S[c] EXCEPT !.chunks = 1]
            r2 == [r1 EXCEPT !.initial_pos = a]
            r3 == [r2 EXCEPT !.cur_pos = 2]
            r4 == [r3 EXCEPT !.last_head = h]
<1>1. S[c] \in SinfoRec
  OBVIOUS
<1>2. r1 \in SinfoRec /\ r1.size = S[c].size /\ r1.chunks = 1 /\ r1.last_headofs = S[c].last_headofs
  BY <1>1 DEF SinfoRec
<1>. HIDE DEF r1
<1>3. r2 \in SinfoRec /\ r2.size = S[c].size /\ r2.chunks = 1 /\ r2.last_headofs = S[c].last_headofs
      /\ r2.initial_pos = a
  BY <1>2 DEF SinfoRec
<1>. HIDE DEF r2
<1>4. r3 \in SinfoRec /\ r3.size = S[c].size /\ r3.chunks = 1 /\ r3.last_headofs = S[c].last_headofs
      /\ r3.initial_pos = a /\ r3.cur_pos = 2
  BY <1>3 DEF SinfoRec
<1>. HIDE DEF r3
<1>5. r4 \in SinfoRec /\ r4.size = S[c].size /\ r4.chunks = 1 /\ r4.last_headofs = S[c].last_headofs
      /\ r4.initial_pos = a /\ r4.cur_pos = 2 /\ r4.last_head = h
  BY <1>4 DEF SinfoRec
<1>. HIDE DEF r4
<1>6. T = [S EXCEPT ![c] = r4]
  <2>. DEFINE S1 == [S EXCEPT ![c] = r1]
              S2 == [S1 EXCEPT ![c] = r2]
              S3 == [S2 EXCEPT ![c] = r3]
              S4 == [S3 EXCEPT ![c] = r4]
  <2>1. S1[c] = r1 /\ S2[c] = r2 /\ S3[c] = r3 /\ S1 \in [Chunks -> SinfoRec]
     /\ S2 \in [Chunks -> SinfoRec] /\ S3 \in [Chunks -> SinfoRec]
    BY <1>2, <1>3, <1>4
  <2>2. S4 = [S EXCEPT ![c] = r4]
    BY <2>1, <1>5
  <2>3. T = [[[[S EXCEPT ![c] = [S[c] EXCEPT !.chunks = 1]]
       EXCEPT ![c] = [@ EXCEPT !.initial_pos = a]]
       EXCEPT ![c] = [@ EXCEPT !.cur_pos = 2]] EXCEPT ![c] = [@ EXCEPT !.last_head = h]]
    BY Zenon DEF Headed
  <2>4. T = [[[S1 EXCEPT ![c] = [@ EXCEPT !.initial_pos = a]]
       EXCEPT ![c] = [@ EXCEPT !.cur_pos = 2]] EXCEPT ![c] = [@ EXCEPT !.last_head = h]]
    BY <2>3, Zenon DEF r1
  <2>5. T = [[S2 EXCEPT ![c] = [@ EXCEPT !.cur_pos = 2]] EXCEPT ![c] = [@ EXCEPT !.last_head = h]]
    BY <2>1, <2>4, Zenon DEF r2
  <2>6. T = [S3 EXCEPT ![c] = [@ EXCEPT !.last_head = h]]
    BY <2>1, <2>5, Zenon DEF r3
  <2>7. T = S4
    BY <2>1, <2>6, Zenon DEF r4
  <2>. QED  BY <2>2, <2>7
<1>7. T[c] = r4 /\ T \in [Chunks -> SinfoRec] /\ \A d \in Chunks : d # c => T[d] = S[d]
  BY <1>5, <1>6
<1>. QED  BY <1>5, <1>7

(* compthread moves cur_pos on past a block. *)
LEMMA SinfoBlock ==
  ASSUME NEW S \in [Chunks -> SinfoRec], NEW c \in Chunks, NEW j \in Streams, NEW a \in Nat, NEW T,
         T = Blocked(S, c, j, a)
  PROVE  /\ T \in [Chunks -> SinfoRec]
         /\ \A d \in Chunks : d # c => T[d] = S[d]
         /\ T[c].size = S[c].size /\ T[c].chunks = S[c].chunks
         /\ T[c].initial_pos = S[c].initial_pos
         /\ T[c].cur_pos = S[c].cur_pos + 1 /\ T[c].last_head = S[c].last_head
         /\ T[c].last_headofs[j] = a
         /\ \A k \in Streams : k # j => T[c].last_headofs[k] = S[c].last_headofs[k]
<1>. DEFINE r1 == [S[c] EXCEPT !.cur_pos = S[c].cur_pos + 1]
            r2 == [r1 EXCEPT !.last_headofs[j] = a]
<1>1. S[c] \in SinfoRec
  OBVIOUS
<1>2. r1 \in SinfoRec /\ r1.size = S[c].size /\ r1.chunks = S[c].chunks
      /\ r1.initial_pos = S[c].initial_pos /\ r1.cur_pos = S[c].cur_pos + 1
      /\ r1.last_head = S[c].last_head /\ r1.last_headofs = S[c].last_headofs
  BY <1>1 DEF SinfoRec
<1>. HIDE DEF r1
<1>3. r2 \in SinfoRec /\ r2.size = S[c].size /\ r2.chunks = S[c].chunks
      /\ r2.initial_pos = S[c].initial_pos /\ r2.cur_pos = S[c].cur_pos + 1
      /\ r2.last_head = S[c].last_head /\ r2.last_headofs[j] = a
      /\ \A k \in Streams : k # j => r2.last_headofs[k] = S[c].last_headofs[k]
  BY <1>2 DEF SinfoRec
<1>. HIDE DEF r2
<1>6. T = [S EXCEPT ![c] = r2]
  <2>. DEFINE S1 == [S EXCEPT ![c] = r1]
              S2 == [S1 EXCEPT ![c] = r2]
  <2>1. S1[c] = r1 /\ S1 \in [Chunks -> SinfoRec]
    BY <1>2
  <2>2. S2 = [S EXCEPT ![c] = r2]
    BY <2>1, <1>3
  <2>3. T = [[S EXCEPT ![c] = [S[c] EXCEPT !.cur_pos = S[c].cur_pos + 1]]
       EXCEPT ![c] = [@ EXCEPT !.last_headofs[j] = a]]
    BY Zenon DEF Blocked
  <2>4. T = [S1 EXCEPT ![c] = [@ EXCEPT !.last_headofs[j] = a]]
    BY <2>3, Zenon DEF r1
  <2>5. T = S2
    BY <2>1, <2>4, Zenon DEF r2
  <2>. QED  BY <2>2, <2>5
<1>. QED  BY <1>3, <1>6

(* compthread counts the blocks of a chunk. *)
LEMMA SinfoCount ==
  ASSUME NEW S \in [Chunks -> SinfoRec], NEW c \in Chunks, NEW T, T = Counted(S, c)
  PROVE  /\ T \in [Chunks -> SinfoRec]
         /\ \A d \in Chunks : d # c => T[d] = S[d]
         /\ T[c].size = S[c].size /\ T[c].chunks = S[c].chunks + 1
         /\ T[c].initial_pos = S[c].initial_pos /\ T[c].cur_pos = S[c].cur_pos
         /\ T[c].last_head = S[c].last_head /\ T[c].last_headofs = S[c].last_headofs
<1>. DEFINE r == [S[c] EXCEPT !.chunks = S[c].chunks + 1]
<1>1. r \in SinfoRec /\ r.size = S[c].size /\ r.chunks = S[c].chunks + 1
      /\ r.initial_pos = S[c].initial_pos /\ r.cur_pos = S[c].cur_pos
      /\ r.last_head = S[c].last_head /\ r.last_headofs = S[c].last_headofs
  BY DEF SinfoRec
<1>2. T = [S EXCEPT ![c] = r]
  BY Zenon DEF Counted
<1>. HIDE DEF r
<1>3. T[c] = r /\ T \in [Chunks -> SinfoRec] /\ \A d \in Chunks : d # c => T[d] = S[d]
  BY <1>1, <1>2
<1>. QED  BY <1>1, <1>3

(* compthread moves last_head of a stream on to a block. *)
LEMMA SinfoMove ==
  ASSUME NEW S \in [Chunks -> SinfoRec], NEW c \in Chunks, NEW j \in Streams, NEW a \in Nat,
         NEW T, T = Moved(S, c, j, a)
  PROVE  /\ T \in [Chunks -> SinfoRec]
         /\ \A d \in Chunks : d # c => T[d] = S[d]
         /\ T[c].size = S[c].size /\ T[c].chunks = S[c].chunks
         /\ T[c].initial_pos = S[c].initial_pos /\ T[c].cur_pos = S[c].cur_pos
         /\ T[c].last_head[j] = a
         /\ \A k \in Streams : k # j => T[c].last_head[k] = S[c].last_head[k]
         /\ T[c].last_headofs = S[c].last_headofs
<1>. DEFINE r == [S[c] EXCEPT !.last_head[j] = a]
<1>1. r \in SinfoRec /\ r.size = S[c].size /\ r.chunks = S[c].chunks
      /\ r.initial_pos = S[c].initial_pos /\ r.cur_pos = S[c].cur_pos
      /\ r.last_headofs = S[c].last_headofs /\ r.last_head[j] = a
      /\ \A k \in Streams : k # j => r.last_head[k] = S[c].last_head[k]
  BY DEF SinfoRec
<1>2. T = [S EXCEPT ![c] = r]
  BY Zenon DEF Moved
<1>. HIDE DEF r
<1>3. T[c] = r /\ T \in [Chunks -> SinfoRec] /\ \A d \in Chunks : d # c => T[d] = S[d]
  BY <1>1, <1>2
<1>. QED  BY <1>1, <1>3

(* compthread keeps the stream_info of the chunk it writes in order. *)
LEMMA SinfoThread ==
  ASSUME RingInv, PassInv, JobsInv, fpos \in Nat, Len(file) \in Nat,
         NEW i \in Slots, CompThread(i)
  PROVE  SinfoTypes' /\ \A c \in 1 .. chunk : sinfo'[c].size = sinfo[c].size
<1>1. CASE Compress(i) \/ GetTurn(i) \/ RingStep(i) \/ PutMagic(i)
  <2>1. sinfo' = sinfo
    BY <1>1 DEF Compress, GetTurn, RingStep, PutMagic, fileVars
  <2>. QED  BY <2>1 DEF PassInv, SinfoTypes
<1>2. CASE PutHeader(i) \/ Patch(i) \/ PutBlock(i)
  <2>. DEFINE c == Of(i)  s == Stream(i)
  <2>1. tpc[i] \in {"magic", "header", "patch", "block"}
    BY <1>2 DEF PutHeader, Patch, PutBlock, WriteHeader, PatchLastHead, WriteBlock
  <2>2. c \in Chunks /\ s \in Streams /\ 1 .. chunk \subseteq Chunks
    <3>1. c \in 1 .. chunk /\ s \in Streams
      BY <2>1, WriterOldest DEF PassInv, PassTypes
    <3>. QED  BY <3>1, ChunkFits
  <2>3. sinfo \in [Chunks -> SinfoRec]
    BY DEF PassInv, SinfoTypes
  <2>4. SUFFICES sinfo' \in [Chunks -> SinfoRec] /\ sinfo'[c].size = sinfo[c].size
                 /\ \A d \in Chunks : d # c => sinfo'[d] = sinfo[d]
    <3>. HIDE DEF c
    <3>. QED  BY <2>2 DEF SinfoTypes
  <2>5. CASE PutHeader(i)
    <3>. DEFINE a == (IF mode.stdout THEN Len(file) ELSE fpos) + 1
                h == [k \in Streams |-> k]
    <3>1. a \in Nat /\ h \in [Streams -> Nat]
      BY DEF Streams
    <3>2. sinfo' = Headed(sinfo, c, a, h) \/ sinfo' = Counted(sinfo, c)
      BY <2>5, Zenon DEF PutHeader, Headed, Counted
    <3>. HIDE DEF a, h, c, s
    <3>. QED  BY <2>2, <2>3, <3>1, <3>2, SinfoHeader, SinfoCount
  <2>6. CASE Patch(i)
    <3>1. sinfo' = Moved(sinfo, c, s, sinfo[c].cur_pos)
      BY <2>6, Zenon DEF Patch, Moved
    <3>. HIDE DEF c, s
    <3>2. sinfo[c].cur_pos \in Nat
      BY <2>2, <2>3 DEF SinfoRec
    <3>. QED  BY <2>2, <2>3, <3>1, <3>2, SinfoMove
  <2>7. CASE PutBlock(i)
    <3>. DEFINE a == IF mode.encrypt THEN sinfo[c].cur_pos ELSE sinfo[c].last_headofs[s]
    <3>1. sinfo' = Blocked(sinfo, c, s, a)
      BY <2>7, Zenon DEF PutBlock, Blocked
    <3>. HIDE DEF c, s
    <3>2. a \in Nat
      BY <2>2, <2>3 DEF SinfoRec
    <3>. HIDE DEF a
    <3>. QED  BY <2>2, <2>3, <3>1, <3>2, SinfoBlock
  <2>. QED  BY <1>2, <2>5, <2>6, <2>7
<1>. QED  BY <1>1, <1>2 DEF CompThread

(* The chunk loop, the buffers and the filter through a step of a thread. *)
LEMMA LoopThread ==
  ASSUME LoopInv, fpos \in Nat, Len(file) \in Nat, NEW i \in Slots, CompThread(i), RingInv'
  PROVE  LoopInv'
<1>1. RingInv /\ PassInv /\ JobsInv /\ ChunkDrained /\ AppliedInv
  BY DEF LoopInv
<1>2. /\ UNCHANGED <<mode, input, rzipVars, job, jobs, slot>>
      /\ mpc' \in {mpc, "fatal"} /\ mpc # "done" /\ tpc[i] # "idle"
  BY <1>1, ThreadKeeps
<1>3. UNCHANGED <<rpc, chunk>>
  BY <1>2 DEF rzipVars
<1>4. PassInv'
  BY <1>1, <1>2, SinfoThread, PassStays
<1>5. JobsInv'
  <2>1. \A k \in Slots : tpc'[k] # "idle" => tpc[k] # "idle"
    BY <1>1, <1>2
       DEF RingInv, TypeOK, CompThread, Compress, GetTurn, RingStep, PutMagic, PutHeader, Patch,
           PutBlock, CompressOk, CompressFail, CompressFatal, Sleep, TakeTurn, WriteMagic,
           WriteHeader, PatchLastHead, WriteBlock, Advance, Post
  <2>. QED  BY <1>1, <1>2, <1>3, <2>1, JobsStay
<1>6. ChunkDrained'
  <2>1. \/ log' = log \/ Append(log, slot[i]) = log'
    BY <1>1
       DEF CompThread, Compress, GetTurn, RingStep, PutMagic, PutHeader, Patch,
           PutBlock, CompressOk, CompressFail, CompressFatal, Sleep, TakeTurn, WriteMagic,
           WriteHeader, PatchLastHead, WriteBlock, Advance, Post
  <2>2. log \in Seq(Nat) /\ slot[i] \in Nat /\ jobs \in Nat
    BY <1>1 DEF RingInv, TypeOK
  <2>3. Len(log) \in Nat /\ Len(log') \in Nat /\ Len(log') >= Len(log)
    BY <2>1, <2>2
  <2>. QED  BY <1>1, <1>2, <1>3, <2>2, <2>3, DrainedStays
<1>7. AppliedInv'
  BY <1>1, AppliedThread
<1>. QED  BY <1>4, <1>5, <1>6, <1>7 DEF LoopInv

(* The same through a step of rzip_fd. *)
LEMMA LoopMain ==
  ASSUME LoopInv, RzipFd, RingInv'
  PROVE  LoopInv'
<1>1. RingInv /\ PassInv /\ JobsInv /\ ChunkDrained /\ AppliedInv
  BY DEF LoopInv
<1>2. PassInv'
  BY <1>1, PassMain, PassOpen DEF RzipFd
<1>3. Len(log) \in Nat /\ Len(log) >= Len(log) /\ jobs \in Nat
  BY <1>1 DEF RingInv, TypeOK
<1>4. CASE \E j \in Streams : FlushBuffer(j) \/ CloseStreamOut(j)
  BY <1>1, <1>2, <1>4, JobsHandOver, AppliedHandOver, DrainedHandOver DEF LoopInv
<1>5. CASE ~ \E j \in Streams : FlushBuffer(j) \/ CloseStreamOut(j)
  <2>1. UNCHANGED <<mode, job, jobs, slot, tpc, waited, applied, log>>
    BY <1>5 DEF RzipFd, MapFile, MmapStdin, AddStdinSize, OpenStreamOut, DrainThreads,
                EncryptLastHeads, EndPass, CloseThreads, WriteHash, WriteFinalMagic, ringVars,
                StartDrain, DrainWait, EndDrain, Resume, StartClose, CloseWait, EndClose
  <2>2. AppliedInv'
    BY <1>1, <2>1, AppliedStays
  <2>3. JobsInv'
    <3>1. CASE OpenStreamOut
      BY <1>1, <3>1, JobsOpen
    <3>2. CASE ~OpenStreamOut
      <4>1. chunk' = chunk /\ (rpc' = rpc \/ (rpc # "search" /\ rpc # "close" /\ rpc' # "search"))
        BY <1>1, <1>5, <3>2
           DEF RzipFd, MapFile, MmapStdin, AddStdinSize, DrainThreads, EncryptLastHeads, EndPass,
               CloseThreads, WriteHash, WriteFinalMagic, rzipVars, Resume, PassInv, MainPlaces
      <4>. QED  BY <1>1, <2>1, <4>1, JobsStay
    <3>. QED  BY <3>1, <3>2
  <2>4. ChunkDrained'
    <3>1. CASE EncryptLastHeads
      <4>1. Len(log) = jobs
        BY <1>1, <3>1, NoneLeft DEF EncryptLastHeads, Resume
      <4>. QED  BY <1>3, <2>1, <4>1 DEF ChunkDrained
    <3>2. CASE ~EncryptLastHeads
      <4>1. (rpc' = rpc /\ chunk' = chunk) \/ rpc \notin {"search", "close", "drain"}
        BY <1>1, <1>5, <3>2
           DEF RzipFd, MapFile, MmapStdin, AddStdinSize, OpenStreamOut, DrainThreads, EndPass,
               CloseThreads, WriteHash, WriteFinalMagic, rzipVars
      <4>. QED  BY <1>1, <1>3, <2>1, <4>1, DrainedStays
    <3>. QED  BY <3>1, <3>2
  <2>. QED  BY <1>2, <2>2, <2>3, <2>4 DEF LoopInv
<1>. QED  BY <1>4, <1>5

(* A step that stops or does nothing. *)
LEMMA LoopStutter ==
  ASSUME LoopInv, RingInv', Die \/ Finished \/ UNCHANGED vars
  PROVE  LoopInv'
<1>1. RingInv /\ PassInv /\ JobsInv /\ ChunkDrained /\ AppliedInv
  BY DEF LoopInv
<1>2. /\ UNCHANGED <<mode, input, rzipVars, job, applied, sinfo, jobs, slot, tpc, waited, log>>
      /\ mpc' = mpc \/ (mpc' = "fatal" /\ mpc # "done")
  BY DEF Die, Finished, vars, ringVars, fileVars, Fatal
<1>3. UNCHANGED <<rpc, chunk>>
  BY <1>2 DEF rzipVars
<1>4. SinfoTypes'
  BY <1>1, <1>2 DEF PassInv, SinfoTypes
<1>5. PassInv'
  BY <1>1, <1>2, <1>4, PassStays
<1>6. Len(log) \in Nat /\ Len(log) >= Len(log) /\ jobs \in Nat
  BY <1>1 DEF RingInv, TypeOK
<1>. QED  BY <1>1, <1>2, <1>3, <1>5, <1>6, JobsStay, DrainedStays, AppliedStays DEF LoopInv
-----------------------------------------------------------------------------
(* What follows from the invariant about buffers and places. *)

(* Blocks that are in the file, or being written, belong to chunks whose    *)
(* header is there.                                                         *)
LEMMA OpenedFacts ==
  ASSUME RingInv, PassInv, JobsInv
  PROVE  /\ Len(log) \in Nat /\ Len(log) <= jobs /\ jobs \in Nat
         /\ Opened \in 0 .. chunk /\ chunk \in Nat /\ 1 .. Opened \subseteq Chunks
         /\ Known \in Nat /\ Known <= jobs /\ Len(log) <= Known
         /\ Phase # "none" => Len(log) + 1 <= jobs
         /\ Phase \in {"patch", "block"} => Opened = job[Len(log) + 1].chunk
         /\ \A k \in 1 .. Known : /\ job[k].chunk \in 1 .. Opened
                                  /\ job[k].stream \in Streams
<1>1. Len(log) \in Nat /\ jobs \in Nat /\ chunk \in Nat /\ output_thread \in Slots
  BY DEF RingInv, TypeOK, PassInv, PassTypes
<1>2. Len(log) <= jobs
  <2>1. CASE tpc[output_thread] = "advance"
    <3>1. slot[output_thread] > Len(log) - 1 /\ slot[output_thread] <= jobs
          /\ slot[output_thread] \in Nat
      <4>1. TypeOK /\ HeldOnce /\ Base = Len(log) - 1 /\ Live(output_thread)
        BY <1>1, <2>1 DEF RingInv, Base, Live
      <4>. QED  BY <1>1, <4>1 DEF HeldOnce, TypeOK
    <3>. QED  BY <1>1, <3>1
  <2>2. CASE tpc[output_thread] # "advance"
    BY <2>2 DEF RingInv, AllHeld, Base
  <2>. QED  BY <2>1, <2>2
<1>3. Phase # "none" => Len(log) + 1 <= jobs
  <2>. SUFFICES ASSUME Phase # "none" PROVE Len(log) + 1 <= jobs
    OBVIOUS
  <2>1. tpc[output_thread] \in {"header", "patch", "block"}
    BY DEF Phase
  <2>. QED  BY <1>1, <2>1, WriterOldest
<1>4. \A k \in 1 .. jobs : job[k].chunk \in 1 .. chunk /\ job[k].stream \in Streams
  BY <1>1, JobFacts
<1>5. Opened \in 0 .. chunk
  BY <1>1, <1>2, <1>3, <1>4 DEF Opened
<1>6. 1 .. Opened \subseteq Chunks
  BY <1>1, <1>5, ChunkFits
<1>7. Phase \in {"patch", "block"} => Opened = job[Len(log) + 1].chunk
  BY DEF Opened
<1>8. Known \in Nat /\ Known <= jobs /\ Len(log) <= Known
  BY <1>1, <1>2, <1>3 DEF Known
<1>9. \A k \in 1 .. Known : job[k].chunk \in 1 .. Opened
  <2>. SUFFICES ASSUME NEW k \in 1 .. Known PROVE job[k].chunk <= Opened
    BY <1>1, <1>4, <1>5, <1>8
  <2>1. \A l \in 1 .. jobs : k <= l => job[k].chunk <= job[l].chunk
    BY <1>1, <1>8 DEF JobsInv
  <2>2. CASE Phase \in {"patch", "block"}
    <3>1. k <= Len(log) + 1 /\ Len(log) + 1 \in 1 .. jobs
      BY <1>1, <1>3, <2>2 DEF Known
    <3>. QED  BY <1>7, <2>1, <2>2, <3>1
  <2>3. CASE Phase \notin {"patch", "block"}
    <3>1. k <= Len(log) /\ Len(log) # 0 /\ Len(log) \in 1 .. jobs
      BY <1>1, <1>2, <2>3 DEF Known
    <3>2. Opened = job[Len(log)].chunk
      BY <2>3, <3>1 DEF Opened
    <3>. QED  BY <2>1, <3>1, <3>2
  <2>. QED  BY <2>2, <2>3
<1>. QED  BY <1>1, <1>2, <1>3, <1>4, <1>5, <1>6, <1>7, <1>8, <1>9

(* Types of what the file and the stream_info hold. *)
LEMMA FileFacts ==
  ASSUME RingInv, PassInv, JobsInv, FileInv
  PROVE  /\ file \in Seq(Records) /\ Len(file) \in Nat /\ Len(file) >= 1
         /\ Offsets = 0 .. Len(file) - 1
         /\ \A p \in Offsets : At(p) \in Records /\ p + 1 \in 1 .. Len(file)
         /\ fpos \in Nat
         /\ \A c \in 1 .. Opened :
              /\ sinfo[c] \in SinfoRec /\ Start(c) \in Nat /\ sinfo[c].cur_pos \in Nat
              /\ sinfo[c].chunks \in Nat
              /\ \A j \in Streams : /\ sinfo[c].last_head[j] \in Nat
                                    /\ sinfo[c].last_headofs[j] \in Nat
                                    /\ Last(c, j) \in Nat
<1>1. file \in Seq(Records) /\ Len(file) = 1 + Len(log) + 3 * Opened + (IF Hashed THEN 1 ELSE 0)
  BY DEF FileInv, Places
<1>2. Len(file) \in Nat /\ Len(file) >= 1
  BY <1>1, OpenedFacts
<1>3. Offsets = 0 .. Len(file) - 1 /\ \A p \in Offsets : p + 1 \in 1 .. Len(file)
  BY <1>2 DEF Offsets
<1>4. \A p \in Offsets : At(p) \in Records
  BY <1>1, <1>3 DEF At
<1>5. fpos \in Nat
  BY <1>2 DEF FileInv, OffsetSound
<1>6. ASSUME NEW c \in 1 .. Opened
      PROVE  /\ sinfo[c] \in SinfoRec /\ Start(c) \in Nat /\ sinfo[c].cur_pos \in Nat
             /\ sinfo[c].chunks \in Nat
             /\ \A j \in Streams : /\ sinfo[c].last_head[j] \in Nat
                                   /\ sinfo[c].last_headofs[j] \in Nat
                                   /\ Last(c, j) \in Nat
  <2>1. sinfo[c] \in SinfoRec
    BY OpenedFacts DEF PassInv, SinfoTypes
  <2>. QED  BY <2>1 DEF SinfoRec, Start, Last
<1>. QED  BY <1>1, <1>2, <1>3, <1>4, <1>5, <1>6

(* Blocks are in the file in the order of their buffers. *)
LEMMA PosFacts ==
  ASSUME RingInv, PassInv, JobsInv, FileInv
  PROVE  /\ \A k \in 1 .. Known : Pos(k) \in Nat /\ Pos(k) >= 4
         /\ \A k \in 1 .. Known : \A l \in 1 .. Known : k < l => Pos(k) < Pos(l)
         /\ \A k \in 1 .. Len(log) : Pos(k) \in Offsets /\ (Hashed => Pos(k) < Len(file) - 1)
         /\ Phase = "block" /\ ~Hashed => Pos(Len(log) + 1) = Len(file)
<1>1. \A k \in 1 .. Known : Pos(k) \in Nat /\ Pos(k) >= 4
  <2>1. ASSUME NEW k \in 1 .. Known PROVE Pos(k) \in Nat /\ Pos(k) >= 4
    <3>1. job[k].chunk \in 1 .. Opened /\ Opened \in Nat /\ Known \in Nat
      BY OpenedFacts
    <3>2. PICK c \in Nat : c = job[k].chunk /\ c >= 1
      BY <3>1
    <3>3. Pos(k) = k + 3 * c /\ k \in Nat /\ k >= 1
      BY <3>1, <3>2 DEF Pos
    <3>. QED  BY <3>2, <3>3
  <2>. QED  BY <2>1
<1>2. ASSUME NEW k \in 1 .. Known, NEW l \in 1 .. Known, k < l PROVE Pos(k) < Pos(l)
  <2>1. job[k].chunk <= job[l].chunk /\ job[k].chunk \in Nat /\ job[l].chunk \in Nat
    <3>1. k \in 1 .. jobs /\ l \in 1 .. jobs /\ k <= l
      BY <1>2, OpenedFacts
    <3>. QED  BY <3>1, JobFacts DEF JobsInv
  <2>2. k \in Nat /\ l \in Nat
    BY OpenedFacts
  <2>3. PICK c \in Nat, d \in Nat : c = job[k].chunk /\ d = job[l].chunk /\ c <= d
    BY <2>1
  <2>4. Pos(k) = k + 3 * c /\ Pos(l) = l + 3 * d
    BY <2>3 DEF Pos
  <2>. QED  BY <1>2, <2>2, <2>3, <2>4
<1>3. ASSUME NEW k \in 1 .. Len(log)
      PROVE  Pos(k) \in Offsets /\ (Hashed => Pos(k) < Len(file) - 1)
  <2>1. k \in 1 .. Known /\ job[k].chunk \in 1 .. Opened
    BY OpenedFacts
  <2>2. Pos(k) <= Len(log) + 3 * Opened
    <3>1. Len(log) \in Nat /\ Opened \in Nat
      BY OpenedFacts
    <3>2. PICK c \in Nat, o \in Nat, n \in Nat :
            c = job[k].chunk /\ o = Opened /\ n = Len(log) /\ c <= o
      BY <2>1, <3>1
    <3>3. k \in Nat /\ k <= n
      BY <3>2
    <3>4. Pos(k) = k + 3 * c
      BY <3>2 DEF Pos
    <3>5. c <= o /\ o = Opened /\ n = Len(log)
      BY <3>2
    <3>6. k + 3 * c <= n + 3 * o
      BY <3>3, <3>5
    <3>. QED  BY <3>4, <3>5, <3>6
  <2>3. Pos(k) \in Nat /\ Len(log) \in Nat /\ Opened \in Nat
    BY <1>1, <2>1, OpenedFacts
  <2>4. Len(file) = 1 + Len(log) + 3 * Opened + (IF Hashed THEN 1 ELSE 0)
        /\ Offsets = 0 .. Len(file) - 1
    BY FileFacts DEF FileInv, Places
  <2>. QED  BY <2>2, <2>3, <2>4
<1>4. Phase = "block" /\ ~Hashed => Pos(Len(log) + 1) = Len(file)
  BY OpenedFacts DEF FileInv, Places, Pos
<1>. QED  BY <1>1, <1>2, <1>3, <1>4

(* The hash is written when no thread is left. *)
LEMMA HashedQuiet ==
  ASSUME RingInv, PassInv
  PROVE  /\ Hashed => Phase = "none"
         /\ \A i \in Slots : tpc[i] # "idle" => ~Hashed /\ mpc # "done" /\ rpc # "finished"
<1>1. output_thread \in Slots
  BY DEF RingInv, TypeOK
<1>2. Hashed => mpc = "done"
  BY DEF Hashed, PassInv, MainPlaces
<1>3. mpc = "done" => \A i \in Slots : tpc[i] = "idle"
  BY DEF RingInv, LoopPassed
<1>. QED  BY <1>1, <1>2, <1>3 DEF Phase, Hashed

(* Where the headers are, and what is there. *)
LEMMA HeadFacts ==
  ASSUME RingInv, PassInv, JobsInv, FileInv,
         NEW c \in 1 .. Opened, NEW j \in Streams, NEW p, IsHead(p, c, j)
  PROVE  /\ p \in Nat /\ p >= 2
         /\ \/ /\ p \in Offsets /\ At(p) \in HeadRec \cup BlockRec
               /\ At(p).chunk = c /\ At(p).stream = j
            \/ /\ p = Len(file) /\ Phase = "block"
               /\ job[Len(log) + 1].chunk = c /\ job[Len(log) + 1].stream = j
<1>1. CASE p = Start(c) + j
  <2>1. Start(c) >= 2 /\ Start(c) + 1 < Len(file) /\ HeadAt(Start(c) + j, c, j)
    BY DEF FileInv, Places, InOrder
  <2>2. Start(c) \in Nat /\ Len(file) \in Nat /\ j \in {0, 1} /\ Offsets = 0 .. Len(file) - 1
    BY FileFacts DEF Streams
  <2>. QED  BY <1>1, <2>1, <2>2 DEF HeadAt
<1>2. ASSUME NEW k \in 1 .. Known,
             job[k].chunk = c /\ job[k].stream = j /\ p = Pos(k)
      PROVE  /\ p \in Nat /\ p >= 2
             /\ \/ /\ p \in Offsets /\ At(p) \in HeadRec \cup BlockRec
                   /\ At(p).chunk = c /\ At(p).stream = j
                \/ /\ p = Len(file) /\ Phase = "block"
                   /\ job[Len(log) + 1].chunk = c /\ job[Len(log) + 1].stream = j
  <2>1. p \in Nat /\ p >= 2
    BY <1>2, PosFacts
  <2>2. CASE k \in 1 .. Len(log)
    <3>1. p \in Offsets /\ BlockAt(p, k)
      BY <1>2, <2>2, PosFacts DEF FileInv, Places
    <3>. QED  BY <1>2, <2>1, <3>1 DEF BlockAt
  <2>3. CASE k \notin 1 .. Len(log)
    <3>1. k = Len(log) + 1 /\ Phase = "block"
      BY <2>3, OpenedFacts DEF Known
    <3>. QED  BY <1>2, <2>1, <3>1, PosFacts, HashedQuiet
  <2>. QED  BY <2>2, <2>3
<1>. QED  BY <1>1, <1>2 DEF IsHead

(* A header that is not in the file is the one of the block being written.  *)
LEMMA VirtualLast ==
  ASSUME RingInv, PassInv, JobsInv, FileInv,
         NEW c \in 1 .. Opened, NEW j \in Streams, NEW p, IsHead(p, c, j), p \notin Offsets
  PROVE  p = Len(file) /\ p = Last(c, j) /\ Phase = "block"
<1>1. /\ p = Len(file) /\ Phase = "block"
      /\ job[Len(log) + 1].chunk = c /\ job[Len(log) + 1].stream = j
  BY HeadFacts
<1>2. Opened = c /\ Opened > 0 /\ ~Hashed
  BY <1>1, OpenedFacts, HashedQuiet
<1>. QED  BY <1>1, <1>2 DEF FileInv, SinfoSound, Last

(* Where the records of a chunk are. *)
LEMMA StartFacts ==
  ASSUME RingInv, PassInv, JobsInv, FileInv, NEW c \in 1 .. Opened
  PROVE  /\ Start(c) - 1 \in Offsets /\ Start(c) - 1 > 0 /\ Start(c) \in Nat
         /\ \A j \in Streams : Start(c) + j \in Offsets /\ Start(c) + j > 0
<1>1. Start(c) \in Nat /\ Len(file) \in Nat /\ Offsets = 0 .. Len(file) - 1
  BY FileFacts
<1>2. Start(c) >= 2 /\ Start(c) + 1 < Len(file)
  BY DEF FileInv, InOrder
<1>. QED  BY <1>1, <1>2 DEF Streams

-----------------------------------------------------------------------------
(* What is in the file stays there. *)

(* Of a header that is written over, only the fields next and enc change.   *)
Alike(s, r) ==
  \/ s = r
  \/ s \in HeadRec /\ r \in HeadRec /\ s.chunk = r.chunk /\ s.stream = r.stream
  \/ /\ s \in BlockRec /\ r \in BlockRec /\ s.job = r.job
     /\ s.chunk = r.chunk /\ s.stream = r.stream /\ s.filtered = r.filtered

(* The records that make up the chunks keep their places. *)
LEMMA RecordsStay ==
  ASSUME RingInv, PassInv, JobsInv, FileInv, mode' = mode,
         \A p \in Offsets : p > 0 => Alike(file'[p + 1], file[p + 1]),
         \A k \in 1 .. jobs : job'[k] = job[k],
         \A c \in 1 .. Opened : /\ sinfo'[c].initial_pos = sinfo[c].initial_pos
                                /\ sinfo'[c].size = sinfo[c].size
  PROVE  /\ \A k \in 1 .. Known : Pos(k)' = Pos(k)
         /\ \A k \in 1 .. Len(log) : BlockAt(Pos(k), k)'
         /\ \A c \in 1 .. Opened :
              /\ Start(c)' = Start(c)
              /\ ChunkStart(Start(c) - 1, c)'
              /\ \A j \in Streams : HeadAt(Start(c) + j, c, j)'
              /\ At(Start(c) - 1)'.eof = At(Start(c) - 1).eof
<1>1. \A k \in 1 .. Known : k \in 1 .. jobs /\ job'[k] = job[k]
  BY OpenedFacts
<1>2. \A k \in 1 .. Known : Pos(k)' = Pos(k)
  BY <1>1 DEF Pos
<1>3. \A c \in 1 .. Opened : Start(c)' = Start(c)
  BY DEF Start
<1>4. ASSUME NEW k \in 1 .. Len(log) PROVE BlockAt(Pos(k), k)'
  <2>1. k \in 1 .. Known
    BY OpenedFacts
  <2>2. BlockAt(Pos(k), k) /\ Pos(k) \in Offsets /\ Pos(k) > 0 /\ Pos(k)' = Pos(k)
    BY <1>2, <2>1, PosFacts DEF FileInv, Places
  <2>3. Alike(file'[Pos(k)' + 1], file[Pos(k) + 1])
    BY <2>2
  <2>4. job'[k] = job[k]
    BY <1>1, <2>1
  <2>5. file[Pos(k) + 1] \notin HeadRec
    BY <2>2 DEF BlockAt, At, HeadRec, BlockRec
  <2>. QED  BY <2>2, <2>3, <2>4, <2>5 DEF BlockAt, At, Once, Alike
<1>5. ASSUME NEW c \in 1 .. Opened
      PROVE  /\ ChunkStart(Start(c) - 1, c)'
             /\ \A j \in Streams : HeadAt(Start(c) + j, c, j)'
             /\ At(Start(c) - 1)'.eof = At(Start(c) - 1).eof
  <2>1. ChunkStart(Start(c) - 1, c) /\ \A j \in Streams : HeadAt(Start(c) + j, c, j)
    BY DEF FileInv, Places
  <2>2. /\ Start(c)' = Start(c)
        /\ Start(c) - 1 \in Offsets /\ Start(c) - 1 > 0
        /\ \A j \in Streams : Start(c) + j \in Offsets /\ Start(c) + j > 0
    BY <1>3, StartFacts
  <2>3. file'[(Start(c)' - 1) + 1] = file[(Start(c) - 1) + 1]
    <3>1. Alike(file'[(Start(c)' - 1) + 1], file[(Start(c) - 1) + 1])
      BY <2>2
    <3>2. file[(Start(c) - 1) + 1] \notin HeadRec \cup BlockRec
      BY <2>1 DEF ChunkStart, At, HeadRec, BlockRec
    <3>. QED  BY <3>1, <3>2 DEF Alike
  <2>4. ASSUME NEW j \in Streams PROVE HeadAt(Start(c) + j, c, j)'
    <3>1. Alike(file'[(Start(c)' + j) + 1], file[(Start(c) + j) + 1])
      BY <2>2
    <3>2. HeadAt(Start(c) + j, c, j) /\ file[(Start(c) + j) + 1] \notin BlockRec
      BY <2>1 DEF HeadAt, At, HeadRec, BlockRec
    <3>. QED  BY <3>1, <3>2 DEF Alike, HeadAt, At
  <2>. QED  BY <2>1, <2>2, <2>3, <2>4 DEF ChunkStart, At
<1>. QED  BY <1>2, <1>3, <1>4, <1>5

(* With ENCRYPT only the threads of the chunk being worked on write.        *)
LEMMA NotClosed ==
  ASSUME RingInv, PassInv, JobsInv, ChunkDrained, mode.encrypt, Phase # "none"
  PROVE  /\ job[Len(log) + 1].chunk = chunk /\ ~Closed(chunk)
         /\ rpc \in {"search", "close", "drain"}
<1>1. Len(log) + 1 \in 1 .. jobs /\ Len(log) + 1 > Len(log) /\ chunk \in Nat
  BY OpenedFacts
<1>2. job[Len(log) + 1].chunk = chunk /\ rpc \in {"search", "close", "drain"}
  BY <1>1 DEF ChunkDrained
<1>. QED  BY <1>1, <1>2 DEF Closed

(* The chain of a stream whose headers are not written to stays, and takes  *)
(* in the block that was to come.                                           *)
LEMMA LinksStay ==
  ASSUME RingInv, PassInv, JobsInv, ChunkDrained, FileInv, mode' = mode,
         NEW c \in 1 .. Opened, NEW j \in Streams,
         Start(c)' = Start(c), Last(c, j)' = Last(c, j),
         \A p : IsHead(p, c, j)' <=> IsHead(p, c, j),
         Len(file') \in Nat, Len(file') >= Len(file),
         \A p \in Offsets : IsHead(p, c, j) => file'[p + 1] = file[p + 1],
         Last(c, j) = Len(file) /\ Len(file) < Len(file') =>
           file'[Len(file) + 1].next = 0 /\ file'[Len(file) + 1].enc = 0,
         mode.encrypt => (Closed(c)' <=> Closed(c))
  PROVE  Linked(c, j)' /\ EncAt(c, j)'
<1>1. Linked(c, j) /\ EncAt(c, j)
  BY DEF FileInv, Chains, EncSound
<1>2. /\ Len(file) \in Nat /\ Offsets = 0 .. Len(file) - 1 /\ Last(c, j) \in Nat
      /\ Offsets' = 0 .. Len(file') - 1
  BY FileFacts DEF Offsets
<1>3. \A p \in Offsets' : IsHead(p, c, j) /\ p \notin Offsets =>
        p = Len(file) /\ p = Last(c, j) /\ Phase = "block"
  BY VirtualLast
<1>4. Last(c, j) < Len(file') => At(Last(c, j))'.next = 0
  <2>. SUFFICES ASSUME Last(c, j) < Len(file') PROVE file'[Last(c, j) + 1].next = 0
    BY DEF At
  <2>1. CASE Last(c, j) \in Offsets
    BY <1>1, <1>2, <2>1 DEF Linked, At
  <2>2. CASE Last(c, j) \notin Offsets
    <3>1. Last(c, j) = Len(file)
      BY <1>1, <2>2, VirtualLast DEF Linked
    <3>. QED  BY <3>1
  <2>. QED  BY <2>1, <2>2
<1>5. ASSUME NEW p \in Offsets', IsHead(p, c, j), p # Last(c, j)
      PROVE  LET q == Start(c) + file'[p + 1].next
             IN /\ p < q /\ q <= Last(c, j) /\ IsHead(q, c, j)
                /\ \A r \in Offsets' : IsHead(r, c, j) => r <= p \/ r >= q
  <2>1. p \in Offsets /\ file'[p + 1] = At(p)
    BY <1>3, <1>5 DEF At
  <2>. DEFINE q == Start(c) + At(p).next
  <2>2. /\ p < q /\ q <= Last(c, j) /\ IsHead(q, c, j)
        /\ \A r \in Offsets : IsHead(r, c, j) => r <= p \/ r >= q
    BY <1>1, <1>5, <2>1 DEF Linked
  <2>. HIDE DEF q
  <2>3. \A r \in Offsets' : IsHead(r, c, j) => r <= p \/ r >= q
    <3>. SUFFICES ASSUME NEW r \in Offsets', IsHead(r, c, j) PROVE r <= p \/ r >= q
      OBVIOUS
    <3>1. q \in Nat /\ r \in Nat
      BY <1>2, <2>2, HeadFacts
    <3>. QED  BY <1>3, <2>2, <3>1
  <2>. QED  BY <2>1, <2>2, <2>3 DEF q
<1>6. Linked(c, j)'
  <2>1. IsHead(Last(c, j), c, j)
    BY <1>1 DEF Linked
  <2>. QED  BY <1>4, <1>5, <2>1 DEF Linked, At
<1>7. ASSUME NEW p \in Offsets', IsHead(p, c, j)
      PROVE  file'[p + 1].enc = IF mode.encrypt /\ (p # Last(c, j) \/ Closed(c)') THEN 1 ELSE 0
  <2>1. CASE p \in Offsets
    BY <1>1, <1>7, <2>1 DEF EncAt, At
  <2>2. CASE p \notin Offsets
    <3>1. p = Len(file) /\ p = Last(c, j) /\ Phase = "block" /\ Len(file) < Len(file')
      BY <1>2, <1>3, <1>7, <2>2
    <3>2. mode.encrypt => ~Closed(c)
      BY <1>2, <1>7, <2>2, <3>1, HeadFacts, NotClosed
    <3>. QED  BY <3>1, <3>2
  <2>. QED  BY <2>1, <2>2
<1>8. EncAt(c, j)'
  BY <1>7 DEF EncAt, At
<1>. QED  BY <1>6, <1>8

-----------------------------------------------------------------------------
(* Steps that leave the file alone, or nearly so. *)

(* Steps after which all records but the magic are what they were.          *)
LEMMA FileCalm ==
  ASSUME RingInv, PassInv, JobsInv, ChunkDrained, FileInv,
         \A c \in 1 .. chunk : sinfo'[c] = sinfo[c],
         \A c \in Chunks : sinfo'[c].chunks = sinfo[c].chunks,
         UNCHANGED <<mode, input, log>>,
         file' \in Seq(Records), Len(file') = Len(file),
         \A p \in Offsets : p > 0 => file'[p + 1] = file[p + 1],
         (At(0).kind = IF magic_written = 1 THEN "magic" ELSE "blank")',
         OffsetSound',
         Phase' = Phase \/ (Phase = "none" /\ Phase' = "header"),
         \A k \in 1 .. jobs : job'[k] = job[k],
         Hashed' <=> Hashed,
         mode.encrypt => \A c \in 1 .. Opened :
           /\ Closed(c)' <=> Closed(c)
           /\ (c = chunk' /\ eof' = 1 /\ rpc' \notin {"stdin", "open"})
                <=> (c = chunk /\ eof = 1 /\ rpc \notin {"stdin", "open"})
  PROVE  FileInv'
<1>1. \A k \in 1 .. Known : job'[k] = job[k] /\ job[k].chunk \in 1 .. Opened
  BY OpenedFacts
<1>2. Opened' = Opened /\ Known' = Known /\ (Phase' = "block" <=> Phase = "block")
  <2>1. Phase \in {"patch", "block"} => Len(log) + 1 \in 1 .. jobs
    BY OpenedFacts
  <2>2. Phase \notin {"patch", "block"} /\ Len(log) # 0 => Len(log) \in 1 .. jobs
    BY OpenedFacts
  <2>. QED  BY <2>1, <2>2 DEF Opened, Known
<1>3. \A c \in 1 .. Opened : /\ sinfo'[c] = sinfo[c] /\ Start(c)' = Start(c)
                             /\ \A j : Last(c, j)' = Last(c, j)
  <2>1. \A c \in 1 .. Opened : sinfo'[c] = sinfo[c]
    BY OpenedFacts
  <2>. QED  BY <2>1 DEF Start, Last
<1>4. /\ \A k \in 1 .. Known : Pos(k)' = Pos(k)
      /\ \A k \in 1 .. Len(log) : BlockAt(Pos(k), k)'
      /\ \A c \in 1 .. Opened :
           /\ ChunkStart(Start(c) - 1, c)'
           /\ \A j \in Streams : HeadAt(Start(c) + j, c, j)'
           /\ At(Start(c) - 1)'.eof = At(Start(c) - 1).eof
  <2>1. \A p \in Offsets : p > 0 => Alike(file'[p + 1], file[p + 1])
    BY DEF Alike
  <2>. QED  BY <1>3, <2>1, RecordsStay
<1>5. Len(log) \in Nat /\ Len(log) <= Known /\ Known \in Nat /\ Opened \in Nat
      /\ Len(file) \in Nat
  BY OpenedFacts, FileFacts
<1>6. Offsets' = Offsets
  BY DEF Offsets
<1>7. \A c \in 1 .. Opened : \A j \in Streams : \A p : IsHead(p, c, j)' <=> IsHead(p, c, j)
  BY <1>1, <1>2, <1>3, <1>4 DEF IsHead
<1>8. Places'
  <2>1. \A p \in Offsets :
          \/ p = 0 \/ (Hashed' /\ p = Len(file)' - 1)
          \/ \E c \in 1 .. Opened : p \in {Start(c)' - 1, Start(c)', Start(c)' + 1}
          \/ \E k \in 1 .. Len(log) : p = Pos(k)'
    <3>1. \A k \in 1 .. Len(log) : Pos(k)' = Pos(k)
      BY <1>4, <1>5
    <3>2. \A c \in 1 .. Opened : Start(c)' = Start(c)
      BY <1>3
    <3>. QED  BY <3>1, <3>2 DEF FileInv, Places
  <2>2. Hashed => Len(file) - 1 \in Offsets /\ Len(file) - 1 > 0
    <3>1. Len(file) = 1 + Len(log) + 3 * Opened + (IF Hashed THEN 1 ELSE 0)
      BY DEF FileInv, Places
    <3>2. Offsets = 0 .. Len(file) - 1
      BY DEF Offsets
    <3>. QED  BY <1>5, <3>1, <3>2
  <2>3. Hashed => At(Len(file) - 1)'.kind = "hash"
    <3>. SUFFICES ASSUME Hashed PROVE file'[(Len(file) - 1) + 1].kind = "hash"
      BY DEF At
    <3>1. file[(Len(file) - 1) + 1].kind = "hash"
      BY DEF FileInv, Places, At
    <3>. QED  BY <2>2, <3>1
  <2>. QED  BY <1>2, <1>4, <1>6, <2>1, <2>3 DEF FileInv, Places
<1>9. InOrder'
  <2>1. InOrder
    BY DEF FileInv
  <2>2. \A c \in 1 .. Opened : \A k \in 1 .. Len(log) :
          IF job'[k].chunk < c THEN Pos(k)' + 1 < Start(c)' ELSE Start(c)' + 1 < Pos(k)'
    <3>. SUFFICES ASSUME NEW c \in 1 .. Opened, NEW k \in 1 .. Len(log)
                  PROVE  IF job'[k].chunk < c THEN Pos(k)' + 1 < Start(c)'
                                              ELSE Start(c)' + 1 < Pos(k)'
      OBVIOUS
    <3>1. job'[k] = job[k] /\ Pos(k)' = Pos(k) /\ Start(c)' = Start(c)
      BY <1>1, <1>3, <1>4, <1>5
    <3>. QED  BY <2>1, <3>1, Zenon DEF InOrder
  <2>3. \A c \in 1 .. Opened : Start(c)' >= 2 /\ Start(c)' + 1 < Len(file')
    BY <1>3, <2>1 DEF InOrder
  <2>4. \A c \in 1 .. Opened : \A d \in 1 .. Opened : c < d => Start(c)' + 2 < Start(d)'
    BY <1>3, <2>1 DEF InOrder
  <2>. QED  BY <1>2, <2>2, <2>3, <2>4 DEF InOrder
<1>10. Opened > 0 => sinfo'[Opened] = sinfo[Opened]
  BY <1>3, <1>5
<1>11. SinfoSound'
  <2>1. Phase = "block" => Len(log) + 1 \in 1 .. jobs
    BY OpenedFacts
  <2>2. Phase = "block" => Known \in 1 .. Known
    BY OpenedFacts DEF Known
  <2>3. Phase = "block" => Opened > 0
    BY <1>1, <1>5, <2>2
  <2>. QED  BY <1>2, <1>10, <2>1, <2>3 DEF FileInv, SinfoSound, Start
<1>12. \A c \in 1 .. Opened : \A j \in Streams : Linked(c, j)' /\ EncAt(c, j)'
  <2>. SUFFICES ASSUME NEW c \in 1 .. Opened, NEW j \in Streams
                PROVE  Linked(c, j)' /\ EncAt(c, j)'
    OBVIOUS
  <2>1. \A p \in Offsets : IsHead(p, c, j) => file'[p + 1] = file[p + 1]
    BY HeadFacts
  <2>. QED  BY <1>3, <1>5, <1>7, <2>1, LinksStay
<1>13. Chains' /\ EncSound'
  BY <1>2, <1>12 DEF Chains, EncSound
<1>14. LastOfsSound'
  <2>1. Phase = "block" => Len(log) + 1 \in 1 .. jobs
    BY OpenedFacts
  <2>. QED  BY <1>2, <1>3, <2>1 DEF FileInv, LastOfsSound
<1>15. FlagsSound'
  BY <1>2, <1>4 DEF FileInv, FlagsSound
<1>. QED  BY <1>8, <1>9, <1>11, <1>13, <1>14, <1>15 DEF FileInv

(* Steps that leave the whole file alone. *)
LEMMA FileQuiet ==
  ASSUME RingInv, PassInv, JobsInv, ChunkDrained, FileInv,
         \A c \in 1 .. chunk : sinfo'[c] = sinfo[c],
         \A c \in Chunks : sinfo'[c].chunks = sinfo[c].chunks,
         UNCHANGED <<mode, input, file, fpos, flushed, magic_written, log>>,
         Phase' = Phase, \A k \in 1 .. jobs : job'[k] = job[k],
         Hashed' <=> Hashed, rpc' = "finished" <=> rpc = "finished",
         mode.encrypt => \A c \in 1 .. Opened :
           /\ Closed(c)' <=> Closed(c)
           /\ (c = chunk' /\ eof' = 1 /\ rpc' \notin {"stdin", "open"})
                <=> (c = chunk /\ eof = 1 /\ rpc \notin {"stdin", "open"})
  PROVE  FileInv'
<1>1. Opened' = Opened
  <2>1. Phase \in {"patch", "block"} => Len(log) + 1 \in 1 .. jobs
    BY OpenedFacts
  <2>2. Phase \notin {"patch", "block"} /\ Len(log) # 0 => Len(log) \in 1 .. jobs
    BY OpenedFacts
  <2>. QED  BY <2>1, <2>2 DEF Opened
<1>2. Opened \in Nat /\ (Opened > 0 => sinfo'[Opened] = sinfo[Opened])
  BY OpenedFacts
<1>3. OffsetSound'
  BY <1>1, <1>2 DEF FileInv, OffsetSound, Hashed, Start, At
<1>4. (At(0).kind = IF magic_written = 1 THEN "magic" ELSE "blank")'
  BY DEF FileInv, Places, At
<1>5. file' \in Seq(Records) /\ Len(file') = Len(file)
  BY DEF FileInv, Places
<1>. QED  BY <1>3, <1>4, <1>5, FileCalm

(* The chunk loop leaves the file to the threads until it is through. *)
LEMMA FileMain ==
  ASSUME RingInv, PassInv, JobsInv, ChunkDrained, FileInv, RzipFd,
         ~EncryptLastHeads, ~WriteHash, ~WriteFinalMagic
  PROVE  FileInv'
<1>1. chunk \in Nat /\ Opened \in 0 .. chunk /\ \A c \in 1 .. Opened : c <= chunk /\ c \in Nat
  BY OpenedFacts
<1>2. UNCHANGED <<mode, input, file, fpos, flushed, magic_written, log, output_thread>>
  BY DEF RzipFd, MapFile, MmapStdin, AddStdinSize, OpenStreamOut, FlushBuffer, CloseStreamOut,
         HandOver, ClearBuffer, DrainThreads, EndPass, CloseThreads, ringVars, fileVars,
         StartDrain, DrainWait, EndDrain, StartClose, CloseWait, EndClose
<1>3. CASE \E j \in Streams : FlushBuffer(j) \/ CloseStreamOut(j)
  <2>1. PICK j \in Streams : FlushBuffer(j) \/ CloseStreamOut(j)
    BY <1>3
  <2>2. /\ HandOver(j) /\ UNCHANGED <<chunk, eof, sinfo>> /\ chunk > 0
        /\ rpc \in {"search", "close"} /\ rpc' \in {"search", "close", "drain", "next"}
        /\ mode.encrypt => rpc' \in {"search", "close", "drain"}
    BY <2>1 DEF FlushBuffer, CloseStreamOut, fileVars, PassInv, MainPlaces, InPass
  <2>3. /\ \A k \in 1 .. jobs : job'[k] = job[k]
        /\ tpc' = [tpc EXCEPT ![current_thread] = "work"]
        /\ tpc[current_thread] = "idle"
    BY <1>1, <2>2, HandOverFacts
  <2>4. Phase' = Phase
    BY <1>2, <2>3 DEF Phase, RingInv, TypeOK
  <2>5. (Hashed' <=> Hashed) /\ (rpc' = "finished" <=> rpc = "finished")
    BY <2>2 DEF Hashed
  <2>6. mode.encrypt => \A c \in 1 .. Opened :
          /\ Closed(c)' <=> Closed(c)
          /\ (c = chunk' /\ eof' = 1 /\ rpc' \notin {"stdin", "open"})
               <=> (c = chunk /\ eof = 1 /\ rpc \notin {"stdin", "open"})
    BY <2>2 DEF Closed
  <2>. QED  BY <1>2, <2>2, <2>3, <2>4, <2>5, <2>6, FileQuiet
<1>4. CASE OpenStreamOut
  <2>1. /\ UNCHANGED <<tpc, job>> /\ chunk' = chunk + 1 /\ rpc = "open" /\ rpc' = "search"
        /\ sinfo' = [sinfo EXCEPT ![chunk + 1].size = chunk_size]
    BY <1>4 DEF OpenStreamOut, ringVars
  <2>2. Phase' = Phase
    BY <1>2, <2>1 DEF Phase
  <2>3. (Hashed' <=> Hashed) /\ (rpc' = "finished" <=> rpc = "finished")
    BY <2>1 DEF Hashed
  <2>4. \A c \in 1 .. Opened :
          /\ Closed(c)' <=> Closed(c)
          /\ (c = chunk' /\ eof' = 1 /\ rpc' \notin {"stdin", "open"})
               <=> (c = chunk /\ eof = 1 /\ rpc \notin {"stdin", "open"})
    BY <1>1, <2>1 DEF Closed
  <2>5. /\ \A c \in 1 .. chunk : sinfo'[c] = sinfo[c]
        /\ \A c \in Chunks : sinfo'[c].chunks = sinfo[c].chunks
    <3>1. chunk + 1 \in Chunks /\ 1 .. chunk \subseteq Chunks /\ sinfo \in [Chunks -> SinfoRec]
      BY <2>1, ChunkFits DEF PassInv, SinfoTypes
    <3>. QED  BY <1>1, <2>1, <3>1 DEF SinfoRec
  <2>. QED  BY <1>2, <2>1, <2>2, <2>3, <2>4, <2>5, FileQuiet
<1>5. CASE \/ MapFile \/ MmapStdin \/ AddStdinSize \/ DrainThreads \/ EndPass \/ CloseThreads
  <2>1. UNCHANGED <<job, tpc, sinfo, chunk>>
    BY <1>5 DEF MapFile, MmapStdin, AddStdinSize, DrainThreads, EndPass, CloseThreads, ringVars,
                fileVars, rzipVars, StartDrain, DrainWait, EndDrain, StartClose, CloseWait,
                EndClose
  <2>2. Phase' = Phase
    BY <1>2, <2>1 DEF Phase
  <2>3. \/ UNCHANGED <<rpc, eof>>
        \/ rpc = "next" /\ rpc' = "top" /\ eof' = eof
        \/ /\ rpc \in {"top", "stdin"} /\ rpc' \in {"stdin", "open"}
           /\ rpc = "top" => MorePasses
    BY <1>5 DEF MapFile, MmapStdin, AddStdinSize, DrainThreads, EndPass, CloseThreads, rzipVars
  <2>4. (Hashed' <=> Hashed) /\ (rpc' = "finished" <=> rpc = "finished")
    BY <2>3 DEF Hashed
  <2>5. rpc = "top" /\ MorePasses /\ chunk > 0 => eof # 1
    <3>1. mode.stdin \/ ~mode.stdin
      OBVIOUS
    <3>. QED  BY <1>1, <3>1 DEF PassInv, PassTypes, FilePass, StdinPass, MorePasses
  <2>6. ASSUME NEW c \in 1 .. Opened
        PROVE  /\ Closed(c)' <=> Closed(c)
               /\ (c = chunk' /\ eof' = 1 /\ rpc' \notin {"stdin", "open"})
                    <=> (c = chunk /\ eof = 1 /\ rpc \notin {"stdin", "open"})
    BY <1>1, <2>1, <2>3, <2>5 DEF Closed
  <2>. QED  BY <1>2, <2>1, <2>2, <2>4, <2>6, FileQuiet
<1>. QED  BY <1>3, <1>4, <1>5 DEF RzipFd

(* So do the steps with which nothing goes on. *)
LEMMA FileStutter ==
  ASSUME RingInv, PassInv, JobsInv, ChunkDrained, FileInv, Die \/ Finished \/ UNCHANGED vars
  PROVE  FileInv'
<1>1. UNCHANGED <<mode, input, sinfo, file, fpos, flushed, magic_written, log, job, tpc,
                  output_thread, rpc, chunk, eof>>
  BY DEF Die, Finished, vars, ringVars, fileVars, rzipVars, Fatal
<1>2. Phase' = Phase
  BY <1>1 DEF Phase
<1>3. (Hashed' <=> Hashed) /\ \A c : Closed(c)' <=> Closed(c)
  BY <1>1 DEF Hashed, Closed
<1>. QED  BY <1>1, <1>2, <1>3, FileQuiet

(* And those of a compthread that is not writing. *)
LEMMA FileThreadQuiet ==
  ASSUME RingInv, PassInv, JobsInv, ChunkDrained, FileInv, RingInv', NEW i \in Slots,
         Compress(i) \/ GetTurn(i) \/ RingStep(i)
  PROVE  FileInv'
<1>1. UNCHANGED <<mode, input, sinfo, file, fpos, flushed, magic_written, log, job, rpc, chunk,
                  eof>>
  BY DEF Compress, GetTurn, RingStep, rzipVars, fileVars, CompressOk, CompressFail,
         CompressFatal, TakeTurn, Sleep, Advance, Post
<1>2. Phase' = Phase
  <2>1. tpc \in [Slots -> Steps] /\ output_thread \in Slots
    BY DEF RingInv, TypeOK
  <2>2. CASE ~Advance(i)
    <3>1. /\ output_thread' = output_thread
          /\ \A k \in Slots : \/ tpc'[k] = tpc[k]
                              \/ /\ tpc[k] \notin {"header", "patch", "block"}
                                 /\ tpc'[k] \notin {"header", "patch", "block"}
      BY <2>1, <2>2 DEF Compress, GetTurn, RingStep, CompressOk, CompressFail, CompressFatal,
                        TakeTurn, Sleep, Post
    <3>. QED  BY <2>1, <3>1 DEF Phase
  <2>3. CASE Advance(i)
    <3>1. i = output_thread /\ tpc[i] = "advance" /\ output_thread' \in Slots
      BY <2>3 DEF Advance, RingInv, TypeOK, WriterExclusion, Writing
    <3>2. \A k \in Slots : tpc'[k] \notin {"header", "patch", "block"}
      BY <2>1, <2>3, <3>1 DEF Advance, RingInv, WriterExclusion, Writing
    <3>. QED  BY <3>1, <3>2 DEF Phase
  <2>. QED  BY <2>2, <2>3
<1>3. (Hashed' <=> Hashed) /\ \A c : Closed(c)' <=> Closed(c)
  BY <1>1 DEF Hashed, Closed
<1>. QED  BY <1>1, <1>2, <1>3, FileQuiet
-----------------------------------------------------------------------------
(* Writing over a record leaves the others. *)
LEMMA PutOver ==
  ASSUME NEW f \in Seq(Records), NEW p \in 0 .. Len(f) - 1, NEW r \in Records, NEW g,
         g = PutAt(f, p, r) \/ g = [f EXCEPT ![p + 1] = r]
  PROVE  /\ g \in Seq(Records) /\ Len(g) = Len(f) /\ g[p + 1] = r
         /\ \A q \in 0 .. Len(f) - 1 : q # p => g[q + 1] = f[q + 1]
<1>1. g = [f EXCEPT ![p + 1] = r]
  BY DEF PutAt
<1>2. p + 1 \in 1 .. Len(f) /\ \A q \in 0 .. Len(f) - 1 : q + 1 \in 1 .. Len(f)
  OBVIOUS
<1>3. g \in Seq(Records) /\ Len(g) = Len(f)
  BY <1>1, <1>2
<1>4. \A q \in 1 .. Len(f) : g[q] = IF q = p + 1 THEN r ELSE f[q]
  BY <1>1, <1>2
<1>. QED  BY <1>2, <1>3, <1>4

(* The magic is one of the records. *)
LEMMA MagicRecord ==
  ASSUME PassInv
  PROVE  /\ Magic \in Records /\ Magic.kind = "magic"
         /\ Magic.size = IF ~mode.encrypt /\ eof = 1 THEN st_size ELSE 0
<1>1. st_size \in Nat
  BY DEF PassInv, PassTypes
<1>. DEFINE n == IF ~mode.encrypt /\ eof = 1 THEN st_size ELSE 0
<1>2. n \in Nat /\ Magic = [kind |-> "magic", size |-> n]
  BY <1>1 DEF Magic
<1>. HIDE DEF n
<1>3. Magic \in [kind: {"magic"}, size: Nat] /\ Magic.kind = "magic" /\ Magic.size = n
  BY <1>2
<1>. QED  BY <1>3 DEF Records, n

(* To STDOUT the very first thread writes the magic. *)
LEMMA FilePutMagic ==
  ASSUME RingInv, PassInv, JobsInv, ChunkDrained, FileInv, RingInv', NEW i \in Slots, PutMagic(i)
  PROVE  FileInv'
<1>1. /\ UNCHANGED <<mode, input, sinfo, flushed, log, job, rpc, chunk, eof, output_thread>>
      /\ tpc[i] = "magic" /\ tpc' = [tpc EXCEPT ![i] = "header"]
  BY DEF PutMagic, WriteMagic, rzipVars
<1>2. i = output_thread /\ Len(log) \in Nat /\ Of(i) \in Chunks
  <2>1. Of(i) \in 1 .. chunk
    BY <1>1, WriterOldest DEF PassInv, PassTypes
  <2>. QED  BY <1>1, <2>1, WriterOldest, ChunkFits
<1>3. Phase = "none" /\ Phase' = "header"
  BY <1>1, <1>2 DEF Phase, RingInv, TypeOK
<1>4. Opened' = Opened /\ Opened \in Nat
  BY <1>1, <1>3, OpenedFacts DEF Opened
<1>5. ~Hashed /\ ~Hashed' /\ rpc # "finished" /\ rpc' # "finished"
  BY <1>1, HashedQuiet DEF Hashed
<1>6. \A c : Closed(c)' <=> Closed(c)
  BY <1>1 DEF Closed
<1>7. CASE FirstOfChunk(i) /\ mode.stdout /\ magic_written = 0
  <2>1. file' = PutAt(file, 0, Magic) /\ fpos' = 1 /\ magic_written' = 1
    BY <1>7 DEF PutMagic
  <2>2. file \in Seq(Records) /\ 0 \in 0 .. Len(file) - 1 /\ Len(file) \in Nat
        /\ Offsets = 0 .. Len(file) - 1
    BY FileFacts
  <2>3. /\ file' \in Seq(Records) /\ Len(file') = Len(file) /\ file'[0 + 1] = Magic
        /\ \A q \in 0 .. Len(file) - 1 : q # 0 => file'[q + 1] = file[q + 1]
    BY <2>1, <2>2, MagicRecord, PutOver
  <2>4. Opened = 0 /\ Len(file) = 1
    <3>1. Opened = 0
      BY <1>4, <1>7 DEF FileInv, OffsetSound
    <3>2. Len(log) = 0
      <4>1. Len(log) # 0 => Len(log) \in 1 .. Known
        BY OpenedFacts
      <4>. QED  BY <3>1, <4>1, OpenedFacts
    <3>. QED  BY <1>5, <3>1, <3>2 DEF FileInv, Places
  <2>5. OffsetSound'
    BY <1>1, <1>3, <1>4, <1>5, <1>7, <2>1, <2>3, <2>4 DEF FileInv, OffsetSound
  <2>6. (At(0).kind = IF magic_written = 1 THEN "magic" ELSE "blank")'
    BY <2>1, <2>3, MagicRecord DEF At
  <2>. QED  BY <1>1, <1>3, <1>5, <1>6, <2>2, <2>3, <2>5, <2>6, FileCalm
<1>8. CASE ~(FirstOfChunk(i) /\ mode.stdout /\ magic_written = 0)
  <2>1. UNCHANGED <<file, fpos, magic_written>>
    BY <1>8 DEF PutMagic
  <2>2. mode.stdout => magic_written = 1
    <3>1. ~FirstOfChunk(i) => Opened > 0
      BY <1>2, <1>4 DEF FileInv, SinfoSound, FirstOfChunk, Chunks
    <3>. QED  BY <1>8, <3>1 DEF FileInv, OffsetSound
  <2>3. OffsetSound'
    BY <1>1, <1>3, <1>4, <1>5, <2>1, <2>2 DEF FileInv, OffsetSound, Start
  <2>4. (At(0).kind = IF magic_written = 1 THEN "magic" ELSE "blank")'
    BY <2>1 DEF FileInv, Places, At
  <2>5. file' \in Seq(Records) /\ Len(file') = Len(file)
    BY <2>1 DEF FileInv, Places
  <2>. QED  BY <1>1, <1>3, <1>5, <1>6, <2>1, <2>3, <2>4, <2>5, FileCalm
<1>. QED  BY <1>7, <1>8

(* What is in st_size when the loop is through. *)
LEMMA WholeSize ==
  ASSUME PassInv, rpc \in {"top", "magic", "finished"}, ~MorePasses
  PROVE  eof = 1 /\ st_size = input /\ chunk > 0
<1>1. /\ chunk \in Nat /\ len \in Int /\ inleft \in Nat /\ st_size \in Nat
      /\ input \in 0 .. MaxInput /\ MaxInput \in Nat /\ stdin_eof \in {0, 1}
  BY InputAssumption DEF PassInv, PassTypes
<1>2. CASE mode.stdin
  BY <1>1, <1>2 DEF PassInv, StdinPass, MorePasses
<1>3. CASE ~mode.stdin
  BY <1>1, <1>3 DEF PassInv, FilePass, MorePasses
<1>. QED  BY <1>2, <1>3

(* To a file compress_file writes it in the end. *)
LEMMA FileFinalMagic ==
  ASSUME RingInv, PassInv, JobsInv, ChunkDrained, FileInv, WriteFinalMagic
  PROVE  FileInv'
<1>1. /\ UNCHANGED <<mode, input, sinfo, flushed, log, job, chunk, eof, output_thread, tpc>>
      /\ rpc = "magic" /\ rpc' = "finished"
      /\ file' = PutAt(file, 0, Magic) /\ fpos' = 1 /\ magic_written' = 1
  BY DEF WriteFinalMagic, ringVars
<1>2. Phase' = Phase /\ Opened' = Opened /\ Opened \in Nat
  BY <1>1, OpenedFacts DEF Phase, Opened
<1>3. Hashed /\ Hashed' /\ \A c : Closed(c)' /\ Closed(c)
  BY <1>1 DEF Hashed, Closed
<1>4. file \in Seq(Records) /\ 0 \in 0 .. Len(file) - 1 /\ Len(file) \in Nat
      /\ Offsets = 0 .. Len(file) - 1
  BY FileFacts
<1>5. /\ file' \in Seq(Records) /\ Len(file') = Len(file) /\ file'[0 + 1] = Magic
      /\ \A q \in 0 .. Len(file) - 1 : q # 0 => file'[q + 1] = file[q + 1]
  BY <1>1, <1>4, MagicRecord, PutOver
<1>6. ~MorePasses
  BY <1>1 DEF PassInv, MainPlaces
<1>7. Magic.size = IF mode.encrypt THEN 0 ELSE input
  BY <1>1, <1>6, WholeSize, MagicRecord
<1>8. OffsetSound'
  BY <1>1, <1>2, <1>3, <1>4, <1>5, <1>7 DEF FileInv, OffsetSound, At
<1>9. (At(0).kind = IF magic_written = 1 THEN "magic" ELSE "blank")'
  BY <1>1, <1>5, MagicRecord DEF At
<1>10. \A c \in 1 .. Opened :
         /\ Closed(c)' <=> Closed(c)
         /\ (c = chunk' /\ eof' = 1 /\ rpc' \notin {"stdin", "open"})
              <=> (c = chunk /\ eof = 1 /\ rpc \notin {"stdin", "open"})
  BY <1>1, <1>3
<1>11. \A p \in Offsets : p > 0 => file'[p + 1] = file[p + 1]
  BY <1>4, <1>5
<1>12. /\ \A c \in 1 .. chunk : sinfo'[c] = sinfo[c]
       /\ \A c \in Chunks : sinfo'[c].chunks = sinfo[c].chunks
       /\ \A k \in 1 .. jobs : job'[k] = job[k]
  BY <1>1
<1>. QED  BY <1>1, <1>2, <1>3, <1>5, <1>8, <1>9, <1>10, <1>11, <1>12, FileCalm
-----------------------------------------------------------------------------
(* Steps that add to the file. *)

(* The hash comes last. *)
LEMMA FileHash ==
  ASSUME RingInv, PassInv, JobsInv, ChunkDrained, FileInv, WriteHash
  PROVE  FileInv'
<1>. DEFINE hash == [kind |-> "hash"]
<1>1. /\ UNCHANGED <<mode, input, sinfo, log, job, chunk, eof, output_thread, tpc,
                     magic_written>>
      /\ mpc = "done" /\ rpc = "top"
      /\ rpc' = (IF mode.stdout THEN "finished" ELSE "magic")
      /\ file' = PutAt(file, fpos, hash) /\ fpos + 1 = fpos'
      /\ flushed' = IF mode.stdout THEN Len(file') ELSE flushed
  BY DEF WriteHash, ringVars
<1>2. Phase = "none" /\ Phase' = "none"
  <2>1. tpc[output_thread] = "idle"
    BY <1>1, NoneLeft DEF RingInv, TypeOK
  <2>. QED  BY <1>1, <2>1 DEF Phase
<1>3. Opened' = Opened /\ Known' = Known /\ Opened \in Nat /\ Known = Len(log) /\ Len(log) \in Nat
  BY <1>1, <1>2, OpenedFacts DEF Opened, Known
<1>4. ~Hashed /\ Hashed' /\ \A c : Closed(c)' /\ Closed(c)
  BY <1>1 DEF Hashed, Closed
<1>5. file \in Seq(Records) /\ Len(file) \in Nat /\ Len(file) >= 1 /\ Offsets = 0 .. Len(file) - 1
  BY FileFacts
<1>6. fpos = Len(file)
  BY <1>1, <1>2 DEF FileInv, OffsetSound
<1>7. hash \in Records /\ hash.kind = "hash"
  BY DEF Records
<1>. HIDE DEF hash
<1>8. /\ file' \in Seq(Records) /\ Len(file') = Len(file) + 1 /\ file'[Len(file) + 1] = hash
      /\ \A q \in Offsets : file'[q + 1] = file[q + 1]
  <2>1. ASSUME NEW r \in Records, NEW g, g = PutAt(file, fpos, r)
        PROVE  /\ g \in Seq(Records) /\ Len(g) = Len(file) + 1 /\ g[Len(file) + 1] = r
               /\ \A q \in Offsets : g[q + 1] = file[q + 1]
    <3>1. g = Append(file, r)
      BY <1>5, <1>6, <2>1 DEF PutAt
    <3>2. /\ g \in Seq(Records) /\ Len(g) = Len(file) + 1 /\ g[Len(file) + 1] = r
          /\ \A q \in 0 .. Len(file) - 1 : g[q + 1] = file[q + 1]
      BY <1>5, <3>1
    <3>. QED  BY <1>5, <3>2
  <2>. QED  BY <1>1, <1>7, <2>1
<1>9. /\ \A k \in 1 .. Known : Pos(k)' = Pos(k)
      /\ \A k \in 1 .. Len(log) : BlockAt(Pos(k), k)'
      /\ \A c \in 1 .. Opened :
           /\ Start(c)' = Start(c)
           /\ ChunkStart(Start(c) - 1, c)'
           /\ \A j \in Streams : HeadAt(Start(c) + j, c, j)'
           /\ At(Start(c) - 1)'.eof = At(Start(c) - 1).eof
  <2>1. \A p \in Offsets : p > 0 => Alike(file'[p + 1], file[p + 1])
    BY <1>8 DEF Alike
  <2>. QED  BY <1>1, <2>1, RecordsStay
<1>10. \A c : Start(c)' = Start(c) /\ \A j : Last(c, j)' = Last(c, j)
  BY <1>1 DEF Start, Last
<1>11. \A c \in 1 .. Opened : \A j \in Streams : \A p : IsHead(p, c, j)' <=> IsHead(p, c, j)
  BY <1>1, <1>3, <1>9 DEF IsHead
<1>12. Offsets' = 0 .. Len(file)
  BY <1>5, <1>8 DEF Offsets
<1>13. Places'
  <2>1. Len(file') = 1 + Len(log) + 3 * Opened + 1
    BY <1>3, <1>4, <1>8 DEF FileInv, Places
  <2>2. At(0)'.kind = IF magic_written = 1 THEN "magic" ELSE "blank"
    <3>1. 0 \in Offsets
      BY <1>5
    <3>. QED  BY <1>8, <3>1 DEF FileInv, Places, At
  <2>3. At(Len(file) - 1)'.kind = "hash"
    <3>1. (Len(file') - 1) + 1 = Len(file) + 1
      BY <1>5, <1>8
    <3>. QED  BY <1>7, <1>8, <3>1 DEF At
  <2>4. ASSUME NEW p \in Offsets'
        PROVE  \/ p = 0 \/ p = Len(file') - 1
               \/ \E c \in 1 .. Opened : p \in {Start(c)' - 1, Start(c)', Start(c)' + 1}
               \/ \E k \in 1 .. Len(log) : p = Pos(k)'
    <3>1. p \in Offsets \/ p = Len(file') - 1
      BY <1>5, <1>8, <1>12
    <3>2. \A k \in 1 .. Len(log) : Pos(k)' = Pos(k)
      BY <1>3, <1>9
    <3>. QED  BY <1>4, <1>10, <3>1, <3>2 DEF FileInv, Places
  <2>. QED  BY <1>1, <1>3, <1>4, <1>8, <1>9, <2>1, <2>2, <2>3, <2>4 DEF Places
<1>14. InOrder'
  <2>1. InOrder /\ \A k \in 1 .. Len(log) : Pos(k)' = Pos(k)
    BY <1>3, <1>9 DEF FileInv
  <2>2. \A c \in 1 .. Opened : Start(c)' >= 2 /\ Start(c)' + 1 < Len(file')
    BY <1>5, <1>8, <1>10, <2>1, FileFacts DEF InOrder
  <2>. QED  BY <1>1, <1>3, <1>10, <2>1, <2>2 DEF InOrder
<1>15. SinfoSound'
  BY <1>1, <1>2, <1>3, <1>4 DEF FileInv, SinfoSound
<1>16. Chains' /\ EncSound'
  <2>1. ASSUME NEW c \in 1 .. Opened, NEW j \in Streams
        PROVE  Linked(c, j)' /\ EncAt(c, j)'
    <3>1. Last(c, j) # Len(file)
      <4>1. IsHead(Last(c, j), c, j)
        BY DEF FileInv, Chains, Linked
      <4>2. Len(file) \notin Offsets
        BY <1>5
      <4>. QED  BY <1>2, <4>1, <4>2, VirtualLast
    <3>2. Len(file') \in Nat /\ Len(file') >= Len(file)
      BY <1>5, <1>8
    <3>. QED  BY <1>1, <1>4, <1>8, <1>10, <1>11, <3>1, <3>2, LinksStay
  <2>. QED  BY <1>3, <2>1 DEF Chains, EncSound
<1>17. LastOfsSound'
  BY <1>1, <1>2, <1>3 DEF FileInv, LastOfsSound
<1>18. FlagsSound'
  <2>1. (chunk' = chunk /\ eof' = eof) /\ rpc \notin {"stdin", "open"}
        /\ rpc' \notin {"stdin", "open"}
    BY <1>1
  <2>. QED  BY <1>1, <1>3, <1>9, <2>1 DEF FileInv, FlagsSound
<1>19. OffsetSound'
  <2>1. fpos' = Len(file')
    BY <1>1, <1>5, <1>6, <1>8
  <2>2. Len(file') \in Nat
    BY <1>5, <1>8
  <2>3. ~mode.stdout => flushed = 0 /\ magic_written # 1
    BY <1>1 DEF FileInv, OffsetSound
  <2>4. magic_written \in {0, 1} /\ (mode.stdout /\ Opened > 0 => magic_written = 1)
    BY DEF FileInv, OffsetSound
  <2>5. mode.stdout => rpc' = "finished" /\ flushed' = Len(file')
    BY <1>1
  <2>6. ~mode.stdout => rpc' = "magic" /\ flushed' = 0
    BY <1>1, <2>3
  <2>. QED  BY <1>1, <1>2, <1>3, <1>4, <2>1, <2>2, <2>3, <2>4, <2>5, <2>6 DEF OffsetSound
<1>. QED  BY <1>13, <1>14, <1>15, <1>16, <1>17, <1>18, <1>19 DEF FileInv

(* A block is written where the headers before it say it is.                *)
LEMMA FilePutBlock ==
  ASSUME RingInv, PassInv, JobsInv, ChunkDrained, AppliedInv, FileInv,
         NEW i \in Slots, PutBlock(i)
  PROVE  FileInv'
<1>1. /\ UNCHANGED <<mode, input, flushed, job, chunk, eof, output_thread, magic_written, rpc>>
      /\ tpc[i] = "block" /\ tpc' = [tpc EXCEPT ![i] = "advance"]
      /\ log' = Append(log, slot[i])
      /\ file' = PutAt(file, sinfo[Of(i)].initial_pos + sinfo[Of(i)].cur_pos, Block(i))
      /\ fpos' = sinfo[Of(i)].initial_pos + sinfo[Of(i)].cur_pos + 1
  BY DEF PutBlock, WriteBlock, rzipVars
<1>2. /\ i = output_thread /\ slot[i] = Len(log) + 1 /\ Len(log) + 1 \in 1 .. jobs
      /\ Len(log) \in Nat /\ tpc[i] # "idle"
      /\ Of(i) = job[Len(log) + 1].chunk /\ Stream(i) = job[Len(log) + 1].stream
      /\ Stream(i) \in Streams
  BY <1>1, WriterOldest
<1>3. Phase = "block" /\ Phase' = "none"
  <2>1. tpc'[output_thread'] = "advance"
    BY <1>1, <1>2 DEF RingInv, TypeOK
  <2>. QED  BY <1>1, <1>2, <2>1 DEF Phase
<1>4. ~Hashed /\ ~Hashed' /\ rpc # "finished" /\ rpc' # "finished"
  BY <1>1, <1>2, HashedQuiet DEF Hashed
<1>5. PICK n \in Nat, c \in 1 .. Opened, s \in Streams :
        /\ n = Len(log) /\ Len(log') = n + 1 /\ Known = n + 1 /\ Known' = n + 1
        /\ c = Opened /\ Opened' = Opened /\ Opened \in Nat
        /\ c \in Chunks /\ c \in 1 .. chunk
        /\ slot[i] = n + 1 /\ Of(i) = c /\ Stream(i) = s
        /\ job[n + 1].chunk = c /\ job[n + 1].stream = s
  <2>1. Len(log') = Len(log) + 1
    BY <1>1, <1>2 DEF RingInv, TypeOK
  <2>2. Known = Len(log) + 1 /\ Known' = Len(log) + 1
    BY <1>3, <2>1 DEF Known
  <2>3. /\ Opened = job[Len(log) + 1].chunk /\ Opened \in 1 .. Opened /\ Opened \in Nat
        /\ Opened \in Chunks /\ Opened \in 1 .. chunk
    BY <1>2, <1>3, <2>2, OpenedFacts
  <2>4. Opened' = Opened
    BY <1>1, <1>2, <1>3, <2>1, <2>3 DEF Opened
  <2>. QED  BY <1>2, <2>1, <2>2, <2>3, <2>4
<1>6. /\ file \in Seq(Records) /\ Len(file) \in Nat /\ Len(file) >= 1
      /\ Offsets = 0 .. Len(file) - 1
  BY FileFacts
<1>7. Start(c) + sinfo[c].cur_pos = Len(file) /\ Pos(n + 1) = Len(file)
      /\ sinfo[c].last_head[s] = sinfo[c].cur_pos
  <2>1. SinfoSound /\ Opened > 0
    BY <1>5 DEF FileInv
  <2>2. Pos(Len(log) + 1) = Len(file)
    BY <1>3, <1>4, PosFacts
  <2>. QED  BY <1>3, <1>4, <1>5, <2>1, <2>2 DEF SinfoSound
<1>8. PICK r \in BlockRec :
        /\ r = Block(i) /\ r.job = n + 1 /\ r.chunk = c /\ r.stream = s
        /\ r.next = 0 /\ r.enc = 0
        /\ mode.filter # "riscv" => r.filtered = Once(s)
  <2>1. applied[i] \in 0 .. 2 /\ (mode.filter # "riscv" => applied[i] = Once(s))
    BY <1>1, <1>5 DEF AppliedInv, AppliedTypes, AppliedOnce
  <2>2. c \in Nat /\ n + 1 \in Nat
    BY <1>5
  <2>3. /\ Block(i).job = n + 1 /\ Block(i).chunk = c /\ Block(i).stream = s
        /\ Block(i).next = 0 /\ Block(i).enc = 0 /\ Block(i).filtered = applied[i]
    BY <1>5 DEF Block
  <2>4. Block(i) \in BlockRec
    BY <1>5, <2>1, <2>2 DEF Block, BlockRec
  <2>. QED  BY <2>1, <2>3, <2>4
<1>9. /\ file' \in Seq(Records) /\ Len(file') = Len(file) + 1 /\ file'[Len(file) + 1] = r
      /\ \A q \in Offsets : file'[q + 1] = file[q + 1]
  <2>1. r \in Records
    BY DEF Records
  <2>2. file' = Append(file, r)
    <3>1. sinfo[Of(i)].initial_pos + sinfo[Of(i)].cur_pos = Len(file)
      BY <1>5, <1>7 DEF Start
    <3>. QED  BY <1>1, <1>6, <1>8, <3>1 DEF PutAt
  <2>. QED  BY <1>6, <2>1, <2>2
<1>10. PICK a \in Nat :
         /\ sinfo' = Blocked(sinfo, c, s, a)
         /\ a = IF mode.encrypt THEN sinfo[c].cur_pos ELSE sinfo[c].last_headofs[s]
  <2>. DEFINE a == IF mode.encrypt THEN sinfo[c].cur_pos ELSE sinfo[c].last_headofs[s]
  <2>1. a \in Nat
    BY <1>5, FileFacts
  <2>2. sinfo' = Blocked(sinfo, Of(i), Stream(i),
                         IF mode.encrypt THEN sinfo[Of(i)].cur_pos
                                         ELSE sinfo[Of(i)].last_headofs[Stream(i)])
    BY Zenon DEF PutBlock, Blocked
  <2>3. sinfo' = Blocked(sinfo, c, s, a)
    BY <1>5, <2>2
  <2>. QED  BY <2>1, <2>3
<1>11. /\ \A d \in Chunks : d # c => sinfo'[d] = sinfo[d]
       /\ sinfo'[c].size = sinfo[c].size /\ sinfo'[c].chunks = sinfo[c].chunks
       /\ sinfo'[c].initial_pos = sinfo[c].initial_pos
       /\ sinfo'[c].cur_pos = sinfo[c].cur_pos + 1 /\ sinfo'[c].last_head = sinfo[c].last_head
       /\ sinfo'[c].last_headofs[s] = a
       /\ \A k \in Streams : k # s => sinfo'[c].last_headofs[k] = sinfo[c].last_headofs[k]
  <2>1. sinfo \in [Chunks -> SinfoRec]
    BY DEF PassInv, SinfoTypes
  <2>2. c \in Chunks
    BY <1>5
  <2>. QED  BY <1>10, <2>1, <2>2, SinfoBlock
<1>12. /\ \A d \in 1 .. Opened : d \in Chunks
       /\ \A d \in Chunks : /\ sinfo'[d].initial_pos = sinfo[d].initial_pos
                            /\ sinfo'[d].size = sinfo[d].size
                            /\ sinfo'[d].chunks = sinfo[d].chunks
                            /\ sinfo'[d].last_head = sinfo[d].last_head
  BY <1>11, OpenedFacts
<1>13. /\ \A k \in 1 .. Known : Pos(k)' = Pos(k)
       /\ \A k \in 1 .. Len(log) : BlockAt(Pos(k), k)'
       /\ \A d \in 1 .. Opened :
            /\ Start(d)' = Start(d)
            /\ ChunkStart(Start(d) - 1, d)'
            /\ \A j \in Streams : HeadAt(Start(d) + j, d, j)'
            /\ At(Start(d) - 1)'.eof = At(Start(d) - 1).eof
  <2>1. \A p \in Offsets : p > 0 => Alike(file'[p + 1], file[p + 1])
    BY <1>9 DEF Alike
  <2>. QED  BY <1>1, <1>12, <2>1, RecordsStay
<1>14. \A d \in 1 .. Opened :
         Start(d)' = Start(d) /\ \A j \in Streams : Last(d, j)' = Last(d, j)
  BY <1>12 DEF Start, Last
<1>15. \A d \in 1 .. Opened : \A j \in Streams : \A p : IsHead(p, d, j)' <=> IsHead(p, d, j)
  BY <1>1, <1>5, <1>13 DEF IsHead
<1>16. Offsets' = 0 .. Len(file) /\ Len(file') - 1 = Len(file)
  BY <1>6, <1>9 DEF Offsets
<1>17. Pos(n + 1)' = Len(file) /\ n + 1 \in 1 .. Known
       /\ 1 .. Len(log') = 1 .. n + 1 /\ 1 .. n + 1 = (1 .. Len(log)) \cup {n + 1}
  <2>1. n + 1 \in 1 .. Known /\ Pos(n + 1)' = Pos(n + 1)
    BY <1>5, <1>13
  <2>2. 1 .. n + 1 = (1 .. n) \cup {n + 1}
    OBVIOUS
  <2>. QED  BY <1>5, <1>7, <2>1, <2>2
<1>18. BlockAt(Pos(n + 1), n + 1)'
  <2>1. file'[Pos(n + 1)' + 1] = r
    BY <1>9, <1>17
  <2>2. job'[n + 1].chunk = c /\ job'[n + 1].stream = s /\ mode' = mode
    BY <1>1, <1>5
  <2>. QED  BY <1>8, <2>1, <2>2 DEF BlockAt, At, Once
<1>19. Places'
  <2>1. Len(file') = 1 + Len(log') + 3 * Opened'
    BY <1>2, <1>4, <1>5, <1>6, <1>9 DEF FileInv, Places
  <2>2. At(0)'.kind = IF magic_written = 1 THEN "magic" ELSE "blank"
    <3>1. 0 \in Offsets
      BY <1>6
    <3>. QED  BY <1>9, <3>1 DEF FileInv, Places, At
  <2>3. \A k \in 1 .. Len(log') : BlockAt(Pos(k), k)'
    BY <1>13, <1>17, <1>18
  <2>4. ASSUME NEW p \in Offsets'
        PROVE  \/ p = 0
               \/ \E d \in 1 .. Opened : p \in {Start(d)' - 1, Start(d)', Start(d)' + 1}
               \/ \E k \in 1 .. Len(log') : p = Pos(k)'
    <3>1. p \in Offsets \/ p = Pos(n + 1)'
      BY <1>6, <1>16, <1>17
    <3>2. \A k \in 1 .. Len(log) : Pos(k)' = Pos(k) /\ k \in 1 .. Len(log')
      BY <1>13, <1>17, OpenedFacts
    <3>3. n + 1 \in 1 .. Len(log')
      BY <1>17
    <3>. QED  BY <1>4, <1>14, <3>1, <3>2, <3>3 DEF FileInv, Places
  <2>5. Opened' = Opened /\ magic_written' = magic_written
    BY <1>1, <1>5
  <2>. QED  BY <1>4, <1>9, <1>13, <2>1, <2>2, <2>3, <2>4, <2>5 DEF Places
<1>20. InOrder'
  <2>1. InOrder /\ \A k \in 1 .. Len(log) : Pos(k)' = Pos(k)
    BY <1>13, OpenedFacts DEF FileInv
  <2>2. \A d \in 1 .. Opened : Start(d)' >= 2 /\ Start(d)' + 1 < Len(file')
    <3>1. \A d \in 1 .. Opened : Start(d) \in Nat /\ Start(d) >= 2 /\ Start(d) + 1 < Len(file)
      BY <2>1, FileFacts DEF InOrder
    <3>2. Len(file') = Len(file) + 1 /\ Len(file) \in Nat
      BY <1>6, <1>9
    <3>. QED  BY <1>14, <3>1, <3>2
  <2>3. \A d \in 1 .. Opened : ~(job[n + 1].chunk < d) /\ Start(d)' + 1 < Pos(n + 1)'
    BY <1>5, <1>14, <1>17, <2>1 DEF InOrder
  <2>4. \A d \in 1 .. Opened : \A k \in 1 .. Len(log') :
          IF job[k].chunk < d THEN Pos(k)' + 1 < Start(d)' ELSE Start(d)' + 1 < Pos(k)'
    BY <1>14, <1>17, <2>1, <2>3 DEF InOrder
  <2>5. \A d \in 1 .. Opened : \A e \in 1 .. Opened : d < e => Start(d)' + 2 < Start(e)'
    BY <1>14, <2>1 DEF InOrder
  <2>6. Opened' = Opened /\ \A k : job'[k] = job[k]
    BY <1>1, <1>5
  <2>7. /\ \A d \in 1 .. Opened' : Start(d)' >= 2 /\ Start(d)' + 1 < Len(file')
        /\ \A d \in 1 .. Opened' : \A e \in 1 .. Opened' : d < e => Start(d)' + 2 < Start(e)'
    BY <2>2, <2>5, <2>6
  <2>8. \A d \in 1 .. Opened' : \A k \in 1 .. Len(log') :
          IF job'[k].chunk < d THEN Pos(k)' + 1 < Start(d)' ELSE Start(d)' + 1 < Pos(k)'
    BY <2>4, <2>6
  <2>. QED  BY <2>7, <2>8 DEF InOrder
<1>21. SinfoSound'
  <2>1. \A d \in Chunks : sinfo'[d].chunks = 0 <=> d > Opened'
    BY <1>5, <1>12 DEF FileInv, SinfoSound
  <2>2. Start(c)' + sinfo'[c].cur_pos = Len(file')
    <3>1. Start(c)' = Start(c) /\ sinfo'[c].cur_pos = sinfo[c].cur_pos + 1
      BY <1>11, <1>14
    <3>2. PICK b \in Nat, q \in Nat : b = Start(c) /\ q = sinfo[c].cur_pos
      BY FileFacts
    <3>3. Len(file') = Len(file) + 1 /\ Len(file) = b + q
      BY <1>7, <1>9, <3>2
    <3>. QED  BY <3>1, <3>2, <3>3
  <2>3. Opened' = c /\ Phase' # "block"
    BY <1>3, <1>5
  <2>4. Start(Opened)' + sinfo'[Opened'].cur_pos = Len(file')
    BY <2>2, <2>3 DEF Start
  <2>. QED  BY <2>1, <2>3, <2>4 DEF SinfoSound, Start
<1>22. Chains' /\ EncSound'
  <2>1. ASSUME NEW d \in 1 .. Opened, NEW j \in Streams
        PROVE  Linked(d, j)' /\ EncAt(d, j)'
    <3>1. Last(d, j) = Len(file) /\ Len(file) < Len(file') =>
            file'[Len(file) + 1].next = 0 /\ file'[Len(file) + 1].enc = 0
      BY <1>8, <1>9
    <3>2. Len(file') \in Nat /\ Len(file') >= Len(file)
      BY <1>6, <1>9
    <3>3. Closed(d)' <=> Closed(d)
      BY <1>1 DEF Closed
    <3>. QED  BY <1>1, <1>9, <1>14, <1>15, <3>1, <3>2, <3>3, LinksStay
  <2>. QED  BY <1>5, <2>1 DEF Chains, EncSound
<1>23. LastOfsSound'
  <2>. SUFFICES ASSUME mode.encrypt, NEW d \in 1 .. Opened, NEW j \in Streams
                PROVE  \/ sinfo'[d].last_headofs[j] = sinfo'[d].last_head[j]
                       \/ sinfo'[d].last_head[j] = j
    BY <1>1, <1>5 DEF LastOfsSound
  <2>1. CASE d = c /\ j = s
    BY <1>7, <1>10, <1>11, <2>1
  <2>2. CASE ~(d = c /\ j = s)
    <3>1. sinfo'[d].last_head = sinfo[d].last_head
          /\ sinfo'[d].last_headofs[j] = sinfo[d].last_headofs[j]
      BY <1>11, <1>12, <2>2
    <3>. QED  BY <1>5, <2>2, <3>1 DEF FileInv, LastOfsSound
  <2>. QED  BY <2>1, <2>2
<1>24. FlagsSound'
  BY <1>1, <1>5, <1>13 DEF FileInv, FlagsSound
<1>25. OffsetSound'
  <2>1. fpos' = Len(file') /\ Len(file') \in Nat
    BY <1>1, <1>5, <1>6, <1>7, <1>9 DEF Start
  <2>2. Start(Opened)' = Start(Opened) /\ Opened' = Opened
    BY <1>5, <1>14
  <2>. QED  BY <1>1, <1>3, <1>4, <2>1, <2>2 DEF FileInv, OffsetSound
<1>. QED  BY <1>19, <1>20, <1>21, <1>22, <1>23, <1>24, <1>25 DEF FileInv

(* What compthread does to the header of the block before its own.          *)
NextSet(f, p, a) == [f EXCEPT ![p + 1].next = a]

(* Only the field next of one header changes. *)
LEMMA SetNext ==
  ASSUME NEW f \in Seq(Records), NEW p \in 0 .. Len(f) - 1,
         f[p + 1] \in HeadRec \cup BlockRec, NEW a \in Nat, NEW g,
         g = NextSet(f, p, a)
  PROVE  /\ g \in Seq(Records) /\ Len(g) = Len(f)
         /\ g[p + 1] \in HeadRec \cup BlockRec /\ Alike(g[p + 1], f[p + 1])
         /\ g[p + 1].next = a /\ g[p + 1].enc = f[p + 1].enc
         /\ \A q \in 0 .. Len(f) - 1 : q # p => g[q + 1] = f[q + 1]
<1>. DEFINE r == [f[p + 1] EXCEPT !.next = a]
<1>1. /\ r \in HeadRec \cup BlockRec /\ Alike(r, f[p + 1])
      /\ r.next = a /\ r.enc = f[p + 1].enc
  <2>1. CASE f[p + 1] \in HeadRec
    BY <2>1 DEF HeadRec, Alike
  <2>2. CASE f[p + 1] \in BlockRec
    BY <2>2 DEF BlockRec, Alike
  <2>. QED  BY <2>1, <2>2
<1>2. g = [f EXCEPT ![p + 1] = r]
  BY Zenon DEF NextSet
<1>. HIDE DEF r
<1>3. r \in Records
  BY <1>1 DEF Records
<1>4. /\ g \in Seq(Records) /\ Len(g) = Len(f) /\ g[p + 1] = r
      /\ \A q \in 0 .. Len(f) - 1 : q # p => g[q + 1] = f[q + 1]
  BY <1>2, <1>3, PutOver
<1>. QED  BY <1>1, <1>4

(* rewrite_encrypted counts once more that a header is encrypted. *)
LEMMA EncryptsOne ==
  ASSUME NEW f \in Seq(Records), NEW p \in 0 .. Len(f) - 1,
         f[p + 1] \in HeadRec \cup BlockRec, NEW g,
         g = Encrypted(f, p)
  PROVE  /\ g \in Seq(Records) /\ Len(g) = Len(f)
         /\ g[p + 1] \in HeadRec \cup BlockRec /\ Alike(g[p + 1], f[p + 1])
         /\ g[p + 1].next = f[p + 1].next /\ g[p + 1].enc = f[p + 1].enc + 1
         /\ \A q \in 0 .. Len(f) - 1 : q # p => g[q + 1] = f[q + 1]
<1>. DEFINE r == [f[p + 1] EXCEPT !.enc = f[p + 1].enc + 1]
<1>1. /\ r \in HeadRec \cup BlockRec /\ Alike(r, f[p + 1])
      /\ r.next = f[p + 1].next /\ r.enc = f[p + 1].enc + 1
  <2>1. CASE f[p + 1] \in HeadRec
    BY <2>1 DEF HeadRec, Alike
  <2>2. CASE f[p + 1] \in BlockRec
    BY <2>2, SMTT(30) DEF BlockRec, Alike
  <2>. QED  BY <2>1, <2>2
<1>2. g = [f EXCEPT ![p + 1] = r]
  BY Zenon DEF Encrypted
<1>. HIDE DEF r
<1>3. r \in Records
  BY <1>1 DEF Records
<1>4. /\ g \in Seq(Records) /\ Len(g) = Len(f) /\ g[p + 1] = r
      /\ \A q \in 0 .. Len(f) - 1 : q # p => g[q + 1] = f[q + 1]
  BY <1>2, <1>3, PutOver
<1>. QED  BY <1>1, <1>4

(* No header of a stream comes after the one that last_head leads to. *)
LEMMA LastIsLast ==
  ASSUME RingInv, PassInv, JobsInv, FileInv,
         NEW c \in 1 .. Opened, NEW j \in Streams, NEW p \in Offsets, IsHead(p, c, j)
  PROVE  p <= Last(c, j)
<1>1. Linked(c, j) /\ Last(c, j) \in Nat /\ p \in Nat
  BY FileFacts, HeadFacts DEF FileInv, Chains
<1>2. CASE p # Last(c, j)
  <2>. DEFINE q == Start(c) + At(p).next
  <2>1. p < q /\ q <= Last(c, j) /\ IsHead(q, c, j)
    BY <1>1, <1>2 DEF Linked
  <2>2. q \in Nat
    BY <2>1, HeadFacts
  <2>. HIDE DEF q
  <2>. QED  BY <1>1, <2>1, <2>2
<1>. QED  BY <1>1, <1>2

(* The last header of a stream is made to lead to the block that comes.     *)
LEMMA FilePatch ==
  ASSUME RingInv, PassInv, JobsInv, ChunkDrained, FileInv, NEW i \in Slots, Patch(i)
  PROVE  FileInv'
<1>1. /\ UNCHANGED <<mode, input, flushed, job, chunk, eof, output_thread, magic_written, rpc,
                     log>>
      /\ tpc[i] = "patch" /\ tpc' = [tpc EXCEPT ![i] = "block"]
  BY DEF Patch, PatchLastHead, rzipVars
<1>2. /\ i = output_thread /\ Len(log) + 1 \in 1 .. jobs
      /\ Len(log) \in Nat /\ tpc[i] # "idle"
      /\ Of(i) = job[Len(log) + 1].chunk /\ Stream(i) = job[Len(log) + 1].stream
      /\ Stream(i) \in Streams
  BY <1>1, WriterOldest
<1>3. Phase = "patch" /\ Phase' = "block"
  <2>1. tpc'[output_thread'] = "block"
    BY <1>1, <1>2 DEF RingInv, TypeOK
  <2>. QED  BY <1>1, <1>2, <2>1 DEF Phase
<1>4. ~Hashed /\ ~Hashed' /\ rpc # "finished" /\ rpc' # "finished"
  BY <1>1, <1>2, HashedQuiet DEF Hashed
<1>5. PICK n \in Nat, c \in 1 .. Opened, s \in Streams :
        /\ n = Len(log) /\ Known = n /\ Known' = n + 1
        /\ c = Opened /\ Opened' = Opened /\ Opened \in Nat
        /\ c \in Chunks /\ c \in 1 .. chunk
        /\ Of(i) = c /\ Stream(i) = s
        /\ job[n + 1].chunk = c /\ job[n + 1].stream = s
  <2>1. Known = Len(log) /\ Known' = Len(log) + 1
    BY <1>1, <1>3 DEF Known
  <2>2. Opened = job[Len(log) + 1].chunk /\ Opened \in 0 .. chunk /\ chunk \in Nat
    BY <1>3, OpenedFacts
  <2>3. Opened > 0
    BY <1>2, <2>2, WriterOldest, <1>1
  <2>4. Opened \in 1 .. Opened /\ Opened \in Chunks /\ Opened \in 1 .. chunk
    BY <2>2, <2>3, OpenedFacts
  <2>5. Opened' = Opened
    BY <1>1, <1>3 DEF Opened
  <2>. QED  BY <1>2, <2>1, <2>2, <2>4, <2>5
<1>6. /\ file \in Seq(Records) /\ Len(file) \in Nat /\ Len(file) >= 1
      /\ Offsets = 0 .. Len(file) - 1
  BY FileFacts
<1>7. PICK a \in Nat : a = sinfo[c].cur_pos /\ Start(c) + a = Len(file) /\ Pos(n + 1) = Len(file)
  <2>1. Start(c) + sinfo[c].cur_pos = Len(file) /\ sinfo[c].cur_pos \in Nat
    BY <1>4, <1>5, FileFacts DEF FileInv, SinfoSound
  <2>2. Pos(n + 1) = Len(file)
    BY <1>4, <1>5 DEF FileInv, Places, Pos
  <2>. QED  BY <2>1, <2>2
<1>8. PICK p \in Offsets : p = Last(c, s) /\ IsHead(p, c, s) /\ p >= 2
        /\ file[p + 1] \in HeadRec \cup BlockRec
  <2>1. IsHead(Last(c, s), c, s)
    BY DEF FileInv, Chains, Linked
  <2>2. Last(c, s) \in Offsets
    BY <1>3, <2>1, VirtualLast
  <2>3. Last(c, s) >= 2 /\ At(Last(c, s)) \in HeadRec \cup BlockRec
    BY <1>3, <2>1, HeadFacts
  <2>. QED  BY <2>1, <2>2, <2>3 DEF At
<1>9. PICK f : /\ f = NextSet(file, p, a)
               /\ file' = IF mode.encrypt THEN Encrypted(f, p) ELSE f
               /\ fpos' = p + 1
  <2>1. LET q == sinfo[Of(i)].initial_pos + sinfo[Of(i)].last_head[Stream(i)]
            g == NextSet(file, q, sinfo[Of(i)].cur_pos)
        IN file' = (IF mode.encrypt THEN Encrypted(g, q) ELSE g) /\ fpos' = q + 1
    BY Zenon DEF Patch, NextSet
  <2>2. p = sinfo[Of(i)].initial_pos + sinfo[Of(i)].last_head[Stream(i)]
    BY <1>5, <1>8 DEF Last, Start
  <2>3. a = sinfo[Of(i)].cur_pos
    BY <1>5, <1>7
  <2>. QED  BY <2>1, <2>2, <2>3, Zenon
<1>10. /\ f \in Seq(Records) /\ Len(f) = Len(file)
       /\ f[p + 1] \in HeadRec \cup BlockRec /\ Alike(f[p + 1], file[p + 1])
       /\ f[p + 1].next = a /\ f[p + 1].enc = file[p + 1].enc
       /\ \A q \in Offsets : q # p => f[q + 1] = file[q + 1]
  <2>1. p \in 0 .. Len(file) - 1
    BY <1>6, <1>8
  <2>2. f = NextSet(file, p, a)
    BY <1>9
  <2>3. /\ f \in Seq(Records) /\ Len(f) = Len(file)
        /\ f[p + 1] \in HeadRec \cup BlockRec /\ Alike(f[p + 1], file[p + 1])
        /\ f[p + 1].next = a /\ f[p + 1].enc = file[p + 1].enc
        /\ \A q \in 0 .. Len(file) - 1 : q # p => f[q + 1] = file[q + 1]
    BY <1>6, <1>8, <2>1, <2>2, SetNext, SMTT(30)
  <2>. QED  BY <1>6, <2>3
<1>11. PICK g :
         /\ file' = g
         /\ g \in Seq(Records) /\ Len(g) = Len(file) /\ Alike(g[p + 1], file[p + 1])
         /\ g[p + 1].next = a
         /\ g[p + 1].enc = IF mode.encrypt THEN file[p + 1].enc + 1 ELSE file[p + 1].enc
         /\ \A q \in Offsets : q # p => g[q + 1] = file[q + 1]
  <2>1. CASE mode.encrypt
    <3>1. PICK g : g = file' /\ g = Encrypted(f, p)
      BY <1>9, <2>1
    <3>2. p \in 0 .. Len(f) - 1
      BY <1>6, <1>10
    <3>3. /\ g \in Seq(Records) /\ Len(g) = Len(f)
          /\ g[p + 1] \in HeadRec \cup BlockRec /\ Alike(g[p + 1], f[p + 1])
          /\ g[p + 1].next = f[p + 1].next /\ g[p + 1].enc = f[p + 1].enc + 1
          /\ \A q \in 0 .. Len(f) - 1 : q # p => g[q + 1] = f[q + 1]
      BY <1>10, <3>1, <3>2, EncryptsOne
    <3>4. Alike(g[p + 1], file[p + 1])
      <4>1. file[p + 1] \in HeadRec => file[p + 1] \notin BlockRec
        BY DEF HeadRec, BlockRec
      <4>2. f[p + 1] \in HeadRec => f[p + 1] \notin BlockRec
        BY DEF HeadRec, BlockRec
      <4>3. Alike(g[p + 1], f[p + 1]) /\ Alike(f[p + 1], file[p + 1])
        BY <1>10, <3>3
      <4>. QED  BY <4>1, <4>2, <4>3 DEF Alike
    <3>5. \A q \in Offsets : q # p => g[q + 1] = file[q + 1]
      BY <1>6, <1>10, <3>3
    <3>. QED  BY <1>10, <2>1, <3>1, <3>3, <3>4, <3>5
  <2>2. CASE ~mode.encrypt
    <3>1. file' = f
      BY <1>9, <2>2
    <3>. QED  BY <1>10, <2>2, <3>1
  <2>. QED  BY <2>1, <2>2
<1>12. /\ \A d \in Chunks : d # c => sinfo'[d] = sinfo[d]
       /\ sinfo'[c].size = sinfo[c].size /\ sinfo'[c].chunks = sinfo[c].chunks
       /\ sinfo'[c].initial_pos = sinfo[c].initial_pos
       /\ sinfo'[c].cur_pos = a /\ sinfo'[c].last_headofs = sinfo[c].last_headofs
       /\ sinfo'[c].last_head[s] = a
       /\ \A k \in Streams : k # s => sinfo'[c].last_head[k] = sinfo[c].last_head[k]
  <2>1. sinfo \in [Chunks -> SinfoRec] /\ c \in Chunks
    BY <1>5 DEF PassInv, SinfoTypes
  <2>2. sinfo' = Moved(sinfo, Of(i), Stream(i), sinfo[Of(i)].cur_pos)
    BY Zenon DEF Patch, Moved
  <2>3. sinfo' = Moved(sinfo, c, s, a)
    BY <1>5, <1>7, <2>2
  <2>. QED  BY <1>7, <2>1, <2>3, SinfoMove
<1>13. /\ \A d \in 1 .. Opened : d \in Chunks
       /\ \A d \in Chunks : /\ sinfo'[d].initial_pos = sinfo[d].initial_pos
                            /\ sinfo'[d].size = sinfo[d].size
                            /\ sinfo'[d].chunks = sinfo[d].chunks
                            /\ sinfo'[d].cur_pos = sinfo[d].cur_pos
                            /\ sinfo'[d].last_headofs = sinfo[d].last_headofs
  BY <1>7, <1>12, OpenedFacts
<1>14. /\ \A k \in 1 .. Known : Pos(k)' = Pos(k)
       /\ \A k \in 1 .. Len(log) : BlockAt(Pos(k), k)'
       /\ \A d \in 1 .. Opened :
            /\ Start(d)' = Start(d)
            /\ ChunkStart(Start(d) - 1, d)'
            /\ \A j \in Streams : HeadAt(Start(d) + j, d, j)'
            /\ At(Start(d) - 1)'.eof = At(Start(d) - 1).eof
  <2>1. \A q \in Offsets : q > 0 => Alike(file'[q + 1], file[q + 1])
    BY <1>11 DEF Alike
  <2>. QED  BY <1>1, <1>13, <2>1, RecordsStay
<1>15. Offsets' = Offsets /\ Len(file') = Len(file)
  BY <1>11 DEF Offsets
<1>16. Pos(n + 1)' = Len(file)
  BY <1>1, <1>7 DEF Pos
<1>17. /\ Last(c, s)' = Len(file)
       /\ \A d \in 1 .. Opened : \A j \in Streams :
            d # c \/ j # s => Last(d, j)' = Last(d, j)
  <2>1. \A d \in 1 .. Opened : Start(d)' = Start(d)
    BY <1>14
  <2>2. Last(c, s)' = Len(file)
    BY <1>7, <1>12, <2>1 DEF Last
  <2>. QED  BY <1>12, <1>13, <2>1, <2>2 DEF Last
<1>18. /\ \A q : IsHead(q, c, s)' <=> IsHead(q, c, s) \/ q = Len(file)
       /\ \A d \in 1 .. Opened : \A j \in Streams :
            d # c \/ j # s => \A q : IsHead(q, d, j)' <=> IsHead(q, d, j)
  <2>1. \A k \in 1 .. n + 1 : k \in 1 .. n \/ k = n + 1
    OBVIOUS
  <2>2. \A k \in 1 .. n : Pos(k)' = Pos(k) /\ k \in 1 .. n + 1
    BY <1>5, <1>14
  <2>3. n + 1 \in 1 .. n + 1 /\ Known = n /\ Known' = n + 1 /\ job' = job
        /\ \A d \in 1 .. Opened : Start(d)' = Start(d)
    BY <1>1, <1>5, <1>14
  <2>4. ASSUME NEW d \in 1 .. Opened, NEW j \in Streams, NEW q
        PROVE  IsHead(q, d, j)' <=> IsHead(q, d, j) \/ (d = c /\ j = s /\ q = Len(file))
    <3>1. IsHead(q, d, j)' <=>
            \/ q = Start(d) + j
            \/ \E k \in 1 .. n + 1 : job[k].chunk = d /\ job[k].stream = j /\ q = Pos(k)'
      BY <2>3 DEF IsHead
    <3>2. IsHead(q, d, j) <=>
            \/ q = Start(d) + j
            \/ \E k \in 1 .. n : job[k].chunk = d /\ job[k].stream = j /\ q = Pos(k)
      BY <2>3 DEF IsHead
    <3>3. (\E k \in 1 .. n + 1 : job[k].chunk = d /\ job[k].stream = j /\ q = Pos(k)') <=>
            \/ \E k \in 1 .. n : job[k].chunk = d /\ job[k].stream = j /\ q = Pos(k)
            \/ d = c /\ j = s /\ q = Len(file)
      BY <1>5, <1>16, <2>1, <2>2
    <3>. QED  BY <3>1, <3>2, <3>3
  <2>. QED  BY <2>4
<1>19. Places'
  <2>1. At(0)'.kind = IF magic_written = 1 THEN "magic" ELSE "blank"
    <3>1. 0 \in Offsets /\ 0 # p
      BY <1>6, <1>8
    <3>. QED  BY <1>11, <3>1 DEF FileInv, Places, At
  <2>2. \A k \in 1 .. Len(log) : Pos(k)' = Pos(k)
    BY <1>5, <1>14
  <2>3. \A q \in Offsets' :
          \/ q = 0
          \/ \E d \in 1 .. Opened : q \in {Start(d)' - 1, Start(d)', Start(d)' + 1}
          \/ \E k \in 1 .. Len(log) : q = Pos(k)'
    BY <1>4, <1>14, <1>15, <2>2 DEF FileInv, Places
  <2>4. Len(file') = 1 + Len(log) + 3 * Opened /\ file' \in Seq(Records)
    <3>1. Len(file) = 1 + Len(log) + 3 * Opened
      BY <1>4, <1>5, <1>6 DEF FileInv, Places
    <3>. QED  BY <1>11, <3>1
  <2>5. Opened' = Opened /\ magic_written' = magic_written /\ log' = log
    BY <1>1, <1>5
  <2>. QED  BY <1>4, <1>14, <2>1, <2>3, <2>4, <2>5 DEF Places
<1>20. InOrder'
  <2>1. InOrder /\ \A k \in 1 .. Len(log) : Pos(k)' = Pos(k)
    BY <1>5, <1>14 DEF FileInv
  <2>2. \A d \in 1 .. Opened : Start(d)' = Start(d)
    BY <1>14
  <2>3. Opened' = Opened /\ log' = log /\ job' = job /\ Len(file') = Len(file)
    BY <1>1, <1>5, <1>11
  <2>. QED  BY <2>1, <2>2, <2>3 DEF InOrder
<1>21. SinfoSound'
  <2>1. \A d \in Chunks : sinfo'[d].chunks = 0 <=> d > Opened'
    BY <1>5, <1>13 DEF FileInv, SinfoSound
  <2>2. Start(c)' + sinfo'[c].cur_pos = Len(file')
    BY <1>7, <1>11, <1>12, <1>14
  <2>3. job'[Len(log') + 1].stream = s /\ sinfo'[c].last_head[s] = sinfo'[c].cur_pos
    BY <1>1, <1>5, <1>12
  <2>. QED  BY <1>5, <2>1, <2>2, <2>3 DEF SinfoSound
<1>22. mode.encrypt => ~Closed(c) /\ ~Closed(c)'
  BY <1>1, <1>3, <1>5, NotClosed DEF Closed
<1>23. Linked(c, s)'
  <2>1. Linked(c, s) /\ Last(c, s) \in Nat /\ Start(c) \in Nat /\ Start(c)' = Start(c)
    BY <1>14, FileFacts DEF FileInv, Chains
  <2>2. IsHead(Last(c, s), c, s)' /\ ~(Last(c, s)' < Len(file'))
    BY <1>6, <1>15, <1>17, <1>18
  <2>3. ASSUME NEW q \in Offsets, IsHead(q, c, s)'
        PROVE  \E t \in Nat :
                 /\ t = Start(c) + file'[q + 1].next
                 /\ q < t /\ t <= Len(file) /\ IsHead(t, c, s)'
                 /\ \A r \in Offsets : IsHead(r, c, s)' => r <= q \/ r >= t
    <3>1. Len(file) \notin Offsets /\ IsHead(q, c, s)
      BY <1>6, <1>18, <2>3
    <3>2. CASE q = p
      <4>1. Start(c) + file'[q + 1].next = Len(file)
        BY <1>7, <1>11, <3>2
      <4>2. q < Len(file)
        BY <1>6
      <4>3. \A r \in Offsets : IsHead(r, c, s)' => r <= q
        BY <1>8, <1>18, <3>1, <3>2, LastIsLast
      <4>4. PICK t \in Nat : t = Len(file)
        BY <1>6
      <4>5. IsHead(t, c, s)' /\ t <= Len(file)
        BY <1>6, <1>18, <4>4
      <4>. QED  BY <4>1, <4>2, <4>3, <4>4, <4>5
    <3>3. CASE q # p
      <4>1. PICK t : /\ t = Start(c) + At(q).next /\ q < t /\ t <= p /\ IsHead(t, c, s)
                     /\ \A r \in Offsets : IsHead(r, c, s) => r <= q \/ r >= t
        BY <1>8, <2>1, <3>1, <3>3 DEF Linked
      <4>2. t \in Nat
        BY <4>1, HeadFacts
      <4>3. file'[q + 1] = At(q)
        BY <1>11, <3>3 DEF At
      <4>4. t <= Len(file)
        BY <1>6, <4>1, <4>2
      <4>5. \A r \in Offsets : IsHead(r, c, s)' => r <= q \/ r >= t
        BY <1>18, <3>1, <4>1
      <4>. QED  BY <1>18, <4>1, <4>2, <4>3, <4>4, <4>5
    <3>. QED  BY <3>2, <3>3
  <2>. QED  BY <1>15, <1>17, <2>1, <2>2, <2>3 DEF Linked, At
<1>24. EncAt(c, s)'
  <2>. SUFFICES ASSUME NEW q \in Offsets, IsHead(q, c, s)'
                PROVE  file'[q + 1].enc = IF mode.encrypt THEN 1 ELSE 0
    <3>1. \A q \in Offsets : q # Last(c, s)'
      BY <1>6, <1>17
    <3>. QED  BY <1>1, <1>15, <3>1 DEF EncAt, At
  <2>1. IsHead(q, c, s) /\ EncAt(c, s)
    BY <1>6, <1>18 DEF FileInv, EncSound
  <2>2. CASE q = p
    <3>1. file[p + 1].enc = 0
      BY <1>8, <1>22, <2>1, <2>2 DEF EncAt, At
    <3>. QED  BY <1>11, <2>2, <3>1
  <2>3. CASE q # p
    BY <1>8, <1>11, <2>1, <2>3 DEF EncAt, At
  <2>. QED  BY <2>2, <2>3
<1>25. ASSUME NEW d \in 1 .. Opened, NEW j \in Streams, d # c \/ j # s
       PROVE  Linked(d, j)' /\ EncAt(d, j)'
  <2>1. Last(d, j)' = Last(d, j) /\ Start(d)' = Start(d)
        /\ \A q : IsHead(q, d, j)' <=> IsHead(q, d, j)
    BY <1>14, <1>17, <1>18, <1>25
  <2>2. ASSUME NEW q \in Offsets, IsHead(q, d, j) PROVE file'[q + 1] = file[q + 1]
    <3>1. q # p
      <4>1. At(q).chunk = d /\ At(q).stream = j
        BY <1>3, <2>2, HeadFacts
      <4>2. At(p).chunk = c /\ At(p).stream = s
        BY <1>3, <1>8, HeadFacts
      <4>. QED  BY <1>25, <4>1, <4>2
    <3>. QED  BY <1>11, <3>1
  <2>3. ~(Len(file) < Len(file')) /\ Len(file') \in Nat /\ Len(file') >= Len(file)
    BY <1>6, <1>15
  <2>4. Closed(d)' <=> Closed(d)
    BY <1>1 DEF Closed
  <2>. QED  BY <1>1, <2>1, <2>2, <2>3, <2>4, LinksStay
<1>26. Chains' /\ EncSound'
  <2>1. \A d \in 1 .. Opened : \A j \in Streams : Linked(d, j)' /\ EncAt(d, j)'
    BY <1>23, <1>24, <1>25
  <2>. QED  BY <1>5, <2>1 DEF Chains, EncSound
<1>27. LastOfsSound'
  <2>. SUFFICES ASSUME mode.encrypt, NEW d \in 1 .. Opened, NEW j \in Streams, ~(d = c /\ j = s)
                PROVE  \/ sinfo'[d].last_headofs[j] = sinfo'[d].last_head[j]
                       \/ sinfo'[d].last_head[j] = j
    BY <1>1, <1>3, <1>5 DEF LastOfsSound
  <2>1. sinfo'[d].last_headofs = sinfo[d].last_headofs
        /\ sinfo'[d].last_head[j] = sinfo[d].last_head[j]
    BY <1>12, <1>13
  <2>. QED  BY <1>3, <2>1 DEF FileInv, LastOfsSound
<1>28. FlagsSound'
  BY <1>1, <1>5, <1>14 DEF FileInv, FlagsSound
<1>29. OffsetSound'
  <2>1. fpos' = p + 1 /\ fpos' \in 0 .. Len(file') /\ Len(file') = Len(file)
    BY <1>6, <1>9, <1>11
  <2>2. Start(Opened)' = Start(Opened) /\ Opened' = Opened
    BY <1>5, <1>14
  <2>. QED  BY <1>1, <1>3, <1>4, <2>1, <2>2 DEF FileInv, OffsetSound
<1>. QED  BY <1>19, <1>20, <1>21, <1>26, <1>27, <1>28, <1>29 DEF FileInv

(* Encrypting headers leaves the chains as they are. *)
LEMMA LinkedStays ==
  ASSUME RingInv, PassInv, JobsInv, FileInv, NEW c \in 1 .. Opened, NEW j \in Streams,
         Start(c)' = Start(c), Last(c, j)' = Last(c, j), Len(file') = Len(file),
         \A p : IsHead(p, c, j)' <=> IsHead(p, c, j),
         \A p \in Offsets : IsHead(p, c, j) => file'[p + 1].next = file[p + 1].next
  PROVE  Linked(c, j)'
<1>1. /\ Linked(c, j) /\ Last(c, j) \in Nat /\ Offsets' = Offsets /\ IsHead(Last(c, j), c, j)
      /\ Len(file) \in Nat /\ Offsets = 0 .. Len(file) - 1
  BY FileFacts DEF FileInv, Chains, Linked, Offsets
<1>2. Last(c, j) < Len(file) => file'[Last(c, j) + 1].next = 0
  BY <1>1 DEF Linked, At
<1>3. ASSUME NEW p \in Offsets, IsHead(p, c, j), p # Last(c, j)
      PROVE  LET q == Start(c) + file'[p + 1].next
             IN /\ p < q /\ q <= Last(c, j) /\ IsHead(q, c, j)
                /\ \A r \in Offsets : IsHead(r, c, j) => r <= p \/ r >= q
  BY <1>1, <1>3 DEF Linked, At
<1>. QED  BY <1>1, <1>2, <1>3 DEF Linked, At

(* close_stream_out encrypts the headers at the end of both chains. *)
LEMMA FileEncryptLast ==
  ASSUME RingInv, PassInv, JobsInv, ChunkDrained, FileInv, EncryptLastHeads
  PROVE  FileInv'
<1>1. /\ UNCHANGED <<mode, input, flushed, job, chunk, eof, output_thread, magic_written,
                     log, tpc, sinfo, fpos, jobs>>
      /\ mpc = "drained" /\ rpc' = "next"
  BY DEF EncryptLastHeads, Resume
<1>2. /\ rpc = "drain" /\ mode.encrypt /\ chunk \in Nat \ {0} /\ Len(log) = jobs
      /\ tpc[output_thread] = "idle"
  BY <1>1, NoneLeft DEF PassInv, MainPlaces, PassTypes, InPass, RingInv, TypeOK
<1>3. /\ Phase = "none" /\ Phase' = "none" /\ Known = Len(log) /\ Known' = Known
      /\ Opened' = Opened /\ ~Hashed /\ ~Hashed'
  BY <1>1, <1>2 DEF Phase, Known, Opened, Hashed
<1>4. PICK c \in 1 .. Opened : c = chunk /\ c = Opened /\ c \in Nat \ {0}
  BY <1>2, <1>3 DEF JobsInv, Filled, Opened
<1>5. /\ file \in Seq(Records) /\ Len(file) \in Nat /\ Len(file) >= 1
      /\ Offsets = 0 .. Len(file) - 1
  BY FileFacts
<1>6. ASSUME NEW j \in Streams
      PROVE  /\ Last(c, j) \in Offsets /\ IsHead(Last(c, j), c, j) /\ Last(c, j) >= 2
             /\ At(Last(c, j)) \in HeadRec \cup BlockRec
             /\ At(Last(c, j)).chunk = c /\ At(Last(c, j)).stream = j
             /\ Start(c) + sinfo[c].last_headofs[j] = Last(c, j)
  <2>1. IsHead(Last(c, j), c, j)
    BY DEF FileInv, Chains, Linked
  <2>2. /\ Last(c, j) \in Offsets /\ Last(c, j) >= 2
        /\ At(Last(c, j)) \in HeadRec \cup BlockRec
        /\ At(Last(c, j)).chunk = c /\ At(Last(c, j)).stream = j
    BY <1>3, <2>1, HeadFacts
  <2>3. PICK k \in 1 .. Len(log) : job[k].chunk = c /\ job[k].stream = j
    <3>1. HandedOver(c, j) /\ c \in 1 .. chunk
      BY <1>2, <1>4 DEF HandedOver
    <3>. QED  BY <1>2, <1>4, <3>1 DEF JobsInv
  <2>4. Pos(k) \in Offsets /\ Start(c) + 1 < Pos(k)
    BY <1>4, <2>3, PosFacts DEF FileInv, InOrder
  <2>5. Pos(k) <= Last(c, j)
    <3>1. IsHead(Pos(k), c, j)
      BY <1>3, <2>3 DEF IsHead
    <3>. QED  BY <2>4, <3>1, LastIsLast
  <2>6. sinfo[c].last_head[j] # j
    <3>1. Start(c) \in Nat /\ Pos(k) \in Nat /\ j \in {0, 1}
      <4>1. Start(c) \in Nat
        BY FileFacts
      <4>2. j \in {0, 1}
        BY DEF Streams
      <4>. QED  BY <1>5, <2>4, <4>1, <4>2
    <3>. QED  BY <2>4, <2>5, <3>1 DEF Last
  <2>7. sinfo[c].last_headofs[j] = sinfo[c].last_head[j]
    BY <1>2, <1>3, <2>6 DEF FileInv, LastOfsSound
  <2>. QED  BY <2>1, <2>2, <2>7 DEF Last
<1>7. PICK p0 \in Offsets, p1 \in Offsets :
        /\ p0 = Last(c, 0) /\ p1 = Last(c, 1) /\ p0 # p1 /\ p0 # 0 /\ p1 # 0
        /\ file[p0 + 1] \in HeadRec \cup BlockRec /\ file[p1 + 1] \in HeadRec \cup BlockRec
        /\ file' = Encrypted(Encrypted(file, p0), p1)
  <2>1. 0 \in Streams /\ 1 \in Streams
    BY DEF Streams
  <2>2. LET at(j) == sinfo[chunk].initial_pos + sinfo[chunk].last_headofs[j]
        IN file' = Encrypted(Encrypted(file, at(0)), at(1))
    BY Zenon DEF EncryptLastHeads
  <2>3. file' = Encrypted(Encrypted(file, Last(c, 0)), Last(c, 1))
    BY <1>4, <1>6, <2>1, <2>2 DEF Start
  <2>4. Last(c, 0) # Last(c, 1) /\ Last(c, 0) # 0 /\ Last(c, 1) # 0
    BY <1>6, <2>1
  <2>. QED  BY <1>6, <2>1, <2>3, <2>4 DEF At
<1>8. PICK f :
        /\ f = Encrypted(file, p0) /\ f \in Seq(Records) /\ Len(f) = Len(file)
        /\ Alike(f[p0 + 1], file[p0 + 1])
        /\ f[p0 + 1].next = file[p0 + 1].next /\ f[p0 + 1].enc = file[p0 + 1].enc + 1
        /\ \A q \in Offsets : q # p0 => f[q + 1] = file[q + 1]
  <2>1. PICK f : f = Encrypted(file, p0)
    OBVIOUS
  <2>2. p0 \in 0 .. Len(file) - 1
    BY <1>5
  <2>. QED  BY <1>5, <1>7, <2>1, <2>2, EncryptsOne, SMTT(30)
<1>9. PICK g :
        /\ file' = g /\ g \in Seq(Records) /\ Len(g) = Len(file)
        /\ Alike(g[p1 + 1], f[p1 + 1])
        /\ g[p1 + 1].next = f[p1 + 1].next /\ g[p1 + 1].enc = f[p1 + 1].enc + 1
        /\ \A q \in Offsets : q # p1 => g[q + 1] = f[q + 1]
  <2>1. PICK g : g = file' /\ g = Encrypted(f, p1)
    BY <1>7, <1>8
  <2>2. p1 \in 0 .. Len(f) - 1 /\ f[p1 + 1] \in HeadRec \cup BlockRec
    BY <1>5, <1>7, <1>8
  <2>3. /\ g \in Seq(Records) /\ Len(g) = Len(f)
        /\ Alike(g[p1 + 1], f[p1 + 1])
        /\ g[p1 + 1].next = f[p1 + 1].next /\ g[p1 + 1].enc = f[p1 + 1].enc + 1
        /\ \A q \in 0 .. Len(f) - 1 : q # p1 => g[q + 1] = f[q + 1]
    BY <1>8, <2>1, <2>2, EncryptsOne
  <2>. QED  BY <1>5, <1>8, <2>1, <2>3
<1>10. /\ file' \in Seq(Records) /\ Len(file') = Len(file) /\ Offsets' = Offsets
       /\ \A q \in Offsets : Alike(file'[q + 1], file[q + 1])
       /\ \A q \in Offsets : (q = p0 \/ q = p1) =>
            file'[q + 1].next = file[q + 1].next /\ file'[q + 1].enc = file[q + 1].enc + 1
       /\ \A q \in Offsets : q # p0 /\ q # p1 => file'[q + 1] = file[q + 1]
  <2>1. /\ file' \in Seq(Records) /\ Len(file') = Len(file) /\ Offsets' = Offsets
    BY <1>8, <1>9 DEF Offsets
  <2>2. \A q \in Offsets : q # p0 /\ q # p1 => file'[q + 1] = file[q + 1]
    BY <1>8, <1>9
  <2>3. f[p1 + 1] = file[p1 + 1] /\ g[p0 + 1] = f[p0 + 1]
    BY <1>7, <1>8, <1>9
  <2>4. \A q \in Offsets : (q = p0 \/ q = p1) =>
          /\ file'[q + 1].next = file[q + 1].next /\ file'[q + 1].enc = file[q + 1].enc + 1
          /\ Alike(file'[q + 1], file[q + 1])
    BY <1>8, <1>9, <2>3
  <2>5. \A q \in Offsets : Alike(file'[q + 1], file[q + 1])
    <3>1. \A q \in Offsets : q # p0 /\ q # p1 => Alike(file'[q + 1], file[q + 1])
      BY <2>2 DEF Alike
    <3>. QED  BY <2>4, <3>1
  <2>. QED  BY <2>1, <2>2, <2>4, <2>5
<1>11. /\ \A k \in 1 .. Known : Pos(k)' = Pos(k)
       /\ \A k \in 1 .. Len(log) : BlockAt(Pos(k), k)'
       /\ \A d \in 1 .. Opened :
            /\ Start(d)' = Start(d)
            /\ ChunkStart(Start(d) - 1, d)'
            /\ \A j \in Streams : HeadAt(Start(d) + j, d, j)'
            /\ At(Start(d) - 1)'.eof = At(Start(d) - 1).eof
  BY <1>1, <1>10, RecordsStay
<1>12. /\ \A d, j : Last(d, j)' = Last(d, j)
       /\ \A d, j, q : IsHead(q, d, j)' <=> IsHead(q, d, j)
  <2>1. \A d : Start(d)' = Start(d)
    BY <1>1 DEF Start
  <2>. QED  BY <1>1, <1>3, <1>11, <2>1 DEF Last, IsHead
<1>13. Places'
  <2>1. At(0)' = At(0)
    <3>1. 0 \in Offsets
      BY <1>5
    <3>. QED  BY <1>7, <1>10, <3>1 DEF At
  <2>2. \A k \in 1 .. Len(log) : Pos(k)' = Pos(k)
    BY <1>3, <1>11
  <2>3. \A q \in Offsets' :
          \/ q = 0
          \/ \E d \in 1 .. Opened : q \in {Start(d)' - 1, Start(d)', Start(d)' + 1}
          \/ \E k \in 1 .. Len(log) : q = Pos(k)'
    BY <1>3, <1>10, <1>11, <2>2 DEF FileInv, Places
  <2>. QED  BY <1>1, <1>3, <1>10, <1>11, <2>1, <2>3 DEF FileInv, Places
<1>14. InOrder'
  <2>1. InOrder /\ \A k \in 1 .. Len(log) : Pos(k)' = Pos(k)
    BY <1>3, <1>11 DEF FileInv
  <2>2. \A d \in 1 .. Opened : Start(d)' = Start(d)
    BY <1>11
  <2>. QED  BY <1>1, <1>3, <1>10, <2>1, <2>2 DEF InOrder
<1>15. SinfoSound' /\ LastOfsSound'
  <2>1. SinfoSound'
    BY <1>1, <1>3, <1>4, <1>10, <1>11 DEF FileInv, SinfoSound
  <2>2. LastOfsSound'
    BY <1>1, <1>3 DEF FileInv, LastOfsSound
  <2>. QED  BY <2>1, <2>2
<1>16. Chains'
  <2>1. \A q \in Offsets : file'[q + 1].next = file[q + 1].next
    BY <1>10
  <2>2. ASSUME NEW d \in 1 .. Opened, NEW j \in Streams PROVE Linked(d, j)'
    BY <1>10, <1>11, <1>12, <2>1, LinkedStays
  <2>. QED  BY <1>3, <2>2 DEF Chains
<1>17. EncSound'
  <2>. SUFFICES ASSUME NEW d \in 1 .. Opened, NEW j \in Streams, NEW q \in Offsets, IsHead(q, d, j)
                PROVE  file'[q + 1].enc = 1
    <3>1. \A d \in 1 .. Opened : Closed(d)'
      BY <1>1 DEF Closed
    <3>. QED  BY <1>1, <1>2, <1>3, <1>10, <1>12, <3>1 DEF EncSound, EncAt, At
  <2>1. file[q + 1].enc = IF q # Last(d, j) \/ Closed(d) THEN 1 ELSE 0
    BY <1>2 DEF FileInv, EncSound, EncAt, At
  <2>2. At(q).chunk = d /\ At(q).stream = j
    BY <1>3, HeadFacts
  <2>3. Closed(d) <=> d # c
    BY <1>2, <1>4 DEF Closed
  <2>4. CASE d = c /\ q = Last(d, j)
    <3>1. q = p0 \/ q = p1
      BY <1>7, <2>4 DEF Streams
    <3>. QED  BY <1>10, <2>1, <2>3, <2>4, <3>1
  <2>5. CASE ~(d = c /\ q = Last(d, j))
    <3>1. q # p0 /\ q # p1
      <4>1. 0 \in Streams /\ 1 \in Streams
        BY DEF Streams
      <4>2. At(p0).chunk = c /\ At(p0).stream = 0 /\ At(p1).chunk = c /\ At(p1).stream = 1
        BY <1>6, <1>7, <4>1
      <4>. QED  BY <1>7, <2>2, <2>5, <4>2
    <3>. QED  BY <1>10, <2>1, <2>3, <2>5, <3>1
  <2>. QED  BY <2>4, <2>5
<1>18. FlagsSound'
  BY <1>1, <1>2, <1>3, <1>11 DEF FileInv, FlagsSound
<1>19. OffsetSound'
  <2>1. Start(Opened)' = Start(Opened)
    BY <1>1, <1>3 DEF Start
  <2>. QED  BY <1>1, <1>2, <1>3, <1>10, <2>1 DEF FileInv, OffsetSound
<1>. QED  BY <1>13, <1>14, <1>15, <1>16, <1>17, <1>18, <1>19 DEF FileInv

(* A thread that does not open its chunk writes no header for it.           *)
LEMMA FileCount ==
  ASSUME RingInv, PassInv, JobsInv, ChunkDrained, FileInv, NEW i \in Slots,
         PutHeader(i), ~FirstOfChunk(i)
  PROVE  FileInv'
<1>1. /\ UNCHANGED <<mode, input, flushed, job, chunk, eof, output_thread, magic_written, rpc,
                     log, file, fpos>>
      /\ tpc[i] = "header" /\ tpc' = [tpc EXCEPT ![i] = "patch"]
  BY DEF PutHeader, WriteHeader, rzipVars
<1>2. /\ i = output_thread /\ Len(log) + 1 \in 1 .. jobs
      /\ Len(log) \in Nat /\ tpc[i] # "idle" /\ jobs \in Nat
      /\ Of(i) = job[Len(log) + 1].chunk /\ Of(i) \in Nat \ {0} /\ Of(i) <= chunk
  BY <1>1, WriterOldest
<1>3. Phase = "header" /\ Phase' = "patch"
  <2>1. tpc'[output_thread'] = "patch"
    BY <1>1, <1>2 DEF RingInv, TypeOK
  <2>. QED  BY <1>1, <1>2, <2>1 DEF Phase
<1>4. ~Hashed /\ ~Hashed' /\ rpc # "finished" /\ rpc' # "finished"
  BY <1>1, <1>2, HashedQuiet DEF Hashed
<1>5. PICK c \in 1 .. Opened :
        /\ c = Of(i) /\ c = Opened /\ c \in Chunks
        /\ Opened' = Opened /\ Known' = Known /\ Opened \in Nat
  <2>1. Of(i) \in Chunks /\ chunk \in Nat
    <3>1. Of(i) \in 1 .. chunk /\ chunk \in Nat
      BY <1>2 DEF PassInv, PassTypes
    <3>. QED  BY <3>1, ChunkFits
  <2>2. Of(i) <= Opened /\ Opened \in Nat
    BY <1>2, <2>1, OpenedFacts DEF FileInv, SinfoSound, FirstOfChunk
  <2>3. Opened <= Of(i)
    <3>1. Opened = IF Len(log) = 0 THEN 0 ELSE job[Len(log)].chunk
      BY <1>3 DEF Opened
    <3>2. Len(log) # 0 => Len(log) \in 1 .. jobs /\ Len(log) <= Len(log) + 1
      BY <1>2
    <3>. QED  BY <1>2, <3>1, <3>2 DEF JobsInv
  <2>4. Of(i) = Opened
    BY <1>2, <2>2, <2>3
  <2>5. Opened' = Of(i) /\ Known' = Known
    BY <1>1, <1>2, <1>3 DEF Opened, Known
  <2>6. Of(i) \in 1 .. Opened
    BY <1>2, <2>2
  <2>. QED  BY <2>1, <2>2, <2>4, <2>5, <2>6
<1>6. /\ \A d \in Chunks : d # c => sinfo'[d] = sinfo[d]
      /\ sinfo'[c].size = sinfo[c].size /\ sinfo'[c].chunks = sinfo[c].chunks + 1
      /\ sinfo'[c].initial_pos = sinfo[c].initial_pos /\ sinfo'[c].cur_pos = sinfo[c].cur_pos
      /\ sinfo'[c].last_head = sinfo[c].last_head
      /\ sinfo'[c].last_headofs = sinfo[c].last_headofs
  <2>1. sinfo \in [Chunks -> SinfoRec] /\ c \in Chunks
    BY <1>5 DEF PassInv, SinfoTypes
  <2>2. sinfo' = Counted(sinfo, Of(i))
    BY Zenon DEF PutHeader, Counted
  <2>3. sinfo' = Counted(sinfo, c)
    BY <1>5, <2>2
  <2>. QED  BY <2>1, <2>3, SinfoCount
<1>7. /\ \A d \in 1 .. Opened : d \in Chunks
      /\ \A d \in Chunks : /\ sinfo'[d].initial_pos = sinfo[d].initial_pos
                           /\ sinfo'[d].size = sinfo[d].size
                           /\ sinfo'[d].cur_pos = sinfo[d].cur_pos
                           /\ sinfo'[d].last_head = sinfo[d].last_head
                           /\ sinfo'[d].last_headofs = sinfo[d].last_headofs
  BY <1>6, OpenedFacts
<1>8. /\ \A k \in 1 .. Known : Pos(k)' = Pos(k)
      /\ \A k \in 1 .. Len(log) : BlockAt(Pos(k), k)'
      /\ \A d \in 1 .. Opened :
           /\ Start(d)' = Start(d)
           /\ ChunkStart(Start(d) - 1, d)'
           /\ \A j \in Streams : HeadAt(Start(d) + j, d, j)'
           /\ At(Start(d) - 1)'.eof = At(Start(d) - 1).eof
  <2>1. \A q \in Offsets : Alike(file'[q + 1], file[q + 1])
    BY <1>1 DEF Alike
  <2>. QED  BY <1>1, <1>7, <2>1, RecordsStay
<1>9. /\ \A d \in 1 .. Opened : \A j \in Streams : Last(d, j)' = Last(d, j)
      /\ \A d \in 1 .. Opened : \A j \in Streams : \A q : IsHead(q, d, j)' <=> IsHead(q, d, j)
  <2>1. \A d \in 1 .. Opened : Start(d)' = Start(d)
    BY <1>8
  <2>. QED  BY <1>1, <1>5, <1>7, <1>8, <2>1 DEF Last, IsHead
<1>10. Places'
  <2>1. Offsets' = Offsets /\ At(0)' = At(0) /\ Len(file') = Len(file)
    BY <1>1 DEF Offsets, At
  <2>2. \A k \in 1 .. Len(log) : Pos(k)' = Pos(k)
    BY <1>1 DEF Pos
  <2>3. \A q \in Offsets' :
          \/ q = 0
          \/ \E d \in 1 .. Opened : q \in {Start(d)' - 1, Start(d)', Start(d)' + 1}
          \/ \E k \in 1 .. Len(log) : q = Pos(k)'
    BY <1>4, <1>8, <2>1, <2>2 DEF FileInv, Places
  <2>. QED  BY <1>1, <1>4, <1>5, <1>8, <2>1, <2>3 DEF FileInv, Places
<1>11. InOrder'
  <2>1. InOrder /\ \A k \in 1 .. Len(log) : Pos(k)' = Pos(k)
    BY <1>1 DEF FileInv, Pos
  <2>2. \A d \in 1 .. Opened : Start(d)' = Start(d)
    BY <1>8
  <2>. QED  BY <1>1, <1>5, <2>1, <2>2 DEF InOrder
<1>12. SinfoSound'
  <2>1. sinfo[c].chunks \in Nat
    BY FileFacts
  <2>2. \A d \in Chunks : sinfo'[d].chunks = 0 <=> d > Opened
    <3>1. \A d \in Chunks : sinfo[d].chunks = 0 <=> d > Opened
      BY DEF FileInv, SinfoSound
    <3>2. sinfo'[c].chunks # 0 /\ ~(c > Opened)
      BY <1>5, <1>6, <2>1
    <3>3. \A d \in Chunks : d # c => sinfo'[d].chunks = sinfo[d].chunks
      BY <1>6
    <3>. QED  BY <3>1, <3>2, <3>3
  <2>3. Start(Opened)' = Start(Opened) /\ sinfo'[Opened].cur_pos = sinfo[Opened].cur_pos
    BY <1>5, <1>7, <1>8
  <2>. QED  BY <1>1, <1>3, <1>4, <1>5, <2>2, <2>3 DEF FileInv, SinfoSound
<1>13. Chains' /\ EncSound'
  <2>1. ASSUME NEW d \in 1 .. Opened, NEW j \in Streams
        PROVE  Linked(d, j)' /\ EncAt(d, j)'
    <3>1. ~(Len(file) < Len(file')) /\ Len(file') \in Nat /\ Len(file') >= Len(file)
      BY <1>1, FileFacts
    <3>2. Closed(d)' <=> Closed(d)
      BY <1>1 DEF Closed
    <3>. QED  BY <1>1, <1>8, <1>9, <3>1, <3>2, LinksStay
  <2>. QED  BY <1>5, <2>1 DEF Chains, EncSound
<1>14. LastOfsSound'
  BY <1>1, <1>3, <1>5, <1>7 DEF FileInv, LastOfsSound
<1>15. FlagsSound'
  BY <1>1, <1>5, <1>8 DEF FileInv, FlagsSound
<1>16. OffsetSound'
  <2>1. Start(Opened)' = Start(Opened) /\ Opened' = Opened /\ At(0)' = At(0)
    BY <1>1, <1>5, <1>8 DEF At
  <2>. QED  BY <1>1, <1>3, <1>4, <2>1 DEF FileInv, OffsetSound
<1>. QED  BY <1>10, <1>11, <1>12, <1>13, <1>14, <1>15, <1>16 DEF FileInv

(* The first thread of a chunk writes its header and those of its streams.  *)
LEMMA FileOpen ==
  ASSUME RingInv, PassInv, JobsInv, ChunkDrained, FileInv, NEW i \in Slots,
         PutHeader(i), FirstOfChunk(i)
  PROVE  FileInv'
<1>1. /\ UNCHANGED <<mode, input, job, chunk, eof, output_thread, magic_written, rpc, log>>
      /\ tpc[i] = "header" /\ tpc' = [tpc EXCEPT ![i] = "patch"]
  BY DEF PutHeader, WriteHeader, rzipVars
<1>2. /\ i = output_thread /\ Len(log) + 1 \in 1 .. jobs
      /\ Len(log) \in Nat /\ tpc[i] # "idle" /\ jobs \in Nat
      /\ Of(i) = job[Len(log) + 1].chunk /\ Of(i) \in Nat \ {0} /\ Of(i) <= chunk
  BY <1>1, WriterOldest
<1>3. Phase = "header" /\ Phase' = "patch"
  <2>1. tpc'[output_thread'] = "patch"
    BY <1>1, <1>2 DEF RingInv, TypeOK
  <2>. QED  BY <1>1, <1>2, <2>1 DEF Phase
<1>4. ~Hashed /\ ~Hashed' /\ rpc # "finished" /\ rpc' # "finished"
  BY <1>1, <1>2, HashedQuiet DEF Hashed
<1>5. PICK c \in Nat \ {0} :
        /\ c = Of(i) /\ c \in Chunks /\ c \in 1 .. chunk /\ job[Len(log) + 1].chunk = c
        /\ Opened \in Nat /\ c = Opened + 1 /\ Opened' = c /\ Known = Len(log) /\ Known' = Known
        /\ 1 .. c = (1 .. Opened) \cup {c} /\ c \notin 1 .. Opened
  <2>1. Of(i) \in Chunks /\ Of(i) \in 1 .. chunk
    <3>1. Of(i) \in 1 .. chunk /\ chunk \in Nat
      BY <1>2 DEF PassInv, PassTypes
    <3>. QED  BY <3>1, ChunkFits
  <2>2. Of(i) > Opened /\ Opened \in Nat
    BY <1>2, <2>1, OpenedFacts DEF FileInv, SinfoSound, FirstOfChunk
  <2>3. Of(i) <= Opened + 1
    <3>1. Opened = IF Len(log) = 0 THEN 0 ELSE job[Len(log)].chunk
      BY <1>3 DEF Opened
    <3>2. job[Len(log) + 1].chunk <=
            (IF Len(log) + 1 = 1 THEN 0 ELSE job[(Len(log) + 1) - 1].chunk) + 1
      BY <1>2 DEF JobsInv
    <3>. QED  BY <1>2, <3>1, <3>2
  <2>4. Of(i) = Opened + 1
    BY <1>2, <2>2, <2>3
  <2>5. Opened' = Of(i) /\ Known = Len(log) /\ Known' = Known
    BY <1>1, <1>2, <1>3 DEF Opened, Known
  <2>6. 1 .. Opened + 1 = (1 .. Opened) \cup {Opened + 1} /\ Opened + 1 \notin 1 .. Opened
    BY <2>2
  <2>. QED  BY <1>2, <2>1, <2>2, <2>4, <2>5, <2>6
<1>6. /\ file \in Seq(Records) /\ Len(file) \in Nat /\ Len(file) >= 1
      /\ Offsets = 0 .. Len(file) - 1
  BY FileFacts
<1>7. fpos = Len(file) /\ (~mode.stdout => flushed = 0)
  BY <1>3, <1>4 DEF FileInv, OffsetSound
<1>8. PICK r \in Records, s \in Records, t \in Records :
        /\ r = ChunkHeader(c) /\ s = StreamHead(c, 0) /\ t = StreamHead(c, 1)
        /\ r.kind = "chunk" /\ r.chunk = c /\ r.eof = eof /\ r.size = sinfo[c].size
        /\ s \in HeadRec /\ s.chunk = c /\ s.stream = 0 /\ s.next = 0 /\ s.enc = 0
        /\ t \in HeadRec /\ t.chunk = c /\ t.stream = 1 /\ t.next = 0 /\ t.enc = 0
  <2>1. eof \in {0, 1} /\ sinfo[c].size \in Nat
    BY <1>5 DEF PassInv, PassTypes, SinfoTypes, SinfoRec
  <2>2. /\ ChunkHeader(c) \in Records
        /\ ChunkHeader(c).kind = "chunk" /\ ChunkHeader(c).chunk = c
        /\ ChunkHeader(c).eof = eof /\ ChunkHeader(c).size = sinfo[c].size
    BY <2>1 DEF ChunkHeader, Records
  <2>3. ASSUME NEW j \in Streams
        PROVE  /\ StreamHead(c, j) \in HeadRec /\ StreamHead(c, j).chunk = c
               /\ StreamHead(c, j).stream = j /\ StreamHead(c, j).next = 0
               /\ StreamHead(c, j).enc = 0
    BY DEF StreamHead, HeadRec
  <2>4. 0 \in Streams /\ 1 \in Streams /\ HeadRec \subseteq Records
    BY DEF Streams, Records
  <2>. QED  BY <2>2, <2>3, <2>4
<1>9. /\ file' = PutAt(PutAt(PutAt(file, Len(file), r), Len(file) + 1, s), Len(file) + 2, t)
      /\ fpos' = Len(file) + 3 /\ flushed' = IF mode.stdout THEN Len(file) ELSE 0
      /\ \E h : h = [j \in Streams |-> j] /\ sinfo' = Headed(sinfo, c, Len(file) + 1, h)
  <2>1. PICK at : at = IF mode.stdout THEN Len(file) ELSE fpos
    OBVIOUS
  <2>2. /\ file' = PutAt(PutAt(PutAt(file, at, ChunkHeader(Of(i))),
                         at + 1, StreamHead(Of(i), 0)), at + 2, StreamHead(Of(i), 1))
        /\ fpos' = at + 3
        /\ flushed' = IF mode.stdout THEN at ELSE flushed
        /\ sinfo' = Headed(sinfo, Of(i), at + 1, [j \in Streams |-> j])
    BY <2>1, Zenon DEF PutHeader, Headed
  <2>3. at = Len(file)
    BY <1>7, <2>1
  <2>4. /\ file' = PutAt(PutAt(PutAt(file, Len(file), r), Len(file) + 1, s), Len(file) + 2, t)
        /\ fpos' = Len(file) + 3 /\ flushed' = IF mode.stdout THEN Len(file) ELSE flushed
        /\ sinfo' = Headed(sinfo, c, Len(file) + 1, [j \in Streams |-> j])
    BY <1>5, <1>8, <2>2, <2>3, Zenon
  <2>5. flushed' = IF mode.stdout THEN Len(file) ELSE 0
    BY <1>7, <2>4
  <2>6. \E h : h = [j \in Streams |-> j] /\ sinfo' = Headed(sinfo, c, Len(file) + 1, h)
    BY <2>4, Zenon
  <2>. QED  BY <2>4, <2>5, <2>6
<1>10. /\ file' \in Seq(Records) /\ Len(file') = Len(file) + 3
       /\ file'[Len(file) + 1] = r /\ file'[Len(file) + 2] = s /\ file'[Len(file) + 3] = t
       /\ \A q \in Offsets : file'[q + 1] = file[q + 1]
  <2>1. PICK f1 : f1 = PutAt(file, Len(file), r)
    OBVIOUS
  <2>2. f1 = Append(file, r)
    BY <1>6, <2>1 DEF PutAt
  <2>3. /\ f1 \in Seq(Records) /\ Len(f1) = Len(file) + 1 /\ f1[Len(file) + 1] = r
        /\ \A q \in 1 .. Len(file) : f1[q] = file[q]
    BY <1>6, <2>2
  <2>4. PICK f2 : f2 = PutAt(f1, Len(file) + 1, s)
    OBVIOUS
  <2>5. f2 = Append(f1, s)
    BY <1>6, <2>3, <2>4 DEF PutAt
  <2>6. /\ f2 \in Seq(Records) /\ Len(f2) = Len(f1) + 1 /\ f2[Len(f1) + 1] = s
        /\ \A q \in 1 .. Len(f1) : f2[q] = f1[q]
    BY <2>3, <2>5
  <2>7. PICK f3 : f3 = file' /\ f3 = PutAt(f2, Len(file) + 2, t)
    BY <1>9, <2>1, <2>4
  <2>8. f3 = Append(f2, t)
    BY <1>6, <2>3, <2>6, <2>7 DEF PutAt
  <2>9. /\ f3 \in Seq(Records) /\ Len(f3) = Len(f2) + 1 /\ f3[Len(f2) + 1] = t
        /\ \A q \in 1 .. Len(f2) : f3[q] = f2[q]
    BY <2>6, <2>8
  <2>10. Len(f1) = Len(file) + 1 /\ Len(f2) = Len(file) + 2
    BY <1>6, <2>3, <2>6
  <2>11. f3[Len(file) + 1] = r /\ f3[Len(file) + 2] = s /\ f3[Len(file) + 3] = t
    <3>1. Len(file) + 1 \in 1 .. Len(f1) /\ Len(file) + 1 \in 1 .. Len(f2)
          /\ Len(file) + 2 \in 1 .. Len(f2) /\ Len(f1) + 1 = Len(file) + 2
          /\ Len(f2) + 1 = Len(file) + 3
      BY <1>6, <2>10
    <3>. QED  BY <2>3, <2>6, <2>9, <3>1
  <2>12. \A q \in Offsets : f3[q + 1] = file[q + 1]
    <3>1. \A q \in Offsets : /\ q + 1 \in 1 .. Len(file) /\ q + 1 \in 1 .. Len(f1)
                             /\ q + 1 \in 1 .. Len(f2)
      BY <1>6, <2>10
    <3>. QED  BY <2>3, <2>6, <2>9, <3>1
  <2>13. f3 \in Seq(Records) /\ Len(f3) = Len(file) + 3
    BY <1>6, <2>9, <2>10
  <2>. QED  BY <2>7, <2>11, <2>12, <2>13
<1>11. /\ \A d \in Chunks : d # c => sinfo'[d] = sinfo[d]
       /\ sinfo'[c].size = sinfo[c].size /\ sinfo'[c].chunks = 1
       /\ sinfo'[c].initial_pos = Len(file) + 1 /\ sinfo'[c].cur_pos = 2
       /\ \A j \in Streams : sinfo'[c].last_head[j] = j
  <2>1. PICK h : h = [j \in Streams |-> j] /\ sinfo' = Headed(sinfo, c, Len(file) + 1, h)
    BY <1>9
  <2>2. h \in [Streams -> Nat] /\ \A j \in Streams : h[j] = j
    BY <2>1 DEF Streams
  <2>3. sinfo \in [Chunks -> SinfoRec] /\ c \in Chunks /\ Len(file) + 1 \in Nat
    BY <1>5, <1>6 DEF PassInv, SinfoTypes
  <2>. QED  BY <2>1, <2>2, <2>3, SinfoHeader
<1>12. \A d \in 1 .. Opened : d \in Chunks /\ d # c /\ sinfo'[d] = sinfo[d]
  BY <1>5, <1>11, OpenedFacts
<1>13. /\ \A k \in 1 .. Len(log) : Pos(k)' = Pos(k)
       /\ \A k \in 1 .. Len(log) : BlockAt(Pos(k), k)'
       /\ \A d \in 1 .. Opened :
            /\ Start(d)' = Start(d)
            /\ ChunkStart(Start(d) - 1, d)'
            /\ \A j \in Streams : HeadAt(Start(d) + j, d, j)'
            /\ At(Start(d) - 1)'.eof = At(Start(d) - 1).eof
  <2>1. \A q \in Offsets : Alike(file'[q + 1], file[q + 1])
    BY <1>10 DEF Alike
  <2>. QED  BY <1>1, <1>5, <1>12, <2>1, RecordsStay
<1>14. /\ Start(c)' = Len(file) + 1
       /\ \A j \in Streams : Last(c, j)' = Len(file) + 1 + j
       /\ \A d \in 1 .. Opened : \A j \in Streams : Last(d, j)' = Last(d, j)
  BY <1>11, <1>12, <1>13 DEF Start, Last
<1>15. /\ ChunkStart(Start(c) - 1, c)' /\ At(Start(c) - 1)'.eof = eof
       /\ HeadAt(Start(c) + 0, c, 0)' /\ HeadAt(Start(c) + 1, c, 1)'
  <2>1. /\ file'[(Start(c)' - 1) + 1] = r /\ file'[(Start(c)' + 0) + 1] = s
        /\ file'[(Start(c)' + 1) + 1] = t
    <3>1. /\ (Start(c)' - 1) + 1 = Len(file) + 1 /\ (Start(c)' + 0) + 1 = Len(file) + 2
          /\ (Start(c)' + 1) + 1 = Len(file) + 3
      BY <1>6, <1>14
    <3>. QED  BY <1>10, <3>1
  <2>. QED  BY <1>8, <1>11, <2>1 DEF ChunkStart, HeadAt, At
<1>16. Offsets' = 0 .. Len(file) + 2 /\ Len(file') \in Nat
  BY <1>6, <1>10 DEF Offsets
<1>17. Places'
  <2>1. At(0)'.kind = IF magic_written = 1 THEN "magic" ELSE "blank"
    <3>1. 0 \in Offsets
      BY <1>6
    <3>. QED  BY <1>10, <3>1 DEF FileInv, Places, At
  <2>2. Len(file') = 1 + Len(log) + 3 * c
    <3>1. Len(file) = 1 + Len(log) + 3 * Opened
      BY <1>2, <1>4, <1>5 DEF FileInv, Places
    <3>2. Len(file') = Len(file) + 3 /\ c = Opened + 1 /\ Opened \in Nat /\ Len(log) \in Nat
      BY <1>2, <1>5, <1>10
    <3>. QED  BY <3>1, <3>2
  <2>3. \A d \in 1 .. c :
          /\ ChunkStart(Start(d) - 1, d)'
          /\ \A j \in Streams : HeadAt(Start(d) + j, d, j)'
    <3>1. \A j \in Streams : HeadAt(Start(c) + j, c, j)'
      BY <1>15 DEF Streams
    <3>. QED  BY <1>5, <1>13, <1>15, <3>1
  <2>4. ASSUME NEW q \in Offsets'
        PROVE  \/ q = 0
               \/ \E d \in 1 .. c : q \in {Start(d)' - 1, Start(d)', Start(d)' + 1}
               \/ \E k \in 1 .. Len(log) : q = Pos(k)'
    <3>1. CASE q \in Offsets
      <4>1. \/ q = 0
            \/ \E d \in 1 .. Opened : q \in {Start(d) - 1, Start(d), Start(d) + 1}
            \/ \E k \in 1 .. Len(log) : q = Pos(k)
        BY <1>4, <3>1 DEF FileInv, Places
      <4>2. \A d \in 1 .. Opened : d \in 1 .. c /\ Start(d)' = Start(d)
        BY <1>5, <1>13
      <4>. QED  BY <1>13, <4>1, <4>2
    <3>2. CASE q \notin Offsets
      <4>1. q \in {Start(c)' - 1, Start(c)', Start(c)' + 1}
        BY <1>6, <1>14, <1>16, <3>2
      <4>2. c \in 1 .. c
        BY <1>5
      <4>. QED  BY <4>1, <4>2
    <3>. QED  BY <3>1, <3>2
  <2>5. Opened' = c /\ magic_written' = magic_written /\ log' = log /\ file' \in Seq(Records)
        /\ \A k \in 1 .. Len(log) : BlockAt(Pos(k), k)'
    BY <1>1, <1>5, <1>10, <1>13
  <2>. QED  BY <1>4, <2>1, <2>2, <2>3, <2>4, <2>5 DEF Places
<1>18. InOrder'
  <2>1. InOrder
    BY DEF FileInv
  <2>2. \A d \in 1 .. Opened : Start(d) \in Nat /\ Start(d) >= 2 /\ Start(d) + 1 < Len(file)
    BY <2>1, FileFacts DEF InOrder
  <2>3. \A d \in 1 .. c : Start(d)' >= 2 /\ Start(d)' + 1 < Len(file')
    BY <1>5, <1>6, <1>10, <1>13, <1>14, <2>2, SMTT(30)
  <2>4. ASSUME NEW d \in 1 .. c, NEW e \in 1 .. c, d < e PROVE Start(d)' + 2 < Start(e)'
    <3>1. d \in 1 .. Opened
      BY <1>5, <2>4
    <3>2. CASE e \in 1 .. Opened
      BY <1>13, <2>1, <2>4, <3>1, <3>2 DEF InOrder
    <3>3. CASE e = c
      BY <1>6, <1>13, <1>14, <2>2, <3>1, <3>3
    <3>. QED  BY <1>5, <3>2, <3>3
  <2>5. ASSUME NEW d \in 1 .. c, NEW k \in 1 .. Len(log)
        PROVE  IF job[k].chunk < d THEN Pos(k)' + 1 < Start(d)' ELSE Start(d)' + 1 < Pos(k)'
    <3>1. CASE d \in 1 .. Opened
      BY <1>13, <2>1, <3>1 DEF InOrder
    <3>2. CASE d = c
      <4>1. k \in 1 .. Known
        BY <1>5
      <4>2. job[k].chunk < c
        BY <1>5, <4>1, OpenedFacts
      <4>3. Pos(k) \in Offsets
        BY PosFacts
      <4>. QED  BY <1>6, <1>13, <1>14, <3>2, <4>2, <4>3
    <3>. QED  BY <1>5, <3>1, <3>2
  <2>. QED  BY <1>1, <1>5, <2>3, <2>4, <2>5 DEF InOrder
<1>19. SinfoSound'
  <2>1. \A d \in Chunks : sinfo'[d].chunks = 0 <=> d > c
    <3>1. \A d \in Chunks : sinfo[d].chunks = 0 <=> d > Opened
      BY DEF FileInv, SinfoSound
    <3>2. \A d \in Chunks : d \in Nat
      BY DEF Chunks
    <3>. QED  BY <1>5, <1>11, <3>1, <3>2
  <2>2. Start(c)' + sinfo'[c].cur_pos = Len(file')
    BY <1>6, <1>10, <1>11, <1>14
  <2>. QED  BY <1>3, <1>5, <2>1, <2>2 DEF SinfoSound
<1>20. ASSUME NEW j \in Streams, NEW q PROVE IsHead(q, c, j)' <=> q = Start(c)' + j
  <2>1. \A k \in 1 .. Known : job[k].chunk # c
    BY <1>5, OpenedFacts
  <2>. QED  BY <1>1, <1>5, <2>1 DEF IsHead
<1>21. mode.encrypt => c = chunk /\ ~Closed(c)' /\ rpc \notin {"stdin", "open"}
  <2>. SUFFICES ASSUME mode.encrypt PROVE c = chunk /\ ~Closed(c)' /\ rpc \notin {"stdin", "open"}
    OBVIOUS
  <2>1. job[Len(log) + 1].chunk = chunk /\ ~Closed(chunk) /\ rpc \in {"search", "close", "drain"}
    BY <1>3, NotClosed
  <2>. QED  BY <1>1, <1>5, <2>1 DEF Closed
<1>22. ASSUME NEW j \in Streams PROVE Linked(c, j)' /\ EncAt(c, j)'
  <2>1. Last(c, j)' = Start(c)' + j
    BY <1>14
  <2>2. file'[Last(c, j)' + 1].next = 0 /\ file'[Last(c, j)' + 1].enc = 0
    <3>1. j = 0 => Last(c, j)' + 1 = Len(file) + 2
      BY <1>6, <1>14
    <3>2. j = 1 => Last(c, j)' + 1 = Len(file) + 3
      BY <1>6, <1>14
    <3>. QED  BY <1>8, <1>10, <3>1, <3>2 DEF Streams
  <2>3. IsHead(Last(c, j), c, j)' /\ \A q : IsHead(q, c, j)' => q = Last(c, j)'
    BY <1>20, <2>1
  <2>4. Linked(c, j)'
    BY <2>2, <2>3 DEF Linked, At
  <2>5. EncAt(c, j)'
    BY <1>1, <1>21, <2>2, <2>3 DEF EncAt, At
  <2>. QED  BY <2>4, <2>5
<1>23. ASSUME NEW d \in 1 .. Opened, NEW j \in Streams PROVE Linked(d, j)' /\ EncAt(d, j)'
  <2>1. Start(d)' = Start(d) /\ Last(d, j)' = Last(d, j)
    BY <1>13, <1>14
  <2>2. \A q : IsHead(q, d, j)' <=> IsHead(q, d, j)
    BY <1>1, <1>5, <1>13, <2>1 DEF IsHead
  <2>3. Last(d, j) # Len(file)
    <3>1. IsHead(Last(d, j), d, j)
      BY DEF FileInv, Chains, Linked
    <3>2. Len(file) \notin Offsets
      BY <1>6
    <3>. QED  BY <1>3, <3>1, <3>2, VirtualLast
  <2>4. Len(file') \in Nat /\ Len(file') >= Len(file)
    BY <1>6, <1>10
  <2>5. Closed(d)' <=> Closed(d)
    BY <1>1 DEF Closed
  <2>. QED  BY <1>1, <1>10, <2>1, <2>2, <2>3, <2>4, <2>5, LinksStay
<1>24. Chains' /\ EncSound'
  <2>1. \A d \in 1 .. c : \A j \in Streams : Linked(d, j)' /\ EncAt(d, j)'
    BY <1>5, <1>22, <1>23
  <2>. QED  BY <1>5, <2>1 DEF Chains, EncSound
<1>25. LastOfsSound'
  <2>. SUFFICES ASSUME mode.encrypt, NEW d \in 1 .. c, NEW j \in Streams
                PROVE  \/ sinfo'[d].last_headofs[j] = sinfo'[d].last_head[j]
                       \/ sinfo'[d].last_head[j] = j
    BY <1>1, <1>5 DEF LastOfsSound
  <2>1. CASE d = c
    BY <1>11, <2>1
  <2>2. CASE d \in 1 .. Opened
    BY <1>3, <1>12, <2>2 DEF FileInv, LastOfsSound
  <2>. QED  BY <1>5, <2>1, <2>2
<1>26. FlagsSound'
  <2>1. mode.encrypt => \A d \in 1 .. c :
          At(Start(d) - 1)'.eof = 1 <=> d = chunk /\ eof = 1 /\ rpc \notin {"stdin", "open"}
    <3>1. mode.encrypt => \A d \in 1 .. Opened :
            At(Start(d) - 1)'.eof = 1 <=> d = chunk /\ eof = 1 /\ rpc \notin {"stdin", "open"}
      BY <1>13 DEF FileInv, FlagsSound
    <3>. QED  BY <1>5, <1>15, <1>21, <3>1
  <2>2. input = 0 => eof = 1
    <3>1. chunk \in Nat /\ chunk > 0 /\ input \in Nat
      BY <1>2, <1>5, InputAssumption DEF PassInv, PassTypes
    <3>. QED  BY <3>1 DEF PassInv, SizesAddUp
  <2>3. input = 0 => \A d \in 1 .. c : At(Start(d) - 1)'.eof = 1
    <3>1. input = 0 => \A d \in 1 .. Opened : At(Start(d) - 1)'.eof = 1
      BY <1>13 DEF FileInv, FlagsSound
    <3>. QED  BY <1>5, <1>15, <2>2, <3>1
  <2>. QED  BY <1>1, <1>5, <2>1, <2>3 DEF FlagsSound
<1>27. OffsetSound'
  <2>1. fpos' = Len(file') /\ fpos' \in 0 .. Len(file')
    BY <1>6, <1>9, <1>10
  <2>2. flushed' = IF mode.stdout THEN Start(c)' - 1 ELSE 0
    BY <1>6, <1>9, <1>14
  <2>. QED  BY <1>1, <1>3, <1>4, <1>5, <2>1, <2>2 DEF FileInv, OffsetSound
<1>. QED  BY <1>17, <1>18, <1>19, <1>24, <1>25, <1>26, <1>27 DEF FileInv
-----------------------------------------------------------------------------
(* The invariant. *)

(* The archive begins with room for the magic. *)
LEMMA FileInit == Init => FileInv
<1>. SUFFICES ASSUME Init PROVE FileInv
  OBVIOUS
<1>1. /\ log = << >> /\ rpc = "top" /\ file = <<Blank>> /\ fpos = 1 /\ flushed = 0
      /\ magic_written = 0 /\ tpc = [i \in Slots |-> "idle"] /\ output_thread \in Slots
      /\ sinfo = [c \in Chunks |-> NewSinfo]
  BY DEF Init, RingInit
<1>2. Len(log) = 0 /\ Phase = "none" /\ Opened = 0 /\ ~Hashed /\ 1 .. Opened = {}
      /\ 1 .. Len(log) = {}
  BY <1>1 DEF Phase, Opened, Hashed
<1>3. /\ file \in Seq(Records) /\ Len(file) = 1 /\ At(0) = Blank /\ Offsets = {0}
      /\ At(0).kind = "blank"
  BY <1>1 DEF Records, At, Offsets, Blank
<1>4. Places
  BY <1>1, <1>2, <1>3 DEF Places
<1>5. InOrder /\ Chains /\ EncSound /\ LastOfsSound /\ FlagsSound
  BY <1>2 DEF InOrder, Chains, EncSound, LastOfsSound, FlagsSound
<1>6. SinfoSound
  <2>1. \A c \in Chunks : sinfo[c].chunks = 0 /\ c > 0
    BY <1>1 DEF NewSinfo, Chunks
  <2>. QED  BY <1>2, <2>1 DEF SinfoSound
<1>7. OffsetSound
  BY <1>1, <1>2, <1>3 DEF OffsetSound
<1>. QED  BY <1>4, <1>5, <1>6, <1>7 DEF FileInv

(* Each step of the program keeps the archive in order. *)
LEMMA FileNext ==
  ASSUME RingInv, PassInv, JobsInv, ChunkDrained, AppliedInv, FileInv, RingInv', [Next]_vars
  PROVE  FileInv'
<1>1. CASE RzipFd
  BY <1>1, FileMain, FileEncryptLast, FileHash, FileFinalMagic
<1>2. ASSUME NEW i \in Slots, CompThread(i) PROVE FileInv'
  <2>1. CASE Compress(i) \/ GetTurn(i) \/ RingStep(i)
    BY <2>1, FileThreadQuiet
  <2>2. CASE PutMagic(i)
    BY <2>2, FilePutMagic
  <2>3. CASE PutHeader(i)
    BY <2>3, FileCount, FileOpen
  <2>4. CASE Patch(i)
    BY <2>4, FilePatch
  <2>5. CASE PutBlock(i)
    BY <2>5, FilePutBlock
  <2>. QED  BY <1>2, <2>1, <2>2, <2>3, <2>4, <2>5 DEF CompThread
<1>3. CASE Die \/ Finished \/ UNCHANGED vars
  BY <1>3, FileStutter
<1>. QED  BY <1>1, <1>2, <1>3 DEF Next

(* However the threads that write it are interleaved with each other and    *)
(* with the chunk loop, each record of the archive is in its place, the     *)
(* headers are chained and encrypted as far as they should be, and the flags*)
(* and sizes say what was known when they were written (rzip_fd, compthread *)
(* and close_stream_out).                                                   *)
THEOREM ArchiveInvariant == Spec => []ArchiveInv
<1>1. Init => ArchiveInv
  BY RingInvInit, PassInit, JobsInit, FileInit DEF Init, ArchiveInv
<1>2. ArchiveInv /\ [Next]_vars => ArchiveInv'
  <2>. SUFFICES ASSUME ArchiveInv, [Next]_vars PROVE ArchiveInv'
    OBVIOUS
  <2>1. RingInv /\ PassInv /\ JobsInv /\ ChunkDrained /\ AppliedInv /\ FileInv /\ LoopInv
    BY DEF ArchiveInv, LoopInv
  <2>2. RingInv'
    BY <2>1, NextRefines, RingInvNext
  <2>3. LoopInv'
    <3>1. fpos \in Nat /\ Len(file) \in Nat
      BY <2>1, FileFacts
    <3>2. CASE RzipFd
      BY <2>1, <2>2, <3>2, LoopMain
    <3>3. ASSUME NEW i \in Slots, CompThread(i) PROVE LoopInv'
      BY <2>1, <2>2, <3>1, <3>3, LoopThread
    <3>4. CASE Die \/ Finished \/ UNCHANGED vars
      BY <2>1, <2>2, <3>4, LoopStutter
    <3>. QED  BY <3>2, <3>3, <3>4 DEF Next
  <2>4. FileInv'
    BY <2>1, <2>2, FileNext
  <2>. QED  BY <2>3, <2>4 DEF ArchiveInv, LoopInv
<1>. QED  BY <1>1, <1>2, PTL DEF Spec
-----------------------------------------------------------------------------
(* What a reader finds. *)

(* Each kind of record is where the archive has it, and nowhere else.       *)
LEMMA KindFacts ==
  ASSUME ArchiveInv
  PROVE  /\ OfKind("chunk") = {Start(c) - 1 : c \in 1 .. Opened}
         /\ OfKind("head") = {Start(c) + j : c \in 1 .. Opened, j \in Streams}
         /\ OfKind("block") = {Pos(k) : k \in 1 .. Len(log)}
         /\ OfKind("hash") = IF Hashed THEN {Len(file) - 1} ELSE {}
         /\ OfKind("magic") = IF magic_written = 1 THEN {0} ELSE {}
<1>1. RingInv /\ PassInv /\ JobsInv /\ FileInv /\ Places
  BY DEF ArchiveInv, FileInv
<1>2. /\ Len(file) \in Nat /\ Len(file) >= 1 /\ Offsets = 0 .. Len(file) - 1 /\ 0 \in Offsets
      /\ Hashed => Len(file) - 1 \in Offsets
  BY <1>1, FileFacts
<1>3. \A c \in 1 .. Opened : Start(c) - 1 \in Offsets /\ At(Start(c) - 1).kind = "chunk"
  BY <1>1, StartFacts DEF Places, ChunkStart
<1>4. \A c \in 1 .. Opened : \A j \in Streams :
        Start(c) + j \in Offsets /\ At(Start(c) + j).kind = "head"
  BY <1>1, StartFacts DEF Places, HeadAt, HeadRec
<1>5. \A k \in 1 .. Len(log) : Pos(k) \in Offsets /\ At(Pos(k)).kind = "block"
  BY <1>1, PosFacts DEF Places, BlockAt, BlockRec
<1>6. /\ Hashed => At(Len(file) - 1).kind = "hash"
      /\ At(0).kind = IF magic_written = 1 THEN "magic" ELSE "blank"
  BY <1>1 DEF Places
<1>7. \A p \in Offsets :
        \/ p = 0 \/ (Hashed /\ p = Len(file) - 1)
        \/ \E c \in 1 .. Opened : p = Start(c) - 1 \/ \E j \in Streams : p = Start(c) + j
        \/ \E k \in 1 .. Len(log) : p = Pos(k)
  <2>1. ASSUME NEW p \in Offsets, NEW c \in 1 .. Opened,
               p \in {Start(c) - 1, Start(c), Start(c) + 1}
        PROVE  p = Start(c) - 1 \/ \E j \in Streams : p = Start(c) + j
    <3>1. Start(c) \in Nat /\ Start(c) + 0 = Start(c)
      BY <1>1, FileFacts
    <3>. QED  BY <2>1, <3>1 DEF Streams
  <2>. QED  BY <1>1, <2>1 DEF Places
<1>8. OfKind("chunk") = {Start(c) - 1 : c \in 1 .. Opened}
  <2>1. \A p \in Offsets : At(p).kind = "chunk" => \E c \in 1 .. Opened : p = Start(c) - 1
    BY <1>4, <1>5, <1>6, <1>7
  <2>. QED  BY <1>3, <2>1 DEF OfKind
<1>9. OfKind("head") = {Start(c) + j : c \in 1 .. Opened, j \in Streams}
  <2>1. \A p \in Offsets : At(p).kind = "head" =>
          \E c \in 1 .. Opened, j \in Streams : p = Start(c) + j
    BY <1>3, <1>5, <1>6, <1>7
  <2>2. OfKind("head") \subseteq {Start(c) + j : c \in 1 .. Opened, j \in Streams}
    BY <2>1 DEF OfKind
  <2>3. \A c \in 1 .. Opened, j \in Streams : Start(c) + j \in OfKind("head")
    BY <1>4 DEF OfKind
  <2>4. {Start(c) + j : c \in 1 .. Opened, j \in Streams} \subseteq OfKind("head")
    BY <2>3
  <2>. QED  BY <2>2, <2>4
<1>10. OfKind("block") = {Pos(k) : k \in 1 .. Len(log)}
  <2>1. \A p \in Offsets : At(p).kind = "block" => \E k \in 1 .. Len(log) : p = Pos(k)
    BY <1>3, <1>4, <1>6, <1>7
  <2>. QED  BY <1>5, <2>1 DEF OfKind
<1>11. OfKind("hash") = IF Hashed THEN {Len(file) - 1} ELSE {}
  <2>1. \A p \in Offsets : At(p).kind = "hash" => Hashed /\ p = Len(file) - 1
    BY <1>3, <1>4, <1>5, <1>6, <1>7
  <2>. QED  BY <1>2, <1>6, <2>1 DEF OfKind
<1>12. OfKind("magic") = IF magic_written = 1 THEN {0} ELSE {}
  <2>1. \A p \in Offsets : At(p).kind = "magic" => magic_written = 1 /\ p = 0
    BY <1>3, <1>4, <1>5, <1>6, <1>7
  <2>. QED  BY <1>2, <1>6, <2>1 DEF OfKind
<1>. QED  BY <1>8, <1>9, <1>10, <1>11, <1>12

(* The headers are those the invariant speaks of, each with the chunk and   *)
(* the stream it says it belongs to.                                        *)
LEMMA HeadersAre ==
  ASSUME ArchiveInv, NEW p \in Headers
  PROVE  /\ p \in Offsets /\ At(p).chunk \in 1 .. Opened /\ At(p).stream \in Streams
         /\ IsHead(p, At(p).chunk, At(p).stream)
         /\ p = Start(At(p).chunk) + At(p).stream \/ \E k \in 1 .. Len(log) : p = Pos(k)
         /\ At(p).next \in Nat /\ At(p).enc \in Nat
<1>1. RingInv /\ PassInv /\ JobsInv /\ FileInv /\ Places
  BY DEF ArchiveInv, FileInv
<1>2. p \in Offsets
  BY DEF Headers, OfKind
<1>3. ASSUME NEW c \in 1 .. Opened, NEW j \in Streams, p = Start(c) + j
      PROVE  /\ At(p).chunk = c /\ At(p).stream = j /\ IsHead(p, c, j)
             /\ At(p).next \in Nat /\ At(p).enc \in Nat
  BY <1>1, <1>3 DEF Places, HeadAt, IsHead, HeadRec
<1>4. ASSUME NEW k \in 1 .. Len(log), p = Pos(k)
      PROVE  /\ At(p).chunk = job[k].chunk /\ At(p).stream = job[k].stream
             /\ At(p).chunk \in 1 .. Opened /\ At(p).stream \in Streams
             /\ IsHead(p, At(p).chunk, At(p).stream)
             /\ At(p).next \in Nat /\ At(p).enc \in Nat
  <2>1. BlockAt(p, k)
    BY <1>1, <1>4 DEF Places
  <2>2. /\ At(p).chunk = job[k].chunk /\ At(p).stream = job[k].stream
        /\ At(p).next \in Nat /\ At(p).enc \in Nat
    BY <2>1 DEF BlockAt, BlockRec
  <2>3. k \in 1 .. Known /\ job[k].chunk \in 1 .. Opened /\ job[k].stream \in Streams
    BY <1>1, OpenedFacts
  <2>. QED  BY <1>4, <2>2, <2>3 DEF IsHead
<1>5. \/ \E c \in 1 .. Opened : \E j \in Streams : p = Start(c) + j
      \/ \E k \in 1 .. Len(log) : p = Pos(k)
  BY KindFacts DEF Headers
<1>. QED  BY <1>2, <1>3, <1>4, <1>5

(* Every header is encrypted once, or will be: rewrite_encrypted is called  *)
(* by the thread that patches a header, and by close_stream_out for the last*)
(* one of each stream, and never twice for the same.                        *)
THEOREM ArchiveEncryptedOnce == Spec => []HeadersEncryptedOnce
<1>1. ArchiveInv => HeadersEncryptedOnce
  <2>. SUFFICES ASSUME ArchiveInv PROVE HeadersEncryptedOnce
    OBVIOUS
  <2>1. ASSUME NEW p \in Headers
        PROVE  At(p).enc = IF /\ mode.encrypt
                              /\ \/ p # Last(At(p).chunk, At(p).stream)
                                 \/ Closed(At(p).chunk)
                             THEN 1 ELSE 0
    BY HeadersAre DEF ArchiveInv, FileInv, EncSound, EncAt
  <2>2. rpc \in {"next", "top", "magic", "finished"} => \A c : Closed(c)
    BY DEF Closed
  <2>. QED  BY <2>1, <2>2 DEF HeadersEncryptedOnce
<1>. QED  BY <1>1, ArchiveInvariant, PTL

(* The filter is on the literals once and on nothing else: compthread puts  *)
(* it on before each attempt to compress them and takes it off before the   *)
(* next one, unless the filter is RISC-V (README, Deviations).              *)
THEOREM ArchiveFilteredOnce ==
  ASSUME \A m \in Modes : m.filter # "riscv"
  PROVE  Spec => []FilterOnce
<1>1. ArchiveInv => FilterOnce
  <2>. SUFFICES ASSUME ArchiveInv, NEW p \in OfKind("block")
                PROVE  At(p).filtered = Once(At(p).stream)
    BY DEF FilterOnce, Once
  <2>1. mode.filter # "riscv"
    BY DEF ArchiveInv, PassInv, PassTypes
  <2>2. PICK k \in 1 .. Len(log) : p = Pos(k)
    BY KindFacts
  <2>3. BlockAt(p, k)
    BY <2>2 DEF ArchiveInv, FileInv, Places
  <2>. QED  BY <2>1, <2>3 DEF BlockAt
<1>. QED  BY <1>1, ArchiveInvariant, PTL

(* The header of a chunk is the record before its streams.                  *)
LEMMA ChunkIs ==
  ASSUME ArchiveInv, NEW c \in 1 .. Opened
  PROVE  /\ ChunkAt(c) = Start(c) - 1 /\ StreamsAt(c) = Start(c)
         /\ Start(c) - 1 \in Offsets /\ ChunkStart(Start(c) - 1, c)
<1>1. RingInv /\ PassInv /\ JobsInv /\ FileInv /\ Places
  BY DEF ArchiveInv, FileInv
<1>2. Start(c) - 1 \in Offsets /\ ChunkStart(Start(c) - 1, c) /\ Start(c) \in Nat
  BY <1>1, StartFacts DEF Places
<1>3. Start(c) - 1 \in OfKind("chunk") /\ At(Start(c) - 1).chunk = c
  BY <1>2 DEF OfKind, ChunkStart
<1>4. ASSUME NEW p \in OfKind("chunk"), At(p).chunk = c PROVE p = Start(c) - 1
  <2>1. PICK d \in 1 .. Opened : p = Start(d) - 1
    BY KindFacts
  <2>2. At(p).chunk = d
    BY <1>1, <2>1 DEF Places, ChunkStart
  <2>. QED  BY <1>4, <2>1, <2>2
<1>5. ChunkAt(c) = Start(c) - 1
  BY <1>3, <1>4 DEF ChunkAt
<1>. QED  BY <1>2, <1>5 DEF StreamsAt

(* At the end all that was handed over is in the file.                      *)
LEMMA AllWritten ==
  ASSUME ArchiveInv, rpc = "finished"
  PROVE  /\ Len(log) = jobs /\ Opened = chunk /\ Phase = "none" /\ Hashed
         /\ mpc = "done" /\ ~MorePasses /\ eof = 1 /\ st_size = input /\ chunk > 0
<1>1. RingInv /\ PassInv /\ JobsInv
  BY DEF ArchiveInv
<1>2. mpc = "done" /\ ~MorePasses
  BY <1>1 DEF PassInv, MainPlaces
<1>3. eof = 1 /\ st_size = input /\ chunk > 0
  BY <1>1, <1>2, WholeSize
<1>4. (\A i \in Slots : tpc[i] = "idle") /\ Len(log) = jobs
  BY <1>1, <1>2, NoneLeft
<1>5. Phase = "none"
  BY <1>1, <1>4 DEF Phase, RingInv, TypeOK
<1>6. Opened = Filled
  BY <1>4, <1>5 DEF Opened, Filled
<1>7. Filled = chunk
  BY <1>1 DEF JobsInv
<1>. QED  BY <1>2, <1>3, <1>4, <1>5, <1>6, <1>7 DEF Hashed

(* The chunks that start before a record are its own and those before it.   *)
LEMMA ChunksBefore ==
  ASSUME ArchiveInv, NEW c \in 1 .. Opened, NEW p,
         p = Start(c) - 1 \/ \E j \in Streams : IsHead(p, c, j) /\ p \in Offsets
  PROVE  /\ \A d \in 1 .. c : Start(d) - 1 <= p
         /\ \A d \in c + 1 .. Opened : p < Start(d) - 1
<1>1. RingInv /\ PassInv /\ JobsInv /\ FileInv /\ InOrder
  BY DEF ArchiveInv, FileInv
<1>2. /\ Opened \in Nat /\ \A d \in 1 .. Opened : Start(d) \in Nat
      /\ \A d \in 1 .. Opened : d < c => Start(d) + 2 < Start(c)
      /\ \A d \in 1 .. Opened : c < d => Start(c) + 2 < Start(d)
  BY <1>1, OpenedFacts, FileFacts DEF InOrder
<1>3. p \in Nat /\ Start(c) - 1 <= p /\ \A d \in 1 .. Opened : c < d => p + 1 < Start(d)
  <2>1. CASE p \in {Start(c) - 1, Start(c), Start(c) + 1}
    <3>1. Start(c) >= 2
      BY <1>1 DEF InOrder
    <3>. QED  BY <1>2, <2>1, <3>1
  <2>2. ASSUME NEW k \in 1 .. Known, job[k].chunk = c, p = Pos(k), p \in Offsets
        PROVE  p \in Nat /\ Start(c) - 1 <= p /\ \A d \in 1 .. Opened : c < d => p + 1 < Start(d)
    <3>1. k \in 1 .. Len(log)
      <4>1. CASE Phase = "block" /\ ~Hashed /\ k = Len(log) + 1
        <5>1. p = Len(file) /\ Len(file) \in Nat
          BY <1>1, <2>2, <4>1, PosFacts, FileFacts
        <5>. QED  BY <2>2, <5>1 DEF Offsets
      <4>2. Phase = "block" => ~Hashed
        BY <1>1, HashedQuiet
      <4>3. Len(log) \in Nat
        BY <1>1, OpenedFacts
      <4>. QED  BY <2>2, <4>1, <4>2, <4>3 DEF Known
    <3>2. Pos(k) \in Nat
      BY <1>1, <2>2, PosFacts
    <3>3. Start(c) + 1 < Pos(k)
      BY <1>1, <2>2, <3>1 DEF InOrder
    <3>4. \A d \in 1 .. Opened : c < d => Pos(k) + 1 < Start(d)
      BY <1>1, <2>2, <3>1 DEF InOrder
    <3>. QED  BY <1>2, <2>2, <3>2, <3>3, <3>4
  <2>3. \A j \in Streams : Start(c) + j \in {Start(c), Start(c) + 1}
    BY <1>2 DEF Streams
  <2>. QED  BY <2>1, <2>2, <2>3 DEF IsHead
<1>. QED  BY <1>2, <1>3

(* As many chunks start before the end of chunk c as there are up to it.    *)
LEMMA StartCount ==
  ASSUME ArchiveInv, NEW c \in 0 .. Opened
  PROVE  Cardinality({Start(d) - 1 : d \in 1 .. c}) = c
<1>1. RingInv /\ PassInv /\ JobsInv /\ FileInv /\ InOrder
  BY DEF ArchiveInv, FileInv
<1>2. Opened \in Nat /\ \A d \in 1 .. Opened : Start(d) \in Nat
  BY <1>1, OpenedFacts, FileFacts
<1>3. \A d, e \in 1 .. Opened : d < e => Start(d) < Start(e)
  BY <1>1, <1>2 DEF InOrder
<1>. DEFINE S == {Start(d) - 1 : d \in 1 .. c}
            f == [d \in 1 .. c |-> Start(d) - 1]
<1>4. \A d, e \in 1 .. c : f[d] = f[e] => d = e
  BY <1>2, <1>3
<1>5. f \in Bijection(1 .. c, S)
  BY <1>4 DEF Bijection, Injection, Surjection, IsInjective
<1>6. ExistsBijection(1 .. c, S)
  BY <1>5 DEF ExistsBijection
<1>7. IsFiniteSet(1 .. c) /\ Cardinality(1 .. c) = c
  BY FS_Interval
<1>. QED  BY <1>6, <1>7, FS_Bijection

(* There are as many blocks as were written.                                *)
LEMMA PosCount ==
  ASSUME ArchiveInv
  PROVE  Cardinality(OfKind("block")) = Len(log)
<1>1. RingInv /\ PassInv /\ JobsInv /\ FileInv
  BY DEF ArchiveInv, FileInv
<1>2. Len(log) \in Nat /\ 1 .. Len(log) \subseteq 1 .. Known
  BY <1>1, OpenedFacts
<1>3. \A k \in 1 .. Len(log) : Pos(k) \in Nat
  BY <1>1, <1>2, PosFacts
<1>4. \A k, l \in 1 .. Len(log) : k < l => Pos(k) < Pos(l)
  BY <1>1, <1>2, PosFacts
<1>. DEFINE f == [k \in 1 .. Len(log) |-> Pos(k)]
<1>5. OfKind("block") = {Pos(k) : k \in 1 .. Len(log)}
  BY KindFacts
<1>6. \A k, l \in 1 .. Len(log) : f[k] = f[l] => k = l
  BY <1>2, <1>3, <1>4
<1>7. f \in Bijection(1 .. Len(log), OfKind("block"))
  BY <1>5, <1>6 DEF Bijection, Injection, Surjection, IsInjective
<1>8. ExistsBijection(1 .. Len(log), OfKind("block"))
  BY <1>7 DEF ExistsBijection
<1>9. IsFiniteSet(1 .. Len(log)) /\ Cardinality(1 .. Len(log)) = Len(log)
  <2>1. PICK n \in Nat : n = Len(log)
    BY <1>2
  <2>2. IsFiniteSet(1 .. n) /\ Cardinality(1 .. n) = n
    BY FS_Interval
  <2>. QED  BY <2>1, <2>2
<1>. QED  BY <1>8, <1>9, FS_Bijection

(* In the archive the records of a chunk come after its header and before   *)
(* the next one's.                                                          *)
LEMMA LayoutHolds == ArchiveInv => ArchiveLayout
<1>. SUFFICES ASSUME ArchiveInv PROVE ArchiveLayout
  OBVIOUS
<1>1. RingInv /\ PassInv /\ JobsInv /\ FileInv /\ Places
  BY DEF ArchiveInv, FileInv
<1>2. /\ Opened \in Nat /\ \A d \in 1 .. Opened : Start(d) \in Nat
      /\ OfKind("chunk") = {Start(d) - 1 : d \in 1 .. Opened}
  BY <1>1, OpenedFacts, FileFacts, KindFacts
<1>3. ASSUME NEW p \in Headers
      PROVE  At(p).chunk = Cardinality({q \in OfKind("chunk") : q < p})
  <2>1. PICK c \in 1 .. Opened : c = At(p).chunk
    BY HeadersAre
  <2>2. \E j \in Streams : IsHead(p, c, j) /\ p \in Offsets
    BY <2>1, HeadersAre
  <2>3. /\ \A d \in 1 .. c : Start(d) - 1 <= p
        /\ \A d \in c + 1 .. Opened : p < Start(d) - 1
    BY <2>2, ChunksBefore
  <2>4. p \in Nat /\ p \notin OfKind("chunk")
    BY <1>1, FileFacts DEF Headers, OfKind
  <2>5. {q \in OfKind("chunk") : q < p} = {Start(d) - 1 : d \in 1 .. c}
    <3>1. \A d \in 1 .. c : Start(d) - 1 \in OfKind("chunk")
      BY <1>2
    <3>2. \A d \in 1 .. c : Start(d) - 1 < p
      BY <1>2, <2>3, <2>4, <3>1
    <3>3. \A d \in 1 .. Opened : Start(d) - 1 < p => d \in 1 .. c
      BY <1>2, <2>3, <2>4
    <3>. QED  BY <1>2, <3>1, <3>2, <3>3
  <2>6. c \in 0 .. Opened
    BY <1>2
  <2>. QED  BY <2>1, <2>5, <2>6, StartCount
<1>4. ASSUME NEW p \in OfKind("chunk")
      PROVE  At(p).chunk = Cardinality({q \in OfKind("chunk") : q <= p})
  <2>1. PICK c \in 1 .. Opened : p = Start(c) - 1
    BY <1>2
  <2>2. At(p).chunk = c
    BY <1>1, <2>1 DEF Places, ChunkStart
  <2>3. /\ \A d \in 1 .. c : Start(d) - 1 <= p
        /\ \A d \in c + 1 .. Opened : p < Start(d) - 1
    BY <2>1, ChunksBefore
  <2>4. {q \in OfKind("chunk") : q <= p} = {Start(d) - 1 : d \in 1 .. c}
    <3>1. p \in Nat
      BY <1>1, FileFacts DEF OfKind
    <3>2. \A d \in 1 .. c : Start(d) - 1 \in OfKind("chunk")
      BY <1>2
    <3>3. \A d \in 1 .. Opened : Start(d) - 1 <= p => d \in 1 .. c
      BY <1>2, <2>3, <3>1
    <3>. QED  BY <1>2, <2>3, <3>2, <3>3
  <2>5. c \in 0 .. Opened
    BY <1>2
  <2>. QED  BY <2>2, <2>4, <2>5, StartCount
<1>5. ASSUME rpc = "finished"
      PROVE  /\ OfKind("magic") = {0}
             /\ OfKind("hash") = {Len(file) - 1}
             /\ Cardinality(OfKind("chunk")) = chunk
             /\ Cardinality(OfKind("block")) = jobs
  <2>1. Len(log) = jobs /\ Opened = chunk /\ Hashed
    BY <1>5, AllWritten
  <2>2. magic_written = 1
    <3>1. OffsetSound /\ chunk > 0
      BY <1>1, <1>5, AllWritten DEF FileInv
    <3>2. Opened > 0
      BY <2>1, <3>1
    <3>. QED  BY <1>5, <3>1, <3>2 DEF OffsetSound
  <2>3. Cardinality(OfKind("chunk")) = Opened
    <3>1. Opened \in 0 .. Opened
      BY <1>2
    <3>. QED  BY <1>2, <3>1, StartCount
  <2>. QED  BY <2>1, <2>2, <2>3, PosCount, KindFacts
<1>. QED  BY <1>3, <1>4, <1>5 DEF ArchiveLayout

(* The headers that are ahead of one are the blocks of its stream behind it.*)
LEMMA BlocksAre ==
  ASSUME ArchiveInv, NEW c \in 1 .. Opened, NEW j \in Streams,
         NEW p \in Headers, At(p).chunk = c, At(p).stream = j, Phase # "block"
  PROVE  \A q : q \in BlocksAfter(p) <=> q \in Offsets /\ IsHead(q, c, j) /\ q > p
<1>1. RingInv /\ PassInv /\ JobsInv /\ FileInv /\ Places /\ InOrder /\ Known = Len(log)
  BY DEF ArchiveInv, FileInv, Known
<1>2. p \in Offsets /\ IsHead(p, c, j) /\ p \in Nat
  BY <1>1, HeadersAre, HeadFacts
<1>3. ASSUME NEW q \in BlocksAfter(p)
      PROVE  q \in Offsets /\ IsHead(q, c, j) /\ q > p
  <2>1. q \in OfKind("block") /\ At(q).chunk = c /\ At(q).stream = j /\ q > p
    BY <1>3 DEF BlocksAfter
  <2>2. q \in Headers
    BY <2>1 DEF Headers
  <2>. QED  BY <2>1, <2>2, HeadersAre
<1>4. ASSUME NEW q \in Offsets, IsHead(q, c, j), q > p
      PROVE  q \in BlocksAfter(p)
  <2>1. Start(c) \in Nat /\ Start(c) + j \in Nat /\ Start(c) + j <= Start(c) + 1
    BY <1>1, FileFacts DEF Streams
  <2>2. q # Start(c) + j
    <3>1. CASE p = Start(c) + j
      BY <1>4, <2>1, <3>1
    <3>2. ASSUME NEW k \in 1 .. Len(log), job[k].chunk = c, p = Pos(k) PROVE p > Start(c) + 1
      BY <1>1, <1>2, <2>1, <3>2 DEF InOrder
    <3>3. CASE p > Start(c) + 1
      BY <1>2, <1>4, <2>1, <3>3
    <3>. QED  BY <1>1, <1>2, <3>1, <3>2, <3>3 DEF IsHead
  <2>3. PICK k \in 1 .. Len(log) : job[k].chunk = c /\ job[k].stream = j /\ q = Pos(k)
    BY <1>1, <1>4, <2>2 DEF IsHead
  <2>4. BlockAt(q, k)
    BY <1>1, <2>3 DEF Places
  <2>5. At(q).chunk = c /\ At(q).stream = j
    BY <2>3, <2>4 DEF BlockAt
  <2>6. q \in OfKind("block")
    BY <2>3, KindFacts
  <2>. QED  BY <1>4, <2>5, <2>6 DEF BlocksAfter
<1>. QED  BY <1>3, <1>4

(* Each header of a stream leads to the next one.                           *)
LEMMA ChainsHold == ArchiveInv => ChainsConsistent
<1>. SUFFICES ASSUME ArchiveInv, \A i \in Slots : tpc[i] # "block", NEW p \in Headers
              PROVE  /\ At(p).next = IF BlocksAfter(p) = {} THEN 0
                                     ELSE Least(BlocksAfter(p)) - StreamsAt(At(p).chunk)
                     /\ At(p).kind = "block" =>
                          \A q \in BlocksAfter(p) : At(p).job < At(q).job
  BY DEF ChainsConsistent
<1>1. RingInv /\ PassInv /\ JobsInv /\ FileInv /\ Places /\ Chains
  BY DEF ArchiveInv, FileInv
<1>2. Phase # "block" /\ Known = Len(log)
  BY <1>1 DEF Phase, RingInv, TypeOK, Known
<1>3. PICK c \in 1 .. Opened, j \in Streams : At(p).chunk = c /\ At(p).stream = j
  BY HeadersAre
<1>4. IsHead(p, c, j) /\ p \in Offsets /\ p \in Nat /\ At(p).next \in Nat
  BY <1>1, <1>3, HeadersAre, HeadFacts
<1>5. \A q : q \in BlocksAfter(p) <=> q \in Offsets /\ IsHead(q, c, j) /\ q > p
  BY <1>2, <1>3, BlocksAre
<1>6. Linked(c, j) /\ Start(c) \in Nat /\ Last(c, j) \in Nat /\ Len(file) \in Nat
      /\ Offsets = 0 .. Len(file) - 1
  BY <1>1, FileFacts DEF Chains
<1>7. \A q : IsHead(q, c, j) => q \in Offsets
  BY <1>1, <1>2, VirtualLast
<1>8. CASE p = Last(c, j)
  <2>1. \A q \in Offsets : IsHead(q, c, j) => q <= p
    BY <1>1, <1>8, LastIsLast
  <2>2. BlocksAfter(p) = {}
    <3>1. ASSUME NEW q \in BlocksAfter(p) PROVE FALSE
      <4>1. q \in Offsets /\ q > p /\ q <= p
        BY <1>5, <2>1
      <4>2. q \in Nat
        BY <1>6, <4>1
      <4>. QED  BY <1>4, <4>1, <4>2
    <3>. QED  BY <3>1
  <2>3. At(p).next = 0
    BY <1>4, <1>6, <1>8 DEF Linked
  <2>4. At(p).next = IF BlocksAfter(p) = {} THEN 0
                     ELSE Least(BlocksAfter(p)) - StreamsAt(At(p).chunk)
    BY <2>2, <2>3
  <2>. QED  BY <2>2, <2>4
<1>9. CASE p # Last(c, j)
  <2>1. PICK q : /\ q = Start(c) + At(p).next
                 /\ p < q /\ IsHead(q, c, j)
                 /\ \A r \in Offsets : IsHead(r, c, j) => r <= p \/ r >= q
    BY <1>4, <1>6, <1>9 DEF Linked
  <2>2. q \in BlocksAfter(p) /\ q \in Nat
    BY <1>4, <1>5, <1>6, <1>7, <2>1
  <2>3. \A r \in BlocksAfter(p) : r \in Nat /\ q <= r
    BY <1>4, <1>5, <1>6, <2>1, <2>2
  <2>4. Least(BlocksAfter(p)) = q
    <3>1. \A r \in BlocksAfter(p) : r <= q => r = q
      BY <2>2, <2>3
    <3>. QED  BY <2>2, <2>3, <3>1 DEF Least
  <2>5. StreamsAt(At(p).chunk) = Start(c)
    BY <1>3, ChunkIs
  <2>6. At(p).next = q - Start(c)
    <3>1. PICK n \in Nat, s \in Nat : n = At(p).next /\ s = Start(c)
      BY <1>4, <1>6
    <3>2. q = s + n
      BY <2>1, <3>1
    <3>. QED  BY <3>1, <3>2
  <2>7. ASSUME At(p).kind = "block", NEW r \in BlocksAfter(p) PROVE At(p).job < At(r).job
    <3>1. p \in OfKind("block") /\ r \in OfKind("block") /\ p < r
      BY <1>4, <2>7 DEF OfKind, BlocksAfter
    <3>2. PICK k \in 1 .. Len(log), l \in 1 .. Len(log) : p = Pos(k) /\ r = Pos(l)
      BY <3>1, KindFacts
    <3>3. At(p).job = k /\ At(r).job = l
      BY <1>1, <3>2 DEF Places, BlockAt
    <3>4. Pos(k) \in Nat /\ Pos(l) \in Nat /\ (l < k => Pos(l) < Pos(k)) /\ Len(log) \in Nat
      BY <1>1, <1>2, PosFacts, OpenedFacts
    <3>. QED  BY <3>1, <3>2, <3>3, <3>4
  <2>. QED  BY <2>2, <2>4, <2>5, <2>6, <2>7
<1>. QED  BY <1>8, <1>9

(* In an encrypted archive the flag is on the last chunk.                   *)
LEMMA EofFlagsHold == ArchiveInv => EncryptedEofFlags
<1>. SUFFICES ASSUME ArchiveInv, mode.encrypt, rpc = "finished", NEW p \in OfKind("chunk")
              PROVE  At(p).eof = 1 <=> At(p).chunk = chunk
  BY DEF EncryptedEofFlags, EofFlagMarksLastChunk
<1>1. PICK c \in 1 .. Opened : p = Start(c) - 1
  BY KindFacts
<1>2. At(p).chunk = c
  BY <1>1, ChunkIs DEF ChunkStart
<1>3. eof = 1
  BY AllWritten
<1>. QED  BY <1>1, <1>2, <1>3 DEF ArchiveInv, FileInv, FlagsSound

(* The offsets stay within the file and the counters within their bounds.   *)
LEMMA TypesHold == ArchiveInv => StreamTypeOK
<1>. SUFFICES ASSUME ArchiveInv PROVE StreamTypeOK
  OBVIOUS
<1>1. RingInv /\ PassInv /\ JobsInv /\ AppliedInv /\ FileInv /\ OffsetSound
  BY DEF ArchiveInv, FileInv
<1>2. TypeOK /\ mode \in Modes /\ eof \in {0, 1} /\ stdin_eof \in {0, 1}
      /\ magic_written \in {0, 1} /\ applied \in [Slots -> 0 .. 2] /\ fpos \in 0 .. Len(file)
      /\ rpc \in {"top", "stdin", "open", "search", "close", "drain", "next", "magic",
                  "finished"}
  BY <1>1 DEF RingInv, PassInv, PassTypes, InPass, AppliedInv, AppliedTypes, OffsetSound
<1>3. chunk \in 0 .. MaxChunks /\ Len(job) = jobs
  BY <1>1, ChunkFits, JobFacts
<1>4. st_size \in 0 .. MaxInput
  <2>1. /\ st_size \in Nat /\ input \in 0 .. MaxInput /\ inleft \in Nat /\ chunk_size \in Nat
        /\ MaxInput \in Nat
    BY <1>1, InputAssumption DEF PassInv, PassTypes
  <2>2. st_size <= input
    <3>1. CASE mode.stdin
      BY <1>1, <2>1, <3>1 DEF PassInv, StdinPass
    <3>2. CASE ~mode.stdin
      BY <1>1, <2>1, <3>2 DEF PassInv, FilePass
    <3>. QED  BY <3>1, <3>2
  <2>. QED  BY <2>1, <2>2
<1>5. flushed \in 0 .. Len(file)
  <2>1. Len(file) \in Nat
    BY <1>1, FileFacts
  <2>2. ASSUME Opened # 0 PROVE Start(Opened) - 1 \in 0 .. Len(file)
    <3>1. Opened \in 1 .. Opened
      BY <1>1, <2>2, OpenedFacts
    <3>2. Start(Opened) - 1 \in Offsets
      BY <3>1, ChunkIs
    <3>. QED  BY <2>1, <3>2 DEF Offsets
  <2>3. flushed \in {0, Len(file)} \/ (Opened # 0 /\ flushed = Start(Opened) - 1)
    BY <1>1 DEF OffsetSound
  <2>. QED  BY <2>1, <2>2, <2>3
<1>. QED  BY <1>2, <1>3, <1>4, <1>5 DEF StreamTypeOK

(* The archive is sound at every moment, for any number of threads and      *)
(* buffers and any input: each record is where its reader looks for it, the *)
(* headers of a stream lead from block to block in the order in which       *)
(* flush_buffer handed them over, and the flag of an encrypted archive is   *)
(* on its last chunk (compthread, open_stream_out and close_stream_out).    *)
THEOREM ArchiveIsSound == Spec => []ArchiveSound
<1>1. ArchiveInv => ArchiveSound
  BY TypesHold, LayoutHolds, ChainsHold, EofFlagsHold DEF ArchiveSound
<1>. QED  BY <1>1, ArchiveInvariant, PTL
-----------------------------------------------------------------------------
(* What has been sent to STDOUT. *)

(* The records of f before offset n are in g as well.                       *)
Keeps(f, g, n) == \A p \in 0 .. n - 1 : g[p + 1] = f[p + 1]

(* Writing at the end of the file keeps all that is there.                  *)
LEMMA KeepsAppend ==
  ASSUME NEW f \in Seq(Records), NEW r \in Records, NEW n \in Nat, n <= Len(f),
         NEW p, p = Len(f), NEW g, g = PutAt(f, p, r)
  PROVE  g \in Seq(Records) /\ Len(g) = Len(f) + 1 /\ Keeps(f, g, n)
<1>1. g = Append(f, r) /\ Len(f) \in Nat
  BY DEF PutAt
<1>2. g \in Seq(Records) /\ Len(g) = Len(f) + 1 /\ \A q \in 1 .. Len(f) : g[q] = f[q]
  BY <1>1
<1>3. \A q \in 0 .. n - 1 : q + 1 \in 1 .. Len(f)
  BY <1>1
<1>. QED  BY <1>2, <1>3 DEF Keeps

(* Until a chunk is opened nothing is sent, and then what is before it.     *)
LEMMA FlushedFacts ==
  ASSUME ArchiveInv
  PROVE  /\ flushed \in Nat /\ flushed <= Len(file)
         /\ ~mode.stdout => flushed = 0
         /\ mode.encrypt => ~mode.stdout
         /\ Opened = 0 /\ ~Hashed => flushed = 0
         /\ mode.stdout /\ Opened > 0 /\ ~Hashed => flushed = Start(Opened) - 1
<1>1. RingInv /\ PassInv /\ JobsInv /\ FileInv /\ OffsetSound /\ Len(file) \in Nat
  BY FileFacts DEF ArchiveInv, FileInv
<1>2. flushed \in 0 .. Len(file)
  BY TypesHold DEF StreamTypeOK
<1>3. mode.encrypt => ~mode.stdout
  BY <1>1, ModesAssumption DEF PassInv, PassTypes
<1>4. Opened \in Nat
  BY <1>1, OpenedFacts
<1>. QED  BY <1>1, <1>2, <1>3, <1>4 DEF OffsetSound

(* The main thread writes to the end of what goes to STDOUT.                *)
LEMMA MainKeepsFlushed ==
  ASSUME ArchiveInv, mode.stdout, RzipFd
  PROVE  Keeps(file, file', flushed)
<1>1. RingInv /\ PassInv /\ JobsInv /\ FileInv /\ OffsetSound /\ file \in Seq(Records)
  BY FileFacts DEF ArchiveInv, FileInv
<1>2. CASE WriteHash
  <2>1. mpc = "done" /\ rpc = "top" /\ file' = PutAt(file, fpos, [kind |-> "hash"])
    BY <1>2 DEF WriteHash
  <2>2. Phase = "none"
    BY <1>1, <2>1, NoneLeft DEF Phase, RingInv, TypeOK
  <2>3. fpos = Len(file)
    BY <1>1, <2>1, <2>2 DEF OffsetSound
  <2>4. [kind |-> "hash"] \in Records
    BY DEF Records
  <2>. QED  BY <1>1, <2>1, <2>3, <2>4, FlushedFacts, KeepsAppend
<1>3. ~WriteFinalMagic
  BY <1>1 DEF WriteFinalMagic, OffsetSound
<1>4. ~EncryptLastHeads
  BY <1>1, FlushedFacts DEF EncryptLastHeads, Resume, PassInv, MainPlaces
<1>5. CASE file' = file
  BY <1>5 DEF Keeps
<1>. QED  BY <1>2, <1>3, <1>4, <1>5
     DEF RzipFd, MapFile, MmapStdin, AddStdinSize, OpenStreamOut, FlushBuffer, CloseStreamOut,
         DrainThreads, EndPass, CloseThreads, fileVars

(* A thread changes nothing before the header of the chunk it works on.     *)
LEMMA ThreadKeepsFlushed ==
  ASSUME ArchiveInv, mode.stdout, NEW i \in Slots, CompThread(i)
  PROVE  Keeps(file, file', flushed)
<1>1. /\ RingInv /\ PassInv /\ JobsInv /\ FileInv /\ OffsetSound /\ SinfoSound
      /\ file \in Seq(Records) /\ Len(file) \in Nat /\ Offsets = 0 .. Len(file) - 1
      /\ flushed \in Nat /\ flushed <= Len(file) /\ ~mode.encrypt
  BY FileFacts, FlushedFacts DEF ArchiveInv, FileInv
<1>2. CASE Compress(i) \/ GetTurn(i) \/ RingStep(i)
  BY <1>2 DEF Compress, GetTurn, RingStep, fileVars, Keeps
<1>3. CASE PutMagic(i)
  <2>1. tpc[i] = "magic" /\ (file' = file \/ magic_written = 0)
    BY <1>3 DEF PutMagic, WriteMagic
  <2>2. CASE magic_written = 0
    <3>1. ~Hashed
      BY <1>1, <2>1, HashedQuiet
    <3>2. Opened = 0
      BY <1>1, <2>2, OpenedFacts DEF OffsetSound
    <3>3. flushed = 0
      BY <3>1, <3>2, FlushedFacts
    <3>. QED  BY <3>3 DEF Keeps
  <2>. QED  BY <2>1, <2>2 DEF Keeps
<1>4. CASE PutHeader(i)
  <2>1. CASE FirstOfChunk(i)
    <3>1. file' = PutAt(PutAt(PutAt(file, Len(file), ChunkHeader(Of(i))),
                              Len(file) + 1, StreamHead(Of(i), 0)),
                        Len(file) + 2, StreamHead(Of(i), 1))
      BY <1>4, <2>1 DEF PutHeader
    <3>2. tpc[i] = "header"
      BY <1>4 DEF PutHeader, WriteHeader
    <3>3. Of(i) \in Nat \ {0} /\ Of(i) \in Chunks
      <4>1. Of(i) \in 1 .. chunk /\ Of(i) \in Nat \ {0}
        BY <1>1, <3>2, WriterOldest DEF PassInv, PassTypes
      <4>. QED  BY <1>1, <4>1, ChunkFits
    <3>4. ChunkHeader(Of(i)) \in Records
      <4>1. eof \in {0, 1} /\ sinfo[Of(i)].size \in Nat
        BY <1>1, <3>3 DEF PassInv, PassTypes, SinfoTypes, SinfoRec
      <4>. QED  BY <3>3, <4>1 DEF ChunkHeader, Records
    <3>5. StreamHead(Of(i), 0) \in Records /\ StreamHead(Of(i), 1) \in Records
      BY <3>3 DEF StreamHead, Records, HeadRec, Streams
    <3>6. PICK f : f = PutAt(file, Len(file), ChunkHeader(Of(i)))
      OBVIOUS
    <3>7. f \in Seq(Records) /\ Len(f) = Len(file) + 1 /\ Keeps(file, f, flushed)
      BY <1>1, <3>4, <3>6, KeepsAppend
    <3>8. PICK g : g = PutAt(f, Len(file) + 1, StreamHead(Of(i), 0))
      OBVIOUS
    <3>9. g \in Seq(Records) /\ Len(g) = Len(f) + 1 /\ Keeps(f, g, flushed)
      <4>1. flushed <= Len(f)
        BY <1>1, <3>7
      <4>. QED  BY <1>1, <3>5, <3>7, <3>8, <4>1, KeepsAppend
    <3>10. Keeps(g, file', flushed)
      <4>1. flushed <= Len(g) /\ Len(file) + 2 = Len(g)
        BY <1>1, <3>7, <3>9
      <4>2. file' = PutAt(g, Len(file) + 2, StreamHead(Of(i), 1))
        BY <3>1, <3>6, <3>8
      <4>. QED  BY <1>1, <3>5, <3>9, <4>1, <4>2, KeepsAppend
    <3>. QED  BY <3>7, <3>9, <3>10 DEF Keeps
  <2>2. CASE ~FirstOfChunk(i)
    BY <1>4, <2>2 DEF PutHeader, Keeps
  <2>. QED  BY <2>1, <2>2
<1>5. CASE Patch(i)
  <2>1. /\ tpc[i] = "patch"
        /\ file' = [file EXCEPT ![Last(Of(i), Stream(i)) + 1].next = sinfo[Of(i)].cur_pos]
    BY <1>1, <1>5 DEF Patch, PatchLastHead, Last, Start
  <2>2. i = output_thread /\ ~Hashed /\ Stream(i) \in Streams /\ Of(i) \in Nat \ {0}
        /\ Of(i) = job[Len(log) + 1].chunk
    BY <1>1, <2>1, WriterOldest, HashedQuiet
  <2>3. Phase = "patch"
    BY <2>1, <2>2 DEF Phase
  <2>4. Of(i) = Opened /\ Opened > 0 /\ Opened \in 1 .. Opened
    BY <1>1, <2>2, <2>3, OpenedFacts
  <2>5. Start(Opened) \in Nat /\ sinfo[Opened].last_head[Stream(i)] \in Nat
    BY <1>1, <2>2, <2>4, FileFacts
  <2>6. PICK p \in Nat : p = Last(Of(i), Stream(i)) /\ p >= Start(Opened)
    BY <2>4, <2>5 DEF Last
  <2>7. flushed = Start(Opened) - 1
    BY <2>2, <2>4, FlushedFacts
  <2>8. \A q \in 0 .. flushed - 1 : q + 1 \in 1 .. Len(file) /\ q + 1 # p + 1
    BY <1>1, <2>5, <2>6, <2>7
  <2>9. \A q \in 1 .. Len(file) : q # p + 1 => file'[q] = file[q]
    BY <1>1, <2>1, <2>6
  <2>. QED  BY <2>8, <2>9 DEF Keeps
<1>6. CASE PutBlock(i)
  <2>1. /\ tpc[i] = "block"
        /\ file' = PutAt(file, Start(Of(i)) + sinfo[Of(i)].cur_pos, Block(i))
    BY <1>6 DEF PutBlock, WriteBlock, Start
  <2>2. i = output_thread /\ ~Hashed /\ Stream(i) \in Streams /\ Of(i) \in Nat \ {0}
        /\ Of(i) = job[Len(log) + 1].chunk /\ slot[i] \in Nat
    BY <1>1, <2>1, WriterOldest, HashedQuiet
  <2>3. Phase = "block"
    BY <2>1, <2>2 DEF Phase
  <2>4. Of(i) = Opened /\ Opened > 0
    BY <1>1, <2>2, <2>3, OpenedFacts
  <2>5. Start(Of(i)) + sinfo[Of(i)].cur_pos = Len(file)
    BY <1>1, <2>2, <2>4 DEF SinfoSound
  <2>6. Block(i) \in Records
    <3>1. applied[i] \in 0 .. 2
      BY DEF ArchiveInv, AppliedInv, AppliedTypes
    <3>2. Block(i) \in BlockRec
      BY <2>2, <3>1 DEF Block, BlockRec
    <3>. QED  BY <3>2 DEF Records
  <2>. QED  BY <1>1, <2>1, <2>5, <2>6, KeepsAppend
<1>. QED  BY <1>2, <1>3, <1>4, <1>5, <1>6 DEF CompThread

(* What flush_tmpoutbuf has sent to STDOUT stays as it was: no thread has to*)
(* seek back to it, which seekto refuses (compthread and flush_tmpoutbuf).  *)
THEOREM ArchiveFlushedStays == Spec => FlushedImmutable
<1>1. ArchiveInv /\ [Next]_vars => [\A p \in 0 .. flushed - 1 : file'[p + 1] = file[p + 1]]_vars
  <2>. SUFFICES ASSUME ArchiveInv, [Next]_vars PROVE Keeps(file, file', flushed)
    BY DEF Keeps
  <2>1. CASE ~mode.stdout
    <3>1. flushed = 0
      BY <2>1, FlushedFacts
    <3>. QED  BY <3>1 DEF Keeps
  <2>2. CASE mode.stdout /\ RzipFd
    BY <2>2, MainKeepsFlushed
  <2>3. CASE mode.stdout /\ \E i \in Slots : CompThread(i)
    BY <2>3, ThreadKeepsFlushed
  <2>4. CASE Die \/ Finished \/ UNCHANGED vars
    BY <2>4 DEF Die, Finished, vars, fileVars, Keeps
  <2>. QED  BY <2>1, <2>2, <2>3, <2>4 DEF Next
<1>. QED  BY <1>1, ArchiveInvariant, PTL DEF FlushedImmutable, Spec
-----------------------------------------------------------------------------
(* What runzip_fd reads back. *)

(* A set of numbers that is not empty has a least one.                      *)
LEMMA LeastOf ==
  ASSUME NEW T \in SUBSET Nat, T # {}
  PROVE  \E n \in T : \A k \in T : n <= k
<1>. DEFINE R == OpToRel(<, Nat)
<1>1. IsWellFoundedOn(R, Nat)
  BY NatLessThanWellFounded, Zenon
<1>2. \A x, y \in Nat : x < y => <<x, y>> \in R
  BY DEF OpToRel
<1>. HIDE DEF R
<1>3. PICK n \in T : \A k \in T : ~(<<k, n>> \in R)
  BY <1>1, WFMin
<1>4. \A k \in T : k \in Nat /\ n \in Nat /\ ~(k < n)
  BY <1>2, <1>3
<1>. QED  BY <1>4

(* A set with 0 and the successor of each of its numbers has them all.      *)
LEMMA AllNumbers ==
  ASSUME NEW G, 0 \in G, \A x \in Nat : x \in G => x + 1 \in G
  PROVE  Nat \subseteq G
<1>. SUFFICES ASSUME Nat \ G # {} PROVE FALSE
  OBVIOUS
<1>1. PICK n \in Nat \ G : \A k \in Nat \ G : n <= k
  BY LeastOf
<1>2. n # 0 /\ n - 1 \in Nat /\ n - 1 \notin Nat \ G
  BY <1>1
<1>. QED  BY <1>1, <1>2

(* The recursion of DataUpTo, for any sizes. *)
IsSum(a, N, f) == f = [k \in 0 .. N |-> IF k = 0 THEN 0 ELSE f[k - 1] + a[k]]

(* It has a solution.                                                       *)
LEMMA SumDefined ==
  ASSUME NEW a, NEW N \in Nat
  PROVE  \E f : IsSum(a, N, f)
<1>. DEFINE D(x) == \E f : IsSum(a, x, f)
            G == {x \in Nat : D(x)}
<1>1. D(0)
  <2>. DEFINE f == [n \in 0 .. 0 |-> 0]
  <2>1. f = [n \in 0 .. 0 |-> IF n = 0 THEN 0 ELSE f[n - 1] + a[n]]
    OBVIOUS
  <2>. QED  BY <2>1 DEF IsSum
<1>2. ASSUME NEW x \in Nat, D(x) PROVE D(x + 1)
  <2>1. PICK f : f = [n \in 0 .. x |-> IF n = 0 THEN 0 ELSE f[n - 1] + a[n]]
    BY <1>2 DEF IsSum
  <2>. DEFINE g == [n \in 0 .. x + 1 |-> IF n = x + 1 THEN f[x] + a[x + 1] ELSE f[n]]
  <2>2. ASSUME NEW n \in 0 .. x + 1
        PROVE  g[n] = IF n = 0 THEN 0 ELSE g[n - 1] + a[n]
    <3>1. CASE n = x + 1
      <4>1. n # 0 /\ n - 1 = x /\ x \in 0 .. x + 1 /\ x # x + 1
        BY <3>1
      <4>. QED  BY <3>1, <4>1
    <3>2. CASE n # x + 1
      <4>1. n \in 0 .. x /\ g[n] = f[n]
        BY <3>2
      <4>2. n # 0 => n - 1 \in 0 .. x + 1 /\ n - 1 # x + 1 /\ g[n - 1] = f[n - 1]
        BY <3>2
      <4>3. f[n] = IF n = 0 THEN 0 ELSE f[n - 1] + a[n]
        BY <2>1, <4>1
      <4>. HIDE DEF g
      <4>. QED  BY <4>1, <4>2, <4>3
    <3>. QED  BY <3>1, <3>2
  <2>3. g = [n \in 0 .. x + 1 |-> IF n = 0 THEN 0 ELSE g[n - 1] + a[n]]
    BY <2>2
  <2>. HIDE DEF g
  <2>. QED  BY <2>3 DEF IsSum
<1>3. Nat \subseteq G
  <2>1. 0 \in G /\ \A x \in Nat : x \in G => x + 1 \in G
    <3>. HIDE DEF D
    <3>. QED  BY <1>1, <1>2
  <2>. HIDE DEF G
  <2>. QED  BY <2>1, AllNumbers
<1>. QED  BY <1>3

(* So DataUpTo adds the sizes up that the chunk headers hold.               *)
LEMMA DataUpToAdds ==
  /\ DataUpTo[0] = 0
  /\ \A k \in 1 .. MaxChunks : DataUpTo[k] = DataUpTo[k - 1] + At(ChunkAt(k)).size
<1>1. MaxChunks \in Nat
  BY InputAssumption DEF MaxChunks
<1>2. PICK a : a = [k \in 0 .. MaxChunks |-> At(ChunkAt(k)).size]
  OBVIOUS
<1>3. PICK f : f = [k \in 0 .. MaxChunks |-> IF k = 0 THEN 0 ELSE f[k - 1] + a[k]]
  BY <1>1, SumDefined DEF IsSum
<1>4. f = [k \in 0 .. MaxChunks |-> IF k = 0 THEN 0 ELSE f[k - 1] + At(ChunkAt(k)).size]
  BY <1>2, <1>3
<1>5. DataUpTo = [k \in 0 .. MaxChunks |->
                    IF k = 0 THEN 0 ELSE DataUpTo[k - 1] + At(ChunkAt(k)).size]
  BY <1>4, Zenon DEF DataUpTo
<1>6. 0 \in 0 .. MaxChunks /\ \A k \in 1 .. MaxChunks : k \in 0 .. MaxChunks /\ k # 0
  BY <1>1
<1>. QED  BY <1>5, <1>6

(* The sizes in the headers add up to what was read, more with each chunk   *)
(* that is not empty.                                                       *)
LEMMA DataFacts ==
  ASSUME ArchiveInv, rpc = "finished"
  PROVE  /\ DataUpTo[0] = 0 /\ DataUpTo[chunk] = input
         /\ \A k \in 0 .. chunk : DataUpTo[k] \in 0 .. input
         /\ \A k \in 1 .. chunk : /\ At(ChunkAt(k)).size \in Nat
                                  /\ DataUpTo[k] = DataUpTo[k - 1] + At(ChunkAt(k)).size
                                  /\ k # chunk => At(ChunkAt(k)).size > 0
<1>1. /\ RingInv /\ PassInv /\ JobsInv /\ FileInv /\ SizesAddUp /\ chunk \in Nat
      /\ Opened = chunk /\ eof = 1 /\ ~MorePasses /\ chunk > 0 /\ input \in Nat
  BY AllWritten, InputAssumption DEF ArchiveInv, PassInv, PassTypes
<1>2. 1 .. chunk \subseteq 1 .. MaxChunks /\ 1 .. chunk \subseteq Chunks
  BY <1>1, ChunkFits DEF Chunks
<1>3. Taken = input
  <2>1. inleft \in Nat /\ len \in Int /\ rpc \notin InPass /\ rpc \notin {"stdin", "open"}
    BY <1>1 DEF PassInv, PassTypes, InPass
  <2>2. CASE mode.stdin
    BY <1>1, <2>1, <2>2 DEF Taken, PassInv, StdinPass
  <2>3. CASE ~mode.stdin
    BY <1>1, <2>1, <2>3 DEF Taken, PassInv, FilePass
  <2>. QED  BY <2>2, <2>3
<1>4. PICK u \in [0 .. chunk -> 0 .. input] :
        /\ u[0] = 0 /\ u[chunk] = input
        /\ \A c \in 1 .. chunk : u[c] = u[c - 1] + sinfo[c].size
  BY <1>1, <1>3 DEF SizesAddUp
<1>5. \A k \in 1 .. chunk : At(ChunkAt(k)).size = sinfo[k].size
  BY <1>1, ChunkIs DEF ChunkStart
<1>6. \A k \in 1 .. chunk : sinfo[k].size \in Nat /\ (k # chunk => sinfo[k].size # 0)
  BY <1>1, <1>2 DEF PassInv, SinfoTypes, SinfoRec, SizesAddUp
<1>7. \A k \in 0 .. chunk : DataUpTo[k] = u[k]
  <2>. DEFINE G == {k \in Nat : k <= chunk => DataUpTo[k] = u[k]}
  <2>1. 0 \in G
    BY <1>4, DataUpToAdds
  <2>2. ASSUME NEW x \in Nat, x \in G PROVE x + 1 \in G
    <3>. SUFFICES ASSUME x + 1 <= chunk PROVE DataUpTo[x + 1] = u[x + 1]
      OBVIOUS
    <3>1. x + 1 \in 1 .. chunk /\ (x + 1) - 1 = x /\ DataUpTo[x] = u[x]
      BY <1>1, <2>2
    <3>2. u[x + 1] = u[x] + sinfo[x + 1].size
      BY <1>4, <3>1
    <3>3. DataUpTo[x + 1] = DataUpTo[x] + sinfo[x + 1].size
      BY <1>2, <1>5, <3>1, DataUpToAdds
    <3>. QED  BY <3>1, <3>2, <3>3
  <2>3. Nat \subseteq G
    <3>. HIDE DEF G
    <3>. QED  BY <2>1, <2>2, AllNumbers
  <2>. QED  BY <1>1, <2>3
<1>8. /\ 0 \in 0 .. chunk /\ chunk \in 0 .. chunk
      /\ \A k \in 1 .. chunk : k \in 0 .. chunk /\ k - 1 \in 0 .. chunk
  BY <1>1
<1>9. \A k \in 1 .. chunk : DataUpTo[k] = DataUpTo[k - 1] + At(ChunkAt(k)).size
  BY <1>2, DataUpToAdds
<1>10. \A k \in 0 .. chunk : u[k] \in 0 .. input
  BY <1>4
<1>11. \A k \in 1 .. chunk : At(ChunkAt(k)).size \in Nat /\ (k # chunk => At(ChunkAt(k)).size > 0)
  BY <1>5, <1>6
<1>. QED  BY <1>4, <1>7, <1>8, <1>9, <1>10, <1>11

(* The data up to a chunk is less than up to a later one that is not empty. *)
LEMMA DataGrows ==
  ASSUME ArchiveInv, rpc = "finished", NEW k \in 1 .. chunk,
         \A i \in 1 .. k : At(ChunkAt(i)).size > 0
  PROVE  \A i \in 0 .. k - 1 : DataUpTo[i] < DataUpTo[k]
<1>1. chunk \in Nat /\ input \in Nat /\ k \in Nat /\ k >= 1 /\ k <= chunk
  BY InputAssumption DEF ArchiveInv, PassInv, PassTypes
<1>2. /\ \A i \in 0 .. chunk : DataUpTo[i] \in 0 .. input
      /\ \A i \in 1 .. chunk : /\ At(ChunkAt(i)).size \in Nat
                               /\ DataUpTo[i] = DataUpTo[i - 1] + At(ChunkAt(i)).size
  BY DataFacts
<1>3. \A i \in 1 .. k : DataUpTo[i - 1] < DataUpTo[i]
  <2>1. ASSUME NEW i \in 1 .. k PROVE DataUpTo[i - 1] < DataUpTo[i]
    <3>1. i \in 1 .. chunk /\ i - 1 \in 0 .. chunk /\ i \in 0 .. chunk
      BY <1>1
    <3>2. PICK a \in Nat, b \in Nat, s \in Nat :
            /\ a = DataUpTo[i - 1] /\ b = DataUpTo[i] /\ s = At(ChunkAt(i)).size
            /\ b = a + s
      BY <1>1, <1>2, <3>1
    <3>. QED  BY <3>2
  <2>. QED  BY <2>1
<1>4. \A i \in 0 .. k : DataUpTo[i] \in Nat
  BY <1>1, <1>2
<1>. DEFINE G == {n \in Nat : \A i \in 0 .. k - 1 :
                              i + n + 1 <= k => DataUpTo[i] < DataUpTo[i + n + 1]}
<1>5. 0 \in G
  <2>1. ASSUME NEW i \in 0 .. k - 1 PROVE DataUpTo[i] < DataUpTo[i + 0 + 1]
    <3>1. i + 1 \in 1 .. k /\ (i + 1) - 1 = i /\ i + 0 + 1 = i + 1
      BY <1>1
    <3>. QED  BY <1>3, <3>1
  <2>. QED  BY <2>1
<1>6. ASSUME NEW n \in Nat, n \in G PROVE n + 1 \in G
  <2>1. ASSUME NEW i \in 0 .. k - 1, i + (n + 1) + 1 <= k
        PROVE  DataUpTo[i] < DataUpTo[i + (n + 1) + 1]
    <3>1. i + n + 1 <= k /\ i + n + 1 \in 0 .. k /\ i \in 0 .. k
          /\ i + (n + 1) + 1 \in 1 .. k /\ (i + (n + 1) + 1) - 1 = i + n + 1
      BY <1>1, <2>1
    <3>2. DataUpTo[i] < DataUpTo[i + n + 1]
      BY <1>6, <3>1
    <3>3. DataUpTo[i + n + 1] < DataUpTo[i + (n + 1) + 1]
      BY <1>3, <3>1
    <3>4. PICK a \in Nat, b \in Nat, c \in Nat :
            a = DataUpTo[i] /\ b = DataUpTo[i + n + 1] /\ c = DataUpTo[i + (n + 1) + 1]
      <4>1. i + (n + 1) + 1 \in 0 .. k
        BY <3>1
      <4>. QED  BY <1>4, <3>1, <4>1
    <3>. QED  BY <3>2, <3>3, <3>4
  <2>. QED  BY <2>1
<1>7. Nat \subseteq G
  <2>. HIDE DEF G
  <2>. QED  BY <1>5, <1>6, AllNumbers
<1>8. ASSUME NEW i \in 0 .. k - 1 PROVE DataUpTo[i] < DataUpTo[k]
  <2>1. k - i - 1 \in Nat /\ i + (k - i - 1) + 1 = k
    BY <1>1
  <2>2. k - i - 1 \in G
    BY <1>7, <2>1
  <2>. QED  BY <1>1, <2>1, <2>2
<1>. QED  BY <1>8

(* The flag is there in each chunk header.                                  *)
LEMMA FlagTyped ==
  ASSUME ArchiveInv, NEW c \in 1 .. Opened
  PROVE  At(ChunkAt(c)).eof \in {0, 1} /\ At(ChunkAt(c)) = At(Start(c) - 1)
<1>1. ChunkAt(c) = Start(c) - 1 /\ Start(c) - 1 \in Offsets /\ At(Start(c) - 1).kind = "chunk"
  BY ChunkIs DEF ChunkStart
<1>2. At(Start(c) - 1) \in Records
  BY <1>1, FileFacts DEF ArchiveInv
<1>. QED  BY <1>1, <1>2 DEF Records, Blank, HeadRec, BlockRec

(* runzip_fd gets all of the input back from an archive in a file, whether  *)
(* it goes by the size in the magic or by the flags of the chunks, and      *)
(* finds no empty chunk on the way (runzip_fd, read_magic, compthread).     *)
THEOREM ArchiveReadsAll == Spec => []RunzipReadsAll
<1>1. ASSUME ArchiveInv, rpc = "finished", ~mode.stdout
      PROVE  \E k \in 1 .. chunk :
               /\ ~RunzipGoesOn(k) /\ DataUpTo[k] = input
               /\ \A i \in 1 .. k - 1 : RunzipGoesOn(i) /\ At(ChunkAt(i)).size > 0
  <2>1. /\ chunk \in Nat /\ chunk > 0 /\ input \in Nat /\ Opened = chunk /\ eof = 1
        /\ At(0).size = IF mode.encrypt THEN 0 ELSE input
    BY <1>1, AllWritten, InputAssumption DEF ArchiveInv, PassInv, PassTypes, FileInv, OffsetSound
  <2>2. /\ DataUpTo[0] = 0 /\ DataUpTo[chunk] = input
        /\ \A k \in 0 .. chunk : DataUpTo[k] \in 0 .. input
        /\ \A k \in 1 .. chunk : /\ At(ChunkAt(k)).size \in Nat
                                 /\ DataUpTo[k] = DataUpTo[k - 1] + At(ChunkAt(k)).size
                                 /\ k # chunk => At(ChunkAt(k)).size > 0
    BY <1>1, DataFacts
  <2>3. CASE ~mode.encrypt /\ input > 0
    <3>1. PICK k \in 1 .. chunk :
            DataUpTo[k] = input /\ \A i \in 1 .. k : At(ChunkAt(i)).size > 0
      <4>1. CASE At(ChunkAt(chunk)).size > 0
        BY <2>1, <2>2, <4>1
      <4>2. CASE At(ChunkAt(chunk)).size = 0
        <5>1. chunk \in 1 .. chunk /\ chunk - 1 \in 0 .. chunk
          BY <2>1
        <5>2. DataUpTo[chunk - 1] = input
          <6>1. PICK a \in Nat : a = DataUpTo[chunk - 1]
            BY <2>2, <5>1
          <6>2. input = a + 0
            BY <2>2, <4>2, <5>1, <6>1
          <6>. QED  BY <6>1, <6>2
        <5>3. chunk - 1 # 0
          BY <2>2, <2>3, <5>2
        <5>4. chunk - 1 \in 1 .. chunk /\ \A i \in 1 .. chunk - 1 : i \in 1 .. chunk /\ i # chunk
          BY <2>1, <5>3
        <5>. QED  BY <2>2, <5>2, <5>4
      <4>3. chunk \in 1 .. chunk
        BY <2>1
      <4>. QED  BY <2>2, <4>1, <4>2, <4>3
    <3>2. \A i \in 0 .. k - 1 : DataUpTo[i] < DataUpTo[k]
      BY <1>1, <3>1, DataGrows
    <3>3. ~RunzipGoesOn(k)
      BY <2>1, <2>3, <3>1 DEF RunzipGoesOn
    <3>4. \A i \in 1 .. k - 1 : RunzipGoesOn(i) /\ At(ChunkAt(i)).size > 0
      <4>1. \A i \in 1 .. k - 1 : i \in 0 .. k - 1 /\ i \in 1 .. k
        BY <2>1
      <4>. QED  BY <2>1, <2>3, <3>1, <3>2, <4>1 DEF RunzipGoesOn
    <3>. QED  BY <3>1, <3>3, <3>4
  <2>4. CASE mode.encrypt
    <3>1. At(0).size = 0
      BY <2>1, <2>4
    <3>2. ASSUME NEW k \in 1 .. chunk
          PROVE  RunzipGoesOn(k) <=> k # chunk
      <4>1. At(ChunkAt(k)).eof \in {0, 1} /\ At(ChunkAt(k)) = At(Start(k) - 1)
        BY <1>1, <2>1, FlagTyped
      <4>2. At(ChunkAt(k)).eof = 1 <=> k = chunk
        BY <1>1, <2>1, <2>4, <4>1 DEF ArchiveInv, FileInv, FlagsSound
      <4>3. k \in 0 .. chunk
        BY <2>1
      <4>4. ~(DataUpTo[k] < 0)
        BY <2>1, <2>2, <4>3
      <4>. QED  BY <3>1, <4>1, <4>2, <4>4 DEF RunzipGoesOn
    <3>3. chunk \in 1 .. chunk /\ \A i \in 1 .. chunk - 1 : i \in 1 .. chunk /\ i # chunk
      BY <2>1
    <3>. QED  BY <2>2, <3>2, <3>3
  <2>5. CASE ~mode.encrypt /\ input = 0
    <3>1. At(0).size = 0 /\ 1 \in 1 .. chunk /\ 1 \in 0 .. chunk
      BY <2>1, <2>5
    <3>2. DataUpTo[1] = 0
      BY <2>2, <2>5, <3>1
    <3>3. At(ChunkAt(1)).eof = 1
      <4>1. At(Start(1) - 1).eof = 1
        BY <1>1, <2>1, <2>5, <3>1 DEF ArchiveInv, FileInv, FlagsSound
      <4>. QED  BY <1>1, <2>1, <3>1, <4>1, FlagTyped
    <3>4. ~RunzipGoesOn(1)
      BY <3>1, <3>2, <3>3 DEF RunzipGoesOn
    <3>5. 1 .. 1 - 1 = {}
      OBVIOUS
    <3>. QED  BY <2>5, <3>1, <3>2, <3>4, <3>5
  <2>. QED  BY <2>1, <2>3, <2>4, <2>5
<1>2. ArchiveInv => RunzipReadsAll
  BY <1>1 DEF RunzipReadsAll
<1>. QED  BY <1>2, ArchiveInvariant, PTL
=============================================================================
