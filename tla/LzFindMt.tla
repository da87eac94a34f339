------------------------------ MODULE LzFindMt ------------------------------
(* The multithreaded match finder of LZMA (LzFindMt.c, with the events,        *)
(* semaphores and critical sections of Threads.c).  The hash thread fills      *)
(* blocks with hash heads, the bt thread turns them into blocks of matches,    *)
(* and the encoder's thread, "lz", takes the matches of one position after the *)
(* other.  Each of the two workers is driven through a CMtSync: sync["hash"]   *)
(* by the bt thread, sync["bt"] by the encoder.                                *)
(*                                                                             *)
(* The matches themselves are not here: a block says which positions it is     *)
(* about, and how many numbers each takes is part of the configuration.        *)
EXTENDS LzWindow, Sequences

CONSTANTS
  Confs,             \* the inputs: see ConfsAssumption
  HistorySize, MatchMaxLen, NumHashBytes,
  kNumOpts,          \* what the encoder keeps before the current position
  kMtHashBlockSize, kMtHashNumBlocks, kMtBtBlockSize, kMtBtNumBlocks

ASSUME MtAssumption ==
  /\ {HistorySize, MatchMaxLen, NumHashBytes, kNumOpts} \subseteq Nat
  /\ kMtHashBlockSize \in Nat /\ kMtHashBlockSize > 2
  /\ kMtBtBlockSize \in Nat /\ kMtBtBlockSize > 4 * MatchMaxLen
  /\ kMtHashNumBlocks \in Nat \ {0} /\ kMtBtNumBlocks \in Nat \ {0}
  /\ NumHashBytes >= 2 /\ MatchMaxLen >= NumHashBytes
  /\ MaxAvail >= NumHashBytes /\ MaxAvail >= kMtBtBlockSize

(* An input lies in memory or is read in pieces, is encoded streams times, and *)
(* has the numbers stored for a position: their count, and a length and a      *)
(* distance for some of the lengths from 2 to MatchMaxLen.  At failAt the      *)
(* match finder finds its tables corrupted.                                    *)
ASSUME ConfsAssumption ==
  \A c \in Confs :
    /\ c.direct \in BOOLEAN /\ c.len \in Nat /\ c.streams \in Nat \ {0}
    /\ c.piece \in Nat /\ (c.direct \/ c.piece > 0)
    /\ c.entries \in Seq(1 .. 2 * MatchMaxLen) /\ Len(c.entries) > 0
    /\ c.failAt \in Int

VARIABLES
  conf,   \* the input; entries(p) numbers are stored for position p
  left,   \* streams still to be encoded after this one
  mf,     \* the window, which the hash thread moves along
  sync,   \* the two CMtSync
  pc,     \* where each thread is
  hashBuf, btBuf,   \* the blocks: first position, positions, bytes available
  H, B, L           \* what the hash thread, the bt thread and the encoder keep

vars == <<conf, left, mf, sync, pc, hashBuf, btBuf, H, B, L>>

Objects == {"hash", "bt"}

Client(o) == IF o = "hash" THEN "bt" ELSE "lz"

NumBlocks(o) == IF o = "hash" THEN kMtHashNumBlocks ELSE kMtBtNumBlocks

none == -1

(* MtSync_Construct.  refused records that a semaphore did not take a release, *)
(* a result the callers drop. *)
MtSync_Construct ==
  [created |-> FALSE, needStart |-> FALSE, canStart |-> FALSE, wasStopped |-> FALSE,
   free |-> 0, filled |-> 0, cs |-> "none", entered |-> FALSE, stopWriting |-> FALSE,
   exit |-> FALSE, num |-> 0, refused |-> FALSE]

(* Semaphore_Release1: no more than maxCount. *)
Release1(s, f, max) ==
  IF s[f] + 1 > max THEN [s EXCEPT !.refused = TRUE] ELSE [s EXCEPT ![f] = @ + 1]

LOCK_BUFFER(s, t) == [s EXCEPT !.cs = t, !.entered = TRUE]

UNLOCK_BUFFER(s) == [s EXCEPT !.cs = "none", !.entered = FALSE]

Goto(t, l) == pc' = [pc EXCEPT ![t] = l]

(* MatchFinderMt_Create asks for enough history for the blocks under way. *)
NewWindow(c) ==
  MatchFinder_Create(HistorySize,
    kNumOpts + kMtHashBlockSize * kMtHashNumBlocks + kMtBtBlockSize * kMtBtNumBlocks,
    MatchMaxLen, kMtHashBlockSize, NumHashBytes, c.direct, c.len)

(* The part of MatchFinderMt_Init that the bt thread uses, and the encoder's. *)
InitB == [bi |-> 0, pos |-> 0, ptr |-> 0, cur |-> none, slot |-> 0, hpos |-> 0, hlim |-> 0,
          hnum |-> 0, from |-> 0, used |-> 2, done |-> 0, avail |-> 0, failed |-> FALSE]

InitL == [slot |-> 0, k |-> 0, lim |-> 0, avail |-> 0, pos |-> 0, ptr |-> 0, data |-> none,
          item |-> none, failed |-> FALSE, result |-> "none"]

EmptyBlock == [from |-> 0, n |-> 0, avail |-> 0]

Init ==
  /\ conf \in Confs /\ left = conf.streams - 1
  /\ mf = NewWindow(conf)
  /\ sync = [o \in Objects |-> MtSync_Construct]
  /\ pc = [lz |-> "create", bt |-> "none", hash |-> "none"]
  /\ hashBuf = [k \in 0..(kMtHashNumBlocks - 1) |-> EmptyBlock]
  /\ btBuf = [k \in 0..(kMtBtNumBlocks - 1) |-> EmptyBlock]
  /\ H = 0 /\ B = InitB /\ L = InitL

(*--------------------------- the CMtSync protocol ---------------------------*)

(* MtSync_Create: a new thread waits for canStart.  When it cannot be created  *)
(* MtSync_Destruct closes what there is, and MatchFinderMt_Create fails.       *)
MtSync_Create(o) ==
  /\ pc.lz = IF o = "hash" THEN "create" ELSE "create2"
  /\ \/ /\ sync' = [sync EXCEPT ![o].created = TRUE, ![o].needStart = TRUE, ![o].exit = TRUE]
        /\ pc' = [pc EXCEPT ![o] = "start", !.lz = IF o = "hash" THEN "create2" ELSE "init"]
        /\ UNCHANGED L
     \/ /\ Goto("lz", "stop") /\ L' = [L EXCEPT !.result = "error"]
        /\ UNCHANGED sync
  /\ UNCHANGED <<conf, left, mf, hashBuf, btBuf, H, B>>

(* MatchFinderMt_InitMt and MatchFinderMt_Init. *)
MtSync_Init ==
  /\ pc.lz = "init"
  /\ IF \A o \in Objects : sync[o].needStart /\ ~sync[o].entered
     THEN /\ sync' = [o \in Objects |-> [sync[o] EXCEPT !.free = NumBlocks(o), !.filled = 0]]
          /\ Goto("lz", "run")
          /\ mf' = NewWindow(conf) /\ B' = InitB /\ L' = InitL
     ELSE /\ Goto("lz", "stop") /\ L' = [L EXCEPT !.result = "fail"]
          /\ UNCHANGED <<sync, mf, B>>
  /\ UNCHANGED <<conf, left, hashBuf, btBuf, H>>

(* MtSync_GetNextBlock up to the wait: start the worker, or give the current   *)
(* block back.  The buffer is unlocked first.                                  *)
NextStart(o) ==
  /\ pc[Client(o)] = "next" /\ sync[o].needStart
  /\ sync' = [sync EXCEPT ![o] =
       [@ EXCEPT !.num = 1, !.needStart = FALSE, !.stopWriting = FALSE, !.exit = FALSE,
                 !.wasStopped = FALSE, !.canStart = TRUE]]
  /\ Goto(Client(o), "wait0")
  /\ UNCHANGED <<conf, left, mf, hashBuf, btBuf, H, B, L>>

NextUnlock(o) ==
  /\ pc[Client(o)] = "next" /\ ~sync[o].needStart
  /\ sync' = [sync EXCEPT ![o] = [UNLOCK_BUFFER(sync[o]) EXCEPT !.num = @ + 1]]
  /\ Goto(Client(o), "release")
  /\ UNCHANGED <<conf, left, mf, hashBuf, btBuf, H, B, L>>

NextRelease(o) ==
  /\ pc[Client(o)] = "release"
  /\ sync' = [sync EXCEPT ![o] = Release1(@, "free", NumBlocks(o))]
  /\ Goto(Client(o), "wait")
  /\ UNCHANGED <<conf, left, mf, hashBuf, btBuf, H, B, L>>

(* The index of the next block: 0 after a start, else the old count. *)
NextWait(o) ==
  /\ pc[Client(o)] \in {"wait0", "wait"} /\ sync[o].filled > 0
  /\ sync' = [sync EXCEPT ![o].filled = @ - 1]
  /\ Goto(Client(o), IF pc[Client(o)] = "wait0" THEN "lock0" ELSE "lock")
  /\ UNCHANGED <<conf, left, mf, hashBuf, btBuf, H, B, L>>

(* Mutant of Locked: the lock is not waited for. *)
LockedNot(o) ==
  /\ pc[Client(o)] \in {"lock0", "lock"}
  /\ sync' = [sync EXCEPT ![o].entered = TRUE]

Locked(o) ==
  /\ pc[Client(o)] \in {"lock0", "lock"} /\ sync[o].cs = "none"
  /\ sync' = [sync EXCEPT ![o] = LOCK_BUFFER(@, Client(o))]

(* Mutant of BlockIndex: the count after the increment. *)
BlockIndexNew(o) ==
  (IF pc[Client(o)] = "lock0" THEN 0 ELSE sync[o].num) % NumBlocks(o)

BlockIndex(o) ==
  (IF pc[Client(o)] = "lock0" THEN 0 ELSE sync[o].num - 1) % NumBlocks(o)

(* MtSync_StopWriting: nothing to do unless the worker runs; else tell it,     *)
(* free a block so that it looks, and wait until it has stopped.               *)
StopSend(o) ==
  /\ pc[Client(o)] = "stop" /\ sync[o].created /\ ~sync[o].needStart
  /\ sync' = [sync EXCEPT ![o] = [(IF @.entered THEN UNLOCK_BUFFER(@) ELSE @)
                                  EXCEPT !.stopWriting = TRUE]]
  /\ Goto(Client(o), "stop2")
  /\ UNCHANGED <<conf, left, mf, hashBuf, btBuf, H, B, L>>

(* Mutant of StopRelease: no block is freed for the worker to look at. *)
StopReleaseNot(o) ==
  /\ pc[Client(o)] = "stop2"
  /\ Goto(Client(o), "stop3")
  /\ UNCHANGED <<conf, left, mf, sync, hashBuf, btBuf, H, B, L>>

StopRelease(o) ==
  /\ pc[Client(o)] = "stop2"
  /\ sync' = [sync EXCEPT ![o] = Release1(@, "free", NumBlocks(o))]
  /\ Goto(Client(o), "stop3")
  /\ UNCHANGED <<conf, left, mf, hashBuf, btBuf, H, B, L>>

StopWait(o) ==
  /\ pc[Client(o)] = "stop3" /\ sync[o].wasStopped
  /\ sync' = [sync EXCEPT ![o].wasStopped = FALSE, ![o].needStart = TRUE]
  /\ Goto(Client(o), "stopped")
  /\ UNCHANGED <<conf, left, mf, hashBuf, btBuf, H, B, L>>

StopNothing(o) ==
  /\ pc[Client(o)] = "stop" /\ (~sync[o].created \/ sync[o].needStart)
  /\ Goto(Client(o), "stopped")
  /\ UNCHANGED <<conf, left, mf, sync, hashBuf, btBuf, H, B, L>>

(*------------------------------- hash thread -------------------------------*)

HashStart ==
  /\ pc.hash = "start" /\ sync["hash"].canStart
  /\ sync' = [sync EXCEPT !["hash"].canStart = FALSE]
  /\ Goto("hash", IF sync["hash"].exit THEN "dead" ELSE "loop")
  /\ H' = 0
  /\ UNCHANGED <<conf, left, mf, hashBuf, btBuf, B, L>>

(* Both critical sections are held while the window is moved. *)
HashEnter1 ==
  /\ pc.hash = "loop" /\ MatchFinder_NeedMove(mf) /\ sync["bt"].cs = "none"
  /\ sync' = [sync EXCEPT !["bt"].cs = "hash"]
  /\ Goto("hash", "cs")
  /\ UNCHANGED <<conf, left, mf, hashBuf, btBuf, H, B, L>>

HashEnter2 ==
  /\ pc.hash = "cs" /\ sync["hash"].cs = "none"
  /\ sync' = [sync EXCEPT !["hash"].cs = "hash"]
  /\ Goto("hash", "move")
  /\ UNCHANGED <<conf, left, mf, hashBuf, btBuf, H, B, L>>

HashMove ==
  /\ pc.hash = "move"
  /\ mf' = MatchFinder_MoveBlock(mf)
  /\ LET offset == mf.buffer - mf'.buffer
     IN L' = [L EXCEPT !.ptr = @ - offset] /\ B' = [B EXCEPT !.ptr = @ - offset]
  /\ sync' = [sync EXCEPT !["hash"].cs = "none", !["bt"].cs = "none"]
  /\ Goto("hash", "loop")
  /\ UNCHANGED <<conf, left, hashBuf, btBuf, H>>

HashTake ==
  /\ pc.hash = "loop" /\ ~MatchFinder_NeedMove(mf) /\ sync["hash"].free > 0
  /\ sync' = [sync EXCEPT !["hash"].free = @ - 1]
  /\ Goto("hash", CASE sync["hash"].exit -> "dead"
                    [] ~sync["hash"].exit /\ sync["hash"].stopWriting -> "set"
                    [] OTHER -> "fill")
  /\ UNCHANGED <<conf, left, mf, hashBuf, btBuf, H, B, L>>

(* Heads for as many positions as there are hash bytes for and as fit; the     *)
(* last bytes of the stream have none and are only stepped over.               *)
HashFill ==
  /\ pc.hash = "fill"
  /\ LET w     == MatchFinder_ReadIfRequired(mf, conf.piece)
         avail == Avail(w)
         heads == IF avail >= NumHashBytes
                  THEN Min({avail - NumHashBytes + 1, kMtHashBlockSize - 2}) ELSE 0
     IN /\ hashBuf' = [hashBuf EXCEPT ![H % kMtHashNumBlocks] =
                         [from |-> At(w), n |-> heads, avail |-> avail]]
        /\ mf' = [w EXCEPT !.buffer = @ + (IF avail >= NumHashBytes THEN heads ELSE avail)]
  /\ H' = H + 1
  /\ Goto("hash", "post")
  /\ UNCHANGED <<conf, left, sync, btBuf, B, L>>

HashPost ==
  /\ pc.hash = "post"
  /\ sync' = [sync EXCEPT !["hash"] = Release1(@, "filled", kMtHashNumBlocks)]
  /\ Goto("hash", "loop")
  /\ UNCHANGED <<conf, left, mf, hashBuf, btBuf, H, B, L>>

HashStopped ==
  /\ pc.hash = "set"
  /\ sync' = [sync EXCEPT !["hash"].wasStopped = TRUE]
  /\ Goto("hash", "start")
  /\ UNCHANGED <<conf, left, mf, hashBuf, btBuf, H, B, L>>

(*-------------------------------- bt thread --------------------------------*)

BtStart ==
  /\ pc.bt = "start" /\ sync["bt"].canStart
  /\ sync' = [sync EXCEPT !["bt"].canStart = FALSE]
  /\ Goto("bt", IF sync["bt"].exit THEN "dead" ELSE "loop")
  /\ B' = [B EXCEPT !.bi = 0]
  /\ UNCHANGED <<conf, left, mf, hashBuf, btBuf, H, L>>

(* Mutant of BtTake: the hash thread is not stopped. *)
BtTakeAlone ==
  /\ pc.bt = "loop" /\ sync["bt"].free > 0
  /\ sync' = [sync EXCEPT !["bt"].free = @ - 1]
  /\ Goto("bt", IF sync["bt"].stopWriting THEN "stopped" ELSE "fill")
  /\ UNCHANGED <<conf, left, mf, hashBuf, btBuf, H, B, L>>

BtTake ==
  /\ pc.bt = "loop" /\ sync["bt"].free > 0
  /\ sync' = [sync EXCEPT !["bt"].free = @ - 1]
  /\ Goto("bt", IF sync["bt"].stopWriting THEN "stop" ELSE "fill")
  /\ UNCHANGED <<conf, left, mf, hashBuf, btBuf, H, B, L>>

BtBlock(n, avail) ==
  btBuf' = [btBuf EXCEPT ![B.bi % kMtBtNumBlocks] = [from |-> B.from, n |-> n, avail |-> avail]]

(* BtFillBlock, the start: lock the buffer unless the hash thread is still to  *)
(* be started.  After a failure the blocks are empty.                          *)
BtFill ==
  /\ pc.bt = "fill"
  /\ \/ sync["hash"].needStart /\ UNCHANGED sync
     \/ ~sync["hash"].needStart /\ sync["hash"].cs = "none"
        /\ sync' = [sync EXCEPT !["hash"] = LOCK_BUFFER(@, "bt")]
  /\ B' = [B EXCEPT !.from = B.pos, !.used = 2, !.done = 0, !.avail = B.hnum]
  /\ IF B.failed
     THEN Goto("bt", "unlock") /\ btBuf' = [btBuf EXCEPT ![B.bi % kMtBtNumBlocks] =
            [from |-> B.pos, n |-> none, avail |-> B.hnum]]
     ELSE Goto("bt", "get") /\ UNCHANGED btBuf
  /\ UNCHANGED <<conf, left, mf, hashBuf, H, L>>

(* A block is full when the matches of one more position might not fit. *)
BtLimit == kMtBtBlockSize - 2 * MatchMaxLen

BtFull ==
  /\ pc.bt = "get" /\ B.used >= BtLimit
  /\ BtBlock(B.done, B.avail)
  /\ Goto("bt", "unlock")
  /\ UNCHANGED <<conf, left, mf, sync, hashBuf, H, B, L>>

BtNext ==
  /\ pc.bt = "get" /\ B.used < BtLimit /\ B.hpos = B.hlim
  /\ Goto("bt", "next")
  /\ UNCHANGED <<conf, left, mf, sync, hashBuf, btBuf, H, B, L>>

(* The bytes available for the whole block: a sum that stops at the largest    *)
(* UInt32. *)
AvailSum(numProcessed, avail) == Min({numProcessed + avail, MaxAvail})

(* A new block of heads.  When it is the rest of the stream, the positions in  *)
(* it have no matches and the block ends.                                      *)
BtGot ==
  /\ Locked("hash")
  /\ LET s == BlockIndex("hash")
         h == hashBuf[s]
         a == AvailSum(B.done, h.avail)
     IN /\ B' = [B EXCEPT !.slot = s, !.hpos = 0, !.hlim = h.n, !.avail = a,
                          !.hnum = IF h.avail >= NumHashBytes THEN h.avail ELSE 0,
                          !.used = IF h.avail >= NumHashBytes THEN @ ELSE @ + h.avail]
        /\ IF h.avail >= NumHashBytes
           THEN Goto("bt", "get") /\ UNCHANGED btBuf
           ELSE Goto("bt", "unlock") /\ BtBlock(B.done + h.avail, a)
  /\ UNCHANGED <<conf, left, mf, hashBuf, H, L>>

(* One position of GetMatchesSpecN_2: p->buffer is read, then used. *)
BtLoad ==
  /\ pc.bt = "get" /\ B.used < BtLimit /\ B.hpos # B.hlim
  /\ B' = [B EXCEPT !.cur = B.ptr]
  /\ Goto("bt", "match")
  /\ UNCHANGED <<conf, left, mf, sync, hashBuf, btBuf, H, L>>

BtMatch ==
  /\ pc.bt = "match"
  /\ IF B.pos = conf.failAt
     THEN /\ B' = [B EXCEPT !.failed = TRUE, !.cur = none]
          /\ BtBlock(none, B.avail)
          /\ Goto("bt", "unlock")
     ELSE /\ B' = [B EXCEPT !.used = @ + conf.entries[(B.pos % Len(conf.entries)) + 1],
                            !.done = @ + 1, !.hpos = @ + 1, !.hnum = @ - 1, !.pos = @ + 1,
                            !.ptr = B.cur + 1, !.cur = none]
          /\ Goto("bt", "get") /\ UNCHANGED btBuf
  /\ UNCHANGED <<conf, left, mf, sync, hashBuf, H, L>>

BtUnlock ==
  /\ pc.bt = "unlock"
  /\ sync' = [sync EXCEPT !["hash"] = UNLOCK_BUFFER(@)]
  /\ Goto("bt", "post")
  /\ UNCHANGED <<conf, left, mf, hashBuf, btBuf, H, B, L>>

BtPost ==
  /\ pc.bt = "post"
  /\ sync' = [sync EXCEPT !["bt"] = Release1(@, "filled", kMtBtNumBlocks)]
  /\ B' = [B EXCEPT !.bi = @ + 1]
  /\ Goto("bt", "loop")
  /\ UNCHANGED <<conf, left, mf, hashBuf, btBuf, H, L>>

(* MtSync_StopWriting(&mt->hashSync) has returned. *)
BtStopped ==
  /\ pc.bt = "stopped"
  /\ sync' = [sync EXCEPT !["bt"].wasStopped = TRUE]
  /\ Goto("bt", "start")
  /\ UNCHANGED <<conf, left, mf, hashBuf, btBuf, H, B, L>>

(*------------------------------ encoder thread ------------------------------*)

(* MatchFinderMt_GetNumAvailableBytes, when the block is used up.  After a     *)
(* failure the one record of failureBuf is used again and again.               *)
LzNext ==
  /\ pc.lz = "run" /\ L.k = L.lim
  /\ L' = IF L.failed THEN [L EXCEPT !.k = 0, !.lim = 1] ELSE [L EXCEPT !.data = none]
  /\ Goto("lz", IF L.failed THEN "have" ELSE "next")
  /\ UNCHANGED <<conf, left, mf, sync, hashBuf, btBuf, H, B>>

LzGot ==
  /\ Locked("bt")
  /\ LET s == BlockIndex("bt")
         b == btBuf[s]
     IN L' = [L EXCEPT !.slot = s, !.k = 0, !.lim = IF b.n = none THEN 1 ELSE b.n,
                       !.avail = b.avail, !.failed = (b.n = none)]
  /\ Goto("lz", "have")
  /\ UNCHANGED <<conf, left, mf, hashBuf, btBuf, H, B>>

(* GetMatches or one round of Skip: the numbers of the next position.  The     *)
(* encoder then reads data through the pointer until the next call.            *)
LzConsume ==
  /\ pc.lz = "have" \/ (pc.lz = "run" /\ L.k # L.lim)
  /\ L.avail > 0
  /\ L' = [L EXCEPT !.k = @ + 1, !.avail = @ - 1, !.pos = @ + 1, !.ptr = @ + 1,
                    !.data = L.ptr,
                    !.item = IF L.failed THEN none ELSE btBuf[L.slot].from + L.k]
  /\ Goto("lz", "run")
  /\ UNCHANGED <<conf, left, mf, sync, hashBuf, btBuf, H, B>>

(* No bytes are available: the encoder takes that for the end of the input.    *)
(* CheckErrors then reports a failure of the match finder.                     *)
LzEnd ==
  /\ pc.lz = "have" \/ (pc.lz = "run" /\ L.k # L.lim)
  /\ L.avail = 0
  /\ L' = [L EXCEPT !.result = IF L.failed THEN "error" ELSE "ok", !.data = none]
  /\ Goto("lz", "stop")
  /\ UNCHANGED <<conf, left, mf, sync, hashBuf, btBuf, H, B>>

(* The encoder gives up: its output buffer is full, or CheckErrors. *)
LzAbort ==
  /\ pc.lz = "run"
  /\ L' = [L EXCEPT !.result = "error", !.data = none]
  /\ Goto("lz", "stop")
  /\ UNCHANGED <<conf, left, mf, sync, hashBuf, btBuf, H, B>>

(* LzmaEnc_Finish has released the stream: another one with the same encoder,  *)
(* or MatchFinderMt_Destruct.                                                  *)
LzStopped ==
  /\ pc.lz = "stopped"
  /\ IF left > 0 /\ L.result = "ok"
     THEN left' = left - 1 /\ Goto("lz", "init")
     ELSE UNCHANGED left /\ Goto("lz", "destruct")
  /\ UNCHANGED <<conf, mf, sync, hashBuf, btBuf, H, B, L>>

(* MtSync_Destruct: both workers are stopped by now, so only the exit is left  *)
(* to be sent, to the bt thread first, and the end of the thread to be awaited.*)
MtSync_Destruct(o) ==
  /\ pc.lz = IF o = "bt" THEN "destruct" ELSE "destruct2"
  /\ sync[o].created => sync[o].needStart
  /\ sync' = IF sync[o].created
             THEN [sync EXCEPT ![o].exit = TRUE, ![o].canStart = TRUE] ELSE sync
  /\ Goto("lz", IF o = "bt" THEN "join" ELSE "join2")
  /\ UNCHANGED <<conf, left, mf, hashBuf, btBuf, H, B, L>>

Thread_Wait_Close(o) ==
  /\ pc.lz = IF o = "bt" THEN "join" ELSE "join2"
  /\ sync[o].created => pc[o] = "dead"
  /\ sync' = [sync EXCEPT ![o].created = FALSE]
  /\ Goto("lz", IF o = "bt" THEN "destruct2" ELSE "done")
  /\ UNCHANGED <<conf, left, mf, hashBuf, btBuf, H, B, L>>

SyncStep(o) ==
  \/ NextStart(o) \/ NextUnlock(o) \/ NextRelease(o) \/ NextWait(o)
  \/ StopSend(o) \/ StopRelease(o) \/ StopWait(o) \/ StopNothing(o)

HashStep ==
  \/ HashStart \/ HashEnter1 \/ HashEnter2 \/ HashMove \/ HashTake \/ HashFill
  \/ HashPost \/ HashStopped

BtStep ==
  \/ SyncStep("hash")
  \/ BtStart \/ BtTake \/ BtFill \/ BtFull \/ BtNext \/ BtGot \/ BtLoad \/ BtMatch
  \/ BtUnlock \/ BtPost \/ BtStopped

LzStep ==
  \/ SyncStep("bt")
  \/ \E o \in Objects : MtSync_Create(o) \/ MtSync_Destruct(o) \/ Thread_Wait_Close(o)
  \/ MtSync_Init \/ LzNext \/ LzGot \/ LzConsume \/ LzEnd \/ LzAbort \/ LzStopped

Next == HashStep \/ BtStep \/ LzStep

Spec == Init /\ [][Next]_vars /\ WF_vars(HashStep) /\ WF_vars(BtStep) /\ WF_vars(LzStep)

(*-------------------------------- properties --------------------------------*)

(* The pieces of state that the threads share stay in range. *)
MtTypeOK ==
  /\ \A o \in Objects : sync[o].free \in 0..NumBlocks(o) /\ sync[o].filled \in 0..NumBlocks(o)
  /\ \A o \in Objects : sync[o].cs \in {"none", "hash", Client(o)}
  /\ L.k \in 0..L.lim /\ B.hpos \in 0..B.hlim /\ mf.buffer >= 0 /\ L.avail >= 0
  /\ L.result \in {"none", "ok", "error"}

(* The ring of blocks: the heads the bt thread looks at are for the position   *)
(* it is at, and the encoder is given the matches of one position after the    *)
(* other, however the three threads are interleaved.                           *)
BlocksInOrder ==
  /\ pc.bt = "match" => hashBuf[B.slot].from + B.hpos = B.pos
  /\ L.item # none => L.item = L.pos - 1

(* The number of bytes available that travels with the blocks: there are as    *)
(* many, each has its record in the block, and "none" means the whole input    *)
(* was seen.                                                                   *)
AvailHonest ==
  /\ pc.lz \in {"have", "run"} => L.avail <= conf.len - L.pos
  /\ pc.lz = "have" /\ L.avail > 0 => L.k < L.lim
  /\ L.result = "ok" => L.pos = conf.len

(* The hash thread moves the window only while nobody reads through a pointer  *)
(* into it: MatchFinder_MoveBlock under both critical sections.                *)
PointersStable ==
  /\ pc.bt = "match" => mf.origin + B.cur = B.pos
  /\ L.data # none => mf.origin + L.data = L.pos - 1

(* MatchFinderMt_Create's keepAddBufferBefore: however far the hash thread is  *)
(* ahead, the history of the slower threads is still in the window.            *)
HistoryKept ==
  /\ pc.lz \in {"run", "have"} => mf.origin <= Max({0, L.pos - HistorySize - kNumOpts})
  /\ pc.bt = "match" => mf.origin <= Max({0, B.pos - HistorySize})

(* A block of matches never outgrows its kMtBtBlockSize numbers. *)
BlockFits == B.used <= kMtBtBlockSize

(* "check semaphore count !!!" in MtSync_StopWriting: no release is refused,   *)
(* so none of the messages that travel through the semaphores is lost.         *)
ReleasesCounted == \A o \in Objects : ~sync[o].refused

(* MatchFinderMt_Destruct's comment: at the end the workers are stopped and    *)
(* nobody is inside a critical section that is about to be deleted.            *)
SafeToDestruct ==
  pc.lz \in {"init", "destruct"} =>
    \A o \in Objects :
      sync[o].created => sync[o].needStart /\ sync[o].cs = "none" /\ pc[o] = "start"

(* Whether the input ends, the encoder gives up or a thread cannot be created, *)
(* all threads come to an end. *)
MtFinishes == <>[](pc.lz = "done" /\ pc.bt \in {"none", "dead"} /\ pc.hash \in {"none", "dead"})

(* The two rings of blocks (MtSync_GetNextBlock): every block is handed on     *)
(* once, in order and within its size, and no message through a semaphore is   *)
(* lost.                                                                       *)
BlocksHandedOn == MtTypeOK /\ BlocksInOrder /\ BlockFits /\ ReleasesCounted

(* The window that the hash thread fills and moves while two threads read it   *)
(* (HashThreadFunc 464-480): their pointers stay good, their history is there, *)
(* and so are the bytes they were told of.                                     *)
WindowStable == PointersStable /\ HistoryKept /\ AvailHonest
=============================================================================
