------------------------------ MODULE CompRing ------------------------------
(***************************************************************************)
(* The ring of compression threads of src/stream.c: how clear_buffer hands *)
(* a full stream buffer to a slot of cthreads[], how the compthreads take   *)
(* turns at the output file through output_thread / output_lock /           *)
(* output_cond, how a slot is given back through its semaphore cksem, and   *)
(* how close_stream_out and close_streamout_threads wait for all slots.     *)
(*                                                                         *)
(* Only the synchronisation is here.  What a thread writes during its turn *)
(* is added by StreamOut, which conjoins to every action of this module the *)
(* effect it has on the stream state and on the file.                      *)
(***************************************************************************)
EXTENDS Integers, Sequences

CONSTANTS
  NThreads,   \* control->threads once open_stream_out has settled it
  MaxJobs     \* bound on the number of buffers handed over

ASSUME NThreadsAssumption == NThreads \in Nat \ {0}
ASSUME MaxJobsAssumption == MaxJobs \in Nat

Slots == 0 .. NThreads - 1

(* Where a compthread is.  "idle": no thread; "work": filtering and         *)
(* compressing; "turn": about to test output_thread under output_lock;      *)
(* "asleep": in pthread_cond_wait; "magic", "header", "patch", "block":     *)
(* writing; "advance": about to pass the turn on; "post": about to post     *)
(* cksem.                                                                   *)
Steps == {"idle", "work", "turn", "asleep", "magic", "header", "patch",
          "block", "advance", "post"}

(* Where the main thread is.  "run": the rzip stage; "drain": the waiting   *)
(* loop of close_stream_out; "drained": after it; "closing": the waiting    *)
(* loop of close_streamout_threads; "done": after it; "fatal": exit(1).     *)
Phases == {"run", "drain", "drained", "closing", "done", "fatal"}

VARIABLES
  mpc,             \* phase of the main thread
  jobs,            \* buffers handed over so far, which numbers them
  current_thread,  \* clear_buffer's static: the next slot to use
  output_thread,   \* the slot whose turn it is to write
  cksem,           \* value of each slot's semaphore
  tpc,             \* step of each slot's thread
  slot,            \* number of the buffer each slot was last given
  waited,          \* compthread's local: 1 once it has had its turn
  ret,             \* compthread's local: result of the back end
  loop,            \* loop counter i of the two waiting loops
  close_thread,    \* slot the waiting loop looks at
  log              \* numbers of the buffers whose block is in the file

ringVars == <<mpc, jobs, current_thread, output_thread, cksem, tpc, slot,
              waited, ret, loop, close_thread, log>>

(* if (++x == control->threads) x = 0; *)
NextSlot(x) == IF x + 1 = NThreads THEN 0 ELSE x + 1

(* The statics current_thread and output_thread survive from one file of    *)
(* the command line to the next, so a file may start at any slot.           *)
RingInit ==
  /\ mpc = "run"
  /\ jobs = 0
  /\ current_thread \in Slots
  /\ output_thread = current_thread
  /\ cksem = [i \in Slots |-> 1]
  /\ tpc = [i \in Slots |-> "idle"]
  /\ slot = [i \in Slots |-> 0]
  /\ waited = [i \in Slots |-> 0]
  /\ ret = [i \in Slots |-> 0]
  /\ loop = 0
  /\ close_thread = 0
  /\ log = << >>

-----------------------------------------------------------------------------
(* The main thread. *)

(* clear_buffer: wait for the slot, fill it in, create the thread, move on. *)
ClearBuffer ==
  /\ mpc = "run"
  /\ jobs < MaxJobs
  /\ cksem[current_thread] > 0
  /\ cksem' = [cksem EXCEPT ![current_thread] = @ - 1]
  /\ jobs' = jobs + 1
  /\ slot' = [slot EXCEPT ![current_thread] = jobs + 1]
  /\ tpc' = [tpc EXCEPT ![current_thread] = "work"]
  /\ waited' = [waited EXCEPT ![current_thread] = 0]
  /\ ret' = [ret EXCEPT ![current_thread] = 0]
  /\ current_thread' = NextSlot(current_thread)
  /\ UNCHANGED <<mpc, output_thread, loop, close_thread, log>>

(* close_stream_out with ENCRYPT reads output_thread without the lock and   *)
(* then waits for and posts back every semaphore, one after the other.      *)
StartDrain ==
  /\ mpc = "run"
  /\ mpc' = "drain"
  /\ loop' = 0
  /\ close_thread' = output_thread
  /\ UNCHANGED <<jobs, current_thread, output_thread, cksem, tpc, slot,
                 waited, ret, log>>

DrainWait ==
  /\ mpc = "drain"
  /\ loop < NThreads
  /\ cksem[close_thread] > 0
  /\ loop' = loop + 1
  /\ close_thread' = NextSlot(close_thread)
  /\ UNCHANGED <<mpc, jobs, current_thread, output_thread, cksem, tpc, slot,
                 waited, ret, log>>

(* Mutant of EndDrain: the loop leaves one slot out. *)
EndDrainEarly ==
  /\ mpc = "drain"
  /\ loop = NThreads - 1
  /\ mpc' = "drained"
  /\ UNCHANGED <<jobs, current_thread, output_thread, cksem, tpc, slot,
                 waited, ret, loop, close_thread, log>>

(* The loop of close_stream_out is through. *)
EndDrain ==
  /\ mpc = "drain"
  /\ loop = NThreads
  /\ mpc' = "drained"
  /\ UNCHANGED <<jobs, current_thread, output_thread, cksem, tpc, slot,
                 waited, ret, loop, close_thread, log>>

(* close_stream_out returns and the rzip stage goes on. *)
Resume ==
  /\ mpc = "drained"
  /\ mpc' = "run"
  /\ UNCHANGED <<jobs, current_thread, output_thread, cksem, tpc, slot,
                 waited, ret, loop, close_thread, log>>

(* close_streamout_threads: the same loop, but the semaphores are kept. *)
StartClose ==
  /\ mpc = "run"
  /\ mpc' = "closing"
  /\ loop' = 0
  /\ close_thread' = output_thread
  /\ UNCHANGED <<jobs, current_thread, output_thread, cksem, tpc, slot,
                 waited, ret, log>>

CloseWait ==
  /\ mpc = "closing"
  /\ loop < NThreads
  /\ cksem[close_thread] > 0
  /\ cksem' = [cksem EXCEPT ![close_thread] = @ - 1]
  /\ loop' = loop + 1
  /\ close_thread' = NextSlot(close_thread)
  /\ UNCHANGED <<mpc, jobs, current_thread, output_thread, tpc, slot, waited,
                 ret, log>>

(* cthreads is freed. *)
EndClose ==
  /\ mpc = "closing"
  /\ loop = NThreads
  /\ mpc' = "done"
  /\ UNCHANGED <<jobs, current_thread, output_thread, cksem, tpc, slot,
                 waited, ret, loop, close_thread, log>>

Main ==
  \/ ClearBuffer
  \/ StartDrain \/ DrainWait \/ EndDrain \/ Resume
  \/ StartClose \/ CloseWait \/ EndClose

-----------------------------------------------------------------------------
(* The compthread in slot i. *)

(* fatal() ends the process, so nothing moves after it. *)
Alive == mpc # "fatal"

(* The back end returns 0, or fails while other threads use the memory: the *)
(* thread then goes for its turn.  On a retry it already has the turn.      *)
CompressOk(i) ==
  /\ Alive
  /\ tpc[i] = "work"
  /\ ret' = [ret EXCEPT ![i] = 0]
  /\ tpc' = [tpc EXCEPT ![i] = IF waited[i] = 1 THEN "magic" ELSE "turn"]
  /\ UNCHANGED <<mpc, jobs, current_thread, output_thread, cksem, slot,
                 waited, loop, close_thread, log>>

CompressFail(i) ==
  /\ Alive
  /\ tpc[i] = "work"
  /\ waited[i] = 0
  /\ ret' = [ret EXCEPT ![i] = -1]
  /\ tpc' = [tpc EXCEPT ![i] = "turn"]
  /\ UNCHANGED <<mpc, jobs, current_thread, output_thread, cksem, slot,
                 waited, loop, close_thread, log>>

(* if (unlikely(ret && waited)) fatal(...) *)
CompressFatal(i) ==
  /\ Alive
  /\ tpc[i] = "work"
  /\ waited[i] = 1
  /\ mpc' = "fatal"
  /\ UNCHANGED <<jobs, current_thread, output_thread, cksem, tpc, slot,
                 waited, ret, loop, close_thread, log>>

(* while (output_thread != current_thread) cond_wait(...) *)
Sleep(i) ==
  /\ Alive
  /\ tpc[i] = "turn"
  /\ output_thread # i
  /\ tpc' = [tpc EXCEPT ![i] = "asleep"]
  /\ UNCHANGED <<mpc, jobs, current_thread, output_thread, cksem, slot,
                 waited, ret, loop, close_thread, log>>

(* Mutant of TakeTurn: "if" for "while", so output_thread is not tested.    *)
TakeTurnUntested(i) ==
  /\ Alive
  /\ tpc[i] = "turn"
  /\ waited' = [waited EXCEPT ![i] = 1]
  /\ tpc' = [tpc EXCEPT ![i] = IF ret[i] = 0 THEN "magic" ELSE "work"]
  /\ UNCHANGED <<mpc, jobs, current_thread, output_thread, cksem, slot, ret,
                 loop, close_thread, log>>

(* The thread finds it is its turn.  If the back end had failed it tries    *)
(* again, now that all earlier threads are through.                         *)
TakeTurn(i) ==
  /\ Alive
  /\ tpc[i] = "turn"
  /\ output_thread = i
  /\ waited' = [waited EXCEPT ![i] = 1]
  /\ tpc' = [tpc EXCEPT ![i] = IF ret[i] = 0 THEN "magic" ELSE "work"]
  /\ UNCHANGED <<mpc, jobs, current_thread, output_thread, cksem, slot, ret,
                 loop, close_thread, log>>

(* The four writing steps, as the ring sees them. *)
WriteMagic(i) ==
  /\ Alive
  /\ tpc[i] = "magic"
  /\ tpc' = [tpc EXCEPT ![i] = "header"]
  /\ UNCHANGED <<mpc, jobs, current_thread, output_thread, cksem, slot,
                 waited, ret, loop, close_thread, log>>

WriteHeader(i) ==
  /\ Alive
  /\ tpc[i] = "header"
  /\ tpc' = [tpc EXCEPT ![i] = "patch"]
  /\ UNCHANGED <<mpc, jobs, current_thread, output_thread, cksem, slot,
                 waited, ret, loop, close_thread, log>>

PatchLastHead(i) ==
  /\ Alive
  /\ tpc[i] = "patch"
  /\ tpc' = [tpc EXCEPT ![i] = "block"]
  /\ UNCHANGED <<mpc, jobs, current_thread, output_thread, cksem, slot,
                 waited, ret, loop, close_thread, log>>

WriteBlock(i) ==
  /\ Alive
  /\ tpc[i] = "block"
  /\ tpc' = [tpc EXCEPT ![i] = "advance"]
  /\ log' = Append(log, slot[i])
  /\ UNCHANGED <<mpc, jobs, current_thread, output_thread, cksem, slot,
                 waited, ret, loop, close_thread>>

(* Mutant of Advance: cond_signal for cond_broadcast. *)
AdvanceSignal(i) ==
  /\ Alive
  /\ tpc[i] = "advance"
  /\ output_thread' = NextSlot(output_thread)
  /\ LET asleep == {j \in Slots : tpc[j] = "asleep"}
         woken == IF asleep = {} THEN {} ELSE {CHOOSE j \in asleep : TRUE}
     IN tpc' = [j \in Slots |-> IF j = i THEN "post"
                                ELSE IF j \in woken THEN "turn"
                                ELSE tpc[j]]
  /\ UNCHANGED <<mpc, jobs, current_thread, cksem, slot, waited, ret, loop,
                 close_thread, log>>

(* The turn is passed on and every sleeper is woken. *)
Advance(i) ==
  /\ Alive
  /\ tpc[i] = "advance"
  /\ output_thread' = NextSlot(output_thread)
  /\ tpc' = [j \in Slots |-> IF j = i THEN "post"
                             ELSE IF tpc[j] = "asleep" THEN "turn"
                             ELSE tpc[j]]
  /\ UNCHANGED <<mpc, jobs, current_thread, cksem, slot, waited, ret, loop,
                 close_thread, log>>

(* Mutant of Post: the slot is not given back. *)
PostForgotten(i) ==
  /\ Alive
  /\ tpc[i] = "post"
  /\ tpc' = [tpc EXCEPT ![i] = "idle"]
  /\ UNCHANGED <<mpc, jobs, current_thread, output_thread, cksem, slot,
                 waited, ret, loop, close_thread, log>>

(* cksem_post; the thread returns. *)
Post(i) ==
  /\ Alive
  /\ tpc[i] = "post"
  /\ cksem' = [cksem EXCEPT ![i] = @ + 1]
  /\ tpc' = [tpc EXCEPT ![i] = "idle"]
  /\ UNCHANGED <<mpc, jobs, current_thread, output_thread, slot, waited, ret,
                 loop, close_thread, log>>

Compthread(i) ==
  \/ CompressOk(i) \/ CompressFail(i) \/ CompressFatal(i)
  \/ Sleep(i) \/ TakeTurn(i)
  \/ WriteMagic(i) \/ WriteHeader(i)
  \/ PatchLastHead(i) \/ WriteBlock(i)
  \/ Advance(i) \/ Post(i)

(* Every other fatal(): a failed allocation, seek or write in any thread.   *)
Fatal ==
  /\ Alive
  /\ mpc # "done"
  /\ mpc' = "fatal"
  /\ UNCHANGED <<jobs, current_thread, output_thread, cksem, tpc, slot,
                 waited, ret, loop, close_thread, log>>

(* The process has exited or left rzip_fd. *)
Stopped ==
  /\ mpc \in {"done", "fatal"}
  /\ UNCHANGED ringVars

RingNext ==
  \/ Main
  \/ \E i \in Slots : Compthread(i)
  \/ Fatal
  \/ Stopped

(* The main thread and every compthread are scheduled by the system: none   *)
(* that can move stays put for ever.                                        *)
RingFairness ==
  /\ WF_ringVars(Main)
  /\ \A i \in Slots : WF_ringVars(Compthread(i))

RingSpec == RingInit /\ [][RingNext]_ringVars

FairRingSpec == RingSpec /\ RingFairness

-----------------------------------------------------------------------------
(* Properties. *)

(* Every variable keeps its type; the semaphore of a slot is binary.        *)
TypeOK ==
  /\ mpc \in Phases
  /\ jobs \in 0 .. MaxJobs
  /\ current_thread \in Slots
  /\ output_thread \in Slots
  /\ cksem \in [Slots -> {0, 1}]
  /\ tpc \in [Slots -> Steps]
  /\ slot \in [Slots -> 0 .. MaxJobs]
  /\ waited \in [Slots -> {0, 1}]
  /\ ret \in [Slots -> {0, -1}]
  /\ loop \in 0 .. NThreads
  /\ close_thread \in Slots
  /\ log \in Seq(Nat)

Writing == {"magic", "header", "patch", "block", "advance"}

(* compthread writes to the file with no lock held, relying on the turn     *)
(* alone (1722 to 1822): a thread that is writing, or that compresses again *)
(* after it got its turn, is the one output_thread names, so that no two    *)
(* threads ever seek and write at the same time.                            *)
WriterExclusion ==
  \A i \in Slots :
    (tpc[i] \in Writing \/ (tpc[i] = "work" /\ waited[i] = 1))
      => i = output_thread

(* When close_stream_out goes on to encrypt the last headers, and when      *)
(* close_streamout_threads frees cthreads, no compthread is left that could *)
(* still move the file offset or touch its slot, and every buffer handed    *)
(* over is in the file.                                                     *)
QuiescentWhenDrained ==
  mpc \in {"drained", "done"} =>
    /\ \A i \in Slots : tpc[i] = "idle"
    /\ Len(log) = jobs

(* The ring keeps the promise of OrderedLog: however the threads interleave *)
(* and whichever of them has to compress twice, the blocks get into the     *)
(* file in the order in which clear_buffer handed the buffers over.         *)
Promise == INSTANCE OrderedLog WITH accepted <- jobs, log <- log

KeepsPromise == Promise!Spec

(* No buffer is forgotten: one that was handed over gets into the file      *)
(* unless the process dies, although its thread may have gone to sleep on   *)
(* output_cond before or after its predecessor passed the turn.             *)
EveryBufferWritten ==
  \A k \in 1 .. MaxJobs : jobs >= k ~> (Len(log) >= k \/ mpc = "fatal")

(* The two waiting loops end: the main thread is never left waiting for a   *)
(* semaphore nobody posts, although it walks the slots from a value of      *)
(* output_thread that it read without output_lock.                          *)
WaitingLoopsEnd ==
  mpc \in {"drain", "closing"} ~> mpc \in {"drained", "done", "fatal"}

(* The ring under fair scheduling: no buffer is forgotten, and main is never   *)
(* left in one of its waiting loops (stream.c 1125, 2267).                     *)
RingLive == EveryBufferWritten /\ WaitingLoopsEnd
=============================================================================
