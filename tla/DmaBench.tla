------------------------------ MODULE DmaBench ------------------------------
(***************************************************************************)
(* The DMA loop of o2-roc-bench-dma (ProgramDmaBench), the repository's    *)
(* user of a DMA channel.  Superpages circulate: the push thread takes     *)
(* them from freeQueue, gives them to the driver and moves the filled ones *)
(* to readoutQueue; the readout (main) thread reads their data and puts    *)
(* them back into freeQueue; a low-priority thread watches for SIGINT and  *)
(* the time limit.  The threads share the two queues, the two counters and *)
(* the flag mDmaLoopBreak.                                                 *)
(*                                                                         *)
(* The queues are bounded FIFOs (BoundedFifo, which the folly rings are    *)
(* proved to implement).  The driver does what SuperpageOwnership promises.*)
(***************************************************************************)
EXTENDS Naturals, FiniteSets, Sequences, SequencesExt

CONSTANTS Page,             \* the superpages of the buffer
          TransferCap,      \* room of the driver's transfer queue
          ReadyCap,         \* and of its ready queue
          Options           \* the command lines it is started with, records of
                            \* infinite (no --bytes), limit (in superpages)
                            \* and bufferFullCheck

ASSUME ConstantsAssumption ==
  /\ IsFiniteSet(Page) /\ Page # {}
  /\ TransferCap \in Nat \ {0} /\ ReadyCap \in Nat \ {0}
  /\ Options \subseteq [infinite : BOOLEAN, limit : Nat, bufferFullCheck : BOOLEAN]

VARIABLES
  options,                  \* mInfinitePages, mSuperpageLimit, mBufferFullCheck
  freeQueue, readoutQueue,  \* of capacity mSuperpagesInBuffer
  mDmaLoopBreak,            \* every thread's order to leave its loop
  superpagesPushed,         \* mSuperpagesPushed: counted when seen filled
  superpagesReadOut,        \* mSuperpagesReadOut
  push, main, low,          \* where each thread is
  threw,                    \* the threads an exception ended
  hand,                     \* the superpage being read out, if any, in a sequence
  interrupted,              \* a SIGINT arrived or the time limit has passed
  (* the driver and the card *)
  inDriver, filled,         \* pages pushed, and those of them filled
  readyQueue                \* the driver's ready queue

queueVars  == <<freeQueue, readoutQueue>>
countVars  == <<superpagesPushed, superpagesReadOut>>
driverVars == <<inDriver, filled, readyQueue>>
vars == <<options, queueVars, mDmaLoopBreak, countVars, push, main, low, threw, hand,
          interrupted, driverVars>>

SuperpagesInBuffer == Cardinality(Page)

(* What fits in readoutQueue, constructed with one slot more. *)
ReadoutRoom == SuperpagesInBuffer

Infinite        == options.infinite
Limit           == options.limit
BufferFullCheck == options.bufferFullCheck

(* The counts decide something only against a limit. *)
Count(c) == IF Infinite THEN c ELSE c + 1
LimitReached(c) == ~Infinite /\ c >= Limit

Init == /\ options \in Options
        /\ freeQueue \in SetToSeqs(Page) /\ readoutQueue = <<>>
        /\ mDmaLoopBreak = FALSE
        /\ superpagesPushed = 0 /\ superpagesReadOut = 0
        /\ push = "check" /\ main = "loop" /\ low = "run"
        /\ threw = {} /\ hand = <<>> /\ interrupted = FALSE
        /\ inDriver = {} /\ filled = {} /\ readyQueue = <<>>
-----------------------------------------------------------------------------
(* The card, and the outside.                                              *)

CardFills ==
  /\ main \notin {"drain", "end", "failed"}
  /\ \E p \in inDriver \ filled : filled' = filled \cup {p}
  /\ UNCHANGED <<queueVars, mDmaLoopBreak, countVars, push, main, low, threw,
                 hand, interrupted, inDriver, readyQueue>>

Interrupt ==
  /\ ~interrupted /\ interrupted' = TRUE
  /\ UNCHANGED <<queueVars, mDmaLoopBreak, countVars, push, main, low, threw,
                 hand, driverVars>>
-----------------------------------------------------------------------------
(* The low-priority thread leaves its loop when another thread broke it,   *)
(* or breaks it on SIGINT, at the time limit, or by an exception of a      *)
(* health check.                                                           *)

LowPriority ==
  /\ low = "run"
  /\ \/ mDmaLoopBreak /\ UNCHANGED <<mDmaLoopBreak, threw>>
     \/ interrupted /\ mDmaLoopBreak' = TRUE /\ UNCHANGED threw
     \/ mDmaLoopBreak' = TRUE /\ threw' = threw \cup {"low"}
  /\ low' = "done"
  /\ UNCHANGED <<queueVars, countVars, push, main, hand, interrupted, driverVars>>
-----------------------------------------------------------------------------
(* The push thread.                                                        *)

(* Mutant: it looks at its limit only. *)
PushCheck_LimitOnly ==
  /\ push = "check"
  /\ push' = IF LimitReached(superpagesPushed) THEN "done" ELSE "fill"
  /\ UNCHANGED <<queueVars, mDmaLoopBreak, countVars, main, low, threw, hand,
                 interrupted, driverVars>>

PushCheck ==
  /\ push = "check"
  /\ push' = IF mDmaLoopBreak \/ LimitReached(superpagesPushed) THEN "done" ELSE "fill"
  /\ UNCHANGED <<queueVars, mDmaLoopBreak, countVars, main, low, threw, hand,
                 interrupted, driverVars>>

(* fillSuperpages() moves filled superpages while the ready queue has room. *)
FillMoves ==
  /\ push = "fill" /\ Len(readyQueue) < ReadyCap
  /\ \E p \in filled : /\ readyQueue' = Append(readyQueue, p)
                       /\ filled' = filled \ {p} /\ inDriver' = inDriver \ {p}
  /\ UNCHANGED <<queueVars, mDmaLoopBreak, countVars, push, main, low, threw,
                 hand, interrupted>>

(* Mutant: it may return with work left. *)
FillReturns_Early ==
  /\ push = "fill" /\ push' = "push"
  /\ UNCHANGED <<queueVars, mDmaLoopBreak, countVars, main, low, threw, hand,
                 interrupted, driverVars>>

FillReturns ==
  /\ push = "fill" /\ (filled = {} \/ Len(readyQueue) = ReadyCap)
  /\ push' = "push"
  /\ UNCHANGED <<queueVars, mDmaLoopBreak, countVars, main, low, threw, hand,
                 interrupted, driverVars>>

FillThrows ==
  /\ push = "fill"
  /\ mDmaLoopBreak' = TRUE /\ threw' = threw \cup {"push"}
  /\ push' = "done"
  /\ UNCHANGED <<queueVars, countVars, main, low, hand, interrupted, driverVars>>

(* while (getTransferQueueAvailable() != 0): freeQueue to pushSuperpage() *)
PushSuperpage ==
  /\ push = "push" /\ Cardinality(inDriver) < TransferCap /\ freeQueue # <<>>
  /\ inDriver' = inDriver \cup {Head(freeQueue)}
  /\ freeQueue' = Tail(freeQueue)
  /\ UNCHANGED <<readoutQueue, mDmaLoopBreak, countVars, push, main, low, threw,
                 hand, interrupted, filled, readyQueue>>

PushEnds ==
  /\ push = "push" /\ (Cardinality(inDriver) = TransferCap \/ freeQueue = <<>>)
  /\ push' = "ready"
  /\ UNCHANGED <<queueVars, mDmaLoopBreak, countVars, main, low, threw, hand,
                 interrupted, driverVars>>

(* while (getReadyQueueSize() != 0): count it, write it to readoutQueue ... *)
ReadyWrite ==
  /\ push = "ready" /\ readyQueue # <<>>
  /\ superpagesPushed' = Count(superpagesPushed)
  /\ mDmaLoopBreak' = (mDmaLoopBreak \/ (BufferFullCheck /\ superpagesPushed' = Limit))
  /\ IF Len(readoutQueue) < ReadoutRoom
     THEN /\ readoutQueue' = Append(readoutQueue, Head(readyQueue))
          /\ push' = "pop"
     ELSE /\ push' = "check"
          /\ UNCHANGED readoutQueue
  /\ UNCHANGED <<freeQueue, superpagesReadOut, main, low, threw, hand, interrupted,
                 driverVars>>

(* ... and only then popSuperpage() *)
ReadyPop ==
  /\ push = "pop" /\ push' = "ready"
  /\ readyQueue' = Tail(readyQueue)
  /\ UNCHANGED <<queueVars, mDmaLoopBreak, countVars, main, low, threw, hand,
                 interrupted, inDriver, filled>>

ReadyEnds ==
  /\ push = "ready" /\ readyQueue = <<>>
  /\ push' = "check"
  /\ UNCHANGED <<queueVars, mDmaLoopBreak, countVars, main, low, threw, hand,
                 interrupted, driverVars>>

PushThread == \/ PushCheck \/ FillMoves \/ FillReturns \/ PushSuperpage \/ PushEnds
              \/ ReadyWrite \/ ReadyPop \/ ReadyEnds
-----------------------------------------------------------------------------
(* The readout thread.                                                     *)

(* Mutant: it leaves without stopping the others. *)
MainCheck_Silent ==
  /\ main = "loop" /\ (mDmaLoopBreak \/ LimitReached(superpagesReadOut))
  /\ main' = "join"
  /\ UNCHANGED <<queueVars, mDmaLoopBreak, countVars, push, low, threw, hand, interrupted,
                 driverVars>>

MainCheck ==
  /\ main = "loop"
  /\ mDmaLoopBreak \/ LimitReached(superpagesReadOut)
  /\ mDmaLoopBreak' = TRUE
  /\ main' = "join"
  /\ UNCHANGED <<queueVars, countVars, push, low, threw, hand, interrupted, driverVars>>

(* In the buffer-full check a superpage is taken and not given back. *)
MainRead ==
  /\ main = "loop" /\ ~mDmaLoopBreak /\ ~LimitReached(superpagesReadOut)
  /\ readoutQueue # <<>>
  /\ readoutQueue' = Tail(readoutQueue)
  /\ IF BufferFullCheck
     THEN UNCHANGED <<superpagesReadOut, hand, main>>
     ELSE /\ superpagesReadOut' = Count(superpagesReadOut)
          /\ hand' = <<Head(readoutQueue)>>
          /\ main' = "read"
  /\ UNCHANGED <<freeQueue, mDmaLoopBreak, superpagesPushed, push, low, threw,
                 interrupted, driverVars>>

(* Mutant: it is not given back. *)
MainReturn_Lost ==
  /\ main = "read" /\ main' = "loop" /\ hand' = <<>>
  /\ UNCHANGED <<queueVars, mDmaLoopBreak, countVars, push, low, threw, interrupted,
                 driverVars>>

(* The data is read; the superpage goes back, or "something went horribly   *)
(* wrong" in a full freeQueue.                                              *)
MainReturn ==
  /\ main = "read"
  /\ hand' = <<>>
  /\ IF Len(freeQueue) < SuperpagesInBuffer
     THEN /\ freeQueue' = freeQueue \o hand
          /\ main' = "loop"
          /\ UNCHANGED <<threw, mDmaLoopBreak>>
     ELSE /\ mDmaLoopBreak' = TRUE /\ threw' = threw \cup {"freeQueue full"}
          /\ main' = "join"
          /\ UNCHANGED freeQueue
  /\ UNCHANGED <<readoutQueue, countVars, push, low, interrupted, driverVars>>

(* A page whose header makes no sense throws. *)
MainThrows ==
  /\ main = "read"
  /\ mDmaLoopBreak' = TRUE /\ threw' = threw \cup {"main"}
  /\ hand' = <<>> /\ main' = "join"
  /\ UNCHANGED <<queueVars, countVars, push, low, interrupted, driverVars>>

(* pushFuture.get() and lowPriorityFuture.get(), or the futures' destructors *)
(* on the way out of an exception, wait for the threads.                     *)
MainJoins ==
  /\ main = "join" /\ push = "done" /\ low = "done"
  /\ main' = IF threw = {} THEN "stop" ELSE "failed"
  /\ UNCHANGED <<queueVars, mDmaLoopBreak, countVars, push, low, threw, hand,
                 interrupted, driverVars>>

(* stopDma() moves what fits, filled or not; freeExcessPages() pops it, if   *)
(* its 10 ms have not passed before its first look.                          *)
StopDma ==
  /\ main = "stop"
  /\ \E s \in SetToSeqs(inDriver), n \in 0 .. Cardinality(Page) :
        /\ n <= Len(s) /\ Len(readyQueue) + n <= ReadyCap
        /\ n = Len(s) \/ Len(readyQueue) + n = ReadyCap
        /\ readyQueue' = readyQueue \o SubSeq(s, 1, n)
  /\ inDriver' = {} /\ filled' = {}
  /\ main' \in {"drain", "end"}
  /\ UNCHANGED <<queueVars, mDmaLoopBreak, countVars, push, low, threw, hand, interrupted>>

FreeExcessPages ==
  /\ main = "drain"
  /\ superpagesReadOut' = IF Infinite THEN 0 ELSE superpagesReadOut + Len(readyQueue)
  /\ readyQueue' = <<>> /\ main' = "end"
  /\ UNCHANGED <<queueVars, mDmaLoopBreak, superpagesPushed, push, low, threw, hand,
                 interrupted, inDriver, filled>>

MainThread == MainCheck \/ MainRead \/ MainReturn \/ MainJoins \/ StopDma \/ FreeExcessPages

Finished == main \in {"end", "failed"}
Done == Finished /\ UNCHANGED vars

Next == \/ /\ CardFills \/ Interrupt \/ LowPriority \/ PushThread \/ FillThrows
              \/ MainThread \/ MainThrows
           /\ UNCHANGED options
        \/ Done

(* Each thread runs; the card keeps filling what it was given. *)
Spec == /\ Init /\ [][Next]_vars
        /\ WF_vars(PushThread /\ UNCHANGED options)
        /\ WF_vars(MainThread /\ UNCHANGED options)
        /\ WF_vars((mDmaLoopBreak \/ interrupted) /\ LowPriority /\ UNCHANGED options)
        /\ WF_vars(CardFills /\ UNCHANGED options)
-----------------------------------------------------------------------------

(* Types, and the capacities of the queues. *)
TypeOK ==
  /\ freeQueue \in Seq(Page) /\ readoutQueue \in Seq(Page) /\ readyQueue \in Seq(Page)
  /\ Len(freeQueue) <= SuperpagesInBuffer /\ Len(readoutQueue) <= ReadoutRoom
  /\ Len(readyQueue) <= ReadyCap
  /\ inDriver \subseteq Page /\ Cardinality(inDriver) <= TransferCap
  /\ filled \subseteq inDriver /\ hand \in Seq(Page)
  /\ mDmaLoopBreak \in BOOLEAN /\ interrupted \in BOOLEAN
  /\ superpagesPushed \in Nat /\ superpagesReadOut \in Nat
  /\ push \in {"check", "fill", "push", "ready", "pop", "done"}
  /\ main \in {"loop", "read", "join", "stop", "drain", "end", "failed"}
  /\ low \in {"run", "done"}
  /\ threw \subseteq {"push", "main", "low", "freeQueue full"}

(* The superpages in a queue or read out; between readoutQueue.write() and popSuperpage() *)
(* the front of the ready queue is in both, and counts once.                  *)
Queued == freeQueue \o readoutQueue \o hand \o
          (IF push = "pop" THEN Tail(readyQueue) ELSE readyQueue)

(* Superpages circulate: whatever the three threads and the card do, each    *)
(* one is in one queue, in the driver or being read out, in one of them      *)
(* once; and none gets lost before the loop is left.                         *)
EachPageHeldOnce ==
  /\ IsInjective(Queued)
  /\ ToSet(Queued) \cap inDriver = {}
  /\ (main \in {"loop", "read"} /\ ~BufferFullCheck) =>
        ToSet(Queued) \cup inDriver = Page

(* Every superpage counted as pushed is, once, on its way to be counted as   *)
(* read out.  The code counts before it knows whether readoutQueue takes the *)
(* superpage; its capacity makes that right.  The two limit tests rely on it.*)
CountsAgree ==
  (main \notin {"drain", "end"} /\ ~BufferFullCheck /\ ~Infinite) =>
     superpagesPushed = superpagesReadOut + Len(readoutQueue)

(* The queues and the counters agree on where the superpages are. *)
BooksBalance == EachPageHeldOnce /\ CountsAgree

(* A run with a limit ends by itself: the push thread stops at the limit and *)
(* still leaves enough for the readout thread to reach it and stop the rest. *)
(* So does a buffer-full check of no more superpages than there are.         *)
Finishes == Infinite \/ <>Finished

(* Once a thread broke the loop, or a SIGINT arrived, the program comes to   *)
(* its end: no thread waits for another one for ever.                        *)
EndsWhenTold == (mDmaLoopBreak \/ interrupted) ~> Finished

(* A filled superpage reaches the readout thread unless the loop is broken.  *)
FilledIsReadOut == \A p \in Page : (p \in filled) ~> (p \in ToSet(hand) \/ mDmaLoopBreak)

=============================================================================
