--------------------------- MODULE CrorcDmaChannel ---------------------------
(***************************************************************************)
(* The DMA channel of a C-RORC (CrorcDmaChannel on DmaChannelPdaBase, with *)
(* the superpage registers of CrorcBar).  A superpage goes through three   *)
(* queues: pushed (transfer), given to the firmware, which takes one at a  *)
(* time (intermediate), and finished (ready).  The firmware reports each   *)
(* one in the superpage info buffer: its size, and an 8-bit count that the *)
(* driver compares with the one it saw last.                               *)
(*                                                                         *)
(* The driver runs in the user's thread, one call at a time; the firmware  *)
(* may act between any two accesses to the info buffer and the registers.  *)
(* Each queue is a folly ring, a bounded FIFO (ProducerConsumerQueue).     *)
(***************************************************************************)
EXTENDS Naturals, Sequences, FiniteSets

CONSTANTS Page,         \* superpages of the user's DMA buffer
          TransferCap,  \* TRANSFER_QUEUE_CAPACITY
          ReadyCap,     \* READY_QUEUE_CAPACITY
          CounterMod,   \* 256, the width of the firmware's count
          FullSize      \* superpage.getSize()

ASSUME ConstantsAssumption ==
  /\ TransferCap \in Nat \ {0} /\ ReadyCap \in Nat \ {0}
  /\ CounterMod \in Nat /\ CounterMod > 1
  /\ FullSize \in Nat \ {0}

VARIABLES
  (* the driver *)
  dmaState,           \* mDmaState
  transferQueue,      \* mTransferQueue
  intermediateQueue,  \* mIntermediateQueue, of capacity one
  readyQueue,         \* mReadyQueue, entries [page, ready, received]
  spAvailCount,       \* mSPAvailCount
  (* the call in progress *)
  pc,                 \* where it is, "idle" between calls
  inSuperpage,        \* the superpage fillSuperpages() is handing over
  (* the firmware *)
  receiving,          \* the data receiver is on
  descFifo,           \* superpages given to the firmware and not filled yet
  fwCount,            \* superpages it has reported since its reset
  info,               \* the superpage info buffer, [size, count]
  (* the buffer *)
  content,            \* bytes DMA wrote into the page since it was pushed
  owner               \* "user", "card", "ready", or "dropped" by the driver

driverVars == <<dmaState, transferQueue, intermediateQueue, readyQueue, spAvailCount>>
callVars   == <<pc, inSuperpage>>
fwVars     == <<receiving, descFifo, fwCount, info>>
bufferVars == <<content, owner>>
vars       == <<driverVars, callVars, fwVars, bufferVars>>

Before == CounterMod - 1   \* 0xff: the first count to be written is 0

Inc(c) == (c + 1) % CounterMod

Init == /\ dmaState = "STOPPED"
        /\ transferQueue = <<>> /\ intermediateQueue = <<>> /\ readyQueue = <<>>
        /\ spAvailCount = Before
        /\ pc = "idle" /\ inSuperpage = <<>>
        /\ receiving = FALSE /\ descFifo = <<>> /\ fwCount = Before
        /\ info = [size |-> 0, count |-> Before]
        /\ content = [p \in Page |-> 0] /\ owner = [p \in Page |-> "user"]
-----------------------------------------------------------------------------
(* The firmware fills its superpage, or closes it at a time frame boundary  *)
(* or a flush, and then reports it with one write into the info buffer.     *)
FillFront(size) ==
  /\ descFifo # <<>>
  /\ content' = [content EXCEPT ![Head(descFifo)] = size]
  /\ info' = [size |-> size, count |-> Inc(fwCount)]
  /\ fwCount' = Inc(fwCount)
  /\ descFifo' = Tail(descFifo)

FirmwareFill ==
  /\ receiving
  /\ \E size \in 1 .. FullSize : FillFront(size)
  /\ UNCHANGED <<driverVars, callVars, receiving, owner>>

(* resetDevice(): the card forgets its superpage and starts counting anew.  *)
ResetDevice == descFifo' = <<>> /\ fwCount' = Before
-----------------------------------------------------------------------------
(* startDma().  The queues are left as they are.                           *)

(* Mutant: the device keeps its superpage. *)
Restart_NoReset ==
  /\ pc = "idle" /\ dmaState # "STARTED"
  /\ info' = [size |-> 0, count |-> Before] /\ spAvailCount' = Before
  /\ receiving' = TRUE
  /\ UNCHANGED <<descFifo, fwCount, transferQueue, intermediateQueue, readyQueue,
                 callVars, bufferVars>>

(* deviceStartDma() up to startDataReceiving() *)
Restart ==
  /\ pc = "idle" /\ dmaState # "STARTED"
  /\ info' = [size |-> 0, count |-> Before] /\ spAvailCount' = Before
  /\ ResetDevice
  /\ receiving' = TRUE
  /\ UNCHANGED <<transferQueue, intermediateQueue, readyQueue, callVars, bufferVars>>

StartDma == Restart /\ dmaState' = "STARTED"

(* assertLinkUp(), startTrigger() or the loopback command throws: the call  *)
(* is left with the receiver on, and DMA not started.                       *)
StartDmaThrows == Restart /\ UNCHANGED dmaState

(* resetChannel(): refused unless DMA is stopped. *)
ResetChannel ==
  /\ pc = "idle" /\ dmaState = "STOPPED"
  /\ ResetDevice
  /\ UNCHANGED <<driverVars, callVars, receiving, info, bufferVars>>
-----------------------------------------------------------------------------
(* pushSuperpage(): false when stopped, throws when the queue is full.     *)
PushSuperpage(p) ==
  /\ pc = "idle" /\ dmaState = "STARTED" /\ Len(transferQueue) < TransferCap
  /\ owner[p] \in {"user", "dropped"}
  /\ transferQueue' = Append(transferQueue, p)
  /\ owner' = [owner EXCEPT ![p] = "card"]
  /\ content' = [content EXCEPT ![p] = 0]
  /\ UNCHANGED <<dmaState, intermediateQueue, readyQueue, spAvailCount, callVars, fwVars>>

(* popSuperpage(): throws on an empty queue, as getSuperpage() does.        *)
PopSuperpage ==
  /\ pc = "idle" /\ readyQueue # <<>>
  /\ owner' = [owner EXCEPT ![Head(readyQueue).page] = "user"]
  /\ readyQueue' = Tail(readyQueue)
  /\ UNCHANGED <<dmaState, transferQueue, intermediateQueue, spAvailCount, callVars,
                 fwVars, content>>
-----------------------------------------------------------------------------
(* mReadyQueue.write(), whose result is not looked at.                     *)
ToReady(page, isReady, received) ==
  IF Len(readyQueue) < ReadyCap
  THEN /\ readyQueue' = Append(readyQueue, [page |-> page, ready |-> isReady,
                                            received |-> received])
       /\ owner' = [owner EXCEPT ![page] = "ready"]
  ELSE /\ owner' = [owner EXCEPT ![page] = "dropped"]
       /\ UNCHANGED readyQueue

(* Mutant: an overflow of the count is taken for no change. *)
Arrived_NoOverflow == info.count > spAvailCount

(* isASuperpageAvailable(): the difference of the counts, by hand.          *)
Arrived ==
  IF info.count < spAvailCount THEN 1 + info.count > 0
                               ELSE info.count - spAvailCount > 0
-----------------------------------------------------------------------------
(* fillSuperpages(), under a mutex shared by all channels of the process.   *)

FillSuperpages ==
  /\ pc = "idle"
  /\ IF intermediateQueue # <<>>
     THEN spAvailCount' = info.count /\ pc' = IF Arrived THEN "collect" ELSE "push"
     ELSE pc' = "push" /\ UNCHANGED spAvailCount
  /\ UNCHANGED <<dmaState, transferQueue, intermediateQueue, readyQueue, inSuperpage,
                 fwVars, bufferVars>>

Collect ==
  /\ pc = "collect"
  /\ ToReady(Head(intermediateQueue), TRUE, info.size)
  /\ intermediateQueue' = Tail(intermediateQueue)
  /\ pc' = "push"
  /\ UNCHANGED <<dmaState, transferQueue, spAvailCount, inSuperpage, fwVars, content>>

(* pushSuperpageAddressAndSize(): the superpage is the firmware's from the  *)
(* write of the size register on, before mIntermediateQueue has it.         *)
PushToFirmware ==
  /\ pc = "push"
  /\ IF intermediateQueue = <<>> /\ transferQueue # <<>>
     THEN /\ inSuperpage' = <<Head(transferQueue)>>
          /\ transferQueue' = Tail(transferQueue)
          /\ descFifo' = Append(descFifo, Head(transferQueue))
          /\ pc' = "track"
     ELSE /\ pc' = "idle"
          /\ UNCHANGED <<inSuperpage, transferQueue, descFifo>>
  /\ UNCHANGED <<dmaState, intermediateQueue, readyQueue, spAvailCount, receiving, fwCount,
                 info, bufferVars>>

Track ==
  /\ pc = "track"
  /\ intermediateQueue' = IF intermediateQueue = <<>> THEN inSuperpage ELSE intermediateQueue
  /\ inSuperpage' = <<>>
  /\ pc' = "idle"
  /\ UNCHANGED <<dmaState, transferQueue, readyQueue, spAvailCount, fwVars, bufferVars>>
-----------------------------------------------------------------------------
(* stopDma(): STOPPED first; then the source, a flush and the receiver; then *)
(* the superpage the firmware had, filled or not, and all those still        *)
(* waiting.                                                                  *)
StopDma ==
  /\ pc = "idle" /\ dmaState = "STARTED"
  /\ dmaState' = "STOPPED"
  /\ receiving' = FALSE
  /\ \/ \E size \in 1 .. FullSize : FillFront(size)      \* it had data to flush
     \/ UNCHANGED <<descFifo, fwCount, info, content>>   \* it had none
  /\ pc' = "drain"
  /\ UNCHANGED <<transferQueue, intermediateQueue, readyQueue, spAvailCount, inSuperpage,
                 owner>>

DrainIntermediate ==
  /\ pc = "drain" /\ intermediateQueue # <<>>
  /\ spAvailCount' = info.count
  /\ ToReady(Head(intermediateQueue), Arrived, IF Arrived THEN info.size ELSE 0)
  /\ intermediateQueue' = Tail(intermediateQueue)
  /\ UNCHANGED <<dmaState, transferQueue, callVars, fwVars, content>>

(* Mutant: the superpages waiting to be pushed are returned before the one  *)
(* in flight.                                                               *)
DrainTransfer_First ==
  /\ pc = "drain"
  /\ IF transferQueue # <<>>
     THEN /\ ToReady(Head(transferQueue), FALSE, 0)
          /\ transferQueue' = Tail(transferQueue)
          /\ UNCHANGED pc
     ELSE /\ intermediateQueue = <<>> /\ pc' = "idle"
          /\ UNCHANGED <<transferQueue, readyQueue, owner>>
  /\ UNCHANGED <<dmaState, intermediateQueue, spAvailCount, inSuperpage, fwVars, content>>

DrainTransfer ==
  /\ pc = "drain" /\ intermediateQueue = <<>>
  /\ IF transferQueue # <<>>
     THEN /\ ToReady(Head(transferQueue), FALSE, 0)
          /\ transferQueue' = Tail(transferQueue)
          /\ UNCHANGED pc
     ELSE /\ pc' = "idle"
          /\ UNCHANGED <<transferQueue, readyQueue, owner>>
  /\ UNCHANGED <<dmaState, intermediateQueue, spAvailCount, inSuperpage, fwVars, content>>
-----------------------------------------------------------------------------
(* The steps that finish a call once it has begun. *)
CallStep == Collect \/ PushToFirmware \/ Track \/ DrainIntermediate \/ DrainTransfer

Call == \/ StartDma \/ StartDmaThrows \/ ResetChannel \/ StopDma
        \/ (\E p \in Page : PushSuperpage(p)) \/ PopSuperpage \/ FillSuperpages

Next == FirmwareFill \/ CallStep \/ Call

Spec == Init /\ [][Next]_vars

(* A call runs to its end, the user calls fillSuperpages() and popSuperpage() *)
(* in a loop, and detector data keeps filling the firmware's superpage.       *)
FairSpec == /\ Spec
            /\ WF_vars(CallStep)
            /\ WF_vars(FirmwareFill)
            /\ SF_vars(FillSuperpages)
            /\ SF_vars(PopSuperpage)
-----------------------------------------------------------------------------
ReadyEntry == [page : Page, ready : BOOLEAN, received : 0 .. FullSize]

(* Every variable holds a value of its C++ type. *)
TypeOK ==
  /\ dmaState \in {"STOPPED", "STARTED"}
  /\ transferQueue \in Seq(Page) /\ intermediateQueue \in Seq(Page)
  /\ readyQueue \in Seq(ReadyEntry)
  /\ Len(transferQueue) <= TransferCap /\ Len(intermediateQueue) <= 1
  /\ Len(readyQueue) <= ReadyCap
  /\ spAvailCount \in 0 .. CounterMod - 1
  /\ pc \in {"idle", "collect", "push", "track", "drain"}
  /\ inSuperpage \in Seq(Page)
  /\ receiving \in BOOLEAN /\ descFifo \in Seq(Page)
  /\ fwCount \in 0 .. CounterMod - 1
  /\ info \in [size : 0 .. FullSize, count : 0 .. CounterMod - 1]
  /\ content \in [Page -> 0 .. FullSize]
  /\ owner \in [Page -> {"user", "card", "ready", "dropped"}]

(* The superpage the firmware was given last and the driver still expects.  *)
InFlight == intermediateQueue \o inSuperpage

(* "CRORC FW only handles a single superpage at a time": it never has a     *)
(* second one, and while it receives, the one it has is the one the driver  *)
(* expects, never a superpage of an earlier session.                        *)
OneInFlight ==
  /\ Len(InFlight) <= 1
  /\ receiving => Len(descFifo) <= 1 /\ (descFifo # <<>> => descFifo = InFlight)

(* The ready flag tells the truth, across overflows of the 8-bit count,     *)
(* flushes and restarts.                                                    *)
ReadyMeansFilled ==
  \A i \in DOMAIN readyQueue :
    readyQueue[i].ready <=> content[readyQueue[i].page] # 0

(* The size in the info buffer is read some time after the count: it is     *)
(* still the size of the superpage it is stored with.                       *)
ReceivedIsWritten ==
  \A i \in DOMAIN readyQueue :
    readyQueue[i].received = content[readyQueue[i].page]

(* What the driver reports of a superpage is true of that superpage.        *)
ReportedRightly == OneInFlight /\ ReadyMeansFilled /\ ReceivedIsWritten

(* A superpage is never lost sight of: what the user pushed and has not     *)
(* popped, in the order it was pushed.                                      *)
Pages(queue) == [i \in DOMAIN queue |-> queue[i].page]
Line == Pages(readyQueue) \o InFlight \o transferQueue

(* Superpages come back in the order they were pushed, whether they come    *)
(* back filled or not, as long as the ready queue has room for all of them. *)
InOrder ==
  [][\/ Line' = Line
     \/ \E p \in Page : Line' = Append(Line, p)
     \/ Line # <<>> /\ Line' = Tail(Line)]_vars

(* "When the transfer into a superpage is ready, the driver will move it to *)
(* the ready queue": no filled superpage is dropped instead.                *)
FilledIsMovedToReady ==
  [][\A p \in Page : owner[p] = "card" /\ content[p] # 0 => owner'[p] # "dropped"]_vars

(* Every superpage pushed comes back to the user, filled or not. *)
PushedComesBack ==
  \A p \in Page : (owner[p] = "card") ~> (owner[p] \in {"user", "ready"})

(* The channel implements the ownership protocol of DmaChannelInterface. *)
Ownership == INSTANCE SuperpageOwnership WITH
  Room <- ReadyCap,
  filled <- {p \in Page : content[p] # 0},
  ready <- [i \in DOMAIN readyQueue |->
              [page |-> readyQueue[i].page, ready |-> readyQueue[i].ready]]
ImplementsOwnership == Ownership!Spec
=============================================================================
