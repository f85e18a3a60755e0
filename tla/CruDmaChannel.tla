---------------------------- MODULE CruDmaChannel ----------------------------
(***************************************************************************)
(* The DMA channel of a CRU endpoint (CruDmaChannel, its DmaChannelPdaBase *)
(* state machine and the superpage registers of CruBar), with the firmware *)
(* filling superpages between any two register accesses of the driver.     *)
(*                                                                         *)
(* The driver runs in the user's thread: one call at a time.  A call that  *)
(* reads the firmware more than once, or writes it after changing its own  *)
(* queues, takes several steps.  A superpage is a value of Page; the user  *)
(* pushes only superpages it holds, or knows the driver has dropped.       *)
(***************************************************************************)
EXTENDS Naturals, Sequences, FiniteSets

CONSTANTS Page,         \* superpages of the user's DMA buffer
          NumLinks,     \* mLinks.size()
          LinkCap,      \* mLinkQueueCapacity: descriptors of a link's FIFO
          ReadyCap,     \* mReadyQueueCapacity
          CounterMod,   \* 2^32, the width of the superpage counters
          IndexMod,     \* 256, the width of the superpage size index
          FullSize,     \* superpage.getSize(): the size of every superpage
          SizeReported  \* the firmware has the superpage size FIFO (>= v3.4.0)

ASSUME ConstantsAssumption ==
  /\ NumLinks \in Nat \ {0} /\ LinkCap \in Nat \ {0}
  /\ ReadyCap \in Nat \ {0}
  /\ CounterMod \in Nat /\ CounterMod > LinkCap
  /\ IndexMod \in Nat \ {0}
  /\ FullSize \in Nat \ {0}
  /\ SizeReported \in BOOLEAN

VARIABLES
  (* the driver *)
  dmaState,          \* mDmaState
  linkQueue,         \* mLinks[l].queue
  superpageCounter,  \* mLinks[l].superpageCounter
  available,         \* mLinkQueuesTotalAvailable
  readyQueue,        \* mReadyQueue, entries [page, ready, received, link]
  sizeIndex,         \* CruBar::mSuperpageSizeIndexCounter
  (* the call in progress *)
  pc,                \* where it is, "idle" between calls
  stopping,          \* the fillSuperpages() in progress was called by stopDma()
  cur,               \* the link it is working on
  amount,            \* amountAvailable of fillSuperpages()
  outcome,           \* how the last push or fill ended
  (* the firmware *)
  engineOn,          \* the DMA engine runs
  descFifo,          \* descriptors pushed and not filled yet
  fwCount,           \* LINK_SUPERPAGE_COUNT
  fwIndex,           \* index of the next entry of the size FIFO
  sizeFifo,          \* LINK_SUPERPAGE_SIZE, entries [size, index]
  (* the buffer *)
  content,           \* bytes DMA wrote into the page since it was pushed
  owner              \* "user", "card", "ready", or "dropped" by the driver

driverVars == <<dmaState, linkQueue, superpageCounter, available, readyQueue, sizeIndex>>
callVars   == <<pc, stopping, cur, amount, outcome>>
fwVars     == <<engineOn, descFifo, fwCount, fwIndex, sizeFifo>>
bufferVars == <<content, owner>>
vars       == <<driverVars, callVars, fwVars, bufferVars>>

Links == 1 .. NumLinks
TotalSlots == LinkCap * NumLinks

(* Mutant: the counters never wrap. *)
Inc_NoWrap(c, mod) == c + 1

(* Unsigned arithmetic of a given width. *)
Inc(c, mod) == IF c + 1 = mod THEN 0 ELSE c + 1
Diff(a, b)  == IF a >= b THEN a - b ELSE (a + CounterMod) - b

Zero == [l \in Links |-> 0]
Empty == [l \in Links |-> <<>>]

Init == /\ dmaState = "STOPPED"
        /\ linkQueue = Empty /\ superpageCounter = Zero
        /\ available \in {0, TotalSlots + 1}   \* uninitialised until startDma()
        /\ readyQueue = <<>> /\ sizeIndex = Zero
        /\ pc = "idle" /\ stopping = FALSE /\ cur = 1 /\ amount = 0 /\ outcome = "ok"
        /\ engineOn = FALSE /\ descFifo = Empty /\ fwCount = Zero
        /\ fwIndex = Zero /\ sizeFifo = Empty
        /\ content = [p \in Page |-> 0] /\ owner = [p \in Page |-> "user"]
-----------------------------------------------------------------------------
(* The firmware.                                                           *)

(* The engine writes the next superpage of a link - filled, or cut short at *)
(* a time frame boundary - and counts it.                                   *)
FirmwareFill(l) ==
  /\ engineOn /\ descFifo[l] # <<>>
  /\ \E size \in 1 .. FullSize :
       /\ content' = [content EXCEPT ![Head(descFifo[l])] = size]
       /\ sizeFifo' = [sizeFifo EXCEPT ![l] =
            IF SizeReported THEN Append(@, [size |-> size, index |-> fwIndex[l]]) ELSE @]
  /\ fwIndex' = [fwIndex EXCEPT ![l] = Inc(@, IndexMod)]
  /\ descFifo' = [descFifo EXCEPT ![l] = Tail(@)]
  /\ fwCount' = [fwCount EXCEPT ![l] = Inc(@, CounterMod)]
  /\ UNCHANGED <<driverVars, callVars, engineOn, owner>>

(* Mutant: resetInternalCounters() is not called. *)
ResetCru_KeepsIndex ==
  /\ descFifo' = Empty /\ fwCount' = Zero
  /\ fwIndex' = Zero /\ sizeFifo' = Empty
  /\ UNCHANGED sizeIndex

(* resetCru(): the card forgets descriptors and counts, CruBar its indices. *)
ResetCru ==
  /\ descFifo' = Empty /\ fwCount' = Zero
  /\ fwIndex' = Zero /\ sizeFifo' = Empty
  /\ sizeIndex' = Zero
-----------------------------------------------------------------------------
(* startDma() and resetChannel().                                          *)

(* Whatever the queues still hold is dropped from them, not returned. *)
DropQueued ==
  owner' = [p \in Page |-> IF owner[p] \in {"card", "ready"} THEN "dropped" ELSE owner[p]]

(* Mutant: the card is not reset. *)
StartDma_NoReset ==
  /\ pc = "idle" /\ dmaState # "STARTED"
  /\ linkQueue' = Empty /\ superpageCounter' = Zero
  /\ readyQueue' = <<>> /\ DropQueued
  /\ available' = TotalSlots
  /\ engineOn' = TRUE
  /\ dmaState' = "STARTED" /\ outcome' = "ok"
  /\ UNCHANGED <<sizeIndex, pc, stopping, cur, amount, descFifo, fwCount, fwIndex,
                 sizeFifo, content>>

StartDma ==
  /\ pc = "idle" /\ dmaState # "STARTED"
  /\ ResetCru
  /\ linkQueue' = Empty /\ superpageCounter' = Zero
  /\ readyQueue' = <<>> /\ DropQueued
  /\ available' = TotalSlots
  /\ engineOn' = TRUE
  /\ dmaState' = "STARTED"
  /\ outcome' = "ok"
  /\ UNCHANGED <<pc, stopping, cur, amount, content>>

(* resetChannel(Internal): refused unless DMA is stopped. *)
ResetChannel ==
  /\ pc = "idle" /\ dmaState = "STOPPED"
  /\ ResetCru
  /\ UNCHANGED <<dmaState, linkQueue, superpageCounter, available, readyQueue,
                 callVars, engineOn, bufferVars>>
-----------------------------------------------------------------------------
(* pushSuperpage().                                                        *)

(* Mutant: every superpage goes to the first link. *)
NextLink_First == 1

(* getNextLinkIndex(): the first of the links with the shortest queue. *)
NextLink == CHOOSE l \in Links :
              \A m \in Links : \/ Len(linkQueue[l]) < Len(linkQueue[m])
                               \/ Len(linkQueue[l]) = Len(linkQueue[m]) /\ l <= m

(* Why the driver does not take a superpage: pushSuperpage() returns false  *)
(* when stopped and throws otherwise.                                       *)
Obstacle ==
  IF dmaState # "STARTED" THEN "stopped"
  ELSE IF available = 0 THEN "transferQueueFull"
  ELSE IF Len(linkQueue[NextLink]) >= LinkCap THEN "linkQueueFull"
  ELSE "none"

PushRefused ==
  /\ pc = "idle" /\ Obstacle # "none"
  /\ outcome' = Obstacle
  /\ UNCHANGED <<driverVars, pc, stopping, cur, amount, fwVars, bufferVars>>

(* pushSuperpageToLink(): the driver's own queue first ... *)
PushSuperpage(p) ==
  /\ pc = "idle" /\ owner[p] \in {"user", "dropped"} /\ Obstacle = "none"
  /\ available' = available - 1
  /\ linkQueue' = [linkQueue EXCEPT ![NextLink] = Append(@, p)]
  /\ cur' = NextLink
  /\ owner' = [owner EXCEPT ![p] = "card"]
  /\ content' = [content EXCEPT ![p] = 0]
  /\ pc' = "descriptor" /\ outcome' = "ok"
  /\ UNCHANGED <<dmaState, superpageCounter, readyQueue, sizeIndex, stopping, amount,
                 fwVars>>

(* ... then pushSuperpageDescriptor(), whose last register write commits.  *)
PushDescriptor ==
  /\ pc = "descriptor"
  /\ descFifo' = [descFifo EXCEPT ![cur] =
                    Append(@, linkQueue[cur][Len(linkQueue[cur])])]
  /\ pc' = "idle"
  /\ UNCHANGED <<driverVars, stopping, cur, amount, outcome, engineOn, fwCount, fwIndex,
                 sizeFifo, bufferVars>>
-----------------------------------------------------------------------------
(* popSuperpage().  On an empty queue it throws and changes nothing, as     *)
(* getSuperpage() does.                                                     *)

PopSuperpage ==
  /\ pc = "idle" /\ readyQueue # <<>>
  /\ owner' = [owner EXCEPT ![Head(readyQueue).page] = "user"]
  /\ readyQueue' = Tail(readyQueue)
  /\ UNCHANGED <<dmaState, linkQueue, superpageCounter, available, sizeIndex,
                 callVars, fwVars, content>>
-----------------------------------------------------------------------------
(* fillSuperpages(), which the user calls in a loop and stopDma() once.     *)

FillSuperpages ==
  /\ pc = "idle"
  /\ pc' = "fill" /\ cur' = 1 /\ outcome' = "ok"
  /\ UNCHANGED <<driverVars, stopping, amount, fwVars, bufferVars>>

(* getSuperpageCount() against the driver's own counter, in 32 bits. *)
Arrived == Diff(fwCount[cur], superpageCounter[cur])

ReadCount ==
  /\ pc = "fill" /\ Arrived <= Len(linkQueue[cur])
  /\ amount' = Arrived /\ pc' = "transfer"
  /\ UNCHANGED <<driverVars, stopping, cur, outcome, fwVars, bufferVars>>

(* "FATAL: Firmware reported more superpages available" - thrown out of the *)
(* whole call, out of stopDma() too.                                        *)
ReadCountFatal ==
  /\ pc = "fill" /\ Arrived > Len(linkQueue[cur])
  /\ pc' = "idle" /\ stopping' = FALSE /\ outcome' = "fatal"
  /\ UNCHANGED <<driverVars, cur, amount, fwVars, bufferVars>>

(* Mutant: one slot of the ready queue is never used. *)
ReadyFull_OffByOne == Len(readyQueue) + 1 >= ReadyCap

ReadyFull == Len(readyQueue) >= ReadyCap

(* Mutant: the slot is not credited. *)
MoveToReady_NoCredit(l, isReady, received) ==
  LET page == Head(linkQueue[l])
  IN /\ ~ReadyFull
     /\ owner' = [owner EXCEPT ![page] = "ready"]
     /\ readyQueue' = Append(readyQueue, [page |-> page, ready |-> isReady,
                                          received |-> received, link |-> l])
     /\ linkQueue' = [linkQueue EXCEPT ![l] = Tail(@)]
     /\ superpageCounter' = [superpageCounter EXCEPT ![l] = Inc(@, CounterMod)]
     /\ UNCHANGED available
(* transferSuperpageFromLinkToReady(): pops link l whether or not the ready *)
(* queue takes the entry (write()'s result is not looked at).               *)
MoveToReady(l, isReady, received) ==
  LET page == Head(linkQueue[l])
  IN /\ IF ReadyFull
        THEN /\ owner' = [owner EXCEPT ![page] = "dropped"]
             /\ UNCHANGED readyQueue
        ELSE /\ owner' = [owner EXCEPT ![page] = "ready"]
             /\ readyQueue' = Append(readyQueue, [page |-> page, ready |-> isReady,
                                                  received |-> received, link |-> l])
     /\ linkQueue' = [linkQueue EXCEPT ![l] = Tail(@)]
     /\ superpageCounter' = [superpageCounter EXCEPT ![l] = Inc(@, CounterMod)]
     /\ available' = available + 1

(* getSuperpageSize() waits until the size FIFO shows the entry it expects. *)
SizeShown == /\ sizeFifo[cur] # <<>>
             /\ Head(sizeFifo[cur]).index = sizeIndex[cur]

Transfer ==
  /\ pc = "transfer" /\ amount > 0 /\ ~ReadyFull
  /\ IF SizeReported
     THEN /\ SizeShown
          /\ MoveToReady(cur, TRUE, Head(sizeFifo[cur]).size)
          /\ sizeFifo' = [sizeFifo EXCEPT ![cur] = Tail(@)]
          /\ sizeIndex' = [sizeIndex EXCEPT ![cur] = Inc(@, IndexMod)]
     ELSE /\ MoveToReady(cur, TRUE, FullSize)
          /\ UNCHANGED <<sizeFifo, sizeIndex>>
  /\ amount' = amount - 1
  /\ UNCHANGED <<dmaState, pc, stopping, cur, outcome, engineOn, descFifo, fwCount,
                 fwIndex, content>>

(* Mutant: the loop over the links ends one link early. *)
LinkDone_OffByOne ==
  /\ pc = "transfer" /\ (amount = 0 \/ ReadyFull)
  /\ IF cur + 1 < NumLinks
     THEN cur' = cur + 1 /\ pc' = "fill"
     ELSE cur' = 1 /\ pc' = IF stopping THEN "reclaim" ELSE "idle"
  /\ UNCHANGED <<driverVars, stopping, amount, outcome, fwVars, bufferVars>>

(* The while loop ends, or breaks off because the ready queue is full. *)
LinkDone ==
  /\ pc = "transfer" /\ (amount = 0 \/ ReadyFull)
  /\ IF cur < NumLinks
     THEN cur' = cur + 1 /\ pc' = "fill"
     ELSE cur' = 1 /\ pc' = IF stopping THEN "reclaim" ELSE "idle"
  /\ UNCHANGED <<driverVars, stopping, amount, outcome, fwVars, bufferVars>>
-----------------------------------------------------------------------------
(* stopDma(): STOPPED first, then the engine, then a last fillSuperpages(), *)
(* then reclaimSuperpages().                                                *)

(* Mutant: the engine is not stopped before the last fillSuperpages(). *)
StopDma_EngineOn ==
  /\ pc = "idle" /\ dmaState = "STARTED"
  /\ dmaState' = "STOPPED"
  /\ pc' = "fill" /\ stopping' = TRUE /\ cur' = 1 /\ outcome' = "ok"
  /\ UNCHANGED <<linkQueue, superpageCounter, available, readyQueue, sizeIndex, amount,
                 fwVars, bufferVars>>

StopDma ==
  /\ pc = "idle" /\ dmaState = "STARTED"
  /\ dmaState' = "STOPPED"
  /\ engineOn' = FALSE
  /\ pc' = "fill" /\ stopping' = TRUE /\ cur' = 1 /\ outcome' = "ok"
  /\ UNCHANGED <<linkQueue, superpageCounter, available, readyQueue, sizeIndex, amount,
                 descFifo, fwCount, fwIndex, sizeFifo, bufferVars>>

ReclaimSuperpage ==
  /\ pc = "reclaim" /\ linkQueue[cur] # <<>>
  /\ MoveToReady(cur, FALSE, 0)
  /\ UNCHANGED <<dmaState, sizeIndex, callVars, fwVars, content>>

(* Mutant: only the first link is reclaimed. *)
ReclaimNext_FirstOnly ==
  /\ pc = "reclaim" /\ linkQueue[cur] = <<>>
  /\ cur' = 1 /\ pc' = "idle" /\ stopping' = FALSE
  /\ UNCHANGED <<driverVars, amount, outcome, fwVars, bufferVars>>

ReclaimNext ==
  /\ pc = "reclaim" /\ linkQueue[cur] = <<>>
  /\ IF cur < NumLinks
     THEN cur' = cur + 1 /\ UNCHANGED <<pc, stopping>>
     ELSE cur' = 1 /\ pc' = "idle" /\ stopping' = FALSE
  /\ UNCHANGED <<driverVars, amount, outcome, fwVars, bufferVars>>
-----------------------------------------------------------------------------
Firmware == \E l \in Links : FirmwareFill(l)

(* The steps that finish a call once it has begun. *)
CallStep == \/ PushDescriptor
            \/ ReadCount \/ ReadCountFatal \/ Transfer \/ LinkDone
            \/ ReclaimSuperpage \/ ReclaimNext

Call == \/ StartDma \/ ResetChannel \/ StopDma
        \/ PushRefused \/ (\E p \in Page : PushSuperpage(p))
        \/ PopSuperpage \/ FillSuperpages

Next == Firmware \/ CallStep \/ Call

Spec == Init /\ [][Next]_vars

(* A call runs to its end, and the user goes on calling fillSuperpages()    *)
(* and popSuperpage() ("Call in a loop") whatever else it does in between.  *)
FairSpec == /\ Spec
            /\ WF_vars(CallStep)
            /\ SF_vars(FillSuperpages)
            /\ SF_vars(PopSuperpage)
-----------------------------------------------------------------------------
Elements(s) == {s[i] : i \in DOMAIN s}

ReadyEntry == [page : Page, ready : BOOLEAN, received : 0 .. FullSize, link : Links]

(* Every variable holds a value of its C++ type. *)
TypeOK ==
  /\ dmaState \in {"STOPPED", "STARTED"}
  /\ linkQueue \in [Links -> Seq(Page)]
  /\ superpageCounter \in [Links -> 0 .. CounterMod - 1]
  /\ available \in Nat
  /\ readyQueue \in Seq(ReadyEntry)
  /\ sizeIndex \in [Links -> 0 .. IndexMod - 1]
  /\ pc \in {"idle", "descriptor", "fill", "transfer", "reclaim"}
  /\ stopping \in BOOLEAN /\ cur \in Links /\ amount \in Nat
  /\ outcome \in {"ok", "stopped", "transferQueueFull", "linkQueueFull", "fatal"}
  /\ engineOn \in BOOLEAN
  /\ descFifo \in [Links -> Seq(Page)]
  /\ fwCount \in [Links -> 0 .. CounterMod - 1]
  /\ fwIndex \in [Links -> 0 .. IndexMod - 1]
  /\ sizeFifo \in [Links -> Seq([size : 1 .. FullSize, index : 0 .. IndexMod - 1])]
  /\ content \in [Page -> 0 .. FullSize]
  /\ owner \in [Page -> {"user", "card", "ready", "dropped"}]

(* The slots of the link queues that are in use. *)
UsedSlots == {s \in Links \X (1 .. LinkCap) : s[2] <= Len(linkQueue[s[1]])}

(* mLinkQueuesTotalAvailable counts exactly the free slots: it is decreased *)
(* by pushes, increased by transfers and reclaims, and never adrift, so     *)
(* getTransferQueueAvailable() is what the user can still push.             *)
SlotAccounting ==
  dmaState = "STARTED" => available + Cardinality(UsedSlots) = TotalSlots

(* While DMA runs, the queue of the link chosen for a push is never full    *)
(* ("This should never happen") and no count the firmware shows exceeds     *)
(* what the driver queued, across wrap-arounds of the 32-bit counters.      *)
NoImpossibleError ==
  dmaState = "STARTED" => outcome \notin {"linkQueueFull", "fatal"}

(* The firmware can only write superpages that are still queued for it, in  *)
(* the order of the queue: never one the user holds or will be handed next. *)
NoStrayDma ==
  engineOn => \A l \in Links :
    LET q == linkQueue[l]  d == descFifo[l]
    IN /\ Len(d) <= Len(q)
       /\ \A i \in 1 .. Len(d) : pc # "descriptor" \/ cur # l
                                 => d[i] = q[Len(q) - Len(d) + i]
       /\ \A i \in DOMAIN d : owner[d[i]] = "card"

(* The ready flag tells the truth: it is set exactly on the superpages DMA  *)
(* has completed, however stopDma(), a full ready queue and the firmware    *)
(* interleave.                                                              *)
ReadyMeansFilled ==
  \A i \in DOMAIN readyQueue :
    readyQueue[i].ready <=> content[readyQueue[i].page] # 0

(* A superpage is handed back with the number of bytes DMA wrote into that  *)
(* superpage (the whole of it on firmware without the size FIFO): counts    *)
(* and size FIFO stay in step.                                              *)
ReceivedIsWritten ==
  \A i \in DOMAIN readyQueue :
    readyQueue[i].ready =>
      readyQueue[i].received = IF SizeReported THEN content[readyQueue[i].page] ELSE FullSize

(* getSuperpageSize() never waits for an index that is not coming: the loop *)
(* on the size FIFO has no way out.                                         *)
SizeIsComing ==
  pc = "transfer" /\ amount > 0 /\ ~ReadyFull /\ SizeReported => SizeShown

(* The sizes read are those of the superpages they are stored with. *)
SizesInStep == ReceivedIsWritten /\ SizeIsComing

(* stopDma() leaves no superpage behind in a link queue. *)
StoppedMeansReclaimed ==
  dmaState = "STOPPED" /\ ~stopping => \A l \in Links : linkQueue[l] = <<>>

(* fillSuperpages() never finds more superpages than it queued - a stopped  *)
(* channel included.                                                        *)
NeverFatal == outcome # "fatal"

(* A call returns: no loop of fillSuperpages() or stopDma() spins.          *)
CallsReturn == []<>(pc = "idle")

(* A superpage with data reaches the user, unless a restart drops it first. *)
FilledIsDelivered ==
  \A p \in Page : (owner[p] = "card" /\ content[p] # 0) ~> (owner[p] \in {"user", "dropped"})

(* The channel implements the ownership protocol of DmaChannelInterface. *)
Ownership == INSTANCE SuperpageOwnership WITH
  Room <- ReadyCap,
  filled <- {p \in Page : content[p] # 0},
  ready <- [i \in DOMAIN readyQueue |->
              [page |-> readyQueue[i].page, ready |-> readyQueue[i].ready]]
ImplementsOwnership == Ownership!Spec
=============================================================================
