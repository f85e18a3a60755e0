-------------------------- MODULE ChannelLifecycle --------------------------
(***************************************************************************)
(* Opening and closing DMA channels from several processes: the locks, the *)
(* DMA buffers registered with the PDA kernel module, crashes in between,  *)
(* and o2-roc-cleanup (DmaChannelBase, DmaChannelPdaBase, the buffer of    *)
(* CrorcDmaChannel, Pda::PdaDmaBuffer, freePdaDmaBuffers, ProgramCleanup). *)
(*                                                                         *)
(* A slot is what one DMA channel lock protects: a CRU endpoint, or a      *)
(* channel of a C-RORC.  Its buffers outlive the process that registered   *)
(* them, its locks (abstract sockets) do not.  A call into PDA takes time: *)
(* it is entered and left in two steps.                                    *)
(***************************************************************************)
EXTENDS FiniteSets, Naturals

CONSTANTS Proc,       \* processes
          Slot,       \* channels that can be opened
          Buf,        \* buffers of a channel: "pages", for a C-RORC "fifo" too
          Nobody,
          UserStops   \* users call stopDma() before they close

ASSUME ConstantsAssumption ==
  /\ Nobody \notin Proc
  /\ Buf \in {{"pages"}, {"pages", "fifo"}}
  /\ UserStops \in BOOLEAN

VARIABLES
  lock,        \* who has the DMA channel lock of a slot
  pdaLock,     \* who has the global PdaLock
  registered,  \* who registered a buffer of a slot with PDA
  pc,          \* where a process is
  op,          \* the PDA operation it is in
  slot,        \* the slot it works on
  dmaInto      \* whose buffer the card of a slot writes to

vars == <<lock, pdaLock, registered, pc, op, slot, dmaInto>>

(* Opening and closing, in the order of the constructors and destructors. *)
Opening == {"freeOld", "register pages", "register fifo"}
Closing == {"delete fifo", "delete pages", "freeRest"}
Op == Opening \cup Closing \cup {"cleanup"}

Init == /\ lock = [s \in Slot |-> Nobody] /\ pdaLock = Nobody
        /\ registered = [s \in Slot |-> [b \in Buf |-> Nobody]]
        /\ pc = [p \in Proc |-> "idle"] /\ op = [p \in Proc |-> "freeOld"]
        /\ slot \in [Proc -> Slot]
        /\ dmaInto = [s \in Slot |-> Nobody]

Goto(p, place)  == pc' = [pc EXCEPT ![p] = place]
Start(p, o)     == Goto(p, "wait") /\ op' = [op EXCEPT ![p] = o]
LocksWithout(p) == [s \in Slot |-> IF lock[s] = p THEN Nobody ELSE lock[s]]
-----------------------------------------------------------------------------
(* The constructor of DmaChannelBase takes the channel lock without waiting *)
(* (or throws), and then frees what a crashed process left registered.      *)

(* Mutant: it frees and registers whether or not it has the lock. *)
Open_Unlocked(p, s) ==
  /\ pc[p] = "idle"
  /\ lock' = [lock EXCEPT ![s] = p]
  /\ slot' = [slot EXCEPT ![p] = s]
  /\ Start(p, "freeOld")
  /\ UNCHANGED <<pdaLock, registered, dmaInto>>

Open(p, s) ==
  /\ pc[p] = "idle" /\ lock[s] = Nobody
  /\ lock' = [lock EXCEPT ![s] = p]
  /\ slot' = [slot EXCEPT ![p] = s]
  /\ Start(p, "freeOld")
  /\ UNCHANGED <<pdaLock, registered, dmaInto>>

(* The destructors: members first, the base last. *)
Close(p) ==
  /\ pc[p] = "open" /\ (UserStops => dmaInto[slot[p]] # p)
  /\ Start(p, IF "fifo" \in Buf THEN "delete fifo" ELSE "delete pages")
  /\ UNCHANGED <<lock, pdaLock, registered, slot, dmaInto>>

(* startDma() and stopDma() of an open channel *)
StartDma(p) ==
  /\ pc[p] = "open"
  /\ dmaInto' = [dmaInto EXCEPT ![slot[p]] = p]
  /\ UNCHANGED <<lock, pdaLock, registered, pc, op, slot>>

StopDma(p) ==
  /\ pc[p] = "open" /\ dmaInto[slot[p]] = p
  /\ dmaInto' = [dmaInto EXCEPT ![slot[p]] = Nobody]
  /\ UNCHANGED <<lock, pdaLock, registered, pc, op, slot>>
-----------------------------------------------------------------------------
(* Every PDA operation begins with `try { Pda::PdaLock lock{}; } catch ...`, *)
(* which waits for the global lock and gives it back at the end of the try   *)
(* block, before the operation.                                              *)

TakePdaLock(p) ==
  /\ pc[p] = "wait" /\ pdaLock = Nobody
  /\ pdaLock' = p /\ Goto(p, "guard")
  /\ UNCHANGED <<lock, registered, op, slot, dmaInto>>

DropPdaLock(p) ==
  /\ pc[p] = "guard"
  /\ pdaLock' = Nobody /\ Goto(p, "call")
  /\ UNCHANGED <<lock, registered, op, slot, dmaInto>>

EnterPda(p) ==
  /\ pc[p] = "call" /\ Goto(p, "pda")
  /\ UNCHANGED <<lock, pdaLock, registered, op, slot, dmaInto>>

(* The wait ends after 15 seconds with an exception.  In the first          *)
(* constructor it only releases the channel lock; in a later one it runs    *)
(* the destructors of the parts built before; in a destructor it terminates *)
(* the process.                                                             *)
Unwound == [o \in {"register pages", "register fifo"} |->
              IF o = "register fifo" THEN "delete pages" ELSE "freeRest"]

Leave(p) == Goto(p, "idle") /\ lock' = LocksWithout(p)

(* Mutants: a constructor leaves without the destructors; only the first   *)
(* wait has a timeout.                                                      *)
WaitTimesOut_NoUnwinding(p) ==
  /\ pc[p] = "wait" /\ op[p] \in Opening \cup {"cleanup"}
  /\ Leave(p)
  /\ UNCHANGED <<pdaLock, registered, op, slot, dmaInto>>
WaitTimesOut_FirstOnly(p) ==
  /\ pc[p] = "wait" /\ op[p] \in {"freeOld", "cleanup"}
  /\ Leave(p)
  /\ UNCHANGED <<pdaLock, registered, op, slot, dmaInto>>

WaitTimesOut(p) ==
  /\ pc[p] = "wait" /\ op[p] \in Opening \cup {"cleanup"}
  /\ IF op[p] \in {"freeOld", "cleanup"}
     THEN Leave(p) /\ UNCHANGED op
     ELSE Start(p, Unwound[op[p]]) /\ UNCHANGED lock
  /\ UNCHANGED <<pdaLock, registered, slot, dmaInto>>
-----------------------------------------------------------------------------
(* The operations take effect.                                             *)

Registered(p, b, q) == registered' = [registered EXCEPT ![slot[p]][b] = q]

(* Mutant: freeing does not look at the channel a buffer belongs to. *)
FreeBuffers_AnyChannel(s) == registered' = [t \in Slot |-> [b \in Buf |-> Nobody]]

(* freePdaDmaBuffers(): every buffer of this channel, whoever registered it *)
FreeBuffers(s) == registered' = [registered EXCEPT ![s] = [b \in Buf |-> Nobody]]

FreedOld(p) ==
  /\ pc[p] = "pda" /\ op[p] = "freeOld"
  /\ FreeBuffers(slot[p])
  /\ Start(p, "register pages")
  /\ UNCHANGED <<lock, pdaLock, slot, dmaInto>>

(* PciDevice_registerDMABuffer(); one registered under the same identifier  *)
(* is deleted first.  A later check of the constructor may throw and delete *)
(* the buffer again.                                                        *)
RegisteredPages(p) ==
  /\ pc[p] = "pda" /\ op[p] = "register pages"
  /\ Registered(p, "pages", p)
  /\ \/ "fifo" \in Buf /\ Start(p, "register fifo")
     \/ "fifo" \notin Buf /\ Goto(p, "open") /\ UNCHANGED op
     \/ Start(p, "delete pages")
  /\ UNCHANGED <<lock, pdaLock, slot, dmaInto>>

RegisteredFifo(p) ==
  /\ pc[p] = "pda" /\ op[p] = "register fifo"
  /\ Registered(p, "fifo", p)
  /\ Goto(p, "open")
  /\ UNCHANGED <<lock, pdaLock, op, slot, dmaInto>>

(* The registration fails, or a check of the scatter-gather list does.      *)
RegisterThrows(p) ==
  /\ pc[p] = "pda" /\ op[p] \in DOMAIN Unwound
  /\ Start(p, Unwound[op[p]])
  /\ UNCHANGED <<lock, pdaLock, registered, slot, dmaInto>>

Deleted(p) ==
  /\ pc[p] = "pda" /\ op[p] \in {"delete fifo", "delete pages"}
  /\ IF op[p] = "delete fifo"
     THEN Registered(p, "fifo", Nobody) /\ Start(p, "delete pages")
     ELSE Registered(p, "pages", Nobody) /\ Start(p, "freeRest")
  /\ UNCHANGED <<lock, pdaLock, slot, dmaInto>>

(* The destructor of DmaChannelBase frees what is left, then its member      *)
(* mInterprocessLock is released.                                            *)
Closed(p) ==
  /\ pc[p] = "pda" /\ op[p] = "freeRest"
  /\ FreeBuffers(slot[p])
  /\ Leave(p)
  /\ UNCHANGED <<pdaLock, op, slot, dmaInto>>
-----------------------------------------------------------------------------
(* o2-roc-cleanup takes all channel locks, one after the other, or gives up; *)
(* only then it frees every buffer of every card.                            *)

StartCleanup(p) ==
  /\ pc[p] = "idle" /\ Goto(p, "grab")
  /\ UNCHANGED <<lock, pdaLock, registered, op, slot, dmaInto>>

(* Mutant: it goes on without the locks it could not get. *)
GrabLock_Ignored(p, s) ==
  /\ pc[p] = "grab" /\ lock[s] # p
  /\ IF lock[s] = Nobody
     THEN /\ lock' = [lock EXCEPT ![s] = p]
          /\ UNCHANGED <<pc, op>>
     ELSE Start(p, "cleanup") /\ UNCHANGED lock
  /\ UNCHANGED <<pdaLock, registered, slot, dmaInto>>

GrabLock(p, s) ==
  /\ pc[p] = "grab" /\ lock[s] # p
  /\ IF lock[s] = Nobody
     THEN /\ lock' = [lock EXCEPT ![s] = p]
          /\ UNCHANGED pc
     ELSE Leave(p)
  /\ UNCHANGED <<pdaLock, registered, op, slot, dmaInto>>

GrabbedAll(p) ==
  /\ pc[p] = "grab" /\ \A s \in Slot : lock[s] = p
  /\ Start(p, "cleanup")
  /\ UNCHANGED <<lock, pdaLock, registered, slot, dmaInto>>

CleanedUp(p) ==
  /\ pc[p] = "pda" /\ op[p] = "cleanup"
  /\ registered' = [s \in Slot |-> [b \in Buf |-> Nobody]]
  /\ Leave(p)
  /\ UNCHANGED <<pdaLock, op, slot, dmaInto>>
-----------------------------------------------------------------------------
(* A process dies.  The kernel closes its sockets, and so releases its      *)
(* locks; the PDA module keeps its buffers.                                 *)

(* Mutant: the locks are files, and stay. *)
Die_LocksStay(p) ==
  /\ Goto(p, "dead")
  /\ UNCHANGED <<lock, pdaLock, registered, op, slot, dmaInto>>

Die(p) ==
  /\ Goto(p, "dead") /\ lock' = LocksWithout(p)
  /\ pdaLock' = IF pdaLock = p THEN Nobody ELSE pdaLock
  /\ UNCHANGED <<registered, op, slot, dmaInto>>

Crash(p) == pc[p] \notin {"idle", "dead"} /\ Die(p)

(* An exception in a destructor terminates the process. *)
DestructorThrows(p) == pc[p] = "wait" /\ op[p] \in Closing /\ Die(p)

Call(p) == \/ TakePdaLock(p) \/ DropPdaLock(p) \/ EnterPda(p)
           \/ WaitTimesOut(p) \/ DestructorThrows(p)
           \/ FreedOld(p) \/ RegisteredPages(p) \/ RegisteredFifo(p) \/ RegisterThrows(p)
           \/ Deleted(p) \/ Closed(p) \/ CleanedUp(p)
           \/ GrabbedAll(p) \/ \E s \in Slot : GrabLock(p, s)

User(p) == \/ \E s \in Slot : Open(p, s)
           \/ Close(p) \/ StartDma(p) \/ StopDma(p) \/ StartCleanup(p)

(* Nobody is left to open a channel. *)
AllDead == (\A p \in Proc : pc[p] = "dead") /\ UNCHANGED vars

Next == AllDead \/ \E p \in Proc : Call(p) \/ User(p) \/ Crash(p)

Safety == Init /\ [][Next]_vars

(* A process that is in a call goes on. *)
Spec == Safety /\ \A p \in Proc : WF_vars(Call(p))
-----------------------------------------------------------------------------

(* Types; the PDA lock is held at its guard only, a channel lock by a live   *)
(* process in a call or with the channel open.                               *)
TypeOK ==
  /\ lock \in [Slot -> Proc \cup {Nobody}] /\ pdaLock \in Proc \cup {Nobody}
  /\ registered \in [Slot -> [Buf -> Proc \cup {Nobody}]]
  /\ pc \in [Proc -> {"idle", "wait", "guard", "call", "pda", "open", "grab", "dead"}]
  /\ op \in [Proc -> Op] /\ slot \in [Proc -> Slot]
  /\ dmaInto \in [Slot -> Proc \cup {Nobody}]
  /\ \A p \in Proc : pdaLock = p <=> pc[p] = "guard"
  /\ \A p \in Proc, s \in Slot : lock[s] = p => pc[p] \notin {"idle", "dead"}

(* While a channel is open its buffers stay registered, whatever the others *)
(* open, close, clean up, or leave behind when they crash.                  *)
LiveBuffersStay ==
  \A p \in Proc : pc[p] = "open" => \A b \in Buf : registered[slot[p]][b] = p

(* A buffer is registered only under the lock of its channel: whoever       *)
(* releases the lock has deleted its buffers, unless it died.               *)
BuffersAreGuarded ==
  \A s \in Slot, b \in Buf :
     LET q == registered[s][b] IN q # Nobody => (lock[s] = q \/ pc[q] = "dead")

(* A registration is taken away by the process that made it, in its own PDA *)
(* operation, or after its death: never by another channel, another process *)
(* opening the same one, or a cleanup.                                      *)
TakenFromTheDead ==
  [][\A s \in Slot, b \in Buf :
        LET q == registered[s][b] IN
        (q # Nobody /\ registered'[s][b] # q) =>
           (pc[q] = "dead" \/ (pc[q] = "pda" /\ pc'[q] # "pda"))]_vars

(* The card never writes to memory that has been given back, as long as no  *)
(* process dies with its DMA running and users stop DMA before they close.  *)
CardWritesOnlyRegistered ==
  \A s \in Slot : LET q == dmaInto[s] IN
     (q # Nobody /\ UserStops) => (registered[s]["pages"] = q \/ pc[q] = "dead")

(* Opening, closing and cleaning up come to an end, however many processes  *)
(* compete for the PDA lock: the wait for it is bounded.                    *)
CallsReturn == \A p \in Proc :
  (pc[p] \in {"wait", "guard", "call", "pda", "grab"}) ~> (pc[p] \in {"idle", "open", "dead"})

(* What Pda/README.md says of PdaLock: it is there "to prevent" that "multiple *)
(* DMA buffers are concurrently created/destroyed".                            *)
OnePdaCaller == \A p, q \in Proc : (pc[p] = "pda" /\ pc[q] = "pda") => p = q
=============================================================================
