----------------------- MODULE ChannelLifecycleProofs -----------------------
(***************************************************************************)
(* Safety of opening and closing channels, for any number of processes and *)
(* channels.  The properties rest on who has a channel lock in which part  *)
(* of the constructors and destructors, and on what is registered there:   *)
(* HoldsLocks and OwnsOnlyHere below.                                        *)
(***************************************************************************)
EXTENDS ChannelLifecycle, TLAPS

InCall(p) == pc[p] \in {"wait", "guard", "call", "pda"}
OnSlot(p) == pc[p] = "open" \/ (InCall(p) /\ op[p] # "cleanup")

(* The lock of its slot is held from the first to the last operation on it, *)
(* all locks while the cleanup frees.                                       *)
HoldsLocks(p) == /\ OnSlot(p) => lock[slot[p]] = p
                 /\ InCall(p) /\ op[p] = "cleanup" => \A s \in Slot : lock[s] = p

(* A live process has buffers registered at its own slot only, after it has *)
(* registered the first and before it has freed the last.                   *)
MayOwn(p) == \/ pc[p] = "open"
             \/ InCall(p) /\ op[p] \in {"register fifo", "delete fifo", "delete pages", "freeRest"}
OwnsOnlyHere(p) ==
  \A s \in Slot, b \in Buf :
     registered[s][b] = p /\ pc[p] # "dead" => s = slot[p] /\ MayOwn(p)

(* The first buffer is there while the second is being registered, and all  *)
(* are there while the channel is open.                                     *)
HasBuffers(p) ==
  /\ InCall(p) /\ op[p] = "register fifo" => registered[slot[p]]["pages"] = p
  /\ pc[p] = "open" => \A b \in Buf : registered[slot[p]][b] = p

(* A user that stops DMA before closing has it running only while open. *)
DmaOnlyWhileOpen(p) ==
  \A s \in Slot :
     UserStops /\ dmaInto[s] = p /\ pc[p] # "dead" => pc[p] = "open" /\ slot[p] = s

Inv(p) == HoldsLocks(p) /\ OwnsOnlyHere(p) /\ HasBuffers(p) /\ DmaOnlyWhileOpen(p)

IInv == TypeOK /\ \A p \in Proc : Inv(p)
-----------------------------------------------------------------------------
(* The steps of Next, by name. *)
Step(p) ==
  \/ \E s \in Slot : Open(p, s)
  \/ \E s \in Slot : GrabLock(p, s)
  \/ Close(p) \/ StartDma(p) \/ StopDma(p) \/ StartCleanup(p)
  \/ TakePdaLock(p) \/ DropPdaLock(p) \/ EnterPda(p) \/ WaitTimesOut(p)
  \/ FreedOld(p) \/ RegisteredPages(p) \/ RegisteredFifo(p) \/ RegisterThrows(p)
  \/ Deleted(p) \/ Closed(p) \/ CleanedUp(p) \/ GrabbedAll(p)
  \/ pc[p] # "dead" /\ Die(p)

LEMMA StepCases == [Next]_vars => UNCHANGED vars \/ \E p \in Proc : Step(p)
BY DEF Next, AllDead, Call, User, Crash, DestructorThrows, Step

LEMMA TypeInit == Init => TypeOK
BY ConstantsAssumption DEF Init, TypeOK, Op, Opening

(* Leaving a call gives the channel locks back: no one else's, and all of   *)
(* one's own.                                                               *)
LEMMA LeaveType ==
  ASSUME TypeOK, NEW p \in Proc, pc[p] # "guard", Leave(p),
         registered' \in [Slot -> [Buf -> Proc \cup {Nobody}]],
         UNCHANGED <<pdaLock, op, slot, dmaInto>>
  PROVE  TypeOK'
<1>1. /\ \A q \in Proc : pc'[q] = IF q = p THEN "idle" ELSE pc[q]
      /\ \A s \in Slot : lock'[s] = IF lock[s] = p THEN Nobody ELSE lock[s]
  BY DEF TypeOK, Leave, Goto, LocksWithout
<1>2. pc' \in [Proc -> {"idle", "wait", "guard", "call", "pda", "open", "grab", "dead"}]
  BY DEF TypeOK, Leave, Goto
<1>3. lock' \in [Slot -> Proc \cup {Nobody}]
  BY DEF TypeOK, Leave, LocksWithout
<1>4. \A q \in Proc : pdaLock' = q <=> pc'[q] = "guard"
  BY <1>1 DEF TypeOK
<1>5. \A q \in Proc, s \in Slot : lock'[s] = q => pc'[q] \notin {"idle", "dead"}
  BY <1>1, ConstantsAssumption DEF TypeOK
<1> QED BY <1>2, <1>3, <1>4, <1>5 DEF TypeOK

LEMMA TypeStep == TypeOK /\ [Next]_vars => TypeOK'
<1> SUFFICES ASSUME TypeOK, [Next]_vars PROVE TypeOK'
  OBVIOUS
<1> USE ConstantsAssumption
<1>0. CASE UNCHANGED vars
  BY <1>0 DEF TypeOK, vars
<1>1. ASSUME NEW p \in Proc, NEW s \in Slot, Open(p, s)
      PROVE  TypeOK'
  BY <1>1 DEF TypeOK, Open, Start, Goto, Op, Opening
<1>2. ASSUME NEW p \in Proc, NEW s \in Slot, GrabLock(p, s)
      PROVE  TypeOK'
  <2>1. CASE lock[s] = Nobody
    BY <1>2, <2>1 DEF TypeOK, GrabLock
  <2>2. CASE lock[s] # Nobody
    <3>1. /\ pc[p] # "guard" /\ Leave(p)
          /\ UNCHANGED <<registered, pdaLock, op, slot, dmaInto>>
      BY <1>2, <2>2 DEF GrabLock
    <3> QED BY <3>1, LeaveType DEF TypeOK
  <2> QED BY <2>1, <2>2
<1>3. ASSUME NEW p \in Proc, Close(p)
      PROVE  TypeOK'
  BY <1>3 DEF TypeOK, Close, Start, Goto, Op, Closing
<1>4. ASSUME NEW p \in Proc, StartDma(p) \/ StopDma(p)
      PROVE  TypeOK'
  BY <1>4 DEF TypeOK, StartDma, StopDma
<1>5. ASSUME NEW p \in Proc, StartCleanup(p)
      PROVE  TypeOK'
  BY <1>5 DEF TypeOK, StartCleanup, Goto
<1>6. ASSUME NEW p \in Proc, TakePdaLock(p) \/ DropPdaLock(p) \/ EnterPda(p)
      PROVE  TypeOK'
  <2>1. CASE TakePdaLock(p)
    BY <2>1 DEF TypeOK, TakePdaLock, Goto
  <2>2. CASE DropPdaLock(p)
    BY <2>2 DEF TypeOK, DropPdaLock, Goto
  <2>3. CASE EnterPda(p)
    BY <2>3 DEF TypeOK, EnterPda, Goto
  <2> QED BY <1>6, <2>1, <2>2, <2>3
<1>7. ASSUME NEW p \in Proc, WaitTimesOut(p)
      PROVE  TypeOK'
  <2>1. CASE op[p] \in {"freeOld", "cleanup"}
    <3>1. /\ pc[p] # "guard" /\ Leave(p)
          /\ UNCHANGED <<registered, pdaLock, op, slot, dmaInto>>
      BY <1>7, <2>1 DEF WaitTimesOut
    <3> QED BY <3>1, LeaveType DEF TypeOK
  <2>2. CASE op[p] \notin {"freeOld", "cleanup"}
    BY ZenonT(60), <1>7, <2>2 DEF TypeOK, WaitTimesOut, Start, Goto, Unwound, Opening, Op, Closing
  <2> QED BY <2>1, <2>2
<1>8. ASSUME NEW p \in Proc, FreedOld(p)
      PROVE  TypeOK'
  BY <1>8 DEF TypeOK, FreedOld, FreeBuffers, Start, Goto, Op, Opening
<1>9. ASSUME NEW p \in Proc, RegisteredPages(p)
      PROVE  TypeOK'
  BY ZenonT(60), <1>9 DEF TypeOK, RegisteredPages, Registered, Start, Goto, Op, Opening, Closing
<1>10. ASSUME NEW p \in Proc, RegisteredFifo(p)
       PROVE  TypeOK'
  BY <1>10 DEF TypeOK, RegisteredFifo, Registered, Goto
<1>11. ASSUME NEW p \in Proc, RegisterThrows(p)
       PROVE  TypeOK'
  BY <1>11 DEF TypeOK, RegisterThrows, Unwound, Start, Goto, Op, Closing
<1>12. ASSUME NEW p \in Proc, Deleted(p)
       PROVE  TypeOK'
  <2>1. registered' \in [Slot -> [Buf -> Proc \cup {Nobody}]]
    <3>1. PICK b : registered' = [registered EXCEPT ![slot[p]][b] = Nobody]
      BY <1>12 DEF Deleted, Registered
    <3>2. registered \in [Slot -> [Buf -> Proc \cup {Nobody}]] /\ slot[p] \in Slot
      BY DEF TypeOK
    <3> QED BY <3>1, <3>2
  <2>2. /\ pc' = [pc EXCEPT ![p] = "wait"] /\ pc[p] = "pda"
        /\ op' \in [Proc -> Op]
        /\ UNCHANGED <<lock, pdaLock, slot, dmaInto>>
    BY <1>12 DEF TypeOK, Deleted, Start, Goto, Op, Closing
  <2> QED BY <2>1, <2>2 DEF TypeOK
<1>13. ASSUME NEW p \in Proc, Closed(p)
       PROVE  TypeOK'
  <2>1. /\ pc[p] # "guard" /\ Leave(p)
        /\ registered' \in [Slot -> [Buf -> Proc \cup {Nobody}]]
        /\ UNCHANGED <<pdaLock, op, slot, dmaInto>>
    BY <1>13 DEF TypeOK, Closed, FreeBuffers
  <2> QED BY <2>1, LeaveType
<1>14. ASSUME NEW p \in Proc, CleanedUp(p)
       PROVE  TypeOK'
  <2>1. /\ pc[p] # "guard" /\ Leave(p)
        /\ registered' \in [Slot -> [Buf -> Proc \cup {Nobody}]]
        /\ UNCHANGED <<pdaLock, op, slot, dmaInto>>
    BY <1>14 DEF CleanedUp
  <2> QED BY <2>1, LeaveType
<1>15. ASSUME NEW p \in Proc, GrabbedAll(p)
       PROVE  TypeOK'
  BY <1>15 DEF TypeOK, GrabbedAll, Start, Goto, Op
<1>16. ASSUME NEW p \in Proc, pc[p] # "dead", Die(p)
       PROVE  TypeOK'
  BY <1>16 DEF TypeOK, Die, LocksWithout, Goto
<1> QED
  BY <1>0, <1>1, <1>2, <1>3, <1>4, <1>5, <1>6, <1>7, <1>8, <1>9, <1>10, <1>11, <1>12,
     <1>13, <1>14, <1>15, <1>16, StepCases DEF Step

-----------------------------------------------------------------------------
(* A step of one process leaves the others where they are.                 *)
LEMMA OthersKeepPlace ==
  ASSUME TypeOK, NEW p \in Proc, Step(p), NEW q \in Proc, q # p
  PROVE  pc'[q] = pc[q] /\ op'[q] = op[q] /\ slot'[q] = slot[q]
<1>1. /\ pc' = pc \/ \E place : pc' = [pc EXCEPT ![p] = place]
      /\ op' = op \/ \E o : op' = [op EXCEPT ![p] = o]
      /\ slot' = slot \/ \E s : slot' = [slot EXCEPT ![p] = s]
  BY DEF Step, Open, GrabLock, Close, StartDma, StopDma, StartCleanup, TakePdaLock,
         DropPdaLock, EnterPda, WaitTimesOut, FreedOld, RegisteredPages, RegisteredFifo,
         RegisterThrows, Deleted, Closed, CleanedUp, GrabbedAll, Die, Start, Goto, Leave
<1> QED BY <1>1 DEF TypeOK

(* It takes no lock away from them and gives them none. *)
LEMMA OthersKeepLocks ==
  ASSUME TypeOK, NEW p \in Proc, Step(p), NEW q \in Proc, q # p, NEW s \in Slot
  PROVE  lock'[s] = q <=> lock[s] = q
<1>1. \/ lock' = lock
      \/ lock' = LocksWithout(p)
      \/ \E t \in Slot : lock[t] = Nobody /\ lock' = [lock EXCEPT ![t] = p]
  BY DEF Step, Open, GrabLock, Close, StartDma, StopDma, StartCleanup, TakePdaLock,
         DropPdaLock, EnterPda, WaitTimesOut, FreedOld, RegisteredPages, RegisteredFifo,
         RegisterThrows, Deleted, Closed, CleanedUp, GrabbedAll, Die, Start, Leave
<1> QED BY <1>1, ConstantsAssumption DEF TypeOK, LocksWithout

(* It changes no buffer of a channel they have locked, and registers no      *)
(* buffer in their name.                                                     *)
LEMMA OthersKeepBuffers ==
  ASSUME TypeOK, NEW p \in Proc, HoldsLocks(p), Step(p),
         NEW q \in Proc, q # p, NEW s \in Slot, NEW b \in Buf
  PROVE  /\ registered'[s][b] = q => registered[s][b] = q
         /\ lock[s] = q => registered'[s][b] = registered[s][b]
<1>1. \/ registered' = registered
      \/ /\ lock[slot[p]] = p
         /\ \E c \in {"pages", "fifo"}, v \in {p, Nobody} :
               registered' = [registered EXCEPT ![slot[p]][c] = v]
      \/ /\ lock[slot[p]] = p
         /\ registered' = [registered EXCEPT ![slot[p]] = [c \in Buf |-> Nobody]]
      \/ /\ \A t \in Slot : lock[t] = p
         /\ registered' = [t \in Slot |-> [c \in Buf |-> Nobody]]
  <2>1. CASE FreedOld(p) \/ Closed(p)
    BY <2>1 DEF FreedOld, Closed, FreeBuffers, HoldsLocks, OnSlot, InCall
  <2>2. CASE RegisteredPages(p) \/ RegisteredFifo(p)
    BY <2>2 DEF RegisteredPages, RegisteredFifo, Registered, HoldsLocks, OnSlot, InCall
  <2>3. CASE Deleted(p)
    BY <2>3 DEF Deleted, Registered, HoldsLocks, OnSlot, InCall
  <2>4. CASE CleanedUp(p)
    BY <2>4 DEF CleanedUp, HoldsLocks, InCall
  <2> QED
    BY <2>1, <2>2, <2>3, <2>4
    DEF Step, Open, GrabLock, Close, StartDma, StopDma, StartCleanup, TakePdaLock,
        DropPdaLock, EnterPda, WaitTimesOut, RegisterThrows, GrabbedAll, Die
<1>2. slot[p] \in Slot /\ registered \in [Slot -> [Buf -> Proc \cup {Nobody}]]
  BY DEF TypeOK
<1>3. q # Nobody
  BY ConstantsAssumption
<1> QED BY <1>1, <1>2, <1>3

(* It starts no DMA into their buffers. *)
LEMMA OthersKeepDma ==
  ASSUME TypeOK, NEW p \in Proc, Step(p), NEW q \in Proc, q # p, NEW s \in Slot
  PROVE  dmaInto'[s] = q => dmaInto[s] = q
<1>1. \/ dmaInto' = dmaInto
      \/ \E v \in {p, Nobody} : dmaInto' = [dmaInto EXCEPT ![slot[p]] = v]
  BY DEF Step, Open, GrabLock, Close, StartDma, StopDma, StartCleanup, TakePdaLock,
         DropPdaLock, EnterPda, WaitTimesOut, FreedOld, RegisteredPages, RegisteredFifo,
         RegisterThrows, Deleted, Closed, CleanedUp, GrabbedAll, Die
<1> QED BY <1>1, ConstantsAssumption DEF TypeOK

LEMMA OthersKeepInv ==
  ASSUME IInv, NEW p \in Proc, Step(p), NEW q \in Proc, q # p
  PROVE  Inv(q)'
<1> USE DEF IInv
<1>1. pc'[q] = pc[q] /\ op'[q] = op[q] /\ slot'[q] = slot[q] /\ slot[q] \in Slot
  BY OthersKeepPlace DEF TypeOK
<1>2. \A s \in Slot : lock'[s] = q <=> lock[s] = q
  BY OthersKeepLocks
<1>3. \A s \in Slot, b \in Buf : /\ registered'[s][b] = q => registered[s][b] = q
                                 /\ lock[s] = q => registered'[s][b] = registered[s][b]
  BY OthersKeepBuffers DEF Inv
<1>4. Inv(q)
  OBVIOUS
<1>5. HoldsLocks(q)'
  BY <1>1, <1>2, <1>4 DEF Inv, HoldsLocks, OnSlot, InCall
<1>6. OwnsOnlyHere(q)'
  BY <1>1, <1>3, <1>4 DEF Inv, OwnsOnlyHere, MayOwn, InCall
<1>7. HasBuffers(q)'
  <2>1. ASSUME OnSlot(q), NEW b \in Buf
        PROVE  registered'[slot[q]][b] = registered[slot[q]][b]
    <3>1. lock[slot[q]] = q
      BY <1>4, <2>1 DEF Inv, HoldsLocks
    <3> QED BY <1>1, <1>3, <3>1
  <2>2. "pages" \in Buf
    BY ConstantsAssumption
  <2>3. CASE InCall(q) /\ op[q] = "register fifo"
    BY <1>1, <1>4, <2>1, <2>2, <2>3 DEF Inv, HasBuffers, OnSlot, InCall
  <2>4. CASE pc[q] = "open"
    BY <1>1, <1>4, <2>1, <2>4 DEF Inv, HasBuffers, OnSlot, InCall
  <2> QED BY <1>1, <2>3, <2>4 DEF HasBuffers, InCall
<1>8. DmaOnlyWhileOpen(q)'
  BY <1>1, <1>4, OthersKeepDma DEF Inv, DmaOnlyWhileOpen
<1> QED BY <1>5, <1>6, <1>7, <1>8 DEF Inv
-----------------------------------------------------------------------------
(* A step keeps the invariant of the process that takes it.                *)
LEMMA SelfKeepsInv ==
  ASSUME IInv, NEW p \in Proc, Step(p)
  PROVE  Inv(p)'
<1> USE DEF IInv
<1>1. /\ pc \in [Proc -> {"idle", "wait", "guard", "call", "pda", "open", "grab", "dead"}]
      /\ op \in [Proc -> Op] /\ slot \in [Proc -> Slot]
      /\ lock \in [Slot -> Proc \cup {Nobody}]
      /\ registered \in [Slot -> [Buf -> Proc \cup {Nobody}]]
      /\ dmaInto \in [Slot -> Proc \cup {Nobody}]
      /\ \A s \in Slot : lock[s] = p => pc[p] \notin {"idle", "dead"}
  BY DEF TypeOK
<1>2. Inv(p) /\ p # Nobody /\ "pages" \in Buf
  BY ConstantsAssumption
<1>3. ASSUME NEW s \in Slot, Open(p, s)
      PROVE  Inv(p)'
  <2>1. /\ pc'[p] = "wait" /\ op'[p] = "freeOld" /\ slot'[p] = s /\ lock'[s] = p
        /\ UNCHANGED <<registered, dmaInto>> /\ pc[p] = "idle"
    BY <1>1, <1>3 DEF Open, Start, Goto
  <2> QED BY ZenonT(60), <1>2, <2>1 DEF Inv, HoldsLocks, OwnsOnlyHere, HasBuffers, DmaOnlyWhileOpen,
                            OnSlot, InCall, MayOwn
<1>4. ASSUME NEW s \in Slot, GrabLock(p, s)
      PROVE  Inv(p)'
  <2>1. /\ pc'[p] \in {"grab", "idle"} /\ UNCHANGED <<registered, dmaInto>> /\ pc[p] = "grab"
    BY <1>1, <1>4 DEF GrabLock, Leave, Goto
  <2>2. HoldsLocks(p)'
    BY <1>2, <2>1 DEF Inv, HoldsLocks, OnSlot, InCall
  <2>3. OwnsOnlyHere(p)'
    BY <1>2, <2>1 DEF Inv, OwnsOnlyHere, MayOwn, InCall
  <2>4. HasBuffers(p)'
    BY <1>2, <2>1 DEF Inv, HasBuffers, OwnsOnlyHere, MayOwn, InCall
  <2>5. DmaOnlyWhileOpen(p)'
    BY <1>2, <2>1 DEF Inv, DmaOnlyWhileOpen
  <2> QED BY <2>2, <2>3, <2>4, <2>5 DEF Inv
<1>5. CASE Close(p)
  <2>1. /\ pc'[p] = "wait" /\ op'[p] \in {"delete fifo", "delete pages"}
        /\ UNCHANGED <<lock, slot, registered, dmaInto>> /\ pc[p] = "open"
        /\ UserStops => dmaInto[slot[p]] # p
    BY <1>1, <1>5 DEF Close, Start, Goto
  <2> QED BY ZenonT(60), <1>2, <2>1 DEF Inv, HoldsLocks, OwnsOnlyHere, HasBuffers, DmaOnlyWhileOpen,
                            OnSlot, InCall, MayOwn
<1>6. CASE StartDma(p) \/ StopDma(p)
  <2>1. /\ UNCHANGED <<pc, op, lock, slot, registered>> /\ pc[p] = "open"
        /\ \A s \in Slot : dmaInto'[s] = p => dmaInto[s] = p \/ s = slot[p]
    BY <1>1, <1>6 DEF StartDma, StopDma
  <2> QED BY <1>2, <2>1 DEF Inv, HoldsLocks, OwnsOnlyHere, HasBuffers, DmaOnlyWhileOpen,
                            OnSlot, InCall, MayOwn
<1>7. CASE StartCleanup(p)
  <2>1. pc'[p] = "grab" /\ UNCHANGED <<registered, dmaInto>> /\ pc[p] = "idle"
    BY <1>1, <1>7 DEF StartCleanup, Goto
  <2> QED BY <1>2, <2>1 DEF Inv, HoldsLocks, OwnsOnlyHere, HasBuffers, DmaOnlyWhileOpen,
                            OnSlot, InCall, MayOwn
<1>8. CASE TakePdaLock(p) \/ DropPdaLock(p) \/ EnterPda(p)
  <2>1. /\ pc'[p] \in {"guard", "call", "pda"} /\ pc[p] \in {"wait", "guard", "call"}
        /\ UNCHANGED <<op, lock, slot, registered, dmaInto>>
    BY <1>1, <1>8 DEF TakePdaLock, DropPdaLock, EnterPda, Goto
  <2>2. HoldsLocks(p)'
    BY <1>2, <2>1 DEF Inv, HoldsLocks, OnSlot, InCall
  <2>3. OwnsOnlyHere(p)'
    BY <1>2, <2>1 DEF Inv, OwnsOnlyHere, MayOwn, InCall
  <2>4. HasBuffers(p)'
    BY <1>2, <2>1 DEF Inv, HasBuffers, OwnsOnlyHere, MayOwn, InCall
  <2>5. DmaOnlyWhileOpen(p)'
    BY <1>2, <2>1 DEF Inv, DmaOnlyWhileOpen
  <2> QED BY <2>2, <2>3, <2>4, <2>5 DEF Inv
<1>9. CASE WaitTimesOut(p)
  <2>1. /\ UNCHANGED <<slot, registered, dmaInto>> /\ pc[p] = "wait"
        /\ op[p] \in {"freeOld", "cleanup", "register pages", "register fifo"}
        /\ \/ pc'[p] = "idle" /\ op[p] \in {"freeOld", "cleanup"}
           \/ /\ pc'[p] = "wait" /\ op[p] \notin {"freeOld", "cleanup"}
              /\ op'[p] \in {"delete pages", "freeRest"} /\ UNCHANGED lock
    <3>1. CASE op[p] \in {"freeOld", "cleanup"}
      BY <1>1, <1>9, <3>1 DEF WaitTimesOut, Leave, Goto
    <3>2. CASE op[p] \notin {"freeOld", "cleanup"}
      BY <1>1, <1>9, <3>2 DEF WaitTimesOut, Start, Goto, Unwound, Opening
    <3> QED BY <3>1, <3>2
  <2> QED BY ZenonT(60), <1>2, <2>1 DEF Inv, HoldsLocks, OwnsOnlyHere, HasBuffers, DmaOnlyWhileOpen,
                            OnSlot, InCall, MayOwn
<1>10. CASE FreedOld(p)
  <2>1. /\ pc'[p] = "wait" /\ op'[p] = "register pages" /\ pc[p] = "pda" /\ op[p] = "freeOld"
        /\ UNCHANGED <<lock, slot, dmaInto>>
        /\ \A s \in Slot, b \in Buf : registered'[s][b] \in {registered[s][b], Nobody}
    BY <1>1, <1>10 DEF FreedOld, FreeBuffers, Start, Goto
  <2>2. HoldsLocks(p)'
    BY <1>2, <2>1 DEF Inv, HoldsLocks, OnSlot, InCall
  <2>3. OwnsOnlyHere(p)'
    BY <1>2, <2>1 DEF Inv, OwnsOnlyHere, MayOwn, InCall
  <2>4. HasBuffers(p)'
    BY <1>2, <2>1 DEF Inv, HasBuffers, OwnsOnlyHere, MayOwn, InCall
  <2>5. DmaOnlyWhileOpen(p)'
    BY <1>2, <2>1 DEF Inv, DmaOnlyWhileOpen
  <2> QED BY <2>2, <2>3, <2>4, <2>5 DEF Inv
<1>11. CASE RegisteredPages(p)
  <2>1. /\ pc[p] = "pda" /\ op[p] = "register pages" /\ UNCHANGED <<lock, slot, dmaInto>>
        /\ \A s \in Slot, b \in Buf : registered'[s][b] =
              IF s = slot[p] /\ b = "pages" THEN p ELSE registered[s][b]
        /\ \/ pc'[p] = "wait" /\ op'[p] \in {"register fifo", "delete pages"}
           \/ pc'[p] = "open" /\ "fifo" \notin Buf /\ UNCHANGED op
    BY <1>1, <1>11 DEF RegisteredPages, Registered, Start, Goto
  <2>2. HoldsLocks(p)'
    BY <1>2, <2>1 DEF Inv, HoldsLocks, OnSlot, InCall
  <2>3. OwnsOnlyHere(p)'
    <3>1. MayOwn(p)' /\ slot'[p] = slot[p]
      BY <2>1 DEF MayOwn, InCall
    <3>2. ASSUME NEW s \in Slot, NEW b \in Buf, registered'[s][b] = p
          PROVE  s = slot[p]
      BY <1>2, <2>1, <3>2 DEF Inv, OwnsOnlyHere, MayOwn, InCall
    <3> QED BY <3>1, <3>2 DEF OwnsOnlyHere
  <2>4. HasBuffers(p)'
    BY <1>1, <1>2, <2>1, ConstantsAssumption DEF Inv, HasBuffers, InCall
  <2>5. DmaOnlyWhileOpen(p)'
    BY <1>2, <2>1 DEF Inv, DmaOnlyWhileOpen
  <2> QED BY <2>2, <2>3, <2>4, <2>5 DEF Inv
<1>12. CASE RegisteredFifo(p)
  <2>1. /\ pc[p] = "pda" /\ op[p] = "register fifo" /\ pc'[p] = "open"
        /\ UNCHANGED <<op, lock, slot, dmaInto>>
        /\ \A s \in Slot, b \in Buf : registered'[s][b] =
              IF s = slot[p] /\ b = "fifo" THEN p ELSE registered[s][b]
    BY <1>1, <1>12 DEF RegisteredFifo, Registered, Goto
  <2>2. HoldsLocks(p)'
    BY <1>2, <2>1 DEF Inv, HoldsLocks, OnSlot, InCall
  <2>3. OwnsOnlyHere(p)'
    <3>1. MayOwn(p)' /\ slot'[p] = slot[p]
      BY <2>1 DEF MayOwn, InCall
    <3>2. ASSUME NEW s \in Slot, NEW b \in Buf, registered'[s][b] = p
          PROVE  s = slot[p]
      BY <1>2, <2>1, <3>2 DEF Inv, OwnsOnlyHere, MayOwn, InCall
    <3> QED BY <3>1, <3>2 DEF OwnsOnlyHere
  <2>4. HasBuffers(p)'
    <3>1. registered[slot[p]]["pages"] = p
      BY <1>2, <2>1 DEF Inv, HasBuffers, InCall
    <3>2. \A b \in Buf : b \in {"pages", "fifo"}
      BY ConstantsAssumption
    <3>3. ASSUME NEW b \in Buf
          PROVE  registered'[slot[p]][b] = p
      <4>1. CASE b = "fifo"
        BY <1>1, <2>1, <4>1
      <4>2. CASE b = "pages"
        BY <1>1, <2>1, <3>1, <4>2
      <4> QED BY <3>2, <4>1, <4>2
    <3> QED BY <2>1, <3>3 DEF HasBuffers, InCall
  <2>5. DmaOnlyWhileOpen(p)'
    BY <1>2, <2>1 DEF Inv, DmaOnlyWhileOpen
  <2> QED BY <2>2, <2>3, <2>4, <2>5 DEF Inv
<1>13. CASE RegisterThrows(p)
  <2>1. /\ pc[p] = "pda" /\ pc'[p] = "wait"
        /\ op[p] \in {"register pages", "register fifo"}
        /\ op'[p] \in {"delete pages", "freeRest"}
        /\ UNCHANGED <<lock, slot, registered, dmaInto>>
    BY <1>1, <1>13 DEF RegisterThrows, Unwound, Start, Goto
  <2> QED BY <1>2, <2>1 DEF Inv, HoldsLocks, OwnsOnlyHere, HasBuffers, DmaOnlyWhileOpen,
                            OnSlot, InCall, MayOwn
<1>14. CASE Deleted(p)
  <2>1. /\ pc[p] = "pda" /\ pc'[p] = "wait" /\ UNCHANGED <<lock, slot, dmaInto>>
        /\ op[p] \in {"delete fifo", "delete pages"} /\ op'[p] \in {"delete pages", "freeRest"}
    BY <1>1, <1>14 DEF Deleted, Start, Goto
  <2>2. \A s \in Slot, b \in Buf : registered'[s][b] \in {registered[s][b], Nobody}
    <3>1. PICK c : registered' = [registered EXCEPT ![slot[p]][c] = Nobody]
      BY <1>14 DEF Deleted, Registered
    <3> QED BY <1>1, <3>1
  <2>3. HoldsLocks(p)'
    BY <1>2, <2>1, <2>2 DEF Inv, HoldsLocks, OnSlot, InCall
  <2>4. OwnsOnlyHere(p)'
    BY <1>2, <2>1, <2>2 DEF Inv, OwnsOnlyHere, MayOwn, InCall
  <2>5. HasBuffers(p)'
    BY <1>2, <2>1, <2>2 DEF Inv, HasBuffers, OwnsOnlyHere, MayOwn, InCall
  <2>6. DmaOnlyWhileOpen(p)'
    BY <1>2, <2>1, <2>2 DEF Inv, DmaOnlyWhileOpen
  <2> QED BY <2>3, <2>4, <2>5, <2>6 DEF Inv
<1>15. CASE Closed(p)
  <2>1. /\ pc'[p] = "idle" /\ pc[p] = "pda" /\ UNCHANGED <<slot, dmaInto>>
        /\ \A s \in Slot, b \in Buf : registered'[s][b] =
              IF s = slot[p] THEN Nobody ELSE registered[s][b]
    BY <1>1, <1>15 DEF Closed, FreeBuffers, Leave, Goto
  <2>2. HoldsLocks(p)'
    BY <1>2, <2>1 DEF Inv, HoldsLocks, OnSlot, InCall
  <2>3. OwnsOnlyHere(p)'
    BY ZenonT(60), <1>2, <2>1 DEF Inv, OwnsOnlyHere, MayOwn, InCall
  <2>4. HasBuffers(p)'
    BY <1>2, <2>1 DEF Inv, HasBuffers, OwnsOnlyHere, MayOwn, InCall
  <2>5. DmaOnlyWhileOpen(p)'
    BY <1>2, <2>1 DEF Inv, DmaOnlyWhileOpen
  <2> QED BY <2>2, <2>3, <2>4, <2>5 DEF Inv
<1>16. CASE CleanedUp(p)
  <2>1. /\ pc'[p] = "idle" /\ pc[p] = "pda" /\ UNCHANGED <<slot, dmaInto>>
        /\ \A s \in Slot, b \in Buf : registered'[s][b] = Nobody
    BY <1>1, <1>16 DEF CleanedUp, Leave, Goto
  <2>2. HoldsLocks(p)'
    BY <1>2, <2>1 DEF Inv, HoldsLocks, OnSlot, InCall
  <2>3. OwnsOnlyHere(p)'
    BY <1>2, <2>1 DEF Inv, OwnsOnlyHere, MayOwn, InCall
  <2>4. HasBuffers(p)'
    BY <1>2, <2>1 DEF Inv, HasBuffers, OwnsOnlyHere, MayOwn, InCall
  <2>5. DmaOnlyWhileOpen(p)'
    BY <1>2, <2>1 DEF Inv, DmaOnlyWhileOpen
  <2> QED BY <2>2, <2>3, <2>4, <2>5 DEF Inv
<1>17. CASE GrabbedAll(p)
  <2>1. /\ pc'[p] = "wait" /\ op'[p] = "cleanup" /\ pc[p] = "grab"
        /\ \A s \in Slot : lock'[s] = p
        /\ UNCHANGED <<slot, registered, dmaInto>>
    BY <1>1, <1>17 DEF GrabbedAll, Start, Goto
  <2> QED BY <1>2, <2>1 DEF Inv, HoldsLocks, OwnsOnlyHere, HasBuffers, DmaOnlyWhileOpen,
                            OnSlot, InCall, MayOwn
<1>18. CASE pc[p] # "dead" /\ Die(p)
  <2>1. pc'[p] = "dead"
    BY <1>1, <1>18 DEF Die, Goto
  <2> QED BY <1>2, <2>1 DEF Inv, HoldsLocks, OwnsOnlyHere, HasBuffers, DmaOnlyWhileOpen,
                            OnSlot, InCall, MayOwn
<1> QED
  BY <1>3, <1>4, <1>5, <1>6, <1>7, <1>8, <1>9, <1>10, <1>11, <1>12, <1>13, <1>14, <1>15,
     <1>16, <1>17, <1>18 DEF Step
-----------------------------------------------------------------------------
LEMMA InvInit == Init => IInv
<1> SUFFICES ASSUME Init, NEW p \in Proc PROVE Inv(p)
  BY TypeInit DEF IInv
<1> QED
  BY ConstantsAssumption
  DEF Init, Inv, HoldsLocks, OwnsOnlyHere, HasBuffers, DmaOnlyWhileOpen, OnSlot, InCall

LEMMA InvStep == IInv /\ [Next]_vars => IInv'
<1> SUFFICES ASSUME IInv, [Next]_vars PROVE IInv'
  OBVIOUS
<1>1. TypeOK'
  BY TypeStep DEF IInv
<1>2. CASE UNCHANGED vars
  <2>1. ASSUME NEW p \in Proc
        PROVE  Inv(p)'
    <3> USE <1>2 DEF vars, IInv
    <3>1. HoldsLocks(p)'
      BY DEF Inv, HoldsLocks, OnSlot, InCall
    <3>2. OwnsOnlyHere(p)'
      BY DEF Inv, OwnsOnlyHere, MayOwn, InCall
    <3>3. HasBuffers(p)'
      BY DEF Inv, HasBuffers, InCall
    <3>4. DmaOnlyWhileOpen(p)'
      BY DEF Inv, DmaOnlyWhileOpen
    <3> QED BY <3>1, <3>2, <3>3, <3>4 DEF Inv
  <2> QED BY <1>1, <2>1 DEF IInv
<1>3. ASSUME NEW p \in Proc, Step(p)
      PROVE  IInv'
  <2>1. \A q \in Proc : Inv(q)'
    BY <1>3, SelfKeepsInv, OthersKeepInv
  <2> QED BY <1>1, <2>1 DEF IInv
<1> QED BY <1>2, <1>3, StepCases

LEMMA Invariance == Safety => []IInv
<1> QED BY InvInit, InvStep, PTL DEF Safety

(* Every variable has its type, the PDA lock is held at its guard only, and *)
(* no idle or dead process has a channel lock.                              *)
THEOREM TypeCorrect == Safety => []TypeOK
<1>1. IInv => TypeOK
  BY DEF IInv
<1> QED BY <1>1, Invariance, PTL

(* An open channel keeps its buffers registered, for any number of channels *)
(* and processes that open, close, clean up and crash beside it.            *)
THEOREM BuffersStay == Safety => []LiveBuffersStay
<1>1. IInv => LiveBuffersStay
  BY DEF IInv, Inv, HasBuffers, LiveBuffersStay
<1> QED BY <1>1, Invariance, PTL

(* A buffer is registered under the lock of its channel: closing it, a      *)
(* failure of any of the constructors and a timeout in one all give back    *)
(* the buffers before they release the lock.                                *)
THEOREM BuffersGuarded == Safety => []BuffersAreGuarded
<1>1. IInv => BuffersAreGuarded
  <2> SUFFICES ASSUME IInv, NEW s \in Slot, NEW b \in Buf,
                      registered[s][b] # Nobody, pc[registered[s][b]] # "dead"
               PROVE  lock[s] = registered[s][b]
    BY DEF BuffersAreGuarded
  <2> DEFINE q == registered[s][b]
  <2>1. q \in Proc
    BY DEF IInv, TypeOK
  <2>2. s = slot[q] /\ MayOwn(q)
    BY <2>1 DEF IInv, Inv, OwnsOnlyHere
  <2>3. OnSlot(q)
    BY <2>2 DEF MayOwn, OnSlot
  <2> QED BY <2>1, <2>2, <2>3 DEF IInv, Inv, HoldsLocks
<1> QED BY <1>1, Invariance, PTL

(* DMA goes only into registered memory, when users stop before they close  *)
(* and processes do not die with their DMA running.                         *)
THEOREM DmaIntoRegistered == Safety => []CardWritesOnlyRegistered
<1>1. IInv => CardWritesOnlyRegistered
  <2> SUFFICES ASSUME IInv, NEW s \in Slot, dmaInto[s] # Nobody, UserStops,
                      pc[dmaInto[s]] # "dead"
               PROVE  registered[s]["pages"] = dmaInto[s]
    BY DEF CardWritesOnlyRegistered
  <2>1. dmaInto[s] \in Proc /\ "pages" \in Buf
    BY ConstantsAssumption DEF IInv, TypeOK
  <2> QED BY <2>1 DEF IInv, Inv, DmaOnlyWhileOpen, HasBuffers
<1> QED BY <1>1, Invariance, PTL

(* A registration is taken away only in a PDA operation of the process that *)
(* made it, or after the death of that process.                             *)
THEOREM OnlyTheDeadLose == Safety => TakenFromTheDead
<1>1. ASSUME IInv, [Next]_vars, NEW s \in Slot, NEW b \in Buf,
             registered[s][b] # Nobody, registered'[s][b] # registered[s][b]
      PROVE  \/ pc[registered[s][b]] = "dead"
             \/ pc[registered[s][b]] = "pda" /\ pc'[registered[s][b]] # "pda"
  <2> DEFINE q == registered[s][b]
  <2>1. q \in Proc
    BY <1>1 DEF IInv, TypeOK
  <2>2. PICK p \in Proc : Step(p)
    BY <1>1, StepCases DEF vars
  <2>3. CASE q = p
    <3>1. pc[p] = "pda" /\ pc'[p] # "pda"
      BY <1>1, <2>2
      DEF IInv, TypeOK, Step, Open, GrabLock, Close, StartDma, StopDma, StartCleanup,
          TakePdaLock, DropPdaLock, EnterPda, WaitTimesOut, FreedOld, RegisteredPages,
          RegisteredFifo, RegisterThrows, Deleted, Closed, CleanedUp, GrabbedAll, Die,
          Start, Goto, Leave
    <3> QED BY <2>3, <3>1
  <2>4. CASE q # p /\ pc[q] # "dead"
    <3>1. s = slot[q] /\ MayOwn(q)
      BY <1>1, <2>1, <2>4 DEF IInv, Inv, OwnsOnlyHere
    <3>2. OnSlot(q)
      BY <3>1 DEF MayOwn, OnSlot
    <3>3. lock[s] = q
      BY <1>1, <2>1, <3>1, <3>2 DEF IInv, Inv, HoldsLocks
    <3>4. TypeOK /\ HoldsLocks(p)
      BY <1>1 DEF IInv, Inv
    <3>5. registered'[s][b] = q
      BY <2>1, <2>2, <2>4, <3>3, <3>4, OthersKeepBuffers
    <3> QED BY <1>1, <3>5
  <2> QED BY <2>3, <2>4
<1>2. IInv /\ [Next]_vars =>
        [\A s \in Slot, b \in Buf :
            LET q == registered[s][b] IN
            (q # Nobody /\ registered'[s][b] # q) =>
               (pc[q] = "dead" \/ (pc[q] = "pda" /\ pc'[q] # "pda"))]_vars
  BY <1>1
<1> QED BY <1>2, Invariance, PTL DEF Safety, TakenFromTheDead
=============================================================================
