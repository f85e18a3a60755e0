-------------------- MODULE ProducerConsumerQueueProofs --------------------
(***************************************************************************)
(* For every ring size and every interleaving of the two threads: the      *)
(* popped slot a caller still points to is not overwritten, sizeGuess()    *)
(* bounds the true size, and the ring implements the bounded FIFO.         *)
(***************************************************************************)
EXTENDS ProducerConsumerQueue, TLAPS

(* What a thread knows while it is inside a call: the room or the record it *)
(* found is still there, because only it can use it up.                     *)
RoomKept   == wpc # "idle" => NextRecord(writeIndex) # readIndex /\ wGuess = NoGuess
RecordKept == rpc \in {"move", "release", "pop"} => readIndex # writeIndex /\ rGuess = NoGuess
Written    == wpc = "publish" => records[writeIndex] = wval
Pointer    == /\ rpc = "pop" => ptr = readIndex
              /\ rpc = "deref" => readIndex = NextRecord(ptr)
Moved      == rpc = "release" => got = records[readIndex]
GuessGoing == rpc = "guess" => SizeOf(rLoad, readIndex) <= Count

IInv == /\ TypeOK
        /\ RoomKept /\ RecordKept /\ Written /\ Pointer /\ Moved
        /\ HandedOutIntact
        /\ GuessGoing /\ GuessesAreBounds

USE QueueAssumption

(* Arithmetic of the ring. *)
LEMMA NextInRing == ASSUME NEW i \in Slots PROVE NextRecord(i) \in Slots
BY DEF Slots, NextRecord

LEMMA NextInjective ==
  ASSUME NEW i \in Slots, NEW j \in Slots, NextRecord(i) = NextRecord(j)
  PROVE  i = j
BY DEF Slots, NextRecord

LEMMA SizeOfType ==
  ASSUME NEW w \in Slots, NEW r \in Slots
  PROVE  /\ SizeOf(w, r) \in 0 .. Size - 1
         /\ SizeOf(w, r) = 0 <=> w = r
BY DEF Slots, SizeOf

LEMMA SizeGrows ==
  ASSUME NEW w \in Slots, NEW r \in Slots, NextRecord(w) # r
  PROVE  SizeOf(NextRecord(w), r) = SizeOf(w, r) + 1
BY DEF Slots, SizeOf, NextRecord

LEMMA SizeShrinks ==
  ASSUME NEW w \in Slots, NEW r \in Slots, w # r
  PROVE  SizeOf(w, NextRecord(r)) = SizeOf(w, r) - 1
BY DEF Slots, SizeOf, NextRecord

LEMMA FullSize ==
  ASSUME NEW w \in Slots, NEW r \in Slots
  PROVE  NextRecord(w) = r <=> SizeOf(w, r) = Size - 1
BY DEF Slots, SizeOf, NextRecord

LEMMA InitIInv == Init => IInv
<1> SUFFICES ASSUME Init PROVE IInv
  OBVIOUS
<1>1. TypeOK
  <2>1. records \in [Slots -> Value \cup {NoValue}]
    BY DEF Init
  <2>2. 0 \in Slots /\ Size \in 0 .. Size
    BY DEF Slots
  <2> QED
    BY <2>1, <2>2 DEF Init, TypeOK, NoGuess
<1>2. QED
  BY <1>1 DEF Init, IInv, RoomKept, RecordKept, Written, Pointer, Moved,
              HandedOutIntact, GuessGoing, GuessesAreBounds, NoGuess

LEMMA ProducerKeepsIInv == IInv /\ Producer => IInv'
<1> SUFFICES ASSUME IInv, Producer PROVE IInv'
  OBVIOUS
<1> USE DEF IInv, RoomKept, RecordKept, Written, Pointer, Moved,
            HandedOutIntact, GuessGoing, GuessesAreBounds, Count
<1>1. ASSUME NEW v \in Value, WriteBegin(v) PROVE IInv'
  BY <1>1 DEF WriteBegin, TypeOK, consumerVars, NoGuess
<1>2. CASE WriteFull
  BY <1>2 DEF WriteFull, TypeOK, producerVars, consumerVars
<1>3. CASE WriteConstruct
  <2>1. TypeOK'
    BY <1>3 DEF WriteConstruct, TypeOK, consumerVars
  <2>2. \A i \in Slots : i # writeIndex => records'[i] = records[i]
    BY <1>3 DEF WriteConstruct, TypeOK
  <2>3. rpc = "deref" => ptr # writeIndex
    BY <1>3 DEF WriteConstruct
  <2>4. HandedOutIntact'
    BY <1>3, <2>2, <2>3 DEF WriteConstruct, TypeOK, consumerVars
  <2>5. Moved' /\ Written'
    BY <1>3, <2>2 DEF WriteConstruct, TypeOK, consumerVars
  <2> QED
    BY <1>3, <2>1, <2>4, <2>5 DEF WriteConstruct, consumerVars
<1>4. CASE WritePublish
  <2>1. TypeOK'
    BY <1>4, NextInRing DEF WritePublish, TypeOK, consumerVars
  <2>2. Count' = Count + 1
    BY <1>4, SizeGrows DEF WritePublish, TypeOK
  <2>3. Count \in Nat /\ (rpc = "guess" => SizeOf(rLoad, readIndex) \in Nat)
    BY SizeOfType DEF TypeOK
  <2>4. RecordKept'
    BY <1>4, <2>1 DEF WritePublish, TypeOK, consumerVars
  <2>5. wGuess = NoGuess
    BY <1>4 DEF WritePublish
  <2> QED
    BY <1>4, <2>1, <2>2, <2>3, <2>4 DEF WritePublish, consumerVars, TypeOK, NoGuess
<1>5. CASE ProducerGuess
  BY <1>5, SizeOfType DEF ProducerGuess, TypeOK, consumerVars
<1> QED
  BY <1>1, <1>2, <1>3, <1>4, <1>5 DEF Producer

LEMMA ConsumerKeepsIInv == IInv /\ Consumer => IInv'
<1> SUFFICES ASSUME IInv, Consumer PROVE IInv'
  OBVIOUS
<1> USE DEF IInv, RoomKept, RecordKept, Written, Pointer, Moved,
            HandedOutIntact, GuessGoing, GuessesAreBounds, Count
<1>0. Count \in 0 .. Size - 1
  BY SizeOfType DEF TypeOK
<1>1. CASE ReadBegin
  BY <1>1 DEF ReadBegin, TypeOK, producerVars, NoGuess
<1>2. CASE ReadEmpty
  BY <1>2 DEF ReadEmpty, TypeOK, producerVars
<1>3. CASE ReadMove
  BY <1>3 DEF ReadMove, TypeOK, producerVars
<1>4. ASSUME NEW next \in {"idle", "deref"}, GiveBack(next),
             next = "idle" => rpc = "release", next = "deref" => rpc = "pop"
      PROVE  IInv'
  <2>1. TypeOK'
    BY <1>4, NextInRing DEF GiveBack, TypeOK, producerVars
  <2>2. Count' = Count - 1
    BY <1>4, SizeShrinks DEF GiveBack, TypeOK, producerVars
  <2>3. RoomKept'
    <3>1. SizeOf(writeIndex, readIndex) # Size - 1 => NextRecord(writeIndex') # readIndex'
      BY <1>4, <2>1, <2>2, <1>0, FullSize DEF GiveBack, TypeOK, producerVars
    <3> QED
      BY <1>4, <3>1, FullSize DEF GiveBack, TypeOK, producerVars
  <2>4. RecordKept' /\ Written' /\ Pointer' /\ Moved' /\ HandedOutIntact'
    BY <1>4 DEF GiveBack, TypeOK, producerVars
  <2>5. rGuess = NoGuess
    BY <1>4
  <2>6. GuessesAreBounds' /\ GuessGoing'
    BY <1>4, <1>0, <2>1, <2>2, <2>5 DEF GiveBack, TypeOK, producerVars, NoGuess
  <2> QED
    BY <2>1, <2>3, <2>4, <2>6
<1>5. CASE ReadRelease
  BY <1>5, <1>4 DEF ReadRelease
<1>6. CASE PopFront
  BY <1>6, <1>4 DEF PopFront
<1>7. CASE Dereference
  BY <1>7 DEF Dereference, TypeOK, producerVars
<1>8. CASE ConsumerGuessLoad
  BY <1>8, <1>0 DEF ConsumerGuessLoad, TypeOK, producerVars
<1>9. CASE ConsumerGuess
  BY <1>9, SizeOfType DEF ConsumerGuess, TypeOK, producerVars
<1> QED
  BY <1>1, <1>2, <1>3, <1>5, <1>6, <1>7, <1>8, <1>9 DEF Consumer

LEMMA StutterKeepsIInv == IInv /\ UNCHANGED vars => IInv'
BY DEF vars, producerVars, consumerVars, IInv, TypeOK, RoomKept, RecordKept,
       Written, Pointer, Moved, HandedOutIntact, GuessGoing, GuessesAreBounds, Count

THEOREM Invariance == Spec => []IInv
<1>1. IInv /\ [Next]_vars => IInv'
  BY ProducerKeepsIInv, ConsumerKeepsIInv, StutterKeepsIInv DEF Next
<1> QED
  BY InitIInv, <1>1, PTL DEF Spec

(* Indices, guesses and program counters keep their types. *)
THEOREM TypeCorrect == Spec => []TypeOK
BY Invariance, PTL DEF IInv

(* write() never touches a slot the consumer may still look at, given back  *)
(* or not.                                                                  *)
THEOREM SlotSafety == Spec => []NoOverwrite
<1>1. IInv => NoOverwrite
  <2> SUFFICES ASSUME IInv, wpc # "idle" PROVE NoOverwrite
    BY DEF NoOverwrite
  <2>1. readIndex \in Slots /\ writeIndex \in Slots /\ ptr \in Slots
    BY DEF IInv, TypeOK
  <2>2. \A i \in 1 .. Count : SlotAt(i) # writeIndex
    BY <2>1 DEF Count, SizeOf, SlotAt, Slots
  <2>3. rpc = "deref" => ptr # writeIndex
    BY <2>1 DEF IInv, RoomKept, Pointer, NextRecord, Slots
  <2> QED
    BY <2>2, <2>3 DEF NoOverwrite
<1> QED
  BY Invariance, <1>1, PTL

(* A record reaches its caller unchanged, dereferenced before or after the  *)
(* slot was given back.                                                     *)
THEOREM PoppedRecordSafety == Spec => []HandedOutIntact
BY Invariance, PTL DEF IInv

(* sizeGuess() is an upper bound for the producer, a lower one for the      *)
(* consumer, as its comment says.                                           *)
THEOREM GuessSafety == Spec => []GuessesAreBounds
BY Invariance, PTL DEF IInv
-----------------------------------------------------------------------------
(* The ring implements the bounded FIFO: the stores that publish an index   *)
(* are the abstract steps, every other step changes nothing abstract.       *)

LEMMA FifoIsSeq ==
  ASSUME TypeOK
  PROVE  /\ Count \in 0 .. Size - 1
         /\ \A i \in 1 .. Count : SlotAt(i) \in Slots
         /\ fifo \in Seq(Value \cup {NoValue}) /\ Len(fifo) = Count
<1>1. Count \in 0 .. Size - 1
  BY SizeOfType DEF Count, TypeOK
<1>2. \A i \in 1 .. Count : SlotAt(i) \in Slots
  BY <1>1 DEF SlotAt, TypeOK, Slots
<1>3. \A i \in 1 .. Count : records[SlotAt(i)] \in Value \cup {NoValue}
  BY <1>2 DEF TypeOK
<1> QED
  BY <1>1, <1>2, <1>3 DEF fifo

LEMMA RefineInit == Init => Fifo!Init
<1> SUFFICES ASSUME Init PROVE Fifo!Init
  OBVIOUS
<1>1. Count = 0
  BY DEF Init, Count, SizeOf
<1>2. fifo = <<>>
  BY <1>1 DEF fifo
<1> QED
  BY <1>2 DEF Init, Fifo!Init

(* What is queued does not depend on slots outside the queue. *)
LEMMA FifoUnchanged ==
  ASSUME TypeOK, UNCHANGED <<readIndex, writeIndex>>,
         \A i \in 1 .. Count : records'[SlotAt(i)] = records[SlotAt(i)]
  PROVE  UNCHANGED fifo
<1>1. Count' = Count /\ \A i \in 1 .. Count : SlotAt(i)' = SlotAt(i)
  BY DEF Count, SlotAt
<1> QED
  BY <1>1 DEF fifo

LEMMA RefinePublish ==
  ASSUME IInv, WritePublish, NoOverwrite
  PROVE  Fifo!Accept(wval)
<1> USE DEF IInv
<1>1. Count \in 0 .. Size - 1 /\ Count # Size - 1
  BY FifoIsSeq, FullSize DEF WritePublish, RoomKept, TypeOK, Count
<1>2. Count' = Count + 1
  BY SizeGrows DEF WritePublish, RoomKept, TypeOK, Count
<1>3. \A i \in 1 .. Count : SlotAt(i)' = SlotAt(i)
  BY DEF WritePublish, SlotAt
<1>4. \A i \in Nat : i = Count + 1 => SlotAt(i)' = writeIndex
  BY <1>1 DEF WritePublish, SlotAt, TypeOK, Slots, Count, SizeOf
<1>5. fifo' = Append(fifo, wval)
  <2>1. records[writeIndex] = wval /\ records' = records
    BY DEF WritePublish, Written
  <2>2. fifo' = [i \in 1 .. Count + 1 |-> IF i = Count + 1 THEN wval ELSE records[SlotAt(i)]]
    BY <1>1, <1>2, <1>3, <1>4, <2>1 DEF fifo
  <2>3. Append(fifo, wval) = [i \in 1 .. Count + 1 |->
                               IF i = Count + 1 THEN wval ELSE records[SlotAt(i)]]
    BY <1>1, FifoIsSeq DEF fifo
  <2> QED
    BY <2>2, <2>3
<1> QED
  BY <1>1, <1>5, FifoIsSeq DEF WritePublish, Fifo!Accept, consumerVars

LEMMA RefineGiveBack ==
  ASSUME IInv, NEW next, GiveBack(next), readIndex # writeIndex
  PROVE  Fifo!HandOut
<1> USE DEF IInv
<1>1. Count \in 1 .. Size - 1
  BY FifoIsSeq, SizeOfType DEF TypeOK, Count
<1>2. Count' = Count - 1
  BY SizeShrinks DEF GiveBack, TypeOK, Count, producerVars
<1>3. \A i \in 1 .. Count - 1 : SlotAt(i)' = SlotAt(i + 1)
  BY <1>1 DEF GiveBack, SlotAt, TypeOK, Slots, NextRecord
<1>4. SlotAt(1) = readIndex
  BY DEF SlotAt, TypeOK, Slots
<1>5. fifo # <<>> /\ Head(fifo) = records[readIndex]
  BY <1>1, <1>4, FifoIsSeq DEF fifo
<1>6. fifo' = Tail(fifo)
  <2>1. fifo' = [i \in 1 .. Count - 1 |-> records[SlotAt(i + 1)]]
    BY <1>1, <1>2, <1>3 DEF fifo, GiveBack
  <2>2. Tail(fifo) = [i \in 1 .. Count - 1 |-> records[SlotAt(i + 1)]]
    BY <1>1, FifoIsSeq DEF fifo
  <2> QED
    BY <2>1, <2>2
<1> QED
  BY <1>5, <1>6 DEF GiveBack, Fifo!HandOut, producerVars

LEMMA RefineStep == IInv /\ NoOverwrite /\ [Next]_vars => [Fifo!Next]_Fifo!vars
<1> SUFFICES ASSUME IInv, NoOverwrite, [Next]_vars PROVE [Fifo!Next]_Fifo!vars
  OBVIOUS
<1> USE DEF Fifo!vars, IInv
<1>1. ASSUME UNCHANGED <<records, readIndex, writeIndex>> PROVE UNCHANGED fifo
  BY <1>1, FifoUnchanged
<1>2. ASSUME NEW v \in Value, WriteBegin(v) PROVE UNCHANGED Fifo!vars
  BY <1>1, <1>2 DEF WriteBegin, consumerVars
<1>3. CASE WriteFull
  <2>1. Len(fifo) = Size - 1
    BY <1>3, FifoIsSeq, FullSize DEF WriteFull, TypeOK, Count
  <2> QED
    BY <1>1, <1>3, <2>1 DEF WriteFull, consumerVars, Fifo!Next, Fifo!RefuseWrite
<1>4. CASE WriteConstruct
  <2>1. \A i \in 1 .. Count : records'[SlotAt(i)] = records[SlotAt(i)]
    BY <1>4, FifoIsSeq DEF WriteConstruct, NoOverwrite, TypeOK
  <2> QED
    BY <1>4, <2>1, FifoUnchanged DEF WriteConstruct, consumerVars
<1>5. CASE WritePublish
  <2>1. wval \in Value
    BY <1>5 DEF WritePublish, TypeOK
  <2> QED
    BY <1>5, <2>1, RefinePublish DEF Fifo!Next
<1>6. CASE ProducerGuess
  BY <1>1, <1>6 DEF ProducerGuess, consumerVars
<1>7. CASE ReadBegin
  BY <1>1, <1>7 DEF ReadBegin, producerVars
<1>8. CASE ReadEmpty
  <2>1. fifo = <<>>
    BY <1>8, FifoIsSeq, SizeOfType DEF ReadEmpty, TypeOK, Count
  <2> QED
    BY <1>1, <1>8, <2>1 DEF ReadEmpty, producerVars, Fifo!Next, Fifo!RefuseRead
<1>9. CASE ReadMove
  BY <1>1, <1>9 DEF ReadMove, producerVars
<1>10. CASE ReadRelease
  BY <1>10, RefineGiveBack DEF ReadRelease, RecordKept, Fifo!Next
<1>11. CASE PopFront
  BY <1>11, RefineGiveBack DEF PopFront, RecordKept, Fifo!Next
<1>12. CASE Dereference
  BY <1>1, <1>12 DEF Dereference, producerVars
<1>13. CASE ConsumerGuessLoad
  BY <1>1, <1>13 DEF ConsumerGuessLoad, producerVars
<1>14. CASE ConsumerGuess
  BY <1>1, <1>14 DEF ConsumerGuess, producerVars
<1>15. CASE UNCHANGED vars
  BY <1>1, <1>15 DEF vars, producerVars, consumerVars
<1> QED
  BY <1>2, <1>3, <1>4, <1>5, <1>6, <1>7, <1>8, <1>9, <1>10, <1>11, <1>12, <1>13,
     <1>14, <1>15 DEF Next, Producer, Consumer

(* The lock-free ring of size_ slots is a FIFO of size_ - 1 records. *)
THEOREM RingImplementsFifo == Spec => ImplementsFifo
<1>1. Spec => Fifo!Init /\ [][Fifo!Next]_Fifo!vars
  BY RefineInit, RefineStep, Invariance, SlotSafety, PTL DEF Spec
<1> QED
  BY <1>1 DEF ImplementsFifo, Fifo!Spec
=============================================================================
