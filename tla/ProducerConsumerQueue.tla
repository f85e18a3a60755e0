----------------------- MODULE ProducerConsumerQueue -----------------------
(***************************************************************************)
(* folly::ProducerConsumerQueue<T>, the lock-free ring behind every        *)
(* superpage queue of the driver.  One thread writes, one thread reads;    *)
(* each step below is one load or store another thread can see.  An index  *)
(* is stored by one thread only, so a thread's load of its own index is    *)
(* part of the step that follows it.                                       *)
(*                                                                         *)
(* The consumer takes records in the two ways the driver does: read(), and *)
(* frontPtr(); popFront(); *ptr - the pointer dereferenced AFTER the slot  *)
(* was given back, as CrorcDmaChannel::popSuperpage() does.  T is trivially *)
(* destructible, so popFront() leaves the bytes of the slot alone.         *)
(***************************************************************************)
EXTENDS Naturals, Sequences

CONSTANTS Size,      \* size_: slots of the ring, one more than it can hold
          Value,     \* the records written
          NoValue    \* uninitialised memory

ASSUME QueueAssumption == Size \in Nat /\ Size >= 2 /\ NoValue \notin Value

VARIABLES records,     \* records_[0 .. size_-1]
          readIndex,   \* readIndex_, stored by the consumer
          writeIndex,  \* writeIndex_, stored by the producer
          wpc, wval,   \* where the producer is in write(), and its argument
          wGuess,      \* what the producer's last sizeGuess() returned
          rpc,         \* where the consumer is
          got,         \* the record the consumer's caller received last
          ptr,         \* the pointer frontPtr() returned
          rLoad,       \* writeIndex_ as loaded by the consumer's sizeGuess()
          rGuess,      \* what the consumer's last sizeGuess() returned
          taken,       \* history: the record of the slot given back last
          writeRefused,   \* history: the last write() returned false
          readRefused     \* history: the last read() found nothing

producerVars == <<wpc, wval, wGuess, writeRefused>>
consumerVars == <<rpc, got, ptr, rLoad, rGuess, taken, readRefused>>
vars == <<records, readIndex, writeIndex, producerVars, consumerVars>>

Slots == 0 .. Size - 1
NoGuess == Size     \* no sizeGuess() can return size_

(* The index after i: `if (++i == size_) i = 0`. *)
NextRecord(i) == IF i + 1 = Size THEN 0 ELSE i + 1

(* writeIndex_ - readIndex_, plus size_ when negative. *)
SizeOf(w, r) == IF w >= r THEN w - r ELSE (w + Size) - r

Init == /\ records = [i \in Slots |-> NoValue]
        /\ readIndex = 0 /\ writeIndex = 0
        /\ wpc = "idle" /\ wval = NoValue /\ wGuess = NoGuess
        /\ rpc = "idle" /\ got = NoValue /\ ptr = 0
        /\ rLoad = 0 /\ rGuess = NoGuess
        /\ taken = NoValue
        /\ writeRefused = FALSE /\ readRefused = FALSE
-----------------------------------------------------------------------------
(* The producer.                                                           *)

(* Mutant: write() does not look at readIndex_. *)
WriteBegin_Unchecked(v) ==
  /\ wpc = "idle"
  /\ wpc' = "construct" /\ wval' = v /\ wGuess' = NoGuess
  /\ UNCHANGED <<records, readIndex, writeIndex, writeRefused, consumerVars>>

(* write(): the load of readIndex_ finds a free slot. *)
WriteBegin(v) ==
  /\ wpc = "idle"
  /\ NextRecord(writeIndex) # readIndex
  /\ wpc' = "construct" /\ wval' = v /\ wGuess' = NoGuess
  /\ UNCHANGED <<records, readIndex, writeIndex, writeRefused, consumerVars>>

(* Mutant: write() also refuses the last free slot. *)
WriteFull_OffByOne ==
  /\ wpc = "idle"
  /\ readIndex \in {NextRecord(writeIndex), NextRecord(NextRecord(writeIndex))}
  /\ writeRefused' = TRUE
  /\ UNCHANGED <<records, readIndex, writeIndex, wpc, wval, wGuess, consumerVars>>

(* write(): the load of readIndex_ finds the queue full. *)
WriteFull ==
  /\ wpc = "idle"
  /\ NextRecord(writeIndex) = readIndex
  /\ writeRefused' = TRUE
  /\ UNCHANGED <<records, readIndex, writeIndex, wpc, wval, wGuess, consumerVars>>

(* write(): placement new into the slot. *)
WriteConstruct ==
  /\ wpc = "construct"
  /\ records' = [records EXCEPT ![writeIndex] = wval]
  /\ wpc' = "publish"
  /\ UNCHANGED <<readIndex, writeIndex, wval, wGuess, writeRefused, consumerVars>>

(* write(): the release store of writeIndex_. *)
WritePublish ==
  /\ wpc = "publish"
  /\ writeIndex' = NextRecord(writeIndex)
  /\ wpc' = "idle"
  /\ writeRefused' = FALSE
  /\ UNCHANGED <<records, readIndex, wval, wGuess, consumerVars>>

(* Mutant: the difference is taken the other way round. *)
ProducerGuess_Swapped ==
  /\ wpc = "idle"
  /\ wGuess' = SizeOf(readIndex, writeIndex)
  /\ UNCHANGED <<records, readIndex, writeIndex, wpc, wval, writeRefused, consumerVars>>

(* sizeGuess() called by the producer. *)
ProducerGuess ==
  /\ wpc = "idle"
  /\ wGuess' = SizeOf(writeIndex, readIndex)
  /\ UNCHANGED <<records, readIndex, writeIndex, wpc, wval, writeRefused, consumerVars>>
-----------------------------------------------------------------------------
(* The consumer.                                                           *)

(* read() or frontPtr(): the load of writeIndex_ finds a record. *)
ReadBegin ==
  /\ rpc = "idle"
  /\ readIndex # writeIndex
  /\ \/ rpc' = "move" /\ UNCHANGED ptr
     \/ rpc' = "pop" /\ ptr' = readIndex
  /\ rGuess' = NoGuess
  /\ UNCHANGED <<records, readIndex, writeIndex, producerVars, got, rLoad, taken, readRefused>>

(* read() or frontPtr(): the load of writeIndex_ finds the queue empty. *)
ReadEmpty ==
  /\ rpc = "idle"
  /\ readIndex = writeIndex
  /\ readRefused' = TRUE
  /\ UNCHANGED <<records, readIndex, writeIndex, producerVars, rpc, got, ptr, rLoad,
                 rGuess, taken>>

(* read(): record = std::move(records_[currentRead]). *)
ReadMove ==
  /\ rpc = "move"
  /\ got' = records[readIndex]
  /\ rpc' = "release"
  /\ UNCHANGED <<records, readIndex, writeIndex, producerVars, ptr, rLoad, rGuess,
                 taken, readRefused>>

(* The release store of readIndex_ that ends read() and popFront(). *)
GiveBack(next) ==
  /\ readIndex' = NextRecord(readIndex)
  /\ taken' = records[readIndex]
  /\ readRefused' = FALSE
  /\ rpc' = next
  /\ UNCHANGED <<records, writeIndex, producerVars, got, ptr, rLoad, rGuess>>

(* Mutant: popFront() does not store readIndex_. *)
PopFront_NoStore ==
  /\ rpc = "pop" /\ rpc' = "deref" /\ taken' = records[readIndex]
  /\ UNCHANGED <<records, readIndex, writeIndex, producerVars, got, ptr, rLoad, rGuess,
                 readRefused>>

ReadRelease == rpc = "release" /\ GiveBack("idle")
PopFront    == rpc = "pop" /\ GiveBack("deref")

(* The caller uses the pointer it took before popFront(). *)
Dereference ==
  /\ rpc = "deref"
  /\ got' = records[ptr]
  /\ rpc' = "idle"
  /\ UNCHANGED <<records, readIndex, writeIndex, producerVars, ptr, rLoad, rGuess,
                 taken, readRefused>>

(* sizeGuess() called by the consumer: writeIndex_ is loaded first. *)
ConsumerGuessLoad ==
  /\ rpc = "idle"
  /\ rLoad' = writeIndex
  /\ rpc' = "guess"
  /\ UNCHANGED <<records, readIndex, writeIndex, producerVars, got, ptr, rGuess,
                 taken, readRefused>>

ConsumerGuess ==
  /\ rpc = "guess"
  /\ rGuess' = SizeOf(rLoad, readIndex)
  /\ rpc' = "idle"
  /\ UNCHANGED <<records, readIndex, writeIndex, producerVars, got, ptr, rLoad,
                 taken, readRefused>>
-----------------------------------------------------------------------------
Producer == \/ \E v \in Value : WriteBegin(v)
            \/ WriteFull \/ WriteConstruct \/ WritePublish \/ ProducerGuess

Consumer == \/ ReadBegin \/ ReadEmpty \/ ReadMove \/ ReadRelease
            \/ PopFront \/ Dereference \/ ConsumerGuessLoad \/ ConsumerGuess

Next == Producer \/ Consumer

Spec == Init /\ [][Next]_vars

(* Neither call waits for anything, so a thread inside one finishes it; and *)
(* the consumer polls ("call in a loop"), so a record it can see is taken   *)
(* (strongly fair: between two polls it may ask for the size any number of  *)
(* times).                                                                  *)
FairSpec == /\ Spec
            /\ WF_vars(WriteConstruct \/ WritePublish)
            /\ WF_vars(ReadMove \/ ReadRelease \/ PopFront \/ Dereference \/ ConsumerGuess)
            /\ SF_vars(ReadBegin)
-----------------------------------------------------------------------------
(* Every variable holds a value of its C++ type; the indices stay in the ring. *)
TypeOK ==
  /\ records \in [Slots -> Value \cup {NoValue}]
  /\ readIndex \in Slots /\ writeIndex \in Slots
  /\ wpc \in {"idle", "construct", "publish"}
  /\ wval \in Value \cup {NoValue}
  /\ wpc # "idle" => wval \in Value
  /\ wGuess \in 0 .. Size
  /\ rpc \in {"idle", "move", "release", "pop", "deref", "guess"}
  /\ got \in Value \cup {NoValue} /\ taken \in Value \cup {NoValue}
  /\ ptr \in Slots /\ rLoad \in Slots
  /\ rGuess \in 0 .. Size
  /\ writeRefused \in BOOLEAN /\ readRefused \in BOOLEAN

Count == SizeOf(writeIndex, readIndex)

(* i-th slot of the queue's contents, counted from the front. *)
SlotAt(i) == IF readIndex + i - 1 < Size THEN readIndex + i - 1
                                         ELSE (readIndex + i - 1) - Size

(* The producer never constructs into a slot the consumer may still look   *)
(* at: the queued ones, and the one it has just given back and still holds *)
(* a pointer to.                                                           *)
NoOverwrite ==
  wpc # "idle" => /\ \A i \in 1 .. Count : SlotAt(i) # writeIndex
                  /\ rpc = "deref" => ptr # writeIndex

(* Whichever way a record leaves the queue, its caller receives the record *)
(* that was in the slot when it was given back - also when the pointer is  *)
(* dereferenced only after popFront(), with the producer running between.  *)
HandedOutIntact ==
  /\ rpc \in {"idle", "move", "pop", "guess"} => got = taken
  /\ rpc = "deref" => records[ptr] = taken

(* sizeGuess(): "If called by consumer, then true size may be more (because *)
(* producer may be adding items concurrently). If called by producer, then  *)
(* true size may be less".  Both stay true until the caller's next write or *)
(* read, which is how the driver uses the answer.                           *)
GuessesAreBounds ==
  /\ wGuess # NoGuess => Count <= wGuess
  /\ rGuess # NoGuess => rGuess <= Count

(* The slot of every record accepted by write() is eventually given back    *)
(* and its record in the hands of the consumer's caller.                    *)
AcceptedIsDelivered ==
  \A i \in Slots :
    (wpc = "publish" /\ writeIndex = i) ~> (rpc = "idle" /\ readIndex = NextRecord(i))

(* The ring implements the bounded FIFO of capacity size_ - 1. *)
fifo == [i \in 1 .. Count |-> records[SlotAt(i)]]
Fifo == INSTANCE BoundedFifo WITH Capacity <- Size - 1
ImplementsFifo == Fifo!Spec
=============================================================================
