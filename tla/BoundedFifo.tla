---------------------------- MODULE BoundedFifo ----------------------------
(***************************************************************************)
(* What folly::ProducerConsumerQueue promises its two callers: a bounded   *)
(* first-in-first-out queue with one producer and one consumer, in which   *)
(* write() is refused only by a full queue, read() only by an empty one,   *)
(* and the values handed out are the accepted ones, in their order.        *)
(***************************************************************************)
EXTENDS Naturals, Sequences

CONSTANTS Capacity,  \* records the queue can hold
          Value,     \* what the records hold
          NoValue    \* "nothing was handed out yet"

VARIABLES fifo,      \* the accepted records not handed out yet, oldest first
          taken,     \* the record handed out last
          writeRefused,  \* the last write() found it full
          readRefused    \* the last read() found it empty

vars == <<fifo, taken, writeRefused, readRefused>>

Init == /\ fifo = <<>>
        /\ taken = NoValue
        /\ writeRefused = FALSE /\ readRefused = FALSE

Accept(v) == /\ Len(fifo) < Capacity
             /\ fifo' = Append(fifo, v)
             /\ writeRefused' = FALSE
             /\ UNCHANGED <<taken, readRefused>>

RefuseWrite == /\ Len(fifo) = Capacity
               /\ writeRefused' = TRUE
               /\ UNCHANGED <<fifo, taken, readRefused>>

HandOut == /\ fifo # <<>>
           /\ taken' = Head(fifo)
           /\ fifo' = Tail(fifo)
           /\ readRefused' = FALSE
           /\ UNCHANGED writeRefused

RefuseRead == /\ fifo = <<>>
              /\ readRefused' = TRUE
              /\ UNCHANGED <<fifo, taken, writeRefused>>

Next == \/ \E v \in Value : Accept(v)
        \/ RefuseWrite
        \/ HandOut
        \/ RefuseRead

Spec == Init /\ [][Next]_vars
=============================================================================
