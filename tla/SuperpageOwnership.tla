------------------------- MODULE SuperpageOwnership -------------------------
(***************************************************************************)
(* What DmaChannelInterface promises its user about superpages, for every  *)
(* card: a superpage is pushed, filled by the card or returned unfilled,   *)
(* moved to the ready queue, and popped from its front.  The user gets     *)
(* back exactly what it pushed, a "ready" superpage holds the data of this *)
(* transfer, and nobody writes into a superpage the user holds.  A driver  *)
(* drops a superpage only when its ready queue is full, or when DMA starts *)
(* anew.                                                                   *)
(***************************************************************************)
EXTENDS Naturals, Sequences

CONSTANTS Page,    \* the superpages of the user's buffer, by their offset
          Room     \* the entries the ready queue has room for

VARIABLES owner,   \* who has the page: "user", "card", "ready" or "dropped"
          filled,  \* the pages holding data written since they were pushed
          ready    \* the ready queue, entries [page, ready], oldest first

vars == <<owner, filled, ready>>

Init == /\ owner = [p \in Page |-> "user"]
        /\ filled = {}
        /\ ready = <<>>

(* pushSuperpage(), of a page the user holds or takes back *)
Push(p) == /\ owner[p] \in {"user", "dropped"}
           /\ owner' = [owner EXCEPT ![p] = "card"]
           /\ filled' = filled \ {p}
           /\ UNCHANGED ready

(* The card writes a page it was given. *)
Fill(p) == /\ owner[p] = "card" /\ p \notin filled
           /\ filled' = filled \cup {p}
           /\ UNCHANGED <<owner, ready>>

(* fillSuperpages() or stopDma(): the ready flag says whether it was filled. *)
Complete(p) == /\ owner[p] = "card" /\ Len(ready) < Room
               /\ owner' = [owner EXCEPT ![p] = "ready"]
               /\ ready' = Append(ready, [page |-> p, ready |-> p \in filled])
               /\ UNCHANGED filled

(* There is no room for it, and nobody told the user. *)
Drop(p) == /\ owner[p] = "card" /\ Len(ready) = Room
           /\ owner' = [owner EXCEPT ![p] = "dropped"]
           /\ UNCHANGED <<filled, ready>>

(* popSuperpage() *)
Pop == /\ ready # <<>>
       /\ owner' = [owner EXCEPT ![Head(ready).page] = "user"]
       /\ ready' = Tail(ready)
       /\ UNCHANGED filled

(* startDma() forgets what an earlier session left in the ready queue. *)
Forget == /\ owner' = [p \in Page |-> IF owner[p] = "ready" THEN "dropped" ELSE owner[p]]
          /\ ready' = <<>>
          /\ UNCHANGED filled

Next == \/ \E p \in Page : Push(p) \/ Fill(p) \/ Complete(p) \/ Drop(p)
        \/ Pop
        \/ Forget

Spec == Init /\ [][Next]_vars
=============================================================================
