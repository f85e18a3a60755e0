------------------------ MODULE CruDmaChannelProofs ------------------------
(***************************************************************************)
(* For any number of links, descriptors and superpages: while DMA runs the *)
(* firmware never reports more superpages than the driver queued, it only  *)
(* ever writes superpages queued for it, in the order of the queue, and    *)
(* the ready flag is set exactly on the superpages it completed.           *)
(***************************************************************************)
EXTENDS CruDmaChannel, SequenceTheorems, FiniteSetTheorems, WellFoundedInduction, TLAPS

(* A queue that continues, or is the rest of, another one entry by entry. *)
LEMMA AppendByEntry ==
  ASSUME NEW S, NEW a \in Seq(S), NEW b \in Seq(S), Len(b) = Len(a) + 1,
         \A i \in 1 .. Len(a) : b[i] = a[i]
  PROVE  b = Append(a, b[Len(a) + 1])
<1> DEFINE n == Len(a)
           e == b[n + 1]
           c == Append(a, e)
<1>1. n \in Nat /\ n + 1 \in 1 .. Len(b)
  BY LenProperties
<1>2. e \in S
  BY <1>1, ElementOfSeq
<1>3. /\ c \in Seq(S) /\ Len(c) = n + 1 /\ c[n + 1] = e
      /\ \A i \in 1 .. n : c[i] = a[i]
  BY <1>2, AppendProperties
<1> HIDE DEF c
<1>4. ASSUME NEW i \in 1 .. Len(b) PROVE b[i] = c[i]
  <2>1. i \in 1 .. n \/ i = n + 1
    BY <1>1
  <2> QED BY <1>3, <2>1
<1>5. b = c
  BY <1>3, <1>4, SeqEqual
<1> QED BY <1>5 DEF c

LEMMA TailByEntry ==
  ASSUME NEW S, NEW a \in Seq(S), NEW b \in Seq(S), a # <<>>, Len(b) = Len(a) - 1,
         \A i \in 1 .. Len(b) : b[i] = a[i + 1]
  PROVE  b = Tail(a) /\ Head(a) = a[1]
<1>1. /\ Tail(a) \in Seq(S) /\ Len(Tail(a)) = Len(b)
      /\ \A i \in 1 .. Len(b) : Tail(a)[i] = b[i]
  BY HeadTailProperties
<1>2. b = Tail(a)
  BY <1>1, SeqEqual
<1> QED BY <1>2
-----------------------------------------------------------------------------
(* The ready queue as the ownership protocol of DmaChannelInterface sees it: *)
(* its entries cut down to page and flag.                                    *)
Shown(entry) == [page |-> entry.page, ready |-> entry.ready]
AllShown(queue) == [i \in DOMAIN queue |-> [page |-> queue[i].page, ready |-> queue[i].ready]]

LEMMA ShownIs ==
  ASSUME NEW S, NEW q \in Seq(S)
  PROVE  /\ AllShown(q) \in Seq({Shown(e) : e \in S})
         /\ Len(AllShown(q)) = Len(q) /\ Len(q) \in Nat
         /\ \A i \in 1 .. Len(q) : AllShown(q)[i] = Shown(q[i])
<1>1. Len(q) \in Nat /\ DOMAIN q = 1 .. Len(q)
  BY LenProperties
<1>2. \A i \in 1 .. Len(q) : Shown(q[i]) \in {Shown(e) : e \in S}
  BY ElementOfSeq
<1>3. AllShown(q) = [i \in 1 .. Len(q) |-> Shown(q[i])]
  BY <1>1 DEF AllShown, Shown
<1> HIDE DEF Shown
<1>4. AllShown(q) \in [1 .. Len(q) -> {Shown(e) : e \in S}]
  BY <1>2, <1>3
<1>5. AllShown(q) \in Seq({Shown(e) : e \in S})
  BY <1>1, <1>4, SeqDef
<1>6. Len(AllShown(q)) = Len(q)
  BY <1>1, <1>4, <1>5, LenProperties
<1> QED BY <1>1, <1>3, <1>5, <1>6

LEMMA ShownEmpty ==
  ASSUME NEW S, NEW q \in Seq(S)
  PROVE  q = <<>> <=> AllShown(q) = <<>>
<1>1. Len(q) = 0 <=> q = <<>>
  BY EmptySeq
<1>2. Len(AllShown(q)) = 0 <=> AllShown(q) = <<>>
  BY ShownIs, EmptySeq
<1> QED BY <1>1, <1>2, ShownIs

LEMMA ShownAppend ==
  ASSUME NEW S, NEW q \in Seq(S), NEW e \in S
  PROVE  AllShown(Append(q, e)) = Append(AllShown(q), Shown(e))
<1> DEFINE T == {Shown(x) : x \in S}
           r == Append(q, e)
           a == AllShown(q)
           b == AllShown(r)
<1>1. /\ r \in Seq(S) /\ Len(r) = Len(q) + 1 /\ r[Len(q) + 1] = e
      /\ \A i \in 1 .. Len(q) : r[i] = q[i]
  BY AppendProperties
<1>2. /\ a \in Seq(T) /\ Len(a) = Len(q) /\ Len(q) \in Nat
      /\ \A i \in 1 .. Len(q) : a[i] = Shown(q[i])
  BY ShownIs
<1> HIDE DEF r, a, Shown
<1>3. b \in Seq(T) /\ Len(b) = Len(r) /\ \A i \in 1 .. Len(r) : b[i] = Shown(r[i])
  BY <1>1, ShownIs
<1> HIDE DEF b, T
<1>4. Len(a) + 1 \in 1 .. Len(r) /\ \A i \in 1 .. Len(a) : i \in 1 .. Len(r)
  BY <1>1, <1>2
<1>5. Len(b) = Len(a) + 1 /\ b[Len(a) + 1] = Shown(e) /\ \A i \in 1 .. Len(a) : b[i] = a[i]
  BY <1>1, <1>2, <1>3, <1>4
<1>6. b = Append(a, Shown(e))
  BY <1>2, <1>3, <1>5, AppendByEntry
<1> QED BY <1>6 DEF a, b, r

LEMMA ShownTail ==
  ASSUME NEW S, NEW q \in Seq(S), q # <<>>
  PROVE  /\ AllShown(Tail(q)) = Tail(AllShown(q))
         /\ Head(AllShown(q)) = Shown(Head(q))
<1> DEFINE T == {Shown(x) : x \in S}
           r == Tail(q)
           a == AllShown(q)
           b == AllShown(r)
<1>1. /\ r \in Seq(S) /\ Len(r) = Len(q) - 1 /\ Len(r) \in Nat /\ Head(q) = q[1]
      /\ \A i \in 1 .. Len(r) : r[i] = q[i + 1]
  BY HeadTailProperties, LenProperties
<1>2. /\ a \in Seq(T) /\ Len(a) = Len(q) /\ Len(q) \in Nat
      /\ \A i \in 1 .. Len(q) : a[i] = Shown(q[i])
  BY ShownIs
<1>3. a # <<>>
  BY ShownEmpty
<1> HIDE DEF r, a, Shown
<1>4. b \in Seq(T) /\ Len(b) = Len(r) /\ \A i \in 1 .. Len(r) : b[i] = Shown(r[i])
  BY <1>1, ShownIs
<1> HIDE DEF b, T
<1>5. 1 \in 1 .. Len(q) /\ \A i \in 1 .. Len(r) : i + 1 \in 1 .. Len(q)
  BY <1>1, <1>2
<1>6. Len(b) = Len(a) - 1 /\ \A i \in 1 .. Len(b) : b[i] = a[i + 1]
  BY <1>1, <1>2, <1>4, <1>5
<1>7. b = Tail(a) /\ Head(a) = a[1]
  BY <1>2, <1>3, <1>4, <1>6, TailByEntry
<1>8. Head(a) = Shown(Head(q))
  BY <1>1, <1>2, <1>5, <1>7
<1> QED BY <1>7, <1>8 DEF a, b, r
-----------------------------------------------------------------------------
(* A session: the queues, counters and FIFOs of driver and card belong      *)
(* together, until stopDma() starts to reclaim.                             *)
Session == dmaState = "STARTED" \/ (stopping /\ pc # "reclaim")

(* Superpages the firmware has completed and the driver not collected. *)
Behind == [l \in Links |-> Diff(fwCount[l], superpageCounter[l])]
(* A superpage queued whose descriptor is not pushed yet. *)
Pending == [l \in Links |-> IF pc = "descriptor" /\ cur = l THEN 1 ELSE 0]

ControlInv ==
  /\ engineOn <=> dmaState = "STARTED"
  /\ stopping => dmaState = "STOPPED" /\ pc \in {"fill", "transfer", "reclaim"}
  /\ pc = "reclaim" => stopping
  /\ pc = "descriptor" => dmaState = "STARTED"

(* The queue of a link is what was completed, then what the card still has. *)
QueueShape ==
  Session => \A l \in Links :
    /\ Len(linkQueue[l]) = Behind[l] + Len(descFifo[l]) + Pending[l]
    /\ Len(linkQueue[l]) <= LinkCap
QueueMatch ==
  Session => \A l \in Links : \A i \in 1 .. Len(descFifo[l]) :
    descFifo[l][i] = linkQueue[l][Behind[l] + i]
FilledPrefix ==
  Session => \A l \in Links : \A i \in 1 .. Len(linkQueue[l]) :
    content[linkQueue[l][i]] # 0 <=> i <= Behind[l]

AmountInv ==
  pc = "transfer" =>
    /\ amount > 0 => Session /\ amount <= Behind[cur]
    /\ stopping => amount = Behind[cur]

(* Links stopDma() is done with hold no completed superpage, unless the     *)
(* ready queue is full and stays so.                                        *)
DrainInv ==
  stopping => \A l \in Links : l < cur \/ pc = "reclaim" =>
    ReadyFull \/ \A i \in 1 .. Len(linkQueue[l]) : content[linkQueue[l][i]] = 0

(* reclaimSuperpages() empties the links one after the other. *)
ReclaimInv == pc = "reclaim" => \A l \in Links : l < cur => linkQueue[l] = <<>>

OwnerInv ==
  /\ \A l \in Links : \A i \in 1 .. Len(linkQueue[l]) : owner[linkQueue[l][i]] = "card"
  /\ \A i \in 1 .. Len(readyQueue) : owner[readyQueue[i].page] = "ready"
QueuedOnce ==
  \A l, m \in Links : \A i \in 1 .. Len(linkQueue[l]), j \in 1 .. Len(linkQueue[m]) :
    linkQueue[l][i] = linkQueue[m][j] => l = m /\ i = j
ReadyOnce ==
  \A i, j \in 1 .. Len(readyQueue) : readyQueue[i].page = readyQueue[j].page => i = j
-----------------------------------------------------------------------------
IInv == /\ TypeOK /\ ControlInv
        /\ QueueShape /\ QueueMatch /\ FilledPrefix
        /\ AmountInv /\ DrainInv /\ ReclaimInv /\ StoppedMeansReclaimed
        /\ OwnerInv /\ QueuedOnce /\ ReadyOnce
        /\ ReadyMeansFilled
-----------------------------------------------------------------------------
USE ConstantsAssumption

LEMMA DiffType ==
  ASSUME NEW a \in 0 .. CounterMod - 1, NEW b \in 0 .. CounterMod - 1
  PROVE  /\ Diff(a, b) \in 0 .. CounterMod - 1
         /\ Inc(a, CounterMod) \in 0 .. CounterMod - 1
         /\ Diff(a, a) = 0
BY DEF Diff, Inc

(* One more superpage completed; one more collected. *)
LEMMA DiffGrows ==
  ASSUME NEW a \in 0 .. CounterMod - 1, NEW b \in 0 .. CounterMod - 1,
         Diff(a, b) + 1 < CounterMod
  PROVE  Diff(Inc(a, CounterMod), b) = Diff(a, b) + 1
BY DEF Diff, Inc

LEMMA DiffShrinks ==
  ASSUME NEW a \in 0 .. CounterMod - 1, NEW b \in 0 .. CounterMod - 1,
         Diff(a, b) > 0
  PROVE  Diff(a, Inc(b, CounterMod)) = Diff(a, b) - 1
BY DEF Diff, Inc

LEMMA IndexType ==
  ASSUME NEW a \in 0 .. IndexMod - 1
  PROVE  Inc(a, IndexMod) \in 0 .. IndexMod - 1
BY DEF Inc

(* A nonempty set of numbers has a least element. *)
LEMMA LeastNumber ==
  ASSUME NEW T, T \subseteq Nat, T # {}
  PROVE  \E n \in T : \A m \in T : n <= m
<1> DEFINE Smaller == {ss \in Nat \X Nat : ss[1] < ss[2]}
<1>1. IsWellFoundedOn(Smaller, Nat)
  BY NatLessThanWellFounded DEF OpToRel
<1>2. PICK n \in T : \A m \in T : <<m, n>> \notin Smaller
  <2> HIDE DEF Smaller
  <2> QED BY <1>1, WFMin
<1>3. \A m \in T : ~(m < n)
  <2> SUFFICES ASSUME NEW m \in T, m < n PROVE FALSE
    OBVIOUS
  <2>1. <<m, n>> \in Smaller
    OBVIOUS
  <2> QED BY <1>2, <2>1
<1> QED BY <1>3

(* So getNextLinkIndex() finds a link, and none has a shorter queue. *)
LEMMA NextLinkShortest ==
  ASSUME TypeOK
  PROVE  /\ NextLink \in Links
         /\ \A m \in Links : Len(linkQueue[NextLink]) <= Len(linkQueue[m])
<1> DEFINE Lengths == {Len(linkQueue[l]) : l \in Links}
           Shorter(l, m) == \/ Len(linkQueue[l]) < Len(linkQueue[m])
                            \/ Len(linkQueue[l]) = Len(linkQueue[m]) /\ l <= m
<1>1. 1 \in Links /\ Links \subseteq Nat
  BY DEF Links
<1>2. \A l \in Links : Len(linkQueue[l]) \in Nat
  BY DEF TypeOK
<1>3. PICK n \in Lengths : \A k \in Lengths : n <= k
  <2>1. Lengths # {} /\ Lengths \subseteq Nat
    BY <1>1, <1>2
  <2> HIDE DEF Lengths
  <2> QED BY <2>1, LeastNumber
<1> DEFINE Shortest == {l \in Links : Len(linkQueue[l]) = n}
<1>4. PICK l \in Shortest : \A m \in Shortest : l <= m
  <2>1. Shortest # {} /\ Shortest \subseteq Nat
    BY <1>1, <1>3
  <2> HIDE DEF Shortest
  <2> QED BY <2>1, LeastNumber
<1>5. l \in Links /\ \A m \in Links : Shorter(l, m)
  BY <1>1, <1>2, <1>3, <1>4
<1>6. NextLink \in Links /\ \A m \in Links : Shorter(NextLink, m)
  BY <1>5 DEF NextLink
<1> QED BY <1>2, <1>6

-----------------------------------------------------------------------------
(* What TypeOK says of a queue element by element. *)
LEMMA QueueTypes ==
  ASSUME TypeOK
  PROVE  /\ \A l \in Links :
              /\ linkQueue[l] \in Seq(Page) /\ Len(linkQueue[l]) \in Nat
              /\ descFifo[l] \in Seq(Page) /\ Len(descFifo[l]) \in Nat
              /\ \A i \in 1 .. Len(linkQueue[l]) : linkQueue[l][i] \in Page
              /\ \A i \in 1 .. Len(descFifo[l]) : descFifo[l][i] \in Page
              /\ Behind[l] \in 0 .. CounterMod - 1 /\ Pending[l] \in {0, 1}
         /\ Len(readyQueue) \in Nat /\ DOMAIN readyQueue = 1 .. Len(readyQueue)
         /\ \A i \in 1 .. Len(readyQueue) :
              readyQueue[i] \in ReadyEntry /\ readyQueue[i].page \in Page
<1>1. \A l \in Links : /\ linkQueue[l] \in Seq(Page) /\ Len(linkQueue[l]) \in Nat
                       /\ descFifo[l] \in Seq(Page) /\ Len(descFifo[l]) \in Nat
  BY DEF TypeOK
<1>6. \A l \in Links : Behind[l] \in 0 .. CounterMod - 1
  BY DiffType DEF TypeOK, Behind
<1>7. \A l \in Links : Pending[l] \in {0, 1}
  BY DEF Pending
<1>2. \A l \in Links : \A i \in 1 .. Len(linkQueue[l]) : linkQueue[l][i] \in Page
  BY <1>1, ElementOfSeq
<1>3. \A l \in Links : \A i \in 1 .. Len(descFifo[l]) : descFifo[l][i] \in Page
  BY <1>1, ElementOfSeq
<1>4. Len(readyQueue) \in Nat /\ DOMAIN readyQueue = 1 .. Len(readyQueue)
  BY LenProperties DEF TypeOK
<1>5. \A i \in 1 .. Len(readyQueue) : readyQueue[i] \in ReadyEntry
  BY ElementOfSeq DEF TypeOK
<1> QED BY <1>1, <1>2, <1>3, <1>4, <1>5, <1>6, <1>7 DEF ReadyEntry

LEMMA InitIInv == Init => IInv
<1> SUFFICES ASSUME Init PROVE IInv
  OBVIOUS
<1>1. /\ Zero \in [Links -> 0 .. CounterMod - 1] /\ Zero \in [Links -> 0 .. IndexMod - 1]
      /\ Empty \in [Links -> Seq(Page)]
      /\ \A l \in Links : Len(Empty[l]) = 0 /\ Empty[l] = <<>> /\ Zero[l] = 0
      /\ 1 \in Links /\ TotalSlots + 1 \in Nat
  BY DEF Zero, Empty, Links, TotalSlots
<1>2. TypeOK
  <2>1. Empty \in [Links -> Seq([size : 1 .. FullSize, index : 0 .. IndexMod - 1])]
    BY DEF Empty
  <2>2. <<>> \in Seq(ReadyEntry)
    OBVIOUS
  <2>3. /\ content \in [Page -> 0 .. FullSize]
        /\ owner \in [Page -> {"user", "card", "ready", "dropped"}]
    BY DEF Init
  <2>4. available \in Nat
    BY <1>1 DEF Init
  <2> QED BY <1>1, <2>1, <2>2, <2>3, <2>4 DEF Init, TypeOK
<1>3. ~Session /\ Len(readyQueue) = 0
  BY DEF Init, Session
<1>4. ReadyMeansFilled /\ ReadyOnce
  BY DEF Init, ReadyMeansFilled, ReadyOnce
<1>5. ControlInv /\ AmountInv /\ DrainInv /\ ReclaimInv
  BY DEF Init, ControlInv, AmountInv, DrainInv, ReclaimInv
<1>6. StoppedMeansReclaimed /\ OwnerInv /\ QueuedOnce
  BY <1>1, <1>3 DEF Init, StoppedMeansReclaimed, OwnerInv, QueuedOnce
<1>7. QueueShape /\ QueueMatch /\ FilledPrefix
  BY <1>3 DEF QueueShape, QueueMatch, FilledPrefix
<1> QED BY <1>2, <1>4, <1>5, <1>6, <1>7 DEF IInv

(* The engine completes the first superpage of the queue not filled yet. *)
LEMMA FillTakes ==
  ASSUME IInv, NEW l \in Links, FirmwareFill(l)
  PROVE  /\ Session /\ Behind[l] \in Nat /\ Behind'[l] = Behind[l] + 1
         /\ \A m \in Links : m # l => Behind'[m] = Behind[m]
         /\ Head(descFifo[l]) \in Page
         /\ Head(descFifo[l]) = linkQueue[l][Behind[l] + 1]
         /\ Behind[l] + 1 \in 1 .. Len(linkQueue[l])
<1> DEFINE p == Head(descFifo[l])
<1>1. UNCHANGED <<dmaState, superpageCounter>>
  BY DEF FirmwareFill, driverVars
<1>2. Session
  BY DEF FirmwareFill, IInv, ControlInv, Session
<1>0. TypeOK
  BY DEF IInv
<1>3. /\ descFifo[l] \in Seq(Page) /\ descFifo[l] # <<>>
      /\ Len(descFifo[l]) \in Nat /\ Len(linkQueue[l]) \in Nat /\ Pending[l] \in {0, 1}
  BY <1>0, QueueTypes DEF FirmwareFill
<1>4. p \in Page /\ Len(descFifo[l]) >= 1 /\ p = descFifo[l][1]
  BY <1>3, HeadTailProperties, EmptySeq
<1>6. /\ Behind[l] \in 0 .. CounterMod - 1 /\ Len(linkQueue[l]) <= LinkCap
      /\ Len(linkQueue[l]) = Behind[l] + Len(descFifo[l]) + Pending[l]
  BY <1>0, <1>2, QueueTypes DEF IInv, QueueShape
<1>5. /\ Behind[l] \in Nat /\ Behind[l] + 1 \in 1 .. Len(linkQueue[l])
      /\ Behind[l] + 1 < CounterMod
  <2> DEFINE b == Behind[l]
             d == Len(descFifo[l])
             w == Pending[l]
             n == Len(linkQueue[l])
  <2>1. /\ b \in Nat /\ d \in Nat /\ w \in Nat /\ n \in Nat
        /\ n = b + d + w /\ d >= 1 /\ n <= LinkCap
    BY <1>3, <1>4, <1>6
  <2> HIDE DEF b, d, w, n
  <2>2. b \in Nat /\ b + 1 \in 1 .. n /\ b + 1 < CounterMod
    BY <2>1
  <2> QED BY <2>2 DEF b, n
<1>7. Behind'[l] = Behind[l] + 1
  <2>1. Diff(fwCount[l], superpageCounter[l]) + 1 < CounterMod
    BY <1>5 DEF Behind
  <2>2. fwCount'[l] = Inc(fwCount[l], CounterMod)
    BY DEF FirmwareFill, IInv, TypeOK
  <2> QED BY <1>1, <2>1, <2>2, DiffGrows DEF Behind, IInv, TypeOK
<1>8. \A m \in Links : m # l => Behind'[m] = Behind[m]
  BY <1>1 DEF FirmwareFill, Behind, IInv, TypeOK
<1>9. p = linkQueue[l][Behind[l] + 1] /\ Behind[l] + 1 \in 1 .. Len(linkQueue[l])
  <2>1. 1 \in 1 .. Len(descFifo[l]) /\ l \in Links
    BY <1>3, <1>4
  <2>2. descFifo[l][1] = linkQueue[l][Behind[l] + 1]
    <3>1. \A i \in 1 .. Len(descFifo[l]) : descFifo[l][i] = linkQueue[l][Behind[l] + i]
      BY <1>2, <2>1 DEF IInv, QueueMatch
    <3> QED BY <2>1, <3>1
  <2> QED BY <1>4, <1>5, <2>2
<1> QED BY <1>2, <1>4, <1>5, <1>7, <1>8, <1>9

LEMMA FirmwareFillStep ==
  ASSUME IInv, NEW l \in Links, FirmwareFill(l)
  PROVE  IInv'
<1> DEFINE p == Head(descFifo[l])
<1>1. UNCHANGED <<dmaState, linkQueue, superpageCounter, available, readyQueue, sizeIndex,
                  pc, stopping, cur, amount, outcome, engineOn, owner>>
  BY DEF FirmwareFill, driverVars, callVars
<1>2. Session /\ ~stopping /\ pc # "reclaim"
  BY DEF FirmwareFill, IInv, ControlInv, Session
<1>0. TypeOK
  BY DEF IInv
<1>3. /\ descFifo[l] \in Seq(Page) /\ descFifo[l] # <<>>
      /\ \A m \in Links : Len(descFifo[m]) \in Nat /\ Len(linkQueue[m]) \in Nat
      /\ \A m \in Links : Pending[m] \in {0, 1} /\ Pending'[m] = Pending[m]
  BY <1>0, <1>1, QueueTypes DEF FirmwareFill, Pending
<1>4. /\ Tail(descFifo[l]) \in Seq(Page) /\ p \in Page
      /\ Len(Tail(descFifo[l])) = Len(descFifo[l]) - 1 /\ Len(descFifo[l]) >= 1
      /\ \A i \in 1 .. Len(descFifo[l]) - 1 : Tail(descFifo[l])[i] = descFifo[l][i + 1]
      /\ p = descFifo[l][1]
  BY <1>3, HeadTailProperties
<1>5. descFifo' = [descFifo EXCEPT ![l] = Tail(@)]
  BY DEF FirmwareFill
<1>6. /\ \A m \in Links : Behind[m] \in 0 .. CounterMod - 1
      /\ Len(linkQueue[l]) = Behind[l] + Len(descFifo[l]) + Pending[l]
      /\ Len(linkQueue[l]) <= LinkCap
  BY <1>0, <1>2, QueueTypes DEF IInv, QueueShape
<1>7. Behind'[l] = Behind[l] + 1
  BY FillTakes
<1>8. \A m \in Links : m # l => Behind'[m] = Behind[m]
  BY FillTakes
<1>9. p = linkQueue[l][Behind[l] + 1] /\ Behind[l] + 1 \in 1 .. Len(linkQueue[l])
  BY FillTakes
<1>10. /\ content' \in [Page -> 0 .. FullSize] /\ content'[p] # 0
       /\ \A x \in Page : x # p => content'[x] = content[x]
  BY <1>4 DEF FirmwareFill, IInv, TypeOK
<1>11. TypeOK'
  <2>1. sizeFifo' \in [Links -> Seq([size : 1 .. FullSize, index : 0 .. IndexMod - 1])]
    <3>1. PICK size \in 1 .. FullSize :
            sizeFifo' = [sizeFifo EXCEPT ![l] =
              IF SizeReported THEN Append(@, [size |-> size, index |-> fwIndex[l]]) ELSE @]
      BY DEF FirmwareFill
    <3>2. [size |-> size, index |-> fwIndex[l]]
            \in [size : 1 .. FullSize, index : 0 .. IndexMod - 1]
      BY DEF IInv, TypeOK
    <3> QED BY <3>1, <3>2, AppendProperties DEF IInv, TypeOK
  <2>2. descFifo' \in [Links -> Seq(Page)]
    BY <1>4, <1>5 DEF IInv, TypeOK
  <2>3. fwCount' \in [Links -> 0 .. CounterMod - 1]
    BY DiffType DEF FirmwareFill, IInv, TypeOK
  <2>4. fwIndex' \in [Links -> 0 .. IndexMod - 1]
    BY IndexType DEF FirmwareFill, IInv, TypeOK
  <2> QED BY <1>1, <1>10, <2>1, <2>2, <2>3, <2>4 DEF IInv, TypeOK
<1>12. ControlInv' /\ ReclaimInv' /\ StoppedMeansReclaimed' /\ DrainInv'
  BY <1>1, <1>2 DEF IInv, ControlInv, ReclaimInv, StoppedMeansReclaimed, DrainInv
<1>13. OwnerInv' /\ QueuedOnce' /\ ReadyOnce'
  BY <1>1 DEF IInv, OwnerInv, QueuedOnce, ReadyOnce
<1>14. QueueShape'
  <2>1. \A m \in Links : /\ Len(linkQueue[m]) = Behind[m] + Len(descFifo[m]) + Pending[m]
                         /\ Len(linkQueue[m]) <= LinkCap
    BY <1>2 DEF IInv, QueueShape
  <2>2. \A m \in Links : Len(descFifo'[m]) = IF m = l THEN Len(descFifo[m]) - 1
                                                       ELSE Len(descFifo[m])
    BY <1>4, <1>5 DEF IInv, TypeOK
  <2>3. \A m \in Links : Behind'[m] + Len(descFifo'[m]) + Pending'[m]
                           = Behind[m] + Len(descFifo[m]) + Pending[m]
    <3> SUFFICES ASSUME NEW m \in Links
                 PROVE  Behind'[m] + Len(descFifo'[m]) + Pending'[m]
                          = Behind[m] + Len(descFifo[m]) + Pending[m]
      OBVIOUS
    <3>1. CASE m = l
      <4>1. /\ Behind[l] \in Nat /\ Len(descFifo[l]) \in Nat /\ Pending[l] \in Nat
            /\ Len(descFifo'[l]) = Len(descFifo[l]) - 1 /\ Pending'[l] = Pending[l]
        BY <1>3, <1>6, <2>2
      <4>2. Behind'[l] + Len(descFifo'[l]) + Pending'[l]
              = Behind[l] + Len(descFifo[l]) + Pending[l]
        <5> DEFINE b == Behind[l]
                   d == Len(descFifo[l])
                   q == Pending[l]
        <5>1. Behind'[l] = b + 1 /\ Len(descFifo'[l]) = d - 1 /\ Pending'[l] = q
          BY <1>7, <4>1
        <5>2. b \in Nat /\ d \in Nat /\ q \in Nat
          BY <4>1
        <5> HIDE DEF b, d, q
        <5>3. (b + 1) + (d - 1) + q = b + d + q
          BY <5>2
        <5>4. Behind'[l] + Len(descFifo'[l]) + Pending'[l] = b + d + q
          BY <5>1, <5>3
        <5> QED BY <5>4 DEF b, d, q
      <4> QED BY <3>1, <4>2
    <3>2. CASE m # l
      BY <1>3, <1>8, <2>2, <3>2
    <3> QED BY <3>1, <3>2
  <2> QED BY <1>1, <2>1, <2>3 DEF QueueShape
<1>15. QueueMatch'
  <2> SUFFICES ASSUME NEW m \in Links, NEW i \in 1 .. Len(descFifo'[m])
               PROVE  descFifo'[m][i] = linkQueue[m][Behind'[m] + i]
    BY <1>1 DEF QueueMatch
  <2>1. CASE m = l
    <3>1. descFifo'[l] = Tail(descFifo[l])
      BY <1>5 DEF IInv, TypeOK
    <3>2. i + 1 \in 1 .. Len(descFifo[l]) /\ descFifo'[l][i] = descFifo[l][i + 1]
      BY <1>3, <1>4, <2>1, <3>1
    <3>3. descFifo[l][i + 1] = linkQueue[l][Behind[l] + (i + 1)]
      BY <1>2, <3>2 DEF IInv, QueueMatch
    <3>4. Behind[l] + (i + 1) = Behind'[l] + i
      BY <1>6, <1>7
    <3> QED BY <2>1, <3>2, <3>3, <3>4
  <2>2. CASE m # l
    <3>1. descFifo'[m] = descFifo[m]
      BY <1>5, <2>2 DEF IInv, TypeOK
    <3> QED BY <1>2, <1>8, <2>2, <3>1 DEF IInv, QueueMatch
  <2> QED BY <2>1, <2>2
<1>16. FilledPrefix'
  <2> SUFFICES ASSUME NEW m \in Links, NEW i \in 1 .. Len(linkQueue[m])
               PROVE  content'[linkQueue[m][i]] # 0 <=> i <= Behind'[m]
    BY <1>1 DEF FilledPrefix
  <2>1. linkQueue[m][i] \in Page
    BY <1>0, QueueTypes
  <2>2. linkQueue[m][i] = p <=> m = l /\ i = Behind[l] + 1
    BY <1>9 DEF IInv, QueuedOnce
  <2>3. content[linkQueue[m][i]] # 0 <=> i <= Behind[m]
    BY <1>2 DEF IInv, FilledPrefix
  <2>4. CASE linkQueue[m][i] = p
    BY <1>6, <1>7, <1>10, <2>2, <2>4
  <2>5. CASE linkQueue[m][i] # p
    BY <1>6, <1>7, <1>8, <1>10, <2>1, <2>2, <2>3, <2>5
  <2> QED BY <2>4, <2>5
<1>17. AmountInv'
  <2>1. cur \in Links /\ amount \in Nat
    BY DEF IInv, TypeOK
  <2>2. Behind'[cur] >= Behind[cur] /\ Behind[cur] \in Nat /\ Behind'[cur] \in Nat
    BY <1>6, <1>7, <1>8, <2>1
  <2>3. Session'
    BY <1>1, <1>2 DEF Session
  <2> QED BY <1>1, <1>2, <2>1, <2>2, <2>3 DEF IInv, AmountInv
<1>18. ReadyMeansFilled'
  <2> SUFFICES ASSUME NEW i \in DOMAIN readyQueue
               PROVE  readyQueue[i].ready <=> content'[readyQueue[i].page] # 0
    BY <1>1 DEF ReadyMeansFilled
  <2>1. i \in 1 .. Len(readyQueue) /\ readyQueue[i].page \in Page
    BY <1>0, QueueTypes
  <2>2. owner[readyQueue[i].page] = "ready" /\ owner[p] = "card"
    BY <1>9, <2>1 DEF IInv, OwnerInv
  <2> QED BY <1>10, <2>1, <2>2 DEF IInv, ReadyMeansFilled
<1> QED
  BY <1>11, <1>12, <1>13, <1>14, <1>15, <1>16, <1>17, <1>18 DEF IInv

-----------------------------------------------------------------------------
(* Steps that move no superpage: only control conjuncts are at stake. *)
LEMMA QuietStep ==
  ASSUME IInv, TypeOK', ControlInv', AmountInv', DrainInv', ReclaimInv',
         StoppedMeansReclaimed',
         UNCHANGED <<linkQueue, superpageCounter, readyQueue, descFifo, fwCount,
                     content, owner>>,
         Session' => Session, Pending' = Pending
  PROVE  IInv'
<1>1. Behind' = Behind
  BY DEF Behind
<1>2. QueueShape' /\ QueueMatch' /\ FilledPrefix'
  BY <1>1 DEF IInv, QueueShape, QueueMatch, FilledPrefix
<1>3. OwnerInv' /\ QueuedOnce' /\ ReadyOnce' /\ ReadyMeansFilled'
  BY DEF IInv, OwnerInv, QueuedOnce, ReadyOnce, ReadyMeansFilled
<1> QED BY <1>2, <1>3 DEF IInv

LEMMA PushRefusedStep ==
  ASSUME IInv, PushRefused
  PROVE  IInv'
<1>1. UNCHANGED <<driverVars, pc, stopping, cur, amount, fwVars, bufferVars>>
  BY DEF PushRefused
<1>2. TypeOK'
  BY <1>1 DEF PushRefused, Obstacle, IInv, TypeOK, driverVars, fwVars, bufferVars
<1>3. /\ Session' = Session /\ Pending' = Pending /\ Behind' = Behind
      /\ ReadyFull' = ReadyFull
  BY <1>1 DEF Session, Pending, Behind, ReadyFull, driverVars, fwVars
<1>4. ControlInv' /\ ReclaimInv' /\ StoppedMeansReclaimed'
  BY <1>1 DEF IInv, ControlInv, ReclaimInv, StoppedMeansReclaimed, driverVars, fwVars
<1>5. AmountInv' /\ DrainInv'
  BY <1>1, <1>3 DEF IInv, AmountInv, DrainInv, driverVars, bufferVars
<1> QED BY <1>1, <1>2, <1>3, <1>4, <1>5, QuietStep DEF driverVars, fwVars, bufferVars

LEMMA FillSuperpagesStep ==
  ASSUME IInv, FillSuperpages
  PROVE  IInv'
<1>1. UNCHANGED <<driverVars, stopping, amount, fwVars, bufferVars>>
  BY DEF FillSuperpages
<1>2. ~stopping /\ pc = "idle" /\ pc' = "fill" /\ cur' = 1 /\ outcome' = "ok"
  BY DEF FillSuperpages, IInv, ControlInv
<1>3. TypeOK'
  <2>1. cur' \in Links
    BY <1>2 DEF Links
  <2> QED BY <1>1, <1>2, <2>1 DEF IInv, TypeOK, driverVars, fwVars, bufferVars
<1>4. (Session' => Session) /\ Pending' = Pending
  BY <1>1, <1>2 DEF Session, Pending, driverVars
<1>5. ControlInv' /\ ReclaimInv' /\ StoppedMeansReclaimed' /\ AmountInv' /\ DrainInv'
  BY <1>1, <1>2 DEF IInv, ControlInv, ReclaimInv, StoppedMeansReclaimed, AmountInv,
                    DrainInv, driverVars, fwVars
<1> QED BY <1>1, <1>3, <1>4, <1>5, QuietStep DEF driverVars, fwVars, bufferVars

(* In a session the count of the firmware is within the queue. *)
LEMMA ArrivedIsBehind ==
  ASSUME IInv
  PROVE  /\ Arrived = Behind[cur] /\ Arrived \in Nat
         /\ Session => Arrived <= Len(linkQueue[cur])
         /\ ~Session /\ ~stopping => Len(linkQueue[cur]) = 0
<1>1. TypeOK /\ cur \in Links
  BY DEF IInv, TypeOK
<1>2. Arrived = Behind[cur] /\ Arrived \in Nat
  BY <1>1, QueueTypes DEF Arrived, Behind
<1>3. Session => Arrived <= Len(linkQueue[cur])
  BY <1>1, <1>2, QueueTypes DEF IInv, QueueShape
<1>4. ~Session /\ ~stopping => Len(linkQueue[cur]) = 0
  BY <1>1 DEF IInv, Session, StoppedMeansReclaimed, TypeOK
<1> QED BY <1>2, <1>3, <1>4

LEMMA ReadCountStep ==
  ASSUME IInv, ReadCount
  PROVE  IInv'
<1>1. UNCHANGED <<driverVars, stopping, cur, outcome, fwVars, bufferVars>>
  BY DEF ReadCount
<1>2. pc = "fill" /\ pc' = "transfer" /\ amount' = Behind[cur] /\ amount' \in Nat
  BY ArrivedIsBehind DEF ReadCount
<1>3. TypeOK'
  BY <1>1, <1>2 DEF IInv, TypeOK, driverVars, fwVars, bufferVars
<1>4. Session' = Session /\ Pending' = Pending /\ Behind' = Behind /\ ReadyFull' = ReadyFull
  BY <1>1, <1>2 DEF Session, Pending, Behind, ReadyFull, driverVars, fwVars
<1>5. ControlInv' /\ ReclaimInv' /\ StoppedMeansReclaimed'
  BY <1>1, <1>2 DEF IInv, ControlInv, ReclaimInv, StoppedMeansReclaimed, driverVars, fwVars
<1>6. DrainInv'
  BY <1>1, <1>2, <1>4 DEF IInv, DrainInv, driverVars, bufferVars
<1>7. AmountInv'
  <2>1. amount' > 0 => Session
    <3> SUFFICES ASSUME Arrived > 0 PROVE Session
      BY DEF ReadCount
    <3>1. Arrived <= Len(linkQueue[cur]) /\ Arrived \in Nat
      BY ArrivedIsBehind DEF ReadCount
    <3>2. CASE stopping
      BY <1>2, <3>2 DEF Session
    <3>3. CASE ~stopping
      BY <3>1, <3>3, ArrivedIsBehind
    <3> QED BY <3>2, <3>3
  <2> QED BY <1>1, <1>2, <1>4, <2>1 DEF AmountInv
<1> QED BY <1>1, <1>3, <1>4, <1>5, <1>6, <1>7, QuietStep DEF driverVars, fwVars, bufferVars

(* "FATAL: Firmware reported more superpages available" needs a channel     *)
(* that is stopped, with nothing in its queues.                             *)
LEMMA FatalOnlyWhenStopped ==
  ASSUME IInv, ReadCountFatal
  PROVE  dmaState = "STOPPED" /\ ~stopping
<1>1. ~Session
  <2>1. Len(linkQueue[cur]) \in Nat
    BY QueueTypes DEF IInv, TypeOK
  <2> QED BY <2>1, ArrivedIsBehind DEF ReadCountFatal
<1> QED BY <1>1 DEF Session, ReadCountFatal, IInv, TypeOK

LEMMA ReadCountFatalStep ==
  ASSUME IInv, ReadCountFatal
  PROVE  IInv'
<1>1. UNCHANGED <<driverVars, cur, amount, fwVars, bufferVars>>
  BY DEF ReadCountFatal
<1>2. dmaState = "STOPPED" /\ ~stopping /\ ~stopping' /\ pc = "fill" /\ pc' = "idle"
  BY FatalOnlyWhenStopped DEF ReadCountFatal
<1>3. TypeOK'
  BY <1>1 DEF ReadCountFatal, IInv, TypeOK, driverVars, fwVars, bufferVars
<1>4. ~Session' /\ Pending' = Pending
  BY <1>1, <1>2 DEF Session, Pending, driverVars
<1>5. ControlInv' /\ ReclaimInv' /\ StoppedMeansReclaimed' /\ AmountInv' /\ DrainInv'
  BY <1>1, <1>2 DEF IInv, ControlInv, ReclaimInv, StoppedMeansReclaimed, AmountInv,
                    DrainInv, driverVars, fwVars
<1> QED BY <1>1, <1>3, <1>4, <1>5, QuietStep DEF driverVars, fwVars, bufferVars

LEMMA LinkDoneStep ==
  ASSUME IInv, LinkDone
  PROVE  IInv'
<1>1. UNCHANGED <<driverVars, stopping, amount, outcome, fwVars, bufferVars>>
  BY DEF LinkDone
<1>2. /\ pc = "transfer" /\ cur \in Links /\ cur' \in Links
      /\ \/ pc' = "fill" /\ cur' = cur + 1
         \/ pc' = "reclaim" /\ stopping /\ cur' = 1 /\ cur = NumLinks
         \/ pc' = "idle" /\ ~stopping /\ cur' = 1 /\ cur = NumLinks
  <2>1. cur \in 1 .. NumLinks /\ stopping \in BOOLEAN /\ 1 \in Links
    BY DEF IInv, TypeOK, Links
  <2>2. CASE cur < NumLinks
    BY <2>1, <2>2 DEF LinkDone, Links
  <2>3. CASE ~(cur < NumLinks)
    BY <2>1, <2>3 DEF LinkDone, Links
  <2> QED BY <2>2, <2>3
<1>3. TypeOK'
  BY <1>1, <1>2 DEF IInv, TypeOK, driverVars, fwVars, bufferVars
<1>4. (Session' => Session) /\ Pending' = Pending /\ ReadyFull' = ReadyFull
  BY <1>1, <1>2 DEF Session, Pending, ReadyFull, driverVars, fwVars
<1>5. ControlInv' /\ StoppedMeansReclaimed' /\ AmountInv'
  BY <1>1, <1>2 DEF IInv, ControlInv, StoppedMeansReclaimed, AmountInv, driverVars, fwVars
<1>6. ReclaimInv'
  BY <1>2 DEF ReclaimInv, Links
<1>7. DrainInv'
  <2> SUFFICES ASSUME stopping, ~ReadyFull, NEW l \in Links, l < cur' \/ pc' = "reclaim",
                      NEW i \in 1 .. Len(linkQueue[l])
               PROVE  content[linkQueue[l][i]] = 0
    BY <1>1, <1>4 DEF DrainInv, driverVars, bufferVars
  <2>1. CASE l < cur
    BY <2>1 DEF IInv, DrainInv
  <2>2. CASE l = cur
    <3>1. amount = 0 /\ Behind[l] = 0 /\ Session
      BY <1>2, <2>2 DEF LinkDone, IInv, AmountInv, Session
    <3> QED BY <3>1 DEF IInv, FilledPrefix
  <2>3. l < cur \/ l = cur
    BY <1>2 DEF LinkDone, Links
  <2> QED BY <2>1, <2>2, <2>3
<1> QED BY <1>1, <1>3, <1>4, <1>5, <1>6, <1>7, QuietStep DEF driverVars, fwVars, bufferVars

LEMMA StopDmaStep ==
  ASSUME IInv, StopDma
  PROVE  IInv'
<1>1. UNCHANGED <<linkQueue, superpageCounter, available, readyQueue, sizeIndex, amount,
                  descFifo, fwCount, fwIndex, sizeFifo, bufferVars>>
  BY DEF StopDma
<1>2. /\ pc = "idle" /\ dmaState = "STARTED" /\ dmaState' = "STOPPED" /\ ~engineOn'
      /\ pc' = "fill" /\ stopping' /\ cur' = 1 /\ outcome' = "ok"
  BY DEF StopDma
<1>3. TypeOK'
  <2>1. cur' \in Links
    BY <1>2 DEF Links
  <2>2. engineOn' \in BOOLEAN /\ stopping' \in BOOLEAN
    BY DEF StopDma
  <2> QED BY <1>1, <1>2, <2>1, <2>2 DEF IInv, TypeOK, bufferVars
<1>4. Session /\ Pending' = Pending
  BY <1>2 DEF Session, Pending
<1>5. ControlInv' /\ StoppedMeansReclaimed' /\ AmountInv' /\ ReclaimInv'
  BY <1>2 DEF ControlInv, StoppedMeansReclaimed, AmountInv, ReclaimInv
<1>6. DrainInv'
  BY <1>2 DEF DrainInv, Links
<1> QED BY <1>1, <1>3, <1>4, <1>5, <1>6, QuietStep DEF bufferVars

LEMMA ReclaimNextStep ==
  ASSUME IInv, ReclaimNext
  PROVE  IInv'
<1>1. UNCHANGED <<driverVars, amount, outcome, fwVars, bufferVars>>
  BY DEF ReclaimNext
<1>2. /\ pc = "reclaim" /\ linkQueue[cur] = <<>> /\ cur \in Links /\ cur' \in Links
      /\ dmaState = "STOPPED" /\ stopping /\ ~engineOn
      /\ \/ cur' = cur + 1 /\ pc' = "reclaim" /\ stopping'
         \/ cur = NumLinks /\ cur' = 1 /\ pc' = "idle" /\ ~stopping'
      /\ stopping' \in BOOLEAN
  <2>1. cur \in 1 .. NumLinks /\ 1 \in Links
    BY DEF IInv, TypeOK, Links
  <2>2. pc = "reclaim" /\ dmaState = "STOPPED" /\ stopping /\ ~engineOn
    BY DEF ReclaimNext, IInv, ControlInv
  <2>3. CASE cur < NumLinks
    BY <2>1, <2>2, <2>3 DEF ReclaimNext, Links
  <2>4. CASE ~(cur < NumLinks)
    <3>1. cur = NumLinks /\ cur \in Links
      BY <2>1, <2>4 DEF Links
    <3>2. cur' = 1 /\ pc' = "idle" /\ stopping' = FALSE /\ linkQueue[cur] = <<>>
      BY <2>4 DEF ReclaimNext
    <3> QED BY <2>1, <2>2, <3>1, <3>2
  <2> QED BY <2>3, <2>4
<1>3. TypeOK'
  BY <1>1, <1>2 DEF IInv, TypeOK, driverVars, fwVars, bufferVars
<1>4. ~Session' /\ Pending' = Pending /\ ReadyFull' = ReadyFull
  BY <1>1, <1>2 DEF Session, Pending, ReadyFull, driverVars
<1>5. \A l \in Links : l <= cur => linkQueue[l] = <<>>
  BY <1>2 DEF IInv, ReclaimInv, Links
<1>6. ControlInv' /\ AmountInv'
  BY <1>1, <1>2 DEF IInv, ControlInv, AmountInv, driverVars, fwVars
<1>7. ReclaimInv' /\ StoppedMeansReclaimed'
  BY <1>1, <1>2, <1>5 DEF ReclaimInv, StoppedMeansReclaimed, Links, driverVars
<1>8. DrainInv'
  BY <1>1, <1>2, <1>4 DEF IInv, DrainInv, driverVars, bufferVars
<1> QED BY <1>1, <1>3, <1>4, <1>6, <1>7, <1>8, QuietStep DEF driverVars, fwVars, bufferVars
-----------------------------------------------------------------------------
LEMMA PopSuperpageStep ==
  ASSUME IInv, PopSuperpage
  PROVE  IInv'
<1> DEFINE p == Head(readyQueue).page
<1>1. UNCHANGED <<dmaState, linkQueue, superpageCounter, available, sizeIndex, callVars,
                  fwVars, content>>
  BY DEF PopSuperpage
<1>2. pc = "idle" /\ ~stopping /\ TypeOK
  BY DEF PopSuperpage, IInv, ControlInv
<1>3. readyQueue' = Tail(readyQueue) /\ readyQueue # <<>> /\ readyQueue \in Seq(ReadyEntry)
  BY DEF PopSuperpage, IInv, TypeOK
<1>4. /\ Head(readyQueue) = readyQueue[1] /\ Len(readyQueue) >= 1 /\ p \in Page
      /\ readyQueue' \in Seq(ReadyEntry) /\ Len(readyQueue') = Len(readyQueue) - 1
      /\ \A i \in 1 .. Len(readyQueue') :
           readyQueue'[i] = readyQueue[i + 1] /\ i + 1 \in 1 .. Len(readyQueue)
  <2>1. /\ readyQueue' \in Seq(ReadyEntry) /\ Len(readyQueue') = Len(readyQueue) - 1
        /\ \A i \in 1 .. Len(readyQueue') : readyQueue'[i] = readyQueue[i + 1]
        /\ Head(readyQueue) \in ReadyEntry
    BY <1>3, HeadTailProperties
  <2>2. Head(readyQueue) = readyQueue[1] /\ Len(readyQueue) \in Nat /\ Len(readyQueue) >= 1
    BY <1>3, EmptySeq
  <2>3. p \in Page
    BY <2>1 DEF ReadyEntry
  <2> QED BY <2>1, <2>2, <2>3
<1>5. /\ owner' \in [Page -> {"user", "card", "ready", "dropped"}] /\ owner[p] = "ready"
      /\ \A x \in Page : x # p => owner'[x] = owner[x]
  <2>1. owner' = [owner EXCEPT ![p] = "user"]
    BY DEF PopSuperpage
  <2>2. owner[p] = "ready"
    BY <1>4 DEF IInv, OwnerInv
  <2> QED BY <1>4, <2>1, <2>2 DEF IInv, TypeOK
<1>6. TypeOK'
  BY <1>1, <1>4, <1>5 DEF IInv, TypeOK, callVars, fwVars
<1>7. Session' = Session /\ Pending' = Pending /\ Behind' = Behind
  BY <1>1 DEF Session, Pending, Behind, callVars, fwVars
<1>8. QueueShape' /\ QueueMatch' /\ FilledPrefix' /\ QueuedOnce'
  BY <1>1, <1>7 DEF IInv, QueueShape, QueueMatch, FilledPrefix, QueuedOnce, fwVars
<1>9. /\ ControlInv' /\ AmountInv' /\ DrainInv' /\ ReclaimInv' /\ StoppedMeansReclaimed'
  BY <1>1, <1>2 DEF IInv, ControlInv, AmountInv, DrainInv, ReclaimInv,
                    StoppedMeansReclaimed, callVars, fwVars
<1>10. OwnerInv'
  <2>1. ASSUME NEW l \in Links, NEW i \in 1 .. Len(linkQueue[l])
        PROVE  owner'[linkQueue[l][i]] = "card"
    BY <1>2, <1>5, QueueTypes DEF IInv, OwnerInv
  <2>2. ASSUME NEW i \in 1 .. Len(readyQueue')
        PROVE  owner'[readyQueue'[i].page] = "ready"
    <3>1. readyQueue'[i] = readyQueue[i + 1] /\ i + 1 \in 1 .. Len(readyQueue)
      BY <1>4
    <3>2. readyQueue[i + 1].page # p
      BY <1>4, <3>1 DEF IInv, ReadyOnce
    <3> QED BY <1>2, <1>5, <3>1, <3>2, QueueTypes DEF IInv, OwnerInv
  <2> QED BY <1>1, <2>1, <2>2 DEF OwnerInv
<1>11. ReadyOnce'
  BY <1>4 DEF IInv, ReadyOnce
<1>12. ReadyMeansFilled'
  <2>1. DOMAIN readyQueue' = 1 .. Len(readyQueue') /\ DOMAIN readyQueue = 1 .. Len(readyQueue)
    BY <1>3, <1>4, LenProperties
  <2> QED BY <1>1, <1>4, <2>1 DEF IInv, ReadyMeansFilled
<1> QED BY <1>6, <1>8, <1>9, <1>10, <1>11, <1>12 DEF IInv

-----------------------------------------------------------------------------
LEMMA StartDmaStep ==
  ASSUME IInv, StartDma
  PROVE  IInv'
<1>1. /\ Zero \in [Links -> 0 .. CounterMod - 1] /\ Zero \in [Links -> 0 .. IndexMod - 1]
      /\ Empty \in [Links -> Seq(Page)]
      /\ Empty \in [Links -> Seq([size : 1 .. FullSize, index : 0 .. IndexMod - 1])]
      /\ \A l \in Links : Len(Empty[l]) = 0 /\ Empty[l] = <<>> /\ Zero[l] = 0
      /\ TotalSlots \in Nat
  BY DEF Zero, Empty, Links, TotalSlots
<1>2. /\ linkQueue' = Empty /\ superpageCounter' = Zero /\ readyQueue' = <<>>
      /\ available' = TotalSlots /\ sizeIndex' = Zero /\ engineOn' = TRUE
      /\ descFifo' = Empty /\ fwCount' = Zero /\ fwIndex' = Zero /\ sizeFifo' = Empty
      /\ UNCHANGED <<pc, stopping, cur, amount, content>>
  BY DEF StartDma, ResetCru
<1>3. pc = "idle" /\ ~stopping /\ dmaState' = "STARTED" /\ outcome' = "ok"
  BY DEF StartDma, IInv, ControlInv
<1>4. TypeOK'
  <2>1. owner' \in [Page -> {"user", "card", "ready", "dropped"}]
    BY DEF StartDma, DropQueued, IInv, TypeOK
  <2>2. <<>> \in Seq(ReadyEntry)
    OBVIOUS
  <2> QED BY <1>1, <1>2, <1>3, <2>1, <2>2 DEF IInv, TypeOK
<1>5. \A l \in Links : Behind'[l] = 0 /\ Pending'[l] = 0
  <2>1. Diff(0, 0) = 0
    BY DEF Diff
  <2> QED BY <1>1, <1>2, <1>3, <2>1 DEF Behind, Pending
<1>6. QueueShape' /\ QueueMatch' /\ FilledPrefix'
  BY <1>1, <1>2, <1>5 DEF QueueShape, QueueMatch, FilledPrefix
<1>7. OwnerInv' /\ QueuedOnce'
  BY <1>1, <1>2 DEF OwnerInv, QueuedOnce
<1>8. ReadyOnce' /\ ReadyMeansFilled'
  BY <1>2 DEF ReadyOnce, ReadyMeansFilled
<1>9. ControlInv' /\ AmountInv' /\ DrainInv' /\ ReclaimInv' /\ StoppedMeansReclaimed'
  BY <1>2, <1>3 DEF ControlInv, AmountInv, DrainInv, ReclaimInv, StoppedMeansReclaimed
<1> QED BY <1>4, <1>6, <1>7, <1>8, <1>9 DEF IInv

LEMMA ResetChannelStep ==
  ASSUME IInv, ResetChannel
  PROVE  IInv'
<1>1. UNCHANGED <<dmaState, linkQueue, superpageCounter, available, readyQueue, callVars,
                  engineOn, bufferVars>>
  BY DEF ResetChannel
<1>2. pc = "idle" /\ ~stopping /\ dmaState = "STOPPED"
  BY DEF ResetChannel, IInv, ControlInv
<1>3. TypeOK'
  <2>1. /\ Zero \in [Links -> 0 .. CounterMod - 1] /\ Zero \in [Links -> 0 .. IndexMod - 1]
        /\ Empty \in [Links -> Seq(Page)]
        /\ Empty \in [Links -> Seq([size : 1 .. FullSize, index : 0 .. IndexMod - 1])]
    BY DEF Zero, Empty, Links
  <2>2. /\ descFifo' = Empty /\ fwCount' = Zero /\ fwIndex' = Zero /\ sizeFifo' = Empty
        /\ sizeIndex' = Zero
    BY DEF ResetChannel, ResetCru
  <2> QED BY <1>1, <2>1, <2>2 DEF IInv, TypeOK, callVars, bufferVars
<1>4. ~Session'
  BY <1>1, <1>2 DEF Session, callVars
<1>5. QueueShape' /\ QueueMatch' /\ FilledPrefix'
  BY <1>4 DEF QueueShape, QueueMatch, FilledPrefix
<1>6. OwnerInv' /\ QueuedOnce' /\ ReadyOnce' /\ ReadyMeansFilled'
  BY <1>1 DEF IInv, OwnerInv, QueuedOnce, ReadyOnce, ReadyMeansFilled, bufferVars
<1>7. ControlInv' /\ AmountInv' /\ DrainInv' /\ ReclaimInv' /\ StoppedMeansReclaimed'
  BY <1>1, <1>2 DEF IInv, ControlInv, AmountInv, DrainInv, ReclaimInv,
                    StoppedMeansReclaimed, callVars
<1> QED BY <1>3, <1>5, <1>6, <1>7 DEF IInv

(* A superpage the driver does not hold is in none of its queues. *)
LEMMA NotQueued ==
  ASSUME IInv, NEW p \in Page, owner[p] \in {"user", "dropped"}
  PROVE  /\ \A l \in Links : \A i \in 1 .. Len(linkQueue[l]) : linkQueue[l][i] # p
         /\ \A i \in 1 .. Len(readyQueue) : readyQueue[i].page # p
BY DEF IInv, OwnerInv

LEMMA PushSuperpageStep ==
  ASSUME IInv, NEW p \in Page, PushSuperpage(p)
  PROVE  IInv'
<1> DEFINE k == NextLink
           q == linkQueue[k]
<1>1. UNCHANGED <<dmaState, superpageCounter, readyQueue, sizeIndex, stopping, amount,
                  engineOn, descFifo, fwCount, fwIndex, sizeFifo>>
  BY DEF PushSuperpage, fwVars
<1>2. /\ pc = "idle" /\ pc' = "descriptor" /\ cur' = k /\ outcome' = "ok"
      /\ dmaState = "STARTED" /\ ~stopping /\ available' = available - 1
      /\ available # 0 /\ ~(Len(q) >= LinkCap)
      /\ owner[p] \in {"user", "dropped"} /\ TypeOK
  BY DEF PushSuperpage, Obstacle, IInv, ControlInv
<1>3. k \in Links
  BY <1>2, NextLinkShortest
<1> HIDE DEF k
<1>4. /\ \A l \in Links : linkQueue'[l] = IF l = k THEN Append(q, p) ELSE linkQueue[l]
      /\ linkQueue' \in [Links -> Seq(Page)]
  <2>1. linkQueue' = [linkQueue EXCEPT ![k] = Append(@, p)]
    BY DEF PushSuperpage, k
  <2>2. Append(q, p) \in Seq(Page)
    BY <1>2, <1>3, QueueTypes, AppendProperties
  <2> QED BY <1>2, <1>3, <2>1, <2>2 DEF TypeOK
<1>5. /\ Len(q) \in Nat /\ Len(q) < LinkCap /\ Len(linkQueue'[k]) = Len(q) + 1
      /\ linkQueue'[k][Len(q) + 1] = p
      /\ \A i \in 1 .. Len(q) : linkQueue'[k][i] = q[i]
  <2>1. q \in Seq(Page) /\ Len(q) \in Nat /\ linkQueue'[k] = Append(q, p)
    BY <1>2, <1>3, <1>4, QueueTypes
  <2>2. /\ Len(Append(q, p)) = Len(q) + 1 /\ Append(q, p)[Len(q) + 1] = p
        /\ \A i \in 1 .. Len(q) : Append(q, p)[i] = q[i]
    BY <2>1, AppendProperties
  <2>3. Len(q) < LinkCap
    BY <1>2, <2>1
  <2> QED BY <2>1, <2>2, <2>3
<1>6. /\ \A x \in Page : x # p => owner'[x] = owner[x] /\ content'[x] = content[x]
      /\ owner'[p] = "card" /\ content'[p] = 0
      /\ owner' \in [Page -> {"user", "card", "ready", "dropped"}]
      /\ content' \in [Page -> 0 .. FullSize]
  BY <1>2 DEF PushSuperpage, TypeOK
<1>7. /\ \A l \in Links : \A i \in 1 .. Len(linkQueue[l]) : linkQueue[l][i] # p
      /\ \A i \in 1 .. Len(readyQueue) : readyQueue[i].page # p
  BY <1>2, NotQueued
<1>8. TypeOK'
  <2>1. available' \in Nat
    BY <1>2 DEF TypeOK
  <2> QED BY <1>1, <1>2, <1>3, <1>4, <1>6, <2>1 DEF TypeOK
<1>9. Session /\ Session' /\ Behind' = Behind
  BY <1>1, <1>2 DEF Session, Behind
<1>10. \A l \in Links : Pending[l] = 0 /\ Pending'[l] = IF l = k THEN 1 ELSE 0
  BY <1>2 DEF Pending
<1>11. QueueShape'
  <2> SUFFICES ASSUME NEW l \in Links
               PROVE  /\ Len(linkQueue'[l]) = Behind[l] + Len(descFifo[l]) + Pending'[l]
                      /\ Len(linkQueue'[l]) <= LinkCap
    BY <1>1, <1>9 DEF QueueShape
  <2>1. /\ Len(linkQueue[l]) = Behind[l] + Len(descFifo[l]) /\ Len(linkQueue[l]) <= LinkCap
        /\ Behind[l] \in Nat /\ Len(descFifo[l]) \in Nat
    BY <1>2, <1>9, <1>10, QueueTypes DEF IInv, QueueShape
  <2> QED BY <1>4, <1>5, <1>10, <2>1
<1>12. QueueMatch'
  <2> SUFFICES ASSUME NEW l \in Links, NEW i \in 1 .. Len(descFifo[l])
               PROVE  descFifo[l][i] = linkQueue'[l][Behind[l] + i]
    BY <1>1, <1>9 DEF QueueMatch
  <2>1. descFifo[l][i] = linkQueue[l][Behind[l] + i]
    BY <1>9 DEF IInv, QueueMatch
  <2>2. Behind[l] + i \in 1 .. Len(linkQueue[l])
    BY SMTT(30), <1>2, <1>9, <1>10, QueueTypes DEF IInv, QueueShape
  <2> QED BY <1>4, <1>5, <2>1, <2>2
<1>13. FilledPrefix'
  <2> SUFFICES ASSUME NEW l \in Links, NEW i \in 1 .. Len(linkQueue'[l])
               PROVE  content'[linkQueue'[l][i]] # 0 <=> i <= Behind[l]
    BY <1>9 DEF FilledPrefix
  <2>1. CASE i \in 1 .. Len(linkQueue[l])
    <3>1. linkQueue'[l][i] = linkQueue[l][i] /\ linkQueue[l][i] \in Page
      BY <1>2, <1>4, <1>5, <2>1, QueueTypes
    <3> QED BY <1>6, <1>7, <1>9, <2>1, <3>1 DEF IInv, FilledPrefix
  <2>2. CASE i \notin 1 .. Len(linkQueue[l])
    <3>1. l = k /\ i = Len(q) + 1
      BY <1>4, <1>5, <2>2
    <3>2. Behind[l] <= Len(q) /\ Behind[l] \in Nat
      BY <1>2, <1>9, <1>10, <3>1, QueueTypes DEF IInv, QueueShape
    <3> QED BY <1>5, <1>6, <3>1, <3>2
  <2> QED BY <2>1, <2>2
<1>14. OwnerInv'
  <2>1. ASSUME NEW l \in Links, NEW i \in 1 .. Len(linkQueue'[l])
        PROVE  owner'[linkQueue'[l][i]] = "card"
    <3>1. CASE i \in 1 .. Len(linkQueue[l])
      <4>1. linkQueue'[l][i] = linkQueue[l][i] /\ linkQueue[l][i] \in Page
        BY <1>2, <1>4, <1>5, <3>1, QueueTypes
      <4> QED BY <1>6, <1>7, <3>1, <4>1 DEF IInv, OwnerInv
    <3>2. CASE i \notin 1 .. Len(linkQueue[l])
      BY <1>4, <1>5, <1>6, <3>2
    <3> QED BY <3>1, <3>2
  <2>2. \A i \in 1 .. Len(readyQueue) : owner'[readyQueue[i].page] = "ready"
    BY <1>2, <1>6, <1>7, QueueTypes DEF IInv, OwnerInv
  <2> QED BY <1>1, <2>1, <2>2 DEF OwnerInv
<1>15. QueuedOnce'
  <2> SUFFICES ASSUME NEW l \in Links, NEW m \in Links, NEW i \in 1 .. Len(linkQueue'[l]),
                      NEW j \in 1 .. Len(linkQueue'[m]), linkQueue'[l][i] = linkQueue'[m][j]
               PROVE  l = m /\ i = j
    BY DEF QueuedOnce
  <2>1. /\ IF i \in 1 .. Len(linkQueue[l]) THEN linkQueue'[l][i] = linkQueue[l][i]
           ELSE l = k /\ i = Len(q) + 1 /\ linkQueue'[l][i] = p
        /\ IF j \in 1 .. Len(linkQueue[m]) THEN linkQueue'[m][j] = linkQueue[m][j]
           ELSE m = k /\ j = Len(q) + 1 /\ linkQueue'[m][j] = p
    BY <1>4, <1>5
  <2> QED BY <1>7, <2>1 DEF IInv, QueuedOnce
<1>16. ReadyOnce' /\ ReadyMeansFilled'
  <2>1. ReadyOnce'
    BY <1>1 DEF IInv, ReadyOnce
  <2>2. DOMAIN readyQueue = 1 .. Len(readyQueue)
    BY <1>2, QueueTypes
  <2>3. \A i \in 1 .. Len(readyQueue) :
          content'[readyQueue[i].page] = content[readyQueue[i].page]
    BY <1>2, <1>6, <1>7, QueueTypes
  <2> QED BY <1>1, <2>1, <2>2, <2>3 DEF IInv, ReadyMeansFilled
<1>17. ControlInv' /\ AmountInv' /\ DrainInv' /\ ReclaimInv' /\ StoppedMeansReclaimed'
  BY <1>1, <1>2 DEF IInv, ControlInv, AmountInv, DrainInv, ReclaimInv,
                    StoppedMeansReclaimed
<1> QED BY <1>8, <1>11, <1>12, <1>13, <1>14, <1>15, <1>16, <1>17 DEF IInv


LEMMA PushDescriptorStep ==
  ASSUME IInv, PushDescriptor
  PROVE  IInv'
<1> DEFINE q == linkQueue[cur]
           d == descFifo[cur]
<1>1. UNCHANGED <<driverVars, stopping, cur, amount, outcome, engineOn, fwCount, fwIndex,
                  sizeFifo, bufferVars>>
  BY DEF PushDescriptor
<1>2. /\ pc = "descriptor" /\ pc' = "idle" /\ dmaState = "STARTED" /\ ~stopping
      /\ cur \in Links /\ TypeOK
  BY DEF PushDescriptor, IInv, ControlInv, TypeOK
<1>3. Session /\ Session' /\ Behind' = Behind
  BY <1>1, <1>2 DEF Session, Behind, driverVars
<1>4. \A l \in Links : Pending'[l] = 0 /\ Pending[l] = IF l = cur THEN 1 ELSE 0
  BY <1>2 DEF Pending
<1>5. \A l \in Links : /\ Len(linkQueue[l]) = Behind[l] + Len(descFifo[l]) + Pending[l]
                       /\ Len(linkQueue[l]) <= LinkCap
                       /\ Behind[l] \in Nat /\ Len(descFifo[l]) \in Nat
  BY <1>2, <1>3, QueueTypes DEF IInv, QueueShape
<1>6. Len(q) = Behind[cur] + Len(d) + 1 /\ q[Len(q)] \in Page /\ d \in Seq(Page)
  BY <1>2, <1>4, <1>5, QueueTypes
<1>7. /\ descFifo' \in [Links -> Seq(Page)]
      /\ \A l \in Links : descFifo'[l] = IF l = cur THEN Append(d, q[Len(q)])
                                                    ELSE descFifo[l]
  <2>1. Append(d, q[Len(q)]) \in Seq(Page)
    BY <1>6, AppendProperties
  <2> QED BY <1>2, <2>1 DEF PushDescriptor, TypeOK
<1>8. /\ Len(descFifo'[cur]) = Len(d) + 1
      /\ descFifo'[cur][Len(d) + 1] = q[Len(q)]
      /\ \A i \in 1 .. Len(d) : descFifo'[cur][i] = d[i]
  BY <1>2, <1>6, <1>7, AppendProperties
<1>9. TypeOK'
  BY <1>1, <1>2, <1>7 DEF TypeOK, driverVars, bufferVars
<1>10. QueueShape'
  <2> SUFFICES ASSUME NEW l \in Links
               PROVE  /\ Len(linkQueue[l]) = Behind[l] + Len(descFifo'[l]) + Pending'[l]
                      /\ Len(linkQueue[l]) <= LinkCap
    BY <1>1, <1>3 DEF QueueShape, driverVars
  <2>1. CASE l = cur
    <3>1. /\ Len(q) = Behind[cur] + Len(d) + 1 /\ Pending'[cur] = 0
          /\ Behind[cur] \in Nat /\ Len(d) \in Nat /\ Len(q) <= LinkCap
      BY <1>2, <1>4, <1>5, <1>6
    <3>2. Len(descFifo'[cur]) = Len(d) + 1
      BY <1>8
    <3>3. Len(q) = Behind[cur] + Len(descFifo'[cur]) + Pending'[cur]
      <4> HIDE DEF q, d
      <4> QED BY <3>1, <3>2
    <3> QED BY <2>1, <3>1, <3>3
  <2>2. CASE l # cur
    BY <1>4, <1>5, <1>7, <2>2
  <2> QED BY <2>1, <2>2
<1>11. QueueMatch'
  <2> SUFFICES ASSUME NEW l \in Links, NEW i \in 1 .. Len(descFifo'[l])
               PROVE  descFifo'[l][i] = linkQueue[l][Behind[l] + i]
    BY <1>1, <1>3 DEF QueueMatch, driverVars
  <2>1. CASE l = cur /\ i = Len(d) + 1
    <3>1. Behind[cur] + (Len(d) + 1) = Len(q)
      <4>1. Behind[cur] \in Nat /\ Len(d) \in Nat
        BY <1>2, <1>5
      <4> HIDE DEF q, d
      <4> QED BY <1>6, <4>1
    <3> QED BY <1>8, <2>1, <3>1
  <2>2. CASE ~(l = cur /\ i = Len(d) + 1)
    <3>1. i \in 1 .. Len(descFifo[l]) /\ descFifo'[l][i] = descFifo[l][i]
      BY <1>2, <1>5, <1>7, <1>8, <2>2
    <3> QED BY <1>3, <3>1 DEF IInv, QueueMatch
  <2> QED BY <2>1, <2>2
<1>12. FilledPrefix' /\ OwnerInv' /\ QueuedOnce' /\ ReadyOnce' /\ ReadyMeansFilled'
  BY <1>1, <1>3 DEF IInv, FilledPrefix, OwnerInv, QueuedOnce, ReadyOnce,
                    ReadyMeansFilled, driverVars, bufferVars
<1>13. ControlInv' /\ AmountInv' /\ DrainInv' /\ ReclaimInv' /\ StoppedMeansReclaimed'
  BY <1>1, <1>2 DEF IInv, ControlInv, AmountInv, DrainInv, ReclaimInv,
                    StoppedMeansReclaimed, driverVars
<1> QED BY <1>9, <1>10, <1>11, <1>12, <1>13 DEF IInv
-----------------------------------------------------------------------------
(* transferSuperpageFromLinkToReady(), for any caller that gives it a true  *)
(* ready flag whenever there is room for the entry.                         *)
LEMMA MoveToReadyStep ==
  ASSUME IInv, UNCHANGED content, NEW k \in Links, linkQueue[k] # <<>>,
         NEW isReady \in BOOLEAN, NEW received \in 0 .. FullSize,
         MoveToReady(k, isReady, received),
         ReadyFull \/ (isReady <=> content[Head(linkQueue[k])] # 0)
  PROVE  /\ linkQueue' \in [Links -> Seq(Page)]
         /\ readyQueue' \in Seq(ReadyEntry)
         /\ superpageCounter' \in [Links -> 0 .. CounterMod - 1]
         /\ owner' \in [Page -> {"user", "card", "ready", "dropped"}]
         /\ available' \in Nat
         /\ Len(linkQueue[k]) \in Nat /\ Len(linkQueue[k]) >= 1
         /\ Len(linkQueue'[k]) = Len(linkQueue[k]) - 1
         /\ \A i \in 1 .. Len(linkQueue'[k]) :
              linkQueue'[k][i] = linkQueue[k][i + 1] /\ i + 1 \in 1 .. Len(linkQueue[k])
         /\ \A l \in Links : l # k => linkQueue'[l] = linkQueue[l]
         /\ ReadyFull => ReadyFull'
         /\ OwnerInv' /\ QueuedOnce' /\ ReadyOnce' /\ ReadyMeansFilled'
<1> DEFINE q == linkQueue[k]
           p == Head(q)
           entry == [page |-> p, ready |-> isReady, received |-> received, link |-> k]
<1>1. TypeOK
  BY DEF IInv
<1>2. /\ q \in Seq(Page) /\ Len(q) \in Nat /\ Len(q) >= 1 /\ p = q[1] /\ p \in Page
      /\ Tail(q) \in Seq(Page) /\ Len(Tail(q)) = Len(q) - 1
      /\ \A i \in 1 .. Len(Tail(q)) : Tail(q)[i] = q[i + 1]
  <2>1. q \in Seq(Page) /\ q # <<>> /\ Len(q) \in Nat
    BY <1>1, QueueTypes
  <2>2. Len(q) >= 1 /\ p = q[1]
    BY <2>1, EmptySeq
  <2> QED BY <2>1, <2>2, HeadTailProperties
<1>3. /\ linkQueue' = [linkQueue EXCEPT ![k] = Tail(@)]
      /\ superpageCounter' = [superpageCounter EXCEPT ![k] = Inc(@, CounterMod)]
      /\ available' = available + 1
  BY DEF MoveToReady
<1>4. /\ linkQueue' \in [Links -> Seq(Page)] /\ linkQueue'[k] = Tail(q)
      /\ \A l \in Links : l # k => linkQueue'[l] = linkQueue[l]
  BY <1>1, <1>2, <1>3 DEF TypeOK
<1>5. superpageCounter' \in [Links -> 0 .. CounterMod - 1] /\ available' \in Nat
  <2>1. superpageCounter[k] \in 0 .. CounterMod - 1 /\ available \in Nat
    BY <1>1 DEF TypeOK
  <2>2. Inc(superpageCounter[k], CounterMod) \in 0 .. CounterMod - 1
    BY <2>1, DiffType
  <2> QED BY <1>1, <1>3, <2>1, <2>2 DEF TypeOK
<1>6. \A i \in 1 .. Len(linkQueue'[k]) :
        linkQueue'[k][i] = q[i + 1] /\ i + 1 \in 1 .. Len(q)
  BY <1>2, <1>4
<1>7. /\ owner' \in [Page -> {"user", "card", "ready", "dropped"}]
      /\ \A x \in Page : x # p => owner'[x] = owner[x]
      /\ ~ReadyFull => owner'[p] = "ready"
  BY <1>1, <1>2 DEF MoveToReady, TypeOK
<1>8. /\ readyQueue' \in Seq(ReadyEntry)
      /\ ReadyFull => readyQueue' = readyQueue
      /\ ~ReadyFull => /\ Len(readyQueue') = Len(readyQueue) + 1
                       /\ readyQueue'[Len(readyQueue) + 1] = entry
                       /\ \A i \in 1 .. Len(readyQueue) : readyQueue'[i] = readyQueue[i]
  <2>1. entry \in ReadyEntry /\ readyQueue \in Seq(ReadyEntry)
    BY <1>1, <1>2 DEF ReadyEntry, TypeOK
  <2>2. IF ReadyFull THEN readyQueue' = readyQueue ELSE readyQueue' = Append(readyQueue, entry)
    BY DEF MoveToReady
  <2> HIDE DEF entry
  <2> QED BY <2>1, <2>2, AppendProperties
<1>9. /\ owner[p] = "card"
      /\ \A i \in 1 .. Len(readyQueue) : readyQueue[i].page # p
  BY <1>2 DEF IInv, OwnerInv
(* Every element of a queue after the step was one before, and is not p. *)
<1>10. ASSUME NEW l \in Links, NEW i \in 1 .. Len(linkQueue'[l])
       PROVE  /\ linkQueue'[l][i] = linkQueue[l][IF l = k THEN i + 1 ELSE i]
              /\ (IF l = k THEN i + 1 ELSE i) \in 1 .. Len(linkQueue[l])
              /\ linkQueue'[l][i] # p /\ linkQueue'[l][i] \in Page
  <2>1. /\ linkQueue'[l][i] = linkQueue[l][IF l = k THEN i + 1 ELSE i]
        /\ (IF l = k THEN i + 1 ELSE i) \in 1 .. Len(linkQueue[l])
    BY <1>4, <1>6
  <2>2. l = k => i + 1 # 1
    BY <1>2, <1>4
  <2> QED BY <1>1, <1>2, <2>1, <2>2, QueueTypes DEF IInv, QueuedOnce
<1>11. OwnerInv'
  <2>1. ASSUME NEW l \in Links, NEW i \in 1 .. Len(linkQueue'[l])
        PROVE  owner'[linkQueue'[l][i]] = "card"
    BY <1>7, <1>10 DEF IInv, OwnerInv
  <2>2. ASSUME NEW i \in 1 .. Len(readyQueue')
        PROVE  owner'[readyQueue'[i].page] = "ready"
    <3>1. CASE i \in 1 .. Len(readyQueue)
      BY <1>1, <1>7, <1>8, <1>9, <3>1, QueueTypes DEF IInv, OwnerInv
    <3>2. CASE i \notin 1 .. Len(readyQueue)
      <4>1. ~ReadyFull /\ readyQueue'[i].page = p
        BY <1>1, <1>8, <3>2, QueueTypes
      <4> QED BY <1>7, <4>1
    <3> QED BY <3>1, <3>2
  <2> QED BY <2>1, <2>2 DEF OwnerInv
<1>12. QueuedOnce'
  <2> SUFFICES ASSUME NEW l \in Links, NEW m \in Links, NEW i \in 1 .. Len(linkQueue'[l]),
                      NEW j \in 1 .. Len(linkQueue'[m]), linkQueue'[l][i] = linkQueue'[m][j]
               PROVE  l = m /\ i = j
    BY DEF QueuedOnce
  <2> DEFINE i0 == IF l = k THEN i + 1 ELSE i
             j0 == IF m = k THEN j + 1 ELSE j
  <2>1. /\ i0 \in 1 .. Len(linkQueue[l]) /\ j0 \in 1 .. Len(linkQueue[m])
        /\ linkQueue[l][i0] = linkQueue[m][j0]
    BY <1>10
  <2>2. l = m /\ i0 = j0
    <3> HIDE DEF i0, j0
    <3> QED BY <2>1 DEF IInv, QueuedOnce
  <2> QED BY <2>2
<1>13. ReadyOnce'
  <2> SUFFICES ASSUME NEW i \in 1 .. Len(readyQueue'), NEW j \in 1 .. Len(readyQueue'),
                      readyQueue'[i].page = readyQueue'[j].page
               PROVE  i = j
    BY DEF ReadyOnce
  <2>1. /\ IF i \in 1 .. Len(readyQueue) THEN readyQueue'[i] = readyQueue[i]
           ELSE i = Len(readyQueue) + 1 /\ readyQueue'[i].page = p
        /\ IF j \in 1 .. Len(readyQueue) THEN readyQueue'[j] = readyQueue[j]
           ELSE j = Len(readyQueue) + 1 /\ readyQueue'[j].page = p
    BY <1>1, <1>8, QueueTypes
  <2> QED BY <1>9, <2>1 DEF IInv, ReadyOnce
<1>14. ReadyMeansFilled'
  <2>1. DOMAIN readyQueue' = 1 .. Len(readyQueue') /\ DOMAIN readyQueue = 1 .. Len(readyQueue)
    BY <1>1, <1>8, QueueTypes, LenProperties
  <2> SUFFICES ASSUME NEW i \in 1 .. Len(readyQueue')
               PROVE  readyQueue'[i].ready <=> content[readyQueue'[i].page] # 0
    BY <2>1 DEF ReadyMeansFilled
  <2>2. CASE i \in 1 .. Len(readyQueue)
    BY <1>8, <2>1, <2>2 DEF IInv, ReadyMeansFilled
  <2>3. CASE i \notin 1 .. Len(readyQueue)
    <3>1. ~ReadyFull /\ readyQueue'[i] = entry
      BY <1>1, <1>8, <2>3, QueueTypes
    <3> QED BY <3>1
  <2> QED BY <2>2, <2>3
<1>15. ReadyFull => ReadyFull'
  BY <1>8 DEF ReadyFull
<1> QED BY <1>2, <1>4, <1>5, <1>6, <1>7, <1>8, <1>11, <1>12, <1>13, <1>14, <1>15


(* What fillSuperpages() moves to the ready queue is a superpage of the     *)
(* card that DMA has completed.                                             *)
LEMMA TransferTakes ==
  ASSUME IInv, Transfer
  PROVE  /\ cur \in Links /\ linkQueue[cur] # <<>> /\ ~ReadyFull /\ Session
         /\ Behind[cur] >= 1 /\ Behind[cur] <= Len(linkQueue[cur])
         /\ Head(linkQueue[cur]) \in Page /\ Head(linkQueue[cur]) = linkQueue[cur][1]
         /\ owner[Head(linkQueue[cur])] = "card" /\ content[Head(linkQueue[cur])] # 0
         /\ \E received \in 0 .. FullSize : MoveToReady(cur, TRUE, received)
<1> DEFINE q == linkQueue[cur]
<1>1. /\ pc = "transfer" /\ amount > 0 /\ amount \in Nat
      /\ cur \in Links /\ ~ReadyFull /\ TypeOK
  BY DEF Transfer, IInv, TypeOK
<1>2. Session /\ amount <= Behind[cur]
  BY <1>1 DEF IInv, AmountInv
<1>3. Behind[cur] >= 1 /\ Behind[cur] \in Nat /\ Len(q) >= 1 /\ Behind[cur] <= Len(q)
  <2>1. /\ Behind[cur] \in Nat /\ Len(descFifo[cur]) \in Nat /\ Pending[cur] = 0
        /\ Len(q) = Behind[cur] + Len(descFifo[cur]) + Pending[cur]
    BY <1>1, <1>2, QueueTypes DEF IInv, QueueShape, Pending
  <2> HIDE DEF q
  <2> QED BY <1>1, <1>2, <2>1
<1>4. q # <<>> /\ q \in Seq(Page) /\ Head(q) = q[1] /\ Head(q) \in Page
  BY <1>1, <1>3, QueueTypes, EmptySeq, HeadTailProperties
<1>5. content[q[1]] # 0 /\ owner[q[1]] = "card"
  BY <1>1, <1>2, <1>3 DEF IInv, FilledPrefix, OwnerInv
<1>6. PICK received \in 0 .. FullSize : MoveToReady(cur, TRUE, received)
  <2>1. CASE SizeReported
    <3>1. sizeFifo[cur] \in Seq([size : 1 .. FullSize, index : 0 .. IndexMod - 1])
      BY <1>1 DEF TypeOK
    <3>2. sizeFifo[cur] # <<>> /\ MoveToReady(cur, TRUE, Head(sizeFifo[cur]).size)
      BY <2>1 DEF Transfer, SizeShown
    <3>3. Head(sizeFifo[cur]) \in [size : 1 .. FullSize, index : 0 .. IndexMod - 1]
      BY <3>1, <3>2, HeadTailProperties
    <3>4. Head(sizeFifo[cur]).size \in 0 .. FullSize
      BY <3>3
    <3> QED BY <3>2, <3>4 DEF MoveToReady
  <2>2. CASE ~SizeReported
    <3>1. MoveToReady(cur, TRUE, FullSize)
      BY <2>2 DEF Transfer
    <3>2. FullSize \in 0 .. FullSize
      OBVIOUS
    <3> QED BY <3>1, <3>2 DEF MoveToReady
  <2> QED BY <2>1, <2>2
<1> QED BY <1>1, <1>2, <1>3, <1>4, <1>5, <1>6

LEMMA TransferCounts ==
  ASSUME IInv, Transfer
  PROVE  \A l \in Links : Behind'[l] = IF l = cur THEN Behind[l] - 1 ELSE Behind[l]
<1>1. TypeOK /\ cur \in Links /\ fwCount' = fwCount
  BY DEF IInv, TypeOK, Transfer
<1>2. superpageCounter' = [superpageCounter EXCEPT ![cur] = Inc(@, CounterMod)]
  BY TransferTakes DEF MoveToReady
<1>3. Diff(fwCount[cur], superpageCounter[cur]) > 0
  <2>1. Behind[cur] >= 1 /\ Behind[cur] \in Nat
    BY <1>1, TransferTakes, QueueTypes
  <2> QED BY <1>1, <2>1 DEF Behind
<1>4. Diff(fwCount[cur], Inc(superpageCounter[cur], CounterMod))
        = Diff(fwCount[cur], superpageCounter[cur]) - 1
  BY <1>1, <1>3, DiffShrinks DEF TypeOK
<1> QED BY <1>1, <1>2, <1>4 DEF Behind, TypeOK

LEMMA TransferStep ==
  ASSUME IInv, Transfer
  PROVE  IInv'
<1> DEFINE q == linkQueue[cur]
<1>1. UNCHANGED <<dmaState, pc, stopping, cur, outcome, engineOn, descFifo, fwCount,
                  fwIndex, content>>
  BY DEF Transfer
<1>2. /\ pc = "transfer" /\ amount > 0 /\ amount' = amount - 1 /\ amount \in Nat
      /\ cur \in Links /\ ~ReadyFull /\ TypeOK
  BY DEF Transfer, IInv, TypeOK
<1>3. Session /\ amount <= Behind[cur] /\ (stopping => amount = Behind[cur])
  BY <1>2 DEF IInv, AmountInv
<1>4. \A l \in Links : /\ Len(linkQueue[l]) = Behind[l] + Len(descFifo[l]) + Pending[l]
                       /\ Len(linkQueue[l]) <= LinkCap /\ Len(linkQueue[l]) \in Nat
                       /\ Behind[l] \in Nat /\ Len(descFifo[l]) \in Nat
                       /\ Pending[l] = 0 /\ Pending'[l] = 0
  <2>1. \A l \in Links : Pending[l] = 0 /\ Pending'[l] = 0
    BY <1>1, <1>2 DEF Pending
  <2> QED BY <1>2, <1>3, <2>1, QueueTypes DEF IInv, QueueShape
<1>5. Behind[cur] >= 1 /\ Behind[cur] \in Nat /\ Len(q) >= 1
  <2>1. /\ Behind[cur] \in Nat /\ Len(descFifo[cur]) \in Nat /\ Pending[cur] = 0
        /\ Len(q) = Behind[cur] + Len(descFifo[cur]) + Pending[cur]
    BY <1>2, <1>4
  <2> HIDE DEF q
  <2> QED BY <1>2, <1>3, <2>1
<1>6. q # <<>> /\ content[Head(q)] # 0
  BY TransferTakes
<1>7. PICK received \in 0 .. FullSize : MoveToReady(cur, TRUE, received)
  BY TransferTakes
<1>8. /\ linkQueue' \in [Links -> Seq(Page)]
      /\ readyQueue' \in Seq(ReadyEntry)
      /\ superpageCounter' \in [Links -> 0 .. CounterMod - 1]
      /\ owner' \in [Page -> {"user", "card", "ready", "dropped"}]
      /\ available' \in Nat
      /\ Len(linkQueue'[cur]) = Len(q) - 1
      /\ \A i \in 1 .. Len(linkQueue'[cur]) :
           linkQueue'[cur][i] = q[i + 1] /\ i + 1 \in 1 .. Len(q)
      /\ \A l \in Links : l # cur => linkQueue'[l] = linkQueue[l]
      /\ OwnerInv' /\ QueuedOnce' /\ ReadyOnce' /\ ReadyMeansFilled'
  BY <1>1, <1>2, <1>6, <1>7, MoveToReadyStep
<1>9. TypeOK'
  <2>1. /\ sizeFifo' \in [Links -> Seq([size : 1 .. FullSize, index : 0 .. IndexMod - 1])]
        /\ sizeIndex' \in [Links -> 0 .. IndexMod - 1]
    <3>1. CASE SizeReported
      <4>1. /\ sizeFifo[cur] \in Seq([size : 1 .. FullSize, index : 0 .. IndexMod - 1])
            /\ sizeFifo[cur] # <<>>
        BY <1>2, <3>1 DEF TypeOK, Transfer, SizeShown
      <4>2. Tail(sizeFifo[cur]) \in Seq([size : 1 .. FullSize, index : 0 .. IndexMod - 1])
        BY <4>1, HeadTailProperties
      <4>3. Inc(sizeIndex[cur], IndexMod) \in 0 .. IndexMod - 1
        BY <1>2, IndexType DEF TypeOK
      <4>4. /\ sizeFifo' = [sizeFifo EXCEPT ![cur] = Tail(@)]
            /\ sizeIndex' = [sizeIndex EXCEPT ![cur] = Inc(@, IndexMod)]
        BY <3>1 DEF Transfer
      <4>5. sizeFifo' \in [Links -> Seq([size : 1 .. FullSize, index : 0 .. IndexMod - 1])]
        BY <1>2, <4>2, <4>4 DEF TypeOK
      <4>6. sizeIndex' \in [Links -> 0 .. IndexMod - 1]
        BY <1>2, <4>3, <4>4 DEF TypeOK
      <4> QED BY <4>5, <4>6
    <3>2. CASE ~SizeReported
      BY <1>2, <3>2 DEF Transfer, TypeOK
    <3> QED BY <3>1, <3>2
  <2>2. amount' \in Nat
    BY <1>2
  <2> QED BY <1>1, <1>2, <1>8, <2>1, <2>2 DEF TypeOK
<1>10. \A l \in Links : Behind'[l] = IF l = cur THEN Behind[l] - 1 ELSE Behind[l]
  BY TransferCounts
<1>11. QueueShape'
  <2> SUFFICES ASSUME NEW l \in Links
               PROVE  /\ Len(linkQueue'[l]) = Behind'[l] + Len(descFifo[l]) + Pending'[l]
                      /\ Len(linkQueue'[l]) <= LinkCap
    BY <1>1 DEF QueueShape
  <2>1. CASE l = cur
    <3>1. /\ Len(q) = Behind[cur] + Len(descFifo[cur]) + 0 /\ Len(q) <= LinkCap
          /\ Len(q) \in Nat /\ Behind[cur] \in Nat /\ Len(descFifo[cur]) \in Nat
          /\ Len(linkQueue'[cur]) = Len(q) - 1 /\ Behind'[cur] = Behind[cur] - 1
          /\ Pending'[cur] = 0
      BY <1>2, <1>4, <1>8, <1>10
    <3> HIDE DEF q
    <3>2. /\ Len(linkQueue'[cur]) = Behind'[cur] + Len(descFifo[cur]) + Pending'[cur]
          /\ Len(linkQueue'[cur]) <= LinkCap
      BY <3>1
    <3> QED BY <2>1, <3>2
  <2>2. CASE l # cur
    BY <1>4, <1>8, <1>10, <2>2
  <2> QED BY <2>1, <2>2
<1>12. QueueMatch'
  <2> SUFFICES ASSUME NEW l \in Links, NEW i \in 1 .. Len(descFifo[l])
               PROVE  descFifo[l][i] = linkQueue'[l][Behind'[l] + i]
    BY <1>1 DEF QueueMatch
  <2>1. descFifo[l][i] = linkQueue[l][Behind[l] + i]
    BY <1>3 DEF IInv, QueueMatch
  <2>2. CASE l = cur
    <3>1. Behind'[l] + i = Behind[cur] + i - 1 /\ (Behind'[l] + i) + 1 = Behind[l] + i
      BY <1>5, <1>10, <2>2
    <3>2. Len(linkQueue'[cur]) = Behind'[cur] + Len(descFifo[cur])
      <4>1. Session'
        BY <1>1, <1>3 DEF Session
      <4>2. Len(linkQueue'[cur]) = Behind'[cur] + Len(descFifo[cur]) + Pending'[cur]
        BY <1>1, <1>2, <1>11, <4>1 DEF QueueShape
      <4>3. Pending'[cur] = 0 /\ Len(descFifo[cur]) \in Nat /\ Behind'[cur] \in Nat
        BY <1>2, <1>4, <1>5, <1>10
      <4> QED BY <4>2, <4>3
    <3>3. Behind'[cur] \in Nat /\ Len(descFifo[cur]) \in Nat
      BY <1>2, <1>4, <1>5, <1>10
    <3>4. Behind'[l] + i \in 1 .. Len(linkQueue'[cur])
      BY <2>2, <3>2, <3>3
    <3>5. linkQueue'[cur][Behind'[l] + i] = q[(Behind'[l] + i) + 1]
      BY <1>8, <3>4
    <3> QED BY <2>1, <2>2, <3>1, <3>5
  <2>3. CASE l # cur
    BY <1>8, <1>10, <2>1, <2>3
  <2> QED BY <2>2, <2>3
<1>13. FilledPrefix'
  <2> SUFFICES ASSUME NEW l \in Links, NEW i \in 1 .. Len(linkQueue'[l])
               PROVE  content[linkQueue'[l][i]] # 0 <=> i <= Behind'[l]
    BY <1>1 DEF FilledPrefix
  <2>1. CASE l = cur
    <3>1. linkQueue'[cur][i] = q[i + 1] /\ i + 1 \in 1 .. Len(q)
      BY <1>8, <2>1
    <3>2. content[q[i + 1]] # 0 <=> i + 1 <= Behind[cur]
      BY <1>2, <1>3, <3>1 DEF IInv, FilledPrefix
    <3>3. i + 1 <= Behind[cur] <=> i <= Behind'[cur]
      BY <1>2, <1>5, <1>10
    <3> QED BY <2>1, <3>1, <3>2, <3>3
  <2>2. CASE l # cur
    <3>1. linkQueue'[l] = linkQueue[l] /\ Behind'[l] = Behind[l]
      BY <1>8, <1>10, <2>2
    <3> QED BY <1>3, <3>1 DEF IInv, FilledPrefix
  <2> QED BY <2>1, <2>2
<1>14. AmountInv'
  <2>1. Behind'[cur] = Behind[cur] - 1
    BY <1>2, <1>10
  <2>2. Session'
    BY <1>1, <1>3 DEF Session
  <2> QED BY <1>1, <1>2, <1>3, <1>5, <2>1, <2>2 DEF AmountInv
<1>15. DrainInv'
  <2> SUFFICES ASSUME stopping, NEW l \in Links, l < cur,
                      NEW i \in 1 .. Len(linkQueue'[l])
               PROVE  content[linkQueue'[l][i]] = 0
    BY <1>1, <1>2 DEF DrainInv
  <2>1. l # cur
    BY <1>2 DEF Links
  <2> QED BY <1>2, <1>8, <2>1 DEF IInv, DrainInv
<1>16. ControlInv' /\ ReclaimInv' /\ StoppedMeansReclaimed'
  BY <1>1, <1>2, <1>3 DEF IInv, ControlInv, ReclaimInv, StoppedMeansReclaimed, Session
<1> QED BY <1>8, <1>9, <1>11, <1>12, <1>13, <1>14, <1>15, <1>16 DEF IInv

(* What reclaimSuperpages() moves is a superpage of the card that DMA has   *)
(* not touched, unless the ready queue is full.                             *)
LEMMA ReclaimTakes ==
  ASSUME IInv, ReclaimSuperpage
  PROVE  /\ cur \in Links /\ linkQueue[cur] # <<>> /\ MoveToReady(cur, FALSE, 0)
         /\ Head(linkQueue[cur]) \in Page /\ owner[Head(linkQueue[cur])] = "card"
         /\ ReadyFull \/ content[Head(linkQueue[cur])] = 0
<1> DEFINE q == linkQueue[cur]
<1>1. /\ pc = "reclaim" /\ stopping /\ cur \in Links
      /\ q # <<>> /\ MoveToReady(cur, FALSE, 0) /\ TypeOK
  BY DEF ReclaimSuperpage, IInv, ControlInv, TypeOK
<1>2. Len(q) >= 1 /\ Head(q) = q[1] /\ Len(q) \in Nat /\ Head(q) \in Page
  BY <1>1, QueueTypes, EmptySeq, HeadTailProperties
<1>3. ReadyFull \/ content[Head(q)] = 0
  BY <1>1, <1>2 DEF IInv, DrainInv
<1>4. owner[Head(q)] = "card"
  BY <1>1, <1>2 DEF IInv, OwnerInv
<1> QED BY <1>1, <1>2, <1>3, <1>4

LEMMA ReclaimSuperpageStep ==
  ASSUME IInv, ReclaimSuperpage
  PROVE  IInv'
<1> DEFINE q == linkQueue[cur]
<1>1. UNCHANGED <<dmaState, sizeIndex, callVars, fwVars, content>>
  BY DEF ReclaimSuperpage
<1>2. /\ pc = "reclaim" /\ stopping /\ dmaState = "STOPPED" /\ cur \in Links
      /\ q # <<>> /\ MoveToReady(cur, FALSE, 0) /\ TypeOK
  BY DEF ReclaimSuperpage, IInv, ControlInv, TypeOK
<1>3. ReadyFull \/ content[Head(q)] = 0
  BY ReclaimTakes
<1>4. /\ linkQueue' \in [Links -> Seq(Page)]
      /\ readyQueue' \in Seq(ReadyEntry)
      /\ superpageCounter' \in [Links -> 0 .. CounterMod - 1]
      /\ owner' \in [Page -> {"user", "card", "ready", "dropped"}]
      /\ available' \in Nat
      /\ \A i \in 1 .. Len(linkQueue'[cur]) :
           linkQueue'[cur][i] = q[i + 1] /\ i + 1 \in 1 .. Len(q)
      /\ \A l \in Links : l # cur => linkQueue'[l] = linkQueue[l]
      /\ ReadyFull => ReadyFull'
      /\ OwnerInv' /\ QueuedOnce' /\ ReadyOnce' /\ ReadyMeansFilled'
  <2>1. 0 \in 0 .. FullSize
    OBVIOUS
  <2>2. ReadyFull \/ (FALSE <=> content[Head(q)] # 0)
    BY <1>3
  <2> QED BY <1>1, <1>2, <2>1, <2>2, MoveToReadyStep
<1>5. TypeOK'
  BY <1>1, <1>2, <1>4 DEF TypeOK, callVars, fwVars
<1>6. ~Session'
  BY <1>1, <1>2 DEF Session, callVars
<1>7. QueueShape' /\ QueueMatch' /\ FilledPrefix'
  BY <1>6 DEF QueueShape, QueueMatch, FilledPrefix
<1>8. DrainInv'
  <2> SUFFICES ASSUME ~ReadyFull', NEW l \in Links, NEW i \in 1 .. Len(linkQueue'[l])
               PROVE  content[linkQueue'[l][i]] = 0
    BY <1>1 DEF DrainInv
  <2>1. \A j \in 1 .. Len(linkQueue[l]) : content[linkQueue[l][j]] = 0
    BY <1>2, <1>4 DEF IInv, DrainInv
  <2>2. CASE l = cur
    <3>1. linkQueue'[cur][i] = q[i + 1] /\ i + 1 \in 1 .. Len(q)
      BY <1>4, <2>2
    <3> QED BY <2>1, <2>2, <3>1
  <2>3. CASE l # cur
    <3>1. linkQueue'[l] = linkQueue[l]
      BY <1>4, <2>3
    <3> QED BY <2>1, <3>1
  <2> QED BY <2>2, <2>3
<1>9. ReclaimInv'
  <2>1. \A l \in Links : l < cur => l # cur
    BY <1>2 DEF Links
  <2> QED BY <1>1, <1>4, <2>1 DEF IInv, ReclaimInv, callVars
<1>10. ControlInv' /\ AmountInv' /\ StoppedMeansReclaimed'
  BY <1>1, <1>2 DEF IInv, ControlInv, AmountInv, StoppedMeansReclaimed, callVars, fwVars
<1> QED BY <1>4, <1>5, <1>7, <1>8, <1>9, <1>10 DEF IInv

LEMMA StutterStep ==
  ASSUME IInv, UNCHANGED vars
  PROVE  IInv'
<1>1. UNCHANGED <<driverVars, callVars, fwVars, bufferVars>>
  BY DEF vars
<1>2. /\ TypeOK' /\ ControlInv' /\ ReclaimInv' /\ StoppedMeansReclaimed'
      /\ Session' = Session /\ Pending' = Pending
  BY <1>1 DEF IInv, TypeOK, ControlInv, ReclaimInv, StoppedMeansReclaimed, Session,
              Pending, driverVars, callVars, fwVars, bufferVars
<1>3. Behind' = Behind /\ ReadyFull' = ReadyFull
  BY <1>1 DEF Behind, ReadyFull, driverVars, fwVars
<1>4. AmountInv' /\ DrainInv'
  BY <1>1, <1>2, <1>3 DEF IInv, AmountInv, DrainInv, driverVars, callVars, bufferVars
<1> QED BY <1>1, <1>2, <1>4, QuietStep DEF driverVars, fwVars, bufferVars

-----------------------------------------------------------------------------
LEMMA NextIInv ==
  ASSUME IInv, [Next]_vars
  PROVE  IInv'
<1>1. CASE Firmware
  BY <1>1, FirmwareFillStep DEF Firmware
<1>2. CASE CallStep
  BY <1>2, PushDescriptorStep, ReadCountStep, ReadCountFatalStep, TransferStep,
     LinkDoneStep, ReclaimSuperpageStep, ReclaimNextStep DEF CallStep
<1>3. CASE Call
  BY <1>3, StartDmaStep, ResetChannelStep, StopDmaStep, PushRefusedStep,
     PushSuperpageStep, PopSuperpageStep, FillSuperpagesStep DEF Call
<1>4. CASE UNCHANGED vars
  BY <1>4, StutterStep
<1> QED BY <1>1, <1>2, <1>3, <1>4 DEF Next

THEOREM Invariance == Spec => []IInv
<1>1. IInv /\ [Next]_vars => IInv'
  BY NextIInv
<1> QED BY <1>1, InitIInv, PTL DEF Spec

(* Every variable keeps a value of its C++ type. *)
THEOREM TypeCorrect == Spec => []TypeOK
<1>1. IInv => TypeOK
  BY DEF IInv
<1> QED BY <1>1, Invariance, PTL

(* fillSuperpages(), stopDma() and its reclaim set the ready flag of the     *)
(* superpages DMA completed and of no others.                               *)
THEOREM ReadyFlagIsTrue == Spec => []ReadyMeansFilled
<1>1. IInv => ReadyMeansFilled
  BY DEF IInv
<1> QED BY <1>1, Invariance, PTL

(* After stopDma() every link queue is empty. *)
THEOREM StopEmptiesQueues == Spec => []StoppedMeansReclaimed
<1>1. IInv => StoppedMeansReclaimed
  BY DEF IInv
<1> QED BY <1>1, Invariance, PTL

(* While the engine runs, it writes only superpages that the driver still   *)
(* has queued for it, and in their order.                                   *)
THEOREM DmaStaysInQueue == Spec => []NoStrayDma
<1>1. IInv => NoStrayDma
  <2> SUFFICES ASSUME IInv, engineOn, NEW l \in Links
               PROVE  LET q == linkQueue[l]  d == descFifo[l]
                      IN /\ Len(d) <= Len(q)
                         /\ \A i \in 1 .. Len(d) : pc # "descriptor" \/ cur # l
                                                   => d[i] = q[Len(q) - Len(d) + i]
                         /\ \A i \in DOMAIN d : owner[d[i]] = "card"
    BY DEF NoStrayDma
  <2>1. Session /\ TypeOK
    BY DEF IInv, ControlInv, Session
  <2>2. /\ Len(linkQueue[l]) = Behind[l] + Len(descFifo[l]) + Pending[l]
        /\ Behind[l] \in Nat /\ Len(descFifo[l]) \in Nat /\ Pending[l] \in {0, 1}
        /\ Len(linkQueue[l]) \in Nat
    BY <2>1, QueueTypes DEF IInv, QueueShape
  <2>3. \A i \in 1 .. Len(descFifo[l]) :
          /\ descFifo[l][i] = linkQueue[l][Behind[l] + i]
          /\ Behind[l] + i \in 1 .. Len(linkQueue[l])
    BY <2>1, <2>2 DEF IInv, QueueMatch
  <2>4. Len(descFifo[l]) <= Len(linkQueue[l])
    BY <2>2
  <2>5. ASSUME NEW i \in 1 .. Len(descFifo[l]), pc # "descriptor" \/ cur # l
        PROVE  descFifo[l][i] = linkQueue[l][Len(linkQueue[l]) - Len(descFifo[l]) + i]
    <3>1. Pending[l] = 0
      BY <2>5 DEF Pending
    <3>2. Behind[l] = Len(linkQueue[l]) - Len(descFifo[l])
      BY <2>2, <3>1
    <3> QED BY <2>3, <3>2
  <2>6. ASSUME NEW i \in DOMAIN descFifo[l]
        PROVE  owner[descFifo[l][i]] = "card"
    <3>1. i \in 1 .. Len(descFifo[l])
      BY <2>1, QueueTypes, LenProperties
    <3> QED BY <2>3, <3>1 DEF IInv, OwnerInv
  <2> QED BY <2>4, <2>5, <2>6
<1> QED BY <1>1, Invariance, PTL

-----------------------------------------------------------------------------
(* Counting slots. *)
LEMMA SlotsCounted ==
  ASSUME TypeOK
  PROVE  /\ IsFiniteSet(Links \X (1 .. LinkCap)) /\ TotalSlots \in Nat
         /\ Cardinality(Links \X (1 .. LinkCap)) = TotalSlots
         /\ IsFiniteSet(UsedSlots) /\ Cardinality(UsedSlots) \in Nat
<1>1. /\ IsFiniteSet(Links) /\ Cardinality(Links) = NumLinks
      /\ IsFiniteSet(1 .. LinkCap) /\ Cardinality(1 .. LinkCap) = LinkCap
  BY FS_Interval DEF Links
<1>2. /\ IsFiniteSet(Links \X (1 .. LinkCap))
      /\ Cardinality(Links \X (1 .. LinkCap)) = NumLinks * LinkCap
  BY <1>1, FS_Product
<1>3. NumLinks * LinkCap = TotalSlots /\ TotalSlots \in Nat
  BY DEF TotalSlots
<1>4. UsedSlots \in SUBSET (Links \X (1 .. LinkCap))
  BY DEF UsedSlots
<1>5. IsFiniteSet(UsedSlots) /\ Cardinality(UsedSlots) \in Nat
  BY <1>2, <1>4, FS_Subset, FS_CardinalityType
<1> QED BY <1>2, <1>3, <1>5

(* With slots left, the shortest queue has room. *)
LEMMA ShortestHasRoom ==
  ASSUME TypeOK, SlotAccounting, dmaState = "STARTED", available # 0
  PROVE  Len(linkQueue[NextLink]) < LinkCap
<1> SUFFICES ASSUME ~(Len(linkQueue[NextLink]) < LinkCap) PROVE FALSE
  OBVIOUS
<1>1. \A l \in Links : Len(linkQueue[l]) >= LinkCap
  BY NextLinkShortest, QueueTypes
<1>2. UsedSlots = Links \X (1 .. LinkCap)
  <2>1. \A s \in Links \X (1 .. LinkCap) : s[2] <= Len(linkQueue[s[1]])
    BY <1>1, QueueTypes
  <2> QED BY <2>1 DEF UsedSlots
<1>3. available + TotalSlots = TotalSlots /\ available \in Nat /\ TotalSlots \in Nat
  BY <1>2, SlotsCounted DEF SlotAccounting, TypeOK
<1> QED BY <1>3

LEMMA PushTakesSlot ==
  ASSUME IInv, SlotAccounting, NEW p \in Page, PushSuperpage(p)
  PROVE  SlotAccounting'
<1> DEFINE k == NextLink
           n == Len(linkQueue[k]) + 1
<1>1. TypeOK /\ dmaState = "STARTED" /\ available # 0 /\ available \in Nat
  BY DEF PushSuperpage, Obstacle, IInv, TypeOK
<1>2. k \in Links /\ Len(linkQueue[k]) \in Nat /\ n \in 1 .. LinkCap
  BY <1>1, NextLinkShortest, ShortestHasRoom, QueueTypes
<1>3. linkQueue' = [linkQueue EXCEPT ![k] = Append(@, p)] /\ available' = available - 1
  BY DEF PushSuperpage
<1> HIDE DEF k
<1>4. \A l \in Links : Len(linkQueue'[l]) = IF l = k THEN n ELSE Len(linkQueue[l])
  <2>1. Len(Append(linkQueue[k], p)) = Len(linkQueue[k]) + 1
    BY <1>1, <1>2, QueueTypes, AppendProperties
  <2> QED BY <1>1, <1>2, <1>3, <2>1 DEF TypeOK
<1> HIDE DEF n
<1>5. UsedSlots' = UsedSlots \cup {<<k, n>>} /\ <<k, n>> \notin UsedSlots
  <2>1. ASSUME NEW s \in Links \X (1 .. LinkCap)
        PROVE  s \in UsedSlots' <=> s \in UsedSlots \cup {<<k, n>>}
    <3>1. s[2] <= Len(linkQueue'[s[1]]) <=> s[2] <= Len(linkQueue[s[1]]) \/ s = <<k, n>>
      <4>1. s[1] \in Links /\ s[2] \in 1 .. LinkCap /\ s = <<s[1], s[2]>>
        OBVIOUS
      <4>2. CASE s[1] = k
        BY <1>2, <1>4, <4>1, <4>2 DEF n
      <4>3. CASE s[1] # k
        BY <1>4, <4>1, <4>3
      <4> QED BY <4>2, <4>3
    <3> QED BY <3>1 DEF UsedSlots
  <2>2. <<k, n>> \in Links \X (1 .. LinkCap)
    BY <1>2
  <2>3. <<k, n>> \notin UsedSlots
    BY <1>2 DEF UsedSlots, n
  <2>4. UsedSlots \subseteq Links \X (1 .. LinkCap) /\ UsedSlots' \subseteq Links \X (1 .. LinkCap)
    BY DEF UsedSlots
  <2> QED BY <2>1, <2>2, <2>3, <2>4
<1>6. Cardinality(UsedSlots') = Cardinality(UsedSlots) + 1 /\ Cardinality(UsedSlots) \in Nat
  BY <1>1, <1>5, SlotsCounted, FS_AddElement
<1>7. available + Cardinality(UsedSlots) = TotalSlots /\ TotalSlots \in Nat
  BY <1>1, SlotsCounted DEF SlotAccounting
<1> QED BY <1>1, <1>3, <1>6, <1>7 DEF SlotAccounting, TotalSlots

LEMMA TransferFreesSlot ==
  ASSUME IInv, SlotAccounting, Transfer
  PROVE  SlotAccounting'
<1> DEFINE k == cur
           n == Len(linkQueue[k])
<1>1. /\ TypeOK /\ TypeOK' /\ UNCHANGED dmaState /\ available \in Nat /\ k \in Links
      /\ pc = "transfer" /\ amount > 0 /\ Session
  BY TransferStep DEF Transfer, IInv, TypeOK, AmountInv
<1>2. Len(linkQueue[k]) \in Nat /\ n <= LinkCap
  BY <1>1, QueueTypes DEF IInv, QueueShape
<1>3. linkQueue' = [linkQueue EXCEPT ![k] = Tail(@)] /\ available' = available + 1
  BY DEF Transfer, MoveToReady
<1>4. n >= 1 /\ linkQueue[k] \in Seq(Page) /\ linkQueue[k] # <<>>
  <2>1. Behind[k] >= 1 /\ Behind[k] \in Nat
    <3>1. amount <= Behind[k] /\ amount \in Nat /\ Behind[k] \in 0 .. CounterMod - 1
      BY <1>1, QueueTypes DEF IInv, AmountInv, TypeOK
    <3> HIDE DEF k
    <3> QED BY <1>1, <3>1
  <2>2. n = Behind[k] + Len(descFifo[k]) + Pending[k]
    BY <1>1 DEF IInv, QueueShape
  <2>3. n >= 1
    <3>1. Len(descFifo[k]) \in Nat /\ Pending[k] \in Nat
      BY <1>1, QueueTypes
    <3> HIDE DEF n, k
    <3> QED BY <2>1, <2>2, <3>1
  <2> QED BY <1>1, <2>3, QueueTypes, EmptySeq
<1>5. \A l \in Links : Len(linkQueue'[l]) = IF l = k THEN n - 1 ELSE Len(linkQueue[l])
  <2>1. Len(Tail(linkQueue[k])) = n - 1
    BY <1>4, HeadTailProperties
  <2> QED BY <1>1, <1>3, <2>1 DEF TypeOK
<1> HIDE DEF n, k
<1>6. UsedSlots' = UsedSlots \ {<<k, n>>} /\ <<k, n>> \in UsedSlots
  <2>1. ASSUME NEW s \in Links \X (1 .. LinkCap)
        PROVE  s \in UsedSlots' <=> s \in UsedSlots \ {<<k, n>>}
    <3>1. s[2] <= Len(linkQueue'[s[1]]) <=> s[2] <= Len(linkQueue[s[1]]) /\ s # <<k, n>>
      <4>1. s[1] \in Links /\ s[2] \in 1 .. LinkCap /\ s = <<s[1], s[2]>>
        OBVIOUS
      <4>2. CASE s[1] = k
        BY <1>2, <1>4, <1>5, <4>1, <4>2 DEF n
      <4>3. CASE s[1] # k
        BY <1>5, <4>1, <4>3
      <4> QED BY <4>2, <4>3
    <3> QED BY <3>1 DEF UsedSlots
  <2>2. <<k, n>> \in UsedSlots
    <3>1. k \in Links /\ n \in 1 .. LinkCap /\ n <= Len(linkQueue[k])
      BY <1>1, <1>2, <1>4 DEF n
    <3> QED BY <3>1 DEF UsedSlots
  <2>3. UsedSlots \subseteq Links \X (1 .. LinkCap) /\ UsedSlots' \subseteq Links \X (1 .. LinkCap)
    BY DEF UsedSlots
  <2> QED BY <2>1, <2>2, <2>3
<1>7. Cardinality(UsedSlots') = Cardinality(UsedSlots) - 1 /\ Cardinality(UsedSlots) \in Nat
  BY <1>1, <1>6, SlotsCounted, FS_RemoveElement
<1>8. dmaState = "STARTED" =>
        available + Cardinality(UsedSlots) = TotalSlots /\ TotalSlots \in Nat
  BY <1>1, SlotsCounted DEF SlotAccounting
<1> QED BY <1>1, <1>3, <1>7, <1>8 DEF SlotAccounting, TotalSlots

LEMMA StartFreesSlots ==
  ASSUME StartDma
  PROVE  SlotAccounting'
<1>1. linkQueue' = Empty /\ available' = TotalSlots
  BY DEF StartDma
<1>2. \A l \in Links : Len(linkQueue'[l]) = 0
  BY <1>1 DEF Empty
<1>3. UsedSlots' = {}
  BY <1>2 DEF UsedSlots
<1>4. Cardinality(UsedSlots') = 0
  BY <1>3, FS_EmptySet
<1>5. TotalSlots' = TotalSlots /\ TotalSlots \in Nat
  BY DEF TotalSlots
<1> QED BY <1>1, <1>4, <1>5 DEF SlotAccounting


LEMMA SlotsKept ==
  ASSUME SlotAccounting, UNCHANGED <<linkQueue, available>>,
         dmaState' = dmaState \/ dmaState' = "STOPPED"
  PROVE  SlotAccounting'
<1>1. UsedSlots' = UsedSlots
  BY DEF UsedSlots
<1> QED BY <1>1 DEF SlotAccounting, TotalSlots

LEMMA NextAccounting ==
  ASSUME IInv, SlotAccounting, [Next]_vars
  PROVE  SlotAccounting'
<1>1. CASE Firmware
  BY <1>1, SlotsKept DEF Firmware, FirmwareFill, driverVars
<1>2. CASE CallStep
  <2>1. ASSUME PushDescriptor \/ ReadCount \/ ReadCountFatal \/ LinkDone \/ ReclaimNext
        PROVE  SlotAccounting'
    BY <2>1, SlotsKept DEF PushDescriptor, ReadCount, ReadCountFatal, LinkDone,
                           ReclaimNext, driverVars
  <2>2. ASSUME ReclaimSuperpage PROVE SlotAccounting'
    <3>1. dmaState' = "STOPPED"
      BY <2>2 DEF ReclaimSuperpage, IInv, ControlInv
    <3> QED BY <3>1 DEF SlotAccounting
  <2> QED BY <1>2, <2>1, <2>2, TransferFreesSlot DEF CallStep
<1>3. CASE Call
  <2>1. ASSUME ResetChannel \/ StopDma \/ PushRefused \/ PopSuperpage \/ FillSuperpages
        PROVE  SlotAccounting'
    BY <2>1, SlotsKept DEF ResetChannel, StopDma, PushRefused, PopSuperpage,
                           FillSuperpages, driverVars
  <2> QED BY <1>3, <2>1, StartFreesSlots, PushTakesSlot DEF Call
<1>4. CASE UNCHANGED vars
  BY <1>4, SlotsKept DEF vars, driverVars
<1> QED BY <1>1, <1>2, <1>3, <1>4 DEF Next

LEMMA NextPossible ==
  ASSUME IInv, SlotAccounting, NoImpossibleError, [Next]_vars
  PROVE  NoImpossibleError'
<1> USE DEF NoImpossibleError
<1>1. CASE Firmware
  BY <1>1 DEF Firmware, FirmwareFill, driverVars, callVars
<1>2. CASE CallStep
  <2>1. ASSUME ReadCountFatal PROVE NoImpossibleError'
    BY <2>1, FatalOnlyWhenStopped DEF ReadCountFatal, driverVars
  <2> QED BY <1>2, <2>1 DEF CallStep, PushDescriptor, ReadCount, Transfer, LinkDone,
          ReclaimSuperpage, ReclaimNext, driverVars, callVars
<1>3. CASE Call
  <2>1. ASSUME PushRefused PROVE NoImpossibleError'
    <3>1. TypeOK /\ dmaState' = dmaState
      BY <2>1 DEF PushRefused, IInv, driverVars
    <3>2. dmaState = "STARTED" /\ available # 0 =>
            ~(Len(linkQueue[NextLink]) >= LinkCap)
      BY <3>1, ShortestHasRoom, NextLinkShortest, QueueTypes
    <3>3. outcome' = Obstacle
      BY <2>1 DEF PushRefused
    <3> QED BY <3>1, <3>2, <3>3 DEF Obstacle
  <2>2. ASSUME StopDma PROVE NoImpossibleError'
    BY <2>2 DEF StopDma
  <2>3. ASSUME StartDma PROVE NoImpossibleError'
    BY <2>3 DEF StartDma
  <2> QED BY <1>3, <2>1, <2>2, <2>3 DEF Call, ResetChannel, PushSuperpage, PopSuperpage,
          FillSuperpages, callVars
<1>4. CASE UNCHANGED vars
  BY <1>4 DEF vars, driverVars, callVars
<1> QED BY <1>1, <1>2, <1>3, <1>4 DEF Next

(* While DMA runs, mLinkQueuesTotalAvailable is the number of free slots.    *)
THEOREM SlotsAccounted == Spec => []SlotAccounting
<1>1. Init => SlotAccounting
  BY DEF Init, SlotAccounting
<1>2. IInv /\ SlotAccounting /\ [Next]_vars => SlotAccounting'
  BY NextAccounting
<1> QED BY <1>1, <1>2, Invariance, PTL DEF Spec

(* Neither "FATAL: Firmware reported more superpages available" nor the full *)
(* link queue that "should never happen" happens while DMA runs, whatever    *)
(* the number of links and wherever the counters wrap.                       *)
THEOREM ImpossibleErrors == Spec => []NoImpossibleError
<1>1. Init => NoImpossibleError
  BY DEF Init, NoImpossibleError
<1>2. IInv /\ SlotAccounting /\ NoImpossibleError /\ [Next]_vars => NoImpossibleError'
  BY NextPossible
<1> QED BY <1>1, <1>2, Invariance, SlotsAccounted, PTL DEF Spec
-----------------------------------------------------------------------------
(* The channel implements the ownership protocol.  Two more facts of every  *)
(* reachable state are needed: whatever is the card's waits in a link       *)
(* queue, so that a startDma() on empty queues drops nothing but what is    *)
(* ready; and the ready queue is never overfilled.                          *)
CardQueued ==
  \A p \in Page : owner[p] = "card" =>
    \E l \in Links : \E i \in 1 .. Len(linkQueue[l]) : linkQueue[l][i] = p
ReadyBounded == Len(readyQueue) <= ReadyCap

LEMMA MoveKeepsOwned ==
  ASSUME IInv, IInv', CardQueued, ReadyBounded, NEW k \in Links, linkQueue[k] # <<>>,
         NEW isReady \in BOOLEAN, NEW received \in 0 .. FullSize,
         MoveToReady(k, isReady, received)
  PROVE  CardQueued' /\ ReadyBounded'
<1> DEFINE q == linkQueue[k]
           p == Head(q)
           entry == [page |-> p, ready |-> isReady, received |-> received, link |-> k]
<1>1. TypeOK /\ q \in Seq(Page) /\ Len(q) \in Nat /\ Len(readyQueue) \in Nat
  BY QueueTypes DEF IInv
<1>2. /\ p = q[1] /\ p \in Page
      /\ Tail(q) \in Seq(Page) /\ Len(Tail(q)) = Len(q) - 1
      /\ \A i \in 1 .. Len(Tail(q)) : Tail(q)[i] = q[i + 1]
  BY <1>1, HeadTailProperties
<1>3. /\ linkQueue'[k] = Tail(q) /\ \A l \in Links : l # k => linkQueue'[l] = linkQueue[l]
      /\ owner'[p] # "card" /\ \A x \in Page : x # p => owner'[x] = owner[x]
  BY <1>1, <1>2 DEF MoveToReady, TypeOK
<1>4. CardQueued'
  <2> SUFFICES ASSUME NEW x \in Page, owner'[x] = "card"
               PROVE  \E l \in Links : \E i \in 1 .. Len(linkQueue'[l]) : linkQueue'[l][i] = x
    BY DEF CardQueued
  <2>1. x # p /\ owner[x] = "card"
    BY <1>3
  <2> PICK l \in Links : \E i \in 1 .. Len(linkQueue[l]) : linkQueue[l][i] = x
    BY <2>1 DEF CardQueued
  <2>2. PICK i \in 1 .. Len(linkQueue[l]) : linkQueue[l][i] = x
    OBVIOUS
  <2>3. CASE l = k
    <3>1. i # 1 /\ i \in 1 .. Len(q) /\ q[i] = x
      BY <1>2, <2>1, <2>2, <2>3
    <3> HIDE DEF p, q
    <3>2. PICK j \in 1 .. Len(Tail(q)) : j + 1 = i
      <4>1. i - 1 \in 1 .. Len(Tail(q)) /\ (i - 1) + 1 = i
        BY <1>1, <1>2, <3>1
      <4> QED BY <4>1
    <3>3. Tail(q)[j] = x
      BY <1>2, <3>1, <3>2
    <3>4. j \in 1 .. Len(linkQueue'[k]) /\ linkQueue'[k][j] = x
      BY <1>3, <3>2, <3>3
    <3> QED BY <3>4
  <2>4. CASE l # k
    BY <1>3, <2>2, <2>4
  <2> QED BY <2>3, <2>4
<1>5. ReadyBounded'
  <2>1. CASE ReadyFull
    BY <2>1 DEF ReadyBounded, MoveToReady
  <2>2. CASE ~ReadyFull
    <3>1. entry \in ReadyEntry /\ readyQueue \in Seq(ReadyEntry)
      BY <1>1, <1>2 DEF ReadyEntry, TypeOK
    <3>2. readyQueue' = Append(readyQueue, entry)
      BY <2>2 DEF MoveToReady
    <3> HIDE DEF entry
    <3>3. Len(readyQueue') = Len(readyQueue) + 1
      BY <3>1, <3>2, AppendProperties
    <3> QED BY <1>1, <2>2, <3>3 DEF ReadyBounded, ReadyFull
  <2> QED BY <2>1, <2>2
<1> QED BY <1>4, <1>5

LEMMA PushKeepsOwned ==
  ASSUME IInv, CardQueued, ReadyBounded, NEW p \in Page, PushSuperpage(p)
  PROVE  CardQueued' /\ ReadyBounded'
<1> DEFINE k == NextLink
           q == linkQueue[k]
<1>1. TypeOK /\ k \in Links
  BY NextLinkShortest DEF IInv
<1>2. /\ linkQueue' = [linkQueue EXCEPT ![k] = Append(@, p)]
      /\ owner' = [owner EXCEPT ![p] = "card"] /\ readyQueue' = readyQueue
  BY DEF PushSuperpage
<1> HIDE DEF k
<1>3. q \in Seq(Page) /\ Len(q) \in Nat
  BY <1>1, QueueTypes
<1>4. /\ linkQueue'[k] = Append(q, p) /\ \A l \in Links : l # k => linkQueue'[l] = linkQueue[l]
      /\ \A x \in Page : x # p => owner'[x] = owner[x]
  BY <1>1, <1>2 DEF TypeOK
<1> HIDE DEF q
<1>5. /\ Len(linkQueue'[k]) = Len(q) + 1 /\ linkQueue'[k][Len(q) + 1] = p
      /\ \A i \in 1 .. Len(q) : linkQueue'[k][i] = q[i]
  BY <1>3, <1>4, AppendProperties
<1>6. CardQueued'
  <2> SUFFICES ASSUME NEW x \in Page, owner'[x] = "card"
               PROVE  \E l \in Links : \E i \in 1 .. Len(linkQueue'[l]) : linkQueue'[l][i] = x
    BY DEF CardQueued
  <2>1. CASE x = p
    <3>1. Len(q) + 1 \in 1 .. Len(linkQueue'[k])
      BY <1>3, <1>5
    <3> QED BY <1>1, <1>5, <2>1, <3>1
  <2>2. CASE x # p
    <3> PICK l \in Links : \E i \in 1 .. Len(linkQueue[l]) : linkQueue[l][i] = x
      BY <1>4, <2>2 DEF CardQueued
    <3>1. PICK i \in 1 .. Len(linkQueue[l]) : linkQueue[l][i] = x
      OBVIOUS
    <3>2. CASE l = k
      <4>1. i \in 1 .. Len(q) /\ i \in 1 .. Len(linkQueue'[k]) /\ q[i] = x
        BY <1>3, <1>5, <3>1, <3>2 DEF q
      <4> QED BY <1>1, <1>5, <4>1
    <3>3. CASE l # k
      BY <1>4, <3>1, <3>3
    <3> QED BY <3>2, <3>3
  <2> QED BY <2>1, <2>2
<1> QED BY <1>2, <1>6 DEF ReadyBounded

LEMMA NextOwned ==
  ASSUME IInv, IInv', CardQueued, ReadyBounded, [Next]_vars
  PROVE  CardQueued' /\ ReadyBounded'
<1>1. ASSUME UNCHANGED <<linkQueue, owner, readyQueue>> PROVE CardQueued' /\ ReadyBounded'
  BY <1>1 DEF CardQueued, ReadyBounded
<1>2. CASE Firmware \/ UNCHANGED vars
  BY <1>1, <1>2 DEF Firmware, FirmwareFill, vars, driverVars, bufferVars
<1>3. CASE CallStep
  <2>1. ASSUME PushDescriptor \/ ReadCount \/ ReadCountFatal \/ LinkDone \/ ReclaimNext
        PROVE  CardQueued' /\ ReadyBounded'
    BY <1>1, <2>1 DEF PushDescriptor, ReadCount, ReadCountFatal, LinkDone, ReclaimNext,
                      driverVars, bufferVars
  <2>2. ASSUME Transfer PROVE CardQueued' /\ ReadyBounded'
    BY <2>2, TransferTakes, MoveKeepsOwned
  <2>3. ASSUME ReclaimSuperpage PROVE CardQueued' /\ ReadyBounded'
    <3>1. 0 \in 0 .. FullSize
      OBVIOUS
    <3> QED BY <2>3, <3>1, ReclaimTakes, MoveKeepsOwned
  <2> QED BY <1>3, <2>1, <2>2, <2>3 DEF CallStep
<1>4. CASE Call
  <2>1. ASSUME ResetChannel \/ StopDma \/ PushRefused \/ FillSuperpages
        PROVE  CardQueued' /\ ReadyBounded'
    BY <1>1, <2>1 DEF ResetChannel, StopDma, PushRefused, FillSuperpages, driverVars,
                      bufferVars
  <2>2. ASSUME StartDma PROVE CardQueued' /\ ReadyBounded'
    <3>1. readyQueue' = <<>> /\ \A p \in Page : owner'[p] # "card"
      BY <2>2 DEF StartDma, DropQueued
    <3> QED BY <3>1 DEF CardQueued, ReadyBounded
  <2>3. ASSUME PopSuperpage PROVE CardQueued' /\ ReadyBounded'
    <3>1. /\ linkQueue' = linkQueue /\ readyQueue' = Tail(readyQueue) /\ readyQueue # <<>>
          /\ owner' = [owner EXCEPT ![Head(readyQueue).page] = "user"]
      BY <2>3 DEF PopSuperpage
    <3>2. \A p \in Page : owner'[p] = "card" => owner[p] = "card"
      BY <3>1 DEF IInv, TypeOK
    <3>3. CardQueued'
      BY <3>1, <3>2 DEF CardQueued
    <3>4. readyQueue \in Seq(ReadyEntry) /\ Len(readyQueue) \in Nat
      BY LenProperties DEF IInv, TypeOK
    <3>5. Len(Tail(readyQueue)) = Len(readyQueue) - 1
      BY <3>1, <3>4, HeadTailProperties
    <3> QED BY <3>1, <3>3, <3>4, <3>5 DEF ReadyBounded
  <2> QED BY <1>4, <2>1, <2>2, <2>3, PushKeepsOwned DEF Call
<1> QED BY <1>2, <1>3, <1>4 DEF Next

Filled == {p \in Page : content[p] # 0}

LEMMA RefineInit == Init => Ownership!Init
<1> SUFFICES ASSUME Init PROVE Ownership!Init
  OBVIOUS
<1>1. readyQueue \in Seq(Page) /\ readyQueue = <<>>
  BY DEF Init
<1>2. AllShown(readyQueue) = <<>>
  BY <1>1, ShownEmpty
<1>3. Filled = {} /\ owner = [p \in Page |-> "user"]
  BY DEF Init, Filled
<1> QED BY <1>2, <1>3 DEF Ownership!Init, AllShown, Filled

(* transferSuperpageFromLinkToReady(): the superpage is completed, or       *)
(* dropped for want of room; what is completed is flagged as it was filled. *)
LEMMA MoveImplements ==
  ASSUME TypeOK, ReadyBounded, UNCHANGED content, NEW k \in Links,
         NEW p \in Page, p = Head(linkQueue[k]), owner[p] = "card",
         NEW isReady \in BOOLEAN, NEW received \in 0 .. FullSize,
         ReadyFull \/ isReady = (p \in Filled),
         MoveToReady(k, isReady, received)
  PROVE  Ownership!Complete(p) \/ Ownership!Drop(p)
<1> DEFINE entry == [page |-> p, ready |-> isReady, received |-> received, link |-> k]
<1>1. entry \in ReadyEntry /\ Shown(entry) = [page |-> p, ready |-> isReady]
  BY DEF ReadyEntry, Shown
<1>2. readyQueue \in Seq(ReadyEntry) /\ Len(readyQueue) \in Nat /\ Len(readyQueue) <= ReadyCap
  BY LenProperties DEF TypeOK, ReadyBounded
<1>3. Len(AllShown(readyQueue)) = Len(readyQueue) /\ Filled' = Filled
  BY <1>2, ShownIs DEF Filled
<1>4. CASE ~ReadyFull
  <2>1. owner' = [owner EXCEPT ![p] = "ready"] /\ readyQueue' = Append(readyQueue, entry)
    BY <1>4 DEF MoveToReady
  <2>2. Len(readyQueue) < ReadyCap /\ isReady = (p \in Filled)
    BY <1>2, <1>4 DEF ReadyFull
  <2> HIDE DEF entry
  <2>3. AllShown(readyQueue)' = Append(AllShown(readyQueue), Shown(entry))
    BY <1>1, <1>2, <2>1, ShownAppend
  <2>4. AllShown(readyQueue)' = Append(AllShown(readyQueue), [page |-> p, ready |-> p \in Filled])
    BY <1>1, <2>2, <2>3
  <2> QED BY <1>3, <2>1, <2>2, <2>4 DEF Ownership!Complete, AllShown, Filled
<1>5. CASE ReadyFull
  <2>1. /\ owner' = [owner EXCEPT ![p] = "dropped"] /\ readyQueue' = readyQueue
        /\ Len(readyQueue) = ReadyCap
    BY <1>2, <1>5 DEF MoveToReady, ReadyFull
  <2>2. AllShown(readyQueue)' = AllShown(readyQueue)
    BY <2>1 DEF AllShown
  <2> QED BY <1>3, <2>1, <2>2 DEF Ownership!Drop, AllShown, Filled
<1> QED BY <1>4, <1>5

LEMMA PushImplements ==
  ASSUME TypeOK, NEW p \in Page, PushSuperpage(p)
  PROVE  Ownership!Push(p)
<1>1. /\ owner[p] \in {"user", "dropped"} /\ owner' = [owner EXCEPT ![p] = "card"]
      /\ content' = [content EXCEPT ![p] = 0] /\ readyQueue' = readyQueue
  BY DEF PushSuperpage
<1>2. Filled' = Filled \ {p}
  BY <1>1 DEF Filled, TypeOK
<1> QED BY <1>1, <1>2 DEF Ownership!Push, Filled

LEMMA PopImplements ==
  ASSUME TypeOK, PopSuperpage
  PROVE  Ownership!Pop
<1>1. /\ readyQueue # <<>> /\ owner' = [owner EXCEPT ![Head(readyQueue).page] = "user"]
      /\ readyQueue' = Tail(readyQueue) /\ content' = content
  BY DEF PopSuperpage
<1>2. readyQueue \in Seq(ReadyEntry)
  BY DEF TypeOK
<1>3. /\ AllShown(readyQueue)' = Tail(AllShown(readyQueue)) /\ AllShown(readyQueue) # <<>>
      /\ Head(AllShown(readyQueue)) = Shown(Head(readyQueue))
  BY <1>1, <1>2, ShownTail, ShownEmpty
<1>4. Head(AllShown(readyQueue)).page = Head(readyQueue).page
  BY <1>3 DEF Shown
<1>5. Filled' = Filled
  BY <1>1 DEF Filled
<1> QED BY <1>1, <1>3, <1>4, <1>5 DEF Ownership!Pop, AllShown, Filled

(* The engine writes the first superpage of the queue it has not filled yet. *)
LEMMA FillImplements ==
  ASSUME IInv, NEW l \in Links, FirmwareFill(l)
  PROVE  \E p \in Page : Ownership!Fill(p)
<1>1. TypeOK /\ Session /\ UNCHANGED <<readyQueue, owner>>
  BY FillTakes DEF FirmwareFill, driverVars, IInv
<1>2. PICK p \in Page : p = Head(descFifo[l])
  BY FillTakes
<1>3. PICK size \in 1 .. FullSize : content' = [content EXCEPT ![p] = size]
  BY <1>2 DEF FirmwareFill
<1>4. owner[p] = "card" /\ content[p] = 0
  <2> DEFINE n == Behind[l] + 1
  <2>1. n \in 1 .. Len(linkQueue[l]) /\ p = linkQueue[l][n] /\ ~(n <= Behind[l])
    BY <1>2, FillTakes
  <2> HIDE DEF n
  <2> QED BY <1>1, <2>1 DEF IInv, OwnerInv, FilledPrefix, TypeOK
<1>5. p \notin Filled /\ Filled' = Filled \cup {p}
  <2>1. content \in [Page -> 0 .. FullSize]
    BY <1>1 DEF TypeOK
  <2> QED BY <1>3, <1>4, <2>1 DEF Filled
<1> QED BY <1>1, <1>4, <1>5 DEF Ownership!Fill, Filled

(* A stopped channel has no superpage in its link queues: what startDma()   *)
(* drops is what is still ready.                                            *)
LEMMA StartImplements ==
  ASSUME IInv, CardQueued, StartDma
  PROVE  Ownership!Forget
<1>1. TypeOK /\ pc = "idle" /\ dmaState # "STARTED"
  BY DEF StartDma, IInv
<1>2. dmaState = "STOPPED" /\ ~stopping
  BY <1>1 DEF IInv, ControlInv, TypeOK
<1>3. \A l \in Links : Len(linkQueue[l]) = 0
  BY <1>1, <1>2, QueueTypes, EmptySeq DEF IInv, StoppedMeansReclaimed
<1>4. \A p \in Page : owner[p] # "card"
  BY <1>3 DEF CardQueued
<1>5. owner' = [p \in Page |-> IF owner[p] = "ready" THEN "dropped" ELSE owner[p]]
  BY <1>4 DEF StartDma, DropQueued
<1>6. <<>> \in Seq(Page) /\ readyQueue' = <<>> /\ content' = content
  BY DEF StartDma
<1>7. AllShown(readyQueue)' = <<>>
  <2>1. AllShown(<<>>) = <<>>
    BY <1>6, ShownEmpty
  <2> QED BY <1>6, <2>1 DEF AllShown
<1> QED BY <1>5, <1>6, <1>7 DEF Ownership!Forget, AllShown

(* A step that leaves buffer and ready queue alone is no step of the protocol. *)
LEMMA OthersStutter ==
  ASSUME UNCHANGED <<owner, content, readyQueue>>
  PROVE  UNCHANGED Ownership!vars
BY DEF Ownership!vars

LEMMA RefineStep ==
  IInv /\ CardQueued /\ ReadyBounded /\ [Next]_vars => [Ownership!Next]_Ownership!vars
<1> SUFFICES ASSUME IInv, CardQueued, ReadyBounded, [Next]_vars
             PROVE  [Ownership!Next]_Ownership!vars
  OBVIOUS
<1>1. TypeOK
  BY DEF IInv
<1>2. CASE Firmware
  BY <1>2, FillImplements DEF Firmware, Ownership!Next
<1>3. CASE CallStep
  <2>1. CASE Transfer
    <3>1. PICK received \in 0 .. FullSize : MoveToReady(cur, TRUE, received)
      BY <2>1, TransferTakes
    <3>2. PICK k \in Links : k = cur
      BY <2>1, TransferTakes
    <3>3. PICK p \in Page : p = Head(linkQueue[cur])
      BY <2>1, TransferTakes
    <3>4. owner[p] = "card" /\ TRUE = (p \in Filled)
      BY <2>1, <3>3, TransferTakes DEF Filled
    <3>5. content' = content /\ TRUE \in BOOLEAN
      BY <2>1 DEF Transfer
    <3>6. MoveToReady(k, TRUE, received) /\ p = Head(linkQueue[k])
      BY <3>1, <3>2, <3>3 DEF MoveToReady
    <3>7. Ownership!Complete(p) \/ Ownership!Drop(p)
      BY <1>1, <3>4, <3>5, <3>6, MoveImplements
    <3> QED BY <3>7 DEF Ownership!Next
  <2>2. CASE ReclaimSuperpage
    <3>1. PICK k \in Links : k = cur
      BY <2>2, ReclaimTakes
    <3>2. PICK p \in Page : p = Head(linkQueue[cur])
      BY <2>2, ReclaimTakes
    <3>3. owner[p] = "card" /\ (ReadyFull \/ FALSE = (p \in Filled))
      BY <2>2, <3>2, ReclaimTakes DEF Filled
    <3>4. content' = content /\ FALSE \in BOOLEAN /\ 0 \in 0 .. FullSize
      BY <2>2 DEF ReclaimSuperpage
    <3>5. MoveToReady(k, FALSE, 0) /\ p = Head(linkQueue[k])
      BY <2>2, <3>1, <3>2 DEF MoveToReady, ReclaimSuperpage
    <3>6. Ownership!Complete(p) \/ Ownership!Drop(p)
      BY <1>1, <3>3, <3>4, <3>5, MoveImplements
    <3> QED BY <3>6 DEF Ownership!Next
  <2>3. CASE PushDescriptor \/ ReadCount \/ ReadCountFatal \/ LinkDone \/ ReclaimNext
    BY <2>3, OthersStutter DEF PushDescriptor, ReadCount, ReadCountFatal, LinkDone,
                               ReclaimNext, driverVars, bufferVars
  <2> QED BY <1>3, <2>1, <2>2, <2>3 DEF CallStep
<1>4. CASE Call
  <2>1. CASE ResetChannel \/ StopDma \/ PushRefused \/ FillSuperpages
    BY <2>1, OthersStutter DEF ResetChannel, StopDma, PushRefused, FillSuperpages,
                               driverVars, bufferVars
  <2>2. CASE StartDma
    BY <2>2, StartImplements DEF Ownership!Next
  <2>3. CASE \E p \in Page : PushSuperpage(p)
    BY <1>1, <2>3, PushImplements DEF Ownership!Next
  <2>4. CASE PopSuperpage
    BY <1>1, <2>4, PopImplements DEF Ownership!Next
  <2> QED BY <1>4, <2>1, <2>2, <2>3, <2>4 DEF Call
<1>5. CASE UNCHANGED vars
  BY <1>5, OthersStutter DEF vars, driverVars, bufferVars
<1> QED BY <1>2, <1>3, <1>4, <1>5 DEF Next

(* A CRU channel keeps every promise DmaChannelInterface makes about        *)
(* superpages, for any number of links: pushSuperpage(), fillSuperpages(),  *)
(* stopDma() and popSuperpage() hand each one on exactly as the ownership   *)
(* protocol says, and the card writes only superpages it was given.         *)
THEOREM ChannelImplementsOwnership == Spec => ImplementsOwnership
<1>1. Init => CardQueued /\ ReadyBounded
  BY DEF Init, CardQueued, ReadyBounded
<1>2. IInv /\ IInv' /\ CardQueued /\ ReadyBounded /\ [Next]_vars => CardQueued' /\ ReadyBounded'
  BY NextOwned
<1>3. Spec => Ownership!Init /\ [][Ownership!Next]_Ownership!vars
  BY <1>1, <1>2, RefineInit, RefineStep, Invariance, PTL DEF Spec
<1> QED BY <1>3 DEF ImplementsOwnership, Ownership!Spec
-----------------------------------------------------------------------------
(* The size FIFO of a link holds one entry for each superpage completed and *)
(* not collected, in the order of the link queue.  Their indices run, in    *)
(* the width of the index, from the one CruBar expects next to the one the  *)
(* firmware gives next: that is what makes getSuperpageSize() find the      *)
(* entry it waits for, after any number of wrap-arounds and restarts.       *)
SizeEntry == [size : 1 .. FullSize, index : 0 .. IndexMod - 1]
IndexAt(fifo, next, i) == IF i <= Len(fifo) THEN fifo[i].index ELSE next
IndexRun(fifo, next, first) ==
  /\ IndexAt(fifo, next, 1) = first
  /\ \A i \in 1 .. Len(fifo) :
       IndexAt(fifo, next, i + 1) = Inc(IndexAt(fifo, next, i), IndexMod)

SizeInv ==
  Session /\ SizeReported => \A l \in Links :
    /\ Len(sizeFifo[l]) = Behind[l]
    /\ \A i \in 1 .. Behind[l] : sizeFifo[l][i].size = content[linkQueue[l][i]]
    /\ IndexRun(sizeFifo[l], fwIndex[l], sizeIndex[l])

LEMMA RunOfNone ==
  ASSUME NEW next
  PROVE  IndexRun(<<>>, next, next)
BY DEF IndexRun, IndexAt

LEMMA RunAppend ==
  ASSUME NEW fifo \in Seq(SizeEntry), NEW next \in 0 .. IndexMod - 1, NEW first,
         IndexRun(fifo, next, first), NEW size \in 1 .. FullSize
  PROVE  IndexRun(Append(fifo, [size |-> size, index |-> next]), Inc(next, IndexMod), first)
<1> DEFINE e == [size |-> size, index |-> next]
           r == Append(fifo, e)
           n == Len(fifo)
           new == Inc(next, IndexMod)
<1>1. e \in SizeEntry /\ e.index = next /\ n \in Nat
  BY LenProperties DEF SizeEntry
<1> HIDE DEF e
<1>2. Len(r) = n + 1 /\ r[n + 1] = e /\ \A i \in 1 .. n : r[i] = fifo[i]
  BY <1>1, AppendProperties
<1> HIDE DEF r
<1>3. \A i \in 1 .. n + 1 : IndexAt(r, new, i) = IndexAt(fifo, next, i)
  <2> SUFFICES ASSUME NEW i \in 1 .. n + 1
               PROVE  IndexAt(r, new, i) = IndexAt(fifo, next, i)
    OBVIOUS
  <2>1. CASE i = n + 1
    BY <1>1, <1>2, <2>1 DEF IndexAt
  <2>2. CASE i # n + 1
    <3>1. i \in 1 .. n /\ i <= Len(fifo) /\ i <= Len(r)
      BY <1>1, <1>2, <2>2
    <3> QED BY <1>2, <3>1 DEF IndexAt
  <2> QED BY <2>1, <2>2
<1>4. IndexAt(r, new, (n + 1) + 1) = new /\ IndexAt(fifo, next, n + 1) = next
  BY <1>1, <1>2 DEF IndexAt
<1>5. ASSUME NEW i \in 1 .. n + 1
      PROVE  IndexAt(r, new, i + 1) = Inc(IndexAt(r, new, i), IndexMod)
  <2>1. CASE i = n + 1
    BY <1>3, <1>4, <2>1
  <2>2. CASE i # n + 1
    <3>1. i \in 1 .. n /\ i + 1 \in 1 .. n + 1
      BY <1>1, <2>2
    <3>2. IndexAt(fifo, next, i + 1) = Inc(IndexAt(fifo, next, i), IndexMod)
      BY <3>1 DEF IndexRun
    <3> QED BY <1>3, <3>1, <3>2
  <2> QED BY <2>1, <2>2
<1>6. IndexAt(r, new, 1) = first
  <2>1. 1 \in 1 .. n + 1
    BY <1>1
  <2> QED BY <1>3, <2>1 DEF IndexRun
<1>7. IndexRun(r, new, first)
  <2>1. \A i \in 1 .. Len(r) : IndexAt(r, new, i + 1) = Inc(IndexAt(r, new, i), IndexMod)
    BY <1>2, <1>5
  <2> QED BY <1>6, <2>1 DEF IndexRun
<1> QED BY <1>7 DEF r, e

LEMMA RunTail ==
  ASSUME NEW fifo \in Seq(SizeEntry), NEW next, NEW first,
         IndexRun(fifo, next, first), fifo # <<>>
  PROVE  /\ Head(fifo).index = first /\ Head(fifo) = fifo[1] /\ fifo[1] \in SizeEntry
         /\ IndexRun(Tail(fifo), next, Inc(first, IndexMod))
<1> DEFINE r == Tail(fifo)
           n == Len(fifo)
<1>1. /\ n \in Nat /\ n >= 1 /\ Head(fifo) = fifo[1] /\ fifo[1] \in SizeEntry
      /\ Len(r) = n - 1 /\ \A i \in 1 .. Len(r) : r[i] = fifo[i + 1]
  BY LenProperties, EmptySeq, HeadTailProperties
<1> HIDE DEF r
<1>2. Head(fifo).index = first
  BY <1>1 DEF IndexRun, IndexAt
<1>3. \A i \in 1 .. n : IndexAt(r, next, i) = IndexAt(fifo, next, i + 1)
  <2> SUFFICES ASSUME NEW i \in 1 .. n
               PROVE  IndexAt(r, next, i) = IndexAt(fifo, next, i + 1)
    OBVIOUS
  <2>1. CASE i = n
    <3>1. ~(i <= Len(r)) /\ ~(i + 1 <= Len(fifo))
      BY <1>1, <2>1
    <3> QED BY <3>1 DEF IndexAt
  <2>2. CASE i # n
    <3>1. i \in 1 .. Len(r) /\ i <= Len(r) /\ i + 1 <= Len(fifo)
      BY <1>1, <2>2
    <3> QED BY <1>1, <3>1 DEF IndexAt
  <2> QED BY <2>1, <2>2
<1>4. \A i \in 1 .. n : IndexAt(fifo, next, i + 1) = Inc(IndexAt(fifo, next, i), IndexMod)
  BY DEF IndexRun
<1>5. IndexAt(r, next, 1) = Inc(first, IndexMod)
  <2>1. 1 \in 1 .. n
    BY <1>1
  <2>2. IndexAt(fifo, next, 1) = first
    BY DEF IndexRun
  <2> QED BY <1>3, <1>4, <2>1, <2>2
<1>6. \A i \in 1 .. Len(r) : IndexAt(r, next, i + 1) = Inc(IndexAt(r, next, i), IndexMod)
  <2> SUFFICES ASSUME NEW i \in 1 .. Len(r)
               PROVE  IndexAt(r, next, i + 1) = Inc(IndexAt(r, next, i), IndexMod)
    OBVIOUS
  <2>1. i \in 1 .. n /\ i + 1 \in 1 .. n
    BY <1>1
  <2> QED BY <1>3, <1>4, <2>1
<1>7. IndexRun(r, next, Inc(first, IndexMod))
  BY <1>5, <1>6 DEF IndexRun
<1> QED BY <1>1, <1>2, <1>7 DEF r

LEMMA SizeTypes ==
  ASSUME TypeOK, NEW l \in Links
  PROVE  /\ sizeFifo[l] \in Seq(SizeEntry) /\ Len(sizeFifo[l]) \in Nat
         /\ fwIndex[l] \in 0 .. IndexMod - 1 /\ sizeIndex[l] \in 0 .. IndexMod - 1
BY LenProperties DEF TypeOK, SizeEntry

(* A step that touches neither the counts nor the sizes. *)
LEMMA SizesKept ==
  ASSUME SizeInv, Session' => Session,
         UNCHANGED <<linkQueue, superpageCounter, sizeIndex, fwCount, fwIndex, sizeFifo, content>>
  PROVE  SizeInv'
<1>1. Behind' = Behind
  BY DEF Behind
<1> QED BY <1>1 DEF SizeInv

LEMMA BehindIsQueued ==
  ASSUME IInv, Session, NEW l \in Links
  PROVE  /\ Behind[l] \in Nat
         /\ \A i \in 1 .. Behind[l] : i \in 1 .. Len(linkQueue[l])
<1> DEFINE x == Behind[l]
           d == Len(descFifo[l])
           w == Pending[l]
           n == Len(linkQueue[l])
<1>1. x \in 0 .. CounterMod - 1 /\ d \in Nat /\ w \in {0, 1} /\ n \in Nat
  BY QueueTypes DEF IInv
<1>2. n = x + d + w
  BY DEF IInv, QueueShape
<1> HIDE DEF x, d, w, n
<1>3. x \in Nat /\ \A i \in 1 .. x : i \in 1 .. n
  BY <1>1, <1>2
<1> QED BY <1>3 DEF x, n

LEMMA FillKeepsSizes ==
  ASSUME IInv, SizeInv, NEW l \in Links, FirmwareFill(l)
  PROVE  SizeInv'
<1> SUFFICES ASSUME SizeReported PROVE SizeInv'
  BY DEF SizeInv
<1> DEFINE p == Head(descFifo[l])
           b == Behind[l]
<1>1. TypeOK /\ Session /\ UNCHANGED <<linkQueue, sizeIndex>>
  BY FillTakes DEF IInv, FirmwareFill, driverVars
<1>2. PICK size \in 1 .. FullSize :
        /\ content' = [content EXCEPT ![p] = size]
        /\ sizeFifo' = [sizeFifo EXCEPT ![l] = Append(@, [size |-> size, index |-> fwIndex[l]])]
  BY DEF FirmwareFill
<1> DEFINE e == [size |-> size, index |-> fwIndex[l]]
<1>3. /\ b \in Nat /\ Behind'[l] = b + 1 /\ \A m \in Links : m # l => Behind'[m] = Behind[m]
      /\ p \in Page /\ p = linkQueue[l][b + 1] /\ b + 1 \in 1 .. Len(linkQueue[l])
  BY FillTakes
<1>4. /\ sizeFifo[l] \in Seq(SizeEntry) /\ fwIndex[l] \in 0 .. IndexMod - 1
      /\ e \in SizeEntry /\ e.size = size
      /\ Len(sizeFifo[l]) = b /\ IndexRun(sizeFifo[l], fwIndex[l], sizeIndex[l])
  BY <1>1, SizeTypes DEF SizeInv, SizeEntry
<1>5. /\ fwIndex'[l] = Inc(fwIndex[l], IndexMod)
      /\ sizeFifo'[l] = Append(sizeFifo[l], e)
      /\ \A m \in Links : m # l => sizeFifo'[m] = sizeFifo[m] /\ fwIndex'[m] = fwIndex[m]
  BY <1>1, <1>2 DEF FirmwareFill, TypeOK
<1>6. IndexRun(sizeFifo'[l], fwIndex'[l], sizeIndex'[l])
  BY <1>1, <1>4, <1>5, RunAppend
<1> HIDE DEF p, b, e
<1>7. /\ Len(sizeFifo'[l]) = b + 1 /\ sizeFifo'[l][b + 1] = e
      /\ \A i \in 1 .. b : sizeFifo'[l][i] = sizeFifo[l][i]
  BY <1>4, <1>5, AppendProperties
<1>8. \A m \in Links : Behind[m] \in Nat /\ \A i \in 1 .. Behind[m] : i \in 1 .. Len(linkQueue[m])
  BY <1>1, BehindIsQueued
<1>9. content'[p] = size /\ \A x \in Page : x # p => content'[x] = content[x]
  BY <1>1, <1>2, <1>3 DEF TypeOK, p
<1>10. ASSUME NEW m \in Links, NEW i \in 1 .. Behind[m]
       PROVE  content'[linkQueue[m][i]] = content[linkQueue[m][i]]
  <2>1. i \in 1 .. Len(linkQueue[m])
    BY <1>8
  <2>2. linkQueue[m][i] \in Page
    BY <1>1, <2>1, QueueTypes
  <2>3. linkQueue[m][i] # p
    <3>1. linkQueue[m][i] = linkQueue[l][b + 1] => m = l /\ i = b + 1
      BY <1>3, <2>1 DEF IInv, QueuedOnce
    <3>2. ~(m = l /\ i = b + 1)
      BY <1>3, <1>8 DEF b
    <3> QED BY <1>3, <3>1, <3>2
  <2> QED BY <1>9, <2>2, <2>3
<1> SUFFICES ASSUME NEW m \in Links
             PROVE  /\ Len(sizeFifo'[m]) = Behind'[m]
                    /\ \A i \in 1 .. Behind'[m] :
                         sizeFifo'[m][i].size = content'[linkQueue'[m][i]]
                    /\ IndexRun(sizeFifo'[m], fwIndex'[m], sizeIndex'[m])
  BY DEF SizeInv
<1>11. /\ Len(sizeFifo[m]) = Behind[m]
       /\ \A i \in 1 .. Behind[m] : sizeFifo[m][i].size = content[linkQueue[m][i]]
       /\ IndexRun(sizeFifo[m], fwIndex[m], sizeIndex[m])
  BY <1>1 DEF SizeInv
<1>12. CASE m = l
  <2> SUFFICES ASSUME NEW i \in 1 .. b + 1
               PROVE  sizeFifo'[l][i].size = content'[linkQueue[l][i]]
    BY <1>1, <1>3, <1>6, <1>7, <1>12
  <2>1. CASE i = b + 1
    BY <1>3, <1>4, <1>7, <1>9, <2>1
  <2>2. CASE i # b + 1
    <3>1. i \in 1 .. b
      BY <1>3, <2>2
    <3> QED BY <1>7, <1>10, <1>11, <1>12, <3>1 DEF b
  <2> QED BY <2>1, <2>2
<1>13. CASE m # l
  BY <1>1, <1>3, <1>5, <1>10, <1>11, <1>13
<1> QED BY <1>12, <1>13

LEMMA TransferKeepsSizes ==
  ASSUME IInv, IInv', SizeInv, Transfer
  PROVE  SizeInv'
<1> SUFFICES ASSUME SizeReported PROVE SizeInv'
  BY DEF SizeInv
<1>1. /\ TypeOK /\ cur \in Links /\ Session /\ linkQueue[cur] # <<>>
      /\ Behind[cur] \in Nat /\ Behind[cur] >= 1 /\ Behind[cur] <= Len(linkQueue[cur])
      /\ linkQueue[cur] \in Seq(Page)
  BY TransferTakes, QueueTypes DEF IInv
<1>2. /\ UNCHANGED <<content, fwIndex>>
      /\ sizeFifo[cur] # <<>>
      /\ sizeFifo' = [sizeFifo EXCEPT ![cur] = Tail(@)]
      /\ sizeIndex' = [sizeIndex EXCEPT ![cur] = Inc(@, IndexMod)]
  BY DEF Transfer, SizeShown
<1>3. linkQueue' = [linkQueue EXCEPT ![cur] = Tail(@)]
  BY TransferTakes DEF MoveToReady
<1>4. \A l \in Links : Behind'[l] = IF l = cur THEN Behind[l] - 1 ELSE Behind[l]
  BY TransferCounts
<1>5. /\ sizeFifo'[cur] = Tail(sizeFifo[cur]) /\ sizeIndex'[cur] = Inc(sizeIndex[cur], IndexMod)
      /\ linkQueue'[cur] = Tail(linkQueue[cur])
      /\ \A l \in Links : l # cur => /\ sizeFifo'[l] = sizeFifo[l] /\ sizeIndex'[l] = sizeIndex[l]
                                     /\ linkQueue'[l] = linkQueue[l]
  BY <1>1, <1>2, <1>3 DEF TypeOK
<1> SUFFICES ASSUME NEW l \in Links
             PROVE  /\ Len(sizeFifo'[l]) = Behind'[l]
                    /\ \A i \in 1 .. Behind'[l] :
                         sizeFifo'[l][i].size = content'[linkQueue'[l][i]]
                    /\ IndexRun(sizeFifo'[l], fwIndex'[l], sizeIndex'[l])
  BY DEF SizeInv
<1>6. /\ Len(sizeFifo[l]) = Behind[l]
      /\ \A i \in 1 .. Behind[l] : sizeFifo[l][i].size = content[linkQueue[l][i]]
      /\ IndexRun(sizeFifo[l], fwIndex[l], sizeIndex[l])
  BY <1>1 DEF SizeInv
<1>7. CASE l = cur
  <2> DEFINE f == sizeFifo[cur]
             q == linkQueue[cur]
             n == Behind[cur]
  <2>1. /\ f \in Seq(SizeEntry) /\ f # <<>> /\ q \in Seq(Page) /\ q # <<>>
        /\ n \in Nat /\ n >= 1 /\ n <= Len(q) /\ Len(f) = n /\ Len(q) \in Nat
        /\ \A i \in 1 .. n : f[i].size = content[q[i]]
    BY <1>1, <1>2, <1>6, <1>7, SizeTypes, LenProperties
  <2>2. IndexRun(sizeFifo'[cur], fwIndex'[cur], sizeIndex'[cur])
    <3>1. IndexRun(Tail(f), fwIndex[cur], Inc(sizeIndex[cur], IndexMod))
      BY <1>6, <1>7, <2>1, RunTail
    <3> QED BY <1>2, <1>5, <3>1
  <2> HIDE DEF f, q, n
  <2>3. /\ Len(Tail(f)) = n - 1 /\ \A i \in 1 .. Len(Tail(f)) : Tail(f)[i] = f[i + 1]
        /\ Len(Tail(q)) = Len(q) - 1 /\ \A i \in 1 .. Len(Tail(q)) : Tail(q)[i] = q[i + 1]
    BY <2>1, HeadTailProperties
  <2>4. ASSUME NEW i \in 1 .. n - 1 PROVE Tail(f)[i].size = content[Tail(q)[i]]
    <3>1. i + 1 \in 1 .. n /\ i \in 1 .. Len(Tail(f)) /\ i \in 1 .. Len(Tail(q))
      BY <2>1, <2>3
    <3> QED BY <2>1, <2>3, <3>1
  <2> QED BY <1>2, <1>4, <1>5, <1>7, <2>2, <2>3, <2>4 DEF f, q, n
<1>8. CASE l # cur
  BY <1>2, <1>4, <1>5, <1>6, <1>8
<1> QED BY <1>7, <1>8

LEMMA NextSizes ==
  ASSUME IInv, IInv', SizeInv, [Next]_vars
  PROVE  SizeInv'
<1>1. CASE Firmware
  BY <1>1, FillKeepsSizes DEF Firmware
<1>2. CASE CallStep
  <2>1. CASE Transfer
    BY <2>1, TransferKeepsSizes
  <2>2. CASE PushDescriptor \/ ReadCount \/ ReadCountFatal \/ LinkDone
    <3>1. Session' => Session
      BY <2>2 DEF Session, PushDescriptor, ReadCount, ReadCountFatal, LinkDone, driverVars
    <3> QED BY <2>2, <3>1, SizesKept DEF PushDescriptor, ReadCount, ReadCountFatal, LinkDone,
               driverVars, fwVars, bufferVars
  <2>3. CASE ReclaimSuperpage \/ ReclaimNext
    <3>1. ~Session'
      BY <2>3 DEF ReclaimSuperpage, ReclaimNext, driverVars, callVars, IInv, ControlInv, Session
    <3> QED BY <3>1 DEF SizeInv
  <2> QED BY <1>2, <2>1, <2>2, <2>3 DEF CallStep
<1>3. CASE Call
  <2>1. CASE StartDma
    <3>1. /\ sizeFifo' = Empty /\ fwIndex' = Zero /\ sizeIndex' = Zero /\ fwCount' = Zero
          /\ superpageCounter' = Zero
      BY <2>1 DEF StartDma, ResetCru
    <3>2. \A l \in Links : Behind'[l] = 0
      <4>1. 0 \in 0 .. CounterMod - 1
        OBVIOUS
      <4>2. Diff(0, 0) = 0
        BY <4>1, DiffType
      <4> QED BY <3>1, <4>2 DEF Behind, Zero
    <3>3. Len(<<>>) = 0
      OBVIOUS
    <3> QED BY <3>1, <3>2, <3>3, RunOfNone DEF SizeInv, Empty, Zero
  <2>2. CASE ResetChannel
    <3>1. ~Session'
      BY <2>2 DEF ResetChannel, callVars, IInv, ControlInv, Session
    <3> QED BY <3>1 DEF SizeInv
  <2>3. CASE StopDma \/ PushRefused \/ PopSuperpage \/ FillSuperpages
    <3>1. Session' => Session
      BY <2>3 DEF Session, StopDma, PushRefused, PopSuperpage, FillSuperpages, driverVars,
                  callVars, IInv, ControlInv
    <3> QED BY <2>3, <3>1, SizesKept DEF StopDma, PushRefused, PopSuperpage, FillSuperpages,
               driverVars, fwVars, bufferVars
  <2>4. ASSUME NEW p \in Page, PushSuperpage(p) PROVE SizeInv'
    <3> DEFINE k == NextLink
    <3>1. /\ UNCHANGED <<superpageCounter, sizeIndex, fwCount, fwIndex, sizeFifo>>
          /\ linkQueue' = [linkQueue EXCEPT ![k] = Append(@, p)]
          /\ content' = [content EXCEPT ![p] = 0]
          /\ Session /\ owner[p] \in {"user", "dropped"} /\ Behind' = Behind
      BY <2>4 DEF PushSuperpage, Obstacle, fwVars, Session, Behind
    <3>2. TypeOK /\ k \in Links /\ linkQueue[k] \in Seq(Page)
      BY NextLinkShortest, QueueTypes DEF IInv
    <3> HIDE DEF k
    <3>3. ASSUME NEW l \in Links, NEW i \in 1 .. Len(linkQueue[l])
          PROVE  content'[linkQueue'[l][i]] = content[linkQueue[l][i]]
      <4>1. linkQueue[l][i] \in Page /\ linkQueue[l][i] # p
        BY <3>1, <3>2, QueueTypes, NotQueued
      <4>2. \A j \in 1 .. Len(linkQueue[k]) : Append(linkQueue[k], p)[j] = linkQueue[k][j]
        BY <3>2, AppendProperties
      <4>3. linkQueue'[l][i] = linkQueue[l][i]
        BY <3>1, <3>2, <4>2 DEF TypeOK
      <4> QED BY <3>1, <3>2, <4>1, <4>3 DEF TypeOK
    <3>4. ASSUME NEW l \in Links, NEW i \in 1 .. Behind[l]
          PROVE  content'[linkQueue'[l][i]] = content[linkQueue[l][i]]
      <4>1. i \in 1 .. Len(linkQueue[l])
        BY <3>1, BehindIsQueued
      <4> QED BY <3>3, <4>1
    <3> SUFFICES ASSUME SizeReported, NEW l \in Links
                 PROVE  /\ Len(sizeFifo[l]) = Behind[l]
                        /\ \A i \in 1 .. Behind[l] :
                             sizeFifo[l][i].size = content'[linkQueue'[l][i]]
                        /\ IndexRun(sizeFifo[l], fwIndex[l], sizeIndex[l])
      <4>1. UNCHANGED <<sizeIndex, fwIndex, sizeFifo>> /\ Behind' = Behind
        BY <3>1
      <4> QED BY <4>1 DEF SizeInv
    <3>5. /\ Len(sizeFifo[l]) = Behind[l]
          /\ \A i \in 1 .. Behind[l] : sizeFifo[l][i].size = content[linkQueue[l][i]]
          /\ IndexRun(sizeFifo[l], fwIndex[l], sizeIndex[l])
      BY <3>1 DEF SizeInv
    <3> QED BY <3>4, <3>5
  <2> QED BY <1>3, <2>1, <2>2, <2>3, <2>4 DEF Call
<1>4. CASE UNCHANGED vars
  BY <1>4, SizesKept DEF vars, driverVars, callVars, fwVars, bufferVars, Session
<1> QED BY <1>1, <1>2, <1>3, <1>4 DEF Next

(* What a superpage was filled with is what it is handed back with. *)
RightSize(e, bytes) ==
  e.ready => e.received = IF SizeReported THEN bytes ELSE FullSize

LEMMA NextReceived ==
  ASSUME IInv, IInv', SizeInv, ReceivedIsWritten, [Next]_vars
  PROVE  ReceivedIsWritten'
<1>1. TypeOK /\ TypeOK'
  BY DEF IInv
<1>2. /\ readyQueue \in Seq(ReadyEntry) /\ Len(readyQueue) \in Nat
      /\ \A i \in 1 .. Len(readyQueue) : /\ readyQueue[i].page \in Page
                                         /\ owner[readyQueue[i].page] = "ready"
                                         /\ RightSize(readyQueue[i], content[readyQueue[i].page])
  <2>1. DOMAIN readyQueue = 1 .. Len(readyQueue) /\ readyQueue \in Seq(ReadyEntry)
    BY <1>1, LenProperties DEF TypeOK
  <2>2. /\ Len(readyQueue) \in Nat
        /\ \A i \in 1 .. Len(readyQueue) : readyQueue[i].page \in Page
    BY <1>1, QueueTypes
  <2>3. \A i \in 1 .. Len(readyQueue) : owner[readyQueue[i].page] = "ready"
    BY DEF IInv, OwnerInv
  <2>4. \A i \in 1 .. Len(readyQueue) : RightSize(readyQueue[i], content[readyQueue[i].page])
    BY <2>1 DEF ReceivedIsWritten, RightSize
  <2> QED BY <2>1, <2>2, <2>3, <2>4
<1>10. ASSUME \A i \in 1 .. Len(readyQueue') :
                RightSize(readyQueue'[i], content'[readyQueue'[i].page])
       PROVE  ReceivedIsWritten'
  <2>1. DOMAIN readyQueue' = 1 .. Len(readyQueue')
    BY <1>1, LenProperties DEF TypeOK
  <2> QED BY <1>10, <2>1 DEF ReceivedIsWritten, RightSize
<1>3. ASSUME UNCHANGED <<readyQueue, content>> PROVE ReceivedIsWritten'
  BY <1>3 DEF ReceivedIsWritten
<1>4. ASSUME NEW p \in Page, NEW size, content' = [content EXCEPT ![p] = size],
             readyQueue' = readyQueue, owner[p] # "ready"
      PROVE  ReceivedIsWritten'
  <2>1. \A i \in 1 .. Len(readyQueue) :
          content'[readyQueue[i].page] = content[readyQueue[i].page]
    BY <1>1, <1>2, <1>4 DEF TypeOK
  <2>2. \A i \in 1 .. Len(readyQueue') :
          RightSize(readyQueue'[i], content'[readyQueue'[i].page])
    BY <1>2, <1>4, <2>1
  <2> QED BY <1>10, <2>2
<1>5. ASSUME NEW e \in ReadyEntry, content' = content, readyQueue' = Append(readyQueue, e),
             RightSize(e, content[e.page])
      PROVE  ReceivedIsWritten'
  <2>1. /\ Len(readyQueue') = Len(readyQueue) + 1 /\ readyQueue'[Len(readyQueue) + 1] = e
        /\ \A i \in 1 .. Len(readyQueue) : readyQueue'[i] = readyQueue[i]
    BY <1>2, <1>5, AppendProperties
  <2>2. ASSUME NEW i \in 1 .. Len(readyQueue')
        PROVE  RightSize(readyQueue'[i], content'[readyQueue'[i].page])
    <3>1. i \in 1 .. Len(readyQueue) \/ i = Len(readyQueue) + 1
      BY <1>2, <2>1
    <3> QED BY <1>2, <1>5, <2>1, <3>1
  <2> QED BY <1>10, <2>2
<1>6. CASE Firmware
  <2>1. PICK l \in Links : FirmwareFill(l)
    BY <1>6 DEF Firmware
  <2>2. PICK p \in Page : p = Head(descFifo[l])
    BY <2>1, FillTakes
  <2>3. PICK size \in 1 .. FullSize : content' = [content EXCEPT ![p] = size]
    BY <2>1, <2>2 DEF FirmwareFill
  <2>4. owner[p] # "ready"
    <3> DEFINE n == Behind[l] + 1
    <3>1. n \in 1 .. Len(linkQueue[l]) /\ p = linkQueue[l][n]
      BY <2>1, <2>2, FillTakes
    <3> HIDE DEF n
    <3> QED BY <3>1 DEF IInv, OwnerInv
  <2> QED BY <1>4, <2>1, <2>3, <2>4 DEF FirmwareFill, driverVars
<1>7. CASE CallStep
  <2>1. CASE Transfer
    <3> DEFINE p == Head(linkQueue[cur])
               size == IF SizeReported THEN content[p] ELSE FullSize
               e == [page |-> p, ready |-> TRUE, received |-> size, link |-> cur]
    <3>0. cur \in Links /\ Behind[cur] \in Nat /\ content' = content
      <4>1. cur \in Links /\ content' = content
        BY <2>1, TransferTakes DEF Transfer
      <4> QED BY <1>1, <4>1, QueueTypes
    <3>1. /\ cur \in Links /\ Session /\ Behind[cur] >= 1 /\ Behind[cur] \in Nat
          /\ p \in Page /\ p = linkQueue[cur][1] /\ ~ReadyFull /\ content' = content
      BY <2>1, <3>0, TransferTakes
    <3>2. MoveToReady(cur, TRUE, size)
      <4>1. CASE SizeReported
        <5>1. sizeFifo[cur] # <<>> /\ MoveToReady(cur, TRUE, Head(sizeFifo[cur]).size)
          BY <2>1, <4>1 DEF Transfer, SizeShown
        <5>2. Head(sizeFifo[cur]) = sizeFifo[cur][1]
          BY <1>1, <3>1, <5>1, SizeTypes, HeadTailProperties
        <5>3. sizeFifo[cur][1].size = content[p]
          BY <3>1, <4>1 DEF SizeInv
        <5> QED BY <4>1, <5>1, <5>2, <5>3
      <4>2. CASE ~SizeReported
        BY <2>1, <4>2 DEF Transfer
      <4> QED BY <4>1, <4>2
    <3>3. size \in 0 .. FullSize
      <4>1. content[p] \in 0 .. FullSize /\ FullSize \in 0 .. FullSize
        <5>1. content \in [Page -> 0 .. FullSize]
          BY <1>1 DEF TypeOK
        <5> QED BY <3>1, <5>1
      <4> QED BY <4>1
    <3>4. readyQueue' = Append(readyQueue, e)
      BY <3>1, <3>2 DEF MoveToReady
    <3>5. e \in ReadyEntry /\ RightSize(e, content[e.page])
      BY <3>1, <3>3 DEF ReadyEntry, RightSize
    <3> HIDE DEF e
    <3> QED BY <1>5, <3>1, <3>4, <3>5
  <2>2. CASE ReclaimSuperpage
    <3> DEFINE p == Head(linkQueue[cur])
               e == [page |-> p, ready |-> FALSE, received |-> 0, link |-> cur]
    <3>1. MoveToReady(cur, FALSE, 0) /\ cur \in Links /\ p \in Page /\ content' = content
      BY <2>2, ReclaimTakes DEF ReclaimSuperpage
    <3>2. e \in ReadyEntry /\ RightSize(e, content[e.page])
      BY <3>1 DEF ReadyEntry, RightSize
    <3>3. readyQueue' = readyQueue \/ readyQueue' = Append(readyQueue, e)
      BY <3>1 DEF MoveToReady
    <3> HIDE DEF e
    <3> QED BY <1>3, <1>5, <3>1, <3>2, <3>3
  <2>3. CASE PushDescriptor \/ ReadCount \/ ReadCountFatal \/ LinkDone \/ ReclaimNext
    BY <1>3, <2>3 DEF PushDescriptor, ReadCount, ReadCountFatal, LinkDone, ReclaimNext,
                      driverVars, bufferVars
  <2> QED BY <1>7, <2>1, <2>2, <2>3 DEF CallStep
<1>8. CASE Call
  <2>1. CASE ResetChannel \/ StopDma \/ PushRefused \/ FillSuperpages
    BY <1>3, <2>1 DEF ResetChannel, StopDma, PushRefused, FillSuperpages, driverVars, bufferVars
  <2>2. CASE StartDma
    BY <2>2 DEF StartDma, ReceivedIsWritten
  <2>3. ASSUME NEW p \in Page, PushSuperpage(p) PROVE ReceivedIsWritten'
    BY <1>4, <2>3 DEF PushSuperpage
  <2>4. CASE PopSuperpage
    <3>1. content' = content /\ readyQueue' = Tail(readyQueue) /\ readyQueue # <<>>
      BY <2>4 DEF PopSuperpage
    <3>2. /\ Len(readyQueue') = Len(readyQueue) - 1
          /\ \A i \in 1 .. Len(readyQueue') : readyQueue'[i] = readyQueue[i + 1]
      BY <1>2, <3>1, HeadTailProperties
    <3>3. \A i \in 1 .. Len(readyQueue') : i + 1 \in 1 .. Len(readyQueue)
      BY <1>2, <3>2
    <3>4. \A i \in 1 .. Len(readyQueue') :
            RightSize(readyQueue'[i], content'[readyQueue'[i].page])
      BY <1>2, <3>1, <3>2, <3>3
    <3> QED BY <1>10, <3>4
  <2> QED BY <1>8, <2>1, <2>2, <2>3, <2>4 DEF Call
<1>9. CASE UNCHANGED vars
  BY <1>3, <1>9 DEF vars, driverVars, bufferVars
<1> QED BY <1>6, <1>7, <1>8, <1>9 DEF Next

(* The sizes getSuperpageSize() reads are those of the superpages they are  *)
(* stored with, and the entry it waits for - in a loop with no way out - is *)
(* always there, whatever the width of the index, however often DMA is      *)
(* stopped, reset and started, and however far the user lets it run ahead.  *)
THEOREM SizesStayInStep == Spec => []SizesInStep
<1>1. Init => SizeInv /\ ReceivedIsWritten
  BY DEF Init, SizeInv, Session, ReceivedIsWritten
<1>2. IInv /\ IInv' /\ SizeInv /\ ReceivedIsWritten /\ [Next]_vars
        => SizeInv' /\ ReceivedIsWritten'
  BY NextSizes, NextReceived
<1>3. IInv /\ SizeInv /\ ReceivedIsWritten => SizesInStep
  <2> SUFFICES ASSUME IInv, SizeInv, pc = "transfer", amount > 0, SizeReported
               PROVE  SizeShown
    BY DEF SizesInStep, SizeIsComing
  <2>1. TypeOK /\ cur \in Links /\ amount \in Nat
    BY DEF IInv, TypeOK
  <2>2. Session /\ Behind[cur] \in Nat /\ Behind[cur] >= 1
    BY <2>1, QueueTypes DEF IInv, AmountInv
  <2>3. /\ sizeFifo[cur] \in Seq(SizeEntry) /\ Len(sizeFifo[cur]) = Behind[cur]
        /\ IndexRun(sizeFifo[cur], fwIndex[cur], sizeIndex[cur])
    BY <2>1, <2>2, SizeTypes DEF SizeInv
  <2>4. sizeFifo[cur] # <<>>
    BY <2>2, <2>3, EmptySeq
  <2> QED BY <2>3, <2>4, RunTail DEF SizeShown
<1> QED BY <1>1, <1>2, <1>3, Invariance, PTL DEF Spec
=============================================================================
