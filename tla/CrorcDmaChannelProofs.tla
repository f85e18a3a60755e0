----------------------- MODULE CrorcDmaChannelProofs -----------------------
(***************************************************************************)
(* For any number of superpages, any queue capacities and any width of the *)
(* firmware's count: what a C-RORC channel reports of a superpage is true  *)
(* of that superpage, it implements the ownership protocol of              *)
(* DmaChannelInterface, and with room in the ready queue superpages come   *)
(* back in the order they were pushed.                                     *)
(***************************************************************************)
EXTENDS CrorcDmaChannel, SequenceTheorems, FiniteSetTheorems, TLAPS

LEMMA SeqOfOne ==
  ASSUME NEW S, NEW s \in Seq(S), s # <<>>, Len(s) <= 1
  PROVE  /\ Head(s) = s[1] /\ Head(s) \in S
         /\ s = <<Head(s)>> /\ Tail(s) = <<>> /\ Len(s) = 1
<1>1. Len(s) = 1
  <2>1. Len(s) \in Nat /\ Len(Tail(s)) \in Nat /\ Len(Tail(s)) = Len(s) - 1
    BY HeadTailProperties, LenProperties
  <2> QED BY <2>1
<1>2. Head(s) = s[1] /\ Head(s) \in S
  BY HeadTailProperties
<1>3. s = <<Head(s)>>
  <2>1. <<Head(s)>> \in Seq(S) /\ Len(<<Head(s)>>) = 1
    BY <1>2
  <2> QED BY <1>1, <1>2, <2>1, SeqEqual
<1>4. Tail(s) = <<>>
  <2>1. Tail(s) \in Seq(S) /\ Len(Tail(s)) = 0
    BY <1>1, HeadTailProperties
  <2> QED BY <2>1, EmptySeq
<1> QED BY <1>1, <1>2, <1>3, <1>4

LEMMA HeadThenTail ==
  ASSUME NEW S, NEW s \in Seq(S), s # <<>>
  PROVE  s = <<Head(s)>> \o Tail(s)
<1> DEFINE h == Head(s)
           r == Tail(s)
<1>1. /\ h = s[1] /\ h \in S /\ r \in Seq(S) /\ Len(s) \in Nat
      /\ Len(r) = Len(s) - 1 /\ Len(r) \in Nat
      /\ \A i \in 1 .. Len(r) : r[i] = s[i + 1]
  BY HeadTailProperties, LenProperties
<1> HIDE DEF h, r
<1>2. <<h>> \in Seq(S) /\ Len(<<h>>) = 1 /\ <<h>>[1] = h
  BY <1>1
<1> DEFINE c == <<h>> \o r
<1>3. /\ c \in Seq(S) /\ Len(c) = 1 + Len(r)
      /\ \A i \in 1 .. 1 + Len(r) : c[i] = IF i <= 1 THEN <<h>>[i] ELSE r[i - 1]
  BY <1>1, <1>2, ConcatProperties
<1> HIDE DEF c
<1>4. ASSUME NEW i \in 1 .. Len(s) PROVE s[i] = c[i]
  <2>1. CASE i = 1
    BY <1>1, <1>2, <1>3, <2>1
  <2>2. CASE i # 1
    <3>1. i - 1 \in 1 .. Len(r) /\ (i - 1) + 1 = i /\ i \in 1 .. 1 + Len(r) /\ ~(i <= 1)
      BY <1>1, <2>2
    <3> QED BY <1>1, <1>3, <3>1
  <2> QED BY <2>1, <2>2
<1>5. Len(c) = Len(s)
  BY <1>1, <1>3
<1>6. s = c
  BY <1>3, <1>4, <1>5, SeqEqual
<1> QED BY <1>6 DEF c, h, r

(* The front of two queues joined end to end is the front of the first. *)
LEMMA TailOfConcat ==
  ASSUME NEW S, NEW s \in Seq(S), NEW t \in Seq(S), s # <<>>
  PROVE  s \o t # <<>> /\ Tail(s \o t) = Tail(s) \o t
<1> DEFINE h == Head(s)
           r == Tail(s)
<1>1. h \in S /\ r \in Seq(S) /\ s = <<h>> \o r
  BY HeadTailProperties, HeadThenTail
<1> HIDE DEF h, r
<1>2. <<h>> \in Seq(S) /\ Len(<<h>>) = 1
  BY <1>1
<1> DEFINE c == s \o t
           d == r \o t
<1>3. d \in Seq(S) /\ c \in Seq(S) /\ c = <<h>> \o d
  BY <1>1, <1>2, ConcatProperties, ConcatAssociative
<1> HIDE DEF c, d
<1>4. /\ Len(c) = 1 + Len(d) /\ Len(d) \in Nat /\ Len(c) \in Nat
      /\ \A i \in 1 .. 1 + Len(d) : c[i] = IF i <= 1 THEN <<h>>[i] ELSE d[i - 1]
  BY <1>2, <1>3, ConcatProperties, LenProperties
<1>5. c # <<>>
  BY <1>3, <1>4, EmptySeq
<1>6. /\ Tail(c) \in Seq(S) /\ Len(Tail(c)) = Len(d)
      /\ \A i \in 1 .. Len(d) : Tail(c)[i] = c[i + 1]
  BY <1>3, <1>4, <1>5, HeadTailProperties
<1>7. ASSUME NEW i \in 1 .. Len(d) PROVE Tail(c)[i] = d[i]
  <2>1. i + 1 \in 1 .. 1 + Len(d) /\ ~(i + 1 <= 1) /\ (i + 1) - 1 = i
    BY <1>4
  <2> QED BY <1>4, <1>6, <2>1
<1>8. Tail(c) = d
  BY <1>3, <1>6, <1>7, SeqEqual
<1> QED BY <1>5, <1>8 DEF c, d, r
-----------------------------------------------------------------------------
(* A queue that continues, or is the rest of, another one entry by entry. *)
LEMMA AppendByEntry ==
  ASSUME NEW S, NEW a \in Seq(S), NEW b \in Seq(S), Len(b) = Len(a) + 1,
         \A i \in 1 .. Len(a) : b[i] = a[i]
  PROVE  b = Append(a, b[Len(a) + 1])
<1> DEFINE n == Len(a)
           e == b[n + 1]
           c == Append(a, e)
<1>1. n \in Nat /\ n + 1 \in 1 .. Len(b)
  BY LenProperties
<1>2. e \in S
  BY <1>1, ElementOfSeq
<1>3. /\ c \in Seq(S) /\ Len(c) = n + 1 /\ c[n + 1] = e
      /\ \A i \in 1 .. n : c[i] = a[i]
  BY <1>2, AppendProperties
<1> HIDE DEF c
<1>4. ASSUME NEW i \in 1 .. Len(b) PROVE b[i] = c[i]
  <2>1. i \in 1 .. n \/ i = n + 1
    BY <1>1
  <2> QED BY <1>3, <2>1
<1>5. b = c
  BY <1>3, <1>4, SeqEqual
<1> QED BY <1>5 DEF c

LEMMA TailByEntry ==
  ASSUME NEW S, NEW a \in Seq(S), NEW b \in Seq(S), a # <<>>, Len(b) = Len(a) - 1,
         \A i \in 1 .. Len(b) : b[i] = a[i + 1]
  PROVE  b = Tail(a) /\ Head(a) = a[1]
<1>1. /\ Tail(a) \in Seq(S) /\ Len(Tail(a)) = Len(b)
      /\ \A i \in 1 .. Len(b) : Tail(a)[i] = b[i]
  BY HeadTailProperties
<1>2. b = Tail(a)
  BY <1>1, SeqEqual
<1> QED BY <1>2
-----------------------------------------------------------------------------
(* The ready queue as the ownership protocol of DmaChannelInterface sees it: *)
(* its entries cut down to page and flag.                                    *)
Shown(entry) == [page |-> entry.page, ready |-> entry.ready]
AllShown(queue) == [i \in DOMAIN queue |-> [page |-> queue[i].page, ready |-> queue[i].ready]]

LEMMA ShownIs ==
  ASSUME NEW S, NEW q \in Seq(S)
  PROVE  /\ AllShown(q) \in Seq({Shown(e) : e \in S})
         /\ Len(AllShown(q)) = Len(q) /\ Len(q) \in Nat
         /\ \A i \in 1 .. Len(q) : AllShown(q)[i] = Shown(q[i])
<1>1. Len(q) \in Nat /\ DOMAIN q = 1 .. Len(q)
  BY LenProperties
<1>2. \A i \in 1 .. Len(q) : Shown(q[i]) \in {Shown(e) : e \in S}
  BY ElementOfSeq
<1>3. AllShown(q) = [i \in 1 .. Len(q) |-> Shown(q[i])]
  BY <1>1 DEF AllShown, Shown
<1> HIDE DEF Shown
<1>4. AllShown(q) \in [1 .. Len(q) -> {Shown(e) : e \in S}]
  BY <1>2, <1>3
<1>5. AllShown(q) \in Seq({Shown(e) : e \in S})
  BY <1>1, <1>4, SeqDef
<1>6. Len(AllShown(q)) = Len(q)
  BY <1>1, <1>4, <1>5, LenProperties
<1> QED BY <1>1, <1>3, <1>5, <1>6

LEMMA ShownEmpty ==
  ASSUME NEW S, NEW q \in Seq(S)
  PROVE  q = <<>> <=> AllShown(q) = <<>>
<1>1. Len(q) = 0 <=> q = <<>>
  BY EmptySeq
<1>2. Len(AllShown(q)) = 0 <=> AllShown(q) = <<>>
  BY ShownIs, EmptySeq
<1> QED BY <1>1, <1>2, ShownIs

LEMMA ShownAppend ==
  ASSUME NEW S, NEW q \in Seq(S), NEW e \in S
  PROVE  AllShown(Append(q, e)) = Append(AllShown(q), Shown(e))
<1> DEFINE T == {Shown(x) : x \in S}
           r == Append(q, e)
           a == AllShown(q)
           b == AllShown(r)
<1>1. /\ r \in Seq(S) /\ Len(r) = Len(q) + 1 /\ r[Len(q) + 1] = e
      /\ \A i \in 1 .. Len(q) : r[i] = q[i]
  BY AppendProperties
<1>2. /\ a \in Seq(T) /\ Len(a) = Len(q) /\ Len(q) \in Nat
      /\ \A i \in 1 .. Len(q) : a[i] = Shown(q[i])
  BY ShownIs
<1> HIDE DEF r, a, Shown
<1>3. b \in Seq(T) /\ Len(b) = Len(r) /\ \A i \in 1 .. Len(r) : b[i] = Shown(r[i])
  BY <1>1, ShownIs
<1> HIDE DEF b, T
<1>4. Len(a) + 1 \in 1 .. Len(r) /\ \A i \in 1 .. Len(a) : i \in 1 .. Len(r)
  BY <1>1, <1>2
<1>5. Len(b) = Len(a) + 1 /\ b[Len(a) + 1] = Shown(e) /\ \A i \in 1 .. Len(a) : b[i] = a[i]
  BY <1>1, <1>2, <1>3, <1>4
<1>6. b = Append(a, Shown(e))
  BY <1>2, <1>3, <1>5, AppendByEntry
<1> QED BY <1>6 DEF a, b, r

LEMMA ShownTail ==
  ASSUME NEW S, NEW q \in Seq(S), q # <<>>
  PROVE  /\ AllShown(Tail(q)) = Tail(AllShown(q))
         /\ Head(AllShown(q)) = Shown(Head(q))
<1> DEFINE T == {Shown(x) : x \in S}
           r == Tail(q)
           a == AllShown(q)
           b == AllShown(r)
<1>1. /\ r \in Seq(S) /\ Len(r) = Len(q) - 1 /\ Len(r) \in Nat /\ Head(q) = q[1]
      /\ \A i \in 1 .. Len(r) : r[i] = q[i + 1]
  BY HeadTailProperties, LenProperties
<1>2. /\ a \in Seq(T) /\ Len(a) = Len(q) /\ Len(q) \in Nat
      /\ \A i \in 1 .. Len(q) : a[i] = Shown(q[i])
  BY ShownIs
<1>3. a # <<>>
  BY ShownEmpty
<1> HIDE DEF r, a, Shown
<1>4. b \in Seq(T) /\ Len(b) = Len(r) /\ \A i \in 1 .. Len(r) : b[i] = Shown(r[i])
  BY <1>1, ShownIs
<1> HIDE DEF b, T
<1>5. 1 \in 1 .. Len(q) /\ \A i \in 1 .. Len(r) : i + 1 \in 1 .. Len(q)
  BY <1>1, <1>2
<1>6. Len(b) = Len(a) - 1 /\ \A i \in 1 .. Len(b) : b[i] = a[i + 1]
  BY <1>1, <1>2, <1>4, <1>5
<1>7. b = Tail(a) /\ Head(a) = a[1]
  BY <1>2, <1>3, <1>4, <1>6, TailByEntry
<1>8. Head(a) = Shown(Head(q))
  BY <1>1, <1>2, <1>5, <1>7
<1> QED BY <1>7, <1>8 DEF a, b, r
-----------------------------------------------------------------------------
(* A session: DMA is started, or stopDma() is giving the superpages back. *)
Session == dmaState = "STARTED" \/ pc = "drain"

ControlInv ==
  /\ dmaState = "STARTED" => receiving /\ pc # "drain"
  /\ pc = "drain" => ~receiving
  /\ pc \in {"collect", "track"} => dmaState = "STARTED"
  /\ pc = "collect" => intermediateQueue # <<>>
  /\ pc = "track" => intermediateQueue = <<>> /\ Len(inSuperpage) = 1
  /\ pc # "track" => inSuperpage = <<>>

(* Out of a session the driver holds no superpage, and a receiver left on   *)
(* by a startDma() that threw has none to fill.                             *)
RestInv ==
  ~Session => /\ transferQueue = <<>> /\ intermediateQueue = <<>>
              /\ receiving => descFifo = <<>>

(* The superpage in flight, as a set of at most one. *)
Flying == {p \in Page : p \in {intermediateQueue[i] : i \in 1 .. Len(intermediateQueue)}
                           \/ p \in {inSuperpage[i] : i \in 1 .. Len(inSuperpage)}}

(* The firmware reported the superpage in flight, and with it the bytes     *)
(* written to it; or it has it still, and reported nothing new.             *)
Reported(p) ==
  /\ content[p] # 0 /\ descFifo = <<>> /\ info.size = content[p]
  /\ info.count = IF pc = "collect" THEN spAvailCount ELSE Inc(spAvailCount)
Unreported(p) ==
  /\ content[p] = 0 /\ descFifo = <<p>> /\ info.count = spAvailCount /\ pc # "collect"

FlightInv ==
  /\ Session => \A p \in Flying : Reported(p) \/ Unreported(p)
  /\ dmaState = "STARTED" =>
       /\ info.count = fwCount
       /\ Flying = {} => info.count = spAvailCount /\ descFifo = <<>>

OwnerInv ==
  /\ \A p \in Flying : owner[p] = "card"
  /\ \A i \in 1 .. Len(transferQueue) : owner[transferQueue[i]] = "card"
  /\ \A i \in 1 .. Len(readyQueue) : owner[readyQueue[i].page] = "ready"

(* A superpage waiting to be pushed is not in flight, waits once, and has   *)
(* nothing in it yet.                                                       *)
WaitingInv ==
  /\ \A i \in 1 .. Len(transferQueue) :
       transferQueue[i] \notin Flying /\ content[transferQueue[i]] = 0
  /\ \A i, j \in 1 .. Len(transferQueue) : transferQueue[i] = transferQueue[j] => i = j
ReadyOnce ==
  \A i, j \in 1 .. Len(readyQueue) : readyQueue[i].page = readyQueue[j].page => i = j

ReadyInv ==
  \A i \in 1 .. Len(readyQueue) :
    LET entry == readyQueue[i] IN
    /\ entry.ready <=> content[entry.page] # 0
    /\ entry.received = content[entry.page]
-----------------------------------------------------------------------------
IInv == /\ TypeOK /\ ControlInv /\ RestInv /\ FlightInv
        /\ OwnerInv /\ WaitingInv /\ ReadyOnce /\ ReadyInv
-----------------------------------------------------------------------------
USE ConstantsAssumption

(* The next count of the firmware is another one, and within its width. *)
LEMMA IncIsAnother ==
  ASSUME NEW c \in 0 .. CounterMod - 1
  PROVE  Inc(c) \in 0 .. CounterMod - 1 /\ Inc(c) # c
<1>1. CASE c + 1 < CounterMod
  <2>1. (c + 1) % CounterMod = c + 1
    BY <1>1
  <2> QED BY <1>1, <2>1 DEF Inc
<1>2. CASE c + 1 = CounterMod
  <2>1. CounterMod % CounterMod = 0
    OBVIOUS
  <2> QED BY <1>2, <2>1 DEF Inc
<1> QED BY <1>1, <1>2

(* isASuperpageAvailable() tells whether the two counts differ. *)
LEMMA ArrivedMeansChanged ==
  ASSUME TypeOK
  PROVE  Arrived <=> info.count # spAvailCount
BY DEF Arrived, TypeOK

-----------------------------------------------------------------------------
(* What TypeOK says of the queues element by element. *)
LEMMA QueueTypes ==
  ASSUME TypeOK
  PROVE  /\ \A i \in 1 .. Len(transferQueue) : transferQueue[i] \in Page
         /\ \A i \in 1 .. Len(readyQueue) :
              readyQueue[i] \in ReadyEntry /\ readyQueue[i].page \in Page
         /\ Len(transferQueue) \in Nat /\ Len(intermediateQueue) \in Nat
         /\ Len(readyQueue) \in Nat /\ Len(descFifo) \in Nat
         /\ DOMAIN readyQueue = 1 .. Len(readyQueue)
<1>1. /\ Len(transferQueue) \in Nat /\ Len(intermediateQueue) \in Nat
      /\ Len(readyQueue) \in Nat /\ Len(descFifo) \in Nat
      /\ DOMAIN readyQueue = 1 .. Len(readyQueue)
  BY LenProperties DEF TypeOK
<1>2. \A i \in 1 .. Len(transferQueue) : transferQueue[i] \in Page
  BY ElementOfSeq DEF TypeOK
<1>3. \A i \in 1 .. Len(readyQueue) : readyQueue[i] \in ReadyEntry
  BY ElementOfSeq DEF TypeOK
<1> QED BY <1>1, <1>2, <1>3 DEF ReadyEntry

(* At most one superpage is in flight: the intermediate queue's, or between *)
(* the registers and that queue the one of the call.                        *)
LEMMA FlyingIs ==
  ASSUME TypeOK, ControlInv
  PROVE  /\ intermediateQueue # <<>> =>
              /\ Flying = {Head(intermediateQueue)} /\ Head(intermediateQueue) \in Page
              /\ intermediateQueue = <<Head(intermediateQueue)>>
              /\ Tail(intermediateQueue) = <<>> /\ inSuperpage = <<>> /\ pc # "track"
         /\ pc = "track" =>
              /\ Flying = {inSuperpage[1]} /\ inSuperpage[1] \in Page
              /\ inSuperpage = <<inSuperpage[1]>> /\ intermediateQueue = <<>>
         /\ intermediateQueue = <<>> /\ pc # "track" => Flying = {}
<1>1. ASSUME intermediateQueue # <<>>
      PROVE  /\ Flying = {Head(intermediateQueue)} /\ Head(intermediateQueue) \in Page
             /\ intermediateQueue = <<Head(intermediateQueue)>>
             /\ Tail(intermediateQueue) = <<>> /\ inSuperpage = <<>> /\ pc # "track"
  <2>1. inSuperpage = <<>> /\ pc # "track"
    BY <1>1 DEF ControlInv
  <2>2. /\ Head(intermediateQueue) = intermediateQueue[1] /\ Head(intermediateQueue) \in Page
        /\ intermediateQueue = <<Head(intermediateQueue)>>
        /\ Tail(intermediateQueue) = <<>> /\ Len(intermediateQueue) = 1
    BY <1>1, SeqOfOne DEF TypeOK
  <2>3. Flying = {Head(intermediateQueue)}
    BY <2>1, <2>2 DEF Flying
  <2> QED BY <2>1, <2>2, <2>3
<1>2. ASSUME pc = "track"
      PROVE  /\ Flying = {inSuperpage[1]} /\ inSuperpage[1] \in Page
             /\ inSuperpage = <<inSuperpage[1]>> /\ intermediateQueue = <<>>
  <2>1. inSuperpage \in Seq(Page) /\ Len(inSuperpage) = 1 /\ intermediateQueue = <<>>
    BY <1>2 DEF TypeOK, ControlInv
  <2>2. inSuperpage[1] \in Page
    BY <2>1, ElementOfSeq
  <2>3. inSuperpage = <<inSuperpage[1]>>
    <3>1. <<inSuperpage[1]>> \in Seq(Page) /\ Len(<<inSuperpage[1]>>) = 1
      BY <2>2
    <3> QED BY <2>1, <3>1, SeqEqual
  <2>4. Flying = {inSuperpage[1]}
    BY <2>1, <2>2 DEF Flying
  <2> QED BY <2>1, <2>2, <2>3, <2>4
<1>3. ASSUME intermediateQueue = <<>>, pc # "track"
      PROVE  Flying = {}
  BY <1>3 DEF Flying, ControlInv
<1> QED BY <1>1, <1>2, <1>3

LEMMA InitIInv == Init => IInv
<1> SUFFICES ASSUME Init PROVE IInv
  OBVIOUS
<1>1. Before \in 0 .. CounterMod - 1
  BY DEF Before
<1>2. TypeOK
  <2>1. content \in [Page -> 0 .. FullSize] /\ owner \in [Page -> {"user", "card", "ready", "dropped"}]
    BY DEF Init
  <2>2. <<>> \in Seq(Page) /\ <<>> \in Seq(ReadyEntry) /\ Len(<<>>) = 0
    BY EmptySeq
  <2>3. info \in [size : 0 .. FullSize, count : 0 .. CounterMod - 1]
    BY <1>1 DEF Init
  <2>4. 0 <= TransferCap /\ 0 <= ReadyCap
    OBVIOUS
  <2>5. /\ transferQueue \in Seq(Page) /\ intermediateQueue \in Seq(Page)
        /\ readyQueue \in Seq(ReadyEntry) /\ inSuperpage \in Seq(Page)
        /\ descFifo \in Seq(Page)
        /\ Len(transferQueue) <= TransferCap /\ Len(intermediateQueue) <= 1
        /\ Len(readyQueue) <= ReadyCap
    BY <2>2, <2>4 DEF Init
  <2>6. /\ dmaState = "STOPPED" /\ pc = "idle" /\ receiving = FALSE
        /\ spAvailCount = Before /\ fwCount = Before
    BY DEF Init
  <2> QED BY <1>1, <2>1, <2>3, <2>5, <2>6 DEF TypeOK
<1>3. ControlInv /\ RestInv
  BY DEF Init, ControlInv, RestInv, Session
<1>4. Flying = {}
  BY <1>2, <1>3, FlyingIs DEF Init
<1>5. FlightInv
  BY <1>4 DEF Init, FlightInv, Session
<1>6. OwnerInv /\ WaitingInv /\ ReadyOnce /\ ReadyInv
  BY <1>4 DEF Init, OwnerInv, WaitingInv, ReadyOnce, ReadyInv
<1> QED BY <1>2, <1>3, <1>5, <1>6 DEF IInv
-----------------------------------------------------------------------------
(* mReadyQueue.write(), for any caller that tells the truth of a superpage  *)
(* of the card.                                                             *)
LEMMA ToReadyStep ==
  ASSUME IInv, UNCHANGED content, NEW p \in Page, owner[p] = "card",
         NEW isReady, isReady = (content[p] # 0), NEW received, received = content[p],
         ToReady(p, isReady, received)
  PROVE  /\ readyQueue' \in Seq(ReadyEntry) /\ Len(readyQueue') <= ReadyCap
         /\ owner' \in [Page -> {"user", "card", "ready", "dropped"}]
         /\ \A x \in Page : x # p => owner'[x] = owner[x]
         /\ \A i \in 1 .. Len(readyQueue') : owner'[readyQueue'[i].page] = "ready"
         /\ ReadyOnce' /\ ReadyInv'
<1> DEFINE entry == [page |-> p, ready |-> isReady, received |-> received]
<1>1. TypeOK
  BY DEF IInv
<1>2. entry \in ReadyEntry
  BY <1>1 DEF ReadyEntry, TypeOK
<1>3. \A i \in 1 .. Len(readyQueue) :
        /\ readyQueue[i].page # p /\ readyQueue[i].page \in Page
        /\ owner[readyQueue[i].page] = "ready"
  BY <1>1, QueueTypes DEF IInv, OwnerInv
<1>4. CASE Len(readyQueue) < ReadyCap
  <2>1. /\ readyQueue' = Append(readyQueue, entry)
        /\ owner' = [owner EXCEPT ![p] = "ready"]
    BY <1>4 DEF ToReady
  <2>2. readyQueue \in Seq(ReadyEntry) /\ Len(readyQueue) \in Nat
    BY <1>1, QueueTypes DEF TypeOK
  <2> HIDE DEF entry
  <2>3. /\ readyQueue' \in Seq(ReadyEntry) /\ Len(readyQueue') = Len(readyQueue) + 1
        /\ \A i \in 1 .. Len(readyQueue) : readyQueue'[i] = readyQueue[i]
        /\ readyQueue'[Len(readyQueue) + 1] = entry
    BY <1>2, <2>1, <2>2, AppendProperties
  <2>4. /\ owner' \in [Page -> {"user", "card", "ready", "dropped"}] /\ owner'[p] = "ready"
        /\ \A x \in Page : x # p => owner'[x] = owner[x]
    BY <1>1, <2>1 DEF TypeOK
  <2>5. ASSUME NEW i \in 1 .. Len(readyQueue')
        PROVE  \/ i \in 1 .. Len(readyQueue) /\ readyQueue'[i] = readyQueue[i]
               \/ i = Len(readyQueue) + 1 /\ readyQueue'[i] = entry
    BY <2>2, <2>3
  <2>6. entry.page = p /\ entry.ready = isReady /\ entry.received = received
    BY DEF entry
  <2>7. \A i \in 1 .. Len(readyQueue') : owner'[readyQueue'[i].page] = "ready"
    BY <1>3, <2>4, <2>5, <2>6
  <2>8. ReadyOnce'
    BY <1>3, <2>5, <2>6 DEF IInv, ReadyOnce
  <2>9. ReadyInv'
    <3> SUFFICES ASSUME NEW i \in 1 .. Len(readyQueue')
                 PROVE  /\ readyQueue'[i].ready <=> content[readyQueue'[i].page] # 0
                        /\ readyQueue'[i].received = content[readyQueue'[i].page]
      BY DEF ReadyInv
    <3> QED BY <2>5, <2>6 DEF IInv, ReadyInv
  <2> QED BY <1>4, <2>2, <2>3, <2>4, <2>7, <2>8, <2>9
<1>5. CASE ~(Len(readyQueue) < ReadyCap)
  <2>1. readyQueue' = readyQueue /\ owner' = [owner EXCEPT ![p] = "dropped"]
    BY <1>5 DEF ToReady
  <2>2. /\ owner' \in [Page -> {"user", "card", "ready", "dropped"}]
        /\ \A x \in Page : x # p => owner'[x] = owner[x]
    BY <1>1, <2>1 DEF TypeOK
  <2>3. \A i \in 1 .. Len(readyQueue') : owner'[readyQueue'[i].page] = "ready"
    BY <1>3, <2>1, <2>2
  <2>4. ReadyOnce' /\ ReadyInv'
    BY <2>1 DEF IInv, ReadyOnce, ReadyInv
  <2> QED BY <1>1, <2>1, <2>2, <2>3, <2>4 DEF TypeOK
<1> QED BY <1>4, <1>5
-----------------------------------------------------------------------------
(* Only a started channel has a superpage for the firmware to fill, and it  *)
(* is the one in flight.                                                    *)
LEMMA FillFrontStep ==
  ASSUME IInv, receiving, descFifo # <<>>, NEW size \in 1 .. FullSize, FillFront(size)
  PROVE  /\ dmaState = "STARTED" /\ pc # "drain" /\ pc # "collect"
         /\ content' \in [Page -> 0 .. FullSize] /\ descFifo' = <<>>
         /\ info' \in [size : 0 .. FullSize, count : 0 .. CounterMod - 1]
         /\ fwCount' \in 0 .. CounterMod - 1
         /\ info'.count = fwCount'
         /\ \E p \in Page :
              /\ Flying = {p} /\ descFifo = <<p>> /\ p = Head(descFifo) /\ owner[p] = "card"
              /\ content[p] = 0 /\ content' = [content EXCEPT ![p] = size]
              /\ content'[p] # 0 /\ info'.size = content'[p]
              /\ info'.count = Inc(spAvailCount)
         /\ \A x \in Page : x \notin Flying => content'[x] = content[x]
<1>1. TypeOK /\ ControlInv
  BY DEF IInv
<1>2. dmaState = "STARTED" /\ pc # "drain"
  BY <1>1 DEF IInv, RestInv, ControlInv, Session
<1>3. PICK p \in Flying : TRUE
  BY <1>2 DEF IInv, FlightInv
<1>4. Unreported(p)
  BY <1>2 DEF IInv, FlightInv, Session, Reported
<1>5. p \in Page /\ descFifo = <<p>> /\ content[p] = 0 /\ pc # "collect"
  BY <1>4 DEF Unreported, Flying
<1>6. Flying = {p}
  BY <1>1, <1>3, FlyingIs
<1>7. Head(descFifo) = p /\ Tail(descFifo) = <<>>
  <2>1. descFifo \in Seq(Page) /\ Len(descFifo) <= 1
    BY <1>1, <1>5 DEF TypeOK
  <2> QED BY <1>5, <2>1, SeqOfOne
<1>8. /\ content' = [content EXCEPT ![p] = size] /\ descFifo' = <<>>
      /\ info' = [size |-> size, count |-> Inc(fwCount)] /\ fwCount' = Inc(fwCount)
  BY <1>7 DEF FillFront
<1>9. content' \in [Page -> 0 .. FullSize] /\ content'[p] = size /\ size # 0
  BY <1>1, <1>5, <1>8 DEF TypeOK
<1>10. fwCount = spAvailCount /\ Inc(fwCount) \in 0 .. CounterMod - 1
  BY <1>1, <1>2, <1>4, IncIsAnother DEF IInv, FlightInv, Unreported, TypeOK
<1>11. /\ info' \in [size : 0 .. FullSize, count : 0 .. CounterMod - 1]
       /\ info'.size = size /\ info'.count = Inc(fwCount)
  BY <1>8, <1>10
<1>12. \A x \in Page : x \notin Flying => content'[x] = content[x]
  BY <1>1, <1>6, <1>8 DEF TypeOK
<1>13. owner[p] = "card"
  BY <1>3 DEF IInv, OwnerInv
<1> QED BY <1>2, <1>5, <1>6, <1>7, <1>8, <1>9, <1>10, <1>11, <1>12, <1>13

(* What is left of the invariant when the firmware has filled it. *)
LEMMA FilledKeepsQueues ==
  ASSUME IInv, receiving, descFifo # <<>>, NEW size \in 1 .. FullSize, FillFront(size),
         UNCHANGED <<transferQueue, intermediateQueue, inSuperpage, readyQueue,
                     spAvailCount, owner>>,
         pc' # "collect"
  PROVE  /\ OwnerInv' /\ WaitingInv' /\ ReadyOnce' /\ ReadyInv'
         /\ Flying' = Flying /\ Flying # {}
         /\ \A p \in Flying : Reported(p)'
<1>1. TypeOK
  BY DEF IInv
<1>2. Flying' = Flying
  BY DEF Flying
<1>3. PICK p \in Page :
        /\ Flying = {p} /\ content' = [content EXCEPT ![p] = size]
        /\ content'[p] # 0 /\ info'.size = content'[p] /\ info'.count = Inc(spAvailCount)
        /\ owner[p] = "card" /\ descFifo' = <<>>
  BY FillFrontStep
<1>4. \A x \in Page : x # p => content'[x] = content[x]
  BY <1>1, <1>3 DEF TypeOK
<1>5. OwnerInv' /\ ReadyOnce'
  BY <1>2 DEF IInv, OwnerInv, ReadyOnce
<1>6. WaitingInv'
  BY <1>1, <1>2, <1>3, <1>4, QueueTypes DEF IInv, WaitingInv
<1>7. ReadyInv'
  <2>1. \A i \in 1 .. Len(readyQueue) :
          readyQueue[i].page \in Page /\ readyQueue[i].page # p
    BY <1>1, <1>3, QueueTypes DEF IInv, OwnerInv
  <2> QED BY <1>4, <2>1 DEF IInv, ReadyInv
<1>8. Reported(p)'
  BY <1>3 DEF Reported
<1> QED BY <1>2, <1>3, <1>5, <1>6, <1>7, <1>8

LEMMA FirmwareFillStep ==
  ASSUME IInv, FirmwareFill
  PROVE  IInv'
<1>1. PICK size \in 1 .. FullSize : FillFront(size)
  BY DEF FirmwareFill
<1>2. receiving /\ descFifo # <<>>
  BY <1>1 DEF FirmwareFill, FillFront
<1>3. UNCHANGED <<dmaState, transferQueue, intermediateQueue, readyQueue, spAvailCount,
                  pc, inSuperpage, receiving, owner>>
  BY DEF FirmwareFill, driverVars, callVars
<1>4. /\ dmaState = "STARTED" /\ pc # "collect" /\ info'.count = fwCount'
      /\ content' \in [Page -> 0 .. FullSize] /\ descFifo' = <<>>
      /\ info' \in [size : 0 .. FullSize, count : 0 .. CounterMod - 1]
      /\ fwCount' \in 0 .. CounterMod - 1
  BY <1>1, <1>2, FillFrontStep
<1>5. TypeOK'
  BY <1>3, <1>4, EmptySeq DEF IInv, TypeOK
<1>6. ControlInv' /\ RestInv'
  BY <1>3, <1>4 DEF IInv, ControlInv, RestInv, Session
<1>7. /\ OwnerInv' /\ WaitingInv' /\ ReadyOnce' /\ ReadyInv'
      /\ Flying' = Flying /\ Flying # {} /\ \A p \in Flying : Reported(p)'
  BY <1>1, <1>2, <1>3, <1>4, FilledKeepsQueues
<1>8. FlightInv'
  BY <1>4, <1>7 DEF FlightInv
<1> QED BY <1>5, <1>6, <1>7, <1>8 DEF IInv

LEMMA StopDmaStep ==
  ASSUME IInv, StopDma
  PROVE  IInv'
<1>1. /\ pc = "idle" /\ dmaState = "STARTED" /\ dmaState' = "STOPPED" /\ ~receiving'
      /\ receiving' \in BOOLEAN /\ pc' = "drain"
      /\ UNCHANGED <<transferQueue, intermediateQueue, readyQueue, spAvailCount,
                     inSuperpage, owner>>
  BY DEF StopDma
<1>2. TypeOK /\ receiving
  BY <1>1 DEF IInv, ControlInv
<1>3. ControlInv' /\ RestInv'
  BY <1>1 DEF IInv, ControlInv, RestInv, Session
<1>4. CASE \E size \in 1 .. FullSize : FillFront(size)
  <2>1. PICK size \in 1 .. FullSize : FillFront(size)
    BY <1>4
  <2>2. descFifo # <<>>
    BY <2>1 DEF FillFront
  <2>3. /\ content' \in [Page -> 0 .. FullSize] /\ descFifo' = <<>>
        /\ info' \in [size : 0 .. FullSize, count : 0 .. CounterMod - 1]
        /\ fwCount' \in 0 .. CounterMod - 1
    BY <1>2, <2>1, <2>2, FillFrontStep
  <2>4. TypeOK'
    BY <1>1, <2>3, EmptySeq DEF IInv, TypeOK
  <2>5. /\ OwnerInv' /\ WaitingInv' /\ ReadyOnce' /\ ReadyInv'
        /\ Flying' = Flying /\ \A p \in Flying : Reported(p)'
    BY <1>1, <1>2, <2>1, <2>2, FilledKeepsQueues
  <2>6. FlightInv'
    BY <1>1, <2>5 DEF FlightInv
  <2> QED BY <1>3, <2>4, <2>5, <2>6 DEF IInv
<1>5. CASE UNCHANGED <<descFifo, fwCount, info, content>>
  <2>1. TypeOK'
    BY <1>1, <1>5 DEF IInv, TypeOK
  <2>2. Flying' = Flying
    BY <1>1 DEF Flying
  <2>3. OwnerInv' /\ WaitingInv' /\ ReadyOnce' /\ ReadyInv'
    BY <1>1, <1>5, <2>2 DEF IInv, OwnerInv, WaitingInv, ReadyOnce, ReadyInv
  <2>4. FlightInv'
    <3> SUFFICES ASSUME NEW p \in Flying PROVE (Reported(p) \/ Unreported(p))'
      BY <1>1, <2>2 DEF FlightInv
    <3>1. Reported(p) \/ Unreported(p)
      BY <1>1 DEF IInv, FlightInv, Session
    <3> QED BY <1>1, <1>5, <3>1 DEF Reported, Unreported
  <2> QED BY <1>3, <2>1, <2>3, <2>4 DEF IInv
<1> QED BY <1>4, <1>5 DEF StopDma
-----------------------------------------------------------------------------
(* startDma(), whether or not it throws after it turned the receiver on. *)
LEMMA RestartStep ==
  ASSUME IInv, Restart, dmaState' \in {dmaState, "STARTED"}
  PROVE  IInv'
<1>1. /\ pc = "idle" /\ pc' = "idle" /\ dmaState # "STARTED" /\ receiving' = TRUE
      /\ info' = [size |-> 0, count |-> Before] /\ spAvailCount' = Before
      /\ descFifo' = <<>> /\ fwCount' = Before
      /\ UNCHANGED <<transferQueue, intermediateQueue, readyQueue, inSuperpage,
                     content, owner>>
  BY DEF Restart, ResetDevice, callVars, bufferVars
<1>2. /\ TypeOK /\ inSuperpage = <<>> /\ transferQueue = <<>> /\ intermediateQueue = <<>>
      /\ Before \in 0 .. CounterMod - 1
  BY <1>1 DEF IInv, RestInv, ControlInv, Session, Before
<1>3. Flying = {} /\ Flying' = {}
  BY <1>1, <1>2, FlyingIs DEF IInv, Flying
<1>4. TypeOK'
  <2>1. dmaState' \in {"STOPPED", "STARTED"} /\ descFifo' \in Seq(Page)
    BY <1>1, EmptySeq DEF IInv, TypeOK
  <2>2. info' \in [size : 0 .. FullSize, count : 0 .. CounterMod - 1]
    BY <1>1, <1>2
  <2> QED BY <1>1, <1>2, <2>1, <2>2 DEF TypeOK
<1>5. ControlInv' /\ RestInv'
  BY <1>1, <1>2 DEF ControlInv, RestInv
<1>6. FlightInv'
  BY <1>1, <1>3 DEF FlightInv
<1>7. OwnerInv' /\ WaitingInv' /\ ReadyOnce' /\ ReadyInv'
  BY <1>1, <1>3 DEF IInv, OwnerInv, WaitingInv, ReadyOnce, ReadyInv
<1> QED BY <1>4, <1>5, <1>6, <1>7 DEF IInv

LEMMA ResetChannelStep ==
  ASSUME IInv, ResetChannel
  PROVE  IInv'
<1>1. /\ pc = "idle" /\ dmaState = "STOPPED" /\ descFifo' = <<>> /\ fwCount' = Before
      /\ UNCHANGED <<driverVars, callVars, receiving, info, bufferVars>>
  BY DEF ResetChannel, ResetDevice
<1> USE DEF driverVars, callVars, bufferVars
<1>2. TypeOK'
  BY <1>1, EmptySeq DEF IInv, TypeOK, Before
<1>3. ControlInv' /\ RestInv' /\ Flying' = Flying
  BY <1>1 DEF IInv, ControlInv, RestInv, Session, Flying
<1>4. FlightInv'
  BY <1>1 DEF FlightInv, Session
<1>5. OwnerInv' /\ WaitingInv' /\ ReadyOnce' /\ ReadyInv'
  BY <1>1, <1>3 DEF IInv, OwnerInv, WaitingInv, ReadyOnce, ReadyInv
<1> QED BY <1>2, <1>3, <1>4, <1>5 DEF IInv
-----------------------------------------------------------------------------
LEMMA PushSuperpageStep ==
  ASSUME IInv, NEW p \in Page, PushSuperpage(p)
  PROVE  IInv'
<1> DEFINE q == transferQueue
<1>1. /\ pc = "idle" /\ dmaState = "STARTED" /\ Len(q) < TransferCap
      /\ owner[p] \in {"user", "dropped"} /\ transferQueue' = Append(q, p)
      /\ owner' = [owner EXCEPT ![p] = "card"] /\ content' = [content EXCEPT ![p] = 0]
      /\ UNCHANGED <<dmaState, intermediateQueue, readyQueue, spAvailCount, callVars, fwVars>>
  BY DEF PushSuperpage
<1> USE DEF callVars, fwVars
<1>2. TypeOK
  BY DEF IInv
<1>3. /\ transferQueue' \in Seq(Page) /\ Len(transferQueue') = Len(q) + 1
      /\ transferQueue'[Len(q) + 1] = p /\ Len(q) \in Nat
      /\ \A i \in 1 .. Len(q) : transferQueue'[i] = q[i] /\ q[i] \in Page
  <2>1. q \in Seq(Page) /\ Len(q) \in Nat /\ \A i \in 1 .. Len(q) : q[i] \in Page
    BY <1>2, QueueTypes DEF TypeOK
  <2> QED BY <1>1, <2>1, AppendProperties
<1>4. /\ owner' \in [Page -> {"user", "card", "ready", "dropped"}]
      /\ content' \in [Page -> 0 .. FullSize] /\ owner'[p] = "card" /\ content'[p] = 0
      /\ \A x \in Page : x # p => owner'[x] = owner[x] /\ content'[x] = content[x]
  BY <1>1, <1>2 DEF TypeOK
<1>5. TypeOK'
  <2>1. Len(transferQueue') <= TransferCap
    BY <1>1, <1>3
  <2> QED BY <1>1, <1>2, <1>3, <1>4, <2>1 DEF TypeOK
<1>6. /\ p \notin Flying /\ Flying' = Flying
      /\ \A i \in 1 .. Len(q) : q[i] # p
      /\ \A i \in 1 .. Len(readyQueue) : readyQueue[i].page # p /\ readyQueue[i].page \in Page
  BY <1>1, <1>2, QueueTypes DEF IInv, OwnerInv, Flying
<1>7. ControlInv' /\ RestInv'
  BY <1>1 DEF IInv, ControlInv, RestInv, Session
<1>8. FlightInv'
  <2>1. \A x \in Flying : Reported(x) \/ Unreported(x)
    BY <1>1 DEF IInv, FlightInv, Session
  <2>2. \A x \in Flying : x \in Page /\ x # p
    BY <1>6 DEF Flying
  <2>3. \A x \in Flying : (Reported(x) \/ Unreported(x))'
    BY <1>1, <1>4, <2>1, <2>2 DEF Reported, Unreported
  <2> QED BY <1>1, <1>6, <2>3 DEF IInv, FlightInv
<1>9. ASSUME NEW i \in 1 .. Len(transferQueue')
      PROVE  \/ i \in 1 .. Len(q) /\ transferQueue'[i] = q[i] /\ q[i] \in Page /\ q[i] # p
             \/ i = Len(q) + 1 /\ transferQueue'[i] = p
  BY <1>3, <1>6
<1>10. OwnerInv'
  <2>1. \A x \in Flying : x \in Page /\ x # p
    BY <1>6 DEF Flying
  <2>2. \A i \in 1 .. Len(transferQueue') : owner'[transferQueue'[i]] = "card"
    BY <1>4, <1>9 DEF IInv, OwnerInv
  <2>3. \A i \in 1 .. Len(readyQueue') : owner'[readyQueue'[i].page] = "ready"
    BY <1>1, <1>4, <1>6 DEF IInv, OwnerInv
  <2> QED BY <1>4, <1>6, <2>1, <2>2, <2>3 DEF IInv, OwnerInv
<1>11. WaitingInv'
  <2>1. \A i \in 1 .. Len(transferQueue') :
          transferQueue'[i] \notin Flying /\ content'[transferQueue'[i]] = 0
    BY <1>4, <1>6, <1>9 DEF IInv, WaitingInv
  <2>2. ASSUME NEW i \in 1 .. Len(transferQueue'), NEW j \in 1 .. Len(transferQueue'),
               transferQueue'[i] = transferQueue'[j]
        PROVE  i = j
    BY <1>9, <2>2 DEF IInv, WaitingInv
  <2> QED BY <1>6, <2>1, <2>2 DEF WaitingInv
<1>12. ReadyOnce' /\ ReadyInv'
  BY <1>1, <1>4, <1>6 DEF IInv, ReadyOnce, ReadyInv
<1> QED BY <1>5, <1>7, <1>8, <1>10, <1>11, <1>12 DEF IInv

LEMMA PopSuperpageStep ==
  ASSUME IInv, PopSuperpage
  PROVE  IInv'
<1> DEFINE p == Head(readyQueue).page
<1>1. /\ pc = "idle" /\ readyQueue # <<>> /\ readyQueue' = Tail(readyQueue)
      /\ owner' = [owner EXCEPT ![p] = "user"]
      /\ UNCHANGED <<dmaState, transferQueue, intermediateQueue, spAvailCount, callVars,
                     fwVars, content>>
  BY DEF PopSuperpage
<1> USE DEF callVars, fwVars
<1>2. TypeOK
  BY DEF IInv
<1>3. /\ readyQueue \in Seq(ReadyEntry) /\ Len(readyQueue) \in Nat /\ Len(readyQueue) >= 1
      /\ Head(readyQueue) = readyQueue[1] /\ p \in Page
      /\ readyQueue' \in Seq(ReadyEntry) /\ Len(readyQueue') = Len(readyQueue) - 1
      /\ \A i \in 1 .. Len(readyQueue') :
           readyQueue'[i] = readyQueue[i + 1] /\ i + 1 \in 1 .. Len(readyQueue)
  <2>1. readyQueue \in Seq(ReadyEntry) /\ Len(readyQueue) \in Nat
    BY <1>2, QueueTypes DEF TypeOK
  <2>2. /\ readyQueue' \in Seq(ReadyEntry) /\ Len(readyQueue') = Len(readyQueue) - 1
        /\ \A i \in 1 .. Len(readyQueue') : readyQueue'[i] = readyQueue[i + 1]
        /\ Head(readyQueue) \in ReadyEntry /\ Head(readyQueue) = readyQueue[1]
        /\ Len(readyQueue') \in Nat
    BY <1>1, <2>1, HeadTailProperties, LenProperties
  <2>3. p \in Page
    BY <2>2 DEF ReadyEntry
  <2> QED BY <2>1, <2>2, <2>3
<1>4. /\ owner' \in [Page -> {"user", "card", "ready", "dropped"}] /\ owner[p] = "ready"
      /\ \A x \in Page : x # p => owner'[x] = owner[x]
  BY <1>1, <1>2, <1>3 DEF IInv, OwnerInv, TypeOK
<1>5. TypeOK'
  <2>1. Len(readyQueue') <= ReadyCap
    BY <1>2, <1>3 DEF TypeOK
  <2> QED BY <1>1, <1>2, <1>3, <1>4, <2>1 DEF TypeOK
<1>6. ControlInv' /\ RestInv' /\ Flying' = Flying
  BY <1>1 DEF IInv, ControlInv, RestInv, Session, Flying
<1>7. FlightInv' /\ WaitingInv'
  BY <1>1, <1>6 DEF IInv, FlightInv, WaitingInv, Session, Reported, Unreported
<1>8. ASSUME NEW i \in 1 .. Len(readyQueue')
      PROVE  /\ readyQueue'[i] = readyQueue[i + 1] /\ i + 1 \in 1 .. Len(readyQueue)
             /\ readyQueue[i + 1].page # p /\ readyQueue[i + 1].page \in Page
  BY <1>2, <1>3, QueueTypes DEF IInv, ReadyOnce
<1>9. OwnerInv'
  <2>1. \A x \in Flying : x \in Page /\ x # p
    BY <1>4 DEF Flying, IInv, OwnerInv
  <2>2. \A i \in 1 .. Len(transferQueue) : transferQueue[i] \in Page /\ transferQueue[i] # p
    BY <1>2, <1>4, QueueTypes DEF IInv, OwnerInv
  <2>3. \A i \in 1 .. Len(readyQueue') : owner'[readyQueue'[i].page] = "ready"
    BY <1>4, <1>8 DEF IInv, OwnerInv
  <2> QED BY <1>1, <1>4, <1>6, <2>1, <2>2, <2>3 DEF IInv, OwnerInv
<1>10. ReadyOnce' /\ ReadyInv'
  <2>1. ReadyOnce'
    BY SMTT(30), <1>8 DEF IInv, ReadyOnce
  <2>2. ReadyInv'
    BY <1>1, <1>8 DEF IInv, ReadyInv
  <2> QED BY <2>1, <2>2
<1> QED BY <1>5, <1>6, <1>7, <1>9, <1>10 DEF IInv

(* The count is read once: a change of it leads to the collection of the    *)
(* superpage in flight, which the firmware has filled then.                 *)
LEMMA FillSuperpagesStep ==
  ASSUME IInv, FillSuperpages
  PROVE  IInv'
<1>1. /\ pc = "idle"
      /\ UNCHANGED <<dmaState, transferQueue, intermediateQueue, readyQueue, inSuperpage,
                     fwVars, bufferVars>>
  BY DEF FillSuperpages
<1> USE DEF fwVars, bufferVars
<1>2. TypeOK /\ Flying' = Flying
  BY <1>1 DEF IInv, Flying
<1>3. OwnerInv' /\ WaitingInv' /\ ReadyOnce' /\ ReadyInv'
  BY <1>1, <1>2 DEF IInv, OwnerInv, WaitingInv, ReadyOnce, ReadyInv
<1>4. CASE intermediateQueue = <<>>
  <2>1. pc' = "push" /\ spAvailCount' = spAvailCount
    BY <1>4 DEF FillSuperpages
  <2>2. TypeOK' /\ ControlInv' /\ RestInv'
    BY <1>1, <2>1 DEF IInv, TypeOK, ControlInv, RestInv, Session
  <2>3. FlightInv'
    BY <1>1, <1>2, <2>1 DEF IInv, FlightInv, Session, Reported, Unreported
  <2> QED BY <1>3, <2>2, <2>3 DEF IInv
<1>5. CASE intermediateQueue # <<>>
  <2>1. spAvailCount' = info.count /\ pc' = IF Arrived THEN "collect" ELSE "push"
    BY <1>5 DEF FillSuperpages
  <2>2. dmaState = "STARTED" /\ \E p \in Page : Flying = {p}
    BY <1>1, <1>5, FlyingIs DEF IInv, RestInv, Session
  <2>3. TypeOK' /\ ControlInv' /\ RestInv'
    BY <1>1, <1>5, <2>1, <2>2 DEF IInv, TypeOK, ControlInv, RestInv, Session
  <2>4. PICK p \in Page : Flying = {p}
    BY <2>2
  <2>5. (Reported(p) /\ Arrived) \/ (Unreported(p) /\ ~Arrived)
    <3>1. Reported(p) \/ Unreported(p)
      BY <2>2, <2>4 DEF IInv, FlightInv, Session
    <3>2. Inc(spAvailCount) # spAvailCount
      BY <1>2, IncIsAnother DEF TypeOK
    <3> QED BY <1>1, <1>2, <3>1, <3>2, ArrivedMeansChanged DEF Reported, Unreported
  <2>6. (Reported(p) \/ Unreported(p))'
    BY <1>1, <2>1, <2>5 DEF Reported, Unreported
  <2>7. FlightInv'
    BY <1>1, <1>2, <2>2, <2>4, <2>6 DEF IInv, FlightInv
  <2> QED BY <1>3, <2>3, <2>7 DEF IInv
<1> QED BY <1>4, <1>5
-----------------------------------------------------------------------------
(* The superpage in flight leaves the intermediate queue for the ready one. *)
LEMMA FlightEnds ==
  ASSUME IInv, intermediateQueue # <<>>, NEW isReady, NEW received,
         ToReady(Head(intermediateQueue), isReady, received),
         isReady = (content[Head(intermediateQueue)] # 0),
         received = content[Head(intermediateQueue)],
         intermediateQueue' = Tail(intermediateQueue),
         UNCHANGED <<transferQueue, inSuperpage, content>>
  PROVE  /\ readyQueue' \in Seq(ReadyEntry) /\ Len(readyQueue') <= ReadyCap
         /\ owner' \in [Page -> {"user", "card", "ready", "dropped"}]
         /\ Flying' = {} /\ intermediateQueue' = <<>>
         /\ OwnerInv' /\ WaitingInv' /\ ReadyOnce' /\ ReadyInv'
<1> DEFINE p == Head(intermediateQueue)
<1>1. TypeOK /\ ControlInv
  BY DEF IInv
<1>2. /\ Flying = {p} /\ p \in Page /\ Tail(intermediateQueue) = <<>> /\ inSuperpage = <<>>
  BY <1>1, FlyingIs
<1>3. owner[p] = "card"
  BY <1>2 DEF IInv, OwnerInv
<1>4. /\ readyQueue' \in Seq(ReadyEntry) /\ Len(readyQueue') <= ReadyCap
      /\ owner' \in [Page -> {"user", "card", "ready", "dropped"}]
      /\ \A x \in Page : x # p => owner'[x] = owner[x]
      /\ \A i \in 1 .. Len(readyQueue') : owner'[readyQueue'[i].page] = "ready"
      /\ ReadyOnce' /\ ReadyInv'
  <2> HIDE DEF p
  <2> QED BY <1>2, <1>3, ToReadyStep DEF p
<1>5. Flying' = {}
  <2>1. intermediateQueue' = <<>> /\ inSuperpage' = <<>> /\ 1 .. Len(<<>>) = {}
    BY <1>2
  <2> QED BY <2>1 DEF Flying
<1>6. \A i \in 1 .. Len(transferQueue) : transferQueue[i] \in Page /\ transferQueue[i] # p
  BY <1>1, <1>2, QueueTypes DEF IInv, WaitingInv
<1>7. OwnerInv'
  BY <1>4, <1>5, <1>6 DEF IInv, OwnerInv
<1>8. WaitingInv'
  BY <1>5 DEF IInv, WaitingInv
<1> QED BY <1>2, <1>4, <1>5, <1>7, <1>8

LEMMA CollectStep ==
  ASSUME IInv, Collect
  PROVE  IInv'
<1> DEFINE p == Head(intermediateQueue)
<1>1. /\ pc = "collect" /\ pc' = "push" /\ ToReady(p, TRUE, info.size)
      /\ intermediateQueue' = Tail(intermediateQueue)
      /\ UNCHANGED <<dmaState, transferQueue, spAvailCount, inSuperpage, fwVars, content>>
  BY DEF Collect
<1> USE DEF fwVars
<1>2. TypeOK /\ ControlInv /\ dmaState = "STARTED" /\ intermediateQueue # <<>>
  BY <1>1 DEF IInv, ControlInv
<1>3. Flying = {p} /\ p \in Page /\ inSuperpage = <<>>
  BY <1>2, FlyingIs
<1>4. Reported(p)
  BY <1>1, <1>2, <1>3 DEF IInv, FlightInv, Session, Unreported
<1>5. /\ content[p] # 0 /\ info.size = content[p] /\ info.count = spAvailCount
      /\ descFifo = <<>>
  BY <1>1, <1>4 DEF Reported
<1>6. /\ readyQueue' \in Seq(ReadyEntry) /\ Len(readyQueue') <= ReadyCap
      /\ owner' \in [Page -> {"user", "card", "ready", "dropped"}]
      /\ Flying' = {} /\ intermediateQueue' = <<>>
      /\ OwnerInv' /\ WaitingInv' /\ ReadyOnce' /\ ReadyInv'
  <2> HIDE DEF p
  <2>1. TRUE = (content[p] # 0)
    BY <1>5
  <2> QED BY <1>1, <1>2, <1>5, <2>1, FlightEnds DEF p
<1>7. TypeOK'
  BY <1>1, <1>2, <1>6, EmptySeq DEF TypeOK
<1>8. ControlInv' /\ RestInv'
  BY <1>1, <1>2, <1>3 DEF ControlInv, RestInv, Session
<1>9. FlightInv'
  BY <1>1, <1>2, <1>5, <1>6 DEF IInv, FlightInv
<1> QED BY <1>6, <1>7, <1>8, <1>9 DEF IInv

LEMMA DrainIntermediateStep ==
  ASSUME IInv, DrainIntermediate
  PROVE  IInv'
<1> DEFINE p == Head(intermediateQueue)
           received == IF Arrived THEN info.size ELSE 0
<1>1. /\ pc = "drain" /\ intermediateQueue # <<>> /\ ToReady(p, Arrived, received)
      /\ intermediateQueue' = Tail(intermediateQueue) /\ spAvailCount' = info.count
      /\ UNCHANGED <<dmaState, transferQueue, callVars, fwVars, content>>
  BY DEF DrainIntermediate
<1> USE DEF callVars, fwVars
<1>2. TypeOK /\ ControlInv /\ dmaState # "STARTED" /\ inSuperpage = <<>>
  BY <1>1 DEF IInv, ControlInv
<1>3. Flying = {p} /\ p \in Page
  BY <1>1, <1>2, FlyingIs
<1>4. Arrived = (content[p] # 0) /\ received = content[p]
  <2>1. Reported(p) \/ Unreported(p)
    BY <1>1, <1>3 DEF IInv, FlightInv, Session
  <2>2. Inc(spAvailCount) # spAvailCount
    BY <1>2, IncIsAnother DEF TypeOK
  <2>3. Arrived <=> info.count # spAvailCount
    BY <1>2, ArrivedMeansChanged
  <2>4. CASE Reported(p)
    BY <1>1, <2>2, <2>3, <2>4 DEF Reported, Arrived
  <2>5. CASE Unreported(p)
    BY <2>3, <2>5 DEF Unreported, Arrived
  <2> QED BY <2>1, <2>4, <2>5
<1>5. /\ readyQueue' \in Seq(ReadyEntry) /\ Len(readyQueue') <= ReadyCap
      /\ owner' \in [Page -> {"user", "card", "ready", "dropped"}]
      /\ Flying' = {} /\ intermediateQueue' = <<>>
      /\ OwnerInv' /\ WaitingInv' /\ ReadyOnce' /\ ReadyInv'
  <2> HIDE DEF p, received
  <2> QED BY <1>1, <1>4, FlightEnds DEF p
<1>6. TypeOK'
  BY <1>1, <1>2, <1>5, EmptySeq DEF TypeOK
<1>7. ControlInv' /\ RestInv'
  BY <1>1, <1>2 DEF ControlInv, RestInv, Session
<1>8. FlightInv'
  BY <1>1, <1>2, <1>5 DEF FlightInv
<1> QED BY <1>5, <1>6, <1>7, <1>8 DEF IInv

-----------------------------------------------------------------------------
(* The front of the transfer queue leaves it. *)
LEMMA WaitingHead ==
  ASSUME IInv, transferQueue # <<>>
  PROVE  LET p == Head(transferQueue)  rest == Tail(transferQueue)
         IN /\ p \in Page /\ p \notin Flying /\ owner[p] = "card" /\ content[p] = 0
            /\ rest \in Seq(Page) /\ Len(rest) < Len(transferQueue)
            /\ \A i \in 1 .. Len(rest) :
                 /\ rest[i] = transferQueue[i + 1] /\ i + 1 \in 1 .. Len(transferQueue)
                 /\ rest[i] # p /\ rest[i] \in Page
<1> DEFINE p == Head(transferQueue)
           rest == Tail(transferQueue)
<1>1. TypeOK /\ transferQueue \in Seq(Page) /\ Len(transferQueue) \in Nat
  BY QueueTypes DEF IInv, TypeOK
<1>2. /\ p \in Page /\ rest \in Seq(Page) /\ Len(rest) = Len(transferQueue) - 1
      /\ \A i \in 1 .. Len(rest) : rest[i] = transferQueue[i + 1]
      /\ p = transferQueue[1] /\ Len(rest) \in Nat
  BY <1>1, HeadTailProperties, LenProperties
<1>3. 1 \in 1 .. Len(transferQueue)
  BY <1>1, <1>2
<1>4. p \notin Flying /\ owner[p] = "card" /\ content[p] = 0
  BY <1>2, <1>3 DEF IInv, WaitingInv, OwnerInv
<1>5. ASSUME NEW i \in 1 .. Len(rest)
      PROVE  /\ rest[i] = transferQueue[i + 1] /\ i + 1 \in 1 .. Len(transferQueue)
             /\ rest[i] # p /\ rest[i] \in Page
  BY <1>1, <1>2, <1>3, QueueTypes DEF IInv, WaitingInv
<1> HIDE DEF p, rest
<1>6. Len(rest) < Len(transferQueue)
  BY <1>1, <1>2
<1> QED BY <1>2, <1>4, <1>5, <1>6 DEF p, rest

LEMMA DrainTransferStep ==
  ASSUME IInv, DrainTransfer
  PROVE  IInv'
<1>1. /\ pc = "drain" /\ intermediateQueue = <<>>
      /\ UNCHANGED <<dmaState, intermediateQueue, spAvailCount, inSuperpage, fwVars, content>>
  BY DEF DrainTransfer
<1> USE DEF fwVars
<1>2. TypeOK /\ ControlInv /\ dmaState # "STARTED" /\ ~receiving /\ inSuperpage = <<>>
  BY <1>1 DEF IInv, ControlInv
<1>3. Flying = {} /\ Flying' = {}
  BY <1>1, <1>2, FlyingIs DEF Flying
<1>4. FlightInv'
  BY <1>1, <1>2, <1>3 DEF FlightInv
<1>5. CASE transferQueue = <<>>
  <2>1. pc' = "idle" /\ UNCHANGED <<transferQueue, readyQueue, owner>>
    BY <1>5 DEF DrainTransfer
  <2>2. TypeOK' /\ ControlInv' /\ RestInv'
    BY <1>1, <1>2, <1>5, <2>1 DEF TypeOK, ControlInv, RestInv
  <2>3. OwnerInv' /\ WaitingInv' /\ ReadyOnce' /\ ReadyInv'
    BY <1>1, <1>3, <2>1 DEF IInv, OwnerInv, WaitingInv, ReadyOnce, ReadyInv
  <2> QED BY <1>4, <2>2, <2>3 DEF IInv
<1>6. CASE transferQueue # <<>>
  <2> DEFINE p == Head(transferQueue)
             rest == Tail(transferQueue)
  <2>1. /\ ToReady(p, FALSE, 0) /\ transferQueue' = rest /\ pc' = pc
    BY <1>6 DEF DrainTransfer
  <2>2. /\ p \in Page /\ owner[p] = "card" /\ content[p] = 0
        /\ rest \in Seq(Page) /\ Len(rest) < Len(transferQueue)
        /\ \A i \in 1 .. Len(rest) :
             /\ rest[i] = transferQueue[i + 1] /\ i + 1 \in 1 .. Len(transferQueue)
             /\ rest[i] # p /\ rest[i] \in Page
    BY <1>6, WaitingHead
  <2> HIDE DEF p, rest
  <2>3. FALSE = (content[p] # 0) /\ 0 = content[p]
    BY <2>2
  <2>4. /\ readyQueue' \in Seq(ReadyEntry) /\ Len(readyQueue') <= ReadyCap
        /\ owner' \in [Page -> {"user", "card", "ready", "dropped"}]
        /\ \A x \in Page : x # p => owner'[x] = owner[x]
        /\ \A i \in 1 .. Len(readyQueue') : owner'[readyQueue'[i].page] = "ready"
        /\ ReadyOnce' /\ ReadyInv'
    BY <1>1, <2>1, <2>2, <2>3, ToReadyStep
  <2>5. TypeOK'
    <3>1. Len(rest) <= TransferCap
      <4>1. Len(transferQueue) <= TransferCap /\ Len(transferQueue) \in Nat /\ Len(rest) \in Nat
        BY <1>2, <2>2, QueueTypes, LenProperties DEF TypeOK
      <4> QED BY <2>2, <4>1
    <3> QED BY <1>1, <1>2, <2>1, <2>2, <2>4, <3>1 DEF TypeOK
  <2>6. ControlInv' /\ RestInv'
    BY <1>1, <1>2, <2>1 DEF ControlInv, RestInv, Session
  <2>7. OwnerInv'
    BY SMTT(30), <1>3, <2>1, <2>2, <2>4 DEF IInv, OwnerInv
  <2>8. WaitingInv'
    BY <1>1, <1>3, <2>1, <2>2 DEF IInv, WaitingInv
  <2> QED BY <1>4, <2>4, <2>5, <2>6, <2>7, <2>8 DEF IInv
<1> QED BY <1>5, <1>6

LEMMA PushToFirmwareStep ==
  ASSUME IInv, PushToFirmware
  PROVE  IInv'
<1>1. /\ pc = "push"
      /\ UNCHANGED <<dmaState, intermediateQueue, readyQueue, spAvailCount, receiving,
                     fwCount, info, bufferVars>>
  BY DEF PushToFirmware
<1> USE DEF bufferVars
<1>2. TypeOK /\ ControlInv /\ inSuperpage = <<>>
  BY <1>1 DEF IInv, ControlInv
<1>3. CASE intermediateQueue = <<>> /\ transferQueue # <<>>
  <2> DEFINE p == Head(transferQueue)
             rest == Tail(transferQueue)
  <2>1. /\ inSuperpage' = <<p>> /\ transferQueue' = rest /\ pc' = "track"
        /\ descFifo' = Append(descFifo, p)
    BY <1>3 DEF PushToFirmware
  <2>2. /\ p \in Page /\ owner[p] = "card" /\ content[p] = 0
        /\ rest \in Seq(Page) /\ Len(rest) < Len(transferQueue)
        /\ \A i \in 1 .. Len(rest) :
             /\ rest[i] = transferQueue[i + 1] /\ i + 1 \in 1 .. Len(transferQueue)
             /\ rest[i] # p /\ rest[i] \in Page
    BY <1>3, WaitingHead
  <2> HIDE DEF p, rest
  <2>3. dmaState = "STARTED"
    BY <1>1, <1>3 DEF IInv, RestInv, Session
  <2>4. Flying = {} /\ Flying' = {p}
    BY <1>1, <1>2, <1>3, <2>1, <2>2, FlyingIs DEF Flying
  <2>5. info.count = fwCount /\ info.count = spAvailCount /\ descFifo' = <<p>>
    BY <2>1, <2>3, <2>4 DEF IInv, FlightInv
  <2>6. TypeOK'
    <3>1. Len(rest) <= TransferCap
      <4>1. Len(transferQueue) <= TransferCap /\ Len(transferQueue) \in Nat /\ Len(rest) \in Nat
        BY <1>2, <2>2, QueueTypes, LenProperties DEF TypeOK
      <4> QED BY <2>2, <4>1
    <3>2. <<p>> \in Seq(Page)
      BY <2>2
    <3> QED BY <1>1, <1>2, <2>1, <2>2, <2>5, <3>1, <3>2 DEF TypeOK
  <2>7. ControlInv' /\ RestInv'
    BY <1>1, <1>2, <1>3, <2>1, <2>3 DEF ControlInv, RestInv, Session
  <2>8. FlightInv'
    BY <1>1, <2>1, <2>2, <2>4, <2>5 DEF FlightInv, Unreported
  <2>9. OwnerInv'
    BY <1>1, <2>1, <2>2, <2>4 DEF IInv, OwnerInv
  <2>10. WaitingInv'
    BY <1>1, <2>1, <2>2, <2>4 DEF IInv, WaitingInv
  <2>11. ReadyOnce' /\ ReadyInv'
    BY <1>1 DEF IInv, ReadyOnce, ReadyInv
  <2> QED BY <2>6, <2>7, <2>8, <2>9, <2>10, <2>11 DEF IInv
<1>4. CASE ~(intermediateQueue = <<>> /\ transferQueue # <<>>)
  <2>1. pc' = "idle" /\ UNCHANGED <<inSuperpage, transferQueue, descFifo>>
    BY <1>4 DEF PushToFirmware
  <2>2. TypeOK' /\ ControlInv' /\ RestInv' /\ Flying' = Flying
    BY <1>1, <2>1 DEF IInv, TypeOK, ControlInv, RestInv, Session, Flying
  <2>3. FlightInv'
    BY <1>1, <2>1, <2>2 DEF IInv, FlightInv, Session, Reported, Unreported
  <2>4. OwnerInv' /\ WaitingInv' /\ ReadyOnce' /\ ReadyInv'
    BY <1>1, <2>1, <2>2 DEF IInv, OwnerInv, WaitingInv, ReadyOnce, ReadyInv
  <2> QED BY <2>2, <2>3, <2>4 DEF IInv
<1> QED BY <1>3, <1>4

LEMMA TrackStep ==
  ASSUME IInv, Track
  PROVE  IInv'
<1>1. /\ pc = "track" /\ pc' = "idle" /\ inSuperpage' = <<>>
      /\ UNCHANGED <<dmaState, transferQueue, readyQueue, spAvailCount, fwVars, bufferVars>>
  BY DEF Track
<1> USE DEF fwVars, bufferVars
<1>2. /\ TypeOK /\ ControlInv /\ dmaState = "STARTED" /\ intermediateQueue = <<>>
      /\ Len(inSuperpage) = 1
  BY <1>1 DEF IInv, ControlInv
<1>3. intermediateQueue' = inSuperpage
  BY <1>2 DEF Track
<1>4. Flying' = Flying
  BY <1>1, <1>2, <1>3 DEF Flying
<1>5. TypeOK'
  <2>1. intermediateQueue' \in Seq(Page) /\ Len(intermediateQueue') <= 1
    <3>1. Len(inSuperpage) = 1 /\ inSuperpage \in Seq(Page)
      BY <1>2 DEF TypeOK
    <3> QED BY <1>3, <3>1
  <2>3. inSuperpage' \in Seq(Page)
    BY <1>1
  <2>2. /\ UNCHANGED <<dmaState, transferQueue, readyQueue, spAvailCount>> /\ pc' = "idle"
        /\ UNCHANGED <<receiving, descFifo, fwCount, info, content, owner>>
    BY <1>1
  <2> QED BY <1>2, <2>1, <2>2, <2>3 DEF TypeOK
<1>6. ControlInv' /\ RestInv'
  BY <1>1, <1>2, <1>3 DEF ControlInv, RestInv, Session
<1>7. FlightInv'
  BY <1>1, <1>2, <1>4 DEF IInv, FlightInv, Session, Reported, Unreported
<1>8. OwnerInv' /\ WaitingInv' /\ ReadyOnce' /\ ReadyInv'
  BY <1>1, <1>4 DEF IInv, OwnerInv, WaitingInv, ReadyOnce, ReadyInv
<1> QED BY <1>5, <1>6, <1>7, <1>8 DEF IInv

LEMMA StutterStep ==
  ASSUME IInv, UNCHANGED vars
  PROVE  IInv'
<1> USE DEF vars, driverVars, callVars, fwVars, bufferVars
<1>1. TypeOK' /\ ControlInv' /\ RestInv' /\ Flying' = Flying
  BY DEF IInv, TypeOK, ControlInv, RestInv, Session, Flying
<1>2. FlightInv'
  BY <1>1 DEF IInv, FlightInv, Session, Reported, Unreported
<1>3. OwnerInv' /\ WaitingInv' /\ ReadyOnce' /\ ReadyInv'
  BY <1>1 DEF IInv, OwnerInv, WaitingInv, ReadyOnce, ReadyInv
<1> QED BY <1>1, <1>2, <1>3 DEF IInv
-----------------------------------------------------------------------------
LEMMA NextIInv ==
  ASSUME IInv, [Next]_vars
  PROVE  IInv'
<1>1. CASE FirmwareFill
  BY <1>1, FirmwareFillStep
<1>2. CASE CallStep
  BY <1>2, CollectStep, PushToFirmwareStep, TrackStep, DrainIntermediateStep,
     DrainTransferStep DEF CallStep
<1>3. CASE Call
  <2>1. ASSUME StartDma \/ StartDmaThrows PROVE IInv'
    BY <2>1, RestartStep DEF StartDma, StartDmaThrows
  <2> QED BY <1>3, <2>1, ResetChannelStep, StopDmaStep, PushSuperpageStep,
          PopSuperpageStep, FillSuperpagesStep DEF Call
<1>4. CASE UNCHANGED vars
  BY <1>4, StutterStep
<1> QED BY <1>1, <1>2, <1>3, <1>4 DEF Next

THEOREM Invariance == Spec => []IInv
<1>1. IInv /\ [Next]_vars => IInv'
  BY NextIInv
<1> QED BY <1>1, InitIInv, PTL DEF Spec

(* Every variable of a C-RORC channel stays in its C++ type: no call        *)
(* overfills a queue, and counts keep their width.                          *)
THEOREM TypeCorrect == Spec => []TypeOK
<1>1. IInv => TypeOK
  BY DEF IInv
<1> QED BY <1>1, Invariance, PTL
-----------------------------------------------------------------------------
(* The superpage in flight is what the intermediate queue and the call hold *)
(* together: one or none.                                                   *)
LEMMA InFlightIs ==
  ASSUME TypeOK, ControlInv
  PROVE  \/ Flying = {} /\ InFlight = <<>> /\ intermediateQueue = <<>> /\ pc # "track"
         \/ /\ \E p \in Page : Flying = {p} /\ InFlight = <<p>>
            /\ intermediateQueue # <<>> \/ pc = "track"
<1>1. intermediateQueue \in Seq(Page) /\ inSuperpage \in Seq(Page)
  BY DEF TypeOK
<1>2. CASE intermediateQueue # <<>>
  <2>1. InFlight = intermediateQueue
    BY <1>1, <1>2, FlyingIs, ConcatEmptySeq DEF InFlight
  <2> QED BY <1>2, <2>1, FlyingIs
<1>3. CASE intermediateQueue = <<>> /\ pc = "track"
  <2>1. InFlight = inSuperpage
    BY <1>1, <1>3, ConcatEmptySeq DEF InFlight
  <2> QED BY <1>3, <2>1, FlyingIs
<1>4. CASE intermediateQueue = <<>> /\ pc # "track"
  <2>1. InFlight = <<>>
    BY <1>1, <1>4, ConcatEmptySeq DEF InFlight, ControlInv
  <2> QED BY <1>4, <2>1, FlyingIs
<1> QED BY <1>2, <1>3, <1>4

(* What the driver reports of a superpage is true of that superpage: the    *)
(* firmware never has a second one, nor one of an earlier session; the      *)
(* ready flag and the size are those of the bytes written, although the     *)
(* count wraps around and is read before the size.                          *)
THEOREM ReportsAreTrue == Spec => []ReportedRightly
<1>1. ASSUME IInv PROVE ReportedRightly
  <2>1. TypeOK /\ ControlInv /\ DOMAIN readyQueue = 1 .. Len(readyQueue)
    BY <1>1, QueueTypes DEF IInv
  <2>2. ReadyMeansFilled /\ ReceivedIsWritten
    BY <1>1, <2>1 DEF IInv, ReadyInv, ReadyMeansFilled, ReceivedIsWritten
  <2>3. Len(InFlight) <= 1
    <3>1. Len(<<>>) <= 1 /\ \A p \in Page : Len(<<p>>) <= 1
      OBVIOUS
    <3>2. InFlight = <<>> \/ \E p \in Page : InFlight = <<p>>
      BY <2>1, InFlightIs
    <3> QED BY <3>1, <3>2
  <2>4. ASSUME receiving, descFifo # <<>>
        PROVE  Len(descFifo) <= 1 /\ descFifo = InFlight
    <3>1. dmaState = "STARTED"
      BY <1>1, <2>4 DEF IInv, RestInv, ControlInv, Session
    <3>2. PICK p \in Flying : TRUE
      BY <1>1, <2>4, <3>1 DEF IInv, FlightInv
    <3>3. descFifo = <<p>>
      BY <1>1, <2>4, <3>1, <3>2 DEF IInv, FlightInv, Session, Reported, Unreported
    <3>4. InFlight = <<p>>
      BY <2>1, <3>2, InFlightIs
    <3> QED BY <3>3, <3>4
  <2>5. descFifo = <<>> => Len(descFifo) <= 1
    OBVIOUS
  <2> QED BY <2>2, <2>3, <2>4, <2>5 DEF ReportedRightly, OneInFlight
<1> QED BY <1>1, Invariance, PTL
-----------------------------------------------------------------------------
(* The channel implements the ownership protocol, step by step. *)
Filled == {p \in Page : content[p] # 0}

LEMMA RefineInit == Init => Ownership!Init
<1> SUFFICES ASSUME Init PROVE Ownership!Init
  OBVIOUS
<1>1. readyQueue \in Seq(Page) /\ readyQueue = <<>>
  BY DEF Init
<1>2. AllShown(readyQueue) = <<>>
  BY <1>1, ShownEmpty
<1>3. Filled = {} /\ owner = [p \in Page |-> "user"]
  BY DEF Init, Filled
<1> QED BY <1>2, <1>3 DEF Ownership!Init, AllShown, Filled

(* mReadyQueue.write(): a superpage of the card is completed, or dropped    *)
(* for want of room.                                                        *)
LEMMA ToReadyImplements ==
  ASSUME TypeOK, UNCHANGED content, NEW p \in Page, owner[p] = "card",
         NEW isReady, isReady = (content[p] # 0), NEW received, received = content[p],
         ToReady(p, isReady, received)
  PROVE  Ownership!Complete(p) \/ Ownership!Drop(p)
<1> DEFINE entry == [page |-> p, ready |-> isReady, received |-> received]
<1>1. entry \in ReadyEntry /\ Shown(entry) = [page |-> p, ready |-> p \in Filled]
  BY DEF ReadyEntry, TypeOK, Shown, Filled
<1>2. readyQueue \in Seq(ReadyEntry) /\ Len(readyQueue) \in Nat /\ Len(readyQueue) <= ReadyCap
  BY LenProperties DEF TypeOK
<1>3. Len(AllShown(readyQueue)) = Len(readyQueue) /\ Filled' = Filled
  BY <1>2, ShownIs DEF Filled
<1>4. CASE Len(readyQueue) < ReadyCap
  <2>1. owner' = [owner EXCEPT ![p] = "ready"] /\ readyQueue' = Append(readyQueue, entry)
    BY <1>4 DEF ToReady
  <2> HIDE DEF entry
  <2>2. AllShown(readyQueue)' = Append(AllShown(readyQueue), Shown(entry))
    BY <1>1, <1>2, <2>1, ShownAppend
  <2>3. AllShown(readyQueue)' = Append(AllShown(readyQueue), [page |-> p, ready |-> p \in Filled])
    BY <1>1, <2>2
  <2> QED BY <1>3, <1>4, <2>1, <2>3 DEF Ownership!Complete, AllShown, Filled
<1>5. CASE ~(Len(readyQueue) < ReadyCap)
  <2>1. /\ owner' = [owner EXCEPT ![p] = "dropped"] /\ readyQueue' = readyQueue
        /\ Len(readyQueue) = ReadyCap
    BY <1>2, <1>5 DEF ToReady
  <2>2. AllShown(readyQueue)' = AllShown(readyQueue)
    BY <2>1 DEF AllShown
  <2> QED BY <1>3, <2>1, <2>2 DEF Ownership!Drop, AllShown, Filled
<1> QED BY <1>4, <1>5

LEMMA PushImplements ==
  ASSUME TypeOK, NEW p \in Page, PushSuperpage(p)
  PROVE  Ownership!Push(p)
<1>1. /\ owner[p] \in {"user", "dropped"} /\ owner' = [owner EXCEPT ![p] = "card"]
      /\ content' = [content EXCEPT ![p] = 0] /\ readyQueue' = readyQueue
  BY DEF PushSuperpage
<1>2. Filled' = Filled \ {p}
  BY <1>1 DEF Filled, TypeOK
<1> QED BY <1>1, <1>2 DEF Ownership!Push, Filled

LEMMA PopImplements ==
  ASSUME TypeOK, PopSuperpage
  PROVE  Ownership!Pop
<1>1. /\ readyQueue # <<>> /\ owner' = [owner EXCEPT ![Head(readyQueue).page] = "user"]
      /\ readyQueue' = Tail(readyQueue) /\ content' = content
  BY DEF PopSuperpage
<1>2. readyQueue \in Seq(ReadyEntry)
  BY DEF TypeOK
<1>3. /\ AllShown(readyQueue)' = Tail(AllShown(readyQueue)) /\ AllShown(readyQueue) # <<>>
      /\ Head(AllShown(readyQueue)) = Shown(Head(readyQueue))
  BY <1>1, <1>2, ShownTail, ShownEmpty
<1>4. Head(AllShown(readyQueue)).page = Head(readyQueue).page
  BY <1>3 DEF Shown
<1>5. Filled' = Filled
  BY <1>1 DEF Filled
<1> QED BY <1>1, <1>3, <1>4, <1>5 DEF Ownership!Pop, AllShown, Filled

(* The firmware reports the superpage in flight: that fills it. *)
LEMMA FillImplements ==
  ASSUME IInv, receiving, descFifo # <<>>, NEW size \in 1 .. FullSize, FillFront(size),
         UNCHANGED <<readyQueue, owner>>
  PROVE  \E p \in Page : Ownership!Fill(p)
<1>1. PICK p \in Page : /\ owner[p] = "card" /\ content[p] = 0
                        /\ content' = [content EXCEPT ![p] = size]
  BY FillFrontStep
<1>2. p \notin Filled /\ Filled' = Filled \cup {p}
  BY <1>1 DEF Filled, IInv, TypeOK
<1> QED BY <1>1, <1>2 DEF Ownership!Fill, Filled

(* A step that leaves buffer and ready queue alone is no step of the protocol. *)
LEMMA OthersStutter ==
  ASSUME UNCHANGED <<owner, content, readyQueue>>
  PROVE  UNCHANGED Ownership!vars
BY DEF Ownership!vars

(* What leaves the superpage in flight is a superpage of the card, and      *)
(* isASuperpageAvailable() knows whether it was filled.                     *)
LEMMA CollectImplements ==
  ASSUME IInv, Collect \/ DrainIntermediate
  PROVE  \E p \in Page : Ownership!Complete(p) \/ Ownership!Drop(p)
<1>1. TypeOK /\ ControlInv /\ intermediateQueue # <<>> /\ content' = content
  BY DEF IInv, ControlInv, Collect, DrainIntermediate
<1> DEFINE p == Head(intermediateQueue)
<1>2. p \in Page /\ p \in Flying /\ owner[p] = "card"
  BY <1>1, FlyingIs DEF IInv, OwnerInv
<1>3. Session
  BY DEF IInv, ControlInv, Session, Collect, DrainIntermediate
<1>4. Reported(p) \/ Unreported(p)
  BY <1>2, <1>3 DEF IInv, FlightInv
<1>5. CASE Collect
  <2>1. ToReady(p, TRUE, info.size) /\ content[p] # 0 /\ info.size = content[p]
    BY <1>4, <1>5 DEF Collect, Reported, Unreported
  <2> HIDE DEF p
  <2>2. TRUE = (content[p] # 0)
    BY <2>1
  <2> QED BY <1>1, <1>2, <2>1, <2>2, ToReadyImplements
<1>6. CASE DrainIntermediate
  <2> DEFINE received == IF Arrived THEN info.size ELSE 0
  <2>1. ToReady(p, Arrived, received) /\ pc = "drain"
    BY <1>6 DEF DrainIntermediate
  <2>2. Inc(spAvailCount) # spAvailCount /\ (Arrived <=> info.count # spAvailCount)
    BY <1>1, IncIsAnother, ArrivedMeansChanged DEF TypeOK
  <2>3. Arrived = (content[p] # 0) /\ received = content[p]
    <3>1. CASE Reported(p)
      BY <2>1, <2>2, <3>1 DEF Reported, Arrived
    <3>2. CASE Unreported(p)
      BY <2>2, <3>2 DEF Unreported, Arrived
    <3> QED BY <1>4, <3>1, <3>2
  <2> HIDE DEF p, received
  <2> QED BY <1>1, <1>2, <2>1, <2>3, ToReadyImplements
<1> QED BY <1>5, <1>6

LEMMA DrainTransferImplements ==
  ASSUME IInv, DrainTransfer, transferQueue # <<>>
  PROVE  \E p \in Page : Ownership!Complete(p) \/ Ownership!Drop(p)
<1> DEFINE p == Head(transferQueue)
<1>1. ToReady(p, FALSE, 0) /\ content' = content
  BY DEF DrainTransfer
<1>2. p \in Page /\ owner[p] = "card" /\ content[p] = 0
  BY WaitingHead
<1> HIDE DEF p
<1>3. FALSE = (content[p] # 0) /\ 0 = content[p] /\ TypeOK
  BY <1>2 DEF IInv
<1> QED BY <1>1, <1>2, <1>3, ToReadyImplements

LEMMA RefineStep == IInv /\ [Next]_vars => [Ownership!Next]_Ownership!vars
<1> SUFFICES ASSUME IInv, [Next]_vars PROVE [Ownership!Next]_Ownership!vars
  OBVIOUS
<1>1. TypeOK
  BY DEF IInv
<1>2. CASE FirmwareFill
  <2>1. PICK size \in 1 .. FullSize : FillFront(size)
    BY <1>2 DEF FirmwareFill
  <2>2. receiving /\ descFifo # <<>> /\ UNCHANGED <<readyQueue, owner>>
    BY <1>2, <2>1 DEF FirmwareFill, FillFront, driverVars
  <2> QED BY <2>1, <2>2, FillImplements DEF Ownership!Next
<1>3. CASE CallStep
  <2>1. CASE Collect \/ DrainIntermediate
    BY <2>1, CollectImplements DEF Ownership!Next
  <2>2. CASE DrainTransfer /\ transferQueue # <<>>
    BY <2>2, DrainTransferImplements DEF Ownership!Next
  <2>3. CASE PushToFirmware \/ Track \/ (DrainTransfer /\ transferQueue = <<>>)
    BY <2>3, OthersStutter DEF PushToFirmware, Track, DrainTransfer, bufferVars
  <2> QED BY <1>3, <2>1, <2>2, <2>3 DEF CallStep
<1>4. CASE Call
  <2>1. CASE StartDma \/ StartDmaThrows \/ ResetChannel \/ FillSuperpages
    BY <2>1, OthersStutter
       DEF StartDma, StartDmaThrows, Restart, ResetChannel, FillSuperpages, driverVars, bufferVars
  <2>2. CASE StopDma
    <3>1. ASSUME NEW size \in 1 .. FullSize, FillFront(size) PROVE [Ownership!Next]_Ownership!vars
      <4>1. receiving /\ descFifo # <<>> /\ UNCHANGED <<readyQueue, owner>>
        BY <2>2, <3>1 DEF StopDma, FillFront, IInv, ControlInv
      <4> QED BY <3>1, <4>1, FillImplements DEF Ownership!Next
    <3>2. CASE UNCHANGED <<descFifo, fwCount, info, content>>
      BY <2>2, <3>2, OthersStutter DEF StopDma
    <3> QED BY <2>2, <3>1, <3>2 DEF StopDma
  <2>3. CASE \E p \in Page : PushSuperpage(p)
    BY <1>1, <2>3, PushImplements DEF Ownership!Next
  <2>4. CASE PopSuperpage
    BY <1>1, <2>4, PopImplements DEF Ownership!Next
  <2> QED BY <1>4, <2>1, <2>2, <2>3, <2>4 DEF Call
<1>5. CASE UNCHANGED vars
  BY <1>5, OthersStutter DEF vars, driverVars, bufferVars
<1> QED BY <1>2, <1>3, <1>4, <1>5 DEF Next

(* A C-RORC channel keeps every promise DmaChannelInterface makes about     *)
(* superpages: pushSuperpage(), fillSuperpages(), stopDma() and             *)
(* popSuperpage() hand each one on exactly as the ownership protocol says,  *)
(* and the card writes only superpages it was given.                        *)
THEOREM ChannelImplementsOwnership == Spec => ImplementsOwnership
<1>1. Spec => Ownership!Init /\ [][Ownership!Next]_Ownership!vars
  BY RefineInit, RefineStep, Invariance, PTL DEF Spec
<1> QED BY <1>1 DEF ImplementsOwnership, Ownership!Spec
-----------------------------------------------------------------------------
(* The line of superpages: ready, in flight, waiting. *)
LEMMA PagesIs ==
  ASSUME NEW q \in Seq(ReadyEntry)
  PROVE  /\ Pages(q) \in Seq(Page)
         /\ Len(Pages(q)) = Len(q) /\ Len(q) \in Nat
         /\ \A i \in 1 .. Len(q) : Pages(q)[i] = q[i].page
<1>1. Len(q) \in Nat /\ DOMAIN q = 1 .. Len(q)
  BY LenProperties
<1>2. \A i \in 1 .. Len(q) : q[i].page \in Page
  <2>1. \A i \in 1 .. Len(q) : q[i] \in ReadyEntry
    BY ElementOfSeq
  <2> QED BY <2>1 DEF ReadyEntry
<1>3. Pages(q) = [i \in 1 .. Len(q) |-> q[i].page]
  BY <1>1 DEF Pages
<1>4. Pages(q) \in [1 .. Len(q) -> Page]
  BY <1>2, <1>3
<1>5. Pages(q) \in Seq(Page)
  BY <1>1, <1>4, SeqDef
<1>6. Len(Pages(q)) = Len(q)
  BY <1>1, <1>4, <1>5, LenProperties
<1> QED BY <1>1, <1>3, <1>5, <1>6

LEMMA PagesAppend ==
  ASSUME NEW q \in Seq(ReadyEntry), NEW e \in ReadyEntry
  PROVE  Pages(Append(q, e)) = Append(Pages(q), e.page)
<1> DEFINE r == Append(q, e)
           a == Pages(q)
           b == Pages(r)
<1>1. /\ r \in Seq(ReadyEntry) /\ Len(r) = Len(q) + 1 /\ r[Len(q) + 1] = e
      /\ \A i \in 1 .. Len(q) : r[i] = q[i]
  BY AppendProperties
<1>2. /\ a \in Seq(Page) /\ Len(a) = Len(q) /\ Len(q) \in Nat
      /\ \A i \in 1 .. Len(q) : a[i] = q[i].page
  BY PagesIs
<1> HIDE DEF r, a
<1>3. b \in Seq(Page) /\ Len(b) = Len(r) /\ \A i \in 1 .. Len(r) : b[i] = r[i].page
  BY <1>1, PagesIs
<1> HIDE DEF b
<1>4. Len(a) + 1 \in 1 .. Len(r) /\ \A i \in 1 .. Len(a) : i \in 1 .. Len(r)
  BY <1>1, <1>2
<1>5. Len(b) = Len(a) + 1 /\ b[Len(a) + 1] = e.page /\ \A i \in 1 .. Len(a) : b[i] = a[i]
  BY <1>1, <1>2, <1>3, <1>4
<1>6. b = Append(a, e.page)
  BY <1>2, <1>3, <1>5, AppendByEntry
<1> QED BY <1>6 DEF a, b, r

LEMMA PagesTail ==
  ASSUME NEW q \in Seq(ReadyEntry), q # <<>>
  PROVE  Pages(Tail(q)) = Tail(Pages(q)) /\ Pages(q) # <<>>
<1> DEFINE r == Tail(q)
           a == Pages(q)
           b == Pages(r)
<1>1. /\ r \in Seq(ReadyEntry) /\ Len(r) = Len(q) - 1 /\ Len(r) \in Nat
      /\ \A i \in 1 .. Len(r) : r[i] = q[i + 1]
  BY HeadTailProperties, LenProperties
<1>2. /\ a \in Seq(Page) /\ Len(a) = Len(q) /\ Len(q) \in Nat
      /\ \A i \in 1 .. Len(q) : a[i] = q[i].page
  BY PagesIs
<1> HIDE DEF r, a
<1>3. a # <<>>
  <2>1. Len(a) # 0
    BY <1>1, <1>2
  <2> QED BY <2>1, EmptySeq
<1>4. b \in Seq(Page) /\ Len(b) = Len(r) /\ \A i \in 1 .. Len(r) : b[i] = r[i].page
  BY <1>1, PagesIs
<1> HIDE DEF b
<1>5. \A i \in 1 .. Len(r) : i + 1 \in 1 .. Len(q)
  BY <1>1, <1>2
<1>6. Len(b) = Len(a) - 1 /\ \A i \in 1 .. Len(b) : b[i] = a[i + 1]
  BY <1>1, <1>2, <1>4, <1>5
<1>7. b = Tail(a)
  BY <1>2, <1>3, <1>4, <1>6, TailByEntry
<1> QED BY <1>3, <1>7 DEF a, b, r

(* Three queues in a line, and one superpage moving from queue to queue. *)
LEMMA MovesInLine ==
  ASSUME NEW a \in Seq(Page), NEW b \in Seq(Page), NEW c \in Seq(Page), NEW x \in Page
  PROVE  /\ Append(a, x) \o <<>> \o c = a \o <<x>> \o c
         /\ a \o b \o Append(c, x) = Append(a \o b \o c, x)
         /\ a # <<>> => /\ a \o b \o c # <<>>
                        /\ Tail(a) \o b \o c = Tail(a \o b \o c)
         /\ c # <<>> => a \o <<Head(c)>> \o Tail(c) = a \o <<>> \o c
<1>1. <<x>> \in Seq(Page) /\ a \o <<x>> \in Seq(Page)
  BY ConcatProperties
<1>2. Append(a, x) \o <<>> \o c = a \o <<x>> \o c
  BY <1>1, AppendIsConcat, ConcatEmptySeq
<1>3. a \o b \in Seq(Page) /\ (a \o b) \o c \in Seq(Page)
  BY ConcatProperties
<1>4. a \o b \o Append(c, x) = Append(a \o b \o c, x)
  BY <1>1, <1>3, AppendIsConcat, ConcatAssociative
<1>5. ASSUME a # <<>>
      PROVE  a \o b \o c # <<>> /\ Tail(a) \o b \o c = Tail(a \o b \o c)
  <2>1. a \o b # <<>> /\ Tail(a \o b) = Tail(a) \o b
    BY <1>5, TailOfConcat
  <2> QED BY <1>3, <2>1, TailOfConcat
<1>6. ASSUME c # <<>>
      PROVE  a \o <<Head(c)>> \o Tail(c) = a \o <<>> \o c
  <2> DEFINE h == Head(c)
             r == Tail(c)
  <2>1. h \in Page /\ r \in Seq(Page) /\ c = <<h>> \o r
    BY <1>6, HeadTailProperties, HeadThenTail
  <2> HIDE DEF h, r
  <2>2. <<h>> \in Seq(Page)
    BY <2>1
  <2>3. (a \o <<h>>) \o r = a \o c
    BY <2>1, <2>2, ConcatAssociative
  <2>4. a \o <<>> = a
    BY ConcatEmptySeq
  <2> QED BY <2>3, <2>4 DEF h, r
<1> QED BY <1>2, <1>4, <1>5, <1>6

LEMMA LineTypes ==
  ASSUME TypeOK, ControlInv
  PROVE  /\ Pages(readyQueue) \in Seq(Page) /\ InFlight \in Seq(Page)
         /\ transferQueue \in Seq(Page) /\ readyQueue \in Seq(ReadyEntry)
<1>1. /\ readyQueue \in Seq(ReadyEntry) /\ transferQueue \in Seq(Page)
      /\ intermediateQueue \in Seq(Page) /\ inSuperpage \in Seq(Page)
  BY DEF TypeOK
<1>2. InFlight \in Seq(Page)
  BY <1>1, ConcatProperties DEF InFlight
<1> QED BY <1>1, <1>2, PagesIs

(* With an entry for every superpage, the ready queue has one for a         *)
(* superpage that is still the card's: the ready ones are others.           *)
LEMMA RoomForCardPage ==
  ASSUME IInv, IsFiniteSet(Page), Cardinality(Page) <= ReadyCap,
         NEW p \in Page, owner[p] = "card"
  PROVE  Len(readyQueue) < ReadyCap
<1> DEFINE n == Len(readyQueue)
           others == Page \ {p}
           f == [i \in 1 .. n |-> readyQueue[i].page]
<1>1. /\ n \in Nat /\ n <= ReadyCap
      /\ \A i \in 1 .. n : readyQueue[i].page \in Page
  BY QueueTypes DEF IInv, TypeOK
<1>2. \A i \in 1 .. n : readyQueue[i].page \in others
  BY <1>1 DEF IInv, OwnerInv
<1>3. \A i, j \in 1 .. n : readyQueue[i].page = readyQueue[j].page => i = j
  BY DEF IInv, ReadyOnce
<1>4. f \in Injection(1 .. n, others)
  <2>1. f \in [1 .. n -> others]
    BY <1>2
  <2>2. \A i, j \in 1 .. n : f[i] = f[j] => i = j
    BY <1>3
  <2> HIDE DEF f, others
  <2> QED BY <2>1, <2>2 DEF Injection, IsInjective
<1>5. /\ IsFiniteSet(others) /\ Cardinality(others) = Cardinality(Page) - 1
      /\ Cardinality(Page) \in Nat
  BY FS_RemoveElement, FS_CardinalityType
<1> HIDE DEF others, f
<1>6. Cardinality(1 .. n) <= Cardinality(others) /\ Cardinality(1 .. n) = n
  <2>1. Cardinality(1 .. n) <= Cardinality(others)
    BY <1>4, <1>5, FS_Injection
  <2>2. Cardinality(1 .. n) = n
    <3> HIDE DEF n
    <3>1. Cardinality(1 .. n) = IF 1 > n THEN 0 ELSE n - 1 + 1
      BY <1>1, FS_Interval
    <3> QED BY <1>1, <3>1
  <2> QED BY <2>1, <2>2
<1> QED BY <1>1, <1>5, <1>6

(* mReadyQueue.write() with room: the superpage joins the ready ones. *)
LEMMA ToReadyAppends ==
  ASSUME IInv, IsFiniteSet(Page), Cardinality(Page) <= ReadyCap,
         NEW p \in Page, owner[p] = "card", NEW isReady \in BOOLEAN,
         NEW received \in 0 .. FullSize, ToReady(p, isReady, received)
  PROVE  Pages(readyQueue)' = Append(Pages(readyQueue), p)
<1> DEFINE entry == [page |-> p, ready |-> isReady, received |-> received]
<1>1. Len(readyQueue) < ReadyCap
  BY RoomForCardPage
<1>2. readyQueue' = Append(readyQueue, entry) /\ readyQueue \in Seq(ReadyEntry)
  BY <1>1 DEF ToReady, IInv, TypeOK
<1>3. entry \in ReadyEntry /\ entry.page = p
  BY DEF ReadyEntry
<1> HIDE DEF entry
<1> QED BY <1>2, <1>3, PagesAppend

LEMMA LineStep ==
  ASSUME IInv, [Next]_vars, IsFiniteSet(Page), Cardinality(Page) <= ReadyCap
  PROVE  \/ Line' = Line
         \/ \E p \in Page : Line' = Append(Line, p)
         \/ Line # <<>> /\ Line' = Tail(Line)
<1> DEFINE a == Pages(readyQueue)
           c == transferQueue
<1>1. TypeOK /\ ControlInv
  BY DEF IInv
<1>2. a \in Seq(Page) /\ InFlight \in Seq(Page) /\ c \in Seq(Page) /\ readyQueue \in Seq(ReadyEntry)
  BY <1>1, LineTypes
<1>3. Line = a \o InFlight \o c
  BY DEF Line
<1>4. ASSUME UNCHANGED <<readyQueue, intermediateQueue, inSuperpage, transferQueue>>
      PROVE  Line' = Line
  BY <1>4 DEF Line, InFlight, Pages
<1>5. ASSUME NEW p \in Page, PushSuperpage(p) PROVE Line' = Append(Line, p)
  <2>1. /\ transferQueue' = Append(transferQueue, p)
        /\ UNCHANGED <<readyQueue, intermediateQueue, inSuperpage>>
    BY <1>5 DEF PushSuperpage, callVars
  <2>2. Line' = a \o InFlight \o Append(c, p)
    BY <2>1 DEF Line, InFlight, Pages
  <2> HIDE DEF a, c
  <2>3. a \o InFlight \o Append(c, p) = Append(a \o InFlight \o c, p)
    BY <1>2, MovesInLine
  <2> QED BY <1>3, <2>2, <2>3
<1>6. ASSUME PopSuperpage PROVE Line # <<>> /\ Line' = Tail(Line)
  <2>1. /\ readyQueue # <<>> /\ readyQueue' = Tail(readyQueue)
        /\ UNCHANGED <<transferQueue, intermediateQueue, inSuperpage>>
    BY <1>6 DEF PopSuperpage, callVars
  <2>2. Pages(readyQueue)' = Tail(a) /\ a # <<>>
    BY <1>2, <2>1, PagesTail
  <2>3. Line' = Tail(a) \o InFlight \o c
    BY <2>1, <2>2 DEF Line, InFlight
  <2>4. PICK x \in Page : TRUE
    BY <1>2, <2>2, HeadTailProperties
  <2> HIDE DEF a, c
  <2>5. a \o InFlight \o c # <<>> /\ Tail(a) \o InFlight \o c = Tail(a \o InFlight \o c)
    BY ZenonT(40), <1>2, <2>2, <2>4, MovesInLine
  <2> QED BY <1>3, <2>3, <2>5
<1>7. ASSUME Collect \/ DrainIntermediate PROVE Line' = Line
  <2> DEFINE p == Head(intermediateQueue)
  <2>1. /\ intermediateQueue # <<>> /\ intermediateQueue' = Tail(intermediateQueue)
        /\ UNCHANGED <<transferQueue, inSuperpage>>
    BY <1>7 DEF Collect, DrainIntermediate, callVars, IInv, ControlInv
  <2>2. /\ Flying = {p} /\ p \in Page /\ intermediateQueue = <<p>>
        /\ intermediateQueue' = <<>> /\ inSuperpage = <<>> /\ owner[p] = "card"
    BY <1>1, <2>1, FlyingIs DEF IInv, OwnerInv
  <2>3. InFlight = <<p>> /\ InFlight' = <<>>
    <3>1. InFlight = intermediateQueue
      BY <1>1, <2>2, ConcatEmptySeq DEF InFlight, TypeOK
    <3>2. <<>> \in Seq(Page)
      OBVIOUS
    <3>3. InFlight' = <<>>
      BY <2>1, <2>2, <3>2, ConcatEmptySeq DEF InFlight
    <3> QED BY <2>2, <3>1, <3>3
  <2> HIDE DEF p, a, c
  <2>4. info.size \in 0 .. FullSize /\ 0 \in 0 .. FullSize
    BY <1>1 DEF TypeOK
  <2>5. Pages(readyQueue)' = Append(a, p)
    <3>1. CASE Collect
      <4>1. ToReady(p, TRUE, info.size)
        BY <3>1 DEF Collect, p
      <4> QED BY <2>2, <2>4, <4>1, ToReadyAppends DEF a
    <3>2. CASE DrainIntermediate
      <4>1. ToReady(p, Arrived, IF Arrived THEN info.size ELSE 0)
        BY <3>2 DEF DrainIntermediate, p
      <4>2. Arrived \in BOOLEAN
        <5>1. Arrived = (info.count # spAvailCount)
          BY <1>1 DEF Arrived, TypeOK
        <5> QED BY <5>1
      <4>3. (IF Arrived THEN info.size ELSE 0) \in 0 .. FullSize
        BY <2>4
      <4> QED BY <2>2, <4>1, <4>2, <4>3, ToReadyAppends DEF a
    <3> QED BY <1>7, <3>1, <3>2
  <2>6. Line' = Append(a, p) \o <<>> \o c
    BY <2>1, <2>3, <2>5 DEF Line, c
  <2>7. Line = a \o <<p>> \o c
    BY <1>3, <2>3
  <2>8. p \in Page
    BY <2>2
  <2>9. Append(a, p) \o <<>> \o c = a \o <<p>> \o c
    BY ZenonT(40), <1>2, <2>8, MovesInLine
  <2> QED BY <2>6, <2>7, <2>9
<1>8. ASSUME DrainTransfer, transferQueue # <<>> PROVE Line' = Line
  <2> DEFINE h == Head(c)
  <2>1. /\ ToReady(h, FALSE, 0) /\ transferQueue' = Tail(c) /\ intermediateQueue = <<>>
        /\ UNCHANGED <<intermediateQueue, inSuperpage>> /\ pc = "drain"
    BY <1>8 DEF DrainTransfer
  <2>2. h \in Page /\ owner[h] = "card"
    BY <1>8, WaitingHead
  <2>3. InFlight = <<>> /\ InFlight' = InFlight
    BY <1>1, <2>1, InFlightIs DEF InFlight
  <2> HIDE DEF h, a, c
  <2>4. FALSE \in BOOLEAN /\ 0 \in 0 .. FullSize
    OBVIOUS
  <2>5. Pages(readyQueue)' = Append(a, h)
    BY <2>1, <2>2, <2>4, ToReadyAppends DEF a
  <2>6. Line' = Append(a, h) \o <<>> \o Tail(c) /\ Line = a \o <<>> \o c
    BY <1>3, <2>1, <2>3, <2>5 DEF Line
  <2>7. c # <<>> /\ Tail(c) \in Seq(Page)
    BY <1>2, <1>8, HeadTailProperties DEF c
  <2>8. Append(a, h) \o <<>> \o Tail(c) = a \o <<h>> \o Tail(c)
    BY <1>2, <2>2, <2>7, MovesInLine
  <2>9. a \o <<h>> \o Tail(c) = a \o <<>> \o c
    BY <1>2, <2>2, <2>7, MovesInLine DEF h
  <2> QED BY <2>6, <2>8, <2>9
<1>9. ASSUME PushToFirmware, intermediateQueue = <<>>, transferQueue # <<>> PROVE Line' = Line
  <2> DEFINE h == Head(c)
  <2>1. /\ inSuperpage' = <<h>> /\ transferQueue' = Tail(c) /\ pc = "push"
        /\ UNCHANGED <<intermediateQueue, readyQueue>>
    BY <1>9 DEF PushToFirmware
  <2>2. h \in Page
    BY <1>9, WaitingHead
  <2>3. InFlight = <<>> /\ InFlight' = <<h>>
    <3>1. InFlight = <<>>
      BY <1>1, <1>9, <2>1, InFlightIs
    <3>2. <<h>> \in Seq(Page)
      BY <2>2
    <3> HIDE DEF h
    <3>3. InFlight' = <<h>>
      BY <1>9, <2>1, <3>2, ConcatEmptySeq DEF InFlight
    <3> QED BY <3>1, <3>3
  <2>4. Line' = a \o <<h>> \o Tail(c) /\ Line = a \o <<>> \o c
    BY <1>3, <2>1, <2>3 DEF Line
  <2> HIDE DEF a, c
  <2>5. c # <<>>
    BY <1>9 DEF c
  <2>6. Tail(c) \in Seq(Page) /\ h = Head(c)
    BY <1>2, <2>5, HeadTailProperties
  <2>7. a \o <<h>> \o Tail(c) = a \o <<>> \o c
    BY <1>2, <2>2, <2>5, <2>6, MovesInLine
  <2> QED BY <2>4, <2>7
<1>10. ASSUME Track PROVE Line' = Line
  <2>1. /\ intermediateQueue = <<>> /\ intermediateQueue' = inSuperpage /\ inSuperpage' = <<>>
        /\ UNCHANGED <<readyQueue, transferQueue>>
    BY <1>1, <1>10 DEF Track, ControlInv
  <2>2. <<>> \o inSuperpage = inSuperpage \o <<>>
    BY <1>1, ConcatEmptySeq DEF TypeOK
  <2>3. InFlight' = InFlight
    BY <2>1, <2>2 DEF InFlight
  <2> QED BY <2>1, <2>3 DEF Line, Pages
<1>11. CASE FirmwareFill \/ UNCHANGED vars
  BY <1>4, <1>11 DEF FirmwareFill, vars, driverVars, callVars
<1>12. CASE CallStep
  <2>1. ASSUME DrainTransfer, transferQueue = <<>> PROVE Line' = Line
    BY <1>4, <2>1 DEF DrainTransfer
  <2>2. ASSUME PushToFirmware, ~(intermediateQueue = <<>> /\ transferQueue # <<>>)
        PROVE  Line' = Line
    BY <1>4, <2>2 DEF PushToFirmware
  <2> QED BY <1>7, <1>8, <1>9, <1>10, <1>12, <2>1, <2>2 DEF CallStep
<1>13. CASE Call
  <2>1. ASSUME StartDma \/ StartDmaThrows \/ ResetChannel \/ StopDma \/ FillSuperpages
        PROVE  Line' = Line
    BY <1>4, <2>1
       DEF StartDma, StartDmaThrows, Restart, ResetChannel, StopDma, FillSuperpages,
           driverVars, callVars
  <2> QED BY <1>5, <1>6, <1>13, <2>1 DEF Call
<1> QED BY <1>11, <1>12, <1>13 DEF Next

(* With a ready queue that has room for every superpage of the buffer,      *)
(* superpages come back in the order they were pushed, filled or not,       *)
(* through fillSuperpages() as through stopDma().                           *)
THEOREM SuperpagesInOrder ==
  ASSUME IsFiniteSet(Page), Cardinality(Page) <= ReadyCap
  PROVE  Spec => InOrder
<1>1. IInv /\ [Next]_vars => [\/ Line' = Line
                              \/ \E p \in Page : Line' = Append(Line, p)
                              \/ Line # <<>> /\ Line' = Tail(Line)]_vars
  BY LineStep
<1> QED BY <1>1, Invariance, PTL DEF Spec, InOrder
=============================================================================
