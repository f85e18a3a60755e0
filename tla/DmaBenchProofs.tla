---------------------------- MODULE DmaBenchProofs ----------------------------
(***************************************************************************)
(* For any buffer, driver and command lines: the threads of the DMA bench  *)
(* and the driver pass the superpages around without losing or doubling    *)
(* one, and the two counters agree with the queue between the threads.     *)
(* The invariant names the five places a superpage can be in; a step moves *)
(* a superpage from one place to another, or lets it drop.                 *)
(***************************************************************************)
EXTENDS DmaBench, SequenceTheorems, FiniteSetTheorems, TLAPS

(* Where a superpage is.  Between readoutQueue.write() and popSuperpage()  *)
(* the front of the ready queue is not counted there any more.             *)
Left == IF push = "pop" THEN Tail(readyQueue) ELSE readyQueue
Places == [free |-> ToSet(freeQueue), readout |-> ToSet(readoutQueue),
           hand |-> ToSet(hand), ready |-> ToSet(Left), driver |-> inDriver]
Place == {"free", "readout", "hand", "ready", "driver"}

Apart(where) == \A a, b \in Place : a # b => where[a] \cap where[b] = {}
All(where) == UNION {where[a] : a \in Place}

NoneTwice == IsInjective(freeQueue) /\ IsInjective(readoutQueue) /\ IsInjective(Left)

(* What the threads know of each other, by where they are. *)
ThreadInv ==
  /\ options \in Options
  /\ hand = <<>> \/ \E p \in Page : hand = <<p>>
  /\ (main = "read") = (hand # <<>>)
  /\ main \in {"stop", "drain", "end"} => push = "done"
  /\ push = "pop" => readyQueue # <<>>
  /\ "freeQueue full" \notin threw

AllThere == main \in {"loop", "read"} /\ ~BufferFullCheck => All(Places) = Page

IInv == TypeOK /\ ThreadInv /\ NoneTwice /\ Apart(Places) /\ AllThere /\ CountsAgree
-----------------------------------------------------------------------------
(* Queues in which no superpage is twice. *)
LEMMA Entries ==
  ASSUME NEW S, NEW s \in Seq(S)
  PROVE  /\ ToSet(s) = {s[i] : i \in 1 .. Len(s)} /\ ToSet(s) \subseteq S
         /\ IsInjective(s) <=> \A i, j \in 1 .. Len(s) : s[i] = s[j] => i = j
<1>1. DOMAIN s = 1 .. Len(s) /\ \A i \in 1 .. Len(s) : s[i] \in S
  BY LenProperties, ElementOfSeq
<1> QED BY <1>1 DEF ToSet, IsInjective

LEMMA EmptyOnce == ToSet(<<>>) = {} /\ IsInjective(<<>>)
<1>1. <<>> \in Seq({}) /\ Len(<<>>) = 0
  BY EmptySeq
<1>2. 1 .. 0 = {}
  OBVIOUS
<1> QED BY <1>1, <1>2, Entries

LEMMA SingleOnce ==
  ASSUME NEW e
  PROVE  ToSet(<<e>>) = {e} /\ IsInjective(<<e>>)
<1> DEFINE s == <<e>>
<1>1. s \in Seq({e}) /\ Len(s) = 1 /\ s[1] = e
  OBVIOUS
<1> HIDE DEF s
<1>2. \A i \in 1 .. 1 : i = 1
  OBVIOUS
<1>3. 1 \in 1 .. 1
  OBVIOUS
<1>4. ToSet(s) = {s[i] : i \in 1 .. 1}
  BY <1>1, Entries
<1>5. IsInjective(s)
  BY <1>1, <1>2, Entries
<1>6. ToSet(s) = {e}
  BY <1>1, <1>2, <1>3, <1>4
<1> QED BY <1>5, <1>6 DEF s

LEMMA AppendOnce ==
  ASSUME NEW S, NEW s \in Seq(S), NEW e \in S
  PROVE  /\ ToSet(Append(s, e)) = ToSet(s) \cup {e}
         /\ IsInjective(s) /\ e \notin ToSet(s) => IsInjective(Append(s, e))
<1> DEFINE a == Append(s, e)
           n == Len(s)
<1>1. /\ a \in Seq(S) /\ Len(a) = n + 1 /\ n \in Nat /\ a[n + 1] = e
      /\ \A i \in 1 .. n : a[i] = s[i]
  BY AppendProperties, LenProperties
<1> HIDE DEF a, n
<1>2. /\ ToSet(a) = {a[i] : i \in 1 .. n + 1} /\ ToSet(s) = {s[i] : i \in 1 .. n}
      /\ IsInjective(a) <=> \A i, j \in 1 .. n + 1 : a[i] = a[j] => i = j
      /\ IsInjective(s) <=> \A i, j \in 1 .. n : s[i] = s[j] => i = j
  BY <1>1, Entries DEF n
<1>3. /\ n + 1 \in 1 .. n + 1 /\ \A i \in 1 .. n : i \in 1 .. n + 1
      /\ \A i \in 1 .. n + 1 : i = n + 1 \/ i \in 1 .. n
  BY <1>1
<1>4. ToSet(a) = ToSet(s) \cup {e}
  BY <1>1, <1>2, <1>3
<1>5. ASSUME IsInjective(s), e \notin ToSet(s) PROVE IsInjective(a)
  <2>1. \A i \in 1 .. n : s[i] # e
    BY <1>2, <1>5
  <2> QED BY <1>1, <1>2, <1>3, <1>5, <2>1
<1> QED BY <1>4, <1>5 DEF a

LEMMA TailOnce ==
  ASSUME NEW S, NEW s \in Seq(S), s # <<>>, IsInjective(s)
  PROVE  /\ Head(s) \in S /\ Head(s) \in ToSet(s) /\ Tail(s) \in Seq(S)
         /\ IsInjective(Tail(s)) /\ ToSet(Tail(s)) = ToSet(s) \ {Head(s)}
         /\ Len(Tail(s)) = Len(s) - 1
<1> DEFINE t == Tail(s)
           h == Head(s)
           n == Len(t)
<1>1. /\ t \in Seq(S) /\ h \in S /\ h = s[1] /\ Len(s) = n + 1 /\ n \in Nat
      /\ \A i \in 1 .. n : t[i] = s[i + 1]
  BY HeadTailProperties, LenProperties
<1> HIDE DEF t, h, n
<1>2. /\ ToSet(t) = {t[i] : i \in 1 .. n} /\ ToSet(s) = {s[i] : i \in 1 .. n + 1}
      /\ IsInjective(t) <=> \A i, j \in 1 .. n : t[i] = t[j] => i = j
      /\ \A i, j \in 1 .. n + 1 : s[i] = s[j] => i = j
  BY <1>1, Entries DEF n
<1>3. /\ 1 \in 1 .. n + 1 /\ \A i \in 1 .. n : i + 1 \in 1 .. n + 1 /\ i + 1 # 1
      /\ \A i \in 1 .. n + 1 : i # 1 => i - 1 \in 1 .. n /\ (i - 1) + 1 = i
      /\ \A i, j \in 1 .. n : i + 1 = j + 1 => i = j
  BY <1>1
<1>4. IsInjective(t)
  BY <1>1, <1>2, <1>3
<1>5. ToSet(t) \subseteq ToSet(s) \ {h}
  BY <1>1, <1>2, <1>3
<1>6. ASSUME NEW x \in ToSet(s) \ {h} PROVE x \in ToSet(t)
  <2>1. PICK i \in 1 .. n + 1 : x = s[i]
    BY <1>2
  <2>2. i # 1
    BY <1>1, <1>6, <2>1
  <2>3. i - 1 \in 1 .. n /\ t[i - 1] = x
    BY <1>1, <1>3, <2>1, <2>2
  <2> QED BY <1>2, <2>3
<1>7. h \in ToSet(s)
  BY <1>1, <1>2, <1>3
<1>8. Len(t) = Len(s) - 1
  BY <1>1 DEF n
<1> QED BY <1>1, <1>4, <1>5, <1>6, <1>7, <1>8 DEF h, t

LEMMA ConcatOnce ==
  ASSUME NEW S, NEW s \in Seq(S), NEW t \in Seq(S)
  PROVE  /\ s \o t \in Seq(S) /\ ToSet(s \o t) = ToSet(s) \cup ToSet(t)
         /\ IsInjective(s) /\ IsInjective(t) /\ ToSet(s) \cap ToSet(t) = {}
              => IsInjective(s \o t)
<1> DEFINE c == s \o t
           m == Len(s)
           n == Len(t)
<1>1. /\ c \in Seq(S) /\ Len(c) = m + n /\ m \in Nat /\ n \in Nat
      /\ \A i \in 1 .. m + n : c[i] = IF i <= m THEN s[i] ELSE t[i - m]
  BY ConcatProperties, LenProperties
<1>s. /\ ToSet(s) = {s[i] : i \in 1 .. m}
      /\ IsInjective(s) <=> \A i, j \in 1 .. m : s[i] = s[j] => i = j
  BY Entries
<1>t. /\ ToSet(t) = {t[i] : i \in 1 .. n}
      /\ IsInjective(t) <=> \A i, j \in 1 .. n : t[i] = t[j] => i = j
  BY Entries
<1>c. /\ ToSet(c) = {c[i] : i \in 1 .. Len(c)}
      /\ IsInjective(c) <=> \A i, j \in 1 .. Len(c) : c[i] = c[j] => i = j
  <2> HIDE DEF c
  <2> QED BY <1>1, Entries
<1> HIDE DEF c, m, n
<1>3. /\ \A i \in 1 .. m : i \in 1 .. m + n /\ i <= m
      /\ \A i \in 1 .. n : m + i \in 1 .. m + n /\ ~(m + i <= m) /\ (m + i) - m = i
      /\ \A i \in 1 .. m + n : i <= m => i \in 1 .. m
      /\ \A i \in 1 .. m + n : ~(i <= m) => i - m \in 1 .. n
      /\ \A i, j \in 1 .. m + n : i - m = j - m => i = j
  BY <1>1
<1>4. /\ \A i \in 1 .. m : c[i] = s[i]
      /\ \A i \in 1 .. n : c[m + i] = t[i]
  BY <1>1, <1>3
<1>5. ASSUME NEW x \in ToSet(c) PROVE x \in ToSet(s) \cup ToSet(t)
  <2>1. PICK i \in 1 .. m + n : x = c[i]
    BY <1>1, <1>s, <1>t, <1>c
  <2>2. CASE i <= m
    BY <1>1, <1>s, <1>t, <1>c, <1>3, <2>1, <2>2
  <2>3. CASE ~(i <= m)
    BY <1>1, <1>s, <1>t, <1>c, <1>3, <2>1, <2>3
  <2> QED BY <2>2, <2>3
<1>6. ToSet(s) \subseteq ToSet(c) /\ ToSet(t) \subseteq ToSet(c)
  <2>1. ASSUME NEW i \in 1 .. m PROVE s[i] \in ToSet(c)
    BY <1>1, <1>s, <1>t, <1>c, <1>3, <1>4
  <2>2. ASSUME NEW i \in 1 .. n PROVE t[i] \in ToSet(c)
    BY <1>1, <1>s, <1>t, <1>c, <1>3, <1>4
  <2> QED BY <1>s, <1>t, <1>c, <2>1, <2>2
<1>7. ASSUME IsInjective(s), IsInjective(t), ToSet(s) \cap ToSet(t) = {},
             NEW i \in 1 .. m + n, NEW j \in 1 .. m + n, c[i] = c[j]
      PROVE  i = j
  <2>1. CASE i <= m /\ j <= m
    BY <1>1, <1>s, <1>t, <1>c, <1>3, <1>7, <2>1
  <2>2. CASE ~(i <= m) /\ ~(j <= m)
    BY <1>1, <1>s, <1>t, <1>c, <1>3, <1>7, <2>2
  <2>3. ASSUME NEW k \in 1 .. m + n, NEW l \in 1 .. m + n, k <= m, ~(l <= m)
        PROVE  c[k] # c[l]
    <3>1. c[k] \in ToSet(s) /\ c[l] \in ToSet(t)
      BY <1>1, <1>s, <1>t, <1>c, <1>3, <2>3
    <3> QED BY <1>7, <3>1
  <2> QED BY <1>7, <2>1, <2>2, <2>3
<1>8. c \in Seq(S) /\ ToSet(c) = ToSet(s) \cup ToSet(t)
  BY <1>1, <1>5, <1>6
<1>9. ASSUME IsInjective(s), IsInjective(t), ToSet(s) \cap ToSet(t) = {}
      PROVE  IsInjective(c)
  BY <1>1, <1>s, <1>t, <1>c, <1>7, <1>9
<1> QED BY <1>8, <1>9 DEF c

LEMMA PrefixOnce ==
  ASSUME NEW S, NEW s \in Seq(S), IsInjective(s), NEW n \in Nat, n <= Len(s)
  PROVE  /\ SubSeq(s, 1, n) \in Seq(S) /\ Len(SubSeq(s, 1, n)) = n
         /\ IsInjective(SubSeq(s, 1, n)) /\ ToSet(SubSeq(s, 1, n)) \subseteq ToSet(s)
<1> DEFINE p == SubSeq(s, 1, n)
<1>1. Len(s) \in Nat /\ \A i \in 1 .. n : i \in 1 .. Len(s) /\ s[i] \in S
  BY LenProperties, ElementOfSeq
<1>2. p \in Seq(S) /\ Len(p) = n /\ \A i \in 1 .. n : p[i] = s[i]
  <2>1. /\ p \in Seq(S) /\ Len(p) = IF 1 <= n THEN n - 1 + 1 ELSE 0
        /\ \A i \in 1 .. n - 1 + 1 : p[i] = s[1 + i - 1]
    BY <1>1, SubSeqProperties
  <2> HIDE DEF p
  <2> QED BY <2>1
<1> HIDE DEF p
<1>3. /\ ToSet(p) = {p[i] : i \in 1 .. n} /\ ToSet(s) = {s[i] : i \in 1 .. Len(s)}
      /\ IsInjective(p) <=> \A i, j \in 1 .. n : p[i] = p[j] => i = j
      /\ \A i, j \in 1 .. Len(s) : s[i] = s[j] => i = j
  BY <1>2, Entries
<1> QED BY <1>1, <1>2, <1>3 DEF p

(* A queue that has each entry once and not all of them. *)
LEMMA OnceFits ==
  ASSUME NEW S, IsFiniteSet(S), NEW s \in Seq(S), IsInjective(s),
         NEW e \in S, e \notin ToSet(s)
  PROVE  Len(s) < Cardinality(S)
<1> DEFINE n == Len(s)
           others == S \ {e}
<1>1. n \in Nat /\ DOMAIN s = 1 .. n /\ s \in [1 .. n -> S]
  BY LenProperties
<1>2. \A i \in 1 .. n : s[i] \in others
  BY <1>1, Entries
<1>3. s \in Injection(1 .. n, others)
  BY <1>1, <1>2 DEF Injection
<1>4. /\ IsFiniteSet(others) /\ Cardinality(others) = Cardinality(S) - 1
      /\ Cardinality(S) \in Nat
  BY FS_RemoveElement, FS_CardinalityType
<1> HIDE DEF n, others
<1>5. Cardinality(1 .. n) <= Cardinality(others)
  BY <1>3, <1>4, FS_Injection
<1>6. Cardinality(1 .. n) = IF 1 > n THEN 0 ELSE n - 1 + 1
  BY <1>1, FS_Interval
<1> QED BY <1>1, <1>4, <1>5, <1>6 DEF n

(* What SetToSeqs yields. *)
LEMMA OrderedOnce ==
  ASSUME NEW S, IsFiniteSet(S), NEW s \in SetToSeqs(S)
  PROVE  /\ s \in Seq(S) /\ IsInjective(s) /\ Len(s) = Cardinality(S)
         /\ ToSet(s) = S
<1> DEFINE n == Cardinality(S)
<1>1. n \in Nat
  BY FS_CardinalityType
<1>2. s \in [1 .. n -> S] /\ \A i, j \in 1 .. n : i # j => s[i] # s[j]
  BY DEF SetToSeqs
<1> HIDE DEF n
<1>3. s \in Seq(S)
  BY <1>1, <1>2, SeqDef
<1>4. Len(s) = n
  BY <1>1, <1>2, <1>3, LenProperties
<1>5. IsInjective(s)
  BY <1>2, <1>3, <1>4, Entries
<1>6. s \in Injection(1 .. n, S)
  BY <1>2, <1>5 DEF Injection
<1>7. Cardinality(1 .. n) = n
  <2>1. Cardinality(1 .. n) = IF 1 > n THEN 0 ELSE n - 1 + 1
    BY <1>1, FS_Interval
  <2> QED BY <1>1, <2>1
<1>8. s \in Surjection(1 .. n, S)
  BY <1>6, <1>7, FS_Injection DEF n
<1>9. \A x \in S : \E i \in 1 .. n : s[i] = x
  BY <1>8 DEF Surjection
<1>10. ToSet(s) = S
  <2>1. ToSet(s) = {s[i] : i \in 1 .. n} /\ ToSet(s) \subseteq S
    BY <1>3, <1>4, Entries
  <2> QED BY <1>9, <2>1
<1> QED BY <1>3, <1>4, <1>5, <1>10 DEF n
-----------------------------------------------------------------------------
(* A step that moves superpages from one place to another, or drops some.  *)
LEMMA Moved ==
  ASSUME NEW P, NEW Q, Apart(P), NEW a \in Place, NEW b \in Place, a # b,
         NEW X, X \subseteq P[a], Q[a] \subseteq P[a] \ X, Q[b] = P[b] \cup X,
         \A x \in Place : x # a /\ x # b => Q[x] = P[x]
  PROVE  Apart(Q) /\ (Q[a] = P[a] \ X => All(Q) = All(P))
<1>1. ASSUME NEW x \in Place, NEW y \in Place, x # y PROVE Q[x] \cap Q[y] = {}
  <2>1. P[x] \cap P[y] = {} /\ P[a] \cap P[x] \subseteq (IF x = a THEN P[a] ELSE {})
        /\ P[a] \cap P[y] \subseteq (IF y = a THEN P[a] ELSE {})
    BY <1>1 DEF Apart
  <2> QED BY <1>1, <2>1
<1>2. ASSUME Q[a] = P[a] \ X, NEW e \in All(P) PROVE e \in All(Q)
  <2>1. PICK x \in Place : e \in P[x]
    BY <1>2 DEF All
  <2>2. e \in Q[x] \/ e \in Q[b]
    BY <1>2, <2>1
  <2> QED BY <2>2 DEF All
<1>3. ASSUME NEW e \in All(Q) PROVE e \in All(P)
  <2>1. PICK x \in Place : e \in Q[x]
    BY <1>3 DEF All
  <2>2. e \in P[x] \/ e \in P[a]
    BY <2>1
  <2> QED BY <2>2 DEF All
<1> QED BY <1>1, <1>2, <1>3 DEF Apart

LEMMA Dropped ==
  ASSUME NEW P, NEW Q, Apart(P), \A x \in Place : Q[x] \subseteq P[x]
  PROVE  Apart(Q)
BY DEF Apart

LEMMA PlacesAre ==
  /\ Places["free"] = ToSet(freeQueue) /\ Places["readout"] = ToSet(readoutQueue)
  /\ Places["hand"] = ToSet(hand) /\ Places["ready"] = ToSet(Left)
  /\ Places["driver"] = inDriver
BY DEF Places

LEMMA PlacesAreNext ==
  /\ Places'["free"] = ToSet(freeQueue') /\ Places'["readout"] = ToSet(readoutQueue')
  /\ Places'["hand"] = ToSet(hand') /\ Places'["ready"] = ToSet(Left')
  /\ Places'["driver"] = inDriver'
BY DEF Places

LEMMA OptionTypes ==
  ASSUME options \in Options
  PROVE  Infinite \in BOOLEAN /\ Limit \in Nat /\ BufferFullCheck \in BOOLEAN
BY ConstantsAssumption DEF Infinite, Limit, BufferFullCheck

LEMMA CountTypes ==
  ASSUME options \in Options, NEW c \in Nat
  PROVE  Count(c) \in Nat /\ (~Infinite => Count(c) = c + 1)
BY OptionTypes DEF Count

LEMMA InitIInv == Init => IInv
<1> SUFFICES ASSUME Init PROVE IInv
  OBVIOUS
<1>1. /\ freeQueue \in Seq(Page) /\ IsInjective(freeQueue) /\ ToSet(freeQueue) = Page
      /\ Len(freeQueue) = Cardinality(Page)
  BY OrderedOnce, ConstantsAssumption DEF Init
<1>2. /\ Cardinality(Page) \in Nat /\ Cardinality({}) = 0 /\ TransferCap \in Nat
      /\ ReadyCap \in Nat
  BY FS_CardinalityType, FS_EmptySet, ConstantsAssumption
<1>3. <<>> \in Seq(Page) /\ Len(<<>>) = 0
  BY EmptySeq
<1>4. Left = <<>>
  BY DEF Init, Left
<1>5. TypeOK
  <2>1. freeQueue \in Seq(Page) /\ Len(freeQueue) <= SuperpagesInBuffer
    BY <1>1, <1>2 DEF SuperpagesInBuffer
  <2>2. /\ readoutQueue \in Seq(Page) /\ Len(readoutQueue) <= ReadoutRoom
        /\ readyQueue \in Seq(Page) /\ Len(readyQueue) <= ReadyCap /\ hand \in Seq(Page)
    BY <1>2, <1>3 DEF Init, SuperpagesInBuffer, ReadoutRoom
  <2>3. Cardinality(inDriver) <= TransferCap
    BY <1>2 DEF Init
  <2> QED BY <2>1, <2>2, <2>3 DEF Init, TypeOK
<1>6. ThreadInv
  BY DEF Init, ThreadInv
<1>7. NoneTwice
  BY <1>1, <1>4, EmptyOnce DEF Init, NoneTwice
<1>8. /\ Places["free"] = Page /\ \A x \in Place : x # "free" => Places[x] = {}
  BY <1>1, <1>4, EmptyOnce, PlacesAre DEF Init, Place
<1>9. Apart(Places) /\ All(Places) = Page
  BY <1>8 DEF Apart, All, Place
<1>10. CountsAgree
  BY <1>3 DEF Init, CountsAgree
<1> QED BY <1>5, <1>6, <1>7, <1>9, <1>10 DEF IInv, AllThere
-----------------------------------------------------------------------------
(* Steps of the threads that only look, or give an order to stop.          *)
LEMMA QuietKeeps ==
  ASSUME IInv, TypeOK', ThreadInv',
         UNCHANGED <<options, freeQueue, readoutQueue, hand, readyQueue, inDriver, countVars>>,
         (push = "pop") = (push' = "pop"),
         main' \in {"loop", "read"} => main \in {"loop", "read"},
         main \in {"drain", "end"} => main' \in {"drain", "end"}
  PROVE  IInv'
<1>1. Left' = Left
  BY DEF Left
<1>2. Places' = Places
  BY <1>1 DEF Places
<1>3. NoneTwice'
  BY <1>1 DEF IInv, NoneTwice
<1>4. Apart(Places)' /\ AllThere'
  BY <1>2 DEF IInv, AllThere, Apart, All, BufferFullCheck
<1>5. CountsAgree'
  BY DEF IInv, CountsAgree, BufferFullCheck, Infinite, countVars
<1> QED BY <1>3, <1>4, <1>5 DEF IInv

LEMMA QuietStep ==
  ASSUME IInv, UNCHANGED options,
         \/ CardFills \/ Interrupt \/ LowPriority \/ PushCheck \/ FillReturns \/ FillThrows
         \/ PushEnds \/ ReadyEnds \/ MainCheck \/ MainJoins \/ UNCHANGED vars
  PROVE  IInv'
<1>1. /\ UNCHANGED <<freeQueue, readoutQueue, hand, readyQueue, inDriver, countVars>>
      /\ (push = "pop") = (push' = "pop")
      /\ main' \in {"loop", "read"} => main \in {"loop", "read"}
      /\ main \in {"drain", "end"} => main' \in {"drain", "end"}
      /\ (main' = "read") = (main = "read")
      /\ threw' \subseteq threw \cup {"low", "push"}
  BY DEF CardFills, Interrupt, LowPriority, PushCheck, FillReturns, FillThrows, PushEnds,
         ReadyEnds, MainCheck, MainJoins, vars, queueVars, driverVars
<1>2. main' \in {"stop", "drain", "end"} => push' = "done"
  BY DEF CardFills, Interrupt, LowPriority, PushCheck, FillReturns, FillThrows, PushEnds,
         ReadyEnds, MainCheck, MainJoins, vars, IInv, ThreadInv
<1>3. ThreadInv'
  BY <1>1, <1>2 DEF IInv, ThreadInv
<1>4. /\ filled' \subseteq inDriver /\ mDmaLoopBreak' \in BOOLEAN /\ interrupted' \in BOOLEAN
      /\ push' \in {"check", "fill", "push", "ready", "pop", "done"}
      /\ main' \in {"loop", "read", "join", "stop", "drain", "end", "failed"}
      /\ low' \in {"run", "done"}
      /\ threw' \subseteq {"push", "main", "low", "freeQueue full"}
  BY DEF CardFills, Interrupt, LowPriority, PushCheck, FillReturns, FillThrows, PushEnds,
         ReadyEnds, MainCheck, MainJoins, vars, driverVars, IInv, TypeOK
<1>5. TypeOK'
  BY <1>1, <1>4 DEF IInv, TypeOK, countVars
<1> QED BY <1>1, <1>3, <1>5, QuietKeeps
-----------------------------------------------------------------------------
(* Steps that pass superpages on. *)
LEMMA MoveKeeps ==
  ASSUME IInv, TypeOK', ThreadInv', NoneTwice', CountsAgree', UNCHANGED options,
         main' \in {"loop", "read"} => main \in {"loop", "read"},
         NEW a \in Place, NEW b \in Place, a # b, NEW X, X \subseteq Places[a],
         Places'[a] = Places[a] \ X, Places'[b] = Places[b] \cup X,
         \A x \in Place : x # a /\ x # b => Places'[x] = Places[x]
  PROVE  IInv'
<1> DEFINE P == Places
           Q == Places'
<1>1. Apart(P)
  BY DEF IInv
<1>2. /\ Q[a] \subseteq P[a] \ X /\ Q[a] = P[a] \ X /\ Q[b] = P[b] \cup X /\ X \subseteq P[a]
      /\ \A x \in Place : x # a /\ x # b => Q[x] = P[x]
  OBVIOUS
<1>3. Apart(Q) /\ All(Q) = All(P)
  <2> HIDE DEF P, Q
  <2> QED BY <1>1, <1>2, Moved
<1>4. Apart(Places)' /\ All(Places)' = All(Places)
  BY <1>3 DEF Apart, All
<1>5. AllThere'
  BY <1>4 DEF IInv, AllThere, BufferFullCheck
<1> QED BY <1>4, <1>5 DEF IInv

LEMMA Finite ==
  ASSUME TypeOK
  PROVE  /\ IsFiniteSet(inDriver) /\ Cardinality(inDriver) \in Nat /\ TransferCap \in Nat
         /\ ReadyCap \in Nat /\ Cardinality(Page) \in Nat
BY FS_Subset, FS_CardinalityType, ConstantsAssumption DEF TypeOK

LEMMA FillKeeps ==
  ASSUME IInv, FillMoves, UNCHANGED options
  PROVE  IInv'
<1>1. PICK p \in filled : /\ readyQueue' = Append(readyQueue, p)
                          /\ filled' = filled \ {p} /\ inDriver' = inDriver \ {p}
  BY DEF FillMoves
<1>2. /\ push = "fill" /\ Len(readyQueue) < ReadyCap
      /\ UNCHANGED <<freeQueue, readoutQueue, mDmaLoopBreak, countVars, push, main, low, threw,
                     hand, interrupted>>
      /\ p \in inDriver /\ p \in Page /\ readyQueue \in Seq(Page)
  BY <1>1 DEF FillMoves, queueVars, IInv, TypeOK
<1>3. Left = readyQueue /\ Left' = readyQueue'
  BY <1>2 DEF Left
<1>4. p \notin ToSet(readyQueue)
  BY <1>2, <1>3, PlacesAre DEF IInv, Apart, Place
<1>5. /\ ToSet(readyQueue') = ToSet(readyQueue) \cup {p}
      /\ readyQueue' \in Seq(Page) /\ Len(readyQueue') = Len(readyQueue) + 1
      /\ Len(readyQueue) \in Nat
  BY <1>1, <1>2, AppendOnce, AppendProperties, LenProperties
<1>6. IsInjective(readyQueue')
  BY <1>1, <1>2, <1>3, <1>4, AppendOnce DEF IInv, NoneTwice
<1>7. Cardinality(inDriver') <= TransferCap /\ Len(readyQueue') <= ReadyCap
  <2>1. Cardinality(inDriver \ {p}) = Cardinality(inDriver) - 1
    BY <1>2, Finite, FS_RemoveElement DEF IInv
  <2>2. Cardinality(inDriver) <= TransferCap
    BY DEF IInv, TypeOK
  <2> QED BY <1>1, <1>2, <1>5, <2>1, <2>2, Finite DEF IInv
<1>8. filled' \subseteq inDriver' /\ inDriver' \subseteq Page
  BY <1>1 DEF IInv, TypeOK
<1>9. TypeOK'
  BY <1>2, <1>5, <1>7, <1>8 DEF IInv, TypeOK, countVars
<1>10. ThreadInv' /\ NoneTwice' /\ CountsAgree'
  BY <1>2, <1>3, <1>5, <1>6
     DEF IInv, ThreadInv, NoneTwice, CountsAgree, countVars, Infinite, BufferFullCheck
<1>11. /\ {p} \subseteq Places["driver"] /\ Places'["driver"] = Places["driver"] \ {p}
       /\ Places'["ready"] = Places["ready"] \cup {p}
       /\ \A x \in Place : x # "driver" /\ x # "ready" => Places'[x] = Places[x]
  BY <1>1, <1>2, <1>3, <1>5, PlacesAre, PlacesAreNext DEF Place
<1>12. "driver" \in Place /\ "ready" \in Place /\ "driver" # "ready"
  BY DEF Place
<1> QED BY <1>2, <1>9, <1>10, <1>11, <1>12, MoveKeeps

LEMMA PushKeeps ==
  ASSUME IInv, PushSuperpage, UNCHANGED options
  PROVE  IInv'
<1>1. PICK p : p = Head(freeQueue)
  OBVIOUS
<1>2. /\ push = "push" /\ Cardinality(inDriver) < TransferCap /\ freeQueue # <<>>
      /\ inDriver' = inDriver \cup {p} /\ freeQueue' = Tail(freeQueue)
      /\ UNCHANGED <<readoutQueue, mDmaLoopBreak, countVars, push, main, low, threw,
                     hand, interrupted, filled, readyQueue>>
      /\ freeQueue \in Seq(Page) /\ IsInjective(freeQueue)
      /\ Len(freeQueue) <= SuperpagesInBuffer
  BY <1>1 DEF PushSuperpage, IInv, TypeOK, NoneTwice
<1>3. /\ p \in Page /\ p \in ToSet(freeQueue) /\ freeQueue' \in Seq(Page)
      /\ IsInjective(freeQueue') /\ ToSet(freeQueue') = ToSet(freeQueue) \ {p}
      /\ Len(freeQueue') = Len(freeQueue) - 1
  BY <1>1, <1>2, TailOnce
<1>4. Left' = Left
  BY <1>2 DEF Left
<1>5. Cardinality(inDriver') <= TransferCap /\ Len(freeQueue') <= SuperpagesInBuffer
  <2>1. Cardinality(inDriver \cup {p}) <= Cardinality(inDriver) + 1
    BY Finite, FS_AddElement DEF IInv
  <2>2. Len(freeQueue) \in Nat
    BY <1>2, LenProperties
  <2>3. Cardinality(inDriver \cup {p}) \in Nat
    BY <1>3, Finite, FS_AddElement, FS_CardinalityType DEF IInv
  <2> QED BY <1>2, <1>3, <2>1, <2>2, <2>3, Finite DEF IInv, SuperpagesInBuffer
<1>6. filled' \subseteq inDriver' /\ inDriver' \subseteq Page
  BY <1>2, <1>3 DEF IInv, TypeOK
<1>7. TypeOK'
  BY <1>2, <1>3, <1>5, <1>6 DEF IInv, TypeOK, countVars
<1>8. ThreadInv' /\ NoneTwice' /\ CountsAgree'
  BY <1>2, <1>3, <1>4
     DEF IInv, ThreadInv, NoneTwice, CountsAgree, countVars, Infinite, BufferFullCheck
<1>9. /\ {p} \subseteq Places["free"] /\ Places'["free"] = Places["free"] \ {p}
      /\ Places'["driver"] = Places["driver"] \cup {p}
      /\ \A x \in Place : x # "free" /\ x # "driver" => Places'[x] = Places[x]
  BY <1>2, <1>3, <1>4, PlacesAre, PlacesAreNext DEF Place
<1>10. "driver" \in Place /\ "free" \in Place /\ "driver" # "free"
  BY DEF Place
<1> QED BY <1>2, <1>7, <1>8, <1>9, <1>10, MoveKeeps

(* readoutQueue.write() never fails: a superpage that is counted as pushed *)
(* is there to be read out.                                                *)
LEMMA ReadyWriteFits ==
  ASSUME IInv, push = "ready", readyQueue # <<>>
  PROVE  /\ Len(readoutQueue) < ReadoutRoom /\ Head(readyQueue) \in Page
         /\ Head(readyQueue) \notin ToSet(readoutQueue)
         /\ Head(readyQueue) \in ToSet(readyQueue)
<1>1. /\ push = "ready" /\ readyQueue # <<>> /\ readyQueue \in Seq(Page)
      /\ readoutQueue \in Seq(Page) /\ IsInjective(readoutQueue)
  BY DEF IInv, TypeOK, NoneTwice
<1>2. Left = readyQueue
  BY <1>1 DEF Left
<1>3. Head(readyQueue) \in ToSet(readyQueue) /\ Head(readyQueue) \in Page
  BY <1>1, <1>2, TailOnce DEF IInv, NoneTwice
<1>4. ToSet(readyQueue) \cap ToSet(readoutQueue) = {}
  BY <1>2, PlacesAre DEF IInv, Apart, Place
<1>5. Head(readyQueue) \notin ToSet(readoutQueue)
  BY <1>3, <1>4
<1>6. Len(readoutQueue) < Cardinality(Page)
  BY <1>1, <1>3, <1>5, OnceFits, ConstantsAssumption
<1> QED BY <1>3, <1>5, <1>6 DEF ReadoutRoom, SuperpagesInBuffer

LEMMA ReadyWriteKeeps ==
  ASSUME IInv, ReadyWrite, UNCHANGED options
  PROVE  IInv'
<1>1. PICK p : p = Head(readyQueue)
  OBVIOUS
<1>2. /\ Len(readoutQueue) < ReadoutRoom /\ p \in Page /\ p \notin ToSet(readoutQueue)
      /\ p \in ToSet(readyQueue)
  BY <1>1, ReadyWriteFits DEF ReadyWrite
<1>3. /\ push = "ready" /\ readyQueue # <<>> /\ readyQueue \in Seq(Page) /\ push' = "pop"
      /\ readoutQueue \in Seq(Page) /\ readoutQueue' = Append(readoutQueue, p)
      /\ superpagesPushed' = Count(superpagesPushed) /\ mDmaLoopBreak' \in BOOLEAN
      /\ UNCHANGED <<freeQueue, superpagesReadOut, main, low, threw, hand, interrupted,
                     inDriver, filled, readyQueue>>
  BY <1>1, <1>2 DEF ReadyWrite, driverVars, IInv, TypeOK
<1>4. Left = readyQueue /\ Left' = Tail(readyQueue)
  BY <1>3 DEF Left
<1>5. /\ ToSet(Left') = ToSet(Left) \ {p} /\ IsInjective(Left')
  BY <1>1, <1>3, <1>4, TailOnce DEF IInv, NoneTwice
<1>6. /\ ToSet(readoutQueue') = ToSet(readoutQueue) \cup {p}
      /\ IsInjective(readoutQueue') /\ readoutQueue' \in Seq(Page)
      /\ Len(readoutQueue') = Len(readoutQueue) + 1 /\ Len(readoutQueue) \in Nat
  BY <1>2, <1>3, AppendOnce, AppendProperties, LenProperties DEF IInv, NoneTwice
<1>7. /\ superpagesPushed' \in Nat /\ superpagesPushed \in Nat /\ superpagesReadOut \in Nat
      /\ ~Infinite => superpagesPushed' = superpagesPushed + 1
  BY <1>3, CountTypes DEF IInv, TypeOK, ThreadInv
<1>8. Len(readoutQueue') <= ReadoutRoom
  BY <1>2, <1>6, Finite DEF IInv, ReadoutRoom, SuperpagesInBuffer
<1>9. TypeOK'
  BY <1>3, <1>6, <1>7, <1>8 DEF IInv, TypeOK, ReadoutRoom, SuperpagesInBuffer
<1>10. ThreadInv'
  BY <1>3 DEF IInv, ThreadInv
<1>11. NoneTwice'
  BY <1>3, <1>5, <1>6 DEF IInv, NoneTwice
<1>12. CountsAgree'
  BY <1>3, <1>6, <1>7 DEF IInv, CountsAgree, Infinite, BufferFullCheck
<1>13. /\ {p} \subseteq Places["ready"] /\ Places'["ready"] = Places["ready"] \ {p}
       /\ Places'["readout"] = Places["readout"] \cup {p}
       /\ \A x \in Place : x # "ready" /\ x # "readout" => Places'[x] = Places[x]
  BY <1>2, <1>3, <1>4, <1>5, <1>6, PlacesAre, PlacesAreNext DEF Place
<1>14. "ready" \in Place /\ "readout" \in Place /\ "ready" # "readout"
  BY DEF Place
<1> QED BY <1>3, <1>9, <1>10, <1>11, <1>12, <1>13, <1>14, MoveKeeps

LEMMA ReadyPopKeeps ==
  ASSUME IInv, ReadyPop, UNCHANGED options
  PROVE  IInv'
<1>1. /\ push = "pop" /\ push' = "ready" /\ readyQueue' = Tail(readyQueue)
      /\ readyQueue # <<>> /\ readyQueue \in Seq(Page)
      /\ UNCHANGED <<queueVars, mDmaLoopBreak, countVars, main, low, threw, hand, interrupted,
                     inDriver, filled>>
  BY DEF ReadyPop, IInv, ThreadInv, TypeOK
<1>2. Left' = Left
  BY <1>1 DEF Left
<1>3. Places' = Places
  BY <1>1, <1>2 DEF Places, queueVars
<1>4. readyQueue' \in Seq(Page) /\ Len(readyQueue') <= ReadyCap
  <2>1. readyQueue' \in Seq(Page) /\ Len(readyQueue') = Len(readyQueue) - 1
    BY <1>1, HeadTailProperties
  <2>2. Len(readyQueue) \in Nat /\ Len(readyQueue) <= ReadyCap
    BY <1>1, LenProperties DEF IInv, TypeOK
  <2> QED BY <2>1, <2>2, Finite DEF IInv
<1>5. TypeOK'
  BY <1>1, <1>4 DEF IInv, TypeOK, queueVars, countVars
<1>6. ThreadInv'
  BY <1>1 DEF IInv, ThreadInv
<1>7. NoneTwice'
  BY <1>1, <1>2 DEF IInv, NoneTwice, queueVars
<1>8. Apart(Places)' /\ AllThere'
  BY <1>1, <1>3 DEF IInv, AllThere, Apart, All, BufferFullCheck
<1>9. CountsAgree'
  BY <1>1 DEF IInv, CountsAgree, BufferFullCheck, Infinite, countVars, queueVars
<1> QED BY <1>5, <1>6, <1>7, <1>8, <1>9 DEF IInv
-----------------------------------------------------------------------------
(* Steps after which a superpage is in no place any more: the readout is   *)
(* over, or it was the buffer-full check.                                  *)
LEMMA DropKeeps ==
  ASSUME IInv, TypeOK', ThreadInv', NoneTwice', CountsAgree', AllThere',
         \A x \in Place : Places'[x] \subseteq Places[x]
  PROVE  IInv'
<1> DEFINE P == Places
           Q == Places'
<1>1. Apart(P) /\ \A x \in Place : Q[x] \subseteq P[x]
  BY DEF IInv
<1>2. Apart(Q)
  <2> HIDE DEF P, Q
  <2> QED BY <1>1, Dropped
<1>3. Apart(Places)'
  BY <1>2 DEF Apart
<1> QED BY <1>3 DEF IInv

LEMMA ReadKeeps ==
  ASSUME IInv, MainRead, UNCHANGED options
  PROVE  IInv'
<1>1. PICK p : p = Head(readoutQueue)
  OBVIOUS
<1>2. /\ main = "loop" /\ readoutQueue # <<>> /\ readoutQueue' = Tail(readoutQueue)
      /\ UNCHANGED <<freeQueue, mDmaLoopBreak, superpagesPushed, push, low, threw, interrupted,
                     inDriver, filled, readyQueue>>
      /\ readoutQueue \in Seq(Page) /\ hand = <<>>
  BY DEF MainRead, driverVars, IInv, TypeOK, ThreadInv
<1>3. /\ p \in Page /\ p \in ToSet(readoutQueue) /\ readoutQueue' \in Seq(Page)
      /\ IsInjective(readoutQueue') /\ ToSet(readoutQueue') = ToSet(readoutQueue) \ {p}
      /\ Len(readoutQueue') = Len(readoutQueue) - 1
  BY <1>1, <1>2, TailOnce DEF IInv, NoneTwice
<1>4. Len(readoutQueue) \in Nat /\ Len(readoutQueue') <= ReadoutRoom
  <2>1. Len(readoutQueue) \in Nat /\ Len(readoutQueue) <= ReadoutRoom
    BY <1>2, LenProperties DEF IInv, TypeOK
  <2> QED BY <1>3, <2>1, Finite DEF IInv, ReadoutRoom, SuperpagesInBuffer
<1>5. Left' = Left
  BY <1>2 DEF Left
<1>6. NoneTwice'
  BY <1>2, <1>3, <1>5 DEF IInv, NoneTwice
<1>7. CASE BufferFullCheck
  <2>1. UNCHANGED <<superpagesReadOut, hand, main>>
    BY <1>7 DEF MainRead
  <2>2. TypeOK'
    BY <1>2, <1>3, <1>4, <2>1 DEF IInv, TypeOK, ReadoutRoom, SuperpagesInBuffer
  <2>3. ThreadInv' /\ CountsAgree' /\ AllThere'
    BY <1>2, <1>7, <2>1 DEF IInv, ThreadInv, CountsAgree, AllThere, BufferFullCheck
  <2>4. \A x \in Place : Places'[x] \subseteq Places[x]
    BY <1>2, <1>3, <1>5, <2>1, PlacesAre, PlacesAreNext DEF Place
  <2> QED BY <1>6, <2>2, <2>3, <2>4, DropKeeps
<1>8. CASE ~BufferFullCheck
  <2>1. superpagesReadOut' = Count(superpagesReadOut) /\ hand' = <<p>> /\ main' = "read"
    BY <1>1, <1>8 DEF MainRead
  <2>2. hand' \in Seq(Page) /\ hand' # <<>> /\ ToSet(hand') = {p} /\ ToSet(hand) = {}
    BY <1>2, <1>3, <2>1, SingleOnce, EmptyOnce
  <2>3. /\ superpagesReadOut' \in Nat /\ superpagesPushed \in Nat /\ superpagesReadOut \in Nat
        /\ ~Infinite => superpagesReadOut' = superpagesReadOut + 1
    BY <2>1, CountTypes DEF IInv, TypeOK, ThreadInv
  <2>4. TypeOK'
    BY <1>2, <1>3, <1>4, <2>1, <2>2, <2>3 DEF IInv, TypeOK, ReadoutRoom, SuperpagesInBuffer
  <2>5. ThreadInv'
    BY <1>2, <1>3, <2>1, <2>2 DEF IInv, ThreadInv
  <2>6. CountsAgree'
    BY <1>2, <1>3, <1>4, <1>8, <2>1, <2>3 DEF IInv, CountsAgree, BufferFullCheck, Infinite
  <2>7. /\ {p} \subseteq Places["readout"] /\ Places'["readout"] = Places["readout"] \ {p}
        /\ Places'["hand"] = Places["hand"] \cup {p}
        /\ \A x \in Place : x # "readout" /\ x # "hand" => Places'[x] = Places[x]
    BY <1>2, <1>3, <1>5, <2>2, PlacesAre, PlacesAreNext DEF Place
  <2>8. "readout" \in Place /\ "hand" \in Place /\ "readout" # "hand"
    BY DEF Place
  <2> QED BY <1>2, <1>6, <2>4, <2>5, <2>6, <2>7, <2>8, MoveKeeps
<1> QED BY <1>7, <1>8

LEMMA HandedBack ==
  ASSUME IInv, MainReturn, UNCHANGED options, Len(freeQueue) < SuperpagesInBuffer
  PROVE  IInv'
<1>1. PICK p \in Page : hand = <<p>>
  BY DEF MainReturn, IInv, ThreadInv
<1>2. /\ main = "read" /\ hand' = <<>> /\ freeQueue' = freeQueue \o hand /\ main' = "loop"
      /\ UNCHANGED <<readoutQueue, countVars, mDmaLoopBreak, push, low, threw, interrupted,
                     inDriver, filled, readyQueue>>
  BY DEF MainReturn, driverVars
<1>3. /\ ToSet(hand) = {p} /\ IsInjective(hand) /\ hand \in Seq(Page) /\ Len(hand) = 1
      /\ ToSet(hand') = {} /\ hand' \in Seq(Page)
  BY <1>1, <1>2, SingleOnce, EmptyOnce, EmptySeq
<1>4. freeQueue \in Seq(Page) /\ IsInjective(freeQueue) /\ ToSet(freeQueue) \cap ToSet(hand) = {}
  BY PlacesAre DEF IInv, TypeOK, NoneTwice, Apart, Place
<1>5. /\ freeQueue' \in Seq(Page) /\ ToSet(freeQueue') = ToSet(freeQueue) \cup ToSet(hand)
      /\ IsInjective(freeQueue')
  BY <1>2, <1>3, <1>4, ConcatOnce
<1>6. Len(freeQueue') <= SuperpagesInBuffer
  <2>1. Len(freeQueue \o hand) = Len(freeQueue) + Len(hand)
    BY <1>3, <1>4, ConcatProperties
  <2>2. Len(freeQueue) \in Nat /\ Cardinality(Page) \in Nat
    BY <1>4, LenProperties, Finite DEF IInv
  <2> QED BY <1>2, <1>3, <2>1, <2>2 DEF SuperpagesInBuffer
<1>7. Left' = Left
  BY <1>2 DEF Left
<1>8. TypeOK'
  BY <1>2, <1>3, <1>5, <1>6 DEF IInv, TypeOK, countVars, ReadoutRoom, SuperpagesInBuffer
<1>9. ThreadInv' /\ NoneTwice' /\ CountsAgree'
  BY <1>2, <1>5, <1>7
     DEF IInv, ThreadInv, NoneTwice, CountsAgree, countVars, Infinite, BufferFullCheck
<1>10. /\ {p} \subseteq Places["hand"] /\ Places'["hand"] = Places["hand"] \ {p}
       /\ Places'["free"] = Places["free"] \cup {p}
       /\ \A x \in Place : x # "free" /\ x # "hand" => Places'[x] = Places[x]
  BY <1>2, <1>3, <1>5, <1>7, PlacesAre, PlacesAreNext DEF Place
<1>11. "free" \in Place /\ "hand" \in Place /\ "hand" # "free"
  BY DEF Place
<1> QED BY <1>2, <1>8, <1>9, <1>10, <1>11, MoveKeeps

(* The superpage in hand always fits back. *)
LEMMA FreeQueueHasRoom ==
  ASSUME IInv, main = "read"
  PROVE  Len(freeQueue) < SuperpagesInBuffer
<1>1. PICK p \in Page : hand = <<p>>
  BY DEF IInv, ThreadInv
<1>2. freeQueue \in Seq(Page) /\ IsInjective(freeQueue) /\ ToSet(freeQueue) \cap ToSet(hand) = {}
  BY PlacesAre DEF IInv, TypeOK, NoneTwice, Apart, Place
<1>3. p \notin ToSet(freeQueue)
  BY <1>1, <1>2, SingleOnce
<1> QED BY <1>2, <1>3, OnceFits, ConstantsAssumption DEF SuperpagesInBuffer

LEMMA ThrowKeeps ==
  ASSUME IInv, UNCHANGED options, MainThrows
  PROVE  IInv'
<1>1. /\ main = "read" /\ hand' = <<>> /\ main' = "join" /\ mDmaLoopBreak' = TRUE
      /\ threw' = threw \cup {"main"}
      /\ UNCHANGED <<queueVars, countVars, push, low, interrupted, inDriver, filled, readyQueue>>
  BY DEF MainThrows, driverVars
<1>2. Left' = Left
  BY <1>1 DEF Left
<1>3. ToSet(hand') = {} /\ hand' \in Seq(Page)
  BY <1>1, EmptyOnce, EmptySeq
<1>4. threw' \subseteq {"push", "main", "low", "freeQueue full"}
  BY <1>1 DEF IInv, TypeOK
<1>5. TypeOK'
  BY <1>1, <1>3, <1>4 DEF IInv, TypeOK, queueVars, countVars
<1>6. ThreadInv' /\ NoneTwice' /\ CountsAgree' /\ AllThere'
  BY <1>1, <1>2
     DEF IInv, ThreadInv, NoneTwice, CountsAgree, AllThere, countVars, queueVars, Infinite,
         BufferFullCheck
<1>7. \A x \in Place : Places'[x] \subseteq Places[x]
  BY <1>1, <1>2, <1>3, PlacesAre, PlacesAreNext DEF Place, queueVars
<1> QED BY <1>5, <1>6, <1>7, DropKeeps

(* stopDma(): superpages the driver has left go to the ready queue as long *)
(* as there is room.                                                       *)
LEMMA StopKeeps ==
  ASSUME IInv, StopDma, UNCHANGED options
  PROVE  IInv'
<1>1. PICK s \in SetToSeqs(inDriver) : \E n \in 0 .. Cardinality(Page) :
        n <= Len(s) /\ Len(readyQueue) + n <= ReadyCap
        /\ readyQueue' = readyQueue \o SubSeq(s, 1, n)
  BY DEF StopDma
<1>2. PICK n \in 0 .. Cardinality(Page) :
        n <= Len(s) /\ Len(readyQueue) + n <= ReadyCap
        /\ readyQueue' = readyQueue \o SubSeq(s, 1, n)
  BY <1>1
<1>3. /\ main = "stop" /\ push = "done" /\ main' \in {"drain", "end"}
      /\ inDriver' = {} /\ filled' = {}
      /\ UNCHANGED <<queueVars, mDmaLoopBreak, countVars, push, low, threw, hand, interrupted>>
      /\ readyQueue \in Seq(Page) /\ inDriver \subseteq Page /\ IsFiniteSet(inDriver)
  BY Finite DEF StopDma, IInv, ThreadInv, TypeOK
<1>4. Left = readyQueue /\ Left' = readyQueue'
  BY <1>3 DEF Left
<1> DEFINE x == SubSeq(s, 1, n)
<1>5. s \in Seq(inDriver) /\ IsInjective(s) /\ ToSet(s) = inDriver
  BY <1>3, OrderedOnce
<1>6. n \in Nat
  BY Finite DEF IInv
<1>7. x \in Seq(inDriver) /\ Len(x) = n /\ IsInjective(x) /\ ToSet(x) \subseteq inDriver
  BY <1>2, <1>5, <1>6, PrefixOnce
<1>8. readyQueue' = readyQueue \o x
  BY <1>2
<1> HIDE DEF x
<1>9. x \in Seq(Page)
  BY <1>3, <1>7, SeqMonotonic
<1>10. ToSet(readyQueue) \cap ToSet(x) = {}
  BY <1>4, <1>7, PlacesAre DEF IInv, Apart, Place
<1>11. /\ readyQueue' \in Seq(Page) /\ ToSet(readyQueue') = ToSet(readyQueue) \cup ToSet(x)
       /\ IsInjective(readyQueue')
  BY <1>3, <1>4, <1>7, <1>8, <1>9, <1>10, ConcatOnce DEF IInv, NoneTwice
<1>12. Len(readyQueue') <= ReadyCap
  BY <1>2, <1>3, <1>7, <1>8, <1>9, ConcatProperties
<1>13. Cardinality({}) = 0 /\ 0 <= TransferCap
  BY FS_EmptySet, Finite DEF IInv
<1>14. TypeOK'
  BY <1>3, <1>11, <1>12, <1>13 DEF IInv, TypeOK, queueVars, countVars
<1>15. ThreadInv' /\ NoneTwice' /\ CountsAgree' /\ AllThere'
  BY <1>3, <1>4, <1>11 DEF IInv, ThreadInv, NoneTwice, CountsAgree, AllThere, queueVars
<1>16. Apart(Places)'
  <2> DEFINE P == Places
             Q == Places'
  <2>1. Apart(P)
    BY DEF IInv
  <2>2. /\ ToSet(x) \subseteq P["driver"] /\ Q["driver"] \subseteq P["driver"] \ ToSet(x)
        /\ Q["ready"] = P["ready"] \cup ToSet(x)
        /\ \A a \in Place : a # "driver" /\ a # "ready" => Q[a] = P[a]
    BY <1>3, <1>4, <1>7, <1>11, PlacesAre, PlacesAreNext DEF Place, queueVars
  <2>3. "driver" \in Place /\ "ready" \in Place /\ "driver" # "ready"
    BY DEF Place
  <2>4. Apart(Q)
    <3> HIDE DEF P, Q
    <3> QED BY <2>1, <2>2, <2>3, Moved
  <2> QED BY <2>4 DEF Apart
<1> QED BY <1>14, <1>15, <1>16 DEF IInv

LEMMA DrainKeeps ==
  ASSUME IInv, FreeExcessPages, UNCHANGED options
  PROVE  IInv'
<1>1. /\ main = "drain" /\ push = "done" /\ readyQueue' = <<>> /\ main' = "end"
      /\ superpagesReadOut' = IF Infinite THEN 0 ELSE superpagesReadOut + Len(readyQueue)
      /\ UNCHANGED <<queueVars, mDmaLoopBreak, superpagesPushed, push, low, threw, hand,
                     interrupted, inDriver, filled>>
  BY DEF FreeExcessPages, IInv, ThreadInv
<1>2. Left = readyQueue /\ Left' = <<>>
  BY <1>1 DEF Left
<1>3. superpagesReadOut' \in Nat
  <2>1. Len(readyQueue) \in Nat /\ superpagesReadOut \in Nat
    BY LenProperties DEF IInv, TypeOK
  <2> QED BY <1>1, <2>1
<1>4. readyQueue' \in Seq(Page) /\ Len(readyQueue') <= ReadyCap
  BY <1>1, EmptySeq, Finite DEF IInv
<1>5. TypeOK'
  BY <1>1, <1>3, <1>4 DEF IInv, TypeOK, queueVars
<1>6. ThreadInv' /\ NoneTwice' /\ CountsAgree' /\ AllThere'
  BY <1>1, <1>2, EmptyOnce DEF IInv, ThreadInv, NoneTwice, CountsAgree, AllThere, queueVars
<1>7. \A x \in Place : Places'[x] \subseteq Places[x]
  BY <1>1, <1>2, EmptyOnce, PlacesAre, PlacesAreNext DEF Place, queueVars
<1> QED BY <1>5, <1>6, <1>7, DropKeeps
-----------------------------------------------------------------------------
LEMMA NextIInv == IInv /\ [Next]_vars => IInv'
<1> SUFFICES ASSUME IInv, [Next]_vars PROVE IInv'
  OBVIOUS
<1>1. UNCHANGED options
  BY DEF Next, Done, vars
<1>2. CASE \/ CardFills \/ Interrupt \/ LowPriority \/ PushCheck \/ FillReturns \/ FillThrows
           \/ PushEnds \/ ReadyEnds \/ MainCheck \/ MainJoins \/ UNCHANGED vars
  BY <1>1, <1>2, QuietStep
<1>3. CASE FillMoves
  BY <1>1, <1>3, FillKeeps
<1>4. CASE PushSuperpage
  BY <1>1, <1>4, PushKeeps
<1>5. CASE ReadyWrite
  BY <1>1, <1>5, ReadyWriteKeeps
<1>6. CASE ReadyPop
  BY <1>1, <1>6, ReadyPopKeeps
<1>7. CASE MainRead
  BY <1>1, <1>7, ReadKeeps
<1>8. CASE MainReturn
  <2>1. main = "read"
    BY <1>8 DEF MainReturn
  <2> QED BY <1>1, <1>8, <2>1, FreeQueueHasRoom, HandedBack
<1>9. CASE MainThrows
  BY <1>1, <1>9, ThrowKeeps
<1>10. CASE StopDma
  BY <1>1, <1>10, StopKeeps
<1>11. CASE FreeExcessPages
  BY <1>1, <1>11, DrainKeeps
<1> QED BY <1>2, <1>3, <1>4, <1>5, <1>6, <1>7, <1>8, <1>9, <1>10, <1>11
        DEF Next, PushThread, MainThread, Done

THEOREM Invariance == Spec => []IInv
<1>1. Init => IInv
  BY InitIInv
<1>2. IInv /\ [Next]_vars => IInv'
  BY NextIInv
<1> QED BY <1>1, <1>2, PTL DEF Spec

(* The queues of the bench and of the driver stay within their capacities, *)
(* and the driver has no more superpages than its transfer queue takes.    *)
THEOREM TypeCorrect == Spec => []TypeOK
<1>1. IInv => TypeOK
  BY DEF IInv
<1> QED BY <1>1, Invariance, PTL

(* Neither write between the queues is ever refused, so "something went    *)
(* horribly wrong" is never thrown and no superpage is dropped by one.     *)
WritesFit ==
  /\ "freeQueue full" \notin threw
  /\ main = "read" => Len(freeQueue) < SuperpagesInBuffer
  /\ push = "ready" /\ readyQueue # <<>> => Len(readoutQueue) < ReadoutRoom

THEOREM QueuesHaveRoom == Spec => []WritesFit
<1>1. IInv => WritesFit
  BY FreeQueueHasRoom, ReadyWriteFits DEF IInv, ThreadInv, WritesFit
<1> QED BY <1>1, Invariance, PTL

LEMMA QueuedOnce ==
  ASSUME IInv
  PROVE  /\ IsInjective(Queued)
         /\ ToSet(Queued) = ToSet(freeQueue) \cup ToSet(readoutQueue) \cup ToSet(hand)
                            \cup ToSet(Left)
<1> DEFINE a == freeQueue \o readoutQueue
           b == a \o hand
<1>1. /\ freeQueue \in Seq(Page) /\ readoutQueue \in Seq(Page) /\ hand \in Seq(Page)
      /\ IsInjective(freeQueue) /\ IsInjective(readoutQueue) /\ IsInjective(Left)
  BY DEF IInv, TypeOK, NoneTwice
<1>2. Left \in Seq(Page)
  BY HeadTailProperties DEF IInv, TypeOK, ThreadInv, Left
<1>3. IsInjective(hand)
  BY EmptyOnce, SingleOnce DEF IInv, ThreadInv
<1>4. /\ ToSet(freeQueue) \cap ToSet(readoutQueue) = {}
      /\ (ToSet(freeQueue) \cup ToSet(readoutQueue)) \cap ToSet(hand) = {}
      /\ (ToSet(freeQueue) \cup ToSet(readoutQueue) \cup ToSet(hand)) \cap ToSet(Left) = {}
  BY PlacesAre DEF IInv, Apart, Place
<1>5. Queued = b \o Left
  BY DEF Queued, Left
<1>6. /\ a \in Seq(Page) /\ IsInjective(a)
      /\ ToSet(a) = ToSet(freeQueue) \cup ToSet(readoutQueue)
  BY <1>1, <1>4, ConcatOnce
<1> HIDE DEF a
<1>7. b \in Seq(Page) /\ IsInjective(b) /\ ToSet(b) = ToSet(a) \cup ToSet(hand)
  BY <1>1, <1>3, <1>4, <1>6, ConcatOnce
<1> HIDE DEF b
<1>8. IsInjective(b \o Left) /\ ToSet(b \o Left) = ToSet(b) \cup ToSet(Left)
  BY <1>1, <1>2, <1>4, <1>6, <1>7, ConcatOnce
<1> QED BY <1>5, <1>6, <1>7, <1>8

(* The superpages circulate without loss or double, and what is counted as *)
(* pushed and not as read out is what waits between the two threads.       *)
THEOREM BenchKeepsItsBooks == Spec => []BooksBalance
<1>1. ASSUME IInv PROVE EachPageHeldOnce
  <2>1. IsInjective(Queued)
    BY <1>1, QueuedOnce
  <2>2. ToSet(Queued) \cap inDriver = {}
    BY <1>1, QueuedOnce, PlacesAre DEF IInv, Apart, Place
  <2>3. ToSet(Queued) \cup inDriver = All(Places)
    BY <1>1, QueuedOnce, PlacesAre DEF All, Place
  <2> QED BY <1>1, <2>1, <2>2, <2>3 DEF IInv, AllThere, EachPageHeldOnce
<1>2. IInv => BooksBalance
  BY <1>1 DEF IInv, BooksBalance
<1> QED BY <1>2, Invariance, PTL
=============================================================================
