---------------------------- MODULE CardPartsProofs ----------------------------
(***************************************************************************)
(* Proofs about the parts of a card: of a CRU the sticky bits, the trigger *)
(* counters, the channel's health checks, the loopback test, the CTP       *)
(* emulator, the pattern player, the calibration and the clock; of both    *)
(* cards the buffers of a DMA channel and the checks of the pages in them. *)
(* (Those of a C-RORC alone are in CrorcProofs.)  The parts share no state *)
(* so each has an inductive invariant of its own, kept by the steps of     *)
(* that part, and a step of the card is a step or a stutter of it.         *)
(***************************************************************************)
EXTENDS CardParts, SequenceTheorems, WellFoundedInduction, TLAPS

-----------------------------------------------------------------------------
(* The sticky bits: a reporter that clears the latch of a GBT link has     *)
(* read it set, and will tell.                                             *)
StickyTypeOK ==
  /\ up \subseteq Lines /\ untold \subseteq Lines /\ latch \in [Lines -> BOOLEAN]
  /\ telling \in [Reporters -> [step : {"idle", "clear", "again"}, latch : Lines, was : BOOLEAN]]

StickyInv ==
  /\ StickyTypeOK
  /\ \A r \in Reporters : telling[r].step = "clear" /\ telling[r].latch = "gbt" => telling[r].was
  /\ NoGlitchUntold

LEMMA StickyInitial == StickyInit => StickyInv
BY DEF StickyInit, StickyInv, StickyTypeOK, Silent, Lines, NoGlitchUntold

WillTell(r, l) == telling[r].latch = l /\ telling[r].was /\ telling[r].step = "again"

LEMMA StickyStep == StickyInv /\ [StickyNext]_stickyVars => StickyInv'
<1> SUFFICES ASSUME StickyInv, [StickyNext]_stickyVars
             PROVE  StickyInv'
  OBVIOUS
<1>1. /\ StickyTypeOK /\ "gbt" \notin missed
      /\ \A r \in Reporters : telling[r].step = "clear" /\ telling[r].latch = "gbt" => telling[r].was
      /\ \A l \in untold \ missed : latch[l] \/ \E r \in Reporters : WillTell(r, l)
  BY DEF StickyInv, NoGlitchUntold, WillTell
<1> USE DEF Lines
<1>2. ASSUME NEW line \in Lines, GoDown(line) \/ GoUp(line)
      PROVE  StickyInv'
  <2>1. UNCHANGED <<telling, missed>> /\ untold' \subseteq untold \cup {line} /\ up' \subseteq Lines
    BY <1>1, <1>2 DEF GoDown, GoUp, StickyTypeOK
  <2>2. /\ latch' \in [Lines -> BOOLEAN] /\ \A l \in Lines : latch[l] => latch'[l]
        /\ line \in untold' => line \in untold \/ latch'[line]
    <3>1. CASE GoDown(line)
      <4>1. latch' = [latch EXCEPT ![line] = TRUE] /\ latch \in [Lines -> BOOLEAN]
        BY <1>1, <3>1 DEF GoDown, StickyTypeOK
      <4> QED BY <4>1
    <3>2. CASE GoUp(line)
      BY <1>1, <3>2 DEF GoUp, StickyTypeOK
    <3> QED BY <1>2, <3>1, <3>2
  <2>3. StickyTypeOK'
    BY <1>1, <2>1, <2>2 DEF StickyTypeOK
  <2>4. ASSUME NEW m \in untold' \ missed'
        PROVE  latch'[m] \/ \E q \in Reporters : WillTell(q, m)
    <3>1. m \in untold \/ m = line
      BY <2>1, <2>4
    <3>2. CASE m \in untold /\ latch[m]
      BY <1>1, <2>2, <3>2 DEF StickyTypeOK
    <3>3. CASE m \in untold /\ ~latch[m]
      BY <1>1, <2>1, <2>4, <3>3
    <3> QED BY <2>2, <2>4, <3>1, <3>2, <3>3
  <2>5. NoGlitchUntold'
    BY <1>1, <2>1, <2>4 DEF NoGlitchUntold, WillTell
  <2> QED BY <1>1, <2>1, <2>3, <2>5 DEF StickyInv
<1>3. ASSUME NEW r \in Reporters, NEW line \in Lines, ReadLatch(r, line)
      PROVE  StickyInv'
  <2>1. /\ telling[r].step = "idle" /\ UNCHANGED <<up, latch, untold, missed>>
        /\ telling' = [telling EXCEPT ![r] =
             [step |-> IF line = "gbt" /\ ~latch[line] THEN "idle" ELSE "clear",
              latch |-> line, was |-> latch[line]]]
    BY <1>3 DEF ReadLatch
  <2>2. StickyTypeOK'
    BY <1>1, <2>1 DEF StickyTypeOK
  <2>3. \A q \in Reporters : q # r => telling'[q] = telling[q]
    BY <2>1
  <2>4. telling'[r].step = "clear" /\ telling'[r].latch = "gbt" => telling'[r].was
    BY <1>1, <2>1 DEF StickyTypeOK
  <2>5. NoGlitchUntold'
    BY <1>1, <2>1, <2>3 DEF NoGlitchUntold, WillTell
  <2> QED BY <1>1, <2>2, <2>3, <2>4, <2>5 DEF StickyInv
<1>4. ASSUME NEW r \in Reporters, ClearLatch(r)
      PROVE  StickyInv'
  <2> DEFINE l == telling[r].latch
  <2>1. /\ telling[r].step = "clear" /\ telling' = [telling EXCEPT ![r].step = "again"]
        /\ latch' = [latch EXCEPT ![l] = l \notin up]
        /\ missed' = IF latch[l] /\ ~telling[r].was THEN missed \cup {l} ELSE missed
        /\ UNCHANGED <<up, untold>> /\ l \in Lines
    BY <1>1, <1>4 DEF ClearLatch, Tell, StickyTypeOK
  <2>2. /\ telling'[r].latch = l /\ telling'[r].was = telling[r].was /\ telling'[r].step = "again"
        /\ \A q \in Reporters : q # r => telling'[q] = telling[q]
    BY <1>1, <2>1 DEF StickyTypeOK
  <2>3. StickyTypeOK'
    BY <1>1, <2>1 DEF StickyTypeOK
  <2>4. "gbt" \notin missed'
    BY <1>1, <2>1
  <2>5. ASSUME NEW m \in untold' \ missed'
        PROVE  latch'[m] \/ \E q \in Reporters : WillTell(q, m)'
    <3>1. CASE \E q \in Reporters : WillTell(q, m)
      BY <2>1, <2>2, <3>1 DEF WillTell
    <3>2. CASE latch[m] /\ m = l
      BY <2>1, <2>2, <2>5, <3>2 DEF WillTell
    <3>3. CASE latch[m] /\ m # l
      BY <1>1, <2>1, <3>3 DEF StickyTypeOK
    <3> QED BY <1>1, <2>1, <2>5, <3>1, <3>2, <3>3
  <2>6. NoGlitchUntold'
    BY <2>4, <2>5 DEF NoGlitchUntold, WillTell
  <2> QED BY <1>1, <2>2, <2>3, <2>6 DEF StickyInv
<1>5. ASSUME NEW r \in Reporters, ReadAgain(r) \/ KillReporter(r)
      PROVE  StickyInv'
  <2> DEFINE R == [step : {"idle", "clear", "again"}, latch : Lines, was : BOOLEAN]
  <2>0. PICK y \in R : telling' = [telling EXCEPT ![r] = y] /\ y.step = "idle"
    <3>1. CASE ReadAgain(r)
      <4>1. [telling[r] EXCEPT !.step = "idle"] \in R /\ [telling[r] EXCEPT !.step = "idle"].step = "idle"
        BY <1>1 DEF StickyTypeOK
      <4>2. telling' = [telling EXCEPT ![r] = [telling[r] EXCEPT !.step = "idle"]]
        BY <3>1 DEF ReadAgain, Tell
      <4> HIDE DEF R
      <4> QED BY <4>1, <4>2
    <3>2. CASE KillReporter(r)
      <4>1. Silent \in R /\ Silent.step = "idle"
        BY DEF Silent
      <4> HIDE DEF R
      <4> QED BY <3>2, <4>1 DEF KillReporter
    <3> QED BY <1>5, <3>1, <3>2
  <2>1. /\ UNCHANGED <<up, latch, missed>> /\ untold' \subseteq untold /\ StickyTypeOK'
        /\ telling'[r].step = "idle" /\ \A q \in Reporters : q # r => telling'[q] = telling[q]
    <3>1. UNCHANGED <<up, latch, missed>> /\ untold' \subseteq untold
      BY <1>5 DEF ReadAgain, KillReporter
    <3>2. telling'[r].step = "idle" /\ \A q \in Reporters : q # r => telling'[q] = telling[q]
      BY <1>1, <2>0 DEF StickyTypeOK
    <3>3. StickyTypeOK'
      BY <1>1, <2>0, <3>1 DEF StickyTypeOK
    <3> QED BY <3>1, <3>2, <3>3
  <2>2. \A m \in untold' : ~WillTell(r, m)
    BY <1>5 DEF ReadAgain, KillReporter, WillTell
  <2>3. ASSUME NEW m \in untold' \ missed'
        PROVE  latch'[m] \/ \E q \in Reporters : WillTell(q, m)'
    BY <1>1, <2>1, <2>2, <2>3 DEF WillTell
  <2>4. NoGlitchUntold'
    BY <1>1, <2>1, <2>3 DEF NoGlitchUntold, WillTell
  <2> QED BY <1>1, <2>1, <2>4 DEF StickyInv
<1>6. CASE UNCHANGED stickyVars
  BY <1>6 DEF StickyInv, StickyTypeOK, NoGlitchUntold, stickyVars
<1> QED BY <1>2, <1>3, <1>4, <1>5, <1>6 DEF StickyNext
-----------------------------------------------------------------------------
(* The trigger counters.  The difference of two readings of a counter that *)
(* wraps is that of what it counts, if that is less than the modulus.      *)
LEMMA Division ==
  ASSUME NEW n \in Nat, NEW m \in Nat \ {0}
  PROVE  n % m \in 0..(m - 1) /\ \E k \in Nat : n = k * m + (n % m)
<1>1. n \div m \in Nat /\ n % m \in 0..(m - 1) /\ n = m * (n \div m) + (n % m)
  OBVIOUS
<1>2. PICK q \in Nat : q = n \div m
  BY <1>1
<1>3. m * q = q * m
  OBVIOUS
<1> QED BY <1>1, <1>2, <1>3

LEMMA Multiples ==
  ASSUME NEW m \in Nat \ {0}, NEW d \in Int, NEW r \in Int, -m < r, r < m
  PROVE  /\ 0 <= d * m + r => d >= 0
         /\ d * m + r < m => d <= 1
<1>1. d <= -1 => d * m <= -m
  OBVIOUS
<1>2. d >= 2 => d * m >= 2 * m
  OBVIOUS
<1> DEFINE x == d * m
<1>3. x \in Int /\ m \in Int
  OBVIOUS
<1>4. (d <= -1 => x <= -m) /\ (d >= 2 => x >= 2 * m)
  BY <1>1, <1>2
<1> HIDE DEF x
<1>5. (0 <= x + r => d >= 0) /\ (x + r < m => d <= 1)
  BY <1>3, <1>4
<1> QED BY <1>5 DEF x

LEMMA Wraps ==
  ASSUME NEW m \in Nat \ {0}, NEW a \in Nat, NEW b \in Nat, a <= b, b - a < m
  PROVE  b - a = IF a % m > b % m THEN ((b % m) + m) - (a % m) ELSE (b % m) - (a % m)
<1>1. PICK j \in Nat, k \in Nat : a = j * m + (a % m) /\ b = k * m + (b % m)
  BY Division
<1>2. PICK s \in 0..(m - 1), t \in 0..(m - 1) : s = a % m /\ t = b % m
  BY Division
<1>3. b - a = (k - j) * m + (t - s)
  <2>1. (k - j) * m = k * m - j * m
    OBVIOUS
  <2>2. PICK x \in Int, y \in Int : x = j * m /\ y = k * m
    OBVIOUS
  <2>3. a = x + s /\ b = y + t
    BY <1>1, <1>2, <2>2
  <2>4. b - a = (y - x) + (t - s)
    BY <2>3
  <2> QED BY <2>1, <2>2, <2>4
<1>4. k - j \in {0, 1}
  <2>1. /\ t - s \in Int /\ -m < t - s /\ t - s < m /\ k - j \in Int
    OBVIOUS
  <2>2. k - j >= 0 /\ k - j <= 1
    BY <1>3, <2>1, Multiples
  <2> QED BY <2>1, <2>2
<1>5. (k - j) * m = IF k - j = 0 THEN 0 ELSE m
  BY <1>4
<1>6. b - a = IF k - j = 0 THEN t - s ELSE m + t - s
  BY <1>3, <1>5
<1> QED BY <1>2, <1>4, <1>6

TriggerTypeOK ==
  /\ kind \in Triggers /\ updateable \in BOOLEAN /\ triggers \in Nat
  /\ base \in Nat \cup {None} /\ prev \in Nat \cup {None}

(* The values read are those of the past, in the order they were read. *)
TriggerInv ==
  /\ TriggerTypeOK
  /\ base # None => base <= triggers
  /\ prev # None => base # None /\ base <= prev /\ prev <= triggers
  /\ TriggersAreRight

LEMMA TriggerInitial == TriggerInit => TriggerInv
BY DEF TriggerInit, TriggerInv, TriggerTypeOK, TriggersAreRight, None

LEMMA RatesAreRight ==
  ASSUME TriggerTypeOK, prev # None, prev <= triggers,
         kind \notin {"eox", "sox"}, triggers - prev < Modulus(kind)
  PROVE  Rate(kind) = triggers - prev
<1>1. Modulus(kind) \in Nat \ {0}
  BY TriggersAssumption DEF Modulus
<1>2. prev \in Nat /\ triggers \in Nat
  BY DEF TriggerTypeOK
<1>3. triggers - prev = Corrected(Counter(kind, prev), Counter(kind, triggers), Modulus(kind))
  BY <1>1, <1>2, Wraps DEF Corrected, Counter
<1> QED BY <1>3 DEF Rate

LEMMA RelativesAreRight ==
  ASSUME TriggerTypeOK, base # None, base <= triggers, triggers - base < Modulus(kind),
         Modulus(kind) = Wide \/ Counter(kind, base) <= Counter(kind, triggers)
  PROVE  RelativeCount(kind) = triggers - base
<1> DEFINE m == Modulus(kind)
           a == Counter(kind, base)
           b == Counter(kind, triggers)
<1>1. m \in Nat \ {0} /\ Wide \in Nat \ {0}
  BY TriggersAssumption DEF Modulus
<1>2. base \in Nat /\ triggers \in Nat
  BY DEF TriggerTypeOK
<1>3. a \in 0..(m - 1) /\ b \in 0..(m - 1)
  BY <1>1, <1>2, Division DEF Counter
<1>4. triggers - base = IF a > b THEN b + m - a ELSE b - a
  BY <1>1, <1>2, Wraps DEF Counter
<1>5. kind \in {"tof", "cal"} => m <= Wide
  BY TriggersAssumption DEF Modulus
<1>6. kind \in {"hb", "phy"} => m = Wide
  BY DEF Modulus
<1>7. m = Wide \/ a <= b
  OBVIOUS
<1>8. CASE kind \in {"eox", "sox"}
  <2>1. RelativeCount(kind) = IF a > b THEN b + Wide - a ELSE b - a
    BY <1>8 DEF RelativeCount, Corrected
  <2> HIDE DEF a, b, m
  <2> QED BY <1>1, <1>3, <1>4, <1>7, <2>1
<1>9. CASE kind \notin {"eox", "sox"}
  <2>1. RelativeCount(kind) = (Wide + b - a) % Wide
    BY <1>9 DEF RelativeCount
  <2>2. m <= Wide
    BY <1>1, <1>5, <1>6, <1>9 DEF TriggerTypeOK, Triggers
  <2> DEFINE x == Wide + b - a
  <2> HIDE DEF a, b, m
  <2>3. CASE a > b
    <3>1. m = Wide
      BY <1>3, <1>7, <2>3
    <3>2. x \in 0..(Wide - 1) /\ x = triggers - base
      BY <1>1, <1>3, <1>4, <2>3, <3>1
    <3>3. x % Wide = x
      <4> HIDE DEF x
      <4> QED BY <1>1, <3>2
    <3> QED BY <2>1, <3>2, <3>3
  <2>4. CASE a <= b
    <3> DEFINE y == b - a
    <3>1. y \in 0..(Wide - 1) /\ y = triggers - base /\ x = Wide + y
      BY <1>1, <1>3, <1>4, <2>2, <2>4
    <3>2. (Wide + y) % Wide = y
      <4> HIDE DEF x, y
      <4> QED BY <1>1, <3>1
    <3> QED BY <2>1, <3>1, <3>2
  <2> QED BY <1>3, <2>3, <2>4
<1> QED BY <1>8, <1>9

LEMMA TriggerStep == TriggerInv /\ [TriggerNext]_triggerVars => TriggerInv'
<1> SUFFICES ASSUME TriggerInv, [TriggerNext]_triggerVars
             PROVE  TriggerInv'
  OBVIOUS
<1>1. /\ TriggerTypeOK /\ (base # None => base <= triggers) /\ TriggersAreRight
      /\ prev # None => base # None /\ base <= prev /\ prev <= triggers
      /\ None = -1
  BY DEF TriggerInv, None
<1>2. ASSUME told' = {}
      PROVE  TriggersAreRight'
  BY <1>2 DEF TriggersAreRight
<1>3. CASE \E n \in 1..Half : NewTrigger(n)
  <2>1. PICK n \in Nat : NewTrigger(n)
    BY <1>3, TriggersAssumption
  <2> QED BY <1>1, <1>2, <2>1 DEF NewTrigger, TriggerInv, TriggerTypeOK
<1>4. CASE StartSecond
  BY <1>1, <1>2, <1>4 DEF StartSecond, TriggerInv, TriggerTypeOK
<1>5. CASE RestartMonitor
  BY <1>1, <1>2, <1>5 DEF RestartMonitor, TriggerInv, TriggerTypeOK
<1>6. CASE EndSecond
  <2>1. /\ prev # None /\ prev' = None /\ UNCHANGED <<kind, triggers, updateable, base>>
        /\ told' = {[count |-> IF updateable THEN RelativeCount(kind) ELSE Counter(kind, triggers),
                     rate |-> Rate(kind), of |-> triggers - prev]}
    BY <1>6 DEF EndSecond
  <2>2. base # None /\ base <= triggers /\ prev <= triggers
    BY <1>1, <2>1
  <2>3. ASSUME NEW t \in told', kind \notin {"eox", "sox"}, t.of < Modulus(kind)
        PROVE  t.rate = t.of
    BY <1>1, <2>1, <2>2, <2>3, RatesAreRight
  <2>4. ASSUME NEW t \in told', updateable, triggers - base < Modulus(kind),
               Modulus(kind) = Wide \/ Counter(kind, base) <= Counter(kind, triggers)
        PROVE  t.count = triggers - base
    BY <1>1, <2>1, <2>2, <2>4, RelativesAreRight
  <2>5. TriggersAreRight'
    BY <2>1, <2>3, <2>4 DEF TriggersAreRight, Counter, Modulus
  <2> QED BY <1>1, <2>1, <2>2, <2>5 DEF TriggerInv, TriggerTypeOK
<1>7. CASE UNCHANGED triggerVars
  BY <1>1, <1>7 DEF TriggerInv, TriggerTypeOK, TriggersAreRight, triggerVars, Counter, Modulus
<1> QED BY <1>3, <1>4, <1>5, <1>6, <1>7 DEF TriggerNext
-----------------------------------------------------------------------------
(* The channel's health: the counter of a link is what it was when it was  *)
(* last seen and the times the link starved since, but for the wraps.      *)
HealthTypeOK ==
  /\ health \in [pc : {"none", "stopped", "started"}, source : {"internal", "fee"},
                 pushed : BOOLEAN, mine : BOOLEAN, seen : [HealthLinks -> 0..EmptyCounts]]
  /\ empties \in [HealthLinks -> 0..(EmptyCounts - 1)]
  /\ starved \in [HealthLinks -> 0..Unsure]
  /\ debug \in {"off", "on", "length"}

Counted(l) == /\ health.seen[l] # NeverSeen
              /\ \E k \in Nat : health.seen[l] + starved[l] = empties[l] + k * EmptyCounts
CountInv ==
  health.pc = "started" => \A l \in HealthLinks : starved[l] # Unsure => Counted(l)

DebugInv ==
  /\ health.pc = "none" => health = NoChannel /\ DebugIsPutBack
  /\ health.pc # "none" => IF health.mine THEN health.source = "internal" /\ foundAs \in {"off", "lost"}
                           ELSE debug = foundAs

HealthInv == HealthTypeOK /\ CountInv /\ StarvationIsTold /\ DebugInv /\ SourceIsAsked

LEMMA NoChannelType ==
  NoChannel \in [pc : {"none", "stopped", "started"}, source : {"internal", "fee"},
                 pushed : BOOLEAN, mine : BOOLEAN, seen : [HealthLinks -> 0..EmptyCounts]]
BY HealthAssumption DEF NoChannel, NeverSeen

(* A count that did not change is one of whole turns.                      *)
LEMMA Turns ==
  ASSUME NEW n \in Nat, NEW k \in Nat, NEW m \in Nat \ {0}, n = k * m
  PROVE  n % m = 0
<1>1. PICK q \in Nat : n = q * m + (n % m)
  BY Division
<1>2. PICK r \in 0..(m - 1) : r = n % m
  BY Division
<1>3. (k - q) * m = k * m - q * m
  OBVIOUS
<1>4. (k - q) * m = r
  <2>1. PICK x \in Int, y \in Int : x = k * m /\ y = q * m
    OBVIOUS
  <2>2. n = x /\ n = y + r
    BY <1>1, <1>2, <2>1
  <2>3. x - y = r
    BY <2>2
  <2> QED BY <1>3, <2>1, <2>3
<1>5. k - q = 0
  <2>1. k - q >= 1 => (k - q) * m >= m
    OBVIOUS
  <2>2. k - q <= -1 => (k - q) * m <= -m
    OBVIOUS
  <2>3. ~(r >= m) /\ ~(r <= -m) /\ k - q \in Int
    OBVIOUS
  <2> QED BY <1>4, <2>1, <2>2, <2>3
<1> QED BY <1>2, <1>4, <1>5

LEMMA HealthInitial == HealthInit => HealthInv
<1> SUFFICES ASSUME HealthInit
             PROVE  HealthInv
  OBVIOUS
<1>1. /\ health = NoChannel /\ empties \in [HealthLinks -> {0}] /\ debug \in {"off", "length"}
      /\ foundAs = debug /\ warned = {} /\ starved = NotChecked /\ lastCheck = NotStarved
      /\ NoChannel.pc = "none"
  BY DEF HealthInit, NoChannel
<1>2. HealthTypeOK
  BY <1>1, NoChannelType, HealthAssumption DEF HealthTypeOK, NotChecked, Unsure
<1>3. 0 % EmptyCounts = 0
  BY HealthAssumption
<1>4. StarvationIsTold
  BY <1>1, <1>3 DEF StarvationIsTold, NotStarved
<1> QED BY <1>1, <1>2, <1>4 DEF HealthInv, CountInv, DebugInv, DebugIsPutBack, SourceIsAsked

LEMMA StartDataTakingKeeps == HealthInv /\ StartDataTaking => HealthInv'
<1> SUFFICES ASSUME HealthInv, StartDataTaking
             PROVE  HealthInv'
  OBVIOUS
<1>1. /\ HealthTypeOK /\ health.pc = "stopped" /\ StarvationIsTold /\ DebugInv
      /\ health' = [health EXCEPT !.pc = "started", !.mine = @ \/ EnablesDebug]
      /\ debug' = IF EnablesDebug THEN "on" ELSE debug
      /\ empties' \in {empties, NotStarved} /\ starved' = NotChecked
      /\ dataSource' = IF "dataSelection" \notin FirmwareFeatures THEN dataSource
                       ELSE SourceSelected(health.source)
      /\ UNCHANGED <<features, warned, foundAs, lastCheck>>
  BY DEF HealthInv, StartDataTaking, DebugRegister
<1>2. PICK m \in BOOLEAN : m = (health.mine \/ EnablesDebug)
  OBVIOUS
<1>3. health' = [health EXCEPT !.pc = "started", !.mine = m]
  BY <1>1, <1>2
<1>4. /\ health'.pc = "started" /\ health'.mine = m /\ health'.source = health.source
  BY <1>1, <1>3 DEF HealthTypeOK
<1>5. HealthTypeOK'
  <2>1. empties' \in [HealthLinks -> 0..(EmptyCounts - 1)]
    BY <1>1, HealthAssumption DEF HealthTypeOK, NotStarved
  <2>2. starved' \in [HealthLinks -> 0..Unsure] /\ debug' \in {"off", "on", "length"}
    BY <1>1, HealthAssumption DEF HealthTypeOK, NotChecked, Unsure
  <2> QED BY <1>1, <1>3, <2>1, <2>2 DEF HealthTypeOK
<1>6. CountInv'
  BY <1>1 DEF CountInv, NotChecked
<1>7. DebugInv'
  <2>1. CASE EnablesDebug
    BY <1>1, <1>2, <1>4, <2>1 DEF DebugInv, EnablesDebug, DebugModeEnabled
  <2>2. CASE ~EnablesDebug
    BY <1>1, <1>2, <1>4, <2>2 DEF DebugInv
  <2> QED BY <2>1, <2>2
<1>8. SourceIsAsked'
  BY <1>1, <1>4 DEF SourceIsAsked, FirmwareFeatures, AllFeatures, SourceSelected
<1> QED BY <1>1, <1>5, <1>6, <1>7, <1>8 DEF HealthInv, StarvationIsTold

LEMMA StarveKeeps ==
  ASSUME HealthInv, NEW l \in HealthLinks, Starve(l)
  PROVE  HealthInv'
<1> USE HealthAssumption
<1>1. /\ HealthTypeOK /\ CountInv /\ health.pc = "started" /\ starved[l] # MaxStarved
      /\ empties' = [empties EXCEPT ![l] = (empties[l] + 1) % EmptyCounts]
      /\ starved' = [starved EXCEPT ![l] = IF starved[l] = Unsure THEN Unsure ELSE starved[l] + 1]
      /\ UNCHANGED <<features, dataSource, health, debug, warned, foundAs, lastCheck>>
  BY DEF HealthInv, Starve
<1>2. PICK e \in 0..(EmptyCounts - 1) : e = empties[l]
  BY <1>1 DEF HealthTypeOK
<1>3. PICK n \in 0..Unsure : n = starved[l]
  BY <1>1 DEF HealthTypeOK
<1>4. (e + 1) % EmptyCounts = IF e + 1 = EmptyCounts THEN 0 ELSE e + 1
  OBVIOUS
<1>5. /\ empties'[l] = IF e + 1 = EmptyCounts THEN 0 ELSE e + 1
      /\ starved'[l] = IF n = Unsure THEN Unsure ELSE n + 1
      /\ \A o \in HealthLinks : o # l => empties'[o] = empties[o] /\ starved'[o] = starved[o]
  BY <1>1, <1>2, <1>3, <1>4 DEF HealthTypeOK
<1>6. HealthTypeOK'
  <2>1. empties'[l] \in 0..(EmptyCounts - 1) /\ starved'[l] \in 0..Unsure
    BY <1>1, <1>3, <1>5 DEF Unsure
  <2>2. /\ empties' \in [HealthLinks -> 0..(EmptyCounts - 1)]
        /\ starved' \in [HealthLinks -> 0..Unsure]
    BY <1>1, <1>5, <2>1 DEF HealthTypeOK
  <2> QED BY <1>1, <2>2 DEF HealthTypeOK
<1>7. ASSUME NEW o \in HealthLinks, starved'[o] # Unsure
      PROVE  Counted(o)'
  <2>1. CASE o # l
    BY <1>1, <1>5, <1>7, <2>1 DEF CountInv, Counted
  <2>2. CASE o = l
    <3>1. n # Unsure /\ Counted(l)
      BY <1>1, <1>3, <1>5, <1>7, <2>2 DEF CountInv
    <3>2. PICK k \in Nat : health.seen[l] + n = e + k * EmptyCounts
      BY <1>2, <1>3, <3>1 DEF Counted
    <3>3. PICK s \in Nat : s = health.seen[l]
      BY <1>1 DEF HealthTypeOK
    <3>4. \E j \in Nat : s + starved'[l] = empties'[l] + j * EmptyCounts
      <4>1. starved'[l] = n + 1
        BY <1>5, <3>1
      <4>2. PICK x \in Nat : x = k * EmptyCounts
        OBVIOUS
      <4>3. (k + 1) * EmptyCounts = k * EmptyCounts + EmptyCounts
        OBVIOUS
      <4>4. s + n = e + x
        BY <3>2, <3>3, <4>2
      <4>5. CASE e + 1 = EmptyCounts
        <5>1. s + starved'[l] = empties'[l] + (x + EmptyCounts)
          BY <1>5, <4>1, <4>4, <4>5
        <5>2. k + 1 \in Nat /\ (k + 1) * EmptyCounts = x + EmptyCounts
          BY <4>2, <4>3
        <5> QED BY <5>1, <5>2
      <4>6. CASE e + 1 # EmptyCounts
        <5>1. s + starved'[l] = empties'[l] + x
          BY <1>5, <4>1, <4>4, <4>6
        <5> QED BY <4>2, <5>1
      <4> QED BY <4>5, <4>6
    <3> QED BY <1>1, <2>2, <3>1, <3>3, <3>4 DEF Counted
  <2> QED BY <2>1, <2>2
<1>8. CountInv'
  BY <1>7 DEF CountInv
<1> QED BY <1>1, <1>6, <1>8 DEF HealthInv, StarvationIsTold, DebugInv, DebugIsPutBack, SourceIsAsked

LEMMA CheckFifosKeeps == HealthInv /\ CheckFifos => HealthInv'
<1> USE HealthAssumption
<1> SUFFICES ASSUME HealthInv, CheckFifos
             PROVE  HealthInv'
  OBVIOUS
<1>1. /\ HealthTypeOK /\ CountInv /\ DebugInv /\ SourceIsAsked /\ health.pc = "started"
      /\ warned' = {l \in HealthLinks : health.seen[l] \notin {NeverSeen, empties[l]}}
      /\ health' = [health EXCEPT !.seen = [l \in HealthLinks |-> empties[l]]]
      /\ lastCheck' = starved /\ starved' = NotStarved
      /\ UNCHANGED <<features, dataSource, empties, debug, foundAs>>
  BY DEF HealthInv, CheckFifos, SuperpageFifoEmptyCounter
<1>2. /\ health'.pc = "started" /\ health'.source = health.source /\ health'.mine = health.mine
      /\ \A l \in HealthLinks : health'.seen[l] = empties[l]
  BY <1>1 DEF HealthTypeOK
<1>3. HealthTypeOK'
  <2>1. [l \in HealthLinks |-> empties[l]] \in [HealthLinks -> 0..EmptyCounts]
    BY <1>1 DEF HealthTypeOK
  <2>2. starved' \in [HealthLinks -> 0..Unsure]
    BY <1>1 DEF NotStarved, Unsure
  <2> QED BY <1>1, <2>1, <2>2 DEF HealthTypeOK
<1>4. CountInv'
  <2>1. ASSUME NEW l \in HealthLinks
        PROVE  Counted(l)'
    <3>1. PICK e \in 0..(EmptyCounts - 1) : e = empties[l]
      BY <1>1 DEF HealthTypeOK
    <3>2. /\ health'.seen[l] = e /\ starved'[l] = 0 /\ empties'[l] = e
      BY <1>1, <1>2, <3>1 DEF NotStarved
    <3>3. e # NeverSeen /\ e + 0 = e + 0 * EmptyCounts
      BY DEF NeverSeen
    <3> QED BY <3>2, <3>3 DEF Counted, NeverSeen
  <2> QED BY <2>1 DEF CountInv
<1>5. StarvationIsTold'
  <2> SUFFICES ASSUME NEW l \in HealthLinks, starved[l] # Unsure
               PROVE  /\ l \in warned' => starved[l] > 0
                      /\ starved[l] % EmptyCounts # 0 => l \in warned'
    BY <1>1 DEF StarvationIsTold, Unsure
  <2>1. PICK e \in Nat, n \in Nat, s \in Nat : e = empties[l] /\ n = starved[l] /\ s = health.seen[l]
    BY <1>1 DEF HealthTypeOK, Unsure
  <2>2. s # NeverSeen /\ \E k \in Nat : s + n = e + k * EmptyCounts
    BY <1>1, <2>1 DEF CountInv, Counted
  <2>3. PICK k \in Nat : s + n = e + k * EmptyCounts
    BY <2>2
  <2>4. PICK x \in Nat : x = k * EmptyCounts /\ (k >= 1 => x >= EmptyCounts) /\ (k = 0 => x = 0)
    OBVIOUS
  <2>5. ASSUME n = 0
        PROVE  s = e
    <3>1. e \in 0..(EmptyCounts - 1) /\ s \in 0..(EmptyCounts - 1)
      BY <1>1, <2>1, <2>2 DEF HealthTypeOK, NeverSeen
    <3> QED BY <2>3, <2>4, <2>5, <3>1
  <2>6. ASSUME s = e
        PROVE  n % EmptyCounts = 0
    <3>1. n = k * EmptyCounts
      BY <2>3, <2>4, <2>6
    <3> QED BY <3>1, Turns
  <2>7. l \in warned' <=> s # e
    BY <1>1, <2>1, <2>2
  <2>8. n # 0 => n > 0
    OBVIOUS
  <2> QED BY <2>1, <2>5, <2>6, <2>7, <2>8
<1> QED BY <1>1, <1>2, <1>3, <1>4, <1>5 DEF HealthInv, DebugInv, DebugIsPutBack, SourceIsAsked

LEMMA HealthStep == HealthInv /\ [HealthNext]_healthVars => HealthInv'
<1> SUFFICES ASSUME HealthInv, [HealthNext]_healthVars
             PROVE  HealthInv'
  OBVIOUS
<1>1. HealthTypeOK /\ CountInv /\ StarvationIsTold /\ DebugInv /\ SourceIsAsked
  BY DEF HealthInv
<1>2. ASSUME UNCHANGED <<warned, lastCheck>>
      PROVE  StarvationIsTold'
  BY <1>1, <1>2 DEF StarvationIsTold
<1>3. ASSUME NEW source \in {"internal", "fee"}, MakeChannel(source)
      PROVE  HealthInv'
  <2> DEFINE h == [NoChannel EXCEPT !.pc = "stopped", !.source = source]
  <2>1. /\ health' = h /\ foundAs' = debug /\ UNCHANGED <<warned, lastCheck, empties, debug, starved>>
    BY <1>3 DEF MakeChannel
  <2>2. /\ h.pc = "stopped" /\ h.mine = FALSE
        /\ h \in [pc : {"none", "stopped", "started"}, source : {"internal", "fee"},
                  pushed : BOOLEAN, mine : BOOLEAN, seen : [HealthLinks -> 0..EmptyCounts]]
    BY NoChannelType DEF NoChannel
  <2> HIDE DEF h
  <2> QED BY <1>1, <1>2, <2>1, <2>2
          DEF HealthInv, HealthTypeOK, CountInv, DebugInv, SourceIsAsked
<1>4. CASE PushFirst \/ StopDataTaking
  <2>1. \/ health' = [health EXCEPT !.pushed = TRUE]
        \/ health' = [health EXCEPT !.pc = "stopped"]
    BY <1>4 DEF PushFirst, StopDataTaking
  <2>2. /\ health.pc = "started"
        /\ UNCHANGED <<features, dataSource, warned, empties, debug, starved, foundAs, lastCheck>>
    BY <1>4 DEF PushFirst, StopDataTaking
  <2>3. /\ health'.pc \in {"stopped", "started"} /\ health'.source = health.source
        /\ health'.mine = health.mine /\ health'.seen = health.seen /\ HealthTypeOK'
    BY <1>1, <2>1, <2>2 DEF HealthTypeOK
  <2> QED BY <1>1, <1>2, <2>2, <2>3 DEF HealthInv, CountInv, Counted, DebugInv, SourceIsAsked
<1>5. CASE DestroyChannel \/ KillChannel
  <2>1. /\ health' = NoChannel /\ UNCHANGED <<warned, empties, starved, lastCheck>>
        /\ health.pc # "none" /\ NoChannel.pc = "none"
        /\ debug' \in {"off", debug} /\ DebugIsPutBack'
    <3>1. CASE DestroyChannel
      BY <1>1, <3>1 DEF DestroyChannel, DebugRegister, DebugInv, DebugIsPutBack, NoChannel
    <3>2. CASE KillChannel
      BY <3>2 DEF KillChannel, DebugIsPutBack, NoChannel
    <3> QED BY <1>5, <3>1, <3>2
  <2> QED BY <1>1, <1>2, <2>1, NoChannelType
          DEF HealthInv, HealthTypeOK, CountInv, DebugInv, SourceIsAsked
<1>6. CASE WriteLength
  <2>1. /\ UNCHANGED <<features, dataSource, health, empties, warned, starved, lastCheck>>
        /\ debug' = "length"
        /\ foundAs' = IF health.source = "internal" /\ health.mine THEN "lost" ELSE "length"
    BY <1>6 DEF WriteLength
  <2>2. HealthTypeOK' /\ CountInv'
    BY <1>1, <2>1 DEF HealthTypeOK, CountInv, Counted
  <2>3. DebugInv'
    BY <1>1, <2>1 DEF DebugInv, DebugIsPutBack
  <2> QED BY <1>1, <1>2, <2>1, <2>2, <2>3 DEF HealthInv, SourceIsAsked
<1>7. CASE UNCHANGED healthVars
  BY <1>1, <1>7 DEF HealthInv, HealthTypeOK, CountInv, Counted, StarvationIsTold, DebugInv,
                    DebugIsPutBack, SourceIsAsked, healthVars
<1> QED BY <1>3, <1>4, <1>5, <1>6, <1>7, StartDataTakingKeeps, StarveKeeps, CheckFifosKeeps
        DEF HealthNext
-----------------------------------------------------------------------------
(* The loopback test: what a tool has still to do, and what it has made of *)
(* its link by then, unless another tool crossed it.                       *)
FollowingStep ==
  [generator |-> "pattern", pattern |-> "type", type |-> "mask", mask |-> "raise",
   raise |-> "lower", lower |-> "show", normal |-> "loopback", loopback |-> "done"]
PlanLeft ==
  {<<"generator", "pattern", "type", "mask", "raise", "lower", "show">>,
   <<"pattern", "type", "mask", "raise", "lower", "show">>,
   <<"type", "mask", "raise", "lower", "show">>, <<"mask", "raise", "lower", "show">>,
   <<"raise", "lower", "show">>, <<"lower", "show">>, <<"show">>,
   <<"normal", "loopback", "done">>, <<"loopback", "done">>, <<"done">>}

Prepared(t) ==
  LET c == testCall[t]
      bits == select[c.link]
      Reached(names) == LoopStep(t) \in names
  IN  /\ Reached({"pattern", "type", "mask", "raise", "lower", "show"}) => "generator" \in bits
      /\ Reached({"type", "mask", "raise", "lower", "show"}) => ("static" \in bits <=> c.pattern = "static")
      /\ Reached({"mask", "raise", "lower", "show"}) => counterType = c.type
      /\ Reached({"raise", "lower", "show"}) => rxMask[c.link] = c.mask
      /\ Reached({"lower"}) => "errorsReset" \in bits /\ Stats(t) = 0
      /\ Reached({"show"}) => "errorsReset" \notin bits /\ Stats(t) = bitErrors[t]

ToolInv(t) ==
  /\ steps[t] # << >> => testCall[t] \in LoopCalls /\ steps[t] \in PlanLeft
  /\ latched[t] # Unread => AtStep(t, OnSource)
  /\ steps[t] # << >> /\ t \notin crossed =>
       /\ latched[t] # Unread => latched[t] = select[testCall[t].link]
       /\ testCall[t].reset => Prepared(t)

LoopTypeOK ==
  /\ select = [l \in LoopLinks |-> select[l]] /\ rxMask = [l \in LoopLinks |-> rxMask[l]]
  /\ errorCount \in [LoopLinks -> Nat] /\ bitErrors \in [LoopTools -> Nat]
  /\ testCall = [t \in LoopTools |-> testCall[t]] /\ steps = [t \in LoopTools |-> steps[t]]
  /\ latched = [t \in LoopTools |-> latched[t]]

LoopInv == LoopTypeOK /\ \A t \in LoopTools : ToolInv(t)

LEMMA PlanGoesOn ==
  ASSUME NEW s \in PlanLeft
  PROVE  /\ s # << >> /\ Head(s) \in DOMAIN FollowingStep \cup {"show", "done"}
         /\ Head(s) \in DOMAIN FollowingStep =>
              Tail(s) # << >> /\ Tail(s) \in PlanLeft /\ Head(Tail(s)) = FollowingStep[Head(s)]
<1>0. DOMAIN FollowingStep = {"generator", "pattern", "type", "mask", "raise", "lower", "normal", "loopback"}
  BY DEF FollowingStep
<1>1. CASE s = <<"generator", "pattern", "type", "mask", "raise", "lower", "show">>
  <2>0. Head(<<"pattern", "type", "mask", "raise", "lower", "show">>) = "pattern" /\ <<"pattern", "type", "mask", "raise", "lower", "show">> # << >>
    OBVIOUS
  <2>1. Head(s) = "generator" /\ Tail(s) = <<"pattern", "type", "mask", "raise", "lower", "show">> /\ s # << >>
    BY <1>1
  <2>2. Head(Tail(s)) = "pattern" /\ Tail(s) # << >>
    BY <2>0, <2>1
  <2>3. FollowingStep[Head(s)] = "pattern"
    BY <2>1 DEF FollowingStep
  <2>4. Tail(s) \in PlanLeft
    BY <2>1 DEF PlanLeft
  <2> QED BY <1>0, <2>1, <2>2, <2>3, <2>4
<1>2. CASE s = <<"pattern", "type", "mask", "raise", "lower", "show">>
  <2>0. Head(<<"type", "mask", "raise", "lower", "show">>) = "type" /\ <<"type", "mask", "raise", "lower", "show">> # << >>
    OBVIOUS
  <2>1. Head(s) = "pattern" /\ Tail(s) = <<"type", "mask", "raise", "lower", "show">> /\ s # << >>
    BY <1>2
  <2>2. Head(Tail(s)) = "type" /\ Tail(s) # << >>
    BY <2>0, <2>1
  <2>3. FollowingStep[Head(s)] = "type"
    BY <2>1 DEF FollowingStep
  <2>4. Tail(s) \in PlanLeft
    BY <2>1 DEF PlanLeft
  <2> QED BY <1>0, <2>1, <2>2, <2>3, <2>4
<1>3. CASE s = <<"type", "mask", "raise", "lower", "show">>
  <2>0. Head(<<"mask", "raise", "lower", "show">>) = "mask" /\ <<"mask", "raise", "lower", "show">> # << >>
    OBVIOUS
  <2>1. Head(s) = "type" /\ Tail(s) = <<"mask", "raise", "lower", "show">> /\ s # << >>
    BY <1>3
  <2>2. Head(Tail(s)) = "mask" /\ Tail(s) # << >>
    BY <2>0, <2>1
  <2>3. FollowingStep[Head(s)] = "mask"
    BY <2>1 DEF FollowingStep
  <2>4. Tail(s) \in PlanLeft
    BY <2>1 DEF PlanLeft
  <2> QED BY <1>0, <2>1, <2>2, <2>3, <2>4
<1>4. CASE s = <<"mask", "raise", "lower", "show">>
  <2>0. Head(<<"raise", "lower", "show">>) = "raise" /\ <<"raise", "lower", "show">> # << >>
    OBVIOUS
  <2>1. Head(s) = "mask" /\ Tail(s) = <<"raise", "lower", "show">> /\ s # << >>
    BY <1>4
  <2>2. Head(Tail(s)) = "raise" /\ Tail(s) # << >>
    BY <2>0, <2>1
  <2>3. FollowingStep[Head(s)] = "raise"
    BY <2>1 DEF FollowingStep
  <2>4. Tail(s) \in PlanLeft
    BY <2>1 DEF PlanLeft
  <2> QED BY <1>0, <2>1, <2>2, <2>3, <2>4
<1>5. CASE s = <<"raise", "lower", "show">>
  <2>0. Head(<<"lower", "show">>) = "lower" /\ <<"lower", "show">> # << >>
    OBVIOUS
  <2>1. Head(s) = "raise" /\ Tail(s) = <<"lower", "show">> /\ s # << >>
    BY <1>5
  <2>2. Head(Tail(s)) = "lower" /\ Tail(s) # << >>
    BY <2>0, <2>1
  <2>3. FollowingStep[Head(s)] = "lower"
    BY <2>1 DEF FollowingStep
  <2>4. Tail(s) \in PlanLeft
    BY <2>1 DEF PlanLeft
  <2> QED BY <1>0, <2>1, <2>2, <2>3, <2>4
<1>6. CASE s = <<"lower", "show">>
  <2>0. Head(<<"show">>) = "show" /\ <<"show">> # << >>
    OBVIOUS
  <2>1. Head(s) = "lower" /\ Tail(s) = <<"show">> /\ s # << >>
    BY <1>6
  <2>2. Head(Tail(s)) = "show" /\ Tail(s) # << >>
    BY <2>0, <2>1
  <2>3. FollowingStep[Head(s)] = "show"
    BY <2>1 DEF FollowingStep
  <2>4. Tail(s) \in PlanLeft
    BY <2>1 DEF PlanLeft
  <2> QED BY <1>0, <2>1, <2>2, <2>3, <2>4
<1>7. CASE s = <<"show">>
  <2>1. Head(s) = "show" /\ s # << >>
    BY <1>7
  <2> QED BY <1>0, <2>1
<1>8. CASE s = <<"normal", "loopback", "done">>
  <2>0. Head(<<"loopback", "done">>) = "loopback" /\ <<"loopback", "done">> # << >>
    OBVIOUS
  <2>1. Head(s) = "normal" /\ Tail(s) = <<"loopback", "done">> /\ s # << >>
    BY <1>8
  <2>2. Head(Tail(s)) = "loopback" /\ Tail(s) # << >>
    BY <2>0, <2>1
  <2>3. FollowingStep[Head(s)] = "loopback"
    BY <2>1 DEF FollowingStep
  <2>4. Tail(s) \in PlanLeft
    BY <2>1 DEF PlanLeft
  <2> QED BY <1>0, <2>1, <2>2, <2>3, <2>4
<1>9. CASE s = <<"loopback", "done">>
  <2>0. Head(<<"done">>) = "done" /\ <<"done">> # << >>
    OBVIOUS
  <2>1. Head(s) = "loopback" /\ Tail(s) = <<"done">> /\ s # << >>
    BY <1>9
  <2>2. Head(Tail(s)) = "done" /\ Tail(s) # << >>
    BY <2>0, <2>1
  <2>3. FollowingStep[Head(s)] = "done"
    BY <2>1 DEF FollowingStep
  <2>4. Tail(s) \in PlanLeft
    BY <2>1 DEF PlanLeft
  <2> QED BY <1>0, <2>1, <2>2, <2>3, <2>4
<1>10. CASE s = <<"done">>
  <2>1. Head(s) = "done" /\ s # << >>
    BY <1>10
  <2> QED BY <1>0, <2>1
<1> QED BY <1>1, <1>2, <1>3, <1>4, <1>5, <1>6, <1>7, <1>8, <1>9, <1>10 DEF PlanLeft

LEMMA LoopInitial == LoopInit => LoopInv
BY DEF LoopInit, LoopInv, LoopTypeOK, ToolInv

(* What another tool does beside a tool does not matter to it.             *)
LEMMA LeftAlone ==
  ASSUME NEW u \in LoopTools, ToolInv(u), testCall'[u] = testCall[u], steps'[u] = steps[u],
         latched'[u] = latched[u], u \in crossed => u \in crossed',
         steps[u] # << >> /\ u \notin crossed' =>
           LET l == testCall[u].link
           IN  /\ select'[l] = select[l] /\ counterType' = counterType /\ rxMask'[l] = rxMask[l]
               /\ errorCount'[l] = errorCount[l] /\ bitErrors'[u] = bitErrors[u]
  PROVE  ToolInv(u)'
BY DEF ToolInv, Prepared, AtStep, LoopStep, Stats

LEMMA PlansAreLeft ==
  ASSUME NEW c \in LoopCalls
  PROVE  Plan(c) \in PlanLeft /\ (c.reset => Head(Plan(c)) \in {"generator", "normal"})
<1>1. CASE c.tool = "config"
  <2>1. Plan(c) = <<"normal", "loopback", "done">>
    BY <1>1 DEF Plan
  <2> QED BY <2>1 DEF PlanLeft
<1>2. CASE c.tool = "test" /\ c.reset
  <2>1. Plan(c) = <<"generator", "pattern", "type", "mask", "raise", "lower", "show">>
    BY <1>2 DEF Plan
  <2>2. Head(Plan(c)) = "generator"
    BY <2>1
  <2> QED BY <2>1, <2>2 DEF PlanLeft
<1>3. CASE c.tool = "test" /\ ~c.reset
  <2>1. Plan(c) = <<"show">>
    BY <1>3 DEF Plan
  <2> QED BY <1>3, <2>1 DEF PlanLeft
<1> QED BY <1>1, <1>2, <1>3, LoopAssumption

LEMMA RunToolKeeps ==
  ASSUME LoopInv, NEW t \in LoopTools, NEW c \in LoopCalls, RunTool(t, c)
  PROVE  LoopInv'
<1>1. /\ LoopTypeOK /\ \A u \in LoopTools : ToolInv(u)
      /\ steps[t] = << >> /\ testCall' = [testCall EXCEPT ![t] = c]
      /\ steps' = [steps EXCEPT ![t] = Plan(c)]
      /\ UNCHANGED <<select, counterType, rxMask, errorCount, latched, bitErrors, crossed>>
  BY DEF LoopInv, RunTool
<1>2. /\ testCall'[t] = c /\ steps'[t] = Plan(c)
      /\ \A u \in LoopTools : u # t => testCall'[u] = testCall[u] /\ steps'[u] = steps[u]
  BY <1>1 DEF LoopTypeOK
<1>3. LoopTypeOK'
  BY <1>1 DEF LoopTypeOK
<1>4. ToolInv(t)'
  <2>1. latched'[t] = Unread
    BY <1>1 DEF ToolInv, AtStep
  <2>2. testCall'[t].reset => Prepared(t)'
    BY <1>2, PlansAreLeft DEF Prepared, LoopStep
  <2> QED BY <1>2, <2>1, <2>2, PlansAreLeft DEF ToolInv
<1>5. \A u \in LoopTools : u # t => ToolInv(u)'
  BY <1>1, <1>2, LeftAlone
<1> QED BY <1>3, <1>4, <1>5 DEF LoopInv

LEMMA ReadSourceKeeps ==
  ASSUME LoopInv, NEW t \in LoopTools, ReadSource(t)
  PROVE  LoopInv'
<1>1. /\ LoopTypeOK /\ \A u \in LoopTools : ToolInv(u)
      /\ AtStep(t, OnSource) /\ latched' = [latched EXCEPT ![t] = select[testCall[t].link]]
      /\ UNCHANGED <<select, counterType, rxMask, errorCount, testCall, steps, bitErrors, crossed>>
  BY DEF LoopInv, ReadSource
<1>2. /\ latched'[t] = select[testCall[t].link]
      /\ \A u \in LoopTools : u # t => latched'[u] = latched[u]
  BY <1>1 DEF LoopTypeOK
<1>3. LoopTypeOK'
  BY <1>1 DEF LoopTypeOK
<1>4. ToolInv(t)'
  BY <1>1, <1>2 DEF ToolInv, AtStep, Prepared, LoopStep, Stats
<1>5. \A u \in LoopTools : u # t => ToolInv(u)'
  BY <1>1, <1>2, LeftAlone
<1> QED BY <1>3, <1>4, <1>5 DEF LoopInv

(* A step that sets something: its tool goes on to the next one, and those *)
(* that it may disturb are crossed.                                        *)
LEMMA SetsGoesOn ==
  ASSUME LoopInv, NEW t \in LoopTools, NEW tools, Sets(t, tools),
         AtStep(t, OnSource \cup {"type", "mask"})
  PROVE  /\ testCall[t] \in LoopCalls /\ testCall[t].link \in LoopLinks
         /\ LoopStep(t) \in DOMAIN FollowingStep
         /\ steps'[t] # << >> /\ steps'[t] \in PlanLeft
         /\ Head(steps'[t]) = FollowingStep[LoopStep(t)]
         /\ bitErrors'[t] = 0 /\ (t \in crossed' <=> t \in crossed)
         /\ bitErrors' \in [LoopTools -> Nat] /\ steps' = [u \in LoopTools |-> steps'[u]]
         /\ \A u \in LoopTools : u # t =>
              /\ steps'[u] = steps[u] /\ bitErrors'[u] = bitErrors[u]
              /\ (u \in crossed => u \in crossed')
              /\ (u \in tools /\ steps[u] # << >> => u \in crossed')
<1>1. LoopTypeOK /\ ToolInv(t)
  BY DEF LoopInv
<1>2. steps[t] # << >> /\ LoopStep(t) \in OnSource \cup {"type", "mask"}
  BY DEF AtStep
<1>3. testCall[t] \in LoopCalls /\ steps[t] \in PlanLeft
  BY <1>1, <1>2 DEF ToolInv
<1>4. OnSource \cup {"type", "mask"} \subseteq DOMAIN FollowingStep
  BY DEF OnSource, FollowingStep
<1>5. /\ steps' = [steps EXCEPT ![t] = Tail(steps[t])] /\ bitErrors' = [bitErrors EXCEPT ![t] = 0]
      /\ crossed' = crossed \cup {u \in tools \ {t} : steps[u] # << >>}
  BY DEF Sets
<1>6. steps'[t] = Tail(steps[t])
  BY <1>1, <1>5 DEF LoopTypeOK
<1>7. /\ steps'[t] # << >> /\ steps'[t] \in PlanLeft
      /\ Head(steps'[t]) = FollowingStep[LoopStep(t)]
  BY <1>2, <1>3, <1>4, <1>6, PlanGoesOn DEF LoopStep
<1>8. /\ bitErrors'[t] = 0 /\ (t \in crossed' <=> t \in crossed)
      /\ bitErrors' \in [LoopTools -> Nat] /\ steps' = [u \in LoopTools |-> steps'[u]]
  BY <1>1, <1>5 DEF LoopTypeOK
<1>9. \A u \in LoopTools : u # t => /\ steps'[u] = steps[u] /\ bitErrors'[u] = bitErrors[u]
                                  /\ (u \in crossed => u \in crossed')
                                  /\ (u \in tools /\ steps[u] # << >> => u \in crossed')
  BY <1>1, <1>5 DEF LoopTypeOK
<1>10. testCall[t].link \in LoopLinks /\ LoopStep(t) \in DOMAIN FollowingStep
  BY <1>2, <1>3, <1>4, LoopAssumption
<1> QED BY <1>3, <1>7, <1>8, <1>9, <1>10

LEMMA WriteSourceKeeps ==
  ASSUME LoopInv, NEW t \in LoopTools, WriteSource(t)
  PROVE  LoopInv'
<1> DEFINE c == testCall[t]
           l == c.link
           h == LoopStep(t)
           change == SourceChanges(c)[h]
           bits == (latched[t] \ change.clear) \cup change.set
<1>1. /\ LoopTypeOK /\ ToolInv(t) /\ AtStep(t, OnSource) /\ latched[t] # Unread
      /\ select' = [select EXCEPT ![l] = bits]
      /\ errorCount' = [errorCount EXCEPT ![l] = IF "errorsReset" \in select'[l] THEN 0 ELSE @]
      /\ latched' = [latched EXCEPT ![t] = Unread]
      /\ Sets(t, SameLink(t)) /\ UNCHANGED <<counterType, rxMask, testCall>>
  BY DEF LoopInv, WriteSource
<1>2. AtStep(t, OnSource \cup {"type", "mask"}) /\ h \in OnSource /\ steps[t] # << >>
  BY <1>1 DEF AtStep
<1>3. /\ c \in LoopCalls /\ l \in LoopLinks /\ steps'[t] # << >> /\ steps'[t] \in PlanLeft
      /\ Head(steps'[t]) = FollowingStep[h] /\ bitErrors'[t] = 0 /\ (t \in crossed' <=> t \in crossed)
      /\ bitErrors' \in [LoopTools -> Nat] /\ steps' = [u \in LoopTools |-> steps'[u]]
  BY <1>1, <1>2, SetsGoesOn
<1>4. \A u \in LoopTools : u # t =>
        /\ steps'[u] = steps[u] /\ bitErrors'[u] = bitErrors[u]
        /\ (u \in crossed => u \in crossed')
        /\ (u \in SameLink(t) /\ steps[u] # << >> => u \in crossed')
  <2> DEFINE tools == SameLink(t)
  <2>1. Sets(t, tools)
    BY <1>1
  <2> HIDE DEF tools
  <2>2. \A u \in LoopTools : u # t =>
          /\ steps'[u] = steps[u] /\ bitErrors'[u] = bitErrors[u]
          /\ (u \in crossed => u \in crossed')
          /\ (u \in tools /\ steps[u] # << >> => u \in crossed')
    BY <1>2, <2>1, SetsGoesOn
  <2> QED BY <2>2 DEF tools
<1> HIDE DEF h, bits, change
<1>5. /\ select'[l] = bits
      /\ errorCount'[l] = IF "errorsReset" \in bits THEN 0 ELSE errorCount[l]
      /\ \A m \in LoopLinks : m # l => select'[m] = select[m] /\ errorCount'[m] = errorCount[m]
      /\ latched'[t] = Unread /\ \A u \in LoopTools : u # t => latched'[u] = latched[u]
  <2>1. select'[l] = bits /\ \A m \in LoopLinks : m # l => select'[m] = select[m]
    BY <1>1, <1>3 DEF LoopTypeOK
  <2>2. errorCount'[l] = IF "errorsReset" \in bits THEN 0 ELSE errorCount[l]
    BY <1>1, <1>3, <2>1 DEF LoopTypeOK
  <2>3. \A m \in LoopLinks : m # l => errorCount'[m] = errorCount[m]
    BY <1>1, <1>3 DEF LoopTypeOK
  <2>4. latched'[t] = Unread /\ \A u \in LoopTools : u # t => latched'[u] = latched[u]
    BY <1>1 DEF LoopTypeOK
  <2> QED BY <2>1, <2>2, <2>3, <2>4
<1>6. LoopTypeOK'
  <2>1. errorCount' \in [LoopLinks -> Nat]
    BY <1>1, <1>3, <1>5 DEF LoopTypeOK
  <2>2. select' = [m \in LoopLinks |-> select'[m]]
    BY <1>1 DEF LoopTypeOK
  <2>3. latched' = [u \in LoopTools |-> latched'[u]]
    BY <1>1 DEF LoopTypeOK
  <2>4. rxMask' = [m \in LoopLinks |-> rxMask'[m]] /\ testCall' = [u \in LoopTools |-> testCall'[u]]
    BY <1>1 DEF LoopTypeOK
  <2> QED BY <1>3, <2>1, <2>2, <2>3, <2>4 DEF LoopTypeOK
<1>7. ASSUME t \notin crossed', c.reset
      PROVE  Prepared(t)'
  <2>1. Prepared(t) /\ latched[t] = select[l]
    BY <1>1, <1>2, <1>3, <1>7 DEF ToolInv
  <2>2. LoopStep(t)' = FollowingStep[h]
    BY <1>3 DEF LoopStep
  <2>3. /\ testCall' = testCall /\ counterType' = counterType /\ rxMask' = rxMask
        /\ Stats(t)' = errorCount'[l] /\ Stats(t) = errorCount[l]
    BY <1>1 DEF Stats
  <2>4. /\ h = "generator" => change = [set |-> {"generator"}, clear |-> {}]
        /\ h = "pattern" => change = IF c.pattern = "static" THEN [set |-> {"static"}, clear |-> {}]
                                     ELSE [set |-> {}, clear |-> {"static"}]
        /\ h = "raise" => change = [set |-> {"errorsReset"}, clear |-> {}]
        /\ h = "lower" => change = [set |-> {}, clear |-> {"errorsReset"}]
    <3>1. \A x : /\ SourceChanges(x)["generator"] = [set |-> {"generator"}, clear |-> {}]
                 /\ SourceChanges(x)["raise"] = [set |-> {"errorsReset"}, clear |-> {}]
                 /\ SourceChanges(x)["lower"] = [set |-> {}, clear |-> {"errorsReset"}]
      BY DEF SourceChanges, Flag
    <3>2. SourceChanges(c)["pattern"] = IF c.pattern = "static" THEN [set |-> {"static"}, clear |-> {}]
                                        ELSE [set |-> {}, clear |-> {"static"}]
      BY DEF SourceChanges, Flag
    <3> HIDE DEF c
    <3> QED BY <3>1, <3>2 DEF change
  <2>5. CASE h = "generator"
    <3>1. "generator" \in select'[l]
      BY <1>5, <2>4, <2>5 DEF bits
    <3>2. LoopStep(t)' = "pattern"
      BY <2>2, <2>5 DEF FollowingStep
    <3> QED BY <2>3, <3>1, <3>2 DEF Prepared
  <2>6. CASE h = "pattern"
    <3>1. "generator" \in select'[l] /\ ("static" \in select'[l] <=> c.pattern = "static")
      BY <1>5, <2>1, <2>4, <2>6 DEF Prepared, bits, h
    <3>2. LoopStep(t)' = "type"
      BY <2>2, <2>6 DEF FollowingStep
    <3> QED BY <2>3, <3>1, <3>2 DEF Prepared
  <2>7. CASE h = "raise"
    <3>1. /\ "generator" \in select'[l] /\ ("static" \in select'[l] <=> c.pattern = "static")
          /\ counterType = c.type /\ rxMask[l] = c.mask
      BY <1>5, <2>1, <2>4, <2>7 DEF Prepared, bits, h
    <3>2. "errorsReset" \in select'[l] /\ errorCount'[l] = 0
      BY <1>5, <2>4, <2>7 DEF bits
    <3>3. LoopStep(t)' = "lower"
      BY <2>2, <2>7 DEF FollowingStep
    <3> QED BY <2>3, <3>1, <3>2, <3>3 DEF Prepared
  <2>8. CASE h = "lower"
    <3>1. /\ "generator" \in select'[l] /\ ("static" \in select'[l] <=> c.pattern = "static")
          /\ counterType = c.type /\ rxMask[l] = c.mask /\ errorCount[l] = 0
      BY <1>5, <2>1, <2>3, <2>4, <2>8 DEF Prepared, bits, h
    <3>2. "errorsReset" \notin select'[l] /\ errorCount'[l] = 0
      BY <1>5, <2>4, <2>8, <3>1 DEF bits
    <3>3. LoopStep(t)' = "show"
      BY <2>2, <2>8 DEF FollowingStep
    <3> QED BY <1>3, <2>3, <3>1, <3>2, <3>3 DEF Prepared
  <2>9. CASE h \in {"normal", "loopback"}
    <3>1. LoopStep(t)' \in {"loopback", "done"}
      BY <2>2, <2>9 DEF FollowingStep
    <3> QED BY <3>1 DEF Prepared
  <2> QED BY <1>2, <2>5, <2>6, <2>7, <2>8, <2>9 DEF OnSource
<1>8. ToolInv(t)'
  BY <1>1, <1>3, <1>5, <1>7 DEF ToolInv
<1>9. ASSUME NEW u \in LoopTools, u # t
      PROVE  ToolInv(u)'
  <2>1. ToolInv(u) /\ testCall'[u] = testCall[u]
    BY <1>1 DEF LoopInv
  <2>2. ASSUME steps[u] # << >>, u \notin crossed'
        PROVE  /\ select'[testCall[u].link] = select[testCall[u].link]
               /\ errorCount'[testCall[u].link] = errorCount[testCall[u].link]
    <3>1. testCall[u].link # l
      BY <1>4, <1>9, <2>2 DEF SameLink
    <3>2. testCall[u].link \in LoopLinks
      BY <2>1, <2>2, LoopAssumption DEF ToolInv
    <3> QED BY <1>5, <3>1, <3>2
  <2>3. /\ steps'[u] = steps[u] /\ bitErrors'[u] = bitErrors[u] /\ latched'[u] = latched[u]
        /\ (u \in crossed => u \in crossed')
    BY <1>4, <1>5, <1>9
  <2> QED BY <1>1, <2>1, <2>2, <2>3, LeftAlone
<1> QED BY <1>6, <1>8, <1>9 DEF LoopInv

LEMMA SettingsKeep ==
  ASSUME LoopInv, NEW t \in LoopTools, SetTxCounterType(t) \/ SetRxPatternMask(t)
  PROVE  LoopInv'
<1> DEFINE c == testCall[t]
           l == c.link
           h == LoopStep(t)
<1>1. /\ LoopTypeOK /\ ToolInv(t) /\ h \in {"type", "mask"}
      /\ AtStep(t, OnSource \cup {"type", "mask"}) /\ steps[t] # << >>
      /\ UNCHANGED <<select, errorCount, testCall, latched>>
  BY DEF LoopInv, SetTxCounterType, SetRxPatternMask, AtStep
<1>2. latched[t] = Unread
  BY <1>1 DEF ToolInv, AtStep, OnSource
<1>3. PICK tools :
        /\ Sets(t, tools)
        /\ \/ /\ h = "type" /\ counterType' = c.type /\ rxMask' = rxMask /\ tools = LoopTools
           \/ /\ h = "mask" /\ counterType' = counterType /\ rxMask' = [rxMask EXCEPT ![l] = c.mask]
              /\ tools = SameLink(t)
  BY DEF SetTxCounterType, SetRxPatternMask, AtStep
<1>4. /\ c \in LoopCalls /\ l \in LoopLinks /\ steps'[t] # << >> /\ steps'[t] \in PlanLeft
      /\ Head(steps'[t]) = FollowingStep[h] /\ bitErrors'[t] = 0 /\ (t \in crossed' <=> t \in crossed)
      /\ bitErrors' \in [LoopTools -> Nat] /\ steps' = [u \in LoopTools |-> steps'[u]]
  BY <1>1, <1>3, SetsGoesOn
<1>5. \A u \in LoopTools : u # t =>
        /\ steps'[u] = steps[u] /\ bitErrors'[u] = bitErrors[u]
        /\ (u \in crossed => u \in crossed')
        /\ (u \in tools /\ steps[u] # << >> => u \in crossed')
  BY <1>1, <1>3, SetsGoesOn
<1> HIDE DEF h
<1>6. LoopTypeOK'
  <2>1. rxMask' = [m \in LoopLinks |-> rxMask'[m]]
    BY <1>1, <1>3 DEF LoopTypeOK
  <2> QED BY <1>1, <1>4, <2>1 DEF LoopTypeOK
<1>7. ASSUME t \notin crossed', c.reset
      PROVE  Prepared(t)'
  <2>1. Prepared(t)
    BY <1>1, <1>4, <1>7 DEF ToolInv
  <2>2. LoopStep(t)' = IF h = "type" THEN "mask" ELSE "raise"
    BY <1>1, <1>4 DEF LoopStep, FollowingStep
  <2>3. "generator" \in select[l] /\ ("static" \in select[l] <=> c.pattern = "static")
    BY <1>1, <2>1 DEF Prepared, h
  <2>4. counterType' = c.type
    BY <1>3, <2>1 DEF Prepared, h
  <2>5. h = "mask" => rxMask'[l] = c.mask
    BY <1>1, <1>3, <1>4 DEF LoopTypeOK
  <2> QED BY <1>1, <2>2, <2>3, <2>4, <2>5 DEF Prepared
<1>8. ToolInv(t)'
  BY <1>1, <1>2, <1>4, <1>7 DEF ToolInv
<1>9. ASSUME NEW u \in LoopTools, u # t
      PROVE  ToolInv(u)'
  <2>1. ToolInv(u)
    BY DEF LoopInv
  <2>2. ASSUME steps[u] # << >>, u \notin crossed'
        PROVE  counterType' = counterType /\ rxMask'[testCall[u].link] = rxMask[testCall[u].link]
    <3>1. h # "type" /\ tools = SameLink(t) /\ u \notin tools
      BY <1>3, <1>5, <1>9, <2>2
    <3>2. testCall[u].link # l
      BY <3>1 DEF SameLink
    <3>3. testCall[u].link \in LoopLinks
      BY <2>1, <2>2, LoopAssumption DEF ToolInv
    <3> QED BY <1>1, <1>3, <3>1, <3>2, <3>3 DEF LoopTypeOK
  <2>3. /\ steps'[u] = steps[u] /\ bitErrors'[u] = bitErrors[u]
        /\ (u \in crossed => u \in crossed')
    BY <1>5, <1>9
  <2> QED BY <1>1, <2>1, <2>2, <2>3, LeftAlone
<1> QED BY <1>6, <1>8, <1>9 DEF LoopInv

LEMMA GonesKeep ==
  ASSUME LoopInv, NEW t \in LoopTools, EndTool(t) \/ KillTool(t)
  PROVE  LoopInv'
<1>1. /\ LoopTypeOK /\ IsGone(t) /\ \A u \in LoopTools : ToolInv(u)
  BY DEF LoopInv, EndTool, KillTool
<1>2. /\ steps'[t] = << >> /\ latched'[t] = Unread
      /\ \A u \in LoopTools : u # t =>
           /\ steps'[u] = steps[u] /\ testCall'[u] = testCall[u] /\ latched'[u] = latched[u]
           /\ bitErrors'[u] = bitErrors[u] /\ (u \in crossed => u \in crossed')
  BY <1>1 DEF IsGone, LoopTypeOK
<1>3. LoopTypeOK'
  BY <1>1 DEF IsGone, LoopTypeOK
<1>4. ToolInv(t)'
  BY <1>2 DEF ToolInv
<1>5. ASSUME NEW u \in LoopTools, u # t
      PROVE  ToolInv(u)'
  <2>1. UNCHANGED <<select, counterType, rxMask, errorCount>>
    BY <1>1 DEF IsGone
  <2> QED BY <1>1, <1>2, <1>5, <2>1, LeftAlone
<1> QED BY <1>3, <1>4, <1>5 DEF LoopInv

(* An error is counted by the link and by the tools that look at it.       *)
LEMMA BitErrorKeeps ==
  ASSUME LoopInv, NEW l \in LoopLinks, BitError(l)
  PROVE  LoopInv'
<1>1. /\ LoopTypeOK /\ \A t \in LoopTools : ToolInv(t)
      /\ errorCount' = [errorCount EXCEPT ![l] = IF "errorsReset" \in select[l] THEN 0
                                                 ELSE errorCount[l] + 1]
      /\ bitErrors' = [t \in LoopTools |-> IF Shows(t) /\ testCall[t].link = l THEN bitErrors[t] + 1
                                           ELSE bitErrors[t]]
      /\ UNCHANGED <<select, counterType, rxMask, testCall, steps, latched, crossed>>
  BY DEF LoopInv, BitError
<1>2. LoopTypeOK'
  <2>1. errorCount' \in [LoopLinks -> Nat]
    BY <1>1 DEF LoopTypeOK
  <2>2. bitErrors' \in [LoopTools -> Nat]
    BY <1>1 DEF LoopTypeOK
  <2> QED BY <1>1, <2>1, <2>2 DEF LoopTypeOK
<1>3. ASSUME NEW t \in LoopTools, steps[t] # << >>, Prepared(t), testCall[t] \in LoopCalls
      PROVE  Prepared(t)'
  <2>1. /\ LoopStep(t)' = LoopStep(t) /\ testCall'[t] = testCall[t]
        /\ testCall[t].link \in LoopLinks
    BY <1>1, <1>3, LoopAssumption DEF LoopStep
  <2>2. LoopStep(t) = "lower" => Stats(t)' = 0
    BY <1>1, <1>3, <2>1 DEF Prepared, Stats, LoopTypeOK
  <2>3. LoopStep(t) = "show" => Stats(t)' = bitErrors'[t]
    <3>1. CASE testCall[t].link = l
      BY <1>1, <1>3, <2>1, <3>1 DEF Prepared, Stats, LoopTypeOK, Shows, AtStep
    <3>2. CASE testCall[t].link # l
      BY <1>1, <1>3, <2>1, <3>2 DEF Prepared, Stats, LoopTypeOK
    <3> QED BY <3>1, <3>2
  <2> QED BY <1>1, <1>3, <2>1, <2>2, <2>3 DEF Prepared
<1>4. ASSUME NEW t \in LoopTools
      PROVE  ToolInv(t)'
  BY <1>1, <1>3 DEF ToolInv, AtStep, LoopStep
<1> QED BY <1>2, <1>4 DEF LoopInv

LEMMA LoopTestStep == LoopInv /\ [LoopNext]_loopVars => LoopInv'
<1> SUFFICES ASSUME LoopInv, [LoopNext]_loopVars
             PROVE  LoopInv'
  OBVIOUS
<1>1. CASE UNCHANGED loopVars
  BY <1>1 DEF LoopInv, LoopTypeOK, ToolInv, Prepared, AtStep, LoopStep, Stats, loopVars
<1> QED BY <1>1, RunToolKeeps, ReadSourceKeeps, WriteSourceKeeps, SettingsKeep, GonesKeep,
           BitErrorKeeps DEF LoopNext

LEMMA LoopTestRight == LoopInv => LoopbackIsRight
BY DEF LoopInv, ToolInv, Prepared, LoopbackIsRight, Shows, AtStep
-----------------------------------------------------------------------------
(* What monitoring reports of a CRU is so, whoever else reports, restarts, *)
(* is killed or sets the same registers: glitches, trigger rates, starved  *)
(* links, and the errors a loopback test counts.                           *)
THEOREM MonitoringStaysRight == CardSpec => []MonitoringIsRight
<1> DEFINE Inv == StickyInv /\ TriggerInv /\ HealthInv /\ LoopInv
<1>1. CardInit => Inv
  BY StickyInitial, TriggerInitial, HealthInitial, LoopInitial DEF CardInit
<1>2. Inv /\ [CardNext]_partVars => Inv'
  <2>1. [CardNext]_partVars => [StickyNext]_stickyVars
    BY DEF CardNext, OthersRest, partVars
  <2>2. [CardNext]_partVars => [TriggerNext]_triggerVars
    BY DEF CardNext, OthersRest, partVars
  <2>3. [CardNext]_partVars => [HealthNext]_healthVars
    BY DEF CardNext, OthersRest, partVars
  <2>4. [CardNext]_partVars => [LoopNext]_loopVars
    BY DEF CardNext, OthersRest, partVars
  <2> QED BY <2>1, <2>2, <2>3, <2>4, StickyStep, TriggerStep, HealthStep, LoopTestStep
<1>3. Inv => MonitoringIsRight
  <2>1. HealthInv => HealthIsRight
    <3>1. DebugInv => DebugIsPutBack
      BY DEF DebugInv, DebugIsPutBack
    <3> QED BY <3>1 DEF HealthInv, HealthIsRight
  <2> QED BY <2>1, LoopTestRight DEF MonitoringIsRight, StickyInv, TriggerInv
<1> QED BY <1>1, <1>2, <1>3, PTL DEF CardSpec
-----------------------------------------------------------------------------
(* The CTP emulator. A start is a script of writes: the invariant says how *)
(* far it is, and that what it has passed is in the emulator, which is     *)
(* held from the second write to the last.                                 *)
CtpRegisters ==
  {"mode", "reset", "trigger", "orbit", "phys", "hc", "cal", "fixed", "bcMax", "hbMax", "prescaler"}
HarmlessWrites == {<<"mode", "idle">>, <<"trigger", TRUE>>, <<"trigger", FALSE>>}
HoldWrite == <<"reset", TRUE>>
LetGoWrite == <<"reset", FALSE>>
OwnWrite(r, f) == <<f, r[f]>>

(* The script of a start, whatever its number of dividers *)
IsStart(r, w) ==
  LET d == Dividers(r)
      n == Len(d)
  IN  /\ Len(w) = 9 + n
      /\ w[1] = <<"mode", "idle">> /\ w[2] = HoldWrite /\ w[3] = OwnWrite(r, "orbit")
      /\ \A i \in 1..n : w[3 + i] = d[i]
      /\ w[4 + n] = <<"mode", "idle">> /\ w[5 + n] = <<"mode", RunMode(r)>>
      /\ w[6 + n] = OwnWrite(r, "bcMax") /\ w[7 + n] = OwnWrite(r, "hbMax")
      /\ w[8 + n] = OwnWrite(r, "prescaler") /\ w[9 + n] = LetGoWrite

DividersAre(r) ==
  LET d == Dividers(r)
  IN  /\ Len(d) \in 0..3 /\ \E S : d \in Seq(S)
      /\ \A i \in 1..Len(d) : d[i][1] \in {"phys", "hc", "cal", "fixed"}
      /\ \A i, j \in 1..Len(d) : d[i][1] = d[j][1] => i = j
      /\ r.mode \in {"periodic", "hc", "cal"} => Len(d) = 3
      /\ r.mode = "fixed" => Len(d) > 0 /\ d[1][1] = "phys" /\ d[1][2] = Inactive

LEMMA DividersOfMode == ASSUME NEW r PROVE DividersAre(r)
<1>1. ASSUME NEW p, NEW h, NEW c, r.mode \in {"periodic", "hc", "cal"},
             Dividers(r) = <<<<"phys", p>>, <<"hc", h>>, <<"cal", c>>>>
      PROVE  DividersAre(r)
  <2>1. Dividers(r) \in Seq({<<"phys", p>>, <<"hc", h>>, <<"cal", c>>})
    BY <1>1
  <2>2. Len(Dividers(r)) = 3
    BY <1>1
  <2>3. /\ Dividers(r)[1] = <<"phys", p>> /\ Dividers(r)[2] = <<"hc", h>>
        /\ Dividers(r)[3] = <<"cal", c>>
    BY <1>1
  <2>4. Dividers(r)[1][1] = "phys" /\ Dividers(r)[2][1] = "hc" /\ Dividers(r)[3][1] = "cal"
    BY <2>3
  <2>5. r.mode # "fixed"
    BY <1>1
  <2> QED BY <2>1, <2>2, <2>4, <2>5 DEF DividersAre
<1>2. CASE r.mode = "fixed"
  <2>1. Dividers(r) = <<<<"phys", Inactive>>, <<"fixed", FixedBunchCrossing(0)>>>>
    BY <1>2 DEF Dividers
  <2>2. Dividers(r) \in Seq({<<"phys", Inactive>>, <<"fixed", FixedBunchCrossing(0)>>})
    BY <2>1
  <2>3. Len(Dividers(r)) = 2
    BY <2>1
  <2>4. /\ Dividers(r)[1] = <<"phys", Inactive>>
        /\ Dividers(r)[2] = <<"fixed", FixedBunchCrossing(0)>>
    BY <2>1
  <2>5. Dividers(r)[1][1] = "phys" /\ Dividers(r)[1][2] = Inactive /\ Dividers(r)[2][1] = "fixed"
    BY <2>4
  <2> QED BY <1>2, <2>2, <2>3, <2>5 DEF DividersAre
<1>3. CASE r.mode \notin {"periodic", "hc", "cal", "fixed"}
  <2>1. Dividers(r) = <<>>
    BY <1>3 DEF Dividers
  <2>2. Dividers(r) \in Seq({})
    BY <2>1
  <2> QED BY <2>1, <2>2, <1>3 DEF DividersAre
<1>4. CASE r.mode = "periodic"
  BY <1>1, <1>4 DEF Dividers
<1>5. CASE r.mode = "hc"
  BY <1>1, <1>5 DEF Dividers
<1>6. CASE r.mode = "cal"
  BY <1>1, <1>6 DEF Dividers
<1> QED BY <1>2, <1>3, <1>4, <1>5, <1>6

LEMMA ScriptParts ==
  ASSUME NEW S, NEW s \in Seq(S), NEW t \in Seq(S)
  PROVE  /\ s \o t \in Seq(S) /\ Len(s \o t) = Len(s) + Len(t)
         /\ Len(s) \in Nat /\ Len(t) \in Nat
         /\ \A i \in 1..Len(s) : (s \o t)[i] = s[i]
         /\ \A i \in 1..Len(t) : (s \o t)[Len(s) + i] = t[i]
<1>1. /\ s \o t \in Seq(S) /\ Len(s \o t) = Len(s) + Len(t)
      /\ \A i \in 1..Len(s) + Len(t) : (s \o t)[i] = IF i <= Len(s) THEN s[i] ELSE t[i - Len(s)]
  BY ConcatProperties
<1>2. Len(s) \in Nat /\ Len(t) \in Nat
  BY LenProperties
<1>3. \A i \in 1..Len(t) : (s \o t)[Len(s) + i] = t[i]
  <2> TAKE i \in 1..Len(t)
  <2>1. Len(s) + i \in 1..Len(s) + Len(t) /\ ~(Len(s) + i <= Len(s)) /\ (Len(s) + i) - Len(s) = i
    BY <1>2
  <2> QED BY <1>1, <2>1
<1> QED BY <1>1, <1>2, <1>3

LEMMA StartIsScript == ASSUME NEW r PROVE \E S : StartWrites(r) \in Seq(S) /\ IsStart(r, StartWrites(r))
<1> DEFINE a == <<<<"mode", "idle">>, <<"reset", TRUE>>, <<"orbit", r.orbit>>>>
           d == Dividers(r)
           m == Into(RunMode(r))
           s == <<<<"bcMax", r.bcMax>>, <<"hbMax", r.hbMax>>, <<"prescaler", r.prescaler>>>>
           g == <<<<"reset", FALSE>>>>
           S == {a[1], a[2], a[3], m[2], s[1], s[2], s[3], g[1]} \cup {d[i] : i \in 1..Len(d)}
<1>1. a \in Seq(S) /\ m \in Seq(S) /\ s \in Seq(S) /\ g \in Seq(S)
  BY DEF Into
<1>2. d \in Seq(S)
  <2>1. PICK T : d \in Seq(T)
    BY DividersOfMode DEF DividersAre
  <2> HIDE DEF d
  <2>2. d = [i \in 1..Len(d) |-> d[i]] /\ Len(d) \in Nat
    BY <2>1, LenProperties
  <2>3. \A i \in 1..Len(d) : d[i] \in S
    OBVIOUS
  <2> HIDE DEF S
  <2> QED BY <2>2, <2>3
<1>3. Len(a) = 3 /\ Len(m) = 2 /\ Len(s) = 3 /\ Len(g) = 1
  BY DEF Into
<1>4. StartWrites(r) = a \o d \o m \o s \o g
  BY DEF StartWrites
<1>5. /\ a[1] = <<"mode", "idle">> /\ a[2] = HoldWrite /\ a[3] = OwnWrite(r, "orbit")
      /\ m[1] = <<"mode", "idle">> /\ m[2] = <<"mode", RunMode(r)>>
      /\ s[1] = OwnWrite(r, "bcMax") /\ s[2] = OwnWrite(r, "hbMax") /\ s[3] = OwnWrite(r, "prescaler") /\ g[1] = LetGoWrite
  BY DEF Into, OwnWrite, HoldWrite, LetGoWrite
<1> HIDE DEF a, d, m, s, g, S
<1>6. /\ a \o d \in Seq(S) /\ Len(a \o d) = 3 + Len(d) /\ Len(d) \in Nat
      /\ \A i \in 1..3 : (a \o d)[i] = a[i]
      /\ \A i \in 1..Len(d) : (a \o d)[3 + i] = d[i]
  <2>1. /\ a \o d \in Seq(S) /\ Len(a \o d) = Len(a) + Len(d) /\ Len(d) \in Nat
        /\ \A i \in 1..Len(a) : (a \o d)[i] = a[i]
        /\ \A i \in 1..Len(d) : (a \o d)[Len(a) + i] = d[i]
    BY <1>1, <1>2, ScriptParts
  <2> QED BY <1>3, <2>1
<1> DEFINE x == a \o d
<1> HIDE DEF x
<1>x. x \in Seq(S) /\ Len(x) = 3 + Len(d)
  BY <1>6 DEF x
<1>7. /\ x \o m \in Seq(S) /\ Len(x \o m) = 3 + Len(d) + 2
      /\ \A i \in 1..(3 + Len(d)) : (x \o m)[i] = x[i]
      /\ \A i \in 1..2 : (x \o m)[3 + Len(d) + i] = m[i]
  <2>1. /\ x \o m \in Seq(S) /\ Len(x \o m) = Len(x) + Len(m)
        /\ \A i \in 1..Len(x) : (x \o m)[i] = x[i]
        /\ \A i \in 1..Len(m) : (x \o m)[Len(x) + i] = m[i]
    <3>1. x \in Seq(S)
      BY <1>x
    <3>2. m \in Seq(S)
      BY <1>1
    <3> QED BY <3>1, <3>2, ScriptParts
  <2> QED BY <1>3, <1>x, <2>1
<1> DEFINE y == x \o m
<1> HIDE DEF y
<1>y. y \in Seq(S) /\ Len(y) = 5 + Len(d)
  BY <1>6, <1>7 DEF y
<1>8. /\ y \o s \in Seq(S) /\ Len(y \o s) = 5 + Len(d) + 3
      /\ \A i \in 1..(5 + Len(d)) : (y \o s)[i] = y[i]
      /\ \A i \in 1..3 : (y \o s)[5 + Len(d) + i] = s[i]
  <2>1. /\ y \o s \in Seq(S) /\ Len(y \o s) = Len(y) + Len(s)
        /\ \A i \in 1..Len(y) : (y \o s)[i] = y[i]
        /\ \A i \in 1..Len(s) : (y \o s)[Len(y) + i] = s[i]
    <3>1. y \in Seq(S)
      BY <1>y
    <3>2. s \in Seq(S)
      BY <1>1
    <3> QED BY <3>1, <3>2, ScriptParts
  <2> QED BY <1>3, <1>y, <2>1
<1> DEFINE z == y \o s
<1> HIDE DEF z
<1>z. z \in Seq(S) /\ Len(z) = 8 + Len(d)
  BY <1>6, <1>8 DEF z
<1>9. /\ z \o g \in Seq(S) /\ Len(z \o g) = 8 + Len(d) + 1
      /\ \A i \in 1..(8 + Len(d)) : (z \o g)[i] = z[i]
      /\ \A i \in 1..1 : (z \o g)[8 + Len(d) + i] = g[i]
  <2>1. /\ z \o g \in Seq(S) /\ Len(z \o g) = Len(z) + Len(g)
        /\ \A i \in 1..Len(z) : (z \o g)[i] = z[i]
        /\ \A i \in 1..Len(g) : (z \o g)[Len(z) + i] = g[i]
    <3>1. z \in Seq(S)
      BY <1>z
    <3>2. g \in Seq(S)
      BY <1>1
    <3> QED BY <3>1, <3>2, ScriptParts
  <2> QED BY <1>3, <1>z, <2>1
<1>10. StartWrites(r) = z \o g
  BY <1>4 DEF x, y, z
<1>11. IsStart(r, z \o g)
  <2>1. \A i \in 1..3 : (z \o g)[i] = a[i]
    BY <1>6, <1>7, <1>8, <1>9 DEF x, y, z
  <2>5. (z \o g)[9 + Len(d)] = g[1] /\ Len(z \o g) = 9 + Len(d)
    BY <1>6, <1>9
  <2>2. \A i \in 1..Len(d) : (z \o g)[3 + i] = d[i]
    BY <1>6, <1>7, <1>8, <1>9 DEF x, y, z
  <2>3. (z \o g)[4 + Len(d)] = m[1] /\ (z \o g)[5 + Len(d)] = m[2]
    <3>1. /\ 3 + Len(d) + 1 = 4 + Len(d) /\ 3 + Len(d) + 2 = 5 + Len(d)
          /\ 4 + Len(d) \in 1..(5 + Len(d)) /\ 5 + Len(d) \in 1..(5 + Len(d))
          /\ 4 + Len(d) \in 1..(8 + Len(d)) /\ 5 + Len(d) \in 1..(8 + Len(d))
      BY <1>6
    <3>2. y[4 + Len(d)] = m[1] /\ y[5 + Len(d)] = m[2]
      BY <1>7, <3>1 DEF y
    <3>3. z[4 + Len(d)] = m[1] /\ z[5 + Len(d)] = m[2]
      BY <1>8, <3>1, <3>2 DEF z
    <3> QED BY <1>9, <3>1, <3>3
  <2>4. /\ (z \o g)[6 + Len(d)] = s[1] /\ (z \o g)[7 + Len(d)] = s[2]
        /\ (z \o g)[8 + Len(d)] = s[3]
    <3>1. /\ 5 + Len(d) + 1 = 6 + Len(d) /\ 5 + Len(d) + 2 = 7 + Len(d) /\ 5 + Len(d) + 3 = 8 + Len(d)
          /\ 6 + Len(d) \in 1..(8 + Len(d)) /\ 7 + Len(d) \in 1..(8 + Len(d))
          /\ 8 + Len(d) \in 1..(8 + Len(d))
      BY <1>6
    <3>2. z[6 + Len(d)] = s[1] /\ z[7 + Len(d)] = s[2] /\ z[8 + Len(d)] = s[3]
      BY <1>8, <3>1 DEF z
    <3> QED BY <1>9, <3>1, <3>2, SMTT(30)
  <2> QED BY <1>5, <2>1, <2>2, <2>3, <2>4, <2>5, SMTT(30) DEF IsStart, d
<1> QED BY <1>9, <1>10, <1>11

(* What is left of a start after its first k - 1 writes, and what these    *)
(* have done                                                               *)
StartPassed(r, k) ==
  LET d == Dividers(r)
      n == Len(d)
  IN  /\ k = 2 => emulator.mode = "idle"
      /\ k > 2 => emulator.reset = TRUE
      /\ k > 3 => emulator.orbit = r.orbit
      /\ \A i \in 1..n : k > 3 + i => emulator[d[i][1]] = d[i][2]
      /\ k > 5 + n => emulator.mode = RunMode(r)
      /\ k > 6 + n => emulator.bcMax = r.bcMax
      /\ k > 7 + n => emulator.hbMax = r.hbMax
      /\ k > 8 + n => emulator.prescaler = r.prescaler
StartLeft(r, k) ==
  LET w == StartWrites(r)
  IN  /\ Len(ctpTodo) = Len(w) + 1 - k
      /\ \A i \in 1..Len(ctpTodo) : ctpTodo[i] = w[k - 1 + i]

CtpInv ==
  /\ emulator = [f \in CtpRegisters |-> emulator[f]]
  /\ \E S : ctpTodo \in Seq(S)
  /\ \/ ctpTodo \in Seq(HarmlessWrites)
     \/ \E k \in 1..Len(StartWrites(ctpRequest)) : StartLeft(ctpRequest, k) /\ StartPassed(ctpRequest, k)
  /\ SendsWhatWasAsked

LEMMA WritesAreHarmless ==
  ASSUME NEW h \in HarmlessWrites
  PROVE  h[1] = "trigger" \/ (h[1] = "mode" /\ h[2] = "idle")
<1>1. CASE h = <<"mode", "idle">>
  BY <1>1
<1>2. CASE h = <<"trigger", TRUE>>
  BY <1>2
<1>3. CASE h = <<"trigger", FALSE>>
  BY <1>3
<1> QED BY <1>1, <1>2, <1>3 DEF HarmlessWrites

LEMMA HarmlessNeverResets ==
  ASSUME NEW h, h[1] # "reset"
  PROVE  h # HoldWrite /\ h # LetGoWrite
<1>1. HoldWrite[1] = "reset"
  BY DEF HoldWrite
<1>2. LetGoWrite[1] = "reset"
  BY DEF LetGoWrite
<1> QED BY <1>1, <1>2

LEMMA HoldOrLetGo == HoldWrite[2] = TRUE /\ LetGoWrite[2] = FALSE /\ HoldWrite[1] = "reset" /\ LetGoWrite[1] = "reset" /\ LetGoWrite # HoldWrite
<1>1. HoldWrite[2] = TRUE /\ HoldWrite[1] = "reset"
  BY DEF HoldWrite
<1>2. LetGoWrite[2] = FALSE /\ LetGoWrite[1] = "reset"
  BY DEF LetGoWrite
<1> QED BY <1>1, <1>2

LEMMA ScriptHead ==
  ASSUME NEW f, NEW v
  PROVE  <<f, v>>[1] = f /\ <<f, v>>[2] = v
OBVIOUS

LEMMA CtpInitial == CtpInit => CtpInv
<1> SUFFICES ASSUME CtpInit PROVE CtpInv
  OBVIOUS
<1>1. ctpTodo \in Seq(HarmlessWrites)
  BY DEF CtpInit
<1>2. emulator = [f \in CtpRegisters |-> emulator[f]]
  BY DEF CtpInit, CtpRegisters
<1>3. ~Sending
  BY DEF CtpInit, Sending
<1> QED BY <1>1, <1>2, <1>3 DEF CtpInv, SendsWhatWasAsked

LEMMA CtpStep == CtpInv /\ [CtpNext]_ctpVars => CtpInv'
<1> SUFFICES ASSUME CtpInv, [CtpNext]_ctpVars PROVE CtpInv'
  OBVIOUS
<1>1. ASSUME NEW r, StartEmulator(r)
      PROVE  CtpInv'
  <2>1. UNCHANGED <<emulator, inForce>> /\ ctpRequest' = r /\ ctpTodo' = StartWrites(r)
    BY <1>1 DEF StartEmulator, CallEmulator
  <2>2. DividersAre(r) /\ \E S : StartWrites(r) \in Seq(S) /\ IsStart(r, StartWrites(r))
    BY StartIsScript, DividersOfMode
  <2>3. Len(StartWrites(r)) \in Nat /\ Len(StartWrites(r)) >= 9 /\ Len(Dividers(r)) \in Nat
    BY <2>2 DEF IsStart, DividersAre
  <2>4. StartLeft(r, 1)'
    BY <2>1, <2>3 DEF StartLeft
  <2>5. StartPassed(r, 1)'
    BY <2>3 DEF StartPassed
  <2>6. SendsWhatWasAsked'
    BY <2>1 DEF CtpInv, SendsWhatWasAsked, Sending
  <2> QED BY <2>1, <2>2, <2>3, <2>4, <2>5, <2>6 DEF CtpInv
<1>2. CASE SendEox \/ SendSingleTrigger
  <2>1. UNCHANGED <<emulator, inForce, ctpRequest>> /\ ctpTodo' \in Seq(HarmlessWrites)
    <3>1. EoxWrites \in Seq(HarmlessWrites) /\ SingleTriggerWrites \in Seq(HarmlessWrites)
      BY DEF EoxWrites, SingleTriggerWrites, HarmlessWrites
    <3> QED BY <1>2, <3>1 DEF SendEox, SendSingleTrigger, CallEmulator
  <2> QED BY <2>1 DEF CtpInv, SendsWhatWasAsked, Sending
<1>3. CASE KillEmulatorTool
  <2>1. UNCHANGED <<emulator, inForce, ctpRequest>> /\ ctpTodo' \in Seq(HarmlessWrites)
    BY <1>3 DEF KillEmulatorTool
  <2> QED BY <2>1 DEF CtpInv, SendsWhatWasAsked, Sending
<1>4. CASE UNCHANGED ctpVars
  BY <1>4 DEF CtpInv, SendsWhatWasAsked, Sending, ctpVars, StartLeft, StartPassed
<1>5. CASE WriteSetting
  <2> DEFINE h == Head(ctpTodo)
  <2>1. PICK S : ctpTodo \in Seq(S)
    BY DEF CtpInv
  <2>2. ctpTodo # <<>> /\ ctpRequest' = ctpRequest
    BY <1>5 DEF WriteSetting
  <2>3. /\ Len(ctpTodo) \in Nat /\ Len(ctpTodo) >= 1 /\ h = ctpTodo[1]
        /\ Tail(ctpTodo) \in Seq(S) /\ Len(Tail(ctpTodo)) = Len(ctpTodo) - 1
        /\ \A i \in 1..Len(Tail(ctpTodo)) : Tail(ctpTodo)[i] = ctpTodo[i + 1]
    BY <2>1, <2>2
  <2>4. CASE UNCHANGED <<emulator, inForce>> /\ ctpTodo' = <<>>
    <3>1. ctpTodo' \in Seq(HarmlessWrites)
      BY <2>4
    <3> QED BY <2>2, <2>4, <3>1 DEF CtpInv, SendsWhatWasAsked, Sending
  <2>5. CASE /\ emulator' = [emulator EXCEPT ![h[1]] = h[2]] /\ ctpTodo' = Tail(ctpTodo)
             /\ inForce' = CASE h = HoldWrite  -> {} [] h = LetGoWrite -> {ctpRequest} [] OTHER -> inForce
    <3> HIDE DEF h
    <3>1. emulator = [f \in CtpRegisters |-> emulator[f]]
      BY DEF CtpInv
    <3>2. /\ emulator' = [f \in CtpRegisters |-> emulator'[f]]
          /\ \A f \in CtpRegisters : emulator'[f] = IF f = h[1] THEN h[2] ELSE emulator[f]
      BY <2>5, <3>1
    <3>3. CASE ctpTodo \in Seq(HarmlessWrites)
      <4>1. h \in HarmlessWrites /\ ctpTodo' \in Seq(HarmlessWrites)
        BY <2>2, <2>3, <2>5, <3>3
      <4>2. inForce' = inForce
        <5>1. h # HoldWrite /\ h # LetGoWrite
          BY <4>1, WritesAreHarmless, HarmlessNeverResets
        <5> QED BY <2>5, <5>1
      <4>3. CASE h[1] = "mode" /\ h[2] = "idle"
        <5>1. emulator'["mode"] = "idle"
          BY <3>2, <4>3 DEF CtpRegisters
        <5>2. ~Sending'
          BY <5>1 DEF Sending
        <5> QED BY <2>2, <2>3, <2>5, <3>2, <4>1, <5>2 DEF CtpInv, SendsWhatWasAsked
      <4>4. CASE h[1] = "trigger"
        <5>1. \A f \in CtpRegisters \ {"trigger"} : emulator'[f] = emulator[f]
          BY <3>2, <4>4
        <5>2. Sending' => Sending
          BY <5>1 DEF Sending, CtpRegisters
        <5>3. \A r : DividersAre(r)
          BY DividersOfMode
        <5>4. SendsWhatWasAsked'
          <6> SUFFICES ASSUME Sending' PROVE SendsWhatWasAsked'
            BY DEF SendsWhatWasAsked
          <6>1. PICK r \in inForce :
                  /\ emulator.mode = RunMode(r)
                  /\ \A f \in {"orbit", "bcMax", "hbMax", "prescaler"} : emulator[f] = r[f]
                  /\ r.mode \in {"periodic", "hc", "cal"} =>
                       \A i \in 1..3 : emulator[Dividers(r)[i][1]] = Dividers(r)[i][2]
                  /\ r.mode = "fixed" => emulator.phys = Inactive
            BY <5>2 DEF CtpInv, SendsWhatWasAsked
          <6>2. r.mode \in {"periodic", "hc", "cal"} =>
                  \A i \in 1..3 : emulator'[Dividers(r)[i][1]] = Dividers(r)[i][2]
            <7> SUFFICES ASSUME r.mode \in {"periodic", "hc", "cal"}, NEW i \in 1..3
                         PROVE  emulator'[Dividers(r)[i][1]] = Dividers(r)[i][2]
              OBVIOUS
            <7>1. Dividers(r)[i][1] \in {"phys", "hc", "cal", "fixed"}
              BY <5>3 DEF DividersAre
            <7>2. emulator'[Dividers(r)[i][1]] = emulator[Dividers(r)[i][1]]
              BY <5>1, <7>1 DEF CtpRegisters
            <7> QED BY <6>1, <7>2
          <6> QED BY <4>2, <5>1, <6>1, <6>2 DEF SendsWhatWasAsked, CtpRegisters
        <5> QED BY <2>2, <2>3, <2>5, <3>2, <4>1, <5>4 DEF CtpInv
      <4> QED BY <4>1, <4>3, <4>4, WritesAreHarmless
    <3>4. ASSUME NEW k \in 1..Len(StartWrites(ctpRequest)), StartLeft(ctpRequest, k), StartPassed(ctpRequest, k)
          PROVE  CtpInv'
      <4> DEFINE r == ctpRequest
                 w == StartWrites(r)
                 d == Dividers(r)
                 n == Len(d)
      <4> HIDE DEF r, w, d, n
      <4>1. /\ n \in 0..3 /\ Len(w) = 9 + n
            /\ w[1] = <<"mode", "idle">> /\ w[2] = HoldWrite /\ w[3] = OwnWrite(r, "orbit")
            /\ \A i \in 1..n : w[3 + i] = d[i]
            /\ w[4 + n] = <<"mode", "idle">> /\ w[5 + n] = <<"mode", RunMode(r)>>
            /\ w[6 + n] = OwnWrite(r, "bcMax") /\ w[7 + n] = OwnWrite(r, "hbMax")
            /\ w[8 + n] = OwnWrite(r, "prescaler") /\ w[9 + n] = LetGoWrite
        BY StartIsScript, DividersOfMode DEF IsStart, DividersAre, r, w, d, n
      <4>0. n \in Nat
        BY <4>1
      <4>2. /\ \A i \in 1..n : d[i][1] \in {"phys", "hc", "cal", "fixed"}
            /\ \A i, j \in 1..n : d[i][1] = d[j][1] => i = j
            /\ r.mode \in {"periodic", "hc", "cal"} => n = 3
            /\ r.mode = "fixed" => n > 0 /\ d[1][1] = "phys" /\ d[1][2] = Inactive
        BY DividersOfMode DEF DividersAre, r, w, d, n
      <4>3. k \in 1..(9 + n) /\ h = w[k] /\ Len(ctpTodo) = 10 + n - k
        BY <2>3, <3>4, <4>1 DEF StartLeft, w, r
      <4>4. \A i \in 1..Len(ctpTodo') : ctpTodo'[i] = w[k + i]
        <5> TAKE i \in 1..Len(ctpTodo')
        <5>1. i \in Nat /\ i + 1 \in 1..Len(ctpTodo) /\ ctpTodo'[i] = ctpTodo[i + 1]
          BY <2>3, <2>5
        <5>2. ctpTodo[i + 1] = w[k - 1 + (i + 1)]
          BY <3>4, <5>1 DEF StartLeft, w, r
        <5>3. k - 1 + (i + 1) = k + i
          <6>1. k \in Int /\ i \in Int
            BY <4>0, <4>3, <5>1
          <6> QED BY <6>1
        <5> QED BY <5>1, <5>2, <5>3
      <4>5. /\ k = 2 => emulator.mode = "idle"
            /\ k > 2 => emulator.reset = TRUE
            /\ k > 3 => emulator.orbit = r.orbit
            /\ \A i \in 1..n : k > 3 + i => emulator[d[i][1]] = d[i][2]
            /\ k > 5 + n => emulator.mode = RunMode(r)
            /\ k > 6 + n => emulator.bcMax = r.bcMax
            /\ k > 7 + n => emulator.hbMax = r.hbMax
            /\ k > 8 + n => emulator.prescaler = r.prescaler
        BY <3>4 DEF StartPassed, r, d, n
      <4> DEFINE Reached(e, kk) ==
            /\ kk = 2 => e["mode"] = "idle"
            /\ kk > 2 /\ kk < 10 + n => e["reset"] = TRUE
            /\ kk > 3 => e["orbit"] = r.orbit
            /\ \A i \in 1..n : kk > 3 + i => e[d[i][1]] = d[i][2]
            /\ kk > 5 + n => e["mode"] = RunMode(r)
            /\ kk > 6 + n => e["bcMax"] = r.bcMax
            /\ kk > 7 + n => e["hbMax"] = r.hbMax
            /\ kk > 8 + n => e["prescaler"] = r.prescaler
      <4>6. Reached(emulator', k + 1)
        <5>1. k \in {1, 2, 3} \/ (\E i \in 1..n : k = 3 + i) \/ k \in {4+n, 5+n, 6+n, 7+n, 8+n, 9+n}
          <6>1. 3 < k /\ k < 4 + n => k - 3 \in 1..n /\ k = 3 + (k - 3)
            BY <4>1, <4>3
          <6>2. k \in 1..(9 + n)
            BY <4>3
          <6> QED BY <4>0, <6>1, <6>2
        <5>2. CASE k \in {1, 2, 3}
          <6>1. \A i \in 1..n : ~(k + 1 > 3 + i)
            BY <4>1, <5>2
          <6>2. CASE k = 1
            <7>1. emulator'["mode"] = "idle"
              BY <3>2, <4>1, <4>3, <6>2, ScriptHead DEF CtpRegisters
            <7> QED BY <4>1, <6>1, <6>2, <7>1
          <6>3. CASE k = 2
            <7>1. emulator'["reset"] = TRUE
              BY <3>2, <4>1, <4>3, <6>3, HoldOrLetGo DEF CtpRegisters
            <7> QED BY <4>1, <6>1, <6>3, <7>1
          <6>4. CASE k = 3
            <7>1. h[1] = "orbit" /\ h[2] = r.orbit
              BY <4>1, <4>3, <6>4 DEF OwnWrite
            <7>2. emulator'["orbit"] = r.orbit /\ emulator'["reset"] = TRUE
              BY <3>2, <4>5, <6>4, <7>1 DEF CtpRegisters
            <7> QED BY <4>1, <6>1, <6>4, <7>2
          <6> QED BY <5>2, <6>2, <6>3, <6>4
        <5>3. ASSUME NEW i \in 1..n, k = 3 + i PROVE Reached(emulator', k + 1)
          <6>1. h[1] = d[i][1] /\ h[2] = d[i][2] /\ d[i][1] \in {"phys", "hc", "cal", "fixed"}
            BY <4>1, <4>2, <4>3, <5>3
          <6>2. /\ emulator'["reset"] = emulator["reset"] /\ emulator'["orbit"] = emulator["orbit"]
                /\ emulator'[d[i][1]] = d[i][2]
            BY <3>2, <6>1 DEF CtpRegisters
          <6>3. \A j \in 1..n : j # i => emulator'[d[j][1]] = emulator[d[j][1]]
            BY <3>2, <4>2, <6>1 DEF CtpRegisters
          <6>4. i \in Nat /\ k > 3 /\ k + 1 < 10 + n /\ ~(k + 1 > 5 + n)
            BY <4>1, <5>3
          <6>5. \A j \in 1..n : k + 1 > 3 + j => emulator'[d[j][1]] = d[j][2]
            <7> TAKE j \in 1..n
            <7>1. CASE j = i
              BY <6>2, <7>1
            <7>2. CASE j # i /\ k + 1 > 3 + j
              BY <4>1, <4>5, <5>3, <6>3, <7>2
            <7> QED BY <7>1, <7>2
          <6>6. emulator["reset"] = TRUE /\ emulator["orbit"] = r.orbit
            BY <4>5, <6>4
          <6> QED BY <4>1, <5>3, <6>2, <6>4, <6>5, <6>6
        <5>4. CASE k \in {4+n, 5+n, 6+n, 7+n, 8+n, 9+n}
          <6>0. k > 3 /\ \A i \in 1..n : k > 3 + i
            BY <4>0, <5>4
          <6>1. /\ k = 4 + n => h[1] = "mode" /\ h[2] = "idle"
                /\ k = 5 + n => h[1] = "mode" /\ h[2] = RunMode(r)
                /\ k = 6 + n => h[1] = "bcMax" /\ h[2] = r.bcMax
                /\ k = 7 + n => h[1] = "hbMax" /\ h[2] = r.hbMax
                /\ k = 8 + n => h[1] = "prescaler" /\ h[2] = r.prescaler
                /\ k = 9 + n => h[1] = "reset"
            BY <4>1, <4>3, ScriptHead, HoldOrLetGo DEF OwnWrite
          <6>2. h[1] \in {"mode", "bcMax", "hbMax", "prescaler", "reset"}
            BY <5>4, <6>1
          <6>3. \A i \in 1..n : emulator'[d[i][1]] = d[i][2]
            BY <3>2, <4>2, <4>5, <6>0, <6>2, SMTT(30) DEF CtpRegisters
          <6>4. emulator'["orbit"] = r.orbit
            BY <3>2, <4>5, <6>0, <6>2 DEF CtpRegisters
          <6>5. k < 9 + n => emulator'["reset"] = TRUE
            BY <3>2, <4>1, <4>5, <5>4, <6>0, <6>1, SMTT(30) DEF CtpRegisters
          <6>6. k > 4 + n => emulator'["mode"] = RunMode(r)
            BY <3>2, <4>1, <4>5, <5>4, <6>1, SMTT(30) DEF CtpRegisters
          <6>7. k > 5 + n => emulator'["bcMax"] = r.bcMax
            BY <3>2, <4>1, <4>5, <5>4, <6>1, SMTT(30) DEF CtpRegisters
          <6>8. k > 6 + n => emulator'["hbMax"] = r.hbMax
            BY <3>2, <4>1, <4>5, <5>4, <6>1, SMTT(30) DEF CtpRegisters
          <6>9. k > 7 + n => emulator'["prescaler"] = r.prescaler
            BY <3>2, <4>1, <4>5, <5>4, <6>1, SMTT(30) DEF CtpRegisters
          <6>10. k \in Nat /\ k + 1 # 2
            BY <4>0, <5>4
          <6>11. k + 1 < 10 + n => k < 9 + n
            BY <4>0, <6>10
          <6>12. /\ k + 1 > 5 + n => k > 4 + n
                 /\ k + 1 > 6 + n => k > 5 + n
                 /\ k + 1 > 7 + n => k > 6 + n
                 /\ k + 1 > 8 + n => k > 7 + n
            BY <4>0, <6>10
          <6>13. \A i \in 1..n : k + 1 > 3 + i => emulator'[d[i][1]] = d[i][2]
            BY <6>3
          <6>14. /\ k + 1 > 2 /\ k + 1 < 10 + n => emulator'["reset"] = TRUE
                 /\ k + 1 > 5 + n => emulator'["mode"] = RunMode(r)
                 /\ k + 1 > 6 + n => emulator'["bcMax"] = r.bcMax
                 /\ k + 1 > 7 + n => emulator'["hbMax"] = r.hbMax
                 /\ k + 1 > 8 + n => emulator'["prescaler"] = r.prescaler
            BY <6>5, <6>6, <6>7, <6>8, <6>9, <6>11, <6>12
          <6> QED BY <6>4, <6>10, <6>13, <6>14
        <5> QED BY <5>1, <5>2, <5>3, <5>4
      <4>7. CASE k < 9 + n
        <5>1. Sending' => k = 1 /\ FALSE
          <6>1. k = 1 => emulator'["mode"] = "idle"
            BY <4>1, <4>6
          <6>2. k > 1 => emulator'["reset"] = TRUE
            BY <4>1, <4>3, <4>6, <4>7
          <6> QED BY <4>3, <6>1, <6>2 DEF Sending
        <5>2. StartLeft(ctpRequest, k + 1)'
          <6>1. Len(ctpTodo') = Len(w) + 1 - (k + 1)
            <7>1. Len(ctpTodo') = (10 + n - k) - 1 /\ Len(w) = 9 + n /\ k \in Int
              BY <2>3, <2>5, <4>1, <4>3
            <7> HIDE DEF Reached
            <7> QED BY <4>0, <7>1
          <6>2. \A i \in 1..Len(ctpTodo') : ctpTodo'[i] = w[(k + 1) - 1 + i]
            BY <4>1, <4>3, <4>4
          <6> QED BY <2>2, <6>1, <6>2, SMTT(30) DEF StartLeft, w, r
        <5>3. StartPassed(ctpRequest, k + 1)'
          BY <2>2, <4>1, <4>3, <4>6, <4>7 DEF StartPassed, r, d, n
        <5>4. k + 1 \in 1..Len(StartWrites(ctpRequest'))
          BY <2>2, <4>1, <4>3, <4>7, SMTT(30) DEF w, r
        <5>5. SendsWhatWasAsked'
          BY <5>1 DEF SendsWhatWasAsked
        <5>6. \E T : ctpTodo' \in Seq(T)
          BY <2>3, <2>5
        <5>7. \E i \in 1..Len(StartWrites(ctpRequest')) :
                 StartLeft(ctpRequest, i)' /\ StartPassed(ctpRequest, i)'
          BY <5>2, <5>3, <5>4, Zenon
        <5> HIDE DEF Reached
        <5> QED BY <3>2, <5>5, <5>6, <5>7 DEF CtpInv
      <4>8. CASE k = 9 + n
        <5>1. ctpTodo' = <<>>
          BY <2>3, <2>5, <4>1, <4>3, <4>8, SMTT(30)
        <5>2. inForce' = {r}
          BY <2>5, <4>1, <4>3, <4>8 DEF HoldWrite, LetGoWrite, r
        <5>3. SendsWhatWasAsked'
          <6>1. emulator'["mode"] = RunMode(r) /\ emulator'["orbit"] = r.orbit
            BY <4>1, <4>6, <4>8
          <6>2. /\ emulator'["bcMax"] = r.bcMax /\ emulator'["hbMax"] = r.hbMax
                /\ emulator'["prescaler"] = r.prescaler
            BY <4>1, <4>6, <4>8
          <6>3. \A i \in 1..n : emulator'[d[i][1]] = d[i][2]
            BY <4>1, <4>6, <4>8
          <6>4. r.mode \in {"periodic", "hc", "cal"} =>
                  \A i \in 1..3 : emulator'[Dividers(r)[i][1]] = Dividers(r)[i][2]
            BY <4>2, <6>3 DEF d
          <6>5. r.mode = "fixed" => emulator'["phys"] = Inactive
            BY <4>1, <4>2, <6>3
          <6> QED BY <5>2, <6>1, <6>2, <6>4, <6>5 DEF SendsWhatWasAsked
        <5>4. ctpTodo' \in Seq(HarmlessWrites)
          BY <5>1
        <5> QED BY <3>2, <5>3, <5>4 DEF CtpInv
      <4> QED BY <4>1, <4>3, <4>7, <4>8
    <3> QED BY <3>3, <3>4 DEF CtpInv
  <2> QED BY <1>5, <2>4, <2>5 DEF WriteSetting, HoldWrite, LetGoWrite
<1> QED BY <1>1, <1>2, <1>3, <1>4, <1>5 DEF CtpNext

-----------------------------------------------------------------------------
(* A nonempty set of numbers has a least element. *)
LEMMA LeastNumber ==
  ASSUME NEW T, T \subseteq Nat, T # {}
  PROVE  \E n \in T : \A m \in T : n <= m
<1> DEFINE Smaller == {ss \in Nat \X Nat : ss[1] < ss[2]}
<1>1. IsWellFoundedOn(Smaller, Nat)
  BY NatLessThanWellFounded DEF OpToRel
<1>2. PICK n \in T : \A m \in T : <<m, n>> \notin Smaller
  <2> HIDE DEF Smaller
  <2> QED BY <1>1, WFMin
<1>3. \A m \in T : ~(m < n)
  <2> SUFFICES ASSUME NEW m \in T, m < n PROVE FALSE
    OBVIOUS
  <2>1. <<m, n>> \in Smaller
    OBVIOUS
  <2> QED BY <1>2, <2>1
<1> QED BY <1>3

(* A recursive function on the first n numbers exists: the least number    *)
(* without one would be no less than that before it.                       *)
LEMMA RecursionExists ==
  ASSUME NEW X, NEW x0 \in X, NEW n \in Nat, NEW step \in [1..n -> [X -> X]]
  PROVE  \E f \in [0..n -> X] : f[0] = x0 /\ \A i \in 1..n : f[i] = step[i][f[i-1]]
<1> DEFINE Recursive(f, m) ==
             /\ f \in [0..m -> X]
             /\ f[0] = x0
             /\ \A i \in 1..m : f[i] = step[i][f[i-1]]
           T == {m \in 0..n : ~ \E f : Recursive(f, m)}
<1>1. T = {}
  <2> SUFFICES ASSUME T # {} PROVE FALSE
    OBVIOUS
  <2>1. T \subseteq Nat
    OBVIOUS
  <2>2. PICK m \in T : \A k \in T : m <= k
    <3> HIDE DEF T
    <3> QED BY <2>1, LeastNumber
  <2>3. m \in 0..n /\ ~ \E f : Recursive(f, m)
    BY <2>2
  <2>4. CASE m = 0
    <3> DEFINE f == [i \in 0..0 |-> x0]
    <3>1. Recursive(f, 0)
      OBVIOUS
    <3> QED BY <2>3, <2>4, <3>1
  <2>5. CASE m > 0
    <3>1. m - 1 \in 0..n /\ m - 1 \notin T
      <4>1. m - 1 \in 0..n /\ ~(m <= m - 1)
        BY <2>3, <2>5
      <4> HIDE DEF T
      <4> QED BY <2>2, <4>1
    <3>2. PICK f : Recursive(f, m - 1)
      BY <3>1
    <3> DEFINE g == [i \in 0..m |-> IF i < m THEN f[i] ELSE step[m][f[m-1]]]
    <3>3. f[m-1] \in X /\ m \in 1..n /\ m - 1 \in 0..(m - 1)
      BY <2>3, <2>5, <3>2
    <3>4. step[m][f[m-1]] \in X
      BY <3>3
    <3>5. g \in [0..m -> X] /\ g[0] = x0
      BY <2>3, <2>5, <3>2, <3>4
    <3>6. ASSUME NEW i \in 1..m PROVE g[i] = step[i][g[i-1]]
      <4>1. i - 1 \in 0..m /\ i - 1 < m /\ g[i-1] = f[i-1]
        BY <2>3
      <4>2. CASE i < m
        BY <2>3, <3>2, <4>1, <4>2
      <4>3. CASE i = m
        BY <2>3, <4>1, <4>3
      <4> QED BY <2>3, <4>2, <4>3
    <3>7. Recursive(g, m)
      BY <3>5, <3>6
    <3> QED BY <2>3, <3>7
  <2> QED BY <2>3, <2>4, <2>5
<1>2. PICK f : Recursive(f, n)
  <2>1. n \in 0..n
    OBVIOUS
  <2> QED BY <1>1, <2>1
<1> QED BY <1>2

(* What a text says, digit by digit, and what is read of it                *)
SaidUpTo(text) ==
  CHOOSE u : u = [i \in 0..Len(text.digits) |->
                    IF i = 0 THEN 0 ELSE u[i-1] * text.base + text.digits[i]]
ReadUpTo(text, size) ==
  CHOOSE u : u = [i \in 0..Len(text.digits) |->
                    IF i = 0 THEN 0 ELSE AddDigit(u[i-1], text.digits[i], text.base, size - 1)]

LEMMA SaidIsLast == ASSUME NEW text PROVE Said(text) = SaidUpTo(text)[Len(text.digits)]
BY DEF Said, SaidUpTo

LEMMA ValueIsLast ==
  ASSUME NEW text, NEW size PROVE Value(text, size) = ReadUpTo(text, size)[Len(text.digits)]
BY DEF Value, ReadUpTo

LEMMA SaidSteps ==
  ASSUME NEW text, IsText(text)
  PROVE  /\ SaidUpTo(text)[0] = 0 /\ Len(text.digits) \in Nat
         /\ \A i \in 1..Len(text.digits) :
              /\ text.digits[i] \in 0..text.base-1
              /\ SaidUpTo(text)[i] = SaidUpTo(text)[i-1] * text.base + text.digits[i]
<1>1. PICK n \in Nat : n = Len(text.digits)
  BY DEF IsText
<1>2. text.base \in Nat /\ \A i \in 1..n : text.digits[i] \in 0..text.base-1
  BY <1>1 DEF IsText
<1> DEFINE X == Nat
           step == [i \in 1..n |-> [x \in X |-> x * text.base + text.digits[i]]]
<1>3. step \in [1..n -> [X -> X]] /\ 0 \in X
  BY <1>2
<1>4. PICK f \in [0..n -> X] : f[0] = 0 /\ \A i \in 1..n : f[i] = step[i][f[i-1]]
  <2> HIDE DEF step, X
  <2> QED BY <1>3, RecursionExists
<1>5. \A i \in 1..n : f[i] = f[i-1] * text.base + text.digits[i]
  <2> SUFFICES ASSUME NEW i \in 1..n PROVE f[i] = f[i-1] * text.base + text.digits[i]
    OBVIOUS
  <2>1. i - 1 \in 0..n
    OBVIOUS
  <2>2. f[i-1] \in Nat
    BY <2>1
  <2> QED BY <1>4, <2>2
<1> HIDE DEF step
<1>6. f = [i \in 0..n |-> IF i = 0 THEN 0 ELSE f[i-1] * text.base + text.digits[i]]
  <2>1. \A i \in 0..n : f[i] = IF i = 0 THEN 0 ELSE f[i-1] * text.base + text.digits[i]
    <3> SUFFICES ASSUME NEW i \in 0..n
                 PROVE  f[i] = IF i = 0 THEN 0 ELSE f[i-1] * text.base + text.digits[i]
      OBVIOUS
    <3>1. i = 0 \/ i \in 1..n
      OBVIOUS
    <3> QED BY <1>4, <1>5, <3>1
  <2> QED BY <2>1
<1>7. SaidUpTo(text) = [i \in 0..n |-> IF i = 0 THEN 0 ELSE SaidUpTo(text)[i-1] * text.base + text.digits[i]]
  BY <1>1, <1>6 DEF SaidUpTo
<1>8. PICK u : u = SaidUpTo(text)
  OBVIOUS
<1>9. u = [i \in 0..n |-> IF i = 0 THEN 0 ELSE u[i-1] * text.base + text.digits[i]]
  BY <1>7, <1>8
<1>10. u[0] = 0 /\ \A i \in 1..n : u[i] = u[i-1] * text.base + text.digits[i]
  <2>1. \A i \in 0..n : u[i] = IF i = 0 THEN 0 ELSE u[i-1] * text.base + text.digits[i]
    BY <1>9
  <2>2. 0 \in 0..n /\ \A i \in 1..n : i \in 0..n /\ i # 0
    OBVIOUS
  <2> QED BY <2>1, <2>2
<1> QED BY <1>1, <1>2, <1>8, <1>10

LEMMA AddTypes ==
  ASSUME NEW v \in Nat \cup {Refused}, NEW b \in Nat \ {0}, NEW d \in 0..b-1, NEW max \in Nat
  PROVE  /\ AddDigit(v, d, b, max) \in Nat \cup {Refused}
         /\ AddDigit(v, d, b, max) =
              IF v = Refused \/ v * b + d > max THEN Refused ELSE v * b + d
<1>1. CASE v = Refused
  BY <1>1 DEF AddDigit
<1>2. CASE v \in Nat
  <2>1. v # Refused
    BY <1>2 DEF Refused
  <2>2. PICK q \in Nat : q = max \div b /\ max < q * b + b
    <3>1. max \div b \in Nat /\ max % b \in 0..(b - 1) /\ max = b * (max \div b) + (max % b)
      OBVIOUS
    <3>2. PICK q \in Nat : q = max \div b
      BY <3>1
    <3>3. PICK x \in Nat : x = b * q /\ x = q * b
      OBVIOUS
    <3>4. max < x + b
      BY <3>1, <3>2, <3>3
    <3> QED BY <3>2, <3>3, <3>4
  <2>3. v > q => v * b > max
    <3> SUFFICES ASSUME v > q PROVE v * b > max
      OBVIOUS
    <3>1. PICK e \in Nat : v = q + 1 + e
      BY <1>2
    <3>2. PICK x \in Nat, y \in Nat : x = q * b /\ y = e * b
      OBVIOUS
    <3>3. v * b = q * b + b + e * b
      BY <3>1
    <3> QED BY <2>2, <3>2, <3>3
  <2>4. PICK x \in Nat : x = v * b
    BY <1>2
  <2>5. (v > q \/ x > max - d) <=> x + d > max
    BY <1>2, <2>3, <2>4
  <2>6. x + d \in Nat
    OBVIOUS
  <2> QED BY <2>1, <2>2, <2>4, <2>5, <2>6 DEF AddDigit
<1> QED BY <1>1, <1>2

LEMMA ReadSteps ==
  ASSUME NEW text, IsText(text), NEW size \in Nat \ {0}
  PROVE  /\ ReadUpTo(text, size)[0] = 0
         /\ \A i \in 1..Len(text.digits) :
              ReadUpTo(text, size)[i] =
                AddDigit(ReadUpTo(text, size)[i-1], text.digits[i], text.base, size - 1)
<1>1. PICK n \in Nat, max \in Nat : n = Len(text.digits) /\ max = size - 1
  BY DEF IsText
<1>2. text.base \in Nat \ {0} /\ \A i \in 1..n : text.digits[i] \in 0..text.base-1
  BY <1>1 DEF IsText
<1> DEFINE X == Nat \cup {Refused}
           Add(x, i) == AddDigit(x, text.digits[i], text.base, max)
           step == [i \in 1..n |-> [x \in X |-> Add(x, i)]]
<1>3. \A i \in 1..n, x \in X : Add(x, i) \in X
  BY <1>2, AddTypes
<1>4. 0 \in X
  OBVIOUS
<1> HIDE DEF X, Add
<1>5. step \in [1..n -> [X -> X]]
  BY <1>3
<1>6. PICK f \in [0..n -> X] : f[0] = 0 /\ \A i \in 1..n : f[i] = step[i][f[i-1]]
  <2> HIDE DEF step
  <2> QED BY <1>4, <1>5, RecursionExists
<1>7. \A i \in 1..n : f[i] = Add(f[i-1], i)
  <2> SUFFICES ASSUME NEW i \in 1..n PROVE f[i] = Add(f[i-1], i)
    OBVIOUS
  <2>1. i - 1 \in 0..n
    OBVIOUS
  <2>2. f[i-1] \in X
    BY <2>1
  <2> QED BY <1>6, <2>2
<1> HIDE DEF step
<1>8. f = [i \in 0..n |-> IF i = 0 THEN 0 ELSE Add(f[i-1], i)]
  <2>1. \A i \in 0..n : f[i] = IF i = 0 THEN 0 ELSE Add(f[i-1], i)
    <3> SUFFICES ASSUME NEW i \in 0..n PROVE f[i] = IF i = 0 THEN 0 ELSE Add(f[i-1], i)
      OBVIOUS
    <3>1. i = 0 \/ i \in 1..n
      OBVIOUS
    <3> QED BY <1>6, <1>7, <3>1
  <2> QED BY <2>1
<1>9. ReadUpTo(text, size) = [i \in 0..n |-> IF i = 0 THEN 0 ELSE Add(ReadUpTo(text, size)[i-1], i)]
  BY <1>1, <1>8 DEF ReadUpTo, Add
<1>10. PICK u : u = ReadUpTo(text, size)
  OBVIOUS
<1>11. u = [i \in 0..n |-> IF i = 0 THEN 0 ELSE Add(u[i-1], i)]
  BY <1>9, <1>10
<1>12. u[0] = 0 /\ \A i \in 1..n : u[i] = Add(u[i-1], i)
  <2>1. \A i \in 0..n : u[i] = IF i = 0 THEN 0 ELSE Add(u[i-1], i)
    BY <1>11
  <2>2. 0 \in 0..n /\ \A i \in 1..n : i \in 0..n /\ i # 0
    OBVIOUS
  <2> QED BY <2>1, <2>2
<1> QED BY <1>1, <1>10, <1>12 DEF Add

(* A text is read as what it says, or refused if that does not fit         *)
(* (getValueFromString).                                                   *)
LEMMA ValueOfText ==
  ASSUME NEW text, IsText(text), NEW size \in Nat \ {0}
  PROVE  /\ Said(text) \in Nat
         /\ Value(text, size) = IF Said(text) < size THEN Said(text) ELSE Refused
<1> DEFINE n == Len(text.digits)
           b == text.base
           s(i) == SaidUpTo(text)[i]
           v(i) == ReadUpTo(text, size)[i]
           Agree(i) == s(i) \in Nat /\ v(i) = IF s(i) < size THEN s(i) ELSE Refused
           T == {i \in 0..n : ~Agree(i)}
<1>1. /\ n \in Nat /\ b \in Nat \ {0} /\ s(0) = 0 /\ v(0) = 0
      /\ \A i \in 1..n : /\ text.digits[i] \in 0..b-1
                         /\ s(i) = s(i-1) * b + text.digits[i]
                         /\ v(i) = AddDigit(v(i-1), text.digits[i], b, size - 1)
  BY SaidSteps, ReadSteps DEF IsText
<1> HIDE DEF s, v, b
<1>2. T = {}
  <2> SUFFICES ASSUME T # {} PROVE FALSE
    OBVIOUS
  <2>1. T \subseteq Nat
    BY <1>1
  <2>2. PICK m \in T : \A k \in T : m <= k
    <3> HIDE DEF T
    <3> QED BY <2>1, LeastNumber
  <2>3. m \in 0..n /\ ~Agree(m)
    BY <2>2
  <2>4. m # 0
    BY <1>1, <2>3
  <2>5. m - 1 \in 0..n /\ Agree(m - 1) /\ m \in 1..n
    <3>1. m - 1 \in 0..n /\ ~(m <= m - 1)
      BY <1>1, <2>3, <2>4
    <3>2. m - 1 \notin T
      <4> HIDE DEF T
      <4> QED BY <2>2, <3>1
    <3> QED BY <1>1, <2>3, <2>4, <3>1, <3>2
  <2>6. PICK x \in Nat, d \in 0..b-1 : x = s(m-1) /\ d = text.digits[m]
    BY <1>1, <2>5
  <2>7. s(m) = x * b + d /\ x * b \in Nat /\ x * b >= x
    <3>1. PICK c \in Nat : b = c + 1
      BY <1>1
    <3>2. PICK y \in Nat : y = x * c
      OBVIOUS
    <3>3. x * b = y + x
      BY <3>1, <3>2
    <3>4. s(m) = x * b + d
      BY <1>1, <2>5, <2>6
    <3> QED BY <3>3, <3>4
  <2>8. v(m-1) \in Nat \cup {Refused} /\ v(m) = AddDigit(v(m-1), d, b, size - 1)
    BY <1>1, <2>5, <2>6
  <2>9. v(m) = IF v(m-1) = Refused \/ v(m-1) * b + d > size - 1 THEN Refused ELSE v(m-1) * b + d
    <3>1. size - 1 \in Nat /\ b \in Nat \ {0}
      BY <1>1
    <3>2. PICK w \in Nat \cup {Refused} : w = v(m-1)
      BY <2>8
    <3>3. AddDigit(w, d, b, size - 1) =
            IF w = Refused \/ w * b + d > size - 1 THEN Refused ELSE w * b + d
      BY <3>1, AddTypes
    <3> QED BY <2>8, <3>2, <3>3
  <2>10. CASE x < size
    <3>1. v(m-1) = x /\ x # Refused
      BY <2>5, <2>6, <2>10 DEF Refused
    <3> QED BY <2>3, <2>7, <2>9, <3>1
  <2>11. CASE ~(x < size)
    <3>1. v(m-1) = Refused
      BY <2>5, <2>6, <2>11
    <3> QED BY <2>3, <2>7, <2>9, <2>11, <3>1
  <2> QED BY <2>10, <2>11
<1>3. Agree(n)
  BY <1>1, <1>2
<1>4. Said(text) = s(n) /\ Value(text, size) = v(n)
  BY SaidIsLast, ValueIsLast DEF s, v
<1> QED BY <1>3, <1>4

LEMMA SizesAreNumbers ==
  HalfWord \in Nat \ {0} /\ RegisterSize \in Nat \ {0} /\ PatternSize \in Nat \ {0}
<1>1. HalfWord \in Nat \ {0}
  BY PatternAssumption
<1>2. \A a, b \in Nat \ {0} : a * b \in Nat \ {0}
  OBVIOUS
<1>3. RegisterSize \in Nat \ {0}
  BY <1>1, <1>2 DEF RegisterSize
<1>4. RegisterSize * RegisterSize \in Nat \ {0}
  BY <1>2, <1>3
<1> QED BY <1>1, <1>2, <1>3, <1>4 DEF PatternSize

LEMMA ParsedFields ==
  ASSUME NEW r \in PatternRequests
  PROVE  /\ Parsed(r).pat = [p \in Patterns |-> Value(r.pat[p], PatternSize)]
         /\ Parsed(r).number = [f \in NumberNames |-> Value(r.number[f], RegisterSize)]
BY PatternAssumption DEF Parsed

LEMMA TextsRead == TextsAreRead
<1> SUFFICES ASSUME NEW r \in PatternRequests
             PROVE  /\ IsRefused(Parsed(r)) <=> ~Fits(r)
                    /\ Fits(r) => \A p \in Patterns : Parsed(r).pat[p] = Said(r.pat[p])
  BY DEF TextsAreRead
<1>1. ASSUME NEW p \in Patterns
      PROVE  /\ Parsed(r).pat[p] = Refused <=> ~(Said(r.pat[p]) < PatternSize)
             /\ Said(r.pat[p]) < PatternSize => Parsed(r).pat[p] = Said(r.pat[p])
  <2>1. IsText(r.pat[p])
    BY PatternAssumption
  <2>2. /\ Said(r.pat[p]) \in Nat
        /\ Value(r.pat[p], PatternSize) =
             IF Said(r.pat[p]) < PatternSize THEN Said(r.pat[p]) ELSE Refused
    BY <2>1, SizesAreNumbers, ValueOfText
  <2>3. Parsed(r).pat[p] = Value(r.pat[p], PatternSize)
    BY ParsedFields
  <2>4. Said(r.pat[p]) # Refused
    BY <2>2 DEF Refused
  <2> QED BY <2>2, <2>3, <2>4
<1>2. ASSUME NEW f \in NumberNames
      PROVE  Parsed(r).number[f] = Refused <=> ~(Said(r.number[f]) < RegisterSize)
  <2>1. IsText(r.number[f])
    BY PatternAssumption
  <2>2. /\ Said(r.number[f]) \in Nat
        /\ Value(r.number[f], RegisterSize) =
             IF Said(r.number[f]) < RegisterSize THEN Said(r.number[f]) ELSE Refused
    BY <2>1, SizesAreNumbers, ValueOfText
  <2>3. Parsed(r).number[f] = Value(r.number[f], RegisterSize)
    BY ParsedFields
  <2>4. Said(r.number[f]) # Refused
    BY <2>2 DEF Refused
  <2> QED BY <2>2, <2>3, <2>4
<1> QED BY <1>1, <1>2 DEF IsRefused, Fits

(* Division, and the words of a pattern put together again                 *)
LEMMA DivisionIsUnique ==
  ASSUME NEW m \in Nat \ {0}, NEW q \in Nat, NEW r \in 0..m-1
  PROVE  (q * m + r) \div m = q /\ (q * m + r) % m = r
<1>1. PICK n \in Nat : n = q * m + r
  OBVIOUS
<1>2. n \div m \in Nat /\ n % m \in 0..(m - 1) /\ n = m * (n \div m) + (n % m)
  OBVIOUS
<1>3. PICK q1 \in Nat, r1 \in 0..m-1 : q1 = n \div m /\ r1 = n % m
  BY <1>2
<1>4. n = q1 * m + r1
  BY <1>2, <1>3
<1>5. ASSUME NEW i \in Nat, NEW j \in Nat, NEW k \in 0..m-1, NEW l \in 0..m-1, i < j
      PROVE  i * m + k # j * m + l
  <2>1. PICK e \in Nat : j = i + 1 + e
    BY <1>5
  <2>2. PICK x \in Nat, y \in Nat : x = i * m /\ y = e * m
    OBVIOUS
  <2>3. j * m = x + m + y
    BY <2>1, <2>2
  <2> QED BY <2>2, <2>3
<1>6. q1 = q
  BY <1>1, <1>4, <1>5
<1>7. PICK x \in Nat : x = q * m
  OBVIOUS
<1>8. r1 = r
  BY <1>1, <1>4, <1>6, <1>7
<1> QED BY <1>1, <1>3, <1>6, <1>8

LEMMA PatternParts ==
  ASSUME NEW n \in 0..PatternSize-1
  PROVE  (PatternWord(n, 3) * RegisterSize + PatternWord(n, 2)) * RegisterSize + PatternWord(n, 1) = n
<1>1. PICK m \in Nat \ {0}, h \in Nat \ {0} : m = RegisterSize /\ h = HalfWord
  BY SizesAreNumbers
<1>2. /\ n \div m \in Nat /\ n % m \in 0..(m - 1) /\ n = m * (n \div m) + (n % m) /\ n \in Nat
  OBVIOUS
<1>3. PICK q \in Nat, a \in 0..m-1 : q = n \div m /\ a = n % m /\ n = m * q + a
  BY <1>2
<1>4. q \div m \in Nat /\ q % m \in 0..(m - 1) /\ q = m * (q \div m) + (q % m)
  OBVIOUS
<1>5. PICK t \in Nat, b \in 0..m-1 : t = q \div m /\ b = q % m /\ q = m * t + b
  BY <1>4
<1>6. PICK mm \in Nat \ {0} : mm = m * m
  OBVIOUS
<1>7. n = t * mm + (b * m + a)
  <2>1. m * q = m * (m * t) + m * b
    BY <1>5
  <2>2. m * (m * t) = t * (m * m)
    OBVIOUS
  <2>3. m * b = b * m
    OBVIOUS
  <2>4. PICK x \in Nat, y \in Nat : x = t * mm /\ y = b * m
    OBVIOUS
  <2> QED BY <1>3, <1>6, <2>1, <2>2, <2>3, <2>4
<1>8. b * m + a \in 0..mm-1
  <2>1. PICK e \in Nat : m = b + 1 + e
    OBVIOUS
  <2>2. m * m = b * m + m + e * m
    BY <2>1
  <2>3. PICK x \in Nat, y \in Nat : x = b * m /\ y = e * m
    OBVIOUS
  <2> QED BY <1>6, <2>2, <2>3
<1>9. n \div mm = t
  <2>1. PICK r \in 0..mm-1 : r = b * m + a
    BY <1>8
  <2> QED BY <1>7, <2>1, DivisionIsUnique
<1>10. t \in 0..h-1
  <2>1. PatternSize = mm * h
    BY <1>1, <1>6 DEF PatternSize
  <2>2. PICK r \in Nat : r = b * m + a
    BY <1>8
  <2>3. n < mm * h /\ n = t * mm + r
    BY <1>7, <2>1, <2>2, SizesAreNumbers
  <2>4. t >= h => t * mm >= mm * h
    <3> SUFFICES ASSUME t >= h PROVE t * mm >= mm * h
      OBVIOUS
    <3>1. PICK e \in Nat : t = h + e
      OBVIOUS
    <3>2. PICK x \in Nat, y \in Nat : x = mm * h /\ y = e * mm
      OBVIOUS
    <3>3. t * mm = x + y
      BY <3>1, <3>2
    <3> QED BY <3>2, <3>3
  <2>5. PICK x \in Nat, y \in Nat : x = t * mm /\ y = mm * h
    OBVIOUS
  <2> QED BY <2>2, <2>3, <2>4, <2>5
<1>11. t % h = t
  <2>1. (0 * h + t) % h = t
    BY <1>10, DivisionIsUnique
  <2> QED BY <2>1
<1>12. PatternWord(n, 1) = a /\ PatternWord(n, 2) = b /\ PatternWord(n, 3) = t
  <2>1. PatternWord(n, 1) = n % RegisterSize
    BY DEF PatternWord
  <2>2. PatternWord(n, 2) = (n \div RegisterSize) % RegisterSize
    BY DEF PatternWord
  <2>3. PatternWord(n, 3) = (n \div (RegisterSize * RegisterSize)) % HalfWord
    BY DEF PatternWord
  <2>4. PatternWord(n, 1) = a
    BY <1>1, <1>3, <2>1
  <2>5. PatternWord(n, 2) = b
    BY <1>1, <1>3, <1>5, <2>2
  <2>6. PatternWord(n, 3) = t
    BY <1>1, <1>6, <1>9, <1>11, <2>3
  <2> QED BY <2>4, <2>5, <2>6
<1>13. (t * m + b) * m + a = n
  <2>1. t * m + b = q
    BY <1>5
  <2>2. q * m + a = n
    BY <1>3
  <2> QED BY <2>1, <2>2
<1> QED BY <1>1, <1>12, <1>13

LEMMA LengthIsReadBack ==
  ASSUME NEW m \in Nat \ {0}, NEW l \in 0..m-1, NEW d \in 0..m-1
  PROVE  (((l + d) % m) + m - d) % m = l
<1>1. CASE l + d < m
  <2>1. (0 * m + (l + d)) % m = l + d
    BY <1>1, DivisionIsUnique
  <2>2. (1 * m + l) % m = l
    BY DivisionIsUnique
  <2> QED BY <2>1, <2>2
<1>2. CASE l + d >= m
  <2>1. (1 * m + (l + d - m)) % m = l + d - m
    BY <1>2, DivisionIsUnique
  <2>2. (0 * m + l) % m = l
    BY DivisionIsUnique
  <2>3. 1 * m + (l + d - m) = l + d /\ (l + d - m) + m - d = 0 * m + l
    OBVIOUS
  <2>4. (l + d) % m = l + d - m
    BY <2>1, <2>3
  <2> QED BY <2>2, <2>3, <2>4
<1> QED BY <1>1, <1>2

-----------------------------------------------------------------------------
(* The pattern player: from its third write to the last before it is let   *)
(* go it is held, and the registers passed have what the call asks for.    *)
IsCall(pl) ==
  /\ pl.pat \in [Patterns -> 0..PatternSize-1]
  /\ pl.number \in [NumberNames -> 0..RegisterSize-1]

WordsIn(n) ==
  \A p \in Patterns, k \in 1..3 :
    3 * p + k + 2 < n => player.word[p][k] = PatternWord(playing.pat[p], k)
NumbersIn(n) ==
  \A i \in 1..8 : i + 14 < n => player.number[Numbers[i]] = NumberWritten(playing, Numbers[i])
ShowsPlayed == ReadBack = [pat |-> played.pat, number |-> played.number]

PlayerTypeOK ==
  /\ DOMAIN player = {"downstream", "cfg", "atStart", "exe", "word", "number"}
  /\ player.cfg \in BOOLEAN
  /\ player.word \in [Patterns -> [1..3 -> Int]] /\ player.number \in [NumberNames -> Int]
  /\ IsCall(playing) /\ IsCall(played) /\ playStep \in Nat

PlayerInv ==
  /\ PlayerTypeOK
  /\ playStep \in 3..23 => player.cfg = TRUE /\ WordsIn(playStep) /\ NumbersIn(playStep)
  /\ player.cfg = FALSE => ShowsPlayed

LEMMA NumbersDiffer ==
  /\ \A i \in 1..8 : Numbers[i] \in NumberNames
  /\ \A f \in NumberNames : \E i \in 1..8 : f = Numbers[i]
  /\ \A i, j \in 1..8 : Numbers[i] = Numbers[j] => i = j
  /\ Numbers[1] = "length1" /\ Numbers[2] = "delay1"
BY DEF Numbers, NumberNames

LEMMA ParsedIsCall ==
  ASSUME NEW r \in PatternRequests, ~IsRefused(Parsed(r)) PROVE IsCall(Parsed(r))
<1>1. ASSUME NEW p \in Patterns PROVE Value(r.pat[p], PatternSize) \in 0..PatternSize-1
  <2>1. IsText(r.pat[p])
    BY PatternAssumption
  <2>2. /\ Said(r.pat[p]) \in Nat
        /\ Value(r.pat[p], PatternSize) =
             IF Said(r.pat[p]) < PatternSize THEN Said(r.pat[p]) ELSE Refused
    BY <2>1, SizesAreNumbers, ValueOfText
  <2>3. Value(r.pat[p], PatternSize) # Refused
    BY ParsedFields DEF IsRefused
  <2> QED BY <2>2, <2>3, SizesAreNumbers
<1>2. ASSUME NEW f \in NumberNames PROVE Value(r.number[f], RegisterSize) \in 0..RegisterSize-1
  <2>1. IsText(r.number[f])
    BY PatternAssumption
  <2>2. /\ Said(r.number[f]) \in Nat
        /\ Value(r.number[f], RegisterSize) =
             IF Said(r.number[f]) < RegisterSize THEN Said(r.number[f]) ELSE Refused
    BY <2>1, SizesAreNumbers, ValueOfText
  <2>3. Value(r.number[f], RegisterSize) # Refused
    BY ParsedFields DEF IsRefused
  <2> QED BY <2>2, <2>3, SizesAreNumbers
<1> QED BY <1>1, <1>2, ParsedFields DEF IsCall

LEMMA WordIsNumber == ASSUME NEW n \in Nat, NEW k \in 1..3 PROVE PatternWord(n, k) \in Int
<1>1. \A a \in Nat, m \in Nat \ {0} : a % m \in Int /\ a \div m \in Nat
  OBVIOUS
<1>2. RegisterSize * RegisterSize \in Nat \ {0}
  BY SizesAreNumbers
<1>3. CASE k = 1
  BY <1>1, <1>3, SizesAreNumbers DEF PatternWord
<1>4. CASE k = 2
  <2>1. n \div RegisterSize \in Nat
    BY <1>1, SizesAreNumbers
  <2> QED BY <1>1, <1>4, <2>1, SizesAreNumbers DEF PatternWord
<1>5. CASE k = 3
  <2>1. PICK m \in Nat \ {0} : m = RegisterSize * RegisterSize
    BY <1>2
  <2>2. n \div m \in Nat
    BY <1>1
  <2>3. PatternWord(n, k) = (n \div m) % HalfWord
    BY <1>5, <2>1 DEF PatternWord
  <2> QED BY <1>1, <2>2, <2>3, SizesAreNumbers
<1> QED BY <1>3, <1>4, <1>5

LEMMA WrittenIsNumber ==
  ASSUME NEW pl, IsCall(pl), NEW f \in NumberNames PROVE NumberWritten(pl, f) \in Int
<1>1. pl.number[f] \in Int
  BY SizesAreNumbers DEF IsCall
<1>2. "length1" \in NumberNames /\ "delay1" \in NumberNames
  BY NumbersDiffer
<1>3. pl.number["length1"] \in Nat /\ pl.number["delay1"] \in Nat
  BY <1>2, SizesAreNumbers DEF IsCall
<1>4. (pl.number["length1"] + pl.number["delay1"]) % RegisterSize \in Int
  BY <1>3, SizesAreNumbers
<1> QED BY <1>1, <1>4 DEF NumberWritten

(* When all is written the read-back shows the call. *)
LEMMA WrittenIsShown ==
  ASSUME PlayerTypeOK, WordsIn(23), NumbersIn(23)
  PROVE  ReadBack = [pat |-> playing.pat, number |-> playing.number]
<1> DEFINE m == RegisterSize
           pats == [p \in Patterns |->
                      (player.word[p][3] * RegisterSize + player.word[p][2]) * RegisterSize
                      + player.word[p][1]]
           numbers == [player.number EXCEPT !["length1"] =
                         (@ + RegisterSize - player.number["delay1"]) % RegisterSize]
<1>1. pats = playing.pat
  <2>1. ASSUME NEW p \in Patterns PROVE pats[p] = playing.pat[p]
    <3>1. \A k \in 1..3 : player.word[p][k] = PatternWord(playing.pat[p], k)
      BY DEF WordsIn, Patterns
    <3>2. playing.pat[p] \in 0..PatternSize-1
      BY DEF PlayerTypeOK, IsCall
    <3>3. /\ player.word[p][1] = PatternWord(playing.pat[p], 1)
          /\ player.word[p][2] = PatternWord(playing.pat[p], 2)
          /\ player.word[p][3] = PatternWord(playing.pat[p], 3)
      BY <3>1
    <3> QED BY <3>2, <3>3, PatternParts
  <2> HIDE DEF pats
  <2>2. DOMAIN pats = Patterns /\ pats = [p \in Patterns |-> pats[p]]
    BY DEF pats
  <2> QED BY <2>1, <2>2 DEF PlayerTypeOK, IsCall
<1>2. numbers = playing.number
  <2>1. /\ "length1" \in NumberNames /\ "delay1" \in NumberNames
        /\ player.number["length1"] =
             (playing.number["length1"] + playing.number["delay1"]) % RegisterSize
        /\ player.number["delay1"] = playing.number["delay1"]
    BY NumbersDiffer DEF NumbersIn, NumberWritten
  <2>2. \A f \in NumberNames \ {"length1"} : player.number[f] = playing.number[f]
    <3> SUFFICES ASSUME NEW f \in NumberNames, f # "length1"
                 PROVE  player.number[f] = playing.number[f]
      OBVIOUS
    <3>1. PICK i \in 1..8 : f = Numbers[i]
      BY NumbersDiffer
    <3>2. player.number[f] = NumberWritten(playing, f)
      BY <3>1 DEF NumbersIn
    <3> QED BY <3>2 DEF NumberWritten
  <2>3. playing.number["length1"] \in 0..m-1 /\ playing.number["delay1"] \in 0..m-1
    BY <2>1 DEF PlayerTypeOK, IsCall
  <2>4. PICK l \in 0..m-1, d \in 0..m-1 : l = playing.number["length1"] /\ d = playing.number["delay1"]
    BY <2>3
  <2>5. (((l + d) % m) + m - d) % m = l
    BY SizesAreNumbers, LengthIsReadBack
  <2>6. numbers["length1"] = playing.number["length1"]
    BY <2>1, <2>4, <2>5 DEF PlayerTypeOK
  <2>7. numbers = [f \in NumberNames |-> numbers[f]]
    BY DEF PlayerTypeOK
  <2>8. \A f \in NumberNames : numbers[f] = playing.number[f]
    BY <2>2, <2>6 DEF PlayerTypeOK
  <2> HIDE DEF numbers
  <2> QED BY <2>7, <2>8 DEF PlayerTypeOK, IsCall
<1>3. ReadBack = [pat |-> pats, number |-> numbers]
  BY DEF ReadBack
<1> QED BY <1>1, <1>2, <1>3

LEMMA PlayerInitial == PlayerInit => PlayerInv
<1> SUFFICES ASSUME PlayerInit PROVE PlayerInv
  OBVIOUS
<1>1. IsCall(NoPattern)
  BY SizesAreNumbers DEF NoPattern, IsCall
<1>2. /\ DOMAIN player = {"downstream", "cfg", "atStart", "exe", "word", "number"}
      /\ player.cfg = FALSE
      /\ player.word = [p \in Patterns |-> <<0, 0, 0>>] /\ player.number = NoPattern.number
  BY DEF PlayerInit
<1>3. <<0, 0, 0>> \in [1..3 -> Int]
  OBVIOUS
<1>4. PlayerTypeOK
  BY <1>1, <1>2, <1>3 DEF PlayerTypeOK, PlayerInit, NoPattern
<1>5. player.word = [p \in Patterns |-> [k \in 1..3 |-> 0]] /\ playing = NoPattern
  BY <1>2 DEF PlayerInit
<1>6. RegisterSize \in Int /\ RegisterSize > 0 /\ HalfWord \in Int /\ HalfWord > 0
  BY SizesAreNumbers
<1>7. ShowsPlayed
  <2>1. /\ NoPattern.pat = [p \in Patterns |-> 0] /\ NoPattern.number = [f \in NumberNames |-> 0]
    BY DEF NoPattern
  <2>2. \A p \in Patterns :
          (player.word[p][3] * RegisterSize + player.word[p][2]) * RegisterSize
          + player.word[p][1] = 0
    <3>1. 0 * RegisterSize = 0
      BY <1>6
    <3> QED BY <1>5, <3>1
  <2>3. (0 + RegisterSize - 0) % RegisterSize = 0
    <3>1. (1 * RegisterSize + 0) % RegisterSize = 0
      BY SizesAreNumbers, DivisionIsUnique
    <3>2. 1 * RegisterSize + 0 = 0 + RegisterSize - 0
      BY <1>6
    <3> QED BY <3>1, <3>2
  <2>4. [player.number EXCEPT !["length1"] =
           (@ + RegisterSize - player.number["delay1"]) % RegisterSize] = NoPattern.number
    <3>1. player.number["length1"] = 0 /\ player.number["delay1"] = 0
      BY <1>2, <2>1, NumbersDiffer
    <3> QED BY <1>2, <2>1, <2>3, <3>1
  <2>5. played = NoPattern
    BY DEF PlayerInit
  <2> QED BY <2>1, <2>2, <2>4, <2>5 DEF ShowsPlayed, ReadBack
<1> QED BY <1>4, <1>7 DEF PlayerInv, PlayerInit

LEMMA PlayerPlaysRight == PlayerInv => PlaysWhatWasAsked
<1>1. PlayerInv /\ ~player.cfg => ShowsPlayed
  BY DEF PlayerInv, PlayerTypeOK
<1> QED BY <1>1, TextsRead DEF PlaysWhatWasAsked, ShowsPlayed

LEMMA ShowsAgain ==
  ASSUME player'.word = player.word, player'.number = player.number, played' = played
  PROVE  ShowsPlayed' <=> ShowsPlayed
BY DEF ShowsPlayed, ReadBack

LEMMA WordWriteKeeps ==
  ASSUME PlayerTypeOK, playStep \in 3..14, WordsIn(playStep), NumbersIn(playStep),
         player' = PlayerWritten(player, playing, playStep),
         playing' = playing, playStep' = playStep + 1
  PROVE  /\ DOMAIN player' = DOMAIN player /\ player'.cfg = player.cfg
         /\ player'.number = player.number /\ player'.word \in [Patterns -> [1..3 -> Int]]
         /\ WordsIn(playStep)' /\ NumbersIn(playStep)'
<1>1. PICK q \in Patterns, j \in 1..3 :
        q = (playStep - 3) \div 3 /\ j = (playStep % 3) + 1 /\ playStep = 3 * q + j + 2
  BY DEF Patterns
<1>2. PICK n \in Int : n = PatternWord(playing.pat[q], j)
  <2>1. playing.pat[q] \in Nat
    BY SizesAreNumbers DEF PlayerTypeOK, IsCall
  <2> QED BY <2>1, WordIsNumber
<1>3. player' = [player EXCEPT !.word[q][j] = n]
  <2>1. playStep # 1 /\ playStep # 2
    OBVIOUS
  <2>2. player' = [player EXCEPT !.word[(playStep - 3) \div 3][(playStep % 3) + 1] =
                     PatternWord(playing.pat[(playStep - 3) \div 3], (playStep % 3) + 1)]
    BY <2>1 DEF PlayerWritten
  <2> QED BY <1>1, <1>2, <2>2
<1>4. /\ DOMAIN player' = DOMAIN player /\ player'.cfg = player.cfg
      /\ player'.number = player.number
      /\ player'.word = [player.word EXCEPT ![q] = [player.word[q] EXCEPT ![j] = n]]
  BY <1>3 DEF PlayerTypeOK
<1>5. player'.word \in [Patterns -> [1..3 -> Int]]
  BY <1>4 DEF PlayerTypeOK
<1>6. ASSUME NEW p \in Patterns, NEW k \in 1..3, 3 * p + k + 2 < playStep + 1
      PROVE  player'.word[p][k] = PatternWord(playing.pat[p], k)
  <2>1. p \in Int /\ q \in Int /\ p \in 0..3 /\ q \in 0..3
    BY DEF Patterns
  <2>2. CASE p = q /\ k = j
    BY <1>2, <1>4, <2>2 DEF PlayerTypeOK
  <2>3. CASE ~(p = q /\ k = j)
    <3>1. 3 * p + k + 2 < playStep
      BY <1>1, <1>6, <2>1, <2>3
    <3>2. player'.word[p][k] = player.word[p][k]
      BY <1>4, <2>3 DEF PlayerTypeOK
    <3> QED BY <3>1, <3>2 DEF WordsIn
  <2> QED BY <2>2, <2>3
<1>7. WordsIn(playStep)'
  BY <1>6 DEF WordsIn
<1>8. NumbersIn(playStep)'
  BY DEF NumbersIn
<1> QED BY <1>4, <1>5, <1>7, <1>8

LEMMA NumberWriteKeeps ==
  ASSUME PlayerTypeOK, playStep \in 15..22, WordsIn(playStep), NumbersIn(playStep),
         player' = PlayerWritten(player, playing, playStep),
         playing' = playing, playStep' = playStep + 1
  PROVE  /\ DOMAIN player' = DOMAIN player /\ player'.cfg = player.cfg
         /\ player'.word = player.word /\ player'.number \in [NumberNames -> Int]
         /\ WordsIn(playStep)' /\ NumbersIn(playStep)'
<1>1. PICK j \in 1..8 : j = playStep - 14
  OBVIOUS
<1>2. PICK n \in Int : n = NumberWritten(playing, Numbers[j])
  BY NumbersDiffer, WrittenIsNumber DEF PlayerTypeOK
<1>3. player' = [player EXCEPT !.number[Numbers[j]] = n]
  <2>1. playStep # 1 /\ playStep # 2 /\ playStep \notin 3..14
    OBVIOUS
  <2>2. player' = [player EXCEPT !.number[Numbers[playStep - 14]] =
                     NumberWritten(playing, Numbers[playStep - 14])]
    BY <2>1 DEF PlayerWritten
  <2> QED BY <1>1, <1>2, <2>2
<1>4. /\ DOMAIN player' = DOMAIN player /\ player'.cfg = player.cfg
      /\ player'.word = player.word
      /\ player'.number = [player.number EXCEPT ![Numbers[j]] = n]
  BY <1>3 DEF PlayerTypeOK
<1>5. player'.number \in [NumberNames -> Int]
  BY <1>4 DEF PlayerTypeOK
<1>6. ASSUME NEW i \in 1..8, i + 14 < playStep + 1
      PROVE  player'.number[Numbers[i]] = NumberWritten(playing, Numbers[i])
  <2>1. Numbers[i] \in NumberNames
    BY NumbersDiffer
  <2>2. CASE i = j
    BY <1>2, <1>4, <2>1, <2>2 DEF PlayerTypeOK
  <2>3. CASE i # j
    <3>1. i + 14 < playStep /\ Numbers[i] # Numbers[j]
      BY <1>1, <1>6, <2>3, NumbersDiffer
    <3>2. player'.number[Numbers[i]] = player.number[Numbers[i]]
      BY <1>4, <2>1, <3>1 DEF PlayerTypeOK
    <3> QED BY <3>1, <3>2 DEF NumbersIn
  <2> QED BY <2>2, <2>3
<1>7. WordsIn(playStep)'
  <2>1. \A p \in Patterns, k \in 1..3 : 3 * p + k + 2 < playStep
    BY DEF Patterns
  <2>2. \A p \in Patterns, k \in 1..3 : player.word[p][k] = PatternWord(playing.pat[p], k)
    BY <2>1 DEF WordsIn
  <2> QED BY <1>4, <2>2 DEF WordsIn
<1>8. NumbersIn(playStep)'
  BY <1>6 DEF NumbersIn
<1> QED BY <1>4, <1>5, <1>7, <1>8

LEMMA WritesAreEnough == ASSUME NEW pl PROVE LastWrite(pl) \in Nat /\ LastWrite(pl) >= 24
<1> DEFINE a == IF 2 \in pl.now THEN <<{2}, {}>> ELSE <<>>
           b == IF 1 \in pl.now THEN <<{1}, {}>> ELSE <<>>
<1>1. a \in Seq({{1}, {2}, {}}) /\ b \in Seq({{1}, {2}, {}})
  <2>1. ASSUME NEW S, NEW x \in S, NEW y \in S PROVE <<x, y>> \in Seq(S) /\ <<>> \in Seq(S)
    OBVIOUS
  <2> QED BY <2>1
<1> HIDE DEF a, b
<1>2. Len(a \o b) \in Nat
  BY <1>1
<1> QED BY <1>2 DEF LastWrite, NowWrites, a, b

LEMMA WritePlayerKeeps == PlayerInv /\ WritePlayer => PlayerInv'
<1> SUFFICES ASSUME PlayerInv, WritePlayer PROVE PlayerInv'
  OBVIOUS
<1>1. /\ playStep \in Nat \ {0} /\ player' = PlayerWritten(player, playing, playStep)
      /\ playing' = playing /\ PlayerTypeOK
      /\ played' = IF player.cfg /\ ~player'.cfg THEN playing ELSE played
      /\ player.cfg \in BOOLEAN
      /\ DOMAIN player = {"downstream", "cfg", "atStart", "exe", "word", "number"}
  BY DEF WritePlayer, PlayerInv, PlayerTypeOK
<1>2. /\ playStep < 24 => playStep' = playStep + 1
      /\ playStep' = playStep + 1 \/ playStep' = 0
      /\ playStep' \in Nat
  BY <1>1, WritesAreEnough DEF WritePlayer
<1>3. CASE playStep = 1 \/ playStep >= 24
  <2>1. \/ player' = [player EXCEPT !.downstream = "pattern"]
        \/ player' = [player EXCEPT !.atStart = playing.atStart]
        \/ player' = [player EXCEPT !.exe = NowWrites(playing)[playStep - 24]]
    BY <1>1, <1>3 DEF PlayerWritten
  <2>2. /\ DOMAIN player' = DOMAIN player /\ player'.cfg = player.cfg
        /\ player'.word = player.word /\ player'.number = player.number
    BY <1>1, <2>1
  <2>3. played' = played
    BY <1>1, <2>2
  <2>4. PlayerTypeOK'
    BY <1>1, <1>2, <2>2, <2>3 DEF PlayerTypeOK, IsCall
  <2>5. playStep' \notin 3..23
    BY <1>1, <1>2, <1>3
  <2> QED BY <2>2, <2>3, <2>4, <2>5, ShowsAgain DEF PlayerInv
<1>4. CASE playStep = 2
  <2>1. player' = [player EXCEPT !.cfg = TRUE]
    BY <1>1, <1>4 DEF PlayerWritten
  <2>2. /\ DOMAIN player' = DOMAIN player /\ player'.cfg = TRUE
        /\ player'.word = player.word /\ player'.number = player.number
    BY <1>1, <2>1
  <2>3. played' = played
    BY <1>1, <2>2
  <2>4. PlayerTypeOK'
    BY <1>1, <1>2, <2>2, <2>3 DEF PlayerTypeOK, IsCall
  <2>5. WordsIn(playStep)' /\ NumbersIn(playStep)'
    <3>1. playStep' = 3
      BY <1>2, <1>4
    <3>2. \A p \in Patterns, k \in 1..3 : ~(3 * p + k + 2 < 3)
      BY DEF Patterns
    <3>3. \A i \in 1..8 : ~(i + 14 < 3)
      OBVIOUS
    <3> QED BY <3>1, <3>2, <3>3 DEF WordsIn, NumbersIn
  <2> QED BY <2>2, <2>4, <2>5 DEF PlayerInv
<1>5. CASE playStep \in 3..22
  <2>1. player.cfg = TRUE /\ WordsIn(playStep) /\ NumbersIn(playStep) /\ playStep' = playStep + 1
    BY <1>2, <1>5 DEF PlayerInv
  <2>2. /\ DOMAIN player' = DOMAIN player /\ player'.cfg = TRUE
        /\ player'.word \in [Patterns -> [1..3 -> Int]] /\ player'.number \in [NumberNames -> Int]
        /\ WordsIn(playStep)' /\ NumbersIn(playStep)'
    <3>1. CASE playStep \in 3..14
      BY <1>1, <2>1, <3>1, WordWriteKeeps DEF PlayerTypeOK
    <3>2. CASE playStep \in 15..22
      BY <1>1, <2>1, <3>2, NumberWriteKeeps DEF PlayerTypeOK
    <3>3. playStep \in 3..14 \/ playStep \in 15..22
      BY <1>5
    <3> HIDE DEF PlayerTypeOK, WordsIn, NumbersIn
    <3> QED BY <3>1, <3>2, <3>3
  <2>3. played' = played
    BY <1>1, <2>2
  <2>4. PlayerTypeOK'
    BY <1>1, <1>2, <2>2, <2>3 DEF PlayerTypeOK, IsCall
  <2> QED BY <2>2, <2>4 DEF PlayerInv
<1>6. CASE playStep = 23
  <2>1. player' = [player EXCEPT !.cfg = FALSE]
    BY <1>1, <1>6 DEF PlayerWritten
  <2>2. /\ DOMAIN player' = DOMAIN player /\ player'.cfg = FALSE
        /\ player'.word = player.word /\ player'.number = player.number
    BY <1>1, <2>1
  <2>3. player.cfg = TRUE /\ WordsIn(23) /\ NumbersIn(23)
    BY <1>6 DEF PlayerInv
  <2>4. played' = playing
    BY <1>1, <2>2, <2>3
  <2>5. PlayerTypeOK'
    BY <1>1, <1>2, <2>2, <2>4 DEF PlayerTypeOK, IsCall
  <2>6. ReadBack = [pat |-> playing.pat, number |-> playing.number]
    BY <1>1, <2>3, WrittenIsShown
  <2>7. ReadBack' = ReadBack
    BY <2>2 DEF ReadBack
  <2>8. ShowsPlayed'
    BY <2>4, <2>6, <2>7 DEF ShowsPlayed
  <2>9. playStep' = 24
    BY <1>2, <1>6
  <2> QED BY <2>5, <2>8, <2>9 DEF PlayerInv
<1> QED BY <1>1, <1>3, <1>4, <1>5, <1>6

LEMMA PlayerKeeps == PlayerInv /\ [PlayerNext]_playerVars => PlayerInv'
<1> SUFFICES ASSUME PlayerInv, [PlayerNext]_playerVars PROVE PlayerInv'
  OBVIOUS
<1>1. ASSUME NEW r \in PatternRequests, StartPlaying(r) PROVE PlayerInv'
  <2>1. playing' = Parsed(r) /\ IsCall(Parsed(r)) /\ playStep' = 1
    BY <1>1, ParsedIsCall DEF StartPlaying
  <2>2. player' = player /\ played' = played
    BY <1>1 DEF StartPlaying
  <2>3. PlayerTypeOK'
    BY <2>1, <2>2 DEF PlayerInv, PlayerTypeOK, IsCall
  <2> QED BY <2>1, <2>2, <2>3, ShowsAgain DEF PlayerInv
<1>2. ASSUME KillPlayerTool PROVE PlayerInv'
  <2>1. player' = player /\ played' = played /\ playing' = playing /\ playStep' = 0
    BY <1>2 DEF KillPlayerTool
  <2>2. PlayerTypeOK'
    BY <2>1 DEF PlayerInv, PlayerTypeOK, IsCall
  <2> QED BY <2>1, <2>2, ShowsAgain DEF PlayerInv
<1>3. ASSUME UNCHANGED playerVars PROVE PlayerInv'
  <2>1. player' = player /\ played' = played /\ playing' = playing /\ playStep' = playStep
    BY <1>3 DEF playerVars
  <2>2. PlayerTypeOK'
    BY <2>1 DEF PlayerInv, PlayerTypeOK, IsCall
  <2>3. /\ WordsIn(playStep)' <=> WordsIn(playStep)
        /\ NumbersIn(playStep)' <=> NumbersIn(playStep)
    BY <2>1 DEF WordsIn, NumbersIn
  <2> QED BY <2>1, <2>2, <2>3, ShowsAgain DEF PlayerInv
<1> QED BY <1>1, <1>2, <1>3, WritePlayerKeeps DEF PlayerNext

(* The CTP emulator sends what the last start asked for, and the pattern   *)
(* player the patterns of one call, whole; its texts are read as what they *)
(* say or refused (CruBar::emulateCtp, PatternPlayer::play, read,          *)
(* getValueFromString).                                                    *)
THEOREM GeneratorsStayRight == CardSpec => []GeneratorsAreRight
<1> DEFINE Inv == CtpInv /\ PlayerInv
<1>1. CardInit => Inv
  BY CtpInitial, PlayerInitial DEF CardInit
<1>2. Inv /\ [CardNext]_partVars => Inv'
  <2>1. [CardNext]_partVars => [CtpNext]_ctpVars
    BY DEF CardNext, OthersRest, partVars
  <2>2. [CardNext]_partVars => [PlayerNext]_playerVars
    BY DEF CardNext, OthersRest, partVars
  <2> QED BY <2>1, <2>2, CtpStep, PlayerKeeps
<1>3. Inv => GeneratorsAreRight
  BY PlayerPlaysRight DEF GeneratorsAreRight, CtpInv
<1> QED BY <1>1, <1>2, <1>3, PTL DEF CardSpec
-----------------------------------------------------------------------------
(* The calibration: its scripts, step by step, and how far a call has come *)
(* with them.                                                              *)
IsScript(w) == \E S : w \in Seq(S)
IsStep(e, op, d, x) == e[1] = op /\ e[2] = d /\ e[3] = x

LEMMA ScriptsJoin ==
  ASSUME NEW a, NEW b, IsScript(a), IsScript(b)
  PROVE  /\ IsScript(a \o b) /\ Len(a) \in Nat /\ Len(b) \in Nat
         /\ Len(a \o b) = Len(a) + Len(b)
         /\ \A i \in 1..Len(a) : (a \o b)[i] = a[i]
         /\ \A i \in 1..Len(b) : (a \o b)[Len(a) + i] = b[i]
<1>1. PICK S, T : a \in Seq(S) /\ b \in Seq(T)
  BY DEF IsScript
<1> DEFINE U == S \cup T
<1>2. a \in Seq(U) /\ b \in Seq(U)
  BY <1>1
<1> HIDE DEF U
<1>3. /\ a \o b \in Seq(U) /\ Len(a \o b) = Len(a) + Len(b)
      /\ \A i \in 1..Len(a) + Len(b) : (a \o b)[i] = IF i <= Len(a) THEN a[i] ELSE b[i - Len(a)]
  BY <1>2, ConcatProperties
<1>4. Len(a) \in Nat /\ Len(b) \in Nat
  BY <1>2, LenProperties
<1>5. \A i \in 1..Len(b) : (a \o b)[Len(a) + i] = b[i]
  <2> TAKE i \in 1..Len(b)
  <2>1. Len(a) + i \in 1..Len(a) + Len(b) /\ ~(Len(a) + i <= Len(a)) /\ (Len(a) + i) - Len(a) = i
    BY <1>4
  <2> QED BY <1>3, <2>1
<1>6. \A i \in 1..Len(a) : (a \o b)[i] = a[i]
  BY <1>3, <1>4
<1> QED BY <1>3, <1>4, <1>5, <1>6 DEF IsScript

LEMMA TransceiverScript ==
  ASSUME NEW d, NEW v
  PROVE  LET s == TransceiverSteps(d, v)
         IN  /\ IsScript(s) /\ Len(s) = 7
             /\ IsStep(s[1], "request", d, v) /\ IsStep(s[2], "control", d, v)
             /\ IsStep(s[3], "hide", d, Other(v)) /\ IsStep(s[4], "what", d, v)
             /\ IsStep(s[5], "hand", d, v) /\ IsStep(s[6], "done", d, v)
             /\ IsStep(s[7], "show", d, Other(v))
<1> DEFINE e1 == <<"request", d, v>>
           e2 == <<"control", d, v>>
           e3 == <<"hide", d, Other(v)>>
           e4 == <<"what", d, v>>
           e5 == <<"hand", d, v>>
           e6 == <<"done", d, v>>
           e7 == <<"show", d, Other(v)>>
<1>1. /\ IsStep(e1, "request", d, v) /\ IsStep(e2, "control", d, v)
      /\ IsStep(e3, "hide", d, Other(v)) /\ IsStep(e4, "what", d, v)
      /\ IsStep(e5, "hand", d, v) /\ IsStep(e6, "done", d, v)
      /\ IsStep(e7, "show", d, Other(v))
  BY DEF IsStep
<1>2. TransceiverSteps(d, v) = <<e1, e2, e3, e4, e5, e6, e7>>
  BY DEF TransceiverSteps
<1> HIDE DEF e1, e2, e3, e4, e5, e6, e7
<1> DEFINE s == <<e1, e2, e3, e4, e5, e6, e7>>
<1>3. s \in Seq({e1, e2, e3, e4, e5, e6, e7}) /\ Len(s) = 7
  OBVIOUS
<1>4. /\ s[1] = e1 /\ s[2] = e2 /\ s[3] = e3 /\ s[4] = e4 /\ s[5] = e5 /\ s[6] = e6
      /\ s[7] = e7
  OBVIOUS
<1> HIDE DEF s
<1>5. IsScript(s)
  BY <1>3 DEF IsScript
<1>6. TransceiverSteps(d, v) = s
  BY <1>2 DEF s
<1> QED BY <1>1, <1>3, <1>4, <1>5, <1>6

LEMMA PllScript ==
  ASSUME NEW d
  PROVE  LET s == PllSteps(d)
         IN  /\ IsScript(s) /\ Len(s) = 5
             /\ IsStep(s[1], "request", d, "pll") /\ IsStep(s[2], "control", d, "pll")
             /\ IsStep(s[3], "what", d, "pll") /\ IsStep(s[4], "hand", d, "pll")
             /\ IsStep(s[5], "done", d, "pll")
<1> DEFINE e1 == <<"request", d, "pll">>
           e2 == <<"control", d, "pll">>
           e3 == <<"what", d, "pll">>
           e4 == <<"hand", d, "pll">>
           e5 == <<"done", d, "pll">>
<1>1. /\ IsStep(e1, "request", d, "pll") /\ IsStep(e2, "control", d, "pll")
      /\ IsStep(e3, "what", d, "pll") /\ IsStep(e4, "hand", d, "pll")
      /\ IsStep(e5, "done", d, "pll")
  BY DEF IsStep
<1>2. PllSteps(d) = <<e1, e2, e3, e4, e5>>
  BY DEF PllSteps
<1> HIDE DEF e1, e2, e3, e4, e5
<1> DEFINE s == <<e1, e2, e3, e4, e5>>
<1>3. s \in Seq({e1, e2, e3, e4, e5}) /\ Len(s) = 5
  OBVIOUS
<1>4. s[1] = e1 /\ s[2] = e2 /\ s[3] = e3 /\ s[4] = e4 /\ s[5] = e5
  OBVIOUS
<1> HIDE DEF s
<1>5. IsScript(s) /\ PllSteps(d) = s
  BY <1>2, <1>3 DEF IsScript, s
<1> QED BY <1>1, <1>3, <1>4, <1>5

LEMMA OneStepScript ==
  ASSUME NEW op, NEW d, NEW x
  PROVE  /\ IsScript(<<<<op, d, x>>>>) /\ Len(<<<<op, d, x>>>>) = 1
         /\ IsStep(<<<<op, d, x>>>>[1], op, d, x)
<1> DEFINE e == <<op, d, x>>
<1>1. IsStep(e, op, d, x)
  BY DEF IsStep
<1> HIDE DEF e
<1>2. <<e>> \in Seq({e}) /\ Len(<<e>>) = 1 /\ <<e>>[1] = e
  OBVIOUS
<1>3. IsScript(<<e>>)
  BY <1>2 DEF IsScript
<1> QED BY <1>1, <1>2, <1>3 DEF e

(* The scripts of the links                                                *)
LEMMA EachLinkScript ==
  ASSUME NEW each, NEW m \in {1, 7}
  PROVE  LET w == EachLink(each, m)
             n == Len(GbtLinks)
         IN  /\ n \in Nat /\ IsScript(w) /\ Len(w) = m * n
             /\ \A i \in 1..n, j \in 1..m : w[m * (i - 1) + j] = each[GbtLinks[i]][j]
<1> DEFINE w == EachLink(each, m)
           n == Len(GbtLinks)
           e(i) == each[GbtLinks[((i - 1) \div m) + 1]][((i - 1) % m) + 1]
<1>1. n \in Nat
  BY CalibrationAssumption
<1>2. m * n \in Nat
  BY <1>1
<1>3. w = [i \in 1..(m * n) |-> e(i)]
  BY DEF EachLink
<1> HIDE DEF n, w, e
<1>4. w \in Seq({e(i) : i \in 1..(m * n)}) /\ Len(w) = m * n
  BY <1>2, <1>3
<1>5. ASSUME NEW i \in 1..n, NEW j \in 1..m
      PROVE  w[m * (i - 1) + j] = each[GbtLinks[i]][j]
  <2>1. CASE m = 1
    <3>1. m * (i - 1) + j = i /\ j = 1 /\ i \in 1..(m * n)
      BY <1>1, <2>1
    <3>2. ((i - 1) \div m) + 1 = i /\ ((i - 1) % m) + 1 = 1
      BY <1>1, <2>1
    <3>3. w[i] = e(i)
      BY <1>3, <3>1
    <3> QED BY <3>1, <3>2, <3>3 DEF e
  <2>2. CASE m = 7
    <3>1. 7 * (i - 1) + j \in 1..(m * n)
      BY <1>1, <2>2
    <3>2. (((7 * (i - 1) + j) - 1) \div 7) + 1 = i /\ (((7 * (i - 1) + j) - 1) % 7) + 1 = j
      BY <1>1, <2>2
    <3>3. w[7 * (i - 1) + j] = e(7 * (i - 1) + j)
      BY <1>3, <3>1
    <3> QED BY <2>2, <3>2, <3>3 DEF e
  <2> QED BY <2>1, <2>2
<1>6. IsScript(w)
  BY <1>4 DEF IsScript
<1> QED BY <1>1, <1>4, <1>5, <1>6 DEF n, w

(* How many steps come before those of the transceivers                    *)
Refs(cal) == IF cal = "gbt" THEN Len(GbtLinks) ELSE 0

LEMMA LinkScript ==
  ASSUME NEW cal \in {"gbt", "gbtTest"}
  PROVE  LET w == StepsOf(cal)
             n == Len(GbtLinks)
             o == Refs(cal)
         IN  /\ n \in Nat /\ IsScript(w) /\ Len(w) = o + 14 * n
             /\ cal = "gbt" => \A i \in 1..n : IsStep(w[i], "ref", GbtLinks[i], 2)
             /\ \A i \in 1..n, j \in 1..7 :
                  /\ w[o + 7 * (i - 1) + j] = TransceiverSteps(GbtLinks[i], "tx")[j]
                  /\ w[o + 7 * n + 7 * (i - 1) + j] = TransceiverSteps(GbtLinks[i], "rx")[j]
<1> DEFINE n == Len(GbtLinks)
           r == EachLink([d \in Links |-> <<<<"ref", d, 2>>>>], 1)
           t == EachLink([d \in Links |-> TransceiverSteps(d, "tx")], 7)
           u == EachLink([d \in Links |-> TransceiverSteps(d, "rx")], 7)
<1>0. n \in Nat /\ \A i \in 1..n : GbtLinks[i] \in Links
  BY CalibrationAssumption DEF Links
<1>1. IsScript(r) /\ Len(r) = n /\ \A i \in 1..n : IsStep(r[i], "ref", GbtLinks[i], 2)
  <2> DEFINE each == [d \in Links |-> <<<<"ref", d, 2>>>>]
  <2>1. /\ IsScript(r) /\ Len(r) = 1 * n
        /\ \A i \in 1..n, j \in 1..1 : r[1 * (i - 1) + j] = each[GbtLinks[i]][j]
    <3> HIDE DEF each
    <3>1. IsScript(EachLink(each, 1)) /\ Len(EachLink(each, 1)) = 1 * n
          /\ \A i \in 1..n, j \in 1..1 : EachLink(each, 1)[1 * (i - 1) + j] = each[GbtLinks[i]][j]
      BY EachLinkScript
    <3> QED BY <3>1 DEF each
  <2>2. ASSUME NEW i \in 1..n PROVE IsStep(r[i], "ref", GbtLinks[i], 2)
    <3>1. 1 * (i - 1) + 1 = i
      BY <1>0
    <3>2. r[i] = each[GbtLinks[i]][1]
      BY <2>1, <3>1
    <3>3. each[GbtLinks[i]] = <<<<"ref", GbtLinks[i], 2>>>>
      BY <1>0
    <3> HIDE DEF r, each
    <3> QED BY <3>2, <3>3, OneStepScript
  <2> HIDE DEF r, each
  <2> QED BY <1>0, <2>1, <2>2
<1>2. /\ IsScript(t) /\ Len(t) = 7 * n
      /\ \A i \in 1..n, j \in 1..7 :
           t[7 * (i - 1) + j] = TransceiverSteps(GbtLinks[i], "tx")[j]
  <2> DEFINE each == [d \in Links |-> TransceiverSteps(d, "tx")]
  <2>1. /\ IsScript(t) /\ Len(t) = 7 * n
        /\ \A i \in 1..n, j \in 1..7 : t[7 * (i - 1) + j] = each[GbtLinks[i]][j]
    <3> HIDE DEF each
    <3>1. IsScript(EachLink(each, 7)) /\ Len(EachLink(each, 7)) = 7 * n
          /\ \A i \in 1..n, j \in 1..7 : EachLink(each, 7)[7 * (i - 1) + j] = each[GbtLinks[i]][j]
      BY EachLinkScript
    <3> QED BY <3>1 DEF each
  <2>2. \A i \in 1..n : each[GbtLinks[i]] = TransceiverSteps(GbtLinks[i], "tx")
    BY <1>0
  <2> HIDE DEF t, each
  <2> QED BY <2>1, <2>2
<1>3. /\ IsScript(u) /\ Len(u) = 7 * n
      /\ \A i \in 1..n, j \in 1..7 :
           u[7 * (i - 1) + j] = TransceiverSteps(GbtLinks[i], "rx")[j]
  <2> DEFINE each == [d \in Links |-> TransceiverSteps(d, "rx")]
  <2>1. /\ IsScript(u) /\ Len(u) = 7 * n
        /\ \A i \in 1..n, j \in 1..7 : u[7 * (i - 1) + j] = each[GbtLinks[i]][j]
    <3> HIDE DEF each
    <3>1. IsScript(EachLink(each, 7)) /\ Len(EachLink(each, 7)) = 7 * n
          /\ \A i \in 1..n, j \in 1..7 : EachLink(each, 7)[7 * (i - 1) + j] = each[GbtLinks[i]][j]
      BY EachLinkScript
    <3> QED BY <3>1 DEF each
  <2>2. \A i \in 1..n : each[GbtLinks[i]] = TransceiverSteps(GbtLinks[i], "rx")
    BY <1>0
  <2> HIDE DEF u, each
  <2> QED BY <2>1, <2>2
<1>4. GbtTestSteps = t \o u /\ GbtSteps = r \o (t \o u)
  BY DEF GbtTestSteps, GbtSteps
<1> HIDE DEF n, r, t, u
<1>5. /\ IsScript(t \o u) /\ Len(t \o u) = 14 * n
      /\ \A i \in 1..(7 * n) : (t \o u)[i] = t[i]
      /\ \A i \in 1..(7 * n) : (t \o u)[7 * n + i] = u[i]
  <2>1. /\ IsScript(t \o u) /\ Len(t \o u) = Len(t) + Len(u)
        /\ \A i \in 1..Len(t) : (t \o u)[i] = t[i]
        /\ \A i \in 1..Len(u) : (t \o u)[Len(t) + i] = u[i]
    <3>1. IsScript(t) /\ IsScript(u)
      BY <1>2, <1>3
    <3> QED BY <3>1, ScriptsJoin
  <2> QED BY <1>0, <1>2, <1>3, <2>1
<1> DEFINE x == t \o u
<1>6. \A i \in 1..n, j \in 1..7 :
        /\ x[7 * (i - 1) + j] = TransceiverSteps(GbtLinks[i], "tx")[j]
        /\ x[7 * n + 7 * (i - 1) + j] = TransceiverSteps(GbtLinks[i], "rx")[j]
  <2> HIDE DEF x
  <2> TAKE i \in 1..n, j \in 1..7
  <2>1. PICK k \in 1..(7 * n) : k = 7 * (i - 1) + j
    BY <1>0
  <2>2. x[k] = t[k] /\ x[7 * n + k] = u[k]
    BY <1>5 DEF x
  <2>3. 7 * n + 7 * (i - 1) + j = 7 * n + k
    BY <1>0, <2>1
  <2> QED BY <1>2, <1>3, <2>1, <2>2, <2>3
<1>7. IsScript(x) /\ Len(x) = 14 * n
  BY <1>5
<1> HIDE DEF x
<1>8. CASE cal = "gbtTest"
  <2>1. StepsOf(cal) = x /\ Refs(cal) = 0
    BY <1>4, <1>8 DEF StepsOf, Refs, x
  <2>2. ASSUME NEW i \in 1..n, NEW j \in 1..7
        PROVE  /\ x[0 + 7 * (i - 1) + j] = TransceiverSteps(GbtLinks[i], "tx")[j]
               /\ x[0 + 7 * n + 7 * (i - 1) + j] = TransceiverSteps(GbtLinks[i], "rx")[j]
    <3>1. 0 + 7 * (i - 1) + j = 7 * (i - 1) + j /\ 0 + 7 * n + 7 * (i - 1) + j = 7 * n + 7 * (i - 1) + j
      BY <1>0
    <3> QED BY <1>6, <3>1
  <2>3. Len(x) = 0 + 14 * n
    BY <1>0, <1>7
  <2>4. cal # "gbt"
    BY <1>8
  <2> QED BY <1>0, <1>7, <2>1, <2>2, <2>3, <2>4 DEF n
<1>9. CASE cal = "gbt"
  <2>1. StepsOf(cal) = r \o x /\ Refs(cal) = n
    BY <1>4, <1>9 DEF StepsOf, Refs, x, n
  <2>2. /\ IsScript(r \o x) /\ Len(r \o x) = n + 14 * n
        /\ \A i \in 1..n : (r \o x)[i] = r[i]
        /\ \A i \in 1..(14 * n) : (r \o x)[n + i] = x[i]
    <3>1. /\ IsScript(r \o x) /\ Len(r \o x) = Len(r) + Len(x)
          /\ \A i \in 1..Len(r) : (r \o x)[i] = r[i]
          /\ \A i \in 1..Len(x) : (r \o x)[Len(r) + i] = x[i]
      BY <1>1, <1>7, ScriptsJoin
    <3> QED BY <1>0, <1>1, <1>7, <3>1
  <2>3. ASSUME NEW i \in 1..n, NEW j \in 1..7
        PROVE  /\ (r \o x)[n + 7 * (i - 1) + j] = TransceiverSteps(GbtLinks[i], "tx")[j]
               /\ (r \o x)[n + 7 * n + 7 * (i - 1) + j] = TransceiverSteps(GbtLinks[i], "rx")[j]
    <3>1. PICK k \in 1..(14 * n), l \in 1..(14 * n) :
            k = 7 * (i - 1) + j /\ l = 7 * n + 7 * (i - 1) + j
      BY <1>0
    <3>2. n + 7 * (i - 1) + j = n + k /\ n + 7 * n + 7 * (i - 1) + j = n + l
      BY <1>0, <3>1
    <3>3. (r \o x)[n + k] = x[k] /\ (r \o x)[n + l] = x[l]
      BY <2>2
    <3> QED BY <1>6, <3>1, <3>2, <3>3, ZenonT(40)
  <2>4. \A i \in 1..n : IsStep((r \o x)[i], "ref", GbtLinks[i], 2)
    BY <1>1, <2>2
  <2> QED BY <1>0, <2>1, <2>2, <2>3, <2>4, ZenonT(60) DEF n
<1> QED BY <1>8, <1>9

-----------------------------------------------------------------------------
(* What a device is like while a script is at the p-th step for it, of a   *)
(* transceiver's part and of a PLL                                         *)
TransceiverAt(c, v, p) ==
  /\ p = 2 => c.bus \in {"asked", "user"}
  /\ p \in 3..5 => c.bus = "user"
  /\ p = 5 => c.what = {v}
  /\ p = 6 => (c.bus = "busy" /\ c.what = {v}) \/ (c.bus = "engine" /\ v \in c.good)
  /\ p = 7 => c.bus = "engine"
  /\ p > 6 => v \in c.good
  /\ p > 7 => Other(v) \in c.shown

(* first v, then the other part *)
BothAt(c, v, p, q) ==
  /\ TransceiverAt(c, v, p) /\ TransceiverAt(c, Other(v), q)
  /\ (p > 7 /\ q < 2) \/ q > 7 => c.bus = "engine"

PllAt(c, p) ==
  /\ p = 2 => c.bus \in {"asked", "user"}
  /\ p \in 3..4 => c.bus = "user"
  /\ p = 4 => c.what = {"pll"}
  /\ p = 5 => (c.bus = "busy" /\ c.what = {"pll"}) \/ (c.bus = "engine" /\ "pll" \in c.good)
  /\ p > 5 => "pll" \in c.good /\ c.bus = "engine"

IsDevice(c) ==
  /\ DOMAIN c = {"bus", "shown", "what", "good", "ref", "direct"}
  /\ c.bus \in {"engine", "busy", "asked", "user"} /\ c.shown \subseteq {"rx", "tx"}

Effect(c, op, v, e) ==
  /\ DOMAIN e = DOMAIN c /\ e.good = c.good
  /\ e.bus = IF op = "request" THEN (IF c.bus \in Busy THEN "asked" ELSE "user")
             ELSE IF op = "hand" THEN "busy" ELSE c.bus
  /\ e.shown = IF op = "hide" THEN c.shown \ {v}
               ELSE IF op = "show" THEN c.shown \cup {v} ELSE c.shown
  /\ e.ref = IF op = "ref" THEN v ELSE c.ref
  /\ e.direct = IF op = "direct" THEN TRUE ELSE c.direct
  /\ op # "what" => e.what = c.what
  /\ op = "what" /\ c.bus = "user" => e.what = {v}

LEMMA Effects ==
  ASSUME NEW c, IsDevice(c), NEW op, NEW v, NEW e \in Did(c, op, v)
  PROVE  Effect(c, op, v, e)
<1> USE DEF Effect
<1>0. DOMAIN c = {"bus", "shown", "what", "good", "ref", "direct"}
  BY DEF IsDevice
<1>1. CASE op = "request"
  <2>1. e = [c EXCEPT !.bus = IF c.bus \in Busy THEN "asked" ELSE "user"]
    BY <1>1 DEF Did
  <2> QED BY <1>0, <1>1, <2>1
<1>2. CASE op = "hide"
  <2>1. e = [c EXCEPT !.shown = c.shown \ {v}]
    BY <1>2 DEF Did
  <2> QED BY <1>0, <1>2, <2>1
<1>3. CASE op = "show"
  <2>1. e = [c EXCEPT !.shown = c.shown \cup {v}]
    BY <1>3 DEF Did
  <2> QED BY <1>0, <1>3, <2>1
<1>4. CASE op = "ref"
  <2>1. e = [c EXCEPT !.ref = v]
    BY <1>4 DEF Did
  <2> QED BY <1>0, <1>4, <2>1
<1>5. CASE op = "direct"
  <2>1. e = [c EXCEPT !.direct = TRUE]
    BY <1>5 DEF Did
  <2> QED BY <1>0, <1>5, <2>1
<1>6. CASE op = "what"
  <2>1. e = [c EXCEPT !.what = {v}] \/ (c.bus # "user" /\ e = c)
    BY <1>6 DEF Did
  <2> QED BY <1>0, <1>6, <2>1
<1>7. CASE op = "hand"
  <2>1. e = [c EXCEPT !.bus = "busy"]
    BY <1>7 DEF Did
  <2> QED BY <1>0, <1>7, <2>1
<1>8. CASE op \notin {"request", "hide", "show", "ref", "direct", "what", "hand"}
  <2>1. e = c
    BY <1>8 DEF Did
  <2> QED BY <1>8, <2>1
<1> QED BY <1>1, <1>2, <1>3, <1>4, <1>5, <1>6, <1>7, <1>8

(* A step in time, and the steps of the other part and of the engine *)
OnTime(c, op) == op \in {"control", "done"} => Arrived(c, op)

TransceiverStepped(c, e, v, p) ==
  /\ TransceiverAt(e, v, p + 1) /\ IsDevice(e)
  /\ e.ref = c.ref /\ (p = 7 => e.bus = "engine")
  /\ \A q \in Int : (q < 2 \/ q > 7) /\ TransceiverAt(c, Other(v), q) =>
                       TransceiverAt(e, Other(v), q)

LEMMA TransceiverGoesOn ==
  ASSUME NEW c, IsDevice(c), NEW d, NEW v \in {"tx", "rx"}, NEW p \in 1..7,
         TransceiverAt(c, v, p), NEW s,
         IsStep(s, TransceiverSteps(d, v)[p][1], TransceiverSteps(d, v)[p][2], TransceiverSteps(d, v)[p][3]),
         OnTime(c, s[1]), NEW e \in Did(c, s[1], s[3])
  PROVE  TransceiverStepped(c, e, v, p) /\ s[2] = d
<1>1. Other(v) \in {"tx", "rx"} /\ Other(v) # v /\ Other(Other(v)) = v
  BY DEF Other
<1>2. p \in {1, 2, 3, 4, 5, 6, 7}
  OBVIOUS
<1>3. /\ p = 1 => s[1] = "request" /\ s[3] = v
      /\ p = 2 => s[1] = "control" /\ s[3] = v
      /\ p = 3 => s[1] = "hide" /\ s[3] = Other(v)
      /\ p = 4 => s[1] = "what" /\ s[3] = v
      /\ p = 5 => s[1] = "hand" /\ s[3] = v
      /\ p = 6 => s[1] = "done" /\ s[3] = v
      /\ p = 7 => s[1] = "show" /\ s[3] = Other(v)
      /\ s[2] = d
  BY <1>2, TransceiverScript DEF IsStep
<1>4. PICK op : op = s[1]
  OBVIOUS
<1>5. PICK x : x = s[3]
  OBVIOUS
<1>6. Effect(c, op, x, e)
  <2>1. e \in Did(c, op, x)
    BY <1>4, <1>5
  <2> QED BY <2>1, Effects
<1>7. IsDevice(e)
  BY <1>1, <1>2, <1>3, <1>4, <1>5, <1>6 DEF IsDevice, Busy, Effect
<1>8. TransceiverAt(e, v, p + 1) /\ (p = 7 => e.bus = "engine")
  <2>1. CASE p = 1
    BY <1>3, <1>4, <1>5, <1>6, <2>1 DEF TransceiverAt, Effect
  <2>2. CASE p = 2
    <3>1. c.bus = "user"
      BY <1>3, <2>2 DEF OnTime, Arrived
    <3> QED BY <1>3, <1>4, <1>5, <1>6, <2>2, <3>1 DEF TransceiverAt, Effect
  <2>3. CASE p = 3
    BY <1>3, <1>4, <1>5, <1>6, <2>3 DEF TransceiverAt, Effect
  <2>4. CASE p = 4
    BY <1>3, <1>4, <1>5, <1>6, <2>4 DEF TransceiverAt, Effect
  <2>5. CASE p = 5
    BY <1>3, <1>4, <1>5, <1>6, <2>5 DEF TransceiverAt, Effect
  <2>6. CASE p = 6
    <3>1. c.bus # "busy"
      BY <1>3, <2>6 DEF OnTime, Arrived, Busy
    <3> QED BY <1>3, <1>4, <1>5, <1>6, <2>6, <3>1 DEF TransceiverAt, Effect
  <2>7. CASE p = 7
    BY <1>3, <1>4, <1>5, <1>6, <2>7 DEF TransceiverAt, Effect
  <2> QED BY <1>2, <2>1, <2>2, <2>3, <2>4, <2>5, <2>6, <2>7
<1>9. ASSUME NEW q \in Int, q < 2 \/ q > 7, TransceiverAt(c, Other(v), q)
      PROVE  TransceiverAt(e, Other(v), q)
  <2>1. q > 7 => Other(v) \in e.good /\ v \in e.shown
    BY <1>1, <1>2, <1>3, <1>4, <1>5, <1>6, <1>9 DEF TransceiverAt, Effect
  <2> QED BY <1>1, <1>9, <2>1 DEF TransceiverAt
<1>10. e.ref = c.ref
  BY <1>2, <1>3, <1>4, <1>6 DEF Effect
<1> QED BY <1>3, <1>7, <1>8, <1>9, <1>10 DEF TransceiverStepped

LEMMA PllGoesOn ==
  ASSUME NEW c, IsDevice(c), NEW d, NEW p \in 1..5, PllAt(c, p), NEW s,
         IsStep(s, PllSteps(d)[p][1], PllSteps(d)[p][2], PllSteps(d)[p][3]),
         OnTime(c, s[1]), NEW e \in Did(c, s[1], s[3])
  PROVE  /\ PllAt(e, p + 1) /\ IsDevice(e) /\ s[2] = d
         /\ e.ref = c.ref /\ e.direct = c.direct
<1>2. p \in {1, 2, 3, 4, 5}
  OBVIOUS
<1>3. /\ p = 1 => s[1] = "request" /\ s[3] = "pll"
      /\ p = 2 => s[1] = "control" /\ s[3] = "pll"
      /\ p = 3 => s[1] = "what" /\ s[3] = "pll"
      /\ p = 4 => s[1] = "hand" /\ s[3] = "pll"
      /\ p = 5 => s[1] = "done" /\ s[3] = "pll"
      /\ s[2] = d
  BY <1>2, PllScript DEF IsStep
<1>4. PICK op : op = s[1]
  OBVIOUS
<1>5. PICK x : x = s[3]
  OBVIOUS
<1>6. Effect(c, op, x, e)
  <2>1. e \in Did(c, op, x)
    BY <1>4, <1>5
  <2> QED BY <2>1, Effects
<1>7. IsDevice(e)
  BY <1>2, <1>3, <1>4, <1>5, <1>6 DEF IsDevice, Busy, Effect
<1>8. PllAt(e, p + 1)
  <2>1. CASE p = 1
    BY <1>3, <1>4, <1>5, <1>6, <2>1 DEF PllAt, Effect
  <2>2. CASE p = 2
    <3>1. c.bus = "user"
      BY <1>3, <2>2 DEF OnTime, Arrived
    <3> QED BY <1>3, <1>4, <1>5, <1>6, <2>2, <3>1 DEF PllAt, Effect
  <2>3. CASE p = 3
    BY <1>3, <1>4, <1>5, <1>6, <2>3 DEF PllAt, Effect
  <2>4. CASE p = 4
    BY <1>3, <1>4, <1>5, <1>6, <2>4 DEF PllAt, Effect
  <2>5. CASE p = 5
    <3>1. c.bus # "busy"
      BY <1>3, <2>5 DEF OnTime, Arrived, Busy
    <3> QED BY <1>3, <1>4, <1>5, <1>6, <2>5, <3>1 DEF PllAt, Effect
  <2> QED BY <1>2, <2>1, <2>2, <2>3, <2>4, <2>5
<1>9. e.ref = c.ref /\ e.direct = c.direct
  BY <1>2, <1>3, <1>4, <1>6 DEF Effect
<1> QED BY <1>3, <1>7, <1>8, <1>9

EngineKept(c, e) ==
  /\ IsDevice(e) /\ e.ref = c.ref /\ e.direct = c.direct
  /\ \A v, p, q : BothAt(c, v, p, q) => BothAt(e, v, p, q)
  /\ \A p : PllAt(c, p) => PllAt(e, p)
LEMMA EngineGoesOn ==
  ASSUME NEW c, IsDevice(c), c.bus \in Busy, NEW e,
         e = [c EXCEPT !.bus = IF @ = "asked" THEN "user" ELSE "engine", !.good = @ \cup c.what]
  PROVE  EngineKept(c, e)
<1> USE DEF EngineKept
<1>1. /\ DOMAIN e = DOMAIN c /\ e.shown = c.shown /\ e.what = c.what
      /\ e.good = c.good \cup c.what /\ e.ref = c.ref /\ e.direct = c.direct
      /\ e.bus = IF c.bus = "asked" THEN "user" ELSE "engine"
  BY DEF IsDevice
<1>2. c.bus \in {"asked", "busy"}
  BY DEF Busy
<1>3. IsDevice(e)
  BY <1>1 DEF IsDevice
<1>4. ASSUME NEW v, NEW p, TransceiverAt(c, v, p) PROVE TransceiverAt(e, v, p)
  BY <1>1, <1>2, <1>4 DEF TransceiverAt
<1>5. ASSUME NEW v, NEW p, NEW q, BothAt(c, v, p, q) PROVE BothAt(e, v, p, q)
  BY <1>1, <1>2, <1>4, <1>5 DEF BothAt
<1>6. ASSUME NEW p, PllAt(c, p) PROVE PllAt(e, p)
  BY <1>1, <1>2, <1>6 DEF PllAt
<1> QED BY <1>1, <1>3, <1>5, <1>6

LEMMA BothIdle ==
  ASSUME NEW c, NEW v, NEW p \in Int, NEW q \in Int, p \notin 1..7, q \notin 1..7,
         BothAt(c, v, p, q)
  PROVE  BothAt(c, v, p + 1, q + 1)
BY DEF BothAt, TransceiverAt

LEMMA PllIdle ==
  ASSUME NEW c, NEW p \in Int, p \notin 1..5, PllAt(c, p) PROVE PllAt(c, p + 1)
BY DEF PllAt

(* How far the script of a calibration is                                  *)
LinkAt(c, cal, i, k) == \* in the script of a cal at step k, link i
  BothAt(c, "tx", k - Refs(cal) - 7 * (i - 1), k - Refs(cal) - 7 * Len(GbtLinks) - 7 * (i - 1))
GbtProgress(cal, k) ==
  \A i \in 1..Len(GbtLinks) :
    /\ cal = "gbt" /\ k > i => device[GbtLinks[i]].ref = 2
    /\ LinkAt(device[GbtLinks[i]], cal, i, k)

AreDevices == DOMAIN device = Devices /\ \A d \in Devices : IsDevice(device[d])

(* Where a step of the links is in the script *)
LEMMA WhereInLinks ==
  ASSUME NEW n \in Nat, NEW o \in Nat, NEW k \in 1..(o + 14 * n)
  PROVE  \/ k \in 1..o
         \/ \E i \in 1..n, j \in 1..7 : k = o + 7 * (i - 1) + j
         \/ \E i \in 1..n, j \in 1..7 : k = o + 7 * n + 7 * (i - 1) + j
<1>1. CASE k \in (o + 1)..(o + 7 * n)
  <2>1. PICK x \in 0..(7 * n - 1) : k = o + x + 1
    BY <1>1
  <2>2. (x \div 7) + 1 \in 1..n /\ (x % 7) + 1 \in 1..7 /\ x = 7 * (x \div 7) + (x % 7)
    OBVIOUS
  <2>3. PICK i \in 1..n, j \in 1..7 : i = (x \div 7) + 1 /\ j = (x % 7) + 1
    BY <2>2
  <2>4. k = o + 7 * (i - 1) + j
    BY <2>1, <2>2, <2>3
  <2> QED BY <2>4
<1>2. CASE k \in (o + 7 * n + 1)..(o + 14 * n)
  <2>1. PICK x \in 0..(7 * n - 1) : k = o + 7 * n + x + 1
    BY <1>2
  <2>2. (x \div 7) + 1 \in 1..n /\ (x % 7) + 1 \in 1..7 /\ x = 7 * (x \div 7) + (x % 7)
    OBVIOUS
  <2>3. PICK i \in 1..n, j \in 1..7 : i = (x \div 7) + 1 /\ j = (x % 7) + 1
    BY <2>2
  <2>4. k = o + 7 * n + 7 * (i - 1) + j
    BY <2>1, <2>2, <2>3
  <2> QED BY <2>4
<1> QED BY <1>1, <1>2

LEMMA RefsAre ==
  ASSUME NEW cal \in {"gbt", "gbtTest"}
  PROVE  /\ Refs(cal) \in Nat /\ Len(GbtLinks) \in Nat
         /\ cal = "gbt" => Refs(cal) = Len(GbtLinks)
         /\ cal = "gbtTest" => Refs(cal) = 0
         /\ \A i \in 1..Len(GbtLinks) : GbtLinks[i] \in Links /\ GbtLinks[i] \in Devices
BY CalibrationAssumption DEF Refs, Links, Devices

LEMMA LinkTypes ==
  ASSUME NEW cal \in {"gbt", "gbtTest"}, NEW k \in 1..Len(StepsOf(cal))
  PROVE  LET s == StepsOf(cal)[k]
         IN  /\ s[2] \in Links /\ s[1] # "check"
             /\ s[1] \in {"hide", "show"} => s[3] \in {"rx", "tx"}
<1> DEFINE n == Len(GbtLinks)
           o == Refs(cal)
           w == StepsOf(cal)
<1>1. /\ n \in Nat /\ o \in Nat /\ Len(w) = o + 14 * n
      /\ cal = "gbt" => \A i \in 1..n : IsStep(w[i], "ref", GbtLinks[i], 2)
      /\ \A i \in 1..n, j \in 1..7 :
           /\ w[o + 7 * (i - 1) + j] = TransceiverSteps(GbtLinks[i], "tx")[j]
           /\ w[o + 7 * n + 7 * (i - 1) + j] = TransceiverSteps(GbtLinks[i], "rx")[j]
  BY LinkScript, RefsAre
<1>2. /\ cal = "gbt" => o = n
      /\ cal # "gbt" => o = 0
      /\ \A i \in 1..n : GbtLinks[i] \in Links
  BY RefsAre
<1> HIDE DEF n, o, w
<1>3. ASSUME NEW v \in {"tx", "rx"}, NEW i \in 1..n, NEW j \in 1..7
      PROVE  LET s == TransceiverSteps(GbtLinks[i], v)[j]
             IN  /\ s[2] \in Links /\ s[1] # "check"
                 /\ s[1] \in {"hide", "show"} => s[3] \in {"rx", "tx"}
  <2>1. j \in {1, 2, 3, 4, 5, 6, 7} /\ Other(v) \in {"tx", "rx"} /\ GbtLinks[i] \in Links
    BY <1>2 DEF Other
  <2> QED BY <2>1, TransceiverScript DEF IsStep
<1>4. \/ k \in 1..o
      \/ \E i \in 1..n, j \in 1..7 : k = o + 7 * (i - 1) + j
      \/ \E i \in 1..n, j \in 1..7 : k = o + 7 * n + 7 * (i - 1) + j
  <2>1. k \in 1..(o + 14 * n)
    BY <1>1 DEF w
  <2> QED BY <1>1, <2>1, WhereInLinks
<1>5. CASE k \in 1..o
  <2>1. cal = "gbt" /\ k \in 1..n
    BY <1>2, <1>5
  <2> QED BY <1>1, <1>2, <2>1 DEF w, IsStep
<1>6. CASE \E i \in 1..n, j \in 1..7 : k = o + 7 * (i - 1) + j
  <2>1. PICK i \in 1..n, j \in 1..7 : k = o + 7 * (i - 1) + j
    BY <1>6
  <2>2. w[k] = TransceiverSteps(GbtLinks[i], "tx")[j]
    BY <1>1, <2>1
  <2> QED BY <1>3, <2>2 DEF w
<1>7. CASE \E i \in 1..n, j \in 1..7 : k = o + 7 * n + 7 * (i - 1) + j
  <2>1. PICK i \in 1..n, j \in 1..7 : k = o + 7 * n + 7 * (i - 1) + j
    BY <1>7
  <2>2. w[k] = TransceiverSteps(GbtLinks[i], "rx")[j]
    BY <1>1, <2>1
  <2> QED BY <1>3, <2>2 DEF w
<1> QED BY <1>4, <1>5, <1>6, <1>7

(* A step of the links in time brings their script one further.            *)
LEMMA LinkStays ==
  ASSUME NEW cal \in {"gbt", "gbtTest"}, NEW i \in 1..Len(GbtLinks), NEW k \in Int, NEW c,
         k - Refs(cal) - 7 * (i - 1) \notin 1..7,
         k - Refs(cal) - 7 * Len(GbtLinks) - 7 * (i - 1) \notin 1..7,
         LinkAt(c, cal, i, k)
  PROVE  LinkAt(c, cal, i, k + 1)
<1>1. /\ k - Refs(cal) - 7 * (i - 1) \in Int
      /\ k - Refs(cal) - 7 * Len(GbtLinks) - 7 * (i - 1) \in Int
      /\ (k + 1) - Refs(cal) - 7 * (i - 1) = (k - Refs(cal) - 7 * (i - 1)) + 1
      /\ (k + 1) - Refs(cal) - 7 * Len(GbtLinks) - 7 * (i - 1)
           = (k - Refs(cal) - 7 * Len(GbtLinks) - 7 * (i - 1)) + 1
  <2>1. Len(GbtLinks) \in Int /\ Refs(cal) \in Int /\ i \in Int
    BY RefsAre
  <2>2. PICK x \in Int, y \in Int, o \in Int :
          x = 7 * (i - 1) /\ y = 7 * Len(GbtLinks) /\ o = Refs(cal)
    BY <2>1
  <2>3. /\ k - o - x \in Int /\ k - o - y - x \in Int
        /\ (k + 1) - o - x = (k - o - x) + 1 /\ (k + 1) - o - y - x = (k - o - y - x) + 1
    OBVIOUS
  <2> QED BY <2>2, <2>3
<1>2. PICK p \in Int, q \in Int :
        p = k - Refs(cal) - 7 * (i - 1) /\ q = k - Refs(cal) - 7 * Len(GbtLinks) - 7 * (i - 1)
  BY <1>1
<1>3. BothAt(c, "tx", p, q)
  BY <1>2 DEF LinkAt
<1>4. BothAt(c, "tx", p + 1, q + 1)
  BY <1>2, <1>3, BothIdle
<1> QED BY <1>1, <1>2, <1>4 DEF LinkAt

(* Part v of link i is at its x-th step. *)
StepOfLink(cal, k, i, v, x) ==
  k = Refs(cal) + 7 * (i - 1) + x + (IF v = "tx" THEN 0 ELSE 7 * Len(GbtLinks))

LinkStepped(cal, k, i, c, e) == LinkAt(e, cal, i, k + 1) /\ e.ref = c.ref
LEMMA LinkGoesOn ==
  ASSUME NEW cal \in {"gbt", "gbtTest"}, NEW i \in 1..Len(GbtLinks), NEW k \in Int,
         NEW v \in {"tx", "rx"}, NEW x \in 1..7, StepOfLink(cal, k, i, v, x),
         NEW c, IsDevice(c), LinkAt(c, cal, i, k),
         NEW s, s = TransceiverSteps(GbtLinks[i], v)[x], OnTime(c, s[1]),
         NEW e \in Did(c, s[1], s[3])
  PROVE  LinkStepped(cal, k, i, c, e)
<1> USE DEF LinkStepped
<1> DEFINE n == Len(GbtLinks)
           o == Refs(cal)
<1>0. n \in Nat /\ o \in Nat /\ i \in 1..n
  BY RefsAre
<1>1. PICK p \in Int, q \in Int : p = k - o - 7 * (i - 1) /\ q = k - o - 7 * n - 7 * (i - 1)
  <2> HIDE DEF n, o
  <2>1. k - o - 7 * (i - 1) \in Int /\ k - o - 7 * n - 7 * (i - 1) \in Int
    BY <1>0
  <2> QED BY <2>1
<1>2. k = o + 7 * (i - 1) + x + (IF v = "tx" THEN 0 ELSE 7 * n)
  BY DEF StepOfLink
<1>3. BothAt(c, "tx", p, q)
  BY <1>1 DEF LinkAt
<1>4. BothAt(e, "tx", p + 1, q + 1) => LinkAt(e, cal, i, k + 1)
  <2>1. (k + 1) - o - 7 * (i - 1) = p + 1 /\ (k + 1) - o - 7 * n - 7 * (i - 1) = q + 1
    <3> HIDE DEF n, o
    <3>1. PICK a \in Int, b \in Int : a = 7 * (i - 1) /\ b = 7 * n
      BY <1>0
    <3>2. (k + 1) - o - a = (k - o - a) + 1 /\ (k + 1) - o - b - a = (k - o - b - a) + 1
      BY <1>0
    <3> QED BY <1>1, <3>1, <3>2
  <2> QED BY <2>1 DEF LinkAt
<1> HIDE DEF n, o
<1>5. /\ v = "tx" => p = x /\ q < 1
      /\ v = "rx" => q = x /\ p > 7
  <2>1. CASE v = "tx"
    BY <1>0, <1>1, <1>2, <2>1
  <2>2. CASE v = "rx"
    BY <1>0, <1>1, <1>2, <2>2
  <2> QED BY <2>1, <2>2
<1>6. IsStep(s, TransceiverSteps(GbtLinks[i], v)[x][1], TransceiverSteps(GbtLinks[i], v)[x][2],
               TransceiverSteps(GbtLinks[i], v)[x][3])
  BY DEF IsStep
<1>7. CASE v = "tx"
  <2>1. TransceiverAt(c, v, x)
    BY <1>3, <1>5, <1>7 DEF BothAt
  <2>2. TransceiverStepped(c, e, v, x)
    BY <1>6, <2>1, TransceiverGoesOn
  <2>3. TransceiverAt(e, "tx", p + 1) /\ (p = 7 => e.bus = "engine") /\ p \in 1..7 /\ q < 1
    BY <1>5, <1>7, <2>2 DEF TransceiverStepped
  <2>4. TransceiverAt(e, Other("tx"), q + 1)
    BY <2>3 DEF TransceiverAt
  <2> QED BY <1>4, <2>2, <2>3, <2>4 DEF BothAt, TransceiverStepped
<1>8. CASE v = "rx"
  <2>0. Other("tx") = "rx" /\ Other("rx") = "tx"
    BY DEF Other
  <2>1. TransceiverAt(c, v, x) /\ TransceiverAt(c, Other(v), p)
    BY <1>3, <1>5, <1>8, <2>0 DEF BothAt
  <2>2. TransceiverStepped(c, e, v, x)
    BY <1>6, <2>1, TransceiverGoesOn
  <2>3. TransceiverAt(e, "rx", q + 1) /\ (q = 7 => e.bus = "engine") /\ q \in 1..7 /\ p > 7
    BY <1>5, <1>8, <2>2 DEF TransceiverStepped
  <2>4. TransceiverAt(e, "tx", p)
    BY <1>8, <2>0, <2>1, <2>2, <2>3 DEF TransceiverStepped
  <2>5. TransceiverAt(e, "tx", p + 1)
    BY <2>3, <2>4 DEF TransceiverAt
  <2> QED BY <1>4, <2>0, <2>2, <2>3, <2>5 DEF BothAt, TransceiverStepped
<1> QED BY <1>7, <1>8

LEMMA OtherLinksStay ==
  ASSUME NEW cal \in {"gbt", "gbtTest"}, NEW i \in 1..Len(GbtLinks), NEW k \in Int,
         NEW v \in {"tx", "rx"}, NEW x \in 1..7, StepOfLink(cal, k, i, v, x),
         NEW j \in 1..Len(GbtLinks), j # i, NEW c, LinkAt(c, cal, j, k)
  PROVE  LinkAt(c, cal, j, k + 1)
<1> DEFINE n == Len(GbtLinks)
           o == Refs(cal)
<1>0. n \in Nat /\ o \in Nat /\ i \in 1..n /\ j \in 1..n
  BY RefsAre
<1>2. k = o + 7 * (i - 1) + x + (IF v = "tx" THEN 0 ELSE 7 * n)
  BY DEF StepOfLink
<1>3. k - o - 7 * (j - 1) \notin 1..7 /\ k - o - 7 * n - 7 * (j - 1) \notin 1..7
  <2> HIDE DEF n, o
  <2>1. PICK b \in Int : b = i - j /\ b # 0 /\ b < n /\ b > -n
    BY <1>0
  <2>2. CASE v = "tx"
    <3>1. k - o - 7 * (j - 1) = 7 * b + x /\ k - o - 7 * n - 7 * (j - 1) = 7 * (b - n) + x
      BY <1>0, <1>2, <2>1, <2>2
    <3>2. b >= 1 \/ b <= -1
      BY <2>1
    <3>3. b - n <= -1
      BY <1>0, <2>1
    <3>4. 7 * b + x \notin 1..7
      BY <2>1, <3>2
    <3>5. 7 * (b - n) + x \notin 1..7
      BY <1>0, <2>1, <3>3
    <3> QED BY <3>1, <3>4, <3>5
  <2>3. CASE v = "rx"
    <3>1. k - o - 7 * (j - 1) = 7 * (b + n) + x /\ k - o - 7 * n - 7 * (j - 1) = 7 * b + x
      BY <1>0, <1>2, <2>1, <2>3
    <3>2. b >= 1 \/ b <= -1
      BY <2>1
    <3>3. b + n >= 1
      BY <1>0, <2>1
    <3>4. 7 * b + x \notin 1..7
      BY <2>1, <3>2
    <3>5. 7 * (b + n) + x \notin 1..7
      BY <1>0, <2>1, <3>3
    <3> QED BY <3>1, <3>4, <3>5
  <2> QED BY <2>2, <2>3
<1> QED BY <1>3, LinkStays

LEMMA GbtGoesOn ==
  ASSUME NEW cal \in {"gbt", "gbtTest"}, NEW k \in 1..Len(StepsOf(cal)),
         AreDevices, GbtProgress(cal, k), NEW s, s = StepsOf(cal)[k],
         NEW d \in Links, d = s[2], OnTime(device[d], s[1]),
         NEW e \in Did(device[d], s[1], s[3]), device' = [device EXCEPT ![d] = e]
  PROVE  GbtProgress(cal, k + 1)'
<1> DEFINE n == Len(GbtLinks)
           o == Refs(cal)
           w == StepsOf(cal)
<1>1. n \in Nat /\ o \in Nat /\ Len(w) = o + 14 * n /\ k \in 1..(o + 14 * n)
  BY LinkScript, RefsAre
<1>2. cal = "gbt" => \A i \in 1..n : IsStep(w[i], "ref", GbtLinks[i], 2)
  BY LinkScript
<1>3. \A i \in 1..n, j \in 1..7 :
        /\ w[o + 7 * (i - 1) + j] = TransceiverSteps(GbtLinks[i], "tx")[j]
        /\ w[o + 7 * n + 7 * (i - 1) + j] = TransceiverSteps(GbtLinks[i], "rx")[j]
  BY LinkScript
<1>4. /\ cal = "gbt" => o = n
      /\ cal # "gbt" => o = 0
      /\ \A i \in 1..n : GbtLinks[i] \in Links /\ GbtLinks[i] \in Devices
      /\ \A i, j \in 1..n : GbtLinks[i] = GbtLinks[j] => i = j
  BY RefsAre, CalibrationAssumption
<1>5. DOMAIN device = Devices /\ d \in Devices /\ IsDevice(device[d])
      /\ \A c \in Devices : device'[c] = IF c = d THEN e ELSE device[c]
  BY DEF AreDevices, Devices
<1>6. \A i \in 1..n :
        /\ cal = "gbt" /\ k > i => device[GbtLinks[i]].ref = 2
        /\ LinkAt(device[GbtLinks[i]], cal, i, k)
  BY DEF GbtProgress
<1>7. w[k] = s
  OBVIOUS
<1>8. k \in Int /\ k + 1 \in Int
  BY <1>1
<1>9. ASSUME \A i \in 1..n :
               /\ cal = "gbt" /\ k + 1 > i => device'[GbtLinks[i]].ref = 2
               /\ LinkAt(device'[GbtLinks[i]], cal, i, k + 1)
      PROVE  GbtProgress(cal, k + 1)'
  BY <1>9 DEF GbtProgress, LinkAt, Refs
<1> HIDE DEF n, o, w
<1>10. \/ k \in 1..o
       \/ \E i \in 1..n, j \in 1..7 : k = o + 7 * (i - 1) + j
       \/ \E i \in 1..n, j \in 1..7 : k = o + 7 * n + 7 * (i - 1) + j
  BY <1>1, WhereInLinks
<1>11. CASE k \in 1..o
  <2>1. cal = "gbt" /\ k \in 1..n /\ o = n
    BY <1>4, <1>11
  <2>2. s[1] = "ref" /\ d = GbtLinks[k] /\ s[3] = 2
    BY <1>2, <1>7, <2>1 DEF IsStep
  <2>3. Effect(device[d], s[1], s[3], e)
    BY <1>5, Effects
  <2>4. e.ref = 2
    BY <2>2, <2>3 DEF Effect
  <2>5. ASSUME NEW i \in 1..n, k + 1 > i PROVE device'[GbtLinks[i]].ref = 2
    <3>1. CASE i = k
      BY <1>4, <1>5, <2>2, <2>4, <3>1
    <3>2. CASE i # k
      <4>1. GbtLinks[i] # d
        BY <1>4, <2>1, <2>2, <3>2
      <4>2. k > i
        BY <1>1, <2>5, <3>2
      <4> QED BY <1>4, <1>5, <1>6, <2>1, <4>1, <4>2
    <3> QED BY <3>1, <3>2
  <2>6. ASSUME NEW i \in 1..n PROVE LinkAt(device'[GbtLinks[i]], cal, i, k + 1)
    <3>1. PICK c : c = device'[GbtLinks[i]]
      OBVIOUS
    <3>2. PICK p \in Int, q \in Int :
            p = (k + 1) - o - 7 * (i - 1) /\ q = (k + 1) - o - 7 * n - 7 * (i - 1)
      BY <1>1
    <3>3. p < 2 /\ q < 2
      BY <1>1, <1>11, <3>2
    <3>4. BothAt(c, "tx", p, q)
      BY <3>3 DEF BothAt, TransceiverAt
    <3>5. LinkAt(c, cal, i, k + 1)
      BY <3>2, <3>4 DEF LinkAt, n, o
    <3> QED BY <3>1, <3>5
  <2> QED BY <1>9, <2>5, <2>6
<1>12. ASSUME NEW i \in 1..n, NEW x \in 1..7, NEW v \in {"tx", "rx"},
              StepOfLink(cal, k, i, v, x), s = TransceiverSteps(GbtLinks[i], v)[x]
       PROVE  GbtProgress(cal, k + 1)'
  <2>1. d = GbtLinks[i]
    <3>1. x \in {1, 2, 3, 4, 5, 6, 7}
      OBVIOUS
    <3> QED BY <1>12, <3>1, TransceiverScript DEF IsStep
  <2>2. PICK c : c = device[d]
    OBVIOUS
  <2>3. IsDevice(c) /\ LinkAt(c, cal, i, k) /\ OnTime(c, s[1]) /\ e \in Did(c, s[1], s[3])
    BY <1>5, <1>6, <2>1, <2>2
  <2>4. LinkAt(e, cal, i, k + 1) /\ e.ref = c.ref
    <3>1. i \in 1..Len(GbtLinks)
      BY DEF n
    <3>2. k \in Int /\ StepOfLink(cal, k, i, v, x)
      BY <1>8, <1>12
    <3>3. s = TransceiverSteps(GbtLinks[i], v)[x]
      BY <1>12
    <3>4. LinkStepped(cal, k, i, c, e)
      BY <2>3, <3>1, <3>2, <3>3, LinkGoesOn
    <3> QED BY <3>4 DEF LinkStepped
  <2>5. ASSUME NEW j \in 1..n PROVE LinkAt(device'[GbtLinks[j]], cal, j, k + 1)
    <3>1. CASE j = i
      BY <1>4, <1>5, <2>1, <2>4, <3>1
    <3>2. CASE j # i
      <4>1. device'[GbtLinks[j]] = device[GbtLinks[j]]
        BY <1>4, <1>5, <2>1, <3>2
      <4>2. PICK b : b = device[GbtLinks[j]]
        OBVIOUS
      <4>3. LinkAt(b, cal, j, k)
        BY <1>6, <4>2
      <4>4. LinkAt(b, cal, j, k + 1)
        BY <1>8, <1>12, <3>2, <4>3, OtherLinksStay DEF n
      <4> QED BY <4>1, <4>2, <4>4
    <3> QED BY <3>1, <3>2
  <2>6. ASSUME cal = "gbt", NEW j \in 1..n, k + 1 > j PROVE device'[GbtLinks[j]].ref = 2
    <3>1. k > j
      <4>1. o = n
        BY <1>4, <2>6
      <4>2. k = n + 7 * (i - 1) + x + (IF v = "tx" THEN 0 ELSE 7 * n)
        BY <1>12, <4>1 DEF StepOfLink, n, o
      <4>3. PICK y \in Nat : y = 7 * (i - 1)
        BY <1>1
      <4>4. PICK u \in Nat : u = (IF v = "tx" THEN 0 ELSE 7 * n)
        BY <1>1
      <4>5. k = n + y + x + u
        BY <4>2, <4>3, <4>4
      <4>6. k > n
        BY <1>1, <4>5
      <4> QED BY <1>1, <4>6
    <3>2. device[GbtLinks[j]].ref = 2
      BY <1>6, <2>6, <3>1
    <3> QED BY <1>4, <1>5, <2>2, <2>4, <3>2
  <2> QED BY <1>9, <2>5, <2>6
<1>13. CASE \E i \in 1..n, j \in 1..7 : k = o + 7 * (i - 1) + j
  <2>1. PICK i \in 1..n, j \in 1..7 : k = o + 7 * (i - 1) + j
    BY <1>13
  <2>2. StepOfLink(cal, k, i, "tx", j)
    BY <1>1, <2>1 DEF StepOfLink, n, o
  <2>3. s = TransceiverSteps(GbtLinks[i], "tx")[j] /\ "tx" \in {"tx", "rx"}
    BY <1>3, <1>7, <2>1
  <2> QED BY <1>12, <2>2, <2>3
<1>14. CASE \E i \in 1..n, j \in 1..7 : k = o + 7 * n + 7 * (i - 1) + j
  <2>1. PICK i \in 1..n, j \in 1..7 : k = o + 7 * n + 7 * (i - 1) + j
    BY <1>14
  <2>2. StepOfLink(cal, k, i, "rx", j)
    BY <1>1, <2>1 DEF StepOfLink, n, o
  <2>3. s = TransceiverSteps(GbtLinks[i], "rx")[j] /\ "rx" \in {"tx", "rx"}
    BY <1>3, <1>7, <2>1
  <2> QED BY <1>12, <2>2, <2>3
<1> QED BY <1>10, <1>11, <1>13, <1>14

(* The script of the TTC part                                              *)
AreJoined(a, b) ==
  /\ IsScript(a \o b) /\ Len(a \o b) = Len(a) + Len(b)
  /\ \A i \in 1..Len(a) : (a \o b)[i] = a[i]
  /\ \A i \in 1..Len(b) : (a \o b)[Len(a) + i] = b[i]
LEMMA ScriptsAreJoined == ASSUME NEW a, NEW b, IsScript(a), IsScript(b) PROVE AreJoined(a, b)
BY ScriptsJoin DEF AreJoined

LEMMA TtcScript ==
  /\ IsScript(TtcSteps) /\ Len(TtcSteps) = 28
  /\ IsStep(TtcSteps[1], "ref", "atx", 0) /\ IsStep(TtcSteps[9], "ref", "fpll", 1)
  /\ IsStep(TtcSteps[10], "direct", "fpll", "pll") /\ IsStep(TtcSteps[28], "check", "pon", "rx")
  /\ \A j \in 1..7 : /\ TtcSteps[1 + j] = TransceiverSteps("pon", "rx")[j]
                      /\ TtcSteps[20 + j] = TransceiverSteps("pon", "tx")[j]
  /\ \A j \in 1..5 : /\ TtcSteps[10 + j] = PllSteps("fpll")[j]
                      /\ TtcSteps[15 + j] = PllSteps("atx")[j]
<1> DEFINE a == <<<<"ref", "atx", 0>>>>
           b == TransceiverSteps("pon", "rx")
           c1 == <<"ref", "fpll", 1>>
           c2 == <<"direct", "fpll", "pll">>
           c == <<c1, c2>> \o PllSteps("fpll")
           d == PllSteps("atx")
           e == TransceiverSteps("pon", "tx")
           f == <<<<"check", "pon", "rx">>>>
<1>1. TtcSteps = a \o b \o c \o d \o e \o f
  BY DEF TtcSteps, FpllSteps
<1>2. /\ IsScript(a) /\ Len(a) = 1 /\ IsStep(a[1], "ref", "atx", 0)
      /\ IsScript(f) /\ Len(f) = 1 /\ IsStep(f[1], "check", "pon", "rx")
  BY OneStepScript
<1>3. IsScript(b) /\ Len(b) = 7 /\ IsScript(e) /\ Len(e) = 7
  BY TransceiverScript
<1>4. IsScript(d) /\ Len(d) = 5
  BY PllScript
<1>5. /\ IsScript(c) /\ Len(c) = 7 /\ IsStep(c[1], "ref", "fpll", 1)
      /\ IsStep(c[2], "direct", "fpll", "pll") /\ \A j \in 1..5 : c[2 + j] = PllSteps("fpll")[j]
  <2> DEFINE h == PllSteps("fpll")
             g == <<c1, c2>>
  <2>1. IsStep(c1, "ref", "fpll", 1) /\ IsStep(c2, "direct", "fpll", "pll")
    BY DEF IsStep
  <2>2. IsScript(h) /\ Len(h) = 5
    BY PllScript
  <2> HIDE DEF h, c1, c2
  <2>3. g \in Seq({c1, c2}) /\ Len(g) = 2 /\ g[1] = c1 /\ g[2] = c2
    OBVIOUS
  <2> HIDE DEF g
  <2>4. IsScript(g)
    BY <2>3 DEF IsScript
  <2>5. /\ IsScript(g \o h) /\ Len(g \o h) = Len(g) + Len(h)
        /\ \A i \in 1..Len(g) : (g \o h)[i] = g[i]
        /\ \A i \in 1..Len(h) : (g \o h)[Len(g) + i] = h[i]
    <3>1. IsScript(g) /\ IsScript(h)
      BY <2>2, <2>4
    <3>2. AreJoined(g, h)
      BY <3>1, ScriptsAreJoined
    <3> QED BY <3>2 DEF AreJoined
  <2>6. /\ IsScript(g \o h) /\ Len(g \o h) = 7 /\ (g \o h)[1] = c1 /\ (g \o h)[2] = c2
        /\ \A i \in 1..5 : (g \o h)[2 + i] = h[i]
    BY <2>2, <2>3, <2>5
  <2> QED BY <2>1, <2>6 DEF g, h
<1> HIDE DEF a, b, c, d, e, f
<1> DEFINE x == a \o b
<1>6. /\ IsScript(x) /\ Len(x) = 8 /\ x[1] = a[1] /\ \A j \in 1..7 : x[1 + j] = b[j]
  <2>1. /\ IsScript(x) /\ Len(x) = Len(a) + Len(b)
        /\ \A i \in 1..Len(a) : x[i] = a[i]
        /\ \A i \in 1..Len(b) : x[Len(a) + i] = b[i]
    <3>1. IsScript(a) /\ IsScript(b)
      BY <1>2, <1>3
    <3>2. AreJoined(a, b)
      BY <3>1, ScriptsAreJoined
    <3> QED BY <3>2 DEF AreJoined
  <2> HIDE DEF x
  <2> QED BY <1>2, <1>3, <2>1
<1> HIDE DEF x
<1> DEFINE y == x \o c
<1>7. /\ IsScript(y) /\ Len(y) = 15 /\ \A i \in 1..8 : y[i] = x[i]
      /\ \A i \in 1..7 : y[8 + i] = c[i]
  <2>1. /\ IsScript(y) /\ Len(y) = Len(x) + Len(c)
        /\ \A i \in 1..Len(x) : y[i] = x[i]
        /\ \A i \in 1..Len(c) : y[Len(x) + i] = c[i]
    <3>1. IsScript(x) /\ IsScript(c)
      BY <1>5, <1>6
    <3>2. AreJoined(x, c)
      BY <3>1, ScriptsAreJoined
    <3> QED BY <3>2 DEF AreJoined
  <2> HIDE DEF y
  <2> QED BY <1>5, <1>6, <2>1
<1> HIDE DEF y
<1> DEFINE z == y \o d
<1>8. /\ IsScript(z) /\ Len(z) = 20 /\ \A i \in 1..15 : z[i] = y[i]
      /\ \A i \in 1..5 : z[15 + i] = d[i]
  <2>1. /\ IsScript(z) /\ Len(z) = Len(y) + Len(d)
        /\ \A i \in 1..Len(y) : z[i] = y[i]
        /\ \A i \in 1..Len(d) : z[Len(y) + i] = d[i]
    <3>1. IsScript(y) /\ IsScript(d)
      BY <1>4, <1>7
    <3>2. AreJoined(y, d)
      BY <3>1, ScriptsAreJoined
    <3> QED BY <3>2 DEF AreJoined
  <2> HIDE DEF z
  <2> QED BY <1>4, <1>7, <2>1
<1> HIDE DEF z
<1> DEFINE u == z \o e
<1>9. /\ IsScript(u) /\ Len(u) = 27 /\ \A i \in 1..20 : u[i] = z[i]
      /\ \A i \in 1..7 : u[20 + i] = e[i]
  <2>1. /\ IsScript(u) /\ Len(u) = Len(z) + Len(e)
        /\ \A i \in 1..Len(z) : u[i] = z[i]
        /\ \A i \in 1..Len(e) : u[Len(z) + i] = e[i]
    <3>1. IsScript(z) /\ IsScript(e)
      BY <1>3, <1>8
    <3>2. AreJoined(z, e)
      BY <3>1, ScriptsAreJoined
    <3> QED BY <3>2 DEF AreJoined
  <2> HIDE DEF u
  <2> QED BY <1>3, <1>8, <2>1
<1> HIDE DEF u
<1> DEFINE w == u \o f
<1>10. /\ IsScript(w) /\ Len(w) = 28 /\ \A i \in 1..27 : w[i] = u[i]
       /\ w[28] = f[1]
  <2>1. /\ IsScript(w) /\ Len(w) = Len(u) + Len(f)
        /\ \A i \in 1..Len(u) : w[i] = u[i]
        /\ \A i \in 1..Len(f) : w[Len(u) + i] = f[i]
    <3>1. IsScript(u) /\ IsScript(f)
      BY <1>2, <1>9
    <3>2. AreJoined(u, f)
      BY <3>1, ScriptsAreJoined
    <3> QED BY <3>2 DEF AreJoined
  <2> HIDE DEF w
  <2>2. 27 + 1 = 28 /\ 1 \in 1..1
    OBVIOUS
  <2> QED BY <1>2, <1>9, <2>1, <2>2
<1>11. TtcSteps = w
  BY <1>1 DEF x, y, z, u
<1> HIDE DEF w
<1>12. \A i \in 1..8 : w[i] = x[i]
  BY <1>7, <1>8, <1>9, <1>10
<1>13. \A i \in 1..7 : w[8 + i] = c[i]
  BY <1>7, <1>8, <1>9, <1>10
<1>14. \A i \in 1..5 : w[15 + i] = d[i]
  BY <1>8, <1>9, <1>10
<1>15. \A i \in 1..7 : w[20 + i] = e[i]
  BY <1>9, <1>10
<1>16. w[1] = a[1] /\ \A j \in 1..7 : w[1 + j] = b[j]
  BY <1>6, <1>12
<1>17. w[9] = c[1] /\ w[10] = c[2] /\ \A j \in 1..5 : w[10 + j] = c[2 + j]
  <2>1. /\ 8 + 1 = 9 /\ 8 + 2 = 10 /\ \A j \in 1..5 : 10 + j = 8 + (2 + j) /\ 2 + j \in 1..7
    OBVIOUS
  <2> QED BY <1>13, <2>1
<1> QED BY <1>2, <1>5, <1>10, <1>11, <1>14, <1>15, <1>16, <1>17 DEF b, d, e

TtcParts == {"pon", "fpll", "atx"}

LEMMA TtcTypes ==
  ASSUME NEW k \in 1..28
  PROVE  LET s == TtcSteps[k]
         IN  s[2] \in TtcParts /\ (s[1] \in {"hide", "show"} => s[3] \in {"rx", "tx"})
<1>1. \/ k = 1 \/ k = 9 \/ k = 10 \/ k = 28
      \/ \E j \in 1..7 : k = 1 + j \/ k = 20 + j
      \/ \E j \in 1..5 : k = 10 + j \/ k = 15 + j
  <2>1. CASE k \in 2..8
    <3>1. k - 1 \in 1..7 /\ k = 1 + (k - 1)
      BY <2>1
    <3> QED BY <3>1
  <2>2. CASE k \in 21..27
    <3>1. k - 20 \in 1..7 /\ k = 20 + (k - 20)
      BY <2>2
    <3> QED BY <3>1
  <2>3. CASE k \in 11..15
    <3>1. k - 10 \in 1..5 /\ k = 10 + (k - 10)
      BY <2>3
    <3> QED BY <3>1
  <2>4. CASE k \in 16..20
    <3>1. k - 15 \in 1..5 /\ k = 15 + (k - 15)
      BY <2>4
    <3> QED BY <3>1
  <2> QED BY <2>1, <2>2, <2>3, <2>4
<1>2. CASE k = 1 \/ k = 9 \/ k = 10 \/ k = 28
  BY <1>2, TtcScript DEF IsStep, TtcParts
<1>3. CASE \E j \in 1..7 : k = 1 + j \/ k = 20 + j
  <2>1. PICK j \in 1..7 : k = 1 + j \/ k = 20 + j
    BY <1>3
  <2>2. PICK v \in {"rx", "tx"} : TtcSteps[k] = TransceiverSteps("pon", v)[j]
    BY <2>1, TtcScript
  <2>3. j \in {1, 2, 3, 4, 5, 6, 7} /\ Other(v) \in {"rx", "tx"}
    BY DEF Other
  <2> QED BY <2>2, <2>3, TransceiverScript DEF IsStep, TtcParts
<1>4. CASE \E j \in 1..5 : k = 10 + j \/ k = 15 + j
  <2>1. PICK j \in 1..5 : k = 10 + j \/ k = 15 + j
    BY <1>4
  <2>2. PICK d \in {"fpll", "atx"} : TtcSteps[k] = PllSteps(d)[j]
    BY <2>1, TtcScript
  <2>3. j \in {1, 2, 3, 4, 5}
    OBVIOUS
  <2> QED BY <2>2, <2>3, PllScript DEF IsStep, TtcParts
<1> QED BY <1>1, <1>2, <1>3, <1>4

(* What the three devices of the TTC part are like at step k of its script *)
PonAt(c, k) == BothAt(c, "rx", k - 1, k - 20)
FpllAt(c, k) == /\ k > 9 => c.ref = 1
                /\ k > 10 => c.direct = TRUE
                /\ PllAt(c, k - 10)
AtxAt(c, k) == (k > 1 => c.ref = 0) /\ PllAt(c, k - 15)

LEMMA TtcDevice ==
  ASSUME NEW k \in 1..28
  PROVE  /\ k \in 2..8 \cup 21..28 => TtcSteps[k][2] = "pon"
         /\ k \in 9..15 => TtcSteps[k][2] = "fpll"
         /\ k \in {1} \cup 16..20 => TtcSteps[k][2] = "atx"
<1>1. ASSUME NEW v \in {"rx", "tx"}, NEW j \in 1..7 PROVE TransceiverSteps("pon", v)[j][2] = "pon"
  <2>1. j \in {1, 2, 3, 4, 5, 6, 7}
    OBVIOUS
  <2> QED BY <2>1, TransceiverScript DEF IsStep
<1>2. ASSUME NEW d \in {"fpll", "atx"}, NEW j \in 1..5 PROVE PllSteps(d)[j][2] = d
  <2>1. j \in {1, 2, 3, 4, 5}
    OBVIOUS
  <2> QED BY <2>1, PllScript DEF IsStep
<1>3. CASE k \in 2..8
  <2>1. k - 1 \in 1..7 /\ k = 1 + (k - 1)
    BY <1>3
  <2>2. TtcSteps[k] = TransceiverSteps("pon", "rx")[k - 1]
    BY <2>1, TtcScript
  <2> QED BY <1>1, <1>3, <2>1, <2>2
<1>4. CASE k \in 21..27
  <2>1. k - 20 \in 1..7 /\ k = 20 + (k - 20)
    BY <1>4
  <2>2. TtcSteps[k] = TransceiverSteps("pon", "tx")[k - 20]
    BY <2>1, TtcScript
  <2> QED BY <1>1, <1>4, <2>1, <2>2
<1>5. CASE k \in 11..15
  <2>1. k - 10 \in 1..5 /\ k = 10 + (k - 10)
    BY <1>5
  <2>2. TtcSteps[k] = PllSteps("fpll")[k - 10]
    BY <2>1, TtcScript
  <2> QED BY <1>2, <1>5, <2>1, <2>2
<1>6. CASE k \in 16..20
  <2>1. k - 15 \in 1..5 /\ k = 15 + (k - 15)
    BY <1>6
  <2>2. TtcSteps[k] = PllSteps("atx")[k - 15]
    BY <2>1, TtcScript
  <2> QED BY <1>2, <1>6, <2>1, <2>2
<1>7. CASE k \in {1, 9, 10, 28}
  BY <1>7, TtcScript DEF IsStep
<1> QED BY <1>3, <1>4, <1>5, <1>6, <1>7

LEMMA PonGoesOn ==
  ASSUME NEW k \in 1..28, NEW c, IsDevice(c), PonAt(c, k), NEW s, s = TtcSteps[k],
         s[2] = "pon", OnTime(c, s[1]), NEW e \in Did(c, s[1], s[3])
  PROVE  PonAt(e, k + 1)
<1>1. PICK p \in Int, q \in Int : p = k - 1 /\ q = k - 20
  OBVIOUS
<1>2. BothAt(c, "rx", p, q)
  BY <1>1 DEF PonAt
<1>3. BothAt(e, "rx", p + 1, q + 1) => PonAt(e, k + 1)
  <2>1. (k + 1) - 1 = p + 1 /\ (k + 1) - 20 = q + 1
    BY <1>1
  <2> QED BY <2>1 DEF PonAt
<1>4. Other("rx") = "tx" /\ Other("tx") = "rx"
  BY DEF Other
<1>5. CASE k \in 2..8
  <2>1. p \in 1..7 /\ q < 1 /\ k = 1 + p
    BY <1>1, <1>5
  <2>2. s = TransceiverSteps("pon", "rx")[p]
    BY <2>1, TtcScript
  <2>3. TransceiverAt(c, "rx", p)
    BY <1>2 DEF BothAt
  <2>4. TransceiverStepped(c, e, "rx", p)
    <3>1. IsStep(s, TransceiverSteps("pon", "rx")[p][1], TransceiverSteps("pon", "rx")[p][2],
                 TransceiverSteps("pon", "rx")[p][3])
      BY <2>2 DEF IsStep
    <3>2. "rx" \in {"tx", "rx"}
      OBVIOUS
    <3> QED BY <2>1, <2>3, <3>1, <3>2, TransceiverGoesOn
  <2>5. TransceiverAt(e, "rx", p + 1) /\ (p = 7 => e.bus = "engine")
    BY <2>4 DEF TransceiverStepped
  <2>6. TransceiverAt(e, Other("rx"), q + 1)
    BY <2>1 DEF TransceiverAt
  <2> QED BY <1>3, <2>1, <2>5, <2>6 DEF BothAt
<1>6. CASE k \in 21..27
  <2>1. q \in 1..7 /\ p > 7 /\ k = 20 + q
    BY <1>1, <1>6
  <2>2. s = TransceiverSteps("pon", "tx")[q]
    BY <2>1, TtcScript
  <2>3. TransceiverAt(c, "tx", q) /\ TransceiverAt(c, Other("tx"), p)
    BY <1>2, <1>4 DEF BothAt
  <2>4. TransceiverStepped(c, e, "tx", q)
    <3>1. IsStep(s, TransceiverSteps("pon", "tx")[q][1], TransceiverSteps("pon", "tx")[q][2],
                 TransceiverSteps("pon", "tx")[q][3])
      BY <2>2 DEF IsStep
    <3>2. "tx" \in {"tx", "rx"}
      OBVIOUS
    <3> QED BY <2>1, <2>3, <3>1, <3>2, TransceiverGoesOn
  <2>5. TransceiverAt(e, "tx", q + 1) /\ (q = 7 => e.bus = "engine")
    BY <2>4 DEF TransceiverStepped
  <2>6. TransceiverAt(e, "rx", p)
    BY <1>4, <2>1, <2>3, <2>4 DEF TransceiverStepped
  <2>7. TransceiverAt(e, "rx", p + 1)
    BY <2>1, <2>6 DEF TransceiverAt
  <2> QED BY <1>3, <1>4, <2>1, <2>5, <2>7 DEF BothAt
<1>7. CASE k = 28
  <2>1. s[1] = "check"
    BY <1>7, TtcScript DEF IsStep
  <2>2. e = c
    BY <2>1 DEF Did
  <2>3. p \notin 1..7 /\ q \notin 1..7
    BY <1>1, <1>7
  <2> QED BY <1>2, <1>3, <2>2, <2>3, BothIdle
<1> QED BY <1>5, <1>6, <1>7, TtcDevice

LEMMA PonStays ==
  ASSUME NEW k \in 1..28, NEW c, PonAt(c, k), TtcSteps[k][2] # "pon"
  PROVE  PonAt(c, k + 1)
<1>1. PICK p \in Int, q \in Int : p = k - 1 /\ q = k - 20
  OBVIOUS
<1>2. BothAt(c, "rx", p, q)
  BY <1>1 DEF PonAt
<1>3. p \notin 1..7 /\ q \notin 1..7
  BY <1>1, TtcDevice
<1>4. BothAt(c, "rx", p + 1, q + 1)
  BY <1>2, <1>3, BothIdle
<1>5. (k + 1) - 1 = p + 1 /\ (k + 1) - 20 = q + 1
  BY <1>1
<1> QED BY <1>4, <1>5 DEF PonAt

LEMMA FpllGoesOn ==
  ASSUME NEW k \in 1..28, NEW c, IsDevice(c), FpllAt(c, k), NEW s, s = TtcSteps[k],
         s[2] = "fpll", OnTime(c, s[1]), NEW e \in Did(c, s[1], s[3])
  PROVE  FpllAt(e, k + 1)
<1>1. PICK p \in Int : p = k - 10
  OBVIOUS
<1>2. PllAt(c, p) /\ (k > 9 => c.ref = 1) /\ (k > 10 => c.direct = TRUE)
  BY <1>1 DEF FpllAt
<1>3. ASSUME PllAt(e, p + 1), k + 1 > 9 => e.ref = 1, k + 1 > 10 => e.direct = TRUE
      PROVE  FpllAt(e, k + 1)
  <2>1. (k + 1) - 10 = p + 1
    BY <1>1
  <2> QED BY <1>3, <2>1 DEF FpllAt
<1>4. Effect(c, s[1], s[3], e)
  BY Effects
<1>5. CASE k = 9
  <2>1. s[1] = "ref" /\ s[3] = 1
    BY <1>5, TtcScript DEF IsStep
  <2>2. e.ref = 1
    BY <1>4, <2>1 DEF Effect
  <2>3. PllAt(e, p + 1)
    BY <1>1, <1>5 DEF PllAt
  <2> QED BY <1>3, <1>5, <2>2, <2>3
<1>6. CASE k = 10
  <2>1. s[1] = "direct"
    BY <1>6, TtcScript DEF IsStep
  <2>2. e.direct = TRUE /\ e.ref = c.ref
    BY <1>4, <2>1 DEF Effect
  <2>3. PllAt(e, p + 1)
    BY <1>1, <1>6 DEF PllAt
  <2>4. e.ref = 1
    BY <1>2, <1>6, <2>2
  <2> QED BY <1>3, <2>2, <2>3, <2>4
<1>7. CASE k \in 11..15
  <2>1. p \in 1..5 /\ k = 10 + p
    BY <1>1, <1>7
  <2>2. s = PllSteps("fpll")[p]
    BY <2>1, TtcScript
  <2>3. IsStep(s, PllSteps("fpll")[p][1], PllSteps("fpll")[p][2], PllSteps("fpll")[p][3])
    BY <2>2 DEF IsStep
  <2>4. PllAt(e, p + 1) /\ e.ref = c.ref /\ e.direct = c.direct
    BY <1>2, <2>1, <2>3, PllGoesOn
  <2>5. c.ref = 1
    BY <1>2, <1>7
  <2>6. c.direct = TRUE
    BY <1>2, <1>7
  <2> QED BY <1>3, <2>4, <2>5, <2>6
<1> QED BY <1>5, <1>6, <1>7, TtcDevice

LEMMA FpllStays ==
  ASSUME NEW k \in 1..28, NEW c, FpllAt(c, k), TtcSteps[k][2] # "fpll"
  PROVE  FpllAt(c, k + 1)
<1>1. PICK p \in Int : p = k - 10
  OBVIOUS
<1>2. PllAt(c, p) /\ (k > 9 => c.ref = 1) /\ (k > 10 => c.direct = TRUE)
  BY <1>1 DEF FpllAt
<1>3. k \notin 9..15
  BY TtcDevice
<1>4. PllAt(c, p + 1)
  <2>1. p \notin 1..5
    BY <1>1, <1>3
  <2> QED BY <1>2, <2>1, PllIdle
<1>5. (k + 1) - 10 = p + 1 /\ (k + 1 > 9 => k > 9) /\ (k + 1 > 10 => k > 10)
  BY <1>1, <1>3
<1> QED BY <1>2, <1>4, <1>5 DEF FpllAt

LEMMA AtxGoesOn ==
  ASSUME NEW k \in 1..28, NEW c, IsDevice(c), AtxAt(c, k), NEW s, s = TtcSteps[k],
         s[2] = "atx", OnTime(c, s[1]), NEW e \in Did(c, s[1], s[3])
  PROVE  AtxAt(e, k + 1)
<1>1. PICK p \in Int : p = k - 15
  OBVIOUS
<1>2. PllAt(c, p) /\ (k > 1 => c.ref = 0)
  BY <1>1 DEF AtxAt
<1>3. ASSUME PllAt(e, p + 1), e.ref = 0 PROVE AtxAt(e, k + 1)
  <2>1. (k + 1) - 15 = p + 1
    BY <1>1
  <2> QED BY <1>3, <2>1 DEF AtxAt
<1>4. Effect(c, s[1], s[3], e)
  BY Effects
<1>5. CASE k = 1
  <2>1. s[1] = "ref" /\ s[3] = 0
    BY <1>5, TtcScript DEF IsStep
  <2>2. e.ref = 0
    BY <1>4, <2>1 DEF Effect
  <2>3. PllAt(e, p + 1)
    BY <1>1, <1>5 DEF PllAt
  <2> QED BY <1>3, <2>2, <2>3
<1>6. CASE k \in 16..20
  <2>1. p \in 1..5 /\ k = 15 + p /\ k > 1
    BY <1>1, <1>6
  <2>2. s = PllSteps("atx")[p]
    BY <2>1, TtcScript
  <2>3. IsStep(s, PllSteps("atx")[p][1], PllSteps("atx")[p][2], PllSteps("atx")[p][3])
    BY <2>2 DEF IsStep
  <2>4. PllAt(e, p + 1) /\ e.ref = c.ref
    BY <1>2, <2>1, <2>3, PllGoesOn
  <2> QED BY <1>2, <1>3, <2>1, <2>4
<1> QED BY <1>5, <1>6, TtcDevice

LEMMA AtxStays ==
  ASSUME NEW k \in 1..28, NEW c, AtxAt(c, k), TtcSteps[k][2] # "atx"
  PROVE  AtxAt(c, k + 1)
<1>1. PICK p \in Int : p = k - 15
  OBVIOUS
<1>2. PllAt(c, p) /\ (k > 1 => c.ref = 0)
  BY <1>1 DEF AtxAt
<1>3. k \notin 16..20 /\ k > 1
  BY TtcDevice
<1>4. PllAt(c, p + 1)
  <2>1. p \notin 1..5
    BY <1>1, <1>3
  <2> QED BY <1>2, <2>1, PllIdle
<1>5. (k + 1) - 15 = p + 1
  BY <1>1
<1> QED BY <1>2, <1>3, <1>4, <1>5 DEF AtxAt

-----------------------------------------------------------------------------
(* The invariant of the calibration: what the tool has left to do is a     *)
(* rest of one script, and if it has given up no wait, its devices are as  *)
(* the steps before left them; what is calibrated is complete.             *)
CalibParts == {"ttc", "gbt", "gbtTest"}
SamePart(cal) == IF cal = "ttc" THEN {"ttc"} ELSE {"gbt", "gbtTest"}

Progress(cal, k) ==
  IF cal = "ttc" THEN PonAt(device["pon"], k) /\ FpllAt(device["fpll"], k) /\ AtxAt(device["atx"], k)
  ELSE GbtProgress(cal, k)

IsRest(cal, k) ==
  /\ Len(calibTodo) = (Len(StepsOf(cal)) - k) + 1
  /\ \A i \in 1..Len(calibTodo) : calibTodo[i] = StepsOf(cal)[k + (i - 1)]
  /\ calibrated \cap SamePart(cal) = {} /\ calibrating \in {"none", cal}
  /\ calibrating = cal => Progress(cal, k)

LinksDone ==
  \A d \in Links : /\ {"tx", "rx"} \subseteq device[d].good /\ device[d].shown = {"rx", "tx"}
                  /\ device[d].bus = "engine"
RefsDone == \A d \in Links : device[d].ref = 2
TtcDone ==
  /\ {"tx", "rx"} \subseteq device["pon"].good /\ "pll" \in device["fpll"].good
  /\ "pll" \in device["atx"].good
  /\ device["fpll"].ref = 1 /\ device["fpll"].direct = TRUE /\ device["atx"].ref = 0
  /\ device["pon"].shown = {"rx", "tx"}
  /\ \A d \in TtcParts : device[d].bus = "engine"
DoneIsComplete ==
  /\ {"gbt", "gbtTest"} \cap calibrated # {} => LinksDone
  /\ "gbt" \in calibrated => RefsDone
  /\ "ttc" \in calibrated => TtcDone

CalibInv ==
  /\ AreDevices /\ IsScript(calibTodo)
  /\ calibrated \subseteq CalibParts /\ calibrating \in CalibParts \cup {"none"}
  /\ calibTodo # <<>> => \E cal \in CalibParts : \E k \in 1..Len(StepsOf(cal)) : IsRest(cal, k)
  /\ DoneIsComplete

LEMMA PartsOfDevices ==
  /\ Devices = Links \cup TtcParts /\ Links \cap TtcParts = {}
  /\ \A d \in Links : \E i \in 1..Len(GbtLinks) : d = GbtLinks[i]
  /\ \A i \in 1..Len(GbtLinks) : GbtLinks[i] \in Links
  /\ Len(GbtLinks) \in Nat
<1>1. Devices = Links \cup TtcParts /\ Links \cap TtcParts = {}
  BY CalibrationAssumption DEF Devices, TtcParts
<1>2. Links = {GbtLinks[i] : i \in 1..Len(GbtLinks)}
  BY DEF Links
<1>3. Len(GbtLinks) \in Nat
  BY CalibrationAssumption
<1>4. /\ \A d \in Links : \E i \in 1..Len(GbtLinks) : d = GbtLinks[i]
      /\ \A i \in 1..Len(GbtLinks) : GbtLinks[i] \in Links
  BY <1>2
<1> QED BY <1>1, <1>3, <1>4

LEMMA CalibRight == CalibInv => CalibrationIsComplete
BY DEF CalibInv, DoneIsComplete, LinksDone, RefsDone, TtcDone, TtcParts, CalibrationIsComplete, Good

LEMMA CalibInitial == CalibInit => CalibInv
<1> SUFFICES ASSUME CalibInit PROVE CalibInv
  OBVIOUS
<1>1. AreDevices
  <2>1. PICK c : c = [bus |-> "engine", shown |-> {"rx", "tx"}, what |-> {}, good |-> {},
                      ref |-> -1, direct |-> FALSE]
    OBVIOUS
  <2>2. IsDevice(c)
    BY <2>1 DEF IsDevice
  <2>3. device = [d \in Devices |-> c]
    BY <2>1 DEF CalibInit
  <2> QED BY <2>2, <2>3 DEF AreDevices
<1>2. IsScript(calibTodo)
  <2>1. calibTodo \in Seq({})
    BY DEF CalibInit
  <2> QED BY <2>1 DEF IsScript
<1> QED BY <1>1, <1>2 DEF CalibInv, CalibInit, DoneIsComplete

(* Before its first step a script asks for nothing. *)
LEMMA NothingDone ==
  ASSUME NEW cal \in CalibParts PROVE Progress(cal, 1)
<1>1. CASE cal = "ttc"
  BY <1>1 DEF Progress, PonAt, FpllAt, AtxAt, BothAt, TransceiverAt, PllAt
<1>2. CASE cal # "ttc"
  <2>1. cal \in {"gbt", "gbtTest"}
    BY <1>2 DEF CalibParts
  <2>2. ASSUME NEW i \in 1..Len(GbtLinks), NEW c PROVE LinkAt(c, cal, i, 1)
    <3>1. PICK p \in Int, q \in Int :
            p = 1 - Refs(cal) - 7 * (i - 1) /\ q = 1 - Refs(cal) - 7 * Len(GbtLinks) - 7 * (i - 1)
      BY <2>1, RefsAre
    <3>2. p < 2 /\ q < 2
      BY <2>1, <3>1, RefsAre
    <3>3. BothAt(c, "tx", p, q)
      BY <3>2 DEF BothAt, TransceiverAt
    <3> QED BY <3>1, <3>3 DEF LinkAt
  <2>3. \A i \in 1..Len(GbtLinks) : ~(1 > i)
    <3>1. Len(GbtLinks) \in Nat
      BY PartsOfDevices
    <3> QED BY <3>1
  <2> QED BY <1>2, <2>2, <2>3 DEF Progress, GbtProgress
<1> QED BY <1>1, <1>2

(* After its last step the part is complete. *)
LEMMA AllDone ==
  ASSUME NEW cal \in CalibParts, NEW k, k = Len(StepsOf(cal)) + 1, AreDevices, Progress(cal, k)
  PROVE  /\ cal # "ttc" => LinksDone
         /\ cal = "gbt" => RefsDone
         /\ cal = "ttc" => TtcDone
<1>1. CASE cal = "ttc"
  <2>0. StepsOf(cal) = TtcSteps
    BY <1>1 DEF StepsOf
  <2>1. k = 29
    BY <2>0, TtcScript
  <2>2. BothAt(device["pon"], "rx", 28, 9) /\ IsDevice(device["pon"])
    BY <1>1, <2>1, PartsOfDevices DEF Progress, PonAt, AreDevices, TtcParts
  <2>3. {"tx", "rx"} \subseteq device["pon"].good /\ device["pon"].bus = "engine"
        /\ device["pon"].shown = {"rx", "tx"}
    BY <2>2 DEF BothAt, TransceiverAt, Other, IsDevice
  <2>4. PllAt(device["fpll"], 19) /\ device["fpll"].ref = 1 /\ device["fpll"].direct = TRUE
    BY <1>1, <2>1 DEF Progress, FpllAt
  <2>5. PllAt(device["atx"], 14) /\ device["atx"].ref = 0
    BY <1>1, <2>1 DEF Progress, AtxAt
  <2> QED BY <1>1, <2>3, <2>4, <2>5 DEF TtcDone, TtcParts, PllAt
<1>2. CASE cal # "ttc"
  <2>1. cal \in {"gbt", "gbtTest"}
    BY <1>2 DEF CalibParts
  <2>2. PICK n \in Nat, o \in Nat : n = Len(GbtLinks) /\ o = Refs(cal) /\ k = (o + 14 * n) + 1
                                /\ (cal = "gbt" => o = n)
    BY <2>1, RefsAre, LinkScript
  <2>3. \A i \in 1..n :
          /\ cal = "gbt" /\ k > i => device[GbtLinks[i]].ref = 2
          /\ LinkAt(device[GbtLinks[i]], cal, i, k)
    BY <1>2, <2>2 DEF Progress, GbtProgress
  <2>4. ASSUME NEW d \in Links
        PROVE  /\ {"tx", "rx"} \subseteq device[d].good /\ device[d].shown = {"rx", "tx"}
               /\ device[d].bus = "engine"
               /\ cal = "gbt" => device[d].ref = 2
    <3>1. PICK i \in 1..n : d = GbtLinks[i]
      BY <2>2, PartsOfDevices
    <3>2. PICK c : c = device[d]
      OBVIOUS
    <3>3. IsDevice(c) /\ LinkAt(c, cal, i, k)
      BY <2>3, <3>1, <3>2, PartsOfDevices DEF AreDevices
    <3>4. PICK p \in Int, q \in Int : p = k - o - 7 * (i - 1) /\ q = k - o - 7 * n - 7 * (i - 1)
      BY <2>2, SMTT(30)
    <3>5. p > 7 /\ q > 7
      <4>1. PICK x \in Int : x = i - 1 /\ x < n
        BY <2>2
      <4>2. p = 14 * n + 1 - 7 * x /\ q = 7 * n + 1 - 7 * x
        <5>1. PICK a \in Int, b \in Int : a = 7 * n /\ b = 7 * x
          BY <4>1
        <5>2. k = o + 2 * a + 1 /\ p = k - o - b /\ q = k - o - a - b
          BY <2>2, <3>4, <4>1, <5>1
        <5>3. p = 2 * a + 1 - b /\ q = a + 1 - b
          BY <5>2
        <5>4. 14 * n = 2 * a
          BY <5>1
        <5> QED BY <5>1, <5>3, <5>4
      <4> QED BY <2>2, <4>1, <4>2
    <3>6. BothAt(c, "tx", p, q)
      BY <2>2, <3>3, <3>4 DEF LinkAt
    <3>7. {"tx", "rx"} \subseteq c.good /\ c.shown = {"rx", "tx"} /\ c.bus = "engine"
      BY <3>3, <3>5, <3>6 DEF BothAt, TransceiverAt, Other, IsDevice
    <3>8. cal = "gbt" => c.ref = 2
      <4>1. k > i
        BY <2>2
      <4> QED BY <2>3, <3>1, <3>2, <4>1
    <3> QED BY <3>2, <3>7, <3>8
  <2> QED BY <1>2, <2>4 DEF LinksDone, RefsDone
<1> QED BY <1>1, <1>2

LEMMA PartsOfScripts ==
  ASSUME NEW cal \in CalibParts
  PROVE  LET w == StepsOf(cal)
         IN  /\ IsScript(w) /\ Len(w) \in Nat
             /\ \A k \in 1..Len(w) :
                  /\ w[k][2] \in Devices
                  /\ IF cal = "ttc" THEN w[k][2] \in TtcParts ELSE w[k][2] \in Links
                  /\ w[k][1] \in {"hide", "show"} => w[k][3] \in {"rx", "tx"}
<1>1. CASE cal = "ttc"
  <2>1. StepsOf(cal) = TtcSteps
    BY <1>1 DEF StepsOf
  <2>2. IsScript(TtcSteps) /\ Len(TtcSteps) = 28
    BY TtcScript
  <2>3. \A k \in 1..28 : /\ TtcSteps[k][2] \in TtcParts
                         /\ TtcSteps[k][1] \in {"hide", "show"} => TtcSteps[k][3] \in {"rx", "tx"}
    BY TtcTypes
  <2>4. \A d \in TtcParts : d \in Devices
    BY PartsOfDevices
  <2>5. \A k \in 1..28 :
          /\ TtcSteps[k][2] \in Devices /\ TtcSteps[k][2] \in TtcParts
          /\ TtcSteps[k][1] \in {"hide", "show"} => TtcSteps[k][3] \in {"rx", "tx"}
    BY <2>3, <2>4
  <2>6. ASSUME NEW k \in 1..Len(StepsOf(cal))
        PROVE  /\ StepsOf(cal)[k][2] \in Devices
               /\ IF cal = "ttc" THEN StepsOf(cal)[k][2] \in TtcParts
                  ELSE StepsOf(cal)[k][2] \in Links
               /\ StepsOf(cal)[k][1] \in {"hide", "show"} => StepsOf(cal)[k][3] \in {"rx", "tx"}
    <3>1. k \in 1..28 /\ StepsOf(cal)[k] = TtcSteps[k]
      BY <2>1, <2>2
    <3>2. PICK s : s = TtcSteps[k]
      OBVIOUS
    <3>3. s[2] \in Devices /\ s[2] \in TtcParts /\ (s[1] \in {"hide", "show"} => s[3] \in {"rx", "tx"})
      BY <2>5, <3>1, <3>2
    <3> QED BY <1>1, <3>1, <3>2, <3>3
  <2>7. IsScript(StepsOf(cal)) /\ Len(StepsOf(cal)) \in Nat
    BY <2>1, <2>2
  <2> QED BY <2>6, <2>7
<1>2. CASE cal # "ttc"
  <2>1. cal \in {"gbt", "gbtTest"}
    BY <1>2 DEF CalibParts
  <2>2. IsScript(StepsOf(cal)) /\ Len(StepsOf(cal)) \in Nat
    <3>1. PICK n \in Nat, o \in Nat : n = Len(GbtLinks) /\ o = Refs(cal)
      BY <2>1, RefsAre
    <3>2. IsScript(StepsOf(cal)) /\ Len(StepsOf(cal)) = o + 14 * n
      BY <2>1, <3>1, LinkScript
    <3> QED BY <3>2
  <2>3. \A k \in 1..Len(StepsOf(cal)) :
          /\ StepsOf(cal)[k][2] \in Links
          /\ StepsOf(cal)[k][1] \in {"hide", "show"} => StepsOf(cal)[k][3] \in {"rx", "tx"}
    BY <2>1, LinkTypes
  <2> QED BY <1>2, <2>2, <2>3, PartsOfDevices
<1> QED BY <1>1, <1>2

LEMMA StaysDevice ==
  ASSUME NEW c, IsDevice(c), NEW op, NEW v, op \in {"hide", "show"} => v \in {"rx", "tx"},
         NEW e \in Did(c, op, v)
  PROVE  IsDevice(e)
<1>1. Effect(c, op, v, e)
  BY Effects
<1> QED BY <1>1 DEF IsDevice, Effect, Busy

LEMMA ProgressGoesOn ==
  ASSUME NEW cal \in CalibParts, NEW k \in 1..Len(StepsOf(cal)),
         AreDevices, Progress(cal, k), NEW s, s = StepsOf(cal)[k],
         NEW d, d = s[2], OnTime(device[d], s[1]),
         NEW e \in Did(device[d], s[1], s[3]), device' = [device EXCEPT ![d] = e]
  PROVE  Progress(cal, k + 1)'
<1>1. CASE cal = "ttc"
  <2>1. StepsOf(cal) = TtcSteps /\ Len(TtcSteps) = 28
    BY <1>1, TtcScript DEF StepsOf
  <2>2. k \in 1..28 /\ s = TtcSteps[k] /\ d \in TtcParts /\ d \in Devices
    BY <2>1, TtcTypes, PartsOfDevices
  <2>3. \A c \in TtcParts : device'[c] = IF c = d THEN e ELSE device[c]
    BY <2>2, PartsOfDevices DEF AreDevices
  <2>4. PICK p, f, a : p = device["pon"] /\ f = device["fpll"] /\ a = device["atx"]
    OBVIOUS
  <2>5. PonAt(p, k) /\ FpllAt(f, k) /\ AtxAt(a, k)
    BY <1>1, <2>4 DEF Progress
  <2>6. IsDevice(p) /\ IsDevice(f) /\ IsDevice(a)
    BY <2>4, PartsOfDevices DEF AreDevices, TtcParts
  <2>7. PonAt(device'["pon"], k + 1)
    <3>1. CASE d = "pon"
      <4>1. PonAt(e, k + 1)
        <5>1. OnTime(p, s[1]) /\ e \in Did(p, s[1], s[3]) /\ s[2] = "pon"
          BY <2>4, <3>1
        <5> QED BY <2>2, <2>5, <2>6, <5>1, PonGoesOn
      <4> QED BY <2>3, <3>1, <4>1 DEF TtcParts
    <3>2. CASE d # "pon"
      <4>1. PonAt(p, k + 1)
        BY <2>2, <2>5, <3>2, PonStays
      <4> QED BY <2>3, <2>4, <3>2, <4>1 DEF TtcParts
    <3> QED BY <3>1, <3>2
  <2>8. FpllAt(device'["fpll"], k + 1)
    <3>1. CASE d = "fpll"
      <4>1. FpllAt(e, k + 1)
        <5>1. OnTime(f, s[1]) /\ e \in Did(f, s[1], s[3]) /\ s[2] = "fpll"
          BY <2>4, <3>1
        <5> QED BY <2>2, <2>5, <2>6, <5>1, FpllGoesOn
      <4> QED BY <2>3, <3>1, <4>1 DEF TtcParts
    <3>2. CASE d # "fpll"
      <4>1. FpllAt(f, k + 1)
        BY <2>2, <2>5, <3>2, FpllStays
      <4> QED BY <2>3, <2>4, <3>2, <4>1 DEF TtcParts
    <3> QED BY <3>1, <3>2
  <2>9. AtxAt(device'["atx"], k + 1)
    <3>1. CASE d = "atx"
      <4>1. AtxAt(e, k + 1)
        <5>1. OnTime(a, s[1]) /\ e \in Did(a, s[1], s[3]) /\ s[2] = "atx"
          BY <2>4, <3>1
        <5> QED BY <2>2, <2>5, <2>6, <5>1, AtxGoesOn
      <4> QED BY <2>3, <3>1, <4>1 DEF TtcParts
    <3>2. CASE d # "atx"
      <4>1. AtxAt(a, k + 1)
        BY <2>2, <2>5, <3>2, AtxStays
      <4> QED BY <2>3, <2>4, <3>2, <4>1 DEF TtcParts
    <3> QED BY <3>1, <3>2
  <2> QED BY <1>1, <2>7, <2>8, <2>9 DEF Progress
<1>2. CASE cal # "ttc"
  <2>1. cal \in {"gbt", "gbtTest"}
    BY <1>2 DEF CalibParts
  <2>2. d \in Links
    BY <1>2, PartsOfScripts
  <2>3. GbtProgress(cal, k)
    BY <1>2 DEF Progress
  <2>4. GbtProgress(cal, k + 1)'
    BY <2>1, <2>2, <2>3, GbtGoesOn
  <2> QED BY <1>2, <2>4 DEF Progress
<1> QED BY <1>1, <1>2

(* The engine may be done at any time. *)
LEMMA EngineIsPatient ==
  ASSUME NEW cal \in CalibParts, NEW k, AreDevices, Progress(cal, k),
         NEW d \in Devices, EngineIsDone(d)
  PROVE  Progress(cal, k)'
<1>1. PICK e : e = [device[d] EXCEPT !.bus = IF @ = "asked" THEN "user" ELSE "engine",
                                     !.good = @ \cup device[d].what]
  OBVIOUS
<1>2. /\ IsDevice(e) /\ e.ref = device[d].ref /\ e.direct = device[d].direct
      /\ \A v, p, q : BothAt(device[d], v, p, q) => BothAt(e, v, p, q)
      /\ \A p : PllAt(device[d], p) => PllAt(e, p)
  <2>1. PICK c : c = device[d]
    OBVIOUS
  <2>2. IsDevice(c) /\ c.bus \in Busy
    BY <2>1 DEF EngineIsDone, AreDevices
  <2>3. e = [c EXCEPT !.bus = IF @ = "asked" THEN "user" ELSE "engine", !.good = @ \cup c.what]
    BY <1>1, <2>1
  <2>4. EngineKept(c, e)
    BY <2>2, <2>3, EngineGoesOn
  <2> QED BY <2>1, <2>4 DEF EngineKept
<1>3. device' = [device EXCEPT ![d] = e]
  BY <1>1 DEF EngineIsDone, AreDevices, IsDevice
<1>4. \A c \in Devices : device'[c] = IF c = d THEN e ELSE device[c]
  BY <1>3 DEF AreDevices
<1>5. CASE cal = "ttc"
  <2>1. PonAt(device["pon"], k) /\ FpllAt(device["fpll"], k) /\ AtxAt(device["atx"], k)
    BY <1>5 DEF Progress
  <2>2. "pon" \in Devices /\ "fpll" \in Devices /\ "atx" \in Devices
    BY DEF Devices
  <2>3. PonAt(device'["pon"], k)
    BY <1>2, <1>4, <2>1, <2>2 DEF PonAt
  <2>4. FpllAt(device'["fpll"], k)
    BY <1>2, <1>4, <2>1, <2>2 DEF FpllAt
  <2>5. AtxAt(device'["atx"], k)
    BY <1>2, <1>4, <2>1, <2>2 DEF AtxAt
  <2> QED BY <1>5, <2>3, <2>4, <2>5 DEF Progress
<1>6. CASE cal # "ttc"
  <2>1. \A i \in 1..Len(GbtLinks) :
          /\ cal = "gbt" /\ k > i => device[GbtLinks[i]].ref = 2
          /\ LinkAt(device[GbtLinks[i]], cal, i, k)
    BY <1>6 DEF Progress, GbtProgress
  <2>2. \A i \in 1..Len(GbtLinks) :
          /\ cal = "gbt" /\ k > i => device'[GbtLinks[i]].ref = 2
          /\ LinkAt(device'[GbtLinks[i]], cal, i, k)
    <3> TAKE i \in 1..Len(GbtLinks)
    <3>1. PICK c : c = device[GbtLinks[i]]
      OBVIOUS
    <3>2. CASE GbtLinks[i] = d
      <4>1. device'[GbtLinks[i]] = e
        BY <1>4, <3>2
      <4>2. LinkAt(device[d], cal, i, k)
        BY <2>1, <3>2
      <4>3. LinkAt(e, cal, i, k)
        BY <1>2, <4>2 DEF LinkAt
      <4> QED BY <1>2, <2>1, <3>2, <4>1, <4>3
    <3>3. CASE GbtLinks[i] # d
      <4>1. GbtLinks[i] \in Devices
        BY PartsOfDevices
      <4>2. device'[GbtLinks[i]] = device[GbtLinks[i]]
        BY <1>4, <3>3, <4>1
      <4> QED BY <2>1, <4>2
    <3> QED BY <3>2, <3>3
  <2>3. GbtProgress(cal, k)'
    BY <2>2 DEF GbtProgress, LinkAt, Refs
  <2> QED BY <1>6, <2>3 DEF Progress
<1> QED BY <1>5, <1>6

LEMMA CalibrateKeeps ==
  ASSUME CalibInv, NEW cal \in CalibParts, Calibrate(cal) PROVE CalibInv'
<1>1. /\ calibTodo' = StepsOf(cal) /\ calibrating' = cal /\ device' = device
      /\ calibrated' = calibrated \ SamePart(cal)
  BY DEF Calibrate, SamePart
<1>2. IsScript(StepsOf(cal)) /\ Len(StepsOf(cal)) \in Nat
  BY PartsOfScripts
<1>3. AreDevices' /\ IsScript(calibTodo)' /\ (calibrated \subseteq CalibParts)'
      /\ (calibrating \in CalibParts \cup {"none"})'
  <2>1. IsScript(calibTodo')
    BY <1>1, <1>2
  <2> QED BY <1>1, <2>1 DEF CalibInv, AreDevices, CalibParts, IsScript
<1>4. DoneIsComplete'
  BY <1>1 DEF CalibInv, DoneIsComplete, LinksDone, RefsDone, TtcDone
<1>5. ASSUME calibTodo' # <<>>
      PROVE  \E q \in CalibParts : \E k \in 1..Len(StepsOf(q)) : IsRest(q, k)'
  <2>1. 1 \in 1..Len(StepsOf(cal))
    BY <1>1, <1>2, <1>5 DEF IsScript
  <2>2. Progress(cal, 1)'
    <3>1. Progress(cal, 1)
      BY NothingDone
    <3> QED BY <1>1, <3>1 DEF Progress, GbtProgress
  <2>3. /\ Len(calibTodo') = (Len(StepsOf(cal)) - 1) + 1
        /\ \A i \in 1..Len(calibTodo') : calibTodo'[i] = StepsOf(cal)[1 + (i - 1)]
    BY <1>1, <1>2
  <2>4. calibrated' \cap SamePart(cal) = {} /\ calibrating' \in {"none", cal}
    BY <1>1
  <2>5. IsRest(cal, 1)'
    BY <2>2, <2>3, <2>4 DEF IsRest
  <2> QED BY <2>1, <2>5
<1> QED BY <1>3, <1>4, <1>5 DEF CalibInv

LEMMA EngineDoneKeeps ==
  ASSUME CalibInv, NEW d \in Devices, EngineIsDone(d) PROVE CalibInv'
<1>1. /\ calibTodo' = calibTodo /\ calibrating' = calibrating /\ calibrated' = calibrated
      /\ device[d].bus \in Busy
  BY DEF EngineIsDone
<1>2. AreDevices /\ DoneIsComplete
  BY DEF CalibInv
<1>3. /\ DOMAIN device' = Devices /\ IsDevice(device'[d])
      /\ \A c \in Devices \ {d} : device'[c] = device[c]
  <2>1. PICK c : c = device[d]
    OBVIOUS
  <2>2. PICK e : e = [c EXCEPT !.bus = IF @ = "asked" THEN "user" ELSE "engine", !.good = @ \cup c.what]
    OBVIOUS
  <2>3. IsDevice(c)
    BY <1>2, <2>1 DEF AreDevices
  <2>4. EngineKept(c, e)
    BY <1>1, <2>1, <2>2, <2>3, EngineGoesOn
  <2>5. device' = [device EXCEPT ![d] = e]
    BY <1>2, <2>1, <2>2, <2>3 DEF EngineIsDone, AreDevices, IsDevice
  <2> QED BY <1>2, <2>4, <2>5 DEF AreDevices, EngineKept
<1>4. AreDevices'
  BY <1>2, <1>3 DEF AreDevices
<1>5. DoneIsComplete'
  <2>1. "engine" \notin Busy
    BY DEF Busy
  <2>2. {"gbt", "gbtTest"} \cap calibrated # {} => LinksDone'
    <3>1. ASSUME LinksDone PROVE LinksDone'
      <4>1. d \notin Links
        BY <1>1, <2>1, <3>1 DEF LinksDone
      <4>2. \A c \in Links : device'[c] = device[c]
        BY <1>3, <4>1, PartsOfDevices
      <4> QED BY <3>1, <4>2 DEF LinksDone
    <3> QED BY <1>2, <3>1 DEF DoneIsComplete
  <2>3. "gbt" \in calibrated => RefsDone'
    <3>1. ASSUME LinksDone, RefsDone PROVE RefsDone'
      <4>1. d \notin Links
        BY <1>1, <2>1, <3>1 DEF LinksDone
      <4>2. \A c \in Links : device'[c] = device[c]
        BY <1>3, <4>1, PartsOfDevices
      <4> QED BY <3>1, <4>2 DEF RefsDone
    <3> QED BY <1>2, <3>1 DEF DoneIsComplete
  <2>4. "ttc" \in calibrated => TtcDone'
    <3>1. ASSUME TtcDone PROVE TtcDone'
      <4>1. d \notin TtcParts
        BY <1>1, <2>1, <3>1 DEF TtcDone
      <4>2. \A c \in TtcParts : device'[c] = device[c]
        BY <1>3, <4>1, PartsOfDevices
      <4> QED BY <3>1, <4>2 DEF TtcDone, TtcParts
    <3> QED BY <1>2, <3>1 DEF DoneIsComplete
  <2> QED BY <1>1, <2>2, <2>3, <2>4 DEF DoneIsComplete
<1>6. ASSUME NEW q \in CalibParts, NEW k \in 1..Len(StepsOf(q)), IsRest(q, k)
      PROVE  IsRest(q, k)'
  <2>1. calibrating = q => Progress(q, k)'
    BY <1>2, <1>6, EngineIsPatient DEF IsRest
  <2> QED BY <1>1, <1>6, <2>1 DEF IsRest
<1>7. calibTodo' # <<>> => \E q \in CalibParts : \E k \in 1..Len(StepsOf(q)) : IsRest(q, k)'
  BY <1>1, <1>6 DEF CalibInv
<1> QED BY <1>1, <1>4, <1>5, <1>7 DEF CalibInv, IsScript

LEMMA ClockChangeKeeps == CalibInv /\ ClockChanges => CalibInv'
<1> SUFFICES ASSUME CalibInv, ClockChanges PROVE CalibInv'
  OBVIOUS
<1>1. /\ calibTodo' = calibTodo /\ calibTodo = <<>> /\ calibrating' = calibrating /\ calibrated' = {}
      /\ device' = [d \in Devices |-> [device[d] EXCEPT !.good = {}]]
  BY DEF ClockChanges
<1>2. AreDevices'
  <2>1. \A d \in Devices : IsDevice([device[d] EXCEPT !.good = {}])
    BY DEF CalibInv, AreDevices, IsDevice
  <2> QED BY <1>1, <2>1 DEF AreDevices
<1> QED BY <1>1, <1>2 DEF CalibInv, DoneIsComplete, IsScript

LEMMA KillCalibrationKeeps == CalibInv /\ KillCalibration => CalibInv'
<1> SUFFICES ASSUME CalibInv, KillCalibration PROVE CalibInv'
  OBVIOUS
<1>1. /\ calibTodo' = <<>> /\ calibrating' = "none" /\ calibrated' = calibrated /\ device' = device
  BY DEF KillCalibration
<1>2. IsScript(calibTodo)'
  <2>1. calibTodo' \in Seq({})
    BY <1>1
  <2> QED BY <2>1 DEF IsScript
<1> QED BY <1>1, <1>2 DEF CalibInv, AreDevices, DoneIsComplete, LinksDone, RefsDone, TtcDone

LEMMA CalibStuttering == CalibInv /\ UNCHANGED calibVars => CalibInv'
<1> SUFFICES ASSUME CalibInv, UNCHANGED calibVars PROVE CalibInv'
  OBVIOUS
<1>1. /\ calibTodo' = calibTodo /\ calibrating' = calibrating /\ calibrated' = calibrated
      /\ device' = device
  BY DEF calibVars
<1>2. ASSUME NEW q \in CalibParts, NEW k \in 1..Len(StepsOf(q)), IsRest(q, k)
      PROVE  IsRest(q, k)'
  BY <1>1, <1>2 DEF IsRest, Progress, GbtProgress
<1>3. calibTodo' # <<>> => \E q \in CalibParts : \E k \in 1..Len(StepsOf(q)) : IsRest(q, k)'
  BY <1>1, <1>2 DEF CalibInv
<1> QED BY <1>1, <1>3 DEF CalibInv, IsScript, AreDevices, DoneIsComplete, LinksDone, RefsDone, TtcDone

Completed(cal, k) ==
  k = Len(StepsOf(cal)) + 1 /\ AreDevices /\ Progress(cal, k) =>
    /\ cal # "ttc" => LinksDone
    /\ cal = "gbt" => RefsDone
    /\ cal = "ttc" => TtcDone
LEMMA AllDoneNext == (\A cal \in CalibParts : \A k : Completed(cal, k))'
<1>1. \A cal \in CalibParts : \A k : Completed(cal, k)
  BY AllDone DEF Completed
<1> QED BY <1>1, PTL

LEMMA CalibrationStepKeeps == CalibInv /\ CalibrationStep => CalibInv'
<1> SUFFICES ASSUME CalibInv, CalibrationStep PROVE CalibInv'
  OBVIOUS
<1>1. PICK cal \in CalibParts : \E k \in 1..Len(StepsOf(cal)) : IsRest(cal, k)
  BY DEF CalibInv, CalibrationStep
<1>2. PICK k \in 1..Len(StepsOf(cal)) : IsRest(cal, k)
  BY <1>1
<1>3. PICK s, w : s = StepsOf(cal)[k] /\ w = StepsOf(cal)
  OBVIOUS
<1>4. IsScript(w) /\ Len(w) \in Nat /\ k \in 1..Len(w)
  BY <1>3, PartsOfScripts
<1>5. /\ calibTodo # <<>> /\ IsScript(calibTodo) /\ Len(calibTodo) = (Len(w) - k) + 1
      /\ \A i \in 1..Len(calibTodo) : calibTodo[i] = w[k + (i - 1)]
      /\ calibrated \cap SamePart(cal) = {} /\ calibrating \in {"none", cal}
      /\ calibrating = cal => Progress(cal, k)
  BY <1>2, <1>3 DEF CalibInv, CalibrationStep, IsRest
<1>6. Head(calibTodo) = s
  <2>1. Head(calibTodo) = calibTodo[1] /\ 1 \in 1..Len(calibTodo)
    BY <1>4, <1>5 DEF IsScript
  <2>2. calibTodo[1] = w[k + (1 - 1)] /\ k + (1 - 1) = k
    BY <1>4, <1>5, <2>1
  <2> QED BY <1>3, <2>1, <2>2
<1>7. PICK d : d = s[2]
  OBVIOUS
<1>8. /\ d \in Devices /\ (IF cal = "ttc" THEN d \in TtcParts ELSE d \in Links)
      /\ s[1] \in {"hide", "show"} => s[3] \in {"rx", "tx"}
  BY <1>3, <1>7, PartsOfScripts
<1>9. PICK e \in Did(device[d], s[1], s[3]) : device' = [device EXCEPT ![d] = e]
  BY <1>6, <1>7 DEF CalibrationStep
<1>10. AreDevices /\ DoneIsComplete /\ calibrated \subseteq CalibParts
       /\ calibrating \in CalibParts \cup {"none"}
  BY DEF CalibInv
<1>11. IsDevice(e)
  <2>1. IsDevice(device[d])
    BY <1>8, <1>10 DEF AreDevices
  <2> QED BY <1>8, <1>9, <2>1, StaysDevice
<1>12. AreDevices' /\ \A c \in Devices \ {d} : device'[c] = device[c]
  BY <1>8, <1>9, <1>10, <1>11 DEF AreDevices
<1>13. \/ calibrating' = calibrating /\ OnTime(device[d], s[1]) /\ calibTodo' = Tail(calibTodo)
       \/ calibrating' = "none" /\ (calibTodo' = Tail(calibTodo) \/ calibTodo' = <<>>)
  BY <1>6, <1>7 DEF CalibrationStep, OnTime
<1>14. calibrated' = IF calibTodo' = <<>> THEN calibrated \cup ({calibrating'} \ {"none"}) ELSE calibrated
  BY DEF CalibrationStep
<1>15. calibrating' \in {"none", cal} /\ calibrating' \in CalibParts \cup {"none"}
  BY <1>5, <1>10, <1>13
<1>16. ASSUME calibrating' = cal PROVE Progress(cal, k + 1)' /\ calibTodo' = Tail(calibTodo)
  <2>1. cal # "none"
    BY DEF CalibParts
  <2>2. calibrating = cal /\ OnTime(device[d], s[1]) /\ calibTodo' = Tail(calibTodo)
    BY <1>13, <1>16, <2>1
  <2>3. Progress(cal, k)
    BY <1>5, <2>2
  <2> QED BY <1>3, <1>7, <1>9, <1>10, <2>2, <2>3, ProgressGoesOn
<1>17. /\ IsScript(Tail(calibTodo)) /\ Len(Tail(calibTodo)) = Len(w) - k
       /\ \A i \in 1..Len(Tail(calibTodo)) : Tail(calibTodo)[i] = w[(k + 1) + (i - 1)]
  <2>1. PICK S : calibTodo \in Seq(S)
    BY <1>5 DEF IsScript
  <2>2. /\ Tail(calibTodo) \in Seq(S) /\ Len(Tail(calibTodo)) = Len(calibTodo) - 1
        /\ \A i \in 1..Len(Tail(calibTodo)) : Tail(calibTodo)[i] = calibTodo[i + 1]
    BY <1>5, <2>1, HeadTailProperties
  <2>3. Len(Tail(calibTodo)) = Len(w) - k
    BY <1>4, <1>5, <2>2
  <2>4. ASSUME NEW i \in 1..Len(Tail(calibTodo)) PROVE Tail(calibTodo)[i] = w[(k + 1) + (i - 1)]
    <3>1. i + 1 \in 1..Len(calibTodo) /\ k + ((i + 1) - 1) = (k + 1) + (i - 1)
      BY <1>4, <1>5, <2>3
    <3> QED BY <1>5, <2>2, <3>1
  <2> QED BY <2>2, <2>3, <2>4 DEF IsScript
<1>18. IsScript(calibTodo)'
  <2>1. <<>> \in Seq({})
    OBVIOUS
  <2>2. IsScript(calibTodo')
    BY <1>13, <1>17, <2>1 DEF IsScript
  <2> QED BY <2>2 DEF IsScript
<1>19. ASSUME calibTodo' # <<>>
       PROVE  \E q \in CalibParts : \E l \in 1..Len(StepsOf(q)) : IsRest(q, l)'
  <2>1. calibTodo' = Tail(calibTodo) /\ calibrated' = calibrated
    BY <1>13, <1>14, <1>19
  <2>2. k + 1 \in 1..Len(StepsOf(cal))
    <3>1. Len(Tail(calibTodo)) # 0
      BY <1>17, <1>19, <2>1 DEF IsScript
    <3>2. k + 1 \in 1..Len(w)
      <4>1. PICK n \in Nat : n = Len(w)
        BY <1>4
      <4>2. n - k # 0
        BY <1>17, <3>1, <4>1
      <4>3. k \in 1..n
        BY <1>4, <4>1
      <4>4. k + 1 \in 1..n
        BY <4>2, <4>3
      <4> QED BY <4>1, <4>4
    <3> QED BY <1>3, <3>2
  <2>3. Len(calibTodo') = (Len(w) - (k + 1)) + 1
    BY <1>4, <1>17, <2>1
  <2>4. \A i \in 1..Len(calibTodo') : calibTodo'[i] = w[(k + 1) + (i - 1)]
    BY <1>17, <2>1
  <2>5. IsRest(cal, k + 1)'
    BY <1>3, <1>5, <1>15, <1>16, <2>1, <2>3, <2>4 DEF IsRest
  <2> QED BY <2>2, <2>5
<1>20. DoneIsComplete'
  <2>1. ASSUME calibTodo' = <<>>, calibrating' = cal
        PROVE  /\ cal # "ttc" => LinksDone'
               /\ cal = "gbt" => RefsDone'
               /\ cal = "ttc" => TtcDone'
    <3>1. k + 1 = Len(StepsOf(cal)) + 1
      <4>1. Len(Tail(calibTodo)) = 0
        <5>1. PICK r : r = Tail(calibTodo) /\ r = <<>>
          BY <1>16, <2>1
        <5>2. Len(<<>>) = 0
          OBVIOUS
        <5>3. Len(r) = Len(<<>>)
          BY <5>1, Zenon
        <5> QED BY <5>1, <5>2, <5>3, Zenon
      <4> QED BY <1>3, <1>4, <1>17, <4>1
    <3>2. Progress(cal, k + 1)'
      BY <1>16, <2>1
    <3>3. Completed(cal, k + 1)'
      BY AllDoneNext
    <3> QED BY <1>12, <3>1, <3>2, <3>3 DEF Completed
  <2>2. ASSUME cal = "ttc", LinksDone PROVE LinksDone'
    <3>1. \A c \in Links : device'[c] = device[c]
      BY <1>8, <1>12, <2>2, PartsOfDevices
    <3> QED BY <2>2, <3>1 DEF LinksDone
  <2>3. ASSUME cal = "ttc", RefsDone PROVE RefsDone'
    <3>1. \A c \in Links : device'[c] = device[c]
      BY <1>8, <1>12, <2>3, PartsOfDevices
    <3> QED BY <2>3, <3>1 DEF RefsDone
  <2>4. ASSUME cal # "ttc", TtcDone PROVE TtcDone'
    <3>1. \A c \in TtcParts : device'[c] = device[c]
      BY <1>8, <1>12, <2>4, PartsOfDevices
    <3> QED BY <2>4, <3>1 DEF TtcDone, TtcParts
  <2>5. /\ calibrated' \subseteq calibrated \cup {cal}
        /\ cal \in calibrated' => calibTodo' = <<>> /\ calibrating' = cal
    <3>1. cal \notin calibrated
      BY <1>5 DEF SamePart, CalibParts
    <3> QED BY <1>14, <1>15, <3>1
  <2>6. CASE cal = "ttc"
    <3>1. /\ {"gbt", "gbtTest"} \cap calibrated' = {"gbt", "gbtTest"} \cap calibrated
          /\ "gbt" \in calibrated' => "gbt" \in calibrated
      BY <1>14, <2>5, <2>6
    <3>2. "ttc" \in calibrated' => TtcDone'
      BY <2>1, <2>5, <2>6
    <3> QED BY <1>10, <2>2, <2>3, <2>6, <3>1, <3>2 DEF DoneIsComplete
  <2>7. CASE cal # "ttc"
    <3>1. {"gbt", "gbtTest"} \cap calibrated = {} /\ cal \in {"gbt", "gbtTest"}
      BY <1>5, <2>7 DEF SamePart, CalibParts
    <3>2. "ttc" \in calibrated' => "ttc" \in calibrated
      BY <2>5, <2>7
    <3>3. "gbt" \in calibrated' \/ "gbtTest" \in calibrated' => cal \in calibrated'
      BY <2>5, <3>1
    <3>4. "gbt" \in calibrated' => cal = "gbt"
      BY <2>5, <3>1
    <3>5. {"gbt", "gbtTest"} \cap calibrated' # {} => LinksDone'
      BY <2>1, <2>5, <2>7, <3>3
    <3>6. "gbt" \in calibrated' => RefsDone'
      BY <2>1, <2>5, <3>3, <3>4
    <3> QED BY <1>10, <2>4, <2>7, <3>2, <3>5, <3>6 DEF DoneIsComplete
  <2> QED BY <2>6, <2>7
<1>21. (calibrated \subseteq CalibParts)'
  BY <1>10, <1>14, <1>15
<1> QED BY <1>12, <1>15, <1>18, <1>19, <1>20, <1>21 DEF CalibInv

LEMMA CalibKeeps == CalibInv /\ [CalibNext]_calibVars => CalibInv'
BY CalibrateKeeps, CalibrationStepKeeps, EngineDoneKeeps, ClockChangeKeeps,
   KillCalibrationKeeps, CalibStuttering DEF CalibNext, CalibParts

-----------------------------------------------------------------------------
(* The clock: the lock of the I2C bus keeps whoever selects a page, reads  *)
(* or programs alone with the PLLs; so a call knows what the sections it   *)
(* has written have left there, and the tools that did not overlap know    *)
(* what the ones before them left.                                         *)
OnBus == {"select", "read", "program"}
AtWrite == {"setClock", "setClear", "clear"}
InClockChange == {"program", "ref", "setClock"}
ConfigSteps == {"idle", "lock", "select", "read", "compare", "lockPlls", "program", "ref",
                "setClock", "done"}
StatusSteps == {"idle", "lock", "select", "read", "sticky", "setClear", "set", "clear"}

MapNames == {m.name : m \in RegisterMaps} \cup {"spoilt"}
IsChip(c) == c \in [page : Nat, held : BOOLEAN, body : [Pages -> MapNames]]
IsTtcData(r) == DOMAIN r = {"clock", "clear"} /\ r.clock \in Clocks
IsClockCall(r) == DOMAIN r = {"clock", "force"} /\ r.clock \in Clocks /\ r.force \in BOOLEAN

ClockTypeOK ==
  /\ scene \in Scenes /\ testMode \in BOOLEAN /\ refGen \in BOOLEAN /\ clean \in BOOLEAN
  /\ DOMAIN chip = 1..3 /\ \A j \in 1..3 : IsChip(chip[j])
  /\ DOMAIN does = ClockTools
  /\ \A t \in ConfigTools : does[t] \in ConfigSteps
  /\ \A t \in StatusTools : does[t] \in StatusSteps
  /\ DOMAIN section = ClockTools /\ DOMAIN seen = ClockTools
  /\ DOMAIN wanted = ClockTools /\ \A t \in ClockTools : IsClockCall(wanted[t])
  /\ DOMAIN copy = ClockTools /\ \A t \in ClockTools : IsTtcData(copy[t])
  /\ IsTtcData(ttcData) /\ lost \in Nat /\ alone \subseteq ConfigTools

(* Of chip j the sections before the k-th are written, and its page is     *)
(* selected.                                                               *)
Begun(c, m, k) ==
  k > 0 => /\ c.page = PageOf(m, k)
           /\ \A i \in 1..10 : i + 2 < k => c.body[PageOf(m, i + 2)] = m.name
Programming(t) ==
  LET j == section[t][1]
      k == section[t][2]
      maps == MapsFor(wanted[t].clock, testMode)
  IN  /\ j \in 1..3 /\ k \in 0..LastSection
      /\ lost = 0 => /\ \A i \in 1..3 : i < j => chip[i] = Holds(chip[i], maps[i])
                     /\ Begun(chip[j], maps[j], k)

BusInv ==
  /\ \A t \in ClockTools : owner = t <=> does[t] \in OnBus
  /\ \A t \in ClockTools : does[t] = "read" /\ lost = 0 => chip[2].page = 5
  /\ \A t \in ConfigTools : does[t] = "program" => Programming(t)
  /\ PllsAreWhole

AloneInv ==
  /\ \A t \in alone : \A u \in ConfigTools : u # t => Resting(u)
  /\ clean = TRUE => \A t \in ConfigTools : Resting(t) \/ t \in alone

CopyInv ==
  \A t \in ClockTools : does[t] \in AtWrite /\ t \notin stale => copy[t] = ttcData
RefGenInv ==
  \A t \in ConfigTools :
       does[t] \in {"lockPlls"} \cup InClockChange /\ wanted[t].clock = "ttc" => refGen = TRUE
WholeInv ==
  /\ \A t \in alone : lost = 0 /\ does[t] \in {"ref", "setClock"} => whole = wanted[t].clock
  /\ clean = TRUE /\ lost = 0 /\ (\A t \in ConfigTools : does[t] \notin InClockChange) =>
       whole = ttcData.clock /\ (whole = "ttc" => refGen = TRUE)
SeenInv ==
  clean = TRUE /\ lost = 0 /\ testMode = FALSE =>
       \A t \in ConfigTools : does[t] = "compare" => seen[t] = whole

TtcInv == CopyInv /\ RefGenInv /\ WholeInv /\ SeenInv /\ ClockIsAsked

ClockInv == ClockTypeOK /\ BusInv /\ AloneInv /\ TtcInv
-----------------------------------------------------------------------------
(* The register maps: each has 16 sections, the third to the twelfth being *)
(* its body, one for each page.                                            *)
LEMMA BodyPages ==
  ASSUME NEW m \in RegisterMaps
  PROVE  /\ m.body \in Seq(Nat \X Nat) /\ Len(m.body) = 10
         /\ \A i \in 1..10 : m.body[i][1] = Si5345Body[i][1]
<1>1. /\ Si5345Body \in Seq(Nat \X Nat) /\ Len(Si5345Body) = 10
      /\ Si5344Body \in Seq(Nat \X Nat) /\ Len(Si5344Body) = 10
  BY DEF Si5345Body, Si5344Body
<1>2. \A i \in 1..10 : Si5344Body[i][1] = Si5345Body[i][1]
  BY DEF Si5345Body, Si5344Body
<1>3. \A i \in 1..10 : Si5345Body[i][1] = Si5345Body[i][1]
  OBVIOUS
<1>4. m.body = Si5345Body \/ m.body = Si5344Body
  BY DEF RegisterMaps, LocalClockPll1, LocalClockPll2, TtcClockPll1, TtcClockPll2, ORC511Pll,
         Si5344
<1>5. CASE m.body = Si5345Body
  BY <1>1, <1>4, <1>5
<1>6. CASE m.body = Si5344Body
  BY <1>1, <1>2, <1>4, <1>6
<1>. QED BY <1>4, <1>5, <1>6

LEMMA PagesOf == Pages = {0, 1, 2, 3, 4, 5, 8, 9, 10, 11}
<1>1. Pages = {Si5345Body[k][1] : k \in {1, 2, 3, 4, 5, 6, 7, 8, 9, 10}}
  BY DEF Pages, Si5345Body
<1>. QED BY <1>1 DEF Si5345Body

LEMMA SectionsOf ==
  ASSUME NEW m \in RegisterMaps
  PROVE  /\ \A k \in 1..LastSection : PageOf(m, k) \in Pages
         /\ \A i \in 1..10 : PageOf(m, i + 2) = Si5345Body[i][1]
         /\ \A p \in Pages : \E i \in 1..10 : PageOf(m, i + 2) = p
<1>1. /\ m.body \in Seq(Nat \X Nat) /\ Len(m.body) = 10
      /\ \A i \in 1..10 : m.body[i][1] = Si5345Body[i][1]
  BY BodyPages
<1>2. /\ Preamble \in Seq(Nat \X Nat) /\ Len(Preamble) = 2
      /\ Postamble \in Seq(Nat \X Nat) /\ Len(Postamble) = 4
  BY DEF Preamble, Postamble
<1>. DEFINE head == Preamble \o m.body
<1>3. /\ head \in Seq(Nat \X Nat) /\ Len(head) = 12
      /\ \A k \in 1..12 : k <= 2 => head[k] = Preamble[k]
      /\ \A k \in 1..12 : k > 2 => head[k] = m.body[k - 2]
  <2>1. /\ head \in Seq(Nat \X Nat)
        /\ Len(head) = Len(Preamble) + Len(m.body)
        /\ \A k \in 1..Len(Preamble) + Len(m.body) :
             head[k] = IF k <= Len(Preamble) THEN Preamble[k] ELSE m.body[k - Len(Preamble)]
    BY <1>1, <1>2, ConcatProperties
  <2>. HIDE DEF head
  <2>2. Len(head) = 12
    BY <1>1, <1>2, <2>1
  <2>3. ASSUME NEW k \in 1..12
        PROVE  /\ k <= 2 => head[k] = Preamble[k]
               /\ k > 2 => head[k] = m.body[k - 2]
    <3>1. Len(Preamble) = 2 /\ Len(m.body) = 10 /\ k \in 1..Len(Preamble) + Len(m.body)
      BY <1>1, <1>2
    <3>2. head[k] = IF k <= Len(Preamble) THEN Preamble[k] ELSE m.body[k - Len(Preamble)]
      BY <2>1, <3>1, Zenon
    <3>3. head[k] = IF k <= 2 THEN Preamble[k] ELSE m.body[k - 2]
      BY <3>1, <3>2, Zenon
    <3>. QED BY <3>3
  <2>. QED BY <2>1, <2>2, <2>3
<1>4. \A k \in 1..16 : /\ k <= 12 => Sections(m)[k] = head[k]
                       /\ k > 12 => Sections(m)[k] = Postamble[k - 12]
  <2>1. \A k \in 1..Len(head) + Len(Postamble) :
          (head \o Postamble)[k] = IF k <= Len(head) THEN head[k] ELSE Postamble[k - Len(head)]
    <3>1. head \in Seq(Nat \X Nat)
      BY <1>3
    <3>. HIDE DEF head
    <3>. QED BY <1>2, <3>1, ConcatProperties
  <2>2. Len(head) = 12 /\ Sections(m) = head \o Postamble
    BY <1>3 DEF Sections
  <2>. HIDE DEF head
  <2>3. ASSUME NEW k \in 1..16
        PROVE  /\ k <= 12 => Sections(m)[k] = head[k]
               /\ k > 12 => Sections(m)[k] = Postamble[k - 12]
    <3>1. Len(head) = 12 /\ Len(Postamble) = 4 /\ k \in 1..Len(head) + Len(Postamble)
      BY <1>2, <2>2
    <3>2. (head \o Postamble)[k] = IF k <= Len(head) THEN head[k] ELSE Postamble[k - Len(head)]
      BY <2>1, <3>1, Zenon
    <3>3. Sections(m)[k] = IF k <= 12 THEN head[k] ELSE Postamble[k - 12]
      BY <2>2, <3>1, <3>2, Zenon
    <3>. QED BY <3>3
  <2>. QED BY <2>3
<1>. HIDE DEF head
<1>5. \A i \in 1..10 : PageOf(m, i + 2) = Si5345Body[i][1]
  <2>. SUFFICES ASSUME NEW i \in 1..10, NEW k, k = i + 2 PROVE PageOf(m, k) = Si5345Body[i][1]
    OBVIOUS
  <2>1. k \in 1..16 /\ k \in 1..12 /\ k <= 12 /\ k > 2 /\ i = k - 2
    OBVIOUS
  <2>2. Sections(m)[k] = head[k]
    BY <1>4, <2>1
  <2>3. head[k] = m.body[k - 2]
    BY <1>3, <2>1
  <2>4. m.body[i][1] = Si5345Body[i][1]
    BY <1>1
  <2>. QED BY <2>1, <2>2, <2>3, <2>4, Zenon DEF PageOf
<1>6. \A p \in Pages : \E i \in 1..10 : PageOf(m, i + 2) = p
  BY <1>5 DEF Pages, Si5345Body
<1>7. ASSUME NEW k \in 1..LastSection PROVE PageOf(m, k) \in Pages
  <2>1. CASE k \in 3..12
    <3>1. k - 2 \in 1..10 /\ (k - 2) + 2 = k
      BY <2>1
    <3>2. PageOf(m, (k - 2) + 2) = Si5345Body[k - 2][1]
      BY <1>5, <3>1
    <3>. QED BY <3>1, <3>2 DEF Pages, Si5345Body
  <2>2. CASE k <= 2
    <3>1. Sections(m)[k] = Preamble[k] /\ k \in {1, 2}
      <4>1. k \in 1..16 /\ k \in 1..12 /\ k <= 12 /\ k \in {1, 2}
        BY <2>2 DEF LastSection
      <4>2. Sections(m)[k] = head[k]
        BY <1>4, <4>1
      <4>3. head[k] = Preamble[k]
        BY <1>3, <4>1, <2>2
      <4>. QED BY <4>1, <4>2, <4>3
    <3>2. Preamble[1][1] = 11 /\ Preamble[2][1] = 5
      BY DEF Preamble
    <3>. QED BY <3>1, <3>2, PagesOf DEF PageOf
  <2>3. CASE k > 12
    <3>1. Sections(m)[k] = Postamble[k - 12] /\ k - 12 \in 1..4
      BY <1>4, <2>3 DEF LastSection
    <3>2. \A i \in 1..4 : Postamble[i][1] \in {0, 5, 11}
      BY DEF Postamble
    <3>. QED BY <3>1, <3>2, PagesOf DEF PageOf
  <2>. QED BY <2>1, <2>2, <2>3 DEF LastSection
<1>. QED BY <1>5, <1>6, <1>7

LEMMA MapsOf ==
  ASSUME NEW c, NEW b, NEW j \in 1..3
  PROVE  MapsFor(c, b)[j] \in RegisterMaps
BY DEF MapsFor, RegisterMaps

LEMMA InputSelected ==
  ASSUME NEW c \in Clocks, NEW d, d.page = 5, d.body[5] = MapsFor(c, FALSE)[2].name
  PROVE  Selected(d) = {c}
<1>1. \A m \in RegisterMaps : Map(m.name) = m
  BY DEF Map, RegisterMaps, LocalClockPll1, LocalClockPll2, TtcClockPll1, TtcClockPll2, ORC511Pll,
         Si5344
<1>2. MapsFor(c, FALSE)[2] = IF c = "local" THEN LocalClockPll2 ELSE TtcClockPll2
  BY DEF MapsFor
<1>3. LocalClockPll2 \in RegisterMaps /\ TtcClockPll2 \in RegisterMaps
  BY DEF RegisterMaps
<1>4. Map("local2") = LocalClockPll2 /\ Map("ttc2") = TtcClockPll2
  <2>1. LocalClockPll2.name = "local2" /\ TtcClockPll2.name = "ttc2"
    BY DEF LocalClockPll2, TtcClockPll2
  <2>. QED BY <1>1, <1>3, <2>1
<1>5. LocalClockPll2.input = 0 /\ TtcClockPll2.input = 1 /\ LocalClockPll2.name = "local2" /\ TtcClockPll2.name = "ttc2"
  BY DEF LocalClockPll2, TtcClockPll2
<1>6. CASE c = "local"
  <2>1. d.body[5] = "local2" /\ Map(d.body[5]).input = 0
    BY <1>2, <1>4, <1>5, <1>6
  <2>. QED BY <1>6, <2>1 DEF Selected
<1>7. CASE c = "ttc"
  <2>1. d.body[5] = "ttc2" /\ Map(d.body[5]).input = 1
    BY <1>2, <1>4, <1>5, <1>7
  <2>2. Selected(d) = {IF Map(d.body[5]).input = 0 THEN "local" ELSE "ttc"}
    BY <2>1 DEF Selected
  <2>. QED BY <1>7, <2>1, <2>2
<1>. QED BY <1>6, <1>7 DEF Clocks
-----------------------------------------------------------------------------
(* What a section does to a chip.                                          *)
LEMMA SectionTyped ==
  ASSUME NEW m \in RegisterMaps, NEW c, IsChip(c), NEW k \in 0..LastSection
  PROVE  /\ IsChip(WriteSection(c, m, k)) /\ IsChip(SpoilSection(c, k))
         /\ IsChip(SelectPage(WriteSection(c, m, k), m, k + 1))
         /\ IsChip(SelectPage(SpoilSection(c, k), m, k + 1))
<1>1. m.name \in MapNames /\ "spoilt" \in MapNames
  BY DEF MapNames
<1>2. IsChip(WriteSection(c, m, k)) /\ IsChip(SpoilSection(c, k))
  BY <1>1 DEF IsChip, WriteSection, SpoilSection
<1>3. ASSUME NEW d, IsChip(d) PROVE IsChip(SelectPage(d, m, k + 1))
  <2>1. CASE k + 1 > LastSection
    BY <1>3, <2>1 DEF IsChip, SelectPage
  <2>2. CASE k + 1 <= LastSection
    <3>1. k + 1 \in 1..LastSection
      BY <2>2 DEF LastSection
    <3>2. PageOf(m, k + 1) \in Nat
      BY <3>1, SectionsOf, PagesOf
    <3>. QED BY <1>3, <3>2 DEF IsChip, SelectPage
  <2>. QED BY <2>1, <2>2 DEF LastSection
<1>. QED BY <1>2, <1>3

LEMMA HoldsIff ==
  ASSUME NEW c, IsChip(c), NEW m
  PROVE  c = Holds(c, m) <=> c.held = FALSE /\ c.body = [p \in Pages |-> m.name]
<1>1. c = [page |-> c.page, held |-> c.held, body |-> c.body]
  BY DEF IsChip
<1>2. ASSUME c = Holds(c, m) PROVE c.held = FALSE /\ c.body = [p \in Pages |-> m.name]
  BY <1>2 DEF Holds
<1>3. ASSUME c.held = FALSE, c.body = [p \in Pages |-> m.name] PROVE c = Holds(c, m)
  BY <1>1, <1>3, Zenon DEF Holds
<1>. QED BY <1>2, <1>3

LEMMA ProgrammedBodies ==
  ASSUME ClockTypeOK, NEW w, Programmed(w), NEW j \in 1..3
  PROVE  chip[j].held = FALSE /\ chip[j].body = [p \in Pages |-> MapsFor(w, testMode)[j].name]
<1>1. PICK c, m : c = chip[j] /\ m = MapsFor(w, testMode)[j]
  OBVIOUS
<1>2. IsChip(c) /\ c = Holds(c, m)
  BY <1>1 DEF ClockTypeOK, Programmed
<1>3. c.held = FALSE /\ c.body = [p \in Pages |-> m.name]
  BY <1>2, HoldsIff, Zenon
<1>. QED BY <1>1, <1>3, Zenon

LEMMA SectionWritten ==
  ASSUME NEW m \in RegisterMaps, NEW c, IsChip(c), NEW k \in 0..LastSection, Begun(c, m, k),
         NEW d, d = SelectPage(WriteSection(c, m, k), m, k + 1)
  PROVE  /\ k < LastSection => Begun(d, m, k + 1)
         /\ k = LastSection => d = Holds(d, m)
<1>. DEFINE w == WriteSection(c, m, k)
<1>1. ASSUME k = 0 PROVE Begun(d, m, k + 1) /\ k < LastSection
  <2>1. d.page = PageOf(m, 1)
    BY <1>1 DEF SelectPage, WriteSection, IsChip, LastSection
  <2>. QED BY <1>1, <2>1 DEF Begun, LastSection
<1>2. ASSUME k > 0 PROVE c.page = PageOf(m, k) /\ c.page \in Pages
  BY <1>2, SectionsOf DEF Begun, LastSection
<1>3. ASSUME k > 0, k \in 3..12 PROVE w = [c EXCEPT !.body[c.page] = m.name]
  BY <1>2, <1>3 DEF WriteSection, InBody, Preamble, Postamble, LastSection
<1>4. ASSUME k > 0, ~(k \in 3..12)
      PROVE  /\ w.body = c.body /\ w.page = c.page
             /\ k = LastSection => w.held = FALSE
  BY <1>2, <1>4 DEF WriteSection, InBody, Preamble, Postamble, LastSection, IsChip
<1>5. ASSUME k > 0, NEW i \in 1..10, i + 2 <= k PROVE w.body[PageOf(m, i + 2)] = m.name
  <2>1. PageOf(m, i + 2) \in Pages
    BY SectionsOf DEF LastSection
  <2>2. CASE i + 2 = k
    BY <1>2, <1>3, <1>5, <2>1, <2>2 DEF IsChip
  <2>3. CASE i + 2 < k
    <3>1. c.body[PageOf(m, i + 2)] = m.name
      BY <1>5, <2>3 DEF Begun
    <3>. QED BY <1>3, <1>4, <1>5, <2>1, <3>1 DEF IsChip
  <2>. QED BY <1>5, <2>2, <2>3 DEF LastSection
<1>6. IsChip(w) /\ IsChip(d)
  BY SectionTyped
<1>. HIDE DEF w
<1>7. d.body = w.body /\ d.held = w.held
  BY <1>6 DEF SelectPage, IsChip, w
<1>8. ASSUME k > 0, k < LastSection PROVE Begun(d, m, k + 1)
  <2>1. d.page = PageOf(m, k + 1)
    BY <1>6, <1>8 DEF SelectPage, IsChip, w, LastSection
  <2>2. \A i \in 1..10 : i + 2 < k + 1 => d.body[PageOf(m, i + 2)] = m.name
    BY <1>5, <1>7, <1>8 DEF LastSection
  <2>. QED BY <2>1, <2>2 DEF Begun
<1>9. ASSUME k = LastSection PROVE d = Holds(d, m)
  <2>1. \A i \in 1..10 : d.body[PageOf(m, i + 2)] = m.name
    BY <1>5, <1>7, <1>9 DEF LastSection
  <2>2. \A p \in Pages : d.body[p] = m.name
    BY <2>1, SectionsOf
  <2>3. d.body = [p \in Pages |-> m.name]
    BY <1>6, <2>2 DEF IsChip
  <2>4. d.held = FALSE
    <3>1. k > 0 /\ ~(k \in 3..12)
      BY <1>9 DEF LastSection
    <3>2. w.held = FALSE
      BY <1>4, <1>9, <3>1, Zenon
    <3>. QED BY <1>7, <3>2, Zenon
  <2>. QED BY <1>6, <2>3, <2>4 DEF IsChip, Holds
<1>. QED BY <1>1, <1>8, <1>9 DEF LastSection
-----------------------------------------------------------------------------
(* What a step of one tool leaves alone.                                   *)
Others(t) ==
  \A u \in ClockTools :
    u # t => /\ does'[u] = does[u] /\ section'[u] = section[u] /\ wanted'[u] = wanted[u]
             /\ seen'[u] = seen[u] /\ copy'[u] = copy[u]

(* A step off the bus, which leaves the PLLs and the lock alone.           *)
OffBus(t) ==
  /\ does[t] \notin OnBus /\ does'[t] \notin OnBus
  /\ chip' = chip /\ owner' = owner /\ whole' = whole /\ testMode' = testMode /\ lost' = lost

LEMMA OffBusKeeps ==
  ASSUME NEW t \in ClockTools, ClockTypeOK, BusInv, Others(t), OffBus(t)
  PROVE  BusInv'
<1>1. \A u \in ClockTools : (owner = u <=> does[u] \in OnBus)'
  BY DEF BusInv, Others, OffBus
<1>2. \A u \in ClockTools : (does[u] = "read" /\ lost = 0 => chip[2].page = 5)'
  BY DEF BusInv, Others, OffBus, OnBus
<1>3. \A u \in ConfigTools : (does[u] = "program" => Programming(u))'
  <2>. SUFFICES ASSUME NEW u \in ConfigTools, does'[u] = "program" PROVE Programming(u)'
    OBVIOUS
  <2>1. u # t /\ u \in ClockTools
    BY DEF OffBus, OnBus, ClockTools
  <2>2. does[u] = "program" /\ section'[u] = section[u] /\ wanted'[u] = wanted[u]
    BY <2>1 DEF Others
  <2>3. Programming(u)
    BY <2>2 DEF BusInv
  <2>. QED BY <2>2, <2>3, Zenon DEF Programming, OffBus
<1>4. PllsAreWhole'
  BY DEF BusInv, OffBus, PllsAreWhole, Programmed
<1>. QED BY <1>1, <1>2, <1>3, <1>4, Zenon DEF BusInv

(* A tool that goes on, and may find that it is not alone.                 *)
CarriesOn(t) ==
  /\ ~Resting(t) \/ t \notin ConfigTools
  /\ \/ alone' = alone /\ (clean' = TRUE => clean = TRUE)
     \/ alone' = {} /\ clean' = FALSE

LEMMA CarriesOnAlone ==
  ASSUME NEW t \in ClockTools, ClockTypeOK, AloneInv, Others(t), CarriesOn(t)
  PROVE  AloneInv'
<1>1. alone' \subseteq alone /\ alone \subseteq ConfigTools /\ ConfigTools \subseteq ClockTools
  BY DEF CarriesOn, ClockTypeOK, ClockTools
<1>2. ASSUME NEW a \in alone', NEW u \in ConfigTools, u # a PROVE Resting(u)'
  <2>1. Resting(u)
    BY <1>1, <1>2 DEF AloneInv
  <2>2. u # t
    BY <2>1 DEF CarriesOn
  <2>. QED BY <1>1, <2>1, <2>2 DEF Resting, Others
<1>3. ASSUME clean' = TRUE, NEW u \in ConfigTools PROVE Resting(u)' \/ u \in alone'
  <2>1. alone' = alone /\ (Resting(u) \/ u \in alone)
    BY <1>3 DEF CarriesOn, AloneInv
  <2>2. CASE u = t
    BY <2>1, <2>2 DEF CarriesOn
  <2>3. CASE u # t
    BY <1>1, <2>1, <2>3 DEF Resting, Others
  <2>. QED BY <2>2, <2>3
<1>. QED BY <1>2, <1>3 DEF AloneInv

(* A step that only reads, or waits.                                       *)
OnlyReads(t) ==
  /\ does[t] \notin InClockChange
  /\ does'[t] \notin AtWrite \cup {"lockPlls", "compare", "done"} \cup InClockChange
  /\ wanted' = wanted /\ ttcData' = ttcData /\ whole' = whole /\ testMode' = testMode
  /\ refGen' = refGen /\ alone' = alone /\ clean' = clean /\ stale' = stale
  /\ (lost' = 0 => lost = 0)

LEMMA OnlyReadsKeeps ==
  ASSUME NEW t \in ClockTools, ClockTypeOK, TtcInv, Others(t), OnlyReads(t)
  PROVE  TtcInv'
<1>. USE DEF AtWrite, InClockChange
<1>1. CopyInv'
  BY DEF TtcInv, CopyInv, Others, OnlyReads
<1>2. RefGenInv'
  BY DEF TtcInv, RefGenInv, Others, OnlyReads, ClockTools
<1>3. WholeInv'
  <2>1. \A a \in alone : a \in ClockTools
    BY DEF ClockTypeOK, ClockTools
  <2>2. \A u \in ConfigTools : does'[u] \notin InClockChange => does[u] \notin InClockChange
    BY DEF Others, OnlyReads, ClockTools
  <2>. QED BY <2>1, <2>2 DEF TtcInv, WholeInv, Others, OnlyReads
<1>4. SeenInv'
  BY DEF TtcInv, SeenInv, Others, OnlyReads, ClockTools
<1>5. ClockIsAsked'
  BY DEF TtcInv, ClockIsAsked, Others, OnlyReads, ClockTools
<1>. QED BY <1>1, <1>2, <1>3, <1>4, <1>5 DEF TtcInv
-----------------------------------------------------------------------------
(* The steps, one by one.                                                  *)
LEMMA StartConfigKeeps ==
  ASSUME ClockInv, NEW t \in ConfigTools, NEW c \in Clocks, NEW f \in BOOLEAN, StartConfig(t, c, f)
  PROVE  ClockInv'
<1>. USE DEF StartConfig
<1>0. t \in ClockTools /\ ClockTypeOK /\ BusInv /\ AloneInv /\ TtcInv /\ DOMAIN does = ClockTools
  BY DEF ClockTools, ClockInv, ClockTypeOK
<1>1. ClockTypeOK'
  <2>1. \A u \in ConfigTools : does'[u] \in ConfigSteps
    BY <1>0 DEF ClockTypeOK, ConfigSteps, ClockTools
  <2>2. \A u \in StatusTools : does'[u] \in StatusSteps
    BY <1>0 DEF ClockTypeOK, StatusSteps, ClockTools
  <2>3. DOMAIN wanted' = ClockTools /\ \A u \in ClockTools : IsClockCall(wanted'[u])
    BY <1>0 DEF ClockTypeOK, IsClockCall
  <2>4. clean' \in BOOLEAN /\ alone' \subseteq ConfigTools
    BY <1>0 DEF ClockTypeOK
  <2>. QED BY <1>0, <2>1, <2>2, <2>3, <2>4 DEF ClockTypeOK
<1>2. Others(t) /\ does'[t] = "lock" /\ Resting(t)
  BY <1>0 DEF Others, ClockTypeOK
<1>3. BusInv'
  BY <1>0, <1>2, OffBusKeeps DEF OffBus, OnBus, Resting
<1>. DEFINE busy == {u \in ConfigTools \ {t} : ~Resting(u)}
<1>4. \/ busy = {} /\ alone' = {t} /\ clean' = clean
      \/ busy # {} /\ alone' = {} /\ clean' = FALSE
  BY <1>0 DEF ClockTypeOK
<1>5. AloneInv'
  <2>1. ASSUME busy = {}, alone' = {t} PROVE AloneInv'
    <3>1. \A u \in ConfigTools : u # t => Resting(u)
      BY <2>1
    <3>2. \A u \in ConfigTools : u # t => Resting(u)'
      BY <1>2, <3>1 DEF Others, Resting, ClockTools
    <3>. QED BY <2>1, <3>2 DEF AloneInv
  <2>2. ASSUME alone' = {}, clean' = FALSE PROVE AloneInv'
    BY <2>2 DEF AloneInv
  <2>. QED BY <1>4, <2>1, <2>2
<1>6. TtcInv'
  <2>. HIDE DEF busy
  <2>. USE DEF AtWrite, InClockChange
  <2>1. CopyInv'
    BY <1>0, <1>2 DEF TtcInv, CopyInv, Others
  <2>2. RefGenInv'
    BY <1>0, <1>2 DEF TtcInv, RefGenInv, Others, ClockTools
  <2>3. WholeInv'
    <3>1. \A u \in ConfigTools : does'[u] \notin InClockChange => does[u] \notin InClockChange
      BY <1>2 DEF Others, ClockTools, Resting
    <3>2. clean' = TRUE => clean = TRUE
      BY <1>4
    <3>. QED BY <1>0, <1>2, <1>4, <3>1, <3>2 DEF TtcInv, WholeInv
  <2>4. SeenInv'
    BY <1>0, <1>2, <1>4 DEF TtcInv, SeenInv, Others, ClockTools
  <2>5. ClockIsAsked'
    BY <1>2, <1>4 DEF ClockIsAsked
  <2>. QED BY <2>1, <2>2, <2>3, <2>4, <2>5 DEF TtcInv
<1>. QED BY <1>1, <1>3, <1>5, <1>6 DEF ClockInv

(* Only the step of a tool changes, and perhaps the lock and what it saw.  *)
StepType(t) ==
  /\ t \in ConfigTools => does'[t] \in ConfigSteps
  /\ t \in StatusTools => does'[t] \in StatusSteps
  /\ DOMAIN does' = DOMAIN does /\ DOMAIN section' = DOMAIN section /\ DOMAIN seen' = DOMAIN seen
  /\ scene' = scene /\ testMode' = testMode /\ wanted' = wanted

LEMMA StepTyped ==
  ASSUME NEW t \in ClockTools, ClockTypeOK, Others(t), StepType(t),
         DOMAIN chip' = 1..3, \A j \in 1..3 : IsChip(chip'[j]),
         DOMAIN copy' = DOMAIN copy, IsTtcData(copy'[t]), IsTtcData(ttcData'), lost' \in Nat,
         refGen' \in BOOLEAN, clean' \in BOOLEAN, alone' \subseteq alone
  PROVE  ClockTypeOK'
<1>1. \A u \in ConfigTools : does'[u] \in ConfigSteps
  BY DEF ClockTypeOK, StepType, Others, ClockTools
<1>2. \A u \in StatusTools : does'[u] \in StatusSteps
  BY DEF ClockTypeOK, StepType, Others, ClockTools
<1>3. \A u \in ClockTools : IsTtcData(copy'[u])
  BY DEF ClockTypeOK, Others
<1>. QED BY <1>1, <1>2, <1>3 DEF ClockTypeOK, StepType

LEMMA StartStatusKeeps ==
  ASSUME ClockInv, NEW t \in StatusTools, StartStatus(t)
  PROVE  ClockInv'
<1>. USE DEF StartStatus
<1>0. t \in ClockTools /\ ClockTypeOK /\ BusInv /\ AloneInv /\ TtcInv /\ t \notin ConfigTools
  BY ClockAssumption DEF ClockTools, ClockInv
<1>2. Others(t) /\ does'[t] = "lock" /\ Resting(t)
  BY <1>0 DEF Others, ClockTypeOK
<1>1. ClockTypeOK'
  BY <1>0, <1>2, StepTyped DEF ClockTypeOK, StepType, StatusSteps
<1>3. BusInv'
  BY <1>0, <1>2, OffBusKeeps DEF OffBus, OnBus, Resting
<1>4. AloneInv'
  BY <1>0, <1>2, CarriesOnAlone DEF CarriesOn
<1>5. TtcInv'
  BY <1>0, <1>2, OnlyReadsKeeps DEF OnlyReads, InClockChange, AtWrite, Resting
<1>. QED BY <1>1, <1>3, <1>4, <1>5 DEF ClockInv

LEMMA MonitoringKeeps ==
  ASSUME ClockInv, NEW t \in StatusTools, Monitoring(t)
  PROVE  ClockInv'
<1>. USE DEF Monitoring, Goes
<1>0. t \in ClockTools /\ ClockTypeOK /\ BusInv /\ AloneInv /\ TtcInv /\ t \notin ConfigTools
  BY ClockAssumption DEF ClockTools, ClockInv
<1>2. Others(t) /\ does'[t] = "idle" /\ does[t] = "sticky"
  BY <1>0 DEF Others, ClockTypeOK
<1>1. ClockTypeOK'
  BY <1>0, <1>2, StepTyped DEF ClockTypeOK, StepType, StatusSteps
<1>3. BusInv'
  BY <1>0, <1>2, OffBusKeeps DEF OffBus, OnBus
<1>4. AloneInv'
  BY <1>0, <1>2, CarriesOnAlone DEF CarriesOn
<1>5. TtcInv'
  BY <1>0, <1>2, OnlyReadsKeeps DEF OnlyReads, InClockChange, AtWrite
<1>. QED BY <1>1, <1>3, <1>4, <1>5 DEF ClockInv

LEMMA LockToReadKeeps ==
  ASSUME ClockInv, NEW t \in ClockTools, LockToRead(t)
  PROVE  ClockInv'
<1>. USE DEF LockToRead, Locked, Goes
<1>0. ClockTypeOK /\ BusInv /\ AloneInv /\ TtcInv /\ "nobody" \notin ClockTools
  BY ClockAssumption DEF ClockInv
<1>2. /\ Others(t) /\ does[t] = "lock"
      /\ \/ owner = "nobody" /\ owner' = t /\ does'[t] = "select"
         \/ owner' = owner /\ does'[t] = "idle"
  BY <1>0 DEF Others, ClockTypeOK
<1>1. ClockTypeOK'
  <2>1. does'[t] \in ConfigSteps /\ does'[t] \in StatusSteps
    BY <1>2 DEF ConfigSteps, StatusSteps
  <2>. QED BY <1>0, <1>2, <2>1, StepTyped DEF ClockTypeOK, StepType
<1>3. BusInv'
  <2>1. CASE owner' = owner /\ does'[t] = "idle"
    BY <1>0, <1>2, <2>1, OffBusKeeps DEF OffBus, OnBus
  <2>2. CASE owner = "nobody" /\ owner' = t /\ does'[t] = "select"
    <3>1. \A u \in ClockTools : does[u] \notin OnBus
      BY <1>0, <2>2 DEF BusInv
    <3>2. \A u \in ClockTools : u # t => does'[u] \notin OnBus
      BY <1>2, <3>1 DEF Others
    <3>3. PllsAreWhole'
      BY <1>0 DEF BusInv, PllsAreWhole, Programmed
    <3>4. \A u \in ClockTools : owner' = u <=> does'[u] \in OnBus
      BY <2>2, <3>2 DEF OnBus
    <3>5. \A u \in ClockTools : does'[u] # "read" /\ does'[u] # "program"
      BY <2>2, <3>2 DEF OnBus
    <3>. QED BY <3>3, <3>4, <3>5 DEF BusInv, ClockTools
  <2>. QED BY <1>2, <2>1, <2>2
<1>4. AloneInv'
  BY <1>0, <1>2, CarriesOnAlone DEF CarriesOn, Resting
<1>5. TtcInv'
  BY <1>0, <1>2, OnlyReadsKeeps DEF OnlyReads, InClockChange, AtWrite
<1>. QED BY <1>1, <1>3, <1>4, <1>5 DEF ClockInv

(* Who has the lock is the only one on the bus.                            *)
LEMMA AloneOnBus ==
  ASSUME BusInv, NEW t \in ClockTools, does[t] \in OnBus
  PROVE  owner = t /\ \A u \in ClockTools : u # t => does[u] \notin OnBus
BY DEF BusInv

LEMMA SelectClockPageKeeps ==
  ASSUME ClockInv, NEW t \in ClockTools, SelectClockPage(t)
  PROVE  ClockInv'
<1>. USE DEF SelectClockPage, Goes, Lose
<1>0. ClockTypeOK /\ BusInv /\ AloneInv /\ TtcInv /\ lost \in Nat
  BY DEF ClockInv, ClockTypeOK
<1>2. /\ Others(t) /\ does[t] = "select" /\ does'[t] = "read"
      /\ \/ chip' = [chip EXCEPT ![2].page = 5] /\ lost' = lost
         \/ chip' = chip /\ lost' = lost + 1
  BY <1>0 DEF Others, ClockTypeOK
<1>6. lost' \in Nat /\ (lost' = 0 => lost = 0 /\ chip'[2].page = 5)
  BY <1>0, <1>2 DEF ClockTypeOK, IsChip
<1>7. /\ DOMAIN chip' = 1..3 /\ \A j \in 1..3 : IsChip(chip'[j])
      /\ \A j \in 1..3 : chip'[j].held = chip[j].held /\ chip'[j].body = chip[j].body
  BY <1>0, <1>2 DEF ClockTypeOK, IsChip
<1>1. ClockTypeOK'
  <2>1. does'[t] \in ConfigSteps /\ does'[t] \in StatusSteps
    BY <1>2 DEF ConfigSteps, StatusSteps
  <2>. QED BY <1>0, <1>2, <1>6, <1>7, <2>1, StepTyped DEF ClockTypeOK, StepType
<1>3. BusInv'
  <2>1. owner = t /\ \A u \in ClockTools : u # t => does[u] \notin OnBus
    BY <1>0, <1>2, AloneOnBus DEF OnBus
  <2>2. \A u \in ClockTools : u # t => does'[u] \notin OnBus
    BY <1>2, <2>1 DEF Others
  <2>3. \A u \in ClockTools : owner' = u <=> does'[u] \in OnBus
    BY <1>2, <2>1, <2>2 DEF OnBus
  <2>4. \A u \in ClockTools : does'[u] # "program"
    BY <1>2, <2>2 DEF OnBus
  <2>5. PllsAreWhole'
    <3>. SUFFICES ASSUME whole # "none", NEW j \in 1..3
                  PROVE  chip'[j] = Holds(chip'[j], MapsFor(whole, testMode)[j])
      BY DEF PllsAreWhole, Programmed
    <3>1. Programmed(whole)
      BY <1>0 DEF BusInv, PllsAreWhole
    <3>2. chip[j].held = FALSE /\ chip[j].body = [p \in Pages |-> MapsFor(whole, testMode)[j].name]
      BY <1>0, <3>1, ProgrammedBodies
    <3>3. IsChip(chip'[j]) /\ chip'[j].held = FALSE
          /\ chip'[j].body = [p \in Pages |-> MapsFor(whole, testMode)[j].name]
      BY <1>7, <3>2
    <3>. QED BY <3>3, HoldsIff
  <2>. QED BY <1>6, <2>3, <2>4, <2>5 DEF BusInv, ClockTools
<1>4. AloneInv'
  BY <1>0, <1>2, CarriesOnAlone DEF CarriesOn, Resting
<1>5. TtcInv'
  BY <1>0, <1>2, <1>6, OnlyReadsKeeps DEF OnlyReads, InClockChange, AtWrite
<1>. QED BY <1>1, <1>3, <1>4, <1>5 DEF ClockInv

LEMMA ReadClockKeeps ==
  ASSUME ClockInv, NEW t \in ClockTools, ReadClock(t)
  PROVE  ClockInv'
<1>. USE DEF ReadClock, Goes, Lose
<1>0. /\ ClockTypeOK /\ BusInv /\ AloneInv /\ TtcInv /\ lost \in Nat
      /\ ConfigTools \cap StatusTools = {} /\ "nobody" \notin ClockTools
  BY ClockAssumption DEF ClockInv, ClockTypeOK
<1>2. /\ does[t] = "read" /\ does'[t] = IF t \in ConfigTools THEN "compare" ELSE "sticky"
      /\ \A u \in ClockTools : u # t => does'[u] = does[u] /\ seen'[u] = seen[u]
      /\ DOMAIN does' = DOMAIN does /\ DOMAIN seen' = DOMAIN seen
      /\ lost' = lost \/ lost' = lost + 1
  BY <1>0 DEF ClockTypeOK
<1>6. Others(t)
  BY <1>2 DEF Others
<1>7. lost' \in Nat /\ (lost' = 0 => lost = 0)
  BY <1>0, <1>2
<1>8. owner = t /\ owner' = "nobody" /\ \A u \in ClockTools : does'[u] \notin OnBus
  BY <1>0, <1>2, AloneOnBus DEF OnBus
<1>1. ClockTypeOK'
  <2>1. /\ t \in ConfigTools => does'[t] \in ConfigSteps
        /\ t \in StatusTools => does'[t] \in StatusSteps
    BY <1>0, <1>2 DEF ConfigSteps, StatusSteps
  <2>. QED BY <1>0, <1>2, <1>6, <1>7, <2>1, StepTyped DEF ClockTypeOK, StepType
<1>3. BusInv'
  <2>1. PllsAreWhole'
    BY <1>0 DEF BusInv, PllsAreWhole, Programmed
  <2>2. \A u \in ClockTools : owner' = u <=> does'[u] \in OnBus
    BY <1>0, <1>8
  <2>3. \A u \in ClockTools : does'[u] # "read" /\ does'[u] # "program"
    BY <1>8 DEF OnBus
  <2>. QED BY <2>1, <2>2, <2>3 DEF BusInv, ClockTools
<1>4. AloneInv'
  BY <1>0, <1>2, <1>6, CarriesOnAlone DEF CarriesOn, Resting
<1>5. TtcInv'
  <2>1. CASE t \notin ConfigTools
    BY <1>0, <1>2, <1>6, <1>7, <2>1, OnlyReadsKeeps DEF OnlyReads, InClockChange, AtWrite
  <2>2. CASE t \in ConfigTools
    <3>. USE DEF AtWrite, InClockChange
    <3>1. does'[t] = "compare" /\ t \notin StatusTools
      BY <1>0, <1>2, <2>2
    <3>2. CopyInv'
      BY <1>0, <1>2, <3>1 DEF TtcInv, CopyInv
    <3>3. RefGenInv'
      BY <1>0, <1>2, <3>1 DEF TtcInv, RefGenInv, ClockTools
    <3>4. WholeInv'
      <4>1. \A u \in ConfigTools : does'[u] \notin InClockChange => does[u] \notin InClockChange
        BY <1>2 DEF ClockTools
      <4>2. \A u \in alone : u \in ClockTools
        BY <1>0 DEF ClockTypeOK, ClockTools
      <4>. QED BY <1>0, <1>2, <1>7, <3>1, <4>1, <4>2 DEF TtcInv, WholeInv
    <3>5. ClockIsAsked'
      BY <1>0, <1>2, <1>7, <3>1 DEF TtcInv, ClockIsAsked, ClockTools
    <3>6. SeenInv'
      <4>. SUFFICES ASSUME clean' = TRUE, lost' = 0, testMode' = FALSE, NEW u \in ConfigTools,
                           does'[u] = "compare"
                    PROVE  seen'[u] = whole'
        BY DEF SeenInv
      <4>1. clean = TRUE /\ lost = 0 /\ testMode = FALSE /\ whole' = whole
        BY <1>7
      <4>2. CASE u # t
        BY <1>0, <1>2, <4>1, <4>2 DEF TtcInv, SeenInv, ClockTools
      <4>3. CASE u = t
        <5>1. \A v \in ConfigTools : does[v] \notin InClockChange
          BY <1>0, <1>2, <2>2, <4>1 DEF AloneInv, Resting
        <5>2. whole = ttcData.clock /\ whole \in Clocks
          BY <1>0, <4>1, <5>1 DEF TtcInv, WholeInv, ClockTypeOK, IsTtcData
        <5>3. chip[2].page = 5 /\ Programmed(whole)
          BY <1>0, <1>2, <4>1, <5>2 DEF BusInv, PllsAreWhole, Clocks
        <5>4. chip[2].body[5] = MapsFor(whole, FALSE)[2].name
          <6>1. 5 \in Pages /\ 2 \in 1..3 /\ testMode = FALSE
            BY <4>1, PagesOf
          <6>2. \A j \in 1..3 : /\ chip[j].held = FALSE
                               /\ chip[j].body = [p \in Pages |-> MapsFor(whole, testMode)[j].name]
            BY <1>0, <5>3, ProgrammedBodies
          <6>. QED BY <6>1, <6>2, Zenon
        <5>5. Selected(chip[2]) = {whole}
          BY <5>2, <5>3, <5>4, InputSelected
        <5>6. lost' # lost + 1
          BY <1>0, <4>1
        <5>7. \E c \in Selected(chip[2]) : seen' = [seen EXCEPT ![t] = c]
          BY <3>1, <5>6
        <5>. QED BY <1>0, <4>1, <4>3, <5>5, <5>7 DEF ClockTypeOK
      <4>. QED BY <4>2, <4>3
    <3>. QED BY <3>2, <3>3, <3>4, <3>5, <3>6 DEF TtcInv
  <2>. QED BY <2>1, <2>2
<1>. QED BY <1>1, <1>3, <1>4, <1>5 DEF ClockInv

LEMMA CompareClockKeeps ==
  ASSUME ClockInv, NEW t \in ConfigTools, CompareClock(t)
  PROVE  ClockInv'
<1>. USE DEF CompareClock, Goes, ForgetClock, SetRefGen
<1>0. t \in ClockTools /\ ClockTypeOK /\ BusInv /\ AloneInv /\ TtcInv /\ DOMAIN does = ClockTools
  BY DEF ClockTools, ClockInv, ClockTypeOK
<1>2. /\ does[t] = "compare" /\ does'[t] \in {"lockPlls", "done"}
      /\ refGen' \in BOOLEAN /\ (refGen = TRUE => refGen' = TRUE)
      /\ does'[t] = "lockPlls" /\ wanted[t].clock = "ttc" => refGen' = TRUE
      /\ does'[t] = "done" => wanted[t].force = FALSE /\ wanted[t].clock = seen[t] /\ refGen' = refGen
  BY <1>0 DEF ClockTypeOK, IsClockCall
<1>6. Others(t)
  BY <1>0 DEF Others, ClockTypeOK
<1>1. ClockTypeOK'
  <2>1. t \notin StatusTools /\ does'[t] \in ConfigSteps
    BY <1>2, ClockAssumption DEF ConfigSteps
  <2>. QED BY <1>0, <1>2, <1>6, <2>1, StepTyped DEF ClockTypeOK, StepType
<1>3. BusInv'
  BY <1>0, <1>2, <1>6, OffBusKeeps DEF OffBus, OnBus
<1>4. AloneInv'
  BY <1>0, <1>2, <1>6, CarriesOnAlone DEF CarriesOn, Resting
<1>5. TtcInv'
  <3>. USE DEF AtWrite, InClockChange
  <3>2. CopyInv'
    BY <1>0, <1>2, <1>6 DEF TtcInv, CopyInv, Others
  <3>3. RefGenInv'
    BY <1>0, <1>2, <1>6 DEF TtcInv, RefGenInv, ClockTools, Others
  <3>4. WholeInv'
    <4>1. \A u \in ConfigTools : does'[u] \notin InClockChange => does[u] \notin InClockChange
      BY <1>2, <1>6 DEF ClockTools, Others
    <4>2. \A u \in alone : u \in ClockTools
      BY <1>0 DEF ClockTypeOK, ClockTools
    <4>. QED BY <1>0, <1>2, <1>6, <4>1, <4>2 DEF TtcInv, WholeInv, Others
  <3>6. SeenInv'
    BY <1>0, <1>2, <1>6 DEF TtcInv, SeenInv, Others, ClockTools
  <3>5. ClockIsAsked'
    <4>. SUFFICES ASSUME NEW u \in ConfigTools, does'[u] = "done", u \in alone, lost = 0,
                         wanted[u].force = TRUE \/ (clean = TRUE /\ testMode = FALSE)
                  PROVE  /\ whole = wanted[u].clock /\ ttcData.clock = wanted[u].clock
                         /\ wanted[u].clock = "ttc" => refGen' = TRUE
      BY <1>0 DEF ClockIsAsked, ClockTypeOK, IsClockCall
    <4>1. CASE u # t
      BY <1>0, <1>2, <1>6, <4>1 DEF TtcInv, ClockIsAsked, Others, ClockTools
    <4>2. CASE u = t
      <5>1. clean = TRUE /\ testMode = FALSE /\ wanted[t].clock = seen[t] /\ refGen' = refGen
        BY <1>2, <4>2
      <5>2. \A v \in ConfigTools : does[v] \notin InClockChange
        BY <1>0, <1>2, <5>1 DEF AloneInv, Resting
      <5>3. whole = ttcData.clock /\ (whole = "ttc" => refGen = TRUE)
        BY <1>0, <5>1, <5>2 DEF TtcInv, WholeInv
      <5>4. seen[t] = whole
        BY <1>0, <1>2, <5>1 DEF TtcInv, SeenInv
      <5>. QED BY <4>2, <5>1, <5>3, <5>4
    <4>. QED BY <4>1, <4>2
  <3>. QED BY <3>2, <3>3, <3>4, <3>5, <3>6 DEF TtcInv
<1>. QED BY <1>1, <1>3, <1>4, <1>5 DEF ClockInv

LEMMA LockPllsKeeps ==
  ASSUME ClockInv, NEW t \in ConfigTools, LockPlls(t)
  PROVE  ClockInv'
<1>. USE DEF LockPlls, Locked, Goes
<1>0. /\ t \in ClockTools /\ ClockTypeOK /\ BusInv /\ AloneInv /\ TtcInv
      /\ "nobody" \notin ClockTools /\ t \notin StatusTools
  BY ClockAssumption DEF ClockTools, ClockInv
<1>2. /\ Others(t) /\ does[t] = "lockPlls" /\ section'[t] = <<1, 0>>
      /\ \/ owner = "nobody" /\ owner' = t /\ does'[t] = "program"
         \/ owner' = owner /\ does'[t] = "idle"
  BY <1>0 DEF Others, ClockTypeOK
<1>1. ClockTypeOK'
  <2>1. does'[t] \in ConfigSteps
    BY <1>2 DEF ConfigSteps
  <2>. QED BY <1>0, <1>2, <2>1, StepTyped DEF ClockTypeOK, StepType
<1>3. BusInv'
  <2>1. CASE owner' = owner /\ does'[t] = "idle"
    BY <1>0, <1>2, <2>1, OffBusKeeps DEF OffBus, OnBus
  <2>2. CASE owner = "nobody" /\ owner' = t /\ does'[t] = "program"
    <3>1. \A u \in ClockTools : does[u] \notin OnBus
      BY <1>0, <2>2 DEF BusInv
    <3>2. \A u \in ClockTools : u # t => does'[u] \notin OnBus
      BY <1>2, <3>1 DEF Others
    <3>3. PllsAreWhole'
      BY <1>0 DEF BusInv, PllsAreWhole, Programmed
    <3>4. \A u \in ClockTools : owner' = u <=> does'[u] \in OnBus
      BY <2>2, <3>2 DEF OnBus
    <3>5. \A u \in ClockTools : does'[u] # "read" /\ (does'[u] = "program" => u = t)
      BY <2>2, <3>2 DEF OnBus
    <3>6. Programming(t)'
      <4>1. section'[t][1] = 1 /\ section'[t][2] = 0
        BY <1>2
      <4>2. 1 \in 1..3 /\ 0 \in 0..LastSection /\ \A i \in 1..3 : ~(i < 1)
        BY DEF LastSection
      <4>3. \A c, m : Begun(c, m, 0)
        BY DEF Begun
      <4>. QED BY <4>1, <4>2, <4>3 DEF Programming
    <3>7. \A u \in ConfigTools : does'[u] = "program" => Programming(u)'
      BY <3>5, <3>6 DEF ClockTools
    <3>8. \A u \in ClockTools : does'[u] # "read"
      BY <3>5
    <3>. QED BY <3>3, <3>4, <3>7, <3>8 DEF BusInv
  <2>. QED BY <1>2, <2>1, <2>2
<1>4. AloneInv'
  BY <1>0, <1>2, CarriesOnAlone DEF CarriesOn, Resting
<1>5. TtcInv'
  <2>. USE DEF AtWrite, InClockChange
  <2>1. CopyInv'
    BY <1>0, <1>2 DEF TtcInv, CopyInv, Others
  <2>2. RefGenInv'
    BY <1>0, <1>2 DEF TtcInv, RefGenInv, Others, ClockTools
  <2>3. WholeInv'
    <3>1. \A u \in ConfigTools : does'[u] \notin InClockChange => does[u] \notin InClockChange
      BY <1>2 DEF Others, ClockTools
    <3>2. \A u \in alone : u \in ClockTools
      BY <1>0 DEF ClockTypeOK, ClockTools
    <3>. QED BY <1>0, <1>2, <3>1, <3>2 DEF TtcInv, WholeInv, Others
  <2>4. SeenInv'
    BY <1>0, <1>2 DEF TtcInv, SeenInv, Others, ClockTools
  <2>5. ClockIsAsked'
    BY <1>0, <1>2 DEF TtcInv, ClockIsAsked, Others, ClockTools
  <2>. QED BY <2>1, <2>2, <2>3, <2>4, <2>5 DEF TtcInv
<1>. QED BY <1>1, <1>3, <1>4, <1>5 DEF ClockInv

(* A tool in the middle of a clock change configures, and if nothing ever  *)
(* got in its way no other one does.                                       *)
LEMMA ChangesAlone ==
  ASSUME ClockTypeOK, AloneInv, NEW t \in ClockTools, does[t] \in InClockChange
  PROVE  /\ t \in ConfigTools
         /\ \A a \in alone : a = t
         /\ clean = TRUE => t \in alone /\ \A u \in ConfigTools : u # t => Resting(u)
<1>1. t \in ConfigTools
  BY DEF ClockTypeOK, ClockTools, StatusSteps, InClockChange
<1>2. ~Resting(t)
  BY DEF Resting, InClockChange
<1>. QED BY <1>1, <1>2 DEF AloneInv

LEMMA ConfigurePllKeeps ==
  ASSUME ClockInv, NEW t \in ConfigTools, ConfigurePll(t)
  PROVE  ClockInv'
<1>0. /\ t \in ClockTools /\ ClockTypeOK /\ BusInv /\ AloneInv /\ TtcInv
      /\ "nobody" \notin ClockTools /\ t \notin StatusTools /\ ConfigTools \subseteq ClockTools
  BY ClockAssumption DEF ClockTools, ClockInv
<1>. DEFINE j == section[t][1]
            k == section[t][2]
            maps == MapsFor(wanted[t].clock, testMode)
            m == maps[j]
            last == k = LastSection /\ j = 3
            written == WriteSection(chip[j], m, k)
            good == SelectPage(written, m, k + 1)
            spoilt == SelectPage(SpoilSection(chip[j], k), m, k + 1)
<1>1. /\ does[t] = "program"
      /\ \/ chip' = [chip EXCEPT ![j] = good] /\ lost' = lost
         \/ chip' = [chip EXCEPT ![j] = written] /\ lost' = lost + 1
         \/ chip' = [chip EXCEPT ![j] = spoilt] /\ lost' = lost + 1
      /\ section' = [section EXCEPT ![t] = IF k < LastSection THEN <<j, k + 1>>
                                           ELSE IF last THEN <<1, 0>> ELSE <<j + 1, 0>>]
      /\ does' = IF last THEN [does EXCEPT ![t] = "ref"] ELSE does
      /\ owner' = IF last THEN "nobody" ELSE owner
      /\ whole' = IF last /\ lost' = 0 THEN wanted[t].clock ELSE "none"
      /\ UNCHANGED <<scene, testMode, refGen, ttcData, wanted, seen, copy, killed, alone, clean, stale>>
  BY <1>0 DEF ConfigurePll, Lose, ClockTypeOK
<1>2. Programming(t) /\ owner = t /\ \A u \in ClockTools : u # t => does[u] \notin OnBus
  BY <1>0, <1>1, AloneOnBus DEF BusInv, OnBus
<1>3. /\ j \in 1..3 /\ k \in 0..LastSection /\ m \in RegisterMaps /\ IsChip(chip[j]) /\ lost \in Nat
      /\ lost = 0 => /\ \A i \in 1..3 : i < j => chip[i] = Holds(chip[i], maps[i])
                     /\ Begun(chip[j], m, k)
  BY <1>0, <1>2, MapsOf DEF Programming, ClockTypeOK
<1>4. IsChip(good) /\ IsChip(written) /\ IsChip(spoilt)
  BY <1>3, SectionTyped
<1>5. lost = 0 => /\ k < LastSection => Begun(good, m, k + 1)
                  /\ k = LastSection => good = Holds(good, m)
  BY <1>3, SectionWritten
<1>6. /\ DOMAIN does' = DOMAIN does /\ DOMAIN section' = DOMAIN section
      /\ Others(t) /\ does'[t] = IF last THEN "ref" ELSE "program"
      /\ section'[t] = IF k < LastSection THEN <<j, k + 1>>
                       ELSE IF last THEN <<1, 0>> ELSE <<j + 1, 0>>
  <2>. HIDE DEF j, k, last
  <2>. QED BY <1>0, <1>1 DEF Others, ClockTypeOK
<1>7. /\ DOMAIN chip' = 1..3 /\ \A i \in 1..3 : IsChip(chip'[i])
      /\ \A i \in 1..3 : i # j => chip'[i] = chip[i]
      /\ lost' \in Nat /\ (lost' = 0 => lost = 0 /\ chip'[j] = good)
  <2>. HIDE DEF j, k, good, written, spoilt
  <2>. QED BY <1>0, <1>1, <1>3, <1>4 DEF ClockTypeOK
<1>. HIDE DEF good, written, spoilt, m, last, j, k
<1>8. ClockTypeOK'
  <2>1. does'[t] \in ConfigSteps
    BY <1>6 DEF ConfigSteps
  <2>. QED BY <1>0, <1>1, <1>6, <1>7, <2>1, StepTyped DEF ClockTypeOK, StepType
<1>9. lost' = 0 /\ k = LastSection => \A i \in 1..3 : i < j + 1 => chip'[i] = Holds(chip'[i], maps[i])
  <2>. SUFFICES ASSUME lost' = 0, k = LastSection, NEW i \in 1..3, i < j + 1
                PROVE  chip'[i] = Holds(chip'[i], maps[i])
    OBVIOUS
  <2>1. CASE i = j
    BY <1>5, <1>7, <2>1 DEF m
  <2>2. CASE i # j
    <3>1. i < j /\ lost = 0
      BY <1>3, <1>7, <2>2
    <3>. QED BY <1>3, <1>7, <2>2, <3>1
  <2>. QED BY <2>1, <2>2
<1>10. Programming(t)' \/ does'[t] # "program"
  <2>. SUFFICES ASSUME ~last PROVE Programming(t)'
    BY <1>6
  <2>1. CASE k < LastSection
    <3>1. section'[t][1] = j /\ section'[t][2] = k + 1 /\ k + 1 \in 0..LastSection
      BY <1>3, <1>6, <2>1 DEF LastSection
    <3>2. lost' = 0 => /\ \A i \in 1..3 : i < j => chip'[i] = Holds(chip'[i], maps[i])
                       /\ Begun(chip'[j], m, k + 1)
      BY <1>3, <1>5, <1>7, <2>1
    <3>3. MapsFor(wanted[t].clock, testMode)' = maps
      BY <1>1
    <3>. QED BY <1>3, <3>1, <3>2, <3>3 DEF Programming, m
  <2>2. CASE k = LastSection
    <3>1. section'[t][1] = j + 1 /\ section'[t][2] = 0 /\ j + 1 \in 1..3
      BY <1>3, <1>6, <2>2 DEF LastSection, last
    <3>2. MapsFor(wanted[t].clock, testMode)' = maps
      BY <1>1
    <3>3. Begun(chip'[j + 1], maps[j + 1], 0)
      BY DEF Begun
    <3>. QED BY <1>9, <2>2, <3>1, <3>2, <3>3 DEF Programming, LastSection
  <2>. QED BY <1>3, <2>1, <2>2 DEF LastSection
<1>11. BusInv'
  <2>1. \A u \in ClockTools : u # t => does'[u] \notin OnBus
    BY <1>2, <1>6 DEF Others
  <2>2. \A u \in ClockTools : owner' = u <=> does'[u] \in OnBus
    BY <1>0, <1>1, <1>2, <1>6, <2>1 DEF OnBus
  <2>3. \A u \in ClockTools : does'[u] # "read" /\ (does'[u] = "program" => u = t)
    BY <1>6, <2>1 DEF OnBus
  <2>4. PllsAreWhole'
    <3>. SUFFICES ASSUME whole' # "none" PROVE Programmed(whole)'
      BY DEF PllsAreWhole
    <3>1. last /\ lost' = 0 /\ whole' = wanted[t].clock
      BY <1>1
    <3>2. \A i \in 1..3 : chip'[i] = Holds(chip'[i], maps[i])
      BY <1>9, <3>1 DEF last
    <3>. QED BY <1>1, <3>1, <3>2 DEF Programmed
  <2>. QED BY <1>0, <1>10, <2>2, <2>3, <2>4 DEF BusInv
<1>12. AloneInv'
  BY <1>0, <1>1, <1>6, CarriesOnAlone DEF CarriesOn, Resting
<1>13. TtcInv'
  <2>. USE DEF AtWrite, InClockChange
  <2>0. /\ \A a \in alone : a = t
        /\ clean = TRUE => t \in alone /\ \A u \in ConfigTools : u # t => Resting(u)
    BY <1>0, <1>1, ChangesAlone
  <2>1. CopyInv'
    BY <1>0, <1>1, <1>6 DEF TtcInv, CopyInv, Others
  <2>2. RefGenInv'
    BY <1>0, <1>1, <1>6 DEF TtcInv, RefGenInv, Others
  <2>3. WholeInv'
    BY <1>0, <1>1, <1>6, <2>0 DEF WholeInv
  <2>4. SeenInv'
    <3>1. does'[t] # "compare"
      BY <1>6
    <3>2. clean' = TRUE => \A u \in ConfigTools : does'[u] # "compare"
      BY <1>0, <1>1, <1>6, <2>0, <3>1 DEF Others, Resting
    <3>. QED BY <3>2 DEF SeenInv
  <2>5. ClockIsAsked'
    BY <1>1, <1>6, <2>0 DEF ClockIsAsked
  <2>. QED BY <2>1, <2>2, <2>3, <2>4, <2>5 DEF TtcInv
<1>. QED BY <1>8, <1>11, <1>12, <1>13 DEF ClockInv

(* TTC_DATA is read; a tool that configures does so between the PLLs and   *)
(* the selection.                                                          *)
LEMMA ReadTtcDataKeeps ==
  ASSUME ClockInv, NEW t \in ClockTools, NEW from, NEW to, ReadTtcData(t, from, to),
         \/ t \in ConfigTools /\ from = "ref" /\ to = "setClock"
         \/ t \in StatusTools /\ from = "sticky" /\ to = "setClear"
         \/ t \in StatusTools /\ from = "set" /\ to = "clear"
  PROVE  ClockInv'
<1>. USE DEF ReadTtcData, Goes
<1>0. /\ ClockTypeOK /\ BusInv /\ AloneInv /\ TtcInv /\ ConfigTools \cap StatusTools = {}
      /\ ConfigTools \subseteq ClockTools /\ alone \subseteq ConfigTools
  BY ClockAssumption DEF ClockInv, ClockTypeOK, ClockTools
<1>2. Others(t) /\ does[t] = from /\ does'[t] = to /\ copy'[t] = ttcData /\ DOMAIN copy' = DOMAIN copy
  BY <1>0 DEF Others, ClockTypeOK
<1>1. ClockTypeOK'
  <2>1. /\ t \in ConfigTools => does'[t] \in ConfigSteps
        /\ t \in StatusTools => does'[t] \in StatusSteps
    BY <1>0, <1>2 DEF ConfigSteps, StatusSteps
  <2>. QED BY <1>0, <1>2, <2>1, StepTyped DEF ClockTypeOK, StepType
<1>3. BusInv'
  BY <1>0, <1>2, OffBusKeeps DEF OffBus, OnBus
<1>4. AloneInv'
  BY <1>0, <1>2, CarriesOnAlone DEF CarriesOn, Resting
<1>5. TtcInv'
  <2>. USE DEF AtWrite, InClockChange
  <2>0. t \in ConfigTools => (does[t] \in InClockChange <=> does'[t] \in InClockChange)
    BY <1>0, <1>2
  <2>1. CopyInv'
    BY <1>0, <1>2 DEF TtcInv, CopyInv, Others
  <2>2. RefGenInv'
    BY <1>0, <1>2, <2>0 DEF TtcInv, RefGenInv, Others
  <2>3. WholeInv'
    <3>1. \A u \in ConfigTools : does'[u] \notin InClockChange => does[u] \notin InClockChange
      BY <1>0, <1>2, <2>0 DEF Others
    <3>2. \A a \in alone : does'[a] \in {"ref", "setClock"} => does[a] \in {"ref", "setClock"}
      BY <1>0, <1>2 DEF Others
    <3>. QED BY <1>0, <3>1, <3>2 DEF TtcInv, WholeInv
  <2>4. SeenInv'
    BY <1>0, <1>2 DEF TtcInv, SeenInv, Others
  <2>5. ClockIsAsked'
    BY <1>0, <1>2 DEF TtcInv, ClockIsAsked, Others
  <2>. QED BY <2>1, <2>2, <2>3, <2>4, <2>5 DEF TtcInv
<1>. QED BY <1>1, <1>3, <1>4, <1>5 DEF ClockInv

(* It is written back: a copy that is not stale changes what it is for,    *)
(* and a stale one ends what was known of the calls.                       *)
WritesBack(t, value) ==
  /\ ttcData' = value /\ copy' = [copy EXCEPT ![t] = NoCopy]
  /\ stale' = (stale \ {t}) \cup {u \in ClockTools \ {t} : does[u] \in AtWrite}
  /\ alone' = IF t \in stale THEN {} ELSE alone
  /\ clean' = (clean /\ t \notin stale)
  /\ UNCHANGED <<scene, chip, testMode, refGen, owner, section, wanted, seen,
                 lost, killed, whole>>

LEMMA WritesBackCopy ==
  ASSUME ClockTypeOK, TtcInv, NEW t \in ClockTools, NEW value, Others(t), WritesBack(t, value),
         does[t] \in AtWrite, does'[t] \notin AtWrite, IsTtcData(value)
  PROVE  /\ CopyInv' /\ DOMAIN copy' = DOMAIN copy /\ IsTtcData(copy'[t])
         /\ clean' \in BOOLEAN /\ alone' \subseteq alone
         /\ t \notin stale => copy[t] = ttcData /\ alone' = alone /\ clean' = clean
         /\ t \in stale => alone' = {} /\ clean' = FALSE
<1>1. \A u \in ClockTools : does'[u] \in AtWrite => u # t /\ does[u] \in AtWrite
  BY DEF Others
<1>2. CopyInv'
  BY <1>1 DEF CopyInv, WritesBack
<1>3. DOMAIN copy' = DOMAIN copy /\ IsTtcData(copy'[t])
  BY DEF WritesBack, ClockTypeOK, NoCopy, IsTtcData, Clocks
<1>4. t \notin stale => copy[t] = ttcData
  BY DEF TtcInv, CopyInv
<1>5. clean \in BOOLEAN
  BY DEF ClockTypeOK
<1>6. clean' = (clean /\ t \notin stale) /\ alone' = IF t \in stale THEN {} ELSE alone
  BY DEF WritesBack
<1>7. /\ clean' \in BOOLEAN
      /\ t \notin stale => clean' = clean
      /\ t \in stale => clean' = FALSE
  BY <1>5, <1>6
<1>. QED BY <1>2, <1>3, <1>4, <1>6, <1>7

LEMMA SetTtcClockKeeps ==
  ASSUME ClockInv, NEW t \in ConfigTools, SetTtcClock(t)
  PROVE  ClockInv'
<1>. DEFINE value == [copy[t] EXCEPT !.clock = wanted[t].clock]
<1>0. /\ ClockTypeOK /\ BusInv /\ AloneInv /\ TtcInv /\ t \notin StatusTools
      /\ t \in ClockTools /\ ConfigTools \subseteq ClockTools /\ alone \subseteq ConfigTools
  BY ClockAssumption DEF ClockInv, ClockTypeOK, ClockTools
<1>1. IsTtcData(value) /\ value.clock = wanted[t].clock
  BY <1>0 DEF ClockTypeOK, IsTtcData, IsClockCall
<1>. HIDE DEF value
<1>2. WritesBack(t, value) /\ Others(t) /\ does[t] = "setClock" /\ does'[t] = "done"
      /\ DOMAIN does' = DOMAIN does
  BY <1>0 DEF SetTtcClock, WriteTtcData, Goes, WritesBack, AtWrite, Others, ClockTypeOK, value
<1>3. /\ CopyInv' /\ DOMAIN copy' = DOMAIN copy /\ IsTtcData(copy'[t])
      /\ clean' \in BOOLEAN /\ alone' \subseteq alone
      /\ t \notin stale => copy[t] = ttcData /\ alone' = alone /\ clean' = clean
      /\ t \in stale => alone' = {} /\ clean' = FALSE
  BY <1>0, <1>1, <1>2, WritesBackCopy DEF AtWrite
<1>. USE DEF WritesBack
<1>4. ClockTypeOK'
  <2>1. does'[t] \in ConfigSteps
    BY <1>2 DEF ConfigSteps
  <2>. QED BY <1>0, <1>1, <1>2, <1>3, <2>1, StepTyped DEF ClockTypeOK, StepType
<1>5. BusInv'
  BY <1>0, <1>2, OffBusKeeps DEF OffBus, OnBus
<1>6. AloneInv'
  <2>1. CarriesOn(t)
    BY <1>2, <1>3 DEF CarriesOn, Resting
  <2>. QED BY <1>0, <1>2, <2>1, CarriesOnAlone
<1>7. /\ \A a \in alone : a = t
      /\ clean = TRUE => t \in alone /\ \A u \in ConfigTools : u # t => Resting(u)
  BY <1>0, <1>2, ChangesAlone DEF InClockChange
<1>8. t \in alone /\ lost = 0 => /\ whole = wanted[t].clock
                                 /\ wanted[t].clock = "ttc" => refGen = TRUE
  BY <1>0, <1>2 DEF TtcInv, WholeInv, RefGenInv, InClockChange
<1>9. TtcInv'
  <2>. USE DEF InClockChange
  <2>2. RefGenInv'
    BY <1>0, <1>2 DEF TtcInv, RefGenInv, Others
  <2>3. WholeInv'
    <3>1. \A a \in alone' : does'[a] = "done"
      BY <1>2, <1>3, <1>7
    <3>2. clean' = TRUE => clean = TRUE
      BY <1>3
    <3>. QED BY <1>1, <1>2, <1>7, <1>8, <3>1, <3>2 DEF WholeInv
  <2>4. SeenInv'
    BY <1>0, <1>2, <1>3 DEF TtcInv, SeenInv, Others
  <2>5. ClockIsAsked'
    <3>. SUFFICES ASSUME NEW u \in alone', lost = 0
                  PROVE  /\ whole = wanted[u].clock /\ ttcData'.clock = wanted[u].clock
                         /\ wanted[u].clock = "ttc" => refGen = TRUE
      BY <1>2 DEF ClockIsAsked
    <3>1. u = t /\ t \in alone
      BY <1>3, <1>7
    <3>. QED BY <1>1, <1>2, <1>8, <3>1
  <2>. QED BY <1>3, <2>2, <2>3, <2>4, <2>5 DEF TtcInv
<1>. QED BY <1>4, <1>5, <1>6, <1>9 DEF ClockInv

(* The sticky bit is set or cleared: the clock stays as it is.             *)
LEMMA WriteStickyKeeps ==
  ASSUME ClockInv, NEW t \in StatusTools, NEW from \in {"setClear", "clear"}, NEW to \in {"set", "idle"},
         NEW bit, WriteTtcData(t, from, to, [copy[t] EXCEPT !.clear = bit])
  PROVE  ClockInv'
<1>. DEFINE value == [copy[t] EXCEPT !.clear = bit]
<1>0. /\ ClockTypeOK /\ BusInv /\ AloneInv /\ TtcInv /\ t \notin ConfigTools
      /\ t \in ClockTools /\ ConfigTools \subseteq ClockTools /\ alone \subseteq ConfigTools
  BY ClockAssumption DEF ClockInv, ClockTypeOK, ClockTools
<1>1. IsTtcData(value) /\ value.clock = copy[t].clock
  BY <1>0 DEF ClockTypeOK, IsTtcData
<1>. HIDE DEF value
<1>2. WritesBack(t, value) /\ Others(t) /\ does[t] = from /\ does'[t] = to
      /\ DOMAIN does' = DOMAIN does
  BY <1>0 DEF WriteTtcData, Goes, WritesBack, AtWrite, Others, ClockTypeOK, value
<1>3. /\ CopyInv' /\ DOMAIN copy' = DOMAIN copy /\ IsTtcData(copy'[t])
      /\ clean' \in BOOLEAN /\ alone' \subseteq alone
      /\ t \notin stale => copy[t] = ttcData /\ alone' = alone /\ clean' = clean
      /\ t \in stale => alone' = {} /\ clean' = FALSE
  BY <1>0, <1>1, <1>2, WritesBackCopy DEF AtWrite
<1>. USE DEF WritesBack
<1>4. ClockTypeOK'
  <2>1. does'[t] \in StatusSteps
    BY <1>2 DEF StatusSteps
  <2>. QED BY <1>0, <1>1, <1>2, <1>3, <2>1, StepTyped DEF ClockTypeOK, StepType
<1>5. BusInv'
  BY <1>0, <1>2, OffBusKeeps DEF OffBus, OnBus
<1>6. AloneInv'
  <2>1. CarriesOn(t)
    BY <1>0, <1>3 DEF CarriesOn
  <2>. QED BY <1>0, <1>2, <2>1, CarriesOnAlone
<1>7. t \notin stale => ttcData'.clock = ttcData.clock
  BY <1>1, <1>2, <1>3
<1>8. \A u \in ConfigTools : does'[u] = does[u]
  BY <1>0, <1>2 DEF Others
<1>9. TtcInv'
  <2>. USE DEF InClockChange
  <2>2. RefGenInv'
    BY <1>0, <1>2, <1>8 DEF TtcInv, RefGenInv
  <2>3. CASE t \in stale
    <3>1. alone' = {} /\ clean' = FALSE
      BY <1>3, <2>3
    <3>2. WholeInv' /\ SeenInv' /\ ClockIsAsked'
      BY <3>1 DEF WholeInv, SeenInv, ClockIsAsked
    <3>. QED BY <1>3, <2>2, <3>2 DEF TtcInv
  <2>4. CASE t \notin stale
    <3>1. alone' = alone /\ clean' = clean /\ ttcData'.clock = ttcData.clock
      BY <1>3, <1>7, <2>4
    <3>2. WholeInv'
      BY <1>0, <1>2, <1>8, <3>1 DEF TtcInv, WholeInv
    <3>3. SeenInv'
      BY <1>0, <1>2, <1>8, <3>1 DEF TtcInv, SeenInv
    <3>4. ClockIsAsked'
      BY <1>0, <1>2, <1>8, <3>1 DEF TtcInv, ClockIsAsked
    <3>. QED BY <1>3, <2>2, <3>2, <3>3, <3>4 DEF TtcInv
  <2>. QED BY <2>3, <2>4
<1>. QED BY <1>4, <1>5, <1>6, <1>9 DEF ClockInv

LEMMA KillKeeps ==
  ASSUME ClockInv, NEW t \in ClockTools, Kill(t)
  PROVE  ClockInv'
<1>0. /\ ClockTypeOK /\ BusInv /\ AloneInv /\ TtcInv /\ "nobody" \notin ClockTools
      /\ ConfigTools \subseteq ClockTools /\ alone \subseteq ConfigTools
  BY ClockAssumption DEF ClockInv, ClockTypeOK, ClockTools
<1>1. /\ ~Resting(t) /\ does' = [does EXCEPT ![t] = "idle"]
      /\ section' = [section EXCEPT ![t] = <<1, 0>>] /\ seen' = [seen EXCEPT ![t] = "local"]
      /\ copy' = [copy EXCEPT ![t] = NoCopy]
      /\ owner' = IF owner = t THEN "nobody" ELSE owner
      /\ whole' = IF does[t] \in InClockChange THEN "none" ELSE whole
      /\ stale' = stale \ {t} /\ clean' = FALSE
      /\ UNCHANGED <<scene, testMode, refGen, ttcData, wanted, lost, alone>>
  BY DEF Kill, ForgetClock, InClockChange
<1>2. /\ does[t] # "program" => chip' = chip
      /\ DOMAIN chip' = 1..3 /\ \A j \in 1..3 : IsChip(chip'[j])
  <2>1. CASE does[t] # "program"
    BY <1>0, <2>1 DEF Kill, ClockTypeOK
  <2>2. CASE does[t] = "program"
    <3>1. t \in ConfigTools /\ Programming(t)
      BY <1>0, <2>2 DEF BusInv, ClockTypeOK, ClockTools, StatusSteps
    <3>2. section[t][1] \in 1..3 /\ section[t][2] \in 0..LastSection
      BY <3>1 DEF Programming
    <3>3. IsChip(SpoilSection(chip[section[t][1]], section[t][2]))
      BY <1>0, <3>2, MapsOf, SectionTyped DEF ClockTypeOK
    <3>4. \/ chip' = chip
          \/ chip' = [chip EXCEPT ![section[t][1]] = SpoilSection(chip[section[t][1]], section[t][2])]
      BY <2>2 DEF Kill
    <3>. QED BY <1>0, <2>2, <3>2, <3>3, <3>4 DEF ClockTypeOK
  <2>. QED BY <2>1, <2>2
<1>3. Others(t) /\ does'[t] = "idle" /\ IsTtcData(copy'[t])
      /\ DOMAIN does' = DOMAIN does /\ DOMAIN section' = DOMAIN section
      /\ DOMAIN seen' = DOMAIN seen /\ DOMAIN copy' = DOMAIN copy
  BY <1>0, <1>1 DEF Others, ClockTypeOK, NoCopy, IsTtcData, Clocks
<1>4. ClockTypeOK'
  <2>1. does'[t] \in ConfigSteps /\ does'[t] \in StatusSteps
    BY <1>3 DEF ConfigSteps, StatusSteps
  <2>. QED BY <1>0, <1>1, <1>2, <1>3, <2>1, StepTyped DEF ClockTypeOK, StepType
<1>5. BusInv'
  <2>1. \A u \in ClockTools : owner' = u <=> does'[u] \in OnBus
    BY <1>0, <1>1, <1>3 DEF BusInv, OnBus, Others
  <2>2. CASE does[t] = "program"
    <3>1. \A u \in ClockTools : does'[u] \notin OnBus
      BY <1>0, <1>3, <2>2, AloneOnBus DEF Others, OnBus
    <3>2. whole' = "none"
      BY <1>1, <2>2 DEF InClockChange
    <3>3. \A u \in ClockTools : does'[u] # "read" /\ does'[u] # "program"
      BY <3>1 DEF OnBus
    <3>. QED BY <1>0, <2>1, <3>2, <3>3 DEF BusInv, PllsAreWhole
  <2>3. CASE does[t] # "program"
    <3>1. \A u \in ClockTools : does'[u] = "read" /\ lost' = 0 => chip'[2].page = 5
      BY <1>0, <1>1, <1>2, <1>3, <2>3 DEF BusInv, Others
    <3>2. \A u \in ConfigTools : (does[u] = "program" => Programming(u))'
      <4>. SUFFICES ASSUME NEW u \in ConfigTools, does'[u] = "program" PROVE Programming(u)'
        OBVIOUS
      <4>1. does[u] = "program" /\ section'[u] = section[u] /\ wanted' = wanted
        BY <1>0, <1>1, <1>3 DEF Others
      <4>2. Programming(u)
        BY <1>0, <4>1 DEF BusInv
      <4>3. chip' = chip /\ testMode' = testMode /\ lost' = lost
        BY <1>1, <1>2, <2>3
      <4>. QED BY <4>1, <4>2, <4>3, Zenon DEF Programming
    <3>3. PllsAreWhole'
      BY <1>0, <1>1, <1>2, <2>3 DEF BusInv, PllsAreWhole, Programmed
    <3>. QED BY <2>1, <3>1, <3>2, <3>3, Zenon DEF BusInv
  <2>. QED BY <2>2, <2>3
<1>6. AloneInv'
  BY <1>0, <1>1, <1>3, CarriesOnAlone DEF CarriesOn
<1>7. TtcInv'
  <2>. USE DEF AtWrite, InClockChange
  <2>0. does[t] \in InClockChange => t \in ConfigTools /\ \A a \in alone : a = t
    BY <1>0, ChangesAlone
  <2>1. CopyInv'
    BY <1>0, <1>1, <1>3 DEF TtcInv, CopyInv, Others
  <2>2. RefGenInv'
    BY <1>0, <1>1, <1>3 DEF TtcInv, RefGenInv, Others
  <2>3. WholeInv'
    <3>. SUFFICES ASSUME NEW a \in alone, lost = 0, does'[a] \in {"ref", "setClock"}
                  PROVE  whole' = wanted[a].clock
      BY <1>1 DEF WholeInv
    <3>1. a # t /\ does'[a] = does[a]
      BY <1>0, <1>3 DEF Others
    <3>2. whole' = whole
      BY <1>1, <2>0, <3>1
    <3>. QED BY <1>0, <3>1, <3>2 DEF TtcInv, WholeInv
  <2>4. SeenInv'
    BY <1>1 DEF SeenInv
  <2>5. ClockIsAsked'
    <3>. SUFFICES ASSUME NEW a \in ConfigTools, a \in alone, lost = 0, does'[a] = "done",
                         wanted[a].force
                  PROVE  /\ whole' = wanted[a].clock /\ ttcData.clock = wanted[a].clock
                         /\ wanted[a].clock = "ttc" => refGen
      BY <1>1 DEF ClockIsAsked
    <3>1. a # t /\ does'[a] = does[a]
      BY <1>0, <1>3 DEF Others
    <3>2. whole' = whole
      BY <1>1, <2>0, <3>1
    <3>. QED BY <1>0, <3>1, <3>2 DEF TtcInv, ClockIsAsked
  <2>. QED BY <2>1, <2>2, <2>3, <2>4, <2>5 DEF TtcInv
<1>. QED BY <1>4, <1>5, <1>6, <1>7 DEF ClockInv

LEMMA ClockInitial == ClockInit => ClockInv
<1>. SUFFICES ASSUME ClockInit PROVE ClockInv
  OBVIOUS
<1>. USE DEF ClockInit
<1>1. \A j \in 1..3 : MapsFor("local", testMode)[j] \in RegisterMaps
  BY MapsOf
<1>2. \A j \in 1..3 : IsChip(chip[j])
  <2>. SUFFICES ASSUME NEW j \in 1..3 PROVE IsChip(chip[j])
    OBVIOUS
  <2>1. PICK n : n = MapsFor("local", testMode)[j].name
    OBVIOUS
  <2>2. n \in MapNames
    BY <1>1, <2>1 DEF MapNames
  <2>3. chip[j] = [page |-> 11, held |-> FALSE, body |-> [p \in Pages |-> n]]
    BY <2>1
  <2>. QED BY <2>2, <2>3 DEF IsChip
<1>3. ClockTypeOK
  BY <1>2 DEF ClockTypeOK, IsClockCall, IsTtcData, Clocks, NoCopy, ConfigSteps, StatusSteps, ClockTools
<1>4. PllsAreWhole
  <2>. SUFFICES ASSUME NEW j \in 1..3 PROVE chip[j] = Holds(chip[j], MapsFor("local", testMode)[j])
    BY DEF PllsAreWhole, Programmed
  <2>1. PICK n : n = MapsFor("local", testMode)[j].name
    OBVIOUS
  <2>2. chip[j] = [page |-> 11, held |-> FALSE, body |-> [p \in Pages |-> n]]
    BY <2>1
  <2>. QED BY <2>1, <2>2, Zenon DEF Holds
<1>5. BusInv
  BY <1>4, ClockAssumption DEF BusInv, OnBus, ClockTools
<1>6. AloneInv
  BY DEF AloneInv, Resting, ClockTools
<1>7. TtcInv
  BY DEF TtcInv, CopyInv, RefGenInv, WholeInv, SeenInv, ClockIsAsked, AtWrite, InClockChange,
         ClockTools
<1>. QED BY <1>3, <1>5, <1>6, <1>7 DEF ClockInv

LEMMA ClockStays == ASSUME ClockInv, UNCHANGED clockVars PROVE ClockInv'
BY DEF clockVars, ClockInv, ClockTypeOK, BusInv, Programming, PllsAreWhole, Programmed, AloneInv,
       Resting, TtcInv, CopyInv, RefGenInv, WholeInv, SeenInv, ClockIsAsked

LEMMA ClockKeeps == ClockInv /\ [ClockNext]_clockVars => ClockInv'
<1>. SUFFICES ASSUME ClockInv, [ClockNext]_clockVars PROVE ClockInv'
  OBVIOUS
<1>0. scene.tools \subseteq ClockTools
  BY ClockAssumption DEF ClockInv, ClockTypeOK
<1>1. ASSUME NEW t \in ConfigTools, NEW c \in Clocks, NEW f \in BOOLEAN, StartConfig(t, c, f)
      PROVE  ClockInv'
  BY <1>1, StartConfigKeeps
<1>2. ASSUME NEW t \in ConfigTools, CompareClock(t) PROVE ClockInv'
  BY <1>2, CompareClockKeeps
<1>3. ASSUME NEW t \in ConfigTools, LockPlls(t) PROVE ClockInv'
  BY <1>3, LockPllsKeeps
<1>4. ASSUME NEW t \in ConfigTools, ConfigurePll(t) PROVE ClockInv'
  BY <1>4, ConfigurePllKeeps
<1>5. ASSUME NEW t \in ConfigTools, ReadForClock(t) PROVE ClockInv'
  BY <1>5, ReadTtcDataKeeps DEF ReadForClock, ClockTools
<1>6. ASSUME NEW t \in ConfigTools, SetTtcClock(t) PROVE ClockInv'
  BY <1>6, SetTtcClockKeeps
<1>7. ASSUME NEW t \in StatusTools, StartStatus(t) PROVE ClockInv'
  BY <1>7, StartStatusKeeps
<1>8. ASSUME NEW t \in StatusTools, Monitoring(t) PROVE ClockInv'
  BY <1>8, MonitoringKeeps
<1>9. ASSUME NEW t \in StatusTools, ReadForSticky(t) \/ ReadToClear(t) PROVE ClockInv'
  BY <1>9, ReadTtcDataKeeps DEF ReadForSticky, ReadToClear, ClockTools
<1>10. ASSUME NEW t \in StatusTools, SetClear(t) PROVE ClockInv'
  BY <1>10, WriteStickyKeeps DEF SetClear
<1>11. ASSUME NEW t \in StatusTools, ClearClear(t) PROVE ClockInv'
  BY <1>11, WriteStickyKeeps DEF ClearClear
<1>12. ASSUME NEW t \in ClockTools, LockToRead(t) PROVE ClockInv'
  BY <1>12, LockToReadKeeps
<1>13. ASSUME NEW t \in ClockTools, SelectClockPage(t) PROVE ClockInv'
  BY <1>13, SelectClockPageKeeps
<1>14. ASSUME NEW t \in ClockTools, ReadClock(t) PROVE ClockInv'
  BY <1>14, ReadClockKeeps
<1>15. ASSUME NEW t \in ClockTools, Kill(t) PROVE ClockInv'
  BY <1>15, KillKeeps
<1>16. CASE UNCHANGED clockVars
  BY <1>16, ClockStays
<1>. QED
  BY <1>0, <1>1, <1>2, <1>3, <1>4, <1>5, <1>6, <1>7, <1>8, <1>9, <1>10, <1>11, <1>12, <1>13, <1>14,
     <1>15, <1>16 DEF ClockNext

LEMMA ClockRight == ClockInv => ClockIsRight
BY DEF ClockInv, BusInv, TtcInv, ClockIsRight

(* A PLL is right when its programming was whole, a call gets the clock it *)
(* asks for if nothing got in its way, and a calibration that returned,    *)
(* and gave up no wait, left every device calibrated and the buses with    *)
(* the engine (CruBar::configure, configurePlls, Ttc::setClock,            *)
(* calibrateGbt, calibrateTtc).                                            *)
THEOREM ClocksStayRight == CardSpec => []ClocksAreRight
<1> DEFINE Inv == ClockInv /\ CalibInv
<1>1. CardInit => Inv
  BY ClockInitial, CalibInitial DEF CardInit
<1>2. Inv /\ [CardNext]_partVars => Inv'
  <2>1. [CardNext]_partVars => [ClockNext]_clockVars
    BY DEF CardNext, OthersRest, partVars
  <2>2. [CardNext]_partVars => [CalibNext]_calibVars
    BY DEF CardNext, OthersRest, partVars
  <2> QED BY <2>1, <2>2, ClockKeeps, CalibKeeps
<1>3. Inv => ClocksAreRight
  BY ClockRight, CalibRight DEF ClocksAreRight
<1> QED BY <1>1, <1>2, <1>3, PTL DEF CardSpec
-----------------------------------------------------------------------------
(* The buffers: who goes on with a file has its lock, and the addresses    *)
(* that were given to the card are from a list made for the buffer.        *)
BufferSteps == {"off", "locking", "resizing", "mapping", "mapped", "open", "leaving", "removed",
                "closing"}
HasFile == {"resizing", "mapping", "mapped", "open", "leaving", "removed"}

BenchType(b) ==
  /\ DOMAIN b = {"pc", "request", "pages", "sgl", "pushed"}
  /\ b.pc \in BufferSteps
  /\ b.pc # "off" => /\ b.request \in BufferRequests
                     /\ b.request.memory = "own" => b.pages = "4K"
                     /\ b.request.memory = "file" => b.pages \in HugeFiles
BufferTypeOK ==
  /\ iommu \in BOOLEAN /\ DOMAIN file = HugeFiles /\ DOMAIN fileLock = HugeFiles
  /\ DOMAIN bench = Benches /\ \A p \in Benches : BenchType(bench[p])

(* Who goes on with a file has its lock, and it is as long as the buffer.  *)
BenchFile(p) ==
  LET b == bench[p] IN
  b.pc \in HasFile /\ b.request.memory = "file" =>
    /\ fileLock[b.pages] = p
    /\ b.pc \in {"mapping", "mapped", "open"} => file[b.pages] = b.request.size
FileInv == \A p \in Benches : BenchFile(p)

(* What was pushed lies in the buffer, and its address is from a list that *)
(* was accepted for it.                                                    *)
ListOf(b) ==
  b.sgl \in ScatterGathers(b.pages, b.request.size) /\ MapsAccepted(b.pages, b.request.atStart)
BenchList(b) ==
  /\ b.pc \in {"locking", "resizing", "mapping", "mapped"} => b.pushed = {}
  /\ b.pc = "open" => ListOf(b)
  /\ \A s \in b.pushed :
       /\ b.pc # "off" /\ ListOf(b)
       /\ s.offset \in Nat /\ s.offset + b.request.super <= b.request.size
       /\ s.bus = BusOffsetAddress(b.sgl, s.offset)
ListInv == \A p \in Benches : BenchList(bench[p])

BufferInv == BufferTypeOK /\ FileInv /\ ListInv
-----------------------------------------------------------------------------
(* The pieces of a buffer.                                                 *)
LEMMA PageSizes == \A pages : PageSize(pages) \in {1, 2, 4}
BY DEF PageSize, Giga, Mega2

EndsPiece(e, starts, size, s) ==
  e \in Nat /\ s < e /\ e <= size /\ (e = size \/ e \in starts)

LEMMA PieceEnds ==
  ASSUME NEW size \in Nat \ {0}, NEW starts, starts \subseteq 0..(size - 1), NEW s \in starts
  PROVE  EndsPiece(PieceEnd(starts, size, s), starts, size, s)
<1>. PICK e : e = PieceEnd(starts, size, s)
  OBVIOUS
<1>. SUFFICES EndsPiece(e, starts, size, s)
  OBVIOUS
<1>. USE DEF EndsPiece
<1>. DEFINE later == {u \in starts : u > s}
<1>1. e = IF later = {} THEN size ELSE CHOOSE u \in later : \A v \in later : u <= v
  BY DEF PieceEnd
<1>2. CASE later = {}
  BY <1>1, <1>2
<1>3. CASE later # {}
  <2>0. later \subseteq Nat
    <3>1. starts \subseteq Nat
      OBVIOUS
    <3>. QED BY <3>1, Zenon
  <2>1. \E u \in later : \A v \in later : u <= v
    <3>. HIDE DEF later
    <3>. QED BY <1>3, <2>0, LeastNumber
  <2>2. e \in later /\ \A v \in later : e <= v
    BY <1>1, <1>3, <2>1
  <2>. QED BY <2>2
<1>. QED BY <1>2, <1>3

LEMMA PieceOf ==
  ASSUME NEW size \in Nat \ {0}, NEW starts, starts \subseteq 0..(size - 1), 0 \in starts,
         NEW offset \in 0..(size - 1)
  PROVE  \E s \in starts : s <= offset /\ offset < PieceEnd(starts, size, s)
<1>. DEFINE T == {offset - s : s \in {u \in starts : u <= offset}}
<1>1. T \subseteq Nat /\ T # {}
  BY DEF T
<1>2. PICK n \in T : \A m \in T : n <= m
  BY <1>1, LeastNumber
<1>3. PICK s \in starts : s <= offset /\ n = offset - s
  BY <1>2
<1>4. PICK e : e = PieceEnd(starts, size, s)
  OBVIOUS
<1>5. e \in Nat /\ s < e /\ (e = size \/ e \in starts)
  <2>1. EndsPiece(PieceEnd(starts, size, s), starts, size, s)
    BY PieceEnds
  <2>. QED BY <1>4, <2>1 DEF EndsPiece
<1>6. offset < e
  <2>1. CASE e = size
    BY <2>1
  <2>2. CASE e \in starts
    <3>. SUFFICES ASSUME e <= offset PROVE FALSE
      BY <1>5
    <3>1. offset - e \in T
      BY <2>2
    <3>2. n <= offset - e
      BY <1>2, <3>1
    <3>. QED BY <1>3, <1>5, <3>2
  <2>. QED BY <1>5, <2>1, <2>2
<1>. QED BY <1>3, <1>4, <1>6

(* Of the piece where a user address is looked up.                         *)
IsPiece(e, pages, size) ==
  /\ e.user \in Nat /\ e.size \in Nat /\ e.bus \in Int
  /\ e.user % PageSize(pages) = 0
  /\ (e.user + e.size) % PageSize(pages) = 0 \/ e.user + e.size = size
  /\ iommu => e.user = 0 /\ e.size = size

LEMMA PiecesOf ==
  ASSUME iommu \in BOOLEAN, NEW pages, NEW size \in Nat \ {0}, NEW list \in ScatterGathers(pages, size)
  PROVE  /\ \A i \in DOMAIN list : IsPiece(list[i], pages, size)
         /\ \A offset \in 0..(size - 1) : \E i \in DOMAIN list :
              offset \in list[i].user .. list[i].user + list[i].size - 1
<1>. DEFINE ends == PageEnds(pages, size)
<1>1. PICK cuts \in Cuts(pages, size), rises \in BOOLEAN :
         list = Pieces(cuts, size, rises)
  <2>1. PICK c \in Cuts(pages, size), r \in BOOLEAN : list = Pieces(c, size, r \/ c = {})
    BY DEF ScatterGathers
  <2>2. (r \/ c = {}) \in BOOLEAN
    OBVIOUS
  <2>. QED BY <2>1, <2>2
<1>. DEFINE starts == {0} \cup cuts
<1>2. /\ starts \subseteq 0..(size - 1) /\ \A u \in starts : u % PageSize(pages) = 0
      /\ iommu => starts = {0}
  <2>1. cuts \subseteq ends /\ (iommu => cuts = {})
    BY <1>1 DEF Cuts
  <2>2. \A u \in ends : u \in 0..(size - 1) /\ u % PageSize(pages) = 0
    BY DEF PageEnds
  <2>3. 0 % PageSize(pages) = 0 /\ 0 \in 0..(size - 1)
    BY PageSizes
  <2>. QED BY <2>1, <2>2, <2>3
<1>. HIDE DEF ends
<1>3. /\ DOMAIN list = starts
      /\ \A s \in starts : /\ list[s].user = s /\ list[s].size = PieceEnd(starts, size, s) - s
                           /\ list[s].bus = Gap * (IF rises THEN s + 1 ELSE size - s)
  BY <1>1 DEF Pieces
<1>. HIDE DEF starts
<1>4. ASSUME NEW s \in starts PROVE IsPiece(list[s], pages, size)
  <2>1. PICK e : e = PieceEnd(starts, size, s)
    OBVIOUS
  <2>2. e \in Nat /\ s < e /\ e <= size /\ (e = size \/ e \in starts)
    <3>1. EndsPiece(PieceEnd(starts, size, s), starts, size, s)
      BY <1>2, PieceEnds
    <3>. QED BY <2>1, <3>1 DEF EndsPiece
  <2>3. list[s].user = s /\ list[s].size = e - s /\ s \in Nat
    BY <1>2, <1>3, <2>1
  <2>4. list[s].bus \in Int
    BY <1>2, <1>3 DEF Gap
  <2>5. list[s].user + list[s].size = e
    BY <2>2, <2>3
  <2>6. iommu => s = 0 /\ e = size
    BY <1>2, <2>2
  <2>7. e % PageSize(pages) = 0 \/ e = size
    BY <1>2, <2>2
  <2>8. s % PageSize(pages) = 0
    BY <1>2
  <2>9. list[s].size \in Nat
    BY <2>2, <2>3
  <2>. QED BY <2>3, <2>4, <2>5, <2>6, <2>7, <2>8, <2>9 DEF IsPiece
<1>5. ASSUME NEW offset \in 0..(size - 1)
      PROVE  \E i \in DOMAIN list : offset \in list[i].user .. list[i].user + list[i].size - 1
  <2>1. 0 \in starts
    BY DEF starts
  <2>2. PICK s \in starts : s <= offset /\ offset < PieceEnd(starts, size, s)
    BY <1>2, <2>1, PieceOf
  <2>3. PICK e : e = PieceEnd(starts, size, s)
    OBVIOUS
  <2>4. e \in Nat /\ s \in Nat
    <3>1. EndsPiece(PieceEnd(starts, size, s), starts, size, s)
      BY <1>2, PieceEnds
    <3>. QED BY <1>2, <2>3, <3>1 DEF EndsPiece
  <2>5. list[s].user = s /\ list[s].size = e - s
    BY <1>3, <2>3
  <2>. QED BY <1>3, <2>2, <2>3, <2>4, <2>5
<1>. QED BY <1>3, <1>4, <1>5

(* An aligned superpage does not leave the piece its address is from.      *)
LEMMA SuperpageInPiece ==
  ASSUME NEW P \in {2, 4}, NEW super \in Nat \ {0}, IsMultiple(P, super),
         NEW user \in Nat, NEW end \in Nat, user % P = 0,
         NEW offset \in Nat, offset % super = 0, user <= offset, offset < end,
         NEW size \in Nat, end % P = 0 \/ end = size, offset + super <= size
  PROVE  offset + super <= end
<1>1. super \in {1, 2, 4} /\ (P = 2 => super # 4)
  BY DEF IsMultiple
<1>2. CASE end = size
  BY <1>2
<1>3. CASE end % P = 0
  <2>1. CASE super = 1
    BY <2>1
  <2>2. CASE super = 2
    <3>1. offset % 2 = 0 /\ end % 2 = 0
      BY <1>3, <2>2
    <3>. QED BY <2>2, <3>1
  <2>3. CASE super = 4
    <3>1. P = 4
      BY <1>1, <2>3
    <3>. QED BY <1>3, <2>3, <3>1
  <2>. QED BY <1>1, <2>1, <2>2, <2>3
<1>. QED BY <1>2, <1>3
-----------------------------------------------------------------------------
(* A step of one process: of the others it leaves the files, the locks and *)
(* the lists alone.                                                        *)
OwnStep(p) ==
  /\ iommu' = iommu /\ DOMAIN bench' = DOMAIN bench
  /\ \A q \in Benches : q # p => bench'[q] = bench[q]
  /\ DOMAIN file' = HugeFiles /\ DOMAIN fileLock' = HugeFiles
  /\ \A t \in HugeFiles : fileLock[t] \notin {Nobody, p} =>
       fileLock'[t] = fileLock[t] /\ file'[t] = file[t]

(* A step that leaves the memory and the list of a process as they are.    *)
SameMemory(p) ==
  /\ DOMAIN bench'[p] = DOMAIN bench[p]
  /\ bench'[p].request = bench[p].request /\ bench'[p].pages = bench[p].pages
  /\ bench'[p].sgl = bench[p].sgl /\ bench'[p].pushed = bench[p].pushed

LEMMA SameLists ==
  ASSUME iommu' = iommu, NEW g, NEW n
  PROVE  ScatterGathers(g, n)' = ScatterGathers(g, n)
<1>1. Cuts(g, n)' = Cuts(g, n)
  BY DEF Cuts
<1>2. PICK cuts : cuts = Cuts(g, n)
  OBVIOUS
<1>3. ScatterGathers(g, n) = {Pieces(c, n, rises \/ c = {}) : c \in cuts, rises \in BOOLEAN}
  BY <1>2 DEF ScatterGathers
<1>4. ScatterGathers(g, n)' = {Pieces(c, n, rises \/ c = {}) : c \in cuts, rises \in BOOLEAN}
  BY <1>1, <1>2 DEF ScatterGathers
<1>. QED BY <1>3, <1>4

LEMMA ListsStay ==
  ASSUME iommu' = iommu, NEW p, SameMemory(p)
  PROVE  ListOf(bench[p])' <=> ListOf(bench[p])
<1>1. PICK g, n, l, r : g = bench[p].pages /\ r = bench[p].request /\ n = r.size /\ l = bench[p].sgl
  OBVIOUS
<1>2. g = bench'[p].pages /\ r = bench'[p].request /\ l = bench'[p].sgl
  BY <1>1 DEF SameMemory
<1>3. ScatterGathers(g, n)' = ScatterGathers(g, n)
  BY SameLists
<1>4. ListOf(bench[p]) <=> l \in ScatterGathers(g, n) /\ MapsAccepted(g, r.atStart)
  BY <1>1 DEF ListOf
<1>5. ListOf(bench[p])' <=> l \in ScatterGathers(g, n)' /\ MapsAccepted(g, r.atStart)'
  BY <1>1, <1>2 DEF ListOf
<1>. QED BY <1>3, <1>4, <1>5 DEF MapsAccepted

LEMMA OwnStepKeeps ==
  ASSUME BufferInv, NEW p \in Benches, OwnStep(p),
         BenchType(bench'[p]), BenchFile(p)', BenchList(bench[p])'
  PROVE  BufferInv'
<1>. USE DEF OwnStep
<1>0. BufferTypeOK /\ FileInv /\ ListInv /\ Nobody \notin Benches
  BY BufferAssumption DEF BufferInv, Nobody
<1>1. BufferTypeOK'
  <2>1. \A q \in Benches : BenchType(bench'[q])
    BY <1>0 DEF BufferTypeOK
  <2>. QED BY <1>0, <2>1 DEF BufferTypeOK, BenchType
<1>2. ASSUME NEW q \in Benches PROVE BenchFile(q)'
  <2>1. CASE q = p
    BY <2>1
  <2>2. CASE q # p
    <3>. SUFFICES ASSUME bench[q].pc \in HasFile, bench[q].request.memory = "file"
                  PROVE  /\ fileLock'[bench[q].pages] = q
                         /\ bench[q].pc \in {"mapping", "mapped", "open"} =>
                              file'[bench[q].pages] = bench[q].request.size
      BY <2>2 DEF BenchFile
    <3>1. bench[q].pages \in HugeFiles
      BY <1>0 DEF BufferTypeOK, BenchType, HasFile
    <3>2. /\ fileLock[bench[q].pages] = q
          /\ bench[q].pc \in {"mapping", "mapped", "open"} =>
               file[bench[q].pages] = bench[q].request.size
      BY <1>0 DEF FileInv, BenchFile
    <3>. QED BY <1>0, <2>2, <3>1, <3>2
  <2>. QED BY <2>1, <2>2
<1>3. ASSUME NEW q \in Benches PROVE BenchList(bench[q])'
  <2>1. CASE q = p
    BY <2>1
  <2>2. CASE q # p
    <3>1. BenchList(bench[q]) /\ bench'[q] = bench[q] /\ iommu' = iommu
      BY <1>0, <2>2 DEF ListInv
    <3>2. SameMemory(q)
      BY <3>1 DEF SameMemory
    <3>4. ListOf(bench[q])' <=> ListOf(bench[q])
      BY <3>1, <3>2, ListsStay
    <3>. QED BY <3>1, <3>4 DEF BenchList
  <2>. QED BY <2>1, <2>2
<1>. QED BY <1>1, <1>2, <1>3 DEF BufferInv, FileInv, ListInv

LEMMA StartBenchKeeps ==
  ASSUME BufferInv, NEW p \in Benches, NEW r \in BufferRequests, StartBench(p, r) \/ StartOther(p, r)
  PROVE  BufferInv'
<1>0. BufferTypeOK /\ DOMAIN bench = Benches
  BY DEF BufferInv, BufferTypeOK
<1>1. OwnStep(p)
  BY <1>0 DEF StartBench, StartOther, OwnStep, BufferTypeOK
<1>2. \/ /\ bench'[p].pc = "locking" /\ bench'[p].pages \in HugeFiles /\ r.memory = "file"
      \/ /\ bench'[p].pc = "mapped" /\ bench'[p].pages = "4K" /\ r.memory = "own"
  BY <1>0 DEF StartBench, StartOther, HugeFiles, Off
<1>3. /\ DOMAIN bench'[p] = {"pc", "request", "pages", "sgl", "pushed"}
      /\ bench'[p].request = r /\ bench'[p].pushed = {}
  <2>1. \E pc, pages : bench'[p] = [Off EXCEPT !.pc = pc, !.request = r, !.pages = pages]
    <3>1. CASE StartBench(p, r)
      <4>1. bench'[p] = [Off EXCEPT !.pc = "locking", !.request = r,
                                    !.pages = IF IsMultiple(r.size, Giga) THEN "1GB" ELSE "2MB"]
        BY <1>0, <3>1 DEF StartBench
      <4>. QED BY <4>1
    <3>2. CASE StartOther(p, r)
      <4>1. bench'[p] = [Off EXCEPT !.pc = "mapped", !.request = r, !.pages = "4K"]
        BY <1>0, <3>2 DEF StartOther
      <4>. QED BY <4>1
    <3>. QED BY <3>1, <3>2
  <2>. QED BY <2>1 DEF Off
<1>4. BenchType(bench'[p])
  BY <1>2, <1>3 DEF BenchType, BufferSteps
<1>5. BenchFile(p)'
  BY <1>2, <1>3 DEF BenchFile, HasFile
<1>6. BenchList(bench[p])'
  BY <1>2, <1>3 DEF BenchList
<1>. QED BY <1>1, <1>4, <1>5, <1>6, OwnStepKeeps

LEMMA BenchOf ==
  ASSUME BufferInv, NEW p \in Benches
  PROVE  /\ BenchType(bench[p]) /\ BenchFile(p) /\ BenchList(bench[p])
         /\ DOMAIN bench = Benches /\ DOMAIN file = HugeFiles /\ DOMAIN fileLock = HugeFiles
         /\ p # Nobody
BY BufferAssumption DEF BufferInv, BufferTypeOK, FileInv, ListInv, Nobody

LEMMA Ended ==
  ASSUME NEW p \in Benches, bench'[p] = Off
  PROVE  BenchType(bench'[p]) /\ BenchFile(p)' /\ BenchList(bench[p])'
BY DEF Off, BenchType, BufferSteps, BenchFile, HasFile, BenchList

LEMMA LockFileKeeps ==
  ASSUME BufferInv, NEW p \in Benches, LockFile(p)
  PROVE  BufferInv'
<1>. USE DEF LockFile, Goto, BenchAt, Request
<1>0. /\ BenchType(bench[p]) /\ BenchFile(p) /\ BenchList(bench[p])
      /\ DOMAIN bench = Benches /\ DOMAIN file = HugeFiles /\ DOMAIN fileLock = HugeFiles
      /\ p # Nobody
  BY BenchOf
<1>1. PICK t : t = bench[p].pages
  OBVIOUS
<1>2. bench[p].pc = "locking" /\ bench[p].pushed = {}
  BY <1>0 DEF BenchList
<1>3. CASE fileLock[t] = Nobody
  <2>1. /\ bench' = [bench EXCEPT ![p].pc = "resizing"] /\ fileLock' = [fileLock EXCEPT ![t] = p]
        /\ UNCHANGED <<iommu, file, chanLock>>
    BY <1>1, <1>3
  <2>2. OwnStep(p)
    BY <1>0, <1>3, <2>1 DEF OwnStep
  <2>3. bench'[p].pc = "resizing" /\ SameMemory(p)
    BY <1>0, <2>1 DEF SameMemory, BenchType
  <2>4. BenchType(bench'[p])
    BY <1>0, <1>2, <2>3 DEF SameMemory, BenchType, BufferSteps
  <2>5. BenchFile(p)'
    BY <1>0, <1>1, <1>2, <2>1, <2>3 DEF SameMemory, BenchType, BenchFile
  <2>6. BenchList(bench[p])'
    BY <1>2, <2>3 DEF SameMemory, BenchList
  <2>. QED BY <2>2, <2>4, <2>5, <2>6, OwnStepKeeps
<1>4. CASE fileLock[t] # Nobody
  <2>1. bench' = [bench EXCEPT ![p] = Off] /\ UNCHANGED <<iommu, file, fileLock, chanLock>>
    BY <1>1, <1>4
  <2>2. OwnStep(p)
    BY <1>0, <2>1 DEF OwnStep
  <2>3. bench'[p] = Off
    BY <1>0, <2>1
  <2>4. BenchType(bench'[p]) /\ BenchFile(p)' /\ BenchList(bench[p])'
    BY <2>3, Ended
  <2>. QED BY <2>2, <2>4, OwnStepKeeps
<1>. QED BY <1>3, <1>4

LEMMA ResizeFileKeeps ==
  ASSUME BufferInv, NEW p \in Benches, ResizeFile(p)
  PROVE  BufferInv'
<1>. USE DEF ResizeFile, Goto, BenchAt, Request
<1>0. /\ BenchType(bench[p]) /\ BenchFile(p) /\ BenchList(bench[p])
      /\ DOMAIN bench = Benches /\ DOMAIN file = HugeFiles /\ DOMAIN fileLock = HugeFiles
      /\ p # Nobody
  BY BenchOf
<1>2. bench[p].pc = "resizing" /\ bench[p].pushed = {}
  BY <1>0 DEF BenchList
<1>3. bench'[p].pc = "mapping" /\ SameMemory(p)
  BY <1>0 DEF SameMemory, BenchType
<1>4. BenchType(bench'[p])
  BY <1>0, <1>2, <1>3 DEF SameMemory, BenchType, BufferSteps
<1>5. BenchList(bench[p])'
  BY <1>2, <1>3 DEF SameMemory, BenchList
<1>6. CASE bench[p].request.memory = "file"
  <2>1. fileLock[bench[p].pages] = p /\ bench[p].pages \in HugeFiles
    BY <1>0, <1>2, <1>6 DEF BenchFile, HasFile, BenchType
  <2>2. file'[bench[p].pages] = bench[p].request.size /\ fileLock' = fileLock
    BY <1>0, <2>1
  <2>3. OwnStep(p)
    BY <1>0, <2>1 DEF OwnStep
  <2>4. BenchFile(p)'
    BY <1>3, <2>1, <2>2 DEF SameMemory, BenchFile
  <2>. QED BY <1>4, <1>5, <2>3, <2>4, OwnStepKeeps
<1>7. CASE bench[p].request.memory # "file"
  <2>1. bench[p].pages \notin HugeFiles
    BY <1>0, <1>2, <1>7, BufferAssumption DEF BenchType, HugeFiles
  <2>3. OwnStep(p)
    BY <1>0, <2>1 DEF OwnStep
  <2>4. BenchFile(p)'
    BY <1>3, <1>7 DEF SameMemory, BenchFile
  <2>. QED BY <1>4, <1>5, <2>3, <2>4, OwnStepKeeps
<1>. QED BY <1>6, <1>7

LEMMA MapFileKeeps ==
  ASSUME BufferInv, NEW p \in Benches, MapFile(p)
  PROVE  BufferInv'
<1>. USE DEF MapFile, Goto, BenchAt
<1>0. /\ BenchType(bench[p]) /\ BenchFile(p) /\ BenchList(bench[p])
      /\ DOMAIN bench = Benches /\ DOMAIN file = HugeFiles /\ DOMAIN fileLock = HugeFiles
      /\ p # Nobody
  BY BenchOf
<1>2. bench[p].pc = "mapping" /\ bench[p].pushed = {}
  BY <1>0 DEF BenchList
<1>3. bench'[p].pc \in {"mapped", "leaving"} /\ SameMemory(p)
  BY <1>0 DEF SameMemory, BenchType
<1>4. BenchType(bench'[p])
  BY <1>0, <1>2, <1>3 DEF SameMemory, BenchType, BufferSteps
<1>5. BenchList(bench[p])'
  BY <1>2, <1>3 DEF SameMemory, BenchList
<1>6. OwnStep(p)
  BY <1>0 DEF OwnStep
<1>7. BenchFile(p)'
  BY <1>0, <1>2, <1>3 DEF SameMemory, BenchFile, HasFile
<1>. QED BY <1>4, <1>5, <1>6, <1>7, OwnStepKeeps

LEMMA MapFailsKeeps ==
  ASSUME BufferInv, NEW p \in Benches, MapFails(p)
  PROVE  BufferInv'
<1>. USE DEF MapFails, BenchAt
<1>0. /\ BenchType(bench[p]) /\ BenchFile(p) /\ BenchList(bench[p])
      /\ DOMAIN bench = Benches /\ DOMAIN file = HugeFiles /\ DOMAIN fileLock = HugeFiles
      /\ p # Nobody
  BY BenchOf
<1>1. PICK t : t = bench[p].pages
  OBVIOUS
<1>2. bench[p].pc \in {"resizing", "mapping"} /\ bench[p].pushed = {}
  BY <1>0 DEF BenchList
<1>3. fileLock' = [fileLock EXCEPT ![t] = Nobody] /\ UNCHANGED <<iommu, file, chanLock>>
  BY <1>1
<1>4. OwnStep(p)
  <2>1. t \in HugeFiles => fileLock[t] = p
    BY <1>0, <1>1, <1>2, BufferAssumption DEF BenchType, BenchFile, HasFile, HugeFiles
  <2>. QED BY <1>0, <1>3, <2>1 DEF OwnStep
<1>5. CASE t = "1GB"
  <2>1. bench' = [bench EXCEPT ![p] = [bench[p] EXCEPT !.pc = "locking", !.pages = "2MB"]]
    BY <1>1, <1>5
  <2>2. /\ DOMAIN bench'[p] = DOMAIN bench[p] /\ bench'[p].request = bench[p].request
        /\ bench'[p].pages = "2MB" /\ bench'[p].pc = "locking" /\ bench'[p].pushed = {}
    <3>1. PICK b : b = bench[p]
      OBVIOUS
    <3>2. DOMAIN b = {"pc", "request", "pages", "sgl", "pushed"} /\ b.pushed = {}
      BY <1>0, <1>2, <3>1 DEF BenchType
    <3>3. bench' = [bench EXCEPT ![p] = [b EXCEPT !.pc = "locking", !.pages = "2MB"]]
      BY ONLY <2>1, <3>1
    <3>4. bench'[p] = [b EXCEPT !.pc = "locking", !.pages = "2MB"]
      BY ONLY <1>0, <3>3
    <3>5. /\ DOMAIN bench'[p] = DOMAIN b /\ bench'[p].request = b.request
          /\ bench'[p].pages = "2MB" /\ bench'[p].pc = "locking" /\ bench'[p].pushed = {}
      BY ONLY <3>2, <3>4
    <3>. QED BY <3>1, <3>5
  <2>3. BenchType(bench'[p])
    <3>1. bench[p].request.memory # "own"
      BY <1>0, <1>1, <1>2, <1>5 DEF BenchType
    <3>. QED BY <1>0, <1>2, <2>2, <3>1 DEF BenchType, BufferSteps, HugeFiles
  <2>. QED BY <1>4, <2>2, <2>3, OwnStepKeeps DEF BenchFile, HasFile, BenchList
<1>6. CASE t # "1GB"
  <2>1. bench'[p] = Off
    BY <1>0, <1>1, <1>6
  <2>2. BenchType(bench'[p]) /\ BenchFile(p)' /\ BenchList(bench[p])'
    BY <2>1, Ended
  <2>. QED BY <1>4, <2>2, OwnStepKeeps
<1>. QED BY <1>5, <1>6

LEMMA OpenDmaChannelKeeps ==
  ASSUME BufferInv, NEW p \in Benches, BenchAt(p, {"mapped"}),
         NEW sgl \in ScatterGathers(bench[p].pages, Request(p).size), OpenDmaChannel(p, sgl)
  PROVE  BufferInv'
<1>0. /\ BenchType(bench[p]) /\ BenchFile(p) /\ BenchList(bench[p])
      /\ DOMAIN bench = Benches /\ DOMAIN file = HugeFiles /\ DOMAIN fileLock = HugeFiles
      /\ p # Nobody
  BY BenchOf
<1>1. PICK g, r : g = bench[p].pages /\ r = bench[p].request
  OBVIOUS
<1>2. bench[p].pc = "mapped" /\ bench[p].pushed = {}
  BY <1>0 DEF BenchList, BenchAt
<1>3. PICK accepted \in BOOLEAN :
        /\ accepted => MapsAccepted(g, r.atStart)
        /\ bench' = [bench EXCEPT ![p].sgl = IF accepted THEN sgl ELSE <<>>,
                                  ![p].pc = IF accepted THEN "open" ELSE "leaving"]
        /\ UNCHANGED <<iommu, file, fileLock>>
  <2>1. PICK accepted : accepted = (/\ chanLock = Nobody /\ ListAccepted(sgl, r.size)
                                    /\ MapsAccepted(g, r.atStart))
    OBVIOUS
  <2>2. accepted \in BOOLEAN /\ (accepted => MapsAccepted(g, r.atStart))
    BY <2>1
  <2>. QED BY <1>1, <2>1, <2>2 DEF OpenDmaChannel, Request
<1>4. /\ OwnStep(p)
      /\ DOMAIN bench'[p] = DOMAIN bench[p] /\ bench'[p].request = r /\ bench'[p].pages = g
      /\ bench'[p].pushed = {}
      /\ bench'[p].pc = IF accepted THEN "open" ELSE "leaving"
      /\ accepted => bench'[p].sgl = sgl
  BY <1>0, <1>1, <1>2, <1>3 DEF OwnStep, BenchType
<1>5. BenchType(bench'[p])
  BY <1>0, <1>1, <1>2, <1>4 DEF BenchType, BufferSteps
<1>6. BenchFile(p)'
  BY <1>0, <1>1, <1>2, <1>3, <1>4 DEF BenchFile, HasFile
<1>7. BenchList(bench[p])'
  <2>1. CASE accepted
    <3>1. ScatterGathers(g, r.size)' = ScatterGathers(g, r.size)
      BY <1>3, SameLists
    <3>2. sgl \in ScatterGathers(g, r.size)'
      BY <1>1, <3>1 DEF Request
    <3>3. MapsAccepted(g, r.atStart)'
      BY <1>3, <2>1 DEF MapsAccepted
    <3>4. ListOf(bench[p])'
      BY <1>4, <2>1, <3>2, <3>3 DEF ListOf
    <3>. QED BY <1>4, <2>1, <3>4 DEF BenchList
  <2>2. CASE ~accepted
    BY <1>4, <2>2 DEF BenchList
  <2>. QED BY <2>1, <2>2
<1>. QED BY <1>4, <1>5, <1>6, <1>7, OwnStepKeeps

LEMMA PushSuperpageKeeps ==
  ASSUME BufferInv, NEW p \in Benches, NEW offset \in Nat, PushSuperpage(p, offset)
  PROVE  BufferInv'
<1>0. /\ BenchType(bench[p]) /\ BenchFile(p) /\ BenchList(bench[p])
      /\ DOMAIN bench = Benches /\ DOMAIN file = HugeFiles /\ DOMAIN fileLock = HugeFiles
      /\ p # Nobody
  BY BenchOf
<1>1. PICK b : b = bench[p]
  OBVIOUS
<1>2. b.pc = "open" /\ offset + b.request.super <= b.request.size
  BY <1>1 DEF PushSuperpage, BenchAt, SuperpageAccepted, Request
<1>3. PICK s : s = [offset |-> offset, bus |-> BusOffsetAddress(b.sgl, offset)]
  OBVIOUS
<1>4. bench' = [bench EXCEPT ![p].pushed = {s}] /\ UNCHANGED <<iommu, file, fileLock, chanLock>>
  BY <1>1, <1>3 DEF PushSuperpage
<1>5. bench'[p] = [b EXCEPT !.pushed = {s}]
  BY <1>0, <1>1, <1>4
<1>6. /\ OwnStep(p) /\ DOMAIN bench'[p] = DOMAIN b /\ bench'[p].pc = "open"
      /\ bench'[p].request = b.request /\ bench'[p].pages = b.pages
      /\ bench'[p].sgl = b.sgl /\ bench'[p].pushed = {s}
  <2>1. OwnStep(p)
    BY <1>0, <1>4 DEF OwnStep
  <2>. QED BY ONLY <1>0, <1>1, <1>2, <1>5, <2>1 DEF BenchType
<1>7. BenchType(bench'[p])
  BY <1>0, <1>1, <1>2, <1>6 DEF BenchType, BufferSteps
<1>8. BenchFile(p)'
  BY <1>0, <1>1, <1>2, <1>4, <1>6 DEF BenchFile, HasFile
<1>9. BenchList(bench[p])'
  <2>1. ListOf(b)
    BY <1>0, <1>1, <1>2 DEF BenchList
  <2>2. ScatterGathers(b.pages, b.request.size)' = ScatterGathers(b.pages, b.request.size)
    BY <1>4, SameLists
  <2>3. MapsAccepted(b.pages, b.request.atStart)' <=> MapsAccepted(b.pages, b.request.atStart)
    BY <1>4 DEF MapsAccepted
  <2>4. ListOf(bench[p])'
    BY <1>6, <2>1, <2>2, <2>3 DEF ListOf
  <2>5. /\ s.offset \in Nat /\ s.offset + b.request.super <= b.request.size
        /\ s.bus = BusOffsetAddress(b.sgl, s.offset)
    BY <1>2, <1>3
  <2>. QED BY <1>6, <2>4, <2>5 DEF BenchList
<1>. QED BY <1>6, <1>7, <1>8, <1>9, OwnStepKeeps

(* The end of a run: the memory stays what it was until the process ends.  *)
LEMMA Leaves ==
  ASSUME BufferInv, NEW p \in Benches, iommu' = iommu, SameMemory(p), bench[p].pc # "off",
         bench'[p].pc \in {"leaving", "removed", "closing"}
  PROVE  BenchType(bench'[p]) /\ BenchList(bench[p])'
<1>0. BenchType(bench[p]) /\ BenchList(bench[p])
  BY BenchOf
<1>1. BenchType(bench'[p])
  BY <1>0 DEF BenchType, BufferSteps, SameMemory
<1>2. ListOf(bench[p])' <=> ListOf(bench[p])
  BY ListsStay
<1>3. BenchList(bench[p])'
  BY <1>0, <1>2 DEF BenchList, SameMemory
<1>. QED BY <1>1, <1>3

LEMMA FinishKeeps ==
  ASSUME BufferInv, NEW p \in Benches, Finish(p)
  PROVE  BufferInv'
<1>. USE DEF Finish, Goto, BenchAt
<1>0. /\ BenchType(bench[p]) /\ BenchFile(p)
      /\ DOMAIN bench = Benches /\ DOMAIN file = HugeFiles /\ DOMAIN fileLock = HugeFiles
  BY BenchOf
<1>1. OwnStep(p)
  BY <1>0 DEF OwnStep
<1>2. SameMemory(p) /\ bench'[p].pc = "leaving"
  BY <1>0 DEF SameMemory, BenchType
<1>3. BenchFile(p)'
  BY <1>0, <1>2 DEF SameMemory, BenchFile, HasFile
<1>4. BenchType(bench'[p]) /\ BenchList(bench[p])'
  BY <1>2, Leaves
<1>. QED BY <1>1, <1>3, <1>4, OwnStepKeeps

LEMMA RemoveFileKeeps ==
  ASSUME BufferInv, NEW p \in Benches, RemoveFile(p)
  PROVE  BufferInv'
<1>. USE DEF RemoveFile, Goto, BenchAt, Request
<1>0. /\ BenchType(bench[p]) /\ BenchFile(p)
      /\ DOMAIN bench = Benches /\ DOMAIN file = HugeFiles /\ DOMAIN fileLock = HugeFiles
  BY BenchOf
<1>1. bench[p].request.memory = "own" \/ fileLock[bench[p].pages] = p
  BY <1>0, BufferAssumption DEF BenchType, BenchFile, HasFile
<1>2. OwnStep(p)
  BY <1>0, <1>1 DEF OwnStep
<1>3. SameMemory(p) /\ bench'[p].pc = "removed"
  BY <1>0 DEF SameMemory, BenchType
<1>4. BenchFile(p)'
  BY <1>0, <1>3 DEF SameMemory, BenchFile, HasFile
<1>5. BenchType(bench'[p]) /\ BenchList(bench[p])'
  BY <1>3, Leaves
<1>. QED BY <1>2, <1>4, <1>5, OwnStepKeeps

LEMMA UnlockFileKeeps ==
  ASSUME BufferInv, NEW p \in Benches, UnlockFile(p)
  PROVE  BufferInv'
<1>. USE DEF UnlockFile, Goto, BenchAt
<1>0. /\ BenchType(bench[p]) /\ BenchFile(p)
      /\ DOMAIN bench = Benches /\ DOMAIN file = HugeFiles /\ DOMAIN fileLock = HugeFiles
  BY BenchOf
<1>1. OwnStep(p)
  BY <1>0 DEF OwnStep
<1>2. SameMemory(p) /\ bench'[p].pc = "closing"
  BY <1>0 DEF SameMemory, BenchType
<1>3. BenchFile(p)'
  BY <1>2 DEF SameMemory, BenchFile, HasFile
<1>4. BenchType(bench'[p]) /\ BenchList(bench[p])'
  BY <1>2, Leaves
<1>. QED BY <1>1, <1>3, <1>4, OwnStepKeeps

LEMMA CloseChannelKeeps ==
  ASSUME BufferInv, NEW p \in Benches, CloseChannel(p) \/ KillBench(p)
  PROVE  BufferInv'
<1>0. /\ DOMAIN bench = Benches /\ DOMAIN file = HugeFiles /\ DOMAIN fileLock = HugeFiles
  BY BenchOf
<1>1. OwnStep(p)
  BY <1>0 DEF CloseChannel, KillBench, OwnStep
<1>2. bench'[p] = Off
  BY <1>0 DEF CloseChannel, KillBench
<1>3. BenchType(bench'[p]) /\ BenchFile(p)' /\ BenchList(bench[p])'
  BY <1>2, Ended
<1>. QED BY <1>1, <1>3, OwnStepKeeps
-----------------------------------------------------------------------------
LEMMA BuffersStart ==
  ASSUME BuffersInit
  PROVE  BufferInv
<1>1. BufferTypeOK
  BY DEF BuffersInit, BufferTypeOK, BenchType, BufferSteps, Off
<1>2. FileInv /\ ListInv
  BY DEF BuffersInit, FileInv, BenchFile, HasFile, ListInv, BenchList, Off
<1>. QED BY <1>1, <1>2 DEF BufferInv

LEMMA BuffersKeep ==
  ASSUME BufferInv, BuffersNext
  PROVE  BufferInv'
<1>1. PICK p \in Benches :
    \/ \E r \in BufferRequests : StartBench(p, r) \/ StartOther(p, r)
    \/ LockFile(p) \/ ResizeFile(p) \/ MapFile(p) \/ MapFails(p)
    \/ /\ BenchAt(p, {"mapped"})
       /\ \E sgl \in ScatterGathers(bench[p].pages, Request(p).size) : OpenDmaChannel(p, sgl)
    \/ BenchAt(p, {"open"}) /\ \E offset \in 0..Request(p).size : PushSuperpage(p, offset)
    \/ Finish(p) \/ RemoveFile(p) \/ UnlockFile(p) \/ CloseChannel(p) \/ KillBench(p)
  BY Zenon DEF BuffersNext
<1>2. CASE \E r \in BufferRequests : StartBench(p, r) \/ StartOther(p, r)
  BY <1>2, StartBenchKeeps
<1>3. CASE LockFile(p) \/ ResizeFile(p) \/ MapFile(p) \/ MapFails(p)
  BY <1>3, LockFileKeeps, ResizeFileKeeps, MapFileKeeps, MapFailsKeeps
<1>4. CASE /\ BenchAt(p, {"mapped"})
           /\ \E sgl \in ScatterGathers(bench[p].pages, Request(p).size) : OpenDmaChannel(p, sgl)
  BY <1>4, OpenDmaChannelKeeps
<1>5. CASE BenchAt(p, {"open"}) /\ \E offset \in 0..Request(p).size : PushSuperpage(p, offset)
  <2>1. PICK offset \in 0..Request(p).size : PushSuperpage(p, offset)
    BY <1>5
  <2>2. offset \in Nat
    BY <2>1
  <2>. QED BY <2>1, <2>2, PushSuperpageKeeps
<1>6. CASE Finish(p) \/ RemoveFile(p) \/ UnlockFile(p) \/ CloseChannel(p) \/ KillBench(p)
  BY <1>6, FinishKeeps, RemoveFileKeeps, UnlockFileKeeps, CloseChannelKeeps
<1>. QED BY <1>1, <1>2, <1>3, <1>4, <1>5, <1>6, Zenon

LEMMA BuffersStutter ==
  ASSUME BufferInv, UNCHANGED bufferVars
  PROVE  BufferInv'
<1>1. /\ bench' = bench /\ file' = file /\ fileLock' = fileLock /\ iommu' = iommu
  BY DEF bufferVars
<1>2. BufferTypeOK' /\ FileInv'
  BY <1>1 DEF BufferInv, BufferTypeOK, FileInv, BenchFile
<1>3. ASSUME NEW p \in Benches PROVE BenchList(bench[p])'
  <2>1. SameMemory(p) /\ BenchList(bench[p])
    BY <1>1 DEF SameMemory, BufferInv, ListInv
  <2>2. ListOf(bench[p])' <=> ListOf(bench[p])
    BY <1>1, <2>1, ListsStay
  <2>. QED BY <1>1, <2>1, <2>2 DEF BenchList
<1>. QED BY <1>2, <1>3 DEF BufferInv, ListInv

(* Where a superpage of an accepted list lies.                             *)
LEMMA BuffersHold ==
  ASSUME BufferInv
  PROVE  BuffersAreRight
<1>1. MappedFileStays
  BY DEF BufferInv, FileInv, BenchFile, HasFile, MappedFileStays, BenchAt, Request
<1>2. SuperpagesLieInBuffer
  <2>. SUFFICES ASSUME NEW p \in Benches, NEW s \in bench[p].pushed, Aligned(p, s.offset),
                       NEW u \in 0..(Request(p).super - 1)
                PROVE  s.bus + u \in WhereItIs(bench[p].sgl, s.offset + u)
    BY DEF SuperpagesLieInBuffer
  <2>1. PICK list, g, r, offset :
          list = bench[p].sgl /\ g = bench[p].pages /\ r = bench[p].request /\ offset = s.offset
    OBVIOUS
  <2>2. /\ BenchType(bench[p]) /\ BenchList(bench[p]) /\ iommu \in BOOLEAN
    BY BenchOf DEF BufferInv, BufferTypeOK
  <2>3. /\ bench[p].pc # "off" /\ ListOf(bench[p])
        /\ offset \in Nat /\ offset + r.super <= r.size
        /\ s.bus = BusOffsetAddress(list, offset)
    BY <2>1, <2>2 DEF BenchList
  <2>4. r.size \in Nat \ {0} /\ r.super \in Nat \ {0} /\ u \in 0..(r.super - 1)
    BY <2>1, <2>2, <2>3, BufferAssumption DEF BenchType, Request
  <2>5. list \in ScatterGathers(g, r.size) /\ MapsAccepted(g, r.atStart)
    BY <2>1, <2>3 DEF ListOf
  <2>6. offset \in 0..(r.size - 1)
    BY <2>3, <2>4
  <2>7. /\ \A i \in DOMAIN list : IsPiece(list[i], g, r.size)
        /\ \A n \in 0..(r.size - 1) : \E i \in DOMAIN list :
             n \in list[i].user .. list[i].user + list[i].size - 1
    BY <2>2, <2>4, <2>5, PiecesOf
  <2>8. PICK i \in DOMAIN list : /\ offset \in list[i].user .. list[i].user + list[i].size - 1
                                 /\ s.bus = list[i].bus + (offset - list[i].user)
    <3>1. \E i \in DOMAIN list : offset \in list[i].user .. list[i].user + list[i].size - 1
      BY <2>6, <2>7
    <3>. QED BY <2>3, <3>1 DEF BusOffsetAddress
  <2>9. PICK user, len, bus : user = list[i].user /\ len = list[i].size /\ bus = list[i].bus
    OBVIOUS
  <2>10. /\ user \in Nat /\ len \in Nat /\ bus \in Int
         /\ user % PageSize(g) = 0
         /\ (user + len) % PageSize(g) = 0 \/ user + len = r.size
         /\ iommu => user = 0 /\ len = r.size
    BY <2>7, <2>9 DEF IsPiece
  <2>11. user <= offset /\ offset < user + len /\ s.bus = bus + (offset - user)
    BY <2>3, <2>8, <2>9, <2>10
  <2>12. offset + r.super <= user + len
    <3>1. CASE iommu
      BY <2>3, <2>4, <2>10, <3>1
    <3>2. CASE ~iommu
      <4>1. /\ IsMultiple(IF g = "1GB" THEN Giga ELSE Mega2, r.super)
            /\ offset % r.super = 0 /\ r.atStart
        BY <2>1, <3>2 DEF Aligned, Request
      <4>2. PageSize(g) >= Mega2
        BY <2>5, <3>2, <4>1 DEF MapsAccepted, SizesSeen
      <4>3. PageSize(g) = (IF g = "1GB" THEN Giga ELSE Mega2) /\ PageSize(g) \in {2, 4}
        BY <4>2 DEF PageSize, Giga, Mega2
      <4>4. PICK P \in {2, 4} : P = PageSize(g)
        BY <4>3
      <4>5. /\ IsMultiple(P, r.super) /\ user % P = 0
            /\ (user + len) % P = 0 \/ user + len = r.size
        BY <2>10, <4>1, <4>3, <4>4
      <4>6. PICK end \in Nat : end = user + len
        BY <2>10
      <4>7. PICK super \in Nat \ {0}, size \in Nat : super = r.super /\ size = r.size
        BY <2>4
      <4>8. /\ IsMultiple(P, super) /\ user % P = 0 /\ offset % super = 0
            /\ end % P = 0 \/ end = size
            /\ user <= offset /\ offset < end /\ offset + super <= size
        BY <2>3, <2>11, <4>1, <4>5, <4>6, <4>7
      <4>9. offset + super <= end
        BY <2>3, <2>10, <4>8, SuperpageInPiece
      <4>. QED BY <4>6, <4>7, <4>9
    <3>. QED BY <3>1, <3>2
  <2>13. user <= offset + u /\ offset + u < user + len
    BY <2>3, <2>4, <2>10, <2>11, <2>12
  <2>14. s.bus + u = bus + (offset + u) - user
    BY <2>3, <2>4, <2>10, <2>11
  <2>15. i \in {k \in DOMAIN list : list[k].user <= offset + u
                                      /\ offset + u < list[k].user + list[k].size}
    BY <2>9, <2>13
  <2>16. bus + (offset + u) - user \in WhereItIs(list, offset + u)
    BY <2>9, <2>15 DEF WhereItIs
  <2>. QED BY <2>1, <2>14, <2>16
<1>. QED BY <1>1, <1>2 DEF BuffersAreRight
-----------------------------------------------------------------------------
PageSteps == {"nothing", "frame", "frames", "data", "all"}
AtCheck == {"frame", "frames", "data"}

LinkSends(s) ==
  /\ DOMAIN s = {"orbit", "pages", "packet", "data"}
  /\ s.orbit \in Nat /\ s.pages \in Nat
  /\ s.packet = s.pages % PacketCounters /\ s.data = s.pages % DataCounters
LinkCounts(c) ==
  /\ DOMAIN c = {"event", "packet", "data"}
  /\ c.event \in 0..Events /\ c.packet \in Int /\ c.data \in Int

PageSetup ==
  /\ setup.frequency \in Frequencies /\ setup.sox \in {0, 1} /\ setup.resync \in BOOLEAN
  /\ setup.source \in DataSources
PageHead ==
  /\ DOMAIN page = DOMAIN NoPage
  /\ page.left \in PageSteps /\ page.checked \in BOOLEAN /\ page.start \in BOOLEAN
  /\ page.sox \in BOOLEAN /\ page.leads \in BOOLEAN
  /\ page.orbit \in Nat /\ page.missing \in Nat /\ page.data \in Nat
  /\ page.left # "nothing" => page.link \in LinksRead /\ page.checked = TRUE
PageTypeOK ==
  /\ PageSetup /\ PageHead
  /\ DOMAIN sending = PageLinks /\ DOMAIN counters = PageLinks /\ DOMAIN missing = PageLinks
  /\ \A l \in PageLinks :
       LinkSends(sending[l]) /\ LinkCounts(counters[l]) /\ missing[l] \in Nat
  /\ nextFrame \in Nat /\ guard = FALSE /\ flaws \in Nat

(* The counters of a link are those of the page its missing pages and the  *)
(* ones that were not checked came after.                                  *)
Since(l) == counters[l].event % setup.frequency
Whole(l) == Events % setup.frequency = 0 \/ sending[l].pages <= Events
LastTaken(l) == sending[l].pages - 1 - missing[l] - Since(l)
LinkInv(l) ==
  /\ counters[l].event # Events => counters[l].event < sending[l].pages
  /\ ~Internal /\ counters[l].packet # Unset /\ Whole(l) =>
       /\ counters[l].event < Events
       /\ LastTaken(l) >= 0 /\ counters[l].packet = LastTaken(l) % PacketCounters
  /\ ~Internal /\ page.left \in AtCheck /\ page.link = l => missing[l] = 0 /\ Since(l) = 0
(* That of the data, when every page is checked.                           *)
DataCount(l) ==
  LET before == sending[l].pages - 1 - missing[l]
             - (IF page.left = "data" /\ page.link = l THEN 1 ELSE 0)
  IN  before >= 0 /\ counters[l].data = before % DataCounters
DataInv ==
  Internal /\ setup.frequency = 1 /\ page.left # "all" =>
    /\ \A l \in PageLinks : counters[l].data # DataUnset => DataCount(l)
    /\ page.left = "data" =>
         /\ page.data = (sending[page.link].pages - 1) % DataCounters
         /\ page.missing = missing[page.link]
         /\ sending[page.link].pages >= 1
         /\ counters[page.link].data = DataUnset => page.missing = 0

(* What the header and the data of a page have told, and are still to.     *)
HeaderTold ==
  page.checked = TRUE =>
    /\ page.flaw = "large" /\ ~Internal => "size" \in errorsTold
    /\ page.flaw = "short" /\ setup.source \in {"ddg", "fee"} => "size" \in errorsTold
    /\ page.missing % PacketCounters # 0 /\ ~Internal /\ ~CounterWraps
         => EndsCheck \cap errorsTold # {}
DataTold ==
  page.checked = TRUE /\ page.left = "nothing" =>
    /\ page.missing % DataCounters # 0 /\ Internal /\ setup.frequency = 1
         => "data" \in errorsTold
    /\ page.flaw = "data" /\ setup.source # "fee"
         => (EndsCheck \cup {"data"}) \cap errorsTold # {}
ToldInv ==
  /\ OnlyRealErrors /\ HeaderTold /\ DataTold
  /\ page.left \in {"frame", "frames"} => ~Internal

(* The next time frame begins after the pages that were read, where one    *)
(* may begin, and not after the frame of the link that is ahead.           *)
FrameStarts(orbit) == \E k \in Nat : orbit = setup.sox + k * FrameLength
Passed(orbit) == \E k \in PageLinks : orbit <= setup.sox + FrameLength * (Frame(sending[k].orbit) + 1)
SentInv ==
  /\ reading = Unset \/ reading \in LinksRead
  /\ \A l \in PageLinks :
       /\ setup.sox <= sending[l].orbit
       /\ sending[l].pages = 0 \/ reading = Unset =>
            sending[l].orbit = setup.sox /\ sending[l].pages = 0
  /\ page.left # "nothing" =>
       page.link = reading /\ page.orbit = sending[reading].orbit /\ page.orbit <= LastOrbit
  /\ page.sox = TRUE => setup.sox = 1 /\ page.orbit = 1
FrameInv ==
  setup.frequency = 1 /\ ~Internal /\ flaws = 0 =>
    /\ nextFrame <= LastOrbit + FrameLength
    /\ \A l \in PageLinks : missing[l] = 0
    /\ reading = Unset => nextFrame = 0
    /\ page.left \in {"nothing", "data"} /\ reading # Unset =>
         FrameStarts(nextFrame) /\ nextFrame > sending[reading].orbit /\ Passed(nextFrame)
    /\ page.left = "frame" =>
         /\ page.sox = TRUE \/ (FrameStarts(nextFrame) /\ Passed(nextFrame))
         /\ page.start = TRUE \/ page.sox = TRUE \/ nextFrame > page.orbit
    /\ page.left = "frames" => FrameStarts(nextFrame) /\ Passed(nextFrame)
LateInv ==
  /\ page.checked = TRUE /\ page.flaw = "late" /\ page.leads = TRUE /\ flaws = 1
  /\ setup.frequency = 1 /\ ~Internal
  => /\ page.left \in {"nothing", "frames", "data"} => "frame" \in errorsTold
     /\ page.left = "frame" =>
          page.start = FALSE /\ page.sox = FALSE /\ page.orbit >= nextFrame

PageInv ==
  /\ PageTypeOK /\ SentInv /\ (\A l \in PageLinks : LinkInv(l))
  /\ DataInv /\ ToldInv /\ FrameInv /\ LateInv
LEMMA PageSizesAreNumbers ==
  /\ PageLinks \subseteq Nat /\ Frequencies \subseteq Nat \ {0}
  /\ PacketCounters \in Nat \ {0} /\ Events \in Nat \ {0} /\ DataCounters \in Nat \ {0}
  /\ FrameLength \in Nat \ {0} /\ Orbits \in Nat /\ LastOrbit \in Nat
  /\ LastOrbit + FrameLength < Orbits
BY PageAssumption

(* What is added to a counter that wraps is seen unless it is a multiple of *)
(* the modulus.                                                            *)
LEMMA CounterAdds ==
  ASSUME NEW m \in Nat \ {0}, NEW a \in Nat, NEW b \in Nat
  PROVE  /\ ((a % m) + b) % m = (a + b) % m
         /\ (a + b) % m = a % m <=> b % m = 0
<1>1. PICK q \in Nat, r \in 0..m-1 : a = q * m + r /\ r = a % m
  BY Division
<1>. PICK s \in Nat : s = r + b
  OBVIOUS
<1>2. PICK q2 \in Nat, r2 \in 0..m-1 : s = q2 * m + r2 /\ r2 = s % m
  BY Division
<1>. PICK x \in Nat, y \in Nat : x = q * m /\ y = q2 * m
  OBVIOUS
<1>3. (a + b) % m = r2
  <2>. PICK n \in Nat : n = q + q2
    OBVIOUS
  <2>1. n * m = x + y
    OBVIOUS
  <2>2. (n * m + r2) % m = r2
    BY DivisionIsUnique
  <2>3. a + b = n * m + r2
    <3>1. a = x + r /\ s = y + r2
      BY <1>1, <1>2
    <3>2. a + b = x + y + r2
      BY <3>1
    <3>. QED BY <2>1, <3>2
  <2>. QED BY <2>2, <2>3
<1>4. PICK k \in Nat, t \in 0..m-1 : b = k * m + t /\ t = b % m
  BY Division
<1>5. t = 0 => r2 = r
  <2>. SUFFICES ASSUME t = 0 PROVE r2 = r
    OBVIOUS
  <2>1. (k * m + r) % m = r
    BY DivisionIsUnique
  <2>. PICK z \in Nat : z = k * m
    OBVIOUS
  <2>2. s = z + r
    BY <1>4
  <2>. QED BY <1>2, <2>1, <2>2
<1>6. r2 = r => t = 0
  <2>. SUFFICES ASSUME r2 = r PROVE t = 0
    OBVIOUS
  <2>1. (q2 * m + 0) % m = 0
    BY DivisionIsUnique
  <2>2. b = y
    BY <1>2
  <2>3. y % m = 0
    BY <2>1
  <2>. QED BY <1>4, <2>2, <2>3
<1>7. s % m = r2 /\ a % m = r /\ b % m = t /\ (a % m) + b = s
  BY <1>1, <1>2, <1>4
<1>. QED BY ONLY <1>3, <1>5, <1>6, <1>7

LEMMA RemainderOfLess ==
  ASSUME NEW m \in Nat \ {0}, NEW n \in 0..m-1
  PROVE  n % m = n /\ m % m = 0
<1>1. (0 * m + n) % m = n /\ (1 * m + 0) % m = 0
  BY DivisionIsUnique
<1>. QED BY <1>1

(* The event counter goes through the numbers below its last value: a page *)
(* is checked when as many came as between two checks.                     *)
CountsOn(E, f, e, n) ==
  /\ n \in 0..(E - 1) /\ (e = E => n = 0) /\ (e < E => n <= e + 1)
  /\ e < E /\ (E % f = 0 \/ e + 1 < E) =>
       IF n % f = 0 THEN e % f = f - 1 ELSE n % f = (e % f) + 1

LEMMA EventCounts ==
  ASSUME NEW E \in Nat \ {0}, NEW f \in Nat \ {0}, NEW e \in 0..E, NEW n,
         n = ((e + 1) % (E + 1)) % E
  PROVE  CountsOn(E, f, e, n)
<1>. USE DEF CountsOn
<1>. PICK m \in Nat \ {0}, e1 \in Nat \ {0} : m = E + 1 /\ e1 = e + 1
  OBVIOUS
<1>0. n = (e1 % m) % E /\ e1 <= m
  OBVIOUS
<1>1. CASE e = E
  <2>1. m % m = 0 /\ 0 % E = 0
    BY RemainderOfLess
  <2>2. e1 = m
    BY <1>1
  <2>. QED BY <1>0, <1>1, <2>1, <2>2
<1>2. CASE e < E
  <2>1. e1 % m = e1
    BY <1>2, RemainderOfLess
  <2>2. n = e1 % E
    BY <1>0, <2>1
  <2>3. e \in Nat
    OBVIOUS
  <2>4. PICK q \in Nat, r \in 0..f-1 : e = q * f + r /\ r = e % f
    BY <2>3, Division
  <2>. PICK x \in Nat : x = q * f
    OBVIOUS
  <2>5. e1 % f = IF r = f - 1 THEN 0 ELSE r + 1
    <3>1. CASE r = f - 1
      <4>. PICK q1 \in Nat : q1 = q + 1
        OBVIOUS
      <4>1. q1 * f = x + f
        OBVIOUS
      <4>2. (q1 * f + 0) % f = 0
        BY DivisionIsUnique
      <4>3. q1 * f + 0 = x + f
        BY <4>1
      <4>4. e1 = x + f
        BY <2>4, <3>1
      <4>5. e1 % f = 0
        BY ONLY <4>2, <4>3, <4>4
      <4>. QED BY <3>1, <4>5
    <3>2. CASE r # f - 1
      <4>. PICK r1 \in 0..f-1 : r1 = r + 1
        BY <3>2
      <4>1. (q * f + r1) % f = r1
        BY DivisionIsUnique
      <4>2. e1 = x + r1
        BY <2>4
      <4>. QED BY <3>2, <4>1, <4>2
    <3>. QED BY <3>1, <3>2
  <2>6. CASE e1 < E
    <3>1. n = e1
      BY <2>2, <2>6, RemainderOfLess
    <3>. QED BY <1>2, <2>4, <2>5, <2>6, <3>1
  <2>7. CASE e1 = E
    <3>1. n = 0 /\ 0 % f = 0
      BY <2>2, <2>7, RemainderOfLess
    <3>2. E % f = 0 => e % f = f - 1
      BY <2>4, <2>5, <2>7
    <3>. QED BY <1>2, <2>7, <3>1, <3>2
  <2>. QED BY <1>2, <2>6, <2>7
<1>. QED BY <1>1, <1>2

(* The packet counter of a page that is checked is wrong if pages are      *)
(* missing.                                                                *)
IsWrongIfMissing(P, f, q, m, away, a) ==
  ((a % P) + f) % P # (q + away) % P <=> (m + away) % P # 0

LEMMA PacketsCount ==
  ASSUME NEW P \in Nat \ {0}, NEW f \in Nat \ {0}, NEW q \in Nat, NEW m \in Nat, NEW away \in Nat,
         NEW a \in Nat, q = a + f + m
  PROVE  IsWrongIfMissing(P, f, q, m, away, a)
<1>. USE DEF IsWrongIfMissing
<1>1. ((a % P) + f) % P = (a + f) % P
  BY CounterAdds
<1>2. PICK b \in Nat, g \in Nat : b = a + f /\ g = m + away
  OBVIOUS
<1>3. (b + g) % P = b % P <=> g % P = 0
  BY CounterAdds, ZenonT(60)
<1>4. q + away = b + g
  BY <1>2
<1>. QED BY <1>1, <1>2, <1>3, <1>4
-----------------------------------------------------------------------------
(* What an arriving page does to the counters of its link.                 *)
IsArrival(l, orbit, away, flaw, start) ==
  /\ l \in LinksRead /\ away \in Nat /\ start \in BOOLEAN
  /\ orbit \in {sending[l].orbit, sending[l].orbit + 1} /\ page.left = "nothing"
  /\ ReadoutPage(l, orbit, away, flaw, start)

CountsAs(l, away, flaw, n, gone, packet, errors) ==
  /\ n = ((counters[l].event + 1) % (Events + 1)) % Events
  /\ packet = (sending[l].packet + away) % PacketCounters
  /\ gone = IF InSync(l) THEN missing[l] + away ELSE 0
  /\ errors = IF n % setup.frequency = 0 THEN HeaderErrors(l, packet, flaw) ELSE {}
  /\ errorsTold' = errors
  /\ counters'[l].event = n
  /\ counters'[l].data = IF errors # {} /\ setup.resync THEN DataUnset ELSE counters[l].data
  /\ counters'[l].packet =
       IF errors # {} THEN IF setup.resync THEN Unset ELSE counters[l].packet
       ELSE IF n % setup.frequency = 0 /\ ~Internal THEN packet ELSE counters[l].packet
  /\ missing'[l] = IF n % setup.frequency # 0 \/ Internal THEN gone
                   ELSE IF errors = {} \/ setup.resync THEN 0 ELSE gone + setup.frequency

PageIs(l, orbit, away, flaw, start, n, gone, errors) ==
  /\ DOMAIN page' = DOMAIN NoPage
  /\ page'.left = IF n % setup.frequency # 0 \/ errors # {} THEN "nothing"
                  ELSE IF Internal THEN "data" ELSE "frame"
  /\ {page'.checked, page'.sox, page'.leads} \subseteq BOOLEAN
  /\ (page'.checked = TRUE <=> n % setup.frequency = 0) /\ page'.link = l /\ page'.orbit = orbit
  /\ page'.start = start /\ page'.flaw = flaw /\ page'.missing = gone
  /\ page'.data = (sending[l].data + away) % DataCounters
  /\ page'.sox = TRUE <=> setup.sox = 1 /\ sending[l].pages = 0
  /\ page'.leads = TRUE <=> \A k \in PageLinks : Frame(orbit) > Frame(sending[k].orbit)

LEMMA LinksReadAreLinks == PageInv => LinksRead \subseteq PageLinks
BY PageAssumption DEF LinksRead, PageInv, PageTypeOK, PageSetup

LEMMA ArrivalCounts ==
  ASSUME PageInv, NEW l, NEW orbit, NEW away, NEW flaw, NEW start,
         IsArrival(l, orbit, away, flaw, start)
  PROVE  \E n, gone, packet, errors :
           /\ CountsAs(l, away, flaw, n, gone, packet, errors)
           /\ PageIs(l, orbit, away, flaw, start, n, gone, errors)
           /\ LinkCounts(counters'[l]) /\ n \in Nat
           /\ DOMAIN counters' = PageLinks /\ DOMAIN missing' = PageLinks
           /\ \A k \in PageLinks : k # l => counters'[k] = counters[k] /\ missing'[k] = missing[k]
           /\ UNCHANGED <<setup, nextFrame, guard, prevOrbit>>
<1>0. /\ l \in PageLinks /\ DOMAIN counters = PageLinks /\ DOMAIN missing = PageLinks
      /\ LinkCounts(counters[l]) /\ ReadoutPage(l, orbit, away, flaw, start)
  BY LinksReadAreLinks DEF PageInv, PageTypeOK, IsArrival
<1>1. PICK n, gone, packet, errors :
        /\ n = Event(l) /\ packet = (sending[l].packet + away) % PacketCounters
        /\ gone = IF InSync(l) THEN missing[l] + away ELSE 0
        /\ errors = IF Checked(l) THEN HeaderErrors(l, packet, flaw) ELSE {}
  OBVIOUS
<1>2. n = ((counters[l].event + 1) % (Events + 1)) % Events /\ (Checked(l) <=> n % setup.frequency = 0)
  BY <1>1 DEF Event, Checked
<1>3. n \in 0..(Events - 1)
  <2>1. PICK e \in 0..Events : e = counters[l].event
    BY <1>0 DEF LinkCounts
  <2>2. n = ((e + 1) % (Events + 1)) % Events
    BY <1>2, <2>1
  <2>3. CountsOn(Events, 1, e, n)
    BY <2>2, PageSizesAreNumbers, EventCounts
  <2>. QED BY <2>3 DEF CountsOn
<1>4. /\ errorsTold' = errors /\ UNCHANGED <<setup, nextFrame, guard, prevOrbit>>
      /\ counters' = [counters EXCEPT ![l] =
           IF errors # {} THEN Forgotten([counters[l] EXCEPT !.event = n])
           ELSE IF Checked(l) /\ ~Internal
                THEN [[counters[l] EXCEPT !.event = n] EXCEPT !.packet = packet]
                ELSE [counters[l] EXCEPT !.event = n]]
      /\ missing' = [missing EXCEPT ![l] =
           IF ~Checked(l) \/ Internal THEN gone
           ELSE IF errors = {} \/ setup.resync THEN 0 ELSE gone + setup.frequency]
      /\ page' = [left |-> IF ~Checked(l) \/ errors # {} THEN "nothing"
                           ELSE IF Internal THEN "data" ELSE "frame",
                  checked |-> Checked(l),
                  link |-> l, orbit |-> orbit, start |-> start, flaw |-> flaw,
                  data |-> (sending[l].data + away) % DataCounters,
                  sox |-> setup.sox = 1 /\ sending[l].pages = 0,
                  missing |-> gone,
                  leads |-> \A k \in PageLinks : Frame(orbit) > Frame(sending[k].orbit)]
  BY <1>0, <1>1, Zenon DEF ReadoutPage
<1>5. PageIs(l, orbit, away, flaw, start, n, gone, errors)
  <2>1. PICK checked \in BOOLEAN, sox \in BOOLEAN, leads \in BOOLEAN :
          /\ checked = Checked(l) /\ sox = (setup.sox = 1 /\ sending[l].pages = 0)
          /\ leads = (\A k \in PageLinks : Frame(orbit) > Frame(sending[k].orbit))
    BY Zenon DEF Checked
  <2>2. /\ checked = TRUE <=> Checked(l)
        /\ sox = TRUE <=> setup.sox = 1 /\ sending[l].pages = 0
        /\ leads = TRUE <=> \A k \in PageLinks : Frame(orbit) > Frame(sending[k].orbit)
    BY ONLY <2>1, Zenon
  <2>3. page' = [left |-> IF ~Checked(l) \/ errors # {} THEN "nothing"
                         ELSE IF Internal THEN "data" ELSE "frame",
                checked |-> checked, link |-> l, orbit |-> orbit, start |-> start, flaw |-> flaw,
                data |-> (sending[l].data + away) % DataCounters, sox |-> sox,
                missing |-> gone, leads |-> leads]
    BY <1>4, <2>1, Zenon
  <2>4. /\ DOMAIN page' = {"left", "checked", "link", "orbit", "start", "flaw", "data", "sox",
                           "missing", "leads"}
        /\ page'.left = IF ~Checked(l) \/ errors # {} THEN "nothing"
                        ELSE IF Internal THEN "data" ELSE "frame"
        /\ page'.checked = checked /\ page'.link = l /\ page'.orbit = orbit
        /\ page'.start = start /\ page'.flaw = flaw /\ page'.missing = gone
        /\ page'.data = (sending[l].data + away) % DataCounters
        /\ page'.sox = sox /\ page'.leads = leads
    BY ONLY <2>3
  <2>5. DOMAIN NoPage = {"left", "checked", "link", "orbit", "start", "flaw", "data", "sox",
                         "missing", "leads"}
    BY DEF NoPage
  <2>. QED BY <1>2, <2>1, <2>2, <2>4, <2>5 DEF PageIs
<1>6. PICK c : c = counters[l] /\ DOMAIN c = {"event", "packet", "data"} /\ c.packet \in Int /\ c.data \in Int
  BY <1>0 DEF LinkCounts
<1>7. PICK d : d = [c EXCEPT !.event = n]
  OBVIOUS
<1>8. /\ DOMAIN d = {"event", "packet", "data"}
      /\ d.event = n /\ d.packet = c.packet /\ d.data = c.data
  BY <1>6, <1>7
<1>9. counters'[l] = IF errors # {} THEN Forgotten(d)
                     ELSE IF Checked(l) /\ ~Internal THEN [d EXCEPT !.packet = packet] ELSE d
  BY <1>0, <1>4, <1>6, <1>7
<1>10. /\ DOMAIN counters'[l] = {"event", "packet", "data"} /\ counters'[l].event = n
       /\ counters'[l].data = IF errors # {} /\ setup.resync THEN DataUnset ELSE c.data
       /\ counters'[l].packet =
            IF errors # {} THEN IF setup.resync THEN Unset ELSE c.packet
            ELSE IF Checked(l) /\ ~Internal THEN packet ELSE c.packet
  BY <1>8, <1>9 DEF Forgotten
<1>11. packet \in Int
  <2>2. sending[l].packet = sending[l].pages % PacketCounters /\ sending[l].pages \in Nat /\ away \in Nat
    BY <1>0 DEF PageInv, PageTypeOK, LinkSends, IsArrival
  <2>4. sending[l].pages % PacketCounters \in 0..(PacketCounters - 1)
    BY <2>2, PageSizesAreNumbers, Division
  <2>3. sending[l].packet \in Nat
    BY <2>2, <2>4, PageSizesAreNumbers
  <2>1. PICK a \in Nat : a = sending[l].packet + away
    BY <2>2, <2>3
  <2>. QED BY <1>1, <2>1, PageSizesAreNumbers, Division
<1>12. LinkCounts(counters'[l])
  BY <1>3, <1>6, <1>10, <1>11, PageSizesAreNumbers DEF LinkCounts, DataUnset, Unset
<1>13. missing'[l] = IF ~Checked(l) \/ Internal THEN gone
                     ELSE IF errors = {} \/ setup.resync THEN 0 ELSE gone + setup.frequency
  BY <1>0, <1>4
<1>14. CountsAs(l, away, flaw, n, gone, packet, errors)
  BY <1>1, <1>2, <1>4, <1>6, <1>10, <1>13 DEF CountsAs
<1>15. /\ DOMAIN counters' = PageLinks /\ DOMAIN missing' = PageLinks
       /\ \A k \in PageLinks : k # l => counters'[k] = counters[k] /\ missing'[k] = missing[k]
  BY <1>0, <1>4
<1>16. n \in Nat
  BY <1>3, PageSizesAreNumbers
<1>. QED BY <1>4, <1>5, <1>12, <1>14, <1>15, <1>16

LEMMA ArrivalSends ==
  ASSUME PageInv, NEW l, NEW orbit, NEW away, NEW flaw, NEW start,
         IsArrival(l, orbit, away, flaw, start)
  PROVE  /\ page.left = "nothing" /\ reading' = l /\ DOMAIN sending' = PageLinks
         /\ \A k \in PageLinks : k # l => sending'[k] = sending[k]
         /\ LinkSends(sending'[l]) /\ sending'[l].orbit = orbit /\ orbit \in Nat
         /\ sending'[l].pages = sending[l].pages + away + 1
         /\ flaws' = flaws + (IF away > 0 THEN 1 ELSE 0) + (IF flaw # "none" THEN 1 ELSE 0)
<1>0. /\ l \in PageLinks /\ DOMAIN sending = PageLinks /\ LinkSends(sending[l]) /\ away \in Nat
      /\ Arrives(l, orbit, away, flaw, start) /\ orbit \in {sending[l].orbit, sending[l].orbit + 1}
  BY LinksReadAreLinks DEF PageInv, PageTypeOK, IsArrival, ReadoutPage
<1>1. PICK q \in Nat, n \in Nat : q = sending[l].pages /\ n = away + 1
  BY <1>0 DEF LinkSends
<1>2. sending' = [sending EXCEPT ![l] =
           [orbit |-> orbit, pages |-> q + n, packet |-> (sending[l].packet + n) % PacketCounters,
            data |-> (sending[l].data + n) % DataCounters]]
  BY <1>0, <1>1 DEF Arrives
<1>3. /\ (sending[l].packet + n) % PacketCounters = (q + n) % PacketCounters
      /\ (sending[l].data + n) % DataCounters = (q + n) % DataCounters
  <2>1. ASSUME NEW m \in Nat \ {0} PROVE ((q % m) + n) % m = (q + n) % m
    BY CounterAdds
  <2>2. sending[l].packet = q % PacketCounters /\ sending[l].data = q % DataCounters
    BY <1>0, <1>1 DEF LinkSends
  <2>. QED BY <2>1, <2>2, PageSizesAreNumbers
<1>4. orbit \in Nat
  BY <1>0 DEF LinkSends
<1>5. sending'[l] = [orbit |-> orbit, pages |-> q + n, packet |-> (q + n) % PacketCounters,
                     data |-> (q + n) % DataCounters]
  BY <1>0, <1>2, <1>3
<1>6. LinkSends(sending'[l]) /\ sending'[l].orbit = orbit /\ sending'[l].pages = q + away + 1
  <2>1. q + n \in Nat /\ q + n = q + away + 1
    BY <1>0, <1>1
  <2>2. PICK s : s = sending'[l]
    OBVIOUS
  <2>3. /\ DOMAIN s = {"orbit", "pages", "packet", "data"} /\ s.orbit = orbit /\ s.pages = q + n
        /\ s.packet = (q + n) % PacketCounters /\ s.data = (q + n) % DataCounters
    BY <1>5, <2>2
  <2>. QED BY <1>4, <2>1, <2>2, <2>3 DEF LinkSends
<1>7. page.left = "nothing"
  BY DEF IsArrival
<1>8. reading' = l
  BY <1>0, Zenon DEF Arrives
<1>9. DOMAIN sending' = PageLinks /\ \A k \in PageLinks : k # l => sending'[k] = sending[k]
  BY <1>0, <1>2
<1>10. /\ sending'[l].pages = sending[l].pages + away + 1
       /\ flaws' = flaws + (IF away > 0 THEN 1 ELSE 0) + (IF flaw # "none" THEN 1 ELSE 0)
  BY <1>0, <1>1, <1>6, Zenon DEF Arrives
<1>. QED BY <1>4, <1>6, <1>7, <1>8, <1>9, <1>10

LEMMA PageFacts ==
  ASSUME PageInv
  PROVE  /\ setup.frequency \in Nat \ {0} /\ setup.sox \in {0, 1}
         /\ PacketCounters \in Nat \ {0} /\ DataCounters \in Nat \ {0} /\ Events \in Nat \ {0}
         /\ \A l \in PageLinks :
              /\ sending[l].pages \in Nat /\ sending[l].orbit \in Nat /\ missing[l] \in Nat
              /\ counters[l].event \in 0..Events /\ counters[l].packet \in Int
              /\ counters[l].data \in Int
BY PageSizesAreNumbers DEF PageInv, PageTypeOK, PageSetup, LinkSends, LinkCounts

LEMMA ArrivalType ==
  ASSUME PageInv, NEW l, NEW orbit, NEW away, NEW flaw, NEW start,
         IsArrival(l, orbit, away, flaw, start)
  PROVE  PageTypeOK'
<1>0. /\ PageTypeOK /\ l \in PageLinks /\ l \in LinksRead /\ start \in BOOLEAN /\ away \in Nat
  BY LinksReadAreLinks DEF PageInv, IsArrival
<1>1. PICK n, gone, packet, errors :
           /\ CountsAs(l, away, flaw, n, gone, packet, errors)
           /\ PageIs(l, orbit, away, flaw, start, n, gone, errors)
           /\ LinkCounts(counters'[l]) /\ n \in Nat
           /\ DOMAIN counters' = PageLinks /\ DOMAIN missing' = PageLinks
           /\ \A k \in PageLinks : k # l => counters'[k] = counters[k] /\ missing'[k] = missing[k]
           /\ UNCHANGED <<setup, nextFrame, guard, prevOrbit>>
  BY ArrivalCounts
<1>2. PageSetup' /\ LinksRead' = LinksRead
  BY <1>0, <1>1 DEF PageTypeOK, PageSetup, LinksRead
<1>3. gone \in Nat /\ missing'[l] \in Nat
  BY <1>0, <1>1, PageFacts DEF CountsAs
<1>4. orbit \in Nat
  BY ArrivalSends
<1>8. page'.data \in Nat
  <2>1. sending[l].data = sending[l].pages % DataCounters /\ sending[l].pages \in Nat
    BY <1>0 DEF PageTypeOK, LinkSends
  <2>2. sending[l].data \in Nat
    <3>1. PICK q \in Nat : q = sending[l].pages
      BY <2>1
    <3>2. q % DataCounters \in 0..(DataCounters - 1)
      BY PageSizesAreNumbers, Division
    <3>. QED BY <2>1, <3>1, <3>2
  <2>3. PICK x \in Nat : x = sending[l].data + away
    BY <1>0, <2>2
  <2>4. page'.data = x % DataCounters
    BY <1>1, <2>3 DEF PageIs
  <2>. QED BY <2>4, PageSizesAreNumbers, Division
<1>5. PageHead'
  BY <1>0, <1>1, <1>2, <1>3, <1>4, <1>8 DEF PageHead, PageIs, PageSteps
<1>6. ASSUME NEW k \in PageLinks
      PROVE  LinkSends(sending'[k]) /\ LinkCounts(counters'[k]) /\ missing'[k] \in Nat
  <2>1. CASE k = l
    BY <1>1, <1>3, <2>1, ArrivalSends
  <2>2. CASE k # l
    BY <1>0, <1>1, <2>2, ArrivalSends DEF PageTypeOK
  <2>. QED BY <2>1, <2>2
<1>7. flaws' \in Nat /\ DOMAIN sending' = PageLinks
  BY <1>0, ArrivalSends DEF PageTypeOK
<1>. QED BY <1>0, <1>1, <1>2, <1>5, <1>6, <1>7 DEF PageTypeOK, LinkSends, LinkCounts

LEMMA LinkKept ==
  ASSUME setup' = setup, NEW k \in PageLinks, LinkInv(k),
         sending'[k] = sending[k], counters'[k] = counters[k], missing'[k] = missing[k],
         page'.left \in AtCheck /\ page'.link = k => page.left \in AtCheck /\ page.link = k
  PROVE  LinkInv(k)'
BY DEF LinkInv, Internal, Whole, LastTaken, Since

(* The counter of the header, for a page of a link that was in step.       *)
LEMMA PacketCheck ==
  ASSUME PageInv, NEW l, NEW orbit, NEW away, NEW flaw, NEW start,
         IsArrival(l, orbit, away, flaw, start), ~Internal,
         counters[l].packet # Unset, Whole(l)',
         NEW n, n = ((counters[l].event + 1) % (Events + 1)) % Events
  PROVE  /\ n < Events /\ Since(l) \in Nat
         /\ LastTaken(l) >= 0 /\ counters[l].packet = LastTaken(l) % PacketCounters
         /\ n % setup.frequency # 0 => n % setup.frequency = Since(l) + 1
         /\ n % setup.frequency = 0 =>
              /\ Since(l) = setup.frequency - 1
              /\ PacketIsWrong(l, (sending[l].packet + away) % PacketCounters)
                    <=> (missing[l] + away) % PacketCounters # 0
<1>1. PICK f \in Nat \ {0}, q \in Nat, m \in Nat, e \in 0..Events, c \in Int :
        f = setup.frequency /\ q = sending[l].pages /\ m = missing[l] /\ e = counters[l].event
        /\ c = counters[l].packet
  BY LinksReadAreLinks, PageFacts DEF IsArrival
<1>2. /\ l \in PageLinks /\ LinkInv(l) /\ setup' = setup /\ away \in Nat
      /\ sending'[l].pages = q + away + 1
  <2>1. l \in PageLinks /\ LinkInv(l) /\ setup' = setup /\ away \in Nat
    BY LinksReadAreLinks DEF IsArrival, PageInv, ReadoutPage
  <2>. QED BY <1>1, <2>1, ArrivalSends
<1>3. Events % f = 0 \/ q + away + 1 <= Events
  BY <1>1, <1>2 DEF Whole
<1>4. Whole(l)
  BY <1>1, <1>2, <1>3, PageSizesAreNumbers DEF Whole
<1>5. /\ e < Events /\ e < q /\ Since(l) = e % f /\ e % f \in Nat
      /\ LastTaken(l) = q - 1 - m - (e % f)
      /\ LastTaken(l) >= 0 /\ c = LastTaken(l) % PacketCounters
  <2>1. e < Events /\ e < q /\ LastTaken(l) >= 0 /\ c = LastTaken(l) % PacketCounters
    BY <1>1, <1>2, <1>4, PageSizesAreNumbers DEF LinkInv
  <2>2. e \in Nat /\ e % f \in Nat
    BY PageSizesAreNumbers, Division
  <2>. QED BY <1>1, <2>1, <2>2 DEF LastTaken, Since
<1>6. /\ n \in 0..(Events - 1)
      /\ IF n % f = 0 THEN e % f = f - 1 ELSE n % f = (e % f) + 1
  <2>1. n = ((e + 1) % (Events + 1)) % Events
    BY <1>1
  <2>2. Events % f = 0 \/ e + 1 < Events
    BY <1>2, <1>3, <1>5, PageSizesAreNumbers
  <2>3. Events \in Nat \ {0}
    BY PageSizesAreNumbers
  <2>4. CountsOn(Events, f, e, n)
    BY <2>1, <2>3, EventCounts
  <2>. QED BY <1>5, <2>2, <2>4 DEF CountsOn
<1>7. ASSUME n % f = 0
      PROVE  (c + f) % PacketCounters # (sending[l].packet + away) % PacketCounters
               <=> (m + away) % PacketCounters # 0
  <2>1. PICK a \in Nat : a = LastTaken(l)
    BY <1>5
  <2>2. q = a + f + m /\ c = a % PacketCounters
    BY <1>5, <1>6, <1>7, <2>1
  <2>3. ((a % PacketCounters) + f) % PacketCounters # (q + away) % PacketCounters
          <=> (m + away) % PacketCounters # 0
    <3>1. IsWrongIfMissing(PacketCounters, f, q, m, away, a)
      BY <1>2, <2>2, PacketsCount, PageSizesAreNumbers
    <3>. QED BY <3>1 DEF IsWrongIfMissing
  <2>4. (sending[l].packet + away) % PacketCounters = (q + away) % PacketCounters
    <3>1. sending[l].packet = q % PacketCounters
      BY <1>1, <1>2 DEF PageInv, PageTypeOK, LinkSends
    <3>2. ((q % PacketCounters) + away) % PacketCounters = (q + away) % PacketCounters
      BY <1>2, CounterAdds, PageSizesAreNumbers, ZenonT(40)
    <3>. QED BY <3>1, <3>2
  <2>. QED BY <2>2, <2>3, <2>4
<1>8. n < Events
  BY <1>6, PageSizesAreNumbers
<1>9. ASSUME n % f = 0
      PROVE  PacketIsWrong(l, (sending[l].packet + away) % PacketCounters)
               <=> (m + away) % PacketCounters # 0
  BY <1>1, <1>7, <1>9 DEF PacketIsWrong
<1>. QED BY <1>1, <1>5, <1>6, <1>8, <1>9

LEMMA ArrivalLinks ==
  ASSUME PageInv, NEW l, NEW orbit, NEW away, NEW flaw, NEW start,
         IsArrival(l, orbit, away, flaw, start)
  PROVE  \A k \in PageLinks : LinkInv(k)'
<1>0. l \in PageLinks /\ away \in Nat /\ \A k \in PageLinks : LinkInv(k)
  BY LinksReadAreLinks DEF PageInv, IsArrival
<1>1. PICK n, gone, packet, errors :
           /\ CountsAs(l, away, flaw, n, gone, packet, errors)
           /\ PageIs(l, orbit, away, flaw, start, n, gone, errors)
           /\ LinkCounts(counters'[l]) /\ n \in Nat
           /\ DOMAIN counters' = PageLinks /\ DOMAIN missing' = PageLinks
           /\ \A k \in PageLinks : k # l => counters'[k] = counters[k] /\ missing'[k] = missing[k]
           /\ UNCHANGED <<setup, nextFrame, guard, prevOrbit>>
  BY ArrivalCounts
<1>2. ASSUME NEW k \in PageLinks, k # l PROVE LinkInv(k)'
  <2>1. sending'[k] = sending[k] /\ page'.link = l
    BY <1>1, <1>2, ArrivalSends DEF PageIs
  <2>. QED BY <1>0, <1>1, <1>2, <2>1, LinkKept
<1>3. PICK f \in Nat \ {0}, q \in Nat, m \in Nat, e \in 0..Events :
        f = setup.frequency /\ q = sending[l].pages /\ m = missing[l] /\ e = counters[l].event
  BY <1>0, PageFacts
<1>4. sending'[l].pages = q + away + 1 /\ counters'[l].event = n
  BY <1>1, <1>3, ArrivalSends DEF CountsAs
<1>5. n < sending'[l].pages
  <2>1. n = ((e + 1) % (Events + 1)) % Events /\ Events \in Nat \ {0}
    BY <1>1, <1>3, PageSizesAreNumbers DEF CountsAs
  <2>4. CountsOn(Events, f, e, n)
    BY <2>1, EventCounts
  <2>2. (e = Events => n = 0) /\ (e < Events => n <= e + 1)
    BY <2>4 DEF CountsOn
  <2>3. e # Events => e < q
    BY <1>0, <1>3 DEF LinkInv
  <2>. QED BY <1>0, <1>1, <1>3, <1>4, <2>1, <2>2, <2>3
<1>6. Internal' <=> Internal
  BY <1>1 DEF Internal
<1>7. Since(l)' = n % f
  BY <1>1, <1>3, <1>4 DEF Since
<1>8. ASSUME ~Internal, counters'[l].packet # Unset, Whole(l)'
      PROVE  /\ n < Events
             /\ LastTaken(l)' >= 0 /\ counters'[l].packet = LastTaken(l)' % PacketCounters
  <2>0. LastTaken(l)' = q + away - missing'[l] - (n % f)
    <3>1. n % f \in Nat /\ missing'[l] \in Nat
      <4>1. missing'[l] \in Nat
        BY <1>0, ArrivalType DEF PageTypeOK
      <4>2. n % f \in 0..(f - 1)
        BY <1>1, Division
      <4>. QED BY <4>1, <4>2
    <3>. QED BY <1>0, <1>3, <1>4, <1>7, <3>1 DEF LastTaken
  <2>1. CASE n % f = 0 /\ errors = {}
    <3>1. /\ counters'[l].packet = (sending[l].packet + away) % PacketCounters /\ missing'[l] = 0
      BY <1>1, <1>3, <1>8, <2>1 DEF CountsAs
    <3>2. LastTaken(l)' = q + away
      BY <1>0, <1>3, <2>0, <2>1, <3>1
    <3>3. sending[l].packet = q % PacketCounters
      BY <1>0, <1>3 DEF PageInv, PageTypeOK, LinkSends
    <3>4. ((q % PacketCounters) + away) % PacketCounters = (q + away) % PacketCounters
      BY <1>0, CounterAdds, PageSizesAreNumbers, ZenonT(40)
    <3>5. n < Events
      <4>1. n = ((e + 1) % (Events + 1)) % Events /\ Events \in Nat \ {0}
        BY <1>1, <1>3, PageSizesAreNumbers DEF CountsAs
      <4>3. CountsOn(Events, f, e, n)
        BY <4>1, EventCounts
      <4>2. n \in 0..(Events - 1)
        BY <4>3 DEF CountsOn
      <4>. QED BY <4>1, <4>2
    <3>. QED BY <1>0, <1>3, <3>1, <3>2, <3>3, <3>4, <3>5
  <2>2. CASE ~(n % f = 0 /\ errors = {})
    <3>1. counters'[l].packet = counters[l].packet /\ counters[l].packet # Unset
      BY <1>1, <1>3, <1>8, <2>2 DEF CountsAs
    <3>2. gone = m + away
      BY <1>1, <1>3, <1>8, <3>1 DEF CountsAs, InSync
    <3>3. /\ n < Events /\ Since(l) \in Nat
          /\ LastTaken(l) >= 0 /\ counters[l].packet = LastTaken(l) % PacketCounters
          /\ n % f # 0 => n % f = Since(l) + 1
          /\ n % f = 0 => Since(l) = f - 1
      <4>1. n = ((counters[l].event + 1) % (Events + 1)) % Events
        BY <1>1 DEF CountsAs
      <4>. QED BY <1>3, <1>8, <3>1, <4>1, PacketCheck
    <3>4. LastTaken(l) = q - 1 - m - Since(l)
      BY <1>3 DEF LastTaken
    <3>5. LastTaken(l)' = LastTaken(l)
      <4>1. CASE n % f # 0
        <5>1. missing'[l] = m + away
          BY <1>1, <1>3, <3>2, <4>1 DEF CountsAs
        <5>. QED BY <1>0, <1>3, <2>0, <3>3, <3>4, <4>1, <5>1
      <4>2. CASE n % f = 0
        <5>1. missing'[l] = m + away + f
          <6>1. errors # {} /\ ~setup.resync
            BY <1>1, <1>3, <1>8, <2>2, <4>2 DEF CountsAs
          <6>. QED BY <1>1, <1>3, <1>8, <3>2, <4>2, <6>1 DEF CountsAs
        <5>. QED BY <1>0, <1>3, <2>0, <3>3, <3>4, <4>2, <5>1
      <4>. QED BY <4>1, <4>2
    <3>. QED BY <3>1, <3>3, <3>5
  <2>. QED BY <2>1, <2>2
<1>9. ASSUME ~Internal, page'.left \in AtCheck
      PROVE  missing'[l] = 0 /\ n % f = 0
  <2>1. n % f = 0 /\ errors = {}
    BY <1>1, <1>3, <1>9 DEF PageIs, AtCheck
  <2>. QED BY <1>1, <1>3, <1>9, <2>1 DEF CountsAs
<1>10. LinkInv(l)'
  BY <1>4, <1>5, <1>6, <1>7, <1>8, <1>9 DEF LinkInv
<1>. QED BY <1>2, <1>10

LEMMA ArrivalData ==
  ASSUME PageInv, NEW l, NEW orbit, NEW away, NEW flaw, NEW start,
         IsArrival(l, orbit, away, flaw, start)
  PROVE  DataInv'
<1>0. l \in PageLinks /\ away \in Nat /\ DataInv /\ page.left = "nothing"
  BY LinksReadAreLinks, ArrivalSends DEF PageInv, IsArrival
<1>1. PICK n, gone, packet, errors :
           /\ CountsAs(l, away, flaw, n, gone, packet, errors)
           /\ PageIs(l, orbit, away, flaw, start, n, gone, errors)
           /\ LinkCounts(counters'[l]) /\ n \in Nat
           /\ DOMAIN counters' = PageLinks /\ DOMAIN missing' = PageLinks
           /\ \A k \in PageLinks : k # l => counters'[k] = counters[k] /\ missing'[k] = missing[k]
           /\ UNCHANGED <<setup, nextFrame, guard, prevOrbit>>
  BY ArrivalCounts
<1>2. Internal' <=> Internal
  BY <1>1 DEF Internal
<1>. SUFFICES ASSUME Internal, setup.frequency = 1
              PROVE  /\ \A k \in PageLinks : counters'[k].data # DataUnset => DataCount(k)'
                     /\ page'.data = (sending'[page'.link].pages - 1) % DataCounters
                     /\ page'.missing = missing'[page'.link]
                     /\ sending'[page'.link].pages >= 1
                     /\ counters'[page'.link].data = DataUnset => page'.missing = 0
  BY <1>1, <1>2 DEF DataInv
<1>3. PICK q \in Nat, m \in Nat : q = sending[l].pages /\ m = missing[l]
  BY <1>0, PageFacts
<1>4. n % setup.frequency = 0 /\ errors = {}
  <2>1. n % 1 \in 0..0
    BY <1>1, Division
  <2>. QED BY <1>1, <2>1 DEF CountsAs, HeaderErrors
<1>5. /\ page'.left = "data" /\ page'.link = l /\ page'.missing = gone /\ missing'[l] = gone
      /\ counters'[l].data = counters[l].data
      /\ page'.data = (sending[l].data + away) % DataCounters
  BY <1>1, <1>4 DEF CountsAs, PageIs
<1>6. sending'[l].pages = q + away + 1
  BY <1>3, ArrivalSends
<1>7. page'.data = (q + away) % DataCounters
  <2>1. sending[l].data = q % DataCounters
    BY <1>0, <1>3 DEF PageInv, PageTypeOK, LinkSends
  <2>2. ((q % DataCounters) + away) % DataCounters = (q + away) % DataCounters
    BY <1>0, CounterAdds, PageSizesAreNumbers, ZenonT(40)
  <2>. QED BY <1>5, <2>1, <2>2
<1>8. ASSUME NEW k \in PageLinks, k # l, counters'[k].data # DataUnset PROVE DataCount(k)'
  <2>1. /\ counters'[k] = counters[k] /\ missing'[k] = missing[k] /\ sending'[k] = sending[k]
        /\ page'.link # k /\ DataCount(k)
    BY <1>0, <1>1, <1>5, <1>8, ArrivalSends DEF DataInv
  <2>. QED BY <1>0, <2>1 DEF DataCount
<1>9. ASSUME counters'[l].data # DataUnset PROVE DataCount(l)'
  <2>1. gone = m + away
    BY <1>1, <1>3, <1>5, <1>9 DEF CountsAs, InSync
  <2>2. q - 1 - m >= 0 /\ counters[l].data = (q - 1 - m) % DataCounters
    <3>1. DataCount(l)
      BY <1>0, <1>5, <1>9 DEF DataInv
    <3>2. q - 1 - m - 0 = q - 1 - m
      OBVIOUS
    <3>. QED BY <1>0, <1>3, <3>1, <3>2 DEF DataCount
  <2>3. sending'[l].pages - 1 - missing'[l] - 1 = q - 1 - m
    BY <1>0, <1>3, <1>5, <1>6, <2>1
  <2>. QED BY <1>5, <2>2, <2>3 DEF DataCount
<1>10. counters'[l].data = DataUnset => gone = 0
  BY <1>1, <1>5 DEF CountsAs, InSync
<1>11. sending'[l].pages - 1 = q + away /\ sending'[l].pages >= 1
  BY <1>0, <1>3, <1>6
<1>. QED BY <1>5, <1>7, <1>8, <1>9, <1>10, <1>11

LEMMA ArrivalTold ==
  ASSUME PageInv, NEW l, NEW orbit, NEW away, NEW flaw, NEW start,
         IsArrival(l, orbit, away, flaw, start)
  PROVE  ToldInv'
<1>0. l \in PageLinks /\ away \in Nat
  BY LinksReadAreLinks DEF IsArrival
<1>1. PICK n, gone, packet, errors :
           /\ CountsAs(l, away, flaw, n, gone, packet, errors)
           /\ PageIs(l, orbit, away, flaw, start, n, gone, errors)
           /\ LinkCounts(counters'[l]) /\ n \in Nat
           /\ DOMAIN counters' = PageLinks /\ DOMAIN missing' = PageLinks
           /\ \A k \in PageLinks : k # l => counters'[k] = counters[k] /\ missing'[k] = missing[k]
           /\ UNCHANGED <<setup, nextFrame, guard, prevOrbit>>
  BY ArrivalCounts
<1>2. (Internal' <=> Internal) /\ setup' = setup
  BY <1>1 DEF Internal
<1>3. ~CounterWraps' => Whole(l)'
  <2>1. sending'[l].pages \in Nat
    BY ArrivalSends DEF LinkSends
  <2>2. sending'[l].pages \in PagesSent'
    BY <1>0 DEF PagesSent
  <2>3. ~CounterWraps' => Events % setup'.frequency = 0 \/ ~(sending'[l].pages > Events)
    BY <2>2, Zenon DEF CounterWraps
  <2>. QED BY <2>1, <2>3, PageSizesAreNumbers DEF Whole
<1>4. n = ((counters[l].event + 1) % (Events + 1)) % Events
  BY <1>1 DEF CountsAs
<1>5. PICK m \in Nat : m = missing[l] /\ gone = IF InSync(l) THEN m + away ELSE 0
  BY <1>0, <1>1, PageFacts DEF CountsAs
<1>6. 0 % PacketCounters = 0
  BY RemainderOfLess, PageSizesAreNumbers
<1>7. n % setup.frequency = 0 => errors = HeaderErrors(l, packet, flaw)
  BY <1>1 DEF CountsAs
<1>8. errors # {} => n % setup.frequency = 0 /\ ~Internal
  BY <1>1 DEF CountsAs, HeaderErrors
<1>9. errors \subseteq {"size", "packet"} /\ errorsTold' = errors
  BY <1>1 DEF CountsAs, HeaderErrors
<1>10. "size" \in errors => flaw \in {"short", "large"}
  BY <1>7, <1>8 DEF HeaderErrors, SizeIsWrong
<1>11. ASSUME "packet" \in errors, ~CounterWraps' PROVE gone # 0
  <2>1. n % setup.frequency = 0 /\ ~Internal /\ PacketIsWrong(l, packet)
    BY <1>7, <1>8, <1>11 DEF HeaderErrors
  <2>2. counters[l].packet # Unset
    BY <2>1 DEF PacketIsWrong
  <2>3. packet = (sending[l].packet + away) % PacketCounters
    BY <1>1 DEF CountsAs
  <2>4. (m + away) % PacketCounters # 0
    BY <1>3, <1>4, <1>5, <1>11, <2>1, <2>2, <2>3, PacketCheck
  <2>5. gone = m + away
    BY <1>5, <2>1, <2>2 DEF InSync
  <2>. QED BY <1>6, <2>4, <2>5
<1>12. ASSUME page'.checked = TRUE, gone % PacketCounters # 0, ~Internal, ~CounterWraps'
       PROVE  EndsCheck \cap errors # {}
  <2>1. n % setup.frequency = 0
    BY <1>1, <1>12 DEF PageIs
  <2>2. gone = m + away /\ counters[l].packet # Unset
    BY <1>5, <1>6, <1>12 DEF InSync
  <2>3. packet = (sending[l].packet + away) % PacketCounters
    BY <1>1 DEF CountsAs
  <2>4. PacketIsWrong(l, packet)
    BY <1>3, <1>4, <1>5, <1>12, <2>1, <2>2, <2>3, PacketCheck
  <2>. QED BY <1>7, <1>12, <2>1, <2>4 DEF HeaderErrors, EndsCheck
<1>13. /\ page'.flaw = flaw /\ page'.missing = gone
       /\ page'.checked = TRUE <=> n % setup.frequency = 0
       /\ page'.left = IF n % setup.frequency # 0 \/ errors # {} THEN "nothing"
                       ELSE IF Internal THEN "data" ELSE "frame"
  BY <1>1 DEF PageIs
<1>14. OnlyRealErrors'
  BY <1>9, <1>10, <1>11, <1>13 DEF OnlyRealErrors
<1>15. HeaderTold'
  <2>. SUFFICES ASSUME page'.checked = TRUE
                PROVE  /\ flaw = "large" /\ ~Internal => "size" \in errors
                       /\ flaw = "short" /\ setup.source \in {"ddg", "fee"} => "size" \in errors
                       /\ gone % PacketCounters # 0 /\ ~Internal /\ ~CounterWraps'
                            => EndsCheck \cap errors # {}
    BY <1>2, <1>9, <1>13 DEF HeaderTold
  <2>1. errors = HeaderErrors(l, packet, flaw)
    BY <1>7, <1>13
  <2>2. flaw = "large" /\ ~Internal => "size" \in errors
    BY <2>1 DEF HeaderErrors, SizeIsWrong
  <2>3. flaw = "short" /\ setup.source \in {"ddg", "fee"} => "size" \in errors
    BY <2>1 DEF HeaderErrors, SizeIsWrong, Internal
  <2>. QED BY <1>12, <2>2, <2>3
<1>16. DataTold'
  <2>1. errors # {} => EndsCheck \cap errors # {}
    BY <1>9 DEF EndsCheck
  <2>. QED BY <1>2, <1>8, <1>9, <1>13, <2>1 DEF DataTold, EndsCheck
<1>. QED BY <1>2, <1>13, <1>14, <1>15, <1>16 DEF ToldInv

LEMMA ArrivalSent ==
  ASSUME PageInv, NEW l, NEW orbit, NEW away, NEW flaw, NEW start,
         IsArrival(l, orbit, away, flaw, start)
  PROVE  SentInv'
<1>0. l \in PageLinks /\ l \in LinksRead /\ away \in Nat /\ SentInv
  BY LinksReadAreLinks DEF IsArrival, PageInv
<1>1. PICK n, gone, packet, errors :
           /\ CountsAs(l, away, flaw, n, gone, packet, errors)
           /\ PageIs(l, orbit, away, flaw, start, n, gone, errors)
           /\ LinkCounts(counters'[l]) /\ n \in Nat
           /\ DOMAIN counters' = PageLinks /\ DOMAIN missing' = PageLinks
           /\ \A k \in PageLinks : k # l => counters'[k] = counters[k] /\ missing'[k] = missing[k]
           /\ UNCHANGED <<setup, nextFrame, guard, prevOrbit>>
  BY ArrivalCounts
<1>2. setup' = setup /\ LinksRead' = LinksRead /\ reading' = l /\ l # Unset
  BY <1>0, <1>1, ArrivalSends, PageSizesAreNumbers DEF LinksRead, Unset
<1>3. orbit <= LastOrbit /\ (setup.sox = 1 /\ sending[l].pages = 0 => orbit = 1)
  BY DEF IsArrival, ReadoutPage, Arrives
<1>4. sending'[l].orbit = orbit /\ sending'[l].pages # 0 /\ setup.sox <= orbit
  <2>1. sending'[l].pages = sending[l].pages + away + 1 /\ sending[l].pages \in Nat
    BY <1>0, ArrivalSends, PageFacts
  <2>2. setup.sox <= sending[l].orbit /\ sending[l].orbit \in Nat /\ setup.sox \in {0, 1}
    BY <1>0, PageFacts DEF SentInv
  <2>3. orbit \in {sending[l].orbit, sending[l].orbit + 1}
    BY DEF IsArrival
  <2>. QED BY <1>0, <2>1, <2>2, <2>3, ArrivalSends
<1>5. ASSUME NEW k \in PageLinks
      PROVE  /\ setup.sox <= sending'[k].orbit
             /\ sending'[k].pages = 0 \/ reading' = Unset =>
                  sending'[k].orbit = setup.sox /\ sending'[k].pages = 0
  <2>1. CASE k = l
    BY <1>2, <1>4, <2>1
  <2>2. CASE k # l
    BY <1>0, <1>2, <2>2, ArrivalSends DEF SentInv
  <2>. QED BY <2>1, <2>2
<1>6. page'.link = l /\ page'.orbit = orbit /\ (page'.sox = TRUE <=> setup.sox = 1 /\ sending[l].pages = 0)
  BY <1>1 DEF PageIs
<1>. QED BY <1>0, <1>2, <1>3, <1>4, <1>5, <1>6 DEF SentInv
-----------------------------------------------------------------------------
(* Time frames, and those that were passed.                                *)
LEMMA Products ==
  ASSUME NEW m \in Nat \ {0}, NEW a \in Nat, NEW b \in Nat
  PROVE  (a <= b => a * m <= b * m) /\ (a < b => a * m + m <= b * m)
<1>1. ASSUME a <= b PROVE a * m <= b * m
  <2>1. PICK d \in Nat : b = a + d
    BY <1>1
  <2>2. b * m = a * m + d * m /\ d * m \in Nat /\ a * m \in Nat
    BY <2>1
  <2>. PICK x \in Nat, y \in Nat : x = a * m /\ y = d * m
    OBVIOUS
  <2>. QED BY <2>2
<1>2. ASSUME a < b PROVE a * m + m <= b * m
  <2>1. PICK d \in Nat : b = a + 1 + d
    BY <1>2
  <2>2. b * m = a * m + m + d * m /\ d * m \in Nat /\ a * m \in Nat
    BY <2>1
  <2>. PICK x \in Nat, y \in Nat : x = a * m /\ y = d * m
    OBVIOUS
  <2>. QED BY <2>2
<1>. QED BY <1>1, <1>2

LEMMA FrameIs ==
  ASSUME PageInv, NEW orbit \in Nat, setup.sox <= orbit
  PROVE  \E t \in Nat, r \in 0..(FrameLength - 1) :
           Frame(orbit) = t /\ orbit = setup.sox + t * FrameLength + r
<1>1. PICK m \in Nat \ {0}, s \in {0, 1} : m = FrameLength /\ s = setup.sox
  BY PageFacts, PageSizesAreNumbers
<1>2. PICK n \in Nat : n = orbit - s
  BY <1>1
<1>3. n \div m \in Nat /\ n % m \in 0..(m - 1) /\ n = m * (n \div m) + (n % m)
  OBVIOUS
<1>4. PICK t \in Nat, r \in 0..(m - 1) : t = n \div m /\ r = n % m
  BY <1>3
<1>5. Frame(orbit) = t
  BY <1>1, <1>2, <1>4 DEF Frame
<1>6. n = m * t + r /\ m * t = t * m
  BY <1>3, <1>4
<1>. PICK x \in Nat : x = t * m
  OBVIOUS
<1>7. orbit = s + x + r
  BY <1>1, <1>2, <1>6
<1>. QED BY <1>1, <1>5, <1>7

LEMMA FrameGrows ==
  ASSUME PageInv, NEW o1 \in Nat, NEW o2 \in Nat, setup.sox <= o1, o1 <= o2
  PROVE  Frame(o1) <= Frame(o2)
<1>0. setup.sox \in {0, 1} /\ FrameLength \in Nat \ {0}
  BY PageFacts, PageSizesAreNumbers
<1>1. PICK t1 \in Nat, r1 \in 0..(FrameLength - 1) :
        Frame(o1) = t1 /\ o1 = setup.sox + t1 * FrameLength + r1
  BY FrameIs
<1>2. PICK t2 \in Nat, r2 \in 0..(FrameLength - 1) :
        Frame(o2) = t2 /\ o2 = setup.sox + t2 * FrameLength + r2
  <2>1. setup.sox <= o2
    BY <1>0
  <2>. QED BY <2>1, FrameIs
<1>3. t2 < t1 => t2 * FrameLength + FrameLength <= t1 * FrameLength
  BY <1>0, Products
<1>. PICK x \in Nat, y \in Nat : x = t1 * FrameLength /\ y = t2 * FrameLength
  BY <1>0
<1>4. ~(t2 < t1)
  BY <1>0, <1>1, <1>2, <1>3
<1>. QED BY <1>1, <1>2, <1>4

(* No time frame begins between two pages of the same one.                 *)
LEMMA SameFrame ==
  ASSUME PageInv, NEW o1 \in Nat, NEW o2 \in Nat, setup.sox <= o1, setup.sox <= o2,
         Frame(o1) = Frame(o2), NEW next \in Nat, FrameStarts(next), next > o1
  PROVE  next > o2
<1>0. setup.sox \in {0, 1} /\ FrameLength \in Nat \ {0}
  BY PageFacts, PageSizesAreNumbers
<1>1. PICK t1 \in Nat, r1 \in 0..(FrameLength - 1) :
        Frame(o1) = t1 /\ o1 = setup.sox + t1 * FrameLength + r1
  BY FrameIs
<1>2. PICK t2 \in Nat, r2 \in 0..(FrameLength - 1) :
        Frame(o2) = t2 /\ o2 = setup.sox + t2 * FrameLength + r2
  BY FrameIs
<1>3. PICK k \in Nat : next = setup.sox + k * FrameLength
  BY DEF FrameStarts
<1>4. (k <= t1 => k * FrameLength <= t1 * FrameLength)
      /\ (t1 < k => t1 * FrameLength + FrameLength <= k * FrameLength)
  BY <1>0, Products
<1>. PICK x \in Nat, y \in Nat : x = t1 * FrameLength /\ y = k * FrameLength
  BY <1>0
<1>5. t1 < k
  BY <1>0, <1>1, <1>3, <1>4
<1>6. o2 = setup.sox + x + r2 /\ x + FrameLength <= y /\ next = setup.sox + y
  BY <1>1, <1>2, <1>3, <1>4, <1>5
<1>. QED BY <1>0, <1>6

(* A page of a later frame than those of all links is past the next one.   *)
LEMMA LaterFrame ==
  ASSUME PageInv, NEW orbit \in Nat, setup.sox <= orbit, NEW next \in Nat, Passed(next),
         \A k \in PageLinks : Frame(orbit) > Frame(sending[k].orbit)
  PROVE  orbit >= next
<1>0. setup.sox \in {0, 1} /\ FrameLength \in Nat \ {0}
  BY PageFacts, PageSizesAreNumbers
<1>1. PICK t \in Nat, r \in 0..(FrameLength - 1) :
        Frame(orbit) = t /\ orbit = setup.sox + t * FrameLength + r
  BY FrameIs
<1>2. PICK k \in PageLinks : next <= setup.sox + FrameLength * (Frame(sending[k].orbit) + 1)
  BY DEF Passed
<1>3. sending[k].orbit \in Nat /\ setup.sox <= sending[k].orbit
  BY PageFacts DEF PageInv, SentInv
<1>4. PICK t2 \in Nat : Frame(sending[k].orbit) = t2 /\ t2 < t
  BY <1>1, <1>3, FrameIs
<1>5. PICK t3 \in Nat : t3 = t2 + 1 /\ t3 <= t
  BY <1>4
<1>6. t3 * FrameLength <= t * FrameLength
  BY <1>0, <1>5, Products
<1>7. FrameLength * (Frame(sending[k].orbit) + 1) = t3 * FrameLength
  BY <1>0, <1>4, <1>5
<1>. PICK x \in Nat, y \in Nat : x = t * FrameLength /\ y = t3 * FrameLength
  BY <1>0
<1>. QED BY <1>0, <1>1, <1>2, <1>6, <1>7

LEMMA PassedStays ==
  ASSUME PageInv, setup' = setup, NEW next \in Nat, Passed(next),
         \A k \in PageLinks : sending'[k].orbit \in Nat /\ sending[k].orbit <= sending'[k].orbit
  PROVE  Passed(next)'
<1>0. setup.sox \in {0, 1} /\ FrameLength \in Nat \ {0}
  BY PageFacts, PageSizesAreNumbers
<1>1. PICK k \in PageLinks : next <= setup.sox + FrameLength * (Frame(sending[k].orbit) + 1)
  BY DEF Passed
<1>2. PICK o1 \in Nat, o2 \in Nat : o1 = sending[k].orbit /\ o2 = sending'[k].orbit /\ o1 <= o2
                                  /\ setup.sox <= o1
  BY PageFacts DEF PageInv, SentInv
<1>3. Frame(o1) <= Frame(o2)
  BY <1>2, FrameGrows
<1>4. PICK t1 \in Nat, t2 \in Nat : t1 = Frame(o1) /\ t2 = Frame(o2) /\ t1 <= t2
  <2>1. setup.sox <= o2
    BY <1>0, <1>2
  <2>. QED BY <1>2, <1>3, <2>1, FrameIs
<1>5. PICK t3 \in Nat, t4 \in Nat : t3 = t1 + 1 /\ t4 = t2 + 1 /\ t3 <= t4
  BY <1>4
<1>6. t3 * FrameLength <= t4 * FrameLength
  BY <1>0, <1>5, Products
<1>7. FrameLength * (t1 + 1) = t3 * FrameLength /\ FrameLength * (t2 + 1) = t4 * FrameLength
  BY <1>0, <1>5
<1>. PICK x \in Nat, y \in Nat : x = t3 * FrameLength /\ y = t4 * FrameLength
  BY <1>0
<1>8. next <= setup.sox + x
  BY <1>1, <1>2, <1>4, <1>7
<1>9. next <= setup.sox + y
  BY <1>0, <1>6, <1>8
<1>10. Frame(sending[k].orbit)' = t2
  <2>1. Frame(sending[k].orbit)' = Frame(o2)
    BY <1>2 DEF Frame
  <2>. QED BY <1>4, <2>1
<1>11. next <= setup'.sox + FrameLength * (Frame(sending[k].orbit)' + 1)
  BY <1>7, <1>9, <1>10
<1>. QED BY <1>11 DEF Passed

LEMMA ArrivalFrames ==
  ASSUME PageInv, NEW l, NEW orbit, NEW away, NEW flaw, NEW start,
         IsArrival(l, orbit, away, flaw, start)
  PROVE  FrameInv' /\ LateInv'
<1>0. /\ l \in PageLinks /\ away \in Nat /\ SentInv /\ FrameInv /\ page.left = "nothing"
      /\ start \in BOOLEAN /\ l \in LinksRead /\ flaws \in Nat /\ nextFrame \in Nat
      /\ orbit \in {sending[l].orbit, sending[l].orbit + 1} /\ l # Unset
  <2>1. /\ l \in PageLinks /\ away \in Nat /\ start \in BOOLEAN /\ l \in LinksRead
        /\ orbit \in {sending[l].orbit, sending[l].orbit + 1}
    BY LinksReadAreLinks DEF IsArrival
  <2>2. SentInv /\ FrameInv /\ flaws \in Nat /\ nextFrame \in Nat
    BY DEF PageInv, PageTypeOK
  <2>3. page.left = "nothing"
    BY ArrivalSends
  <2>4. l # Unset
    BY <2>1, PageSizesAreNumbers DEF Unset
  <2>. QED BY <2>1, <2>2, <2>3, <2>4
<1>1. PICK n, gone, packet, errors :
           /\ CountsAs(l, away, flaw, n, gone, packet, errors)
           /\ PageIs(l, orbit, away, flaw, start, n, gone, errors)
           /\ LinkCounts(counters'[l]) /\ n \in Nat
           /\ DOMAIN counters' = PageLinks /\ DOMAIN missing' = PageLinks
           /\ \A k \in PageLinks : k # l => counters'[k] = counters[k] /\ missing'[k] = missing[k]
           /\ UNCHANGED <<setup, nextFrame, guard, prevOrbit>>
  BY ArrivalCounts
<1>2. (Internal' <=> Internal) /\ setup' = setup /\ nextFrame' = nextFrame /\ reading' = l
  BY <1>1, ArrivalSends DEF Internal
<1>3. flaws' = flaws + (IF away > 0 THEN 1 ELSE 0) + (IF flaw # "none" THEN 1 ELSE 0)
  BY ArrivalSends
<1>4. /\ l # reading => start
      /\ setup.sox = 1 /\ sending[l].pages = 0 => orbit = 1
      /\ flaw # "late" => (Frame(orbit) # Frame(sending[l].orbit) \/ sending[l].pages = 0 => start)
      /\ flaw = "late" => Frame(orbit) # Frame(sending[l].orbit) /\ ~start
  BY DEF IsArrival, ReadoutPage, Arrives
<1>5. /\ page'.link = l /\ page'.orbit = orbit /\ page'.start = start /\ page'.flaw = flaw
      /\ page'.sox \in BOOLEAN
      /\ page'.sox = TRUE <=> setup.sox = 1 /\ sending[l].pages = 0
      /\ page'.leads = TRUE <=> \A k \in PageLinks : Frame(orbit) > Frame(sending[k].orbit)
      /\ page'.left = IF n % setup.frequency # 0 \/ errors # {} THEN "nothing"
                      ELSE IF Internal THEN "data" ELSE "frame"
  BY <1>1 DEF PageIs
<1>6. /\ sending[l].orbit \in Nat /\ orbit \in Nat /\ setup.sox <= sending[l].orbit /\ setup.sox <= orbit
      /\ setup.sox \in {0, 1}
  <2>1. sending[l].orbit \in Nat /\ setup.sox \in {0, 1} /\ setup.sox <= sending[l].orbit
    BY <1>0, PageFacts DEF SentInv
  <2>. QED BY <1>0, <2>1
(* Nothing was wrong before: the header of a page in time or late is good. *)
<1>7. ASSUME setup.frequency = 1, ~Internal, flaws = 0, away = 0, flaw \in {"none", "late"}
      PROVE  page'.left = "frame" /\ \A k \in PageLinks : missing'[k] = 0
  <2>1. \A k \in PageLinks : missing[k] = 0
    BY <1>0, <1>7 DEF FrameInv
  <2>2. n % setup.frequency = 0 /\ Events % setup.frequency = 0
    <3>1. n % 1 \in 0..0 /\ Events % 1 \in 0..0
      BY <1>1, Division, PageSizesAreNumbers
    <3>. QED BY <1>7, <3>1
  <2>3. packet = (sending[l].packet + away) % PacketCounters
        /\ n = ((counters[l].event + 1) % (Events + 1)) % Events
    BY <1>1 DEF CountsAs
  <2>4. ~PacketIsWrong(l, packet)
    <3>. SUFFICES ASSUME PacketIsWrong(l, packet) PROVE FALSE
      OBVIOUS
    <3>1. counters[l].packet # Unset
      BY DEF PacketIsWrong
    <3>2. Whole(l)'
      BY <1>2, <2>2 DEF Whole
    <3>3. (missing[l] + away) % PacketCounters # 0
      BY <1>7, <2>2, <2>3, <3>1, <3>2, PacketCheck
    <3>4. 0 % PacketCounters = 0
      BY RemainderOfLess, PageSizesAreNumbers
    <3>. QED BY <1>0, <1>7, <2>1, <3>3, <3>4
  <2>5. errors = {}
    BY <1>1, <1>7, <2>2, <2>4 DEF CountsAs, HeaderErrors, SizeIsWrong
  <2>6. missing'[l] = 0
    BY <1>1, <1>7, <2>2, <2>5 DEF CountsAs
  <2>. QED BY <1>1, <1>5, <1>7, <2>1, <2>2, <2>5, <2>6
<1>8. ASSUME setup.frequency = 1, ~Internal, flaws' = 0 PROVE
       /\ nextFrame <= LastOrbit + FrameLength
       /\ \A k \in PageLinks : missing'[k] = 0
       /\ page'.left = "frame"
       /\ page'.sox = TRUE \/ (FrameStarts(nextFrame)' /\ Passed(nextFrame)')
       /\ start = TRUE \/ page'.sox = TRUE \/ nextFrame > orbit
  <2>1. flaws = 0 /\ away = 0 /\ flaw = "none"
    BY <1>0, <1>3, <1>8
  <2>2. nextFrame <= LastOrbit + FrameLength /\ (reading = Unset => nextFrame = 0)
        /\ (reading # Unset => FrameStarts(nextFrame) /\ nextFrame > sending[reading].orbit
                               /\ Passed(nextFrame))
    BY <1>0, <1>8, <2>1 DEF FrameInv
  <2>3. CASE reading = Unset
    <3>1. sending[l].pages = 0 /\ start /\ nextFrame = 0
      BY <1>0, <1>4, <2>2, <2>3 DEF SentInv
    <3>2. CASE setup.sox = 1
      BY <1>5, <1>7, <1>8, <2>1, <2>2, <3>1, <3>2
    <3>3. CASE setup.sox = 0
      <4>1. FrameStarts(nextFrame)'
        <5>1. 0 = setup'.sox + 0 * FrameLength /\ nextFrame' = 0
          BY <1>2, <3>1, <3>3, PageSizesAreNumbers
        <5>. QED BY <5>1 DEF FrameStarts
      <4>2. Passed(nextFrame)'
        <5>1. PICK t \in Nat : t = Frame(orbit)
          BY <1>6, FrameIs
        <5>2. Frame(sending[l].orbit)' = t
          <6>1. Frame(orbit)' = Frame(orbit)
            BY <1>2 DEF Frame
          <6>2. sending'[l].orbit = orbit
            BY ArrivalSends
          <6>. QED BY <1>2, <5>1, <6>2 DEF Frame
        <5>3. FrameLength * (t + 1) \in Nat
          BY PageSizesAreNumbers
        <5>4. nextFrame' <= setup'.sox + FrameLength * (Frame(sending[l].orbit)' + 1)
          BY <1>2, <3>1, <3>3, <5>2, <5>3
        <5>. QED BY <1>0, <5>4 DEF Passed
      <4>. QED BY <1>0, <1>7, <1>8, <2>1, <2>2, <3>1, <4>1, <4>2
    <3>. QED BY <1>6, <3>2, <3>3
  <2>4. CASE reading # Unset
    <3>1. FrameStarts(nextFrame)'
      BY <1>2, <2>2, <2>4 DEF FrameStarts
    <3>2. Passed(nextFrame)'
      <4>1. ASSUME NEW k \in PageLinks
            PROVE  sending'[k].orbit \in Nat /\ sending[k].orbit <= sending'[k].orbit
        <5>1. CASE k = l
          BY <1>0, <1>6, <5>1, ArrivalSends
        <5>2. CASE k # l
          <6>1. sending'[k] = sending[k] /\ sending[k].orbit \in Nat
            BY <5>2, ArrivalSends, PageFacts
          <6>. QED BY <6>1
        <5>. QED BY <5>1, <5>2
      <4>2. PICK next \in Nat : next = nextFrame
        BY <1>0
      <4>3. Passed(next)'
        BY <1>2, <2>2, <2>4, <4>1, <4>2, PassedStays
      <4>. QED BY <1>2, <4>2, <4>3 DEF Passed
    <3>3. ASSUME start # TRUE PROVE nextFrame > orbit
      <4>1. l = reading /\ Frame(orbit) = Frame(sending[l].orbit)
        BY <1>0, <1>4, <2>1, <3>3
      <4>. QED BY <1>0, <1>6, <2>2, <2>4, <4>1, SameFrame
    <3>. QED BY <1>7, <1>8, <2>1, <2>2, <3>1, <3>2, <3>3
  <2>. QED BY <2>3, <2>4
<1>9. FrameInv'
  BY <1>0, <1>2, <1>5, <1>8 DEF FrameInv
<1>10. ASSUME flaw = "late", page'.leads = TRUE, flaws' = 1, setup.frequency = 1, ~Internal
       PROVE  page'.left = "frame" /\ start = FALSE /\ page'.sox = FALSE /\ orbit >= nextFrame
  <2>1. flaws = 0 /\ away = 0
    BY <1>0, <1>3, <1>10
  <2>2. page'.left = "frame" /\ start = FALSE
    BY <1>0, <1>4, <1>7, <1>10, <2>1
  <2>3. page'.sox = FALSE
    <3>. SUFFICES ASSUME page'.sox = TRUE PROVE FALSE
      BY <1>5
    <3>1. setup.sox = 1 /\ sending[l].pages = 0
      BY <1>5
    <3>2. orbit = 1 /\ sending[l].orbit = 1
      BY <1>0, <1>4, <3>1 DEF SentInv
    <3>. QED BY <1>4, <1>10, <3>2
  <2>4. orbit >= nextFrame
    <3>1. CASE reading = Unset
      BY <1>0, <1>6, <1>10, <2>1, <3>1 DEF FrameInv
    <3>2. CASE reading # Unset
      <4>1. Passed(nextFrame)
        BY <1>0, <1>10, <2>1, <3>2 DEF FrameInv
      <4>2. \A k \in PageLinks : Frame(orbit) > Frame(sending[k].orbit)
        BY <1>5, <1>10
      <4>. QED BY <1>0, <1>6, <4>1, <4>2, LaterFrame
    <3>. QED BY <3>1, <3>2
  <2>. QED BY <2>2, <2>3, <2>4
<1>11. LateInv'
  BY <1>2, <1>5, <1>10 DEF LateInv
<1>. QED BY <1>9, <1>11

LEMMA ArrivalKeeps ==
  ASSUME PageInv, NEW l, NEW orbit, NEW away, NEW flaw, NEW start,
         IsArrival(l, orbit, away, flaw, start)
  PROVE  PageInv'
<1>1. PageTypeOK' /\ SentInv' /\ DataInv' /\ ToldInv' /\ FrameInv' /\ LateInv'
  BY ArrivalType, ArrivalSent, ArrivalData, ArrivalTold, ArrivalFrames
<1>2. \A k \in PageLinks : LinkInv(k)'
  BY ArrivalLinks
<1>. QED BY <1>1, <1>2 DEF PageInv
-----------------------------------------------------------------------------
(* A step of the check of a page: of the page only what is left to check   *)
(* changes.                                                                *)
SamePage ==
  /\ setup' = setup /\ sending' = sending /\ reading' = reading /\ flaws' = flaws
  /\ DOMAIN page' = DOMAIN page
  /\ page'.checked = page.checked /\ page'.link = page.link /\ page'.orbit = page.orbit
  /\ page'.start = page.start /\ page'.sox = page.sox /\ page'.flaw = page.flaw
  /\ page'.data = page.data /\ page'.missing = page.missing /\ page'.leads = page.leads

LEMMA SamePageKeeps ==
  ASSUME PageInv, SamePage, page.left # "nothing", page'.left \in PageSteps
  PROVE  /\ PageSetup' /\ PageHead' /\ SentInv'
         /\ (Internal' <=> Internal) /\ (CounterWraps' <=> CounterWraps)
         /\ \A orbit : (FrameStarts(orbit)' <=> FrameStarts(orbit)) /\ (Passed(orbit)' <=> Passed(orbit))
<1>. USE DEF SamePage
<1>1. PageSetup' /\ PageHead'
  BY DEF PageInv, PageTypeOK, PageSetup, PageHead, LinksRead
<1>2. (Internal' <=> Internal) /\ (CounterWraps' <=> CounterWraps)
  BY DEF Internal, CounterWraps, PagesSent
<1>3. \A orbit : Frame(orbit)' = Frame(orbit)
  BY DEF Frame
<1>4. ASSUME NEW orbit
      PROVE  (FrameStarts(orbit)' <=> FrameStarts(orbit)) /\ (Passed(orbit)' <=> Passed(orbit))
  <2>1. FrameStarts(orbit)' <=> FrameStarts(orbit)
    BY DEF FrameStarts
  <2>2. \A k : Frame(sending[k].orbit)' = Frame(sending[k].orbit)
    BY DEF Frame
  <2>3. Passed(orbit)' <=> Passed(orbit)
    BY <2>2 DEF Passed
  <2>. QED BY <2>1, <2>3
<1>5. SentInv'
  BY DEF PageInv, SentInv, LinksRead
<1>. QED BY <1>1, <1>2, <1>4, <1>5

LEMMA PagePart ==
  ASSUME PageInv
  PROVE  /\ PageSetup /\ PageHead /\ DOMAIN sending = PageLinks /\ DOMAIN counters = PageLinks
         /\ DOMAIN missing = PageLinks /\ nextFrame \in Nat /\ guard = FALSE /\ flaws \in Nat
         /\ \A l \in PageLinks :
              /\ LinkSends(sending[l]) /\ LinkCounts(counters[l]) /\ missing[l] \in Nat
              /\ LinkInv(l)
         /\ SentInv /\ DataInv /\ OnlyRealErrors /\ HeaderTold /\ DataTold /\ FrameInv /\ LateInv
         /\ page.left \in {"frame", "frames"} => ~Internal
BY DEF PageInv, PageTypeOK, ToldInv

LEMMA CheckFrameKeeps ==
  ASSUME PageInv, CheckFrame
  PROVE  PageInv'
<1>0. /\ PageHead /\ page.left = "frame" /\ ~Internal /\ guard = FALSE /\ nextFrame \in Nat
      /\ SentInv /\ OnlyRealErrors /\ HeaderTold /\ FrameInv /\ LateInv
      /\ PageSetup /\ page.orbit \in Nat /\ page.orbit <= LastOrbit
  BY PagePart DEF CheckFrame, PageHead, SentInv
<1>a. PICK begins \in {"yes", "no"} : begins = "yes" <=> page.sox # TRUE /\ page.orbit >= nextFrame
  OBVIOUS
<1>b. PICK step : step = IF begins = "yes" /\ page.start = TRUE THEN "frames" ELSE AfterFrame
  OBVIOUS
<1>1. /\ begins = "yes" <=> page.sox # TRUE /\ page.orbit >= nextFrame
      /\ step = IF begins = "yes" /\ page.start = TRUE THEN "frames" ELSE AfterFrame
  BY <1>a, <1>b
<1>2. Guarded = FALSE
  BY <1>0 DEF Guarded
<1>3. /\ guard' = FALSE
      /\ errorsTold' = IF begins = "yes" /\ page.start # TRUE THEN errorsTold \cup {"frame"} ELSE errorsTold
      /\ page' = [page EXCEPT !.left = step]
      /\ nextFrame' = IF page.sox = TRUE THEN (page.orbit + FrameLength) % Orbits ELSE nextFrame
      /\ UNCHANGED <<setup, sending, reading, counters, flaws, missing>>
  <2>1. page.sox \in BOOLEAN /\ page.start \in BOOLEAN
    BY <1>0 DEF PageHead
  <2>. QED BY <1>1, <1>2, <2>1 DEF CheckFrame
<1>4. step \in {"frames", "nothing", "data"}
  BY <1>1 DEF AfterFrame
<1>5. SamePage /\ page'.left = step
  <2>1. "left" \in DOMAIN page
    BY <1>0 DEF PageHead, NoPage
  <2>. QED BY <1>3, <2>1 DEF SamePage
<1>6. /\ PageSetup' /\ PageHead' /\ SentInv'
      /\ (Internal' <=> Internal) /\ (CounterWraps' <=> CounterWraps)
      /\ \A orbit : (FrameStarts(orbit)' <=> FrameStarts(orbit)) /\ (Passed(orbit)' <=> Passed(orbit))
  BY <1>0, <1>4, <1>5, SamePageKeeps DEF PageSteps
<1>7. page.sox = TRUE => nextFrame' = page.orbit + FrameLength
  <2>1. PICK x \in Nat, m \in Nat \ {0} : x = page.orbit + FrameLength /\ m = Orbits /\ x < m
    BY <1>0, PageSizesAreNumbers
  <2>2. x % m = x
    BY <2>1, RemainderOfLess
  <2>. QED BY <1>3, <2>1, <2>2
<1>8. nextFrame' \in Nat
  BY <1>0, <1>3, <1>7, PageSizesAreNumbers
<1>9. PageTypeOK'
  <2>1. \A l \in PageLinks : (LinkSends(sending[l]) /\ LinkCounts(counters[l]) /\ missing[l] \in Nat)'
    BY <1>3, PagePart DEF LinkSends, LinkCounts
  <2>2. DOMAIN sending' = PageLinks /\ DOMAIN counters' = PageLinks /\ DOMAIN missing' = PageLinks
        /\ flaws' \in Nat
    BY <1>3, PagePart
  <2>. QED BY <1>3, <1>6, <1>8, <2>1, <2>2 DEF PageTypeOK
<1>10. \A k \in PageLinks : LinkInv(k)'
  BY <1>0, <1>3, <1>5, PagePart, LinkKept DEF SamePage, AtCheck
<1>11. DataInv'
  BY <1>0, <1>6 DEF DataInv
(* A frame that begins in a superpage when nothing was wrong               *)
<1>12. setup.frequency = 1 /\ flaws = 0 => ~(begins = "yes" /\ page.start # TRUE)
  <2>. SUFFICES ASSUME setup.frequency = 1, flaws = 0, begins = "yes", page.start # TRUE PROVE FALSE
    OBVIOUS
  <2>1. nextFrame > page.orbit
    BY <1>0, <1>1 DEF FrameInv
  <2>. QED BY <1>0, <1>1, <2>1
<1>13. ToldInv'
  <2>1. setup.frequency \in Nat \ {0} /\ flaws \in Nat
    BY PageFacts, PagePart
  <2>2. "frame" \in errorsTold' => flaws > 0 \/ setup.frequency > 1
    <3>1. CASE begins = "yes" /\ page.start # TRUE
      <4>1. setup.frequency # 1 \/ flaws # 0
        BY <1>12, <3>1, Zenon
      <4>. QED BY <2>1, <4>1
    <3>2. CASE ~(begins = "yes" /\ page.start # TRUE)
      BY <1>0, <1>3, <3>2 DEF OnlyRealErrors
    <3>. QED BY <3>1, <3>2
  <2>3. \A e : e # "frame" => (e \in errorsTold' <=> e \in errorsTold)
    BY <1>3
  <2>4. OnlyRealErrors'
    BY <1>0, <1>3, <1>5, <1>6, <2>2, <2>3 DEF OnlyRealErrors, SamePage
  <2>5. HeaderTold'
    BY <1>0, <1>3, <1>5, <1>6 DEF HeaderTold, SamePage
  <2>6. page'.left = "nothing" => setup.source = "fee"
    BY <1>1, <1>5 DEF AfterFrame
  <2>7. DataTold'
    BY <1>0, <1>3, <1>6, <2>6 DEF DataTold
  <2>. QED BY <1>0, <1>6, <2>4, <2>5, <2>7 DEF ToldInv
<1>14. FrameInv'
  <2>. SUFFICES ASSUME setup.frequency = 1, flaws = 0
                PROVE  /\ nextFrame' <= LastOrbit + FrameLength
                       /\ \A l \in PageLinks : missing'[l] = 0
                       /\ FrameStarts(nextFrame)' /\ Passed(nextFrame)'
                       /\ page'.left # "frames" => nextFrame' > page.orbit
    <3>1. reading # Unset /\ page.orbit = sending[reading].orbit
      BY <1>0, LinksReadAreLinks, PageSizesAreNumbers DEF SentInv, PageHead, Unset
    <3>. QED BY <1>0, <1>3, <1>4, <1>5, <3>1 DEF FrameInv
  <2>1. nextFrame <= LastOrbit + FrameLength /\ \A l \in PageLinks : missing[l] = 0
    BY <1>0 DEF FrameInv
  <2>2. CASE page.sox = TRUE
    <3>1. setup.sox = 1 /\ page.orbit = 1 /\ nextFrame' = 1 + FrameLength
      BY <1>0, <1>7, <2>2 DEF SentInv
    <3>2. FrameStarts(nextFrame')
      <4>1. nextFrame' = setup.sox + 1 * FrameLength
        BY <3>1, PageSizesAreNumbers
      <4>. QED BY <4>1 DEF FrameStarts
    <3>3. Passed(nextFrame')
      <4>1. PICK k \in PageLinks : k = page.link /\ sending[k].orbit = 1
        BY <1>0, <3>1, LinksReadAreLinks DEF SentInv, PageHead
      <4>2. PICK t \in Nat, r \in 0..(FrameLength - 1) : Frame(1) = t /\ 1 = setup.sox + t * FrameLength + r
        BY <3>1, FrameIs
      <4>3. PICK x \in Nat : x = t * FrameLength
        BY PageSizesAreNumbers
      <4>4. FrameLength * (t + 1) = x + FrameLength
        BY <4>3, PageSizesAreNumbers
      <4>5. nextFrame' <= setup.sox + FrameLength * (Frame(sending[k].orbit) + 1)
        BY <3>1, <4>1, <4>2, <4>4, PageSizesAreNumbers
      <4>. QED BY <4>5 DEF Passed
    <3>4. FrameStarts(nextFrame)' /\ Passed(nextFrame)'
      BY <1>3, <3>2, <3>3 DEF FrameStarts, Passed, Frame
    <3>. QED BY <1>0, <1>3, <2>1, <3>1, <3>4, PageSizesAreNumbers
  <2>3. CASE page.sox # TRUE
    <3>1. nextFrame' = nextFrame /\ FrameStarts(nextFrame) /\ Passed(nextFrame)
      BY <1>0, <1>3, <2>3 DEF FrameInv
    <3>2. FrameStarts(nextFrame)' /\ Passed(nextFrame)'
      BY <1>3, <3>1 DEF FrameStarts, Passed, Frame
    <3>3. page'.left # "frames" => nextFrame > page.orbit
      <4>. SUFFICES ASSUME page'.left # "frames" PROVE nextFrame > page.orbit
        OBVIOUS
      <4>1. begins # "yes" \/ page.start # TRUE
        BY <1>1, <1>5
      <4>2. begins # "yes"
        BY <1>12, <4>1, Zenon
      <4>3. ~(page.orbit >= nextFrame)
        BY <1>1, <2>3, <4>2
      <4>. QED BY <1>0, <4>3
    <3>. QED BY <1>3, <2>1, <3>1, <3>2, <3>3
  <2>. QED BY <2>2, <2>3
<1>15. LateInv'
  <2>. SUFFICES ASSUME page.checked = TRUE, page.flaw = "late", page.leads = TRUE, flaws = 1,
                       setup.frequency = 1
                PROVE  "frame" \in errorsTold'
    BY <1>3, <1>4, <1>5, <1>6 DEF LateInv, SamePage
  <2>1. page.start = FALSE /\ page.sox = FALSE /\ page.orbit >= nextFrame
    BY <1>0 DEF LateInv
  <2>. QED BY <1>1, <1>3, <2>1
<1>. QED BY <1>6, <1>9, <1>10, <1>11, <1>13, <1>14, <1>15 DEF PageInv

(* The frames up to the orbit of a page: the last of them may be the       *)
(* page's.                                                                 *)
LEMMA FrameFollows ==
  ASSUME PageInv, page.left = "frames", FrameStarts(nextFrame), nextFrame <= page.orbit
  PROVE  FrameStarts(nextFrame + FrameLength) /\ Passed(nextFrame + FrameLength)
<1>0. FrameLength \in Nat \ {0} /\ setup.sox \in {0, 1}
  BY PageFacts, PageSizesAreNumbers
<1>1. PICK k \in Nat : nextFrame = setup.sox + k * FrameLength
  BY DEF FrameStarts
<1>2. PICK l \in PageLinks : l = page.link /\ page.orbit = sending[l].orbit
                          /\ page.orbit \in Nat /\ setup.sox <= page.orbit
  BY PagePart, LinksReadAreLinks DEF SentInv, PageHead
<1>3. PICK t \in Nat, r \in 0..(FrameLength - 1) :
        Frame(page.orbit) = t /\ page.orbit = setup.sox + t * FrameLength + r
  BY <1>2, FrameIs
<1>4. t < k => t * FrameLength + FrameLength <= k * FrameLength
  BY <1>0, Products
<1>. PICK x \in Nat, y \in Nat : x = t * FrameLength /\ y = k * FrameLength
  BY <1>0
<1>5. k <= t
  BY <1>0, <1>1, <1>3, <1>4
<1>6. y <= x
  BY <1>0, <1>5, Products
<1>. PICK k1 \in Nat : k1 = k + 1
  OBVIOUS
<1>7. k1 * FrameLength = y + FrameLength /\ FrameLength * (t + 1) = x + FrameLength
  BY <1>0
<1>8. nextFrame + FrameLength = setup.sox + k1 * FrameLength
  BY <1>0, <1>1, <1>7
<1>9. nextFrame + FrameLength <= setup.sox + FrameLength * (Frame(sending[l].orbit) + 1)
  BY <1>0, <1>1, <1>2, <1>3, <1>6, <1>7
<1>. QED BY <1>8, <1>9 DEF FrameStarts, Passed

LEMMA NextFrameKeeps ==
  ASSUME PageInv, NextFrame
  PROVE  PageInv'
<1>0. /\ PageHead /\ page.left = "frames" /\ ~Internal /\ guard = FALSE /\ nextFrame \in Nat
      /\ SentInv /\ OnlyRealErrors /\ HeaderTold /\ FrameInv /\ LateInv
      /\ PageSetup /\ page.orbit \in Nat /\ page.orbit <= LastOrbit
  BY PagePart DEF NextFrame, PageHead, SentInv
<1>1. /\ guard' = FALSE /\ nextFrame' \in Nat
      /\ UNCHANGED <<setup, sending, reading, counters, flaws, missing, errorsTold>>
      /\ \/ nextFrame <= page.orbit /\ nextFrame' = nextFrame + FrameLength /\ page' = page
         \/ ~(nextFrame <= page.orbit) /\ nextFrame' = nextFrame /\ page' = [page EXCEPT !.left = AfterFrame]
  <2>1. CASE nextFrame <= page.orbit
    <3>1. PICK x \in Nat, m \in Nat \ {0} : x = nextFrame + FrameLength /\ m = Orbits /\ x < m
      BY <1>0, <2>1, PageSizesAreNumbers
    <3>2. x % m = x
      BY <3>1, RemainderOfLess
    <3>3. nextFrame' = x /\ guard' = (x >= m) /\ page' = page
      BY <2>1, <3>1, <3>2 DEF NextFrame
    <3>4. guard' = FALSE
      <4>1. ~(x >= m)
        BY <3>1
      <4>2. (x >= m) \in BOOLEAN
        OBVIOUS
      <4>. QED BY <3>3, <4>1, <4>2, Zenon
    <3>. QED BY <2>1, <3>1, <3>3, <3>4 DEF NextFrame
  <2>2. CASE ~(nextFrame <= page.orbit)
    BY <1>0, <2>2 DEF NextFrame
  <2>. QED BY <2>1, <2>2
<1>2. page'.left \in {"frames", "nothing", "data"} /\ SamePage
      /\ page'.left = IF nextFrame <= page.orbit THEN "frames" ELSE AfterFrame
  <2>1. DOMAIN page = DOMAIN NoPage
    BY <1>0 DEF PageHead
  <2>. QED BY <1>0, <1>1, <2>1 DEF SamePage, AfterFrame, NoPage
<1>3. /\ PageSetup' /\ PageHead' /\ SentInv'
      /\ (Internal' <=> Internal) /\ (CounterWraps' <=> CounterWraps)
      /\ \A orbit : (FrameStarts(orbit)' <=> FrameStarts(orbit)) /\ (Passed(orbit)' <=> Passed(orbit))
  BY <1>0, <1>2, SamePageKeeps DEF PageSteps
<1>4. PageTypeOK'
  <2>1. \A l \in PageLinks : (LinkSends(sending[l]) /\ LinkCounts(counters[l]) /\ missing[l] \in Nat)'
    BY <1>1, PagePart DEF LinkSends, LinkCounts
  <2>2. DOMAIN sending' = PageLinks /\ DOMAIN counters' = PageLinks /\ DOMAIN missing' = PageLinks
        /\ flaws' \in Nat
    BY <1>1, PagePart
  <2>. QED BY <1>1, <1>3, <2>1, <2>2 DEF PageTypeOK
<1>5. \A k \in PageLinks : LinkInv(k)'
  BY <1>0, <1>1, <1>2, PagePart, LinkKept DEF SamePage, AtCheck
<1>6. DataInv'
  BY <1>0, <1>3 DEF DataInv
<1>7. ToldInv'
  <2>1. OnlyRealErrors' /\ HeaderTold'
    BY <1>0, <1>1, <1>2, <1>3 DEF OnlyRealErrors, HeaderTold, SamePage
  <2>2. page'.left = "nothing" => setup.source = "fee"
    BY <1>2 DEF AfterFrame
  <2>3. DataTold'
    BY <1>0, <1>1, <1>3, <2>2 DEF DataTold
  <2>. QED BY <1>0, <1>3, <2>1, <2>3 DEF ToldInv
<1>8. FrameInv'
  <2>. SUFFICES ASSUME setup.frequency = 1, flaws = 0
                PROVE  /\ nextFrame' <= LastOrbit + FrameLength
                       /\ \A l \in PageLinks : missing'[l] = 0
                       /\ FrameStarts(nextFrame)' /\ Passed(nextFrame)'
                       /\ page'.left # "frames" => nextFrame' > page.orbit
    <3>1. reading # Unset /\ page.orbit = sending[reading].orbit
      BY <1>0, LinksReadAreLinks, PageSizesAreNumbers DEF SentInv, PageHead, Unset
    <3>. QED BY <1>0, <1>1, <1>2, <3>1 DEF FrameInv
  <2>1. /\ nextFrame <= LastOrbit + FrameLength /\ \A l \in PageLinks : missing[l] = 0
        /\ FrameStarts(nextFrame) /\ Passed(nextFrame)
    BY <1>0 DEF FrameInv
  <2>2. FrameStarts(nextFrame') /\ Passed(nextFrame')
    <3>1. CASE nextFrame <= page.orbit
      BY <1>0, <1>1, <2>1, <3>1, FrameFollows
    <3>2. CASE ~(nextFrame <= page.orbit)
      BY <1>1, <2>1, <3>2
    <3>. QED BY <3>1, <3>2
  <2>3. FrameStarts(nextFrame)' /\ Passed(nextFrame)'
    BY <1>1, <2>2 DEF FrameStarts, Passed, Frame
  <2>4. nextFrame' <= LastOrbit + FrameLength
    BY <1>0, <1>1, <2>1, PageSizesAreNumbers
  <2>5. page'.left # "frames" => nextFrame' > page.orbit
    BY <1>0, <1>1, <1>2
  <2>. QED BY <1>1, <2>1, <2>3, <2>4, <2>5
<1>9. LateInv'
  BY <1>0, <1>1, <1>2, <1>3 DEF LateInv, SamePage
<1>. QED BY <1>3, <1>4, <1>5, <1>6, <1>7, <1>8, <1>9 DEF PageInv

(* The counter of the data continues from page to page: a page is not the  *)
(* next one if pages are missing.                                          *)
LEMMA DataCheck ==
  ASSUME PageInv, page.left = "data", Internal, setup.frequency = 1,
         NEW l \in PageLinks, l = page.link
  PROVE  /\ page.data # Continued(l) <=> page.missing % DataCounters # 0
         /\ counters[l].data = DataUnset => page.missing = 0
         /\ missing[l] = page.missing
         /\ counters[l].data # DataUnset =>
              /\ sending[l].pages - 1 - missing[l] >= 0
              /\ Continued(l) = (sending[l].pages - 1 - missing[l]) % DataCounters
         /\ page.data = (sending[l].pages - 1) % DataCounters /\ sending[l].pages >= 1
<1>0. DataInv
  BY PagePart
<1>1. PICK q \in Nat, m \in Nat, D \in Nat \ {0} :
        q = sending[l].pages /\ m = missing[l] /\ D = DataCounters
  BY PageFacts
<1>2. /\ page.data = (q - 1) % D /\ page.missing = m /\ q >= 1
      /\ counters[l].data = DataUnset => m = 0
  BY <1>0, <1>1 DEF DataInv
<1>3. 0 % D = 0
  BY RemainderOfLess
<1>4. CASE counters[l].data = DataUnset
  BY <1>1, <1>2, <1>3, <1>4 DEF Continued
<1>5. CASE counters[l].data # DataUnset
  <2>1. q - 1 - m - 1 >= 0 /\ counters[l].data = (q - 1 - m - 1) % D
    BY <1>0, <1>1, <1>5 DEF DataInv, DataCount
  <2>2. PICK b \in Nat, a \in Nat : b = q - 1 - m - 1 /\ a = b + 1
    BY <2>1
  <2>3. Continued(l) = ((b % D) + 1) % D
    BY <1>1, <1>5, <2>1, <2>2 DEF Continued
  <2>4. ((b % D) + 1) % D = a % D
    <3>1. PICK one \in Nat : one = 1
      OBVIOUS
    <3>2. ((b % D) + one) % D = (b + one) % D
      BY CounterAdds
    <3>. QED BY <2>2, <3>1, <3>2
  <2>5. (a + m) % D = a % D <=> m % D = 0
    BY CounterAdds
  <2>6. a + m = q - 1 /\ a = q - 1 - m
    BY <2>2
  <2>. QED BY <1>1, <1>2, <1>5, <2>3, <2>4, <2>5, <2>6
<1>. QED BY <1>4, <1>5

LEMMA CheckDataKeeps ==
  ASSUME PageInv, CheckData
  PROVE  PageInv'
<1>0. /\ PageHead /\ page.left = "data" /\ guard = FALSE /\ nextFrame \in Nat
      /\ SentInv /\ OnlyRealErrors /\ HeaderTold /\ FrameInv /\ LateInv /\ DataInv
      /\ PageSetup /\ page.checked = TRUE /\ page.data \in Nat /\ page.missing \in Nat
  BY PagePart DEF CheckData, PageHead
<1>1. PICK l \in PageLinks : l = page.link
  BY <1>0, LinksReadAreLinks DEF PageHead
<1>2. PICK expected : expected = IF Internal THEN Continued(l) ELSE page.data
  OBVIOUS
<1>3. PICK wrong \in {"yes", "no"} : wrong = "yes" <=> page.data # expected \/ page.flaw = "data"
  OBVIOUS
<1>4. PICK d : d = [counters[l] EXCEPT !.data = IF Internal THEN expected
                                              ELSE (page.data + 1) % DataCounters]
  OBVIOUS
<1>5. /\ errorsTold' = IF wrong = "yes" THEN errorsTold \cup {"data"} ELSE errorsTold
      /\ counters' = [counters EXCEPT ![l] = IF wrong = "yes" THEN Forgotten(d) ELSE d]
      /\ missing' = IF wrong # "yes" \/ setup.resync THEN [missing EXCEPT ![l] = 0] ELSE missing
      /\ page' = [page EXCEPT !.left = IF RunsOff THEN "all" ELSE "nothing"]
      /\ UNCHANGED <<setup, sending, reading, nextFrame, guard, prevOrbit, flaws>>
  BY <1>1, <1>2, <1>3, <1>4 DEF CheckData, OwnFirstWord
<1>6. SamePage /\ page'.left \in {"all", "nothing"} /\ (page'.left = "all" => ~Internal)
  <2>1. DOMAIN page = DOMAIN NoPage
    BY <1>0 DEF PageHead
  <2>2. RunsOff => ~Internal
    BY DEF RunsOff, Internal
  <2>. QED BY <1>5, <2>1, <2>2 DEF SamePage, NoPage
<1>7. /\ PageSetup' /\ PageHead' /\ SentInv'
      /\ (Internal' <=> Internal) /\ (CounterWraps' <=> CounterWraps)
      /\ \A orbit : (FrameStarts(orbit)' <=> FrameStarts(orbit)) /\ (Passed(orbit)' <=> Passed(orbit))
  BY <1>0, <1>6, SamePageKeeps DEF PageSteps
<1>8. PICK c : /\ c = counters[l] /\ DOMAIN c = {"event", "packet", "data"} /\ c.event \in 0..Events
              /\ c.packet \in Int /\ c.data \in Int
  BY PagePart DEF LinkCounts
<1>9. expected \in Nat /\ (IF Internal THEN expected ELSE (page.data + 1) % DataCounters) \in Int
  <2>1. PICK x \in Nat : x = page.data + 1
    BY <1>0
  <2>2. x % DataCounters \in Nat
    BY PageSizesAreNumbers, Division
  <2>3. Internal => Continued(l) \in Nat
    <3>1. PICK y \in Int : y = c.data + 1
      BY <1>8
    <3>2. y % DataCounters \in Nat
      BY PageSizesAreNumbers
    <3>. QED BY <1>0, <1>8, <3>1, <3>2 DEF Continued
  <2>. QED BY <1>0, <1>2, <2>1, <2>2, <2>3
<1>10. /\ DOMAIN d = {"event", "packet", "data"} /\ d.event = c.event /\ d.packet = c.packet
       /\ d.data = IF Internal THEN expected ELSE (page.data + 1) % DataCounters
  BY <1>4, <1>8
<1>11. /\ DOMAIN counters' = PageLinks /\ \A k \in PageLinks : k # l => counters'[k] = counters[k]
       /\ counters'[l] = IF wrong = "yes" THEN Forgotten(d) ELSE d
  BY <1>5, PagePart
<1>12. /\ DOMAIN counters'[l] = {"event", "packet", "data"} /\ counters'[l].event = c.event
       /\ counters'[l].packet = IF wrong = "yes" /\ setup.resync THEN Unset ELSE c.packet
       /\ counters'[l].data = IF wrong = "yes" /\ setup.resync THEN DataUnset ELSE d.data
  BY <1>10, <1>11 DEF Forgotten
<1>13. /\ DOMAIN missing' = PageLinks /\ \A k \in PageLinks : k # l => missing'[k] = missing[k]
       /\ missing'[l] = IF wrong # "yes" \/ setup.resync THEN 0 ELSE missing[l]
  BY <1>5, PagePart
<1>14. PageTypeOK'
  <2>1. LinkCounts(counters'[l])
    BY <1>8, <1>9, <1>10, <1>12, PageSizesAreNumbers DEF LinkCounts, Unset, DataUnset
  <2>2. \A k \in PageLinks : (LinkSends(sending[k]) /\ LinkCounts(counters[k]) /\ missing[k] \in Nat)'
    <3>1. \A k \in PageLinks : LinkSends(sending[k]) /\ LinkCounts(counters[k]) /\ missing[k] \in Nat
      BY PagePart
    <3>2. \A k \in PageLinks : LinkCounts(counters'[k]) /\ missing'[k] \in Nat
      BY <1>11, <1>13, <2>1, <3>1
    <3>. QED BY <1>5, <3>1, <3>2 DEF LinkSends, LinkCounts
  <2>3. DOMAIN sending' = PageLinks /\ flaws' \in Nat /\ nextFrame' \in Nat /\ guard' = FALSE
    BY <1>0, <1>5, PagePart
  <2>. QED BY <1>7, <1>11, <1>13, <2>2, <2>3 DEF PageTypeOK
<1>15. ASSUME NEW k \in PageLinks PROVE LinkInv(k)'
  <2>1. CASE k # l
    BY <1>1, <1>5, <1>6, <1>11, <1>13, <2>1, PagePart, LinkKept DEF AtCheck, SamePage
  <2>2. CASE k = l
    <3>1. LinkInv(l) /\ page'.left \notin AtCheck
      BY <1>6, PagePart DEF AtCheck
    <3>2. ~Internal => missing'[l] = missing[l]
      BY <1>0, <1>1, <1>13, <3>1 DEF LinkInv, AtCheck
    <3>3. Since(l)' = Since(l) /\ (Whole(l)' <=> Whole(l))
      BY <1>5, <1>8, <1>12 DEF Since, Whole
    <3>4. ~Internal => LastTaken(l)' = LastTaken(l)
      BY <1>5, <3>2, <3>3 DEF LastTaken
    <3>5. counters'[l].packet # Unset => counters'[l].packet = counters[l].packet
      BY <1>8, <1>12
    <3>6. counters'[l].event = counters[l].event /\ sending'[l] = sending[l]
      BY <1>5, <1>8, <1>12
    <3>. QED BY <1>7, <2>2, <3>1, <3>3, <3>4, <3>5, <3>6 DEF LinkInv
  <2>. QED BY <2>1, <2>2
<1>16. DataInv'
  <2>. SUFFICES ASSUME Internal, setup.frequency = 1, page'.left = "nothing"
                PROVE  \A k \in PageLinks : counters'[k].data # DataUnset => DataCount(k)'
    BY <1>5, <1>6, <1>7 DEF DataInv
  <2>1. ASSUME NEW k \in PageLinks, k # l, counters'[k].data # DataUnset PROVE DataCount(k)'
    <3>1. DataCount(k) /\ counters'[k] = counters[k] /\ missing'[k] = missing[k] /\ sending' = sending
      BY <1>0, <1>5, <1>11, <1>13, <2>1 DEF DataInv
    <3>. QED BY <1>1, <2>1, <3>1 DEF DataCount
  <2>2. ASSUME counters'[l].data # DataUnset PROVE DataCount(l)'
    <3>1. PICK q \in Nat, m \in Nat : q = sending[l].pages /\ m = missing[l] /\ q >= 1
      BY <1>0, <1>1, PageFacts, DataCheck
    <3>2. counters'[l].data = expected /\ expected = Continued(l)
      BY <1>2, <1>10, <1>12, <2>2
    <3>3. CASE wrong # "yes"
      <4>1. expected = (q - 1) % DataCounters /\ missing'[l] = 0
        BY <1>0, <1>1, <1>3, <1>13, <3>1, <3>3, DataCheck
      <4>2. sending'[l].pages - 1 - missing'[l] - 0 = q - 1
        BY <1>5, <3>1, <4>1
      <4>. QED BY <3>1, <3>2, <4>1, <4>2 DEF DataCount
    <3>4. CASE wrong = "yes"
      <4>1. missing'[l] = m
        BY <1>12, <1>13, <2>2, <3>1, <3>4
      <4>2. expected = (q - 1 - m) % DataCounters /\ q - 1 - m >= 0
        <5>1. CASE counters[l].data = DataUnset
          <6>1. m = 0 /\ expected = page.data /\ page.data = (q - 1) % DataCounters
            BY <1>0, <1>1, <3>1, <3>2, <5>1, DataCheck DEF Continued
          <6>. QED BY <3>1, <6>1
        <5>2. CASE counters[l].data # DataUnset
          BY <1>0, <1>1, <3>1, <3>2, <5>2, DataCheck
        <5>. QED BY <5>1, <5>2
      <4>3. sending'[l].pages - 1 - missing'[l] - 0 = q - 1 - m
        BY <1>5, <3>1, <4>1
      <4>. QED BY <3>1, <3>2, <4>2, <4>3 DEF DataCount
    <3>. QED BY <1>3, <3>3, <3>4
  <2>. QED BY <2>1, <2>2
(* The data of the CRU's generator, when every page is checked             *)
<1>17. Internal /\ setup.frequency = 1 =>
         (page.data # expected <=> page.missing % DataCounters # 0)
  BY <1>0, <1>1, <1>2, DataCheck
<1>18. ~Internal => page.data = expected
  BY <1>2
<1>19. 0 % DataCounters = 0
  BY RemainderOfLess, PageSizesAreNumbers
<1>20. ToldInv'
  <2>1. setup.frequency \in Nat \ {0}
    BY PageFacts
  <2>2. "data" \in errorsTold' => page.flaw = "data"
                              \/ (Internal /\ (page.missing # 0 \/ setup.frequency > 1))
    <3>1. CASE wrong = "yes"
      BY <1>3, <1>17, <1>18, <1>19, <2>1, <3>1
    <3>2. CASE wrong # "yes"
      BY <1>0, <1>5, <3>2 DEF OnlyRealErrors
    <3>. QED BY <3>1, <3>2
  <2>3. \A e : e # "data" => (e \in errorsTold' <=> e \in errorsTold)
    BY <1>5
  <2>4. OnlyRealErrors'
    BY <1>0, <1>5, <1>6, <1>7, <2>2, <2>3 DEF OnlyRealErrors, SamePage
  <2>5. HeaderTold'
    BY <1>0, <1>5, <1>6, <1>7 DEF HeaderTold, SamePage
  <2>6. (page.data # expected \/ page.flaw = "data") => "data" \in errorsTold'
    BY <1>3, <1>5
  <2>7. DataTold'
    BY <1>5, <1>6, <1>7, <1>17, <2>6 DEF DataTold, SamePage
  <2>. QED BY <1>6, <2>4, <2>5, <2>7 DEF ToldInv
<1>21. FrameInv'
  <2>. SUFFICES ASSUME setup.frequency = 1, ~Internal, flaws = 0
                PROVE  /\ nextFrame <= LastOrbit + FrameLength
                       /\ \A k \in PageLinks : missing'[k] = 0
                       /\ reading = Unset => nextFrame = 0
                       /\ reading # Unset => FrameStarts(nextFrame) /\ nextFrame > sending[reading].orbit
                                             /\ Passed(nextFrame)
    <3>1. (FrameStarts(nextFrame)' <=> FrameStarts(nextFrame)) /\ (Passed(nextFrame)' <=> Passed(nextFrame))
      BY <1>5 DEF FrameStarts, Passed, Frame
    <3>. QED BY <1>5, <1>6, <1>7, <3>1 DEF FrameInv
  <2>1. \A k \in PageLinks : missing'[k] = 0
    BY <1>0, <1>13 DEF FrameInv
  <2>. QED BY <1>0, <2>1 DEF FrameInv
<1>22. LateInv'
  BY <1>0, <1>5, <1>6, <1>7 DEF LateInv, SamePage
<1>. QED BY <1>7, <1>14, <1>15, <1>16, <1>20, <1>21, <1>22 DEF PageInv
-----------------------------------------------------------------------------
LEMMA PagesStart ==
  ASSUME PageInit
  PROVE  PageInv
<1>0. /\ setup \in [source : DataSources, frequency : Frequencies, resync : BOOLEAN, sox : {0, 1}]
      /\ sending = [l \in PageLinks |-> [orbit |-> setup.sox, pages |-> 0, packet |-> 0, data |-> 0]]
      /\ reading = Unset /\ page = NoPage /\ errorsTold = {} /\ flaws = 0
      /\ counters = [l \in PageLinks |-> [event |-> Events, packet |-> Unset, data |-> DataUnset]]
      /\ nextFrame = 0 /\ guard = FALSE /\ missing = [l \in PageLinks |-> 0]
  BY DEF PageInit
<1>1. 0 % PacketCounters = 0 /\ 0 % DataCounters = 0
  BY RemainderOfLess, PageSizesAreNumbers
<1>2. PageTypeOK
  <2>1. PageSetup /\ PageHead
    BY <1>0 DEF PageSetup, PageHead, NoPage, PageSteps
  <2>2. ASSUME NEW l \in PageLinks
        PROVE  LinkSends(sending[l]) /\ LinkCounts(counters[l]) /\ missing[l] \in Nat
    BY <1>0, <1>1, PageSizesAreNumbers DEF LinkSends, LinkCounts, Unset, DataUnset
  <2>. QED BY <1>0, <2>1, <2>2 DEF PageTypeOK
<1>3. SentInv
  BY <1>0 DEF SentInv, NoPage
<1>4. ASSUME NEW l \in PageLinks PROVE LinkInv(l)
  BY <1>0 DEF LinkInv, NoPage, AtCheck
<1>5. DataInv /\ LateInv
  BY <1>0 DEF DataInv, LateInv, NoPage
<1>6. ToldInv
  BY <1>0 DEF ToldInv, OnlyRealErrors, HeaderTold, DataTold, NoPage
<1>7. FrameInv
  BY <1>0, PageSizesAreNumbers DEF FrameInv, NoPage
<1>. QED BY <1>2, <1>3, <1>4, <1>5, <1>6, <1>7 DEF PageInv

LEMMA PagesStutter ==
  ASSUME PageInv, UNCHANGED pageVars
  PROVE  PageInv'
<1>. USE DEF pageVars
<1>1. PageTypeOK' /\ SentInv'
  BY DEF PageInv, PageTypeOK, PageSetup, PageHead, LinkSends, LinkCounts, SentInv, LinksRead
<1>2. \A k \in PageLinks : LinkInv(k)'
  BY LinkKept DEF PageInv
<1>3. DataInv' /\ ToldInv'
  BY DEF PageInv, DataInv, DataCount, ToldInv, OnlyRealErrors, HeaderTold, DataTold, Internal,
         CounterWraps, PagesSent
<1>4. FrameInv' /\ LateInv'
  BY DEF PageInv, FrameInv, FrameStarts, Passed, Frame, LateInv, Internal
<1>. QED BY <1>1, <1>2, <1>3, <1>4 DEF PageInv

LEMMA PagesKeep ==
  ASSUME PageInv, PageNext
  PROVE  PageInv'
<1>1. CASE Arrival
  <2>1. PICK l \in LinksRead, away \in {0, 1, PacketCounters},
             flaw \in {"none", "short", "large", "data", "late"}, start \in BOOLEAN :
          \E orbit \in {sending[l].orbit, sending[l].orbit + 1} : ReadoutPage(l, orbit, away, flaw, start)
    BY <1>1, Zenon DEF Arrival
  <2>2. PICK orbit \in {sending[l].orbit, sending[l].orbit + 1} : ReadoutPage(l, orbit, away, flaw, start)
    BY <2>1
  <2>3. away \in Nat
    BY PageSizesAreNumbers
  <2>4. IsArrival(l, orbit, away, flaw, start)
    <3>1. page.left = "nothing"
      BY <1>1, Zenon DEF Arrival
    <3>. QED BY <2>2, <2>3, <3>1 DEF IsArrival
  <2>. QED BY <2>4, ArrivalKeeps
<1>2. CASE CheckFrame
  BY <1>2, CheckFrameKeeps
<1>3. CASE NextFrame
  BY <1>3, NextFrameKeeps
<1>4. CASE CheckData
  BY <1>4, CheckDataKeeps
<1>5. CASE PageRests
  BY <1>5, PagesStutter DEF PageRests
<1>. QED BY <1>1, <1>2, <1>3, <1>4, <1>5 DEF PageNext

LEMMA PagesHold ==
  ASSUME PageInv
  PROVE  ErrorsAreRight
<1>. SUFFICES ASSUME page.left = "nothing" PROVE EveryErrorIsTold
  BY PagePart DEF ErrorsAreRight
<1>. SUFFICES ASSUME page.checked
              PROVE  /\ page.flaw = "large" /\ ~Internal => "size" \in errorsTold
                     /\ page.flaw = "short" /\ setup.source \in {"ddg", "fee"} => "size" \in errorsTold
                     /\ page.missing % PacketCounters # 0 /\ ~Internal /\ ~CounterWraps
                          => EndsCheck \cap errorsTold # {}
                     /\ page.missing % DataCounters # 0 /\ Internal /\ setup.frequency = 1
                          => "data" \in errorsTold
                     /\ page.flaw = "data" /\ setup.source # "fee"
                          => (EndsCheck \cup {"data"}) \cap errorsTold # {}
                     /\ page.flaw = "late" /\ page.leads /\ flaws = 1 /\ setup.frequency = 1 /\ ~Internal
                          => "frame" \in errorsTold
  BY DEF EveryErrorIsTold
<1>1. page.checked = TRUE /\ (page.leads => page.leads = TRUE)
  BY PagePart DEF PageHead
<1>2. HeaderTold /\ DataTold /\ LateInv
  BY PagePart
<1>3. page.flaw = "late" /\ page.leads /\ flaws = 1 /\ setup.frequency = 1 /\ ~Internal => "frame" \in errorsTold
  BY <1>1, <1>2 DEF LateInv
<1>. QED BY <1>1, <1>2, <1>3 DEF HeaderTold, DataTold

(* What the bench tells of a superpage is so: it tells no error that isn't *)
(* one, and every lost, short, large, spoilt or late page its check comes  *)
(* to, but where the counters cannot show it (checkErrors).  The file of a *)
(* mapped buffer stays as long as the buffer, and every aligned superpage  *)
(* that was pushed is where the process looks for it (MemoryMappedFile,    *)
(* PdaDmaBuffer).                                                          *)
THEOREM PagesStayRight == CardSpec => []PagesAreRight
<1> DEFINE Inv == PageInv /\ BufferInv
<1>1. CardInit => Inv
  BY PagesStart, BuffersStart DEF CardInit
<1>2. Inv /\ [CardNext]_partVars => Inv'
  <2>1. [CardNext]_partVars => [PageNext]_pageVars
    BY DEF CardNext, OthersRest, partVars
  <2>2. [CardNext]_partVars => [BuffersNext]_bufferVars
    BY DEF CardNext, OthersRest, partVars
  <2> QED BY <2>1, <2>2, PagesKeep, PagesStutter, BuffersKeep, BuffersStutter
<1>3. Inv => PagesAreRight
  BY PagesHold, BuffersHold DEF PagesAreRight
<1> QED BY <1>1, <1>2, <1>3, PTL DEF CardSpec
=============================================================================
