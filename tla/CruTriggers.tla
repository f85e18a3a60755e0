----------------------------- MODULE CruTriggers -----------------------------
(***************************************************************************)
(* o2-roc-trigger-monitor (CruBar::monitorTriggers): the CRU counts the    *)
(* triggers it gets in registers that wrap, and the tool reports counts    *)
(* and rates of them every second.  Triggers are counted meanwhile.        *)
(***************************************************************************)
EXTENDS Integers

CONSTANTS Wide, Half, Nibble, \* 2^32, 2^16 and 2^4
          MaxTriggers

ASSUME TriggersAssumption == Wide \in Nat \ {0} /\ Half \in 1..Wide /\ Nibble \in Nat \ {0}

Triggers == {"hb", "phy", "tof", "cal", "eox", "sox"}
Modulus(k) == IF k \in {"hb", "phy"} THEN Wide
              ELSE IF k \in {"tof", "cal"} THEN Half ELSE Nibble

None == -1
VARIABLES
  kind,      \* the kind of trigger that is looked at
  triggers,  \* how many there were
  updateable, \* --updateable: relative counts, until interrupted
  base,      \* triggers at the first call of the process; None before
  prev,      \* triggers at the start of this call; None between calls
  told       \* what the call reports: count and rate

triggerVars == <<kind, triggers, updateable, base, prev, told>>

TriggerInit ==
  /\ kind \in Triggers /\ updateable \in BOOLEAN
  /\ triggers = 0 /\ base = None /\ prev = None /\ told = {}

(* The register *)
Counter(k, n) == n % Modulus(k)

NewTrigger(n) ==
  /\ triggers + n <= MaxTriggers /\ triggers' = triggers + n
  /\ told' = {} /\ UNCHANGED <<kind, updateable, base, prev>>

(* The bases are static. *)
StartSecond ==
  /\ prev = None
  /\ prev' = triggers /\ base' = IF base = None THEN triggers ELSE base
  /\ told' = {} /\ UNCHANGED <<kind, triggers, updateable>>

(* A counter that wrapped is corrected *)
Corrected(before, now, modulus) ==
  IF before > now THEN now + modulus - before ELSE now - before

Rate(k) ==
  IF k \in {"eox", "sox"} THEN 0
  ELSE Corrected(Counter(k, prev), Counter(k, triggers), Modulus(k))

(* The differences of the counters are those of 32-bit numbers. *)
RelativeCount(k) ==
  IF k \in {"eox", "sox"} THEN Corrected(Counter(k, base), Counter(k, triggers), Wide)
  ELSE (Wide + Counter(k, triggers) - Counter(k, base)) % Wide

EndSecond ==
  /\ prev # None /\ prev' = None
  /\ told' = {[count |-> IF updateable THEN RelativeCount(kind) ELSE Counter(kind, triggers),
               rate |-> Rate(kind), of |-> triggers - prev]}
  /\ UNCHANGED <<kind, triggers, updateable, base>>

(* The tool ends: after one call, or when it is interrupted, which it      *)
(* looks for between calls, or is killed in one.  It is started again.     *)
RestartMonitor ==
  /\ base # None
  /\ base' = None /\ prev' = None /\ told' = {}
  /\ updateable' \in BOOLEAN /\ UNCHANGED <<kind, triggers>>

TriggerNext == (\E n \in 1..Half : NewTrigger(n)) \/ StartSecond \/ EndSecond \/ RestartMonitor
-----------------------------------------------------------------------------
(* The rates are those of the second, however often the counters wrapped   *)
(* before, if they wrap once in it at most.  The relative heartbeat and    *)
(* physics counts are right across a wrap, the others as long as their     *)
(* counter is not below its base (monitorTriggers).                        *)
TriggersAreRight ==
  \A t \in told :
    /\ kind \notin {"eox", "sox"} /\ t.of < Modulus(kind) => t.rate = t.of
    /\ updateable /\ triggers - base < Modulus(kind)
         /\ (Modulus(kind) = Wide \/ Counter(kind, base) <= Counter(kind, triggers))
         => t.count = triggers - base
=============================================================================
