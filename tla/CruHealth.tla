------------------------------- MODULE CruHealth -------------------------------
(***************************************************************************)
(* What a CRU DMA channel watches and leaves behind beside its superpages: *)
(* the card counts for every link how often it found no superpage to fill, *)
(* and areSuperpageFifosHealthy(), called every now and then, warns of the *)
(* links whose count has changed; and the channel of the internal data     *)
(* source switches debug mode on while it exists.  DEBUG and               *)
(* TIME_FRAME_LENGTH, which o2-roc-config writes, are the same register.   *)
(***************************************************************************)
EXTENDS Naturals

CONSTANTS HealthLinks,
          EmptyCounts,   \* values of the 32-bit counter
          MaxStarved,    \* times a link is found without superpage between two checks
          MaxHealthKills

ASSUME HealthAssumption == EmptyCounts \in Nat \ {0} /\ MaxStarved \in Nat

VARIABLES
  features, \* FIRMWARE_FEATURES: the safe word of standalone firmware, and what is off
  dataSource, \* DATA_SOURCE_SELECT
  health,   \* [pc, source, pushed, seen, mine] of the channel
  empties,  \* LINK_SUPERPAGE_FIFO_EMPTY of each link
  debug,    \* the debug register: "off", "on", or "length", a time frame length
  warned,   \* the links the last check warned of
  starved,  \* of each link, how often since the last check; Unsure if this channel made
            \* no check since it reset the card
  lastCheck, \* what starved was at the last check
  foundAs,  \* the debug register when the channel was made, or was written since; "lost"
            \* if it was written while the channel had switched it on
  healthKills

healthVars == <<features, dataSource, health, empties, debug, warned, starved, lastCheck, foundAs,
                healthKills>>

NeverSeen == EmptyCounts
NoChannel == [pc |-> "none", source |-> "fee", pushed |-> FALSE, mine |-> FALSE,
              seen |-> [l \in HealthLinks |-> NeverSeen]]
Unsure == MaxStarved + 1
NotStarved == [l \in HealthLinks |-> 0]
NotChecked == [l \in HealthLinks |-> Unsure]

(* Standalone firmware says which features it lacks, and has no chip id.   *)
AllFeatures == {"dataSelection", "temperature", "serial", "firmwareInfo", "chipId"}
FirmwareFeatures ==
  IF features.standalone THEN AllFeatures \ (features.off \cup {"chipId"}) ELSE AllFeatures

HealthInit ==
  /\ features \in [standalone : BOOLEAN, off : {{"dataSelection"}}] /\ dataSource = "gbt"
  /\ health = NoChannel /\ empties \in [HealthLinks -> {0}]
  /\ debug \in {"off", "length"} /\ foundAs = debug
  /\ warned = {} /\ starved = NotChecked /\ healthKills = 0
  /\ lastCheck = NotStarved
-----------------------------------------------------------------------------
MakeChannel(source) ==
  /\ health.pc = "none"
  /\ health' = [NoChannel EXCEPT !.pc = "stopped", !.source = source]
  /\ foundAs' = debug
  /\ UNCHANGED <<features, dataSource, warned, empties, debug, starved, lastCheck, healthKills>>

(* enableDebugMode(): a register that isn't 0 is taken for debug mode.     *)
DebugRegister(enabled) == IF enabled THEN "on" ELSE "off"
DebugModeEnabled == debug # "off"
EnablesDebug == health.source = "internal" /\ ~DebugModeEnabled

SourceSelected(source) == IF source = "internal" THEN "internal" ELSE "gbt"

(* deviceStartDma(); whether a reset clears the counters is the firmware's. *)
StartDataTaking ==
  /\ health.pc = "stopped"
  /\ health' = [health EXCEPT !.pc = "started", !.mine = @ \/ EnablesDebug]
  /\ debug' = IF EnablesDebug THEN DebugRegister(TRUE) ELSE debug
  /\ empties' \in {empties, NotStarved}
  /\ starved' = NotChecked
  /\ dataSource' = IF "dataSelection" \notin FirmwareFeatures THEN dataSource
                   ELSE SourceSelected(health.source)
  /\ UNCHANGED <<features, warned, foundAs, lastCheck, healthKills>>

PushFirst ==
  /\ health.pc = "started" /\ ~health.pushed
  /\ health' = [health EXCEPT !.pushed = TRUE]
  /\ UNCHANGED <<features, dataSource, empties, debug, warned, starved, foundAs, lastCheck,
                 healthKills>>

StopDataTaking ==
  /\ health.pc = "started" /\ health' = [health EXCEPT !.pc = "stopped"]
  /\ UNCHANGED <<features, dataSource, warned, empties, debug, starved, foundAs, lastCheck,
                 healthKills>>

(* The card: a link that takes data and has no superpage                   *)
Starve(l) ==
  /\ health.pc = "started" /\ starved[l] # MaxStarved
  /\ empties' = [empties EXCEPT ![l] = (@ + 1) % EmptyCounts]
  /\ starved' = [starved EXCEPT ![l] = IF @ = Unsure THEN Unsure ELSE @ + 1]
  /\ UNCHANGED <<features, dataSource, health, debug, warned, foundAs, lastCheck, healthKills>>

(* areSuperpageFifosHealthy(): before the first superpage was pushed the   *)
(* counters are not read, and the first time only kept.                    *)
SuperpageFifoEmptyCounter(l) == empties[l]

CheckFifos ==
  /\ health.pc = "started" /\ health.pushed
  /\ warned' = {l \in HealthLinks :
                  health.seen[l] \notin {NeverSeen, SuperpageFifoEmptyCounter(l)}}
  /\ health' = [health EXCEPT !.seen = [l \in HealthLinks |-> SuperpageFifoEmptyCounter(l)]]
  /\ lastCheck' = starved /\ starved' = NotStarved
  /\ UNCHANGED <<features, dataSource, empties, debug, foundAs, healthKills>>

(* ~CruDmaChannel(): debug mode is switched off if this channel had to     *)
(* switch it on.                                                           *)
DestroyChannel ==
  /\ health.pc \in {"stopped", "started"}
  /\ debug' = IF health.source = "internal" /\ health.mine THEN DebugRegister(FALSE) ELSE debug
  /\ health' = NoChannel
  /\ UNCHANGED <<features, dataSource, warned, empties, starved, foundAs, lastCheck, healthKills>>

KillChannel ==
  /\ health.pc # "none" /\ healthKills < MaxHealthKills
  /\ health' = NoChannel /\ healthKills' = healthKills + 1
  /\ foundAs' = debug
  /\ UNCHANGED <<features, dataSource, warned, empties, debug, starved, lastCheck>>

(* o2-roc-config does not ask for the lock of the channel.                 *)
WriteLength ==
  /\ debug' = "length"
  /\ foundAs' = IF health.source = "internal" /\ health.mine THEN "lost" ELSE debug'
  /\ UNCHANGED <<features, dataSource, health, empties, warned, starved, lastCheck, healthKills>>

HealthNext ==
  \/ \E source \in {"internal", "fee"} : MakeChannel(source)
  \/ StartDataTaking \/ PushFirst \/ StopDataTaking \/ \E l \in HealthLinks : Starve(l)
  \/ CheckFifos \/ DestroyChannel \/ KillChannel \/ WriteLength
-----------------------------------------------------------------------------
(* A check warns of exactly the links that were found without superpage    *)
(* since the check before, whatever the card or the channel did in         *)
(* between; but for the first check after the channel was made or has      *)
(* reset the card, and for exactly 2^32 times                              *)
(* (CruDmaChannel::areSuperpageFifosHealthy).                              *)
StarvationIsTold ==
  \A l \in HealthLinks :
    lastCheck[l] # Unsure => /\ l \in warned => lastCheck[l] > 0
                             /\ lastCheck[l] % EmptyCounts # 0 => l \in warned

(* The channel leaves debug mode, and the time frame length, as it found   *)
(* them, unless it was killed or the length was written while debug mode   *)
(* was on because of it (enableDebugMode, resetDebugMode).                 *)
DebugIsPutBack == health.pc = "none" => debug = foundAs \/ foundAs = "lost"

(* Data comes from the source the channel was made for, whatever channel   *)
(* was there before, if the firmware can choose one (deviceStartDma).      *)
SourceIsAsked ==
  health.pc = "started" /\ ~(features.standalone /\ "dataSelection" \in features.off)
    => dataSource = IF health.source = "internal" THEN "internal" ELSE "gbt"

HealthIsRight == StarvationIsTold /\ DebugIsPutBack /\ SourceIsAsked
=============================================================================
