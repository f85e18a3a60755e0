---------------------------- MODULE CruCalibration ----------------------------
(***************************************************************************)
(* The calibration of the CRU's transceivers and PLLs for its clock        *)
(* (Gbt::calibrateGbt, Ttc::calibrateTtc, Common.cxx).  The tool asks for  *)
(* the configuration bus of a device, waits until it has it, masks a busy  *)
(* flag, says what to calibrate, hands the bus to the calibration engine,  *)
(* waits until this is done, and puts the flag back.  Both waits end after *)
(* half a second, without saying so, and a tool may be killed anywhere.    *)
(***************************************************************************)
EXTENDS Integers, Sequences

CONSTANTS GbtLinks, \* the links to calibrate, in the order of their numbers
          MaxLate, MaxCalibrationKills, MaxClockChanges

Links == {GbtLinks[i] : i \in 1..Len(GbtLinks)}
Devices == Links \cup {"pon", "fpll", "atx"}
ASSUME CalibrationAssumption ==
  /\ GbtLinks \in Seq(Links) /\ Links \cap {"pon", "fpll", "atx"} = {}
  /\ \A i, j \in 1..Len(GbtLinks) : GbtLinks[i] = GbtLinks[j] => i = j

VARIABLES
  device,     \* of each device: bus, asked for, flags shown, what to calibrate,
              \* the calibrations that are good, reference clock, feedback
  calibTodo,  \* the steps the tool has still to do
  calibrated, \* what was calibrated since the clock changed, without a late wait:
              \* "ttc", and "gbt" or "gbtTest", in test mode
  calibrating, \* what the tool calibrates
  late, calibrationKills, clockChanges

calibVars == <<device, calibTodo, calibrated, calibrating, late, calibrationKills, clockChanges>>

CalibInit ==
  /\ device = [d \in Devices |->
       [bus |-> "engine", shown |-> {"rx", "tx"}, what |-> {}, good |-> {},
        ref |-> -1, direct |-> FALSE]]
  /\ calibTodo = <<>> /\ calibrated = {} /\ calibrating = "none"
  /\ late = 0 /\ calibrationKills = 0 /\ clockChanges = 0
-----------------------------------------------------------------------------
Other(part) == IF part = "tx" THEN "rx" ELSE "tx"

(* txcal0(), rxcal0() *)
TransceiverSteps(d, part) ==
  <<<<"request", d, part>>, <<"control", d, part>>, <<"hide", d, Other(part)>>,
    <<"what", d, part>>, <<"hand", d, part>>, <<"done", d, part>>, <<"show", d, Other(part)>>>>
(* atxcal0(), and fpllcal0(), which first closes the loop directly *)
PllSteps(d) ==
  <<<<"request", d, "pll">>, <<"control", d, "pll">>, <<"what", d, "pll">>,
    <<"hand", d, "pll">>, <<"done", d, "pll">>>>
FpllSteps(d) == <<<<"ref", d, 1>>, <<"direct", d, "pll">>>> \o PllSteps(d)

(* calibrateTtc() and calibrateGbt(); in the test mode of ORC-501 a link   *)
(* keeps its reference clock.                                              *)
TtcSteps ==
  <<<<"ref", "atx", 0>>>> \o TransceiverSteps("pon", "rx") \o FpllSteps("fpll")
    \o PllSteps("atx") \o TransceiverSteps("pon", "tx") \o <<<<"check", "pon", "rx">>>>
EachLink(steps, n) == \* n steps for each link, one link after the other
  [i \in 1..n * Len(GbtLinks) |-> steps[GbtLinks[(i - 1) \div n + 1]][((i - 1) % n) + 1]]
GbtTestSteps ==
  EachLink([d \in Links |-> TransceiverSteps(d, "tx")], 7)
    \o EachLink([d \in Links |-> TransceiverSteps(d, "rx")], 7)
GbtSteps == EachLink([d \in Links |-> <<<<"ref", d, 2>>>>], 1) \o GbtTestSteps
StepsOf(part) ==
  CASE part = "ttc" -> TtcSteps [] part = "gbt" -> GbtSteps [] part = "gbtTest" -> GbtTestSteps

Calibrate(part) ==
  /\ calibTodo = <<>> /\ calibTodo' = StepsOf(part) /\ calibrating' = part
  /\ calibrated' = calibrated \ (IF part = "ttc" THEN {"ttc"} ELSE {"gbt", "gbtTest"})
  /\ UNCHANGED <<device, late, calibrationKills, clockChanges>>

(* The engine calibrates, and the bus may be asked for meanwhile. *)
Busy == {"busy", "asked"}

(* What a step does to a device.  The settings are taken from whoever has  *)
(* the bus; without it they may get lost.                                  *)
Did(c, op, v) ==
  CASE op = "request" -> {[c EXCEPT !.bus = IF @ \in Busy THEN "asked" ELSE "user"]}
    [] op = "hide"    -> {[c EXCEPT !.shown = @ \ {v}]}
    [] op = "show"    -> {[c EXCEPT !.shown = @ \cup {v}]}
    [] op = "ref"     -> {[c EXCEPT !.ref = v]}
    [] op = "direct"  -> {[c EXCEPT !.direct = TRUE]}
    [] op = "what"    -> IF c.bus = "user" THEN {[c EXCEPT !.what = {v}]}
                         ELSE {c, [c EXCEPT !.what = {v}]}
    [] op = "hand"    -> {[c EXCEPT !.bus = "busy"]}
    [] OTHER          -> {c}

(* waitForBit(): what is waited for, or half a second.  The ONU has to be  *)
(* ready in the end, or an exception leaves calibrateTtc().                *)
Arrived(c, op) == CASE op = "control" -> c.bus = "user"
                    [] op = "done"    -> c.bus \notin Busy
                    [] op = "check"   -> "rx" \in c.good
                    [] OTHER          -> TRUE

CalibrationStep ==
  /\ calibTodo # <<>>
  /\ LET op == Head(calibTodo)[1]
         d == Head(calibTodo)[2]
         isLate == op \in {"control", "done"} /\ ~Arrived(device[d], op)
         fails == op = "check" /\ ~Arrived(device[d], op)
     IN  /\ \E c \in Did(device[d], op, Head(calibTodo)[3]) : device' = [device EXCEPT ![d] = c]
         /\ isLate => late < MaxLate
         /\ late' = IF isLate THEN late + 1 ELSE late
         /\ calibTodo' = IF fails THEN <<>> ELSE Tail(calibTodo)
         /\ calibrating' = IF isLate \/ fails THEN "none" ELSE calibrating
         /\ calibrated' = IF calibTodo' = <<>> THEN calibrated \cup ({calibrating'} \ {"none"})
                          ELSE calibrated
  /\ UNCHANGED <<calibrationKills, clockChanges>>

(* The engine calibrates what it was told to. *)
EngineIsDone(d) ==
  /\ device[d].bus \in Busy
  /\ device' = [device EXCEPT ![d].bus = IF @ = "asked" THEN "user" ELSE "engine",
                               ![d].good = @ \cup device[d].what]
  /\ UNCHANGED <<calibTodo, calibrated, calibrating, late, calibrationKills, clockChanges>>

(* Ttc::setClock() before *)
ClockChanges ==
  /\ calibTodo = <<>> /\ clockChanges < MaxClockChanges /\ clockChanges' = clockChanges + 1
  /\ device' = [d \in Devices |-> [device[d] EXCEPT !.good = {}]] /\ calibrated' = {}
  /\ UNCHANGED <<calibTodo, calibrating, late, calibrationKills>>

KillCalibration ==
  /\ calibTodo # <<>> /\ calibrationKills < MaxCalibrationKills
  /\ calibrationKills' = calibrationKills + 1
  /\ calibTodo' = <<>> /\ calibrating' = "none"
  /\ UNCHANGED <<device, calibrated, late, clockChanges>>

CalibNext ==
  \/ \E part \in {"ttc", "gbt", "gbtTest"} : Calibrate(part)
  \/ CalibrationStep \/ ClockChanges \/ KillCalibration
  \/ \E d \in Devices : EngineIsDone(d)
-----------------------------------------------------------------------------
Good(d, parts) == parts \subseteq device[d].good

(* A calibration that returned, and had to give up no wait, is complete    *)
(* whatever calls before it were killed or too late: every device is       *)
(* calibrated, for the reference clock of its part but in test mode, shows *)
(* its busy flags, and the bus is the engine's again (calibrateGbt,        *)
(* calibrateTtc).                                                          *)
CalibrationIsComplete ==
  calibTodo = <<>> =>
  /\ {"gbt", "gbtTest"} \cap calibrated # {} =>
       \A d \in Links : /\ Good(d, {"tx", "rx"})
                       /\ device[d].shown = {"rx", "tx"} /\ device[d].bus = "engine"
  /\ "gbt" \in calibrated => \A d \in Links : device[d].ref = 2
  /\ "ttc" \in calibrated =>
       /\ Good("pon", {"tx", "rx"}) /\ Good("fpll", {"pll"}) /\ Good("atx", {"pll"})
       /\ device["fpll"].ref = 1 /\ device["fpll"].direct /\ device["atx"].ref = 0
       /\ device["pon"].shown = {"rx", "tx"}
       /\ \A d \in {"pon", "fpll", "atx"} : device[d].bus = "engine"
=============================================================================
