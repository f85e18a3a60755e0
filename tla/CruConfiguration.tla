-------------------------- MODULE CruConfiguration --------------------------
(***************************************************************************)
(* Configuring a CRU endpoint (CruBar::configure, with the parts of        *)
(* DatapathWrapper, Gbt and Ttc it drives): what o2-roc-config writes to   *)
(* the card, in which order, decided by a report that was read before the  *)
(* first write and is not read again.                                      *)
(*                                                                         *)
(* A step is a group of register writes between which configure() decides  *)
(* nothing.  It may end after any of them: by an exception (a bad          *)
(* parameter, the I2C lock, a failed calibration) or because the process   *)
(* is killed.  Configuring again starts from what was left on the card.    *)
(***************************************************************************)
EXTENDS FiniteSets, Naturals

CONSTANTS Link,      \* GBT links of the endpoint
          Requests   \* the parameters configure() is called with

Clock == {"local", "ttc"}
MaxTriggerWindowSize == 65535

(* What is written whole, if the report says otherwise *)
Switch == {"userLogicEnabled", "runStatsEnabled", "userAndCommonLogicEnabled",
           "dynamicOffset", "dropBadRdhEnabled"}
Number == {"downstreamData", "cruId", "triggerWindowSize", "timeFrameLength"}

Request ==
  [clock: Clock, ponUpstream: BOOLEAN, onuAddress: Nat,
   gbtEnabled: BOOLEAN, linkMask: SUBSET Link,
   gbtMux: Nat, loopback: BOOLEAN, datapathMode: Nat, feeId: Nat,
   userLogicEnabled: BOOLEAN, runStatsEnabled: BOOLEAN,
   userAndCommonLogicEnabled: BOOLEAN, dynamicOffset: BOOLEAN,
   dropBadRdhEnabled: BOOLEAN, downstreamData: Nat, cruId: Nat,
   triggerWindowSize: Nat, timeFrameLength: Nat]

ASSUME RequestsAssumption == Requests \subseteq Request

VARIABLES
  card,      \* the registers of the endpoint
  request,   \* parameters of the call
  force,     \* force-config
  reported,  \* what report() read at the start of the call
  pc         \* the next step of configure(); "idle", "done"

vars == <<card, request, force, reported, pc>>
-----------------------------------------------------------------------------
(* The registers.  DWRAPPER_ENREG holds the links' enable bits and, at the *)
(* same address, those of user logic, run statistics, user and common      *)
(* logic, and dynamic offset.                                              *)
Enreg == {"userLogicEnabled", "runStatsEnabled",
          "userAndCommonLogicEnabled", "dynamicOffset"}

PowerUp ==
  [clock |-> "local", ttcData |-> "local", calibrated |-> {},
   onuAddress |-> 0, dataTaking |-> FALSE,
   enabled |-> {},
   gbt |-> [l \in Link |-> [mux |-> 0, loopback |-> FALSE]],
   datapathMode |-> [l \in Link |-> 0], feeId |-> [l \in Link |-> 0],
   userLogicEnabled |-> FALSE, runStatsEnabled |-> FALSE,
   userAndCommonLogicEnabled |-> FALSE, dynamicOffset |-> FALSE,
   dropBadRdhEnabled |-> FALSE, downstreamData |-> 0, cruId |-> 0,
   triggerWindowSize |-> 0, timeFrameLength |-> 0]

(* What report() reads of it, and the PON status.  Which clock TTC_DATA    *)
(* selects and what was calibrated is not in the report.                   *)
Unreported == {"ttcData", "calibrated", "dataTaking"}
Report(c, up) ==
  [f \in (DOMAIN c \ Unreported) \cup {"ponUp"} |-> IF f = "ponUp" THEN up ELSE c[f]]

Init == /\ request \in Requests /\ card = PowerUp /\ force = FALSE
        /\ reported = Report(card, FALSE) /\ pc = "idle"

(* setLinksEnabled(endpoint, 0x0) writes the register as a whole.          *)
NothingEnabled(c) ==
  [f \in DOMAIN c |-> CASE f = "enabled" -> {} [] f \in Enreg -> FALSE
                        [] OTHER -> c[f]]
ToggleUserLogicLink(c, on) == [c EXCEPT !.userLogicEnabled = on]
ToggleRunStatsLink(c, on)  == [c EXCEPT !.runStatsEnabled = on]

(* Writing the link map in populateLinkMap(): all links that the mask does *)
(* not name leave loopback.                                                *)
Populated(c, r) ==
  [c EXCEPT !.gbt = [l \in Link |->
     IF l \in r.linkMask THEN [mux |-> r.gbtMux, loopback |-> r.loopback]
     ELSE [c.gbt[l] EXCEPT !.loopback = FALSE]]]

(* Link::operator==, between the link asked for and the link reported: two *)
(* disabled links are equal whatever else they hold.                       *)
SameLink(r, c, l) ==
  \/ l \notin r.linkMask /\ l \notin c.enabled
  \/ /\ l \in r.linkMask /\ l \in c.enabled
     /\ c.gbt[l] = [mux |-> r.gbtMux, loopback |-> r.loopback]
     /\ c.datapathMode[l] = r.datapathMode /\ c.feeId[l] = r.feeId
SameLinks(r, c) == \A l \in Link : SameLink(r, c, l)

(* checkPonUpstreamStatusExpected() *)
PonExpected(r, c) == r.ponUpstream => c.ponUp /\ c.onuAddress = r.onuAddress
-----------------------------------------------------------------------------
Done == pc \in {"idle", "done"}

(* configure() begins with report(true). *)
Configure(r, f) ==
  /\ Done
  /\ \E up \in BOOLEAN : reported' = Report(card, up)
  /\ request' = r /\ force' = f /\ pc' = "populate"
  /\ UNCHANGED card

Step(at, next, c) ==
  pc = at /\ pc' = next /\ card' = c /\ UNCHANGED <<request, force, reported>>

PopulateLinkMap == Step("populate", "compare", Populated(card, request))

NoNeedToReconfigure ==
  /\ ~force
  /\ request.clock = reported.clock
  /\ SameLinks(request, reported)
  /\ PonExpected(request, reported)
  /\ request.gbtEnabled = (reported.enabled # {})
  /\ \A s \in Switch \cup Number : request[s] = reported[s]

(* checkConfigParameters() *)
ParametersMakeSense ==
  request.userAndCommonLogicEnabled => request.userLogicEnabled

ClockDiffers == request.clock # reported.clock \/ force

Compare ==
  \/ NoNeedToReconfigure /\ Step("compare", "done", card)
  \/ /\ ~NoNeedToReconfigure /\ ParametersMakeSense
     /\ Step("compare", IF ClockDiffers THEN "plls" ELSE "downstreamData", card)

(* Ttc::setClock(): the PLLs first, then the selection in TTC_DATA.  The   *)
(* report takes the clock from a PLL.  The transceivers have to be         *)
(* calibrated for the new clock.                                           *)
ConfigurePlls ==
  Step("plls", "select", [card EXCEPT !.clock = request.clock, !.calibrated = {}])
SelectClock ==
  Step("select", IF request.clock = "ttc" THEN "ttc" ELSE "gbt",
       [card EXCEPT !.ttcData = request.clock])

CalibrateTtc ==
  Step("ttc", IF PonExpected(request, reported) /\ ~force THEN "gbt" ELSE "pon",
       [card EXCEPT !.calibrated = @ \cup {"ttc"}])

(* The address is assigned if the phase scan succeeds; if not, a message   *)
(* is logged.                                                              *)
ConfigurePonTx ==
  \/ Step("pon", "gbt", [card EXCEPT !.onuAddress = request.onuAddress])
  \/ Step("pon", "gbt", card)

CalibrateGbt ==
  Step("gbt", "downstreamData",
       IF request.gbtEnabled THEN [card EXCEPT !.calibrated = @ \cup {"gbt"}]
       ELSE card)
-----------------------------------------------------------------------------
(* The settings that are written if the report differs, and what follows   *)
Following == [downstreamData |-> "links",
          userLogicEnabled |-> "runStatsEnabled",
          runStatsEnabled |-> "userAndCommonLogicEnabled",
          userAndCommonLogicEnabled |-> "cruId",
          cruId |-> "triggerWindowSize",
          triggerWindowSize |-> "dynamicOffset",
          dynamicOffset |-> "timeFrameLength",
          timeFrameLength |-> "dropBadRdhEnabled",
          dropBadRdhEnabled |-> "done"]

Differs(s) == request[s] # reported[s] \/ force

ApplySetting(s) ==
  /\ s = "triggerWindowSize" /\ Differs(s)
       => request.triggerWindowSize <= MaxTriggerWindowSize
  /\ Step(s, Following[s],
          IF Differs(s) THEN [card EXCEPT ![s] = request[s]] ELSE card)

(* gbtEnabled = false: all links off, and user logic and run statistics    *)
(* restored to what the report said.                                       *)
GbtReported == reported.enabled # {}

(* Mutant: nothing is restored. *)
SwitchGbtOff_NotRestored ==
  /\ ~request.gbtEnabled /\ (GbtReported \/ force)
  /\ Step("links", "userLogicEnabled", NothingEnabled(card))

SwitchGbtOff ==
  /\ ~request.gbtEnabled /\ (GbtReported \/ force)
  /\ Step("links", "userLogicEnabled",
          ToggleRunStatsLink(
            ToggleUserLogicLink(NothingEnabled(card), reported.userLogicEnabled),
            reported.runStatsEnabled))

(* gbtEnabled = true and the links differ: data taking is stopped, and the *)
(* links that differ are toggled.                                          *)
LinksWritten ==
  LET touched == {l \in Link : force \/ ~SameLink(request, reported, l)}
      toggled == {l \in touched : (l \in request.linkMask) # (l \in reported.enabled)}
  IN  [card EXCEPT
         !.dataTaking = FALSE,
         !.enabled = (@ \ toggled) \cup (toggled \cap request.linkMask),
         !.datapathMode = [l \in Link |-> IF l \in touched
                                          THEN request.datapathMode ELSE @[l]],
         !.feeId = [l \in Link |-> IF l \in request.linkMask
                                   THEN request.feeId ELSE 0]]

(* Mutant: the links are written whether they differ or not. *)
SetLinks_Always ==
  request.gbtEnabled /\ Step("links", "userLogicEnabled", LinksWritten)

SetLinks ==
  /\ request.gbtEnabled /\ (~SameLinks(request, reported) \/ force)
  /\ Step("links", "userLogicEnabled", LinksWritten)

LeaveLinks ==
  /\ IF request.gbtEnabled THEN SameLinks(request, reported) /\ ~force
     ELSE ~GbtReported /\ ~force
  /\ Step("links", "userLogicEnabled", card)

(* An exception leaves configure(), or the process is killed: what it knew *)
(* is gone.                                                                *)
Interrupted ==
  /\ ~Done /\ pc' = "idle"
  /\ force' = FALSE /\ reported' = Report(card, FALSE)
  /\ UNCHANGED <<card, request>>

ConfigureStep ==
  \/ PopulateLinkMap \/ Compare \/ ConfigurePlls \/ SelectClock
  \/ CalibrateTtc \/ ConfigurePonTx \/ CalibrateGbt
  \/ SwitchGbtOff \/ SetLinks \/ LeaveLinks
  \/ \E s \in Switch \cup Number : ApplySetting(s)

(* A readout process starts and stops data taking meanwhile. *)
DataTaking(on) ==
  /\ card' = [card EXCEPT !.dataTaking = on]
  /\ UNCHANGED <<request, force, reported, pc>>

Next == \/ \E r \in Requests, f \in BOOLEAN : Configure(r, f)
        \/ ConfigureStep \/ Interrupted
        \/ \E on \in BOOLEAN : DataTaking(on)

Spec == Init /\ [][Next]_vars
-----------------------------------------------------------------------------
(* The registers hold one value of their kind each, and the reported ones  *)
(* were read from them.  No window is longer than the firmware takes       *)
(* (setTriggerWindowSize), rejected in the middle of configure().          *)
Card == [clock: Clock, ttcData: Clock, calibrated: SUBSET {"ttc", "gbt"},
         onuAddress: Nat, dataTaking: BOOLEAN, enabled: SUBSET Link,
         gbt: [Link -> [mux: Nat, loopback: BOOLEAN]],
         datapathMode: [Link -> Nat], feeId: [Link -> Nat],
         userLogicEnabled: BOOLEAN, runStatsEnabled: BOOLEAN,
         userAndCommonLogicEnabled: BOOLEAN, dynamicOffset: BOOLEAN,
         dropBadRdhEnabled: BOOLEAN, downstreamData: Nat, cruId: Nat,
         triggerWindowSize: 0..MaxTriggerWindowSize, timeFrameLength: Nat]

Reported ==
  [clock: Clock, onuAddress: Nat, ponUp: BOOLEAN, enabled: SUBSET Link,
   gbt: [Link -> [mux: Nat, loopback: BOOLEAN]],
   datapathMode: [Link -> Nat], feeId: [Link -> Nat],
   userLogicEnabled: BOOLEAN, runStatsEnabled: BOOLEAN,
   userAndCommonLogicEnabled: BOOLEAN, dynamicOffset: BOOLEAN,
   dropBadRdhEnabled: BOOLEAN, downstreamData: Nat, cruId: Nat,
   triggerWindowSize: 0..MaxTriggerWindowSize, timeFrameLength: Nat]

TypeOK == /\ card \in Card /\ reported \in Reported /\ request \in Request
          /\ force \in BOOLEAN
          /\ pc \in {"idle", "populate", "compare", "plls", "select", "ttc",
                     "pon", "gbt", "links", "done"} \cup DOMAIN Following

(* What a report of the card would say of the request, but for settings    *)
(* that got lost                                                           *)
LinksAsAsked(c, r) ==
  IF r.gbtEnabled THEN c.enabled = r.linkMask /\ SameLinks(r, c)
  ELSE c.enabled = {}
AsAsked(c, r, lost) ==
  /\ c.clock = r.clock
  /\ LinksAsAsked(c, r)
  /\ \A s \in (Switch \cup Number) \ lost : c[s] = r[s]
Calibrated(c, r) ==
  /\ c.ttcData = r.clock
  /\ r.clock = "ttc" => "ttc" \in c.calibrated
  /\ r.gbtEnabled => "gbt" \in c.calibrated

(* When configure() returns without an exception the card is as asked for, *)
(* whatever interrupted calls came before, although every write is decided *)
(* on the report it began with.  Only a call that switches the GBT links   *)
(* off without force may lose the two settings it does not restore.  After *)
(* a forced call the clock is selected and the transceivers are calibrated *)
(* for it, too (CruBar::configure).                                        *)
Lost == IF ~force /\ ~request.gbtEnabled /\ GbtReported
        THEN {"userAndCommonLogicEnabled", "dynamicOffset"} ELSE {}
TakesEffect ==
  pc = "done" => /\ AsAsked(card, request, Lost)
                 /\ force => Calibrated(card, request)

(* Configuring a card again that is as asked for disturbs nothing a        *)
(* readout depends on: no setting, no enabled link, and data taking goes   *)
(* on (the comparison at the start of configure(), and each of its tests). *)
InUse(c) == [c EXCEPT !.gbt = [l \in c.enabled |-> c.gbt[l]]]
MatchingCardLeftAlone ==
  [][ConfigureStep /\ ~force /\ AsAsked(reported, request, {})
       => InUse(card') = InUse(card)]_vars

(* --dyn-offset, "Flag to enable the dynamic offset" (ProgramConfig.cxx),  *)
(* has its effect when configure() has returned.                           *)
DynamicOffsetIsSet == pc = "done" => card.dynamicOffset = request.dynamicOffset
=============================================================================
