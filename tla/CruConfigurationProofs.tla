------------------------ MODULE CruConfigurationProofs ------------------------
(***************************************************************************)
(* For any links and any set of requests: when configure() returns the     *)
(* card is as it was asked to be, although it decides every write on the   *)
(* report it began with, and a card that was so already is not disturbed.  *)
(* The invariant follows the call: what it has not come to yet is on the   *)
(* card as reported, what it has passed is as requested.                   *)
(***************************************************************************)
EXTENDS CruConfiguration, TLAPS

Setting == Switch \cup Number

(* The order of the steps of configure(). *)
Rank == [populate |-> 0, compare |-> 1, plls |-> 2, select |-> 3, ttc |-> 4, pon |-> 5,
         gbt |-> 6, downstreamData |-> 7, links |-> 8, userLogicEnabled |-> 9,
         runStatsEnabled |-> 10, userAndCommonLogicEnabled |-> 11, cruId |-> 12,
         triggerWindowSize |-> 13, dynamicOffset |-> 14, timeFrameLength |-> 15,
         dropBadRdhEnabled |-> 16, done |-> 17]
Before(s) == pc # "idle" /\ Rank[pc] <= Rank[s]
After(s) == pc # "idle" /\ Rank[pc] > Rank[s]

(* The clock is only touched if it differs, and then all that depends on it *)
(* is done again.                                                           *)
ClockInv ==
  /\ pc \in {"plls", "select", "ttc", "pon", "gbt"} => ClockDiffers
  /\ Before("plls") => card.clock = reported.clock
  /\ After("plls") => card.clock = request.clock
  /\ force /\ After("select") => card.ttcData = request.clock
  /\ force /\ After("ttc") /\ request.clock = "ttc" => "ttc" \in card.calibrated
  /\ force /\ After("gbt") /\ request.gbtEnabled => "gbt" \in card.calibrated

(* The link map is written first, what else links have is written last. *)
LinkInv ==
  /\ Before("populate") => card.gbt = reported.gbt
  /\ After("populate") =>
       \A l \in request.linkMask :
         card.gbt[l] = [mux |-> request.gbtMux, loopback |-> request.loopback]
  /\ Before("links") => /\ card.enabled = reported.enabled
                        /\ card.datapathMode = reported.datapathMode
                        /\ card.feeId = reported.feeId
  /\ After("links") => LinksAsAsked(card, request)

SettingInv ==
  \A s \in Setting :
    /\ Before(s) => card[s] = reported[s] \/ s \in Lost \/ force
    /\ After(s) => card[s] = request[s] \/ s \in Lost

IInv == TypeOK /\ ClockInv /\ LinkInv /\ SettingInv
-----------------------------------------------------------------------------
LEMMA Ranks ==
  ASSUME NEW s \in Setting
  PROVE  /\ Rank[s] \in 7 .. 16 /\ Rank[s] # 8
         /\ Following[s] \in DOMAIN Rank /\ Following[s] # "idle"
         /\ Rank[Following[s]] = Rank[s] + 1
         /\ \A t \in Setting : t # s => Rank[t] # Rank[s]
         /\ s \in DOMAIN Following
BY DEF Setting, Switch, Number, Rank, Following

LEMMA RankTypes ==
  ASSUME TypeOK, pc # "idle"
  PROVE  pc \in DOMAIN Rank /\ Rank[pc] \in 0 .. 17
BY DEF TypeOK, Rank, Following

(* A report has the types of what it was read from. *)
LEMMA ReportType ==
  ASSUME NEW c \in Card, NEW up \in BOOLEAN
  PROVE  /\ Report(c, up) \in Reported
         /\ \A f \in {"clock", "onuAddress", "enabled", "gbt", "datapathMode", "feeId"}
                     \cup Setting : Report(c, up)[f] = c[f]
BY DEF Report, Card, Reported, Unreported, Setting, Switch, Number

LEMMA PowerUpType == PowerUp \in Card
BY DEF PowerUp, Card, Clock, MaxTriggerWindowSize

LEMMA RequestType ==
  ASSUME NEW r \in Requests
  PROVE  r \in Request
BY RequestsAssumption

LEMMA SettingType ==
  ASSUME NEW c \in Card, NEW r \in Request, NEW s \in Setting,
         s = "triggerWindowSize" => r.triggerWindowSize <= MaxTriggerWindowSize
  PROVE  /\ [c EXCEPT ![s] = r[s]] \in Card
         /\ [c EXCEPT ![s] = r[s]][s] = r[s]
         /\ \A f \in DOMAIN c : f # s => [c EXCEPT ![s] = r[s]][f] = c[f]
BY DEF Card, Request, Setting, Switch, Number

LEMMA InitIInv == Init => IInv
<1> SUFFICES ASSUME Init PROVE IInv
  OBVIOUS
<1>1. pc = "idle" /\ force = FALSE /\ card \in Card /\ reported \in Reported
  BY PowerUpType, ReportType DEF Init
<1>2. request \in Request
  BY RequestType DEF Init
<1>3. TypeOK
  BY <1>1, <1>2 DEF TypeOK
<1>4. ClockInv /\ LinkInv /\ SettingInv
  BY <1>1 DEF ClockInv, LinkInv, SettingInv, Before, After
<1> QED BY <1>3, <1>4 DEF IInv

LEMMA ConfigureKeeps ==
  ASSUME IInv, NEW r \in Requests, NEW f \in BOOLEAN, Configure(r, f)
  PROVE  IInv'
<1>1. PICK up \in BOOLEAN : reported' = Report(card, up)
  BY DEF Configure
<1>2. /\ request' = r /\ force' = f /\ pc' = "populate" /\ card' = card /\ card \in Card
  BY DEF Configure, IInv, TypeOK
<1>3. /\ reported' \in Reported
      /\ \A g \in {"clock", "onuAddress", "enabled", "gbt", "datapathMode", "feeId"}
                  \cup Setting : reported'[g] = card[g]
  BY <1>1, <1>2, ReportType
<1>4. TypeOK'
  BY <1>2, <1>3, RequestType DEF TypeOK
<1>5. Rank["populate"] = 0 /\ Rank["plls"] = 2 /\ Rank["select"] = 3 /\ Rank["ttc"] = 4
      /\ Rank["gbt"] = 6 /\ Rank["links"] = 8
  BY DEF Rank
<1>6. ClockInv' /\ LinkInv'
  BY <1>2, <1>3, <1>5 DEF ClockInv, LinkInv, Before, After
<1>7. SettingInv'
  <2> SUFFICES ASSUME NEW s \in Setting
               PROVE  card'[s] = reported'[s] /\ ~After(s)'
    BY DEF SettingInv
  <2>1. Rank[s] \in 7 .. 16
    BY Ranks
  <2>2. card'[s] = reported'[s]
    BY <1>2, <1>3
  <2>3. ~After(s)'
    BY <1>2, <1>5, <2>1 DEF After
  <2> QED BY <2>2, <2>3
<1> QED BY <1>4, <1>6, <1>7 DEF IInv

(* A step of configure() up to the links leaves all settings alone. *)
LEMMA EarlyStep ==
  ASSUME IInv, NEW at \in {"populate", "compare", "plls", "select", "ttc", "pon", "gbt"},
         NEW next \in DOMAIN Rank, next # "idle", Rank[next] <= 7, NEW c \in Card,
         \A s \in Setting : c[s] = card[s], Step(at, next, c)
  PROVE  TypeOK' /\ SettingInv'
<1>1. /\ pc = at /\ pc' = next /\ card' = c /\ UNCHANGED <<request, force, reported>>
  BY DEF Step
<1>2. TypeOK'
  BY <1>1 DEF IInv, TypeOK, Rank, Following
<1>3. Rank[at] \in 0 .. 6
  BY DEF Rank
<1>4. SettingInv'
  <2> SUFFICES ASSUME NEW s \in Setting
               PROVE  (card'[s] = reported'[s] \/ (s \in Lost)' \/ force') /\ ~After(s)'
    BY DEF SettingInv
  <2>1. Rank[s] \in 7 .. 16 /\ Rank[next] \in Nat
    BY Ranks DEF Rank
  <2>2. Before(s)
    BY <1>1, <1>3, <2>1 DEF Before, Rank
  <2>3. card[s] = reported[s] \/ s \in Lost \/ force
    BY <2>2 DEF IInv, SettingInv
  <2>4. Lost' = Lost
    BY <1>1 DEF Lost, GbtReported
  <2>5. ~After(s)'
    BY <1>1, <2>1 DEF After
  <2> QED BY <1>1, <2>3, <2>4, <2>5
<1> QED BY <1>2, <1>4

(* Which parts of the invariant speak of a step of the call. *)
LEMMA Positions ==
  /\ Rank["populate"] = 0 /\ Rank["compare"] = 1 /\ Rank["plls"] = 2 /\ Rank["select"] = 3
  /\ Rank["ttc"] = 4 /\ Rank["pon"] = 5 /\ Rank["gbt"] = 6
  /\ Rank["downstreamData"] = 7 /\ Rank["links"] = 8 /\ Rank["userLogicEnabled"] = 9
  /\ Rank["done"] = 17
BY DEF Rank

LEMMA PopulatedIs ==
  ASSUME NEW c \in Card, NEW r \in Request
  PROVE  /\ Populated(c, r) \in Card
         /\ \A f \in DOMAIN c : f # "gbt" => Populated(c, r)[f] = c[f]
         /\ \A l \in r.linkMask :
              Populated(c, r).gbt[l] = [mux |-> r.gbtMux, loopback |-> r.loopback]
<1> DEFINE g == [l \in Link |-> IF l \in r.linkMask
                               THEN [mux |-> r.gbtMux, loopback |-> r.loopback]
                               ELSE [c.gbt[l] EXCEPT !.loopback = FALSE]]
<1>1. g \in [Link -> [mux: Nat, loopback: BOOLEAN]]
  BY ZenonT(60) DEF Card, Request
<1>2. \A l \in r.linkMask : g[l] = [mux |-> r.gbtMux, loopback |-> r.loopback]
  BY DEF Request
<1>3. Populated(c, r) = [c EXCEPT !.gbt = g]
  BY DEF Populated
<1> HIDE DEF g
<1>4. /\ [c EXCEPT !.gbt = g] \in Card /\ [c EXCEPT !.gbt = g].gbt = g
      /\ \A f \in DOMAIN c : f # "gbt" => [c EXCEPT !.gbt = g][f] = c[f]
  BY <1>1 DEF Card
<1> QED BY <1>2, <1>3, <1>4

LEMMA PopulateKeeps ==
  ASSUME IInv, PopulateLinkMap
  PROVE  IInv'
<1> DEFINE c == Populated(card, request)
<1>1. Step("populate", "compare", c) /\ card \in Card /\ request \in Request
  BY DEF PopulateLinkMap, IInv, TypeOK
<1>2. /\ c \in Card /\ \A f \in DOMAIN card : f # "gbt" => c[f] = card[f]
      /\ \A l \in request.linkMask :
           c.gbt[l] = [mux |-> request.gbtMux, loopback |-> request.loopback]
  BY <1>1, PopulatedIs
<1>3. \A s \in Setting : c[s] = card[s]
  BY <1>1, <1>2 DEF Setting, Switch, Number, Card
<1> HIDE DEF c
<1>4. TypeOK' /\ SettingInv'
  BY <1>1, <1>2, <1>3, EarlyStep DEF Rank
<1>5. /\ pc = "populate" /\ pc' = "compare" /\ card' = c
      /\ UNCHANGED <<request, force, reported>>
  BY <1>1 DEF Step
<1>6. /\ c.clock = card.clock /\ c.enabled = card.enabled
      /\ c.datapathMode = card.datapathMode /\ c.feeId = card.feeId
  BY <1>1, <1>2 DEF Card
<1>7. /\ card.clock = reported.clock /\ card.enabled = reported.enabled
      /\ card.datapathMode = reported.datapathMode /\ card.feeId = reported.feeId
  BY <1>5, Positions DEF IInv, ClockInv, LinkInv, Before
<1>8. ClockInv'
  BY <1>5, <1>6, <1>7, Positions DEF ClockInv, Before, After
<1>9. LinkInv'
  BY <1>2, <1>5, <1>6, <1>7, Positions DEF LinkInv, Before, After
<1> QED BY <1>4, <1>8, <1>9 DEF IInv

(* A report that says all is as asked for. *)
LEMMA LinksMatch ==
  ASSUME IInv, request.gbtEnabled, After("populate"), Before("links"),
         SameLinks(request, reported)
  PROVE  LinksAsAsked(card, request)
<1>1. /\ card.enabled = reported.enabled /\ card.datapathMode = reported.datapathMode
      /\ card.feeId = reported.feeId
      /\ \A l \in request.linkMask :
           card.gbt[l] = [mux |-> request.gbtMux, loopback |-> request.loopback]
  BY DEF IInv, LinkInv
<1>2. card.enabled \subseteq Link /\ request.linkMask \subseteq Link
  BY DEF IInv, TypeOK, Card, Request
<1>3. card.enabled = request.linkMask
  BY <1>1, <1>2 DEF SameLinks, SameLink
<1>4. \A l \in Link : SameLink(request, card, l)
  BY <1>1, <1>2, <1>3 DEF SameLinks, SameLink
<1> QED BY <1>3, <1>4 DEF LinksAsAsked, SameLinks

LEMMA CompareKeeps ==
  ASSUME IInv, Compare
  PROVE  IInv'
<1>1. /\ pc = "compare" /\ card' = card /\ UNCHANGED <<request, force, reported>>
      /\ card \in Card /\ request \in Request /\ force \in BOOLEAN
  BY DEF Compare, Step, IInv, TypeOK
<1>2. Before("plls") /\ Before("links") /\ After("populate")
  BY <1>1, Positions DEF Before, After
<1>3. card.clock = reported.clock
  BY <1>2 DEF IInv, ClockInv
<1>4. ASSUME NoNeedToReconfigure, Step("compare", "done", card) PROVE IInv'
  <2>1. /\ pc' = "done" /\ ~force /\ request.clock = reported.clock
        /\ SameLinks(request, reported)
        /\ request.gbtEnabled = (reported.enabled # {})
        /\ \A s \in Setting : request[s] = reported[s]
    BY <1>4 DEF Step, NoNeedToReconfigure, Setting
  <2>2. TypeOK'
    BY <1>1, <2>1 DEF IInv, TypeOK
  <2>3. ClockInv'
    BY <1>1, <1>3, <2>1, Positions DEF ClockInv, Before, After
  <2>4. LinksAsAsked(card, request)
    <3>1. CASE request.gbtEnabled
      BY <1>2, <2>1, <3>1, LinksMatch
    <3>2. CASE ~request.gbtEnabled
      <4>1. reported.enabled = {} /\ card.enabled = reported.enabled
        BY <1>2, <2>1, <3>2 DEF IInv, LinkInv
      <4> QED BY <3>2, <4>1 DEF LinksAsAsked
    <3> QED BY <3>1, <3>2
  <2>5. LinkInv'
    <3>1. \A l \in request.linkMask :
            card.gbt[l] = [mux |-> request.gbtMux, loopback |-> request.loopback]
      BY <1>2 DEF IInv, LinkInv
    <3> QED BY <1>1, <2>1, <2>4, <3>1, Positions DEF LinkInv, Before, After
  <2>6. SettingInv'
    <3> SUFFICES ASSUME NEW s \in Setting
                 PROVE  ~Before(s)' /\ (card'[s] = request'[s] \/ (s \in Lost)')
      BY DEF SettingInv
    <3>1. Rank[s] \in 7 .. 16 /\ Lost' = Lost
      BY <1>1, Ranks DEF Lost, GbtReported
    <3>2. Before(s) /\ ~Before(s)'
      BY <1>1, <2>1, <3>1, Positions DEF Before
    <3>3. card[s] = reported[s] \/ s \in Lost
      BY <2>1, <3>2 DEF IInv, SettingInv
    <3> QED BY <1>1, <2>1, <3>1, <3>2, <3>3
  <2> QED BY <2>2, <2>3, <2>5, <2>6 DEF IInv
<1>5. ASSUME NEW next \in {"plls", "downstreamData"},
             next = IF ClockDiffers THEN "plls" ELSE "downstreamData",
             Step("compare", next, card)
      PROVE  IInv'
  <2>1. TypeOK' /\ SettingInv'
    BY <1>1, <1>5, EarlyStep DEF Rank
  <2>2. pc' = next
    BY <1>5 DEF Step
  <2>3. ClockInv'
    BY <1>1, <1>3, <1>5, <2>2, Positions DEF ClockInv, ClockDiffers, Before, After
  <2>4. LinkInv'
    <3>1. ~Before("populate")' /\ ~After("links")'
      BY <1>5, <2>2, Positions DEF Before, After
    <3> QED BY <1>1, <1>2, <3>1 DEF IInv, LinkInv
  <2> QED BY <2>1, <2>3, <2>4 DEF IInv
<1> QED BY <1>4, <1>5 DEF Compare

(* The clock, the calibrations and the PON leave links and settings alone. *)
LEMMA ClockStep ==
  ASSUME IInv, NEW at \in {"plls", "select", "ttc", "pon", "gbt"},
         NEW next \in {"select", "ttc", "pon", "gbt", "downstreamData"}, NEW c \in Card,
         \A f \in DOMAIN card \ {"clock", "ttcData", "calibrated", "onuAddress"} : c[f] = card[f],
         Step(at, next, c)
  PROVE  TypeOK' /\ SettingInv' /\ LinkInv'
<1>1. /\ pc = at /\ pc' = next /\ card' = c /\ UNCHANGED <<request, force, reported>>
      /\ card \in Card
  BY DEF Step, IInv, TypeOK
<1>2. /\ c.gbt = card.gbt /\ c.enabled = card.enabled
      /\ c.datapathMode = card.datapathMode /\ c.feeId = card.feeId
      /\ \A s \in Setting : c[s] = card[s]
  BY <1>1 DEF Card, Setting, Switch, Number
<1>3. TypeOK' /\ SettingInv'
  <2>1. next \in DOMAIN Rank /\ next # "idle" /\ Rank[next] <= 7
    BY DEF Rank
  <2> QED BY <1>2, <2>1, EarlyStep
<1>4. Before("links") /\ After("populate")
  BY <1>1, Positions DEF Before, After
<1>5. ~Before("populate")' /\ ~After("links")'
  BY <1>1, Positions DEF Before, After
<1>6. LinkInv'
  BY <1>1, <1>2, <1>4, <1>5 DEF IInv, LinkInv
<1> QED BY <1>3, <1>6

LEMMA ClockKeeps ==
  ASSUME IInv, ConfigurePlls \/ SelectClock \/ CalibrateTtc \/ ConfigurePonTx \/ CalibrateGbt
  PROVE  IInv'
<1>1. card \in Card /\ request \in Request /\ force \in BOOLEAN
  BY DEF IInv, TypeOK
<1>2. CASE ConfigurePlls
  <2> DEFINE c == [card EXCEPT !.clock = request.clock, !.calibrated = {}]
  <2>1. /\ c \in Card /\ c.clock = request.clock /\ Step("plls", "select", c)
        /\ \A f \in DOMAIN card \ {"clock", "ttcData", "calibrated", "onuAddress"} : c[f] = card[f]
    BY <1>1, <1>2 DEF ConfigurePlls, Card, Request
  <2> HIDE DEF c
  <2>2. TypeOK' /\ SettingInv' /\ LinkInv'
    BY <2>1, ClockStep
  <2>3. ClockInv'
    BY <2>1, Positions DEF IInv, ClockInv, ClockDiffers, Step, Before, After
  <2> QED BY <2>2, <2>3 DEF IInv
<1>3. CASE SelectClock
  <2> DEFINE c == [card EXCEPT !.ttcData = request.clock]
             next == IF request.clock = "ttc" THEN "ttc" ELSE "gbt"
  <2>1. /\ c \in Card /\ c.clock = card.clock /\ c.ttcData = request.clock
        /\ Step("select", next, c)
        /\ \A f \in DOMAIN card \ {"clock", "ttcData", "calibrated", "onuAddress"} : c[f] = card[f]
    BY <1>1, <1>3 DEF SelectClock, Card, Request
  <2>2. next \in {"ttc", "gbt"} /\ (next = "gbt" => request.clock # "ttc")
    OBVIOUS
  <2> HIDE DEF c, next
  <2>3. TypeOK' /\ SettingInv' /\ LinkInv'
    BY <2>1, <2>2, ClockStep
  <2>4. ClockInv'
    BY <2>1, <2>2, Positions DEF IInv, ClockInv, ClockDiffers, Step, Before, After
  <2> QED BY <2>3, <2>4 DEF IInv
<1>4. CASE CalibrateTtc
  <2> DEFINE c == [card EXCEPT !.calibrated = @ \cup {"ttc"}]
             next == IF PonExpected(request, reported) /\ ~force THEN "gbt" ELSE "pon"
  <2>1. /\ c \in Card /\ c.clock = card.clock /\ c.ttcData = card.ttcData
        /\ "ttc" \in c.calibrated /\ Step("ttc", next, c)
        /\ \A f \in DOMAIN card \ {"clock", "ttcData", "calibrated", "onuAddress"} : c[f] = card[f]
    BY <1>1, <1>4 DEF CalibrateTtc, Card
  <2>2. next \in {"pon", "gbt"}
    OBVIOUS
  <2> HIDE DEF c, next
  <2>3. TypeOK' /\ SettingInv' /\ LinkInv'
    BY <2>1, <2>2, ClockStep
  <2>4. ClockInv'
    BY <2>1, <2>2, Positions DEF IInv, ClockInv, ClockDiffers, Step, Before, After
  <2> QED BY <2>3, <2>4 DEF IInv
<1>5. CASE ConfigurePonTx
  <2>1. PICK c \in Card :
          /\ c.clock = card.clock /\ c.ttcData = card.ttcData /\ c.calibrated = card.calibrated
          /\ Step("pon", "gbt", c)
          /\ \A f \in DOMAIN card \ {"clock", "ttcData", "calibrated", "onuAddress"} : c[f] = card[f]
    <3> DEFINE c == [card EXCEPT !.onuAddress = request.onuAddress]
    <3>1. /\ c \in Card /\ c.clock = card.clock /\ c.ttcData = card.ttcData
          /\ c.calibrated = card.calibrated
          /\ \A f \in DOMAIN card \ {"clock", "ttcData", "calibrated", "onuAddress"} : c[f] = card[f]
      BY <1>1 DEF Card, Request
    <3>2. Step("pon", "gbt", c) \/ Step("pon", "gbt", card)
      BY <1>5 DEF ConfigurePonTx
    <3> HIDE DEF c
    <3> QED BY <1>1, <3>1, <3>2
  <2>2. TypeOK' /\ SettingInv' /\ LinkInv'
    BY <2>1, ClockStep
  <2>3. ClockInv'
    BY <2>1, Positions DEF IInv, ClockInv, ClockDiffers, Step, Before, After
  <2> QED BY <2>2, <2>3 DEF IInv
<1>6. CASE CalibrateGbt
  <2> DEFINE c == IF request.gbtEnabled
                  THEN [card EXCEPT !.calibrated = @ \cup {"gbt"}] ELSE card
  <2>1. /\ c \in Card /\ c.clock = card.clock /\ c.ttcData = card.ttcData
        /\ card.calibrated \subseteq c.calibrated
        /\ request.gbtEnabled => "gbt" \in c.calibrated
        /\ Step("gbt", "downstreamData", c)
        /\ \A f \in DOMAIN card \ {"clock", "ttcData", "calibrated", "onuAddress"} : c[f] = card[f]
    BY <1>1, <1>6 DEF CalibrateGbt, Card, Request
  <2> HIDE DEF c
  <2>2. TypeOK' /\ SettingInv' /\ LinkInv'
    BY <2>1, ClockStep
  <2>3. ClockInv'
    BY <2>1, Positions DEF IInv, ClockInv, ClockDiffers, Step, Before, After
  <2> QED BY <2>2, <2>3 DEF IInv
<1> QED BY <1>2, <1>3, <1>4, <1>5, <1>6

(* What the three ways of dealing with the links leave behind. *)
LEMMA LinksStep ==
  ASSUME IInv, NEW c \in Card, Step("links", "userLogicEnabled", c),
         \A f \in {"clock", "ttcData", "calibrated", "gbt", "downstreamData"} : c[f] = card[f],
         LinksAsAsked(c, request),
         \A s \in Setting : c[s] = card[s] \/ c[s] = reported[s] \/ s \in Lost \/ force
  PROVE  IInv'
<1>1. /\ pc = "links" /\ pc' = "userLogicEnabled" /\ card' = c
      /\ UNCHANGED <<request, force, reported>> /\ card \in Card /\ Lost' = Lost
  BY DEF Step, IInv, TypeOK, Lost, GbtReported
<1>2. TypeOK'
  BY <1>1 DEF IInv, TypeOK, Following
<1>3. ClockInv'
  <2>1. c.clock = card.clock /\ c.ttcData = card.ttcData /\ c.calibrated = card.calibrated
    OBVIOUS
  <2> QED BY <1>1, <2>1, Positions DEF IInv, ClockInv, Before, After
<1>4. LinkInv'
  <2>1. c.gbt = card.gbt
    OBVIOUS
  <2> QED BY <1>1, <2>1, Positions DEF IInv, LinkInv, Before, After
<1>5. SettingInv'
  <2> SUFFICES ASSUME NEW s \in Setting
               PROVE  /\ Before(s)' => c[s] = reported[s] \/ s \in Lost \/ force
                      /\ After(s)' => c[s] = request[s] \/ s \in Lost
    BY <1>1 DEF SettingInv
  <2>1. Rank[s] \in 7 .. 16 /\ Rank[s] # 8
    BY Ranks
  <2>2. /\ Before(s) => card[s] = reported[s] \/ s \in Lost \/ force
        /\ After(s) => card[s] = request[s] \/ s \in Lost
    BY DEF IInv, SettingInv
  <2>3. CASE Rank[s] = 7
    <3>1. s = "downstreamData"
      BY <2>1, <2>3 DEF Setting, Switch, Number, Rank
    <3>2. After(s) /\ ~Before(s)'
      BY <1>1, <2>3, Positions DEF Before, After
    <3>3. c[s] = card[s]
      BY <3>1
    <3> QED BY <2>2, <3>2, <3>3
  <2>4. CASE Rank[s] # 7
    <3>1. Before(s) /\ ~After(s)'
      BY <1>1, <2>1, <2>4, Positions DEF Before, After
    <3> QED BY <2>2, <3>1
  <2> QED BY <2>3, <2>4
<1> QED BY <1>2, <1>3, <1>4, <1>5 DEF IInv

LEMMA LinksKeep ==
  ASSUME IInv, SwitchGbtOff \/ SetLinks \/ LeaveLinks
  PROVE  IInv'
<1>1. card \in Card /\ request \in Request /\ force \in BOOLEAN /\ reported \in Reported
  BY DEF IInv, TypeOK
<1>2. pc = "links"
  BY DEF SwitchGbtOff, SetLinks, LeaveLinks, Step
<1>3. /\ Before("links") /\ After("populate")
      /\ card.enabled = reported.enabled /\ card.datapathMode = reported.datapathMode
      /\ card.feeId = reported.feeId
      /\ \A l \in request.linkMask :
           card.gbt[l] = [mux |-> request.gbtMux, loopback |-> request.loopback]
  BY <1>2, Positions DEF IInv, LinkInv, Before, After
<1>4. CASE SwitchGbtOff
  <2> DEFINE c == ToggleRunStatsLink(
                    ToggleUserLogicLink(NothingEnabled(card), reported.userLogicEnabled),
                    reported.runStatsEnabled)
  <2>1. ~request.gbtEnabled /\ (GbtReported \/ force) /\ Step("links", "userLogicEnabled", c)
    BY <1>4 DEF SwitchGbtOff
  <2>2. /\ c \in Card /\ c.enabled = {}
        /\ \A f \in DOMAIN card \ ({"enabled"} \cup Enreg) : c[f] = card[f]
        /\ c.userLogicEnabled = reported.userLogicEnabled
        /\ c.runStatsEnabled = reported.runStatsEnabled
    <3> DEFINE a == NothingEnabled(card)
               b == [a EXCEPT !.userLogicEnabled = reported.userLogicEnabled]
               d == [b EXCEPT !.runStatsEnabled = reported.runStatsEnabled]
    <3>1. /\ a \in Card /\ a.enabled = {}
          /\ \A f \in DOMAIN card \ ({"enabled"} \cup Enreg) : a[f] = card[f]
      BY <1>1 DEF NothingEnabled, Enreg, Card
    <3> HIDE DEF a
    <3>2. /\ b \in Card /\ b.userLogicEnabled = reported.userLogicEnabled
          /\ \A f \in DOMAIN card : f # "userLogicEnabled" => b[f] = a[f]
      BY <1>1, <3>1 DEF Card, Reported
    <3> HIDE DEF b
    <3>3. /\ d \in Card /\ d.runStatsEnabled = reported.runStatsEnabled
          /\ \A f \in DOMAIN card : f # "runStatsEnabled" => d[f] = b[f]
      BY <1>1, <3>2 DEF Card, Reported
    <3>4. c = d
      BY DEF ToggleRunStatsLink, ToggleUserLogicLink, d, b, a
    <3> HIDE DEF c, d
    <3>5. d.enabled = {} /\ d.userLogicEnabled = reported.userLogicEnabled
      BY <1>1, <3>1, <3>2, <3>3 DEF Card
    <3>6. \A f \in DOMAIN card \ ({"enabled"} \cup Enreg) : d[f] = card[f]
      BY <3>1, <3>2, <3>3 DEF Enreg
    <3> QED BY <3>3, <3>4, <3>5, <3>6
  <2> HIDE DEF c
  <2>3. LinksAsAsked(c, request)
    BY <2>1, <2>2 DEF LinksAsAsked
  <2>4. \A f \in {"clock", "ttcData", "calibrated", "gbt", "downstreamData"} : c[f] = card[f]
    BY <1>1, <2>2 DEF Card, Enreg
  <2>5. \A s \in Setting : c[s] = card[s] \/ c[s] = reported[s] \/ s \in Lost \/ force
    <3>1. force \/ Lost = {"userAndCommonLogicEnabled", "dynamicOffset"}
      BY <2>1 DEF Lost
    <3> QED BY <1>1, <2>2, <3>1 DEF Card, Enreg, Setting, Switch, Number
  <2> QED BY <2>1, <2>2, <2>3, <2>4, <2>5, LinksStep
<1>5. CASE SetLinks
  <2>1. request.gbtEnabled /\ Step("links", "userLogicEnabled", LinksWritten)
    BY <1>5 DEF SetLinks
  <2> DEFINE touched == {l \in Link : force \/ ~SameLink(request, reported, l)}
             toggled == {l \in touched : (l \in request.linkMask) # (l \in reported.enabled)}
             enabled == (card.enabled \ toggled) \cup (toggled \cap request.linkMask)
             mode == [l \in Link |-> IF l \in touched THEN request.datapathMode
                                     ELSE card.datapathMode[l]]
             id == [l \in Link |-> IF l \in request.linkMask THEN request.feeId ELSE 0]
             c == [card EXCEPT !.dataTaking = FALSE, !.enabled = enabled,
                               !.datapathMode = mode, !.feeId = id]
  <2>2. LinksWritten = c
    BY DEF LinksWritten
  <2>3. /\ card.enabled \subseteq Link /\ request.linkMask \subseteq Link
        /\ card.datapathMode \in [Link -> Nat] /\ request.datapathMode \in Nat
        /\ request.feeId \in Nat
    BY <1>1 DEF Card, Request
  <2>4. enabled = request.linkMask
    <3>1. \A l \in Link : l \notin toggled => (l \in request.linkMask <=> l \in reported.enabled)
      BY DEF SameLink
    <3>2. \A l \in toggled : l \in Link /\ (l \in request.linkMask <=> l \notin reported.enabled)
      OBVIOUS
    <3> HIDE DEF toggled
    <3> QED BY <1>3, <2>3, <3>1, <3>2
  <2>5. /\ mode \in [Link -> Nat] /\ id \in [Link -> Nat]
        /\ \A l \in request.linkMask : mode[l] = request.datapathMode /\ id[l] = request.feeId
    <3>1. \A l \in request.linkMask : l \notin touched => card.datapathMode[l] = request.datapathMode
      BY <1>3, <2>3 DEF SameLink
    <3> HIDE DEF touched
    <3> QED BY <2>3, <3>1
  <2> HIDE DEF enabled, mode, id
  <2>6. /\ c \in Card /\ c.enabled = enabled /\ c.datapathMode = mode /\ c.feeId = id
        /\ c.gbt = card.gbt
        /\ \A f \in {"clock", "ttcData", "calibrated", "gbt"} \cup Setting : c[f] = card[f]
    BY <1>1, <2>3, <2>4, <2>5 DEF Card, Setting, Switch, Number
  <2> HIDE DEF c
  <2>7. LinksAsAsked(c, request)
    <3>1. \A l \in Link : SameLink(request, c, l)
      BY <1>3, <2>3, <2>4, <2>5, <2>6 DEF SameLink
    <3> QED BY <2>1, <2>4, <2>6, <3>1 DEF LinksAsAsked, SameLinks
  <2>8. "downstreamData" \in Setting
    BY DEF Setting, Number
  <2> QED BY <2>1, <2>2, <2>6, <2>7, <2>8, LinksStep
<1>6. CASE LeaveLinks
  <2>1. Step("links", "userLogicEnabled", card)
    BY <1>6 DEF LeaveLinks
  <2>2. LinksAsAsked(card, request)
    <3>1. CASE request.gbtEnabled
      BY <1>3, <1>6, <3>1, LinksMatch DEF LeaveLinks
    <3>2. CASE ~request.gbtEnabled
      BY <1>3, <1>6, <3>2 DEF LeaveLinks, GbtReported, LinksAsAsked
    <3> QED BY <3>1, <3>2
  <2> QED BY <1>1, <2>1, <2>2, LinksStep
<1> QED BY <1>4, <1>5, <1>6

LEMMA SettingKeeps ==
  ASSUME IInv, NEW s \in Setting, ApplySetting(s)
  PROVE  IInv'
<1> DEFINE c == IF Differs(s) THEN [card EXCEPT ![s] = request[s]] ELSE card
<1>1. /\ pc = s /\ pc' = Following[s] /\ card' = c /\ UNCHANGED <<request, force, reported>>
      /\ card \in Card /\ request \in Request /\ force \in BOOLEAN
      /\ Lost' = Lost /\ (force => Lost = {})
  BY DEF ApplySetting, Step, IInv, TypeOK, Lost, GbtReported
<1>2. /\ c \in Card /\ \A f \in DOMAIN card : f # s => c[f] = card[f]
      /\ Differs(s) => c[s] = request[s]
      /\ ~Differs(s) => c[s] = card[s]
  <2>1. CASE Differs(s)
    <3>1. s = "triggerWindowSize" => request.triggerWindowSize <= MaxTriggerWindowSize
      BY <2>1 DEF ApplySetting
    <3> DEFINE d == [card EXCEPT ![s] = request[s]]
    <3>2. c = d
      BY <2>1
    <3>3. d \in Card /\ d[s] = request[s] /\ \A f \in DOMAIN card : f # s => d[f] = card[f]
      BY <1>1, <3>1, SettingType
    <3> HIDE DEF c, d
    <3> QED BY <2>1, <3>2, <3>3
  <2>2. CASE ~Differs(s)
    BY <1>1, <2>2
  <2> QED BY <2>1, <2>2
<1>3. /\ c.clock = card.clock /\ c.ttcData = card.ttcData /\ c.calibrated = card.calibrated
      /\ c.gbt = card.gbt /\ c.enabled = card.enabled
      /\ c.datapathMode = card.datapathMode /\ c.feeId = card.feeId
      /\ \A t \in Setting : t # s => c[t] = card[t]
  BY <1>1, <1>2 DEF Card, Setting, Switch, Number
<1> HIDE DEF c
<1>4. /\ Rank[s] \in 7 .. 16 /\ Rank[s] # 8 /\ Rank[pc'] = Rank[s] + 1
      /\ pc' \in DOMAIN Rank /\ pc # "idle" /\ pc' # "idle" /\ Rank[pc] = Rank[s]
      /\ pc' \notin {"plls", "select", "ttc", "pon", "gbt"}
  BY <1>1, Ranks, Positions DEF Setting, Switch, Number, Following
<1>5. TypeOK'
  BY <1>1, <1>2, <1>4 DEF IInv, TypeOK, Rank, Following
<1>6. ClockInv'
  <2>1. /\ After("plls") /\ After("select") /\ After("ttc") /\ After("gbt")
        /\ ~Before("plls")'
    BY <1>4, Positions DEF Before, After
  <2> QED BY <1>1, <1>3, <1>4, <2>1 DEF IInv, ClockInv
<1>7. LinkInv'
  <2>1. /\ After("populate") /\ ~Before("populate")'
        /\ Before("links")' => Before("links")
        /\ After("links")' => After("links")
    BY <1>4, Positions DEF Before, After
  <2>2. LinksAsAsked(card, request) => LinksAsAsked(c, request)
    BY <1>3 DEF LinksAsAsked, SameLinks, SameLink
  <2> QED BY <1>1, <1>3, <2>1, <2>2 DEF IInv, LinkInv
<1>8. SettingInv'
  <2> SUFFICES ASSUME NEW t \in Setting
               PROVE  /\ Before(t)' => c[t] = reported[t] \/ t \in Lost \/ force
                      /\ After(t)' => c[t] = request[t] \/ t \in Lost
    BY <1>1 DEF SettingInv
  <2>1. /\ Before(t) => card[t] = reported[t] \/ t \in Lost \/ force
        /\ After(t) => card[t] = request[t] \/ t \in Lost
    BY DEF IInv, SettingInv
  <2>2. CASE t = s
    <3>1. Before(s) /\ ~Before(s)'
      BY <1>4 DEF Before
    <3>2. c[s] = request[s] \/ s \in Lost
      BY <1>2, <2>1, <2>2, <3>1 DEF Differs
    <3> QED BY <2>2, <3>1, <3>2
  <2>3. CASE t # s
    <3>1. Rank[t] # Rank[s] /\ Rank[t] \in Nat
      BY <2>3, Ranks
    <3>2. (Before(t)' => Before(t)) /\ (After(t)' => After(t))
      BY <1>4, <3>1 DEF Before, After
    <3> QED BY <1>3, <2>1, <2>3, <3>2
  <2> QED BY <2>2, <2>3
<1> QED BY <1>5, <1>6, <1>7, <1>8 DEF IInv

LEMMA NextIInv ==
  ASSUME IInv, [Next]_vars
  PROVE  IInv'
<1>1. CASE \E r \in Requests, f \in BOOLEAN : Configure(r, f)
  BY <1>1, ConfigureKeeps
<1>2. CASE ConfigureStep
  BY <1>2, PopulateKeeps, CompareKeeps, ClockKeeps, LinksKeep, SettingKeeps
     DEF ConfigureStep, Setting
<1>3. CASE Interrupted
  <2>1. pc' = "idle" /\ force' = FALSE /\ card' = card /\ request' = request
    BY <1>3 DEF Interrupted
  <2>2. reported' \in Reported
    BY <1>3, ReportType DEF Interrupted, IInv, TypeOK
  <2>3. TypeOK'
    BY <2>1, <2>2 DEF IInv, TypeOK
  <2>4. ClockInv' /\ LinkInv' /\ SettingInv'
    BY <2>1 DEF ClockInv, LinkInv, SettingInv, Before, After
  <2> QED BY <2>3, <2>4 DEF IInv
<1>4. ASSUME NEW on \in BOOLEAN, DataTaking(on) PROVE IInv'
  <2> DEFINE c == [card EXCEPT !.dataTaking = on]
  <2>1. card' = c /\ UNCHANGED <<request, force, reported, pc>> /\ card \in Card
    BY <1>4 DEF DataTaking, IInv, TypeOK
  <2>2. /\ c \in Card /\ c.clock = card.clock /\ c.ttcData = card.ttcData
        /\ c.calibrated = card.calibrated
        /\ c.gbt = card.gbt /\ c.enabled = card.enabled
        /\ c.datapathMode = card.datapathMode /\ c.feeId = card.feeId
        /\ \A s \in Setting : c[s] = card[s]
    BY <2>1 DEF Card, Setting, Switch, Number
  <2> HIDE DEF c
  <2>3. TypeOK'
    BY <2>1, <2>2 DEF IInv, TypeOK
  <2>4. ClockInv'
    BY <2>1, <2>2 DEF IInv, ClockInv, ClockDiffers, Before, After
  <2>5. LinkInv'
    <3>1. LinksAsAsked(card, request) => LinksAsAsked(c, request)
      BY <2>2 DEF LinksAsAsked, SameLinks, SameLink
    <3> QED BY <2>1, <2>2, <3>1 DEF IInv, LinkInv, Before, After
  <2>6. SettingInv'
    BY <2>1, <2>2 DEF IInv, SettingInv, Lost, GbtReported, Before, After
  <2> QED BY <2>3, <2>4, <2>5, <2>6 DEF IInv
<1>5. CASE UNCHANGED vars
  BY <1>5 DEF vars, IInv, TypeOK, ClockInv, ClockDiffers, LinkInv, LinksAsAsked, SameLinks,
              SameLink, SettingInv, Lost, GbtReported, Before, After
<1> QED BY <1>1, <1>2, <1>3, <1>4, <1>5 DEF Next

THEOREM Invariance == Spec => []IInv
<1>1. Init => IInv
  BY InitIInv
<1>2. IInv /\ [Next]_vars => IInv'
  BY NextIInv
<1> QED BY <1>1, <1>2, PTL DEF Spec

(* The registers keep values of their kind: a trigger window the firmware   *)
(* cannot take is rejected before it is written (setTriggerWindowSize).     *)
THEOREM TypeCorrect == Spec => []TypeOK
<1>1. IInv => TypeOK
  BY DEF IInv
<1> QED BY <1>1, Invariance, PTL

(* When configure() returns, links, clock and settings are as asked for,    *)
(* whatever an interrupted call left on the card and whatever data taking   *)
(* does meanwhile; a forced call has also selected the clock and calibrated *)
(* the transceivers for it.                                                 *)
THEOREM ConfigureTakesEffect == Spec => []TakesEffect
<1>1. ASSUME IInv, pc = "done" PROVE AsAsked(card, request, Lost)
  <2>1. After("plls") /\ After("links")
    BY <1>1, Positions DEF After
  <2>2. \A s \in Setting : After(s)
    BY <1>1, Ranks, Positions DEF After
  <2> QED BY <1>1, <2>1, <2>2 DEF IInv, ClockInv, LinkInv, SettingInv, AsAsked, Setting
<1>2. ASSUME IInv, pc = "done", force PROVE Calibrated(card, request)
  <2>1. After("select") /\ After("ttc") /\ After("gbt")
    BY <1>2, Positions DEF After
  <2> QED BY <1>2, <2>1 DEF IInv, ClockInv, Calibrated
<1>3. IInv => TakesEffect
  BY <1>1, <1>2 DEF TakesEffect
<1> QED BY <1>3, Invariance, PTL
-----------------------------------------------------------------------------
(* A call that finds the card as asked for comes to no step that writes     *)
(* what a readout uses: not to the clock, not to a link, not to a setting.  *)
LEMMA InUseIs ==
  ASSUME NEW c \in Card, NEW d \in Card, \A f \in DOMAIN c : f # "gbt" => d[f] = c[f],
         \A l \in c.enabled : d.gbt[l] = c.gbt[l]
  PROVE  InUse(d) = InUse(c)
<1>1. d.enabled = c.enabled
  BY DEF Card
<1>2. [l \in d.enabled |-> d.gbt[l]] = [l \in c.enabled |-> c.gbt[l]]
  BY <1>1
<1> DEFINE g == [l \in c.enabled |-> c.gbt[l]]
<1>3. InUse(d) = [d EXCEPT !.gbt = g] /\ InUse(c) = [c EXCEPT !.gbt = g]
  BY <1>2 DEF InUse
<1> HIDE DEF g
<1>4. [d EXCEPT !.gbt = g] = [c EXCEPT !.gbt = g]
  BY DEF Card
<1> QED BY <1>3, <1>4

LEMMA MatchingStep ==
  ASSUME IInv, ConfigureStep, ~force, AsAsked(reported, request, {})
  PROVE  InUse(card') = InUse(card)
<1>1. /\ card \in Card /\ request \in Request /\ request.clock = reported.clock
      /\ LinksAsAsked(reported, request)
      /\ \A s \in Setting : reported[s] = request[s]
  BY DEF IInv, TypeOK, AsAsked, Setting
<1>2. ~ClockDiffers
  BY <1>1 DEF ClockDiffers
<1>3. CASE PopulateLinkMap
  <2> DEFINE c == Populated(card, request)
  <2>1. pc = "populate" /\ card' = c
    BY <1>3 DEF PopulateLinkMap, Step
  <2>2. card.gbt = reported.gbt /\ card.enabled = reported.enabled
    BY <2>1, Positions DEF IInv, LinkInv, Before
  <2>3. \A l \in card.enabled :
          l \in request.linkMask
          /\ card.gbt[l] = [mux |-> request.gbtMux, loopback |-> request.loopback]
    BY <1>1, <2>2 DEF LinksAsAsked, SameLinks, SameLink, Card, Request
  <2>4. /\ c \in Card /\ \A f \in DOMAIN card : f # "gbt" => c[f] = card[f]
        /\ \A l \in card.enabled : c.gbt[l] = card.gbt[l]
    <3>1. /\ c \in Card /\ \A f \in DOMAIN card : f # "gbt" => c[f] = card[f]
          /\ \A l \in request.linkMask :
               c.gbt[l] = [mux |-> request.gbtMux, loopback |-> request.loopback]
      BY <1>1, PopulatedIs
    <3> HIDE DEF c
    <3> QED BY <2>3, <3>1
  <2> HIDE DEF c
  <2> QED BY <1>1, <2>1, <2>4, InUseIs
<1>4. CASE Compare
  BY <1>4 DEF Compare, Step
<1>5. CASE ConfigurePlls \/ SelectClock \/ CalibrateTtc \/ ConfigurePonTx \/ CalibrateGbt
  <2>1. pc \in {"plls", "select", "ttc", "pon", "gbt"}
    BY <1>5 DEF ConfigurePlls, SelectClock, CalibrateTtc, ConfigurePonTx, CalibrateGbt, Step
  <2> QED BY <1>2, <2>1 DEF IInv, ClockInv
<1>6. CASE SwitchGbtOff \/ SetLinks \/ LeaveLinks
  <2>1. LeaveLinks
    BY <1>1, <1>6 DEF SwitchGbtOff, SetLinks, GbtReported, LinksAsAsked
  <2> QED BY <2>1 DEF LeaveLinks, Step
<1>7. ASSUME NEW s \in Setting, ApplySetting(s) PROVE InUse(card') = InUse(card)
  <2>1. ~Differs(s)
    BY <1>1 DEF Differs
  <2> QED BY <1>7, <2>1 DEF ApplySetting, Step
<1> QED BY <1>3, <1>4, <1>5, <1>6, <1>7 DEF ConfigureStep, Setting

(* Configuring a card again that is as asked for changes no setting and no  *)
(* enabled link, and does not stop data taking.                             *)
THEOREM MatchingCardUndisturbed == Spec => MatchingCardLeftAlone
<1>1. IInv /\ [Next]_vars =>
        [ConfigureStep /\ ~force /\ AsAsked(reported, request, {})
           => InUse(card') = InUse(card)]_vars
  BY MatchingStep
<1> QED BY <1>1, Invariance, PTL DEF Spec, MatchingCardLeftAlone
=============================================================================
