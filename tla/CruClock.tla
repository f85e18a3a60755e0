------------------------------- MODULE CruClock -------------------------------
(***************************************************************************)
(* The clock of a CRU: three PLLs behind one I2C bus each (I2c, the        *)
(* register maps), the selection in TTC_DATA (Ttc), and the tools that use *)
(* them at the same time, o2-roc-config for each endpoint and              *)
(* o2-roc-status.                                                          *)
(*                                                                         *)
(* A PLL has pages of registers and a page register.  Programming selects  *)
(* a page and writes a section of the map there; reading the clock selects *)
(* page 5 and leaves it selected.  Only the I2C lock of the card keeps the *)
(* two apart.  A transfer that is not acknowledged after ten polls is      *)
(* given up without a word, and a tool may be killed anywhere.             *)
(***************************************************************************)
EXTENDS Naturals, Sequences

CONSTANTS ConfigTools, \* processes that configure the card
          StatusTools, \* processes that only report
          Scenes       \* the tools that run, and the number of faults, each an
                       \* I2C transfer that is lost or a tool that is killed

Clocks == {"local", "ttc"}
ClockTools == ConfigTools \cup StatusTools
ASSUME ClockAssumption ==
  /\ ConfigTools \cap StatusTools = {} /\ "nobody" \notin ClockTools
  /\ \A s \in Scenes : s.tools \subseteq ClockTools
-----------------------------------------------------------------------------
(* The register maps: sections of <<page, number of registers>>, the first *)
(* two holding the chip, the last four letting it go, and the input that   *)
(* register 0x052A of the map selects.                                     *)
Preamble == <<<<11, 2>>, <<5, 1>>>>
Postamble == <<<<5, 1>>, <<0, 1>>, <<5, 1>>, <<11, 2>>>>

Si5345Body == <<<<0, 91>>, <<1, 45>>, <<2, 112>>, <<3, 96>>, <<4, 1>>,
                <<5, 54>>, <<8, 96>>, <<9, 7>>, <<10, 9>>, <<11, 7>>>>
Si5344Body == <<<<0, 91>>, <<1, 21>>, <<2, 94>>, <<3, 78>>, <<4, 1>>,
                <<5, 54>>, <<8, 96>>, <<9, 7>>, <<10, 8>>, <<11, 7>>>>

LocalClockPll1 == [name |-> "local1", body |-> Si5345Body, input |-> 0]
LocalClockPll2 == [name |-> "local2", body |-> Si5345Body, input |-> 0]
TtcClockPll1 == [name |-> "ttc1", body |-> Si5345Body, input |-> 1]
TtcClockPll2 == [name |-> "ttc2", body |-> Si5345Body, input |-> 1]
ORC511Pll == [name |-> "orc511", body |-> Si5345Body, input |-> 0]
Si5344 == [name |-> "tfc40", body |-> Si5344Body, input |-> 0]

RegisterMaps == {LocalClockPll1, LocalClockPll2, TtcClockPll1, TtcClockPll2,
                 ORC511Pll, Si5344}
Map(name) == CHOOSE m \in RegisterMaps : m.name = name

Sections(m) == Preamble \o m.body \o Postamble
PageOf(m, k) == Sections(m)[k][1]
LastSection == 16
InBody(k) == k > Len(Preamble) /\ k <= LastSection - Len(Postamble)
Pages == {Si5345Body[k][1] : k \in 1..Len(Si5345Body)}

(* configurePlls(): the maps of the three chips *)
MapsFor(clock, testMode) ==
  IF testMode THEN <<ORC511Pll, ORC511Pll, Si5344>>
  ELSE IF clock = "local" THEN <<LocalClockPll1, LocalClockPll2, Si5344>>
  ELSE <<TtcClockPll1, TtcClockPll2, Si5344>>
-----------------------------------------------------------------------------
VARIABLES
  scene,     \* one of Scenes
  chip,      \* SI5345_1, SI5345_2, SI5344: selected page, held, map of each page
  testMode,  \* testModeORC501
  refGen,    \* the reference generator of the PON is on
  ttcData,   \* clock and sticky-clear bits of TTC_DATA
  owner,     \* who has the I2C lock of the card
  does,      \* what each tool does next
  section,   \* <<chip, section>> a tool programs next
  wanted,    \* clock and force-config of each call
  seen,      \* the clock report() read
  copy,      \* TTC_DATA as read by modifyRegister()
  lost, killed, \* how often
  whole,     \* the clock that was programmed last, all of it, or "none"
  alone,     \* the calls that no other tool got in the way of
  clean,     \* no call was ever killed or had another in its way
  stale      \* tools whose copy of TTC_DATA is out of date

clockVars == <<scene, chip, testMode, refGen, ttcData, owner, does, section, wanted,
               seen, copy, lost, killed, whole, alone, clean, stale>>

Holds(c, m) == [page |-> c.page, held |-> FALSE, body |-> [p \in Pages |-> m.name]]
Programmed(clock) ==
  \A j \in 1..3 : chip[j] = Holds(chip[j], MapsFor(clock, testMode)[j])

(* What a tool has read is forgotten once it is used. *)
NoCopy == [clock |-> "local", clear |-> FALSE]
ForgetClock(t) == seen' = [seen EXCEPT ![t] = "local"]

ClockInit ==
  /\ scene \in Scenes
  /\ testMode \in BOOLEAN
  /\ chip = [j \in 1..3 |->
       [page |-> 11, held |-> FALSE,
        body |-> [p \in Pages |-> MapsFor("local", testMode)[j].name]]]
  /\ refGen = FALSE /\ ttcData = [clock |-> "local", clear |-> FALSE]
  /\ owner = "nobody" /\ whole = "local"
  /\ does = [t \in ClockTools |-> "idle"]
  /\ section = [t \in ClockTools |-> <<1, 0>>]
  /\ wanted = [t \in ClockTools |-> [clock |-> "local", force |-> FALSE]]
  /\ seen = [t \in ClockTools |-> "local"]
  /\ copy = [t \in ClockTools |-> NoCopy]
  /\ lost = 0 /\ killed = 0
  /\ alone = ConfigTools /\ clean = TRUE /\ stale = {}

Goes(t, from, to) == does[t] = from /\ does' = [does EXCEPT ![t] = to]

(* A transfer is lost, or not. *)
Lose(n) == lost' = lost + n /\ (n > 0 => lost + killed < scene.faults)
-----------------------------------------------------------------------------
Resting(t) == does[t] \in {"idle", "done"}

(* A tool starts.  Only configuring disturbs what another one configures.  *)
StartConfig(t, clock, force) ==
  /\ Resting(t) /\ does' = [does EXCEPT ![t] = "lock"]
  /\ wanted' = [wanted EXCEPT ![t] = [clock |-> clock, force |-> force]]
  /\ LET busy == {u \in ConfigTools \ {t} : ~Resting(u)}
     IN  /\ alone' = IF busy = {} THEN {t} ELSE {}
         /\ clean' = (clean /\ busy = {})
  /\ UNCHANGED <<scene, chip, testMode, refGen, ttcData, owner, section, seen, copy,
                 lost, killed, whole, stale>>

StartStatus(t) ==
  /\ Resting(t) /\ does' = [does EXCEPT ![t] = "lock"]
  /\ UNCHANGED <<scene, chip, testMode, refGen, ttcData, owner, section, wanted, seen,
                 copy, lost, killed, whole, alone, clean, stale>>

(* The lock is taken, or the wait for it ends with an exception. *)
Locked(t, from, to) ==
  \/ Goes(t, from, to) /\ owner = "nobody" /\ owner' = t
  \/ Goes(t, from, "idle") /\ owner # "nobody" /\ UNCHANGED owner

(* getPllClock() *)
LockToRead(t) ==
  /\ Locked(t, "lock", "select")
  /\ UNCHANGED <<scene, chip, testMode, refGen, ttcData, section, wanted, seen, copy,
                 lost, killed, whole, alone, clean, stale>>

(* Mutant: the register is read on the page that happens to be selected. *)
SelectClockPage_Bare(t) ==
  /\ Goes(t, "select", "read")
  /\ UNCHANGED <<scene, chip, testMode, refGen, ttcData, owner, section, wanted, seen, copy,
                 lost, killed, whole, alone, clean, stale>>

(* getSelectedClock(), of the second chip: page 5, then register 0x2A. *)
SelectClockPage(t) ==
  /\ Goes(t, "select", "read")
  /\ \/ chip' = [chip EXCEPT ![2].page = 5] /\ Lose(0)
     \/ chip' = chip /\ Lose(1)
  /\ UNCHANGED <<scene, testMode, refGen, ttcData, owner, section, wanted, seen, copy,
                 killed, whole, alone, clean, stale>>

(* Another page, a page that is not as any map has it, or a lost transfer  *)
(* reads anything.                                                         *)
Selected(c) ==
  IF c.page = 5 /\ c.body[5] # "spoilt"
  THEN {IF Map(c.body[5]).input = 0 THEN "local" ELSE "ttc"}
  ELSE Clocks
ReadClock(t) ==
  /\ Goes(t, "read", IF t \in ConfigTools THEN "compare" ELSE "sticky")
  /\ IF t \in StatusTools THEN (Lose(0) \/ Lose(1)) /\ UNCHANGED seen
     ELSE \/ Lose(0) /\ \E c \in Selected(chip[2]) : seen' = [seen EXCEPT ![t] = c]
          \/ Lose(1) /\ \E c \in Clocks : seen' = [seen EXCEPT ![t] = c]
  /\ owner' = IF owner = t THEN "nobody" ELSE owner
  /\ UNCHANGED <<scene, chip, testMode, refGen, ttcData, section, wanted, copy, killed,
                 whole, alone, clean, stale>>
-----------------------------------------------------------------------------
(* configure(): only a clock that is not as reported is set, or a forced   *)
(* one.  The reference generator stays on once the TTC clock was asked for. *)
SetRefGen(clock) == refGen' = (refGen \/ clock = "ttc")

CompareClock(t) ==
  /\ IF wanted[t].force \/ wanted[t].clock # seen[t]
     THEN /\ Goes(t, "compare", "lockPlls")
          /\ SetRefGen(wanted[t].clock)
     ELSE Goes(t, "compare", "done") /\ UNCHANGED refGen
  /\ ForgetClock(t)
  /\ UNCHANGED <<scene, chip, testMode, ttcData, owner, section, wanted, copy,
                 lost, killed, whole, alone, clean, stale>>

(* configurePlls() *)
LockPlls(t) ==
  /\ Locked(t, "lockPlls", "program")
  /\ section' = [section EXCEPT ![t] = <<1, 0>>]
  /\ UNCHANGED <<scene, chip, testMode, refGen, ttcData, wanted, seen, copy, lost,
                 killed, whole, alone, clean, stale>>

(* Section k of a map is written to the page that is selected. *)
WriteSection(c, m, k) ==
  CASE k = 0 -> [c EXCEPT !.page = 0]
    [] c.page # PageOf(m, k) -> [c EXCEPT !.body[c.page] = "spoilt"]
    [] InBody(k) -> [c EXCEPT !.body[c.page] = m.name]
    [] k = 1     -> [c EXCEPT !.held = TRUE]
    [] k = LastSection  -> [c EXCEPT !.held = FALSE]
    [] OTHER     -> c
SpoilSection(c, k) == IF InBody(k) THEN [c EXCEPT !.body[c.page] = "spoilt"] ELSE c
SelectPage(c, m, k) == [c EXCEPT !.page = IF k > LastSection THEN @ ELSE PageOf(m, k)]

(* configurePll(), a section at a time, with the selection of the next     *)
(* page: section 0 only selects, first page 0.  A page that could not be   *)
(* selected sends the next section to another one.                         *)
ConfigurePll(t) ==
  LET j == section[t][1]
      k == section[t][2]
      m == MapsFor(wanted[t].clock, testMode)[j]
      last == k = LastSection /\ j = 3
      written == WriteSection(chip[j], m, k)
  IN  /\ does[t] = "program"
      /\ \/ chip' = [chip EXCEPT ![j] = SelectPage(written, m, k + 1)] /\ Lose(0)
         \/ chip' = [chip EXCEPT ![j] = written] /\ Lose(1)
         \/ chip' = [chip EXCEPT ![j] = SelectPage(SpoilSection(@, k), m, k + 1)] /\ Lose(1)
      /\ section' = [section EXCEPT ![t] = IF k < LastSection THEN <<j, k + 1>>
                                           ELSE IF last THEN <<1, 0>> ELSE <<j + 1, 0>>]
      /\ does' = IF last THEN [does EXCEPT ![t] = "ref"] ELSE does
      /\ owner' = IF last THEN "nobody" ELSE owner
      /\ whole' = IF last /\ lost' = 0 THEN wanted[t].clock ELSE "none"
      /\ UNCHANGED <<scene, testMode, refGen, ttcData, wanted, seen, copy, killed, alone, clean, stale>>
-----------------------------------------------------------------------------
(* modifyRegister(TTC_DATA): read, and write it all back later.            *)
ReadTtcData(t, from, to) ==
  /\ Goes(t, from, to)
  /\ copy' = [copy EXCEPT ![t] = ttcData] /\ stale' = stale \ {t}
  /\ UNCHANGED <<scene, chip, testMode, refGen, ttcData, owner, section, wanted, seen,
                 lost, killed, whole, alone, clean>>
WriteTtcData(t, from, to, value) ==
  /\ Goes(t, from, to)
  /\ ttcData' = value /\ copy' = [copy EXCEPT ![t] = NoCopy]
  /\ stale' = (stale \ {t}) \cup {u \in ClockTools \ {t} :
                                    does[u] \in {"setClock", "setClear", "clear"}}
  /\ alone' = IF t \in stale THEN {} ELSE alone
  /\ clean' = (clean /\ t \notin stale)
  /\ UNCHANGED <<scene, chip, testMode, refGen, owner, section, wanted, seen,
                 lost, killed, whole>>

(* setClock(), after the PLLs: bits 0 and 1. *)
ReadForClock(t) == ReadTtcData(t, "ref", "setClock")
SetTtcClock(t) ==
  WriteTtcData(t, "setClock", "done", [copy[t] EXCEPT !.clock = wanted[t].clock])

(* getOnuStickyStatus(): bit 28 on and off; a monitoring call uses a       *)
(* register of its own instead.                                            *)
Monitoring(t) ==
  /\ Goes(t, "sticky", "idle")
  /\ UNCHANGED <<scene, chip, testMode, refGen, ttcData, owner, section, wanted, seen,
                 copy, lost, killed, whole, alone, clean, stale>>
ReadForSticky(t) == ReadTtcData(t, "sticky", "setClear")
SetClear(t) == WriteTtcData(t, "setClear", "set", [copy[t] EXCEPT !.clear = TRUE])
ReadToClear(t) == ReadTtcData(t, "set", "clear")
ClearClear(t) == WriteTtcData(t, "clear", "idle", [copy[t] EXCEPT !.clear = FALSE])

(* A tool is killed, in the middle of a section if it programs; the system *)
(* gives its lock back.                                                    *)
Kill(t) ==
  /\ ~Resting(t) /\ lost + killed < scene.faults /\ killed' = killed + 1
  /\ does' = [does EXCEPT ![t] = "idle"]
  /\ IF does[t] = "program"
     THEN \/ UNCHANGED chip
          \/ chip' = [chip EXCEPT ![section[t][1]] = SpoilSection(@, section[t][2])]
     ELSE UNCHANGED chip
  /\ section' = [section EXCEPT ![t] = <<1, 0>>]
  /\ owner' = IF owner = t THEN "nobody" ELSE owner
  /\ whole' = IF does[t] \in {"program", "ref", "setClock"} THEN "none" ELSE whole
  /\ stale' = stale \ {t} /\ clean' = FALSE
  /\ ForgetClock(t) /\ copy' = [copy EXCEPT ![t] = NoCopy]
  /\ UNCHANGED <<scene, testMode, refGen, ttcData, wanted, lost, alone>>

ClockNext ==
  \/ \E t \in ConfigTools \cap scene.tools :
       \/ \E c \in Clocks, f \in BOOLEAN : StartConfig(t, c, f)
       \/ CompareClock(t) \/ LockPlls(t) \/ ConfigurePll(t)
       \/ ReadForClock(t) \/ SetTtcClock(t)
  \/ \E t \in StatusTools \cap scene.tools :
       \/ StartStatus(t) \/ Monitoring(t) \/ ReadForSticky(t) \/ SetClear(t)
       \/ ReadToClear(t) \/ ClearClear(t)
  \/ \E t \in scene.tools :
       \/ LockToRead(t) \/ SelectClockPage(t) \/ ReadClock(t) \/ Kill(t)

ClockSpec == ClockInit /\ [][ClockNext]_clockVars
-----------------------------------------------------------------------------
(* A programming that no one interrupted and that lost nothing leaves every*)
(* page of every chip with its map, and no chip held (configurePlls),      *)
(* however often the clock was read meanwhile.                             *)
PllsAreWhole == whole # "none" => Programmed(whole)

(* A call that returned, and that no other call and no lost transfer got   *)
(* in the way of, has the clock it was asked for in the PLLs and in        *)
(* TTC_DATA: always when forced, and else if the programming before it was *)
(* whole, as only the report of one PLL decides (CruBar::configure).       *)
ClockIsAsked ==
  \A t \in ConfigTools :
    does[t] = "done" /\ t \in alone /\ lost = 0 /\ (wanted[t].force \/ (clean /\ ~testMode))
      => /\ whole = wanted[t].clock
         /\ ttcData.clock = wanted[t].clock
         /\ wanted[t].clock = "ttc" => refGen

(* A PLL is right when its programming was whole, and a call gets the      *)
(* clock it asks for (Ttc::setClock).                                      *)
ClockIsRight == PllsAreWhole /\ ClockIsAsked
=============================================================================
