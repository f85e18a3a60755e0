------------------------------- MODULE PageCheck -------------------------------
(***************************************************************************)
(* What o2-roc-bench-dma checks of the DMA pages it reads out: the size in *)
(* the header, the packet counter of the link, the start of time frames,   *)
(* the data of the generators (readoutPage, checkErrorsCruDdg,             *)
(* checkErrorsCruInternal, checkErrorsCrorc, checkTimeFrameAlignment).     *)
(* Every counter has the width of its type; after an error the counters of *)
(* the link are taken from its next page.                                  *)
(*                                                                         *)
(* The card sends pages of several links, a superpage of one link after    *)
(* another, a time frame beginning with a superpage.  Pages may be lost on *)
(* the way, spoilt, too short, or a frame begins inside a superpage.       *)
(***************************************************************************)
EXTENDS Integers, FiniteSets

CONSTANTS PageLinks, DataSources, Frequencies, \* --data-source, --error-check-frequency
          PacketCounters, Events,          \* 2^8, 2^32 - 1
          DataCounters, Orbits,            \* 2^32
          FrameLength, LastOrbit,          \* the orbits that are sent
          MaxPages, MaxFlaws

(* The links have numbers, a C-RORC only the first; no run is so long that *)
(* its orbits wrap.                                                        *)
ASSUME PageAssumption ==
  /\ PageLinks \subseteq Nat /\ ("crorc" \in DataSources => 0 \in PageLinks)
  /\ Frequencies \subseteq Nat \ {0}
  /\ {PacketCounters, Events, DataCounters, FrameLength} \subseteq Nat \ {0}
  /\ {Orbits, LastOrbit} \subseteq Nat /\ LastOrbit + FrameLength < Orbits

Unset == -1                   \* no value of an 8-bit packet counter
DataUnset == DataCounters - 1 \* but the last value of a 32-bit data counter

VARIABLES
  setup,     \* the options; the orbit of the SOX, or 0 without one
  sending,   \* of each link: orbit, pages, packet and data counter
  reading,   \* the link whose superpage is read
  counters,  \* of each link: mEventCounters, mPacketCounters, mDataGeneratorCounters
  nextFrame, \* mNextTFOrbit
  guard, prevOrbit,
  page,      \* the page that is checked, and what is left to check of it
  errorsTold, \* its errors
  flaws,     \* of all pages so far
  missing    \* pages lost since, or not taken as, the one a link's counters are from

pageVars == <<setup, sending, reading, counters, nextFrame, guard, prevOrbit, page,
              errorsTold, flaws, missing>>

NoPage == [left |-> "nothing", checked |-> FALSE, link |-> Unset, orbit |-> 0, start |-> FALSE,
           sox |-> FALSE, flaw |-> "none", data |-> 0, missing |-> 0, leads |-> FALSE]

PageInit ==
  /\ setup \in [source : DataSources, frequency : Frequencies, resync : BOOLEAN, sox : {0, 1}]
  /\ setup.source = "internal" => setup.sox = 0
  /\ sending = [l \in PageLinks |-> [orbit |-> setup.sox, pages |-> 0, packet |-> 0, data |-> 0]]
  /\ reading = Unset /\ page = NoPage /\ errorsTold = {} /\ flaws = 0
  /\ counters = [l \in PageLinks |-> [event |-> Events, packet |-> Unset, data |-> DataUnset]]
  /\ nextFrame = 0 /\ guard = FALSE /\ prevOrbit = 0
  /\ missing = [l \in PageLinks |-> 0]

Internal == setup.source = "internal"
Frame(orbit) == (orbit - setup.sox) \div FrameLength
PagesSent == {sending[l].pages : l \in PageLinks}
-----------------------------------------------------------------------------
(* The next page from the card *)
Arrives(l, orbit, lost, flaw, start) ==
  LET s == sending[l]
      n == lost + 1
  IN  /\ orbit <= LastOrbit
      /\ l # reading => start
      /\ setup.sox = 1 /\ s.pages = 0 => orbit = 1
      /\ flaw # "late" => (Frame(orbit) # Frame(s.orbit) \/ s.pages = 0 => start)
      /\ flaw = "late" => Frame(orbit) # Frame(s.orbit) /\ ~start
      /\ flaws' = flaws + (IF lost > 0 THEN 1 ELSE 0) + (IF flaw # "none" THEN 1 ELSE 0)
      /\ flaws' <= MaxFlaws
      /\ sending' = [sending EXCEPT ![l] =
           [orbit |-> orbit, pages |-> s.pages + n, packet |-> (s.packet + n) % PacketCounters,
            data |-> (s.data + n) % DataCounters]]
      /\ reading' = l

InSync(l) == IF Internal THEN counters[l].data # DataUnset ELSE counters[l].packet # Unset
Event(l) == ((counters[l].event + 1) % (Events + 1)) % Events
Checked(l) == Event(l) % setup.frequency = 0

(* The header: its size, and a counter that went on by the pages since the *)
(* last one that was checked.  Of a C-RORC, which has one link, only a     *)
(* size that is too large is seen.                                         *)
SizeIsWrong(flaw) == flaw = "large" \/ (flaw = "short" /\ setup.source # "crorc")
PacketIsWrong(l, packet) ==
  /\ counters[l].packet # Unset
  /\ (counters[l].packet + setup.frequency) % PacketCounters # packet

HeaderErrors(l, packet, flaw) ==
  IF Internal THEN {}
  ELSE IF SizeIsWrong(flaw) THEN {"size"}
  ELSE IF PacketIsWrong(l, packet) THEN {"packet"} ELSE {}

(* readoutPage(): a page that is not checked only counts.  An error ends   *)
(* the check, and forgets the counters of the link.                        *)
Forgotten(c) ==
  IF setup.resync THEN [c EXCEPT !.packet = Unset, !.data = DataUnset] ELSE c

ReadoutPage(l, orbit, lost, flaw, start) ==
  LET packet == (sending[l].packet + lost) % PacketCounters
      data == (sending[l].data + lost) % DataCounters
      errors == IF Checked(l) THEN HeaderErrors(l, packet, flaw) ELSE {}
      counted == [counters[l] EXCEPT !.event = Event(l)]
      gone == IF InSync(l) THEN missing[l] + lost ELSE 0
  IN  /\ Arrives(l, orbit, lost, flaw, start)
      /\ errorsTold' = errors
      /\ page' = [left |-> IF ~Checked(l) \/ errors # {} THEN "nothing"
                           ELSE IF Internal THEN "data" ELSE "frame",
                  checked |-> Checked(l),
                  link |-> l, orbit |-> orbit, start |-> start, flaw |-> flaw, data |-> data,
                  sox |-> setup.sox = 1 /\ sending[l].pages = 0,
                  missing |-> gone,
                  leads |-> \A k \in PageLinks : Frame(orbit) > Frame(sending[k].orbit)]
      /\ counters' = [counters EXCEPT ![l] =
           IF errors # {} THEN Forgotten(counted)
           ELSE IF Checked(l) /\ ~Internal THEN [counted EXCEPT !.packet = packet] ELSE counted]
      /\ missing' = [missing EXCEPT ![l] =
           IF ~Checked(l) \/ Internal THEN gone
           ELSE IF errors = {} \/ setup.resync THEN 0 ELSE gone + setup.frequency]
      /\ UNCHANGED <<setup, nextFrame, guard, prevOrbit>>
-----------------------------------------------------------------------------
(* checkTimeFrameAlignment(), with static overflowGuard and prevOrbit and  *)
(* 32-bit orbits; the data of a front end is not looked at.                *)
AfterFrame == IF setup.source = "fee" THEN "nothing" ELSE "data"
Guarded == guard /\ prevOrbit <= page.orbit

CheckFrame ==
  /\ page.left = "frame"
  /\ prevOrbit' = page.orbit
  /\ guard' = Guarded
  /\ LET begins == ~page.sox /\ ~Guarded /\ page.orbit >= nextFrame
     IN  /\ errorsTold' = IF begins /\ ~page.start THEN errorsTold \cup {"frame"} ELSE errorsTold
         /\ page' = [page EXCEPT !.left = IF begins /\ page.start THEN "frames" ELSE AfterFrame]
  /\ nextFrame' = IF page.sox THEN (page.orbit + FrameLength) % Orbits ELSE nextFrame
  /\ UNCHANGED <<setup, sending, reading, counters, flaws, missing>>

(* The frames up to the orbit of the page.  The guard is to be set by bit  *)
(* 32 of the sum, which has 32 bits.                                       *)
NextFrame ==
  /\ page.left = "frames"
  /\ IF nextFrame <= page.orbit
     THEN /\ nextFrame' = (nextFrame + FrameLength) % Orbits
          /\ guard' = (nextFrame' >= Orbits)
          /\ UNCHANGED page
     ELSE page' = [page EXCEPT !.left = AfterFrame] /\ UNCHANGED <<nextFrame, guard>>
  /\ UNCHANGED <<setup, sending, reading, counters, prevOrbit, errorsTold, flaws, missing>>

(* The data, a word in each page here: that of the CRU's internal          *)
(* generator continues from page to page, the others' is compared with the *)
(* first word of the page itself.  In a page of a C-RORC that is shorter   *)
(* than its header there is no end to the data: the process dies.          *)
Continued(l) ==
  IF counters[l].data = DataUnset THEN page.data ELSE (counters[l].data + 1) % DataCounters
OwnFirstWord == page.data
RunsOff == page.flaw = "short" /\ setup.source = "crorc"

CheckData ==
  LET l == page.link
      expected == IF Internal THEN Continued(l) ELSE OwnFirstWord
      wrong == page.data # expected \/ page.flaw = "data"
      counted == [counters[l] EXCEPT !.data = IF Internal THEN expected
                                          ELSE (page.data + 1) % DataCounters]
  IN  /\ page.left = "data"
      /\ errorsTold' = IF wrong THEN errorsTold \cup {"data"} ELSE errorsTold
      /\ counters' = [counters EXCEPT ![l] = IF wrong THEN Forgotten(counted) ELSE counted]
      /\ missing' = IF ~wrong \/ setup.resync THEN [missing EXCEPT ![l] = 0] ELSE missing
      /\ page' = [page EXCEPT !.left = IF RunsOff THEN "all" ELSE "nothing"]
      /\ UNCHANGED <<setup, sending, reading, nextFrame, guard, prevOrbit, flaws>>

AllSent == \E k \in PagesSent : k >= MaxPages
PageRests ==
  /\ (page.left = "nothing" /\ AllSent) \/ page.left = "all"
  /\ UNCHANGED pageVars

LinksRead == IF setup.source = "crorc" THEN {0} ELSE PageLinks
Arrival ==
  /\ page.left = "nothing" /\ ~AllSent
  /\ \E l \in LinksRead, lost \in {0, 1, PacketCounters},
        flaw \in {"none", "short", "large", "data", "late"}, start \in BOOLEAN :
       \E orbit \in {sending[l].orbit, sending[l].orbit + 1} :
         ReadoutPage(l, orbit, lost, flaw, start)
PageNext == Arrival \/ CheckFrame \/ NextFrame \/ CheckData \/ PageRests

PageSpec == PageInit /\ [][PageNext]_pageVars
             /\ WF_pageVars(CheckFrame \/ NextFrame \/ CheckData)
-----------------------------------------------------------------------------
(* What is reported of a page is wrong with it: an error of the header,    *)
(* of the counters, of the frame or of the data is reported of a page that *)
(* has it, or was lost pages before (readoutPage and the checks it calls). *)
(* Left out are the wrap of the event counter at a value that is no        *)
(* multiple of the frequency, pages between those that are checked for the *)
(* CRU's internal generator, and frames that begin in them.                *)
CounterWraps == Events % setup.frequency # 0 /\ \E k \in PagesSent : k > Events
OnlyRealErrors ==
  /\ "size" \in errorsTold => page.flaw \in {"short", "large"}
  /\ "packet" \in errorsTold => page.missing # 0 \/ CounterWraps
  /\ "data" \in errorsTold => page.flaw = "data"
                        \/ (Internal /\ (page.missing # 0 \/ setup.frequency > 1))
  /\ "frame" \in errorsTold => flaws > 0 \/ setup.frequency > 1

(* What is wrong with a page that is checked is reported, pages lost       *)
(* before it too, unless an error found before ends the check of the page. *)
(* A number of lost pages that is a multiple of 2^8 is not seen, and a     *)
(* frame inside a superpage only of the link that is ahead.  A page of a   *)
(* C-RORC that is too short is not seen to be.                             *)
EndsCheck == {"size", "packet"}
EveryErrorIsTold ==
  page.checked /\ page.left = "nothing" =>
    /\ page.flaw = "large" /\ ~Internal => "size" \in errorsTold
    /\ page.flaw = "short" /\ setup.source \in {"ddg", "fee"} => "size" \in errorsTold
    /\ page.missing % PacketCounters # 0 /\ ~Internal /\ ~CounterWraps
         => EndsCheck \cap errorsTold # {}
    /\ page.missing % DataCounters # 0 /\ Internal /\ setup.frequency = 1
         => "data" \in errorsTold
    /\ page.flaw = "data" /\ setup.source # "fee"
         => (EndsCheck \cup {"data"}) \cap errorsTold # {}
    /\ page.flaw = "late" /\ page.leads /\ flaws = 1 /\ setup.frequency = 1 /\ ~Internal
         => "frame" \in errorsTold

ErrorsAreRight == page.left = "nothing" => OnlyRealErrors /\ EveryErrorIsTold
================================================================================
