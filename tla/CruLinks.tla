------------------------------- MODULE CruLinks -------------------------------
(***************************************************************************)
(* The links of a CRU endpoint: how they are found and numbered            *)
(* (CruBar::initializeLinkMap), where their registers are (Gbt,            *)
(* DatapathWrapper), and what the tools do with the numbers: configure a   *)
(* link, test it in loopback, report its optical power, count its packets, *)
(* choose the links a DMA channel serves.                                  *)
(*                                                                         *)
(* The registers of a GBT wrapper say how many links each bank has.  An    *)
(* endpoint has two banks of six; fibre n of its optical receiver is the   *)
(* link numbered n.                                                        *)
(***************************************************************************)
EXTENDS Integers, FiniteSets

CONSTANTS WrapperConfs, \* links of banks 0 to 5, as GBT_WRAPPER_CONF0 may say
          LinkMasks     \* --links

VARIABLES
  endpoint, conf, running, linkMap, \* running: wrappers whose clock counter runs
  askedFor,    \* the ids that were asked for last
  enreg,     \* DWRAPPER_ENREG of the endpoint: the ids that are enabled
  generator, \* links whose data comes from the internal generator
  tested,    \* links tested since the endpoint was configured
  taking,    \* {the links of a channel opened since then}
  optical,   \* what o2-roc-status says: link -> fibre whose power it is
  packets    \* what o2-roc-pkt-monitor says since then: id -> counters it read, if any

linkVars == <<endpoint, conf, running, linkMap, askedFor, enreg, generator, tested, taking,
              optical, packets>>
-----------------------------------------------------------------------------
(* setWrapperCount() counts the wrappers that run, and the first ones are  *)
(* looked at.                                                              *)
WrapperCount == Cardinality(running)

(* The banks, up to one without links, and the links in the order found.   *)
First == 2 * endpoint
BanksFound == {b \in First..First+3 : \A d \in First..b : conf[d] > 0}
LinksFound == UNION {{<<w, b, l>> : l \in 0..conf[b]-1} :
                       w \in 0..WrapperCount-1, b \in BanksFound}
Index(x) ==
  LET in(banks) == Cardinality({p \in banks \X (0..15) : p[2] < conf[p[1]]})
  IN  x[1] * in(BanksFound) + in(First..x[2]-1) + x[3]

(* Mutant: the banks of endpoint 1 are counted from 0. *)
NewPosition_Bank0(x) == (Index(x) - x[2] * 6) * 2 + (x[2] % 2)

(* "new" positions, even in the first bank and odd in the second           *)
NewPosition(x) == (Index(x) - (x[2] - First) * 6) * 2 + (x[2] % 2)

(* Of links with the same position the first is kept. *)
InitializedLinkMap ==
  LET position == [x \in LinksFound |-> NewPosition(x)]
      index == [x \in LinksFound |-> Index(x)]
      at(p) == {x \in LinksFound : position[x] = p}
  IN  [p \in {position[x] : x \in LinksFound} |->
         CHOOSE x \in at(p) : \A y \in at(p) : index[x] <= index[y]]
Numbered == DOMAIN linkMap

(* The datapath wrapper and its id: C++'s remainder of a negative position *)
(* is negative, and no id.                                                 *)
Dwrapper(x) == IF x[2] < 2 THEN 0 ELSE 1
DwrapperId(p) == IF p < 0 THEN -((-p) % 12) ELSE p % 12

RunStatistics == IF endpoint = 0 THEN 13 ELSE 14
UserLogic == 15
-----------------------------------------------------------------------------
(* Addresses *)
WrapperBase(w) == IF w = 0 THEN 4194304 ELSE 5242880
LinkBase(x) == WrapperBase(x[1]) + 131072 * (x[2] + 1) + 8192 * (x[3] + 1)
GbtRegisters ==
  [status |-> 0, txClock |-> 4, rxClock |-> 8, rxErrors |-> 16, fec |-> 28,
   maskHigh |-> 32, maskMed |-> 36, maskLow |-> 40, txControl |-> 44,
   sourceSelect |-> 48, clearErrors |-> 56, rxControl |-> 60, glitches |-> 68]
TransceiverRegisters == {0, 256, 321, 362, 640, 641}
TransceiverAddress(x, r) == LinkBase(x) + 4096 + 4 * r
BankPll(x) == WrapperBase(x[1]) + 131072 * (x[2] + 1) + 57344
DwrapperBase(d) == IF d = 0 THEN 6291456 ELSE 7340032
DatapathRegisters == [control |-> 0, ids |-> 4, rejected |-> 8, accepted |-> 12, forced |-> 16,
                      processed |-> 20, protocol |-> 24, check1 |-> 28, check2 |-> 32,
                      oversize |-> 36, orbit |-> 40]
DatapathAddress(d, id, r) ==
  DwrapperBase(d) + 262144 + 8192 * id + DatapathRegisters[r]
MuxField(p) == LET i == p + 12 * endpoint IN <<28 + 4 * (i \div 8), 4 * (i % 8)>>

(* All that belongs to link p *)
PlacesOf(p) ==
  {<<LinkBase(linkMap[p]) + GbtRegisters[r], 0>> : r \in DOMAIN GbtRegisters}
    \cup {<<TransceiverAddress(linkMap[p], r), 0>> : r \in TransceiverRegisters}
    \cup {<<DatapathAddress(Dwrapper(linkMap[p]), DwrapperId(p), r), 0>> :
             r \in DOMAIN DatapathRegisters}
    \cup {MuxField(p)}
PlacesOfBanks == {<<BankPll(linkMap[p]), 0>> : p \in 0..11}
-----------------------------------------------------------------------------
NotMonitored == [links |-> << >>, wrapper |-> << >>]

LinksInit ==
  /\ endpoint \in {0, 1} /\ conf \in WrapperConfs /\ running \in SUBSET {0, 1}
  /\ linkMap = InitializedLinkMap
  /\ askedFor = {} /\ enreg = {} /\ generator = {} /\ tested = {} /\ taking = {}
  /\ optical = << >> /\ packets = NotMonitored

(* configure(): populateLinkMap() takes the links off the generator; the   *)
(* datapath enables those of the mask and disables the others.  User logic *)
(* and run statistics have ids of their own.                               *)
ConfigureLinks(mask, extra) ==
  /\ askedFor' = (Numbered \cap mask) \cup extra
  /\ generator' = generator \ mask /\ tested' = {} /\ taking' = {} /\ packets' = NotMonitored
  /\ enreg' = (enreg \ ({DwrapperId(p) : p \in Numbered} \cup {RunStatistics, UserLogic}))
                \cup {DwrapperId(p) : p \in Numbered \cap mask} \cup extra
  /\ UNCHANGED <<endpoint, conf, running, linkMap, optical>>

(* o2-roc-loopback (Gbt::getLoopbackStats): leaves the generator on. *)
TestLoopback(mask) ==
  /\ generator' = generator \cup (Numbered \cap mask)
  /\ tested' = tested \cup (Numbered \cap mask)
  /\ UNCHANGED <<endpoint, conf, running, linkMap, askedFor, enreg, taking, optical,
                 packets>>

(* getDataTakingLinks(), when a DMA channel is opened *)
OpenChannel ==
  /\ taking' = {{p \in Numbered : DwrapperId(p) \in enreg}
                  \cup ({RunStatistics, UserLogic} \cap enreg)}
  /\ UNCHANGED <<endpoint, conf, running, linkMap, askedFor, enreg, generator, tested, optical,
                 packets>>

(* report() and getOpticalPower(): the powers, of the fibres in reverse    *)
(* order, go to the links that the mask leaves in the map.                 *)
ReportOptical(mask) ==
  LET shown == Numbered \cap mask
  IN  /\ optical' = [p \in shown |-> Cardinality({q \in shown : q < p})]
      /\ UNCHANGED <<endpoint, conf, running, linkMap, askedFor, enreg, generator, tested, taking,
                     packets>>

(* monitorPackets(): the counters of run statistics and of user logic, of  *)
(* the links, which are not read while user logic is enabled, and of the   *)
(* datapath wrapper.                                                       *)
NotRead == << >>
Counters(d, id) == <<DatapathAddress(d, id, "accepted"), DatapathAddress(d, id, "rejected"),
                     DatapathAddress(d, id, "forced")>>
WrapperPacketInfo(d) == <<DwrapperBase(d) + 28, DwrapperBase(d) + 44>> \* dropped, per second
OwnIds == {RunStatistics, UserLogic}
LinkPacketInfoMap ==
  [id \in OwnIds \cup Numbered |->
     IF id \in OwnIds THEN Counters(endpoint, id)
     ELSE IF UserLogic \in enreg THEN NotRead
     ELSE Counters(Dwrapper(linkMap[id]), DwrapperId(id))]

MonitorPackets ==
  /\ packets' = [links |-> LinkPacketInfoMap, wrapper |-> WrapperPacketInfo(endpoint)]
  /\ UNCHANGED <<endpoint, conf, running, linkMap, askedFor, enreg, generator, tested, taking,
                 optical>>

LinksNext ==
  \/ \E m \in LinkMasks : \/ \E x \in SUBSET {RunStatistics, UserLogic} : ConfigureLinks(m, x)
                          \/ TestLoopback(m) \/ ReportOptical(m)
  \/ OpenChannel \/ MonitorPackets
LinksSpec == LinksInit /\ [][LinksNext]_linkVars
-----------------------------------------------------------------------------
Regular == running # {} /\ conf[First] = 6 /\ conf[First + 1] = 6

(* In an endpoint of two banks of six links, the links 0 to 11 are the     *)
(* twelve of its banks, alternating, in its datapath wrapper under their   *)
(* number, whatever banks follow, and no two share a register or a field,  *)
(* nor does one lie where a bank has its PLL (initializeLinkMap).  So a    *)
(* channel serves the links that were asked for (getDataTakingLinks), and  *)
(* but for one that was tested since they have their data from the fibre.  *)
(* A report on all links has the optical power of each one's own fibre     *)
(* (getOpticalPower; one on some of them counts the fibres from the first  *)
(* link it shows), and packets of a link are counted from its own counters *)
(* or, with user logic, not at all (monitorPackets).                       *)
LinksAreRight ==
  Regular =>
    /\ 0..11 \subseteq Numbered
    /\ \A p \in 0..11 : /\ linkMap[p] = <<0, First + (p % 2), p \div 2>>
                        /\ Dwrapper(linkMap[p]) = endpoint /\ DwrapperId(p) = p
    /\ Cardinality(UNION {PlacesOf(p) : p \in 0..11} \cup PlacesOfBanks)
         = 12 * Cardinality(PlacesOf(0)) + 2
    /\ WrapperCount = 1 => \A links \in taking : links = askedFor
    /\ askedFor \cap generator \subseteq tested
    /\ 0..11 \subseteq DOMAIN optical => \A p \in 0..11 : optical[p] = p
    /\ packets # NotMonitored =>
         \A p \in 0..11 :
           /\ packets.links[p] = IF UserLogic \in enreg THEN NotRead ELSE Counters(endpoint, p)
           /\ packets.wrapper = WrapperPacketInfo(Dwrapper(linkMap[p]))
           /\ \A id \in OwnIds : packets.links[id] = Counters(endpoint, id)
=============================================================================
