------------------------------- MODULE CruFields -------------------------------
(***************************************************************************)
(* The settings of a CRU endpoint as fields of registers: DatapathWrapper, *)
(* Gbt, Ttc and CruBar each write theirs with modifyRegister() or, where   *)
(* they take a register to be all theirs, with writeRegister(), and read   *)
(* it back with a shift and a mask of their own.  Who shares a register    *)
(* with whom follows from the addresses alone.                             *)
(*                                                                         *)
(* A value is the set of its bits; a register that was not written yet     *)
(* holds what the firmware left in it.  The endpoint has two banks of six  *)
(* links (LinksAreRight has the links of such an endpoint); registers of   *)
(* BAR 0 are numbered from Bar0 on.                                        *)
(***************************************************************************)
EXTENDS CruLinks, TLC

CONSTANTS FieldLinks,   \* the links whose settings are made
          MaxFieldCalls \* calls in a behaviour

VARIABLES
  left,       \* what the firmware left in every register
  registers,  \* what the registers hold that were written
  given,      \* setting -> the value it was given last
  fieldCalls

fieldVars == <<left, registers, given, fieldCalls>>

InRegister(a) == IF a \in DOMAIN registers THEN registers[a] ELSE left
Bar0 == \h10000000
Dw(r) == DwrapperBase(endpoint) + r
Gbt(l, r) == LinkBase(<<0, First + (l % 2), l \div 2>>) + GbtRegisters[r]
-----------------------------------------------------------------------------
(* The fields, by who writes them: <<registers, lowest bit, width>>.  The  *)
(* generators of both datapath wrappers are set together.                  *)
OfWrappers(r) == {DwrapperBase(d) + r : d \in {0, 1}}
DatapathFields ==
  [userAndCommonLogic |-> <<{Dw(0)}, 30, 1>>,      dynamicOffset |-> <<{Dw(0)}, 31, 1>>,
   generate           |-> <<OfWrappers(4), 1, 1>>, generatorSource |-> <<OfWrappers(4), 31, 1>>,
   triggerWindow      |-> <<{Dw(\h34)}, 0, 32>>,   dropBadRdh |-> <<{Dw(\h38)}, 0, 32>>,
   flowControl        |-> <<{Dw(\hc0000)}, 0, 32>>]
BarFields ==
  [dataTaking      |-> <<{\h18}, 0, 1>>,           cruId |-> <<{\h18}, 16, 12>>,
   virtualSystemId |-> <<{\h100014}, 16, 8>>,      debugMode |-> <<{Bar0 + \hc00}, 0, 32>>]
FrameFields == [timeFrameLength |-> <<{Bar0 + \hc00}, 20, 12>>]
TtcFields ==
  [clock           |-> <<{\h200000}, 0, 2>>,       downstreamData |-> <<{\h200000}, 16, 2>>,
   onuAddress      |-> <<{\h22a000}, 1, 8>>]
UserLogicFields ==
  [eventSize       |-> <<{\hc80004}, 0, 32>>,      userSystemId |-> <<{\hc8000c}, 0, 32>>,
   userLinkId      |-> <<{\hc80010}, 0, 32>>]
WrapperFields == [counterType |-> <<{WrapperBase(0) + 8}, 7, 1>>]
CardFields ==
  DatapathFields @@ BarFields @@ FrameFields @@ TtcFields @@ UserLogicFields @@ WrapperFields

DatapathLinkFields(l) ==
  [enabled      |-> <<{Dw(0)}, l, 1>>,
   datapathMode |-> <<{DatapathAddress(endpoint, l, "control")}, 0, 32>>]
IdFields(l) ==
  [feeId        |-> <<{DatapathAddress(endpoint, l, "ids")}, 0, 16>>,
   systemId     |-> <<{DatapathAddress(endpoint, l, "ids")}, 16, 8>>]
GbtFields(l) ==
  [mux          |-> <<{MuxField(l)[1]}, MuxField(l)[2], 4>>,
   generator    |-> <<{Gbt(l, "sourceSelect")}, 1, 2>>,
   loopback     |-> <<{Gbt(l, "sourceSelect")}, 4, 1>>,
   txMode       |-> <<{Gbt(l, "txControl")}, 8, 1>>,
   rxMode       |-> <<{Gbt(l, "rxControl")}, 8, 1>>]
LoopbackFields(l) ==
  [patternMode  |-> <<{Gbt(l, "sourceSelect")}, 5, 1>>,
   maskLow      |-> <<{Gbt(l, "maskLow")}, 0, 32>>,
   maskMed      |-> <<{Gbt(l, "maskMed")}, 0, 32>>,
   maskHigh     |-> <<{Gbt(l, "maskHigh")}, 0, 32>>]
LinkFields(l) == DatapathLinkFields(l) @@ IdFields(l) @@ GbtFields(l) @@ LoopbackFields(l)

OfCard == 0 - 1 \* in the place of the link
FieldNames == {<<OfCard, n>> : n \in DOMAIN CardFields}
                \cup {<<l, n>> : l \in FieldLinks, n \in DOMAIN LinkFields(0)}
FieldOf(f) == IF f[1] = OfCard THEN CardFields[f[2]] ELSE LinkFields(f[1])[f[2]]

(* What the reset pulses raise and lower again *)
Pulses ==
  {<<{\h18}, {7, 8}>>, <<{\h240010}, {24}>>, <<{\h22a000}, {0}>>,
   <<OfWrappers(4), {0}>>}
    \cup {<<{Gbt(l, "sourceSelect")}, {6}>> : l \in FieldLinks}

(* Status registers and counters, which are only read *)
DatapathCounters ==
  {DatapathAddress(endpoint, l, r) :
     l \in 0..15, r \in DOMAIN DatapathRegisters \ {"control", "ids"}} \cup {Dw(\h1c), Dw(\h2c)}
GbtCounters ==
  {Gbt(l, r) : l \in 0..11, r \in {"status", "txClock", "rxClock", "rxErrors", "fec", "glitches"}}
TtcCounters ==
  {\h10000c, \h200004, \h200008, \h20000c, \h200014, \h200018, \h200020,
   \h22a00c, \h22a004, \h22a020, \h22a028}
-----------------------------------------------------------------------------
(* A word once bits low to low + width - 1 of it are those of the value    *)
(* (Utilities::setBits).                                                   *)
(* Mutant: the value is not masked with the width. *)
SetBits_Unmasked(word, low, width, value) ==
  (word \ (low..low+width-1)) \cup {low + b : b \in value \cap (0..31-low)}

SetBits(word, low, width, value) ==
  (word \ (low..low+width-1)) \cup {low + b : b \in value \cap (0..width-1)}

(* Of the words written as a whole, that of the datapath mode has a fixed  *)
(* maximal length beside bit 31, debug mode is a 2; the virtual links' FEE *)
(* id is cleared with their system id.                                     *)
WordWith(f, word, value) ==
  LET field == SetBits(word, FieldOf(f)[2], FieldOf(f)[3], value)
  IN  CASE f[2] = "datapathMode"    -> SetBits(2..8, 31, 1, value)
        [] f[2] = "debugMode"       -> SetBits({}, 1, 1, value)
        [] f[2] = "virtualSystemId" -> field \ (0..15)
        [] OTHER                    -> field

(* What the getters make of a register: the ONU address is all above bit   *)
(* 0, debug mode is anything but 0.                                        *)
ReadField(f) ==
  LET word == InRegister(CHOOSE a \in FieldOf(f)[1] : TRUE)
      bits(low, width) == {b \in 0..width-1 : low + b \in word}
  IN  CASE f[2] = "datapathMode" -> bits(31, 1)
        [] f[2] = "debugMode"    -> IF word = {} THEN {} ELSE {0}
        [] f[2] = "onuAddress"   -> bits(1, 31)
        [] OTHER                 -> bits(FieldOf(f)[2], FieldOf(f)[3])

(* Switches, numbers (some with more bits than their field); the generator *)
(* of a link takes its switch in two bits.                                 *)
Switches == {"dropBadRdh", "flowControl", "datapathMode", "debugMode"}
Values(f) ==
  CASE f[2] = "generator" -> {{}, {0, 1}}
    [] FieldOf(f)[3] = 1 \/ f[2] \in Switches -> {{}, {0}}
    [] OTHER -> {{}, {0}, 0..31}
-----------------------------------------------------------------------------
FieldsInit ==
  /\ left \in {{}, 0..31} /\ registers = << >> /\ given = << >> /\ fieldCalls = 0

Calls == fieldCalls < MaxFieldCalls /\ fieldCalls' = fieldCalls + 1 /\ UNCHANGED left

(* A trigger window that needs more than 16 bits is refused. *)
SetField(f, value) ==
  /\ Calls
  /\ f[2] = "triggerWindow" => value \subseteq 0..15
  /\ registers' = [a \in FieldOf(f)[1] |-> WordWith(f, InRegister(a), value)] @@ registers
  /\ given' = (f :> value \cap (0..FieldOf(f)[3]-1)) @@ given

Pulse(p) ==
  /\ Calls
  /\ registers' = [a \in p[1] |-> InRegister(a) \ p[2]] @@ registers
  /\ UNCHANGED given

(* configure() starts with setLinksEnabled(endpoint, 0), which clears all  *)
(* of DWRAPPER_ENREG.                                                      *)
ClearEnables ==
  /\ Calls
  /\ registers' = (Dw(0) :> {}) @@ registers
  /\ given' = [f \in DOMAIN given |-> IF FieldOf(f)[1] = {Dw(0)} THEN {} ELSE given[f]]

PowerCycle ==
  /\ fieldCalls = MaxFieldCalls
  /\ registers' = << >> /\ given' = << >> /\ fieldCalls' = 0 /\ UNCHANGED left

FieldsNext ==
  /\ UNCHANGED linkVars
  /\ \/ \E f \in FieldNames : \E v \in Values(f) : SetField(f, v)
     \/ \E p \in Pulses : Pulse(p)
     \/ ClearEnables \/ PowerCycle
-----------------------------------------------------------------------------
(* Every getter reads what its setter was given last, cut to its width,    *)
(* whatever other setting was made or part was reset since, and none of    *)
(* this writes where a counter or a status is read.  Two exceptions: debug *)
(* mode is written over the time frame length, and the length is read as   *)
(* debug mode (DEBUG and TIME_FRAME_LENGTH are one register of BAR 0);     *)
(* and the ONU address is right if the firmware leaves the bits above it 0 *)
(* (Constants.h, setBits, the setters and getters of CruBar,               *)
(* DatapathWrapper, Gbt and Ttc).                                          *)
Sharing == {<<OfCard, "debugMode">>, <<OfCard, "timeFrameLength">>}
FieldsAreRight ==
  /\ \A f \in DOMAIN given :
       \/ f \in Sharing /\ (Sharing \subseteq DOMAIN given \/ left # {})
       \/ f[2] = "onuAddress" /\ left # {}
       \/ ReadField(f) = given[f]
  /\ \A a \in DOMAIN registers : a \notin DatapathCounters \cup GbtCounters \cup TtcCounters
=============================================================================
