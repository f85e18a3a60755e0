------------------------------- MODULE CardLookup -------------------------------
(***************************************************************************)
(* How a card is named and found again: o2-roc-list-cards prints of every  *)
(* card its sequence number, PCI address, serial number and endpoint; a    *)
(* --id given to a tool is one of these (Parameters::cardIdFromString),    *)
(* and RocPciDevice looks at one device after the other until it fits.     *)
(* Between the two the machine may be opened, and cards come or go.        *)
(*                                                                         *)
(* A device has a PCI type, a bus number for its address, and what its     *)
(* serial number register holds before and after the firmware was asked to *)
(* fill it: a number, Empty, Dashed (a pre-production card) or Garbled.    *)
(***************************************************************************)
EXTENDS Integers, Sequences, FiniteSets, SequencesExt

CONSTANT Machines \* sets of devices

VARIABLES
  machine,  \* the devices that are there
  listing,  \* what o2-roc-list-cards printed last
  changed,  \* the machine was changed since then
  asked,    \* <<[by |-> kind of name, meant |-> entry of the listing]>>, or <<>>
  answer    \* the device a tool found for it, or why none

lookupVars == <<machine, listing, changed, asked, answer>>

Empty == 0
Dashed == -2
Garbled == -1
NoSerial == -1
-----------------------------------------------------------------------------
(* PDA lists the C-RORCs, then the CRUs, then the development boards.      *)
PciTypes == <<"crorc", "cru", "altera">>
Rank(d) == CHOOSE k \in DOMAIN PciTypes : PciTypes[k] = d.type
PciDevices ==
  SetToSortSeq(machine, LAMBDA a, b : \/ Rank(a) < Rank(b)
                                      \/ Rank(a) = Rank(b) /\ a.bus < b.bus)

(* CruBar::getSerialNumber(): the register, filled now if it is empty, or  *)
(* else the EEPROM; Crorc's is read from the flash                         *)
ParseEeprom(d) == d.eeprom
SerialOf(d) ==
  LET word == IF d.register[1] = Empty THEN d.register[2] ELSE d.register[1]
  IN  IF d.type = "crorc" THEN d.register[1]
      ELSE CASE word = Empty   -> ParseEeprom(d)
             [] word = Dashed  -> 0
             [] word = Garbled -> NoSerial
             [] OTHER          -> word
EndpointOf(d) == IF d.type = "crorc" THEN 0 ELSE d.endpoint

Describe(d, n) == [number |-> n, bus |-> d.bus, serial |-> SerialOf(d), endpoint |-> EndpointOf(d)]

(* A serial number that cannot be read is taken out of an empty optional.  *)
Readable(devices) == \A d \in devices : SerialOf(d) # NoSerial
-----------------------------------------------------------------------------
(* The names, as cardIdFromString() understands them.  A serial number     *)
(* without endpoint is that of endpoint 0; one whose endpoint is the same  *)
(* number is taken for one without.                                        *)
ParseSerial(serial, endpoint) ==
  [by |-> "serial", serial |-> serial, endpoint |-> IF endpoint = serial THEN 0 ELSE endpoint]
ParseAddress(bus) == [by |-> "address", bus |-> bus]
ParseNumber(n) == [by |-> "number", number |-> n]

(* The number is printed with four digits or more, five are understood.    *)
InRange(entry) == entry.serial \in 0..99999

CardId(by, entry) ==
  CASE by = "serial"   -> ParseSerial(entry.serial, entry.endpoint)
    [] by = "endpoint0" -> ParseSerial(entry.serial, 0)
    [] by = "address"  -> ParseAddress(entry.bus)
    [] by = "number"   -> ParseNumber(entry.number)

(* Mutant: the endpoint is not looked at. *)
IsCard_AnyEndpoint(id, d, n) ==
  CASE id.by = "serial"  -> SerialOf(d) = id.serial
    [] id.by = "address" -> d.bus = id.bus
    [] id.by = "number"  -> n = id.number

IsCard(id, d, n) ==
  CASE id.by = "serial"  -> SerialOf(d) = id.serial /\ EndpointOf(d) = id.endpoint
    [] id.by = "address" -> d.bus = id.bus
    [] id.by = "number"  -> n = id.number

(* A search by serial number reads that of every device up to the one that *)
(* fits, the others read only the one they find.                           *)
Find(id) ==
  LET fitting == {n \in DOMAIN PciDevices : IsCard(id, PciDevices[n], n - 1)}
      first == CHOOSE n \in fitting : \A k \in fitting : n <= k
      read == IF id.by = "serial"
              THEN IF fitting = {} THEN DOMAIN PciDevices ELSE 1..first
              ELSE IF fitting = {} THEN {} ELSE {first}
  IN  IF ~Readable({PciDevices[n] : n \in read}) THEN <<"crashed">>
      ELSE IF fitting = {} THEN <<"could not find card">>
      ELSE <<"found", PciDevices[first]>>
-----------------------------------------------------------------------------
LookupInit ==
  /\ machine \in Machines /\ listing = <<>> /\ changed = FALSE
  /\ asked = <<>> /\ answer = <<"nothing">>

ListCards ==
  /\ Readable(machine)
  /\ listing' = [n \in DOMAIN PciDevices |-> Describe(PciDevices[n], n - 1)]
  /\ changed' = FALSE /\ asked' = <<>> /\ answer' = <<"nothing">>
  /\ UNCHANGED machine

FindCard(by, n) ==
  /\ by = "endpoint0" => listing[n].endpoint = 0
  /\ asked' = <<[by |-> by, meant |-> listing[n]]>>
  /\ answer' = IF by \in {"serial", "endpoint0"} /\ ~InRange(listing[n])
               THEN <<"not understood">> ELSE Find(CardId(by, listing[n]))
  /\ UNCHANGED <<machine, listing, changed>>

ChangeMachine ==
  /\ machine' \in Machines /\ changed' = TRUE
  /\ asked' = <<>> /\ answer' = <<"nothing">> /\ UNCHANGED listing

LookupNext ==
  \/ ListCards \/ ChangeMachine
  \/ \E n \in DOMAIN listing, by \in {"serial", "endpoint0", "address", "number"} : FindCard(by, n)
-----------------------------------------------------------------------------
(* A tool finds the card that the list of cards named: under its number    *)
(* while the machine is as it was, under its PCI address or its serial     *)
(* number and endpoint even if other cards came and went; and it finds it  *)
(* if the card is still there and every card has a readable serial number. *)
(* So it is for cards with a serial number of their own, which is more     *)
(* than 1 (a card 0001 that is asked for as 0001:1 is endpoint 0).         *)
(* (RocPciDevice::initWith..., SerialId, o2-roc-list-cards).               *)
Same(d, entry) ==
  d.bus = entry.bus /\ SerialOf(d) = entry.serial /\ EndpointOf(d) = entry.endpoint
Unique(entry) ==
  entry.serial > 1 /\ \A d, e \in machine :
    SerialOf(d) = SerialOf(e) /\ EndpointOf(d) = EndpointOf(e) => d = e
Steady(by) == by = "number" => ~changed

LookupIsRight ==
  asked # <<>> =>
    LET entry == asked[1].meant
        there == \E d \in machine : Same(d, entry)
    IN  Unique(entry) /\ Steady(asked[1].by) =>
          /\ answer[1] = "found" => Same(answer[2], entry) \/ ~there
          /\ there /\ Readable(machine) /\ InRange(entry) => answer[1] = "found"
=============================================================================
