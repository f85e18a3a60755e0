------------------------------ MODULE MCCardParts ------------------------------
(* An SIU that identifies itself with one character, and two register     *)
(* requests: an id that is too wide, a length that is too large.  Two tools *)
(* that configure the clock and one that only reports; one link that is   *)
(* calibrated; the numbers of links a wrapper may have; start calls of the  *)
(* CTP emulator and the pattern player with values at their limits.         *)
(* Files, command lines and lists of cards for every way the settings of a  *)
(* card come about; machines with cards of every kind, some without serial  *)
(* number; buffers of hugepages of either size, and of small pages.         *)
EXTENDS CardParts

MCHwId == <<1>>
MCRegisterRequests ==
  {[offset |-> 1, id |-> 5, length |-> 1, detect |-> 0],
   [offset |-> 0, id |-> 2, length |-> 3, detect |-> 1]}

MCScenes == {[tools |-> {"c1"}, faults |-> 1], [tools |-> {"c1", "c2"}, faults |-> 0],
             [tools |-> {"c1", "s"}, faults |-> 0]}

MCGbtLinks == <<"g0">>

Banks(s) == [b \in 0..5 |-> s[b + 1]]
MCWrapperConfs == {Banks(<<6, 6, 6, 6, 0, 0>>), Banks(<<6, 6, 0, 0, 0, 0>>),
                   Banks(<<4, 4, 4, 4, 0, 0>>)}
MCLinkMasks == {0..11, {5}, {0, 3}}

Periodic == [mode |-> "periodic", frequency |-> 8, orbit |-> 0, bcMax |-> MaxBcId,
             hbMax |-> 255, prescaler |-> <<15000, 15000>>]
MCCtpRequests ==
  {[Periodic EXCEPT !.mode = m] :
     m \in {"periodic", "hc", "cal", "fixed", "manual", "continuous"}}
  \cup {[Periodic EXCEPT !.bcMax = MaxBcId + 1],
        [Periodic EXCEPT !.mode = "cal", !.frequency = 268435456],
        [Periodic EXCEPT !.mode = "continuous", !.prescaler = <<1, 15000>>],
        [Periodic EXCEPT !.mode = "continuous", !.hbMax = 127, !.orbit = 30]}

Hex(digits) == [base |-> 16, digits |-> digits]
Dec(digits) == [base |-> 10, digits |-> digits]
PlainPattern == [NoPattern EXCEPT !.pat = [p \in Patterns |-> Hex(<<p, 1 + p>>)],
                                  !.number = [f \in DOMAIN @ |-> Dec(<<1>>)]]
MCPatternRequests ==
  {PlainPattern,
   [PlainPattern EXCEPT !.number["length1"] = Dec(<<1, 2>>), !.number["delay1"] = Hex(<<7>>),
                        !.atStart = TRUE, !.pat[1] = Hex(<<3, 15, 15>>)],
   [PlainPattern EXCEPT !.pat[0] = Dec(<<1, 0, 2, 3>>), !.now = {1, 2},
                        !.number["triggerTF"] = Dec(<<1, 5>>)],
   [PlainPattern EXCEPT !.pat[0] = Dec(<<1, 0, 2, 4>>)],
   [PlainPattern EXCEPT !.number["delay1"] = Dec(<<1, 6>>)],
   [PlainPattern EXCEPT !.pat[2] = Hex(<<4, 0, 0>>)]}

Group(name, card) == [name |-> name, card |-> card, fault |-> "none"]
AllLinks(on, fault) == [name |-> "links", enabled |-> on, mux |-> "swt", feeId |-> 3, fault |-> fault]
OwnLink(n, on) == [name |-> "link", number |-> n, enabled |-> on, mux |-> "ddg", feeId |-> 4,
                   fault |-> "none"]
MCConfigFiles ==
  {<<Group("cru", "a"), Group("crorc", "b"), AllLinks(TRUE, "none"), OwnLink(2, FALSE),
     OwnLink(3, TRUE)>>,
   <<Group("cru", "a"), AllLinks(FALSE, "none"), OwnLink(0, TRUE)>>,
   <<OwnLink(1, TRUE), Group("crorc", "b"), AllLinks(TRUE, "number")>>,
   <<OwnLink(1, FALSE), AllLinks(TRUE, "none")>>,
   <<Group("cru", "a"), OwnLink(12, TRUE)>>}
MCCommandLines ==
  {[card |-> "c", links |-> m, mux |-> "ttc", feeId |-> 1, systemId |-> s] :
     m \in {{0, 3}, {12}, {16}}, s \in {1, 2}}
MCCardLists ==
  {<<[type |-> t, firmware |-> f], [type |-> u, firmware |-> "built"]>> :
     t \in {"cru", "crorc"}, u \in {"cru", "crorc"}, f \in {"listed", "untagged", ""}}
MCBuiltInList == ("built" :> "v3")
MCFirmwareListFile == <<("built" :> "") @@ ("listed" :> "v4") @@ ("untagged" :> "") @@ ("" :> "v5")>>

Cru(bus, serial, n) ==
  [type |-> "cru", bus |-> bus, register |-> <<Empty, serial>>, eeprom |-> NoSerial, endpoint |-> n]
OldCru(bus, n) == [Cru(bus, Empty, n) EXCEPT !.type = "altera", !.eeprom = 10241]
CrorcCard(bus, serial) ==
  [type |-> "crorc", bus |-> bus, register |-> <<serial, serial>>, eeprom |-> NoSerial, endpoint |-> 0]
MCMachines ==
  {{}, {Cru(1, 245, 0), Cru(2, 245, 1)}, {Cru(1, 245, 0), Cru(2, 245, 1), CrorcCard(3, 33)},
   {Cru(4, 245, 1), CrorcCard(3, 33), OldCru(1, 0)}, {Cru(1, 245, 0), Cru(2, 7, 0)},
   {Cru(2, Dashed, 0), Cru(3, Dashed, 0), Cru(4, 245, 1)}, {Cru(1, Garbled, 0), Cru(2, 245, 0)},
   {Cru(1, 1, 0), Cru(2, 1, 1)}}

Mapped(size, super, pageSize, keep) ==
  [memory |-> "file", size |-> size, super |-> super, page |-> pageSize, keep |-> keep, atStart |-> TRUE]
Own(size, super, atStart) ==
  [memory |-> "own", size |-> size, super |-> super, page |-> 1, keep |-> TRUE, atStart |-> atStart]
MCBufferRequests ==
  {Mapped(8, 4, 1, FALSE), Mapped(4, 2, 1, TRUE), Mapped(6, 4, 3, FALSE), Own(2, 2, FALSE),
   Own(2, 2, TRUE)}

MCLoopCalls ==
  {[DefaultTest(0) EXCEPT !.tool = "config"],
   [DefaultTest(0) EXCEPT !.pattern = "static", !.type = "8bit", !.mask = "low"]}

MCReportedCards == <<"c", "d">>
MCReportNames ==
  {<<"a">>, <<"a", "%", "i">>, <<"+", "a">>, <<"+", "%", "t">>, <<"a", "+", "%", "T">>,
   <<"%", "%", "i", "+">>, <<"%", "x", "a", "%", "i", "%", "t">>, <<"stdout">>, <<"+", "infologger">>}
RegCall(name, digits) ==
  [tool |-> name, bar |-> 0, address |-> NumberText(TRUE, digits),
   value |-> NumberText(TRUE, <<5>>), position |-> 0, width |-> 1, range |-> 0, readback |-> TRUE]
MCRegCalls ==
  {RegCall("read", <<0>>), RegCall("write", <<4>>), RegCall("modify", <<12>>),
   [RegCall("range", <<0>>) EXCEPT !.range = 2],
   [RegCall("range", <<8>>) EXCEPT !.range = 2],
   [RegCall("write", <<0>>) EXCEPT !.value = NumberText(FALSE, <<1, 15>>), !.readback = FALSE],
   [RegCall("write", <<2, 4>>) EXCEPT !.value = NumberText(TRUE, <<7>>)],
   [RegCall("write", <<16>>) EXCEPT !.value = NumberText(FALSE, <<8>>)],
   [RegCall("write", <<4, 4, 4>>) EXCEPT !.bar = 1],
   [RegCall("modify", <<4>>) EXCEPT !.position = 1, !.value = NumberText(FALSE, <<7>>)],
   [RegCall("modify", <<0>>) EXCEPT !.width = 2, !.value = NumberText(FALSE, <<2>>)],
   [RegCall("modify", <<4>>) EXCEPT !.width = 3, !.readback = FALSE]}

================================================================================
