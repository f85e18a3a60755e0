-------------------------------- MODULE CardParts --------------------------------
(***************************************************************************)
(* What is beside the DMA channels and the configuration of a CRU. Of a    *)
(* C-RORC: the DDL, the flash and the registers. Of a CRU: the clock and   *)
(* its PLLs, the calibration of the transceivers, the links, the fields of *)
(* shared registers, the sticky bits, the trigger counters, the CTP        *)
(* emulator, the pattern player, the loopback test, and what its DMA       *)
(* channel warns of. Of both: how a card is found, its settings are read   *)
(* and its state is reported, the register tools, the memory of a DMA      *)
(* channel, and the checks of the pages in it. What several tools do to one part is in the module of this part;    *)
(* the parts share no state (the links and the fields share the datapath), *)
(* so a behaviour is one of a part, with the others at rest.               *)
(***************************************************************************)
EXTENDS CrorcDdl, CrorcFlash, CrorcRegisters, CruClock, CruCalibration, CruLinks,
        CruSticky, CruTriggers, CtpEmulator, PatternPlayer, PageCheck,
        CardSettings, CruFields, CardLookup, DmaBuffers, CruHealth, StatusReports,
        LoopbackTest, RegisterTools

VARIABLE part \* the part that is used

partVars == <<part, ddlVars, flashVars, regVars, clockVars, calibVars, linkVars, stickyVars,
              triggerVars, ctpVars, playerVars, pageVars,
              settingVars, fieldVars, lookupVars, bufferVars, healthVars, reportVars, loopVars,
              regToolVars>>

Some(S) == CHOOSE x \in S : TRUE

CardInit ==
  /\ part \in {"ddl", "flash", "registers", "clock", "calibration", "links", "sticky",
              "triggers", "ctp", "player", "pages", "settings", "fields", "lookup", "buffers",
               "health", "reports", "loopback", "regtools"}
  /\ part # "ddl" => link = FALSE /\ oldSiu = FALSE
  /\ part # "flash" => serialMay = {Some(Serials)}
  /\ part # "registers" => laser = FALSE /\ regs = Configured(Some(RegisterRequests))
  /\ part # "clock" => scene = Some(Scenes) /\ testMode = FALSE
  /\ part # "links" => conf = Some(WrapperConfs) /\ running = {}
  /\ part \notin {"links", "fields"} => endpoint = 0
  /\ part # "triggers" => kind = "hb" /\ updateable = FALSE
  /\ part # "ctp" => ctpRequest = Some(CtpRequests)
  /\ part # "pages" =>
       setup = [source |-> "ddg", frequency |-> 1, resync |-> TRUE, sox |-> 0]
  /\ part # "settings" => invocation = Some(Invocations)
  /\ part # "fields" => left = {}
  /\ part # "lookup" => machine = {}
  /\ part # "buffers" => iommu = FALSE
  /\ part # "health" => debug = "off" /\ features = [standalone |-> FALSE, off |-> {"dataSelection"}]
  /\ part # "reports" => reportName = Some(ReportNames)
  /\ part # "loopback" => counterType = "30bit"
  /\ DdlInit /\ FlashInit /\ RegInit /\ ClockInit /\ CalibInit /\ LinksInit /\ StickyInit
  /\ TriggerInit /\ CtpInit /\ PlayerInit /\ PageInit /\ SettingsInit /\ FieldsInit /\ LookupInit
  /\ BuffersInit /\ HealthInit /\ ReportsInit /\ LoopInit
  /\ RegToolsInit

OthersRest ==
  /\ part # "ddl" => UNCHANGED ddlVars
  /\ part # "flash" => UNCHANGED flashVars
  /\ part # "registers" => UNCHANGED regVars
  /\ part # "clock" => UNCHANGED clockVars
  /\ part # "calibration" => UNCHANGED calibVars
  /\ part \notin {"links", "fields"} => UNCHANGED linkVars
  /\ part # "sticky" => UNCHANGED stickyVars
  /\ part # "triggers" => UNCHANGED triggerVars
  /\ part # "ctp" => UNCHANGED ctpVars
  /\ part # "player" => UNCHANGED playerVars
  /\ part # "pages" => UNCHANGED pageVars
  /\ part # "settings" => UNCHANGED settingVars
  /\ part # "fields" => UNCHANGED fieldVars
  /\ part # "lookup" => UNCHANGED lookupVars
  /\ part # "buffers" => UNCHANGED bufferVars
  /\ part # "health" => UNCHANGED healthVars
  /\ part # "reports" => UNCHANGED reportVars
  /\ part # "loopback" => UNCHANGED loopVars
  /\ part # "regtools" => UNCHANGED regToolVars

CardNext ==
  /\ UNCHANGED part
  /\ OthersRest
  /\ \/ part = "ddl" /\ DdlNext
     \/ part = "flash" /\ FlashNext
     \/ part = "registers" /\ RegNext
     \/ part = "clock" /\ ClockNext
     \/ part = "calibration" /\ CalibNext
     \/ part = "links" /\ LinksNext
     \/ part = "sticky" /\ StickyNext
     \/ part = "triggers" /\ TriggerNext
     \/ part = "ctp" /\ CtpNext
     \/ part = "player" /\ PlayerNext
     \/ part = "pages" /\ PageNext
     \/ part = "settings" /\ SettingsNext
     \/ part = "fields" /\ FieldsNext
     \/ part = "lookup" /\ LookupNext
     \/ part = "buffers" /\ BuffersNext
     \/ part = "health" /\ HealthNext
     \/ part = "reports" /\ ReportsNext
     \/ part = "loopback" /\ LoopNext
     \/ part = "regtools" /\ RegToolsNext

CardSpec == CardInit /\ [][CardNext]_partVars
-----------------------------------------------------------------------------
(* A C-RORC keeps what it was configured with, whatever its flash memory   *)
(* and its DMA do: the image in the flash is the file's or known not to    *)
(* be, and no setting is lost in a register others write (Crorc.cxx,       *)
(* CrorcBar.cxx).                                                          *)
CrorcIsRight == FlashIsRight /\ RegistersAreRight

(* A CRU has the clock that was asked for and its transceivers are         *)
(* calibrated to it when the tool says so (Ttc.cxx, I2c.cxx, Common.cxx).  *)
ClocksAreRight == ClockIsRight /\ CalibrationIsComplete

(* The superpages of a DMA buffer lie where the card is told and the       *)
(* process looks for them, and what the bench finds in them is told: every *)
(* error, and no error that isn't one (PdaDmaBuffer, MemoryMappedFile,     *)
(* ProgramDmaBench::checkErrors).                                          *)
PagesAreRight == ErrorsAreRight /\ BuffersAreRight

(* A tool finds the card that is named and asks it for what the file or    *)
(* the command line says (RocPciDevice, CardConfigurator, ProgramConfig),  *)
(* the register tools those registers that are named; its report stays.    *)
RequestsAreRight ==
  /\ part = "lookup" => LookupIsRight
  /\ part = "settings" => SettingsAreRight
  /\ part = "reports" => ReportsAreKept
  /\ part = "regtools" => RegisterToolsAreRight

(* The two sources of test data, the CTP emulator and the pattern player,  *)
(* send what the last call that let them go asked for                      *)
(* (CruBar::emulateCtp, PatternPlayer::play).                              *)
GeneratorsAreRight == SendsWhatWasAsked /\ PlaysWhatWasAsked

(* What monitoring reports is so: a glitch of a GBT link is told to some   *)
(* reporter (Gbt::getStickyBit), the rates and counts of the triggers are  *)
(* those of the time they are told for (CruBar::monitorTriggers), and the  *)
(* links that had no superpage are told (areSuperpageFifosHealthy).        *)
MonitoringIsRight ==
  NoGlitchUntold /\ TriggersAreRight /\ HealthIsRight /\ LoopbackIsRight
=============================================================================
