CONSTANTS
  HwId <- MCHwId
  MaxHwId = 4
  Cycles = 2
  Sources = {"FEE", "SIU"}
  MaxCalls = 2
  MaxBreaks = 1
  Blocks = 2
  BlockWords = 2
  BufferWords = 2
  MaxFile = 5
  Serials = {"A", "B"}
  RegisterRequests <- MCRegisterRequests
  IdBits = 2
  MaxLength = 2
  ConfigTools = {"c1", "c2"}
  StatusTools = {"s"}
  Scenes <- MCScenes
  GbtLinks <- MCGbtLinks
  MaxLate = 1
  MaxCalibrationKills = 1
  MaxClockChanges = 1
  WrapperConfs <- MCWrapperConfs
  LinkMasks <- MCLinkMasks
  Reporters = {"s", "m"}
  MaxGlitches = 2
  MaxReporterKills = 1
  Wide = 16
  Half = 8
  Nibble = 4
  MaxTriggers = 18
  CtpRequests <- MCCtpRequests
  MaxEmulatorKills = 2
  PatternRequests <- MCPatternRequests
  HalfWord = 4
  MaxPatternKills = 2
  PageLinks = {0, 1}
  DataSources = {"internal", "ddg", "fee", "crorc"}
  Frequencies = {1, 2}
  PacketCounters = 3
  Events = 3
  DataCounters = 4
  Orbits = 6
  FrameLength = 2
  LastOrbit = 3
  MaxPages = 3
  MaxFlaws = 1
  ConfigFiles <- MCConfigFiles
  CommandLines <- MCCommandLines
  CardLists <- MCCardLists
  BuiltInList <- MCBuiltInList
  FirmwareListFile <- MCFirmwareListFile
  FieldLinks = {2, 3}
  MaxFieldCalls = 2
  Machines <- MCMachines
  Benches = {"a", "b"}
  BufferRequests <- MCBufferRequests
  HealthLinks = {0, 1}
  EmptyCounts = 2
  MaxStarved = 2
  MaxHealthKills = 1
  ReportedCards <- MCReportedCards
  ReportNames <- MCReportNames
  ReportTimes = {1, 2}
  MaxReports = 3
  LoopLinks = {0}
  LoopTools = {"t1", "t2"}
  LoopCalls <- MCLoopCalls
  MaxBitErrors = 1
  MaxLoopKills = 1
  RegTools = {"r1", "r2"}
  RegCalls <- MCRegCalls
  Bars = {0}
  BarWords = 4
  RegisterBits = 3
  AddressBits = 5
  LongBits = 8
SPECIFICATION CardSpec
INVARIANTS    LinksAreRight FieldsAreRight
            GeneratorsAreRight  RequestsAreRight
