------------------------------ MODULE CardSettings ------------------------------
(***************************************************************************)
(* What o2-roc-config asks a card for: how the command line or the groups  *)
(* of a configuration file become the Parameters a card is configured with *)
(* (ProgramConfig, CardConfigurator), for one card or, at boot, for all of *)
(* them in turn.  A file can be written from the command line and used     *)
(* later.  What configuring then does to a CRU is in CruConfiguration.     *)
(*                                                                         *)
(* The settings of a whole card are one value; those of a link are its     *)
(* mux and its FEE id.  A group of a file may lack a key or hold a word    *)
(* that is none of its kind ("missing": a std::runtime_error), or hold     *)
(* something that is not a number ("number": a std::logic_error).          *)
(***************************************************************************)
EXTENDS Naturals, Sequences, FiniteSets, FiniteSetsExt, SequencesExt, TLC

CONSTANTS ConfigFiles,  \* configuration files: sequences of groups
          CommandLines, \* settings on the command line
          CardLists,    \* the cards of a machine: sequences of [type, firmware]
          BuiltInList,  \* hashes of firmware -> tags, in the program
          FirmwareListFile \* and in the configuration: <<list>>, or <<>> if it can't be read

VARIABLES
  invocation, \* of o2-roc-config
  cardsDone,  \* of each card the tool came to: what it was configured with
  configTool, \* "running", "ended", or "threw": an exception ended it
  savedFile   \* <<the file written with --gen-cfg-file>>, or <<>>

settingVars == <<invocation, cardsDone, configTool, savedFile>>

FileLinks == 0..11
Unsaid == "unsaid" \* of a setting the Parameters do not hold
Untouched == [kind |-> "untouched"]
RefusedFor(why) == [kind |-> why]
-----------------------------------------------------------------------------
(* A CRU: the groups in the order of the file.  [links] enables the links  *)
(* and fills in what no group has said of a link before; [linkN] replaces  *)
(* what was said of link N.                                                *)
NothingRead == [error |-> "none", card |-> Unsaid, mask |-> {}, mux |-> <<>>, feeId |-> <<>>]

ReadLinks(read, group) ==
  [read EXCEPT !.mask = IF group.enabled THEN FileLinks ELSE @,
               !.mux = @ @@ [l \in FileLinks |-> group.mux],
               !.feeId = @ @@ [l \in FileLinks |-> group.feeId]]

ReadLink(read, group) ==
  [read EXCEPT !.mask = IF group.enabled THEN @ \cup {group.number} ELSE @ \ {group.number},
               !.mux = (group.number :> group.mux) @@ @,
               !.feeId = (group.number :> group.feeId) @@ @]

ReadCruGroup(read, group) ==
  CASE read.error # "none" \/ group.name \notin {"cru", "links", "link"} -> read
    [] group.name = "link" /\ group.number \notin FileLinks -> [read EXCEPT !.error = "missing"]
    [] group.fault # "none"  -> [read EXCEPT !.error = group.fault]
    [] group.name = "cru"    -> [read EXCEPT !.card = group.card]
    [] group.name = "links"  -> ReadLinks(read, group)
    [] OTHER                 -> ReadLink(read, group)

(* A C-RORC takes one group, and defaults if the file has none of it; what *)
(* goes wrong in it is a ParseException.                                   *)
ReadCrorcGroup(read, group) ==
  CASE read.error # "none" -> read
    [] group.name = "crorc" /\ group.fault # "none" -> [read EXCEPT !.error = "missing"]
    [] group.name = "crorc" -> [read EXCEPT !.card = group.card]
    [] read.card = Unsaid -> [read EXCEPT !.card = "defaults"]
    [] OTHER -> read

ReadFile(type, file) ==
  IF type = "cru" THEN FoldLeft(ReadCruGroup, NothingRead, file)
  ELSE FoldLeft(ReadCrorcGroup, NothingRead, file)

(* The Parameters of a command line: one mux and one FEE id for all links  *)
LinkMaskAllowed(links) == \A l \in links : l < 16
ReadLine(line) ==
  [error |-> IF LinkMaskAllowed(line.links) THEN "none" ELSE "missing",
   card |-> line.card, mask |-> line.links, mux |-> <<>>, feeId |-> <<>>,
   everyMux |-> line.mux, everyFeeId |-> line.feeId]

(* What a bar is made with, by the defaults of CruBar's constructor, and   *)
(* by populateLinkMap() for the links the mask names                       *)
Every(read, field, default) == IF field \in DOMAIN read THEN read[field] ELSE default
Settings(type, read) ==
  IF type = "crorc" THEN [kind |-> "configured", card |-> read.card]
  ELSE [kind |-> "configured", card |-> read.card,
        links |-> [l \in read.mask |->
          [mux |-> IF l \in DOMAIN read.mux THEN read.mux[l]
                   ELSE Every(read, "everyMux", "ttc"),
           feeId |-> IF l \in DOMAIN read.feeId THEN read.feeId[l]
                     ELSE Every(read, "everyFeeId", 0)]]]

(* --gen-cfg-file: the FEE ids are written as the system id. *)
LinkGroup(line, l) ==
  [name |-> "link", number |-> l, enabled |-> TRUE, mux |-> line.mux,
   feeId |-> line.systemId, fault |-> "none"]
FileOf(line) ==
  <<[name |-> "cru", card |-> line.card, fault |-> "none"],
    [name |-> "links", enabled |-> FALSE, mux |-> "ttc", feeId |-> line.systemId,
     fault |-> "none"]>>
  \o LET links == SetToSortSeq(line.links, <)
     IN  [i \in 1..Len(links) |-> LinkGroup(line, links[i])]
-----------------------------------------------------------------------------
(* An invocation: of all cards or of the first, with the settings of a     *)
(* file, if there is one, or those of the command line.                    *)
Invocations ==
  [all: BOOLEAN, bypass: BOOLEAN, save: BOOLEAN, cards: CardLists,
   file: {<<>>} \cup {<<f>> : f \in ConfigFiles}, line: CommandLines]

SettingsInit ==
  /\ invocation \in Invocations
  /\ cardsDone = <<>> /\ configTool = "running" /\ savedFile = <<>>

Card == invocation.cards[Len(cardsDone) + 1]
Came(outcome) == cardsDone' = Append(cardsDone, outcome)

(* What a card is asked for; an exception of the kind given if that cannot *)
(* be told.                                                                *)
Asked == IF invocation.file # <<>> THEN ReadFile(Card.type, invocation.file[1])
         ELSE ReadLine(invocation.line)

(* FirmwareChecker: the list of the configuration adds to the one built    *)
(* in, but for entries without hash or tag; a hash that could not be read  *)
(* is "".                                                                  *)
NoText == ""
ListRead ==
  IF FirmwareListFile = <<>> THEN <<>>
  ELSE LET list == FirmwareListFile[1]
       IN  Restrict(list, {h \in DOMAIN list : h # NoText /\ list[h] # NoText})
CompatibleFirmwareList == BuiltInList @@ ListRead

(* The firmware check, the configuration, which may fail or succeed, and   *)
(* the report that follows it and may fail, too: what became of the card,  *)
(* and whether an exception came out of it.                                *)
FirmwareAccepted == invocation.bypass \/ Card.firmware \in DOMAIN CompatibleFirmwareList
Attempts ==
  LET configured == Settings(Card.type, Asked)
  IN  IF ~FirmwareAccepted THEN {<<RefusedFor("firmware"), "missing">>}
      ELSE IF Asked.error # "none" THEN {<<RefusedFor("file"), Asked.error>>}
      ELSE {<<RefusedFor("failed"), "missing">>, <<configured, "missing">>, <<configured, "none">>}

(* --config-all: an Exception and a std::runtime_error are logged and the  *)
(* next card follows; nothing else is caught.  All is inside the test that *)
(* the firmware check is not bypassed.                                     *)
AllGoesOn(error) == error # "number"

ConfigureNext ==
  /\ configTool = "running" /\ invocation.all /\ invocation.file # <<>>
  /\ Len(cardsDone) < Len(invocation.cards)
  /\ \/ invocation.bypass /\ Came(Untouched) /\ UNCHANGED configTool
     \/ /\ ~invocation.bypass
        /\ \E a \in Attempts :
             /\ Came(a[1])
             /\ configTool' = IF AllGoesOn(a[2]) THEN "running" ELSE "threw"
  /\ UNCHANGED <<invocation, savedFile>>

EndAll ==
  /\ configTool = "running" /\ invocation.all
  /\ invocation.file = <<>> \/ Len(cardsDone) = Len(invocation.cards)
  /\ configTool' = "ended" /\ UNCHANGED <<invocation, cardsDone, savedFile>>

Saves == invocation.save /\ invocation.file = <<>>

ConfigureOne ==
  /\ configTool = "running" /\ ~invocation.all /\ ~Saves
  /\ \E a \in Attempts :
       /\ Came(a[1]) /\ configTool' = IF a[2] = "none" THEN "ended" ELSE "threw"
  /\ UNCHANGED <<invocation, savedFile>>

SaveLine ==
  /\ configTool = "running" /\ ~invocation.all /\ Saves
  /\ IF FirmwareAccepted /\ Asked.error = "none"
     THEN savedFile' = <<FileOf(invocation.line)>> /\ configTool' = "ended"
     ELSE configTool' = "threw" /\ UNCHANGED savedFile
  /\ UNCHANGED <<invocation, cardsDone>>

(* The file that was written is used for the card. *)
UseSaved ==
  /\ configTool = "ended" /\ savedFile # <<>> /\ invocation.file = <<>>
  /\ invocation' = [invocation EXCEPT !.file = savedFile, !.save = FALSE]
  /\ cardsDone' = <<>> /\ configTool' = "running" /\ UNCHANGED savedFile

(* Or the tool is run as before. *)
RunAgain ==
  /\ configTool # "running"
  /\ cardsDone' = <<>> /\ configTool' = "running" /\ UNCHANGED <<invocation, savedFile>>

SettingsNext ==
  ConfigureNext \/ EndAll \/ ConfigureOne \/ SaveLine \/ UseSaved \/ RunAgain
SettingsSpec == SettingsInit /\ [][SettingsNext]_settingVars
-----------------------------------------------------------------------------
(* Of a file whose [links] comes before every [linkN], as README.md has    *)
(* them: the one group of link l, or the one of all links                  *)
GroupsOf(file, name) == SelectSeq(file, LAMBDA g : g.name = name)
OwnGroups(file, l) == SelectSeq(file, LAMBDA g : g.name = "link" /\ g.number = l)
WordOn(file, l) == GroupsOf(file, "links") \o OwnGroups(file, l)
LinksFirst(file) ==
  \A i, j \in DOMAIN file : file[i].name = "links" /\ file[j].name = "link" => i < j

LinkAsWritten(file, l, settings) ==
  LET word == WordOn(file, l)
      final == Last(word)
  IN  IF word = <<>> THEN l \notin DOMAIN settings.links
      ELSE /\ (l \in DOMAIN settings.links) = final.enabled
           /\ final.enabled => settings.links[l] = [mux |-> final.mux, feeId |-> final.feeId]

(* A link gets what its own group of the file says, or else what the group *)
(* of all links says, and nothing of another link's                        *)
(* (CardConfigurator::parseConfigUriCru); the rest of the card gets what   *)
(* the group of its own kind of card says. No card of unknown firmware is  *)
(* configured, unless the check is bypassed (FirmwareChecker). When all    *)
(* cards are configured, each is tried, whatever became of those before    *)
(* it, and only a text that should be a number ends it early; and with     *)
(* firmware that is accepted and a good file the card is refused only if   *)
(* its own configuration fails (ProgramConfig::run). A file that was       *)
(* written from the command line asks for what the command line asks for,  *)
(* but for the FEE ids (which are written as the system id) and if no link *)
(* is beyond those of a file.                                              *)
Used == invocation.file[1]
Faultless(file) ==
  \A g \in Range(file) : g.fault = "none" /\ (g.name = "link" => g.number \in FileLinks)
FileIsFollowed ==
  invocation.file # <<>> => \A i \in DOMAIN cardsDone :
    LET done == cardsDone[i]
        type == invocation.cards[i].type
    IN  done.kind = "configured" =>
          /\ \A g \in Range(GroupsOf(Used, type)) : done.card = g.card
          /\ type = "cru" /\ LinksFirst(Used) =>
               \A l \in FileLinks : LinkAsWritten(Used, l, done)

KnownFirmware(hash) ==
  /\ hash # NoText
  /\ \E list \in {BuiltInList} \cup Range(FirmwareListFile) :
       hash \in DOMAIN list /\ list[hash] # NoText
OnlyKnownFirmware ==
  ~invocation.bypass => \A i \in DOMAIN cardsDone :
    cardsDone[i].kind = "configured" => KnownFirmware(invocation.cards[i].firmware)

EveryCardIsTried ==
  invocation.all /\ invocation.file # <<>> /\ ~invocation.bypass =>
    /\ configTool = "ended" => Len(cardsDone) = Len(invocation.cards)
    /\ Faultless(Used) => /\ configTool # "threw"
                          /\ \A i \in DOMAIN cardsDone : KnownFirmware(invocation.cards[i].firmware) =>
                               cardsDone[i].kind \in {"configured", "failed"}

SavedMeansTheSame ==
  LET line == invocation.line
  IN  savedFile # <<>> /\ line.links \subseteq FileLinks /\ line.feeId = line.systemId
        => Settings("cru", ReadFile("cru", savedFile[1])) = Settings("cru", ReadLine(line))

SettingsAreRight ==
  FileIsFollowed /\ OnlyKnownFirmware /\ EveryCardIsTried /\ SavedMeansTheSame
=============================================================================
