----------------------------- MODULE StatusReports -----------------------------
(***************************************************************************)
(* The report o2-roc-config leaves of every card it has configured         *)
(* (ProgramConfig::reportStatus), in the file --status-report names, for   *)
(* one card or, at boot, for all in turn.  A name is a sequence of         *)
(* characters: %i in it stands for the card, %t and %T for the time, a +   *)
(* in front for appending; "stdout" and "infologger" are no files, and     *)
(* each of them is one character here.                                     *)
(***************************************************************************)
EXTENDS Naturals, Sequences, SequencesExt

CONSTANTS ReportedCards, \* a sequence of the cards of the machine, as they are named
          ReportNames,   \* arguments of --status-report: sequences of characters
          ReportTimes,   \* values of the clock, which may be set at any time
          MaxReports     \* reports written by all runs of the tool

VARIABLES
  reportName,  \* --status-report
  cardsLeft,   \* the cards this run of the tool has still to come to
  reportFiles, \* file name -> the reports in it
  made         \* the reports written to files, in their order: [card, number]

reportVars == <<reportName, cardsLeft, reportFiles, made>>

NoFileName == << >>
-----------------------------------------------------------------------------
(* The name, one character after the other; an unknown escape and %% leave *)
(* nothing of themselves.                                                  *)
NothingParsed == [name |-> NoFileName, escape |-> FALSE, append |-> FALSE, first |-> TRUE]

Escaped(parsed, c, card, now) ==
  [parsed EXCEPT !.escape = FALSE,
                 !.name = IF c \in {"t", "T"} THEN Append(@, <<c, now>>)
                          ELSE IF c = "i" THEN Append(@, <<c, card>>) ELSE @]

ParseCharacter(parsed, c, card, now) ==
  CASE parsed.escape -> Escaped(parsed, c, card, now)
    [] ~parsed.escape /\ c = "%" -> [parsed EXCEPT !.escape = TRUE, !.first = FALSE]
    [] ~parsed.escape /\ c = "+" /\ parsed.first ->
         [parsed EXCEPT !.append = TRUE, !.first = FALSE]
    [] OTHER -> [parsed EXCEPT !.name = Append(@, <<c>>), !.first = FALSE]

ParsedName(card, now) ==
  FoldLeft(LAMBDA parsed, c : ParseCharacter(parsed, c, card, now), NothingParsed, reportName)

ReportsInit ==
  /\ reportName \in ReportNames /\ cardsLeft = << >>
  /\ reportFiles = << >> /\ made = << >>
-----------------------------------------------------------------------------
(* The tool is run for one card, or for all of them. *)
RunConfigTool ==
  /\ cardsLeft = << >>
  /\ \/ cardsLeft' = ReportedCards
     \/ \E card \in Range(ReportedCards) : cardsLeft' = <<card>>
  /\ UNCHANGED <<reportName, reportFiles, made>>

(* The card could not be configured, its status not be read, or the file   *)
(* not be opened: nothing is written, and --config-all goes on.            *)
NoReport ==
  /\ cardsLeft # << >> /\ cardsLeft' = Tail(cardsLeft)
  /\ UNCHANGED <<reportName, reportFiles, made>>

(* fopen() with "w" throws away what was in the file, with "a" it does not. *)
Contents(file) == IF file \in DOMAIN reportFiles THEN reportFiles[file] ELSE << >>
WriteReport(report, parsed) ==
  LET before == IF parsed.append THEN Contents(parsed.name) ELSE << >>
  IN  reportFiles' = [f \in DOMAIN reportFiles \cup {parsed.name} |->
                        IF f = parsed.name THEN Append(before, report) ELSE reportFiles[f]]

ReportStatus ==
  /\ cardsLeft # << >> /\ Len(made) < MaxReports
  /\ \E now \in ReportTimes :
       LET card == Head(cardsLeft)
           report == [card |-> card, number |-> Len(made) + 1]
           parsed == ParsedName(card, now)
       IN  IF parsed.name \in {<< <<"stdout">> >>, << <<"infologger">> >>}
           THEN UNCHANGED <<reportFiles, made>>
           ELSE /\ parsed.name # NoFileName /\ WriteReport(report, parsed)
                /\ made' = Append(made, report)
  /\ cardsLeft' = Tail(cardsLeft) /\ UNCHANGED reportName

ReportsNext == RunConfigTool \/ NoReport \/ ReportStatus
-----------------------------------------------------------------------------
Appends == Head(reportName) = "+"
NamesTheCard ==
  \E i \in 1..Len(reportName)-1 : /\ reportName[i] = "%" /\ reportName[i+1] = "i"
                                  /\ i = 1 \/ reportName[i-1] # "%"
IsWritten(report) == \E f \in DOMAIN reportFiles : report \in Range(reportFiles[f])
IsLastOf(report, cards) ==
  \A later \in Range(made) : later.card \in cards => later.number <= report.number

(* The last report is in a file.  With %i in the name the last of every    *)
(* card is, whatever was reported of others after it, and with a + in      *)
(* front none is ever lost, nor do reports of an earlier run stay in a     *)
(* file that is not appended to (ProgramConfig::reportStatus).             *)
ReportsAreKept ==
  /\ \A report \in Range(made) :
       \/ ~Appends /\ ~IsLastOf(report, IF NamesTheCard THEN {report.card} ELSE Range(ReportedCards))
       \/ IsWritten(report)
  /\ ~Appends => \A f \in DOMAIN reportFiles : Len(reportFiles[f]) = 1
=============================================================================
