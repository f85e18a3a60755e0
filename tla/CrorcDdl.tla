------------------------------- MODULE CrorcDdl -------------------------------
(***************************************************************************)
(* The DDL of a C-RORC channel.  A command is written to one register; the *)
(* DIU, the SIU or the front end (FEE) answers with status words, which    *)
(* wait in a FIFO.  Two processes use the two without a lock: the readout  *)
(* (CrorcDmaChannel, through CrorcBar, which takes any word for the        *)
(* answer) and a tool (o2-roc-siu-status and the other calls of class      *)
(* Crorc, which look at what they read).  A call is a script of steps, one *)
(* per register access another process can see; a step that throws drops   *)
(* the rest, up to the end of a try block if there is one.                 *)
(***************************************************************************)
EXTENDS Naturals, Sequences

CONSTANTS HwId,      \* characters of the SIU's hardware identification
          MaxHwId,   \* MAX_HW_ID
          Cycles,    \* attempts of ddlResetSiu()
          Sources,   \* data sources of the readout, of {"FEE", "DIU", "SIU"}
          MaxCalls,  \* bound: calls of the two processes
          MaxBreaks  \* bound: times the link goes down or up

ASSUME DdlAssumption ==
  /\ HwId \in Seq(Nat \ {0}) /\ MaxHwId \in Nat /\ Len(HwId) < MaxHwId
  /\ Cycles \in 1..7 /\ MaxCalls \in Nat /\ MaxBreaks \in Nat
  /\ Sources \subseteq {"FEE", "DIU", "SIU"}

VARIABLES
  link,       \* the optical link is up
  oldSiu,     \* the SIU's firmware does not know IFLOOP
  siuLoop,    \* the SIU is in loop-back mode
  siuError,   \* the SIU has seen an error since its status was last read
  frontEnd,   \* "idle", or "sending" after RDYRX or STBRD
  command,    \* C_DCR: the command not yet taken, or NoCommand
  answering,  \* status words on their way
  status,     \* C_DSR: status words to be read
  script,     \* of each process: the steps of its call that are left
  call,       \* of each process: the call it is in, or the last it made; "none" if that threw
  info,       \* the tool's results, and whether its call began with nothing unread or on its way
  trigger,    \* the readout asked the front end to send
  undisturbed, \* of each process: no other used the DDL and no word was lost since its call began
  calls, breaks \* how often each bounded thing has happened

ddlVars == <<link, oldSiu, siuLoop, siuError, frontEnd, command, answering, status, script, call,
             info, trigger, undisturbed, calls, breaks>>
cardVars == <<link, oldSiu, siuLoop, siuError, frontEnd, breaks>>

User == {"readout", "tool"}
Command(dest, code, trid, addr) == [dest |-> dest, code |-> code, trid |-> trid, addr |-> addr]
Cmd(dest, code) == Command(dest, code, 0, 0)
NoCommand == Cmd("none", "none")
Word(cmd, code, value) ==
  [dest |-> cmd.dest, code |-> code, trid |-> cmd.trid, value |-> value, mine |-> TRUE]
NoWord == [Word(NoCommand, "none", 0) EXCEPT !.mine = FALSE]

NoInfo == [chars |-> <<>>, bits |-> {}, fresh |-> FALSE, diuFresh |-> FALSE, quiet |-> FALSE,
           transid |-> 15]

DdlInit ==
  /\ link \in BOOLEAN /\ oldSiu \in BOOLEAN /\ siuLoop = FALSE
  /\ siuError = FALSE /\ frontEnd = "idle"
  /\ command = NoCommand /\ answering = <<>> /\ status = <<>>
  /\ script = [u \in User |-> <<>>] /\ call = [u \in User |-> "none"]
  /\ info = NoInfo
  /\ trigger = FALSE /\ calls = 0 /\ breaks = 0
  /\ undisturbed = [u \in User |-> FALSE]
-----------------------------------------------------------------------------
(* Steps of a script, and the calls made of them. *)
Step(op, cmd)          == <<[op |-> op, cmd |-> cmd]>>
Read(codes, cmd, use)  == <<[op |-> "read", codes |-> codes, cmd |-> cmd, use |-> use]>>
ReadAny(use)           == Read({}, NoCommand, use)
Reset  == Step("reset", NoCommand)
LinkUp == Step("linkUp", NoCommand)
Wait   == Step("wait", NoCommand)
EndTry   == Step("endTry", NoCommand)    \* try { ... } catch (const Exception&) {}
EndRetry == Step("endRetry", NoCommand)  \* for (...) try { ... return; } catch ... {}

(* CrorcBar::sendDdlCommand(): the word read back is not looked at. *)
SendDdlCommand(cmd) == Step("put", cmd) \o Wait \o ReadAny("ignored")

SiuReset == SendDdlCommand(Cmd("DIU", "SRST"))

(* resetDevice(withSiu) *)
ResetDevice(withSiu) ==
  IF withSiu THEN Reset \o SiuReset \o LinkUp \o SiuReset \o Reset \o LinkUp
             ELSE Reset \o Reset

(* Mutant: the words of earlier commands are left in the FIFO. *)
StartScript_NoReset(source) ==
  CASE source = "FEE" -> LinkUp \o SendDdlCommand(Cmd("FEE", "RDYRX"))
    [] source = "DIU" -> SendDdlCommand(Cmd("DIU", "IFLOOP"))
    [] source = "SIU" -> SendDdlCommand(Cmd("SIU", "IFLOOP"))

(* deviceStartDma(): a reset, then the trigger or the generator's loopback. *)
StartScript(source) ==
  ResetDevice(FALSE) \o
  CASE source = "FEE" -> LinkUp \o SendDdlCommand(Cmd("FEE", "RDYRX"))
    [] source = "DIU" -> SendDdlCommand(Cmd("DIU", "IFLOOP"))
    [] source = "SIU" -> SendDdlCommand(Cmd("SIU", "IFLOOP"))

(* stopTrigger(): a time-out is logged and forgotten. *)
StopScript == SendDdlCommand(Cmd("FEE", "EOBTR")) \o EndTry

(* Crorc::ddlSendCommand(): looks at the link and the command register.     *)
Send(cmd) == (IF cmd.dest = "DIU" THEN <<>> ELSE LinkUp)
             \o Step("free", NoCommand) \o Step("put", cmd)

Transmitted == {"CTSTW", "ILCMD", "CTSTW_TO"}

(* ddlReadHw() *)
HwQuery(addr) == LET cmd == Command("SIU", "RHWVER", 0, addr)
                 IN Send(cmd) \o Wait \o Read({"HWSTW"}, cmd, "char")
                              \o Wait \o Read(Transmitted, cmd, "charEnd")

(* ddlReadSiu(): the second word is read without waiting for it. *)
StatusQuery(trid, use) ==
  LET cmd == Command("SIU", "RandCIFST", trid, 0)
  IN Send(cmd) \o Wait \o Read({"IFSTW"}, cmd, "interface") \o Read(Transmitted, cmd, use)

(* ddlReadDiu() *)
DiuQuery(trid) ==
  LET cmd == Command("DIU", "RandCIFST", trid, 0)
  IN Send(cmd) \o Wait \o Read({"IFSTW"}, cmd, "diu") \o Wait \o Read(Transmitted, cmd, "done")

(* ddlSetSiuLoopBack(), first part; ddlSetDiuLoopBack() is of this form.    *)
Ask(cmd, use) == Send(cmd) \o Wait \o ReadAny(use)
LoopScript == Ask(Cmd("SIU", "IFLOOP"), "loop")

(* One attempt of ddlResetSiu(): each query takes the next transaction id.  *)
CurrentId == 16
NextId == Step("nextId", NoCommand)
Attempt == NextId \o DiuQuery(CurrentId) \o NextId \o StatusQuery(CurrentId, "done") \o EndRetry

ResetAttempts == [i \in 1..Cycles * Len(Attempt) |-> Attempt[1 + ((i - 1) % Len(Attempt))]]
            \o Step("fail", NoCommand)

(* ddlResetSiu(): what the reset itself throws is not caught.               *)
ResetSiuScript == Ask(Cmd("DIU", "SRST"), "attempts")

(* startTrigger(), and then stopTrigger(), of class Crorc: the stop is      *)
(* tried twice.                                                             *)
TriggerScript == Ask(Cmd("FEE", "RDYRX"), "stopping")
StopTwice == Ask(Cmd("FEE", "EOBTR"), "ignored") \o EndTry
             \o Ask(Cmd("FEE", "EOBTR"), "ignored") \o EndTry
-----------------------------------------------------------------------------
Now(u, op) == script[u] # <<>> /\ Head(script[u]).op = op

(* The end of a try block is passed over; that of a retry returns.          *)
Continue(u, steps) ==
  /\ script' = [script EXCEPT ![u] = IF steps = <<>> THEN <<>>
                                     ELSE CASE Head(steps).op = "endTry"   -> Tail(steps)
                                            [] Head(steps).op = "endRetry" -> <<>>
                                            [] OTHER                       -> steps]
  /\ UNCHANGED call

(* An exception ends the call, or is caught at the next end of a try block. *)
Catches(u) == {i \in DOMAIN script[u] : script[u][i].op \in {"endTry", "endRetry"}}
Throw(u) ==
  IF Catches(u) = {}
  THEN /\ script' = [script EXCEPT ![u] = <<>>]
       /\ call' = [call EXCEPT ![u] = "none"]
  ELSE LET first == CHOOSE i \in Catches(u) : \A j \in Catches(u) : i <= j
       IN script' = [script EXCEPT ![u] = SubSeq(@, first + 1, Len(@))] /\ UNCHANGED call
Returned(u, name) == script[u] = <<>> /\ call[u] = name

dataVars == <<info, trigger, undisturbed, calls>>

(* A process begins a call when its last one has ended. *)
Begin(u, name, steps) ==
  /\ script[u] = <<>>
  /\ calls < MaxCalls /\ calls' = calls + 1
  /\ call' = [call EXCEPT ![u] = name]
  /\ script' = [script EXCEPT ![u] = steps]

StartDma == \E source \in Sources :
  /\ ~trigger
  /\ Begin("readout", IF source = "FEE" THEN "start" ELSE "generate", StartScript(source))
  /\ undisturbed' = [readout |-> script["tool"] = <<>>, tool |-> FALSE]
  /\ UNCHANGED <<cardVars, command, answering, status, info, trigger>>

StopDma ==
  /\ trigger
  /\ Begin("readout", "stop", StopScript)
  /\ undisturbed' = [undisturbed EXCEPT !["tool"] = FALSE]
  /\ trigger' = FALSE
  /\ UNCHANGED <<cardVars, command, answering, status, info>>

(* resetChannel(InternalSiu), when DMA is stopped *)
ResetChannel ==
  /\ ~trigger
  /\ Begin("readout", "reset", ResetDevice(TRUE))
  /\ undisturbed' = [readout |-> FALSE, tool |-> FALSE]
  /\ UNCHANGED <<cardVars, command, answering, status, info, trigger>>

(* A call of class Crorc. *)
ToolCalls == [status |-> HwQuery(1), loopback |-> LoopScript,
              resetSiu |-> ResetSiuScript, trigger |-> TriggerScript]

BeginTool ==
  /\ \E name \in DOMAIN ToolCalls : Begin("tool", name, ToolCalls[name])
  /\ info' = [NoInfo EXCEPT !.quiet = /\ status = <<>> /\ answering = <<>>
                                      /\ command = NoCommand]
  /\ undisturbed' = [readout |-> FALSE, tool |-> script["readout"] = <<>>]
  /\ UNCHANGED <<cardVars, command, answering, status, trigger>>

LoseWords == undisturbed' = [undisturbed EXCEPT !["tool"] = FALSE]

(* resetCard(): the registers and FIFOs of card and channel are cleared.    *)
ResetCard(u) ==
  /\ Now(u, "reset")
  /\ command' = NoCommand /\ answering' = <<>> /\ status' = <<>>
  /\ Continue(u, Tail(script[u]))
  /\ LoseWords
  /\ UNCHANGED <<cardVars, trigger, info, calls>>

(* assertLinkUp(): CrorcBar looks a thousand times, or for two seconds; the *)
(* last look decides.  Crorc looks once.                                    *)
CheckLink(u) ==
  /\ Now(u, "linkUp")
  /\ IF link THEN Continue(u, Tail(script[u])) ELSE Throw(u)
  /\ UNCHANGED <<cardVars, command, answering, status, dataVars>>

(* ddlSendCommand() waits for the command register a number of cycles.      *)
WaitFree(u) ==
  /\ Now(u, "free")
  /\ IF command = NoCommand THEN Continue(u, Tail(script[u])) ELSE Throw(u)
  /\ UNCHANGED <<cardVars, command, answering, status, dataVars>>

TakeNextId(u) ==
  /\ Now(u, "nextId")
  /\ info' = [info EXCEPT !.transid = (@ + 1) % 16]
  /\ Continue(u, Tail(script[u]))
  /\ UNCHANGED <<cardVars, command, answering, status, trigger, undisturbed, calls>>

TridOf(cmd) == IF cmd.trid = CurrentId THEN info.transid ELSE cmd.trid

(* putCommandRegister(): what was in the register is lost. *)
PutCommand(u) ==
  /\ Now(u, "put")
  /\ LET cmd == Head(script[u]).cmd IN command' = [cmd EXCEPT !.trid = TridOf(cmd)]
  /\ IF u = "tool"
     THEN LET Old(words) == [i \in DOMAIN words |-> [words[i] EXCEPT !.mine = FALSE]]
          IN status' = Old(status) /\ answering' = Old(answering)
     ELSE UNCHANGED <<status, answering>>
  /\ Continue(u, Tail(script[u]))
  /\ UNCHANGED <<cardVars, dataVars>>

(* Polling the status bit: until a word is there, or the time is up.        *)
WordThere(u) ==
  /\ Now(u, "wait") /\ status # <<>>
  /\ Continue(u, Tail(script[u]))
  /\ UNCHANGED <<cardVars, command, answering, status, dataVars>>

TimesOut(u) ==
  /\ Now(u, "wait") /\ status = <<>>
  /\ Throw(u)
  /\ UNCHANGED <<cardVars, command, answering, status, dataVars>>
-----------------------------------------------------------------------------
(* Reading a status word, and what the caller does with it. *)
TheWord == IF status = <<>> THEN NoWord ELSE Head(status)

Matches(word, read) == \/ read.codes = {}
                       \/ /\ word.code \in read.codes
                          /\ word.dest = read.cmd.dest /\ word.trid = TridOf(read.cmd)

(* ddlGetHwInfo(): characters up to the terminator, or to the end of the    *)
(* buffer; then ddlPrintStatus().                                           *)
AfterChar == IF info.chars[Len(info.chars)] = 0 \/ Len(info.chars) = MaxHwId
             THEN StatusQuery(0, "done")
             ELSE HwQuery(Len(info.chars) + 1)

(* ddlSetSiuLoopBack(): the first command switched it off: send another.    *)
AfterLoopStatus ==
  IF "LBMOD" \in info.bits THEN <<>> ELSE Ask(Cmd("SIU", "IFLOOP"), "ignored")

(* An SIU that does not know IFLOOP is sent TSTMODE, and then the status    *)
(* word of the first command is tested again: the call always throws.       *)
AfterLoopCommand(word) ==
  CASE word.code = "CTSTW" -> StatusQuery(0, "loopDone")
    [] word.code = "ILCMD" -> Send(Cmd("SIU", "TSTMODE")) \o Wait \o Step("fail", NoCommand)
    [] OTHER               -> Step("fail", NoCommand)

Use(u, use, word) ==
  CASE use = "char" ->
         /\ info' = [info EXCEPT !.chars = Append(@, word.value)]
         /\ Continue(u, Tail(script[u]))
    [] use = "interface" ->
         /\ info' = [info EXCEPT !.bits = word.value, !.fresh = word.mine]
         /\ Continue(u, Tail(script[u]))
    [] use = "diu" ->
         /\ info' = [info EXCEPT !.diuFresh = word.mine]
         /\ Continue(u, Tail(script[u]))
    [] use = "charEnd"  -> Continue(u, AfterChar) /\ UNCHANGED info
    [] use = "loop"     -> Continue(u, AfterLoopCommand(word)) /\ UNCHANGED info
    [] use = "loopDone" -> Continue(u, AfterLoopStatus) /\ UNCHANGED info
    [] use = "attempts" -> Continue(u, ResetAttempts) /\ UNCHANGED info
    [] use = "stopping" -> Continue(u, StopTwice) /\ UNCHANGED info
    [] OTHER            -> Continue(u, Tail(script[u])) /\ UNCHANGED info

(* ddlReadStatus(), and the comparison with the status word expected.       *)
ReadStatus(u) ==
  /\ Now(u, "read")
  /\ status' = IF status = <<>> THEN <<>> ELSE Tail(status)
  /\ LET read == Head(script[u])
     IN IF Matches(TheWord, read)
        THEN /\ Use(u, read.use, TheWord)
             /\ trigger' = (trigger \/ (call[u] = "start" /\ Len(script[u]) = 1))
        ELSE Throw(u) /\ UNCHANGED <<info, trigger>>
  /\ UNCHANGED <<cardVars, command, answering, undisturbed, calls>>

Fail(u) ==
  /\ Now(u, "fail")
  /\ Throw(u)
  /\ UNCHANGED <<cardVars, command, answering, status, dataVars>>
-----------------------------------------------------------------------------
(* The card and the far side. *)
HwChar(addr) == IF addr \in DOMAIN HwId THEN HwId[addr] ELSE 0

(* The error, loop-back and open transaction bits of the SIU. *)
StatusBits(cmd) == IF cmd.dest = "DIU" THEN {}
                   ELSE {b \in {"ERROR", "LBMOD", "OPTRAN"} :
                           CASE b = "ERROR"  -> siuError
                             [] b = "LBMOD"  -> siuLoop
                             [] b = "OPTRAN" -> frontEnd = "sending"}

Answers(cmd) ==
  CASE cmd.code = "RHWVER"    -> <<Word(cmd, "HWSTW", HwChar(cmd.addr)), Word(cmd, "CTSTW", 0)>>
    [] cmd.code = "RandCIFST" -> <<Word(cmd, "IFSTW", StatusBits(cmd)), Word(cmd, "CTSTW", 0)>>
    [] cmd.code = "IFLOOP" /\ cmd.dest = "SIU" /\ oldSiu -> <<Word(cmd, "ILCMD", 0)>>
    [] OTHER                  -> <<Word(cmd, "CTSTW", 0)>>

(* A command is carried out and answered; it is lost if the link is down.   *)
Execute ==
  /\ command # NoCommand
  /\ command' = NoCommand
  /\ IF command.dest = "DIU" \/ link
     THEN /\ answering' = answering \o Answers(command)
          /\ frontEnd' = CASE command.code = "RDYRX" -> "sending"
                            [] command.code = "EOBTR" -> "idle"
                            [] OTHER                  -> frontEnd
          /\ siuLoop' = CASE command.code = "TSTMODE" -> TRUE
                           [] command = Cmd("SIU", "IFLOOP") /\ ~oldSiu -> ~siuLoop
                           [] OTHER -> siuLoop
          /\ siuError' = (siuError /\ ~(command.dest = "SIU" /\ command.code = "RandCIFST"))
          /\ UNCHANGED undisturbed
     ELSE LoseWords /\ UNCHANGED <<answering, frontEnd, siuLoop, siuError>>
  /\ UNCHANGED <<link, oldSiu, status, script, call, trigger, info, calls, breaks>>

Arrive ==
  /\ answering # <<>>
  /\ status' = Append(status, Head(answering))
  /\ answering' = Tail(answering)
  /\ UNCHANGED <<cardVars, command, script, call, dataVars>>

(* The link breaks, with the words on their way, or returns.                *)
LinkChanges ==
  /\ breaks < MaxBreaks /\ breaks' = breaks + 1
  /\ link' = ~link /\ siuError' = TRUE
  /\ answering' = <<>>
  /\ IF answering = <<>> THEN UNCHANGED undisturbed ELSE LoseWords
  /\ UNCHANGED <<oldSiu, siuLoop, frontEnd, command, status, script, call, trigger, info, calls>>
-----------------------------------------------------------------------------
DdlStep(u) == \/ ResetCard(u) \/ CheckLink(u) \/ WaitFree(u) \/ PutCommand(u)
              \/ WordThere(u) \/ TimesOut(u) \/ ReadStatus(u) \/ Fail(u) \/ TakeNextId(u)

(* All calls of the bound are made and answered. *)
DdlRests == /\ calls = MaxCalls /\ script = [u \in User |-> <<>>]
            /\ command = NoCommand /\ answering = <<>>
            /\ UNCHANGED ddlVars

DdlNext == \/ StartDma \/ StopDma \/ ResetChannel \/ BeginTool
           \/ (\E u \in User : DdlStep(u))
           \/ Execute \/ Arrive \/ LinkChanges \/ DdlRests

DdlSpec == DdlInit /\ [][DdlNext]_ddlVars
-----------------------------------------------------------------------------
DdlTypeOK ==
  /\ link \in BOOLEAN /\ oldSiu \in BOOLEAN /\ siuLoop \in BOOLEAN
  /\ frontEnd \in {"idle", "sending"}
  /\ \A i \in DOMAIN status : status[i].dest \in {"DIU", "SIU", "FEE"}
  /\ Len(info.chars) <= MaxHwId
  /\ trigger \in BOOLEAN /\ undisturbed \in [User -> BOOLEAN]

(* ddlInterpretIfstw(): error bits are looked at only if the error bit is   *)
(* set; the loop-back and transaction bits always.                          *)
Interpretation ==
  (IF "ERROR" \in info.bits THEN {"SIU error bit(s) set"} ELSE {"SIU error bit not set"})
  \cup (IF "LBMOD" \in info.bits THEN {"SIU in Loopback Mode"} ELSE {})
  \cup (IF "OPTRAN" \in info.bits THEN {"One FEE transaction is open"} ELSE {})

(* What o2-roc-siu-status prints is what the SIU answered to this very call, *)
(* whatever times out and whenever the link breaks, if the call began with   *)
(* no answer outstanding: without that, a call after one that timed out may  *)
(* report the answers to the earlier one, since all transactions are 0.      *)
SiuReportIsRight ==
  Returned("tool", "status") /\ undisturbed["tool"] /\ info.quiet =>
    /\ info.chars = Append(HwId, 0) /\ info.fresh
    /\ siuLoop <=> "SIU in Loopback Mode" \in Interpretation
    /\ frontEnd = "sending" <=> "One FEE transaction is open" \in Interpretation

(* ddlResetSiu() succeeds on the answers to its last attempt only, however   *)
(* many earlier ones timed out and were answered late.                       *)
ResetSiuIsRight ==
  Returned("tool", "resetSiu") /\ undisturbed["tool"] /\ info.quiet =>
    info.diuFresh /\ info.fresh

(* startDma() returns only when the front end has got RDYRX, as long as no   *)
(* tool used the link meanwhile: the reset leaves no word of an earlier      *)
(* command that could be taken for the answer.                               *)
TriggerReachesFrontEnd ==
  undisturbed["readout"] /\ trigger => frontEnd = "sending"

(* setSiuLoopback() toggles the mode once or twice, and leaves it on.        *)
LoopbackIsOn ==
  Returned("tool", "loopback") /\ undisturbed["tool"] /\ info.quiet => siuLoop

(* Whatever a call of class Crorc tells its caller is so, and a readout that *)
(* has started has told its front end (Crorc.cxx, CrorcBar::startTrigger).   *)
DdlIsRight ==
  SiuReportIsRight /\ ResetSiuIsRight /\ LoopbackIsOn /\ TriggerReachesFrontEnd
=============================================================================
