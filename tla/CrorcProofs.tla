------------------------------ MODULE CrorcProofs ------------------------------
(***************************************************************************)
(* Proofs about a C-RORC: its DDL, its flash memory and its registers. The *)
(* three share no state, so each has an inductive invariant of its own.    *)
(*                                                                         *)
(* The DDL: for any hardware identification, any number of reset attempts  *)
(* whose transaction ids do not wrap around and any number of calls and    *)
(* breaks of the link, what a call of class Crorc tells its caller is so,  *)
(* and a readout that has started has told its front end.  The invariant   *)
(* follows the script of each kind of call step by step: at each step it   *)
(* says which command and which status words can be on their way.  The     *)
(* lemmas about the scripts say what their steps are; those about a step   *)
(* of a script, what its execution changes; then come the steps of the     *)
(* card and of the two processes, one kind of call at a time.              *)
(***************************************************************************)
EXTENDS CardParts, SequenceTheorems, WellFoundedInduction, TLAPS

LEMMA Extended ==
  ASSUME NEW S, NEW s \in Seq(S), NEW t \in Seq(S), NEW e \in S, Len(t) = Len(s) + 1,
         \A i \in 1 .. Len(s) : t[i] = s[i], t[Len(t)] = e
  PROVE  s \o <<e>> = t
<1> DEFINE n == Len(s)
<1>1. /\ Append(s, e) \in Seq(S) /\ Len(Append(s, e)) = Len(s) + 1
      /\ \A i \in 1 .. Len(s) : Append(s, e)[i] = s[i]
      /\ Append(s, e)[Len(s)+1] = e
  BY AppendProperties
<1>2. \A i \in 1 .. Len(Append(s, e)) : Append(s, e)[i] = t[i]
  <2> TAKE i \in 1 .. Len(Append(s, e))
  <2>1. i \in 1 .. n \/ i = n + 1
    BY <1>1, LenProperties DEF n
  <2> QED BY <2>1, <1>1 DEF n
<1>3. Append(s, e) = t
  BY <1>1, <1>2, SeqEqual
<1> QED BY <1>3, AppendIsConcat

DdlDests == {"none", "FEE", "DIU", "SIU"}
CommandCodes == {"none", "SRST", "RDYRX", "EOBTR", "IFLOOP", "TSTMODE", "RHWVER", "RandCIFST"}
WordCodes == {"none", "HWSTW", "IFSTW"} \cup Transmitted
SiuBits == {"ERROR", "LBMOD", "OPTRAN"}
WordValues == Nat \cup SUBSET SiuBits
DdlCommands == [dest : DdlDests, code : CommandCodes, trid : Nat, addr : Nat]
StatusWords == [dest : DdlDests, code : WordCodes, trid : Nat, value : WordValues, mine : BOOLEAN]
StepOps == {"put", "wait", "reset", "linkUp", "endTry", "endRetry", "free", "nextId", "fail"}
ReadUses == {"ignored", "char", "charEnd", "interface", "done", "diu", "loop", "loopDone",
             "attempts", "stopping"}
DdlSteps == [op : StepOps, cmd : DdlCommands]
           \cup [op : {"read"}, codes : SUBSET WordCodes, cmd : DdlCommands, use : ReadUses]
ReadoutCallNames == {"none", "start", "generate", "stop", "reset"}

ScriptTypes ==
  /\ script \in [User -> Seq(DdlSteps)]
  /\ call \in [User -> ReadoutCallNames \cup DOMAIN ToolCalls] /\ call["readout"] \in ReadoutCallNames
  /\ call["tool"] \in {"none"} \cup DOMAIN ToolCalls
WordTypes ==
  command \in DdlCommands /\ status \in Seq(StatusWords) /\ answering \in Seq(StatusWords)
InfoTypes ==
  info \in [chars : Seq(WordValues), bits : WordValues, fresh : BOOLEAN,
            diuFresh : BOOLEAN, quiet : BOOLEAN, transid : 0..15]
OtherTypes ==
  /\ siuLoop \in BOOLEAN /\ frontEnd \in {"idle", "sending"}
  /\ trigger \in BOOLEAN /\ undisturbed \in [User -> BOOLEAN]
DdlTypes == ScriptTypes /\ WordTypes /\ InfoTypes /\ OtherTypes

(* What is left of a script at its step k.                                 *)
IsAt(u, rows, k) == k \in 1..Len(rows) /\ script[u] = SubSeq(rows, k, Len(rows))

(* The words that were sent and not yet read. *)
Flight == status \o answering
Silence == command = NoCommand /\ Flight = <<>>
OneWord(w) == command = NoCommand /\ Flight = <<w>>
TwoWords(v, w) == command = NoCommand /\ Flight = <<v, w>>
Ended(cmd) == Word(cmd, "CTSTW", 0)

RdyCmd == Cmd("FEE", "RDYRX")
StartAt(k) ==
  /\ IsAt("readout", StartScript("FEE"), k)
  /\ undisturbed["readout"] /\ k \in {3, 4} => Silence
  /\ undisturbed["readout"] /\ k \in {5, 6} =>
       \/ command = RdyCmd /\ Flight = <<>>
       \/ command = NoCommand /\ (Flight # <<>> => frontEnd = "sending")
  /\ undisturbed["readout"] /\ k = 6 => status # <<>>
StartInv ==
  /\ undisturbed["readout"] => script["tool"] = <<>>
  /\ trigger => script["readout"] = <<>>
  /\ trigger /\ undisturbed["readout"] => command = NoCommand /\ frontEnd = "sending"
  /\ call["readout"] = "start" /\ script["readout"] # <<>> => \E k \in 1..6 : StartAt(k)

BitsAreRight(v) == /\ "LBMOD" \in v <=> siuLoop
                   /\ "OPTRAN" \in v <=> frontEnd = "sending"
CharCmd(n) == Command("SIU", "RHWVER", 0, n)
StatusCmd == Command("SIU", "RandCIFST", 0, 0)
LoopCmd == Cmd("SIU", "IFLOOP")

CharsRead(n) == info.chars = [i \in 1..n |-> HwChar(i)]
CharAt(n, k) ==
  /\ IsAt("tool", HwQuery(n), k)
  /\ CharsRead(IF k <= 5 THEN n - 1 ELSE n)
  /\ k <= 3 => Silence
  /\ k \in {4, 5} => \/ command = CharCmd(n) /\ Flight = <<>>
                     \/ TwoWords(Word(CharCmd(n), "HWSTW", HwChar(n)), Ended(CharCmd(n)))
  /\ k \in {6, 7} => OneWord(Ended(CharCmd(n)))

AskedForStatus(k) ==
    /\ k <= 3 => Silence
    /\ k \in {4, 5} =>
         \/ command = StatusCmd /\ Flight = <<>>
         \/ \E v \in SUBSET SiuBits :
               BitsAreRight(v) /\ TwoWords(Word(StatusCmd, "IFSTW", v), Ended(StatusCmd))
    /\ k = 6 => OneWord(Ended(StatusCmd)) /\ BitsAreRight(info.bits) /\ info.fresh = TRUE

StatusAt(k) ==
  IsAt("tool", StatusQuery(0, "done"), k) /\ AskedForStatus(k) /\ CharsRead(Len(HwId) + 1)
StatusTold ==
  /\ script["tool"] = <<>> /\ command = NoCommand
  /\ CharsRead(Len(HwId) + 1) /\ BitsAreRight(info.bits) /\ info.fresh = TRUE
StatusInv ==
  \/ \E n \in 1..(Len(HwId) + 1), k \in 1..7 : CharAt(n, k)
  \/ \E k \in 1..6 : StatusAt(k)
  \/ StatusTold

TestMode == Send(Cmd("SIU", "TSTMODE")) \o Wait \o Step("fail", NoCommand)
LoopAt(k) ==
  /\ IsAt("tool", LoopScript, k)
  /\ k <= 3 => Silence
  /\ k \in {4, 5} => \/ command = LoopCmd /\ Flight = <<>>
                     \/ OneWord(Word(LoopCmd, "ILCMD", 0))
                     \/ OneWord(Ended(LoopCmd)) /\ ~oldSiu
LoopStatusAt(k) == ~oldSiu /\ IsAt("tool", StatusQuery(0, "loopDone"), k) /\ AskedForStatus(k)
AgainAt(k) ==
  /\ IsAt("tool", Ask(LoopCmd, "ignored"), k) /\ ~oldSiu
  /\ k <= 3 => Silence /\ ~siuLoop
  /\ k \in {4, 5} => \/ command = LoopCmd /\ Flight = <<>> /\ ~siuLoop
                     \/ command = NoCommand /\ siuLoop
  /\ k = 5 => status # <<>>
LoopIsOn == script["tool"] = <<>> /\ command = NoCommand /\ siuLoop
LoopBackInv ==
  \/ \E k \in 1..5 : LoopAt(k)
  \/ \E k \in 1..6 : LoopStatusAt(k)
  \/ \E k \in 1..5 : AgainAt(k)
  \/ \E k \in 1..5 : IsAt("tool", TestMode, k)
  \/ IsAt("tool", Step("fail", NoCommand), 1)
  \/ LoopIsOn

IdsTaken == (info.transid + 1) % 16
WordsOf(fifo) == {fifo[i] : i \in 1..Len(fifo)}
OnTheirWay == WordsOf(status) \cup WordsOf(answering)
IdsBelow(n) ==
  /\ command.code = "RandCIFST" => command.trid < n
  /\ \A w \in OnTheirWay : w.code = "IFSTW" => w.trid < n
OwnAreMine == \A w \in OnTheirWay : w.code = "IFSTW" /\ w.trid = info.transid => w.mine = TRUE
AttemptInv(a, q) ==
  /\ IsAt("tool", ResetAttempts, 15 * a + q)
  /\ IdsTaken <= 2 * a + (IF q = 1 THEN 0 ELSE IF q <= 8 THEN 1 ELSE 2)
  /\ IdsBelow(IdsTaken)
  /\ q # 1 => info.transid # 15
  /\ q \in {2, 3, 9, 10, 11} => IdsBelow(info.transid)
  /\ q \in 4..8 \cup 12..15 => OwnAreMine
  /\ q >= 6 => info.diuFresh = TRUE
  /\ q >= 14 => info.fresh = TRUE
ResetAt(k) == IsAt("tool", ResetSiuScript, k) /\ info.transid = 15 /\ IdsBelow(0)
ResetDone == script["tool"] = <<>> /\ info.diuFresh = TRUE /\ info.fresh = TRUE
ResetSiuInv ==
  \/ \E k \in 1..4 : ResetAt(k)
  \/ \E a \in 0..Cycles, q \in 1..15 : AttemptInv(a, q)
  \/ ResetDone

ToolCallInv ==
  /\ undisturbed["tool"] => script["readout"] = <<>>
  /\ undisturbed["tool"] /\ info.quiet =>
       /\ call["tool"] = "status" => StatusInv
       /\ call["tool"] = "loopback" => LoopBackInv
       /\ call["tool"] = "resetSiu" => ResetSiuInv

DdlInv == DdlTypes /\ StartInv /\ ToolCallInv

-----------------------------------------------------------------------------
(* The scripts, a step at a time.                                          *)
OpStep(op, cmd) == [op |-> op, cmd |-> cmd]
ReadStep(codes, cmd, use) == [op |-> "read", codes |-> codes, cmd |-> cmd, use |-> use]
UpStep == OpStep("linkUp", NoCommand)
FreeStep == OpStep("free", NoCommand)
PutStep(cmd) == OpStep("put", cmd)
WaitStep == OpStep("wait", NoCommand)
IdStep == OpStep("nextId", NoCommand)
AnyStep(use) == ReadStep({}, NoCommand, use)
FailStep == OpStep("fail", NoCommand)
RetryStep == OpStep("endRetry", NoCommand)
ClearStep == OpStep("reset", NoCommand)

LEMMA StepTypes ==
  /\ NoCommand \in DdlCommands
  /\ \A op \in StepOps, cmd \in DdlCommands :
       /\ Step(op, cmd) = <<OpStep(op, cmd)>> /\ OpStep(op, cmd) \in DdlSteps
       /\ Step(op, cmd) \in Seq(DdlSteps)
  /\ \A codes \in SUBSET WordCodes, cmd \in DdlCommands, use \in ReadUses :
       /\ Read(codes, cmd, use) = <<ReadStep(codes, cmd, use)>>
       /\ ReadStep(codes, cmd, use) \in DdlSteps /\ Read(codes, cmd, use) \in Seq(DdlSteps)
<1>1. NoCommand \in DdlCommands
  BY DEF NoCommand, Cmd, Command, DdlCommands, DdlDests, CommandCodes
<1>2. ASSUME NEW op \in StepOps, NEW cmd \in DdlCommands
      PROVE  OpStep(op, cmd) \in DdlSteps /\ Step(op, cmd) = <<OpStep(op, cmd)>>
  BY DEF OpStep, DdlSteps, Step
<1>3. ASSUME NEW codes \in SUBSET WordCodes, NEW cmd \in DdlCommands, NEW use \in ReadUses
      PROVE  ReadStep(codes, cmd, use) \in DdlSteps /\ Read(codes, cmd, use) = <<ReadStep(codes, cmd, use)>>
  BY DEF ReadStep, DdlSteps, Read
<1>4. \A e \in DdlSteps : <<e>> \in Seq(DdlSteps)
  OBVIOUS
<1> QED BY <1>1, <1>2, <1>3, <1>4

(* Short sequences, put together.                                          *)
LEMMA Row1 == ASSUME NEW S, NEW a \in S PROVE <<>> \o <<a>> = <<a>>
<1>1. <<a>> \in Seq(S)
  OBVIOUS
<1> QED BY <1>1, ConcatEmptySeq

LEMMA Row2 ==
  ASSUME NEW S, NEW a \in S, NEW b \in S
  PROVE  <<a>> \o <<b>> = <<a, b>>
<1> DEFINE s == <<a>>
           t == <<a, b>>
<1>1. s \in Seq(S) /\ Len(s) = 1 /\ s[1] = a
  OBVIOUS
<1>2. t \in Seq(S) /\ Len(t) = 2 /\ t[1] = a /\ t[2] = b
  OBVIOUS
<1> HIDE DEF s, t
<1>3. Len(t) = Len(s) + 1 /\ t[Len(t)] = b /\ \A i \in 1 .. Len(s) : t[i] = s[i]
  BY <1>1, <1>2
<1>4. s \o <<b>> = t
  BY <1>1, <1>2, <1>3, Extended
<1> QED BY <1>4 DEF s, t

LEMMA Row3 ==
  ASSUME NEW S, NEW a \in S, NEW b \in S, NEW c \in S
  PROVE  <<a, b>> \o <<c>> = <<a, b, c>>
<1> DEFINE s == <<a, b>>
           t == <<a, b, c>>
<1>1. s \in Seq(S) /\ Len(s) = 2 /\ s[1] = a /\ s[2] = b
  OBVIOUS
<1>2. t \in Seq(S) /\ Len(t) = 3 /\ t[1] = a /\ t[2] = b /\ t[3] = c
  OBVIOUS
<1> HIDE DEF s, t
<1>3. Len(t) = Len(s) + 1 /\ t[Len(t)] = c /\ \A i \in 1 .. Len(s) : t[i] = s[i]
  BY <1>1, <1>2
<1>4. s \o <<c>> = t
  BY <1>1, <1>2, <1>3, Extended
<1> QED BY <1>4 DEF s, t

LEMMA Row4 ==
  ASSUME NEW S, NEW a \in S, NEW b \in S, NEW c \in S, NEW d \in S
  PROVE  <<a, b, c>> \o <<d>> = <<a, b, c, d>>
<1> DEFINE s == <<a, b, c>>
           t == <<a, b, c, d>>
<1>1. s \in Seq(S) /\ Len(s) = 3 /\ s[1] = a /\ s[2] = b /\ s[3] = c
  OBVIOUS
<1>2. t \in Seq(S) /\ Len(t) = 4 /\ t[1] = a /\ t[2] = b /\ t[3] = c /\ t[4] = d
  OBVIOUS
<1> HIDE DEF s, t
<1>3. Len(t) = Len(s) + 1 /\ t[Len(t)] = d /\ \A i \in 1 .. Len(s) : t[i] = s[i]
  BY <1>1, <1>2
<1>4. s \o <<d>> = t
  BY <1>1, <1>2, <1>3, Extended
<1> QED BY <1>4 DEF s, t

LEMMA Row5 ==
  ASSUME NEW S, NEW a \in S, NEW b \in S, NEW c \in S, NEW d \in S, NEW e \in S
  PROVE  <<a, b, c, d>> \o <<e>> = <<a, b, c, d, e>>
<1> DEFINE s == <<a, b, c, d>>
           t == <<a, b, c, d, e>>
<1>1. s \in Seq(S) /\ Len(s) = 4 /\ s[1] = a /\ s[2] = b /\ s[3] = c /\ s[4] = d
  OBVIOUS
<1>2. t \in Seq(S) /\ Len(t) = 5 /\ t[1] = a /\ t[2] = b /\ t[3] = c /\ t[4] = d /\ t[5] = e
  OBVIOUS
<1> HIDE DEF s, t
<1>3. Len(t) = Len(s) + 1 /\ t[Len(t)] = e /\ \A i \in 1 .. Len(s) : t[i] = s[i]
  BY <1>1, <1>2
<1>4. s \o <<e>> = t
  BY <1>1, <1>2, <1>3, Extended
<1> QED BY <1>4 DEF s, t

LEMMA Row6 ==
  ASSUME NEW S, NEW a \in S, NEW b \in S, NEW c \in S, NEW d \in S, NEW e \in S, NEW f \in S
  PROVE  <<a, b, c, d, e>> \o <<f>> = <<a, b, c, d, e, f>>
<1> DEFINE s == <<a, b, c, d, e>>
           t == <<a, b, c, d, e, f>>
<1>1. s \in Seq(S) /\ Len(s) = 5 /\ s[1] = a /\ s[2] = b /\ s[3] = c /\ s[4] = d /\ s[5] = e
  OBVIOUS
<1>2. t \in Seq(S) /\ Len(t) = 6 /\ t[1] = a /\ t[2] = b /\ t[3] = c /\ t[4] = d /\ t[5] = e /\ t[6] = f
  OBVIOUS
<1> HIDE DEF s, t
<1>3. Len(t) = Len(s) + 1 /\ t[Len(t)] = f /\ \A i \in 1 .. Len(s) : t[i] = s[i]
  BY <1>1, <1>2
<1>4. s \o <<f>> = t
  BY <1>1, <1>2, <1>3, Extended
<1> QED BY <1>4 DEF s, t

LEMMA Row7 ==
  ASSUME NEW S, NEW a \in S, NEW b \in S, NEW c \in S, NEW d \in S, NEW e \in S, NEW f \in S, NEW g \in S
  PROVE  <<a, b, c, d, e, f>> \o <<g>> = <<a, b, c, d, e, f, g>>
<1> DEFINE s == <<a, b, c, d, e, f>>
           t == <<a, b, c, d, e, f, g>>
<1>1. s \in Seq(S) /\ Len(s) = 6 /\ s[1] = a /\ s[2] = b /\ s[3] = c /\ s[4] = d /\ s[5] = e /\ s[6] = f
  OBVIOUS
<1>2. t \in Seq(S) /\ Len(t) = 7 /\ t[1] = a /\ t[2] = b /\ t[3] = c /\ t[4] = d /\ t[5] = e /\ t[6] = f /\ t[7] = g
  OBVIOUS
<1> HIDE DEF s, t
<1>3. Len(t) = Len(s) + 1 /\ t[Len(t)] = g /\ \A i \in 1 .. Len(s) : t[i] = s[i]
  BY <1>1, <1>2
<1>4. s \o <<g>> = t
  BY <1>1, <1>2, <1>3, Extended
<1> QED BY <1>4 DEF s, t


LEMMA BasicSteps ==
  /\ LinkUp = <<UpStep>> /\ Wait = <<WaitStep>> /\ NextId = <<IdStep>>
  /\ Step("free", NoCommand) = <<FreeStep>>
  /\ \A use \in ReadUses : ReadAny(use) = <<AnyStep(use)>> /\ AnyStep(use) \in DdlSteps
  /\ \A cmd \in DdlCommands : Step("put", cmd) = <<PutStep(cmd)>> /\ PutStep(cmd) \in DdlSteps
  /\ UpStep \in DdlSteps /\ WaitStep \in DdlSteps /\ IdStep \in DdlSteps /\ FreeStep \in DdlSteps
<1>1. {"linkUp", "wait", "nextId", "free", "put"} \subseteq StepOps /\ {} \in SUBSET WordCodes
  BY DEF StepOps
<1> QED BY <1>1, StepTypes DEF LinkUp, Wait, NextId, ReadAny, UpStep, WaitStep, IdStep, FreeStep,
                             PutStep, AnyStep

LEMMA SendSteps ==
  ASSUME NEW cmd \in DdlCommands
  PROVE  Send(cmd) = IF cmd.dest = "DIU" THEN <<FreeStep, PutStep(cmd)>>
                     ELSE <<UpStep, FreeStep, PutStep(cmd)>>
<1> DEFINE put == PutStep(cmd)
<1>1. put \in DdlSteps /\ Step("put", cmd) = <<put>>
  BY BasicSteps
<1>2. Send(cmd) = (IF cmd.dest = "DIU" THEN <<>> ELSE <<UpStep>>) \o <<FreeStep>> \o <<put>>
  BY <1>1, BasicSteps DEF Send
<1> HIDE DEF put
<1>3. CASE cmd.dest = "DIU"
  <2>1. <<>> \o <<FreeStep>> = <<FreeStep>>
    BY BasicSteps, Row1
  <2>2. <<FreeStep>> \o <<put>> = <<FreeStep, put>>
    BY <1>1, BasicSteps, Row2
  <2> QED BY <1>2, <1>3, <2>1, <2>2 DEF put
<1>4. CASE cmd.dest # "DIU"
  <2>1. <<UpStep>> \o <<FreeStep>> = <<UpStep, FreeStep>>
    BY BasicSteps, Row2
  <2>2. <<UpStep, FreeStep>> \o <<put>> = <<UpStep, FreeStep, put>>
    BY <1>1, BasicSteps, Row3
  <2> QED BY <1>2, <1>4, <2>1, <2>2 DEF put
<1> QED BY <1>3, <1>4

LEMMA AskSteps ==
  ASSUME NEW cmd \in DdlCommands, NEW use \in ReadUses
  PROVE  Ask(cmd, use) = IF cmd.dest = "DIU"
                         THEN <<FreeStep, PutStep(cmd), WaitStep, AnyStep(use)>>
                         ELSE <<UpStep, FreeStep, PutStep(cmd), WaitStep, AnyStep(use)>>
<1> DEFINE put == PutStep(cmd)
           read == AnyStep(use)
<1>1. put \in DdlSteps /\ read \in DdlSteps /\ Ask(cmd, use) = Send(cmd) \o <<WaitStep>> \o <<read>>
  BY BasicSteps DEF Ask
<1>2. Send(cmd) = IF cmd.dest = "DIU" THEN <<FreeStep, put>> ELSE <<UpStep, FreeStep, put>>
  BY SendSteps
<1> HIDE DEF put, read
<1>3. CASE cmd.dest = "DIU"
  <2>1. <<FreeStep, put>> \o <<WaitStep>> = <<FreeStep, put, WaitStep>>
    BY <1>1, BasicSteps, Row3
  <2>2. <<FreeStep, put, WaitStep>> \o <<read>> = <<FreeStep, put, WaitStep, read>>
    BY <1>1, BasicSteps, Row4
  <2> QED BY <1>1, <1>2, <1>3, <2>1, <2>2 DEF put, read
<1>4. CASE cmd.dest # "DIU"
  <2>1. <<UpStep, FreeStep, put>> \o <<WaitStep>> = <<UpStep, FreeStep, put, WaitStep>>
    BY <1>1, BasicSteps, Row4
  <2>2. <<UpStep, FreeStep, put, WaitStep>> \o <<read>> = <<UpStep, FreeStep, put, WaitStep, read>>
    BY <1>1, BasicSteps, Row5
  <2> QED BY <1>1, <1>2, <1>4, <2>1, <2>2 DEF put, read
<1> QED BY <1>3, <1>4

(* The three queries.                                                      *)
CharStep(n) == ReadStep({"HWSTW"}, CharCmd(n), "char")
CharEndStep(n) == ReadStep(Transmitted, CharCmd(n), "charEnd")
SiuCmd(id) == Command("SIU", "RandCIFST", id, 0)
DiuCmd(id) == Command("DIU", "RandCIFST", id, 0)

LEMMA CommandTypes ==
  /\ \A n \in Nat : CharCmd(n) \in DdlCommands /\ SiuCmd(n) \in DdlCommands /\ DiuCmd(n) \in DdlCommands
  /\ StatusCmd \in DdlCommands /\ LoopCmd \in DdlCommands /\ RdyCmd \in DdlCommands
  /\ Cmd("FEE", "EOBTR") \in DdlCommands /\ Cmd("SIU", "TSTMODE") \in DdlCommands
  /\ Cmd("DIU", "SRST") \in DdlCommands /\ Cmd("DIU", "IFLOOP") \in DdlCommands
BY DEF CharCmd, SiuCmd, DiuCmd, StatusCmd, LoopCmd, RdyCmd, Cmd, Command, DdlCommands, DdlDests,
       CommandCodes

LEMMA HwQuerySteps ==
  ASSUME NEW n \in Nat
  PROVE  /\ HwQuery(n) = <<UpStep, FreeStep, PutStep(CharCmd(n)), WaitStep, CharStep(n), WaitStep,
                           CharEndStep(n)>>
         /\ {CharStep(n), CharEndStep(n)} \subseteq DdlSteps
<1> DEFINE put == PutStep(CharCmd(n))
           read == CharStep(n)
           end == CharEndStep(n)
<1>0. UpStep \in DdlSteps /\ FreeStep \in DdlSteps /\ WaitStep \in DdlSteps
  BY BasicSteps
<1>1. CharCmd(n) \in DdlCommands /\ CharCmd(n).dest # "DIU"
  BY CommandTypes DEF CharCmd, Command
<1>2. {"HWSTW"} \in SUBSET WordCodes /\ Transmitted \in SUBSET WordCodes
      /\ "char" \in ReadUses /\ "charEnd" \in ReadUses
  BY DEF WordCodes, ReadUses
<1>3. /\ put \in DdlSteps /\ read \in DdlSteps /\ end \in DdlSteps
      /\ HwQuery(n) = Send(CharCmd(n)) \o <<WaitStep>> \o <<read>> \o <<WaitStep>> \o <<end>>
  BY <1>1, <1>2, BasicSteps, StepTypes DEF HwQuery, CharCmd, CharStep, CharEndStep
<1>4. Send(CharCmd(n)) = <<UpStep, FreeStep, put>>
  BY <1>1, SendSteps
<1>3a. put \in DdlSteps /\ read \in DdlSteps /\ end \in DdlSteps
  BY <1>3
<1> HIDE DEF put, read, end
<1>5. <<UpStep, FreeStep, put>> \o <<WaitStep>> = <<UpStep, FreeStep, put, WaitStep>>
  BY <1>0, <1>3a, Row4
<1>6. <<UpStep, FreeStep, put, WaitStep>> \o <<read>> = <<UpStep, FreeStep, put, WaitStep, read>>
  BY <1>0, <1>3a, Row5
<1>7. <<UpStep, FreeStep, put, WaitStep, read>> \o <<WaitStep>>
        = <<UpStep, FreeStep, put, WaitStep, read, WaitStep>>
  BY <1>0, <1>3a, Row6
<1>8. <<UpStep, FreeStep, put, WaitStep, read, WaitStep>> \o <<end>>
        = <<UpStep, FreeStep, put, WaitStep, read, WaitStep, end>>
  BY <1>0, <1>3a, Row7
<1> QED BY <1>3, <1>4, <1>5, <1>6, <1>7, <1>8 DEF put, read, end

LEMMA StatusQuerySteps ==
  ASSUME NEW id \in Nat, NEW use \in ReadUses
  PROVE  /\ StatusQuery(id, use) =
              <<UpStep, FreeStep, PutStep(SiuCmd(id)), WaitStep,
                ReadStep({"IFSTW"}, SiuCmd(id), "interface"), ReadStep(Transmitted, SiuCmd(id), use)>>
         /\ {ReadStep({"IFSTW"}, SiuCmd(id), "interface"), ReadStep(Transmitted, SiuCmd(id), use)}
              \subseteq DdlSteps
<1> DEFINE put == PutStep(SiuCmd(id))
           read == ReadStep({"IFSTW"}, SiuCmd(id), "interface")
           end == ReadStep(Transmitted, SiuCmd(id), use)
<1>0. UpStep \in DdlSteps /\ FreeStep \in DdlSteps /\ WaitStep \in DdlSteps
  BY BasicSteps
<1>1. SiuCmd(id) \in DdlCommands /\ SiuCmd(id).dest # "DIU"
  BY CommandTypes DEF SiuCmd, Command
<1>2. {"IFSTW"} \in SUBSET WordCodes /\ Transmitted \in SUBSET WordCodes /\ "interface" \in ReadUses
  BY DEF WordCodes, ReadUses
<1>3. /\ put \in DdlSteps /\ read \in DdlSteps /\ end \in DdlSteps
      /\ StatusQuery(id, use) = Send(SiuCmd(id)) \o <<WaitStep>> \o <<read>> \o <<end>>
  BY <1>1, <1>2, BasicSteps, StepTypes DEF StatusQuery, SiuCmd
<1>4. Send(SiuCmd(id)) = <<UpStep, FreeStep, put>>
  BY <1>1, SendSteps
<1>3a. put \in DdlSteps /\ read \in DdlSteps /\ end \in DdlSteps
  BY <1>3
<1> HIDE DEF put, read, end
<1>5. <<UpStep, FreeStep, put>> \o <<WaitStep>> = <<UpStep, FreeStep, put, WaitStep>>
  BY <1>0, <1>3a, Row4
<1>6. <<UpStep, FreeStep, put, WaitStep>> \o <<read>> = <<UpStep, FreeStep, put, WaitStep, read>>
  BY <1>0, <1>3a, Row5
<1>7. <<UpStep, FreeStep, put, WaitStep, read>> \o <<end>>
        = <<UpStep, FreeStep, put, WaitStep, read, end>>
  BY <1>0, <1>3a, Row6
<1> QED BY <1>3, <1>4, <1>5, <1>6, <1>7 DEF put, read, end

LEMMA DiuQuerySteps ==
  ASSUME NEW id \in Nat
  PROVE  /\ DiuQuery(id) =
              <<FreeStep, PutStep(DiuCmd(id)), WaitStep, ReadStep({"IFSTW"}, DiuCmd(id), "diu"),
                WaitStep, ReadStep(Transmitted, DiuCmd(id), "done")>>
         /\ {ReadStep({"IFSTW"}, DiuCmd(id), "diu"), ReadStep(Transmitted, DiuCmd(id), "done")}
              \subseteq DdlSteps
<1> DEFINE put == PutStep(DiuCmd(id))
           read == ReadStep({"IFSTW"}, DiuCmd(id), "diu")
           end == ReadStep(Transmitted, DiuCmd(id), "done")
<1>0. UpStep \in DdlSteps /\ FreeStep \in DdlSteps /\ WaitStep \in DdlSteps
  BY BasicSteps
<1>1. DiuCmd(id) \in DdlCommands /\ DiuCmd(id).dest = "DIU"
  BY CommandTypes DEF DiuCmd, Command
<1>2. {"IFSTW"} \in SUBSET WordCodes /\ Transmitted \in SUBSET WordCodes
      /\ "diu" \in ReadUses /\ "done" \in ReadUses
  BY DEF WordCodes, ReadUses
<1>3. /\ put \in DdlSteps /\ read \in DdlSteps /\ end \in DdlSteps
      /\ DiuQuery(id) = Send(DiuCmd(id)) \o <<WaitStep>> \o <<read>> \o <<WaitStep>> \o <<end>>
  BY <1>1, <1>2, BasicSteps, StepTypes DEF DiuQuery, DiuCmd
<1>4. Send(DiuCmd(id)) = <<FreeStep, put>>
  BY <1>1, SendSteps
<1>3a. put \in DdlSteps /\ read \in DdlSteps /\ end \in DdlSteps
  BY <1>3
<1> HIDE DEF put, read, end
<1>5. <<FreeStep, put>> \o <<WaitStep>> = <<FreeStep, put, WaitStep>>
  BY <1>0, <1>3a, Row3
<1>6. <<FreeStep, put, WaitStep>> \o <<read>> = <<FreeStep, put, WaitStep, read>>
  BY <1>0, <1>3a, Row4
<1>7. <<FreeStep, put, WaitStep, read>> \o <<WaitStep>> = <<FreeStep, put, WaitStep, read, WaitStep>>
  BY <1>0, <1>3a, Row5
<1>8. <<FreeStep, put, WaitStep, read, WaitStep>> \o <<end>>
        = <<FreeStep, put, WaitStep, read, WaitStep, end>>
  BY <1>0, <1>3a, Row6
<1> QED BY <1>3, <1>4, <1>5, <1>6, <1>7, <1>8 DEF put, read, end

LEMMA JoinedSteps ==
  ASSUME NEW s \in Seq(DdlSteps), NEW t \in Seq(DdlSteps)
  PROVE  /\ s \o t \in Seq(DdlSteps)
         /\ Len(s \o t) = Len(s) + Len(t)
         /\ \A i \in 1 .. Len(s) : (s \o t)[i] = s[i]
         /\ \A i \in 1 .. Len(t) : (s \o t)[Len(s) + i] = t[i]
BY ConcatProperties, LenProperties

(* Every script is one of steps.                                           *)
LEMMA BasicScripts ==
  /\ LinkUp \in Seq(DdlSteps) /\ Wait \in Seq(DdlSteps) /\ NextId \in Seq(DdlSteps)
  /\ Reset \in Seq(DdlSteps) /\ EndTry \in Seq(DdlSteps) /\ EndRetry \in Seq(DdlSteps)
  /\ Step("free", NoCommand) \in Seq(DdlSteps) /\ Step("fail", NoCommand) \in Seq(DdlSteps)
  /\ \A cmd \in DdlCommands : Step("put", cmd) \in Seq(DdlSteps)
  /\ \A use \in ReadUses : ReadAny(use) \in Seq(DdlSteps)
<1>1. {"linkUp", "wait", "nextId", "free", "put", "reset", "endTry", "endRetry", "fail"} \subseteq StepOps
      /\ {} \in SUBSET WordCodes
  BY DEF StepOps
<1> QED BY <1>1, StepTypes DEF LinkUp, Wait, NextId, Reset, EndTry, EndRetry, ReadAny

LEMMA SendScripts ==
  ASSUME NEW cmd \in DdlCommands
  PROVE  /\ SendDdlCommand(cmd) \in Seq(DdlSteps) /\ Send(cmd) \in Seq(DdlSteps)
         /\ \A use \in ReadUses : Ask(cmd, use) \in Seq(DdlSteps)
<1>1. "ignored" \in ReadUses /\ <<>> \in Seq(DdlSteps)
  BY DEF ReadUses
<1>2. SendDdlCommand(cmd) \in Seq(DdlSteps)
  BY <1>1, BasicScripts, JoinedSteps DEF SendDdlCommand
<1>3. Send(cmd) \in Seq(DdlSteps)
  <2> DEFINE upFirst == IF cmd.dest = "DIU" THEN <<>> ELSE LinkUp
  <2>1. upFirst \in Seq(DdlSteps)
    BY <1>1, BasicScripts
  <2> HIDE DEF upFirst
  <2>2. upFirst \o Step("free", NoCommand) \in Seq(DdlSteps)
    BY <2>1, BasicScripts, JoinedSteps
  <2>3. upFirst \o Step("free", NoCommand) \o Step("put", cmd) \in Seq(DdlSteps)
    BY <2>2, BasicScripts, JoinedSteps
  <2> QED BY <2>3 DEF Send, upFirst
<1>4. ASSUME NEW use \in ReadUses PROVE Ask(cmd, use) \in Seq(DdlSteps)
  BY <1>3, BasicScripts, JoinedSteps DEF Ask
<1> QED BY <1>2, <1>3, <1>4

LEMMA ReadoutScripts ==
  /\ StopScript \in Seq(DdlSteps) /\ ResetDevice(TRUE) \in Seq(DdlSteps)
  /\ \A source \in {"FEE", "DIU", "SIU"} : StartScript(source) \in Seq(DdlSteps)
<1>1. /\ Cmd("FEE", "EOBTR") \in DdlCommands /\ Cmd("FEE", "RDYRX") \in DdlCommands
      /\ Cmd("DIU", "SRST") \in DdlCommands /\ Cmd("DIU", "IFLOOP") \in DdlCommands
      /\ Cmd("SIU", "IFLOOP") \in DdlCommands
  BY CommandTypes DEF RdyCmd, LoopCmd
<1>2. StopScript \in Seq(DdlSteps)
  BY <1>1, SendScripts, BasicScripts, JoinedSteps DEF StopScript
<1>3. ResetDevice(FALSE) \in Seq(DdlSteps)
  BY BasicScripts, JoinedSteps DEF ResetDevice
<1>4. ResetDevice(TRUE) \in Seq(DdlSteps)
  <2>1. SiuReset \in Seq(DdlSteps)
    BY <1>1, SendScripts DEF SiuReset
  <2>2. Reset \o SiuReset \in Seq(DdlSteps)
    BY <2>1, BasicScripts, JoinedSteps
  <2>3. Reset \o SiuReset \o LinkUp \in Seq(DdlSteps)
    BY <2>2, BasicScripts, JoinedSteps
  <2>4. Reset \o SiuReset \o LinkUp \o SiuReset \in Seq(DdlSteps)
    BY <2>1, <2>3, JoinedSteps
  <2>5. Reset \o SiuReset \o LinkUp \o SiuReset \o Reset \in Seq(DdlSteps)
    BY <2>4, BasicScripts, JoinedSteps
  <2>6. Reset \o SiuReset \o LinkUp \o SiuReset \o Reset \o LinkUp \in Seq(DdlSteps)
    BY <2>5, BasicScripts, JoinedSteps
  <2> QED BY <2>6 DEF ResetDevice
<1>5. LinkUp \o SendDdlCommand(Cmd("FEE", "RDYRX")) \in Seq(DdlSteps)
  BY <1>1, SendScripts, BasicScripts, JoinedSteps
<1>6. StartScript("FEE") \in Seq(DdlSteps)
  BY <1>3, <1>5, JoinedSteps DEF StartScript
<1>7. StartScript("DIU") \in Seq(DdlSteps)
  BY <1>1, <1>3, SendScripts, JoinedSteps DEF StartScript
<1>8. StartScript("SIU") \in Seq(DdlSteps)
  BY <1>1, <1>3, SendScripts, JoinedSteps DEF StartScript
<1> QED BY <1>2, <1>4, <1>6, <1>7, <1>8

(* A sequence of one step more.                                            *)
LEMMA Longer ==
  ASSUME NEW s \in Seq(DdlSteps), NEW e \in DdlSteps
  PROVE  /\ s \o <<e>> \in Seq(DdlSteps)
         /\ Len(s \o <<e>>) = Len(s) + 1
         /\ \A i \in 1 .. Len(s) : (s \o <<e>>)[i] = s[i]
         /\ (s \o <<e>>)[Len(s) + 1] = e
<1>1. <<e>> \in Seq(DdlSteps) /\ Len(<<e>>) = 1 /\ <<e>>[1] = e
  OBVIOUS
<1> QED BY <1>1, JoinedSteps

LEMMA FailTypes ==
  /\ FailStep \in DdlSteps /\ Step("fail", NoCommand) = <<FailStep>>
  /\ RetryStep \in DdlSteps /\ EndRetry = <<RetryStep>>
  /\ ClearStep \in DdlSteps /\ Reset = <<ClearStep>>
<1>1. {"fail", "endRetry", "reset"} \subseteq StepOps
  BY DEF StepOps
<1> QED BY <1>1, StepTypes DEF FailStep, RetryStep, ClearStep, EndRetry, Reset

(* The scripts whose steps the invariant follows.                          *)
LEMMA LoopSteps ==
  /\ LoopScript = <<UpStep, FreeStep, PutStep(LoopCmd), WaitStep, AnyStep("loop")>>
  /\ Ask(LoopCmd, "ignored") = <<UpStep, FreeStep, PutStep(LoopCmd), WaitStep, AnyStep("ignored")>>
  /\ ResetSiuScript = <<FreeStep, PutStep(Cmd("DIU", "SRST")), WaitStep, AnyStep("attempts")>>
<1>1. {"loop", "ignored", "attempts"} \subseteq ReadUses
  BY DEF ReadUses
<1>2. LoopCmd \in DdlCommands /\ LoopCmd.dest # "DIU"
  BY CommandTypes DEF LoopCmd, Cmd, Command
<1>3. Cmd("DIU", "SRST") \in DdlCommands /\ Cmd("DIU", "SRST").dest = "DIU"
  BY CommandTypes DEF Cmd, Command
<1>4. Ask(LoopCmd, "loop") = <<UpStep, FreeStep, PutStep(LoopCmd), WaitStep, AnyStep("loop")>>
  BY <1>1, <1>2, AskSteps
<1>5. Ask(LoopCmd, "ignored") = <<UpStep, FreeStep, PutStep(LoopCmd), WaitStep, AnyStep("ignored")>>
  BY <1>1, <1>2, AskSteps
<1>6. Ask(Cmd("DIU", "SRST"), "attempts")
        = <<FreeStep, PutStep(Cmd("DIU", "SRST")), WaitStep, AnyStep("attempts")>>
  BY <1>1, <1>3, AskSteps
<1> QED BY <1>4, <1>5, <1>6 DEF LoopScript, ResetSiuScript, LoopCmd

LEMMA TestModeSteps ==
  TestMode = <<UpStep, FreeStep, PutStep(Cmd("SIU", "TSTMODE")), WaitStep, FailStep>>
<1> DEFINE cmd == Cmd("SIU", "TSTMODE")
           put == PutStep(cmd)
<1>1. cmd \in DdlCommands /\ cmd.dest # "DIU"
  BY CommandTypes DEF Cmd, Command
<1>2. put \in DdlSteps /\ UpStep \in DdlSteps /\ FreeStep \in DdlSteps /\ WaitStep \in DdlSteps
      /\ Wait = <<WaitStep>>
  BY <1>1, BasicSteps
<1>3. Send(cmd) = <<UpStep, FreeStep, put>>
  BY <1>1, SendSteps
<1>4. TestMode = Send(cmd) \o <<WaitStep>> \o <<FailStep>>
  BY <1>2, FailTypes DEF TestMode
<1> HIDE DEF put, cmd
<1>5. <<UpStep, FreeStep, put>> \o <<WaitStep>> = <<UpStep, FreeStep, put, WaitStep>>
  BY <1>2, Row4
<1>6. <<UpStep, FreeStep, put, WaitStep>> \o <<FailStep>> = <<UpStep, FreeStep, put, WaitStep, FailStep>>
  BY <1>2, FailTypes, Row5
<1> QED BY <1>3, <1>4, <1>5, <1>6 DEF put, cmd

LEMMA StartSteps ==
  LET s == StartScript("FEE")
  IN /\ s \in Seq(DdlSteps) /\ Len(s) = 6
     /\ s[1] = ClearStep /\ s[2] = ClearStep /\ s[3] = UpStep
     /\ s[4] = PutStep(RdyCmd) /\ s[5] = WaitStep /\ s[6] = AnyStep("ignored")
<1> DEFINE put == PutStep(RdyCmd)
           read == AnyStep("ignored")
           a == <<ClearStep, ClearStep>>
           b == <<UpStep>> \o (<<put>> \o <<WaitStep>> \o <<read>>)
           c == <<UpStep>>
           d == <<put, WaitStep, read>>
<1>1. "ignored" \in ReadUses /\ RdyCmd \in DdlCommands
  BY CommandTypes DEF ReadUses
<1>2. put \in DdlSteps /\ read \in DdlSteps /\ UpStep \in DdlSteps /\ WaitStep \in DdlSteps
  BY <1>1, BasicSteps
<1>3. SendDdlCommand(RdyCmd) = <<put>> \o <<WaitStep>> \o <<read>>
  BY <1>1, BasicSteps DEF SendDdlCommand
<1>4. StartScript("FEE") = (<<ClearStep>> \o <<ClearStep>>) \o b
  BY <1>3, FailTypes, BasicSteps DEF StartScript, ResetDevice, RdyCmd
<1> HIDE DEF put, read
<1>5. <<put>> \o <<WaitStep>> = <<put, WaitStep>> /\ <<put, WaitStep>> \o <<read>> = <<put, WaitStep, read>>
  BY <1>2, Row2, Row3
<1>6. <<ClearStep>> \o <<ClearStep>> = a
  BY FailTypes, Row2
<1>7. /\ a \in Seq(DdlSteps) /\ Len(a) = 2 /\ a[1] = ClearStep /\ a[2] = ClearStep
      /\ c \in Seq(DdlSteps) /\ Len(c) = 1 /\ c[1] = UpStep
      /\ d \in Seq(DdlSteps) /\ Len(d) = 3 /\ d[1] = put /\ d[2] = WaitStep /\ d[3] = read
  BY <1>2, FailTypes
<1>8. b = c \o d
  BY <1>5
<1> HIDE DEF a, b, c, d
<1>9. /\ b \in Seq(DdlSteps) /\ Len(b) = 4 /\ b[1] = UpStep
      /\ b[2] = put /\ b[3] = WaitStep /\ b[4] = read
  <2>1. c \in Seq(DdlSteps) /\ d \in Seq(DdlSteps)
    BY <1>7
  <2>2. /\ c \o d \in Seq(DdlSteps) /\ Len(c \o d) = Len(c) + Len(d)
        /\ \A i \in 1 .. Len(c) : (c \o d)[i] = c[i]
        /\ \A i \in 1 .. Len(d) : (c \o d)[Len(c) + i] = d[i]
    BY <2>1, JoinedSteps
  <2>3. b \in Seq(DdlSteps) /\ Len(b) = 4 /\ b[1] = c[1] /\ b[1 + 1] = d[1] /\ b[1 + 2] = d[2]
        /\ b[1 + 3] = d[3]
    BY <1>7, <1>8, <2>2
  <2> QED BY <1>7, <2>3
<1>10. /\ a \o b \in Seq(DdlSteps) /\ Len(a \o b) = 6
       /\ \A i \in 1 .. 2 : (a \o b)[i] = a[i]
       /\ \A i \in 1 .. 4 : (a \o b)[2 + i] = b[i]
  <2>1. a \in Seq(DdlSteps) /\ b \in Seq(DdlSteps)
    BY <1>7, <1>9
  <2>2. /\ a \o b \in Seq(DdlSteps) /\ Len(a \o b) = Len(a) + Len(b)
        /\ \A i \in 1 .. Len(a) : (a \o b)[i] = a[i]
        /\ \A i \in 1 .. Len(b) : (a \o b)[Len(a) + i] = b[i]
    BY <2>1, JoinedSteps
  <2> QED BY <1>7, <1>9, <2>2
<1>11. StartScript("FEE") = a \o b
  BY <1>4, <1>6
<1>12. /\ (a \o b)[1] = ClearStep /\ (a \o b)[2] = ClearStep /\ (a \o b)[3] = UpStep
       /\ (a \o b)[4] = put /\ (a \o b)[5] = WaitStep /\ (a \o b)[6] = read
  BY <1>7, <1>9, <1>10
<1> QED BY <1>10, <1>11, <1>12 DEF put, read

(* An attempt of ddlResetSiu(), and the attempts.                          *)
DiuEnd == ReadStep(Transmitted, DiuCmd(16), "done")
DiuRead == ReadStep({"IFSTW"}, DiuCmd(16), "diu")
SiuRead == ReadStep({"IFSTW"}, SiuCmd(16), "interface")
SiuEnd == ReadStep(Transmitted, SiuCmd(16), "done")

LEMMA AttemptSteps ==
  /\ Attempt \in Seq(DdlSteps) /\ Len(Attempt) = 15
  /\ Attempt[1] = IdStep /\ Attempt[2] = FreeStep /\ Attempt[3] = PutStep(DiuCmd(16))
  /\ Attempt[4] = WaitStep /\ Attempt[5] = DiuRead /\ Attempt[6] = WaitStep /\ Attempt[7] = DiuEnd
  /\ Attempt[8] = IdStep /\ Attempt[9] = UpStep /\ Attempt[10] = FreeStep
  /\ Attempt[11] = PutStep(SiuCmd(16)) /\ Attempt[12] = WaitStep /\ Attempt[13] = SiuRead
  /\ Attempt[14] = SiuEnd /\ Attempt[15] = RetryStep
<1> DEFINE dput == PutStep(DiuCmd(16))
           sput == PutStep(SiuCmd(16))
           d == <<FreeStep, dput, WaitStep, DiuRead, WaitStep, DiuEnd>>
           s == <<UpStep, FreeStep, sput, WaitStep, SiuRead, SiuEnd>>
           a1 == <<IdStep>>
           a2 == a1 \o d
           a3 == a2 \o <<IdStep>>
           a4 == a3 \o s
           a5 == a4 \o <<RetryStep>>
<1>1. "done" \in ReadUses /\ DiuCmd(16) \in DdlCommands /\ SiuCmd(16) \in DdlCommands
  BY CommandTypes DEF ReadUses
<1>2. DiuQuery(16) = d /\ DiuRead \in DdlSteps /\ DiuEnd \in DdlSteps
  BY DiuQuerySteps DEF DiuRead, DiuEnd
<1>3. StatusQuery(16, "done") = s /\ SiuRead \in DdlSteps /\ SiuEnd \in DdlSteps
  BY <1>1, StatusQuerySteps DEF SiuRead, SiuEnd
<1>4. /\ dput \in DdlSteps /\ sput \in DdlSteps
      /\ IdStep \in DdlSteps /\ UpStep \in DdlSteps /\ FreeStep \in DdlSteps /\ WaitStep \in DdlSteps
      /\ RetryStep \in DdlSteps
  BY <1>1, BasicSteps, FailTypes
<1>5. Attempt = a5
  BY <1>2, <1>3, BasicSteps, FailTypes DEF Attempt, CurrentId
<1> HIDE DEF dput, sput
<1>6. /\ d \in Seq(DdlSteps) /\ Len(d) = 6 /\ d[1] = FreeStep /\ d[2] = dput
      /\ d[3] = WaitStep /\ d[4] = DiuRead /\ d[5] = WaitStep /\ d[6] = DiuEnd
  BY <1>2, <1>4
<1>7. /\ s \in Seq(DdlSteps) /\ Len(s) = 6 /\ s[1] = UpStep /\ s[2] = FreeStep
      /\ s[3] = sput /\ s[4] = WaitStep /\ s[5] = SiuRead /\ s[6] = SiuEnd
  BY <1>3, <1>4
<1>8. a1 \in Seq(DdlSteps) /\ Len(a1) = 1 /\ a1[1] = IdStep
  BY <1>4
<1> HIDE DEF d, s, a1
<1>9. /\ a2 \in Seq(DdlSteps) /\ Len(a2) = 7 /\ a2[1] = IdStep /\ a2[2] = d[1] /\ a2[3] = d[2]
      /\ a2[4] = d[3] /\ a2[5] = d[4] /\ a2[6] = d[5] /\ a2[7] = d[6]
  <2>1. a1 \in Seq(DdlSteps) /\ d \in Seq(DdlSteps)
    BY <1>6, <1>8
  <2>2. /\ a1 \o d \in Seq(DdlSteps) /\ Len(a1 \o d) = Len(a1) + Len(d)
        /\ \A i \in 1 .. Len(a1) : (a1 \o d)[i] = a1[i]
        /\ \A i \in 1 .. Len(d) : (a1 \o d)[Len(a1) + i] = d[i]
    BY <2>1, JoinedSteps
  <2>3. /\ a2[1] = a1[1] /\ a2[1 + 1] = d[1] /\ a2[1 + 2] = d[2] /\ a2[1 + 3] = d[3]
        /\ a2[1 + 4] = d[4] /\ a2[1 + 5] = d[5] /\ a2[1 + 6] = d[6]
    BY <1>6, <1>8, <2>2
  <2> QED BY <1>6, <1>8, <2>2, <2>3
<1> HIDE DEF a2
<1>10. /\ a3 \in Seq(DdlSteps) /\ Len(a3) = 8 /\ a3[8] = IdStep
       /\ \A i \in 1 .. 7 : a3[i] = a2[i]
  <2>1. a2 \in Seq(DdlSteps) /\ IdStep \in DdlSteps
    BY <1>4, <1>9
  <2>2. /\ a2 \o <<IdStep>> \in Seq(DdlSteps) /\ Len(a2 \o <<IdStep>>) = Len(a2) + 1
        /\ \A i \in 1 .. Len(a2) : (a2 \o <<IdStep>>)[i] = a2[i]
        /\ (a2 \o <<IdStep>>)[Len(a2) + 1] = IdStep
    BY <2>1, Longer
  <2> QED BY <1>9, <2>2
<1> HIDE DEF a3
<1>11. /\ a4 \in Seq(DdlSteps) /\ Len(a4) = 14
       /\ \A i \in 1 .. 8 : a4[i] = a3[i]
       /\ \A i \in 1 .. 6 : a4[8 + i] = s[i]
  <2>1. a3 \in Seq(DdlSteps) /\ s \in Seq(DdlSteps)
    BY <1>7, <1>10
  <2>2. /\ a3 \o s \in Seq(DdlSteps) /\ Len(a3 \o s) = Len(a3) + Len(s)
        /\ \A i \in 1 .. Len(a3) : (a3 \o s)[i] = a3[i]
        /\ \A i \in 1 .. Len(s) : (a3 \o s)[Len(a3) + i] = s[i]
    BY <2>1, JoinedSteps
  <2>3. Len(a3) = 8 /\ Len(s) = 6
    BY <1>7, <1>10
  <2> HIDE DEF a4
  <2>4. a4 = a3 \o s
    BY DEF a4
  <2>5. /\ a4 \in Seq(DdlSteps) /\ Len(a4) = 8 + 6
        /\ \A i \in 1 .. 8 : a4[i] = a3[i]
        /\ \A i \in 1 .. 6 : a4[8 + i] = s[i]
    BY <2>2, <2>3, <2>4
  <2> QED BY <2>5
<1> HIDE DEF a4
<1>12. /\ a5 \in Seq(DdlSteps) /\ Len(a5) = 15 /\ a5[15] = RetryStep
       /\ \A i \in 1 .. 14 : a5[i] = a4[i]
  <2>1. a4 \in Seq(DdlSteps) /\ RetryStep \in DdlSteps
    BY <1>4, <1>11
  <2>2. /\ a4 \o <<RetryStep>> \in Seq(DdlSteps) /\ Len(a4 \o <<RetryStep>>) = Len(a4) + 1
        /\ \A i \in 1 .. Len(a4) : (a4 \o <<RetryStep>>)[i] = a4[i]
        /\ (a4 \o <<RetryStep>>)[Len(a4) + 1] = RetryStep
    BY <2>1, Longer
  <2> QED BY <1>11, <2>2
<1> HIDE DEF a5
<1>13. /\ a5[1] = IdStep /\ a5[2] = FreeStep /\ a5[3] = dput /\ a5[4] = WaitStep /\ a5[5] = DiuRead
       /\ a5[6] = WaitStep /\ a5[7] = DiuEnd /\ a5[8] = IdStep
  BY <1>6, <1>9, <1>10, <1>11, <1>12
<1>14. /\ a5[9] = UpStep /\ a5[10] = FreeStep /\ a5[11] = sput /\ a5[12] = WaitStep
       /\ a5[13] = SiuRead /\ a5[14] = SiuEnd
  <2>1. /\ a4[8 + 1] = s[1] /\ a4[8 + 2] = s[2] /\ a4[8 + 3] = s[3] /\ a4[8 + 4] = s[4]
        /\ a4[8 + 5] = s[5] /\ a4[8 + 6] = s[6]
    BY <1>11
  <2> QED BY <1>7, <1>12, <2>1
<1> QED BY <1>5, <1>12, <1>13, <1>14 DEF dput, sput

LEMMA AttemptsSteps ==
  /\ ResetAttempts \in Seq(DdlSteps) /\ Len(ResetAttempts) = 15 * Cycles + 1
  /\ \A a \in 0 .. Cycles - 1, q \in 1 .. 15 : ResetAttempts[15 * a + q] = Attempt[q]
  /\ ResetAttempts[15 * Cycles + 1] = FailStep
<1> DEFINE n == 15 * Cycles
           all == [i \in 1 .. n |-> Attempt[1 + ((i - 1) % 15)]]
<1>1. Cycles \in 1 .. 7 /\ n \in Nat
  BY DdlAssumption
<1>2. Attempt \in Seq(DdlSteps) /\ Len(Attempt) = 15 /\ \A q \in 1 .. 15 : Attempt[q] \in DdlSteps
  <2>1. Attempt \in Seq(DdlSteps) /\ Len(Attempt) = 15
    BY AttemptSteps
  <2> QED BY <2>1, ElementOfSeq
<1>3. ResetAttempts = all \o <<FailStep>>
  <2>1. Cycles * Len(Attempt) = n
    BY <1>1, <1>2
  <2> QED BY <1>2, <2>1, FailTypes DEF ResetAttempts
<1>4. \A i \in 1 .. n : 1 + ((i - 1) % 15) \in 1 .. 15
  BY <1>1
<1>5. all \in Seq(DdlSteps) /\ Len(all) = n
  <2>1. \A i \in 1 .. n : all[i] \in DdlSteps
    BY <1>2, <1>4
  <2>2. all \in [1 .. n -> DdlSteps]
    BY <2>1
  <2> HIDE DEF all, n
  <2> QED BY <1>1, <2>2
<1>6. ASSUME NEW a \in 0 .. Cycles - 1, NEW q \in 1 .. 15
      PROVE  15 * a + q \in 1 .. n /\ all[15 * a + q] = Attempt[q]
  <2>1. 15 * a + q \in 1 .. n
    BY <1>1
  <2>2. (15 * a + q - 1) % 15 = q - 1
    BY <1>1
  <2> QED BY <2>1, <2>2
<1> HIDE DEF all
<1>7. /\ all \o <<FailStep>> \in Seq(DdlSteps) /\ Len(all \o <<FailStep>>) = n + 1
      /\ \A i \in 1 .. n : (all \o <<FailStep>>)[i] = all[i]
      /\ (all \o <<FailStep>>)[n + 1] = FailStep
  BY <1>5, FailTypes, Longer
<1> QED BY <1>3, <1>6, <1>7

-----------------------------------------------------------------------------
(* Where a process is in its script, before and after a step.              *)
Plain(rows) == \A i \in 1 .. Len(rows) : rows[i].op \notin {"endTry", "endRetry"}
Reached(u, rows, k) == IF k > Len(rows) THEN script[u] = <<>> ELSE IsAt(u, rows, k)
OthersStay(u) == \A v \in User : v # u => script'[v] = script[v] /\ call'[v] = call[v]
Moves(u, rows, k) == Reached(u, rows, k)' /\ call' = call /\ OthersStay(u)
Leaves(u) == script'[u] = <<>> /\ call'[u] = "none" /\ OthersStay(u)
NothingElse == UNCHANGED <<cardVars, command, answering, status, info, trigger, undisturbed>>

LEMMA AtHead ==
  ASSUME NEW u \in User, NEW rows \in Seq(DdlSteps), NEW k, IsAt(u, rows, k)
  PROVE  /\ k \in 1 .. Len(rows) /\ script[u] # <<>>
         /\ Head(script[u]) = rows[k] /\ Len(script[u]) = Len(rows) - k + 1
         /\ Tail(script[u]) = SubSeq(rows, k + 1, Len(rows))
         /\ \A i \in 1 .. Len(script[u]) : script[u][i] = rows[k + i - 1]
<1>1. k \in 1 .. Len(rows) /\ Len(rows) \in Nat /\ script[u] = SubSeq(rows, k, Len(rows))
  BY LenProperties DEF IsAt
<1>2. \A i \in k .. Len(rows) : rows[i] \in DdlSteps
  BY <1>1, ElementOfSeq
<1>3. /\ Len(script[u]) = Len(rows) - k + 1
      /\ \A i \in 1 .. Len(rows) - k + 1 : script[u][i] = rows[k + i - 1]
  BY <1>1, <1>2, SubSeqProperties
<1>4. Head(script[u]) = rows[k] /\ Tail(script[u]) = SubSeq(rows, k + 1, Len(rows))
  BY <1>1, HeadTailOfSubSeq
<1>5. script[u] # <<>>
  BY <1>1, <1>3
<1> QED BY <1>1, <1>3, <1>4, <1>5

LEMMA MovesOn ==
  ASSUME NEW u \in User, NEW rows \in Seq(DdlSteps), NEW k, IsAt(u, rows, k), DdlTypes,
         k < Len(rows) => rows[k + 1].op \notin {"endTry", "endRetry"},
         Continue(u, Tail(script[u]))
  PROVE  Moves(u, rows, k + 1)
<1> DEFINE rest == Tail(script[u])
<1>1. /\ k \in 1 .. Len(rows) /\ Len(rows) \in Nat
      /\ rest = SubSeq(rows, k + 1, Len(rows))
  BY AtHead, LenProperties
<1>2. /\ script' = [script EXCEPT ![u] = IF rest = <<>> THEN <<>>
                                         ELSE CASE Head(rest).op = "endTry"   -> Tail(rest)
                                                [] Head(rest).op = "endRetry" -> <<>>
                                                [] OTHER                      -> rest]
      /\ call' = call
  BY DEF Continue
<1>3. script \in [User -> Seq(DdlSteps)]
  BY DEF DdlTypes, ScriptTypes, WordTypes
<1> HIDE DEF rest
<1>4. OthersStay(u)
  BY <1>2, <1>3 DEF OthersStay
<1>5. CASE k = Len(rows)
  <2>1. rest = <<>>
    BY <1>1, <1>5, SubSeqEmpty
  <2> QED BY <1>1, <1>2, <1>3, <1>4, <1>5, <2>1 DEF Moves, Reached
<1>6. CASE k < Len(rows)
  <2>1. Head(rest) = rows[k + 1]
    BY <1>1, <1>6, HeadTailOfSubSeq
  <2>2. rest # <<>>
    <3>1. \A i \in k + 1 .. Len(rows) : rows[i] \in DdlSteps
      BY <1>1, ElementOfSeq
    <3>2. Len(rest) = Len(rows) - (k + 1) + 1
      BY <1>1, <1>6, <3>1, SubSeqProperties
    <3>3. Len(rest) # 0
      BY <1>1, <1>6, <3>2
    <3> QED BY <3>3
  <2>3. script'[u] = rest
    BY <1>2, <1>3, <1>6, <2>1, <2>2
  <2>4. k + 1 \in 1 .. Len(rows) /\ ~(k + 1 > Len(rows))
    BY <1>1, <1>6
  <2>5. script'[u] = SubSeq(rows, k + 1, Len(rows))
    BY <1>1, <2>3
  <2>6. Reached(u, rows, k + 1)'
    BY <2>4, <2>5 DEF Reached, IsAt
  <2> QED BY <1>2, <1>4, <2>6 DEF Moves
<1> QED BY <1>1, <1>5, <1>6

LEMMA Starts ==
  ASSUME NEW u \in User, NEW rows \in Seq(DdlSteps), DdlTypes, Len(rows) > 0,
         rows[1].op \notin {"endTry", "endRetry"}, Continue(u, rows)
  PROVE  Moves(u, rows, 1)
<1>1. Len(rows) \in Nat /\ rows # <<>> /\ SubSeq(rows, 1, Len(rows)) = rows
  BY LenProperties, SubSeqFull
<1>2. Head(rows) = rows[1]
  BY <1>1
<1>3. script' = [script EXCEPT ![u] = rows] /\ call' = call
  BY <1>1, <1>2 DEF Continue
<1>4. script \in [User -> Seq(DdlSteps)]
  BY DEF DdlTypes, ScriptTypes, WordTypes
<1> QED BY <1>1, <1>3, <1>4 DEF Moves, OthersStay, Reached, IsAt

LEMMA ThrowLeaves ==
  ASSUME NEW u \in User, NEW rows \in Seq(DdlSteps), NEW k, IsAt(u, rows, k), DdlTypes,
         Plain(rows), Throw(u)
  PROVE  Leaves(u)
<1>1. /\ k \in 1 .. Len(rows) /\ Len(rows) \in Nat
      /\ Len(script[u]) = Len(rows) - k + 1
      /\ \A i \in 1 .. Len(script[u]) : script[u][i] = rows[k + i - 1]
  BY AtHead, LenProperties
<1>2. script[u] \in Seq(DdlSteps)
  BY DEF DdlTypes, ScriptTypes, WordTypes
<1>3. DOMAIN script[u] = 1 .. Len(script[u])
  BY <1>2, LenProperties
<1>4. Catches(u) = {}
  <2>1. ASSUME NEW i \in DOMAIN script[u] PROVE script[u][i].op \notin {"endTry", "endRetry"}
    BY <1>1, <1>3 DEF Plain
  <2> QED BY <2>1 DEF Catches
<1>5. script' = [script EXCEPT ![u] = <<>>] /\ call' = [call EXCEPT ![u] = "none"]
  BY <1>4 DEF Throw
<1>6. script \in [User -> Seq(DdlSteps)] /\ DOMAIN call = User
  BY DEF DdlTypes, ScriptTypes, WordTypes
<1> QED BY <1>5, <1>6 DEF Leaves, OthersStay

(* A step is the one its script says.                                      *)
LEMMA WhichStep ==
  ASSUME NEW u \in User, NEW rows \in Seq(DdlSteps), NEW k, IsAt(u, rows, k), DdlStep(u)
  PROVE  /\ rows[k].op = "reset" => ResetCard(u)
         /\ rows[k].op = "linkUp" => CheckLink(u)
         /\ rows[k].op = "free" => WaitFree(u)
         /\ rows[k].op = "put" => PutCommand(u)
         /\ rows[k].op = "wait" => WordThere(u) \/ TimesOut(u)
         /\ rows[k].op = "read" => ReadStatus(u)
         /\ rows[k].op = "fail" => Fail(u)
         /\ rows[k].op = "nextId" => TakeNextId(u)
         /\ rows[k].op \notin {"endTry", "endRetry"}
<1>1. script[u] # <<>> /\ Head(script[u]) = rows[k]
  BY AtHead
<1>2. \A op : Now(u, op) => op = rows[k].op
  BY <1>1 DEF Now
<1>3. /\ ResetCard(u) => Now(u, "reset")
      /\ CheckLink(u) => Now(u, "linkUp")
      /\ WaitFree(u) => Now(u, "free")
      /\ PutCommand(u) => Now(u, "put")
      /\ WordThere(u) \/ TimesOut(u) => Now(u, "wait")
      /\ ReadStatus(u) => Now(u, "read")
      /\ Fail(u) => Now(u, "fail")
      /\ TakeNextId(u) => Now(u, "nextId")
  BY DEF ResetCard, CheckLink, WaitFree, PutCommand, WordThere, TimesOut, ReadStatus, Fail, TakeNextId
<1> HIDE DEF Now
<1>4. \/ ResetCard(u) \/ CheckLink(u) \/ WaitFree(u) \/ PutCommand(u)
      \/ (WordThere(u) \/ TimesOut(u)) \/ ReadStatus(u) \/ Fail(u) \/ TakeNextId(u)
  BY DEF DdlStep
<1> QED BY <1>2, <1>3, <1>4

(* A step that only waits: it goes on, or throws.                          *)
LEMMA SilentStep ==
  ASSUME NEW u \in User, NEW rows \in Seq(DdlSteps), NEW k, IsAt(u, rows, k), DdlStep(u),
         rows[k].op \in {"linkUp", "free", "wait", "fail"}
  PROVE  /\ NothingElse
         /\ \/ Throw(u)
            \/ /\ Continue(u, Tail(script[u])) /\ rows[k].op # "fail"
               /\ rows[k].op = "free" => command = NoCommand
               /\ rows[k].op = "wait" => status # <<>>
<1>1. CASE rows[k].op = "linkUp"
  <2>1. CheckLink(u)
    BY <1>1, WhichStep
  <2> QED BY <1>1, <2>1 DEF CheckLink, NothingElse, dataVars
<1>2. CASE rows[k].op = "free"
  <2>1. WaitFree(u)
    BY <1>2, WhichStep
  <2> QED BY <1>2, <2>1 DEF WaitFree, NothingElse, dataVars
<1>3. CASE rows[k].op = "wait"
  <2>1. WordThere(u) \/ TimesOut(u)
    BY <1>3, WhichStep
  <2> QED BY <1>3, <2>1 DEF WordThere, TimesOut, NothingElse, dataVars
<1>4. CASE rows[k].op = "fail"
  <2>1. Fail(u)
    BY <1>4, WhichStep
  <2> QED BY <1>4, <2>1 DEF Fail, NothingElse, dataVars
<1> QED BY <1>1, <1>2, <1>3, <1>4

LEMMA PlainSilentStep ==
  ASSUME NEW u \in User, NEW rows \in Seq(DdlSteps), NEW k, IsAt(u, rows, k), DdlStep(u),
         DdlTypes, Plain(rows), rows[k].op \in {"linkUp", "free", "wait", "fail"}
  PROVE  /\ NothingElse
         /\ \/ Leaves(u)
            \/ /\ Moves(u, rows, k + 1) /\ rows[k].op # "fail"
               /\ rows[k].op = "free" => command = NoCommand
               /\ rows[k].op = "wait" => status # <<>>
<1>1. CASE Throw(u)
  BY <1>1, SilentStep, ThrowLeaves
<1>2. CASE Continue(u, Tail(script[u]))
  <2>1. k < Len(rows) => rows[k + 1].op \notin {"endTry", "endRetry"}
    <3>1. k \in 1 .. Len(rows) /\ Len(rows) \in Nat
      BY AtHead, LenProperties
    <3> QED BY <3>1 DEF Plain
  <2>2. Moves(u, rows, k + 1)
    BY <1>2, <2>1, MovesOn
  <2>3. NothingElse
    BY SilentStep
  <2>4. \/ Throw(u)
        \/ /\ rows[k].op # "fail"
           /\ rows[k].op = "free" => command = NoCommand
           /\ rows[k].op = "wait" => status # <<>>
    BY SilentStep
  <2>5. CASE Throw(u)
    BY <2>3, <2>5, ThrowLeaves
  <2> QED BY <2>2, <2>3, <2>4, <2>5
<1> QED BY <1>1, <1>2, SilentStep

LEMMA PutsCommand ==
  ASSUME NEW u \in User, NEW rows \in Seq(DdlSteps), NEW k, IsAt(u, rows, k), DdlStep(u),
         DdlTypes, rows[k].op = "put",
         k < Len(rows) => rows[k + 1].op \notin {"endTry", "endRetry"}
  PROVE  /\ Moves(u, rows, k + 1)
         /\ command' = [rows[k].cmd EXCEPT !.trid = TridOf(rows[k].cmd)]
         /\ UNCHANGED <<cardVars, info, trigger, undisturbed>>
         /\ u = "readout" => UNCHANGED <<status, answering>>
         /\ u = "tool" => /\ status' = [i \in DOMAIN status |-> [status[i] EXCEPT !.mine = FALSE]]
                          /\ answering' = [i \in DOMAIN answering |->
                                             [answering[i] EXCEPT !.mine = FALSE]]
<1>1. PutCommand(u)
  BY WhichStep
<1>2. Head(script[u]) = rows[k]
  BY AtHead
<1>3. Moves(u, rows, k + 1)
  BY <1>1, MovesOn DEF PutCommand
<1> QED BY <1>1, <1>2, <1>3 DEF PutCommand, dataVars

LEMMA ReadsWord ==
  ASSUME NEW u \in User, NEW rows \in Seq(DdlSteps), NEW k, IsAt(u, rows, k), DdlStep(u),
         rows[k].op = "read"
  PROVE  /\ status' = IF status = <<>> THEN <<>> ELSE Tail(status)
         /\ UNCHANGED <<cardVars, command, answering, undisturbed>>
         /\ \/ Throw(u) /\ UNCHANGED <<info, trigger>>
            \/ /\ Matches(TheWord, rows[k]) /\ Use(u, rows[k].use, TheWord)
               /\ trigger' = (trigger \/ (call[u] = "start" /\ k = Len(rows)))
<1>1. ReadStatus(u)
  BY WhichStep
<1>2. Head(script[u]) = rows[k] /\ (Len(script[u]) = 1 <=> k = Len(rows))
  <2>1. k \in 1 .. Len(rows) /\ Len(rows) \in Nat
    BY AtHead, LenProperties
  <2>2. Len(script[u]) = Len(rows) - k + 1 /\ Head(script[u]) = rows[k]
    BY AtHead
  <2> QED BY <2>1, <2>2
<1> QED BY <1>1, <1>2 DEF ReadStatus

(* The words on their way and those to be read are one sequence.           *)
LEMMA FlightEmpty ==
  ASSUME DdlTypes
  PROVE  Flight = <<>> <=> status = <<>> /\ answering = <<>>
<1>1. status \in Seq(StatusWords) /\ answering \in Seq(StatusWords)
  BY DEF DdlTypes, ScriptTypes, WordTypes
<1>2. Len(Flight) = Len(status) + Len(answering) /\ Flight \in Seq(StatusWords)
  BY <1>1, ConcatProperties DEF Flight
<1>3. Len(status) \in Nat /\ Len(answering) \in Nat
  BY <1>1, LenProperties
<1>4. /\ Flight = <<>> <=> Len(Flight) = 0
      /\ status = <<>> <=> Len(status) = 0
      /\ answering = <<>> <=> Len(answering) = 0
  BY <1>1, <1>2, EmptySeq
<1> QED BY <1>2, <1>3, <1>4

LEMMA FlightRead ==
  ASSUME NEW s \in Seq(StatusWords), NEW t \in Seq(StatusWords), s # <<>>
  PROVE  Head(s) = Head(s \o t) /\ Tail(s) \o t = Tail(s \o t) /\ s \o t # <<>>
<1>1. Len(s) \in Nat /\ Len(s) > 0 /\ Len(t) \in Nat
  BY LenProperties, EmptySeq
<1>2. /\ s \o t \in Seq(StatusWords) /\ Len(s \o t) = Len(s) + Len(t)
      /\ \A i \in 1 .. Len(s) + Len(t) : (s \o t)[i] = IF i <= Len(s) THEN s[i] ELSE t[i - Len(s)]
  BY ConcatProperties
<1>3. s \o t # <<>>
  BY <1>1, <1>2, EmptySeq
<1>4. /\ Tail(s) \in Seq(StatusWords) /\ Len(Tail(s)) = Len(s) - 1
      /\ \A i \in 1 .. Len(s) - 1 : Tail(s)[i] = s[i + 1]
  BY HeadTailProperties
<1>5. /\ Tail(s \o t) \in Seq(StatusWords) /\ Len(Tail(s \o t)) = Len(s) + Len(t) - 1
      /\ \A i \in 1 .. Len(s) + Len(t) - 1 : Tail(s \o t)[i] = (s \o t)[i + 1]
  BY <1>2, <1>3, HeadTailProperties
<1> DEFINE r == Tail(s) \o t
<1>6. /\ r \in Seq(StatusWords) /\ Len(r) = Len(Tail(s)) + Len(t)
      /\ \A i \in 1 .. Len(Tail(s)) + Len(t) :
           r[i] = IF i <= Len(Tail(s)) THEN Tail(s)[i] ELSE t[i - Len(Tail(s))]
  BY <1>4, ConcatProperties
<1> HIDE DEF r
<1>7. ASSUME NEW i \in 1 .. Len(r) PROVE r[i] = Tail(s \o t)[i]
  <2>1. i \in 1 .. Len(s) + Len(t) - 1
    BY <1>1, <1>4, <1>6
  <2>2. CASE i <= Len(s) - 1
    <3>1. r[i] = s[i + 1] /\ (s \o t)[i + 1] = s[i + 1]
      BY <1>1, <1>2, <1>4, <1>6, <2>1, <2>2
    <3> QED BY <1>5, <2>1, <3>1
  <2>3. CASE i > Len(s) - 1
    <3>1. r[i] = t[i - (Len(s) - 1)]
      BY <1>1, <1>4, <1>6, <2>1, <2>3
    <3>2. (s \o t)[i + 1] = t[i + 1 - Len(s)]
      BY <1>1, <1>2, <2>1, <2>3
    <3>3. i + 1 - Len(s) = i - (Len(s) - 1)
      BY <1>1, <2>1
    <3> QED BY <1>5, <2>1, <3>1, <3>2, <3>3
  <2>4. i <= Len(s) - 1 \/ i > Len(s) - 1
    BY <1>1, <2>1
  <2> QED BY <2>2, <2>3, <2>4
<1>8. r = Tail(s \o t)
  <2>1. Len(r) = Len(Tail(s \o t))
    BY <1>1, <1>4, <1>5, <1>6
  <2> QED BY <1>5, <1>6, <1>7, <2>1, SeqEqual
<1>9. Head(s) = Head(s \o t)
  <2>1. Head(s) = s[1] /\ Head(s \o t) = (s \o t)[1] /\ (s \o t)[1] = s[1]
    BY <1>1, <1>2
  <2> QED BY <2>1
<1> QED BY <1>3, <1>8, <1>9 DEF r

LEMMA FlightArrives ==
  ASSUME NEW s \in Seq(StatusWords), NEW t \in Seq(StatusWords), t # <<>>
  PROVE  Append(s, Head(t)) \o Tail(t) = s \o t
<1> DEFINE a == Append(s, Head(t))
           b == Tail(t)
<1>1. Len(s) \in Nat /\ Len(t) > 0 /\ Len(t) \in Nat /\ Head(t) \in StatusWords /\ Head(t) = t[1]
  BY LenProperties, EmptySeq, HeadTailProperties
<1>2. /\ a \in Seq(StatusWords) /\ Len(a) = Len(s) + 1
      /\ \A i \in 1 .. Len(s) : a[i] = s[i]
      /\ a[Len(s) + 1] = t[1]
  BY <1>1, AppendProperties
<1>3. /\ b \in Seq(StatusWords) /\ Len(b) = Len(t) - 1
      /\ \A i \in 1 .. Len(t) - 1 : b[i] = t[i + 1]
  BY HeadTailProperties
<1> HIDE DEF a, b
<1>4. /\ a \o b \in Seq(StatusWords) /\ Len(a \o b) = Len(a) + Len(b)
      /\ \A i \in 1 .. Len(a) + Len(b) : (a \o b)[i] = IF i <= Len(a) THEN a[i] ELSE b[i - Len(a)]
  BY <1>2, <1>3, ConcatProperties
<1>5. /\ s \o t \in Seq(StatusWords) /\ Len(s \o t) = Len(s) + Len(t)
      /\ \A i \in 1 .. Len(s) + Len(t) : (s \o t)[i] = IF i <= Len(s) THEN s[i] ELSE t[i - Len(s)]
  BY ConcatProperties
<1>6. Len(a \o b) = Len(s \o t)
  BY <1>1, <1>2, <1>3, <1>4, <1>5
<1>7. ASSUME NEW i \in 1 .. Len(a \o b) PROVE (a \o b)[i] = (s \o t)[i]
  <2>0. i \in 1 .. Len(s) + Len(t) /\ i \in 1 .. Len(a) + Len(b)
    BY <1>1, <1>2, <1>3, <1>4
  <2>1. CASE i <= Len(s)
    <3>1. (a \o b)[i] = a[i]
      BY <1>1, <1>2, <1>4, <2>0, <2>1
    <3>2. (s \o t)[i] = s[i]
      BY <1>5, <2>0, <2>1
    <3> QED BY <1>1, <1>2, <2>0, <2>1, <3>1, <3>2
  <2>2. CASE i = Len(s) + 1
    <3>1. (a \o b)[i] = a[Len(s) + 1]
      BY <1>1, <1>2, <1>4, <2>0, <2>2
    <3>2. (s \o t)[i] = t[1]
      <4>1. ~(i <= Len(s)) /\ i - Len(s) = 1
        BY <1>1, <2>2
      <4> QED BY <1>5, <2>0, <4>1
    <3> QED BY <1>2, <3>1, <3>2
  <2>3. CASE i > Len(s) + 1
    <3>1. (a \o b)[i] = b[i - (Len(s) + 1)]
      BY <1>1, <1>2, <1>4, <2>0, <2>3
    <3>2. i - (Len(s) + 1) \in 1 .. Len(t) - 1 /\ i - (Len(s) + 1) + 1 = i - Len(s)
      BY <1>1, <2>0, <2>3
    <3>3. b[i - (Len(s) + 1)] = t[i - Len(s)]
      BY <1>3, <3>2
    <3>4. (s \o t)[i] = t[i - Len(s)]
      BY <1>1, <1>5, <2>0, <2>3
    <3> QED BY <3>1, <3>3, <3>4
  <2>4. i <= Len(s) \/ i = Len(s) + 1 \/ i > Len(s) + 1
    BY <1>1, <2>0
  <2> QED BY <2>1, <2>2, <2>3, <2>4
<1>8. a \o b = s \o t
  BY <1>4, <1>5, <1>6, <1>7, SeqEqual
<1> QED BY <1>8 DEF a, b

LEMMA OneInFlight ==
  ASSUME DdlTypes, status # <<>>, NEW w, Flight = <<w>>
  PROVE  TheWord = w /\ Tail(status) \o answering = <<>>
<1>1. Head(status) = Head(<<w>>) /\ Tail(status) \o answering = Tail(<<w>>)
  BY FlightRead DEF DdlTypes, WordTypes, Flight
<1> QED BY <1>1 DEF TheWord

LEMMA TwoInFlight ==
  ASSUME DdlTypes, status # <<>>, NEW v, NEW w, Flight = <<v, w>>
  PROVE  TheWord = v /\ Tail(status) \o answering = <<w>>
<1>1. Head(status) = Head(<<v, w>>) /\ Tail(status) \o answering = Tail(<<v, w>>)
  BY FlightRead DEF DdlTypes, WordTypes, Flight
<1> QED BY <1>1 DEF TheWord

-----------------------------------------------------------------------------
(* The types are kept.                                                     *)
LEMMA ToolScripts ==
  /\ DOMAIN ToolCalls = {"status", "loopback", "resetSiu", "trigger"}
  /\ ToolCalls["status"] = HwQuery(1) /\ ToolCalls["loopback"] = LoopScript
  /\ ToolCalls["resetSiu"] = ResetSiuScript /\ ToolCalls["trigger"] = TriggerScript
  /\ \A n \in Nat : HwQuery(n) \in Seq(DdlSteps)
  /\ \A use \in ReadUses : StatusQuery(0, use) \in Seq(DdlSteps)
  /\ LoopScript \in Seq(DdlSteps) /\ Ask(LoopCmd, "ignored") \in Seq(DdlSteps)
  /\ ResetSiuScript \in Seq(DdlSteps) /\ TriggerScript \in Seq(DdlSteps)
  /\ StopTwice \in Seq(DdlSteps) /\ TestMode \in Seq(DdlSteps)
<1>1. /\ Cmd("FEE", "EOBTR") \in DdlCommands /\ Cmd("FEE", "RDYRX") \in DdlCommands
      /\ Cmd("DIU", "SRST") \in DdlCommands /\ Cmd("SIU", "IFLOOP") \in DdlCommands
      /\ Cmd("SIU", "TSTMODE") \in DdlCommands
  BY CommandTypes DEF RdyCmd, LoopCmd
<1>2. {"loop", "ignored", "attempts", "stopping"} \subseteq ReadUses
  BY DEF ReadUses
<1>3. /\ LoopScript \in Seq(DdlSteps) /\ Ask(LoopCmd, "ignored") \in Seq(DdlSteps)
      /\ ResetSiuScript \in Seq(DdlSteps) /\ TriggerScript \in Seq(DdlSteps)
  BY <1>1, <1>2, SendScripts DEF LoopScript, LoopCmd, ResetSiuScript, TriggerScript
<1>4. StopTwice \in Seq(DdlSteps)
  <2> DEFINE stop == Ask(Cmd("FEE", "EOBTR"), "ignored")
  <2>1. stop \in Seq(DdlSteps)
    BY <1>1, <1>2, SendScripts
  <2>2. StopTwice = stop \o EndTry \o stop \o EndTry
    BY DEF StopTwice
  <2> HIDE DEF stop
  <2>3. stop \o EndTry \in Seq(DdlSteps)
    BY <2>1, BasicScripts, JoinedSteps
  <2>4. stop \o EndTry \o stop \in Seq(DdlSteps)
    BY <2>1, <2>3, JoinedSteps
  <2>5. stop \o EndTry \o stop \o EndTry \in Seq(DdlSteps)
    BY <2>4, BasicScripts, JoinedSteps
  <2> QED BY <2>2, <2>5
<1>5. TestMode \in Seq(DdlSteps)
  <2>1. Send(Cmd("SIU", "TSTMODE")) \o Wait \in Seq(DdlSteps)
    BY <1>1, SendScripts, BasicScripts, JoinedSteps
  <2> QED BY <2>1, BasicScripts, JoinedSteps DEF TestMode
<1>6. ASSUME NEW n \in Nat PROVE HwQuery(n) \in Seq(DdlSteps)
  <2> DEFINE put == PutStep(CharCmd(n))
             read == CharStep(n)
             end == CharEndStep(n)
  <2>1. /\ HwQuery(n) = <<UpStep, FreeStep, put, WaitStep, read, WaitStep, end>>
        /\ read \in DdlSteps /\ end \in DdlSteps
    BY HwQuerySteps
  <2>2. put \in DdlSteps /\ UpStep \in DdlSteps /\ FreeStep \in DdlSteps /\ WaitStep \in DdlSteps
    BY CommandTypes, BasicSteps
  <2>3. read \in DdlSteps /\ end \in DdlSteps
    BY <2>1
  <2> HIDE DEF put, read, end
  <2>4. <<UpStep, FreeStep, put, WaitStep, read, WaitStep, end>> \in Seq(DdlSteps)
    BY <2>2, <2>3
  <2> QED BY <2>1, <2>4
<1>7. ASSUME NEW use \in ReadUses PROVE StatusQuery(0, use) \in Seq(DdlSteps)
  <2> DEFINE put == PutStep(SiuCmd(0))
             read == ReadStep({"IFSTW"}, SiuCmd(0), "interface")
             end == ReadStep(Transmitted, SiuCmd(0), use)
  <2>1. /\ StatusQuery(0, use) = <<UpStep, FreeStep, put, WaitStep, read, end>>
        /\ read \in DdlSteps /\ end \in DdlSteps
    BY StatusQuerySteps
  <2>2. put \in DdlSteps /\ UpStep \in DdlSteps /\ FreeStep \in DdlSteps /\ WaitStep \in DdlSteps
    BY CommandTypes, BasicSteps
  <2>3. read \in DdlSteps /\ end \in DdlSteps
    BY <2>1
  <2> HIDE DEF put, read, end
  <2>4. <<UpStep, FreeStep, put, WaitStep, read, end>> \in Seq(DdlSteps)
    BY <2>2, <2>3
  <2> QED BY <2>1, <2>4
<1> QED BY <1>3, <1>4, <1>5, <1>6, <1>7 DEF ToolCalls

LEMMA ContinueTypes ==
  ASSUME NEW u \in User, NEW rows \in Seq(DdlSteps), ScriptTypes, Continue(u, rows)
  PROVE  ScriptTypes'
<1> DEFINE rest == IF rows = <<>> THEN <<>>
                   ELSE CASE Head(rows).op = "endTry"   -> Tail(rows)
                          [] Head(rows).op = "endRetry" -> <<>>
                          [] OTHER                       -> rows
<1>1. <<>> \in Seq(DdlSteps) /\ (rows # <<>> => Tail(rows) \in Seq(DdlSteps))
  BY HeadTailProperties
<1>2. rest \in Seq(DdlSteps)
  BY <1>1
<1>3. script' = [script EXCEPT ![u] = rest] /\ call' = call
  BY DEF Continue
<1> HIDE DEF rest
<1>4. script' \in [User -> Seq(DdlSteps)]
  BY <1>2, <1>3 DEF ScriptTypes
<1> QED BY <1>3, <1>4 DEF ScriptTypes

(* A set of numbers has a least one.                                        *)
LEMMA LeastNumber ==
  ASSUME NEW T, T \subseteq Nat, T # {}
  PROVE  \E n \in T : \A m \in T : n <= m
<1> DEFINE Smaller == {ss \in Nat \X Nat : ss[1] < ss[2]}
<1>1. IsWellFoundedOn(Smaller, Nat)
  BY NatLessThanWellFounded DEF OpToRel
<1>2. PICK n \in T : \A m \in T : <<m, n>> \notin Smaller
  <2> HIDE DEF Smaller
  <2> QED BY <1>1, WFMin
<1>3. \A m \in T : ~(m < n)
  <2> SUFFICES ASSUME NEW m \in T, m < n PROVE FALSE
    OBVIOUS
  <2>1. <<m, n>> \in Smaller
    OBVIOUS
  <2> QED BY <1>2, <2>1
<1> QED BY <1>3

LEMMA ThrowTypes ==
  ASSUME NEW u \in User, ScriptTypes, Throw(u)
  PROVE  ScriptTypes'
<1>1. CASE Catches(u) = {}
  <2>1. <<>> \in Seq(DdlSteps)
    OBVIOUS
  <2>2. script' = [script EXCEPT ![u] = <<>>] /\ call' = [call EXCEPT ![u] = "none"]
    BY <1>1 DEF Throw
  <2>3. script' \in [User -> Seq(DdlSteps)]
    BY <2>1, <2>2 DEF ScriptTypes
  <2>4. /\ call' \in [User -> ReadoutCallNames \cup DOMAIN ToolCalls]
        /\ call'["readout"] \in ReadoutCallNames
        /\ call'["tool"] \in {"none"} \cup DOMAIN ToolCalls
    BY <2>2 DEF ScriptTypes, ReadoutCallNames, User
  <2> QED BY <2>3, <2>4 DEF ScriptTypes
<1>2. CASE Catches(u) # {}
  <2> DEFINE s == script[u]
             first == CHOOSE i \in Catches(u) : \A j \in Catches(u) : i <= j
  <2>1. s \in Seq(DdlSteps) /\ Len(s) \in Nat
    BY LenProperties DEF ScriptTypes
  <2>2. \A i \in DOMAIN s : i \in Nat
    BY <2>1, LenProperties
  <2>3. Catches(u) \subseteq Nat
    BY <2>2 DEF Catches
  <2>4. first \in Catches(u) /\ first \in 1 .. Len(s)
    <3>1. \E i \in Catches(u) : \A j \in Catches(u) : i <= j
      BY <1>2, <2>3, LeastNumber
    <3>2. first \in Catches(u)
      BY <3>1
    <3>3. DOMAIN s = 1 .. Len(s)
      BY <2>1, LenProperties
    <3> QED BY <3>2, <3>3 DEF Catches
  <2>5. script' = [script EXCEPT ![u] = SubSeq(s, first + 1, Len(s))] /\ call' = call
    BY <1>2 DEF Throw
  <2> HIDE DEF first
  <2>6. SubSeq(s, first + 1, Len(s)) \in Seq(DdlSteps)
    <3>1. \A i \in first + 1 .. Len(s) : s[i] \in DdlSteps
      BY <2>1, <2>4, ElementOfSeq
    <3> HIDE DEF s
    <3> QED BY <2>1, <2>4, <3>1, SubSeqProperties
  <2> HIDE DEF s
  <2>7. script' \in [User -> Seq(DdlSteps)]
    BY <2>5, <2>6 DEF ScriptTypes
  <2> QED BY <2>5, <2>7 DEF ScriptTypes
<1> QED BY <1>1, <1>2

LEMMA WordOfCommand ==
  ASSUME NEW cmd \in DdlCommands, NEW code \in WordCodes, NEW value \in WordValues
  PROVE  Word(cmd, code, value) \in StatusWords
BY DEF Word, DdlCommands, StatusWords

LEMMA HwCharType == \A n : HwChar(n) \in Nat
<1>1. HwId \in Seq(Nat \ {0})
  BY DdlAssumption
<1>2. \A n \in DOMAIN HwId : HwId[n] \in Nat
  BY <1>1, LenProperties, ElementOfSeq
<1>3. ASSUME NEW n PROVE HwChar(n) \in Nat
  <2>1. CASE n \in DOMAIN HwId
    BY <1>2, <2>1 DEF HwChar
  <2>2. CASE n \notin DOMAIN HwId
    BY <2>2 DEF HwChar
  <2> QED BY <2>1, <2>2
<1> QED BY <1>3

LEMMA AnswerTypes ==
  ASSUME NEW cmd \in DdlCommands
  PROVE  Answers(cmd) \in Seq(StatusWords) /\ StatusBits(cmd) \in SUBSET SiuBits
<1>1. StatusBits(cmd) \in SUBSET SiuBits
  BY DEF StatusBits, SiuBits
<1>2. /\ "HWSTW" \in WordCodes /\ "IFSTW" \in WordCodes /\ "CTSTW" \in WordCodes
      /\ "ILCMD" \in WordCodes
  BY DEF WordCodes, Transmitted
<1>3. HwChar(cmd.addr) \in WordValues /\ StatusBits(cmd) \in WordValues /\ 0 \in WordValues
  BY <1>1, HwCharType DEF WordValues
<1>4. /\ Word(cmd, "HWSTW", HwChar(cmd.addr)) \in StatusWords
      /\ Word(cmd, "IFSTW", StatusBits(cmd)) \in StatusWords
      /\ Word(cmd, "CTSTW", 0) \in StatusWords /\ Word(cmd, "ILCMD", 0) \in StatusWords
  BY <1>2, <1>3, WordOfCommand
<1>5. \A v, w \in StatusWords : <<v>> \in Seq(StatusWords) /\ <<v, w>> \in Seq(StatusWords)
  OBVIOUS
<1>6. /\ <<Word(cmd, "HWSTW", HwChar(cmd.addr)), Word(cmd, "CTSTW", 0)>> \in Seq(StatusWords)
      /\ <<Word(cmd, "IFSTW", StatusBits(cmd)), Word(cmd, "CTSTW", 0)>> \in Seq(StatusWords)
      /\ <<Word(cmd, "CTSTW", 0)>> \in Seq(StatusWords)
      /\ <<Word(cmd, "ILCMD", 0)>> \in Seq(StatusWords)
  BY <1>4, <1>5
<1> QED BY <1>1, <1>6 DEF Answers

LEMMA HeadOfScript ==
  ASSUME NEW u \in User, NEW op, ScriptTypes, Now(u, op)
  PROVE  /\ script[u] # <<>> /\ Head(script[u]) \in DdlSteps /\ Tail(script[u]) \in Seq(DdlSteps)
         /\ op = "put" => Head(script[u]).cmd \in DdlCommands
         /\ op = "read" => /\ Head(script[u]).codes \in SUBSET WordCodes
                           /\ Head(script[u]).use \in ReadUses
<1>1. script[u] \in Seq(DdlSteps) /\ script[u] # <<>> /\ Head(script[u]).op = op
  BY DEF ScriptTypes, Now
<1>2. Head(script[u]) \in DdlSteps /\ Tail(script[u]) \in Seq(DdlSteps)
  BY <1>1, HeadTailProperties
<1> QED BY <1>1, <1>2 DEF DdlSteps, StepOps

LEMMA TheWordType ==
  ASSUME WordTypes
  PROVE  TheWord \in StatusWords
<1>1. NoWord \in StatusWords
  BY DEF NoWord, Word, NoCommand, Cmd, Command, StatusWords, DdlDests, WordCodes, WordValues
<1>2. status # <<>> => Head(status) \in StatusWords
  BY HeadTailProperties DEF WordTypes
<1> QED BY <1>1, <1>2 DEF TheWord

LEMMA UseTypes ==
  ASSUME NEW u \in User, NEW use \in ReadUses, NEW word \in StatusWords, ScriptTypes, InfoTypes,
         script[u] # <<>>, Use(u, use, word)
  PROVE  ScriptTypes' /\ InfoTypes'
<1>1. Tail(script[u]) \in Seq(DdlSteps)
  BY HeadTailProperties DEF ScriptTypes
<1>2. word.value \in WordValues /\ word.mine \in BOOLEAN
  BY DEF StatusWords
<1>3. CASE use = "char"
  <2>1. info' = [info EXCEPT !.chars = Append(@, word.value)] /\ Continue(u, Tail(script[u]))
    BY <1>3 DEF Use
  <2>2. Append(info.chars, word.value) \in Seq(WordValues)
    BY <1>2, AppendProperties DEF InfoTypes
  <2>3. InfoTypes'
    BY <2>1, <2>2 DEF InfoTypes
  <2> QED BY <1>1, <2>1, <2>3, ContinueTypes
<1>4. CASE use = "interface"
  <2>1. /\ info' = [info EXCEPT !.bits = word.value, !.fresh = word.mine]
        /\ Continue(u, Tail(script[u]))
    BY <1>4 DEF Use
  <2>2. InfoTypes'
    BY <1>2, <2>1 DEF InfoTypes
  <2> QED BY <1>1, <2>1, <2>2, ContinueTypes
<1>5. CASE use = "diu"
  <2>1. info' = [info EXCEPT !.diuFresh = word.mine] /\ Continue(u, Tail(script[u]))
    BY <1>5 DEF Use
  <2>2. InfoTypes'
    BY <1>2, <2>1 DEF InfoTypes
  <2> QED BY <1>1, <2>1, <2>2, ContinueTypes
<1>6. CASE use \notin {"char", "interface", "diu"}
  <2>1. info' = info
    BY <1>6 DEF Use, ReadUses
  <2>2. InfoTypes'
    BY <2>1 DEF InfoTypes
  <2>3. CASE use = "charEnd"
    <3>1. "done" \in ReadUses /\ Len(info.chars) + 1 \in Nat
      BY LenProperties DEF ReadUses, InfoTypes
    <3>2. AfterChar \in Seq(DdlSteps)
      BY <3>1, ToolScripts DEF AfterChar
    <3>3. Continue(u, AfterChar)
      BY <2>3 DEF Use
    <3> QED BY <2>2, <3>2, <3>3, ContinueTypes
  <2>4. CASE use = "loop"
    <3>1. "loopDone" \in ReadUses
      BY DEF ReadUses
    <3>2. AfterLoopCommand(word) \in Seq(DdlSteps)
      BY <3>1, ToolScripts, BasicScripts DEF AfterLoopCommand, TestMode
    <3>3. Continue(u, AfterLoopCommand(word))
      BY <2>4 DEF Use
    <3> QED BY <2>2, <3>2, <3>3, ContinueTypes
  <2>5. CASE use = "loopDone"
    <3>1. AfterLoopStatus \in Seq(DdlSteps)
      <4>1. <<>> \in Seq(DdlSteps)
        OBVIOUS
      <4> QED BY <4>1, ToolScripts DEF AfterLoopStatus, LoopCmd
    <3>2. Continue(u, AfterLoopStatus)
      BY <2>5 DEF Use
    <3> QED BY <2>2, <3>1, <3>2, ContinueTypes
  <2>6. CASE use = "attempts"
    <3>1. Continue(u, ResetAttempts)
      BY <2>6 DEF Use
    <3> QED BY <2>2, <3>1, AttemptsSteps, ContinueTypes
  <2>7. CASE use = "stopping"
    <3>1. Continue(u, StopTwice)
      BY <2>7 DEF Use
    <3> QED BY <2>2, <3>1, ToolScripts, ContinueTypes
  <2>8. CASE use \notin {"charEnd", "loop", "loopDone", "attempts", "stopping"}
    <3>1. Continue(u, Tail(script[u]))
      BY <1>6, <2>8 DEF Use
    <3> QED BY <1>1, <2>2, <3>1, ContinueTypes
  <2> QED BY <2>3, <2>4, <2>5, <2>6, <2>7, <2>8
<1> QED BY <1>3, <1>4, <1>5, <1>6

LEMMA PairType ==
  ASSUME NEW a \in BOOLEAN, NEW b \in BOOLEAN
  PROVE  /\ [readout |-> a, tool |-> b] \in [User -> BOOLEAN]
         /\ [readout |-> a, tool |-> b]["readout"] = a /\ [readout |-> a, tool |-> b]["tool"] = b
<1> DEFINE r == [readout |-> a, tool |-> b]
<1>1. DOMAIN r = User
  BY DEF User
<1>2. r["readout"] = a /\ r["tool"] = b
  OBVIOUS
<1>3. r = [u \in DOMAIN r |-> r[u]]
  OBVIOUS
<1>4. \A u \in User : r[u] \in BOOLEAN
  BY <1>2 DEF User
<1> HIDE DEF r
<1>5. r \in [User -> BOOLEAN]
  BY <1>1, <1>3, <1>4
<1> QED BY <1>5, <1>2 DEF r

LEMMA TypesBegin == DdlInit => DdlTypes
<1> SUFFICES ASSUME DdlInit PROVE DdlTypes
  OBVIOUS
<1>1. "none" \in ReadoutCallNames /\ {} \in WordValues /\ NoCommand \in DdlCommands
  BY StepTypes DEF ReadoutCallNames, WordValues
<1>2. <<>> \in Seq(DdlSteps) /\ <<>> \in Seq(StatusWords) /\ <<>> \in Seq(WordValues)
  OBVIOUS
<1>3. NoInfo \in [chars : Seq(WordValues), bits : WordValues, fresh : BOOLEAN,
                  diuFresh : BOOLEAN, quiet : BOOLEAN, transid : 0..15]
  BY <1>1, <1>2 DEF NoInfo
<1>4. ScriptTypes
  BY <1>1, <1>2 DEF DdlInit, ScriptTypes, User
<1>5. WordTypes
  BY <1>1, <1>2 DEF DdlInit, WordTypes
<1>6. InfoTypes
  BY <1>3 DEF DdlInit, InfoTypes
<1>7. OtherTypes
  BY DEF DdlInit, OtherTypes
<1> QED BY <1>4, <1>5, <1>6, <1>7 DEF DdlTypes

LEMMA BeginTypes ==
  ASSUME NEW u \in User, NEW name, NEW rows \in Seq(DdlSteps), ScriptTypes, Begin(u, name, rows),
         u = "readout" => name \in ReadoutCallNames,
         u = "tool" => name \in DOMAIN ToolCalls
  PROVE  ScriptTypes'
<1>1. script' = [script EXCEPT ![u] = rows] /\ call' = [call EXCEPT ![u] = name]
  BY DEF Begin
<1>2. script' \in [User -> Seq(DdlSteps)]
  BY <1>1 DEF ScriptTypes
<1>3. call \in [User -> ReadoutCallNames \cup DOMAIN ToolCalls] /\ call["readout"] \in ReadoutCallNames
      /\ call["tool"] \in {"none"} \cup DOMAIN ToolCalls
  BY DEF ScriptTypes
<1>4. name \in ReadoutCallNames \cup DOMAIN ToolCalls
  BY DEF User
<1>5. call' \in [User -> ReadoutCallNames \cup DOMAIN ToolCalls]
  BY <1>1, <1>3, <1>4
<1>6. CASE u = "readout"
  BY <1>1, <1>2, <1>3, <1>5, <1>6 DEF ScriptTypes, User
<1>7. CASE u = "tool"
  BY <1>1, <1>2, <1>3, <1>5, <1>7 DEF ScriptTypes, User
<1> QED BY <1>6, <1>7 DEF User

LEMMA StepTypesKept ==
  ASSUME NEW u \in User, DdlTypes, DdlStep(u)
  PROVE  DdlTypes'
<1> USE DEF DdlTypes
<1>1. CASE ResetCard(u)
  <2>1. Now(u, "reset") /\ Continue(u, Tail(script[u]))
    BY <1>1 DEF ResetCard
  <2>2. ScriptTypes'
    BY <2>1, HeadOfScript, ContinueTypes
  <2>3. WordTypes'
    <3>1. NoCommand \in DdlCommands /\ <<>> \in Seq(StatusWords)
      BY StepTypes
    <3> QED BY <1>1, <3>1 DEF ResetCard, WordTypes
  <2>4. InfoTypes' /\ OtherTypes'
    BY <1>1 DEF ResetCard, InfoTypes, OtherTypes, cardVars, LoseWords
  <2> QED BY <2>2, <2>3, <2>4
<1>2. CASE CheckLink(u) \/ WaitFree(u) \/ WordThere(u) \/ TimesOut(u) \/ Fail(u)
  <2>1. /\ Now(u, "linkUp") \/ Now(u, "free") \/ Now(u, "wait") \/ Now(u, "fail")
        /\ Continue(u, Tail(script[u])) \/ Throw(u)
    BY <1>2 DEF CheckLink, WaitFree, WordThere, TimesOut, Fail
  <2>2. ScriptTypes'
    BY <2>1, HeadOfScript, ContinueTypes, ThrowTypes
  <2>3. UNCHANGED <<cardVars, command, answering, status, info, trigger, undisturbed>>
    BY <1>2 DEF CheckLink, WaitFree, WordThere, TimesOut, Fail, dataVars
  <2>4. WordTypes' /\ InfoTypes' /\ OtherTypes'
    BY <2>3 DEF WordTypes, InfoTypes, OtherTypes, cardVars
  <2> QED BY <2>2, <2>4
<1>3. CASE PutCommand(u)
  <2> DEFINE cmd == Head(script[u]).cmd
  <2>1. Now(u, "put") /\ Continue(u, Tail(script[u]))
    BY <1>3 DEF PutCommand
  <2>2. ScriptTypes' /\ cmd \in DdlCommands
    BY <2>1, HeadOfScript, ContinueTypes
  <2>3. command' = [cmd EXCEPT !.trid = TridOf(cmd)]
    BY <1>3 DEF PutCommand
  <2> HIDE DEF cmd
  <2>4. TridOf(cmd) \in Nat
    BY <2>2 DEF TridOf, InfoTypes, DdlCommands
  <2>5. command' \in DdlCommands
    BY <2>2, <2>3, <2>4 DEF DdlCommands
  <2>6. ASSUME NEW s \in Seq(StatusWords)
        PROVE  [i \in DOMAIN s |-> [s[i] EXCEPT !.mine = FALSE]] \in Seq(StatusWords)
    <3>1. DOMAIN s = 1 .. Len(s) /\ Len(s) \in Nat
      BY LenProperties
    <3>2. \A i \in 1 .. Len(s) : s[i] \in StatusWords
      BY ElementOfSeq
    <3>3. \A i \in 1 .. Len(s) : [s[i] EXCEPT !.mine = FALSE] \in StatusWords
      BY <3>2 DEF StatusWords
    <3> QED BY <3>1, <3>3
  <2>7. status' \in Seq(StatusWords) /\ answering' \in Seq(StatusWords)
    <3>1. status \in Seq(StatusWords) /\ answering \in Seq(StatusWords)
      BY DEF WordTypes
    <3>2. CASE u = "tool"
      <4>1. /\ status' = [i \in DOMAIN status |-> [status[i] EXCEPT !.mine = FALSE]]
            /\ answering' = [i \in DOMAIN answering |-> [answering[i] EXCEPT !.mine = FALSE]]
        BY <1>3, <3>2 DEF PutCommand
      <4> QED BY <2>6, <3>1, <4>1
    <3>3. CASE u # "tool"
      BY <1>3, <3>1, <3>3 DEF PutCommand
    <3> QED BY <3>2, <3>3
  <2>8. InfoTypes' /\ OtherTypes'
    BY <1>3 DEF PutCommand, InfoTypes, OtherTypes, cardVars, dataVars
  <2> QED BY <2>2, <2>5, <2>7, <2>8 DEF WordTypes
<1>4. CASE ReadStatus(u)
  <2>1. Now(u, "read") /\ UNCHANGED <<cardVars, command, answering, undisturbed>>
    BY <1>4 DEF ReadStatus
  <2>2. status' \in Seq(StatusWords)
    <3>1. <<>> \in Seq(StatusWords) /\ (status # <<>> => Tail(status) \in Seq(StatusWords))
      BY HeadTailProperties DEF WordTypes
    <3> QED BY <1>4, <3>1 DEF ReadStatus
  <2>3. WordTypes'
    BY <2>1, <2>2 DEF WordTypes
  <2>4. trigger' \in BOOLEAN
    BY <1>4 DEF ReadStatus, OtherTypes
  <2>5. OtherTypes'
    BY <2>1, <2>4 DEF OtherTypes, cardVars
  <2>6. CASE Throw(u) /\ UNCHANGED info
    <3>1. ScriptTypes'
      BY <2>6, ThrowTypes
    <3>2. InfoTypes'
      BY <2>6 DEF InfoTypes
    <3> QED BY <2>3, <2>5, <3>1, <3>2
  <2>7. CASE Use(u, Head(script[u]).use, TheWord)
    <3>1. Head(script[u]).use \in ReadUses /\ script[u] # <<>> /\ TheWord \in StatusWords
      BY <2>1, HeadOfScript, TheWordType
    <3>2. ScriptTypes' /\ InfoTypes'
      BY <2>7, <3>1, UseTypes
    <3> QED BY <2>3, <2>5, <3>2
  <2> QED BY <1>4, <2>6, <2>7 DEF ReadStatus
<1>5. CASE TakeNextId(u)
  <2>1. Now(u, "nextId") /\ Continue(u, Tail(script[u]))
    BY <1>5 DEF TakeNextId
  <2>2. ScriptTypes'
    BY <2>1, HeadOfScript, ContinueTypes
  <2>3. (info.transid + 1) % 16 \in 0 .. 15
    <3>1. info.transid \in 0 .. 15
      BY DEF InfoTypes
    <3> QED BY <3>1
  <2>4. InfoTypes'
    BY <1>5, <2>3 DEF TakeNextId, InfoTypes
  <2>5. WordTypes' /\ OtherTypes'
    BY <1>5 DEF TakeNextId, WordTypes, OtherTypes, cardVars
  <2> QED BY <2>2, <2>4, <2>5
<1> QED BY <1>1, <1>2, <1>3, <1>4, <1>5 DEF DdlStep

LEMMA CardTypesKept ==
  ASSUME DdlTypes, Execute \/ Arrive \/ LinkChanges
  PROVE  DdlTypes'
<1> USE DEF DdlTypes
<1>1. CASE Execute
  <2>1. UNCHANGED <<status, script, call, trigger, info>> /\ command' = NoCommand
    BY <1>1 DEF Execute
  <2>2. siuLoop' \in BOOLEAN /\ frontEnd' \in {"idle", "sending"} /\ undisturbed' \in [User -> BOOLEAN]
    BY <1>1 DEF Execute, LoseWords, OtherTypes
  <2>3. answering' \in Seq(StatusWords)
    <3>1. answering \in Seq(StatusWords) /\ Answers(command) \in Seq(StatusWords)
      BY AnswerTypes DEF WordTypes
    <3>2. answering \o Answers(command) \in Seq(StatusWords)
      BY <3>1, ConcatProperties
    <3>3. answering' = answering \o Answers(command) \/ answering' = answering
      BY <1>1 DEF Execute
    <3> QED BY <3>1, <3>2, <3>3
  <2>4. WordTypes'
    BY <2>1, <2>3, StepTypes DEF WordTypes
  <2>5. OtherTypes'
    BY <2>1, <2>2 DEF OtherTypes
  <2>6. ScriptTypes' /\ InfoTypes'
    BY <2>1 DEF ScriptTypes, InfoTypes
  <2> QED BY <2>4, <2>5, <2>6
<1>2. CASE Arrive
  <2>1. UNCHANGED <<cardVars, command, script, call, info, trigger, undisturbed>>
    BY <1>2 DEF Arrive, dataVars
  <2>2. status' \in Seq(StatusWords) /\ answering' \in Seq(StatusWords)
    <3>1. Head(answering) \in StatusWords /\ Tail(answering) \in Seq(StatusWords)
      BY <1>2, HeadTailProperties DEF Arrive, WordTypes
    <3>2. Append(status, Head(answering)) \in Seq(StatusWords)
      BY <3>1, AppendProperties DEF WordTypes
    <3> QED BY <1>2, <3>1, <3>2 DEF Arrive
  <2>3. WordTypes'
    BY <2>1, <2>2 DEF WordTypes
  <2>4. ScriptTypes' /\ InfoTypes' /\ OtherTypes'
    BY <2>1 DEF ScriptTypes, InfoTypes, OtherTypes, cardVars
  <2> QED BY <2>3, <2>4
<1>3. CASE LinkChanges
  <2>1. UNCHANGED <<siuLoop, frontEnd, command, status, script, call, trigger, info>>
    BY <1>3 DEF LinkChanges
  <2>2. answering' = <<>> /\ <<>> \in Seq(StatusWords)
    BY <1>3 DEF LinkChanges
  <2>2a. undisturbed' \in [User -> BOOLEAN]
    <3>1. undisturbed' = undisturbed \/ undisturbed' = [undisturbed EXCEPT !["tool"] = FALSE]
      BY <1>3 DEF LinkChanges, LoseWords
    <3> QED BY <3>1 DEF OtherTypes
  <2>3. WordTypes' /\ OtherTypes'
    BY <2>1, <2>2, <2>2a DEF WordTypes, OtherTypes
  <2>4. ScriptTypes' /\ InfoTypes'
    BY <2>1 DEF ScriptTypes, InfoTypes
  <2> QED BY <2>3, <2>4
<1> QED BY <1>1, <1>2, <1>3

LEMMA BeginsTypesKept ==
  ASSUME DdlTypes, StartDma \/ StopDma \/ ResetChannel \/ BeginTool, Sources \subseteq {"FEE", "DIU", "SIU"}
  PROVE  DdlTypes'
<1> USE DEF DdlTypes
<1>1. CASE StartDma
  <2>1. PICK source \in Sources :
          /\ Begin("readout", IF source = "FEE" THEN "start" ELSE "generate", StartScript(source))
          /\ undisturbed' = [readout |-> script["tool"] = <<>>, tool |-> FALSE]
          /\ UNCHANGED <<cardVars, command, answering, status, info, trigger>>
    BY <1>1 DEF StartDma
  <2>2. StartScript(source) \in Seq(DdlSteps)
    BY ReadoutScripts
  <2>3. ScriptTypes'
    BY <2>1, <2>2, BeginTypes DEF User, ReadoutCallNames
  <2>4. undisturbed' \in [User -> BOOLEAN]
    <3>1. (script["tool"] = <<>>) \in BOOLEAN
      OBVIOUS
    <3> QED BY <2>1, <3>1, PairType
  <2>5. WordTypes' /\ InfoTypes' /\ OtherTypes'
    BY <2>1, <2>4 DEF WordTypes, InfoTypes, OtherTypes, cardVars
  <2> QED BY <2>3, <2>5
<1>2. CASE StopDma
  <2>1. /\ Begin("readout", "stop", StopScript)
        /\ undisturbed' = [undisturbed EXCEPT !["tool"] = FALSE]
        /\ trigger' = FALSE
        /\ UNCHANGED <<cardVars, command, answering, status, info>>
    BY <1>2 DEF StopDma
  <2>2. ScriptTypes'
    BY <2>1, ReadoutScripts, BeginTypes DEF User, ReadoutCallNames
  <2>3. WordTypes' /\ InfoTypes' /\ OtherTypes'
    BY <2>1 DEF WordTypes, InfoTypes, OtherTypes, cardVars
  <2> QED BY <2>2, <2>3
<1>3. CASE ResetChannel
  <2>1. /\ Begin("readout", "reset", ResetDevice(TRUE))
        /\ undisturbed' = [readout |-> FALSE, tool |-> FALSE]
        /\ UNCHANGED <<cardVars, command, answering, status, info, trigger>>
    BY <1>3 DEF ResetChannel
  <2>2. ScriptTypes'
    BY <2>1, ReadoutScripts, BeginTypes DEF User, ReadoutCallNames
  <2>3. undisturbed' \in [User -> BOOLEAN]
    BY <2>1, PairType
  <2>4. WordTypes' /\ InfoTypes' /\ OtherTypes'
    BY <2>1, <2>3 DEF WordTypes, InfoTypes, OtherTypes, cardVars
  <2> QED BY <2>2, <2>4
<1>4. CASE BeginTool
  <2>1. PICK name \in DOMAIN ToolCalls : Begin("tool", name, ToolCalls[name])
    BY <1>4 DEF BeginTool
  <2>2. /\ info' = [NoInfo EXCEPT !.quiet = status = <<>> /\ answering = <<>> /\ command = NoCommand]
        /\ undisturbed' = [readout |-> FALSE, tool |-> script["readout"] = <<>>]
        /\ UNCHANGED <<cardVars, command, answering, status, trigger>>
    BY <1>4 DEF BeginTool
  <2>3. ToolCalls[name] \in Seq(DdlSteps)
    BY ToolScripts
  <2>4. ScriptTypes'
    BY <2>1, <2>3, BeginTypes DEF User
  <2>5. undisturbed' \in [User -> BOOLEAN]
    <3>1. (script["readout"] = <<>>) \in BOOLEAN
      OBVIOUS
    <3> QED BY <2>2, <3>1, PairType
  <2>6. InfoTypes'
    <3>1. {} \in WordValues /\ <<>> \in Seq(WordValues)
      BY DEF WordValues
    <3>2. PICK q \in BOOLEAN : q = (status = <<>> /\ answering = <<>> /\ command = NoCommand)
      OBVIOUS
    <3>3. info' = [NoInfo EXCEPT !.quiet = q]
      BY <2>2, <3>2
    <3>4. info' = [chars |-> <<>>, bits |-> {}, fresh |-> FALSE, diuFresh |-> FALSE, quiet |-> q,
                   transid |-> 15]
      BY <3>3 DEF NoInfo
    <3> QED BY <3>1, <3>4 DEF InfoTypes
  <2>7. WordTypes' /\ OtherTypes'
    BY <2>2, <2>5 DEF WordTypes, OtherTypes, cardVars
  <2> QED BY <2>4, <2>6, <2>7
<1> QED BY <1>1, <1>2, <1>3, <1>4

-----------------------------------------------------------------------------
(* What a step leaves alone.                                               *)
LEMMA ThrowFrame ==
  ASSUME NEW u \in User, DdlTypes, Throw(u) \/ \E rows \in Seq(DdlSteps) : Continue(u, rows)
  PROVE  /\ OthersStay(u)
         /\ call'[u] \in {call[u], "none"}
         /\ call'[u] = "none" \/ call' = call
<1>1. DOMAIN script = User /\ DOMAIN call = User
  BY DEF DdlTypes, ScriptTypes
<1>2. CASE Throw(u)
  <2>1. CASE Catches(u) = {}
    BY <1>1, <1>2, <2>1 DEF Throw, OthersStay
  <2>2. CASE Catches(u) # {}
    BY <1>1, <1>2, <2>2 DEF Throw, OthersStay
  <2> QED BY <2>1, <2>2
<1>3. CASE \E rows \in Seq(DdlSteps) : Continue(u, rows)
  BY <1>1, <1>3 DEF Continue, OthersStay
<1> QED BY <1>2, <1>3

LEMMA UseFrame ==
  ASSUME NEW u \in User, NEW use \in ReadUses, NEW word, ScriptTypes, InfoTypes, script[u] # <<>>,
         Use(u, use, word)
  PROVE  /\ \E rows \in Seq(DdlSteps) : Continue(u, rows)
         /\ info'.quiet = info.quiet /\ info'.transid = info.transid
<1>1. Tail(script[u]) \in Seq(DdlSteps)
  BY HeadTailProperties DEF ScriptTypes
<1>2. CASE use = "char"
  BY <1>1, <1>2 DEF Use, InfoTypes
<1>3. CASE use = "interface"
  BY <1>1, <1>3 DEF Use, InfoTypes
<1>4. CASE use = "diu"
  BY <1>1, <1>4 DEF Use, InfoTypes
<1>5. CASE use \notin {"char", "interface", "diu"}
  <2>1. info' = info
    BY <1>5 DEF Use, ReadUses
  <2>2. {"done", "loopDone"} \subseteq ReadUses /\ Len(info.chars) + 1 \in Nat /\ <<>> \in Seq(DdlSteps)
    BY LenProperties DEF ReadUses, InfoTypes
  <2>3. /\ AfterChar \in Seq(DdlSteps) /\ AfterLoopCommand(word) \in Seq(DdlSteps)
        /\ AfterLoopStatus \in Seq(DdlSteps) /\ ResetAttempts \in Seq(DdlSteps)
        /\ StopTwice \in Seq(DdlSteps)
    BY <2>2, ToolScripts, BasicScripts, AttemptsSteps
    DEF AfterChar, AfterLoopCommand, AfterLoopStatus, TestMode, LoopCmd
  <2>4. \/ Continue(u, AfterChar) \/ Continue(u, AfterLoopCommand(word))
        \/ Continue(u, AfterLoopStatus) \/ Continue(u, ResetAttempts) \/ Continue(u, StopTwice)
        \/ Continue(u, Tail(script[u]))
    BY <1>5 DEF Use, ReadUses
  <2> HIDE DEF Continue
  <2> QED BY <1>1, <2>1, <2>3, <2>4
<1> QED BY <1>2, <1>3, <1>4, <1>5

LEMMA StepFrame ==
  ASSUME NEW u \in User, DdlTypes, DdlStep(u)
  PROVE  /\ script[u] # <<>> /\ OthersStay(u)
         /\ call'[u] = "none" \/ call' = call
         /\ UNCHANGED cardVars
         /\ undisturbed' = undisturbed \/ LoseWords
         /\ info'.quiet = info.quiet
         /\ call[u] # "start" => trigger' = trigger
<1> USE DEF DdlTypes
<1>0. \A op : Now(u, op) => script[u] # <<>> /\ Tail(script[u]) \in Seq(DdlSteps)
  BY HeadOfScript
<1>1. CASE ResetCard(u)
  <2>1. Now(u, "reset") /\ Continue(u, Tail(script[u]))
    BY <1>1 DEF ResetCard
  <2>2. \E rows \in Seq(DdlSteps) : Continue(u, rows)
    BY <1>0, <2>1
  <2> QED BY <1>0, <1>1, <2>1, <2>2, ThrowFrame DEF ResetCard
<1>2. CASE CheckLink(u) \/ WaitFree(u) \/ WordThere(u) \/ TimesOut(u) \/ Fail(u)
  <2>1. /\ Now(u, "linkUp") \/ Now(u, "free") \/ Now(u, "wait") \/ Now(u, "fail")
        /\ Continue(u, Tail(script[u])) \/ Throw(u)
        /\ UNCHANGED <<cardVars, info, trigger, undisturbed>>
    BY <1>2 DEF CheckLink, WaitFree, WordThere, TimesOut, Fail, dataVars
  <2>2. Throw(u) \/ \E rows \in Seq(DdlSteps) : Continue(u, rows)
    BY <1>0, <2>1
  <2> QED BY <1>0, <2>1, <2>2, ThrowFrame
<1>3. CASE PutCommand(u)
  <2>1. /\ Now(u, "put") /\ Continue(u, Tail(script[u]))
        /\ UNCHANGED <<cardVars, info, trigger, undisturbed>>
    BY <1>3 DEF PutCommand, dataVars
  <2>2. \E rows \in Seq(DdlSteps) : Continue(u, rows)
    BY <1>0, <2>1
  <2> QED BY <1>0, <2>1, <2>2, ThrowFrame
<1>4. CASE ReadStatus(u)
  <2>1. Now(u, "read") /\ UNCHANGED <<cardVars, command, answering, undisturbed>>
    BY <1>4 DEF ReadStatus
  <2>2. Head(script[u]).use \in ReadUses /\ script[u] # <<>>
    BY <2>1, HeadOfScript
  <2>3. CASE Throw(u) /\ UNCHANGED <<info, trigger>>
    BY <2>1, <2>2, <2>3, ThrowFrame
  <2>4. CASE /\ Use(u, Head(script[u]).use, TheWord)
             /\ trigger' = (trigger \/ (call[u] = "start" /\ Len(script[u]) = 1))
    <3>1. /\ \E rows \in Seq(DdlSteps) : Continue(u, rows)
          /\ info'.quiet = info.quiet
      BY <2>2, <2>4, UseFrame
    <3>2. call[u] # "start" => trigger' = trigger
      BY <2>4 DEF OtherTypes
    <3> QED BY <2>1, <2>2, <3>1, <3>2, ThrowFrame
  <2> QED BY <1>4, <2>3, <2>4 DEF ReadStatus
<1>5. CASE TakeNextId(u)
  <2>1. /\ Now(u, "nextId") /\ Continue(u, Tail(script[u]))
        /\ UNCHANGED <<cardVars, trigger, undisturbed>>
    BY <1>5 DEF TakeNextId
  <2>2. info'.quiet = info.quiet
    BY <1>5 DEF TakeNextId, InfoTypes
  <2>3. \E rows \in Seq(DdlSteps) : Continue(u, rows)
    BY <1>0, <2>1
  <2> QED BY <1>0, <2>1, <2>2, <2>3, ThrowFrame
<1> QED BY <1>1, <1>2, <1>3, <1>4, <1>5 DEF DdlStep

-----------------------------------------------------------------------------
(* A readout that starts: nothing but its own command is on its way.       *)
LEMMA NotDisturbed ==
  ASSUME DdlTypes, undisturbed' = undisturbed \/ LoseWords
  PROVE  /\ undisturbed'["readout"] = undisturbed["readout"]
         /\ undisturbed'["tool"] => undisturbed["tool"]
<1>1. undisturbed \in [User -> BOOLEAN]
  BY DEF DdlTypes, OtherTypes
<1> QED BY <1>1 DEF LoseWords, User

LEMMA ToolStepStart ==
  ASSUME DdlTypes, StartInv, DdlStep("tool")
  PROVE  StartInv'
<1>1. "tool" \in User /\ "readout" \in User
  BY DEF User
<1>2. call["tool"] # "start"
  BY ToolScripts DEF DdlTypes, ScriptTypes
<1>3. /\ script["tool"] # <<>> /\ script'["readout"] = script["readout"]
      /\ call'["readout"] = call["readout"] /\ trigger' = trigger
      /\ undisturbed' = undisturbed \/ LoseWords
  BY <1>1, <1>2, StepFrame DEF OthersStay
<1>4. ~undisturbed["readout"] /\ ~undisturbed'["readout"]
  BY <1>3, NotDisturbed DEF StartInv
<1>5. ASSUME NEW k \in 1 .. 6, StartAt(k) PROVE StartAt(k)'
  BY <1>3, <1>4, <1>5 DEF StartAt, IsAt
<1> QED BY <1>3, <1>4, <1>5 DEF StartInv

LEMMA CardStepStart ==
  ASSUME DdlTypes, DdlTypes', StartInv, Execute \/ Arrive \/ LinkChanges
  PROVE  StartInv'
<1>1. /\ UNCHANGED <<script, call, trigger>>
      /\ undisturbed' = undisturbed \/ LoseWords
  BY DEF Execute, Arrive, LinkChanges, dataVars
<1>2. undisturbed'["readout"] = undisturbed["readout"]
  BY <1>1, NotDisturbed
<1>3. CASE Arrive
  <2>1. UNCHANGED <<command, frontEnd>> /\ answering # <<>>
        /\ status' = Append(status, Head(answering)) /\ answering' = Tail(answering)
    BY <1>3 DEF Arrive, cardVars
  <2>2. Flight' = Flight
    BY <2>1, FlightArrives DEF Flight, DdlTypes, WordTypes
  <2>3. status' # <<>>
    <3>1. Head(answering) \in StatusWords /\ status \in Seq(StatusWords)
      BY <2>1, HeadTailProperties DEF DdlTypes, WordTypes
    <3> QED BY <2>1, <3>1, AppendProperties
  <2>4. ASSUME NEW k \in 1 .. 6, StartAt(k) PROVE StartAt(k)'
    BY <1>1, <1>2, <2>1, <2>2, <2>3, <2>4 DEF StartAt, IsAt, Silence
  <2> QED BY <1>1, <1>2, <2>1, <2>4 DEF StartInv
<1>4. CASE LinkChanges
  <2>1. UNCHANGED <<command, frontEnd, status>> /\ answering' = <<>>
    BY <1>4 DEF LinkChanges
  <2>2. Flight = <<>> => Flight' = <<>>
    <3>1. Flight = <<>> => status = <<>>
      BY FlightEmpty
    <3>2. status = <<>> => Flight' = <<>>
      <4>1. (<<>> \o <<>>) = <<>>
        BY EmptySeq, ConcatEmptySeq
      <4> QED BY <2>1, <4>1 DEF Flight
    <3> QED BY <3>1, <3>2
  <2>3. ASSUME NEW k \in 1 .. 6, StartAt(k) PROVE StartAt(k)'
    BY <1>1, <1>2, <2>1, <2>2, <2>3 DEF StartAt, IsAt, Silence
  <2> QED BY <1>1, <1>2, <2>1, <2>3 DEF StartInv
<1>5. CASE Execute
  <2>1. command # NoCommand /\ command' = NoCommand /\ status' = status
    BY <1>5 DEF Execute
  <2>2. command = RdyCmd => frontEnd' = "sending" \/ answering' = answering
    BY <1>5 DEF Execute, RdyCmd, Cmd, Command
  <2>3. Flight = <<>> /\ answering' = answering => Flight' = <<>>
    BY <2>1 DEF Flight
  <2>4. ASSUME NEW k \in 1 .. 6, StartAt(k) PROVE StartAt(k)'
    <3>1. IsAt("readout", StartScript("FEE"), k)'
      BY <1>1, <2>4 DEF StartAt, IsAt
    <3>2. undisturbed["readout"] => k \notin {3, 4}
      BY <2>1, <2>4 DEF StartAt, Silence
    <3>3. undisturbed["readout"] /\ k \in {5, 6} => command = RdyCmd /\ Flight = <<>>
      BY <2>1, <2>4 DEF StartAt
    <3>4. undisturbed["readout"] /\ k \in {5, 6} => command' = NoCommand
                                        /\ (Flight' # <<>> => frontEnd' = "sending")
      BY <2>1, <2>2, <2>3, <3>3
    <3>5. undisturbed["readout"] /\ k = 6 => status' # <<>>
      BY <2>1, <2>4 DEF StartAt
    <3> QED BY <1>2, <3>1, <3>2, <3>4, <3>5 DEF StartAt
  <2>5. ~(trigger /\ undisturbed["readout"])
    BY <2>1 DEF StartInv
  <2> QED BY <1>1, <1>2, <2>4, <2>5 DEF StartInv
<1> QED BY <1>3, <1>4, <1>5

LEMMA BeginStart ==
  ASSUME DdlTypes, StartInv, StartDma \/ StopDma \/ ResetChannel \/ BeginTool
  PROVE  StartInv'
<1>1. DOMAIN script = User /\ DOMAIN call = User /\ "tool" \in User /\ "readout" \in User
  BY DEF DdlTypes, ScriptTypes, User
<1>2. CASE StartDma
  <2>1. PICK source \in Sources :
          /\ Begin("readout", IF source = "FEE" THEN "start" ELSE "generate", StartScript(source))
          /\ undisturbed' = [readout |-> script["tool"] = <<>>, tool |-> FALSE]
          /\ UNCHANGED <<cardVars, command, answering, status, info, trigger>>
    BY <1>2 DEF StartDma
  <2>2. /\ script'["readout"] = StartScript(source) /\ script'["tool"] = script["tool"]
        /\ call'["readout"] = IF source = "FEE" THEN "start" ELSE "generate"
    BY <1>1, <2>1 DEF Begin
  <2>3. ~trigger /\ ~trigger'
    BY <1>2, <2>1 DEF StartDma
  <2>4. undisturbed'["readout"] = (script["tool"] = <<>>)
    <3>1. (script["tool"] = <<>>) \in BOOLEAN
      OBVIOUS
    <3> QED BY <2>1, <3>1, PairType
  <2>5. ASSUME source = "FEE" PROVE StartAt(1)'
    <3>1. StartScript("FEE") \in Seq(DdlSteps) /\ Len(StartScript("FEE")) = 6
      BY StartSteps
    <3>2. SubSeq(StartScript("FEE"), 1, Len(StartScript("FEE"))) = StartScript("FEE")
      BY <3>1, SubSeqFull
    <3>3. script'["readout"] = SubSeq(StartScript("FEE"), 1, Len(StartScript("FEE")))
      BY <2>2, <2>5, <3>2
    <3>4. 1 \in 1 .. Len(StartScript("FEE"))
      <4>1. Len(StartScript("FEE")) = 6
        BY <3>1
      <4>2. 1 \in 1 .. 6
        OBVIOUS
      <4> QED BY <4>1, <4>2
    <3> QED BY <3>3, <3>4 DEF StartAt, IsAt
  <2>6. call'["readout"] = "start" => \E k \in 1 .. 6 : StartAt(k)'
    <3>1. 1 \in 1 .. 6
      OBVIOUS
    <3> QED BY <2>2, <2>5, <3>1
  <2> QED BY <2>2, <2>3, <2>4, <2>6 DEF StartInv
<1>3. CASE StopDma \/ ResetChannel
  <2>1. call'["readout"] # "start" /\ script'["tool"] = script["tool"] /\ ~trigger'
    <3>1. CASE StopDma
      BY <1>1, <3>1 DEF StopDma, Begin
    <3>2. CASE ResetChannel
      BY <1>1, <3>2 DEF ResetChannel, Begin
    <3> QED BY <1>3, <3>1, <3>2
  <2>2. undisturbed'["readout"] => undisturbed["readout"]
    BY <1>3, PairType DEF StopDma, ResetChannel, DdlTypes, OtherTypes, User
  <2> QED BY <2>1, <2>2 DEF StartInv
<1>4. CASE BeginTool
  <2>1. PICK name \in DOMAIN ToolCalls : Begin("tool", name, ToolCalls[name])
    BY <1>4 DEF BeginTool
  <2>2. script'["readout"] = script["readout"] /\ call'["readout"] = call["readout"]
    BY <1>1, <2>1 DEF Begin
  <2>3. ~undisturbed'["readout"] /\ trigger' = trigger
    <3>1. (script["readout"] = <<>>) \in BOOLEAN
      OBVIOUS
    <3> QED BY <1>4, <3>1, PairType DEF BeginTool
  <2>4. ASSUME NEW k \in 1 .. 6, StartAt(k) PROVE StartAt(k)'
    BY <2>2, <2>3, <2>4 DEF StartAt, IsAt
  <2> QED BY <2>2, <2>3, <2>4 DEF StartInv
<1> QED BY <1>2, <1>3, <1>4

LEMMA ReadoutStepStart ==
  ASSUME DdlTypes, StartInv, DdlStep("readout")
  PROVE  StartInv'
<1> DEFINE s == StartScript("FEE")
<1>1. "tool" \in User /\ "readout" \in User
  BY DEF User
<1>2. /\ script["readout"] # <<>> /\ script'["tool"] = script["tool"]
      /\ call'["readout"] = "none" \/ call' = call
      /\ call["readout"] # "start" => trigger' = trigger
      /\ undisturbed'["readout"] = undisturbed["readout"]
      /\ UNCHANGED cardVars
  BY <1>1, StepFrame, NotDisturbed DEF OthersStay
<1>3. ~trigger
  BY <1>2 DEF StartInv
<1>4. CASE call["readout"] # "start"
  <2>1. ~trigger' /\ call'["readout"] # "start"
    BY <1>2, <1>3, <1>4
  <2> QED BY <1>2, <2>1 DEF StartInv
<1>5. CASE call["readout"] = "start"
  <2>1. PICK k \in 1 .. 6 : StartAt(k)
    BY <1>2, <1>5 DEF StartInv
  <2>2. /\ s \in Seq(DdlSteps) /\ Len(s) = 6
        /\ s[1] = ClearStep /\ s[2] = ClearStep /\ s[3] = UpStep
        /\ s[4] = PutStep(RdyCmd) /\ s[5] = WaitStep /\ s[6] = AnyStep("ignored")
    BY StartSteps
  <2> HIDE DEF s
  <2>3. /\ s[1].op = "reset" /\ s[2].op = "reset" /\ s[3].op = "linkUp"
        /\ s[4].op = "put" /\ s[4].cmd = RdyCmd
        /\ s[5].op = "wait" /\ s[6].op = "read" /\ s[6].codes = {} /\ s[6].use = "ignored"
    BY <2>2 DEF ClearStep, UpStep, PutStep, WaitStep, AnyStep, OpStep, ReadStep
  <2>4. Plain(s)
    BY <2>2, <2>3 DEF Plain
  <2>5. IsAt("readout", s, k)
    BY <2>1 DEF StartAt, s
  <2>6. k < Len(s) => s[k + 1].op \notin {"endTry", "endRetry"}
    BY <2>2, <2>4 DEF Plain
  <2>7. ASSUME k < 6, Moves("readout", s, k + 1), trigger' = trigger,
               undisturbed["readout"] /\ k \in {2, 3} => Silence',
               undisturbed["readout"] /\ k \in {4, 5} =>
                 \/ command' = RdyCmd /\ Flight' = <<>>
                 \/ command' = NoCommand /\ (Flight' # <<>> => frontEnd' = "sending"),
               undisturbed["readout"] /\ k = 5 => status' # <<>>
        PROVE  StartInv'
    <3>1. IsAt("readout", StartScript("FEE"), k + 1)'
      BY <2>2, <2>7 DEF Moves, Reached, s
    <3>2. k + 1 \in 1 .. 6 /\ (k + 1 \in {3, 4} <=> k \in {2, 3})
          /\ (k + 1 \in {5, 6} <=> k \in {4, 5}) /\ (k + 1 = 6 <=> k = 5)
      BY <2>7
    <3>3. StartAt(k + 1)'
      BY <1>2, <2>7, <3>1, <3>2 DEF StartAt
    <3> QED BY <1>2, <1>3, <2>7, <3>2, <3>3 DEF StartInv
  <2>8. ASSUME Leaves("readout"), trigger' = trigger PROVE StartInv'
    BY <1>2, <1>3, <2>8 DEF StartInv, Leaves
  <2>9. CASE k \in {1, 2}
    <3>1. ResetCard("readout")
      BY <1>1, <2>2, <2>3, <2>5, <2>9, WhichStep
    <3>2. Moves("readout", s, k + 1)
      BY <1>1, <2>2, <2>5, <2>6, <3>1, MovesOn DEF ResetCard
    <3>3. trigger' = trigger /\ command' = NoCommand /\ status' = <<>> /\ answering' = <<>>
      BY <3>1 DEF ResetCard
    <3>4. Silence'
      <4>1. (<<>> \o <<>>) = <<>>
        BY EmptySeq, ConcatEmptySeq
      <4> QED BY <3>3, <4>1 DEF Silence, Flight
    <3>5. k < 6 /\ k \notin {4, 5}
      BY <2>9
    <3> QED BY <2>7, <3>2, <3>3, <3>4, <3>5
  <2>10. CASE k \in {3, 5}
    <3>1. s[k].op \in {"linkUp", "free", "wait", "fail"}
      BY <2>3, <2>10
    <3>2. /\ NothingElse
          /\ \/ Leaves("readout")
             \/ /\ Moves("readout", s, k + 1)
                /\ s[k].op = "wait" => status # <<>>
      BY <1>1, <2>2, <2>4, <2>5, <3>1, PlainSilentStep
    <3>3. UNCHANGED <<command, answering, status, trigger, frontEnd, Flight>>
      BY <3>2 DEF NothingElse, cardVars, Flight
    <3>4. CASE Moves("readout", s, k + 1) /\ (s[k].op = "wait" => status # <<>>)
      <4>1. k = 5 => status' # <<>>
        BY <2>3, <3>3, <3>4
      <4>2. undisturbed["readout"] /\ k \in {2, 3} => Silence'
        BY <2>1, <2>10, <3>3 DEF StartAt, Silence
      <4>3. undisturbed["readout"] /\ k \in {4, 5} =>
                 \/ command' = RdyCmd /\ Flight' = <<>>
                 \/ command' = NoCommand /\ (Flight' # <<>> => frontEnd' = "sending")
        BY <2>1, <2>10, <3>3 DEF StartAt
      <4>4. k < 6
        BY <2>10
      <4> QED BY <2>7, <3>3, <3>4, <4>1, <4>2, <4>3, <4>4
    <3> QED BY <2>8, <3>2, <3>3, <3>4
  <2>11. CASE k = 4
    <3>1. /\ Moves("readout", s, k + 1)
          /\ command' = [s[4].cmd EXCEPT !.trid = TridOf(s[4].cmd)]
          /\ UNCHANGED <<trigger, status, answering>>
      BY <1>1, <2>2, <2>3, <2>5, <2>6, <2>11, PutsCommand
    <3>2. command' = RdyCmd
      BY <2>3, <3>1 DEF TridOf, RdyCmd, Cmd, Command, CurrentId
    <3>3. Flight' = Flight
      BY <3>1 DEF Flight
    <3>4. undisturbed["readout"] => Flight = <<>>
      BY <2>1, <2>11 DEF StartAt, Silence
    <3>5. k < 6 /\ k \notin {2, 3} /\ k # 5
      BY <2>11
    <3> QED BY <2>7, <3>1, <3>2, <3>3, <3>4, <3>5
  <2>12. CASE k = 6
    <3>1. /\ UNCHANGED <<cardVars, command, answering, undisturbed>>
          /\ \/ Throw("readout") /\ UNCHANGED <<info, trigger>>
             \/ Matches(TheWord, s[k]) /\ Use("readout", s[k].use, TheWord)
      BY <1>1, <2>2, <2>3, <2>5, <2>12, ReadsWord
    <3>2. CASE Throw("readout") /\ UNCHANGED <<info, trigger>>
      <4>1. Leaves("readout")
        BY <1>1, <2>2, <2>4, <2>5, <3>2, ThrowLeaves
      <4> QED BY <2>8, <3>2, <4>1
    <3>3. CASE Use("readout", s[k].use, TheWord)
      <4>1. Continue("readout", Tail(script["readout"]))
        BY <2>3, <2>12, <3>3 DEF Use
      <4>2. Moves("readout", s, k + 1)
        BY <1>1, <2>2, <2>5, <2>6, <4>1, MovesOn
      <4>3. script'["readout"] = <<>>
        BY <2>2, <2>12, <4>2 DEF Moves, Reached
      <4>4. undisturbed["readout"] => command' = NoCommand /\ frontEnd' = "sending"
        <5>1. undisturbed["readout"] => status # <<>>
          BY <2>1, <2>12 DEF StartAt
        <5>2. status # <<>> => Flight # <<>>
          BY FlightEmpty
        <5>3. undisturbed["readout"] => command = NoCommand /\ frontEnd = "sending"
          BY <2>1, <2>12, <5>1, <5>2 DEF StartAt
        <5> QED BY <3>1, <5>3 DEF cardVars
      <4> QED BY <1>2, <4>3, <4>4 DEF StartInv
    <3> QED BY <3>1, <3>2, <3>3
  <2> QED BY <2>9, <2>10, <2>11, <2>12
<1> QED BY <1>4, <1>5

LEMMA StartKept ==
  ASSUME DdlTypes, StartInv, [DdlNext]_ddlVars, DdlTypes'
  PROVE  StartInv'
<1>1. CASE UNCHANGED ddlVars
  BY <1>1 DEF ddlVars, StartInv, StartAt, IsAt, Silence, Flight
<1>2. CASE StartDma \/ StopDma \/ ResetChannel \/ BeginTool
  BY <1>2, BeginStart
<1>3. CASE \E u \in User : DdlStep(u)
  BY <1>3, ToolStepStart, ReadoutStepStart DEF User
<1>4. CASE Execute \/ Arrive \/ LinkChanges
  BY <1>4, CardStepStart
<1> QED BY <1>1, <1>2, <1>3, <1>4 DEF DdlNext, DdlRests

-----------------------------------------------------------------------------
(* The calls of class Crorc.                                               *)
FarSame == UNCHANGED <<command, Flight, siuLoop, frontEnd, oldSiu>> /\ (status # <<>> => status' # <<>>)

LEMMA SameAsked ==
  ASSUME FarSame, UNCHANGED info, NEW k, AskedForStatus(k)
  PROVE  AskedForStatus(k)'
BY DEF FarSame, AskedForStatus, Silence, TwoWords, OneWord, BitsAreRight

LEMMA SameStatus ==
  ASSUME FarSame, UNCHANGED info, script'["tool"] = script["tool"], StatusInv
  PROVE  StatusInv'
<1>1. ASSUME NEW n \in 1 .. Len(HwId) + 1, NEW k \in 1 .. 7, CharAt(n, k) PROVE CharAt(n, k)'
  BY <1>1 DEF FarSame, CharAt, IsAt, CharsRead, Silence, TwoWords, OneWord
<1>2. ASSUME NEW k \in 1 .. 6, StatusAt(k) PROVE StatusAt(k)'
  BY <1>2, SameAsked DEF StatusAt, IsAt, CharsRead
<1>3. StatusTold => StatusTold'
  BY DEF FarSame, StatusTold, CharsRead, BitsAreRight
<1> QED BY <1>1, <1>2, <1>3 DEF StatusInv

LEMMA SameLoopBack ==
  ASSUME FarSame, UNCHANGED info, script'["tool"] = script["tool"], LoopBackInv
  PROVE  LoopBackInv'
<1>1. ASSUME NEW k \in 1 .. 5, LoopAt(k) PROVE LoopAt(k)'
  BY <1>1 DEF FarSame, LoopAt, IsAt, Silence, OneWord
<1>2. ASSUME NEW k \in 1 .. 6, LoopStatusAt(k) PROVE LoopStatusAt(k)'
  BY <1>2, SameAsked DEF FarSame, LoopStatusAt, IsAt
<1>3. ASSUME NEW k \in 1 .. 5, AgainAt(k) PROVE AgainAt(k)'
  BY <1>3 DEF FarSame, AgainAt, IsAt, Silence
<1>5. ASSUME NEW k \in 1 .. 5, IsAt("tool", TestMode, k) PROVE IsAt("tool", TestMode, k)'
  BY <1>5 DEF IsAt
<1>6. IsAt("tool", Step("fail", NoCommand), 1) => IsAt("tool", Step("fail", NoCommand), 1)'
  BY DEF IsAt
<1>7. LoopIsOn => LoopIsOn'
  BY DEF FarSame, LoopIsOn
<1> QED BY <1>1, <1>2, <1>3, <1>5, <1>6, <1>7 DEF LoopBackInv

(* A command that is carried out when no word is on its way.               *)
LEMMA AnswersAlone ==
  ASSUME DdlTypes, Execute, ~LoseWords, Flight = <<>>
  PROVE  /\ Flight' = Answers(command) /\ command' = NoCommand
         /\ frontEnd' = CASE command.code = "RDYRX" -> "sending"
                          [] command.code = "EOBTR" -> "idle"
                          [] OTHER                  -> frontEnd
         /\ siuLoop' = CASE command.code = "TSTMODE" -> TRUE
                         [] command = Cmd("SIU", "IFLOOP") /\ ~oldSiu -> ~siuLoop
                         [] OTHER -> siuLoop
         /\ UNCHANGED <<oldSiu, info, script>>
<1>1. status = <<>> /\ answering = <<>>
  BY FlightEmpty
<1>2. status' = status /\ answering' = answering \o Answers(command)
  BY DEF Execute
<1>3. Answers(command) \in Seq(StatusWords)
  BY AnswerTypes DEF DdlTypes, WordTypes
<1>4. <<>> \o (<<>> \o Answers(command)) = Answers(command)
  BY <1>3, ConcatEmptySeq
<1>5. Flight' = Answers(command)
  BY <1>1, <1>2, <1>4 DEF Flight
<1> QED BY <1>5 DEF Execute

LEMMA AskedIsAnswered ==
  ASSUME DdlTypes, Execute, ~LoseWords, NEW k \in 1 .. 6, AskedForStatus(k)
  PROVE  AskedForStatus(k)'
<1>1. command # NoCommand
  BY DEF Execute
<1>2. k \in {4, 5} /\ command = StatusCmd /\ Flight = <<>>
  BY <1>1 DEF AskedForStatus, Silence, OneWord, TwoWords
<1>3. command.code = "RandCIFST" /\ command.dest = "SIU" /\ command # Cmd("SIU", "IFLOOP")
  BY <1>2 DEF StatusCmd, Command, Cmd
<1>4. /\ Flight' = Answers(command) /\ command' = NoCommand
      /\ frontEnd' = frontEnd /\ siuLoop' = siuLoop
  BY <1>2, <1>3, AnswersAlone
<1>5. PICK v \in SUBSET SiuBits : v = StatusBits(command)
  BY AnswerTypes DEF DdlTypes, WordTypes
<1>6. Answers(command) = <<Word(StatusCmd, "IFSTW", v), Ended(StatusCmd)>>
  BY <1>2, <1>3, <1>5 DEF Answers, Ended
<1>7. ("LBMOD" \in v <=> siuLoop) /\ ("OPTRAN" \in v <=> frontEnd = "sending")
  BY <1>3, <1>5 DEF StatusBits
<1>8. BitsAreRight(v)'
  BY <1>4, <1>7 DEF BitsAreRight
<1>9. TwoWords(Word(StatusCmd, "IFSTW", v), Ended(StatusCmd))'
  BY <1>4, <1>6 DEF TwoWords
<1> QED BY <1>2, <1>5, <1>8, <1>9 DEF AskedForStatus

LEMMA StatusAnswered ==
  ASSUME DdlTypes, Execute, ~LoseWords, StatusInv
  PROVE  StatusInv'
<1>1. command # NoCommand /\ script' = script /\ info' = info
  BY DEF Execute
<1>2. ASSUME NEW n \in 1 .. Len(HwId) + 1, NEW k \in 1 .. 7, CharAt(n, k) PROVE CharAt(n, k)'
  <2>1. k \in {4, 5} /\ command = CharCmd(n) /\ Flight = <<>>
    BY <1>1, <1>2 DEF CharAt, Silence, OneWord, TwoWords
  <2>2. Flight' = Answers(command) /\ command' = NoCommand
    BY <2>1, AnswersAlone
  <2>3. Answers(command) = <<Word(CharCmd(n), "HWSTW", HwChar(n)), Ended(CharCmd(n))>>
    BY <2>1 DEF Answers, Ended, CharCmd, Command
  <2>4. TwoWords(Word(CharCmd(n), "HWSTW", HwChar(n)), Ended(CharCmd(n)))'
    BY <2>2, <2>3 DEF TwoWords
  <2>5. IsAt("tool", HwQuery(n), k)' /\ CharsRead(IF k <= 5 THEN n - 1 ELSE n)'
    BY <1>1, <1>2 DEF CharAt, IsAt, CharsRead
  <2> QED BY <2>1, <2>4, <2>5 DEF CharAt
<1>3. ASSUME NEW k \in 1 .. 6, StatusAt(k) PROVE StatusAt(k)'
  BY <1>1, <1>3, AskedIsAnswered DEF StatusAt, IsAt, CharsRead
<1>4. ~StatusTold
  BY <1>1 DEF StatusTold
<1> QED BY <1>2, <1>3, <1>4 DEF StatusInv

LEMMA LoopBackAnswered ==
  ASSUME DdlTypes, Execute, ~LoseWords, LoopBackInv
  PROVE  LoopBackInv'
<1>1. command # NoCommand /\ script' = script /\ info' = info /\ oldSiu' = oldSiu /\ status' = status
  BY DEF Execute
<1>2. command = LoopCmd /\ Flight = <<>> =>
        /\ command' = NoCommand
        /\ oldSiu => Flight' = <<Word(LoopCmd, "ILCMD", 0)>>
        /\ ~oldSiu => Flight' = <<Ended(LoopCmd)>> /\ siuLoop' = ~siuLoop
  <2> SUFFICES ASSUME command = LoopCmd, Flight = <<>>
               PROVE  /\ command' = NoCommand
                      /\ oldSiu => Flight' = <<Word(LoopCmd, "ILCMD", 0)>>
                      /\ ~oldSiu => Flight' = <<Ended(LoopCmd)>> /\ siuLoop' = ~siuLoop
    OBVIOUS
  <2>1. command.code = "IFLOOP" /\ command.dest = "SIU" /\ command = Cmd("SIU", "IFLOOP")
    BY DEF LoopCmd, Cmd, Command
  <2>2. /\ Flight' = Answers(command) /\ command' = NoCommand
        /\ siuLoop' = CASE command.code = "TSTMODE" -> TRUE
                        [] command = Cmd("SIU", "IFLOOP") /\ ~oldSiu -> ~siuLoop
                        [] OTHER -> siuLoop
    BY AnswersAlone
  <2>3. Answers(command) = IF oldSiu THEN <<Word(LoopCmd, "ILCMD", 0)>> ELSE <<Ended(LoopCmd)>>
    BY <2>1 DEF Answers, Ended
  <2> QED BY <2>1, <2>2, <2>3
<1>3. ASSUME NEW k \in 1 .. 5, LoopAt(k) PROVE LoopAt(k)'
  <2>1. k \in {4, 5} /\ command = LoopCmd /\ Flight = <<>>
    BY <1>1, <1>3 DEF LoopAt, Silence, OneWord
  <2>2. OneWord(Word(LoopCmd, "ILCMD", 0))' \/ (OneWord(Ended(LoopCmd))' /\ ~oldSiu')
    BY <1>1, <1>2, <2>1 DEF OneWord
  <2>3. IsAt("tool", LoopScript, k)'
    BY <1>1, <1>3 DEF LoopAt, IsAt
  <2> QED BY <2>1, <2>2, <2>3 DEF LoopAt
<1>4. ASSUME NEW k \in 1 .. 6, LoopStatusAt(k) PROVE LoopStatusAt(k)'
  BY <1>1, <1>4, AskedIsAnswered DEF LoopStatusAt, IsAt
<1>5. ASSUME NEW k \in 1 .. 5, AgainAt(k) PROVE AgainAt(k)'
  <2>1. k \in {4, 5} /\ command = LoopCmd /\ Flight = <<>> /\ ~siuLoop /\ ~oldSiu
        /\ (k = 5 => status # <<>>)
    BY <1>1, <1>5 DEF AgainAt, Silence
  <2>2. command' = NoCommand /\ siuLoop' /\ ~oldSiu' /\ (k = 5 => status' # <<>>)
    BY <1>1, <1>2, <2>1
  <2>3. IsAt("tool", Ask(LoopCmd, "ignored"), k)'
    BY <1>1, <1>5 DEF AgainAt, IsAt
  <2> QED BY <2>1, <2>2, <2>3 DEF AgainAt
<1>6. ASSUME NEW k \in 1 .. 5, IsAt("tool", TestMode, k) PROVE IsAt("tool", TestMode, k)'
  BY <1>1, <1>6 DEF IsAt
<1>7. IsAt("tool", Step("fail", NoCommand), 1) => IsAt("tool", Step("fail", NoCommand), 1)'
  BY <1>1 DEF IsAt
<1>8. ~LoopIsOn
  BY <1>1 DEF LoopIsOn
<1> QED BY <1>3, <1>4, <1>5, <1>6, <1>7, <1>8 DEF LoopBackInv

(* The words on their way, as a set.                                       *)
LEMMA WordSets ==
  /\ \A s \in Seq(StatusWords), w \in StatusWords : WordsOf(Append(s, w)) = WordsOf(s) \cup {w}
  /\ \A s \in Seq(StatusWords) : s # <<>> => /\ Head(s) \in WordsOf(s)
                                             /\ WordsOf(Tail(s)) \subseteq WordsOf(s)
  /\ \A s, t \in Seq(StatusWords) : WordsOf(s \o t) = WordsOf(s) \cup WordsOf(t)
  /\ WordsOf(<<>>) = {}
<1>1. ASSUME NEW s \in Seq(StatusWords), NEW w \in StatusWords
      PROVE  WordsOf(Append(s, w)) = WordsOf(s) \cup {w}
  <2>1. /\ Len(Append(s, w)) = Len(s) + 1 /\ Append(s, w)[Len(s) + 1] = w /\ Len(s) \in Nat
        /\ \A i \in 1 .. Len(s) : Append(s, w)[i] = s[i]
    BY AppendProperties, LenProperties
  <2>2. \A i : i \in 1 .. Len(s) + 1 <=> i \in 1 .. Len(s) \/ i = Len(s) + 1
    BY <2>1
  <2> QED BY <2>1, <2>2 DEF WordsOf
<1>2. ASSUME NEW s \in Seq(StatusWords), s # <<>>
      PROVE  Head(s) \in WordsOf(s) /\ WordsOf(Tail(s)) \subseteq WordsOf(s)
  <2>1. /\ Len(s) \in Nat /\ Len(s) # 0 /\ Len(Tail(s)) = Len(s) - 1
        /\ \A i \in 1 .. Len(Tail(s)) : Tail(s)[i] = s[i + 1]
    BY <1>2, LenProperties, EmptySeq, HeadTailProperties
  <2>2. Head(s) = s[1] /\ 1 \in 1 .. Len(s)
    BY <2>1
  <2>3. \A i \in 1 .. Len(Tail(s)) : i + 1 \in 1 .. Len(s)
    BY <2>1
  <2> QED BY <2>1, <2>2, <2>3 DEF WordsOf
<1>3. ASSUME NEW s \in Seq(StatusWords), NEW t \in Seq(StatusWords)
      PROVE  WordsOf(s \o t) = WordsOf(s) \cup WordsOf(t)
  <2>1. /\ Len(s \o t) = Len(s) + Len(t) /\ Len(s) \in Nat /\ Len(t) \in Nat
        /\ \A i \in 1 .. Len(s) + Len(t) : (s \o t)[i] = IF i <= Len(s) THEN s[i] ELSE t[i - Len(s)]
    BY ConcatProperties, LenProperties
  <2>2. ASSUME NEW i \in 1 .. Len(s \o t)
        PROVE  (s \o t)[i] \in WordsOf(s) \cup WordsOf(t)
    <3>1. CASE i <= Len(s)
      BY <2>1, <3>1 DEF WordsOf
    <3>2. CASE ~(i <= Len(s))
      <4>1. i - Len(s) \in 1 .. Len(t) /\ (s \o t)[i] = t[i - Len(s)]
        BY <2>1, <3>2
      <4> QED BY <4>1 DEF WordsOf
    <3> QED BY <3>1, <3>2
  <2>3. ASSUME NEW i \in 1 .. Len(s)
        PROVE  s[i] \in WordsOf(s \o t)
    <3>1. i \in 1 .. Len(s \o t) /\ (s \o t)[i] = s[i]
      BY <2>1
    <3> QED BY <3>1 DEF WordsOf
  <2>4. ASSUME NEW i \in 1 .. Len(t)
        PROVE  t[i] \in WordsOf(s \o t)
    <3>1. Len(s) + i \in 1 .. Len(s \o t) /\ ~(Len(s) + i <= Len(s)) /\ Len(s) + i - Len(s) = i
      BY <2>1
    <3>2. (s \o t)[Len(s) + i] = t[i]
      BY <2>1, <3>1
    <3> QED BY <3>1, <3>2 DEF WordsOf
  <2> QED BY <2>2, <2>3, <2>4 DEF WordsOf
<1>4. WordsOf(<<>>) = {}
  BY DEF WordsOf
<1> QED BY <1>1, <1>2, <1>3, <1>4

LEMMA AnswersAreMine ==
  ASSUME NEW cmd \in DdlCommands, NEW w \in WordsOf(Answers(cmd))
  PROVE  w.mine = TRUE /\ (w.code = "IFSTW" => cmd.code = "RandCIFST" /\ w.trid = cmd.trid)
<1> DEFINE v == Word(cmd, "IFSTW", StatusBits(cmd))
           e == Word(cmd, "CTSTW", 0)
           h == Word(cmd, "HWSTW", HwChar(cmd.addr))
           i == Word(cmd, "ILCMD", 0)
<1>1. /\ v.mine = TRUE /\ v.trid = cmd.trid
      /\ e.mine = TRUE /\ e.code # "IFSTW" /\ h.mine = TRUE /\ h.code # "IFSTW"
      /\ i.mine = TRUE /\ i.code # "IFSTW"
  BY DEF Word
<1>2. \/ cmd.code = "RHWVER" /\ Answers(cmd) = <<h, e>>
      \/ cmd.code = "RandCIFST" /\ Answers(cmd) = <<v, e>>
      \/ Answers(cmd) = <<i>> \/ Answers(cmd) = <<e>>
  BY DEF Answers
<1> HIDE DEF v, e, h, i
<1>3. \/ w = h \/ w = e \/ w = i
      \/ w = v /\ cmd.code = "RandCIFST"
  <2>1. \A a, b : WordsOf(<<a, b>>) = {a, b}
    <3> TAKE a, b
    <3>1. \A j : j \in 1 .. 2 <=> j = 1 \/ j = 2
      OBVIOUS
    <3>2. Len(<<a, b>>) = 2 /\ <<a, b>>[1] = a /\ <<a, b>>[2] = b
      OBVIOUS
    <3> QED BY <3>1, <3>2 DEF WordsOf
  <2>2. \A a : WordsOf(<<a>>) = {a}
    <3> TAKE a
    <3>1. \A j : j \in 1 .. 1 <=> j = 1
      OBVIOUS
    <3>2. Len(<<a>>) = 1 /\ <<a>>[1] = a
      OBVIOUS
    <3> QED BY <3>1, <3>2 DEF WordsOf
  <2> QED BY <1>2, <2>1, <2>2
<1> QED BY <1>1, <1>3

LEMMA CardWords ==
  ASSUME DdlTypes, Execute \/ Arrive \/ LinkChanges
  PROVE  /\ command' = command \/ command' = NoCommand
         /\ \A w \in OnTheirWay' : \/ w \in OnTheirWay
                                   \/ w \in WordsOf(Answers(command))
<1> USE DEF DdlTypes, WordTypes
<1>1. CASE Execute
  <2>1. status' = status /\ (answering' = answering \o Answers(command) \/ answering' = answering)
        /\ command' = NoCommand
    BY <1>1 DEF Execute
  <2>2. WordsOf(answering \o Answers(command)) = WordsOf(answering) \cup WordsOf(Answers(command))
    BY AnswerTypes, WordSets
  <2> QED BY <2>1, <2>2 DEF OnTheirWay
<1>2. CASE Arrive
  <2>1. answering # <<>> /\ status' = Append(status, Head(answering)) /\ answering' = Tail(answering)
        /\ command' = command
    BY <1>2 DEF Arrive
  <2>2. Head(answering) \in StatusWords
    BY <2>1, HeadTailProperties
  <2>3. WordsOf(Append(status, Head(answering))) = WordsOf(status) \cup {Head(answering)}
    BY <2>2, WordSets
  <2>4. Head(answering) \in WordsOf(answering) /\ WordsOf(Tail(answering)) \subseteq WordsOf(answering)
    BY <2>1, WordSets
  <2> QED BY <2>1, <2>3, <2>4 DEF OnTheirWay
<1>3. CASE LinkChanges
  <2>1. status' = status /\ answering' = <<>> /\ command' = command
    BY <1>3 DEF LinkChanges
  <2> QED BY <2>1, WordSets DEF OnTheirWay
<1> QED BY <1>1, <1>2, <1>3

LEMMA CardIds ==
  ASSUME DdlTypes, Execute \/ Arrive \/ LinkChanges, UNCHANGED info
  PROVE  /\ \A n \in Nat : IdsBelow(n) => IdsBelow(n)'
         /\ OwnAreMine => OwnAreMine'
<1>1. /\ command' = command \/ command' = NoCommand
      /\ \A w \in OnTheirWay' : w \in OnTheirWay \/ w \in WordsOf(Answers(command))
  BY CardWords
<1>2. \A w \in WordsOf(Answers(command)) :
        w.mine = TRUE /\ (w.code = "IFSTW" => command.code = "RandCIFST" /\ w.trid = command.trid)
  BY AnswersAreMine DEF DdlTypes, WordTypes
<1>3. NoCommand.code = "none"
  BY DEF NoCommand, Cmd, Command
<1>4. ASSUME NEW n \in Nat, IdsBelow(n) PROVE IdsBelow(n)'
  <2>1. command'.code = "RandCIFST" => command'.trid < n
    BY <1>1, <1>3, <1>4 DEF IdsBelow
  <2>2. ASSUME NEW w \in OnTheirWay', w.code = "IFSTW" PROVE w.trid < n
    BY <1>1, <1>2, <1>4, <2>2 DEF IdsBelow
  <2> QED BY <2>1, <2>2 DEF IdsBelow
<1>5. ASSUME OwnAreMine PROVE OwnAreMine'
  BY <1>1, <1>2, <1>5 DEF OwnAreMine
<1> QED BY <1>4, <1>5

LEMMA TakenType ==
  ASSUME DdlTypes
  PROVE  /\ IdsTaken \in 0 .. 15 /\ info.transid \in 0 .. 15
         /\ info.transid # 15 => IdsTaken = info.transid + 1
         /\ info.transid = 15 => IdsTaken = 0
<1>1. info.transid \in 0 .. 15
  BY DEF DdlTypes, InfoTypes
<1> QED BY <1>1 DEF IdsTaken

LEMMA SameResetSiu ==
  ASSUME DdlTypes, script' = script, info' = info, \A n \in Nat : IdsBelow(n) => IdsBelow(n)',
         OwnAreMine => OwnAreMine', ResetSiuInv
  PROVE  ResetSiuInv'
<1>1. script' = script /\ info' = info
  OBVIOUS
<1>2. /\ \A n \in Nat : IdsBelow(n) => IdsBelow(n)'
      /\ OwnAreMine => OwnAreMine'
  OBVIOUS
<1>3. ASSUME NEW k \in 1 .. 4, ResetAt(k) PROVE ResetAt(k)'
  BY <1>1, <1>2, <1>3 DEF ResetAt, IsAt
<1>4. ASSUME NEW a \in 0 .. Cycles, NEW q \in 1 .. 15, AttemptInv(a, q) PROVE AttemptInv(a, q)'
  <2>1. IdsTaken' = IdsTaken /\ IdsTaken \in Nat /\ info.transid \in Nat
    BY <1>1, TakenType DEF IdsTaken
  <2>2. IdsBelow(IdsTaken) => IdsBelow(IdsTaken)'
    BY <1>2, <2>1 DEF IdsBelow
  <2>3. IdsBelow(info.transid) => IdsBelow(info.transid)'
    BY <1>1, <1>2, <2>1 DEF IdsBelow
  <2>4. IsAt("tool", ResetAttempts, 15 * a + q)'
    BY <1>1, <1>4 DEF AttemptInv, IsAt
  <2> QED BY <1>1, <1>2, <1>4, <2>1, <2>2, <2>3, <2>4 DEF AttemptInv
<1>5. ResetDone => ResetDone'
  BY <1>1 DEF ResetDone
<1> QED BY <1>3, <1>4, <1>5 DEF ResetSiuInv

LEMMA ResetSiuAnswered ==
  ASSUME DdlTypes, Execute \/ Arrive \/ LinkChanges, ResetSiuInv
  PROVE  ResetSiuInv'
<1>1. script' = script /\ info' = info
  BY DEF Execute, Arrive, LinkChanges, dataVars
<1>2. /\ \A n \in Nat : IdsBelow(n) => IdsBelow(n)'
      /\ OwnAreMine => OwnAreMine'
  BY <1>1, CardIds
<1> QED BY <1>1, <1>2, SameResetSiu

LEMMA CardStepTool ==
  ASSUME DdlTypes, ToolCallInv, Execute \/ Arrive \/ LinkChanges
  PROVE  ToolCallInv'
<1>1. /\ UNCHANGED <<script, call, info>>
      /\ undisturbed' = undisturbed \/ LoseWords
  BY DEF Execute, Arrive, LinkChanges, dataVars
<1>2. undisturbed'["tool"] => undisturbed["tool"]
  BY <1>1, NotDisturbed
<1>3. LoseWords => ~undisturbed'["tool"]
  BY DEF LoseWords, DdlTypes, OtherTypes, User
<1>4. CASE LoseWords
  BY <1>3, <1>4 DEF ToolCallInv
<1>5. CASE ~LoseWords
  <2>1. Execute \/ FarSame
    <3>1. CASE Arrive
      <4>1. UNCHANGED <<command, siuLoop, frontEnd, oldSiu>> /\ answering # <<>>
            /\ status' = Append(status, Head(answering)) /\ answering' = Tail(answering)
        BY <3>1 DEF Arrive, cardVars
      <4>2. Flight' = Flight
        BY <4>1, FlightArrives DEF Flight, DdlTypes, WordTypes
      <4>3. status' # <<>>
        <5>1. Head(answering) \in StatusWords /\ status \in Seq(StatusWords)
          BY <4>1, HeadTailProperties DEF DdlTypes, WordTypes
        <5> QED BY <4>1, <5>1, AppendProperties
      <4> QED BY <4>1, <4>2, <4>3 DEF FarSame
    <3>2. CASE LinkChanges
      <4>1. UNCHANGED <<command, siuLoop, frontEnd, oldSiu, status>> /\ answering' = answering
        BY <1>5, <3>2 DEF LinkChanges
      <4> QED BY <4>1 DEF FarSame, Flight
    <3> QED BY <3>1, <3>2
  <2>2. StatusInv => StatusInv'
    BY <1>1, <1>5, <2>1, SameStatus, StatusAnswered
  <2>3. LoopBackInv => LoopBackInv'
    BY <1>1, <1>5, <2>1, SameLoopBack, LoopBackAnswered
  <2>4. ResetSiuInv => ResetSiuInv'
    BY ResetSiuAnswered
  <2> QED BY <1>1, <1>2, <2>2, <2>3, <2>4 DEF ToolCallInv
<1> QED BY <1>4, <1>5

-----------------------------------------------------------------------------
(* The steps of the tool's calls.                                          *)
HwQueryIs(s, n) ==
  /\ s \in Seq(DdlSteps) /\ Len(s) = 7
  /\ s[1].op = "linkUp" /\ s[2].op = "free" /\ s[3] = PutStep(CharCmd(n)) /\ s[3].op = "put"
  /\ s[4].op = "wait" /\ s[5] = CharStep(n) /\ s[5].op = "read"
  /\ s[6].op = "wait" /\ s[7] = CharEndStep(n) /\ s[7].op = "read"
StatusQueryIs(s, use) ==
  /\ s \in Seq(DdlSteps) /\ Len(s) = 6
  /\ s[1].op = "linkUp" /\ s[2].op = "free" /\ s[3] = PutStep(StatusCmd) /\ s[3].op = "put"
  /\ s[4].op = "wait" /\ s[5] = ReadStep({"IFSTW"}, StatusCmd, "interface") /\ s[5].op = "read"
  /\ s[6] = ReadStep(Transmitted, StatusCmd, use) /\ s[6].op = "read"
AskIs(s, use) ==
  /\ s \in Seq(DdlSteps) /\ Len(s) = 5
  /\ s[1].op = "linkUp" /\ s[2].op = "free" /\ s[3] = PutStep(LoopCmd) /\ s[3].op = "put"
  /\ s[4].op = "wait" /\ s[5] = AnyStep(use) /\ s[5].op = "read"
TestModeIs(s) ==
  /\ s \in Seq(DdlSteps) /\ Len(s) = 5
  /\ s[1].op = "linkUp" /\ s[2].op = "free" /\ s[3].op = "put"
  /\ s[4].op = "wait" /\ s[5].op = "fail"
ResetSiuIs(s) ==
  /\ s \in Seq(DdlSteps) /\ Len(s) = 4
  /\ s[1].op = "free" /\ s[2] = PutStep(Cmd("DIU", "SRST")) /\ s[2].op = "put"
  /\ s[3].op = "wait" /\ s[4] = AnyStep("attempts") /\ s[4].op = "read"

LEMMA StepsOfHwQuery ==
  ASSUME NEW n \in Nat
  PROVE  HwQueryIs(HwQuery(n), n) /\ Plain(HwQuery(n))
<1> DEFINE put == PutStep(CharCmd(n))
           read == CharStep(n)
           end == CharEndStep(n)
           s == <<UpStep, FreeStep, put, WaitStep, read, WaitStep, end>>
<1>1. HwQuery(n) = s
  BY HwQuerySteps
<1>2. HwQuery(n) \in Seq(DdlSteps)
  BY ToolScripts
<1>3. /\ UpStep.op = "linkUp" /\ FreeStep.op = "free" /\ put.op = "put" /\ WaitStep.op = "wait"
      /\ read.op = "read" /\ end.op = "read"
  BY DEF UpStep, FreeStep, PutStep, WaitStep, CharStep, CharEndStep, OpStep, ReadStep
<1> HIDE DEF put, read, end
<1>4. /\ Len(s) = 7 /\ s[1] = UpStep /\ s[2] = FreeStep /\ s[3] = put /\ s[4] = WaitStep
      /\ s[5] = read /\ s[6] = WaitStep /\ s[7] = end
  OBVIOUS
<1> HIDE DEF s
<1>5. Plain(s)
  BY <1>3, <1>4 DEF Plain
<1> QED BY <1>1, <1>2, <1>3, <1>4, <1>5 DEF HwQueryIs, put, read, end

LEMMA StepsOfStatusQuery ==
  ASSUME NEW use \in ReadUses
  PROVE  StatusQueryIs(StatusQuery(0, use), use) /\ Plain(StatusQuery(0, use))
<1> DEFINE put == PutStep(StatusCmd)
           read == ReadStep({"IFSTW"}, StatusCmd, "interface")
           end == ReadStep(Transmitted, StatusCmd, use)
           s == <<UpStep, FreeStep, put, WaitStep, read, end>>
<1>1. StatusQuery(0, use) = s
  BY StatusQuerySteps DEF StatusCmd, SiuCmd
<1>2. StatusQuery(0, use) \in Seq(DdlSteps)
  BY ToolScripts
<1>3. /\ UpStep.op = "linkUp" /\ FreeStep.op = "free" /\ put.op = "put" /\ WaitStep.op = "wait"
      /\ read.op = "read" /\ end.op = "read"
  BY DEF UpStep, FreeStep, PutStep, WaitStep, OpStep, ReadStep
<1> HIDE DEF put, read, end
<1>4. /\ Len(s) = 6 /\ s[1] = UpStep /\ s[2] = FreeStep /\ s[3] = put /\ s[4] = WaitStep
      /\ s[5] = read /\ s[6] = end
  OBVIOUS
<1> HIDE DEF s
<1>5. Plain(s)
  BY <1>3, <1>4 DEF Plain
<1> QED BY <1>1, <1>2, <1>3, <1>4, <1>5 DEF StatusQueryIs, put, read, end

LEMMA StepsOfAsk ==
  /\ AskIs(LoopScript, "loop") /\ Plain(LoopScript)
  /\ AskIs(Ask(LoopCmd, "ignored"), "ignored") /\ Plain(Ask(LoopCmd, "ignored"))
<1>1. ASSUME NEW use, NEW s, s \in Seq(DdlSteps),
             s = <<UpStep, FreeStep, PutStep(LoopCmd), WaitStep, AnyStep(use)>>
      PROVE  AskIs(s, use) /\ Plain(s)
  <2> DEFINE put == PutStep(LoopCmd)
             read == AnyStep(use)
             t == <<UpStep, FreeStep, put, WaitStep, read>>
  <2>1. /\ UpStep.op = "linkUp" /\ FreeStep.op = "free" /\ put.op = "put" /\ WaitStep.op = "wait"
        /\ read.op = "read"
    BY DEF UpStep, FreeStep, PutStep, WaitStep, AnyStep, OpStep, ReadStep
  <2>2. s = t
    BY <1>1
  <2> HIDE DEF put, read
  <2>3. /\ Len(t) = 5 /\ t[1] = UpStep /\ t[2] = FreeStep /\ t[3] = put /\ t[4] = WaitStep
        /\ t[5] = read
    OBVIOUS
  <2> HIDE DEF t
  <2>4. Plain(t)
    BY <2>1, <2>3 DEF Plain
  <2> QED BY <1>1, <2>1, <2>2, <2>3, <2>4 DEF AskIs, put, read
<1>2. LoopScript \in Seq(DdlSteps) /\ Ask(LoopCmd, "ignored") \in Seq(DdlSteps)
  BY ToolScripts
<1> QED BY <1>1, <1>2, LoopSteps

LEMMA StepsOfTestMode == TestModeIs(TestMode) /\ Plain(TestMode)
<1> DEFINE put == PutStep(Cmd("SIU", "TSTMODE"))
           s == <<UpStep, FreeStep, put, WaitStep, FailStep>>
<1>1. TestMode = s /\ TestMode \in Seq(DdlSteps)
  BY TestModeSteps, ToolScripts
<1>2. /\ UpStep.op = "linkUp" /\ FreeStep.op = "free" /\ put.op = "put" /\ WaitStep.op = "wait"
      /\ FailStep.op = "fail"
  BY DEF UpStep, FreeStep, PutStep, WaitStep, FailStep, OpStep
<1> HIDE DEF put
<1>3. /\ Len(s) = 5 /\ s[1] = UpStep /\ s[2] = FreeStep /\ s[3] = put /\ s[4] = WaitStep
      /\ s[5] = FailStep
  OBVIOUS
<1> HIDE DEF s
<1>4. Plain(s)
  BY <1>2, <1>3 DEF Plain
<1> QED BY <1>1, <1>2, <1>3, <1>4 DEF TestModeIs

LEMMA StepsOfResetSiu == ResetSiuIs(ResetSiuScript) /\ Plain(ResetSiuScript)
<1> DEFINE put == PutStep(Cmd("DIU", "SRST"))
           read == AnyStep("attempts")
           s == <<FreeStep, put, WaitStep, read>>
<1>1. ResetSiuScript = s /\ ResetSiuScript \in Seq(DdlSteps)
  BY LoopSteps, ToolScripts
<1>2. FreeStep.op = "free" /\ put.op = "put" /\ WaitStep.op = "wait" /\ read.op = "read"
  BY DEF FreeStep, PutStep, WaitStep, AnyStep, OpStep, ReadStep
<1> HIDE DEF put, read
<1>3. Len(s) = 4 /\ s[1] = FreeStep /\ s[2] = put /\ s[3] = WaitStep /\ s[4] = read
  OBVIOUS
<1> HIDE DEF s
<1>4. Plain(s)
  BY <1>2, <1>3 DEF Plain
<1> QED BY <1>1, <1>2, <1>3, <1>4 DEF ResetSiuIs, put, read

LEMMA FromStart ==
  ASSUME NEW rows \in Seq(DdlSteps), Len(rows) > 0, script'["tool"] = rows
  PROVE  IsAt("tool", rows, 1)'
<1>1. Len(rows) \in Nat /\ SubSeq(rows, 1, Len(rows)) = rows
  BY LenProperties, SubSeqFull
<1>2. 1 \in 1 .. Len(rows)
  BY <1>1
<1> QED BY <1>1, <1>2 DEF IsAt

LEMMA BeginTool_ToolCall ==
  ASSUME DdlTypes, DdlTypes', BeginTool
  PROVE  ToolCallInv'
<1>1. PICK name \in DOMAIN ToolCalls : Begin("tool", name, ToolCalls[name])
  BY DEF BeginTool
<1>2. PICK q \in BOOLEAN : q = (status = <<>> /\ answering = <<>> /\ command = NoCommand)
  OBVIOUS
<1>3. /\ info' = [NoInfo EXCEPT !.quiet = q]
      /\ undisturbed' = [readout |-> FALSE, tool |-> script["readout"] = <<>>]
      /\ UNCHANGED <<cardVars, command, answering, status, trigger>>
  BY <1>2 DEF BeginTool
<1>4. info'.chars = <<>> /\ info'.transid = 15 /\ info'.quiet = q
  BY <1>3 DEF NoInfo
<1>5. /\ script'["tool"] = ToolCalls[name] /\ script'["readout"] = script["readout"]
      /\ call'["tool"] = name
  BY <1>1 DEF Begin, DdlTypes, ScriptTypes, User
<1>6. undisturbed'["tool"] => script'["readout"] = <<>>
  <2>1. (script["readout"] = <<>>) \in BOOLEAN
    OBVIOUS
  <2>2. undisturbed'["tool"] = (script["readout"] = <<>>)
    BY <1>3, <2>1, PairType
  <2> QED BY <1>5, <2>2
<1>7. ASSUME info'.quiet
      PROVE  /\ name = "status" => StatusInv'
             /\ name = "loopback" => LoopBackInv'
             /\ name = "resetSiu" => ResetSiuInv'
  <2>1. status' = <<>> /\ answering' = <<>> /\ command' = NoCommand
    BY <1>2, <1>3, <1>4, <1>7
  <2>2. Silence'
    <3>1. Flight' = <<>>
      BY <2>1, ConcatEmptySeq, EmptySeq DEF Flight
    <3> QED BY <2>1, <3>1 DEF Silence
  <2>3. ASSUME name = "status" PROVE StatusInv'
    <3>1. HwQuery(1) \in Seq(DdlSteps) /\ Len(HwQuery(1)) > 0
      BY StepsOfHwQuery DEF HwQueryIs
    <3>2. script'["tool"] = HwQuery(1)
      BY <1>5, <2>3, ToolScripts
    <3>3. IsAt("tool", HwQuery(1), 1)'
      BY <3>1, <3>2, FromStart
    <3>4. CharsRead(0)'
      <4>1. <<>> = [i \in 1 .. 0 |-> HwChar(i)]
        OBVIOUS
      <4> QED BY <1>4, <4>1 DEF CharsRead
    <3>5. (1 - 1) = 0 /\ 1 \in 1 .. 7
      OBVIOUS
    <3>6. CharAt(1, 1)'
      BY <2>2, <3>3, <3>4, <3>5 DEF CharAt
    <3>7. 1 \in 1 .. Len(HwId) + 1
      <4>1. HwId \in Seq(Nat \ {0})
        BY DdlAssumption
      <4> QED BY <4>1, LenProperties
    <3> QED BY <3>5, <3>6, <3>7 DEF StatusInv
  <2>4. ASSUME name = "loopback" PROVE LoopBackInv'
    <3>1. LoopScript \in Seq(DdlSteps) /\ Len(LoopScript) > 0
      BY StepsOfAsk DEF AskIs
    <3>2. script'["tool"] = LoopScript
      BY <1>5, <2>4, ToolScripts
    <3>3. IsAt("tool", LoopScript, 1)'
      BY <3>1, <3>2, FromStart
    <3>4. LoopAt(1)'
      BY <2>2, <3>3 DEF LoopAt
    <3>5. 1 \in 1 .. 5
      OBVIOUS
    <3> QED BY <3>4, <3>5 DEF LoopBackInv
  <2>5. ASSUME name = "resetSiu" PROVE ResetSiuInv'
    <3>1. ResetSiuScript \in Seq(DdlSteps) /\ Len(ResetSiuScript) > 0
      BY StepsOfResetSiu DEF ResetSiuIs
    <3>2. script'["tool"] = ResetSiuScript
      BY <1>5, <2>5, ToolScripts
    <3>3. IsAt("tool", ResetSiuScript, 1)'
      BY <3>1, <3>2, FromStart
    <3>4. IdsBelow(0)'
      <4>1. OnTheirWay' = {}
        BY <2>1, WordSets DEF OnTheirWay
      <4>2. NoCommand.code = "none"
        BY DEF NoCommand, Cmd, Command
      <4> QED BY <2>1, <4>1, <4>2 DEF IdsBelow
    <3>5. ResetAt(1)'
      BY <1>4, <3>3, <3>4 DEF ResetAt
    <3>6. 1 \in 1 .. 4
      OBVIOUS
    <3> QED BY <3>5, <3>6 DEF ResetSiuInv
  <2> QED BY <2>3, <2>4, <2>5
<1> QED BY <1>5, <1>6, <1>7 DEF ToolCallInv

LEMMA BeginsTool ==
  ASSUME DdlTypes, DdlTypes', StartDma \/ StopDma \/ ResetChannel \/ BeginTool
  PROVE  ToolCallInv'
<1>1. CASE StartDma \/ StopDma \/ ResetChannel
  <2>1. CASE StartDma
    <3>1. undisturbed' = [readout |-> script["tool"] = <<>>, tool |-> FALSE]
      BY <2>1 DEF StartDma
    <3>2. (script["tool"] = <<>>) \in BOOLEAN
      OBVIOUS
    <3>3. undisturbed'["tool"] = FALSE
      BY <3>1, <3>2, PairType
    <3> QED BY <3>3 DEF ToolCallInv
  <2>2. CASE StopDma
    <3>1. undisturbed'["tool"] = FALSE
      BY <2>2 DEF StopDma, DdlTypes, OtherTypes, User
    <3> QED BY <3>1 DEF ToolCallInv
  <2>3. CASE ResetChannel
    <3>1. undisturbed' = [readout |-> FALSE, tool |-> FALSE]
      BY <2>3 DEF ResetChannel
    <3>2. undisturbed'["tool"] = FALSE
      BY <3>1
    <3> QED BY <3>2 DEF ToolCallInv
  <2> QED BY <1>1, <2>1, <2>2, <2>3
<1>2. CASE BeginTool
  BY <1>2, BeginTool_ToolCall
<1> QED BY <1>1, <1>2

LEMMA ReadoutStepTool ==
  ASSUME DdlTypes, ToolCallInv, DdlStep("readout")
  PROVE  ToolCallInv'
<1>1. "readout" \in User
  BY DEF User
<1>2. script["readout"] # <<>> /\ (undisturbed' = undisturbed \/ LoseWords)
  BY <1>1, StepFrame
<1>3. ~undisturbed'["tool"]
  BY <1>2, NotDisturbed DEF ToolCallInv
<1> QED BY <1>3 DEF ToolCallInv

(* A tool that reads when nothing is there throws.                         *)
LEMMA NothingToRead ==
  ASSUME NEW rows \in Seq(DdlSteps), NEW k, IsAt("tool", rows, k), DdlStep("tool"), DdlTypes,
         rows[k].op = "read", rows[k].codes # {}, "none" \notin rows[k].codes, status = <<>>
  PROVE  Throw("tool") /\ UNCHANGED <<info, trigger, cardVars, command, answering, status>>
<1>1. "tool" \in User
  BY DEF User
<1>2. /\ status' = IF status = <<>> THEN <<>> ELSE Tail(status)
      /\ UNCHANGED <<cardVars, command, answering>>
      /\ \/ Throw("tool") /\ UNCHANGED <<info, trigger>>
         \/ Matches(TheWord, rows[k])
  BY <1>1, ReadsWord
<1>3. TheWord.code = "none"
  BY DEF TheWord, NoWord, Word
<1>4. ~Matches(TheWord, rows[k])
  BY <1>3 DEF Matches
<1> QED BY <1>2, <1>4

(* A tool that puts a command when no word is on its way.                  *)
LEMMA PutsAlone ==
  ASSUME NEW rows \in Seq(DdlSteps), NEW k, IsAt("tool", rows, k), DdlStep("tool"), DdlTypes,
         Plain(rows), rows[k].op = "put", Flight = <<>>, rows[k].cmd.trid # 16,
         rows[k].cmd \in DdlCommands
  PROVE  /\ Moves("tool", rows, k + 1) /\ command' = rows[k].cmd /\ Flight' = <<>>
         /\ UNCHANGED <<cardVars, info>>
<1> DEFINE cmd == rows[k].cmd
<1>1. "tool" \in User /\ k \in 1 .. Len(rows) /\ Len(rows) \in Nat
  BY AtHead, LenProperties DEF User
<1>2. k < Len(rows) => rows[k + 1].op \notin {"endTry", "endRetry"}
  BY <1>1 DEF Plain
<1>3. /\ Moves("tool", rows, k + 1)
      /\ command' = [cmd EXCEPT !.trid = TridOf(cmd)]
      /\ UNCHANGED <<cardVars, info, trigger, undisturbed>>
      /\ status' = [i \in DOMAIN status |-> [status[i] EXCEPT !.mine = FALSE]]
      /\ answering' = [i \in DOMAIN answering |-> [answering[i] EXCEPT !.mine = FALSE]]
  BY <1>1, <1>2, PutsCommand
<1>4. command' = cmd
  BY <1>3 DEF TridOf, CurrentId, DdlCommands
<1>5. status = <<>> /\ answering = <<>>
  BY FlightEmpty
<1>6. DOMAIN status = {} /\ DOMAIN answering = {}
  BY <1>5
<1>7. status' = <<>> /\ answering' = <<>>
  BY <1>3, <1>6
<1>8. Flight' = <<>>
  BY <1>7, ConcatEmptySeq, EmptySeq DEF Flight
<1> QED BY <1>3, <1>4, <1>8

LEMMA AskedStep ==
  ASSUME DdlTypes, DdlTypes', NEW rows \in Seq(DdlSteps), NEW use, StatusQueryIs(rows, use),
         Plain(rows), NEW k \in 1 .. 6, IsAt("tool", rows, k), AskedForStatus(k), DdlStep("tool")
  PROVE  \/ Leaves("tool")
         \/ /\ k < 6 /\ IsAt("tool", rows, k + 1)' /\ call' = call
            /\ AskedForStatus(k + 1)' /\ info'.chars = info.chars /\ UNCHANGED cardVars
         \/ /\ k = 6 /\ Use("tool", use, TheWord)
            /\ command = NoCommand /\ command' = NoCommand /\ Flight' = <<>> /\ UNCHANGED cardVars
            /\ BitsAreRight(info.bits) /\ info.fresh = TRUE
<1>1. /\ "tool" \in User /\ Len(rows) = 6
  BY DEF User, StatusQueryIs
<1>2. \A j \in 1 .. 6 : Moves("tool", rows, j) => IsAt("tool", rows, j)' /\ call' = call
  BY <1>1 DEF Moves, Reached
<1>3. CASE k \in {1, 2, 4}
  <2>1. rows[k].op \in {"linkUp", "free", "wait", "fail"}
    BY <1>3 DEF StatusQueryIs
  <2>2. NothingElse /\ (Leaves("tool") \/ Moves("tool", rows, k + 1))
    BY <1>1, <2>1, PlainSilentStep
  <2>3. UNCHANGED <<cardVars, info, command, Flight>>
    BY <2>2 DEF NothingElse, Flight
  <2>4. k + 1 \in 1 .. 6 /\ k < 6 /\ (k <= 3 => k + 1 <= 3) /\ k + 1 # 6 /\ (k + 1 \in {4, 5} => k = 4)
    BY <1>3
  <2>5. AskedForStatus(k + 1)'
    BY <2>3, <2>4, <1>3 DEF AskedForStatus, Silence, TwoWords, BitsAreRight, cardVars
  <2> QED BY <1>2, <2>2, <2>3, <2>4, <2>5
<1>4. CASE k = 3
  <2>1. rows[k].op = "put" /\ rows[k].cmd = StatusCmd
    BY <1>4 DEF StatusQueryIs, PutStep, OpStep
  <2>2. StatusCmd.trid # 16 /\ StatusCmd \in DdlCommands
    BY CommandTypes DEF StatusCmd, Command
  <2>3. Flight = <<>>
    BY <1>4 DEF AskedForStatus, Silence
  <2>4. /\ Moves("tool", rows, k + 1) /\ command' = StatusCmd /\ Flight' = <<>>
        /\ UNCHANGED <<cardVars, info>>
    BY <2>1, <2>2, <2>3, PutsAlone
  <2>5. AskedForStatus(4)'
    BY <2>4 DEF AskedForStatus
  <2> QED BY <1>2, <1>4, <2>4, <2>5
<1>5. CASE k = 5
  <2> DEFINE read == rows[5]
  <2>1. /\ read.op = "read" /\ read.codes = {"IFSTW"} /\ read.use = "interface"
    BY <1>5 DEF StatusQueryIs, ReadStep
  <2>2. /\ status' = IF status = <<>> THEN <<>> ELSE Tail(status)
        /\ UNCHANGED <<cardVars, command, answering, undisturbed>>
        /\ \/ Throw("tool")
           \/ Use("tool", "interface", TheWord)
    BY <1>1, <1>5, <2>1, ReadsWord
  <2>3. Throw("tool") => Leaves("tool")
    BY <1>1, ThrowLeaves
  <2>4. CASE status = <<>>
    <3>1. Throw("tool")
      BY <1>5, <2>1, <2>4, NothingToRead
    <3> QED BY <2>3, <3>1
  <2>5. CASE status # <<>> /\ Use("tool", "interface", TheWord)
    <3>1. Flight # <<>>
      BY <2>5, FlightEmpty
    <3>2. PICK v \in SUBSET SiuBits :
             BitsAreRight(v) /\ TwoWords(Word(StatusCmd, "IFSTW", v), Ended(StatusCmd))
      BY <1>5, <3>1 DEF AskedForStatus
    <3>3. /\ TheWord = Word(StatusCmd, "IFSTW", v)
          /\ Tail(status) \o answering = <<Ended(StatusCmd)>> /\ command = NoCommand
      BY <2>5, <3>2, TwoInFlight DEF TwoWords
    <3>4. TheWord.value = v /\ TheWord.mine = TRUE
      BY <3>3 DEF Word
    <3>5. /\ info' = [info EXCEPT !.bits = TheWord.value, !.fresh = TheWord.mine]
          /\ Continue("tool", Tail(script["tool"]))
      BY <2>5 DEF Use
    <3>6. info'.bits = v /\ info'.fresh = TRUE /\ info'.chars = info.chars
      BY <3>4, <3>5 DEF DdlTypes, InfoTypes
    <3>7. OneWord(Ended(StatusCmd))'
      BY <2>2, <2>5, <3>3 DEF OneWord, Flight
    <3>8. BitsAreRight(info.bits)'
      BY <2>2, <3>2, <3>6 DEF BitsAreRight, cardVars
    <3>9. AskedForStatus(6)'
      BY <3>6, <3>7, <3>8 DEF AskedForStatus
    <3>10. Moves("tool", rows, 6)
      <4>1. rows[6].op \notin {"endTry", "endRetry"}
        BY DEF StatusQueryIs
      <4>2. Moves("tool", rows, k + 1)
        BY <1>1, <1>5, <3>5, <4>1, MovesOn
      <4> QED BY <1>5, <4>2
    <3> QED BY <1>2, <1>5, <2>2, <3>6, <3>9, <3>10
  <2> QED BY <2>2, <2>3, <2>4, <2>5
<1>6. CASE k = 6
  <2> DEFINE read == rows[6]
  <2>1. /\ read.op = "read" /\ read.codes = Transmitted /\ read.use = use
    BY <1>6 DEF StatusQueryIs, ReadStep
  <2>2. /\ status' = IF status = <<>> THEN <<>> ELSE Tail(status)
        /\ UNCHANGED <<cardVars, command, answering, undisturbed>>
        /\ \/ Throw("tool")
           \/ Use("tool", use, TheWord)
    BY <1>1, <1>6, <2>1, ReadsWord
  <2>3. Throw("tool") => Leaves("tool")
    BY <1>1, ThrowLeaves
  <2>4. CASE status = <<>>
    <3>1. Transmitted # {} /\ "none" \notin Transmitted
      BY DEF Transmitted
    <3>2. Throw("tool")
      BY <1>6, <2>1, <2>4, <3>1, NothingToRead
    <3> QED BY <2>3, <3>2
  <2>5. CASE status # <<>> /\ Use("tool", use, TheWord)
    <3>1. Flight = <<Ended(StatusCmd)>> /\ command = NoCommand /\ BitsAreRight(info.bits)
          /\ info.fresh = TRUE
      BY <1>6 DEF AskedForStatus, OneWord
    <3>2. Tail(status) \o answering = <<>>
      BY <2>5, <3>1, OneInFlight
    <3>3. Flight' = <<>>
      BY <2>2, <2>5, <3>2 DEF Flight
    <3> QED BY <1>6, <2>2, <2>5, <3>1, <3>3
  <2> QED BY <2>2, <2>3, <2>4, <2>5
<1>7. k \in {1, 2, 4} \/ k = 3 \/ k = 5 \/ k = 6
  OBVIOUS
<1> QED BY <1>3, <1>4, <1>5, <1>6, <1>7

(* o2-roc-siu-status reads a character.                                    *)
LEMMA HwIdFacts ==
  /\ Len(HwId) \in Nat
  /\ \A n \in 1 .. Len(HwId) : HwChar(n) # 0 /\ n < MaxHwId
  /\ HwChar(Len(HwId) + 1) = 0
<1>1. HwId \in Seq(Nat \ {0}) /\ MaxHwId \in Nat /\ Len(HwId) < MaxHwId
  BY DdlAssumption
<1>2. Len(HwId) \in Nat /\ DOMAIN HwId = 1 .. Len(HwId)
  BY <1>1, LenProperties
<1>3. ASSUME NEW n \in 1 .. Len(HwId) PROVE HwChar(n) # 0 /\ n < MaxHwId
  <2>1. HwId[n] \in Nat \ {0}
    BY <1>1, ElementOfSeq
  <2> QED BY <1>1, <1>2, <2>1 DEF HwChar
<1>4. HwChar(Len(HwId) + 1) = 0
  BY <1>2 DEF HwChar
<1> QED BY <1>2, <1>3, <1>4

LEMMA CharacterRead ==
  ASSUME NEW n \in Nat, DdlTypes, CharsRead(n)
  PROVE  /\ Len(info.chars) = n
         /\ n > 0 => info.chars[n] = HwChar(n)
         /\ Append(info.chars, HwChar(n + 1)) = [i \in 1 .. n + 1 |-> HwChar(i)]
<1> DEFINE s == info.chars
           t == [i \in 1 .. n + 1 |-> HwChar(i)]
<1>1. s = [i \in 1 .. n |-> HwChar(i)]
  BY DEF CharsRead
<1>2. s \in Seq(Nat) /\ t \in Seq(Nat)
  <2>1. \A i \in 1 .. n + 1 : HwChar(i) \in Nat
    BY HwCharType
  <2> QED BY <1>1, <2>1
<1>3. DOMAIN s = 1 .. n /\ DOMAIN t = 1 .. n + 1
  BY <1>1
<1>4. Len(s) = n /\ Len(t) = n + 1
  BY <1>2, <1>3, LenProperties
<1>5. \A i \in 1 .. n : s[i] = HwChar(i)
  BY <1>1
<1>6. \A i \in 1 .. n + 1 : t[i] = HwChar(i)
  OBVIOUS
<1> HIDE DEF s, t
<1>7. HwChar(n + 1) \in Nat
  BY HwCharType
<1>8. /\ Append(s, HwChar(n + 1)) \in Seq(Nat) /\ Len(Append(s, HwChar(n + 1))) = n + 1
      /\ \A i \in 1 .. n : Append(s, HwChar(n + 1))[i] = s[i]
      /\ Append(s, HwChar(n + 1))[n + 1] = HwChar(n + 1)
  BY <1>2, <1>4, <1>7, AppendProperties
<1>9. \A i \in 1 .. n + 1 : Append(s, HwChar(n + 1))[i] = t[i]
  <2> TAKE i \in 1 .. n + 1
  <2>1. i \in 1 .. n \/ i = n + 1
    OBVIOUS
  <2> QED BY <1>5, <1>6, <1>8, <2>1
<1>10. Append(s, HwChar(n + 1)) = t
  BY <1>2, <1>4, <1>8, <1>9, SeqEqual
<1>11. n > 0 => n \in 1 .. n
  OBVIOUS
<1> QED BY <1>4, <1>5, <1>10, <1>11 DEF s, t

LEMMA CharStepKept ==
  ASSUME DdlTypes, DdlTypes', NEW n \in 1 .. Len(HwId) + 1, NEW k \in 1 .. 7, CharAt(n, k),
         DdlStep("tool")
  PROVE  Leaves("tool") \/ (call' = call /\ StatusInv')
<1> DEFINE s == HwQuery(n)
<1>0. n \in Nat /\ n - 1 \in Nat /\ n - 1 + 1 = n /\ Len(HwId) \in Nat /\ "tool" \in User
  BY HwIdFacts DEF User
<1>1. HwQueryIs(s, n) /\ Plain(s) /\ s \in Seq(DdlSteps) /\ Len(s) = 7
  BY <1>0, StepsOfHwQuery DEF HwQueryIs
<1>2. IsAt("tool", s, k)
  BY DEF CharAt
<1>3. ASSUME k < 7, Moves("tool", s, k + 1), CharsRead(IF k + 1 <= 5 THEN n - 1 ELSE n)',
             k + 1 <= 3 => Silence',
             k + 1 \in {4, 5} => \/ command' = CharCmd(n) /\ Flight' = <<>>
                                 \/ TwoWords(Word(CharCmd(n), "HWSTW", HwChar(n)), Ended(CharCmd(n)))',
             k + 1 \in {6, 7} => OneWord(Ended(CharCmd(n)))'
      PROVE  call' = call /\ StatusInv'
  <2>1. k + 1 \in 1 .. 7
    BY <1>3
  <2>2. IsAt("tool", s, k + 1)' /\ call' = call
    BY <1>1, <1>3, <2>1 DEF Moves, Reached
  <2>3. CharAt(n, k + 1)'
    BY <1>3, <2>1, <2>2 DEF CharAt
  <2> QED BY <2>1, <2>2, <2>3 DEF StatusInv
<1> HIDE DEF s
<1>4. CASE k \in {1, 2, 4, 6}
  <2>1. s[k].op \in {"linkUp", "free", "wait", "fail"}
    BY <1>1, <1>4 DEF HwQueryIs
  <2>2. NothingElse /\ (Leaves("tool") \/ Moves("tool", s, k + 1))
    BY <1>0, <1>1, <1>2, <2>1, PlainSilentStep
  <2>3. UNCHANGED <<info, command, Flight>>
    BY <2>2 DEF NothingElse, Flight
  <2>4. k < 7 /\ (k + 1 <= 3 <=> k <= 2) /\ (k + 1 \in {4, 5} <=> k = 4)
        /\ (k + 1 \in {6, 7} <=> k = 6) /\ (k <= 2 => k <= 3)
        /\ (k + 1 <= 5 <=> k # 6) /\ (k <= 5 <=> k # 6)
    BY <1>4
  <2>5. CharsRead(IF k + 1 <= 5 THEN n - 1 ELSE n)'
    BY <2>3, <2>4 DEF CharAt, CharsRead
  <2>6. k + 1 <= 3 => Silence'
    BY <2>3, <2>4 DEF CharAt, Silence
  <2>7. k + 1 \in {4, 5} => \/ command' = CharCmd(n) /\ Flight' = <<>>
                            \/ TwoWords(Word(CharCmd(n), "HWSTW", HwChar(n)), Ended(CharCmd(n)))'
    BY <2>3, <2>4 DEF CharAt, TwoWords
  <2>8. k + 1 \in {6, 7} => OneWord(Ended(CharCmd(n)))'
    BY <2>3, <2>4 DEF CharAt, OneWord
  <2> QED BY <1>3, <2>2, <2>4, <2>5, <2>6, <2>7, <2>8
<1>5. CASE k = 3
  <2>1. s[k].op = "put" /\ s[k].cmd = CharCmd(n)
    BY <1>1, <1>5 DEF HwQueryIs, PutStep, OpStep
  <2>2. CharCmd(n).trid # 16 /\ CharCmd(n) \in DdlCommands
    BY <1>0, CommandTypes DEF CharCmd, Command
  <2>3. Flight = <<>> /\ CharsRead(n - 1)
    BY <1>5 DEF CharAt, Silence
  <2>4. /\ Moves("tool", s, k + 1) /\ command' = CharCmd(n) /\ Flight' = <<>>
        /\ UNCHANGED <<cardVars, info>>
    BY <1>1, <1>2, <2>1, <2>2, <2>3, PutsAlone
  <2>5. CharsRead(n - 1)'
    BY <2>3, <2>4 DEF CharsRead
  <2> QED BY <1>3, <1>5, <2>4, <2>5
<1>6. CASE k = 5
  <2>1. s[5].op = "read" /\ s[5].codes = {"HWSTW"} /\ s[5].use = "char"
    BY <1>1 DEF HwQueryIs, CharStep, ReadStep
  <2>2. /\ status' = IF status = <<>> THEN <<>> ELSE Tail(status)
        /\ UNCHANGED <<cardVars, command, answering, undisturbed>>
        /\ \/ Throw("tool")
           \/ Use("tool", "char", TheWord)
    BY <1>0, <1>1, <1>2, <1>6, <2>1, ReadsWord
  <2>3. Throw("tool") => Leaves("tool")
    BY <1>0, <1>1, <1>2, ThrowLeaves
  <2>4. CASE status = <<>>
    <3>1. Throw("tool")
      BY <1>1, <1>2, <1>6, <2>1, <2>4, NothingToRead
    <3> QED BY <2>3, <3>1
  <2>5. CASE status # <<>> /\ Use("tool", "char", TheWord)
    <3>1. Flight # <<>>
      BY <2>5, FlightEmpty
    <3>2. TwoWords(Word(CharCmd(n), "HWSTW", HwChar(n)), Ended(CharCmd(n))) /\ CharsRead(n - 1)
      BY <1>6, <3>1 DEF CharAt
    <3>3. /\ TheWord = Word(CharCmd(n), "HWSTW", HwChar(n))
          /\ Tail(status) \o answering = <<Ended(CharCmd(n))>> /\ command = NoCommand
      BY <2>5, <3>2, TwoInFlight DEF TwoWords
    <3>4. TheWord.value = HwChar(n)
      BY <3>3 DEF Word
    <3>5. /\ info' = [info EXCEPT !.chars = Append(info.chars, HwChar(n))]
          /\ Continue("tool", Tail(script["tool"]))
      BY <2>5, <3>4 DEF Use
    <3>6. info'.chars = Append(info.chars, HwChar(n))
      BY <3>5 DEF DdlTypes, InfoTypes
    <3>7. Append(info.chars, HwChar(n - 1 + 1)) = [i \in 1 .. n - 1 + 1 |-> HwChar(i)]
      BY <1>0, <3>2, CharacterRead
    <3>8. CharsRead(n)'
      BY <1>0, <3>6, <3>7 DEF CharsRead
    <3>9. OneWord(Ended(CharCmd(n)))'
      BY <2>2, <2>5, <3>3 DEF OneWord, Flight
    <3>10. Moves("tool", s, k + 1)
      <4>1. s[k + 1].op \notin {"endTry", "endRetry"}
        BY <1>1, <1>6 DEF HwQueryIs
      <4> QED BY <1>0, <1>1, <1>2, <3>5, <4>1, MovesOn
    <3> QED BY <1>3, <1>6, <3>8, <3>9, <3>10
  <2> QED BY <2>2, <2>3, <2>4, <2>5
<1>7. CASE k = 7
  <2>1. s[7].op = "read" /\ s[7].codes = Transmitted /\ s[7].use = "charEnd"
    BY <1>1 DEF HwQueryIs, CharEndStep, ReadStep
  <2>2. /\ status' = IF status = <<>> THEN <<>> ELSE Tail(status)
        /\ UNCHANGED <<cardVars, command, answering, undisturbed>>
        /\ \/ Throw("tool")
           \/ Use("tool", "charEnd", TheWord)
    BY <1>0, <1>1, <1>2, <1>7, <2>1, ReadsWord
  <2>3. Throw("tool") => Leaves("tool")
    BY <1>0, <1>1, <1>2, ThrowLeaves
  <2>4. CASE status = <<>>
    <3>1. Transmitted # {} /\ "none" \notin Transmitted
      BY DEF Transmitted
    <3>2. Throw("tool")
      BY <1>1, <1>2, <1>7, <2>1, <2>4, <3>1, NothingToRead
    <3> QED BY <2>3, <3>2
  <2>5. CASE status # <<>> /\ Use("tool", "charEnd", TheWord)
    <3>1. Flight = <<Ended(CharCmd(n))>> /\ command = NoCommand /\ CharsRead(n)
      BY <1>7 DEF CharAt, OneWord
    <3>2. Tail(status) \o answering = <<>>
      BY <2>5, <3>1, OneInFlight
    <3>3. Silence'
      BY <2>2, <2>5, <3>1, <3>2 DEF Flight, Silence
    <3>4. Continue("tool", AfterChar) /\ info' = info
      BY <2>5 DEF Use
    <3>5. CharsRead(n)'
      BY <3>1, <3>4 DEF CharsRead
    <3>6. Len(info.chars) = n /\ info.chars[n] = HwChar(n)
      <4>1. n > 0
        BY <1>0
      <4> QED BY <1>0, <3>1, <4>1, CharacterRead
    <3>7. CASE n \in 1 .. Len(HwId)
      <4>1. HwChar(n) # 0 /\ n # MaxHwId
        <5>1. MaxHwId \in Nat
          BY DdlAssumption
        <5> QED BY <1>0, <3>7, <5>1, HwIdFacts
      <4>2. Continue("tool", HwQuery(n + 1))
        BY <3>4, <3>6, <4>1 DEF AfterChar
      <4>3. HwQueryIs(HwQuery(n + 1), n + 1) /\ n + 1 \in 1 .. Len(HwId) + 1 /\ n + 1 - 1 = n
        BY <1>0, <3>7, StepsOfHwQuery
      <4>4. /\ HwQuery(n + 1) \in Seq(DdlSteps) /\ Len(HwQuery(n + 1)) = 7
            /\ HwQuery(n + 1)[1].op \notin {"endTry", "endRetry"}
        BY <4>3 DEF HwQueryIs
      <4>5. Moves("tool", HwQuery(n + 1), 1)
        BY <1>0, <4>2, <4>4, Starts
      <4>6. IsAt("tool", HwQuery(n + 1), 1)' /\ call' = call
        BY <4>4, <4>5 DEF Moves, Reached
      <4>7. CharAt(n + 1, 1)'
        BY <3>3, <3>5, <4>3, <4>6 DEF CharAt
      <4>8. 1 \in 1 .. 7
        OBVIOUS
      <4> QED BY <4>3, <4>6, <4>7, <4>8 DEF StatusInv
    <3>8. CASE n = Len(HwId) + 1
      <4>1. HwChar(n) = 0
        BY <3>8, HwIdFacts
      <4>2. Continue("tool", StatusQuery(0, "done"))
        BY <3>4, <3>6, <4>1 DEF AfterChar
      <4>3. StatusQueryIs(StatusQuery(0, "done"), "done")
        BY StepsOfStatusQuery DEF ReadUses
      <4>4. /\ StatusQuery(0, "done") \in Seq(DdlSteps) /\ Len(StatusQuery(0, "done")) = 6
            /\ StatusQuery(0, "done")[1].op \notin {"endTry", "endRetry"}
        BY <4>3 DEF StatusQueryIs
      <4>5. Moves("tool", StatusQuery(0, "done"), 1)
        BY <1>0, <4>2, <4>4, Starts
      <4>6. IsAt("tool", StatusQuery(0, "done"), 1)' /\ call' = call
        BY <4>4, <4>5 DEF Moves, Reached
      <4>7. StatusAt(1)'
        BY <3>3, <3>5, <3>8, <4>6 DEF StatusAt, AskedForStatus
      <4>8. 1 \in 1 .. 6
        OBVIOUS
      <4> QED BY <4>6, <4>7, <4>8 DEF StatusInv
    <3>9. n \in 1 .. Len(HwId) \/ n = Len(HwId) + 1
      BY <1>0
    <3> QED BY <3>7, <3>8, <3>9
  <2> QED BY <2>2, <2>3, <2>4, <2>5
<1>8. k \in {1, 2, 4, 6} \/ k = 3 \/ k = 5 \/ k = 7
  OBVIOUS
<1> QED BY <1>4, <1>5, <1>6, <1>7, <1>8

LEMMA StatusStepKept ==
  ASSUME DdlTypes, DdlTypes', StatusInv, DdlStep("tool")
  PROVE  Leaves("tool") \/ (call' = call /\ StatusInv')
<1> DEFINE s == StatusQuery(0, "done")
<1>1. ASSUME NEW k \in 1 .. 6, StatusAt(k) PROVE Leaves("tool") \/ (call' = call /\ StatusInv')
  <2>1. "done" \in ReadUses /\ "tool" \in User
    BY DEF ReadUses, User
  <2>2. StatusQueryIs(s, "done") /\ Plain(s)
    BY <2>1, StepsOfStatusQuery
  <2> HIDE DEF s
  <2>3. s \in Seq(DdlSteps) /\ Len(s) = 6
    BY <2>2 DEF StatusQueryIs
  <2>4. IsAt("tool", s, k) /\ AskedForStatus(k) /\ CharsRead(Len(HwId) + 1)
    BY <1>1 DEF StatusAt, s
  <2>5. \/ Leaves("tool")
        \/ /\ k < 6 /\ IsAt("tool", s, k + 1)' /\ call' = call
           /\ AskedForStatus(k + 1)' /\ info'.chars = info.chars /\ UNCHANGED cardVars
        \/ /\ k = 6 /\ Use("tool", "done", TheWord)
           /\ command = NoCommand /\ command' = NoCommand /\ Flight' = <<>> /\ UNCHANGED cardVars
           /\ BitsAreRight(info.bits) /\ info.fresh = TRUE
    BY <2>2, <2>3, <2>4, AskedStep
  <2>6. CASE /\ k < 6 /\ IsAt("tool", s, k + 1)' /\ call' = call
             /\ AskedForStatus(k + 1)' /\ info'.chars = info.chars
    <3>1. k + 1 \in 1 .. 6
      BY <2>6
    <3>2. CharsRead(Len(HwId) + 1)'
      BY <2>4, <2>6 DEF CharsRead
    <3>3. StatusAt(k + 1)'
      BY <2>6, <3>2 DEF StatusAt, s
    <3> QED BY <2>6, <3>1, <3>3 DEF StatusInv
  <2>7. CASE /\ k = 6 /\ Use("tool", "done", TheWord)
             /\ command = NoCommand /\ command' = NoCommand /\ Flight' = <<>> /\ UNCHANGED cardVars
             /\ BitsAreRight(info.bits) /\ info.fresh = TRUE
    <3>1. Continue("tool", Tail(script["tool"])) /\ info' = info
      BY <2>7 DEF Use
    <3>2. Moves("tool", s, k + 1)
      BY <2>1, <2>3, <2>4, <2>7, <3>1, MovesOn
    <3>3. script'["tool"] = <<>> /\ call' = call
      BY <2>3, <2>7, <3>2 DEF Moves, Reached
    <3>4. StatusTold'
      BY <2>4, <2>7, <3>1, <3>3 DEF StatusTold, CharsRead, BitsAreRight, cardVars
    <3> QED BY <3>3, <3>4 DEF StatusInv
  <2> QED BY <2>5, <2>6, <2>7
<1>2. ~StatusTold
  BY StepFrame DEF StatusTold, User
<1> QED BY <1>1, <1>2, CharStepKept DEF StatusInv

(* o2-roc-siu-loopback: the first command, and its status word.            *)
LEMMA LoopStepKept ==
  ASSUME DdlTypes, DdlTypes', NEW k \in 1 .. 5, LoopAt(k), DdlStep("tool")
  PROVE  Leaves("tool") \/ (call' = call /\ LoopBackInv')
<1> DEFINE s == LoopScript
<1>0. "tool" \in User
  BY DEF User
<1>1. AskIs(s, "loop") /\ Plain(s) /\ s \in Seq(DdlSteps) /\ Len(s) = 5
  BY StepsOfAsk DEF AskIs
<1>2. IsAt("tool", s, k)
  BY DEF LoopAt
<1>3. ASSUME k < 5, Moves("tool", s, k + 1), k + 1 <= 3 => Silence',
             k + 1 \in {4, 5} => \/ command' = LoopCmd /\ Flight' = <<>>
                                 \/ OneWord(Word(LoopCmd, "ILCMD", 0))'
                                 \/ OneWord(Ended(LoopCmd))' /\ ~oldSiu'
      PROVE  call' = call /\ LoopBackInv'
  <2>1. k + 1 \in 1 .. 5
    BY <1>3
  <2>2. IsAt("tool", s, k + 1)' /\ call' = call
    BY <1>1, <1>3, <2>1 DEF Moves, Reached
  <2>3. LoopAt(k + 1)'
    BY <1>3, <2>1, <2>2 DEF LoopAt
  <2> QED BY <2>1, <2>2, <2>3 DEF LoopBackInv
<1> HIDE DEF s
<1>4. CASE k \in {1, 2, 4}
  <2>1. s[k].op \in {"linkUp", "free", "wait", "fail"}
    BY <1>1, <1>4 DEF AskIs
  <2>2. NothingElse /\ (Leaves("tool") \/ Moves("tool", s, k + 1))
    BY <1>0, <1>1, <1>2, <2>1, PlainSilentStep
  <2>3. UNCHANGED <<cardVars, command, Flight>>
    BY <2>2 DEF NothingElse, Flight
  <2>4. k < 5 /\ (k + 1 <= 3 <=> k <= 2) /\ (k + 1 \in {4, 5} <=> k = 4) /\ (k <= 2 => k <= 3)
    BY <1>4
  <2>5. k + 1 <= 3 => Silence'
    BY <2>3, <2>4 DEF LoopAt, Silence
  <2>6. k + 1 \in {4, 5} => \/ command' = LoopCmd /\ Flight' = <<>>
                            \/ OneWord(Word(LoopCmd, "ILCMD", 0))'
                            \/ OneWord(Ended(LoopCmd))' /\ ~oldSiu'
    BY <2>3, <2>4 DEF LoopAt, OneWord, cardVars
  <2> QED BY <1>3, <2>2, <2>4, <2>5, <2>6
<1>5. CASE k = 3
  <2>1. s[k].op = "put" /\ s[k].cmd = LoopCmd
    BY <1>1, <1>5 DEF AskIs, PutStep, OpStep
  <2>2. LoopCmd.trid # 16 /\ LoopCmd \in DdlCommands
    BY CommandTypes DEF LoopCmd, Cmd, Command
  <2>3. Flight = <<>>
    BY <1>5 DEF LoopAt, Silence
  <2>4. Moves("tool", s, k + 1) /\ command' = LoopCmd /\ Flight' = <<>>
    BY <1>1, <1>2, <2>1, <2>2, <2>3, PutsAlone
  <2> QED BY <1>3, <1>5, <2>4
<1>6. CASE k = 5
  <2>1. s[5].op = "read" /\ s[5].use = "loop"
    BY <1>1 DEF AskIs, AnyStep, ReadStep
  <2>2. /\ status' = IF status = <<>> THEN <<>> ELSE Tail(status)
        /\ UNCHANGED <<cardVars, command, answering, undisturbed>>
        /\ \/ Throw("tool")
           \/ Use("tool", "loop", TheWord)
    BY <1>0, <1>1, <1>2, <1>6, <2>1, ReadsWord
  <2>3. Throw("tool") => Leaves("tool")
    BY <1>0, <1>1, <1>2, ThrowLeaves
  <2>4. CASE Use("tool", "loop", TheWord)
    <3>1. Continue("tool", AfterLoopCommand(TheWord)) /\ info' = info
      BY <2>4 DEF Use
    <3>2. CASE status = <<>>
      <4>1. TheWord.code = "none"
        BY <3>2 DEF TheWord, NoWord, Word
      <4> DEFINE fails == <<FailStep>>
      <4>2. Continue("tool", fails) /\ fails = Step("fail", NoCommand)
        BY <3>1, <4>1, FailTypes DEF AfterLoopCommand
      <4>3. fails \in Seq(DdlSteps) /\ Len(fails) = 1 /\ fails[1].op \notin {"endTry", "endRetry"}
        BY FailTypes DEF FailStep, OpStep
      <4> HIDE DEF fails
      <4>4. Moves("tool", fails, 1)
        BY <1>0, <4>2, <4>3, Starts
      <4>5. IsAt("tool", fails, 1)' /\ call' = call
        BY <4>3, <4>4 DEF Moves, Reached
      <4> QED BY <4>2, <4>5 DEF LoopBackInv
    <3>3. CASE status # <<>>
      <4>1. Flight # <<>>
        BY <3>3, FlightEmpty
      <4>2. CASE OneWord(Word(LoopCmd, "ILCMD", 0))
        <5>1. TheWord = Word(LoopCmd, "ILCMD", 0)
          BY <3>3, <4>2, OneInFlight DEF OneWord
        <5>2. TheWord.code = "ILCMD"
          BY <5>1 DEF Word
        <5>3. Continue("tool", TestMode)
          BY <3>1, <5>2 DEF AfterLoopCommand, TestMode
        <5>4. TestMode \in Seq(DdlSteps) /\ Len(TestMode) = 5
              /\ TestMode[1].op \notin {"endTry", "endRetry"}
          BY StepsOfTestMode DEF TestModeIs
        <5>5. Moves("tool", TestMode, 1)
          BY <1>0, <5>3, <5>4, Starts
        <5>6. IsAt("tool", TestMode, 1)' /\ call' = call
          BY <5>4, <5>5 DEF Moves, Reached
        <5>7. 1 \in 1 .. 5
          OBVIOUS
        <5> QED BY <5>6, <5>7 DEF LoopBackInv
      <4>3. CASE OneWord(Ended(LoopCmd)) /\ ~oldSiu
        <5>1. /\ TheWord = Ended(LoopCmd) /\ Tail(status) \o answering = <<>>
              /\ command = NoCommand
          BY <3>3, <4>3, OneInFlight DEF OneWord
        <5>2. TheWord.code = "CTSTW"
          BY <5>1 DEF Ended, Word
        <5>3. Continue("tool", StatusQuery(0, "loopDone"))
          BY <3>1, <5>2 DEF AfterLoopCommand
        <5>4. StatusQueryIs(StatusQuery(0, "loopDone"), "loopDone")
          BY StepsOfStatusQuery DEF ReadUses
        <5>5. /\ StatusQuery(0, "loopDone") \in Seq(DdlSteps) /\ Len(StatusQuery(0, "loopDone")) = 6
              /\ StatusQuery(0, "loopDone")[1].op \notin {"endTry", "endRetry"}
          BY <5>4 DEF StatusQueryIs
        <5>6. Moves("tool", StatusQuery(0, "loopDone"), 1)
          BY <1>0, <5>3, <5>5, Starts
        <5>7. IsAt("tool", StatusQuery(0, "loopDone"), 1)' /\ call' = call
          BY <5>5, <5>6 DEF Moves, Reached
        <5>8. Silence'
          BY <2>2, <3>3, <5>1 DEF Silence, Flight
        <5>9. LoopStatusAt(1)'
          BY <2>2, <4>3, <5>7, <5>8 DEF LoopStatusAt, AskedForStatus, cardVars
        <5>10. 1 \in 1 .. 6
          OBVIOUS
        <5> QED BY <5>7, <5>9, <5>10 DEF LoopBackInv
      <4> QED BY <1>6, <4>1, <4>2, <4>3 DEF LoopAt
    <3> QED BY <3>2, <3>3
  <2> QED BY <2>2, <2>3, <2>4
<1>7. k \in {1, 2, 4} \/ k = 3 \/ k = 5
  OBVIOUS
<1> QED BY <1>4, <1>5, <1>6, <1>7

(* The SIU's status after it.                                              *)
LEMMA LoopStatusStepKept ==
  ASSUME DdlTypes, DdlTypes', NEW k \in 1 .. 6, LoopStatusAt(k), DdlStep("tool")
  PROVE  Leaves("tool") \/ (call' = call /\ LoopBackInv')
<1> DEFINE s == StatusQuery(0, "loopDone")
<1>1. "loopDone" \in ReadUses /\ "tool" \in User
  BY DEF ReadUses, User
<1>2. StatusQueryIs(s, "loopDone") /\ Plain(s)
  BY <1>1, StepsOfStatusQuery
<1> HIDE DEF s
<1>3. s \in Seq(DdlSteps) /\ Len(s) = 6
  BY <1>2 DEF StatusQueryIs
<1>4. IsAt("tool", s, k) /\ AskedForStatus(k) /\ ~oldSiu
  BY DEF LoopStatusAt, s
<1>5. \/ Leaves("tool")
      \/ /\ k < 6 /\ IsAt("tool", s, k + 1)' /\ call' = call
         /\ AskedForStatus(k + 1)' /\ info'.chars = info.chars /\ UNCHANGED cardVars
      \/ /\ k = 6 /\ Use("tool", "loopDone", TheWord)
         /\ command = NoCommand /\ command' = NoCommand /\ Flight' = <<>> /\ UNCHANGED cardVars
         /\ BitsAreRight(info.bits) /\ info.fresh = TRUE
  BY <1>2, <1>3, <1>4, AskedStep
<1>6. CASE /\ k < 6 /\ IsAt("tool", s, k + 1)' /\ call' = call
           /\ AskedForStatus(k + 1)' /\ UNCHANGED cardVars
  <2>1. k + 1 \in 1 .. 6
    BY <1>6
  <2>2. LoopStatusAt(k + 1)'
    BY <1>4, <1>6 DEF LoopStatusAt, s, cardVars
  <2> QED BY <1>6, <2>1, <2>2 DEF LoopBackInv
<1>7. CASE /\ Use("tool", "loopDone", TheWord) /\ command' = NoCommand /\ Flight' = <<>>
           /\ UNCHANGED cardVars /\ BitsAreRight(info.bits)
  <2>1. Continue("tool", AfterLoopStatus)
    BY <1>7 DEF Use
  <2>2. siuLoop' = siuLoop /\ oldSiu' = oldSiu /\ ("LBMOD" \in info.bits <=> siuLoop)
    BY <1>7 DEF BitsAreRight, cardVars
  <2>3. CASE siuLoop
    <3>1. Continue("tool", <<>>)
      BY <2>1, <2>2, <2>3 DEF AfterLoopStatus
    <3>2. script'["tool"] = <<>> /\ call' = call
      BY <1>1, <3>1 DEF Continue, DdlTypes, ScriptTypes
    <3>3. LoopIsOn'
      BY <1>7, <2>2, <2>3, <3>2 DEF LoopIsOn
    <3> QED BY <3>2, <3>3 DEF LoopBackInv
  <2>4. CASE ~siuLoop
    <3> DEFINE again == Ask(LoopCmd, "ignored")
    <3>1. Continue("tool", again)
      BY <2>1, <2>2, <2>4 DEF AfterLoopStatus, LoopCmd
    <3>2. AskIs(again, "ignored")
      BY StepsOfAsk
    <3> HIDE DEF again
    <3>3. again \in Seq(DdlSteps) /\ Len(again) = 5 /\ again[1].op \notin {"endTry", "endRetry"}
      BY <3>2 DEF AskIs
    <3>4. Moves("tool", again, 1)
      BY <1>1, <3>1, <3>3, Starts
    <3>5. IsAt("tool", again, 1)' /\ call' = call
      BY <3>3, <3>4 DEF Moves, Reached
    <3>6. AgainAt(1)'
      BY <1>4, <1>7, <2>2, <2>4, <3>5 DEF AgainAt, Silence, again
    <3>7. 1 \in 1 .. 5
      OBVIOUS
    <3> QED BY <3>5, <3>6, <3>7 DEF LoopBackInv
  <2> QED BY <2>3, <2>4
<1> QED BY <1>5, <1>6, <1>7

(* The second command: the first had switched the loop-back off.           *)
LEMMA AgainStepKept ==
  ASSUME DdlTypes, DdlTypes', NEW k \in 1 .. 5, AgainAt(k), DdlStep("tool")
  PROVE  Leaves("tool") \/ (call' = call /\ LoopBackInv')
<1> DEFINE s == Ask(LoopCmd, "ignored")
<1>0. "tool" \in User
  BY DEF User
<1>1. AskIs(s, "ignored") /\ Plain(s) /\ s \in Seq(DdlSteps) /\ Len(s) = 5
  BY StepsOfAsk DEF AskIs
<1>2. IsAt("tool", s, k) /\ ~oldSiu
  BY DEF AgainAt
<1> HIDE DEF s
<1>3. ASSUME k < 5, Moves("tool", s, k + 1), oldSiu' = oldSiu, k + 1 <= 3 => Silence' /\ ~siuLoop',
             k + 1 \in {4, 5} => \/ command' = LoopCmd /\ Flight' = <<>> /\ ~siuLoop'
                                 \/ command' = NoCommand /\ siuLoop',
             k + 1 = 5 => status' # <<>>
      PROVE  call' = call /\ LoopBackInv'
  <2>1. k + 1 \in 1 .. 5
    BY <1>3
  <2>2. IsAt("tool", s, k + 1)' /\ call' = call
    BY <1>1, <1>3, <2>1 DEF Moves, Reached
  <2>3. AgainAt(k + 1)'
    BY <1>2, <1>3, <2>1, <2>2 DEF AgainAt, s
  <2> QED BY <2>1, <2>2, <2>3 DEF LoopBackInv
<1>4. CASE k \in {1, 2, 4}
  <2>1. s[k].op \in {"linkUp", "free", "wait", "fail"}
    BY <1>1, <1>4 DEF AskIs
  <2>2. NothingElse /\ (Leaves("tool") \/ (Moves("tool", s, k + 1) /\ (s[k].op = "wait" => status # <<>>)))
    BY <1>0, <1>1, <1>2, <2>1, PlainSilentStep
  <2>3. UNCHANGED <<cardVars, command, status, Flight>>
    BY <2>2 DEF NothingElse, Flight
  <2>4. k < 5 /\ (k + 1 <= 3 <=> k <= 2) /\ (k + 1 \in {4, 5} <=> k = 4) /\ (k <= 2 => k <= 3)
        /\ (k + 1 = 5 <=> k = 4)
    BY <1>4
  <2>5. k + 1 <= 3 => Silence' /\ ~siuLoop'
    BY <2>3, <2>4 DEF AgainAt, Silence, cardVars
  <2>6. k + 1 \in {4, 5} => \/ command' = LoopCmd /\ Flight' = <<>> /\ ~siuLoop'
                            \/ command' = NoCommand /\ siuLoop'
    BY <2>3, <2>4 DEF AgainAt, cardVars
  <2>7. k = 4 => s[k].op = "wait"
    BY <1>1 DEF AskIs
  <2>8. oldSiu' = oldSiu
    BY <2>3 DEF cardVars
  <2> QED BY <1>3, <2>2, <2>3, <2>4, <2>5, <2>6, <2>7, <2>8
<1>5. CASE k = 3
  <2>1. s[k].op = "put" /\ s[k].cmd = LoopCmd
    BY <1>1, <1>5 DEF AskIs, PutStep, OpStep
  <2>2. LoopCmd.trid # 16 /\ LoopCmd \in DdlCommands
    BY CommandTypes DEF LoopCmd, Cmd, Command
  <2>3. Flight = <<>> /\ ~siuLoop
    BY <1>5 DEF AgainAt, Silence
  <2>4. Moves("tool", s, k + 1) /\ command' = LoopCmd /\ Flight' = <<>> /\ UNCHANGED cardVars
    BY <1>1, <1>2, <2>1, <2>2, <2>3, PutsAlone
  <2>5. ~siuLoop' /\ oldSiu' = oldSiu
    BY <2>3, <2>4 DEF cardVars
  <2> QED BY <1>3, <1>5, <2>4, <2>5
<1>6. CASE k = 5
  <2>1. s[5].op = "read" /\ s[5].use = "ignored"
    BY <1>1 DEF AskIs, AnyStep, ReadStep
  <2>2. /\ UNCHANGED <<cardVars, command>>
        /\ \/ Throw("tool")
           \/ Use("tool", "ignored", TheWord)
    BY <1>0, <1>1, <1>2, <1>6, <2>1, ReadsWord
  <2>3. Throw("tool") => Leaves("tool")
    BY <1>0, <1>1, <1>2, ThrowLeaves
  <2>4. CASE Use("tool", "ignored", TheWord)
    <3>1. Continue("tool", Tail(script["tool"]))
      BY <2>4 DEF Use
    <3>2. Moves("tool", s, k + 1)
      BY <1>0, <1>1, <1>2, <1>6, <3>1, MovesOn
    <3>3. script'["tool"] = <<>> /\ call' = call
      BY <1>1, <1>6, <3>2 DEF Moves, Reached
    <3>4. status # <<>> => Flight # <<>>
      BY FlightEmpty
    <3>5. command = NoCommand /\ siuLoop
      BY <1>6, <3>4 DEF AgainAt
    <3>6. LoopIsOn'
      BY <2>2, <3>3, <3>5 DEF LoopIsOn, cardVars
    <3> QED BY <3>3, <3>6 DEF LoopBackInv
  <2> QED BY <2>2, <2>3, <2>4
<1>7. k \in {1, 2, 4} \/ k = 3 \/ k = 5
  OBVIOUS
<1> QED BY <1>4, <1>5, <1>6, <1>7

(* An SIU that does not know IFLOOP: the call throws in the end.           *)
LEMMA TestModeStepKept ==
  ASSUME DdlTypes, DdlTypes', DdlStep("tool"),
         \/ \E k \in 1 .. 5 : IsAt("tool", TestMode, k)
         \/ IsAt("tool", Step("fail", NoCommand), 1)
  PROVE  Leaves("tool") \/ (call' = call /\ LoopBackInv')
<1>0. "tool" \in User
  BY DEF User
<1>1. ASSUME NEW k \in 1 .. 5, IsAt("tool", TestMode, k)
      PROVE  Leaves("tool") \/ (call' = call /\ LoopBackInv')
  <2> DEFINE s == TestMode
  <2>1. TestModeIs(s) /\ Plain(s) /\ s \in Seq(DdlSteps) /\ Len(s) = 5
    BY StepsOfTestMode DEF TestModeIs
  <2>2. ASSUME k < 5, Moves("tool", s, k + 1) PROVE call' = call /\ LoopBackInv'
    <3>1. k + 1 \in 1 .. 5
      BY <2>2
    <3>2. IsAt("tool", s, k + 1)' /\ call' = call
      BY <2>1, <2>2, <3>1 DEF Moves, Reached
    <3> QED BY <3>1, <3>2 DEF LoopBackInv
  <2>3. IsAt("tool", s, k)
    BY <1>1
  <2> HIDE DEF s
  <2>4. CASE k \in {1, 2, 4, 5}
    <3>1. s[k].op \in {"linkUp", "free", "wait", "fail"} /\ (k = 5 => s[k].op = "fail")
      BY <2>1, <2>4 DEF TestModeIs
    <3>2. Leaves("tool") \/ (Moves("tool", s, k + 1) /\ s[k].op # "fail")
      BY <1>0, <2>1, <2>3, <3>1, PlainSilentStep
    <3>3. k < 5 \/ k = 5
      OBVIOUS
    <3> QED BY <2>2, <3>1, <3>2, <3>3
  <2>5. CASE k = 3
    <3>1. s[k].op = "put" /\ s[k + 1].op \notin {"endTry", "endRetry"}
      BY <2>1, <2>5 DEF TestModeIs
    <3>2. Moves("tool", s, k + 1)
      BY <1>0, <2>1, <2>3, <3>1, PutsCommand
    <3> QED BY <2>2, <2>5, <3>2
  <2>6. k \in {1, 2, 4, 5} \/ k = 3
    OBVIOUS
  <2> QED BY <2>4, <2>5, <2>6
<1>2. CASE IsAt("tool", Step("fail", NoCommand), 1)
  <2> DEFINE s == <<FailStep>>
  <2>1. IsAt("tool", s, 1)
    BY <1>2, FailTypes
  <2>2. s \in Seq(DdlSteps) /\ Len(s) = 1 /\ s[1] = FailStep
    BY FailTypes
  <2> HIDE DEF s
  <2>3. s[1].op = "fail"
    BY <2>2 DEF FailStep, OpStep
  <2>4. Plain(s)
    <3>1. \A i \in 1 .. 1 : i = 1
      OBVIOUS
    <3> QED BY <2>2, <2>3, <3>1 DEF Plain
  <2>5. Leaves("tool")
    BY <1>0, <2>1, <2>2, <2>3, <2>4, PlainSilentStep
  <2> QED BY <2>5
<1> QED BY <1>1, <1>2

LEMMA LoopBackStepKept ==
  ASSUME DdlTypes, DdlTypes', LoopBackInv, DdlStep("tool")
  PROVE  Leaves("tool") \/ (call' = call /\ LoopBackInv')
<1>1. ~LoopIsOn
  BY StepFrame DEF LoopIsOn, User
<1>2. CASE \E k \in 1 .. 5 : LoopAt(k)
  BY <1>2, LoopStepKept
<1>3. CASE \E k \in 1 .. 6 : LoopStatusAt(k)
  BY <1>3, LoopStatusStepKept
<1>4. CASE \E k \in 1 .. 5 : AgainAt(k)
  BY <1>4, AgainStepKept
<1>5. CASE \/ \E k \in 1 .. 5 : IsAt("tool", TestMode, k)
           \/ IsAt("tool", Step("fail", NoCommand), 1)
  BY <1>5, TestModeStepKept
<1> QED BY <1>1, <1>2, <1>3, <1>4, <1>5 DEF LoopBackInv

-----------------------------------------------------------------------------
(* ddlResetSiu(): the attempts.                                            *)
LEMMA OpsOfAttempt ==
  /\ Attempt[1].op = "nextId" /\ Attempt[8].op = "nextId"
  /\ \A q \in {2, 4, 6, 9, 10, 12} : Attempt[q].op \in {"linkUp", "free", "wait"}
  /\ Attempt[3].op = "put" /\ Attempt[3].cmd = DiuCmd(16)
  /\ Attempt[11].op = "put" /\ Attempt[11].cmd = SiuCmd(16)
  /\ Attempt[5].op = "read" /\ Attempt[5].codes = {"IFSTW"} /\ Attempt[5].cmd = DiuCmd(16)
  /\ Attempt[5].use = "diu"
  /\ Attempt[13].op = "read" /\ Attempt[13].codes = {"IFSTW"} /\ Attempt[13].cmd = SiuCmd(16)
  /\ Attempt[13].use = "interface"
  /\ Attempt[7].op = "read" /\ Attempt[7].use = "done" /\ Attempt[7].codes = Transmitted
  /\ Attempt[14].op = "read" /\ Attempt[14].use = "done" /\ Attempt[14].codes = Transmitted
  /\ \A q \in 1 .. 14 : Attempt[q].op \notin {"endTry", "endRetry"}
  /\ Attempt[15].op = "endRetry"
<1>1. /\ IdStep.op = "nextId" /\ FreeStep.op = "free" /\ UpStep.op = "linkUp"
      /\ WaitStep.op = "wait" /\ RetryStep.op = "endRetry"
      /\ PutStep(DiuCmd(16)).op = "put" /\ PutStep(DiuCmd(16)).cmd = DiuCmd(16)
      /\ PutStep(SiuCmd(16)).op = "put" /\ PutStep(SiuCmd(16)).cmd = SiuCmd(16)
  BY DEF IdStep, FreeStep, UpStep, WaitStep, RetryStep, PutStep, OpStep
<1>2. /\ DiuRead.op = "read" /\ DiuRead.codes = {"IFSTW"} /\ DiuRead.cmd = DiuCmd(16)
      /\ DiuRead.use = "diu"
      /\ SiuRead.op = "read" /\ SiuRead.codes = {"IFSTW"} /\ SiuRead.cmd = SiuCmd(16)
      /\ SiuRead.use = "interface"
      /\ DiuEnd.op = "read" /\ DiuEnd.use = "done" /\ DiuEnd.codes = Transmitted
      /\ SiuEnd.op = "read" /\ SiuEnd.use = "done" /\ SiuEnd.codes = Transmitted
  BY DEF DiuRead, SiuRead, DiuEnd, SiuEnd, ReadStep
<1>3. /\ Attempt[1].op = "nextId" /\ Attempt[2].op = "free" /\ Attempt[3] = PutStep(DiuCmd(16))
      /\ Attempt[4].op = "wait" /\ Attempt[5] = DiuRead /\ Attempt[6].op = "wait"
      /\ Attempt[7] = DiuEnd /\ Attempt[8].op = "nextId" /\ Attempt[9].op = "linkUp"
      /\ Attempt[10].op = "free" /\ Attempt[11] = PutStep(SiuCmd(16)) /\ Attempt[12].op = "wait"
      /\ Attempt[13] = SiuRead /\ Attempt[14] = SiuEnd /\ Attempt[15].op = "endRetry"
  BY <1>1, AttemptSteps
<1>4. ASSUME NEW q \in 1 .. 14 PROVE Attempt[q].op \notin {"endTry", "endRetry"}
  <2>1. \/ q = 1 \/ q = 2 \/ q = 3 \/ q = 4 \/ q = 5 \/ q = 6 \/ q = 7
        \/ q = 8 \/ q = 9 \/ q = 10 \/ q = 11 \/ q = 12 \/ q = 13 \/ q = 14
    OBVIOUS
  <2> QED BY <1>1, <1>2, <1>3, <2>1
<1> QED BY <1>1, <1>2, <1>3, <1>4

LEMMA AttemptIndex ==
  ASSUME NEW a \in 0 .. Cycles - 1, NEW q \in 1 .. 15
  PROVE  /\ ResetAttempts \in Seq(DdlSteps) /\ Len(ResetAttempts) = 15 * Cycles + 1
         /\ 15 * a + q \in 1 .. Len(ResetAttempts) - 1
         /\ ResetAttempts[15 * a + q] = Attempt[q]
         /\ Cycles \in 1 .. 7 /\ a \in 0 .. 6
<1>1. Cycles \in 1 .. 7
  BY DdlAssumption
<1>2. /\ ResetAttempts \in Seq(DdlSteps) /\ Len(ResetAttempts) = 15 * Cycles + 1
      /\ ResetAttempts[15 * a + q] = Attempt[q]
  BY AttemptsSteps
<1>3. 15 * a + q \in 1 .. 15 * Cycles + 1 - 1 /\ a \in 0 .. 6
  BY <1>1
<1> QED BY <1>1, <1>2, <1>3

LEMMA AttemptGoesOn ==
  ASSUME DdlTypes, NEW a \in 0 .. Cycles - 1, NEW q \in 1 .. 13,
         IsAt("tool", ResetAttempts, 15 * a + q), Continue("tool", Tail(script["tool"]))
  PROVE  IsAt("tool", ResetAttempts, 15 * a + (q + 1))' /\ call' = call
<1> DEFINE s == ResetAttempts
           k == 15 * a + q
<1>1. /\ "tool" \in User /\ q + 1 \in 1 .. 14 /\ q + 1 \in 1 .. 15 /\ k + 1 = 15 * a + (q + 1)
      /\ a \in Nat
  BY DEF User
<1>2. s \in Seq(DdlSteps) /\ k + 1 \in 1 .. Len(s) - 1 /\ s[k + 1] = Attempt[q + 1]
  <2>1. /\ s \in Seq(DdlSteps) /\ 15 * a + (q + 1) \in 1 .. Len(s) - 1
        /\ s[15 * a + (q + 1)] = Attempt[q + 1]
    BY <1>1, AttemptIndex
  <2> QED BY <1>1, <2>1
<1> HIDE DEF s, k
<1>3. s[k + 1].op \notin {"endTry", "endRetry"}
  BY <1>1, <1>2, OpsOfAttempt
<1>4. IsAt("tool", s, k)
  BY DEF s, k
<1>5. Moves("tool", s, k + 1)
  BY <1>1, <1>2, <1>3, <1>4, MovesOn
<1>6. ~(k + 1 > Len(s))
  BY <1>2, LenProperties
<1>7. IsAt("tool", s, k + 1)' /\ call' = call
  BY <1>5, <1>6 DEF Moves, Reached, s, k
<1> QED BY <1>1, <1>7 DEF s

LEMMA AttemptThrows ==
  ASSUME DdlTypes, NEW a \in 0 .. Cycles - 1, NEW q \in 1 .. 15,
         IsAt("tool", ResetAttempts, 15 * a + q), Throw("tool")
  PROVE  IsAt("tool", ResetAttempts, 15 * (a + 1) + 1)' /\ call' = call
<1> DEFINE s == ResetAttempts
           k == 15 * a + q
           now == script["tool"]
           end == 16 - q
<1>1. /\ "tool" \in User /\ a \in Nat /\ k \in Nat /\ end \in 1 .. 15
  BY DEF User
<1>2. /\ s \in Seq(DdlSteps) /\ Len(s) = 15 * Cycles + 1 /\ k \in 1 .. Len(s) - 1
      /\ Cycles \in 1 .. 7
  BY AttemptIndex
<1>3. 15 * (a + 1) + 1 \in 1 .. Len(s) /\ 15 * (a + 1) + 1 = k + end
  BY <1>2
<1>4. IsAt("tool", s, k)
  OBVIOUS
<1> HIDE DEF s, k
<1>5. /\ Len(now) = Len(s) - k + 1
      /\ \A i \in 1 .. Len(now) : now[i] = s[k + i - 1]
  <2>1. /\ Len(script["tool"]) = Len(s) - k + 1
        /\ \A i \in 1 .. Len(script["tool"]) : script["tool"][i] = s[k + i - 1]
    <3> HIDE DEF now
    <3>1. "tool" \in User /\ s \in Seq(DdlSteps) /\ IsAt("tool", s, k)
      BY <1>1, <1>2, <1>4
    <3> QED BY <3>1, AtHead
  <2> QED BY <2>1
<1>6. now \in Seq(DdlSteps) /\ now = SubSeq(s, k, Len(s))
  BY <1>1, <1>4 DEF DdlTypes, ScriptTypes, IsAt
<1>7. DOMAIN now = 1 .. Len(now)
  BY <1>6, LenProperties
<1>8. end \in DOMAIN now /\ end + 1 \in 1 .. Len(now)
  <2>1. end + 1 <= Len(s) - k + 1
    BY <1>1, <1>2, <1>3
  <2> QED BY <1>1, <1>5, <1>7, <2>1
<1> USE DEF k
<1>9. end \in Catches("tool")
  <2>1. k + end - 1 = 15 * a + 15
    BY <1>1
  <2>2. ResetAttempts[15 * a + 15] = Attempt[15]
    <3>1. 15 \in 1 .. 15
      OBVIOUS
    <3> QED BY <3>1, AttemptIndex
  <2>3. Attempt[15].op \in {"endTry", "endRetry"}
    BY OpsOfAttempt
  <2>4. now[end] = s[k + end - 1]
    <3> HIDE DEF now, end, k
    <3> QED BY <1>5, <1>7, <1>8
  <2>5. now[end].op \in {"endTry", "endRetry"}
    BY <2>1, <2>2, <2>3, <2>4, Zenon DEF s
  <2> QED BY <1>8, <2>5 DEF Catches
<1>10. ASSUME NEW i \in Catches("tool") PROVE end <= i
  <2>1. i \in 1 .. Len(now) /\ now[i].op \in {"endTry", "endRetry"}
    BY <1>7 DEF Catches
  <2>2. SUFFICES ASSUME i < end PROVE FALSE
    <3> HIDE DEF now, end, k
    <3>1. i \in Int /\ end \in Int
      BY <1>1, <1>5, <2>1
    <3> QED BY <3>1
  <2>3. q + i - 1 \in 1 .. 14 /\ q + i - 1 \in 1 .. 15 /\ k + i - 1 = 15 * a + (q + i - 1)
    BY <1>1, <2>1, <2>2
  <2>4. s[15 * a + (q + i - 1)] = Attempt[q + i - 1]
    BY <2>3, AttemptIndex DEF s
  <2>5. now[i] = Attempt[q + i - 1]
    BY <1>5, <2>1, <2>3, <2>4
  <2>6. Attempt[q + i - 1].op \notin {"endTry", "endRetry"}
    BY <2>3, OpsOfAttempt
  <2> QED BY <2>1, <2>5, <2>6
<1> HIDE DEF now, end, k
<1>11. (CHOOSE i \in Catches("tool") : \A j \in Catches("tool") : i <= j) = end
  <2> DEFINE first == CHOOSE i \in Catches("tool") : \A j \in Catches("tool") : i <= j
  <2>1. \E i \in Catches("tool") : \A j \in Catches("tool") : i <= j
    BY <1>9, <1>10
  <2>2. first \in Catches("tool") /\ \A j \in Catches("tool") : first <= j
    BY <2>1
  <2>3. first \in 1 .. Len(now)
    BY <1>7, <2>2 DEF Catches, now
  <2> HIDE DEF first
  <2>4. first <= end /\ end <= first
    BY <1>9, <1>10, <2>2
  <2>5. first = end
    BY <1>1, <1>5, <2>3, <2>4
  <2> QED BY <2>5 DEF first
<1>12. script' = [script EXCEPT !["tool"] = SubSeq(now, end + 1, Len(now))] /\ call' = call
  BY <1>9, <1>11 DEF Throw, now
<1>13. script'["tool"] = SubSeq(now, end + 1, Len(now))
  BY <1>1, <1>12 DEF DdlTypes, ScriptTypes
<1>14. SubSeq(now, end + 1, Len(now)) = SubSeq(s, k + end, Len(s))
  <2>1. Len(s) - k + 1 = Len(now) /\ k + (end + 1) - 1 = k + end /\ k + Len(now) - 1 = Len(s)
        /\ k \in 1 .. Len(s) /\ Len(s) \in 1 .. Len(s) /\ Len(now) \in 1 .. Len(s) - k + 1
        /\ end + 1 \in 1 .. Len(s) - k + 1
    BY <1>1, <1>2, <1>5, <1>8
  <2>2. ASSUME NEW j, j = Len(s), NEW m, m = end + 1, NEW n, n = Len(now)
        PROVE  SubSeq(SubSeq(s, k, j), m, n) = SubSeq(s, k + m - 1, k + n - 1)
    <3>1. j \in 1 .. Len(s) /\ m \in 1 .. j - k + 1 /\ n \in 1 .. j - k + 1
      BY <2>1, <2>2
    <3> QED BY <1>2, <2>1, <3>1, SubSeqOfSubSeq
  <2>3. SubSeq(SubSeq(s, k, Len(s)), end + 1, Len(now)) = SubSeq(s, k + (end + 1) - 1, k + Len(now) - 1)
    BY <2>2
  <2> QED BY <1>6, <2>1, <2>3
<1>15. IsAt("tool", s, k + end)'
  <2>1. k + end \in 1 .. Len(s) /\ script'["tool"] = SubSeq(s, k + end, Len(s))
    BY <1>3, <1>13, <1>14
  <2> QED BY <2>1 DEF IsAt, s, k, end
<1> QED BY <1>3, <1>12, <1>15 DEF s

(* The transaction ids of the words on their way, after a step of the tool. *)
LEMMA FewerIds ==
  ASSUME command' = command, OnTheirWay' \subseteq OnTheirWay
  PROVE  /\ \A n \in Nat : IdsBelow(n) => IdsBelow(n)'
         /\ info'.transid = info.transid /\ OwnAreMine => OwnAreMine'
BY DEF IdsBelow, OwnAreMine

LEMMA WordsRead ==
  ASSUME DdlTypes, status' = IF status = <<>> THEN <<>> ELSE Tail(status), answering' = answering
  PROVE  OnTheirWay' \subseteq OnTheirWay
<1>1. CASE status = <<>>
  BY <1>1 DEF OnTheirWay
<1>2. CASE status # <<>>
  <2>1. WordsOf(Tail(status)) \subseteq WordsOf(status)
    BY <1>2, WordSets DEF DdlTypes, WordTypes
  <2>2. status' = Tail(status)
    BY <1>2
  <2> QED BY <2>1, <2>2 DEF OnTheirWay
<1> QED BY <1>1, <1>2

LEMMA OlderWords ==
  ASSUME NEW s \in Seq(StatusWords)
  PROVE  \A w \in WordsOf([i \in DOMAIN s |-> [s[i] EXCEPT !.mine = FALSE]]) :
           \E v \in WordsOf(s) : v.code = w.code /\ v.trid = w.trid
<1> DEFINE t == [i \in DOMAIN s |-> [s[i] EXCEPT !.mine = FALSE]]
<1>1. DOMAIN s = 1 .. Len(s) /\ Len(s) \in Nat
  BY LenProperties
<1>2. ASSUME NEW i \in 1 .. Len(s)
      PROVE  /\ s[i] \in StatusWords /\ t[i] \in StatusWords
             /\ t[i].code = s[i].code /\ t[i].trid = s[i].trid
  <2>1. s[i] \in StatusWords
    BY ElementOfSeq
  <2>2. t[i] = [s[i] EXCEPT !.mine = FALSE]
    BY <1>1
  <2> QED BY <2>1, <2>2 DEF StatusWords
<1>3. Len(t) = Len(s)
  <2>1. \A i \in 1 .. Len(s) : t[i] \in StatusWords
    BY <1>2
  <2>2. t \in [1 .. Len(s) -> StatusWords]
    BY <1>1, <2>1
  <2>3. t \in Seq(StatusWords) /\ DOMAIN t = 1 .. Len(s)
    BY <1>1, <2>2
  <2> HIDE DEF t
  <2> QED BY <1>1, <2>3, LenProperties
<1> HIDE DEF t
<1>4. ASSUME NEW w \in WordsOf(t) PROVE \E v \in WordsOf(s) : v.code = w.code /\ v.trid = w.trid
  <2>1. PICK i \in 1 .. Len(s) : w = t[i]
    BY <1>3 DEF WordsOf
  <2>2. s[i] \in WordsOf(s)
    BY DEF WordsOf
  <2> QED BY <1>2, <2>1, <2>2
<1> QED BY <1>4 DEF t

LEMMA WordsOnPut ==
  ASSUME DdlTypes,
         status' = [i \in DOMAIN status |-> [status[i] EXCEPT !.mine = FALSE]],
         answering' = [i \in DOMAIN answering |-> [answering[i] EXCEPT !.mine = FALSE]]
  PROVE  \A w \in OnTheirWay' : \E v \in OnTheirWay : v.code = w.code /\ v.trid = w.trid
<1> DEFINE old(s) == [i \in DOMAIN s |-> [s[i] EXCEPT !.mine = FALSE]]
<1>0. status \in Seq(StatusWords) /\ answering \in Seq(StatusWords)
  BY DEF DdlTypes, WordTypes
<1>1. \A w \in WordsOf(status)' : \E v \in WordsOf(status) : v.code = w.code /\ v.trid = w.trid
  <2>1. \A w \in WordsOf(old(status)) : \E v \in WordsOf(status) : v.code = w.code /\ v.trid = w.trid
    BY <1>0, OlderWords
  <2>2. WordsOf(status)' = WordsOf(old(status))
    BY DEF WordsOf
  <2> HIDE DEF old
  <2> QED BY <2>1, <2>2
<1>2. \A w \in WordsOf(answering)' :
        \E v \in WordsOf(answering) : v.code = w.code /\ v.trid = w.trid
  <2>1. \A w \in WordsOf(old(answering)) :
          \E v \in WordsOf(answering) : v.code = w.code /\ v.trid = w.trid
    BY <1>0, OlderWords
  <2>2. WordsOf(answering)' = WordsOf(old(answering))
    BY DEF WordsOf
  <2> HIDE DEF old
  <2> QED BY <2>1, <2>2
<1> QED BY <1>1, <1>2 DEF OnTheirWay

(* The reset itself.                                                       *)
LEMMA ResetStepKept ==
  ASSUME DdlTypes, DdlTypes', NEW k \in 1 .. 4, ResetAt(k), DdlStep("tool")
  PROVE  Leaves("tool") \/ (call' = call /\ ResetSiuInv')
<1> DEFINE s == ResetSiuScript
<1>0. "tool" \in User
  BY DEF User
<1>1. ResetSiuIs(s) /\ Plain(s) /\ s \in Seq(DdlSteps) /\ Len(s) = 4
  BY StepsOfResetSiu DEF ResetSiuIs
<1>2. IsAt("tool", s, k) /\ info.transid = 15 /\ IdsBelow(0)
  BY DEF ResetAt
<1> HIDE DEF s
<1>3. ASSUME k < 4, Moves("tool", s, k + 1), info' = info, IdsBelow(0)'
      PROVE  call' = call /\ ResetSiuInv'
  <2>1. k + 1 \in 1 .. 4
    BY <1>3
  <2>2. IsAt("tool", s, k + 1)' /\ call' = call
    BY <1>1, <1>3, <2>1 DEF Moves, Reached
  <2>3. ResetAt(k + 1)'
    BY <1>2, <1>3, <2>2 DEF ResetAt, s
  <2> QED BY <2>1, <2>2, <2>3 DEF ResetSiuInv
<1>4. CASE k \in {1, 3}
  <2>1. s[k].op \in {"linkUp", "free", "wait", "fail"}
    BY <1>1, <1>4 DEF ResetSiuIs
  <2>2. NothingElse /\ (Leaves("tool") \/ Moves("tool", s, k + 1))
    BY <1>0, <1>1, <1>2, <2>1, PlainSilentStep
  <2>3. UNCHANGED <<info, command, status, answering>>
    BY <2>2 DEF NothingElse
  <2>4. IdsBelow(0)'
    BY <1>2, <2>3 DEF IdsBelow, OnTheirWay
  <2> QED BY <1>3, <1>4, <2>2, <2>3, <2>4
<1>5. CASE k = 2
  <2>1. s[2].op = "put" /\ s[2].cmd = Cmd("DIU", "SRST") /\ s[k + 1].op \notin {"endTry", "endRetry"}
    BY <1>1, <1>5 DEF ResetSiuIs, PutStep, OpStep
  <2>2. /\ Moves("tool", s, k + 1)
        /\ command' = [s[k].cmd EXCEPT !.trid = TridOf(s[k].cmd)]
        /\ UNCHANGED <<cardVars, info, trigger, undisturbed>>
        /\ status' = [i \in DOMAIN status |-> [status[i] EXCEPT !.mine = FALSE]]
        /\ answering' = [i \in DOMAIN answering |-> [answering[i] EXCEPT !.mine = FALSE]]
    BY <1>0, <1>1, <1>2, <1>5, <2>1, PutsCommand
  <2>3. command'.code = "SRST"
    BY <1>5, <2>1, <2>2 DEF Cmd, Command
  <2>4. \A w \in OnTheirWay' : \E v \in OnTheirWay : v.code = w.code /\ v.trid = w.trid
    BY <2>2, WordsOnPut
  <2>5. IdsBelow(0)'
    BY <1>2, <2>3, <2>4 DEF IdsBelow
  <2> QED BY <1>3, <1>5, <2>2, <2>5
<1>6. CASE k = 4
  <2>1. s[4].op = "read" /\ s[4].use = "attempts"
    BY <1>1 DEF ResetSiuIs, AnyStep, ReadStep
  <2>2. /\ status' = IF status = <<>> THEN <<>> ELSE Tail(status)
        /\ UNCHANGED <<cardVars, command, answering, undisturbed>>
        /\ \/ Throw("tool")
           \/ Use("tool", "attempts", TheWord)
    BY <1>0, <1>1, <1>2, <1>6, <2>1, ReadsWord
  <2>3. Throw("tool") => Leaves("tool")
    BY <1>0, <1>1, <1>2, ThrowLeaves
  <2>4. CASE Use("tool", "attempts", TheWord)
    <3>1. Continue("tool", ResetAttempts) /\ info' = info
      BY <2>4 DEF Use
    <3>2. /\ ResetAttempts \in Seq(DdlSteps) /\ Len(ResetAttempts) > 0 /\ 0 \in 0 .. Cycles
          /\ ResetAttempts[1].op \notin {"endTry", "endRetry"}
      <4>1. 0 \in 0 .. Cycles - 1 /\ 1 \in 1 .. 15 /\ 15 * 0 + 1 = 1 /\ Cycles \in 1 .. 7
        BY DdlAssumption
      <4>2. /\ ResetAttempts \in Seq(DdlSteps) /\ Len(ResetAttempts) = 15 * Cycles + 1
            /\ ResetAttempts[15 * 0 + 1] = Attempt[1]
        BY <4>1, AttemptIndex
      <4>3. ResetAttempts[1] = Attempt[1] /\ Len(ResetAttempts) > 0
        BY <4>1, <4>2
      <4> QED BY <4>1, <4>2, <4>3, OpsOfAttempt
    <3>3. Moves("tool", ResetAttempts, 1)
      BY <1>0, <3>1, <3>2, Starts
    <3>4. IsAt("tool", ResetAttempts, 1)' /\ call' = call
      <4>1. ~(1 > Len(ResetAttempts))
        BY <3>2, LenProperties
      <4> QED BY <3>3, <4>1 DEF Moves, Reached
    <3>5. OnTheirWay' \subseteq OnTheirWay
      BY <2>2, WordsRead
    <3>6. IdsBelow(0)'
      BY <1>2, <2>2, <3>5, FewerIds
    <3>7. IdsTaken' = 0
      BY <1>2, <3>1 DEF IdsTaken
    <3>8. IdsBelow(IdsTaken)'
      BY <3>6, <3>7 DEF IdsBelow
    <3>9. IsAt("tool", ResetAttempts, 15 * 0 + 1)'
      BY <3>4
    <3>10. AttemptInv(0, 1)'
      BY <3>7, <3>8, <3>9 DEF AttemptInv
    <3>11. 1 \in 1 .. 15
      OBVIOUS
    <3> QED BY <3>2, <3>4, <3>10, <3>11 DEF ResetSiuInv
  <2> QED BY <2>2, <2>3, <2>4
<1>7. k \in {1, 3} \/ k = 2 \/ k = 4
  OBVIOUS
<1> QED BY <1>4, <1>5, <1>6, <1>7

(* What an attempt leaves when it fails, and where it goes when it does not. *)
LEMMA AttemptsOver ==
  ASSUME DdlTypes, NEW q \in 1 .. 15, IsAt("tool", ResetAttempts, 15 * Cycles + q),
         DdlStep("tool")
  PROVE  Leaves("tool")
<1> DEFINE s == ResetAttempts
           now == script["tool"]
<1>1. "tool" \in User
  BY DEF User
<1>2. s \in Seq(DdlSteps) /\ Len(s) = 15 * Cycles + 1 /\ s[15 * Cycles + 1] = FailStep
  BY AttemptsSteps
<1>3. Cycles \in 1 .. 7
  BY DdlAssumption
<1>4. IsAt("tool", s, 15 * Cycles + q)
  OBVIOUS
<1> HIDE DEF s
<1>5. 15 * Cycles + q \in 1 .. Len(s)
  BY <1>4 DEF IsAt
<1>6. q = 1 /\ 15 * Cycles + q = Len(s) /\ Len(s) \in Nat
  BY <1>2, <1>3, <1>5
<1>7. s[Len(s)].op = "fail"
  BY <1>2, <1>6 DEF FailStep, OpStep
<1>8. IsAt("tool", s, Len(s))
  BY <1>4, <1>6
<1> HIDE DEF now
<1>9. Len(now) = 1 /\ now[1] = s[Len(s)]
  <2>1. /\ Len(script["tool"]) = Len(s) - Len(s) + 1
        /\ \A i \in 1 .. Len(script["tool"]) : script["tool"][i] = s[Len(s) + i - 1]
    BY <1>1, <1>2, <1>8, AtHead, SMTT(30)
  <2> QED BY <1>6, <2>1 DEF now
<1>10. now \in Seq(DdlSteps)
  BY <1>1 DEF DdlTypes, ScriptTypes, now
<1>11. Plain(now)
  <2>1. \A i \in 1 .. Len(now) : i = 1
    BY <1>9
  <2> QED BY <1>7, <1>9, <2>1 DEF Plain
<1>12. IsAt("tool", now, 1)
  <2>1. now = SubSeq(now, 1, Len(now))
    BY <1>9, <1>10
  <2> QED BY <1>9, <2>1 DEF IsAt, now
<1>13. Throw("tool")
  BY <1>1, <1>2, <1>7, <1>8, SilentStep
<1> QED BY <1>1, <1>10, <1>11, <1>12, <1>13, ThrowLeaves

LEMMA AttemptFails ==
  ASSUME DdlTypes, NEW a \in 0 .. Cycles - 1, NEW q \in 1 .. 15, AttemptInv(a, q), Throw("tool"),
         command' = command, OnTheirWay' \subseteq OnTheirWay, info'.transid = info.transid
  PROVE  call' = call /\ ResetSiuInv'
<1>1. IsAt("tool", ResetAttempts, 15 * a + q)
  BY DEF AttemptInv
<1>2. IsAt("tool", ResetAttempts, 15 * (a + 1) + 1)' /\ call' = call
  BY <1>1, AttemptThrows
<1>3. IdsTaken' = IdsTaken /\ IdsTaken \in 0 .. 15 /\ a \in Nat
  BY TakenType DEF IdsTaken
<1>4. IdsTaken <= 2 * (a + 1)
  BY <1>3 DEF AttemptInv
<1>5. IdsBelow(IdsTaken)'
  <2>1. PICK n \in Nat : n = IdsTaken
    BY <1>3
  <2>2. IdsBelow(n)
    BY <2>1 DEF AttemptInv
  <2>3. IdsBelow(n)'
    BY <2>2, FewerIds
  <2> QED BY <1>3, <2>1, <2>3 DEF IdsBelow
<1>6. 1 \in 1 .. 15 /\ ~(1 \in {2, 3, 9, 10, 11}) /\ ~(1 \in 4 .. 8 \cup 12 .. 15) /\ ~(1 >= 6)
      /\ ~(1 >= 14) /\ a + 1 \in 0 .. Cycles
  BY DdlAssumption
<1>7. IdsTaken' <= 2 * (a + 1) + 0
  BY <1>3, <1>4
<1>8. AttemptInv(a + 1, 1)'
  BY <1>2, <1>5, <1>6, <1>7 DEF AttemptInv
<1> QED BY <1>2, <1>6, <1>8 DEF ResetSiuInv

LEMMA AttemptPasses ==
  ASSUME DdlTypes, DdlTypes', NEW a \in 0 .. Cycles - 1, NEW q \in 1 .. 13, q \notin {1, 3, 8, 11},
         AttemptInv(a, q), Continue("tool", Tail(script["tool"])),
         command' = command, OnTheirWay' \subseteq OnTheirWay, info'.transid = info.transid,
         q >= 5 => info'.diuFresh = TRUE, q = 13 => info'.fresh = TRUE
  PROVE  call' = call /\ ResetSiuInv'
<1>1. IsAt("tool", ResetAttempts, 15 * a + q)
  BY DEF AttemptInv
<1>2. IsAt("tool", ResetAttempts, 15 * a + (q + 1))' /\ call' = call
  BY <1>1, AttemptGoesOn
<1>3. IdsTaken' = IdsTaken /\ IdsTaken \in 0 .. 15 /\ info.transid \in 0 .. 15 /\ a \in 0 .. 6
  BY TakenType, DdlAssumption DEF IdsTaken
<1>4. IdsTaken' <= 2 * a + (IF q + 1 = 1 THEN 0 ELSE IF q + 1 <= 8 THEN 1 ELSE 2)
  BY <1>3 DEF AttemptInv
<1>5. IdsBelow(IdsTaken)'
  <2>1. PICK n \in Nat : n = IdsTaken
    BY <1>3
  <2>2. IdsBelow(n)
    BY <2>1 DEF AttemptInv
  <2>3. IdsBelow(n)'
    BY <2>2, FewerIds
  <2> QED BY <1>3, <2>1, <2>3 DEF IdsBelow
<1>6. info'.transid # 15
  BY DEF AttemptInv
<1>7. q + 1 \in {2, 3, 9, 10, 11} => IdsBelow(info.transid)'
  <2>1. PICK n \in Nat : n = info.transid
    BY <1>3
  <2>2. q + 1 \in {2, 3, 9, 10, 11} => q \in {2, 3, 9, 10, 11}
    OBVIOUS
  <2>3. q + 1 \in {2, 3, 9, 10, 11} => IdsBelow(n)
    BY <2>1, <2>2 DEF AttemptInv
  <2>4. q + 1 \in {2, 3, 9, 10, 11} => IdsBelow(n)'
    BY <2>3, FewerIds
  <2> QED BY <2>1, <2>4 DEF IdsBelow
<1>8. q + 1 \in 4 .. 8 \cup 12 .. 15 => OwnAreMine'
  <2>1. q + 1 \in 4 .. 8 \cup 12 .. 15 => q \in 4 .. 8 \cup 12 .. 15
    OBVIOUS
  <2> QED BY <2>1, FewerIds DEF AttemptInv
<1>9. /\ q + 1 \in 1 .. 15
      /\ q + 1 >= 6 => info'.diuFresh = TRUE
      /\ q + 1 >= 14 => info'.fresh = TRUE
  OBVIOUS
<1>10. AttemptInv(a, q + 1)'
  BY <1>2, <1>4, <1>5, <1>6, <1>7, <1>8, <1>9 DEF AttemptInv
<1>11. a \in 0 .. Cycles
  BY DdlAssumption
<1> QED BY <1>2, <1>9, <1>10, <1>11 DEF ResetSiuInv

LEMMA TridOfWords ==
  ASSUME NEW s \in Seq(StatusWords), NEW w \in WordsOf(s)
  PROVE  w.trid \in Nat
<1>1. PICK i \in 1 .. Len(s) : w = s[i]
  BY DEF WordsOf
<1>2. w \in StatusWords
  BY <1>1, ElementOfSeq
<1> QED BY <1>2 DEF StatusWords

LEMMA AttemptTakesId ==
  ASSUME DdlTypes, DdlTypes', NEW a \in 0 .. Cycles - 1, NEW q \in {1, 8}, AttemptInv(a, q),
         TakeNextId("tool")
  PROVE  call' = call /\ ResetSiuInv'
<1>1. IsAt("tool", ResetAttempts, 15 * a + q) /\ q \in 1 .. 13
  BY DEF AttemptInv
<1>2. /\ info' = [info EXCEPT !.transid = (@ + 1) % 16]
      /\ Continue("tool", Tail(script["tool"])) /\ UNCHANGED <<command, answering, status>>
  BY DEF TakeNextId
<1>3. IsAt("tool", ResetAttempts, 15 * a + (q + 1))' /\ call' = call
  BY <1>1, <1>2, AttemptGoesOn
<1>4. info'.transid = IdsTaken /\ info'.diuFresh = info.diuFresh
  BY <1>2 DEF DdlTypes, InfoTypes, IdsTaken
<1>5. IdsTaken \in 0 .. 15 /\ a \in 0 .. 6
  BY TakenType, DdlAssumption
<1>6. IdsTaken <= 2 * a + (IF q = 1 THEN 0 ELSE IF q <= 8 THEN 1 ELSE 2)
  BY DEF AttemptInv
<1>7. IdsTaken \in 0 .. 13
  BY <1>5, <1>6
<1>8. info'.transid # 15 /\ IdsTaken' = IdsTaken + 1
  BY <1>4, <1>7 DEF IdsTaken
<1>9. IdsTaken' <= 2 * a + (IF q + 1 = 1 THEN 0 ELSE IF q + 1 <= 8 THEN 1 ELSE 2)
  BY <1>5, <1>6, <1>8
<1>10. IdsBelow(info.transid)' /\ IdsBelow(IdsTaken)'
  <2>1. PICK n \in Nat : n = IdsTaken
    BY <1>5
  <2>2. IdsBelow(n)
    BY <2>1 DEF AttemptInv
  <2>3. OnTheirWay' \subseteq OnTheirWay
    BY <1>2 DEF OnTheirWay
  <2>4. IdsBelow(n)'
    BY <1>2, <2>2, <2>3, FewerIds
  <2>5. IdsBelow(info.transid)'
    BY <1>4, <2>1, <2>4 DEF IdsBelow
  <2>6. DdlCommands = [dest : DdlDests, code : CommandCodes, trid : Nat, addr : Nat]
    BY DEF DdlCommands
  <2>7. command'.trid \in Nat /\ \A w \in OnTheirWay' : w.trid \in Nat
    <3>1. command' \in DdlCommands /\ status' \in Seq(StatusWords) /\ answering' \in Seq(StatusWords)
      BY DEF DdlTypes, WordTypes
    <3>2. \A s \in Seq(StatusWords) : \A w \in WordsOf(s) : w.trid \in Nat
      BY TridOfWords
    <3>3. /\ \A w \in WordsOf(status') : w.trid \in Nat
          /\ \A w \in WordsOf(answering') : w.trid \in Nat
      BY <3>1, <3>2
    <3> QED BY <2>6, <3>1, <3>3 DEF OnTheirWay
  <2>8. \A x \in Nat : x < n => x < IdsTaken'
    BY <1>8, <2>1
  <2>9. IdsBelow(IdsTaken)'
    BY <2>4, <2>7, <2>8 DEF IdsBelow
  <2> QED BY <2>5, <2>9
<1>11. q + 1 >= 6 => info'.diuFresh = TRUE
  BY <1>4 DEF AttemptInv
<1>12. q + 1 \in {2, 9}
  OBVIOUS
<1>13. q + 1 \notin 4 .. 8 \cup 12 .. 15 /\ ~(q + 1 >= 14) /\ q + 1 \in 1 .. 15
  BY <1>12
<1>14. AttemptInv(a, q + 1)'
  BY <1>3, <1>8, <1>9, <1>10, <1>11, <1>13 DEF AttemptInv
<1>15. a \in 0 .. Cycles
  BY DdlAssumption
<1> QED BY <1>3, <1>13, <1>14, <1>15 DEF ResetSiuInv

LEMMA AttemptAsks ==
  ASSUME DdlTypes, DdlTypes', NEW a \in 0 .. Cycles - 1, NEW q \in {3, 11}, AttemptInv(a, q),
         DdlStep("tool")
  PROVE  call' = call /\ ResetSiuInv'
<1> DEFINE s == ResetAttempts
           k == 15 * a + q
<1>1. IsAt("tool", s, k) /\ q \in 1 .. 13 /\ q \in 1 .. 15 /\ "tool" \in User
  BY DEF AttemptInv, User
<1>2. s \in Seq(DdlSteps) /\ k \in 1 .. Len(s) - 1 /\ s[k] = Attempt[q] /\ a \in 0 .. 6
  BY <1>1, AttemptIndex
<1>3. /\ s[k].op = "put" /\ s[k].cmd.trid = 16 /\ s[k].cmd \in DdlCommands
  <2>1. Attempt[q].op = "put" /\ Attempt[q].cmd \in {DiuCmd(16), SiuCmd(16)}
    BY OpsOfAttempt
  <2>2. /\ DiuCmd(16).trid = 16 /\ SiuCmd(16).trid = 16
        /\ DiuCmd(16) \in DdlCommands /\ SiuCmd(16) \in DdlCommands
    BY DEF DiuCmd, SiuCmd, Command, DdlCommands, DdlDests, CommandCodes
  <2> QED BY <1>2, <2>1, <2>2
<1> HIDE DEF s, k
<1>4. s[k + 1].op \notin {"endTry", "endRetry"}
  <2>1. q + 1 \in 1 .. 14 /\ q + 1 \in 1 .. 15 /\ k + 1 = 15 * a + (q + 1)
    BY <1>2 DEF k
  <2>2. ResetAttempts[15 * a + (q + 1)] = Attempt[q + 1]
    BY <2>1, AttemptIndex
  <2>3. s[k + 1] = Attempt[q + 1]
    BY <2>1, <2>2 DEF s
  <2> QED BY <2>1, <2>3, OpsOfAttempt
<1>5. /\ Moves("tool", s, k + 1)
      /\ command' = [s[k].cmd EXCEPT !.trid = TridOf(s[k].cmd)]
      /\ UNCHANGED <<cardVars, info, trigger, undisturbed>>
      /\ status' = [i \in DOMAIN status |-> [status[i] EXCEPT !.mine = FALSE]]
      /\ answering' = [i \in DOMAIN answering |-> [answering[i] EXCEPT !.mine = FALSE]]
  BY <1>1, <1>2, <1>3, <1>4, PutsCommand
<1>6. IsAt("tool", ResetAttempts, 15 * a + (q + 1))' /\ call' = call
  <2>1. ~(k + 1 > Len(s)) /\ k + 1 = 15 * a + (q + 1)
    BY <1>2, LenProperties DEF k
  <2> QED BY <1>5, <2>1 DEF Moves, Reached, s
<1>7. info.transid # 15 /\ IdsBelow(info.transid) /\ info' = info
  BY <1>5 DEF AttemptInv
<1>8. IdsTaken \in 0 .. 15 /\ info.transid \in 0 .. 15 /\ IdsTaken = info.transid + 1
      /\ IdsTaken' = IdsTaken
  BY <1>7, TakenType DEF IdsTaken
<1>9. command'.trid = info.transid
  <2>1. TridOf(s[k].cmd) = info.transid
    BY <1>3 DEF TridOf, CurrentId
  <2> QED BY <1>3, <1>5, <2>1 DEF DdlCommands
<1>10. \A w \in OnTheirWay' : \E v \in OnTheirWay : v.code = w.code /\ v.trid = w.trid
  BY <1>5, WordsOnPut
<1>11. \A w \in OnTheirWay' : w.code = "IFSTW" => w.trid < info.transid
  BY <1>7, <1>10 DEF IdsBelow
<1>12. \A w \in OnTheirWay' : w.code = "IFSTW" => w.trid \in Nat
  <2>1. status' \in Seq(StatusWords) /\ answering' \in Seq(StatusWords)
    BY DEF DdlTypes, WordTypes
  <2>2. \A t \in Seq(StatusWords) : \A w \in WordsOf(t) : w.trid \in Nat
    BY TridOfWords
  <2>3. /\ \A w \in WordsOf(status') : w.trid \in Nat
        /\ \A w \in WordsOf(answering') : w.trid \in Nat
    BY <2>1, <2>2
  <2> QED BY <2>3 DEF OnTheirWay
<1>13. IdsBelow(IdsTaken)'
  <2>1. \A x \in Nat : x < info.transid => x < IdsTaken'
    BY <1>8
  <2>2. command'.trid < IdsTaken'
    BY <1>8, <1>9
  <2> QED BY <1>11, <1>12, <2>1, <2>2 DEF IdsBelow
<1>14. OwnAreMine'
  <2>1. ASSUME NEW w \in OnTheirWay', w.code = "IFSTW", w.trid = info'.transid PROVE FALSE
    <3>1. w.trid < info.transid /\ w.trid = info.transid
      BY <1>7, <1>11, <2>1
    <3> QED BY <1>8, <3>1
  <2> QED BY <2>1 DEF OwnAreMine
<1>15. IdsTaken' <= 2 * a + (IF q + 1 = 1 THEN 0 ELSE IF q + 1 <= 8 THEN 1 ELSE 2)
  <2>1. IdsTaken <= 2 * a + (IF q = 1 THEN 0 ELSE IF q <= 8 THEN 1 ELSE 2)
    BY DEF AttemptInv
  <2> QED BY <1>2, <1>8, <2>1
<1>16. q + 1 >= 6 => info'.diuFresh = TRUE
  <2>1. q + 1 >= 6 => q >= 6
    OBVIOUS
  <2> QED BY <1>7, <2>1 DEF AttemptInv
<1>17. q + 1 \notin {2, 3, 9, 10, 11} /\ ~(q + 1 >= 14) /\ q + 1 \in 1 .. 15
  OBVIOUS
<1>18. AttemptInv(a, q + 1)'
  BY <1>6, <1>7, <1>13, <1>14, <1>15, <1>16, <1>17 DEF AttemptInv
<1>19. a \in 0 .. Cycles
  BY DdlAssumption
<1> QED BY <1>6, <1>17, <1>18, <1>19 DEF ResetSiuInv

LEMMA AttemptReads ==
  ASSUME DdlTypes, DdlTypes', NEW a \in 0 .. Cycles - 1, NEW q \in {5, 7, 13, 14},
         AttemptInv(a, q), DdlStep("tool")
  PROVE  call' = call /\ ResetSiuInv'
<1> DEFINE s == ResetAttempts
           k == 15 * a + q
<1>1. IsAt("tool", s, k) /\ q \in 1 .. 14 /\ q \in 1 .. 15 /\ "tool" \in User
  BY DEF AttemptInv, User
<1>2. s \in Seq(DdlSteps) /\ s[k] = Attempt[q]
  BY <1>1, AttemptIndex
<1>3. Attempt[q].op = "read" /\ Attempt[q].codes # {} /\ "none" \notin Attempt[q].codes
  BY OpsOfAttempt DEF Transmitted
<1> HIDE DEF s, k
<1>4. /\ status' = IF status = <<>> THEN <<>> ELSE Tail(status)
      /\ UNCHANGED <<command, answering>>
      /\ \/ Throw("tool") /\ info' = info
         \/ Matches(TheWord, Attempt[q]) /\ Use("tool", Attempt[q].use, TheWord)
  BY <1>1, <1>2, <1>3, ReadsWord
<1>5. OnTheirWay' \subseteq OnTheirWay
  BY <1>4, WordsRead
<1>6. CASE Throw("tool") /\ info' = info
  BY <1>1, <1>4, <1>5, <1>6, AttemptFails
<1>7. CASE status = <<>>
  <2>1. Throw("tool") /\ info' = info
    BY <1>1, <1>2, <1>3, <1>7, NothingToRead
  <2> QED BY <1>6, <2>1
<1>8. CASE status # <<>> /\ Matches(TheWord, Attempt[q]) /\ Use("tool", Attempt[q].use, TheWord)
  <2>1. info'.transid = info.transid /\ info \in [chars : Seq(WordValues), bits : WordValues,
          fresh : BOOLEAN, diuFresh : BOOLEAN, quiet : BOOLEAN, transid : 0..15]
    BY <1>8 DEF Use, DdlTypes, InfoTypes
  <2>2. CASE q = 5 \/ q = 13
    <3>1. /\ Attempt[q].codes = {"IFSTW"} /\ Attempt[q].cmd \in {DiuCmd(16), SiuCmd(16)}
          /\ q = 5 => Attempt[q].use = "diu"
          /\ q = 13 => Attempt[q].use = "interface"
      BY <2>2, OpsOfAttempt
    <3>2. Attempt[q].cmd.trid = 16
      BY <3>1 DEF DiuCmd, SiuCmd, Command
    <3>3. TheWord.code = "IFSTW" /\ TheWord.trid = info.transid
      BY <1>8, <3>1, <3>2 DEF Matches, TridOf, CurrentId
    <3>4. TheWord \in OnTheirWay
      BY <1>8, WordSets DEF TheWord, OnTheirWay, DdlTypes, WordTypes
    <3>5. OwnAreMine
      BY <2>2 DEF AttemptInv
    <3>6. TheWord.mine = TRUE
      BY <3>3, <3>4, <3>5 DEF OwnAreMine
    <3>7. Continue("tool", Tail(script["tool"]))
      BY <1>8, <2>2, <3>1 DEF Use
    <3>8. q = 5 => info'.diuFresh = TRUE
      BY <1>8, <2>1, <3>1, <3>6 DEF Use
    <3>9. q = 13 => info'.fresh = TRUE /\ info'.diuFresh = info.diuFresh
      BY <1>8, <2>1, <3>1, <3>6 DEF Use
    <3>10. q = 13 => info'.diuFresh = TRUE
      BY <3>9 DEF AttemptInv
    <3>11. q \in 1 .. 13 /\ q \notin {1, 3, 8, 11}
      BY <2>2
    <3> QED BY <1>4, <1>5, <2>1, <2>2, <3>7, <3>8, <3>9, <3>10, <3>11, AttemptPasses
  <2>3. CASE q = 7 \/ q = 14
    <3>1. Attempt[q].use = "done"
      BY <2>3, OpsOfAttempt
    <3>2. Continue("tool", Tail(script["tool"])) /\ info' = info
      BY <1>8, <3>1 DEF Use
    <3>3. CASE q = 7
      <4>1. q \in 1 .. 13 /\ q \notin {1, 3, 8, 11} /\ q # 13
        BY <3>3
      <4>2. info'.diuFresh = TRUE
        BY <3>2, <3>3 DEF AttemptInv
      <4> QED BY <1>4, <1>5, <2>1, <3>2, <4>1, <4>2, AttemptPasses
    <3>4. CASE q = 14
      <4>1. info.diuFresh = TRUE /\ info.fresh = TRUE
        BY <3>4 DEF AttemptInv
      <4>2. Tail(script["tool"]) = SubSeq(s, k + 1, Len(s))
        <5>1. "tool" \in User /\ s \in Seq(DdlSteps) /\ IsAt("tool", s, k)
          BY <1>1, <1>2
        <5> QED BY <5>1, AtHead
      <4>3. k + 1 \in 1 .. Len(s) /\ s[k + 1] = Attempt[15]
        <5>1. 15 \in 1 .. 15 /\ k + 1 = 15 * a + 15
          BY <3>4 DEF k
        <5>2. 15 * a + 15 \in 1 .. Len(s) - 1 /\ s[15 * a + 15] = Attempt[15] /\ Len(s) = 15 * Cycles + 1
              /\ Cycles \in 1 .. 7
          BY <5>1, AttemptIndex DEF s
        <5> QED BY <5>1, <5>2
      <4>4. Tail(script["tool"]) # <<>> /\ Head(Tail(script["tool"])) = Attempt[15]
        <5>1. PICK m \in 1 .. Len(s) : m = k + 1
          BY <4>3
        <5>2. SubSeq(s, m, Len(s)) # <<>> /\ Head(SubSeq(s, m, Len(s))) = s[m]
          <6>1. \A i \in m .. Len(s) : s[i] \in DdlSteps
            BY <1>2, <5>1, ElementOfSeq
          <6>2. Len(SubSeq(s, m, Len(s))) = Len(s) - m + 1
            BY <1>2, <5>1, <6>1, SubSeqProperties
          <6>3. Len(SubSeq(s, m, Len(s))) > 0
            BY <1>2, <5>1, <6>2, LenProperties
          <6>4. Len(s) \in m .. Len(s)
            BY <1>2, <5>1, LenProperties
          <6>5. Head(SubSeq(s, m, Len(s))) = s[m]
            BY <1>2, <5>1, <6>4, HeadTailOfSubSeq
          <6>6. SubSeq(s, m, Len(s)) # <<>>
            BY <6>3, EmptySeq
          <6> QED BY <6>5, <6>6
        <5> QED BY <4>2, <4>3, <5>1, <5>2
      <4>5. Head(Tail(script["tool"])).op = "endRetry"
        BY <4>4, OpsOfAttempt
      <4>6. script' = [script EXCEPT !["tool"] = <<>>] /\ call' = call
        BY <3>2, <4>4, <4>5 DEF Continue
      <4>7. script'["tool"] = <<>>
        BY <1>1, <4>6 DEF DdlTypes, ScriptTypes
      <4> QED BY <3>2, <4>1, <4>6, <4>7 DEF ResetSiuInv, ResetDone
    <3> QED BY <2>3, <3>3, <3>4
  <2> QED BY <2>2, <2>3
<1> QED BY <1>4, <1>6, <1>7, <1>8

LEMMA AttemptStepKept ==
  ASSUME DdlTypes, DdlTypes', NEW a \in 0 .. Cycles, NEW q \in 1 .. 15, AttemptInv(a, q),
         DdlStep("tool")
  PROVE  Leaves("tool") \/ (call' = call /\ ResetSiuInv')
<1>1. IsAt("tool", ResetAttempts, 15 * a + q) /\ "tool" \in User
  BY DEF AttemptInv, User
<1>2. CASE a = Cycles
  BY <1>1, <1>2, AttemptsOver
<1>3. CASE a # Cycles
  <2>1. a \in 0 .. Cycles - 1
    BY <1>3, DdlAssumption
  <2>2. ResetAttempts \in Seq(DdlSteps) /\ ResetAttempts[15 * a + q] = Attempt[q]
    BY <2>1, AttemptIndex
  <2>3. CASE q \in {1, 8}
    <3>1. Attempt[q].op = "nextId"
      BY <2>3, OpsOfAttempt
    <3>2. TakeNextId("tool")
      BY <1>1, <2>2, <3>1, WhichStep
    <3> QED BY <2>1, <2>3, <3>2, AttemptTakesId
  <2>4. CASE q \in {3, 11}
    BY <2>1, <2>4, AttemptAsks
  <2>5. CASE q \in {5, 7, 13, 14}
    BY <2>1, <2>5, AttemptReads
  <2>6. CASE q \in {2, 4, 6, 9, 10, 12}
    <3>1. Attempt[q].op \in {"linkUp", "free", "wait"}
      BY <2>6, OpsOfAttempt
    <3>2. NothingElse /\ (Throw("tool") \/ Continue("tool", Tail(script["tool"])))
      BY <1>1, <2>2, <3>1, SilentStep
    <3>3. UNCHANGED <<command, status, answering, info>>
      BY <3>2 DEF NothingElse
    <3>4. OnTheirWay' \subseteq OnTheirWay /\ info'.transid = info.transid
      BY <3>3 DEF OnTheirWay
    <3>5. CASE Throw("tool")
      BY <2>1, <3>3, <3>4, <3>5, AttemptFails
    <3>6. CASE Continue("tool", Tail(script["tool"]))
      <4>1. q \in 1 .. 13 /\ q \notin {1, 3, 8, 11} /\ q # 13 /\ (q >= 5 => q >= 6)
        BY <2>6
      <4>2. q >= 5 => info'.diuFresh = TRUE
        BY <3>3, <4>1 DEF AttemptInv
      <4> QED BY <2>1, <3>3, <3>4, <3>6, <4>1, <4>2, AttemptPasses
    <3> QED BY <3>2, <3>5, <3>6
  <2>7. CASE q = 15
    <3>1. Attempt[q].op = "endRetry"
      BY <2>7, OpsOfAttempt
    <3> QED BY <1>1, <2>2, <3>1, WhichStep
  <2>8. \/ q \in {1, 8} \/ q \in {3, 11} \/ q \in {5, 7, 13, 14}
        \/ q \in {2, 4, 6, 9, 10, 12} \/ q = 15
    OBVIOUS
  <2> QED BY <2>3, <2>4, <2>5, <2>6, <2>7, <2>8
<1> QED BY <1>2, <1>3

LEMMA ResetSiuStepKept ==
  ASSUME DdlTypes, DdlTypes', ResetSiuInv, DdlStep("tool")
  PROVE  Leaves("tool") \/ (call' = call /\ ResetSiuInv')
<1>1. script["tool"] # <<>>
  BY StepFrame DEF User
<1>2. ~ResetDone
  BY <1>1 DEF ResetDone
<1>3. \/ \E k \in 1 .. 4 : ResetAt(k)
      \/ \E a \in 0 .. Cycles, q \in 1 .. 15 : AttemptInv(a, q)
  BY <1>2 DEF ResetSiuInv
<1> QED BY <1>3, ResetStepKept, AttemptStepKept

(* A step of the tool, and a step of anybody.                              *)
LEMMA ToolStepTool ==
  ASSUME DdlTypes, DdlTypes', ToolCallInv, DdlStep("tool")
  PROVE  ToolCallInv'
<1>1. "tool" \in User /\ "readout" \in User /\ "readout" # "tool"
  BY DEF User
<1>2. /\ OthersStay("tool") /\ info'.quiet = info.quiet
      /\ undisturbed' = undisturbed \/ LoseWords
  BY <1>1, StepFrame
<1>3. script'["readout"] = script["readout"]
  BY <1>1, <1>2 DEF OthersStay
<1>4. undisturbed'["tool"] => undisturbed["tool"]
  BY <1>2, NotDisturbed
<1>5. undisturbed'["tool"] => script'["readout"] = <<>>
  BY <1>3, <1>4 DEF ToolCallInv
<1>6. ASSUME undisturbed'["tool"], info'.quiet
      PROVE  /\ call'["tool"] = "status" => StatusInv'
             /\ call'["tool"] = "loopback" => LoopBackInv'
             /\ call'["tool"] = "resetSiu" => ResetSiuInv'
  <2>1. undisturbed["tool"] /\ info.quiet
    BY <1>2, <1>4, <1>6
  <2>2. call'["tool"] = "none" \/ call' = call
    BY <1>1, StepFrame
  <2>3. CASE call' = call /\ call["tool"] = "status"
    <3>1. StatusInv
      BY <2>1, <2>3 DEF ToolCallInv
    <3>2. Leaves("tool") \/ StatusInv'
      BY <3>1, StatusStepKept
    <3>3. Leaves("tool") => call'["tool"] = "none"
      BY DEF Leaves
    <3> QED BY <2>3, <3>2, <3>3
  <2>4. CASE call' = call /\ call["tool"] = "loopback"
    <3>1. LoopBackInv
      BY <2>1, <2>4 DEF ToolCallInv
    <3>2. Leaves("tool") \/ LoopBackInv'
      BY <3>1, LoopBackStepKept
    <3>3. Leaves("tool") => call'["tool"] = "none"
      BY DEF Leaves
    <3> QED BY <2>4, <3>2, <3>3
  <2>5. CASE call' = call /\ call["tool"] = "resetSiu"
    <3>1. ResetSiuInv
      BY <2>1, <2>5 DEF ToolCallInv
    <3>2. Leaves("tool") \/ ResetSiuInv'
      BY <3>1, ResetSiuStepKept
    <3>3. Leaves("tool") => call'["tool"] = "none"
      BY DEF Leaves
    <3> QED BY <2>5, <3>2, <3>3
  <2> QED BY <2>2, <2>3, <2>4, <2>5
<1> QED BY <1>5, <1>6 DEF ToolCallInv

LEMMA DdlBegins == DdlInit => DdlInv
<1> SUFFICES ASSUME DdlInit PROVE DdlInv
  OBVIOUS
<1>1. DdlTypes
  BY TypesBegin
<1>2. "tool" \in User /\ "readout" \in User
  BY DEF User
<1>3. /\ undisturbed["tool"] = FALSE /\ undisturbed["readout"] = FALSE /\ trigger = FALSE
      /\ script["readout"] = <<>>
  BY <1>2 DEF DdlInit
<1>4. StartInv
  BY <1>3 DEF StartInv
<1>5. ToolCallInv
  BY <1>3 DEF ToolCallInv
<1> QED BY <1>1, <1>4, <1>5 DEF DdlInv

LEMMA DdlInvKept == DdlInv /\ [DdlNext]_ddlVars => DdlInv'
<1> SUFFICES ASSUME DdlInv, [DdlNext]_ddlVars PROVE DdlInv'
  OBVIOUS
<1>1. DdlTypes /\ StartInv /\ ToolCallInv
  BY DEF DdlInv
<1>2. Sources \subseteq {"FEE", "DIU", "SIU"}
  BY DdlAssumption
<1>3. CASE StartDma \/ StopDma \/ ResetChannel \/ BeginTool
  <2>1. DdlTypes'
    BY <1>1, <1>2, <1>3, BeginsTypesKept
  <2>2. ToolCallInv'
    BY <1>1, <1>3, <2>1, BeginsTool
  <2>3. StartInv'
    BY <1>1, <2>1, StartKept
  <2> QED BY <2>1, <2>2, <2>3 DEF DdlInv
<1>4. ASSUME NEW u \in User, DdlStep(u) PROVE DdlInv'
  <2>1. DdlTypes'
    BY <1>1, <1>4, StepTypesKept
  <2>2. StartInv'
    BY <1>1, <2>1, StartKept
  <2>3. u = "readout" \/ u = "tool"
    BY DEF User
  <2>4. ToolCallInv'
    BY <1>1, <1>4, <2>1, <2>3, ReadoutStepTool, ToolStepTool
  <2> QED BY <2>1, <2>2, <2>4 DEF DdlInv
<1>5. CASE Execute \/ Arrive \/ LinkChanges
  <2>1. DdlTypes'
    BY <1>1, <1>5, CardTypesKept
  <2>2. StartInv'
    BY <1>1, <2>1, StartKept
  <2>3. ToolCallInv'
    BY <1>1, <1>5, CardStepTool
  <2> QED BY <2>1, <2>2, <2>3 DEF DdlInv
<1>6. CASE UNCHANGED ddlVars
  <2>1. /\ UNCHANGED <<siuLoop, frontEnd, oldSiu, command, answering, status, script, call, info>>
        /\ UNCHANGED <<trigger, undisturbed>>
    BY <1>6 DEF ddlVars
  <2>2. DdlTypes'
    BY <1>1, <2>1 DEF DdlTypes, ScriptTypes, WordTypes, InfoTypes, OtherTypes
  <2>3. StartInv'
    BY <1>1, <2>2, StartKept
  <2>4. FarSame /\ UNCHANGED info /\ script'["tool"] = script["tool"]
    BY <2>1 DEF FarSame, Flight
  <2>5. /\ StatusInv => StatusInv'
        /\ LoopBackInv => LoopBackInv'
    BY <2>4, SameStatus, SameLoopBack
  <2>6. ResetSiuInv => ResetSiuInv'
    <3>1. OnTheirWay' = OnTheirWay
      BY <2>1 DEF OnTheirWay
    <3>2. /\ \A n \in Nat : IdsBelow(n) => IdsBelow(n)'
          /\ OwnAreMine => OwnAreMine'
      BY <2>1, <3>1, FewerIds
    <3> QED BY <1>1, <2>1, <3>2, SameResetSiu
  <2>7. ToolCallInv'
    BY <1>1, <2>1, <2>5, <2>6 DEF ToolCallInv
  <2> QED BY <2>2, <2>3, <2>7 DEF DdlInv
<1>7. DdlRests => UNCHANGED ddlVars
  BY DEF DdlRests
<1> QED BY <1>3, <1>4, <1>5, <1>6, <1>7 DEF DdlNext

(* What is told when a call has returned. *)
LEMMA DdlInvRight == DdlInv => DdlIsRight
<1> SUFFICES ASSUME DdlInv PROVE DdlIsRight
  OBVIOUS
<1>1. DdlTypes /\ StartInv /\ ToolCallInv
  BY DEF DdlInv
<1>2. \A rows, k : IsAt("tool", rows, k) /\ rows \in Seq(DdlSteps) => script["tool"] # <<>>
  BY AtHead DEF User
<1>3. ASSUME undisturbed["tool"], info.quiet, Returned("tool", "status")
      PROVE  /\ info.chars = Append(HwId, 0) /\ info.fresh
             /\ siuLoop <=> "SIU in Loopback Mode" \in Interpretation
             /\ frontEnd = "sending" <=> "One FEE transaction is open" \in Interpretation
  <2>1. script["tool"] = <<>> /\ StatusInv
    BY <1>1, <1>3 DEF Returned, ToolCallInv
  <2>2. StatusTold
    <3>1. ASSUME NEW n \in 1 .. Len(HwId) + 1, NEW k \in 1 .. 7, CharAt(n, k) PROVE FALSE
      <4>1. n \in Nat
        BY HwIdFacts
      <4>2. HwQuery(n) \in Seq(DdlSteps) /\ IsAt("tool", HwQuery(n), k)
        BY <3>1, <4>1, ToolScripts DEF CharAt
      <4> QED BY <1>2, <2>1, <4>2
    <3>2. ASSUME NEW k \in 1 .. 6, StatusAt(k) PROVE FALSE
      <4>1. StatusQuery(0, "done") \in Seq(DdlSteps) /\ IsAt("tool", StatusQuery(0, "done"), k)
        BY <3>2, ToolScripts DEF StatusAt, ReadUses
      <4> QED BY <1>2, <2>1, <4>1
    <3> QED BY <2>1, <3>1, <3>2 DEF StatusInv
  <2>3. info.chars = [i \in 1 .. Len(HwId) + 1 |-> HwChar(i)]
    BY <2>2 DEF StatusTold, CharsRead
  <2>4. Append(HwId, 0) = [i \in 1 .. Len(HwId) + 1 |-> HwChar(i)]
    <3>1. HwId \in Seq(Nat \ {0}) /\ Len(HwId) \in Nat
      BY DdlAssumption, HwIdFacts
    <3>2. DOMAIN HwId = 1 .. Len(HwId) /\ HwId \in Seq(Nat)
      BY <3>1, LenProperties
    <3>3. PICK n \in Nat : n = Len(HwId)
      BY <3>1
    <3>4. /\ Append(HwId, 0) \in Seq(Nat) /\ Len(Append(HwId, 0)) = n + 1
          /\ \A i \in 1 .. n : Append(HwId, 0)[i] = HwId[i]
          /\ Append(HwId, 0)[n + 1] = 0
      <4>1. 0 \in Nat
        OBVIOUS
      <4> QED BY <3>2, <3>3, <4>1, AppendProperties
    <3>5. \A i \in 1 .. n : HwChar(i) = HwId[i]
      BY <3>2, <3>3 DEF HwChar
    <3>6. HwChar(n + 1) = 0
      BY <3>3, HwIdFacts
    <3>7. \A i \in 1 .. n + 1 : Append(HwId, 0)[i] = HwChar(i)
      <4>1. \A i \in 1 .. n + 1 : i \in 1 .. n \/ i = n + 1
        OBVIOUS
      <4> QED BY <3>4, <3>5, <3>6, <4>1
    <3>8. Append(HwId, 0) = [i \in 1 .. n + 1 |-> Append(HwId, 0)[i]]
      BY <3>4, LenProperties
    <3>9. [i \in 1 .. n + 1 |-> Append(HwId, 0)[i]] = [i \in 1 .. n + 1 |-> HwChar(i)]
      BY <3>7
    <3> QED BY <3>3, <3>8, <3>9
  <2>5. /\ info.fresh = TRUE
        /\ "LBMOD" \in info.bits <=> siuLoop
        /\ "OPTRAN" \in info.bits <=> frontEnd = "sending"
    BY <2>2 DEF StatusTold, BitsAreRight
  <2>6. /\ "SIU in Loopback Mode" \in Interpretation <=> "LBMOD" \in info.bits
        /\ "One FEE transaction is open" \in Interpretation <=> "OPTRAN" \in info.bits
    BY DEF Interpretation
  <2>7. siuLoop <=> "SIU in Loopback Mode" \in Interpretation
    BY <2>5, <2>6, Zenon
  <2>8. frontEnd = "sending" <=> "One FEE transaction is open" \in Interpretation
    BY <2>5, <2>6, Zenon
  <2>9. info.chars = Append(HwId, 0) /\ info.fresh
    BY <2>3, <2>4, <2>5
  <2> QED BY <2>7, <2>8, <2>9, Zenon
<1>4. ASSUME undisturbed["tool"], info.quiet, Returned("tool", "resetSiu")
      PROVE  info.diuFresh /\ info.fresh
  <2>1. script["tool"] = <<>> /\ ResetSiuInv
    BY <1>1, <1>4 DEF Returned, ToolCallInv
  <2>2. ASSUME NEW k \in 1 .. 4, ResetAt(k) PROVE FALSE
    BY <1>2, <2>1, <2>2, ToolScripts DEF ResetAt
  <2>3. ASSUME NEW a \in 0 .. Cycles, NEW q \in 1 .. 15, AttemptInv(a, q) PROVE FALSE
    BY <1>2, <2>1, <2>3, AttemptsSteps DEF AttemptInv
  <2>4. ResetDone
    BY <2>1, <2>2, <2>3 DEF ResetSiuInv
  <2> QED BY <2>4 DEF ResetDone
<1>5. ASSUME undisturbed["tool"], info.quiet, Returned("tool", "loopback") PROVE siuLoop
  <2>1. script["tool"] = <<>> /\ LoopBackInv
    BY <1>1, <1>5 DEF Returned, ToolCallInv
  <2>2. /\ LoopScript \in Seq(DdlSteps) /\ Ask(LoopCmd, "ignored") \in Seq(DdlSteps)
        /\ TestMode \in Seq(DdlSteps) /\ StatusQuery(0, "loopDone") \in Seq(DdlSteps)
    BY ToolScripts DEF ReadUses
  <2>3. Step("fail", NoCommand) \in Seq(DdlSteps)
    <3>1. FailStep \in DdlSteps /\ Step("fail", NoCommand) = <<FailStep>>
      BY FailTypes
    <3>2. \A f \in DdlSteps : <<f>> \in Seq(DdlSteps)
      OBVIOUS
    <3> QED BY <3>1, <3>2
  <2>4. LoopIsOn
    BY <1>2, <2>1, <2>2, <2>3 DEF LoopBackInv, LoopAt, LoopStatusAt, AgainAt
  <2> QED BY <2>4 DEF LoopIsOn
<1>6. ASSUME undisturbed["readout"], trigger PROVE frontEnd = "sending"
  BY <1>1, <1>6 DEF StartInv
<1>7. SiuReportIsRight
  BY <1>3, Zenon DEF SiuReportIsRight
<1>8. ResetSiuIsRight
  BY <1>4, Zenon DEF ResetSiuIsRight
<1>9. LoopbackIsOn
  BY <1>5, Zenon DEF LoopbackIsOn
<1>10. TriggerReachesFrontEnd
  BY <1>6, Zenon DEF TriggerReachesFrontEnd
<1> QED BY <1>7, <1>8, <1>9, <1>10 DEF DdlIsRight

-----------------------------------------------------------------------------
(* Whatever the link does and whichever calls time out, a call of class     *)
(* Crorc that nothing disturbed tells its caller what is so, and a readout  *)
(* that has started has told its front end (Crorc.cxx, startTrigger()).     *)
THEOREM DdlStaysRight == DdlSpec => []DdlIsRight
<1>1. DdlInit => DdlInv
  BY DdlBegins
<1>2. DdlInv /\ [DdlNext]_ddlVars => DdlInv'
  BY DdlInvKept
<1>3. DdlInv => DdlIsRight
  BY DdlInvRight
<1> QED BY <1>1, <1>2, <1>3, PTL DEF DdlSpec
-----------------------------------------------------------------------------
(* A card is, among other things, a DDL: what is proved of the DDL alone   *)
(* holds of the card.                                                      *)
THEOREM CardHasDdl == CardSpec => DdlSpec
<1>1. CardInit => DdlInit
  BY DEF CardInit
<1>2. [CardNext]_partVars => [DdlNext]_ddlVars
  BY DEF CardNext, OthersRest, partVars
<1> QED BY <1>1, <1>2, PTL DEF CardSpec, DdlSpec
-----------------------------------------------------------------------------
(* The flash memory: what its words are while a tool is between two of     *)
(* its accesses. The firmware's part of the invariant says how far the     *)
(* blocks are erased and how much of the file is written, the serial       *)
(* number's how many of its words are.                                     *)
FlashWords == {"blank", "garbled", "file", "old"} \cup Serials
Verdicts == {"none", "completed", "interrupted", "threw"}
AtFirmware == {"erase", "buffer", "program"}
AtSerial == {"serialErase", "serialWrite"}

FlashTypeOK ==
  /\ flash \in [Addresses -> FlashWords]
  /\ flashPc \in {"idle"} \cup AtFirmware \cup AtSerial
  /\ address \in Nat /\ buffered \in 0..BufferWords
  /\ fileLeft \in Nat /\ fileWords \in Nat
  /\ newSerial \in Serials \cup {"none"}
  /\ interrupt \in BOOLEAN /\ fits \in BOOLEAN /\ verdict \in Verdicts
  /\ serialMay \subseteq Serials \cup {"none"}

(* The flash holds the first n words of the file, and is blank after them. *)
FileIn(n) == \A a \in 0..(Room - 1) : flash[a] = IF a < n THEN "file" ELSE "blank"

FirmwareInv ==
  /\ flashPc \in AtFirmware => newSerial = "none"
  /\ flashPc # "idle" => verdict = "none"
  /\ fits => fileWords <= Room
  /\ flashPc = "erase" =>
       /\ fileLeft = fileWords
       /\ \E k \in 0..Blocks : address = k * BlockWords
       /\ \A a \in 0..(address - 1) : flash[a] = "blank"
  /\ flashPc \in {"buffer", "program"} =>
       /\ address + fileLeft = fileWords
       /\ fits => FileIn(address)
  /\ flashPc = "program" /\ buffered < BufferWords => fileLeft = 0
  /\ CompletedMeansProgrammed

SerialInv ==
  /\ SerialKept
  /\ flashPc \in AtSerial => newSerial \in Serials /\ {newSerial, "none"} \subseteq serialMay
  /\ flashPc = "serialErase" => address = Room
  /\ flashPc = "serialWrite" =>
       /\ address \in Room..(Room + BlockWords)
       /\ \A a \in SerialWords : flash[a] = IF a < address THEN newSerial ELSE "blank"

FlashInv == FlashTypeOK /\ FirmwareInv /\ SerialInv

(* The firmware's blocks come before those of the serial number. *)
LEMMA RoomFits ==
  /\ Room \in Nat /\ BlockWords \in Nat \ {0} /\ Blocks \in Nat /\ BufferWords \in Nat
  /\ Addresses = 0..(Room + BlockWords - 1)
  /\ SerialWords \subseteq Addresses /\ Room \in SerialWords
  /\ 0..(Room - 1) \subseteq Addresses
<1>1. Room \in Nat
  BY FlashAssumption, SMT DEF Room
<1> QED BY <1>1, FlashAssumption DEF Addresses, SerialWords

(* A block that begins before the end ends by then. *)
LEMMA BlockFits ==
  ASSUME NEW k \in 0..Blocks, k * BlockWords < Room
  PROVE  /\ k * BlockWords \in Nat /\ k + 1 \in 0..Blocks
         /\ (k + 1) * BlockWords = k * BlockWords + BlockWords
         /\ k * BlockWords + BlockWords <= Room
<1>1. k \in Nat /\ Blocks \in Nat /\ BlockWords \in Nat \ {0}
  BY FlashAssumption
<1>2. k < Blocks
  BY <1>1 DEF Room
<1>3. PICK d \in Nat : Blocks = k + 1 + d
  <2>1. Blocks - k - 1 \in Nat /\ Blocks = k + 1 + (Blocks - k - 1)
    BY <1>1, <1>2
  <2> QED BY <2>1
<1>4. Blocks * BlockWords = k * BlockWords + BlockWords + d * BlockWords /\ d * BlockWords \in Nat
  BY <1>1, <1>3
<1> QED BY <1>1, <1>2, <1>4 DEF Room

(* Erasing and writing keep the words words of the flash.                  *)
LEMMA FlashWordsStay ==
  ASSUME flash \in [Addresses -> FlashWords]
  PROVE  /\ \A ws : Erased(ws) \in [Addresses -> FlashWords]
         /\ \A a, w : w \in FlashWords => Written(a, w) \in [Addresses -> FlashWords]
BY DEF Erased, Written, FlashWords

(* A serial number is read only where every word of it is written.         *)
LEMMA ReadBlank ==
  ASSUME \E a \in SerialWords : flash[a] = "blank"
  PROVE  ReadSerial = "none"
BY FlashAssumption DEF ReadSerial

LEMMA ReadWhole ==
  ASSUME NEW s \in Serials, \A a \in SerialWords : flash[a] = s
  PROVE  ReadSerial = s
BY RoomFits DEF ReadSerial

LEMMA ReadSame ==
  ASSUME \A a \in SerialWords : flash'[a] = flash[a]
  PROVE  ReadSerial' = ReadSerial
<1>1. Room \in SerialWords
  BY RoomFits
<1> QED BY <1>1 DEF ReadSerial

LEMMA FlashInitial == FlashInit => FlashInv
<1> SUFFICES ASSUME FlashInit
             PROVE  FlashInv
  OBVIOUS
<1>1. PICK s \in Serials : /\ flash = [a \in Addresses |-> IF a \in SerialWords THEN s ELSE "old"]
                           /\ serialMay = {s}
  BY DEF FlashInit
<1>2. FlashTypeOK
  <2>1. flash \in [Addresses -> FlashWords]
    BY <1>1 DEF FlashWords
  <2>2. buffered \in 0..BufferWords
    BY RoomFits DEF FlashInit
  <2> QED BY <1>1, <2>1, <2>2 DEF FlashInit, FlashTypeOK, Verdicts
<1>3. FirmwareInv
  BY RoomFits DEF FlashInit, FirmwareInv, CompletedMeansProgrammed, AtFirmware
<1>4. \A a \in SerialWords : flash[a] = s
  BY <1>1, RoomFits
<1>5. SerialInv
  BY <1>1, <1>4, ReadWhole DEF FlashInit, SerialInv, SerialKept, AtSerial
<1> QED BY <1>2, <1>3, <1>5 DEF FlashInv

(* A tool that is stopped does not say that it completed.                  *)
LEMMA EndsKeeps ==
  ASSUME FlashInv, NEW how \in Verdicts \ {"completed"}, Ends(how),
         flash' \in [Addresses -> FlashWords], (SerialKept)'
  PROVE  FlashInv'
<1>1. FlashTypeOK'
  BY DEF FlashInv, FlashTypeOK, Ends, toolVars, Verdicts
<1>2. FirmwareInv'
  BY DEF FlashInv, FirmwareInv, Ends, toolVars, CompletedMeansProgrammed, AtFirmware
<1>3. SerialInv'
  BY DEF FlashInv, SerialInv, Ends, toolVars, AtSerial
<1> QED BY <1>1, <1>2, <1>3 DEF FlashInv

(* The number of a flash whose serial words stay is read as before.        *)
LEMMA SameSerial ==
  ASSUME FlashInv, fits' => \A a \in SerialWords : flash'[a] = flash[a],
         fits' => fits, serialMay \subseteq serialMay'
  PROVE  (SerialKept)'
<1> SUFFICES ASSUME fits'
             PROVE  ReadSerial' \in serialMay'
  BY DEF SerialKept
<1>1. ReadSerial' = ReadSerial
  BY ReadSame
<1>2. ReadSerial \in serialMay
  BY DEF FlashInv, SerialInv, SerialKept
<1> QED BY <1>1, <1>2

LEMMA StaysEnds ==
  ASSUME FlashInv, NEW how \in Verdicts \ {"completed"}, Ends(how), UNCHANGED flash
  PROVE  FlashInv'
<1>1. (SerialKept)'
  BY SameSerial DEF Ends, toolVars
<1>2. flash' \in [Addresses -> FlashWords]
  BY DEF FlashInv, FlashTypeOK
<1> QED BY <1>1, <1>2, EndsKeeps

LEMMA StoppedKeeps == FlashInv /\ (Killed \/ Sigint) => FlashInv'
<1> SUFFICES ASSUME FlashInv, Killed \/ Sigint
             PROVE  FlashInv'
  OBVIOUS
<1>1. CASE Killed
  BY <1>1, StaysEnds DEF Killed, Verdicts
<1>2. CASE Sigint
  <2>1. FlashTypeOK'
    BY <1>2 DEF FlashInv, FlashTypeOK, Sigint, toolVars
  <2>2. FirmwareInv'
    BY <1>2 DEF FlashInv, FirmwareInv, Sigint, toolVars, CompletedMeansProgrammed, FileIn
  <2>3. (SerialKept)'
    BY <1>2, SameSerial DEF Sigint, toolVars
  <2>4. SerialInv'
    BY <1>2, <2>3 DEF FlashInv, SerialInv, Sigint, toolVars
  <2> QED BY <2>1, <2>2, <2>4 DEF FlashInv
<1> QED BY <1>1, <1>2

LEMMA ProgramFirmwareKeeps == FlashInv /\ ProgramFirmware => FlashInv'
<1> SUFFICES ASSUME FlashInv, ProgramFirmware
             PROVE  FlashInv'
  OBVIOUS
<1>1. PICK n \in 0..MaxFile :
        /\ flashPc' = "erase" /\ address' = 0 /\ buffered' = 0 /\ fileLeft' = n /\ fileWords' = n
        /\ fits' = (fits /\ n <= Room) /\ newSerial' = "none" /\ verdict' = "none"
        /\ interrupt' = FALSE /\ UNCHANGED <<flash, serialMay>>
  BY DEF ProgramFirmware, StartTool
<1>2. n \in Nat
  BY FlashAssumption
<1>3. FlashTypeOK'
  <2>1. buffered' \in 0..BufferWords
    BY <1>1, RoomFits
  <2>2. fits' \in BOOLEAN
    BY <1>1
  <2> QED BY <1>1, <1>2, <2>1, <2>2 DEF FlashInv, FlashTypeOK, Verdicts, AtFirmware
<1>4. FirmwareInv'
  <2>1. 0 \in 0..Blocks /\ 0 = 0 * BlockWords
    BY RoomFits
  <2>2. fits' => fileWords' <= Room
    BY <1>1
  <2>3. \E k \in 0..Blocks : address' = k * BlockWords
    BY <1>1, <2>1
  <2>4. \A a \in 0..(address' - 1) : flash'[a] = "blank"
    BY <1>1
  <2> QED BY <1>1, <2>2, <2>3, <2>4 DEF FirmwareInv, CompletedMeansProgrammed, AtFirmware
<1>5. (SerialKept)'
  BY <1>1, SameSerial
<1>6. SerialInv'
  BY <1>1, <1>5 DEF SerialInv, AtSerial
<1> QED BY <1>3, <1>4, <1>6 DEF FlashInv

(* A block of the firmware is erased, and no word of the serial number.    *)
LEMMA EraseFirmwareKeeps == FlashInv /\ EraseFirmware => FlashInv'
<1> SUFFICES ASSUME FlashInv, EraseFirmware
             PROVE  FlashInv'
  OBVIOUS
<1>t. flash \in [Addresses -> FlashWords] /\ address \in Nat
  BY DEF FlashInv, FlashTypeOK
<1>e. PICK k \in 0..Blocks : address = k * BlockWords
  BY DEF FlashInv, FirmwareInv, EraseFirmware
<1>f. ASSUME address < Room
      PROVE  /\ Erased(BlockAt(address)) \in [Addresses -> FlashWords]
             /\ \A a \in SerialWords : Erased(BlockAt(address))[a] = flash[a]
  <2>1. address + BlockWords <= Room
    BY <1>e, <1>f, BlockFits
  <2>2. \A a \in SerialWords : a \in Addresses /\ a \notin BlockAt(address)
    BY <2>1, <1>t, RoomFits DEF SerialWords, BlockAt
  <2> QED BY <2>2, <1>t, FlashWordsStay DEF Erased
<1>1. CASE Interrupted
  BY <1>1, StaysEnds DEF Interrupted, Verdicts
<1>2. CASE /\ address < Room
           /\ flash' = Erased(BlockAt(address)) /\ address' = address + BlockWords
           /\ UNCHANGED <<flashPc, buffered, fileLeft, interrupt, verdict, toolVars>>
  <2>1. k + 1 \in 0..Blocks /\ address' = (k + 1) * BlockWords
    BY <1>2, <1>e, BlockFits
  <2>2. FlashTypeOK'
    <3>1. flash' \in [Addresses -> FlashWords]
      BY <1>2, <1>f
    <3>2. address' \in Nat
      BY <1>2, <1>t, RoomFits
    <3> QED BY <1>2, <3>1, <3>2 DEF FlashInv, FlashTypeOK, toolVars
  <2>3. \A a \in 0..(address' - 1) : flash'[a] = "blank"
    <3>1. \A a \in 0..(address - 1) : flash[a] = "blank"
      BY DEF FlashInv, FirmwareInv, EraseFirmware
    <3>2. address + BlockWords <= Room
      BY <1>2, <1>e, BlockFits
    <3> QED BY <3>1, <3>2, <1>2, <1>t, RoomFits DEF Erased, BlockAt
  <2>4. FirmwareInv'
    <3>1. \E i \in 0..Blocks : address' = i * BlockWords
      BY <2>1
    <3> QED BY <1>2, <3>1, <2>3 DEF FlashInv, FirmwareInv, EraseFirmware, toolVars,
             CompletedMeansProgrammed, AtFirmware
  <2>5. (SerialKept)'
    BY <1>2, <1>f, SameSerial DEF toolVars
  <2>6. SerialInv'
    BY <1>2, <2>5 DEF FlashInv, SerialInv, EraseFirmware, toolVars, AtSerial
  <2> QED BY <2>2, <2>4, <2>6 DEF FlashInv
<1>3. CASE address < Room /\ flash' \in {flash, Erased(BlockAt(address))} /\ Stuck
  <2>1. flash' \in [Addresses -> FlashWords] /\ \A a \in SerialWords : flash'[a] = flash[a]
    BY <1>3, <1>f, <1>t
  <2>2. (SerialKept)'
    BY <1>3, <2>1, SameSerial DEF Stuck, Ends, toolVars
  <2> QED BY <1>3, <2>1, <2>2, EndsKeeps DEF Stuck, Verdicts
<1>4. CASE /\ address = Room /\ flashPc' = "buffer" /\ address' = 0
           /\ UNCHANGED <<flash, buffered, fileLeft, interrupt, verdict, toolVars>>
  <2>1. FlashTypeOK'
    BY <1>4 DEF FlashInv, FlashTypeOK, toolVars, AtFirmware
  <2>2. FirmwareInv'
    <3>1. FileIn(0)'
      BY <1>4, RoomFits DEF FlashInv, FirmwareInv, EraseFirmware, FileIn
    <3>2. address' + fileLeft' = fileWords'
      BY <1>4 DEF FlashInv, FlashTypeOK, FirmwareInv, EraseFirmware, toolVars
    <3> QED BY <1>4, <3>1, <3>2 DEF FlashInv, FirmwareInv, EraseFirmware, toolVars,
              CompletedMeansProgrammed, AtFirmware, FileIn
  <2>3. (SerialKept)'
    BY <1>4, SameSerial DEF toolVars
  <2>4. SerialInv'
    BY <1>4, <2>3 DEF FlashInv, SerialInv, EraseFirmware, toolVars, AtSerial
  <2> QED BY <2>1, <2>2, <2>4 DEF FlashInv
<1> QED BY <1>1, <1>2, <1>3, <1>4 DEF EraseFirmware

(* A word of the file is written after those before it, and not among the  *)
(* serial number's as long as the file fits.                               *)
LEMMA WriteFirmwareKeeps == FlashInv /\ WriteFirmware => FlashInv'
<1> SUFFICES ASSUME FlashInv, WriteFirmware
             PROVE  FlashInv'
  OBVIOUS
<1>t. /\ flash \in [Addresses -> FlashWords] /\ address \in Nat /\ fileLeft \in Nat
      /\ fileWords \in Nat /\ buffered \in 0..BufferWords
  BY DEF FlashInv, FlashTypeOK
<1>s. address + fileLeft = fileWords /\ (fits => FileIn(address) /\ fileWords <= Room)
  BY DEF FlashInv, FirmwareInv, WriteFirmware
<1>1. CASE Interrupted
  BY <1>1, StaysEnds DEF Interrupted, Verdicts
<1>2. CASE UNCHANGED flash /\ Stuck
  BY <1>2, StaysEnds DEF Stuck, Verdicts
<1>3. CASE /\ buffered < BufferWords /\ fileLeft > 0
           /\ flash' = IF address \in Addresses THEN Written(address, "file") ELSE flash
           /\ address' = address + 1 /\ buffered' = buffered + 1 /\ fileLeft' = fileLeft - 1
           /\ UNCHANGED <<flashPc, interrupt, verdict, toolVars>>
  <2>1. FlashTypeOK'
    <3>1. flash' \in [Addresses -> FlashWords]
      BY <1>3, <1>t, FlashWordsStay DEF FlashWords
    <3>2. address' \in Nat /\ buffered' \in 0..BufferWords /\ fileLeft' \in Nat
      BY <1>3, <1>t, RoomFits
    <3> QED BY <1>3, <3>1, <3>2 DEF FlashInv, FlashTypeOK, toolVars
  <2>2. ASSUME fits
        PROVE  address < Room /\ address \in Addresses
    BY <2>2, <1>3, <1>s, <1>t, RoomFits
  <2>3. ASSUME fits, NEW a \in 0..(Room - 1)
        PROVE  flash'[a] = IF a < address' THEN "file" ELSE "blank"
    <3>1. flash' = Written(address, "file") /\ a \in Addresses /\ a \in Nat
      BY <1>3, <2>2, <2>3, RoomFits
    <3>2. flash[a] = IF a < address THEN "file" ELSE "blank"
      BY <1>s, <2>3 DEF FileIn
    <3>3. address' = address + 1
      BY <1>3
    <3> QED BY <3>1, <3>2, <3>3, <1>t DEF Written
  <2>4. FirmwareInv'
    <3>1. address' + fileLeft' = fileWords'
      BY <1>3, <1>s, <1>t DEF toolVars
    <3>2. flashPc = "buffer" /\ flashPc' = "buffer" /\ verdict' = "none" /\ newSerial' = "none"
      BY <1>3 DEF FlashInv, FirmwareInv, WriteFirmware, toolVars, AtFirmware
    <3>3. fits' => fileWords' <= Room
      BY <1>3, <1>s DEF toolVars
    <3>4. fits' => FileIn(address)'
      BY <2>3, <1>3 DEF toolVars, FileIn, Room
    <3> QED BY <3>1, <3>2, <3>3, <3>4 DEF FirmwareInv, CompletedMeansProgrammed, AtFirmware
  <2>5. (SerialKept)'
    <3>1. ASSUME fits, NEW a \in SerialWords
          PROVE  flash'[a] = flash[a]
      <4>1. a # address /\ a \in Addresses
        BY <2>2, <3>1, RoomFits, <1>t DEF SerialWords
      <4> QED BY <4>1, <1>3, <2>2, <3>1, <1>t DEF Written
    <3> QED BY <3>1, <1>3, SameSerial DEF toolVars
  <2>6. SerialInv'
    BY <1>3, <2>5 DEF FlashInv, SerialInv, WriteFirmware, toolVars, AtSerial
  <2> QED BY <2>1, <2>4, <2>6 DEF FlashInv
<1>4. CASE /\ buffered = BufferWords \/ fileLeft = 0
           /\ flashPc' = "program"
           /\ UNCHANGED <<flash, address, buffered, fileLeft, interrupt, verdict, toolVars>>
  <2>1. FlashTypeOK'
    BY <1>4 DEF FlashInv, FlashTypeOK, toolVars, AtFirmware
  <2>2. FirmwareInv'
    <3>1. buffered' < BufferWords => fileLeft' = 0
      BY <1>4, <1>t, RoomFits
    <3>2. fits' => FileIn(address)'
      BY <1>4, <1>s DEF FileIn, toolVars
    <3> QED BY <1>4, <1>s, <3>1, <3>2 DEF FlashInv, FirmwareInv, WriteFirmware, toolVars,
              CompletedMeansProgrammed, AtFirmware
  <2>3. (SerialKept)'
    BY <1>4, SameSerial DEF toolVars
  <2>4. SerialInv'
    BY <1>4, <2>3 DEF FlashInv, SerialInv, WriteFirmware, toolVars, AtSerial
  <2> QED BY <2>1, <2>2, <2>4 DEF FlashInv
<1> QED BY <1>1, <1>2, <1>3, <1>4 DEF WriteFirmware

(* The last buffer was not full: by then the whole file is written.        *)
LEMMA ProgramBufferKeeps == FlashInv /\ ProgramBuffer => FlashInv'
<1> SUFFICES ASSUME FlashInv, ProgramBuffer
             PROVE  FlashInv'
  OBVIOUS
<1>1. CASE Interrupted
  BY <1>1, StaysEnds DEF Interrupted, Verdicts
<1>2. CASE UNCHANGED flash /\ Stuck
  BY <1>2, StaysEnds DEF Stuck, Verdicts
<1>3. CASE /\ buffered = BufferWords /\ flashPc' = "buffer" /\ buffered' = 0
           /\ UNCHANGED <<flash, address, fileLeft, interrupt, verdict, toolVars>>
  <2>1. FlashTypeOK'
    <3>1. buffered' \in 0..BufferWords
      BY <1>3, RoomFits
    <3> QED BY <1>3, <3>1 DEF FlashInv, FlashTypeOK, toolVars, AtFirmware
  <2>2. FirmwareInv'
    BY <1>3 DEF FlashInv, FirmwareInv, ProgramBuffer, toolVars, AtFirmware, FileIn,
         CompletedMeansProgrammed
  <2>3. (SerialKept)'
    BY <1>3, SameSerial DEF toolVars
  <2>4. SerialInv'
    BY <1>3, <2>3 DEF FlashInv, SerialInv, ProgramBuffer, toolVars, AtSerial
  <2> QED BY <2>1, <2>2, <2>4 DEF FlashInv
<1>4. CASE buffered < BufferWords /\ Ends("completed") /\ UNCHANGED flash
  <2>1. FlashTypeOK'
    BY <1>4 DEF FlashInv, FlashTypeOK, Ends, toolVars, Verdicts
  <2>2. fits => FileIn(fileWords)
    <3>1. address + fileLeft = fileWords /\ fileLeft = 0
      BY <1>4 DEF FlashInv, FirmwareInv, ProgramBuffer
    <3>2. address = fileWords
      BY <3>1 DEF FlashInv, FlashTypeOK
    <3> QED BY <3>2 DEF FlashInv, FirmwareInv, ProgramBuffer
  <2>3. FirmwareInv'
    BY <1>4, <2>2 DEF FlashInv, FirmwareInv, Ends, toolVars, AtFirmware, FileIn,
         CompletedMeansProgrammed
  <2>4. (SerialKept)'
    BY <1>4, SameSerial DEF Ends, toolVars
  <2>5. SerialInv'
    BY <1>4, <2>4 DEF SerialInv, Ends, AtSerial
  <2> QED BY <2>1, <2>3, <2>5 DEF FlashInv
<1> QED BY <1>1, <1>2, <1>3, <1>4 DEF ProgramBuffer

LEMMA SetSerialKeeps == FlashInv /\ SetSerial => FlashInv'
<1> SUFFICES ASSUME FlashInv, SetSerial
             PROVE  FlashInv'
  OBVIOUS
<1>1. PICK s \in Serials :
        /\ flashPc' = "serialErase" /\ newSerial' = s /\ address' = Room
        /\ serialMay' = serialMay \cup {s, "none"} /\ verdict' = "none" /\ interrupt' = FALSE
        /\ UNCHANGED <<flash, buffered, fileLeft, fileWords, fits>>
  BY DEF SetSerial, StartTool
<1>2. FlashTypeOK'
  BY <1>1, RoomFits DEF FlashInv, FlashTypeOK, Verdicts, AtSerial
<1>3. FirmwareInv'
  BY <1>1 DEF FlashInv, FirmwareInv, CompletedMeansProgrammed, AtFirmware
<1>4. (SerialKept)'
  BY <1>1, SameSerial
<1>5. SerialInv'
  BY <1>1, <1>4 DEF SerialInv
<1> QED BY <1>2, <1>3, <1>5 DEF FlashInv

(* An erased serial number is none.                                        *)
LEMMA EraseSerialKeeps == FlashInv /\ EraseSerial => FlashInv'
<1> SUFFICES ASSUME FlashInv, EraseSerial
             PROVE  FlashInv'
  OBVIOUS
<1>1. /\ flash \in [Addresses -> FlashWords] /\ address = Room
      /\ {newSerial, "none"} \subseteq serialMay /\ newSerial \in Serials
      /\ flashPc = "serialErase" /\ verdict = "none"
  BY DEF FlashInv, FlashTypeOK, FirmwareInv, SerialInv, EraseSerial, AtSerial
<1>2. ASSUME flash' = Erased(SerialWords), serialMay' = serialMay
      PROVE  /\ flash' \in [Addresses -> FlashWords] /\ (SerialKept)'
             /\ \A a \in SerialWords : flash'[a] = "blank"
  <2>1. flash' \in [Addresses -> FlashWords]
    BY <1>1, <1>2, FlashWordsStay
  <2>2. \A a \in SerialWords : flash'[a] = "blank"
    BY <1>2, RoomFits DEF Erased
  <2>3. (\E a \in SerialWords : flash[a] = "blank")'
    BY <2>2, RoomFits DEF SerialWords, Room
  <2>4. ReadSerial' = "none"
    BY <2>3, FlashAssumption DEF ReadSerial, SerialWords, Room
  <2> QED BY <1>1, <1>2, <2>1, <2>2, <2>4 DEF SerialKept
<1>3. CASE /\ flash' = Erased(SerialWords) /\ flashPc' = "serialWrite"
           /\ UNCHANGED <<address, buffered, fileLeft, interrupt, verdict, toolVars>>
  <2>1. serialMay' = serialMay
    BY <1>3 DEF toolVars
  <2>2. FlashTypeOK'
    BY <1>2, <1>3, <2>1 DEF FlashInv, FlashTypeOK, toolVars, AtSerial
  <2>3. FirmwareInv'
    BY <1>1, <1>3 DEF FlashInv, FirmwareInv, toolVars, CompletedMeansProgrammed, AtFirmware
  <2>4. SerialInv'
    <3>1. address' \in Room..(Room + BlockWords)
      BY <1>1, <1>3, RoomFits
    <3>2. \A a \in SerialWords : flash'[a] = IF a < address' THEN newSerial' ELSE "blank"
      BY <1>1, <1>2, <1>3, <2>1, RoomFits DEF SerialWords
    <3>3. (\A a \in SerialWords : flash[a] = IF a < address THEN newSerial ELSE "blank")'
      BY <3>2 DEF SerialWords, Room
    <3>4. (address \in Room..(Room + BlockWords))'
      BY <3>1 DEF Room
    <3>5. newSerial' \in Serials /\ {newSerial', "none"} \subseteq serialMay'
      BY <1>1, <1>3 DEF toolVars
    <3> QED BY <1>2, <1>3, <2>1, <3>3, <3>4, <3>5 DEF SerialInv
  <2> QED BY <2>2, <2>3, <2>4 DEF FlashInv
<1>4. CASE flash' \in {flash, Erased(SerialWords)} /\ Stuck
  <2>1. CASE flash' = flash
    BY <1>4, <2>1, StaysEnds DEF Stuck, Verdicts
  <2>2. CASE flash' = Erased(SerialWords)
    <3>1. serialMay' = serialMay
      BY <1>4 DEF Stuck, Ends, toolVars
    <3> QED BY <1>2, <1>4, <2>2, <3>1, EndsKeeps DEF Stuck, Verdicts
  <2> QED BY <1>4, <2>1, <2>2
<1> QED BY <1>3, <1>4 DEF EraseSerial

(* A number of which words are missing is none; with its last word it is   *)
(* the new one.                                                            *)
LEMMA WriteSerialKeeps == FlashInv /\ WriteSerial => FlashInv'
<1> SUFFICES ASSUME FlashInv, WriteSerial
             PROVE  FlashInv'
  OBVIOUS
<1>1. /\ flash \in [Addresses -> FlashWords] /\ address \in Room..(Room + BlockWords)
      /\ {newSerial, "none"} \subseteq serialMay /\ newSerial \in Serials
      /\ flashPc = "serialWrite" /\ verdict = "none"
      /\ \A a \in SerialWords : flash[a] = IF a < address THEN newSerial ELSE "blank"
  BY DEF FlashInv, FlashTypeOK, FirmwareInv, SerialInv, WriteSerial, AtSerial
<1>2. CASE /\ address \in SerialWords /\ flash' = Written(address, newSerial)
  <2>1. flash' \in [Addresses -> FlashWords]
    BY <1>1, <1>2, FlashWordsStay DEF FlashWords
  <2>2. \A a \in SerialWords : flash'[a] = IF a < address + 1 THEN newSerial ELSE "blank"
    <3> SUFFICES ASSUME NEW a \in SerialWords
                 PROVE  flash'[a] = IF a < address + 1 THEN newSerial ELSE "blank"
      OBVIOUS
    <3>1. a \in Nat /\ address \in Nat /\ a \in Addresses
      BY <1>1, RoomFits DEF SerialWords
    <3>2. flash[address] = "blank"
      BY <1>1, <1>2, <3>1
    <3> QED BY <1>1, <1>2, <3>1, <3>2 DEF Written
  <2>3. ReadSerial' \in {newSerial, "none"}
    <3>1. CASE address + 1 = Room + BlockWords
      <4>1. \A a \in SerialWords : flash'[a] = newSerial
        BY <2>2, <3>1, RoomFits DEF SerialWords
      <4>2. \A s \in Serials : (\A a \in SerialWords : flash'[a] = s) => ReadSerial' = s
        BY RoomFits DEF ReadSerial
      <4> QED BY <1>1, <4>1, <4>2
    <3>2. CASE address + 1 # Room + BlockWords
      <4>1. address + 1 \in SerialWords /\ flash'[address + 1] = "blank"
        BY <1>1, <1>2, <2>2, <3>2, RoomFits DEF SerialWords
      <4>2. ReadSerial' = "none"
        BY <4>1, FlashAssumption DEF ReadSerial
      <4> QED BY <4>2
    <3> QED BY <3>1, <3>2
  <2>4. serialMay' = serialMay => (SerialKept)'
    BY <1>1, <2>3 DEF SerialKept
  <2>5. CASE /\ address' = address + 1
             /\ UNCHANGED <<flashPc, buffered, fileLeft, interrupt, verdict, toolVars>>
    <3>1. address' \in Nat /\ address' \in Room..(Room + BlockWords)
      BY <1>1, <1>2, <2>5, RoomFits DEF SerialWords
    <3>2. FlashTypeOK'
      BY <2>1, <2>5, <3>1 DEF FlashInv, FlashTypeOK, toolVars
    <3>3. FirmwareInv'
      BY <1>1, <2>5 DEF FlashInv, FirmwareInv, toolVars, CompletedMeansProgrammed, AtFirmware
    <3>4. \A a \in SerialWords : flash'[a] = IF a < address' THEN newSerial' ELSE "blank"
      BY <2>2, <2>5 DEF toolVars
    <3>5. serialMay' = serialMay /\ newSerial' = newSerial /\ flashPc' = "serialWrite"
      BY <1>1, <2>5 DEF toolVars
    <3>6. SerialInv'
      BY <1>1, <2>4, <3>1, <3>4, <3>5 DEF SerialInv
    <3> QED BY <3>2, <3>3, <3>6 DEF FlashInv
  <2>6. CASE Stuck
    <3>1. Ends("threw") /\ serialMay' = serialMay /\ "threw" \in Verdicts \ {"completed"}
      BY <2>6 DEF Stuck, Ends, toolVars, Verdicts
    <3> QED BY <2>1, <2>4, <3>1, EndsKeeps
  <2> QED BY <1>2, <2>5, <2>6 DEF WriteSerial
<1>3. CASE /\ address \notin SerialWords
           /\ flashPc' = "idle" /\ verdict' = "completed" /\ serialMay' = {newSerial}
           /\ UNCHANGED <<flash, address, buffered, fileLeft, fileWords, newSerial, interrupt, fits>>
  <2>1. \A a \in SerialWords : flash[a] = newSerial
    BY <1>1, <1>3, RoomFits DEF SerialWords
  <2>2. ReadSerial = newSerial
    BY <1>1, <2>1, ReadWhole
  <2>3. (SerialKept)'
    BY <1>3, <2>2, ReadSame DEF SerialKept
  <2>4. FlashTypeOK'
    BY <1>1, <1>3 DEF FlashInv, FlashTypeOK, Verdicts
  <2>5. FirmwareInv'
    <3>1. newSerial' # "none"
      BY <1>1, <1>3, FlashAssumption
    <3> QED BY <1>3, <3>1 DEF FlashInv, FirmwareInv, CompletedMeansProgrammed, AtFirmware
  <2>6. SerialInv'
    BY <1>3, <2>3 DEF SerialInv, AtSerial
  <2> QED BY <2>4, <2>5, <2>6 DEF FlashInv
<1> QED BY <1>2, <1>3 DEF WriteSerial

LEMMA FlashStep == FlashInv /\ [FlashNext]_flashVars => FlashInv'
<1>1. ASSUME FlashInv, UNCHANGED flashVars
      PROVE  FlashInv'
  <2>1. FlashTypeOK'
    BY <1>1 DEF FlashInv, FlashTypeOK, flashVars
  <2>2. FirmwareInv'
    BY <1>1 DEF FlashInv, FirmwareInv, flashVars, FileIn, CompletedMeansProgrammed
  <2>3. (SerialKept)'
    BY <1>1, SameSerial DEF flashVars
  <2>4. SerialInv'
    BY <1>1, <2>3 DEF FlashInv, SerialInv, flashVars
  <2> QED BY <2>1, <2>2, <2>4 DEF FlashInv
<1> QED BY <1>1, StoppedKeeps, ProgramFirmwareKeeps, EraseFirmwareKeeps, WriteFirmwareKeeps,
           ProgramBufferKeeps, SetSerialKeeps, EraseSerialKeeps, WriteSerialKeeps DEF FlashNext
-----------------------------------------------------------------------------
(* The registers: which accesses a call consists of, which fields each     *)
(* process writes, and what a register read for a modification still says. *)
FieldValues == {0, 1} \cup
          UNION {{r.offset, r.id % 2^IdBits, r.length, r.detect} : r \in RegisterRequests}

Modified == {"control", "controlB", "generator"}
FieldsOf(reg) == IF reg = "control" THEN {"offset", "id"}
                 ELSE IF reg = "controlB" THEN {"length", "detect", "flush"} ELSE {"on"}
AreRegisters(rf) ==
  /\ DOMAIN rf = Modified \cup {"csr"} /\ rf = [reg \in DOMAIN rf |-> rf[reg]]
  /\ \A reg \in Modified : rf[reg] \in [FieldsOf(reg) -> FieldValues]
  /\ rf.csr \in [rx : BOOLEAN, loop : BOOLEAN]

FieldUpdates(reg, fields) == [reg : {reg}, field : fields, value : FieldValues]
Updates(p) == IF p = "config"
              THEN FieldUpdates("control", {"offset", "id"}) \cup FieldUpdates("controlB", {"length", "detect"})
              ELSE FieldUpdates("generator", {"on"}) \cup FieldUpdates("controlB", {"flush"})
Modification(u) == [op |-> "modify", reg |-> u.reg, field |-> u.field, value |-> u.value]
AccessesOf(p) == {Modification(u) : u \in Updates(p)}
            \cup [op : IF p = "config" THEN {"laser", "throw"} ELSE {"reset", "receive", "loop", "quiet"}]

Reading(p) == held[p] # Nothing
HeldRightly(p) ==
  /\ todo[p] # <<>> /\ Head(todo[p]).op = "modify" /\ held[p].reg = Head(todo[p]).reg
  /\ held[p].reg \in Modified /\ held[p].value \in [FieldsOf(held[p].reg) -> FieldValues]

RegTypeOK ==
  /\ AreRegisters(regs) /\ generating \in BOOLEAN
  /\ todo \in [RegUser -> Seq(AccessesOf("config") \cup AccessesOf("readout"))]
  /\ \A p \in RegUser : todo[p] \in Seq(AccessesOf(p))
  /\ held = [p \in RegUser |-> held[p]] /\ \A p \in RegUser : Reading(p) => HeldRightly(p)
  /\ settled = [p \in RegUser |-> settled[p]]
  /\ \A p \in RegUser : settled[p] \subseteq Updates(p)

(* A register that was read and not written back says what it said then,   *)
(* unless two modifications of it overlap.                                 *)
RaceInv ==
  /\ \A p \in RegUser : Reading(p) /\ held[p].reg \notin raced => held[p].value = regs[held[p].reg]
  /\ \A p, q \in RegUser : p # q /\ Reading(p) /\ held[p].reg = held[q].reg => held[p].reg \in raced
  /\ UpdatesSurvive

(* What is left of startDma() and stopDma(), and the bits by then.         *)
ResetStep == [op |-> "reset"]
ReceiveStep == [op |-> "receive"]
LoopbackStep == [op |-> "loop"]
QuietStep == [op |-> "quiet"]
GenerateStep(on) == Modification([reg |-> "generator", field |-> "on", value |-> on])
FlushStep == Modification([reg |-> "controlB", field |-> "flush", value |-> 1])

StartingInv(t) ==
  \/ t \in {<<ResetStep, ReceiveStep>>, <<ResetStep, ReceiveStep, LoopbackStep, GenerateStep(1)>>}
  \/ t \in {<<ReceiveStep>>, <<ReceiveStep, LoopbackStep, GenerateStep(1)>>} /\ ~regs.csr.rx /\ ~regs.csr.loop
  \/ t = <<LoopbackStep, GenerateStep(1)>> /\ regs.csr.rx /\ ~regs.csr.loop
  \/ t = <<GenerateStep(1)>> /\ regs.csr.rx
StoppingInv(t) ==
  \/ t \in {<<GenerateStep(0), FlushStep, QuietStep, QuietStep>>, <<FlushStep, QuietStep, QuietStep>>, <<QuietStep, QuietStep>>}
       /\ regs.csr.rx
  \/ t = <<QuietStep>> /\ ~regs.csr.rx /\ ~regs.csr.loop

ReceiverInv ==
  /\ phase \in {"closed", "starting", "started", "stopping", "stopped"}
  /\ phase \in {"closed", "started", "stopped"} => todo["readout"] = <<>>
  /\ phase = "starting" => StartingInv(todo["readout"])
  /\ phase = "stopping" => StoppingInv(todo["readout"])
  /\ ReceiverFollows

RegInv == RegTypeOK /\ RaceInv /\ ReceiverInv

(* Short sequences, put together.                                          *)
LEMMA Joined ==
  ASSUME NEW S, NEW a \in S, NEW b \in S, NEW c \in S, NEW d \in S
  PROVE  /\ <<a>> \o <<b>> = <<a, b>> /\ <<a, b>> \o <<c>> = <<a, b, c>>
         /\ <<a, b, c>> \o <<d>> = <<a, b, c, d>>
         /\ <<a, b>> \o (<<c>> \o <<d>>) = <<a, b, c, d>>
         /\ <<a, b>> \o <<>> = <<a, b>> /\ <<>> \o <<a>> = <<a>>
<1> DEFINE s1 == <<a>>
           s2 == <<a, b>>
           s3 == <<a, b, c>>
           s4 == <<a, b, c, d>>
<1>s. s1 \in Seq(S) /\ Len(s1) = 1 /\ s1[1] = a
  OBVIOUS
<1>t. s2 \in Seq(S) /\ Len(s2) = 2 /\ s2[1] = a /\ s2[2] = b
  OBVIOUS
<1>u. s3 \in Seq(S) /\ Len(s3) = 3 /\ s3[1] = a /\ s3[2] = b /\ s3[3] = c
  OBVIOUS
<1>v. s4 \in Seq(S) /\ Len(s4) = 4 /\ s4[1] = a /\ s4[2] = b /\ s4[3] = c /\ s4[4] = d
  OBVIOUS
<1> HIDE DEF s1, s2, s3, s4
<1>1. s1 \o <<b>> = s2
  <2>1. Len(s2) = Len(s1) + 1 /\ s2[Len(s2)] = b /\ \A i \in 1 .. Len(s1) : s2[i] = s1[i]
    BY <1>s, <1>t
  <2> QED BY <1>s, <1>t, <2>1, Extended
<1>2. s2 \o <<c>> = s3
  <2>1. Len(s3) = Len(s2) + 1 /\ s3[Len(s3)] = c /\ \A i \in 1 .. Len(s2) : s3[i] = s2[i]
    BY <1>t, <1>u
  <2> QED BY <1>t, <1>u, <2>1, Extended
<1>3. s3 \o <<d>> = s4
  <2>1. Len(s4) = Len(s3) + 1 /\ s4[Len(s4)] = d /\ \A i \in 1 .. Len(s3) : s4[i] = s3[i]
    BY <1>u, <1>v
  <2> QED BY <1>u, <1>v, <2>1, Extended
<1>4. /\ <<a>> \o <<b>> = <<a, b>> /\ <<a, b>> \o <<c>> = <<a, b, c>>
      /\ <<a, b, c>> \o <<d>> = <<a, b, c, d>>
  BY <1>1, <1>2, <1>3 DEF s1, s2, s3, s4
<1>c. <<a>> \in Seq(S) /\ <<a, b>> \in Seq(S) /\ <<c>> \in Seq(S) /\ <<d>> \in Seq(S)
  OBVIOUS
<1>5. <<a, b>> \o (<<c>> \o <<d>>) = (<<a, b>> \o <<c>>) \o <<d>>
  BY <1>c, ConcatAssociative
<1>6. <<a, b>> \o <<>> = <<a, b>> /\ <<>> \o <<a>> = <<a>>
  BY <1>c, ConcatEmptySeq
<1> QED BY <1>4, <1>5, <1>6

ReadoutAccesses == {ResetStep, ReceiveStep, LoopbackStep, QuietStep, GenerateStep(0), GenerateStep(1), FlushStep}

LEMMA CallAccesses ==
  /\ StartCrorc(FALSE) = <<ResetStep, ReceiveStep>>
  /\ StartCrorc(TRUE) = <<ResetStep, ReceiveStep, LoopbackStep, GenerateStep(1)>>
  /\ StopCrorc(FALSE) = <<FlushStep, QuietStep, QuietStep>>
  /\ StopCrorc(TRUE) = <<GenerateStep(0), FlushStep, QuietStep, QuietStep>>
<1>1. /\ Access("reset") = <<ResetStep>> /\ Access("receive") = <<ReceiveStep>>
      /\ Access("loop") = <<LoopbackStep>> /\ Access("quiet") = <<QuietStep>>
      /\ \A v : Modify("generator", "on", v) = <<GenerateStep(v)>>
      /\ Modify("controlB", "flush", 1) = <<FlushStep>>
  BY DEF Access, Modify, ResetStep, ReceiveStep, LoopbackStep, QuietStep, GenerateStep, FlushStep, Modification
<1>2. /\ ResetStep \in ReadoutAccesses /\ ReceiveStep \in ReadoutAccesses
      /\ LoopbackStep \in ReadoutAccesses /\ QuietStep \in ReadoutAccesses
      /\ GenerateStep(0) \in ReadoutAccesses /\ GenerateStep(1) \in ReadoutAccesses
      /\ FlushStep \in ReadoutAccesses
  BY DEF ReadoutAccesses
<1>3. /\ StartCrorc(FALSE) = (<<ResetStep>> \o <<ReceiveStep>>) \o <<>>
      /\ StartCrorc(TRUE) = (<<ResetStep>> \o <<ReceiveStep>>) \o (<<LoopbackStep>> \o <<GenerateStep(1)>>)
      /\ StopCrorc(FALSE) = ((<<>> \o <<FlushStep>>) \o <<QuietStep>>) \o <<QuietStep>>
      /\ StopCrorc(TRUE) = ((<<GenerateStep(0)>> \o <<FlushStep>>) \o <<QuietStep>>) \o <<QuietStep>>
  BY <1>1 DEF StartCrorc, StopCrorc
<1>i. \A a, b, c, d \in ReadoutAccesses :
        /\ <<a>> \o <<b>> = <<a, b>> /\ <<a, b>> \o <<c>> = <<a, b, c>>
        /\ <<a, b, c>> \o <<d>> = <<a, b, c, d>>
        /\ <<a, b>> \o (<<c>> \o <<d>>) = <<a, b, c, d>>
        /\ <<a, b>> \o <<>> = <<a, b>> /\ <<>> \o <<a>> = <<a>>
  BY Joined
<1>j. \A a, b, c \in ReadoutAccesses :
        /\ <<a>> \o <<b>> = <<a, b>> /\ <<a, b>> \o <<c>> = <<a, b, c>>
        /\ <<a, b>> \o <<>> = <<a, b>> /\ <<>> \o <<a>> = <<a>>
  BY <1>i
<1>l. \A a, b, c, d \in ReadoutAccesses : <<a, b, c>> \o <<d>> = <<a, b, c, d>>
  BY <1>i
<1>m. \A a, b, c, d \in ReadoutAccesses : <<a, b>> \o (<<c>> \o <<d>>) = <<a, b, c, d>>
  BY <1>i
<1>4. StartCrorc(FALSE) = <<ResetStep, ReceiveStep>>
  <2>1. <<ResetStep>> \o <<ReceiveStep>> = <<ResetStep, ReceiveStep>>
    BY <1>2, <1>j
  <2>2. <<ResetStep, ReceiveStep>> \o <<>> = <<ResetStep, ReceiveStep>>
    BY <1>2, <1>j
  <2> QED BY <1>3, <2>1, <2>2
<1>5. StartCrorc(TRUE) = <<ResetStep, ReceiveStep, LoopbackStep, GenerateStep(1)>>
  <2>1. <<ResetStep>> \o <<ReceiveStep>> = <<ResetStep, ReceiveStep>>
    BY <1>2, <1>j
  <2>2. <<ResetStep, ReceiveStep>> \o (<<LoopbackStep>> \o <<GenerateStep(1)>>)
          = <<ResetStep, ReceiveStep, LoopbackStep, GenerateStep(1)>>
    BY <1>2, <1>m
  <2> QED BY <1>3, <2>1, <2>2
<1>6. StopCrorc(FALSE) = <<FlushStep, QuietStep, QuietStep>>
  <2>1. <<>> \o <<FlushStep>> = <<FlushStep>>
    BY <1>2, <1>j
  <2>2. <<FlushStep>> \o <<QuietStep>> = <<FlushStep, QuietStep>>
    BY <1>2, <1>j
  <2>3. <<FlushStep, QuietStep>> \o <<QuietStep>> = <<FlushStep, QuietStep, QuietStep>>
    BY <1>2, <1>j
  <2> QED BY <1>3, <2>1, <2>2, <2>3
<1>7. StopCrorc(TRUE) = <<GenerateStep(0), FlushStep, QuietStep, QuietStep>>
  <2>1. <<GenerateStep(0)>> \o <<FlushStep>> = <<GenerateStep(0), FlushStep>>
    BY <1>2, <1>j
  <2>2. <<GenerateStep(0), FlushStep>> \o <<QuietStep>>
          = <<GenerateStep(0), FlushStep, QuietStep>>
    BY <1>2, <1>j
  <2>3. <<GenerateStep(0), FlushStep, QuietStep>> \o <<QuietStep>>
          = <<GenerateStep(0), FlushStep, QuietStep, QuietStep>>
    BY <1>2, <1>l
  <2> QED BY <1>3, <2>1, <2>2, <2>3
<1>8. QED
  BY <1>4, <1>5, <1>6, <1>7

LEMMA ReadoutSteps ==
  {ResetStep, ReceiveStep, LoopbackStep, QuietStep, GenerateStep(0), GenerateStep(1), FlushStep} \subseteq AccessesOf("readout")
<1>1. {ResetStep, ReceiveStep, LoopbackStep, QuietStep} \subseteq AccessesOf("readout")
  BY DEF AccessesOf, ResetStep, ReceiveStep, LoopbackStep, QuietStep
<1>v. {0, 1} \subseteq FieldValues
  BY DEF FieldValues
<1>2. \A v \in {0, 1} : [reg |-> "generator", field |-> "on", value |-> v] \in Updates("readout")
  BY <1>v DEF Updates, FieldUpdates
<1>3. [reg |-> "controlB", field |-> "flush", value |-> 1] \in Updates("readout")
  BY <1>v DEF Updates, FieldUpdates
<1>4. {GenerateStep(0), GenerateStep(1), FlushStep} \subseteq AccessesOf("readout")
  BY <1>2, <1>3 DEF AccessesOf, GenerateStep, FlushStep
<1> QED BY <1>1, <1>4

LEMMA ConfigureSteps ==
  ASSUME NEW r \in RegisterRequests
  PROVE  ConfigureCrorc(r) \in Seq(AccessesOf("config"))
<1> DEFINE id == r.id % 2^IdBits
<1>1. {r.offset, id, r.length, r.detect} \subseteq FieldValues
  BY DEF FieldValues
<1> HIDE DEF id
<1>2. \A f \in {"offset", "id"}, v \in FieldValues :
        [op |-> "modify", reg |-> "control", field |-> f, value |-> v] \in AccessesOf("config")
  <2> TAKE f \in {"offset", "id"}, v \in FieldValues
  <2>1. [reg |-> "control", field |-> f, value |-> v] \in Updates("config")
    BY DEF Updates, FieldUpdates
  <2> QED BY <2>1 DEF AccessesOf, Modification
<1>3. \A f \in {"length", "detect"}, v \in FieldValues :
        [op |-> "modify", reg |-> "controlB", field |-> f, value |-> v] \in AccessesOf("config")
  <2> TAKE f \in {"length", "detect"}, v \in FieldValues
  <2>1. [reg |-> "controlB", field |-> f, value |-> v] \in Updates("config")
    BY DEF Updates, FieldUpdates
  <2> QED BY <2>1 DEF AccessesOf, Modification
<1>4. /\ Access("laser") \in Seq(AccessesOf("config")) /\ Access("throw") \in Seq(AccessesOf("config"))
  BY DEF Access, AccessesOf
<1>5. /\ Modify("control", "offset", r.offset) \in Seq(AccessesOf("config"))
      /\ Modify("control", "id", id) \in Seq(AccessesOf("config"))
  BY <1>1, <1>2 DEF Modify
<1>6. /\ Modify("controlB", "length", r.length) \in Seq(AccessesOf("config"))
      /\ Modify("controlB", "detect", r.detect) \in Seq(AccessesOf("config"))
  BY <1>1, <1>3 DEF Modify
<1>7. SetTimeFrameLength(r.length) \in Seq(AccessesOf("config"))
  BY <1>4, <1>6 DEF SetTimeFrameLength
<1>8. ConfigureCrorc(r) = Access("laser") \o Modify("control", "offset", r.offset)
        \o Modify("control", "id", id) \o SetTimeFrameLength(r.length)
        \o Modify("controlB", "detect", r.detect)
  BY DEF ConfigureCrorc, id
<1> QED BY <1>4, <1>5, <1>6, <1>7, <1>8, ConcatProperties

LEMMA Remainders ==
  \A a, b, c, d : /\ Len(<<a>>) = 1 /\ Head(<<a>>) = a /\ Tail(<<a>>) = <<>>
                  /\ Len(<<a, b>>) = 2 /\ Head(<<a, b>>) = a /\ Tail(<<a, b>>) = <<b>>
                  /\ Len(<<a, b, c>>) = 3 /\ Head(<<a, b, c>>) = a /\ Tail(<<a, b, c>>) = <<b, c>>
                  /\ Len(<<a, b, c, d>>) = 4 /\ Head(<<a, b, c, d>>) = a
                  /\ Tail(<<a, b, c, d>>) = <<b, c, d>>
OBVIOUS

LEMMA RegInitial == RegInit => RegInv
<1> SUFFICES ASSUME RegInit
             PROVE  RegInv
  OBVIOUS
<1>1. PICK r \in RegisterRequests : regs = Configured(r)
  BY DEF RegInit
<1>2. {r.offset, r.id % 2^IdBits, r.length, r.detect, 0} \subseteq FieldValues
  BY DEF FieldValues
<1>3. AreRegisters(regs)
  BY <1>1, <1>2 DEF Configured, AreRegisters, Modified, FieldsOf
<1>4. /\ todo = [p \in RegUser |-> <<>>] /\ held = [p \in RegUser |-> Nothing]
      /\ settled = [p \in RegUser |-> {}] /\ raced = {} /\ phase = "closed" /\ generating = FALSE
  BY DEF RegInit
<1>5. RegTypeOK
  <2>1. \A S : <<>> \in Seq(S)
    OBVIOUS
  <2>2. \A p \in RegUser : ~Reading(p)
    BY <1>4 DEF Reading
  <2> QED BY <1>3, <1>4, <2>1, <2>2 DEF RegTypeOK
<1>6. RaceInv
  BY <1>4 DEF RaceInv, Reading, UpdatesSurvive
<1>7. ReceiverInv
  BY <1>4 DEF ReceiverInv, ReceiverFollows, RegUser
<1> QED BY <1>5, <1>6, <1>7 DEF RegInv

(* The next access of a process is one of its own.                         *)
LEMMA NextAccess ==
  ASSUME RegTypeOK, NEW p \in RegUser, todo[p] # <<>>
  PROVE  /\ Head(todo[p]) \in AccessesOf(p) /\ Tail(todo[p]) \in Seq(AccessesOf(p))
         /\ Head(todo[p]).op = "modify" => \E u \in Updates(p) : Head(todo[p]) = Modification(u)
<1>1. todo[p] \in Seq(AccessesOf(p))
  BY DEF RegTypeOK
<1>2. Head(todo[p]) \in AccessesOf(p) /\ Tail(todo[p]) \in Seq(AccessesOf(p))
  BY <1>1
<1>3. PICK h : h = Head(todo[p])
  OBVIOUS
<1>4. h.op = "modify" => \E u \in Updates(p) : h = Modification(u)
  BY <1>2, <1>3 DEF AccessesOf
<1> QED BY <1>2, <1>3, <1>4

(* The types stay when a process goes on with its call, having written     *)
(* back what it read.                                                      *)
LEMMA GoesOn ==
  ASSUME RegTypeOK, NEW p \in RegUser, NEW t \in Seq(AccessesOf(p)),
         todo' = [todo EXCEPT ![p] = t], held' = [held EXCEPT ![p] = Nothing],
         AreRegisters(regs'), generating' \in BOOLEAN,
         settled' = [q \in RegUser |-> settled'[q]],
         \A q \in RegUser : settled'[q] \subseteq Updates(q)
  PROVE  RegTypeOK'
<1>1. /\ todo \in [RegUser -> Seq(AccessesOf("config") \cup AccessesOf("readout"))]
      /\ held = [q \in RegUser |-> held[q]]
  BY DEF RegTypeOK
<1>2. /\ \A q \in RegUser : todo'[q] = IF q = p THEN t ELSE todo[q]
      /\ \A q \in RegUser : held'[q] = IF q = p THEN Nothing ELSE held[q]
  BY <1>1
<1>3. \A q \in RegUser : todo'[q] \in Seq(AccessesOf(q))
  BY <1>2 DEF RegTypeOK
<1>4. \A q \in RegUser : Seq(AccessesOf(q)) \subseteq Seq(AccessesOf("config") \cup AccessesOf("readout"))
  <2>1. \A q \in RegUser : AccessesOf(q) \subseteq AccessesOf("config") \cup AccessesOf("readout")
    BY DEF RegUser
  <2> QED BY <2>1, SeqMonotonic
<1>5. todo' \in [RegUser -> Seq(AccessesOf("config") \cup AccessesOf("readout"))]
  BY <1>1, <1>3, <1>4
<1>6. held' = [q \in RegUser |-> held'[q]]
  BY <1>1
<1>7. ASSUME NEW q \in RegUser, Reading(q)'
      PROVE  HeldRightly(q)'
  <2>1. q # p /\ held'[q] = held[q] /\ todo'[q] = todo[q]
    BY <1>2, <1>7 DEF Reading
  <2>2. HeldRightly(q)
    BY <1>7, <2>1 DEF RegTypeOK, Reading
  <2> QED BY <2>1, <2>2 DEF HeldRightly
<1> QED BY <1>3, <1>5, <1>6, <1>7 DEF RegTypeOK

LEMMA HeldAlready ==
  ASSUME RegTypeOK, NEW p \in RegUser, held[p] = Nothing, UNCHANGED held
  PROVE  held' = [held EXCEPT ![p] = Nothing]
<1> DEFINE h == [q \in RegUser |-> held[q]]
<1>1. held = h
  BY DEF RegTypeOK
<1>2. [h EXCEPT ![p] = h[p]] = h
  OBVIOUS
<1>3. h[p] = Nothing
  OBVIOUS
<1> QED BY <1>1, <1>2, <1>3

LEMMA IdleReadsNothing ==
  ASSUME RegTypeOK, NEW p \in RegUser, todo[p] = <<>>
  PROVE  held[p] = Nothing
BY DEF RegTypeOK, Reading, HeldRightly

(* Nothing but CHANNEL_CSR is written: what was read or written still holds. *)
LEMMA OthersUntouched ==
  ASSUME RegTypeOK, RaceInv, NEW p \in RegUser, held' = [held EXCEPT ![p] = Nothing],
         \A reg \in Modified : regs'[reg] = regs[reg],
         UNCHANGED <<settled, raced>>
  PROVE  RaceInv'
<1>1. \A q \in RegUser : held'[q] = IF q = p THEN Nothing ELSE held[q]
  BY DEF RegTypeOK
<1>2. \A q \in RegUser : Reading(q)' => /\ Reading(q) /\ held'[q] = held[q]
                                      /\ held[q].reg \in Modified /\ held[q].reg # "none"
  BY <1>1 DEF RegTypeOK, Reading, HeldRightly, Modified
<1>3. \A q \in RegUser : Reading(q)' /\ held'[q].reg \notin raced'
                           => held'[q].value = regs'[held'[q].reg]
  BY <1>2 DEF RaceInv
<1>4. ASSUME NEW q \in RegUser, NEW o \in RegUser, q # o, Reading(q)', held'[q].reg = held'[o].reg
      PROVE  held'[q].reg \in raced'
  <2>1. held'[q] = held[q] /\ Reading(q) /\ held[q].reg # "none"
    BY <1>2, <1>4
  <2>2. o # p
    BY <1>1, <1>4, <2>1 DEF Nothing
  <2> QED BY <1>1, <1>4, <2>1, <2>2 DEF RaceInv
<1>5. UpdatesSurvive'
  <2> SUFFICES ASSUME NEW q \in RegUser, NEW u \in settled[q], u.reg \notin raced
               PROVE  regs'[u.reg][u.field] = u.value
    BY DEF UpdatesSurvive
  <2>1. u.reg \in Modified
    <3>1. u \in Updates(q)
      BY DEF RegTypeOK
    <3> QED BY <3>1 DEF Updates, FieldUpdates, Modified
  <2> QED BY <2>1 DEF RaceInv, UpdatesSurvive
<1> QED BY <1>3, <1>4, <1>5 DEF RaceInv

LEMMA CallConfigureKeeps == RegInv /\ CallConfigure => RegInv'
<1> SUFFICES ASSUME RegInv, CallConfigure
             PROVE  RegInv'
  OBVIOUS
<1>1. PICK r \in RegisterRequests :
        /\ todo["config"] = <<>> /\ todo' = [todo EXCEPT !["config"] = ConfigureCrorc(r)]
        /\ UNCHANGED <<regs, laser, held, settled, raced, phase, generating>>
  BY DEF CallConfigure
<1>2. /\ "config" \in RegUser /\ RegTypeOK /\ RaceInv /\ ReceiverInv
      /\ ConfigureCrorc(r) \in Seq(AccessesOf("config"))
  BY ConfigureSteps DEF RegInv, RegUser
<1>3. held' = [held EXCEPT !["config"] = Nothing]
  BY <1>1, <1>2, IdleReadsNothing, HeldAlready
<1>4. RegTypeOK'
  BY <1>1, <1>2, <1>3, GoesOn DEF RegTypeOK
<1>5. RaceInv'
  BY <1>1, <1>2, <1>3, OthersUntouched
<1>6. todo'["readout"] = todo["readout"]
  BY <1>1 DEF RegInv, RegTypeOK, RegUser
<1>7. ReceiverInv'
  BY <1>1, <1>2, <1>6 DEF ReceiverInv, ReceiverFollows, StartingInv, StoppingInv
<1> QED BY <1>4, <1>5, <1>7 DEF RegInv

LEMMA ReadoutCalls == RegInv /\ (CallStart \/ CallStop) => RegInv'
<1> SUFFICES ASSUME RegInv, CallStart \/ CallStop
             PROVE  RegInv'
  OBVIOUS
<1> DEFINE S == AccessesOf("readout")
<1>s. /\ <<ResetStep, ReceiveStep>> \in Seq(S)
      /\ <<ResetStep, ReceiveStep, LoopbackStep, GenerateStep(1)>> \in Seq(S)
      /\ <<FlushStep, QuietStep, QuietStep>> \in Seq(S)
      /\ <<GenerateStep(0), FlushStep, QuietStep, QuietStep>> \in Seq(S)
  <2> HIDE DEF S
  <2>1. /\ ResetStep \in S /\ ReceiveStep \in S /\ LoopbackStep \in S /\ QuietStep \in S
        /\ GenerateStep(0) \in S /\ GenerateStep(1) \in S /\ FlushStep \in S
    BY ReadoutSteps DEF S
  <2> QED BY <2>1
<1>1. PICK t :
        /\ todo["readout"] = <<>> /\ todo' = [todo EXCEPT !["readout"] = t]
        /\ UNCHANGED <<regs, laser, held, settled, raced>> /\ generating' \in BOOLEAN
        /\ t \in Seq(S)
        /\ \/ /\ phase' = "starting"
              /\ t \in {<<ResetStep, ReceiveStep>>,
                        <<ResetStep, ReceiveStep, LoopbackStep, GenerateStep(1)>>}
           \/ /\ phase = "started" /\ phase' = "stopping"
              /\ t \in {<<FlushStep, QuietStep, QuietStep>>,
                        <<GenerateStep(0), FlushStep, QuietStep, QuietStep>>}
  <2>1. CASE CallStart
    <3>1. PICK g \in BOOLEAN :
            /\ todo["readout"] = <<>> /\ todo' = [todo EXCEPT !["readout"] = StartCrorc(g)]
            /\ phase' = "starting" /\ generating' = g
            /\ UNCHANGED <<regs, laser, held, settled, raced>>
      BY <2>1 DEF CallStart
    <3>2. StartCrorc(g) \in {<<ResetStep, ReceiveStep>>,
                             <<ResetStep, ReceiveStep, LoopbackStep, GenerateStep(1)>>}
      <4>1. CASE g = TRUE
        BY <4>1, CallAccesses
      <4>2. CASE g = FALSE
        BY <4>2, CallAccesses
      <4> QED BY <4>1, <4>2
    <3> HIDE DEF S
    <3> QED BY <1>s, <3>1, <3>2
  <2>2. CASE CallStop
    <3>1. /\ todo["readout"] = <<>> /\ todo' = [todo EXCEPT !["readout"] = StopCrorc(generating)]
          /\ phase = "started" /\ phase' = "stopping" /\ generating \in BOOLEAN
          /\ UNCHANGED <<regs, laser, held, settled, raced, generating>>
      BY <2>2 DEF CallStop, RegInv, RegTypeOK
    <3>2. StopCrorc(generating) \in {<<FlushStep, QuietStep, QuietStep>>,
                                     <<GenerateStep(0), FlushStep, QuietStep, QuietStep>>}
      <4>1. CASE generating = TRUE
        BY <4>1, CallAccesses
      <4>2. CASE generating = FALSE
        BY <4>2, CallAccesses
      <4> QED BY <3>1, <4>1, <4>2
    <3> HIDE DEF S
    <3> QED BY <1>s, <3>1, <3>2
  <2> QED BY <2>1, <2>2
<1>2. "readout" \in RegUser /\ RegTypeOK /\ RaceInv /\ ReceiverInv
  BY DEF RegInv, RegUser
<1>3. held' = [held EXCEPT !["readout"] = Nothing]
  BY <1>1, <1>2, IdleReadsNothing, HeldAlready
<1>4. RegTypeOK'
  <2>1. /\ AreRegisters(regs') /\ settled' = [q \in RegUser |-> settled'[q]]
        /\ \A q \in RegUser : settled'[q] \subseteq Updates(q)
    BY <1>1, <1>2 DEF RegTypeOK
  <2> QED BY <1>1, <1>2, <1>3, <2>1, GoesOn
<1>5. RaceInv'
  BY <1>1, <1>2, <1>3, OthersUntouched
<1>6. todo'["readout"] = t
  BY <1>1, <1>2 DEF RegTypeOK
<1>7. ReceiverInv'
  <2>1. CASE phase' = "starting"
    BY <1>1, <1>6, <2>1 DEF ReceiverInv, ReceiverFollows, StartingInv
  <2>2. CASE phase' = "stopping"
    BY <1>1, <1>2, <1>6, <2>2 DEF ReceiverInv, ReceiverFollows, StoppingInv
  <2> QED BY <1>1, <2>1, <2>2
<1> QED BY <1>4, <1>5, <1>7 DEF RegInv

LEMMA ReadForModifyKeeps ==
  ASSUME RegInv, NEW p \in RegUser, ReadForModify(p)
  PROVE  RegInv'
<1> DEFINE reg == Head(todo[p]).reg
<1>1. /\ RegTypeOK /\ RaceInv /\ ReceiverInv
      /\ todo[p] # <<>> /\ held[p] = Nothing /\ Head(todo[p]).op = "modify"
      /\ held' = [held EXCEPT ![p] = [reg |-> reg, value |-> regs[reg]]]
      /\ raced' = raced \cup {reg : q \in {q \in RegUser : held[q].reg = reg}}
      /\ UNCHANGED <<regs, laser, todo, settled, phase, generating>>
  BY DEF ReadForModify, At, Due, RegInv
<1>2. reg \in Modified
  <2>1. PICK u \in Updates(p) : Head(todo[p]) = Modification(u)
    BY <1>1, NextAccess
  <2>2. reg = u.reg
    BY <2>1 DEF Modification
  <2> QED BY <2>1, <2>2 DEF Updates, FieldUpdates, Modified
<1>3. \A q \in RegUser : held'[q] = IF q = p THEN [reg |-> reg, value |-> regs[reg]] ELSE held[q]
  BY <1>1 DEF RegTypeOK
<1> HIDE DEF reg
<1>4. RegTypeOK'
  <2>1. held' = [q \in RegUser |-> held'[q]]
    BY <1>1 DEF RegTypeOK
  <2>2. ASSUME NEW q \in RegUser, Reading(q)'
        PROVE  HeldRightly(q)'
    <3>1. CASE q = p
      <4>1. held'[p] = [reg |-> reg, value |-> regs[reg]]
        BY <1>3
      <4>2. /\ todo'[p] # <<>> /\ Head(todo'[p]).op = "modify" /\ Head(todo'[p]).reg = reg
        BY <1>1 DEF reg
      <4>3. regs[reg] \in [FieldsOf(reg) -> FieldValues]
        BY <1>1, <1>2 DEF RegTypeOK, AreRegisters
      <4> QED BY <1>2, <3>1, <4>1, <4>2, <4>3 DEF HeldRightly
    <3>2. CASE q # p
      <4>1. held'[q] = held[q] /\ todo'[q] = todo[q]
        BY <1>1, <1>3, <3>2
      <4>2. HeldRightly(q)
        BY <1>1, <2>2, <4>1 DEF RegTypeOK, Reading
      <4> QED BY <4>1, <4>2 DEF HeldRightly
    <3> QED BY <3>1, <3>2
  <2> QED BY <1>1, <2>1, <2>2 DEF RegTypeOK
<1>5. RaceInv'
  <2>1. raced \subseteq raced'
    BY <1>1
  <2>2. \A q \in RegUser : Reading(q)' /\ held'[q].reg \notin raced'
                             => held'[q].value = regs'[held'[q].reg]
    BY <1>1, <1>3, <2>1 DEF RaceInv, Reading
  <2>3. ASSUME NEW q \in RegUser, NEW o \in RegUser, q # o, Reading(q)', held'[q].reg = held'[o].reg
        PROVE  held'[q].reg \in raced'
    <3>1. CASE q = p
      <4>1. held'[q].reg = reg /\ held[o].reg = reg
        BY <1>3, <2>3, <3>1
      <4> QED BY <1>1, <4>1
    <3>2. CASE o = p
      <4>1. held'[q].reg = reg /\ held[q].reg = reg
        BY <1>3, <2>3, <3>2
      <4> QED BY <1>1, <4>1
    <3>3. CASE q # p /\ o # p
      BY <1>1, <1>3, <2>1, <2>3, <3>3 DEF RaceInv, Reading
    <3> QED BY <3>1, <3>2, <3>3
  <2>4. UpdatesSurvive'
    BY <1>1, <2>1 DEF RaceInv, UpdatesSurvive
  <2> QED BY <2>2, <2>3, <2>4 DEF RaceInv
<1>6. ReceiverInv'
  BY <1>1 DEF ReceiverInv, ReceiverFollows, StartingInv, StoppingInv
<1> QED BY <1>4, <1>5, <1>6 DEF RegInv

(* The readout goes on: what is left of its call, and the bits by then.    *)
LEMMA ReadoutGoesOn ==
  ASSUME RegTypeOK, ReceiverInv, todo["readout"] # <<>>, Advance("readout"),
         \/ Head(todo["readout"]) \in {GenerateStep(0), GenerateStep(1), FlushStep}
              /\ regs'.csr = regs.csr
         \/ Head(todo["readout"]) = ResetStep /\ regs'.csr = [rx |-> FALSE, loop |-> FALSE]
         \/ Head(todo["readout"]) = ReceiveStep
              /\ regs'.csr = IF regs.csr.rx THEN regs.csr
                             ELSE [rx |-> TRUE, loop |-> FALSE]
         \/ Head(todo["readout"]) = LoopbackStep
              /\ regs'.csr = IF regs.csr.loop THEN regs.csr
                             ELSE [rx |-> regs.csr.rx, loop |-> TRUE]
         \/ Head(todo["readout"]) = QuietStep
              /\ regs'.csr = IF regs.csr.rx THEN [rx |-> FALSE, loop |-> FALSE] ELSE regs.csr
  PROVE  ReceiverInv'
<1> DEFINE t == todo["readout"]
<1>1. /\ todo'["readout"] = Tail(t)
      /\ phase' = IF Len(t) = 1 THEN IF phase = "starting" THEN "started" ELSE "stopped" ELSE phase
  BY DEF Advance, RegTypeOK, RegUser
<1>2. phase \in {"starting", "stopping"}
  BY DEF ReceiverInv
<1>3. /\ ResetStep # ReceiveStep /\ ResetStep # LoopbackStep /\ ResetStep # QuietStep
      /\ ReceiveStep # LoopbackStep /\ ReceiveStep # QuietStep /\ LoopbackStep # QuietStep
      /\ \A x \in {GenerateStep(0), GenerateStep(1), FlushStep} :
           x \notin {ResetStep, ReceiveStep, LoopbackStep, QuietStep}
  BY DEF ResetStep, ReceiveStep, LoopbackStep, QuietStep, GenerateStep, FlushStep, Modification
<1>4. regs.csr \in [rx : BOOLEAN, loop : BOOLEAN]
  BY DEF RegTypeOK, AreRegisters
<1> DEFINE r == ResetStep
           e == ReceiveStep
           l == LoopbackStep
           q == QuietStep
           f == FlushStep
           g0 == GenerateStep(0)
           g1 == GenerateStep(1)
<1>5. CASE phase = "starting"
  <2>1. StartingInv(t)
    BY <1>5 DEF ReceiverInv
  <2>2. CASE t = <<r, e>>
    <3>1. Head(t) = r /\ Tail(t) = <<e>> /\ Len(t) = 2
      BY <2>2, Remainders
    <3>2. regs'.csr = [rx |-> FALSE, loop |-> FALSE]
      BY <1>3, <3>1
    <3>3. todo'["readout"] = <<e>> /\ phase' = "starting"
      BY <1>1, <1>5, <3>1
    <3>4. StartingInv(todo["readout"])'
      BY <3>2, <3>3 DEF StartingInv
    <3> QED BY <3>3, <3>4 DEF ReceiverInv, ReceiverFollows
  <2>3. CASE t = <<r, e, l, g1>>
    <3>1. Head(t) = r /\ Tail(t) = <<e, l, g1>> /\ Len(t) = 4
      BY <2>3, Remainders
    <3>2. regs'.csr = [rx |-> FALSE, loop |-> FALSE]
      BY <1>3, <3>1
    <3>3. todo'["readout"] = <<e, l, g1>> /\ phase' = "starting"
      BY <1>1, <1>5, <3>1
    <3>4. StartingInv(todo["readout"])'
      BY <3>2, <3>3 DEF StartingInv
    <3> QED BY <3>3, <3>4 DEF ReceiverInv, ReceiverFollows
  <2>4. CASE t = <<e>> /\ ~regs.csr.rx /\ ~regs.csr.loop
    <3>1. Head(t) = e /\ Tail(t) = <<>> /\ Len(t) = 1
      BY <2>4, Remainders
    <3>2. regs'.csr.rx
      BY <1>3, <2>4, <3>1
    <3>3. todo'["readout"] = <<>> /\ phase' = "started"
      BY <1>1, <1>5, <3>1
    <3> QED BY <3>2, <3>3 DEF ReceiverInv, ReceiverFollows
  <2>5. CASE t = <<e, l, g1>> /\ ~regs.csr.rx /\ ~regs.csr.loop
    <3>1. Head(t) = e /\ Tail(t) = <<l, g1>> /\ Len(t) = 3
      BY <2>5, Remainders
    <3>2. regs'.csr.rx /\ ~regs'.csr.loop
      BY <1>3, <1>4, <2>5, <3>1
    <3>3. todo'["readout"] = <<l, g1>> /\ phase' = "starting"
      BY <1>1, <1>5, <3>1
    <3>4. StartingInv(todo["readout"])'
      BY <3>2, <3>3 DEF StartingInv
    <3> QED BY <3>3, <3>4 DEF ReceiverInv, ReceiverFollows
  <2>6. CASE t = <<l, g1>> /\ regs.csr.rx /\ ~regs.csr.loop
    <3>1. Head(t) = l /\ Tail(t) = <<g1>> /\ Len(t) = 2
      BY <2>6, Remainders
    <3>2. regs'.csr.rx
      BY <1>3, <2>6, <3>1
    <3>3. todo'["readout"] = <<g1>> /\ phase' = "starting"
      BY <1>1, <1>5, <3>1
    <3>4. StartingInv(todo["readout"])'
      BY <3>2, <3>3 DEF StartingInv
    <3> QED BY <3>3, <3>4 DEF ReceiverInv, ReceiverFollows
  <2>7. CASE t = <<g1>> /\ regs.csr.rx
    <3>1. Head(t) = g1 /\ Tail(t) = <<>> /\ Len(t) = 1
      BY <2>7, Remainders
    <3>2. regs'.csr.rx
      BY <1>3, <2>7, <3>1
    <3>3. todo'["readout"] = <<>> /\ phase' = "started"
      BY <1>1, <1>5, <3>1
    <3> QED BY <3>2, <3>3 DEF ReceiverInv, ReceiverFollows
  <2> HIDE DEF t
  <2> QED BY <2>1, <2>2, <2>3, <2>4, <2>5, <2>6, <2>7 DEF StartingInv
<1>6. CASE phase = "stopping"
  <2>1. StoppingInv(t)
    BY <1>6 DEF ReceiverInv
  <2>2. CASE t = <<g0, f, q, q>> /\ regs.csr.rx
    <3>1. Head(t) = g0 /\ Tail(t) = <<f, q, q>> /\ Len(t) = 4
      BY <2>2, Remainders
    <3>2. regs'.csr.rx
      BY <1>3, <2>2, <3>1
    <3>3. todo'["readout"] = <<f, q, q>> /\ phase' = "stopping"
      BY <1>1, <1>6, <3>1
    <3>4. StoppingInv(todo["readout"])'
      BY <3>2, <3>3 DEF StoppingInv
    <3> QED BY <3>3, <3>4 DEF ReceiverInv, ReceiverFollows
  <2>3. CASE t = <<f, q, q>> /\ regs.csr.rx
    <3>1. Head(t) = f /\ Tail(t) = <<q, q>> /\ Len(t) = 3
      BY <2>3, Remainders
    <3>2. regs'.csr.rx
      BY <1>3, <2>3, <3>1
    <3>3. todo'["readout"] = <<q, q>> /\ phase' = "stopping"
      BY <1>1, <1>6, <3>1
    <3>4. StoppingInv(todo["readout"])'
      BY <3>2, <3>3 DEF StoppingInv
    <3> QED BY <3>3, <3>4 DEF ReceiverInv, ReceiverFollows
  <2>4. CASE t = <<q, q>> /\ regs.csr.rx
    <3>1. Head(t) = q /\ Tail(t) = <<q>> /\ Len(t) = 2
      BY <2>4, Remainders
    <3>2. ~regs'.csr.rx /\ ~regs'.csr.loop
      BY <1>3, <2>4, <3>1
    <3>3. todo'["readout"] = <<q>> /\ phase' = "stopping"
      BY <1>1, <1>6, <3>1
    <3>4. StoppingInv(todo["readout"])'
      BY <3>2, <3>3 DEF StoppingInv
    <3> QED BY <3>3, <3>4 DEF ReceiverInv, ReceiverFollows
  <2>5. CASE t = <<q>> /\ ~regs.csr.rx /\ ~regs.csr.loop
    <3>1. Head(t) = q /\ Tail(t) = <<>> /\ Len(t) = 1
      BY <2>5, Remainders
    <3>2. ~regs'.csr.rx /\ ~regs'.csr.loop
      BY <1>3, <2>5, <3>1
    <3>3. todo'["readout"] = <<>> /\ phase' = "stopped"
      BY <1>1, <1>6, <3>1
    <3> QED BY <3>2, <3>3 DEF ReceiverInv, ReceiverFollows
  <2> HIDE DEF t
  <2> QED BY <2>1, <2>2, <2>3, <2>4, <2>5 DEF StoppingInv
<1> QED BY <1>2, <1>5, <1>6

LEMMA ReadoutHeads ==
  ASSUME ReceiverInv, todo["readout"] # <<>>
  PROVE  /\ Head(todo["readout"]) \in {ResetStep, ReceiveStep, LoopbackStep, QuietStep,
                                      GenerateStep(0), GenerateStep(1), FlushStep}
         /\ Head(todo["readout"]).op = "modify" =>
              Head(todo["readout"]) \in {GenerateStep(0), GenerateStep(1), FlushStep}
<1>1. Head(todo["readout"]) \in {ResetStep, ReceiveStep, LoopbackStep, QuietStep,
                                GenerateStep(0), GenerateStep(1), FlushStep}
  <2>1. phase \in {"starting", "stopping"}
    BY DEF ReceiverInv
  <2>2. CASE phase = "starting"
    BY <2>2, Remainders DEF ReceiverInv, StartingInv
  <2>3. CASE phase = "stopping"
    BY <2>3, Remainders DEF ReceiverInv, StoppingInv
  <2> QED BY <2>1, <2>2, <2>3
<1>2. \A x \in {ResetStep, ReceiveStep, LoopbackStep, QuietStep} : x.op # "modify"
  BY DEF ResetStep, ReceiveStep, LoopbackStep, QuietStep
<1> QED BY <1>1, <1>2

(* A register that was read and is written back loses nothing, unless two  *)
(* modifications of it overlapped.                                         *)
LEMMA WriteBackKeeps ==
  ASSUME RegInv, NEW p \in RegUser, WriteBack(p)
  PROVE  RegInv'
<1>1. /\ RegTypeOK /\ RaceInv /\ ReceiverInv /\ held[p] # Nothing /\ HeldRightly(p)
      /\ held' = [held EXCEPT ![p] = Nothing] /\ Advance(p) /\ UNCHANGED <<laser, raced>>
      /\ todo[p] # <<>>
  BY DEF WriteBack, RegInv, RegTypeOK, Reading, HeldRightly
<1>2. PICK u \in Updates(p) : Head(todo[p]) = Modification(u)
  BY <1>1, NextAccess DEF HeldRightly
<1>3. /\ Head(todo[p]).reg = u.reg /\ Head(todo[p]).field = u.field /\ Head(todo[p]).value = u.value
      /\ u = [reg |-> u.reg, field |-> u.field, value |-> u.value]
      /\ u.reg \in Modified /\ u.field \in FieldsOf(u.reg) /\ u.value \in FieldValues
  <2>1. Modification(u).reg = u.reg /\ Modification(u).field = u.field /\ Modification(u).value = u.value
    BY DEF Modification
  <2>2. /\ u = [reg |-> u.reg, field |-> u.field, value |-> u.value]
        /\ u.reg \in Modified /\ u.field \in FieldsOf(u.reg) /\ u.value \in FieldValues
    BY DEF Updates, FieldUpdates, Modified, FieldsOf
  <2> QED BY <1>2, <2>1, <2>2
<1>4. /\ held[p].reg = u.reg /\ held[p].value \in [FieldsOf(u.reg) -> FieldValues]
  BY <1>1, <1>3 DEF HeldRightly
<1>5. /\ regs' = [regs EXCEPT ![u.reg] = [held[p].value EXCEPT ![u.field] = u.value]]
      /\ settled' = [settled EXCEPT ![p] = {w \in @ : w.field # u.field} \cup {u}]
  BY <1>3 DEF WriteBack
<1>6. /\ AreRegisters(regs') /\ regs'.csr = regs.csr
      /\ \A reg \in Modified : reg # u.reg => regs'[reg] = regs[reg]
      /\ \A f \in FieldsOf(u.reg) : regs'[u.reg][f] = IF f = u.field THEN u.value ELSE held[p].value[f]
  <2>1. AreRegisters(regs)
    BY <1>1 DEF RegTypeOK
  <2>2. PICK v : v = [held[p].value EXCEPT ![u.field] = u.value]
    OBVIOUS
  <2>3. v \in [FieldsOf(u.reg) -> FieldValues]
        /\ \A f \in FieldsOf(u.reg) : v[f] = IF f = u.field THEN u.value ELSE held[p].value[f]
    BY <1>3, <1>4, <2>2
  <2>4. regs' = [regs EXCEPT ![u.reg] = v] /\ u.reg # "csr"
    BY <1>3, <1>5, <2>2 DEF Modified
  <2>5. /\ DOMAIN regs' = Modified \cup {"csr"} /\ regs' = [reg \in DOMAIN regs' |-> regs'[reg]]
        /\ \A reg \in Modified \cup {"csr"} : regs'[reg] = IF reg = u.reg THEN v ELSE regs[reg]
    BY <2>1, <2>4 DEF AreRegisters
  <2>6. regs'.csr = regs.csr
    BY <2>4, <2>5
  <2>7. \A reg \in Modified : regs'[reg] \in [FieldsOf(reg) -> FieldValues]
    BY <2>1, <2>3, <2>5 DEF AreRegisters
  <2>8. AreRegisters(regs')
    BY <2>1, <2>5, <2>6, <2>7 DEF AreRegisters
  <2> QED BY <1>3, <2>3, <2>4, <2>5, <2>6, <2>8
<1>7. \A q \in RegUser : settled'[q] = IF q = p THEN {w \in settled[p] : w.field # u.field} \cup {u}
                                       ELSE settled[q]
  BY <1>1, <1>5 DEF RegTypeOK
<1>8. RegTypeOK'
  <2>1. todo' = [todo EXCEPT ![p] = Tail(todo[p])] /\ generating' = generating
    BY <1>1 DEF Advance
  <2>2. settled' = [q \in RegUser |-> settled'[q]]
    BY <1>1, <1>5 DEF RegTypeOK
  <2>3. \A q \in RegUser : settled'[q] \subseteq Updates(q)
    BY <1>1, <1>2, <1>7 DEF RegTypeOK
  <2>4. Tail(todo[p]) \in Seq(AccessesOf(p)) /\ generating' \in BOOLEAN
    BY <1>1, <2>1, NextAccess DEF RegTypeOK
  <2> QED BY <1>1, <1>6, <2>1, <2>2, <2>3, <2>4, GoesOn
<1>9. \A q \in RegUser : held'[q] = IF q = p THEN Nothing ELSE held[q]
  BY <1>1 DEF RegTypeOK
<1>10. RaceInv'
  <2>1. ASSUME NEW q \in RegUser, Reading(q)', held'[q].reg \notin raced
        PROVE  held'[q].value = regs'[held'[q].reg]
    <3>1. q # p /\ held'[q] = held[q] /\ Reading(q)
      BY <1>9, <2>1 DEF Reading
    <3>2. held[q].reg \in Modified
      BY <1>1, <3>1 DEF RegTypeOK, HeldRightly
    <3>3. held[q].reg # u.reg
      BY <1>1, <1>4, <2>1, <3>1 DEF RaceInv, Reading
    <3>4. held[q].value = regs[held[q].reg]
      BY <1>1, <2>1, <3>1 DEF RaceInv
    <3> QED BY <1>6, <3>1, <3>2, <3>3, <3>4
  <2>2. ASSUME NEW q \in RegUser, NEW o \in RegUser, q # o, Reading(q)', held'[q].reg = held'[o].reg
        PROVE  held'[q].reg \in raced
    <3>1. q # p /\ held'[q] = held[q] /\ Reading(q)
      BY <1>9, <2>2 DEF Reading
    <3>2. held[q].reg \in Modified /\ Nothing.reg \notin Modified
      BY <1>1, <3>1 DEF RegTypeOK, HeldRightly, Nothing, Modified
    <3>3. o # p /\ held'[o] = held[o]
      BY <1>9, <2>2, <3>1, <3>2
    <3> QED BY <1>1, <2>2, <3>1, <3>3 DEF RaceInv
  <2>3. ASSUME NEW q \in RegUser, NEW w \in settled'[q], w.reg \notin raced
        PROVE  regs'[w.reg][w.field] = w.value
    <3>1. CASE w = u
      BY <1>3, <1>6, <3>1
    <3>2. CASE w # u
      <4>1. w \in settled[q] /\ w.reg \in Modified /\ w.field \in FieldsOf(w.reg)
        <5>1. w \in settled[q]
          BY <1>7, <2>3, <3>2
        <5>2. w \in Updates(q)
          BY <1>1, <5>1 DEF RegTypeOK
        <5> QED BY <5>1, <5>2 DEF Updates, FieldUpdates, Modified, FieldsOf
      <4>2. w.field # u.field \/ w.reg # u.reg
        <5>1. CASE q = p
          BY <1>7, <2>3, <3>2, <5>1
        <5>2. CASE q # p
          <6>1. w \in Updates(q)
            BY <1>1, <4>1 DEF RegTypeOK
          <6> QED BY <6>1, <5>2 DEF Updates, FieldUpdates, RegUser
        <5> QED BY <5>1, <5>2
      <4>3. regs[w.reg][w.field] = w.value
        BY <1>1, <2>3, <4>1 DEF RaceInv, UpdatesSurvive
      <4>4. CASE w.reg # u.reg
        BY <1>6, <4>1, <4>3, <4>4
      <4>5. CASE w.reg = u.reg
        <5>1. held[p].value = regs[u.reg]
          BY <1>1, <1>4, <2>3, <4>5 DEF RaceInv, Reading
        <5> QED BY <1>6, <4>1, <4>2, <4>3, <4>5, <5>1
      <4> QED BY <4>4, <4>5
    <3> QED BY <3>1, <3>2
  <2> QED BY <1>1, <2>1, <2>2, <2>3 DEF RaceInv, UpdatesSurvive
<1>11. ReceiverInv'
  <2>1. CASE p = "readout"
    <3>1. Head(todo[p]) \in {GenerateStep(0), GenerateStep(1), FlushStep}
      <4>1. Head(todo[p]).op = "modify" /\ ReceiverInv
        BY <1>1 DEF HeldRightly
      <4> QED BY <4>1, <2>1, <1>1, ReadoutHeads
    <3> QED BY <1>1, <1>6, <2>1, <3>1, ReadoutGoesOn
  <2>2. CASE p # "readout"
    <3>1. todo'["readout"] = todo["readout"] /\ phase' = phase
      BY <1>1, <2>2 DEF Advance, RegTypeOK, RegUser
    <3> QED BY <1>1, <1>6, <3>1 DEF ReceiverInv, ReceiverFollows, StartingInv, StoppingInv
  <2> QED BY <2>1, <2>2
<1> QED BY <1>8, <1>10, <1>11 DEF RegInv

(* The steps of the readout that write CHANNEL_CSR alone.                  *)
CsrStep(op, csr) ==
  /\ At("readout", op) /\ Advance("readout")
  /\ regs' = [regs EXCEPT !.csr = csr]
  /\ UNCHANGED <<laser, held, settled, raced>>

LEMMA ReceiverBit ==
  \A a, b, c : [[rx |-> a, loop |-> b] EXCEPT !.rx = c] = [rx |-> c, loop |-> b]
OBVIOUS

LEMMA CsrSteps ==
  ASSUME RegInv
  PROVE  /\ ResetCsr => CsrStep("reset", [rx |-> FALSE, loop |-> FALSE])
         /\ StartReceiver => CsrStep("receive", IF regs.csr.rx THEN regs.csr
                                                ELSE [rx |-> TRUE, loop |-> FALSE])
         /\ SetLoopback => CsrStep("loop", IF regs.csr.loop THEN regs.csr
                                           ELSE [rx |-> regs.csr.rx, loop |-> TRUE])
         /\ StopReceiver => CsrStep("quiet", IF regs.csr.rx THEN [rx |-> FALSE, loop |-> FALSE]
                                             ELSE regs.csr)
<1>1. PICK x \in BOOLEAN, l \in BOOLEAN : regs.csr = [rx |-> x, loop |-> l]
  BY DEF RegInv, RegTypeOK, AreRegisters
<1>2. regs = [regs EXCEPT !.csr = [rx |-> x, loop |-> l]]
  <2> DEFINE rf == [reg \in DOMAIN regs |-> regs[reg]]
  <2>1. regs = rf /\ "csr" \in DOMAIN regs
    BY DEF RegInv, RegTypeOK, AreRegisters
  <2>2. rf = [rf EXCEPT !.csr = rf["csr"]]
    OBVIOUS
  <2> QED BY <1>1, <2>1, <2>2
<1>8. regs.csr.rx = x /\ regs.csr.loop = l
  BY <1>1
<1>r. [[rx |-> x, loop |-> l] EXCEPT !.rx = TRUE] = [rx |-> TRUE, loop |-> l]
  BY ReceiverBit
<1>q. /\ [rx |-> TRUE, loop |-> l].rx = TRUE /\ [rx |-> TRUE, loop |-> l].loop = l
      /\ [rx |-> FALSE, loop |-> TRUE].rx = FALSE /\ [rx |-> FALSE, loop |-> TRUE].loop = TRUE
  OBVIOUS
<1>4. ResetCsr => CsrStep("reset", [rx |-> FALSE, loop |-> FALSE])
  BY DEF ResetCsr, CsrStep
<1>5. ASSUME StartReceiver
      PROVE  CsrStep("receive", IF x THEN [rx |-> x, loop |-> l] ELSE [rx |-> TRUE, loop |-> FALSE])
  <2>1. CASE x
    BY <1>1, <1>2, <1>5, <2>1 DEF StartReceiver, CsrStep
  <2>2. CASE ~x
    <3>1. [regs.csr EXCEPT !.rx = TRUE] = [rx |-> TRUE, loop |-> l]
      BY <1>1, <1>r
    <3>2. regs' = [regs EXCEPT !.csr = [rx |-> regs.csr.rx # TRUE, loop |-> regs.csr.loop # l]]
      BY <1>5, <1>8, <2>2, <1>q, <3>1 DEF StartReceiver, ToggleCsr
    <3>3. (regs.csr.rx # TRUE) = TRUE /\ (regs.csr.loop # l) = FALSE
      BY <1>8, <2>2
    <3>4. regs' = [regs EXCEPT !.csr = [rx |-> TRUE, loop |-> FALSE]]
      BY <3>2, <3>3
    <3> QED BY <1>5, <2>2, <3>4 DEF StartReceiver, CsrStep
  <2> QED BY <2>1, <2>2
<1>6. ASSUME SetLoopback
      PROVE  CsrStep("loop", IF l THEN [rx |-> x, loop |-> l] ELSE [rx |-> x, loop |-> TRUE])
  <2>1. CASE l
    BY <1>1, <1>2, <1>6, <2>1 DEF SetLoopback, CsrStep
  <2>2. CASE ~l
    <3>2. regs' = [regs EXCEPT !.csr = [rx |-> regs.csr.rx # FALSE, loop |-> regs.csr.loop # TRUE]]
      BY <1>6, <1>8, <2>2, <1>q DEF SetLoopback, ToggleCsr
    <3>3. (regs.csr.rx # FALSE) = x /\ (regs.csr.loop # TRUE) = TRUE
      BY <1>8, <2>2
    <3>1. regs' = [regs EXCEPT !.csr = [rx |-> x, loop |-> TRUE]]
      BY <3>2, <3>3
    <3> QED BY <1>6, <2>2, <3>1 DEF SetLoopback, CsrStep
  <2> QED BY <2>1, <2>2
<1>7. ASSUME StopReceiver
      PROVE  CsrStep("quiet", IF x THEN [rx |-> FALSE, loop |-> FALSE] ELSE [rx |-> x, loop |-> l])
  <2>1. CASE x
    <3>2. regs' = [regs EXCEPT !.csr = [rx |-> regs.csr.rx # regs.csr.rx, loop |-> regs.csr.loop # regs.csr.loop]]
      BY <1>7, <1>8, <2>1 DEF StopReceiver, ToggleCsr
    <3>3. (regs.csr.rx # regs.csr.rx) = FALSE /\ (regs.csr.loop # regs.csr.loop) = FALSE
      OBVIOUS
    <3>1. regs' = [regs EXCEPT !.csr = [rx |-> FALSE, loop |-> FALSE]]
      BY <3>2, <3>3
    <3> QED BY <1>7, <2>1, <3>1 DEF StopReceiver, CsrStep
  <2>2. CASE ~x
    BY <1>1, <1>2, <1>7, <2>2 DEF StopReceiver, CsrStep
  <2> QED BY <2>1, <2>2
<1> QED BY <1>1, <1>4, <1>5, <1>6, <1>7, <1>8

LEMMA CsrKeeps ==
  ASSUME RegInv, ResetCsr \/ StartReceiver \/ SetLoopback \/ StopReceiver
  PROVE  RegInv'
<1> DEFINE t == todo["readout"]
           Took(h, op, csr) == Head(t) = h /\ CsrStep(op, csr)
<1>1. /\ "readout" \in RegUser /\ RegTypeOK /\ RaceInv /\ ReceiverInv
      /\ t # <<>> /\ held["readout"] = Nothing
  BY CsrSteps DEF RegInv, RegUser, CsrStep, At, Due
<1>2. /\ Head(t).op = "reset" => Head(t) = ResetStep
      /\ Head(t).op = "receive" => Head(t) = ReceiveStep
      /\ Head(t).op = "loop" => Head(t) = LoopbackStep
      /\ Head(t).op = "quiet" => Head(t) = QuietStep
  <2>1. \A y \in {ResetStep, ReceiveStep, LoopbackStep, QuietStep,
                  GenerateStep(0), GenerateStep(1), FlushStep} :
          /\ y.op = "reset" => y = ResetStep
          /\ y.op = "receive" => y = ReceiveStep
          /\ y.op = "loop" => y = LoopbackStep
          /\ y.op = "quiet" => y = QuietStep
    BY DEF ResetStep, ReceiveStep, LoopbackStep, QuietStep, GenerateStep, FlushStep, Modification
  <2>2. Head(t) \in {ResetStep, ReceiveStep, LoopbackStep, QuietStep,
                     GenerateStep(0), GenerateStep(1), FlushStep}
    BY <1>1, ReadoutHeads
  <2> QED BY <2>1, <2>2
<1>3. \/ Took(ResetStep, "reset", [rx |-> FALSE, loop |-> FALSE])
      \/ Took(ReceiveStep, "receive", IF regs.csr.rx THEN regs.csr ELSE [rx |-> TRUE, loop |-> FALSE])
      \/ Took(LoopbackStep, "loop", IF regs.csr.loop THEN regs.csr
                                    ELSE [rx |-> regs.csr.rx, loop |-> TRUE])
      \/ Took(QuietStep, "quiet", IF regs.csr.rx THEN [rx |-> FALSE, loop |-> FALSE] ELSE regs.csr)
  BY <1>2, CsrSteps DEF CsrStep, At
<1>4. PICK h, op, csr : Took(h, op, csr) /\ csr \in [rx : BOOLEAN, loop : BOOLEAN]
                        /\ \/ h = ResetStep /\ csr = [rx |-> FALSE, loop |-> FALSE]
                           \/ h = ReceiveStep /\ csr = IF regs.csr.rx THEN regs.csr
                                                       ELSE [rx |-> TRUE, loop |-> FALSE]
                           \/ h = LoopbackStep /\ csr = IF regs.csr.loop THEN regs.csr
                                                        ELSE [rx |-> regs.csr.rx, loop |-> TRUE]
                           \/ h = QuietStep /\ csr = IF regs.csr.rx
                                                     THEN [rx |-> FALSE, loop |-> FALSE] ELSE regs.csr
  <2>1. regs.csr \in [rx : BOOLEAN, loop : BOOLEAN] /\ regs.csr.rx \in BOOLEAN
    BY <1>1 DEF RegTypeOK, AreRegisters
  <2>2. /\ [rx |-> FALSE, loop |-> FALSE] \in [rx : BOOLEAN, loop : BOOLEAN]
        /\ [rx |-> TRUE, loop |-> FALSE] \in [rx : BOOLEAN, loop : BOOLEAN]
        /\ [rx |-> regs.csr.rx, loop |-> TRUE] \in [rx : BOOLEAN, loop : BOOLEAN]
    BY <2>1
  <2> HIDE DEF Took
  <2> QED BY <1>3, <2>1, <2>2
<1>5. /\ regs'.csr = csr /\ \A reg \in Modified : regs'[reg] = regs[reg]
      /\ AreRegisters(regs')
  <2>1. regs' = [regs EXCEPT !.csr = csr]
    BY <1>4 DEF CsrStep
  <2>2. AreRegisters(regs) /\ "csr" \in DOMAIN regs /\ "csr" \notin Modified
    BY <1>1 DEF RegTypeOK, AreRegisters, Modified
  <2>3. regs'.csr = csr /\ DOMAIN regs' = DOMAIN regs /\ \A reg \in Modified : regs'[reg] = regs[reg]
    BY <2>1, <2>2 DEF AreRegisters
  <2>4. regs' = [reg \in DOMAIN regs' |-> regs'[reg]]
    BY <2>1
  <2> QED BY <1>4, <2>2, <2>3, <2>4 DEF AreRegisters
<1>6. /\ Head(t) = h /\ Advance("readout") /\ UNCHANGED <<laser, held, settled, raced>>
  BY <1>4 DEF CsrStep
<1>7. held' = [held EXCEPT !["readout"] = Nothing]
  BY <1>1, <1>6, HeldAlready
<1>8. RegTypeOK'
  <2>1. Tail(t) \in Seq(AccessesOf("readout"))
    BY <1>1, NextAccess
  <2>2. todo' = [todo EXCEPT !["readout"] = Tail(t)] /\ generating' \in BOOLEAN
    BY <1>1, <1>6 DEF Advance, RegTypeOK
  <2>3. /\ settled' = [q \in RegUser |-> settled'[q]]
        /\ \A q \in RegUser : settled'[q] \subseteq Updates(q)
    BY <1>1, <1>6 DEF RegTypeOK
  <2> QED BY <1>1, <1>5, <1>7, <2>1, <2>2, <2>3, GoesOn
<1>9. RaceInv'
  BY <1>1, <1>5, <1>6, <1>7, OthersUntouched
<1>10. ReceiverInv'
  BY <1>1, <1>4, <1>5, <1>6, ReadoutGoesOn
<1> QED BY <1>8, <1>9, <1>10 DEF RegInv

(* A process whose call ends, with nothing written: configure() throws, or *)
(* the process dies.                                                       *)
LEMMA GivesUpKeeps ==
  ASSUME RegInv, NEW p \in RegUser, (ConfigureThrows /\ p = "config") \/ Dies(p)
  PROVE  RegInv'
<1>1. /\ RegTypeOK /\ RaceInv /\ ReceiverInv
      /\ UNCHANGED <<regs, settled, raced, generating>>
      /\ todo' = [todo EXCEPT ![p] = <<>>]
  BY DEF RegInv, ConfigureThrows, Dies
<1>2. held' = [held EXCEPT ![p] = Nothing]
  <2>1. CASE ConfigureThrows /\ p = "config"
    BY <1>1, <2>1, HeldAlready DEF ConfigureThrows, At, Due
  <2>2. CASE Dies(p)
    BY <2>2 DEF Dies
  <2> QED BY <2>1, <2>2
<1>3. RegTypeOK'
  <2>1. /\ AreRegisters(regs') /\ generating' \in BOOLEAN
        /\ settled' = [q \in RegUser |-> settled'[q]]
        /\ \A q \in RegUser : settled'[q] \subseteq Updates(q)
        /\ <<>> \in Seq(AccessesOf(p))
    BY <1>1 DEF RegTypeOK
  <2> QED BY <1>1, <1>2, <2>1, GoesOn
<1>4. RaceInv'
  BY <1>1, <1>2, OthersUntouched
<1>5. /\ todo'["readout"] = IF p = "readout" THEN <<>> ELSE todo["readout"]
      /\ phase' = IF p = "readout" THEN "closed" ELSE phase
  BY <1>1 DEF RegTypeOK, RegUser, ConfigureThrows, Dies
<1>6. ReceiverInv'
  BY <1>1, <1>5 DEF ReceiverInv, ReceiverFollows, StartingInv, StoppingInv
<1> QED BY <1>3, <1>4, <1>6 DEF RegInv

LEMMA EnableLaserKeeps == RegInv /\ EnableLaser => RegInv'
<1> SUFFICES ASSUME RegInv, EnableLaser
             PROVE  RegInv'
  OBVIOUS
<1>1. /\ "config" \in RegUser /\ RegTypeOK /\ RaceInv /\ ReceiverInv
      /\ UNCHANGED <<regs, held, settled, raced, generating, phase>>
      /\ todo' = [todo EXCEPT !["config"] = Tail(todo["config"])]
      /\ todo["config"] # <<>> /\ held["config"] = Nothing
  BY DEF RegInv, RegUser, EnableLaser, At, Due, Advance
<1>2. held' = [held EXCEPT !["config"] = Nothing]
  BY <1>1, HeldAlready
<1>3. RegTypeOK'
  <2>1. /\ AreRegisters(regs') /\ generating' \in BOOLEAN
        /\ settled' = [q \in RegUser |-> settled'[q]]
        /\ \A q \in RegUser : settled'[q] \subseteq Updates(q)
    BY <1>1 DEF RegTypeOK
  <2>2. Tail(todo["config"]) \in Seq(AccessesOf("config"))
    BY <1>1, NextAccess
  <2> QED BY <1>1, <1>2, <2>1, <2>2, GoesOn
<1>4. RaceInv'
  BY <1>1, <1>2, OthersUntouched
<1>5. todo'["readout"] = todo["readout"]
  BY <1>1 DEF RegTypeOK, RegUser
<1>6. ReceiverInv'
  BY <1>1, <1>5 DEF ReceiverInv, ReceiverFollows, StartingInv, StoppingInv
<1> QED BY <1>3, <1>4, <1>6 DEF RegInv

LEMMA RegStep == RegInv /\ [RegNext]_regVars => RegInv'
<1> SUFFICES ASSUME RegInv, [RegNext]_regVars
             PROVE  RegInv'
  OBVIOUS
<1>1. CASE \E p \in RegUser : ReadForModify(p) \/ WriteBack(p) \/ Dies(p)
  BY <1>1, ReadForModifyKeeps, WriteBackKeeps, GivesUpKeeps
<1>2. CASE ConfigureThrows
  <2>1. "config" \in RegUser
    BY DEF RegUser
  <2> QED BY <1>2, <2>1, GivesUpKeeps
<1>3. CASE UNCHANGED regVars
  <2>1. RegTypeOK' /\ RaceInv'
    BY <1>3 DEF RegInv, RegTypeOK, RaceInv, regVars, Reading, HeldRightly, UpdatesSurvive
  <2>2. ReceiverInv'
    BY <1>3 DEF RegInv, ReceiverInv, ReceiverFollows, StartingInv, StoppingInv, regVars
  <2> QED BY <2>1, <2>2 DEF RegInv
<1> QED BY <1>1, <1>2, <1>3, CallConfigureKeeps, ReadoutCalls, EnableLaserKeeps, CsrKeeps DEF RegNext
-----------------------------------------------------------------------------
(* Whatever the tools and the readout do to a C-RORC, and wherever they    *)
(* are interrupted, a completed image is the file's, a serial number is    *)
(* one that was set, and the registers have what was written last.         *)
THEOREM CrorcStaysRight == CardSpec => []CrorcIsRight
<1>1. CardInit => FlashInv /\ RegInv
  BY FlashInitial, RegInitial DEF CardInit
<1>2. FlashInv /\ RegInv /\ [CardNext]_partVars => (FlashInv /\ RegInv)'
  <2>1. [CardNext]_partVars => [FlashNext]_flashVars
    BY DEF CardNext, OthersRest, partVars
  <2>2. [CardNext]_partVars => [RegNext]_regVars
    BY DEF CardNext, OthersRest, partVars
  <2> QED BY <2>1, <2>2, FlashStep, RegStep
<1>3. FlashInv /\ RegInv => CrorcIsRight
  BY DEF CrorcIsRight, FlashIsRight, RegistersAreRight, FlashInv, FirmwareInv, SerialInv,
         RegInv, RaceInv, ReceiverInv
<1> QED BY <1>1, <1>2, <1>3, PTL DEF CardSpec
=============================================================================
