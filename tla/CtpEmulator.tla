----------------------------- MODULE CtpEmulator -----------------------------
(***************************************************************************)
(* The CTP emulator of a CRU (CruBar::emulateCtp and the setters of Ttc it *)
(* calls), driven by o2-roc-ctp-emulator.  A start puts the emulator in    *)
(* reset, writes its settings one by one and lets it go.  Each setter may  *)
(* reject its value with an exception, and the tool may be killed, with    *)
(* the rest of the settings those of an earlier call.                      *)
(***************************************************************************)
EXTENDS Integers, Sequences

CONSTANTS CtpRequests,   \* what the tool is called with
          MaxEmulatorKills

MaxBcId == 3563
Inactive == 5            \* a divider too small to send triggers

VARIABLES
  emulator,   \* CTP_EMU_RUNMODE, CTP_EMU_CTRL and the settings
  ctpRequest, \* the call
  ctpTodo,       \* the writes it has still to do
  inForce,    \* the start that let the emulator go last, or {} in reset
  emulatorKills

ctpVars == <<emulator, ctpRequest, ctpTodo, inForce, emulatorKills>>

(* After power-up: manual mode, everything zero. *)
CtpInit ==
  /\ emulator = [mode |-> "manual", reset |-> FALSE, trigger |-> FALSE, orbit |-> 0,
                 phys |-> 0, hc |-> 0, cal |-> 0, fixed |-> 0, bcMax |-> 0,
                 hbMax |-> 0, prescaler |-> <<0, 0>>]
  /\ ctpRequest \in CtpRequests /\ ctpTodo = <<>> /\ inForce = {} /\ emulatorKills = 0
-----------------------------------------------------------------------------
(* The setters: which values they take *)
Takes(register, v) ==
  CASE register = "bcMax" -> v <= MaxBcId
    [] register = "hbMax" -> v <= 65535
    [] register = "prescaler" -> \A n \in {v[1], v[2]} : n >= 2 /\ n <= 65535
    [] register \in {"phys", "hc", "cal"} -> v < 268435456
    [] OTHER -> TRUE

(* setFixedBCTrigger(): the nine slots, all given as 0, which is off *)
FixedBunchCrossing(v) ==
  IF v = 0 THEN 0 ELSE IF v <= 2 THEN MaxBcId - (2 - v) ELSE v - 2

(* Every trigger mode goes through idle. *)
Into(mode) == <<<<"mode", "idle">>, <<"mode", mode>>>>

(* The dividers of a mode: only one sends triggers.  A fixed or continuous *)
(* start leaves the others as they are.                                    *)
Dividers(r) ==
  LET Divide(p, h, c) == <<<<"phys", p>>, <<"hc", h>>, <<"cal", c>>>>
  IN  CASE r.mode = "periodic" -> Divide(r.frequency, Inactive, Inactive)
        [] r.mode = "hc"       -> Divide(Inactive, r.frequency, Inactive)
        [] r.mode = "cal"      -> Divide(Inactive, Inactive, r.frequency)
        [] r.mode = "fixed"    -> <<<<"phys", Inactive>>, <<"fixed", FixedBunchCrossing(0)>>>>
        [] OTHER               -> <<>>
RunMode(r) == IF r.mode \in {"hc", "cal", "fixed"} THEN "periodic" ELSE r.mode

(* Mutant: the emulator is let go before the last settings. *)
Start_LetGoEarly(r) ==
  <<<<"mode", "idle">>, <<"reset", TRUE>>, <<"orbit", r.orbit>>>> \o Dividers(r)
    \o Into(RunMode(r)) \o <<<<"reset", FALSE>>>>
    \o <<<<"bcMax", r.bcMax>>, <<"hbMax", r.hbMax>>, <<"prescaler", r.prescaler>>>>

(* emulateCtp(): resetCtpEmulator(true) is the first two. *)
StartWrites(r) ==
  <<<<"mode", "idle">>, <<"reset", TRUE>>, <<"orbit", r.orbit>>>> \o Dividers(r)
    \o Into(RunMode(r))
    \o <<<<"bcMax", r.bcMax>>, <<"hbMax", r.hbMax>>, <<"prescaler", r.prescaler>>>>
    \o <<<<"reset", FALSE>>>>
EoxWrites == <<<<"mode", "idle">>>>
SingleTriggerWrites == <<<<"trigger", TRUE>>, <<"trigger", FALSE>>>>

CallEmulator(r, writes) ==
  /\ ctpTodo = <<>> /\ ctpRequest' = r /\ ctpTodo' = writes
  /\ UNCHANGED <<emulator, inForce, emulatorKills>>

StartEmulator(r) == CallEmulator(r, StartWrites(r))
SendEox == CallEmulator(ctpRequest, EoxWrites)
SendSingleTrigger == CallEmulator(ctpRequest, SingleTriggerWrites)

WriteSetting ==
  /\ ctpTodo # <<>>
  /\ LET register == Head(ctpTodo)[1]
         v == Head(ctpTodo)[2]
     IN  IF Takes(register, v)
         THEN /\ emulator' = [emulator EXCEPT ![register] = v]
              /\ ctpTodo' = Tail(ctpTodo)
              /\ inForce' = CASE Head(ctpTodo) = <<"reset", TRUE>>  -> {}
                               [] Head(ctpTodo) = <<"reset", FALSE>> -> {ctpRequest}
                               [] OTHER -> inForce
         ELSE ctpTodo' = <<>> /\ UNCHANGED <<emulator, inForce>>
  /\ UNCHANGED <<ctpRequest, emulatorKills>>

KillEmulatorTool ==
  /\ ctpTodo # <<>> /\ emulatorKills < MaxEmulatorKills
  /\ emulatorKills' = emulatorKills + 1 /\ ctpTodo' = <<>>
  /\ UNCHANGED <<emulator, ctpRequest, inForce>>

CtpNext ==
  \/ \E r \in CtpRequests : StartEmulator(r)
  \/ SendEox \/ SendSingleTrigger \/ WriteSetting \/ KillEmulatorTool
-----------------------------------------------------------------------------
(* The emulator sends triggers of its own *)
Sending == emulator.mode \in {"periodic", "continuous"} /\ ~emulator.reset

(* An emulator that sends triggers was let go by a start that completed,   *)
(* and sends what this one asked for: its bunch crossings, heartbeats and  *)
(* prescaling, and, with a divider, triggers of this kind only.  A start   *)
(* that was rejected in the middle, or killed, sends nothing, and neither  *)
(* an EOX nor a single trigger after it changes that (emulateCtp).         *)
SendsWhatWasAsked ==
  Sending => \E r \in inForce :
    /\ emulator.mode = RunMode(r)
    /\ \A f \in {"orbit", "bcMax", "hbMax", "prescaler"} : emulator[f] = r[f]
    /\ r.mode \in {"periodic", "hc", "cal"} =>
         \A i \in 1..3 : emulator[Dividers(r)[i][1]] = Dividers(r)[i][2]
    /\ r.mode = "fixed" => emulator.phys = Inactive
=============================================================================
