---------------------------- MODULE CrorcRegisters ----------------------------
(***************************************************************************)
(* The configuration and control registers of a C-RORC, written by two     *)
(* processes without a lock: the configuration tool (CrorcBar::configure)  *)
(* and the readout (start and stop of DMA).  modifyRegister() reads a      *)
(* register, changes some bits and writes it back, in two accesses.  In    *)
(* CHANNEL_CSR a bit written as one toggles.                               *)
(***************************************************************************)
EXTENDS Naturals, Sequences

CONSTANTS RegisterRequests,   \* what configure() is asked for
          IdBits,     \* width of the C-RORC id (12)
          MaxLength   \* largest time frame length accepted (256)

ASSUME RegistersAssumption ==
  /\ IdBits \in Nat /\ MaxLength \in Nat
  /\ RegisterRequests \subseteq [offset : {0, 1}, id : Nat, length : Nat, detect : {0, 1}]

VARIABLES
  regs,    \* the registers, each a record of its fields
  laser,   \* LINK_STATUS: the QSFP is enabled
  todo,    \* of each process: the accesses of its call that are left
  held,    \* of each process: the register value it read and will write back
  settled, \* of each process: its finished updates
  raced,   \* registers whose read-modify-writes have overlapped
  phase,   \* of the readout: "closed", "starting", "started", "stopping", "stopped"
  generating \* the readout's session is one of the data generator

regVars == <<regs, laser, todo, held, settled, raced, phase, generating>>

RegUser == {"config", "readout"}
Nothing == [reg |-> "none"]

Configured(r) == [control   |-> [offset |-> r.offset, id |-> r.id % 2^IdBits],
                  controlB  |-> [length |-> r.length, detect |-> r.detect, flush |-> 0],
                  generator |-> [on |-> 0],
                  csr       |-> [rx |-> FALSE, loop |-> FALSE]]

RegInit ==
  /\ \E r \in RegisterRequests : regs = Configured(r)
  /\ laser \in BOOLEAN
  /\ todo = [p \in RegUser |-> <<>>] /\ held = [p \in RegUser |-> Nothing]
  /\ settled = [p \in RegUser |-> {}] /\ raced = {} /\ phase = "closed" /\ generating = FALSE
-----------------------------------------------------------------------------
(* The accesses of a call. *)
Modify(reg, field, value) == <<[op |-> "modify", reg |-> reg, field |-> field, value |-> value]>>
Access(op) == <<[op |-> op]>>

SetTimeFrameLength(n) ==
  IF n > MaxLength THEN Access("throw") ELSE Modify("controlB", "length", n)

(* CrorcBar::configure(): a length out of range throws after the first      *)
(* settings are made; an id that is too wide loses its upper bits.          *)
ConfigureCrorc(r) ==
  Access("laser")
  \o Modify("control", "offset", r.offset) \o Modify("control", "id", r.id % 2^IdBits)
  \o SetTimeFrameLength(r.length) \o Modify("controlB", "detect", r.detect)

(* deviceStartDma(), of the internal generator or of the front end *)
StartCrorc(generator) ==
  Access("reset") \o Access("receive")
  \o IF generator THEN Access("loop") \o Modify("generator", "on", 1) ELSE <<>>

(* deviceStopDma(): stopDataReceiver() is called twice. *)
StopCrorc(generator) ==
  (IF generator THEN Modify("generator", "on", 0) ELSE <<>>)
  \o Modify("controlB", "flush", 1) \o Access("quiet") \o Access("quiet")

CallConfigure == \E r \in RegisterRequests :
  /\ todo["config"] = <<>>
  /\ todo' = [todo EXCEPT !["config"] = ConfigureCrorc(r)]
  /\ UNCHANGED <<regs, laser, held, settled, raced, phase, generating>>

CallStart == \E generator \in BOOLEAN :
  /\ todo["readout"] = <<>> /\ phase \in {"closed", "stopped"}
  /\ todo' = [todo EXCEPT !["readout"] = StartCrorc(generator)]
  /\ phase' = "starting" /\ generating' = generator
  /\ UNCHANGED <<regs, laser, held, settled, raced>>

CallStop ==
  /\ todo["readout"] = <<>> /\ phase = "started"
  /\ todo' = [todo EXCEPT !["readout"] = StopCrorc(generating)]
  /\ phase' = "stopping"
  /\ UNCHANGED <<regs, laser, held, settled, raced, generating>>
-----------------------------------------------------------------------------
Due(p) == todo[p] # <<>> /\ held[p] = Nothing
At(p, op) == Due(p) /\ Head(todo[p]).op = op

(* The rest of the call; the last access of the readout's ends its phase.   *)
Advance(p) ==
  /\ todo' = [todo EXCEPT ![p] = Tail(@)]
  /\ phase' = IF p = "readout" /\ Len(todo[p]) = 1
              THEN IF phase = "starting" THEN "started" ELSE "stopped"
              ELSE phase
  /\ UNCHANGED generating

(* modifyRegister(): the read ... *)
ReadForModify(p) ==
  /\ At(p, "modify")
  /\ LET reg == Head(todo[p]).reg
     IN /\ held' = [held EXCEPT ![p] = [reg |-> reg, value |-> regs[reg]]]
        /\ raced' = raced \cup {reg : q \in {q \in RegUser : held[q].reg = reg}}
  /\ UNCHANGED <<regs, laser, todo, settled, phase, generating>>

(* ... and the write.  *)
WriteBack(p) ==
  /\ held[p] # Nothing
  /\ LET step == Head(todo[p])
     IN /\ regs' = [regs EXCEPT ![step.reg] = [held[p].value EXCEPT ![step.field] = step.value]]
        /\ settled' = [settled EXCEPT ![p] =
                         {u \in @ : u.field # step.field}
                         \cup {[reg |-> step.reg, field |-> step.field, value |-> step.value]}]
  /\ held' = [held EXCEPT ![p] = Nothing]
  /\ Advance(p)
  /\ UNCHANGED <<laser, raced>>

(* setQsfpEnabled(): the laser is switched on unless it is. *)
EnableLaser ==
  /\ At("config", "laser")
  /\ laser' = TRUE
  /\ Advance("config")
  /\ UNCHANGED <<regs, held, settled, raced>>

ConfigureThrows ==
  /\ At("config", "throw")
  /\ todo' = [todo EXCEPT !["config"] = <<>>]
  /\ UNCHANGED <<regs, laser, held, settled, raced, phase, generating>>

(* CHANNEL_CSR (external): the bits written as ones are toggled. *)
ToggleCsr(bits) == regs' = [regs EXCEPT !.csr = [rx   |-> @.rx # bits.rx,
                                                 loop |-> @.loop # bits.loop]]

(* resetDevice(): the card's reset switches receiver and loopback off.      *)
ResetCsr ==
  /\ At("readout", "reset")
  /\ regs' = [regs EXCEPT !.csr = [rx |-> FALSE, loop |-> FALSE]]
  /\ Advance("readout")
  /\ UNCHANGED <<laser, held, settled, raced>>

(* startDataReceiver(), setLoopback() *)
StartReceiver ==
  /\ At("readout", "receive")
  /\ IF regs.csr.rx THEN UNCHANGED regs ELSE ToggleCsr([regs.csr EXCEPT !.rx = TRUE])
  /\ Advance("readout")
  /\ UNCHANGED <<laser, held, settled, raced>>

SetLoopback ==
  /\ At("readout", "loop")
  /\ IF regs.csr.loop THEN UNCHANGED regs ELSE ToggleCsr([rx |-> FALSE, loop |-> TRUE])
  /\ Advance("readout")
  /\ UNCHANGED <<laser, held, settled, raced>>

(* stopDataReceiver(): what was read is written back with the receiver's    *)
(* bit, so a loopback that was on is toggled as well.                       *)
StopReceiver ==
  /\ At("readout", "quiet")
  /\ IF regs.csr.rx THEN ToggleCsr(regs.csr) ELSE UNCHANGED regs
  /\ Advance("readout")
  /\ UNCHANGED <<laser, held, settled, raced>>

(* A process dies, between any two accesses. *)
Dies(p) ==
  /\ todo[p] # <<>> \/ (p = "readout" /\ phase = "started")
  /\ todo' = [todo EXCEPT ![p] = <<>>] /\ held' = [held EXCEPT ![p] = Nothing]
  /\ phase' = IF p = "readout" THEN "closed" ELSE phase
  /\ UNCHANGED <<regs, laser, settled, raced, generating>>

RegNext == \/ CallConfigure \/ CallStart \/ CallStop
           \/ (\E p \in RegUser : ReadForModify(p) \/ WriteBack(p) \/ Dies(p))
           \/ EnableLaser \/ ConfigureThrows
           \/ ResetCsr \/ StartReceiver \/ SetLoopback \/ StopReceiver

RegSpec == RegInit /\ [][RegNext]_regVars
-----------------------------------------------------------------------------
(* What a process has written to its bits of a register stays there while    *)
(* the other process writes its own, calls throw and processes die; an       *)
(* update is lost only where two read-modify-writes of a register overlap:   *)
(* configure() and the flush of a stopping readout share CFG_CONTROL_B.      *)
UpdatesSurvive ==
  \A p \in RegUser : \A u \in settled[p] :
    u.reg \notin raced => regs[u.reg][u.field] = u.value

(* The toggled receiver and loopback bits are what the readout takes them    *)
(* for: on after startDma(), off after stopDma(), over crashes and restarts  *)
(* with and without the generator, although stopDma() toggles "twice".       *)
ReceiverFollows ==
  /\ phase = "started" => regs.csr.rx
  /\ phase = "stopped" => ~regs.csr.rx /\ ~regs.csr.loop

(* The registers have what was written to them last (CrorcBar::configure,    *)
(* startDataReceiver, stopDataReceiver).                                     *)
RegistersAreRight == UpdatesSurvive /\ ReceiverFollows
=============================================================================
