------------------------------ MODULE RegisterTools ------------------------------
(***************************************************************************)
(* o2-roc-reg-read, -write, -modify and -read-range: registers of a BAR by *)
(* their address, for experts.  Several may run at once on one card, and   *)
(* none takes a lock.  The registers are plain ones here, that hold what   *)
(* was written to them.                                                    *)
(***************************************************************************)
EXTENDS Integers, SequencesExt

CONSTANTS RegTools,
          RegCalls,     \* command lines: [tool, bar, address, value, position, width, range,
                        \* readback]; tool is "read", "write", "modify" or "range"
          Bars,         \* the BARs that the card has
          BarWords,     \* registers in a BAR
          RegisterBits, \* bits of a register (32)
          AddressBits,  \* bits of an address (32)
          LongBits      \* bits of a long without its sign (63)

ASSUME RegisterToolsAssumption ==
  /\ BarWords \in Nat \ {0} /\ RegisterBits \in Nat \ {0}
  /\ AddressBits \in Nat \ {0, 1} /\ LongBits \in Nat /\ LongBits >= AddressBits

VARIABLES
  words,    \* <<bar, index>> -> the bits that are set
  asIf,     \* the same, had every tool done what it was asked at once
  regCall,  \* the command line of each tool
  accesses, \* what it has still to do
  fetched,  \* the bits it has read and will write back
  touched,  \* the registers it has read or written, its last ones when it has ended
  outcome   \* "none", "running", "done" or "refused"

regToolVars == <<words, asIf, regCall, accesses, fetched, touched, outcome>>

(* A number as it is written: a sign, an 0x before it, the value of each   *)
(* digit; 16 is a character that is no digit.                              *)
NumberText(prefix, digits) == [minus |-> FALSE, prefix |-> prefix, digits |-> digits]
NoRegCall == [tool |-> "none"]

RegToolsInit ==
  /\ words = [r \in Bars \X (0..BarWords-1) |-> {}] /\ asIf = words
  /\ regCall = [t \in RegTools |-> NoRegCall] /\ accesses = [t \in RegTools |-> << >>]
  /\ fetched = [t \in RegTools |-> {}] /\ touched = [t \in RegTools |-> {}]
  /\ outcome = [t \in RegTools |-> "none"]
-----------------------------------------------------------------------------
(* What a stream reads: the digits up to the first character that is none. *)
NumberOf(digits, base) == FoldLeft(LAMBDA n, d : base * n + d, 0, digits)
Legible(digits, base) ==
  LET stops == {i \in 1..Len(digits) : digits[i] >= base}
  IN  IF stops = {} THEN digits
      ELSE SubSeq(digits, 1, (CHOOSE i \in stops : \A j \in stops : i <= j) - 1)
Signed(text, n) == IF text.minus THEN -n ELSE n

(* getOptionRegisterAddress(): hexadecimal, with an 0x or without; 0 when   *)
(* it is no number, the largest long when it is too large for one.          *)
LongOf(text) ==
  LET n == NumberOf(Legible(text.digits, 16), 16)
  IN  IF n < 2^LongBits THEN Signed(text, n) ELSE Signed(text, 2^LongBits - 1)
AddressOf(text) == LongOf(text) % 2^AddressBits

(* getOptionRegisterValue() *)
BaseOf(text) == IF text.prefix THEN 16 ELSE 10
ValueIsRead(text) ==
  LET read == Legible(text.digits, BaseOf(text))
  IN  read # << >> /\ NumberOf(read, BaseOf(text)) < 2^RegisterBits
RegisterValue(text) ==
  Signed(text, NumberOf(Legible(text.digits, BaseOf(text)), BaseOf(text))) % 2^RegisterBits
BitsOf(n) == {b \in 0..RegisterBits-1 : (n \div 2^b) % 2 = 1}

(* What the options' checks, getBar() and the constructor of PdaBar refuse *)
Declined(c) ==
  \/ LongOf(c.address) < 0 \/ AddressOf(c.address) % 4 # 0
  \/ c.tool \in {"write", "modify"} /\ ~ValueIsRead(c.value)
  \/ c.tool = "range" /\ c.range < 0
  \/ c.bar \notin Bars

Readback(c) == IF c.readback THEN <<"read">> ELSE << >>
Accesses(c) ==
  CASE c.tool = "read"   -> <<"read">>
    [] c.tool = "range"  -> [i \in 1..c.range |-> "read"]
    [] c.tool = "write"  -> <<"write">> \o Readback(c)
    [] c.tool = "modify" -> Readback(c) \o <<"fetch", "store">> \o Readback(c)

RunRegTool(t, c) ==
  /\ outcome[t] # "running"
  /\ regCall' = [regCall EXCEPT ![t] = c] /\ touched' = [touched EXCEPT ![t] = {}]
  /\ outcome' = [outcome EXCEPT ![t] = IF Declined(c) THEN "refused" ELSE "running"]
  /\ accesses' = [accesses EXCEPT ![t] = IF Declined(c) THEN << >> ELSE Accesses(c)]
  /\ UNCHANGED <<words, asIf, fetched>>

(* read-range goes on to the next register each time.                      *)
RegisterAt(t) ==
  LET c == regCall[t]
      gone == IF c.tool = "range" THEN c.range - Len(accesses[t]) ELSE 0
  IN  <<c.bar, AddressOf(c.address) \div 4 + gone>>
(* isInRange(): the last register is never in range. *)
IsInRange(r) == r[2] + 1 < BarWords

Does(t, names) == accesses[t] # << >> /\ Head(accesses[t]) \in names
Touches(t) ==
  /\ IsInRange(RegisterAt(t))
  /\ accesses' = [accesses EXCEPT ![t] = Tail(@)]
  /\ touched' = [touched EXCEPT ![t] = @ \cup {RegisterAt(t)}]
  /\ UNCHANGED <<regCall, outcome>>

ReadRegister(t) ==
  /\ Does(t, {"read"}) /\ Touches(t) /\ UNCHANGED <<words, asIf, fetched>>
FetchRegister(t) ==
  /\ Does(t, {"fetch"}) /\ Touches(t)
  /\ fetched' = [fetched EXCEPT ![t] = words[RegisterAt(t)]] /\ UNCHANGED <<words, asIf>>

WithBits(bits, position, mask, value) ==
  (bits \ mask) \cup ({position + b : b \in value} \cap mask)
(* setBits() shifts by the width: by all bits of a word is undefined, and   *)
(* leaves a mask of none or of all of them.                                 *)
Masks(c) ==
  {m \cap (0..RegisterBits-1) : m \in
     IF c.width < RegisterBits THEN {c.position..c.position+c.width-1}
     ELSE {{}, c.position..RegisterBits-1}}

(* The help of the options: an address in hex, a value in decimal or, with *)
(* an 0x, in hex, the number of bits to modify.                             *)
IsNumber(text, base, bits) ==
  text.digits # << >> /\ ~text.minus /\ (\A i \in DOMAIN text.digits : text.digits[i] < base)
  /\ NumberOf(text.digits, base) < 2^bits
SaysWhat(c) ==
  /\ IsNumber(c.address, 16, AddressBits) /\ IsNumber(c.value, BaseOf(c.value), RegisterBits)
  /\ c.width < RegisterBits
Named(c) ==
  LET a == NumberOf(c.address.digits, 16) \div 4
  IN  {c.bar} \X (IF c.tool = "range" THEN a..a + c.range - 1 ELSE {a})
AtOnce(c) ==
  LET n == BitsOf(NumberOf(c.value.digits, BaseOf(c.value)))
  IN  [r \in DOMAIN asIf |->
        IF r \notin Named(c) THEN asIf[r]
        ELSE IF c.tool = "write" THEN n
        ELSE {b \in 0..RegisterBits-1 :
                IF b - c.position \in 0..c.width-1 THEN b - c.position \in n ELSE b \in asIf[r]}]

(* Another tool that wrote the register after it was read loses its bits.  *)
StoreRegister(t) ==
  LET c == regCall[t]
      r == RegisterAt(t)
      value == BitsOf(RegisterValue(c.value))
  IN  /\ Does(t, {"write", "store"}) /\ Touches(t)
      /\ \/ c.tool = "write" /\ words' = [words EXCEPT ![r] = value]
         \/ /\ c.tool = "modify"
            /\ \E mask \in Masks(c) :
                 words' = [words EXCEPT ![r] = WithBits(fetched[t], c.position, mask, value)]
      /\ asIf' = IF SaysWhat(c) /\ (c.tool = "modify" => fetched[t] = words[r]) THEN AtOnce(c)
                 ELSE words'
      /\ fetched' = [fetched EXCEPT ![t] = {}]

EndRegTool(t, how) ==
  /\ outcome' = [outcome EXCEPT ![t] = how] /\ accesses' = [accesses EXCEPT ![t] = << >>]
  /\ fetched' = [fetched EXCEPT ![t] = {}] /\ UNCHANGED <<words, asIf, regCall, touched>>
RefuseAccess(t) ==
  accesses[t] # << >> /\ ~IsInRange(RegisterAt(t)) /\ EndRegTool(t, "refused")
FinishRegTool(t) == outcome[t] = "running" /\ accesses[t] = << >> /\ EndRegTool(t, "done")
KillRegTool(t) == accesses[t] # << >> /\ EndRegTool(t, "none")

RegToolsNext ==
  \E t \in RegTools : \/ \E c \in RegCalls : RunRegTool(t, c)
                      \/ ReadRegister(t) \/ FetchRegister(t) \/ StoreRegister(t)
                      \/ RefuseAccess(t) \/ FinishRegTool(t) \/ KillRegTool(t)
-----------------------------------------------------------------------------
(* The registers are as if every tool had done at once what its command    *)
(* line says, or nothing: the tools that were refused or killed too, and   *)
(* with other tools between any two accesses, unless another tool wrote    *)
(* the register between the two of a modify.  A tool that says what it     *)
(* wants touches only registers that it names, and all of them when it     *)
(* ends well (ProgramRegister*::run, PdaBar).                              *)
RegisterToolsAreRight ==
  /\ words = asIf
  /\ \A t \in RegTools : regCall[t] # NoRegCall /\ SaysWhat(regCall[t]) =>
       /\ touched[t] \subseteq Named(regCall[t])
       /\ outcome[t] = "done" => touched[t] = Named(regCall[t])
=============================================================================
