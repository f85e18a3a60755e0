------------------------------ MODULE CrorcFlash ------------------------------
(***************************************************************************)
(* The flash memory of a C-RORC: firmware in its first blocks, the card's  *)
(* serial number in the block after them.  o2-roc-flash writes one or the  *)
(* other; both are interrupted, time out or die between any two words.     *)
(* The chip (external): a word keeps what is written over a blank one, and *)
(* is garbled otherwise.                                                   *)
(***************************************************************************)
EXTENDS Naturals

CONSTANTS Blocks,      \* blocks that are erased for the firmware
          BlockWords,  \* words of a block
          BufferWords, \* words programmed at once (32)
          MaxFile,     \* bound: words of a firmware file
          Serials      \* serial numbers

ASSUME FlashAssumption ==
  /\ Blocks \in Nat \ {0} /\ BlockWords \in Nat \ {0} /\ BufferWords \in Nat \ {0}
  /\ MaxFile \in Nat /\ Serials # {} /\ {"blank", "garbled", "file", "old", "none"} \cap Serials = {}

VARIABLES
  flash,     \* what each word holds
  flashPc,   \* where o2-roc-flash is
  address,   \* its local variable
  buffered,  \* words written to the buffer since the last programming
  fileLeft,  \* words of the file not yet read
  fileWords, \* words of the file
  newSerial, \* the number to set
  interrupt, \* SIGINT was received
  verdict,   \* what the tool said last
  serialMay, \* what the serial number may read as, by what was asked for
  fits       \* no file so far was longer than the firmware's blocks

flashVars == <<flash, flashPc, address, buffered, fileLeft, fileWords, newSerial,
               interrupt, verdict, serialMay, fits>>

Room == Blocks * BlockWords   \* ADDRESS_END is the last block that is erased
Addresses == 0..(Room + BlockWords - 1)
SerialWords == Room..(Room + BlockWords - 1)
BlockAt(a) == a..(a + BlockWords - 1)

FlashInit ==
  /\ \E s \in Serials : /\ flash = [a \in Addresses |-> IF a \in SerialWords THEN s ELSE "old"]
                        /\ serialMay = {s}
  /\ flashPc = "idle" /\ address = 0 /\ buffered = 0 /\ fileLeft = 0 /\ fileWords = 0
  /\ newSerial = "none" /\ interrupt = FALSE /\ verdict = "none" /\ fits = TRUE

(* getSerial(): digits, all written, or no number at all. *)
ReadSerial ==
  IF \E s \in Serials : \A a \in SerialWords : flash[a] = s THEN flash[Room]
  ELSE IF \E a \in SerialWords : flash[a] = "blank" THEN "none" ELSE "garbled"

Erased(words) == [a \in Addresses |-> IF a \in words THEN "blank" ELSE flash[a]]
Written(a, w) == [b \in Addresses |->
                    IF b # a THEN flash[b] ELSE IF flash[b] = "blank" THEN w ELSE "garbled"]

toolVars == <<newSerial, fileWords, serialMay, fits>>

Ends(how) == /\ flashPc' = "idle" /\ verdict' = how
             /\ UNCHANGED <<address, buffered, fileLeft, toolVars>>
             /\ interrupt' = FALSE

(* checkInterrupt() throws to the end of programFlash(). *)
Interrupted == interrupt /\ Ends("interrupted") /\ UNCHANGED flash
(* checkStatus() found no status 0x80 in MAX_WAIT polls, or the flash was   *)
(* stuck for 5000000 in all.                                                *)
Stuck == Ends("threw")
-----------------------------------------------------------------------------
StartTool == flashPc = "idle" /\ verdict' = "none" /\ interrupt' = FALSE

ProgramFirmware == \E n \in 0..MaxFile :
  /\ StartTool
  /\ flashPc' = "erase" /\ address' = 0 /\ buffered' = 0 /\ fileLeft' = n /\ fileWords' = n
  /\ fits' = (fits /\ n <= Room) /\ newSerial' = "none"
  /\ UNCHANGED <<flash, serialMay>>

(* Mutant: the last block is left as it is. *)
EraseFirmware_OffByOne ==
  /\ flashPc = "erase"
  /\ \/ Interrupted
     \/ /\ ~interrupt /\ address + BlockWords < Room
        /\ \/ /\ flash' = Erased(BlockAt(address))
              /\ address' = address + BlockWords
              /\ UNCHANGED <<flashPc, buffered, fileLeft, interrupt, verdict, toolVars>>
           \/ flash' \in {flash, Erased(BlockAt(address))} /\ Stuck
     \/ /\ address + BlockWords >= Room
        /\ flashPc' = "buffer" /\ address' = 0
        /\ UNCHANGED <<flash, buffered, fileLeft, interrupt, verdict, toolVars>>

(* Unlocks and erases one block after the other. *)
EraseFirmware ==
  /\ flashPc = "erase"
  /\ \/ Interrupted
     \/ /\ ~interrupt /\ address < Room
        /\ \/ /\ flash' = Erased(BlockAt(address))
              /\ address' = address + BlockWords
              /\ UNCHANGED <<flashPc, buffered, fileLeft, interrupt, verdict, toolVars>>
           \/ flash' \in {flash, Erased(BlockAt(address))} /\ Stuck
     \/ /\ address = Room
        /\ flashPc' = "buffer" /\ address' = 0
        /\ UNCHANGED <<flash, buffered, fileLeft, interrupt, verdict, toolVars>>

(* One word of the file, if there is one: it ends the loop otherwise.  The  *)
(* last buffer may be short, or empty.                                      *)
WriteFirmware ==
  /\ flashPc = "buffer"
  /\ \/ Interrupted
     \/ buffered = 0 /\ UNCHANGED flash /\ Stuck
     \/ /\ ~interrupt /\ buffered < BufferWords /\ fileLeft > 0
        /\ flash' = IF address \in Addresses THEN Written(address, "file") ELSE flash
        /\ address' = address + 1 /\ buffered' = buffered + 1 /\ fileLeft' = fileLeft - 1
        /\ UNCHANGED <<flashPc, interrupt, verdict, toolVars>>
     \/ /\ buffered = BufferWords \/ fileLeft = 0
        /\ flashPc' = "program"
        /\ UNCHANGED <<flash, address, buffered, fileLeft, interrupt, verdict, toolVars>>

(* The buffer is programmed; the status is polled until it is 0x80.  A      *)
(* buffer that was not full was the last.                                   *)
ProgramBuffer ==
  /\ flashPc = "program"
  /\ \/ Interrupted
     \/ UNCHANGED flash /\ Stuck
     \/ /\ buffered = BufferWords
        /\ flashPc' = "buffer" /\ buffered' = 0
        /\ UNCHANGED <<flash, address, fileLeft, interrupt, verdict, toolVars>>
     \/ /\ buffered < BufferWords
        /\ Ends("completed") /\ UNCHANGED flash
-----------------------------------------------------------------------------
SetSerial == \E s \in Serials :
  /\ StartTool
  /\ flashPc' = "serialErase" /\ newSerial' = s /\ address' = Room
  /\ serialMay' = serialMay \cup {s, "none"}
  /\ UNCHANGED <<flash, buffered, fileLeft, fileWords, fits>>

EraseSerial ==
  /\ flashPc = "serialErase"
  /\ \/ /\ flash' = Erased(SerialWords) /\ flashPc' = "serialWrite"
        /\ UNCHANGED <<address, buffered, fileLeft, interrupt, verdict, toolVars>>
     \/ flash' \in {flash, Erased(SerialWords)} /\ Stuck

(* writeWord(): no interrupt is looked at; the status is, after each word.  *)
WriteSerial ==
  /\ flashPc = "serialWrite"
  /\ \/ /\ address \in SerialWords
        /\ flash' = Written(address, newSerial)
        /\ \/ /\ address' = address + 1
              /\ UNCHANGED <<flashPc, buffered, fileLeft, interrupt, verdict, toolVars>>
           \/ Stuck
     \/ /\ address \notin SerialWords
        /\ flashPc' = "idle" /\ verdict' = "completed" /\ serialMay' = {newSerial}
        /\ UNCHANGED <<flash, address, buffered, fileLeft, fileWords, newSerial, interrupt, fits>>
-----------------------------------------------------------------------------
Sigint == /\ flashPc # "idle" /\ ~interrupt /\ interrupt' = TRUE
          /\ UNCHANGED <<flash, flashPc, address, buffered, fileLeft, verdict, toolVars>>

(* The process is killed, or the computer is switched off. *)
Killed == flashPc # "idle" /\ UNCHANGED flash /\ Ends("none")

FlashNext == \/ ProgramFirmware \/ EraseFirmware \/ WriteFirmware \/ ProgramBuffer
             \/ SetSerial \/ EraseSerial \/ WriteSerial \/ Sigint \/ Killed

FlashSpec == FlashInit /\ [][FlashNext]_flashVars
-----------------------------------------------------------------------------
(* "Completed programming" is said only of a flash that holds the whole file *)
(* and nothing of what was there before, whatever earlier runs left behind.  *)
CompletedMeansProgrammed ==
  verdict = "completed" /\ newSerial = "none" /\ fits =>
    \A a \in 0..(Room - 1) : flash[a] = IF a < fileWords THEN "file" ELSE "blank"

(* The card answers to its serial number, to the one being set, or to none;  *)
(* once it is set, to that alone.  Programming firmware does not touch it,   *)
(* unless the file is longer than the room for it, which nobody checks.      *)
SerialKept == fits => ReadSerial \in serialMay

(* The flash has what its tools say it has (Crorc::programFlash, setSerial). *)
FlashIsRight == CompletedMeansProgrammed /\ SerialKept
=============================================================================
