---------------------------- MODULE PatternPlayer ----------------------------
(***************************************************************************)
(* The pattern player of a CRU (PatternPlayer.cxx), driven by              *)
(* o2-roc-pat-player and by callers that give its fifteen parameters as    *)
(* text.  The numbers are parsed first, and rejected when they have too    *)
(* many bits.  Then the player is held in its configuration mode while the *)
(* registers are written, and the tool may be killed in the middle of it.  *)
(* A register holds RegisterSize values, a pattern two and a half of them. *)
(***************************************************************************)
EXTENDS Integers, Sequences

CONSTANTS PatternRequests, \* the parameters, numbers as text: a base and digits
          HalfWord,        \* values of half a register, 2^16
          MaxPatternKills

RegisterSize == HalfWord * HalfWord
PatternSize == RegisterSize * RegisterSize * HalfWord

Patterns == 0..3
Numbers == <<"length1", "delay1", "length2", "length3", "select1", "select2",
             "select3", "triggerTF">>
NumberNames == {Numbers[i] : i \in 1..8}

IsText(text) == text.base \in Nat \ {0, 1} /\ text.digits \in Seq(0..text.base-1)
ASSUME PatternAssumption ==
  /\ HalfWord \in Nat \ {0}
  /\ \A r \in PatternRequests :
       /\ DOMAIN r = {"pat", "number", "atStart", "now"}
       /\ DOMAIN r.pat = Patterns /\ DOMAIN r.number = NumberNames
       /\ \A p \in Patterns : IsText(r.pat[p])
       /\ \A f \in NumberNames : IsText(r.number[f])

(* getValueFromString(): digits that would make the number longer than the *)
(* parameter are noticed before they are added.                            *)
Refused == -1
AddDigit(v, digit, base, max) ==
  IF v = Refused \/ v > max \div base \/ v * base > max - digit THEN Refused
  ELSE v * base + digit
Value(text, size) ==
  LET upTo[i \in 0..Len(text.digits)] ==
        IF i = 0 THEN 0 ELSE AddDigit(upTo[i-1], text.digits[i], text.base, size - 1)
  IN  upTo[Len(text.digits)]

(* getInfoFromString(), parseOptionValues() *)
Parsed(r) ==
  [r EXCEPT !.pat = [p \in Patterns |-> Value(@[p], PatternSize)],
            !.number = [f \in NumberNames |-> Value(@[f], RegisterSize)]]
IsRefused(info) ==
  \/ \E p \in Patterns : info.pat[p] = Refused
  \/ \E f \in NumberNames : info.number[f] = Refused
-----------------------------------------------------------------------------
VARIABLES
  player,  \* PATPLAYER_* registers and the data source of the links
  playing, \* what o2-roc-pat-player was called with, parsed
  playStep,\* its next write; 0: none is running
  played,  \* the call that let the player go last
  patternKills

playerVars == <<player, playing, playStep, played, patternKills>>

NoPattern == [pat |-> [p \in Patterns |-> 0],
              number |-> [f \in NumberNames |-> 0],
              atStart |-> FALSE, now |-> {}]

PlayerInit ==
  /\ player = [downstream |-> "ctp", cfg |-> FALSE, atStart |-> FALSE, exe |-> {},
               word |-> [p \in Patterns |-> <<0, 0, 0>>], number |-> NoPattern.number]
  /\ playing = NoPattern /\ playStep = 0 /\ played = NoPattern /\ patternKills = 0

PatternWord(n, k) ==
  CASE k = 1 -> n % RegisterSize
    [] k = 2 -> (n \div RegisterSize) % RegisterSize
    [] k = 3 -> (n \div (RegisterSize * RegisterSize)) % HalfWord

(* The length register of pattern 1 counts its delay, too. *)
NumberWritten(info, f) ==
  IF f = "length1" THEN (info.number["length1"] + info.number["delay1"]) % RegisterSize
  ELSE info.number[f]

(* Writes 3 to 14 are the words of the patterns, 15 to 22 the numbers, and *)
(* after 23 the player is let go.                                          *)
NowWrites(info) ==
  (IF 2 \in info.now THEN <<{2}, {}>> ELSE <<>>) \o (IF 1 \in info.now THEN <<{1}, {}>> ELSE <<>>)
LastWrite(info) == 24 + Len(NowWrites(info))

(* play() *)
PlayerWritten(c, info, n) ==
  CASE n = 1 -> [c EXCEPT !.downstream = "pattern"]
    [] n = 2 -> [c EXCEPT !.cfg = TRUE]
    [] n \in 3..14 -> [c EXCEPT !.word[(n - 3) \div 3][(n % 3) + 1] =
                                  PatternWord(info.pat[(n - 3) \div 3], (n % 3) + 1)]
    [] n \in 15..22 -> [c EXCEPT !.number[Numbers[n - 14]] = NumberWritten(info, Numbers[n - 14])]
    [] n = 23 -> [c EXCEPT !.cfg = FALSE]
    [] n = 24 -> [c EXCEPT !.atStart = info.atStart]
    [] OTHER  -> [c EXCEPT !.exe = NowWrites(info)[n - 24]]

StartPlaying(r) ==
  /\ playStep = 0 /\ ~IsRefused(Parsed(r)) /\ playStep' = 1
  /\ playing' = Parsed(r)
  /\ UNCHANGED <<player, played, patternKills>>

WritePlayer ==
  /\ playStep > 0
  /\ player' = PlayerWritten(player, playing, playStep)
  /\ playStep' = IF playStep = LastWrite(playing) THEN 0 ELSE playStep + 1
  /\ played' = IF player.cfg /\ ~player'.cfg THEN playing ELSE played
  /\ UNCHANGED <<playing, patternKills>>

KillPlayerTool ==
  /\ playStep > 0 /\ patternKills < MaxPatternKills /\ patternKills' = patternKills + 1
  /\ playStep' = 0 /\ UNCHANGED <<player, playing, played>>

PlayerNext ==
  (\E r \in PatternRequests : StartPlaying(r)) \/ WritePlayer \/ KillPlayerTool

(* read(), for --read-back *)
ReadBack ==
  [pat |-> [p \in Patterns |->
     (player.word[p][3] * RegisterSize + player.word[p][2]) * RegisterSize + player.word[p][1]],
   number |-> [player.number EXCEPT !["length1"] = (@ + RegisterSize - player.number["delay1"]) % RegisterSize]]
-----------------------------------------------------------------------------
(* What a text says, and the texts that fit *)
Said(text) ==
  LET upTo[i \in 0..Len(text.digits)] ==
        IF i = 0 THEN 0 ELSE upTo[i-1] * text.base + text.digits[i]
  IN  upTo[Len(text.digits)]
Fits(r) == /\ \A p \in Patterns : Said(r.pat[p]) < PatternSize
           /\ \A f \in NumberNames : Said(r.number[f]) < RegisterSize
TextsAreRead ==
  \A r \in PatternRequests :
    /\ IsRefused(Parsed(r)) <=> ~Fits(r)
    /\ Fits(r) => \A p \in Patterns : Parsed(r).pat[p] = Said(r.pat[p])

(* A player that sends patterns, on a trigger, at the start of a run or    *)
(* now, has those of one call, whole, and a read-back shows the numbers of *)
(* this call as they were asked for.  A text is refused exactly if its     *)
(* number does not fit, which is looked at whenever a call starts          *)
(* (PatternPlayer::play, read, getValueFromString).                        *)
PlaysWhatWasAsked ==
  /\ ~player.cfg => ReadBack = [pat |-> played.pat, number |-> played.number]
  /\ playStep = 1 => TextsAreRead
=============================================================================
