------------------------------ MODULE LoopbackTest ------------------------------
(***************************************************************************)
(* o2-roc-loopback: sends an internal pattern through the looped back      *)
(* fibre of a link and shows the link's error count until it is            *)
(* interrupted (ProgramLoopback, Gbt::getLoopbackStats).  Several may run, *)
(* and o2-roc-config beside them.  Most of what they set of a link is in   *)
(* its register SOURCE_SELECT, read, changed and written without a lock;   *)
(* the type of the counter that is sent is one for all links.  A tool      *)
(* works on one link here.                                                 *)
(***************************************************************************)
EXTENDS Naturals, Sequences

CONSTANTS LoopLinks, LoopTools,
          LoopCalls,     \* command lines: [tool, link, pattern, type, mask, reset] of
                         \* o2-roc-loopback, [tool, link, loopback] of o2-roc-config
          MaxBitErrors,  \* counted, and between two settings of a tool
          MaxLoopKills

ASSUME LoopAssumption == \A c \in LoopCalls : c.tool \in {"test", "config"} /\ c.link \in LoopLinks

VARIABLES
  select,      \* SOURCE_SELECT of each link: the bits that are set
  counterType, \* GBT_WRAPPER_TEST_CTRL
  rxMask,      \* GBT_LINK_MASK_LOW, _MED, _HIGH of each link
  errorCount,  \* GBT_LINK_RX_ERROR_COUNT of each link
  testCall,        \* the command line of each tool
  steps,       \* what it has still to do
  latched,     \* SOURCE_SELECT as it has read it, or Unread
  bitErrors,   \* errors of its link since it last set something
  crossed,     \* the tools during whose run another one set something of theirs
  loopKills

loopVars == <<select, counterType, rxMask, errorCount, testCall, steps, latched, bitErrors,
              crossed, loopKills>>

Unread == {"unread"}

(* The command line's defaults *)
DefaultTest(l) == [tool |-> "test", link |-> l, pattern |-> "counter", type |-> "30bit",
                   mask |-> "all", reset |-> TRUE, loopback |-> FALSE]

NoCall == [tool |-> "none", link |-> CHOOSE l \in LoopLinks : TRUE]

LoopInit ==
  /\ select = [l \in LoopLinks |-> {}] /\ rxMask = [l \in LoopLinks |-> "all"]
  /\ counterType \in {"30bit", "8bit"} /\ errorCount = [l \in LoopLinks |-> 0]
  /\ testCall = [t \in LoopTools |-> NoCall]
  /\ steps = [t \in LoopTools |-> << >>] /\ latched = [t \in LoopTools |-> Unread]
  /\ bitErrors = [t \in LoopTools |-> 0] /\ crossed = {} /\ loopKills = 0
-----------------------------------------------------------------------------
(* getLoopbackStats(); of populateLinkMap() what is in the same register.  *)
Plan(c) ==
  CASE c.tool = "config" -> <<"normal", "loopback", "done">>
    [] c.tool = "test" /\ c.reset -> <<"generator", "pattern", "type", "mask", "raise", "lower", "show">>
    [] OTHER -> <<"show">>

RunTool(t, c) ==
  /\ steps[t] = << >>
  /\ testCall' = [testCall EXCEPT ![t] = c] /\ steps' = [steps EXCEPT ![t] = Plan(c)]
  /\ UNCHANGED <<select, counterType, rxMask, errorCount, latched, bitErrors, crossed, loopKills>>

(* The bits of SOURCE_SELECT that a step sets and clears *)
Flag(on, bit) == IF on THEN [set |-> {bit}, clear |-> {}] ELSE [set |-> {}, clear |-> {bit}]
SourceChanges(c) ==
  [generator |-> Flag(TRUE, "generator"), normal |-> Flag(FALSE, "generator"),
   pattern |-> Flag(c.pattern = "static", "static"), loopback |-> Flag(c.loopback, "loopback"),
   raise |-> Flag(TRUE, "errorsReset"), lower |-> Flag(FALSE, "errorsReset")]

LoopStep(t) == Head(steps[t])
AtStep(t, names) == steps[t] # << >> /\ LoopStep(t) \in names
OnSource == {"generator", "normal", "pattern", "loopback", "raise", "lower"}

ReadSource(t) ==
  /\ AtStep(t, OnSource) /\ latched[t] = Unread
  /\ latched' = [latched EXCEPT ![t] = select[testCall[t].link]]
  /\ UNCHANGED <<select, counterType, rxMask, errorCount, testCall, steps, bitErrors, crossed, loopKills>>

(* What t sets is of tools. *)
Sets(t, tools) ==
  /\ steps' = [steps EXCEPT ![t] = Tail(@)]
  /\ bitErrors' = [bitErrors EXCEPT ![t] = 0]
  /\ crossed' = crossed \cup {u \in tools \ {t} : steps[u] # << >>}
SameLink(t) == {u \in LoopTools : testCall[u].link = testCall[t].link}

(* The counter stays at 0 while it is reset.                               *)
WriteSource(t) ==
  LET l == testCall[t].link
      change == SourceChanges(testCall[t])[LoopStep(t)]
  IN  /\ AtStep(t, OnSource) /\ latched[t] # Unread
      /\ select' = [select EXCEPT ![l] = (latched[t] \ change.clear) \cup change.set]
      /\ errorCount' = [errorCount EXCEPT ![l] = IF "errorsReset" \in select'[l] THEN 0 ELSE @]
      /\ latched' = [latched EXCEPT ![t] = Unread]
      /\ Sets(t, SameLink(t))
      /\ UNCHANGED <<counterType, rxMask, testCall, loopKills>>

SetTxCounterType(t) ==
  /\ AtStep(t, {"type"}) /\ counterType' = testCall[t].type
  /\ Sets(t, LoopTools)
  /\ UNCHANGED <<select, rxMask, errorCount, testCall, latched, loopKills>>

SetRxPatternMask(t) ==
  /\ AtStep(t, {"mask"}) /\ rxMask' = [rxMask EXCEPT ![testCall[t].link] = testCall[t].mask]
  /\ Sets(t, SameLink(t))
  /\ UNCHANGED <<select, counterType, errorCount, testCall, latched, loopKills>>

(* It shows the count every second, until SIGINT. *)
Shows(t) == AtStep(t, {"show"})
Stats(t) == errorCount[testCall[t].link]

IsGone(t) ==
  /\ steps' = [steps EXCEPT ![t] = << >>] /\ testCall' = [testCall EXCEPT ![t] = NoCall]
  /\ latched' = [latched EXCEPT ![t] = Unread] /\ bitErrors' = [bitErrors EXCEPT ![t] = 0]
  /\ crossed' = crossed \ {t}
  /\ UNCHANGED <<select, counterType, rxMask, errorCount>>
EndTool(t) == AtStep(t, {"show", "done"}) /\ IsGone(t) /\ UNCHANGED loopKills

KillTool(t) ==
  /\ steps[t] # << >> /\ ~AtStep(t, {"show", "done"}) /\ loopKills < MaxLoopKills
  /\ IsGone(t) /\ loopKills' = loopKills + 1

(* A word comes back with an error. *)
BitError(l) ==
  /\ errorCount[l] < MaxBitErrors
  /\ \A t \in LoopTools : bitErrors[t] < MaxBitErrors
  /\ errorCount' = [errorCount EXCEPT ![l] = IF "errorsReset" \in select[l] THEN 0 ELSE @ + 1]
  /\ bitErrors' = [t \in LoopTools |-> IF Shows(t) /\ testCall[t].link = l THEN bitErrors[t] + 1
                                        ELSE bitErrors[t]]
  /\ UNCHANGED <<select, counterType, rxMask, testCall, steps, latched, crossed, loopKills>>

LoopNext ==
  \/ \E t \in LoopTools : \/ \E c \in LoopCalls : RunTool(t, c)
                          \/ ReadSource(t) \/ WriteSource(t) \/ SetTxCounterType(t)
                          \/ SetRxPatternMask(t) \/ EndTool(t) \/ KillTool(t)
  \/ \E l \in LoopLinks : BitError(l)
-----------------------------------------------------------------------------
(* A test that no other tool crossed counts the errors of its link since   *)
(* it reset the counter, all of them and with the pattern, the counter and *)
(* the mask that were asked for, whatever tools were there before it,      *)
(* killed ones among them (ProgramLoopback::run).                          *)
LoopbackIsRight ==
  \A t \in LoopTools :
    LET c == testCall[t]
    IN  Shows(t) /\ c.reset /\ t \notin crossed =>
          /\ Stats(t) = bitErrors[t]
          /\ "generator" \in select[c.link] /\ ("static" \in select[c.link] <=> c.pattern = "static")
          /\ counterType = c.type /\ rxMask[c.link] = c.mask
=============================================================================
