------------------------------ MODULE CruSticky ------------------------------
(***************************************************************************)
(* The sticky bits of a CRU: latches that remember that a GBT link or the  *)
(* ONU was down since they were cleared.  Every report reads and clears    *)
(* them, so that a glitch is told once: by o2-roc-status, by whoever runs  *)
(* it at the same time, or by a monitoring call, which is meant to have a  *)
(* latch of its own for the ONU (TTC_ONU_STICKY_MON) but has the address   *)
(* of the other one (Gbt::getStickyBit, Ttc::getOnuStickyStatus).          *)
(***************************************************************************)
EXTENDS Naturals

CONSTANTS Reporters, MaxGlitches, MaxReporterKills

Lines == {"gbt", "onu"} \* each with one latch

VARIABLES
  up,      \* the lines that are up
  latch,   \* set: was down since it was cleared
  telling, \* what a reporter does: step, latch, and what it read first
  untold,  \* latches whose last glitch no report has told of
  missed,  \* latches cleared by a report that read them before the glitch
  glitches, reporterKills

stickyVars == <<up, latch, telling, untold, missed, glitches, reporterKills>>

Silent == [step |-> "idle", latch |-> "gbt", was |-> FALSE]

StickyInit ==
  /\ up = Lines /\ latch = [l \in Lines |-> FALSE]
  /\ telling = [r \in Reporters |-> Silent]
  /\ untold = {} /\ missed = {} /\ glitches = 0 /\ reporterKills = 0

(* A line goes down, and later up. *)
GoDown(line) ==
  /\ line \in up /\ glitches < MaxGlitches /\ glitches' = glitches + 1
  /\ up' = up \ {line}
  /\ latch' = [latch EXCEPT ![line] = TRUE] /\ untold' = untold \cup {line}
  /\ UNCHANGED <<telling, missed, reporterKills>>
GoUp(line) ==
  /\ line \notin up /\ up' = up \cup {line}
  /\ UNCHANGED <<latch, telling, untold, missed, glitches, reporterKills>>

Tell(r, step) == telling' = [telling EXCEPT ![r].step = step]

(* Mutant: every latch is cleared. *)
ReadLatch_AlwaysClears(r, line) ==
  /\ telling[r].step = "idle"
  /\ telling' = [telling EXCEPT ![r] = [step |-> "clear", latch |-> line, was |-> latch[line]]]
  /\ UNCHANGED <<up, latch, untold, missed, glitches, reporterKills>>

(* The latch is read.  That of a GBT link is left alone if it says up. *)
ReadLatch(r, line) ==
  /\ telling[r].step = "idle"
  /\ telling' = [telling EXCEPT ![r] =
       [step |-> IF line = "gbt" /\ ~latch[line] THEN "idle" ELSE "clear",
        latch |-> line, was |-> latch[line]]]
  /\ UNCHANGED <<up, latch, untold, missed, glitches, reporterKills>>

(* It is cleared, and set again at once by a line that is down. *)
ClearLatch(r) ==
  LET l == telling[r].latch IN
  /\ telling[r].step = "clear" /\ Tell(r, "again")
  /\ latch' = [latch EXCEPT ![l] = l \notin up]
  /\ missed' = IF latch[l] /\ ~telling[r].was THEN missed \cup {l} ELSE missed
  /\ UNCHANGED <<up, untold, glitches, reporterKills>>

(* Read again, and reported: down if it is set, else up, and up but was    *)
(* down if it was set at first.                                            *)
ReadAgain(r) ==
  LET l == telling[r].latch IN
  /\ telling[r].step = "again" /\ Tell(r, "idle")
  /\ untold' = IF latch[l] \/ telling[r].was THEN untold \ {l} ELSE untold
  /\ UNCHANGED <<up, latch, missed, glitches, reporterKills>>

(* A reporter that is killed after it cleared takes the glitch with it. *)
KillReporter(r) ==
  /\ telling[r].step # "idle" /\ reporterKills < MaxReporterKills
  /\ reporterKills' = reporterKills + 1
  /\ telling' = [telling EXCEPT ![r] = Silent]
  /\ untold' = IF telling[r].step = "again" THEN untold \ {telling[r].latch} ELSE untold
  /\ UNCHANGED <<up, latch, missed, glitches>>

StickyNext ==
  \/ \E line \in Lines : GoDown(line) \/ GoUp(line)
  \/ \E r \in Reporters : \/ \E line \in Lines : ReadLatch(r, line)
                          \/ ClearLatch(r) \/ ReadAgain(r) \/ KillReporter(r)
-----------------------------------------------------------------------------
(* No glitch of a GBT link goes untold, whoever else reports at the same   *)
(* time: until a report tells of it, its latch is set or a reporter that   *)
(* will tell of it has cleared it (Gbt::getStickyBit).  Of the ONU one may,*)
(* if it falls between the two accesses of a report (getOnuStickyStatus).  *)
NoGlitchUntold ==
  /\ "gbt" \notin missed
  /\ \A l \in untold \ missed :
       \/ latch[l]
       \/ \E r \in Reporters :
            telling[r].latch = l /\ telling[r].was /\ telling[r].step = "again"
=============================================================================
