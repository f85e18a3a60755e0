-------------------------- MODULE MCCruConfiguration --------------------------
(* Two links, and requests that differ from a plain one in the switches    *)
(* that share a register with the links, in the links, in the clock with   *)
(* what has to follow a change of it, or in a value that is rejected.      *)
EXTENDS CruConfiguration, TLC

Plain ==
  [clock |-> "local", ponUpstream |-> FALSE, onuAddress |-> 0,
   gbtEnabled |-> TRUE, linkMask |-> Link, gbtMux |-> 0, loopback |-> FALSE,
   datapathMode |-> 0, feeId |-> 0, userLogicEnabled |-> FALSE,
   runStatsEnabled |-> FALSE, userAndCommonLogicEnabled |-> FALSE,
   dynamicOffset |-> FALSE, dropBadRdhEnabled |-> FALSE,
   downstreamData |-> 0, cruId |-> 0, triggerWindowSize |-> 1000,
   timeFrameLength |-> 0]

Switched ==
  {[Plain EXCEPT !.gbtEnabled = g, !.userLogicEnabled = d,
                 !.userAndCommonLogicEnabled = d, !.dynamicOffset = d,
                 !.runStatsEnabled = d] :
     g \in BOOLEAN, d \in BOOLEAN}

Linked ==
  {[Plain EXCEPT !.linkMask = m, !.gbtMux = 1, !.datapathMode = 1] :
     m \in SUBSET Link \ {Link}}

Clocked ==
  {[Plain EXCEPT !.clock = "ttc", !.gbtEnabled = g, !.ponUpstream = TRUE] :
     g \in BOOLEAN}

Rejected ==
  {[Plain EXCEPT !.userAndCommonLogicEnabled = TRUE],
   [Plain EXCEPT !.triggerWindowSize = MaxTriggerWindowSize + 1]}

MCRequests == Switched \cup Linked \cup Clocked \cup Rejected
LinkSymmetry == Permutations(Link)
=============================================================================
