------------------------- MODULE MCStandaloneRuns --------------------------
(***************************************************************************)
(* Instances of StandaloneRuns for TLC.                                    *)
(***************************************************************************)
EXTENDS StandaloneRuns

(* A critical step, and one without a script.               *)
TwoSteps ==
  <<[critical |-> TRUE, always |-> FALSE, script |-> TRUE],
    [critical |-> FALSE, always |-> FALSE, script |-> FALSE]>>
=============================================================================
