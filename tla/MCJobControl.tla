---------------------------- MODULE MCJobControl ----------------------------
(* Instances of JobControl for TLC                                         *)
EXTENDS JobControl

Calm == [fail |-> FALSE, mem |-> FALSE]
Failing == [fail |-> TRUE, mem |-> FALSE]
LowMemory == [fail |-> FALSE, mem |-> TRUE]
MCScenarios == {Calm, Failing, LowMemory}
MCCalm == {Calm}
=============================================================================
