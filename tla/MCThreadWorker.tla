--------------------------- MODULE MCThreadWorker ---------------------------
(***************************************************************************)
(* Instances of ThreadWorker for TLC.                                      *)
(***************************************************************************)
EXTENDS ThreadWorker

\* Library calls a thread may make.
TwoCallers   == [t \in Threads |-> IF t \in {Main, 1} THEN 1 ELSE 0]
SpinnerOnly  == [t \in Threads |-> IF t = 1 THEN 1 ELSE 0]
WorkersOne   == [t \in Threads |-> IF t = Main THEN 0 ELSE 1]
TwoAndOne    == [t \in Threads |-> IF t = 1 THEN 2 ELSE IF t = 2 THEN 1 ELSE 0]

ZeroQuantums == {0}
NoMutexes    == {}
NoSpinner    == {}
OneSpinner   == {1}
NoPrios      == {}
LowAndHigh   == {LOW_PRIO, HIGH_PRIO}
OnlyHigh     == {HIGH_PRIO}
OnlyMedium   == {HIGH_PRIO - 1}

=============================================================================
