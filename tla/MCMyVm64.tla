------------------------------ MODULE MCMyVm64 ------------------------------
(***************************************************************************)
(* Instances of MyVm64 for TLC.                                            *)
(***************************************************************************)
EXTENDS MyVm64

\* Sizes of a call: none, one and two pages of one byte.
ZeroOneTwo == {0, 1, 2}

=============================================================================
