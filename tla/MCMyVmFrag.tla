----------------------------- MODULE MCMyVmFrag -----------------------------
(***************************************************************************)
(* Instances of MyVmFrag for TLC.                                          *)
(***************************************************************************)
EXTENDS MyVmFrag

\* Sizes of a call: a part of a page of three bytes, most of it, all of it.
OneToThree == 1 .. 3

=============================================================================
