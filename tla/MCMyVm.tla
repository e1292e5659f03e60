------------------------------- MODULE MCMyVm -------------------------------
(***************************************************************************)
(* Instances of MyVm for TLC.                                              *)
(***************************************************************************)
EXTENDS MyVmRefinement

\* Sizes of a call: within one page of two bytes, and across two.
OneAndThree == {1, 3}

=============================================================================
