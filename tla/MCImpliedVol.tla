---------------------------- MODULE MCImpliedVol ----------------------------
(* A small instance of ImpliedVol: an expired contract among the others.    *)
EXTENDS ImpliedVol

MCDtes == {-1, 0, 1}
=============================================================================
