---------------------------- MODULE MCLossShaper ----------------------------
(* LossShaper over every rate the spin box offers.                         *)
EXTENDS LossShaper

AllRates == 0 .. 100
=============================================================================
