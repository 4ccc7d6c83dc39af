-------------------------- MODULE MCRequestSession --------------------------
(* RequestSession for TLC: a request of bit rate 0 asks for what "middle"   *)
(* asks for by name.                                                        *)
EXTENDS RequestSession

MCMeaning(r) == IF r = "zero" THEN "middle" ELSE r
=============================================================================
